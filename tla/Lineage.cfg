\* Three runs over three days of one month; the ETL requires a change (MA Voice).
\* Failures of the stores, crashes and manual repair; the marker can be written
\* and nobody removes a lock.
SPECIFICATION Spec
CONSTANTS
  Runs = {r1, r2, r3}
  None = None
  LastDay = 3
  MonthOf <- OneMonth
  Stateful = TRUE
  RequireChange = TRUE
  Faults = {"snapshot", "current", "crash"}
  Operator = {"repair"}
SYMMETRY RunSymmetry
\* every run ends and the clock stops
CHECK_DEADLOCK FALSE
INVARIANTS MutualExclusion LineageChain CurrentIsLatest PromotionFailedPublishedNothing
PROPERTIES ImplementsLineage
