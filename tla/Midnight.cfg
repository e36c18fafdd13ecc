\* Two runs over three days, the last one in another month, with every failure
\* and manual intervention; the ETL accepts an unchanged state (MA Chat).
SPECIFICATION Spec
CONSTANTS
  Runs = {r1, r2}
  None = None
  LastDay = 3
  MonthOf <- MonthEndsOnDayTwo
  Stateful = TRUE
  RequireChange = FALSE
  Faults = {"metadata", "lock", "release", "snapshot", "current", "evidence", "crash"}
  Operator = {"unlock", "repair"}
SYMMETRY RunSymmetry
\* every run ends and the clock stops
CHECK_DEADLOCK FALSE
INVARIANTS TypeOK SuccessIsPublished
PROPERTIES DaysInOrder SnapshotsImmutable ImplementsMonthLocks
