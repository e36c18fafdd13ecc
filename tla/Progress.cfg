\* Two runs that are scheduled fairly; run.json can always be written.
SPECIFICATION FairSpec
CONSTANTS
  Runs = {r1, r2}
  None = None
  LastDay = 2
  MonthOf <- OneMonth
  Stateful = TRUE
  RequireChange = TRUE
  Faults = {"snapshot", "current", "evidence"}
  Operator = {"repair"}
\* every run ends and the clock stops
CHECK_DEADLOCK FALSE
PROPERTIES EveryAttemptIsRecorded LocksAreReleased
