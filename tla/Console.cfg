\* One posted run that waits in the queue, one of the command line beside it, two
\* threads that answer the listing, two deaths of the API, one midnight.
SPECIFICATION FairSpec
CONSTANTS
  ConsoleRuns = {c1}
  CliRuns = {k1}
  Queries = {q1, q2}
  Unwritable = {c1, k1}
  None = None
  Workers = 1
  Retention = 1
  LastDay = 2
  Restarts = 2
\* every run ends and the clock stops
CHECK_DEADLOCK FALSE
INVARIANTS TypeOK ListedEndsAreTrue NoFalseDeadline
PROPERTIES EndsAreFinal RowsSettle RunsAreAccountedFor
