\* Every call may fail, and power may be lost between any two of them.
SPECIFICATION Spec
CONSTANT FailingCalls = {"write", "fsync", "replace", "fsync_directory"}
\* the run ends
CHECK_DEADLOCK FALSE
INVARIANTS NothingTorn SucceededIsPromoted MarkerSurvives
