\* The code against the documentation: free_lock races with a starting run.
SPECIFICATION Spec
CONSTANTS
  Procs = {p1, p2, p3}
  None = None
  Moves = {"free_lock"}
\* every run ends
CHECK_DEADLOCK FALSE
INVARIANTS Exclusive
