\* The runs alone, with disk failures, crashes and restarts of the API.
SPECIFICATION Spec
CONSTANTS
  Procs = {p1, p2, p3}
  None = None
  Moves = {"disk", "crash", "restart"}
SYMMETRY ProcSymmetry
\* every run ends
CHECK_DEADLOCK FALSE
INVARIANT Exclusive
PROPERTIES ImplementsLock
