\* free_lock and the operator race with the runs.
SPECIFICATION Spec
CONSTANTS
  Procs = {p1, p2, p3}
  None = None
  Moves = {"disk", "crash", "restart", "free_lock", "manual"}
SYMMETRY ProcSymmetry
\* every run ends
CHECK_DEADLOCK FALSE
PROPERTY FreeLockSparesHolders
