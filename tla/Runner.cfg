\* Two streams whose pipes hold one chunk, a child that may write three to each,
\* reads that fail and a descendant that inherits the pipes.
SPECIFICATION FairSpec
CONSTANTS
  Streams = {out, err}
  Capacity = 1
  MaxChunks = 3
  Faults = {"read", "descendant"}
\* run returns
CHECK_DEADLOCK FALSE
INVARIANTS TypeOK OutputIsComplete NothingLeftBehind
PROPERTIES RunReturns PipesAreDrained
