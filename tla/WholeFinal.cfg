\* Two threads without --sync, equal and different keys.
CONSTANTS
  NumThreads = 2
  NumIters = 1
  Keys = {1, 2}
  Syncs = {"NONE"}
SPECIFICATION Spec
INVARIANTS
  FinalListSound
