\* Two threads, two iterations, with and without --sync.
CONSTANTS
  NumThreads = 2
  NumIters = 2
  Keys = {1, 2}
  Syncs = {"NONE", "MUTEX", "SPIN"}
  UnlockedKeys <- CrossedKeys
SPECIFICATION MCSpec
INVARIANTS
  OnlyOwnElements
  NoErrorExit
PROPERTIES
  Termination
