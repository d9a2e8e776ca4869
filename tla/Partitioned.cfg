\* Two threads, two iterations each, two sublists: with --sync colliding and
\* equal keys, without it crossed ones.
CONSTANTS
  NumThreads = 2
  NumIters = 2
  NumLists = 2
  Keys = {1, 2, 3}
  hash <- MCHash
  Syncs = {"NONE", "MUTEX", "SPIN"}
  KeyChoices <- SyncChoices
  UnlockedChoices <- CrossedChoices
SPECIFICATION MCSpec
INVARIANTS
  MutualExclusion
  QuietListsSound
  NoErrorExit
  LengthBounded
PROPERTIES
  UsesListLegally
  CallsAreAtomic
  Termination
