\* Three threads, two iterations, every value of --sync.
CONSTANTS
  NumThreads = 3
  NumIters = 2
  Syncs = {"NONE", "MUTEX", "SPIN", "CandS"}
SPECIFICATION Spec
INVARIANTS
  TypeOK
  MutualExclusion
  CountIsOutstanding
  FinalCountZero
  ErrorBounded
PROPERTIES
  AddsAreAtomic
  Termination
