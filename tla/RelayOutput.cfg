\* The shell prints two characters and exits; the buffer holds one.
CONSTANTS
  Inputs <- EnterKey
  BufSize = 1
  PipeSize = 2
  Symbols = {"o"}
  MaxOutput = 2
SPECIFICATION Spec
INVARIANTS
  OutputPassed
