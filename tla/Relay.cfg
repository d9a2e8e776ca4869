\* Buffers and pipes of two characters; the shell may print more than a pipe holds.
CONSTANTS
  Inputs <- ShortInputs
  BufSize = 2
  PipeSize = 2
  Symbols = {"o", "EOT"}
  MaxOutput = 3
SPECIFICATION Spec
INVARIANTS
  InputInOrder
  OutputAccounted
  LeavesNothingBehind
  FailsOnlyAfterEOT
PROPERTIES
  HangupEnds
  EOTEnds
