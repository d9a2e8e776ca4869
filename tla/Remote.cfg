\* Buffers and the connection to the server of two characters; the pipes and the
\* connection to the client hold one, so that a line of output fills them.
CONSTANTS
  Inputs <- ShortInputs
  BufSize = 2
  UpSize = 2
  DownSize = 1
  PipeSize = 1
  Symbols = {"o", "EOT"}
  MaxOutput = 2
SPECIFICATION Spec
INVARIANTS
  InputInOrder
  OutputAccounted
  SignalBeforeCharacter
PROPERTIES
  HangupEnds
  EOTEnds
