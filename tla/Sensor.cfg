\* The three programs and six inputs; the buffer holds a command and its NL.
CONSTANTS
  Sources = {"tty", "pipe", "tcp", "tls"}
  Streams <- TwoLines
  BufSize = 3
SPECIFICATION Spec
INVARIANTS
  TypeOK
  OneMoreReport
PROPERTIES
  ObeysLines
  CommandsHeard
  EndsWhenAsked
