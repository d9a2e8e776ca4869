\* Three options; two bytes, so that the loop is entered again.
CONSTANTS
  Commands <- ShortCommands
  Text <- TwoBytes
SPECIFICATION Spec
INVARIANTS
  CopyComplete
  NothingElse
