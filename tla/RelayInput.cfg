\* The user types a character and ^D before the program reads.
CONSTANTS
  Inputs <- CharacterAndEOT
  BufSize = 2
  PipeSize = 2
  Symbols = {"o"}
  MaxOutput = 0
SPECIFICATION Spec
INVARIANTS
  InputPassed
