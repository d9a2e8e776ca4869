CONSTANTS
  Callers = {1, 2}
  Elms = {0, 1}
  Headers = {2}
  Keys = {1, 2}
SPECIFICATION Spec
INVARIANTS
  HeapTypeOK
  NoNullDereference
  NeverCut
CHECK_DEADLOCK FALSE
