SPECIFICATION Spec
CONSTANTS
  Names <- TlsThenHttp
  Alphabet = {22, 3, 1, 0, 256, 13, 10}
  MaxLength = 7
CHECK_DEADLOCK FALSE
PROPERTIES HoldingNeverFails DoneIsStable
