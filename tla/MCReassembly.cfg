SPECIFICATION Spec
CONSTANTS
  Length = 5
  Start = 29
  SeqSpace = 32
  DEFAULT_CONNECTION_TIMEOUT_SECS = 3
  SYN_TCP_CONNECTION_TIMEOUT_SECS = 2
  ESTAB_TCP_CONNECTION_TIMEOUT_SECS = 4
  FIN_TCP_CONNECTION_TIMEOUT_SECS = 2
  CLOSE_TCP_CONNECTION_TIMEOUT_SECS = 0
INVARIANTS TypeOK ConcatIsStream ViewsAgreeWhenTiled
