SPECIFICATION Spec
CONSTANTS
  c1 = c1
  c2 = c2
  Tuples = {c1, c2}
  Proto <- C2IsUdp
  Profile <- TlsThenHttp
  Packets <- HostilePackets
  Ids = {1, 2, 3}
  SeqSpace = 32
  CHECK_DEAD_CONNECTIONS_INTERVAL_SECS = 1
  DEFAULT_CONNECTION_TIMEOUT_SECS = 3
  SYN_TCP_CONNECTION_TIMEOUT_SECS = 2
  ESTAB_TCP_CONNECTION_TIMEOUT_SECS = 4
  FIN_TCP_CONNECTION_TIMEOUT_SECS = 2
  CLOSE_TCP_CONNECTION_TIMEOUT_SECS = 0
  MaxAge = 4
  MaxBack = 0
  SendMayFail = TRUE
CHECK_DEADLOCK FALSE
INVARIANTS TypeOK HeldArePending
PROPERTIES KeepsContract StateOnlyAdvances DoneIsFinal
