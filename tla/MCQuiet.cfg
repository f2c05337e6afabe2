SPECIFICATION FairSpec
CONSTANTS
  c1 = c1
  c2 = c2
  Tuples = {c1, c2}
  Proto <- AllTcp
  Profile <- TlsOnly
  Packets <- QuietPackets
  Ids = {1, 2, 3}
  SeqSpace = 32
  CHECK_DEAD_CONNECTIONS_INTERVAL_SECS = 1
  DEFAULT_CONNECTION_TIMEOUT_SECS = 3
  SYN_TCP_CONNECTION_TIMEOUT_SECS = 2
  ESTAB_TCP_CONNECTION_TIMEOUT_SECS = 4
  FIN_TCP_CONNECTION_TIMEOUT_SECS = 2
  CLOSE_TCP_CONNECTION_TIMEOUT_SECS = 0
  MaxAge = 5
  MaxBack = 1
  SendMayFail = FALSE
PROPERTIES QuietIsReleased
