SPECIFICATION Spec
CONSTANTS
  c1 = c1
  c2 = c2
  Tuples = {c1, c2}
  Proto <- AllTcp
  Profile <- TlsAndHttp
  Packets <- PairPackets
  Ids = {1, 2, 3, 4}
  SeqSpace = 32
  CHECK_DEAD_CONNECTIONS_INTERVAL_SECS = 1
  DEFAULT_CONNECTION_TIMEOUT_SECS = 3
  SYN_TCP_CONNECTION_TIMEOUT_SECS = 2
  ESTAB_TCP_CONNECTION_TIMEOUT_SECS = 4
  FIN_TCP_CONNECTION_TIMEOUT_SECS = 2
  CLOSE_TCP_CONNECTION_TIMEOUT_SECS = 0
  MaxAge = 4
  MaxBack = 0
  SendMayFail = FALSE
PROPERTIES ErrorReleasesHeld
