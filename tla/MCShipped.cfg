SPECIFICATION Spec
CONSTANTS
  Deliveries <- TiledDeliveries
  Pipelines <- ShippedProfile
  Findings <- OnlyInTls
  MssValues <- MssPlain
  Blob <- FakePayload
  TcpHdrLen = 32
  MaxLost = 0
  SizeSpace = 65536
  MaxInt = 32767
  SeqSpace = 128
  DEFAULT_CONNECTION_TIMEOUT_SECS = 3
  SYN_TCP_CONNECTION_TIMEOUT_SECS = 2
  ESTAB_TCP_CONNECTION_TIMEOUT_SECS = 4
  FIN_TCP_CONNECTION_TIMEOUT_SECS = 2
  CLOSE_TCP_CONNECTION_TIMEOUT_SECS = 0
CHECK_DEADLOCK FALSE
INVARIANTS CutWhereAsked
