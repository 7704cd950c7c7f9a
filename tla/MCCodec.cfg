SPECIFICATION MCSpec
CONSTANTS
  Undefined = Undefined
  RecursionLimit = 11
  PeerLimit = 15
  Depths = {1, 3, 4, 5, 6}
  Instants = {0, 1, 999, 1000, 1500}
  AnyValues <- JSONValues
  Messages <- SampleMessages
  Encode <- encode
  Decode <- decode
  ToJSON <- toJSON
  FromJSON <- fromJSON
  Create <- create
  IPv4 = {"127.0.0.1", "10.0.0.1"}
  IPv6 = {"::1", "2001:db8::1"}
  ShortIPv4 = {"127.1"}
  Begins127 = {"127.0.0.1", "127.1", "127.example.org"}
  Hosts = {"127.0.0.1", "10.0.0.1", "::1", "2001:db8::1", "127.1", "127.example.org",
           "localhost", "LOCALHOST", "signet"}
  Loopback = {"localhost", "LOCALHOST", "127.0.0.1", "127.1", "::1"}
  Texts = {"", "t"}
  Backoff <- MCBackoff
INVARIANTS
  ArrivesAsSent
  DeepDocumentsRefused
  LosesOnlyNulls
  PlaintextIsMeant
  AdminCallsCarryToken
  SopsOpens
  DialsAsPromised
CHECK_DEADLOCK FALSE
