SPECIFICATION MCSpec

CONSTANTS
  Parts = {"tls"}
  Conns = {c1, c2, c3}
  NoConn = NoConn
  Reqs = {r1, r2, r3}
  Owned = {r2}
  Chunked = {r1, r2}
  Expecting = {r1}
  Bodies = {"none", "length", "chunked", "close", "bad"}
  RetryMax = 1
  ReadOnError = TRUE
  BindFails = FALSE
  Careful = TRUE
  SReqs = {q1, q2}
  NoReq = NoReq
  MaxInput = 2
  Lingering = TRUE
  Incoming = {"get", "post", "chunked", "expect", "other", "huge", "bad", "junk"}
  Tidy = TRUE
  TlsKinds = {"socket"}
  MaxQueued = 2
  BigRecords = TRUE
  Steady = TRUE
  Calls = {a1, a2, a3}
  Pool = {k1, k2}
  Asks = {b1, b2}
  Polite = TRUE
  Tags <- MCTags
  Kind <- MCKind
  Numbers <- MCNumbers
  Longs <- MCLongs
  Payloads <- MCPayloads
  MaxSent = 2
  MaxCalls = 0
  Patient = TRUE

INVARIANTS PendingRead

CHECK_DEADLOCK FALSE
