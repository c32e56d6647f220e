SPECIFICATION MCSpec

CONSTANTS
  Parts = {"client"}
  Conns = {c1}
  NoConn = NoConn
  Reqs = {r1, r2}
  Owned = {}
  Chunked = {}
  Expecting = {}
  Bodies = {"none"}
  RetryMax = 2
  ReadOnError = FALSE
  BindFails = FALSE
  Careful = FALSE
  SReqs = {q1}
  NoReq = NoReq
  MaxInput = 2
  Lingering = FALSE
  Incoming = {"get"}
  Tidy = TRUE
  TlsKinds = {"socket", "filter"}
  MaxQueued = 2
  BigRecords = FALSE
  Steady = TRUE
  Calls = {a1, a2, a3}
  Pool = {k1, k2}
  Asks = {b1, b2}
  Polite = TRUE
  Tags <- MCTags
  Kind <- MCKind
  Numbers <- MCNumbers
  Longs <- MCLongs
  Payloads <- MCPayloads
  MaxSent = 2
  MaxCalls = 0
  Patient = TRUE

INVARIANTS NeverFatal

CHECK_DEADLOCK FALSE
