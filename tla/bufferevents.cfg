SPECIFICATION MCSpec
CONSTANTS
  sk = sk
  sd = sd
  pa = pa
  pb = pb
  un = un
  fi = fi
  NoBev = NoBev
  Bevs <- MCBevs
  Kinds <- MCKinds
  Others <- MCOthers
  Deferring = {sd, pa, pb, fi}
  NullFilters = {}
  Highs = {0, 1}
  Rate = 1
  Burst = 2
  MinShare = 1
  MaxLen = 2
  MaxDebt = 1
  MaxFill = 2
  MaxTicks = 1
  SizeMod = 64
  TickMod = 8
  Careful = TRUE
  Parts = {"connect", "socket", "bucket", "group", "pair", "filter"}
INVARIANTS RegisteredAsAsked LimitsSound LivesLongEnough NothingStuck
PROPERTIES ReadsAnnounced
CHECK_DEADLOCK FALSE
