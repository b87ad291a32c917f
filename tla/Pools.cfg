SPECIFICATION PoolsSpec
CONSTANTS
  Workers = {u, v, w}
  MinThr = 2
  MaxThr = 3
  MaxConns = 2
  MinRounds = 2
  MinOverhead = 1
  GrowRounds = 1
  SkimRounds = 2
  None = None
  Clients = {k, l}
  Uuids = {u1, u2}
  Timeout = 1
  MaxTime = 3
  MaxData = 2
  NoUuid = NoUuid
INVARIANTS
  PoolsTypeOK
  KeepsMinimum ShutdownComplete
  SmtpdPoolKept
PROPERTIES PoolsReturn SessionsKept
CHECK_DEADLOCK FALSE
