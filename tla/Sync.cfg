SPECIFICATION SyncSpec
CONSTANTS
  Waiters = {w1, w2, w3}
  Spurious = TRUE
  MaxRaises = 4
  MaxDebt = 4
  Senders = {s1, s2}
  Receivers = {r1, r2}
  Events = {e1, e2, e3}
  QueueDebt = 2
  Threads = {a, b, c}
  Readers = {a, b, c}
  Writers = {a, b}
  TryReaders = {a}
  TryWriters = {c}
  Upgraders = {b}
  Nesters = {a, c}
  MaxNest = 2
  NoThread = NoThread
  Garbage = {b, NoThread}
  MaxDrift = 3
  Users = {x, y, z}
  NoUser = NoUser
  Timedlock = TRUE
  Nesting <- MCNesting
  MaxDepth = 2
  Allocators = {p, q}
  SizePools = {z1, z2, z3}
  Nil = Nil
  Sizes = {1, 2}
  BlockCount = 2
  MaxLive = 3
  Main = main
  Others = {u}
  Early = {}
  Nobody = nobody
  MaxLogs = 4
  Targets = {"all", "even"}
  Takes <- MCTakes
  MaxSize = 1
  Rotated = 2
INVARIANTS SyncTypeOK NoRaiseWasted ExactlyOnce
  NativeExclusion OneObjectPerBlock LogKept
PROPERTY BoxSpec
SYMMETRY Symmetry
CHECK_DEADLOCK FALSE
