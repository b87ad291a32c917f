SPECIFICATION ProgressSpec
CONSTANTS
  Senders = {s1, s2}
  Receivers = {r1}
  Events = {e1, e2, e3}
  Spurious = FALSE
  QueueDebt = 2
  Threads = {a, b, c, d}
  Readers = {a, b, c, d}
  Writers = {a, b, c}
  TryReaders = {a}
  TryWriters = {}
  Upgraders = {}
  Nesters = {a, b}
  MaxNest = 2
  NoThread = NoThread
  Garbage = {a, NoThread}
  MaxDrift = 3
  Callers = {a, b, c}
  Spawners = {a}
  Natives = {n, m}
  MaxShutdowns = 3
  MaxMail = 3
INVARIANTS
  ProgressTypeOK
  NoSleepOverEvents
  MutualExclusion NoSleeperForgotten
PROPERTIES BoxLiveSpec WritersProgress ThreadsLiveOnce ShutdownReturns
CHECK_DEADLOCK FALSE
