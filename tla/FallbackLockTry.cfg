SPECIFICATION LockSpec
CONSTANTS
  Threads = {a, b, c}
  Readers = {a, b}
  Writers = {c}
  TryReaders = {}
  TryWriters = {c}
  Upgraders = {}
  Nesters = {}
  MaxNest = 1
  NoThread = NoThread
  Garbage = {NoThread}
  MaxDrift = 3
INVARIANT MutualExclusion
CHECK_DEADLOCK FALSE
