SPECIFICATION GroupSpec
CONSTANTS
  Owners = {o}
  Workers = {u, v}
  Addresses = {x, y}
  None = None
INVARIANT WorkersTouchTheLiving
CHECK_DEADLOCK FALSE
