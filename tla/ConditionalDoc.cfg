SPECIFICATION Spec
CONSTANTS
  Waiters = {a, b, c}
  Spurious = FALSE
  MaxRaises = 4
  MaxDebt = 4
PROPERTY SleepUntilRaised
CHECK_DEADLOCK FALSE
