SPECIFICATION Spec
CONSTANTS
  Callers = {a}
  Spawners = {a}
  Natives = {n}
  MaxShutdowns = 1
  MaxMail = 2
  Spurious = FALSE
PROPERTY ShutdownallMeansAll
CHECK_DEADLOCK FALSE
