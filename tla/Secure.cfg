SPECIFICATION SslSpec
CONSTANTS
  TableSizes = {1, 2}
  Crowded = FALSE
  Brief = {2}
  Day = 50
  Trusted = {"site"}
  MaxConnections = 2
  MaxSaid = 1
  MaxRounds = 3
  Inbuf = 2
  MaxInbuf = 8
  Sites = {"site", "own"}
  Kinds = {"grace", "other", "plain"}
INVARIANTS SslTypeOK StreamsAsSaid EndsAgree SessionsKeptApart
CHECK_DEADLOCK FALSE
