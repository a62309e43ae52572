SPECIFICATION FairSpec
CONSTANTS
  Requests = {r1, r2}
  MaxGenerations = 2
  MaxKills = 0
  PruningRaises = TRUE
  RemovalFails = FALSE
  ReadsFail = FALSE
PROPERTIES
  ImplementsLatest
  Answered
