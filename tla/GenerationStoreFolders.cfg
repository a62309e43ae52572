SPECIFICATION Spec
CONSTANTS
  Requests = {r1}
  MaxGenerations = 4
  MaxKills = 2
  PruningRaises = FALSE
  RemovalFails = TRUE
  ReadsFail = TRUE
INVARIANTS
  
  PreviousReadable
