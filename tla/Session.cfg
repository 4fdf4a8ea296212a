CONSTANTS
  Player = u1
  UintMod = 65536
  NoUser = NoUser
  NoConn = NoConn
  NoDoc = NoDoc
  Conns = {c1}
  Users = {u1}
  Grants = {g1}
  Owner <- OnePlayer
  GrantUser <- GrantsToOne
  GrantAmount <- TenHearts
  Requests <- SessionReqs
  InitialDb <- AlmostBroke
  IchanCap = 1
  MaxRequests = 4
  MaxInFlight = 1
  MaxCrashes = 1
  DbFails = TRUE
SPECIFICATION FairSpec
INVARIANTS TypeOK ServedAsAsked AnsweredIsStored
PROPERTIES StartPlayNeverMints ProgressLostOnlyToStaleCopy EveryRequestAnswered
