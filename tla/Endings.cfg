CONSTANTS
  Player = u1
  UintMod = 65536
  NoUser = NoUser
  NoConn = NoConn
  NoDoc = NoDoc
  Conns = {c1}
  Users = {u1}
  Grants = {g1, g2}
  Owner <- OnePlayer
  GrantUser <- GrantsToOne
  GrantAmount <- TenHearts
  Requests <- GrantReqs
  InitialDb <- Newcomer
  IchanCap = 1
  MaxRequests = 2
  MaxInFlight = 2
  MaxCrashes = 0
  DbFails = FALSE
SPECIFICATION FairSpec
INVARIANTS HandlersReady
PROPERTIES AbandonedSessionEnds CallbackEnds ReaderEnds
