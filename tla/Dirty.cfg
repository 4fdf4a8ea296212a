CONSTANTS
  Player = u1
  UintMod = 65536
  NoUser = NoUser
  NoConn = NoConn
  NoDoc = NoDoc
  Conns = {c1}
  Users = {u1}
  Grants = {g1}
  Owner <- OnePlayer
  GrantUser <- GrantsToOne
  GrantAmount <- TenHearts
  Requests <- ProgressReqs
  InitialDb <- KnownPlayer
  IchanCap = 4
  MaxRequests = 2
  MaxInFlight = 1
  MaxCrashes = 0
  DbFails = FALSE
SPECIFICATION Spec
INVARIANTS DirtyWhenChanged
