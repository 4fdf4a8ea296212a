CONSTANTS
  Player = u1
  UintMod = 65536
  NoUser = NoUser
  NoConn = NoConn
  NoDoc = NoDoc
  Conns = {c1}
  Users = {u1, u2}
  Grants = {}
  Owner <- NewDevice
  GrantUser <- GrantsToOne
  GrantAmount <- TenHearts
  Requests <- AllReqs
  InitialDb <- Newcomer
  IchanCap = 4
  MaxRequests = 3
  MaxInFlight = 2
  MaxCrashes = 0
  DbFails = FALSE
SPECIFICATION Spec
INVARIANTS ServedAsAsked
