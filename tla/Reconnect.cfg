CONSTANTS
  Player = u1
  UintMod = 65536
  NoUser = NoUser
  NoConn = NoConn
  NoDoc = NoDoc
  Conns = {c1, c2}
  Users = {u1}
  Grants = {}
  Owner <- OnePlayer
  GrantUser <- GrantsToOne
  GrantAmount <- TenHearts
  Requests <- ProgressReqs
  InitialDb <- NewOrKnown
  IchanCap = 4
  MaxRequests = 2
  MaxInFlight = 1
  MaxCrashes = 0
  DbFails = TRUE
SPECIFICATION Spec
INVARIANTS OnlineEntryLive ProgressSaved AnsweredIsStored
PROPERTIES ProgressLostOnlyToStaleCopy
