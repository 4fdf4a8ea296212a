CONSTANTS
  c1 = c1
  c2 = c2
  u1 = u1
  u2 = u2
  d1 = d1
  None = None
  Conns <- TwoConns
  Users <- TwoUsers
  Dogs <- OneDog
  Requests <- Feeding
  FirstDocs <- Docs
  DogDocs <- TheDogs
  Entries <- Tables
  ResChoices <- AllTables
  MaxSends <- TwoAndOne
  MaxStarts = 2
  MaxTime = 1
SPECIFICATION FairSpec
PROPERTIES CareTakesEffect
CHECK_DEADLOCK FALSE
