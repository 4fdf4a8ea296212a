CONSTANTS
  c1 = c1
  c2 = c2
  u1 = u1
  u2 = u2
  d1 = d1
  None = None
  Conns <- TwoConns
  Users <- TwoUsers
  Dogs <- OneDog
  Requests <- Everything
  FirstDocs <- Docs
  DogDocs <- TheDogs
  Entries <- Tables
  ResChoices <- NoTraining
  MaxSends <- TwoAndOne
  MaxStarts = 2
  MaxTime = 1
SPECIFICATION FairSpec
INVARIANTS TypeOK ServedInOrder LoggedInIsStored
PROPERTIES DocumentKept RequestsSettle
CHECK_DEADLOCK FALSE
