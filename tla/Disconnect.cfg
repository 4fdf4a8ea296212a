CONSTANTS
  UintMod = 65536
  Girls <- TwoGirls
  NETWORK_TIMEOUT = 2
  SCHEDULE_TIMEOUT = 3
  FirstDocs <- OnlyRich
  Devices = {TRUE}
  Queued = {0}
  PurchaseHearts = 5
  MaxAttempts = 2
  MaxSends = 2
  MaxBuys = 1
SPECIFICATION FairSpec
PROPERTIES DisconnectLeadsToStart
