CONSTANTS
  UintMod = 65536
  Girls <- TwoGirls
  NETWORK_TIMEOUT = 2
  SCHEDULE_TIMEOUT = 3
  FirstDocs <- RichOrOverdrawn
  Devices <- Either
  Queued = {0, 1}
  PurchaseHearts = 5
  MaxAttempts = 2
  MaxSends = 3
  MaxBuys = 1
SPECIFICATION FairSpec
INVARIANTS TypeOK PollingTargetHere StartSettles PlayIsPaidFor StageIsPaidFor ItemsArePaidFor HeartsAgree StageNeverAhead PurchaseCreditedOnce
PROPERTIES AccountKept StartEnds
