CONSTANTS
  Cards <- ThreeCards
  PlayCounts <- UpToTwo
  MaxAsks = 4
SPECIFICATION FairSpec
INVARIANTS TypeOK TablesInRange TouchOnlyAtRest EndPlayIsWon FreezesOnlyIfHurried
PROPERTIES ShuffleEnds
