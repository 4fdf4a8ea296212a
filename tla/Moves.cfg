CONSTANTS
  Cards <- ThreeCards
  PlayCounts <- UpToTwo
  MaxAsks = 2
SPECIFICATION Spec
INVARIANTS MovesCounted
