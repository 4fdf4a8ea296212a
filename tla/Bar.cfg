CONSTANTS
  Buttons <- Four
  Garments <- Shirt
  FirstLock = 2
  FingerPL <- PLOfFinger
  FingerPI <- PIOfFinger
  StepPL <- PLOfStep
  StepPI <- PIOfStep
SPECIFICATION FairSpec
INVARIANTS TypeOK IdleIsQuiet FaceHasItsSound
PROPERTIES BarRunsDown
