SPECIFICATION Spec
CONSTANTS
  Faces <- MCFaces
  MaxFrames = 5
  Ratios <- MCRatios
  BlinkMinFrames = 2
  YawTurnDeg = 15
  PitchNodDeg = 15
  MARMouthOpen = 55
INVARIANTS TypeOK ShownIsCredited
PROPERTIES CreditIsEarned StillnessEarnsNothing
