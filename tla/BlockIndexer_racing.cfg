SPECIFICATION Spec
CONSTANTS
  Pins <- MCPins
  Points <- MCPoints
  Start = 2
  Tip = 5
  Back = 2
  Chains <- RacingChains
  MaxFaults = 1
  MaxCrashes = 1
  MaxReindex = 1
INVARIANT TransferHeightRight
CHECK_DEADLOCK FALSE
