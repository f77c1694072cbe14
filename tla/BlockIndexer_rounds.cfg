SPECIFICATION FairSpec
CONSTANTS
  Pins <- MCPins
  Points <- MCPoints
  Start = 2
  Tip = 5
  Back = 2
  Chains <- MCChains
  MaxFaults = 1
  MaxCrashes = 1
  MaxReindex = 1
INVARIANTS TypeOK InOrder Settled
PROPERTIES EventuallyIndexed
CHECK_DEADLOCK FALSE
