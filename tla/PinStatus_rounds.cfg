SPECIFICATION Spec
CONSTANTS
  Pins <- MCPins
  NoPin = NoPin
  Addresses <- MCAddresses
  Tip = 5
  Back = 2
  Chains <- MCChains
  MaxFaults = 1
  MaxCrashes = 1
  MaxReindex = 1
INVARIANTS TypeOK Numbers OnlyOwners ModifiedOnce StatusHeals InfoHeals
CHECK_DEADLOCK FALSE
