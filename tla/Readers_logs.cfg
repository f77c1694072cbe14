SPECIFICATION Spec
CONSTANTS
  Chains <- MCChains
  Keys <- MCKeys
  MaxCrashes = 1
  Limit = 2
  Supply = 2
  Back = 4
INVARIANTS TypeOK NothingSkipped NameOwner SupplyKept ValuesAgree TotalsRight
PROPERTIES AtMostOnce TweetsArrive ItemOwnerHeals PassesArrive
CHECK_DEADLOCK FALSE
