SPECIFICATION Spec
CONSTANTS
  Txs <- MCTxs
  Old <- MCOld
  NoTx = NoTx
  Addresses <- MCAddresses
  Chains <- AnnouncedChains
  Tip = 3
  Back = 1
  MaxFaults = 1
  MaxCrashes = 1
INVARIANT AutomaticallyDeleted
