SPECIFICATION Spec
CONSTANTS
  Ticks <- MCTicks
  Txs <- MCTxs
  Hashes <- MCHashes
  Tip = 3
  MaxOut = 2
  Chains <- MCChains
  NoTx = "none"
  MaxReruns = 1
INVARIANTS TypeOK NoInflation SpentOnChain Agreement
PROPERTIES RerunHarmless
CHECK_DEADLOCK FALSE
