SPECIFICATION Spec
CONSTANTS
  Ticks <- MCTicks
  Txs <- MCTxs
  Hashes <- MCHashes
  Tip = 3
  MaxOut = 2
  Chains <- RejectedChains
  NoTx = "none"
  MaxReruns = 1
INVARIANT InputsSpent
CHECK_DEADLOCK FALSE
