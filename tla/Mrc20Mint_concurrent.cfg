SPECIFICATION Spec
CONSTANTS
  Workers = {w1, w2}
  Main = w1
  Tip = 2
  Deploys <- SmallDeploys
  Mints <- SmallMints
  Shovels <- MCShovels
  Names <- MCNames
  Points <- MCPoints
  Deploy <- SmallDeploy
  Mint <- SmallMint
  Chains <- SmallChains
  NoTick = NoTick
  Faulty = TRUE
INVARIANTS TotalCap MintPaid
