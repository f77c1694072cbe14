SPECIFICATION Spec
CONSTANTS
  Workers = {w1}
  Main = w1
  Tip = 2
  Deploys <- LostDeploys
  Mints <- LostMints
  Shovels <- MCShovels
  Names <- MCNames
  Points <- MCPoints
  Deploy <- LostDeploy
  Mint <- LostMint
  Chains <- LostChains
  NoTick = NoTick
  Faulty = TRUE
INVARIANT MintsCounted
