SPECIFICATION Spec
CONSTANTS
  Workers = {w1}
  Main = w1
  Tip = 3
  Deploys <- MCDeploys
  Mints <- MCMints
  Shovels <- MCShovels
  Names <- MCNames
  Points <- MCPoints
  Deploy <- MCDeploy
  Mint <- MCMint
  Chains <- MCChains
  NoTick = NoTick
  Faulty = FALSE
INVARIANTS TypeOK BooksBalance ShovelsPaid NamesUnique
PROPERTIES RerunHarmless
