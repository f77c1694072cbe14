SPECIFICATION Spec
CONSTANTS
  Stories <- MCStories
  Dust <- MCDust
  Small <- MCSmall
INVARIANTS TypeOK SatsFollowed AssetsKept BalanceRight NoStranded
CHECK_DEADLOCK FALSE
