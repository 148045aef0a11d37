CONSTANTS
  Missing = Missing
  EpochChangeTime = 2
  LastEpochIndex = 9
  EpochsPerYear = 2
  StorageYears = 2
  RatioUnit = 10
  PayoutsPerEpoch = 1
  DecimalUnit = 1000
  PercentUnit = 10
  MaxHeight = 5
  MaxTime = 7
  MaxRetries = 1
  DrainFrom = 100
  YearRatio <- DecreasingRatio
  Proposers <- TwoProposers
  Identities <- WithPayee
  Shares <- OneShare
  BlockFees <- SomeFees
  GenesisTimes <- TwoGenesis
SPECIFICATION Spec
INVARIANTS TypeOK BlocksMatchHeights NoCreditsCreated NoCreditsLost HandlersNeverFail GenesisTimeCoherent PaidExactlyOnce
PROPERTIES PoolSpreadAtEpochChange ImplementsRewardLedger
CHECK_DEADLOCK FALSE
