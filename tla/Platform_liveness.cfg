CONSTANTS
  Missing = Missing
  EpochChangeTime = 2
  LastEpochIndex = 4
  EpochsPerYear = 2
  StorageYears = 1
  RatioUnit = 10
  PayoutsPerEpoch = 1
  DecimalUnit = 1000
  PercentUnit = 10
  MaxHeight = 9
  MaxTime = 4
  MaxRetries = 1
  DrainFrom = 6
  YearRatio <- OneYear
  Proposers <- TwoProposers
  Identities <- WithPayee
  Shares <- OneShare
  BlockFees <- OneFee
  GenesisTimes <- OneGenesis
SPECIFICATION FairSpec
PROPERTIES EpochsGetPaid
CHECK_DEADLOCK FALSE
