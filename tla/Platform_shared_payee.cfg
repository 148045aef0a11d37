CONSTANTS
  Missing = Missing
  EpochChangeTime = 2
  LastEpochIndex = 9
  EpochsPerYear = 2
  StorageYears = 2
  RatioUnit = 10
  PayoutsPerEpoch = 2
  DecimalUnit = 1000
  PercentUnit = 10
  MaxHeight = 5
  MaxTime = 4
  MaxRetries = 0
  DrainFrom = 100
  YearRatio <- DecreasingRatio
  Proposers <- TwoProposers
  Identities <- WithPayee
  Shares <- SharedPayee
  BlockFees <- OneFee
  GenesisTimes <- OneGenesis
SPECIFICATION Spec
PROPERTIES PaymentsCredited
CHECK_DEADLOCK FALSE
