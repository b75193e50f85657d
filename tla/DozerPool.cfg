\* One pool under every single-pool method, with time.
SPECIFICATION PoolSpec
CONSTANTS
  o1 = o1  a1 = a1
  Addresses = {o1, a1}
  Creator = o1
  MinimumLiquidity = 1
  MaxFee = 5
  Tokens = {0, 1}
  Keys <- OnePool
  FeeDenominator = 100
  Precision = 100
  PricePrecision = 100
  DefaultWindow = 2
  FirstDeposits <- PoolDeposits
  Amounts = {15, 70}
  Slacks = {1}
  Percentages = {0, 300}
  ProtocolFees = {0, 51}
  NewWindows = {0, 3}
  Paths = {}
  MaxSingle = 400
  Steps = {1, 2}
  MaxTime = 3
  MaxCalls = 4
CHECK_DEADLOCK FALSE
INVARIANTS TypeOK Solvency SharesAddUp TwapIgnoresTheBlock
PROPERTY SharesKeepTheirValue
