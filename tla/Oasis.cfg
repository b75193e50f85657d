\* Two users and the developer; locks of months that are one unit long.
SPECIFICATION Spec
CONSTANTS
  dev = dev  u1 = u1  u2 = u2  HTR = HTR  B = B
  Users = {dev, u1, u2}
  Dev = dev
  FeeDenominator = 1000
  Precision = 10
  MinimumLiquidity = 1
  PricePrecision = 10
  Fees = {0, 100}
  Month = 1
  MinDeposit = 5
  Funds = {100}
  Amounts = {11, 20}
  Withdrawals = {2}
  Swaps = {500}
  Twaps = {66}
  Pools <- TestPools
  PoolFee = 5
  Steps = {9}
  MaxCalls = 4
  MaxTime = 18
SYMMETRY Symmetry
CHECK_DEADLOCK FALSE
INVARIANTS TypeOK Solvency EveryoneCanClose
PROPERTIES  ClosedIsKept OthersKeepTheirShare
