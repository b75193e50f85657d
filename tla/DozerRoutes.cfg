\* Three pools: signing, reserving, pausing, owners, and routes through them.
SPECIFICATION RouteSpec
CONSTANTS
  o1 = o1  a1 = a1
  Addresses = {o1, a1}
  Creator = o1
  MinimumLiquidity = 1
  MaxFee = 5
  Tokens = {0, 1, 2}
  Keys <- FourKeys
  FeeDenominator = 100
  Precision = 100
  PricePrecision = 100
  DefaultWindow = 2
  FirstDeposits <- RouteDeposits
  Amounts = {7}
  Slacks = {1}
  Percentages = {}
  ProtocolFees = {}
  NewWindows = {}
  Paths <- TestPaths
  MaxSingle = 0
  Steps = {}
  MaxTime = 1
  MaxCalls = 4
CHECK_DEADLOCK FALSE
INVARIANTS Solvency OwnerCanSign
PROPERTY SwapsStayOnCurve
