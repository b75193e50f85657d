\* Up to three tokens under every method, Dozer in other hands.
SPECIFICATION MCSpec
CONSTANTS
  c1 = c1  u1 = u1  t1 = t1  t2 = t2  t3 = t3  HTR = HTR
  Users = {c1, u1}
  Creator = c1
  Ids = {t1, t2, t3}
  BASIS_POINTS = 10
  Curves <- TestCurves
  Rates = {0, 1}
  MAX_FEE_RATE = 1
  PoolFees = {0}
  MAX_POOL_FEE_RATE = 5
  Capacities = {1, 2}
  Amounts = {2, 9}
  Slacks = {0, 1}
  MaxCalls = 5
SYMMETRY Symmetry
CHECK_DEADLOCK FALSE
INVARIANTS TypeOK Solvency PoolFollowsCurve GraduationIsFunded QuoteIsHonoured
PROPERTY ListIsRecencyList
