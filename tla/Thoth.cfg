\* Two names, two addresses, one registration anew.
SPECIFICATION Spec
CONSTANTS
  a1 = a1  a2 = a2  n1 = n1  n2 = n2
  Addresses = {a1, a2}
  Names = {n1, n2}
  None = None
  Contract = Contract
  LengthClass <- LongNames
  BaseFees = {0, 2}
  Lengths = {2, 5}
  Multipliers = {1}
  Deposits = {2, 3}
  Withdrawals = {3}
  GracePeriods = {0, 1}
  Limits = {1, 2, 3}
  SecondsPerYear = 1
  SecondsPerDay = 1
  GraceCap = 2
  ManagedCap = 2
  MaxTokens = 3
  MaxTime = 4
  MaxExpiration = 5
SYMMETRY Symmetry
CHECK_DEADLOCK FALSE
INVARIANTS ListsMatchRecords CustodyMatchesRecords
PROPERTIES PaidTermIsKept OwnerFollowsNft
