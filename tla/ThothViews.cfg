\* The views that tell whether a name is available, at every instant.
SPECIFICATION Spec
CONSTANTS
  a1 = a1  a2 = a2  n1 = n1  n2 = n2
  Addresses = {a1}
  Names = {n1}
  None = None
  Contract = Contract
  LengthClass <- LongNames
  BaseFees = {2}
  Lengths = {5}
  Multipliers = {1}
  Deposits = {2}
  Withdrawals = {1}
  GracePeriods = {1}
  Limits = {1}
  SecondsPerYear = 1
  SecondsPerDay = 1
  GraceCap = 2
  ManagedCap = 2
  MaxTokens = 2
  MaxTime = 4
  MaxExpiration = 5
CHECK_DEADLOCK FALSE
INVARIANT ShownAvailableIsAvailable
