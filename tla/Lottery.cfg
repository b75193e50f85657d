\* The creator may play too; claims in parts; commissions that do not divide.
SPECIFICATION FairSpec
CONSTANTS
  a1 = a1  a2 = a2  a3 = a3
  Addresses = {a1, a2, a3}
  NoOne = NoOne
  Prices = {0, 2}
  Commissions = {0, 30, 100, 101}
  Deposits = {1, 2, 3}
  Claims = {1, 2, 3, 4, 5, 6, 7, 8, 9}
  CreationFee = 2
  Timeout = 1
  MaxTickets = 2
  MaxTime = 2
CHECK_DEADLOCK FALSE
INVARIANTS Conservation EverybodyGetsTheirDue
PROPERTY PotIsPaidOut
