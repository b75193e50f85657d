\* Two escrows side by side, sharing the contract's balance and the fees.
SPECIFICATION Spec
CONSTANTS
  a1 = a1  a2 = a2  a3 = a3  t1 = t1  t2 = t2
  NoOne = NoOne
  Addresses = {a1, a2, a3}
  Tokens = {t1, t2}
  Amounts = {2}
  Payments = {1, 2}
  FeeRates = {200}
  ExpiryConfigs <- OneExpiryConfig
  ExpiryInputs = {0}
  MaxEscrows = 2
  MaxTime = 2
SYMMETRY Symmetry
INVARIANTS Solvency CountersAgree PagesListEveryEscrow
