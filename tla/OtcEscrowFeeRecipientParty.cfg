\* The fee recipient may be one of the two parties.
SPECIFICATION FairSpec
CONSTANTS
  a1 = a1  a2 = a2  a3 = a3  t1 = t1  t2 = t2
  NoOne = NoOne
  Addresses = {a1, a2, a3}
  Tokens = {t1, t2}
  Amounts = {2}
  Payments = {1, 2}
  FeeRates = {200}
  ExpiryConfigs <- TwoExpiryConfigs
  ExpiryInputs = {0}
  MaxEscrows = 1
  MaxTime = 4
PROPERTY PartiesAlwaysSettle
