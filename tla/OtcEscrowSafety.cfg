\* One escrow with every choice of terms and configuration.
SPECIFICATION Spec
CONSTANTS
  a1 = a1  a2 = a2  a3 = a3  t1 = t1  t2 = t2
  NoOne = NoOne
  Addresses = {a1, a2, a3}
  Tokens = {t1, t2}
  Amounts = {0, 1, 2}
  Payments = {0, 1, 2}
  FeeRates = {0, 200, 201}
  ExpiryConfigs <- TwoExpiryConfigs
  ExpiryInputs = {0, 3}
  MaxEscrows = 1
  MaxTime = 4
SYMMETRY Symmetry
INVARIANTS StatusMatchesMoney TakerIsEntitled FairExchange
PROPERTIES ExpiredOnlyCloses SwapsAreAtomic
