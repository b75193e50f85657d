\* Two polls on one or two tokens, one of them HTR, two voters.
SPECIFICATION Spec
CONSTANTS
  a1 = a1  a2 = a2  t1 = t1
  HTR = HTR
  Addresses = {a1, a2}
  Tokens = {HTR, t1}
  Fees = {1}
  OptionCounts = {2, 9}
  Windows <- TestWindows
  Options = {0, 1, 2}
  Transactions <- TestTransactions
  MaxPolls = 2
  MaxVotes = 2
  MaxTime = 3
SYMMETRY Symmetry
CHECK_DEADLOCK FALSE
INVARIANTS ResultsRecount DepositsAreCovered
PROPERTY ResultIsBacked
