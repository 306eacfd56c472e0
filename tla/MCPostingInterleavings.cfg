SPECIFICATION SteadySpec
CONSTANTS
  Currency <- MCCurrency
  Wallet <- MCWallet
  CurrencyOf <- MCCurrencyOf
  Clearing <- MCClearing
  Revenue <- MCRevenue
  Opening <- MCOpening
  MaxMinor = 3
  k1 = k1
  k2 = k2
  k3 = k3
  None = None
  Attempt = {p1, p2}
  Key = {k1, k2, k3}
  Request <- Everything
INVARIANTS PostingInv NoDeadlock NoOverdraft ReverseOnce BooksBalance AnswerMatchesRequest
PROPERTY LedgerSpec
SYMMETRY Symmetry
CHECK_DEADLOCK FALSE
