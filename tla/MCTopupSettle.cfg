CONSTANTS
  w1 = w1
  w2 = w2
  c1 = c1
  c2 = c2
  q1 = q1
  q2 = q2
  n1 = n1
  r1 = r1
  s1 = s1
  s2 = s2
  Wallet = {w1, w2}
  Chain = {c1, c2}
  LiveChain = {c1, c2}
  Reservation = {}
  Amount = {1}
  Reading = {}
  Quote = {q1}
  HeaderNonce = {n1}
  Session = {s1, s2}
  InitialCredits = 0
  WithdrawAmount = {}
  BridgeAmount = {1}
  Fault = {"receipt_timeout", "back_error", "crash"}
  MaxFaults = 1
  Dashboard <- MCNobody
  QuoteAmount <- MCQuoteAmount
CHECK_DEADLOCK FALSE
SPECIFICATION TopupSafeSpec
INVARIANTS
  TopupTypeOK
  QuoteSettledOnce
  ConsumedIsPaid
  BackingWithinQuotes
