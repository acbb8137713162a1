CONSTANTS
  w1 = w1
  w2 = w2
  c1 = c1
  c2 = c2
  q1 = q1
  q2 = q2
  n1 = n1
  r1 = r1
  s1 = s1
  s2 = s2
  Wallet = {w1}
  Chain = {c1}
  LiveChain = {c1}
  Reservation = {r1}
  Amount = {1}
  Reading = {}
  Quote = {q1}
  HeaderNonce = {}
  Session = {s1, s2}
  InitialCredits = 1
  WithdrawAmount = {1}
  BridgeAmount = {}
  Fault = {"read_error", "crash", "receipt_timeout"}
  MaxFaults = 1
  Dashboard <- MCEveryone
  QuoteAmount <- MCQuoteAmount
CHECK_DEADLOCK FALSE
SPECIFICATION TopupSpec
INVARIANTS
  TypeOK
  CreditsWereDeposited
PROPERTIES
  Heals
