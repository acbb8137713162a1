----------------------------- MODULE TopupProofs -----------------------------
(***************************************************************************)
(* Proofs about Topup, for every number of sessions, quotes, wallets,      *)
(* chains, authorisations and faults.                                      *)
(***************************************************************************)
EXTENDS Topup, CreditLedgerProofs

-----------------------------------------------------------------------------
(* What the steps of the other components do to the ledger *)

\* Adopting any reading keeps the types of the ledger.
LEMMA HydrateType ==
  ASSUME TypeOK, NEW a \in Account, NEW n \in Nat, Hydrate(a, n)
  PROVE  TypeOK'
<1>1. Hydrated(credit[a], n) \in CreditRow
  BY RowTypes DEF TypeOK
<1>2. QED
  BY <1>1 DEF TypeOK, Hydrate

\* A step of topping up is a step of the ledger, adopts a reading or leaves
\* the ledger alone.
LEMMA TopupStepsLedger ==
  ASSUME TopupNext
  PROVE  \/ Request
         \/ \E s \in Session : Adopt(s)
         \/ \E a \in Dashboard : PollAdopt(a)
         \/ \E a \in Account : CollectFlush(a)
         \/ UNCHANGED ledgerVars
BY DEF TopupNext, StoreQuote, Expire, Sweep, Settle, SessionStep, Send, ConsumeQuote,
       Back, Read, Mine, ExternalDeposit, PollRead, Collect, ClaimWithdraw, Bridge,
       ReceiptTimeout, BackError, ReadError, Crash

-----------------------------------------------------------------------------
(* Type correctness *)

\* The types of the settle sessions.
SessionsOK ==
  /\ at \in [Session -> SessionState]
  /\ order \in [Session -> Order]
  /\ seen \in [Session -> Nat]

\* The types of the remaining tables and of the chain.
TablesOK ==
  /\ DOMAIN quotes \subseteq Quote
  /\ quotes \in [DOMAIN quotes -> [wallet : Wallet, state : QuoteState]]
  /\ poll \in [Account -> Nat \cup {NoReading}]
  /\ backing \in [Account -> Nat]

VaultOK ==
  /\ vault \in [Account -> Nat]
  /\ spent \subseteq Account \X (Quote \cup HeaderNonce)
  /\ mempool \subseteq Session /\ paid \subseteq Session
  /\ deposited \in [Account -> Nat]
  /\ collecting \in [Account -> Nat]
  /\ faults \in Nat

LEMMA TypeParts == TopupTypeOK <=> TypeOK /\ SessionsOK /\ TablesOK /\ VaultOK
BY DEF TopupTypeOK, SessionsOK, TablesOK, VaultOK

LEMMA DashboardShowsAccounts == TopupConstants => Dashboard \subseteq Account
BY DEF TopupConstants, Account

\* What a session that has its order refers to.
LEMMA OrderFields ==
  ASSUME SessionsOK, NEW s \in Session, TopupConstants
  PROVE  /\ order[s].account \in Account
         /\ order[s].quote \in Quote
         /\ QuoteAmount[order[s].quote] \in Nat \ {0}
         /\ Auth(order[s]) \in Account \X (Quote \cup HeaderNonce)
BY DEF SessionsOK, Order, Auth, TopupConstants

LEMMA TopupInitType == TopupConstants /\ TopupInit => TopupTypeOK
<1> SUFFICES ASSUME TopupConstants, TopupInit
             PROVE  TopupTypeOK
  OBVIOUS
<1>1. TypeOK
  BY DEF TopupInit, TypeOK, ZeroRow, CreditRow, ReservationRow, NoTime, TopupConstants
<1>2. NoOrder \in Order
  <2>1. PICK q \in Quote, a \in Account : TRUE
    BY DEF TopupConstants
  <2>2. [quote |-> q, account |-> a, nonce |-> q] \in Order
    BY DEF Order
  <2>3. QED
    BY <2>2 DEF NoOrder
<1>3. SessionsOK
  BY <1>2 DEF TopupInit, SessionsOK, SessionState
<1>4. TablesOK
  BY DEF TopupInit, TablesOK, NoReading
<1>5. VaultOK
  BY DEF TopupInit, VaultOK, TopupConstants
<1>6. QED
  BY <1>1, <1>3, <1>4, <1>5, TypeParts

LEMMA LedgerTypeStep ==
  TopupConstants /\ TopupTypeOK /\ [TopupNext]_topupVars => TypeOK'
<1> SUFFICES ASSUME TopupConstants, TopupTypeOK, [TopupNext]_topupVars
             PROVE  TypeOK'
  OBVIOUS
<1>0. TypeOK /\ SessionsOK /\ TablesOK /\ VaultOK
  BY TypeParts
<1>1. CASE Request
  <2>1. Next
    BY <1>1 DEF Request, Next, ReleaseOutcome, Outcome
  <2>2. QED
    BY <1>0, <2>1, StepType
<1>2. ASSUME NEW s \in Session, Adopt(s)
      PROVE  TypeOK'
  <2>1. order[s].account \in Account /\ seen[s] \in Nat
    BY <1>0, OrderFields DEF SessionsOK
  <2>2. QED
    BY <1>0, <1>2, <2>1, HydrateType DEF Adopt
<1>3. ASSUME NEW a \in Dashboard, PollAdopt(a)
      PROVE  TypeOK'
  <2>1. a \in Account
    BY DashboardShowsAccounts
  <2>2. poll[a] \in Nat
    BY <1>0, <1>3, <2>1 DEF PollAdopt, TablesOK
  <2>3. QED
    BY <1>0, <1>3, <2>1, <2>2, HydrateType DEF PollAdopt
<1>4. ASSUME NEW a \in Account, CollectFlush(a)
      PROVE  TypeOK'
  BY <1>0, <1>4, StepType DEF CollectFlush, Next
<1>5. CASE UNCHANGED ledgerVars
  BY <1>0, <1>5, StepType
<1>6. CASE UNCHANGED topupVars
  BY <1>0, <1>6, StepType DEF topupVars
<1>7. QED
  BY <1>1, <1>2, <1>3, <1>4, <1>5, <1>6, TopupStepsLedger

LEMMA SessionsStep ==
  TopupConstants /\ TopupTypeOK /\ [TopupNext]_topupVars => SessionsOK'
<1> SUFFICES ASSUME TopupConstants, TopupTypeOK, [TopupNext]_topupVars
             PROVE  SessionsOK'
  OBVIOUS
<1>0. SessionsOK /\ VaultOK
  BY TypeParts
<1>1. ASSUME NEW s \in Session, NEW o \in Order, Settle(s, o)
      PROVE  SessionsOK'
  BY <1>0, <1>1 DEF Settle, SessionsOK, SessionState, Advance
<1>2. ASSUME NEW s \in Session, NEW state \in SessionState, Advance(s, state),
             UNCHANGED order,
             \/ UNCHANGED seen
             \/ seen' = [seen EXCEPT ![s] = vault[order[s].account]]
      PROVE  SessionsOK'
  <2>1. vault[order[s].account] \in Nat
    BY <1>0, OrderFields DEF VaultOK
  <2>2. QED
    BY <1>0, <1>2, <2>1 DEF SessionsOK, Advance
<1>3. ASSUME NEW s \in Session, SessionStep(s)
      PROVE  SessionsOK'
  <2>1. CASE Send(s)
    BY <1>2, <2>1 DEF Send, SessionState
  <2>2. CASE ConsumeQuote(s)
    BY <1>2, <2>2 DEF ConsumeQuote, SessionState
  <2>3. CASE Back(s)
    BY <1>2, <2>3 DEF Back, SessionState
  <2>4. CASE Read(s)
    BY <1>2, <2>4 DEF Read, SessionState
  <2>5. CASE Adopt(s)
    BY <1>2, <2>5 DEF Adopt, SessionState
  <2>6. QED
    BY <1>3, <2>1, <2>2, <2>3, <2>4, <2>5 DEF SessionStep
<1>4. CASE UNCHANGED settleVars
  BY <1>0, <1>4 DEF settleVars, SessionsOK
<1>5. ASSUME NEW s \in Session, Mine(s)
      PROVE  SessionsOK'
  <2>1. CASE at[s] = "wait"
    BY <1>2, <1>5, <2>1 DEF Mine, SessionState
  <2>2. CASE at[s] # "wait"
    BY <1>4, <1>5, <2>2 DEF Mine, settleVars
  <2>3. QED
    BY <2>1, <2>2
<1>6. ASSUME NEW s \in Session, ReceiptTimeout(s) \/ BackError(s) \/ ReadError(s)
      PROVE  SessionsOK'
  BY <1>2, <1>6 DEF ReceiptTimeout, BackError, ReadError, SessionState
<1>7. CASE Crash
  BY <1>0, <1>7 DEF Crash, SessionsOK, SessionState
<1>8. QED
  BY <1>1, <1>3, <1>4, <1>5, <1>6, <1>7
  DEF TopupNext, StoreQuote, Expire, Sweep, ExternalDeposit, PollRead, PollAdopt,
      Collect, CollectFlush, ClaimWithdraw, Bridge, Request, topupVars

\* Replacing the state of a stored quote keeps the table's type.
LEMMA QuoteBecomesType ==
  ASSUME TablesOK, NEW q \in DOMAIN quotes, NEW state \in QuoteState,
         QuoteBecomes(q, state)
  PROVE  /\ DOMAIN quotes' = DOMAIN quotes
         /\ DOMAIN quotes' \subseteq Quote
         /\ quotes' \in [DOMAIN quotes' -> [wallet : Wallet, state : QuoteState]]
BY DEF TablesOK, QuoteBecomes

LEMMA TablesStep ==
  TopupConstants /\ TopupTypeOK /\ [TopupNext]_topupVars => TablesOK'
<1> SUFFICES ASSUME TopupConstants, TopupTypeOK, [TopupNext]_topupVars
             PROVE  TablesOK'
  OBVIOUS
<1>0. SessionsOK /\ TablesOK /\ VaultOK
  BY TypeParts
<1>1. CASE UNCHANGED <<quotes, poll, backing>>
  BY <1>0, <1>1 DEF TablesOK
<1>2. ASSUME NEW q \in Quote, NEW w \in Wallet, StoreQuote(q, w)
      PROVE  TablesOK'
  BY <1>0, <1>2 DEF StoreQuote, TablesOK, QuoteState
<1>3. ASSUME NEW q \in Quote, Expire(q) \/ Sweep(q)
      PROVE  TablesOK'
  BY <1>0, <1>3, QuoteBecomesType DEF Expire, Sweep, QuoteState, TablesOK
<1>4. ASSUME NEW s \in Session, ConsumeQuote(s), order[s].quote \in DOMAIN quotes
      PROVE  TablesOK'
  BY <1>0, <1>1, <1>4, QuoteBecomesType DEF ConsumeQuote, QuoteState, TablesOK
<1>5. ASSUME NEW s \in Session, ConsumeQuote(s), order[s].quote \notin DOMAIN quotes
      PROVE  TablesOK'
  <2>1. UNCHANGED <<poll, backing>>
    BY <1>5 DEF ConsumeQuote
  <2>2. quotes' = quotes
    BY <1>0, <1>5 DEF ConsumeQuote, QuoteBecomes, TablesOK
  <2>3. QED
    BY <1>1, <2>1, <2>2
<1>6. ASSUME NEW s \in Session, Back(s)
      PROVE  TablesOK'
  <2>1. /\ order[s].account \in Account
        /\ QuoteAmount[order[s].quote] \in Nat
    BY <1>0, OrderFields
  <2>2. QED
    BY <1>0, <1>6, <2>1 DEF Back, TablesOK
<1>7. ASSUME NEW a \in Dashboard, PollRead(a) \/ PollAdopt(a)
      PROVE  TablesOK'
  <2>1. a \in Account /\ vault[a] \in Nat
    BY <1>0, DashboardShowsAccounts DEF VaultOK
  <2>2. QED
    BY <1>0, <1>7, <2>1 DEF PollRead, PollAdopt, TablesOK
<1>8. ASSUME NEW w \in Wallet, NEW from \in LiveChain, NEW to \in LiveChain,
             NEW amount \in BridgeAmount, Bridge(w, from, to, amount)
      PROVE  TablesOK'
  <2>1. /\ <<w, from>> \in Account /\ <<w, to>> \in Account
        /\ amount \in Nat /\ <<w, from>> # <<w, to>>
    BY <1>8 DEF TopupConstants, Account, Bridge
  <2> DEFINE f == <<w, from>>
             t == <<w, to>>
  <2>2. /\ f \in Account /\ t \in Account /\ f # t
        /\ backing[f] >= amount
        /\ backing' = [backing EXCEPT ![f] = @ - amount, ![t] = @ + amount]
        /\ UNCHANGED <<quotes, poll>>
    BY <1>8, <2>1 DEF Bridge, Bridged
  <2> HIDE DEF f, t
  <2>3. QED
    BY <1>0, <2>1, <2>2 DEF TablesOK
<1>9. CASE Crash
  BY <1>0, <1>9 DEF Crash, TablesOK
<1>10. QED
  <2>1. ASSUME NEW s \in Session, SessionStep(s)
        PROVE  TablesOK'
    BY <1>1, <1>4, <1>5, <1>6, <2>1 DEF SessionStep, Send, Read, Adopt
  <2>2. QED
    BY <1>1, <1>2, <1>3, <1>7, <1>8, <1>9, <2>1
    DEF TopupNext, Settle, Mine, ExternalDeposit, Collect, CollectFlush,
        ClaimWithdraw, Request, ReceiptTimeout, BackError, ReadError, topupVars

LEMMA VaultStep ==
  TopupConstants /\ TopupTypeOK /\ [TopupNext]_topupVars => VaultOK'
<1> SUFFICES ASSUME TopupConstants, TopupTypeOK, [TopupNext]_topupVars
             PROVE  VaultOK'
  OBVIOUS
<1>0. TypeOK /\ SessionsOK /\ VaultOK
  BY TypeParts
<1>1. CASE UNCHANGED <<vaultVars, collecting, faults>>
  BY <1>0, <1>1 DEF VaultOK, vaultVars
<1>2. ASSUME NEW s \in Session, Send(s)
      PROVE  VaultOK'
  BY <1>0, <1>2 DEF Send, VaultOK
<1>3. ASSUME NEW a \in Account, NEW n \in Nat, Credited(a, n)
      PROVE  vault' \in [Account -> Nat] /\ deposited' \in [Account -> Nat]
  BY <1>0, <1>3 DEF Credited, VaultOK
<1>4. ASSUME NEW s \in Session, Mine(s)
      PROVE  VaultOK'
  <2>1. /\ order[s].account \in Account
        /\ QuoteAmount[order[s].quote] \in Nat
        /\ Auth(order[s]) \in Account \X (Quote \cup HeaderNonce)
    BY <1>0, OrderFields
  <2>2. vault' \in [Account -> Nat] /\ deposited' \in [Account -> Nat]
    BY <1>0, <1>3, <1>4, <2>1 DEF Mine, VaultOK
  <2>3. QED
    BY <1>0, <1>4, <2>1, <2>2 DEF Mine, VaultOK
<1>5. ASSUME NEW o \in Order, ExternalDeposit(o)
      PROVE  VaultOK'
  <2>1. /\ o.account \in Account
        /\ QuoteAmount[o.quote] \in Nat
        /\ Auth(o) \in Account \X (Quote \cup HeaderNonce)
    BY DEF Order, Auth, TopupConstants
  <2>2. vault' \in [Account -> Nat] /\ deposited' \in [Account -> Nat]
    BY <1>3, <1>5, <2>1 DEF ExternalDeposit
  <2>3. QED
    BY <1>0, <1>5, <2>1, <2>2 DEF ExternalDeposit, VaultOK
<1>6. ASSUME NEW a \in Account, NEW amount \in WithdrawAmount, ClaimWithdraw(a, amount)
      PROVE  VaultOK'
  <2>1. amount \in Nat /\ vault[a] \in Nat
    BY <1>0 DEF VaultOK, TopupConstants
  <2>2. QED
    BY <1>0, <1>6, <2>1 DEF ClaimWithdraw, VaultOK
<1>7. ASSUME NEW a \in Account, Collect(a) \/ CollectFlush(a)
      PROVE  VaultOK'
  <2>1. credit[a].accrued \in Nat /\ vault[a] \in Nat
    BY <1>0 DEF VaultOK, TypeOK, CreditRow
  <2>2. QED
    BY <1>0, <1>7, <2>1 DEF Collect, CollectFlush, VaultOK, vaultVars
<1>8. ASSUME NEW kind, Faulty(kind), UNCHANGED <<vaultVars, collecting>>
      PROVE  VaultOK'
  BY <1>0, <1>8 DEF Faulty, VaultOK, vaultVars
<1>9. ASSUME NEW s \in Session, SessionStep(s)
      PROVE  VaultOK'
  BY <1>1, <1>2, <1>9 DEF SessionStep, ConsumeQuote, Back, Read, Adopt
<1>10. ASSUME NEW s \in Session, ReceiptTimeout(s) \/ BackError(s) \/ ReadError(s)
       PROVE  VaultOK'
  BY <1>8, <1>10 DEF ReceiptTimeout, BackError, ReadError
<1>11. CASE Crash
  BY <1>8, <1>11 DEF Crash
<1>12. QED
  BY <1>1, <1>4, <1>5, <1>6, <1>7, <1>9, <1>10, <1>11
  DEF TopupNext, StoreQuote, Expire, Sweep, Settle, PollRead, PollAdopt, Bridge,
      Request, topupVars

LEMMA TopupTypeStep ==
  TopupConstants /\ TopupTypeOK /\ [TopupNext]_topupVars => TopupTypeOK'
<1> SUFFICES ASSUME TopupConstants, TopupTypeOK, [TopupNext]_topupVars
             PROVE  TopupTypeOK'
  OBVIOUS
<1>1. TypeOK' /\ SessionsOK' /\ TablesOK' /\ VaultOK'
  BY LedgerTypeStep, SessionsStep, TablesStep, VaultStep
<1>2. QED
  BY <1>1 DEF TopupTypeOK, SessionsOK, TablesOK, VaultOK

\* The quotes, sessions, backing rows and the vault stay within their types:
\* in particular no bridge ever leaves a negative backing.
THEOREM TopupIsTyped == TopupSafeSpec => []TopupTypeOK
BY TopupConstants, TopupInitType, TopupTypeStep, PTL DEF TopupSafeSpec

-----------------------------------------------------------------------------
(* The ledger under top-ups *)

\* Whatever reading a session or a poll adopts, a step is a call of the
\* ledger.
LEMMA TopupCallsLedger ==
  TopupConstants /\ TopupTypeOK /\ [TopupNext]_topupVars => [AnyCall]_ledgerVars
<1> SUFFICES ASSUME TopupConstants, TopupTypeOK, [TopupNext]_topupVars
             PROVE  [AnyCall]_ledgerVars
  OBVIOUS
<1>0. SessionsOK /\ TablesOK
  BY TypeParts
<1>1. CASE Request
  <2>1. Next
    BY <1>1 DEF Request, Next, ReleaseOutcome, Outcome
  <2>2. QED
    BY <2>1, NextIsACall
<1>2. ASSUME NEW s \in Session, Adopt(s)
      PROVE  AnyCall
  <2>1. order[s].account \in Account /\ seen[s] \in Nat
    BY <1>0, OrderFields DEF SessionsOK
  <2>2. QED
    BY <1>2, <2>1 DEF Adopt, AnyCall
<1>3. ASSUME NEW a \in Dashboard, PollAdopt(a)
      PROVE  AnyCall
  <2>1. a \in Account
    BY DashboardShowsAccounts
  <2>2. poll[a] \in Nat
    BY <1>0, <1>3, <2>1 DEF PollAdopt, TablesOK
  <2>3. QED
    BY <1>3, <2>1, <2>2 DEF PollAdopt, AnyCall
<1>4. ASSUME NEW a \in Account, CollectFlush(a)
      PROVE  AnyCall
  BY <1>4 DEF CollectFlush, AnyCall
<1>5. CASE UNCHANGED topupVars
  BY <1>5 DEF topupVars
<1>6. QED
  BY <1>1, <1>2, <1>3, <1>4, <1>5, TopupStepsLedger

\* Adopting readings, stale ones included, is all that topping up does to
\* the ledger: the abstract account synchronises, and its holds and what it
\* owes are left alone.
THEOREM TopupImplementsPromise == TopupSafeSpec => ImplementsPromise
<1>1. TopupInit => Promise!Init
  BY TopupConstants, TopupInitType, StartsAsPromised DEF TopupTypeOK, TopupInit, ZeroRow
<1>2. TopupTypeOK /\ [TopupNext]_topupVars => [Promise!Next]_(Promise!accountVars)
  BY TopupConstants, TopupCallsLedger, StepImplementsPromise DEF TopupTypeOK
<1>3. QED
  BY <1>1, <1>2, TopupIsTyped, PTL DEF TopupSafeSpec, ImplementsPromise, Promise!Spec

\* What hydrateFromChain and the collection change of a wallet's credits is
\* the balance of one reading or the accrual of one flush, and nothing else.
THEOREM TopupSumIsConserved == TopupSafeSpec => SumIsConserved
<1>1. TopupTypeOK /\ [TopupNext]_topupVars =>
        [\A a \in Account : Conserved(a)]_ledgerVars
  BY TopupConstants, TopupCallsLedger, ConservedStep DEF TopupTypeOK
<1>2. QED
  BY <1>1, TopupIsTyped, PTL DEF TopupSafeSpec, SumIsConserved, Conserved

\* A reading is adopted around the reserved counter, never through it: it
\* stays the total of the open reservations.
THEOREM TopupReservedIsHeld == TopupSafeSpec => []ReservedIsHeld
<1>1. TopupInit => HoldsCounted
  BY NothingHeld DEF TopupInit, ZeroRow
<1>2. TopupTypeOK /\ HoldsCounted /\ [TopupNext]_topupVars => HoldsCounted'
  BY TopupConstants, TopupCallsLedger, HoldsStep DEF TopupTypeOK
<1>3. QED
  BY <1>1, <1>2, CountedIsHeld, TopupIsTyped, PTL DEF TopupSafeSpec

-----------------------------------------------------------------------------
(* Quotes: settled once, and only when paid *)

\* A session past the receipt of its deposit.
Deposited(s) == at[s] \in {"consume", "back", "read", "hydrate", "ok", "conflict"}

\* A session keeps the order it began with, for a stored quote of its wallet.
OrderStands ==
  \A s \in Session :
    at[s] # "start" => /\ order[s].quote \in DOMAIN quotes
                       /\ order[s].account[1] = quotes[order[s].quote].wallet

\* The mempool and the history of deposits only know sessions that have begun,
\* and the receipt comes before everything that follows it.
DepositsStand ==
  /\ \A s \in mempool \cup paid : at[s] # "start"
  /\ \A s \in Session : Deposited(s) => s \in paid

\* Whoever goes past consumeQuote has consumed the quote, alone.
WinnersStand ==
  /\ \A s \in Session : Winner(s) => quotes[order[s].quote].state = "consumed"
  /\ QuoteSettledOnce

SettleInv == OrderStands /\ DepositsStand /\ WinnersStand /\ ConsumedIsPaid

\* The quotes a step finds stored stay stored, with their owner.
LEMMA QuotesStay ==
  ASSUME TopupTypeOK, SettleInv, [TopupNext]_topupVars, NEW q \in DOMAIN quotes
  PROVE  q \in DOMAIN quotes' /\ quotes'[q].wallet = quotes[q].wallet
<1>0. TablesOK
  BY TypeParts
<1>1. ASSUME NEW x \in DOMAIN quotes, NEW state \in QuoteState, QuoteBecomes(x, state)
      PROVE  q \in DOMAIN quotes' /\ quotes'[q].wallet = quotes[q].wallet
  BY <1>0, <1>1 DEF QuoteBecomes, TablesOK
<1>2. ASSUME NEW s \in Session, ConsumeQuote(s)
      PROVE  q \in DOMAIN quotes' /\ quotes'[q].wallet = quotes[q].wallet
  <2>1. order[s].quote \in DOMAIN quotes
    BY <1>2 DEF ConsumeQuote, SettleInv, OrderStands
  <2>2. QED
    BY <1>1, <1>2, <2>1 DEF ConsumeQuote, QuoteState
<1>3. ASSUME NEW x \in Quote, NEW w \in Wallet, StoreQuote(x, w)
      PROVE  q \in DOMAIN quotes' /\ quotes'[q].wallet = quotes[q].wallet
  BY <1>3 DEF StoreQuote
<1>4. ASSUME NEW x \in Quote, Expire(x) \/ Sweep(x)
      PROVE  q \in DOMAIN quotes' /\ quotes'[q].wallet = quotes[q].wallet
  BY <1>1, <1>4 DEF Expire, Sweep, QuoteState
<1>5. CASE UNCHANGED quotes
  BY <1>5
<1>6. QED
  BY <1>2, <1>3, <1>4, <1>5
  DEF TopupNext, Settle, SessionStep, Send, Back, Read, Adopt, Mine, ExternalDeposit,
      PollRead, PollAdopt, Collect, CollectFlush, ClaimWithdraw, Bridge, Request,
      ReceiptTimeout, BackError, ReadError, Crash, topupVars

\* A consumed quote stays consumed: nothing expires or sweeps it.
LEMMA ConsumedStays ==
  ASSUME TopupTypeOK, SettleInv, [TopupNext]_topupVars,
         NEW q \in DOMAIN quotes, quotes[q].state = "consumed"
  PROVE  quotes'[q].state = "consumed"
<1>0. TablesOK
  BY TypeParts
<1>1. ASSUME NEW s \in Session, ConsumeQuote(s)
      PROVE  quotes'[q].state = "consumed"
  <2>1. order[s].quote \in DOMAIN quotes
    BY <1>1 DEF ConsumeQuote, SettleInv, OrderStands
  <2>2. QED
    BY <1>0, <1>1, <2>1 DEF ConsumeQuote, QuoteBecomes, TablesOK
<1>2. ASSUME NEW x \in Quote, NEW w \in Wallet, StoreQuote(x, w)
      PROVE  quotes'[q].state = "consumed"
  BY <1>2 DEF StoreQuote
<1>3. ASSUME NEW x \in Quote, Expire(x) \/ Sweep(x)
      PROVE  quotes'[q].state = "consumed"
  BY <1>0, <1>3 DEF Expire, Sweep, QuoteBecomes, TablesOK
<1>4. CASE UNCHANGED quotes
  BY <1>4
<1>5. QED
  BY <1>1, <1>2, <1>3, <1>4
  DEF TopupNext, Settle, SessionStep, Send, Back, Read, Adopt, Mine, ExternalDeposit,
      PollRead, PollAdopt, Collect, CollectFlush, ClaimWithdraw, Bridge, Request,
      ReceiptTimeout, BackError, ReadError, Crash, topupVars

\* How a step moves a session: it begins with an order fetchQuote accepted,
\* goes on under the same order, or stays.
LEMMA SessionMoves ==
  ASSUME TopupTypeOK, [TopupNext]_topupVars, NEW s \in Session
  PROVE  \/ /\ at[s] = "start" /\ at'[s] = "send"
            /\ order'[s].quote \in DOMAIN quotes
            /\ order'[s].account[1] = quotes[order'[s].quote].wallet
         \/ /\ order'[s] = order[s]
            /\ \/ at'[s] = at[s]
               \/ at[s] # "start" /\ at'[s] \in {"wait", "failed"}
               \/ at[s] = "wait" /\ at'[s] = "consume" /\ s \in paid'
               \/ at[s] = "consume" /\ at'[s] \in {"back", "conflict"}
               \/ at[s] \in {"back", "read", "hydrate"}
                  /\ at'[s] \in {"read", "hydrate", "ok"}
<1> DEFINE Moves ==
         \/ /\ at[s] = "start" /\ at'[s] = "send"
            /\ order'[s].quote \in DOMAIN quotes
            /\ order'[s].account[1] = quotes[order'[s].quote].wallet
         \/ /\ order'[s] = order[s]
            /\ \/ at'[s] = at[s]
               \/ at[s] # "start" /\ at'[s] \in {"wait", "failed"}
               \/ at[s] = "wait" /\ at'[s] = "consume" /\ s \in paid'
               \/ at[s] = "consume" /\ at'[s] \in {"back", "conflict"}
               \/ at[s] \in {"back", "read", "hydrate"}
                  /\ at'[s] \in {"read", "hydrate", "ok"}
<1>0. SessionsOK
  BY TypeParts
<1>1. ASSUME NEW t \in Session, NEW o \in Order, Settle(t, o)
      PROVE  Moves
  BY <1>0, <1>1 DEF Settle, Advance, SessionsOK
<1>2. ASSUME NEW t \in Session, SessionStep(t)
      PROVE  Moves
  BY <1>0, <1>2 DEF SessionStep, Send, ConsumeQuote, Back, Read, Adopt, Advance, SessionsOK
<1>3. ASSUME NEW t \in Session, Mine(t)
      PROVE  Moves
  BY <1>0, <1>3 DEF Mine, Advance, SessionsOK
<1>4. ASSUME NEW t \in Session, ReceiptTimeout(t) \/ BackError(t) \/ ReadError(t)
      PROVE  Moves
  BY <1>0, <1>4 DEF ReceiptTimeout, BackError, ReadError, Advance, SessionsOK
<1>5. CASE Crash
  BY <1>0, <1>5 DEF Crash, SessionsOK
<1>6. CASE UNCHANGED <<at, order>>
  BY <1>6
<1>7. QED
  <2>1. Moves
    BY <1>1, <1>2, <1>3, <1>4, <1>5, <1>6
    DEF TopupNext, StoreQuote, Expire, Sweep, ExternalDeposit, PollRead, PollAdopt,
        Collect, CollectFlush, ClaimWithdraw, Bridge, Request, topupVars, settleVars
  <2>2. QED
    BY <2>1

LEMMA OrderStandsStep ==
  TopupTypeOK /\ SettleInv /\ [TopupNext]_topupVars => OrderStands'
<1> SUFFICES ASSUME TopupTypeOK, SettleInv, [TopupNext]_topupVars,
                    NEW s \in Session, at'[s] # "start"
             PROVE  /\ order'[s].quote \in DOMAIN quotes'
                    /\ order'[s].account[1] = quotes'[order'[s].quote].wallet
  BY DEF OrderStands
<1>1. /\ order'[s].quote \in DOMAIN quotes
      /\ order'[s].account[1] = quotes[order'[s].quote].wallet
  BY SessionMoves DEF SettleInv, OrderStands
<1>2. QED
  BY <1>1, QuotesStay

\* What a step adds to the mempool and to the deposits has begun.
LEMMA MempoolGrows ==
  ASSUME TopupTypeOK, SettleInv, [TopupNext]_topupVars
  PROVE  /\ paid \subseteq paid'
         /\ \A s \in mempool' \cup paid' : at[s] # "start"
<1>1. CASE UNCHANGED <<mempool, paid>>
  BY <1>1 DEF SettleInv, DepositsStand
<1>2. ASSUME NEW s \in Session, Send(s)
      PROVE  /\ paid \subseteq paid'
             /\ \A t \in mempool' \cup paid' : at[t] # "start"
  BY <1>2 DEF Send, SettleInv, DepositsStand
<1>3. ASSUME NEW s \in Session, Mine(s)
      PROVE  /\ paid \subseteq paid'
             /\ \A t \in mempool' \cup paid' : at[t] # "start"
  BY <1>3 DEF Mine, SettleInv, DepositsStand
<1>4. QED
  BY <1>1, <1>2, <1>3
  DEF TopupNext, StoreQuote, Expire, Sweep, Settle, SessionStep, ConsumeQuote, Back,
      Read, Adopt, ExternalDeposit, PollRead, PollAdopt, Collect, CollectFlush,
      ClaimWithdraw, Bridge, Request, ReceiptTimeout, BackError, ReadError, Crash,
      topupVars, vaultVars

LEMMA DepositsStandStep ==
  TopupTypeOK /\ SettleInv /\ [TopupNext]_topupVars => DepositsStand'
<1> SUFFICES ASSUME TopupTypeOK, SettleInv, [TopupNext]_topupVars
             PROVE  DepositsStand'
  OBVIOUS
<1>1. mempool' \subseteq Session /\ paid' \subseteq Session
  BY TopupConstants, TopupTypeStep DEF TopupTypeOK
<1>2. ASSUME NEW s \in mempool' \cup paid'
      PROVE  at'[s] # "start"
  BY <1>1, <1>2, SessionMoves, MempoolGrows
<1>3. ASSUME NEW s \in Session, Deposited(s)'
      PROVE  s \in paid'
  BY <1>3, SessionMoves, MempoolGrows DEF Deposited, SettleInv, DepositsStand
<1>4. QED
  BY <1>2, <1>3 DEF DepositsStand

\* A session only becomes a winner by consuming an unconsumed quote, and
\* then nobody else moves.
LEMMA WinnerIsNew ==
  ASSUME TopupTypeOK, SettleInv, [TopupNext]_topupVars, NEW s \in Session,
         Winner(s)', ~Winner(s)
  PROVE  /\ order' = order
         /\ order[s].quote \in DOMAIN quotes
         /\ quotes[order[s].quote].state # "consumed"
         /\ quotes'[order[s].quote].state = "consumed"
         /\ \A t \in Session \ {s} : at'[t] = at[t]
<1>0. SessionsOK /\ TablesOK
  BY TypeParts
<1>1. ConsumeQuote(s)
  <2>1. at[s] = "consume" /\ at'[s] = "back"
    BY SessionMoves DEF Winner
  <2>2. ASSUME NEW t \in Session, NEW o \in Order, Settle(t, o)
        PROVE  FALSE
    BY <1>0, <2>1, <2>2 DEF Settle, Advance, SessionsOK
  <2>3. ASSUME NEW t \in Session, SessionStep(t)
        PROVE  ConsumeQuote(s)
    BY <1>0, <2>1, <2>3
    DEF SessionStep, Send, ConsumeQuote, Back, Read, Adopt, Advance, SessionsOK
  <2>4. ASSUME NEW t \in Session, Mine(t)
        PROVE  FALSE
    BY <1>0, <2>1, <2>4 DEF Mine, Advance, SessionsOK
  <2>5. ASSUME NEW t \in Session, ReceiptTimeout(t) \/ BackError(t) \/ ReadError(t)
        PROVE  FALSE
    BY <1>0, <2>1, <2>5 DEF ReceiptTimeout, BackError, ReadError, Advance, SessionsOK
  <2>6. ~Crash
    BY <1>0, <2>1 DEF Crash, SessionsOK
  <2>7. at' # at
    BY <2>1
  <2>8. QED
    BY <2>2, <2>3, <2>4, <2>5, <2>6, <2>7
    DEF TopupNext, StoreQuote, Expire, Sweep, ExternalDeposit, PollRead, PollAdopt,
        Collect, CollectFlush, ClaimWithdraw, Bridge, Request, topupVars, settleVars
<1>2. at'[s] = "back"
  BY SessionMoves DEF Winner
<1>3. Consumable(order[s].quote)
  BY <1>0, <1>1, <1>2 DEF ConsumeQuote, Advance, SessionsOK
<1>4. /\ order[s].quote \in DOMAIN quotes
      /\ QuoteBecomes(order[s].quote, "consumed")
      /\ order' = order /\ at' = [at EXCEPT ![s] = "back"]
  BY <1>1, <1>3 DEF ConsumeQuote, Advance, SettleInv, OrderStands
<1>5. quotes'[order[s].quote].state = "consumed"
  BY <1>0, <1>4 DEF QuoteBecomes, TablesOK
<1>6. \A t \in Session \ {s} : at'[t] = at[t]
  BY <1>0, <1>4 DEF SessionsOK
<1>7. QED
  BY <1>3, <1>4, <1>5, <1>6 DEF Consumable

\* A winner keeps its order.
LEMMA WinnerStays ==
  ASSUME TopupTypeOK, SettleInv, [TopupNext]_topupVars, NEW s \in Session, Winner(s)
  PROVE  /\ order'[s] = order[s]
         /\ order[s].quote \in DOMAIN quotes
         /\ quotes[order[s].quote].state = "consumed"
         /\ quotes'[order[s].quote].state = "consumed"
<1>1. /\ order'[s] = order[s]
      /\ order[s].quote \in DOMAIN quotes
      /\ quotes[order[s].quote].state = "consumed"
  BY SessionMoves DEF Winner, SettleInv, OrderStands, WinnersStand
<1>2. QED
  BY <1>1, ConsumedStays

LEMMA WinnersStandStep ==
  TopupTypeOK /\ SettleInv /\ [TopupNext]_topupVars => WinnersStand'
<1> SUFFICES ASSUME TopupTypeOK, SettleInv, [TopupNext]_topupVars
             PROVE  WinnersStand'
  OBVIOUS
<1>1. ASSUME NEW s \in Session, Winner(s)'
      PROVE  quotes'[order'[s].quote].state = "consumed"
  <2>1. CASE Winner(s)
    BY <2>1, WinnerStays
  <2>2. CASE ~Winner(s)
    BY <1>1, <2>2, WinnerIsNew
  <2>3. QED
    BY <2>1, <2>2
<1>2. ASSUME NEW s \in Session, NEW t \in Session, Winner(s)', Winner(t)',
             order'[s].quote = order'[t].quote, s # t
      PROVE  FALSE
  <2>1. CASE Winner(s) /\ Winner(t)
    BY <1>2, <2>1, WinnerStays DEF SettleInv, WinnersStand, QuoteSettledOnce
  <2>2. CASE Winner(s) /\ ~Winner(t)
    BY <1>2, <2>2, WinnerIsNew, WinnerStays
  <2>3. CASE ~Winner(s) /\ Winner(t)
    BY <1>2, <2>3, WinnerIsNew, WinnerStays
  <2>4. CASE ~Winner(s) /\ ~Winner(t)
    <3>1. at'[t] = at[t]
      BY <1>2, <2>4, WinnerIsNew
    <3>2. QED
      BY <1>2, <2>4, <3>1 DEF Winner
  <2>5. QED
    BY <2>1, <2>2, <2>3, <2>4
<1>3. QED
  BY <1>1, <1>2 DEF WinnersStand, QuoteSettledOnce

\* Who consumes a quote has deposited for it.
LEMMA ConsumedIsPaidStep ==
  TopupTypeOK /\ SettleInv /\ [TopupNext]_topupVars => ConsumedIsPaid'
<1> SUFFICES ASSUME TopupTypeOK, SettleInv, [TopupNext]_topupVars,
                    NEW q \in DOMAIN quotes', quotes'[q].state = "consumed"
             PROVE  \E s \in paid' : /\ order'[s].quote = q
                                     /\ order'[s].account[1] = quotes'[q].wallet
  BY DEF ConsumedIsPaid
<1>0. TablesOK /\ SessionsOK /\ VaultOK
  BY TypeParts
<1>1. ASSUME NEW s \in paid, order[s].quote = q, q \in DOMAIN quotes,
             order[s].account[1] = quotes[q].wallet
      PROVE  \E t \in paid' : /\ order'[t].quote = q
                              /\ order'[t].account[1] = quotes'[q].wallet
  <2>1. s \in Session /\ at[s] # "start"
    BY <1>0 DEF VaultOK, SettleInv, DepositsStand
  <2>2. order'[s] = order[s] /\ s \in paid'
    BY <2>1, SessionMoves, MempoolGrows
  <2>3. quotes'[q].wallet = quotes[q].wallet
    BY <1>1, QuotesStay
  <2>4. QED
    BY <1>1, <2>2, <2>3
<1>2. CASE q \in DOMAIN quotes /\ quotes[q].state = "consumed"
  BY <1>1, <1>2 DEF SettleInv, ConsumedIsPaid
<1>3. CASE ~(q \in DOMAIN quotes /\ quotes[q].state = "consumed")
  <2>1. PICK s \in Session : ConsumeQuote(s)
    <3>1. ASSUME NEW x \in Quote, NEW w \in Wallet, StoreQuote(x, w)
          PROVE  FALSE
      BY <1>3, <3>1 DEF StoreQuote
    <3>2. ASSUME NEW x \in Quote, Expire(x) \/ Sweep(x)
          PROVE  FALSE
      BY <1>0, <1>3, <3>2 DEF Expire, Sweep, QuoteBecomes, TablesOK
    <3>3. ~UNCHANGED quotes
      BY <1>3
    <3>4. QED
      BY <3>1, <3>2, <3>3
      DEF TopupNext, Settle, SessionStep, Send, Back, Read, Adopt, Mine,
          ExternalDeposit, PollRead, PollAdopt, Collect, CollectFlush, ClaimWithdraw,
          Bridge, Request, ReceiptTimeout, BackError, ReadError, Crash, topupVars
  <2>2. /\ at[s] = "consume"
        /\ order[s].quote \in DOMAIN quotes
    BY <2>1 DEF ConsumeQuote, SettleInv, OrderStands
  <2>3. order[s].quote = q /\ q \in DOMAIN quotes
    BY <1>0, <1>3, <2>1, <2>2 DEF ConsumeQuote, QuoteBecomes, TablesOK
  <2>4. s \in paid /\ order[s].account[1] = quotes[q].wallet
    BY <2>2, <2>3 DEF SettleInv, OrderStands, DepositsStand, Deposited
  <2>5. QED
    BY <1>1, <2>3, <2>4
<1>4. QED
  BY <1>2, <1>3

LEMMA SettleInvariant == TopupSafeSpec => [](TopupTypeOK /\ SettleInv)
<1>1. TopupInit => SettleInv
  BY DEF TopupInit, SettleInv, OrderStands, DepositsStand, WinnersStand, Deposited,
         Winner, QuoteSettledOnce, ConsumedIsPaid
<1>2. TopupTypeOK /\ SettleInv /\ [TopupNext]_topupVars => SettleInv'
  BY OrderStandsStep, DepositsStandStep, WinnersStandStep, ConsumedIsPaidStep
  DEF SettleInv
<1>3. QED
  BY <1>1, <1>2, TopupIsTyped, PTL DEF TopupSafeSpec

\* handleTopupSettle lets one session past consumeQuote, whatever races it.
THEOREM TopupQuoteSettledOnce == TopupSafeSpec => []QuoteSettledOnce
<1>1. SettleInv => QuoteSettledOnce
  BY DEF SettleInv, WinnersStand
<1>2. QED
  BY <1>1, SettleInvariant, PTL

\* handleTopupSettle consumes a quote only after the vault took a deposit for it.
THEOREM TopupConsumedIsPaid == TopupSafeSpec => []ConsumedIsPaid
<1>1. SettleInv => ConsumedIsPaid
  BY DEF SettleInv
<1>2. QED
  BY <1>1, SettleInvariant, PTL

-----------------------------------------------------------------------------
(* Backing: no quote is attributed twice *)

Accounts(w) == {w} \X Chain

\* The consumed quotes of a wallet, without those whose session is still
\* about to call creditBackingDeposit.
Attributed(w) ==
  {q \in DOMAIN quotes : /\ quotes[q].wallet = w
                         /\ quotes[q].state = "consumed"
                         /\ \A s \in Session : at[s] = "back" => order[s].quote # q}

\* The inductive form of BackingWithinQuotes: what a session is about to add
\* is not counted yet.
BackingAttributed ==
  \A w \in Wallet : SumFunctionOnSet(backing, Accounts(w)) <=
                      SumFunctionOnSet(QuoteAmount, Attributed(w))

BackingInv == IsFiniteSet(DOMAIN quotes) /\ BackingAttributed

LEMMA AccountsOf ==
  ASSUME TopupConstants, NEW w \in Wallet
  PROVE  Accounts(w) \subseteq Account /\ IsFiniteSet(Accounts(w))
<1>1. IsFiniteSet({w}) /\ IsFiniteSet(Chain)
  BY FS_Singleton DEF TopupConstants
<1>2. QED
  BY <1>1, FS_Product DEF Accounts, Account

LEMMA QuotesStayFinite ==
  ASSUME TopupTypeOK, [TopupNext]_topupVars, IsFiniteSet(DOMAIN quotes)
  PROVE  IsFiniteSet(DOMAIN quotes')
<1>0. TablesOK
  BY TypeParts
<1>1. ASSUME NEW q \in Quote, NEW w \in Wallet, StoreQuote(q, w)
      PROVE  IsFiniteSet(DOMAIN quotes')
  <2>1. DOMAIN quotes' = DOMAIN quotes \cup {q}
    BY <1>1 DEF StoreQuote
  <2>2. QED
    BY <2>1, FS_AddElement
<1>2. ASSUME NEW q, NEW state, QuoteBecomes(q, state)
      PROVE  DOMAIN quotes' = DOMAIN quotes
  BY <1>2 DEF QuoteBecomes
<1>3. ASSUME NEW q \in Quote, Expire(q) \/ Sweep(q)
      PROVE  DOMAIN quotes' = DOMAIN quotes
  BY <1>2, <1>3 DEF Expire, Sweep
<1>4. ASSUME NEW s \in Session, ConsumeQuote(s)
      PROVE  DOMAIN quotes' = DOMAIN quotes
  BY <1>2, <1>4 DEF ConsumeQuote
<1>5. CASE UNCHANGED quotes
  BY <1>5
<1>6. QED
  BY <1>1, <1>3, <1>4, <1>5
  DEF TopupNext, Settle, SessionStep, Send, Back, Read, Adopt, Mine, ExternalDeposit,
      PollRead, PollAdopt, Collect, CollectFlush, ClaimWithdraw, Bridge, Request,
      ReceiptTimeout, BackError, ReadError, Crash, topupVars

\* An attributed quote stays attributed: it stays consumed, and nobody comes
\* to settle it again.
LEMMA AttributedGrows ==
  ASSUME TopupTypeOK, SettleInv, [TopupNext]_topupVars, NEW w \in Wallet
  PROVE  Attributed(w) \subseteq Attributed(w)'
<1> SUFFICES ASSUME NEW q \in Attributed(w)
             PROVE  q \in Attributed(w)'
  OBVIOUS
<1>1. /\ q \in DOMAIN quotes' /\ quotes'[q].wallet = w
      /\ quotes[q].state = "consumed" /\ quotes'[q].state = "consumed"
  BY QuotesStay, ConsumedStays DEF Attributed
<1>2. ASSUME NEW s \in Session, at'[s] = "back", order'[s].quote = q
      PROVE  FALSE
  <2>1. CASE at[s] = "back"
    <3>1. order'[s] = order[s]
      BY <2>1, SessionMoves
    <3>2. QED
      BY <1>2, <2>1, <3>1 DEF Attributed
  <2>2. CASE at[s] # "back"
    <3>1. Winner(s)' /\ ~ Winner(s)
      BY <1>2, <2>2, SessionMoves DEF Winner
    <3>2. QED
      BY <1>1, <1>2, <3>1, WinnerIsNew
  <2>3. QED
    BY <2>1, <2>2
<1>3. QED
  BY <1>1, <1>2 DEF Attributed

\* More attributed quotes never have a smaller total.
LEMMA AttributedTotals ==
  ASSUME TopupConstants, TopupTypeOK, SettleInv, [TopupNext]_topupVars,
         IsFiniteSet(DOMAIN quotes), NEW w \in Wallet,
         NEW S, Attributed(w) \subseteq S, S \subseteq Attributed(w)'
  PROVE  SumFunctionOnSet(QuoteAmount, S) <= SumFunctionOnSet(QuoteAmount, Attributed(w)')
<1>1. IsFiniteSet(Attributed(w)')
  BY QuotesStayFinite, FS_Subset DEF Attributed
<1>2. \A q \in Attributed(w)' : QuoteAmount[q] \in Nat
  BY TopupTypeStep DEF Attributed, TopupConstants, TopupTypeOK
<1>3. QED
  BY <1>1, <1>2, SumGrows

\* What bridging takes from one chain of a wallet it adds to another.
LEMMA BridgeKeepsTotal ==
  ASSUME TopupConstants, TopupTypeOK, NEW w \in Wallet, NEW from \in LiveChain,
         NEW to \in LiveChain, NEW amount \in BridgeAmount,
         Bridge(w, from, to, amount), NEW v \in Wallet
  PROVE  SumFunctionOnSet(backing', Accounts(v)) = SumFunctionOnSet(backing, Accounts(v))
<1> DEFINE A == <<w, from>>
           B == <<w, to>>
<1>0. /\ IsFiniteSet(Accounts(v))
      /\ \A a \in Accounts(v) : backing[a] \in Nat
      /\ A # B /\ A \in Account /\ B \in Account /\ amount \in Nat
      /\ backing[A] >= amount
      /\ \A a \in Account : backing[a] \in Nat
  BY AccountsOf DEF TopupTypeOK, Bridge, TopupConstants, Account
<1>1. /\ backing'[A] = backing[A] - amount /\ backing'[B] = backing[B] + amount
      /\ \A a \in Account : a # A /\ a # B => backing'[a] = backing[a]
  BY <1>0 DEF Bridge, Bridged, TopupTypeOK
<1>2. \A a \in Account : backing'[a] \in Nat
  BY <1>0, <1>1
<1>3. CASE v # w
  <2>1. \A a \in Accounts(v) : a \in Account /\ a # A /\ a # B
    <3>1. \A a \in Accounts(v) : a[1] = v
      BY DEF Accounts
    <3>2. A[1] = w /\ B[1] = w
      OBVIOUS
    <3>3. \A a \in Accounts(v) : a \in Account
      BY AccountsOf
    <3>4. QED
      BY <1>3, <3>1, <3>2, <3>3
  <2>2. \A a \in Accounts(v) : backing'[a] = backing[a]
    BY <1>1, <2>1
  <2>3. QED
    BY <1>0, <2>2, SumSame
<1>4. CASE v = w
  <2> DEFINE R == Accounts(v) \ {A}
             Rest == R \ {B}
  <2>1. A \in Accounts(v) /\ B \in R
    BY <1>0, <1>4 DEF Accounts, TopupConstants
  <2>2. Accounts(v) \subseteq Account /\ IsFiniteSet(R) /\ IsFiniteSet(Rest)
    BY <1>0, AccountsOf, FS_Subset
  <2>3. \A a \in Rest : backing'[a] = backing[a]
    BY <1>1, <2>2
  <2> HIDE DEF A, B
  <2>4. SumFunctionOnSet(backing, Accounts(v)) = backing[A] + SumFunctionOnSet(backing, R)
    BY <1>0, <2>1, SumWithout
  <2>5. SumFunctionOnSet(backing', Accounts(v)) = backing'[A] + SumFunctionOnSet(backing', R)
    BY <1>0, <1>2, <2>1, <2>2, SumWithout
  <2> HIDE DEF R
  <2>6. R \subseteq Account
    BY <2>2 DEF R
  <2>7. SumFunctionOnSet(backing, R) = backing[B] + SumFunctionOnSet(backing, Rest)
    BY <1>0, <2>1, <2>2, <2>6, SumWithout
  <2>8. SumFunctionOnSet(backing', R) = backing'[B] + SumFunctionOnSet(backing', Rest)
    BY <1>2, <2>1, <2>2, <2>6, SumWithout
  <2> HIDE DEF Rest
  <2>9. SumFunctionOnSet(backing', Rest) = SumFunctionOnSet(backing, Rest)
    BY <2>2, <2>3, SumSame
  <2>10. SumFunctionOnSet(backing, Rest) \in Nat
    BY <1>0, <2>2, <2>6, SumType DEF Rest
  <2>11. QED
    BY <1>0, <1>1, <2>4, <2>5, <2>7, <2>8, <2>9, <2>10
<1>5. QED
  BY <1>3, <1>4

\* creditBackingDeposit adds a quote to the backing of its wallet when it
\* becomes attributed; no other session is about to add it again.
LEMMA BackAttributes ==
  ASSUME TopupConstants, TopupTypeOK, SettleInv, BackingInv, TopupNext,
         NEW s \in Session, Back(s), NEW w \in Wallet
  PROVE  SumFunctionOnSet(backing', Accounts(w)) <=
           SumFunctionOnSet(QuoteAmount, Attributed(w)')
<1> DEFINE a == order[s].account
           q == order[s].quote
<1>0. SessionsOK /\ TablesOK
  BY TypeParts
<1>1. /\ at[s] = "back" /\ Winner(s)
      /\ a \in Account /\ q \in Quote /\ QuoteAmount[q] \in Nat
      /\ q \in DOMAIN quotes /\ quotes[q].state = "consumed"
      /\ quotes[q].wallet = a[1]
  BY <1>0, OrderFields DEF Back, Winner, SessionsOK, SettleInv, OrderStands,
     WinnersStand, TopupConstants
<1>2. /\ backing' = [backing EXCEPT ![a] = @ + QuoteAmount[q]]
      /\ at' = [at EXCEPT ![s] = "read"] /\ UNCHANGED <<quotes, order>>
  BY DEF Back, Advance
<1> HIDE DEF a, q
<1>3. /\ IsFiniteSet(Accounts(w)) /\ Accounts(w) \subseteq Account
      /\ \A b \in Account : backing[b] \in Nat /\ backing'[b] \in Nat
      /\ backing'[a] = backing[a] + QuoteAmount[q]
      /\ \A b \in Account \ {a} : backing'[b] = backing[b]
  BY <1>0, <1>1, <1>2, AccountsOf DEF TablesOK
<1>4. SumFunctionOnSet(backing, Accounts(w)) <= SumFunctionOnSet(QuoteAmount, Attributed(w))
  BY DEF BackingInv, BackingAttributed
<1>5. /\ IsFiniteSet(Attributed(w))
      /\ \A x \in DOMAIN quotes : QuoteAmount[x] \in Nat
      /\ Attributed(w) \subseteq DOMAIN quotes
  BY <1>0, FS_Subset DEF BackingInv, Attributed, TablesOK, TopupConstants
<1>6. /\ SumFunctionOnSet(backing, Accounts(w)) \in Nat
      /\ SumFunctionOnSet(QuoteAmount, Attributed(w)) \in Nat
  BY <1>3, <1>5, SumType
<1>7. CASE w # a[1]
  <2>1. \A b \in Accounts(w) : backing'[b] = backing[b]
    BY <1>3, <1>7 DEF Accounts
  <2>2. SumFunctionOnSet(backing', Accounts(w)) = SumFunctionOnSet(backing, Accounts(w))
    BY <1>3, <2>1, SumSame
  <2>3. SumFunctionOnSet(QuoteAmount, Attributed(w)) <=
          SumFunctionOnSet(QuoteAmount, Attributed(w)')
    BY <1>5, AttributedGrows, AttributedTotals DEF BackingInv
  <2>4. SumFunctionOnSet(QuoteAmount, Attributed(w)') \in Nat
    <3>1. IsFiniteSet(Attributed(w)') /\ \A x \in Attributed(w)' : QuoteAmount[x] \in Nat
      BY <1>2, <1>5, FS_Subset DEF Attributed, BackingInv
    <3>2. QED
      BY <3>1, SumType
  <2>5. QED
    BY <1>4, <1>6, <2>2, <2>3, <2>4
<1>8. CASE w = a[1]
  <2> DEFINE R == Accounts(w) \ {a}
  <2>1. a \in Accounts(w) /\ IsFiniteSet(R)
    BY <1>1, <1>3, <1>8, FS_Subset DEF Accounts, Account
  <2>2. SumFunctionOnSet(backing, Accounts(w)) = backing[a] + SumFunctionOnSet(backing, R)
    BY <1>3, <2>1, SumWithout
  <2>3. SumFunctionOnSet(backing', Accounts(w)) = backing'[a] + SumFunctionOnSet(backing', R)
    BY <1>3, <2>1, SumWithout
  <2>4. SumFunctionOnSet(backing', R) = SumFunctionOnSet(backing, R)
    BY <1>3, <2>1, SumSame
  <2>5. SumFunctionOnSet(backing, R) \in Nat
    BY <1>3, <2>1, SumType
  <2> HIDE DEF R
  <2>6. SumFunctionOnSet(backing', Accounts(w)) =
          SumFunctionOnSet(backing, Accounts(w)) + QuoteAmount[q]
    BY <1>1, <1>3, <2>2, <2>3, <2>4, <2>5
  <2>7. q \notin Attributed(w)
    BY <1>1 DEF Attributed, q
  <2>8. q \in Attributed(w)'
    <3>1. ASSUME NEW t \in Session, at'[t] = "back", order'[t].quote = q
          PROVE  FALSE
      <4>1. t # s /\ at[t] = "back" /\ order[t].quote = q
        BY <1>0, <1>2, <3>1 DEF SessionsOK
      <4>2. QED
        BY <1>1, <4>1 DEF Winner, SettleInv, WinnersStand, QuoteSettledOnce, q
    <3>2. QED
      BY <1>1, <1>2, <1>8, <3>1 DEF Attributed
  <2> DEFINE S == Attributed(w) \cup {q}
  <2>9. SumFunctionOnSet(QuoteAmount, S) =
          SumFunctionOnSet(QuoteAmount, Attributed(w)) + QuoteAmount[q]
    BY <1>1, <1>5, <2>7, SumWith
  <2>10. SumFunctionOnSet(QuoteAmount, S) <= SumFunctionOnSet(QuoteAmount, Attributed(w)')
    BY <1>5, <2>8, AttributedGrows, AttributedTotals DEF BackingInv
  <2>11. SumFunctionOnSet(QuoteAmount, Attributed(w)') \in Nat
    <3>1. IsFiniteSet(Attributed(w)') /\ \A x \in Attributed(w)' : QuoteAmount[x] \in Nat
      BY <1>2, <1>5, FS_Subset DEF Attributed, BackingInv
    <3>2. QED
      BY <3>1, SumType
  <2> HIDE DEF S
  <2>12. QED
    BY <1>1, <1>4, <1>6, <2>6, <2>9, <2>10, <2>11
<1>9. QED
  BY <1>7, <1>8

LEMMA BackingStep ==
  TopupConstants /\ TopupTypeOK /\ SettleInv /\ BackingInv /\ [TopupNext]_topupVars
    => BackingInv'
<1> SUFFICES ASSUME TopupConstants, TopupTypeOK, SettleInv, BackingInv,
                    [TopupNext]_topupVars, NEW w \in Wallet
             PROVE  SumFunctionOnSet(backing', Accounts(w)) <=
                      SumFunctionOnSet(QuoteAmount, Attributed(w)')
  BY QuotesStayFinite DEF BackingInv, BackingAttributed, Accounts
<1>1. SumFunctionOnSet(backing, Accounts(w)) <= SumFunctionOnSet(QuoteAmount, Attributed(w)')
  <2>1. SumFunctionOnSet(QuoteAmount, Attributed(w)) <=
          SumFunctionOnSet(QuoteAmount, Attributed(w)')
    BY AttributedGrows, AttributedTotals DEF BackingInv
  <2>2. SumFunctionOnSet(backing, Accounts(w)) <= SumFunctionOnSet(QuoteAmount, Attributed(w))
    BY DEF BackingInv, BackingAttributed
  <2>3. SumFunctionOnSet(backing, Accounts(w)) \in Nat
    BY AccountsOf, SumType DEF TopupTypeOK
  <2>4. /\ SumFunctionOnSet(QuoteAmount, Attributed(w)) \in Nat
        /\ SumFunctionOnSet(QuoteAmount, Attributed(w)') \in Nat
    <3>1. /\ IsFiniteSet(Attributed(w)) /\ IsFiniteSet(Attributed(w)')
          /\ TopupTypeOK'
      BY QuotesStayFinite, FS_Subset, TopupTypeStep DEF Attributed, BackingInv
    <3>2. /\ \A q \in Attributed(w) : QuoteAmount[q] \in Nat
          /\ \A q \in Attributed(w)' : QuoteAmount[q] \in Nat
      BY <3>1 DEF Attributed, TopupTypeOK, TopupConstants
    <3>3. QED
      BY <3>1, <3>2, SumType
  <2>5. QED
    BY <2>1, <2>2, <2>3, <2>4
<1>2. CASE UNCHANGED backing
  BY <1>1, <1>2
<1>3. ASSUME NEW s \in Session, Back(s), TopupNext
      PROVE  SumFunctionOnSet(backing', Accounts(w)) <=
               SumFunctionOnSet(QuoteAmount, Attributed(w)')
  BY <1>3, BackAttributes
<1>4. ASSUME NEW v \in Wallet, NEW from \in LiveChain, NEW to \in LiveChain,
             NEW amount \in BridgeAmount, Bridge(v, from, to, amount)
      PROVE  SumFunctionOnSet(backing', Accounts(w)) <=
               SumFunctionOnSet(QuoteAmount, Attributed(w)')
  BY <1>1, <1>4, BridgeKeepsTotal
<1>5. QED
  BY <1>2, <1>3, <1>4
  DEF TopupNext, StoreQuote, Expire, Sweep, Settle, SessionStep, Send, ConsumeQuote,
      Read, Adopt, Mine, ExternalDeposit, PollRead, PollAdopt, Collect, CollectFlush,
      ClaimWithdraw, Request, ReceiptTimeout, BackError, ReadError, Crash, topupVars

\* creditBackingDeposit and bridgeBacking (ledger/backing.ts) never let the
\* backing of a wallet, over all chains, exceed the quotes it settled, for any
\* number of sessions, quotes, bridges and faults.
THEOREM TopupBackingWithinQuotes == TopupSafeSpec => []BackingWithinQuotes
<1>1. TopupInit => BackingInv
  <2> SUFFICES ASSUME TopupInit, NEW w \in Wallet
               PROVE  SumFunctionOnSet(backing, Accounts(w)) <=
                        SumFunctionOnSet(QuoteAmount, Attributed(w))
    BY FS_EmptySet DEF TopupInit, BackingInv, BackingAttributed
  <2>1. Attributed(w) = {}
    BY DEF TopupInit, Attributed
  <2>2. \A a \in Accounts(w) : backing[a] = 0
    BY TopupConstants, AccountsOf DEF TopupInit
  <2>3. SumFunctionOnSet(backing, Accounts(w)) = 0
    BY <2>2, TopupConstants, AccountsOf, SumOfZeros
  <2>4. QED
    BY <2>1, <2>3, SumOfNone
<1>2. TopupTypeOK /\ BackingInv => BackingWithinQuotes
  <2> SUFFICES ASSUME TopupTypeOK, BackingInv, NEW w \in Wallet
               PROVE  SumFunctionOnSet(backing, {w} \X Chain) <=
                        SumFunctionOnSet(QuoteAmount,
                          {q \in DOMAIN quotes : /\ quotes[q].wallet = w
                                                 /\ quotes[q].state = "consumed"})
    BY DEF BackingWithinQuotes
  <2> DEFINE C == {q \in DOMAIN quotes : /\ quotes[q].wallet = w
                                         /\ quotes[q].state = "consumed"}
  <2>1. Attributed(w) \subseteq C
    BY DEF Attributed
  <2>2. IsFiniteSet(C) /\ IsFiniteSet(Attributed(w))
    BY FS_Subset DEF BackingInv, Attributed
  <2>3. \A q \in C : QuoteAmount[q] \in Nat
    BY TopupConstants DEF TopupTypeOK, TopupConstants
  <2> HIDE DEF C
  <2>4. SumFunctionOnSet(QuoteAmount, Attributed(w)) <= SumFunctionOnSet(QuoteAmount, C)
    BY <2>1, <2>2, <2>3, SumGrows
  <2>5. /\ SumFunctionOnSet(QuoteAmount, Attributed(w)) \in Nat
        /\ SumFunctionOnSet(QuoteAmount, C) \in Nat
    BY <2>1, <2>2, <2>3, SumType
  <2>6. SumFunctionOnSet(backing, {w} \X Chain) <= SumFunctionOnSet(QuoteAmount, Attributed(w))
    BY DEF BackingInv, BackingAttributed, Accounts
  <2>7. SumFunctionOnSet(backing, {w} \X Chain) \in Nat
    BY TopupConstants, AccountsOf, SumType DEF TopupTypeOK, Accounts
  <2>8. QED
    BY <2>4, <2>5, <2>6, <2>7 DEF C
<1>3. QED
  BY <1>1, <1>2, TopupConstants, BackingStep, SettleInvariant, PTL DEF TopupSafeSpec

-----------------------------------------------------------------------------
(* No reading, however stale, credits more than was deposited *)

\* Every reading that may still be adopted is of credits that were deposited.
ReadingsAreDeposits ==
  /\ \A a \in Account : vault[a] <= deposited[a] /\ poll[a] <= deposited[a]
  /\ \A s \in Session : at[s] = "hydrate" => seen[s] <= deposited[order[s].account]

CreditInv == ReadingsAreDeposits /\ CreditsWereDeposited

LEMMA BackedType == ASSUME TypeOK, NEW a \in Account
                    PROVE  Backed(a) \in Int
BY DEF TypeOK, CreditRow, Backed

\* A hydrate never raises the credits above both what they were and what it
\* has read.
LEMMA HydrateBound ==
  ASSUME TypeOK, NEW a \in Account, NEW n \in Nat, Hydrate(a, n),
         NEW d \in [Account -> Nat], n <= d[a],
         \A b \in Account : Backed(b) <= d[b]
  PROVE  \A b \in Account : Backed(b)' <= d[b]
<1> SUFFICES ASSUME NEW b \in Account
             PROVE  Backed(b)' <= d[b]
  OBVIOUS
<1>1. credit[b] \in CreditRow /\ d[b] \in Nat /\ Backed(b) <= d[b]
  BY DEF TypeOK
<1>2. CASE b # a
  BY <1>1, <1>2 DEF Hydrate, Backed, TypeOK
<1>3. CASE b = a
  <2>1. credit'[b] = Hydrated(credit[b], n)
    BY <1>3 DEF Hydrate, TypeOK
  <2>2. QED
    BY <1>1, <1>3, <2>1 DEF Hydrated, Backed, CreditRow
<1>4. QED
  BY <1>2, <1>3

\* Requests only move credits between columns.
LEMMA RequestKeepsBacked ==
  ASSUME TypeOK, Request, NEW a \in Account
  PROVE  Backed(a)' = Backed(a)
<1>0. credit[a] \in CreditRow
  BY DEF TypeOK
<1>1. ASSUME NEW r \in Reservation, NEW b \in Account, NEW amount \in Amount,
             Reserve(r, b, amount)
      PROVE  Backed(a)' = Backed(a)
  BY <1>0, <1>1, AmountsAreNatural DEF Reserve, Held, Backed, TypeOK, CreditRow
<1>2. ASSUME NEW r \in Reservation, Release(r, "released_error")
      PROVE  Backed(a)' = Backed(a)
  <2>1. reservations[r].account \in Account /\ reservations[r].amount \in Nat
    BY <1>2 DEF Release, TypeOK, Open, ReservationRow
  <2>2. QED
    BY <1>0, <1>2, <2>1 DEF Release, Returned, Backed, TypeOK, CreditRow
<1>3. ASSUME NEW r \in Reservation, NEW total \in Amount, Commit(r, total)
      PROVE  Backed(a)' = Backed(a)
  <2>1. /\ reservations[r].account \in Account /\ reservations[r].amount \in Nat
        /\ ActualCharge(r, total) \in Nat
    BY <1>3, ChargeWithinHold, AmountsAreNatural DEF Commit
  <2>2. QED
    BY <1>0, <1>3, <2>1 DEF Commit, Charged, Backed, TypeOK, CreditRow
<1>4. QED
  BY <1>1, <1>2, <1>3 DEF Request

\* What a step does to the vault and to the total of the deposits: it
\* credits both alike, or takes from the vault alone.
LEMMA DepositsGrow ==
  ASSUME TopupConstants, TopupTypeOK, CreditInv, [TopupNext]_topupVars,
         NEW a \in Account
  PROVE  deposited[a] <= deposited'[a] /\ vault'[a] <= deposited'[a]
<1>0. TypeOK /\ SessionsOK /\ VaultOK
  BY TypeParts
<1>1. /\ vault[a] \in Nat /\ deposited[a] \in Nat
      /\ vault[a] <= deposited[a]
  BY <1>0 DEF VaultOK, CreditInv, ReadingsAreDeposits
<1>2. ASSUME NEW b \in Account, NEW n \in Nat, Credited(b, n)
      PROVE  deposited[a] <= deposited'[a] /\ vault'[a] <= deposited'[a]
  BY <1>0, <1>1, <1>2 DEF Credited, VaultOK
<1>3. CASE UNCHANGED <<vault, deposited>>
  BY <1>1, <1>3
<1>4. ASSUME NEW s \in Session, Mine(s)
      PROVE  deposited[a] <= deposited'[a] /\ vault'[a] <= deposited'[a]
  <2>1. order[s].account \in Account /\ QuoteAmount[order[s].quote] \in Nat
    BY <1>0, OrderFields
  <2>2. QED
    BY <1>2, <1>3, <1>4, <2>1 DEF Mine
<1>5. ASSUME NEW o \in Order, ExternalDeposit(o)
      PROVE  deposited[a] <= deposited'[a] /\ vault'[a] <= deposited'[a]
  <2>1. o.account \in Account /\ QuoteAmount[o.quote] \in Nat
    BY DEF Order, TopupConstants
  <2>2. QED
    BY <1>2, <1>5, <2>1 DEF ExternalDeposit
<1>6. ASSUME NEW b \in Account, NEW n \in Nat, UNCHANGED deposited,
             vault' = [vault EXCEPT ![b] = @ - n]
      PROVE  deposited[a] <= deposited'[a] /\ vault'[a] <= deposited'[a]
  BY <1>0, <1>1, <1>6 DEF VaultOK
<1>7. ASSUME NEW b \in Account, NEW n \in WithdrawAmount, ClaimWithdraw(b, n)
      PROVE  deposited[a] <= deposited'[a] /\ vault'[a] <= deposited'[a]
  BY <1>6, <1>7 DEF ClaimWithdraw, TopupConstants
<1>8. ASSUME NEW b \in Account, Collect(b)
      PROVE  deposited[a] <= deposited'[a] /\ vault'[a] <= deposited'[a]
  <2>1. credit[b].accrued \in Nat
    BY <1>0 DEF TypeOK, CreditRow
  <2>2. QED
    BY <1>6, <1>8, <2>1 DEF Collect
<1>9. QED
  BY <1>3, <1>4, <1>5, <1>7, <1>8
  DEF TopupNext, StoreQuote, Expire, Sweep, Settle, SessionStep, Send, ConsumeQuote,
      Back, Read, Adopt, PollRead, PollAdopt, CollectFlush, Bridge, Request,
      ReceiptTimeout, BackError, ReadError, Crash, topupVars, vaultVars

LEMMA ReadingsStep ==
  TopupConstants /\ TopupTypeOK /\ CreditInv /\ [TopupNext]_topupVars
    => ReadingsAreDeposits'
<1> SUFFICES ASSUME TopupConstants, TopupTypeOK, CreditInv, [TopupNext]_topupVars
             PROVE  ReadingsAreDeposits'
  OBVIOUS
<1>0. SessionsOK /\ TablesOK /\ VaultOK /\ SessionsOK' /\ TablesOK' /\ VaultOK'
  <2>1. TopupTypeOK'
    BY TopupTypeStep
  <2>2. QED
    BY <2>1, TypeParts DEF TopupTypeOK, SessionsOK, TablesOK, VaultOK
<1>1. ASSUME NEW a \in Account
      PROVE  poll'[a] <= deposited'[a]
  <2>1. /\ poll[a] <= deposited[a] /\ vault[a] <= deposited[a]
        /\ deposited[a] <= deposited'[a]
        /\ deposited[a] \in Nat /\ deposited'[a] \in Nat
        /\ vault[a] \in Nat /\ poll[a] \in Nat \cup {NoReading}
    BY <1>0, DepositsGrow DEF CreditInv, ReadingsAreDeposits, VaultOK, TablesOK
  <2>2. poll'[a] \in {poll[a], vault[a], NoReading}
    <3>1. ASSUME NEW b \in Dashboard, PollRead(b) \/ PollAdopt(b)
          PROVE  poll'[a] \in {poll[a], vault[a], NoReading}
      BY <1>0, <3>1 DEF PollRead, PollAdopt, TablesOK
    <3>2. CASE Crash
      BY <3>2 DEF Crash
    <3>3. CASE UNCHANGED poll
      BY <3>3
    <3>4. QED
      BY <3>1, <3>2, <3>3
      DEF TopupNext, StoreQuote, Expire, Sweep, Settle, SessionStep, Send,
          ConsumeQuote, Back, Read, Adopt, Mine, ExternalDeposit, Collect,
          CollectFlush, ClaimWithdraw, Bridge, Request, ReceiptTimeout, BackError,
          ReadError, topupVars
  <2>3. QED
    BY <2>1, <2>2 DEF NoReading
<1>2. ASSUME NEW s \in Session, at'[s] = "hydrate"
      PROVE  seen'[s] <= deposited'[order'[s].account]
  <2>1. order'[s] = order[s] /\ order[s].account \in Account
    BY <1>0, <1>2, SessionMoves, OrderFields
  <2> DEFINE a == order[s].account
  <2>2. /\ vault[a] <= deposited[a] /\ deposited[a] <= deposited'[a]
        /\ deposited[a] \in Nat /\ deposited'[a] \in Nat
        /\ vault[a] \in Nat /\ seen[s] \in Nat
    BY <1>0, <2>1, DepositsGrow DEF CreditInv, ReadingsAreDeposits, VaultOK, SessionsOK
  <2>3. CASE Read(s)
    <3>1. seen'[s] = vault[a]
      BY <1>0, <2>3 DEF Read, SessionsOK
    <3>2. QED
      BY <2>1, <2>2, <3>1
  <2>4. CASE ~Read(s)
    <3>1. at[s] = "hydrate" /\ seen'[s] = seen[s]
      <4>1. ASSUME NEW t \in Session, NEW o \in Order, Settle(t, o)
            PROVE  at[s] = "hydrate" /\ seen'[s] = seen[s]
        BY <1>0, <1>2, <4>1 DEF Settle, Advance, SessionsOK
      <4>2. ASSUME NEW t \in Session, SessionStep(t)
            PROVE  at[s] = "hydrate" /\ seen'[s] = seen[s]
        BY <1>0, <1>2, <2>4, <4>2
        DEF SessionStep, Send, ConsumeQuote, Back, Read, Adopt, Advance, SessionsOK
      <4>3. ASSUME NEW t \in Session, Mine(t)
            PROVE  at[s] = "hydrate" /\ seen'[s] = seen[s]
        BY <1>0, <1>2, <4>3 DEF Mine, Advance, SessionsOK
      <4>4. ASSUME NEW t \in Session, ReceiptTimeout(t) \/ BackError(t) \/ ReadError(t)
            PROVE  at[s] = "hydrate" /\ seen'[s] = seen[s]
        BY <1>0, <1>2, <4>4
        DEF ReceiptTimeout, BackError, ReadError, Advance, SessionsOK
      <4>5. CASE Crash
        BY <1>0, <1>2, <4>5 DEF Crash, SessionsOK
      <4>6. CASE UNCHANGED settleVars
        BY <1>2, <4>6 DEF settleVars
      <4>7. QED
        BY <4>1, <4>2, <4>3, <4>4, <4>5, <4>6
        DEF TopupNext, StoreQuote, Expire, Sweep, ExternalDeposit, PollRead,
            PollAdopt, Collect, CollectFlush, ClaimWithdraw, Bridge, Request, topupVars
    <3>2. seen[s] <= deposited[a]
      BY <3>1 DEF CreditInv, ReadingsAreDeposits
    <3>3. QED
      BY <2>1, <2>2, <3>1, <3>2
  <2>5. QED
    BY <2>3, <2>4
<1>3. QED
  BY <1>1, <1>2, DepositsGrow DEF ReadingsAreDeposits

LEMMA CreditsStep ==
  TopupConstants /\ TopupTypeOK /\ CreditInv /\ [TopupNext]_topupVars
    => CreditsWereDeposited'
<1> SUFFICES ASSUME TopupConstants, TopupTypeOK, CreditInv, [TopupNext]_topupVars,
                    NEW a \in Account
             PROVE  Backed(a)' <= deposited'[a]
  BY DEF CreditsWereDeposited
<1>0. TypeOK /\ SessionsOK /\ TablesOK /\ VaultOK
  BY TypeParts
<1>1. /\ deposited \in [Account -> Nat]
      /\ \A b \in Account : Backed(b) <= deposited[b]
  BY <1>0 DEF VaultOK, CreditInv, CreditsWereDeposited
<1>2. /\ deposited[a] <= deposited'[a]
      /\ deposited[a] \in Nat /\ deposited'[a] \in Int
      /\ Backed(a) \in Int /\ Backed(a)' \in Int
  <2>1. TypeOK' /\ VaultOK'
    BY TopupTypeStep DEF TopupTypeOK, VaultOK
  <2>2. Backed(a) \in Int /\ Backed(a)' \in Int
    BY <1>0, <2>1 DEF TypeOK, CreditRow, Backed
  <2>3. QED
    BY <1>0, <2>1, <2>2, DepositsGrow DEF VaultOK
<1> SUFFICES Backed(a)' <= deposited[a]
  BY <1>2
<1>3. CASE Request
  BY <1>0, <1>1, <1>3, RequestKeepsBacked
<1>4. ASSUME NEW s \in Session, Adopt(s)
      PROVE  Backed(a)' <= deposited[a]
  <2>1. /\ order[s].account \in Account /\ seen[s] \in Nat
        /\ seen[s] <= deposited[order[s].account]
        /\ Hydrate(order[s].account, seen[s])
    BY <1>0, <1>4, OrderFields DEF Adopt, SessionsOK, CreditInv, ReadingsAreDeposits
  <2>2. QED
    BY <1>0, <1>1, <2>1, HydrateBound
<1>5. ASSUME NEW b \in Dashboard, PollAdopt(b)
      PROVE  Backed(a)' <= deposited[a]
  <2>1. b \in Account
    BY DashboardShowsAccounts
  <2>2. /\ poll[b] \in Nat /\ poll[b] <= deposited[b]
        /\ Hydrate(b, poll[b])
    BY <1>0, <1>5, <2>1 DEF PollAdopt, TablesOK, CreditInv, ReadingsAreDeposits
  <2>3. QED
    BY <1>0, <1>1, <2>1, <2>2, HydrateBound
<1>6. ASSUME NEW b \in Account, CollectFlush(b)
      PROVE  Backed(a)' <= deposited[a]
  <2>1. Backed(a)' <= Backed(a)
    BY <1>0, <1>6 DEF CollectFlush, FlushAccrued, Flushed, Backed, TypeOK, CreditRow
  <2>2. QED
    BY <1>1, <1>2, <2>1
<1>7. CASE UNCHANGED ledgerVars
  BY <1>1, <1>7 DEF ledgerVars, Backed
<1>8. QED
  BY <1>3, <1>4, <1>5, <1>6, <1>7, TopupStepsLedger DEF topupVars

\* Settles, dashboards, collections, withdrawals and requests in any order,
\* with readings of any age: hydrate never credits a wallet with more than
\* was ever deposited for it.
THEOREM TopupCreditsWereDeposited == TopupSafeSpec => []CreditsWereDeposited
<1>1. TopupConstants /\ TopupInit => CreditInv
  <2> SUFFICES ASSUME TopupConstants, TopupInit
               PROVE  CreditInv
    OBVIOUS
  <2>1. InitialCredits \in Nat
    BY DEF TopupConstants
  <2>2. ReadingsAreDeposits
    BY <2>1 DEF TopupInit, ReadingsAreDeposits, NoReading
  <2>3. ASSUME NEW a \in Account
        PROVE  Backed(a) <= deposited[a]
    <3>1. /\ credit[a] = [ZeroRow EXCEPT !.balance = InitialCredits]
          /\ deposited[a] = InitialCredits
      BY DEF TopupInit
    <3>2. Backed(a) = InitialCredits
      BY <2>1, <3>1 DEF Backed, ZeroRow
    <3>3. QED
      BY <2>1, <3>1, <3>2
  <2>4. QED
    BY <2>2, <2>3 DEF CreditInv, CreditsWereDeposited
<1>2. TopupConstants /\ TopupTypeOK /\ CreditInv /\ [TopupNext]_topupVars => CreditInv'
  BY ReadingsStep, CreditsStep DEF CreditInv
<1>3. CreditInv => CreditsWereDeposited
  BY DEF CreditInv
<1>4. QED
  BY <1>1, <1>2, <1>3, TopupConstants, TopupIsTyped, PTL DEF TopupSafeSpec
=============================================================================
