-------------------------------- MODULE Topup --------------------------------
(***************************************************************************)
(* Topping up: the one-shot settle route                                   *)
(* (plugin-tokagent-billing/src/routes/topup-routes.ts), the quotes it      *)
(* settles (packages/billing/src/pricing/quotes.ts), the per-chain backing  *)
(* (ledger/backing.ts) and the reading of vault.credits that the settle     *)
(* route and GET /v1/credits/me adopt into the ledger.                      *)
(*                                                                          *)
(* A session is one POST /v1/topup/settle: fetch the quote, send the signed *)
(* authorisation to the vault, wait for its receipt, mark the quote         *)
(* consumed, attribute the deposit to its chain, read the vault, hydrate    *)
(* the ledger.  Every await of the handler ends an atomic step.             *)
(*                                                                          *)
(* Abstractions.  The signature of a session is valid and its amount is the *)
(* quote's: other requests are refused before any state changes.  The       *)
(* collection of accrued credits is two steps here, the chain's and the     *)
(* ledger's; ConsumeWorker has the steps between them.                      *)
(***************************************************************************)
EXTENDS CreditLedger, Functions

CONSTANTS
  Quote,           \* top-up ids, fresh UUIDs
  QuoteAmount,     \* the amount each of them quotes
  HeaderNonce,     \* authorisation nonces a client may choose (X-PAYMENT)
  Session,         \* settle requests
  LiveChain,       \* chains that resolveBillingChain finds
  Dashboard,       \* accounts that a dashboard shows, and polls
  InitialCredits,  \* credits every account starts with, on chain and hydrated
  WithdrawAmount,  \* amounts a user may withdraw from the vault
  BridgeAmount,    \* amounts a user may bridge
  Fault,           \* kinds of fault that may happen
  MaxFaults        \* bound on their number

ASSUME TopupConstants ==
  /\ Account # {} /\ Quote # {}
  /\ QuoteAmount \in [Quote -> Nat \ {0}]
  /\ IsFiniteSet(Chain)
  /\ LiveChain \subseteq Chain /\ Dashboard \subseteq Wallet \X LiveChain
  /\ InitialCredits \in Nat /\ WithdrawAmount \subseteq Nat
  /\ BridgeAmount \subseteq Nat \ {0}
  /\ MaxFaults \in Nat

VARIABLES
  quotes,      \* billing_topup_quotes: state of each quote stored so far
  at,          \* where each session is in handleTopupSettle
  order,       \* the quote, account and nonce of each session
  seen,        \* what each session has read from the vault
  poll,        \* what each GET /v1/credits/me in flight has read
  backing,     \* billing_credit_backing, zero where there is no row
  vault,       \* credits[account] of the vault contract
  spent,       \* authorisations the token contract has used
  mempool,     \* sessions whose deposit is sent and not mined
  collecting,  \* collected on chain, not yet flushed in the ledger
  faults,      \* number of faults so far
  paid,        \* history: sessions whose deposit was mined
  deposited    \* history: what was ever deposited for each account

settleVars == <<at, order, seen>>
vaultVars == <<vault, spent, mempool, paid, deposited>>
topupVars == <<ledgerVars, quotes, settleVars, poll, backing, vaultVars,
               collecting, faults>>

QuoteState == {"open", "expired", "consumed", "swept"}

SessionState == {"start", "send", "wait", "consume", "back", "read", "hydrate",
                 "ok", "conflict", "failed"}

NoReading == -1

\* The deposit a session asks for, under a nonce derived from the quote or
\* chosen by the client.
Order == [quote : Quote, account : Account, nonce : Quote \cup HeaderNonce]

Auth(o) == <<o.account, o.nonce>>

\* What stands in order for a session that has not begun.
NoOrder == CHOOSE o \in Order : TRUE

-----------------------------------------------------------------------------
(* Quotes *)

StoreQuote(q, w) ==
  /\ q \notin DOMAIN quotes
  /\ quotes' = [x \in DOMAIN quotes \cup {q} |->
                  IF x = q THEN [wallet |-> w, state |-> "open"] ELSE quotes[x]]
  /\ UNCHANGED <<ledgerVars, settleVars, poll, backing, vaultVars, collecting, faults>>

QuoteBecomes(q, state) == quotes' = [quotes EXCEPT ![q] = [@ EXCEPT !.state = state]]

\* expiresAt passes.
Expire(q) ==
  /\ q \in DOMAIN quotes /\ quotes[q].state = "open"
  /\ QuoteBecomes(q, "expired")
  /\ UNCHANGED <<ledgerVars, settleVars, poll, backing, vaultVars, collecting, faults>>

\* sweepExpiredQuotes deletes the row, whoever is settling it.
Sweep(q) ==
  /\ q \in DOMAIN quotes /\ quotes[q].state = "expired"
  /\ QuoteBecomes(q, "swept")
  /\ UNCHANGED <<ledgerVars, settleVars, poll, backing, vaultVars, collecting, faults>>

-----------------------------------------------------------------------------
(* handleTopupSettle *)

Advance(s, state) == at' = [at EXCEPT ![s] = state]

\* fetchQuote finds an open quote of the caller's wallet.  Nothing binds the
\* quote to a chain.
Settle(s, o) ==
  /\ at[s] = "start"
  /\ o.quote \in DOMAIN quotes
  /\ quotes[o.quote].state = "open"
  /\ quotes[o.quote].wallet = o.account[1]
  /\ o.account[2] \in LiveChain
  /\ o.nonce \in {o.quote} \cup HeaderNonce
  /\ order' = [order EXCEPT ![s] = o]
  /\ Advance(s, "send")
  /\ UNCHANGED <<ledgerVars, quotes, seen, poll, backing, vaultVars, collecting, faults>>

\* writeContract simulates the deposit, which reverts if the authorisation
\* was used, and broadcasts it.
SendBug(s) ==
  /\ at[s] = "send"
  /\ IF Auth(order[s]) \in spent
     THEN Advance(s, "failed") /\ UNCHANGED mempool
     ELSE Advance(s, "consume") /\ mempool' = mempool \cup {s}
  /\ UNCHANGED <<ledgerVars, quotes, order, seen, poll, backing, vault, spent, paid,
                 deposited, collecting, faults>>

Send(s) ==
  /\ at[s] = "send"
  /\ IF Auth(order[s]) \in spent
     THEN Advance(s, "failed") /\ UNCHANGED mempool
     ELSE Advance(s, "wait") /\ mempool' = mempool \cup {s}
  /\ UNCHANGED <<ledgerVars, quotes, order, seen, poll, backing, vault, spent, paid,
                 deposited, collecting, faults>>

\* consumeQuote: UPDATE ... WHERE consumed_at IS NULL, whether or not the
\* quote has expired; no row, no consumption.
ConsumableBug(q) == quotes[q].state # "swept"

Consumable(q) == quotes[q].state \in {"open", "expired"}

ConsumeQuote(s) ==
  LET q == order[s].quote
  IN /\ at[s] = "consume"
     /\ IF Consumable(q)
        THEN QuoteBecomes(q, "consumed") /\ Advance(s, "back")
        ELSE Advance(s, "conflict") /\ UNCHANGED quotes
     /\ UNCHANGED <<ledgerVars, order, seen, poll, backing, vaultVars, collecting, faults>>

\* creditBackingDeposit.
Back(s) ==
  /\ at[s] = "back"
  /\ backing' = [backing EXCEPT ![order[s].account] = @ + QuoteAmount[order[s].quote]]
  /\ Advance(s, "read")
  /\ UNCHANGED <<ledgerVars, quotes, order, seen, poll, vaultVars, collecting, faults>>

Read(s) ==
  /\ at[s] = "read"
  /\ seen' = [seen EXCEPT ![s] = vault[order[s].account]]
  /\ Advance(s, "hydrate")
  /\ UNCHANGED <<ledgerVars, quotes, order, poll, backing, vaultVars, collecting, faults>>

AdoptBug(s) ==
  /\ at[s] = "hydrate"
  /\ Hydrate(order[s].account, seen[s] + QuoteAmount[order[s].quote])
  /\ Advance(s, "ok")
  /\ UNCHANGED <<quotes, order, seen, poll, backing, vaultVars, collecting, faults>>

Adopt(s) ==
  /\ at[s] = "hydrate"
  /\ Hydrate(order[s].account, seen[s])
  /\ Advance(s, "ok")
  /\ UNCHANGED <<quotes, order, seen, poll, backing, vaultVars, collecting, faults>>

-----------------------------------------------------------------------------
(* handleGetCreditsMe: at most one in flight per account that is shown *)

PollRead(a) ==
  /\ poll[a] = NoReading
  /\ poll' = [poll EXCEPT ![a] = vault[a]]
  /\ UNCHANGED <<ledgerVars, quotes, settleVars, backing, vaultVars, collecting, faults>>

PollAdoptBug(a) ==
  /\ poll[a] # NoReading
  /\ IF credit[a].balance = 0 THEN Hydrate(a, poll[a]) ELSE UNCHANGED ledgerVars
  /\ poll' = [poll EXCEPT ![a] = NoReading]
  /\ UNCHANGED <<quotes, settleVars, backing, vaultVars, collecting, faults>>

PollAdopt(a) ==
  /\ poll[a] # NoReading
  /\ Hydrate(a, poll[a])
  /\ poll' = [poll EXCEPT ![a] = NoReading]
  /\ UNCHANGED <<quotes, settleVars, backing, vaultVars, collecting, faults>>

\* bridgeBacking.
BridgedBug(w, from, to, amount) ==
  [backing EXCEPT ![<<w, to>>] = @ + amount]

Bridged(w, from, to, amount) ==
  [backing EXCEPT ![<<w, from>>] = @ - amount, ![<<w, to>>] = @ + amount]

BridgeBug(w, from, to, amount) ==
  /\ from # to
  /\ backing' = Bridged(w, from, to, amount)
  /\ UNCHANGED <<ledgerVars, quotes, settleVars, poll, vaultVars, collecting, faults>>

Bridge(w, from, to, amount) ==
  /\ from # to
  /\ backing[<<w, from>>] >= amount
  /\ backing' = Bridged(w, from, to, amount)
  /\ UNCHANGED <<ledgerVars, quotes, settleVars, poll, vaultVars, collecting, faults>>

-----------------------------------------------------------------------------
(* The chain, the requests and the collection of what they accrue *)

Credited(a, amount) ==
  /\ vault' = [vault EXCEPT ![a] = @ + amount]
  /\ deposited' = [deposited EXCEPT ![a] = @ + amount]

\* A deposit is mined, or reverts because its authorisation was used
\* meanwhile; a session that still waits sees the receipt.
Mine(s) ==
  LET fresh == Auth(order[s]) \notin spent
  IN /\ s \in mempool
     /\ mempool' = mempool \ {s}
     /\ IF fresh
        THEN /\ Credited(order[s].account, QuoteAmount[order[s].quote])
             /\ spent' = spent \cup {Auth(order[s])}
             /\ paid' = paid \cup {s}
        ELSE UNCHANGED <<vault, deposited, spent, paid>>
     /\ IF at[s] = "wait" THEN Advance(s, IF fresh THEN "consume" ELSE "failed")
                          ELSE UNCHANGED at
     /\ UNCHANGED <<ledgerVars, quotes, order, seen, poll, backing, collecting, faults>>

\* depositX402 is permissionless: someone else submits what the user signed.
ExternalDeposit(o) ==
  /\ o.quote \in DOMAIN quotes /\ quotes[o.quote].wallet = o.account[1]
  /\ o.account[2] \in LiveChain
  /\ Auth(o) \notin spent
  /\ spent' = spent \cup {Auth(o)}
  /\ Credited(o.account, QuoteAmount[o.quote])
  /\ UNCHANGED <<ledgerVars, quotes, settleVars, poll, backing, mempool, paid,
                 collecting, faults>>

ClaimWithdraw(a, amount) ==
  /\ amount <= vault[a]
  /\ vault' = [vault EXCEPT ![a] = @ - amount]
  /\ UNCHANGED <<ledgerVars, quotes, settleVars, poll, backing, spent, mempool, paid,
                 deposited, collecting, faults>>

\* The consume transaction of an accrual is mined ...
Collect(a) ==
  /\ collecting[a] = 0
  /\ credit[a].accrued \in 1 .. vault[a]
  /\ vault' = [vault EXCEPT ![a] = @ - credit[a].accrued]
  /\ collecting' = [collecting EXCEPT ![a] = credit[a].accrued]
  /\ UNCHANGED <<ledgerVars, quotes, settleVars, poll, backing, spent, mempool, paid,
                 deposited, faults>>

\* ... and the ledger follows.
CollectFlush(a) ==
  /\ collecting[a] > 0
  /\ FlushAccrued(a)
  /\ collecting' = [collecting EXCEPT ![a] = 0]
  /\ UNCHANGED <<quotes, settleVars, poll, backing, vaultVars, faults>>

Request ==
  /\ \/ \E r \in Reservation, a \in Account, amount \in Amount : Reserve(r, a, amount)
     \/ \E r \in Reservation : Release(r, "released_error")
     \/ \E r \in Reservation, total \in Amount : Commit(r, total)
  /\ UNCHANGED <<quotes, settleVars, poll, backing, vaultVars, collecting, faults>>

-----------------------------------------------------------------------------
(* Faults, at most MaxFaults of the kinds in Fault *)

Faulty(kind) ==
  /\ kind \in Fault
  /\ faults < MaxFaults
  /\ faults' = faults + 1

\* waitForTransactionReceipt gives up: 500, and the deposit may still land.
ReceiptTimeout(s) ==
  /\ Faulty("receipt_timeout")
  /\ at[s] = "wait" /\ Advance(s, "failed")
  /\ UNCHANGED <<ledgerVars, quotes, order, seen, poll, backing, vaultVars, collecting>>

\* creditBackingDeposit fails and the error is swallowed.
BackError(s) ==
  /\ Faulty("back_error")
  /\ at[s] = "back" /\ Advance(s, "read")
  /\ UNCHANGED <<ledgerVars, quotes, order, seen, poll, backing, vaultVars, collecting>>

\* readCredits or hydrate fails and the error is swallowed.
ReadError(s) ==
  /\ Faulty("read_error")
  /\ at[s] \in {"read", "hydrate"} /\ Advance(s, "ok")
  /\ UNCHANGED <<ledgerVars, quotes, order, seen, poll, backing, vaultVars, collecting>>

\* The process dies, and every settle and dashboard request in flight with
\* it.  (What it does to open reservations is in ConsumeWorker.)
Crash ==
  /\ Faulty("crash")
  /\ Open = {}
  /\ at' = [s \in Session |-> IF at[s] \in {"start", "ok", "conflict"}
                              THEN at[s] ELSE "failed"]
  /\ poll' = [a \in Account |-> NoReading]
  /\ UNCHANGED <<ledgerVars, quotes, order, seen, backing, vaultVars, collecting>>

-----------------------------------------------------------------------------
TopupInit ==
  /\ credit = [a \in Account |-> [ZeroRow EXCEPT !.balance = InitialCredits]]
  /\ reservations = [r \in {} |-> ZeroRow]
  /\ clock = 0
  /\ quotes = [q \in {} |-> ZeroRow]
  /\ at = [s \in Session |-> "start"]
  /\ order = [s \in Session |-> NoOrder]
  /\ seen = [s \in Session |-> 0]
  /\ poll = [a \in Account |-> NoReading]
  /\ backing = [a \in Account |-> 0]
  /\ vault = [a \in Account |-> InitialCredits]
  /\ spent = {} /\ mempool = {} /\ paid = {}
  /\ deposited = [a \in Account |-> InitialCredits]
  /\ collecting = [a \in Account |-> 0]
  /\ faults = 0

SessionStep(s) ==
  \/ Send(s) \/ ConsumeQuote(s) \/ Back(s) \/ Read(s) \/ Adopt(s)

TopupNext ==
  \/ \E q \in Quote, w \in Wallet : StoreQuote(q, w)
  \/ \E q \in Quote : Expire(q) \/ Sweep(q)
  \/ \E s \in Session, o \in Order : Settle(s, o)
  \/ \E s \in Session : SessionStep(s)
  \/ \E s \in Session : Mine(s)
  \/ \E o \in Order : ExternalDeposit(o)
  \/ \E a \in Dashboard : PollRead(a) \/ PollAdopt(a)
  \/ \E a \in Account : Collect(a) \/ CollectFlush(a)
  \/ \E a \in Account, amount \in WithdrawAmount : ClaimWithdraw(a, amount)
  \/ \E w \in Wallet, from, to \in LiveChain, amount \in BridgeAmount :
       Bridge(w, from, to, amount)
  \/ Request
  \/ \E s \in Session : ReceiptTimeout(s) \/ BackError(s) \/ ReadError(s)
  \/ Crash

\* The dashboard polls, the worker flushes what the chain consumed; nothing
\* else is fair.
Fairness ==
  /\ \A a \in Dashboard : WF_topupVars(PollRead(a)) /\ WF_topupVars(PollAdopt(a))
  /\ \A a \in Account : WF_topupVars(CollectFlush(a))

TopupSafeSpec == TopupInit /\ [][TopupNext]_topupVars

TopupSpec == TopupSafeSpec /\ Fairness

-----------------------------------------------------------------------------
(* Properties *)

\* The tables and the handlers have their types, and the ledger its own.
TopupTypeOK ==
  /\ TypeOK
  /\ DOMAIN quotes \subseteq Quote
  /\ quotes \in [DOMAIN quotes -> [wallet : Wallet, state : QuoteState]]
  /\ at \in [Session -> SessionState]
  /\ order \in [Session -> Order]
  /\ seen \in [Session -> Nat]
  /\ poll \in [Account -> Nat \cup {NoReading}]
  /\ backing \in [Account -> Nat]
  /\ vault \in [Account -> Nat]
  /\ spent \subseteq Account \X (Quote \cup HeaderNonce)
  /\ mempool \subseteq Session /\ paid \subseteq Session
  /\ deposited \in [Account -> Nat]
  /\ collecting \in [Account -> Nat]
  /\ faults \in Nat

Winner(s) == at[s] \in {"back", "read", "hydrate", "ok"}

\* However many sessions settle a quote at once, on whatever chains, one of
\* them goes past consumeQuote: the others answer 409 or 500.
QuoteSettledOnce ==
  \A s, t \in Session :
    Winner(s) /\ Winner(t) /\ order[s].quote = order[t].quote => s = t

\* The chain comes first: a quote is only consumed when the deposit of a
\* session that settles it was mined, for its owner.
ConsumedIsPaid ==
  \A q \in DOMAIN quotes :
    quotes[q].state = "consumed" =>
      \E s \in paid : order[s].quote = q /\ order[s].account[1] = quotes[q].wallet

\* A wallet's backing, wherever it was bridged, is at most the total of the
\* quotes it settled: no quote is attributed twice.
BackingWithinQuotes ==
  \A w \in Wallet :
    SumFunctionOnSet(backing, {w} \X Chain) <=
      SumFunctionOnSet(QuoteAmount, {q \in DOMAIN quotes :
                                       /\ quotes[q].wallet = w
                                       /\ quotes[q].state = "consumed"})

\* Whatever readings of the vault cross, however late they are adopted, and
\* whatever was collected or withdrawn meanwhile, the ledger never credits a
\* wallet with more than was ever deposited for it.
CreditsWereDeposited == \A a \in Account : Backed(a) <= deposited[a]

\* GET /v1/credits/me "self-heals": once deposits, withdrawals, collections
\* and requests are over, polling brings every balance to what the chain
\* leaves and keeps it there, whichever stale reading was adopted before and
\* whatever the settle route failed to do.
Heals ==
  \A a \in Dashboard :
    <>[](credit[a].balance = Hydrated(credit[a], vault[a]).balance)
=============================================================================
