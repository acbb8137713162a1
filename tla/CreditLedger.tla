---------------------------- MODULE CreditLedger ----------------------------
(***************************************************************************)
(* The credit ledger of the billing package                                *)
(* (packages/billing/src/ledger/ledger.ts).  A row of billing_credit_state *)
(* holds, for one wallet on one chain, the credits that are spendable      *)
(* (balance), held for requests in flight (reserved) and charged but not   *)
(* yet collected on chain (accrued).  A row of billing_reservations holds  *)
(* one hold.  Every operation of the file runs in a SERIALIZABLE           *)
(* transaction that is retried on a serialization failure, so each of them *)
(* is one action here; a call that throws leaves no trace and is no step.  *)
(***************************************************************************)
EXTENDS Integers, FiniteSets

CONSTANTS
  Wallet,       \* wallet addresses, lower-cased
  Chain,        \* chain ids
  Reservation,  \* reservation ids, fresh UUIDs of the database
  Amount,       \* amounts a caller may reserve, or pass as a total to commit
  Reading       \* values vault.credits(wallet) may return to hydrate

ASSUME AmountsAreNatural == Amount \subseteq Nat /\ Reading \subseteq Nat

VARIABLES
  credit,       \* billing_credit_state: the row of each account
  reservations, \* billing_reservations: the rows inserted so far
  clock         \* the time stamp the next commit reads

ledgerVars == <<credit, reservations, clock>>

\* The primary key of billing_credit_state.
Account == Wallet \X Chain

\* firstAccrualAt is null.
NoTime == -1

Outcome == {"open", "committed",
            "released_complete", "released_abort", "released_error"}

ReleaseOutcome == Outcome \ {"open", "committed"}

CreditRow == [balance : Nat, reserved : Int, accrued : Nat,
              firstAt : Nat \cup {NoTime}]

ReservationRow == [account : Account, amount : Nat, outcome : Outcome]

\* What getOrCreateState returns for an account without a row.
ZeroRow == [balance |-> 0, reserved |-> 0, accrued |-> 0, firstAt |-> NoTime]

Smaller(m, n) == IF m <= n THEN m ELSE n

-----------------------------------------------------------------------------
(* What each operation does to a row of billing_credit_state.  A definition *)
(* named ...Bug is the one below it with a plausible mistake in it; nothing *)
(* uses it but the mutants of PROJECT.json.                                 *)

\* reserve: move amount from the balance to the hold.
Held(row, amount) ==
  [row EXCEPT !.balance = @ - amount, !.reserved = @ + amount]

\* release: move it back.
ReturnedBug(row, amount) == [row EXCEPT !.balance = @ + amount]

Returned(row, amount) ==
  [row EXCEPT !.balance = @ + amount, !.reserved = @ - amount]

\* commit: the hold is gone, the charge is accrued, the rest is refunded and
\* the first charge since the last flush stamps the row.
ChargedBug(row, amount, charge, now) ==
  [row EXCEPT !.reserved = @ - amount, !.accrued = @ + charge,
              !.firstAt = IF @ = NoTime /\ charge > 0 THEN now ELSE @]

Charged(row, amount, charge, now) ==
  [balance  |-> row.balance + (amount - charge),
   reserved |-> row.reserved - amount,
   accrued  |-> row.accrued + charge,
   firstAt  |-> IF row.firstAt = NoTime /\ charge > 0 THEN now ELSE row.firstAt]

\* hydrate: the balance is what the chain reading leaves once the local
\* commitments are taken off, clamped at zero.
HydratedBug(row, onChain) ==
  [row EXCEPT !.balance = onChain - (row.reserved + row.accrued)]

Hydrated(row, onChain) ==
  LET localCommitted == row.reserved + row.accrued
  IN [row EXCEPT !.balance = IF onChain >= localCommitted
                             THEN onChain - localCommitted ELSE 0]

\* flushAccrued: zero the whole accrual and its stamp.
Flushed(row) == [row EXCEPT !.accrued = 0, !.firstAt = NoTime]

-----------------------------------------------------------------------------
(* Operations *)

\* Rows of billing_reservations with released_at IS NULL.
Open == {r \in DOMAIN reservations : reservations[r].outcome = "open"}

Init ==
  /\ credit = [a \in Account |-> ZeroRow]
  /\ reservations = [r \in {} |-> ZeroRow]
  /\ clock = 0

\* Hold amount for a request, if the balance covers it; the caller answers
\* 402 otherwise.
Reserve(r, a, amount) ==
  /\ r \notin DOMAIN reservations
  /\ credit[a].balance >= amount
  /\ credit' = [credit EXCEPT ![a] = Held(@, amount)]
  /\ reservations' =
       [x \in DOMAIN reservations \cup {r} |->
          IF x = r
          THEN [account |-> a, amount |-> amount, outcome |-> "open"]
          ELSE reservations[x]]
  /\ UNCHANGED clock

Close(r, outcome) ==
  reservations' = [reservations EXCEPT ![r] = [@ EXCEPT !.outcome = outcome]]

\* Give the whole hold back; throws unless the reservation is still open.
Release(r, outcome) ==
  /\ r \in Open
  /\ credit' = [credit EXCEPT ![reservations[r].account] =
                   Returned(@, reservations[r].amount)]
  /\ Close(r, outcome)
  /\ UNCHANGED clock

\* What commit charges: the total, silently capped at the hold.
ActualChargeBug(r, total) == total

ActualCharge(r, total) == Smaller(total, reservations[r].amount)

\* Turn the hold into a charge; throws unless the reservation is still open.
\* The clock has moved on by the next commit.
Commit(r, total) ==
  /\ r \in Open
  /\ credit' = [credit EXCEPT ![reservations[r].account] =
                   Charged(@, reservations[r].amount, ActualCharge(r, total), clock)]
  /\ Close(r, "committed")
  /\ clock' = clock + 1

\* Adopt a reading of vault.credits, however old it is.
Hydrate(a, onChain) ==
  /\ credit' = [credit EXCEPT ![a] = Hydrated(@, onChain)]
  /\ UNCHANGED <<reservations, clock>>

\* Nothing accrued: flushAccrued returns null and this is no step.
FlushAccrued(a) ==
  /\ credit[a].accrued # 0
  /\ credit' = [credit EXCEPT ![a] = Flushed(@)]
  /\ UNCHANGED <<reservations, clock>>

Next ==
  \/ \E r \in Reservation, a \in Account, amount \in Amount : Reserve(r, a, amount)
  \/ \E r \in Reservation, outcome \in ReleaseOutcome : Release(r, outcome)
  \/ \E r \in Reservation, total \in Amount : Commit(r, total)
  \/ \E a \in Account, onChain \in Reading : Hydrate(a, onChain)
  \/ \E a \in Account : FlushAccrued(a)

Spec == Init /\ [][Next]_ledgerVars

-----------------------------------------------------------------------------
(* Properties *)

\* Every row has the shape of its table, balances and accruals never go
\* negative and a stamp is null or in the past.
TypeOK ==
  /\ credit \in [Account -> CreditRow]
  /\ DOMAIN reservations \subseteq Reservation
  /\ reservations \in [DOMAIN reservations -> ReservationRow]
  /\ clock \in Nat

\* The units of credit that the open reservations of an account hold, each
\* named by its reservation and its number.
HeldUnits(a) ==
  UNION {{r} \X (1 .. reservations[r].amount) :
           r \in {x \in Open : reservations[x].account = a}}

\* The reserved counter of an account is the total of its open
\* reservations: no sequence of reserve, release and commit calls, failed
\* ones included, leaves credits held by nobody or held twice.
ReservedIsHeld ==
  \A a \in Account : credit[a].reserved = Cardinality(HeldUnits(a))

\* An accrual always has the time stamp its batch id is derived from, and
\* an empty accrual has none: the case that selectFlushable skips with a
\* warning ("accrued > 0 but firstAccrualAt is null") cannot happen.
AccruedIsStamped ==
  \A a \in Account : /\ credit[a].accrued > 0 <=> credit[a].firstAt # NoTime
                     /\ credit[a].firstAt < clock

\* A reservation is closed once: whatever is called afterwards, its row
\* never changes again, and neither does the account or the amount of an
\* open one.
ClosedIsFinal ==
  [][\A r \in DOMAIN reservations :
       /\ r \in DOMAIN reservations'
       /\ reservations'[r] # reservations[r] =>
            /\ reservations[r].outcome = "open"
            /\ reservations'[r].amount = reservations[r].amount
            /\ reservations'[r].account = reservations[r].account]_ledgerVars

\* What the ledger says a wallet has on chain.
Backed(a) == credit[a].balance + credit[a].reserved + credit[a].accrued

\* Reserving, releasing and committing only move credits between the three
\* columns, of one account; the sum changes only by a hydrate, which touches
\* the balance alone and never leaves the sum below the commitments, or by a
\* flush, which takes exactly the accrual.
SumIsConserved ==
  [][\A a \in Account :
       \/ Backed(a)' = Backed(a)
       \/ /\ credit'[a].reserved = credit[a].reserved
          /\ credit'[a].accrued = credit[a].accrued
          /\ reservations' = reservations
       \/ /\ Backed(a)' = Backed(a) - credit[a].accrued
          /\ credit'[a].balance = credit[a].balance
          /\ reservations' = reservations]_ledgerVars

-----------------------------------------------------------------------------
(* What the ledger promises its callers, stated in CreditAccount. *)

Promise == INSTANCE CreditAccount WITH
  Account   <- Account,
  Hold      <- Reservation,
  spendable <- [a \in Account |-> credit[a].balance],
  owed      <- [a \in Account |-> credit[a].accrued],
  holds     <- {[id |-> r, account |-> reservations[r].account,
                 amount |-> reservations[r].amount] : r \in Open},
  settled   <- DOMAIN reservations \ Open

\* The ledger implements the abstract account: time stamps, outcomes and
\* the reserved counter are its own business.
ImplementsPromise == Promise!Spec
=============================================================================
