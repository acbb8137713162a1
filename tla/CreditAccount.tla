---------------------------- MODULE CreditAccount ----------------------------
(***************************************************************************)
(* What the credit ledger promises to the requests it bills, to the        *)
(* collector that settles on chain and to the operator: an account of      *)
(* spendable credits, holds that are settled exactly once for at most what *)
(* they hold, and an amount owed that is collected as a whole.             *)
(***************************************************************************)
EXTENDS Integers

CONSTANTS Account, Hold

VARIABLES
  spendable,  \* credits a new request may hold
  owed,       \* charges not collected yet
  holds,      \* the holds in force
  settled     \* ids of the holds that were settled

accountVars == <<spendable, owed, holds, settled>>

Ids == {h.id : h \in holds} \cup settled

\* Accounts may start with credits, those of deposits made before.
Init ==
  /\ spendable \in [Account -> Nat]
  /\ owed = [a \in Account |-> 0]
  /\ holds = {}
  /\ settled = {}

\* Take a hold of any amount the account can spend, under a fresh id.
TakeHold(h) ==
  /\ h.id \in Hold \ Ids
  /\ h.amount \in Nat
  /\ h.amount <= spendable[h.account]
  /\ spendable' = [spendable EXCEPT ![h.account] = @ - h.amount]
  /\ holds' = holds \cup {h}
  /\ UNCHANGED <<owed, settled>>

\* Settle a hold for a charge it covers; the rest is spendable again.
Settle(h, charge) ==
  /\ spendable' = [spendable EXCEPT ![h.account] = @ + (h.amount - charge)]
  /\ owed' = [owed EXCEPT ![h.account] = @ + charge]
  /\ holds' = holds \ {h}
  /\ settled' = settled \cup {h.id}

\* Collect everything an account owes.
Collect(a) ==
  /\ owed' = [owed EXCEPT ![a] = 0]
  /\ UNCHANGED <<spendable, holds, settled>>

\* Replace the spendable credits by what the chain leaves.
Sync(a) ==
  /\ spendable'[a] \in Nat
  /\ spendable' = [spendable EXCEPT ![a] = spendable'[a]]
  /\ UNCHANGED <<owed, holds, settled>>

Next ==
  \/ \E h \in holds' \ holds : TakeHold(h)
  \/ \E h \in holds : \E charge \in 0 .. h.amount : Settle(h, charge)
  \/ \E a \in Account : Collect(a) \/ Sync(a)

Spec == Init /\ [][Next]_accountVars
=============================================================================
