---------------------------- MODULE ConsumeWorker ----------------------------
(***************************************************************************)
(* The collection of accrued credits on chain                              *)
(* (packages/billing/src/workers/consume-worker.ts and withdraw-watcher.ts, *)
(* run by plugin-tokagent-billing's ConsumeService and                     *)
(* WithdrawWatcherService) while requests keep using the ledger.           *)
(*                                                                         *)
(* A flusher is one activation of flushNow: the timer's, which never        *)
(* overlaps itself, or one per WithdrawRequested event, which nothing       *)
(* guards.  Every await of flushOne ends an atomic step: requests, other    *)
(* flushers, the chain and crashes interleave there.                        *)
(*                                                                         *)
(* Abstractions.  A batch id is the triple its hash is computed from.  Ages *)
(* are flags: an accrual grows old (consumeMaxAgeMs), a submitted row goes  *)
(* stale (SUBMITTED_TIMEOUT_MS) once nobody waits for its receipt any more, *)
(* which a receipt timeout of three minutes guarantees.  The vault and the  *)
(* chain are external.                                                      *)
(***************************************************************************)
EXTENDS CreditLedger, Sequences

CONSTANTS
  Timer,           \* flushers of the ConsumeService interval
  Handler,         \* flushers of WithdrawRequested events
  LiveChain,       \* chains that resolveChain finds
  BatchMin,        \* consumeBatchMinPton
  MaxPerCycle,     \* consumeMaxPerCycle
  InitialCredits,  \* credits every account starts with, on chain and hydrated
  WithdrawAmount,  \* amounts a user may withdraw from the vault
  Fault,           \* kinds of fault that may happen
  MaxFaults        \* bound on their number

ASSUME WorkerConstants ==
  /\ IsFiniteSet(Account)
  /\ LiveChain \subseteq Chain
  /\ BatchMin \in Nat /\ MaxPerCycle \in Nat \ {0}
  /\ InitialCredits \in Nat /\ WithdrawAmount \subseteq Nat
  /\ MaxFaults \in Nat

VARIABLES
  vault,      \* credits[account] of the vault contract
  used,       \* batch ids the vault has consumed
  mempool,    \* consume transactions sent and not mined: batch and sender
  batches,    \* billing_consume_batches, by batch id
  pc,         \* where each flusher is in flushNow
  todo,       \* the candidates left to each flusher, the current one first
  priority,   \* the wallets each flusher flushes regardless of thresholds
  aged,       \* accounts whose accrual is consumeMaxAgeMs old
  orphaned,   \* open reservations whose request died in a crash
  faults,     \* number of faults so far
  charged,    \* history: what commit has charged each account
  late,       \* history: the part of it charged while a flusher that had
              \* selected the account had yet to flush it
  collected   \* history: what the vault has consumed from each account

chainVars  == <<vault, used, mempool, collected>>
flushVars  == <<pc, todo, priority>>
requestVars == <<orphaned, charged, late>>
workerVars ==
  <<ledgerVars, chainVars, batches, flushVars, aged, requestVars, faults>>

Flusher == Timer \cup Handler

MAX_ATTEMPTS == 3

\* computeBatchId: what the hash is computed from.
BatchId == [account : Account, firstAt : Nat, amount : Nat]

BatchRow == [state : {"pending", "submitted", "confirmed", "dead_letter"},
             attempts : Nat, stale : BOOLEAN]

-----------------------------------------------------------------------------
(* Requests: the ledger calls of the billing gate, any number in flight *)

RequestReserve(r, a, amount) ==
  /\ Reserve(r, a, amount)
  /\ UNCHANGED <<chainVars, batches, flushVars, aged, requestVars, faults>>

RequestRelease(r) ==
  /\ r \notin orphaned
  /\ Release(r, "released_error")
  /\ UNCHANGED <<chainVars, batches, flushVars, aged, requestVars, faults>>

\* Some flusher has selected account a and is not done with it.
UnderFlush(a) ==
  \E f \in Flusher : \E i \in DOMAIN todo[f] : todo[f][i].account = a

RequestCommit(r, total) ==
  /\ r \notin orphaned
  /\ Commit(r, total)
  /\ LET a == reservations[r].account
         charge == ActualCharge(r, total)
     IN /\ charged' = [charged EXCEPT ![a] = @ + charge]
        /\ late' = IF UnderFlush(a) THEN [late EXCEPT ![a] = @ + charge] ELSE late
  /\ UNCHANGED <<chainVars, batches, flushVars, aged, orphaned, faults>>

-----------------------------------------------------------------------------
(* The chain and the clock *)

Consumable(b) == b \notin used /\ b.amount <= vault[b.account]

\* The sender of a transaction still waits for the receipt of that very
\* transaction; a later one for the same batch has a receipt of its own.
Awaited(tx) ==
  tx.awaited /\ pc[tx.by] = "wait" /\ Head(todo[tx.by]) = tx.batch

\* A consume transaction is mined: it takes the credits, once per batch id,
\* or reverts.  A sender that still waits sees the receipt.
Mine(tx) ==
  LET b == tx.batch
      outcome == IF Consumable(b) THEN "confirm" ELSE "failed"
  IN /\ tx \in mempool
     /\ mempool' = mempool \ {tx}
     /\ IF Consumable(b)
        THEN /\ used' = used \cup {b}
             /\ vault' = [vault EXCEPT ![b.account] = @ - b.amount]
             /\ collected' = [collected EXCEPT ![b.account] = @ + b.amount]
        ELSE UNCHANGED <<used, vault, collected>>
     /\ pc' = IF Awaited(tx) THEN [pc EXCEPT ![tx.by] = outcome] ELSE pc
     /\ UNCHANGED <<ledgerVars, batches, todo, priority, aged, requestVars, faults>>

\* The user takes credits out of the vault (claimWithdraw).
ClaimWithdraw(a, amount) ==
  /\ amount <= vault[a]
  /\ vault' = [vault EXCEPT ![a] = @ - amount]
  /\ UNCHANGED <<ledgerVars, used, mempool, collected, batches, flushVars, aged,
                 requestVars, faults>>

AccrualAges(a) ==
  /\ a \notin aged /\ credit[a].accrued > 0
  /\ aged' = aged \cup {a}
  /\ UNCHANGED <<ledgerVars, chainVars, batches, flushVars, requestVars, faults>>

RowGoesStale(b) ==
  /\ b \in DOMAIN batches
  /\ batches[b].state = "submitted" /\ ~batches[b].stale
  /\ \A f \in Flusher : pc[f] \in {"send", "wait", "confirm", "failed"} =>
                          Head(todo[f]) # b
  /\ batches' = [batches EXCEPT ![b] = [@ EXCEPT !.stale = TRUE]]
  /\ UNCHANGED <<ledgerVars, chainVars, flushVars, aged, requestVars, faults>>

-----------------------------------------------------------------------------
(* flushNow and flushOne, one action per stretch between two awaits *)

Goto(f, label) == pc' = [pc EXCEPT ![f] = label]

SetRow(b, row) ==
  batches' = [x \in DOMAIN batches \cup {b} |-> IF x = b THEN row ELSE batches[x]]

SetState(b, state) == SetRow(b, [batches[b] EXCEPT !.state = state])

\* flushOne returns: on to the next candidate of the cycle, if there is one.
NextCandidateBug(f) ==
  /\ todo' = [todo EXCEPT ![f] = Tail(@)]
  /\ Goto(f, IF Len(todo[f]) > 0 THEN "check" ELSE "idle")

NextCandidate(f) ==
  /\ todo' = [todo EXCEPT ![f] = Tail(@)]
  /\ Goto(f, IF Len(todo[f]) > 1 THEN "check" ELSE "idle")

\* setInterval fires and the previous tick is over.
Tick(f) ==
  /\ pc[f] = "idle"
  /\ Goto(f, "select")
  /\ UNCHANGED <<ledgerVars, chainVars, batches, todo, priority, aged,
                 requestVars, faults>>

\* handleWithdrawRequested, for a user who has something accrued.
WithdrawRequested(f, w) ==
  /\ pc[f] = "idle"
  /\ \E c \in Chain : credit[<<w, c>>].accrued > 0
  /\ Goto(f, "select")
  /\ priority' = [priority EXCEPT ![f] = {w}]
  /\ UNCHANGED <<ledgerVars, chainVars, batches, todo, aged, requestVars, faults>>

ShouldFlushBug(a) == credit[a].accrued >= BatchMin

ShouldFlush(a) ==
  credit[a].accrued > 0 /\ (credit[a].accrued >= BatchMin \/ a \in aged)

\* The rows selectFlushable keeps when it runs for f.
Flushable(f) ==
  {a \in Account : /\ credit[a].accrued > 0
                   /\ a[1] \in priority[f] \/ ShouldFlush(a)
                   /\ credit[a].firstAt # NoTime}

Candidate(a) ==
  [account |-> a, firstAt |-> credit[a].firstAt, amount |-> credit[a].accrued]

\* The orders it may return them in: the database's, with the priority
\* wallet's rows first, cut at MaxPerCycle.
Orders(f) ==
  LET rows == Flushable(f)
      prio == {a \in rows : a[1] \in priority[f]}
      n == Smaller(Cardinality(rows), MaxPerCycle)
  IN {s \in [1 .. n -> rows] :
        /\ \A i, j \in 1 .. n : i # j => s[i] # s[j]
        /\ \A i \in 1 .. n :
             s[i] \notin prio => prio \subseteq {s[j] : j \in 1 .. i}}

Select(f) ==
  /\ pc[f] = "select"
  /\ \E order \in Orders(f) :
       /\ todo' = [todo EXCEPT ![f] = [i \in DOMAIN order |-> Candidate(order[i])]]
       /\ Goto(f, IF order = <<>> THEN "idle" ELSE "check")
  /\ priority' = [priority EXCEPT ![f] = {}]
  /\ UNCHANGED <<ledgerVars, chainVars, batches, aged, requestVars, faults>>

\* Step 1: what the batch row found for the candidate tells flushOne to do.
Skipped(b) ==
  \/ b.account[2] \notin LiveChain
  \/ /\ b \in DOMAIN batches
     /\ \/ batches[b].state \in {"confirmed", "dead_letter"}
        \/ batches[b].state = "submitted" /\ ~batches[b].stale

Check(f) ==
  LET b == Head(todo[f])
  IN /\ pc[f] = "check"
     /\ IF Skipped(b) THEN NextCandidate(f)
        ELSE /\ Goto(f, IF b \in DOMAIN batches /\ batches[b].state = "submitted"
                        THEN "probe" ELSE "submit")
             /\ UNCHANGED todo
     /\ UNCHANGED <<ledgerVars, chainVars, batches, priority, aged, requestVars, faults>>

\* Recovery of a stale submitted row: ask the chain for the batch's event.
ProbeBug(f) ==
  /\ pc[f] = "probe"
  /\ Goto(f, "confirm")
  /\ UNCHANGED <<ledgerVars, chainVars, batches, todo, priority, aged,
                 requestVars, faults>>

Probe(f) ==
  /\ pc[f] = "probe"
  /\ Goto(f, IF Head(todo[f]) \in used THEN "confirm" ELSE "reset")
  /\ UNCHANGED <<ledgerVars, chainVars, batches, todo, priority, aged,
                 requestVars, faults>>

\* The chain has no record: back to pending, and on to the attempt.
Reset(f) ==
  /\ pc[f] = "reset"
  /\ SetState(Head(todo[f]), "pending")
  /\ Goto(f, "submit")
  /\ UNCHANGED <<ledgerVars, chainVars, todo, priority, aged, requestVars, faults>>

\* Step 2: record the attempt before the chain call.  A row that became
\* terminal since step 1 is left alone, and the chain is called all the same.
SubmitBug(f) ==
  /\ pc[f] = "submit"
  /\ UNCHANGED batches
  /\ Goto(f, "send")
  /\ UNCHANGED <<ledgerVars, chainVars, todo, priority, aged, requestVars, faults>>

Submit(f) ==
  LET b == Head(todo[f])
  IN /\ pc[f] = "submit"
     /\ \/ /\ b \notin DOMAIN batches
           /\ SetRow(b, [state |-> "submitted", attempts |-> 1, stale |-> FALSE])
        \/ /\ b \in DOMAIN batches
           /\ IF batches[b].state \in {"dead_letter", "confirmed"}
              THEN UNCHANGED batches
              ELSE SetRow(b, [state |-> "submitted", stale |-> FALSE,
                              attempts |-> batches[b].attempts + 1])
     /\ Goto(f, "send")
     /\ UNCHANGED <<ledgerVars, chainVars, todo, priority, aged, requestVars, faults>>

\* Step 3: writeContract simulates the call first.  BatchAlreadyUsed syncs
\* the row to confirmed, another revert is a failure, and otherwise the
\* transaction is broadcast.
Send(f) ==
  LET b == Head(todo[f])
  IN /\ pc[f] = "send"
     /\ Goto(f, IF b \in used THEN "confirm"
                ELSE IF Consumable(b) THEN "wait" ELSE "failed")
     /\ mempool' = IF Consumable(b)
                   THEN mempool \cup {[batch |-> b, by |-> f, awaited |-> TRUE]}
                   ELSE mempool
     /\ UNCHANGED <<ledgerVars, vault, used, collected, batches, todo, priority,
                    aged, requestVars, faults>>

\* Step 4, and the two recoveries: the row is confirmed in one transaction ...
Confirm(f) ==
  /\ pc[f] = "confirm"
  /\ SetState(Head(todo[f]), "confirmed")
  /\ Goto(f, "flush")
  /\ UNCHANGED <<ledgerVars, chainVars, todo, priority, aged, requestVars, faults>>

\* ... and the whole accrual of the account is zeroed in another.
FlushBug(f) ==
  /\ pc[f] = "flush"
  /\ NextCandidate(f)
  /\ UNCHANGED <<ledgerVars, chainVars, batches, priority, aged, requestVars, faults>>

Flush(f) ==
  LET a == Head(todo[f]).account
  IN /\ pc[f] = "flush"
     /\ IF credit[a].accrued # 0 THEN FlushAccrued(a) ELSE UNCHANGED ledgerVars
     /\ aged' = aged \ {a}
     /\ NextCandidate(f)
     /\ UNCHANGED <<chainVars, batches, priority, requestVars, faults>>

\* Step 5: the failed attempt leaves the row pending or, from the third
\* attempt on, in dead_letter, whatever its state has become meanwhile.
FailBug(f) ==
  /\ pc[f] = "failed"
  /\ SetState(Head(todo[f]), "pending")
  /\ Goto(f, "flush")
  /\ UNCHANGED <<ledgerVars, chainVars, todo, priority, aged, requestVars, faults>>

Fail(f) ==
  LET b == Head(todo[f])
  IN /\ pc[f] = "failed"
     /\ IF b \in DOMAIN batches
        THEN SetState(b, IF batches[b].attempts >= MAX_ATTEMPTS
                         THEN "dead_letter" ELSE "pending")
        ELSE UNCHANGED batches
     /\ NextCandidate(f)
     /\ UNCHANGED <<ledgerVars, chainVars, priority, aged, requestVars, faults>>

Step(f) ==
  \/ Select(f) \/ Check(f) \/ Probe(f) \/ Reset(f) \/ Submit(f)
  \/ Send(f) \/ Confirm(f) \/ Flush(f) \/ Fail(f)

-----------------------------------------------------------------------------
(* Faults, at most MaxFaults of the kinds in Fault *)

Faulty(kind) ==
  /\ kind \in Fault
  /\ faults < MaxFaults
  /\ faults' = faults + 1

\* writeContract fails before anything is broadcast.
SendError(f) ==
  /\ Faulty("send_error")
  /\ pc[f] = "send"
  /\ Goto(f, "failed")
  /\ UNCHANGED <<ledgerVars, chainVars, batches, todo, priority, aged, requestVars>>

\* Nobody waits for the transactions in txs any more; they may still be mined.
Abandoned(txs) ==
  {IF tx \in txs THEN [tx EXCEPT !.awaited = FALSE] ELSE tx : tx \in mempool}

\* waitForTransactionReceipt gives up; the transaction may still be mined.
ReceiptTimeout(f) ==
  /\ Faulty("receipt_timeout")
  /\ pc[f] = "wait"
  /\ Goto(f, "failed")
  /\ mempool' = Abandoned({tx \in mempool : tx.by = f})
  /\ UNCHANGED <<ledgerVars, vault, used, collected, batches, todo, priority,
                 aged, requestVars>>

\* A database or RPC error outside the try block rejects flushNow: the rest
\* of the cycle is abandoned.
Abort(f) ==
  /\ Faulty("abort")
  /\ pc[f] \notin {"idle", "send", "wait"}
  /\ Goto(f, "idle")
  /\ todo' = [todo EXCEPT ![f] = <<>>]
  /\ priority' = [priority EXCEPT ![f] = {}]
  /\ UNCHANGED <<ledgerVars, chainVars, batches, aged, requestVars>>

\* The process dies: flushers start over, the requests in flight are gone
\* and nothing closes their reservations.
Crash ==
  /\ Faulty("crash")
  /\ pc' = [f \in Flusher |-> "idle"]
  /\ todo' = [f \in Flusher |-> <<>>]
  /\ priority' = [f \in Flusher |-> {}]
  /\ orphaned' = Open
  /\ mempool' = Abandoned(mempool)
  /\ UNCHANGED <<ledgerVars, vault, used, collected, batches, aged, charged, late>>

-----------------------------------------------------------------------------
(* Specification *)

WorkerInit ==
  /\ credit = [a \in Account |-> [ZeroRow EXCEPT !.balance = InitialCredits]]
  /\ reservations = [r \in {} |-> ZeroRow]
  /\ clock = 0
  /\ vault = [a \in Account |-> InitialCredits]
  /\ used = {} /\ mempool = {}
  /\ batches = [b \in {} |-> ZeroRow]
  /\ pc = [f \in Flusher |-> "idle"]
  /\ todo = [f \in Flusher |-> <<>>]
  /\ priority = [f \in Flusher |-> {}]
  /\ aged = {} /\ orphaned = {} /\ faults = 0
  /\ charged = [a \in Account |-> 0]
  /\ late = [a \in Account |-> 0]
  /\ collected = [a \in Account |-> 0]

Request ==
  \/ \E r \in Reservation, a \in Account, amount \in Amount :
       RequestReserve(r, a, amount)
  \/ \E r \in Reservation : RequestRelease(r)
  \/ \E r \in Reservation, total \in Amount : RequestCommit(r, total)

Collect ==
  \/ \E f \in Timer : Tick(f)
  \/ \E f \in Handler, w \in Wallet : WithdrawRequested(f, w)
  \/ \E f \in Flusher : Step(f)

Environment ==
  \/ \E tx \in mempool : Mine(tx)
  \/ \E a \in Account, amount \in WithdrawAmount : ClaimWithdraw(a, amount)
  \/ \E a \in Account : AccrualAges(a)
  \/ \E b \in DOMAIN batches : RowGoesStale(b)

Faults ==
  \/ \E f \in Flusher : SendError(f) \/ ReceiptTimeout(f) \/ Abort(f)
  \/ Crash

WorkerNext == Request \/ Collect \/ Environment \/ Faults

WorkerSpec == WorkerInit /\ [][WorkerNext]_workerVars

\* The interval keeps firing, a flusher that runs keeps running, blocks are
\* mined and time passes.  Nothing is fair about requests and faults.
Fairness ==
  /\ \A f \in Timer : WF_workerVars(Tick(f))
  /\ \A f \in Flusher : WF_workerVars(Step(f))
  /\ \A a \in Account : WF_workerVars(AccrualAges(a))
  /\ WF_workerVars(\E tx \in mempool : Mine(tx))
  /\ WF_workerVars(\E b \in DOMAIN batches : RowGoesStale(b))

FairWorkerSpec == WorkerSpec /\ Fairness

-----------------------------------------------------------------------------
(* Properties *)

Labels == {"idle", "select", "check", "probe", "reset", "submit", "send",
           "wait", "confirm", "flush", "failed"}

\* Rows, flushers and the chain stay within their types, and a flusher that
\* is inside flushOne has a current candidate.
WorkerTypeOK ==
  /\ TypeOK
  /\ vault \in [Account -> Nat] /\ collected \in [Account -> Nat]
  /\ charged \in [Account -> Nat] /\ late \in [Account -> Nat]
  /\ used \subseteq BatchId
  /\ mempool \subseteq [batch : BatchId, by : Flusher, awaited : BOOLEAN]
  /\ DOMAIN batches \subseteq BatchId
  /\ batches \in [DOMAIN batches -> BatchRow]
  /\ pc \in [Flusher -> Labels]
  /\ todo \in [Flusher -> Seq(BatchId)]
  /\ \A f \in Flusher : pc[f] \in {"idle", "select"} <=> todo[f] = <<>>
  /\ priority \in [Flusher -> SUBSET Wallet]
  /\ aged \subseteq Account /\ orphaned \subseteq Reservation
  /\ faults \in 0 .. MaxFaults

\* A batch row says confirmed only if the vault has consumed that batch, in
\* whatever order ticks, withdraw handlers, recoveries and crashes interleave.
ConfirmedIsOnChain ==
  \A b \in DOMAIN batches : batches[b].state = "confirmed" => b \in used

\* The attempt is on record before the chain can see it: every batch that is
\* in the mempool or was consumed has its row, so that a crash at any point
\* leaves something to recover from.
AttemptIsOnRecord ==
  used \cup {tx.batch : tx \in mempool} \subseteq DOMAIN batches

\* The vault never consumes more from a wallet than its requests were
\* charged: no accrual is collected twice.
NeverOvercharged == \A a \in Account : collected[a] <= charged[a]

\* What a wallet was charged and neither was collected nor is still owed
\* escaped in one way only: it was charged while a flush of that very account
\* was under way, and flushAccrued zeroed it with the rest.  No crash, lost
\* receipt, failed call or second flusher writes off anything else.
OnlyLateChargesEscape ==
  \A a \in Account : charged[a] <= collected[a] + credit[a].accrued + late[a]

Charges(a) == {r \in DOMAIN reservations : /\ reservations[r].account = a
                                           /\ reservations[r].outcome = "committed"}

\* As long as an account was charged only once its batch id cannot change:
\* however often the flush is retried, recovered or raced by another
\* flusher, the charge is collected at most once, and it is written off
\* only when it has been collected.
OneChargeIsExact ==
  \A a \in Account : Cardinality(Charges(a)) <= 1 =>
    /\ collected[a] <= charged[a]
    /\ credit[a].accrued = 0 => collected[a] = charged[a]

DeadLettered(a) ==
  LET b == Candidate(a)
  IN b \in DOMAIN batches /\ batches[b].state = "dead_letter"

\* Every accrual on a chain that resolves is eventually collected and
\* written off, or its batch is in dead_letter for the operator to see.
EventuallyCollected ==
  \A a \in Wallet \X LiveChain :
    credit[a].accrued > 0 ~> (credit[a].accrued = 0 \/ DeadLettered(a))

-----------------------------------------------------------------------------
(* Claims of the documentation that the code does not keep *)

AtRest(a) ==
  /\ \A f \in Flusher : pc[f] = "idle"
  /\ mempool = {}

\* ledger.ts: "onChainCredits == balance + reserved + accrued" until the
\* consume flush and "onChainCredits == balance + reserved" after it; that
\* is, whenever no flush is under way.
LedgerMatchesChain ==
  \A a \in Account : AtRest(a) => vault[a] = Backed(a)
=============================================================================
