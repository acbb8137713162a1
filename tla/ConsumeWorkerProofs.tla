------------------------ MODULE ConsumeWorkerProofs ------------------------
(***************************************************************************)
(* Proofs about ConsumeWorker, for every number of flushers, accounts,     *)
(* requests and faults.                                                    *)
(***************************************************************************)
EXTENDS ConsumeWorker, CreditLedgerProofs, SequenceTheorems, FiniteSetTheorems

-----------------------------------------------------------------------------
(* The control state of the flushers *)

FlusherOK ==
  /\ pc \in [Flusher -> Labels]
  /\ todo \in [Flusher -> Seq(BatchId)]
  /\ \A f \in Flusher : pc[f] \in {"idle", "select"} <=> todo[f] = <<>>
  /\ priority \in [Flusher -> SUBSET Wallet]

Busy == Labels \ {"idle", "select"}

\* Facts about sequences: only the empty one has length zero, and the tail is
\* empty exactly when there is nothing behind the head.
LEMMA EmptyIsZero ==
  ASSUME NEW S, NEW s \in Seq(S)
  PROVE  s = <<>> <=> Len(s) = 0
BY EmptySeq

LEMMA LenDomain ==
  ASSUME NEW S, NEW n \in Nat, NEW s \in [1 .. n -> S]
  PROVE  Len(s) = n
OBVIOUS

LEMMA OneLess ==
  ASSUME NEW m \in Nat, m # 0, NEW k, k = m - 1
  PROVE  m > 1 <=> k # 0
OBVIOUS

LEMMA TailOfLast ==
  ASSUME NEW S, NEW s \in Seq(S), s # <<>>
  PROVE  Len(s) > 1 <=> Tail(s) # <<>>
<1>1. Tail(s) \in Seq(S) /\ Len(Tail(s)) = Len(s) - 1
  BY HeadTailProperties
<1>2. Len(s) \in Nat /\ Len(s) # 0
  BY LenProperties, EmptyIsZero
<1>3. Tail(s) = <<>> <=> Len(Tail(s)) = 0
  BY <1>1, EmptyIsZero, Zenon
<1>4. Len(s) > 1 <=> Len(Tail(s)) # 0
  BY <1>1, <1>2, OneLess, Zenon
<1>5. QED
  BY <1>3, <1>4, Zenon

\* A flusher inside flushOne has a current candidate, and the rest of its
\* list is a list of candidates too.
LEMMA CurrentCandidate ==
  ASSUME FlusherOK, NEW f \in Flusher, pc[f] \in Busy
  PROVE  /\ Head(todo[f]) \in BatchId
         /\ Tail(todo[f]) \in Seq(BatchId)
         /\ Len(todo[f]) > 1 <=> Tail(todo[f]) # <<>>
<1>1. todo[f] \in Seq(BatchId) /\ todo[f] # <<>>
  BY DEF FlusherOK, Busy
<1>2. QED
  BY <1>1, HeadTailProperties, TailOfLast, Zenon

\* Moving on within flushOne keeps the control state consistent ...
LEMMA GotoKeepsFlushers ==
  ASSUME FlusherOK, NEW f \in Flusher, NEW label \in Busy, pc[f] \in Busy,
         Goto(f, label), UNCHANGED <<todo, priority>>
  PROVE  FlusherOK'
BY DEF FlusherOK, Goto, Busy, Labels

\* ... and so does moving on to the next candidate.
LEMMA NextKeepsFlushers ==
  ASSUME FlusherOK, NEW f \in Flusher, pc[f] \in Busy,
         NextCandidate(f), UNCHANGED priority
  PROVE  FlusherOK'
<1>1. /\ Tail(todo[f]) \in Seq(BatchId)
      /\ Len(todo[f]) > 1 <=> Tail(todo[f]) # <<>>
  BY CurrentCandidate
<1>2. /\ todo' = [todo EXCEPT ![f] = Tail(todo[f])]
      /\ pc' = [pc EXCEPT ![f] = IF Len(todo[f]) > 1 THEN "check" ELSE "idle"]
  BY DEF NextCandidate, Goto
<1>3. pc' \in [Flusher -> Labels] /\ todo' \in [Flusher -> Seq(BatchId)]
  BY <1>1, <1>2 DEF FlusherOK, Labels
<1>4. ASSUME NEW g \in Flusher
      PROVE  pc'[g] \in {"idle", "select"} <=> todo'[g] = <<>>
  BY <1>1, <1>2 DEF FlusherOK
<1>5. QED
  BY <1>3, <1>4 DEF FlusherOK

\* What selectFlushable returns is a list of candidates.
LEMMA OrdersAreSequences ==
  ASSUME WorkerConstants, TypeOK, NEW f \in Flusher, NEW order \in Orders(f)
  PROVE  /\ [i \in DOMAIN order |-> Candidate(order[i])] \in Seq(BatchId)
         /\ [i \in DOMAIN order |-> Candidate(order[i])] = <<>> <=> order = <<>>
<1> DEFINE n == Smaller(Cardinality(Flushable(f)), MaxPerCycle)
           cands == [i \in DOMAIN order |-> Candidate(order[i])]
<1>1. IsFiniteSet(Flushable(f))
  BY FS_Subset DEF WorkerConstants, Flushable
<1>2. n \in Nat
  BY <1>1, FS_CardinalityType DEF WorkerConstants, Smaller
<1>3. order \in [1 .. n -> Flushable(f)]
  BY DEF Orders
<1>4. ASSUME NEW a \in Flushable(f)
      PROVE  Candidate(a) \in BatchId
  <2>1. a \in Account /\ credit[a] \in CreditRow /\ credit[a].firstAt # NoTime
    BY DEF Flushable, TypeOK
  <2>2. credit[a].firstAt \in Nat /\ credit[a].accrued \in Nat
    BY <2>1 DEF CreditRow
  <2>3. QED
    BY <2>1, <2>2 DEF Candidate, BatchId
<1>5. cands \in [1 .. n -> BatchId]
  BY <1>3, <1>4
<1>6. order \in Seq(Flushable(f)) /\ cands \in Seq(BatchId)
  BY <1>2, <1>3, <1>5, SeqDef
<1>7. DOMAIN cands = DOMAIN order
  OBVIOUS
<1>8. cands = <<>> <=> order = <<>>
  <2>1. Len(order) = n /\ Len(cands) = n
    BY <1>2, <1>3, <1>5, LenDomain
  <2>2. QED
    BY <2>1, <1>6, EmptyIsZero, Zenon
<1>9. QED
  BY <1>6, <1>8

LEMMA SelectKeepsFlushers ==
  ASSUME WorkerConstants, TypeOK, FlusherOK, NEW f \in Flusher, Select(f)
  PROVE  FlusherOK'
<1>1. PICK order \in Orders(f) :
        /\ todo' = [todo EXCEPT ![f] = [i \in DOMAIN order |-> Candidate(order[i])]]
        /\ Goto(f, IF order = <<>> THEN "idle" ELSE "check")
  BY DEF Select
<1> DEFINE cands == [i \in DOMAIN order |-> Candidate(order[i])]
           label == IF order = <<>> THEN "idle" ELSE "check"
<1>2. cands \in Seq(BatchId) /\ (cands = <<>> <=> order = <<>>)
  BY OrdersAreSequences, Zenon
<1>3. label \in Labels /\ (label \in {"idle", "select"} <=> order = <<>>)
  BY DEF Labels
<1>4. todo' = [todo EXCEPT ![f] = cands] /\ pc' = [pc EXCEPT ![f] = label]
  BY <1>1 DEF Goto
<1>5. priority' = [priority EXCEPT ![f] = {}]
  BY DEF Select
<1> HIDE DEF cands, label
<1>6. QED
  BY <1>2, <1>3, <1>4, <1>5 DEF FlusherOK

LEMMA FlushersStep ==
  WorkerConstants /\ TypeOK /\ FlusherOK /\ [WorkerNext]_workerVars => FlusherOK'
<1> SUFFICES ASSUME WorkerConstants, TypeOK, FlusherOK, [WorkerNext]_workerVars
             PROVE  FlusherOK'
  OBVIOUS
<1>1. CASE UNCHANGED flushVars
  BY <1>1 DEF FlusherOK, flushVars
<1>2. CASE Request
  BY <1>1, <1>2 DEF Request, RequestReserve, RequestRelease, RequestCommit
<1>3. CASE Collect
  <2>1. ASSUME NEW f \in Flusher, Tick(f) PROVE FlusherOK'
    BY <2>1 DEF Tick, Goto, FlusherOK, Labels
  <2>2. ASSUME NEW f \in Flusher, NEW w \in Wallet, WithdrawRequested(f, w)
        PROVE  FlusherOK'
    BY <2>2 DEF WithdrawRequested, Goto, FlusherOK, Labels
  <2>3. ASSUME NEW f \in Flusher, Select(f) PROVE FlusherOK'
    BY <2>3, SelectKeepsFlushers
  <2>4. ASSUME NEW f \in Flusher, Check(f) PROVE FlusherOK'
    <3>1. CASE NextCandidate(f)
      BY <2>4, <3>1, NextKeepsFlushers DEF Check, Busy, Labels
    <3>2. ASSUME NEW label \in {"probe", "submit"}, Goto(f, label), UNCHANGED todo
          PROVE  FlusherOK'
      BY <2>4, <3>2, GotoKeepsFlushers DEF Check, Busy, Labels
    <3>3. QED
      BY <2>4, <3>1, <3>2 DEF Check
  <2>5. ASSUME NEW f \in Flusher, Probe(f) PROVE FlusherOK'
    BY <2>5, GotoKeepsFlushers DEF Probe, Busy, Labels
  <2>6. ASSUME NEW f \in Flusher, Reset(f) PROVE FlusherOK'
    BY <2>6, GotoKeepsFlushers DEF Reset, Busy, Labels
  <2>7. ASSUME NEW f \in Flusher, Submit(f) PROVE FlusherOK'
    BY <2>7, GotoKeepsFlushers DEF Submit, Busy, Labels
  <2>8. ASSUME NEW f \in Flusher, Send(f) PROVE FlusherOK'
    BY <2>8, GotoKeepsFlushers DEF Send, Busy, Labels
  <2>9. ASSUME NEW f \in Flusher, Confirm(f) PROVE FlusherOK'
    BY <2>9, GotoKeepsFlushers DEF Confirm, Busy, Labels
  <2>10. ASSUME NEW f \in Flusher, Flush(f) PROVE FlusherOK'
    BY <2>10, NextKeepsFlushers DEF Flush, Busy, Labels
  <2>11. ASSUME NEW f \in Flusher, Fail(f) PROVE FlusherOK'
    BY <2>11, NextKeepsFlushers DEF Fail, Busy, Labels
  <2>12. QED
    BY <1>3, <2>1, <2>2, <2>3, <2>4, <2>5, <2>6, <2>7, <2>8, <2>9, <2>10, <2>11
    DEF Collect, Step, Flusher
<1>4. CASE Environment
  <2>1. ASSUME NEW tx \in mempool, Mine(tx) PROVE FlusherOK'
    <3>1. /\ UNCHANGED <<todo, priority>>
          /\ \/ UNCHANGED pc
             \/ /\ pc[tx.by] = "wait"
                /\ \E label \in {"confirm", "failed"} : pc' = [pc EXCEPT ![tx.by] = label]
      BY <2>1 DEF Mine, Awaited
    <3>2. QED
      BY <3>1 DEF FlusherOK, Labels
  <2>2. QED
    BY <1>1, <1>4, <2>1 DEF Environment, ClaimWithdraw, AccrualAges, RowGoesStale,
      flushVars
<1>5. CASE Faults
  <2>1. ASSUME NEW f \in Flusher, SendError(f) PROVE FlusherOK'
    BY <2>1, GotoKeepsFlushers DEF SendError, Busy, Labels
  <2>2. ASSUME NEW f \in Flusher, ReceiptTimeout(f) PROVE FlusherOK'
    BY <2>2, GotoKeepsFlushers DEF ReceiptTimeout, Busy, Labels
  <2>3. ASSUME NEW f \in Flusher, Abort(f) PROVE FlusherOK'
    BY <2>3, EmptySeq DEF Abort, Goto, FlusherOK, Labels
  <2>4. ASSUME Crash PROVE FlusherOK'
    BY <2>4, EmptySeq DEF Crash, FlusherOK, Labels
  <2>5. QED
    BY <1>5, <2>1, <2>2, <2>3, <2>4 DEF Faults
<1>6. CASE UNCHANGED workerVars
  BY <1>1, <1>6 DEF workerVars
<1>7. QED
  BY <1>2, <1>3, <1>4, <1>5, <1>6 DEF WorkerNext

-----------------------------------------------------------------------------
(* The chain *)

ChainOK ==
  /\ vault \in [Account -> Nat] /\ collected \in [Account -> Nat]
  /\ used \subseteq BatchId
  /\ mempool \subseteq [batch : BatchId, by : Flusher, awaited : BOOLEAN]

\* Giving up on a receipt changes no batch, sender or number of transactions.
LEMMA AbandonedKeeps ==
  ASSUME ChainOK, NEW txs
  PROVE  /\ Abandoned(txs) \subseteq [batch : BatchId, by : Flusher, awaited : BOOLEAN]
         /\ \A tx \in Abandoned(txs) : \E sent \in mempool : sent.batch = tx.batch
<1>1. ASSUME NEW tx \in mempool
      PROVE  /\ [tx EXCEPT !.awaited = FALSE] \in
                   [batch : BatchId, by : Flusher, awaited : BOOLEAN]
             /\ [tx EXCEPT !.awaited = FALSE].batch = tx.batch
  BY DEF ChainOK
<1>2. QED
  BY <1>1 DEF Abandoned, ChainOK

LEMMA ChainStep ==
  WorkerConstants /\ FlusherOK /\ ChainOK /\ [WorkerNext]_workerVars => ChainOK'
<1> SUFFICES ASSUME WorkerConstants, FlusherOK, ChainOK, [WorkerNext]_workerVars
             PROVE  ChainOK'
  OBVIOUS
<1>1. CASE UNCHANGED chainVars
  BY <1>1 DEF ChainOK, chainVars
<1>2. CASE Request
  BY <1>1, <1>2 DEF Request, RequestReserve, RequestRelease, RequestCommit
<1>3. CASE Collect
  <2>1. ASSUME NEW f \in Flusher, Send(f) PROVE ChainOK'
    <3>1. Head(todo[f]) \in BatchId
      BY <2>1, CurrentCandidate DEF Send, Busy, Labels
    <3> DEFINE tx == [batch |-> Head(todo[f]), by |-> f, awaited |-> TRUE]
    <3>2. mempool' \in {mempool, mempool \cup {tx}}
      BY <2>1 DEF Send
    <3>a. tx \in [batch : BatchId, by : Flusher, awaited : BOOLEAN]
      BY <3>1
    <3> HIDE DEF tx
    <3>3. UNCHANGED <<vault, used, collected>>
      BY <2>1 DEF Send
    <3>4. QED
      BY <3>2, <3>3, <3>a DEF ChainOK
  <2>2. QED
    BY <1>1, <1>3, <2>1 DEF Collect, Tick, WithdrawRequested, Step, Select, Check,
      Probe, Reset, Submit, Confirm, Flush, Fail, chainVars
<1>4. CASE Environment
  <2>1. ASSUME NEW tx \in mempool, Mine(tx) PROVE ChainOK'
    <3> DEFINE b == tx.batch
    <3>1. b \in BatchId /\ b.account \in Account /\ b.amount \in Nat
      BY DEF ChainOK, BatchId
    <3>2. mempool' \subseteq mempool
      BY <2>1 DEF Mine
    <3>3. CASE Consumable(b)
      <4>1. /\ used' = used \cup {b}
            /\ vault' = [vault EXCEPT ![b.account] = @ - b.amount]
            /\ collected' = [collected EXCEPT ![b.account] = @ + b.amount]
            /\ b.amount <= vault[b.account]
        BY <2>1, <3>3 DEF Mine, Consumable
      <4> HIDE DEF b
      <4>2. QED
        BY <3>1, <3>2, <4>1 DEF ChainOK
    <3>4. CASE UNCHANGED <<used, vault, collected>>
      BY <3>2, <3>4 DEF ChainOK
    <3>5. QED
      BY <2>1, <3>3, <3>4 DEF Mine
  <2>2. ASSUME NEW a \in Account, NEW amount \in WithdrawAmount,
               ClaimWithdraw(a, amount)
        PROVE  ChainOK'
    BY <2>2 DEF ClaimWithdraw, ChainOK, WorkerConstants
  <2>3. QED
    BY <1>1, <1>4, <2>1, <2>2 DEF Environment, AccrualAges, RowGoesStale
<1>5. CASE Faults
  <2>1. ASSUME NEW txs, mempool' = Abandoned(txs), UNCHANGED <<vault, used, collected>>
        PROVE  ChainOK'
    BY <2>1, AbandonedKeeps DEF ChainOK
  <2>2. QED
    BY <1>1, <1>5, <2>1 DEF Faults, SendError, ReceiptTimeout, Abort, Crash
<1>6. CASE UNCHANGED workerVars
  BY <1>1, <1>6 DEF workerVars
<1>7. QED
  BY <1>2, <1>3, <1>4, <1>5, <1>6 DEF WorkerNext

-----------------------------------------------------------------------------
(* The batch rows.  The three facts below hold together: a flusher resets a *)
(* row it has found and broadcasts a batch it has recorded, and only a      *)
(* flusher whose batch is consumed goes on to confirm it.                   *)

BatchesOK ==
  /\ DOMAIN batches \subseteq BatchId
  /\ batches \in [DOMAIN batches -> BatchRow]

\* What a flusher knows about its current candidate, by where it is.
FlusherKnows ==
  \A f \in Flusher :
    /\ pc[f] \in {"confirm", "flush"} => Head(todo[f]) \in used
    /\ pc[f] \in {"probe", "reset", "send"} => Head(todo[f]) \in DOMAIN batches

RecordInv ==
  BatchesOK /\ ConfirmedIsOnChain /\ AttemptIsOnRecord /\ FlusherKnows

\* Writing one row.
LEMMA SetRowEffect ==
  ASSUME BatchesOK, NEW b \in BatchId, NEW row \in BatchRow, SetRow(b, row)
  PROVE  /\ BatchesOK'
         /\ DOMAIN batches' = DOMAIN batches \cup {b}
         /\ batches'[b] = row
         /\ \A x \in DOMAIN batches \ {b} : batches'[x] = batches[x]
BY DEF SetRow, BatchesOK

LEMMA SetStateEffect ==
  ASSUME BatchesOK, NEW b \in DOMAIN batches,
         NEW state \in {"pending", "submitted", "confirmed", "dead_letter"},
         SetState(b, state)
  PROVE  /\ BatchesOK'
         /\ DOMAIN batches' = DOMAIN batches
         /\ batches'[b].state = state
         /\ \A x \in DOMAIN batches \ {b} : batches'[x] = batches[x]
<1> DEFINE row == [batches[b] EXCEPT !.state = state]
<1>1. b \in BatchId /\ row \in BatchRow /\ row.state = state
  BY DEF BatchesOK, BatchRow
<1>2. SetRow(b, row)
  BY DEF SetState
<1> HIDE DEF row
<1>3. QED
  BY <1>1, <1>2, SetRowEffect

\* A step of one flusher, or of the chain, keeps what the others know.
LEMMA OthersKnow ==
  ASSUME FlusherKnows, used \subseteq used', DOMAIN batches \subseteq DOMAIN batches',
         NEW f, \A g \in Flusher \ {f} : pc'[g] = pc[g] /\ todo'[g] = todo[g],
         f \in Flusher =>
           /\ pc'[f] \in {"confirm", "flush"} => Head(todo'[f]) \in used'
           /\ pc'[f] \in {"probe", "reset", "send"} => Head(todo'[f]) \in DOMAIN batches'
  PROVE  FlusherKnows'
<1>1. ASSUME NEW g \in Flusher
      PROVE  /\ pc'[g] \in {"confirm", "flush"} => Head(todo'[g]) \in used'
             /\ pc'[g] \in {"probe", "reset", "send"} =>
                  Head(todo'[g]) \in DOMAIN batches'
  <2>1. CASE g = f
    BY <2>1
  <2>2. CASE g # f
    BY <2>2 DEF FlusherKnows
  <2>3. QED
    BY <2>1, <2>2
<1>2. QED
  BY <1>1 DEF FlusherKnows

\* When neither the rows nor the chain change, and nothing new is sent, only
\* the flushers matter.
LEMMA RowsUntouched ==
  ASSUME RecordInv, UNCHANGED <<batches, used>>, FlusherKnows',
         \A tx \in mempool' : \E sent \in mempool : sent.batch = tx.batch
  PROVE  RecordInv'
BY DEF RecordInv, BatchesOK, ConfirmedIsOnChain, AttemptIsOnRecord

\* Where Goto and NextCandidate take a flusher, and nobody else.
LEMMA GotoMoves ==
  ASSUME FlusherOK, NEW f \in Flusher, NEW label, Goto(f, label)
  PROVE  pc'[f] = label /\ \A g \in Flusher \ {f} : pc'[g] = pc[g]
BY DEF Goto, FlusherOK

LEMMA NextMoves ==
  ASSUME FlusherOK, NEW f \in Flusher, NextCandidate(f)
  PROVE  /\ pc'[f] \in {"check", "idle"}
         /\ \A g \in Flusher \ {f} : pc'[g] = pc[g] /\ todo'[g] = todo[g]
<1>1. pc' = [pc EXCEPT ![f] = IF Len(todo[f]) > 1 THEN "check" ELSE "idle"]
  BY DEF NextCandidate, Goto
<1>2. todo' = [todo EXCEPT ![f] = Tail(todo[f])]
  BY DEF NextCandidate
<1>3. QED
  BY <1>1, <1>2 DEF FlusherOK

LEMMA RecordStep ==
  FlusherOK /\ ChainOK /\ RecordInv /\ [WorkerNext]_workerVars => RecordInv'
<1> SUFFICES ASSUME FlusherOK, ChainOK, RecordInv, [WorkerNext]_workerVars
             PROVE  RecordInv'
  OBVIOUS
<1>a. BatchesOK /\ ConfirmedIsOnChain /\ AttemptIsOnRecord /\ FlusherKnows
  BY DEF RecordInv
<1>1. CASE UNCHANGED <<batches, used, mempool, pc, todo>>
  BY <1>1, <1>a, RowsUntouched DEF FlusherKnows
<1>2. CASE Request
  BY <1>1, <1>2 DEF Request, RequestReserve, RequestRelease, RequestCommit,
                    chainVars, flushVars
<1>3. CASE Collect
  <2>1. ASSUME NEW f \in Flusher, Tick(f) PROVE RecordInv'
    BY <2>1, <1>a, GotoMoves, OthersKnow, RowsUntouched DEF Tick, chainVars
  <2>2. ASSUME NEW f \in Flusher, NEW w \in Wallet, WithdrawRequested(f, w)
        PROVE  RecordInv'
    BY <2>2, <1>a, GotoMoves, OthersKnow, RowsUntouched DEF WithdrawRequested, chainVars
  <2>3. ASSUME NEW f \in Flusher, Select(f) PROVE RecordInv'
    <3>1. PICK order \in Orders(f) :
            /\ todo' = [todo EXCEPT ![f] = [i \in DOMAIN order |-> Candidate(order[i])]]
            /\ Goto(f, IF order = <<>> THEN "idle" ELSE "check")
      BY <2>3 DEF Select
    <3>2. \A g \in Flusher \ {f} : todo'[g] = todo[g]
      BY <3>1 DEF FlusherOK
    <3>3. /\ pc'[f] \in {"idle", "check"}
          /\ \A g \in Flusher \ {f} : pc'[g] = pc[g]
      BY <3>1, GotoMoves
    <3>4. UNCHANGED <<batches, used, mempool>>
      BY <2>3 DEF Select, chainVars
    <3>5. QED
      BY <1>a, <3>2, <3>3, <3>4, OthersKnow, RowsUntouched
  <2>4. ASSUME NEW f \in Flusher, Check(f) PROVE RecordInv'
    <3>1. UNCHANGED <<batches, used, mempool>>
      BY <2>4 DEF Check, chainVars
    <3>2. CASE NextCandidate(f)
      BY <1>a, <3>1, <3>2, NextMoves, OthersKnow, RowsUntouched
    <3>3. CASE /\ UNCHANGED todo
               /\ \/ Goto(f, "submit")
                  \/ Goto(f, "probe") /\ Head(todo[f]) \in DOMAIN batches
      BY <1>a, <3>1, <3>3, GotoMoves, OthersKnow, RowsUntouched
    <3>4. QED
      BY <2>4, <3>2, <3>3 DEF Check
  <2>5. ASSUME NEW f \in Flusher, Probe(f) PROVE RecordInv'
    <3>1. Head(todo[f]) \in DOMAIN batches
      BY <1>a, <2>5 DEF Probe, FlusherKnows
    <3>2. QED
      BY <1>a, <2>5, <3>1, GotoMoves, OthersKnow, RowsUntouched DEF Probe, chainVars
  <2>6. ASSUME NEW f \in Flusher, Reset(f) PROVE RecordInv'
    <3> DEFINE b == Head(todo[f])
    <3>1. b \in DOMAIN batches
      BY <1>a, <2>6 DEF Reset, FlusherKnows
    <3>2. SetState(b, "pending") /\ UNCHANGED <<used, mempool, todo>>
      BY <2>6 DEF Reset, chainVars
    <3>3. /\ BatchesOK'
          /\ DOMAIN batches' = DOMAIN batches
          /\ batches'[b].state = "pending"
          /\ \A x \in DOMAIN batches \ {b} : batches'[x] = batches[x]
      BY <1>a, <3>1, <3>2, SetStateEffect
    <3>4. FlusherKnows'
      BY <1>a, <2>6, <3>2, <3>3, GotoMoves, OthersKnow DEF Reset
    <3>5. ConfirmedIsOnChain' /\ AttemptIsOnRecord'
      BY <1>a, <3>2, <3>3 DEF ConfirmedIsOnChain, AttemptIsOnRecord
    <3>6. QED
      BY <3>3, <3>4, <3>5 DEF RecordInv
  <2>7. ASSUME NEW f \in Flusher, Submit(f) PROVE RecordInv'
    <3> DEFINE b == Head(todo[f])
    <3>1. b \in BatchId
      BY <2>7, CurrentCandidate DEF Submit, Busy, Labels
    <3>2. Goto(f, "send") /\ UNCHANGED <<used, mempool, todo>>
      BY <2>7 DEF Submit, chainVars
    <3>3. /\ BatchesOK'
          /\ DOMAIN batches' = DOMAIN batches \cup {b}
          /\ \A x \in DOMAIN batches' :
               batches'[x].state = "confirmed" =>
                 x \in DOMAIN batches /\ batches[x].state = "confirmed"
      <4>1. CASE /\ UNCHANGED batches /\ b \in DOMAIN batches
        BY <1>a, <4>1 DEF BatchesOK
      <4>2. ASSUME NEW row \in BatchRow, row.state = "submitted", SetRow(b, row)
            PROVE  <3>3!1 /\ <3>3!2 /\ <3>3!3
        BY <1>a, <3>1, <4>2, SetRowEffect
      <4>3. b \in DOMAIN batches => batches[b].attempts \in Nat
        BY <1>a DEF BatchesOK, BatchRow
      <4>4. CASE b \notin DOMAIN batches
        <5> DEFINE row == [state |-> "submitted", attempts |-> 1, stale |-> FALSE]
        <5>1. SetRow(b, row)
          BY <2>7, <4>4 DEF Submit
        <5>2. row \in BatchRow /\ row.state = "submitted"
          BY DEF BatchRow
        <5> HIDE DEF row
        <5>3. QED
          BY <4>2, <5>1, <5>2
      <4>5. CASE b \in DOMAIN batches /\ ~UNCHANGED batches
        <5> DEFINE row == [state |-> "submitted", stale |-> FALSE,
                           attempts |-> batches[b].attempts + 1]
        <5>1. SetRow(b, row)
          BY <2>7, <4>5 DEF Submit
        <5>2. row \in BatchRow /\ row.state = "submitted"
          BY <4>3, <4>5 DEF BatchRow
        <5> HIDE DEF row
        <5>3. QED
          BY <4>2, <5>1, <5>2
      <4>6. QED
        BY <4>1, <4>4, <4>5
    <3>4. FlusherKnows'
      BY <1>a, <3>2, <3>3, GotoMoves, OthersKnow
    <3>5. ConfirmedIsOnChain' /\ AttemptIsOnRecord'
      BY <1>a, <3>2, <3>3 DEF ConfirmedIsOnChain, AttemptIsOnRecord
    <3>6. QED
      BY <3>3, <3>4, <3>5 DEF RecordInv
  <2>8. ASSUME NEW f \in Flusher, Send(f) PROVE RecordInv'
    <3> DEFINE b == Head(todo[f])
    <3>1. b \in DOMAIN batches
      BY <1>a, <2>8 DEF Send, FlusherKnows
    <3>2. /\ UNCHANGED <<used, batches, todo>>
          /\ mempool' \subseteq mempool \cup {[batch |-> b, by |-> f, awaited |-> TRUE]}
          /\ Goto(f, IF b \in used THEN "confirm"
                     ELSE IF Consumable(b) THEN "wait" ELSE "failed")
      BY <2>8 DEF Send
    <3>3. FlusherKnows'
      BY <1>a, <3>1, <3>2, GotoMoves, OthersKnow
    <3>4. BatchesOK' /\ ConfirmedIsOnChain' /\ AttemptIsOnRecord'
      BY <1>a, <3>1, <3>2 DEF BatchesOK, ConfirmedIsOnChain, AttemptIsOnRecord
    <3>5. QED
      BY <3>3, <3>4 DEF RecordInv
  <2>9. ASSUME NEW f \in Flusher, Confirm(f) PROVE RecordInv'
    <3> DEFINE b == Head(todo[f])
    <3>1. b \in used /\ b \in DOMAIN batches
      BY <1>a, <2>9 DEF Confirm, FlusherKnows, AttemptIsOnRecord
    <3>2. SetState(b, "confirmed") /\ UNCHANGED <<used, mempool, todo>>
      BY <2>9 DEF Confirm, chainVars
    <3>3. /\ BatchesOK'
          /\ DOMAIN batches' = DOMAIN batches
          /\ \A x \in DOMAIN batches \ {b} : batches'[x] = batches[x]
      BY <1>a, <3>1, <3>2, SetStateEffect
    <3>4. FlusherKnows'
      BY <1>a, <2>9, <3>1, <3>2, <3>3, GotoMoves, OthersKnow DEF Confirm
    <3>5. ConfirmedIsOnChain' /\ AttemptIsOnRecord'
      BY <1>a, <3>1, <3>2, <3>3 DEF ConfirmedIsOnChain, AttemptIsOnRecord
    <3>6. QED
      BY <3>3, <3>4, <3>5 DEF RecordInv
  <2>10. ASSUME NEW f \in Flusher, Flush(f) PROVE RecordInv'
    BY <1>a, <2>10, NextMoves, OthersKnow, RowsUntouched DEF Flush, chainVars
  <2>11. ASSUME NEW f \in Flusher, Fail(f) PROVE RecordInv'
    <3> DEFINE b == Head(todo[f])
    <3>1. NextCandidate(f) /\ UNCHANGED <<used, mempool>>
      BY <2>11 DEF Fail, chainVars
    <3>2. CASE UNCHANGED batches
      BY <1>a, <3>1, <3>2, NextMoves, OthersKnow, RowsUntouched
    <3>3. ASSUME b \in DOMAIN batches, NEW state \in {"pending", "dead_letter"},
                 SetState(b, state)
          PROVE  RecordInv'
      <4>1. /\ BatchesOK'
            /\ DOMAIN batches' = DOMAIN batches
            /\ batches'[b].state = state
            /\ \A x \in DOMAIN batches \ {b} : batches'[x] = batches[x]
        BY <1>a, <3>3, SetStateEffect
      <4>2. FlusherKnows'
        BY <1>a, <3>1, <4>1, NextMoves, OthersKnow
      <4>3. ConfirmedIsOnChain' /\ AttemptIsOnRecord'
        BY <1>a, <3>1, <4>1 DEF ConfirmedIsOnChain, AttemptIsOnRecord
      <4>4. QED
        BY <4>1, <4>2, <4>3 DEF RecordInv
    <3>4. QED
      BY <2>11, <3>2, <3>3 DEF Fail
  <2>12. QED
    BY <1>3, <2>1, <2>2, <2>3, <2>4, <2>5, <2>6, <2>7, <2>8, <2>9, <2>10, <2>11
    DEF Collect, Step, Flusher
<1>4. CASE Environment
  <2>1. ASSUME NEW tx \in mempool, Mine(tx) PROVE RecordInv'
    <3>1. /\ used \subseteq used' /\ used' \subseteq used \cup {tx.batch}
          /\ mempool' \subseteq mempool
          /\ UNCHANGED <<batches, todo>>
      BY <2>1 DEF Mine
    <3>2. \/ UNCHANGED pc
          \/ /\ pc' = [pc EXCEPT ![tx.by] = "failed"]
          \/ /\ pc' = [pc EXCEPT ![tx.by] = "confirm"]
             /\ Head(todo[tx.by]) \in used'
      BY <2>1 DEF Mine, Awaited
    <3>3. \A g \in Flusher \ {tx.by} : pc'[g] = pc[g]
      BY <3>2 DEF FlusherOK
    <3>4. tx.by \in Flusher =>
            /\ pc'[tx.by] \in {"confirm", "flush"} => Head(todo'[tx.by]) \in used'
            /\ pc'[tx.by] \in {"probe", "reset", "send"} =>
                 Head(todo'[tx.by]) \in DOMAIN batches'
      BY <1>a, <3>1, <3>2 DEF FlusherOK, FlusherKnows
    <3>5. FlusherKnows'
      BY <1>a, <3>1, <3>3, <3>4, OthersKnow
    <3>6. BatchesOK' /\ ConfirmedIsOnChain' /\ AttemptIsOnRecord'
      BY <1>a, <3>1 DEF BatchesOK, ConfirmedIsOnChain, AttemptIsOnRecord
    <3>7. QED
      BY <3>5, <3>6 DEF RecordInv
  <2>2. ASSUME NEW b \in DOMAIN batches, RowGoesStale(b) PROVE RecordInv'
    <3> DEFINE row == [batches[b] EXCEPT !.stale = TRUE]
    <3>1. /\ batches' = [batches EXCEPT ![b] = row]
          /\ UNCHANGED <<used, mempool, pc, todo>>
      BY <2>2 DEF RowGoesStale, chainVars, flushVars
    <3>2. row \in BatchRow /\ row.state = batches[b].state
      BY <1>a DEF BatchesOK, BatchRow
    <3> HIDE DEF row
    <3>3. /\ BatchesOK' /\ DOMAIN batches' = DOMAIN batches
          /\ \A x \in DOMAIN batches : batches'[x].state = batches[x].state
      BY <1>a, <3>1, <3>2 DEF BatchesOK
    <3>4. QED
      BY <1>a, <3>1, <3>3 DEF RecordInv, ConfirmedIsOnChain, AttemptIsOnRecord,
        FlusherKnows
  <2>3. QED
    BY <1>1, <1>4, <2>1, <2>2 DEF Environment, ClaimWithdraw, AccrualAges,
      chainVars, flushVars
<1>5. CASE Faults
  <2>1. ASSUME NEW f \in Flusher, SendError(f) PROVE RecordInv'
    BY <1>a, <2>1, GotoMoves, OthersKnow, RowsUntouched DEF SendError, chainVars
  <2>2. ASSUME NEW f \in Flusher, ReceiptTimeout(f) PROVE RecordInv'
    <3>1. FlusherKnows'
      BY <1>a, <2>2, GotoMoves, OthersKnow DEF ReceiptTimeout
    <3>2. \A tx \in mempool' : \E sent \in mempool : sent.batch = tx.batch
      BY <2>2, AbandonedKeeps DEF ReceiptTimeout
    <3>3. QED
      BY <2>2, <3>1, <3>2, RowsUntouched DEF ReceiptTimeout
  <2>3. ASSUME NEW f \in Flusher, Abort(f) PROVE RecordInv'
    <3>1. \A g \in Flusher \ {f} : todo'[g] = todo[g]
      BY <2>3 DEF Abort, FlusherOK
    <3>2. QED
      BY <1>a, <2>3, <3>1, GotoMoves, OthersKnow, RowsUntouched DEF Abort, chainVars
  <2>4. ASSUME Crash PROVE RecordInv'
    <3>1. FlusherKnows'
      BY <2>4 DEF Crash, FlusherKnows
    <3>2. \A tx \in mempool' : \E sent \in mempool : sent.batch = tx.batch
      BY <2>4, AbandonedKeeps DEF Crash
    <3>3. QED
      BY <2>4, <3>1, <3>2, RowsUntouched DEF Crash
  <2>5. QED
    BY <1>5, <2>1, <2>2, <2>3, <2>4 DEF Faults
<1>6. CASE UNCHANGED workerVars
  BY <1>1, <1>6 DEF workerVars, chainVars, flushVars
<1>7. QED
  BY <1>2, <1>3, <1>4, <1>5, <1>6 DEF WorkerNext

-----------------------------------------------------------------------------
(* The ledger under the collector *)

\* What the collector does to the ledger goes through the ledger's own
\* operations, so what is proved of their steps holds here.
LEMMA WorkerStepsLedger ==
  FlusherOK /\ [WorkerNext]_workerVars => [Next]_ledgerVars
<1> SUFFICES ASSUME FlusherOK, [WorkerNext]_workerVars
             PROVE  [Next]_ledgerVars
  OBVIOUS
<1>1. CASE Request
  BY <1>1 DEF Request, RequestReserve, RequestRelease, RequestCommit,
              Next, ReleaseOutcome, Outcome
<1>2. CASE Collect
  <2>1. ASSUME NEW f \in Flusher, Flush(f)
        PROVE  [Next]_ledgerVars
    <3>1. Head(todo[f]).account \in Account
      BY <2>1, CurrentCandidate DEF Flush, Busy, Labels, BatchId
    <3>2. QED
      BY <2>1, <3>1 DEF Flush, Next
  <2>2. QED
    BY <1>2, <2>1 DEF Collect, Tick, WithdrawRequested, Step, Select, Check,
      Probe, Reset, Submit, Send, Confirm, Fail
<1>3. CASE Environment
  BY <1>3 DEF Environment, Mine, ClaimWithdraw, AccrualAges, RowGoesStale
<1>4. CASE Faults
  BY <1>4 DEF Faults, SendError, ReceiptTimeout, Abort, Crash
<1>5. CASE UNCHANGED workerVars
  BY <1>5 DEF workerVars
<1>6. QED
  BY <1>1, <1>2, <1>3, <1>4, <1>5 DEF WorkerNext

-----------------------------------------------------------------------------
(* The remaining variables *)

HistoryOK ==
  /\ charged \in [Account -> Nat] /\ late \in [Account -> Nat]
  /\ aged \subseteq Account /\ orphaned \subseteq Reservation
  /\ faults \in 0 .. MaxFaults

LEMMA HistoryStep ==
  WorkerConstants /\ TypeOK /\ HistoryOK /\ [WorkerNext]_workerVars => HistoryOK'
<1> SUFFICES ASSUME WorkerConstants, TypeOK, HistoryOK, [WorkerNext]_workerVars
             PROVE  HistoryOK'
  OBVIOUS
<1>1. CASE UNCHANGED <<charged, late, aged, orphaned, faults>>
  BY <1>1 DEF HistoryOK
<1>2. CASE Request
  <2>1. ASSUME NEW r \in Reservation, NEW total \in Amount, RequestCommit(r, total)
        PROVE  HistoryOK'
    <3> DEFINE charge == ActualCharge(r, total)
               account == reservations[r].account
    <3>1. r \in Open /\ total \in Nat
      BY <2>1, AmountsAreNatural DEF RequestCommit, Commit
    <3>2. charge \in Nat /\ account \in Account
      BY <3>1, ChargeWithinHold
    <3>3. /\ charged' = [charged EXCEPT ![account] = @ + charge]
          /\ late' \in {late, [late EXCEPT ![account] = @ + charge]}
          /\ UNCHANGED <<aged, orphaned, faults>>
      BY <2>1 DEF RequestCommit
    <3> HIDE DEF charge, account
    <3>4. charged' \in [Account -> Nat] /\ late' \in [Account -> Nat]
      BY <3>2, <3>3 DEF HistoryOK
    <3>5. QED
      BY <3>3, <3>4 DEF HistoryOK
  <2>2. QED
    BY <1>1, <1>2, <2>1 DEF Request, RequestReserve, RequestRelease, requestVars
<1>3. CASE Collect
  BY <1>1, <1>3 DEF Collect, Tick, WithdrawRequested, Step, Select, Check, Probe,
    Reset, Submit, Send, Confirm, Flush, Fail, requestVars, HistoryOK
<1>4. CASE Environment
  BY <1>1, <1>4 DEF Environment, Mine, ClaimWithdraw, AccrualAges, RowGoesStale,
    requestVars, HistoryOK
<1>5. CASE Faults
  <2>1. faults' \in 0 .. MaxFaults
    <3>1. faults < MaxFaults /\ faults' = faults + 1
      BY <1>5 DEF Faults, SendError, ReceiptTimeout, Abort, Crash, Faulty
    <3>2. faults \in 0 .. MaxFaults /\ MaxFaults \in Nat
      BY WorkerConstants DEF HistoryOK
    <3>3. QED
      BY <3>1, <3>2
  <2>2. UNCHANGED <<charged, late, aged>> /\ orphaned' \in {orphaned, Open}
    BY <1>5 DEF Faults, SendError, ReceiptTimeout, Abort, Crash, requestVars
  <2>3. QED
    BY <2>1, <2>2 DEF HistoryOK, Open, TypeOK
<1>6. CASE UNCHANGED workerVars
  BY <1>1, <1>6 DEF workerVars, requestVars
<1>7. QED
  BY <1>2, <1>3, <1>4, <1>5, <1>6 DEF WorkerNext

-----------------------------------------------------------------------------
(* The theorems *)

WorkerInv ==
  TypeOK /\ FlusherOK /\ ChainOK /\ HistoryOK /\ RecordInv

LEMMA WorkerInvInit == WorkerInit => WorkerInv
<1> SUFFICES ASSUME WorkerInit PROVE WorkerInv
  OBVIOUS
<1>1. TypeOK
  BY WorkerConstants DEF WorkerInit, TypeOK, ZeroRow, CreditRow, ReservationRow, NoTime
<1>2. FlusherOK
  BY EmptySeq DEF WorkerInit, FlusherOK, Labels
<1>3. ChainOK /\ HistoryOK
  BY WorkerConstants DEF WorkerInit, ChainOK, HistoryOK
<1>4. RecordInv
  BY DEF WorkerInit, RecordInv, BatchesOK, ConfirmedIsOnChain, AttemptIsOnRecord,
    FlusherKnows
<1>5. QED
  BY <1>1, <1>2, <1>3, <1>4 DEF WorkerInv

LEMMA WorkerInvStep == WorkerInv /\ [WorkerNext]_workerVars => WorkerInv'
BY WorkerConstants, WorkerStepsLedger, StepType, FlushersStep, ChainStep, HistoryStep,
   RecordStep DEF WorkerInv

LEMMA WorkerInvariant == WorkerSpec => []WorkerInv
BY WorkerInvInit, WorkerInvStep, PTL DEF WorkerSpec

\* The worker, the chain and the batch rows never leave their types, however
\* ticks, withdraw handlers, requests, faults and the chain interleave.
THEOREM WorkerIsTyped == WorkerSpec => []WorkerTypeOK
<1>1. WorkerInv => WorkerTypeOK
  BY DEF WorkerInv, WorkerTypeOK, FlusherOK, ChainOK, HistoryOK, RecordInv, BatchesOK
<1>2. QED
  BY <1>1, WorkerInvariant, PTL

\* Under the collector the ledger keeps its promise: ticks, withdraw
\* handlers, crashes and lost receipts only ever hold, settle and collect as
\* the abstract account does; an account starts with what it deposited.
THEOREM WorkerImplementsPromise == WorkerSpec => ImplementsPromise
<1>1. WorkerInit => Promise!Init
  BY WorkerInvInit, StartsAsPromised DEF WorkerInv, WorkerInit, ZeroRow
<1>2. WorkerInv /\ [WorkerNext]_workerVars => [Promise!Next]_(Promise!accountVars)
  BY WorkerStepsLedger, NextIsACall, StepImplementsPromise DEF WorkerInv
<1>3. QED
  BY <1>1, <1>2, WorkerInvariant, PTL DEF WorkerSpec, ImplementsPromise, Promise!Spec

\* No crash of the worker or of a request makes the reserved counter of an
\* account differ from its open reservations, orphaned ones included.
THEOREM WorkerReservedIsHeld == WorkerSpec => []ReservedIsHeld
<1>1. WorkerInit => HoldsCounted
  BY NothingHeld DEF WorkerInit, ZeroRow
<1>2. WorkerInv /\ HoldsCounted /\ [WorkerNext]_workerVars => HoldsCounted'
  BY WorkerStepsLedger, NextIsACall, HoldsStep DEF WorkerInv
<1>3. QED
  BY <1>1, <1>2, CountedIsHeld, WorkerInvariant, PTL DEF WorkerSpec

\* Neither the collector nor a crash creates or loses a credit of the ledger:
\* a flush takes exactly the accrual, everything else moves credits between
\* the columns of one account.
THEOREM WorkerSumIsConserved == WorkerSpec => SumIsConserved
<1>1. WorkerInv /\ [WorkerNext]_workerVars =>
        [\A a \in Account : Conserved(a)]_ledgerVars
  BY WorkerStepsLedger, NextIsACall, ConservedStep DEF WorkerInv
<1>2. QED
  BY <1>1, WorkerInvariant, PTL DEF WorkerSpec, SumIsConserved, Conserved

\* A reservation is closed once, whoever crashes or flushes in between.
THEOREM WorkerClosedIsFinal == WorkerSpec => ClosedIsFinal
<1>1. WorkerInv /\ [WorkerNext]_workerVars => [RowsAreFinal]_ledgerVars
  BY WorkerStepsLedger, NextIsACall, FinalStep DEF WorkerInv
<1>2. QED
  BY <1>1, WorkerInvariant, PTL DEF WorkerSpec, ClosedIsFinal, RowsAreFinal

\* consume-worker.ts marks a batch confirmed only when the vault has consumed
\* it: for any number of concurrent flushers, crashes and lost receipts.
THEOREM WorkerConfirmedIsOnChain == WorkerSpec => []ConfirmedIsOnChain
<1>1. WorkerInv => ConfirmedIsOnChain
  BY DEF WorkerInv, RecordInv
<1>2. QED
  BY <1>1, WorkerInvariant, PTL

\* consume-worker.ts records the attempt before the chain call: nothing the
\* chain has seen or may still see is without its row.
THEOREM WorkerAttemptIsOnRecord == WorkerSpec => []AttemptIsOnRecord
<1>1. WorkerInv => AttemptIsOnRecord
  BY DEF WorkerInv, RecordInv
<1>2. QED
  BY <1>1, WorkerInvariant, PTL

\* With the collector running, ledger.ts still stamps an accrual exactly
\* while it is not empty: the batch id of a candidate is always defined.
THEOREM WorkerKeepsStamps == WorkerSpec => []AccruedIsStamped
<1>1. WorkerInit => AccruedIsStamped
  BY DEF WorkerInit, AccruedIsStamped, ZeroRow, NoTime
<1>2. WorkerInv /\ AccruedIsStamped /\ [WorkerNext]_workerVars => AccruedIsStamped'
  BY WorkerStepsLedger, StampStep DEF WorkerInv
<1>3. QED
  BY <1>1, <1>2, WorkerInvariant, PTL DEF WorkerSpec

-----------------------------------------------------------------------------
(***************************************************************************)
(* The single flusher: what the collector guarantees as long as no         *)
(* WithdrawRequested handler runs beside the interval, for any number of   *)
(* wallets, chains, requests and withdrawals.                              *)
(***************************************************************************)

-----------------------------------------------------------------------------
(* The effect of the requests in flight on an account *)

\* Requests never take anything off an accrual, never change its stamp once
\* it has one, stamp a new accrual with the present, and whatever they add to
\* an accrual they charge.
LEMMA RequestEffect ==
  ASSUME TypeOK, ChainOK, HistoryOK, Request, NEW a \in Account
  PROVE  /\ credit[a].firstAt # NoTime => credit'[a].firstAt = credit[a].firstAt
         /\ credit[a].firstAt = NoTime => credit'[a].firstAt \in {NoTime, clock}
         /\ credit'[a].accrued >= credit[a].accrued
         /\ credit'[a].accrued - credit[a].accrued = charged'[a] - charged[a]
         /\ clock' >= clock
<1>1. credit[a] \in CreditRow /\ charged[a] \in Nat /\ clock \in Nat
  BY DEF TypeOK, HistoryOK
<1>2. credit[a].accrued \in Nat
  BY <1>1 DEF CreditRow
<1>3. CASE /\ credit'[a].firstAt = credit[a].firstAt
           /\ credit'[a].accrued = credit[a].accrued
           /\ charged' = charged /\ clock' = clock
  BY <1>1, <1>2, <1>3
<1>4. ASSUME NEW r \in Reservation, NEW b \in Account, NEW amount \in Amount,
             RequestReserve(r, b, amount)
      PROVE  <1>3!1
  BY <1>1, <1>4 DEF RequestReserve, Reserve, Held, TypeOK, CreditRow, requestVars
<1>5. ASSUME NEW r \in Reservation, RequestRelease(r)
      PROVE  <1>3!1
  BY <1>1, <1>5 DEF RequestRelease, Release, Returned, TypeOK, CreditRow, requestVars
<1>6. ASSUME NEW r \in Reservation, NEW total \in Amount, RequestCommit(r, total)
      PROVE  /\ credit[a].firstAt # NoTime => credit'[a].firstAt = credit[a].firstAt
             /\ credit[a].firstAt = NoTime => credit'[a].firstAt \in {NoTime, clock}
             /\ credit'[a].accrued >= credit[a].accrued
             /\ credit'[a].accrued - credit[a].accrued = charged'[a] - charged[a]
             /\ clock' >= clock
  <2> DEFINE charge == ActualCharge(r, total)
             held == reservations[r].amount
             b == reservations[r].account
  <2>1. r \in Open /\ total \in Nat
    BY <1>6, AmountsAreNatural DEF RequestCommit, Commit
  <2>2. charge \in Nat /\ held \in Nat /\ b \in Account
    BY <2>1, ChargeWithinHold
  <2>3. /\ credit' = [credit EXCEPT ![b] = Charged(credit[b], held, charge, clock)]
        /\ charged' = [charged EXCEPT ![b] = charged[b] + charge]
        /\ clock' = clock + 1
    BY <1>6 DEF RequestCommit, Commit
  <2> HIDE DEF charge, held, b
  <2>4. CASE a # b
    BY <1>1, <1>2, <2>3, <2>4 DEF TypeOK, HistoryOK
  <2>5. CASE a = b
    <3>1. credit'[a] = Charged(credit[a], held, charge, clock)
      BY <2>3, <2>5 DEF TypeOK
    <3>2. /\ credit'[a].accrued = credit[a].accrued + charge
          /\ credit'[a].firstAt = IF credit[a].firstAt = NoTime /\ charge > 0
                                  THEN clock ELSE credit[a].firstAt
      BY <3>1 DEF Charged
    <3>3. charged'[a] = charged[a] + charge
      BY <2>3, <2>5 DEF HistoryOK
    <3>4. QED
      BY <1>1, <1>2, <2>2, <2>3, <3>2, <3>3
  <2>6. QED
    BY <2>4, <2>5
<1>7. QED
  BY <1>3, <1>4, <1>5, <1>6 DEF Request

-----------------------------------------------------------------------------
(* The candidates of a sole flusher are up to date *)

\* Every candidate still to be flushed is of the accrual its account has now,
\* of at most its amount, and no account is listed twice.
FreshCandidates(f) ==
  /\ \A i \in DOMAIN todo[f] :
       LET b == todo[f][i]
       IN /\ b.firstAt = credit[b.account].firstAt
          /\ b.amount <= credit[b.account].accrued
  /\ \A i, j \in DOMAIN todo[f] :
       todo[f][i].account = todo[f][j].account => i = j

LEMMA Elements ==
  ASSUME NEW S, NEW s \in Seq(S)
  PROVE  \A i \in DOMAIN s : s[i] \in S
BY LenProperties

\* The list behind the current candidate, index by index.
LEMMA TailIndices ==
  ASSUME NEW S, NEW s \in Seq(S), s # <<>>
  PROVE  /\ \A i \in DOMAIN Tail(s) : i + 1 \in DOMAIN s /\ Tail(s)[i] = s[i + 1]
         /\ \A i \in DOMAIN Tail(s) : i \in Nat /\ i # 0
         /\ 1 \in DOMAIN s /\ Head(s) = s[1]
<1>1. /\ Tail(s) \in Seq(S) /\ Len(Tail(s)) = Len(s) - 1
      /\ \A i \in 1 .. Len(Tail(s)) : Tail(s)[i] = s[i + 1]
  BY HeadTailProperties
<1>2. /\ DOMAIN Tail(s) = 1 .. Len(Tail(s)) /\ DOMAIN s = 1 .. Len(s)
      /\ Len(s) \in Nat /\ Len(Tail(s)) \in Nat
  BY <1>1, LenProperties
<1>3. Head(s) = s[1]
  OBVIOUS
<1>4. Len(s) # 0
  BY EmptyIsZero
<1> DEFINE t == Tail(s)
           n == Len(t)
           m == Len(s)
<1>5. n = m - 1 /\ n \in Nat /\ m \in Nat /\ m # 0
  BY <1>1, <1>2, <1>4
<1>6. DOMAIN t = 1 .. n /\ DOMAIN s = 1 .. m /\ \A i \in 1 .. n : t[i] = s[i + 1]
  BY <1>1, <1>2
<1> HIDE DEF t, n, m
<1>7. /\ \A i \in DOMAIN t : i + 1 \in DOMAIN s /\ t[i] = s[i + 1]
      /\ \A i \in DOMAIN t : i \in Nat /\ i # 0
      /\ 1 \in DOMAIN s
  BY <1>5, <1>6
<1>8. QED
  BY <1>3, <1>7 DEF t

LEMMA FreshAfterRequest ==
  ASSUME WorkerInv, NEW f \in Flusher, FreshCandidates(f), Request
  PROVE  FreshCandidates(f)'
<1>1. UNCHANGED todo
  BY DEF Request, RequestReserve, RequestRelease, RequestCommit, flushVars
<1>2. ASSUME NEW i \in DOMAIN todo[f]
      PROVE  LET b == todo[f][i]
             IN /\ b.firstAt = credit'[b.account].firstAt
                /\ b.amount <= credit'[b.account].accrued
  <2> DEFINE b == todo[f][i]
             a == b.account
  <2>1. b \in BatchId
    BY LenProperties, <1>2 DEF WorkerInv, FlusherOK
  <2>2. a \in Account /\ b.firstAt \in Nat /\ b.amount \in Nat
    BY <2>1 DEF BatchId
  <2>3. b.firstAt = credit[a].firstAt /\ b.amount <= credit[a].accrued
    BY <1>2 DEF FreshCandidates
  <2>4. credit[a].firstAt # NoTime
    BY <2>2, <2>3 DEF NoTime
  <2>5. credit'[a].firstAt = credit[a].firstAt /\ credit'[a].accrued >= credit[a].accrued
    BY <2>2, <2>4, RequestEffect DEF WorkerInv
  <2>6. credit[a].accrued \in Nat /\ credit'[a].accrued \in Nat
    <3>1. TypeOK'
      BY WorkerInvStep DEF WorkerNext, WorkerInv
    <3>2. QED
      BY <2>2, <3>1 DEF WorkerInv, TypeOK, CreditRow
  <2>7. QED
    BY <2>2, <2>3, <2>5, <2>6
<1>3. QED
  BY <1>1, <1>2 DEF FreshCandidates

LEMMA FreshAfterNext ==
  ASSUME WorkerInv, NEW f \in Flusher, pc[f] \in Busy, FreshCandidates(f),
         todo'[f] = Tail(todo[f]),
         \A a \in Account \ {Head(todo[f]).account} : credit'[a] = credit[a]
  PROVE  FreshCandidates(f)'
<1>1. todo[f] \in Seq(BatchId) /\ todo[f] # <<>>
  BY DEF WorkerInv, FlusherOK, Busy
<1> DEFINE s == todo[f]
           t == Tail(s)
           h == Head(s)
<1>2. /\ \A i \in DOMAIN t : i + 1 \in DOMAIN s /\ t[i] = s[i + 1]
      /\ \A i \in DOMAIN t : i \in Nat /\ i # 0
      /\ 1 \in DOMAIN s /\ h = s[1]
  BY <1>1, TailIndices, Zenon
<1>3. \A i \in DOMAIN s : s[i].account \in Account
  <2>1. \A i \in DOMAIN s : s[i] \in BatchId
    BY <1>1, Elements, Zenon
  <2>2. QED
    BY <2>1 DEF BatchId
<1>4. todo'[f] = t /\ \A a \in Account \ {h.account} : credit'[a] = credit[a]
  OBVIOUS
<1>5. /\ \A i \in DOMAIN s : /\ s[i].firstAt = credit[s[i].account].firstAt
                             /\ s[i].amount <= credit[s[i].account].accrued
      /\ \A i, j \in DOMAIN s : s[i].account = s[j].account => i = j
  BY DEF FreshCandidates
<1> HIDE DEF s, t, h
<1>6. ASSUME NEW i \in DOMAIN t
      PROVE  /\ t[i].firstAt = credit'[t[i].account].firstAt
             /\ t[i].amount <= credit'[t[i].account].accrued
  <2>1. i + 1 \in DOMAIN s /\ t[i] = s[i + 1] /\ i + 1 # 1
    BY <1>2, <1>6
  <2>2. s[i + 1].account # h.account
    BY <1>2, <1>5, <2>1
  <2>3. credit'[t[i].account] = credit[t[i].account]
    BY <1>3, <1>4, <2>1, <2>2
  <2>4. QED
    BY <1>5, <2>1, <2>3
<1>7. ASSUME NEW i \in DOMAIN t, NEW j \in DOMAIN t, t[i].account = t[j].account
      PROVE  i = j
  <2>1. i + 1 = j + 1 /\ i \in Nat /\ j \in Nat
    BY <1>2, <1>5, <1>7
  <2>2. QED
    BY <2>1
<1>8. QED
  BY <1>4, <1>6, <1>7 DEF FreshCandidates

LEMMA FreshAfterSelect ==
  ASSUME WorkerInv, NEW f \in Flusher, Select(f)
  PROVE  FreshCandidates(f)'
<1>1. PICK order \in Orders(f) :
        todo' = [todo EXCEPT ![f] = [i \in DOMAIN order |-> Candidate(order[i])]]
  BY DEF Select
<1>2. todo'[f] = [i \in DOMAIN order |-> Candidate(order[i])]
  BY <1>1 DEF WorkerInv, FlusherOK
<1>3. UNCHANGED credit
  BY DEF Select, ledgerVars
<1>4. \A i, j \in DOMAIN order : i # j => order[i] # order[j]
  BY DEF Orders
<1>5. \A i \in DOMAIN order : credit[order[i]].accrued \in Nat
  <2>1. \A i \in DOMAIN order : order[i] \in Account
    BY DEF Orders, Flushable
  <2>2. QED
    BY <2>1 DEF WorkerInv, TypeOK, CreditRow
<1>6. QED
  BY <1>2, <1>3, <1>4, <1>5 DEF FreshCandidates, Candidate

\* A sole flusher's candidates stay up to date, whatever goes wrong.
LEMMA FreshStep ==
  ASSUME NEW f, Flusher = {f}, WorkerInv, FreshCandidates(f), [WorkerNext]_workerVars
  PROVE  FreshCandidates(f)'
<1>1. CASE UNCHANGED <<credit, todo>>
  BY <1>1 DEF FreshCandidates
<1>2. CASE Request
  BY <1>2, FreshAfterRequest
<1>3. CASE Collect
  <2>1. CASE Select(f)
    BY <2>1, FreshAfterSelect
  <2>2. CASE Check(f) \/ Flush(f) \/ Fail(f)
    <3>1. CASE UNCHANGED <<credit, todo>>
      BY <1>1, <3>1
    <3>2. CASE NextCandidate(f)
      <4>1. pc[f] \in Busy
        BY <2>2 DEF Check, Flush, Fail, Busy, Labels
      <4>2. todo'[f] = Tail(todo[f])
        BY <3>2 DEF NextCandidate, WorkerInv, FlusherOK
      <4>3. \A a \in Account \ {Head(todo[f]).account} : credit'[a] = credit[a]
        BY <2>2 DEF Check, Flush, Fail, FlushAccrued, ledgerVars, WorkerInv, TypeOK
      <4>4. QED
        BY <4>1, <4>2, <4>3, FreshAfterNext
    <3>3. QED
      BY <2>2, <3>1, <3>2 DEF Check, Flush, Fail, ledgerVars
  <2>3. QED
    BY <1>1, <1>3, <2>1, <2>2 DEF Collect, Tick, WithdrawRequested, Step, Probe,
      Reset, Submit, Send, Confirm, ledgerVars, Flusher
<1>4. CASE Environment
  BY <1>1, <1>4 DEF Environment, Mine, ClaimWithdraw, AccrualAges, RowGoesStale,
    ledgerVars, flushVars
<1>5. CASE Faults
  <2>1. CASE SendError(f) \/ ReceiptTimeout(f)
    BY <1>1, <2>1 DEF SendError, ReceiptTimeout, ledgerVars
  <2>2. CASE Abort(f) \/ Crash
    <3>1. todo'[f] = <<>>
      BY <2>2 DEF Abort, Crash, WorkerInv, FlusherOK
    <3>2. QED
      BY <3>1 DEF FreshCandidates
  <2>3. QED
    BY <1>5, <2>1, <2>2 DEF Faults
<1>6. CASE UNCHANGED workerVars
  BY <1>1, <1>6 DEF workerVars, ledgerVars, flushVars
<1>7. QED
  BY <1>2, <1>3, <1>4, <1>5, <1>6 DEF WorkerNext

-----------------------------------------------------------------------------
(* Nothing is collected twice, as long as every transaction that is sent is *)
(* waited for: no crash, no abandoned cycle and no lost receipt.            *)

Paid == {"confirm", "flush"}

\* What the chain has taken from a, and the ledger does not know yet.
InFlight(f, a) ==
  IF pc[f] \in Paid /\ Head(todo[f]).account = a THEN Head(todo[f]).amount ELSE 0

\* A transaction is on its way only while its sender waits for it; the
\* accrual an account has now was consumed only if its flush is under way;
\* and the books of every account agree up to what is in flight.
CleanBooks(f) ==
  /\ \A tx \in mempool : pc[f] = "wait" /\ tx.batch = Head(todo[f]) /\ tx.by = f
                         /\ tx.awaited
  /\ \A b \in used :
       /\ b.firstAt < clock
       /\ b.firstAt = credit[b.account].firstAt => pc[f] \in Paid /\ b = Head(todo[f])
  /\ \A a \in Account : collected[a] + credit[a].accrued <= charged[a] + InFlight(f, a)

SoleInv(f) == WorkerInv /\ AccruedIsStamped /\ FreshCandidates(f) /\ CleanBooks(f)

\* The current candidate, as FreshCandidates has it.
LEMMA FreshHead ==
  ASSUME NEW f \in Flusher, SoleInv(f), pc[f] \in Busy
  PROVE  LET b == Head(todo[f])
         IN /\ b \in BatchId
            /\ b.firstAt = credit[b.account].firstAt
            /\ b.firstAt < clock
            /\ b.amount <= credit[b.account].accrued
            /\ credit[b.account].accrued # 0
<1> DEFINE b == Head(todo[f])
           a == b.account
<1>1. todo[f] \in Seq(BatchId) /\ todo[f] # <<>>
  BY DEF SoleInv, WorkerInv, FlusherOK, Busy
<1>2. 1 \in DOMAIN todo[f] /\ b = todo[f][1]
  BY <1>1, TailIndices, Zenon
<1>3. b \in BatchId
  BY <1>1, HeadTailProperties, Zenon
<1>4. b.firstAt = credit[a].firstAt /\ b.amount <= credit[a].accrued
  BY <1>2 DEF SoleInv, FreshCandidates
<1>5. a \in Account /\ b.firstAt \in Nat
  BY <1>3 DEF BatchId
<1>6. credit[a].accrued > 0 /\ credit[a].firstAt < clock
  BY <1>4, <1>5 DEF SoleInv, AccruedIsStamped, NoTime
<1>7. QED
  BY <1>3, <1>4, <1>6

\* Steps that neither touch the books nor enter or leave Paid.
LEMMA BooksUntouched ==
  ASSUME NEW f, CleanBooks(f), UNCHANGED <<credit, clock, used, collected, charged>>,
         pc[f] \notin Paid \cup {"wait"}, pc'[f] \notin Paid, mempool' = mempool
  PROVE  CleanBooks(f)'
<1>1. mempool = {}
  BY DEF CleanBooks
<1>2. \A a : InFlight(f, a) = 0 /\ InFlight(f, a)' = 0
  BY DEF InFlight
<1>3. QED
  BY <1>1, <1>2 DEF CleanBooks

LEMMA BooksAfterRequest ==
  ASSUME NEW f \in Flusher, SoleInv(f), Request
  PROVE  CleanBooks(f)'
<1>1. UNCHANGED <<used, mempool, collected, pc, todo>>
  BY DEF Request, RequestReserve, RequestRelease, RequestCommit, chainVars, flushVars
<1>2. \A a \in Account : InFlight(f, a)' = InFlight(f, a)
  BY <1>1 DEF InFlight
<1>3. CleanBooks(f) /\ WorkerInv
  BY DEF SoleInv
<1>4. ASSUME NEW b \in used
      PROVE  /\ b.firstAt < clock'
             /\ b.firstAt = credit'[b.account].firstAt => pc[f] \in Paid /\ b = Head(todo[f])
  <2>1. b.firstAt \in Nat /\ b.account \in Account /\ clock \in Nat
    BY <1>3 DEF WorkerInv, ChainOK, BatchId, TypeOK
  <2>2. /\ credit[b.account].firstAt # NoTime =>
             credit'[b.account].firstAt = credit[b.account].firstAt
        /\ credit[b.account].firstAt = NoTime =>
             credit'[b.account].firstAt \in {NoTime, clock}
        /\ clock' >= clock
    BY <1>3, <2>1, RequestEffect DEF WorkerInv
  <2>3. WorkerInv'
    BY <1>3, WorkerInvStep DEF WorkerNext
  <2>4. clock' \in Nat
    BY <2>3 DEF WorkerInv, TypeOK
  <2>5. /\ b.firstAt < clock
        /\ b.firstAt = credit[b.account].firstAt => pc[f] \in Paid /\ b = Head(todo[f])
    BY <1>3 DEF CleanBooks
  <2>6. QED
    BY <2>1, <2>2, <2>4, <2>5 DEF NoTime
<1>5. ASSUME NEW a \in Account
      PROVE  collected[a] + credit'[a].accrued <= charged'[a] + InFlight(f, a)
  <2>1. credit'[a].accrued - credit[a].accrued = charged'[a] - charged[a]
    BY <1>3, RequestEffect DEF WorkerInv
  <2>2. collected[a] + credit[a].accrued <= charged[a] + InFlight(f, a)
    BY <1>3 DEF CleanBooks
  <2>3. WorkerInv'
    BY <1>3, WorkerInvStep DEF WorkerNext
  <2>4. /\ collected[a] \in Nat /\ charged[a] \in Nat /\ charged'[a] \in Nat
        /\ credit[a].accrued \in Nat /\ credit'[a].accrued \in Nat
    BY <1>3, <2>3 DEF WorkerInv, ChainOK, HistoryOK, TypeOK, CreditRow
  <2>5. InFlight(f, a) \in Nat
    <3>1. CASE pc[f] \in Paid
      <4>1. Head(todo[f]) \in used
        BY <1>3, <3>1 DEF WorkerInv, RecordInv, FlusherKnows, Paid
      <4>2. QED
        BY <1>3, <4>1 DEF InFlight, WorkerInv, ChainOK, BatchId
    <3>2. QED
      BY <3>1 DEF InFlight
  <2>6. QED
    BY <2>1, <2>2, <2>4, <2>5
<1>6. QED
  BY <1>1, <1>2, <1>3, <1>4, <1>5 DEF CleanBooks

\* A mined batch is the one its sender waits for: its amount moves from owed
\* to in flight.
LEMMA BooksAfterMine ==
  ASSUME NEW f \in Flusher, SoleInv(f), NEW tx \in mempool, Mine(tx)
  PROVE  CleanBooks(f)'
<1> DEFINE b == Head(todo[f])
           a0 == b.account
<1>1. CleanBooks(f) /\ ChainOK /\ HistoryOK /\ TypeOK /\ FlusherOK
  BY DEF SoleInv, WorkerInv
<1>2. pc[f] = "wait" /\ tx.batch = b /\ tx.by = f /\ tx.awaited
  BY <1>1 DEF CleanBooks
<1>3. mempool' = {}
  <2>1. ASSUME NEW other \in mempool PROVE other = tx
    BY <1>1, <1>2 DEF CleanBooks, ChainOK
  <2>2. QED
    BY <2>1 DEF Mine
<1>4. UNCHANGED <<credit, clock, charged, todo>>
  BY DEF Mine, ledgerVars, requestVars
<1>5. \A a : InFlight(f, a) = 0
  BY <1>2 DEF InFlight, Paid
<1>6. CASE Consumable(b)
  <2>1. /\ used' = used \cup {b}
        /\ collected' = [collected EXCEPT ![a0] = @ + b.amount]
        /\ pc'[f] = "confirm"
    BY <1>1, <1>2, <1>6 DEF Mine, Awaited, FlusherOK
  <2>2. /\ b \in BatchId /\ b.firstAt = credit[a0].firstAt /\ b.firstAt < clock
    BY <1>2, FreshHead DEF Busy, Labels
  <2>3. a0 \in Account /\ b.amount \in Nat
    BY <2>2 DEF BatchId
  <2>4. \A a : InFlight(f, a)' = IF a0 = a THEN b.amount ELSE 0
    BY <1>4, <2>1 DEF InFlight, Paid
  <2>5. ASSUME NEW a \in Account
        PROVE  collected'[a] + credit[a].accrued <= charged[a] + InFlight(f, a)'
    <3>1. collected[a] + credit[a].accrued <= charged[a]
      BY <1>1, <1>5 DEF CleanBooks, HistoryOK
    <3>2. collected'[a] = IF a0 = a THEN collected[a] + b.amount ELSE collected[a]
      BY <1>1, <2>1 DEF ChainOK
    <3>3. collected[a] \in Nat /\ charged[a] \in Nat /\ credit[a].accrued \in Nat
      BY <1>1 DEF ChainOK, HistoryOK, TypeOK, CreditRow
    <3>4. CASE a0 = a
      BY <2>3, <2>4, <3>1, <3>2, <3>3, <3>4
    <3>5. CASE a0 # a
      BY <2>4, <3>1, <3>2, <3>3, <3>5
    <3>6. QED
      BY <3>4, <3>5
  <2>6. \A x \in used' :
          /\ x.firstAt < clock
          /\ x.firstAt = credit[x.account].firstAt => x = b
    BY <1>1, <1>2, <2>1, <2>2 DEF CleanBooks, Paid
  <2>7. QED
    BY <1>3, <1>4, <2>1, <2>5, <2>6 DEF CleanBooks, Paid
<1>7. CASE ~Consumable(b)
  <2>1. UNCHANGED <<used, collected>> /\ pc'[f] = "failed"
    BY <1>1, <1>2, <1>7 DEF Mine, Awaited, FlusherOK
  <2>2. \A a : InFlight(f, a)' = 0
    BY <2>1 DEF InFlight, Paid
  <2>3. QED
    BY <1>1, <1>2, <1>3, <1>4, <1>5, <2>1, <2>2 DEF CleanBooks, Paid
<1>8. QED
  BY <1>6, <1>7

\* The flush writes off what was in flight, and possibly more.
LEMMA BooksAfterFlush ==
  ASSUME NEW f \in Flusher, SoleInv(f), Flush(f)
  PROVE  CleanBooks(f)'
<1> DEFINE b == Head(todo[f])
           a0 == b.account
<1>1. CleanBooks(f) /\ ChainOK /\ HistoryOK /\ TypeOK /\ FlusherOK
  BY DEF SoleInv, WorkerInv
<1>2. pc[f] = "flush" /\ pc'[f] \in {"check", "idle"}
  BY <1>1, NextMoves DEF Flush
<1>3. /\ b \in BatchId
      /\ b.amount <= credit[a0].accrued /\ credit[a0].accrued # 0
  BY <1>2, FreshHead DEF Busy, Labels
<1>4. a0 \in Account /\ b.amount \in Nat
  BY <1>3 DEF BatchId
<1>5. /\ credit' = [credit EXCEPT ![a0] = Flushed(credit[a0])]
      /\ UNCHANGED <<clock, used, mempool, collected, charged>>
  BY <1>3 DEF Flush, FlushAccrued, chainVars, requestVars
<1>6. /\ credit'[a0].accrued = 0 /\ credit'[a0].firstAt = NoTime
      /\ \A a \in Account \ {a0} : credit'[a] = credit[a]
  BY <1>1, <1>4, <1>5 DEF TypeOK, Flushed, CreditRow
<1>7. mempool = {}
  BY <1>1, <1>2 DEF CleanBooks
<1>8. ASSUME NEW x \in used
      PROVE  x.firstAt < clock /\ x.firstAt # credit'[x.account].firstAt
  <2>1. x.firstAt \in Nat /\ x.account \in Account
    BY <1>1 DEF ChainOK, BatchId
  <2>2. x.firstAt < clock /\ (x.firstAt = credit[x.account].firstAt => x = b)
    BY <1>1 DEF CleanBooks
  <2>3. CASE x.account = a0
    BY <1>6, <2>1, <2>2, <2>3 DEF NoTime
  <2>4. CASE x.account # a0
    BY <1>6, <2>1, <2>2, <2>4
  <2>5. QED
    BY <2>3, <2>4
<1>9. ASSUME NEW a \in Account
      PROVE  collected[a] + credit'[a].accrued <= charged[a] + InFlight(f, a)'
  <2>1. InFlight(f, a)' = 0
    BY <1>2 DEF InFlight, Paid
  <2>2. collected[a] + credit[a].accrued <= charged[a] + InFlight(f, a)
    BY <1>1 DEF CleanBooks
  <2>3. collected[a] \in Nat /\ charged[a] \in Nat /\ credit[a].accrued \in Nat
    BY <1>1 DEF ChainOK, HistoryOK, TypeOK, CreditRow
  <2>4. CASE a = a0
    <3>1. InFlight(f, a) = b.amount
      BY <1>2, <2>4 DEF InFlight, Paid
    <3>2. credit'[a].accrued = 0 /\ b.amount <= credit[a].accrued
      BY <1>3, <1>6, <2>4
    <3>3. QED
      BY <1>4, <2>1, <2>2, <2>3, <3>1, <3>2
  <2>5. CASE a # a0
    <3>1. InFlight(f, a) = 0 /\ credit'[a].accrued = credit[a].accrued
      BY <1>6, <2>5 DEF InFlight
    <3>2. QED
      BY <2>1, <2>2, <2>3, <3>1
  <2>6. QED
    BY <2>4, <2>5
<1>10. QED
  BY <1>5, <1>7, <1>8, <1>9 DEF CleanBooks

\* Outside Paid the current candidate has not been consumed: neither the
\* recovery nor the simulation of writeContract finds it used.
LEMMA CurrentIsUnpaid ==
  ASSUME NEW f \in Flusher, SoleInv(f), pc[f] \in Busy \ Paid
  PROVE  Head(todo[f]) \notin used
<1>1. LET b == Head(todo[f]) IN b.firstAt = credit[b.account].firstAt
  BY FreshHead
<1>2. QED
  BY <1>1 DEF SoleInv, CleanBooks

LEMMA BooksStep ==
  ASSUME NEW f, Flusher = {f}, Fault \subseteq {"send_error"},
         SoleInv(f), [WorkerNext]_workerVars
  PROVE  CleanBooks(f)'
<1>1. CleanBooks(f) /\ FlusherOK /\ f \in Flusher
  BY DEF SoleInv, WorkerInv
<1>2. CASE UNCHANGED <<credit, clock, used, mempool, collected, charged, pc, todo>>
  BY <1>1, <1>2 DEF CleanBooks, InFlight
<1>3. CASE Request
  BY <1>1, <1>3, BooksAfterRequest
<1>4. CASE Collect
  <2>1. CASE \/ Tick(f) \/ \E w \in Wallet : WithdrawRequested(f, w)
             \/ Select(f) \/ Reset(f) \/ Submit(f)
    <3>1. pc[f] \in {"idle", "select", "reset", "submit"}
      BY <2>1 DEF Tick, WithdrawRequested, Select, Reset, Submit
    <3>2. pc'[f] \in {"idle", "select", "check", "submit", "send"}
      BY <1>1, <2>1, GotoMoves DEF Tick, WithdrawRequested, Select, Reset, Submit
    <3>3. UNCHANGED <<credit, clock, used, mempool, collected, charged>>
      BY <2>1 DEF Tick, WithdrawRequested, Select, Reset, Submit, ledgerVars,
        chainVars, requestVars
    <3>4. QED
      BY <1>1, <3>1, <3>2, <3>3, BooksUntouched DEF Paid
  <2>2. CASE Check(f) \/ Fail(f)
    <3>1. pc[f] \in {"check", "failed"}
      BY <2>2 DEF Check, Fail
    <3>2. pc'[f] \in {"check", "idle", "probe", "submit"}
      BY <1>1, <2>2, GotoMoves, NextMoves DEF Check, Fail
    <3>3. UNCHANGED <<credit, clock, used, mempool, collected, charged>>
      BY <2>2 DEF Check, Fail, ledgerVars, chainVars, requestVars
    <3>4. QED
      BY <1>1, <3>1, <3>2, <3>3, BooksUntouched DEF Paid
  <2>3. CASE Probe(f)
    <3>1. Head(todo[f]) \notin used
      BY <1>1, <2>3, CurrentIsUnpaid DEF Probe, Busy, Labels, Paid
    <3>2. pc[f] = "probe" /\ pc'[f] = "reset"
      BY <1>1, <2>3, <3>1, GotoMoves DEF Probe
    <3>3. UNCHANGED <<credit, clock, used, mempool, collected, charged>>
      BY <2>3 DEF Probe, ledgerVars, chainVars, requestVars
    <3>4. QED
      BY <1>1, <3>2, <3>3, BooksUntouched DEF Paid
  <2>4. CASE Send(f)
    <3> DEFINE b == Head(todo[f])
    <3>1. pc[f] = "send" /\ UNCHANGED <<credit, clock, used, collected, charged, todo>>
      BY <2>4 DEF Send, ledgerVars, requestVars
    <3>2. b \notin used
      BY <1>1, <3>1, CurrentIsUnpaid DEF Busy, Labels, Paid
    <3>3. CASE Consumable(b)
      <4>1. pc'[f] = "wait" /\ mempool' = mempool \cup {[batch |-> b, by |-> f, awaited |-> TRUE]}
        BY <1>1, <2>4, <3>2, <3>3, GotoMoves DEF Send
      <4>2. mempool = {}
        BY <1>1, <3>1 DEF CleanBooks
      <4>3. \A a : InFlight(f, a) = 0 /\ InFlight(f, a)' = 0
        BY <3>1, <4>1 DEF InFlight, Paid
      <4>4. \A tx \in mempool' : tx.batch = b /\ tx.by = f /\ tx.awaited
        BY <4>1, <4>2
      <4>5. \A x \in used : x.firstAt < clock /\ x.firstAt # credit[x.account].firstAt
        BY <1>1, <3>1 DEF CleanBooks, Paid
      <4>6. QED
        BY <1>1, <3>1, <4>1, <4>3, <4>4, <4>5 DEF CleanBooks
    <3>4. CASE ~Consumable(b)
      <4>1. pc'[f] = "failed" /\ mempool' = mempool
        BY <1>1, <2>4, <3>2, <3>4, GotoMoves DEF Send
      <4>2. QED
        BY <1>1, <3>1, <4>1, BooksUntouched DEF Paid
    <3>5. QED
      BY <3>3, <3>4
  <2>5. CASE Confirm(f)
    <3>1. pc[f] = "confirm" /\ pc'[f] = "flush"
      BY <1>1, <2>5, GotoMoves DEF Confirm
    <3>2. UNCHANGED <<credit, clock, used, mempool, collected, charged, todo>>
      BY <2>5 DEF Confirm, ledgerVars, chainVars, requestVars
    <3>3. \A a : InFlight(f, a)' = InFlight(f, a)
      BY <3>1, <3>2 DEF InFlight, Paid
    <3>4. mempool = {}
      BY <1>1, <3>1 DEF CleanBooks
    <3>5. QED
      BY <1>1, <3>1, <3>2, <3>3, <3>4 DEF CleanBooks, Paid
  <2>6. CASE Flush(f)
    BY <1>1, <2>6, BooksAfterFlush
  <2>7. QED
    BY <1>4, <2>1, <2>2, <2>3, <2>4, <2>5, <2>6 DEF Collect, Step, Flusher
<1>5. CASE Environment
  <2>1. ASSUME NEW tx \in mempool, Mine(tx) PROVE CleanBooks(f)'
    BY <1>1, <2>1, BooksAfterMine
  <2>2. QED
    BY <1>2, <1>5, <2>1 DEF Environment, ClaimWithdraw, AccrualAges, RowGoesStale,
      ledgerVars, chainVars, flushVars, requestVars
<1>6. CASE Faults
  <2>1. SendError(f)
    BY <1>6 DEF Faults, SendError, ReceiptTimeout, Abort, Crash, Faulty
  <2>2. pc[f] = "send" /\ pc'[f] = "failed"
    BY <1>1, <2>1, GotoMoves DEF SendError
  <2>3. UNCHANGED <<credit, clock, used, mempool, collected, charged>>
    BY <2>1 DEF SendError, ledgerVars, chainVars, requestVars
  <2>4. QED
    BY <1>1, <2>2, <2>3, BooksUntouched DEF Paid
<1>7. CASE UNCHANGED workerVars
  BY <1>2, <1>7 DEF workerVars, ledgerVars, chainVars, flushVars, requestVars
<1>8. QED
  BY <1>3, <1>4, <1>5, <1>6, <1>7 DEF WorkerNext

\* consume-service.ts runs one cycle at a time: with no other flusher and no
\* fault but failed calls, the chain never takes more from a wallet than its
\* requests were charged, whatever is charged or withdrawn meanwhile.
THEOREM SoleFlusherNeverOvercharges ==
  ASSUME NEW f, Flusher = {f}, Fault \subseteq {"send_error"}
  PROVE  WorkerSpec => []NeverOvercharged
<1>1. WorkerInit => SoleInv(f)
  <2>1. WorkerInit => AccruedIsStamped /\ FreshCandidates(f)
    BY DEF WorkerInit, AccruedIsStamped, FreshCandidates, ZeroRow, NoTime
  <2>2. WorkerInit => CleanBooks(f)
    BY DEF WorkerInit, CleanBooks, InFlight, Paid, ZeroRow
  <2>3. QED
    BY <2>1, <2>2, WorkerInvInit DEF SoleInv
<1>2. SoleInv(f) /\ [WorkerNext]_workerVars => SoleInv(f)'
  <2> SUFFICES ASSUME SoleInv(f), [WorkerNext]_workerVars PROVE SoleInv(f)'
    OBVIOUS
  <2>1. WorkerInv' /\ FreshCandidates(f)'
    BY WorkerInvStep, FreshStep DEF SoleInv
  <2>2. AccruedIsStamped'
    BY WorkerStepsLedger, StampStep DEF SoleInv, WorkerInv
  <2>3. CleanBooks(f)'
    BY BooksStep
  <2>4. QED
    BY <2>1, <2>2, <2>3 DEF SoleInv
<1>3. SoleInv(f) => NeverOvercharged
  <2> SUFFICES ASSUME SoleInv(f), NEW a \in Account
               PROVE  collected[a] <= charged[a]
    BY DEF NeverOvercharged
  <2> DEFINE b == Head(todo[f])
  <2>1. collected[a] + credit[a].accrued <= charged[a] + InFlight(f, a)
    BY DEF SoleInv, CleanBooks
  <2>2. collected[a] \in Nat /\ charged[a] \in Nat /\ credit[a].accrued \in Nat
    BY DEF SoleInv, WorkerInv, ChainOK, HistoryOK, TypeOK, CreditRow
  <2>3. CASE pc[f] \in Paid /\ b.account = a
    <3>1. b \in BatchId /\ b.amount <= credit[a].accrued
      BY <2>3, FreshHead DEF Paid, Busy, Labels
    <3>2. b.amount \in Nat /\ InFlight(f, a) = b.amount
      BY <2>3, <3>1 DEF BatchId, InFlight
    <3>3. QED
      BY <2>1, <2>2, <3>1, <3>2
  <2>4. CASE ~(pc[f] \in Paid /\ b.account = a)
    BY <2>1, <2>2, <2>4 DEF InFlight
  <2>5. QED
    BY <2>3, <2>4
<1>4. QED
  BY <1>1, <1>2, <1>3, PTL DEF WorkerSpec

-----------------------------------------------------------------------------
(***************************************************************************)
(* One charge: as long as an account was charged only once there is only    *)
(* one batch id for it, and nothing goes wrong with it, for any number of   *)
(* flushers, crashes and lost receipts.                                     *)
(***************************************************************************)

Listed(f) == {todo[f][i] : i \in DOMAIN todo[f]}

\* The batches of an account that are out: consumed, sent or in the list of
\* a flusher.
Out(a) ==
  {b \in used \cup {tx.batch : tx \in mempool} \cup UNION {Listed(f) : f \in Flusher} :
     b.account = a}

Lone(a) == \A r, s \in Charges(a) : r = s

OnlyBatch(a, t) == [account |-> a, firstAt |-> t, amount |-> charged[a]]

\* The charge of a has one batch, stamped t: nothing else of a is out, the
\* chain has taken the charge exactly when it has consumed the batch, and the
\* accrual is the charge, or was written off after that.
OneBatch(a, t) ==
  LET b == OnlyBatch(a, t)
  IN /\ Out(a) \subseteq {b}
     /\ collected[a] = IF b \in used THEN charged[a] ELSE 0
     /\ \/ credit[a].accrued = charged[a] /\ (charged[a] # 0 => credit[a].firstAt = t)
        \/ credit[a].accrued = 0 /\ b \in used

ChargeInv ==
  /\ IsFiniteSet(DOMAIN reservations)
  /\ \A a \in Account : Charges(a) = {} => charged[a] = 0
  /\ \A a \in Account : \A b \in Out(a) : b.amount # 0
  /\ \A a \in Account : Lone(a) => \E t \in Nat : OneBatch(a, t)

\* What a flusher lists: its current candidate, and nothing more when it goes
\* on to the next.
LEMMA ListOf ==
  ASSUME FlusherOK, NEW f \in Flusher, pc[f] \in Busy
  PROVE  /\ Head(todo[f]) \in Listed(f)
         /\ \A i \in DOMAIN Tail(todo[f]) : Tail(todo[f])[i] \in Listed(f)
<1>1. todo[f] \in Seq(BatchId) /\ todo[f] # <<>>
  BY DEF FlusherOK, Busy
<1>2. /\ \A i \in DOMAIN Tail(todo[f]) :
           i + 1 \in DOMAIN todo[f] /\ Tail(todo[f])[i] = todo[f][i + 1]
      /\ 1 \in DOMAIN todo[f] /\ Head(todo[f]) = todo[f][1]
  BY <1>1, TailIndices, Zenon
<1>3. QED
  BY <1>2 DEF Listed

\* Only a new selection brings new batches out.
LEMMA ListsShrink ==
  ASSUME FlusherOK, [WorkerNext]_workerVars, NEW f \in Flusher, ~ Select(f)
  PROVE  Listed(f)' \subseteq Listed(f)
<1>1. CASE todo'[f] = todo[f]
  BY <1>1 DEF Listed
<1>2. CASE todo'[f] = <<>>
  BY <1>2 DEF Listed
<1>3. ASSUME NEW g \in Flusher, Check(g) \/ Flush(g) \/ Fail(g), NextCandidate(g)
      PROVE  Listed(f)' \subseteq Listed(f)
  <2>1. CASE g # f
    BY <1>1, <1>3, <2>1, NextMoves
  <2>2. CASE g = f
    <3>1. pc[f] \in Busy
      BY <1>3, <2>2 DEF Check, Flush, Fail, Busy, Labels
    <3>2. todo'[f] = Tail(todo[f])
      BY <1>3, <2>2 DEF NextCandidate, FlusherOK
    <3>3. QED
      BY <3>1, <3>2, ListOf DEF Listed
  <2>3. QED
    BY <2>1, <2>2
<1>4. ASSUME NEW g \in Flusher, Select(g)
      PROVE  todo'[f] = todo[f]
  BY <1>4 DEF Select, FlusherOK
<1>5. ASSUME NEW g \in Flusher, Abort(g)
      PROVE  todo'[f] \in {todo[f], <<>>}
  BY <1>5 DEF Abort, FlusherOK
<1>6. CASE Crash
  BY <1>2, <1>6 DEF Crash
<1>7. CASE UNCHANGED todo
  BY <1>1, <1>7
<1>8. CASE Request \/ Environment
  BY <1>7, <1>8 DEF Request, RequestReserve, RequestRelease, RequestCommit, Environment,
    Mine, ClaimWithdraw, AccrualAges, RowGoesStale, flushVars
<1>9. CASE Collect
  BY <1>1, <1>3, <1>4, <1>7, <1>9 DEF Collect, Tick, WithdrawRequested, Step, Check,
    Probe, Reset, Submit, Send, Confirm, Flush, Fail, Flusher
<1>10. CASE Faults
  BY <1>1, <1>2, <1>5, <1>6, <1>7, <1>10 DEF Faults, SendError, ReceiptTimeout
<1>11. QED
  BY <1>7, <1>8, <1>9, <1>10 DEF WorkerNext, workerVars, flushVars

LEMMA OutShrinks ==
  ASSUME FlusherOK, ChainOK, [WorkerNext]_workerVars, \A f \in Flusher : ~ Select(f), NEW a
  PROVE  Out(a)' \subseteq Out(a)
<1>1. \A f \in Flusher : Listed(f)' \subseteq Listed(f)
  BY ListsShrink
<1>2. ASSUME NEW tx \in mempool'
      PROVE  \/ \E sent \in mempool : sent.batch = tx.batch
             \/ \E f \in Flusher : tx.batch \in Listed(f)
  <2>1. ASSUME NEW txs, mempool' = Abandoned(txs)
        PROVE  \E sent \in mempool : sent.batch = tx.batch
    BY <1>2, <2>1, AbandonedKeeps
  <2>2. ASSUME NEW f \in Flusher, Send(f)
        PROVE  tx \in mempool \/ tx.batch \in Listed(f)
    <3>1. Head(todo[f]) \in Listed(f)
      BY <2>2, ListOf DEF Send, Busy, Labels
    <3>2. QED
      BY <1>2, <2>2, <3>1 DEF Send
  <2>3. QED
    BY <1>2, <2>1, <2>2 DEF WorkerNext, Request, RequestReserve, RequestRelease,
      RequestCommit, Collect, Tick, WithdrawRequested, Step, Select, Check, Probe,
      Reset, Submit, Confirm, Flush, Fail, Environment, Mine, ClaimWithdraw,
      AccrualAges, RowGoesStale, Faults, SendError, ReceiptTimeout, Abort, Crash,
      workerVars, chainVars, Flusher
<1>3. used' \subseteq used \cup {tx.batch : tx \in mempool}
  BY DEF WorkerNext, Request, RequestReserve, RequestRelease, RequestCommit,
    Collect, Tick, WithdrawRequested, Step, Select, Check, Probe, Reset, Submit,
    Send, Confirm, Flush, Fail, Environment, Mine, ClaimWithdraw, AccrualAges,
    RowGoesStale, Faults, SendError, ReceiptTimeout, Abort, Crash, workerVars,
    chainVars
<1>4. QED
  BY <1>1, <1>2, <1>3 DEF Out

\* Steps other than a commit charge nobody.
LEMMA NobodyCharged ==
  ASSUME TypeOK, FlusherOK, [WorkerNext]_workerVars,
         \A r \in Reservation, total \in Amount : ~ RequestCommit(r, total)
  PROVE  /\ charged' = charged
         /\ \A a \in Account : Charges(a)' = Charges(a)
<1>1. charged' = charged
  BY DEF WorkerNext, Request, RequestReserve, RequestRelease, Collect, Tick,
    WithdrawRequested, Step, Select, Check, Probe, Reset, Submit, Send, Confirm,
    Flush, Fail, Environment, Mine, ClaimWithdraw, AccrualAges, RowGoesStale, Faults,
    SendError, ReceiptTimeout, Abort, Crash, workerVars, requestVars
<1>2. CASE UNCHANGED reservations
  BY <1>1, <1>2 DEF Charges
<1>3. ASSUME NEW r \in Reservation, NEW b \in Account, NEW amount \in Amount,
             Reserve(r, b, amount), NEW a \in Account
      PROVE  Charges(a)' = Charges(a)
  BY <1>3 DEF Reserve, Charges
<1>4. ASSUME NEW r \in Reservation, Release(r, "released_error"), NEW a \in Account
      PROVE  Charges(a)' = Charges(a)
  BY <1>4 DEF Release, Close, Charges, Open, TypeOK, ReservationRow
<1>5. CASE Request
  BY <1>1, <1>3, <1>4, <1>5 DEF Request, RequestReserve, RequestRelease
<1>6. CASE ~ Request
  BY <1>2, <1>6 DEF WorkerNext, Collect, Tick, WithdrawRequested, Step, Select, Check,
    Probe, Reset, Submit, Send, Confirm, Flush, FlushAccrued, Fail, Environment, Mine,
    ClaimWithdraw, AccrualAges, RowGoesStale, Faults, SendError, ReceiptTimeout, Abort,
    Crash, workerVars, ledgerVars
<1>7. QED
  BY <1>5, <1>6

LEMMA ReservationsStayFinite ==
  ASSUME TypeOK, [Next]_ledgerVars, IsFiniteSet(DOMAIN reservations)
  PROVE  IsFiniteSet(DOMAIN reservations')
<1>1. ASSUME NEW r, DOMAIN reservations' = DOMAIN reservations \cup {r}
      PROVE  IsFiniteSet(DOMAIN reservations')
  BY <1>1, FS_AddElement
<1>2. CASE DOMAIN reservations' = DOMAIN reservations
  BY <1>2
<1>3. QED
  BY <1>1, <1>2 DEF Next, Reserve, Release, Commit, Close, Hydrate, FlushAccrued,
    ledgerVars

\* An account the step leaves alone.
LEMMA QuietAccount ==
  ASSUME NEW a, NEW t, OneBatch(a, t), Out(a)' \subseteq Out(a),
         charged'[a] = charged[a], collected'[a] = collected[a],
         OnlyBatch(a, t) \in used' <=> OnlyBatch(a, t) \in used,
         credit'[a].accrued = credit[a].accrued, credit'[a].firstAt = credit[a].firstAt
  PROVE  OneBatch(a, t)'
<1>1. OnlyBatch(a, t)' = OnlyBatch(a, t)
  BY DEF OnlyBatch
<1>2. QED
  BY <1>1 DEF OneBatch

\* A selection lists the accrual an account has now.
LEMMA OutAfterSelect ==
  ASSUME FlusherOK, TypeOK, NEW f \in Flusher, Select(f), NEW a,
         NEW b \in Out(a)', b \notin Out(a)
  PROVE  /\ b.account = a /\ b.firstAt = credit[a].firstAt
         /\ b.amount = credit[a].accrued /\ credit[a].accrued # 0
<1>1. PICK order \in Orders(f) :
        todo' = [todo EXCEPT ![f] = [i \in DOMAIN order |-> Candidate(order[i])]]
  BY DEF Select
<1>2. /\ todo'[f] = [i \in DOMAIN order |-> Candidate(order[i])]
      /\ \A g \in Flusher \ {f} : todo'[g] = todo[g]
  BY <1>1 DEF FlusherOK
<1>3. UNCHANGED <<used, mempool>>
  BY DEF Select, chainVars
<1>4. b.account = a /\ b \in Listed(f)'
  BY <1>2, <1>3 DEF Out, Listed
<1>5. PICK i \in DOMAIN order : b = Candidate(order[i])
  BY <1>2, <1>4 DEF Listed
<1>6. order[i] \in Flushable(f)
  BY DEF Orders
<1>7. order[i] \in Account /\ credit[order[i]].accrued > 0
  BY <1>6 DEF Flushable
<1>8. credit[order[i]].accrued # 0
  BY <1>7 DEF TypeOK, CreditRow
<1>9. QED
  BY <1>4, <1>5, <1>8 DEF Candidate

LEMMA OneAfterSelect ==
  ASSUME WorkerInv, NEW f \in Flusher, Select(f), NEW a \in Account, NEW t,
         OneBatch(a, t)
  PROVE  OneBatch(a, t)'
<1> DEFINE b == OnlyBatch(a, t)
<1>1. UNCHANGED <<credit, charged, collected, used>>
  BY DEF Select, ledgerVars, chainVars, requestVars
<1>2. OnlyBatch(a, t)' = b
  BY <1>1 DEF OnlyBatch
<1>3. ASSUME NEW x \in Out(a)', x \notin Out(a)
      PROVE  x = b
  <2>1. /\ x.account = a /\ x.firstAt = credit[a].firstAt
        /\ x.amount = credit[a].accrued /\ credit[a].accrued # 0
    BY <1>3, OutAfterSelect DEF WorkerInv
  <2>2. credit[a].accrued = charged[a] /\ credit[a].firstAt = t
    BY <2>1 DEF OneBatch
  <2>3. x \in BatchId
    <3>1. FlusherOK' /\ ChainOK'
      BY WorkerInvStep DEF WorkerNext, Collect, Step, WorkerInv, Flusher
    <3>2. ASSUME NEW g \in Flusher PROVE Listed(g)' \subseteq BatchId
      <4>1. todo'[g] \in Seq(BatchId)
        BY <3>1 DEF FlusherOK
      <4>2. QED
        BY <4>1, Elements DEF Listed
    <3>3. QED
      BY <3>1, <3>2 DEF Out, ChainOK
  <2>4. QED
    BY <2>1, <2>2, <2>3 DEF OnlyBatch, BatchId
<1>4. QED
  BY <1>1, <1>2, <1>3 DEF OneBatch

\* The chain consumes the only batch: it has taken the charge.
LEMMA OneAfterMine ==
  ASSUME WorkerInv, NEW tx \in mempool, Mine(tx), NEW a \in Account, NEW t,
         OneBatch(a, t)
  PROVE  OneBatch(a, t)'
<1> DEFINE b == OnlyBatch(a, t)
           c == tx.batch
<1>0. UNCHANGED <<credit, charged>> /\ FlusherOK /\ ChainOK /\ HistoryOK
  BY DEF Mine, ledgerVars, requestVars, WorkerInv
<1>1. Out(a)' \subseteq Out(a)
  <2>1. [WorkerNext]_workerVars
    BY DEF WorkerNext, Environment
  <2>2. \A f \in Flusher : ~ Select(f)
    <3>1. mempool' # mempool
      BY DEF Mine
    <3>2. QED
      BY <3>1 DEF Select, chainVars
  <2>3. QED
    BY <1>0, <2>1, <2>2, OutShrinks
<1>2. OnlyBatch(a, t)' = b /\ b.account = a
  BY <1>0 DEF OnlyBatch
<1>3. CASE UNCHANGED <<used, collected>>
  BY <1>0, <1>1, <1>3, QuietAccount
<1>4. CASE Consumable(c) /\ c.account # a
  <2>1. collected'[a] = collected[a] /\ used' = used \cup {c}
    BY <1>0, <1>4 DEF Mine, ChainOK
  <2>2. b \in used' <=> b \in used
    BY <1>2, <1>4, <2>1
  <2>3. QED
    BY <1>0, <1>1, <2>1, <2>2, QuietAccount
<1>5. CASE Consumable(c) /\ c.account = a
  <2>1. /\ used' = used \cup {c} /\ c \notin used
        /\ collected'[a] = collected[a] + c.amount
    BY <1>0, <1>5 DEF Mine, ChainOK, Consumable
  <2>2. c = b
    BY <1>5 DEF Out, OneBatch
  <2>3. collected[a] = 0 /\ c.amount = charged[a] /\ charged[a] \in Nat
    BY <1>0, <2>1, <2>2 DEF OneBatch, OnlyBatch, HistoryOK
  <2>4. b \in used' /\ collected'[a] = charged[a]
    BY <2>1, <2>2, <2>3
  <2>5. QED
    BY <1>0, <1>1, <1>2, <2>4 DEF OneBatch
<1>6. QED
  BY <1>3, <1>4, <1>5 DEF Mine

\* The flush writes the charge off after the chain has taken it.
LEMMA OneAfterFlush ==
  ASSUME WorkerInv, NEW f \in Flusher, Flush(f), NEW a \in Account, NEW t,
         OneBatch(a, t)
  PROVE  OneBatch(a, t)'
<1> DEFINE b == OnlyBatch(a, t)
           c == Head(todo[f])
<1>0. /\ UNCHANGED <<charged, collected, used, mempool>>
      /\ FlusherOK /\ TypeOK
      /\ pc[f] = "flush" /\ c \in used
  BY DEF Flush, requestVars, chainVars, WorkerInv, RecordInv, FlusherKnows
<1>1. Out(a)' \subseteq Out(a)
  <2>1. [WorkerNext]_workerVars
    BY DEF WorkerNext, Collect, Step
  <2>2. \A g \in Flusher : Listed(g)' \subseteq Listed(g)
    <3>1. ASSUME NEW g \in Flusher, Select(g) PROVE FALSE
      <4>1. g = f
        BY <1>0, <3>1, NextMoves DEF Flush, Select, Goto, FlusherOK
      <4>2. QED
        BY <1>0, <3>1, <4>1 DEF Select
    <3>2. QED
      BY <1>0, <2>1, <3>1, ListsShrink
  <2>3. QED
    BY <1>0, <2>2 DEF Out
<1>2. OnlyBatch(a, t)' = b
  BY <1>0 DEF OnlyBatch
<1>3. CASE UNCHANGED credit
  BY <1>0, <1>1, <1>3, QuietAccount
<1>4. CASE credit' = [credit EXCEPT ![c.account] = Flushed(@)] /\ c.account # a
  BY <1>0, <1>1, <1>4, QuietAccount DEF TypeOK
<1>5. CASE credit' = [credit EXCEPT ![c.account] = Flushed(@)] /\ c.account = a
  <2>1. c = b
    BY <1>0, <1>5 DEF Out, OneBatch
  <2>2. credit'[a].accrued = 0
    BY <1>0, <1>5 DEF TypeOK, Flushed, CreditRow
  <2>3. QED
    BY <1>0, <1>1, <1>2, <2>1, <2>2 DEF OneBatch
<1>6. QED
  BY <1>3, <1>4, <1>5 DEF Flush, FlushAccrued, ledgerVars

\* A commit is the first charge of its account, or the account is no longer
\* charged only once.
LEMMA OneAfterCommit ==
  ASSUME WorkerInv, AccruedIsStamped, ChargeInv, NEW r \in Reservation,
         NEW total \in Amount, RequestCommit(r, total), NEW a \in Account
  PROVE  /\ Charges(a)' = {} => charged'[a] = 0
         /\ Lone(a)' => \E t \in Nat : OneBatch(a, t)'
<1> DEFINE charge == ActualCharge(r, total)
           held == reservations[r].amount
           b == reservations[r].account
<1>1. r \in Open /\ total \in Nat /\ TypeOK /\ HistoryOK /\ FlusherOK
  BY AmountsAreNatural DEF RequestCommit, Commit, WorkerInv
<1>2. charge \in Nat /\ held \in Nat /\ b \in Account /\ clock \in Nat
  BY <1>1, ChargeWithinHold DEF TypeOK
<1>3. /\ credit' = [credit EXCEPT ![b] = Charged(credit[b], held, charge, clock)]
      /\ charged' = [charged EXCEPT ![b] = charged[b] + charge]
      /\ reservations' = [reservations EXCEPT ![r] = [@ EXCEPT !.outcome = "committed"]]
      /\ UNCHANGED <<used, mempool, collected, todo>>
  BY DEF RequestCommit, Commit, Close, chainVars, flushVars
<1>4. Out(a)' = Out(a)
  BY <1>3 DEF Out, Listed
<1>5. /\ r \in DOMAIN reservations /\ reservations[r].outcome = "open"
      /\ DOMAIN reservations' = DOMAIN reservations
      /\ reservations'[r].account = b /\ reservations'[r].outcome = "committed"
      /\ \A s \in DOMAIN reservations \ {r} : reservations'[s] = reservations[s]
  BY <1>1, <1>3 DEF Open, TypeOK, ReservationRow
<1> HIDE DEF charge, held, b
\* The stamp of the charge, as a constant of the step.
<1>s. PICK now \in Nat : now = clock
  BY <1>2
<1>6. CASE a # b
  <2>1. Charges(a)' = Charges(a)
    <3>1. r \notin Charges(a)' /\ r \notin Charges(a)
      BY <1>5, <1>6 DEF Charges, b
    <3>2. QED
      BY <1>5, <3>1 DEF Charges
  <2>2. charged'[a] = charged[a] /\ credit'[a] = credit[a]
    BY <1>1, <1>3, <1>6 DEF HistoryOK, TypeOK
  <2>3. ASSUME NEW t \in Nat, OneBatch(a, t) PROVE OneBatch(a, t)'
    BY <1>3, <1>4, <2>2, <2>3, QuietAccount
  <2>4. QED
    BY <2>1, <2>2, <2>3 DEF ChargeInv, Lone
<1>7. CASE a = b
  <2>1. r \in Charges(a)' /\ r \notin Charges(a) /\ Charges(a) \subseteq Charges(a)'
    BY <1>5, <1>7 DEF Charges
  <2>2. ASSUME Lone(a)' PROVE OneBatch(a, now)'
    <3>1. Charges(a) = {} /\ charged[a] = 0
      BY <2>1, <2>2 DEF Lone, ChargeInv
    <3>2. PICK t \in Nat : OneBatch(a, t)
      BY <3>1 DEF ChargeInv, Lone
    <3>3. Out(a) = {}
      BY <3>1, <3>2 DEF ChargeInv, OneBatch, OnlyBatch
    <3>4. \A x \in used : x.account # a
      BY <3>3 DEF Out
    <3>5. collected[a] = 0 /\ credit[a].accrued = 0
      BY <3>1, <3>2 DEF OneBatch
    <3>6. credit[a].firstAt = NoTime
      BY <3>5 DEF AccruedIsStamped
    <3>7. charged'[a] = charge
      BY <1>1, <1>2, <1>3, <1>7, <3>1 DEF HistoryOK
    <3>8. /\ credit'[a].accrued = charge
          /\ charge # 0 => credit'[a].firstAt = now
      BY <1>s, <1>1, <1>2, <1>3, <1>7, <3>5, <3>6 DEF TypeOK, Charged
    <3>9. OnlyBatch(a, now)' \notin used'
      BY <1>3, <3>4 DEF OnlyBatch
    <3>10. QED
      BY <1>3, <1>4, <3>3, <3>5, <3>7, <3>8, <3>9 DEF OneBatch
  <2>3. QED
    BY <1>2, <2>1, <2>2
<1>8. QED
  BY <1>6, <1>7

LEMMA OneStep ==
  ASSUME WorkerInv, [WorkerNext]_workerVars, NEW a \in Account, NEW t,
         \A r \in Reservation, total \in Amount : ~ RequestCommit(r, total),
         OneBatch(a, t)
  PROVE  OneBatch(a, t)'
<1>0. TypeOK /\ FlusherOK /\ ChainOK
  BY DEF WorkerInv
<1>1. ASSUME NEW f \in Flusher, Select(f) PROVE OneBatch(a, t)'
  BY <1>1, OneAfterSelect
<1>2. ASSUME NEW f \in Flusher, Flush(f) PROVE OneBatch(a, t)'
  BY <1>2, OneAfterFlush
<1>3. ASSUME NEW tx \in mempool, Mine(tx) PROVE OneBatch(a, t)'
  BY <1>3, OneAfterMine
<1>4. ASSUME \A f \in Flusher : ~ Select(f), UNCHANGED <<used, collected>>,
             credit'[a].accrued = credit[a].accrued,
             credit'[a].firstAt = credit[a].firstAt
      PROVE  OneBatch(a, t)'
  <2>1. charged'[a] = charged[a]
    BY <1>0, NobodyCharged
  <2>2. Out(a)' \subseteq Out(a)
    BY <1>0, <1>4, OutShrinks
  <2>3. QED
    BY <1>4, <2>1, <2>2, QuietAccount
<1>5. CASE /\ \A f \in Flusher : ~ Select(f) /\ ~ Flush(f)
           /\ \A tx \in mempool : ~ Mine(tx)
  <2>1. UNCHANGED <<used, collected>>
    BY <1>5 DEF WorkerNext, Request, RequestReserve, RequestRelease, RequestCommit,
      Collect, Tick, WithdrawRequested, Step, Check, Probe, Reset, Submit, Send,
      Confirm, Fail, Environment, ClaimWithdraw, AccrualAges, RowGoesStale, Faults,
      SendError, ReceiptTimeout, Abort, Crash, workerVars, chainVars, Flusher
  <2>2. /\ credit'[a].accrued = credit[a].accrued
        /\ credit'[a].firstAt = credit[a].firstAt
    <3>1. CASE UNCHANGED credit
      BY <3>1
    <3>2. ASSUME NEW r \in Reservation, NEW b \in Account, NEW amount \in Amount,
                 Reserve(r, b, amount)
          PROVE  <2>2
      BY <1>0, <3>2 DEF Reserve, Held, TypeOK, CreditRow
    <3>3. ASSUME NEW r \in Reservation, Release(r, "released_error")
          PROVE  <2>2
      BY <1>0, <3>3 DEF Release, Returned, TypeOK, CreditRow
    <3>4. CASE Request
      BY <3>2, <3>3, <3>4 DEF Request, RequestReserve, RequestRelease
    <3>5. CASE ~ Request
      BY <1>5, <3>1, <3>5 DEF WorkerNext, Collect, Tick, WithdrawRequested, Step,
        Check, Probe, Reset, Submit, Send, Confirm, Fail, Environment, ClaimWithdraw,
        AccrualAges, RowGoesStale, Faults, SendError, ReceiptTimeout, Abort, Crash,
        workerVars, ledgerVars, Flusher
    <3>6. QED
      BY <3>4, <3>5
  <2>3. QED
    BY <1>4, <1>5, <2>1, <2>2
<1>6. QED
  BY <1>1, <1>2, <1>3, <1>5

LEMMA ChargeStep ==
  WorkerInv /\ AccruedIsStamped /\ ChargeInv /\ [WorkerNext]_workerVars => ChargeInv'
<1> SUFFICES ASSUME WorkerInv, AccruedIsStamped, ChargeInv, [WorkerNext]_workerVars
             PROVE  ChargeInv'
  OBVIOUS
<1>0. TypeOK /\ FlusherOK /\ ChainOK
  BY DEF WorkerInv
<1>1. IsFiniteSet(DOMAIN reservations')
  BY <1>0, WorkerStepsLedger, ReservationsStayFinite DEF ChargeInv
<1>2. ASSUME NEW a \in Account, NEW b \in Out(a)'
      PROVE  b.amount # 0
  <2>1. CASE b \in Out(a)
    BY <2>1 DEF ChargeInv
  <2>2. CASE b \notin Out(a)
    <3>1. PICK f \in Flusher : Select(f)
      BY <1>0, <1>2, <2>2, OutShrinks
    <3>2. QED
      BY <1>0, <1>2, <2>2, <3>1, OutAfterSelect
  <2>3. QED
    BY <2>1, <2>2
<1>3. ASSUME NEW a \in Account
      PROVE  /\ Charges(a)' = {} => charged'[a] = 0
             /\ Lone(a)' => \E t \in Nat : OneBatch(a, t)'
  <2>1. ASSUME NEW r \in Reservation, NEW total \in Amount, RequestCommit(r, total)
        PROVE  <1>3!2
    BY <2>1, OneAfterCommit
  <2>2. CASE \A r \in Reservation, total \in Amount : ~ RequestCommit(r, total)
    <3>1. charged' = charged /\ Charges(a)' = Charges(a)
      BY <1>0, <2>2, NobodyCharged
    <3>2. Lone(a)' => Lone(a)
      BY <3>1 DEF Lone
    <3>3. ASSUME NEW t \in Nat, OneBatch(a, t) PROVE OneBatch(a, t)'
      BY <2>2, <3>3, OneStep
    <3>4. QED
      BY <3>1, <3>2, <3>3 DEF ChargeInv
  <2>3. QED
    BY <2>1, <2>2
<1>4. QED
  BY <1>1, <1>2, <1>3 DEF ChargeInv

\* At most one charge means one reservation, if any.
LEMMA OneMeansLone ==
  ASSUME NEW a, IsFiniteSet(DOMAIN reservations), Cardinality(Charges(a)) <= 1
  PROVE  Lone(a)
<1> SUFFICES ASSUME NEW r \in Charges(a), NEW s \in Charges(a), r # s
             PROVE  FALSE
  BY DEF Lone
<1>1. IsFiniteSet(Charges(a))
  BY FS_Subset DEF Charges
<1>2. IsFiniteSet({r}) /\ Cardinality({r}) = 1
  BY FS_Singleton
<1>3. IsFiniteSet({r} \cup {s}) /\ Cardinality({r} \cup {s}) = 2
  BY <1>2, FS_AddElement
<1>4. {r} \cup {s} \subseteq Charges(a)
  OBVIOUS
<1>5. Cardinality({r} \cup {s}) <= Cardinality(Charges(a))
  BY <1>1, <1>4, FS_Subset
<1>6. Cardinality(Charges(a)) \in Nat
  BY <1>1, FS_CardinalityType
<1>7. QED
  BY <1>3, <1>5, <1>6

\* consume-worker.ts derives the batch id from the accrual, so that an
\* account charged once has one batch whatever happens: its charge is
\* collected at most once, and written off only once it was collected, for
\* any number of ticks, withdraw handlers, crashes and lost receipts.
THEOREM WorkerOneChargeIsExact == WorkerSpec => []OneChargeIsExact
<1>1. WorkerInit => ChargeInv
  <2> SUFFICES ASSUME WorkerInit PROVE ChargeInv
    OBVIOUS
  <2>1. \A a \in Account : Charges(a) = {} /\ Out(a) = {}
    BY DEF WorkerInit, Charges, Out, Listed
  <2>2. IsFiniteSet(DOMAIN reservations)
    BY FS_EmptySet DEF WorkerInit
  <2>3. \A a \in Account : OneBatch(a, 0)
    BY <2>1 DEF WorkerInit, OneBatch, ZeroRow
  <2>4. QED
    BY <2>1, <2>2, <2>3 DEF ChargeInv, WorkerInit
<1>2. WorkerInv /\ ChargeInv => OneChargeIsExact
  <2> SUFFICES ASSUME WorkerInv, ChargeInv, NEW a \in Account,
                      Cardinality(Charges(a)) <= 1
               PROVE  /\ collected[a] <= charged[a]
                      /\ credit[a].accrued = 0 => collected[a] = charged[a]
    BY DEF OneChargeIsExact
  <2>1. PICK t \in Nat : OneBatch(a, t)
    BY OneMeansLone DEF ChargeInv
  <2>2. charged[a] \in Nat
    BY DEF WorkerInv, HistoryOK
  <2>3. QED
    BY <2>1, <2>2 DEF OneBatch
<1>3. QED
  BY <1>1, <1>2, ChargeStep, WorkerInvariant, WorkerKeepsStamps, PTL DEF WorkerSpec

-----------------------------------------------------------------------------
(***************************************************************************)
(* What escapes the books: for any number of flushers and every fault, a   *)
(* charge is collected, still owed, or was made while a flush of its       *)
(* account was under way.                                                  *)
(***************************************************************************)

\* What a batch that is out is worth to the books of its account: nothing
\* more once the chain has consumed it.
Due(b) == IF b \in used THEN 0 ELSE b.amount

\* Whatever is charged after a selection is late, so the candidates a flusher
\* has selected cover all the rest of what their accounts were charged; and a
\* batch of the accrual an account has now, once consumed, covers its part.
EscapeInv ==
  /\ OnlyLateChargesEscape
  /\ \A a \in Account : \A b \in Out(a) : b.firstAt < clock
  /\ \A f \in Flusher : \A b \in Listed(f) :
       charged[b.account] <= collected[b.account] + late[b.account] + Due(b)
  /\ \A b \in used : b.firstAt = credit[b.account].firstAt =>
       charged[b.account] + b.amount
         <= collected[b.account] + late[b.account] + credit[b.account].accrued

\* The amounts of the books, as numbers.
LEMMA BooksAreNumbers ==
  ASSUME WorkerInv, NEW a \in Account
  PROVE  /\ charged[a] \in Nat /\ late[a] \in Nat /\ collected[a] \in Nat
         /\ credit[a].accrued \in Nat /\ clock \in Nat
BY DEF WorkerInv, HistoryOK, ChainOK, TypeOK, CreditRow

\* Everything listed or consumed is a batch, and is out for its account.
LEMMA BatchesOut ==
  ASSUME WorkerInv
  PROVE  /\ \A f \in Flusher : \A b \in Listed(f) :
              b \in BatchId /\ b.account \in Account /\ b \in Out(b.account)
         /\ \A b \in used :
              b \in BatchId /\ b.account \in Account /\ b \in Out(b.account)
         /\ \A b \in BatchId : b.firstAt \in Nat /\ Due(b) \in Nat /\ b.amount \in Nat
<1>1. ASSUME NEW f \in Flusher, NEW b \in Listed(f)
      PROVE  b \in BatchId
  <2>1. todo[f] \in Seq(BatchId)
    BY DEF WorkerInv, FlusherOK
  <2>2. QED
    BY <1>1, <2>1, Elements DEF Listed
<1>2. used \subseteq BatchId
  BY DEF WorkerInv, ChainOK
<1>3. QED
  BY <1>1, <1>2 DEF Out, BatchId, Due

\* A step that charges, collects and writes off nothing, and selects nothing.
LEMMA EscapeQuiet ==
  ASSUME WorkerInv, EscapeInv, [WorkerNext]_workerVars,
         \A f \in Flusher : ~ Select(f),
         UNCHANGED <<used, collected, charged, late, clock>>,
         \A a \in Account : /\ credit'[a].accrued = credit[a].accrued
                            /\ credit'[a].firstAt = credit[a].firstAt
  PROVE  EscapeInv'
<1>1. \A f \in Flusher : Listed(f)' \subseteq Listed(f)
  BY ListsShrink DEF WorkerInv
<1>2. \A a : Out(a)' \subseteq Out(a)
  BY OutShrinks DEF WorkerInv
<1>3. \A b : Due(b)' = Due(b)
  BY DEF Due
<1>4. \A b \in used : b.account \in Account
  BY BatchesOut
<1>5. QED
  BY <1>1, <1>2, <1>3, <1>4 DEF EscapeInv, OnlyLateChargesEscape

\* What a commit charges is owed from then on, and late for the flushers that
\* have selected the account; a new stamp is one no batch has.
LEMMA EscapeAfterCommit ==
  ASSUME WorkerInv, EscapeInv, NEW r \in Reservation, NEW total \in Amount,
         RequestCommit(r, total)
  PROVE  EscapeInv'
<1> DEFINE charge == ActualCharge(r, total)
           a == reservations[r].account
<1>1. r \in Open /\ total \in Nat
  BY AmountsAreNatural DEF RequestCommit, Commit
<1>2. charge \in Nat /\ a \in Account
  BY <1>1, ChargeWithinHold DEF WorkerInv
<1>3. /\ charged' = [charged EXCEPT ![a] = @ + charge]
      /\ late' = IF UnderFlush(a) THEN [late EXCEPT ![a] = @ + charge] ELSE late
      /\ clock' = clock + 1
      /\ UNCHANGED <<used, mempool, collected, todo>>
  BY DEF RequestCommit, Commit, chainVars, flushVars
<1>4. UnderFlush(a) <=> \E f \in Flusher : \E b \in Listed(f) : b.account = a
  BY DEF UnderFlush, Listed
<1> HIDE DEF charge, a
<1>5. ASSUME NEW x \in Account
      PROVE  LET more == IF x = a THEN charge ELSE 0
             IN /\ charged'[x] = charged[x] + more
                /\ late'[x] = IF UnderFlush(a) THEN late[x] + more ELSE late[x]
  BY <1>2, <1>3 DEF WorkerInv, HistoryOK
<1>6. ASSUME NEW x \in Account
      PROVE  /\ credit[x].firstAt # NoTime => credit'[x].firstAt = credit[x].firstAt
             /\ credit[x].firstAt = NoTime => credit'[x].firstAt \in {NoTime, clock}
             /\ credit'[x].accrued - credit[x].accrued = charged'[x] - charged[x]
  BY RequestEffect DEF Request, WorkerInv
<1>7. WorkerInv'
  BY WorkerInvStep DEF WorkerNext, Request
<1>8. ASSUME NEW x \in Account
      PROVE  /\ charged[x] \in Nat /\ late[x] \in Nat /\ collected[x] \in Nat
             /\ credit[x].accrued \in Nat /\ clock \in Nat
             /\ charged'[x] \in Nat /\ late'[x] \in Nat /\ credit'[x].accrued \in Nat
  BY <1>7 DEF WorkerInv, HistoryOK, ChainOK, TypeOK, CreditRow
<1>9. OnlyLateChargesEscape'
  <2> SUFFICES ASSUME NEW x \in Account
               PROVE  charged'[x] <= collected[x] + credit'[x].accrued + late'[x]
    BY <1>3 DEF OnlyLateChargesEscape
  <2>1. charged[x] <= collected[x] + credit[x].accrued + late[x]
    BY DEF EscapeInv, OnlyLateChargesEscape
  <2>2. late'[x] >= late[x]
    BY <1>2, <1>5, <1>8
  <2>3. QED
    BY <1>6, <1>8, <2>1, <2>2
<1>10. ASSUME NEW x \in Account, NEW b \in Out(x)'
       PROVE  b.firstAt < clock'
  <2>1. b \in Out(x)
    BY <1>3, <1>10 DEF Out, Listed
  <2>2. b.firstAt < clock /\ clock \in Nat
    BY <2>1, <1>8, <1>10 DEF EscapeInv
  <2>3. b \in BatchId
    BY <2>1, BatchesOut DEF Out, WorkerInv, ChainOK
  <2>4. b.firstAt \in Nat
    BY <2>3 DEF BatchId
  <2>5. QED
    BY <1>3, <2>2, <2>4
<1>11. ASSUME NEW f \in Flusher, NEW b \in Listed(f)'
       PROVE  charged'[b.account] <=
                collected'[b.account] + late'[b.account] + Due(b)'
  <2>1. b \in Listed(f) /\ Due(b)' = Due(b)
    BY <1>3, <1>11 DEF Listed, Due
  <2>2. b.account \in Account /\ Due(b) \in Nat
    BY <2>1, BatchesOut
  <2>3. charged[b.account] <= collected[b.account] + late[b.account] + Due(b)
    BY <2>1 DEF EscapeInv
  <2>4. b.account = a => UnderFlush(a)
    BY <1>4, <2>1
  <2>5. QED
    BY <1>2, <1>3, <1>5, <1>8, <2>1, <2>2, <2>3, <2>4
<1>12. ASSUME NEW b \in used, b.firstAt = credit'[b.account].firstAt
       PROVE  charged'[b.account] + b.amount <=
                collected[b.account] + late'[b.account] + credit'[b.account].accrued
  <2>1. b \in BatchId /\ b.account \in Account /\ b \in Out(b.account)
    BY BatchesOut
  <2>2. b.firstAt \in Nat /\ b.amount \in Nat /\ b.firstAt < clock
    BY <2>1 DEF BatchId, EscapeInv
  <2>3. b.firstAt = credit[b.account].firstAt
    <3>1. b.firstAt # NoTime /\ b.firstAt # clock
      BY <1>8, <2>1, <2>2 DEF NoTime
    <3>2. QED
      BY <1>6, <1>12, <2>1, <3>1
  <2>4. charged[b.account] + b.amount
          <= collected[b.account] + late[b.account] + credit[b.account].accrued
    BY <2>3 DEF EscapeInv
  <2>5. late'[b.account] >= late[b.account]
    BY <1>2, <1>5, <1>8, <2>1
  <2>6. QED
    BY <1>6, <1>8, <2>1, <2>2, <2>4, <2>5
<1>13. QED
  BY <1>3, <1>9, <1>10, <1>11, <1>12 DEF EscapeInv

\* What is selected covers what is owed.
LEMMA EscapeAfterSelect ==
  ASSUME WorkerInv, EscapeInv, AccruedIsStamped, NEW f \in Flusher, Select(f)
  PROVE  EscapeInv'
<1>1. UNCHANGED <<credit, clock, used, mempool, collected, charged, late>>
  BY DEF Select, ledgerVars, chainVars, requestVars
<1>2. WorkerInv'
  BY WorkerInvStep DEF WorkerNext, Collect, Step, Flusher
<1>3. \A b : Due(b)' = Due(b)
  BY <1>1 DEF Due
<1>4. ASSUME NEW a \in Account, NEW b \in Out(a)', b \notin Out(a)
      PROVE  /\ b.account = a /\ b.firstAt = credit[a].firstAt
             /\ b.amount = credit[a].accrued /\ credit[a].accrued # 0
  BY <1>4, OutAfterSelect DEF WorkerInv
<1>5. ASSUME NEW a \in Account, NEW b \in Out(a)'
      PROVE  b.firstAt < clock
  <2>1. CASE b \in Out(a)
    BY <2>1 DEF EscapeInv
  <2>2. CASE b \notin Out(a)
    BY <1>4, <1>5, <2>2, BooksAreNumbers DEF AccruedIsStamped
  <2>3. QED
    BY <2>1, <2>2
<1>6. ASSUME NEW g \in Flusher, NEW b \in Listed(g)'
      PROVE  charged[b.account] <= collected[b.account] + late[b.account] + Due(b)
  <2> DEFINE a == b.account
  <2>1. b \in BatchId /\ a \in Account
    <3>1. todo'[g] \in Seq(BatchId)
      BY <1>2 DEF WorkerInv, FlusherOK
    <3>2. \A i \in DOMAIN todo'[g] : todo'[g][i] \in BatchId
      BY <3>1, Elements, Zenon
    <3>3. b \in BatchId
      BY <1>6, <3>2 DEF Listed
    <3>4. QED
      BY <3>3 DEF BatchId
  <2>2. CASE b \in Listed(g)
    BY <2>2 DEF EscapeInv
  <2>3. CASE b \notin Listed(g)
    <3>1. b.firstAt = credit[a].firstAt /\ b.amount = credit[a].accrued
      <4>1. PICK order \in Orders(f) :
              todo' = [todo EXCEPT ![f] = [i \in DOMAIN order |-> Candidate(order[i])]]
        BY DEF Select
      <4>2. g = f
        BY <1>6, <2>3, <4>1 DEF WorkerInv, FlusherOK, Listed
      <4>3. todo'[g] = [i \in DOMAIN order |-> Candidate(order[i])]
        BY <4>1, <4>2 DEF WorkerInv, FlusherOK
      <4>4. PICK i \in DOMAIN order : b = Candidate(order[i])
        BY <1>6, <4>3 DEF Listed
      <4>5. QED
        BY <4>4 DEF Candidate
    <3>2. charged[a] <= collected[a] + credit[a].accrued + late[a]
      BY <2>1 DEF EscapeInv, OnlyLateChargesEscape
    <3>3. b \in used =>
            charged[a] + b.amount <= collected[a] + late[a] + credit[a].accrued
      BY <3>1 DEF EscapeInv
    <3>4. /\ charged[a] \in Nat /\ late[a] \in Nat /\ collected[a] \in Nat
          /\ credit[a].accrued \in Nat
      BY <2>1, BooksAreNumbers
    <3> HIDE DEF a
    <3>5. charged[a] <= collected[a] + late[a] + Due(b)
      BY <3>1, <3>2, <3>3, <3>4 DEF Due
    <3>6. QED
      BY <3>5 DEF a
  <2>4. QED
    BY <2>2, <2>3
<1>7. QED
  BY <1>1, <1>3, <1>5, <1>6 DEF EscapeInv, OnlyLateChargesEscape

\* What the chain consumes is collected: the books of the batch's account
\* gain its amount.
LEMMA EscapeAfterMine ==
  ASSUME WorkerInv, EscapeInv, NEW tx \in mempool, Mine(tx)
  PROVE  EscapeInv'
<1> DEFINE c == tx.batch
<1>1. [WorkerNext]_workerVars /\ UNCHANGED <<credit, clock, charged, late, todo>>
  BY DEF Mine, WorkerNext, Environment, ledgerVars, requestVars
<1>2. \A f \in Flusher : ~ Select(f)
  <2>1. mempool' # mempool
    BY DEF Mine
  <2>2. QED
    BY <2>1 DEF Select, chainVars
<1>3. CASE UNCHANGED <<used, collected>>
  BY <1>1, <1>2, <1>3, EscapeQuiet
<1>4. CASE Consumable(c)
  <2>1. /\ used' = used \cup {c} /\ c \notin used
        /\ collected' = [collected EXCEPT ![c.account] = @ + c.amount]
    BY <1>4 DEF Mine, Consumable
  <2>2. c \in BatchId /\ c.account \in Account /\ c.amount \in Nat
    BY DEF WorkerInv, ChainOK, BatchId
  <2>3. \A a : Out(a)' \subseteq Out(a)
    BY <1>1, <1>2, OutShrinks DEF WorkerInv
  <2> HIDE DEF c
  <2>4. ASSUME NEW a \in Account
        PROVE  /\ collected'[a] = IF a = c.account THEN collected[a] + c.amount
                                  ELSE collected[a]
               /\ collected'[a] >= collected[a] /\ collected'[a] \in Nat
    BY <2>1, <2>2 DEF WorkerInv, ChainOK
  <2>5. OnlyLateChargesEscape'
    <3> SUFFICES ASSUME NEW a \in Account
                 PROVE  charged[a] <= collected'[a] + credit[a].accrued + late[a]
      BY <1>1 DEF OnlyLateChargesEscape
    <3>1. charged[a] <= collected[a] + credit[a].accrued + late[a]
      BY DEF EscapeInv, OnlyLateChargesEscape
    <3>2. QED
      BY <2>4, <3>1, BooksAreNumbers
  <2>6. ASSUME NEW f \in Flusher, NEW b \in Listed(f)
        PROVE  charged[b.account] <= collected'[b.account] + late[b.account] + Due(b)'
    <3>1. b \in BatchId /\ b.account \in Account /\ Due(b) \in Nat /\ b.amount \in Nat
      BY <2>6, BatchesOut
    <3>2. charged[b.account] <= collected[b.account] + late[b.account] + Due(b)
      BY <2>6 DEF EscapeInv
    <3>3. Due(b)' = IF b = c THEN 0 ELSE Due(b)
      BY <2>1 DEF Due
    <3>4. b = c => Due(b) = b.amount
      BY <2>1 DEF Due
    <3>5. CASE b = c
      <4>1. collected'[b.account] = collected[b.account] + b.amount
        BY <2>4, <3>1, <3>5
      <4>2. QED
        BY <3>1, <3>2, <3>3, <3>4, <3>5, <4>1, BooksAreNumbers
    <3>6. CASE b # c
      <4>1. collected'[b.account] >= collected[b.account]
        BY <2>4, <3>1
      <4>2. QED
        BY <2>4, <3>1, <3>2, <3>3, <3>6, <4>1, BooksAreNumbers
    <3>7. QED
      BY <3>5, <3>6
  <2>7. ASSUME NEW b \in used', b.firstAt = credit[b.account].firstAt
        PROVE  charged[b.account] + b.amount
                 <= collected'[b.account] + late[b.account] + credit[b.account].accrued
    <3>1. CASE b = c
      <4>1. charged[c.account] <=
              collected[c.account] + credit[c.account].accrued + late[c.account]
        BY <2>2 DEF EscapeInv, OnlyLateChargesEscape
      <4>2. collected'[c.account] = collected[c.account] + c.amount
        BY <2>2, <2>4
      <4>3. QED
        BY <2>2, <3>1, <4>1, <4>2, BooksAreNumbers
    <3>2. CASE b \in used
      <4>1. b.account \in Account /\ b.amount \in Nat
        BY <3>2, BatchesOut
      <4>2. charged[b.account] + b.amount
              <= collected[b.account] + late[b.account] + credit[b.account].accrued
        BY <2>7, <3>2 DEF EscapeInv
      <4>3. collected'[b.account] >= collected[b.account] /\ collected'[b.account] \in Nat
        BY <2>4, <4>1
      <4>4. QED
        BY <4>1, <4>2, <4>3, BooksAreNumbers
    <3>3. QED
      BY <2>1, <2>7, <3>1, <3>2
  <2>8. \A f \in Flusher : Listed(f)' = Listed(f)
    BY <1>1 DEF Listed
  <2>9. QED
    BY <1>1, <2>3, <2>5, <2>6, <2>7, <2>8 DEF EscapeInv
<1>5. QED
  BY <1>3, <1>4 DEF Mine

\* The flush zeroes what its candidate, consumed by then, does not cover; that
\* was charged late.
LEMMA EscapeAfterFlush ==
  ASSUME WorkerInv, EscapeInv, NEW f \in Flusher, Flush(f)
  PROVE  EscapeInv'
<1> DEFINE c == Head(todo[f])
<1>1. /\ UNCHANGED <<charged, late, collected, used, mempool, clock>>
      /\ pc[f] = "flush" /\ c \in used
  BY DEF Flush, FlushAccrued, ledgerVars, requestVars, chainVars, WorkerInv, RecordInv,
    FlusherKnows
<1>2. [WorkerNext]_workerVars
  BY DEF WorkerNext, Collect, Step
<1>3. \A g \in Flusher : ~ Select(g)
  <2>1. ASSUME NEW g \in Flusher, Select(g) PROVE FALSE
    <3>1. g = f
      BY <1>1, <2>1, NextMoves DEF Flush, Select, Goto, FlusherOK, WorkerInv
    <3>2. QED
      BY <1>1, <2>1, <3>1 DEF Select
  <2>2. QED
    BY <2>1
<1>4. c \in Listed(f) /\ c \in BatchId /\ c.account \in Account
  <2>1. c \in Listed(f)
    BY <1>1, ListOf DEF WorkerInv, Busy, Labels
  <2>2. QED
    BY <2>1, BatchesOut
<1>5. CASE UNCHANGED credit
  BY <1>1, <1>2, <1>3, <1>5, EscapeQuiet
<1>6. CASE credit' = [credit EXCEPT ![c.account] = Flushed(@)]
  <2>1. charged[c.account] <= collected[c.account] + late[c.account] + 0
    BY <1>1, <1>4 DEF EscapeInv, Due
  <2> HIDE DEF c
  <2>2. /\ credit'[c.account].accrued = 0 /\ credit'[c.account].firstAt = NoTime
        /\ \A a \in Account \ {c.account} : credit'[a] = credit[a]
    BY <1>4, <1>6 DEF WorkerInv, TypeOK, Flushed, CreditRow
  <2>3. OnlyLateChargesEscape'
    <3> SUFFICES ASSUME NEW a \in Account
                 PROVE  charged[a] <= collected[a] + credit'[a].accrued + late[a]
      BY <1>1 DEF OnlyLateChargesEscape
    <3>1. CASE a = c.account
      BY <2>1, <2>2, <3>1, BooksAreNumbers
    <3>2. CASE a # c.account
      BY <2>2, <3>2 DEF EscapeInv, OnlyLateChargesEscape
    <3>3. QED
      BY <3>1, <3>2
  <2>4. \A g \in Flusher : Listed(g)' \subseteq Listed(g)
    BY <1>2, <1>3, ListsShrink DEF WorkerInv
  <2>5. \A a : Out(a)' \subseteq Out(a)
    BY <1>2, <1>3, OutShrinks DEF WorkerInv
  <2>6. \A b : Due(b)' = Due(b)
    BY <1>1 DEF Due
  <2>7. ASSUME NEW b \in used, b.firstAt = credit'[b.account].firstAt
        PROVE  charged[b.account] + b.amount <=
                 collected[b.account] + late[b.account] + credit'[b.account].accrued
    <3>1. b.account \in Account /\ b.firstAt # NoTime
      BY BatchesOut DEF NoTime
    <3>2. b.account # c.account
      BY <2>2, <2>7, <3>1
    <3>3. QED
      BY <2>2, <2>7, <3>1, <3>2 DEF EscapeInv
  <2>8. QED
    BY <1>1, <2>3, <2>4, <2>5, <2>6, <2>7 DEF EscapeInv
<1>7. QED
  BY <1>5, <1>6 DEF Flush, FlushAccrued, ledgerVars

LEMMA EscapeStep ==
  WorkerInv /\ AccruedIsStamped /\ EscapeInv /\ [WorkerNext]_workerVars => EscapeInv'
<1> SUFFICES ASSUME WorkerInv, AccruedIsStamped, EscapeInv, [WorkerNext]_workerVars
             PROVE  EscapeInv'
  OBVIOUS
<1>1. ASSUME NEW f \in Flusher, Select(f) PROVE EscapeInv'
  BY <1>1, EscapeAfterSelect
<1>2. ASSUME NEW f \in Flusher, Flush(f) PROVE EscapeInv'
  BY <1>2, EscapeAfterFlush
<1>3. ASSUME NEW tx \in mempool, Mine(tx) PROVE EscapeInv'
  BY <1>3, EscapeAfterMine
<1>4. ASSUME NEW r \in Reservation, NEW total \in Amount, RequestCommit(r, total)
      PROVE  EscapeInv'
  BY <1>4, EscapeAfterCommit
<1>5. CASE /\ \A f \in Flusher : ~ Select(f) /\ ~ Flush(f)
           /\ \A tx \in mempool : ~ Mine(tx)
           /\ \A r \in Reservation, total \in Amount : ~ RequestCommit(r, total)
  <2>1. UNCHANGED <<used, collected, charged, late>>
    BY <1>5 DEF WorkerNext, Request, RequestReserve, RequestRelease, Collect, Tick,
      WithdrawRequested, Step, Check, Probe, Reset, Submit, Send, Confirm, Fail,
      Environment, ClaimWithdraw, AccrualAges, RowGoesStale, Faults, SendError,
      ReceiptTimeout, Abort, Crash, workerVars, chainVars, requestVars, Flusher
  <2>2. ASSUME NEW r \in Reservation, NEW b \in Account, NEW amount \in Amount,
               Reserve(r, b, amount)
        PROVE  UNCHANGED clock /\ \A a \in Account :
                 /\ credit'[a].accrued = credit[a].accrued
                 /\ credit'[a].firstAt = credit[a].firstAt
    BY <2>2 DEF Reserve, Held, WorkerInv, TypeOK, CreditRow
  <2>3. ASSUME NEW r \in Reservation, Release(r, "released_error")
        PROVE  UNCHANGED clock /\ \A a \in Account :
                 /\ credit'[a].accrued = credit[a].accrued
                 /\ credit'[a].firstAt = credit[a].firstAt
    BY <2>3 DEF Release, Returned, WorkerInv, TypeOK, CreditRow
  <2>4. CASE Request
    BY <1>5, <2>1, <2>2, <2>3, <2>4, EscapeQuiet DEF Request, RequestReserve,
      RequestRelease
  <2>5. CASE ~ Request
    <3>1. UNCHANGED <<credit, clock>>
      BY <1>5, <2>5 DEF WorkerNext, Collect, Tick, WithdrawRequested, Step, Check,
        Probe, Reset, Submit, Send, Confirm, Fail, Environment, ClaimWithdraw,
        AccrualAges, RowGoesStale, Faults, SendError, ReceiptTimeout, Abort, Crash,
        workerVars, ledgerVars, Flusher
    <3>2. QED
      BY <1>5, <2>1, <3>1, EscapeQuiet
  <2>6. QED
    BY <2>4, <2>5
<1>6. QED
  BY <1>1, <1>2, <1>3, <1>4, <1>5

\* consume-worker.ts zeroes an accrual only after the vault consumed its
\* candidate, so that of what a wallet was charged only what came in during a
\* flush of its account can go uncollected and unowed: for any number of
\* ticks, withdraw handlers, crashes, lost receipts and failed calls.
THEOREM WorkerOnlyLateChargesEscape == WorkerSpec => []OnlyLateChargesEscape
<1>1. WorkerInit => EscapeInv
  <2> SUFFICES ASSUME WorkerInit PROVE EscapeInv
    OBVIOUS
  <2>1. OnlyLateChargesEscape
    BY DEF WorkerInit, OnlyLateChargesEscape, ZeroRow
  <2>2. \A a : Out(a) = {}
    BY DEF WorkerInit, Out, Listed
  <2>3. \A f \in Flusher : Listed(f) = {}
    BY DEF WorkerInit, Listed
  <2>4. QED
    BY <2>1, <2>2, <2>3 DEF EscapeInv, WorkerInit
<1>2. EscapeInv => OnlyLateChargesEscape
  BY DEF EscapeInv
<1>3. QED
  BY <1>1, <1>2, EscapeStep, WorkerInvariant, WorkerKeepsStamps, PTL DEF WorkerSpec
=============================================================================
