----------------------------- MODULE BatchQueue -----------------------------
(***************************************************************************)
(* The batch queue of the agent runtime                                    *)
(* (packages/typescript/src/utils/batch-queue): items are enqueued by      *)
(* priority; ticks of a stored repeat task drain them in batches through a *)
(* semaphore, with retries; dispose flushes the urgent ones through a      *)
(* processor of its own, which does not wait for a drain under way.        *)
(*                                                                         *)
(* Abstractions.  An array of PriorityQueue is, for each item in it, the   *)
(* set of those in front of it.  The items of a batch acquire in any order.*)
(* Waits end at any moment.  The interval in the row of the repeat task is *)
(* left out, and with it updateInterval.  The loop that dispose runs       *)
(* without a processor differs only in not calling onExhausted.            *)
(***************************************************************************)
EXTENDS Integers, Sequences, FiniteSets

CONSTANTS
  Item,         \* items that may be enqueued
  Priority,     \* getPriority: a rank per item, Urgent for "high"
  BatchSize,    \* batchSize
  MaxParallel,  \* maxParallel
  MaxAttempts,  \* per item: its _batchMaxAttempts, or maxRetriesAfterFailure + 1
  MaxSize,      \* maxSize, with an onPressure that rejects
  Tick,         \* calls of drain that may overlap
  Fault,        \* kinds of fault that may happen
  MaxFaults     \* bound on their number

Urgent == 0

ASSUME QueueConstants ==
  /\ IsFiniteSet(Item) /\ Priority \in [Item -> Nat]
  /\ BatchSize \in Nat \ {0} /\ MaxParallel \in Nat \ {0}
  /\ MaxAttempts \in [Item -> Nat \ {0}] /\ MaxSize \in Nat /\ MaxFaults \in Nat

VARIABLES
  at,        \* where each item is
  ahead,     \* the items in front of it in its array of the queue
  by,        \* the processor it was handed to
  attempt,   \* calls of process for it
  permits,   \* permits of each processor's semaphore
  waiters,   \* waiters of each processor's semaphore
  draining,  \* isDraining
  batch,     \* the batch each call of drain awaits
  disposal,  \* how far dispose is; "no" until disposed is set
  starting,  \* how far TaskDrain.start is
  taskId,    \* whether TaskDrain has an id
  rows,      \* stored repeat tasks of this drain
  faults     \* faults so far

itemVars == <<at, ahead, by, attempt>>
poolVars == <<permits, waiters>>
drainVars == <<draining, batch>>
taskVars == <<disposal, starting, taskId, rows>>
queueVars == <<itemVars, poolVars, drainVars, taskVars, faults>>

Place == {"new", "refused", "queued", "ready", "waiting", "granted", "process",
          "exhausted", "backoff", "succeeded", "failed", "cleared", "dropped",
          "lost"}

\* The batch processor, and the one dispose makes for its flush.
Processor == {"drain", "flush"}
Limit(p) == IF p = "drain" THEN MaxParallel ELSE 1
Attempts(p, i) == IF p = "drain" THEN MaxAttempts[i] ELSE 1

Queued == {i \in Item : at[i] = "queued"}
Settled(i) == at[i] \in {"succeeded", "failed"}
Disposed == disposal # "no"

Goto(i, place) == at' = [at EXCEPT ![i] = place]

-----------------------------------------------------------------------------
(* The priority queue.  A definition named ...Bug is the one below it with *)
(* a plausible mistake in it; only mutants use it.                         *)

AcceptsBug == Cardinality(Queued) < MaxSize

Accepts == ~Disposed /\ Cardinality(Queued) < MaxSize

Enqueue(i) ==
  /\ at[i] = "new"
  /\ IF Accepts
     THEN /\ Goto(i, "queued")
          /\ ahead' = [ahead EXCEPT ![i] =
                         {j \in Queued : Priority[j] = Priority[i]}]
     ELSE Goto(i, "refused") /\ UNCHANGED ahead
  /\ UNCHANGED <<by, attempt, poolVars, drainVars, taskVars, faults>>

Before(i, j) == Priority[i] < Priority[j] \/ i \in ahead[j]

\* Items leave their arrays for a place.
Leave(gone, place) ==
  /\ at' = [i \in Item |-> IF i \in gone THEN place ELSE at[i]]
  /\ ahead' = [i \in Item |-> IF i \in gone THEN {} ELSE ahead[i] \ gone]

\* dequeueBatch: the first BatchSize items, or all there are.
IsNextBatch(b) ==
  /\ b \subseteq Queued
  /\ Cardinality(b) <= BatchSize
  /\ Cardinality(b) = BatchSize \/ b = Queued
  /\ \A i \in b, j \in Queued \ b : Before(i, j)

\* processBatch calls processOne on each item.
HandsOver(b, p) ==
  /\ Leave(b, "ready")
  /\ by' = [i \in Item |-> IF i \in b THEN p ELSE by[i]]

Clear ==
  /\ ~Disposed /\ Queued # {}
  /\ Leave(Queued, "cleared")
  /\ UNCHANGED <<by, attempt, poolVars, drainVars, taskVars, faults>>

-----------------------------------------------------------------------------
(* drain, which a tick of the repeat task calls once start has registered  *)
(* the worker; on an empty queue it changes nothing.                       *)

MayDrainBug == ~Disposed

MayDrain == ~Disposed /\ ~draining

Drain(k) ==
  /\ rows > 0 /\ starting # "no" /\ batch[k] = {}
  /\ MayDrain /\ Queued # {}
  /\ draining' = TRUE
  /\ \E b \in SUBSET Item :
       /\ IsNextBatch(b)
       /\ batch' = [batch EXCEPT ![k] = b]
       /\ HandsOver(b, "drain")
  /\ UNCHANGED <<attempt, poolVars, taskVars, faults>>

DrainEndsBug(k) ==
  /\ batch[k] # {} /\ \A i \in batch[k] : Settled(i)
  /\ draining' = (\E i \in batch[k] : at[i] = "failed")
  /\ batch' = [batch EXCEPT ![k] = {}]
  /\ UNCHANGED <<itemVars, poolVars, taskVars, faults>>

\* Promise.all has every outcome; the hooks cannot throw, finally resets.
DrainEnds(k) ==
  /\ batch[k] # {} /\ \A i \in batch[k] : Settled(i)
  /\ draining' = FALSE
  /\ batch' = [batch EXCEPT ![k] = {}]
  /\ UNCHANGED <<itemVars, poolVars, taskVars, faults>>

-----------------------------------------------------------------------------
(* processOne *)

\* acquire: the permit, or the end of the line.
Acquire(i) ==
  /\ at[i] = "ready"
  /\ IF permits[by[i]] > 0
     THEN /\ permits' = [permits EXCEPT ![by[i]] = @ - 1]
          /\ Goto(i, "granted")
          /\ UNCHANGED waiters
     ELSE /\ waiters' = [waiters EXCEPT ![by[i]] = Append(@, i)]
          /\ Goto(i, "waiting")
          /\ UNCHANGED permits
  /\ UNCHANGED <<ahead, by, attempt, drainVars, taskVars, faults>>

Process(i) ==
  /\ at[i] = "granted"
  /\ Goto(i, "process")
  /\ attempt' = [attempt EXCEPT ![i] = @ + 1]
  /\ UNCHANGED <<ahead, by, poolVars, drainVars, taskVars, faults>>

WakesBug(p, i, place) ==
  /\ at' = [at EXCEPT ![i] = place]
  /\ permits' = [permits EXCEPT ![p] = @ + 1]
  /\ UNCHANGED waiters

\* release: the permit goes to the first waiter, or back.
Wakes(p, i, place) ==
  IF waiters[p] = <<>>
  THEN /\ Goto(i, place)
       /\ permits' = [permits EXCEPT ![p] = @ + 1]
       /\ UNCHANGED waiters
  ELSE /\ at' = [at EXCEPT ![i] = place, ![Head(waiters[p])] = "granted"]
       /\ waiters' = [waiters EXCEPT ![p] = Tail(@)]
       /\ UNCHANGED permits

Succeeds(i) ==
  /\ at[i] = "process"
  /\ Wakes(by[i], i, "succeeded")
  /\ UNCHANGED <<ahead, by, attempt, drainVars, taskVars, faults>>

RetriesBug(i) == TRUE

Retries(i) == attempt[i] < Attempts(by[i], i)

\* The last attempt, or a shouldRetry that says no, exhausts the item; any
\* other failure has it back off without its permit.
Fails(i) ==
  /\ at[i] = "process"
  /\ \/ Wakes(by[i], i, "exhausted")
     \/ Retries(i) /\ Wakes(by[i], i, "backoff")
  /\ UNCHANGED <<ahead, by, attempt, drainVars, taskVars, faults>>

\* onExhausted, whose errors are swallowed.
GivenUp(i) ==
  /\ at[i] = "exhausted"
  /\ Goto(i, "failed")
  /\ UNCHANGED <<ahead, by, attempt, poolVars, drainVars, taskVars, faults>>

BackoffEnds(i) ==
  /\ at[i] = "backoff"
  /\ Goto(i, "ready")
  /\ UNCHANGED <<ahead, by, attempt, poolVars, drainVars, taskVars, faults>>

-----------------------------------------------------------------------------
(* TaskDrain, and dispose *)

\* The worker is registered before the first await.
Start ==
  /\ starting = "no" /\ ~Disposed
  /\ starting' = "finding"
  /\ UNCHANGED <<itemVars, poolVars, drainVars, disposal, taskId, rows, faults>>

EnsureBug == "creating"

\* ensureTask keeps the row of an earlier process.
Ensure == IF rows > 0 THEN "started" ELSE "creating"

FindTask ==
  /\ starting = "finding"
  /\ starting' = Ensure
  /\ taskId' = (starting' = "started")
  /\ UNCHANGED <<itemVars, poolVars, drainVars, disposal, rows, faults>>

CreateTask ==
  /\ starting = "creating"
  /\ starting' = "started" /\ taskId' = TRUE
  /\ rows' = rows + 1
  /\ UNCHANGED <<itemVars, poolVars, drainVars, disposal, faults>>

Dispose ==
  /\ ~Disposed
  /\ disposal' = "flush"
  /\ HandsOver({i \in Queued : Priority[i] = Urgent}, "flush")
  /\ UNCHANGED <<attempt, poolVars, drainVars, starting, taskId, rows,
                 faults>>

Flushed == \A i \in Item : by[i] = "flush" => Settled(i)

RowsLeftBug == rows - 1

\* TaskDrain.dispose deletes the row it has the id of.
RowsLeft == IF taskId THEN rows - 1 ELSE rows

\* Whatever is still queued is dropped.
DisposeEnds ==
  /\ disposal = "flush" /\ Flushed
  /\ disposal' = "done"
  /\ rows' = RowsLeft
  /\ taskId' = FALSE
  /\ Leave(Queued, "dropped")
  /\ UNCHANGED <<by, attempt, poolVars, drainVars, starting, faults>>

-----------------------------------------------------------------------------
(* Faults *)

Faulty(kind) == kind \in Fault /\ faults < MaxFaults /\ faults' = faults + 1

\* getTasksByName or createTask rejects; a later start returns at once, as
\* taskDrain is already set.
StartFails ==
  /\ Faulty("db_error") /\ starting \in {"finding", "creating"}
  /\ starting' = "failed"
  /\ UNCHANGED <<itemVars, poolVars, drainVars, disposal, taskId, rows>>

\* deleteTask rejects, which dispose swallows.
DeleteFails ==
  /\ Faulty("db_error") /\ taskId
  /\ disposal = "flush" /\ Flushed
  /\ disposal' = "done"
  /\ Leave(Queued, "dropped")
  /\ taskId' = FALSE
  /\ UNCHANGED <<by, attempt, poolVars, drainVars, starting, rows>>

\* onDrainBatchOutcomes throws after a flush: dispose rejects.
HookThrows ==
  /\ Faulty("hook_error")
  /\ disposal = "flush" /\ Flushed /\ \E i \in Item : by[i] = "flush"
  /\ disposal' = "threw"
  /\ UNCHANGED <<itemVars, poolVars, drainVars, starting, taskId, rows>>

Held(i) == at[i] \in {"queued", "ready", "waiting", "granted", "process",
                      "exhausted", "backoff"}

\* The process dies and its queue with it; the row stays.
Crash ==
  /\ Faulty("crash")
  /\ Leave({i \in Item : Held(i)}, "lost")
  /\ by' = [i \in Item |-> "none"]
  /\ permits' = [p \in Processor |-> Limit(p)]
  /\ waiters' = [p \in Processor |-> <<>>]
  /\ draining' = FALSE /\ batch' = [k \in Tick |-> {}]
  /\ disposal' = "no" /\ starting' = "no" /\ taskId' = FALSE
  /\ UNCHANGED <<attempt, rows>>

-----------------------------------------------------------------------------
(* Specification *)

QueueInit ==
  /\ at = [i \in Item |-> "new"]
  /\ ahead = [i \in Item |-> {}]
  /\ by = [i \in Item |-> "none"]
  /\ attempt = [i \in Item |-> 0]
  /\ permits = [p \in Processor |-> Limit(p)]
  /\ waiters = [p \in Processor |-> <<>>]
  /\ draining = FALSE /\ batch = [k \in Tick |-> {}]
  /\ disposal = "no" /\ starting = "no" /\ taskId = FALSE
  /\ rows = 0 /\ faults = 0

ItemStep(i) ==
  \/ Acquire(i) \/ Process(i) \/ Succeeds(i) \/ Fails(i) \/ GivenUp(i)
  \/ BackoffEnds(i)

QueueNext ==
  \/ \E i \in Item : Enqueue(i) \/ ItemStep(i)
  \/ \E k \in Tick : Drain(k) \/ DrainEnds(k)
  \/ Clear \/ Start \/ FindTask \/ CreateTask \/ Dispose \/ DisposeEnds
  \/ StartFails \/ DeleteFails \/ HookThrows \/ Crash

QueueSpec == QueueInit /\ [][QueueNext]_queueVars

\* The owner starts the queue, the stored task goes on ticking, calls of
\* process and their backoffs end, and calls under way continue.  Nobody has
\* to enqueue, clear or dispose.
FairQueueSpec ==
  /\ QueueSpec
  /\ WF_queueVars(Start \/ FindTask \/ CreateTask)
  /\ \A k \in Tick : WF_queueVars(Drain(k)) /\ WF_queueVars(DrainEnds(k))
  /\ \A i \in Item : WF_queueVars(ItemStep(i))
  /\ WF_queueVars(DisposeEnds)

-----------------------------------------------------------------------------
(* Properties *)

\* Items, semaphores and calls stay within their types.
QueueTypeOK ==
  /\ at \in [Item -> Place]
  /\ ahead \in [Item -> SUBSET Item]
  /\ by \in [Item -> Processor \cup {"none"}]
  /\ attempt \in [Item -> Nat]
  /\ permits \in [Processor -> Nat]
  /\ waiters \in [Processor -> Seq(Item)]
  /\ draining \in BOOLEAN /\ batch \in [Tick -> SUBSET Item]
  /\ disposal \in {"no", "flush", "done", "threw"}
  /\ starting \in {"no", "finding", "creating", "started", "failed"}
  /\ taskId \in BOOLEAN /\ rows \in Nat /\ faults \in 0 .. MaxFaults

Holders(p) == {i \in Item : at[i] \in {"granted", "process"} /\ by[i] = p}

\* semaphore.ts: "every acquire() must be paired with release()".  Over any
\* interleaving of successes, failures and retries no permit is lost or made
\* up, and nobody waits while one is free.
PermitsAreAccounted ==
  \A p \in Processor :
    /\ permits[p] + Cardinality(Holders(p)) = Limit(p)
    /\ waiters[p] # <<>> => permits[p] = 0

\* index.ts: "we skip re-entry so two batches don't process the same logical
\* slice or overlap process side effects".  One batch at a time, flagged, and
\* every item the batch processor works on is in it.
OneBatchAtATime ==
  /\ \A k, l \in Tick : batch[k] # {} /\ batch[l] # {} => k = l
  /\ \A i \in Item :
       by[i] = "drain" /\ Held(i) => draining /\ \E k \in Tick : i \in batch[k]

\* index.ts: "best-effort completion for urgent items before deleting the
\* repeat task and clearing the queue".  Dispose drops no urgent item, however
\* late it was enqueued.
UrgentIsTried ==
  \A i \in Item : at[i] = "dropped" => Priority[i] # Urgent

\* However often processes die, and start races dispose, TaskDrain leaves at
\* most one repeat task in the store: a second one would tick the queue twice.
OneRepeatTask == rows <= 1

\* What the pool sees of a place.
Life == [place \in Place |->
  CASE place = "new"                              -> "outside"
    [] place \in {"cleared", "dropped"}           -> "discarded"
    [] place = "failed"                           -> "given up"
    [] place \in {"refused", "succeeded", "lost"} -> place
    [] OTHER                                      -> "accepted"]

Pool == INSTANCE WorkPool WITH
  Places <- MaxParallel + 1,
  life <- [i \in Item |-> Life[at[i]]],
  tries <- attempt,
  busy <- {i \in Item : at[i] = "process"}

ImplementsPool == Pool!PoolSpec

\* Every item accepted is in the end processed, given up, or dropped by an
\* operator, a dispose or a crash, whatever faults there are but a start that
\* failed and a hook that made dispose reject.
EveryItemSettles ==
  \A i \in Item :
    at[i] = "queued" ~> \/ ~Held(i)
                        \/ starting = "failed" \/ disposal = "threw"
=============================================================================
