-------------------------- MODULE BatchQueueProofs --------------------------
(***************************************************************************)
(* Proofs about BatchQueue, for every finite set of items, any priorities, *)
(* batch sizes, limits, overlapping ticks and numbers of faults.           *)
(***************************************************************************)
EXTENDS BatchQueue, FiniteSetTheorems, SequenceTheorems, TLAPS

-----------------------------------------------------------------------------
(* Types *)

ItemsTyped ==
  /\ at \in [Item -> Place] /\ ahead \in [Item -> SUBSET Item]
  /\ by \in [Item -> Processor \cup {"none"}]
  /\ attempt \in [Item -> Nat]

PermitsTyped ==
  /\ permits \in [Processor -> Nat]
  /\ waiters \in [Processor -> Seq(Item)]

DrainsTyped == draining \in BOOLEAN /\ batch \in [Tick -> SUBSET Item]

TaskTyped ==
  /\ disposal \in {"no", "flush", "done", "threw"}
  /\ starting \in {"no", "finding", "creating", "started", "failed"}
  /\ taskId \in BOOLEAN /\ rows \in Nat

LEMMA TypeParts ==
  QueueTypeOK <=> /\ ItemsTyped /\ PermitsTyped /\ DrainsTyped /\ TaskTyped
                  /\ faults \in 0 .. MaxFaults
BY DEF QueueTypeOK, ItemsTyped, PermitsTyped, DrainsTyped, TaskTyped, Place

LEMMA TypePartsNext ==
  ASSUME ItemsTyped', PermitsTyped', DrainsTyped', TaskTyped',
         faults' \in 0 .. MaxFaults
  PROVE  QueueTypeOK'
BY DEF QueueTypeOK, ItemsTyped, PermitsTyped, DrainsTyped, TaskTyped, Place

\* The row of the repeat task is there whenever TaskDrain has its id, and is
\* not there while it is being created.
RowIsKnown ==
  /\ rows \in {0, 1}
  /\ starting = "creating" => rows = 0
  /\ taskId => rows = 1

\* An item is worked on by the processor it was handed to.
HandedOver ==
  \A i \in Item : Held(i) /\ at[i] # "queued" => by[i] \in Processor

LEMMA LimitType == \A p \in Processor : Limit(p) \in Nat \ {0}
BY QueueConstants DEF Limit, Processor

LEMMA FaultyType ==
  ASSUME NEW kind, Faulty(kind), faults \in 0 .. MaxFaults
  PROVE  faults' \in 0 .. MaxFaults
BY QueueConstants DEF Faulty

\* Setting a place leaves the items typed and the others where they are.
LEMMA GotoItems ==
  ASSUME ItemsTyped, NEW i \in Item, NEW place \in Place, Goto(i, place)
  PROVE  /\ at' \in [Item -> Place]
         /\ at'[i] = place
         /\ \A j \in Item : j # i => at'[j] = at[j]
BY DEF ItemsTyped, Goto

LEMMA LeaveItems ==
  ASSUME ItemsTyped, NEW gone, NEW place \in Place, Leave(gone, place)
  PROVE  /\ at' \in [Item -> Place] /\ ahead' \in [Item -> SUBSET Item]
         /\ \A i \in Item : at'[i] = IF i \in gone THEN place ELSE at[i]
BY DEF ItemsTyped, Leave

LEMMA HandsOverItems ==
  ASSUME ItemsTyped, NEW b, NEW p \in Processor, HandsOver(b, p)
  PROVE  /\ at' \in [Item -> Place] /\ ahead' \in [Item -> SUBSET Item]
         /\ by' \in [Item -> Processor \cup {"none"}]
         /\ \A i \in Item : at'[i] = IF i \in b THEN "ready" ELSE at[i]
         /\ \A i \in Item : by'[i] = IF i \in b THEN p ELSE by[i]
<1>1. "ready" \in Place /\ Leave(b, "ready")
  BY DEF Place, HandsOver
<1>2. by' = [i \in Item |-> IF i \in b THEN p ELSE by[i]]
  BY DEF HandsOver
<1>3. \A i \in Item : by'[i] = IF i \in b THEN p ELSE by[i]
  BY <1>2
<1>4. by' \in [Item -> Processor \cup {"none"}]
  BY <1>2 DEF ItemsTyped
<1>5. QED
  BY <1>1, <1>3, <1>4, LeaveItems

\* A release moves its item, and the first waiter if there is one.
LEMMA WakesItems ==
  ASSUME ItemsTyped, PermitsTyped, NEW p \in Processor, NEW i \in Item,
         NEW place \in Place, Wakes(p, i, place)
  PROVE  /\ at' \in [Item -> Place] /\ PermitsTyped'
         /\ \A j \in Item :
              at'[j] = IF waiters[p] # <<>> /\ j = Head(waiters[p])
                         THEN "granted"
                       ELSE IF j = i THEN place ELSE at[j]
         /\ \A q \in Processor : waiters'[q] =
              IF q = p /\ waiters[p] # <<>> THEN Tail(waiters[p]) ELSE waiters[q]
         /\ \A q \in Processor : permits'[q] =
              IF q = p /\ waiters[p] = <<>> THEN permits[p] + 1 ELSE permits[q]
<1>1. CASE waiters[p] = <<>>
  <2>1. /\ Goto(i, place) /\ waiters' = waiters
        /\ permits' = [permits EXCEPT ![p] = @ + 1]
    BY <1>1 DEF Wakes
  <2>2. PermitsTyped'
    BY <2>1 DEF PermitsTyped
  <2>3. \A q \in Processor :
          permits'[q] = IF q = p THEN permits[p] + 1 ELSE permits[q]
    BY <2>1 DEF PermitsTyped
  <2>4. QED
    BY <1>1, <2>1, <2>2, <2>3, GotoItems
<1>2. CASE waiters[p] # <<>>
  <2>1. Head(waiters[p]) \in Item /\ Tail(waiters[p]) \in Seq(Item)
    BY <1>2, HeadTailProperties DEF PermitsTyped
  <2>2. /\ at' = [at EXCEPT ![i] = place, ![Head(waiters[p])] = "granted"]
        /\ waiters' = [waiters EXCEPT ![p] = Tail(@)]
        /\ permits' = permits
    BY <1>2 DEF Wakes
  <2>3. PermitsTyped'
    BY <2>1, <2>2 DEF PermitsTyped
  <2>4. "granted" \in Place
    BY DEF Place
  <2>5. QED
    BY <1>2, <2>1, <2>2, <2>3, <2>4 DEF ItemsTyped, PermitsTyped
<1>3. QED
  BY <1>1, <1>2

LEMMA AcquireItems ==
  ASSUME ItemsTyped, PermitsTyped, HandedOver, NEW i \in Item, Acquire(i)
  PROVE  /\ at[i] = "ready" /\ by[i] \in Processor
         /\ at' \in [Item -> Place] /\ PermitsTyped'
         /\ \A j \in Item : at'[j] =
              IF j # i THEN at[j]
              ELSE IF permits[by[i]] > 0 THEN "granted" ELSE "waiting"
         /\ \A q \in Processor : permits'[q] =
              IF q = by[i] /\ permits[q] > 0 THEN permits[q] - 1 ELSE permits[q]
         /\ \A q \in Processor : waiters'[q] =
              IF q = by[i] /\ ~(permits[q] > 0) THEN Append(waiters[q], i)
                                                ELSE waiters[q]
<1>1. at[i] = "ready" /\ by[i] \in Processor
  BY DEF Acquire, HandedOver, Held
<1>2. CASE permits[by[i]] > 0
  <2>1. Goto(i, "granted") /\ waiters' = waiters
        /\ permits' = [permits EXCEPT ![by[i]] = @ - 1]
    BY <1>2 DEF Acquire
  <2>2. PermitsTyped'
    BY <1>1, <1>2, <2>1 DEF PermitsTyped
  <2>3. QED
    BY <1>1, <1>2, <2>1, <2>2, GotoItems DEF PermitsTyped, Place
<1>3. CASE ~(permits[by[i]] > 0)
  <2>1. Goto(i, "waiting") /\ permits' = permits
        /\ waiters' = [waiters EXCEPT ![by[i]] = Append(@, i)]
    BY <1>3 DEF Acquire
  <2>2. PermitsTyped'
    BY <1>1, <2>1, AppendProperties DEF PermitsTyped
  <2>3. QED
    BY <1>1, <1>3, <2>1, <2>2, GotoItems DEF PermitsTyped, Place
<1>4. QED
  BY <1>2, <1>3

-----------------------------------------------------------------------------
(* The waiters of the semaphores *)

\* Who is in line waits, for the semaphore of its processor, and stands in
\* line once.
InLine ==
  \A p \in Processor : \A n \in 1 .. Len(waiters[p]) :
    at[waiters[p][n]] = "waiting" /\ by[waiters[p][n]] = p

OnceInLine ==
  \A p \in Processor : \A m, n \in 1 .. Len(waiters[p]) :
    waiters[p][m] = waiters[p][n] => m = n

LineInv == InLine /\ OnceInLine

LEMMA LineStays ==
  ASSUME PermitsTyped, LineInv, waiters' = waiters,
         \A j \in Item : at[j] = "waiting" => at'[j] = "waiting" /\ by'[j] = by[j]
  PROVE  LineInv'
<1>1. ASSUME NEW p \in Processor, NEW n \in 1 .. Len(waiters[p])
      PROVE  at'[waiters[p][n]] = "waiting" /\ by'[waiters[p][n]] = p
  <2>1. waiters[p][n] \in Item
    BY ElementOfSeq DEF PermitsTyped
  <2>2. QED
    BY <2>1 DEF LineInv, InLine
<1>2. QED
  BY <1>1 DEF LineInv, InLine, OnceInLine

LEMMA LineAppends ==
  ASSUME ItemsTyped, PermitsTyped, HandedOver, LineInv,
         NEW i \in Item, Acquire(i)
  PROVE  LineInv'
<1>1. by' = by /\ by[i] \in Processor /\ at[i] = "ready"
  BY AcquireItems DEF Acquire
<1>2. ASSUME NEW p \in Processor, waiters'[p] = waiters[p]
      PROVE  /\ \A n \in 1 .. Len(waiters[p]) :
                  at'[waiters[p][n]] = "waiting" /\ by[waiters[p][n]] = p
             /\ \A m, n \in 1 .. Len(waiters[p]) :
                  waiters[p][m] = waiters[p][n] => m = n
  <2>1. ASSUME NEW n \in 1 .. Len(waiters[p])
        PROVE  at'[waiters[p][n]] = "waiting" /\ by[waiters[p][n]] = p
    <3>1. waiters[p][n] \in Item
      BY ElementOfSeq DEF PermitsTyped
    <3>2. at[waiters[p][n]] = "waiting" /\ by[waiters[p][n]] = p
      BY DEF LineInv, InLine
    <3>3. QED
      BY <1>1, <3>1, <3>2, AcquireItems
  <2>2. QED
    BY <2>1 DEF LineInv, OnceInLine
<1>3. ASSUME NEW p \in Processor, waiters'[p] # waiters[p]
      PROVE  /\ \A n \in 1 .. Len(waiters'[p]) :
                  at'[waiters'[p][n]] = "waiting" /\ by[waiters'[p][n]] = p
             /\ \A m, n \in 1 .. Len(waiters'[p]) :
                  waiters'[p][m] = waiters'[p][n] => m = n
  <2> DEFINE w == waiters[p]
  <2>1. /\ p = by[i] /\ waiters'[p] = Append(w, i)
        /\ ~(permits[by[i]] > 0)
    BY <1>3, AcquireItems
  <2>2. w \in Seq(Item)
    BY DEF PermitsTyped
  <2>3. /\ Len(waiters'[p]) = Len(w) + 1
        /\ \A n \in 1 .. Len(w) : waiters'[p][n] = w[n]
        /\ waiters'[p][Len(w) + 1] = i
    BY <2>1, <2>2, AppendProperties
  <2>4. at'[i] = "waiting" /\ \A j \in Item : j # i => at'[j] = at[j]
    BY <2>1, AcquireItems
  <2>5. \A n \in 1 .. Len(w) :
          w[n] \in Item /\ at[w[n]] = "waiting" /\ by[w[n]] = p /\ w[n] # i
    BY <1>1, <2>2, ElementOfSeq DEF LineInv, InLine
  <2>6. \A m, n \in 1 .. Len(w) : w[m] = w[n] => m = n
    BY DEF LineInv, OnceInLine
  <2>7. Len(w) \in Nat
    BY <2>2, LenProperties
  <2> HIDE DEF w
  <2>8. \A n \in 1 .. Len(w) + 1 : n \in 1 .. Len(w) \/ n = Len(w) + 1
    BY <2>7
  <2>9. QED
    BY <2>1, <2>3, <2>4, <2>5, <2>6, <2>7, <2>8
<1>4. QED
  BY <1>1, <1>2, <1>3 DEF LineInv, InLine, OnceInLine

LEMMA LineAdvances ==
  ASSUME ItemsTyped, PermitsTyped, LineInv, NEW i \in Item, at[i] = "process",
         NEW p \in Processor, NEW place \in Place, Wakes(p, i, place), by' = by
  PROVE  /\ LineInv'
         /\ waiters[p] # <<>> =>
              /\ Head(waiters[p]) \in Item
              /\ at[Head(waiters[p])] = "waiting"
              /\ by[Head(waiters[p])] = p
<1> DEFINE w == waiters[p]
<1>1. CASE w = <<>>
  <2>1. waiters' = waiters /\ \A j \in Item : j # i => at'[j] = at[j]
    BY <1>1, WakesItems DEF Wakes
  <2>2. QED
    BY <1>1, <2>1, LineStays
<1>2. CASE w # <<>>
  <2>1. w \in Seq(Item) /\ Len(w) \in Nat
    BY LenProperties DEF PermitsTyped
  <2>2. /\ Tail(w) \in Seq(Item) /\ Len(Tail(w)) = Len(w) - 1
        /\ \A n \in 1 .. Len(Tail(w)) : Tail(w)[n] = w[n + 1]
    BY <1>2, <2>1, HeadTailProperties
  <2>3. Head(w) = w[1] /\ 1 \in 1 .. Len(w)
    BY <1>2, <2>1, EmptySeq
  <2>4. \A n \in 1 .. Len(w) :
          w[n] \in Item /\ at[w[n]] = "waiting" /\ by[w[n]] = p
    BY <2>1, ElementOfSeq DEF LineInv, InLine
  <2>5. \A m, n \in 1 .. Len(w) : w[m] = w[n] => m = n
    BY DEF LineInv, OnceInLine
  <2>6. \A j \in Item : at'[j] = IF j = w[1] THEN "granted"
                                 ELSE IF j = i THEN place ELSE at[j]
    BY <1>2, <2>3, WakesItems
  <2>7. \A q \in Processor :
          waiters'[q] = IF q = p THEN Tail(w) ELSE waiters[q]
    BY <1>2, WakesItems
  <2>8. \A n \in 1 .. Len(Tail(w)) : n + 1 \in 1 .. Len(w) /\ n + 1 # 1
    BY <2>1, <2>2
  <2>9. ASSUME NEW n \in 1 .. Len(Tail(w))
        PROVE  at'[Tail(w)[n]] = "waiting" /\ by[Tail(w)[n]] = p
    <3>1. Tail(w)[n] = w[n + 1] /\ w[n + 1] # w[1] /\ w[n + 1] \in Item
      BY <2>2, <2>3, <2>4, <2>5, <2>8
    <3>2. at[w[n + 1]] = "waiting" /\ by[w[n + 1]] = p
      BY <2>4, <2>8
    <3>3. QED
      BY <2>6, <3>1, <3>2
  <2>10. ASSUME NEW m \in 1 .. Len(Tail(w)), NEW n \in 1 .. Len(Tail(w)),
                Tail(w)[m] = Tail(w)[n]
         PROVE  m = n
    <3>1. w[m + 1] = w[n + 1] /\ m + 1 \in 1 .. Len(w) /\ n + 1 \in 1 .. Len(w)
      BY <2>2, <2>8, <2>10
    <3>2. m + 1 = n + 1
      BY <2>5, <3>1
    <3>3. QED
      BY <2>1, <2>2, <3>2
  <2>11. ASSUME NEW q \in Processor, q # p, NEW n \in 1 .. Len(waiters[q])
         PROVE  at'[waiters[q][n]] = "waiting" /\ by[waiters[q][n]] = q
    <3>1. waiters[q][n] \in Item
      BY ElementOfSeq DEF PermitsTyped
    <3>2. at[waiters[q][n]] = "waiting" /\ by[waiters[q][n]] = q
      BY DEF LineInv, InLine
    <3>3. waiters[q][n] # w[1] /\ waiters[q][n] # i
      BY <2>3, <2>4, <2>11, <3>2
    <3>4. QED
      BY <2>6, <3>1, <3>2, <3>3
  <2>12. InLine'
    <3>1. ASSUME NEW q \in Processor, q # p
          PROVE  \A n \in 1 .. Len(waiters'[q]) :
                   at'[waiters'[q][n]] = "waiting" /\ by[waiters'[q][n]] = q
      <4>1. waiters'[q] = waiters[q]
        BY <2>7, <3>1
      <4>2. QED
        BY <2>11, <3>1, <4>1
    <3>2. waiters'[p] = Tail(w)
      BY <2>7
    <3>3. \A n \in 1 .. Len(waiters'[p]) :
            at'[waiters'[p][n]] = "waiting" /\ by[waiters'[p][n]] = p
      BY <2>9, <3>2
    <3>4. QED
      BY <3>1, <3>3 DEF InLine
  <2>13. OnceInLine'
    <3>1. ASSUME NEW q \in Processor, q # p
          PROVE  \A m, n \in 1 .. Len(waiters'[q]) :
                   waiters'[q][m] = waiters'[q][n] => m = n
      <4>1. waiters'[q] = waiters[q]
        BY <2>7, <3>1
      <4>2. QED
        BY <4>1 DEF LineInv, OnceInLine
    <3>2. waiters'[p] = Tail(w)
      BY <2>7
    <3>3. \A m, n \in 1 .. Len(waiters'[p]) :
            waiters'[p][m] = waiters'[p][n] => m = n
      BY <2>10, <3>2
    <3>4. QED
      BY <3>1, <3>3 DEF OnceInLine
  <2>14. QED
    BY <2>3, <2>4, <2>12, <2>13 DEF LineInv
<1>3. QED
  BY <1>1, <1>2

-----------------------------------------------------------------------------
(* The types, the row and the lines, together *)

QueueInv == QueueTypeOK /\ RowIsKnown /\ HandedOver /\ LineInv

LEMMA QueueInvInit == QueueInit => QueueInv
<1> SUFFICES ASSUME QueueInit PROVE QueueInv
  OBVIOUS
<1>1. ItemsTyped /\ DrainsTyped /\ TaskTyped
  BY DEF QueueInit, ItemsTyped, DrainsTyped, TaskTyped, Place
<1>2. PermitsTyped
  BY LimitType, EmptySeq DEF QueueInit, PermitsTyped
<1>3. faults \in 0 .. MaxFaults
  BY QueueConstants DEF QueueInit
<1>4. RowIsKnown /\ HandedOver
  BY DEF QueueInit, RowIsKnown, HandedOver, Held
<1>5. \A p \in Processor : Len(waiters[p]) = 0
  BY EmptySeq DEF QueueInit
<1>6. LineInv
  BY <1>5 DEF LineInv, InLine, OnceInLine
<1>7. QED
  BY <1>1, <1>2, <1>3, <1>4, <1>6, TypeParts DEF QueueInv

\* What a step of one item leaves alone.
ItemFrame == UNCHANGED <<ahead, by, drainVars, taskVars, faults>>

\* Steps that move one item, or one item and the first waiter.
LEMMA ItemStepInv ==
  ASSUME QueueInv, NEW i \in Item, ItemStep(i)
  PROVE  QueueInv'
<1>1. ItemsTyped /\ PermitsTyped /\ DrainsTyped /\ TaskTyped
      /\ faults \in 0 .. MaxFaults /\ RowIsKnown /\ HandedOver /\ LineInv
  BY TypeParts DEF QueueInv
<1>2. ItemFrame
  BY DEF ItemStep, ItemFrame, Acquire, Process, Succeeds, Fails, GivenUp,
         BackoffEnds, itemVars, poolVars, drainVars, taskVars
<1>3. DrainsTyped' /\ TaskTyped' /\ faults' \in 0 .. MaxFaults /\ RowIsKnown'
  BY <1>1, <1>2 DEF ItemFrame, DrainsTyped, TaskTyped, RowIsKnown, drainVars,
                    taskVars
<1>4. SUFFICES /\ at' \in [Item -> Place] /\ attempt' \in [Item -> Nat]
               /\ PermitsTyped' /\ LineInv'
               /\ \A j \in Item : at'[j] = at[j] \/ by[j] \in Processor
  <2>1. ItemsTyped'
    BY <1>1, <1>2, <1>4 DEF ItemsTyped, ItemFrame
  <2>2. ASSUME NEW j \in Item, Held(j)', at'[j] # "queued"
        PROVE  by'[j] \in Processor
    <3>1. by'[j] = by[j]
      BY <1>2 DEF ItemFrame
    <3>2. CASE at'[j] = at[j]
      BY <1>1, <2>2, <3>1, <3>2 DEF HandedOver, Held
    <3>3. QED
      BY <1>4, <3>1, <3>2
  <2>3. HandedOver'
    BY <2>2 DEF HandedOver, Held
  <2>4. QED
    BY <1>1, <1>3, <1>4, <2>1, <2>3, TypePartsNext DEF QueueInv
<1>5. at[i] \in {"ready", "granted", "process", "exhausted", "backoff"}
      /\ by[i] \in Processor
  BY <1>1 DEF ItemStep, Acquire, Process, Succeeds, Fails, GivenUp,
              BackoffEnds, HandedOver, Held
<1>a. ASSUME NEW place \in Place, Goto(i, place), waiters' = waiters,
             permits' = permits, at[i] # "waiting", at'[i] # "waiting"
      PROVE  /\ at' \in [Item -> Place] /\ PermitsTyped' /\ LineInv'
             /\ \A j \in Item : at'[j] = at[j] \/ by[j] \in Processor
  <2>1. /\ at' \in [Item -> Place]
        /\ \A j \in Item : j # i => at'[j] = at[j]
    BY <1>1, <1>a, GotoItems
  <2>2. PermitsTyped'
    BY <1>1, <1>a DEF PermitsTyped
  <2>3. LineInv'
    BY <1>1, <1>2, <1>a, <2>1, LineStays DEF ItemFrame
  <2>4. QED
    BY <1>5, <2>1, <2>2, <2>3
<1>b. ASSUME NEW place \in Place, at[i] = "process", Wakes(by[i], i, place)
      PROVE  /\ at' \in [Item -> Place] /\ PermitsTyped' /\ LineInv'
             /\ \A j \in Item : at'[j] = at[j] \/ by[j] \in Processor
  <2>1. LineInv' /\ (waiters[by[i]] # <<>> =>
                       by[Head(waiters[by[i]])] = by[i])
    BY <1>1, <1>2, <1>5, <1>b, LineAdvances DEF ItemFrame
  <2>2. QED
    BY <1>1, <1>5, <1>b, <2>1, WakesItems
<1>6. CASE Acquire(i)
  <2>1. attempt' = attempt
    BY <1>6 DEF Acquire
  <2>2. QED
    BY <1>1, <1>5, <1>6, <2>1, AcquireItems, LineAppends DEF ItemsTyped
<1>7. CASE Process(i)
  <2>1. attempt' \in [Item -> Nat] /\ Goto(i, "process")
        /\ waiters' = waiters /\ permits' = permits /\ at[i] # "waiting"
    BY <1>1, <1>7 DEF Process, ItemsTyped, poolVars
  <2>2. "process" \in Place /\ at'[i] # "waiting"
    BY <1>1, <2>1 DEF Place, Goto, ItemsTyped
  <2>3. QED
    BY <1>a, <2>1, <2>2
<1>8. CASE Succeeds(i)
  <2>1. attempt' = attempt /\ "succeeded" \in Place /\ at[i] = "process"
        /\ Wakes(by[i], i, "succeeded")
    BY <1>8 DEF Succeeds, Place
  <2>2. QED
    BY <1>1, <1>b, <2>1 DEF ItemsTyped
<1>9. CASE Fails(i)
  <2>1. attempt' = attempt /\ at[i] = "process"
        /\ \E place \in Place : Wakes(by[i], i, place)
    BY <1>9 DEF Fails, Place
  <2>2. QED
    BY <1>1, <1>b, <2>1 DEF ItemsTyped
<1>10. CASE GivenUp(i)
  <2>1. attempt' = attempt /\ Goto(i, "failed")
        /\ waiters' = waiters /\ permits' = permits /\ at[i] # "waiting"
    BY <1>1, <1>10 DEF GivenUp, poolVars
  <2>2. "failed" \in Place /\ at'[i] # "waiting"
    BY <1>1, <2>1 DEF Place, Goto, ItemsTyped
  <2>3. QED
    BY <1>1, <1>a, <2>1, <2>2 DEF ItemsTyped
<1>11. CASE BackoffEnds(i)
  <2>1. attempt' = attempt /\ Goto(i, "ready")
        /\ waiters' = waiters /\ permits' = permits /\ at[i] # "waiting"
    BY <1>1, <1>11 DEF BackoffEnds, poolVars
  <2>2. "ready" \in Place /\ at'[i] # "waiting"
    BY <1>1, <2>1 DEF Place, Goto, ItemsTyped
  <2>3. QED
    BY <1>1, <1>a, <2>1, <2>2 DEF ItemsTyped
<1>12. QED
  BY <1>6, <1>7, <1>8, <1>9, <1>10, <1>11 DEF ItemStep

\* Steps that only move items which are not in the hands of a processor.
Calm ==
  /\ attempt' = attempt /\ permits' = permits /\ waiters' = waiters
  /\ \A j \in Item : \/ at'[j] = at[j] /\ by'[j] = by[j]
                    \/ /\ at[j] = "new" /\ at'[j] \in {"queued", "refused"}
                       /\ by'[j] = by[j]
                    \/ /\ at[j] = "queued" /\ at'[j] \in {"cleared", "dropped"}
                       /\ by'[j] = by[j]
                    \/ /\ at[j] = "queued" /\ at'[j] = "ready"
                       /\ by'[j] \in Processor

LEMMA CalmInv ==
  ASSUME QueueInv, ItemsTyped', DrainsTyped', TaskTyped', RowIsKnown',
         faults' \in 0 .. MaxFaults, Calm
  PROVE  QueueInv'
<1>1. PermitsTyped /\ LineInv /\ HandedOver
  BY TypeParts DEF QueueInv
<1>2. PermitsTyped'
  BY <1>1 DEF PermitsTyped, Calm
<1>3. LineInv'
  <2>1. \A j \in Item : at[j] = "waiting" =>
                          at'[j] = "waiting" /\ by'[j] = by[j]
    BY DEF Calm
  <2>2. QED
    BY <1>1, <2>1, LineStays DEF Calm
<1>4. ASSUME NEW j \in Item, Held(j)', at'[j] # "queued"
      PROVE  by'[j] \in Processor
  BY <1>1, <1>4 DEF HandedOver, Held, Calm
<1>5. HandedOver'
  BY <1>4 DEF HandedOver, Held
<1>6. QED
  BY <1>2, <1>3, <1>5, TypePartsNext DEF QueueInv

\* Items leaving the queue for good.
LEMMA LeaveQueueInv ==
  ASSUME QueueInv, NEW place \in {"cleared", "dropped"}, Leave(Queued, place),
         UNCHANGED <<by, attempt, poolVars, drainVars>>, TaskTyped', RowIsKnown',
         faults' \in 0 .. MaxFaults
  PROVE  QueueInv' /\ Calm
<1>1. ItemsTyped /\ DrainsTyped
  BY TypeParts DEF QueueInv
<1>2. place \in Place
  BY DEF Place
<1>3. /\ at' \in [Item -> Place] /\ ahead' \in [Item -> SUBSET Item]
      /\ \A i \in Item : at'[i] = IF i \in Queued THEN place ELSE at[i]
  BY <1>1, <1>2, LeaveItems
<1>4. ItemsTyped' /\ DrainsTyped'
  BY <1>1, <1>3 DEF ItemsTyped, DrainsTyped, drainVars
<1>5. permits' = permits /\ waiters' = waiters /\ by' = by
  BY DEF poolVars
<1>6. Calm
  BY <1>3, <1>5 DEF Queued, Calm
<1>7. QED
  BY <1>4, <1>6, CalmInv

LEMMA HandsOverInv ==
  ASSUME QueueInv, NEW b \in SUBSET Queued, NEW p \in Processor,
         HandsOver(b, p), UNCHANGED <<attempt, poolVars>>, TaskTyped',
         RowIsKnown', DrainsTyped', faults' \in 0 .. MaxFaults
  PROVE  QueueInv' /\ Calm
<1>1. ItemsTyped
  BY TypeParts DEF QueueInv
<1>2. /\ at' \in [Item -> Place] /\ ahead' \in [Item -> SUBSET Item]
      /\ by' \in [Item -> Processor \cup {"none"}]
      /\ \A i \in Item : at'[i] = IF i \in b THEN "ready" ELSE at[i]
      /\ \A i \in Item : by'[i] = IF i \in b THEN p ELSE by[i]
  BY <1>1, HandsOverItems
<1>3. ItemsTyped'
  BY <1>1, <1>2 DEF ItemsTyped
<1>4. permits' = permits /\ waiters' = waiters
  BY DEF poolVars
<1>5. \A i \in b : at[i] = "queued"
  BY DEF Queued
<1>6. Calm
  BY <1>2, <1>4, <1>5 DEF Calm
<1>7. QED
  BY <1>3, <1>6, CalmInv

LEMMA EnqueueInv ==
  ASSUME QueueInv, NEW i \in Item, Enqueue(i)
  PROVE  QueueInv' /\ Calm
<1>1. ItemsTyped /\ DrainsTyped /\ TaskTyped /\ RowIsKnown
      /\ faults \in 0 .. MaxFaults
  BY TypeParts DEF QueueInv
<1>2. UNCHANGED <<by, attempt, permits, waiters>>
  BY DEF Enqueue, poolVars
<1>3. DrainsTyped' /\ TaskTyped' /\ RowIsKnown' /\ faults' \in 0 .. MaxFaults
  BY <1>1 DEF Enqueue, DrainsTyped, TaskTyped, RowIsKnown, drainVars, taskVars
<1>4. PICK place \in {"queued", "refused"} : Goto(i, place)
  BY DEF Enqueue
<1>5. place \in Place /\ at[i] = "new"
  BY DEF Place, Enqueue
<1>6. /\ at' \in [Item -> Place] /\ at'[i] = place
      /\ \A j \in Item : j # i => at'[j] = at[j]
  BY <1>1, <1>4, <1>5, GotoItems
<1>7. ahead' \in [Item -> SUBSET Item]
  BY <1>1 DEF Enqueue, ItemsTyped, Queued
<1>8. ItemsTyped'
  BY <1>1, <1>2, <1>6, <1>7 DEF ItemsTyped
<1>9. Calm
  BY <1>2, <1>5, <1>6 DEF Calm
<1>10. QED
  BY <1>3, <1>8, <1>9, CalmInv

LEMMA CrashInv ==
  ASSUME QueueInv, Crash
  PROVE  QueueInv'
<1>1. ItemsTyped /\ TaskTyped /\ RowIsKnown /\ faults \in 0 .. MaxFaults
  BY TypeParts DEF QueueInv
<1>2. "lost" \in Place /\ Leave({i \in Item : Held(i)}, "lost")
  BY DEF Crash, Place
<1>3. /\ at' \in [Item -> Place] /\ ahead' \in [Item -> SUBSET Item]
      /\ \A i \in Item :
           at'[i] = IF i \in {j \in Item : Held(j)} THEN "lost" ELSE at[i]
  BY <1>1, <1>2, LeaveItems
<1>4. ItemsTyped'
  BY <1>1, <1>3 DEF ItemsTyped, Crash
<1>5. PermitsTyped'
  BY LimitType, EmptySeq DEF Crash, PermitsTyped
<1>6. DrainsTyped' /\ TaskTyped' /\ RowIsKnown'
  BY <1>1 DEF Crash, DrainsTyped, TaskTyped, RowIsKnown
<1>7. faults' \in 0 .. MaxFaults
  BY <1>1, FaultyType DEF Crash
<1>8. \A i \in Item : at'[i] \notin {"queued", "ready", "waiting", "granted",
                                   "process", "exhausted", "backoff"}
  BY <1>3 DEF Held
<1>9. HandedOver'
  BY <1>8 DEF HandedOver, Held
<1>10. \A p \in Processor : Len(waiters'[p]) = 0
  BY EmptySeq DEF Crash
<1>11. LineInv'
  BY <1>10 DEF LineInv, InLine, OnceInLine
<1>12. QED
  BY <1>4, <1>5, <1>6, <1>7, <1>9, <1>11, TypePartsNext DEF QueueInv

\* Steps of TaskDrain.start and of dispose that leave the items alone.
LEMMA TaskStepInv ==
  ASSUME QueueInv, UNCHANGED <<itemVars, poolVars, drainVars>>, TaskTyped',
         RowIsKnown', faults' \in 0 .. MaxFaults
  PROVE  QueueInv' /\ Calm
<1>1. ItemsTyped' /\ DrainsTyped'
  BY TypeParts DEF QueueInv, ItemsTyped, DrainsTyped, itemVars, drainVars
<1>2. Calm
  BY DEF itemVars, poolVars, Calm
<1>3. QED
  BY <1>1, <1>2, CalmInv

LEMMA RowsLeftType ==
  ASSUME TaskTyped, RowIsKnown, rows' = RowsLeft, taskId' = FALSE,
         starting' = starting, disposal' = "done"
  PROVE  TaskTyped' /\ RowIsKnown'
<1>1. rows' \in {0, 1} /\ (starting = "creating" => rows' = 0)
  <2>1. CASE taskId
    <3>1. rows = 1 /\ rows' = rows - 1
      BY <2>1, Zenon DEF RowIsKnown, RowsLeft
    <3>2. QED
      BY <3>1
  <2>2. CASE ~taskId
    <3>1. rows' = rows
      BY <2>2, Zenon DEF RowsLeft
    <3>2. QED
      BY <3>1 DEF RowIsKnown
  <2>3. QED
    BY <2>1, <2>2
<1>2. RowIsKnown'
  BY <1>1, Zenon DEF RowIsKnown
<1>3. taskId' \in BOOLEAN
  BY Zenon
<1>4. rows' \in Nat
  BY <1>1
<1>5. QED
  BY <1>2, <1>3, <1>4 DEF TaskTyped

\* Every step keeps the invariant, and is a step of an item in the hands of
\* a processor, a crash, or calm.
LEMMA QueueInvStep ==
  ASSUME QueueInv, [QueueNext]_queueVars
  PROVE  QueueInv' /\ (Calm \/ Crash \/ \E i \in Item : ItemStep(i))
<1> DEFINE Goal == QueueInv' /\ (Calm \/ Crash \/ \E i \in Item : ItemStep(i))
<1>0. ItemsTyped /\ PermitsTyped /\ DrainsTyped /\ TaskTyped
      /\ faults \in 0 .. MaxFaults /\ RowIsKnown
  BY TypeParts DEF QueueInv
<1>1. ASSUME NEW i \in Item, Enqueue(i)
      PROVE  Goal
  BY <1>1, EnqueueInv
<1>2. ASSUME NEW i \in Item, ItemStep(i)
      PROVE  Goal
  BY <1>2, ItemStepInv
<1>3. ASSUME NEW k \in Tick, Drain(k)
      PROVE  Goal
  <2>1. PICK b \in SUBSET Item : /\ IsNextBatch(b)
                                 /\ batch' = [batch EXCEPT ![k] = b]
                                 /\ HandsOver(b, "drain")
    BY <1>3 DEF Drain
  <2>2. b \in SUBSET Queued /\ "drain" \in Processor
    BY <2>1 DEF IsNextBatch, Processor
  <2>3. DrainsTyped'
    BY <1>0, <1>3, <2>1 DEF Drain, DrainsTyped
  <2>4. TaskTyped' /\ RowIsKnown' /\ faults' \in 0 .. MaxFaults
        /\ UNCHANGED <<attempt, poolVars>>
    BY <1>0, <1>3 DEF Drain, TaskTyped, RowIsKnown, taskVars
  <2>5. QED
    BY <2>1, <2>2, <2>3, <2>4, HandsOverInv
<1>4. ASSUME NEW k \in Tick, DrainEnds(k)
      PROVE  Goal
  <2>1. ItemsTyped' /\ DrainsTyped' /\ TaskTyped' /\ RowIsKnown'
        /\ faults' \in 0 .. MaxFaults
    BY <1>0, <1>4 DEF DrainEnds, ItemsTyped, DrainsTyped, TaskTyped, RowIsKnown,
                      itemVars, taskVars
  <2>2. Calm
    BY <1>4 DEF DrainEnds, itemVars, poolVars, Calm
  <2>3. QED
    BY <2>1, <2>2, CalmInv
<1>5. CASE Clear
  <2>1. TaskTyped' /\ RowIsKnown' /\ faults' \in 0 .. MaxFaults
    BY <1>0, <1>5 DEF Clear, TaskTyped, RowIsKnown, taskVars
  <2>2. Leave(Queued, "cleared") /\ UNCHANGED <<by, attempt, poolVars, drainVars>>
    BY <1>5 DEF Clear
  <2>3. QED
    BY <2>1, <2>2, LeaveQueueInv
<1>6. CASE Start
  <2>1. TaskTyped' /\ RowIsKnown' /\ faults' \in 0 .. MaxFaults
        /\ UNCHANGED <<itemVars, poolVars, drainVars>>
    BY <1>0, <1>6 DEF Start, TaskTyped, RowIsKnown
  <2>2. QED
    BY <2>1, TaskStepInv
<1>7. CASE FindTask
  <2>1. TaskTyped' /\ RowIsKnown' /\ faults' \in 0 .. MaxFaults
        /\ UNCHANGED <<itemVars, poolVars, drainVars>>
    BY <1>0, <1>7 DEF FindTask, Ensure, TaskTyped, RowIsKnown
  <2>2. QED
    BY <2>1, TaskStepInv
<1>8. CASE CreateTask
  <2>1. TaskTyped' /\ RowIsKnown' /\ faults' \in 0 .. MaxFaults
        /\ UNCHANGED <<itemVars, poolVars, drainVars>>
    BY <1>0, <1>8 DEF CreateTask, TaskTyped, RowIsKnown
  <2>2. QED
    BY <2>1, TaskStepInv
<1>9. CASE Dispose
  <2> DEFINE b == {i \in Queued : Priority[i] = Urgent}
  <2>1. b \in SUBSET Queued /\ "flush" \in Processor
    BY DEF Processor
  <2>2. HandsOver(b, "flush") /\ UNCHANGED <<attempt, poolVars, drainVars>>
    BY <1>9 DEF Dispose
  <2>3. TaskTyped' /\ RowIsKnown' /\ DrainsTyped' /\ faults' \in 0 .. MaxFaults
    BY <1>0, <1>9 DEF Dispose, TaskTyped, RowIsKnown, DrainsTyped, drainVars
  <2> HIDE DEF b
  <2>4. QED
    BY <2>1, <2>2, <2>3, HandsOverInv
<1>10. CASE DisposeEnds
  <2>1. TaskTyped' /\ RowIsKnown' /\ faults' \in 0 .. MaxFaults
    BY <1>0, <1>10, RowsLeftType DEF DisposeEnds
  <2>2. Leave(Queued, "dropped") /\ UNCHANGED <<by, attempt, poolVars, drainVars>>
    BY <1>10 DEF DisposeEnds
  <2>3. QED
    BY <2>1, <2>2, LeaveQueueInv
<1>11. CASE StartFails
  <2>1. TaskTyped' /\ RowIsKnown' /\ faults' \in 0 .. MaxFaults
        /\ UNCHANGED <<itemVars, poolVars, drainVars>>
    BY <1>0, <1>11, FaultyType DEF StartFails, TaskTyped, RowIsKnown
  <2>2. QED
    BY <2>1, TaskStepInv
<1>12. CASE DeleteFails
  <2>1. TaskTyped' /\ RowIsKnown' /\ faults' \in 0 .. MaxFaults
    BY <1>0, <1>12, FaultyType DEF DeleteFails, TaskTyped, RowIsKnown
  <2>2. Leave(Queued, "dropped") /\ UNCHANGED <<by, attempt, poolVars, drainVars>>
    BY <1>12 DEF DeleteFails
  <2>3. QED
    BY <2>1, <2>2, LeaveQueueInv
<1>13. CASE HookThrows
  <2>1. TaskTyped' /\ RowIsKnown' /\ faults' \in 0 .. MaxFaults
        /\ UNCHANGED <<itemVars, poolVars, drainVars>>
    BY <1>0, <1>13, FaultyType DEF HookThrows, TaskTyped, RowIsKnown
  <2>2. QED
    BY <2>1, TaskStepInv
<1>14. CASE Crash
  BY <1>14, CrashInv
<1>15. CASE UNCHANGED queueVars
  <2>1. TaskTyped' /\ RowIsKnown' /\ faults' \in 0 .. MaxFaults
        /\ UNCHANGED <<itemVars, poolVars, drainVars>>
    BY <1>0, <1>15 DEF queueVars, taskVars, TaskTyped, RowIsKnown
  <2>2. QED
    BY <2>1, TaskStepInv
<1>16. QED
  BY <1>1, <1>2, <1>3, <1>4, <1>5, <1>6, <1>7, <1>8, <1>9, <1>10, <1>11,
     <1>12, <1>13, <1>14, <1>15 DEF QueueNext

THEOREM QueueInvariant == QueueSpec => []QueueInv
<1>1. QueueInv /\ [QueueNext]_queueVars => QueueInv'
  BY QueueInvStep
<1>2. QED
  BY <1>1, QueueInvInit, PTL DEF QueueSpec

\* Items, semaphores, calls of drain and the row of the repeat task stay
\* within their types, whatever is enqueued, drained, disposed of and lost.
THEOREM QueueIsTyped == QueueSpec => []QueueTypeOK
<1>1. QueueInv => QueueTypeOK
  BY DEF QueueInv
<1>2. QED
  BY <1>1, QueueInvariant, PTL

\* The store never holds two repeat tasks of one drain: a start that finds
\* the row of an earlier process, or of a disposed queue, keeps it.
THEOREM QueueHasOneRepeatTask == QueueSpec => []OneRepeatTask
<1>1. QueueInv => OneRepeatTask
  BY DEF QueueInv, RowIsKnown, OneRepeatTask
<1>2. QED
  BY <1>1, QueueInvariant, PTL

-----------------------------------------------------------------------------
(* Permits *)

LEMMA QueueInvParts ==
  ASSUME QueueInv
  PROVE  /\ ItemsTyped /\ PermitsTyped /\ DrainsTyped /\ TaskTyped
         /\ HandedOver /\ LineInv
BY TypeParts DEF QueueInv

LEMMA HoldersFinite ==
  \A p : IsFiniteSet(Holders(p)) /\ Cardinality(Holders(p)) \in Nat
<1>1. ASSUME NEW p
      PROVE  IsFiniteSet(Holders(p))
  <2>1. Holders(p) \in SUBSET Item
    BY DEF Holders
  <2>2. QED
    BY <2>1, FS_Subset, QueueConstants
<1>2. QED
  BY <1>1, FS_CardinalityType

\* Who holds a permit after a step that moves only item i and perhaps h.
LEMMA HoldersStay ==
  ASSUME NEW p \in Processor,
         \A j \in Item :
           (at[j] \in {"granted", "process"} /\ by[j] = p) <=>
           (at'[j] \in {"granted", "process"} /\ by'[j] = p)
  PROVE  Holders(p)' = Holders(p)
BY DEF Holders

LEMMA PermitsInit == QueueInit => PermitsAreAccounted
<1> SUFFICES ASSUME QueueInit, NEW p \in Processor
             PROVE  /\ permits[p] + Cardinality(Holders(p)) = Limit(p)
                    /\ waiters[p] # <<>> => permits[p] = 0
  BY DEF PermitsAreAccounted
<1>1. Holders(p) = {}
  BY DEF QueueInit, Holders
<1>2. Cardinality(Holders(p)) = 0
  BY <1>1, FS_EmptySet
<1>3. permits[p] = Limit(p) /\ waiters[p] = <<>>
  BY DEF QueueInit
<1>4. QED
  BY <1>2, <1>3, LimitType

\* acquire takes a permit and makes a holder, or joins the line when there is
\* none.
LEMMA AcquireAccounts ==
  ASSUME QueueInv, PermitsAreAccounted, NEW i \in Item, Acquire(i),
         NEW p \in Processor
  PROVE  /\ permits'[p] + Cardinality(Holders(p)') = Limit(p)
         /\ waiters'[p] # <<>> => permits'[p] = 0
<1> DEFINE c == Cardinality(Holders(p))
<1>1. ItemsTyped /\ PermitsTyped /\ HandedOver /\ by' = by
  BY QueueInvParts DEF Acquire
<1>2. at[i] = "ready" /\ by[i] \in Processor
  BY <1>1, AcquireItems
<1>3. permits[p] \in Nat /\ c \in Nat /\ permits[p] + c = Limit(p)
      /\ (waiters[p] # <<>> => permits[p] = 0)
  BY <1>1, HoldersFinite DEF PermitsTyped, PermitsAreAccounted
<1>4. CASE p = by[i] /\ permits[p] > 0
  <2>1. at'[i] = "granted" /\ \A j \in Item : j # i => at'[j] = at[j]
    BY <1>1, <1>4, AcquireItems
  <2>2. Holders(p)' = Holders(p) \cup {i} /\ i \notin Holders(p)
    BY <1>1, <1>2, <1>4, <2>1 DEF Holders
  <2>3. Cardinality(Holders(p)') = c + 1
    BY <2>2, HoldersFinite, FS_AddElement
  <2>4. permits'[p] = permits[p] - 1 /\ waiters'[p] = waiters[p]
    BY <1>1, <1>4, AcquireItems
  <2> HIDE DEF c
  <2>5. waiters'[p] = <<>>
    BY <1>3, <1>4, <2>4
  <2>6. QED
    BY <1>3, <1>4, <2>3, <2>4, <2>5
<1>5. CASE ~(p = by[i] /\ permits[p] > 0)
  <2>1. Holders(p)' = Holders(p)
    BY <1>1, <1>2, <1>5, AcquireItems DEF Holders
  <2>2. permits'[p] = permits[p]
        /\ (waiters'[p] = waiters[p] \/ ~(permits[p] > 0))
    BY <1>1, <1>5, AcquireItems
  <2> HIDE DEF c
  <2>3. QED
    BY <1>3, <2>1, <2>2 DEF c
<1>6. QED
  BY <1>4, <1>5

\* release gives the permit back, or makes the first waiter its holder.
LEMMA WakesAccounts ==
  ASSUME QueueInv, PermitsAreAccounted, NEW i \in Item, at[i] = "process",
         NEW place \in Place \ {"granted", "process"},
         Wakes(by[i], i, place), by' = by, NEW p \in Processor
  PROVE  /\ permits'[p] + Cardinality(Holders(p)') = Limit(p)
         /\ waiters'[p] # <<>> => permits'[p] = 0
<1> DEFINE c == Cardinality(Holders(p))
           h == Head(waiters[p])
<1>1. ItemsTyped /\ PermitsTyped /\ HandedOver /\ LineInv
  BY QueueInvParts
<1>2. by[i] \in Processor
  BY <1>1 DEF HandedOver, Held
<1>3. permits[p] \in Nat /\ c \in Nat /\ permits[p] + c = Limit(p)
      /\ (waiters[p] # <<>> => permits[p] = 0)
  BY <1>1, HoldersFinite DEF PermitsTyped, PermitsAreAccounted
<1>4. /\ \A j \in Item :
           at'[j] = IF waiters[by[i]] # <<>> /\ j = Head(waiters[by[i]])
                      THEN "granted"
                    ELSE IF j = i THEN place ELSE at[j]
      /\ waiters'[p] = IF p = by[i] /\ waiters[by[i]] # <<>>
                         THEN Tail(waiters[by[i]]) ELSE waiters[p]
      /\ permits'[p] = IF p = by[i] /\ waiters[by[i]] = <<>>
                         THEN permits[by[i]] + 1 ELSE permits[p]
  BY <1>1, <1>2, WakesItems
<1>5. waiters[by[i]] # <<>> =>
        /\ Head(waiters[by[i]]) \in Item
        /\ at[Head(waiters[by[i]])] = "waiting"
        /\ by[Head(waiters[by[i]])] = by[i]
  BY <1>1, <1>2, LineAdvances
<1>6. CASE p # by[i]
  <2>1. Holders(p)' = Holders(p)
    BY <1>4, <1>5, <1>6 DEF Holders
  <2>2. QED
    BY <1>3, <1>4, <1>6, <2>1
<1>7. CASE p = by[i] /\ waiters[p] = <<>>
  <2>1. Holders(p)' = Holders(p) \ {i} /\ i \in Holders(p)
    BY <1>4, <1>7 DEF Holders
  <2>2. Cardinality(Holders(p)') = c - 1
    BY <2>1, HoldersFinite, FS_RemoveElement
  <2>3. permits'[p] = permits[p] + 1 /\ waiters'[p] = <<>>
    BY <1>4, <1>7
  <2> HIDE DEF c
  <2>4. QED
    BY <1>3, <2>2, <2>3
<1>8. CASE p = by[i] /\ waiters[p] # <<>>
  <2>1. h \in Item /\ at[h] = "waiting" /\ by[h] = p
    BY <1>5, <1>8
  <2>2. \A j \in Item : at'[j] = IF j = h THEN "granted"
                                 ELSE IF j = i THEN place ELSE at[j]
    BY <1>4, <1>8
  <2> HIDE DEF h
  <2>3. /\ Holders(p)' = (Holders(p) \ {i}) \cup {h}
        /\ i \in Holders(p) /\ h \notin Holders(p) \ {i}
    BY <1>8, <2>1, <2>2 DEF Holders
  <2>4. IsFiniteSet(Holders(p) \ {i})
        /\ Cardinality(Holders(p) \ {i}) = c - 1
    BY <2>3, HoldersFinite, FS_RemoveElement
  <2>5. Cardinality(Holders(p)') = (c - 1) + 1
    BY <2>3, <2>4, FS_AddElement
  <2>6. permits'[p] = permits[p]
    BY <1>4, <1>8
  <2> HIDE DEF c
  <2>7. QED
    BY <1>3, <1>8, <2>5, <2>6
<1>9. QED
  BY <1>6, <1>7, <1>8

LEMMA PermitsStep ==
  ASSUME QueueInv, PermitsAreAccounted, [QueueNext]_queueVars
  PROVE  PermitsAreAccounted'
<1> SUFFICES ASSUME NEW p \in Processor
             PROVE  /\ permits'[p] + Cardinality(Holders(p)') = Limit(p)
                    /\ waiters'[p] # <<>> => permits'[p] = 0
  BY DEF PermitsAreAccounted
<1>1. ItemsTyped /\ PermitsTyped /\ HandedOver /\ LineInv
  BY QueueInvParts
<1>a. ASSUME Holders(p)' = Holders(p), permits' = permits, waiters' = waiters
      PROVE  /\ permits'[p] + Cardinality(Holders(p)') = Limit(p)
             /\ waiters'[p] # <<>> => permits'[p] = 0
  BY <1>a DEF PermitsAreAccounted
<1>b. ASSUME NEW i \in Item, NEW place \in Place \ {"granted", "process"},
             at[i] \notin {"granted", "process"}, Goto(i, place), by' = by
      PROVE  Holders(p)' = Holders(p)
  BY <1>1, <1>b, GotoItems DEF Holders
<1>2. CASE Calm
  <2>1. Holders(p)' = Holders(p)
    BY <1>2, HoldersStay DEF Calm
  <2>2. QED
    BY <1>2, <1>a, <2>1 DEF Calm
<1>3. CASE Crash
  <2>1. \A i \in Item : by'[i] = "none"
    BY <1>3 DEF Crash
  <2>2. Holders(p)' = {}
    BY <2>1 DEF Holders, Processor
  <2>3. Cardinality(Holders(p)') = 0
    BY <2>2, FS_EmptySet
  <2>4. permits'[p] = Limit(p) /\ waiters'[p] = <<>>
    BY <1>3 DEF Crash
  <2>5. QED
    BY <2>3, <2>4, LimitType
<1>4. ASSUME NEW i \in Item, ItemStep(i)
      PROVE  /\ permits'[p] + Cardinality(Holders(p)') = Limit(p)
             /\ waiters'[p] # <<>> => permits'[p] = 0
  <2>1. CASE Acquire(i)
    BY <2>1, AcquireAccounts
  <2>2. CASE Process(i)
    <3>1. at[i] = "granted" /\ Goto(i, "process") /\ "process" \in Place
          /\ by' = by /\ permits' = permits /\ waiters' = waiters
      BY <2>2 DEF Process, Place, poolVars
    <3>2. Holders(p)' = Holders(p)
      BY <1>1, <3>1, GotoItems DEF Holders
    <3>3. QED
      BY <1>a, <3>1, <3>2
  <2>3. CASE Succeeds(i)
    <3>1. at[i] = "process" /\ by' = by /\ Wakes(by[i], i, "succeeded")
          /\ "succeeded" \in Place \ {"granted", "process"}
      BY <2>3 DEF Succeeds, Place
    <3>2. QED
      BY <3>1, WakesAccounts
  <2>4. CASE Fails(i)
    <3>1. at[i] = "process" /\ by' = by
          /\ \E place \in Place \ {"granted", "process"} :
               Wakes(by[i], i, place)
      BY <2>4 DEF Fails, Place
    <3>2. QED
      BY <3>1, WakesAccounts
  <2>5. CASE GivenUp(i)
    <3>1. at[i] = "exhausted" /\ Goto(i, "failed")
          /\ "failed" \in Place \ {"granted", "process"}
          /\ by' = by /\ permits' = permits /\ waiters' = waiters
      BY <2>5 DEF GivenUp, Place, poolVars
    <3>2. QED
      BY <1>a, <1>b, <3>1
  <2>6. CASE BackoffEnds(i)
    <3>1. at[i] = "backoff" /\ Goto(i, "ready")
          /\ "ready" \in Place \ {"granted", "process"}
          /\ by' = by /\ permits' = permits /\ waiters' = waiters
      BY <2>6 DEF BackoffEnds, Place, poolVars
    <3>2. QED
      BY <1>a, <1>b, <3>1
  <2>7. QED
    BY <1>4, <2>1, <2>2, <2>3, <2>4, <2>5, <2>6 DEF ItemStep
<1>5. QED
  BY <1>2, <1>3, <1>4, QueueInvStep

\* No permit of a semaphore is lost or made up, and nobody waits while one is
\* free, over any interleaving of successes, failures, retries and a flush.
THEOREM QueuePermits == QueueSpec => []PermitsAreAccounted
<1>1. QueueInv /\ PermitsAreAccounted /\ [QueueNext]_queueVars
        => PermitsAreAccounted'
  BY PermitsStep
<1>2. QED
  BY <1>1, PermitsInit, QueueInvariant, PTL DEF QueueSpec

-----------------------------------------------------------------------------
(* Batches *)

InHands == {"ready", "waiting", "granted", "process", "exhausted", "backoff"}

\* A step of item i moves i and perhaps a waiter, between the hands of a
\* processor and an outcome.
LEMMA ItemStepMoves ==
  ASSUME QueueInv, NEW i \in Item, ItemStep(i)
  PROVE  /\ by' = by /\ UNCHANGED <<drainVars, taskVars>>
         /\ \A j \in Item :
              \/ at'[j] = at[j] /\ (at[j] # "granted" => attempt'[j] = attempt[j])
              \/ /\ at[j] \in InHands
                 /\ at'[j] \in InHands \cup {"succeeded", "failed"}
<1>1. ItemsTyped /\ PermitsTyped /\ HandedOver /\ LineInv
  BY QueueInvParts
<1>2. by' = by /\ UNCHANGED <<drainVars, taskVars>>
  BY DEF ItemStep, Acquire, Process, Succeeds, Fails, GivenUp, BackoffEnds
<1>a. ASSUME NEW place \in InHands \cup {"succeeded", "failed"},
             at[i] \in InHands, Goto(i, place)
      PROVE  \A j \in Item : \/ at'[j] = at[j] /\ j # i
                             \/ at[j] \in InHands /\ at'[j] = place
  BY <1>1, <1>a, GotoItems DEF InHands, Place
<1>b. ASSUME NEW place \in {"succeeded", "exhausted", "backoff"},
             at[i] = "process", Wakes(by[i], i, place), attempt' = attempt
      PROVE  \A j \in Item :
               \/ at'[j] = at[j] /\ (at[j] # "granted" => attempt'[j] = attempt[j])
               \/ /\ at[j] \in InHands
                  /\ at'[j] \in InHands \cup {"succeeded", "failed"}
  <2>1. by[i] \in Processor /\ place \in Place
    BY <1>1, <1>b DEF HandedOver, Held, Place
  <2>2. waiters[by[i]] # <<>> => at[Head(waiters[by[i]])] = "waiting"
    BY <1>1, <1>2, <1>b, <2>1, LineAdvances
  <2>3. \A j \in Item :
          at'[j] = IF waiters[by[i]] # <<>> /\ j = Head(waiters[by[i]])
                     THEN "granted" ELSE IF j = i THEN place ELSE at[j]
    BY <1>1, <1>b, <2>1, WakesItems
  <2>4. QED
    BY <1>b, <2>2, <2>3 DEF InHands
<1>3. CASE Acquire(i)
  BY <1>1, <1>2, <1>3, AcquireItems DEF Acquire, InHands
<1>4. CASE Process(i)
  <2>1. at[i] = "granted" /\ Goto(i, "process")
        /\ \A j \in Item : j # i => attempt'[j] = attempt[j]
    BY <1>1, <1>4 DEF Process, ItemsTyped
  <2>2. QED
    BY <1>2, <1>a, <2>1 DEF InHands
<1>5. CASE Succeeds(i)
  BY <1>2, <1>5, <1>b DEF Succeeds
<1>6. CASE Fails(i)
  BY <1>2, <1>6, <1>b DEF Fails
<1>7. CASE GivenUp(i)
  BY <1>2, <1>7, <1>a DEF GivenUp, InHands
<1>8. CASE BackoffEnds(i)
  BY <1>2, <1>8, <1>a DEF BackoffEnds, InHands
<1>9. QED
  BY <1>3, <1>4, <1>5, <1>6, <1>7, <1>8 DEF ItemStep

\* Items that were not yet handed over have been tried by nobody.
Fresh == \A i \in Item :
  at[i] \in {"new", "queued"} => by[i] = "none" /\ attempt[i] = 0

Flagged == \A k \in Tick : batch[k] # {} => draining

BatchInv == OneBatchAtATime /\ Flagged /\ Fresh

LEMMA BatchInit == QueueInit => BatchInv
BY DEF QueueInit, BatchInv, OneBatchAtATime, Flagged, Fresh

\* Only drain changes the batches, and only dispose else hands items over.
LEMMA BatchMoves ==
  ASSUME [QueueNext]_queueVars
  PROVE  \/ \E k \in Tick : Drain(k) \/ DrainEnds(k)
         \/ Crash
         \/ /\ UNCHANGED drainVars
            /\ \A i \in Item : by'[i] = by[i] \/ by'[i] = "flush"
<1>1. ASSUME NEW i \in Item, Enqueue(i) \/ ItemStep(i)
      PROVE  UNCHANGED <<drainVars, by>>
  BY <1>1 DEF Enqueue, ItemStep, Acquire, Process, Succeeds, Fails, GivenUp,
              BackoffEnds
<1>2. CASE Clear \/ Start \/ FindTask \/ CreateTask \/ DisposeEnds \/ StartFails
           \/ DeleteFails \/ HookThrows \/ UNCHANGED queueVars
  BY <1>2 DEF Clear, Start, FindTask, CreateTask, DisposeEnds, StartFails,
              DeleteFails, HookThrows, queueVars, itemVars
<1>3. CASE Dispose
  <2>1. UNCHANGED drainVars
        /\ HandsOver({i \in Queued : Priority[i] = Urgent}, "flush")
    BY <1>3 DEF Dispose
  <2>2. QED
    BY <2>1 DEF HandsOver
<1>4. QED
  BY <1>1, <1>2, <1>3 DEF QueueNext

LEMMA BatchStep ==
  ASSUME QueueInv, BatchInv, [QueueNext]_queueVars
  PROVE  BatchInv'
<1>1. ItemsTyped /\ DrainsTyped
  BY QueueInvParts
<1>2. Fresh'
  <2>1. CASE Calm
    BY <2>1 DEF BatchInv, Fresh, Calm
  <2>2. CASE Crash
    <3>1. /\ \A i \in Item : by'[i] = "none" /\ attempt'[i] = attempt[i]
          /\ Leave({i \in Item : Held(i)}, "lost") /\ "lost" \in Place
      BY <2>2 DEF Crash, Place
    <3>2. \A i \in Item : at'[i] = "lost" \/ at'[i] = at[i]
      BY <1>1, <3>1, LeaveItems
    <3>3. QED
      BY <3>1, <3>2 DEF BatchInv, Fresh
  <2>3. CASE \E i \in Item : ItemStep(i)
    BY <2>3, ItemStepMoves DEF BatchInv, Fresh, InHands
  <2>4. QED
    BY <2>1, <2>2, <2>3, QueueInvStep
\* Except in drain and crash, no item comes into the hands of the batch
\* processor.
<1>3. ASSUME UNCHANGED drainVars,
             \A i \in Item : by'[i] = by[i] \/ by'[i] = "flush"
      PROVE  OneBatchAtATime' /\ Flagged'
  <2>1. batch' = batch /\ draining' = draining
    BY <1>3 DEF drainVars
  <2>2. ASSUME NEW i \in Item, by'[i] = "drain", Held(i)'
        PROVE  draining /\ \E k \in Tick : i \in batch[k]
    <3>1. by[i] = "drain" /\ by[i] # "none"
      BY <1>3, <2>2
    <3>2. CASE Calm
      BY <2>2, <3>1, <3>2 DEF Calm, Held, BatchInv, OneBatchAtATime, Fresh
    <3>3. CASE Crash
      BY <2>2, <3>3 DEF Crash
    <3>4. CASE \E j \in Item : ItemStep(j)
      <4>1. Held(i)
        BY <2>2, <3>4, ItemStepMoves DEF Held, InHands
      <4>2. QED
        BY <3>1, <4>1 DEF BatchInv, OneBatchAtATime
    <3>5. QED
      BY <3>2, <3>3, <3>4, QueueInvStep
  <2>3. QED
    BY <2>1, <2>2 DEF BatchInv, OneBatchAtATime, Flagged, Held
<1>4. ASSUME NEW k \in Tick, Drain(k)
      PROVE  OneBatchAtATime' /\ Flagged'
  <2>1. PICK b \in SUBSET Item : /\ IsNextBatch(b)
                                 /\ batch' = [batch EXCEPT ![k] = b]
                                 /\ HandsOver(b, "drain")
    BY <1>4 DEF Drain
  <2>2. draining' = TRUE /\ ~draining
    BY <1>4 DEF Drain, MayDrain
  <2>3. \A l \in Tick : batch[l] = {}
    BY <2>2 DEF BatchInv, Flagged
  <2>4. \A l \in Tick : batch'[l] = IF l = k THEN b ELSE {}
    BY <1>1, <2>1, <2>3 DEF DrainsTyped
  <2>5. \A i \in Item : i \notin b => at'[i] = at[i] /\ by'[i] = by[i]
    BY <2>1 DEF HandsOver, Leave
  <2>6. ASSUME NEW i \in Item, by'[i] = "drain", Held(i)'
        PROVE  i \in batch'[k]
    <3>1. SUFFICES ASSUME i \notin b PROVE FALSE
      BY <2>4
    <3>2. by[i] = "drain" /\ Held(i)
      BY <2>5, <2>6, <3>1 DEF Held
    <3>3. QED
      BY <2>2, <3>2 DEF BatchInv, OneBatchAtATime
  <2>7. QED
    BY <2>2, <2>4, <2>6 DEF OneBatchAtATime, Flagged, Held
<1>5. ASSUME NEW k \in Tick, DrainEnds(k)
      PROVE  OneBatchAtATime' /\ Flagged'
  <2>1. /\ batch[k] # {} /\ \A i \in batch[k] : Settled(i)
        /\ draining' = FALSE /\ at' = at /\ by' = by
        /\ batch' = [batch EXCEPT ![k] = {}]
    BY <1>5 DEF DrainEnds, itemVars
  <2>2. \A l \in Tick : batch'[l] = {}
    BY <1>1, <2>1 DEF BatchInv, OneBatchAtATime, DrainsTyped
  <2>3. ASSUME NEW i \in Item, by[i] = "drain", Held(i)
        PROVE  FALSE
    <3>1. PICK l \in Tick : i \in batch[l]
      BY <2>3 DEF BatchInv, OneBatchAtATime
    <3>2. l = k
      BY <2>1, <3>1 DEF BatchInv, OneBatchAtATime
    <3>3. QED
      BY <2>1, <2>3, <3>1, <3>2 DEF Held, Settled
  <2>4. QED
    BY <2>1, <2>2, <2>3 DEF OneBatchAtATime, Flagged, Held
<1>6. ASSUME Crash PROVE OneBatchAtATime' /\ Flagged'
  <2>1. \A i \in Item : by'[i] = "none"
    BY <1>6 DEF Crash
  <2>2. \A l \in Tick : batch'[l] = {}
    BY <1>6 DEF Crash
  <2>3. QED
    BY <2>1, <2>2 DEF OneBatchAtATime, Flagged
<1>7. OneBatchAtATime' /\ Flagged'
  BY <1>3, <1>4, <1>5, <1>6, BatchMoves
<1>8. QED
  BY <1>2, <1>7 DEF BatchInv

\* Two drains never overlap, and the batch processor works on nothing but the
\* batch of the drain that is flagged.
THEOREM QueueOneBatch == QueueSpec => []OneBatchAtATime
<1>1. QueueInv /\ BatchInv /\ [QueueNext]_queueVars => BatchInv'
  BY BatchStep
<1>2. QueueSpec => []BatchInv
  BY <1>1, BatchInit, QueueInvariant, PTL DEF QueueSpec
<1>3. BatchInv => OneBatchAtATime
  BY DEF BatchInv
<1>4. QED
  BY <1>2, <1>3, PTL
-----------------------------------------------------------------------------
(* No wake-up is lost *)

\* Whoever waits is in the line of its semaphore, which somebody holds, and
\* a flagged drain has a batch to end it.
Remembered ==
  \A i \in Item : at[i] = "waiting" =>
    \E n \in 1 .. Len(waiters[by[i]]) : waiters[by[i]][n] = i

Awaited == draining => \E k \in Tick : batch[k] # {}

NeverJams ==
  /\ Remembered /\ Awaited
  /\ \A i \in Item : at[i] = "waiting" => Holders(by[i]) # {}

LEMMA AcquireRemembers ==
  ASSUME QueueInv, Remembered, NEW i \in Item, Acquire(i)
  PROVE  Remembered'
<1>1. ItemsTyped /\ PermitsTyped /\ HandedOver /\ by' = by
  BY QueueInvParts DEF Acquire
<1>2. ASSUME NEW j \in Item, at'[j] = "waiting"
      PROVE  \E n \in 1 .. Len(waiters'[by[j]]) : waiters'[by[j]][n] = j
  <2> DEFINE p == by[j]
             w == waiters[p]
  <2>1. CASE j = i
    <3>1. p \in Processor /\ waiters'[p] = Append(w, i)
      BY <1>1, <1>2, <2>1, AcquireItems
    <3>2. w \in Seq(Item) /\ Len(w) \in Nat
      BY <1>1, <3>1, LenProperties DEF PermitsTyped
    <3>3. Len(waiters'[p]) = Len(w) + 1 /\ waiters'[p][Len(w) + 1] = i
      BY <3>1, <3>2, AppendProperties
    <3>4. Len(w) + 1 \in 1 .. Len(w) + 1
      BY <3>2
    <3>5. QED
      BY <2>1, <3>3, <3>4
  <2>2. CASE j # i
    <3>1. at[j] = "waiting"
      BY <1>1, <1>2, <2>2, AcquireItems
    <3>2. p \in Processor
      BY <1>1, <3>1 DEF HandedOver, Held
    <3>3. PICK n \in 1 .. Len(w) : w[n] = j
      BY <3>1 DEF Remembered
    <3>4. waiters'[p] = w \/ waiters'[p] = Append(w, i)
      BY <1>1, <3>2, AcquireItems
    <3>5. w \in Seq(Item) /\ Len(w) \in Nat
      BY <1>1, <3>2, LenProperties DEF PermitsTyped
    <3>6. CASE waiters'[p] = w
      BY <3>3, <3>6
    <3>7. CASE waiters'[p] = Append(w, i)
      <4>1. Len(waiters'[p]) = Len(w) + 1 /\ waiters'[p][n] = w[n]
        BY <3>5, <3>7, AppendProperties
      <4> HIDE DEF w, p
      <4>2. n \in 1 .. Len(waiters'[p])
        BY <3>5, <4>1
      <4>3. QED
        BY <3>3, <4>1, <4>2 DEF p
    <3>8. QED
      BY <3>4, <3>6, <3>7
  <2>3. QED
    BY <2>1, <2>2
<1>3. QED
  BY <1>1, <1>2 DEF Remembered

\* release forgets only the waiter it wakes.
LEMMA WakesRemember ==
  ASSUME QueueInv, Remembered, NEW i \in Item, at[i] = "process",
         NEW place \in Place \ {"waiting"}, Wakes(by[i], i, place), by' = by
  PROVE  Remembered'
<1>1. ItemsTyped /\ PermitsTyped /\ HandedOver /\ LineInv
  BY QueueInvParts
<1>2. by[i] \in Processor
  BY <1>1 DEF HandedOver, Held
<1>3. ASSUME NEW j \in Item, at'[j] = "waiting"
      PROVE  \E n \in 1 .. Len(waiters'[by[j]]) : waiters'[by[j]][n] = j
  <2> DEFINE p == by[j]
             w == waiters[p]
  <2>1. at[j] = "waiting" /\ ~(waiters[by[i]] # <<>> /\ j = Head(waiters[by[i]]))
    BY <1>1, <1>2, <1>3, WakesItems
  <2>2. p \in Processor
    BY <1>1, <2>1 DEF HandedOver, Held
  <2>3. PICK n \in 1 .. Len(w) : w[n] = j
    BY <2>1 DEF Remembered
  <2>4. w \in Seq(Item) /\ Len(w) \in Nat
    BY <1>1, <2>2, LenProperties DEF PermitsTyped
  <2>5. CASE waiters'[p] = w
    BY <2>3, <2>5
  <2>6. CASE waiters'[p] # w
    <3>1. p = by[i] /\ w # <<>> /\ waiters'[p] = Tail(w)
      BY <1>1, <1>2, <2>2, <2>6, WakesItems
    <3>2. /\ Len(Tail(w)) = Len(w) - 1
          /\ \A m \in 1 .. Len(Tail(w)) : Tail(w)[m] = w[m + 1]
      BY <2>4, <3>1, HeadTailProperties
    <3>3. n # 1
      BY <2>1, <2>3, <3>1
    <3> HIDE DEF w, p
    <3>4. n - 1 \in 1 .. Len(Tail(w)) /\ (n - 1) + 1 = n
      BY <2>4, <3>2, <3>3
    <3>5. Tail(w)[n - 1] = j
      BY <2>3, <3>2, <3>4
    <3>6. QED
      BY <3>1, <3>4, <3>5 DEF p
  <2>7. QED
    BY <2>5, <2>6
<1>4. QED
  BY <1>3 DEF Remembered

LEMMA RememberedStep ==
  ASSUME QueueInv, Remembered, [QueueNext]_queueVars
  PROVE  Remembered'
<1>1. ItemsTyped
  BY QueueInvParts
<1>2. CASE Calm
  BY <1>2 DEF Calm, Remembered
<1>3. CASE Crash
  <2>1. "lost" \in Place /\ Leave({i \in Item : Held(i)}, "lost")
    BY <1>3 DEF Crash, Place
  <2>2. \A i \in Item : at'[i] # "waiting"
    BY <1>1, <2>1, LeaveItems DEF Held
  <2>3. QED
    BY <2>2 DEF Remembered
<1>4. ASSUME NEW i \in Item, ItemStep(i)
      PROVE  Remembered'
  <2>a. ASSUME NEW place \in Place \ {"waiting"}, Goto(i, place), by' = by,
               waiters' = waiters
        PROVE  Remembered'
    <3>1. \A j \in Item : at'[j] = "waiting" => at[j] = "waiting"
      BY <1>1, <2>a, GotoItems
    <3>2. QED
      BY <2>a, <3>1 DEF Remembered
  <2>1. CASE Acquire(i)
    BY <2>1, AcquireRemembers
  <2>2. CASE Process(i) \/ GivenUp(i) \/ BackoffEnds(i)
    BY <2>2, <2>a DEF Process, GivenUp, BackoffEnds, poolVars, Place
  <2>3. CASE Succeeds(i)
    BY <2>3, WakesRemember DEF Succeeds, Place
  <2>4. CASE Fails(i)
    <3>1. at[i] = "process" /\ by' = by
          /\ \E place \in Place \ {"waiting"} : Wakes(by[i], i, place)
      BY <2>4 DEF Fails, Place
    <3>2. QED
      BY <3>1, WakesRemember
  <2>5. QED
    BY <1>4, <2>1, <2>2, <2>3, <2>4 DEF ItemStep
<1>5. QED
  BY <1>2, <1>3, <1>4, QueueInvStep

\* A drain takes at least one item, and its end resets the flag.
LEMMA AwaitedStep ==
  ASSUME QueueInv, BatchInv, Awaited, [QueueNext]_queueVars
  PROVE  Awaited'
<1>1. DrainsTyped
  BY QueueInvParts
<1>2. ASSUME NEW k \in Tick, Drain(k)
      PROVE  batch'[k] # {}
  <2>1. PICK b \in SUBSET Item : IsNextBatch(b) /\ batch' = [batch EXCEPT ![k] = b]
    BY <1>2 DEF Drain
  <2>2. Queued # {}
    BY <1>2 DEF Drain
  <2>3. Cardinality(b) = BatchSize \/ b = Queued
    BY <2>1 DEF IsNextBatch
  <2>4. b # {}
    BY <2>2, <2>3, FS_EmptySet, QueueConstants
  <2>5. QED
    BY <1>1, <2>1, <2>4 DEF DrainsTyped
<1>3. ASSUME NEW k \in Tick, DrainEnds(k)
      PROVE  draining' = FALSE
  BY <1>3 DEF DrainEnds
<1>4. CASE Crash
  BY <1>4 DEF Crash, Awaited
<1>5. CASE UNCHANGED drainVars
  BY <1>5 DEF drainVars, Awaited
<1>6. QED
  BY <1>2, <1>3, <1>4, <1>5, BatchMoves DEF Awaited

\* A lost wake-up or a flag left set would stall the queue for ever.  Neither
\* happens: whoever waits for a permit is in line behind somebody who holds
\* one and will hand it on, and isDraining is set only while a call of drain
\* has a batch under way, over any interleaving of ticks, retries and faults.
THEOREM QueueNeverJams == QueueSpec => []NeverJams
<1>1. QueueInit => Remembered /\ Awaited
  BY DEF QueueInit, Remembered, Awaited
<1>2. QueueInv /\ Remembered /\ [QueueNext]_queueVars => Remembered'
  BY RememberedStep
<1>3. QueueInv /\ BatchInv /\ Awaited /\ [QueueNext]_queueVars => Awaited'
  BY AwaitedStep
<1>4. QueueInv /\ BatchInv /\ [QueueNext]_queueVars => BatchInv'
  BY BatchStep
<1>5. QueueInv /\ PermitsAreAccounted /\ Remembered /\ Awaited => NeverJams
  <2> SUFFICES ASSUME QueueInv, PermitsAreAccounted, Remembered, Awaited,
                      NEW i \in Item, at[i] = "waiting"
               PROVE  Holders(by[i]) # {}
    BY DEF NeverJams
  <2> DEFINE p == by[i]
  <2>1. p \in Processor /\ waiters[p] \in Seq(Item)
    BY QueueInvParts DEF HandedOver, Held, PermitsTyped
  <2>2. waiters[p] # <<>>
    <3>1. PICK n \in 1 .. Len(waiters[p]) : TRUE
      BY DEF Remembered
    <3>2. waiters[p] = <<>> => Len(waiters[p]) = 0
      BY <2>1, EmptySeq
    <3>3. QED
      BY <3>1, <3>2
  <2>3. permits[p] = 0 /\ permits[p] + Cardinality(Holders(p)) = Limit(p)
    BY <2>1, <2>2 DEF PermitsAreAccounted
  <2>4. Limit(p) \in Nat \ {0} /\ Cardinality(Holders(p)) \in Nat
    BY <2>1, LimitType, HoldersFinite
  <2>5. Cardinality(Holders(p)) # 0
    BY <2>3, <2>4
  <2>6. QED
    BY <2>5, FS_EmptySet
<1>6. QED
  BY <1>1, <1>2, <1>3, <1>4, <1>5, BatchInit, QueueInvariant, QueuePermits,
     PTL DEF QueueSpec

-----------------------------------------------------------------------------
(* Disposal *)

UrgentInv ==
  /\ UrgentIsTried
  /\ Disposed => \A i \in Item : at[i] = "queued" => Priority[i] # Urgent

LEMMA UrgentInit == QueueInit => UrgentInv
BY DEF QueueInit, UrgentInv, UrgentIsTried, Disposed

\* A step that queues and drops nothing, nor disposes.
LEMMA UrgentStays ==
  ASSUME UrgentInv, Disposed' => Disposed,
         \A i \in Item : at'[i] \in {"queued", "dropped"} => at'[i] = at[i]
  PROVE  UrgentInv'
BY DEF UrgentInv, UrgentIsTried

LEMMA UrgentStep ==
  ASSUME QueueInv, UrgentInv, [QueueNext]_queueVars
  PROVE  UrgentInv'
<1>1. ItemsTyped
  BY QueueInvParts
<1>2. /\ "queued" \in Place /\ "refused" \in Place /\ "cleared" \in Place
      /\ "dropped" \in Place /\ "lost" \in Place
      /\ "drain" \in Processor /\ "flush" \in Processor
  BY DEF Place, Processor
<1>3. ASSUME NEW i \in Item, Enqueue(i)
      PROVE  UrgentInv'
  <2>1. disposal' = disposal
    BY <1>3 DEF Enqueue, taskVars
  <2>2. CASE Disposed
    <3>1. Goto(i, "refused")
      BY <1>3, <2>2 DEF Enqueue, Accepts
    <3>2. at'[i] = "refused" /\ \A j \in Item : j # i => at'[j] = at[j]
      BY <1>1, <1>2, <3>1, GotoItems
    <3>3. QED
      BY <2>1, <3>2, UrgentStays DEF Disposed
  <2>3. CASE ~Disposed
    <3>1. Goto(i, "queued") \/ Goto(i, "refused")
      BY <1>3 DEF Enqueue
    <3>2. at'[i] # "dropped" /\ \A j \in Item : j # i => at'[j] = at[j]
      BY <1>1, <1>2, <3>1, GotoItems
    <3>3. QED
      BY <2>1, <2>3, <3>2 DEF UrgentInv, UrgentIsTried, Disposed
  <2>4. QED
    BY <2>2, <2>3
<1>4. ASSUME NEW i \in Item, ItemStep(i)
      PROVE  UrgentInv'
  <2>1. disposal' = disposal
    BY <1>4, ItemStepMoves DEF taskVars
  <2>2. \A j \in Item : at'[j] \in {"queued", "dropped"} => at'[j] = at[j]
    BY <1>4, ItemStepMoves DEF InHands
  <2>3. QED
    BY <2>1, <2>2, UrgentStays DEF Disposed
<1>5. ASSUME NEW k \in Tick, Drain(k)
      PROVE  UrgentInv'
  <2>1. PICK b \in SUBSET Item : HandsOver(b, "drain")
    BY <1>5 DEF Drain
  <2>2. disposal' = disposal
    BY <1>5 DEF Drain, taskVars
  <2>3. \A i \in Item : at'[i] = IF i \in b THEN "ready" ELSE at[i]
    BY <1>1, <1>2, <2>1, HandsOverItems
  <2>4. QED
    BY <2>2, <2>3, UrgentStays DEF Disposed
<1>6. CASE Clear
  <2>1. Leave(Queued, "cleared") /\ disposal' = disposal
    BY <1>6 DEF Clear, taskVars
  <2>2. \A i \in Item : at'[i] = IF i \in Queued THEN "cleared" ELSE at[i]
    BY <1>1, <1>2, <2>1, LeaveItems
  <2>3. QED
    BY <2>1, <2>2, UrgentStays DEF Disposed
<1>7. CASE Dispose
  <2>1. HandsOver({i \in Queued : Priority[i] = Urgent}, "flush")
    BY <1>7 DEF Dispose
  <2>2. \A i \in Item : at'[i] =
          IF i \in {j \in Queued : Priority[j] = Urgent} THEN "ready" ELSE at[i]
    BY <1>1, <1>2, <2>1, HandsOverItems
  <2>3. QED
    BY <2>2 DEF UrgentInv, UrgentIsTried, Queued
<1>8. CASE DisposeEnds \/ DeleteFails
  <2>1. Leave(Queued, "dropped") /\ Disposed
    BY <1>8 DEF DisposeEnds, DeleteFails, Disposed
  <2>2. \A i \in Item : at'[i] = IF i \in Queued THEN "dropped" ELSE at[i]
    BY <1>1, <1>2, <2>1, LeaveItems
  <2>3. QED
    BY <2>1, <2>2 DEF UrgentInv, UrgentIsTried, Queued
<1>9. ASSUME \/ \E k \in Tick : DrainEnds(k)
             \/ Start \/ FindTask \/ CreateTask \/ StartFails \/ HookThrows
             \/ UNCHANGED queueVars
      PROVE  UrgentInv'
  <2>1. at' = at /\ (Disposed' => Disposed)
    BY <1>9 DEF DrainEnds, Start, FindTask, CreateTask, StartFails, HookThrows,
                queueVars, itemVars, taskVars, Disposed
  <2>2. QED
    BY <2>1, UrgentStays
<1>10. CASE Crash
  <2>1. Leave({i \in Item : Held(i)}, "lost") /\ ~Disposed'
    BY <1>10 DEF Crash, Disposed
  <2>2. \A i \in Item : at'[i] = IF i \in {j \in Item : Held(j)} THEN "lost"
                                                                ELSE at[i]
    BY <1>1, <1>2, <2>1, LeaveItems
  <2>3. QED
    BY <2>1, <2>2, UrgentStays
<1>11. QED
  BY <1>3, <1>4, <1>5, <1>6, <1>7, <1>8, <1>9, <1>10 DEF QueueNext

\* Once disposed is set nothing is enqueued any more, so what dispose clears
\* at its end holds no urgent item.
THEOREM QueueUrgent == QueueSpec => []UrgentIsTried
<1>1. QueueInv /\ UrgentInv /\ [QueueNext]_queueVars => UrgentInv'
  BY UrgentStep
<1>2. QueueSpec => []UrgentInv
  BY <1>1, UrgentInit, QueueInvariant, PTL DEF QueueSpec
<1>3. UrgentInv => UrgentIsTried
  BY DEF UrgentInv
<1>4. QED
  BY <1>2, <1>3, PTL
-----------------------------------------------------------------------------
(* What a queue of work promises *)

\* Whoever is in line for process has an attempt left, and whoever comes from
\* it has used one.
TriedInv ==
  \A i \in Item :
    /\ at[i] \in {"ready", "waiting", "granted", "backoff"} =>
         attempt[i] < Attempts(by[i], i)
    /\ at[i] \in {"process", "exhausted", "backoff"} => attempt[i] > 0

LEMMA AttemptsType ==
  \A p \in Processor, i \in Item :
    Attempts(p, i) \in Nat /\ Attempts(p, i) > 0 /\ Attempts(p, i) <= MaxAttempts[i]
BY QueueConstants DEF Attempts, Processor

LEMMA TriedInit == QueueInit => TriedInv
BY DEF QueueInit, TriedInv

\* An item released by i was waiting, and keeps its attempts.
LEMMA TriedWakes ==
  ASSUME QueueInv, TriedInv, NEW i \in Item, at[i] = "process",
         NEW place \in {"succeeded", "exhausted", "backoff"},
         Wakes(by[i], i, place), attempt' = attempt, by' = by,
         place = "backoff" => Retries(i)
  PROVE  /\ TriedInv'
         /\ at'[i] = place
         /\ \A j \in Item : j # i =>
              \/ at'[j] = at[j]
              \/ at[j] = "waiting" /\ at'[j] = "granted"
<1>1. ItemsTyped /\ PermitsTyped /\ HandedOver /\ LineInv
  BY QueueInvParts
<1>2. by[i] \in Processor /\ place \in Place
  BY <1>1 DEF HandedOver, Held, Place
<1>3. waiters[by[i]] # <<>> => at[Head(waiters[by[i]])] = "waiting"
  BY <1>1, <1>2, LineAdvances
<1>4. \A j \in Item :
        at'[j] = IF waiters[by[i]] # <<>> /\ j = Head(waiters[by[i]])
                   THEN "granted" ELSE IF j = i THEN place ELSE at[j]
  BY <1>1, <1>2, WakesItems
<1>5. /\ at'[i] = place
      /\ \A j \in Item : j # i =>
           \/ at'[j] = at[j]
           \/ at[j] = "waiting" /\ at'[j] = "granted"
  BY <1>3, <1>4
<1>6. TriedInv'
  BY <1>5 DEF TriedInv, Retries
<1>7. QED
  BY <1>5, <1>6

LEMMA TriedStep ==
  ASSUME QueueInv, BatchInv, TriedInv, [QueueNext]_queueVars
  PROVE  TriedInv'
<1>1. ItemsTyped /\ PermitsTyped /\ HandedOver
  BY QueueInvParts
<1>2. CASE Calm
  <2>1. ASSUME NEW i \in Item, at[i] = "queued", at'[i] = "ready",
               by'[i] \in Processor
        PROVE  attempt'[i] < Attempts(by'[i], i)
    BY <1>2, <2>1, AttemptsType DEF Calm, BatchInv, Fresh
  <2>2. QED
    BY <1>2, <2>1 DEF Calm, TriedInv
<1>3. CASE Crash
  <2>1. /\ Leave({i \in Item : Held(i)}, "lost") /\ "lost" \in Place
    BY <1>3 DEF Crash, Place
  <2>2. \A i \in Item : at'[i] = IF i \in {j \in Item : Held(j)} THEN "lost"
                                                                ELSE at[i]
    BY <1>1, <2>1, LeaveItems
  <2>3. QED
    BY <2>2 DEF TriedInv, Held
<1>4. ASSUME NEW i \in Item, ItemStep(i)
      PROVE  TriedInv'
  <2>1. CASE Acquire(i)
    BY <1>1, <2>1, AcquireItems DEF TriedInv, Acquire
  <2>2. CASE Process(i)
    <3>1. /\ at[i] = "granted" /\ Goto(i, "process") /\ by' = by
          /\ attempt' = [attempt EXCEPT ![i] = @ + 1] /\ "process" \in Place
      BY <2>2 DEF Process, Place
    <3>2. at'[i] = "process" /\ \A j \in Item : j # i => at'[j] = at[j]
      BY <1>1, <3>1, GotoItems
    <3>3. attempt[i] \in Nat /\ attempt'[i] = attempt[i] + 1
          /\ \A j \in Item : j # i => attempt'[j] = attempt[j]
      BY <1>1, <3>1 DEF ItemsTyped
    <3>4. QED
      BY <3>1, <3>2, <3>3 DEF TriedInv
  <2>3. CASE Succeeds(i)
    BY <2>3, TriedWakes DEF Succeeds
  <2>4. CASE Fails(i)
    BY <2>4, TriedWakes DEF Fails
  <2>5. CASE GivenUp(i) \/ BackoffEnds(i)
    <3>1. /\ by' = by /\ attempt' = attempt /\ "failed" \in Place
          /\ "ready" \in Place
          /\ \/ at[i] = "exhausted" /\ Goto(i, "failed")
             \/ at[i] = "backoff" /\ Goto(i, "ready")
      BY <2>5 DEF GivenUp, BackoffEnds, Place
    <3>2. /\ at'[i] = "failed" \/ (at[i] = "backoff" /\ at'[i] = "ready")
          /\ \A j \in Item : j # i => at'[j] = at[j]
      BY <1>1, <3>1, GotoItems
    <3>3. QED
      BY <3>1, <3>2 DEF TriedInv
  <2>6. QED
    BY <1>4, <2>1, <2>2, <2>3, <2>4, <2>5 DEF ItemStep
<1>5. QED
  BY <1>2, <1>3, <1>4, QueueInvStep

Lives == [i \in Item |-> Life[at[i]]]
Busy == {i \in Item : at[i] = "process"}
LEMMA LifeOf ==
  /\ Life["new"] = "outside"
  /\ \A place \in {"cleared", "dropped"} : Life[place] = "discarded"
  /\ Life["failed"] = "given up"
  /\ \A place \in {"refused", "succeeded", "lost"} : Life[place] = place
  /\ \A place \in InHands \cup {"queued"} : Life[place] = "accepted"
BY DEF Life, InHands, Place

\* A step that the pool does not see.
LEMMA PoolStutters ==
  ASSUME attempt' = attempt,
         \A i \in Item : /\ Life[at'[i]] = Life[at[i]]
                         /\ at'[i] = "process" <=> at[i] = "process"
  PROVE  UNCHANGED Pool!poolVars
<1>1. Lives' = Lives
  BY DEF Lives
<1>2. Busy' = Busy
  BY DEF Busy
<1>3. QED
  BY <1>1, <1>2 DEF Pool!poolVars, Lives, Busy

\* Whatever is cleared or dropped was still in the queue, and never tried.
LEMMA QueuedIsDiscarded ==
  ASSUME ItemsTyped, Fresh, attempt' = attempt,
         NEW place \in {"cleared", "dropped"}, Leave(Queued, place)
  PROVE  Pool!Discard
<1>1. \A i \in Item : at'[i] = IF i \in Queued THEN place ELSE at[i]
  BY LeaveItems DEF Place
<1>2. \A i \in Queued : Lives[i] = "accepted" /\ attempt[i] = 0
  BY LifeOf DEF Queued, Lives, Fresh
<1>3. Lives' = [i \in Item |-> IF i \in Queued THEN "discarded" ELSE Lives[i]]
  <2>1. \A i \in Item :
          Life[at'[i]] = IF i \in Queued THEN "discarded" ELSE Life[at[i]]
    BY <1>1, LifeOf DEF InHands
  <2>2. QED
    BY <2>1 DEF Lives
<1>4. Busy' = Busy
  BY <1>1 DEF Busy, Queued
<1>5. Queued \in SUBSET {i \in Item : Lives[i] = "accepted" /\ attempt[i] = 0}
  BY <1>2 DEF Queued
<1>6. QED
  BY <1>3, <1>4, <1>5 DEF Pool!Discard, Lives, Busy

\* Two processors hold no more permits than both have.
LEMMA BusyIsBounded ==
  ASSUME QueueInv, PermitsAreAccounted, NEW i \in Item, at[i] = "granted"
  PROVE  Cardinality(Busy) < MaxParallel + 1
<1> DEFINE D == Holders("drain")
           F == Holders("flush")
<1>1. ItemsTyped /\ PermitsTyped /\ HandedOver
  BY QueueInvParts
<1>2. /\ IsFiniteSet(D) /\ IsFiniteSet(F)
      /\ Cardinality(D) \in Nat /\ Cardinality(F) \in Nat
  BY HoldersFinite
<1>3. Cardinality(D) <= MaxParallel /\ Cardinality(F) <= 1
  <2>1. /\ permits["drain"] \in Nat /\ permits["flush"] \in Nat
        /\ MaxParallel \in Nat
    BY <1>1, QueueConstants DEF PermitsTyped, Processor
  <2>2. /\ permits["drain"] + Cardinality(D) = MaxParallel
        /\ permits["flush"] + Cardinality(F) = 1
    BY DEF PermitsAreAccounted, Processor, Limit
  <2>3. QED
    BY <1>2, <2>1, <2>2
<1>4. IsFiniteSet(D \cup F) /\ Cardinality(D \cup F) <= MaxParallel + 1
  <2>1. /\ IsFiniteSet(D \cup F)
        /\ Cardinality(D \cup F) =
             Cardinality(D) + Cardinality(F) - Cardinality(D \cap F)
    BY <1>2, FS_Union
  <2>2. D \cap F \in SUBSET D
    OBVIOUS
  <2>3. Cardinality(D \cap F) \in Nat
    BY <1>2, <2>2, FS_Subset, FS_CardinalityType
  <2>4. MaxParallel \in Nat
    BY QueueConstants
  <2>5. QED
    BY <1>2, <1>3, <2>1, <2>3, <2>4
<1>5. Busy \cup {i} \in SUBSET (D \cup F) /\ i \notin Busy
  BY <1>1 DEF Busy, Holders, HandedOver, Held, Processor
<1>6. IsFiniteSet(Busy \cup {i}) /\ Cardinality(Busy \cup {i}) <= MaxParallel + 1
  <2>1. IsFiniteSet(Busy \cup {i})
        /\ Cardinality(Busy \cup {i}) <= Cardinality(D \cup F)
    BY <1>4, <1>5, FS_Subset
  <2>2. /\ Cardinality(Busy \cup {i}) \in Nat /\ Cardinality(D \cup F) \in Nat
        /\ MaxParallel \in Nat
    BY <1>4, <2>1, FS_CardinalityType, QueueConstants
  <2>3. QED
    BY <1>4, <2>1, <2>2
<1>7. Busy \in SUBSET (Busy \cup {i})
  OBVIOUS
<1>8. IsFiniteSet(Busy)
  BY <1>6, <1>7, FS_Subset
<1>9. Cardinality(Busy \cup {i}) = Cardinality(Busy) + 1
      /\ Cardinality(Busy) \in Nat
  BY <1>5, <1>8, FS_AddElement, FS_CardinalityType
<1>10. MaxParallel \in Nat
  BY QueueConstants
<1>11. QED
  BY <1>6, <1>9, <1>10
\* An item comes back from process, and perhaps wakes another, which the pool
\* does not see.
LEMMA ReleaseReturns ==
  ASSUME QueueInv, TriedInv, NEW i \in Item, at[i] = "process",
         NEW place \in {"succeeded", "exhausted", "backoff"},
         Wakes(by[i], i, place), attempt' = attempt, by' = by,
         place = "backoff" => Retries(i)
  PROVE  Pool!Return(i)
<1> DEFINE fate == IF place = "succeeded" THEN "succeeded" ELSE "accepted"
<1>1. /\ at'[i] = place
      /\ \A j \in Item : j # i =>
           \/ at'[j] = at[j]
           \/ at[j] = "waiting" /\ at'[j] = "granted"
  BY TriedWakes
<1>2. Busy' = Busy \ {i} /\ i \in Busy
  BY <1>1 DEF Busy
<1>3. \A j \in Item : Life[at'[j]] = IF j = i THEN fate ELSE Life[at[j]]
  <2>1. Life[place] = fate
    BY LifeOf DEF InHands
  <2>2. Life["waiting"] = Life["granted"]
    BY LifeOf DEF InHands
  <2>3. QED
    BY <1>1, <2>1, <2>2
<1>4. Lives' = [Lives EXCEPT ![i] = fate]
  BY <1>3 DEF Lives
<1>5. fate \in {"accepted", "succeeded"}
  OBVIOUS
<1>6. QED
  BY <1>2, <1>4, <1>5 DEF Pool!Return, Lives, Busy

LEMMA ItemStepInPool ==
  ASSUME QueueInv, TriedInv, PermitsAreAccounted, NEW i \in Item, ItemStep(i)
  PROVE  [Pool!PoolNext]_(Pool!poolVars)
<1>1. ItemsTyped /\ PermitsTyped /\ HandedOver
  BY QueueInvParts
<1>2. "process" \in Place /\ "failed" \in Place /\ "ready" \in Place
  BY DEF Place
<1>3. CASE Acquire(i)
  <2>1. attempt' = attempt
    BY <1>3 DEF Acquire
  <2>2. \A j \in Item : /\ Life[at'[j]] = Life[at[j]]
                        /\ at'[j] = "process" <=> at[j] = "process"
    <3>1. at[i] = "ready" /\ at'[i] \in {"granted", "waiting"}
          /\ \A j \in Item : j # i => at'[j] = at[j]
      BY <1>1, <1>3, AcquireItems
    <3>2. QED
      BY <3>1, LifeOf DEF InHands
  <2>3. QED
    BY <2>1, <2>2, PoolStutters
<1>4. CASE Process(i)
  <2>1. /\ at[i] = "granted" /\ Goto(i, "process")
        /\ attempt' = [attempt EXCEPT ![i] = @ + 1]
    BY <1>4 DEF Process
  <2>2. at'[i] = "process" /\ \A j \in Item : j # i => at'[j] = at[j]
    BY <1>1, <1>2, <2>1, GotoItems
  <2>3. Cardinality(Busy) < MaxParallel + 1
    BY <2>1, BusyIsBounded
  <2>4. attempt[i] < MaxAttempts[i]
    <3>1. by[i] \in Processor /\ attempt[i] < Attempts(by[i], i)
      BY <1>1, <2>1 DEF HandedOver, Held, TriedInv
    <3>2. attempt[i] \in Nat /\ MaxAttempts[i] \in Nat
      BY <1>1, QueueConstants DEF ItemsTyped
    <3>3. QED
      BY <3>1, <3>2, AttemptsType
  <2>5. Busy' = Busy \cup {i} /\ i \notin Busy
    BY <2>1, <2>2 DEF Busy
  <2>6. \A j \in Item : Life[at'[j]] = Life[at[j]]
    BY <2>1, <2>2, LifeOf DEF InHands
  <2>7. Lives' = Lives /\ Lives[i] = "accepted"
    BY <2>1, <2>6, LifeOf DEF Lives, InHands
  <2>8. Pool!Try(i)
    <3>1. Lives[i] = "accepted" /\ i \notin Busy /\ attempt[i] < MaxAttempts[i]
          /\ Cardinality(Busy) < MaxParallel + 1
      BY <2>3, <2>4, <2>5, <2>7
    <3>2. attempt' = [attempt EXCEPT ![i] = attempt[i] + 1]
      BY <2>1
    <3>3. Busy' = Busy \cup {i} /\ Lives' = Lives
      BY <2>5, <2>7
    <3>4. Pool!Cardinality(Busy) = Cardinality(Busy)
      BY Zenon DEF Pool!Cardinality, Cardinality
    <3>5. QED
      BY <3>1, <3>2, <3>3, <3>4, Zenon DEF Pool!Try, Lives, Busy
  <2>9. QED
    BY <2>8 DEF Pool!PoolNext
<1>5. CASE Succeeds(i) \/ Fails(i)
  <2>1. PICK place \in {"succeeded", "exhausted", "backoff"} :
          /\ at[i] = "process" /\ Wakes(by[i], i, place)
          /\ attempt' = attempt /\ by' = by
          /\ place = "backoff" => Retries(i)
    BY <1>5 DEF Succeeds, Fails
  <2>2. Pool!Return(i)
    BY <2>1, ReleaseReturns
  <2>3. QED
    BY <2>2 DEF Pool!PoolNext
<1>6. CASE GivenUp(i)
  <2>1. at[i] = "exhausted" /\ Goto(i, "failed") /\ attempt' = attempt
    BY <1>6 DEF GivenUp
  <2>2. at'[i] = "failed" /\ \A j \in Item : j # i => at'[j] = at[j]
    BY <1>1, <1>2, <2>1, GotoItems
  <2>3. \A j \in Item : Life[at'[j]] = IF j = i THEN "given up" ELSE Life[at[j]]
    BY <2>2, LifeOf DEF InHands
  <2>4. Lives' = [Lives EXCEPT ![i] = "given up"] /\ Lives[i] = "accepted"
    BY <2>1, <2>3, LifeOf DEF Lives, InHands
  <2>5. Busy' = Busy /\ i \notin Busy
    BY <2>1, <2>2 DEF Busy
  <2>6. attempt[i] > 0
    BY <2>1 DEF TriedInv
  <2>7. Pool!GiveUp(i)
    BY <2>1, <2>4, <2>5, <2>6 DEF Pool!GiveUp, Lives, Busy
  <2>8. QED
    BY <2>7 DEF Pool!PoolNext
<1>7. CASE BackoffEnds(i)
  <2>1. at[i] = "backoff" /\ Goto(i, "ready") /\ attempt' = attempt
    BY <1>7 DEF BackoffEnds
  <2>2. at'[i] = "ready" /\ \A j \in Item : j # i => at'[j] = at[j]
    BY <1>1, <1>2, <2>1, GotoItems
  <2>3. \A j \in Item : /\ Life[at'[j]] = Life[at[j]]
                        /\ at'[j] = "process" <=> at[j] = "process"
    BY <2>1, <2>2, LifeOf DEF InHands
  <2>4. QED
    BY <2>1, <2>3, PoolStutters
<1>8. QED
  BY <1>3, <1>4, <1>5, <1>6, <1>7 DEF ItemStep
LEMMA QueueStepInPool ==
  ASSUME QueueInv, BatchInv, TriedInv, PermitsAreAccounted,
         [QueueNext]_queueVars
  PROVE  [Pool!PoolNext]_(Pool!poolVars)
<1>1. ItemsTyped
  BY QueueInvParts
<1>2. /\ "queued" \in Place /\ "refused" \in Place /\ "lost" \in Place
      /\ "drain" \in Processor /\ "flush" \in Processor
  BY DEF Place, Processor
<1>3. ASSUME NEW i \in Item, Enqueue(i)
      PROVE  [Pool!PoolNext]_(Pool!poolVars)
  <2>1. PICK answer \in {"queued", "refused"} :
          at[i] = "new" /\ Goto(i, answer) /\ attempt' = attempt
    BY <1>3 DEF Enqueue
  <2>2. at'[i] = answer /\ \A j \in Item : j # i => at'[j] = at[j]
    BY <1>1, <1>2, <2>1, GotoItems
  <2>3. Life[answer] \in {"accepted", "refused"}
    BY LifeOf
  <2>4. Lives' = [Lives EXCEPT ![i] = Life[answer]] /\ Lives[i] = "outside"
    BY <2>1, <2>2, LifeOf DEF Lives
  <2>5. Busy' = Busy
    BY <2>1, <2>2 DEF Busy
  <2>6. Pool!Accept(i)
    BY <2>1, <2>3, <2>4, <2>5 DEF Pool!Accept, Lives, Busy
  <2>7. QED
    BY <2>6 DEF Pool!PoolNext
<1>4. ASSUME NEW i \in Item, ItemStep(i)
      PROVE  [Pool!PoolNext]_(Pool!poolVars)
  BY <1>4, ItemStepInPool
\* Handing over is seen by the pool no more than queueing is.
<1>5. ASSUME NEW b \in SUBSET Queued, NEW p \in Processor, HandsOver(b, p),
             attempt' = attempt
      PROVE  UNCHANGED Pool!poolVars
  <2>1. \A i \in Item : at'[i] = IF i \in b THEN "ready" ELSE at[i]
    BY <1>1, <1>5, HandsOverItems
  <2>2. \A i \in Item : /\ Life[at'[i]] = Life[at[i]]
                        /\ at'[i] = "process" <=> at[i] = "process"
    BY <2>1, LifeOf DEF InHands, Queued
  <2>3. QED
    BY <1>5, <2>2, PoolStutters
<1>6. ASSUME NEW k \in Tick, Drain(k)
      PROVE  [Pool!PoolNext]_(Pool!poolVars)
  <2>1. PICK b \in SUBSET Item : IsNextBatch(b) /\ HandsOver(b, "drain")
    BY <1>6 DEF Drain
  <2>2. attempt' = attempt /\ b \in SUBSET Queued
    BY <1>6, <2>1 DEF Drain, IsNextBatch
  <2>3. QED
    BY <1>2, <1>5, <2>1, <2>2
<1>7. CASE Dispose
  <2>1. HandsOver({i \in Queued : Priority[i] = Urgent}, "flush")
        /\ attempt' = attempt
    BY <1>7 DEF Dispose
  <2>2. {i \in Queued : Priority[i] = Urgent} \in SUBSET Queued
    OBVIOUS
  <2>3. QED
    BY <1>2, <1>5, <2>1, <2>2
<1>8. CASE Clear \/ DisposeEnds \/ DeleteFails
  <2>1. PICK place \in {"cleared", "dropped"} :
          Leave(Queued, place) /\ attempt' = attempt
    BY <1>8 DEF Clear, DisposeEnds, DeleteFails
  <2>2. Pool!Discard
    BY <1>1, <2>1, QueuedIsDiscarded DEF BatchInv
  <2>3. QED
    BY <2>2 DEF Pool!PoolNext
<1>9. ASSUME \/ \E k \in Tick : DrainEnds(k)
             \/ Start \/ FindTask \/ CreateTask \/ StartFails \/ HookThrows
             \/ UNCHANGED queueVars
      PROVE  UNCHANGED Pool!poolVars
  <2>1. at' = at /\ attempt' = attempt
    BY <1>9 DEF DrainEnds, Start, FindTask, CreateTask, StartFails, HookThrows,
                queueVars, itemVars
  <2>2. QED
    BY <2>1, PoolStutters
<1>10. CASE Crash
  <2>1. Leave({i \in Item : Held(i)}, "lost") /\ attempt' = attempt
    BY <1>10 DEF Crash
  <2>2. \A i \in Item : at'[i] = IF i \in {j \in Item : Held(j)} THEN "lost"
                                                                ELSE at[i]
    BY <1>1, <1>2, <2>1, LeaveItems
  <2>3. \A i \in Item : Held(i) <=> Life[at[i]] = "accepted"
    BY <1>1, LifeOf DEF ItemsTyped, Place, Held, InHands
  <2>4. Lives' = [i \in Item |-> IF Lives[i] = "accepted" THEN "lost"
                                                          ELSE Lives[i]]
    BY <2>2, <2>3, LifeOf DEF Lives
  <2>5. Busy' = {}
    BY <2>2 DEF Busy, Held
  <2>6. Pool!Lose
    BY <2>1, <2>4, <2>5 DEF Pool!Lose, Lives, Busy
  <2>7. QED
    BY <2>6 DEF Pool!PoolNext
<1>11. QED
  BY <1>3, <1>4, <1>6, <1>7, <1>8, <1>9, <1>10 DEF QueueNext

\* The queue implements the pool of work: every item that is accepted is tried
\* at most as often as it may be, by at most one worker more than maxParallel, and
\* only an item that was never tried is discarded.
THEOREM QueueImplementsPool == QueueSpec => ImplementsPool
<1>1. QueueInit => Pool!PoolInit
  <2> SUFFICES ASSUME QueueInit PROVE Pool!PoolInit
    OBVIOUS
  <2>1. \A i \in Item : at[i] = "new" /\ attempt[i] = 0
    BY DEF QueueInit
  <2>2. Lives = [i \in Item |-> "outside"]
    BY <2>1, LifeOf DEF Lives
  <2>3. Busy = {}
    BY <2>1 DEF Busy
  <2>4. attempt = [i \in Item |-> 0]
    BY DEF QueueInit
  <2>5. QED
    BY <2>2, <2>3, <2>4 DEF Pool!PoolInit, Lives, Busy
<1>2. QueueInv /\ BatchInv /\ [QueueNext]_queueVars => BatchInv'
  BY BatchStep
<1>3. QueueInv /\ BatchInv /\ TriedInv /\ [QueueNext]_queueVars => TriedInv'
  BY TriedStep
<1>4. QueueInv /\ BatchInv /\ TriedInv /\ PermitsAreAccounted
      /\ [QueueNext]_queueVars => [Pool!PoolNext]_(Pool!poolVars)
  BY QueueStepInPool
<1>5. QED
  BY <1>1, <1>2, <1>3, <1>4, BatchInit, TriedInit, QueueInvariant, QueuePermits,
     PTL DEF QueueSpec, ImplementsPool, Pool!PoolSpec
=============================================================================
