-------------------------- MODULE TaskServiceProofs --------------------------
(***************************************************************************)
(* Proofs about TaskService, for every set of tasks, timers, hosts and     *)
(* workers, any number of overlapping ticks and any number of faults.      *)
(***************************************************************************)
EXTENDS TaskService, TLAPS

-----------------------------------------------------------------------------
(* Types *)

Label == {"idle", "fetch", "run", "ok", "failed", "save", "saveFailure"}

\* A call has a task exactly while it is inside executeTask.
Occupied == \A k \in Call : job[k] = NoTask <=> pc[k] \in {"idle", "fetch"}

\* The part of TaskTypeOK about a call of a tick.
TickTypeOK ==
  /\ executing \subseteq Task
  /\ pc \in [Call -> Label]
  /\ todo \in [Call -> SUBSET Task]
  /\ job \in [Call -> Task \cup {NoTask}]
  /\ latest \in [Call -> Row]
  /\ Occupied

Request == {NoRequest} \cup
  [what : {"pause", "resume"}, task : Repeating, failures : 0 .. MaxFailures]

LEMMA TypeParts ==
  TaskTypeOK <=> /\ TickTypeOK
                 /\ rows \in [Task -> Row]
                 /\ serverless \in BOOLEAN /\ dirty \in BOOLEAN
                 /\ stopped \in BOOLEAN
                 /\ request \in Request
                 /\ ended \subseteq Task
                 /\ calls \in 0 .. MaxCalls /\ faults \in 0 .. MaxFaults
BY DEF TaskTypeOK, TickTypeOK, Occupied, Label, Request

LEMMA NewRowType == NewRow \in Row /\ [NewRow EXCEPT !.life = "stored"] \in Row
<1>1. 0 \in 0 .. MaxFailures
  BY TaskConstants
<1>2. NewRow \in Row
  BY <1>1 DEF NewRow, Row
<1>3. [NewRow EXCEPT !.life = "stored"] \in Row
  BY <1>2 DEF Row
<1>4. QED
  BY <1>2, <1>3

\* executeTask may be entered by an idle call with any task.
LEMMA StartsType ==
  ASSUME TickTypeOK, NEW k \in Call, NEW t \in Task, pc[k] = "idle",
         Starts(k, t), todo' \in [Call -> SUBSET Task], latest' = latest
  PROVE  TickTypeOK'
<1>1. job' \in [Call -> Task \cup {NoTask}] /\ pc' \in [Call -> Label]
  BY DEF TickTypeOK, Starts, Goto, Label
<1>2. ASSUME NEW l \in Call
      PROVE  job'[l] = NoTask <=> pc'[l] \in {"idle", "fetch"}
  <2>1. CASE l = k
    <3>1. job'[l] = t /\ pc'[l] = "run"
      BY <2>1 DEF TickTypeOK, Starts, Goto
    <3>2. QED
      BY <3>1, TaskConstants
  <2>2. CASE l # k
    <3>1. job'[l] = job[l] /\ pc'[l] = pc[l]
      BY <2>2 DEF TickTypeOK, Starts, Goto
    <3>2. QED
      BY <3>1 DEF TickTypeOK, Occupied
  <2>3. QED
    BY <2>1, <2>2
<1>3. executing' \subseteq Task /\ latest' \in [Call -> Row]
  BY DEF TickTypeOK, Starts
<1>4. QED
  BY <1>1, <1>2, <1>3 DEF TickTypeOK, Occupied

\* The finally block can be reached from anywhere in executeTask.
LEMMA LeavesType ==
  ASSUME TickTypeOK, NEW k \in Call, Leaves(k),
         todo' \in [Call -> SUBSET Task]
  PROVE  TickTypeOK'
<1>1. job' \in [Call -> Task \cup {NoTask}] /\ pc' \in [Call -> Label]
  BY DEF TickTypeOK, Leaves, Goto, Label
<1>2. ASSUME NEW l \in Call
      PROVE  job'[l] = NoTask <=> pc'[l] \in {"idle", "fetch"}
  <2>1. CASE l = k
    BY <2>1 DEF TickTypeOK, Leaves, Goto
  <2>2. CASE l # k
    <3>1. job'[l] = job[l] /\ pc'[l] = pc[l]
      BY <2>2 DEF TickTypeOK, Leaves, Goto
    <3>2. QED
      BY <3>1 DEF TickTypeOK, Occupied
  <2>3. QED
    BY <2>1, <2>2
<1>3. executing' \subseteq Task /\ latest' \in [Call -> Row]
  BY NewRowType DEF TickTypeOK, Leaves
<1>4. QED
  BY <1>1, <1>2, <1>3 DEF TickTypeOK, Occupied

\* A move within executeTask, or within a tick outside it.
LEMMA GotoType ==
  ASSUME TickTypeOK, NEW k \in Call, NEW label \in Label, Goto(k, label),
         pc[k] \in {"idle", "fetch"} <=> label \in {"idle", "fetch"},
         job' = job, executing' = executing,
         todo' \in [Call -> SUBSET Task], latest' \in [Call -> Row]
  PROVE  TickTypeOK'
<1>1. pc' \in [Call -> Label] /\ job' \in [Call -> Task \cup {NoTask}]
  BY DEF TickTypeOK, Goto
<1>2. ASSUME NEW l \in Call
      PROVE  job'[l] = NoTask <=> pc'[l] \in {"idle", "fetch"}
  <2>1. pc'[l] = IF l = k THEN label ELSE pc[l]
    BY DEF TickTypeOK, Goto
  <2>2. QED
    BY <2>1 DEF TickTypeOK, Occupied
<1>3. executing' \subseteq Task
  BY DEF TickTypeOK
<1>4. QED
  BY <1>1, <1>2, <1>3 DEF TickTypeOK, Occupied

LEMMA SucceededType ==
  ASSUME NEW row \in Row
  PROVE  Succeeded(row) \in Row
<1>1. 0 \in 0 .. MaxFailures
  BY TaskConstants
<1>2. QED
  BY <1>1 DEF Succeeded, Row

LEMMA FailedType ==
  ASSUME NEW row \in Row, NEW t
  PROVE  Failed(t, row) \in Row
<1> DEFINE count == IF row.failures < MaxFailures THEN row.failures + 1
                                                  ELSE MaxFailures
<1>1. count \in 0 .. MaxFailures
  BY TaskConstants DEF Row
<1>2. (row.paused \/ (count = MaxFailures /\ t \notin Tireless)) \in BOOLEAN
  OBVIOUS
<1> HIDE DEF count
<1>3. ASSUME NEW p \in BOOLEAN
      PROVE  [row EXCEPT !.due = FALSE, !.failures = count, !.paused = p] \in Row
  BY <1>1 DEF Row
<1>4. Failed(t, row) =
        [row EXCEPT !.due = FALSE, !.failures = count,
           !.paused = row.paused \/ (count = MaxFailures /\ t \notin Tireless)]
  BY DEF Failed, Row, count
<1>5. QED
  BY <1>2, <1>3, <1>4

LEMMA StoresType ==
  ASSUME rows \in [Task -> Row], NEW t, NEW row \in Row, Stores(t, row)
  PROVE  rows' \in [Task -> Row]
BY DEF Stores

LEMMA TaskTypeInit == TaskInit => TaskTypeOK
<1> SUFFICES ASSUME TaskInit
             PROVE  TaskTypeOK
  OBVIOUS
<1>1. rows \in [Task -> Row]
  <2> DEFINE Fresh == {NewRow, [NewRow EXCEPT !.life = "stored"]}
  <2>1. rows \in [Task -> Fresh]
    BY DEF TaskInit
  <2>2. Fresh \subseteq Row
    BY NewRowType
  <2> HIDE DEF Fresh
  <2>3. QED
    BY <2>1, <2>2
<1>2. TickTypeOK
  <2>1. pc \in [Call -> Label] /\ todo \in [Call -> SUBSET Task]
    BY DEF TaskInit, Label
  <2>2. job \in [Call -> Task \cup {NoTask}] /\ executing \subseteq Task
    BY DEF TaskInit
  <2>3. latest \in [Call -> Row]
    BY NewRowType DEF TaskInit
  <2>4. Occupied
    BY DEF TaskInit, Occupied
  <2>5. QED
    BY <2>1, <2>2, <2>3, <2>4 DEF TickTypeOK
<1>3. request \in Request
  BY DEF TaskInit, Request
<1>4. /\ serverless \in BOOLEAN /\ dirty \in BOOLEAN
      /\ stopped \in BOOLEAN /\ ended \subseteq Task
      /\ calls \in 0 .. MaxCalls /\ faults \in 0 .. MaxFaults
  <2>1. 0 \in 0 .. MaxCalls /\ 0 \in 0 .. MaxFaults
    BY TaskConstants
  <2>2. QED
    BY <2>1 DEF TaskInit
<1>5. QED
  BY <1>1, <1>2, <1>3, <1>4, TypeParts

LEMMA TaskTypeStep == TaskTypeOK /\ [TaskNext]_taskVars => TaskTypeOK'
<1> SUFFICES ASSUME TaskTypeOK, [TaskNext]_taskVars
             PROVE  TaskTypeOK'
  OBVIOUS
<1>0. /\ TickTypeOK /\ rows \in [Task -> Row] /\ request \in Request
      /\ serverless \in BOOLEAN /\ dirty \in BOOLEAN
      /\ stopped \in BOOLEAN /\ ended \subseteq Task
      /\ calls \in 0 .. MaxCalls /\ faults \in 0 .. MaxFaults
  BY TypeParts
\* It is enough to follow what an action changes.
<1> DEFINE Rest == /\ rows' \in [Task -> Row] /\ request' \in Request
                   /\ serverless' \in BOOLEAN /\ dirty' \in BOOLEAN
                   /\ stopped' \in BOOLEAN /\ ended' \subseteq Task
                   /\ calls' \in 0 .. MaxCalls /\ faults' \in 0 .. MaxFaults
<1>a. ASSUME TickTypeOK', Rest
      PROVE  TaskTypeOK'
  BY <1>a, TypeParts DEF TaskTypeOK, TickTypeOK, Occupied, Label, Request
<1>b. ASSUME UNCHANGED <<executing, tickVars>>
      PROVE  TickTypeOK'
  BY <1>0, <1>b DEF tickVars, TickTypeOK, Occupied
<1>c. ASSUME NEW kind, Faulty(kind)
      PROVE  faults' \in 0 .. MaxFaults
  BY <1>0, <1>c, TaskConstants DEF Faulty
<1>d. ASSUME NEW k \in Call, pc[k] \notin {"idle", "fetch"}
      PROVE  job[k] \in Task
  BY <1>0, <1>d DEF TickTypeOK, Occupied
<1>e. /\ todo \in [Call -> SUBSET Task] /\ latest \in [Call -> Row]
      /\ pc \in [Call -> Label]
  BY <1>0 DEF TickTypeOK
<1>1. ASSUME NEW k \in Timer, CheckTasks(k)
      PROVE  TaskTypeOK'
  <2>1. k \in Call /\ "fetch" \in Label
    BY TaskConstants DEF Label
  <2>2. TickTypeOK'
    BY <1>0, <1>1, <1>e, <2>1, GotoType DEF CheckTasks
  <2>3. Rest
    BY <1>0, <1>1 DEF CheckTasks
  <2>4. QED
    BY <1>a, <2>2, <2>3
<1>2. ASSUME NEW k \in Call, NEW t \in Task, ExecuteTaskById(k, t)
      PROVE  TaskTypeOK'
  <2>1. TickTypeOK'
    BY <1>0, <1>2, <1>e, StartsType DEF ExecuteTaskById
  <2>2. Rest
    BY <1>0, <1>2 DEF ExecuteTaskById
  <2>3. QED
    BY <1>a, <2>1, <2>2
<1>3. ASSUME NEW k \in Call, Fetch(k)
      PROVE  TaskTypeOK'
  <2>1. "idle" \in Label /\ pc[k] \in {"idle", "fetch"}
    BY <1>3 DEF Fetch, Label
  <2>2. todo' \in [Call -> SUBSET Task]
    BY <1>3, <1>e DEF Fetch
  <2>3. TickTypeOK'
    BY <1>0, <1>3, <1>e, <2>1, <2>2, GotoType DEF Fetch
  <2>4. Rest
    BY <1>0, <1>3 DEF Fetch
  <2>5. QED
    BY <1>a, <2>3, <2>4
<1>4. ASSUME NEW k \in Call, NEW t \in Task, Execute(k, t)
      PROVE  TaskTypeOK'
  <2>1. todo' \in [Call -> SUBSET Task]
    BY <1>4, <1>e DEF Execute
  <2>2. TickTypeOK'
    BY <1>0, <1>4, <2>1, StartsType DEF Execute
  <2>3. Rest
    BY <1>0, <1>4 DEF Execute
  <2>4. QED
    BY <1>a, <2>2, <2>3
<1>5. ASSUME NEW k \in Call, NEW t \in Task, PassOver(k, t)
      PROVE  TaskTypeOK'
  <2>1. todo' \in [Call -> SUBSET Task]
    BY <1>5, <1>e DEF PassOver
  <2>2. TickTypeOK'
    BY <1>0, <1>5, <2>1 DEF PassOver, TickTypeOK, Occupied
  <2>3. Rest
    BY <1>0, <1>5 DEF PassOver
  <2>4. QED
    BY <1>a, <2>2, <2>3
<1>6. ASSUME NEW k \in Call, WorkerEnds(k)
      PROVE  TaskTypeOK'
  <2>1. PICK how \in {"ok", "failed"} : Goto(k, how)
    BY <1>6 DEF WorkerEnds
  <2>2. how \in Label /\ ~(how \in {"idle", "fetch"})
    BY DEF Label
  <2>3. TickTypeOK'
    BY <1>0, <1>6, <1>e, <2>1, <2>2, GotoType DEF WorkerEnds
  <2>4. job[k] \in Task
    BY <1>6, <1>d DEF WorkerEnds
  <2>5. Rest
    BY <1>0, <1>6, <2>4 DEF WorkerEnds
  <2>6. QED
    BY <1>a, <2>3, <2>5
<1>7. ASSUME NEW k \in Call, Reread(k)
      PROVE  TaskTypeOK'
  <2>1. Rest
    BY <1>0, <1>7 DEF Reread
  <2>2. CASE ~Stored(job[k])
    <3>1. TickTypeOK'
      BY <1>0, <1>7, <1>e, <2>2, LeavesType DEF Reread
    <3>2. QED
      BY <1>a, <2>1, <3>1
  <2>3. CASE Stored(job[k])
    <3>1. job[k] \in Task
      BY <1>7, <1>d DEF Reread
    <3>2. rows[job[k]] \in Row
      BY <1>0, <3>1
    <3> DEFINE row == IF pc[k] = "ok" THEN Succeeded(rows[job[k]])
                                      ELSE Failed(job[k], rows[job[k]])
               label == IF pc[k] = "ok" THEN "save" ELSE "saveFailure"
    <3>3. row \in Row
      BY <3>2, SucceededType, FailedType
    <3>4. latest' = [latest EXCEPT ![k] = row] /\ Goto(k, label)
      BY <1>7, <2>3 DEF Reread
    <3>5. label \in Label /\ label \notin {"idle", "fetch"}
      BY DEF Label
    <3> HIDE DEF row, label
    <3>6. latest' \in [Call -> Row]
      BY <1>e, <3>3, <3>4
    <3>7. TickTypeOK'
      BY <1>0, <1>7, <1>e, <2>3, <3>4, <3>5, <3>6, GotoType DEF Reread
    <3>8. QED
      BY <1>a, <2>1, <3>7
  <2>4. QED
    BY <2>2, <2>3
<1>8. ASSUME NEW k \in Call, Save(k)
      PROVE  TaskTypeOK'
  <2>1. TickTypeOK'
    BY <1>0, <1>8, <1>e, LeavesType DEF Save
  <2>2. rows' \in [Task -> Row]
    BY <1>0, <1>8, <1>e, StoresType DEF Save
  <2>3. Rest
    BY <1>0, <1>8, <2>2 DEF Save
  <2>4. QED
    BY <1>a, <2>1, <2>3
<1>9. ASSUME NEW k \in Call, Delete(k)
      PROVE  TaskTypeOK'
  <2>1. TickTypeOK'
    BY <1>0, <1>9, <1>e, LeavesType DEF Delete
  <2>2. job[k] \in Task
    BY <1>9, <1>d DEF Delete
  <2>3. [rows[job[k]] EXCEPT !.life = "deleted"] \in Row
    BY <1>0, <2>2 DEF Row
  <2>4. rows' \in [Task -> Row]
    BY <1>0, <1>9, <2>2, <2>3 DEF Delete
  <2>5. Rest
    BY <1>0, <1>9, <2>4 DEF Delete
  <2>6. QED
    BY <1>a, <2>1, <2>5
<1>10. ASSUME NEW k \in Call, SaveFails(k)
       PROVE  TaskTypeOK'
  <2>1. "failed" \in Label /\ pc[k] \notin {"idle", "fetch"}
    BY <1>10 DEF SaveFails, Label
  <2>2. latest' \in [Call -> Row]
    BY <1>10, <1>e, NewRowType DEF SaveFails
  <2>3. TickTypeOK'
    BY <1>0, <1>10, <1>e, <2>1, <2>2, GotoType DEF SaveFails
  <2>4. Rest
    BY <1>0, <1>10, <1>c DEF SaveFails
  <2>5. QED
    BY <1>a, <2>3, <2>4
<1>19. ASSUME NEW k \in Timer, FetchFails(k)
       PROVE  TaskTypeOK'
  <2>1. k \in Call /\ "idle" \in Label
    BY TaskConstants DEF Label
  <2>2. TickTypeOK'
    BY <1>0, <1>19, <1>e, <2>1, GotoType DEF FetchFails
  <2>3. Rest
    BY <1>0, <1>19, <1>c DEF FetchFails
  <2>4. QED
    BY <1>a, <2>2, <2>3
<1>11. ASSUME NEW k \in Call, TickFails(k)
       PROVE  TaskTypeOK'
  <2>1. todo' \in [Call -> SUBSET Task]
    BY <1>11, <1>e DEF TickFails
  <2>2. TickTypeOK'
    BY <1>0, <1>11, <2>1, LeavesType DEF TickFails
  <2>3. Rest
    BY <1>0, <1>11, <1>c DEF TickFails
  <2>4. QED
    BY <1>a, <2>2, <2>3
<1>12. ASSUME NEW what \in {"pause", "resume"}, NEW t \in Task, Ask(what, t)
       PROVE  TaskTypeOK'
  <2>1. TickTypeOK'
    BY <1>12, <1>b DEF Ask
  <2>2. rows[t].failures \in 0 .. MaxFailures /\ t \in Repeating
    BY <1>0, <1>12 DEF Ask, Row
  <2>3. request' \in Request
    BY <1>12, <2>2 DEF Ask, Request
  <2>4. calls' \in 0 .. MaxCalls
    BY <1>0, <1>12, TaskConstants DEF Ask
  <2>5. Rest
    BY <1>0, <1>12, <2>3, <2>4 DEF Ask
  <2>6. QED
    BY <1>a, <2>1, <2>5
<1>13. CASE Answer
  <2>1. TickTypeOK'
    BY <1>13, <1>b DEF Answer
  <2>2. request \in [what : {"pause", "resume"}, task : Repeating,
                     failures : 0 .. MaxFailures]
    BY <1>0, <1>13 DEF Answer, Request
  <2>3. request.task \in Task /\ request.failures \in 0 .. MaxFailures
    BY <2>2, TaskConstants
  <2>4. ASSUME NEW p \in BOOLEAN
        PROVE  [rows[request.task] EXCEPT !.paused = p,
                                          !.failures = request.failures] \in Row
    BY <1>0, <2>3 DEF Row
  <2>5. rows' \in [Task -> Row]
    <3>1. (request.what = "pause") \in BOOLEAN
      OBVIOUS
    <3>2. QED
      BY <1>0, <1>13, <2>4, <3>1, StoresType DEF Answer
  <2>6. request' \in Request
    BY <1>13 DEF Answer, Request
  <2>7. Rest
    BY <1>0, <1>13, <2>5, <2>6 DEF Answer
  <2>8. QED
    BY <1>a, <2>1, <2>7
<1>14. ASSUME NEW t \in Task, Create(t) \/ Cancel(t) \/ TimePasses(t)
       PROVE  TaskTypeOK'
  <2>1. TickTypeOK'
    BY <1>14, <1>b DEF Create, Cancel, TimePasses
  <2>2. /\ [rows[t] EXCEPT !.life = "stored"] \in Row
        /\ [rows[t] EXCEPT !.life = "deleted"] \in Row
        /\ [rows[t] EXCEPT !.due = TRUE] \in Row
    BY <1>0 DEF Row
  <2>3. rows' \in [Task -> Row]
    BY <1>0, <1>14, <2>2 DEF Create, Cancel, TimePasses
  <2>4. Rest
    BY <1>0, <1>14, <2>3 DEF Create, Cancel, TimePasses
  <2>5. QED
    BY <1>a, <2>1, <2>4
<1>15. CASE MarkDirty
  <2>1. TickTypeOK'
    BY <1>15, <1>b DEF MarkDirty
  <2>2. Rest
    BY <1>0, <1>15 DEF MarkDirty
  <2>3. QED
    BY <1>a, <2>1, <2>2
<1>16. CASE StopService
  <2>1. TickTypeOK'
    BY <1>0, <1>16 DEF StopService, tickVars, TickTypeOK, Occupied
  <2>2. Rest
    BY <1>0, <1>16, <1>c DEF StopService
  <2>3. QED
    BY <1>a, <2>1, <2>2
<1>17. CASE Crash
  <2>1. TickTypeOK'
    <3>1. pc' \in [Call -> Label] /\ todo' \in [Call -> SUBSET Task]
      BY <1>17 DEF Crash, Label
    <3>2. job' \in [Call -> Task \cup {NoTask}] /\ executing' \subseteq Task
      BY <1>17 DEF Crash
    <3>3. latest' \in [Call -> Row]
      BY <1>17, NewRowType DEF Crash
    <3>4. Occupied'
      BY <1>17 DEF Crash, Occupied
    <3>5. QED
      BY <3>1, <3>2, <3>3, <3>4 DEF TickTypeOK
  <2>2. request' \in Request
    BY <1>17 DEF Crash, Request
  <2>3. Rest
    BY <1>0, <1>17, <1>c, <2>2 DEF Crash
  <2>4. QED
    BY <1>a, <2>1, <2>3
<1>18. CASE UNCHANGED taskVars
  <2>1. TickTypeOK'
    BY <1>18, <1>b DEF taskVars
  <2>2. Rest
    BY <1>0, <1>18 DEF taskVars
  <2>3. QED
    BY <1>a, <2>1, <2>2
<1>20. QED
  BY <1>1, <1>2, <1>3, <1>4, <1>5, <1>6, <1>7, <1>8, <1>9, <1>10, <1>11,
     <1>12, <1>13, <1>14, <1>15, <1>16, <1>17, <1>18, <1>19
     DEF TaskNext, Step

\* Rows, calls and requests stay within their types, and a call has a task
\* exactly while it is inside executeTask.
THEOREM TaskIsTyped == TaskSpec => []TaskTypeOK
BY TaskTypeInit, TaskTypeStep, PTL DEF TaskSpec

-----------------------------------------------------------------------------
(* A blocking task runs alone *)

\* Whoever runs a blocking task has it in executingTasks, and is the only one.
OnRecord ==
  ~stopped => \A t \in Blocking \ ByHand, k \in Call : job[k] = t => t \in executing

AloneInv == OnRecord /\ BlockingRunsAlone

LEMMA AloneInit == TaskInit => AloneInv
<1> SUFFICES ASSUME TaskInit
             PROVE  AloneInv
  OBVIOUS
<1>1. \A t \in Blocking, k \in Call : job[k] # t
  BY TaskConstants DEF TaskInit
<1>2. QED
  BY <1>1 DEF AloneInv, OnRecord, BlockingRunsAlone

LEMMA AloneStarts ==
  ASSUME TaskTypeOK, AloneInv, NEW k \in Call, NEW t \in Task,
         Starts(k, t), t \notin Blocking \ ByHand \/ t \notin executing,
         stopped' = stopped
  PROVE  AloneInv'
<1>1. ASSUME NEW l \in Call
      PROVE  job'[l] = IF l = k THEN t ELSE job[l]
  BY DEF TaskTypeOK, Starts
<1>2. executing' = executing \cup {t}
  BY DEF Starts
<1>3. OnRecord'
  BY <1>1, <1>2 DEF AloneInv, OnRecord
<1>4. BlockingRunsAlone'
  BY <1>1 DEF AloneInv, OnRecord, BlockingRunsAlone
<1>5. QED
  BY <1>3, <1>4 DEF AloneInv

LEMMA AloneLeaves ==
  ASSUME TaskTypeOK, AloneInv, NEW k \in Call, Leaves(k), stopped' = stopped
  PROVE  AloneInv'
<1>1. ASSUME NEW l \in Call
      PROVE  job'[l] = IF l = k THEN NoTask ELSE job[l]
  BY DEF TaskTypeOK, Leaves
<1>2. executing' = executing \ {job[k]}
  BY DEF Leaves
<1>3. \A t \in Blocking : t # NoTask
  BY TaskConstants
<1>4. OnRecord'
  BY <1>1, <1>2, <1>3 DEF AloneInv, OnRecord, BlockingRunsAlone
<1>5. BlockingRunsAlone'
  BY <1>1, <1>3 DEF AloneInv, BlockingRunsAlone
<1>6. QED
  BY <1>4, <1>5 DEF AloneInv

LEMMA AloneStep == TaskTypeOK /\ AloneInv /\ [TaskNext]_taskVars => AloneInv'
<1> SUFFICES ASSUME TaskTypeOK, AloneInv, [TaskNext]_taskVars
             PROVE  AloneInv'
  OBVIOUS
<1>a. ASSUME UNCHANGED <<stopped, executing, job>>
      PROVE  AloneInv'
  BY <1>a DEF AloneInv, OnRecord, BlockingRunsAlone
<1>1. ASSUME NEW k \in Call, NEW t \in Task, Execute(k, t)
      PROVE  AloneInv'
  BY <1>1, AloneStarts DEF Execute, MayRun
<1>2. ASSUME NEW k \in Call, NEW t \in Task, ExecuteTaskById(k, t)
      PROVE  AloneInv'
  BY <1>2, AloneStarts DEF ExecuteTaskById
<1>3. ASSUME NEW k \in Call, Reread(k)
      PROVE  AloneInv'
  BY <1>3, <1>a, AloneLeaves DEF Reread
<1>4. ASSUME NEW k \in Call, Save(k) \/ Delete(k) \/ TickFails(k)
      PROVE  AloneInv'
  BY <1>4, AloneLeaves DEF Save, Delete, TickFails
<1>5. CASE StopService
  BY <1>5 DEF StopService, AloneInv, OnRecord, BlockingRunsAlone
<1>6. CASE Crash
  <2>1. \A t \in Blocking, k \in Call : job'[k] # t
    BY <1>6, TaskConstants DEF Crash
  <2>2. QED
    BY <2>1 DEF AloneInv, OnRecord, BlockingRunsAlone
<1>7. ASSUME NEW k \in Timer, CheckTasks(k) \/ FetchFails(k)
      PROVE  AloneInv'
  BY <1>7, <1>a DEF CheckTasks, FetchFails
<1>8. ASSUME NEW k \in Call, NEW t \in Task, PassOver(k, t)
      PROVE  AloneInv'
  BY <1>8, <1>a DEF PassOver
<1>9. ASSUME NEW k \in Call, Fetch(k) \/ WorkerEnds(k) \/ SaveFails(k)
      PROVE  AloneInv'
  BY <1>9, <1>a DEF Fetch, WorkerEnds, SaveFails
<1>10. ASSUME NEW t \in Task, NEW what,
              Ask(what, t) \/ Create(t) \/ Cancel(t) \/ TimePasses(t)
       PROVE  AloneInv'
  BY <1>10, <1>a DEF Ask, Create, Cancel, TimePasses, tickVars
<1>11. CASE MarkDirty \/ Answer
  BY <1>11, <1>a DEF MarkDirty, Answer, tickVars
<1>12. CASE UNCHANGED taskVars
  BY <1>12, <1>a DEF taskVars, tickVars
<1>13. QED
  BY <1>1, <1>2, <1>3, <1>4, <1>5, <1>6, <1>7, <1>8, <1>9, <1>10, <1>11,
     <1>12 DEF TaskNext, Step

\* task.ts: "blocking tasks must not run again until current run finishes":
\* no two of any number of overlapping ticks and host calls execute one
\* blocking task, whatever fails, unless it is also run by hand or the
\* service is stopped.
THEOREM BlockingAlone == TaskSpec => []BlockingRunsAlone
<1>1. AloneInv => BlockingRunsAlone
  BY DEF AloneInv
<1>2. QED
  BY <1>1, AloneInit, AloneStep, TaskIsTyped, PTL DEF TaskSpec

-----------------------------------------------------------------------------
(* No one-shot task is lost *)

\* Whoever deletes a task that does not repeat has seen its worker end, and
\* only a repeating task is written back.
Ran ==
  \A k \in Call :
    /\ pc[k] \in {"ok", "failed"} /\ job[k] \notin Repeating => job[k] \in ended
    /\ pc[k] \in {"save", "saveFailure"} => job[k] \in Repeating

LostInv == Ran /\ NoOneShotIsLost

LEMMA LostInit == TaskInit => LostInv
<1> SUFFICES ASSUME TaskInit
             PROVE  LostInv
  OBVIOUS
<1>1. Ran
  BY DEF TaskInit, Ran
<1>2. ASSUME NEW t \in Task
      PROVE  rows[t].life # "deleted"
  <2>1. rows[t] = NewRow \/ rows[t] = [NewRow EXCEPT !.life = "stored"]
    BY DEF TaskInit
  <2>2. QED
    BY <2>1 DEF NewRow
<1>3. QED
  BY <1>1, <1>2 DEF LostInv, NoOneShotIsLost

\* A step of one call that leaves the rows of one-shot tasks alone.
LEMMA RanMoves ==
  ASSUME TaskTypeOK, Ran, NEW k \in Call, NEW label, Goto(k, label),
         label \in {"save", "saveFailure"} => job[k] \in Repeating,
         label \in {"ok", "failed"} => job[k] \in Repeating \cup ended',
         label \in {"idle", "fetch", "run"} \/ job'[k] = job[k],
         \A l \in Call : l # k => job'[l] = job[l],
         ended \subseteq ended'
  PROVE  Ran'
<1>1. \A l \in Call : pc'[l] = IF l = k THEN label ELSE pc[l]
  BY DEF TaskTypeOK, Goto
<1>2. QED
  BY <1>1 DEF Ran

LEMMA RanLeaves ==
  ASSUME TaskTypeOK, Ran, NEW k \in Call, Leaves(k), ended' = ended
  PROVE  Ran'
<1>1. \A l \in Call : l # k => job'[l] = job[l]
  BY DEF TaskTypeOK, Leaves
<1>2. QED
  BY <1>1, RanMoves DEF Leaves

\* Rows of one-shot tasks that a write leaves alone stay where they were.
LEMMA LostStores ==
  ASSUME TaskTypeOK, NoOneShotIsLost, NEW t \in Repeating, NEW row,
         Stores(t, row), ended' = ended
  PROVE  NoOneShotIsLost'
<1>1. \A u \in Task \ Repeating : rows'[u] = rows[u]
  BY DEF TaskTypeOK, Stores
<1>2. QED
  BY <1>1 DEF NoOneShotIsLost

LEMMA LostStep == TaskTypeOK /\ LostInv /\ [TaskNext]_taskVars => LostInv'
<1> SUFFICES ASSUME TaskTypeOK, LostInv, [TaskNext]_taskVars
             PROVE  LostInv'
  OBVIOUS
<1>0. Ran /\ NoOneShotIsLost
  BY DEF LostInv
<1>a. ASSUME UNCHANGED <<pc, job, ended>>
      PROVE  Ran'
  BY <1>0, <1>a DEF Ran
<1>b. ASSUME UNCHANGED rows, ended \subseteq ended'
      PROVE  NoOneShotIsLost'
  BY <1>0, <1>b DEF NoOneShotIsLost
<1>1. ASSUME NEW k \in Timer, CheckTasks(k) \/ FetchFails(k)
      PROVE  LostInv'
  <2>1. k \in Call
    BY TaskConstants
  <2>2. Ran'
    BY <1>0, <1>1, <2>1, RanMoves DEF CheckTasks, FetchFails
  <2>3. QED
    BY <1>1, <1>b, <2>2 DEF CheckTasks, FetchFails, LostInv
<1>2. ASSUME NEW k \in Call, Fetch(k)
      PROVE  LostInv'
  <2>1. Ran'
    BY <1>0, <1>2, RanMoves DEF Fetch
  <2>2. QED
    BY <1>2, <1>b, <2>1 DEF Fetch, LostInv
<1>3. ASSUME NEW k \in Call, NEW t \in Task, Starts(k, t),
             UNCHANGED <<rows, ended>>
      PROVE  LostInv'
  <2>1. \A l \in Call : l # k => job'[l] = job[l]
    BY <1>3 DEF TaskTypeOK, Starts
  <2>2. Ran'
    BY <1>0, <1>3, <2>1, RanMoves DEF Starts
  <2>3. QED
    BY <1>3, <1>b, <2>2 DEF LostInv
<1>4. ASSUME NEW k \in Call, NEW t \in Task, Execute(k, t)
      PROVE  LostInv'
  BY <1>3, <1>4 DEF Execute
<1>5. ASSUME NEW k \in Call, NEW t \in Task, ExecuteTaskById(k, t)
      PROVE  LostInv'
  BY <1>3, <1>5 DEF ExecuteTaskById
<1>6. ASSUME NEW k \in Call, NEW t \in Task, PassOver(k, t)
      PROVE  LostInv'
  BY <1>6, <1>a, <1>b DEF PassOver, LostInv
<1>7. ASSUME NEW k \in Call, WorkerEnds(k)
      PROVE  LostInv'
  <2>1. PICK how \in {"ok", "failed"} : Goto(k, how)
    BY <1>7 DEF WorkerEnds
  <2>2. job[k] \in Repeating \cup ended' /\ ended \subseteq ended'
    BY <1>7 DEF WorkerEnds
  <2>3. Ran'
    BY <1>0, <1>7, <2>1, <2>2, RanMoves DEF WorkerEnds
  <2>4. QED
    BY <1>7, <1>b, <2>2, <2>3 DEF WorkerEnds, LostInv
<1>8. ASSUME NEW k \in Call, Reread(k)
      PROVE  LostInv'
  <2>1. CASE ~Stored(job[k])
    BY <1>0, <1>8, <1>b, <2>1, RanLeaves DEF Reread, LostInv
  <2>2. CASE Stored(job[k])
    <3>1. PICK label \in {"save", "saveFailure"} : Goto(k, label)
      BY <1>8, <2>2 DEF Reread
    <3>2. job[k] \in Repeating /\ job' = job /\ ended' = ended /\ rows' = rows
      BY <1>8, <2>2 DEF Reread
    <3>3. Ran'
      BY <1>0, <3>1, <3>2, RanMoves
    <3>4. QED
      BY <1>b, <3>2, <3>3 DEF LostInv
  <2>3. QED
    BY <2>1, <2>2
<1>9. ASSUME NEW k \in Call, Save(k)
      PROVE  LostInv'
  <2>1. Ran'
    BY <1>0, <1>9, RanLeaves DEF Save
  <2>2. job[k] \in Repeating
    BY <1>0, <1>9 DEF Save, Ran
  <2>3. NoOneShotIsLost'
    BY <1>0, <1>9, <2>2, LostStores DEF Save
  <2>4. QED
    BY <2>1, <2>3 DEF LostInv
<1>10. ASSUME NEW k \in Call, Delete(k)
       PROVE  LostInv'
  <2>1. Ran'
    BY <1>0, <1>10, RanLeaves DEF Delete
  <2>2. job[k] \in ended' /\ ended' = ended
    BY <1>0, <1>10 DEF Delete, Ran
  <2>3. \A t \in Task : t # job[k] => rows'[t] = rows[t]
    BY <1>10 DEF Delete, TaskTypeOK
  <2>4. NoOneShotIsLost'
    BY <1>0, <2>2, <2>3 DEF NoOneShotIsLost
  <2>5. QED
    BY <2>1, <2>4 DEF LostInv
<1>11. ASSUME NEW k \in Call, SaveFails(k)
       PROVE  LostInv'
  <2>1. job[k] \in Repeating \cup ended
    BY <1>0, <1>11 DEF SaveFails, Ran
  <2>2. Ran'
    BY <1>0, <1>11, <2>1, RanMoves DEF SaveFails
  <2>3. QED
    BY <1>11, <1>b, <2>2 DEF SaveFails, LostInv
<1>12. ASSUME NEW k \in Call, TickFails(k)
       PROVE  LostInv'
  BY <1>0, <1>12, <1>b, RanLeaves DEF TickFails, LostInv
<1>13. ASSUME NEW what, NEW t \in Task, Ask(what, t)
       PROVE  LostInv'
  BY <1>13, <1>a, <1>b DEF Ask, tickVars, LostInv
<1>14. CASE Answer
  <2>1. request.task \in Repeating
    BY <1>14 DEF Answer, TaskTypeOK
  <2>2. NoOneShotIsLost'
    BY <1>0, <1>14, <2>1, LostStores DEF Answer
  <2>3. QED
    BY <1>14, <1>a, <2>2 DEF Answer, tickVars, LostInv
<1>15. ASSUME NEW t \in Task, Create(t) \/ TimePasses(t)
       PROVE  LostInv'
  <2>1. rows \in [Task -> Row]
    BY DEF TaskTypeOK
  <2>2. ASSUME NEW u \in Task, rows'[u].life = "deleted"
        PROVE  rows[u].life = "deleted"
    <3>1. rows[u] \in Row /\ rows[t] \in Row
      BY <2>1
    <3>2. CASE Create(t)
      BY <2>1, <2>2, <3>1, <3>2 DEF Create, Row
    <3>3. CASE TimePasses(t)
      BY <2>1, <2>2, <3>1, <3>3 DEF TimePasses, Row
    <3>4. QED
      BY <1>15, <3>2, <3>3
  <2>3. NoOneShotIsLost'
    BY <1>0, <1>15, <2>2 DEF Create, TimePasses, NoOneShotIsLost
  <2>4. QED
    BY <1>15, <1>a, <2>3 DEF Create, TimePasses, tickVars, LostInv
<1>16. ASSUME NEW t \in Task, Cancel(t)
       PROVE  LostInv'
  <2>1. \A u \in Task \ Repeating : rows'[u] = rows[u]
    BY <1>16 DEF Cancel, TaskTypeOK
  <2>2. NoOneShotIsLost'
    BY <1>0, <1>16, <2>1 DEF Cancel, NoOneShotIsLost
  <2>3. QED
    BY <1>16, <1>a, <2>2 DEF Cancel, tickVars, LostInv
<1>17. CASE MarkDirty \/ StopService
  BY <1>17, <1>a, <1>b DEF MarkDirty, StopService, tickVars, LostInv
<1>18. CASE Crash
  <2>1. Ran'
    BY <1>18 DEF Crash, Ran
  <2>2. QED
    BY <1>18, <1>b, <2>1 DEF Crash, LostInv
<1>19. CASE UNCHANGED taskVars
  BY <1>19, <1>a, <1>b DEF taskVars, tickVars, LostInv
<1>20. QED
  BY <1>1, <1>2, <1>4, <1>5, <1>6, <1>7, <1>8, <1>9, <1>10, <1>11, <1>12,
     <1>13, <1>14, <1>15, <1>16, <1>17, <1>18, <1>19 DEF TaskNext, Step

\* A task that does not repeat is deleted only after its worker has ended on
\* it: whatever crashes or fails before that leaves it to a later tick.
THEOREM OneShotIsNotLost == TaskSpec => []NoOneShotIsLost
<1>1. LostInv => NoOneShotIsLost
  BY DEF LostInv
<1>2. QED
  BY <1>1, LostInit, LostStep, TaskIsTyped, PTL DEF TaskSpec
-----------------------------------------------------------------------------
(* No ghost keeps a task from running *)

\* What executingTasks has on record is being executed.
NoGhostRuns == \A t \in executing : Executed(t)

LEMMA GhostStarts ==
  ASSUME TaskTypeOK, NoGhostRuns, NEW k \in Call, NEW t \in Task,
         Starts(k, t), job[k] = NoTask
  PROVE  NoGhostRuns'
<1>1. \A l \in Call : job'[l] = IF l = k THEN t ELSE job[l]
  BY DEF TaskTypeOK, Starts
<1>2. ASSUME NEW u \in executing'
      PROVE  \E l \in Call : job'[l] = u
  <2>1. CASE u = t
    BY <1>1, <2>1
  <2>2. CASE u # t
    <3>1. u \in executing /\ u \in Task
      BY <1>2, <2>2 DEF Starts, TaskTypeOK
    <3>2. PICK l \in Call : job[l] = u
      BY <3>1 DEF NoGhostRuns, Executed
    <3>3. l # k
      BY <3>1, <3>2, TaskConstants
    <3>4. QED
      BY <1>1, <3>2, <3>3
  <2>3. QED
    BY <2>1, <2>2
<1>3. QED
  BY <1>2 DEF NoGhostRuns, Executed

LEMMA GhostLeaves ==
  ASSUME TaskTypeOK, NoGhostRuns, NEW k \in Call, Leaves(k)
  PROVE  NoGhostRuns'
<1>1. \A l \in Call : l # k => job'[l] = job[l]
  BY DEF TaskTypeOK, Leaves
<1>2. ASSUME NEW u \in executing'
      PROVE  \E l \in Call : job'[l] = u
  <2>1. u \in executing /\ u # job[k]
    BY <1>2 DEF Leaves
  <2>2. PICK l \in Call : job[l] = u
    BY <2>1 DEF NoGhostRuns, Executed
  <2>3. QED
    BY <1>1, <2>1, <2>2
<1>3. QED
  BY <1>2 DEF NoGhostRuns, Executed

LEMMA GhostStep == TaskTypeOK /\ NoGhostRuns /\ [TaskNext]_taskVars => NoGhostRuns'
<1> SUFFICES ASSUME TaskTypeOK, NoGhostRuns, [TaskNext]_taskVars
             PROVE  NoGhostRuns'
  OBVIOUS
<1>a. ASSUME UNCHANGED <<executing, job>>
      PROVE  NoGhostRuns'
  BY <1>a DEF NoGhostRuns, Executed
<1>b. ASSUME NEW k \in Call, pc[k] = "idle"
      PROVE  job[k] = NoTask
  BY <1>b DEF TaskTypeOK
<1>1. ASSUME NEW k \in Call, NEW t \in Task, Execute(k, t)
      PROVE  NoGhostRuns'
  BY <1>1, <1>b, GhostStarts DEF Execute
<1>2. ASSUME NEW k \in Call, NEW t \in Task, ExecuteTaskById(k, t)
      PROVE  NoGhostRuns'
  BY <1>2, <1>b, GhostStarts DEF ExecuteTaskById
<1>3. ASSUME NEW k \in Call, Reread(k)
      PROVE  NoGhostRuns'
  BY <1>3, <1>a, GhostLeaves DEF Reread
<1>4. ASSUME NEW k \in Call, Save(k) \/ Delete(k) \/ TickFails(k)
      PROVE  NoGhostRuns'
  BY <1>4, GhostLeaves DEF Save, Delete, TickFails
<1>5. CASE StopService \/ Crash
  BY <1>5 DEF StopService, Crash, NoGhostRuns
<1>6. ASSUME NEW k \in Timer, CheckTasks(k) \/ FetchFails(k)
      PROVE  NoGhostRuns'
  BY <1>6, <1>a DEF CheckTasks, FetchFails
<1>7. ASSUME NEW k \in Call, NEW t \in Task, PassOver(k, t)
      PROVE  NoGhostRuns'
  BY <1>7, <1>a DEF PassOver
<1>8. ASSUME NEW k \in Call, Fetch(k) \/ WorkerEnds(k) \/ SaveFails(k)
      PROVE  NoGhostRuns'
  BY <1>8, <1>a DEF Fetch, WorkerEnds, SaveFails
<1>9. ASSUME NEW t \in Task, NEW what,
             Ask(what, t) \/ Create(t) \/ Cancel(t) \/ TimePasses(t)
      PROVE  NoGhostRuns'
  BY <1>9, <1>a DEF Ask, Create, Cancel, TimePasses, tickVars
<1>10. CASE MarkDirty \/ Answer
  BY <1>10, <1>a DEF MarkDirty, Answer, tickVars
<1>11. CASE UNCHANGED taskVars
  BY <1>11, <1>a DEF taskVars, tickVars
<1>12. QED
  BY <1>1, <1>2, <1>3, <1>4, <1>5, <1>6, <1>7, <1>8, <1>9, <1>10, <1>11
     DEF TaskNext, Step

\* Every exit of executeTask, the abandoned tick included, takes its task off
\* executingTasks: a blocking task is passed over only while a run of it is
\* under way, and never because of one that ended.
THEOREM TaskNoGhosts == TaskSpec => []NoGhostRuns
<1>1. TaskInit => NoGhostRuns
  BY DEF TaskInit, NoGhostRuns
<1>2. QED
  BY <1>1, GhostStep, TaskIsTyped, PTL DEF TaskSpec
=============================================================================
