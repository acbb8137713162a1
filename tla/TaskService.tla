----------------------------- MODULE TaskService -----------------------------
(***************************************************************************)
(* The task scheduler of the agent runtime                                 *)
(* (packages/typescript/src/services/task.ts): stored tasks tagged "queue" *)
(* are fetched and executed by ticks of a local timer and by a host that   *)
(* calls runDueTasks; ticks overlap each other, the operators' pauseTask   *)
(* and resumeTask, and the awaits of executeTask.                          *)
(*                                                                         *)
(* Abstractions.  Time: a row is due once its interval has elapsed since   *)
(* the run it records, at any moment after it.  The rows a tick fetched    *)
(* are run in any order.  failureCount stops at MaxFailures, beyond which  *)
(* the code no longer distinguishes it.  Every task has a registered       *)
(* worker that accepts it: validateTasks skips any other before the        *)
(* modelled steps.  resumeTask with runImmediately is a resume followed by *)
(* ExecuteTaskById.  Module TaskDaemon has the scheduler that several      *)
(* services may share.                                                     *)
(***************************************************************************)
EXTENDS Naturals

CONSTANTS
  Task,         \* tasks that may come to be stored
  NoTask,       \* no task
  Repeating,    \* those tagged "repeat"
  Blocking,     \* repeating tasks that do not set blocking: false
  Tireless,     \* repeating tasks with maxFailures: -1
  ByHand,       \* tasks an operator may run by id
  Call,         \* ticks of the local timer and calls by the host that overlap
  Timer,        \* those that are the timer's, unless the runtime is serverless
  MaxFailures,  \* maxFailures of the others
  MaxCalls,     \* bound on pauses and resumes
  Fault,        \* kinds of fault that may happen, and stop
  MaxFaults     \* bound on their number

ASSUME TaskConstants ==
  /\ Repeating \subseteq Task /\ Blocking \subseteq Repeating
  /\ Tireless \subseteq Repeating /\ NoTask \notin Task
  /\ Timer \subseteq Call
  /\ MaxFailures \in Nat \ {0} /\ MaxCalls \in Nat /\ MaxFaults \in Nat

VARIABLES
  serverless, \* runtime.serverless, which never changes
  rows,       \* the stored tasks
  dirty,      \* tasksDirty
  stopped,    \* stopped
  executing,  \* executingTasks
  pc,         \* where each call is
  todo,       \* the tasks it has fetched and found due
  job,        \* the task it executes
  latest,     \* the row executeTask is about to write
  request,    \* a pauseTask or resumeTask between its read and its write
  ended,      \* history: one-shot tasks a worker has ended on
  calls,      \* pauses and resumes so far
  faults      \* faults so far

tickVars == <<pc, todo, job, latest>>
taskVars == <<serverless, rows, dirty, stopped, executing, tickVars, request,
              ended, calls, faults>>

\* startTimer: a serverless runtime has no timer.
Ticks == IF serverless THEN {} ELSE Timer

\* The host may call the public API of either.
Host == Call \ Ticks

Row == [life : {"unborn", "stored", "deleted"}, due : BOOLEAN,
        paused : BOOLEAN, failures : 0 .. MaxFailures]

NewRow == [life |-> "unborn", due |-> FALSE, paused |-> FALSE, failures |-> 0]

Stored(t) == rows[t].life = "stored"

\* updateTask replaces the metadata of a stored row and ignores any other.
Stores(t, row) ==
  rows' = IF Stored(t) THEN [rows EXCEPT ![t] = row] ELSE rows

Goto(k, label) == pc' = [pc EXCEPT ![k] = label]

-----------------------------------------------------------------------------
(* A tick.  A definition named ...Bug is the one below it with a plausible *)
(* mistake in it; nothing uses it but the mutants of PROJECT.json.         *)

\* The interval fires; nothing is fetched unless the list is dirty.
CheckTasks(k) ==
  /\ k \in Ticks
  /\ pc[k] = "idle" /\ todo[k] = {}
  /\ ~stopped /\ dirty
  /\ dirty' = FALSE
  /\ Goto(k, "fetch")
  /\ UNCHANGED <<serverless, rows, stopped, executing, todo, job, latest,
                 request, ended, calls, faults>>

\* A repeating task is due when its interval has elapsed, any other from
\* dueAt on; only repeating tasks can be paused.
Due(t) ==
  /\ Stored(t) /\ rows[t].due
  /\ t \in Repeating => ~rows[t].paused

\* getTasks answers, for the timer or in runDueTasks; runTick is a no-op on a
\* stopped service.
Fetch(k) ==
  /\ pc[k] = IF k \in Ticks THEN "fetch" ELSE "idle"
  /\ todo[k] = {}
  /\ todo' = [todo EXCEPT ![k] = {t \in Task : ~stopped /\ Due(t)}]
  /\ Goto(k, "idle")
  /\ UNCHANGED <<serverless, rows, dirty, stopped, executing, job, latest,
                 request, ended, calls, faults>>

Starts(k, t) ==
  /\ executing' = executing \cup {t}
  /\ job' = [job EXCEPT ![k] = t]
  /\ Goto(k, "run")

MayRunBug(t) == TRUE

\* A blocking task is passed over while a run of it is on record.
MayRun(t) == t \in Blocking => t \notin executing

Execute(k, t) ==
  /\ pc[k] = "idle" /\ t \in todo[k] /\ MayRun(t)
  /\ todo' = [todo EXCEPT ![k] = @ \ {t}]
  /\ Starts(k, t)
  /\ UNCHANGED <<serverless, rows, dirty, stopped, latest, request, ended,
                 calls, faults>>

PassOver(k, t) ==
  /\ pc[k] = "idle" /\ t \in todo[k] /\ ~MayRun(t)
  /\ todo' = [todo EXCEPT ![k] = @ \ {t}]
  /\ UNCHANGED <<serverless, rows, dirty, stopped, executing, pc, job, latest,
                 request, ended, calls, faults>>

-----------------------------------------------------------------------------
(* executeTask *)

WorkerEnds(k) ==
  /\ pc[k] = "run"
  /\ \E how \in {"ok", "failed"} : Goto(k, how)
  /\ ended' = ended \cup ({job[k]} \ Repeating)
  /\ UNCHANGED <<serverless, rows, dirty, stopped, executing, todo, job,
                 latest, request, calls, faults>>

LeavesForGoodBug(k) ==
  /\ job' = [job EXCEPT ![k] = NoTask]
  /\ latest' = [latest EXCEPT ![k] = NewRow]
  /\ Goto(k, "idle")
  /\ UNCHANGED executing

LeavesJobBug(k) ==
  /\ executing' = executing \ {job[k]}
  /\ latest' = [latest EXCEPT ![k] = NewRow]
  /\ Goto(k, "idle")
  /\ UNCHANGED job

\* The finally block.
Leaves(k) ==
  /\ executing' = executing \ {job[k]}
  /\ job' = [job EXCEPT ![k] = NoTask]
  /\ latest' = [latest EXCEPT ![k] = NewRow]
  /\ Goto(k, "idle")

Succeeded(row) == [row EXCEPT !.due = FALSE, !.failures = 0]

FailedBug(t, row) == [row EXCEPT !.due = FALSE]

\* Failures are counted; the last one allowed pauses the task.
Failed(t, row) ==
  LET count == IF row.failures < MaxFailures THEN row.failures + 1
                                             ELSE MaxFailures
  IN  [row EXCEPT !.due = FALSE, !.failures = count,
                  !.paused = @ \/ (count = MaxFailures /\ t \notin Tireless)]

\* getTask again after the worker; a task deleted meanwhile is left alone.
Reread(k) ==
  /\ pc[k] \in {"ok", "failed"} /\ job[k] \in Repeating
  /\ IF Stored(job[k])
     THEN /\ latest' = [latest EXCEPT ![k] =
                IF pc[k] = "ok" THEN Succeeded(rows[job[k]])
                                ELSE Failed(job[k], rows[job[k]])]
          /\ Goto(k, IF pc[k] = "ok" THEN "save" ELSE "saveFailure")
          /\ UNCHANGED <<executing, job>>
     ELSE Leaves(k)
  /\ UNCHANGED <<serverless, rows, dirty, stopped, todo, request, ended, calls,
                 faults>>

Save(k) ==
  /\ pc[k] \in {"save", "saveFailure"}
  /\ Stores(job[k], latest[k])
  /\ Leaves(k)
  /\ UNCHANGED <<serverless, dirty, stopped, todo, request, ended, calls,
                 faults>>

DeleteBug(k) ==
  /\ pc[k] \in {"run", "ok", "failed"} /\ job[k] \notin Repeating
  /\ rows' = [rows EXCEPT ![job[k]].life = "deleted"]
  /\ Leaves(k)
  /\ UNCHANGED <<serverless, dirty, stopped, todo, request, ended, calls,
                 faults>>

\* A task that does not repeat is deleted, whether its run failed or not.
Delete(k) ==
  /\ pc[k] \in {"ok", "failed"} /\ job[k] \notin Repeating
  /\ rows' = [rows EXCEPT ![job[k]].life = "deleted"]
  /\ Leaves(k)
  /\ UNCHANGED <<serverless, dirty, stopped, todo, request, ended, calls,
                 faults>>

-----------------------------------------------------------------------------
(* Operators, and whoever creates tasks *)

\* executeTaskById, which does not look at executingTasks.
ExecuteTaskById(k, t) ==
  /\ k \in Host /\ t \in ByHand /\ Stored(t)
  /\ pc[k] = "idle" /\ todo[k] = {}
  /\ Starts(k, t)
  /\ UNCHANGED <<serverless, rows, dirty, stopped, todo, latest, request,
                 ended, calls, faults>>

MarkDirty ==
  /\ Host # {} /\ ~dirty
  /\ dirty' = TRUE
  /\ UNCHANGED <<serverless, rows, stopped, executing, tickVars, request,
                 ended, calls, faults>>

NoRequest == [what |-> "none", task |-> NoTask, failures |-> 0]

\* pauseTask and resumeTask read the task ...  (The flag of a task that does
\* not repeat is never looked at.)
Ask(what, t) ==
  /\ request = NoRequest /\ t \in Repeating /\ Stored(t) /\ calls < MaxCalls
  /\ request' = [what |-> what, task |-> t, failures |-> rows[t].failures]
  /\ calls' = calls + 1
  /\ UNCHANGED <<serverless, rows, dirty, stopped, executing, tickVars, ended,
                 faults>>

\* ... and write all its metadata back, the flag set or cleared.  The older
\* updatedAt they restore makes the task due no later than it was.
Answer ==
  /\ request # NoRequest
  /\ Stores(request.task, [rows[request.task] EXCEPT
                             !.paused = (request.what = "pause"),
                             !.failures = request.failures])
  /\ request' = NoRequest
  /\ UNCHANGED <<serverless, dirty, stopped, executing, tickVars, ended, calls,
                 faults>>

\* createTask does not mark the list dirty.
Create(t) ==
  /\ rows[t].life = "unborn"
  /\ rows' = [rows EXCEPT ![t].life = "stored"]
  /\ UNCHANGED <<serverless, dirty, stopped, executing, tickVars, request,
                 ended, calls, faults>>

\* The owner of a repeating task deletes it.
Cancel(t) ==
  /\ t \in Repeating /\ Stored(t)
  /\ rows' = [rows EXCEPT ![t].life = "deleted"]
  /\ UNCHANGED <<serverless, dirty, stopped, executing, tickVars, request,
                 ended, calls, faults>>

TimePasses(t) ==
  /\ Stored(t) /\ ~rows[t].due
  /\ rows' = [rows EXCEPT ![t].due = TRUE]
  /\ UNCHANGED <<serverless, dirty, stopped, executing, tickVars, request,
                 ended, calls, faults>>

-----------------------------------------------------------------------------
(* Stopping, and faults *)

Faulty(kind) == kind \in Fault /\ faults < MaxFaults /\ faults' = faults + 1

StopService ==
  /\ Faulty("stop") /\ ~stopped
  /\ stopped' = TRUE
  /\ executing' = {}
  /\ UNCHANGED <<serverless, rows, dirty, tickVars, request, ended, calls>>

\* getTasks fails in a tick of the timer, which has cleared tasksDirty.  (In
\* runDueTasks it changes nothing.)
FetchFails(k) ==
  /\ Faulty("db_error")
  /\ pc[k] = "fetch"
  /\ Goto(k, "idle")
  /\ UNCHANGED <<serverless, rows, dirty, stopped, executing, todo, job,
                 latest, request, ended, calls>>

\* The database fails after a successful run: the catch block takes it for a
\* failure of the worker.
SaveFails(k) ==
  /\ Faulty("db_error")
  /\ pc[k] \in {"ok", "save"}
  /\ Goto(k, "failed")
  /\ latest' = [latest EXCEPT ![k] = NewRow]
  /\ UNCHANGED <<serverless, rows, dirty, stopped, executing, todo, job,
                 request, ended, calls>>

\* The database fails in the catch block: the tick is abandoned.
TickFails(k) ==
  /\ Faulty("db_error")
  /\ pc[k] \in {"failed", "saveFailure"}
  /\ todo' = [todo EXCEPT ![k] = {}]
  /\ Leaves(k)
  /\ UNCHANGED <<serverless, rows, dirty, stopped, request, ended, calls>>

\* The process dies and starts again on the stored rows.
Crash ==
  /\ Faulty("crash")
  /\ pc' = [k \in Call |-> "idle"]
  /\ todo' = [k \in Call |-> {}]
  /\ job' = [k \in Call |-> NoTask]
  /\ latest' = [k \in Call |-> NewRow]
  /\ dirty' = TRUE /\ stopped' = FALSE /\ executing' = {}
  /\ request' = NoRequest
  /\ UNCHANGED <<serverless, rows, ended, calls>>

-----------------------------------------------------------------------------
(* Specification *)

TaskInit ==
  /\ serverless \in BOOLEAN
  /\ rows \in [Task -> {NewRow, [NewRow EXCEPT !.life = "stored"]}]
  /\ dirty = TRUE /\ stopped = FALSE /\ executing = {}
  /\ pc = [k \in Call |-> "idle"]
  /\ todo = [k \in Call |-> {}]
  /\ job = [k \in Call |-> NoTask]
  /\ latest = [k \in Call |-> NewRow]
  /\ request = NoRequest
  /\ ended = {}
  /\ calls = 0 /\ faults = 0

Step(k) ==
  \/ Fetch(k) \/ WorkerEnds(k) \/ Reread(k) \/ Save(k) \/ Delete(k)
  \/ \E t \in Task : Execute(k, t) \/ PassOver(k, t)

TaskNext ==
  \/ \E k \in Timer : CheckTasks(k) \/ FetchFails(k)
  \/ \E k \in Call, t \in Task : ExecuteTaskById(k, t)
  \/ \E k \in Call : Step(k) \/ SaveFails(k) \/ TickFails(k)
  \/ \E t \in Task : \/ Ask("pause", t) \/ Ask("resume", t)
                     \/ Create(t) \/ Cancel(t) \/ TimePasses(t)
  \/ MarkDirty \/ Answer \/ StopService \/ Crash

TaskSpec == TaskInit /\ [][TaskNext]_taskVars

\* The interval and the clock go on, workers end and calls under way continue.
\* A host, if there is one, calls runDueTasks again and again: the README of
\* the package asks that of a serverless runtime only, and the properties
\* that rest on it are stated of no other.
FairTaskSpec ==
  /\ TaskSpec
  /\ \A k \in Timer : WF_taskVars(CheckTasks(k))
  /\ \A k \in Call : WF_taskVars(Step(k))
  /\ \A t \in Task : WF_taskVars(TimePasses(t))

-----------------------------------------------------------------------------
(* Properties *)

\* Rows and calls stay within their types, and a call has a task exactly
\* while it is inside executeTask.
TaskTypeOK ==
  /\ serverless \in BOOLEAN
  /\ rows \in [Task -> Row]
  /\ dirty \in BOOLEAN /\ stopped \in BOOLEAN
  /\ executing \subseteq Task
  /\ pc \in [Call -> {"idle", "fetch", "run", "ok", "failed", "save",
                      "saveFailure"}]
  /\ todo \in [Call -> SUBSET Task]
  /\ job \in [Call -> Task \cup {NoTask}]
  /\ \A k \in Call : job[k] = NoTask <=> pc[k] \in {"idle", "fetch"}
  /\ latest \in [Call -> Row]
  /\ request \in {NoRequest} \cup
       [what : {"pause", "resume"}, task : Repeating, failures : 0 .. MaxFailures]
  /\ ended \subseteq Task
  /\ calls \in 0 .. MaxCalls /\ faults \in 0 .. MaxFaults

\* task.ts: "blocking tasks must not run again until current run finishes".
\* However ticks, hosts, failures and crashes interleave, no two calls
\* execute one blocking task, unless it is also run by hand or the service is
\* stopped, which empties executingTasks under the runs still going.
BlockingRunsAlone ==
  ~stopped =>
    \A t \in Blocking \ ByHand, k, l \in Call : job[k] = t /\ job[l] = t => k = l

\* A task that does not repeat is gone only after its worker has ended on it:
\* a crash or a database error before that leaves it to a later tick.
NoOneShotIsLost ==
  \A t \in Task \ Repeating : rows[t].life = "deleted" => t \in ended

Executed(t) == \E k \in Call : job[k] = t

\* A repeating task is executed for ever unless it is paused or deleted, and
\* any other is executed and deleted.
Runs(t) ==
  []<>(\/ ~Stored(t) \/ stopped
       \/ t \in Repeating /\ (Executed(t) \/ rows[t].paused))

\* README of the package, of a serverless runtime: "no timer. Host calls
\* `taskService.runDueTasks()` from cron or on each request to run due queue
\* tasks once".  With such a host every task runs.
EventuallyRuns == serverless => \A t \in Task : Runs(t)

\* And of the local timer: "each runtime fetches its own queue tasks every
\* tick", so that every task runs without a host.  The code does not keep this.
TimerRuns == ~serverless => \A t \in Task : Runs(t)

Succeeds(t) == \E k \in Call : job[k] = t /\ pc[k] = "ok"

\* types/task.ts: maxFailures is to "prevent infinite retry storms".  With a
\* host as above, a repeating task succeeds again and again unless it ends up
\* paused: it does not fail for ever, whoever resumes it and whatever
\* overwrites its count.
NoRetryStorm ==
  serverless =>
    \A t \in Repeating \ Tireless :
      []<>(Succeeds(t) \/ rows[t].paused \/ ~Stored(t) \/ stopped)
=============================================================================
