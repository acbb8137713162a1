----------------------------- MODULE TaskDaemon -----------------------------
(***************************************************************************)
(* The scheduler that the agents of a process may share                    *)
(* (packages/typescript/src/services/task-scheduler.ts): one timer whose   *)
(* tick fetches the queue tasks of all agents marked dirty at once and     *)
(* hands each registered TaskService its own.  The interval does not wait  *)
(* for the last tick; services start, stop and mark meanwhile.             *)
(*                                                                         *)
(* Abstractions.  What runTick does with the tasks it is handed is         *)
(* TaskService's business; here it takes a while, and may delete some.     *)
(* Services of serverless runtimes do not come here.                       *)
(***************************************************************************)
EXTENDS Naturals

CONSTANTS
  Agent,      \* agents
  Service,    \* instances of TaskService; a restarted agent gets a new one
  AgentOf,    \* the agent of each service
  Task,       \* tasks tagged "queue" that may come to be stored
  Owner,      \* the agent of each task
  Tick,       \* ticks that may overlap
  None,       \* no service
  MaxStarts,  \* bound on calls of startTaskScheduler
  MaxFaults   \* bound on failing fetches

ASSUME DaemonConstants ==
  /\ AgentOf \in [Service -> Agent] /\ Owner \in [Task -> Agent]
  /\ None \notin Service
  /\ MaxStarts \in Nat /\ MaxFaults \in Nat

VARIABLES
  starts,    \* calls of startTaskScheduler so far
  on,        \* whether there is an adapter, and its timer
  registry,  \* registry
  dirty,     \* dirtyAgents
  life,      \* each service: not yet started, started, or stopped
  stored,    \* the stored tasks
  born,      \* tasks that were ever stored
  ticks,     \* the ticks under way
  owed,      \* history: tasks marked since they were last handed out
  faults     \* failing fetches so far

hostVars == <<starts, on>>
daemonVars == <<hostVars, registry, dirty, life, stored, born, ticks, owed,
                faults>>

TasksOf(agents) == {t \in Task : Owner[t] \in agents}

-----------------------------------------------------------------------------
(* The host, and the services.  A definition named ...Bug is the one below *)
(* it with a plausible mistake in it; only mutants use it.                 *)

\* With a timer running, a new adapter takes the place of the old one.
StartTaskScheduler ==
  /\ ~on /\ starts < MaxStarts
  /\ on' = TRUE /\ starts' = starts + 1
  /\ UNCHANGED <<registry, dirty, life, stored, born, ticks, owed, faults>>

\* Ticks under way are not stopped.
StopTaskScheduler ==
  /\ on
  /\ on' = FALSE
  /\ registry' = [a \in Agent |-> None]
  /\ dirty' = {}
  /\ UNCHANGED <<starts, life, stored, born, ticks, owed, faults>>

\* Marks an agent, which promises its stored tasks the next tick.
Marks(a) ==
  /\ dirty' = dirty \cup {a}
  /\ owed' = owed \cup (stored \cap TasksOf({a}))

\* startTimer: without an adapter the service gets a timer of its own.  It may
\* be called again, and then registers a service that had started without the
\* scheduler, but not for a service that was stopped, which would register it.
StartTimer(s) ==
  /\ life[s] # "stopped"
  /\ life' = [life EXCEPT ![s] = "started"]
  /\ IF on THEN registry' = [registry EXCEPT ![AgentOf[s]] = s] /\ Marks(AgentOf[s])
           ELSE UNCHANGED <<registry, dirty, owed>>
  /\ UNCHANGED <<hostVars, stored, born, ticks, faults>>

StopServiceBug(s) ==
  /\ life' = [life EXCEPT ![s] = "stopped"]
  /\ UNCHANGED <<hostVars, registry, dirty, stored, born, ticks, owed, faults>>

\* The entry of its agent is deleted, whichever service it names by now; a
\* service that never started, or is stopped again, does the same.
StopService(s) ==
  /\ life' = [life EXCEPT ![s] = "stopped"]
  /\ registry' = [registry EXCEPT ![AgentOf[s]] = None]
  /\ UNCHANGED <<hostVars, dirty, stored, born, ticks, owed, faults>>

MarkDirty(s) ==
  /\ life[s] # "new" /\ on
  /\ Marks(AgentOf[s])
  /\ UNCHANGED <<hostVars, registry, life, stored, born, ticks, faults>>

\* createTask does not mark its agent.
CreateTask(t) ==
  /\ t \notin born
  /\ stored' = stored \cup {t} /\ born' = born \cup {t}
  /\ UNCHANGED <<hostVars, registry, dirty, life, ticks, owed, faults>>

-----------------------------------------------------------------------------
(* tick *)

Idle == [pc |-> "idle", agents |-> {}, tasks |-> {}, at |-> None]

\* The interval fires; with no agent marked there is nothing to do.
Begin(k) ==
  /\ on /\ ticks[k] = Idle /\ dirty # {}
  /\ ticks' = [ticks EXCEPT ![k] = [Idle EXCEPT !.pc = "fetch", !.agents = dirty]]
  /\ dirty' = {}
  /\ UNCHANGED <<hostVars, registry, life, stored, born, owed, faults>>

\* The tick goes on with the tasks of agents not served yet, or is over.
Continue(k, tasks) ==
  ticks' = [ticks EXCEPT ![k] =
              IF tasks = {} THEN Idle
              ELSE [pc |-> "loop", agents |-> {Owner[t] : t \in tasks},
                    tasks |-> tasks, at |-> None]]

FetchBug(k) ==
  /\ ticks[k].pc = "fetch"
  /\ Continue(k, stored \cap TasksOf(ticks[k].agents))
  /\ dirty' = {}
  /\ UNCHANGED <<hostVars, registry, life, stored, born, owed, faults>>

\* getTasks answers for all of them.
Fetch(k) ==
  /\ ticks[k].pc = "fetch"
  /\ Continue(k, stored \cap TasksOf(ticks[k].agents))
  /\ UNCHANGED <<hostVars, registry, dirty, life, stored, born, owed, faults>>

\* getTasks rejects: the tick ends, and the marks it took with it.
FetchFails(k) ==
  /\ ticks[k].pc = "fetch" /\ faults < MaxFaults
  /\ faults' = faults + 1
  /\ ticks' = [ticks EXCEPT ![k] = Idle]
  /\ UNCHANGED <<hostVars, registry, dirty, life, stored, born, owed>>

\* An agent without an entry by now is passed over.
Skip(k, a) ==
  /\ ticks[k].pc = "loop" /\ a \in ticks[k].agents /\ registry[a] = None
  /\ Continue(k, ticks[k].tasks \ TasksOf({a}))
  /\ UNCHANGED <<hostVars, registry, dirty, life, stored, born, owed, faults>>

\* runTick is called with what was fetched; a stopped service ignores it.
RunTick(k, a) ==
  /\ ticks[k].pc = "loop" /\ a \in ticks[k].agents /\ registry[a] # None
  /\ ticks' = [ticks EXCEPT ![k].pc = "run", ![k].at = registry[a]]
  /\ owed' = IF life[registry[a]] = "stopped" THEN owed
             ELSE owed \ (ticks[k].tasks \cap TasksOf({a}))
  /\ UNCHANGED <<hostVars, registry, dirty, life, stored, born, faults>>

\* runTick has ended, some of its tasks having run and been deleted, or has
\* thrown, which the loop swallows.
RunEnds(k) ==
  /\ ticks[k].pc = "run"
  /\ LET mine == ticks[k].tasks \cap TasksOf({AgentOf[ticks[k].at]})
     IN  /\ \E done \in SUBSET mine :
              stored' = stored \ done /\ owed' = owed \ done
         /\ Continue(k, ticks[k].tasks \ mine)
  /\ UNCHANGED <<hostVars, registry, dirty, life, born, faults>>

-----------------------------------------------------------------------------
(* Specification *)

DaemonInit ==
  /\ starts = 0 /\ on = FALSE
  /\ registry = [a \in Agent |-> None]
  /\ dirty = {}
  /\ life = [s \in Service |-> "new"]
  /\ stored = {} /\ born = {}
  /\ ticks = [k \in Tick |-> Idle]
  /\ owed = {}
  /\ faults = 0

TickStep(k) ==
  \/ Fetch(k) \/ RunEnds(k)
  \/ \E a \in Agent : Skip(k, a) \/ RunTick(k, a)

DaemonNext ==
  \/ StartTaskScheduler \/ StopTaskScheduler
  \/ \E s \in Service : StartTimer(s) \/ StopService(s) \/ MarkDirty(s)
  \/ \E t \in Task : CreateTask(t)
  \/ \E k \in Tick : Begin(k) \/ TickStep(k) \/ FetchFails(k)

DaemonSpec == DaemonInit /\ [][DaemonNext]_daemonVars

\* The interval fires, and ticks go on, which includes that runTick ends.
FairDaemonSpec ==
  /\ DaemonSpec
  /\ WF_daemonVars(\E k \in Tick : Begin(k))
  /\ \A k \in Tick : WF_daemonVars(TickStep(k))

-----------------------------------------------------------------------------
(* Properties *)

\* task-scheduler.ts: "daemon must not call runTick after runtime has
\* stopped".  A tick that has fetched the tasks of several agents, and waits
\* for the first, finds no service that was stopped meanwhile.
StoppedIsLeftAlone ==
  [][\A k \in Tick :
       ticks'[k].pc = "run" /\ ticks[k].pc # "run" =>
         life[ticks'[k].at] = "started"]_daemonVars

\* "the next tick will re-query": a task stored before its agent was marked is
\* handed to the agent's service, whatever ticks were under way at the time
\* and whichever agents' runs threw, unless the agent is not registered or the
\* database fails.
EveryMarkIsServed ==
  \A t \in Task :
    t \in owed ~> t \notin owed \/ registry[Owner[t]] = None \/ faults > 0
=============================================================================
