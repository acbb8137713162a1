-------------------------- MODULE TaskDaemonProofs --------------------------
(***************************************************************************)
(* Proofs about TaskDaemon, for any agents, services, tasks and ticks.     *)
(***************************************************************************)
EXTENDS TaskDaemon, TLAPS

\* The registry names, for each agent, a service of its own that was started
\* and not stopped, if any: stop deletes the entry of its agent in the same step.
RegistryOK ==
  /\ life \in [Service -> {"new", "started", "stopped"}]
  /\ registry \in [Agent -> Service \cup {None}]
  /\ \A a \in Agent : registry[a] # None =>
       life[registry[a]] = "started" /\ AgentOf[registry[a]] = a

LEMMA RegistryInit == DaemonInit => RegistryOK
BY DaemonConstants DEF DaemonInit, RegistryOK

LEMMA RegistryStep ==
  RegistryOK /\ [DaemonNext]_daemonVars => RegistryOK'
<1> SUFFICES ASSUME RegistryOK, [DaemonNext]_daemonVars PROVE RegistryOK'
  OBVIOUS
<1> USE DEF RegistryOK
<1>1. CASE StopTaskScheduler
  BY <1>1 DEF StopTaskScheduler
<1>2. ASSUME NEW s \in Service, StartTimer(s)
      PROVE  RegistryOK'
  <2>1. AgentOf[s] \in Agent
    BY DaemonConstants
  <2>2. life'[s] = "started" /\ \A r \in Service : r # s => life'[r] = life[r]
    BY <1>2 DEF StartTimer
  <2>3. CASE registry' = registry
    BY <1>2, <2>2, <2>3 DEF StartTimer
  <2>4. CASE registry' = [registry EXCEPT ![AgentOf[s]] = s]
    BY <1>2, <2>1, <2>2, <2>4 DEF StartTimer
  <2>5. QED
    BY <1>2, <2>3, <2>4 DEF StartTimer
<1>3. ASSUME NEW s \in Service, StopService(s)
      PROVE  RegistryOK'
  <2>1. AgentOf[s] \in Agent
    BY DaemonConstants
  <2>2. \A r \in Service : r # s => life'[r] = life[r]
    BY <1>3 DEF StopService
  <2>3. \A a \in Agent : a # AgentOf[s] => registry[a] # s /\ registry'[a] = registry[a]
    BY <1>3, DaemonConstants DEF StopService
  <2>4. QED
    BY <1>3, <2>1, <2>2, <2>3 DEF StopService
<1>4. CASE UNCHANGED <<registry, life>>
  BY <1>4
<1>5. QED
  BY <1>1, <1>2, <1>3, <1>4 DEF DaemonNext, TickStep, daemonVars,
     StartTaskScheduler, MarkDirty, CreateTask, Begin, Fetch, RunEnds, Skip,
     RunTick, FetchFails

-----------------------------------------------------------------------------
(* Ticks *)

TickRow == [pc : {"idle", "fetch", "loop", "run"}, agents : SUBSET Agent,
            tasks : SUBSET Task, at : Service \cup {None}]

TicksOK ==
  /\ ticks \in [Tick -> TickRow]
  /\ dirty \subseteq Agent /\ stored \subseteq Task

\* A tick that goes on does not run anything yet.
LEMMA ContinueOK ==
  ASSUME TicksOK, NEW k \in Tick, NEW tasks \in SUBSET Task, Continue(k, tasks)
  PROVE  /\ ticks' \in [Tick -> TickRow]
         /\ ticks'[k].pc # "run"
         /\ \A l \in Tick : l # k => ticks'[l] = ticks[l]
<1>1. {Owner[t] : t \in tasks} \subseteq Agent
  BY DaemonConstants
<1>2. Idle \in TickRow
  BY DEF Idle, TickRow
<1>3. [pc |-> "loop", agents |-> {Owner[t] : t \in tasks},
       tasks |-> tasks, at |-> None] \in TickRow
  BY <1>1 DEF TickRow
<1>4. QED
  BY <1>2, <1>3 DEF Continue, TicksOK, Idle

\* Ticks keep their types, and only RunTick calls a service: the one that is
\* registered when it does.
LEMMA TicksStep ==
  ASSUME TicksOK, RegistryOK, [DaemonNext]_daemonVars
  PROVE  /\ TicksOK'
         /\ \A k \in Tick : ticks'[k].pc = "run" /\ ticks[k].pc # "run" =>
              life[ticks'[k].at] = "started"
<1> DEFINE Calls == \A k \in Tick : ticks'[k].pc = "run" /\ ticks[k].pc # "run" =>
                      life[ticks'[k].at] = "started"
<1>1. CASE UNCHANGED ticks /\ dirty' \subseteq Agent /\ stored' \subseteq Task
  BY <1>1 DEF TicksOK
<1>2. CASE UNCHANGED <<ticks, dirty, stored>>
  BY <1>2 DEF TicksOK
<1>3. ASSUME NEW s \in Service, StartTimer(s) \/ MarkDirty(s)
      PROVE  TicksOK' /\ Calls
  <2>1. AgentOf[s] \in Agent
    BY DaemonConstants
  <2>2. dirty' \subseteq Agent
    BY <1>3, <2>1 DEF StartTimer, MarkDirty, Marks, TicksOK
  <2>3. QED
    BY <1>1, <1>3, <2>2 DEF StartTimer, MarkDirty, TicksOK
<1>4. CASE StopTaskScheduler \/ \E t \in Task : CreateTask(t)
  BY <1>1, <1>4 DEF StopTaskScheduler, CreateTask, TicksOK
<1>5. ASSUME NEW k \in Tick, Begin(k)
      PROVE  TicksOK' /\ Calls
  <2>1. [Idle EXCEPT !.pc = "fetch", !.agents = dirty] \in TickRow
    BY DEF Idle, TickRow, TicksOK
  <2>2. QED
    BY <1>5, <2>1 DEF Begin, Idle, TicksOK
<1>6. ASSUME NEW k \in Tick, FetchFails(k)
      PROVE  TicksOK' /\ Calls
  <2>1. Idle \in TickRow
    BY DEF Idle, TickRow
  <2>2. QED
    BY <1>6, <2>1 DEF FetchFails, Idle, TicksOK
<1>7. ASSUME NEW k \in Tick, Fetch(k)
      PROVE  TicksOK' /\ Calls
  <2>1. stored \cap TasksOf(ticks[k].agents) \in SUBSET Task
    BY DEF TasksOf
  <2>2. QED
    BY <1>7, <2>1, ContinueOK DEF Fetch, TicksOK
<1>8. ASSUME NEW k \in Tick, NEW a \in Agent, Skip(k, a)
      PROVE  TicksOK' /\ Calls
  <2>1. ticks[k].tasks \ TasksOf({a}) \in SUBSET Task
    BY DEF TicksOK, TickRow
  <2>2. QED
    BY <1>8, <2>1, ContinueOK DEF Skip, TicksOK
<1>9. ASSUME NEW k \in Tick, NEW a \in Agent, RunTick(k, a)
      PROVE  TicksOK' /\ Calls
  <2>1. registry[a] \in Service /\ life[registry[a]] = "started"
    BY <1>9 DEF RunTick, RegistryOK
  <2>2. [ticks[k] EXCEPT !.pc = "run", !.at = registry[a]] \in TickRow
    BY <2>1 DEF TicksOK, TickRow
  <2>3. /\ ticks' \in [Tick -> TickRow]
        /\ ticks'[k].at = registry[a]
        /\ \A l \in Tick : l # k => ticks'[l] = ticks[l]
    BY <1>9, <2>2 DEF RunTick, TicksOK, TickRow
  <2>4. QED
    BY <1>9, <2>1, <2>3 DEF RunTick, TicksOK
<1>10. ASSUME NEW k \in Tick, RunEnds(k)
       PROVE  TicksOK' /\ Calls
  <2> DEFINE mine == ticks[k].tasks \cap TasksOf({AgentOf[ticks[k].at]})
  <2>1. ticks[k].tasks \ mine \in SUBSET Task
    BY DEF TicksOK, TickRow
  <2>2. Continue(k, ticks[k].tasks \ mine) /\ stored' \subseteq stored
    BY <1>10 DEF RunEnds
  <2> HIDE DEF mine
  <2>3. QED
    BY <1>10, <2>1, <2>2, ContinueOK DEF RunEnds, TicksOK
<1>11. QED
  BY <1>2, <1>3, <1>4, <1>5, <1>6, <1>7, <1>8, <1>9, <1>10
  DEF DaemonNext, TickStep, daemonVars, StartTaskScheduler, StopService

-----------------------------------------------------------------------------
(* No mark is lost: the safety half of EveryMarkIsServed *)

\* The tick has still to hand the task to the service of its agent.
OnItsWay(t, k) ==
  \/ ticks[k].pc = "fetch" /\ Owner[t] \in ticks[k].agents
  \/ ticks[k].pc = "loop" /\ t \in ticks[k].tasks
  \/ /\ ticks[k].pc = "run" /\ t \in ticks[k].tasks
     /\ Owner[t] # AgentOf[ticks[k].at]

Kept(t) == Owner[t] \in dirty \/ \E k \in Tick : OnItsWay(t, k)

\* A task that a mark promised to an agent with a service is not forgotten:
\* the timer runs, and the mark is still there or a tick has taken it and has
\* still to serve the task, until a fetch fails.
MarkIsKept ==
  \A t \in owed : registry[Owner[t]] # None /\ faults = 0 => on /\ Kept(t)

MarkInv ==
  /\ faults \in Nat /\ owed \subseteq stored
  /\ \A a \in Agent : registry[a] # None => on
  /\ MarkIsKept

\* A step that takes nothing from the marks and the ticks keeps every promise.
LEMMA StillKept ==
  ASSUME NEW t, Kept(t), dirty \subseteq dirty', UNCHANGED ticks
  PROVE  Kept(t)'
BY DEF Kept, OnItsWay

\* A tick that changes alone: the others keep what they have.
LEMMA OthersKeep ==
  ASSUME NEW t, NEW k \in Tick, Kept(t), dirty' = dirty,
         \A l \in Tick : l # k => ticks'[l] = ticks[l],
         OnItsWay(t, k) => OnItsWay(t, k)'
  PROVE  Kept(t)'
<1>1. \A l \in Tick : OnItsWay(t, l) => OnItsWay(t, l)'
  <2>1. \A l \in Tick : l # k /\ OnItsWay(t, l) => OnItsWay(t, l)'
    BY DEF OnItsWay
  <2>2. QED
    BY <2>1
<1>2. QED
  BY <1>1 DEF Kept

\* The tick goes on with the tasks that are left.
LEMMA ContinueKeeps ==
  ASSUME TicksOK, NEW k \in Tick, NEW tasks, Continue(k, tasks), NEW t \in tasks
  PROVE  OnItsWay(t, k)'
<1>1. ticks'[k].pc = "loop" /\ ticks'[k].tasks = tasks
  BY DEF Continue, TicksOK
<1>2. QED
  BY <1>1 DEF OnItsWay

LEMMA MarkStep ==
  RegistryOK /\ TicksOK /\ MarkInv /\ [DaemonNext]_daemonVars => MarkInv'
<1> SUFFICES ASSUME RegistryOK, TicksOK, MarkInv, [DaemonNext]_daemonVars
             PROVE  MarkInv'
  OBVIOUS
<1>0. /\ faults \in Nat /\ owed \subseteq stored /\ stored \subseteq Task
      /\ registry \in [Agent -> Service \cup {None}]
      /\ \A t \in Task : Owner[t] \in Agent
      /\ \A s \in Service : AgentOf[s] \in Agent /\ s # None
  BY DaemonConstants DEF MarkInv, TicksOK, RegistryOK
<1>1. faults' \in Nat
  <2>1. CASE \E k \in Tick : FetchFails(k)
    BY <1>0, <2>1 DEF FetchFails
  <2>2. CASE ~ \E k \in Tick : FetchFails(k)
    <3>1. faults' = faults
      BY <2>2, Zenon DEF DaemonNext, StartTaskScheduler, StopTaskScheduler, StartTimer,
        StopService, MarkDirty, CreateTask, Begin, TickStep, Fetch, Skip, RunTick,
        RunEnds, daemonVars
    <3>2. QED
      BY <1>0, <3>1
  <2>3. QED
    BY <2>1, <2>2
<1>2. owed' \subseteq stored'
  BY <1>0 DEF DaemonNext, StartTaskScheduler, StopTaskScheduler, StartTimer,
    StopService, MarkDirty, Marks, CreateTask, Begin, TickStep, Fetch, Skip, RunTick,
    RunEnds, FetchFails, daemonVars
<1>3. ASSUME NEW a \in Agent, registry'[a] # None
      PROVE  on'
  <2>1. on => on' \/ StopTaskScheduler
    BY DEF DaemonNext, StartTaskScheduler, StartTimer, StopService, MarkDirty,
      CreateTask, Begin, TickStep, Fetch, Skip, RunTick, RunEnds, FetchFails,
      daemonVars, hostVars
  <2>2. registry'[a] = registry[a] \/ on
    BY <1>0, <1>3 DEF DaemonNext, StartTaskScheduler, StopTaskScheduler, StartTimer,
      StopService, MarkDirty, CreateTask, Begin, TickStep, Fetch, Skip, RunTick,
      RunEnds, FetchFails, daemonVars
  <2>3. ~ StopTaskScheduler
    BY <1>3 DEF StopTaskScheduler
  <2>4. QED
    BY <1>3, <2>1, <2>2, <2>3 DEF MarkInv
<1>4. ASSUME NEW t \in owed', registry'[Owner[t]] # None, faults' = 0
      PROVE  Kept(t)'
  <2>1. t \in owed /\ registry[Owner[t]] # None /\ faults = 0 => Kept(t)
    BY DEF MarkInv, MarkIsKept
  <2>2. CASE UNCHANGED <<owed, registry, faults, dirty, ticks>>
    BY <1>4, <2>1, <2>2, StillKept
  <2>3. ASSUME NEW s \in Service, StartTimer(s)
        PROVE  Kept(t)'
    <3>1. CASE on /\ Owner[t] = AgentOf[s]
      BY <2>3, <3>1 DEF StartTimer, Marks, Kept
    <3>2. CASE on /\ Owner[t] # AgentOf[s]
      <4>1. /\ t \in owed /\ registry[Owner[t]] = registry'[Owner[t]]
            /\ faults' = faults /\ ticks' = ticks /\ dirty \subseteq dirty'
        BY <1>0, <1>4, <2>3, <3>2 DEF StartTimer, Marks, TasksOf
      <4>2. QED
        BY <1>4, <2>1, <4>1, StillKept
    <3>3. CASE ~ on
      BY <2>2, <2>3, <3>3 DEF StartTimer
    <3>4. QED
      BY <3>1, <3>2, <3>3
  <2>4. ASSUME NEW s \in Service, MarkDirty(s)
        PROVE  Kept(t)'
    <3>1. CASE Owner[t] = AgentOf[s]
      BY <2>4, <3>1 DEF MarkDirty, Marks, Kept
    <3>2. CASE Owner[t] # AgentOf[s]
      <4>1. /\ t \in owed /\ registry' = registry
            /\ faults' = faults /\ ticks' = ticks /\ dirty \subseteq dirty'
        BY <1>0, <1>4, <2>4, <3>2 DEF MarkDirty, Marks, TasksOf
      <4>2. QED
        BY <1>4, <2>1, <4>1, StillKept
    <3>3. QED
      BY <3>1, <3>2
  <2>5. ASSUME NEW s \in Service, StopService(s)
        PROVE  Kept(t)'
    <3>1. Owner[t] \in Agent
      BY <1>0, <1>2, <1>4, <2>5 DEF StopService
    <3>2. registry[Owner[t]] # None
      BY <1>0, <1>4, <2>5, <3>1 DEF StopService
    <3>3. QED
      BY <1>4, <2>1, <2>5, <3>2, StillKept DEF StopService
  <2>6. CASE StopTaskScheduler
    <3>1. Owner[t] \in Agent
      BY <1>0, <1>4, <2>6 DEF StopTaskScheduler
    <3>2. QED
      BY <1>4, <2>6, <3>1 DEF StopTaskScheduler
  <2>7. ASSUME NEW k \in Tick, Begin(k)
        PROVE  Kept(t)'
    <3>1. /\ Kept(t) /\ ~ OnItsWay(t, k)
          /\ \A l \in Tick : l # k => ticks'[l] = ticks[l]
          /\ ticks'[k].pc = "fetch" /\ ticks'[k].agents = dirty
      BY <1>4, <2>1, <2>7 DEF Begin, Idle, OnItsWay, TicksOK
    <3>2. CASE Owner[t] \in dirty
      BY <3>1, <3>2 DEF Kept, OnItsWay
    <3>3. CASE Owner[t] \notin dirty
      BY <3>1, <3>3 DEF Kept, OnItsWay
    <3>4. QED
      BY <3>2, <3>3
  <2>8. ASSUME NEW k \in Tick, Fetch(k)
        PROVE  Kept(t)'
    <3> DEFINE tasks == stored \cap TasksOf(ticks[k].agents)
    <3>1. Kept(t) /\ Continue(k, tasks) /\ dirty' = dirty /\ t \in Task /\ t \in stored
      BY <1>0, <1>4, <2>1, <2>8 DEF Fetch
    <3>2. \A l \in Tick : l # k => ticks'[l] = ticks[l]
      BY <3>1, ContinueOK DEF TasksOf
    <3>3. OnItsWay(t, k) => t \in tasks
      BY <2>8, <3>1 DEF Fetch, OnItsWay, TasksOf
    <3>4. OnItsWay(t, k) => OnItsWay(t, k)'
      BY <3>1, <3>3, ContinueKeeps
    <3>5. QED
      BY <3>1, <3>2, <3>4, OthersKeep
  <2>9. ASSUME NEW k \in Tick, NEW a \in Agent, Skip(k, a)
        PROVE  Kept(t)'
    <3> DEFINE tasks == ticks[k].tasks \ TasksOf({a})
    <3>1. Kept(t) /\ Continue(k, tasks) /\ dirty' = dirty /\ Owner[t] # a
      BY <1>4, <2>1, <2>9 DEF Skip
    <3>2. tasks \in SUBSET Task
      BY DEF TicksOK, TickRow
    <3>3. \A l \in Tick : l # k => ticks'[l] = ticks[l]
      BY <3>1, <3>2, ContinueOK
    <3>4. OnItsWay(t, k) => t \in tasks
      BY <2>9, <3>1 DEF Skip, OnItsWay, TasksOf
    <3>5. OnItsWay(t, k) => OnItsWay(t, k)'
      BY <3>1, <3>4, ContinueKeeps
    <3>6. QED
      BY <3>1, <3>3, <3>5, OthersKeep
  <2>10. ASSUME NEW k \in Tick, NEW a \in Agent, RunTick(k, a)
         PROVE  Kept(t)'
    <3> DEFINE s == registry[a]
    <3>1. life[s] # "stopped" /\ AgentOf[s] = a
      BY <2>10 DEF RunTick, RegistryOK
    <3>2. /\ owed' = owed \ (ticks[k].tasks \cap TasksOf({a}))
          /\ registry' = registry /\ faults' = faults /\ dirty' = dirty
      BY <2>10, <3>1 DEF RunTick
    <3>3. Kept(t) /\ t \in Task /\ ~ (t \in ticks[k].tasks /\ Owner[t] = a)
      BY <1>0, <1>4, <2>1, <3>2 DEF TasksOf
    <3>4. /\ \A l \in Tick : l # k => ticks'[l] = ticks[l]
          /\ ticks'[k].pc = "run" /\ ticks'[k].tasks = ticks[k].tasks
          /\ ticks'[k].at = s
      BY <2>10 DEF RunTick, TicksOK, TickRow
    <3>5. OnItsWay(t, k) => t \in ticks[k].tasks
      BY <2>10 DEF RunTick, OnItsWay
    <3>6. OnItsWay(t, k) => OnItsWay(t, k)'
      BY <3>1, <3>3, <3>4, <3>5 DEF OnItsWay
    <3>7. QED
      BY <3>2, <3>3, <3>4, <3>6, OthersKeep
  <2>11. ASSUME NEW k \in Tick, RunEnds(k)
         PROVE  Kept(t)'
    <3> DEFINE mine == ticks[k].tasks \cap TasksOf({AgentOf[ticks[k].at]})
               tasks == ticks[k].tasks \ mine
    <3>1. Kept(t) /\ Continue(k, tasks) /\ dirty' = dirty
      BY <1>4, <2>1, <2>11 DEF RunEnds
    <3>2. tasks \in SUBSET Task
      BY DEF TicksOK, TickRow
    <3>3. \A l \in Tick : l # k => ticks'[l] = ticks[l]
      BY <3>1, <3>2, ContinueOK
    <3>4. OnItsWay(t, k) => t \in tasks
      BY <2>11 DEF RunEnds, OnItsWay, TasksOf
    <3>5. OnItsWay(t, k) => OnItsWay(t, k)'
      BY <3>1, <3>4, ContinueKeeps
    <3>6. QED
      BY <3>1, <3>3, <3>5, OthersKeep
  <2>12. ASSUME NEW k \in Tick, FetchFails(k)
         PROVE  Kept(t)'
    BY <1>0, <1>4, <2>12 DEF FetchFails
  <2>13. CASE StartTaskScheduler \/ (\E x \in Task : CreateTask(x)) \/ UNCHANGED daemonVars
    BY <2>2, <2>13 DEF StartTaskScheduler, CreateTask, daemonVars
  <2>14. QED
    BY <2>3, <2>4, <2>5, <2>6, <2>7, <2>8, <2>9, <2>10, <2>11, <2>12, <2>13
    DEF DaemonNext, TickStep
<1>5. MarkIsKept'
  <2>1. \A t \in owed' : Owner[t] \in Agent
    <3>1. stored' \subseteq Task
      BY TicksStep DEF TicksOK
    <3>2. QED
      BY <1>0, <1>2, <3>1
  <2>2. QED
    BY <1>3, <1>4, <2>1 DEF MarkIsKept
<1>6. QED
  BY <1>1, <1>2, <1>3, <1>5 DEF MarkInv

-----------------------------------------------------------------------------
(* Theorems *)

LEMMA DaemonInvariant == DaemonSpec => [](RegistryOK /\ TicksOK)
<1>1. DaemonInit => RegistryOK /\ TicksOK
  <2>1. DaemonInit => TicksOK
    BY DEF DaemonInit, TicksOK, Idle, TickRow
  <2>2. QED
    BY <2>1, RegistryInit
<1>2. RegistryOK /\ TicksOK /\ [DaemonNext]_daemonVars => (RegistryOK /\ TicksOK)'
  BY RegistryStep, TicksStep
<1>3. QED
  BY <1>1, <1>2, PTL DEF DaemonSpec

\* The shared scheduler calls runTick only on a service that was started and
\* not stopped, however many ticks overlap and services come and go.
THEOREM DaemonLeavesStoppedAlone == DaemonSpec => StoppedIsLeftAlone
<1>1. RegistryOK /\ TicksOK /\ [DaemonNext]_daemonVars =>
        [\A k \in Tick :
           ticks'[k].pc = "run" /\ ticks[k].pc # "run" =>
             life[ticks'[k].at] = "started"]_daemonVars
  BY TicksStep
<1>2. QED
  BY <1>1, DaemonInvariant, PTL DEF DaemonSpec, StoppedIsLeftAlone

\* "the next tick will re-query" (task-scheduler.ts): no mark is lost between
\* the clearing of dirtyAgents, the fetch and the runs of other agents, for any
\* number of overlapping ticks, starts, stops and restarts of agents.
THEOREM DaemonLosesNoMark == DaemonSpec => []MarkIsKept
<1>1. DaemonInit => MarkInv
  BY DaemonConstants DEF DaemonInit, MarkInv, MarkIsKept
<1>2. MarkInv => MarkIsKept
  BY DEF MarkInv
<1>3. QED
  BY <1>1, <1>2, MarkStep, DaemonInvariant, PTL DEF DaemonSpec
=============================================================================
