------------------------------ MODULE Approvals ------------------------------
(***************************************************************************)
(* The approval service of the agent runtime                               *)
(* (packages/typescript/src/services/approval.ts) and the action           *)
(* CHOOSE_OPTION that answers its requests: a request is a stored row that *)
(* people choose an option for, an entry in memory that holds the promise  *)
(* of whoever waits, and perhaps a timer.  Choices, time-outs,             *)
(* cancellations and stop run beside each other, and yield at every await. *)
(*                                                                         *)
(* Abstractions.  Requests have names, and so workers, of their own.  The  *)
(* list, the model call and the parse of a choice are one step.  A role is *)
(* allowed or not at random.  Every request has its callbacks, which end;  *)
(* what they throw is swallowed.                                           *)
(***************************************************************************)
EXTENDS Naturals, FiniteSets

CONSTANTS
  Approval,  \* requests
  Tracked,   \* those of requestApproval, or of ...Async with a callback
  Timed,     \* those with a timeoutMs
  Option,    \* options of a request
  Chooser,   \* runs of CHOOSE_OPTION
  Abort,     \* the option ABORT, which every list ends with
  Fault,     \* kinds of fault that may happen
  MaxFaults  \* bound on their number

ASSUME ApprovalConstants ==
  /\ Timed \subseteq Tracked /\ Tracked \subseteq Approval
  /\ Abort \notin Option
  /\ Option \cap {"none", "timeout", "cancel", "stop", "lost"} = {}
  /\ MaxFaults \in Nat

VARIABLES
  phase,       \* how far the call that makes each request is
  rows,        \* requests with a stored task
  registered,  \* requests with a task worker
  pending,     \* pendingApprovals
  armed,       \* requests with a timer
  answer,      \* what the promise of each request resolved with
  timeout,     \* the call of handleTimeout for each request
  cancel,      \* the call of cancelApproval for each request
  choice,      \* the runs of CHOOSE_OPTION
  dropped,     \* requests whose row was deleted by a call without their entry
  stopped,     \* whether stop was called
  faults       \* faults so far

memoryVars == <<registered, pending, armed>>
callVars == <<timeout, cancel, choice>>
approvalVars == <<phase, rows, memoryVars, answer, callVars, dropped, stopped,
                  faults>>

NoChoice == [pc |-> "idle"]
Over == [pc |-> "done"]

Run == [pc : {"chosen", "allowed", "reading", "selecting", "deleting"},
        of : Approval, option : Option \cup {Abort}, held : BOOLEAN]

Goto(c, pc) == choice' = [choice EXCEPT ![c].pc = pc]
EndsChoice(c) == choice' = [choice EXCEPT ![c] = Over]

-----------------------------------------------------------------------------
(* Requests.  A definition named ...Bug is the one below it with a         *)
(* plausible mistake in it; only mutants use it.                           *)

\* The row is there before the answer of the database is.
Create(a) ==
  /\ phase[a] = "new" /\ ~stopped
  /\ phase' = [phase EXCEPT ![a] = "created"]
  /\ registered' = registered \cup {a}
  /\ rows' = rows \cup {a}
  /\ UNCHANGED <<pending, armed, answer, callVars, dropped, stopped, faults>>

Track(a) ==
  /\ phase[a] = "created"
  /\ phase' = [phase EXCEPT ![a] = "made"]
  /\ pending' = pending \cup ({a} \cap Tracked)
  /\ armed' = armed \cup ({a} \cap Timed)
  /\ UNCHANGED <<rows, registered, answer, callVars, dropped, stopped, faults>>

SettlesBug(a, result) ==
  /\ answer' = [answer EXCEPT ![a] = result]
  /\ UNCHANGED pending

\* A promise keeps its first result.
Settles(a, result) ==
  /\ answer' = [answer EXCEPT ![a] = IF @ = "none" THEN result ELSE @]
  /\ pending' = pending \ {a}

-----------------------------------------------------------------------------
(* CHOOSE_OPTION *)

Choose(c) ==
  /\ choice[c] = NoChoice
  /\ \E a \in rows, o \in Option \cup {Abort} :
       choice' = [choice EXCEPT ![c] = [pc |-> "chosen", of |-> a,
                                        option |-> o, held |-> FALSE]]
  /\ UNCHANGED <<phase, rows, memoryVars, answer, timeout, cancel, dropped,
                 stopped, faults>>

\* ABORT deletes the task, and tells the service nothing.
Aborts(c) ==
  /\ choice[c].pc = "chosen" /\ choice[c].option = Abort
  /\ rows' = rows \ {choice[c].of}
  /\ dropped' = dropped \cup {choice[c].of}
  /\ EndsChoice(c)
  /\ UNCHANGED <<phase, memoryVars, answer, timeout, cancel, stopped, faults>>

\* Without a worker the choice is over; canExecute looks for the row again.
Check(c) ==
  /\ choice[c].pc = "chosen" /\ choice[c].option # Abort
  /\ \/ choice[c].of \in registered \cap rows /\ Goto(c, "allowed")
     \/ EndsChoice(c)
  /\ UNCHANGED <<phase, rows, memoryVars, answer, timeout, cancel, dropped,
                 stopped, faults>>

\* handleSelection takes the entry, and its timer, before the first await.
Select(c) ==
  /\ choice[c].pc = "allowed"
  /\ choice' = [choice EXCEPT ![c] = [pc |-> "reading", of |-> @.of,
                                      option |-> @.option,
                                      held |-> @.of \in pending]]
  /\ armed' = armed \ ({choice[c].of} \cap pending)
  /\ UNCHANGED <<phase, rows, registered, pending, answer, timeout, cancel,
                 dropped, stopped, faults>>

ReadTask(c) ==
  /\ choice[c].pc = "reading"
  /\ Goto(c, IF choice[c].of \in rows /\ choice[c].held THEN "selecting"
                                                        ELSE "deleting")
  /\ UNCHANGED <<phase, rows, memoryVars, answer, timeout, cancel, dropped,
                 stopped, faults>>

SelectedBug(c) ==
  /\ choice[c].pc = "selecting"
  /\ \/ Settles(choice[c].of, choice[c].option)
     \/ UNCHANGED answer /\ pending' = pending \ {choice[c].of}
  /\ Goto(c, "deleting")
  /\ UNCHANGED <<phase, rows, registered, armed, timeout, cancel, dropped,
                 stopped, faults>>

\* onSelect has ended.
Selected(c) ==
  /\ choice[c].pc = "selecting"
  /\ Settles(choice[c].of, choice[c].option)
  /\ Goto(c, "deleting")
  /\ UNCHANGED <<phase, rows, registered, armed, timeout, cancel, dropped,
                 stopped, faults>>

\* The worker deletes the task whatever handleSelection did.
ChoiceEnds(c) ==
  /\ choice[c].pc = "deleting"
  /\ rows' = rows \ {choice[c].of}
  /\ dropped' = IF choice[c].held THEN dropped ELSE dropped \cup {choice[c].of}
  /\ EndsChoice(c)
  /\ UNCHANGED <<phase, memoryVars, answer, timeout, cancel, stopped, faults>>

ChoiceStep(c) ==
  \/ Aborts(c) \/ Check(c) \/ Select(c) \/ ReadTask(c) \/ Selected(c)
  \/ ChoiceEnds(c)

-----------------------------------------------------------------------------
(* handleTimeout *)

TimerFiresBug(a) ==
  /\ a \in armed
  /\ timeout' = [timeout EXCEPT ![a] = IF a \in pending THEN "reading" ELSE @]
  /\ UNCHANGED <<phase, rows, memoryVars, answer, cancel, choice, dropped,
                 stopped, faults>>

TimerFires(a) ==
  /\ a \in armed
  /\ armed' = armed \ {a}
  /\ timeout' = [timeout EXCEPT ![a] = IF a \in pending THEN "reading" ELSE @]
  /\ UNCHANGED <<phase, rows, registered, pending, answer, cancel, choice,
                 dropped, stopped, faults>>

\* onTimeout is called only if the row is still there.
TimeoutReads(a) ==
  /\ timeout[a] = "reading" /\ a \in rows
  /\ timeout' = [timeout EXCEPT ![a] = "calling"]
  /\ UNCHANGED <<phase, rows, memoryVars, answer, cancel, choice, dropped,
                 stopped, faults>>

TimesOut(a) ==
  /\ timeout[a] = "calling" \/ (timeout[a] = "reading" /\ a \notin rows)
  /\ Settles(a, "timeout")
  /\ timeout' = [timeout EXCEPT ![a] = "deleting"]
  /\ UNCHANGED <<phase, rows, registered, armed, cancel, choice, dropped,
                 stopped, faults>>

TimeoutEndsBug(a) ==
  /\ timeout[a] = "deleting"
  /\ timeout' = [timeout EXCEPT ![a] = "done"]
  /\ UNCHANGED <<phase, rows, memoryVars, answer, cancel, choice, dropped,
                 stopped, faults>>

TimeoutEnds(a) ==
  /\ timeout[a] = "deleting"
  /\ rows' = rows \ {a}
  /\ timeout' = [timeout EXCEPT ![a] = "done"]
  /\ UNCHANGED <<phase, memoryVars, answer, cancel, choice, dropped, stopped,
                 faults>>

TimeoutStep(a) ==
  TimerFires(a) \/ TimeoutReads(a) \/ TimesOut(a) \/ TimeoutEnds(a)

-----------------------------------------------------------------------------
(* cancelApproval and stop *)

Cancel(a) ==
  /\ phase[a] # "new" /\ cancel[a] = "idle"
  /\ cancel' = [cancel EXCEPT ![a] = "deleting"]
  /\ IF a \in pending
     THEN Settles(a, "cancel") /\ armed' = armed \ {a} /\ UNCHANGED dropped
     ELSE dropped' = dropped \cup {a} /\ UNCHANGED <<answer, pending, armed>>
  /\ UNCHANGED <<phase, rows, registered, timeout, choice, stopped, faults>>

CancelEnds(a) ==
  /\ cancel[a] = "deleting"
  /\ rows' = rows \ {a}
  /\ cancel' = [cancel EXCEPT ![a] = "done"]
  /\ UNCHANGED <<phase, memoryVars, answer, timeout, choice, dropped, stopped,
                 faults>>

Stop ==
  /\ ~stopped
  /\ stopped' = TRUE
  /\ answer' = [a \in Approval |->
                  IF a \in pending /\ answer[a] = "none" THEN "stop"
                                                         ELSE answer[a]]
  /\ pending' = {} /\ armed' = armed \ pending
  /\ UNCHANGED <<phase, rows, registered, callVars, dropped, faults>>

-----------------------------------------------------------------------------
(* Faults *)

Faulty(kind) == kind \in Fault /\ faults < MaxFaults /\ faults' = faults + 1

\* getTask or deleteTask rejects, which ends the call it is awaited in.
ChoiceFails(c) ==
  /\ Faulty("db_error")
  /\ choice[c].pc \in {"reading", "deleting"}
  /\ EndsChoice(c)
  /\ UNCHANGED <<phase, rows, memoryVars, answer, timeout, cancel, dropped,
                 stopped>>

TimeoutFails(a) ==
  /\ Faulty("db_error")
  /\ timeout[a] \in {"reading", "deleting"}
  /\ timeout' = [timeout EXCEPT ![a] = "done"]
  /\ UNCHANGED <<phase, rows, memoryVars, answer, cancel, choice, dropped,
                 stopped>>

CancelFails(a) ==
  /\ Faulty("db_error") /\ cancel[a] = "deleting"
  /\ cancel' = [cancel EXCEPT ![a] = "done"]
  /\ UNCHANGED <<phase, rows, memoryVars, answer, timeout, choice, dropped,
                 stopped>>

\* The process dies: whoever waited is gone, and so are entries, timers and
\* workers; the rows stay.
Crash ==
  /\ Faulty("crash")
  /\ answer' = [a \in Approval |->
                  IF phase[a] # "new" /\ answer[a] = "none" THEN "lost"
                                                            ELSE answer[a]]
  /\ phase' = [a \in Approval |-> IF phase[a] = "new" THEN "new" ELSE "made"]
  /\ registered' = {} /\ pending' = {} /\ armed' = {}
  /\ timeout' = [a \in Approval |-> IF timeout[a] = "idle" THEN "idle" ELSE "done"]
  /\ cancel' = [a \in Approval |-> IF cancel[a] = "idle" THEN "idle" ELSE "done"]
  /\ choice' = [c \in Chooser |-> NoChoice]
  /\ stopped' = FALSE
  /\ UNCHANGED <<rows, dropped>>
-----------------------------------------------------------------------------
(* Specification *)

ApprovalInit ==
  /\ phase = [a \in Approval |-> "new"]
  /\ rows = {} /\ registered = {} /\ pending = {} /\ armed = {}
  /\ answer = [a \in Approval |-> "none"]
  /\ timeout = [a \in Approval |-> "idle"]
  /\ cancel = [a \in Approval |-> "idle"]
  /\ choice = [c \in Chooser |-> NoChoice]
  /\ dropped = {} /\ stopped = FALSE /\ faults = 0

ApprovalNext ==
  \/ \E a \in Approval :
       \/ Create(a) \/ Track(a) \/ TimeoutStep(a) \/ TimeoutFails(a)
       \/ Cancel(a) \/ CancelEnds(a) \/ CancelFails(a)
  \/ \E c \in Chooser : Choose(c) \/ ChoiceStep(c) \/ ChoiceFails(c)
  \/ Stop \/ Crash

ApprovalSpec == ApprovalInit /\ [][ApprovalNext]_approvalVars

\* Timers fire, and calls that have started go on; nobody has to ask, choose,
\* cancel or stop.
FairApprovalSpec ==
  /\ ApprovalSpec
  /\ \A a \in Approval : /\ WF_approvalVars(Track(a))
                         /\ WF_approvalVars(TimeoutStep(a))
                         /\ WF_approvalVars(CancelEnds(a))
  /\ \A c \in Chooser : WF_approvalVars(ChoiceStep(c))

-----------------------------------------------------------------------------
(* Properties *)

\* Entries, timers, rows and calls stay within their types; only a request that
\* was made has them, and a timer, which fires once, only one with an entry.
ApprovalTypeOK ==
  /\ phase \in [Approval -> {"new", "created", "made"}]
  /\ answer \in [Approval -> Option \cup {"none", "timeout", "cancel", "stop",
                                          "lost"}]
  /\ timeout \in [Approval -> {"idle", "reading", "calling", "deleting", "done"}]
  /\ cancel \in [Approval -> {"idle", "deleting", "done"}]
  /\ choice \in [Chooser -> {NoChoice, Over} \cup Run]
  /\ pending \subseteq Tracked /\ armed \subseteq Timed \cap pending
  /\ \A a \in armed : timeout[a] = "idle"
  /\ \A S \in {rows, registered, pending, armed, dropped} :
       S \subseteq {a \in Approval : phase[a] # "new"}
  /\ stopped \in BOOLEAN /\ faults \in 0 .. MaxFaults

\* "Clear timeout", "Resolve the pending promise": whoever answers a request,
\* choice, timer, owner or stop, leaves neither an entry nor a timer of it, so
\* that nobody who comes later can act on it again.
AnsweredIsSettled ==
  \A a \in Approval : answer[a] # "none" => a \notin pending \cup armed

\* Some call still has the row of a to delete.
Deleting(a) ==
  \/ timeout[a] = "deleting" \/ cancel[a] = "deleting"
  \/ \E c \in Chooser : choice[c].pc = "deleting" /\ choice[c].of = a

\* "Delete the task after handling": an answered request is not offered again.
\* Short of faults its row is gone, or about to be; stop alone leaves rows.
AnsweredIsWithdrawn ==
  \A a \in Approval :
    /\ answer[a] \notin {"none", "stop"} /\ faults = 0
    /\ a \in rows
    => Deleting(a)

\* A request with a timer is answered in the end, whoever chooses, cancels or
\* stops meanwhile, unless its row is deleted under it, by ABORT or by a choice
\* or a cancellation that came before its entry, or there is a fault.
TimedIsAnswered ==
  \A a \in Timed :
    phase[a] = "made" ~> answer[a] # "none" \/ a \in dropped \/ faults > 0
=============================================================================
