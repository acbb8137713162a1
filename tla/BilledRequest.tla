---------------------------- MODULE BilledRequest ----------------------------
(***************************************************************************)
(* The life of a billed model request: the billing gate reserves, the      *)
(* handler asks the upstream model, and commits what the answer costs or   *)
(* releases the hold (plugins/plugin-tokagent-billing/src:                 *)
(* middleware/billing-gate.ts, routes/messages-proxy-routes.ts,            *)
(* middleware/model-billing-wrapper.ts).                                   *)
(*                                                                         *)
(* Three handlers: "text" and "stream" proxy a caller's request, "wrapped" *)
(* is a useModel call of the agent itself.  Every await of a handler ends  *)
(* a step; requests interleave on the accounts they share.                 *)
(*                                                                         *)
(* Abstractions.  A request is named by the reservation it would get.      *)
(* Costs are amounts of credit without the margin; the price is read once  *)
(* per request and both the estimate and the charge use it, so it does not *)
(* appear.  A request refused before it reserves (401, 400, 503) changes   *)
(* nothing and is left out.                                                *)
(***************************************************************************)
EXTENDS CreditLedger, Functions

CONSTANTS
  Operator,        \* the account the agent's own model calls are billed to
  MarginBps,       \* effectiveMarginBps
  InitialCredits,  \* balance every account starts with
  Fault,           \* kinds of fault that may happen
  MaxFaults        \* bound on their number

ASSUME RequestConstants ==
  /\ Operator \in Account
  /\ MarginBps \in Nat /\ InitialCredits \in Nat /\ MaxFaults \in Nat

VARIABLES
  kind,      \* the handler that runs each request
  stage,     \* where it is
  upstream,  \* what the upstream did with the request
  usage,     \* what the answer costs, as far as the handler has parsed it
  faults     \* number of faults so far

handlerVars == <<kind, stage, upstream, usage>>
requestVars == <<ledgerVars, handlerVars, faults>>

Kind == {"text", "stream", "wrapped"}

\* A handler holds a reservation from "calling" to "billing" or "releasing".
Holding == {"calling", "reading", "billing", "releasing"}

\* "threw": the handler rejected.  "unpaid": the answer was given although
\* commit failed.
Finished == {"refused", "failed", "threw", "served", "unpaid", "free", "crashed"}

Stage == {"new", "unbilled"} \cup Holding \cup Finished

Goto(r, s) == stage' = [stage EXCEPT ![r] = s]

At(r, s) == stage[r] = s

Answers(r, what) == upstream' = [upstream EXCEPT ![r] = what]

Costs(r, cost) == usage' = [usage EXCEPT ![r] = cost]

\* computeCharge: the cost and the operator's margin, truncated.
WithMargin(cost) == cost + (cost * MarginBps) \div 10000

\* What an answer may cost: without a usage block, or for a model without a
\* rate, nothing.
Cost == Amount \cup {0}

-----------------------------------------------------------------------------
(* Reserving.  A definition named ...Bug is the one below it with a         *)
(* plausible mistake in it; nothing uses it but the mutants of PROJECT.json. *)

\* The chain and wallet a handler bills: the caller's, or the operator's.
Bills(k, a) == k = "wrapped" => a = Operator

\* The estimate, margin excluded, is held and the upstream is called.
Gate(r, k, a, estimate) ==
  /\ At(r, "new") /\ Bills(k, a)
  /\ Reserve(r, a, estimate)
  /\ kind' = [kind EXCEPT ![r] = k]
  /\ Goto(r, "calling")
  /\ UNCHANGED <<upstream, usage, faults>>

\* Without a hold the proxy refuses the request, and the agent's own call
\* goes on unbilled.
Ungated(r, k) ==
  /\ At(r, "new")
  /\ kind' = [kind EXCEPT ![r] = k]
  /\ Goto(r, IF k = "wrapped" THEN "unbilled" ELSE "refused")
  /\ UNCHANGED <<ledgerVars, upstream, usage>>

GateRefuses(r, k, a, estimate) ==
  /\ Bills(k, a)
  /\ estimate > credit[a].balance
  /\ Ungated(r, k)
  /\ UNCHANGED faults

Unbilled(r) ==
  /\ At(r, "unbilled")
  /\ \/ Goto(r, "free") /\ Answers(r, "ok")
     \/ Goto(r, "failed") /\ Answers(r, "lost")
  /\ UNCHANGED <<ledgerVars, kind, usage, faults>>

-----------------------------------------------------------------------------
(* The upstream's answer *)

\* The upstream is not configured, fetch throws, or the model call throws.
Unreachable(r) ==
  /\ At(r, "calling")
  /\ Answers(r, "lost")
  /\ Goto(r, "releasing")
  /\ UNCHANGED <<ledgerVars, kind, usage, faults>>

\* Headers with an error status: a stream handler releases at once, a text
\* handler reads the body first.
Rejected(r) ==
  /\ At(r, "calling") /\ kind[r] # "wrapped"
  /\ Answers(r, "rejected")
  /\ Goto(r, IF kind[r] = "stream" THEN "releasing" ELSE "reading")
  /\ UNCHANGED <<ledgerVars, kind, usage, faults>>

Accepted(r) ==
  /\ At(r, "calling") /\ kind[r] # "wrapped"
  /\ Answers(r, "ok")
  /\ Goto(r, "reading")
  /\ UNCHANGED <<ledgerVars, kind, usage, faults>>

\* The model call of the agent returns: its cost is estimated from the text.
CallReturns(r, cost) ==
  /\ At(r, "calling") /\ kind[r] = "wrapped"
  /\ Answers(r, "ok")
  /\ Costs(r, cost)
  /\ Goto(r, "billing")
  /\ UNCHANGED <<ledgerVars, kind, faults>>

Streaming(r) == At(r, "reading") /\ kind[r] = "stream"

UsageChunkBug(r, cost) ==
  /\ Streaming(r)
  /\ Costs(r, usage[r] + cost)
  /\ UNCHANGED <<ledgerVars, kind, stage, upstream, faults>>

\* An event with a usage block: the last one counts.
UsageChunk(r, cost) ==
  /\ Streaming(r)
  /\ Costs(r, cost)
  /\ UNCHANGED <<ledgerVars, kind, stage, upstream, faults>>

\* The stream ends; without a usage block its cost is 0.
StreamEnds(r) ==
  /\ Streaming(r)
  /\ Goto(r, "billing")
  /\ UNCHANGED <<ledgerVars, kind, upstream, usage, faults>>

StreamCutBug(r) ==
  /\ Streaming(r)
  /\ Answers(r, "lost")
  /\ Goto(r, "billing")
  /\ UNCHANGED <<ledgerVars, kind, usage, faults>>

\* The stream breaks off: the response is ended and nothing is charged,
\* whatever was relayed and metered before.
StreamCut(r) ==
  /\ Streaming(r)
  /\ Answers(r, "lost")
  /\ Goto(r, "releasing")
  /\ UNCHANGED <<ledgerVars, kind, usage, faults>>

\* The body of a text answer is complete: an error body is relayed without
\* a charge, any other is charged what its usage block, if any, says.
BodyRead(r, cost) ==
  /\ At(r, "reading") /\ kind[r] = "text"
  /\ IF upstream[r] = "ok"
     THEN Costs(r, cost) /\ Goto(r, "billing")
     ELSE Goto(r, "releasing") /\ UNCHANGED usage
  /\ UNCHANGED <<ledgerVars, kind, upstream, faults>>

-----------------------------------------------------------------------------
(* Settling the hold *)

BillBug(r) ==
  /\ At(r, "billing")
  /\ Commit(r, usage[r])
  /\ Goto(r, "served")
  /\ UNCHANGED <<kind, upstream, usage, faults>>

Bill(r) ==
  /\ At(r, "billing")
  /\ Commit(r, WithMargin(usage[r]))
  /\ Goto(r, "served")
  /\ UNCHANGED <<kind, upstream, usage, faults>>

GiveBackBug(r) ==
  /\ At(r, "releasing")
  /\ Goto(r, "failed")
  /\ UNCHANGED <<ledgerVars, kind, upstream, usage, faults>>

GiveBackFallsThroughBug(r) ==
  /\ At(r, "releasing")
  /\ Release(r, "released_error")
  /\ Goto(r, "billing")
  /\ UNCHANGED <<kind, upstream, usage, faults>>

GiveBack(r) ==
  /\ At(r, "releasing")
  /\ Release(r, "released_error")
  /\ Goto(r, "failed")
  /\ UNCHANGED <<kind, upstream, usage, faults>>

-----------------------------------------------------------------------------
(* Faults *)

Faulty(what) == /\ what \in Fault
                /\ faults < MaxFaults
                /\ faults' = faults + 1

\* The database fails, or serializable retries run out, in reserve, in
\* commit (swallowed) or in release (rethrown by the proxy; the agent's own
\* call rethrows the model's error).  A proxied answer may also have a usage
\* block whose entries are not numbers: the cost is then NaN, computeCharge
\* throws before the ledger is reached, and that is swallowed as well.
ReserveFails(r, k) ==
  /\ Faulty("db_error")
  /\ Ungated(r, k)

CommitFails(r) ==
  /\ \/ Faulty("db_error")
     \/ Faulty("bad_usage") /\ kind[r] # "wrapped"
  /\ At(r, "billing")
  /\ Goto(r, "unpaid")
  /\ UNCHANGED <<ledgerVars, kind, upstream, usage>>

ReleaseFails(r) ==
  /\ Faulty("db_error")
  /\ At(r, "releasing")
  /\ Goto(r, "threw")
  /\ UNCHANGED <<ledgerVars, kind, upstream, usage>>

\* The connection breaks after the headers: text() rejects, and nothing
\* catches it.
BodyLost(r) ==
  /\ Faulty("body_error")
  /\ At(r, "reading") /\ kind[r] = "text"
  /\ Answers(r, "lost")
  /\ Goto(r, "threw")
  /\ UNCHANGED <<ledgerVars, kind, usage>>

\* The process dies: every handler is gone, and nothing on start-up looks
\* for the holds they leave.
Crash ==
  /\ Faulty("crash")
  /\ stage' = [r \in Reservation |->
                 IF stage[r] \in Holding \cup {"unbilled"} THEN "crashed"
                 ELSE stage[r]]
  /\ UNCHANGED <<ledgerVars, kind, upstream, usage>>

-----------------------------------------------------------------------------
(* Specification *)

RequestInit ==
  /\ credit = [a \in Account |-> [ZeroRow EXCEPT !.balance = InitialCredits]]
  /\ reservations = [r \in {} |-> ZeroRow]
  /\ clock = 0
  /\ kind = [r \in Reservation |-> "text"]
  /\ stage = [r \in Reservation |-> "new"]
  /\ upstream = [r \in Reservation |-> "none"]
  /\ usage = [r \in Reservation |-> 0]
  /\ faults = 0

Arrive(r) ==
  \E k \in Kind, a \in Account, estimate \in Amount :
    Gate(r, k, a, estimate) \/ GateRefuses(r, k, a, estimate)

Call(r) ==
  \/ Unbilled(r) \/ Unreachable(r) \/ Rejected(r) \/ Accepted(r)
  \/ \E cost \in Cost : CallReturns(r, cost)

Finish(r) ==
  \/ StreamEnds(r) \/ StreamCut(r)
  \/ \E cost \in Cost : BodyRead(r, cost)

Meter(r) == \E cost \in Cost : UsageChunk(r, cost)

Settle(r) == Bill(r) \/ GiveBack(r)

Faults ==
  \/ \E r \in Reservation, k \in Kind : ReserveFails(r, k)
  \/ \E r \in Reservation : CommitFails(r) \/ ReleaseFails(r) \/ BodyLost(r)
  \/ Crash

RequestNext ==
  \/ \E r \in Reservation :
       Arrive(r) \/ Call(r) \/ Meter(r) \/ Finish(r) \/ Settle(r)
  \/ Faults

RequestSpec == RequestInit /\ [][RequestNext]_requestVars

\* fetch has header and body time-outs, so the upstream answers or fails and
\* an answer ends or breaks off; a handler that runs keeps running.  Nothing
\* is fair about arrivals, usage blocks and faults.
FairRequestSpec ==
  /\ RequestSpec
  /\ \A r \in Reservation : /\ WF_requestVars(Call(r))
                            /\ WF_requestVars(Finish(r))
                            /\ WF_requestVars(Settle(r))

-----------------------------------------------------------------------------
(* Properties *)

\* The handlers stay within their types, and a handler settles a hold only
\* while its reservation is open.
RequestTypeOK ==
  /\ kind \in [Reservation -> Kind]
  /\ stage \in [Reservation -> Stage]
  /\ upstream \in [Reservation -> {"none", "ok", "rejected", "lost"}]
  /\ usage \in [Reservation -> Cost]
  /\ faults \in 0 .. MaxFaults

\* Every handler that still has a hold to settle finds its reservation open
\* when it gets there: commit and release never throw "already
\* committed/released", whatever the other requests do.
HoldIsOpen == \A r \in Reservation : stage[r] \in Holding => r \in Open

\* A request is charged only when the upstream answered it to the end, and
\* its hold goes back only when the upstream did not.
OnlyAnswersAreCharged ==
  \A r \in DOMAIN reservations :
    /\ reservations[r].outcome = "committed" => upstream[r] = "ok"
    /\ reservations[r].outcome = "released_error" =>
         upstream[r] \in {"rejected", "lost"}

ChargesOf(a) == {r \in DOMAIN reservations : /\ reservations[r].account = a
                                             /\ reservations[r].outcome = "committed"}

\* The accrual of an account is what its answers cost by their last usage
\* block, margin included and each capped at its hold: no answer is charged
\* twice, to another account, or by a usage block that was superseded.
AccruedIsMetered ==
  \A a \in Account :
    credit[a].accrued =
      SumFunction([r \in ChargesOf(a) |-> ActualCharge(r, WithMargin(usage[r]))])

\* A hold is eventually settled, unless its handler died in a crash or
\* through an error it does not handle.
EveryHoldIsSettled ==
  \A r \in Reservation :
    r \in Open ~> (r \notin Open \/ stage[r] \in {"crashed", "threw", "unpaid"})
=============================================================================
