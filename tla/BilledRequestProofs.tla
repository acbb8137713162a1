------------------------- MODULE BilledRequestProofs -------------------------
(***************************************************************************)
(* Proofs about BilledRequest, for every number of requests, accounts and  *)
(* faults, every estimate and every margin.                                *)
(***************************************************************************)
EXTENDS BilledRequest, CreditLedgerProofs

-----------------------------------------------------------------------------
(* Types *)

LEMMA MarginType ==
  ASSUME NEW cost \in Cost
  PROVE  WithMargin(cost) \in Nat
<1>1. cost \in Nat /\ MarginBps \in Nat
  BY AmountsAreNatural, RequestConstants DEF Cost
<1>2. cost * MarginBps \in Nat
  BY <1>1
<1>3. (cost * MarginBps) \div 10000 \in Nat
  BY <1>2
<1>4. QED
  BY <1>1, <1>3 DEF WithMargin

\* A charge may exceed every amount a caller reserves, because of the margin;
\* the ledger keeps its types all the same.
LEMMA CommitType ==
  ASSUME TypeOK, NEW r \in Reservation, NEW total \in Nat, Commit(r, total)
  PROVE  TypeOK'
<1>1. r \in Open /\ "committed" \in Outcome /\ Close(r, "committed")
  BY DEF Commit, Outcome
<1>2. /\ reservations[r].account \in Account
      /\ reservations[r].amount \in Nat
      /\ ActualCharge(r, total) \in 0 .. reservations[r].amount
  BY <1>1, ChargeWithinHold
<1>3. Charged(credit[reservations[r].account], reservations[r].amount,
              ActualCharge(r, total), clock) \in CreditRow
  BY <1>2, ChargedType DEF TypeOK
<1>4. credit' \in [Account -> CreditRow]
  BY <1>2, <1>3 DEF TypeOK, Commit
<1>5. QED
  BY <1>1, <1>4, CloseType DEF TypeOK, Commit

\* The steps of one request.
StepOf(r) == Arrive(r) \/ Call(r) \/ Meter(r) \/ Finish(r) \/ Settle(r)

LEMMA LedgerTypeStep ==
  TypeOK /\ RequestTypeOK /\ [RequestNext]_requestVars => TypeOK'
<1> SUFFICES ASSUME TypeOK, RequestTypeOK, [RequestNext]_requestVars
             PROVE  TypeOK'
  OBVIOUS
<1>1. ASSUME UNCHANGED ledgerVars
      PROVE  TypeOK'
  BY <1>1 DEF ledgerVars, TypeOK
<1>2. ASSUME NEW r \in Reservation, Arrive(r)
      PROVE  TypeOK'
  <2>1. PICK k \in Kind, a \in Account, estimate \in Amount :
          Gate(r, k, a, estimate) \/ GateRefuses(r, k, a, estimate)
    BY <1>2 DEF Arrive
  <2>2. CASE Gate(r, k, a, estimate)
    <3>1. Next
      BY <2>2 DEF Gate, Next
    <3>2. QED
      BY <3>1, StepType
  <2>3. CASE GateRefuses(r, k, a, estimate)
    BY <2>3, <1>1 DEF GateRefuses, Ungated
  <2>4. QED
    BY <2>1, <2>2, <2>3
<1>3. ASSUME NEW r \in Reservation, Call(r) \/ Meter(r) \/ Finish(r)
      PROVE  UNCHANGED ledgerVars
  BY <1>3 DEF Call, Unbilled, Unreachable, Rejected, Accepted, CallReturns,
              Meter, UsageChunk, Finish, StreamEnds, StreamCut, BodyRead
<1>4. ASSUME NEW r \in Reservation, Bill(r)
      PROVE  TypeOK'
  <2>1. WithMargin(usage[r]) \in Nat
    BY MarginType DEF RequestTypeOK
  <2>2. QED
    BY <1>4, <2>1, CommitType DEF Bill
<1>5. ASSUME NEW r \in Reservation, GiveBack(r)
      PROVE  TypeOK'
  <2>1. "released_error" \in ReleaseOutcome
    BY DEF ReleaseOutcome, Outcome
  <2>2. Next
    BY <1>5, <2>1 DEF GiveBack, Next
  <2>3. QED
    BY <2>2, StepType
<1>6. ASSUME Faults
      PROVE  UNCHANGED ledgerVars
  BY <1>6 DEF Faults, ReserveFails, Ungated, CommitFails, ReleaseFails, BodyLost, Crash
<1>7. CASE UNCHANGED requestVars
  BY <1>1, <1>7 DEF requestVars
<1>8. QED
  BY <1>1, <1>2, <1>3, <1>4, <1>5, <1>6, <1>7 DEF RequestNext, Settle

LEMMA HandlerTypeStep ==
  RequestTypeOK /\ [RequestNext]_requestVars => RequestTypeOK'
<1> SUFFICES ASSUME RequestTypeOK, [RequestNext]_requestVars
             PROVE  RequestTypeOK'
  OBVIOUS
<1> USE DEF RequestTypeOK, Stage, Holding, Finished, Goto, At, Answers, Costs
<1>1. ASSUME NEW r \in Reservation, Arrive(r)
      PROVE  RequestTypeOK'
  BY <1>1 DEF Arrive, Gate, GateRefuses, Ungated, Kind
<1>2. ASSUME NEW r \in Reservation, Call(r)
      PROVE  RequestTypeOK'
  BY <1>2 DEF Call, Unbilled, Unreachable, Rejected, Accepted, CallReturns
<1>3. ASSUME NEW r \in Reservation, Meter(r) \/ Finish(r)
      PROVE  RequestTypeOK'
  BY <1>3 DEF Meter, UsageChunk, Streaming, Finish, StreamEnds, StreamCut, BodyRead
<1>4. ASSUME NEW r \in Reservation, Settle(r)
      PROVE  RequestTypeOK'
  BY <1>4 DEF Settle, Bill, GiveBack
<1>5. ASSUME NEW r \in Reservation, NEW k \in Kind, ReserveFails(r, k)
      PROVE  RequestTypeOK'
  BY <1>5, RequestConstants DEF ReserveFails, Ungated, Faulty, Kind
<1>6. ASSUME NEW r \in Reservation, CommitFails(r) \/ ReleaseFails(r) \/ BodyLost(r)
      PROVE  RequestTypeOK'
  BY <1>6, RequestConstants DEF CommitFails, ReleaseFails, BodyLost, Faulty
<1>7. ASSUME Crash
      PROVE  RequestTypeOK'
  BY <1>7, RequestConstants DEF Crash, Faulty
<1>8. CASE UNCHANGED requestVars
  BY <1>8 DEF requestVars, handlerVars
<1>9. QED
  BY <1>1, <1>2, <1>3, <1>4, <1>5, <1>6, <1>7, <1>8 DEF RequestNext, Faults

LEMMA InitTypes == RequestInit => TypeOK /\ RequestTypeOK
<1> SUFFICES ASSUME RequestInit
             PROVE  TypeOK /\ RequestTypeOK
  OBVIOUS
<1>1. TypeOK
  BY RequestConstants DEF RequestInit, TypeOK, ZeroRow, CreditRow, ReservationRow, NoTime
<1>2. RequestTypeOK
  BY RequestConstants DEF RequestInit, RequestTypeOK, Kind, Stage, Cost
<1>3. QED
  BY <1>1, <1>2

Types == TypeOK /\ RequestTypeOK

LEMMA SpecTypes == RequestSpec => []Types
<1>1. Types /\ [RequestNext]_requestVars => Types'
  BY LedgerTypeStep, HandlerTypeStep DEF Types
<1>2. RequestInit => Types
  BY InitTypes DEF Types
<1>3. QED
  BY <1>1, <1>2, PTL DEF RequestSpec

\* Handlers stay within their types for any number of requests and faults.
THEOREM RequestIsTyped == RequestSpec => []RequestTypeOK
<1>1. Types => RequestTypeOK
  BY DEF Types
<1>2. QED
  BY <1>1, SpecTypes, PTL

\* Requests never drive a balance or an accrual of the ledger below zero,
\* although a charge with its margin may exceed the hold it is taken from.
THEOREM RequestKeepsLedger == RequestSpec => []TypeOK
<1>1. Types => TypeOK
  BY DEF Types
<1>2. QED
  BY <1>1, SpecTypes, PTL

-----------------------------------------------------------------------------
(* The ledger under requests *)

\* A step of a handler is a call of the ledger, for a cost with its margin.
LEMMA RequestCallsLedger ==
  RequestTypeOK /\ [RequestNext]_requestVars => [AnyCall]_ledgerVars
<1> SUFFICES ASSUME RequestTypeOK, [RequestNext]_requestVars
             PROVE  [AnyCall]_ledgerVars
  OBVIOUS
<1>1. ASSUME NEW r \in Reservation, Arrive(r)
      PROVE  [AnyCall]_ledgerVars
  BY <1>1 DEF Arrive, Gate, GateRefuses, Ungated, AnyCall
<1>2. ASSUME NEW r \in Reservation, Bill(r)
      PROVE  AnyCall
  <2>1. WithMargin(usage[r]) \in Nat
    BY MarginType DEF RequestTypeOK
  <2>2. QED
    BY <1>2, <2>1 DEF Bill, AnyCall
<1>3. ASSUME NEW r \in Reservation, GiveBack(r)
      PROVE  AnyCall
  BY <1>3 DEF GiveBack, AnyCall, ReleaseOutcome, Outcome
<1>4. ASSUME NEW r \in Reservation, Call(r) \/ Meter(r) \/ Finish(r)
      PROVE  UNCHANGED ledgerVars
  BY <1>4 DEF Call, Unbilled, Unreachable, Rejected, Accepted, CallReturns,
              Meter, UsageChunk, Finish, StreamEnds, StreamCut, BodyRead
<1>5. ASSUME Faults
      PROVE  UNCHANGED ledgerVars
  BY <1>5 DEF Faults, ReserveFails, Ungated, CommitFails, ReleaseFails, BodyLost, Crash
<1>6. CASE UNCHANGED requestVars
  BY <1>6 DEF requestVars
<1>7. QED
  BY <1>1, <1>2, <1>3, <1>4, <1>5, <1>6 DEF RequestNext, Settle

\* However the handlers of billing-gate.ts, the proxies and the model wrapper
\* interleave, fail and crash, a hold is settled at most once and for at most
\* what it holds, although a cost with its margin may exceed it.
THEOREM RequestImplementsPromise == RequestSpec => ImplementsPromise
<1>1. RequestInit => Promise!Init
  BY InitTypes, StartsAsPromised DEF RequestInit, ZeroRow
<1>2. Types /\ [RequestNext]_requestVars => [Promise!Next]_(Promise!accountVars)
  BY RequestCallsLedger, StepImplementsPromise DEF Types
<1>3. QED
  BY <1>1, <1>2, SpecTypes, PTL DEF RequestSpec, ImplementsPromise, Promise!Spec

\* A hold that is charged, returned, orphaned or left open by a failed call
\* never creates or loses a credit.
THEOREM RequestSumIsConserved == RequestSpec => SumIsConserved
<1>1. Types /\ [RequestNext]_requestVars =>
        [\A a \in Account : Conserved(a)]_ledgerVars
  BY RequestCallsLedger, ConservedStep DEF Types
<1>2. QED
  BY <1>1, SpecTypes, PTL DEF RequestSpec, SumIsConserved, Conserved

\* Of the handlers that settle the hold of a request (the answer, its end, an
\* abort, an error), only the first one does.
THEOREM RequestClosedIsFinal == RequestSpec => ClosedIsFinal
<1>1. Types /\ [RequestNext]_requestVars => [RowsAreFinal]_ledgerVars
  BY RequestCallsLedger, FinalStep DEF Types
<1>2. QED
  BY <1>1, SpecTypes, PTL DEF RequestSpec, ClosedIsFinal, RowsAreFinal

\* The reserved counter is the total of the holds in flight, of the orphans
\* of a crash and of those that a failed commit or release left open.
THEOREM RequestReservedIsHeld == RequestSpec => []ReservedIsHeld
<1>1. RequestInit => HoldsCounted
  BY NothingHeld DEF RequestInit, ZeroRow
<1>2. Types /\ HoldsCounted /\ [RequestNext]_requestVars => HoldsCounted'
  BY RequestCallsLedger, HoldsStep DEF Types
<1>3. QED
  BY <1>1, <1>2, CountedIsHeld, SpecTypes, PTL DEF RequestSpec

-----------------------------------------------------------------------------
(* A handler and its hold *)

\* Where a handler ends that leaves its hold behind.
Dead == {"crashed", "threw", "unpaid"}

\* What relates the stage of a request, the upstream's answer and the
\* outcome of its reservation: nothing is reserved before the gate, a
\* handler before its end has an open reservation, it is about to charge
\* only a complete answer and to release only a failed one, and so are
\* those that did; and a reservation stays open only under a handler that
\* has not come to its end, or died.
Bound(r) ==
  /\ stage[r] \in {"new", "unbilled"} => r \notin DOMAIN reservations
  /\ stage[r] \in Holding => r \in Open
  /\ r \in Open => stage[r] \in Holding \cup Dead
  /\ stage[r] = "reading" => upstream[r] \in {"ok", "rejected"}
  /\ stage[r] = "reading" /\ kind[r] = "stream" => upstream[r] = "ok"
  /\ stage[r] = "billing" => upstream[r] = "ok"
  /\ stage[r] = "releasing" => upstream[r] \in {"rejected", "lost"}
  /\ r \in DOMAIN reservations =>
       /\ reservations[r].outcome = "committed" => upstream[r] = "ok"
       /\ reservations[r].outcome = "released_error" =>
            upstream[r] \in {"rejected", "lost"}

RequestInv == \A r \in Reservation : Bound(r)

\* A step of one request leaves the rows and the handlers of all others.
Untouched(x) ==
  /\ x \in DOMAIN reservations' <=> x \in DOMAIN reservations
  /\ x \in DOMAIN reservations => reservations'[x] = reservations[x]
  /\ stage'[x] = stage[x] /\ upstream'[x] = upstream[x] /\ kind'[x] = kind[x]

LEMMA UntouchedBound ==
  ASSUME NEW x \in Reservation, Bound(x), Untouched(x)
  PROVE  Bound(x)'
BY DEF Bound, Untouched, Open, Holding, Dead

LEMMA OthersUntouched ==
  ASSUME Types, NEW r \in Reservation, NEW x \in Reservation, x # r,
         \/ StepOf(r)
         \/ \E k \in Kind : ReserveFails(r, k)
         \/ CommitFails(r) \/ ReleaseFails(r) \/ BodyLost(r)
  PROVE  Untouched(x)
<1> USE DEF Types, RequestTypeOK, Goto, At, Answers, Costs, Untouched
<1>1. CASE Arrive(r)
  BY <1>1 DEF Arrive, Gate, GateRefuses, Ungated, Reserve, ledgerVars
<1>2. CASE Call(r)
  BY <1>2 DEF Call, Unbilled, Unreachable, Rejected, Accepted, CallReturns, ledgerVars
<1>3. CASE Meter(r) \/ Finish(r)
  BY <1>3 DEF Meter, UsageChunk, Finish, StreamEnds, StreamCut, BodyRead, ledgerVars
<1>4. CASE Settle(r)
  <2>1. \E outcome \in Outcome : Close(r, outcome)
    BY <1>4 DEF Settle, Bill, GiveBack, Commit, Release, Outcome
  <2>2. /\ DOMAIN reservations' = DOMAIN reservations
        /\ x \in DOMAIN reservations => reservations'[x] = reservations[x]
    BY <2>1 DEF Close, TypeOK
  <2>3. QED
    BY <1>4, <2>2 DEF Settle, Bill, GiveBack
<1>5. CASE (\E k \in Kind : ReserveFails(r, k))
           \/ CommitFails(r) \/ ReleaseFails(r) \/ BodyLost(r)
  BY <1>5 DEF ReserveFails, Ungated, CommitFails, ReleaseFails, BodyLost, ledgerVars
<1>6. QED
  BY <1>1, <1>2, <1>3, <1>4, <1>5 DEF StepOf

\* A step of a request keeps its own part of the invariant.
LEMMA OwnStep ==
  ASSUME Types, NEW r \in Reservation, Bound(r),
         \/ StepOf(r)
         \/ \E k \in Kind : ReserveFails(r, k)
         \/ CommitFails(r) \/ ReleaseFails(r) \/ BodyLost(r)
  PROVE  Bound(r)'
<1> USE DEF Types, RequestTypeOK, Goto, At, Answers, Costs, Bound, Holding, Dead
<1>1. ASSUME NEW k \in Kind, NEW a \in Account, NEW estimate \in Amount,
             Gate(r, k, a, estimate)
      PROVE  Bound(r)'
  <2>1. /\ r \in DOMAIN reservations'
        /\ reservations'[r].outcome = "open"
    BY <1>1 DEF Gate, Reserve
  <2>2. stage'[r] = "calling"
    BY <1>1 DEF Gate
  <2>3. QED
    BY <2>1, <2>2 DEF Open
<1>2. ASSUME NEW k \in Kind, Ungated(r, k)
      PROVE  Bound(r)'
  BY <1>2 DEF Ungated, ledgerVars, Open
<1>3. CASE Call(r)
  BY <1>3 DEF Call, Unbilled, Unreachable, Rejected, Accepted, CallReturns,
              ledgerVars, Open
<1>4. CASE Meter(r) \/ Finish(r)
  BY <1>4 DEF Meter, UsageChunk, Streaming, Finish, StreamEnds, StreamCut,
              BodyRead, ledgerVars, Open
<1>5. CASE Bill(r)
  <2>1. r \in DOMAIN reservations' /\ reservations'[r].outcome = "committed"
    BY <1>5 DEF Bill, Commit, Close, Open, TypeOK, ReservationRow
  <2>2. stage'[r] = "served" /\ upstream'[r] = "ok"
    BY <1>5 DEF Bill
  <2>3. QED
    BY <2>1, <2>2 DEF Open
<1>6. CASE GiveBack(r)
  <2>1. r \in DOMAIN reservations' /\ reservations'[r].outcome = "released_error"
    BY <1>6 DEF GiveBack, Release, Close, Open, TypeOK, ReservationRow
  <2>2. stage'[r] = "failed" /\ upstream'[r] \in {"rejected", "lost"}
    BY <1>6 DEF GiveBack
  <2>3. QED
    BY <2>1, <2>2 DEF Open
<1>7. CASE CommitFails(r) \/ ReleaseFails(r) \/ BodyLost(r)
  BY <1>7 DEF CommitFails, ReleaseFails, BodyLost, ledgerVars, Open
<1>8. QED
  BY <1>1, <1>2, <1>3, <1>4, <1>5, <1>6, <1>7
  DEF StepOf, Arrive, GateRefuses, Settle, ReserveFails

LEMMA RequestStep ==
  Types /\ RequestInv /\ [RequestNext]_requestVars => RequestInv'
<1> SUFFICES ASSUME Types, RequestInv, [RequestNext]_requestVars,
                    NEW x \in Reservation
             PROVE  Bound(x)'
  BY DEF RequestInv
<1>0. Bound(x)
  BY DEF RequestInv
<1>1. ASSUME NEW r \in Reservation,
             \/ StepOf(r)
             \/ \E k \in Kind : ReserveFails(r, k)
             \/ CommitFails(r) \/ ReleaseFails(r) \/ BodyLost(r)
      PROVE  Bound(x)'
  <2>1. CASE x = r
    BY <1>0, <1>1, <2>1, OwnStep
  <2>2. CASE x # r
    BY <1>0, <1>1, <2>2, OthersUntouched, UntouchedBound
  <2>3. QED
    BY <2>1, <2>2
<1>2. CASE Crash
  <2>1. stage'[x] = stage[x] \/ stage'[x] = "crashed"
    BY <1>2 DEF Crash
  <2>2. /\ reservations' = reservations
        /\ upstream' = upstream /\ kind' = kind
    BY <1>2 DEF Crash, ledgerVars
  <2>3. QED
    BY <1>0, <2>1, <2>2 DEF Bound, Open, Holding, Dead
<1>3. CASE UNCHANGED requestVars
  BY <1>0, <1>3 DEF requestVars, ledgerVars, handlerVars, Bound, Open
<1>4. QED
  BY <1>1, <1>2, <1>3 DEF RequestNext, StepOf, Faults

LEMMA SpecInv == RequestSpec => []RequestInv
<1>1. RequestInit => RequestInv
  BY DEF RequestInit, RequestInv, Bound, Open, Holding
<1>2. QED
  BY <1>1, RequestStep, SpecTypes, PTL DEF RequestSpec

\* A handler that has a hold to settle finds its reservation open, so commit
\* and release never throw "already committed/released".
THEOREM RequestHoldIsOpen == RequestSpec => []HoldIsOpen
<1>1. RequestInv => HoldIsOpen
  BY DEF RequestInv, Bound, HoldIsOpen
<1>2. QED
  BY <1>1, SpecInv, PTL

\* No request is charged unless its answer was complete, and no complete
\* answer is given back, whatever fails and however requests interleave.
THEOREM RequestOnlyAnswersAreCharged == RequestSpec => []OnlyAnswersAreCharged
<1>1. Types /\ RequestInv => OnlyAnswersAreCharged
  BY DEF Types, TypeOK, RequestInv, Bound, OnlyAnswersAreCharged
<1>2. QED
  BY <1>1, SpecTypes, SpecInv, PTL

\* A handler dies only of a fault.
Blamed == \A r \in Reservation : stage[r] \in Dead => faults > 0

LEMMA BlamedStep == Types /\ Blamed /\ [RequestNext]_requestVars => Blamed'
<1> SUFFICES ASSUME Types, Blamed, [RequestNext]_requestVars
             PROVE  Blamed'
  OBVIOUS
<1>1. stage \in [Reservation -> Stage] /\ faults \in Nat
  BY RequestConstants DEF Types, RequestTypeOK
<1>2. ASSUME NEW kind_, Faulty(kind_)
      PROVE  Blamed'
  BY <1>1, <1>2 DEF Faulty, Blamed
<1>3. ASSUME NEW r \in Reservation, NEW label, label \notin Dead, Goto(r, label),
             faults' = faults
      PROVE  Blamed'
  <2>1. \A x \in Reservation : stage'[x] = IF x = r THEN label ELSE stage[x]
    BY <1>1, <1>3 DEF Goto
  <2>2. QED
    BY <1>3, <2>1 DEF Blamed
<1>4. ASSUME UNCHANGED <<stage, faults>>
      PROVE  Blamed'
  BY <1>4 DEF Blamed
<1>5. ASSUME NEW r \in Reservation, Arrive(r)
      PROVE  Blamed'
  BY <1>3, <1>5 DEF Arrive, Gate, GateRefuses, Ungated, Dead
<1>6. ASSUME NEW r \in Reservation, Call(r)
      PROVE  Blamed'
  BY <1>3, <1>6 DEF Call, Unbilled, Unreachable, Rejected, Accepted,
                    CallReturns, Dead
<1>7. ASSUME NEW r \in Reservation, Meter(r)
      PROVE  Blamed'
  BY <1>4, <1>7 DEF Meter, UsageChunk
<1>8. ASSUME NEW r \in Reservation, Finish(r) \/ Settle(r)
      PROVE  Blamed'
  BY <1>3, <1>8 DEF Finish, StreamEnds, StreamCut, BodyRead, Settle, Bill,
                    GiveBack, Dead
<1>9. CASE Faults
  BY <1>2, <1>9 DEF Faults, ReserveFails, CommitFails, ReleaseFails, BodyLost,
                    Crash
<1>10. CASE UNCHANGED requestVars
  BY <1>4, <1>10 DEF requestVars, handlerVars
<1>11. QED
  BY <1>5, <1>6, <1>7, <1>8, <1>9, <1>10 DEF RequestNext

\* A hold is open only while its handler is on its way to settle it, or
\* after a fault has killed the handler.
NoHoldIsForgotten ==
  \A r \in Open : stage[r] \in Holding \/ (stage[r] \in Dead /\ faults > 0)

\* Every path through the three handlers ends in commit or release: without
\* a crash, an error of the database or a body that breaks off no hold
\* outlives its handler.
THEOREM RequestForgetsNoHold == RequestSpec => []NoHoldIsForgotten
<1>1. RequestInit => Blamed
  BY DEF RequestInit, Blamed, Dead
<1>2. Types /\ RequestInv /\ Blamed => NoHoldIsForgotten
  BY DEF Types, TypeOK, Open, RequestInv, Bound, Blamed, NoHoldIsForgotten
<1>3. QED
  BY <1>1, <1>2, BlamedStep, SpecTypes, SpecInv, PTL DEF RequestSpec

-----------------------------------------------------------------------------
(* What an account owes is what its answers cost *)

\* The fee of each answer that was charged to a.
Fees(a) == [r \in ChargesOf(a) |-> ActualCharge(r, WithMargin(usage[r]))]

\* The rows are finitely many, so that their fees have a sum, and the accrual
\* is that sum.
Metered == IsFiniteSet(DOMAIN reservations) /\ AccruedIsMetered

\* Nothing is charged, and neither the rows nor the costs of the answers that
\* were charged change.
FeesStand ==
  \A a \in Account : /\ credit'[a].accrued = credit[a].accrued
                     /\ ChargesOf(a)' = ChargesOf(a)
                     /\ \A r \in ChargesOf(a) : /\ usage'[r] = usage[r]
                                               /\ reservations'[r] = reservations[r]

LEMMA FeesStay ==
  ASSUME FeesStand, AccruedIsMetered
  PROVE  AccruedIsMetered'
<1> SUFFICES ASSUME NEW a \in Account
             PROVE  credit'[a].accrued = SumFunction(Fees(a)')
  BY DEF AccruedIsMetered, Fees
<1>1. \A r \in ChargesOf(a) : ActualCharge(r, WithMargin(usage[r]))' =
                              ActualCharge(r, WithMargin(usage[r]))
  BY DEF FeesStand, ActualCharge, WithMargin
<1>2. Fees(a)' = Fees(a)
  BY <1>1 DEF FeesStand, Fees
<1>3. QED
  BY <1>2 DEF FeesStand, AccruedIsMetered, Fees

\* A handler changes the cost of its own answer, and only while its hold is
\* open: no fee of a charged answer changes.
LEMMA OwnFeesStand ==
  ASSUME Types, RequestInv, NEW r \in Reservation, UNCHANGED ledgerVars,
         r \in Open \/ r \notin DOMAIN reservations \/ usage' = usage,
         \A x \in Reservation \ {r} : usage'[x] = usage[x]
  PROVE  FeesStand
<1>1. credit' = credit /\ reservations' = reservations
  BY DEF ledgerVars
<1>2. \A a \in Account : ChargesOf(a)' = ChargesOf(a)
  BY <1>1 DEF ChargesOf
<1>3. \A a \in Account : \A x \in ChargesOf(a) : x \in Reservation /\ (x # r \/ usage' = usage)
  BY DEF ChargesOf, Types, TypeOK, Open
<1>4. QED
  BY <1>1, <1>2, <1>3 DEF FeesStand

\* A hold that is taken or given back is no charge.
LEMMA ReserveFeesStand ==
  ASSUME TypeOK, NEW r \in Reservation, NEW b \in Account, NEW amount \in Amount,
         Reserve(r, b, amount), UNCHANGED usage
  PROVE  FeesStand
<1>1. \A a \in Account : credit'[a].accrued = credit[a].accrued
  BY AmountsAreNatural DEF TypeOK, Reserve, Held, CreditRow
<1>2. /\ r \notin DOMAIN reservations
      /\ DOMAIN reservations' = DOMAIN reservations \cup {r}
      /\ reservations'[r].outcome = "open"
      /\ \A x \in DOMAIN reservations : reservations'[x] = reservations[x]
  BY DEF Reserve
<1>3. \A a \in Account : ChargesOf(a)' = ChargesOf(a)
  BY <1>2 DEF ChargesOf
<1>4. QED
  BY <1>1, <1>2, <1>3 DEF FeesStand, ChargesOf

LEMMA ReleaseFeesStand ==
  ASSUME TypeOK, NEW r \in Reservation, Release(r, "released_error"), UNCHANGED usage
  PROVE  FeesStand
<1>1. r \in Open /\ Close(r, "released_error")
  BY DEF Release
<1>2. reservations[r].account \in Account
  BY <1>1 DEF TypeOK, Open, ReservationRow
<1>3. \A a \in Account : credit'[a].accrued = credit[a].accrued
  BY <1>2 DEF TypeOK, Release, Returned, CreditRow
<1>4. /\ DOMAIN reservations' = DOMAIN reservations
      /\ reservations'[r].outcome = "released_error"
      /\ \A x \in DOMAIN reservations \ {r} : reservations'[x] = reservations[x]
  BY <1>1 DEF Close, Open, TypeOK, ReservationRow
<1>5. \A a \in Account : ChargesOf(a)' = ChargesOf(a) /\ r \notin ChargesOf(a)
  BY <1>1, <1>4 DEF ChargesOf, Open
<1>6. QED
  BY <1>3, <1>4, <1>5 DEF FeesStand, ChargesOf

\* A charge is added to the fees of its account, and to no other's.
LEMMA BillAddsFee ==
  ASSUME Types, Metered, NEW r \in Reservation, Bill(r)
  PROVE  AccruedIsMetered'
<1> DEFINE total == WithMargin(usage[r])
           charge == ActualCharge(r, total)
           b == reservations[r].account
<1>0. TypeOK /\ total \in Nat /\ UNCHANGED usage
  BY MarginType DEF Types, RequestTypeOK, Bill
<1>1. r \in Open /\ Close(r, "committed") /\ Commit(r, total)
  BY DEF Bill, Commit
<1>2. b \in Account /\ reservations[r].amount \in Nat /\ charge \in Nat
  BY <1>0, <1>1, ChargeWithinHold
<1>3. /\ DOMAIN reservations' = DOMAIN reservations
      /\ reservations'[r].outcome = "committed"
      /\ reservations[r].outcome = "open" /\ r \in DOMAIN reservations
      /\ \A x \in DOMAIN reservations :
           /\ reservations'[x].account = reservations[x].account
           /\ reservations'[x].amount = reservations[x].amount
           /\ x # r => reservations'[x] = reservations[x]
  BY <1>0, <1>1 DEF Close, Open, TypeOK, ReservationRow
<1>4. \A x \in DOMAIN reservations : ActualCharge(x, WithMargin(usage[x]))' =
                                      ActualCharge(x, WithMargin(usage[x]))
  BY <1>0, <1>3 DEF ActualCharge, WithMargin
<1>5. \A a \in Account :
        credit'[a].accrued = credit[a].accrued + (IF a = b THEN charge ELSE 0)
  <2>1. \A a \in Account : credit[a].accrued \in Nat
    BY <1>0 DEF TypeOK, CreditRow
  <2> HIDE DEF total
  <2>2. credit' = [credit EXCEPT ![b] = Charged(@, reservations[r].amount, charge, clock)]
    BY <1>1 DEF Commit
  <2> HIDE DEF charge, b
  <2>3. QED
    BY <1>0, <1>2, <2>1, <2>2 DEF Charged, TypeOK
<1> SUFFICES ASSUME NEW a \in Account
             PROVE  credit'[a].accrued = SumFunction(Fees(a)')
  BY DEF AccruedIsMetered, Fees
<1>6. credit[a].accrued = SumFunction(Fees(a)) /\ credit[a].accrued \in Nat
  BY <1>0 DEF Metered, AccruedIsMetered, Fees, TypeOK, CreditRow
<1>7. CASE a # b
  <2>1. ChargesOf(a)' = ChargesOf(a)
    BY <1>3, <1>7 DEF ChargesOf
  <2>2. Fees(a)' = Fees(a)
    BY <1>4, <2>1 DEF Fees, ChargesOf
  <2>3. QED
    BY <1>5, <1>6, <1>7, <2>2
<1>8. CASE a = b
  <2> DEFINE C == ChargesOf(a)
             f == Fees(a)'
  <2>1. ChargesOf(a)' = C \cup {r} /\ r \notin C
    BY <1>3, <1>8 DEF ChargesOf
  <2>2. IsFiniteSet(C)
    BY FS_Subset DEF Metered, ChargesOf
  <2>3. f = [x \in C \cup {r} |-> ActualCharge(x, WithMargin(usage[x]))]
    BY <1>3, <1>4, <2>1 DEF Fees, ChargesOf
  <2>4. \A x \in C \cup {r} : f[x] \in Nat
    <3> SUFFICES ASSUME NEW x \in C \cup {r}
                 PROVE  ActualCharge(x, WithMargin(usage[x])) \in Nat
      BY <2>3
    <3>1. x \in DOMAIN reservations /\ x \in Reservation
      BY <1>0, <1>3 DEF ChargesOf, TypeOK
    <3>2. WithMargin(usage[x]) \in Nat /\ reservations[x].amount \in Nat
      BY <1>0, <3>1, MarginType DEF Types, RequestTypeOK, TypeOK, ReservationRow
    <3>3. QED
      BY <3>2 DEF ActualCharge, Smaller
  <2>5. \A x \in C : f[x] = Fees(a)[x]
    BY <2>3 DEF Fees
  <2>6. f[r] = charge
    BY <2>3
  <2>7. DOMAIN f = C \cup {r} /\ DOMAIN Fees(a) = C
    BY <2>3 DEF Fees
  <2> HIDE DEF C, f
  <2>8. SumFunctionOnSet(f, C \cup {r}) = SumFunctionOnSet(f, C) + f[r]
    BY <2>1, <2>2, <2>4, SumWith
  <2>9. SumFunctionOnSet(f, C) = SumFunctionOnSet(Fees(a), C)
    BY <2>2, <2>5, SumSame
  <2>10. SumFunction(f) = SumFunction(Fees(a)) + charge
    BY <2>6, <2>7, <2>8, <2>9 DEF SumFunction
  <2>11. QED
    BY <1>5, <1>6, <1>8, <2>10 DEF f
<1>9. QED
  BY <1>7, <1>8

LEMMA RowsStayFinite ==
  ASSUME Types, [RequestNext]_requestVars, IsFiniteSet(DOMAIN reservations)
  PROVE  IsFiniteSet(DOMAIN reservations')
<1>1. [AnyCall]_ledgerVars
  BY RequestCallsLedger DEF Types
<1>2. CASE UNCHANGED ledgerVars
  BY <1>2 DEF ledgerVars
<1>3. ASSUME NEW r \in Reservation, NEW a \in Account, NEW amount \in Amount,
             Reserve(r, a, amount)
      PROVE  IsFiniteSet(DOMAIN reservations')
  <2>1. DOMAIN reservations' = DOMAIN reservations \cup {r}
    BY <1>3 DEF Reserve
  <2>2. QED
    BY <2>1, FS_AddElement
<1>4. ASSUME AnyCall,
             ~ \E r \in Reservation, a \in Account, amount \in Amount : Reserve(r, a, amount)
      PROVE  DOMAIN reservations' = DOMAIN reservations
  BY <1>4 DEF AnyCall, Release, Commit, Close, Hydrate, FlushAccrued
<1>5. QED
  BY <1>1, <1>2, <1>3, <1>4

LEMMA MeteredStep ==
  Types /\ RequestInv /\ Metered /\ [RequestNext]_requestVars => Metered'
<1> SUFFICES ASSUME Types, RequestInv, Metered, [RequestNext]_requestVars
             PROVE  AccruedIsMetered'
  BY RowsStayFinite DEF Metered
<1>0. TypeOK /\ usage \in [Reservation -> Cost]
  BY DEF Types, RequestTypeOK
<1>1. ASSUME UNCHANGED <<ledgerVars, usage>>
      PROVE  FeesStand
  BY <1>1 DEF ledgerVars, FeesStand, ChargesOf
<1>2. ASSUME NEW r \in Reservation, StepOf(r), ~ Bill(r)
      PROVE  FeesStand
  <2>1. ASSUME NEW k \in Kind, NEW a \in Account, NEW estimate \in Amount,
               Gate(r, k, a, estimate)
        PROVE  FeesStand
    BY <1>0, <2>1, ReserveFeesStand DEF Gate
  <2>2. ASSUME NEW k \in Kind, NEW a \in Account, NEW estimate \in Amount,
               GateRefuses(r, k, a, estimate)
        PROVE  FeesStand
    BY <1>1, <2>2 DEF GateRefuses, Ungated
  <2>3. CASE Call(r) \/ Meter(r) \/ Finish(r)
    <3>1. UNCHANGED ledgerVars
      BY <2>3 DEF Call, Unbilled, Unreachable, Rejected, Accepted, CallReturns,
                  Meter, UsageChunk, Finish, StreamEnds, StreamCut, BodyRead
    <3>2. \A x \in Reservation \ {r} : usage'[x] = usage[x]
      BY <1>0, <2>3 DEF Call, Unbilled, Unreachable, Rejected, Accepted, CallReturns,
                  Meter, UsageChunk, Finish, StreamEnds, StreamCut, BodyRead, Costs
    <3>3. usage' = usage \/ stage[r] \in Holding
      BY <2>3 DEF Call, Unbilled, Unreachable, Rejected, Accepted, CallReturns,
                  Meter, UsageChunk, Streaming, Finish, StreamEnds, StreamCut,
                  BodyRead, At, Holding
    <3>4. usage' = usage \/ r \in Open
      BY <3>3 DEF RequestInv, Bound
    <3>5. QED
      BY <3>1, <3>2, <3>4, OwnFeesStand
  <2>4. CASE GiveBack(r)
    BY <1>0, <2>4, ReleaseFeesStand DEF GiveBack
  <2>5. QED
    BY <1>2, <2>1, <2>2, <2>3, <2>4 DEF StepOf, Arrive, Settle
<1>3. ASSUME Faults
      PROVE  FeesStand
  BY <1>1, <1>3 DEF Faults, ReserveFails, Ungated, CommitFails, ReleaseFails,
                    BodyLost, Crash
<1>4. ASSUME UNCHANGED requestVars
      PROVE  FeesStand
  BY <1>1, <1>4 DEF requestVars, handlerVars
<1>5. ASSUME NEW r \in Reservation, Bill(r)
      PROVE  AccruedIsMetered'
  BY <1>5, BillAddsFee
<1>6. QED
  BY <1>2, <1>3, <1>4, <1>5, FeesStay DEF RequestNext, StepOf, Metered

\* What billing-gate.ts, the proxies and the model wrapper make an account
\* owe is, for any number of requests of any cost, the sum over its answered
\* requests of what their last usage block cost, with the margin, each capped
\* at its hold.
THEOREM RequestAccruedIsMetered == RequestSpec => []AccruedIsMetered
<1>1. RequestInit => Metered
  <2> SUFFICES ASSUME RequestInit
               PROVE  Metered
    OBVIOUS
  <2>1. DOMAIN reservations = {} /\ \A a \in Account : credit[a].accrued = 0
    BY DEF RequestInit, ZeroRow
  <2>2. \A a \in Account : DOMAIN Fees(a) = {}
    BY <2>1 DEF Fees, ChargesOf
  <2>3. \A a \in Account : SumFunction(Fees(a)) = 0
    BY <2>2, SumOfNone DEF SumFunction
  <2>4. QED
    BY <2>1, <2>3, FS_EmptySet DEF Metered, AccruedIsMetered, Fees
<1>2. Metered => AccruedIsMetered
  BY DEF Metered
<1>3. QED
  BY <1>1, <1>2, MeteredStep, SpecTypes, SpecInv, PTL DEF RequestSpec
=============================================================================
