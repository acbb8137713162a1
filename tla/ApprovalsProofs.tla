-------------------------- MODULE ApprovalsProofs --------------------------
(***************************************************************************)
(* Proofs about Approvals, for any requests, options, choosers and faults. *)
(***************************************************************************)
EXTENDS Approvals, TLAPS

Answers == Option \cup {"none", "timeout", "cancel", "stop", "lost"}

\* The types, in the parts that actions change together.
CallsTyped ==
  /\ phase \in [Approval -> {"new", "created", "made"}]
  /\ answer \in [Approval -> Answers]
  /\ timeout \in [Approval -> {"idle", "reading", "calling", "deleting", "done"}]
  /\ cancel \in [Approval -> {"idle", "deleting", "done"}]
  /\ stopped \in BOOLEAN /\ faults \in 0 .. MaxFaults

ChoicesTyped == choice \in [Chooser -> {NoChoice, Over} \cup Run]

Made == {a \in Approval : phase[a] # "new"}

SetsTyped ==
  /\ pending \subseteq Tracked /\ armed \subseteq Timed \cap pending
  /\ \A a \in armed : timeout[a] = "idle"
  /\ rows \subseteq Made /\ registered \subseteq Made /\ pending \subseteq Made
  /\ armed \subseteq Made /\ dropped \subseteq Made

LEMMA TypeParts ==
  ApprovalTypeOK <=> CallsTyped /\ ChoicesTyped /\ SetsTyped
BY DEF ApprovalTypeOK, CallsTyped, ChoicesTyped, SetsTyped, Answers, Made

LEMMA TypePartsNext ==
  ASSUME CallsTyped', ChoicesTyped', SetsTyped'
  PROVE  ApprovalTypeOK'
BY DEF ApprovalTypeOK, CallsTyped, ChoicesTyped, SetsTyped, Answers, Made

\* Before its entry is made a request has neither answer, timer nor time-out.
YetToTrack ==
  \A a \in Approval : phase[a] # "made" =>
    answer[a] = "none" /\ timeout[a] = "idle" /\ a \notin pending

\* A choice is of a request that was made.  One with an entry in hand took its
\* timer; only such a choice calls onSelect, with an option.
HeldIsMade ==
  \A c \in Chooser : choice[c] \in Run =>
    /\ phase[choice[c].of] # "new"
    /\ choice[c].held =>
         phase[choice[c].of] = "made" /\ choice[c].of \notin armed
    /\ choice[c].pc = "selecting" => choice[c].held
    /\ choice[c].pc # "chosen" => choice[c].option \in Option

ApprovalInv ==
  /\ ApprovalTypeOK /\ YetToTrack /\ HeldIsMade
  /\ AnsweredIsSettled /\ AnsweredIsWithdrawn

LEMMA InvInit == ApprovalInit => ApprovalInv
<1> SUFFICES ASSUME ApprovalInit PROVE ApprovalInv
  OBVIOUS
<1>1. ApprovalTypeOK
  <2>1. faults \in 0 .. MaxFaults
    BY ApprovalConstants DEF ApprovalInit
  <2>2. CallsTyped /\ ChoicesTyped /\ SetsTyped
    BY <2>1 DEF ApprovalInit, CallsTyped, ChoicesTyped, SetsTyped, Answers
  <2>3. QED
    BY <2>2, TypeParts
<1>2. \A c \in Chooser : choice[c] \notin Run
  BY DEF ApprovalInit, NoChoice, Run
<1>3. YetToTrack /\ AnsweredIsSettled /\ AnsweredIsWithdrawn
  BY DEF ApprovalInit, YetToTrack, AnsweredIsSettled, AnsweredIsWithdrawn
<1>4. QED
  BY <1>1, <1>2, <1>3 DEF ApprovalInv, HeldIsMade

-----------------------------------------------------------------------------
(* Choices *)

\* A choice under way is a run.
LEMMA RunOfChoice ==
  ASSUME ChoicesTyped, NEW c \in Chooser,
         choice[c].pc \in {"chosen", "allowed", "reading", "selecting",
                           "deleting"}
  PROVE  choice[c] \in Run
BY DEF ChoicesTyped, NoChoice, Over

LEMMA GotoChoice ==
  ASSUME ChoicesTyped, NEW c \in Chooser, choice[c] \in Run,
         NEW pc \in {"chosen", "allowed", "reading", "selecting", "deleting"},
         Goto(c, pc)
  PROVE  /\ ChoicesTyped'
         /\ choice'[c] \in Run /\ choice'[c].pc = pc
         /\ choice'[c].of = choice[c].of /\ choice'[c].held = choice[c].held
         /\ choice'[c].option = choice[c].option
         /\ \A d \in Chooser : d # c => choice'[d] = choice[d]
<1>1. choice'[c] = [choice[c] EXCEPT !.pc = pc]
  BY DEF Goto, ChoicesTyped
<1>2. choice'[c] \in Run
  BY <1>1 DEF Run
<1>3. \A d \in Chooser : d # c => choice'[d] = choice[d]
  BY DEF Goto, ChoicesTyped
<1>4. ChoicesTyped'
  BY <1>2, <1>3 DEF Goto, ChoicesTyped
<1>5. QED
  BY <1>1, <1>2, <1>3, <1>4 DEF Run

LEMMA EndChoice ==
  ASSUME ChoicesTyped, NEW c \in Chooser, EndsChoice(c)
  PROVE  /\ ChoicesTyped'
         /\ choice'[c] = Over /\ Over \notin Run
         /\ \A d \in Chooser : d # c => choice'[d] = choice[d]
BY DEF EndsChoice, ChoicesTyped, Over, Run

-----------------------------------------------------------------------------
(* What carries over to the next state *)

LEMMA HeldCarries ==
  ASSUME ApprovalInv,
         NEW c \in Chooser,
         \A d \in Chooser : d # c => choice'[d] = choice[d],
         choice'[c] \in Run =>
           /\ phase'[choice'[c].of] # "new"
           /\ choice'[c].held =>
                phase'[choice'[c].of] = "made" /\ choice'[c].of \notin armed'
           /\ choice'[c].pc = "selecting" => choice'[c].held
           /\ choice'[c].pc # "chosen" => choice'[c].option \in Option,
         phase' = phase, armed' \subseteq armed
  PROVE  HeldIsMade'
BY DEF ApprovalInv, HeldIsMade

LEMMA HeldStays ==
  ASSUME ApprovalInv, choice' = choice,
         \A a \in Approval : phase[a] # "new" => phase'[a] # "new",
         \A a \in Approval : phase[a] = "made" =>
           phase'[a] = "made" /\ (a \in armed' => a \in armed)
  PROVE  HeldIsMade'
<1>1. \A c \in Chooser : choice[c] \in Run => choice[c].of \in Approval
  BY DEF Run
<1>2. QED
  BY <1>1 DEF ApprovalInv, HeldIsMade

LEMMA SettledCarries ==
  ASSUME ApprovalInv, pending' \subseteq pending, armed' \subseteq armed,
         \A a \in Approval : \/ answer'[a] = answer[a]
                             \/ a \notin pending' \cup armed'
  PROVE  AnsweredIsSettled'
BY DEF ApprovalInv, AnsweredIsSettled

LEMMA WithdrawnCarries ==
  ASSUME ApprovalInv, faults' = faults, rows' \subseteq rows,
         \A a \in Approval : \/ answer'[a] = answer[a]
                             \/ answer'[a] = "stop"
                             \/ Deleting(a)',
         \A a \in rows' : Deleting(a) => Deleting(a)'
  PROVE  AnsweredIsWithdrawn'
BY DEF ApprovalInv, AnsweredIsWithdrawn

\* A fault voids the promise.
LEMMA FaultVoids ==
  ASSUME ApprovalInv, NEW kind, Faulty(kind)
  PROVE  AnsweredIsWithdrawn' /\ faults' \in 0 .. MaxFaults
<1>1. faults \in Nat /\ faults' = faults + 1 /\ faults' <= MaxFaults
  BY ApprovalConstants DEF Faulty, ApprovalInv, ApprovalTypeOK
<1>2. QED
  BY <1>1, ApprovalConstants DEF AnsweredIsWithdrawn

LEMMA InvParts ==
  ApprovalInv <=> /\ CallsTyped /\ ChoicesTyped /\ SetsTyped
                  /\ YetToTrack /\ HeldIsMade
                  /\ AnsweredIsSettled /\ AnsweredIsWithdrawn
BY TypeParts DEF ApprovalInv

LEMMA InvPartsNext ==
  ASSUME CallsTyped', ChoicesTyped', SetsTyped', YetToTrack', HeldIsMade',
         AnsweredIsSettled', AnsweredIsWithdrawn'
  PROVE  ApprovalInv'
BY TypePartsNext DEF ApprovalInv

-----------------------------------------------------------------------------
(* Requests *)

LEMMA StepCreate ==
  ASSUME ApprovalInv, NEW a \in Approval, Create(a)
  PROVE  ApprovalInv'
<1> USE DEF Create, memoryVars, callVars
<1>1. CallsTyped' /\ ChoicesTyped'
  BY InvParts DEF CallsTyped, ChoicesTyped
<1>2. SetsTyped'
  <2>1. Made' = Made \cup {a}
    BY InvParts DEF Made, CallsTyped
  <2>2. QED
    BY <2>1, InvParts DEF SetsTyped
<1>3. YetToTrack'
  BY InvParts DEF YetToTrack, CallsTyped
<1>4. HeldIsMade'
  BY InvParts, HeldStays DEF CallsTyped
<1>5. AnsweredIsSettled'
  BY SettledCarries
<1>6. AnsweredIsWithdrawn'
  <2>1. answer[a] = "none"
    BY InvParts DEF YetToTrack
  <2>2. QED
    BY <2>1, InvParts DEF AnsweredIsWithdrawn, Deleting
<1>7. QED
  BY <1>1, <1>2, <1>3, <1>4, <1>5, <1>6, InvPartsNext

LEMMA StepTrack ==
  ASSUME ApprovalInv, NEW a \in Approval, Track(a)
  PROVE  ApprovalInv'
<1> USE DEF Track, callVars
<1>1. CallsTyped' /\ ChoicesTyped'
  BY InvParts DEF CallsTyped, ChoicesTyped
<1>2. timeout[a] = "idle" /\ answer[a] = "none"
  BY InvParts DEF YetToTrack
<1>3. SetsTyped'
  <2>1. Made' = Made /\ a \in Made
    BY InvParts DEF Made, CallsTyped
  <2>2. QED
    BY <1>2, <2>1, InvParts, ApprovalConstants DEF SetsTyped
<1>4. YetToTrack'
  BY InvParts DEF YetToTrack, CallsTyped
<1>5. HeldIsMade'
  BY InvParts, HeldStays DEF CallsTyped
<1>6. AnsweredIsSettled'
  BY <1>2, InvParts DEF AnsweredIsSettled
<1>7. AnsweredIsWithdrawn'
  BY WithdrawnCarries DEF Deleting
<1>8. QED
  BY <1>1, <1>3, <1>4, <1>5, <1>6, <1>7, InvPartsNext

-----------------------------------------------------------------------------
(* Runs of CHOOSE_OPTION *)

LEMMA StepChoose ==
  ASSUME ApprovalInv, NEW c \in Chooser, Choose(c)
  PROVE  ApprovalInv'
<1> USE DEF Choose, memoryVars
<1>1. PICK a \in rows, o \in Option \cup {Abort} :
        choice' = [choice EXCEPT ![c] = [pc |-> "chosen", of |-> a,
                                         option |-> o, held |-> FALSE]]
  OBVIOUS
<1>2. a \in Approval
  BY InvParts DEF SetsTyped, Made
<1>3. /\ choice'[c] = [pc |-> "chosen", of |-> a, option |-> o, held |-> FALSE]
      /\ \A d \in Chooser : d # c => choice'[d] = choice[d]
  BY <1>1, InvParts DEF ChoicesTyped
<1>4. ChoicesTyped'
  BY <1>1, <1>2, InvParts DEF ChoicesTyped, Run
<1>5. CallsTyped' /\ SetsTyped' /\ YetToTrack'
  BY InvParts DEF CallsTyped, SetsTyped, Made, YetToTrack
<1>6. HeldIsMade'
  BY <1>3, InvParts, HeldCarries DEF SetsTyped, Made
<1>7. AnsweredIsSettled'
  BY SettledCarries
<1>8. AnsweredIsWithdrawn'
  <2>1. \A b \in Approval : Deleting(b) => Deleting(b)'
    BY <1>3 DEF Deleting, NoChoice
  <2>2. QED
    BY <2>1, InvParts, WithdrawnCarries DEF SetsTyped, Made
<1>9. QED
  BY <1>4, <1>5, <1>6, <1>7, <1>8, InvPartsNext

LEMMA StepAborts ==
  ASSUME ApprovalInv, NEW c \in Chooser, Aborts(c)
  PROVE  ApprovalInv'
<1> USE DEF Aborts, memoryVars
<1>1. choice[c] \in Run /\ choice[c].of \in Approval
  BY InvParts, RunOfChoice DEF Run
<1>2. /\ ChoicesTyped' /\ choice'[c] \notin Run
      /\ \A d \in Chooser : d # c => choice'[d] = choice[d]
  BY InvParts, EndChoice
<1>3. CallsTyped' /\ YetToTrack'
  BY InvParts DEF CallsTyped, YetToTrack
<1>4. SetsTyped'
  BY <1>1, InvParts DEF SetsTyped, Made, HeldIsMade
<1>5. HeldIsMade'
  BY <1>2, HeldCarries
<1>6. AnsweredIsSettled'
  BY SettledCarries
<1>7. AnsweredIsWithdrawn'
  <2>1. \A b \in Approval : Deleting(b) => Deleting(b)'
    BY <1>2 DEF Deleting
  <2>2. QED
    BY <2>1, InvParts, WithdrawnCarries DEF SetsTyped, Made
<1>8. QED
  BY <1>2, <1>3, <1>4, <1>5, <1>6, <1>7, InvPartsNext

LEMMA StepCheck ==
  ASSUME ApprovalInv, NEW c \in Chooser, Check(c)
  PROVE  ApprovalInv'
<1> USE DEF Check, memoryVars
<1>1. choice[c] \in Run
  BY InvParts, RunOfChoice
<1>2. CallsTyped' /\ SetsTyped' /\ YetToTrack'
  BY InvParts DEF CallsTyped, SetsTyped, Made, YetToTrack
<1>3. AnsweredIsSettled'
  BY SettledCarries
<1>4. ChoicesTyped' /\ HeldIsMade' /\ \A b \in Approval : Deleting(b) => Deleting(b)'
  <2>1. CASE Goto(c, "allowed")
    <3>1. /\ ChoicesTyped' /\ choice'[c] \in Run /\ choice'[c].pc = "allowed"
          /\ choice'[c].of = choice[c].of /\ choice'[c].held = choice[c].held
         /\ choice'[c].option = choice[c].option
          /\ choice'[c].option = choice[c].option
          /\ \A d \in Chooser : d # c => choice'[d] = choice[d]
      BY <1>1, <2>1, InvParts, GotoChoice
    <3>2. HeldIsMade'
      BY <1>1, <3>1, InvParts, HeldCarries DEF HeldIsMade, Run
    <3>3. QED
      BY <3>1, <3>2 DEF Deleting
  <2>2. CASE EndsChoice(c)
    <3>1. /\ ChoicesTyped' /\ choice'[c] \notin Run
          /\ \A d \in Chooser : d # c => choice'[d] = choice[d]
      BY <2>2, InvParts, EndChoice
    <3>2. QED
      BY <3>1, HeldCarries DEF Deleting
  <2>3. QED
    BY <2>1, <2>2
<1>5. AnsweredIsWithdrawn'
  BY <1>4, InvParts, WithdrawnCarries DEF SetsTyped, Made
<1>6. QED
  BY <1>2, <1>3, <1>4, <1>5, InvPartsNext

LEMMA StepSelect ==
  ASSUME ApprovalInv, NEW c \in Chooser, Select(c)
  PROVE  ApprovalInv'
<1> USE DEF Select
<1>1. choice[c] \in Run
  BY InvParts, RunOfChoice
<1> DEFINE held == choice[c].of \in pending
<1>2. /\ choice' = [choice EXCEPT ![c] = choice'[c]]
      /\ choice'[c] = [pc |-> "reading", of |-> choice[c].of,
                       option |-> choice[c].option, held |-> held]
      /\ \A d \in Chooser : d # c => choice'[d] = choice[d]
  BY InvParts DEF ChoicesTyped
<1>3. /\ choice'[c] \in Run /\ choice'[c].pc = "reading"
      /\ choice'[c].of = choice[c].of /\ choice'[c].option = choice[c].option
      /\ choice'[c].held = held
  BY <1>1, <1>2 DEF Run
<1> HIDE DEF held
<1>4. ChoicesTyped'
  BY <1>2, <1>3, InvParts DEF ChoicesTyped
<1>5. CallsTyped' /\ SetsTyped' /\ YetToTrack'
  BY InvParts DEF CallsTyped, SetsTyped, Made, YetToTrack
<1>6. AnsweredIsSettled'
  BY SettledCarries
<1>7. HeldIsMade'
  <2>1. choice[c].of \in pending =>
          phase[choice[c].of] = "made" /\ choice[c].of \notin armed'
    BY <1>1, InvParts DEF YetToTrack, Run
  <2>2. choice[c].option \in Option /\ phase[choice[c].of] # "new"
    BY <1>1, InvParts DEF HeldIsMade
  <2>3. QED
    BY <1>2, <1>3, <2>1, <2>2, HeldCarries DEF held
<1>8. AnsweredIsWithdrawn'
  <2>1. \A b \in Approval : Deleting(b) => Deleting(b)'
    BY <1>2, <1>3 DEF Deleting
  <2>2. QED
    BY <2>1, InvParts, WithdrawnCarries DEF SetsTyped, Made
<1>9. QED
  BY <1>4, <1>5, <1>6, <1>7, <1>8, InvPartsNext

LEMMA StepReadTask ==
  ASSUME ApprovalInv, NEW c \in Chooser, ReadTask(c)
  PROVE  ApprovalInv'
<1> USE DEF ReadTask, memoryVars
<1> DEFINE pc == IF choice[c].of \in rows /\ choice[c].held THEN "selecting"
                                                            ELSE "deleting"
<1>1. choice[c] \in Run
  BY InvParts, RunOfChoice
<1>2. /\ ChoicesTyped' /\ choice'[c] \in Run /\ choice'[c].pc = pc
      /\ choice'[c].of = choice[c].of /\ choice'[c].held = choice[c].held
      /\ choice'[c].option = choice[c].option
      /\ \A d \in Chooser : d # c => choice'[d] = choice[d]
  BY <1>1, InvParts, GotoChoice
<1>3. CallsTyped' /\ SetsTyped' /\ YetToTrack'
  BY InvParts DEF CallsTyped, SetsTyped, Made, YetToTrack
<1>4. AnsweredIsSettled'
  BY SettledCarries
<1>5. HeldIsMade'
  BY <1>1, <1>2, InvParts, HeldCarries DEF HeldIsMade, Run
<1>6. AnsweredIsWithdrawn'
  <2>1. \A b \in Approval : Deleting(b) => Deleting(b)'
    BY <1>2 DEF Deleting
  <2>2. QED
    BY <2>1, InvParts, WithdrawnCarries DEF SetsTyped, Made
<1>7. QED
  BY <1>2, <1>3, <1>4, <1>5, <1>6, InvPartsNext

LEMMA StepSelected ==
  ASSUME ApprovalInv, NEW c \in Chooser, Selected(c)
  PROVE  ApprovalInv'
<1> USE DEF Selected
<1> DEFINE a == choice[c].of
<1>1. choice[c] \in Run /\ a \in Approval
  BY InvParts, RunOfChoice DEF Run
<1>2. /\ ChoicesTyped' /\ choice'[c] \in Run /\ choice'[c].pc = "deleting"
      /\ choice'[c].of = a /\ choice'[c].held = choice[c].held
      /\ choice'[c].option = choice[c].option
      /\ \A d \in Chooser : d # c => choice'[d] = choice[d]
  BY <1>1, InvParts, GotoChoice
<1>3. phase[a] = "made" /\ a \notin armed /\ choice[c].option \in Option
  BY <1>1, InvParts DEF HeldIsMade
<1>4. CallsTyped'
  BY <1>1, <1>3, InvParts DEF CallsTyped, Settles, Answers
<1>5. /\ pending' \subseteq pending /\ a \notin pending'
      /\ \A b \in Approval : b # a => answer'[b] = answer[b]
  BY InvParts DEF Settles, CallsTyped
<1>6. SetsTyped'
  BY <1>3, <1>5, InvParts DEF SetsTyped, Made, Settles
<1>7. YetToTrack'
  BY <1>3, <1>5, InvParts DEF YetToTrack
<1>8. AnsweredIsSettled'
  BY <1>3, <1>5, SettledCarries
<1>9. HeldIsMade'
  BY <1>1, <1>2, <1>3, InvParts, HeldCarries DEF HeldIsMade
<1>10. AnsweredIsWithdrawn'
  <2>1. \A b \in Approval : Deleting(b) => Deleting(b)'
    BY <1>2 DEF Deleting
  <2>2. \A b \in Approval : b = a => Deleting(b)'
    BY <1>2 DEF Deleting
  <2>3. QED
    <3>1. \A b \in Approval : answer'[b] = answer[b] \/ Deleting(b)'
      BY <1>5, <2>2
    <3>2. \A b \in rows' : Deleting(b) => Deleting(b)'
      BY <2>1, InvParts DEF SetsTyped, Made
    <3>3. QED
      BY <3>1, <3>2, WithdrawnCarries
<1>11. QED
  BY <1>2, <1>4, <1>6, <1>7, <1>8, <1>9, <1>10, InvPartsNext

LEMMA StepChoiceEnds ==
  ASSUME ApprovalInv, NEW c \in Chooser, ChoiceEnds(c)
  PROVE  ApprovalInv'
<1> USE DEF ChoiceEnds, memoryVars
<1>1. choice[c] \in Run /\ choice[c].of \in Approval
  BY InvParts, RunOfChoice DEF Run
<1>2. /\ ChoicesTyped' /\ choice'[c] \notin Run
      /\ \A d \in Chooser : d # c => choice'[d] = choice[d]
  BY InvParts, EndChoice
<1>3. CallsTyped' /\ YetToTrack'
  BY InvParts DEF CallsTyped, YetToTrack
<1>4. SetsTyped'
  BY <1>1, InvParts DEF SetsTyped, Made, HeldIsMade
<1>5. HeldIsMade'
  BY <1>2, HeldCarries
<1>6. AnsweredIsSettled'
  BY SettledCarries
<1>7. AnsweredIsWithdrawn'
  <2>1. \A b \in rows' : Deleting(b) => Deleting(b)'
    BY <1>2 DEF Deleting
  <2>2. QED
    BY <2>1, WithdrawnCarries
<1>8. QED
  BY <1>2, <1>3, <1>4, <1>5, <1>6, <1>7, InvPartsNext

LEMMA StepChoiceFails ==
  ASSUME ApprovalInv, NEW c \in Chooser, ChoiceFails(c)
  PROVE  ApprovalInv'
<1> USE DEF ChoiceFails, memoryVars
<1>1. /\ ChoicesTyped' /\ choice'[c] \notin Run
      /\ \A d \in Chooser : d # c => choice'[d] = choice[d]
  BY InvParts, EndChoice
<1>2. AnsweredIsWithdrawn' /\ faults' \in 0 .. MaxFaults
  BY FaultVoids
<1>3. CallsTyped' /\ YetToTrack' /\ SetsTyped'
  BY <1>2, InvParts DEF CallsTyped, YetToTrack, SetsTyped, Made
<1>4. HeldIsMade'
  BY <1>1, HeldCarries
<1>5. AnsweredIsSettled'
  BY SettledCarries
<1>6. QED
  BY <1>1, <1>2, <1>3, <1>4, <1>5, InvPartsNext

-----------------------------------------------------------------------------
(* Time-outs, cancellations and stop *)

LEMMA StepTimerFires ==
  ASSUME ApprovalInv, NEW a \in Approval, TimerFires(a)
  PROVE  ApprovalInv'
<1> USE DEF TimerFires
<1>1. a \in pending /\ timeout[a] = "idle" /\ phase[a] = "made"
  BY InvParts DEF SetsTyped, YetToTrack
<1>2. CallsTyped' /\ ChoicesTyped' /\ YetToTrack'
  BY <1>1, InvParts DEF CallsTyped, ChoicesTyped, YetToTrack
<1>3. SetsTyped'
  BY InvParts DEF SetsTyped, Made, CallsTyped
<1>4. HeldIsMade'
  BY HeldStays
<1>5. AnsweredIsSettled'
  BY SettledCarries
<1>6. AnsweredIsWithdrawn'
  <2>1. \A b \in Approval : Deleting(b) => Deleting(b)'
    BY <1>1, InvParts DEF Deleting, CallsTyped
  <2>2. QED
    BY <2>1, InvParts, WithdrawnCarries DEF SetsTyped, Made
<1>7. QED
  BY <1>2, <1>3, <1>4, <1>5, <1>6, InvPartsNext

LEMMA StepTimeoutReads ==
  ASSUME ApprovalInv, NEW a \in Approval, TimeoutReads(a)
  PROVE  ApprovalInv'
<1> USE DEF TimeoutReads, memoryVars
<1>1. CallsTyped' /\ ChoicesTyped' /\ YetToTrack'
  BY InvParts DEF CallsTyped, ChoicesTyped, YetToTrack
<1>2. SetsTyped'
  BY InvParts DEF SetsTyped, Made, CallsTyped
<1>3. HeldIsMade'
  BY HeldStays
<1>4. AnsweredIsSettled'
  BY SettledCarries
<1>5. AnsweredIsWithdrawn'
  <2>1. \A b \in Approval : Deleting(b) => Deleting(b)'
    BY InvParts DEF Deleting, CallsTyped
  <2>2. QED
    BY <2>1, InvParts, WithdrawnCarries DEF SetsTyped, Made
<1>6. QED
  BY <1>1, <1>2, <1>3, <1>4, <1>5, InvPartsNext

LEMMA StepTimesOut ==
  ASSUME ApprovalInv, NEW a \in Approval, TimesOut(a)
  PROVE  ApprovalInv'
<1> USE DEF TimesOut, Settles
<1>1. timeout[a] # "idle" /\ a \notin armed /\ phase[a] = "made"
  BY InvParts DEF SetsTyped, YetToTrack
<1>2. CallsTyped' /\ ChoicesTyped'
  BY InvParts DEF CallsTyped, ChoicesTyped, Answers
<1>3. YetToTrack'
  BY <1>1, InvParts DEF YetToTrack, CallsTyped
<1>4. SetsTyped'
  BY <1>1, InvParts DEF SetsTyped, Made, CallsTyped
<1>5. HeldIsMade'
  BY HeldStays
<1>6. AnsweredIsSettled'
  BY <1>1, InvParts, SettledCarries DEF CallsTyped
<1>7. AnsweredIsWithdrawn'
  <2>1. \A b \in Approval : Deleting(b) => Deleting(b)'
    BY InvParts DEF Deleting, CallsTyped
  <2>2. \A b \in Approval : answer'[b] = answer[b] \/ Deleting(b)'
    BY InvParts DEF Deleting, CallsTyped
  <2>3. QED
    BY <2>1, <2>2, InvParts, WithdrawnCarries DEF SetsTyped, Made
<1>8. QED
  BY <1>2, <1>3, <1>4, <1>5, <1>6, <1>7, InvPartsNext

LEMMA StepTimeoutEnds ==
  ASSUME ApprovalInv, NEW a \in Approval, TimeoutEnds(a)
  PROVE  ApprovalInv'
<1> USE DEF TimeoutEnds, memoryVars
<1>1. CallsTyped' /\ ChoicesTyped' /\ YetToTrack'
  BY InvParts DEF CallsTyped, ChoicesTyped, YetToTrack
<1>2. SetsTyped'
  BY InvParts DEF SetsTyped, Made, CallsTyped
<1>3. HeldIsMade'
  BY HeldStays
<1>4. AnsweredIsSettled'
  BY SettledCarries
<1>5. AnsweredIsWithdrawn'
  <2>1. \A b \in rows' : Deleting(b) => Deleting(b)'
    BY InvParts DEF Deleting, CallsTyped, SetsTyped, Made
  <2>2. QED
    BY <2>1, WithdrawnCarries
<1>6. QED
  BY <1>1, <1>2, <1>3, <1>4, <1>5, InvPartsNext

LEMMA StepCancel ==
  ASSUME ApprovalInv, NEW a \in Approval, Cancel(a)
  PROVE  ApprovalInv'
<1> USE DEF Cancel, Settles
<1>1. CallsTyped' /\ ChoicesTyped'
  BY InvParts DEF CallsTyped, ChoicesTyped, Answers
<1>2. YetToTrack'
  BY InvParts DEF YetToTrack, CallsTyped
<1>3. SetsTyped'
  BY InvParts DEF SetsTyped, Made, CallsTyped
<1>4. HeldIsMade'
  BY HeldStays
<1>5. AnsweredIsSettled'
  BY InvParts, SettledCarries DEF CallsTyped
<1>6. AnsweredIsWithdrawn'
  <2>1. \A b \in Approval : Deleting(b) => Deleting(b)'
    BY InvParts DEF Deleting, CallsTyped
  <2>2. \A b \in Approval : answer'[b] = answer[b] \/ Deleting(b)'
    BY InvParts DEF Deleting, CallsTyped
  <2>3. QED
    BY <2>1, <2>2, InvParts, WithdrawnCarries DEF SetsTyped, Made
<1>7. QED
  BY <1>1, <1>2, <1>3, <1>4, <1>5, <1>6, InvPartsNext

LEMMA StepCancelEnds ==
  ASSUME ApprovalInv, NEW a \in Approval, CancelEnds(a)
  PROVE  ApprovalInv'
<1> USE DEF CancelEnds, memoryVars
<1>1. CallsTyped' /\ ChoicesTyped' /\ YetToTrack'
  BY InvParts DEF CallsTyped, ChoicesTyped, YetToTrack
<1>2. SetsTyped'
  BY InvParts DEF SetsTyped, Made, CallsTyped
<1>3. HeldIsMade'
  BY HeldStays
<1>4. AnsweredIsSettled'
  BY SettledCarries
<1>5. AnsweredIsWithdrawn'
  <2>1. \A b \in rows' : Deleting(b) => Deleting(b)'
    BY InvParts DEF Deleting, CallsTyped, SetsTyped, Made
  <2>2. QED
    BY <2>1, WithdrawnCarries
<1>6. QED
  BY <1>1, <1>2, <1>3, <1>4, <1>5, InvPartsNext

LEMMA StepStop ==
  ASSUME ApprovalInv, Stop
  PROVE  ApprovalInv'
<1> USE DEF Stop, callVars
<1>1. CallsTyped' /\ ChoicesTyped'
  BY InvParts DEF CallsTyped, ChoicesTyped, Answers
<1>2. YetToTrack'
  BY InvParts DEF YetToTrack
<1>3. SetsTyped'
  BY InvParts DEF SetsTyped, Made
<1>4. HeldIsMade'
  BY HeldStays
<1>5. AnsweredIsSettled'
  BY <1>3 DEF AnsweredIsSettled, SetsTyped
<1>6. AnsweredIsWithdrawn'
  BY InvParts, WithdrawnCarries DEF Deleting, SetsTyped, Made
<1>7. QED
  BY <1>1, <1>2, <1>3, <1>4, <1>5, <1>6, InvPartsNext

-----------------------------------------------------------------------------
(* Faults *)

LEMMA StepTimeoutFails ==
  ASSUME ApprovalInv, NEW a \in Approval, TimeoutFails(a)
  PROVE  ApprovalInv'
<1> USE DEF TimeoutFails, memoryVars
<1>1. AnsweredIsWithdrawn' /\ faults' \in 0 .. MaxFaults
  BY FaultVoids
<1>2. CallsTyped' /\ ChoicesTyped' /\ YetToTrack'
  BY <1>1, InvParts DEF CallsTyped, ChoicesTyped, YetToTrack
<1>3. SetsTyped'
  BY InvParts DEF SetsTyped, Made, CallsTyped
<1>4. HeldIsMade'
  BY HeldStays
<1>5. AnsweredIsSettled'
  BY SettledCarries
<1>6. QED
  BY <1>1, <1>2, <1>3, <1>4, <1>5, InvPartsNext

LEMMA StepCancelFails ==
  ASSUME ApprovalInv, NEW a \in Approval, CancelFails(a)
  PROVE  ApprovalInv'
<1> USE DEF CancelFails, memoryVars
<1>1. AnsweredIsWithdrawn' /\ faults' \in 0 .. MaxFaults
  BY FaultVoids
<1>2. CallsTyped' /\ ChoicesTyped' /\ YetToTrack'
  BY <1>1, InvParts DEF CallsTyped, ChoicesTyped, YetToTrack
<1>3. SetsTyped'
  BY InvParts DEF SetsTyped, Made, CallsTyped
<1>4. HeldIsMade'
  BY HeldStays
<1>5. AnsweredIsSettled'
  BY SettledCarries
<1>6. QED
  BY <1>1, <1>2, <1>3, <1>4, <1>5, InvPartsNext

LEMMA StepCrash ==
  ASSUME ApprovalInv, Crash
  PROVE  ApprovalInv'
<1> USE DEF Crash
<1>1. AnsweredIsWithdrawn' /\ faults' \in 0 .. MaxFaults
  BY FaultVoids
<1>2. CallsTyped' /\ ChoicesTyped'
  BY <1>1, InvParts DEF CallsTyped, ChoicesTyped, Answers
<1>3. \A a \in Approval : phase'[a] # "made" => phase[a] = "new"
  BY InvParts DEF CallsTyped
<1>4. YetToTrack'
  BY <1>3, InvParts DEF YetToTrack
<1>5. SetsTyped'
  BY <1>3, InvParts DEF SetsTyped, Made
<1>6. HeldIsMade'
  BY DEF HeldIsMade, NoChoice, Run
<1>7. AnsweredIsSettled'
  BY DEF AnsweredIsSettled
<1>8. QED
  BY <1>1, <1>2, <1>4, <1>5, <1>6, <1>7, InvPartsNext

LEMMA StepStutters ==
  ASSUME ApprovalInv, UNCHANGED approvalVars
  PROVE  ApprovalInv'
BY DEF ApprovalInv, approvalVars, memoryVars, callVars, ApprovalTypeOK,
       YetToTrack, HeldIsMade, AnsweredIsSettled, AnsweredIsWithdrawn, Deleting

-----------------------------------------------------------------------------
(* Theorems *)

LEMMA ApprovalInvariant == ApprovalSpec => []ApprovalInv
<1>1. ApprovalInv /\ [ApprovalNext]_approvalVars => ApprovalInv'
  <2> SUFFICES ASSUME ApprovalInv, [ApprovalNext]_approvalVars
               PROVE  ApprovalInv'
    OBVIOUS
  <2>1. ASSUME NEW a \in Approval,
               \/ Create(a) \/ Track(a) \/ TimeoutStep(a) \/ TimeoutFails(a)
               \/ Cancel(a) \/ CancelEnds(a) \/ CancelFails(a)
        PROVE  ApprovalInv'
    BY <2>1, StepCreate, StepTrack, StepTimerFires, StepTimeoutReads,
       StepTimesOut, StepTimeoutEnds, StepTimeoutFails, StepCancel,
       StepCancelEnds, StepCancelFails DEF TimeoutStep
  <2>2. ASSUME NEW c \in Chooser, Choose(c) \/ ChoiceStep(c) \/ ChoiceFails(c)
        PROVE  ApprovalInv'
    BY <2>2, StepChoose, StepAborts, StepCheck, StepSelect, StepReadTask,
       StepSelected, StepChoiceEnds, StepChoiceFails DEF ChoiceStep
  <2>3. QED
    BY <2>1, <2>2, StepStop, StepCrash, StepStutters DEF ApprovalNext
<1>2. QED
  BY <1>1, InvInit, PTL DEF ApprovalSpec

\* Entries, timers, rows and calls of the approval service keep their types, and
\* a timer always has the entry it will answer.
THEOREM ApprovalsAreTyped == ApprovalSpec => []ApprovalTypeOK
BY ApprovalInvariant, PTL DEF ApprovalInv

\* However choices, time-outs, cancellations, stop, faults and crashes meet, an
\* answered request keeps neither its entry nor its timer.
THEOREM AnswersSettle == ApprovalSpec => []AnsweredIsSettled
BY ApprovalInvariant, PTL DEF ApprovalInv

\* Short of faults, the row of a request answered by a choice, a time-out or a
\* cancellation is gone, or the call that answered it has yet to delete it.
THEOREM AnswersWithdraw == ApprovalSpec => []AnsweredIsWithdrawn
BY ApprovalInvariant, PTL DEF ApprovalInv
-----------------------------------------------------------------------------
(* Somebody answers *)

\* What TimedIsAnswered allows a request to end in.  Nothing takes it back.
Excused(a) == answer[a] # "none" \/ a \in dropped \/ faults > 0

\* A run that took the entry of a and has yet to call onSelect.
InHand(c, a) == /\ choice[c] \in Run /\ choice[c].pc \in {"reading", "selecting"}
                /\ choice[c].of = a /\ choice[c].held

\* Who will answer a: its timer, its time-out, or a choice.
InCharge(a) ==
  \/ a \in armed \/ timeout[a] \in {"reading", "calling"}
  \/ \E c \in Chooser : InHand(c, a)

\* A row is taken away only from a request that is answered, or counts as
\* dropped; so the calls that are about to delete one know.
RowsStand ==
  /\ \A a \in Approval : phase[a] # "new" /\ a \notin rows => Excused(a)
  /\ \A a \in Approval : timeout[a] = "deleting" => Excused(a)
  /\ \A a \in Approval : cancel[a] = "deleting" => Excused(a)
  /\ \A c \in Chooser :
       choice[c] \in Run /\ choice[c].pc = "deleting" /\ choice[c].held
         => Excused(choice[c].of)

SomebodyAnswers ==
  \A a \in Timed :
    phase[a] = "made" => Excused(a) \/ (a \in pending /\ InCharge(a))

LEMMA FaultsExcuse ==
  ASSUME ApprovalInv, NEW kind, Faulty(kind)
  PROVE  \A a : Excused(a)'
BY DEF Faulty, Excused, ApprovalInv, ApprovalTypeOK

LEMMA ExcusesStay ==
  ASSUME ApprovalInv, [ApprovalNext]_approvalVars, NEW a \in Approval, Excused(a)
  PROVE  Excused(a)'
<1> USE DEF Excused, memoryVars, callVars
<1>a. ASSUME NEW kind, Faulty(kind)
      PROVE  Excused(a)'
  BY <1>a, FaultsExcuse
<1>b. ASSUME NEW b, NEW result \in Answers \ {"none"}, Settles(b, result),
             dropped' = dropped, faults' = faults
      PROVE  Excused(a)'
  BY <1>b, InvParts DEF Settles, CallsTyped
<1>1. ASSUME NEW b \in Approval, TimesOut(b)
      PROVE  Excused(a)'
  BY <1>1, <1>b DEF TimesOut, Answers
<1>2. ASSUME NEW b \in Approval, Cancel(b)
      PROVE  Excused(a)'
  BY <1>2, <1>b DEF Cancel, Answers
<1>3. ASSUME NEW c \in Chooser, Selected(c)
      PROVE  Excused(a)'
  <2>1. choice[c] \in Run /\ choice[c].option \in Option
    BY <1>3, InvParts, RunOfChoice DEF Selected, HeldIsMade
  <2>2. choice[c].option \in Answers \ {"none"}
    BY <2>1, ApprovalConstants DEF Answers
  <2>3. QED
    BY <1>3, <1>b, <2>2 DEF Selected
<1>4. CASE Stop
  BY <1>4, InvParts DEF Stop, CallsTyped
<1>5. ASSUME NEW b \in Approval,
             \/ Create(b) \/ Track(b) \/ TimerFires(b) \/ TimeoutReads(b)
             \/ TimeoutEnds(b) \/ CancelEnds(b)
      PROVE  Excused(a)'
  BY <1>5 DEF Create, Track, TimerFires, TimeoutReads, TimeoutEnds, CancelEnds
<1>6. ASSUME NEW c \in Chooser,
             \/ Choose(c) \/ Aborts(c) \/ Check(c) \/ Select(c) \/ ReadTask(c)
             \/ ChoiceEnds(c)
      PROVE  Excused(a)'
  BY <1>6 DEF Choose, Aborts, Check, Select, ReadTask, ChoiceEnds
<1>7. CASE \/ Crash
           \/ \E b \in Approval : TimeoutFails(b) \/ CancelFails(b)
           \/ \E c \in Chooser : ChoiceFails(c)
  BY <1>7, <1>a DEF Crash, TimeoutFails, CancelFails, ChoiceFails
<1>8. CASE UNCHANGED approvalVars
  BY <1>8 DEF approvalVars
<1>9. QED
  BY <1>1, <1>2, <1>3, <1>4, <1>5, <1>6, <1>7, <1>8
     DEF ApprovalNext, TimeoutStep, ChoiceStep

\* Faults excuse everything, so that a step need only be followed without.
LEMMA FaultsStand ==
  ASSUME ApprovalInv, NEW kind, Faulty(kind)
  PROVE  RowsStand' /\ SomebodyAnswers'
BY FaultsExcuse DEF RowsStand, SomebodyAnswers

\* Other runs go on as they were.
LEMMA HandsStay ==
  ASSUME NEW c \in Chooser, NEW a,
         \A d \in Chooser : d # c => choice'[d] = choice[d],
         InHand(c, a) => InHand(c, a)'
  PROVE  (\E d \in Chooser : InHand(d, a)) => (\E d \in Chooser : InHand(d, a)')
BY DEF InHand

LEMMA RowsStandStep ==
  ASSUME ApprovalInv, RowsStand, [ApprovalNext]_approvalVars
  PROVE  RowsStand'
<1> USE DEF memoryVars, callVars
<1>0. \A a \in Approval : Excused(a) => Excused(a)'
  BY ExcusesStay
<1>t. /\ phase \in [Approval -> {"new", "created", "made"}]
      /\ answer \in [Approval -> Answers]
      /\ timeout \in [Approval -> {"idle", "reading", "calling", "deleting",
                                   "done"}]
      /\ cancel \in [Approval -> {"idle", "deleting", "done"}]
  BY InvParts DEF CallsTyped
<1>u. ASSUME NEW c \in Chooser, choice[c] \in Run
      PROVE  choice[c].of \in Approval /\ phase[choice[c].of] # "new"
  BY <1>u, InvParts DEF HeldIsMade, Run
\* Steps that delete no row and begin no deletion.
<1>a. ASSUME rows \subseteq rows',
             \A a \in Approval : phase'[a] = phase[a] \/ a \in rows',
             \A a \in Approval : timeout'[a] = "deleting" =>
               timeout[a] = "deleting" \/ Excused(a)',
             \A a \in Approval : cancel'[a] = "deleting" =>
               cancel[a] = "deleting" \/ Excused(a)',
             choice' = choice
      PROVE  RowsStand'
  BY <1>0, <1>a, <1>u DEF RowsStand
\* Steps of a choice, whose deletion is excused.
<1>b. ASSUME NEW c \in Chooser, phase' = phase, timeout' = timeout,
             cancel' = cancel,
             \A a \in Approval : a \in rows \ rows' => Excused(a)',
             \A d \in Chooser : d # c => choice'[d] = choice[d],
             \A a \in Approval :
               /\ choice'[c] \in Run /\ choice'[c].pc = "deleting"
               /\ choice'[c].held /\ choice'[c].of = a
               => Excused(a)'
      PROVE  RowsStand'
  <2>1. \A d \in Chooser :
          choice'[d] \in Run /\ choice'[d].pc = "deleting" /\ choice'[d].held
            => Excused(choice[d].of)'
    <3> SUFFICES ASSUME NEW d \in Chooser, choice'[d] \in Run,
                        choice'[d].pc = "deleting", choice'[d].held,
                        NEW a \in Approval, choice'[d].of = a
                 PROVE  Excused(a)'
      BY DEF Run, Excused
    <3>1. CASE d = c
      BY <1>b, <3>1
    <3>2. CASE d # c
      BY <1>0, <1>b, <3>2 DEF RowsStand
    <3>3. QED
      BY <3>1, <3>2
  <2>2. QED
    BY <1>0, <1>b, <2>1 DEF RowsStand
\* Deletions by a time-out or a cancellation.
<1>c. ASSUME NEW a \in Approval, Excused(a), rows' = rows \ {a},
             phase' = phase, choice' = choice,
             \A b \in Approval : timeout'[b] = "deleting" => timeout[b] = "deleting",
             \A b \in Approval : cancel'[b] = "deleting" => cancel[b] = "deleting"
      PROVE  RowsStand'
  BY <1>0, <1>c, <1>u DEF RowsStand
<1>1. ASSUME NEW a \in Approval, Create(a) \/ Track(a)
      PROVE  RowsStand'
  <2>1. CASE Create(a)
    BY <1>a, <1>t, <2>1 DEF Create
  <2>2. CASE Track(a)
    <3>1. rows' = rows /\ timeout' = timeout /\ cancel' = cancel /\ choice' = choice
          /\ \A b \in Approval : phase'[b] # "new" => phase[b] # "new"
      BY <1>t, <2>2 DEF Track
    <3>2. QED
      BY <1>0, <1>u, <3>1 DEF RowsStand
  <2>3. QED
    BY <1>1, <2>1, <2>2
<1>2. ASSUME NEW a \in Approval, TimerFires(a) \/ TimeoutReads(a)
      PROVE  RowsStand'
  BY <1>2, <1>a, <1>t DEF TimerFires, TimeoutReads
<1>3. ASSUME NEW a \in Approval, TimesOut(a)
      PROVE  RowsStand'
  <2>1. Excused(a)'
    BY <1>3, <1>t DEF TimesOut, Settles, Excused
  <2>2. \A b \in Approval : timeout'[b] = "deleting" => timeout[b] = "deleting" \/ b = a
    BY <1>3, <1>t DEF TimesOut
  <2>3. QED
    BY <1>3, <1>a, <2>1, <2>2 DEF TimesOut
<1>4. ASSUME NEW a \in Approval, TimeoutEnds(a) \/ CancelEnds(a)
      PROVE  RowsStand'
  <2>1. Excused(a)
    BY <1>4 DEF TimeoutEnds, CancelEnds, RowsStand
  <2>2. QED
    BY <1>4, <1>c, <1>t, <2>1 DEF TimeoutEnds, CancelEnds
<1>5. ASSUME NEW a \in Approval, Cancel(a)
      PROVE  RowsStand'
  <2>1. Excused(a)'
    BY <1>5, <1>t DEF Cancel, Settles, Excused
  <2>2. \A b \in Approval : cancel'[b] = "deleting" => cancel[b] = "deleting" \/ b = a
    BY <1>5, <1>t DEF Cancel
  <2>3. QED
    BY <1>5, <1>a, <2>1, <2>2 DEF Cancel
<1>6. ASSUME NEW c \in Chooser, Choose(c)
      PROVE  RowsStand'
  <2>1. /\ \A d \in Chooser : d # c => choice'[d] = choice[d]
        /\ choice'[c].pc = "chosen"
    BY <1>6, InvParts DEF Choose, ChoicesTyped
  <2>2. QED
    BY <1>6, <1>b, <2>1 DEF Choose
<1>7. ASSUME NEW c \in Chooser, Aborts(c)
      PROVE  RowsStand'
  <2>1. /\ choice'[c] \notin Run
        /\ \A d \in Chooser : d # c => choice'[d] = choice[d]
    BY <1>7, InvParts, EndChoice DEF Aborts
  <2>2. \A a \in Approval : a \in rows \ rows' => Excused(a)'
    BY <1>7 DEF Aborts, Excused
  <2>3. QED
    BY <1>7, <1>b, <2>1, <2>2 DEF Aborts
<1>8. ASSUME NEW c \in Chooser, Check(c)
      PROVE  RowsStand'
  <2>1. choice[c] \in Run
    BY <1>8, InvParts, RunOfChoice DEF Check
  <2>2. /\ choice'[c] \in Run => choice'[c].pc = "allowed"
        /\ \A d \in Chooser : d # c => choice'[d] = choice[d]
    BY <1>8, <2>1, InvParts, GotoChoice, EndChoice DEF Check
  <2>3. QED
    BY <1>8, <1>b, <2>2 DEF Check
<1>9. ASSUME NEW c \in Chooser, Select(c)
      PROVE  RowsStand'
  <2>1. /\ choice'[c].pc = "reading"
        /\ \A d \in Chooser : d # c => choice'[d] = choice[d]
    BY <1>9, InvParts DEF Select, ChoicesTyped
  <2>2. QED
    BY <1>9, <1>b, <2>1 DEF Select
<1>10. ASSUME NEW c \in Chooser, ReadTask(c)
       PROVE  RowsStand'
  <2> DEFINE pc == IF choice[c].of \in rows /\ choice[c].held THEN "selecting"
                                                              ELSE "deleting"
  <2>1. choice[c] \in Run
    BY <1>10, InvParts, RunOfChoice DEF ReadTask
  <2>2. /\ choice'[c].pc = pc
        /\ choice'[c].of = choice[c].of /\ choice'[c].held = choice[c].held
        /\ \A d \in Chooser : d # c => choice'[d] = choice[d]
    BY <1>10, <2>1, InvParts, GotoChoice DEF ReadTask
  <2>3. \A a \in Approval :
          pc = "deleting" /\ choice[c].held /\ choice[c].of = a => Excused(a)
    BY <1>u, <2>1 DEF RowsStand
  <2> HIDE DEF pc
  <2>4. \A a \in Approval :
          choice'[c].pc = "deleting" /\ choice'[c].held /\ choice'[c].of = a
            => Excused(a)'
    BY <1>0, <2>2, <2>3
  <2>5. QED
    BY <1>10, <1>b, <2>2, <2>4 DEF ReadTask
<1>11. ASSUME NEW c \in Chooser, Selected(c)
       PROVE  RowsStand'
  <2>1. choice[c] \in Run
    BY <1>11, InvParts, RunOfChoice DEF Selected
  <2>2. /\ choice'[c].of = choice[c].of
        /\ \A d \in Chooser : d # c => choice'[d] = choice[d]
    BY <1>11, <2>1, InvParts, GotoChoice DEF Selected
  <2>3. choice[c].option \in Option /\ choice[c].option # "none"
    BY <1>11, <2>1, InvParts, ApprovalConstants DEF Selected, HeldIsMade
  <2>4. \A a \in Approval : choice[c].of = a => Excused(a)'
    BY <1>11, <1>t, <2>3 DEF Selected, Settles, Excused
  <2>5. QED
    BY <1>11, <1>b, <2>2, <2>4 DEF Selected
<1>12. ASSUME NEW c \in Chooser, ChoiceEnds(c)
       PROVE  RowsStand'
  <2>1. choice[c] \in Run
    BY <1>12, InvParts, RunOfChoice DEF ChoiceEnds
  <2>2. /\ choice'[c] \notin Run
        /\ \A d \in Chooser : d # c => choice'[d] = choice[d]
    BY <1>12, InvParts, EndChoice DEF ChoiceEnds
  <2>3. ASSUME NEW a \in Approval, choice[c].of = a
        PROVE  Excused(a)'
    <3>1. CASE choice[c].held
      BY <1>0, <1>12, <2>1, <2>3, <3>1 DEF ChoiceEnds, RowsStand
    <3>2. CASE ~choice[c].held
      BY <1>12, <2>3, <3>2 DEF ChoiceEnds, Excused
    <3>3. QED
      BY <3>1, <3>2
  <2>4. QED
    BY <1>12, <1>b, <2>2, <2>3 DEF ChoiceEnds
<1>13. CASE Stop
  BY <1>13, <1>a DEF Stop
<1>14. CASE \/ Crash
            \/ \E b \in Approval : TimeoutFails(b) \/ CancelFails(b)
            \/ \E c \in Chooser : ChoiceFails(c)
  BY <1>14, FaultsStand DEF Crash, TimeoutFails, CancelFails, ChoiceFails
<1>15. CASE UNCHANGED approvalVars
  BY <1>15, <1>a DEF approvalVars
<1>16. QED
  BY <1>1, <1>2, <1>3, <1>4, <1>5, <1>6, <1>7, <1>8, <1>9, <1>10, <1>11,
     <1>12, <1>13, <1>14, <1>15 DEF ApprovalNext, TimeoutStep, ChoiceStep

LEMMA AnswerStep ==
  ASSUME ApprovalInv, RowsStand, SomebodyAnswers, [ApprovalNext]_approvalVars
  PROVE  SomebodyAnswers'
<1> USE DEF memoryVars, callVars
<1> SUFFICES ASSUME NEW a \in Timed, phase'[a] = "made", ~Excused(a)'
             PROVE  (a \in pending /\ InCharge(a))'
  BY DEF SomebodyAnswers
<1>0. a \in Approval /\ a \in Tracked /\ ~Excused(a)
  BY ApprovalConstants, ExcusesStay
<1>t. /\ phase \in [Approval -> {"new", "created", "made"}]
      /\ answer \in [Approval -> Answers]
      /\ timeout \in [Approval -> {"idle", "reading", "calling", "deleting",
                                   "done"}]
  BY InvParts DEF CallsTyped
<1>n. answer'[a] = "none" /\ a \notin dropped'
  BY DEF Excused
<1>m. phase[a] = "made" => a \in pending /\ InCharge(a)
  BY <1>0 DEF SomebodyAnswers
\* Steps that leave the entry, the timer and the time-out of a.
<1>a. ASSUME phase'[a] = phase[a], a \in pending => a \in pending',
             a \in armed => a \in armed', timeout'[a] = timeout[a],
             (\E c \in Chooser : InHand(c, a)) => (\E c \in Chooser : InHand(c, a)')
      PROVE  (a \in pending /\ InCharge(a))'
  BY <1>a, <1>m DEF InCharge
<1>b. ASSUME choice' = choice
      PROVE  (\E c \in Chooser : InHand(c, a)) => (\E c \in Chooser : InHand(c, a)')
  BY <1>b DEF InHand
<1>1. ASSUME NEW b \in Approval, Create(b)
      PROVE  (a \in pending /\ InCharge(a))'
  <2>1. b # a
    BY <1>0, <1>1, <1>t DEF Create
  <2>2. QED
    BY <1>0, <1>1, <1>a, <1>b, <1>t, <2>1 DEF Create
<1>2. ASSUME NEW b \in Approval, Track(b)
      PROVE  (a \in pending /\ InCharge(a))'
  <2>1. CASE b = a
    BY <1>0, <1>2, <2>1 DEF Track, InCharge
  <2>2. CASE b # a
    BY <1>0, <1>2, <1>a, <1>b, <1>t, <2>2 DEF Track
  <2>3. QED
    BY <2>1, <2>2
<1>3. ASSUME NEW b \in Approval, TimerFires(b)
      PROVE  (a \in pending /\ InCharge(a))'
  <2>1. CASE b = a
    <3>1. a \in pending /\ timeout'[a] = "reading"
      BY <1>0, <1>3, <1>t, <2>1, InvParts DEF TimerFires, SetsTyped
    <3>2. QED
      BY <1>3, <3>1 DEF TimerFires, InCharge
  <2>2. CASE b # a
    BY <1>0, <1>3, <1>a, <1>b, <1>t, <2>2 DEF TimerFires
  <2>3. QED
    BY <2>1, <2>2
<1>4. ASSUME NEW b \in Approval, TimeoutReads(b)
      PROVE  (a \in pending /\ InCharge(a))'
  <2>1. CASE b = a
    <3>1. timeout'[a] = "calling" /\ phase[a] = "made"
      BY <1>0, <1>4, <1>t, <2>1 DEF TimeoutReads
    <3>2. QED
      BY <1>4, <1>m, <3>1 DEF TimeoutReads, InCharge
  <2>2. CASE b # a
    BY <1>0, <1>4, <1>a, <1>b, <1>t, <2>2 DEF TimeoutReads
  <2>3. QED
    BY <2>1, <2>2
<1>5. ASSUME NEW b \in Approval, TimesOut(b)
      PROVE  (a \in pending /\ InCharge(a))'
  <2>1. b # a
    BY <1>0, <1>5, <1>n, <1>t DEF TimesOut, Settles
  <2>2. QED
    BY <1>0, <1>5, <1>a, <1>b, <1>t, <2>1 DEF TimesOut, Settles
<1>6. ASSUME NEW b \in Approval, TimeoutEnds(b)
      PROVE  (a \in pending /\ InCharge(a))'
  <2>1. b # a
    BY <1>0, <1>6 DEF TimeoutEnds, RowsStand
  <2>2. QED
    BY <1>0, <1>6, <1>a, <1>b, <1>t, <2>1 DEF TimeoutEnds
<1>7. ASSUME NEW b \in Approval, Cancel(b)
      PROVE  (a \in pending /\ InCharge(a))'
  <2>1. b # a
    BY <1>0, <1>7, <1>n, <1>t DEF Cancel, Settles
  <2>2. QED
    BY <1>0, <1>7, <1>a, <1>b, <1>t, <2>1 DEF Cancel, Settles
<1>8. ASSUME NEW b \in Approval, CancelEnds(b)
      PROVE  (a \in pending /\ InCharge(a))'
  BY <1>8, <1>a, <1>b DEF CancelEnds
\* A choice takes the timer with the entry, and keeps both until onSelect.
<1>9. ASSUME NEW c \in Chooser, Choose(c)
      PROVE  (a \in pending /\ InCharge(a))'
  <2>1. \A d \in Chooser : d # c => choice'[d] = choice[d]
    BY <1>9, InvParts DEF Choose, ChoicesTyped
  <2>2. ~InHand(c, a)
    BY <1>9 DEF Choose, InHand, NoChoice, Run
  <2>3. (\E d \in Chooser : InHand(d, a)) => (\E d \in Chooser : InHand(d, a)')
    BY <2>1, <2>2, HandsStay
  <2>4. QED
    BY <1>9, <1>a, <2>3 DEF Choose
<1>10. ASSUME NEW c \in Chooser, Aborts(c) \/ Check(c) \/ ChoiceEnds(c)
       PROVE  (a \in pending /\ InCharge(a))'
  <2>1. choice[c] \in Run /\ ~InHand(c, a)
    BY <1>10, InvParts, RunOfChoice DEF Aborts, Check, ChoiceEnds, InHand
  <2>2. \A d \in Chooser : d # c => choice'[d] = choice[d]
    BY <1>10, <2>1, InvParts, GotoChoice, EndChoice DEF Aborts, Check, ChoiceEnds
  <2>3. (\E d \in Chooser : InHand(d, a)) => (\E d \in Chooser : InHand(d, a)')
    BY <2>1, <2>2, HandsStay
  <2>4. QED
    BY <1>10, <1>a, <2>3 DEF Aborts, Check, ChoiceEnds
<1>11. ASSUME NEW c \in Chooser, Select(c)
       PROVE  (a \in pending /\ InCharge(a))'
  <2>1. choice[c] \in Run /\ choice[c].pc = "allowed"
    BY <1>11, InvParts, RunOfChoice DEF Select
  <2>2. /\ choice'[c] = [pc |-> "reading", of |-> choice[c].of,
                         option |-> choice[c].option,
                         held |-> choice[c].of \in pending]
        /\ \A d \in Chooser : d # c => choice'[d] = choice[d]
    BY <1>11, InvParts DEF Select, ChoicesTyped
  <2>3. a \in pending /\ phase' = phase /\ pending' = pending
        /\ timeout' = timeout /\ armed' = armed \ ({choice[c].of} \cap pending)
    BY <1>11, <1>m DEF Select
  <2>4. CASE choice[c].of = a
    <3>1. /\ choice'[c].pc = "reading" /\ choice'[c].of = a
          /\ choice'[c].option = choice[c].option
          /\ choice'[c].held = (choice[c].of \in pending)
      BY <2>2, <2>4
    <3>2. choice'[c] \in Run
      BY <2>1, <2>2 DEF Run
    <3>3. InHand(c, a)'
      BY <2>3, <2>4, <3>1, <3>2 DEF InHand
    <3>4. QED
      BY <2>3, <3>3 DEF InCharge
  <2>5. CASE choice[c].of # a
    <3>1. ~InHand(c, a)
      BY <2>1 DEF InHand
    <3>2. (\E d \in Chooser : InHand(d, a)) => (\E d \in Chooser : InHand(d, a)')
      BY <2>2, <3>1, HandsStay
    <3>3. QED
      BY <1>a, <2>3, <2>5, <3>2
  <2>6. QED
    BY <2>4, <2>5
<1>12. ASSUME NEW c \in Chooser, ReadTask(c)
       PROVE  (a \in pending /\ InCharge(a))'
  <2>1. choice[c] \in Run
    BY <1>12, InvParts, RunOfChoice DEF ReadTask
  <2>2. \A d \in Chooser : d # c => choice'[d] = choice[d]
    BY <1>12, <2>1, InvParts, GotoChoice DEF ReadTask
  <2>3. InHand(c, a) => InHand(c, a)'
    <3> SUFFICES ASSUME InHand(c, a) PROVE InHand(c, a)'
      OBVIOUS
    <3>1. choice[c].of = a /\ choice[c].held /\ a \in rows
      BY <1>0, InvParts DEF InHand, HeldIsMade, RowsStand
    <3>2. Goto(c, "selecting")
      BY <1>12, <3>1 DEF ReadTask
    <3>3. /\ choice'[c] \in Run /\ choice'[c].pc = "selecting"
          /\ choice'[c].of = a /\ choice'[c].held
      BY <2>1, <3>1, <3>2, InvParts, GotoChoice
    <3>4. QED
      BY <3>3 DEF InHand
  <2>4. (\E d \in Chooser : InHand(d, a)) => (\E d \in Chooser : InHand(d, a)')
    BY <2>2, <2>3, HandsStay
  <2>5. QED
    BY <1>12, <1>a, <2>4 DEF ReadTask
<1>13. ASSUME NEW c \in Chooser, Selected(c)
       PROVE  (a \in pending /\ InCharge(a))'
  <2>1. choice[c] \in Run
    BY <1>13, InvParts, RunOfChoice DEF Selected
  <2>2. \A d \in Chooser : d # c => choice'[d] = choice[d]
    BY <1>13, <2>1, InvParts, GotoChoice DEF Selected
  <2>3. choice[c].option # "none"
    BY <1>13, <2>1, InvParts, ApprovalConstants DEF Selected, HeldIsMade
  <2>4. choice[c].of # a
    BY <1>0, <1>13, <1>n, <1>t, <2>3 DEF Selected, Settles
  <2>5. (\E d \in Chooser : InHand(d, a)) => (\E d \in Chooser : InHand(d, a)')
    BY <2>2, <2>4, HandsStay DEF InHand
  <2>6. QED
    BY <1>13, <1>a, <2>4, <2>5 DEF Selected, Settles
<1>14. CASE Stop
  <2>1. phase[a] = "made" /\ a \notin pending
    BY <1>0, <1>14, <1>n DEF Stop
  <2>2. QED
    BY <1>m, <2>1
<1>15. CASE \/ Crash
            \/ \E b \in Approval : TimeoutFails(b) \/ CancelFails(b)
            \/ \E c \in Chooser : ChoiceFails(c)
  BY <1>15, FaultsExcuse DEF Crash, TimeoutFails, CancelFails, ChoiceFails
<1>16. CASE UNCHANGED approvalVars
  BY <1>16, <1>a, <1>b DEF approvalVars
<1>17. QED
  BY <1>1, <1>2, <1>3, <1>4, <1>5, <1>6, <1>7, <1>8, <1>9, <1>10, <1>11,
     <1>12, <1>13, <1>14, <1>15, <1>16 DEF ApprovalNext, TimeoutStep, ChoiceStep

\* A request with a timeoutMs that is not answered yet keeps its entry and
\* somebody in charge of it: its timer, its time-out, or a choice that took
\* them; unless its row was deleted under it or there was a fault.  However
\* choices, time-outs, cancellations and stop meet, they never leave it to
\* nobody, so that fairness is all TimedIsAnswered needs besides.
THEOREM ApprovalsAreInCharge == ApprovalSpec => []SomebodyAnswers
<1>1. ApprovalInit => RowsStand /\ SomebodyAnswers
  <2> SUFFICES ASSUME ApprovalInit PROVE RowsStand /\ SomebodyAnswers
    OBVIOUS
  <2>1. \A c \in Chooser : choice[c] \notin Run
    BY DEF ApprovalInit, NoChoice, Run
  <2>2. \A a \in Timed : phase[a] # "made"
    BY ApprovalConstants DEF ApprovalInit
  <2>3. QED
    BY <2>1, <2>2 DEF ApprovalInit, RowsStand, SomebodyAnswers
<1>2. ApprovalInv /\ RowsStand /\ SomebodyAnswers /\ [ApprovalNext]_approvalVars
        => RowsStand' /\ SomebodyAnswers'
  BY RowsStandStep, AnswerStep
<1>3. QED
  BY <1>1, <1>2, ApprovalInvariant, PTL DEF ApprovalSpec
=============================================================================
