------------------------------ MODULE WorkPool ------------------------------
(***************************************************************************)
(* What a queue of work promises for each item, whatever its batches,      *)
(* priorities, permits and timers: an accepted item is tried a bounded     *)
(* number of times, in one of a bounded number of places, until it has     *)
(* succeeded or is given up; only an item that was never tried can be      *)
(* discarded, and a fate is final.  A crash loses whatever has no fate.    *)
(***************************************************************************)
EXTENDS Naturals, FiniteSets

CONSTANTS
  Item,        \* pieces of work
  Places,      \* how many may be worked on at once
  MaxAttempts  \* how often each item may be tried

VARIABLES
  life,   \* what has become of each item
  tries,  \* how often it has been tried
  busy    \* the items being worked on

poolVars == <<life, tries, busy>>

Accept(i) ==
  /\ life[i] = "outside"
  /\ \E answer \in {"accepted", "refused"} : life' = [life EXCEPT ![i] = answer]
  /\ UNCHANGED <<tries, busy>>

\* Any number of items at once.
Discard ==
  /\ \E gone \in SUBSET {i \in Item : life[i] = "accepted" /\ tries[i] = 0} :
       life' = [i \in Item |-> IF i \in gone THEN "discarded" ELSE life[i]]
  /\ UNCHANGED <<tries, busy>>

Try(i) ==
  /\ life[i] = "accepted" /\ i \notin busy
  /\ tries[i] < MaxAttempts[i] /\ Cardinality(busy) < Places
  /\ tries' = [tries EXCEPT ![i] = @ + 1]
  /\ busy' = busy \cup {i}
  /\ UNCHANGED life

Return(i) ==
  /\ i \in busy
  /\ busy' = busy \ {i}
  /\ \E fate \in {"accepted", "succeeded"} : life' = [life EXCEPT ![i] = fate]
  /\ UNCHANGED tries

GiveUp(i) ==
  /\ life[i] = "accepted" /\ i \notin busy /\ tries[i] > 0
  /\ life' = [life EXCEPT ![i] = "given up"]
  /\ UNCHANGED <<tries, busy>>

Lose ==
  /\ life' = [i \in Item |-> IF life[i] = "accepted" THEN "lost" ELSE life[i]]
  /\ busy' = {}
  /\ UNCHANGED tries

PoolInit ==
  /\ life = [i \in Item |-> "outside"]
  /\ tries = [i \in Item |-> 0]
  /\ busy = {}

PoolNext ==
  \/ Discard \/ Lose
  \/ \E i \in Item : Accept(i) \/ Try(i) \/ Return(i) \/ GiveUp(i)

PoolSpec == PoolInit /\ [][PoolNext]_poolVars
=============================================================================
