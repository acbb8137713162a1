---------------------------- MODULE MCTaskDaemon ----------------------------
(***************************************************************************)
(* Two agents, the first of which is restarted, and two ticks that overlap.*)
(***************************************************************************)
EXTENDS TaskDaemon

CONSTANTS ann, bob, ann1, ann2, bob1, k1, k2, t1, t2

MCAgentOf == [s \in Service |-> IF s = bob1 THEN bob ELSE ann]
MCOwner == [t \in Task |-> IF t = t2 THEN bob ELSE ann]
=============================================================================
