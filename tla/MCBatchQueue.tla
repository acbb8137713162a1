---------------------------- MODULE MCBatchQueue ----------------------------
(***************************************************************************)
(* An instance of BatchQueue: items of two priorities, a batch larger than *)
(* the semaphore.                                                          *)
(***************************************************************************)
EXTENDS BatchQueue

CONSTANTS urgent, chore, errand, tick, manual

MCPriority == [i \in Item |-> IF i = urgent THEN Urgent ELSE 1]

\* errand sets its own _batchMaxAttempts.
MCMaxAttempts == [i \in Item |-> IF i = errand THEN 1 ELSE 2]
=============================================================================
