--------------------------- MODULE MCBilledRequest ---------------------------
(***************************************************************************)
(* Instances of BilledRequest: requests of a caller and of the agent that  *)
(* share the operator's account, and a caller with an account of its own.  *)
(***************************************************************************)
EXTENDS BilledRequest

CONSTANTS w1, w2, c1, r1, r2, r3

MCOperator == <<w1, c1>>
=============================================================================
