---------------------------- MODULE MCApprovals ----------------------------
(***************************************************************************)
(* Bounds for checking Approvals: a request with a timer, chosen for by up *)
(* to three people.                                                        *)
(***************************************************************************)
EXTENDS Approvals

CONSTANTS deal, ann, bob, cleo, yes
=============================================================================
