--------------------------- MODULE MCConsumeWorker ---------------------------
(***************************************************************************)
(* Instances of ConsumeWorker.  The .cfg files choose the flushers, the    *)
(* faults and the number of requests.                                      *)
(***************************************************************************)
EXTENDS ConsumeWorker

CONSTANTS w1, c1, c2, tick, handler, r1, r2, r3

MCOneUnit == {1}
MCCleanFaults == {"send_error"}
MCAllFaults == {"send_error", "receipt_timeout", "abort", "crash"}
=============================================================================
