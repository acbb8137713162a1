---------------------------- MODULE MCTaskService ----------------------------
(***************************************************************************)
(* Instances of TaskService: a task that runs once and a blocking task     *)
(* that repeats, and two calls that overlap: of a host in a serverless     *)
(* runtime, of the local timer and a host in any other.                    *)
(***************************************************************************)
EXTENDS TaskService

CONSTANTS once, chore, tick, cron
=============================================================================
