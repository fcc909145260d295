---------------------------- MODULE SchedulerMC ----------------------------
(* An instance of Scheduler: the boot threads of two cpus. *)
EXTENDS Scheduler, TLC

CONSTANTS b0, b1
MCBootThread == (0 :> b0) @@ (1 :> b1)
=============================================================================
