------------------------------ MODULE SynchMC ------------------------------
(* A small instance of Synch: four threads, so that two can be woken while *)
(* one still sleeps and one comes anew, and a semaphore that counts to     *)
(* three.                                                                  *)
EXTENDS Synch

CONSTANTS t1, t2, t3, t4

FourThreads == {t1, t2, t3, t4}
=============================================================================
