------------------------------ MODULE Monitor ------------------------------
(***************************************************************************)
(* What kern/thread/synch.c promises its users: a counting semaphore, a    *)
(* lock and a condition variable in the manner of Mesa.  wait gives the    *)
(* lock up and joins the waiters in one step, so that no signal falls in   *)
(* between; a signal takes one waiter away, if there is one, and a         *)
(* broadcast all of them; a waiter that was taken away still has to get    *)
(* the lock.  Synch.tla, written from the code, implements it.             *)
(***************************************************************************)
EXTENDS Integers

CONSTANTS Thread, NoThread

VARIABLES
  value,    (* of the semaphore                                            *)
  owner,    (* of the lock, or NoThread                                    *)
  waiting   (* the threads that wait and have not been signalled           *)

mvars == <<value, owner, waiting>>

MonitorInit == value \in Nat /\ owner = NoThread /\ waiting = {}

Down == value > 0 /\ value' = value - 1 /\ UNCHANGED <<owner, waiting>>

Up == value' = value + 1 /\ UNCHANGED <<owner, waiting>>

Enter(t) ==
  /\ owner = NoThread /\ t \notin waiting
  /\ owner' = t
  /\ UNCHANGED <<value, waiting>>

Leave(t) == owner = t /\ owner' = NoThread /\ UNCHANGED <<value, waiting>>

Wait(t) ==
  /\ owner = t
  /\ owner' = NoThread
  /\ waiting' = waiting \cup {t}
  /\ UNCHANGED value

Signal(t) ==
  /\ t \in waiting
  /\ waiting' = waiting \ {t}
  /\ UNCHANGED <<value, owner>>

Broadcast == waiting' = {} /\ UNCHANGED <<value, owner>>

MonitorNext ==
  \/ Down \/ Up \/ Broadcast
  \/ \E t \in Thread : Enter(t) \/ Leave(t) \/ Wait(t) \/ Signal(t)

MonitorSpec == MonitorInit /\ [][MonitorNext]_mvars
=============================================================================
