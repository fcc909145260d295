------------------------------ MODULE Hangman ------------------------------
(***************************************************************************)
(* The deadlock detector of kern/thread/hangman.c, as spinlock_acquire and *)
(* spinlock_release of kern/thread/spinlock.c drive it.  The actors are    *)
(* cpus and the lockables spinlocks.  lock_acquire and lock_release of     *)
(* synch.c drive it in the same order, with threads for actors, and make   *)
(* fewer steps of it.                                                      *)
(*                                                                         *)
(* What the detector knows lags behind who has the lock words: the word is *)
(* taken before hangman_acquire, and given back after hangman_release.     *)
(* A section under hangman_lock is one step; hangman_check, which is a     *)
(* loop, is one step a turn, and the lock is held while a cpu is in it.    *)
(***************************************************************************)
EXTENDS Integers, FiniteSets

CONSTANTS
  Actor,     (* struct hangman_actor: the cpus                             *)
  Lockable,  (* struct hangman_lockable: the spinlocks                     *)
  NULL

ASSUME HangmanAssumption ==
  NULL \notin Actor \cup Lockable /\ IsFiniteSet(Actor)

VARIABLES
  splk_lock,  (* who set each lock word; NULL if it is 0                   *)
  l_holding,  (* the holder of each lockable, to the detector              *)
  a_waiting,  (* what each actor waits for, to the detector                *)
  want,       (* the lock an actor acquires or releases                    *)
  cur,        (* the local variable of hangman_check                       *)
  pc          (* what each actor does                                      *)

vars == <<splk_lock, l_holding, a_waiting, want, cur, pc>>

(* "wait": about to call hangman_wait.  "check": in hangman_check.         *)
(* "spin": waits for the lock word.  "got": has set it, and calls          *)
(* hangman_acquire.  "unlock": has called hangman_release.  "deadlock" and *)
(* "confused": in panic, for a cycle or for anything else.                 *)
Place == {"run", "wait", "check", "spin", "got", "unlock",
          "deadlock", "confused"}

Init ==
  /\ splk_lock = [l \in Lockable |-> NULL]
  /\ l_holding = [l \in Lockable |-> NULL]
  /\ a_waiting = [a \in Actor |-> NULL]
  /\ want = [a \in Actor |-> NULL]
  /\ cur = [a \in Actor |-> NULL]
  /\ pc = [a \in Actor |-> "run"]

At(a, p) == pc[a] = p
Goto(a, p) == pc' = [pc EXCEPT ![a] = p]
HangmanLockFree == \A a \in Actor : ~At(a, "check")

(* Panic, and leave the detector as it is. *)
Panic(a, why) ==
  /\ Goto(a, why)
  /\ cur' = [cur EXCEPT ![a] = NULL]
  /\ UNCHANGED <<splk_lock, l_holding, a_waiting, want>>

-----------------------------------------------------------------------------
(* spinlock_acquire.                                                       *)

spinlock_acquire(a, l) ==
  /\ At(a, "run")
  /\ want' = [want EXCEPT ![a] = l]
  /\ Goto(a, IF splk_lock[l] = a THEN "deadlock" ELSE "wait")
  /\ UNCHANGED <<splk_lock, l_holding, a_waiting, cur>>

hangman_wait(a) ==
  /\ At(a, "wait") /\ HangmanLockFree
  /\ IF a_waiting[a] # NULL THEN Panic(a, "confused")
     ELSE /\ cur' = [cur EXCEPT ![a] = l_holding[want[a]]]
          /\ Goto(a, "check")
          /\ UNCHANGED <<splk_lock, l_holding, a_waiting, want>>

(* Mutant of NextActor: the search looks at the lock's holder only. *)
NextActorNone(b) == NULL

(* The next actor of the path; NULL at its end. *)
NextActor(b) ==
  IF a_waiting[b] = NULL THEN NULL ELSE l_holding[a_waiting[b]]

CheckTurn(a) ==
  /\ At(a, "check") /\ cur[a] \notin {NULL, a}
  /\ cur' = [cur EXCEPT ![a] = NextActor(cur[a])]
  /\ UNCHANGED <<splk_lock, l_holding, a_waiting, want, pc>>

CheckFound(a) == At(a, "check") /\ cur[a] = a /\ Panic(a, "deadlock")

CheckPassed(a) ==
  /\ At(a, "check") /\ cur[a] = NULL
  /\ a_waiting' = [a_waiting EXCEPT ![a] = want[a]]
  /\ Goto(a, "spin")
  /\ UNCHANGED <<splk_lock, l_holding, want, cur>>

TestAndSet(a) ==
  /\ At(a, "spin") /\ splk_lock[want[a]] = NULL
  /\ splk_lock' = [splk_lock EXCEPT ![want[a]] = a]
  /\ Goto(a, "got")
  /\ UNCHANGED <<l_holding, a_waiting, want, cur>>

(* Mutant of Acquired: the actor goes on waiting for what it holds. *)
AcquiredWaiting(a) ==
  l_holding' = [l_holding EXCEPT ![want[a]] = a] /\ UNCHANGED a_waiting

Acquired(a) ==
  /\ l_holding' = [l_holding EXCEPT ![want[a]] = a]
  /\ a_waiting' = [a_waiting EXCEPT ![a] = NULL]

hangman_acquire(a) ==
  /\ At(a, "got") /\ HangmanLockFree
  /\ IF a_waiting[a] # want[a] \/ l_holding[want[a]] # NULL
     THEN Panic(a, "confused")
     ELSE /\ Acquired(a)
          /\ want' = [want EXCEPT ![a] = NULL]
          /\ Goto(a, "run")
          /\ UNCHANGED <<splk_lock, cur>>

-----------------------------------------------------------------------------
(* spinlock_release, which its caller may use on locks it holds.           *)

hangman_release(a, l) ==
  /\ At(a, "run") /\ splk_lock[l] = a /\ HangmanLockFree
  /\ IF a_waiting[a] # NULL \/ l_holding[l] # a THEN Panic(a, "confused")
     ELSE /\ l_holding' = [l_holding EXCEPT ![l] = NULL]
          /\ want' = [want EXCEPT ![a] = l]
          /\ Goto(a, "unlock")
          /\ UNCHANGED <<splk_lock, a_waiting, cur>>

ClearLock(a) ==
  /\ At(a, "unlock")
  /\ splk_lock' = [splk_lock EXCEPT ![want[a]] = NULL]
  /\ want' = [want EXCEPT ![a] = NULL]
  /\ Goto(a, "run")
  /\ UNCHANGED <<l_holding, a_waiting, cur>>

-----------------------------------------------------------------------------
Request(a) ==
  \E l \in Lockable : spinlock_acquire(a, l) \/ hangman_release(a, l)

CarryOn(a) ==
  \/ CheckTurn(a) \/ CheckFound(a) \/ CheckPassed(a)
  \/ TestAndSet(a) \/ ClearLock(a)

Locking(a) == hangman_wait(a) \/ hangman_acquire(a)

Next == \E a \in Actor : Request(a) \/ CarryOn(a) \/ Locking(a)

(* A cpu goes on executing, and gets hangman_lock if it is released again  *)
(* and again.  Nothing says that a lock is ever released.                  *)
Fairness == \A a \in Actor : WF_vars(CarryOn(a)) /\ SF_vars(Locking(a))

Spec == Init /\ [][Next]_vars /\ Fairness

-----------------------------------------------------------------------------
(* Properties.                                                             *)

(* Who has the lock word a is waiting for, or is about to wait for. *)
Blocker(a) ==
  IF pc[a] \in {"wait", "check", "spin", "deadlock"} THEN splk_lock[want[a]]
  ELSE NULL

(* In a cycle of actors that wait for each other's locks, by "blocker":    *)
(* the sequence of actors from a comes back to a.                          *)
OnCycle(a, blocker(_)) ==
  \E n \in 1..Cardinality(Actor) : \E p \in [0..n -> Actor] :
    /\ p[0] = a /\ p[n] = a
    /\ \A i \in 0..(n - 1) : blocker(p[i]) = p[i + 1]

(* The detector's own picture of the same, with the wait it is told of. *)
Recorded(a) ==
  LET l == IF pc[a] = "deadlock" THEN want[a] ELSE a_waiting[a]
  IN IF l = NULL THEN NULL ELSE l_holding[l]

(* The detector panics only in a deadlock, which can never resolve itself, *)
(* and while it prints the cycle, without hangman_lock, the pointers it    *)
(* follows do lead back to where it began.  No actor that uses its locks   *)
(* correctly makes it panic for anything else.  The detector's records lag *)
(* behind the lock words, so that an actor may be recorded as waiting for  *)
(* a lock it has, and a lock's holder may not be recorded.                 *)
NoFalseAlarm == \A a \in Actor :
  /\ pc[a] # "confused"
  /\ pc[a] = "deadlock" => OnCycle(a, Blocker) /\ OnCycle(a, Recorded)

(* Every cycle of actors that wait for each other is reported, although    *)
(* each looks once, before it begins to wait, and some of the locks change *)
(* hands meanwhile; so every search ends.                                  *)
DeadlocksReported ==
  (\E a \in Actor : OnCycle(a, Blocker)) ~> \E a \in Actor : At(a, "deadlock")
=============================================================================
