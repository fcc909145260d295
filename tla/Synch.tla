------------------------------- MODULE Synch -------------------------------
(***************************************************************************)
(* The blocking primitives of kern/thread/synch.c over the wait channels   *)
(* of kern/thread/thread.c: one semaphore, and one lock with a condition   *)
(* variable, used by threads on any number of cpus.                        *)
(*                                                                         *)
(* A section that holds one spinlock is one step: interrupts are off and   *)
(* every other access to what it guards takes the same spinlock.  Only     *)
(* cv_wait enters a second spinlock (the lock's, in lock_release) while it *)
(* holds the first, so only cv_wchanlock is a variable.  wchan_sleep puts  *)
(* the thread on its channel's list before the spinlock is released; when  *)
(* it is woken it takes the spinlock again, as late as the scheduler likes.*)
(***************************************************************************)
EXTENDS Integers, Sequences, FiniteSets

CONSTANTS
  Thread,        (* the threads                                            *)
  NoThread,      (* NULL                                                   *)
  InitialCount,  (* what sem_create was called with                        *)
  SEM_MAX        (* a bound on sem_count                                   *)

ASSUME SynchAssumption ==
  /\ NoThread \notin Thread /\ IsFiniteSet(Thread)
  /\ InitialCount \in Nat /\ SEM_MAX \in Nat /\ InitialCount <= SEM_MAX

VARIABLES
  sem_count,     (* the semaphore's count                                  *)
  lk_holder,     (* the lock's holder                                      *)
  cv_wchanlock,  (* the thread that holds the condition variable's spinlock*)
  wc_threads,    (* the list of each wait channel                          *)
  t_state,       (* S_SLEEP, or S_RUN, which here includes S_READY         *)
  pc             (* which call a thread is in: see Call                    *)

vars == <<sem_count, lk_holder, cv_wchanlock, wc_threads, t_state, pc>>

Channel == {"sem_wchan", "lk_wchan", "cv_wchan"}

(* "none": outside the calls, with or without the lock.  "cv_release":     *)
(* in cv_wait, after lock_release.  The others: in the function of that    *)
(* name, asleep on its channel or about to look again.                     *)
Call == {"none", "P", "lock_acquire", "cv_release", "cv_wait"}

Init ==
  /\ sem_count = InitialCount
  /\ lk_holder = NoThread
  /\ cv_wchanlock = NoThread
  /\ wc_threads = [c \in Channel |-> <<>>]
  /\ t_state = [t \in Thread |-> "S_RUN"]
  /\ pc = [t \in Thread |-> "none"]

-----------------------------------------------------------------------------
(* Wait channels.                                                          *)

wchan_sleep(t, c) ==
  /\ wc_threads' = [wc_threads EXCEPT ![c] = Append(@, t)]
  /\ t_state' = [t_state EXCEPT ![t] = "S_SLEEP"]

(* Mutant of wchan_wakeone: the thread it wakes stays on the list. *)
wchan_wakeoneUnlisted(c) ==
  IF wc_threads[c] = <<>>
  THEN UNCHANGED <<wc_threads, t_state>>
  ELSE /\ t_state' = [t_state EXCEPT ![Head(wc_threads[c])] = "S_RUN"]
       /\ UNCHANGED wc_threads

wchan_wakeone(c) ==
  IF wc_threads[c] = <<>>
  THEN UNCHANGED <<wc_threads, t_state>>
  ELSE /\ wc_threads' = [wc_threads EXCEPT ![c] = Tail(@)]
       /\ t_state' = [t_state EXCEPT ![Head(wc_threads[c])] = "S_RUN"]

wchan_wakeall(c) ==
  /\ wc_threads' = [wc_threads EXCEPT ![c] = <<>>]
  /\ t_state' = [t \in Thread |->
       IF \E i \in DOMAIN wc_threads[c] : wc_threads[c][i] = t THEN "S_RUN"
       ELSE t_state[t]]

(* A thread that can begin a call, or look again after a sleep in it. *)
In(t, calls) == t_state[t] = "S_RUN" /\ pc[t] \in calls

-----------------------------------------------------------------------------
(* Semaphores.                                                             *)

(* Mutant of P: "if" for "while", so a woken thread does not look again. *)
PIf(t) ==
  /\ In(t, {"none", "P"})
  /\ \/ /\ sem_count = 0 /\ pc[t] = "none"
        /\ wchan_sleep(t, "sem_wchan")
        /\ pc' = [pc EXCEPT ![t] = "P"]
        /\ UNCHANGED sem_count
     \/ /\ sem_count > 0 \/ pc[t] = "P"
        /\ sem_count' = sem_count - 1
        /\ pc' = [pc EXCEPT ![t] = "none"]
        /\ UNCHANGED <<wc_threads, t_state>>
  /\ UNCHANGED <<lk_holder, cv_wchanlock>>

P(t) ==
  /\ In(t, {"none", "P"})
  /\ \/ /\ sem_count = 0
        /\ wchan_sleep(t, "sem_wchan")
        /\ pc' = [pc EXCEPT ![t] = "P"]
        /\ UNCHANGED sem_count
     \/ /\ sem_count > 0
        /\ sem_count' = sem_count - 1
        /\ pc' = [pc EXCEPT ![t] = "none"]
        /\ UNCHANGED <<wc_threads, t_state>>
  /\ UNCHANGED <<lk_holder, cv_wchanlock>>

(* Mutants of V: it wakes somebody only if the count was zero, or never. *)
VIfZero ==
  /\ sem_count < SEM_MAX
  /\ sem_count' = sem_count + 1
  /\ IF sem_count = 0 THEN wchan_wakeone("sem_wchan")
     ELSE UNCHANGED <<wc_threads, t_state>>
  /\ UNCHANGED <<lk_holder, cv_wchanlock, pc>>
VSilent ==
  /\ sem_count < SEM_MAX
  /\ sem_count' = sem_count + 1
  /\ UNCHANGED <<lk_holder, cv_wchanlock, wc_threads, t_state, pc>>

(* V does not block, and interrupt handlers call it too. *)
V ==
  /\ sem_count < SEM_MAX
  /\ sem_count' = sem_count + 1
  /\ wchan_wakeone("sem_wchan")
  /\ UNCHANGED <<lk_holder, cv_wchanlock, pc>>

-----------------------------------------------------------------------------
(* Locks.                                                                  *)

(* Mutant of lock_acquire: "if" for "while", as above. *)
lock_acquireIf(t) ==
  /\ In(t, {"none", "lock_acquire"})
  /\ lk_holder # t
  /\ \/ /\ lk_holder # NoThread /\ pc[t] = "none"
        /\ wchan_sleep(t, "lk_wchan")
        /\ pc' = [pc EXCEPT ![t] = "lock_acquire"]
        /\ UNCHANGED lk_holder
     \/ /\ lk_holder = NoThread \/ pc[t] = "lock_acquire"
        /\ lk_holder' = t
        /\ pc' = [pc EXCEPT ![t] = "none"]
        /\ UNCHANGED <<wc_threads, t_state>>
  /\ UNCHANGED <<sem_count, cv_wchanlock>>

(* Nobody acquires a lock he holds: lock_acquire asserts it. *)
lock_acquire(t) ==
  /\ In(t, {"none", "lock_acquire"})
  /\ lk_holder # t
  /\ \/ /\ lk_holder # NoThread
        /\ wchan_sleep(t, "lk_wchan")
        /\ pc' = [pc EXCEPT ![t] = "lock_acquire"]
        /\ UNCHANGED lk_holder
     \/ /\ lk_holder = NoThread
        /\ lk_holder' = t
        /\ pc' = [pc EXCEPT ![t] = "none"]
        /\ UNCHANGED <<wc_threads, t_state>>
  /\ UNCHANGED <<sem_count, cv_wchanlock>>

(* Mutant of lock_release: nobody is woken. *)
lock_releaseSilent(t) ==
  /\ In(t, {"none"}) /\ lk_holder = t
  /\ lk_holder' = NoThread
  /\ UNCHANGED <<sem_count, cv_wchanlock, wc_threads, t_state, pc>>

lock_release(t) ==
  /\ In(t, {"none"}) /\ lk_holder = t
  /\ lk_holder' = NoThread
  /\ wchan_wakeone("lk_wchan")
  /\ UNCHANGED <<sem_count, cv_wchanlock, pc>>

-----------------------------------------------------------------------------
(* Condition variables.                                                    *)

(* Mutants of cv_wait: it gives the lock up before it has the spinlock, or *)
(* wakes nobody who waits for the lock.                                    *)
cv_waitUnguarded(t) ==
  /\ In(t, {"none"}) /\ lk_holder = t
  /\ lk_holder' = NoThread
  /\ wchan_wakeone("lk_wchan")
  /\ pc' = [pc EXCEPT ![t] = "cv_release"]
  /\ UNCHANGED <<sem_count, cv_wchanlock>>
cv_waitSilent(t) ==
  /\ In(t, {"none"}) /\ lk_holder = t
  /\ cv_wchanlock = NoThread
  /\ cv_wchanlock' = t
  /\ lk_holder' = NoThread
  /\ pc' = [pc EXCEPT ![t] = "cv_release"]
  /\ UNCHANGED <<sem_count, wc_threads, t_state>>

(* cv_wait: the spinlock is taken first, and kept while the lock is given  *)
(* up ...                                                                  *)
cv_wait(t) ==
  /\ In(t, {"none"}) /\ lk_holder = t
  /\ cv_wchanlock = NoThread
  /\ cv_wchanlock' = t
  /\ lk_holder' = NoThread
  /\ wchan_wakeone("lk_wchan")
  /\ pc' = [pc EXCEPT ![t] = "cv_release"]
  /\ UNCHANGED sem_count

(* ... until the thread is on the list. *)
cv_sleep(t) ==
  /\ In(t, {"cv_release"})
  /\ wchan_sleep(t, "cv_wchan")
  /\ cv_wchanlock' = NoThread
  /\ pc' = [pc EXCEPT ![t] = "cv_wait"]
  /\ UNCHANGED <<sem_count, lk_holder>>

(* Woken, it takes the spinlock, gives it up, and calls lock_acquire. *)
cv_wakeup(t) ==
  /\ In(t, {"cv_wait"})
  /\ cv_wchanlock = NoThread
  /\ pc' = [pc EXCEPT ![t] = "lock_acquire"]
  /\ UNCHANGED <<sem_count, lk_holder, cv_wchanlock, wc_threads, t_state>>

(* The caller ought to hold the lock; synch.c does not check it. *)
cv_signal ==
  /\ cv_wchanlock = NoThread
  /\ wchan_wakeone("cv_wchan")
  /\ UNCHANGED <<sem_count, lk_holder, cv_wchanlock, pc>>

cv_broadcast ==
  /\ cv_wchanlock = NoThread
  /\ wchan_wakeall("cv_wchan")
  /\ UNCHANGED <<sem_count, lk_holder, cv_wchanlock, pc>>

-----------------------------------------------------------------------------
Next ==
  \/ V \/ cv_signal \/ cv_broadcast
  \/ \E t \in Thread :
       \/ P(t)
       \/ lock_acquire(t) \/ lock_release(t)
       \/ cv_wait(t) \/ cv_sleep(t) \/ cv_wakeup(t)

Spec == Init /\ [][Next]_vars

(* A thread that has begun a call goes on with it when it can: the         *)
(* scheduler runs every thread that is ready.  A spinlock is not fair, and *)
(* nothing here asks that cv_wakeup ever gets it.                          *)
GoOn(t) == pc[t] # "none" /\ (P(t) \/ lock_acquire(t) \/ cv_sleep(t))

FairSpec == Spec /\ \A t \in Thread : WF_vars(GoOn(t))

-----------------------------------------------------------------------------
(* Types. *)
TypeOK ==
  /\ sem_count \in 0..SEM_MAX
  /\ lk_holder \in Thread \cup {NoThread}
  /\ cv_wchanlock \in Thread \cup {NoThread}
  /\ wc_threads \in [Channel -> Seq(Thread)]
  /\ t_state \in [Thread -> {"S_RUN", "S_SLEEP"}]
  /\ pc \in [Thread -> Call]

OnList(t, c) == \E i \in DOMAIN wc_threads[c] : wc_threads[c][i] = t

ChannelOf(call) ==
  CASE call = "P" -> {"sem_wchan"}
    [] call = "lock_acquire" -> {"lk_wchan"}
    [] call = "cv_wait" -> {"cv_wchan"}
    [] OTHER -> {}

(* A thread is on the list of the channel it sleeps on and on no other,    *)
(* once, and one that is runnable is on none: no wakeup reaches a thread   *)
(* that does not sleep, and no sleeper is out of every waker's reach.      *)
SleepersListed ==
  /\ \A t \in Thread, c \in Channel :
       OnList(t, c) <=> t_state[t] = "S_SLEEP" /\ c \in ChannelOf(pc[t])
  /\ \A t \in Thread : t_state[t] = "S_SLEEP" => ChannelOf(pc[t]) # {}
  /\ \A c \in Channel : \A i, j \in DOMAIN wc_threads[c] :
       wc_threads[c][i] = wc_threads[c][j] => i = j

(* The threads V has woken that have not looked at the count again. *)
WokenInP == {t \in Thread : In(t, {"P"})}

(* While a thread sleeps in P, every unit of the count is spoken for by a  *)
(* thread that has been woken and has not looked yet: newcomers that take  *)
(* the units of the threads V woke never leave one lying and a sleeper.    *)
UnitsSpokenFor ==
  wc_threads["sem_wchan"] # <<>> => sem_count <= Cardinality(WokenInP)

(* While a thread sleeps in lock_acquire, the lock is held or some thread  *)
(* is on its way to take it.                                               *)
FreeLockSpokenFor ==
  wc_threads["lk_wchan"] # <<>> =>
    lk_holder # NoThread \/ \E t \in Thread : In(t, {"lock_acquire"})

(* cv_wait is atomic to cv_signal and cv_broadcast: a thread that has      *)
(* given the lock up and is not on the list yet holds the spinlock they    *)
(* need; and the holder of the lock is never one that waits.               *)
NoUnlistedWaiter ==
  /\ \A t \in Thread : pc[t] = "cv_release" <=> cv_wchanlock = t
  /\ lk_holder # NoThread => pc[lk_holder] \in {"none", "P"}

(* A lock somebody waits for and nobody holds is taken. *)
FreeLockTaken ==
  (lk_holder = NoThread /\ wc_threads["lk_wchan"] # <<>>) ~> lk_holder # NoThread

(* P and V leave no thread asleep while the count stays positive. *)
UnitsTaken ==
  (sem_count > 0 /\ wc_threads["sem_wchan"] # <<>>)
    ~> (sem_count = 0 \/ wc_threads["sem_wchan"] = <<>>)

-----------------------------------------------------------------------------
Waiting == {t \in Thread : \/ pc[t] = "cv_release"
                           \/ pc[t] = "cv_wait" /\ t_state[t] = "S_SLEEP"}

Mon == INSTANCE Monitor WITH
  value <- sem_count, owner <- lk_holder, waiting <- Waiting

(* The primitives implement Monitor: mutual exclusion, a semaphore that    *)
(* never goes below zero, and a wait, signal and broadcast that are atomic *)
(* although cv_wait gives the lock up before it sleeps.                    *)
ImplementsMonitor == Mon!MonitorSpec
=============================================================================
