----------------------------- MODULE Scheduler -----------------------------
(***************************************************************************)
(* Threads and cpus of kern/thread/thread.c: thread_fork, thread_switch,   *)
(* thread_exit, exorcise, wait channels, the clock interrupt with          *)
(* thread_consider_migration, and the interrupt that unidles a cpu.        *)
(*                                                                         *)
(* A section that holds one run-queue lock is one step, but thread_switch  *)
(* holds its own cpu's lock from placing the old thread to choosing the    *)
(* next, over several: it puts a thread that sleeps on the wait channel    *)
(* and releases the channel's lock (then pc = "sleep"), sets its t_state   *)
(* (pc = "switch"), and chooses.  A waker holds the channel's lock until   *)
(* the last thread it took off the channel is runnable.  Interrupts are    *)
(* off in the scheduler and in interrupt handlers; they come while a       *)
(* thread runs, in thread_fork too, or in cpu_idle.                        *)
(***************************************************************************)
EXTENDS Integers, Sequences, FiniteSets

CONSTANTS
  NCPU,      (* the number of cpus                                         *)
  Thread,    (* the addresses of struct threads                            *)
  BootThread (* the thread each cpu boots with                             *)

Cpu == 0..(NCPU - 1)

ASSUME SchedulerAssumption ==
  /\ NCPU \in Nat \ {0} /\ IsFiniteSet(Thread)
  /\ BootThread \in [Cpu -> Thread]
  /\ \A c, d \in Cpu : BootThread[c] = BootThread[d] => c = d

VARIABLES
  c_runqueue,  (* each cpu's run queue                                     *)
  c_isidle,    (* true from placing the old thread to choosing the next    *)
  c_curthread, (* the thread on whose stack each cpu is                    *)
  c_zombies,   (* each cpu's exited threads, not yet destroyed             *)
  ipi,         (* each cpu's interprocessor interrupt line                 *)
  t_state,     (* S_RUN, S_READY, S_SLEEP, S_ZOMBIE, or S_NONE: no thread  *)
  t_cpu,       (* the cpu each thread belongs to                           *)
  newthread,   (* the thread that each thread is creating in thread_fork   *)
  wc_threads,  (* the list of one wait channel                             *)
  waking,      (* the threads a cpu took off the channel to wake           *)
  pc,          (* what each cpu does: see Place                            *)
  migration    (* the local variables of thread_consider_migration         *)

vars == <<c_runqueue, c_isidle, c_curthread, c_zombies, ipi, t_state, t_cpu,
          newthread, wc_threads, waking, pc, migration>>
threads == <<c_runqueue, t_state, t_cpu, newthread>>
channel == <<wc_threads, waking>>

(* "run": in a thread, interrupts on.  "sleep": in thread_switch, the run  *)
(* queue locked, the thread on the channel.  "switch": there, its t_state  *)
(* set.  "exorcise": in its end, unlocked.  "idle": in cpu_idle.           *)
(* "awake": back from an interrupt, in cpu_idle or in a thread.  "wake":   *)
(* in wchan_wakeone or wchan_wakeall.  "ipi": in interprocessor_interrupt. *)
(* "count", "send": in thread_consider_migration.  "yield": at the end of  *)
(* hardclock.  "look": in cpu_idle, about to return.                       *)
Place == {"run", "sleep", "switch", "exorcise", "idle", "awake", "wake", "ipi",
          "count", "send", "yield", "look"}

NoMigration ==
  [i |-> 0, my |-> 0, total |-> 0, share |-> 0, to_send |-> 0,
   victims |-> <<>>]

Init ==
  /\ c_runqueue = [c \in Cpu |-> <<>>]
  /\ c_isidle = [c \in Cpu |-> FALSE]
  /\ c_curthread = BootThread
  /\ c_zombies = [c \in Cpu |-> <<>>]
  /\ ipi = [c \in Cpu |-> FALSE]
  /\ t_state = [t \in Thread |->
       IF \E c \in Cpu : BootThread[c] = t THEN "S_RUN" ELSE "S_NONE"]
  /\ t_cpu \in {f \in [Thread -> Cpu] :
       \A t \in Thread : \/ BootThread[f[t]] = t
                         \/ f[t] = 0 /\ \A c \in Cpu : BootThread[c] # t}
  /\ newthread = [t \in Thread |-> {}]
  /\ wc_threads = <<>>
  /\ waking = [c \in Cpu |-> <<>>]
  /\ pc = [c \in Cpu |-> "run"]
  /\ migration = [c \in Cpu |-> NoMigration]

At(c, p) == pc[c] = p
Goto(c, p) == pc' = [pc EXCEPT ![c] = p]

(* The locks, by who is in the sections that hold them across steps. *)

(* Mutant of RunQueueFree: thread_switch releases the run queue together   *)
(* with the channel and locks it again to choose the next thread.          *)
RunQueueFreeEarly(c) == ~At(c, "switch")

RunQueueFree(c) == ~At(c, "switch") /\ ~At(c, "sleep")

ChannelFree == \A c \in Cpu : waking[c] = <<>>

(* Interrupts are on.  While a cpu is idle they come only in cpu_idle. *)
Interruptible(c) == At(c, "run") \/ At(c, "idle") \/ At(c, "awake")
Return(c) == Goto(c, IF c_isidle[c] THEN "awake" ELSE "run")

ipi_send(target) == ipi' = [ipi EXCEPT ![target] = TRUE]

-----------------------------------------------------------------------------
(* Making threads runnable.                                                *)

(* Mutant of Unidle: an idle cpu is left to find the thread by itself. *)
UnidleNot(c, target) == UNCHANGED ipi

Unidle(c, target) ==
  IF c_isidle[target] /\ target # c THEN ipi_send(target) ELSE UNCHANGED ipi

thread_make_runnable(c, t) ==
  LET target == t_cpu[t] IN
  /\ RunQueueFree(target)
  /\ t_state' = [t_state EXCEPT ![t] = "S_READY"]
  /\ c_runqueue' = [c_runqueue EXCEPT ![target] = Append(@, t)]
  /\ Unidle(c, target)

(* A thread in thread_fork does nothing else before it has finished, but   *)
(* its cpu takes interrupts, and it may be preempted and migrated.         *)
Forking(c) == newthread[c_curthread[c]] # {}

thread_fork(c, t) ==
  /\ At(c, "run") /\ ~Forking(c) /\ t_state[t] = "S_NONE"
  /\ t_state' = [t_state EXCEPT ![t] = "S_READY"]
  /\ t_cpu' = [t_cpu EXCEPT ![t] = c]
  /\ newthread' = [newthread EXCEPT ![c_curthread[c]] = {t}]
  /\ UNCHANGED <<c_runqueue, c_isidle, c_curthread, c_zombies, ipi, channel,
                 pc, migration>>

(* The end of thread_fork, perhaps on another cpu than its beginning. *)
ForkEnds(c, t) ==
  /\ At(c, "run") /\ t \in newthread[c_curthread[c]]
  /\ thread_make_runnable(c, t)
  /\ newthread' = [newthread EXCEPT ![c_curthread[c]] = @ \ {t}]
  /\ UNCHANGED <<c_isidle, c_curthread, c_zombies, t_cpu, channel, pc,
                 migration>>

(* A thread, or the handler of a device or of the one-second timer, has    *)
(* the channel's lock and takes n threads off the channel's list.          *)
Wakeup(c, n) ==
  /\ At(c, "run") \/ At(c, "idle")
  /\ ChannelFree
  /\ waking' = [waking EXCEPT ![c] = SubSeq(wc_threads, 1, n)]
  /\ wc_threads' = SubSeq(wc_threads, n + 1, Len(wc_threads))
  /\ IF n = 0 THEN Return(c) ELSE Goto(c, "wake")
  /\ UNCHANGED <<c_isidle, c_curthread, c_zombies, ipi, threads, migration>>

wchan_wakeone(c) == Wakeup(c, IF wc_threads = <<>> THEN 0 ELSE 1)
wchan_wakeall(c) == Wakeup(c, Len(wc_threads))

WakeNext(c) ==
  /\ At(c, "wake")
  /\ thread_make_runnable(c, Head(waking[c]))
  /\ waking' = [waking EXCEPT ![c] = Tail(@)]
  /\ IF Len(waking[c]) > 1 THEN UNCHANGED pc ELSE Return(c)
  /\ UNCHANGED <<c_isidle, c_curthread, c_zombies, t_cpu, newthread,
                 wc_threads, migration>>

-----------------------------------------------------------------------------
(* thread_switch.  The run queue stays locked from here to Choose.         *)

Leave(c, newstate) ==
  /\ t_state' = [t_state EXCEPT ![c_curthread[c]] = newstate]
  /\ c_isidle' = [c_isidle EXCEPT ![c] = TRUE]
  /\ Goto(c, "switch")
  /\ UNCHANGED <<c_curthread, ipi, t_cpu, newthread, waking, migration>>

wchan_sleep(c) ==
  /\ At(c, "run") /\ ~Forking(c) /\ ChannelFree
  /\ wc_threads' = Append(wc_threads, c_curthread[c])
  /\ Goto(c, "sleep")
  /\ UNCHANGED <<c_isidle, c_curthread, c_zombies, ipi, threads, waking,
                 migration>>

(* The channel is unlocked and the thread's t_state is still S_RUN. *)
FallAsleep(c) ==
  /\ At(c, "sleep")
  /\ Leave(c, "S_SLEEP")
  /\ UNCHANGED <<c_runqueue, c_zombies, wc_threads>>

thread_exit(c) ==
  /\ At(c, "run") /\ ~Forking(c)
  /\ c_zombies' = [c_zombies EXCEPT ![c] = Append(@, c_curthread[c])]
  /\ Leave(c, "S_ZOMBIE")
  /\ UNCHANGED <<c_runqueue, wc_threads>>

(* A thread yields, or the clock interrupt does so at its end. *)
thread_yield(c) ==
  /\ At(c, "run") \/ At(c, "yield")
  /\ ~c_isidle[c] /\ c_runqueue[c] # <<>>
  /\ c_runqueue' = [c_runqueue EXCEPT ![c] = Append(@, c_curthread[c])]
  /\ Leave(c, "S_READY")
  /\ UNCHANGED <<c_zombies, wc_threads>>

(* Nobody to yield to; or the clock interrupted cpu_idle. *)
YieldReturns(c) ==
  /\ At(c, "yield")
  /\ c_isidle[c] \/ c_runqueue[c] = <<>>
  /\ Goto(c, IF c_isidle[c] THEN "look" ELSE "run")
  /\ UNCHANGED <<c_isidle, c_curthread, c_zombies, ipi, threads, channel,
                 migration>>

(* In the loop around cpu_idle, the run queue locked or locked again. *)
Choosing(c) == At(c, "switch") \/ At(c, "look") \/ At(c, "awake")

Choose(c) ==
  /\ Choosing(c) /\ c_runqueue[c] # <<>>
  /\ c_curthread' = [c_curthread EXCEPT ![c] = Head(c_runqueue[c])]
  /\ t_state' = [t_state EXCEPT ![Head(c_runqueue[c])] = "S_RUN"]
  /\ c_runqueue' = [c_runqueue EXCEPT ![c] = Tail(@)]
  /\ c_isidle' = [c_isidle EXCEPT ![c] = FALSE]
  /\ Goto(c, "exorcise")
  /\ UNCHANGED <<c_zombies, ipi, t_cpu, newthread, channel, migration>>

cpu_idle(c) ==
  /\ Choosing(c) /\ c_runqueue[c] = <<>>
  /\ Goto(c, "idle")
  /\ UNCHANGED <<c_isidle, c_curthread, c_zombies, ipi, threads, channel,
                 migration>>

(* The end of thread_switch, or the beginning of a new thread. *)
exorcise(c) ==
  /\ At(c, "exorcise")
  /\ t_state' = [t \in Thread |->
       IF \E i \in DOMAIN c_zombies[c] : c_zombies[c][i] = t
       THEN "S_NONE" ELSE t_state[t]]
  /\ c_zombies' = [c_zombies EXCEPT ![c] = <<>>]
  /\ Goto(c, "run")
  /\ UNCHANGED <<c_isidle, c_curthread, c_runqueue, ipi, t_cpu, newthread,
                 channel, migration>>

-----------------------------------------------------------------------------
(* Interrupts.                                                             *)

(* The unidle interrupt does nothing but end cpu_idle; its line is lowered *)
(* after the handler returns, and one asserted in between is lost.         *)
interprocessor_interrupt(c) ==
  /\ Interruptible(c) /\ ipi[c]
  /\ Goto(c, "ipi")
  /\ UNCHANGED <<c_isidle, c_curthread, c_zombies, ipi, threads, channel,
                 migration>>

lamebus_clear_ipi(c) ==
  /\ At(c, "ipi")
  /\ ipi' = [ipi EXCEPT ![c] = FALSE]
  /\ Return(c)
  /\ UNCHANGED <<c_isidle, c_curthread, c_zombies, threads, channel,
                 migration>>

(* One clock interrupt in MIGRATE_HARDCLOCKS considers migration. *)
hardclock(c) ==
  /\ Interruptible(c)
  /\ Goto(c, "count") \/ Goto(c, "yield")
  /\ UNCHANGED <<c_isidle, c_curthread, c_zombies, ipi, threads, channel,
                 migration>>

-----------------------------------------------------------------------------
(* thread_consider_migration.                                              *)

CountQueue(c) ==
  LET m == migration[c] IN
  /\ At(c, "count") /\ m.i < NCPU /\ RunQueueFree(m.i)
  /\ migration' = [migration EXCEPT
       ![c].i = @ + 1,
       ![c].total = @ + Len(c_runqueue[m.i]),
       ![c].my = IF m.i = c THEN Len(c_runqueue[c]) ELSE @]
  /\ UNCHANGED <<c_isidle, c_curthread, c_zombies, ipi, threads, channel, pc>>

OneShare(total) == (total + NCPU - 1) \div NCPU

(* Too few to send any; or the last to_send of the queue become victims. *)
ChooseVictims(c) ==
  LET m == migration[c]
      share == OneShare(m.total)
      keep == Len(c_runqueue[c]) - (m.my - share)
  IN
  /\ At(c, "count") /\ m.i = NCPU
  /\ IF m.my < share
     THEN /\ migration' = [migration EXCEPT ![c] = NoMigration]
          /\ Goto(c, "yield")
          /\ UNCHANGED c_runqueue
     ELSE /\ migration' = [migration EXCEPT
               ![c] = [NoMigration EXCEPT
                 !.share = share, !.to_send = m.my - share,
                 !.victims = SubSeq(c_runqueue[c], keep + 1,
                                    Len(c_runqueue[c]))]]
          /\ c_runqueue' = [c_runqueue EXCEPT ![c] = SubSeq(@, 1, keep)]
          /\ Goto(c, "send")
  /\ UNCHANGED <<c_isidle, c_curthread, c_zombies, ipi, t_state, t_cpu,
                 newthread, channel>>

(* Mutant of Sendable: the thread whose stack the idle loop is on is sent. *)
SendableAny(c, t) == TRUE

(* The cpu's own curthread is on its run queue if it went to sleep, the    *)
(* cpu became idle on its stack, and it was woken.                         *)
Sendable(c, t) == t # c_curthread[c]

(* How many victims the loop over one cpu's queue looks at: one more if    *)
(* it comes across curthread before the queue is full.                     *)
Looked(c, d) ==
  LET m == migration[c]
      room == IF m.share > Len(c_runqueue[d])
              THEN m.share - Len(c_runqueue[d]) ELSE 0
      skips == \E i \in 1..room \cap DOMAIN m.victims :
                 ~Sendable(c, m.victims[i])
      want == IF skips THEN room + 1 ELSE room
  IN IF want < m.to_send THEN want ELSE m.to_send

(* The victims looked at: those sent, and those skipped and put at the end.*)
Send(c, sent, skipped) ==
  LET m == migration[c]
      n == Looked(c, m.i)
  IN
  /\ c_runqueue' = [c_runqueue EXCEPT ![m.i] = @ \o sent]
  /\ t_cpu' = [t \in Thread |->
       IF \E k \in DOMAIN sent : sent[k] = t THEN m.i ELSE t_cpu[t]]
  /\ IF sent # <<>> THEN Unidle(c, m.i) ELSE UNCHANGED ipi
  /\ migration' = [migration EXCEPT
       ![c].i = @ + 1, ![c].to_send = @ - n,
       ![c].victims = SubSeq(@, n + 1, Len(@)) \o skipped]
  /\ UNCHANGED <<c_isidle, c_curthread, c_zombies, t_state, newthread,
                 channel, pc>>

RemoveAt(s, k) == SubSeq(s, 1, k - 1) \o SubSeq(s, k + 1, Len(s))

SendTo(c) ==
  LET m == migration[c]
      looked == SubSeq(m.victims, 1, Looked(c, m.i))
  IN
  /\ At(c, "send") /\ m.i < NCPU /\ m.i # c /\ m.to_send > 0
  /\ RunQueueFree(m.i)
  /\ \/ /\ \A k \in DOMAIN looked : Sendable(c, looked[k])
        /\ Send(c, looked, <<>>)
     \/ \E k \in DOMAIN looked :
          /\ ~Sendable(c, looked[k])
          /\ Send(c, RemoveAt(looked, k), <<looked[k]>>)

SkipSelf(c) ==
  /\ At(c, "send") /\ migration[c].i = c /\ migration[c].to_send > 0
  /\ migration' = [migration EXCEPT ![c].i = @ + 1]
  /\ UNCHANGED <<c_isidle, c_curthread, c_zombies, ipi, threads, channel, pc>>

PutBack(c) ==
  c_runqueue' = [c_runqueue EXCEPT ![c] = @ \o migration[c].victims]

Leftovers(c) ==
  /\ At(c, "send") /\ (migration[c].i = NCPU \/ migration[c].to_send = 0)
  /\ PutBack(c)
  /\ migration' = [migration EXCEPT ![c] = NoMigration]
  /\ Goto(c, "yield")
  /\ UNCHANGED <<c_isidle, c_curthread, c_zombies, ipi, t_state, t_cpu,
                 newthread, channel>>

-----------------------------------------------------------------------------
(* What threads and devices ask for, and what the kernel must carry on.    *)

Request(c) ==
  \/ \E t \in Thread : thread_fork(c, t)
  \/ wchan_sleep(c) \/ wchan_wakeone(c) \/ wchan_wakeall(c)
  \/ thread_exit(c) \/ hardclock(c)
  \/ At(c, "run") /\ ~Forking(c) /\ thread_yield(c)

CarryOn(c) ==
  \/ \E t \in Thread : ForkEnds(c, t)
  \/ WakeNext(c) \/ FallAsleep(c) \/ Choose(c) \/ cpu_idle(c) \/ exorcise(c)
  \/ interprocessor_interrupt(c) \/ lamebus_clear_ipi(c)
  \/ CountQueue(c) \/ ChooseVictims(c) \/ SendTo(c) \/ SkipSelf(c)
  \/ Leftovers(c) \/ YieldReturns(c)
  \/ At(c, "yield") /\ thread_yield(c)

Next == \E c \in Cpu : Request(c) \/ CarryOn(c)

(* A cpu goes on executing, and takes an interrupt whose line is raised.   *)
(* A run-queue lock that is released again and again is got by the cpu     *)
(* that spins on it.  Nothing says that threads call, or that devices or   *)
(* clocks interrupt.                                                       *)
Spinning(c) ==
  \/ \E t \in Thread : ForkEnds(c, t)
  \/ WakeNext(c) \/ CountQueue(c) \/ SendTo(c)
Fairness == \A c \in Cpu : WF_vars(CarryOn(c)) /\ SF_vars(Spinning(c))

Spec == Init /\ [][Next]_vars /\ Fairness

-----------------------------------------------------------------------------
(* Properties.                                                             *)

On(list, t) == {i \in DOMAIN list : list[i] = t}

(* A thread's t_state is S_SLEEP soon after it is on the channel. *)
AsleepState(t) ==
  IF At(t_cpu[t], "sleep") /\ c_curthread[t_cpu[t]] = t
  THEN "S_RUN" ELSE "S_SLEEP"

(* Everywhere a thread is: the state it should then have, the cpu it then  *)
(* belongs to, the list and the position.                                  *)
Places(t) == UNION {
  {<<"S_RUN", c, "stack", i>> :
     i \in {j \in {0} : c_curthread[c] = t /\ ~c_isidle[c] /\ ~At(c, "sleep")}}
  \cup {<<"S_READY", c, "queue", i>> : i \in On(c_runqueue[c], t)}
  \cup {<<"S_READY", c, "victims", i>> : i \in On(migration[c].victims, t)}
  \cup {<<"S_ZOMBIE", c, "zombies", i>> : i \in On(c_zombies[c], t)}
  \cup {<<AsleepState(t), t_cpu[t], "waking", i>> : i \in On(waking[c], t)}
  \cup {<<AsleepState(t), t_cpu[t], "channel", i>> : i \in On(wc_threads, t)}
  \cup {<<"S_READY", t_cpu[t], "new", u>> : u \in {v \in Thread : t \in newthread[v]}}
  : c \in Cpu}

(* No thread is lost or in two places: each is running, on one run queue   *)
(* or among the victims of the migration, on the wait channel or on its    *)
(* waker's list, a zombie, or still in its creator's hands, with the       *)
(* t_state that says so and the t_cpu of that place.  Threads move between *)
(* lists under different locks; between the sections of                    *)
(* thread_consider_migration they are on none, and one that goes to sleep  *)
(* can be taken off the channel before its t_state says that it sleeps.    *)
ThreadsInOnePlace == \A t \in Thread :
  IF t_state[t] = "S_NONE" THEN Places(t) = {}
  ELSE \E p \in Places(t) :
         Places(t) = {p} /\ p[1] = t_state[t] /\ p[2] = t_cpu[t]

(* The stack a cpu is on exists, and no other cpu can switch to it: the    *)
(* thread is not destroyed, and belongs to this cpu until the cpu has left *)
(* its stack.  An idle cpu stays on the stack of a thread that is asleep,  *)
(* a zombie, or ready again and so could be destroyed or migrated.         *)
StacksKept == \A c \in Cpu :
  /\ t_state[c_curthread[c]] # "S_NONE"
  /\ t_cpu[c_curthread[c]] = c
  /\ \A d \in Cpu : c_curthread[d] = c_curthread[c] => d = c

(* A thread put on an idle cpu's run queue, by whichever cpu and at        *)
(* whichever moment of cpu_idle, ends the idling without waiting for the   *)
(* clock or a device.                                                      *)
WorkRuns == \A c \in Cpu :
  c_isidle[c] /\ c_runqueue[c] # <<>> ~> ~c_isidle[c] \/ c_runqueue[c] = <<>>

-----------------------------------------------------------------------------
(* The inductive invariant of Scheduler_proofs.tla: which list each thread *)
(* is on, and what each cpu may assume where it is.                        *)

In(t, list) == \E i \in DOMAIN list : list[i] = t
NoDup(list) == \A i, j \in DOMAIN list : list[i] = list[j] => i = j

TypeOK ==
  /\ c_runqueue \in [Cpu -> Seq(Thread)] /\ c_zombies \in [Cpu -> Seq(Thread)]
  /\ c_curthread \in [Cpu -> Thread]
  /\ c_isidle \in [Cpu -> BOOLEAN] /\ ipi \in [Cpu -> BOOLEAN]
  /\ t_state \in [Thread -> {"S_NONE", "S_RUN", "S_READY", "S_SLEEP", "S_ZOMBIE"}]
  /\ t_cpu \in [Thread -> Cpu] /\ newthread \in [Thread -> SUBSET Thread]
  /\ wc_threads \in Seq(Thread) /\ waking \in [Cpu -> Seq(Thread)]
  /\ pc \in [Cpu -> Place]
  /\ migration \in [Cpu ->
       [i : 0..NCPU, my : Nat, total : Nat, share : Nat, to_send : Nat,
        victims : Seq(Thread)]]

ListsRight ==
  /\ NoDup(wc_threads)
  /\ \A c \in Cpu : /\ NoDup(c_runqueue[c]) /\ NoDup(migration[c].victims)
                    /\ NoDup(c_zombies[c]) /\ NoDup(waking[c])
  /\ \A c, d \in Cpu : waking[c] # <<>> /\ waking[d] # <<>> => c = d
  /\ \A u, v, t \in Thread : t \in newthread[u] /\ t \in newthread[v] => u = v

OnChannel(t) == In(t, wc_threads) \/ \E c \in Cpu : In(t, waking[c])
New(t) == \E u \in Thread : t \in newthread[u]

(* A thread is on just the lists that its t_state and t_cpu say. *)
ThreadRight(t) ==
  /\ \A c \in Cpu :
       /\ In(t, c_runqueue[c]) => t_state[t] = "S_READY" /\ t_cpu[t] = c
       /\ In(t, migration[c].victims) =>
            t_state[t] = "S_READY" /\ t_cpu[t] = c /\ ~In(t, c_runqueue[c])
       /\ In(t, c_zombies[c]) => t_state[t] = "S_ZOMBIE" /\ t_cpu[t] = c
       /\ In(t, waking[c]) => ~In(t, wc_threads)
  /\ OnChannel(t) => t_state[t] \in {"S_SLEEP", "S_RUN"}
  /\ New(t) => /\ t_state[t] = "S_READY" /\ ~In(t, c_runqueue[t_cpu[t]])
               /\ ~In(t, migration[t_cpu[t]].victims)
  /\ t_state[t] = "S_READY" =>
       \/ In(t, c_runqueue[t_cpu[t]]) \/ In(t, migration[t_cpu[t]].victims)
       \/ New(t)
  /\ t_state[t] = "S_ZOMBIE" => In(t, c_zombies[t_cpu[t]])
  /\ t_state[t] = "S_SLEEP" => OnChannel(t)
  /\ t_state[t] = "S_RUN" => c_curthread[t_cpu[t]] = t /\ ~c_isidle[t_cpu[t]]

StackRight(c) ==
  /\ t_state[c_curthread[c]] # "S_NONE" /\ t_cpu[c_curthread[c]] = c
  /\ ~c_isidle[c] => t_state[c_curthread[c]] = "S_RUN"

CpuRight(c) ==
  /\ pc[c] \in {"run", "exorcise"} => ~c_isidle[c]
  /\ pc[c] \in {"switch", "look", "awake", "idle"} => c_isidle[c]
  /\ waking[c] = <<>> <=> pc[c] # "wake"
  /\ pc[c] \notin {"count", "send"} => migration[c] = NoMigration
  /\ pc[c] = "count" => /\ migration[c].my <= Len(c_runqueue[c])
                        /\ migration[c].victims = <<>>
  /\ pc[c] = "send" => migration[c].to_send <= Len(migration[c].victims)

(* The thread a cpu runs is on the channel just while it goes to sleep. *)
SleepRight(c) ==
  pc[c] = "sleep" <=> ~c_isidle[c] /\ OnChannel(c_curthread[c])

IInv ==
  /\ TypeOK /\ ListsRight
  /\ \A t \in Thread : ThreadRight(t)
  /\ \A c \in Cpu : StackRight(c) /\ CpuRight(c) /\ SleepRight(c)
=============================================================================
