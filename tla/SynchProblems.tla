--------------------------- MODULE SynchProblems ---------------------------
(***************************************************************************)
(* The synchronisation problems of Asst1, in src/Asst1/kern/asst1, with    *)
(* the drivers that start their threads and wait for them: the adders of   *)
(* math.c, the bounded buffer of producerconsumer.c, the philosophers of   *)
(* dining.c and Bill and Ben of twolocks.c.  The menu runs one problem at  *)
(* a time.                                                                 *)
(*                                                                         *)
(* A thread is a list of instructions that it executes a number of times.  *)
(* P, V, lock_acquire and lock_release are single steps, which is what     *)
(* synch.c makes of them, and a lock is a semaphore that begins with one:  *)
(* every thread here releases only a lock it has acquired, so the locks'   *)
(* assertions about their holder are left out.                             *)
(* Between two of them a thread looks at shared data in one step and acts  *)
(* in another on what it saw, so that a section is exclusive only if its   *)
(* semaphore makes it so.                                                  *)
(***************************************************************************)
EXTENDS Integers, Sequences, FiniteSets

CONSTANTS
  BUFFER_SIZE, NUM_PRODUCERS, NUM_CONSUMERS, ITEMS_TO_PRODUCE,
  NUM_PHILOSOPHERS, TIMES_TO_EAT, NUM_LOOPS, NADDERS, NADDS

ASSUME SynchProblemsAssumption ==
  /\ {BUFFER_SIZE, NUM_PRODUCERS, NUM_CONSUMERS, ITEMS_TO_PRODUCE,
      TIMES_TO_EAT, NUM_LOOPS, NADDERS, NADDS} \subseteq Nat \ {0}
  /\ NUM_PHILOSOPHERS \in Nat \ {0, 1}

main == <<"main", 0>>
Producer == {<<"producer", n>> : n \in 1..NUM_PRODUCERS}
Consumer == {<<"consumer", n>> : n \in 1..NUM_CONSUMERS}
Seat == 0..(NUM_PHILOSOPHERS - 1)
Philosopher == {<<"philosopher", n>> : n \in Seat}
Adder == {<<"adder", n>> : n \in 1..NADDERS}
bill == <<"bill", 0>>
ben == <<"ben", 0>>
Thread ==
  {main, bill, ben} \cup Producer \cup Consumer \cup Philosopher \cup Adder

Forked(p) == CASE p = "producerconsumer" -> Producer \cup Consumer
               [] p = "dining" -> Philosopher
               [] p = "twolocks" -> {bill, ben}
               [] p = "maths" -> Adder
Problem == {"producerconsumer", "dining", "twolocks", "maths"}

NULL == <<<<"NULL", 0>>, 0>>

VARIABLES
  problem,  (* the problem that runs, or "none"                            *)
  sem,      (* the count of each semaphore, by name and index              *)
  pc,       (* each thread's next instruction; 0: there is no such thread  *)
  todo,     (* how many times it will execute its instructions             *)
  item_buffer,
  item,     (* the item each consumer has received                         *)
  local,    (* the number a thread saw last: a slot, the counter, or 1 for *)
            (* a philosopher who may eat; 0 once it is not used            *)
  state,    (* "thinking", "hungry" or "eating", of each philosopher       *)
  counter, adder_counters,
  sent,     (* history: the items passed to producer_send                  *)
  received  (* history: the items returned by consumer_receive             *)

buffers == <<item_buffer, item, sent, received>>
counters == <<counter, adder_counters>>
data == <<buffers, local, state, counters>>
vars == <<problem, sem, pc, todo, data>>

-----------------------------------------------------------------------------
(* The programs.                                                           *)

Sem(name) == <<name, 0>>
Queue(n) == <<"sema_queue", n>>
Semaphore == {Sem(name) : name \in {"full", "empty", "buffer_key", "key",
    "producer_finished", "finished", "locka", "lockb", "mutex_lock_a",
    "mutex_lock_b", "count_mutex"}} \cup {Queue(n) : n \in Seat}

Down(name) == <<"P", Sem(name)>>
Up(name) == <<"V", Sem(name)>>
Do(what) == <<what, NULL>>

Repeat(program, n) ==
  [i \in 1..(n * Len(program)) |-> program[((i - 1) % Len(program)) + 1]]

(* Mutant of producer_send: without the key. *)
producer_sendUnlocked == <<Down("empty"), Do("free"), Do("fill"), Up("full")>>

producer_send == <<Down("empty"), Down("buffer_key"), Do("free"), Do("fill"),
                   Up("buffer_key"), Up("full")>>

consumer_receive == <<Down("full"), Down("buffer_key"), Do("used"), Do("take"),
                      Up("buffer_key"), Up("empty")>>

left(n) == (n - 1 + NUM_PHILOSOPHERS) % NUM_PHILOSOPHERS
right(n) == (n + 1) % NUM_PHILOSOPHERS
test(n) == << <<"look", n>>, <<"let", n>> >>

take_forks(n) ==
  <<Down("key"), Do("hungry")>> \o test(n) \o <<Up("key"), <<"P", Queue(n)>> >>

put_forks(n) == <<Down("key"), Do("thinking")>>
                \o test(left(n)) \o test(right(n)) \o <<Up("key")>>

adder == <<Down("count_mutex"), Do("read"), Do("add"), Up("count_mutex"),
           Do("count")>>

Locked(lock, mutex, program) ==
  <<Down(mutex), Down(lock)>> \o program \o <<Up(lock), Up(mutex)>>

bill_and_ben ==
  Locked("locka", "mutex_lock_a", <<>>) \o Locked("lockb", "mutex_lock_b", <<>>)
  \o <<Down("mutex_lock_a"), Down("mutex_lock_b"), Down("locka"), Down("lockb"),
       Up("lockb"), Up("mutex_lock_b"), Up("locka"), Up("mutex_lock_a")>>

(* The drivers.  Each forked thread ends with a V. *)
(* Mutant of MainProgram: one thread is not waited for. *)
MainProgramShort == [p \in Problem |->
  Repeat(<<Down("finished")>>, Cardinality(Forked(p)) - 1)]

MainProgram == [p \in Problem |->
  CASE p = "producerconsumer" ->
         Repeat(<<Down("producer_finished")>>, NUM_PRODUCERS)
         \o Repeat(producer_send, NUM_CONSUMERS)
         \o Repeat(<<Down("finished")>>, NUM_CONSUMERS)
    [] OTHER -> Repeat(<<Down("finished")>>, Cardinality(Forked(p)))]

ThreadProgram == [t \in Thread \ {main} |->
  CASE t \in Producer -> producer_send
    [] t \in Consumer -> consumer_receive
    [] t \in Philosopher -> take_forks(t[2]) \o <<Do("eat")>> \o put_forks(t[2])
    [] t \in {bill, ben} -> bill_and_ben
    [] t \in Adder -> adder]

Program(t) == IF t = main THEN MainProgram[problem] ELSE ThreadProgram[t]

Finished(t) == Sem(IF t \in Producer THEN "producer_finished" ELSE "finished")

Times(t) == CASE t \in Producer -> ITEMS_TO_PRODUCE
              [] t \in Philosopher -> TIMES_TO_EAT
              [] t \in {bill, ben} -> NUM_LOOPS
              [] OTHER -> 1

Initially(s) ==
  IF s = Sem("empty") THEN BUFFER_SIZE
  ELSE IF s \in {Sem("buffer_key"), Sem("key"), Sem("locka"), Sem("lockb"),
                 Sem("mutex_lock_a"), Sem("mutex_lock_b"), Sem("count_mutex")}
       THEN 1 ELSE 0

-----------------------------------------------------------------------------
Init ==
  /\ problem = "none"
  /\ sem = [s \in Semaphore |-> 0]
  /\ pc = [t \in Thread |-> 0]
  /\ todo = [t \in Thread |-> 0]
  /\ item_buffer = [i \in 0..(BUFFER_SIZE - 1) |-> NULL]
  /\ item = [t \in Consumer |-> NULL]
  /\ local = [t \in Thread |-> 0]
  /\ state = [n \in Seat |-> "thinking"]
  /\ counter = 0 /\ adder_counters = [t \in Adder |-> 0]
  /\ sent = {} /\ received = {}

(* The menu runs a problem, whose driver sets it up and forks its threads. *)
(* The counter and the philosophers' states keep what the last run left.   *)
RunTest(p) ==
  /\ problem = "none"
  /\ problem' = p
  /\ sem' = [s \in Semaphore |-> Initially(s)]
  /\ pc' = [t \in Thread |-> IF t \in Forked(p) \cup {main} THEN 1 ELSE 0]
  /\ todo' = [t \in Thread |->
                IF t \in Forked(p) \cup {main} THEN Times(t) ELSE 0]
  /\ item_buffer' = [i \in DOMAIN item_buffer |-> NULL]
  /\ sent' = {} /\ received' = {}
  /\ UNCHANGED <<item, local, state, counters>>

At(t, what) ==
  pc[t] \in 1..Len(Program(t)) /\ Program(t)[pc[t]][1] = what
Operand(t) == Program(t)[pc[t]][2]
Advance(t) == pc' = [pc EXCEPT ![t] = @ + 1] /\ UNCHANGED <<problem, todo>>

(* P and lock_acquire. *)
P(t) ==
  /\ At(t, "P") /\ sem[Operand(t)] > 0
  /\ sem' = [sem EXCEPT ![Operand(t)] = @ - 1]
  /\ Advance(t) /\ UNCHANGED data

(* V and lock_release. *)
V(t) ==
  /\ At(t, "V")
  /\ sem' = [sem EXCEPT ![Operand(t)] = @ + 1]
  /\ Advance(t) /\ UNCHANGED data

(* The buffer is searched for its first slot that is free, or is not.  A   *)
(* search that finds none leaves the buffer alone, and receives NULL.      *)
First(slots) == IF slots = {} THEN BUFFER_SIZE
                ELSE CHOOSE i \in slots : \A j \in slots : i <= j
FreeSlots == {i \in DOMAIN item_buffer : item_buffer[i] = NULL}

Saw(t, x) ==
  /\ local' = [local EXCEPT ![t] = x]
  /\ Advance(t) /\ UNCHANGED <<sem, buffers, state, counters>>

Search(t) ==
  \/ At(t, "free") /\ Saw(t, First(FreeSlots))
  \/ At(t, "used") /\ Saw(t, First(DOMAIN item_buffer \ FreeSlots))

(* Main's items, with two zeros in them, tell a consumer to stop. *)
NewItem(t) == <<t, IF t = main THEN pc[t] ELSE todo[t]>>
Stop(i) == i[1] = main

Fill(t) ==
  /\ At(t, "fill")
  /\ item_buffer' = [i \in DOMAIN item_buffer |->
                      IF i = local[t] THEN NewItem(t) ELSE item_buffer[i]]
  /\ local' = [local EXCEPT ![t] = 0]
  /\ sent' = sent \cup {NewItem(t)}
  /\ Advance(t) /\ UNCHANGED <<sem, item, state, counters, received>>

Take(t) ==
  LET got == IF local[t] = BUFFER_SIZE THEN NULL ELSE item_buffer[local[t]] IN
  /\ At(t, "take")
  /\ item_buffer' = [i \in DOMAIN item_buffer |->
                      IF i = local[t] THEN NULL ELSE item_buffer[i]]
  /\ item' = [item EXCEPT ![t] = got]
  /\ local' = [local EXCEPT ![t] = 0]
  /\ received' = received \cup {got}
  /\ Advance(t) /\ UNCHANGED <<sem, state, counters, sent>>

(* Mutant of MayEat: only the neighbour on the left is looked at. *)
MayEatLeft(n) == state[n] = "hungry" /\ state[left(n)] # "eating"

MayEat(n) ==
  state[n] = "hungry" /\ state[left(n)] # "eating" /\ state[right(n)] # "eating"

Want(t) ==
  /\ \E s \in {"hungry", "thinking"} :
       At(t, s) /\ state' = [state EXCEPT ![t[2]] = s]
  /\ Advance(t) /\ UNCHANGED <<sem, buffers, local, counters>>

Look(t) == At(t, "look") /\ Saw(t, IF MayEat(Operand(t)) THEN 1 ELSE 0)

(* Whoever may eat is said to, with a V of its semaphore. *)
Let(t) ==
  LET n == Operand(t) IN
  /\ At(t, "let")
  /\ IF local[t] = 1
     THEN /\ state' = [state EXCEPT ![n] = "eating"]
          /\ sem' = [sem EXCEPT ![Queue(n)] = @ + 1]
     ELSE UNCHANGED <<sem, state>>
  /\ local' = [local EXCEPT ![t] = 0]
  /\ Advance(t) /\ UNCHANGED <<buffers, counters>>

Eat(t) == At(t, "eat") /\ Advance(t) /\ UNCHANGED <<sem, data>>

Read(t) == At(t, "read") /\ Saw(t, counter)

Add(t) ==
  /\ At(t, "add")
  /\ counter' = IF local[t] < NADDS THEN local[t] + 1 ELSE counter
  /\ Advance(t) /\ UNCHANGED <<sem, buffers, local, state, adder_counters>>

(* The statistics are the thread's own, kept outside the section. *)
Count(t) ==
  /\ At(t, "count")
  /\ adder_counters' = IF local[t] < NADDS
                       THEN [adder_counters EXCEPT ![t] = @ + 1]
                       ELSE adder_counters
  /\ Advance(t) /\ UNCHANGED <<sem, buffers, local, state, counter>>

(* Mutant of More: an adder never clears its flag. *)
MoreAlways(t) == IF t \in Consumer THEN ~Stop(item[t])
                 ELSE t \in Adder \/ todo[t] > 1

(* At the end of its loop a thread begins again, or says it has finished.  *)
(* (A consumer also does after SOMETHING_WRONG_COUNT items, which is more  *)
(* than the producers send.)                                               *)
More(t) == CASE t \in Consumer -> ~Stop(item[t])
             [] t \in Adder -> local[t] < NADDS
             [] OTHER -> todo[t] > 1

Forget(t) ==
  /\ local' = [local EXCEPT ![t] = 0]
  /\ item' = [u \in Consumer |-> IF u = t THEN NULL ELSE item[u]]
  /\ UNCHANGED <<item_buffer, state, counters, sent, received>>

Loop(t) ==
  /\ pc[t] = Len(Program(t)) + 1 /\ More(t)
  /\ pc' = [pc EXCEPT ![t] = 1]
  /\ todo' = [todo EXCEPT ![t] = IF @ > 1 THEN @ - 1 ELSE @]
  /\ Forget(t) /\ UNCHANGED <<problem, sem>>

Gone(t) ==
  /\ pc' = [pc EXCEPT ![t] = 0] /\ todo' = [todo EXCEPT ![t] = 0]
  /\ Forget(t)

Finish(t) ==
  /\ t # main
  /\ pc[t] = Len(Program(t)) + 1 /\ ~More(t)
  /\ sem' = [sem EXCEPT ![Finished(t)] = @ + 1]
  /\ Gone(t) /\ UNCHANGED problem

Waited == pc[main] = Len(MainProgram[problem]) + 1

MainReturns ==
  /\ problem # "none" /\ Waited
  /\ problem' = "none" /\ Gone(main) /\ UNCHANGED sem

Step(t) ==
  /\ pc[t] # 0
  /\ \/ P(t) \/ V(t) \/ Search(t) \/ Fill(t) \/ Take(t)
     \/ Want(t) \/ Look(t) \/ Let(t) \/ Eat(t) \/ Read(t) \/ Add(t)
     \/ Count(t) \/ Loop(t) \/ Finish(t) \/ (t = main /\ MainReturns)

Next ==
  \/ \E p \in Problem : RunTest(p)
  \/ \E t \in Thread : Step(t)

(* Threads go on executing; nobody need choose from the menu. *)
Spec == Init /\ [][Next]_vars /\ \A t \in Thread : WF_vars(Step(t))

-----------------------------------------------------------------------------
(* Properties.                                                             *)

Item == {<<t, n>> : t \in Producer, n \in 1..ITEMS_TO_PRODUCE}
        \cup {<<main, n>> : n \in 1..(NUM_PRODUCERS + 6 * NUM_CONSUMERS)}

(* The array that is searched for a slot, under one semaphore and between  *)
(* two that count, is a bounded buffer: no item is overwritten, returned   *)
(* twice or dropped for want of a slot, and no consumer finds nothing.     *)
Buffer == INSTANCE BoundedBuffer WITH
  Size <- BUFFER_SIZE,
  buffer <- {item_buffer[i] : i \in DOMAIN item_buffer} \ {NULL}
ImplementsBoundedBuffer == Buffer!Spec

Eating(n) ==
  At(<<"philosopher", n>>, "eat")

(* No two neighbours eat at once, although a philosopher is made to eat by *)
(* its neighbour, through state and semaphore, while it waits or before it *)
(* does; and a semaphore has a unit for its philosopher only, and only     *)
(* while that philosopher is on the way to eat.                            *)
ForksExclusive == \A n \in Seat :
  /\ Eating(n) => ~Eating(left(n)) /\ state[n] = "eating"
  /\ sem[Queue(n)] <= 1
  /\ sem[Queue(n)] = 1 => state[n] = "eating" /\ ~Eating(n)

(* The counter is the number of increments that the threads have counted,  *)
(* with those they are about to count, and when the driver has waited for  *)
(* the adders both are NADDS exactly.                                      *)
Increments == UNION {{t} \X (1..adder_counters[t]) : t \in Adder}
Uncounted == {t \in Adder : pc[t] \in {4, 5} /\ local[t] < NADDS}
CounterExact ==
  /\ counter = Cardinality(Increments) + Cardinality(Uncounted)
  /\ counter <= NADDS
  /\ problem = "maths" /\ Waited => Cardinality(Increments) = NADDS

(* A driver that has made all its waits, or returned, leaves no thread     *)
(* behind that could still use its semaphores or meet the next problem's.  *)
DriversWait == problem = "none" \/ Waited => \A t \in Thread \ {main} : pc[t] = 0

(* What the semaphores guard is intact: the forks and the counter.         *)
SectionsExclusive == ForksExclusive /\ CounterExact

(* Every problem the menu starts comes to its end: no wakeup is missed, no *)
(* philosopher starves, Bill and Ben do not deadlock, and the consumers    *)
(* are all told to stop.                                                   *)
AllFinish == \A p \in Problem : problem = p ~> problem = "none"
=============================================================================
