------------------------ MODULE SynchProblems_proofs ------------------------
(***************************************************************************)
(* Proofs about SynchProblems, for any number of producers, consumers,     *)
(* philosophers and adders, any buffer and any number of rounds.           *)
(*                                                                         *)
(* A step is known by the instruction at the thread's place in its list,   *)
(* so the lists come first, instruction by instruction.  The inductive     *)
(* invariant has a part for each problem and one for the drivers, and each *)
(* part is kept by the threads of its own problem, place by place, and by  *)
(* all others because their instructions touch none of its semaphores.     *)
(***************************************************************************)
EXTENDS SynchProblems, TLAPS, FiniteSetTheorems, SequenceTheorems,
        WellFoundedInduction, NaturalsInduction

(* The programs, instruction by instruction.                               *)

(* A thread's name tells what it is.                                       *)
LEMMA Kinds ==
  /\ \A t \in Producer : t[1] = "producer" /\ t # main
  /\ \A t \in Consumer : t[1] = "consumer" /\ t # main
  /\ \A t \in Adder : t[1] = "adder" /\ t # main
  /\ \A t \in Philosopher :
       t[1] = "philosopher" /\ t # main /\ t[2] \in Seat /\ t = <<"philosopher", t[2]>>
  /\ bill[1] = "bill" /\ ben[1] = "ben" /\ main[1] = "main" /\ bill # main /\ ben # main
  /\ \A n \in Seat : <<"philosopher", n>> \in Philosopher
BY DEF Producer, Consumer, Adder, Philosopher, bill, ben, main

(* What each kind of thread executes.                                      *)
LEMMA PhilProgram ==
  ASSUME NEW t \in Philosopher
  PROVE  /\ Len(Program(t)) = 14
         /\ Program(t)[1] = Down("key") /\ Program(t)[2] = Do("hungry")
         /\ Program(t)[3] = <<"look", t[2]>> /\ Program(t)[4] = <<"let", t[2]>>
         /\ Program(t)[5] = Up("key") /\ Program(t)[6] = <<"P", Queue(t[2])>>
         /\ Program(t)[7] = Do("eat")
         /\ Program(t)[8] = Down("key") /\ Program(t)[9] = Do("thinking")
         /\ Program(t)[10] = <<"look", left(t[2])>> /\ Program(t)[11] = <<"let", left(t[2])>>
         /\ Program(t)[12] = <<"look", right(t[2])>> /\ Program(t)[13] = <<"let", right(t[2])>>
         /\ Program(t)[14] = Up("key")
<1>1. t \in Thread \ {main} /\ t \notin Producer /\ t \notin Consumer
  BY Kinds DEF Thread
<1>2. ThreadProgram[t] = take_forks(t[2]) \o <<Do("eat")>> \o put_forks(t[2])
  BY <1>1, Kinds DEF ThreadProgram
<1> QED BY <1>1, <1>2 DEF Program, take_forks, put_forks, test

LEMMA ProducerProgram ==
  ASSUME NEW t \in Producer
  PROVE  t \in Thread \ {main} /\ Program(t) = producer_send
BY Kinds DEF Thread, Program, ThreadProgram

LEMMA ConsumerProgram ==
  ASSUME NEW t \in Consumer
  PROVE  t \in Thread \ {main} /\ Program(t) = consumer_receive
BY Kinds DEF Thread, Program, ThreadProgram

LEMMA AdderProgram ==
  ASSUME NEW t \in Adder
  PROVE  t \in Thread \ {main} /\ Program(t) = adder
BY Kinds DEF Thread, Program, ThreadProgram

Locks == {Sem("locka"), Sem("lockb"), Sem("mutex_lock_a"), Sem("mutex_lock_b")}
(* Bill and Ben only take and release locks.                               *)
LEMMA BillBenProgram ==
  ASSUME NEW t \in {bill, ben}
  PROVE  /\ t \in Thread \ {main}
         /\ Len(Program(t)) = 16
         /\ \A i \in 1..16 : Program(t)[i] \in {"P", "V"} \X Locks
<1>1. t \in Thread \ {main} /\ t \notin Producer \cup Consumer \cup Philosopher
  BY Kinds DEF Thread
<1>2. Program(t) = bill_and_ben
  BY <1>1, Kinds DEF Program, ThreadProgram
<1>3. Len(bill_and_ben) = 16 /\ \A i \in 1..16 : bill_and_ben[i] \in {"P", "V"} \X Locks
  BY DEF bill_and_ben, Locked, Down, Up, Locks
<1> QED BY <1>1, <1>2, <1>3

(* Repeated lists. *)
LEMMA Concat ==
  ASSUME NEW S, NEW a \in Seq(S), NEW b \in Seq(S)
  PROVE  /\ a \o b \in Seq(S) /\ Len(a \o b) = Len(a) + Len(b)
         /\ \A i \in 1..Len(a) : (a \o b)[i] = a[i]
         /\ \A i \in 1..Len(b) : (a \o b)[Len(a) + i] = b[i]
OBVIOUS

(* Three lists in a row, by position.                                      *)
LEMMA ThreeLists ==
  ASSUME NEW S, NEW a \in Seq(S), NEW b \in Seq(S), NEW c \in Seq(S)
  PROVE  /\ Len((a \o b) \o c) = Len(a) + Len(b) + Len(c)
         /\ \A i \in 1..Len(a) : ((a \o b) \o c)[i] = a[i]
         /\ \A i \in 1..Len(b) : ((a \o b) \o c)[Len(a) + i] = b[i]
         /\ \A i \in 1..Len(c) : ((a \o b) \o c)[Len(a) + Len(b) + i] = c[i]
<1>1. Len(a) \in Nat /\ Len(b) \in Nat /\ Len(c) \in Nat
  OBVIOUS
<1>2. /\ a \o b \in Seq(S) /\ Len(a \o b) = Len(a) + Len(b)
      /\ \A i \in 1..Len(a) : (a \o b)[i] = a[i]
      /\ \A i \in 1..Len(b) : (a \o b)[Len(a) + i] = b[i]
  BY Concat
<1> DEFINE d == a \o b
<1> HIDE DEF d
<1>3. /\ d \in Seq(S) /\ Len(d) = Len(a) + Len(b)
      /\ \A i \in 1..Len(a) : d[i] = a[i]
      /\ \A i \in 1..Len(b) : d[Len(a) + i] = b[i]
  BY <1>2 DEF d
<1>4. /\ Len(d \o c) = Len(d) + Len(c)
      /\ \A i \in 1..Len(d) : (d \o c)[i] = d[i]
      /\ \A i \in 1..Len(c) : (d \o c)[Len(d) + i] = c[i]
  <2>1. d \in Seq(S)
    BY <1>3
  <2>2. ASSUME NEW e \in Seq(S)
        PROVE  /\ Len(e \o c) = Len(e) + Len(c)
               /\ \A i \in 1..Len(e) : (e \o c)[i] = e[i]
               /\ \A i \in 1..Len(c) : (e \o c)[Len(e) + i] = c[i]
    BY Concat
  <2> QED BY <2>1, <2>2
<1>5. /\ Len(d \o c) = Len(a) + Len(b) + Len(c)
      /\ \A i \in 1..Len(a) : (d \o c)[i] = a[i]
      /\ \A i \in 1..Len(b) : (d \o c)[Len(a) + i] = b[i]
      /\ \A i \in 1..Len(c) : (d \o c)[Len(a) + Len(b) + i] = c[i]
  <2>1. /\ \A i \in 1..Len(a) : i \in 1..Len(d)
        /\ \A i \in 1..Len(b) : Len(a) + i \in 1..Len(d)
    BY <1>1, <1>3
  <2> QED BY <1>1, <1>3, <1>4, <2>1
<1> QED BY <1>5 DEF d

(* A list of one instruction, and one of six, repeated.                    *)
LEMMA RepeatOne ==
  ASSUME NEW S, NEW x \in S, NEW n \in Nat
  PROVE  /\ Repeat(<<x>>, n) \in Seq(S) /\ Len(Repeat(<<x>>, n)) = n
         /\ \A i \in 1..n : Repeat(<<x>>, n)[i] = x
<1>1. Len(<<x>>) = 1 /\ n * 1 = n /\ \A i \in 1..n : ((i - 1) % 1) + 1 = 1
  OBVIOUS
<1>2. Repeat(<<x>>, n) = [i \in 1..n |-> x]
  BY <1>1 DEF Repeat
<1>3. [i \in 1..n |-> x] \in Seq(S) /\ Len([i \in 1..n |-> x]) = n
  OBVIOUS
<1> QED BY <1>2, <1>3

LEMMA RepeatSix ==
  ASSUME NEW S, NEW p \in Seq(S), Len(p) = 6, NEW n \in Nat
  PROVE  /\ Repeat(p, n) \in Seq(S) /\ Len(Repeat(p, n)) = 6 * n
         /\ \A i \in 1..(6 * n) : Repeat(p, n)[i] = p[((i - 1) % 6) + 1]
<1> DEFINE r == [i \in 1..(6 * n) |-> p[((i - 1) % 6) + 1]]
<1>1. 6 * n \in Nat /\ n * 6 = 6 * n /\ \A i \in 1..(6 * n) : ((i - 1) % 6) + 1 \in 1..6
  OBVIOUS
<1>2. Repeat(p, n) = r
  BY <1>1 DEF Repeat
<1>3. \A i \in 1..(6 * n) : p[((i - 1) % 6) + 1] \in S
  <2>1. \A k \in 1..6 : p[k] \in S
    BY ElementOfSeq
  <2> QED BY <1>1, <2>1
<1>4. r \in Seq(S) /\ Len(r) = 6 * n
  BY <1>1, <1>3
<1> QED BY <1>2, <1>4

(* The driver of the producers and consumers: it waits for the producers,  *)
(* sends two items to each consumer, and waits for the consumers.          *)
Sends == 6 * NUM_CONSUMERS
(* Its list, in three parts.                                               *)
LEMMA MainBufferProgram ==
  LET p == MainProgram["producerconsumer"] IN
  /\ Len(p) = NUM_PRODUCERS + Sends + NUM_CONSUMERS
  /\ \A i \in 1..NUM_PRODUCERS : p[i] = Down("producer_finished")
  /\ \A i \in 1..Sends : p[NUM_PRODUCERS + i] = producer_send[((i - 1) % 6) + 1]
  /\ \A i \in 1..NUM_CONSUMERS : p[NUM_PRODUCERS + Sends + i] = Down("finished")
<1> DEFINE S == {"P", "V", "free", "fill"} \X (Semaphore \cup {NULL})
           a == Repeat(<<Down("producer_finished")>>, NUM_PRODUCERS)
           b == Repeat(producer_send, NUM_CONSUMERS)
           c == Repeat(<<Down("finished")>>, NUM_CONSUMERS)
<1>1. NUM_PRODUCERS \in Nat /\ NUM_CONSUMERS \in Nat /\ Sends \in Nat
  BY SynchProblemsAssumption DEF Sends
<1>2. \A n \in {"full", "empty", "buffer_key", "producer_finished", "finished"} : Sem(n) \in Semaphore
  BY DEF Semaphore
<1>3. /\ Down("producer_finished") \in S /\ Down("finished") \in S
      /\ producer_send \in Seq(S) /\ Len(producer_send) = 6
  BY <1>2 DEF producer_send, Down, Up, Do
<1> HIDE DEF S
<1>4. /\ a \in Seq(S) /\ Len(a) = NUM_PRODUCERS
      /\ \A i \in 1..NUM_PRODUCERS : a[i] = Down("producer_finished")
  BY <1>1, <1>3, RepeatOne
<1>5. /\ b \in Seq(S) /\ Len(b) = Sends
      /\ \A i \in 1..Sends : b[i] = producer_send[((i - 1) % 6) + 1]
  BY <1>1, <1>3, RepeatSix DEF Sends
<1>6. /\ c \in Seq(S) /\ Len(c) = NUM_CONSUMERS
      /\ \A i \in 1..NUM_CONSUMERS : c[i] = Down("finished")
  BY <1>1, <1>3, RepeatOne
<1>7. MainProgram["producerconsumer"] = a \o b \o c
  BY DEF MainProgram, Problem
<1> HIDE DEF a, b, c
<1>8. a \in Seq(S) /\ b \in Seq(S) /\ c \in Seq(S)
  BY <1>4, <1>5, <1>6
<1>9. Len(a) = NUM_PRODUCERS /\ Len(b) = Sends /\ Len(c) = NUM_CONSUMERS
  BY <1>4, <1>5, <1>6
<1>10. /\ Len((a \o b) \o c) = NUM_PRODUCERS + Sends + NUM_CONSUMERS
       /\ \A i \in 1..NUM_PRODUCERS : ((a \o b) \o c)[i] = a[i]
       /\ \A i \in 1..Sends : ((a \o b) \o c)[NUM_PRODUCERS + i] = b[i]
       /\ \A i \in 1..NUM_CONSUMERS : ((a \o b) \o c)[NUM_PRODUCERS + Sends + i] = c[i]
  <2>1. /\ Len((a \o b) \o c) = Len(a) + Len(b) + Len(c)
        /\ \A i \in 1..Len(a) : ((a \o b) \o c)[i] = a[i]
        /\ \A i \in 1..Len(b) : ((a \o b) \o c)[Len(a) + i] = b[i]
        /\ \A i \in 1..Len(c) : ((a \o b) \o c)[Len(a) + Len(b) + i] = c[i]
    <3>1. ASSUME NEW x \in Seq(S), NEW y \in Seq(S), NEW z \in Seq(S)
          PROVE  /\ Len((x \o y) \o z) = Len(x) + Len(y) + Len(z)
                 /\ \A i \in 1..Len(x) : ((x \o y) \o z)[i] = x[i]
                 /\ \A i \in 1..Len(y) : ((x \o y) \o z)[Len(x) + i] = y[i]
                 /\ \A i \in 1..Len(z) : ((x \o y) \o z)[Len(x) + Len(y) + i] = z[i]
      BY ThreeLists
    <3> QED BY <1>8, <3>1
  <2> QED BY <1>9, <2>1, Zenon
<1>11. /\ Len(MainProgram["producerconsumer"]) = NUM_PRODUCERS + Sends + NUM_CONSUMERS
       /\ \A i \in 1..NUM_PRODUCERS : MainProgram["producerconsumer"][i] = a[i]
       /\ \A i \in 1..Sends : MainProgram["producerconsumer"][NUM_PRODUCERS + i] = b[i]
       /\ \A i \in 1..NUM_CONSUMERS :
            MainProgram["producerconsumer"][NUM_PRODUCERS + Sends + i] = c[i]
  BY <1>7, <1>10, Zenon
<1>12. \A i \in 1..NUM_PRODUCERS : MainProgram["producerconsumer"][i] = Down("producer_finished")
  BY <1>4, <1>11, Zenon
<1>13. \A i \in 1..Sends :
         MainProgram["producerconsumer"][NUM_PRODUCERS + i] = producer_send[((i - 1) % 6) + 1]
  BY <1>5, <1>11, Zenon
<1>14. \A i \in 1..NUM_CONSUMERS :
         MainProgram["producerconsumer"][NUM_PRODUCERS + Sends + i] = Down("finished")
  BY <1>6, <1>11, Zenon
<1> QED BY <1>11, <1>12, <1>13, <1>14, Zenon

(* The sets of threads. *)
LEMMA IndexedSet ==
  ASSUME NEW k, NEW S, IsFiniteSet(S)
  PROVE  /\ IsFiniteSet({<<k, n>> : n \in S})
         /\ Cardinality({<<k, n>> : n \in S}) = Cardinality(S)
<1> DEFINE T == {<<k, n>> : n \in S}
           f == [n \in S |-> <<k, n>>]
<1>1. f \in Bijection(S, T)
  <2>1. f \in [S -> T]
    OBVIOUS
  <2>2. \A n, m \in S : f[n] = f[m] => n = m
    OBVIOUS
  <2>3. \A y \in T : \E n \in S : f[n] = y
    OBVIOUS
  <2> QED BY <2>1, <2>2, <2>3 DEF Bijection, Injection, Surjection, IsInjective
<1>2. ExistsBijection(S, T)
  BY <1>1 DEF ExistsBijection
<1> QED BY <1>2, FS_Bijection

(* There are as many producers and consumers as their numbers say.         *)
LEMMA ThreadSets ==
  /\ IsFiniteSet(Producer) /\ Cardinality(Producer) = NUM_PRODUCERS
  /\ IsFiniteSet(Consumer) /\ Cardinality(Consumer) = NUM_CONSUMERS
  /\ IsFiniteSet(Philosopher) /\ IsFiniteSet(Adder)
<1>1. /\ NUM_PRODUCERS \in Nat \ {0} /\ NUM_CONSUMERS \in Nat \ {0} /\ NADDERS \in Nat
      /\ NUM_PHILOSOPHERS \in Nat
  BY SynchProblemsAssumption
<1>2. /\ IsFiniteSet(1..NUM_PRODUCERS) /\ Cardinality(1..NUM_PRODUCERS) = NUM_PRODUCERS
      /\ IsFiniteSet(1..NUM_CONSUMERS) /\ Cardinality(1..NUM_CONSUMERS) = NUM_CONSUMERS
      /\ IsFiniteSet(1..NADDERS) /\ IsFiniteSet(Seat)
  BY <1>1, FS_Interval DEF Seat
<1> QED BY <1>2, IndexedSet DEF Producer, Consumer, Philosopher, Adder

(* A driver forks finitely many threads.                                   *)
LEMMA ForkedFinite ==
  ASSUME NEW p \in Problem
  PROVE  IsFiniteSet(Forked(p)) /\ Cardinality(Forked(p)) \in Nat
         /\ Forked(p) \subseteq Thread \ {main}
<1>1. Forked(p) \in {Producer \cup Consumer, Philosopher, {bill, ben}, Adder}
  BY DEF Forked, Problem
<1>2. IsFiniteSet(Producer \cup Consumer)
  BY ThreadSets, FS_Union
<1>3. IsFiniteSet({bill} \cup {ben}) /\ {bill, ben} = {bill} \cup {ben}
  BY FS_Singleton, FS_Union
<1>4. IsFiniteSet(Forked(p))
  BY <1>1, <1>2, <1>3, ThreadSets
<1>5. Forked(p) \subseteq Thread \ {main}
  BY <1>1, Kinds DEF Thread
<1> QED BY <1>4, <1>5, FS_CardinalityType

(* The other drivers only wait.                                            *)
LEMMA MainWaitsProgram ==
  ASSUME NEW p \in Problem \ {"producerconsumer"}
  PROVE  /\ Len(MainProgram[p]) = Cardinality(Forked(p))
         /\ \A i \in 1..Cardinality(Forked(p)) : MainProgram[p][i] = Down("finished")
<1>1. MainProgram[p] = Repeat(<<Down("finished")>>, Cardinality(Forked(p)))
  BY DEF MainProgram, Problem
<1>2. Cardinality(Forked(p)) \in Nat /\ Down("finished") \in {Down("finished")}
  BY ForkedFinite
<1> QED BY <1>1, <1>2, RepeatOne

(* The search for a slot finds the first, when there is one.               *)
LEMMA LeastNat ==
  ASSUME NEW S, S \subseteq Nat, S # {}
  PROVE  \E m \in S : \A k \in S : m <= k
<1> DEFINE R == OpToRel(<, Nat)
<1>1. IsWellFoundedOn(R, Nat)
  BY NatLessThanWellFounded
<1>2. \A x, y \in Nat : <<y, x>> \in R <=> y < x
  BY DEF OpToRel
<1> HIDE DEF R
<1>3. PICK m \in S : \A y \in S : ~ (<<y, m>> \in R)
  BY <1>1, WFMin
<1>4. ASSUME NEW k \in S PROVE m <= k
  <2>1. k \in Nat /\ m \in Nat /\ ~ (<<k, m>> \in R)
    BY <1>3
  <2>2. ~ (k < m)
    BY <1>2, <2>1
  <2> QED BY <2>1, <2>2
<1> QED BY <1>4

LEMMA FirstIs ==
  ASSUME NEW S, S \subseteq Nat, S # {}
  PROVE  First(S) \in S
BY LeastNat DEF First

(* The philosophers' neighbours. *)
LEMMA Neighbours ==
  ASSUME NEW n \in Seat
  PROVE  /\ left(n) = IF n = 0 THEN NUM_PHILOSOPHERS - 1 ELSE n - 1
         /\ right(n) = IF n = NUM_PHILOSOPHERS - 1 THEN 0 ELSE n + 1
         /\ left(n) \in Seat /\ right(n) \in Seat
         /\ left(n) # n /\ right(n) # n /\ left(right(n)) = n /\ right(left(n)) = n
<1>1. NUM_PHILOSOPHERS \in Nat /\ NUM_PHILOSOPHERS > 1 /\ n \in Nat /\ n < NUM_PHILOSOPHERS
  BY SynchProblemsAssumption DEF Seat
<1>2. \A m, r \in Nat : r < m => r % m = r
  BY SMT
<1>3. \A m, r \in Nat : m > 0 /\ r < m => (m * 1 + r) % m = r
  BY SMT
<1>4. ASSUME NEW k \in Seat
      PROVE  /\ left(k) = IF k = 0 THEN NUM_PHILOSOPHERS - 1 ELSE k - 1
             /\ right(k) = IF k = NUM_PHILOSOPHERS - 1 THEN 0 ELSE k + 1
  <2>1. k \in Nat /\ k < NUM_PHILOSOPHERS
    BY <1>1 DEF Seat
  <2>2. left(k) = IF k = 0 THEN NUM_PHILOSOPHERS - 1 ELSE k - 1
    <3>1. CASE k = 0
      BY <1>1, <1>2, <3>1 DEF left
    <3>2. CASE k # 0
      <4>1. k - 1 \in Nat /\ k - 1 < NUM_PHILOSOPHERS
            /\ NUM_PHILOSOPHERS * 1 + (k - 1) = k - 1 + NUM_PHILOSOPHERS
        BY <2>1, <3>2, <1>1
      <4> QED BY <4>1, <1>1, <1>3, <3>2 DEF left
    <3> QED BY <3>1, <3>2
  <2>3. right(k) = IF k = NUM_PHILOSOPHERS - 1 THEN 0 ELSE k + 1
    <3>1. CASE k = NUM_PHILOSOPHERS - 1
      <4>1. NUM_PHILOSOPHERS * 1 + 0 = k + 1
        BY <2>1, <3>1, <1>1
      <4> QED BY <4>1, <1>1, <1>3, <3>1 DEF right
    <3>2. CASE k # NUM_PHILOSOPHERS - 1
      BY <1>1, <1>2, <2>1, <3>2 DEF right
    <3> QED BY <3>1, <3>2
  <2> QED BY <2>2, <2>3
<1>5. left(n) \in Seat /\ right(n) \in Seat
  BY <1>1, <1>4 DEF Seat
<1> QED BY <1>1, <1>4, <1>5 DEF Seat

-----------------------------------------------------------------------------
(* Which semaphores and instructions belong to which threads.              *)

Ph(n) == <<"philosopher", n>>
Sender == Producer \cup {main}

DiningSems == {Sem("key")} \cup {Queue(n) : n \in Seat}
BufferSems == {Sem("empty"), Sem("full"), Sem("buffer_key")}
DoneSems == {Sem("finished"), Sem("producer_finished")}

(* No semaphore belongs to two problems.                                   *)
LEMMA Sems ==
  /\ DiningSems \cup BufferSems \cup DoneSems \cup Locks \cup {Sem("count_mutex")} \subseteq Semaphore
  /\ \A s \in DiningSems : s \notin BufferSems \cup DoneSems \cup Locks \cup {Sem("count_mutex")}
  /\ \A s \in BufferSems : s \notin DoneSems \cup Locks \cup {Sem("count_mutex")}
  /\ \A s \in DoneSems : s \notin Locks \cup {Sem("count_mutex")}
  /\ Sem("count_mutex") \notin Locks
  /\ \A a, b : Sem(a) = Sem(b) => a = b
  /\ \A n \in Seat : \A a : Queue(n) # Sem(a) \/ a = "sema_queue"
  /\ \A n, m \in Seat : Queue(n) = Queue(m) => n = m
  /\ \A n \in Seat : Queue(n) # Sem("key") /\ Queue(n) \in DiningSems
BY DEF DiningSems, BufferSems, DoneSems, Locks, Semaphore, Sem, Queue

(* A philosopher is a seat.                                                *)
LEMMA Philosophers ==
  /\ Philosopher = {Ph(n) : n \in Seat}
  /\ \A n \in Seat : Ph(n)[2] = n /\ Ph(n) \in Philosopher /\ Ph(n) \in Thread \ {main}
  /\ \A n, m \in Seat : Ph(n) = Ph(m) => n = m
BY DEF Philosopher, Ph, Thread, main

(* No thread is of two kinds.                                              *)
LEMMA Classes ==
  /\ Thread = Sender \cup Consumer \cup Philosopher \cup Adder \cup {bill, ben}
  /\ \A t \in Philosopher : t \notin Sender \cup Consumer \cup Adder \cup {bill, ben}
  /\ \A t \in Adder : t \notin Sender \cup Consumer \cup {bill, ben}
  /\ \A t \in Sender : t \notin Consumer \cup {bill, ben}
  /\ \A t \in Consumer : t \notin {bill, ben}
BY Kinds DEF Thread, Sender

SendInstr == {Down("empty"), Down("buffer_key"), Do("free"), Do("fill"),
              Up("buffer_key"), Up("full")}
ReceiveInstr == {Down("full"), Down("buffer_key"), Do("used"), Do("take"),
                 Up("buffer_key"), Up("empty")}
AddInstr == {Down("count_mutex"), Do("read"), Do("add"), Up("count_mutex"), Do("count")}
EatInstr == {Down("key"), Up("key"), Do("hungry"), Do("thinking"), Do("eat")}
              \cup {<<"P", Queue(n)>> : n \in Seat}
              \cup {<<"look", n>> : n \in Seat} \cup {<<"let", n>> : n \in Seat}
LockInstr == {"P", "V"} \X Locks
WaitInstr == {Down("finished"), Down("producer_finished")}

(* Main sends and waits.                                                   *)
LEMMA MainInstr ==
  ASSUME problem \in Problem, NEW i \in 1..Len(Program(main))
  PROVE  Program(main)[i] \in SendInstr \cup WaitInstr
<1>1. CASE problem = "producerconsumer"
  <2>1. NUM_PRODUCERS \in Nat /\ NUM_CONSUMERS \in Nat /\ Sends \in Nat
    BY SynchProblemsAssumption DEF Sends
  <2>2. i \in 1..(NUM_PRODUCERS + Sends + NUM_CONSUMERS)
    BY <1>1, MainBufferProgram DEF Program
  <2>3. CASE i \in 1..NUM_PRODUCERS
    BY <1>1, <2>3, MainBufferProgram DEF Program, WaitInstr
  <2>4. CASE i - NUM_PRODUCERS \in 1..Sends
    <3>1. ((i - NUM_PRODUCERS - 1) % 6) + 1 \in 1..6
      BY <2>1, <2>4
    <3>2. \A k \in 1..6 : producer_send[k] \in SendInstr
      BY DEF producer_send, SendInstr
    <3>3. Program(main)[NUM_PRODUCERS + (i - NUM_PRODUCERS)]
            = producer_send[((i - NUM_PRODUCERS - 1) % 6) + 1]
      BY <1>1, <2>4, MainBufferProgram DEF Program
    <3> QED BY <2>1, <2>2, <3>1, <3>2, <3>3
  <2>5. CASE i - NUM_PRODUCERS - Sends \in 1..NUM_CONSUMERS
    <3>1. Program(main)[NUM_PRODUCERS + Sends + (i - NUM_PRODUCERS - Sends)] = Down("finished")
      BY <1>1, <2>5, MainBufferProgram DEF Program
    <3> QED BY <2>1, <2>2, <3>1 DEF WaitInstr
  <2> QED BY <2>1, <2>2, <2>3, <2>4, <2>5
<1>2. CASE problem # "producerconsumer"
  BY <1>2, MainWaitsProgram DEF Program, WaitInstr
<1> QED BY <1>1, <1>2

(* Every other thread keeps to the instructions of its kind.               *)
LEMMA Instructions ==
  ASSUME NEW t \in Thread \ {main}, NEW i \in 1..Len(Program(t))
  PROVE  /\ t \in Producer => Program(t)[i] \in SendInstr
         /\ t \in Consumer => Program(t)[i] \in ReceiveInstr
         /\ t \in Adder => Program(t)[i] \in AddInstr
         /\ t \in Philosopher => Program(t)[i] \in EatInstr
         /\ t \in {bill, ben} => Program(t)[i] \in LockInstr
<1>1. ASSUME t \in Producer PROVE Program(t)[i] \in SendInstr
  BY <1>1, ProducerProgram DEF producer_send, SendInstr
<1>2. ASSUME t \in Consumer PROVE Program(t)[i] \in ReceiveInstr
  BY <1>2, ConsumerProgram DEF consumer_receive, ReceiveInstr
<1>3. ASSUME t \in Adder PROVE Program(t)[i] \in AddInstr
  BY <1>3, AdderProgram DEF adder, AddInstr
<1>4. ASSUME t \in Philosopher PROVE Program(t)[i] \in EatInstr
  <2>1. t[2] \in Seat /\ left(t[2]) \in Seat /\ right(t[2]) \in Seat
    BY <1>4, Kinds, Neighbours
  <2>2. i \in 1..14
    BY <1>4, PhilProgram
  <2>3. CASE i \in {1, 2, 5, 7, 8, 9, 14}
    BY <1>4, <2>3, PhilProgram DEF EatInstr
  <2>4. CASE i = 6
    BY <1>4, <2>1, <2>4, PhilProgram DEF EatInstr
  <2>5. CASE i \in {3, 10, 12}
    <3>1. \E n \in Seat : Program(t)[i] = <<"look", n>>
      <4>1. CASE i = 3
        BY <1>4, <2>1, <4>1, PhilProgram
      <4>2. CASE i = 10
        BY <1>4, <2>1, <4>2, PhilProgram
      <4>3. CASE i = 12
        BY <1>4, <2>1, <4>3, PhilProgram
      <4> QED BY <2>5, <4>1, <4>2, <4>3
    <3> QED BY <3>1 DEF EatInstr
  <2>6. CASE i \in {4, 11, 13}
    <3>1. \E n \in Seat : Program(t)[i] = <<"let", n>>
      <4>1. CASE i = 4
        BY <1>4, <2>1, <4>1, PhilProgram
      <4>2. CASE i = 11
        BY <1>4, <2>1, <4>2, PhilProgram
      <4>3. CASE i = 13
        BY <1>4, <2>1, <4>3, PhilProgram
      <4> QED BY <2>6, <4>1, <4>2, <4>3
    <3> QED BY <3>1 DEF EatInstr
  <2> QED BY <2>2, <2>3, <2>4, <2>5, <2>6
<1>5. ASSUME t \in {bill, ben} PROVE Program(t)[i] \in LockInstr
  BY <1>5, BillBenProgram DEF LockInstr
<1> QED BY <1>1, <1>2, <1>3, <1>4, <1>5

-----------------------------------------------------------------------------
(* The invariant.                                                          *)

TypeOK ==
  /\ problem \in Problem \cup {"none"}
  /\ sem \in [Semaphore -> Nat] /\ pc \in [Thread -> Nat] /\ todo \in [Thread -> Nat]
  /\ item_buffer \in [0..(BUFFER_SIZE - 1) -> Item \cup {NULL}]
  /\ item \in [Consumer -> Item \cup {NULL}] /\ local \in [Thread -> Nat]
  /\ state \in [Seat -> {"thinking", "hungry", "eating"}]
  /\ counter \in Nat /\ adder_counters \in [Adder -> Nat]
  /\ sent \subseteq Item /\ received \subseteq Item

(* The philosophers. *)
AtTable == {2, 3, 4, 5} \cup 9..14
MustThink == {0, 1, 2} \cup 10..15
SeatRight(n) ==
  /\ pc[Ph(n)] \in 0..15
  /\ pc[Ph(n)] \in MustThink <=> state[n] = "thinking"
  /\ pc[Ph(n)] \in {3, 4} => state[n] = "hungry"
  /\ pc[Ph(n)] \in {7, 8, 9} => state[n] = "eating"
  /\ sem[Queue(n)] = IF state[n] = "eating" /\ pc[Ph(n)] \in {5, 6} THEN 1 ELSE 0
  /\ state[n] = "eating" => state[left(n)] # "eating" /\ state[right(n)] # "eating"
  /\ local[Ph(n)] = 1 => /\ pc[Ph(n)] = 4 => MayEat(n)
                         /\ pc[Ph(n)] = 11 => MayEat(left(n))
                         /\ pc[Ph(n)] = 13 => MayEat(right(n))
TableRight ==
  /\ sem[Sem("key")] <= 1
  /\ \A n \in Seat : pc[Ph(n)] \in AtTable =>
       sem[Sem("key")] = 0 /\ \A m \in Seat : pc[Ph(m)] \in AtTable => m = n
DiningRight == TableRight /\ \A n \in Seat : SeatRight(n)

(* The adders. *)
AddersRight ==
  /\ sem[Sem("count_mutex")] <= 1
  /\ \A t \in Adder :
       /\ pc[t] \in 0..6 /\ local[t] <= counter /\ (pc[t] = 3 => local[t] = counter)
       /\ pc[t] \in 2..4 => /\ sem[Sem("count_mutex")] = 0
                            /\ \A u \in Adder : pc[u] \in 2..4 => u = t
  /\ IsFiniteSet(Increments)
  /\ counter = Cardinality(Increments) + Cardinality(Uncounted)
  /\ counter <= NADDS
  /\ problem = "maths" => \A t \in Adder : pc[t] = 0 => counter = NADDS

(* The buffer.  Main, while it stops the consumers, is a producer.         *)
Sending == problem = "producerconsumer" /\ pc[main] - NUM_PRODUCERS \in 1..Sends
Place(t) == IF t # main THEN pc[t]
            ELSE IF Sending THEN ((pc[main] - NUM_PRODUCERS - 1) % 6) + 1 ELSE 1
FullSlots == DOMAIN item_buffer \ FreeSlots
HasFree == {t \in Sender : Place(t) \in 2..4} \cup {t \in Consumer : pc[t] \in 5..6}
HasFull == {t \in Sender : Place(t) \in 5..6} \cup {t \in Consumer : pc[t] \in 2..4}
CountsRight ==
  /\ sem[Sem("empty")] + Cardinality(HasFree) <= Cardinality(FreeSlots)
  /\ sem[Sem("full")] + Cardinality(HasFull) <= Cardinality(FullSlots)
KeyRight ==
  /\ sem[Sem("buffer_key")] <= 1
  /\ \A t \in Sender \cup Consumer : Place(t) \in 3..5 =>
       /\ sem[Sem("buffer_key")] = 0
       /\ \A u \in Sender \cup Consumer : Place(u) \in 3..5 => u = t
ItemsRight ==
  /\ \A t \in Producer \cup Consumer : pc[t] \in 0..7
  /\ \A t \in Sender : Place(t) = 4 => local[t] \in FreeSlots
  /\ \A t \in Consumer : pc[t] = 4 => local[t] \in FullSlots
  /\ \A i \in FullSlots : item_buffer[i] \in sent
  /\ \A i, j \in FullSlots : item_buffer[i] = item_buffer[j] => i = j
  /\ \A t \in Producer : /\ todo[t] <= ITEMS_TO_PRODUCE /\ (pc[t] # 0 => todo[t] >= 1)
                         /\ \A n \in Nat : <<t, n>> \in sent =>
                              n >= todo[t] /\ (n = todo[t] => pc[t] \in 5..7)
  /\ problem = "producerconsumer" => \A n \in Nat : <<main, n>> \in sent => n < pc[main]
BufferRight == CountsRight /\ KeyRight /\ ItemsRight

(* The drivers. *)
Gones(s) == {t \in Forked(problem) : Finished(t) = s /\ pc[t] = 0}
Downs(s) ==
  IF problem # "producerconsumer" THEN IF s = Sem("finished") THEN pc[main] - 1 ELSE 0
  ELSE IF s = Sem("finished")
       THEN IF pc[main] - 1 < NUM_PRODUCERS + Sends THEN 0
            ELSE pc[main] - 1 - NUM_PRODUCERS - Sends
       ELSE IF pc[main] - 1 < NUM_PRODUCERS THEN pc[main] - 1 ELSE NUM_PRODUCERS
DriverRight ==
  /\ todo[main] <= 1
  /\ \A p \in Problem \ {problem} : \A t \in Forked(p) : pc[t] = 0
  /\ problem = "none" => pc[main] = 0
  /\ problem # "none" =>
       /\ pc[main] \in 1..(Len(Program(main)) + 1)
       /\ \A s \in DoneSems : sem[s] + Downs(s) = Cardinality(Gones(s))

IInv == TypeOK /\ DiningRight /\ AddersRight /\ BufferRight /\ DriverRight

-----------------------------------------------------------------------------
(* What a step does, by the instruction it executes.                       *)

Does(t, w) ==
  /\ Advance(t)
  /\ w[1] = "P" => /\ sem[w[2]] > 0 /\ sem' = [sem EXCEPT ![w[2]] = @ - 1]
                   /\ UNCHANGED data
  /\ w[1] = "V" => sem' = [sem EXCEPT ![w[2]] = @ + 1] /\ UNCHANGED data
  /\ w[1] = "free" => Saw(t, First(FreeSlots))
  /\ w[1] = "used" => Saw(t, First(FullSlots))
  /\ w[1] = "fill" => Fill(t)
  /\ w[1] = "take" => Take(t)
  /\ w[1] \in {"hungry", "thinking"} =>
       /\ state' = [state EXCEPT ![t[2]] = w[1]]
       /\ UNCHANGED <<sem, buffers, local, counters>>
  /\ w[1] = "look" => Saw(t, IF MayEat(w[2]) THEN 1 ELSE 0)
  /\ w[1] = "let" => Let(t)
  /\ w[1] = "eat" => UNCHANGED <<sem, data>>
  /\ w[1] = "read" => Saw(t, counter)
  /\ w[1] = "add" => Add(t)
  /\ w[1] = "count" => Count(t)

(* A thread that is in its list executes the instruction it is at.         *)
LEMMA Execute ==
  ASSUME NEW t \in Thread, Step(t), Len(Program(t)) \in Nat, pc[t] \in 1..Len(Program(t))
  PROVE  Does(t, Program(t)[pc[t]])
<1>0. PICK k, w : k = pc[t] /\ w = Program(t)[pc[t]]
  OBVIOUS
<1>1. pc[t] # Len(Program(t)) + 1 /\ (t = main => Len(MainProgram[problem]) = Len(Program(t)))
  BY DEF Program
<1>2. ~Loop(t) /\ ~Finish(t) /\ ~(t = main /\ MainReturns)
  BY <1>1 DEF Loop, Finish, MainReturns, Waited
<1>3. \A x : At(t, x) <=> w[1] = x
  BY <1>0 DEF At
<1>4. Operand(t) = w[2]
  BY <1>0 DEF Operand
<1>5. \/ P(t) \/ V(t) \/ Search(t) \/ Fill(t) \/ Take(t)
      \/ Want(t) \/ Look(t) \/ Let(t) \/ Eat(t) \/ Read(t) \/ Add(t) \/ Count(t)
  BY <1>2 DEF Step
<1>6. Advance(t)
  BY <1>5 DEF P, V, Search, Fill, Take, Want, Look, Let, Eat, Read, Add, Count, Saw
<1>7. Does(t, w)
  <2>1. CASE P(t)
    BY <1>3, <1>4, <1>6, <2>1 DEF Does, P
  <2>2. CASE V(t)
    BY <1>3, <1>4, <1>6, <2>2 DEF Does, V
  <2>3. CASE Search(t)
    BY <1>3, <1>4, <1>6, <2>3 DEF Does, Search, FullSlots
  <2>4. CASE Fill(t) \/ Take(t)
    BY <1>3, <1>4, <1>6, <2>4 DEF Does, Fill, Take
  <2>5. CASE Want(t)
    BY <1>3, <1>4, <1>6, <2>5 DEF Does, Want
  <2>6. CASE Look(t)
    BY <1>3, <1>4, <1>6, <2>6 DEF Does, Look
  <2>7. CASE Let(t) \/ Eat(t)
    BY <1>3, <1>4, <1>6, <2>7 DEF Does, Let, Eat
  <2>8. CASE Read(t)
    BY <1>3, <1>4, <1>6, <2>8 DEF Does, Read
  <2>9. CASE Add(t) \/ Count(t)
    BY <1>3, <1>4, <1>6, <2>9 DEF Does, Add, Count
  <2> QED BY <1>5, <2>1, <2>2, <2>3, <2>4, <2>5, <2>6, <2>7, <2>8, <2>9
<1> QED BY <1>0, <1>7

(* A thread at the end of its list begins again or leaves.                 *)
LEMMA AtEnd ==
  ASSUME NEW t \in Thread, Step(t), Len(Program(t)) \in Nat, pc[t] \notin 1..Len(Program(t))
  PROVE  pc[t] = Len(Program(t)) + 1 /\ (Loop(t) \/ Finish(t) \/ (t = main /\ MainReturns))
<1>1. \A x : ~At(t, x)
  BY DEF At
<1> QED BY <1>1 DEF Step, P, V, Search, Fill, Take, Want, Look, Let, Eat, Read, Add,
                    Count, Loop, Finish, MainReturns, Waited, Program

(* A step keeps the other threads' locals, and the types.                  *)
LEMMA Slots ==
  ASSUME TypeOK
  PROVE  /\ DOMAIN item_buffer = 0..(BUFFER_SIZE - 1) /\ BUFFER_SIZE \in Nat
         /\ FreeSlots \subseteq Nat /\ FullSlots \subseteq Nat
         /\ First(FreeSlots) \in Nat /\ First(FullSlots) \in Nat
         /\ \A i : i \in FreeSlots <=> i \in 0..(BUFFER_SIZE - 1) /\ item_buffer[i] = NULL
         /\ \A i : i \in FullSlots <=> i \in 0..(BUFFER_SIZE - 1) /\ item_buffer[i] # NULL
<1>1. DOMAIN item_buffer = 0..(BUFFER_SIZE - 1) /\ BUFFER_SIZE \in Nat
  BY SynchProblemsAssumption DEF TypeOK
<1>2. FreeSlots \subseteq Nat /\ FullSlots \subseteq Nat
  BY <1>1 DEF FreeSlots, FullSlots
<1>3. First(FreeSlots) \in Nat /\ First(FullSlots) \in Nat
  <2>1. First({}) = BUFFER_SIZE
    BY DEF First
  <2> QED BY <1>1, <1>2, <2>1, FirstIs
<1> QED BY <1>1, <1>2, <1>3 DEF FreeSlots, FullSlots

LEMMA Elsewhere ==
  ASSUME TypeOK, NEW t \in Thread, Step(t)
  PROVE  /\ pc' = [pc EXCEPT ![t] = pc'[t]] /\ local' = [local EXCEPT ![t] = local'[t]]
         /\ todo' = [todo EXCEPT ![t] = todo'[t]]
         /\ \A u \in Consumer \ {t} : item'[u] = item[u]
         /\ problem' = problem \/ (t = main /\ problem' = "none")
<1>1. /\ pc = [u \in Thread |-> pc[u]] /\ local = [u \in Thread |-> local[u]]
      /\ todo = [u \in Thread |-> todo[u]] /\ item = [u \in Consumer |-> item[u]]
  BY DEF TypeOK
<1>2. CASE P(t) \/ V(t) \/ Eat(t)
  BY <1>1, <1>2 DEF P, V, Eat, Advance, data, buffers, counters
<1>3. CASE Search(t) \/ Look(t) \/ Read(t)
  BY <1>1, <1>3 DEF Search, Look, Read, Saw, Advance, buffers
<1>4. CASE Fill(t) \/ Take(t) \/ Let(t)
  BY <1>1, <1>4 DEF Fill, Take, Let, Advance, buffers
<1>5. CASE Want(t) \/ Add(t) \/ Count(t)
  BY <1>1, <1>5 DEF Want, Add, Count, Advance, buffers
<1>6. CASE Loop(t) \/ Finish(t) \/ (t = main /\ MainReturns)
  BY <1>1, <1>6 DEF Loop, Finish, MainReturns, Gone, Forget
<1> QED BY <1>2, <1>3, <1>4, <1>5, <1>6 DEF Step

(* The end of a thread's list. *)
LEMMA End ==
  ASSUME TypeOK, NEW t \in Thread, Loop(t) \/ Finish(t) \/ (t = main /\ MainReturns)
  PROVE  /\ UNCHANGED <<item_buffer, state, counters, sent, received>>
         /\ local'[t] = 0 /\ (t \notin Consumer => item' = item)
         /\ \/ Loop(t) /\ sem' = sem /\ pc'[t] = 1 /\ problem' = problem
               /\ todo'[t] = IF todo[t] > 1 THEN todo[t] - 1 ELSE todo[t]
            \/ Finish(t) /\ t # main /\ sem' = [sem EXCEPT ![Finished(t)] = @ + 1]
               /\ pc'[t] = 0 /\ todo'[t] = 0 /\ problem' = problem
            \/ t = main /\ MainReturns /\ sem' = sem /\ pc'[t] = 0 /\ problem' = "none"
               /\ todo'[t] = 0
<1>1. /\ pc = [u \in Thread |-> pc[u]] /\ local = [u \in Thread |-> local[u]]
      /\ todo = [u \in Thread |-> todo[u]] /\ item = [u \in Consumer |-> item[u]]
  BY DEF TypeOK
<1>2. Forget(t) => /\ UNCHANGED <<item_buffer, state, counters, sent, received>>
                   /\ local'[t] = 0 /\ (t \notin Consumer => item' = item)
  BY <1>1 DEF Forget
<1>3. CASE Loop(t)
  BY <1>1, <1>2, <1>3 DEF Loop
<1>4. CASE Finish(t)
  BY <1>1, <1>2, <1>4 DEF Finish, Gone
<1>5. CASE t = main /\ MainReturns
  BY <1>1, <1>2, <1>5 DEF MainReturns, Gone
<1> QED BY <1>3, <1>4, <1>5

(* Every step keeps the types of what is not the buffer's.                 *)
LEMMA Types ==
  ASSUME TypeOK, NEW t \in Thread, Step(t)
  PROVE  /\ problem' \in Problem \cup {"none"}
         /\ sem' \in [Semaphore -> Nat] /\ pc' \in [Thread -> Nat] /\ todo' \in [Thread -> Nat]
         /\ local' \in [Thread -> Nat]
         /\ state' \in [Seat -> {"thinking", "hungry", "eating"}]
         /\ counter' \in Nat /\ adder_counters' \in [Adder -> Nat]
<1>1. problem' \in Problem \cup {"none"}
  BY Elsewhere DEF TypeOK
<1>2. /\ sem \in [Semaphore -> Nat] /\ pc \in [Thread -> Nat] /\ todo \in [Thread -> Nat]
      /\ local \in [Thread -> Nat] /\ counter \in Nat /\ adder_counters \in [Adder -> Nat]
      /\ state \in [Seat -> {"thinking", "hungry", "eating"}]
  BY DEF TypeOK
<1>3. CASE P(t) \/ V(t)
  <2>1. UNCHANGED <<data, todo>> /\ pc' = [pc EXCEPT ![t] = @ + 1]
    BY <1>3 DEF P, V, Advance
  <2>2. sem' \in [Semaphore -> Nat]
    BY <1>2, <1>3 DEF P, V
  <2> QED BY <1>1, <1>2, <2>1, <2>2 DEF data, counters
<1>4. CASE Eat(t) \/ Want(t)
  BY <1>1, <1>2, <1>4 DEF Eat, Want, Advance, data, counters
<1>5. CASE Search(t) \/ Look(t) \/ Read(t)
  <2>1. \E x \in Nat : Saw(t, x)
    BY <1>2, <1>5, Slots DEF Search, Look, Read, FullSlots
  <2> QED BY <1>1, <1>2, <2>1 DEF Saw, Advance, counters
<1>6. CASE Fill(t) \/ Take(t)
  BY <1>1, <1>2, <1>6 DEF Fill, Take, Advance, counters
<1>7. CASE Let(t)
  BY <1>1, <1>2, <1>7 DEF Let, Advance, counters
<1>8. CASE Add(t) \/ Count(t)
  <2>1. local[t] \in Nat
    BY <1>2
  <2> QED BY <1>1, <1>2, <1>8, <2>1 DEF Add, Count, Advance
<1>9. CASE Loop(t) \/ Finish(t) \/ (t = main /\ MainReturns)
  <2>1. /\ UNCHANGED <<state, counter, adder_counters>>
        /\ local'[t] = 0 /\ pc'[t] \in Nat /\ todo'[t] \in Nat
    BY <1>2, <1>9, End DEF counters
  <2>2. sem' \in [Semaphore -> Nat]
    <3>1. sem' = sem \/ sem' = [sem EXCEPT ![Finished(t)] = @ + 1]
      BY <1>9, End
    <3> QED BY <1>2, <3>1
  <2>3. /\ pc' = [pc EXCEPT ![t] = pc'[t]] /\ local' = [local EXCEPT ![t] = local'[t]]
        /\ todo' = [todo EXCEPT ![t] = todo'[t]]
    BY Elsewhere
  <2> QED BY <1>1, <1>2, <2>1, <2>2, <2>3
<1> QED BY <1>3, <1>4, <1>5, <1>6, <1>7, <1>8, <1>9 DEF Step

(* Each group of threads keeps to its own semaphores and data.             *)
LEMMA Lengths ==
  ASSUME TypeOK, NEW t \in Thread, Step(t), DriverRight
  PROVE  Len(Program(t)) \in Nat /\ (t = main => problem \in Problem)
<1>1. CASE t = main
  <2>1. problem \in Problem
    BY <1>1 DEF TypeOK, DriverRight, Step
  <2>2. CASE problem = "producerconsumer"
    <3>1. NUM_PRODUCERS \in Nat /\ NUM_CONSUMERS \in Nat /\ Sends \in Nat
      BY SynchProblemsAssumption DEF Sends
    <3>2. Len(MainProgram["producerconsumer"]) = NUM_PRODUCERS + Sends + NUM_CONSUMERS
      BY MainBufferProgram
    <3> QED BY <1>1, <2>1, <2>2, <3>1, <3>2 DEF Program
  <2>3. CASE problem # "producerconsumer"
    BY <1>1, <2>1, <2>3, MainWaitsProgram, ForkedFinite DEF Program
  <2> QED BY <2>1, <2>2, <2>3
<1>2. CASE t \in Producer
  BY <1>2, ProducerProgram DEF producer_send
<1>3. CASE t \in Consumer
  BY <1>3, ConsumerProgram DEF consumer_receive
<1>4. CASE t \in Adder
  BY <1>4, AdderProgram DEF adder
<1>5. CASE t \in Philosopher
  BY <1>5, PhilProgram, Kinds
<1>6. CASE t \in {bill, ben}
  BY <1>6, BillBenProgram, Kinds
<1> QED BY <1>1, <1>2, <1>3, <1>4, <1>5, <1>6, Classes DEF Sender

(* A step is an instruction of the thread's kind, or its end.              *)
LEMMA InOwnPlace ==
  ASSUME TypeOK, NEW t \in Thread, Step(t), DriverRight
  PROVE  \/ /\ pc[t] \in 1..Len(Program(t))
            /\ t \in Sender => Program(t)[pc[t]] \in SendInstr \cup WaitInstr
            /\ t \in Consumer => Program(t)[pc[t]] \in ReceiveInstr
            /\ t \in Adder => Program(t)[pc[t]] \in AddInstr
            /\ t \in Philosopher => Program(t)[pc[t]] \in EatInstr
            /\ t \in {bill, ben} => Program(t)[pc[t]] \in LockInstr
         \/ /\ pc[t] = Len(Program(t)) + 1
            /\ Loop(t) \/ Finish(t) \/ (t = main /\ MainReturns)
<1>1. CASE pc[t] \notin 1..Len(Program(t))
  BY <1>1, AtEnd, Lengths
<1>2. CASE pc[t] \in 1..Len(Program(t)) /\ t = main
  <2>1. Program(t)[pc[t]] \in SendInstr \cup WaitInstr
    BY <1>2, Lengths, MainInstr
  <2> QED BY <1>2, <2>1, Classes DEF Sender
<1>3. CASE pc[t] \in 1..Len(Program(t)) /\ t # main
  BY <1>3, Instructions DEF Sender
<1> QED BY <1>1, <1>2, <1>3

(* Only philosophers touch the table.                                      *)
LEMMA NotPhilosopher ==
  ASSUME TypeOK, DriverRight, NEW t \in Thread \ Philosopher, Step(t)
  PROVE  state' = state /\ \A s \in DiningSems : sem'[s] = sem[s]
<1>0. sem \in [Semaphore -> Nat] /\ DiningSems \subseteq Semaphore
  BY Sems DEF TypeOK
<1>1. CASE pc[t] \in 1..Len(Program(t))
  <2>1. PICK w : w = Program(t)[pc[t]]
    OBVIOUS
  <2>2. w \in SendInstr \cup WaitInstr \cup ReceiveInstr \cup AddInstr \cup LockInstr
    BY <1>1, <2>1, InOwnPlace, Lengths, Classes
  <2>3. /\ w[1] \in {"P", "V", "free", "used", "fill", "take", "read", "add", "count"}
        /\ w[1] \in {"P", "V"} => w[2] \in BufferSems \cup DoneSems \cup Locks \cup {Sem("count_mutex")}
    BY <2>2 DEF SendInstr, WaitInstr, ReceiveInstr, AddInstr, LockInstr, Down, Up, Do,
                BufferSems, DoneSems
  <2>4. CASE w[1] = "P"
    BY <1>0, <1>1, <2>1, <2>3, <2>4, Execute, Lengths, Sems DEF Does, data
  <2>5. CASE w[1] = "V"
    BY <1>0, <1>1, <2>1, <2>3, <2>5, Execute, Lengths, Sems DEF Does, data
  <2>6. CASE w[1] \in {"free", "used", "read"}
    BY <1>1, <2>1, <2>6, Execute, Lengths DEF Does, Saw
  <2>7. CASE w[1] \in {"fill", "take", "add", "count"}
    BY <1>1, <2>1, <2>7, Execute, Lengths DEF Does, Fill, Take, Add, Count
  <2> QED BY <2>3, <2>4, <2>5, <2>6, <2>7
<1>2. CASE pc[t] \notin 1..Len(Program(t))
  <2>1. state' = state /\ (sem' = sem \/ sem' = [sem EXCEPT ![Finished(t)] = @ + 1])
    BY <1>2, InOwnPlace, End
  <2>2. Finished(t) \in DoneSems
    BY DEF Finished, DoneSems
  <2> QED BY <1>0, <2>1, <2>2, Sems
<1> QED BY <1>1, <1>2

(* Only adders touch the counter and its mutex.                            *)
LEMMA NotAdder ==
  ASSUME TypeOK, DriverRight, NEW t \in Thread \ Adder, Step(t)
  PROVE  counters' = counters /\ sem'[Sem("count_mutex")] = sem[Sem("count_mutex")]
<1>0. sem \in [Semaphore -> Nat] /\ Sem("count_mutex") \in Semaphore
  BY Sems DEF TypeOK
<1>1. CASE pc[t] \in 1..Len(Program(t))
  <2>1. PICK w : w = Program(t)[pc[t]]
    OBVIOUS
  <2>2. w \in SendInstr \cup WaitInstr \cup ReceiveInstr \cup EatInstr \cup LockInstr
    BY <1>1, <2>1, InOwnPlace, Lengths, Classes
  <2>3. /\ w[1] \in {"P", "V", "free", "used", "fill", "take", "hungry", "thinking",
                     "look", "let", "eat"}
        /\ w[1] \in {"P", "V"} => w[2] \in BufferSems \cup DoneSems \cup Locks \cup DiningSems
        /\ w[1] = "let" => \E n \in Seat : w[2] = n
    BY <2>2 DEF SendInstr, WaitInstr, ReceiveInstr, EatInstr, LockInstr, Down, Up, Do,
                BufferSems, DoneSems, DiningSems
  <2>4. CASE w[1] = "P"
    BY <1>0, <1>1, <2>1, <2>3, <2>4, Execute, Lengths, Sems DEF Does, data
  <2>5. CASE w[1] = "V"
    BY <1>0, <1>1, <2>1, <2>3, <2>5, Execute, Lengths, Sems DEF Does, data
  <2>6. CASE w[1] \in {"free", "used", "look"}
    BY <1>1, <2>1, <2>6, Execute, Lengths DEF Does, Saw
  <2>7. CASE w[1] \in {"fill", "take", "hungry", "thinking", "eat"}
    BY <1>1, <2>1, <2>7, Execute, Lengths DEF Does, Fill, Take, data
  <2>8. CASE w[1] = "let"
    <3>1. Let(t) /\ Operand(t) \in Seat
      BY <1>1, <2>1, <2>3, <2>8, Execute, Lengths DEF Does, Operand
    <3>2. Queue(Operand(t)) # Sem("count_mutex")
      BY <3>1, Sems
    <3> QED BY <1>0, <3>1, <3>2 DEF Let
  <2> QED BY <2>3, <2>4, <2>5, <2>6, <2>7, <2>8
<1>2. CASE pc[t] \notin 1..Len(Program(t))
  <2>1. counters' = counters /\ (sem' = sem \/ sem' = [sem EXCEPT ![Finished(t)] = @ + 1])
    BY <1>2, InOwnPlace, End
  <2>2. Finished(t) \in DoneSems
    BY DEF Finished, DoneSems
  <2> QED BY <1>0, <2>1, <2>2, Sems
<1> QED BY <1>1, <1>2

(* Only senders and consumers touch the buffer.                            *)
LEMMA NotBufferThread ==
  ASSUME TypeOK, DriverRight, NEW t \in Thread \ (Sender \cup Consumer), Step(t)
  PROVE  buffers' = buffers /\ \A s \in BufferSems : sem'[s] = sem[s]
<1>0. sem \in [Semaphore -> Nat] /\ BufferSems \subseteq Semaphore
  BY Sems DEF TypeOK
<1>1. CASE pc[t] \in 1..Len(Program(t))
  <2>1. PICK w : w = Program(t)[pc[t]]
    OBVIOUS
  <2>2. w \in AddInstr \cup EatInstr \cup LockInstr
    BY <1>1, <2>1, InOwnPlace, Lengths, Classes
  <2>3. /\ w[1] \in {"P", "V", "hungry", "thinking", "look", "let", "eat", "read", "add", "count"}
        /\ w[1] \in {"P", "V"} => w[2] \in DiningSems \cup Locks \cup {Sem("count_mutex")}
        /\ w[1] = "let" => \E n \in Seat : w[2] = n
    BY <2>2 DEF AddInstr, EatInstr, LockInstr, Down, Up, Do, DiningSems
  <2>4. CASE w[1] = "P"
    BY <1>0, <1>1, <2>1, <2>3, <2>4, Execute, Lengths, Sems DEF Does, data
  <2>5. CASE w[1] = "V"
    BY <1>0, <1>1, <2>1, <2>3, <2>5, Execute, Lengths, Sems DEF Does, data
  <2>6. CASE w[1] \in {"read", "look"}
    BY <1>1, <2>1, <2>6, Execute, Lengths DEF Does, Saw
  <2>7. CASE w[1] \in {"add", "count", "hungry", "thinking", "eat"}
    BY <1>1, <2>1, <2>7, Execute, Lengths DEF Does, Add, Count, data
  <2>8. CASE w[1] = "let"
    <3>1. Let(t) /\ Operand(t) \in Seat
      BY <1>1, <2>1, <2>3, <2>8, Execute, Lengths DEF Does, Operand
    <3>2. \A s \in BufferSems : Queue(Operand(t)) # s
      BY <3>1, Sems
    <3> QED BY <1>0, <3>1, <3>2 DEF Let
  <2> QED BY <2>3, <2>4, <2>5, <2>6, <2>7, <2>8
<1>2. CASE pc[t] \notin 1..Len(Program(t))
  <2>1. /\ buffers' = buffers
        /\ sem' = sem \/ sem' = [sem EXCEPT ![Finished(t)] = @ + 1]
    BY <1>2, InOwnPlace, End DEF buffers
  <2>2. Finished(t) \in DoneSems
    BY DEF Finished, DoneSems
  <2> QED BY <1>0, <2>1, <2>2, Sems
<1> QED BY <1>1, <1>2

-----------------------------------------------------------------------------
(* The philosophers.                                                       *)

(* The others leave the table right.                                       *)
LEMMA DiningKept ==
  ASSUME TypeOK, DriverRight, DiningRight, NEW t \in Thread \ Philosopher, Step(t)
  PROVE  DiningRight'
<1>1. state' = state /\ \A s \in DiningSems : sem'[s] = sem[s]
  BY NotPhilosopher
<1>2. sem'[Sem("key")] = sem[Sem("key")] /\ \A n \in Seat : sem'[Queue(n)] = sem[Queue(n)]
  BY <1>1 DEF DiningSems
<1>3. \A n \in Seat : Ph(n) # t /\ Ph(n) \in Thread
  BY Philosophers
<1>4. \A n \in Seat : pc'[Ph(n)] = pc[Ph(n)] /\ local'[Ph(n)] = local[Ph(n)]
  BY <1>3, Elsewhere DEF TypeOK
<1>5. TableRight'
  BY <1>2, <1>4 DEF DiningRight, TableRight
<1>6. ASSUME NEW n \in Seat PROVE SeatRight(n)'
  BY <1>1, <1>2, <1>4, <1>6 DEF DiningRight, SeatRight, MayEat
<1> QED BY <1>5, <1>6 DEF DiningRight

(* A philosopher's step, by its place. *)
LEMMA PhilStep ==
  ASSUME TypeOK, DriverRight, DiningRight, NEW n \in Seat, Step(Ph(n))
  PROVE  /\ pc[Ph(n)] \in 1..15
         /\ pc[Ph(n)] \in 1..14 => pc'[Ph(n)] = pc[Ph(n)] + 1
         /\ pc[Ph(n)] \in {1, 8} =>
              /\ sem[Sem("key")] > 0 /\ sem' = [sem EXCEPT ![Sem("key")] = @ - 1]
              /\ UNCHANGED <<state, local>>
         /\ pc[Ph(n)] \in {5, 14} =>
              sem' = [sem EXCEPT ![Sem("key")] = @ + 1] /\ UNCHANGED <<state, local>>
         /\ pc[Ph(n)] = 6 =>
              /\ sem[Queue(n)] > 0 /\ sem' = [sem EXCEPT ![Queue(n)] = @ - 1]
              /\ UNCHANGED <<state, local>>
         /\ pc[Ph(n)] = 2 => state' = [state EXCEPT ![n] = "hungry"] /\ UNCHANGED <<sem, local>>
         /\ pc[Ph(n)] = 9 => state' = [state EXCEPT ![n] = "thinking"] /\ UNCHANGED <<sem, local>>
         /\ pc[Ph(n)] = 7 => UNCHANGED <<sem, state, local>>
         /\ \A m \in Seat :
              /\ \/ pc[Ph(n)] = 3 /\ m = n
                 \/ pc[Ph(n)] = 10 /\ m = left(n)
                 \/ pc[Ph(n)] = 12 /\ m = right(n)
                 => UNCHANGED <<sem, state>> /\ local'[Ph(n)] = IF MayEat(m) THEN 1 ELSE 0
              /\ \/ pc[Ph(n)] = 4 /\ m = n
                 \/ pc[Ph(n)] = 11 /\ m = left(n)
                 \/ pc[Ph(n)] = 13 /\ m = right(n)
                 => /\ local'[Ph(n)] = 0
                    /\ IF local[Ph(n)] = 1
                       THEN /\ state' = [state EXCEPT ![m] = "eating"]
                            /\ sem' = [sem EXCEPT ![Queue(m)] = @ + 1]
                       ELSE UNCHANGED <<sem, state>>
         /\ pc[Ph(n)] = 15 =>
              /\ UNCHANGED state /\ local'[Ph(n)] = 0 /\ pc'[Ph(n)] \in {0, 1}
              /\ sem' = sem \/ sem' = [sem EXCEPT ![Sem("finished")] = @ + 1]
<1>0. PICK t : t = Ph(n)
  OBVIOUS
<1>1. t \in Philosopher /\ t \in Thread \ {main} /\ t[2] = n /\ t \in Thread /\ t \notin Producer
      /\ Step(t)
  BY <1>0, Philosophers, Classes DEF Sender
<1>2. /\ Len(Program(t)) = 14
      /\ Program(t)[1] = Down("key") /\ Program(t)[2] = Do("hungry")
      /\ Program(t)[3] = <<"look", n>> /\ Program(t)[4] = <<"let", n>>
      /\ Program(t)[5] = Up("key") /\ Program(t)[6] = <<"P", Queue(n)>>
      /\ Program(t)[7] = Do("eat")
      /\ Program(t)[8] = Down("key") /\ Program(t)[9] = Do("thinking")
      /\ Program(t)[10] = <<"look", left(n)>> /\ Program(t)[11] = <<"let", left(n)>>
      /\ Program(t)[12] = <<"look", right(n)>> /\ Program(t)[13] = <<"let", right(n)>>
      /\ Program(t)[14] = Up("key")
  BY <1>1, PhilProgram
<1>3. /\ pc \in [Thread -> Nat] /\ local \in [Thread -> Nat] /\ pc[t] \in Nat
  BY <1>1 DEF TypeOK
<1>l. Len(Program(t)) = 14 /\ Len(Program(t)) \in Nat
  BY <1>2
<1>4. pc[t] \in 1..14 \/ (pc[t] = 15 /\ (Loop(t) \/ Finish(t)))
  <2>1. CASE pc[t] \in 1..14
    BY <2>1
  <2>2. CASE pc[t] \notin 1..14
    <3>1. pc[t] \notin 1..Len(Program(t))
      BY <1>l, <2>2
    <3>2. pc[t] = Len(Program(t)) + 1 /\ (Loop(t) \/ Finish(t))
      BY <1>1, <1>l, <3>1, AtEnd
    <3> QED BY <1>l, <3>2
  <2> QED BY <2>1, <2>2
<1>x. ASSUME pc[t] \in 1..14 PROVE Does(t, Program(t)[pc[t]])
  BY <1>1, <1>l, <1>x, Execute
<1>5. pc[t] \in 1..14 => pc'[t] = pc[t] + 1
  BY <1>1, <1>2, <1>3, <1>x DEF Does, Advance
<1>6. pc[t] \in {1, 8} =>
              /\ sem[Sem("key")] > 0 /\ sem' = [sem EXCEPT ![Sem("key")] = @ - 1]
              /\ UNCHANGED <<state, local>>
  BY <1>1, <1>2, <1>x DEF Does, Down, data
<1>7. pc[t] \in {5, 14} =>
              sem' = [sem EXCEPT ![Sem("key")] = @ + 1] /\ UNCHANGED <<state, local>>
  BY <1>1, <1>2, <1>x DEF Does, Up, data
<1>8. pc[t] = 6 =>
              /\ sem[Queue(n)] > 0 /\ sem' = [sem EXCEPT ![Queue(n)] = @ - 1]
              /\ UNCHANGED <<state, local>>
  BY <1>1, <1>2, <1>x DEF Does, data
<1>9. /\ pc[t] = 2 => state' = [state EXCEPT ![n] = "hungry"] /\ UNCHANGED <<sem, local>>
      /\ pc[t] = 9 => state' = [state EXCEPT ![n] = "thinking"] /\ UNCHANGED <<sem, local>>
  BY <1>1, <1>2, <1>x DEF Does, Do
<1>10. pc[t] = 7 => UNCHANGED <<sem, state, local>>
  BY <1>1, <1>2, <1>x DEF Does, Do, data
<1>11. ASSUME NEW m \in Seat,
              \/ pc[t] = 3 /\ m = n
              \/ pc[t] = 10 /\ m = left(n)
              \/ pc[t] = 12 /\ m = right(n)
       PROVE  UNCHANGED <<sem, state>> /\ local'[t] = IF MayEat(m) THEN 1 ELSE 0
  <2>1. Program(t)[pc[t]] = <<"look", m>>
    BY <1>2, <1>11
  <2>2. Saw(t, IF MayEat(m) THEN 1 ELSE 0)
    BY <1>1, <1>2, <1>11, <2>1, <1>x DEF Does
  <2> QED BY <1>1, <1>3, <2>2 DEF Saw
<1>12. ASSUME NEW m \in Seat,
              \/ pc[t] = 4 /\ m = n
              \/ pc[t] = 11 /\ m = left(n)
              \/ pc[t] = 13 /\ m = right(n)
       PROVE  /\ local'[t] = 0
              /\ IF local[t] = 1
                 THEN /\ state' = [state EXCEPT ![m] = "eating"]
                      /\ sem' = [sem EXCEPT ![Queue(m)] = @ + 1]
                 ELSE UNCHANGED <<sem, state>>
  <2>1. Program(t)[pc[t]] = <<"let", m>>
    BY <1>2, <1>12
  <2>2. Let(t) /\ Operand(t) = m
    BY <1>1, <1>2, <1>12, <2>1, <1>x DEF Does, Operand
  <2> QED BY <1>1, <1>3, <2>2 DEF Let
<1>13. pc[t] = 15 =>
              /\ UNCHANGED state /\ local'[t] = 0 /\ pc'[t] \in {0, 1}
              /\ sem' = sem \/ sem' = [sem EXCEPT ![Sem("finished")] = @ + 1]
  BY <1>1, <1>4, End DEF Finished
<1> QED BY <1>0, <1>4, <1>5, <1>6, <1>7, <1>8, <1>9, <1>10, <1>11, <1>12, <1>13

(* A philosopher leaves the table right.                                   *)
LEMMA PhilosopherDines ==
  ASSUME TypeOK, DriverRight, DiningRight, NEW n \in Seat, Step(Ph(n))
  PROVE  DiningRight'
<1>1. /\ sem \in [Semaphore -> Nat] /\ pc \in [Thread -> Nat] /\ local \in [Thread -> Nat]
      /\ state \in [Seat -> {"thinking", "hungry", "eating"}]
      /\ Sem("key") \in Semaphore /\ \A m \in Seat : Queue(m) \in Semaphore
      /\ sem[Sem("key")] \in Nat /\ sem[Sem("key")] <= 1
  <2>1. Sem("key") \in Semaphore /\ \A m \in Seat : Queue(m) \in Semaphore
    BY Sems DEF DiningSems
  <2> QED BY <2>1 DEF TypeOK, DiningRight, TableRight
<1>2. /\ \A m \in Seat : Queue(m) # Sem("key") /\ Queue(m) # Sem("finished")
      /\ \A m, k \in Seat : Queue(m) = Queue(k) => m = k
      /\ Sem("finished") # Sem("key")
  BY Sems
<1>3. /\ \A m \in Seat : Ph(m) \in Thread /\ pc[Ph(m)] \in 0..15
      /\ \A m, k \in Seat : Ph(m) = Ph(k) => m = k
  BY Philosophers DEF DiningRight, SeatRight
<1>4. \A m \in Seat \ {n} : pc'[Ph(m)] = pc[Ph(m)] /\ local'[Ph(m)] = local[Ph(m)]
  BY <1>1, <1>3, Elsewhere
<1>5. \A m \in Seat : /\ left(m) \in Seat /\ right(m) \in Seat /\ left(m) # m /\ right(m) # m
                      /\ left(right(m)) = m /\ right(left(m)) = m
  BY Neighbours
<1>6. /\ \A m \in Seat : pc[Ph(m)] \in AtTable => sem[Sem("key")] = 0
      /\ \A m, k \in Seat : pc[Ph(m)] \in AtTable /\ pc[Ph(k)] \in AtTable => m = k
  BY DEF DiningRight, TableRight
<1>7. \A m \in Seat : SeatRight(m)
  BY DEF DiningRight
<1>a. CASE pc[Ph(n)] \in {1, 8}
  <2>1. /\ sem[Sem("key")] = 1 /\ sem'[Sem("key")] = 0 /\ state' = state /\ local' = local
        /\ \A m \in Seat : sem'[Queue(m)] = sem[Queue(m)]
        /\ pc'[Ph(n)] \in {2, 9} /\ pc'[Ph(n)] = pc[Ph(n)] + 1
    BY <1>1, <1>2, <1>a, PhilStep
  <2>2. TableRight'
    BY <1>3, <1>4, <1>6, <2>1 DEF TableRight, AtTable
  <2>3. ASSUME NEW m \in Seat PROVE SeatRight(m)'
    <3>1. CASE m = n
      BY <1>7, <1>a, <2>1, <3>1 DEF SeatRight, MayEat, MustThink
    <3>2. CASE m # n
      BY <1>4, <1>7, <2>1, <3>2 DEF SeatRight, MayEat
    <3> QED BY <3>1, <3>2
  <2> QED BY <2>2, <2>3 DEF DiningRight
<1>b. CASE pc[Ph(n)] \in {5, 14}
  <2>1. /\ sem[Sem("key")] = 0
    BY <1>6, <1>b DEF AtTable
  <2>2. /\ sem'[Sem("key")] = 1 /\ state' = state /\ local' = local
        /\ \A m \in Seat : sem'[Queue(m)] = sem[Queue(m)]
        /\ pc'[Ph(n)] \in {6, 15} /\ pc'[Ph(n)] = pc[Ph(n)] + 1
    BY <1>1, <1>2, <1>b, <2>1, PhilStep
  <2>3. TableRight'
    <3>1. \A m \in Seat : pc'[Ph(m)] \notin AtTable
      <4>1. pc[Ph(n)] \in AtTable
        BY <1>b DEF AtTable
      <4> QED BY <1>3, <1>4, <1>6, <2>2, <4>1 DEF AtTable
    <3> QED BY <2>2, <3>1 DEF TableRight
  <2>4. ASSUME NEW m \in Seat PROVE SeatRight(m)'
    <3>1. CASE m = n
      BY <1>7, <1>b, <2>2, <3>1 DEF SeatRight, MayEat, MustThink
    <3>2. CASE m # n
      BY <1>4, <1>7, <2>2, <3>2 DEF SeatRight, MayEat
    <3> QED BY <3>1, <3>2
  <2> QED BY <2>3, <2>4 DEF DiningRight
<1>c. CASE pc[Ph(n)] = 6
  <2>1. /\ sem[Queue(n)] = 1 /\ state[n] = "eating"
    BY <1>1, <1>7, <1>c, PhilStep DEF SeatRight
  <2>2. /\ sem'[Sem("key")] = sem[Sem("key")] /\ state' = state /\ local' = local
        /\ sem'[Queue(n)] = 0 /\ \A m \in Seat \ {n} : sem'[Queue(m)] = sem[Queue(m)]
        /\ pc'[Ph(n)] = 7
    BY <1>1, <1>2, <1>c, <2>1, PhilStep
  <2>3. TableRight'
    BY <1>3, <1>4, <1>6, <1>1, <1>c, <2>2 DEF TableRight, AtTable
  <2>4. ASSUME NEW m \in Seat PROVE SeatRight(m)'
    <3>1. CASE m = n
      BY <1>7, <1>c, <2>1, <2>2, <3>1 DEF SeatRight, MayEat, MustThink
    <3>2. CASE m # n
      BY <1>4, <1>7, <2>2, <3>2 DEF SeatRight, MayEat
    <3> QED BY <3>1, <3>2
  <2> QED BY <2>3, <2>4 DEF DiningRight
<1>d. CASE pc[Ph(n)] \in {2, 9}
  <2>1. PICK s \in {"hungry", "thinking"} :
          /\ s = IF pc[Ph(n)] = 2 THEN "hungry" ELSE "thinking"
          /\ state' = [state EXCEPT ![n] = s] /\ sem' = sem /\ local' = local
          /\ pc'[Ph(n)] = pc[Ph(n)] + 1
    BY <1>d, PhilStep
  <2>2. state'[n] = s /\ \A m \in Seat \ {n} : state'[m] = state[m]
    BY <1>1, <2>1
  <2>3. TableRight'
    BY <1>3, <1>4, <1>6, <1>1, <1>d, <2>1 DEF TableRight, AtTable
  <2>4. ASSUME NEW m \in Seat PROVE SeatRight(m)'
    <3>1. CASE m = n
      BY <1>5, <1>7, <1>d, <2>1, <2>2, <3>1 DEF SeatRight, MayEat, MustThink
    <3>2. CASE m # n
      <4>1. pc[Ph(m)] \notin AtTable
        BY <1>6, <1>d, <3>2 DEF AtTable
      <4>2. /\ pc'[Ph(m)] = pc[Ph(m)] /\ local'[Ph(m)] = local[Ph(m)] /\ state'[m] = state[m]
            /\ sem'[Queue(m)] = sem[Queue(m)]
        BY <1>4, <2>1, <2>2, <3>2
      <4>3. state[m] = "eating" => state'[left(m)] # "eating" /\ state'[right(m)] # "eating"
        BY <1>5, <1>7, <2>2 DEF SeatRight
      <4> QED BY <1>7, <4>1, <4>2, <4>3 DEF SeatRight, MustThink, AtTable
    <3> QED BY <3>1, <3>2
  <2> QED BY <2>3, <2>4 DEF DiningRight
<1>e. CASE pc[Ph(n)] = 7
  <2>1. sem' = sem /\ state' = state /\ local' = local /\ pc'[Ph(n)] = 8
    BY <1>e, PhilStep
  <2>2. TableRight'
    BY <1>3, <1>4, <1>6, <1>1, <1>e, <2>1 DEF TableRight, AtTable
  <2>3. ASSUME NEW m \in Seat PROVE SeatRight(m)'
    <3>1. CASE m = n
      BY <1>7, <1>e, <2>1, <3>1 DEF SeatRight, MayEat, MustThink
    <3>2. CASE m # n
      BY <1>4, <1>7, <2>1, <3>2 DEF SeatRight, MayEat
    <3> QED BY <3>1, <3>2
  <2> QED BY <2>2, <2>3 DEF DiningRight
<1>f. CASE pc[Ph(n)] = 15
  <2>1. /\ state' = state /\ local'[Ph(n)] = 0 /\ pc'[Ph(n)] \in {0, 1}
        /\ sem'[Sem("key")] = sem[Sem("key")] /\ \A m \in Seat : sem'[Queue(m)] = sem[Queue(m)]
    BY <1>1, <1>2, <1>f, PhilStep
  <2>2. TableRight'
    BY <1>3, <1>4, <1>6, <1>1, <1>f, <2>1 DEF TableRight, AtTable
  <2>3. ASSUME NEW m \in Seat PROVE SeatRight(m)'
    <3>1. CASE m = n
      BY <1>7, <1>f, <2>1, <3>1 DEF SeatRight, MayEat, MustThink
    <3>2. CASE m # n
      BY <1>4, <1>7, <2>1, <3>2 DEF SeatRight, MayEat
    <3> QED BY <3>1, <3>2
  <2> QED BY <2>2, <2>3 DEF DiningRight
<1>g. CASE pc[Ph(n)] \in {3, 10, 12}
  <2>1. PICK k \in Seat : /\ k = IF pc[Ph(n)] = 3 THEN n
                                ELSE IF pc[Ph(n)] = 10 THEN left(n) ELSE right(n)
    BY <1>5
  <2>2. /\ sem' = sem /\ state' = state /\ local'[Ph(n)] = IF MayEat(k) THEN 1 ELSE 0
        /\ pc'[Ph(n)] = pc[Ph(n)] + 1
    BY <1>g, <2>1, PhilStep
  <2>3. TableRight'
    BY <1>3, <1>4, <1>6, <1>1, <1>g, <2>2 DEF TableRight, AtTable
  <2>4. ASSUME NEW m \in Seat PROVE SeatRight(m)'
    <3>1. CASE m = n
      <4>1. \A j \in Seat : MayEat(j)' <=> MayEat(j)
        BY <2>2 DEF MayEat
      <4> QED BY <1>5, <1>7, <1>g, <2>1, <2>2, <3>1, <4>1 DEF SeatRight, MustThink
    <3>2. CASE m # n
      BY <1>4, <1>7, <2>2, <3>2 DEF SeatRight, MayEat
    <3> QED BY <3>1, <3>2
  <2> QED BY <2>3, <2>4 DEF DiningRight
<1>h. CASE pc[Ph(n)] \in {4, 11, 13} /\ local[Ph(n)] # 1
  <2>1. PICK k \in Seat : /\ k = IF pc[Ph(n)] = 4 THEN n
                                ELSE IF pc[Ph(n)] = 11 THEN left(n) ELSE right(n)
    BY <1>5
  <2>2. sem' = sem /\ state' = state /\ local'[Ph(n)] = 0 /\ pc'[Ph(n)] = pc[Ph(n)] + 1
    BY <1>h, <2>1, PhilStep
  <2>3. TableRight'
    BY <1>3, <1>4, <1>6, <1>1, <1>h, <2>2 DEF TableRight, AtTable
  <2>4. ASSUME NEW m \in Seat PROVE SeatRight(m)'
    <3>1. CASE m = n
      BY <1>7, <1>h, <2>2, <3>1 DEF SeatRight, MustThink
    <3>2. CASE m # n
      BY <1>4, <1>7, <2>2, <3>2 DEF SeatRight, MayEat
    <3> QED BY <3>1, <3>2
  <2> QED BY <2>3, <2>4 DEF DiningRight
<1>i. CASE pc[Ph(n)] \in {4, 11, 13} /\ local[Ph(n)] = 1
  <2>1. PICK k \in Seat : /\ k = IF pc[Ph(n)] = 4 THEN n
                                ELSE IF pc[Ph(n)] = 11 THEN left(n) ELSE right(n)
    BY <1>5
  <2>2. /\ state' = [state EXCEPT ![k] = "eating"] /\ sem' = [sem EXCEPT ![Queue(k)] = @ + 1]
        /\ local'[Ph(n)] = 0 /\ pc'[Ph(n)] = pc[Ph(n)] + 1
    BY <1>i, <2>1, PhilStep
  <2>3. /\ state'[k] = "eating" /\ \A m \in Seat \ {k} : state'[m] = state[m]
        /\ sem'[Queue(k)] = sem[Queue(k)] + 1 /\ sem'[Sem("key")] = sem[Sem("key")]
        /\ \A m \in Seat \ {k} : sem'[Queue(m)] = sem[Queue(m)]
    BY <1>1, <1>2, <2>2
  <2>4. state[k] = "hungry" /\ state[left(k)] # "eating" /\ state[right(k)] # "eating"
    BY <1>5, <1>7, <1>i, <2>1 DEF SeatRight, MayEat
  <2>5. TableRight'
    BY <1>3, <1>4, <1>6, <1>1, <1>i, <2>2, <2>3 DEF TableRight, AtTable
  <2>6. \A m \in Seat \ {n} : pc[Ph(m)] \notin AtTable
    BY <1>6, <1>i DEF AtTable
  <2>7. sem[Queue(k)] = 0
    BY <1>7, <2>4 DEF SeatRight
  <2>8. pc'[Ph(k)] \in {5, 6} /\ (k = n => pc[Ph(n)] = 4)
    <3>1. CASE k = n
      <4>1. pc[Ph(n)] = 4
        BY <1>5, <1>i, <2>1, <3>1
      <4> QED BY <2>2, <3>1, <4>1
    <3>2. CASE k # n
      <4>1. pc[Ph(k)] \notin AtTable \cup MustThink \cup {7, 8, 9}
        BY <1>7, <2>4, <2>6, <3>2 DEF SeatRight
      <4>2. pc[Ph(k)] = 6
        BY <1>3, <4>1 DEF AtTable, MustThink
      <4> QED BY <1>4, <3>2, <4>2
    <3> QED BY <3>1, <3>2
  <2>9. ASSUME NEW m \in Seat PROVE SeatRight(m)'
    <3>1. state'[m] = "eating" => state'[left(m)] # "eating" /\ state'[right(m)] # "eating"
      <4>1. CASE m = k
        BY <1>5, <2>3, <2>4, <4>1
      <4>2. CASE m # k
        BY <1>5, <1>7, <2>3, <2>4, <4>2 DEF SeatRight
      <4> QED BY <4>1, <4>2
    <3>2. pc'[Ph(m)] \in {4, 11, 13} => local'[Ph(m)] # 1
      <4>1. CASE m = n
        BY <2>2, <4>1
      <4>2. CASE m # n
        BY <1>4, <2>6, <4>2 DEF AtTable
      <4> QED BY <4>1, <4>2
    <3>3. CASE m = k
      BY <2>3, <2>7, <2>8, <3>1, <3>2, <3>3 DEF SeatRight, MustThink
    <3>4. CASE m # k /\ m = n
      <4>1. pc[Ph(n)] \in {11, 13} /\ pc'[Ph(n)] \in {12, 14}
        BY <1>i, <2>1, <2>2, <3>4
      <4> QED BY <1>7, <2>3, <3>1, <3>2, <3>4, <4>1 DEF SeatRight, MustThink
    <3>5. CASE m # k /\ m # n
      BY <1>4, <1>7, <2>3, <3>1, <3>2, <3>5 DEF SeatRight
    <3> QED BY <3>3, <3>4, <3>5
  <2> QED BY <2>5, <2>9 DEF DiningRight
<1>8. pc[Ph(n)] \in 1..15
  BY PhilStep
<1> QED BY <1>8, <1>a, <1>b, <1>c, <1>d, <1>e, <1>f, <1>g, <1>h, <1>i

-----------------------------------------------------------------------------
(* The adders.                                                             *)

(* The adders are finitely many, and there is one.                         *)
LEMMA AdderSets ==
  /\ IsFiniteSet(Adder) /\ Adder # {} /\ \A S : S \subseteq Adder => IsFiniteSet(S)
  /\ \A t \in Adder : t \in Thread \ {main}
  /\ NADDS \in Nat /\ NADDS > 0
<1>1. IsFiniteSet(Adder)
  BY ThreadSets
<1>2. <<"adder", 1>> \in Adder
  BY SynchProblemsAssumption DEF Adder
<1>3. \A S : S \subseteq Adder => IsFiniteSet(S)
  BY <1>1, FS_Subset
<1>4. \A t \in Adder : t \in Thread \ {main}
  BY AdderProgram
<1>5. NADDS \in Nat /\ NADDS > 0
  BY SynchProblemsAssumption
<1> QED BY <1>1, <1>2, <1>3, <1>4, <1>5

(* The others leave the adders right.                                      *)
LEMMA AddersKept ==
  ASSUME TypeOK, DriverRight, AddersRight, NEW t \in Thread \ Adder, Step(t),
         problem' = "maths" => problem = "maths"
  PROVE  AddersRight'
<1>1. counters' = counters /\ sem'[Sem("count_mutex")] = sem[Sem("count_mutex")]
  BY NotAdder
<1>2. \A u \in Adder : pc'[u] = pc[u] /\ local'[u] = local[u]
  BY Elsewhere, AdderSets DEF TypeOK
<1>3. Increments' = Increments /\ Uncounted' = Uncounted
  BY <1>1, <1>2 DEF Increments, Uncounted, counters
<1> QED BY <1>1, <1>2, <1>3 DEF AddersRight, counters

(* What an adder does, place by place.                                     *)
LEMMA AdderStep ==
  ASSUME TypeOK, DriverRight, NEW t \in Adder, Step(t)
  PROVE  /\ pc[t] \in 1..6 /\ problem' = problem
         /\ pc[t] \in 1..5 => pc'[t] = pc[t] + 1
         /\ pc[t] = 1 => /\ sem[Sem("count_mutex")] > 0
                         /\ sem' = [sem EXCEPT ![Sem("count_mutex")] = @ - 1]
                         /\ UNCHANGED <<local, counter, adder_counters>>
         /\ pc[t] = 2 => /\ local'[t] = counter /\ UNCHANGED <<sem, counter, adder_counters>>
         /\ pc[t] = 3 => /\ counter' = IF local[t] < NADDS THEN local[t] + 1 ELSE counter
                         /\ UNCHANGED <<sem, local, adder_counters>>
         /\ pc[t] = 4 => /\ sem' = [sem EXCEPT ![Sem("count_mutex")] = @ + 1]
                         /\ UNCHANGED <<local, counter, adder_counters>>
         /\ pc[t] = 5 => /\ adder_counters' = IF local[t] < NADDS
                                              THEN [adder_counters EXCEPT ![t] = @ + 1]
                                              ELSE adder_counters
                         /\ UNCHANGED <<sem, local, counter>>
         /\ pc[t] = 6 => /\ local'[t] = 0 /\ UNCHANGED <<counter, adder_counters>>
                         /\ sem' = sem \/ sem' = [sem EXCEPT ![Sem("finished")] = @ + 1]
                         /\ IF local[t] < NADDS THEN pc'[t] = 1 ELSE pc'[t] = 0
<1>1. t \in Thread /\ t # main /\ t \notin Producer /\ t \notin Consumer
  BY AdderSets, Classes DEF Sender
<1>2. /\ Program(t)[1] = Down("count_mutex") /\ Program(t)[2] = Do("read")
      /\ Program(t)[3] = Do("add") /\ Program(t)[4] = Up("count_mutex")
      /\ Program(t)[5] = Do("count")
  BY AdderProgram DEF adder
<1>3. Len(Program(t)) = 5 /\ Len(Program(t)) \in Nat
  BY AdderProgram DEF adder
<1>4. pc \in [Thread -> Nat] /\ local \in [Thread -> Nat] /\ pc[t] \in Nat
  BY <1>1 DEF TypeOK
<1>5. ASSUME pc[t] \in 1..5 PROVE Does(t, Program(t)[pc[t]])
  BY <1>1, <1>3, <1>5, Execute
<1>6. CASE pc[t] \in 1..5
  <2>0. Does(t, Program(t)[pc[t]])
    BY <1>5, <1>6
  <2>1. pc'[t] = pc[t] + 1 /\ problem' = problem
    BY <1>1, <1>4, <2>0 DEF Does, Advance
  <2>2. pc[t] = 1 => /\ sem[Sem("count_mutex")] > 0
                     /\ sem' = [sem EXCEPT ![Sem("count_mutex")] = @ - 1]
                     /\ UNCHANGED <<local, counter, adder_counters>>
    BY <1>2, <2>0 DEF Does, Down, data, counters
  <2>3. pc[t] = 2 => /\ local'[t] = counter /\ UNCHANGED <<sem, counter, adder_counters>>
    BY <1>1, <1>2, <1>4, <2>0 DEF Does, Do, Saw, counters
  <2>4. pc[t] = 3 => /\ counter' = IF local[t] < NADDS THEN local[t] + 1 ELSE counter
                     /\ UNCHANGED <<sem, local, adder_counters>>
    BY <1>2, <2>0 DEF Does, Do, Add
  <2>5. pc[t] = 4 => /\ sem' = [sem EXCEPT ![Sem("count_mutex")] = @ + 1]
                     /\ UNCHANGED <<local, counter, adder_counters>>
    BY <1>2, <2>0 DEF Does, Up, data, counters
  <2>6. pc[t] = 5 => /\ adder_counters' = IF local[t] < NADDS
                                          THEN [adder_counters EXCEPT ![t] = @ + 1]
                                          ELSE adder_counters
                     /\ UNCHANGED <<sem, local, counter>>
    BY <1>2, <2>0 DEF Does, Do, Count
  <2> QED BY <1>6, <2>1, <2>2, <2>3, <2>4, <2>5, <2>6
<1>7. CASE pc[t] \notin 1..5
  <2>1. pc[t] \notin 1..Len(Program(t))
    BY <1>3, <1>7
  <2>2. pc[t] = 6 /\ (Loop(t) \/ Finish(t))
    <3>1. pc[t] = Len(Program(t)) + 1 /\ (Loop(t) \/ Finish(t) \/ (t = main /\ MainReturns))
      BY <1>1, <1>3, <2>1, AtEnd
    <3> QED BY <1>1, <1>3, <3>1
  <2>3. More(t) <=> local[t] < NADDS
    BY <1>1 DEF More
  <2>4. (Loop(t) => More(t)) /\ (Finish(t) => ~More(t))
    BY DEF Loop, Finish
  <2>5. Finished(t) = Sem("finished")
    BY <1>1 DEF Finished
  <2>6. counters' = counters /\ local'[t] = 0
    BY <1>1, <2>2, End
  <2>7. \/ Loop(t) /\ sem' = sem /\ pc'[t] = 1 /\ problem' = problem
        \/ Finish(t) /\ sem' = [sem EXCEPT ![Sem("finished")] = @ + 1]
           /\ pc'[t] = 0 /\ problem' = problem
    BY <1>1, <2>2, <2>5, End
  <2> QED BY <2>2, <2>3, <2>4, <2>6, <2>7 DEF counters
<1> QED BY <1>6, <1>7

(* An adder leaves the adders right.                                       *)
LEMMA AdderAdds ==
  ASSUME TypeOK, DriverRight, AddersRight, NEW t \in Adder, Step(t)
  PROVE  AddersRight'
<1> DEFINE mutex == Sem("count_mutex")
<1>1. /\ sem \in [Semaphore -> Nat] /\ pc \in [Thread -> Nat] /\ local \in [Thread -> Nat]
      /\ counter \in Nat /\ adder_counters \in [Adder -> Nat]
      /\ mutex \in Semaphore /\ sem[mutex] \in Nat /\ mutex # Sem("finished")
  BY Sems DEF TypeOK
<1>2. t \in Thread /\ \A u \in Adder : u \in Thread /\ local[u] \in Nat
  BY <1>1, AdderSets
<1>3. \A u \in Adder \ {t} : pc'[u] = pc[u] /\ local'[u] = local[u]
  BY <1>1, <1>2, Elsewhere
<1>4. /\ sem[mutex] <= 1 /\ counter <= NADDS
      /\ \A u \in Adder : pc[u] \in 0..6 /\ local[u] <= counter /\ (pc[u] = 3 => local[u] = counter)
      /\ \A u \in Adder : pc[u] \in 2..4 => sem[mutex] = 0
      /\ \A u, v \in Adder : pc[u] \in 2..4 /\ pc[v] \in 2..4 => u = v
      /\ IsFiniteSet(Increments) /\ counter = Cardinality(Increments) + Cardinality(Uncounted)
      /\ problem = "maths" => \A u \in Adder : pc[u] = 0 => counter = NADDS
  BY DEF AddersRight
<1>5. /\ IsFiniteSet(Uncounted) /\ Cardinality(Uncounted) \in Nat /\ Cardinality(Increments) \in Nat
      /\ NADDS \in Nat
  BY <1>4, AdderSets, FS_CardinalityType DEF Uncounted
<1>6. pc[t] \in 1..6 /\ problem' = problem
  BY AdderStep
<1> HIDE DEF mutex
(* The section, and what the counts need. *)
<1>k. ASSUME sem'[mutex] <= 1, counter' <= NADDS, pc'[t] \in 0..6, local'[t] <= counter',
             pc'[t] = 3 => local'[t] = counter',
             \A u \in Adder \ {t} : local'[u] <= counter' /\ (pc'[u] = 3 => local'[u] = counter'),
             \A u \in Adder : pc'[u] \in 2..4 =>
               sem'[mutex] = 0 /\ \A v \in Adder : pc'[v] \in 2..4 => v = u,
             IsFiniteSet(Increments'),
             counter' = Cardinality(Increments') + Cardinality(Uncounted'),
             problem = "maths" => \A u \in Adder : pc'[u] = 0 => counter' = NADDS
      PROVE  AddersRight'
  <2>1. \A u \in Adder : /\ pc'[u] \in 0..6 /\ local'[u] <= counter'
                         /\ (pc'[u] = 3 => local'[u] = counter')
    BY <1>k, <1>3, <1>4
  <2> QED BY <1>k, <1>6, <2>1 DEF AddersRight, mutex
<1>a. CASE pc[t] = 1
  <2>1. /\ sem[mutex] = 1 /\ sem'[mutex] = 0 /\ local' = local /\ counter' = counter
        /\ adder_counters' = adder_counters /\ pc'[t] = 2
    BY <1>1, <1>4, <1>a, AdderStep DEF mutex
  <2>2. Increments' = Increments /\ Uncounted' = Uncounted
    BY <1>3, <1>a, <2>1 DEF Increments, Uncounted
  <2> QED BY <1>2, <1>3, <1>4, <2>1, <2>2, <1>k
<1>b. CASE pc[t] = 2
  <2>1. /\ sem' = sem /\ local'[t] = counter /\ counter' = counter
        /\ adder_counters' = adder_counters /\ pc'[t] = 3
    BY <1>b, AdderStep
  <2>2. Increments' = Increments /\ Uncounted' = Uncounted
    BY <1>3, <1>b, <2>1 DEF Increments, Uncounted
  <2> QED BY <1>1, <1>2, <1>3, <1>4, <1>b, <2>1, <2>2, <1>k
<1>c. CASE pc[t] = 3
  <2>1. /\ sem' = sem /\ local' = local /\ adder_counters' = adder_counters /\ pc'[t] = 4
        /\ counter' = (IF local[t] < NADDS THEN local[t] + 1 ELSE counter)
        /\ local[t] = counter /\ local[t] \in Nat
    BY <1>1, <1>2, <1>4, <1>c, AdderStep
  <2>2. Increments' = Increments
    BY <2>1 DEF Increments
  <2>3. CASE local[t] < NADDS
    <3>1. t \notin Uncounted /\ Uncounted' = Uncounted \cup {t}
      BY <1>3, <1>c, <2>1, <2>3 DEF Uncounted
    <3>2. Cardinality(Uncounted') = Cardinality(Uncounted) + 1
      BY <1>5, <3>1, FS_AddElement
    <3>3. counter' = counter + 1 /\ counter' <= NADDS /\ counter' \in Nat
      BY <1>1, <1>5, <2>1, <2>3
    <3>4. \A u \in Adder \ {t} : local'[u] <= counter' /\ pc'[u] # 3
      BY <1>1, <1>2, <1>3, <1>4, <1>c, <2>1, <3>3
    <3>5. counter' = Cardinality(Increments') + Cardinality(Uncounted')
      BY <1>4, <1>5, <2>2, <3>2, <3>3
    <3>6. problem = "maths" => \A u \in Adder : pc'[u] = 0 => counter' = NADDS
      BY <1>1, <1>3, <1>4, <1>5, <2>1, <2>3
    <3>7. local'[t] <= counter'
      BY <1>1, <2>1, <3>3
    <3>8. \A u \in Adder : pc'[u] \in 2..4 =>
               sem'[mutex] = 0 /\ \A v \in Adder : pc'[v] \in 2..4 => v = u
      BY <1>3, <1>4, <1>c, <2>1
    <3> QED BY <1>4, <2>1, <2>2, <3>3, <3>4, <3>5, <3>6, <3>7, <3>8, <1>k
  <2>4. CASE ~(local[t] < NADDS)
    <3>1. Uncounted' = Uncounted
      BY <1>3, <1>c, <2>1, <2>4 DEF Uncounted
    <3> QED BY <1>1, <1>2, <1>3, <1>4, <1>c, <2>1, <2>2, <2>4, <3>1, <1>k
  <2> QED BY <2>3, <2>4
<1>d. CASE pc[t] = 4
  <2>1. /\ sem[mutex] = 0 /\ sem'[mutex] = 1 /\ local' = local /\ counter' = counter
        /\ adder_counters' = adder_counters /\ pc'[t] = 5
    BY <1>1, <1>4, <1>d, AdderStep DEF mutex
  <2>2. Increments' = Increments /\ Uncounted' = Uncounted
    BY <1>3, <1>d, <2>1 DEF Increments, Uncounted
  <2>3. \A u \in Adder : pc'[u] \notin 2..4
    BY <1>3, <1>4, <1>d, <2>1
  <2> QED BY <1>2, <1>3, <1>4, <2>1, <2>2, <2>3, <1>k
<1>e. CASE pc[t] = 5
  <2>1. /\ sem' = sem /\ local' = local /\ counter' = counter /\ pc'[t] = 6
        /\ adder_counters' = IF local[t] < NADDS
                             THEN [adder_counters EXCEPT ![t] = @ + 1] ELSE adder_counters
    BY <1>e, AdderStep
  <2>2. CASE local[t] < NADDS
    <3>0. DEFINE x == <<t, adder_counters[t] + 1>>
    <3>1. x \notin Increments /\ Increments' = Increments \cup {x}
      <4>1. \A u \in Adder : adder_counters'[u] = IF u = t THEN adder_counters[u] + 1
                                                  ELSE adder_counters[u]
        BY <1>1, <2>1, <2>2
      <4>2. \A y : y \in Increments <=> \E u \in Adder : \E i \in 1..adder_counters[u] : y = <<u, i>>
        BY DEF Increments
      <4>3. \A y : y \in Increments' <=> \E u \in Adder : \E i \in 1..adder_counters'[u] : y = <<u, i>>
        BY DEF Increments
      <4>4. \A u \in Adder : adder_counters[u] \in Nat
        BY <1>1
      <4>5. x \notin Increments
        BY <4>2, <4>4
      <4>6. ASSUME NEW y PROVE y \in Increments' <=> y \in Increments \/ y = x
        <5>1. ASSUME NEW u \in Adder
              PROVE  (\E i \in 1..adder_counters'[u] : y = <<u, i>>)
                       <=> \/ \E i \in 1..adder_counters[u] : y = <<u, i>>
                           \/ u = t /\ y = x
          <6>1. CASE u = t
            <7>1. \A i : i \in 1..adder_counters'[t] <=> i \in 1..adder_counters[t] \/ i = adder_counters[t] + 1
              BY <4>1, <4>4
            <7> QED BY <6>1, <7>1
          <6>2. CASE u # t
            BY <4>1, <6>2
          <6> QED BY <6>1, <6>2
        <5> QED BY <4>2, <4>3, <5>1
      <4> QED BY <4>5, <4>6
    <3>2. t \in Uncounted /\ Uncounted' = Uncounted \ {t}
      BY <1>3, <1>e, <2>1, <2>2 DEF Uncounted
    <3>3. /\ IsFiniteSet(Increments') /\ Cardinality(Increments') = Cardinality(Increments) + 1
          /\ Cardinality(Uncounted') = Cardinality(Uncounted) - 1
      BY <1>4, <1>5, <3>1, <3>2, FS_AddElement, FS_RemoveElement
    <3>4. counter' = Cardinality(Increments') + Cardinality(Uncounted')
      BY <1>4, <1>5, <2>1, <3>3
    <3> QED BY <1>2, <1>3, <1>4, <1>e, <2>1, <3>3, <3>4, <1>k
  <2>3. CASE ~(local[t] < NADDS)
    <3>1. Increments' = Increments /\ Uncounted' = Uncounted
      BY <1>3, <1>e, <2>1, <2>3 DEF Increments, Uncounted
    <3> QED BY <1>2, <1>3, <1>4, <1>e, <2>1, <2>3, <3>1, <1>k
  <2> QED BY <2>2, <2>3
<1>f. CASE pc[t] = 6
  <2>1. /\ local'[t] = 0 /\ counter' = counter /\ adder_counters' = adder_counters
        /\ IF local[t] < NADDS THEN pc'[t] = 1 ELSE pc'[t] = 0
    BY <1>f, AdderStep
  <2>2. sem'[mutex] = sem[mutex]
    BY <1>1, <1>f, AdderStep DEF mutex
  <2>3. Increments' = Increments /\ Uncounted' = Uncounted
    BY <1>3, <1>f, <2>1 DEF Increments, Uncounted
  <2>4. pc'[t] = 0 => counter = NADDS
    BY <1>1, <1>2, <1>4, <1>5, <2>1
  <2> QED BY <1>1, <1>2, <1>3, <1>4, <1>f, <2>1, <2>2, <2>3, <2>4, <1>k
<1> QED BY <1>6, <1>a, <1>b, <1>c, <1>d, <1>e, <1>f

-----------------------------------------------------------------------------
(* The buffer: what its threads do, by their place in the list.            *)

Busy(t) == IF t = main THEN Sending ELSE pc[t] \in 1..6

(* Main's place among the instructions of producer_send.                   *)
LEMMA SixApart ==
  ASSUME NEW j \in 1..Sends
  PROVE  /\ ((j - 1) % 6) + 1 \in 1..6
         /\ ((j - 1) % 6) + 1 # 6 => j + 1 \in 1..Sends
         /\ j + 1 \in 1..Sends => (j % 6) + 1 = IF ((j - 1) % 6) + 1 = 6 THEN 1
                                               ELSE ((j - 1) % 6) + 2
<1>1. NUM_CONSUMERS \in Nat
  BY SynchProblemsAssumption
<1>2. j \in Int /\ Sends \in Nat
  BY <1>1 DEF Sends
<1>3. ASSUME NEW i \in Nat, i >= 1
      PROVE  (i % 6) + 1 = IF ((i - 1) % 6) + 1 = 6 THEN 1 ELSE ((i - 1) % 6) + 2
  BY <1>3
<1>4. ASSUME NEW c \in Nat, NEW i \in Nat, i >= 1, i <= 6 * c, ((i - 1) % 6) + 1 # 6
      PROVE  i + 1 <= 6 * c
  BY <1>4
<1> QED BY <1>1, <1>2, <1>3, <1>4 DEF Sends

(* A step leaves the other threads where they are.                         *)
LEMMA PlacesElsewhere ==
  ASSUME TypeOK, NEW t \in Thread, Step(t)
  PROVE  \A u \in Thread \ {t} : /\ Place(u)' = Place(u) /\ pc'[u] = pc[u]
                                 /\ local'[u] = local[u] /\ todo'[u] = todo[u]
<1>1. \A u \in Thread \ {t} : pc'[u] = pc[u] /\ local'[u] = local[u] /\ todo'[u] = todo[u]
  BY Elsewhere DEF TypeOK
<1>2. t # main => problem' = problem /\ pc'[main] = pc[main]
  BY <1>1, Elsewhere DEF Thread
<1> QED BY <1>1, <1>2 DEF Place, Sending

(* Main sends at its place, or does something else.                        *)
LEMMA MainSends ==
  ASSUME TypeOK, DriverRight, Step(main)
  PROVE  \/ /\ Sending /\ Place(main) \in 1..6 /\ Does(main, producer_send[Place(main)])
            /\ IF Place(main) = 6 THEN Place(main)' = 1 ELSE Place(main)' = Place(main) + 1
         \/ /\ ~Sending /\ Place(main) = 1 /\ Place(main)' = 1
            /\ buffers' = buffers /\ \A s \in BufferSems : sem'[s] = sem[s]
            /\ problem' = problem => pc'[main] = pc[main] + 1
<1>0. /\ main \in Thread /\ main \in Sender /\ main \notin Consumer /\ pc[main] \in Nat
      /\ pc \in [Thread -> Nat] /\ sem \in [Semaphore -> Nat] /\ BufferSems \subseteq Semaphore
      /\ problem \in Problem /\ Len(Program(main)) \in Nat /\ NUM_PRODUCERS \in Nat
      /\ Sends \in Nat /\ NUM_CONSUMERS \in Nat
  <2>1. main \in Thread /\ main \in Sender /\ main \notin Consumer
    BY Kinds DEF Thread, Sender
  <2>2. problem \in Problem /\ Len(Program(main)) \in Nat
    BY <2>1, Lengths
  <2> QED BY <2>1, <2>2, Sems, SynchProblemsAssumption DEF TypeOK, Sends
<1>1. CASE Sending
  <2>1. PICK j : j = pc[main] - NUM_PRODUCERS
    OBVIOUS
  <2>2. j \in 1..Sends /\ pc[main] = NUM_PRODUCERS + j /\ problem = "producerconsumer"
    BY <1>0, <1>1, <2>1 DEF Sending
  <2>3. /\ Len(Program(main)) = NUM_PRODUCERS + Sends + NUM_CONSUMERS
        /\ Program(main)[pc[main]] = producer_send[((j - 1) % 6) + 1]
    BY <2>2, MainBufferProgram DEF Program
  <2>4. pc[main] \in 1..Len(Program(main))
    BY <1>0, <2>2, <2>3
  <2>5. Place(main) = ((j - 1) % 6) + 1
    BY <1>1, <2>1 DEF Place
  <2>6. Does(main, producer_send[Place(main)])
    BY <1>0, <2>3, <2>4, <2>5, Execute
  <2>7. pc'[main] = pc[main] + 1 /\ problem' = problem
    BY <1>0, <2>6 DEF Does, Advance
  <2>8. pc'[main] - NUM_PRODUCERS = j + 1 /\ j + 1 - 1 = j
    BY <1>0, <2>2, <2>7
  <2>9. Place(main)' = IF j + 1 \in 1..Sends THEN (j % 6) + 1 ELSE 1
    BY <2>2, <2>7, <2>8 DEF Place, Sending
  <2>10. /\ ((j - 1) % 6) + 1 \in 1..6
         /\ ((j - 1) % 6) + 1 # 6 => j + 1 \in 1..Sends
         /\ j + 1 \in 1..Sends => (j % 6) + 1 = IF ((j - 1) % 6) + 1 = 6 THEN 1
                                               ELSE ((j - 1) % 6) + 2
    BY <2>2, SixApart
  <2>11. PICK k : k = ((j - 1) % 6) + 1
    OBVIOUS
  <2>12. k \in 1..6 /\ ((j - 1) % 6) + 2 = k + 1 /\ Place(main) = k
    BY <2>2, <2>5, <2>10, <2>11
  <2>13. IF k = 6 THEN Place(main)' = 1 ELSE Place(main)' = k + 1
    <3>1. CASE k = 6
      BY <2>9, <2>10, <2>11, <3>1
    <3>2. CASE k # 6
      BY <2>9, <2>10, <2>11, <2>12, <3>2
    <3> QED BY <3>1, <3>2
  <2> QED BY <1>1, <2>6, <2>12, <2>13
<1>2. CASE ~Sending
  <2>0. Place(main) = 1
    BY <1>2 DEF Place
  <2>1. CASE pc[main] \in 1..Len(Program(main))
    <3>1. PICK w : w = Program(main)[pc[main]]
      OBVIOUS
    <3>2. Does(main, w)
      BY <1>0, <2>1, <3>1, Execute
    <3>3. pc'[main] = pc[main] + 1 /\ problem' = problem
      BY <1>0, <3>2 DEF Does, Advance
    <3>4. w \in WaitInstr /\ Place(main)' = 1
      <4>1. CASE problem = "producerconsumer"
        <5>1. pc[main] \in 1..NUM_PRODUCERS \/ pc[main] - NUM_PRODUCERS - Sends \in 1..NUM_CONSUMERS
          BY <1>0, <1>2, <2>1, <4>1, MainBufferProgram DEF Sending, Program
        <5>2. CASE pc[main] \in 1..NUM_PRODUCERS
          <6>1. w = Down("producer_finished")
            BY <3>1, <4>1, <5>2, MainBufferProgram DEF Program
          <6>2. pc'[main] - NUM_PRODUCERS \in 1..Sends => pc'[main] - NUM_PRODUCERS = 1
            BY <1>0, <3>3, <5>2
          <6>3. ((1 - 1) % 6) + 1 = 1
            OBVIOUS
          <6>4. Place(main)' = 1
            BY <6>2, <6>3 DEF Place, Sending
          <6> QED BY <6>1, <6>4 DEF WaitInstr
        <5>3. CASE pc[main] - NUM_PRODUCERS - Sends \in 1..NUM_CONSUMERS
          <6>1. Program(main)[NUM_PRODUCERS + Sends + (pc[main] - NUM_PRODUCERS - Sends)]
                  = Down("finished")
            BY <4>1, <5>3, MainBufferProgram DEF Program
          <6>2. NUM_PRODUCERS + Sends + (pc[main] - NUM_PRODUCERS - Sends) = pc[main]
            BY <1>0
          <6>3. ~(pc'[main] - NUM_PRODUCERS \in 1..Sends)
            BY <1>0, <3>3, <5>3
          <6> QED BY <3>1, <6>1, <6>2, <6>3 DEF WaitInstr, Place, Sending
        <5> QED BY <5>1, <5>2, <5>3
      <4>2. CASE problem # "producerconsumer"
        <5>1. w = Down("finished")
          BY <1>0, <2>1, <3>1, <4>2, MainWaitsProgram DEF Program
        <5> QED BY <3>3, <4>2, <5>1 DEF WaitInstr, Place, Sending
      <4> QED BY <4>1, <4>2
    <3>5. w[1] = "P" /\ w[2] \in DoneSems
      BY <3>4 DEF WaitInstr, Down, DoneSems
    <3>6. buffers' = buffers /\ \A s \in BufferSems : sem'[s] = sem[s]
      BY <1>0, <3>2, <3>5, Sems DEF Does, data
    <3> QED BY <1>2, <2>0, <3>3, <3>4, <3>6
  <2>2. CASE pc[main] \notin 1..Len(Program(main))
    <3>1. Loop(main) \/ Finish(main) \/ MainReturns
      BY <1>0, <2>2, AtEnd
    <3>2. todo[main] <= 1 /\ todo[main] \in Nat
      BY <1>0 DEF DriverRight, TypeOK
    <3>3. More(main) <=> todo[main] > 1
      BY <1>0, AdderSets DEF More
    <3>4. MainReturns
      BY <3>1, <3>2, <3>3 DEF Loop, Finish
    <3>5. sem' = sem /\ buffers' = buffers /\ problem' = "none" /\ problem # "none"
      BY <1>0, <3>4, End DEF MainReturns, buffers
    <3> QED BY <1>2, <2>0, <3>5 DEF Place, Sending
  <2> QED BY <2>1, <2>2
<1> QED BY <1>1, <1>2

(* What a thread does to the buffer and its semaphores, place by place.    *)
LEMMA SenderStep ==
  ASSUME TypeOK, DriverRight, NEW t \in Sender, Step(t)
  PROVE  \/ /\ Busy(t) /\ Place(t) \in 1..6 /\ Does(t, producer_send[Place(t)])
            /\ Place(t) \in 1..5 => Place(t)' = Place(t) + 1
            /\ Place(t) = 6 => Place(t)' \in {1, 7}
         \/ /\ ~Busy(t) /\ Place(t) \in {1, 7} /\ Place(t)' \in {0, 1}
            /\ buffers' = buffers /\ \A s \in BufferSems : sem'[s] = sem[s]
            /\ t = main => (problem' = problem => pc'[main] = pc[main] + 1)
            /\ t # main => \/ todo[t] > 1 /\ todo'[t] = todo[t] - 1 /\ pc[t] = 7 /\ pc'[t] = 1
                           \/ pc[t] = 7 /\ pc'[t] = 0 /\ todo'[t] = 0
<1>1. CASE t = main
  <2>1. CASE Sending
    BY <1>1, <2>1, MainSends DEF Busy
  <2>2. CASE ~Sending
    BY <1>1, <2>2, MainSends DEF Busy
  <2> QED BY <2>1, <2>2
<1>2. CASE t # main
  <2>1. /\ t \in Producer /\ t \in Thread /\ Program(t) = producer_send /\ t \notin Consumer
        /\ Len(producer_send) = 6 /\ Place(t) = pc[t] /\ Place(t)' = pc'[t]
        /\ pc \in [Thread -> Nat] /\ todo \in [Thread -> Nat]
    BY <1>2, ProducerProgram, Classes DEF Sender, Place, producer_send, TypeOK
  <2>0. Len(Program(t)) = 6 /\ Len(Program(t)) \in Nat
    BY <2>1
  <2>2. CASE pc[t] \in 1..6
    <3>1. Does(t, producer_send[pc[t]])
      BY <2>0, <2>1, <2>2, Execute
    <3>2. pc'[t] = pc[t] + 1
      BY <2>1, <3>1 DEF Does, Advance
    <3> QED BY <1>2, <2>1, <2>2, <3>1, <3>2 DEF Busy
  <2>3. CASE pc[t] \notin 1..6
    <3>1. pc[t] = 7 /\ (Loop(t) \/ Finish(t))
      <4>1. pc[t] = Len(Program(t)) + 1 /\ (Loop(t) \/ Finish(t) \/ (t = main /\ MainReturns))
        BY <2>0, <2>1, <2>3, AtEnd
      <4> QED BY <1>2, <2>0, <4>1
    <3>2. More(t) <=> todo[t] > 1
      BY <2>1, AdderSets, Classes DEF More, Sender
    <3>3. \/ Loop(t) /\ sem' = sem /\ pc'[t] = 1 /\ todo'[t] = todo[t] - 1 /\ todo[t] > 1
          \/ Finish(t) /\ sem' = [sem EXCEPT ![Finished(t)] = @ + 1] /\ pc'[t] = 0 /\ todo'[t] = 0
      BY <1>2, <2>1, <3>1, <3>2, End DEF Loop
    <3>4. buffers' = buffers
      BY <2>1, <3>1, End DEF buffers
    <3>5. \A s \in BufferSems : sem'[s] = sem[s]
      <4>1. Finished(t) \in DoneSems /\ sem \in [Semaphore -> Nat]
        BY DEF Finished, DoneSems, TypeOK
      <4> QED BY <3>3, <4>1, Sems
    <3> QED BY <1>2, <2>1, <3>1, <3>3, <3>4, <3>5 DEF Busy
  <2> QED BY <2>2, <2>3
<1> QED BY <1>1, <1>2

LEMMA ConsumerStep ==
  ASSUME TypeOK, DriverRight, NEW t \in Consumer, Step(t)
  PROVE  /\ Place(t) = pc[t] /\ Place(t)' = pc'[t] /\ t \notin Sender /\ problem' = problem
         /\ \/ /\ pc[t] \in 1..6 /\ Does(t, consumer_receive[pc[t]]) /\ pc'[t] = pc[t] + 1
            \/ /\ pc[t] = 7 /\ pc'[t] \in {0, 1} /\ \A s \in BufferSems : sem'[s] = sem[s]
               /\ UNCHANGED <<item_buffer, sent, received>>
               /\ item' = [item EXCEPT ![t] = NULL]
<1>1. /\ t \in Thread /\ Program(t) = consumer_receive /\ t # main /\ t \notin Sender
      /\ Len(consumer_receive) = 6 /\ Place(t) = pc[t] /\ Place(t)' = pc'[t]
      /\ pc \in [Thread -> Nat] /\ sem \in [Semaphore -> Nat]
      /\ item = [u \in Consumer |-> item[u]]
  BY ConsumerProgram, Kinds, Classes DEF Place, consumer_receive, TypeOK
<1>0. Len(Program(t)) = 6 /\ Len(Program(t)) \in Nat
  BY <1>1
<1>2. problem' = problem
  BY <1>1, Elsewhere
<1>3. CASE pc[t] \in 1..6
  <2>1. Does(t, consumer_receive[pc[t]])
    BY <1>0, <1>1, <1>3, Execute
  <2>2. pc'[t] = pc[t] + 1
    BY <1>1, <2>1 DEF Does, Advance
  <2> QED BY <1>1, <1>2, <1>3, <2>1, <2>2
<1>4. CASE pc[t] \notin 1..6
  <2>1. pc[t] = 7 /\ (Loop(t) \/ Finish(t))
    <3>1. pc[t] = Len(Program(t)) + 1 /\ (Loop(t) \/ Finish(t) \/ (t = main /\ MainReturns))
      BY <1>0, <1>1, <1>4, AtEnd
    <3>2. t # main
      BY Kinds
    <3> QED BY <1>0, <3>1, <3>2
  <2>2. \/ sem' = sem /\ pc'[t] = 1
        \/ sem' = [sem EXCEPT ![Finished(t)] = @ + 1] /\ pc'[t] = 0
    BY <1>1, <2>1, End
  <2>3. UNCHANGED <<item_buffer, sent, received>>
    BY <1>1, <2>1, End
  <2>4. item' = [item EXCEPT ![t] = NULL]
    <3>1. Forget(t)
      BY <2>1 DEF Loop, Finish, Gone
    <3> QED BY <1>1, <3>1 DEF Forget
  <2>5. \A s \in BufferSems : sem'[s] = sem[s]
    <3>1. Finished(t) \in DoneSems
      BY DEF Finished, DoneSems
    <3> QED BY <1>1, <2>2, <3>1, Sems
  <2> QED BY <1>1, <1>2, <2>1, <2>2, <2>3, <2>4, <2>5
<1> QED BY <1>3, <1>4

(* The effects of producer_send and consumer_receive.                      *)
LEMMA SendEffects ==
  ASSUME TypeOK, NEW t \in Thread, NEW k \in 1..6, Does(t, producer_send[k])
  PROVE  /\ problem' = problem /\ pc'[t] = pc[t] + 1 /\ todo' = todo
         /\ k = 1 => /\ sem[Sem("empty")] > 0 /\ sem' = [sem EXCEPT ![Sem("empty")] = @ - 1]
                     /\ buffers' = buffers
         /\ k = 2 => /\ sem[Sem("buffer_key")] > 0
                     /\ sem' = [sem EXCEPT ![Sem("buffer_key")] = @ - 1]
                     /\ buffers' = buffers
         /\ k = 3 => sem' = sem /\ buffers' = buffers /\ local'[t] = First(FreeSlots)
         /\ k = 4 => sem' = sem /\ Fill(t)
         /\ k = 5 => /\ sem' = [sem EXCEPT ![Sem("buffer_key")] = @ + 1] /\ buffers' = buffers
         /\ k = 6 => sem' = [sem EXCEPT ![Sem("full")] = @ + 1] /\ buffers' = buffers
<1>1. pc \in [Thread -> Nat] /\ local \in [Thread -> Nat]
  BY DEF TypeOK
<1>2. problem' = problem /\ pc'[t] = pc[t] + 1 /\ todo' = todo
  BY <1>1 DEF Does, Advance
<1>3. /\ producer_send[1] = Down("empty") /\ producer_send[2] = Down("buffer_key")
      /\ producer_send[3] = Do("free") /\ producer_send[4] = Do("fill")
      /\ producer_send[5] = Up("buffer_key") /\ producer_send[6] = Up("full")
  BY DEF producer_send
<1>4. CASE k \in {1, 2}
  BY <1>2, <1>3, <1>4 DEF Does, Down, data, buffers
<1>5. CASE k = 3
  BY <1>1, <1>2, <1>3, <1>5 DEF Does, Do, Saw, buffers
<1>6. CASE k = 4
  BY <1>2, <1>3, <1>6 DEF Does, Do, Fill
<1>7. CASE k \in {5, 6}
  BY <1>2, <1>3, <1>7 DEF Does, Up, data, buffers
<1> QED BY <1>4, <1>5, <1>6, <1>7

LEMMA ReceiveEffects ==
  ASSUME TypeOK, NEW t \in Thread, NEW k \in 1..6, Does(t, consumer_receive[k])
  PROVE  /\ k = 1 => /\ sem[Sem("full")] > 0 /\ sem' = [sem EXCEPT ![Sem("full")] = @ - 1]
                     /\ buffers' = buffers
         /\ k = 2 => /\ sem[Sem("buffer_key")] > 0
                     /\ sem' = [sem EXCEPT ![Sem("buffer_key")] = @ - 1]
                     /\ buffers' = buffers
         /\ k = 3 => sem' = sem /\ buffers' = buffers /\ local'[t] = First(FullSlots)
         /\ k = 4 => sem' = sem /\ Take(t)
         /\ k = 5 => /\ sem' = [sem EXCEPT ![Sem("buffer_key")] = @ + 1] /\ buffers' = buffers
         /\ k = 6 => sem' = [sem EXCEPT ![Sem("empty")] = @ + 1] /\ buffers' = buffers
<1>1. pc \in [Thread -> Nat] /\ local \in [Thread -> Nat]
  BY DEF TypeOK
<1>3. /\ consumer_receive[1] = Down("full") /\ consumer_receive[2] = Down("buffer_key")
      /\ consumer_receive[3] = Do("used") /\ consumer_receive[4] = Do("take")
      /\ consumer_receive[5] = Up("buffer_key") /\ consumer_receive[6] = Up("empty")
  BY DEF consumer_receive
<1>4. CASE k \in {1, 2}
  BY <1>3, <1>4 DEF Does, Down, data, buffers
<1>5. CASE k = 3
  BY <1>1, <1>3, <1>5 DEF Does, Do, Saw, buffers
<1>6. CASE k = 4
  BY <1>3, <1>6 DEF Does, Do, Take
<1>7. CASE k \in {5, 6}
  BY <1>3, <1>7 DEF Does, Up, data, buffers
<1> QED BY <1>4, <1>5, <1>6, <1>7

-----------------------------------------------------------------------------
(* The buffer's invariant, part by part.                                   *)

(* A claim on a slot is made with a unit of the semaphore, and given up    *)
(* with the slot or for a unit.                                            *)
Balanced(e, e2, H, H2, F, F2, t) ==
  \/ e > 0 /\ e2 = e - 1 /\ H2 = H \cup {t} /\ F2 = F
  \/ e2 = e /\ H2 = H /\ F2 = F
  \/ e2 = e /\ t \in H /\ H2 = H \ {t} /\ \E x \in F : F2 = F \ {x}
  \/ e2 = e /\ H2 = H \cup {t} /\ \E x : x \notin F /\ F2 = F \cup {x}
  \/ e2 = e + 1 /\ t \in H /\ H2 = H \ {t} /\ F2 = F

LEMMA CountStep ==
  ASSUME NEW e \in Nat, NEW e2 \in Nat, NEW H, NEW H2, NEW F, NEW F2, NEW t,
         IsFiniteSet(H), IsFiniteSet(F), e + Cardinality(H) <= Cardinality(F),
         Balanced(e, e2, H, H2, F, F2, t)
  PROVE  e2 + Cardinality(H2) <= Cardinality(F2)
<1>1. Cardinality(H) \in Nat /\ Cardinality(F) \in Nat
  BY FS_CardinalityType
<1>2. /\ Cardinality(H \cup {t}) \in {Cardinality(H), Cardinality(H) + 1}
      /\ t \in H => Cardinality(H \ {t}) = Cardinality(H) - 1
      /\ \A x \in F : Cardinality(F \ {x}) = Cardinality(F) - 1
      /\ \A x : x \notin F => Cardinality(F \cup {x}) = Cardinality(F) + 1
  BY FS_AddElement, FS_RemoveElement
<1>3. CASE e > 0 /\ e2 = e - 1 /\ H2 = H \cup {t} /\ F2 = F
  BY <1>1, <1>2, <1>3
<1>4. CASE e2 = e /\ H2 = H /\ F2 = F
  BY <1>4
<1>5. CASE e2 = e /\ t \in H /\ H2 = H \ {t} /\ \E x \in F : F2 = F \ {x}
  BY <1>1, <1>2, <1>5
<1>6. CASE e2 = e /\ H2 = H \cup {t} /\ \E x : x \notin F /\ F2 = F \cup {x}
  BY <1>1, <1>2, <1>6
<1>7. CASE e2 = e + 1 /\ t \in H /\ H2 = H \ {t} /\ F2 = F
  BY <1>1, <1>2, <1>7
<1> QED BY <1>3, <1>4, <1>5, <1>6, <1>7 DEF Balanced

(* The claims and the slots are finitely many.                             *)
LEMMA BufferFinite ==
  ASSUME TypeOK
  PROVE  /\ IsFiniteSet(HasFree) /\ IsFiniteSet(HasFull)
         /\ IsFiniteSet(FreeSlots) /\ IsFiniteSet(FullSlots)
<1>1. IsFiniteSet(Sender \cup Consumer)
  <2>1. IsFiniteSet(Producer \cup {main})
    BY ThreadSets, FS_AddElement
  <2> QED BY <2>1, ThreadSets, FS_Union DEF Sender
<1>2. HasFree \subseteq Sender \cup Consumer /\ HasFull \subseteq Sender \cup Consumer
  BY DEF HasFree, HasFull
<1>3. IsFiniteSet(0..(BUFFER_SIZE - 1))
  BY SynchProblemsAssumption, FS_Interval
<1>4. FreeSlots \subseteq 0..(BUFFER_SIZE - 1) /\ FullSlots \subseteq 0..(BUFFER_SIZE - 1)
  BY Slots
<1> QED BY <1>1, <1>2, <1>3, <1>4, FS_Subset

(* The key is held by whoever is between its P and its V.                  *)
LEMMA KeyKept ==
  ASSUME TypeOK, KeyRight, NEW t \in Sender \cup Consumer, Step(t),
         \/ /\ Place(t) = 2 /\ Place(t)' = 3 /\ sem[Sem("buffer_key")] > 0
            /\ sem'[Sem("buffer_key")] = sem[Sem("buffer_key")] - 1
         \/ /\ Place(t) = 5 /\ Place(t)' = 6
            /\ sem'[Sem("buffer_key")] = sem[Sem("buffer_key")] + 1
         \/ /\ Place(t)' \in 3..5 <=> Place(t) \in 3..5
            /\ sem'[Sem("buffer_key")] = sem[Sem("buffer_key")]
  PROVE  KeyRight'
<1>1. t \in Thread /\ Sender \cup Consumer \subseteq Thread
  BY Classes
<1>2. \A u \in (Sender \cup Consumer) \ {t} : Place(u)' = Place(u)
  BY <1>1, PlacesElsewhere
<1>3. sem[Sem("buffer_key")] \in Nat
  BY Sems DEF TypeOK, BufferSems
<1>4. /\ sem[Sem("buffer_key")] <= 1
      /\ \A u \in Sender \cup Consumer : Place(u) \in 3..5 =>
           /\ sem[Sem("buffer_key")] = 0
           /\ \A v \in Sender \cup Consumer : Place(v) \in 3..5 => v = u
  BY DEF KeyRight
<1>5. /\ sem'[Sem("buffer_key")] <= 1
      /\ \A u \in Sender \cup Consumer : Place(u)' \in 3..5 =>
           /\ sem'[Sem("buffer_key")] = 0
           /\ \A v \in Sender \cup Consumer : Place(v)' \in 3..5 => v = u
  <2>1. CASE Place(t) = 2 /\ Place(t)' = 3
    <3>1. /\ sem[Sem("buffer_key")] = 1 /\ sem'[Sem("buffer_key")] = 0
      BY <1>3, <1>4, <2>1
    <3>2. \A u \in (Sender \cup Consumer) \ {t} : Place(u)' \notin 3..5
      BY <1>2, <1>4, <3>1
    <3> QED BY <3>1, <3>2
  <2>2. CASE Place(t) = 5 /\ Place(t)' = 6
    <3>1. /\ sem[Sem("buffer_key")] = 0 /\ sem'[Sem("buffer_key")] = 1
      BY <1>3, <1>4, <2>2
    <3>2. \A u \in Sender \cup Consumer : Place(u)' \notin 3..5
      BY <1>2, <1>4, <2>2
    <3> QED BY <3>1, <3>2
  <2>3. CASE /\ Place(t)' \in 3..5 <=> Place(t) \in 3..5
             /\ sem'[Sem("buffer_key")] = sem[Sem("buffer_key")]
    <3>1. \A u \in Sender \cup Consumer : Place(u)' \in 3..5 <=> Place(u) \in 3..5
      BY <1>2, <2>3
    <3> QED BY <1>4, <2>3, <3>1
  <2> QED BY <2>1, <2>2, <2>3
<1> QED BY <1>5 DEF KeyRight

(* A step changes only the thread's own claims.                            *)
LEMMA Claims ==
  ASSUME TypeOK, NEW t \in Sender \cup Consumer, Step(t)
  PROVE  /\ t \in Sender =>
              /\ t \in HasFree <=> Place(t) \in 2..4
              /\ t \in HasFull <=> Place(t) \in 5..6
              /\ HasFree' = IF Place(t)' \in 2..4 THEN HasFree \cup {t} ELSE HasFree \ {t}
              /\ HasFull' = IF Place(t)' \in 5..6 THEN HasFull \cup {t} ELSE HasFull \ {t}
         /\ t \in Consumer =>
              /\ t \in HasFree <=> Place(t) \in 5..6
              /\ t \in HasFull <=> Place(t) \in 2..4
              /\ HasFree' = IF Place(t)' \in 5..6 THEN HasFree \cup {t} ELSE HasFree \ {t}
              /\ HasFull' = IF Place(t)' \in 2..4 THEN HasFull \cup {t} ELSE HasFull \ {t}
<1>1. t \in Thread /\ Sender \cup Consumer \subseteq Thread
  BY Classes
<1>2. \A u \in (Sender \cup Consumer) \ {t} : Place(u)' = Place(u)
  BY <1>1, PlacesElsewhere
<1>3. \A u \in Consumer : Place(u) = pc[u] /\ Place(u)' = pc'[u] /\ u \notin Sender
  BY Kinds, Classes DEF Place
<1>4. \A u : u \in HasFree <=> \/ u \in Sender /\ Place(u) \in 2..4
                               \/ u \in Consumer /\ Place(u) \in 5..6
  BY <1>3 DEF HasFree
<1>5. \A u : u \in HasFull <=> \/ u \in Sender /\ Place(u) \in 5..6
                               \/ u \in Consumer /\ Place(u) \in 2..4
  BY <1>3 DEF HasFull
<1>6. \A u : u \in HasFree' <=> \/ u \in Sender /\ Place(u)' \in 2..4
                                \/ u \in Consumer /\ Place(u)' \in 5..6
  BY <1>3 DEF HasFree
<1>7. \A u : u \in HasFull' <=> \/ u \in Sender /\ Place(u)' \in 5..6
                                \/ u \in Consumer /\ Place(u)' \in 2..4
  BY <1>3 DEF HasFull
<1>8. ASSUME t \in Sender
      PROVE  /\ HasFree' = IF Place(t)' \in 2..4 THEN HasFree \cup {t} ELSE HasFree \ {t}
             /\ HasFull' = IF Place(t)' \in 5..6 THEN HasFull \cup {t} ELSE HasFull \ {t}
  <2>1. t \notin Consumer
    BY <1>8, Classes
  <2>2. \A u : u # t => (u \in HasFree' <=> u \in HasFree) /\ (u \in HasFull' <=> u \in HasFull)
    BY <1>2, <1>4, <1>5, <1>6, <1>7
  <2>3. (t \in HasFree' <=> Place(t)' \in 2..4) /\ (t \in HasFull' <=> Place(t)' \in 5..6)
    BY <1>6, <1>7, <1>8, <2>1
  <2> QED BY <2>2, <2>3
<1>9. ASSUME t \in Consumer
      PROVE  /\ HasFree' = IF Place(t)' \in 5..6 THEN HasFree \cup {t} ELSE HasFree \ {t}
             /\ HasFull' = IF Place(t)' \in 2..4 THEN HasFull \cup {t} ELSE HasFull \ {t}
  <2>1. t \notin Sender
    BY <1>9, Classes
  <2>2. \A u : u # t => (u \in HasFree' <=> u \in HasFree) /\ (u \in HasFull' <=> u \in HasFull)
    BY <1>2, <1>4, <1>5, <1>6, <1>7
  <2>3. (t \in HasFree' <=> Place(t)' \in 5..6) /\ (t \in HasFull' <=> Place(t)' \in 2..4)
    BY <1>6, <1>7, <1>9, <2>1
  <2> QED BY <2>2, <2>3
<1> QED BY <1>3, <1>4, <1>5, <1>8, <1>9

(* The slot that an item goes to, and the item.                            *)
LEMMA FillRight ==
  ASSUME TypeOK, DriverRight, BufferRight, NEW t \in Sender, Fill(t), Place(t) = 4, Busy(t)
  PROVE  /\ NewItem(t) \in Item /\ NewItem(t) \notin sent /\ NewItem(t) # NULL
         /\ local[t] \in FreeSlots /\ local[t] \notin FullSlots
         /\ item_buffer' = [item_buffer EXCEPT ![local[t]] = NewItem(t)]
         /\ FreeSlots' = FreeSlots \ {local[t]} /\ FullSlots' = FullSlots \cup {local[t]}
         /\ sent' = sent \cup {NewItem(t)} /\ received' = received /\ item' = item
<1>1. /\ local[t] \in FreeSlots /\ item_buffer \in [0..(BUFFER_SIZE - 1) -> Item \cup {NULL}]
      /\ pc \in [Thread -> Nat] /\ todo \in [Thread -> Nat]
  BY DEF BufferRight, ItemsRight, TypeOK
<1>2. NewItem(t) \in Item /\ NewItem(t) \notin sent
  <2>1. CASE t = main
    <3>1. /\ problem = "producerconsumer" /\ pc[main] - NUM_PRODUCERS \in 1..Sends
          /\ pc[main] \in Nat
      BY <1>1, <2>1 DEF Busy, Sending, Thread
    <3>2. NUM_PRODUCERS \in Nat /\ NUM_CONSUMERS \in Nat
      BY SynchProblemsAssumption
    <3>3. pc[main] \in 1..(NUM_PRODUCERS + 6 * NUM_CONSUMERS)
      BY <3>1, <3>2 DEF Sends
    <3>4. NewItem(t) = <<main, pc[main]>>
      BY <2>1 DEF NewItem
    <3>5. NewItem(t) \in Item
      BY <3>3, <3>4 DEF Item
    <3>6. \A n \in Nat : <<main, n>> \in sent => n < pc[main]
      BY <3>1 DEF BufferRight, ItemsRight
    <3> QED BY <3>1, <3>4, <3>5, <3>6
  <2>2. CASE t # main
    <3>1. t \in Producer /\ t \in Thread /\ pc[t] = 4
      BY <2>2, Classes DEF Sender, Place
    <3>2. todo[t] \in 1..ITEMS_TO_PRODUCE
      BY <1>1, <3>1 DEF BufferRight, ItemsRight
    <3>3. NewItem(t) = <<t, todo[t]>>
      BY <2>2 DEF NewItem
    <3>4. NewItem(t) \in Item
      BY <3>1, <3>2, <3>3 DEF Item
    <3>5. <<t, todo[t]>> \in sent => pc[t] \in 5..7
      BY <1>1, <3>1 DEF BufferRight, ItemsRight
    <3> QED BY <3>1, <3>3, <3>4, <3>5
  <2> QED BY <2>1, <2>2
<1>3. NewItem(t) # NULL
  <2>1. t[1] # "NULL"
    BY Kinds DEF Sender
  <2> QED BY <2>1 DEF NewItem, NULL
<1>4. /\ item_buffer' = [i \in DOMAIN item_buffer |->
                          IF i = local[t] THEN NewItem(t) ELSE item_buffer[i]]
      /\ sent' = sent \cup {NewItem(t)} /\ received' = received /\ item' = item
  BY DEF Fill
<1>5. FreeSlots' = FreeSlots \ {local[t]} /\ FullSlots' = FullSlots \cup {local[t]}
  BY <1>1, <1>3, <1>4 DEF FreeSlots, FullSlots
<1>6. item_buffer' = [item_buffer EXCEPT ![local[t]] = NewItem(t)]
  BY <1>1, <1>4
<1>7. local[t] \notin FullSlots
  BY <1>1 DEF FullSlots
<1> QED BY <1>1, <1>2, <1>3, <1>4, <1>5, <1>6, <1>7

(* The slot that an item is taken from.                                    *)
LEMMA TakeRight ==
  ASSUME TypeOK, BufferRight, NEW t \in Consumer, Take(t), pc[t] = 4
  PROVE  /\ local[t] \in FullSlots /\ local[t] \notin FreeSlots
         /\ item_buffer[local[t]] \in sent /\ item_buffer[local[t]] # NULL
         /\ item_buffer' = [item_buffer EXCEPT ![local[t]] = NULL]
         /\ FullSlots' = FullSlots \ {local[t]} /\ FreeSlots' = FreeSlots \cup {local[t]}
         /\ item' = [item EXCEPT ![t] = item_buffer[local[t]]]
         /\ sent' = sent /\ received' = received \cup {item_buffer[local[t]]}
<1>1. /\ local[t] \in FullSlots /\ item_buffer \in [0..(BUFFER_SIZE - 1) -> Item \cup {NULL}]
      /\ item_buffer[local[t]] \in sent
  BY DEF BufferRight, ItemsRight, TypeOK
<1>2. local[t] \in 0..(BUFFER_SIZE - 1) /\ item_buffer[local[t]] # NULL /\ local[t] \notin FreeSlots
  BY <1>1, Slots
<1>3. local[t] # BUFFER_SIZE
  BY <1>2, SynchProblemsAssumption
<1>4. /\ item_buffer' = [i \in DOMAIN item_buffer |->
                          IF i = local[t] THEN NULL ELSE item_buffer[i]]
      /\ item' = [item EXCEPT ![t] = item_buffer[local[t]]]
      /\ sent' = sent /\ received' = received \cup {item_buffer[local[t]]}
  BY <1>3 DEF Take
<1>5. FullSlots' = FullSlots \ {local[t]} /\ FreeSlots' = FreeSlots \cup {local[t]}
  BY <1>1, <1>2, <1>4 DEF FreeSlots, FullSlots
<1>6. item_buffer' = [item_buffer EXCEPT ![local[t]] = NULL]
  BY <1>1, <1>4
<1> QED BY <1>1, <1>2, <1>4, <1>5, <1>6

(* The counts and the key, after a step of a thread of the buffer.         *)
LEMMA BufferParts ==
  ASSUME TypeOK, BufferRight
  PROVE  /\ Sem("empty") \in Semaphore /\ Sem("full") \in Semaphore
         /\ Sem("buffer_key") \in Semaphore
         /\ Sem("empty") # Sem("full") /\ Sem("empty") # Sem("buffer_key")
         /\ Sem("full") # Sem("buffer_key")
         /\ sem[Sem("empty")] \in Nat /\ sem[Sem("full")] \in Nat
         /\ sem[Sem("buffer_key")] \in Nat /\ sem \in [Semaphore -> Nat]
         /\ Sender \cup Consumer \subseteq Thread
<1>1. Sem("empty") \in Semaphore /\ Sem("full") \in Semaphore /\ Sem("buffer_key") \in Semaphore
  BY Sems DEF BufferSems
<1>2. Sender \cup Consumer \subseteq Thread
  BY Classes
<1> QED BY <1>1, <1>2, Sems DEF TypeOK

(* Both counts, when each is balanced.                                     *)
LEMMA CountsStep ==
  ASSUME TypeOK, BufferRight, NEW t, sem' \in [Semaphore -> Nat],
         Balanced(sem[Sem("empty")], sem'[Sem("empty")], HasFree, HasFree',
                  FreeSlots, FreeSlots', t),
         Balanced(sem[Sem("full")], sem'[Sem("full")], HasFull, HasFull',
                  FullSlots, FullSlots', t)
  PROVE  CountsRight'
<1>1. /\ sem[Sem("empty")] \in Nat /\ sem[Sem("full")] \in Nat
      /\ sem'[Sem("empty")] \in Nat /\ sem'[Sem("full")] \in Nat
  BY BufferParts
<1>2. /\ sem[Sem("empty")] + Cardinality(HasFree) <= Cardinality(FreeSlots)
      /\ sem[Sem("full")] + Cardinality(HasFull) <= Cardinality(FullSlots)
  BY DEF BufferRight, CountsRight
<1>3. sem'[Sem("empty")] + Cardinality(HasFree') <= Cardinality(FreeSlots')
  BY <1>1, <1>2, BufferFinite, CountStep
<1>4. sem'[Sem("full")] + Cardinality(HasFull') <= Cardinality(FullSlots')
  BY <1>1, <1>2, BufferFinite, CountStep
<1> QED BY <1>3, <1>4 DEF CountsRight

(* The slots depend on the array alone.                                    *)
LEMMA SlotsSame ==
  ASSUME item_buffer' = item_buffer
  PROVE  FreeSlots' = FreeSlots /\ FullSlots' = FullSlots
BY DEF FreeSlots, FullSlots

(* A sender keeps the counts and the key.                                  *)
LEMMA SenderCounts ==
  ASSUME TypeOK, DriverRight, BufferRight, NEW t \in Sender, Step(t)
  PROVE  CountsRight' /\ KeyRight'
<1>0. /\ t \in Thread /\ KeyRight /\ sem' \in [Semaphore -> Nat] /\ t \in Sender \cup Consumer
      /\ KeyRight
  BY BufferParts, Types DEF BufferRight
<1>1. /\ t \in HasFree <=> Place(t) \in 2..4
      /\ t \in HasFull <=> Place(t) \in 5..6
      /\ HasFree' = IF Place(t)' \in 2..4 THEN HasFree \cup {t} ELSE HasFree \ {t}
      /\ HasFull' = IF Place(t)' \in 5..6 THEN HasFull \cup {t} ELSE HasFull \ {t}
  BY Claims
<1>2. PICK k, k2 : k = Place(t) /\ k2 = Place(t)'
  OBVIOUS
<1>s. ASSUME Balanced(sem[Sem("empty")], sem'[Sem("empty")], HasFree, HasFree',
                      FreeSlots, FreeSlots', t),
             Balanced(sem[Sem("full")], sem'[Sem("full")], HasFull, HasFull',
                      FullSlots, FullSlots', t),
             \/ /\ k = 2 /\ k2 = 3 /\ sem[Sem("buffer_key")] > 0
                /\ sem'[Sem("buffer_key")] = sem[Sem("buffer_key")] - 1
             \/ /\ k = 5 /\ k2 = 6
                /\ sem'[Sem("buffer_key")] = sem[Sem("buffer_key")] + 1
             \/ /\ k2 \in 3..5 <=> k \in 3..5
                /\ sem'[Sem("buffer_key")] = sem[Sem("buffer_key")]
      PROVE  CountsRight' /\ KeyRight'
  <2>1. CountsRight'
    BY <1>0, <1>s, CountsStep
  <2>2. KeyRight'
    BY <1>0, <1>2, <1>s, KeyKept
  <2> QED BY <2>1, <2>2
<1>a. CASE ~Busy(t)
  <2>1. /\ k \in {1, 7} /\ k2 \in {0, 1} /\ item_buffer' = item_buffer
        /\ \A s \in BufferSems : sem'[s] = sem[s]
    BY <1>2, <1>a, SenderStep DEF buffers
  <2>2. /\ sem'[Sem("empty")] = sem[Sem("empty")] /\ sem'[Sem("full")] = sem[Sem("full")]
        /\ sem'[Sem("buffer_key")] = sem[Sem("buffer_key")]
    BY <2>1 DEF BufferSems
  <2>3. HasFree' = HasFree /\ HasFull' = HasFull
    BY <1>1, <1>2, <2>1
  <2> QED BY <1>s, <2>1, <2>2, <2>3, SlotsSame DEF Balanced
<1>b. CASE Busy(t)
  <2>1. /\ k \in 1..6 /\ Does(t, producer_send[k])
        /\ k \in 1..5 => k2 = k + 1
        /\ k = 6 => k2 \in {1, 7}
    BY <1>2, <1>b, SenderStep
  <2>2. CASE k = 1
    <3>1. sem[Sem("empty")] > 0 /\ sem' = [sem EXCEPT ![Sem("empty")] = @ - 1] /\ buffers' = buffers
      BY <1>0, <2>1, <2>2, SendEffects
    <3>2. /\ sem'[Sem("empty")] = sem[Sem("empty")] - 1 /\ sem'[Sem("full")] = sem[Sem("full")]
          /\ sem'[Sem("buffer_key")] = sem[Sem("buffer_key")]
      BY <3>1, BufferParts
    <3>3. HasFree' = HasFree \cup {t} /\ HasFull' = HasFull
      BY <1>1, <1>2, <2>1, <2>2
    <3> QED BY <1>s, <2>1, <2>2, <3>1, <3>2, <3>3, SlotsSame DEF Balanced, buffers
  <2>3. CASE k = 2
    <3>1. /\ sem[Sem("buffer_key")] > 0 /\ sem' = [sem EXCEPT ![Sem("buffer_key")] = @ - 1]
          /\ buffers' = buffers
      BY <1>0, <2>1, <2>3, SendEffects
    <3>2. /\ sem'[Sem("empty")] = sem[Sem("empty")] /\ sem'[Sem("full")] = sem[Sem("full")]
          /\ sem'[Sem("buffer_key")] = sem[Sem("buffer_key")] - 1
      BY <3>1, BufferParts
    <3>3. HasFree' = HasFree /\ HasFull' = HasFull
      BY <1>1, <1>2, <2>1, <2>3
    <3> QED BY <1>s, <2>1, <2>3, <3>1, <3>2, <3>3, SlotsSame DEF Balanced, buffers
  <2>4. CASE k = 3
    <3>1. sem' = sem /\ buffers' = buffers
      BY <1>0, <2>1, <2>4, SendEffects
    <3>3. HasFree' = HasFree /\ HasFull' = HasFull
      BY <1>1, <1>2, <2>1, <2>4
    <3> QED BY <1>s, <2>1, <2>4, <3>1, <3>3, SlotsSame DEF Balanced, buffers
  <2>5. CASE k = 4
    <3>1. sem' = sem /\ Fill(t)
      BY <1>0, <2>1, <2>5, SendEffects
    <3>2. /\ local[t] \in FreeSlots /\ local[t] \notin FullSlots
          /\ FreeSlots' = FreeSlots \ {local[t]} /\ FullSlots' = FullSlots \cup {local[t]}
      BY <1>2, <1>b, <2>5, <3>1, FillRight
    <3>3. t \in HasFree /\ HasFree' = HasFree \ {t} /\ HasFull' = HasFull \cup {t}
      BY <1>1, <1>2, <2>1, <2>5
    <3>4. k2 = 5
      BY <2>1, <2>5
    <3>5. Balanced(sem[Sem("empty")], sem'[Sem("empty")], HasFree, HasFree',
                   FreeSlots, FreeSlots', t)
      BY <3>1, <3>2, <3>3 DEF Balanced
    <3>6. Balanced(sem[Sem("full")], sem'[Sem("full")], HasFull, HasFull',
                   FullSlots, FullSlots', t)
      BY <3>1, <3>2, <3>3 DEF Balanced
    <3> QED BY <1>s, <2>5, <3>1, <3>4, <3>5, <3>6
  <2>6. CASE k = 5
    <3>1. sem' = [sem EXCEPT ![Sem("buffer_key")] = @ + 1] /\ buffers' = buffers
      BY <1>0, <2>1, <2>6, SendEffects
    <3>2. /\ sem'[Sem("empty")] = sem[Sem("empty")] /\ sem'[Sem("full")] = sem[Sem("full")]
          /\ sem'[Sem("buffer_key")] = sem[Sem("buffer_key")] + 1
      BY <3>1, BufferParts
    <3>3. HasFree' = HasFree /\ HasFull' = HasFull
      BY <1>1, <1>2, <2>1, <2>6
    <3> QED BY <1>s, <2>1, <2>6, <3>1, <3>2, <3>3, SlotsSame DEF Balanced, buffers
  <2>7. CASE k = 6
    <3>1. sem' = [sem EXCEPT ![Sem("full")] = @ + 1] /\ buffers' = buffers
      BY <1>0, <2>1, <2>7, SendEffects
    <3>2. /\ sem'[Sem("empty")] = sem[Sem("empty")] /\ sem'[Sem("full")] = sem[Sem("full")] + 1
          /\ sem'[Sem("buffer_key")] = sem[Sem("buffer_key")]
      BY <3>1, BufferParts
    <3>3. t \in HasFull /\ HasFree' = HasFree /\ HasFull' = HasFull \ {t}
      BY <1>1, <1>2, <2>1, <2>7
    <3> QED BY <1>s, <2>1, <2>7, <3>1, <3>2, <3>3, SlotsSame DEF Balanced, buffers
  <2> QED BY <2>1, <2>2, <2>3, <2>4, <2>5, <2>6, <2>7
<1> QED BY <1>a, <1>b

(* A consumer keeps the counts and the key.                                *)
LEMMA ConsumerCounts ==
  ASSUME TypeOK, DriverRight, BufferRight, NEW t \in Consumer, Step(t)
  PROVE  CountsRight' /\ KeyRight'
<1>0. /\ t \in Thread /\ KeyRight /\ sem' \in [Semaphore -> Nat] /\ t \in Sender \cup Consumer
  BY BufferParts, Types DEF BufferRight
<1>1. /\ t \in HasFree <=> Place(t) \in 5..6
      /\ t \in HasFull <=> Place(t) \in 2..4
      /\ HasFree' = IF Place(t)' \in 5..6 THEN HasFree \cup {t} ELSE HasFree \ {t}
      /\ HasFull' = IF Place(t)' \in 2..4 THEN HasFull \cup {t} ELSE HasFull \ {t}
  BY Claims
<1>2. PICK k, k2 : k = Place(t) /\ k2 = Place(t)'
  OBVIOUS
<1>3. k = pc[t] /\ k2 = pc'[t]
  BY <1>2, ConsumerStep
<1>s. ASSUME Balanced(sem[Sem("empty")], sem'[Sem("empty")], HasFree, HasFree',
                      FreeSlots, FreeSlots', t),
             Balanced(sem[Sem("full")], sem'[Sem("full")], HasFull, HasFull',
                      FullSlots, FullSlots', t),
             \/ /\ k = 2 /\ k2 = 3 /\ sem[Sem("buffer_key")] > 0
                /\ sem'[Sem("buffer_key")] = sem[Sem("buffer_key")] - 1
             \/ /\ k = 5 /\ k2 = 6
                /\ sem'[Sem("buffer_key")] = sem[Sem("buffer_key")] + 1
             \/ /\ k2 \in 3..5 <=> k \in 3..5
                /\ sem'[Sem("buffer_key")] = sem[Sem("buffer_key")]
      PROVE  CountsRight' /\ KeyRight'
  <2>1. CountsRight'
    BY <1>0, <1>s, CountsStep
  <2>2. KeyRight'
    BY <1>0, <1>2, <1>s, KeyKept
  <2> QED BY <2>1, <2>2
<1>a. CASE k \notin 1..6
  <2>1. /\ k = 7 /\ k2 \in {0, 1} /\ item_buffer' = item_buffer
        /\ \A s \in BufferSems : sem'[s] = sem[s]
    BY <1>3, <1>a, ConsumerStep
  <2>2. /\ sem'[Sem("empty")] = sem[Sem("empty")] /\ sem'[Sem("full")] = sem[Sem("full")]
        /\ sem'[Sem("buffer_key")] = sem[Sem("buffer_key")]
    BY <2>1 DEF BufferSems
  <2>3. HasFree' = HasFree /\ HasFull' = HasFull
    BY <1>1, <1>2, <2>1
  <2> QED BY <1>s, <2>1, <2>2, <2>3, SlotsSame DEF Balanced
<1>b. CASE k \in 1..6
  <2>1. Does(t, consumer_receive[k]) /\ k2 = k + 1
    BY <1>3, <1>b, ConsumerStep
  <2>2. CASE k = 1
    <3>1. sem[Sem("full")] > 0 /\ sem' = [sem EXCEPT ![Sem("full")] = @ - 1] /\ buffers' = buffers
      BY <1>0, <1>b, <2>1, <2>2, ReceiveEffects
    <3>2. /\ sem'[Sem("full")] = sem[Sem("full")] - 1 /\ sem'[Sem("empty")] = sem[Sem("empty")]
          /\ sem'[Sem("buffer_key")] = sem[Sem("buffer_key")]
      BY <3>1, BufferParts
    <3>3. HasFull' = HasFull \cup {t} /\ HasFree' = HasFree
      BY <1>1, <1>2, <2>1, <2>2
    <3> QED BY <1>s, <2>1, <2>2, <3>1, <3>2, <3>3, SlotsSame DEF Balanced, buffers
  <2>3. CASE k = 2
    <3>1. /\ sem[Sem("buffer_key")] > 0 /\ sem' = [sem EXCEPT ![Sem("buffer_key")] = @ - 1]
          /\ buffers' = buffers
      BY <1>0, <1>b, <2>1, <2>3, ReceiveEffects
    <3>2. /\ sem'[Sem("empty")] = sem[Sem("empty")] /\ sem'[Sem("full")] = sem[Sem("full")]
          /\ sem'[Sem("buffer_key")] = sem[Sem("buffer_key")] - 1
      BY <3>1, BufferParts
    <3>3. HasFree' = HasFree /\ HasFull' = HasFull
      BY <1>1, <1>2, <2>1, <2>3
    <3> QED BY <1>s, <2>1, <2>3, <3>1, <3>2, <3>3, SlotsSame DEF Balanced, buffers
  <2>4. CASE k = 3
    <3>1. sem' = sem /\ buffers' = buffers
      BY <1>0, <1>b, <2>1, <2>4, ReceiveEffects
    <3>3. HasFree' = HasFree /\ HasFull' = HasFull
      BY <1>1, <1>2, <2>1, <2>4
    <3> QED BY <1>s, <2>1, <2>4, <3>1, <3>3, SlotsSame DEF Balanced, buffers
  <2>5. CASE k = 4
    <3>1. sem' = sem /\ Take(t)
      BY <1>0, <1>b, <2>1, <2>5, ReceiveEffects
    <3>2. /\ local[t] \in FullSlots /\ local[t] \notin FreeSlots
          /\ FullSlots' = FullSlots \ {local[t]} /\ FreeSlots' = FreeSlots \cup {local[t]}
      BY <1>3, <2>5, <3>1, TakeRight
    <3>3. t \in HasFull /\ HasFull' = HasFull \ {t} /\ HasFree' = HasFree \cup {t}
      BY <1>1, <1>2, <2>1, <2>5
    <3>4. k2 = 5
      BY <2>1, <2>5
    <3>5. Balanced(sem[Sem("empty")], sem'[Sem("empty")], HasFree, HasFree',
                   FreeSlots, FreeSlots', t)
      BY <3>1, <3>2, <3>3 DEF Balanced
    <3>6. Balanced(sem[Sem("full")], sem'[Sem("full")], HasFull, HasFull',
                   FullSlots, FullSlots', t)
      BY <3>1, <3>2, <3>3 DEF Balanced
    <3> QED BY <1>s, <2>5, <3>1, <3>4, <3>5, <3>6
  <2>6. CASE k = 5
    <3>1. sem' = [sem EXCEPT ![Sem("buffer_key")] = @ + 1] /\ buffers' = buffers
      BY <1>0, <1>b, <2>1, <2>6, ReceiveEffects
    <3>2. /\ sem'[Sem("empty")] = sem[Sem("empty")] /\ sem'[Sem("full")] = sem[Sem("full")]
          /\ sem'[Sem("buffer_key")] = sem[Sem("buffer_key")] + 1
      BY <3>1, BufferParts
    <3>3. HasFree' = HasFree /\ HasFull' = HasFull
      BY <1>1, <1>2, <2>1, <2>6
    <3> QED BY <1>s, <2>1, <2>6, <3>1, <3>2, <3>3, SlotsSame DEF Balanced, buffers
  <2>7. CASE k = 6
    <3>1. sem' = [sem EXCEPT ![Sem("empty")] = @ + 1] /\ buffers' = buffers
      BY <1>0, <1>b, <2>1, <2>7, ReceiveEffects
    <3>2. /\ sem'[Sem("full")] = sem[Sem("full")] /\ sem'[Sem("empty")] = sem[Sem("empty")] + 1
          /\ sem'[Sem("buffer_key")] = sem[Sem("buffer_key")]
      BY <3>1, BufferParts
    <3>3. t \in HasFree /\ HasFull' = HasFull /\ HasFree' = HasFree \ {t}
      BY <1>1, <1>2, <2>1, <2>7
    <3> QED BY <1>s, <2>1, <2>7, <3>1, <3>2, <3>3, SlotsSame DEF Balanced, buffers
  <2> QED BY <1>b, <2>2, <2>3, <2>4, <2>5, <2>6, <2>7
<1> QED BY <1>a, <1>b

(* The items, after a step that leaves the slots alone.                    *)
LEMMA ItemsKept ==
  ASSUME TypeOK, BufferRight, NEW t \in Thread, Step(t), item_buffer' = item_buffer, sent' = sent,
         t \in Producer \cup Consumer => pc'[t] \in 0..7,
         t \in Sender /\ Place(t)' = 4 => local'[t] \in FreeSlots,
         t \in Consumer /\ pc'[t] = 4 => local'[t] \in FullSlots,
         t \in Producer =>
           /\ todo'[t] <= ITEMS_TO_PRODUCE /\ (pc'[t] # 0 => todo'[t] >= 1)
           /\ \A n \in Nat : <<t, n>> \in sent =>
                n >= todo'[t] /\ (n = todo'[t] => pc'[t] \in 5..7),
         problem' = "producerconsumer" => problem = "producerconsumer" /\ pc'[main] >= pc[main]
  PROVE  ItemsRight'
<1>1. /\ FreeSlots' = FreeSlots /\ FullSlots' = FullSlots
      /\ Sender \subseteq Thread /\ Consumer \subseteq Thread /\ Producer \subseteq Sender
  BY SlotsSame, Classes DEF Sender
<1>2. \A u \in Thread \ {t} : /\ Place(u)' = Place(u) /\ pc'[u] = pc[u]
                              /\ local'[u] = local[u] /\ todo'[u] = todo[u]
  BY PlacesElsewhere
<1>3. ItemsRight /\ pc[main] \in Nat /\ pc'[main] \in Nat
  BY Types DEF BufferRight, TypeOK, Thread
<1>4. \A u \in Producer \cup Consumer : pc'[u] \in 0..7
  BY <1>1, <1>2, <1>3 DEF ItemsRight
<1>5. \A u \in Sender : Place(u)' = 4 => local'[u] \in FreeSlots'
  BY <1>1, <1>2, <1>3 DEF ItemsRight
<1>6. \A u \in Consumer : pc'[u] = 4 => local'[u] \in FullSlots'
  BY <1>1, <1>2, <1>3 DEF ItemsRight
<1>7. /\ \A i \in FullSlots' : item_buffer'[i] \in sent'
      /\ \A i, j \in FullSlots' : item_buffer'[i] = item_buffer'[j] => i = j
  BY <1>1, <1>3 DEF ItemsRight
<1>8. \A u \in Producer :
        /\ todo'[u] <= ITEMS_TO_PRODUCE /\ (pc'[u] # 0 => todo'[u] >= 1)
        /\ \A n \in Nat : <<u, n>> \in sent' =>
             n >= todo'[u] /\ (n = todo'[u] => pc'[u] \in 5..7)
  <2>1. ASSUME NEW u \in Producer, u # t
        PROVE  /\ todo'[u] <= ITEMS_TO_PRODUCE /\ (pc'[u] # 0 => todo'[u] >= 1)
               /\ \A n \in Nat : <<u, n>> \in sent' =>
                    n >= todo'[u] /\ (n = todo'[u] => pc'[u] \in 5..7)
    <3>1. pc'[u] = pc[u] /\ todo'[u] = todo[u]
      BY <1>1, <1>2, <2>1
    <3> QED BY <1>3, <3>1 DEF ItemsRight
  <2> QED BY <2>1
<1>9. problem' = "producerconsumer" => \A n \in Nat : <<main, n>> \in sent' => n < pc'[main]
  BY <1>3 DEF ItemsRight
<1> QED BY <1>4, <1>5, <1>6, <1>7, <1>8, <1>9 DEF ItemsRight

(* Whoever has a claim finds a slot.                                       *)
LEMMA Found ==
  ASSUME TypeOK, BufferRight
  PROVE  /\ HasFree # {} => First(FreeSlots) \in FreeSlots
         /\ HasFull # {} => First(FullSlots) \in FullSlots
<1>1. /\ sem[Sem("empty")] \in Nat /\ sem[Sem("full")] \in Nat
      /\ sem[Sem("empty")] + Cardinality(HasFree) <= Cardinality(FreeSlots)
      /\ sem[Sem("full")] + Cardinality(HasFull) <= Cardinality(FullSlots)
  BY BufferParts DEF BufferRight, CountsRight
<1>2. /\ HasFree # {} => Cardinality(HasFree) > 0 /\ Cardinality(HasFree) \in Nat
      /\ HasFull # {} => Cardinality(HasFull) > 0 /\ Cardinality(HasFull) \in Nat
  <2>1. /\ Cardinality(HasFree) \in Nat /\ (Cardinality(HasFree) = 0 <=> HasFree = {})
        /\ Cardinality(HasFull) \in Nat /\ (Cardinality(HasFull) = 0 <=> HasFull = {})
    BY BufferFinite, FS_CardinalityType, FS_EmptySet
  <2> QED BY <2>1
<1>3. Cardinality({}) = 0
  BY FS_EmptySet
<1>4. (HasFree # {} => FreeSlots # {}) /\ (HasFull # {} => FullSlots # {})
  BY <1>1, <1>2, <1>3
<1>5. FreeSlots \subseteq Nat /\ FullSlots \subseteq Nat
  BY Slots
<1> QED BY <1>4, <1>5, FirstIs

(* A sender keeps the items right.                                         *)
LEMMA SenderItems ==
  ASSUME TypeOK, DriverRight, BufferRight, NEW t \in Sender, Step(t)
  PROVE  /\ ItemsRight'
         /\ item_buffer' \in [0..(BUFFER_SIZE - 1) -> Item \cup {NULL}]
         /\ item' \in [Consumer -> Item \cup {NULL}]
         /\ sent' \subseteq Item /\ received' \subseteq Item
<1>0. /\ t \in Thread /\ t \notin Consumer /\ ItemsRight /\ KeyRight /\ pc \in [Thread -> Nat]
      /\ todo \in [Thread -> Nat] /\ main \in Thread
      /\ (t # main => t \in Producer /\ Place(t) = pc[t] /\ Place(t)' = pc'[t])
      /\ (t = main => t \notin Producer)
  BY BufferParts, Classes, Kinds DEF BufferRight, TypeOK, Sender, Place, Thread
<1>1. problem' = "producerconsumer" => problem' = problem
  BY <1>0, Elsewhere
<1>2. t # main => pc'[main] = pc[main]
  BY <1>0, PlacesElsewhere
<1>t. /\ item_buffer \in [0..(BUFFER_SIZE - 1) -> Item \cup {NULL}]
      /\ item \in [Consumer -> Item \cup {NULL}] /\ sent \subseteq Item /\ received \subseteq Item
  BY DEF TypeOK
<1>a. CASE ~Busy(t)
  <2>1. /\ Place(t)' \in {0, 1} /\ buffers' = buffers
        /\ t = main => (problem' = problem => pc'[main] = pc[main] + 1)
        /\ t # main => \/ todo[t] > 1 /\ todo'[t] = todo[t] - 1 /\ pc[t] = 7 /\ pc'[t] = 1
                       \/ pc[t] = 7 /\ pc'[t] = 0 /\ todo'[t] = 0
    BY <1>a, SenderStep
  <2>2. ASSUME t \in Producer
        PROVE  /\ todo'[t] <= ITEMS_TO_PRODUCE /\ (pc'[t] # 0 => todo'[t] >= 1)
               /\ \A n \in Nat : <<t, n>> \in sent =>
                    n >= todo'[t] /\ (n = todo'[t] => pc'[t] \in 5..7)
    <3>1. /\ todo[t] <= ITEMS_TO_PRODUCE /\ todo[t] \in Nat
          /\ \A n \in Nat : <<t, n>> \in sent => n >= todo[t]
      BY <1>0, <2>2 DEF ItemsRight
    <3>2. ITEMS_TO_PRODUCE \in Nat
      BY SynchProblemsAssumption
    <3>3. \A n \in Nat : <<t, n>> \in sent => n >= 1
      BY <1>t DEF Item
    <3>4. \/ todo[t] > 1 /\ todo'[t] = todo[t] - 1 /\ pc'[t] = 1
          \/ pc'[t] = 0 /\ todo'[t] = 0
      BY <1>0, <2>1, <2>2
    <3> QED BY <3>1, <3>2, <3>3, <3>4
  <2>3. t \in Producer \cup Consumer => pc'[t] \in 0..7
    BY <1>0, <2>1
  <2>4. problem' = "producerconsumer" => problem = "producerconsumer" /\ pc'[main] >= pc[main]
    BY <1>0, <1>1, <1>2, <2>1
  <2>5. ItemsRight'
    BY <1>0, <2>1, <2>2, <2>3, <2>4, ItemsKept DEF buffers
  <2> QED BY <1>t, <2>1, <2>5 DEF buffers
<1>b. CASE Busy(t)
  <2>1. PICK k : k = Place(t)
    OBVIOUS
  <2>2. /\ k \in 1..6 /\ Does(t, producer_send[k])
        /\ k \in 1..5 => Place(t)' = k + 1
        /\ k = 6 => Place(t)' \in {1, 7}
    BY <1>b, <2>1, SenderStep
  <2>3. problem' = problem /\ pc'[t] = pc[t] + 1 /\ todo' = todo
    BY <1>0, <2>2, SendEffects
  <2>4. CASE k # 4
    <3>1. buffers' = buffers
      BY <1>0, <2>2, <2>4, SendEffects
    <3>2. t \in Sender /\ Place(t)' = 4 => local'[t] \in FreeSlots
      <4>1. ASSUME Place(t)' = 4 PROVE k = 3 /\ t \in HasFree
        BY <2>1, <2>2, <4>1, Claims
      <4>2. k = 3 => local'[t] = First(FreeSlots)
        BY <1>0, <2>2, SendEffects
      <4> QED BY <4>1, <4>2, Found
    <3>3. ASSUME t \in Producer
          PROVE  /\ pc'[t] \in 0..7
                 /\ todo'[t] <= ITEMS_TO_PRODUCE /\ (pc'[t] # 0 => todo'[t] >= 1)
                 /\ \A n \in Nat : <<t, n>> \in sent =>
                      n >= todo'[t] /\ (n = todo'[t] => pc'[t] \in 5..7)
      <4>1. /\ todo[t] <= ITEMS_TO_PRODUCE /\ (pc[t] # 0 => todo[t] >= 1)
            /\ \A n \in Nat : <<t, n>> \in sent =>
                 n >= todo[t] /\ (n = todo[t] => pc[t] \in 5..7)
        BY <1>0, <3>3 DEF ItemsRight
      <4>2. pc[t] \in 1..6 /\ pc[t] # 4 /\ pc'[t] = pc[t] + 1 /\ todo'[t] = todo[t]
        BY <1>0, <2>1, <2>2, <2>3, <2>4, <3>3
      <4> QED BY <4>1, <4>2
    <3>4. problem' = "producerconsumer" => problem = "producerconsumer" /\ pc'[main] >= pc[main]
      BY <1>0, <1>2, <2>3
    <3>5. ItemsRight'
      BY <1>0, <3>1, <3>2, <3>3, <3>4, ItemsKept DEF buffers
    <3> QED BY <1>t, <3>1, <3>5 DEF buffers
  <2>5. CASE k = 4
    <3>0. Fill(t)
      BY <1>0, <2>2, <2>5, SendEffects
    <3>1. /\ NewItem(t) \in Item /\ NewItem(t) \notin sent /\ NewItem(t) # NULL
          /\ local[t] \in FreeSlots /\ local[t] \notin FullSlots
          /\ item_buffer' = [item_buffer EXCEPT ![local[t]] = NewItem(t)]
          /\ FreeSlots' = FreeSlots \ {local[t]} /\ FullSlots' = FullSlots \cup {local[t]}
          /\ sent' = sent \cup {NewItem(t)} /\ received' = received /\ item' = item
      BY <1>b, <2>1, <2>5, <3>0, FillRight
    <3>2. /\ item_buffer' \in [0..(BUFFER_SIZE - 1) -> Item \cup {NULL}]
          /\ item' \in [Consumer -> Item \cup {NULL}]
          /\ sent' \subseteq Item /\ received' \subseteq Item
      BY <1>t, <3>1
    <3>3. Place(t)' = 5
      BY <2>2, <2>5
    <3>4. \A u \in (Sender \cup Consumer) \ {t} :
            Place(u)' # 4 /\ pc'[u] = pc[u] /\ todo'[u] = todo[u]
      <4>1. \A u \in (Sender \cup Consumer) \ {t} :
              Place(u)' = Place(u) /\ pc'[u] = pc[u] /\ todo'[u] = todo[u]
        BY <1>0, PlacesElsewhere, BufferParts
      <4>2. \A u \in (Sender \cup Consumer) \ {t} : Place(u) \notin 3..5
        <5>1. Place(t) \in 3..5 /\ t \in Sender \cup Consumer
          BY <2>1, <2>5
        <5> QED BY <1>0, <5>1 DEF KeyRight
      <4> QED BY <4>1, <4>2
    <3>5. \A u \in Producer \cup Consumer : pc'[u] \in 0..7
      <4>1. t \in Producer => pc'[t] = 5
        BY <1>0, <2>1, <2>3, <2>5
      <4> QED BY <1>0, <3>4, <4>1 DEF ItemsRight, Sender
    <3>6. \A u \in Sender : Place(u)' # 4
      BY <3>3, <3>4
    <3>7. \A u \in Consumer : pc'[u] # 4
      <4>1. \A u \in Consumer : Place(u)' = pc'[u] /\ u # t
        BY <1>0, Kinds DEF Place
      <4> QED BY <3>4, <4>1
    <3>8. /\ \A i \in FullSlots' : item_buffer'[i] \in sent'
          /\ \A i, j \in FullSlots' : item_buffer'[i] = item_buffer'[j] => i = j
      <4>1. /\ \A i \in FullSlots : item_buffer[i] \in sent
            /\ \A i, j \in FullSlots : item_buffer[i] = item_buffer[j] => i = j
        BY <1>0 DEF ItemsRight
      <4>2. /\ item_buffer'[local[t]] = NewItem(t)
            /\ \A i \in FullSlots : item_buffer'[i] = item_buffer[i]
        BY <1>t, <3>1, Slots
      <4> QED BY <3>1, <4>1, <4>2
    <3>9. ASSUME NEW u \in Producer
          PROVE  /\ todo'[u] <= ITEMS_TO_PRODUCE /\ (pc'[u] # 0 => todo'[u] >= 1)
                 /\ \A n \in Nat : <<u, n>> \in sent' =>
                      n >= todo'[u] /\ (n = todo'[u] => pc'[u] \in 5..7)
      <4>1. /\ todo[u] <= ITEMS_TO_PRODUCE /\ (pc[u] # 0 => todo[u] >= 1)
            /\ \A n \in Nat : <<u, n>> \in sent =>
                 n >= todo[u] /\ (n = todo[u] => pc[u] \in 5..7)
        BY <1>0 DEF ItemsRight
      <4>2. CASE u = t
        <5>1. /\ pc[u] = 4 /\ pc'[u] = 5 /\ todo'[u] = todo[u] /\ t # main
              /\ NewItem(t) = <<u, todo[u]>>
          BY <1>0, <2>1, <2>3, <2>5, <4>2 DEF NewItem
        <5>2. \A n \in Nat : <<u, n>> \in sent' => <<u, n>> \in sent \/ n = todo[u]
          BY <3>1, <5>1
        <5>3. todo[u] \in Nat
          BY <1>0, <4>2
        <5> QED BY <4>1, <5>1, <5>2, <5>3
      <4>3. CASE u # t
        <5>1. pc'[u] = pc[u] /\ todo'[u] = todo[u]
          BY <3>4, <4>3 DEF Sender
        <5>2. \A n \in Nat : <<u, n>> \in sent' => <<u, n>> \in sent
          BY <3>1, <4>3 DEF NewItem
        <5> QED BY <4>1, <5>1, <5>2
      <4> QED BY <4>2, <4>3
    <3>10. problem' = "producerconsumer" => \A n \in Nat : <<main, n>> \in sent' => n < pc'[main]
      <4>1. problem' = "producerconsumer" => \A n \in Nat : <<main, n>> \in sent => n < pc[main]
        BY <1>0, <2>3 DEF ItemsRight
      <4>2. pc[main] \in Nat
        BY <1>0
      <4>3. CASE t = main
        <5>1. NewItem(t) = <<main, pc[main]>> /\ pc'[main] = pc[main] + 1
          BY <2>3, <4>3 DEF NewItem
        <5>2. \A n \in Nat : <<main, n>> \in sent' => <<main, n>> \in sent \/ n = pc[main]
          BY <3>1, <5>1
        <5> QED BY <4>1, <4>2, <5>1, <5>2
      <4>4. CASE t # main
        <5>1. \A n \in Nat : <<main, n>> \in sent' => <<main, n>> \in sent
          BY <3>1, <4>4 DEF NewItem
        <5> QED BY <1>2, <4>1, <4>4, <5>1
      <4> QED BY <4>3, <4>4
    <3>11. ItemsRight'
      BY <3>5, <3>6, <3>7, <3>8, <3>9, <3>10 DEF ItemsRight
    <3> QED BY <3>2, <3>11
  <2> QED BY <2>4, <2>5
<1> QED BY <1>a, <1>b

(* A consumer keeps the items right.                                       *)
LEMMA ConsumerItems ==
  ASSUME TypeOK, DriverRight, BufferRight, NEW t \in Consumer, Step(t)
  PROVE  /\ ItemsRight'
         /\ item_buffer' \in [0..(BUFFER_SIZE - 1) -> Item \cup {NULL}]
         /\ item' \in [Consumer -> Item \cup {NULL}]
         /\ sent' \subseteq Item /\ received' \subseteq Item
<1>0. /\ t \in Thread /\ t \notin Sender /\ t \notin Producer /\ t # main /\ main \in Thread
      /\ ItemsRight /\ KeyRight
      /\ Place(t) = pc[t] /\ Place(t)' = pc'[t]
  BY BufferParts, Classes DEF BufferRight, Sender, Place, Thread
<1>1. problem' = problem /\ pc'[main] = pc[main] /\ pc[main] \in Nat
  BY <1>0, Elsewhere, PlacesElsewhere DEF TypeOK
<1>t. /\ item_buffer \in [0..(BUFFER_SIZE - 1) -> Item \cup {NULL}]
      /\ item \in [Consumer -> Item \cup {NULL}] /\ sent \subseteq Item /\ received \subseteq Item
  BY DEF TypeOK
<1>2. PICK k : k = pc[t]
  OBVIOUS
<1>a. CASE k \notin 1..6
  <2>1. /\ pc'[t] \in {0, 1} /\ UNCHANGED <<item_buffer, sent, received>>
        /\ item' = [item EXCEPT ![t] = NULL]
    BY <1>2, <1>a, ConsumerStep
  <2>2. ItemsRight'
    BY <1>0, <1>1, <2>1, ItemsKept
  <2> QED BY <1>t, <2>1, <2>2
<1>b. CASE k \in 1..6 /\ k # 4
  <2>1. Does(t, consumer_receive[k]) /\ pc'[t] = k + 1
    BY <1>2, <1>b, ConsumerStep
  <2>2. buffers' = buffers
    BY <1>0, <1>b, <2>1, ReceiveEffects
  <2>3. pc'[t] = 4 => local'[t] \in FullSlots
    <3>1. ASSUME pc'[t] = 4 PROVE k = 3 /\ t \in HasFull
      BY <1>0, <1>2, <1>b, <2>1, <3>1, Claims
    <3>2. k = 3 => local'[t] = First(FullSlots)
      BY <1>0, <1>b, <2>1, ReceiveEffects
    <3> QED BY <3>1, <3>2, Found
  <2>4. pc'[t] \in 0..7
    BY <1>b, <2>1
  <2>5. ItemsRight'
    BY <1>0, <1>1, <2>2, <2>3, <2>4, ItemsKept DEF buffers
  <2> QED BY <1>t, <2>2, <2>5 DEF buffers
<1>c. CASE k = 4
  <2>1. Take(t) /\ pc'[t] = 5
    <3>1. k \in 1..6 /\ pc[t] # 7
      BY <1>2, <1>c
    <3>2. Does(t, consumer_receive[k]) /\ pc'[t] = k + 1
      BY <1>2, <3>1, ConsumerStep
    <3> QED BY <1>0, <1>c, <3>1, <3>2, ReceiveEffects
  <2>2. /\ local[t] \in FullSlots /\ local[t] \notin FreeSlots
        /\ item_buffer[local[t]] \in sent
        /\ item_buffer' = [item_buffer EXCEPT ![local[t]] = NULL]
        /\ FullSlots' = FullSlots \ {local[t]} /\ FreeSlots' = FreeSlots \cup {local[t]}
        /\ item' = [item EXCEPT ![t] = item_buffer[local[t]]]
        /\ sent' = sent /\ received' = received \cup {item_buffer[local[t]]}
    BY <1>2, <1>c, <2>1, TakeRight
  <2>3. /\ item_buffer' \in [0..(BUFFER_SIZE - 1) -> Item \cup {NULL}]
        /\ item' \in [Consumer -> Item \cup {NULL}]
        /\ sent' \subseteq Item /\ received' \subseteq Item
    BY <1>t, <2>2
  <2>4. \A u \in (Sender \cup Consumer) \ {t} :
          Place(u)' # 4 /\ pc'[u] = pc[u] /\ todo'[u] = todo[u]
    <3>1. \A u \in (Sender \cup Consumer) \ {t} :
            Place(u)' = Place(u) /\ pc'[u] = pc[u] /\ todo'[u] = todo[u]
      BY <1>0, PlacesElsewhere, BufferParts
    <3>2. \A u \in (Sender \cup Consumer) \ {t} : Place(u) \notin 3..5
      BY <1>0, <1>2, <1>c DEF KeyRight
    <3> QED BY <3>1, <3>2
  <2>5. \A u \in Producer \cup Consumer : pc'[u] \in 0..7
    BY <1>0, <2>1, <2>4 DEF ItemsRight, Sender
  <2>6. \A u \in Sender : Place(u)' # 4
    BY <1>0, <2>4
  <2>7. \A u \in Consumer : pc'[u] # 4
    <3>1. \A u \in Consumer : Place(u)' = pc'[u]
      BY Kinds DEF Place
    <3> QED BY <2>1, <2>4, <3>1
  <2>8. /\ \A i \in FullSlots' : item_buffer'[i] \in sent'
        /\ \A i, j \in FullSlots' : item_buffer'[i] = item_buffer'[j] => i = j
    <3>1. /\ \A i \in FullSlots : item_buffer[i] \in sent
          /\ \A i, j \in FullSlots : item_buffer[i] = item_buffer[j] => i = j
      BY <1>0 DEF ItemsRight
    <3>2. \A i \in FullSlots' : i \in FullSlots /\ item_buffer'[i] = item_buffer[i]
      BY <1>t, <2>2, Slots
    <3> QED BY <2>2, <3>1, <3>2
  <2>9. \A u \in Producer : u \in Sender /\ u # t /\ pc'[u] = pc[u] /\ todo'[u] = todo[u]
    BY <1>0, <2>4 DEF Sender
  <2>10. \A u \in Producer :
           /\ todo'[u] <= ITEMS_TO_PRODUCE /\ (pc'[u] # 0 => todo'[u] >= 1)
           /\ \A n \in Nat : <<u, n>> \in sent' =>
                n >= todo'[u] /\ (n = todo'[u] => pc'[u] \in 5..7)
    BY <1>0, <2>2, <2>9 DEF ItemsRight
  <2>11. problem' = "producerconsumer" => \A n \in Nat : <<main, n>> \in sent' => n < pc'[main]
    BY <1>0, <1>1, <2>2 DEF ItemsRight
  <2>12. ItemsRight'
    BY <2>5, <2>6, <2>7, <2>8, <2>10, <2>11 DEF ItemsRight
  <2> QED BY <2>3, <2>12
<1> QED BY <1>a, <1>b, <1>c

(* The other threads.                                                      *)
LEMMA BufferKept ==
  ASSUME TypeOK, DriverRight, BufferRight, NEW t \in Thread \ (Sender \cup Consumer), Step(t)
  PROVE  BufferRight' /\ buffers' = buffers
<1>1. buffers' = buffers /\ \A s \in BufferSems : sem'[s] = sem[s]
  BY NotBufferThread
<1>2. /\ sem'[Sem("empty")] = sem[Sem("empty")] /\ sem'[Sem("full")] = sem[Sem("full")]
      /\ sem'[Sem("buffer_key")] = sem[Sem("buffer_key")]
  BY <1>1 DEF BufferSems
<1>3. /\ main \in Thread \ {t} /\ Sender \subseteq Thread \ {t} /\ Consumer \subseteq Thread \ {t}
      /\ t \notin Producer
  BY BufferParts DEF Sender, Thread
<1>4. /\ \A u \in Thread \ {t} : Place(u)' = Place(u) /\ pc'[u] = pc[u]
      /\ problem' = problem
  BY <1>3, PlacesElsewhere, Elsewhere
<1>5. HasFree' = HasFree /\ HasFull' = HasFull
  BY <1>3, <1>4 DEF HasFree, HasFull
<1>6. FreeSlots' = FreeSlots /\ FullSlots' = FullSlots
  BY <1>1, SlotsSame DEF buffers
<1>7. CountsRight'
  BY <1>2, <1>5, <1>6 DEF BufferRight, CountsRight
<1>8. KeyRight'
  <2>1. \A u \in Sender \cup Consumer : Place(u)' = Place(u)
    BY <1>3, <1>4
  <2> QED BY <1>2, <2>1 DEF BufferRight, KeyRight
<1>9. ItemsRight'
  <2>1. pc'[main] = pc[main] /\ pc[main] \in Nat
    BY <1>3, <1>4 DEF TypeOK
  <2> QED BY <1>1, <1>3, <1>4, <2>1, ItemsKept DEF buffers
<1> QED BY <1>1, <1>7, <1>8, <1>9 DEF BufferRight

-----------------------------------------------------------------------------
(* The drivers.                                                            *)

(* Every thread but main is forked by a driver.                            *)
LEMMA ForkedSets ==
  /\ Thread \ {main} = UNION {Forked(p) : p \in Problem}
  /\ Forked("producerconsumer") = Producer \cup Consumer
  /\ \A t \in Producer : Finished(t) = Sem("producer_finished")
  /\ \A t \in Thread \ Producer : Finished(t) = Sem("finished")
  /\ \A t \in Consumer : t \notin Producer
  /\ \A p \in Problem \ {"producerconsumer"} : \A t \in Forked(p) : t \notin Producer
<1>1. /\ Forked("producerconsumer") = Producer \cup Consumer /\ Forked("dining") = Philosopher
      /\ Forked("twolocks") = {bill, ben} /\ Forked("maths") = Adder
  BY DEF Forked
<1>2. \A p \in Problem : Forked(p) \in {Producer \cup Consumer, Philosopher, {bill, ben}, Adder}
  BY <1>1 DEF Problem
<1>3. Thread \ {main} = Producer \cup Consumer \cup Philosopher \cup {bill, ben} \cup Adder
  BY Kinds DEF Thread
<1>4. Thread \ {main} = UNION {Forked(p) : p \in Problem}
  <2>1. \A t \in Thread \ {main} : \E p \in Problem : t \in Forked(p)
    BY <1>1, <1>3 DEF Problem
  <2>2. \A p \in Problem : Forked(p) \subseteq Thread \ {main}
    BY <1>2, <1>3
  <2> QED BY <2>1, <2>2
<1>5. /\ \A t \in Consumer : t \notin Producer
      /\ \A p \in Problem \ {"producerconsumer"} : \A t \in Forked(p) : t \notin Producer
  BY <1>1, Classes DEF Problem, Sender
<1> QED BY <1>1, <1>4, <1>5 DEF Finished

(* Nothing runs when no problem does.                                      *)
LEMMA Runs ==
  ASSUME TypeOK, DriverRight, NEW t \in Thread, Step(t)
  PROVE  problem \in Problem /\ (t # main => t \in Forked(problem)) /\ problem # "none"
<1>1. pc[t] # 0
  BY DEF Step
<1>2. t # main => \E p \in Problem : t \in Forked(p)
  BY ForkedSets
<1>3. \A p \in Problem \ {problem} : t \notin Forked(p)
  BY <1>1 DEF DriverRight
<1>4. t = main => problem # "none"
  BY <1>1 DEF DriverRight
<1> QED BY <1>2, <1>3, <1>4 DEF TypeOK, Problem

(* A thread says that it has finished at its end, and only there.          *)
LEMMA DoneStep ==
  ASSUME TypeOK, DriverRight, NEW t \in Thread \ {main}, Step(t)
  PROVE  \/ sem' = [sem EXCEPT ![Finished(t)] = @ + 1] /\ pc'[t] = 0
         \/ (\A s \in DoneSems : sem'[s] = sem[s]) /\ pc'[t] # 0
<1>0. sem \in [Semaphore -> Nat] /\ DoneSems \subseteq Semaphore /\ pc \in [Thread -> Nat]
  BY Sems DEF TypeOK
<1>1. CASE pc[t] \in 1..Len(Program(t))
  <2>1. PICK w : w = Program(t)[pc[t]]
    OBVIOUS
  <2>2. w \in SendInstr \cup ReceiveInstr \cup AddInstr \cup EatInstr \cup LockInstr
    BY <1>1, <2>1, Instructions, Classes DEF Sender
  <2>3. /\ w[1] \in {"P", "V", "free", "used", "fill", "take", "read", "add", "count",
                     "hungry", "thinking", "look", "let", "eat"}
        /\ w[1] \in {"P", "V"} => w[2] \in BufferSems \cup DiningSems \cup Locks \cup {Sem("count_mutex")}
        /\ w[1] = "let" => \E n \in Seat : w[2] = n
    BY <2>2 DEF SendInstr, ReceiveInstr, AddInstr, EatInstr, LockInstr, Down, Up, Do,
                BufferSems, DiningSems
  <2>4. Does(t, w)
    BY <1>1, <2>1, Execute, Lengths
  <2>5. pc'[t] # 0
    BY <1>0, <2>4 DEF Does, Advance
  <2>6. \A s \in DoneSems : sem'[s] = sem[s]
    <3>1. CASE w[1] \in {"P", "V"}
      BY <1>0, <2>3, <2>4, <3>1, Sems DEF Does, data
    <3>2. CASE w[1] \in {"free", "used", "read", "look"}
      BY <2>4, <3>2 DEF Does, Saw
    <3>3. CASE w[1] \in {"fill", "take", "add", "count", "hungry", "thinking", "eat"}
      BY <2>4, <3>3 DEF Does, Fill, Take, Add, Count
    <3>4. CASE w[1] = "let"
      <4>1. Let(t) /\ Operand(t) \in Seat
        BY <2>1, <2>3, <2>4, <3>4 DEF Does, Operand
      <4>2. \A s \in DoneSems : Queue(Operand(t)) # s
        BY <4>1, Sems
      <4> QED BY <1>0, <4>1, <4>2 DEF Let
    <3> QED BY <2>3, <3>1, <3>2, <3>3, <3>4
  <2> QED BY <2>5, <2>6
<1>2. CASE pc[t] \notin 1..Len(Program(t))
  BY <1>2, AtEnd, Lengths, End
<1> QED BY <1>1, <1>2

(* Main waits, sends or returns.                                           *)
LEMMA MainStep ==
  ASSUME TypeOK, DriverRight, Step(main)
  PROVE  \/ /\ problem' = problem /\ pc[main] \in 1..Len(Program(main))
            /\ pc'[main] = pc[main] + 1 /\ todo' = todo
            /\ \/ \E s \in DoneSems :
                    /\ sem[s] > 0 /\ sem' = [sem EXCEPT ![s] = @ - 1]
                    /\ Downs(s)' = Downs(s) + 1
                    /\ \A r \in DoneSems \ {s} : Downs(r)' = Downs(r)
               \/ \A s \in DoneSems : sem'[s] = sem[s] /\ Downs(s)' = Downs(s)
         \/ /\ problem' = "none" /\ MainReturns /\ sem' = sem /\ pc'[main] = 0
            /\ todo'[main] = 0
<1>0. /\ main \in Thread /\ pc[main] \in Nat /\ pc[main] >= 1 /\ main \notin Consumer
      /\ pc \in [Thread -> Nat] /\ sem \in [Semaphore -> Nat] /\ DoneSems \subseteq Semaphore
      /\ problem \in Problem /\ problem # "none" /\ Len(Program(main)) \in Nat
      /\ NUM_PRODUCERS \in Nat /\ NUM_PRODUCERS > 0
      /\ NUM_CONSUMERS \in Nat /\ Sends \in Nat /\ Sends > 0
  <2>1. main \in Thread /\ main \notin Consumer
    BY Kinds DEF Thread
  <2>2. problem \in Problem /\ Len(Program(main)) \in Nat /\ problem # "none"
    BY <2>1, Lengths, Runs
  <2>3. pc[main] \in Nat /\ pc[main] >= 1
    BY <2>1 DEF TypeOK, Step
  <2>4. /\ NUM_PRODUCERS \in Nat /\ NUM_PRODUCERS > 0
        /\ NUM_CONSUMERS \in Nat /\ Sends \in Nat /\ Sends > 0
    BY SynchProblemsAssumption DEF Sends
  <2>5. pc \in [Thread -> Nat] /\ sem \in [Semaphore -> Nat] /\ DoneSems \subseteq Semaphore
    BY Sems DEF TypeOK
  <2> QED BY <2>1, <2>2, <2>3, <2>4, <2>5
<1>1. CASE pc[main] \notin 1..Len(Program(main))
  <2>1. Loop(main) \/ Finish(main) \/ MainReturns
    BY <1>0, <1>1, AtEnd
  <2>2. todo[main] <= 1 /\ todo[main] \in Nat
    BY <1>0 DEF DriverRight, TypeOK
  <2>3. More(main) <=> todo[main] > 1
    BY <1>0, AdderSets DEF More
  <2>4. MainReturns
    BY <2>1, <2>2, <2>3 DEF Loop, Finish
  <2>5. sem' = sem /\ problem' = "none" /\ pc'[main] = 0 /\ todo'[main] = 0
    BY <1>0, <2>4, End, <2>1, <2>2, <2>3 DEF Loop, Finish
  <2> QED BY <2>4, <2>5
<1>2. CASE pc[main] \in 1..Len(Program(main))
  <2>1. PICK w : w = Program(main)[pc[main]]
    OBVIOUS
  <2>2. Does(main, w)
    BY <1>0, <1>2, <2>1, Execute
  <2>3. pc'[main] = pc[main] + 1 /\ problem' = problem /\ todo' = todo
    BY <1>0, <2>2 DEF Does, Advance
  <2>4. PICK n, m : n = pc[main] /\ m = NUM_PRODUCERS + Sends
    OBVIOUS
  <2>5. n \in Nat /\ m \in Nat /\ n >= 1 /\ pc'[main] - 1 = n /\ pc'[main] = n + 1
    BY <1>0, <2>3, <2>4
  <2>6. Sem("finished") # Sem("producer_finished") /\ DoneSems = {Sem("finished"), Sem("producer_finished")}
    BY Sems DEF DoneSems
  <2>7. ASSUME NEW s \in DoneSems, w = <<"P", s>>
        PROVE  sem[s] > 0 /\ sem' = [sem EXCEPT ![s] = @ - 1]
    BY <2>2, <2>7 DEF Does
  <2>8. ASSUME problem # "producerconsumer"
        PROVE  \E s \in DoneSems :
                 /\ sem[s] > 0 /\ sem' = [sem EXCEPT ![s] = @ - 1]
                 /\ Downs(s)' = Downs(s) + 1
                 /\ \A r \in DoneSems \ {s} : Downs(r)' = Downs(r)
    <3>1. w = <<"P", Sem("finished")>>
      <4>1. w = Down("finished")
        BY <1>0, <1>2, <2>1, <2>8, MainWaitsProgram DEF Program
      <4> QED BY <4>1 DEF Down
    <3>2. /\ Downs(Sem("finished")) = n - 1 /\ Downs(Sem("finished"))' = n
          /\ Downs(Sem("producer_finished")) = 0 /\ Downs(Sem("producer_finished"))' = 0
      BY <2>3, <2>4, <2>5, <2>6, <2>8 DEF Downs
    <3>3. n - 1 + 1 = n
      BY <2>5
    <3> QED BY <2>6, <2>7, <3>1, <3>2, <3>3
  <2>9. ASSUME problem = "producerconsumer"
        PROVE  /\ Downs(Sem("finished")) = IF n - 1 < m THEN 0 ELSE n - 1 - NUM_PRODUCERS - Sends
               /\ Downs(Sem("finished"))' = IF n < m THEN 0 ELSE n - NUM_PRODUCERS - Sends
               /\ Downs(Sem("producer_finished")) = IF n - 1 < NUM_PRODUCERS THEN n - 1 ELSE NUM_PRODUCERS
               /\ Downs(Sem("producer_finished"))' = IF n < NUM_PRODUCERS THEN n ELSE NUM_PRODUCERS
               /\ Len(Program(main)) = NUM_PRODUCERS + Sends + NUM_CONSUMERS
    <3>1. /\ Downs(Sem("finished")) = IF n - 1 < m THEN 0 ELSE n - 1 - NUM_PRODUCERS - Sends
          /\ Downs(Sem("producer_finished")) = IF n - 1 < NUM_PRODUCERS THEN n - 1 ELSE NUM_PRODUCERS
      BY <2>4, <2>6, <2>9 DEF Downs
    <3>2. /\ Downs(Sem("finished"))' = IF n < m THEN 0 ELSE n - NUM_PRODUCERS - Sends
          /\ Downs(Sem("producer_finished"))' = IF n < NUM_PRODUCERS THEN n ELSE NUM_PRODUCERS
      BY <2>3, <2>4, <2>5, <2>6, <2>9 DEF Downs
    <3>3. Len(Program(main)) = NUM_PRODUCERS + Sends + NUM_CONSUMERS
      BY <2>9, MainBufferProgram DEF Program
    <3> QED BY <3>1, <3>2, <3>3
  <2>10. ASSUME problem = "producerconsumer", n \in 1..NUM_PRODUCERS
         PROVE  \E s \in DoneSems :
                  /\ sem[s] > 0 /\ sem' = [sem EXCEPT ![s] = @ - 1]
                  /\ Downs(s)' = Downs(s) + 1
                  /\ \A r \in DoneSems \ {s} : Downs(r)' = Downs(r)
    <3>1. w = <<"P", Sem("producer_finished")>>
      BY <2>1, <2>4, <2>10, MainBufferProgram DEF Program, Down
    <3>2. /\ Downs(Sem("producer_finished"))' = Downs(Sem("producer_finished")) + 1
          /\ Downs(Sem("finished"))' = Downs(Sem("finished"))
      BY <1>0, <2>4, <2>5, <2>9, <2>10
    <3> QED BY <2>6, <2>7, <3>1, <3>2
  <2>11. ASSUME problem = "producerconsumer", n - NUM_PRODUCERS - Sends \in 1..NUM_CONSUMERS
         PROVE  \E s \in DoneSems :
                  /\ sem[s] > 0 /\ sem' = [sem EXCEPT ![s] = @ - 1]
                  /\ Downs(s)' = Downs(s) + 1
                  /\ \A r \in DoneSems \ {s} : Downs(r)' = Downs(r)
    <3>1. w = <<"P", Sem("finished")>>
      <4>1. Program(main)[NUM_PRODUCERS + Sends + (n - NUM_PRODUCERS - Sends)] = Down("finished")
        BY <2>11, MainBufferProgram DEF Program
      <4>2. NUM_PRODUCERS + Sends + (n - NUM_PRODUCERS - Sends) = n
        BY <1>0, <2>5
      <4> QED BY <2>1, <2>4, <4>1, <4>2 DEF Down
    <3>2. /\ Downs(Sem("finished"))' = Downs(Sem("finished")) + 1
          /\ Downs(Sem("producer_finished"))' = Downs(Sem("producer_finished"))
      BY <1>0, <2>4, <2>5, <2>9, <2>11
    <3> QED BY <2>6, <2>7, <3>1, <3>2
  <2>12. ASSUME problem = "producerconsumer", n - NUM_PRODUCERS \in 1..Sends
         PROVE  \A s \in DoneSems : sem'[s] = sem[s] /\ Downs(s)' = Downs(s)
    <3>1. Sending
      BY <2>4, <2>12 DEF Sending
    <3>2. Place(main) \in 1..6 /\ Does(main, producer_send[Place(main)])
      BY <3>1, MainSends
    <3>3. PICK k \in 1..6 : Does(main, producer_send[k])
      BY <3>2
    <3>4. \A s \in DoneSems : sem'[s] = sem[s]
      <4>1. \/ sem' = sem
            \/ \E s \in BufferSems : sem' = [sem EXCEPT ![s] = @ - 1] \/ sem' = [sem EXCEPT ![s] = @ + 1]
        BY <1>0, <3>3, SendEffects DEF BufferSems
      <4> QED BY <1>0, <4>1, Sems
    <3>5. \A s \in DoneSems : Downs(s)' = Downs(s)
      BY <1>0, <2>4, <2>5, <2>6, <2>9, <2>12
    <3> QED BY <3>4, <3>5
  <2>13. problem = "producerconsumer" => \/ n \in 1..NUM_PRODUCERS
                                         \/ n - NUM_PRODUCERS \in 1..Sends
                                         \/ n - NUM_PRODUCERS - Sends \in 1..NUM_CONSUMERS
    BY <1>0, <1>2, <2>4, <2>5, <2>9
  <2>14. \/ \E s \in DoneSems :
              /\ sem[s] > 0 /\ sem' = [sem EXCEPT ![s] = @ - 1]
              /\ Downs(s)' = Downs(s) + 1
              /\ \A r \in DoneSems \ {s} : Downs(r)' = Downs(r)
         \/ \A s \in DoneSems : sem'[s] = sem[s] /\ Downs(s)' = Downs(s)
    BY <2>8, <2>10, <2>11, <2>12, <2>13
  <2> QED BY <1>2, <2>3, <2>14
<1> QED BY <1>1, <1>2

(* Main has waited for every thread when it gets to its end.               *)
LEMMA AllGone ==
  ASSUME TypeOK, DriverRight, problem # "none", Waited
  PROVE  \A t \in Thread \ {main} : pc[t] = 0
<1>0. /\ problem \in Problem /\ pc[main] = Len(Program(main)) + 1 /\ Len(Program(main)) \in Nat
      /\ NUM_PRODUCERS \in Nat /\ NUM_CONSUMERS \in Nat /\ Sends \in Nat
      /\ DoneSems = {Sem("finished"), Sem("producer_finished")}
      /\ Sem("finished") # Sem("producer_finished")
  <2>1. problem \in Problem
    BY DEF TypeOK
  <2>2. NUM_PRODUCERS \in Nat /\ NUM_CONSUMERS \in Nat /\ Sends \in Nat
    BY SynchProblemsAssumption DEF Sends
  <2>3. Program(main) = MainProgram[problem]
    BY DEF Program
  <2>4. Len(MainProgram[problem]) \in Nat
    <3>1. CASE problem = "producerconsumer"
      BY <2>2, <3>1, MainBufferProgram
    <3>2. CASE problem # "producerconsumer"
      BY <2>1, <3>2, MainWaitsProgram, ForkedFinite
    <3> QED BY <3>1, <3>2
  <2>5. pc[main] = Len(Program(main)) + 1
    BY <2>3 DEF Waited
  <2>6. DoneSems = {Sem("finished"), Sem("producer_finished")} /\ Sem("finished") # Sem("producer_finished")
    BY Sems DEF DoneSems
  <2> QED BY <2>1, <2>2, <2>3, <2>4, <2>5, <2>6
<1>1. \A s \in DoneSems : sem[s] \in Nat /\ sem[s] + Downs(s) = Cardinality(Gones(s))
  BY <1>0, Sems DEF DriverRight, TypeOK
<1>2. ASSUME NEW s \in DoneSems, NEW S, IsFiniteSet(S), Gones(s) \subseteq S,
             Downs(s) = Cardinality(S)
      PROVE  Gones(s) = S
  <2>1. /\ IsFiniteSet(Gones(s)) /\ Cardinality(Gones(s)) <= Cardinality(S)
        /\ Cardinality(S) \in Nat /\ Cardinality(Gones(s)) \in Nat
    BY <1>2, FS_Subset, FS_CardinalityType
  <2>2. Cardinality(Gones(s)) = Cardinality(S)
    BY <1>1, <1>2, <2>1
  <2> QED BY <1>2, <2>2, FS_Subset
<1>3. \A t \in Forked(problem) : pc[t] = 0
  <2>1. CASE problem = "producerconsumer"
    <3>1. Len(Program(main)) = NUM_PRODUCERS + Sends + NUM_CONSUMERS
      BY <2>1, MainBufferProgram DEF Program
    <3>2. Downs(Sem("finished")) = NUM_CONSUMERS /\ Downs(Sem("producer_finished")) = NUM_PRODUCERS
      BY <1>0, <2>1, <3>1 DEF Downs
    <3>3. Gones(Sem("finished")) \subseteq Consumer
      BY <1>0, <2>1, ForkedSets DEF Gones
    <3>4. Gones(Sem("producer_finished")) \subseteq Producer
      <4>1. \A t \in Consumer : Finished(t) = Sem("finished")
        BY ForkedSets, ConsumerProgram
      <4> QED BY <1>0, <2>1, <4>1, ForkedSets DEF Gones
    <3>5. Gones(Sem("finished")) = Consumer
      BY <1>0, <1>2, <3>2, <3>3, ThreadSets
    <3>6. Gones(Sem("producer_finished")) = Producer
      BY <1>0, <1>2, <3>2, <3>4, ThreadSets
    <3> QED BY <2>1, <3>5, <3>6, ForkedSets DEF Gones
  <2>2. CASE problem # "producerconsumer"
    <3>1. Len(Program(main)) = Cardinality(Forked(problem)) /\ IsFiniteSet(Forked(problem))
      BY <1>0, <2>2, MainWaitsProgram, ForkedFinite DEF Program
    <3>2. Downs(Sem("finished")) = Cardinality(Forked(problem))
      BY <1>0, <2>2, <3>1 DEF Downs
    <3>3. Gones(Sem("finished")) = Forked(problem)
      <4>1. Gones(Sem("finished")) \subseteq Forked(problem)
        BY DEF Gones
      <4> QED BY <1>0, <1>2, <3>1, <3>2, <4>1
    <3> QED BY <3>3 DEF Gones
  <2> QED BY <2>1, <2>2
<1> QED BY <1>3, ForkedSets DEF DriverRight

(* Every step keeps the drivers' counts of who is gone.                    *)
LEMMA DriverKept ==
  ASSUME TypeOK, DriverRight, NEW t \in Thread, Step(t)
  PROVE  DriverRight'
<1>0. /\ problem \in Problem /\ problem # "none" /\ (t # main => t \in Forked(problem))
      /\ pc[t] # 0 /\ main \in Thread /\ pc \in [Thread -> Nat] /\ todo \in [Thread -> Nat]
      /\ sem \in [Semaphore -> Nat] /\ DoneSems \subseteq Semaphore /\ todo[main] <= 1
      /\ Len(Program(t)) \in Nat
  <2>1. DoneSems \subseteq Semaphore
    BY Sems
  <2> QED BY <2>1, Runs, Lengths DEF TypeOK, Step, DriverRight, Thread
<1>1. \A u \in Thread \ {t} : pc'[u] = pc[u] /\ todo'[u] = todo[u]
  BY PlacesElsewhere
<1>2. \A p \in Problem \ {problem} : \A u \in Forked(p) : u \in Thread /\ u # main /\ pc[u] = 0
  BY ForkedFinite DEF DriverRight
<1>3. /\ pc[main] \in 1..(Len(Program(main)) + 1)
      /\ \A s \in DoneSems : sem[s] + Downs(s) = Cardinality(Gones(s))
  BY <1>0 DEF DriverRight
<1>4. /\ Forked(problem) \subseteq Thread \ {main} /\ IsFiniteSet(Forked(problem))
      /\ \A s : IsFiniteSet(Gones(s))
  <2>1. Forked(problem) \subseteq Thread \ {main} /\ IsFiniteSet(Forked(problem))
    BY <1>0, ForkedFinite
  <2>2. \A s : Gones(s) \subseteq Forked(problem)
    BY DEF Gones
  <2> QED BY <2>1, <2>2, FS_Subset
<1>5. \A p \in Problem \ {problem} : \A u \in Forked(p) : pc'[u] = 0
  <2>1. \A p \in Problem \ {problem} : \A u \in Forked(p) : u # t
    BY <1>0, <1>2
  <2> QED BY <1>1, <1>2, <2>1
<1>6. \A s \in DoneSems : Downs(s) \in Int
  <2>1. NUM_PRODUCERS \in Nat /\ NUM_CONSUMERS \in Nat /\ Sends \in Nat /\ pc[main] \in Nat
    BY <1>0, SynchProblemsAssumption DEF Sends
  <2> QED BY <2>1 DEF Downs
<1>a. CASE t # main
  <2>1. problem' = problem /\ pc'[main] = pc[main] /\ todo'[main] = todo[main]
    BY <1>0, <1>1, <1>a, Elsewhere
  <2>2. Program(main)' = Program(main)
    BY <2>1 DEF Program
  <2>3. \A s \in DoneSems : Downs(s)' = Downs(s)
    BY <2>1 DEF Downs
  <2>4. ASSUME NEW s \in DoneSems
        PROVE  sem'[s] + Downs(s)' = Cardinality(Gones(s)')
    <3>1. CASE sem' = [sem EXCEPT ![Finished(t)] = @ + 1] /\ pc'[t] = 0
      <4>1. CASE s = Finished(t)
        <5>1. sem'[s] = sem[s] + 1 /\ sem[s] \in Nat
          BY <1>0, <2>4, <3>1, <4>1
        <5>2. t \notin Gones(s) /\ Gones(s)' = Gones(s) \cup {t}
          BY <1>0, <1>1, <1>4, <1>a, <2>1, <3>1, <4>1 DEF Gones
        <5>3. Cardinality(Gones(s)') = Cardinality(Gones(s)) + 1
          BY <1>4, <5>2, FS_AddElement
        <5> QED BY <1>3, <1>6, <2>3, <5>1, <5>3
      <4>2. CASE s # Finished(t)
        <5>1. sem'[s] = sem[s]
          BY <1>0, <2>4, <3>1, <4>2
        <5>2. Gones(s)' = Gones(s)
          BY <1>1, <1>4, <2>1, <4>2 DEF Gones
        <5> QED BY <1>3, <2>3, <5>1, <5>2
      <4> QED BY <4>1, <4>2
    <3>2. CASE (\A r \in DoneSems : sem'[r] = sem[r]) /\ pc'[t] # 0
      <4>1. Gones(s)' = Gones(s)
        BY <1>0, <1>1, <1>4, <2>1, <3>2 DEF Gones
      <4> QED BY <1>3, <2>3, <3>2, <4>1
    <3> QED BY <1>a, <3>1, <3>2, DoneStep
  <2>5. problem' # "none" => /\ pc'[main] \in 1..(Len(Program(main)') + 1)
                             /\ \A s \in DoneSems : sem'[s] + Downs(s)' = Cardinality(Gones(s)')
    BY <1>3, <2>1, <2>2, <2>4
  <2> QED BY <1>0, <1>5, <2>1, <2>5 DEF DriverRight
<1>b. CASE t = main
  <2>1. CASE problem' = "none" /\ MainReturns /\ sem' = sem /\ pc'[main] = 0 /\ todo'[main] = 0
    <3>1. \A u \in Thread \ {main} : pc[u] = 0
      BY <1>0, <2>1, AllGone DEF MainReturns
    <3>2. \A p \in Problem : \A u \in Forked(p) : pc'[u] = 0
      BY <1>1, <1>b, <3>1, ForkedSets
    <3> QED BY <2>1, <3>2 DEF DriverRight
  <2>2. CASE /\ problem' = problem /\ pc[main] \in 1..Len(Program(main))
             /\ pc'[main] = pc[main] + 1 /\ todo' = todo
             /\ \/ \E s \in DoneSems :
                     /\ sem[s] > 0 /\ sem' = [sem EXCEPT ![s] = @ - 1]
                     /\ Downs(s)' = Downs(s) + 1
                     /\ \A r \in DoneSems \ {s} : Downs(r)' = Downs(r)
                \/ \A s \in DoneSems : sem'[s] = sem[s] /\ Downs(s)' = Downs(s)
    <3>1. \A s \in DoneSems : Gones(s)' = Gones(s)
      BY <1>1, <1>4, <1>b, <2>2 DEF Gones
    <3>2. ASSUME NEW s \in DoneSems
          PROVE  sem'[s] + Downs(s)' = sem[s] + Downs(s)
      BY <1>0, <1>6, <2>2, <3>2
    <3>3. Program(main)' = Program(main)
      BY <2>2 DEF Program
    <3>4. pc'[main] \in 1..(Len(Program(main)') + 1)
      BY <1>0, <1>b, <2>2, <3>3
    <3>5. \A s \in DoneSems : sem'[s] + Downs(s)' = Cardinality(Gones(s)')
      BY <1>3, <3>1, <3>2
    <3> QED BY <1>0, <1>5, <2>2, <3>4, <3>5 DEF DriverRight
  <2> QED BY <1>b, <2>1, <2>2, MainStep
<1> QED BY <1>a, <1>b

-----------------------------------------------------------------------------
(* Every step keeps the invariant.                                         *)

(* Part by part, the whole invariant.                                      *)
LEMMA StepKeeps ==
  ASSUME IInv, NEW t \in Thread, Step(t)
  PROVE  IInv'
<1>0. TypeOK /\ DiningRight /\ AddersRight /\ BufferRight /\ DriverRight
  BY DEF IInv
<1>1. DriverRight'
  BY <1>0, DriverKept
<1>2. problem' = "maths" => problem = "maths"
  BY <1>0, Elsewhere
<1>3. DiningRight'
  <2>1. CASE t \in Philosopher
    <3>1. PICK n \in Seat : t = Ph(n)
      BY <2>1, Philosophers
    <3>2. Step(Ph(n))
      BY <3>1
    <3> QED BY <1>0, <3>2, PhilosopherDines
  <2>2. CASE t \notin Philosopher
    BY <1>0, <2>2, DiningKept
  <2> QED BY <2>1, <2>2
<1>4. AddersRight'
  <2>1. CASE t \in Adder
    BY <1>0, <2>1, AdderAdds
  <2>2. CASE t \notin Adder
    BY <1>0, <1>2, <2>2, AddersKept
  <2> QED BY <2>1, <2>2
<1>5. /\ BufferRight'
      /\ item_buffer' \in [0..(BUFFER_SIZE - 1) -> Item \cup {NULL}]
      /\ item' \in [Consumer -> Item \cup {NULL}]
      /\ sent' \subseteq Item /\ received' \subseteq Item
  <2>1. CASE t \in Sender
    BY <1>0, <2>1, SenderCounts, SenderItems DEF BufferRight
  <2>2. CASE t \in Consumer
    BY <1>0, <2>2, ConsumerCounts, ConsumerItems DEF BufferRight
  <2>3. CASE t \notin Sender \cup Consumer
    <3>1. BufferRight' /\ buffers' = buffers
      BY <1>0, <2>3, BufferKept
    <3> QED BY <1>0, <3>1 DEF TypeOK, buffers
  <2> QED BY <2>1, <2>2, <2>3
<1>6. TypeOK'
  <2>1. /\ problem' \in Problem \cup {"none"}
        /\ sem' \in [Semaphore -> Nat] /\ pc' \in [Thread -> Nat] /\ todo' \in [Thread -> Nat]
        /\ local' \in [Thread -> Nat]
        /\ state' \in [Seat -> {"thinking", "hungry", "eating"}]
        /\ counter' \in Nat /\ adder_counters' \in [Adder -> Nat]
    BY <1>0, Types
  <2> QED BY <1>5, <2>1 DEF TypeOK
<1> QED BY <1>1, <1>3, <1>4, <1>5, <1>6 DEF IInv

(* Before any of a problem's threads has done a thing.                     *)
LEMMA ForkedApart ==
  ASSUME NEW p \in Problem, NEW q \in Problem \ {p}, NEW t \in Forked(p)
  PROVE  t \notin Forked(q)
<1>1. /\ Forked("producerconsumer") = Producer \cup Consumer /\ Forked("dining") = Philosopher
      /\ Forked("twolocks") = {bill, ben} /\ Forked("maths") = Adder
  BY DEF Forked
<1>2. /\ \A u \in Philosopher : u \notin Producer \cup Consumer \cup Adder \cup {bill, ben}
      /\ \A u \in Adder : u \notin Producer \cup Consumer \cup {bill, ben}
      /\ \A u \in Producer \cup Consumer : u \notin {bill, ben}
  BY Classes DEF Sender
<1> QED BY <1>1, <1>2 DEF Problem

(* A problem begins with its own threads only.                             *)
LEMMA Beginning ==
  ASSUME NEW p \in Problem, RunTest(p), IInv
  PROVE  /\ \A t \in Thread : pc[t] = 0
         /\ pc'[main] = 1 /\ problem' = p /\ pc' \in [Thread -> {0, 1}]
         /\ \A t \in Thread \ {main} : pc'[t] = 1 <=> t \in Forked(p)
<1>1. problem = "none"
  BY DEF RunTest
<1>2. pc[main] = 0 /\ \A q \in Problem : \A t \in Forked(q) : pc[t] = 0
  BY <1>1 DEF IInv, DriverRight, Problem
<1>3. \A t \in Thread : pc[t] = 0
  BY <1>2, ForkedSets
<1>4. /\ problem' = p
      /\ pc' = [t \in Thread |-> IF t \in Forked(p) \cup {main} THEN 1 ELSE 0]
  BY DEF RunTest
<1> QED BY <1>3, <1>4 DEF Thread

(* What each semaphore begins with.                                        *)
LEMMA InitialUnits ==
  /\ \A s \in Semaphore : Initially(s) \in Nat
  /\ Initially(Sem("empty")) = BUFFER_SIZE /\ Initially(Sem("full")) = 0
  /\ Initially(Sem("buffer_key")) = 1 /\ Initially(Sem("key")) = 1
  /\ Initially(Sem("count_mutex")) = 1
  /\ \A n \in Seat : Initially(Queue(n)) = 0
  /\ \A s \in DoneSems : Initially(s) = 0
<1>1. BUFFER_SIZE \in Nat
  BY SynchProblemsAssumption
<1> QED BY <1>1 DEF Initially, Sem, Queue, DoneSems

(* An empty buffer has every slot free.                                    *)
LEMMA AllSlots == Cardinality(0..(BUFFER_SIZE - 1)) = BUFFER_SIZE /\ Cardinality({}) = 0
<1>1. BUFFER_SIZE \in Nat \ {0}
  BY SynchProblemsAssumption
<1>2. Cardinality(0..(BUFFER_SIZE - 1)) = (BUFFER_SIZE - 1) - 0 + 1
  BY <1>1, FS_Interval
<1> QED BY <1>1, <1>2, FS_EmptySet

(* Setting a problem up makes every part right.                            *)
LEMMA RunTestKeeps ==
  ASSUME IInv, NEW p \in Problem, RunTest(p)
  PROVE  IInv'
<1>0. /\ TypeOK /\ DiningRight /\ AddersRight
      /\ \A t \in Thread : pc[t] = 0
      /\ pc'[main] = 1 /\ problem' = p /\ pc' \in [Thread -> {0, 1}]
      /\ \A t \in Thread \ {main} : pc'[t] = 1 <=> t \in Forked(p)
      /\ problem = "none" /\ main \in Thread
  BY Beginning DEF IInv, RunTest, Thread
<1>1. /\ sem' = [s \in Semaphore |-> Initially(s)]
      /\ todo' = [t \in Thread |-> IF t \in Forked(p) \cup {main} THEN Times(t) ELSE 0]
      /\ item_buffer' = [i \in DOMAIN item_buffer |-> NULL]
      /\ sent' = {} /\ received' = {} /\ item' = item /\ local' = local /\ state' = state
      /\ counter' = counter /\ adder_counters' = adder_counters
  BY DEF RunTest, counters
<1>2. \A t \in Thread : Times(t) \in Nat /\ Times(main) = 1
  <2>1. main \notin Producer /\ main \notin Philosopher /\ main \notin {bill, ben}
    BY Kinds
  <2> QED BY <2>1, SynchProblemsAssumption DEF Times
<1>3. TypeOK'
  <2>1. sem' \in [Semaphore -> Nat]
    BY <1>1, InitialUnits
  <2>2. todo' \in [Thread -> Nat]
    BY <1>1, <1>2
  <2>3. pc' \in [Thread -> Nat]
    BY <1>0
  <2>4. item_buffer' \in [0..(BUFFER_SIZE - 1) -> Item \cup {NULL}]
    BY <1>0, <1>1 DEF TypeOK
  <2> QED BY <1>0, <1>1, <2>1, <2>2, <2>3, <2>4 DEF TypeOK
<1>4. DiningRight'
  <2>1. sem'[Sem("key")] = 1 /\ \A n \in Seat : sem'[Queue(n)] = 0
    BY <1>1, InitialUnits, Sems DEF DiningSems
  <2>2. \A n \in Seat : Ph(n) \in Thread /\ pc[Ph(n)] = 0 /\ pc'[Ph(n)] \in {0, 1}
    BY <1>0, Philosophers
  <2>3. TableRight'
    BY <2>1, <2>2 DEF TableRight, AtTable
  <2>4. \A n \in Seat : state[n] = "thinking"
    BY <1>0, <2>2 DEF DiningRight, SeatRight, MustThink
  <2>5. ASSUME NEW n \in Seat PROVE SeatRight(n)'
    BY <1>1, <2>1, <2>2, <2>4 DEF SeatRight, MustThink
  <2> QED BY <2>3, <2>5 DEF DiningRight
<1>5. AddersRight'
  <2>1. sem'[Sem("count_mutex")] = 1
    BY <1>1, InitialUnits, Sems
  <2>2. \A t \in Adder : t \in Thread /\ t # main /\ pc[t] = 0 /\ pc'[t] \in {0, 1}
    BY <1>0, AdderSets
  <2>3. Increments' = Increments /\ Uncounted = {} /\ Uncounted' = {}
    BY <1>1, <2>2 DEF Increments, Uncounted
  <2>4. p = "maths" => \A t \in Adder : pc'[t] = 1
    BY <1>0, <2>2 DEF Forked
  <2> QED BY <1>0, <1>1, <2>1, <2>2, <2>3, <2>4 DEF AddersRight
<1>6. BufferRight'
  <2>1. /\ DOMAIN item_buffer' = 0..(BUFFER_SIZE - 1)
        /\ \A i \in DOMAIN item_buffer' : item_buffer'[i] = NULL
    BY <1>0, <1>1 DEF TypeOK
  <2>2. /\ FreeSlots' = 0..(BUFFER_SIZE - 1) /\ FullSlots' = {}
        /\ Cardinality(FreeSlots') = BUFFER_SIZE /\ Cardinality({}) = 0
    <3>1. FreeSlots' = 0..(BUFFER_SIZE - 1) /\ FullSlots' = {}
      BY <2>1 DEF FreeSlots, FullSlots
    <3> QED BY <3>1, AllSlots
  <2>3. Place(main)' = 1
    <3>1. ~(pc'[main] - NUM_PRODUCERS \in 1..Sends)
      BY <1>0, SynchProblemsAssumption
    <3> QED BY <3>1 DEF Place, Sending
  <2>4. \A t \in Sender \cup Consumer : t \in Thread /\ Place(t)' \in {0, 1}
    BY <1>0, <2>3, Classes DEF Place
  <2>5. HasFree' = {} /\ HasFull' = {}
    <3>1. \A t \in Consumer : pc'[t] \in {0, 1}
      BY <1>0, Classes
    <3> QED BY <2>4, <3>1 DEF HasFree, HasFull
  <2>6. /\ sem'[Sem("empty")] = BUFFER_SIZE /\ sem'[Sem("full")] = 0
        /\ sem'[Sem("buffer_key")] = 1
    BY <1>1, InitialUnits, Sems DEF BufferSems
  <2>7. CountsRight'
    BY <2>2, <2>5, <2>6, SynchProblemsAssumption DEF CountsRight
  <2>8. KeyRight'
    BY <2>4, <2>6 DEF KeyRight
  <2>9. ItemsRight'
    <3>1. \A t \in Producer \cup Consumer : t \in Thread \ {main} /\ pc'[t] \in {0, 1}
      BY <1>0, ProducerProgram, ConsumerProgram
    <3>2. \A t \in Producer : /\ todo'[t] \in {0, ITEMS_TO_PRODUCE}
                              /\ pc'[t] # 0 => todo'[t] = ITEMS_TO_PRODUCE
      <4>1. \A t \in Producer : Times(t) = ITEMS_TO_PRODUCE
        BY Classes DEF Times, Sender
      <4>2. \A t \in Producer : /\ t \in Thread /\ t # main
                                /\ pc'[t] # 0 <=> t \in Forked(p)
        BY <1>0, <3>1
      <4> QED BY <1>1, <4>1, <4>2
    <3>3. ITEMS_TO_PRODUCE \in Nat /\ ITEMS_TO_PRODUCE >= 1
      BY SynchProblemsAssumption
    <3>4. \A t \in Producer : todo'[t] <= ITEMS_TO_PRODUCE /\ (pc'[t] # 0 => todo'[t] >= 1)
      BY <3>2, <3>3
    <3>5. (\A t \in Sender : Place(t)' # 4) /\ \A t \in Consumer : pc'[t] # 4
      BY <2>4, <3>1
    <3> QED BY <1>1, <2>2, <3>1, <3>4, <3>5 DEF ItemsRight
  <2> QED BY <2>7, <2>8, <2>9 DEF BufferRight
<1>7. DriverRight'
  <2>1. todo'[main] = 1
    BY <1>0, <1>1, <1>2
  <2>2. \A q \in Problem \ {p} : \A t \in Forked(q) : pc'[t] = 0
    <3>1. \A q \in Problem \ {p} : \A t \in Forked(q) : t \in Thread \ {main} /\ t \notin Forked(p)
      BY ForkedFinite, ForkedApart
    <3> QED BY <1>0, <3>1
  <2>3. pc'[main] \in 1..(Len(Program(main)') + 1)
    <3>1. Len(MainProgram[p]) \in Nat
      <4>1. CASE p = "producerconsumer"
        BY <4>1, MainBufferProgram, SynchProblemsAssumption DEF Sends
      <4>2. CASE p # "producerconsumer"
        BY <4>2, MainWaitsProgram, ForkedFinite
      <4> QED BY <4>1, <4>2
    <3>2. Program(main)' = MainProgram[p]
      BY <1>0 DEF Program
    <3> QED BY <1>0, <3>1, <3>2
  <2>4. ASSUME NEW s \in DoneSems
        PROVE  sem'[s] + Downs(s)' = Cardinality(Gones(s)')
    <3>1. sem'[s] = 0
      BY <1>1, InitialUnits, Sems
    <3>2. Downs(s)' = 0
      <4>1. NUM_PRODUCERS \in Nat /\ NUM_PRODUCERS > 0 /\ Sends \in Nat /\ pc'[main] - 1 = 0
        BY <1>0, SynchProblemsAssumption DEF Sends
      <4> QED BY <4>1 DEF Downs
    <3>3. Gones(s)' = {}
      <4>1. \A t \in Forked(p) : t \in Thread \ {main} /\ pc'[t] = 1
        BY <1>0, ForkedFinite
      <4> QED BY <1>0, <4>1 DEF Gones
    <3> QED BY <3>1, <3>2, <3>3, FS_EmptySet
  <2>5. p # "none"
    BY DEF Problem
  <2> QED BY <1>0, <2>1, <2>2, <2>3, <2>4, <2>5 DEF DriverRight
<1> QED BY <1>3, <1>4, <1>5, <1>6, <1>7 DEF IInv

(* So does the boot.                                                       *)
LEMMA InitRight == Init => IInv
<1> SUFFICES ASSUME Init PROVE IInv
  OBVIOUS
<1>1. /\ problem = "none" /\ sem = [s \in Semaphore |-> 0] /\ pc = [t \in Thread |-> 0]
      /\ todo = [t \in Thread |-> 0] /\ item_buffer = [i \in 0..(BUFFER_SIZE - 1) |-> NULL]
      /\ item = [t \in Consumer |-> NULL] /\ local = [t \in Thread |-> 0]
      /\ state = [n \in Seat |-> "thinking"]
      /\ counter = 0 /\ adder_counters = [t \in Adder |-> 0] /\ sent = {} /\ received = {}
  BY DEF Init
<1>2. TypeOK
  BY <1>1 DEF TypeOK
<1>3. DiningRight
  <2>1. \A n \in Seat : /\ Ph(n) \in Thread /\ pc[Ph(n)] = 0 /\ sem[Queue(n)] = 0
                        /\ state[n] = "thinking" /\ local[Ph(n)] = 0
    BY <1>1, Philosophers, Sems DEF DiningSems
  <2>2. sem[Sem("key")] = 0
    BY <1>1, Sems DEF DiningSems
  <2> QED BY <2>1, <2>2 DEF DiningRight, TableRight, SeatRight, AtTable, MustThink
<1>4. AddersRight
  <2>1. \A t \in Adder : pc[t] = 0 /\ local[t] = 0 /\ adder_counters[t] = 0
    BY <1>1, AdderSets
  <2>2. Increments = {} /\ Uncounted = {}
    <3>1. \A t \in Adder : {t} \X (1..adder_counters[t]) = {}
      BY <2>1
    <3> QED BY <2>1, <3>1 DEF Increments, Uncounted
  <2>3. IsFiniteSet({}) /\ Cardinality({}) = 0
    BY FS_EmptySet
  <2>4. sem[Sem("count_mutex")] = 0
    BY <1>1, Sems
  <2> QED BY <1>1, <2>1, <2>2, <2>3, <2>4, AdderSets DEF AddersRight
<1>5. BufferRight
  <2>1. FreeSlots = 0..(BUFFER_SIZE - 1) /\ FullSlots = {}
    BY <1>1 DEF FreeSlots, FullSlots
  <2>2. Place(main) = 1
    BY <1>1 DEF Place, Sending
  <2>3. \A t \in Sender \cup Consumer : t \in Thread /\ Place(t) \in {0, 1} /\ pc[t] = 0
    BY <1>1, <2>2, Classes DEF Place
  <2>4. HasFree = {} /\ HasFull = {}
    BY <2>3 DEF HasFree, HasFull
  <2>5. sem[Sem("empty")] = 0 /\ sem[Sem("full")] = 0 /\ sem[Sem("buffer_key")] = 0
    BY <1>1, Sems DEF BufferSems
  <2>6. CountsRight
    BY <2>1, <2>4, <2>5, AllSlots, SynchProblemsAssumption DEF CountsRight
  <2>7. KeyRight
    BY <2>3, <2>5 DEF KeyRight
  <2>8. ItemsRight
    <3>1. \A t \in Producer : pc[t] = 0 /\ todo[t] = 0 /\ t \in Sender
      BY <1>1, ProducerProgram DEF Sender
    <3>2. ITEMS_TO_PRODUCE \in Nat
      BY SynchProblemsAssumption
    <3> QED BY <1>1, <2>1, <2>3, <3>1, <3>2 DEF ItemsRight
  <2> QED BY <2>6, <2>7, <2>8 DEF BufferRight
<1>6. DriverRight
  <2>1. \A t \in Thread : pc[t] = 0 /\ todo[t] = 0
    BY <1>1
  <2>2. main \in Thread
    BY DEF Thread
  <2> QED BY <1>1, <2>1, <2>2, ForkedFinite DEF DriverRight
<1> QED BY <1>2, <1>3, <1>4, <1>5, <1>6 DEF IInv

(* Nothing changes when nothing does.                                      *)
LEMMA StutterKeeps ==
  ASSUME IInv, UNCHANGED vars
  PROVE  IInv'
<1>0. /\ TypeOK /\ DiningRight /\ AddersRight /\ BufferRight /\ DriverRight
      /\ problem' = problem /\ sem' = sem /\ pc' = pc /\ todo' = todo
      /\ item_buffer' = item_buffer /\ item' = item /\ sent' = sent /\ received' = received
      /\ local' = local /\ state' = state /\ counter' = counter
      /\ adder_counters' = adder_counters
  BY DEF IInv, vars, data, buffers, counters
<1>1. TypeOK'
  BY <1>0 DEF TypeOK
<1>2. DiningRight'
  BY <1>0 DEF DiningRight, TableRight, SeatRight, MayEat
<1>3. AddersRight'
  BY <1>0 DEF AddersRight, Increments, Uncounted
<1>4. BufferRight'
  <2>1. FreeSlots' = FreeSlots /\ FullSlots' = FullSlots
    BY <1>0, SlotsSame
  <2>2. \A t : Place(t)' = Place(t)
    BY <1>0 DEF Place, Sending
  <2>3. HasFree' = HasFree /\ HasFull' = HasFull
    BY <1>0, <2>2 DEF HasFree, HasFull
  <2>4. CountsRight'
    BY <1>0, <2>1, <2>3 DEF BufferRight, CountsRight
  <2>5. KeyRight'
    BY <1>0, <2>2 DEF BufferRight, KeyRight
  <2>6. ItemsRight'
    BY <1>0, <2>1, <2>2 DEF BufferRight, ItemsRight
  <2> QED BY <2>4, <2>5, <2>6 DEF BufferRight
<1>5. DriverRight'
  <2>1. Program(main)' = Program(main)
    BY <1>0 DEF Program
  <2>2. \A s : Downs(s)' = Downs(s) /\ Gones(s)' = Gones(s)
    BY <1>0 DEF Downs, Gones
  <2> QED BY <1>0, <2>1, <2>2 DEF DriverRight
<1> QED BY <1>1, <1>2, <1>3, <1>4, <1>5 DEF IInv

(* The invariant is inductive.                                             *)
LEMMA NextKeeps == IInv /\ [Next]_vars => IInv'
BY StepKeeps, RunTestKeeps, StutterKeeps DEF Next

-----------------------------------------------------------------------------
(* The theorems.                                                           *)

(* The inductive invariant holds in every reachable state: what the four   *)
(* problems' threads have done is what their semaphores say.               *)
THEOREM Invariance == Spec => []IInv
<1>1. Init => IInv
  BY InitRight
<1>2. IInv /\ [Next]_vars => IInv'
  BY NextKeeps
<1> QED BY <1>1, <1>2, PTL DEF Spec

(* Every variable keeps its type: in particular no semaphore's count is    *)
(* ever negative, every slot is a slot, and only items are sent.           *)
THEOREM TypeCorrect == Spec => []TypeOK
<1>1. IInv => TypeOK
  BY DEF IInv
<1> QED BY <1>1, Invariance, PTL

(* No two neighbours at the table of dining.c eat at once, and a           *)
(* philosopher's semaphore has its one unit only between the neighbour's V *)
(* and its own P; the counter of math.c is the sum of the adders' own      *)
(* counts and NADDS at the end.                                            *)
THEOREM SectionsAlwaysExclusive == Spec => []SectionsExclusive
<1>1. IInv => SectionsExclusive
  <2> SUFFICES ASSUME IInv PROVE SectionsExclusive
    OBVIOUS
  <2>0. TypeOK /\ DiningRight /\ AddersRight /\ DriverRight
    BY DEF IInv
  <2>1. ForksExclusive
    <3>1. \A n \in Seat : Eating(n) => pc[Ph(n)] = 7
      <4>1. ASSUME NEW n \in Seat, Eating(n) PROVE pc[Ph(n)] = 7
        <5>1. /\ Ph(n) \in Philosopher /\ pc[Ph(n)] \in 1..14
              /\ Program(Ph(n))[pc[Ph(n)]][1] = "eat"
          BY <4>1, Philosophers, PhilProgram DEF Eating, At, Ph
        <5>2. \A i \in 1..14 : i # 7 => Program(Ph(n))[i][1] # "eat"
          BY <5>1, PhilProgram DEF Down, Up, Do
        <5> QED BY <5>1, <5>2
      <4> QED BY <4>1
    <3>2. ASSUME NEW n \in Seat
          PROVE  /\ Eating(n) => ~Eating(left(n)) /\ state[n] = "eating"
                 /\ sem[Queue(n)] <= 1
                 /\ sem[Queue(n)] = 1 => state[n] = "eating" /\ ~Eating(n)
      <4>1. left(n) \in Seat
        BY Neighbours
      <4>2. SeatRight(n) /\ SeatRight(left(n))
        BY <2>0, <4>1 DEF DiningRight
      <4>3. Eating(n) => ~Eating(left(n)) /\ state[n] = "eating"
        BY <3>1, <4>1, <4>2 DEF SeatRight
      <4>4. sem[Queue(n)] <= 1
        BY <4>2 DEF SeatRight
      <4>5. sem[Queue(n)] = 1 => state[n] = "eating" /\ ~Eating(n)
        BY <3>1, <4>2 DEF SeatRight
      <4> QED BY <4>3, <4>4, <4>5
    <3> QED BY <3>2 DEF ForksExclusive
  <2>2. CounterExact
    <3>1. counter = Cardinality(Increments) + Cardinality(Uncounted) /\ counter <= NADDS
      BY <2>0 DEF AddersRight
    <3>2. ASSUME problem = "maths", Waited PROVE Cardinality(Increments) = NADDS
      <4>1. \A t \in Adder : pc[t] = 0
        BY <2>0, <3>2, AllGone, AdderSets
      <4>2. counter = NADDS
        BY <2>0, <3>2, <4>1, AdderSets DEF AddersRight
      <4>3. Uncounted = {}
        BY <4>1 DEF Uncounted
      <4>4. Cardinality(Uncounted) = 0 /\ Cardinality(Increments) \in Nat
        BY <2>0, <4>3, FS_EmptySet, FS_CardinalityType DEF AddersRight
      <4> QED BY <3>1, <4>2, <4>4, AdderSets
    <3> QED BY <3>1, <3>2 DEF CounterExact
  <2> QED BY <2>1, <2>2 DEF SectionsExclusive
<1> QED BY <1>1, Invariance, PTL

(* A driver that has made all its waits, or returned, leaves no thread     *)
(* behind: each forked thread's V is waited for exactly once.              *)
THEOREM DriversAlwaysWait == Spec => []DriversWait
<1>1. IInv => DriversWait
  <2> SUFFICES ASSUME IInv, NEW t \in Thread \ {main}, problem = "none" \/ Waited
               PROVE  pc[t] = 0
    BY DEF DriversWait
  <2>1. TypeOK /\ DriverRight
    BY DEF IInv
  <2>2. CASE problem = "none"
    BY <2>1, <2>2, ForkedSets DEF DriverRight, Problem
  <2>3. CASE problem # "none"
    BY <2>1, <2>3, AllGone
  <2> QED BY <2>2, <2>3
<1> QED BY <1>1, Invariance, PTL

(* A step sends an item, receives one, or does neither.                    *)
LEMMA StepRefines ==
  ASSUME IInv, IInv', [Next]_vars
  PROVE  Buffer!Next \/ UNCHANGED <<sent, {item_buffer[i] : i \in DOMAIN item_buffer} \ {NULL}, received>>
<1> DEFINE held == {item_buffer[i] : i \in DOMAIN item_buffer} \ {NULL}
<1>0. /\ TypeOK /\ BufferRight /\ DriverRight /\ BUFFER_SIZE \in Nat
      /\ item_buffer \in [0..(BUFFER_SIZE - 1) -> Item \cup {NULL}]
  BY SynchProblemsAssumption DEF IInv, TypeOK
<1>1. held = {item_buffer[i] : i \in FullSlots}
  BY <1>0 DEF FullSlots, FreeSlots
<1>u. buffers' = buffers => UNCHANGED <<sent, held, received>>
  BY DEF buffers
<1>2. ASSUME NEW p \in Problem, RunTest(p) PROVE Buffer!Startup
  <2>1. sent' = {} /\ received' = {} /\ item_buffer' = [i \in DOMAIN item_buffer |-> NULL]
    BY <1>2 DEF RunTest
  <2>2. held' = {}
    BY <2>1
  <2> QED BY <2>1, <2>2 DEF Buffer!Startup
<1>3. ASSUME NEW t \in Sender, Step(t)
      PROVE  (\E i \in Item : Buffer!Send(i)) \/ UNCHANGED <<sent, held, received>>
  <2>1. CASE ~Busy(t)
    BY <1>0, <1>3, <1>u, <2>1, SenderStep
  <2>2. CASE Busy(t)
    <3>1. PICK k : k = Place(t)
      OBVIOUS
    <3>2. k \in 1..6 /\ Does(t, producer_send[k]) /\ t \in Thread
      BY <1>0, <1>3, <2>2, <3>1, SenderStep, Classes
    <3>3. CASE k # 4
      <4>1. buffers' = buffers
        BY <1>0, <3>2, <3>3, SendEffects
      <4> QED BY <1>u, <4>1
    <3>4. CASE k = 4
      <4>1. Fill(t)
        BY <1>0, <3>2, <3>4, SendEffects
      <4>2. /\ NewItem(t) \in Item /\ NewItem(t) \notin sent /\ NewItem(t) # NULL
            /\ local[t] \in FreeSlots /\ local[t] \notin FullSlots
            /\ item_buffer' = [item_buffer EXCEPT ![local[t]] = NewItem(t)]
            /\ sent' = sent \cup {NewItem(t)} /\ received' = received
        BY <1>0, <2>2, <3>1, <3>4, <4>1, FillRight
      <4>3. PICK x : x = NewItem(t)
        OBVIOUS
      <4>4. held' = held \cup {x}
        <5>1. local[t] \in DOMAIN item_buffer /\ item_buffer[local[t]] = NULL
          BY <4>2 DEF FreeSlots
        <5>2. DOMAIN item_buffer' = DOMAIN item_buffer
          BY <4>2
        <5>3. \A i \in DOMAIN item_buffer :
                item_buffer'[i] = IF i = local[t] THEN x ELSE item_buffer[i]
          BY <4>2, <4>3
        <5> QED BY <4>2, <4>3, <5>1, <5>2, <5>3
      <4>5. Cardinality(held) < BUFFER_SIZE
        <5>1. IsFiniteSet(0..(BUFFER_SIZE - 1)) /\ Cardinality(0..(BUFFER_SIZE - 1)) = BUFFER_SIZE
          BY <1>0, AllSlots, FS_Interval
        <5>2. FullSlots \subseteq (0..(BUFFER_SIZE - 1)) \ {local[t]} /\ local[t] \in 0..(BUFFER_SIZE - 1)
          BY <1>0, <4>2, Slots
        <5>3. /\ IsFiniteSet((0..(BUFFER_SIZE - 1)) \ {local[t]})
              /\ Cardinality((0..(BUFFER_SIZE - 1)) \ {local[t]}) = BUFFER_SIZE - 1
          BY <5>1, <5>2, FS_RemoveElement
        <5>4. PICK R : R = (0..(BUFFER_SIZE - 1)) \ {local[t]}
          OBVIOUS
        <5>5. IsFiniteSet(R) /\ FullSlots \subseteq R /\ Cardinality(R) = BUFFER_SIZE - 1
          BY <5>2, <5>3, <5>4
        <5>6. IsFiniteSet(FullSlots) /\ Cardinality(FullSlots) <= Cardinality(R)
          BY <5>5, FS_Subset
        <5>7. IsFiniteSet(held) /\ Cardinality(held) <= Cardinality(FullSlots)
          <6>1. PICK f : f = [i \in FullSlots |-> item_buffer[i]]
            OBVIOUS
          <6>2. f \in Surjection(FullSlots, held)
            BY <1>1, <6>1 DEF Surjection
          <6> QED BY <5>6, <6>2, FS_Surjection
        <5>8. Cardinality(held) \in Nat /\ Cardinality(FullSlots) \in Nat
          BY <5>6, <5>7, FS_CardinalityType
        <5> QED BY <1>0, <5>5, <5>6, <5>7, <5>8
      <4>6. Buffer!Send(x)
        <5>1. x \notin sent /\ sent' = sent \cup {x} /\ received' = received
          BY <4>2, <4>3
        <5>2. Buffer!Cardinality(held) = Cardinality(held)
          BY DEF Buffer!Cardinality, Cardinality
        <5> QED BY <4>4, <4>5, <5>1, <5>2 DEF Buffer!Send
      <4> QED BY <4>2, <4>3, <4>6
    <3> QED BY <3>3, <3>4
  <2> QED BY <2>1, <2>2
<1>4. ASSUME NEW t \in Consumer, Step(t)
      PROVE  (\E i \in Item : Buffer!Receive(i)) \/ UNCHANGED <<sent, held, received>>
  <2>1. CASE pc[t] \in 1..6 /\ Does(t, consumer_receive[pc[t]])
    <3>1. PICK k : k = pc[t]
      OBVIOUS
    <3>2. k \in 1..6 /\ Does(t, consumer_receive[k]) /\ t \in Thread
      BY <2>1, <3>1, ConsumerProgram
    <3>3. CASE k # 4
      <4>1. buffers' = buffers
        BY <1>0, <3>2, <3>3, ReceiveEffects
      <4> QED BY <1>u, <4>1
    <3>4. CASE k = 4
      <4>1. Take(t)
        BY <1>0, <3>2, <3>4, ReceiveEffects
      <4>2. /\ local[t] \in FullSlots
            /\ item_buffer[local[t]] \in sent /\ item_buffer[local[t]] # NULL
            /\ item_buffer' = [item_buffer EXCEPT ![local[t]] = NULL]
            /\ sent' = sent /\ received' = received \cup {item_buffer[local[t]]}
        BY <1>0, <3>1, <3>4, <4>1, TakeRight
      <4>3. PICK x : x = item_buffer[local[t]]
        OBVIOUS
      <4>4. x \in Item /\ x \in held /\ local[t] \in DOMAIN item_buffer
        <5>1. local[t] \in DOMAIN item_buffer
          BY <4>2 DEF FullSlots
        <5> QED BY <1>0, <4>2, <4>3, <5>1
      <4>5. \A i \in DOMAIN item_buffer : item_buffer[i] = x => i = local[t]
        <5>1. \A i, j \in FullSlots : item_buffer[i] = item_buffer[j] => i = j
          BY <1>0 DEF BufferRight, ItemsRight
        <5>2. \A i \in DOMAIN item_buffer : item_buffer[i] = x => i \in FullSlots
          BY <4>2, <4>3 DEF FullSlots, FreeSlots
        <5> QED BY <4>2, <4>3, <5>1, <5>2
      <4>6. held' = held \ {x}
        <5>1. DOMAIN item_buffer' = DOMAIN item_buffer
          BY <4>2
        <5>2. \A i \in DOMAIN item_buffer :
                item_buffer'[i] = IF i = local[t] THEN NULL ELSE item_buffer[i]
          BY <4>2
        <5> QED BY <4>3, <4>4, <4>5, <5>1, <5>2
      <4>7. Buffer!Receive(x)
        BY <4>2, <4>3, <4>4, <4>6 DEF Buffer!Receive
      <4> QED BY <4>4, <4>7
    <3> QED BY <3>3, <3>4
  <2>2. CASE UNCHANGED <<item_buffer, sent, received>>
    BY <2>2
  <2> QED BY <1>0, <1>4, <2>1, <2>2, ConsumerStep
<1>5. ASSUME NEW t \in Thread \ (Sender \cup Consumer), Step(t)
      PROVE  UNCHANGED <<sent, held, received>>
  BY <1>0, <1>5, <1>u, BufferKept
<1>6. CASE UNCHANGED vars
  BY <1>6, <1>u DEF vars, data
<1>7. CASE \E p \in Problem : RunTest(p)
  BY <1>2, <1>7 DEF Buffer!Next
<1>8. CASE \E t \in Thread : Step(t)
  BY <1>3, <1>4, <1>5, <1>8 DEF Buffer!Next
<1> QED BY <1>6, <1>7, <1>8 DEF Next

(* The buffer that producer_send and consumer_receive search under one     *)
(* semaphore and between two that count implements BoundedBuffer: no item  *)
(* is overwritten, received twice or dropped for want of a slot.           *)
THEOREM Refinement == Spec => ImplementsBoundedBuffer
<1>1. Init => Buffer!Init
  BY DEF Init, Buffer!Init
<1>2. IInv /\ IInv' /\ [Next]_vars => [Buffer!Next]_(<<sent, {item_buffer[i] : i \in DOMAIN item_buffer} \ {NULL}, received>>)
  BY StepRefines
<1> QED BY <1>1, <1>2, Invariance, PTL DEF Spec, ImplementsBoundedBuffer, Buffer!Spec
=============================================================================
