-------------------------- MODULE Scheduler_proofs --------------------------
(***************************************************************************)
(* Proofs about Scheduler, for every number of cpus and set of threads.    *)
(***************************************************************************)
EXTENDS Scheduler, TLAPS

-----------------------------------------------------------------------------
(* Lists without duplicates.                                               *)

LEMMA InAppend ==
  ASSUME NEW s \in Seq(Thread), NEW x \in Thread
  PROVE  /\ Append(s, x) \in Seq(Thread) /\ Len(Append(s, x)) = Len(s) + 1
         /\ \A t : In(t, Append(s, x)) <=> In(t, s) \/ t = x
         /\ NoDup(s) /\ ~In(x, s) => NoDup(Append(s, x))
<1>1. Append(s, x) \in Seq(Thread) /\ Len(Append(s, x)) = Len(s) + 1
  OBVIOUS
<1>p. PICK r : r = Append(s, x)
  OBVIOUS
<1>i. /\ DOMAIN r = 1..(Len(s) + 1) /\ DOMAIN s = 1..Len(s) /\ Len(s) \in Nat
      /\ r[Len(s) + 1] = x /\ \A i \in 1..Len(s) : r[i] = s[i]
  BY <1>p
<1>2. ASSUME NEW t PROVE In(t, Append(s, x)) <=> In(t, s) \/ t = x
  <2>1. In(t, s) => In(t, r)
    BY <1>i DEF In
  <2>2. In(x, r)
    <3>1. Len(s) + 1 \in DOMAIN r
      BY <1>i
    <3> QED BY <3>1, <1>i DEF In
  <2>3. ASSUME In(t, r) PROVE In(t, s) \/ t = x
    <3>1. PICK i \in DOMAIN r : r[i] = t
      BY <2>3 DEF In
    <3>2. i \in 1..Len(s) \/ i = Len(s) + 1
      BY <1>i
    <3> QED BY <3>1, <3>2, <1>i DEF In
  <2> QED BY <2>1, <2>2, <2>3, <1>p
<1>3. NoDup(s) /\ ~In(x, s) => NoDup(Append(s, x))
  BY DEF In, NoDup
<1> QED BY <1>1, <1>2, <1>3

LEMMA InTail ==
  ASSUME NEW s \in Seq(Thread), s # <<>>, NoDup(s)
  PROVE  /\ Head(s) \in Thread /\ In(Head(s), s)
         /\ Tail(s) \in Seq(Thread) /\ Len(Tail(s)) = Len(s) - 1 /\ NoDup(Tail(s))
         /\ \A t : In(t, Tail(s)) <=> In(t, s) /\ t # Head(s)
<1>1. /\ Head(s) \in Thread /\ Head(s) = s[1] /\ 1 \in DOMAIN s
      /\ Tail(s) \in Seq(Thread) /\ Len(Tail(s)) = Len(s) - 1
  OBVIOUS
<1>2. NoDup(Tail(s))
  BY DEF NoDup
<1>3. ASSUME NEW t PROVE In(t, Tail(s)) <=> In(t, s) /\ t # Head(s)
  <2>1. ASSUME In(t, Tail(s)) PROVE In(t, s) /\ t # Head(s)
    <3>1. PICK i \in DOMAIN Tail(s) : Tail(s)[i] = t
      BY <2>1 DEF In
    <3>2. i + 1 \in DOMAIN s /\ s[i + 1] = t /\ i + 1 # 1
      BY <3>1
    <3> QED BY <1>1, <3>2 DEF In, NoDup
  <2>2. ASSUME In(t, s), t # Head(s) PROVE In(t, Tail(s))
    <3>1. PICK i \in DOMAIN s : s[i] = t
      BY <2>2 DEF In
    <3>2. i # 1
      BY <1>1, <2>2, <3>1
    <3>3. i - 1 \in DOMAIN Tail(s) /\ Tail(s)[i - 1] = t
      BY <3>1, <3>2
    <3> QED BY <3>3 DEF In
  <2> QED BY <2>1, <2>2
<1>4. In(Head(s), s)
  BY <1>1 DEF In
<1> QED BY <1>1, <1>2, <1>3, <1>4

LEMMA InSplit ==
  ASSUME NEW s \in Seq(Thread), NoDup(s), NEW n \in 0..Len(s)
  PROVE  LET a == SubSeq(s, 1, n)
             b == SubSeq(s, n + 1, Len(s))
         IN  /\ a \in Seq(Thread) /\ b \in Seq(Thread)
             /\ Len(a) = n /\ Len(b) = Len(s) - n
             /\ NoDup(a) /\ NoDup(b)
             /\ \A t : In(t, s) <=> In(t, a) \/ In(t, b)
             /\ \A t : ~(In(t, a) /\ In(t, b))
<1> DEFINE a == SubSeq(s, 1, n)
           b == SubSeq(s, n + 1, Len(s))
<1>1. a \in Seq(Thread) /\ Len(a) = n /\ \A i \in 1..n : a[i] = s[i]
  OBVIOUS
<1>2. /\ b \in Seq(Thread) /\ Len(b) = Len(s) - n
      /\ \A i \in 1..(Len(s) - n) : b[i] = s[n + i]
  OBVIOUS
<1> HIDE DEF a, b
<1>3. DOMAIN a = 1..n /\ DOMAIN b = 1..(Len(s) - n) /\ DOMAIN s = 1..Len(s) /\ n \in Nat
      /\ Len(s) \in Nat
  BY <1>1, <1>2
<1>4. NoDup(a)
  BY <1>1, <1>3 DEF NoDup
<1>5. NoDup(b)
  <2> SUFFICES ASSUME NEW i \in DOMAIN b, NEW j \in DOMAIN b, b[i] = b[j] PROVE i = j
    BY DEF NoDup
  <2>1. n + i \in DOMAIN s /\ n + j \in DOMAIN s /\ s[n + i] = s[n + j]
    BY <1>2, <1>3
  <2>2. n + i = n + j
    BY <2>1 DEF NoDup
  <2> QED BY <2>2, <1>3
<1>6. ASSUME NEW t, In(t, a) PROVE \E i \in 1..n : s[i] = t
  BY <1>1, <1>3, <1>6 DEF In
<1>7. ASSUME NEW t, In(t, b) PROVE \E i \in (n + 1)..Len(s) : s[i] = t
  <2>1. PICK i \in DOMAIN b : b[i] = t
    BY <1>7 DEF In
  <2>2. n + i \in (n + 1)..Len(s) /\ s[n + i] = t
    BY <2>1, <1>2, <1>3
  <2> QED BY <2>2
<1>8. ASSUME NEW t, In(t, s) PROVE In(t, a) \/ In(t, b)
  <2>1. PICK i \in DOMAIN s : s[i] = t
    BY <1>8 DEF In
  <2>2. CASE i <= n
    BY <2>1, <2>2, <1>1, <1>3 DEF In
  <2>3. CASE i > n
    <3>1. i - n \in DOMAIN b /\ n + (i - n) = i
      BY <2>1, <2>3, <1>3
    <3>2. b[i - n] = t
      BY <3>1, <2>1, <1>2, <1>3
    <3> QED BY <3>1, <3>2 DEF In
  <2> QED BY <2>1, <2>2, <2>3, <1>3
<1>9. \A t : In(t, s) <=> In(t, a) \/ In(t, b)
  <2> TAKE t
  <2>1. ASSUME In(t, a) PROVE In(t, s)
    <3>1. PICK i \in 1..n : s[i] = t
      BY <2>1, <1>6
    <3>2. i \in DOMAIN s
      BY <1>3
    <3> QED BY <3>1, <3>2 DEF In
  <2>2. ASSUME In(t, b) PROVE In(t, s)
    <3>1. PICK i \in (n + 1)..Len(s) : s[i] = t
      BY <2>2, <1>7
    <3>2. i \in DOMAIN s
      BY <1>3
    <3> QED BY <3>1, <3>2 DEF In
  <2> QED BY <2>1, <2>2, <1>8
<1>10. \A t : ~(In(t, a) /\ In(t, b))
  <2> SUFFICES ASSUME NEW t, In(t, a), In(t, b) PROVE FALSE
    OBVIOUS
  <2>1. PICK i \in 1..n : s[i] = t
    BY <1>6
  <2>2. PICK j \in (n + 1)..Len(s) : s[j] = t
    BY <1>7
  <2>3. i \in DOMAIN s /\ j \in DOMAIN s /\ i # j
    BY <1>3
  <2> QED BY <2>1, <2>2, <2>3 DEF NoDup
<1> QED BY <1>1, <1>2, <1>4, <1>5, <1>9, <1>10 DEF a, b

LEMMA InConcat ==
  ASSUME NEW a \in Seq(Thread), NEW b \in Seq(Thread)
  PROVE  /\ a \o b \in Seq(Thread) /\ Len(a \o b) = Len(a) + Len(b)
         /\ \A t : In(t, a \o b) <=> In(t, a) \/ In(t, b)
         /\ NoDup(a) /\ NoDup(b) /\ (\A t : ~(In(t, a) /\ In(t, b))) => NoDup(a \o b)
<1>1. /\ a \o b \in Seq(Thread) /\ Len(a \o b) = Len(a) + Len(b)
      /\ \A i \in 1..Len(a) : (a \o b)[i] = a[i]
      /\ \A i \in 1..Len(b) : (a \o b)[Len(a) + i] = b[i]
  OBVIOUS
<1>2. DOMAIN a = 1..Len(a) /\ DOMAIN b = 1..Len(b) /\ DOMAIN (a \o b) = 1..(Len(a) + Len(b))
      /\ Len(a) \in Nat /\ Len(b) \in Nat
  BY <1>1
<1>p. PICK s : s = a \o b
  OBVIOUS
<1>3. ASSUME NEW i \in DOMAIN s
      PROVE  \/ i \in DOMAIN a /\ s[i] = a[i]
             \/ i - Len(a) \in DOMAIN b /\ s[i] = b[i - Len(a)]
  <2>1. CASE i <= Len(a)
    BY <2>1, <1>1, <1>2, <1>p
  <2>2. CASE i > Len(a)
    <3>1. i - Len(a) \in 1..Len(b) /\ Len(a) + (i - Len(a)) = i
      BY <2>2, <1>2, <1>p
    <3> QED BY <3>1, <1>1, <1>2, <1>p
  <2> QED BY <2>1, <2>2, <1>2, <1>p
<1>4. ASSUME NEW t PROVE In(t, s) <=> In(t, a) \/ In(t, b)
  <2>1. In(t, s) => In(t, a) \/ In(t, b)
    BY <1>3 DEF In
  <2>2. In(t, a) => In(t, s)
    <3> SUFFICES ASSUME NEW i \in DOMAIN a, a[i] = t PROVE In(t, s)
      BY DEF In
    <3>1. i \in DOMAIN s /\ s[i] = t
      BY <1>1, <1>2, <1>p
    <3> QED BY <3>1 DEF In
  <2>3. In(t, b) => In(t, s)
    <3> SUFFICES ASSUME NEW i \in DOMAIN b, b[i] = t PROVE In(t, s)
      BY DEF In
    <3>1. Len(a) + i \in DOMAIN s /\ s[Len(a) + i] = t
      BY <1>1, <1>2, <1>p
    <3> QED BY <3>1 DEF In
  <2> QED BY <2>1, <2>2, <2>3
<1>5. ASSUME NoDup(a), NoDup(b), \A t : ~(In(t, a) /\ In(t, b)) PROVE NoDup(s)
  <2> SUFFICES ASSUME NEW i \in DOMAIN s, NEW j \in DOMAIN s, s[i] = s[j] PROVE i = j
    BY DEF NoDup
  <2>1. CASE i \in DOMAIN a /\ s[i] = a[i] /\ j \in DOMAIN a /\ s[j] = a[j]
    BY <2>1, <1>5 DEF NoDup
  <2>2. CASE /\ i - Len(a) \in DOMAIN b /\ s[i] = b[i - Len(a)]
             /\ j - Len(a) \in DOMAIN b /\ s[j] = b[j - Len(a)]
    <3>1. i - Len(a) = j - Len(a)
      BY <2>2, <1>5 DEF NoDup
    <3>2. i \in Int /\ j \in Int
      BY <1>1, <1>p, <1>2
    <3> QED BY <3>1, <3>2, <1>2
  <2>3. CASE i \in DOMAIN a /\ s[i] = a[i] /\ j - Len(a) \in DOMAIN b /\ s[j] = b[j - Len(a)]
    BY <2>3, <1>5 DEF In
  <2>4. CASE j \in DOMAIN a /\ s[j] = a[j] /\ i - Len(a) \in DOMAIN b /\ s[i] = b[i - Len(a)]
    BY <2>4, <1>5 DEF In
  <2> QED BY <1>3, <2>1, <2>2, <2>3, <2>4
<1> QED BY <1>1, <1>4, <1>5, <1>p

LEMMA InRemoveAt ==
  ASSUME NEW s \in Seq(Thread), NoDup(s), NEW k \in DOMAIN s
  PROVE  /\ RemoveAt(s, k) \in Seq(Thread) /\ NoDup(RemoveAt(s, k))
         /\ s[k] \in Thread /\ In(s[k], s)
         /\ \A t : In(t, RemoveAt(s, k)) <=> In(t, s) /\ t # s[k]
<1>1. k \in 1..Len(s) /\ k - 1 \in 0..Len(s) /\ k \in 0..Len(s)
  OBVIOUS
<1>d. PICK a, b, x : a = SubSeq(s, 1, k - 1) /\ b = SubSeq(s, k + 1, Len(s)) /\ x = s[k]
  OBVIOUS
<1>2. /\ a \in Seq(Thread) /\ Len(a) = k - 1 /\ NoDup(a)
  BY <1>1, <1>d, InSplit
<1>3. /\ b \in Seq(Thread) /\ NoDup(b) /\ Len(b) = Len(s) - k
  BY <1>1, <1>d, InSplit
<1>4. /\ \A i \in 1..(k - 1) : a[i] = s[i]
      /\ \A i \in 1..(Len(s) - k) : b[i] = s[k + i]
  BY <1>1, <1>d
<1>5. ASSUME NEW t PROVE In(t, a) <=> \E i \in 1..(k - 1) : s[i] = t
  BY <1>2, <1>4 DEF In
<1>6. ASSUME NEW t PROVE In(t, b) <=> \E i \in (k + 1)..Len(s) : s[i] = t
  <2>1. ASSUME In(t, b) PROVE \E i \in (k + 1)..Len(s) : s[i] = t
    <3>1. PICK i \in 1..(Len(s) - k) : b[i] = t
      BY <2>1, <1>3 DEF In
    <3>2. k + i \in (k + 1)..Len(s) /\ s[k + i] = t
      BY <3>1, <1>1, <1>4
    <3> QED BY <3>2
  <2>2. ASSUME NEW i \in (k + 1)..Len(s), s[i] = t PROVE In(t, b)
    <3>1. i - k \in 1..(Len(s) - k) /\ k + (i - k) = i
      BY <1>1
    <3>2. i - k \in DOMAIN b /\ b[i - k] = t
      BY <3>1, <2>2, <1>3, <1>4
    <3> QED BY <3>2 DEF In
  <2> QED BY <2>1, <2>2
<1>7. \A t : ~(In(t, a) /\ In(t, b))
  <2> SUFFICES ASSUME NEW t, In(t, a), In(t, b) PROVE FALSE
    OBVIOUS
  <2>1. PICK i \in 1..(k - 1) : s[i] = t
    BY <1>5
  <2>2. PICK j \in (k + 1)..Len(s) : s[j] = t
    BY <1>6
  <2>3. i \in DOMAIN s /\ j \in DOMAIN s /\ i # j
    BY <1>1
  <2> QED BY <2>1, <2>2, <2>3 DEF NoDup
<1>8. RemoveAt(s, k) = a \o b
  BY <1>d DEF RemoveAt
<1>9. a \o b \in Seq(Thread) /\ NoDup(a \o b) /\ \A t : In(t, a \o b) <=> In(t, a) \/ In(t, b)
  BY <1>2, <1>3, <1>7, InConcat
<1>10. ASSUME NEW t PROVE In(t, a) \/ In(t, b) <=> In(t, s) /\ t # x
  <2>1. ASSUME In(t, a) \/ In(t, b) PROVE In(t, s) /\ t # x
    <3>1. PICK i \in 1..Len(s) : s[i] = t /\ i # k
      BY <2>1, <1>1, <1>5, <1>6
    <3> QED BY <3>1, <1>d DEF In, NoDup
  <2>2. ASSUME In(t, s), t # x PROVE In(t, a) \/ In(t, b)
    <3>1. PICK i \in 1..Len(s) : s[i] = t
      BY <2>2 DEF In
    <3>2. i \in 1..(k - 1) \/ i \in (k + 1)..Len(s)
      BY <3>1, <2>2, <1>1, <1>d
    <3> QED BY <3>1, <3>2, <1>5, <1>6
  <2> QED BY <2>1, <2>2
<1>11. s[k] \in Thread /\ In(s[k], s)
  BY DEF In
<1>12. \A t : In(t, RemoveAt(s, k)) <=> In(t, s) /\ t # s[k]
  BY <1>8, <1>9, <1>10, <1>d
<1> QED BY <1>8, <1>9, <1>11, <1>12

-----------------------------------------------------------------------------
(* The initial state, and the steps that leave every list alone.           *)

LEMMA InEmpty == \A t : ~In(t, <<>>)
  BY DEF In

(* A list that is not empty has a member, and the other way round. *)
LEMMA InNonEmpty ==
  ASSUME NEW s \in Seq(Thread), NEW t, In(t, s) PROVE s # <<>>
  BY DEF In

LEMMA InitIInv == Init => IInv
<1> SUFFICES ASSUME Init PROVE IInv
  OBVIOUS
<1> USE SchedulerAssumption DEF Init
<1>1. /\ \A c \in Cpu : /\ c_runqueue[c] = <<>> /\ c_zombies[c] = <<>> /\ waking[c] = <<>>
                        /\ pc[c] = "run" /\ ~c_isidle[c] /\ migration[c] = NoMigration
                        /\ migration[c].victims = <<>> /\ c_curthread[c] = BootThread[c]
      /\ wc_threads = <<>> /\ NCPU \in Nat \ {0} /\ 0 \in Cpu
      /\ \A u \in Thread : newthread[u] = {}
  BY DEF NoMigration, Cpu
<1>2. TypeOK
  <2>1. NoMigration \in [i : 0..NCPU, my : Nat, total : Nat, share : Nat, to_send : Nat,
                         victims : Seq(Thread)]
    BY <1>1 DEF NoMigration
  <2>2. t_cpu \in [Thread -> Cpu] /\ t_state \in [Thread -> {"S_NONE", "S_RUN"}]
    OBVIOUS
  <2> QED BY <2>1, <2>2 DEF TypeOK, Place
<1>3. ListsRight
  BY <1>1 DEF ListsRight, NoDup
<1>4. ASSUME NEW t \in Thread PROVE ThreadRight(t)
  <2>1. \/ t_state[t] = "S_NONE"
        \/ t_state[t] = "S_RUN" /\ BootThread[t_cpu[t]] = t
    OBVIOUS
  <2>2. t_cpu[t] \in Cpu
    OBVIOUS
  <2> QED BY <1>1, <2>1, <2>2, InEmpty DEF ThreadRight, OnChannel, New
<1>5. ASSUME NEW c \in Cpu PROVE StackRight(c)
  <2>1. BootThread[c] \in Thread /\ t_state[BootThread[c]] = "S_RUN"
    OBVIOUS
  <2>2. t_cpu[BootThread[c]] \in Cpu /\ BootThread[t_cpu[BootThread[c]]] = BootThread[c]
    BY <2>1
  <2> QED BY <1>1, <2>1, <2>2 DEF StackRight
<1>6. ASSUME NEW c \in Cpu PROVE CpuRight(c) /\ SleepRight(c)
  BY <1>1, InEmpty DEF CpuRight, SleepRight, OnChannel
<1> QED BY <1>2, <1>3, <1>4, <1>5, <1>6 DEF IInv

(* A cpu that a step does not concern, or whose thread stays as it is. *)
LEMMA SleepKept ==
  ASSUME NEW d \in Cpu, SleepRight(d), NEW x, x = c_curthread[d],
         c_curthread'[d] = x, c_isidle'[d] = c_isidle[d],
         pc'[d] = "sleep" <=> pc[d] = "sleep",
         In(x, wc_threads') \/ (\E e \in Cpu : In(x, waking'[e])) <=>
           In(x, wc_threads) \/ (\E e \in Cpu : In(x, waking[e]))
  PROVE  SleepRight(d)'
  BY DEF SleepRight, OnChannel

(* A step that leaves the lists, the stacks and the threads alone. *)
LEMMA ListsKept ==
  ASSUME IInv, TypeOK', \A c \in Cpu : CpuRight(c)',
         \A c \in Cpu : pc'[c] = "sleep" <=> pc[c] = "sleep",
         UNCHANGED <<c_isidle, c_curthread, c_zombies, threads, channel>>,
         \A c \in Cpu : migration'[c].victims = migration[c].victims
  PROVE  IInv'
<1> USE DEF threads, channel
<1>1. ListsRight'
  BY DEF IInv, ListsRight
<1>2. ASSUME NEW t \in Thread PROVE ThreadRight(t)'
  <2>1. t_cpu[t] \in Cpu /\ ThreadRight(t)
    BY DEF IInv, TypeOK
  <2>2. /\ \A d \in Cpu : In(t, migration'[d].victims) <=> In(t, migration[d].victims)
        /\ In(t, migration'[t_cpu[t]].victims) <=> In(t, migration[t_cpu[t]].victims)
    BY <2>1
  <2> QED BY <2>1, <2>2 DEF ThreadRight, OnChannel, New
<1>3. ASSUME NEW c \in Cpu PROVE StackRight(c)' /\ SleepRight(c)'
  <2>1. StackRight(c)'
    BY DEF IInv, StackRight
  <2>2. SleepRight(c)'
    BY SleepKept DEF IInv
  <2> QED BY <2>1, <2>2
<1> QED BY <1>1, <1>2, <1>3 DEF IInv

(* A step after which a cpu is elsewhere in its code. *)
LEMMA Moves ==
  ASSUME IInv, NEW c \in Cpu, NEW p \in Place, Goto(c, p),
         UNCHANGED <<c_isidle, c_curthread, c_zombies, threads, channel, migration>>,
         ipi' \in [Cpu -> BOOLEAN],
         pc[c] \notin {"wake", "count", "send", "sleep"},
         p \notin {"wake", "send", "sleep"},
         p \in {"run", "exorcise"} => ~c_isidle[c],
         p \in {"switch", "look", "awake", "idle"} => c_isidle[c]
  PROVE  IInv'
<1> USE DEF threads, channel
<1>1. TypeOK'
  BY DEF IInv, TypeOK, Goto
<1>2. ASSUME NEW d \in Cpu PROVE CpuRight(d)'
  <2>1. pc \in [Cpu -> Place]
    BY DEF IInv, TypeOK
  <2>2. pc'[d] = IF d = c THEN p ELSE pc[d]
    BY <2>1 DEF Goto
  <2>3. CpuRight(d) /\ Len(c_runqueue[d]) \in Nat
    BY DEF IInv, TypeOK
  <2>4. CASE d # c
    BY <2>2, <2>3, <2>4 DEF CpuRight
  <2>5. CASE d = c
    <3>1. migration[c] = NoMigration /\ waking[c] = <<>>
      BY <2>3, <2>5 DEF CpuRight
    <3>2. migration[c].my = 0 /\ migration[c].victims = <<>>
      BY <3>1 DEF NoMigration
    <3> QED BY <2>2, <2>3, <2>5, <3>1, <3>2 DEF CpuRight
  <2> QED BY <2>4, <2>5
<1>3. \A d \in Cpu : pc'[d] = "sleep" <=> pc[d] = "sleep"
  BY DEF Goto, IInv, TypeOK
<1> QED BY <1>1, <1>2, <1>3, ListsKept

LEMMA YieldReturnsInv ==
  ASSUME IInv, NEW c \in Cpu, YieldReturns(c) PROVE IInv'
<1>1. PICK p : p = IF c_isidle[c] THEN "look" ELSE "run"
  OBVIOUS
<1>2. ipi \in [Cpu -> BOOLEAN]
  BY DEF IInv, TypeOK
<1> QED BY <1>1, <1>2, Moves DEF YieldReturns, At, Place

LEMMA IdleInv ==
  ASSUME IInv, NEW c \in Cpu, cpu_idle(c) PROVE IInv'
<1>1. ipi \in [Cpu -> BOOLEAN] /\ CpuRight(c)
  BY DEF IInv, TypeOK
<1>2. c_isidle[c]
  BY <1>1 DEF cpu_idle, Choosing, At, CpuRight
<1> QED BY <1>1, <1>2, Moves DEF cpu_idle, Choosing, At, Place

LEMMA IpiInv ==
  ASSUME IInv, NEW c \in Cpu, interprocessor_interrupt(c) PROVE IInv'
<1>1. ipi \in [Cpu -> BOOLEAN]
  BY DEF IInv, TypeOK
<1> QED BY <1>1, Moves DEF interprocessor_interrupt, Interruptible, At, Place

LEMMA ClearInv ==
  ASSUME IInv, NEW c \in Cpu, lamebus_clear_ipi(c) PROVE IInv'
<1>1. PICK p : p = IF c_isidle[c] THEN "awake" ELSE "run"
  OBVIOUS
<1>2. ipi \in [Cpu -> BOOLEAN]
  BY DEF IInv, TypeOK
<1>3. ipi' \in [Cpu -> BOOLEAN]
  BY <1>2 DEF lamebus_clear_ipi
<1> QED BY <1>1, <1>3, Moves DEF lamebus_clear_ipi, Return, At, Place

LEMMA HardclockInv ==
  ASSUME IInv, NEW c \in Cpu, hardclock(c) PROVE IInv'
<1>1. ipi \in [Cpu -> BOOLEAN]
  BY DEF IInv, TypeOK
<1>2. PICK p \in {"count", "yield"} : Goto(c, p)
  BY DEF hardclock
<1> QED BY <1>1, <1>2, Moves DEF hardclock, Interruptible, At, Place

LEMMA CountInv ==
  ASSUME IInv, NEW c \in Cpu, CountQueue(c) PROVE IInv'
<1>1. /\ TypeOK /\ CpuRight(c) /\ NCPU \in Nat
      /\ migration[c].i \in Cpu /\ pc[c] = "count"
  <2>1. TypeOK /\ CpuRight(c) /\ NCPU \in Nat
    BY SchedulerAssumption DEF IInv
  <2>2. pc[c] = "count" /\ migration[c].i < NCPU
    BY DEF CountQueue, At
  <2>3. migration[c].i \in 0..NCPU
    BY <2>1 DEF TypeOK
  <2> QED BY <2>1, <2>2, <2>3 DEF Cpu
<1>2. PICK m : m = migration[c]
  OBVIOUS
<1>3. PICK l \in Nat : l = Len(c_runqueue[m.i])
  <2>1. c_runqueue[m.i] \in Seq(Thread)
    BY <1>1, <1>2 DEF TypeOK
  <2> QED BY <2>1
<1>4. PICK k \in Nat : k = IF m.i = c THEN Len(c_runqueue[c]) ELSE m.my
  <2>1. c_runqueue[c] \in Seq(Thread) /\ m.my \in Nat
    BY <1>1, <1>2 DEF TypeOK
  <2> QED BY <2>1
<1>5. PICK n : n = [m EXCEPT !.i = @ + 1, !.total = @ + l, !.my = k]
  OBVIOUS
<1>6. migration' = [migration EXCEPT ![c] = n]
  BY <1>2, <1>3, <1>4, <1>5 DEF CountQueue
<1>7. /\ m \in [i : 0..NCPU, my : Nat, total : Nat, share : Nat, to_send : Nat,
                victims : Seq(Thread)]
      /\ m.i < NCPU
  <2>1. m.i < NCPU
    BY <1>1, <1>2 DEF Cpu
  <2> QED BY <2>1, <1>1, <1>2 DEF TypeOK
<1>8. /\ n \in [i : 0..NCPU, my : Nat, total : Nat, share : Nat, to_send : Nat,
                victims : Seq(Thread)]
      /\ n.victims = m.victims /\ n.my = k
  <2>1. m.i \in 0..NCPU /\ m.i + 1 \in 0..NCPU /\ m.total + l \in Nat
    BY <1>1, <1>7
  <2> QED BY <2>1, <1>5, <1>7
<1>9. UNCHANGED <<c_isidle, c_curthread, c_zombies, ipi, threads, channel, pc>>
  BY DEF CountQueue
<1>10. TypeOK'
  BY <1>1, <1>6, <1>8, <1>9 DEF TypeOK, threads, channel
<1>11. \A d \in Cpu : migration'[d] = IF d = c THEN n ELSE migration[d]
  BY <1>1, <1>6 DEF TypeOK
<1>12. ASSUME NEW d \in Cpu PROVE CpuRight(d)'
  <2>1. CpuRight(d)
    BY DEF IInv
  <2>2. CASE d # c
    BY <2>1, <2>2, <1>9, <1>11 DEF CpuRight, threads, channel
  <2>3. CASE d = c
    <3>1. k <= Len(c_runqueue[c]) /\ m.victims = <<>>
      BY <1>1, <1>2, <1>4 DEF CpuRight, TypeOK
    <3> QED BY <3>1, <2>1, <2>3, <1>1, <1>8, <1>9, <1>11 DEF CpuRight, threads, channel
  <2> QED BY <2>2, <2>3
<1>13. \A d \in Cpu : pc'[d] = "sleep" <=> pc[d] = "sleep"
  BY <1>9
<1> QED BY <1>2, <1>8, <1>9, <1>10, <1>11, <1>12, <1>13, ListsKept

LEMMA SkipInv ==
  ASSUME IInv, NEW c \in Cpu, SkipSelf(c) PROVE IInv'
<1>1. TypeOK /\ CpuRight(c) /\ NCPU \in Nat /\ pc[c] = "send" /\ migration[c].i = c
  BY SchedulerAssumption DEF IInv, SkipSelf, At
<1>2. PICK m : m = migration[c]
  OBVIOUS
<1>3. PICK n : n = [m EXCEPT !.i = @ + 1]
  OBVIOUS
<1>4. migration' = [migration EXCEPT ![c] = n]
  BY <1>2, <1>3 DEF SkipSelf
<1>5. /\ m \in [i : 0..NCPU, my : Nat, total : Nat, share : Nat, to_send : Nat,
                victims : Seq(Thread)]
      /\ m.i < NCPU
  BY <1>1, <1>2 DEF TypeOK, Cpu
<1>6. /\ n \in [i : 0..NCPU, my : Nat, total : Nat, share : Nat, to_send : Nat,
                victims : Seq(Thread)]
      /\ n.victims = m.victims /\ n.to_send = m.to_send
  BY <1>1, <1>3, <1>5
<1>7. UNCHANGED <<c_isidle, c_curthread, c_zombies, ipi, threads, channel, pc>>
  BY DEF SkipSelf
<1>8. TypeOK'
  BY <1>1, <1>4, <1>6, <1>7 DEF TypeOK, threads, channel
<1>9. \A d \in Cpu : migration'[d] = IF d = c THEN n ELSE migration[d]
  BY <1>1, <1>4 DEF TypeOK
<1>10. ASSUME NEW d \in Cpu PROVE CpuRight(d)'
  <2>1. CpuRight(d)
    BY DEF IInv
  <2>2. CASE d # c
    BY <2>1, <2>2, <1>7, <1>9 DEF CpuRight, threads, channel
  <2>3. CASE d = c
    BY <2>1, <2>3, <1>1, <1>2, <1>6, <1>7, <1>9 DEF CpuRight, threads, channel
  <2> QED BY <2>2, <2>3
<1>11. \A d \in Cpu : pc'[d] = "sleep" <=> pc[d] = "sleep"
  BY <1>7
<1> QED BY <1>2, <1>6, <1>7, <1>8, <1>9, <1>10, <1>11, ListsKept

-----------------------------------------------------------------------------
(* Steps that move a thread from list to list.                             *)

(* The cpus a step does not concern; their queues may have grown. *)
LEMMA CpuKept ==
  ASSUME TypeOK, TypeOK', NEW d \in Cpu, CpuRight(d),
         pc'[d] = pc[d], c_isidle'[d] = c_isidle[d], waking'[d] = waking[d],
         migration'[d] = migration[d], Len(c_runqueue'[d]) >= Len(c_runqueue[d])
  PROVE  CpuRight(d)'
<1>1. c_runqueue[d] \in Seq(Thread) /\ c_runqueue'[d] \in Seq(Thread)
  BY DEF TypeOK
<1>2. Len(c_runqueue[d]) \in Nat /\ Len(c_runqueue'[d]) \in Nat
  BY <1>1
<1>3. migration[d].my \in Nat
  BY DEF TypeOK
<1> QED BY <1>2, <1>3 DEF CpuRight

(* The threads a step does not concern. *)
LEMMA ThreadKept ==
  ASSUME TypeOK, NEW t \in Thread, ThreadRight(t),
         t_state'[t] = t_state[t], t_cpu'[t] = t_cpu[t],
         \A d \in Cpu : /\ In(t, c_runqueue'[d]) <=> In(t, c_runqueue[d])
                        /\ In(t, migration'[d].victims) <=> In(t, migration[d].victims)
                        /\ In(t, c_zombies'[d]) <=> In(t, c_zombies[d])
                        /\ In(t, waking'[d]) <=> In(t, waking[d]),
         In(t, wc_threads') <=> In(t, wc_threads),
         \A u \in Thread : t \in newthread'[u] <=> t \in newthread[u],
         t_state[t] = "S_RUN" =>
           c_curthread'[t_cpu[t]] = t /\ ~c_isidle'[t_cpu[t]]
  PROVE  ThreadRight(t)'
<1>1. t_cpu[t] \in Cpu
  BY DEF TypeOK
<1> QED BY <1>1 DEF ThreadRight, OnChannel, New

LEMMA ForkInv ==
  ASSUME IInv, NEW c \in Cpu, NEW x \in Thread, thread_fork(c, x) PROVE IInv'
<1>1. /\ TypeOK /\ t_state[x] = "S_NONE"
      /\ UNCHANGED <<c_runqueue, c_isidle, c_curthread, c_zombies, ipi, wc_threads, waking, pc,
                     migration>>
  BY DEF IInv, thread_fork, channel
<1>2. PICK u0 \in Thread : u0 = c_curthread[c]
  BY <1>1 DEF TypeOK
<1>3. /\ \A t \in Thread : t_state'[t] = IF t = x THEN "S_READY" ELSE t_state[t]
      /\ \A t \in Thread : t_cpu'[t] = IF t = x THEN c ELSE t_cpu[t]
      /\ \A u \in Thread : newthread'[u] = IF u = u0 THEN {x} ELSE newthread[u]
      /\ newthread[u0] = {}
  BY <1>1, <1>2 DEF TypeOK, thread_fork, Forking
<1>4. TypeOK'
  BY <1>1, <1>2 DEF TypeOK, thread_fork
<1>5. /\ \A d \in Cpu : /\ ~In(x, c_runqueue[d]) /\ ~In(x, migration[d].victims)
                        /\ ~In(x, c_zombies[d]) /\ ~In(x, waking[d]) /\ ~In(x, wc_threads)
                        /\ c_curthread[d] # x
      /\ \A u \in Thread : x \notin newthread[u]
  BY <1>1 DEF IInv, ThreadRight, OnChannel, New, StackRight
<1>6. ListsRight'
  <2>1. \A u, v, t \in Thread : t \in newthread'[u] /\ t \in newthread'[v] => u = v
    BY <1>3, <1>5 DEF IInv, ListsRight
  <2> QED BY <2>1, <1>1 DEF IInv, ListsRight
<1>7. ASSUME NEW t \in Thread PROVE ThreadRight(t)'
  <2>1. ThreadRight(t) /\ t_cpu[t] \in Cpu
    BY <1>1 DEF IInv, TypeOK
  <2>2. CASE t = x
    <3>1. t_state'[t] = "S_READY" /\ t_cpu'[t] = c /\ t \in newthread'[u0]
      BY <2>2, <1>3
    <3> QED BY <3>1, <2>2, <1>1, <1>2, <1>5 DEF ThreadRight, OnChannel, New
  <2>3. CASE t # x
    <3>1. t_state[t] = "S_RUN" => c_curthread[t_cpu[t]] = t /\ ~c_isidle[t_cpu[t]]
      BY <2>1 DEF ThreadRight
    <3>2. \A u \in Thread : t \in newthread'[u] <=> t \in newthread[u]
      BY <2>3, <1>3
    <3> QED BY <3>1, <3>2, <2>1, <2>3, <1>1, <1>3, ThreadKept
  <2> QED BY <2>2, <2>3
<1>8. ASSUME NEW d \in Cpu PROVE StackRight(d)' /\ CpuRight(d)' /\ SleepRight(d)'
  <2>1. c_curthread[d] \in Thread /\ c_curthread[d] # x
        /\ StackRight(d) /\ CpuRight(d) /\ SleepRight(d)
    BY <1>1, <1>5 DEF IInv, TypeOK
  <2>2. StackRight(d)'
    BY <2>1, <1>1, <1>3 DEF StackRight
  <2>3. CpuRight(d)'
    BY <2>1, <1>1 DEF CpuRight
  <2>4. SleepRight(d)'
    BY <2>1, <1>1, SleepKept
  <2> QED BY <2>2, <2>3, <2>4
<1> QED BY <1>4, <1>6, <1>7, <1>8 DEF IInv

(* What thread_make_runnable does to the queues. *)
LEMMA RunnableFacts ==
  ASSUME IInv, NEW c \in Cpu, NEW x \in Thread, thread_make_runnable(c, x),
         NEW g, g = t_cpu[x]
  PROVE  /\ g \in Cpu /\ ipi' \in [Cpu -> BOOLEAN]
         /\ c_runqueue' \in [Cpu -> Seq(Thread)]
         /\ t_state' = [t_state EXCEPT ![x] = "S_READY"]
         /\ \A t \in Thread : t_state'[t] = IF t = x THEN "S_READY" ELSE t_state[t]
         /\ \A d \in Cpu : Len(c_runqueue'[d]) >= Len(c_runqueue[d])
         /\ \A d \in Cpu : ~In(x, c_runqueue[d]) => NoDup(c_runqueue'[d])
         /\ \A d \in Cpu : \A t :
              In(t, c_runqueue'[d]) <=> In(t, c_runqueue[d]) \/ (d = g /\ t = x)
         /\ pc[g] # "sleep"
<1>1. TypeOK /\ ListsRight /\ g \in Cpu /\ c_runqueue[g] \in Seq(Thread)
  BY DEF IInv, TypeOK
<1>2. PICK q : q = Append(c_runqueue[g], x)
  OBVIOUS
<1>3. /\ q \in Seq(Thread) /\ Len(q) = Len(c_runqueue[g]) + 1 /\ Len(c_runqueue[g]) \in Nat
      /\ \A t : In(t, q) <=> In(t, c_runqueue[g]) \/ t = x
      /\ NoDup(c_runqueue[g]) /\ ~In(x, c_runqueue[g]) => NoDup(q)
  BY <1>1, <1>2, InAppend
<1>4. /\ c_runqueue' = [c_runqueue EXCEPT ![g] = q]
      /\ t_state' = [t_state EXCEPT ![x] = "S_READY"]
      /\ pc[g] # "sleep"
  BY <1>2 DEF thread_make_runnable, RunQueueFree, At
<1>5. ipi' \in [Cpu -> BOOLEAN]
  BY <1>1 DEF thread_make_runnable, Unidle, ipi_send, TypeOK
<1>6. \A d \in Cpu : c_runqueue'[d] = IF d = g THEN q ELSE c_runqueue[d]
  BY <1>1, <1>4 DEF TypeOK
<1>7. ASSUME NEW d \in Cpu
      PROVE  /\ Len(c_runqueue'[d]) >= Len(c_runqueue[d])
             /\ ~In(x, c_runqueue[d]) => NoDup(c_runqueue'[d])
             /\ \A t : In(t, c_runqueue'[d]) <=> In(t, c_runqueue[d]) \/ (d = g /\ t = x)
  <2>1. c_runqueue[d] \in Seq(Thread) /\ NoDup(c_runqueue[d])
    BY <1>1 DEF TypeOK, ListsRight
  <2>2. CASE d = g
    BY <2>1, <2>2, <1>3, <1>6
  <2>3. CASE d # g
    BY <2>1, <2>3, <1>6
  <2> QED BY <2>2, <2>3
<1>8. c_runqueue' \in [Cpu -> Seq(Thread)]
  BY <1>1, <1>3, <1>4 DEF TypeOK
<1>9. \A t \in Thread : t_state'[t] = IF t = x THEN "S_READY" ELSE t_state[t]
  BY <1>1, <1>4 DEF TypeOK
<1> QED BY <1>1, <1>4, <1>5, <1>7, <1>8, <1>9

LEMMA ForkEndsInv ==
  ASSUME IInv, NEW c \in Cpu, NEW x \in Thread, ForkEnds(c, x) PROVE IInv'
<1>1. /\ TypeOK /\ thread_make_runnable(c, x)
      /\ UNCHANGED <<c_isidle, c_curthread, c_zombies, t_cpu, wc_threads, waking, pc, migration>>
  BY DEF IInv, ForkEnds, channel
<1>2. PICK u0 \in Thread : u0 = c_curthread[c]
  BY <1>1 DEF TypeOK
<1>3. PICK g \in Cpu : g = t_cpu[x]
  BY <1>1 DEF TypeOK
<1>4. /\ ipi' \in [Cpu -> BOOLEAN] /\ c_runqueue' \in [Cpu -> Seq(Thread)]
      /\ t_state' = [t_state EXCEPT ![x] = "S_READY"]
      /\ \A t \in Thread : t_state'[t] = IF t = x THEN "S_READY" ELSE t_state[t]
      /\ \A d \in Cpu : Len(c_runqueue'[d]) >= Len(c_runqueue[d])
      /\ \A d \in Cpu : ~In(x, c_runqueue[d]) => NoDup(c_runqueue'[d])
      /\ \A d \in Cpu : \A t :
           In(t, c_runqueue'[d]) <=> In(t, c_runqueue[d]) \/ (d = g /\ t = x)
  BY <1>1, <1>3, RunnableFacts
<1>5. /\ x \in newthread[u0] /\ newthread' = [newthread EXCEPT ![u0] = @ \ {x}]
      /\ \A u \in Thread : newthread'[u] = IF u = u0 THEN newthread[u] \ {x} ELSE newthread[u]
      /\ newthread' \in [Thread -> SUBSET Thread]
  BY <1>1, <1>2 DEF ForkEnds, TypeOK
<1>6. TypeOK'
  BY <1>1, <1>4, <1>5 DEF TypeOK
<1>7. /\ t_state[x] = "S_READY" /\ \A u \in Thread : x \in newthread[u] => u = u0
      /\ ~In(x, wc_threads)
      /\ \A d \in Cpu : /\ ~In(x, c_runqueue[d]) /\ ~In(x, migration[d].victims)
                        /\ ~In(x, c_zombies[d]) /\ ~In(x, waking[d])
  <2>1. ThreadRight(x) /\ New(x)
    BY <1>2, <1>5 DEF IInv, New
  <2>2. /\ t_state[x] = "S_READY" /\ ~In(x, c_runqueue[g]) /\ ~In(x, migration[g].victims)
        /\ ~OnChannel(x)
    BY <2>1, <1>3 DEF ThreadRight
  <2>3. \A d \in Cpu : /\ ~In(x, c_runqueue[d]) /\ ~In(x, migration[d].victims)
                       /\ ~In(x, c_zombies[d])
    BY <2>1, <2>2, <1>3 DEF ThreadRight
  <2>4. \A u \in Thread : x \in newthread[u] => u = u0
    BY <1>2, <1>5 DEF IInv, ListsRight
  <2> QED BY <2>2, <2>3, <2>4 DEF OnChannel
<1>8. ListsRight'
  <2>1. \A u, v, t \in Thread : t \in newthread'[u] /\ t \in newthread'[v] => u = v
    BY <1>5 DEF IInv, ListsRight
  <2> QED BY <2>1, <1>1, <1>4, <1>7 DEF IInv, ListsRight
<1>9. ASSUME NEW t \in Thread PROVE ThreadRight(t)'
  <2>1. ThreadRight(t) /\ t_cpu[t] \in Cpu
    BY <1>1 DEF IInv, TypeOK
  <2>2. CASE t = x
    <3>1. /\ t_state'[t] = "S_READY" /\ t_cpu'[t] = g /\ In(t, c_runqueue'[g])
          /\ \A d \in Cpu : In(t, c_runqueue'[d]) => d = g
          /\ \A u \in Thread : t \notin newthread'[u]
      BY <2>2, <1>1, <1>3, <1>4, <1>5, <1>7
    <3> QED BY <3>1, <2>2, <1>1, <1>7 DEF ThreadRight, OnChannel, New
  <2>3. CASE t # x
    <3>1. t_state[t] = "S_RUN" => c_curthread[t_cpu[t]] = t /\ ~c_isidle[t_cpu[t]]
      BY <2>1 DEF ThreadRight
    <3>2. \A u \in Thread : t \in newthread'[u] <=> t \in newthread[u]
      BY <2>3, <1>5
    <3>3. \A d \in Cpu : In(t, c_runqueue'[d]) <=> In(t, c_runqueue[d])
      BY <2>3, <1>4
    <3> QED BY <3>1, <3>2, <3>3, <2>1, <2>3, <1>1, <1>4, ThreadKept
  <2> QED BY <2>2, <2>3
<1>10. ASSUME NEW d \in Cpu PROVE StackRight(d)' /\ CpuRight(d)' /\ SleepRight(d)'
  <2>1. c_curthread[d] \in Thread /\ StackRight(d) /\ CpuRight(d) /\ SleepRight(d)
    BY <1>1 DEF IInv, TypeOK
  <2>2. StackRight(d)'
    BY <2>1, <1>1, <1>4, <1>7 DEF StackRight
  <2>3. CpuRight(d)'
    BY <2>1, <1>1, <1>4, <1>6, CpuKept
  <2>4. SleepRight(d)'
    BY <2>1, <1>1, SleepKept
  <2> QED BY <2>2, <2>3, <2>4
<1> QED BY <1>6, <1>8, <1>9, <1>10 DEF IInv

LEMMA WakeNextInv ==
  ASSUME IInv, NEW c \in Cpu, WakeNext(c) PROVE IInv'
<1>1. /\ TypeOK /\ pc[c] = "wake" /\ CpuRight(c) /\ waking[c] \in Seq(Thread)
      /\ NoDup(waking[c])
      /\ UNCHANGED <<c_isidle, c_curthread, c_zombies, t_cpu, newthread, wc_threads, migration>>
  BY DEF IInv, TypeOK, ListsRight, WakeNext, At
<1>2. waking[c] # <<>>
  BY <1>1 DEF CpuRight
<1>3. PICK x, w : x = Head(waking[c]) /\ w = Tail(waking[c])
  OBVIOUS
<1>4. /\ x \in Thread /\ In(x, waking[c]) /\ w \in Seq(Thread)
      /\ Len(w) = Len(waking[c]) - 1 /\ NoDup(w)
      /\ \A t : In(t, w) <=> In(t, waking[c]) /\ t # x
  BY <1>1, <1>2, <1>3, InTail
<1>5. PICK g \in Cpu : g = t_cpu[x]
  BY <1>1, <1>4 DEF TypeOK
<1>6. /\ ipi' \in [Cpu -> BOOLEAN] /\ c_runqueue' \in [Cpu -> Seq(Thread)]
      /\ t_state' = [t_state EXCEPT ![x] = "S_READY"]
      /\ \A t \in Thread : t_state'[t] = IF t = x THEN "S_READY" ELSE t_state[t]
      /\ \A d \in Cpu : Len(c_runqueue'[d]) >= Len(c_runqueue[d])
      /\ \A d \in Cpu : ~In(x, c_runqueue[d]) => NoDup(c_runqueue'[d])
      /\ \A d \in Cpu : \A t :
           In(t, c_runqueue'[d]) <=> In(t, c_runqueue[d]) \/ (d = g /\ t = x)
      /\ pc[g] # "sleep"
  <2>1. thread_make_runnable(c, x)
    BY <1>3 DEF WakeNext
  <2>2. x \in Thread
    BY <1>4
  <2> QED BY <2>1, <2>2, <1>5, RunnableFacts
<1>7. waking' = [waking EXCEPT ![c] = w]
  BY <1>3 DEF WakeNext
<1>9. \A d \in Cpu : waking'[d] = IF d = c THEN w ELSE waking[d]
  BY <1>1, <1>7 DEF TypeOK
<1>10. /\ pc' \in [Cpu -> Place]
       /\ \A d \in Cpu : d # c => pc'[d] = pc[d]
       /\ w # <<>> => pc'[c] = "wake"
       /\ w = <<>> => pc'[c] = IF c_isidle[c] THEN "awake" ELSE "run"
  <2>1. w = <<>> <=> ~(Len(waking[c]) > 1)
    BY <1>1, <1>2, <1>4
  <2>2. pc \in [Cpu -> Place]
    BY <1>1 DEF TypeOK
  <2>3. CASE w = <<>>
    <3>1. pc' = [pc EXCEPT ![c] = IF c_isidle[c] THEN "awake" ELSE "run"]
      BY <2>1, <2>3 DEF WakeNext, Return, Goto
    <3> QED BY <3>1, <2>2, <2>3 DEF Place
  <2>4. CASE w # <<>>
    BY <2>1, <2>2, <2>4, <1>1 DEF WakeNext
  <2> QED BY <2>3, <2>4
<1>11. TypeOK'
  BY <1>1, <1>4, <1>6, <1>7, <1>10 DEF TypeOK
<1>12. /\ t_state[x] = "S_SLEEP" /\ ~In(x, wc_threads)
       /\ \A d \in Cpu : /\ ~In(x, c_runqueue[d]) /\ ~In(x, migration[d].victims)
                         /\ ~In(x, c_zombies[d])
                         /\ d # c => waking[d] = <<>> /\ ~In(x, waking[d])
       /\ \A u \in Thread : x \notin newthread[u]
  <2>1. ThreadRight(x) /\ SleepRight(g)
    BY <1>4 DEF IInv
  <2>2. OnChannel(x) /\ ~In(x, wc_threads)
    BY <2>1, <1>4 DEF ThreadRight, OnChannel
  <2>3. t_state[x] # "S_RUN"
    BY <2>1, <2>2, <1>5, <1>6 DEF ThreadRight, SleepRight
  <2>4. t_state[x] = "S_SLEEP"
    BY <2>1, <2>2, <2>3 DEF ThreadRight
  <2>5. \A d \in Cpu : d # c => waking[d] = <<>>
    BY <1>2 DEF IInv, ListsRight
  <2> QED BY <2>1, <2>2, <2>4, <2>5, InEmpty DEF ThreadRight, New
<1>13. ListsRight'
  <2>1. \A d \in Cpu : NoDup(waking'[d])
    BY <1>4, <1>9 DEF IInv, ListsRight
  <2>2. \A d \in Cpu : d # c => waking'[d] = <<>>
    BY <1>9, <1>12
  <2> QED BY <2>1, <2>2, <1>1, <1>6, <1>12 DEF IInv, ListsRight
<1>14. ASSUME NEW t \in Thread PROVE ThreadRight(t)'
  <2>1. ThreadRight(t) /\ t_cpu[t] \in Cpu
    BY <1>1 DEF IInv, TypeOK
  <2>w. \A d \in Cpu : In(t, waking'[d]) <=> In(t, waking[d]) /\ ~(d = c /\ t = x)
    BY <1>4, <1>9
  <2>2. CASE t = x
    <3>1. /\ t_state'[t] = "S_READY" /\ t_cpu'[t] = g /\ In(t, c_runqueue'[g])
          /\ \A d \in Cpu : In(t, c_runqueue'[d]) => d = g
          /\ \A d \in Cpu : ~In(t, waking'[d])
      BY <2>2, <2>w, <1>1, <1>5, <1>6, <1>12
    <3> QED BY <3>1, <2>2, <1>1, <1>12 DEF ThreadRight, OnChannel, New
  <2>3. CASE t # x
    <3>1. t_state[t] = "S_RUN" => c_curthread[t_cpu[t]] = t /\ ~c_isidle[t_cpu[t]]
      BY <2>1 DEF ThreadRight
    <3>2. \A d \in Cpu : /\ In(t, c_runqueue'[d]) <=> In(t, c_runqueue[d])
                         /\ In(t, migration'[d].victims) <=> In(t, migration[d].victims)
                         /\ In(t, c_zombies'[d]) <=> In(t, c_zombies[d])
                         /\ In(t, waking'[d]) <=> In(t, waking[d])
      BY <2>3, <2>w, <1>1, <1>6
    <3> QED BY <3>1, <3>2, <2>1, <2>3, <1>1, <1>6, ThreadKept
  <2> QED BY <2>2, <2>3
<1>15. ASSUME NEW d \in Cpu PROVE StackRight(d)' /\ CpuRight(d)' /\ SleepRight(d)'
  <2>1. c_curthread[d] \in Thread /\ StackRight(d) /\ CpuRight(d) /\ SleepRight(d)
    BY <1>1 DEF IInv, TypeOK
  <2>2. StackRight(d)'
    BY <2>1, <1>1, <1>6, <1>12 DEF StackRight
  <2>3. CpuRight(d)'
    <3>1. CASE d # c
      BY <3>1, <2>1, <1>1, <1>6, <1>9, <1>10, <1>11, CpuKept
    <3>2. CASE d = c
      <4>1. migration[c] = NoMigration
        BY <1>1 DEF CpuRight
      <4> QED BY <3>2, <4>1, <1>1, <1>9, <1>10 DEF CpuRight
    <3> QED BY <3>1, <3>2
  <2>4. pc'[d] = "sleep" <=> pc[d] = "sleep"
    BY <1>1, <1>10
  <2>5. CASE c_curthread[d] = x
    <3>1. c_isidle[d]
      BY <2>1, <2>5, <1>12 DEF StackRight
    <3> QED BY <3>1, <2>1, <2>2, <2>3, <2>4, <1>1 DEF SleepRight
  <2>6. CASE c_curthread[d] # x
    <3>1. \A e \in Cpu : In(c_curthread[d], waking'[e]) <=> In(c_curthread[d], waking[e])
      BY <2>6, <1>4, <1>9
    <3> QED BY <3>1, <2>1, <2>2, <2>3, <2>4, <1>1, SleepKept
  <2> QED BY <2>5, <2>6
<1> QED BY <1>11, <1>13, <1>14, <1>15 DEF IInv

LEMMA WakeupInv ==
  ASSUME IInv, NEW c \in Cpu, NEW n \in 0..Len(wc_threads), Wakeup(c, n) PROVE IInv'
<1>1. /\ TypeOK /\ pc[c] \in {"run", "idle"} /\ CpuRight(c)
      /\ wc_threads \in Seq(Thread) /\ NoDup(wc_threads)
      /\ UNCHANGED <<c_isidle, c_curthread, c_zombies, ipi, c_runqueue, t_state, t_cpu,
                     newthread, migration>>
      /\ \A d \in Cpu : waking[d] = <<>>
  BY DEF IInv, TypeOK, ListsRight, Wakeup, At, ChannelFree, threads
<1>2. PICK a, b : a = SubSeq(wc_threads, 1, n) /\ b = SubSeq(wc_threads, n + 1, Len(wc_threads))
  OBVIOUS
<1>3. /\ a \in Seq(Thread) /\ b \in Seq(Thread) /\ Len(a) = n
      /\ NoDup(a) /\ NoDup(b)
      /\ \A t : In(t, wc_threads) <=> In(t, a) \/ In(t, b)
      /\ \A t : ~(In(t, a) /\ In(t, b))
  BY <1>1, <1>2, InSplit
<1>4. /\ wc_threads' = b /\ waking' = [waking EXCEPT ![c] = a]
      /\ \A d \in Cpu : waking'[d] = IF d = c THEN a ELSE <<>>
  BY <1>1, <1>2 DEF Wakeup, TypeOK
<1>5. /\ pc' \in [Cpu -> Place]
      /\ \A d \in Cpu : d # c => pc'[d] = pc[d]
      /\ a # <<>> => pc'[c] = "wake"
      /\ a = <<>> => pc'[c] = IF c_isidle[c] THEN "awake" ELSE "run"
  <2>1. a = <<>> <=> n = 0
    BY <1>3
  <2>2. pc \in [Cpu -> Place]
    BY <1>1 DEF TypeOK
  <2> QED BY <2>1, <2>2 DEF Wakeup, Return, Goto, Place
<1>6. TypeOK'
  BY <1>1, <1>3, <1>4, <1>5 DEF TypeOK
<1>7. ListsRight'
  <2>1. NoDup(<<>>)
    BY DEF NoDup
  <2> QED BY <2>1, <1>1, <1>3, <1>4 DEF IInv, ListsRight
<1>8. ASSUME NEW t \in Thread PROVE ThreadRight(t)'
  <2>1. ThreadRight(t) /\ t_cpu[t] \in Cpu
    BY <1>1 DEF IInv, TypeOK
  <2>2. \A d \in Cpu : In(t, waking'[d]) <=> d = c /\ In(t, a)
    BY <1>4, InEmpty
  <2>3. \A d \in Cpu : ~In(t, waking[d])
    BY <1>1, InEmpty
  <2> QED BY <2>1, <2>2, <2>3, <1>1, <1>3, <1>4 DEF ThreadRight, OnChannel, New
<1>9. ASSUME NEW d \in Cpu PROVE StackRight(d)' /\ CpuRight(d)' /\ SleepRight(d)'
  <2>s. SleepRight(d)'
    <3>1. SleepRight(d) /\ (pc'[d] = "sleep" <=> pc[d] = "sleep")
      BY <1>1, <1>5 DEF IInv
    <3>2. PICK x : x = c_curthread[d]
      OBVIOUS
    <3>3. (\E e \in Cpu : In(x, waking'[e])) <=> In(x, a)
      BY <1>4, InEmpty
    <3>4. \A e \in Cpu : ~In(x, waking[e])
      BY <1>1, InEmpty
    <3> QED BY <3>1, <3>2, <3>3, <3>4, <1>1, <1>3, <1>4, SleepKept
  <2>1. StackRight(d) /\ CpuRight(d) /\ c_runqueue[d] \in Seq(Thread)
    BY <1>1 DEF IInv, TypeOK
  <2>l. Len(c_runqueue[d]) >= Len(c_runqueue[d])
    BY <2>1
  <2>2. StackRight(d)'
    BY <2>1, <1>1 DEF StackRight
  <2>3. CASE d # c
    <3>1. pc'[d] = pc[d] /\ waking'[d] = waking[d]
      BY <2>3, <1>1, <1>4, <1>5
    <3> QED BY <2>1, <2>s, <2>2, <2>l, <3>1, <1>1, <1>6, CpuKept
  <2>4. CASE d = c
    <3>1. migration[c] = NoMigration /\ waking'[c] = a
      BY <1>1, <1>4 DEF CpuRight
    <3>2. a = <<>> => (pc'[c] = "awake" <=> c_isidle[c]) /\ pc'[c] \in {"run", "awake"}
      BY <1>1, <1>5 DEF TypeOK
    <3> QED BY <2>2, <2>s, <2>4, <3>1, <3>2, <1>1, <1>5 DEF CpuRight
  <2> QED BY <2>2, <2>3, <2>4
<1> QED BY <1>6, <1>7, <1>8, <1>9 DEF IInv

(* What thread_switch does whatever list it puts the thread on. *)
Left(c, x, s) ==
  /\ TypeOK' /\ x \in Thread /\ t_cpu[x] = c
  /\ \A d \in Cpu : StackRight(d)' /\ CpuRight(d)' /\ SleepRight(d)'
  /\ \A t \in Thread : t_state'[t] = IF t = x THEN s ELSE t_state[t]
  /\ UNCHANGED <<c_curthread, t_cpu, newthread, wc_threads, waking, migration>>
  /\ pc[c] = "sleep" <=> In(x, wc_threads) \/ \E d \in Cpu : In(x, waking[d])
  /\ \A d \in Cpu : /\ ~In(x, c_runqueue[d]) /\ ~In(x, migration[d].victims)
                    /\ ~In(x, c_zombies[d])
                    /\ In(x, waking[d]) => ~In(x, wc_threads)
  /\ \A u \in Thread : x \notin newthread[u]
  /\ \A t \in Thread \ {x} : t_state[t] = "S_RUN" =>
       c_curthread'[t_cpu[t]] = t /\ ~c_isidle'[t_cpu[t]]

LEMMA LeaveFacts ==
  ASSUME IInv, NEW c \in Cpu, pc[c] \in {"run", "yield", "sleep"}, ~c_isidle[c],
         NEW s \in {"S_SLEEP", "S_ZOMBIE", "S_READY"}, Leave(c, s),
         NEW x, x = c_curthread[c],
         c_runqueue' \in [Cpu -> Seq(Thread)], c_zombies' \in [Cpu -> Seq(Thread)],
         UNCHANGED wc_threads,
         \A d \in Cpu : Len(c_runqueue'[d]) >= Len(c_runqueue[d])
  PROVE  Left(c, x, s)
<1>1. /\ TypeOK /\ StackRight(c) /\ x \in Thread /\ t_cpu[x] = c /\ t_state[x] = "S_RUN"
      /\ UNCHANGED <<c_curthread, ipi, t_cpu, newthread, waking, migration>>
  BY DEF IInv, TypeOK, StackRight, Leave
<1>2. /\ \A t \in Thread : t_state'[t] = IF t = x THEN s ELSE t_state[t]
      /\ \A d \in Cpu : c_isidle'[d] = IF d = c THEN TRUE ELSE c_isidle[d]
      /\ \A d \in Cpu : pc'[d] = IF d = c THEN "switch" ELSE pc[d]
  BY <1>1 DEF Leave, Goto, TypeOK
<1>3. TypeOK'
  BY <1>1 DEF TypeOK, Leave, Goto, Place
<1>4. /\ \A d \in Cpu : /\ ~In(x, c_runqueue[d]) /\ ~In(x, migration[d].victims)
                        /\ ~In(x, c_zombies[d])
                        /\ In(x, waking[d]) => ~In(x, wc_threads)
      /\ \A u \in Thread : x \notin newthread[u]
  <2>1. ThreadRight(x)
    BY <1>1 DEF IInv
  <2> QED BY <2>1, <1>1 DEF ThreadRight, New
<1>s. pc[c] = "sleep" <=> In(x, wc_threads) \/ \E d \in Cpu : In(x, waking[d])
  BY DEF IInv, SleepRight, OnChannel
<1>5. ASSUME NEW t \in Thread \ {x}, t_state[t] = "S_RUN"
      PROVE  c_curthread'[t_cpu[t]] = t /\ ~c_isidle'[t_cpu[t]]
  <2>1. t_cpu[t] \in Cpu /\ ThreadRight(t)
    BY <1>1 DEF IInv, TypeOK
  <2>2. c_curthread[t_cpu[t]] = t /\ ~c_isidle[t_cpu[t]] /\ t_cpu[t] # c
    BY <2>1, <1>5 DEF ThreadRight
  <2> QED BY <2>1, <2>2, <1>1, <1>2
<1>6. ASSUME NEW d \in Cpu PROVE StackRight(d)' /\ CpuRight(d)' /\ SleepRight(d)'
  <2>1. StackRight(d) /\ CpuRight(d) /\ SleepRight(d) /\ c_curthread[d] \in Thread
    BY <1>1 DEF IInv, TypeOK
  <2>2. CASE d # c
    <3>1. c_curthread[d] # x
      BY <2>1, <2>2, <1>1 DEF StackRight
    <3>2. StackRight(d)'
      BY <2>1, <2>2, <3>1, <1>1, <1>2 DEF StackRight
    <3>3. CpuRight(d)'
      BY <2>1, <2>2, <1>1, <1>2, <1>3, CpuKept
    <3>4. SleepRight(d)'
      BY <2>1, <2>2, <1>1, <1>2, SleepKept
    <3> QED BY <3>2, <3>3, <3>4
  <2>3. CASE d = c
    <3>1. StackRight(d)'
      BY <2>3, <1>1, <1>2 DEF StackRight
    <3>2. migration[c] = NoMigration /\ waking[c] = <<>>
      BY <2>1, <2>3 DEF CpuRight
    <3>3. CpuRight(d)' /\ SleepRight(d)'
      BY <2>3, <3>2, <1>1, <1>2 DEF CpuRight, SleepRight
    <3> QED BY <3>1, <3>3
  <2> QED BY <2>2, <2>3
<1> QED BY <1>1, <1>2, <1>3, <1>4, <1>s, <1>5, <1>6 DEF Left

LEMMA SleepInv ==
  ASSUME IInv, NEW c \in Cpu, wchan_sleep(c) PROVE IInv'
<1>1. /\ TypeOK /\ pc[c] = "run" /\ ~c_isidle[c] /\ wc_threads \in Seq(Thread)
      /\ UNCHANGED <<c_isidle, c_curthread, c_zombies, ipi, c_runqueue, t_state, t_cpu,
                     newthread, waking, migration>>
      /\ NoDup(wc_threads) /\ \A d \in Cpu : waking[d] = <<>> /\ ~In(c_curthread[c], waking[d])
  <2>1. TypeOK /\ CpuRight(c) /\ ListsRight
    BY DEF IInv
  <2>2. pc[c] = "run" /\ \A d \in Cpu : waking[d] = <<>>
    BY DEF wchan_sleep, At, ChannelFree
  <2>3. ~c_isidle[c]
    BY <2>1, <2>2 DEF CpuRight
  <2>4. \A d \in Cpu : ~In(c_curthread[c], waking[d])
    BY <2>2, InEmpty
  <2>5. UNCHANGED <<c_isidle, c_curthread, c_zombies, ipi, c_runqueue, t_state, t_cpu,
                    newthread, waking, migration>>
    BY DEF wchan_sleep, threads
  <2> QED BY <2>1, <2>2, <2>3, <2>4, <2>5 DEF TypeOK, ListsRight
<1>2. PICK x \in Thread : x = c_curthread[c]
  BY <1>1 DEF TypeOK
<1>3. ~In(x, wc_threads) /\ t_state[x] = "S_RUN" /\ t_cpu[x] = c
  BY <1>1, <1>2 DEF IInv, StackRight, SleepRight, OnChannel
<1>4. /\ wc_threads' \in Seq(Thread) /\ NoDup(wc_threads')
      /\ \A t : In(t, wc_threads') <=> In(t, wc_threads) \/ t = x
  BY <1>1, <1>2, <1>3, InAppend DEF wchan_sleep
<1>5. \A d \in Cpu : pc'[d] = IF d = c THEN "sleep" ELSE pc[d]
  BY <1>1 DEF wchan_sleep, Goto, TypeOK
<1>6. TypeOK'
  BY <1>1, <1>4 DEF TypeOK, wchan_sleep, Goto, Place
<1>7. ListsRight'
  BY <1>1, <1>4 DEF IInv, ListsRight
<1>8. ASSUME NEW t \in Thread PROVE ThreadRight(t)'
  <2>1. ThreadRight(t) /\ t_cpu[t] \in Cpu
    BY <1>1 DEF IInv, TypeOK
  <2>2. CASE t = x
    BY <2>1, <2>2, <1>1, <1>2, <1>3, <1>4 DEF ThreadRight, OnChannel, New
  <2>3. CASE t # x
    <3>1. t_state[t] = "S_RUN" => c_curthread[t_cpu[t]] = t /\ ~c_isidle[t_cpu[t]]
      BY <2>1 DEF ThreadRight
    <3> QED BY <3>1, <2>1, <2>3, <1>1, <1>4, ThreadKept
  <2> QED BY <2>2, <2>3
<1>9. ASSUME NEW d \in Cpu PROVE StackRight(d)' /\ CpuRight(d)' /\ SleepRight(d)'
  <2>1. StackRight(d) /\ CpuRight(d) /\ SleepRight(d) /\ c_runqueue[d] \in Seq(Thread)
    BY <1>1 DEF IInv, TypeOK
  <2>2. StackRight(d)'
    BY <2>1, <1>1 DEF StackRight
  <2>3. CASE d # c
    <3>1. Len(c_runqueue'[d]) >= Len(c_runqueue[d])
      BY <2>1, <1>1
    <3>2. CpuRight(d)'
      BY <2>1, <2>3, <3>1, <1>1, <1>5, <1>6, CpuKept
    <3>3. c_curthread[d] # x
      BY <2>1, <2>3, <1>3 DEF StackRight
    <3>4. SleepRight(d)'
      BY <2>1, <2>3, <3>3, <1>1, <1>4, <1>5, SleepKept
    <3> QED BY <2>2, <3>2, <3>4
  <2>4. CASE d = c
    <3>1. migration[c] = NoMigration /\ waking[c] = <<>>
      BY <2>1, <2>4, <1>1 DEF CpuRight
    <3>2. CpuRight(d)'
      BY <2>4, <3>1, <1>1, <1>5 DEF CpuRight
    <3>3. SleepRight(d)'
      BY <2>4, <1>1, <1>2, <1>4, <1>5 DEF SleepRight, OnChannel
    <3> QED BY <2>2, <3>2, <3>3
  <2> QED BY <2>3, <2>4
<1> QED BY <1>6, <1>7, <1>8, <1>9 DEF IInv

LEMMA FallAsleepInv ==
  ASSUME IInv, NEW c \in Cpu, FallAsleep(c) PROVE IInv'
<1>1. /\ TypeOK /\ pc[c] = "sleep" /\ ~c_isidle[c]
      /\ Leave(c, "S_SLEEP") /\ UNCHANGED <<c_runqueue, c_zombies, wc_threads>>
  BY DEF IInv, SleepRight, FallAsleep, At
<1>2. PICK x \in Thread : x = c_curthread[c]
  BY <1>1 DEF TypeOK
<1>3. \A d \in Cpu : Len(c_runqueue'[d]) >= Len(c_runqueue[d])
  <2> SUFFICES ASSUME NEW d \in Cpu PROVE Len(c_runqueue'[d]) >= Len(c_runqueue[d])
    OBVIOUS
  <2>1. c_runqueue[d] \in Seq(Thread)
    BY <1>1 DEF TypeOK
  <2> QED BY <2>1, <1>1
<1>4. c_runqueue' \in [Cpu -> Seq(Thread)] /\ c_zombies' \in [Cpu -> Seq(Thread)]
  BY <1>1 DEF TypeOK
<1>5. Left(c, x, "S_SLEEP")
  BY <1>1, <1>2, <1>3, <1>4, LeaveFacts
<1>6. ListsRight'
  BY <1>1, <1>5 DEF IInv, ListsRight, Left
<1>7. ASSUME NEW t \in Thread PROVE ThreadRight(t)'
  <2>1. ThreadRight(t)
    BY DEF IInv
  <2>2. CASE t = x
    BY <2>2, <1>1, <1>5 DEF ThreadRight, OnChannel, New, Left
  <2>3. CASE t # x
    BY <2>1, <2>3, <1>1, <1>5, ThreadKept DEF Left
  <2> QED BY <2>2, <2>3
<1> QED BY <1>5, <1>6, <1>7 DEF IInv, Left

LEMMA ExitInv ==
  ASSUME IInv, NEW c \in Cpu, thread_exit(c) PROVE IInv'
<1>1. /\ TypeOK /\ pc[c] = "run" /\ ~c_isidle[c] /\ c_zombies[c] \in Seq(Thread)
      /\ Leave(c, "S_ZOMBIE") /\ UNCHANGED <<c_runqueue, wc_threads>>
      /\ c_curthread[c] \in Thread /\ NoDup(c_zombies[c]) /\ wc_threads \in Seq(Thread)
  BY DEF IInv, TypeOK, ListsRight, CpuRight, thread_exit, At
<1>2. PICK x \in Thread : x = c_curthread[c]
  BY <1>1
<1>z. PICK z : z = Append(c_zombies[c], x)
  OBVIOUS
<1>3. /\ z \in Seq(Thread)
      /\ \A t : In(t, z) <=> In(t, c_zombies[c]) \/ t = x
      /\ ~In(x, c_zombies[c]) => NoDup(z)
  BY <1>1, <1>z, InAppend
<1>d. /\ c_zombies' \in [Cpu -> Seq(Thread)]
      /\ \A d \in Cpu : c_zombies'[d] = IF d = c THEN z ELSE c_zombies[d]
  BY <1>1, <1>2, <1>z, <1>3 DEF thread_exit, TypeOK
<1>4. \A d \in Cpu : Len(c_runqueue'[d]) >= Len(c_runqueue[d])
  <2> SUFFICES ASSUME NEW d \in Cpu PROVE Len(c_runqueue'[d]) >= Len(c_runqueue[d])
    OBVIOUS
  <2>1. c_runqueue[d] \in Seq(Thread)
    BY <1>1 DEF TypeOK
  <2> QED BY <2>1, <1>1
<1>t. c_runqueue' \in [Cpu -> Seq(Thread)] /\ wc_threads' \in Seq(Thread)
  BY <1>1 DEF TypeOK
<1>5. Left(c, x, "S_ZOMBIE")
  BY <1>1, <1>2, <1>d, <1>4, <1>t, LeaveFacts
<1>6. ListsRight'
  BY <1>1, <1>3, <1>d, <1>5 DEF IInv, ListsRight, Left
<1>7. ASSUME NEW t \in Thread PROVE ThreadRight(t)'
  <2>1. ThreadRight(t)
    BY DEF IInv
  <2>r. ASSUME NEW d \in Cpu
        PROVE  In(t, c_zombies'[d]) <=> In(t, c_zombies[d]) \/ (d = c /\ t = x)
    <3>1. CASE d = c
      BY <3>1, <1>3, <1>d
    <3>2. CASE d # c
      BY <3>2, <1>d
    <3> QED BY <3>1, <3>2
  <2>2. CASE t = x
    BY <2>2, <2>r, <1>1, <1>5 DEF ThreadRight, OnChannel, New, Left
  <2>3. CASE t # x
    BY <2>1, <2>r, <2>3, <1>1, <1>5, ThreadKept DEF Left
  <2> QED BY <2>2, <2>3
<1> QED BY <1>5, <1>6, <1>7 DEF IInv, Left

LEMMA YieldInv ==
  ASSUME IInv, NEW c \in Cpu, thread_yield(c) PROVE IInv'
<1>1. /\ TypeOK /\ pc[c] \in {"run", "yield"} /\ ~c_isidle[c]
      /\ c_runqueue[c] \in Seq(Thread)
      /\ Leave(c, "S_READY") /\ UNCHANGED <<c_zombies, wc_threads>>
      /\ c_curthread[c] \in Thread /\ NoDup(c_runqueue[c]) /\ wc_threads \in Seq(Thread)
  BY DEF IInv, TypeOK, ListsRight, thread_yield, At
<1>2. PICK x \in Thread : x = c_curthread[c]
  BY <1>1
<1>z. PICK q : q = Append(c_runqueue[c], x)
  OBVIOUS
<1>3. /\ q \in Seq(Thread) /\ Len(q) = Len(c_runqueue[c]) + 1
      /\ \A t : In(t, q) <=> In(t, c_runqueue[c]) \/ t = x
      /\ ~In(x, c_runqueue[c]) => NoDup(q)
  BY <1>1, <1>z, InAppend
<1>d. /\ c_runqueue' \in [Cpu -> Seq(Thread)]
      /\ \A d \in Cpu : c_runqueue'[d] = IF d = c THEN q ELSE c_runqueue[d]
  BY <1>1, <1>2, <1>z, <1>3 DEF thread_yield, TypeOK
<1>4. \A d \in Cpu : Len(c_runqueue'[d]) >= Len(c_runqueue[d])
  <2> SUFFICES ASSUME NEW d \in Cpu PROVE Len(c_runqueue'[d]) >= Len(c_runqueue[d])
    OBVIOUS
  <2>1. c_runqueue[d] \in Seq(Thread)
    BY <1>1 DEF TypeOK
  <2> QED BY <2>1, <1>3, <1>d
<1>t. c_zombies' \in [Cpu -> Seq(Thread)] /\ wc_threads' \in Seq(Thread)
  BY <1>1 DEF TypeOK
<1>5. Left(c, x, "S_READY")
  BY <1>1, <1>2, <1>d, <1>4, <1>t, LeaveFacts
<1>6. ListsRight'
  BY <1>1, <1>3, <1>d, <1>5 DEF IInv, ListsRight, Left
<1>7. ASSUME NEW t \in Thread PROVE ThreadRight(t)'
  <2>1. ThreadRight(t)
    BY DEF IInv
  <2>r. ASSUME NEW d \in Cpu
        PROVE  In(t, c_runqueue'[d]) <=> In(t, c_runqueue[d]) \/ (d = c /\ t = x)
    <3>1. CASE d = c
      BY <3>1, <1>3, <1>d
    <3>2. CASE d # c
      BY <3>2, <1>d
    <3> QED BY <3>1, <3>2
  <2>2. CASE t = x
    BY <2>2, <2>r, <1>1, <1>5 DEF ThreadRight, OnChannel, New, Left
  <2>3. CASE t # x
    BY <2>1, <2>r, <2>3, <1>1, <1>5, ThreadKept DEF Left
  <2> QED BY <2>2, <2>3
<1> QED BY <1>5, <1>6, <1>7 DEF IInv, Left

LEMMA ChooseInv ==
  ASSUME IInv, NEW c \in Cpu, Choose(c) PROVE IInv'
<1>1. /\ TypeOK /\ c_isidle[c] /\ c_runqueue[c] \in Seq(Thread) /\ c_runqueue[c] # <<>>
      /\ NoDup(c_runqueue[c]) /\ waking[c] = <<>> /\ migration[c] = NoMigration
      /\ UNCHANGED <<c_zombies, ipi, t_cpu, newthread, wc_threads, waking, migration>>
  <2>1. TypeOK /\ CpuRight(c) /\ ListsRight
    BY DEF IInv
  <2>2. pc[c] \in {"switch", "look", "awake"}
    BY DEF Choose, Choosing, At
  <2> QED BY <2>1, <2>2 DEF TypeOK, CpuRight, ListsRight, Choose, channel
<1>2. PICK x, q : x = Head(c_runqueue[c]) /\ q = Tail(c_runqueue[c])
  OBVIOUS
<1>3. /\ x \in Thread /\ In(x, c_runqueue[c]) /\ q \in Seq(Thread) /\ NoDup(q)
      /\ \A t : In(t, q) <=> In(t, c_runqueue[c]) /\ t # x
  BY <1>1, <1>2, InTail
<1>4. /\ \A d \in Cpu : c_runqueue'[d] = IF d = c THEN q ELSE c_runqueue[d]
      /\ \A d \in Cpu : c_isidle'[d] = IF d = c THEN FALSE ELSE c_isidle[d]
      /\ \A d \in Cpu : c_curthread'[d] = IF d = c THEN x ELSE c_curthread[d]
      /\ \A d \in Cpu : pc'[d] = IF d = c THEN "exorcise" ELSE pc[d]
      /\ \A t \in Thread : t_state'[t] = IF t = x THEN "S_RUN" ELSE t_state[t]
  BY <1>1, <1>2, <1>3 DEF TypeOK, Choose, Goto
<1>5. TypeOK'
  BY <1>1, <1>2, <1>3 DEF TypeOK, Choose, Goto, Place
<1>6. /\ t_state[x] = "S_READY" /\ t_cpu[x] = c
      /\ ~In(x, wc_threads) /\ \A u \in Thread : x \notin newthread[u]
      /\ \A d \in Cpu : /\ d # c => ~In(x, c_runqueue[d])
                        /\ ~In(x, migration[d].victims)
                        /\ ~In(x, c_zombies[d]) /\ ~In(x, waking[d])
  <2>1. ThreadRight(x)
    BY <1>3 DEF IInv
  <2>2. t_state[x] = "S_READY" /\ t_cpu[x] = c
    BY <2>1, <1>3 DEF ThreadRight, OnChannel, New
  <2> QED BY <2>1, <2>2, <1>3 DEF ThreadRight, OnChannel, New
<1>7. ListsRight'
  BY <1>1, <1>3, <1>4 DEF IInv, ListsRight
<1>8. ASSUME NEW t \in Thread PROVE ThreadRight(t)'
  <2>1. ThreadRight(t) /\ t_cpu[t] \in Cpu
    BY <1>1 DEF IInv, TypeOK
  <2>r. ASSUME NEW d \in Cpu
        PROVE  In(t, c_runqueue'[d]) <=> In(t, c_runqueue[d]) /\ ~(d = c /\ t = x)
    <3>1. CASE d = c
      BY <3>1, <1>3, <1>4
    <3>2. CASE d # c
      BY <3>2, <1>4
    <3> QED BY <3>1, <3>2
  <2>2. CASE t = x
    <3>1. /\ t_state'[t] = "S_RUN" /\ t_cpu'[t] = c /\ c_curthread'[c] = t /\ ~c_isidle'[c]
      BY <2>2, <1>1, <1>3, <1>4, <1>6
    <3>2. \A d \in Cpu : /\ ~In(t, c_runqueue'[d]) /\ ~In(t, migration'[d].victims)
                         /\ ~In(t, c_zombies'[d]) /\ ~In(t, waking'[d])
      BY <2>2, <2>r, <1>1, <1>6
    <3> QED BY <3>1, <3>2, <2>2, <1>1, <1>6 DEF ThreadRight, OnChannel, New
  <2>3. CASE t # x
    <3>1. t_state[t] = "S_RUN" => c_curthread'[t_cpu[t]] = t /\ ~c_isidle'[t_cpu[t]]
      <4>1. SUFFICES ASSUME t_state[t] = "S_RUN"
                     PROVE  c_curthread'[t_cpu[t]] = t /\ ~c_isidle'[t_cpu[t]]
        OBVIOUS
      <4>2. c_curthread[t_cpu[t]] = t /\ ~c_isidle[t_cpu[t]]
        BY <4>1, <2>1 DEF ThreadRight, OnChannel, New
      <4>3. t_cpu[t] # c
        BY <4>2, <1>1
      <4> QED BY <4>2, <4>3, <2>1, <1>4
    <3> QED BY <3>1, <2>1, <2>r, <2>3, <1>1, <1>4, ThreadKept
  <2> QED BY <2>2, <2>3
<1>9. ASSUME NEW d \in Cpu PROVE StackRight(d)' /\ CpuRight(d)' /\ SleepRight(d)'
  <2>1. StackRight(d) /\ CpuRight(d) /\ SleepRight(d) /\ c_curthread[d] \in Thread
        /\ c_runqueue[d] \in Seq(Thread)
    BY <1>1 DEF IInv, TypeOK
  <2>2. CASE d # c
    <3>1. c_curthread[d] # x
      BY <2>1, <2>2, <1>6 DEF StackRight
    <3>2. StackRight(d)'
      <4>1. /\ c_curthread'[d] = c_curthread[d] /\ c_isidle'[d] = c_isidle[d]
            /\ t_state'[c_curthread[d]] = t_state[c_curthread[d]]
            /\ t_cpu'[c_curthread[d]] = t_cpu[c_curthread[d]]
        BY <2>1, <2>2, <3>1, <1>1, <1>4
      <4> QED BY <4>1, <2>1 DEF StackRight
    <3>3. Len(c_runqueue'[d]) >= Len(c_runqueue[d])
      BY <2>1, <2>2, <1>4
    <3>4. CpuRight(d)'
      BY <2>1, <2>2, <3>3, <1>1, <1>4, <1>5, CpuKept
    <3>5. SleepRight(d)'
      BY <2>1, <2>2, <1>1, <1>4, SleepKept
    <3> QED BY <3>2, <3>4, <3>5
  <2>3. CASE d = c
    <3>1. StackRight(d)'
      BY <2>3, <1>1, <1>3, <1>4, <1>6 DEF StackRight
    <3>2. CpuRight(d)'
      BY <2>3, <1>1, <1>4 DEF CpuRight
    <3>3. SleepRight(d)'
      BY <2>3, <1>1, <1>4, <1>6 DEF SleepRight, OnChannel
    <3> QED BY <3>1, <3>2, <3>3
  <2> QED BY <2>2, <2>3
<1> QED BY <1>5, <1>7, <1>8, <1>9 DEF IInv

LEMMA ExorciseInv ==
  ASSUME IInv, NEW c \in Cpu, exorcise(c) PROVE IInv'
<1>1. /\ TypeOK /\ CpuRight(c) /\ pc[c] = "exorcise" /\ ~c_isidle[c]
      /\ UNCHANGED <<c_isidle, c_curthread, c_runqueue, ipi, t_cpu, newthread, wc_threads,
                     waking, migration>>
  BY DEF IInv, CpuRight, exorcise, At, channel
<1>2. /\ \A d \in Cpu : c_zombies'[d] = IF d = c THEN <<>> ELSE c_zombies[d]
      /\ \A d \in Cpu : pc'[d] = IF d = c THEN "run" ELSE pc[d]
      /\ \A t \in Thread :
           t_state'[t] = IF In(t, c_zombies[c]) THEN "S_NONE" ELSE t_state[t]
  BY <1>1 DEF TypeOK, exorcise, Goto, In
<1>3. TypeOK'
  <2>1. t_state' \in [Thread -> {"S_NONE", "S_RUN", "S_READY", "S_SLEEP", "S_ZOMBIE"}]
    BY <1>1 DEF TypeOK, exorcise
  <2>e. "run" \in Place /\ <<>> \in Seq(Thread)
    BY DEF Place
  <2>2. pc' \in [Cpu -> Place] /\ c_zombies' \in [Cpu -> Seq(Thread)]
    BY <2>e, <1>1 DEF TypeOK, exorcise, Goto
  <2> QED BY <2>1, <2>2, <1>1 DEF TypeOK
<1>4. ListsRight'
  <2>1. NoDup(<<>>)
    BY DEF NoDup
  <2> QED BY <2>1, <1>1, <1>2 DEF IInv, ListsRight
<1>5. ASSUME NEW t \in Thread PROVE ThreadRight(t)'
  <2>1. ThreadRight(t) /\ t_cpu[t] \in Cpu
    BY <1>1 DEF IInv, TypeOK
  <2>r. \A d \in Cpu : In(t, c_zombies'[d]) <=> In(t, c_zombies[d]) /\ d # c
    BY <1>2, InEmpty
  <2>2. CASE In(t, c_zombies[c])
    <3>1. t_state[t] = "S_ZOMBIE" /\ t_cpu[t] = c /\ t_state'[t] = "S_NONE"
      BY <2>1, <2>2, <1>2 DEF ThreadRight, OnChannel, New
    <3>2. /\ ~In(t, wc_threads')
          /\ \A d \in Cpu : /\ ~In(t, c_runqueue'[d]) /\ ~In(t, migration'[d].victims)
                            /\ ~In(t, c_zombies'[d]) /\ ~In(t, waking'[d])
          /\ \A u \in Thread : t \notin newthread'[u]
      BY <3>1, <2>1, <2>r, <1>1 DEF ThreadRight, OnChannel, New
    <3> QED BY <3>1, <3>2 DEF ThreadRight, OnChannel, New
  <2>3. CASE ~In(t, c_zombies[c])
    <3>1. t_state'[t] = t_state[t]
      BY <2>3, <1>2
    <3>2. t_state[t] = "S_RUN" => c_curthread'[t_cpu[t]] = t /\ ~c_isidle'[t_cpu[t]]
      BY <2>1, <1>1 DEF ThreadRight, OnChannel, New
    <3>3. \A d \in Cpu : In(t, c_zombies'[d]) <=> In(t, c_zombies[d])
      BY <2>r, <2>3
    <3> QED BY <3>1, <3>2, <3>3, <2>1, <1>1, ThreadKept
  <2> QED BY <2>2, <2>3
<1>6. ASSUME NEW d \in Cpu PROVE StackRight(d)' /\ CpuRight(d)' /\ SleepRight(d)'
  <2>1. /\ StackRight(d) /\ CpuRight(d) /\ SleepRight(d) /\ c_curthread[d] \in Thread
        /\ c_runqueue[d] \in Seq(Thread) /\ ThreadRight(c_curthread[d])
    BY <1>1 DEF IInv, TypeOK
  <2>2. ~In(c_curthread[d], c_zombies[c])
    <3> SUFFICES ASSUME In(c_curthread[d], c_zombies[c]) PROVE FALSE
      OBVIOUS
    <3>1. t_state[c_curthread[d]] = "S_ZOMBIE" /\ t_cpu[c_curthread[d]] = c
      BY <2>1 DEF ThreadRight, OnChannel, New
    <3>2. d = c
      BY <3>1, <2>1 DEF StackRight
    <3> QED BY <3>1, <3>2, <2>1, <1>1 DEF StackRight
  <2>3. StackRight(d)'
    BY <2>1, <2>2, <1>1, <1>2 DEF StackRight
  <2>s. SleepRight(d)'
    BY <2>1, <1>1, <1>2, SleepKept
  <2>4. CASE d # c
    <3>1. Len(c_runqueue'[d]) >= Len(c_runqueue[d]) /\ pc'[d] = pc[d]
      BY <2>1, <2>4, <1>1, <1>2
    <3> QED BY <2>1, <2>3, <2>s, <3>1, <1>1, <1>3, CpuKept
  <2>5. CASE d = c
    <3>1. migration[c] = NoMigration /\ waking[c] = <<>>
      BY <1>1 DEF CpuRight
    <3> QED BY <2>3, <2>s, <2>5, <3>1, <1>1, <1>2 DEF CpuRight
  <2> QED BY <2>4, <2>5
<1> QED BY <1>3, <1>4, <1>5, <1>6 DEF IInv

(* Some of a cpu's own threads move between its queue and its victims. *)
LEMMA OwnListsInv ==
  ASSUME IInv, TypeOK', NEW c \in Cpu,
         UNCHANGED <<c_isidle, c_curthread, c_zombies, t_state, t_cpu, newthread, wc_threads,
                     waking>>,
         NEW q, NEW v,
         \A d \in Cpu : c_runqueue'[d] = IF d = c THEN q ELSE c_runqueue[d],
         \A d \in Cpu : d # c => migration'[d] = migration[d] /\ pc'[d] = pc[d],
         pc'[c] = "sleep" <=> pc[c] = "sleep", migration'[c].victims = v,
         CpuRight(c)', NoDup(q), NoDup(v), \A t : ~(In(t, q) /\ In(t, v)),
         \A t : In(t, q) \/ In(t, v) <=>
                In(t, c_runqueue[c]) \/ In(t, migration[c].victims)
  PROVE  IInv'
<1>1. TypeOK
  BY DEF IInv
<1>2. ListsRight'
  <2>1. \A d \in Cpu : NoDup(c_runqueue'[d]) /\ NoDup(migration'[d].victims)
    BY DEF IInv, ListsRight
  <2> QED BY <2>1 DEF IInv, ListsRight
<1>3. ASSUME NEW t \in Thread PROVE ThreadRight(t)'
  <2>1. ThreadRight(t) /\ t_cpu[t] \in Cpu
    BY <1>1 DEF IInv, TypeOK
  <2>2. /\ \A d \in Cpu : d # c => c_runqueue'[d] = c_runqueue[d]
                                   /\ migration'[d] = migration[d]
        /\ c_runqueue'[c] = q
    OBVIOUS
  <2>3. /\ In(t, q) => t_state[t] = "S_READY" /\ t_cpu[t] = c
        /\ In(t, v) => t_state[t] = "S_READY" /\ t_cpu[t] = c /\ ~In(t, q)
    BY <2>1 DEF ThreadRight, OnChannel, New
  <2>4. t_state[t] = "S_READY" =>
          \/ In(t, c_runqueue'[t_cpu[t]]) \/ In(t, migration'[t_cpu[t]].victims)
          \/ New(t)
    <3>1. t_state[t] = "S_READY" =>
            \/ In(t, c_runqueue[t_cpu[t]]) \/ In(t, migration[t_cpu[t]].victims)
            \/ New(t)
      BY <2>1 DEF ThreadRight
    <3>2. CASE t_cpu[t] = c
      BY <3>1, <3>2, <2>2
    <3>3. CASE t_cpu[t] # c
      BY <3>1, <3>3, <2>1, <2>2
    <3> QED BY <3>2, <3>3
  <2>5. ASSUME NEW d \in Cpu
        PROVE  /\ In(t, c_runqueue'[d]) => t_state[t] = "S_READY" /\ t_cpu[t] = d
               /\ In(t, migration'[d].victims) =>
                    t_state[t] = "S_READY" /\ t_cpu[t] = d /\ ~In(t, c_runqueue'[d])
    <3>1. CASE d = c
      BY <3>1, <2>2, <2>3
    <3>2. CASE d # c
      BY <3>2, <2>1, <2>2 DEF ThreadRight, OnChannel, New
    <3> QED BY <3>1, <3>2
  <2>6. New(t) => /\ t_state[t] = "S_READY" /\ ~In(t, c_runqueue'[t_cpu[t]])
                  /\ ~In(t, migration'[t_cpu[t]].victims)
    <3>1. New(t) => /\ t_state[t] = "S_READY" /\ ~In(t, c_runqueue[t_cpu[t]])
                    /\ ~In(t, migration[t_cpu[t]].victims)
      BY <2>1 DEF ThreadRight
    <3>2. CASE t_cpu[t] = c
      BY <3>1, <3>2, <2>2
    <3>3. CASE t_cpu[t] # c
      BY <3>1, <3>3, <2>1, <2>2
    <3> QED BY <3>2, <3>3
  <2> QED BY <2>1, <2>4, <2>5, <2>6 DEF ThreadRight, OnChannel, New
<1>4. ASSUME NEW d \in Cpu PROVE StackRight(d)' /\ CpuRight(d)' /\ SleepRight(d)'
  <2>1. StackRight(d) /\ CpuRight(d) /\ SleepRight(d) /\ c_runqueue[d] \in Seq(Thread)
    BY <1>1 DEF IInv, TypeOK
  <2>2. StackRight(d)'
    BY <2>1 DEF StackRight
  <2>s. SleepRight(d)'
    BY <2>1, SleepKept
  <2>3. CASE d # c
    <3>1. Len(c_runqueue'[d]) >= Len(c_runqueue[d])
      BY <2>1, <2>3
    <3>2. /\ pc'[d] = pc[d] /\ c_isidle'[d] = c_isidle[d] /\ waking'[d] = waking[d]
          /\ migration'[d] = migration[d]
      BY <2>3
    <3> QED BY <2>1, <2>2, <2>s, <3>1, <3>2, <1>1, CpuKept
  <2> QED BY <2>2, <2>s, <2>1, <2>3
<1> QED BY <1>2, <1>3, <1>4 DEF IInv

LEMMA NoMigrationType ==
  /\ NoMigration \in [i : 0..NCPU, my : Nat, total : Nat, share : Nat, to_send : Nat,
                      victims : Seq(Thread)]
  /\ NoMigration.victims = <<>> /\ NoMigration.my = 0
  BY SchedulerAssumption DEF NoMigration

LEMMA ShareNat ==
  ASSUME NEW n \in Nat PROVE OneShare(n) \in Nat
<1>1. NCPU \in Nat \ {0} /\ n + NCPU - 1 \in Nat
  BY SchedulerAssumption
<1>2. (n + NCPU - 1) \div NCPU \in Nat
  BY <1>1
<1> QED BY <1>2 DEF OneShare

LEMMA ChooseVictimsInv ==
  ASSUME IInv, NEW c \in Cpu, ChooseVictims(c) PROVE IInv'
<1>1. /\ TypeOK /\ CpuRight(c) /\ pc[c] = "count"
      /\ c_runqueue[c] \in Seq(Thread) /\ NoDup(c_runqueue[c])
      /\ UNCHANGED <<c_isidle, c_curthread, c_zombies, ipi, t_state, t_cpu, newthread,
                     wc_threads, waking>>
  BY DEF IInv, TypeOK, ListsRight, ChooseVictims, At, channel
<1>2. /\ migration[c].my \in Nat /\ migration[c].total \in Nat
      /\ migration[c].my <= Len(c_runqueue[c]) /\ migration[c].victims = <<>>
      /\ waking[c] = <<>>
  BY <1>1 DEF TypeOK, CpuRight
<1>3. PICK share \in Nat : share = OneShare(migration[c].total)
  BY <1>2, ShareNat
<1>4. CASE migration[c].my < share
  <2>1. migration' = [migration EXCEPT ![c] = NoMigration] /\ Goto(c, "yield")
        /\ UNCHANGED c_runqueue
    BY <1>3, <1>4 DEF ChooseVictims
  <2>2. /\ migration'[c] = NoMigration /\ pc'[c] = "yield"
        /\ \A d \in Cpu : d # c => migration'[d] = migration[d] /\ pc'[d] = pc[d]
    BY <2>1, <1>1 DEF TypeOK, Goto
  <2>3. TypeOK'
    BY <2>1, <1>1, NoMigrationType DEF TypeOK, Goto, Place
  <2>4. CpuRight(c)'
    BY <2>2, <1>1, <1>2 DEF CpuRight
  <2>5. \A d \in Cpu : CpuRight(d)'
    <3> SUFFICES ASSUME NEW d \in Cpu, d # c PROVE CpuRight(d)'
      BY <2>4
    <3>1. CpuRight(d) /\ c_runqueue[d] \in Seq(Thread)
      BY <1>1 DEF IInv, TypeOK
    <3>2. Len(c_runqueue'[d]) >= Len(c_runqueue[d])
      BY <3>1, <2>1
    <3> QED BY <3>1, <3>2, <2>2, <2>3, <1>1, CpuKept
  <2>6. \A d \in Cpu : migration'[d].victims = migration[d].victims
    BY <2>2, <1>2, NoMigrationType
  <2>7. \A d \in Cpu : pc'[d] = "sleep" <=> pc[d] = "sleep"
    BY <2>2, <1>1
  <2> QED BY <2>1, <2>3, <2>5, <2>6, <2>7, <1>1, ListsKept DEF threads, channel
<1>5. CASE ~(migration[c].my < share)
  <2>1. PICK sent \in Nat : sent = migration[c].my - share
    BY <1>2, <1>5
  <2>2. PICK keep \in 0..Len(c_runqueue[c]) : keep = Len(c_runqueue[c]) - sent
    BY <2>1, <1>1, <1>2, <1>3
  <2>3. PICK q, v : /\ q = SubSeq(c_runqueue[c], 1, keep)
                    /\ v = SubSeq(c_runqueue[c], keep + 1, Len(c_runqueue[c]))
    OBVIOUS
  <2>4. /\ q \in Seq(Thread) /\ v \in Seq(Thread) /\ Len(v) = Len(c_runqueue[c]) - keep
        /\ NoDup(q) /\ NoDup(v)
        /\ \A t : In(t, c_runqueue[c]) <=> In(t, q) \/ In(t, v)
        /\ \A t : ~(In(t, q) /\ In(t, v))
    BY <2>3, <1>1, InSplit
  <2>5. PICK m : m = [NoMigration EXCEPT !.share = share, !.to_send = sent, !.victims = v]
    OBVIOUS
  <2>6. migration' = [migration EXCEPT ![c] = m] /\ Goto(c, "send")
        /\ c_runqueue' = [c_runqueue EXCEPT ![c] = q]
    BY <2>1, <2>2, <2>3, <2>5, <1>3, <1>5 DEF ChooseVictims
  <2>7. /\ m \in [i : 0..NCPU, my : Nat, total : Nat, share : Nat, to_send : Nat,
                  victims : Seq(Thread)]
        /\ m.victims = v /\ m.to_send = sent
    <3>1. m = [i |-> 0, my |-> 0, total |-> 0, share |-> share, to_send |-> sent,
               victims |-> v]
      BY <2>5 DEF NoMigration
    <3>2. 0 \in 0..NCPU
      BY SchedulerAssumption
    <3> QED BY <3>1, <3>2, <2>4
  <2>8. TypeOK'
    BY <2>4, <2>6, <2>7, <1>1 DEF TypeOK, Goto, Place
  <2>9. /\ \A d \in Cpu : c_runqueue'[d] = IF d = c THEN q ELSE c_runqueue[d]
        /\ \A d \in Cpu : d # c => migration'[d] = migration[d] /\ pc'[d] = pc[d]
        /\ migration'[c] = m /\ pc'[c] = "send"
    BY <2>6, <1>1 DEF TypeOK, Goto
  <2>10. Len(v) = sent
    BY <2>1, <2>2, <2>4, <1>1
  <2>11. CpuRight(c)'
    BY <2>7, <2>9, <2>10, <1>1, <1>2 DEF CpuRight
  <2>12. \A t : In(t, q) \/ In(t, v) <=>
                In(t, c_runqueue[c]) \/ In(t, migration[c].victims)
    BY <2>4, <1>2, InEmpty
  <2> QED BY <2>4, <2>7, <2>8, <2>9, <2>11, <2>12, <1>1, OwnListsInv
<1> QED BY <1>4, <1>5

LEMMA LeftoversInv ==
  ASSUME IInv, NEW c \in Cpu, Leftovers(c) PROVE IInv'
<1>1. /\ TypeOK /\ CpuRight(c) /\ pc[c] = "send"
      /\ c_runqueue[c] \in Seq(Thread) /\ NoDup(c_runqueue[c])
      /\ migration[c].victims \in Seq(Thread) /\ NoDup(migration[c].victims)
      /\ UNCHANGED <<c_isidle, c_curthread, c_zombies, ipi, t_state, t_cpu, newthread,
                     wc_threads, waking>>
  BY DEF IInv, TypeOK, ListsRight, Leftovers, At, channel
<1>2. ASSUME NEW t PROVE ~(In(t, c_runqueue[c]) /\ In(t, migration[c].victims))
  <2> SUFFICES ASSUME In(t, c_runqueue[c]), In(t, migration[c].victims) PROVE FALSE
    OBVIOUS
  <2>1. t \in Thread
    BY <1>1 DEF In
  <2> QED BY <2>1 DEF IInv, ThreadRight, OnChannel, New
<1>3. PICK q : q = c_runqueue[c] \o migration[c].victims
  OBVIOUS
<1>4. /\ q \in Seq(Thread) /\ NoDup(q)
      /\ \A t : In(t, q) <=> In(t, c_runqueue[c]) \/ In(t, migration[c].victims)
  BY <1>1, <1>2, <1>3, InConcat
<1>5. /\ c_runqueue' = [c_runqueue EXCEPT ![c] = q]
      /\ migration' = [migration EXCEPT ![c] = NoMigration] /\ Goto(c, "yield")
  BY <1>3 DEF Leftovers, PutBack
<1>6. TypeOK'
  BY <1>1, <1>4, <1>5, NoMigrationType DEF TypeOK, Goto, Place
<1>7. /\ \A d \in Cpu : c_runqueue'[d] = IF d = c THEN q ELSE c_runqueue[d]
      /\ \A d \in Cpu : d # c => migration'[d] = migration[d] /\ pc'[d] = pc[d]
      /\ migration'[c] = NoMigration /\ pc'[c] = "yield"
  BY <1>1, <1>5 DEF TypeOK, Goto
<1>8. CpuRight(c)'
  BY <1>1, <1>7 DEF CpuRight
<1>9. NoDup(<<>>) /\ \A t : ~In(t, <<>>)
  BY InEmpty DEF NoDup
<1> QED BY <1>1, <1>4, <1>6, <1>7, <1>8, <1>9, NoMigrationType, OwnListsInv

-----------------------------------------------------------------------------
(* thread_consider_migration gives victims to another cpu.                 *)

LEMMA LookedBounds ==
  ASSUME TypeOK, NEW c \in Cpu, NEW g \in Cpu
  PROVE  Looked(c, g) \in 0..migration[c].to_send
<1>1. /\ migration[c].share \in Nat /\ migration[c].to_send \in Nat
      /\ c_runqueue[g] \in Seq(Thread)
  BY DEF TypeOK
<1>2. PICK l \in Nat : l = Len(c_runqueue[g])
  BY <1>1
<1>3. PICK room \in Nat : room = IF migration[c].share > l THEN migration[c].share - l ELSE 0
  BY <1>1
<1>4. PICK want \in Nat :
        want = IF \E i \in 1..room \cap DOMAIN migration[c].victims :
                    ~Sendable(c, migration[c].victims[i])
               THEN room + 1 ELSE room
  BY <1>3
<1>5. Looked(c, g) = IF want < migration[c].to_send THEN want ELSE migration[c].to_send
  BY <1>2, <1>3, <1>4 DEF Looked
<1> QED BY <1>1, <1>5

LEMMA SendInv ==
  ASSUME IInv, NEW c \in Cpu, pc[c] = "send", NEW g \in Cpu, migration[c].i = g, g # c,
         NEW n \in 0..migration[c].to_send, n = Looked(c, g),
         NEW sent \in Seq(Thread), NEW skipped \in Seq(Thread),
         NoDup(sent), NoDup(skipped),
         \A t : In(t, SubSeq(migration[c].victims, 1, n)) <=> In(t, sent) \/ In(t, skipped),
         \A t : ~(In(t, sent) /\ In(t, skipped)),
         ~In(c_curthread[c], sent),
         Len(sent) + Len(skipped) = n,
         Send(c, sent, skipped)
  PROVE  IInv'
<1>1. /\ TypeOK /\ CpuRight(c) /\ migration[c].victims \in Seq(Thread)
      /\ NoDup(migration[c].victims) /\ c_runqueue[g] \in Seq(Thread)
      /\ NoDup(c_runqueue[g]) /\ migration[c].to_send \in Nat
      /\ UNCHANGED <<c_isidle, c_curthread, c_zombies, t_state, newthread, wc_threads, waking, pc>>
  BY DEF IInv, TypeOK, ListsRight, Send, channel
<1>2. migration[c].to_send <= Len(migration[c].victims) /\ waking[c] = <<>>
  BY <1>1 DEF CpuRight
<1>3. PICK rest : rest = SubSeq(migration[c].victims, n + 1, Len(migration[c].victims))
  OBVIOUS
<1>4. n \in 0..Len(migration[c].victims)
  BY <1>1, <1>2
<1>5. /\ rest \in Seq(Thread) /\ NoDup(rest) /\ Len(rest) = Len(migration[c].victims) - n
      /\ \A t : In(t, migration[c].victims) <=> In(t, sent) \/ In(t, skipped) \/ In(t, rest)
      /\ \A t : ~((In(t, sent) \/ In(t, skipped)) /\ In(t, rest))
  BY <1>1, <1>3, <1>4, InSplit
<1>6. PICK v : v = rest \o skipped
  OBVIOUS
<1>7. /\ v \in Seq(Thread) /\ NoDup(v) /\ Len(v) = Len(rest) + Len(skipped)
      /\ \A t : In(t, v) <=> In(t, rest) \/ In(t, skipped)
  BY <1>5, <1>6, InConcat
<1>8. ASSUME NEW t, In(t, sent)
      PROVE  /\ t \in Thread /\ t_state[t] = "S_READY" /\ t_cpu[t] = c /\ ~In(t, v)
             /\ \A d \in Cpu : /\ ~In(t, c_runqueue[d]) /\ ~In(t, c_zombies[d])
                               /\ ~In(t, waking[d])
                               /\ d # c => ~In(t, migration[d].victims)
             /\ ~In(t, wc_threads) /\ \A u \in Thread : t \notin newthread[u]
  <2>1. t \in Thread /\ In(t, migration[c].victims) /\ ~In(t, v)
    <3>1. t \in Thread
      BY <1>8 DEF In
    <3> QED BY <3>1, <1>5, <1>7, <1>8
  <2>2. ThreadRight(t)
    BY <2>1 DEF IInv
  <2>3. t_state[t] = "S_READY" /\ t_cpu[t] = c /\ ~In(t, c_runqueue[c])
    BY <2>1, <2>2 DEF ThreadRight, OnChannel, New
  <2> QED BY <2>1, <2>2, <2>3 DEF ThreadRight, OnChannel, New
<1>9. PICK q : q = c_runqueue[g] \o sent
  OBVIOUS
<1>10. /\ q \in Seq(Thread) /\ NoDup(q) /\ Len(q) = Len(c_runqueue[g]) + Len(sent)
       /\ \A t : In(t, q) <=> In(t, c_runqueue[g]) \/ In(t, sent)
  BY <1>1, <1>8, <1>9, InConcat
<1>11. PICK m : m = migration[c]
  OBVIOUS
<1>12. /\ m \in [i : 0..NCPU, my : Nat, total : Nat, share : Nat, to_send : Nat,
                 victims : Seq(Thread)]
       /\ m.i = g
  BY <1>1, <1>11 DEF TypeOK
<1>13. PICK k : k = [m EXCEPT !.i = @ + 1, !.to_send = @ - n, !.victims = v]
  OBVIOUS
<1>14. migration' = [migration EXCEPT ![c] = k]
  BY <1>3, <1>6, <1>11, <1>13 DEF Send
<1>15. /\ k \in [i : 0..NCPU, my : Nat, total : Nat, share : Nat, to_send : Nat,
                 victims : Seq(Thread)]
       /\ k.victims = v /\ k.to_send = m.to_send - n
  <2>1. g + 1 \in 0..NCPU /\ m.to_send - n \in Nat
    BY <1>1, <1>11, SchedulerAssumption DEF Cpu
  <2> QED BY <2>1, <1>7, <1>12, <1>13
<1>16. /\ c_runqueue' = [c_runqueue EXCEPT ![g] = q]
       /\ t_cpu' = [t \in Thread |-> IF In(t, sent) THEN g ELSE t_cpu[t]]
  BY <1>9 DEF Send, In
<1>17. ipi' \in [Cpu -> BOOLEAN]
  <2>1. ipi \in [Cpu -> BOOLEAN]
    BY <1>1 DEF TypeOK
  <2>2. ipi' = ipi \/ ipi' = [ipi EXCEPT ![g] = TRUE]
    BY DEF Send, Unidle, ipi_send
  <2> QED BY <2>1, <2>2
<1>18. TypeOK'
  <2>1. c_runqueue' \in [Cpu -> Seq(Thread)] /\ t_cpu' \in [Thread -> Cpu]
    BY <1>1, <1>10, <1>16 DEF TypeOK
  <2>2. migration' \in [Cpu -> [i : 0..NCPU, my : Nat, total : Nat, share : Nat,
                                to_send : Nat, victims : Seq(Thread)]]
    BY <1>1, <1>14, <1>15 DEF TypeOK
  <2> QED BY <2>1, <2>2, <1>1, <1>17 DEF TypeOK
<1>19. /\ \A d \in Cpu : c_runqueue'[d] = IF d = g THEN q ELSE c_runqueue[d]
       /\ \A d \in Cpu : migration'[d] = IF d = c THEN k ELSE migration[d]
       /\ \A t \in Thread : In(t, sent) => t_cpu'[t] = g
       /\ \A t \in Thread : ~In(t, sent) => t_cpu'[t] = t_cpu[t]
  BY <1>1, <1>14, <1>16 DEF TypeOK
<1>20. ListsRight'
  <2>1. \A d \in Cpu : NoDup(c_runqueue'[d]) /\ NoDup(migration'[d].victims)
    BY <1>7, <1>10, <1>15, <1>19 DEF IInv, ListsRight
  <2> QED BY <2>1, <1>1 DEF IInv, ListsRight
<1>21. ASSUME NEW t \in Thread PROVE ThreadRight(t)'
  <2>1. ThreadRight(t) /\ t_cpu[t] \in Cpu
    BY <1>1 DEF IInv, TypeOK
  <2>q. ASSUME NEW d \in Cpu
        PROVE  In(t, c_runqueue'[d]) <=> In(t, c_runqueue[d]) \/ (d = g /\ In(t, sent))
    <3>1. CASE d = g
      BY <3>1, <1>10, <1>19
    <3>2. CASE d # g
      BY <3>2, <1>19
    <3> QED BY <3>1, <3>2
  <2>v. ASSUME NEW d \in Cpu
        PROVE  In(t, migration'[d].victims)
                 <=> In(t, migration[d].victims) /\ ~(d = c /\ In(t, sent))
    <3>1. CASE d = c
      <4>1. migration'[d].victims = v
        BY <3>1, <1>15, <1>19
      <4> QED BY <3>1, <4>1, <1>5, <1>7, <1>8
    <3>2. CASE d # c
      BY <3>2, <1>19
    <3> QED BY <3>1, <3>2
  <2>2. CASE In(t, sent)
    <3>1. t_cpu'[t] = g /\ t_state'[t] = "S_READY" /\ In(t, c_runqueue'[g])
      BY <2>2, <2>q, <1>1, <1>8, <1>19
    <3>2. /\ ~In(t, wc_threads')
          /\ \A d \in Cpu : /\ In(t, c_runqueue'[d]) => d = g
                            /\ ~In(t, migration'[d].victims)
                            /\ ~In(t, c_zombies'[d]) /\ ~In(t, waking'[d])
          /\ \A u \in Thread : t \notin newthread'[u]
      BY <2>2, <2>q, <2>v, <1>1, <1>8
    <3> QED BY <3>1, <3>2 DEF ThreadRight, OnChannel, New
  <2>3. CASE ~In(t, sent)
    <3>1. t_cpu'[t] = t_cpu[t]
      BY <2>3, <1>19
    <3>2. t_state[t] = "S_RUN" => c_curthread'[t_cpu[t]] = t /\ ~c_isidle'[t_cpu[t]]
      BY <2>1, <1>1 DEF ThreadRight, OnChannel, New
    <3>3. \A d \in Cpu : /\ In(t, c_runqueue'[d]) <=> In(t, c_runqueue[d])
                         /\ In(t, migration'[d].victims) <=> In(t, migration[d].victims)
                         /\ In(t, c_zombies'[d]) <=> In(t, c_zombies[d])
                         /\ In(t, waking'[d]) <=> In(t, waking[d])
      BY <2>q, <2>v, <2>3, <1>1
    <3> QED BY <3>1, <3>2, <3>3, <2>1, <1>1, ThreadKept
  <2> QED BY <2>2, <2>3
<1>22. ASSUME NEW d \in Cpu PROVE StackRight(d)' /\ CpuRight(d)' /\ SleepRight(d)'
  <2>1. /\ StackRight(d) /\ CpuRight(d) /\ SleepRight(d) /\ c_curthread[d] \in Thread
        /\ c_runqueue[d] \in Seq(Thread)
    BY <1>1 DEF IInv, TypeOK
  <2>2. ~In(c_curthread[d], sent)
    <3>1. d # c => t_cpu[c_curthread[d]] # c
      BY <2>1 DEF StackRight
    <3> QED BY <3>1, <1>8
  <2>3. StackRight(d)'
    BY <2>1, <2>2, <1>1, <1>19 DEF StackRight
  <2>s. SleepRight(d)'
    BY <2>1, <1>1, SleepKept
  <2>4. CASE d # c
    <3>1. Len(c_runqueue'[d]) >= Len(c_runqueue[d])
      <4>1. CASE d = g
        BY <4>1, <2>1, <1>10, <1>19
      <4>2. CASE d # g
        BY <4>2, <2>1, <1>19
      <4> QED BY <4>1, <4>2
    <3> QED BY <2>1, <2>3, <2>s, <2>4, <3>1, <1>1, <1>18, <1>19, CpuKept
  <2>5. CASE d = c
    <3>1. migration'[c].to_send = migration[c].to_send - n /\ migration'[c].victims = v
      BY <1>11, <1>15, <1>19
    <3>2. migration[c].to_send - n <= Len(v)
      <4>1. /\ Len(migration[c].victims) \in Nat /\ Len(skipped) \in Nat /\ Len(rest) \in Nat
            /\ n \in Nat
        BY <1>1, <1>4, <1>5
      <4>2. Len(v) = Len(migration[c].victims) - n + Len(skipped)
        BY <1>5, <1>7
      <4>3. migration[c].to_send \in Nat /\ migration[c].to_send <= Len(migration[c].victims)
        BY <1>1, <1>2
      <4>4. ASSUME NEW a \in Nat, NEW b \in Nat, NEW k1 \in Nat, NEW n1 \in Nat, a <= b
            PROVE  a - n1 <= b - n1 + k1
        BY <4>4
      <4> QED BY ONLY <4>1, <4>2, <4>3, <4>4
    <3> QED BY <2>1, <2>3, <2>s, <2>5, <3>1, <3>2, <1>1, <1>2 DEF CpuRight
  <2> QED BY <2>4, <2>5
<1> QED BY <1>18, <1>20, <1>21, <1>22 DEF IInv

LEMMA SendToInv ==
  ASSUME IInv, NEW c \in Cpu, SendTo(c) PROVE IInv'
<1>1. /\ TypeOK /\ CpuRight(c) /\ pc[c] = "send" /\ migration[c].i < NCPU
      /\ migration[c].i # c /\ migration[c].i \in 0..NCPU /\ NCPU \in Nat
      /\ migration[c].victims \in Seq(Thread) /\ NoDup(migration[c].victims)
      /\ migration[c].to_send \in Nat
  BY SchedulerAssumption DEF IInv, TypeOK, ListsRight, SendTo, At
<1>2. PICK g \in Cpu : g = migration[c].i
  BY <1>1 DEF Cpu
<1>3. PICK n \in 0..migration[c].to_send : n = Looked(c, g)
  BY <1>1, LookedBounds
<1>4. n \in 0..Len(migration[c].victims)
  BY <1>1, <1>3 DEF CpuRight
<1>5. PICK looked : looked = SubSeq(migration[c].victims, 1, n)
  OBVIOUS
<1>6. looked \in Seq(Thread) /\ NoDup(looked) /\ Len(looked) = n
  BY <1>1, <1>4, <1>5, InSplit
<1>7. CASE (\A k \in DOMAIN looked : Sendable(c, looked[k])) /\ Send(c, looked, <<>>)
  <2>1. ~In(c_curthread[c], looked)
    BY <1>7 DEF In, Sendable
  <2>2. <<>> \in Seq(Thread) /\ NoDup(<<>>) /\ Len(<<>>) = 0 /\ \A t : ~In(t, <<>>)
    BY InEmpty DEF NoDup
  <2>3. Len(looked) + Len(<<>>) = n
    BY <2>2, <1>3, <1>6
  <2>4. \A t : In(t, SubSeq(migration[c].victims, 1, n)) <=> In(t, looked) \/ In(t, <<>>)
    BY <2>2, <1>5
  <2> QED BY <2>1, <2>2, <2>3, <2>4, <1>1, <1>2, <1>3, <1>6, <1>7, SendInv
<1>8. ASSUME NEW k \in DOMAIN looked, ~Sendable(c, looked[k]),
             Send(c, RemoveAt(looked, k), <<looked[k]>>)
      PROVE  IInv'
  <2>1. PICK sent, x : sent = RemoveAt(looked, k) /\ x = looked[k]
    OBVIOUS
  <2>2. /\ sent \in Seq(Thread) /\ NoDup(sent) /\ x \in Thread /\ In(x, looked)
        /\ \A t : In(t, sent) <=> In(t, looked) /\ t # x
    BY <2>1, <1>6, <1>8, InRemoveAt
  <2>3. /\ <<x>> \in Seq(Thread) /\ NoDup(<<x>>) /\ Len(<<x>>) = 1
        /\ \A t : In(t, <<x>>) <=> t = x
    BY <2>2 DEF NoDup, In
  <2>4. Len(sent) = n - 1
    <3>1. k \in 1..Len(looked)
      BY <1>6
    <3>2. /\ SubSeq(looked, 1, k - 1) \in Seq(Thread) /\ Len(SubSeq(looked, 1, k - 1)) = k - 1
          /\ SubSeq(looked, k + 1, Len(looked)) \in Seq(Thread)
          /\ Len(SubSeq(looked, k + 1, Len(looked))) = Len(looked) - k
      BY <3>1, <1>6
    <3> QED BY <3>1, <3>2, <2>1, <1>3, <1>6 DEF RemoveAt
  <2>5. x = c_curthread[c]
    BY <2>1, <1>8 DEF Sendable
  <2>6. Len(sent) + Len(<<x>>) = n
    BY <2>3, <2>4, <1>3
  <2>7. \A t : In(t, SubSeq(migration[c].victims, 1, n)) <=> In(t, sent) \/ In(t, <<x>>)
    BY <2>2, <2>3, <1>5
  <2>8. Send(c, sent, <<x>>)
    BY <2>1, <1>8
  <2>9. ~In(c_curthread[c], sent) /\ \A t : ~(In(t, sent) /\ In(t, <<x>>))
    BY <2>2, <2>3, <2>5
  <2> QED BY <2>2, <2>3, <2>6, <2>7, <2>8, <2>9, <1>1, <1>2, <1>3, SendInv
<1> QED BY <1>2, <1>3, <1>5, <1>7, <1>8 DEF SendTo

-----------------------------------------------------------------------------
(* The theorems.                                                           *)

LEMMA NextIInv ==
  ASSUME IInv, [Next]_vars PROVE IInv'
<1>1. CASE UNCHANGED vars
  BY <1>1 DEF vars, IInv, TypeOK, ListsRight, ThreadRight, OnChannel, New, StackRight, CpuRight,
     SleepRight
<1>2. ASSUME NEW c \in Cpu, Request(c) PROVE IInv'
  <2>1. ASSUME NEW n \in {IF wc_threads = <<>> THEN 0 ELSE 1, Len(wc_threads)}, Wakeup(c, n)
        PROVE  IInv'
    <3>1. wc_threads \in Seq(Thread)
      BY DEF IInv, TypeOK
    <3>2. n \in 0..Len(wc_threads)
      BY <3>1
    <3> QED BY <3>2, <2>1, WakeupInv
  <2>2. CASE wchan_wakeone(c) \/ wchan_wakeall(c)
    BY <2>1, <2>2 DEF wchan_wakeone, wchan_wakeall
  <2> QED BY <2>2, <1>2, ForkInv, SleepInv, ExitInv, HardclockInv, YieldInv DEF Request
<1>3. ASSUME NEW c \in Cpu, CarryOn(c) PROVE IInv'
  BY <1>3, ForkEndsInv, WakeNextInv, FallAsleepInv, ChooseInv, IdleInv, ExorciseInv, IpiInv, ClearInv, CountInv,
     ChooseVictimsInv, SendToInv, SkipInv, LeftoversInv, YieldReturnsInv, YieldInv
     DEF CarryOn
<1> QED BY <1>1, <1>2, <1>3 DEF Next

(* Every step of the scheduler keeps the invariant: each list is without   *)
(* duplicates, a thread is on just the lists its t_state and t_cpu say, an *)
(* idle cpu's state agrees with where it is in thread_switch, and the      *)
(* migration never plans to send more threads than it has taken.           *)
THEOREM Invariance == Spec => []IInv
<1>1. Init => IInv
  BY InitIInv
<1>2. IInv /\ [Next]_vars => IInv'
  BY NextIInv
<1> QED BY <1>1, <1>2, PTL DEF Spec

(* The variables keep their types; the sequence numbers of the migration's *)
(* loops stay among the cpus.                                              *)
THEOREM TypeCorrect == Spec => []TypeOK
<1>1. IInv => TypeOK
  BY DEF IInv
<1> QED BY <1>1, Invariance, PTL

(* The stack each cpu is on exists and is its own: no thread whose stack a *)
(* cpu still uses is destroyed by exorcise, migrated to another cpu, or    *)
(* chosen by one.                                                          *)
THEOREM StacksAlwaysKept == Spec => []StacksKept
<1>1. ASSUME IInv PROVE StacksKept
  BY <1>1 DEF IInv, StackRight, StacksKept
<1> QED BY <1>1, Invariance, PTL

(* The members of Places, one disjunct for each list. *)
LEMMA PlacesAre ==
  ASSUME NEW t \in Thread, NEW p
  PROVE  p \in Places(t) <=> \E c \in Cpu :
           \/ /\ p = <<"S_RUN", c, "stack", 0>> /\ c_curthread[c] = t /\ ~c_isidle[c]
              /\ pc[c] # "sleep"
           \/ \E i \in On(c_runqueue[c], t) : p = <<"S_READY", c, "queue", i>>
           \/ \E i \in On(migration[c].victims, t) : p = <<"S_READY", c, "victims", i>>
           \/ \E i \in On(c_zombies[c], t) : p = <<"S_ZOMBIE", c, "zombies", i>>
           \/ \E i \in On(waking[c], t) : p = <<AsleepState(t), t_cpu[t], "waking", i>>
           \/ \E i \in On(wc_threads, t) : p = <<AsleepState(t), t_cpu[t], "channel", i>>
           \/ \E u \in Thread : t \in newthread[u] /\ p = <<"S_READY", t_cpu[t], "new", u>>
  BY DEF Places, At

LEMMA OnIn ==
  ASSUME NEW s, NEW t
  PROVE  /\ \A i \in On(s, t) : In(t, s)
         /\ In(t, s) => \E i : i \in On(s, t)
         /\ NoDup(s) => \A i, j \in On(s, t) : i = j
  BY DEF On, In, NoDup

(* The t_state of a thread on the channel, or taken off it by a waker. *)
LEMMA AsleepIs ==
  ASSUME IInv, NEW t \in Thread, OnChannel(t)
  PROVE  /\ t_state[t] = AsleepState(t) /\ t_state[t] \in {"S_SLEEP", "S_RUN"}
         /\ t_state[t] = "S_RUN" => pc[t_cpu[t]] = "sleep"
<1>1. t_cpu[t] \in Cpu /\ ThreadRight(t) /\ StackRight(t_cpu[t]) /\ SleepRight(t_cpu[t])
  BY DEF IInv, TypeOK
<1>2. t_state[t] \in {"S_SLEEP", "S_RUN"}
  BY <1>1 DEF ThreadRight
<1>3. ASSUME t_state[t] = "S_RUN" PROVE c_curthread[t_cpu[t]] = t /\ pc[t_cpu[t]] = "sleep"
  BY <1>1, <1>3 DEF ThreadRight, SleepRight
<1>4. ASSUME c_curthread[t_cpu[t]] = t, pc[t_cpu[t]] = "sleep" PROVE t_state[t] = "S_RUN"
  BY <1>1, <1>4 DEF StackRight, SleepRight
<1> QED BY <1>2, <1>3, <1>4 DEF AsleepState, At

(* Every place of a thread is the place its t_state and t_cpu name. *)
LEMMA PlaceNamed ==
  ASSUME IInv, NEW t \in Thread, NEW p \in Places(t)
  PROVE  \/ /\ t_state[t] = "S_RUN" /\ p = <<"S_RUN", t_cpu[t], "stack", 0>> /\ ~OnChannel(t)
         \/ /\ t_state[t] = "S_READY" /\ ~In(t, migration[t_cpu[t]].victims) /\ ~New(t)
            /\ \E i \in On(c_runqueue[t_cpu[t]], t) : p = <<"S_READY", t_cpu[t], "queue", i>>
         \/ /\ t_state[t] = "S_READY" /\ ~In(t, c_runqueue[t_cpu[t]]) /\ ~New(t)
            /\ \E i \in On(migration[t_cpu[t]].victims, t) :
                 p = <<"S_READY", t_cpu[t], "victims", i>>
         \/ /\ t_state[t] = "S_ZOMBIE"
            /\ \E i \in On(c_zombies[t_cpu[t]], t) : p = <<"S_ZOMBIE", t_cpu[t], "zombies", i>>
         \/ /\ OnChannel(t) /\ t_state[t] \in {"S_SLEEP", "S_RUN"} /\ ~In(t, wc_threads)
            /\ \E c \in Cpu : \E i \in On(waking[c], t) : p = <<t_state[t], t_cpu[t], "waking", i>>
         \/ /\ OnChannel(t) /\ t_state[t] \in {"S_SLEEP", "S_RUN"} /\ \A c \in Cpu : ~In(t, waking[c])
            /\ \E i \in On(wc_threads, t) : p = <<t_state[t], t_cpu[t], "channel", i>>
         \/ /\ t_state[t] = "S_READY" /\ New(t)
            /\ \E u \in Thread : t \in newthread[u] /\ p = <<"S_READY", t_cpu[t], "new", u>>
<1>1. ThreadRight(t)
  BY DEF IInv
<1>2. PICK c \in Cpu :
        \/ /\ p = <<"S_RUN", c, "stack", 0>> /\ c_curthread[c] = t /\ ~c_isidle[c]
           /\ pc[c] # "sleep"
        \/ \E i \in On(c_runqueue[c], t) : p = <<"S_READY", c, "queue", i>>
        \/ \E i \in On(migration[c].victims, t) : p = <<"S_READY", c, "victims", i>>
        \/ \E i \in On(c_zombies[c], t) : p = <<"S_ZOMBIE", c, "zombies", i>>
        \/ \E i \in On(waking[c], t) : p = <<AsleepState(t), t_cpu[t], "waking", i>>
        \/ \E i \in On(wc_threads, t) : p = <<AsleepState(t), t_cpu[t], "channel", i>>
        \/ \E u \in Thread : t \in newthread[u] /\ p = <<"S_READY", t_cpu[t], "new", u>>
  BY PlacesAre
<1>3. ASSUME p = <<"S_RUN", c, "stack", 0>>, c_curthread[c] = t, ~c_isidle[c], pc[c] # "sleep"
      PROVE  /\ t_state[t] = "S_RUN" /\ p = <<"S_RUN", t_cpu[t], "stack", 0>> /\ ~OnChannel(t)
  <2>1. StackRight(c) /\ SleepRight(c)
    BY DEF IInv
  <2> QED BY <2>1, <1>3 DEF StackRight, SleepRight
<1>4. ASSUME NEW i \in On(c_runqueue[c], t), p = <<"S_READY", c, "queue", i>>
      PROVE  /\ t_state[t] = "S_READY" /\ ~In(t, migration[t_cpu[t]].victims) /\ ~New(t)
             /\ \E j \in On(c_runqueue[t_cpu[t]], t) : p = <<"S_READY", t_cpu[t], "queue", j>>
  <2>1. In(t, c_runqueue[c])
    BY OnIn
  <2>2. t_state[t] = "S_READY" /\ t_cpu[t] = c /\ ~In(t, migration[c].victims)
    BY <2>1, <1>1 DEF ThreadRight
  <2>3. ~New(t)
    BY <2>1, <2>2, <1>1 DEF ThreadRight
  <2> QED BY <2>2, <2>3, <1>4
<1>5. ASSUME NEW i \in On(migration[c].victims, t), p = <<"S_READY", c, "victims", i>>
      PROVE  /\ t_state[t] = "S_READY" /\ ~In(t, c_runqueue[t_cpu[t]]) /\ ~New(t)
             /\ \E j \in On(migration[t_cpu[t]].victims, t) :
                  p = <<"S_READY", t_cpu[t], "victims", j>>
  <2>1. In(t, migration[c].victims)
    BY OnIn
  <2>2. t_state[t] = "S_READY" /\ t_cpu[t] = c /\ ~In(t, c_runqueue[c])
    BY <2>1, <1>1 DEF ThreadRight
  <2>3. ~New(t)
    BY <2>1, <2>2, <1>1 DEF ThreadRight
  <2> QED BY <2>2, <2>3, <1>5
<1>6. ASSUME NEW i \in On(c_zombies[c], t), p = <<"S_ZOMBIE", c, "zombies", i>>
      PROVE  /\ t_state[t] = "S_ZOMBIE"
             /\ \E j \in On(c_zombies[t_cpu[t]], t) :
                  p = <<"S_ZOMBIE", t_cpu[t], "zombies", j>>
  <2>1. In(t, c_zombies[c])
    BY OnIn
  <2>2. t_state[t] = "S_ZOMBIE" /\ t_cpu[t] = c
    BY <2>1, <1>1 DEF ThreadRight
  <2> QED BY <2>2, <1>6
<1>7. ASSUME NEW i \in On(waking[c], t), p = <<AsleepState(t), t_cpu[t], "waking", i>>
      PROVE  /\ OnChannel(t) /\ t_state[t] \in {"S_SLEEP", "S_RUN"} /\ ~In(t, wc_threads)
             /\ \E j \in On(waking[c], t) : p = <<t_state[t], t_cpu[t], "waking", j>>
  <2>1. In(t, waking[c]) /\ OnChannel(t)
    BY OnIn DEF OnChannel
  <2>2. t_state[t] = AsleepState(t) /\ t_state[t] \in {"S_SLEEP", "S_RUN"}
    BY <2>1, AsleepIs
  <2> QED BY <2>1, <2>2, <1>1, <1>7 DEF ThreadRight
<1>8. ASSUME NEW i \in On(wc_threads, t), p = <<AsleepState(t), t_cpu[t], "channel", i>>
      PROVE  /\ OnChannel(t) /\ t_state[t] \in {"S_SLEEP", "S_RUN"} /\ \A d \in Cpu : ~In(t, waking[d])
             /\ \E j \in On(wc_threads, t) : p = <<t_state[t], t_cpu[t], "channel", j>>
  <2>1. In(t, wc_threads) /\ OnChannel(t)
    BY OnIn DEF OnChannel
  <2>2. t_state[t] = AsleepState(t) /\ t_state[t] \in {"S_SLEEP", "S_RUN"}
    BY <2>1, AsleepIs
  <2> QED BY <2>1, <2>2, <1>1, <1>8 DEF ThreadRight
<1>9. ASSUME NEW u \in Thread, t \in newthread[u], p = <<"S_READY", t_cpu[t], "new", u>>
      PROVE  t_state[t] = "S_READY" /\ New(t)
  BY <1>1, <1>9 DEF ThreadRight, New
<1> QED BY <1>2, <1>3, <1>4, <1>5, <1>6, <1>7, <1>8, <1>9

LEMMA PlaceExists ==
  ASSUME IInv, NEW t \in Thread, t_state[t] # "S_NONE" PROVE \E p : p \in Places(t)
<1>1. /\ ThreadRight(t) /\ t_cpu[t] \in Cpu
      /\ t_state[t] \in {"S_RUN", "S_READY", "S_SLEEP", "S_ZOMBIE"}
  BY DEF IInv, TypeOK
<1>2. ASSUME OnChannel(t) PROVE \E p : p \in Places(t)
  <2>1. \/ \E i : i \in On(wc_threads, t)
        \/ \E c \in Cpu : \E i : i \in On(waking[c], t)
    BY <1>2, OnIn DEF OnChannel
  <2>2. ASSUME NEW i \in On(wc_threads, t) PROVE \E p : p \in Places(t)
    <3>1. <<AsleepState(t), t_cpu[t], "channel", i>> \in Places(t)
      BY <1>1, PlacesAre
    <3> QED BY <3>1
  <2>3. ASSUME NEW c \in Cpu, NEW i \in On(waking[c], t) PROVE \E p : p \in Places(t)
    <3>1. <<AsleepState(t), t_cpu[t], "waking", i>> \in Places(t)
      BY PlacesAre
    <3> QED BY <3>1
  <2> QED BY <2>1, <2>2, <2>3
<1>3. CASE t_state[t] = "S_RUN" /\ ~OnChannel(t)
  <2>1. c_curthread[t_cpu[t]] = t /\ ~c_isidle[t_cpu[t]]
    BY <1>1, <1>3 DEF ThreadRight
  <2>2. pc[t_cpu[t]] # "sleep"
    BY <2>1, <1>1, <1>3 DEF IInv, SleepRight
  <2>3. <<"S_RUN", t_cpu[t], "stack", 0>> \in Places(t)
    BY <2>1, <2>2, <1>1, PlacesAre
  <2> QED BY <2>3
<1>4. CASE t_state[t] = "S_READY"
  <2>1. \/ \E i : i \in On(c_runqueue[t_cpu[t]], t)
        \/ \E i : i \in On(migration[t_cpu[t]].victims, t)
        \/ \E u \in Thread : t \in newthread[u]
    BY <1>1, <1>4, OnIn DEF ThreadRight, New
  <2>2. ASSUME NEW i \in On(c_runqueue[t_cpu[t]], t) PROVE \E p : p \in Places(t)
    <3>1. <<"S_READY", t_cpu[t], "queue", i>> \in Places(t)
      BY <1>1, PlacesAre
    <3> QED BY <3>1
  <2>3. ASSUME NEW i \in On(migration[t_cpu[t]].victims, t) PROVE \E p : p \in Places(t)
    <3>1. <<"S_READY", t_cpu[t], "victims", i>> \in Places(t)
      BY <1>1, PlacesAre
    <3> QED BY <3>1
  <2>4. ASSUME NEW u \in Thread, t \in newthread[u] PROVE \E p : p \in Places(t)
    <3>1. <<"S_READY", t_cpu[t], "new", u>> \in Places(t)
      BY <1>1, <2>4, PlacesAre
    <3> QED BY <3>1
  <2> QED BY <2>1, <2>2, <2>3, <2>4
<1>5. CASE t_state[t] = "S_ZOMBIE"
  <2>1. PICK i : i \in On(c_zombies[t_cpu[t]], t)
    BY <1>1, <1>5, OnIn DEF ThreadRight
  <2>2. <<"S_ZOMBIE", t_cpu[t], "zombies", i>> \in Places(t)
    BY <2>1, <1>1, PlacesAre
  <2> QED BY <2>2
<1>6. t_state[t] = "S_SLEEP" => OnChannel(t)
  BY <1>1 DEF ThreadRight
<1> QED BY <1>1, <1>2, <1>3, <1>4, <1>5, <1>6

LEMMA PlaceUnique ==
  ASSUME IInv, NEW t \in Thread, NEW p \in Places(t), NEW r \in Places(t) PROVE p = r
<1>1. /\ t_cpu[t] \in Cpu /\ NoDup(wc_threads)
      /\ \A c \in Cpu : /\ NoDup(c_runqueue[c]) /\ NoDup(migration[c].victims)
                        /\ NoDup(c_zombies[c]) /\ NoDup(waking[c])
  BY DEF IInv, TypeOK, ListsRight
<1>2. CASE t_state[t] = "S_RUN" /\ ~OnChannel(t)
  BY <1>2, PlaceNamed
<1>3. CASE t_state[t] = "S_READY"
  <2>1. CASE In(t, c_runqueue[t_cpu[t]])
    <3>1. /\ \E i \in On(c_runqueue[t_cpu[t]], t) : p = <<"S_READY", t_cpu[t], "queue", i>>
          /\ \E i \in On(c_runqueue[t_cpu[t]], t) : r = <<"S_READY", t_cpu[t], "queue", i>>
      <4>1. ~New(t)
        BY <1>3, <2>1 DEF IInv, ThreadRight
      <4> QED BY <1>3, <2>1, <4>1, PlaceNamed, AsleepIs
    <3> QED BY <3>1, <1>1, OnIn
  <2>2. CASE New(t)
    <3>1. /\ \E u \in Thread : t \in newthread[u] /\ p = <<"S_READY", t_cpu[t], "new", u>>
          /\ \E u \in Thread : t \in newthread[u] /\ r = <<"S_READY", t_cpu[t], "new", u>>
      BY <1>3, <2>2, PlaceNamed, AsleepIs
    <3> QED BY <3>1 DEF IInv, ListsRight
  <2>3. CASE ~In(t, c_runqueue[t_cpu[t]]) /\ ~New(t)
    <3>1. /\ \E i \in On(migration[t_cpu[t]].victims, t) :
               p = <<"S_READY", t_cpu[t], "victims", i>>
          /\ \E i \in On(migration[t_cpu[t]].victims, t) :
               r = <<"S_READY", t_cpu[t], "victims", i>>
      BY <1>3, <2>3, PlaceNamed, OnIn
    <3> QED BY <3>1, <1>1, OnIn
  <2> QED BY <2>1, <2>2, <2>3
<1>4. CASE t_state[t] = "S_ZOMBIE"
  <2>1. /\ \E i \in On(c_zombies[t_cpu[t]], t) : p = <<"S_ZOMBIE", t_cpu[t], "zombies", i>>
        /\ \E i \in On(c_zombies[t_cpu[t]], t) : r = <<"S_ZOMBIE", t_cpu[t], "zombies", i>>
    BY <1>4, PlaceNamed
  <2> QED BY <2>1, <1>1, OnIn
<1>5. CASE OnChannel(t)
  <2>t. t_state[t] \in {"S_SLEEP", "S_RUN"}
    BY <1>5, AsleepIs
  <2>1. CASE In(t, wc_threads)
    <3>1. /\ \E i \in On(wc_threads, t) : p = <<t_state[t], t_cpu[t], "channel", i>>
          /\ \E i \in On(wc_threads, t) : r = <<t_state[t], t_cpu[t], "channel", i>>
      BY <1>5, <2>t, <2>1, PlaceNamed
    <3> QED BY <3>1, <1>1, OnIn
  <2>2. CASE ~In(t, wc_threads)
    <3>1. /\ \E c \in Cpu : \E i \in On(waking[c], t) : p = <<t_state[t], t_cpu[t], "waking", i>>
          /\ \E c \in Cpu : \E i \in On(waking[c], t) : r = <<t_state[t], t_cpu[t], "waking", i>>
      BY <1>5, <2>t, <2>2, PlaceNamed, OnIn
    <3>2. PICK c \in Cpu : \E i \in On(waking[c], t) : p = <<t_state[t], t_cpu[t], "waking", i>>
      BY <3>1
    <3>3. PICK d \in Cpu : \E i \in On(waking[d], t) : r = <<t_state[t], t_cpu[t], "waking", i>>
      BY <3>1
    <3>4. c = d
      <4>1. In(t, waking[c]) /\ In(t, waking[d])
        BY <3>2, <3>3, OnIn
      <4>2. waking[c] # <<>> /\ waking[d] # <<>>
        BY <4>1, InEmpty
      <4> QED BY <4>2 DEF IInv, ListsRight
    <3> QED BY <3>2, <3>3, <3>4, <1>1, OnIn
  <2> QED BY <2>1, <2>2
<1>6. \/ t_state[t] \in {"S_RUN", "S_READY", "S_ZOMBIE"} \/ OnChannel(t)
  BY PlaceNamed
<1> QED BY <1>2, <1>3, <1>4, <1>5, <1>6

(* No thread is lost or in two places: at every moment, with the run       *)
(* queues, the wait channel, the wakers' lists, the migrations' victims    *)
(* and the zombies under their different locks, a thread is in exactly one *)
(* place, the one that its t_state and t_cpu name.                         *)
THEOREM AlwaysInOnePlace == Spec => []ThreadsInOnePlace
<1>1. ASSUME IInv, NEW t \in Thread
      PROVE  IF t_state[t] = "S_NONE" THEN Places(t) = {}
             ELSE \E p \in Places(t) :
                    Places(t) = {p} /\ p[1] = t_state[t] /\ p[2] = t_cpu[t]
  <2>1. CASE t_state[t] = "S_NONE"
    <3>1. \A p : p \notin Places(t)
      BY <1>1, <2>1, PlaceNamed
    <3> QED BY <2>1, <3>1
  <2>2. CASE t_state[t] # "S_NONE"
    <3>1. PICK p : p \in Places(t)
      BY <1>1, <2>2, PlaceExists
    <3>2. Places(t) = {p}
      BY <1>1, <3>1, PlaceUnique
    <3>3. p[1] = t_state[t] /\ p[2] = t_cpu[t]
      BY <1>1, <3>1, PlaceNamed
    <3> QED BY <2>2, <3>1, <3>2, <3>3
  <2> QED BY <2>1, <2>2
<1>2. IInv => ThreadsInOnePlace
  BY <1>1 DEF ThreadsInOnePlace
<1> QED BY <1>2, Invariance, PTL
=============================================================================
