---------------------------- MODULE Synch_proofs ----------------------------
(***************************************************************************)
(* Proofs about Synch, for every finite set of threads and every initial   *)
(* count.                                                                  *)
(***************************************************************************)
EXTENDS Synch, TLAPS, FiniteSetTheorems, SequenceTheorems

-----------------------------------------------------------------------------
(* What the wait channel operations do to the lists.                       *)

(* A list grown at its end. *)
LEMMA AppendList ==
  ASSUME NEW s \in Seq(Thread), NEW t \in Thread
  PROVE  /\ Append(s, t) \in Seq(Thread)
         /\ \A u : (\E i \in DOMAIN Append(s, t) : Append(s, t)[i] = u)
                     <=> (\E i \in DOMAIN s : s[i] = u) \/ u = t
         /\ (\A i \in DOMAIN s : s[i] # t)
            /\ (\A i, j \in DOMAIN s : s[i] = s[j] => i = j)
              => \A i, j \in DOMAIN Append(s, t) :
                   Append(s, t)[i] = Append(s, t)[j] => i = j
<1>1. /\ Append(s, t) \in Seq(Thread) /\ Len(s) \in Nat /\ DOMAIN s = 1..Len(s)
      /\ DOMAIN Append(s, t) = 1..(Len(s) + 1)
      /\ \A i \in 1..Len(s) : Append(s, t)[i] = s[i]
      /\ Append(s, t)[Len(s) + 1] = t
  OBVIOUS
<1>2. \A i : i \in DOMAIN Append(s, t) <=> i \in DOMAIN s \/ i = Len(s) + 1
  BY <1>1
<1>3. Len(s) + 1 \notin DOMAIN s
  BY <1>1
<1> DEFINE a == Append(s, t)
           n == Len(s) + 1
<1>4. \A i : i \in DOMAIN a <=> i \in DOMAIN s \/ i = n
  BY <1>2
<1>5. \A i \in DOMAIN s : a[i] = s[i]
  BY <1>1
<1>6. a[n] = t /\ n \notin DOMAIN s
  BY <1>1, <1>3
<1> HIDE DEF a, n
<1>7. \A u : (\E i \in DOMAIN a : a[i] = u) <=> (\E i \in DOMAIN s : s[i] = u) \/ u = t
  BY <1>4, <1>5, <1>6
<1>8. ASSUME \A i \in DOMAIN s : s[i] # t, \A i, j \in DOMAIN s : s[i] = s[j] => i = j
      PROVE  \A i, j \in DOMAIN a : a[i] = a[j] => i = j
  BY <1>4, <1>5, <1>6, <1>8
<1> QED BY <1>1, <1>7, <1>8 DEF a

(* A list without its head. *)
LEMMA TailList ==
  ASSUME NEW s \in Seq(Thread), s # <<>>
  PROVE  /\ Tail(s) \in Seq(Thread) /\ Head(s) \in Thread
         /\ \E i \in DOMAIN s : s[i] = Head(s)
         /\ (\A i, j \in DOMAIN s : s[i] = s[j] => i = j)
              => /\ \A u : (\E i \in DOMAIN Tail(s) : Tail(s)[i] = u)
                             <=> (\E i \in DOMAIN s : s[i] = u) /\ u # Head(s)
                 /\ \A i, j \in DOMAIN Tail(s) : Tail(s)[i] = Tail(s)[j] => i = j
<1>1. /\ Tail(s) \in Seq(Thread) /\ Head(s) = s[1]
      /\ Len(s) \in Nat /\ Len(s) > 0 /\ DOMAIN s = 1..Len(s)
      /\ DOMAIN Tail(s) = 1..(Len(s) - 1)
      /\ \A i \in 1..(Len(s) - 1) : Tail(s)[i] = s[i + 1]
  OBVIOUS
<1>2. Head(s) \in Thread /\ 1 \in DOMAIN s
  BY <1>1
<1>3. ASSUME \A i, j \in DOMAIN s : s[i] = s[j] => i = j
      PROVE  /\ \A u : (\E i \in DOMAIN Tail(s) : Tail(s)[i] = u)
                         <=> (\E i \in DOMAIN s : s[i] = u) /\ u # Head(s)
             /\ \A i, j \in DOMAIN Tail(s) : Tail(s)[i] = Tail(s)[j] => i = j
  <2> DEFINE n == Len(s)
             r == Tail(s)
  <2>1. n \in Nat /\ n > 0 /\ DOMAIN s = 1..n /\ DOMAIN r = 1..(n - 1)
        /\ (\A i \in 1..(n - 1) : r[i] = s[i + 1]) /\ Head(s) = s[1]
    BY <1>1
  <2> HIDE DEF n, r
  <2>2. \A i \in DOMAIN r : i + 1 \in DOMAIN s /\ i + 1 # 1 /\ r[i] = s[i + 1]
    BY <2>1
  <2>3. \A i \in DOMAIN s : i # 1 => i - 1 \in DOMAIN r /\ r[i - 1] = s[i]
    <3> TAKE i \in DOMAIN s
    <3> HAVE i # 1
    <3>1. i - 1 \in 1..(n - 1) /\ (i - 1) + 1 = i
      BY <2>1
    <3> QED BY <3>1, <2>1
  <2>4. \A i, j \in DOMAIN r : r[i] = r[j] => i = j
    <3> TAKE i, j \in DOMAIN r
    <3> HAVE r[i] = r[j]
    <3>1. i + 1 = j + 1
      BY <2>2, <1>3
    <3>2. i \in Int /\ j \in Int
      BY <2>1
    <3> QED BY <3>1, <3>2
  <2>5. \A u : (\E i \in DOMAIN r : r[i] = u)
                 <=> (\E i \in DOMAIN s : s[i] = u) /\ u # Head(s)
    <3> TAKE u
    <3>1. ASSUME NEW i \in DOMAIN r, r[i] = u
          PROVE  (\E k \in DOMAIN s : s[k] = u) /\ u # Head(s)
      BY <3>1, <2>1, <2>2, <1>2, <1>3
    <3>2. ASSUME NEW i \in DOMAIN s, s[i] = u, u # Head(s)
          PROVE  \E k \in DOMAIN r : r[k] = u
      <4>1. i # 1
        BY <3>2, <2>1
      <4> QED BY <4>1, <3>2, <2>3
    <3> QED BY <3>1, <3>2
  <2> QED BY <2>4, <2>5 DEF r
<1> QED BY <1>1, <1>2, <1>3

(* No thread is on a list twice. *)
Distinct ==
  \A c \in Channel : \A i, j \in DOMAIN wc_threads[c] :
    wc_threads[c][i] = wc_threads[c][j] => i = j

LEMMA WchanSleep ==
  ASSUME TypeOK, SleepersListed, NEW t \in Thread, NEW c \in Channel,
         t_state[t] = "S_RUN", wchan_sleep(t, c)
  PROVE  /\ wc_threads' \in [Channel -> Seq(Thread)]
         /\ \A u \in Thread, d \in Channel :
              OnList(u, d)' <=> OnList(u, d) \/ (u = t /\ d = c)
         /\ \A d \in Channel : d # c => wc_threads'[d] = wc_threads[d]
         /\ Distinct'
         /\ t_state' = [t_state EXCEPT ![t] = "S_SLEEP"]
         /\ t_state' \in [Thread -> {"S_RUN", "S_SLEEP"}]
<1> DEFINE s == wc_threads[c]
<1>1. s \in Seq(Thread) /\ wc_threads \in [Channel -> Seq(Thread)]
  BY DEF TypeOK
<1>2. wc_threads' = [wc_threads EXCEPT ![c] = Append(s, t)]
  BY DEF wchan_sleep
<1>3. t_state' = [t_state EXCEPT ![t] = "S_SLEEP"]
  BY DEF wchan_sleep
<1>4. /\ \A i \in DOMAIN s : s[i] # t
      /\ \A i, j \in DOMAIN s : s[i] = s[j] => i = j
  BY DEF SleepersListed, OnList
<1> DEFINE a == Append(s, t)
<1>5. /\ a \in Seq(Thread)
      /\ \A u : (\E i \in DOMAIN a : a[i] = u) <=> (\E i \in DOMAIN s : s[i] = u) \/ u = t
      /\ \A i, j \in DOMAIN a : a[i] = a[j] => i = j
  BY <1>1, <1>4, AppendList
<1> HIDE DEF a
<1>6. wc_threads'[c] = a /\ \A d \in Channel : d # c => wc_threads'[d] = wc_threads[d]
  BY <1>1, <1>2 DEF a
<1>7. wc_threads' \in [Channel -> Seq(Thread)]
  BY <1>1, <1>2, <1>5 DEF a
<1>8. \A u \in Thread, d \in Channel : OnList(u, d)' <=> OnList(u, d) \/ (u = t /\ d = c)
  <2> TAKE u \in Thread, d \in Channel
  <2>1. CASE d = c
    BY <1>5, <1>6, <2>1 DEF OnList
  <2>2. CASE d # c
    BY <1>6, <2>2 DEF OnList
  <2> QED BY <2>1, <2>2
<1>9. Distinct'
  BY <1>5, <1>6 DEF Distinct, SleepersListed
<1>10. t_state' \in [Thread -> {"S_RUN", "S_SLEEP"}]
  BY <1>3 DEF TypeOK
<1> QED BY <1>3, <1>6, <1>7, <1>8, <1>9, <1>10

(* wchan_wakeone of a list that is not empty wakes its head, which slept   *)
(* on this channel.                                                        *)
LEMMA WchanWakeone ==
  ASSUME TypeOK, SleepersListed, NEW c \in Channel, wchan_wakeone(c)
  PROVE  \/ wc_threads[c] = <<>> /\ UNCHANGED <<wc_threads, t_state>>
         \/ \E h \in Thread :
              /\ wc_threads[c] # <<>>
              /\ OnList(h, c) /\ t_state[h] = "S_SLEEP" /\ c \in ChannelOf(pc[h])
              /\ wc_threads' \in [Channel -> Seq(Thread)]
              /\ \A u \in Thread, d \in Channel :
                   OnList(u, d)' <=> OnList(u, d) /\ ~(u = h /\ d = c)
              /\ \A d \in Channel : d # c => wc_threads'[d] = wc_threads[d]
              /\ Distinct'
              /\ t_state' = [t_state EXCEPT ![h] = "S_RUN"]
              /\ t_state' \in [Thread -> {"S_RUN", "S_SLEEP"}]
<1>1. CASE wc_threads[c] = <<>>
  BY <1>1 DEF wchan_wakeone
<1>2. CASE wc_threads[c] # <<>>
  <2> DEFINE s == wc_threads[c]
             h == Head(s)
             r == Tail(s)
  <2>1. s \in Seq(Thread) /\ wc_threads \in [Channel -> Seq(Thread)]
    BY DEF TypeOK
  <2>2. /\ wc_threads' = [wc_threads EXCEPT ![c] = r]
        /\ t_state' = [t_state EXCEPT ![h] = "S_RUN"]
    BY <1>2 DEF wchan_wakeone
  <2>3. \A i, j \in DOMAIN s : s[i] = s[j] => i = j
    BY DEF SleepersListed
  <2>4. /\ r \in Seq(Thread) /\ h \in Thread
        /\ \E i \in DOMAIN s : s[i] = h
        /\ \A u : (\E i \in DOMAIN r : r[i] = u) <=> (\E i \in DOMAIN s : s[i] = u) /\ u # h
        /\ \A i, j \in DOMAIN r : r[i] = r[j] => i = j
    BY <1>2, <2>1, <2>3, TailList
  <2> HIDE DEF r, h
  <2>5. wc_threads'[c] = r /\ \A d \in Channel : d # c => wc_threads'[d] = wc_threads[d]
    BY <2>1, <2>2
  <2>6. OnList(h, c) /\ t_state[h] = "S_SLEEP" /\ c \in ChannelOf(pc[h])
    BY <2>4 DEF OnList, SleepersListed
  <2>7. wc_threads' \in [Channel -> Seq(Thread)]
    BY <2>1, <2>2, <2>4
  <2>8. \A u \in Thread, d \in Channel : OnList(u, d)' <=> OnList(u, d) /\ ~(u = h /\ d = c)
    <3> TAKE u \in Thread, d \in Channel
    <3>1. CASE d = c
      BY <2>4, <2>5, <3>1 DEF OnList
    <3>2. CASE d # c
      BY <2>5, <3>2 DEF OnList
    <3> QED BY <3>1, <3>2
  <2>9. Distinct'
    BY <2>4, <2>5 DEF Distinct, SleepersListed
  <2>10. t_state' \in [Thread -> {"S_RUN", "S_SLEEP"}]
    BY <2>2 DEF TypeOK
  <2> QED BY <1>2, <2>2, <2>4, <2>5, <2>6, <2>7, <2>8, <2>9, <2>10
<1> QED BY <1>1, <1>2

LEMMA WchanWakeall ==
  ASSUME TypeOK, SleepersListed, NEW c \in Channel, wchan_wakeall(c)
  PROVE  /\ wc_threads' \in [Channel -> Seq(Thread)]
         /\ \A u \in Thread, d \in Channel : OnList(u, d)' <=> OnList(u, d) /\ d # c
         /\ \A d \in Channel : d # c => wc_threads'[d] = wc_threads[d]
         /\ Distinct'
         /\ t_state' = [u \in Thread |-> IF OnList(u, c) THEN "S_RUN" ELSE t_state[u]]
         /\ t_state' \in [Thread -> {"S_RUN", "S_SLEEP"}]
<1>1. wc_threads' = [wc_threads EXCEPT ![c] = <<>>] /\ wc_threads \in [Channel -> Seq(Thread)]
  BY DEF wchan_wakeall, TypeOK
<1>2. t_state' = [u \in Thread |-> IF OnList(u, c) THEN "S_RUN" ELSE t_state[u]]
  BY DEF wchan_wakeall, OnList
<1>3. <<>> \in Seq(Thread) /\ DOMAIN <<>> = {}
  OBVIOUS
<1>4. wc_threads'[c] = <<>> /\ \A d \in Channel : d # c => wc_threads'[d] = wc_threads[d]
  BY <1>1
<1>5. wc_threads' \in [Channel -> Seq(Thread)]
  BY <1>1, <1>3
<1>6. \A u \in Thread, d \in Channel : OnList(u, d)' <=> OnList(u, d) /\ d # c
  BY <1>3, <1>4 DEF OnList
<1>7. Distinct'
  BY <1>3, <1>4 DEF Distinct, SleepersListed
<1>8. t_state' \in [Thread -> {"S_RUN", "S_SLEEP"}]
  BY <1>2 DEF TypeOK
<1> QED BY <1>2, <1>4, <1>5, <1>6, <1>7, <1>8

(* Who is on a list decides whether it is empty. *)
LEMMA EmptyList ==
  ASSUME TypeOK, NEW c \in Channel
  PROVE  wc_threads[c] # <<>> <=> \E u \in Thread : OnList(u, c)
<1>1. wc_threads[c] \in Seq(Thread)
  BY DEF TypeOK
<1>2. ASSUME wc_threads[c] # <<>> PROVE \E u \in Thread : OnList(u, c)
  BY <1>1, <1>2, TailList DEF OnList
<1>3. ASSUME NEW u \in Thread, OnList(u, c) PROVE wc_threads[c] # <<>>
  <2>1. DOMAIN <<>> = {}
    OBVIOUS
  <2> QED BY <1>3, <2>1 DEF OnList
<1> QED BY <1>2, <1>3

-----------------------------------------------------------------------------
(* The inductive invariant: the safety properties together.                *)

IInv == /\ TypeOK /\ SleepersListed /\ NoUnlistedWaiter
        /\ FreeLockSpokenFor /\ UnitsSpokenFor

LEMMA InitIInv == Init => IInv
<1> SUFFICES ASSUME Init PROVE IInv
  OBVIOUS
<1>1. <<>> \in Seq(Thread) /\ DOMAIN <<>> = {}
  OBVIOUS
<1>2. TypeOK
  BY <1>1, SynchAssumption DEF Init, TypeOK, Call
<1>3. SleepersListed
  BY <1>1 DEF Init, SleepersListed, OnList, ChannelOf
<1>4. NoUnlistedWaiter
  BY SynchAssumption DEF Init, NoUnlistedWaiter
<1>5. FreeLockSpokenFor /\ UnitsSpokenFor
  BY DEF Init, FreeLockSpokenFor, UnitsSpokenFor, Channel
<1> QED BY <1>2, <1>3, <1>4, <1>5 DEF IInv

(* The threads V has woken are finitely many. *)
LEMMA WokenFinite == IsFiniteSet(WokenInP) /\ Cardinality(WokenInP) \in Nat
<1>1. WokenInP \subseteq Thread
  BY DEF WokenInP
<1>2. IsFiniteSet(WokenInP)
  BY <1>1, SynchAssumption, FS_Subset
<1> QED BY <1>2, FS_CardinalityType

(* A step after which the same threads sleep on the semaphore, and the     *)
(* same are woken, keeps the units spoken for.                             *)
LEMMA UnitsUntouched ==
  ASSUME IInv, sem_count' = sem_count,
         wc_threads'["sem_wchan"] = wc_threads["sem_wchan"],
         \A u \in Thread : (In(u, {"P"}))' <=> In(u, {"P"})
  PROVE  UnitsSpokenFor'
<1>1. WokenInP' = WokenInP
  BY DEF WokenInP
<1> QED BY <1>1 DEF IInv, UnitsSpokenFor

(* The lists stay right when a thread goes to sleep in a call, when one or *)
(* all sleepers of a channel are woken, and when nobody's sleep changes.   *)
LEMMA ListedAfterSleep ==
  ASSUME TypeOK, SleepersListed, NEW t \in Thread, NEW c \in Channel, NEW call,
         t_state[t] = "S_RUN", wchan_sleep(t, c), ChannelOf(call) = {c},
         pc' = [pc EXCEPT ![t] = call]
  PROVE  SleepersListed'
<1>1. /\ \A u \in Thread, d \in Channel :
           OnList(u, d)' <=> OnList(u, d) \/ (u = t /\ d = c)
      /\ Distinct'
      /\ t_state' = [t_state EXCEPT ![t] = "S_SLEEP"]
  BY WchanSleep
<1>2. \A u \in Thread : u # t => t_state'[u] = t_state[u] /\ pc'[u] = pc[u]
  BY <1>1
<1>3. t_state'[t] = "S_SLEEP" /\ pc'[t] = call
  BY <1>1 DEF TypeOK
<1>4. \A d \in Channel : ~OnList(t, d)
  BY DEF SleepersListed
<1>5. \A u \in Thread, d \in Channel :
        OnList(u, d)' <=> t_state'[u] = "S_SLEEP" /\ d \in ChannelOf(pc'[u])
  <2> TAKE u \in Thread, d \in Channel
  <2>1. CASE u = t
    BY <1>1, <1>3, <1>4, <2>1
  <2>2. CASE u # t
    BY <1>1, <1>2, <2>2 DEF SleepersListed
  <2> QED BY <2>1, <2>2
<1>6. \A u \in Thread : t_state'[u] = "S_SLEEP" => ChannelOf(pc'[u]) # {}
  <2> TAKE u \in Thread
  <2>1. CASE u = t
    BY <1>3, <2>1
  <2>2. CASE u # t
    BY <1>2, <2>2 DEF SleepersListed
  <2> QED BY <2>1, <2>2
<1>7. \A u : (ChannelOf(pc[u]))' = ChannelOf(pc'[u])
  BY DEF ChannelOf
<1> QED BY <1>1, <1>5, <1>6, <1>7 DEF SleepersListed, Distinct

LEMMA ListedAfterWakeone ==
  ASSUME TypeOK, SleepersListed, NEW c \in Channel, wchan_wakeone(c),
         \A u \in Thread : t_state[u] = "S_SLEEP" => pc'[u] = pc[u]
  PROVE  SleepersListed'
<1>1. \A u : (ChannelOf(pc[u]))' = ChannelOf(pc'[u])
  BY DEF ChannelOf
<1>2. CASE wc_threads[c] = <<>> /\ UNCHANGED <<wc_threads, t_state>>
  BY <1>1, <1>2 DEF SleepersListed, OnList
<1>3. CASE \E h \in Thread :
              /\ OnList(h, c) /\ t_state[h] = "S_SLEEP" /\ c \in ChannelOf(pc[h])
              /\ \A u \in Thread, d \in Channel :
                   OnList(u, d)' <=> OnList(u, d) /\ ~(u = h /\ d = c)
              /\ Distinct'
              /\ t_state' = [t_state EXCEPT ![h] = "S_RUN"]
  <2>1. PICK h \in Thread :
              /\ OnList(h, c) /\ t_state[h] = "S_SLEEP" /\ c \in ChannelOf(pc[h])
              /\ \A u \in Thread, d \in Channel :
                   OnList(u, d)' <=> OnList(u, d) /\ ~(u = h /\ d = c)
              /\ Distinct'
              /\ t_state' = [t_state EXCEPT ![h] = "S_RUN"]
    BY <1>3
  <2>2. t_state'[h] = "S_RUN" /\ \A u \in Thread : u # h => t_state'[u] = t_state[u]
    BY <2>1 DEF TypeOK
  <2>3. ChannelOf(pc[h]) = {c}
    BY <2>1 DEF ChannelOf
  <2>4. \A u \in Thread, d \in Channel :
          OnList(u, d)' <=> t_state'[u] = "S_SLEEP" /\ d \in ChannelOf(pc'[u])
    <3> TAKE u \in Thread, d \in Channel
    <3>1. CASE u = h
      BY <2>1, <2>2, <2>3, <3>1 DEF SleepersListed
    <3>2. CASE u # h
      BY <2>1, <2>2, <3>2 DEF SleepersListed
    <3> QED BY <3>1, <3>2
  <2>5. \A u \in Thread : t_state'[u] = "S_SLEEP" => ChannelOf(pc'[u]) # {}
    BY <2>2 DEF SleepersListed
  <2> QED BY <1>1, <2>1, <2>4, <2>5 DEF SleepersListed, Distinct
<1> QED BY <1>2, <1>3, WchanWakeone

LEMMA ListedAfterWakeall ==
  ASSUME TypeOK, SleepersListed, NEW c \in Channel, wchan_wakeall(c), pc' = pc
  PROVE  SleepersListed'
<1>1. \A u : (ChannelOf(pc[u]))' = ChannelOf(pc[u])
  BY DEF ChannelOf
<1>2. /\ \A u \in Thread, d \in Channel : OnList(u, d)' <=> OnList(u, d) /\ d # c
      /\ Distinct'
      /\ t_state' = [u \in Thread |-> IF OnList(u, c) THEN "S_RUN" ELSE t_state[u]]
  BY WchanWakeall
<1>3. \A u \in Thread : t_state'[u] = IF OnList(u, c) THEN "S_RUN" ELSE t_state[u]
  BY <1>2
<1>4. \A u \in Thread : OnList(u, c) => ChannelOf(pc[u]) = {c}
  <2> TAKE u \in Thread
  <2> HAVE OnList(u, c)
  <2>1. c \in ChannelOf(pc[u])
    BY DEF SleepersListed
  <2> QED BY <2>1 DEF ChannelOf
<1>5. \A u \in Thread, d \in Channel :
        OnList(u, d)' <=> t_state'[u] = "S_SLEEP" /\ d \in ChannelOf(pc[u])
  <2> TAKE u \in Thread, d \in Channel
  <2>1. CASE OnList(u, c)
    BY <1>2, <1>3, <1>4, <2>1 DEF SleepersListed
  <2>2. CASE ~OnList(u, c)
    BY <1>2, <1>3, <2>2 DEF SleepersListed
  <2> QED BY <2>1, <2>2
<1>6. \A u \in Thread : t_state'[u] = "S_SLEEP" => ChannelOf(pc[u]) # {}
  BY <1>3 DEF SleepersListed
<1> QED BY <1>1, <1>2, <1>5, <1>6 DEF SleepersListed, Distinct

LEMMA ListedUntouched ==
  ASSUME TypeOK, SleepersListed, UNCHANGED <<wc_threads, t_state>>,
         \A u \in Thread : t_state[u] = "S_SLEEP" => pc'[u] = pc[u]
  PROVE  SleepersListed'
<1>1. \A u : (ChannelOf(pc[u]))' = ChannelOf(pc'[u])
  BY DEF ChannelOf
<1> QED BY <1>1 DEF SleepersListed, OnList

LEMMA PStep ==
  ASSUME IInv, NEW t \in Thread, P(t)
  PROVE  IInv'
<1>0. /\ t_state[t] = "S_RUN" /\ pc[t] \in {"none", "P"}
      /\ lk_holder' = lk_holder /\ cv_wchanlock' = cv_wchanlock
  BY DEF P, In
<1>1. CASE sem_count = 0
  <2>1. /\ wchan_sleep(t, "sem_wchan") /\ pc' = [pc EXCEPT ![t] = "P"]
        /\ sem_count' = sem_count
    BY <1>1 DEF P
  <2>2. "sem_wchan" \in Channel
    BY DEF Channel
  <2>3. /\ wc_threads' \in [Channel -> Seq(Thread)]
        /\ \A u \in Thread, d \in Channel :
             OnList(u, d)' <=> OnList(u, d) \/ (u = t /\ d = "sem_wchan")
        /\ \A d \in Channel : d # "sem_wchan" => wc_threads'[d] = wc_threads[d]
        /\ Distinct'
        /\ t_state' = [t_state EXCEPT ![t] = "S_SLEEP"]
        /\ t_state' \in [Thread -> {"S_RUN", "S_SLEEP"}]
    BY <1>0, <2>1, <2>2, WchanSleep DEF IInv
  <2>4. TypeOK'
    BY <1>0, <2>1, <2>3 DEF IInv, TypeOK, Call
  <2>5. SleepersListed'
    <3>1. ChannelOf("P") = {"sem_wchan"}
      BY DEF ChannelOf
    <3> QED BY <1>0, <2>1, <2>2, <3>1, ListedAfterSleep DEF IInv
  <2>6. NoUnlistedWaiter'
    BY <1>0, <2>1 DEF IInv, TypeOK, NoUnlistedWaiter
  <2>7. FreeLockSpokenFor'
    BY <1>0, <2>1, <2>3 DEF IInv, TypeOK, FreeLockSpokenFor, In, Channel
  <2>8. UnitsSpokenFor'
    <3>1. WokenInP' \subseteq Thread
      BY DEF WokenInP
    <3>2. Cardinality(WokenInP') \in Nat
      BY <3>1, SynchAssumption, FS_Subset, FS_CardinalityType
    <3>3. Cardinality(WokenInP)' \in Nat
      BY <3>2
    <3> QED BY <1>1, <2>1, <3>3 DEF UnitsSpokenFor
  <2> QED BY <2>4, <2>5, <2>6, <2>7, <2>8 DEF IInv
<1>2. CASE sem_count > 0
  <2>1. /\ sem_count' = sem_count - 1 /\ pc' = [pc EXCEPT ![t] = "none"]
        /\ UNCHANGED <<wc_threads, t_state>>
    BY <1>2 DEF P
  <2>2. TypeOK'
    BY <1>0, <1>2, <2>1, SynchAssumption DEF IInv, TypeOK, Call
  <2>3. SleepersListed'
    <3>1. \A u \in Thread : t_state[u] = "S_SLEEP" => pc'[u] = pc[u]
      BY <1>0, <2>1 DEF IInv, TypeOK
    <3> QED BY <2>1, <3>1, ListedUntouched DEF IInv
  <2>4. NoUnlistedWaiter'
    BY <1>0, <2>1 DEF IInv, TypeOK, NoUnlistedWaiter
  <2>5. FreeLockSpokenFor'
    BY <1>0, <2>1 DEF IInv, TypeOK, FreeLockSpokenFor, In
  <2>6. UnitsSpokenFor'
    <3>1. WokenInP' = WokenInP \ {t}
      BY <1>0, <2>1 DEF IInv, TypeOK, WokenInP, In
    <3>2. /\ Cardinality(WokenInP \ {t}) =
               IF t \in WokenInP THEN Cardinality(WokenInP) - 1 ELSE Cardinality(WokenInP)
          /\ Cardinality(WokenInP) \in Nat
      BY WokenFinite, FS_RemoveElement
    <3>3. wc_threads'["sem_wchan"] # <<>> => sem_count <= Cardinality(WokenInP)
      BY <2>1 DEF IInv, UnitsSpokenFor
    <3>4. sem_count \in Int
      BY SynchAssumption DEF IInv, TypeOK
    <3>5. Cardinality(WokenInP)' = Cardinality(WokenInP \ {t})
      BY <3>1
    <3> HIDE DEF WokenInP
    <3> QED BY <2>1, <3>2, <3>3, <3>4, <3>5 DEF UnitsSpokenFor
  <2> QED BY <2>2, <2>3, <2>4, <2>5, <2>6 DEF IInv
<1>3. sem_count = 0 \/ sem_count > 0
  BY DEF P
<1> QED BY <1>1, <1>2, <1>3

(* What a waker knows of the thread it wakes, if any. *)
LEMMA WokenBy ==
  ASSUME IInv, NEW c \in Channel, wchan_wakeone(c), wc_threads[c] # <<>>
  PROVE  \E h \in Thread :
           /\ t_state[h] = "S_SLEEP" /\ ChannelOf(pc[h]) = {c}
           /\ wc_threads' \in [Channel -> Seq(Thread)]
           /\ \A d \in Channel : d # c => wc_threads'[d] = wc_threads[d]
           /\ t_state' \in [Thread -> {"S_RUN", "S_SLEEP"}]
           /\ t_state'[h] = "S_RUN"
           /\ \A u \in Thread : u # h => t_state'[u] = t_state[u]
<1>1. PICK h \in Thread :
           /\ t_state[h] = "S_SLEEP" /\ c \in ChannelOf(pc[h])
           /\ wc_threads' \in [Channel -> Seq(Thread)]
           /\ \A d \in Channel : d # c => wc_threads'[d] = wc_threads[d]
           /\ t_state' = [t_state EXCEPT ![h] = "S_RUN"]
           /\ t_state' \in [Thread -> {"S_RUN", "S_SLEEP"}]
  BY WchanWakeone DEF IInv
<1>2. ChannelOf(pc[h]) = {c}
  BY <1>1 DEF ChannelOf
<1>3. t_state'[h] = "S_RUN" /\ \A u \in Thread : u # h => t_state'[u] = t_state[u]
  BY <1>1 DEF IInv, TypeOK
<1> QED BY <1>1, <1>2, <1>3

LEMMA WakeoneTypes ==
  ASSUME IInv, NEW c \in Channel, wchan_wakeone(c)
  PROVE  /\ wc_threads' \in [Channel -> Seq(Thread)]
         /\ t_state' \in [Thread -> {"S_RUN", "S_SLEEP"}]
<1>1. CASE wc_threads[c] = <<>>
  BY <1>1 DEF wchan_wakeone, IInv, TypeOK
<1>2. CASE wc_threads[c] # <<>>
  BY <1>2, WokenBy
<1> QED BY <1>1, <1>2

(* Waking a sleeper of another channel concerns neither the semaphore nor, *)
(* unless it is the lock's channel, the lock.                              *)
LEMMA WakeoneElsewhere ==
  ASSUME IInv, NEW c \in Channel, wchan_wakeone(c), NEW d \in Channel, d # c,
         NEW call \in Call, d \in ChannelOf(call),
         \A u \in Thread : t_state[u] = "S_SLEEP" => pc'[u] = pc[u],
         \A u \in Thread : pc'[u] = call <=> pc[u] = call
  PROVE  /\ wc_threads'[d] = wc_threads[d]
         /\ \A u \in Thread : (In(u, {call}))' <=> In(u, {call})
<1>1. CASE wc_threads[c] = <<>>
  BY <1>1 DEF wchan_wakeone, In
<1>2. CASE wc_threads[c] # <<>>
  <2>1. PICK h \in Thread :
           /\ t_state[h] = "S_SLEEP" /\ ChannelOf(pc[h]) = {c}
           /\ \A e \in Channel : e # c => wc_threads'[e] = wc_threads[e]
           /\ \A u \in Thread : u # h => t_state'[u] = t_state[u]
    BY <1>2, WokenBy
  <2>2. pc[h] # call
    BY <2>1
  <2>3. \A u \in Thread : (In(u, {call}))' <=> In(u, {call})
    <3> TAKE u \in Thread
    <3>1. CASE u = h
      BY <2>2, <3>1 DEF In
    <3>2. CASE u # h
      BY <2>1, <3>2 DEF In
    <3> QED BY <3>1, <3>2
  <2> QED BY <2>1, <2>3
<1> QED BY <1>1, <1>2

LEMMA VStep ==
  ASSUME IInv, V
  PROVE  IInv'
<1>0. /\ sem_count < SEM_MAX /\ sem_count' = sem_count + 1
      /\ wchan_wakeone("sem_wchan")
      /\ lk_holder' = lk_holder /\ cv_wchanlock' = cv_wchanlock /\ pc' = pc
  BY DEF V
<1>c. "sem_wchan" \in Channel /\ "lk_wchan" \in Channel /\ "lock_acquire" \in Call
  BY DEF Channel, Call
<1>n. sem_count \in Int
  BY SynchAssumption DEF IInv, TypeOK
<1>1. TypeOK'
  BY <1>0, <1>c, WakeoneTypes, SynchAssumption DEF IInv, TypeOK
<1>2. SleepersListed'
  BY <1>0, <1>c, ListedAfterWakeone DEF IInv
<1>3. NoUnlistedWaiter'
  BY <1>0 DEF IInv, NoUnlistedWaiter
<1>4. FreeLockSpokenFor'
  <2>1. "lk_wchan" \in ChannelOf("lock_acquire")
    BY DEF ChannelOf
  <2>2. /\ wc_threads'["lk_wchan"] = wc_threads["lk_wchan"]
        /\ \A u \in Thread : (In(u, {"lock_acquire"}))' <=> In(u, {"lock_acquire"})
    BY <1>0, <1>c, <2>1, WakeoneElsewhere
  <2> QED BY <1>0, <2>2 DEF IInv, FreeLockSpokenFor
<1>5. UnitsSpokenFor'
  <2>1. CASE wc_threads["sem_wchan"] = <<>>
    BY <1>0, <2>1 DEF wchan_wakeone, UnitsSpokenFor
  <2>2. CASE wc_threads["sem_wchan"] # <<>>
    <3>1. PICK h \in Thread :
             /\ t_state[h] = "S_SLEEP" /\ ChannelOf(pc[h]) = {"sem_wchan"}
             /\ t_state'[h] = "S_RUN"
             /\ \A u \in Thread : u # h => t_state'[u] = t_state[u]
      BY <1>0, <1>c, <2>2, WokenBy
    <3>2. pc[h] = "P"
      BY <3>1 DEF ChannelOf
    <3>3. h \notin WokenInP
      BY <3>1 DEF WokenInP, In
    <3>4. WokenInP' = WokenInP \cup {h}
      BY <1>0, <3>1, <3>2 DEF WokenInP, In
    <3>5. Cardinality(WokenInP)' = Cardinality(WokenInP) + 1
      BY <3>3, <3>4, WokenFinite, FS_AddElement
    <3>6. sem_count <= Cardinality(WokenInP)
      BY <2>2 DEF IInv, UnitsSpokenFor
    <3> QED BY <1>0, <1>n, <3>5, <3>6, WokenFinite DEF UnitsSpokenFor
  <2> QED BY <2>1, <2>2
<1> QED BY <1>1, <1>2, <1>3, <1>4, <1>5 DEF IInv

LEMMA LockAcquireStep ==
  ASSUME IInv, NEW t \in Thread, lock_acquire(t)
  PROVE  IInv'
<1>0. /\ t_state[t] = "S_RUN" /\ pc[t] \in {"none", "lock_acquire"}
      /\ sem_count' = sem_count /\ cv_wchanlock' = cv_wchanlock
  BY DEF lock_acquire, In
<1>1. CASE lk_holder # NoThread
  <2>1. /\ wchan_sleep(t, "lk_wchan") /\ pc' = [pc EXCEPT ![t] = "lock_acquire"]
        /\ lk_holder' = lk_holder /\ lk_holder # t
    BY <1>1 DEF lock_acquire
  <2>2. "lk_wchan" \in Channel /\ "sem_wchan" \in Channel
    BY DEF Channel
  <2>3. /\ wc_threads' \in [Channel -> Seq(Thread)]
        /\ \A d \in Channel : d # "lk_wchan" => wc_threads'[d] = wc_threads[d]
        /\ t_state' = [t_state EXCEPT ![t] = "S_SLEEP"]
        /\ t_state' \in [Thread -> {"S_RUN", "S_SLEEP"}]
    BY <1>0, <2>1, <2>2, WchanSleep DEF IInv
  <2>4. TypeOK'
    BY <1>0, <2>1, <2>3 DEF IInv, TypeOK, Call
  <2>5. SleepersListed'
    <3>1. ChannelOf("lock_acquire") = {"lk_wchan"}
      BY DEF ChannelOf
    <3> QED BY <1>0, <2>1, <2>2, <3>1, ListedAfterSleep DEF IInv
  <2>6. NoUnlistedWaiter'
    BY <1>0, <2>1 DEF IInv, TypeOK, NoUnlistedWaiter
  <2>7. FreeLockSpokenFor'
    BY <1>1, <2>1 DEF FreeLockSpokenFor
  <2>8. UnitsSpokenFor'
    <3>1. \A u \in Thread : (In(u, {"P"}))' <=> In(u, {"P"})
      BY <1>0, <2>1, <2>3 DEF IInv, TypeOK, In
    <3> QED BY <1>0, <2>2, <2>3, <3>1, UnitsUntouched
  <2> QED BY <2>4, <2>5, <2>6, <2>7, <2>8 DEF IInv
<1>2. CASE lk_holder = NoThread
  <2>1. /\ lk_holder' = t /\ pc' = [pc EXCEPT ![t] = "none"]
        /\ UNCHANGED <<wc_threads, t_state>>
    BY <1>2 DEF lock_acquire
  <2>2. TypeOK'
    BY <1>0, <2>1 DEF IInv, TypeOK, Call
  <2>3. SleepersListed'
    <3>1. \A u \in Thread : t_state[u] = "S_SLEEP" => pc'[u] = pc[u]
      BY <1>0, <2>1 DEF IInv, TypeOK
    <3> QED BY <2>1, <3>1, ListedUntouched DEF IInv
  <2>4. NoUnlistedWaiter'
    BY <1>0, <2>1 DEF IInv, TypeOK, NoUnlistedWaiter
  <2>5. FreeLockSpokenFor'
    BY <2>1, SynchAssumption DEF FreeLockSpokenFor
  <2>6. UnitsSpokenFor'
    <3>1. \A u \in Thread : (In(u, {"P"}))' <=> In(u, {"P"})
      BY <1>0, <2>1 DEF IInv, TypeOK, In
    <3> QED BY <1>0, <2>1, <3>1, UnitsUntouched
  <2> QED BY <2>2, <2>3, <2>4, <2>5, <2>6 DEF IInv
<1> QED BY <1>1, <1>2

(* Giving the lock up, in lock_release or in cv_wait, wakes a thread that  *)
(* will take it.                                                           *)
LEMMA GiveUpLock ==
  ASSUME IInv, NEW t \in Thread, In(t, {"none"}), lk_holder' = NoThread,
         wchan_wakeone("lk_wchan"), sem_count' = sem_count,
         NEW call \in {"none", "cv_release"}, pc' = [pc EXCEPT ![t] = call]
  PROVE  /\ wc_threads' \in [Channel -> Seq(Thread)]
         /\ t_state' \in [Thread -> {"S_RUN", "S_SLEEP"}]
         /\ SleepersListed' /\ FreeLockSpokenFor' /\ UnitsSpokenFor'
<1>c. /\ "sem_wchan" \in Channel /\ "lk_wchan" \in Channel /\ "P" \in Call
      /\ "sem_wchan" \in ChannelOf("P")
  BY DEF Channel, Call, ChannelOf
<1>0. t_state[t] = "S_RUN" /\ pc[t] = "none"
  BY DEF In
<1>1. /\ \A u \in Thread : t_state[u] = "S_SLEEP" => pc'[u] = pc[u]
      /\ \A u \in Thread : pc'[u] = "P" <=> pc[u] = "P"
  BY <1>0 DEF IInv, TypeOK
<1>2. /\ wc_threads' \in [Channel -> Seq(Thread)]
      /\ t_state' \in [Thread -> {"S_RUN", "S_SLEEP"}]
  BY <1>c, WakeoneTypes
<1>3. SleepersListed'
  BY <1>c, <1>1, ListedAfterWakeone DEF IInv
<1>4. UnitsSpokenFor'
  <2>1. /\ wc_threads'["sem_wchan"] = wc_threads["sem_wchan"]
        /\ \A u \in Thread : (In(u, {"P"}))' <=> In(u, {"P"})
    BY <1>c, <1>1, WakeoneElsewhere
  <2> QED BY <2>1, UnitsUntouched
<1>5. FreeLockSpokenFor'
  <2>1. CASE wc_threads["lk_wchan"] = <<>>
    BY <2>1 DEF wchan_wakeone, FreeLockSpokenFor
  <2>2. CASE wc_threads["lk_wchan"] # <<>>
    <3>1. PICK h \in Thread :
             /\ t_state[h] = "S_SLEEP" /\ ChannelOf(pc[h]) = {"lk_wchan"}
             /\ t_state'[h] = "S_RUN"
      BY <1>c, <2>2, WokenBy
    <3>2. pc[h] = "lock_acquire"
      BY <3>1 DEF ChannelOf
    <3>3. (In(h, {"lock_acquire"}))'
      BY <1>1, <3>1, <3>2 DEF In
    <3> QED BY <3>3 DEF FreeLockSpokenFor
  <2> QED BY <2>1, <2>2
<1> QED BY <1>2, <1>3, <1>4, <1>5

LEMMA LockReleaseStep ==
  ASSUME IInv, NEW t \in Thread, lock_release(t)
  PROVE  IInv'
<1>0. /\ In(t, {"none"}) /\ lk_holder' = NoThread /\ wchan_wakeone("lk_wchan")
      /\ sem_count' = sem_count /\ cv_wchanlock' = cv_wchanlock /\ pc' = pc
      /\ pc[t] = "none"
  BY DEF lock_release, In
<1>1. pc' = [pc EXCEPT ![t] = "none"]
  BY <1>0 DEF IInv, TypeOK
<1>2. /\ wc_threads' \in [Channel -> Seq(Thread)]
      /\ t_state' \in [Thread -> {"S_RUN", "S_SLEEP"}]
      /\ SleepersListed' /\ FreeLockSpokenFor' /\ UnitsSpokenFor'
  BY <1>0, <1>1, GiveUpLock
<1>3. TypeOK'
  BY <1>0, <1>2 DEF IInv, TypeOK
<1>4. NoUnlistedWaiter'
  BY <1>0 DEF IInv, NoUnlistedWaiter
<1> QED BY <1>2, <1>3, <1>4 DEF IInv

LEMMA CvWaitStep ==
  ASSUME IInv, NEW t \in Thread, cv_wait(t)
  PROVE  IInv'
<1>0. /\ In(t, {"none"}) /\ lk_holder' = NoThread /\ wchan_wakeone("lk_wchan")
      /\ sem_count' = sem_count /\ cv_wchanlock = NoThread /\ cv_wchanlock' = t
      /\ pc' = [pc EXCEPT ![t] = "cv_release"]
  BY DEF cv_wait
<1>1. /\ wc_threads' \in [Channel -> Seq(Thread)]
      /\ t_state' \in [Thread -> {"S_RUN", "S_SLEEP"}]
      /\ SleepersListed' /\ FreeLockSpokenFor' /\ UnitsSpokenFor'
  BY <1>0, GiveUpLock
<1>2. TypeOK'
  BY <1>0, <1>1 DEF IInv, TypeOK, Call
<1>3. NoUnlistedWaiter'
  BY <1>0, SynchAssumption DEF IInv, TypeOK, NoUnlistedWaiter
<1> QED BY <1>1, <1>2, <1>3 DEF IInv

LEMMA CvSleepStep ==
  ASSUME IInv, NEW t \in Thread, cv_sleep(t)
  PROVE  IInv'
<1>0. /\ t_state[t] = "S_RUN" /\ pc[t] = "cv_release" /\ wchan_sleep(t, "cv_wchan")
      /\ sem_count' = sem_count /\ lk_holder' = lk_holder /\ cv_wchanlock' = NoThread
      /\ pc' = [pc EXCEPT ![t] = "cv_wait"]
  BY DEF cv_sleep, In
<1>c. /\ "sem_wchan" \in Channel /\ "lk_wchan" \in Channel /\ "cv_wchan" \in Channel
      /\ ChannelOf("cv_wait") = {"cv_wchan"}
  BY DEF Channel, ChannelOf
<1>1. /\ wc_threads' \in [Channel -> Seq(Thread)]
      /\ \A d \in Channel : d # "cv_wchan" => wc_threads'[d] = wc_threads[d]
      /\ t_state' = [t_state EXCEPT ![t] = "S_SLEEP"]
      /\ t_state' \in [Thread -> {"S_RUN", "S_SLEEP"}]
  BY <1>0, <1>c, WchanSleep DEF IInv
<1>2. TypeOK'
  BY <1>0, <1>1 DEF IInv, TypeOK, Call
<1>3. SleepersListed'
  BY <1>0, <1>c, ListedAfterSleep DEF IInv
<1>4. NoUnlistedWaiter'
  BY <1>0, SynchAssumption DEF IInv, TypeOK, NoUnlistedWaiter
<1>5. /\ \A u \in Thread : (In(u, {"P"}))' <=> In(u, {"P"})
      /\ \A u \in Thread : (In(u, {"lock_acquire"}))' <=> In(u, {"lock_acquire"})
  BY <1>0, <1>1 DEF IInv, TypeOK, In
<1>6. wc_threads'["sem_wchan"] = wc_threads["sem_wchan"]
      /\ wc_threads'["lk_wchan"] = wc_threads["lk_wchan"]
  BY <1>c, <1>1
<1>7. UnitsSpokenFor'
  BY <1>0, <1>5, <1>6, UnitsUntouched
<1>8. FreeLockSpokenFor'
  BY <1>0, <1>5, <1>6 DEF IInv, FreeLockSpokenFor
<1> QED BY <1>2, <1>3, <1>4, <1>7, <1>8 DEF IInv

LEMMA CvWakeupStep ==
  ASSUME IInv, NEW t \in Thread, cv_wakeup(t)
  PROVE  IInv'
<1>0. /\ t_state[t] = "S_RUN" /\ pc[t] = "cv_wait"
      /\ pc' = [pc EXCEPT ![t] = "lock_acquire"]
      /\ sem_count' = sem_count /\ lk_holder' = lk_holder /\ cv_wchanlock' = cv_wchanlock
      /\ wc_threads' = wc_threads /\ t_state' = t_state
  BY DEF cv_wakeup, In
<1>1. TypeOK'
  BY <1>0 DEF IInv, TypeOK, Call
<1>2. SleepersListed'
  <2>1. \A u \in Thread : t_state[u] = "S_SLEEP" => pc'[u] = pc[u]
    BY <1>0 DEF IInv, TypeOK
  <2> QED BY <1>0, <2>1, ListedUntouched DEF IInv
<1>3. NoUnlistedWaiter'
  BY <1>0 DEF IInv, TypeOK, NoUnlistedWaiter
<1>4. /\ \A u \in Thread : (In(u, {"P"}))' <=> In(u, {"P"})
      /\ \A u \in Thread : In(u, {"lock_acquire"}) => (In(u, {"lock_acquire"}))'
  BY <1>0 DEF IInv, TypeOK, In
<1>5. UnitsSpokenFor'
  BY <1>0, <1>4, UnitsUntouched
<1>6. FreeLockSpokenFor'
  BY <1>0, <1>4 DEF IInv, FreeLockSpokenFor
<1> QED BY <1>1, <1>2, <1>3, <1>5, <1>6 DEF IInv

LEMMA CvSignalStep ==
  ASSUME IInv, cv_signal
  PROVE  IInv'
<1>0. /\ wchan_wakeone("cv_wchan") /\ pc' = pc
      /\ sem_count' = sem_count /\ lk_holder' = lk_holder /\ cv_wchanlock' = cv_wchanlock
  BY DEF cv_signal
<1>c. /\ "sem_wchan" \in Channel /\ "lk_wchan" \in Channel /\ "cv_wchan" \in Channel
      /\ "P" \in Call /\ "lock_acquire" \in Call
      /\ "sem_wchan" \in ChannelOf("P") /\ "lk_wchan" \in ChannelOf("lock_acquire")
  BY DEF Channel, Call, ChannelOf
<1>1. TypeOK'
  BY <1>0, <1>c, WakeoneTypes DEF IInv, TypeOK
<1>2. SleepersListed'
  BY <1>0, <1>c, ListedAfterWakeone DEF IInv
<1>3. NoUnlistedWaiter'
  BY <1>0 DEF IInv, NoUnlistedWaiter
<1>4. /\ wc_threads'["sem_wchan"] = wc_threads["sem_wchan"]
      /\ \A u \in Thread : (In(u, {"P"}))' <=> In(u, {"P"})
  BY <1>0, <1>c, WakeoneElsewhere
<1>5. /\ wc_threads'["lk_wchan"] = wc_threads["lk_wchan"]
      /\ \A u \in Thread : (In(u, {"lock_acquire"}))' <=> In(u, {"lock_acquire"})
  BY <1>0, <1>c, WakeoneElsewhere
<1>6. UnitsSpokenFor'
  BY <1>0, <1>4, UnitsUntouched
<1>7. FreeLockSpokenFor'
  BY <1>0, <1>5 DEF IInv, FreeLockSpokenFor
<1> QED BY <1>1, <1>2, <1>3, <1>6, <1>7 DEF IInv

LEMMA CvBroadcastStep ==
  ASSUME IInv, cv_broadcast
  PROVE  IInv'
<1>0. /\ wchan_wakeall("cv_wchan") /\ pc' = pc
      /\ sem_count' = sem_count /\ lk_holder' = lk_holder /\ cv_wchanlock' = cv_wchanlock
  BY DEF cv_broadcast
<1>c. "sem_wchan" \in Channel /\ "lk_wchan" \in Channel /\ "cv_wchan" \in Channel
  BY DEF Channel
<1>a. /\ wc_threads' \in [Channel -> Seq(Thread)]
      /\ \A d \in Channel : d # "cv_wchan" => wc_threads'[d] = wc_threads[d]
      /\ t_state' = [u \in Thread |-> IF OnList(u, "cv_wchan") THEN "S_RUN" ELSE t_state[u]]
      /\ t_state' \in [Thread -> {"S_RUN", "S_SLEEP"}]
  BY <1>0, <1>c, WchanWakeall DEF IInv
<1>1. TypeOK'
  BY <1>0, <1>a DEF IInv, TypeOK
<1>2. SleepersListed'
  BY <1>0, <1>c, ListedAfterWakeall DEF IInv
<1>3. NoUnlistedWaiter'
  BY <1>0 DEF IInv, NoUnlistedWaiter
<1>4. \A u \in Thread : pc[u] \in {"P", "lock_acquire"} => t_state'[u] = t_state[u]
  <2> TAKE u \in Thread
  <2> HAVE pc[u] \in {"P", "lock_acquire"}
  <2>1. "cv_wchan" \notin ChannelOf(pc[u])
    BY DEF ChannelOf
  <2>2. ~OnList(u, "cv_wchan")
    BY <1>c, <2>1 DEF IInv, SleepersListed
  <2> QED BY <1>a, <2>2
<1>5. /\ \A u \in Thread : (In(u, {"P"}))' <=> In(u, {"P"})
      /\ \A u \in Thread : (In(u, {"lock_acquire"}))' <=> In(u, {"lock_acquire"})
  BY <1>0, <1>4 DEF In
<1>6. UnitsSpokenFor'
  BY <1>0, <1>a, <1>c, <1>5, UnitsUntouched
<1>7. FreeLockSpokenFor'
  BY <1>0, <1>a, <1>c, <1>5 DEF IInv, FreeLockSpokenFor
<1> QED BY <1>1, <1>2, <1>3, <1>6, <1>7 DEF IInv

LEMMA NextIInv == IInv /\ [Next]_vars => IInv'
<1> SUFFICES ASSUME IInv, [Next]_vars PROVE IInv'
  OBVIOUS
<1>1. ASSUME NEW t \in Thread, P(t) PROVE IInv'
  BY <1>1, PStep
<1>2. ASSUME NEW t \in Thread, lock_acquire(t) PROVE IInv'
  BY <1>2, LockAcquireStep
<1>3. ASSUME NEW t \in Thread, lock_release(t) PROVE IInv'
  BY <1>3, LockReleaseStep
<1>4. ASSUME NEW t \in Thread, cv_wait(t) PROVE IInv'
  BY <1>4, CvWaitStep
<1>5. ASSUME NEW t \in Thread, cv_sleep(t) PROVE IInv'
  BY <1>5, CvSleepStep
<1>6. ASSUME NEW t \in Thread, cv_wakeup(t) PROVE IInv'
  BY <1>6, CvWakeupStep
<1>7. CASE V
  BY <1>7, VStep
<1>8. CASE cv_signal
  BY <1>8, CvSignalStep
<1>9. CASE cv_broadcast
  BY <1>9, CvBroadcastStep
<1>10. CASE UNCHANGED vars
  <2>0. /\ sem_count' = sem_count /\ lk_holder' = lk_holder /\ cv_wchanlock' = cv_wchanlock
        /\ wc_threads' = wc_threads /\ t_state' = t_state /\ pc' = pc
    BY <1>10 DEF vars
  <2>1. TypeOK' /\ NoUnlistedWaiter' /\ FreeLockSpokenFor'
    BY <2>0 DEF IInv, TypeOK, NoUnlistedWaiter, FreeLockSpokenFor, In
  <2>2. SleepersListed'
    BY <2>0, ListedUntouched DEF IInv
  <2>3. UnitsSpokenFor'
    BY <2>0, UnitsUntouched DEF In
  <2> QED BY <2>1, <2>2, <2>3 DEF IInv
<1> QED BY <1>1, <1>2, <1>3, <1>4, <1>5, <1>6, <1>7, <1>8, <1>9, <1>10 DEF Next

(* The safety properties hold in every state of every execution, for any   *)
(* number of threads and any initial count.                                *)
THEOREM Invariance == Spec => []IInv
<1> QED BY InitIInv, NextIInv, PTL DEF Spec

(* Every variable keeps its type. *)
THEOREM TypeCorrect == Spec => []TypeOK
<1>1. IInv => TypeOK
  BY DEF IInv
<1> QED BY <1>1, Invariance, PTL

(* A thread sleeps exactly when it is on the list of the one channel it    *)
(* sleeps on: thread_switch puts it there before it lets the spinlock go.  *)
THEOREM SleepersAreListed == Spec => []SleepersListed
<1>1. IInv => SleepersListed
  BY DEF IInv
<1> QED BY <1>1, Invariance, PTL

(* No wakeup is lost in P and V, although newcomers overtake the threads   *)
(* that V woke (the comment in P, synch.c:105-116).                        *)
THEOREM NoUnitLost == Spec => []UnitsSpokenFor
<1>1. IInv => UnitsSpokenFor
  BY DEF IInv
<1> QED BY <1>1, Invariance, PTL

(* No wakeup is lost in lock_acquire and lock_release. *)
THEOREM NoFreeLockForgotten == Spec => []FreeLockSpokenFor
<1>1. IInv => FreeLockSpokenFor
  BY DEF IInv
<1> QED BY <1>1, Invariance, PTL

(* cv_wait's spinlock covers the gap between lock_release and wchan_sleep. *)
THEOREM WaitersAreListed == Spec => []NoUnlistedWaiter
<1>1. IInv => NoUnlistedWaiter
  BY DEF IInv
<1> QED BY <1>1, Invariance, PTL

-----------------------------------------------------------------------------
(* Synch implements Monitor.                                               *)

(* Waking a sleeper of the semaphore or of the lock takes nobody from the  *)
(* waiters.                                                                *)
LEMMA WaitingKept ==
  ASSUME IInv, NEW c \in {"sem_wchan", "lk_wchan"}, wchan_wakeone(c),
         NEW u \in Thread, pc'[u] = pc[u]
  PROVE  u \in Waiting' <=> u \in Waiting
<1>1. c \in Channel
  BY DEF Channel
<1>2. CASE wc_threads[c] = <<>>
  BY <1>2 DEF wchan_wakeone, Waiting
<1>3. CASE wc_threads[c] # <<>>
  <2>1. PICK h \in Thread :
           /\ t_state[h] = "S_SLEEP" /\ ChannelOf(pc[h]) = {c}
           /\ \A v \in Thread : v # h => t_state'[v] = t_state[v]
    BY <1>1, <1>3, WokenBy
  <2>2. pc[h] \notin {"cv_release", "cv_wait"}
    BY <2>1 DEF ChannelOf
  <2> QED BY <2>1, <2>2 DEF Waiting
<1> QED BY <1>2, <1>3

LEMMA RefineP ==
  ASSUME IInv, NEW t \in Thread, P(t)
  PROVE  Mon!Down \/ UNCHANGED Mon!mvars
<1>1. /\ pc[t] \in {"none", "P"} /\ lk_holder' = lk_holder
      /\ pc' = [pc EXCEPT ![t] = pc'[t]] /\ pc'[t] \in {"none", "P"}
      /\ \A u \in Thread : u # t => t_state'[u] = t_state[u] /\ pc'[u] = pc[u]
  BY DEF P, In, IInv, TypeOK, wchan_sleep
<1>2. Waiting' = Waiting
  BY <1>1 DEF Waiting
<1> QED BY <1>1, <1>2 DEF P, Mon!Down, Mon!mvars

LEMMA RefineV ==
  ASSUME IInv, V
  PROVE  Mon!Up
<1>1. \A u \in Thread : u \in Waiting' <=> u \in Waiting
  BY WaitingKept DEF V
<1>2. Waiting' = Waiting
  BY <1>1 DEF Waiting
<1> QED BY <1>2 DEF V, Mon!Up

LEMMA RefineAcquire ==
  ASSUME IInv, NEW t \in Thread, lock_acquire(t)
  PROVE  Mon!Enter(t) \/ UNCHANGED Mon!mvars
<1>1. /\ pc[t] \in {"none", "lock_acquire"} /\ sem_count' = sem_count
      /\ pc'[t] \in {"none", "lock_acquire"}
      /\ \A u \in Thread : u # t => t_state'[u] = t_state[u] /\ pc'[u] = pc[u]
  BY DEF lock_acquire, In, IInv, TypeOK, wchan_sleep
<1>2. Waiting' = Waiting /\ t \notin Waiting
  BY <1>1 DEF Waiting
<1> QED BY <1>1, <1>2 DEF lock_acquire, Mon!Enter, Mon!mvars

LEMMA RefineRelease ==
  ASSUME IInv, NEW t \in Thread, lock_release(t)
  PROVE  Mon!Leave(t)
<1>1. \A u \in Thread : u \in Waiting' <=> u \in Waiting
  BY WaitingKept DEF lock_release
<1>2. Waiting' = Waiting
  BY <1>1 DEF Waiting
<1> QED BY <1>2 DEF lock_release, Mon!Leave

LEMMA RefineWait ==
  ASSUME IInv, NEW t \in Thread, cv_wait(t)
  PROVE  Mon!Wait(t)
<1>1. /\ wchan_wakeone("lk_wchan") /\ lk_holder = t /\ lk_holder' = NoThread
      /\ sem_count' = sem_count /\ pc' = [pc EXCEPT ![t] = "cv_release"]
  BY DEF cv_wait
<1>2. \A u \in Thread : u # t => (u \in Waiting' <=> u \in Waiting)
  <2> TAKE u \in Thread
  <2> HAVE u # t
  <2>1. pc'[u] = pc[u]
    BY <1>1 DEF IInv, TypeOK
  <2> QED BY <1>1, <2>1, WaitingKept
<1>3. t \in Waiting'
  BY <1>1 DEF IInv, TypeOK, Waiting
<1>4. Waiting' = Waiting \cup {t}
  BY <1>2, <1>3 DEF Waiting
<1> QED BY <1>1, <1>4 DEF Mon!Wait

LEMMA RefineCvSleep ==
  ASSUME IInv, NEW t \in Thread, cv_sleep(t)
  PROVE  UNCHANGED Mon!mvars
<1>1. /\ pc[t] = "cv_release" /\ pc'[t] = "cv_wait" /\ t_state'[t] = "S_SLEEP"
      /\ \A u \in Thread : u # t => t_state'[u] = t_state[u] /\ pc'[u] = pc[u]
  BY DEF cv_sleep, In, IInv, TypeOK, wchan_sleep
<1>2. Waiting' = Waiting
  BY <1>1 DEF Waiting
<1> QED BY <1>2 DEF cv_sleep, Mon!mvars

LEMMA RefineCvWakeup ==
  ASSUME IInv, NEW t \in Thread, cv_wakeup(t)
  PROVE  UNCHANGED Mon!mvars
<1>1. /\ pc[t] = "cv_wait" /\ pc'[t] = "lock_acquire" /\ t_state[t] = "S_RUN"
      /\ \A u \in Thread : u # t => pc'[u] = pc[u]
      /\ t_state' = t_state
  BY DEF cv_wakeup, In, IInv, TypeOK
<1>2. Waiting' = Waiting
  BY <1>1 DEF Waiting
<1> QED BY <1>2 DEF cv_wakeup, Mon!mvars

LEMMA RefineSignal ==
  ASSUME IInv, cv_signal
  PROVE  (\E h \in Thread : Mon!Signal(h)) \/ UNCHANGED Mon!mvars
<1>0. /\ wchan_wakeone("cv_wchan") /\ "cv_wchan" \in Channel
      /\ pc' = pc /\ sem_count' = sem_count /\ lk_holder' = lk_holder
  BY DEF cv_signal, Channel
<1>1. CASE wc_threads["cv_wchan"] = <<>>
  BY <1>0, <1>1 DEF wchan_wakeone, Waiting, Mon!mvars
<1>2. CASE wc_threads["cv_wchan"] # <<>>
  <2>1. PICK h \in Thread :
           /\ t_state[h] = "S_SLEEP" /\ ChannelOf(pc[h]) = {"cv_wchan"}
           /\ t_state'[h] = "S_RUN"
           /\ \A v \in Thread : v # h => t_state'[v] = t_state[v]
    BY <1>0, <1>2, WokenBy
  <2>2. pc[h] = "cv_wait"
    BY <2>1 DEF ChannelOf
  <2>3. h \in Waiting /\ Waiting' = Waiting \ {h}
    BY <1>0, <2>1, <2>2 DEF Waiting
  <2> QED BY <1>0, <2>3 DEF Mon!Signal
<1> QED BY <1>1, <1>2

LEMMA RefineBroadcast ==
  ASSUME IInv, cv_broadcast
  PROVE  Mon!Broadcast
<1>0. /\ wchan_wakeall("cv_wchan") /\ cv_wchanlock = NoThread /\ pc' = pc
      /\ sem_count' = sem_count /\ lk_holder' = lk_holder /\ "cv_wchan" \in Channel
  BY DEF cv_broadcast, Channel
<1>1. t_state' = [u \in Thread |-> IF OnList(u, "cv_wchan") THEN "S_RUN" ELSE t_state[u]]
  BY <1>0, WchanWakeall DEF IInv
<1>2. ASSUME NEW u \in Thread PROVE u \notin Waiting'
  <2>1. pc[u] # "cv_release"
    BY <1>0, SynchAssumption DEF IInv, NoUnlistedWaiter
  <2>2. ASSUME pc[u] = "cv_wait" PROVE t_state'[u] # "S_SLEEP"
    <3>1. "cv_wchan" \in ChannelOf(pc[u])
      BY <2>2 DEF ChannelOf
    <3>2. t_state[u] = "S_SLEEP" => OnList(u, "cv_wchan")
      BY <1>0, <3>1 DEF IInv, SleepersListed
    <3> QED BY <1>1, <3>2
  <2> QED BY <1>0, <2>1, <2>2 DEF Waiting
<1>3. Waiting' = {}
  BY <1>2 DEF Waiting
<1> QED BY <1>0, <1>3 DEF Mon!Broadcast

(* The primitives implement Monitor, for any number of threads: each call  *)
(* takes effect in one of its steps, and wait's effect is lock_release.    *)
THEOREM Refinement == Spec => ImplementsMonitor
<1>1. Init => Mon!MonitorInit
  BY SynchAssumption DEF Init, Mon!MonitorInit, Waiting
<1>2. IInv /\ [Next]_vars => [Mon!MonitorNext]_(Mon!mvars)
  <2> SUFFICES ASSUME IInv, [Next]_vars
               PROVE  Mon!MonitorNext \/ UNCHANGED Mon!mvars
    OBVIOUS
  <2>1. ASSUME NEW t \in Thread, P(t) PROVE Mon!MonitorNext \/ UNCHANGED Mon!mvars
    BY <2>1, RefineP DEF Mon!MonitorNext
  <2>2. ASSUME NEW t \in Thread, lock_acquire(t)
        PROVE  Mon!MonitorNext \/ UNCHANGED Mon!mvars
    BY <2>2, RefineAcquire DEF Mon!MonitorNext
  <2>3. ASSUME NEW t \in Thread, lock_release(t)
        PROVE  Mon!MonitorNext \/ UNCHANGED Mon!mvars
    BY <2>3, RefineRelease DEF Mon!MonitorNext
  <2>4. ASSUME NEW t \in Thread, cv_wait(t)
        PROVE  Mon!MonitorNext \/ UNCHANGED Mon!mvars
    BY <2>4, RefineWait DEF Mon!MonitorNext
  <2>5. ASSUME NEW t \in Thread, cv_sleep(t) PROVE UNCHANGED Mon!mvars
    BY <2>5, RefineCvSleep
  <2>6. ASSUME NEW t \in Thread, cv_wakeup(t) PROVE UNCHANGED Mon!mvars
    BY <2>6, RefineCvWakeup
  <2>7. CASE V
    BY <2>7, RefineV DEF Mon!MonitorNext
  <2>8. CASE cv_signal
    BY <2>8, RefineSignal DEF Mon!MonitorNext
  <2>9. CASE cv_broadcast
    BY <2>9, RefineBroadcast DEF Mon!MonitorNext
  <2>10. CASE UNCHANGED vars
    BY <2>10 DEF vars, Mon!mvars, Waiting
  <2> QED BY <2>1, <2>2, <2>3, <2>4, <2>5, <2>6, <2>7, <2>8, <2>9, <2>10 DEF Next
<1> QED BY <1>1, <1>2, Invariance, PTL DEF Spec, ImplementsMonitor, Mon!MonitorSpec
=============================================================================
