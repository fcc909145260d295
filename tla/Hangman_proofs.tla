-------------------------- MODULE Hangman_proofs --------------------------
(***************************************************************************)
(* Proofs about Hangman, for every number of cpus and of locks: the        *)
(* detector panics only when it has to.  That it does then is liveness,    *)
(* and stays with TLC.                                                     *)
(***************************************************************************)
EXTENDS Hangman, TLAPS, FiniteSetTheorems, WellFoundedInduction

TypeOK ==
  /\ splk_lock \in [Lockable -> Actor \cup {NULL}]
  /\ l_holding \in [Lockable -> Actor \cup {NULL}]
  /\ a_waiting \in [Actor -> Lockable \cup {NULL}]
  /\ want \in [Actor -> Lockable \cup {NULL}]
  /\ cur \in [Actor -> Actor \cup {NULL}]
  /\ pc \in [Actor -> Place]

(* What an actor's records are, place by place. *)
ActorsRight == \A a \in Actor :
  /\ pc[a] # "confused"
  /\ pc[a] # "run" => want[a] \in Lockable
  /\ a_waiting[a] = IF pc[a] \in {"spin", "got"} THEN want[a] ELSE NULL
  /\ pc[a] \in {"got", "unlock"} => splk_lock[want[a]] = a

(* The record of a lock lags behind its word, at most. *)
HoldersRight == \A l \in Lockable :
  /\ l_holding[l] # NULL => /\ splk_lock[l] = l_holding[l]
                            /\ ~(/\ pc[l_holding[l]] \in {"got", "unlock"}
                                 /\ want[l_holding[l]] = l)
  /\ splk_lock[l] # NULL => \/ l_holding[l] = splk_lock[l]
                            \/ /\ pc[splk_lock[l]] \in {"got", "unlock"}
                               /\ want[splk_lock[l]] = l

OneSearch == \A a, b \in Actor : At(a, "check") /\ At(b, "check") => a = b

(* b is reached from a in n steps of F. *)
Path(F, a, b, n) ==
  \E p \in [0..n -> Actor] : /\ p[0] = a /\ p[n] = b
                             /\ \A i \in 0..(n - 1) : F[p[i]] = p[i + 1]

(* What hangman_check follows: it begins at the lock a is about to wait    *)
(* for, which is not recorded yet.                                         *)
SearchMap(a) ==
  [b \in Actor |-> IF b = a THEN l_holding[want[a]] ELSE NextActor(b)]

RecordedMap == [b \in Actor |-> Recorded(b)]

(* The local variable cur is an actor that the search has come to. *)
SearchRight == \A a \in Actor :
  At(a, "check") /\ cur[a] # NULL =>
    \E n \in Nat : n > 0 /\ Path(SearchMap(a), a, cur[a], n)

DeadlocksRight == \A a \in Actor :
  At(a, "deadlock") => \E n \in Nat : n > 0 /\ Path(RecordedMap, a, a, n)

IInv == /\ TypeOK /\ ActorsRight /\ HoldersRight
        /\ OneSearch /\ SearchRight /\ DeadlocksRight

-----------------------------------------------------------------------------
(* Paths.                                                                  *)

LEMMA LeastNat ==
  ASSUME NEW S, S \subseteq Nat, S # {}
  PROVE  \E m \in S : \A k \in S : m <= k
<1> DEFINE R == OpToRel(<, Nat)
<1>1. IsWellFoundedOn(R, Nat)
  BY NatLessThanWellFounded
<1>2. \A x, y \in Nat : <<y, x>> \in R <=> y < x
  BY DEF OpToRel
<1> HIDE DEF R
<1>3. PICK m \in S : \A y \in S : ~ (<<y, m>> \in R)
  BY <1>1, WFMin
<1>4. ASSUME NEW k \in S PROVE m <= k
  <2>1. k \in Nat /\ m \in Nat
    OBVIOUS
  <2>2. ~ (k < m)
    BY <1>2, <1>3, <2>1
  <2> QED BY <2>1, <2>2
<1> QED BY <1>4

(* A path that comes to the same actor twice can be cut short. *)
LEMMA Shortcut ==
  ASSUME NEW F, NEW a \in Actor, NEW n \in Nat, NEW p \in [0..n -> Actor],
         p[0] = a, p[n] = a, \A k \in 0..(n - 1) : F[p[k]] = p[k + 1],
         NEW i \in 1..n, NEW j \in 1..n, i < j, p[i] = p[j]
  PROVE  n - (j - i) \in 1..(n - 1) /\ Path(F, a, a, n - (j - i))
<1> DEFINE m == n - (j - i)
           q == [k \in 0..m |-> IF k <= i THEN p[k] ELSE p[k + (j - i)]]
<1>1. m \in 1..(n - 1) /\ i \in Nat /\ j \in Nat /\ i <= m
  OBVIOUS
<1>2. ASSUME NEW k \in 0..m
      PROVE  /\ k <= i => k \in 0..n
             /\ k >= i => k + (j - i) \in 0..n
  BY <1>1
<1>3. q \in [0..m -> Actor]
  <2>1. ASSUME NEW k \in 0..m
        PROVE  (IF k <= i THEN p[k] ELSE p[k + (j - i)]) \in Actor
    BY <1>1, <1>2
  <2> QED BY <2>1
<1>4. \A k \in 0..m : q[k] = IF k <= i THEN p[k] ELSE p[k + (j - i)]
  OBVIOUS
<1>5. q[0] = a
  BY <1>1, <1>4
<1> HIDE DEF q
<1>6. q[m] = a
  <2>1. CASE m = i
    <3>1. j = n
      BY <2>1
    <3> QED BY <1>1, <1>4, <2>1, <3>1
  <2>2. CASE m # i
    <3>1. m > i
      BY <1>1, <2>2
    <3>2. m + (j - i) = n
      BY <1>1
    <3>3. q[m] = p[m + (j - i)]
      BY <1>1, <1>4, <3>1
    <3> QED BY <3>2, <3>3
  <2> QED BY <2>1, <2>2
<1>7. ASSUME NEW k \in 0..(m - 1) PROVE F[q[k]] = q[k + 1]
  <2>0. k \in 0..m /\ k + 1 \in 0..m /\ k \in Nat
    BY <1>1
  <2>1. CASE k < i
    <3>1. q[k] = p[k] /\ q[k + 1] = p[k + 1]
      BY <1>1, <1>4, <2>0, <2>1
    <3>2. k \in 0..(n - 1)
      BY <1>1
    <3> QED BY <3>1, <3>2
  <2>2. CASE k = i
    <3>1. q[k] = p[j] /\ q[k + 1] = p[j + 1]
      <4>1. q[k] = p[k] /\ q[k + 1] = p[k + 1 + (j - i)]
        BY <1>1, <1>4, <2>0, <2>2
      <4>2. k + 1 + (j - i) = j + 1
        BY <1>1, <2>2
      <4> QED BY <4>1, <4>2, <2>2
    <3>2. j \in 0..(n - 1)
      BY <1>1, <2>2
    <3> QED BY <3>1, <3>2
  <2>3. CASE k > i
    <3>1. q[k] = p[k + (j - i)] /\ q[k + 1] = p[k + 1 + (j - i)]
      BY <1>1, <1>4, <2>0, <2>3
    <3>2. k + (j - i) \in 0..(n - 1) /\ k + 1 + (j - i) = (k + (j - i)) + 1
      BY <1>1, <2>0
    <3> QED BY <3>1, <3>2
  <2> QED BY <1>1, <2>0, <2>1, <2>2, <2>3
<1>8. Path(F, a, a, m)
  BY <1>3, <1>5, <1>6, <1>7 DEF Path
<1> QED BY <1>1, <1>8

(* An actor that is on a cycle is on one in which no actor comes twice.    *)
LEMMA ShortCycle ==
  ASSUME NEW F, NEW a \in Actor, NEW n \in Nat, n > 0, Path(F, a, a, n)
  PROVE  \E m \in 1..Cardinality(Actor) : Path(F, a, a, m)
<1> DEFINE S == {m \in Nat : m > 0 /\ Path(F, a, a, m)}
<1>1. PICK m \in S : \A k \in S : m <= k
  <2>1. S \subseteq Nat /\ n \in S
    OBVIOUS
  <2> HIDE DEF S
  <2> QED BY <2>1, LeastNat
<1>2. m \in Nat /\ m > 0 /\ Path(F, a, a, m)
  OBVIOUS
<1>3. \A k \in Nat : k > 0 /\ Path(F, a, a, k) => m <= k
  BY <1>1
<1> HIDE DEF S
<1>4. Cardinality(Actor) \in Nat
  BY HangmanAssumption, FS_CardinalityType
<1>5. CASE m <= Cardinality(Actor)
  BY <1>2, <1>4, <1>5
<1>6. CASE m > Cardinality(Actor)
  <2>1. PICK p \in [0..m -> Actor] : /\ p[0] = a /\ p[m] = a
                                     /\ \A i \in 0..(m - 1) : F[p[i]] = p[i + 1]
    BY <1>2 DEF Path
  <2>2. IsFiniteSet(1..m) /\ Cardinality(1..m) = m
    BY <1>2, FS_Interval
  <2> DEFINE f == [i \in 1..m |-> p[i]]
  <2>3. f \in [1..m -> Actor]
    BY <1>2
  <2>4. \E x, y \in 1..m : x # y /\ f[x] = f[y]
    <3> HIDE DEF f
    <3> QED BY <1>4, <1>6, <2>2, <2>3, HangmanAssumption, FS_PigeonHole
  <2>5. PICK i \in 1..m, j \in 1..m : i < j /\ p[i] = p[j]
    BY <1>2, <2>4
  <2>6. m - (j - i) \in 1..(m - 1) /\ Path(F, a, a, m - (j - i))
    BY <1>2, <2>1, <2>5, Shortcut
  <2> QED BY <1>2, <1>3, <2>6
<1> QED BY <1>2, <1>4, <1>5, <1>6

(* A path stays when its steps do; one more step makes it longer. *)
LEMMA PathKept ==
  ASSUME NEW F, NEW G, NEW a \in Actor, NEW b \in Actor, NEW n \in Nat,
         Path(F, a, b, n), \A c \in Actor : F[c] \in Actor => G[c] = F[c]
  PROVE  Path(G, a, b, n)
<1>1. PICK p \in [0..n -> Actor] : /\ p[0] = a /\ p[n] = b
                                   /\ \A i \in 0..(n - 1) : F[p[i]] = p[i + 1]
  BY DEF Path
<1>2. ASSUME NEW i \in 0..(n - 1) PROVE G[p[i]] = p[i + 1]
  <2>1. p[i] \in Actor /\ p[i + 1] \in Actor
    OBVIOUS
  <2> QED BY <1>1, <2>1
<1> QED BY <1>1, <1>2 DEF Path

LEMMA CycleKept ==
  ASSUME NEW F, NEW G, NEW a \in Actor, NEW n \in Nat, n > 0, Path(F, a, a, n),
         \A c \in Actor : F[c] \in Actor /\ F[F[c]] \in Actor => G[c] = F[c]
  PROVE  Path(G, a, a, n)
<1>1. PICK p \in [0..n -> Actor] : /\ p[0] = a /\ p[n] = a
                                   /\ \A i \in 0..(n - 1) : F[p[i]] = p[i + 1]
  BY DEF Path
<1>2. ASSUME NEW i \in 0..(n - 1) PROVE G[p[i]] = p[i + 1]
  <2>1. p[i] \in Actor /\ p[i + 1] \in Actor /\ F[p[i]] = p[i + 1]
    BY <1>1
  <2>2. F[p[i + 1]] \in Actor
    <3>1. CASE i = n - 1
      <4>1. p[i + 1] = p[0] /\ F[p[0]] = p[0 + 1] /\ p[0 + 1] \in Actor
        BY <1>1, <3>1
      <4> QED BY <4>1
    <3>2. CASE i # n - 1
      <4>1. i + 1 \in 0..(n - 1)
        BY <3>2
      <4>2. F[p[i + 1]] = p[(i + 1) + 1] /\ p[(i + 1) + 1] \in Actor
        BY <1>1, <4>1
      <4> QED BY <4>2
    <3> QED BY <3>1, <3>2
  <2> QED BY <2>1, <2>2
<1> QED BY <1>1, <1>2 DEF Path

LEMMA PathLonger ==
  ASSUME NEW F, NEW a \in Actor, NEW b \in Actor, NEW n \in Nat, Path(F, a, b, n),
         F[b] \in Actor
  PROVE  Path(F, a, F[b], n + 1)
<1>1. PICK p \in [0..n -> Actor] : /\ p[0] = a /\ p[n] = b
                                   /\ \A i \in 0..(n - 1) : F[p[i]] = p[i + 1]
  BY DEF Path
<1> DEFINE q == [i \in 0..(n + 1) |-> IF i <= n THEN p[i] ELSE F[b]]
<1>2. q \in [0..(n + 1) -> Actor]
  <2>1. \A i \in 0..(n + 1) : i <= n => i \in 0..n
    OBVIOUS
  <2> QED BY <2>1
<1>3. /\ \A i \in 0..(n + 1) : q[i] = IF i <= n THEN p[i] ELSE F[b]
      /\ q[0] = a /\ q[n + 1] = F[b]
  BY <1>1
<1> HIDE DEF q
<1>4. ASSUME NEW i \in 0..((n + 1) - 1) PROVE F[q[i]] = q[i + 1]
  <2>1. i \in 0..(n + 1) /\ i + 1 \in 0..(n + 1) /\ i <= n /\ i \in Nat
    OBVIOUS
  <2>2. CASE i = n
    BY <1>1, <1>3, <2>1, <2>2
  <2>3. CASE i < n
    <3>1. i \in 0..(n - 1) /\ i + 1 <= n
      BY <2>1, <2>3
    <3> QED BY <1>1, <1>3, <2>1, <3>1
  <2> QED BY <2>1, <2>2, <2>3
<1> QED BY <1>2, <1>3, <1>4 DEF Path

LEMMA PathOne ==
  ASSUME NEW F, NEW a \in Actor, F[a] \in Actor
  PROVE  Path(F, a, F[a], 1)
<1> DEFINE q == [i \in 0..1 |-> IF i = 0 THEN a ELSE F[a]]
<1>1. q \in [0..1 -> Actor] /\ q[0] = a /\ q[1] = F[a]
  OBVIOUS
<1>2. 1 - 1 = 0 /\ 0 + 1 = 1 /\ \A i \in 0..0 : i = 0
  OBVIOUS
<1> HIDE DEF q
<1>3. \A i \in 0..(1 - 1) : F[q[i]] = q[i + 1]
  BY <1>1, <1>2
<1> QED BY <1>1, <1>3 DEF Path

-----------------------------------------------------------------------------
(* What the records say.                                                   *)

(* Who is recorded as waiting for somebody does wait for that one, and has *)
(* not got the lock.                                                       *)
LEMMA Waiter ==
  ASSUME IInv, NEW b \in Actor, Recorded(b) \in Actor
  PROVE  /\ pc[b] \in {"spin", "deadlock"} /\ want[b] \in Lockable
         /\ Recorded(b) = l_holding[want[b]] /\ splk_lock[want[b]] = Recorded(b)
         /\ Blocker(b) = Recorded(b)
<1>1. NULL \notin Actor
  BY HangmanAssumption
<1>2. pc[b] \in {"spin", "got", "deadlock"} /\ want[b] \in Lockable
  BY <1>1 DEF IInv, ActorsRight, Recorded
<1>3. Recorded(b) = l_holding[want[b]]
  BY <1>1, <1>2, HangmanAssumption DEF IInv, ActorsRight, Recorded
<1>4. splk_lock[want[b]] = Recorded(b) /\ pc[b] # "got"
  BY <1>1, <1>2, <1>3 DEF IInv, ActorsRight, HoldersRight
<1> QED BY <1>2, <1>3, <1>4 DEF Blocker

(* Actors that wait for actors that wait: nobody changes their records.    *)
LEMMA DeadlocksKept ==
  ASSUME IInv,
         \A c \in Actor :
           /\ pc[c] \in {"spin", "deadlock"} /\ l_holding[want[c]] \in Actor
           /\ pc[l_holding[want[c]]] \in {"spin", "deadlock"}
           => /\ pc'[c] = pc[c] /\ want'[c] = want[c] /\ a_waiting'[c] = a_waiting[c]
              /\ l_holding'[want[c]] = l_holding[want[c]]
  PROVE  \A a \in Actor :
           At(a, "deadlock") => \E n \in Nat : n > 0 /\ Path(RecordedMap', a, a, n)
<1>1. ASSUME NEW c \in Actor, Recorded(c) \in Actor, NEW d \in Actor, d = Recorded(c),
             Recorded(d) \in Actor
      PROVE  Recorded(c)' = Recorded(c)
  <2>1. pc'[c] = pc[c] /\ want'[c] = want[c] /\ a_waiting'[c] = a_waiting[c]
        /\ l_holding'[want[c]] = l_holding[want[c]]
    BY <1>1, Waiter
  <2>2. pc[c] \in {"spin", "deadlock"} /\ want[c] \in Lockable
    BY <1>1, Waiter
  <2>3. a_waiting[c] = IF pc[c] = "spin" THEN want[c] ELSE NULL
    BY <2>2 DEF IInv, ActorsRight
  <2> QED BY <2>1, <2>2, <2>3, HangmanAssumption DEF Recorded
<1>2. \A c \in Actor : RecordedMap[c] = Recorded(c) /\ RecordedMap'[c] = Recorded(c)'
  BY DEF RecordedMap
<1>3. \A c \in Actor : RecordedMap[c] \in Actor /\ RecordedMap[RecordedMap[c]] \in Actor
                       => RecordedMap'[c] = RecordedMap[c]
  BY <1>1, <1>2
<1> SUFFICES ASSUME NEW a \in Actor, At(a, "deadlock")
             PROVE  \E n \in Nat : n > 0 /\ Path(RecordedMap', a, a, n)
  OBVIOUS
<1>4. PICK n \in Nat : n > 0 /\ Path(RecordedMap, a, a, n)
  BY DEF IInv, DeadlocksRight
<1>5. PICK F, G : F = RecordedMap /\ G = RecordedMap'
  OBVIOUS
<1>6. Path(F, a, a, n)
  BY <1>4, <1>5 DEF Path
<1>7. Path(G, a, a, n)
  BY <1>3, <1>4, <1>5, <1>6, CycleKept
<1> QED BY <1>4, <1>5, <1>7 DEF Path

(* A search is disturbed by nobody who has not got hangman_lock. *)
LEMMA SearchKept ==
  ASSUME IInv, UNCHANGED <<l_holding, a_waiting>>,
         \A b \in Actor : At(b, "check")' =>
           At(b, "check") /\ cur'[b] = cur[b] /\ want'[b] = want[b]
  PROVE  SearchRight'
<1> SUFFICES ASSUME NEW b \in Actor, At(b, "check")', cur'[b] # NULL
             PROVE  (\E n \in Nat : n > 0 /\ Path(SearchMap(b), b, cur[b], n))'
  BY DEF SearchRight
<1>1. At(b, "check") /\ cur'[b] = cur[b] /\ want'[b] = want[b]
  OBVIOUS
<1>2. SearchMap(b)' = SearchMap(b)
  BY <1>1 DEF SearchMap, NextActor
<1>3. PICK n \in Nat : n > 0 /\ Path(SearchMap(b), b, cur[b], n)
  BY <1>1 DEF IInv, SearchRight
<1> QED BY <1>1, <1>2, <1>3 DEF Path

LEMMA InitIInv == Init => IInv
<1> SUFFICES ASSUME Init PROVE IInv
  OBVIOUS
<1>1. TypeOK /\ ActorsRight /\ HoldersRight
  BY HangmanAssumption DEF Init, TypeOK, ActorsRight, HoldersRight, Place
<1>2. OneSearch /\ SearchRight /\ DeadlocksRight
  BY DEF Init, OneSearch, SearchRight, DeadlocksRight, At
<1> QED BY <1>1, <1>2 DEF IInv

-----------------------------------------------------------------------------
(* The steps.                                                              *)

LEMMA spinlock_acquireStep ==
  ASSUME IInv, NEW a \in Actor, NEW l \in Lockable, spinlock_acquire(a, l)
  PROVE  IInv'
<1> USE DEF spinlock_acquire, Goto, At
<1>1. TypeOK'
  BY DEF IInv, TypeOK, Place
<1>2. ActorsRight'
  BY HangmanAssumption DEF IInv, TypeOK, ActorsRight
<1>3. HoldersRight'
  BY HangmanAssumption DEF IInv, TypeOK, ActorsRight, HoldersRight
<1>4. OneSearch'
  BY DEF IInv, TypeOK, OneSearch
<1>5. SearchRight'
  BY SearchKept DEF IInv, TypeOK
<1>6. DeadlocksRight'
  <2>1. \A c \in Actor : pc[c] = "deadlock" =>
          \E n \in Nat : n > 0 /\ Path(RecordedMap', c, c, n)
    BY DeadlocksKept DEF IInv, TypeOK
  <2>2. CASE splk_lock[l] = a
    <3>1. l_holding[l] = a
      BY <2>2, HangmanAssumption DEF IInv, HoldersRight
    <3>2. RecordedMap'[a] = a
      BY <2>2, <3>1, HangmanAssumption DEF IInv, TypeOK, RecordedMap, Recorded
    <3>3. PICK F : F = RecordedMap'
      OBVIOUS
    <3>4. Path(F, a, a, 1)
      BY <3>2, <3>3, PathOne
    <3>5. \A c \in Actor : pc'[c] = "deadlock" => c = a \/ pc[c] = "deadlock"
      BY DEF IInv, TypeOK
    <3>6. Path(RecordedMap', a, a, 1)
      BY <3>3, <3>4 DEF Path
    <3>7. SUFFICES ASSUME NEW c \in Actor, pc'[c] = "deadlock"
                   PROVE  \E n \in Nat : n > 0 /\ Path(RecordedMap', c, c, n)
      BY DEF DeadlocksRight, Path
    <3>8. CASE c = a
      BY <3>6, <3>8
    <3> QED BY <2>1, <3>5, <3>7, <3>8
  <2>3. CASE splk_lock[l] # a
    <3>1. \A c \in Actor : pc'[c] = "deadlock" => pc[c] = "deadlock"
      BY <2>3 DEF IInv, TypeOK
    <3> QED BY <2>1, <3>1 DEF DeadlocksRight, Path
  <2> QED BY <2>2, <2>3
<1> QED BY <1>1, <1>2, <1>3, <1>4, <1>5, <1>6 DEF IInv

LEMMA hangman_waitStep ==
  ASSUME IInv, NEW a \in Actor, hangman_wait(a)
  PROVE  IInv'
<1> USE DEF hangman_wait, HangmanLockFree, Goto, At
<1>0. /\ a_waiting[a] = NULL /\ want[a] \in Lockable
      /\ cur' = [cur EXCEPT ![a] = l_holding[want[a]]] /\ pc' = [pc EXCEPT ![a] = "check"]
      /\ UNCHANGED <<splk_lock, l_holding, a_waiting, want>>
      /\ pc[a] = "wait" /\ \A b \in Actor : pc[b] # "check"
  BY DEF IInv, ActorsRight
<1> HIDE DEF hangman_wait
<1>1. TypeOK'
  BY <1>0 DEF IInv, TypeOK, Place
<1>2. ActorsRight'
  BY <1>0 DEF IInv, TypeOK, ActorsRight
<1>3. HoldersRight'
  BY <1>0, HangmanAssumption DEF IInv, TypeOK, HoldersRight
<1>4. OneSearch'
  BY <1>0 DEF IInv, TypeOK, OneSearch
<1>5. SearchRight'
  <2> SUFFICES ASSUME NEW b \in Actor, At(b, "check")', cur'[b] # NULL
               PROVE  (\E n \in Nat : n > 0 /\ Path(SearchMap(b), b, cur[b], n))'
    BY DEF SearchRight
  <2>1. b = a /\ cur'[a] = l_holding[want[a]] /\ cur'[a] \in Actor
    BY <1>0 DEF IInv, TypeOK
  <2>2. PICK F : F = SearchMap(a)'
    OBVIOUS
  <2>3. F[a] = cur'[a]
    BY <1>0, <2>1, <2>2 DEF SearchMap
  <2>4. Path(F, a, F[a], 1)
    BY <2>1, <2>3, PathOne
  <2>5. 1 \in Nat /\ 1 > 0
    OBVIOUS
  <2> QED BY <2>1, <2>2, <2>3, <2>4, <2>5 DEF Path
<1>6. DeadlocksRight'
  <2>1. \A c \in Actor : pc'[c] = "deadlock" => pc[c] = "deadlock"
    BY <1>0 DEF IInv, TypeOK
  <2>2. \A c \in Actor : pc[c] = "deadlock" =>
          \E n \in Nat : n > 0 /\ Path(RecordedMap', c, c, n)
    BY <1>0, DeadlocksKept DEF IInv, TypeOK
  <2> QED BY <2>1, <2>2 DEF DeadlocksRight, Path
<1> QED BY <1>1, <1>2, <1>3, <1>4, <1>5, <1>6 DEF IInv

LEMMA CheckTurnStep ==
  ASSUME IInv, NEW a \in Actor, CheckTurn(a)
  PROVE  IInv'
<1> USE DEF CheckTurn, At
<1>0. /\ cur[a] \in Actor /\ cur[a] # a /\ NextActor(cur[a]) \in Actor \cup {NULL}
      /\ cur'[a] = NextActor(cur[a]) /\ \A b \in Actor : pc[b] = "check" => b = a
  BY DEF IInv, TypeOK, OneSearch, NextActor
<1>1. TypeOK'
  BY <1>0 DEF IInv, TypeOK
<1>2. ActorsRight' /\ HoldersRight' /\ OneSearch'
  BY DEF IInv, ActorsRight, HoldersRight, OneSearch
<1>3. SearchRight'
  <2> SUFFICES ASSUME NEW b \in Actor, At(b, "check")', cur'[b] # NULL
               PROVE  (\E n \in Nat : n > 0 /\ Path(SearchMap(b), b, cur[b], n))'
    BY DEF SearchRight
  <2>1. b = a
    BY <1>0
  <2>2. PICK n \in Nat : n > 0 /\ Path(SearchMap(a), a, cur[a], n)
    BY <1>0, HangmanAssumption DEF IInv, SearchRight
  <2>3. PICK F, c : F = SearchMap(a) /\ c = cur[a]
    OBVIOUS
  <2>4. SearchMap(a)' = F
    BY <2>3 DEF SearchMap, NextActor
  <2>5. F[c] = cur'[a] /\ F[c] \in Actor
    BY <1>0, <2>1, <2>3 DEF SearchMap
  <2>6. Path(F, a, F[c], n + 1)
    <3>1. Path(F, a, c, n)
      BY <2>2, <2>3 DEF Path
    <3> QED BY <1>0, <2>3, <2>5, <3>1, PathLonger
  <2>7. n + 1 \in Nat /\ n + 1 > 0
    BY <2>2
  <2> QED BY <2>1, <2>4, <2>5, <2>6, <2>7 DEF Path
<1>4. DeadlocksRight'
  <2>1. RecordedMap' = RecordedMap
    BY DEF RecordedMap, Recorded
  <2> QED BY <2>1 DEF IInv, DeadlocksRight, Path
<1> QED BY <1>1, <1>2, <1>3, <1>4 DEF IInv

LEMMA CheckFoundStep ==
  ASSUME IInv, NEW a \in Actor, CheckFound(a)
  PROVE  IInv'
<1> USE DEF CheckFound, Panic, Goto, At
<1>0. /\ \A b \in Actor : pc[b] = "check" => b = a
      /\ \A b \in Actor : pc'[b] # "check"
  BY DEF IInv, TypeOK, OneSearch
<1>1. TypeOK'
  BY DEF IInv, TypeOK, Place
<1>2. ActorsRight'
  BY DEF IInv, TypeOK, ActorsRight
<1>3. HoldersRight'
  BY HangmanAssumption DEF IInv, TypeOK, HoldersRight
<1>4. OneSearch' /\ SearchRight'
  BY <1>0 DEF OneSearch, SearchRight
<1>5. DeadlocksRight'
  <2>1. \A c \in Actor : pc[c] = "deadlock" =>
          \E n \in Nat : n > 0 /\ Path(RecordedMap', c, c, n)
    BY DeadlocksKept DEF IInv, TypeOK
  <2>2. PICK n \in Nat : n > 0 /\ Path(SearchMap(a), a, cur[a], n)
    BY HangmanAssumption DEF IInv, SearchRight
  <2>3. PICK F, G : F = SearchMap(a) /\ G = RecordedMap'
    OBVIOUS
  <2>4. Path(F, a, a, n)
    BY <2>2, <2>3 DEF Path
  <2>5. ASSUME NEW c \in Actor, F[c] \in Actor PROVE G[c] = F[c]
    <3>1. want[a] \in Lockable /\ pc'[a] = "deadlock" /\ want' = want
      BY DEF IInv, TypeOK, ActorsRight
    <3>2. CASE c = a
      BY <2>3, <3>1, <3>2, HangmanAssumption DEF SearchMap, RecordedMap, Recorded
    <3>3. CASE c # a
      <4>1. F[c] = NextActor(c) /\ a_waiting[c] # NULL /\ F[c] = l_holding[a_waiting[c]]
        BY <2>3, <2>5, <3>3, HangmanAssumption DEF SearchMap, NextActor
      <4>2. pc'[c] = pc[c] /\ pc[c] # "deadlock"
        BY <3>3, <4>1 DEF IInv, TypeOK, ActorsRight
      <4> QED BY <2>3, <4>1, <4>2 DEF RecordedMap, Recorded
    <3> QED BY <3>2, <3>3
  <2>6. Path(G, a, a, n)
    BY <2>4, <2>5, PathKept
  <2>7. \A c \in Actor : pc'[c] = "deadlock" => c = a \/ pc[c] = "deadlock"
    BY DEF IInv, TypeOK
  <2>8. \E m \in Nat : m > 0 /\ Path(RecordedMap', a, a, m)
    BY <2>2, <2>3, <2>6 DEF Path
  <2>9. SUFFICES ASSUME NEW c \in Actor, pc'[c] = "deadlock"
                 PROVE  \E m \in Nat : m > 0 /\ Path(RecordedMap', c, c, m)
    BY DEF DeadlocksRight, Path
  <2>10. CASE c = a
    BY <2>8, <2>10
  <2> QED BY <2>1, <2>7, <2>9, <2>10
<1> QED BY <1>1, <1>2, <1>3, <1>4, <1>5 DEF IInv

LEMMA CheckPassedStep ==
  ASSUME IInv, NEW a \in Actor, CheckPassed(a)
  PROVE  IInv'
<1> USE DEF CheckPassed, Goto, At
<1>0. /\ \A b \in Actor : pc[b] = "check" => b = a
      /\ \A b \in Actor : pc'[b] # "check"
  BY DEF IInv, TypeOK, OneSearch
<1>1. TypeOK'
  BY DEF IInv, TypeOK, ActorsRight, Place
<1>2. ActorsRight'
  BY DEF IInv, TypeOK, ActorsRight
<1>3. HoldersRight'
  BY HangmanAssumption DEF IInv, TypeOK, HoldersRight
<1>4. OneSearch' /\ SearchRight'
  BY <1>0 DEF OneSearch, SearchRight
<1>5. DeadlocksRight'
  <2>1. \A c \in Actor : pc'[c] = "deadlock" => pc[c] = "deadlock"
    BY DEF IInv, TypeOK
  <2>2. \A c \in Actor : pc[c] = "deadlock" =>
          \E n \in Nat : n > 0 /\ Path(RecordedMap', c, c, n)
    BY DeadlocksKept DEF IInv, TypeOK
  <2> QED BY <2>1, <2>2 DEF DeadlocksRight, Path
<1> QED BY <1>1, <1>2, <1>3, <1>4, <1>5 DEF IInv

LEMMA TestAndSetStep ==
  ASSUME IInv, NEW a \in Actor, TestAndSet(a)
  PROVE  IInv'
<1> USE DEF TestAndSet, Goto, At
<1>0. want[a] \in Lockable /\ l_holding[want[a]] = NULL
  BY DEF IInv, ActorsRight, HoldersRight
<1>1. TypeOK'
  BY DEF IInv, TypeOK, Place
<1>2. ActorsRight'
  BY <1>0, HangmanAssumption DEF IInv, TypeOK, ActorsRight
<1>3. HoldersRight'
  BY <1>0, HangmanAssumption DEF IInv, TypeOK, ActorsRight, HoldersRight
<1>4. OneSearch'
  BY DEF IInv, TypeOK, OneSearch
<1>5. SearchRight'
  BY SearchKept DEF IInv, TypeOK
<1>6. DeadlocksRight'
  <2>1. \A c \in Actor : pc'[c] = "deadlock" => pc[c] = "deadlock"
    BY DEF IInv, TypeOK
  <2>2. \A c \in Actor : pc[c] = "deadlock" =>
          \E n \in Nat : n > 0 /\ Path(RecordedMap', c, c, n)
    BY <1>0, HangmanAssumption, DeadlocksKept DEF IInv, TypeOK
  <2> QED BY <2>1, <2>2 DEF DeadlocksRight, Path
<1> QED BY <1>1, <1>2, <1>3, <1>4, <1>5, <1>6 DEF IInv

LEMMA hangman_acquireStep ==
  ASSUME IInv, NEW a \in Actor, hangman_acquire(a)
  PROVE  IInv'
<1>0. /\ want[a] \in Lockable /\ a_waiting[a] = want[a] /\ splk_lock[want[a]] = a
      /\ l_holding[want[a]] = NULL /\ pc[a] = "got" /\ \A b \in Actor : pc[b] # "check"
  <2>1. pc[a] = "got" /\ \A b \in Actor : pc[b] # "check"
    BY DEF hangman_acquire, HangmanLockFree, At
  <2>2. want[a] \in Lockable /\ a_waiting[a] = want[a] /\ splk_lock[want[a]] = a
    BY <2>1 DEF IInv, ActorsRight
  <2> QED BY <2>1, <2>2 DEF IInv, HoldersRight
<1>1. /\ l_holding' = [l_holding EXCEPT ![want[a]] = a]
      /\ a_waiting' = [a_waiting EXCEPT ![a] = NULL] /\ want' = [want EXCEPT ![a] = NULL]
      /\ pc' = [pc EXCEPT ![a] = "run"] /\ UNCHANGED <<splk_lock, cur>>
  BY <1>0 DEF hangman_acquire, Acquired, Goto
<1>2. TypeOK'
  BY <1>0, <1>1 DEF IInv, TypeOK, Place
<1>3. ActorsRight'
  BY <1>0, <1>1 DEF IInv, TypeOK, ActorsRight
<1>4. HoldersRight'
  BY <1>0, <1>1, HangmanAssumption DEF IInv, TypeOK, HoldersRight
<1>5. OneSearch' /\ SearchRight'
  BY <1>0, <1>1 DEF IInv, TypeOK, OneSearch, SearchRight, At
<1>6. DeadlocksRight'
  <2>1. \A c \in Actor : pc'[c] = "deadlock" => pc[c] = "deadlock"
    BY <1>1 DEF IInv, TypeOK
  <2>2. \A c \in Actor : At(c, "deadlock") =>
          \E n \in Nat : n > 0 /\ Path(RecordedMap', c, c, n)
    BY <1>0, <1>1, HangmanAssumption, DeadlocksKept DEF IInv, TypeOK
  <2> QED BY <2>1, <2>2 DEF DeadlocksRight, Path, At
<1> QED BY <1>2, <1>3, <1>4, <1>5, <1>6 DEF IInv

LEMMA hangman_releaseStep ==
  ASSUME IInv, NEW a \in Actor, NEW l \in Lockable, hangman_release(a, l)
  PROVE  IInv'
<1>0. /\ a_waiting[a] = NULL /\ l_holding[l] = a /\ splk_lock[l] = a
      /\ pc[a] = "run" /\ \A b \in Actor : pc[b] # "check"
  <2>1. pc[a] = "run" /\ splk_lock[l] = a /\ \A b \in Actor : pc[b] # "check"
    BY DEF hangman_release, HangmanLockFree, At
  <2> QED BY <2>1, HangmanAssumption DEF IInv, ActorsRight, HoldersRight
<1>1. /\ l_holding' = [l_holding EXCEPT ![l] = NULL] /\ want' = [want EXCEPT ![a] = l]
      /\ pc' = [pc EXCEPT ![a] = "unlock"] /\ UNCHANGED <<splk_lock, a_waiting, cur>>
  BY <1>0 DEF hangman_release, Goto
<1>2. TypeOK'
  BY <1>0, <1>1 DEF IInv, TypeOK, Place
<1>3. ActorsRight'
  BY <1>0, <1>1 DEF IInv, TypeOK, ActorsRight
<1>4. HoldersRight'
  BY <1>0, <1>1, HangmanAssumption DEF IInv, TypeOK, HoldersRight
<1>5. OneSearch' /\ SearchRight'
  BY <1>0, <1>1 DEF IInv, TypeOK, OneSearch, SearchRight, At
<1>6. DeadlocksRight'
  <2>1. \A c \in Actor : pc'[c] = "deadlock" => pc[c] = "deadlock"
    BY <1>1 DEF IInv, TypeOK
  <2>2. \A c \in Actor : At(c, "deadlock") =>
          \E n \in Nat : n > 0 /\ Path(RecordedMap', c, c, n)
    BY <1>0, <1>1, HangmanAssumption, DeadlocksKept DEF IInv, TypeOK
  <2> QED BY <2>1, <2>2 DEF DeadlocksRight, Path, At
<1> QED BY <1>2, <1>3, <1>4, <1>5, <1>6 DEF IInv

LEMMA ClearLockStep ==
  ASSUME IInv, NEW a \in Actor, ClearLock(a)
  PROVE  IInv'
<1> USE DEF ClearLock, Goto, At
<1>0. want[a] \in Lockable /\ splk_lock[want[a]] = a /\ l_holding[want[a]] = NULL
  BY DEF IInv, ActorsRight, HoldersRight
<1>1. TypeOK'
  BY DEF IInv, TypeOK, Place
<1>2. ActorsRight'
  BY <1>0 DEF IInv, TypeOK, ActorsRight
<1>3. HoldersRight'
  BY <1>0, HangmanAssumption DEF IInv, TypeOK, HoldersRight
<1>4. OneSearch'
  BY DEF IInv, TypeOK, OneSearch
<1>5. SearchRight'
  BY SearchKept DEF IInv, TypeOK
<1>6. DeadlocksRight'
  <2>1. \A c \in Actor : pc'[c] = "deadlock" => pc[c] = "deadlock"
    BY DEF IInv, TypeOK
  <2>2. \A c \in Actor : pc[c] = "deadlock" =>
          \E n \in Nat : n > 0 /\ Path(RecordedMap', c, c, n)
    BY DeadlocksKept DEF IInv, TypeOK
  <2> QED BY <2>1, <2>2 DEF DeadlocksRight, Path
<1> QED BY <1>1, <1>2, <1>3, <1>4, <1>5, <1>6 DEF IInv

LEMMA NextIInv == IInv /\ [Next]_vars => IInv'
<1> SUFFICES ASSUME IInv, [Next]_vars PROVE IInv'
  OBVIOUS
<1>1. ASSUME NEW a \in Actor, Request(a) PROVE IInv'
  BY <1>1, spinlock_acquireStep, hangman_releaseStep DEF Request
<1>2. ASSUME NEW a \in Actor, CarryOn(a) PROVE IInv'
  BY <1>2, CheckTurnStep, CheckFoundStep, CheckPassedStep, TestAndSetStep,
     ClearLockStep DEF CarryOn
<1>3. ASSUME NEW a \in Actor, Locking(a) PROVE IInv'
  BY <1>3, hangman_waitStep, hangman_acquireStep DEF Locking
<1>4. CASE UNCHANGED vars
  <2>1. RecordedMap' = RecordedMap
    BY <1>4 DEF vars, RecordedMap, Recorded
  <2>2. \A a \in Actor : SearchMap(a)' = SearchMap(a)
    BY <1>4 DEF vars, SearchMap, NextActor
  <2>3. SearchRight' /\ DeadlocksRight'
    BY <1>4, <2>1, <2>2 DEF vars, IInv, SearchRight, DeadlocksRight, Path, At
  <2>4. TypeOK' /\ ActorsRight' /\ HoldersRight' /\ OneSearch'
    BY <1>4 DEF vars, IInv, TypeOK, ActorsRight, HoldersRight, OneSearch, At
  <2> QED BY <2>3, <2>4 DEF IInv
<1> QED BY <1>1, <1>2, <1>3, <1>4 DEF Next

-----------------------------------------------------------------------------
(* What the detector records is at most one step behind the lock words,    *)
(* hangman_check walks along its records and nothing else, and a cycle of  *)
(* records never changes any more.                                         *)
THEOREM Invariance == Spec => []IInv
  BY InitIInv, NextIInv, PTL DEF Spec

(* The panic of hangman_check, or of spinlock_acquire for a lock the cpu   *)
(* has, is reached in a deadlock only, and the others not at all, for any  *)
(* number of cpus that take and release any number of locks.               *)
THEOREM DetectorIsRight == Spec => []NoFalseAlarm
<1>1. IInv => NoFalseAlarm
  <2> SUFFICES ASSUME IInv, NEW a \in Actor
               PROVE  /\ pc[a] # "confused"
                      /\ pc[a] = "deadlock" => OnCycle(a, Blocker) /\ OnCycle(a, Recorded)
    BY DEF NoFalseAlarm
  <2>1. pc[a] # "confused"
    BY DEF IInv, ActorsRight
  <2>2. ASSUME pc[a] = "deadlock"
        PROVE  OnCycle(a, Blocker) /\ OnCycle(a, Recorded)
    <3>1. PICK n \in Nat : n > 0 /\ Path(RecordedMap, a, a, n)
      BY <2>2 DEF IInv, DeadlocksRight, At
    <3>2. PICK F : F = RecordedMap
      OBVIOUS
    <3>3. Path(F, a, a, n)
      BY <3>1, <3>2 DEF Path
    <3>4. PICK m \in 1..Cardinality(Actor) : Path(F, a, a, m)
      BY <3>1, <3>3, ShortCycle
    <3>5. PICK p \in [0..m -> Actor] : /\ p[0] = a /\ p[m] = a
                                       /\ \A i \in 0..(m - 1) : F[p[i]] = p[i + 1]
      BY <3>4 DEF Path
    <3>6. ASSUME NEW i \in 0..(m - 1)
          PROVE  Recorded(p[i]) = p[i + 1] /\ Blocker(p[i]) = p[i + 1]
      <4>1. p[i] \in Actor /\ p[i + 1] \in Actor
        BY HangmanAssumption, FS_CardinalityType
      <4>2. Recorded(p[i]) = p[i + 1]
        BY <3>2, <3>5, <4>1 DEF RecordedMap
      <4> QED BY <4>1, <4>2, Waiter
    <3> QED BY <3>5, <3>6 DEF OnCycle
  <2> QED BY <2>1, <2>2
<1> QED BY <1>1, Invariance, PTL
=============================================================================
