-------------------------- MODULE OpenFiles_proofs --------------------------
(***************************************************************************)
(* Proofs about OpenFiles, for every number of processes, of open files    *)
(* and of descriptors.                                                     *)
(***************************************************************************)
EXTENDS OpenFiles, TLAPS, FiniteSetTheorems, WellFoundedInduction

(* The states in which file is a reference that is in no table. *)
Holding == {"place", "dup2", "decref", "destroy"}

(* The steps of a fork in which the child has not run. *)
Forking(p) ==
  \/ pc[p] \in {"copy", "unfork"}
  \/ pc[p] \in {"decref", "destroy"} /\ back[p] = "unfork"

(* What the locals of a call are. *)
LocalsRight == \A p \in Proc :
  /\ pc[p] \in Holding => file[p] \in File
  /\ pc[p] = "destroy" => of_refcount[file[p]] = 1
  /\ pc[p] \in {"dup2", "io", "seek", "stream"} => fd[p] \in Fd
  /\ pc[p] \in {"io", "seek"} => pos[p] = of_offset[file[p]]
  /\ pc[p] = "stdfds" => fd[p] <= StdFds

(* The tables of processes that have not run: which entries are empty, and *)
(* whose child has which.                                                  *)
TablesRight == \A p \in Proc :
  /\ pc[p] = "free" => ft_openfiles[p] = EmptyTable
  /\ pc[p] = "stdfds" => \A d \in Fd : d >= fd[p] => ft_openfiles[p][d] = NoFile
  /\ Forking(p) =>
       /\ child[p] \in Proc /\ pc[child[p]] = "embryo"
       /\ \A q \in Proc : Forking(q) /\ child[q] = child[p] => q = p
  /\ pc[p] = "copy" => \A d \in Fd :
       ft_openfiles[child[p]][d] = IF d < fd[p] THEN ft_openfiles[p][d] ELSE NoFile

(* Which open files nobody shares yet, and who shares what dup2 copies. *)
SharingRight == \A p \in Proc :
  /\ pc[p] = "place" => of_refcount[file[p]] = 1 /\ of_offset[file[p]] = 0
  /\ pc[p] = "dup2" => \E d \in Fd : ft_openfiles[p][d] = file[p]
  /\ pc[p] = "stdfds" => \A d \in Fd : ft_openfiles[p][d] # NoFile =>
       of_refcount[ft_openfiles[p][d]] = 1 /\ of_offset[ft_openfiles[p][d]] = 0

IInv == /\ TypeOK /\ RefcountsExact /\ OffsetLockHeld
        /\ LocalsRight /\ TablesRight /\ SharingRight

-----------------------------------------------------------------------------
(* Counting references.                                                    *)

Same(f, g) == IF f = g THEN 1 ELSE 0
Holds(where, what, p, f) == IF where[p] \in Holding /\ what[p] = f THEN 1 ELSE 0

EntriesOf(t, f) == {e \in Proc \X Fd : t[e[1]][e[2]] = f}
HoldersOf(where, what, f) == {p \in Proc : where[p] \in Holding /\ what[p] = f}

LEMMA SameIs == \A f, g : Same(f, g) \in {0, 1}
  BY DEF Same

LEMMA ReferencesFinite ==
  ASSUME NEW t, NEW where, NEW what, NEW f
  PROVE  /\ IsFiniteSet(EntriesOf(t, f)) /\ Cardinality(EntriesOf(t, f)) \in Nat
         /\ IsFiniteSet(HoldersOf(where, what, f))
         /\ Cardinality(HoldersOf(where, what, f)) \in Nat
<1>1. IsFiniteSet(Fd)
  BY FS_Interval, OpenFilesAssumption DEF Fd
<1>2. IsFiniteSet(Proc \X Fd)
  BY <1>1, FS_Product, OpenFilesAssumption
<1>3. EntriesOf(t, f) \subseteq Proc \X Fd /\ HoldersOf(where, what, f) \subseteq Proc
  BY DEF EntriesOf, HoldersOf
<1> QED BY <1>2, <1>3, FS_Subset, FS_CardinalityType, OpenFilesAssumption

LEMMA CountsAre ==
  ASSUME NEW f
  PROVE  /\ Entries(f) = EntriesOf(ft_openfiles, f)
         /\ Holders(f) = HoldersOf(pc, file, f)
  BY DEF Entries, EntriesOf, Holders, HoldersOf, Holding

(* What one new entry does to the number of entries that refer to f. *)
LEMMA CountEntries ==
  ASSUME NEW t \in [Proc -> [Fd -> File \cup {NoFile}]],
         NEW p \in Proc, NEW d \in Fd, NEW g \in File \cup {NoFile}, NEW f
  PROVE  Cardinality(EntriesOf([t EXCEPT ![p][d] = g], f)) =
           Cardinality(EntriesOf(t, f)) + Same(f, g) - Same(f, t[p][d])
<1> DEFINE E == EntriesOf(t, f)
           u == [t EXCEPT ![p][d] = g]
<1>0. IsFiniteSet(E) /\ Cardinality(E) \in Nat
  BY ReferencesFinite
<1>1. \A q \in Proc, e \in Fd : u[q][e] = IF q = p /\ e = d THEN g ELSE t[q][e]
  OBVIOUS
<1>2. \A e \in Proc \X Fd :
        u[e[1]][e[2]] = IF e = <<p, d>> THEN g ELSE t[e[1]][e[2]]
  BY <1>1
<1>3. <<p, d>> \in E <=> f = t[p][d]
  BY DEF EntriesOf
<1>4. CASE f = g
  <2>1. EntriesOf(u, f) = E \cup {<<p, d>>}
    BY <1>2, <1>4 DEF EntriesOf
  <2>2. Cardinality(E \cup {<<p, d>>}) =
          IF <<p, d>> \in E THEN Cardinality(E) ELSE Cardinality(E) + 1
    BY <1>0, FS_AddElement
  <2>3. Cardinality(EntriesOf(u, f)) =
          Cardinality(E) + 1 - (IF f = t[p][d] THEN 1 ELSE 0)
    <3> HIDE DEF E, u
    <3> QED BY <2>1, <2>2, <1>0, <1>3
  <2> QED BY <2>3, <1>4 DEF Same
<1>5. CASE f # g
  <2>1. EntriesOf(u, f) = E \ {<<p, d>>}
    BY <1>2, <1>5 DEF EntriesOf
  <2>2. Cardinality(E \ {<<p, d>>}) =
          IF <<p, d>> \in E THEN Cardinality(E) - 1 ELSE Cardinality(E)
    BY <1>0, FS_RemoveElement
  <2>3. Cardinality(EntriesOf(u, f)) =
          Cardinality(E) - (IF f = t[p][d] THEN 1 ELSE 0)
    <3> HIDE DEF E, u
    <3> QED BY <2>1, <2>2, <1>0, <1>3
  <2> QED BY <2>3, <1>0, <1>5 DEF Same
<1> QED BY <1>4, <1>5

(* An open file with one reference has no other. *)
LEMMA OneReference ==
  ASSUME IInv, NEW f \in File, of_refcount[f] = 1
  PROVE  /\ \A e1, e2 \in Entries(f) : e1 = e2
         /\ \A p, q \in Holders(f) : p = q
         /\ Entries(f) = {} \/ Holders(f) = {}
<1>1. /\ IsFiniteSet(Entries(f)) /\ IsFiniteSet(Holders(f))
      /\ Cardinality(Entries(f)) \in Nat /\ Cardinality(Holders(f)) \in Nat
  BY ReferencesFinite, CountsAre
<1>2. Cardinality(Entries(f)) + Cardinality(Holders(f)) = 1
  BY DEF IInv, RefcountsExact
<1>3. \/ Cardinality(Entries(f)) = 1 /\ Cardinality(Holders(f)) = 0
      \/ Cardinality(Entries(f)) = 0 /\ Cardinality(Holders(f)) = 1
  BY <1>1, <1>2
<1>4. \A S : IsFiniteSet(S) /\ Cardinality(S) = 1 => \A x, y \in S : x = y
  BY FS_Singleton
<1>5. \A S : IsFiniteSet(S) /\ Cardinality(S) = 0 => S = {}
  BY FS_EmptySet
<1> QED BY <1>1, <1>3, <1>4, <1>5

(* What is referred to is open and counted; what is closed is not.         *)
LEMMA Referred ==
  ASSUME IInv, NEW f \in File
  PROVE  /\ \A p \in Proc, d \in Fd : ft_openfiles[p][d] = f =>
              of_refcount[f] > 0 /\ of_vnode[f] # "none"
         /\ \A p \in Proc : pc[p] \in Holding /\ file[p] = f =>
              of_refcount[f] > 0 /\ of_vnode[f] # "none"
<1>1. /\ IsFiniteSet(Entries(f)) /\ IsFiniteSet(Holders(f))
      /\ Cardinality(Entries(f)) \in Nat /\ Cardinality(Holders(f)) \in Nat
  BY ReferencesFinite, CountsAre
<1>2. /\ of_refcount[f] = Cardinality(Entries(f)) + Cardinality(Holders(f))
      /\ of_refcount[f] = 0 <=> of_vnode[f] = "none"
  BY DEF IInv, RefcountsExact
<1>3. \A S : IsFiniteSet(S) /\ Cardinality(S) = 0 => S = {}
  BY FS_EmptySet
<1>4. ASSUME NEW p \in Proc, NEW d \in Fd, ft_openfiles[p][d] = f
      PROVE  of_refcount[f] > 0
  <2>1. <<p, d>> \in Entries(f)
    BY <1>4 DEF Entries
  <2> QED BY <1>1, <1>2, <1>3, <2>1
<1>5. ASSUME NEW p \in Proc, pc[p] \in Holding, file[p] = f
      PROVE  of_refcount[f] > 0
  <2>1. p \in Holders(f)
    BY <1>5 DEF Holders, Holding
  <2> QED BY <1>1, <1>2, <1>3, <2>1
<1> QED BY <1>2, <1>4, <1>5

(* What nobody refers to, save one process or one entry. *)
LEMMA Unreferenced ==
  ASSUME IInv, NEW f \in File, of_vnode[f] = "none"
  PROVE  /\ of_refcount[f] = 0 /\ of_offsetlock[f] = NoProc
         /\ \A q \in Proc, d \in Fd : ft_openfiles[q][d] # f
         /\ \A q \in Proc : pc[q] \in Holding => file[q] # f
         /\ \A q \in Proc : pc[q] \in {"io", "seek"} => file[q] # f
<1>1. /\ \A q \in Proc, d \in Fd : ft_openfiles[q][d] # f
      /\ \A q \in Proc : pc[q] \in Holding => file[q] # f
  BY Referred
<1>2. \A q \in Proc : pc[q] \in {"io", "seek"} => file[q] # f
  BY <1>1 DEF IInv, LocalsRight, OffsetLockHeld
<1> QED BY <1>1, <1>2 DEF IInv, RefcountsExact, OffsetLockHeld

LEMMA OnlyHolder ==
  ASSUME IInv, NEW p \in Proc, pc[p] \in Holding, of_refcount[file[p]] = 1
  PROVE  /\ file[p] \in File /\ of_offsetlock[file[p]] = NoProc
         /\ \A q \in Proc, d \in Fd : ft_openfiles[q][d] # file[p]
         /\ \A q \in Proc : pc[q] \in Holding /\ file[q] = file[p] => q = p
         /\ \A q \in Proc : pc[q] \in {"io", "seek"} => file[q] # file[p]
<1>1. file[p] \in File
  BY DEF IInv, LocalsRight
<1>2. p \in Holders(file[p])
  BY DEF Holders, Holding
<1>3. Entries(file[p]) = {} /\ \A q \in Holders(file[p]) : q = p
  BY <1>1, <1>2, OneReference
<1>4. \A q \in Proc, d \in Fd : ft_openfiles[q][d] # file[p]
  <2> SUFFICES ASSUME NEW q \in Proc, NEW d \in Fd, ft_openfiles[q][d] = file[p]
               PROVE  FALSE
    OBVIOUS
  <2>1. <<q, d>> \in Entries(file[p])
    BY DEF Entries
  <2> QED BY <2>1, <1>3
<1>5. \A q \in Proc : pc[q] \in Holding /\ file[q] = file[p] => q = p
  BY <1>3 DEF Holders, Holding
<1>6. \A q \in Proc : pc[q] \in {"io", "seek"} => file[q] # file[p]
  BY <1>4 DEF IInv, LocalsRight, OffsetLockHeld
<1> QED BY <1>1, <1>4, <1>5, <1>6 DEF IInv, TypeOK, OffsetLockHeld

LEMMA OnlyEntry ==
  ASSUME IInv, NEW p \in Proc, NEW d \in Fd, ft_openfiles[p][d] # NoFile,
         of_refcount[ft_openfiles[p][d]] = 1
  PROVE  /\ ft_openfiles[p][d] \in File
         /\ \A q \in Proc, e \in Fd :
              ft_openfiles[q][e] = ft_openfiles[p][d] => q = p /\ e = d
         /\ \A q \in Proc : pc[q] \in Holding => file[q] # ft_openfiles[p][d]
<1> DEFINE f == ft_openfiles[p][d]
<1>1. f \in File
  BY DEF IInv, TypeOK
<1>2. <<p, d>> \in Entries(f)
  BY DEF Entries
<1>3. Holders(f) = {} /\ \A e \in Entries(f) : e = <<p, d>>
  BY <1>1, <1>2, OneReference
<1>4. \A q \in Proc : pc[q] \in Holding => file[q] # f
  BY <1>3 DEF Holders, Holding
<1>5. ASSUME NEW q \in Proc, NEW e \in Fd, ft_openfiles[q][e] = f
      PROVE  q = p /\ e = d
  <2>1. <<q, e>> \in Entries(f)
    BY <1>5 DEF Entries
  <2>2. <<q, e>> = <<p, d>>
    BY <2>1, <1>3
  <2> QED BY <2>2
<1> QED BY <1>1, <1>4, <1>5

-----------------------------------------------------------------------------
(* How a step changes the references, and the counts with them.            *)

OthersHold(p) == \A q \in Proc \ {p} :
  /\ pc'[q] \in Holding <=> pc[q] \in Holding
  /\ pc[q] \in Holding => file'[q] = file[q]

HolderChange(p, f) == Holds(pc', file', p, f)
                      - Holds(pc, file, p, f)

VnodesCounted == \A f \in File : of_refcount'[f] = 0 <=> of_vnode'[f] = "none"

HolderCounted(p) == \A f \in File :
  of_refcount'[f] = of_refcount[f] + HolderChange(p, f)

EntrySet(q, d, g) == ft_openfiles' = [ft_openfiles EXCEPT ![q][d] = g]

EntryCounted(p, q, d, g) == \A f \in File :
  of_refcount'[f] = of_refcount[f] + HolderChange(p, f)
                    + Same(f, g) - Same(f, ft_openfiles[q][d])

(* What p does to the number of processes that hold f. *)
LEMMA CountHolders ==
  ASSUME NEW p \in Proc, OthersHold(p), NEW f
  PROVE  Cardinality(Holders(f)') =
           Cardinality(Holders(f)) + Holds(pc', file', p, f) - Holds(pc, file, p, f)
<1> DEFINE H == HoldersOf(pc, file, f)
           J == HoldersOf(pc', file', f)
<1>0. IsFiniteSet(H) /\ Cardinality(H) \in Nat
  BY ReferencesFinite
<1>1. p \in H <=> pc[p] \in Holding /\ file[p] = f
  BY DEF HoldersOf
<1>2. Holders(f) = H /\ Holders(f)' = J
  BY DEF Holders, HoldersOf, Holding
<1>3. CASE pc'[p] \in Holding /\ file'[p] = f
  <2>1. J = H \cup {p}
    BY <1>3 DEF HoldersOf, OthersHold
  <2>2. Cardinality(H \cup {p}) =
          IF p \in H THEN Cardinality(H) ELSE Cardinality(H) + 1
    BY <1>0, FS_AddElement
  <2> QED BY <2>1, <2>2, <1>0, <1>1, <1>2, <1>3 DEF Holds
<1>4. CASE ~(pc'[p] \in Holding /\ file'[p] = f)
  <2>1. J = H \ {p}
    BY <1>4 DEF HoldersOf, OthersHold
  <2>2. Cardinality(H \ {p}) =
          IF p \in H THEN Cardinality(H) - 1 ELSE Cardinality(H)
    BY <1>0, FS_RemoveElement
  <2> QED BY <2>1, <2>2, <1>0, <1>1, <1>2, <1>4 DEF Holds
<1> QED BY <1>3, <1>4

(* Only what p holds changes. *)
LEMMA HolderStep ==
  ASSUME IInv, NEW p \in Proc, OthersHold(p), VnodesCounted,
         ft_openfiles' = ft_openfiles, HolderCounted(p)
  PROVE  RefcountsExact'
<1> SUFFICES ASSUME NEW f \in File
             PROVE  of_refcount'[f] = Cardinality(Entries(f)') + Cardinality(Holders(f)')
  BY DEF RefcountsExact, VnodesCounted
<1>1. /\ Entries(f) = EntriesOf(ft_openfiles, f)
      /\ Entries(f)' = EntriesOf(ft_openfiles, f)
      /\ Holders(f) = HoldersOf(pc, file, f) /\ Holders(f)' = HoldersOf(pc', file', f)
  BY DEF Entries, EntriesOf, Holders, HoldersOf, Holding
<1>2. Cardinality(Holders(f)') =
        Cardinality(Holders(f)) + Holds(pc', file', p, f) - Holds(pc, file, p, f)
  BY CountHolders
<1>3. of_refcount[f] = Cardinality(Entries(f)) + Cardinality(Holders(f))
  BY DEF IInv, RefcountsExact
<1>4. Cardinality(Entries(f)) \in Nat /\ Cardinality(Holders(f)) \in Nat
  BY <1>1, ReferencesFinite
<1> QED BY <1>1, <1>2, <1>3, <1>4 DEF HolderCounted, HolderChange, Holds, Same

(* So does one entry of one table. *)
LEMMA EntryStep ==
  ASSUME IInv, NEW p \in Proc, OthersHold(p), VnodesCounted,
         NEW q \in Proc, NEW d \in Fd, NEW g \in File \cup {NoFile},
         EntrySet(q, d, g), EntryCounted(p, q, d, g)
  PROVE  RefcountsExact'
<1> SUFFICES ASSUME NEW f \in File
             PROVE  of_refcount'[f] = Cardinality(Entries(f)') + Cardinality(Holders(f)')
  BY DEF RefcountsExact, VnodesCounted
<1>1. /\ Entries(f) = EntriesOf(ft_openfiles, f)
      /\ Entries(f)' = EntriesOf(ft_openfiles', f)
      /\ Holders(f) = HoldersOf(pc, file, f) /\ Holders(f)' = HoldersOf(pc', file', f)
  BY DEF Entries, EntriesOf, Holders, HoldersOf, Holding
<1>2. Cardinality(Holders(f)') =
        Cardinality(Holders(f)) + Holds(pc', file', p, f) - Holds(pc, file, p, f)
  BY CountHolders
<1>3. Cardinality(EntriesOf(ft_openfiles', f)) =
        Cardinality(EntriesOf(ft_openfiles, f)) + Same(f, g) - Same(f, ft_openfiles[q][d])
  <2>1. ft_openfiles \in [Proc -> [Fd -> File \cup {NoFile}]]
    BY DEF IInv, TypeOK
  <2>2. Cardinality(EntriesOf([ft_openfiles EXCEPT ![q][d] = g], f)) =
          Cardinality(EntriesOf(ft_openfiles, f)) + Same(f, g) - Same(f, ft_openfiles[q][d])
    BY <2>1, CountEntries
  <2> QED BY <2>2 DEF EntrySet
<1>4. of_refcount[f] = Cardinality(Entries(f)) + Cardinality(Holders(f))
  BY DEF IInv, RefcountsExact
<1>5. Cardinality(Entries(f)) \in Nat /\ Cardinality(Holders(f)) \in Nat
  BY <1>1, ReferencesFinite
<1> QED BY <1>1, <1>2, <1>3, <1>4, <1>5
        DEF EntryCounted, HolderChange, Holds, Same

(* Nothing changes. *)
LEMMA ReferencesKept ==
  ASSUME IInv, UNCHANGED <<ft_openfiles, of_refcount, of_vnode>>,
         \A q \in Proc : /\ pc'[q] \in Holding <=> pc[q] \in Holding
                         /\ pc[q] \in Holding => file'[q] = file[q]
  PROVE  RefcountsExact'
<1>1. \A f \in File : Entries(f)' = Entries(f) /\ Holders(f)' = Holders(f)
  BY DEF Entries, Holders, Holding
<1> QED BY <1>1 DEF IInv, RefcountsExact

(* Nobody begins or ends a transfer, and no lock is taken or released.     *)
LEMMA OffsetLockKept ==
  ASSUME IInv, UNCHANGED <<of_vnode, of_offsetlock>>,
         \A q \in Proc : pc'[q] \in {"io", "seek", "stream"} => pc'[q] = pc[q],
         \A q \in Proc : pc[q] \in {"io", "seek", "stream"} =>
           /\ pc'[q] = pc[q] /\ file'[q] = file[q] /\ fd'[q] = fd[q]
           /\ ft_openfiles'[q][fd[q]] = ft_openfiles[q][fd[q]]
  PROVE  OffsetLockHeld'
  BY DEF IInv, TypeOK, OffsetLockHeld

-----------------------------------------------------------------------------
(* The invariant holds initially. *)
LEMMA InitIInv == Init => IInv
<1> SUFFICES ASSUME Init PROVE IInv
  OBVIOUS
<1>1. \A f \in File : Entries(f) = {} /\ Holders(f) = {}
  BY OpenFilesAssumption DEF Init, Entries, Holders, EmptyTable
<1>2. RefcountsExact
  BY <1>1, FS_EmptySet DEF Init, RefcountsExact
<1>3. TypeOK
  BY OpenFilesAssumption DEF Init, TypeOK, EmptyTable
<1>4. OffsetLockHeld /\ LocalsRight /\ SharingRight
  BY DEF Init, OffsetLockHeld, LocalsRight, SharingRight, Holding
<1>5. TablesRight
  BY DEF Init, TablesRight, Forking
<1> QED BY <1>2, <1>3, <1>4, <1>5 DEF IInv

LEMMA OpenStep ==
  ASSUME IInv, NEW p \in Proc, NEW f \in File, Open(p, f)
  PROVE  IInv'
<1> USE DEF Open, openfile_open, Goto, files, tables, locals
<1>1. TypeOK'
  BY OpenFilesAssumption DEF IInv, TypeOK, LocalsRight, Holding, Fd
<1>2. RefcountsExact'
  <2>1. OthersHold(p)
    BY DEF IInv, TypeOK, OthersHold, Holding
  <2>2. VnodesCounted
    BY Referred DEF IInv, TypeOK, RefcountsExact, VnodesCounted, LocalsRight, Holding
  <2>3. HolderCounted(p)
    BY Referred
    DEF IInv, TypeOK, RefcountsExact, LocalsRight, HolderCounted, HolderChange,
        Holds, Holding
  <2> QED BY <2>1, <2>2, <2>3, HolderStep
<1>3. OffsetLockHeld'
  BY DEF IInv, TypeOK, OffsetLockHeld
<1>4. LocalsRight'
  BY Unreferenced DEF IInv, TypeOK, LocalsRight, Holding
<1>5. TablesRight'
  BY DEF IInv, TypeOK, TablesRight, Forking
<1>6. SharingRight'
  BY DEF IInv, TypeOK, SharingRight
<1> QED BY <1>1, <1>2, <1>3, <1>4, <1>5, <1>6 DEF IInv

LEMMA LeastNat ==
  ASSUME NEW S, S \subseteq Nat, S # {}
  PROVE  \E m \in S : \A k \in S : m <= k
<1> DEFINE R == OpToRel(<, Nat)
<1>1. IsWellFoundedOn(R, Nat)
  BY NatLessThanWellFounded
<1>2. \A x, y \in Nat : <<y, x>> \in R <=> y < x
  BY DEF OpToRel
<1> HIDE DEF R
<1>3. PICK m \in S : \A y \in S : ~ (<<y, m>> \in R)
  BY <1>1, WFMin
<1>4. ASSUME NEW k \in S PROVE m <= k
  <2>1. k \in Nat /\ m \in Nat
    OBVIOUS
  <2>2. ~ (k < m)
    BY <1>2, <1>3, <2>1
  <2> QED BY <2>1, <2>2
<1> QED BY <1>4

LEMMA LeastFd ==
  ASSUME NEW S \in SUBSET Fd, S # {}
  PROVE  Least(S) \in S /\ \A e \in S : Least(S) <= e
<1>1. S \subseteq Nat
  BY OpenFilesAssumption DEF Fd
<1>2. \E m \in S : \A k \in S : m <= k
  BY <1>1, LeastNat
<1> QED BY <1>2 DEF Least

LEMMA PlaceStep ==
  ASSUME IInv, NEW p \in Proc, Place(p)
  PROVE  IInv'
<1> USE DEF Place, ReturnsTo, Goto, files, tables, locals
<1>1. TypeOK'
  BY OpenFilesAssumption DEF IInv, TypeOK, LocalsRight, Holding, Fd
<1>2. RefcountsExact'
  <2>0. Least(FreeFds(p)) \in Fd /\ ft_openfiles[p][Least(FreeFds(p))] = NoFile
    BY LeastFd DEF FreeFds
  <2>1. OthersHold(p)
    BY DEF IInv, TypeOK, OthersHold, Holding
  <2>2. VnodesCounted
    BY DEF IInv, TypeOK, RefcountsExact, VnodesCounted
  <2>3. EntrySet(p, Least(FreeFds(p)), file[p])
    BY <2>0 DEF IInv, TypeOK, LocalsRight, Holding, EntrySet
  <2>4. EntryCounted(p, p, Least(FreeFds(p)), file[p])
    BY <2>0, OpenFilesAssumption
    DEF IInv, TypeOK, LocalsRight, EntryCounted, HolderChange, Holds, Same, Holding
  <2>5. p \in Proc /\ Least(FreeFds(p)) \in Fd /\ file[p] \in File \cup {NoFile}
    BY <2>0 DEF IInv, TypeOK, LocalsRight, Holding
  <2> QED BY <2>1, <2>2, <2>3, <2>4, <2>5, EntryStep
<1>3. OffsetLockHeld'
  BY DEF IInv, TypeOK, OffsetLockHeld
<1>4. LocalsRight'
  BY DEF IInv, TypeOK, LocalsRight, Holding
<1>5. TablesRight'
  BY DEF IInv, TypeOK, TablesRight, Forking
<1>6. SharingRight'
  BY DEF IInv, TypeOK, SharingRight
<1> QED BY <1>1, <1>2, <1>3, <1>4, <1>5, <1>6 DEF IInv

LEMMA PlaceFailsStep ==
  ASSUME IInv, NEW p \in Proc, PlaceFails(p)
  PROVE  IInv'
<1> USE DEF PlaceFails, Drop, Goto, files, tables, locals
<1>1. TypeOK'
  BY OpenFilesAssumption DEF IInv, TypeOK, LocalsRight, Holding, Fd
<1>2. RefcountsExact'
  <2>1. OthersHold(p)
    BY DEF IInv, TypeOK, OthersHold, Holding
  <2>2. VnodesCounted
    BY Referred DEF IInv, TypeOK, RefcountsExact, VnodesCounted, LocalsRight, Holding
  <2>3. HolderCounted(p)
    BY Referred
    DEF IInv, TypeOK, RefcountsExact, LocalsRight, HolderCounted, HolderChange,
        Holds, Holding
  <2> QED BY <2>1, <2>2, <2>3, HolderStep
<1>3. OffsetLockHeld'
  BY DEF IInv, TypeOK, OffsetLockHeld
<1>4. LocalsRight'
  BY DEF IInv, TypeOK, LocalsRight, Holding
<1>5. TablesRight'
  BY DEF IInv, TypeOK, TablesRight, Forking
<1>6. SharingRight'
  BY DEF IInv, TypeOK, SharingRight
<1> QED BY <1>1, <1>2, <1>3, <1>4, <1>5, <1>6 DEF IInv

LEMMA CloseStep ==
  ASSUME IInv, NEW p \in Proc, NEW d \in Fd, Close(p, d)
  PROVE  IInv'
<1> USE DEF Close, Drop, Goto, files, tables, locals
<1>1. TypeOK'
  BY OpenFilesAssumption DEF IInv, TypeOK, LocalsRight, Holding, Fd
<1>2. RefcountsExact'
  <2>1. OthersHold(p)
    BY DEF IInv, TypeOK, OthersHold, Holding
  <2>2. VnodesCounted
    BY DEF IInv, TypeOK, RefcountsExact, VnodesCounted
  <2>3. EntrySet(p, d, NoFile)
    BY DEF IInv, TypeOK, LocalsRight, Holding, EntrySet
  <2>4. EntryCounted(p, p, d, NoFile)
    BY OpenFilesAssumption
    DEF IInv, TypeOK, LocalsRight, EntryCounted, HolderChange, Holds, Same, Holding
  <2>5. p \in Proc /\ d \in Fd /\ NoFile \in File \cup {NoFile}
    BY DEF IInv, TypeOK, LocalsRight, Holding
  <2> QED BY <2>1, <2>2, <2>3, <2>4, <2>5, EntryStep
<1>3. OffsetLockHeld'
  BY DEF IInv, TypeOK, OffsetLockHeld
<1>4. LocalsRight'
  BY DEF IInv, TypeOK, LocalsRight, Holding
<1>5. TablesRight'
  BY DEF IInv, TypeOK, TablesRight, Forking
<1>6. SharingRight'
  BY DEF IInv, TypeOK, SharingRight
<1> QED BY <1>1, <1>2, <1>3, <1>4, <1>5, <1>6 DEF IInv

LEMMA DecrefStep ==
  ASSUME IInv, NEW p \in Proc, Decref(p)
  PROVE  IInv'
<1> USE DEF Decref, ReturnsTo, Goto, files, tables, locals
<1>1. TypeOK'
  <2>1. /\ file[p] \in File /\ of_refcount[file[p]] \in Nat
        /\ back[p] \in {"user", "exit", "unfork"}
    BY DEF IInv, TypeOK, LocalsRight, Holding
  <2>2. of_refcount' \in [File -> Nat]
    BY <2>1 DEF IInv, TypeOK
  <2>3. \E w \in {"destroy", "user", "exit", "unfork"} : pc' = [pc EXCEPT ![p] = w]
    BY <2>1
  <2>4. /\ file' = file \/ file' = [file EXCEPT ![p] = NoFile]
        /\ back' = back \/ back' = [back EXCEPT ![p] = "user"]
    OBVIOUS
  <2>5. UNCHANGED <<ft_openfiles, of_vnode, of_offset, of_offsetlock, fd, pos, child>>
    OBVIOUS
  <2> HIDE DEF Decref
  <2>6. pc' \in [Proc -> {"free", "embryo", "stdfds", "user", "place", "dup2", "decref",
                        "destroy", "io", "seek", "stream", "copy", "unfork", "exit"}]
    BY <2>3 DEF IInv, TypeOK
  <2>7. file' \in [Proc -> File \cup {NoFile}] /\ back' \in [Proc -> {"user", "exit", "unfork"}]
    BY <2>4 DEF IInv, TypeOK
  <2> QED BY <2>2, <2>5, <2>6, <2>7 DEF IInv, TypeOK
<1>2. RefcountsExact'
  <2>1. OthersHold(p)
    BY DEF IInv, TypeOK, OthersHold, Holding
  <2>2. /\ file[p] \in File /\ of_refcount[file[p]] \in Nat
        /\ back[p] \in {"user", "exit", "unfork"}
    BY DEF IInv, TypeOK, LocalsRight, Holding
  <2>3. CASE of_refcount[file[p]] = 1
    BY <2>2, <2>3, ReferencesKept DEF IInv, TypeOK, Holding
  <2>4. CASE of_refcount[file[p]] > 1
    <3>1. VnodesCounted
      BY <2>2, <2>4 DEF IInv, TypeOK, RefcountsExact, VnodesCounted
    <3>2. HolderCounted(p)
      BY <2>2, <2>4 DEF IInv, TypeOK, HolderCounted, HolderChange, Holds, Holding
    <3>3. ft_openfiles' = ft_openfiles
      OBVIOUS
    <3> QED BY <2>1, <3>1, <3>2, <3>3, HolderStep
  <2> QED BY <2>3, <2>4
<1>3. OffsetLockHeld'
  BY OffsetLockKept DEF IInv, TypeOK
<1>4. LocalsRight'
  BY DEF IInv, TypeOK, LocalsRight, Holding
<1>5. TablesRight'
  BY DEF IInv, TypeOK, TablesRight, Forking
<1>6. SharingRight'
  <2>1. /\ file[p] \in File /\ of_refcount[file[p]] \in Nat
        /\ back[p] \in {"user", "exit", "unfork"}
    BY DEF IInv, TypeOK, LocalsRight, Holding
  <2>2. /\ pc[p] = "decref" /\ pc'[p] \in {"destroy", "user", "exit", "unfork"}
        /\ \A q \in Proc \ {p} : pc'[q] = pc[q] /\ file'[q] = file[q]
    BY <2>1 DEF IInv, TypeOK
  <2>3. UNCHANGED <<ft_openfiles, of_offset>>
    OBVIOUS
  <2>4. \A g \in File : of_refcount[g] = 1 => of_refcount'[g] = 1
    BY <2>1 DEF IInv, TypeOK
  <2> HIDE DEF Decref
  <2> QED BY <2>2, <2>3, <2>4 DEF IInv, TypeOK, LocalsRight, SharingRight, Holding
<1> QED BY <1>1, <1>2, <1>3, <1>4, <1>5, <1>6 DEF IInv

LEMMA DestroyStep ==
  ASSUME IInv, NEW p \in Proc, Destroy(p)
  PROVE  IInv'
<1> USE DEF Destroy, ReturnsTo, Goto, files, tables, locals
<1>1. TypeOK'
  BY OpenFilesAssumption DEF IInv, TypeOK, LocalsRight, Holding, Fd
<1>2. RefcountsExact'
  <2>1. /\ back[p] \in {"user", "exit", "unfork"} /\ pc[p] \in Holding
        /\ file[p] \in File /\ of_refcount[file[p]] = 1
    BY DEF IInv, TypeOK, LocalsRight, Holding
  <2>2. /\ of_offsetlock[file[p]] = NoProc
        /\ \A q \in Proc, d \in Fd : ft_openfiles[q][d] # file[p]
        /\ \A q \in Proc : pc[q] \in Holding /\ file[q] = file[p] => q = p
        /\ \A q \in Proc : pc[q] \in {"io", "seek"} => file[q] # file[p]
    BY <2>1, OnlyHolder
  <2>3. OthersHold(p)
    BY DEF IInv, TypeOK, OthersHold, Holding
  <2>4. VnodesCounted
    BY <2>1 DEF IInv, TypeOK, RefcountsExact, VnodesCounted
  <2>5. HolderCounted(p)
    BY <2>1 DEF IInv, TypeOK, HolderCounted, HolderChange, Holds, Holding
  <2>6. ft_openfiles' = ft_openfiles
    OBVIOUS
  <2> QED BY <2>3, <2>4, <2>5, <2>6, HolderStep
<1>3. OffsetLockHeld'
  <2>1. /\ back[p] \in {"user", "exit", "unfork"} /\ pc[p] \in Holding
        /\ file[p] \in File /\ of_refcount[file[p]] = 1
    BY DEF IInv, TypeOK, LocalsRight, Holding
  <2>2. /\ of_offsetlock[file[p]] = NoProc
        /\ \A q \in Proc, d \in Fd : ft_openfiles[q][d] # file[p]
        /\ \A q \in Proc : pc[q] \in Holding /\ file[q] = file[p] => q = p
        /\ \A q \in Proc : pc[q] \in {"io", "seek"} => file[q] # file[p]
    BY <2>1, OnlyHolder
  <2> QED BY <2>1, <2>2 DEF IInv, TypeOK, OffsetLockHeld
<1>4. LocalsRight'
  <2>1. /\ back[p] \in {"user", "exit", "unfork"} /\ pc[p] \in Holding
        /\ file[p] \in File /\ of_refcount[file[p]] = 1
    BY DEF IInv, TypeOK, LocalsRight, Holding
  <2>2. /\ of_offsetlock[file[p]] = NoProc
        /\ \A q \in Proc, d \in Fd : ft_openfiles[q][d] # file[p]
        /\ \A q \in Proc : pc[q] \in Holding /\ file[q] = file[p] => q = p
        /\ \A q \in Proc : pc[q] \in {"io", "seek"} => file[q] # file[p]
    BY <2>1, OnlyHolder
  <2> QED BY <2>1, <2>2 DEF IInv, TypeOK, LocalsRight, Holding
<1>5. TablesRight'
  BY DEF IInv, TypeOK, TablesRight, Forking
<1>6. SharingRight'
  <2>1. /\ back[p] \in {"user", "exit", "unfork"} /\ pc[p] \in Holding
        /\ file[p] \in File /\ of_refcount[file[p]] = 1
    BY DEF IInv, TypeOK, LocalsRight, Holding
  <2>2. /\ of_offsetlock[file[p]] = NoProc
        /\ \A q \in Proc, d \in Fd : ft_openfiles[q][d] # file[p]
        /\ \A q \in Proc : pc[q] \in Holding /\ file[q] = file[p] => q = p
        /\ \A q \in Proc : pc[q] \in {"io", "seek"} => file[q] # file[p]
    BY <2>1, OnlyHolder
  <2> QED BY <2>1, <2>2 DEF IInv, TypeOK, SharingRight, Holding
<1> QED BY <1>1, <1>2, <1>3, <1>4, <1>5, <1>6 DEF IInv

LEMMA Dup2Step ==
  ASSUME IInv, NEW p \in Proc, NEW d \in Fd, NEW e \in Fd, Dup2(p, d, e)
  PROVE  IInv'
<1> USE DEF Dup2, openfile_incref, Goto, files, tables, locals
<1>1. TypeOK'
  BY OpenFilesAssumption DEF IInv, TypeOK, LocalsRight, Holding, Fd
<1>2. RefcountsExact'
  <2>1. OthersHold(p)
    BY DEF IInv, TypeOK, OthersHold, Holding
  <2>2. VnodesCounted
    BY Referred DEF IInv, TypeOK, RefcountsExact, VnodesCounted, LocalsRight, Holding
  <2>3. HolderCounted(p)
    BY Referred
    DEF IInv, TypeOK, RefcountsExact, LocalsRight, HolderCounted, HolderChange,
        Holds, Holding
  <2> QED BY <2>1, <2>2, <2>3, HolderStep
<1>3. OffsetLockHeld'
  BY DEF IInv, TypeOK, OffsetLockHeld
<1>4. LocalsRight'
  <2>1. ft_openfiles[p][d] \in File
    BY DEF IInv, TypeOK
  <2>2. \A q \in Proc : pc[q] \in Holding /\ of_refcount[file[q]] = 1 =>
          file[q] # ft_openfiles[p][d]
    BY OnlyHolder
  <2> QED BY <2>1, <2>2 DEF IInv, TypeOK, LocalsRight, Holding
<1>5. TablesRight'
  BY DEF IInv, TypeOK, TablesRight, Forking
<1>6. SharingRight'
  <2>1. ft_openfiles[p][d] \in File
    BY DEF IInv, TypeOK
  <2>2. \A q \in Proc : pc[q] \in Holding /\ of_refcount[file[q]] = 1 =>
          file[q] # ft_openfiles[p][d]
    BY OnlyHolder
  <2>3. \A q \in Proc, i \in Fd :
          ft_openfiles[q][i] = ft_openfiles[p][d] /\ of_refcount[ft_openfiles[p][d]] = 1
            => q = p
    BY OnlyEntry
  <2>4. ASSUME NEW q \in Proc, pc'[q] = "place"
        PROVE  of_refcount'[file'[q]] = 1 /\ of_offset'[file'[q]] = 0
    BY <2>1, <2>2, <2>4 DEF IInv, TypeOK, SharingRight, LocalsRight, Holding
  <2>5. ASSUME NEW q \in Proc, pc'[q] = "dup2"
        PROVE  \E i \in Fd : ft_openfiles'[q][i] = file'[q]
    BY <2>1, <2>5 DEF IInv, TypeOK, SharingRight
  <2>6. ASSUME NEW q \in Proc, pc'[q] = "stdfds", NEW i \in Fd,
               ft_openfiles'[q][i] # NoFile
        PROVE  /\ of_refcount'[ft_openfiles'[q][i]] = 1
               /\ of_offset'[ft_openfiles'[q][i]] = 0
    <3>1. pc[q] = "stdfds" /\ q # p
      BY <2>6 DEF IInv, TypeOK
    <3>2. of_refcount[ft_openfiles[q][i]] = 1 /\ of_offset[ft_openfiles[q][i]] = 0
      BY <3>1, <2>6 DEF IInv, SharingRight
    <3>3. ft_openfiles[q][i] # ft_openfiles[p][d]
      BY <3>1, <3>2, <2>3
    <3> QED BY <2>1, <3>2, <3>3 DEF IInv, TypeOK
  <2> QED BY <2>4, <2>5, <2>6 DEF SharingRight
<1> QED BY <1>1, <1>2, <1>3, <1>4, <1>5, <1>6 DEF IInv

LEMMA Dup2PlaceStep ==
  ASSUME IInv, NEW p \in Proc, Dup2Place(p)
  PROVE  IInv'
<1> USE DEF Dup2Place, ReturnsTo, Drop, Goto, files, tables, locals
<1>1. TypeOK'
  <2>1. /\ file[p] \in File /\ fd[p] \in Fd
        /\ ft_openfiles[p][fd[p]] \in File \cup {NoFile}
    BY DEF IInv, TypeOK, LocalsRight, Holding
  <2>2. fd' \in [Proc -> 0..OPEN_MAX]
    BY OpenFilesAssumption DEF IInv, TypeOK
  <2>3. \E w \in {"user", "decref"} : pc' = [pc EXCEPT ![p] = w]
    OBVIOUS
  <2>4. /\ \E f \in File \cup {NoFile} : file' = [file EXCEPT ![p] = f]
        /\ back' = [back EXCEPT ![p] = "user"]
    BY <2>1
  <2>5. /\ ft_openfiles' = [ft_openfiles EXCEPT ![p][fd[p]] = file[p]]
        /\ UNCHANGED <<of_vnode, of_refcount, of_offset, of_offsetlock, pos, child>>
    OBVIOUS
  <2> HIDE DEF Dup2Place
  <2>6. pc' \in [Proc -> {"free", "embryo", "stdfds", "user", "place", "dup2", "decref",
                        "destroy", "io", "seek", "stream", "copy", "unfork", "exit"}]
    BY <2>3 DEF IInv, TypeOK
  <2>7. file' \in [Proc -> File \cup {NoFile}] /\ back' \in [Proc -> {"user", "exit", "unfork"}]
    BY <2>4 DEF IInv, TypeOK
  <2>8. ft_openfiles' \in [Proc -> [Fd -> File \cup {NoFile}]]
    BY <2>1, <2>5 DEF IInv, TypeOK
  <2> QED BY <2>2, <2>5, <2>6, <2>7, <2>8 DEF IInv, TypeOK
<1>2. RefcountsExact'
  <2>1. OthersHold(p)
    BY DEF IInv, TypeOK, OthersHold, Holding
  <2>2. VnodesCounted
    BY DEF IInv, TypeOK, RefcountsExact, VnodesCounted
  <2>3. /\ file[p] \in File /\ fd[p] \in Fd
        /\ ft_openfiles[p][fd[p]] \in File \cup {NoFile}
    BY DEF IInv, TypeOK, LocalsRight, Holding
  <2>4. EntrySet(p, fd[p], file[p])
    BY DEF EntrySet
  <2>5. ASSUME ft_openfiles[p][fd[p]] = NoFile
        PROVE  EntryCounted(p, p, fd[p], file[p])
    <3>1. pc'[p] = "user" /\ pc[p] = "dup2"
      BY <2>5 DEF IInv, TypeOK
    <3>2. \A g \in File : HolderChange(p, g) = 0 - Same(g, file[p])
      BY <3>1 DEF HolderChange, Holds, Same, Holding
    <3>3. \A g \in File : Same(g, ft_openfiles[p][fd[p]]) = 0
      BY <2>5, OpenFilesAssumption DEF Same
    <3>4. \A g \in File : Same(g, file[p]) \in {0, 1}
      BY SameIs
    <3>5. of_refcount' = of_refcount /\ \A g \in File : of_refcount[g] \in Nat
      BY DEF IInv, TypeOK
    <3> HIDE DEF Dup2Place
    <3> QED BY <3>2, <3>3, <3>4, <3>5 DEF EntryCounted
  <2>6. ASSUME ft_openfiles[p][fd[p]] # NoFile
        PROVE  EntryCounted(p, p, fd[p], file[p])
    BY <2>3, <2>6
    DEF IInv, TypeOK, EntryCounted, HolderChange, Holds, Same, Holding
  <2> QED BY <2>1, <2>2, <2>3, <2>4, <2>5, <2>6, EntryStep
<1>3. OffsetLockHeld'
  BY DEF IInv, TypeOK, OffsetLockHeld
<1>4. LocalsRight'
  BY DEF IInv, TypeOK, LocalsRight, Holding
<1>5. TablesRight'
  <2>1. \A q \in Proc \ {p} : /\ pc'[q] = pc[q] /\ back'[q] = back[q]
                             /\ ft_openfiles'[q] = ft_openfiles[q]
    BY DEF IInv, TypeOK
  <2>2. pc'[p] \in {"user", "decref"} /\ back'[p] = "user" /\ pc[p] # "embryo"
    BY DEF IInv, TypeOK
  <2> QED BY <2>1, <2>2 DEF IInv, TablesRight, Forking
<1>6. SharingRight'
  BY DEF IInv, TypeOK, SharingRight
<1> QED BY <1>1, <1>2, <1>3, <1>4, <1>5, <1>6 DEF IInv

LEMMA LockedStep ==
  ASSUME IInv, NEW p \in Proc, NEW d \in Fd, NEW call \in {"io", "seek"}, Locked(p, d, call)
  PROVE  IInv'
<1> USE DEF Locked, Seekable, Goto, files, tables, locals
<1>1. TypeOK'
  BY OpenFilesAssumption DEF IInv, TypeOK, LocalsRight, Holding, Fd
<1>2. RefcountsExact'
  BY ReferencesKept DEF IInv, TypeOK, Holding
<1>3. OffsetLockHeld'
  <2> DEFINE f == ft_openfiles[p][d]
  <2>1. f \in File /\ of_offsetlock[f] = NoProc /\ of_vnode[f] = "seekable"
    BY DEF IInv, TypeOK
  <2>2. \A g \in File : of_offsetlock'[g] = IF g = f THEN p ELSE of_offsetlock[g]
    BY <2>1 DEF IInv, TypeOK
  <2>3. /\ pc'[p] = call /\ file'[p] = f /\ fd'[p] = d
        /\ \A q \in Proc \ {p} : pc'[q] = pc[q] /\ file'[q] = file[q] /\ fd'[q] = fd[q]
    BY DEF IInv, TypeOK
  <2>4. pc[p] = "user" /\ ft_openfiles' = ft_openfiles /\ of_vnode' = of_vnode
    OBVIOUS
  <2> HIDE DEF Locked, f
  <2>5. ASSUME NEW q \in Proc, pc'[q] \in {"io", "seek", "stream"}
        PROVE  /\ ft_openfiles'[q][fd'[q]] = file'[q] /\ file'[q] # NoFile
               /\ of_offsetlock'[file'[q]] = q <=> pc'[q] # "stream"
    <3>1. CASE q = p
      BY <2>1, <2>2, <2>3, <2>4, <3>1, OpenFilesAssumption DEF f
    <3>2. CASE q # p
      BY <2>1, <2>2, <2>3, <2>4, <2>5, <3>2, OpenFilesAssumption
      DEF IInv, TypeOK, OffsetLockHeld
    <3> QED BY <3>1, <3>2
  <2>6. ASSUME NEW g \in File, of_offsetlock'[g] # NoProc
        PROVE  /\ of_vnode'[g] = "seekable"
               /\ pc'[of_offsetlock'[g]] \in {"io", "seek"}
               /\ file'[of_offsetlock'[g]] = g
    BY <2>1, <2>2, <2>3, <2>4, <2>6 DEF IInv, TypeOK, OffsetLockHeld
  <2> QED BY <2>5, <2>6 DEF OffsetLockHeld
<1>4. LocalsRight'
  BY DEF IInv, TypeOK, LocalsRight, Holding
<1>5. TablesRight'
  BY DEF IInv, TypeOK, TablesRight, Forking
<1>6. SharingRight'
  BY DEF IInv, TypeOK, SharingRight
<1> QED BY <1>1, <1>2, <1>3, <1>4, <1>5, <1>6 DEF IInv

LEMMA UnlockedStep ==
  ASSUME IInv, NEW p \in Proc, NEW o \in 0..MaxOffset, pc[p] \in {"io", "seek"}, Unlocked(p, o)
  PROVE  IInv'
<1> USE DEF Unlocked, Unlock, ReturnsTo, Goto, files, tables, locals
<1>1. TypeOK'
  <2>1. /\ file[p] \in File /\ of_offsetlock[file[p]] = p
        /\ fd[p] \in Fd /\ ft_openfiles[p][fd[p]] = file[p]
    BY DEF IInv, TypeOK, OffsetLockHeld, LocalsRight
  <2> QED BY <2>1, OpenFilesAssumption DEF IInv, TypeOK
<1>2. RefcountsExact'
  BY ReferencesKept DEF IInv, TypeOK, Holding
<1>3. OffsetLockHeld'
  <2>1. /\ file[p] \in File /\ of_offsetlock[file[p]] = p
        /\ fd[p] \in Fd /\ ft_openfiles[p][fd[p]] = file[p]
    BY DEF IInv, TypeOK, OffsetLockHeld, LocalsRight
  <2>2. \A g \in File :
          of_offsetlock'[g] = IF of_offsetlock[g] = p THEN NoProc ELSE of_offsetlock[g]
    BY <2>1 DEF IInv, TypeOK
  <2>3. /\ pc'[p] = "user" /\ ft_openfiles' = ft_openfiles /\ of_vnode' = of_vnode
        /\ \A q \in Proc \ {p} : pc'[q] = pc[q] /\ file'[q] = file[q] /\ fd'[q] = fd[q]
    BY DEF IInv, TypeOK
  <2> HIDE DEF Unlocked
  <2>4. ASSUME NEW q \in Proc, pc'[q] \in {"io", "seek", "stream"}
        PROVE  /\ ft_openfiles'[q][fd'[q]] = file'[q] /\ file'[q] # NoFile
               /\ of_offsetlock'[file'[q]] = q <=> pc'[q] # "stream"
    BY <2>2, <2>3, <2>4, OpenFilesAssumption DEF IInv, TypeOK, OffsetLockHeld
  <2>5. ASSUME NEW g \in File, of_offsetlock'[g] # NoProc
        PROVE  /\ of_vnode'[g] = "seekable"
               /\ pc'[of_offsetlock'[g]] \in {"io", "seek"}
               /\ file'[of_offsetlock'[g]] = g
    BY <2>2, <2>3, <2>5 DEF IInv, TypeOK, OffsetLockHeld
  <2> QED BY <2>4, <2>5 DEF OffsetLockHeld
<1>4. LocalsRight'
  <2>1. /\ file[p] \in File /\ of_offsetlock[file[p]] = p
        /\ fd[p] \in Fd /\ ft_openfiles[p][fd[p]] = file[p]
    BY DEF IInv, TypeOK, OffsetLockHeld, LocalsRight
  <2>2. \A g \in File : of_offset'[g] = IF g = file[p] THEN o ELSE of_offset[g]
    BY <2>1 DEF IInv, TypeOK
  <2>3. /\ pc'[p] = "user" /\ of_refcount' = of_refcount /\ ft_openfiles' = ft_openfiles
        /\ \A q \in Proc \ {p} : /\ pc'[q] = pc[q] /\ file'[q] = file[q]
                                /\ fd'[q] = fd[q] /\ pos'[q] = pos[q]
    BY DEF IInv, TypeOK
  <2>4. \A q \in Proc \ {p} : pc[q] \in {"io", "seek"} => file[q] # file[p]
    BY <2>1 DEF IInv, OffsetLockHeld
  <2> HIDE DEF Unlocked
  <2>5. \A q \in Proc \ {p} : pc[q] \in {"io", "seek"} => file[q] \in File
    BY DEF IInv, TypeOK, OffsetLockHeld
  <2> QED BY <2>2, <2>3, <2>4, <2>5 DEF IInv, LocalsRight, Holding
<1>5. TablesRight'
  BY DEF IInv, TypeOK, TablesRight, Forking
<1>6. SharingRight'
  <2>1. /\ file[p] \in File /\ of_offsetlock[file[p]] = p
        /\ fd[p] \in Fd /\ ft_openfiles[p][fd[p]] = file[p]
    BY DEF IInv, TypeOK, OffsetLockHeld, LocalsRight
  <2>2. \A g \in File : of_offset'[g] = IF g = file[p] THEN o ELSE of_offset[g]
    BY <2>1 DEF IInv, TypeOK
  <2>3. /\ pc'[p] = "user" /\ of_refcount' = of_refcount /\ ft_openfiles' = ft_openfiles
        /\ \A q \in Proc \ {p} : /\ pc'[q] = pc[q] /\ file'[q] = file[q]
                                /\ fd'[q] = fd[q] /\ pos'[q] = pos[q]
    BY DEF IInv, TypeOK
  <2> HIDE DEF Unlocked
  <2>4. \A q \in Proc : pc[q] \in Holding /\ of_refcount[file[q]] = 1 =>
          file[q] # file[p]
    BY <2>1, OnlyHolder
  <2>5. ASSUME NEW q \in Proc, pc'[q] = "place"
        PROVE  of_refcount'[file'[q]] = 1 /\ of_offset'[file'[q]] = 0
    BY <2>2, <2>3, <2>4, <2>5 DEF IInv, LocalsRight, SharingRight, Holding
  <2>6. ASSUME NEW q \in Proc, pc'[q] = "dup2"
        PROVE  \E i \in Fd : ft_openfiles'[q][i] = file'[q]
    BY <2>3, <2>6 DEF IInv, SharingRight
  <2>7. ASSUME NEW q \in Proc, pc'[q] = "stdfds", NEW i \in Fd,
               ft_openfiles'[q][i] # NoFile
        PROVE  /\ of_refcount'[ft_openfiles'[q][i]] = 1
               /\ of_offset'[ft_openfiles'[q][i]] = 0
    <3>1. pc[q] = "stdfds" /\ q # p
      BY <2>3, <2>7
    <3>2. of_refcount[ft_openfiles[q][i]] = 1 /\ of_offset[ft_openfiles[q][i]] = 0
      BY <3>1, <2>3, <2>7 DEF IInv, SharingRight
    <3>3. ft_openfiles[q][i] \in File /\ ft_openfiles[q][i] # file[p]
      BY <2>1, <2>3, <2>7, <3>1, <3>2, OnlyEntry
    <3> QED BY <2>2, <2>3, <3>2, <3>3
  <2> QED BY <2>5, <2>6, <2>7 DEF SharingRight
<1> QED BY <1>1, <1>2, <1>3, <1>4, <1>5, <1>6 DEF IInv

LEMMA StreamIoStep ==
  ASSUME IInv, NEW p \in Proc, NEW d \in Fd, StreamIo(p, d)
  PROVE  IInv'
<1> USE DEF StreamIo, Seekable, Goto, files, tables, locals
<1>1. TypeOK'
  BY OpenFilesAssumption DEF IInv, TypeOK, LocalsRight, Holding, Fd
<1>2. RefcountsExact'
  BY ReferencesKept DEF IInv, TypeOK, Holding
<1>3. OffsetLockHeld'
  <2>1. ft_openfiles[p][d] \in File /\ of_offsetlock[ft_openfiles[p][d]] = NoProc
    BY DEF IInv, TypeOK, OffsetLockHeld
  <2> QED BY <2>1, OpenFilesAssumption DEF IInv, TypeOK, OffsetLockHeld
<1>4. LocalsRight'
  BY DEF IInv, TypeOK, LocalsRight, Holding
<1>5. TablesRight'
  BY DEF IInv, TypeOK, TablesRight, Forking
<1>6. SharingRight'
  BY DEF IInv, TypeOK, SharingRight
<1> QED BY <1>1, <1>2, <1>3, <1>4, <1>5, <1>6 DEF IInv

LEMMA StreamIoDoneStep ==
  ASSUME IInv, NEW p \in Proc, StreamIoDone(p)
  PROVE  IInv'
<1> USE DEF StreamIoDone, ReturnsTo, Goto, files, tables, locals
<1>1. TypeOK'
  BY OpenFilesAssumption DEF IInv, TypeOK, LocalsRight, Holding, Fd
<1>2. RefcountsExact'
  BY ReferencesKept DEF IInv, TypeOK, Holding
<1>3. OffsetLockHeld'
  BY DEF IInv, TypeOK, OffsetLockHeld
<1>4. LocalsRight'
  BY DEF IInv, TypeOK, LocalsRight, Holding
<1>5. TablesRight'
  BY DEF IInv, TypeOK, TablesRight, Forking
<1>6. SharingRight'
  BY DEF IInv, TypeOK, SharingRight
<1> QED BY <1>1, <1>2, <1>3, <1>4, <1>5, <1>6 DEF IInv

LEMMA RunprogramStep ==
  ASSUME IInv, NEW p \in Proc, Runprogram(p)
  PROVE  IInv'
<1> USE DEF Runprogram, Goto, files, tables, locals
<1>1. TypeOK'
  BY OpenFilesAssumption DEF IInv, TypeOK, LocalsRight, Holding, Fd
<1>2. RefcountsExact'
  BY ReferencesKept DEF IInv, TypeOK, Holding
<1>3. OffsetLockHeld'
  BY DEF IInv, TypeOK, OffsetLockHeld
<1>4. LocalsRight'
  BY OpenFilesAssumption DEF IInv, TypeOK, LocalsRight, Holding
<1>5. TablesRight'
  <2>1. ft_openfiles[p] = EmptyTable /\ pc'[p] = "stdfds" /\ pc[p] = "free"
    BY DEF IInv, TypeOK, TablesRight
  <2> QED BY <2>1 DEF IInv, TypeOK, TablesRight, Forking, EmptyTable
<1>6. SharingRight'
  <2>1. ft_openfiles[p] = EmptyTable /\ pc'[p] = "stdfds" /\ pc[p] = "free"
    BY DEF IInv, TypeOK, TablesRight
  <2> QED BY <2>1 DEF IInv, TypeOK, SharingRight, EmptyTable
<1> QED BY <1>1, <1>2, <1>3, <1>4, <1>5, <1>6 DEF IInv

LEMMA PlacedOpenStep ==
  ASSUME IInv, NEW p \in Proc, NEW f \in File, PlacedOpen(p, f)
  PROVE  IInv'
<1> USE DEF PlacedOpen, openfile_open, files, tables, locals
<1>1. TypeOK'
  BY OpenFilesAssumption DEF IInv, TypeOK, LocalsRight, Holding, Fd
<1>2. RefcountsExact'
  <2>0. /\ fd[p] \in Fd /\ ft_openfiles[p][fd[p]] = NoFile
        /\ of_refcount[f] = 0 /\ of_vnode[f] = "none"
        /\ \A q \in Proc : pc[q] \in Holding => file[q] # f
    BY Unreferenced, OpenFilesAssumption DEF IInv, TypeOK, TablesRight, Fd
  <2>1. OthersHold(p)
    BY DEF IInv, TypeOK, OthersHold, Holding
  <2>2. VnodesCounted
    BY DEF IInv, TypeOK, RefcountsExact, VnodesCounted
  <2>3. EntrySet(p, fd[p], f)
    BY <2>0 DEF IInv, TypeOK, LocalsRight, Holding, EntrySet
  <2>4. EntryCounted(p, p, fd[p], f)
    BY <2>0, OpenFilesAssumption
    DEF IInv, TypeOK, LocalsRight, EntryCounted, HolderChange, Holds, Same, Holding
  <2>5. p \in Proc /\ fd[p] \in Fd /\ f \in File \cup {NoFile}
    BY <2>0 DEF IInv, TypeOK, LocalsRight, Holding
  <2> QED BY <2>1, <2>2, <2>3, <2>4, <2>5, EntryStep
<1>3. OffsetLockHeld'
  BY DEF IInv, TypeOK, OffsetLockHeld
<1>4. LocalsRight'
  <2>1. fd'[p] <= StdFds
    BY OpenFilesAssumption DEF IInv, TypeOK
  <2> QED BY <2>1, Unreferenced DEF IInv, TypeOK, LocalsRight, Holding
<1>5. TablesRight'
  <2>1. \A q \in Proc \ {p} : fd'[q] = fd[q] /\ ft_openfiles'[q] = ft_openfiles[q]
    BY DEF IInv, TypeOK
  <2>2. /\ pc' = pc /\ back' = back /\ child' = child /\ pc[p] = "stdfds"
        /\ fd[p] \in Nat /\ fd'[p] = fd[p] + 1
    BY OpenFilesAssumption DEF IInv, TypeOK
  <2>3. \A d \in Fd : d >= fd'[p] => ft_openfiles'[p][d] = NoFile
    BY <2>2 DEF IInv, TypeOK, TablesRight, Fd
  <2> HIDE DEF PlacedOpen
  <2> QED BY <2>1, <2>2, <2>3 DEF IInv, TablesRight, Forking
<1>6. SharingRight'
  BY DEF IInv, TypeOK, SharingRight
<1> QED BY <1>1, <1>2, <1>3, <1>4, <1>5, <1>6 DEF IInv

LEMMA RunprogramDoneStep ==
  ASSUME IInv, NEW p \in Proc, RunprogramDone(p)
  PROVE  IInv'
<1> USE DEF RunprogramDone, Goto, files, tables, locals
<1>1. TypeOK'
  <2>1. pc' = [pc EXCEPT ![p] = "user"] \/ pc' = [pc EXCEPT ![p] = "exit"]
    OBVIOUS
  <2> QED BY <2>1, OpenFilesAssumption DEF IInv, TypeOK
<1>2. RefcountsExact'
  BY ReferencesKept DEF IInv, TypeOK, Holding
<1>3. OffsetLockHeld'
  BY OffsetLockKept DEF IInv, TypeOK
<1>4. LocalsRight'
  BY DEF IInv, TypeOK, LocalsRight, Holding
<1>5. TablesRight'
  BY DEF IInv, TypeOK, TablesRight, Forking
<1>6. SharingRight'
  BY DEF IInv, TypeOK, SharingRight
<1> QED BY <1>1, <1>2, <1>3, <1>4, <1>5, <1>6 DEF IInv

LEMMA ForkStep ==
  ASSUME IInv, NEW p \in Proc, NEW q \in Proc, Fork(p, q)
  PROVE  IInv'
<1> USE DEF Fork, files, tables, locals
<1>1. TypeOK'
  BY OpenFilesAssumption DEF IInv, TypeOK
<1>2. RefcountsExact'
  BY ReferencesKept DEF IInv, TypeOK, Holding
<1>3. OffsetLockHeld'
  BY DEF IInv, TypeOK, OffsetLockHeld
<1>4. LocalsRight'
  BY DEF IInv, TypeOK, LocalsRight, Holding
<1>5. TablesRight'
  <2>1. /\ pc'[p] = "copy" /\ pc'[q] = "embryo"
        /\ \A r \in Proc \ {p, q} : pc'[r] = pc[r]
    BY DEF IInv, TypeOK
  <2>2. /\ child'[p] = q /\ fd'[p] = 0 /\ p # q /\ ft_openfiles[q] = EmptyTable
        /\ \A r \in Proc \ {p} : child'[r] = child[r] /\ fd'[r] = fd[r]
    BY DEF IInv, TypeOK, TablesRight
  <2>3. \A r \in Proc : Forking(r) => r # p /\ r # q /\ child[r] # q /\ child[r] # p
    BY DEF IInv, TablesRight, Forking
  <2>4. \A r \in Proc : Forking(r)' <=> r = p \/ Forking(r)
    BY <2>1, <2>2 DEF Forking
  <2>5. pc[p] = "user" /\ pc[q] = "free" /\ ft_openfiles' = ft_openfiles
    OBVIOUS
  <2> HIDE DEF Fork
  <2>6. ASSUME NEW r \in Proc, Forking(r)'
        PROVE  /\ child'[r] \in Proc /\ pc'[child'[r]] = "embryo"
               /\ \A s \in Proc : Forking(s)' /\ child'[s] = child'[r] => s = r
    BY <2>1, <2>2, <2>3, <2>4, <2>6 DEF IInv, TablesRight
  <2>7. ASSUME NEW r \in Proc, pc'[r] = "copy", NEW d \in Fd
        PROVE  ft_openfiles'[child'[r]][d] =
                 IF d < fd'[r] THEN ft_openfiles'[r][d] ELSE NoFile
    <3>1. CASE r = p
      BY <2>2, <2>5, <3>1, OpenFilesAssumption DEF EmptyTable, Fd
    <3>2. CASE r # p
      BY <2>1, <2>2, <2>5, <2>7, <3>2 DEF IInv, TablesRight
    <3> QED BY <3>1, <3>2
  <2>8. ASSUME NEW r \in Proc, pc'[r] \in {"free", "stdfds"}
        PROVE  r # p /\ r # q /\ pc[r] = pc'[r] /\ fd'[r] = fd[r]
    BY <2>1, <2>2, <2>8
  <2> QED BY <2>5, <2>6, <2>7, <2>8 DEF IInv, TablesRight
<1>6. SharingRight'
  BY DEF IInv, TypeOK, SharingRight
<1> QED BY <1>1, <1>2, <1>3, <1>4, <1>5, <1>6 DEF IInv

LEMMA CopyEntryStep ==
  ASSUME IInv, NEW p \in Proc, CopyEntry(p)
  PROVE  IInv'
<1> USE DEF CopyEntry, openfile_incref, files, tables, locals
<1>1. TypeOK'
  <2>0. /\ fd[p] \in Fd /\ child[p] \in Proc /\ child[p] # p
        /\ pc[child[p]] = "embryo" /\ ft_openfiles[p][fd[p]] \in File \cup {NoFile}
        /\ ft_openfiles[child[p]][fd[p]] = NoFile
    BY OpenFilesAssumption DEF IInv, TypeOK, TablesRight, Forking, Fd
  <2>1. /\ NoFile \notin File
        /\ \A f \in File : of_refcount'[f] =
             IF f = ft_openfiles[p][fd[p]] THEN of_refcount[f] + 1 ELSE of_refcount[f]
    BY <2>0, OpenFilesAssumption DEF IInv, TypeOK
  <2>2. of_refcount' \in [File -> Nat]
    BY <2>0, <2>1 DEF IInv, TypeOK
  <2>3. fd' \in [Proc -> 0..OPEN_MAX]
    BY <2>0, OpenFilesAssumption DEF IInv, TypeOK, Fd
  <2> QED BY <2>0, <2>2, <2>3 DEF IInv, TypeOK
<1>2. RefcountsExact'
  <2>0. /\ fd[p] \in Fd /\ child[p] \in Proc /\ child[p] # p
        /\ pc[child[p]] = "embryo" /\ ft_openfiles[p][fd[p]] \in File \cup {NoFile}
        /\ ft_openfiles[child[p]][fd[p]] = NoFile
    BY OpenFilesAssumption DEF IInv, TypeOK, TablesRight, Forking, Fd
  <2>4. /\ NoFile \notin File
        /\ \A f \in File : of_refcount'[f] =
             IF f = ft_openfiles[p][fd[p]] THEN of_refcount[f] + 1 ELSE of_refcount[f]
    BY <2>0, OpenFilesAssumption DEF IInv, TypeOK
  <2>1. OthersHold(p)
    BY DEF OthersHold
  <2>2. VnodesCounted
    BY <2>0, <2>4, Referred DEF IInv, TypeOK, RefcountsExact, VnodesCounted
  <2>3. EntrySet(child[p], fd[p], ft_openfiles[p][fd[p]])
    BY DEF EntrySet
  <2>5. \A g \in File : HolderChange(p, g) = 0
    BY DEF HolderChange, Holds
  <2>6. \A g \in File : Same(g, ft_openfiles[child[p]][fd[p]]) = 0
    BY <2>0, <2>4 DEF Same
  <2>7. EntryCounted(p, child[p], fd[p], ft_openfiles[p][fd[p]])
    <3> HIDE DEF CopyEntry
    <3>1. \A g \in File : of_refcount'[g] = of_refcount[g] + Same(g, ft_openfiles[p][fd[p]])
      BY <2>4 DEF IInv, TypeOK, Same
    <3>2. \A g \in File : /\ of_refcount[g] \in Nat
                         /\ Same(g, ft_openfiles[p][fd[p]]) \in {0, 1}
      BY DEF IInv, TypeOK, Same
    <3> QED BY <2>5, <2>6, <3>1, <3>2 DEF EntryCounted
  <2> QED BY <2>0, <2>1, <2>2, <2>3, <2>7, EntryStep
<1>3. OffsetLockHeld'
  <2>0. /\ fd[p] \in Fd /\ child[p] \in Proc /\ child[p] # p
        /\ pc[child[p]] = "embryo" /\ ft_openfiles[p][fd[p]] \in File \cup {NoFile}
        /\ ft_openfiles[child[p]][fd[p]] = NoFile
    BY OpenFilesAssumption DEF IInv, TypeOK, TablesRight, Forking, Fd
  <2>5. \A q \in Proc, d \in Fd : ft_openfiles'[q][d] =
          IF q = child[p] /\ d = fd[p] THEN ft_openfiles[p][fd[p]]
          ELSE ft_openfiles[q][d]
    BY <2>0 DEF IInv, TypeOK
  <2>6. /\ pc' = pc /\ back' = back /\ child' = child /\ file' = file /\ pos' = pos
        /\ of_offset' = of_offset /\ of_vnode' = of_vnode /\ of_offsetlock' = of_offsetlock
        /\ fd'[p] = fd[p] + 1 /\ \A q \in Proc \ {p} : fd'[q] = fd[q]
        /\ pc[p] = "copy"
    BY DEF IInv, TypeOK
  <2> HIDE DEF CopyEntry
  <2>7. \A q \in Proc : pc[q] \in {"io", "seek", "stream"} =>
          q # p /\ q # child[p] /\ fd[q] \in Fd
    BY <2>0, <2>6 DEF IInv, LocalsRight
  <2> QED BY <2>0, <2>5, <2>6, <2>7 DEF IInv, OffsetLockHeld
<1>4. LocalsRight'
  <2>0. /\ fd[p] \in Fd /\ child[p] \in Proc /\ child[p] # p
        /\ pc[child[p]] = "embryo" /\ ft_openfiles[p][fd[p]] \in File \cup {NoFile}
        /\ ft_openfiles[child[p]][fd[p]] = NoFile
    BY OpenFilesAssumption DEF IInv, TypeOK, TablesRight, Forking, Fd
  <2>4. /\ NoFile \notin File
        /\ \A f \in File : of_refcount'[f] =
             IF f = ft_openfiles[p][fd[p]] THEN of_refcount[f] + 1 ELSE of_refcount[f]
    BY <2>0, OpenFilesAssumption DEF IInv, TypeOK
  <2>5. \A q \in Proc, d \in Fd : ft_openfiles'[q][d] =
          IF q = child[p] /\ d = fd[p] THEN ft_openfiles[p][fd[p]]
          ELSE ft_openfiles[q][d]
    BY <2>0 DEF IInv, TypeOK
  <2>6. /\ pc' = pc /\ back' = back /\ child' = child /\ file' = file /\ pos' = pos
        /\ of_offset' = of_offset /\ of_vnode' = of_vnode /\ of_offsetlock' = of_offsetlock
        /\ fd'[p] = fd[p] + 1 /\ \A q \in Proc \ {p} : fd'[q] = fd[q]
        /\ pc[p] = "copy"
    BY DEF IInv, TypeOK
  <2>7. \A q \in Proc : pc[q] \in Holding /\ of_refcount[file[q]] = 1 =>
          file[q] # ft_openfiles[p][fd[p]]
    BY <2>0, OnlyHolder
  <2> HIDE DEF CopyEntry
  <2> QED BY <2>4, <2>6, <2>7 DEF IInv, LocalsRight, Holding
<1>5. TablesRight'
  <2>0. /\ fd[p] \in Fd /\ child[p] \in Proc /\ child[p] # p
        /\ pc[child[p]] = "embryo" /\ ft_openfiles[p][fd[p]] \in File \cup {NoFile}
        /\ ft_openfiles[child[p]][fd[p]] = NoFile
    BY OpenFilesAssumption DEF IInv, TypeOK, TablesRight, Forking, Fd
  <2>5. \A q \in Proc, d \in Fd : ft_openfiles'[q][d] =
          IF q = child[p] /\ d = fd[p] THEN ft_openfiles[p][fd[p]]
          ELSE ft_openfiles[q][d]
    BY <2>0 DEF IInv, TypeOK
  <2>6. /\ pc' = pc /\ back' = back /\ child' = child /\ file' = file /\ pos' = pos
        /\ of_offset' = of_offset /\ of_vnode' = of_vnode /\ of_offsetlock' = of_offsetlock
        /\ fd'[p] = fd[p] + 1 /\ \A q \in Proc \ {p} : fd'[q] = fd[q]
        /\ pc[p] = "copy"
    BY DEF IInv, TypeOK
  <2> HIDE DEF CopyEntry
  <2>7. \A q \in Proc : Forking(q)' <=> Forking(q)
    BY <2>6 DEF Forking
  <2>8. ASSUME NEW q \in Proc, pc[q] \in {"free", "stdfds"}, NEW d \in Fd
        PROVE  ft_openfiles'[q][d] = ft_openfiles[q][d] /\ fd'[q] = fd[q]
    BY <2>0, <2>5, <2>6, <2>8
  <2>9. ASSUME NEW q \in Proc, pc[q] = "free"
        PROVE  ft_openfiles'[q] = EmptyTable
    <3>1. q # child[p]
      BY <2>0, <2>9
    <3>2. ft_openfiles'[q] = ft_openfiles[q]
      BY <2>0, <3>1 DEF CopyEntry, IInv, TypeOK
    <3> QED BY <3>2, <2>9 DEF IInv, TablesRight
  <2>10. ASSUME NEW q \in Proc, pc[q] = "copy", NEW d \in Fd
         PROVE  ft_openfiles'[child[q]][d] =
                  IF d < fd'[q] THEN ft_openfiles'[q][d] ELSE NoFile
    <3>1. child[q] \in Proc /\ pc[child[q]] = "embryo" /\ q # child[p]
      BY <2>0, <2>10 DEF IInv, TablesRight, Forking
    <3>2. ft_openfiles'[q][d] = ft_openfiles[q][d]
      BY <3>1, <2>5
    <3>3. ft_openfiles[child[q]][d] =
            IF d < fd[q] THEN ft_openfiles[q][d] ELSE NoFile
      BY <2>10 DEF IInv, TablesRight
    <3>4. CASE q = p
      <4>1. fd[p] \in Int /\ d \in Int
        BY <2>0, OpenFilesAssumption DEF Fd
      <4> QED BY <4>1, <2>5, <2>6, <3>1, <3>2, <3>3, <3>4
    <3>5. CASE q # p
      <4>1. child[q] # child[p]
        BY <2>6, <2>10, <3>5 DEF IInv, TablesRight, Forking
      <4> QED BY <4>1, <2>5, <2>6, <3>1, <3>2, <3>3, <3>5
    <3> QED BY <3>4, <3>5
  <2> QED BY <2>6, <2>7, <2>8, <2>9, <2>10 DEF IInv, TablesRight
<1>6. SharingRight'
  <2>0. /\ fd[p] \in Fd /\ child[p] \in Proc /\ child[p] # p
        /\ pc[child[p]] = "embryo" /\ ft_openfiles[p][fd[p]] \in File \cup {NoFile}
        /\ ft_openfiles[child[p]][fd[p]] = NoFile
    BY OpenFilesAssumption DEF IInv, TypeOK, TablesRight, Forking, Fd
  <2>4. /\ NoFile \notin File
        /\ \A f \in File : of_refcount'[f] =
             IF f = ft_openfiles[p][fd[p]] THEN of_refcount[f] + 1 ELSE of_refcount[f]
    BY <2>0, OpenFilesAssumption DEF IInv, TypeOK
  <2>5. \A q \in Proc, d \in Fd : ft_openfiles'[q][d] =
          IF q = child[p] /\ d = fd[p] THEN ft_openfiles[p][fd[p]]
          ELSE ft_openfiles[q][d]
    BY <2>0 DEF IInv, TypeOK
  <2>6. /\ pc' = pc /\ back' = back /\ child' = child /\ file' = file /\ pos' = pos
        /\ of_offset' = of_offset /\ of_vnode' = of_vnode /\ of_offsetlock' = of_offsetlock
        /\ fd'[p] = fd[p] + 1 /\ \A q \in Proc \ {p} : fd'[q] = fd[q]
        /\ pc[p] = "copy"
    BY DEF IInv, TypeOK
  <2>7. \A q \in Proc : pc[q] \in Holding /\ of_refcount[file[q]] = 1 =>
          file[q] # ft_openfiles[p][fd[p]]
    BY <2>0, OnlyHolder
  <2> HIDE DEF CopyEntry
  <2>8. ASSUME NEW q \in Proc, pc[q] = "place"
        PROVE  of_refcount'[file[q]] = 1 /\ of_offset[file[q]] = 0
    BY <2>4, <2>7, <2>8 DEF IInv, LocalsRight, SharingRight, Holding
  <2>9. ASSUME NEW q \in Proc, pc[q] = "dup2"
        PROVE  \E i \in Fd : ft_openfiles'[q][i] = file[q]
    BY <2>0, <2>5, <2>9 DEF IInv, SharingRight
  <2>10. ASSUME NEW q \in Proc, pc[q] = "stdfds", NEW i \in Fd,
                ft_openfiles'[q][i] # NoFile
         PROVE  /\ of_refcount'[ft_openfiles'[q][i]] = 1
                /\ of_offset[ft_openfiles'[q][i]] = 0
    <3>1. ft_openfiles'[q][i] = ft_openfiles[q][i] /\ q # p
      BY <2>0, <2>5, <2>6, <2>10
    <3>2. of_refcount[ft_openfiles[q][i]] = 1 /\ of_offset[ft_openfiles[q][i]] = 0
      BY <3>1, <2>10 DEF IInv, SharingRight
    <3>3. ft_openfiles[q][i] \in File /\ ft_openfiles[q][i] # ft_openfiles[p][fd[p]]
      BY <2>0, <2>10, <3>1, <3>2, OnlyEntry
    <3> QED BY <2>4, <3>1, <3>2, <3>3
  <2> QED BY <2>6, <2>8, <2>9, <2>10 DEF SharingRight
<1> QED BY <1>1, <1>2, <1>3, <1>4, <1>5, <1>6 DEF IInv

LEMMA ThreadForkStep ==
  ASSUME IInv, NEW p \in Proc, ThreadFork(p)
  PROVE  IInv'
<1> USE DEF ThreadFork, files, tables, locals
<1>1. TypeOK'
  <2>1. child[p] \in Proc
    BY DEF IInv, TablesRight, Forking
  <2> QED BY <2>1, OpenFilesAssumption DEF IInv, TypeOK
<1>2. RefcountsExact'
  <2>0. child[p] \in Proc /\ pc[child[p]] = "embryo"
    BY DEF IInv, TablesRight, Forking
  <2>1. /\ pc'[p] = "user" /\ pc'[child[p]] = "user"
        /\ \A r \in Proc \ {p, child[p]} : pc'[r] = pc[r]
    BY <2>0 DEF IInv, TypeOK
  <2> QED BY <2>0, <2>1, ReferencesKept DEF Holding
<1>3. OffsetLockHeld'
  <2>0. child[p] \in Proc /\ pc[child[p]] = "embryo"
    BY DEF IInv, TablesRight, Forking
  <2>1. /\ pc'[p] = "user" /\ pc'[child[p]] = "user"
        /\ \A r \in Proc \ {p, child[p]} : pc'[r] = pc[r]
    BY <2>0 DEF IInv, TypeOK
  <2>2. \A q \in Proc \ {p} : fd'[q] = fd[q]
    BY DEF IInv, TypeOK
  <2>3. /\ UNCHANGED <<ft_openfiles, of_vnode, of_offsetlock, file>> /\ pc[p] = "copy"
    OBVIOUS
  <2> HIDE DEF ThreadFork
  <2> QED BY <2>0, <2>1, <2>2, <2>3, OffsetLockKept
<1>4. LocalsRight'
  BY DEF IInv, TypeOK, LocalsRight, Holding
<1>5. TablesRight'
  BY DEF IInv, TypeOK, TablesRight, Forking
<1>6. SharingRight'
  BY DEF IInv, TypeOK, SharingRight
<1> QED BY <1>1, <1>2, <1>3, <1>4, <1>5, <1>6 DEF IInv

LEMMA ThreadForkFailsStep ==
  ASSUME IInv, NEW p \in Proc, ThreadForkFails(p)
  PROVE  IInv'
<1> USE DEF ThreadForkFails, Goto, files, tables, locals
<1>1. TypeOK'
  BY OpenFilesAssumption DEF IInv, TypeOK, LocalsRight, Holding, Fd
<1>2. RefcountsExact'
  BY ReferencesKept DEF IInv, TypeOK, Holding
<1>3. OffsetLockHeld'
  BY DEF IInv, TypeOK, OffsetLockHeld
<1>4. LocalsRight'
  BY DEF IInv, TypeOK, LocalsRight, Holding
<1>5. TablesRight'
  BY DEF IInv, TypeOK, TablesRight, Forking
<1>6. SharingRight'
  BY DEF IInv, TypeOK, SharingRight
<1> QED BY <1>1, <1>2, <1>3, <1>4, <1>5, <1>6 DEF IInv

LEMMA ExitStep ==
  ASSUME IInv, NEW p \in Proc, Exit(p)
  PROVE  IInv'
<1> USE DEF Exit, Goto, files, tables, locals
<1>1. TypeOK'
  BY OpenFilesAssumption DEF IInv, TypeOK, LocalsRight, Holding, Fd
<1>2. RefcountsExact'
  BY ReferencesKept DEF IInv, TypeOK, Holding
<1>3. OffsetLockHeld'
  BY DEF IInv, TypeOK, OffsetLockHeld
<1>4. LocalsRight'
  BY DEF IInv, TypeOK, LocalsRight, Holding
<1>5. TablesRight'
  BY DEF IInv, TypeOK, TablesRight, Forking
<1>6. SharingRight'
  BY DEF IInv, TypeOK, SharingRight
<1> QED BY <1>1, <1>2, <1>3, <1>4, <1>5, <1>6 DEF IInv

LEMMA DroppedEntry ==
  ASSUME IInv, NEW p \in Proc, pc[p] \in {"exit", "unfork"},
         FreeFds(Victim(p)) # Fd
  PROVE  LET d == Least(Fd \ FreeFds(Victim(p)))
         IN  /\ Victim(p) \in Proc /\ d \in Fd
             /\ ft_openfiles[Victim(p)][d] # NoFile
<1>1. Victim(p) \in Proc
  BY DEF IInv, TablesRight, Forking, Victim
<1>2. Fd \ FreeFds(Victim(p)) # {}
  BY DEF FreeFds
<1>3. Least(Fd \ FreeFds(Victim(p))) \in Fd \ FreeFds(Victim(p))
  BY <1>2, LeastFd
<1> QED BY <1>1, <1>3 DEF FreeFds

LEMMA DropEntryStep ==
  ASSUME IInv, NEW p \in Proc, DropEntry(p)
  PROVE  IInv'
<1> USE DEF DropEntry, Drop, Goto, files, tables, locals
<1>1. TypeOK'
  <2> DEFINE q == Victim(p)
             d == Least(Fd \ FreeFds(q))
  <2>1. q \in Proc /\ d \in Fd /\ ft_openfiles[q][d] \in File
    BY DroppedEntry DEF IInv, TypeOK
  <2> HIDE DEF q, d
  <2>2. /\ ft_openfiles' = [ft_openfiles EXCEPT ![q][d] = NoFile]
        /\ file' = [file EXCEPT ![p] = ft_openfiles[q][d]]
        /\ back' = [back EXCEPT ![p] = pc[p]] /\ pc[p] \in {"exit", "unfork"}
    BY DEF q, d
  <2>3. pc' = [pc EXCEPT ![p] = "decref"] /\ UNCHANGED <<files, fd, pos, child>>
    OBVIOUS
  <2> HIDE DEF DropEntry
  <2>4. ft_openfiles' \in [Proc -> [Fd -> File \cup {NoFile}]]
    BY <2>1, <2>2 DEF IInv, TypeOK
  <2>5. file' \in [Proc -> File \cup {NoFile}] /\ back' \in [Proc -> {"user", "exit", "unfork"}]
    BY <2>1, <2>2 DEF IInv, TypeOK
  <2> QED BY <2>3, <2>4, <2>5 DEF IInv, TypeOK
<1>2. RefcountsExact'
  <2> DEFINE q == Victim(p)
             d == Least(Fd \ FreeFds(q))
  <2>1. q \in Proc /\ d \in Fd /\ ft_openfiles[q][d] \in File
    BY DroppedEntry DEF IInv, TypeOK
  <2> HIDE DEF q, d
  <2>2. /\ file' = [file EXCEPT ![p] = ft_openfiles[q][d]]
        /\ EntrySet(q, d, NoFile) /\ pc[p] \in {"exit", "unfork"}
    BY DEF q, d, EntrySet
  <2>3. OthersHold(p)
    BY DEF IInv, TypeOK, OthersHold, Holding
  <2>4. VnodesCounted
    BY DEF IInv, TypeOK, RefcountsExact, VnodesCounted
  <2>5. EntryCounted(p, q, d, NoFile)
    BY <2>1, <2>2, OpenFilesAssumption
    DEF IInv, TypeOK, EntryCounted, HolderChange, Holds, Same, Holding
  <2> QED BY <2>1, <2>2, <2>3, <2>4, <2>5, EntryStep
<1>3. OffsetLockHeld'
  <2> DEFINE q == Victim(p)
             d == Least(Fd \ FreeFds(q))
             f == ft_openfiles[q][d]
  <2>0. q \in Proc /\ d \in Fd /\ f \in File /\ (pc[q] = "embryo" \/ q = p)
    <3>1. q \in Proc /\ d \in Fd /\ f # NoFile
      BY DroppedEntry
    <3>2. pc[q] = "embryo" \/ q = p
      BY DEF IInv, TablesRight, Forking, Victim
    <3> HIDE DEF q, d
    <3> QED BY <3>1, <3>2 DEF IInv, TypeOK
  <2>1. \A r \in Proc, e \in Fd :
          ft_openfiles'[r][e] = IF r = q /\ e = d THEN NoFile ELSE ft_openfiles[r][e]
    BY <2>0 DEF IInv, TypeOK
  <2>2. /\ pc[p] \in {"exit", "unfork"} /\ pc'[p] = "decref" /\ back'[p] = pc[p]
        /\ file'[p] = f
        /\ \A r \in Proc \ {p} : /\ pc'[r] = pc[r] /\ back'[r] = back[r]
                                /\ file'[r] = file[r]
    BY DEF IInv, TypeOK
  <2>3. /\ UNCHANGED <<of_vnode, of_refcount, of_offset, of_offsetlock, fd, pos, child>>
        /\ \A r \in Proc \ {q} : ft_openfiles'[r] = ft_openfiles[r]
    BY DEF IInv, TypeOK
  <2> HIDE DEF DropEntry, q, d, f
  <2>4. \A r \in Proc : pc[r] \in {"io", "seek", "stream"} => r # q /\ r # p
    BY <2>0, <2>2
  <2> QED BY <2>2, <2>3, <2>4, OffsetLockKept
<1>4. LocalsRight'
  <2> DEFINE q == Victim(p)
             d == Least(Fd \ FreeFds(q))
             f == ft_openfiles[q][d]
  <2>0. q \in Proc /\ d \in Fd /\ f \in File /\ (pc[q] = "embryo" \/ q = p)
    <3>1. q \in Proc /\ d \in Fd /\ f # NoFile
      BY DroppedEntry
    <3>2. pc[q] = "embryo" \/ q = p
      BY DEF IInv, TablesRight, Forking, Victim
    <3> HIDE DEF q, d
    <3> QED BY <3>1, <3>2 DEF IInv, TypeOK
  <2>1. \A r \in Proc, e \in Fd :
          ft_openfiles'[r][e] = IF r = q /\ e = d THEN NoFile ELSE ft_openfiles[r][e]
    BY <2>0 DEF IInv, TypeOK
  <2>2. /\ pc[p] \in {"exit", "unfork"} /\ pc'[p] = "decref" /\ back'[p] = pc[p]
        /\ file'[p] = f
        /\ \A r \in Proc \ {p} : /\ pc'[r] = pc[r] /\ back'[r] = back[r]
                                /\ file'[r] = file[r]
    BY DEF IInv, TypeOK
  <2>3. /\ UNCHANGED <<of_vnode, of_refcount, of_offset, of_offsetlock, fd, pos, child>>
        /\ \A r \in Proc \ {q} : ft_openfiles'[r] = ft_openfiles[r]
    BY DEF IInv, TypeOK
  <2> HIDE DEF DropEntry, q, d, f
  <2> QED BY <2>0, <2>2, <2>3 DEF IInv, LocalsRight, Holding
<1>5. TablesRight'
  <2> DEFINE q == Victim(p)
             d == Least(Fd \ FreeFds(q))
             f == ft_openfiles[q][d]
  <2>0. q \in Proc /\ d \in Fd /\ f \in File /\ (pc[q] = "embryo" \/ q = p)
    <3>1. q \in Proc /\ d \in Fd /\ f # NoFile
      BY DroppedEntry
    <3>2. pc[q] = "embryo" \/ q = p
      BY DEF IInv, TablesRight, Forking, Victim
    <3> HIDE DEF q, d
    <3> QED BY <3>1, <3>2 DEF IInv, TypeOK
  <2>1. \A r \in Proc, e \in Fd :
          ft_openfiles'[r][e] = IF r = q /\ e = d THEN NoFile ELSE ft_openfiles[r][e]
    BY <2>0 DEF IInv, TypeOK
  <2>2. /\ pc[p] \in {"exit", "unfork"} /\ pc'[p] = "decref" /\ back'[p] = pc[p]
        /\ file'[p] = f
        /\ \A r \in Proc \ {p} : /\ pc'[r] = pc[r] /\ back'[r] = back[r]
                                /\ file'[r] = file[r]
    BY DEF IInv, TypeOK
  <2>3. /\ UNCHANGED <<of_vnode, of_refcount, of_offset, of_offsetlock, fd, pos, child>>
        /\ \A r \in Proc \ {q} : ft_openfiles'[r] = ft_openfiles[r]
    BY DEF IInv, TypeOK
  <2> HIDE DEF DropEntry, q, d, f
  <2>4. \A r \in Proc : Forking(r)' <=> Forking(r)
    BY <2>2 DEF Forking
  <2>5. \A r \in Proc : pc'[r] = "embryo" <=> pc[r] = "embryo"
    BY <2>2
  <2>6. ASSUME NEW r \in Proc, pc'[r] = "copy"
        PROVE  r # q /\ child[r] # q
    <3>1. Forking(r) /\ pc[r] = "copy" /\ r # p
      BY <2>2, <2>6 DEF Forking
    <3>2. CASE q = p
      BY <3>1, <3>2, <2>2 DEF IInv, TablesRight
    <3>3. CASE q # p
      <4>1. Forking(p) /\ child[p] = q
        BY <2>2, <3>3 DEF q, Victim, Forking
      <4> QED BY <4>1, <3>1, <2>0 DEF IInv, TablesRight
    <3> QED BY <3>2, <3>3
  <2>7. ASSUME NEW r \in Proc, pc'[r] \in {"free", "stdfds"}
        PROVE  r # q /\ pc[r] = pc'[r]
    BY <2>0, <2>2, <2>7
  <2>8. ASSUME NEW r \in Proc, pc'[r] = "copy"
        PROVE  /\ pc[r] = "copy" /\ child[r] \in Proc
               /\ ft_openfiles'[r] = ft_openfiles[r]
               /\ ft_openfiles'[child[r]] = ft_openfiles[child[r]]
    <3>1. pc[r] = "copy"
      BY <2>2, <2>8
    <3>2. child[r] \in Proc
      BY <3>1 DEF IInv, TablesRight, Forking
    <3> QED BY <2>3, <2>6, <2>8, <3>1, <3>2
  <2> QED BY <2>3, <2>4, <2>5, <2>7, <2>8 DEF IInv, TablesRight
<1>6. SharingRight'
  <2> DEFINE q == Victim(p)
             d == Least(Fd \ FreeFds(q))
             f == ft_openfiles[q][d]
  <2>0. q \in Proc /\ d \in Fd /\ f \in File /\ (pc[q] = "embryo" \/ q = p)
    <3>1. q \in Proc /\ d \in Fd /\ f # NoFile
      BY DroppedEntry
    <3>2. pc[q] = "embryo" \/ q = p
      BY DEF IInv, TablesRight, Forking, Victim
    <3> HIDE DEF q, d
    <3> QED BY <3>1, <3>2 DEF IInv, TypeOK
  <2>1. \A r \in Proc, e \in Fd :
          ft_openfiles'[r][e] = IF r = q /\ e = d THEN NoFile ELSE ft_openfiles[r][e]
    BY <2>0 DEF IInv, TypeOK
  <2>2. /\ pc[p] \in {"exit", "unfork"} /\ pc'[p] = "decref" /\ back'[p] = pc[p]
        /\ file'[p] = f
        /\ \A r \in Proc \ {p} : /\ pc'[r] = pc[r] /\ back'[r] = back[r]
                                /\ file'[r] = file[r]
    BY DEF IInv, TypeOK
  <2>3. /\ UNCHANGED <<of_vnode, of_refcount, of_offset, of_offsetlock, fd, pos, child>>
        /\ \A r \in Proc \ {q} : ft_openfiles'[r] = ft_openfiles[r]
    BY DEF IInv, TypeOK
  <2> HIDE DEF DropEntry, q, d, f
  <2> QED BY <2>0, <2>1, <2>2, <2>3 DEF IInv, SharingRight
<1> QED BY <1>1, <1>2, <1>3, <1>4, <1>5, <1>6 DEF IInv

LEMMA TableGoneStep ==
  ASSUME IInv, NEW p \in Proc, TableGone(p)
  PROVE  IInv'
<1> USE DEF TableGone, files, tables, locals
<1>1. TypeOK'
  BY OpenFilesAssumption DEF IInv, TypeOK, LocalsRight, Holding, Fd
<1>2. RefcountsExact'
  <2>1. /\ Victim(p) \in Proc /\ (pc[Victim(p)] = "embryo" \/ Victim(p) = p)
        /\ pc[p] \in {"exit", "unfork"} /\ (pc[p] = "exit" <=> Victim(p) = p)
    BY DEF IInv, TablesRight, Forking, Victim
  <2>2. /\ pc'[Victim(p)] = "free" /\ (Victim(p) # p => pc'[p] = "user")
        /\ \A r \in Proc \ {p, Victim(p)} : pc'[r] = pc[r]
    BY <2>1 DEF IInv, TypeOK
  <2>3. UNCHANGED <<ft_openfiles, of_vnode, of_refcount, of_offset, of_offsetlock,
                    back, file, fd, pos>>
    OBVIOUS
  <2> HIDE DEF TableGone
  <2> QED BY <2>1, <2>2, <2>3, ReferencesKept DEF Holding
<1>3. OffsetLockHeld'
  <2>1. /\ Victim(p) \in Proc /\ (pc[Victim(p)] = "embryo" \/ Victim(p) = p)
        /\ pc[p] \in {"exit", "unfork"} /\ (pc[p] = "exit" <=> Victim(p) = p)
    BY DEF IInv, TablesRight, Forking, Victim
  <2>2. /\ pc'[Victim(p)] = "free" /\ (Victim(p) # p => pc'[p] = "user")
        /\ \A r \in Proc \ {p, Victim(p)} : pc'[r] = pc[r]
    BY <2>1 DEF IInv, TypeOK
  <2>3. UNCHANGED <<ft_openfiles, of_vnode, of_refcount, of_offset, of_offsetlock,
                    back, file, fd, pos>>
    OBVIOUS
  <2> HIDE DEF TableGone
  <2> QED BY <2>1, <2>2, <2>3, OffsetLockKept
<1>4. LocalsRight'
  BY DEF IInv, TypeOK, LocalsRight, Holding
<1>5. TablesRight'
  <2>1. /\ Victim(p) \in Proc /\ (pc[Victim(p)] = "embryo" \/ Victim(p) = p)
        /\ pc[p] \in {"exit", "unfork"} /\ (pc[p] = "exit" <=> Victim(p) = p)
    BY DEF IInv, TablesRight, Forking, Victim
  <2>2. /\ pc'[Victim(p)] = "free" /\ (Victim(p) # p => pc'[p] = "user")
        /\ \A r \in Proc \ {p, Victim(p)} : pc'[r] = pc[r]
    BY <2>1 DEF IInv, TypeOK
  <2>3. UNCHANGED <<ft_openfiles, of_vnode, of_refcount, of_offset, of_offsetlock,
                    back, file, fd, pos>>
    OBVIOUS
  <2>4. \A r \in Proc \ {p} : child'[r] = child[r]
    BY DEF IInv, TypeOK
  <2>5. ft_openfiles[Victim(p)] = EmptyTable
    BY <2>1 DEF FreeFds, IInv, TypeOK, EmptyTable
  <2> HIDE DEF TableGone
  <2>6. \A r \in Proc : Forking(r)' <=> Forking(r) /\ r # p
    BY <2>1, <2>2, <2>3 DEF Forking
  <2>7. ASSUME NEW r \in Proc, Forking(r), r # p
        PROVE  child[r] # p /\ child[r] # Victim(p) /\ child[r] \in Proc
    <3>1. child[r] \in Proc /\ pc[child[r]] = "embryo"
      BY <2>7 DEF IInv, TablesRight
    <3>2. CASE Victim(p) = p
      BY <3>1, <3>2, <2>1
    <3>3. CASE Victim(p) # p
      <4>1. Forking(p) /\ child[p] = Victim(p)
        BY <2>1, <3>3 DEF Victim, Forking
      <4> QED BY <4>1, <3>1, <2>1, <2>7 DEF IInv, TablesRight
    <3> QED BY <3>2, <3>3
  <2>8. ASSUME NEW r \in Proc, Forking(r)'
        PROVE  /\ child'[r] \in Proc /\ pc'[child'[r]] = "embryo"
               /\ \A s \in Proc : Forking(s)' /\ child'[s] = child'[r] => s = r
    BY <2>2, <2>4, <2>6, <2>7, <2>8 DEF IInv, TablesRight
  <2>9. ASSUME NEW r \in Proc, pc'[r] \in {"copy", "stdfds"}
        PROVE  pc[r] = pc'[r] /\ r # p /\ r # Victim(p)
    BY <2>1, <2>2, <2>9
  <2>10. ASSUME NEW r \in Proc, pc'[r] = "free"
         PROVE  ft_openfiles'[r] = EmptyTable
    BY <2>1, <2>2, <2>3, <2>5, <2>10 DEF IInv, TablesRight
  <2> QED BY <2>3, <2>4, <2>8, <2>9, <2>10 DEF IInv, TablesRight
<1>6. SharingRight'
  BY DEF IInv, TypeOK, SharingRight
<1> QED BY <1>1, <1>2, <1>3, <1>4, <1>5, <1>6 DEF IInv

(* Where a transfer or a seek leaves the offset. *)
LEMMA UnlockedTo ==
  ASSUME IInv, NEW p \in Proc, IoDone(p) \/ SeekEnd(p) \/ Fails(p)
  PROVE  \E o \in 0..MaxOffset : Unlocked(p, o)
<1>1. pc[p] \in {"io", "seek"}
  BY DEF IoDone, SeekEnd, Fails
<1>2. file[p] \in File /\ of_offset[file[p]] \in 0..MaxOffset /\ pos[p] \in 0..MaxOffset
  BY <1>1 DEF IInv, TypeOK, OffsetLockHeld
<1>3. CASE IoDone(p)
  <2>1. PICK n \in 0..(MaxOffset - pos[p]) : Unlocked(p, pos[p] + n)
    BY <1>3 DEF IoDone
  <2>2. pos[p] + n \in 0..MaxOffset
    BY <1>2, OpenFilesAssumption
  <2> QED BY <2>1, <2>2
<1>4. CASE SeekEnd(p)
  <2>1. PICK o \in (0..MaxOffset) \cup {pos[p] - 1, pos[p] + 1} :
          0 <= o /\ o <= MaxOffset /\ Unlocked(p, o)
    BY <1>4 DEF SeekEnd
  <2>2. o \in 0..MaxOffset
    BY <1>2, <2>1, OpenFilesAssumption
  <2> QED BY <2>1, <2>2
<1>5. CASE Fails(p)
  BY <1>2, <1>5 DEF Fails
<1> QED BY <1>3, <1>4, <1>5

LEMMA NextIInv == IInv /\ [Next]_vars => IInv'
<1> SUFFICES ASSUME IInv, [Next]_vars PROVE IInv'
  OBVIOUS
<1>1. ASSUME NEW p \in Proc, NEW f \in File, Open(p, f) PROVE IInv'
  BY <1>1, OpenStep
<1>2. ASSUME NEW p \in Proc, NEW f \in File, PlacedOpen(p, f) PROVE IInv'
  BY <1>2, PlacedOpenStep
<1>3. ASSUME NEW p \in Proc, NEW d \in Fd, Close(p, d) PROVE IInv'
  BY <1>3, CloseStep
<1>4. ASSUME NEW p \in Proc, NEW d \in Fd, Io(p, d) \/ Lseek(p, d) PROVE IInv'
  BY <1>4, LockedStep DEF Io, Lseek
<1>5. ASSUME NEW p \in Proc, NEW d \in Fd, StreamIo(p, d) PROVE IInv'
  BY <1>5, StreamIoStep
<1>6. ASSUME NEW p \in Proc, NEW d \in Fd, NEW e \in Fd, Dup2(p, d, e) PROVE IInv'
  BY <1>6, Dup2Step
<1>7. ASSUME NEW p \in Proc, NEW q \in Proc, Fork(p, q) PROVE IInv'
  BY <1>7, ForkStep
<1>8. ASSUME NEW p \in Proc, IoDone(p) \/ SeekEnd(p) \/ Fails(p) PROVE IInv'
  <2>1. \E o \in 0..MaxOffset : Unlocked(p, o)
    BY <1>8, UnlockedTo
  <2>2. pc[p] \in {"io", "seek"}
    BY <1>8 DEF IoDone, SeekEnd, Fails
  <2> QED BY <2>1, <2>2, UnlockedStep
<1>9. ASSUME NEW p \in Proc,
             Place(p) \/ PlaceFails(p) \/ Decref(p) \/ Destroy(p) \/ Dup2Place(p)
      PROVE  IInv'
  BY <1>9, PlaceStep, PlaceFailsStep, DecrefStep, DestroyStep, Dup2PlaceStep
<1>10. ASSUME NEW p \in Proc, StreamIoDone(p) \/ Runprogram(p) \/ RunprogramDone(p)
       PROVE  IInv'
  BY <1>10, StreamIoDoneStep, RunprogramStep, RunprogramDoneStep
<1>11. ASSUME NEW p \in Proc, CopyEntry(p) \/ ThreadFork(p) \/ ThreadForkFails(p)
       PROVE  IInv'
  BY <1>11, CopyEntryStep, ThreadForkStep, ThreadForkFailsStep
<1>12. ASSUME NEW p \in Proc, Exit(p) \/ DropEntry(p) \/ TableGone(p) PROVE IInv'
  BY <1>12, ExitStep, DropEntryStep, TableGoneStep
<1>13. CASE UNCHANGED vars
  <2>1. \A f \in File : Entries(f)' = Entries(f) /\ Holders(f)' = Holders(f)
    BY <1>13 DEF vars, Entries, Holders
  <2>2. RefcountsExact'
    BY <1>13, <2>1 DEF vars, IInv, RefcountsExact
  <2>3. TypeOK' /\ OffsetLockHeld' /\ LocalsRight'
    BY <1>13 DEF vars, IInv, TypeOK, OffsetLockHeld, LocalsRight
  <2>4. TablesRight' /\ SharingRight'
    BY <1>13 DEF vars, IInv, TablesRight, Forking, SharingRight
  <2> QED BY <2>2, <2>3, <2>4 DEF IInv
<1> QED BY <1>1, <1>2, <1>3, <1>4, <1>5, <1>6, <1>7, <1>8, <1>9, <1>10, <1>11,
           <1>12, <1>13 DEF Next

(* In every behaviour the calls' locals, the tables and the counts are     *)
(* those the code expects: the three properties below, and what they need  *)
(* of the steps between.                                                   *)
THEOREM Invariance == Spec => []IInv
  BY InitIInv, NextIInv, PTL DEF Spec

(* Types: in particular no sequence of seeks and transfers makes an offset *)
(* negative.                                                               *)
THEOREM TypeCorrect == Spec => []TypeOK
<1>1. IInv => TypeOK
  BY DEF IInv
<1> QED BY <1>1, Invariance, PTL

(* of_refcount is the number of references, however openfile_incref and    *)
(* openfile_decref of several processes interleave; so nothing refers to a *)
(* struct that openfile_destroy has freed.                                 *)
THEOREM RefcountsAlwaysExact == Spec => []RefcountsExact
<1>1. IInv => RefcountsExact
  BY DEF IInv
<1> QED BY <1>1, Invariance, PTL

(* of_offsetlock is held by the process in the transfer and by nobody      *)
(* else, the file is in its table to the end, and no file is destroyed     *)
(* with its lock held.                                                     *)
THEOREM OffsetLockAlwaysHeld == Spec => []OffsetLockHeld
<1>1. IInv => OffsetLockHeld
  BY DEF IInv
<1> QED BY <1>1, Invariance, PTL

-----------------------------------------------------------------------------
(* What a process in a transfer does next. *)
LEMMA TransferEnds ==
  ASSUME IInv, Next, NEW p \in Proc, pc[p] = "io", pc'[p] = "user"
  PROVE  IoDone(p) \/ Fails(p)
<1> USE DEF Goto, ReturnsTo, Drop
<1>0. pc \in [Proc -> {"free", "embryo", "stdfds", "user", "place", "dup2", "decref",
                      "destroy", "io", "seek", "stream", "copy", "unfork", "exit"}]
  BY DEF IInv, TypeOK
<1>1. ASSUME NEW q \in Proc, NEW f \in File, Open(q, f) \/ PlacedOpen(q, f)
      PROVE  FALSE
  BY <1>0, <1>1 DEF Open, PlacedOpen
<1>2. ASSUME NEW q \in Proc, NEW d \in Fd,
             Close(q, d) \/ Io(q, d) \/ Lseek(q, d) \/ StreamIo(q, d)
      PROVE  FALSE
  BY <1>0, <1>2 DEF Close, Io, Lseek, Locked, StreamIo
<1>3. ASSUME NEW q \in Proc, NEW d \in Fd, NEW e \in Fd, Dup2(q, d, e) PROVE FALSE
  BY <1>0, <1>3 DEF Dup2
<1>4. ASSUME NEW q \in Proc, NEW r \in Proc, Fork(q, r) PROVE FALSE
  BY <1>0, <1>4 DEF Fork
<1>5. ASSUME NEW q \in Proc,
             Place(q) \/ PlaceFails(q) \/ Decref(q) \/ Destroy(q) \/ Dup2Place(q)
      PROVE  FALSE
  <2>1. pc[q] \in {"place", "decref", "destroy", "dup2"}
    BY <1>5 DEF Place, PlaceFails, Decref, Destroy, Dup2Place
  <2>2. \E w : pc' = [pc EXCEPT ![q] = w]
    BY <1>5 DEF Place, PlaceFails, Decref, Destroy, Dup2Place
  <2> QED BY <1>0, <2>1, <2>2
<1>6. ASSUME NEW q \in Proc, SeekEnd(q) \/ StreamIoDone(q) \/ Runprogram(q)
                             \/ RunprogramDone(q) \/ Exit(q) \/ ThreadForkFails(q)
      PROVE  FALSE
  <2>1. pc[q] \in {"seek", "stream", "free", "stdfds", "user", "copy"}
    BY <1>6 DEF SeekEnd, StreamIoDone, Runprogram, RunprogramDone, Exit, ThreadForkFails
  <2>2. \E w : pc' = [pc EXCEPT ![q] = w]
    BY <1>6
    DEF SeekEnd, Unlocked, StreamIoDone, Runprogram, RunprogramDone, Exit,
        ThreadForkFails
  <2> QED BY <1>0, <2>1, <2>2
<1>7. ASSUME NEW q \in Proc, CopyEntry(q) PROVE FALSE
  BY <1>7 DEF CopyEntry
<1>8. ASSUME NEW q \in Proc, ThreadFork(q) PROVE FALSE
  <2>1. child[q] \in Proc /\ pc[child[q]] = "embryo" /\ pc[q] = "copy"
    BY <1>8 DEF ThreadFork, IInv, TablesRight, Forking
  <2> QED BY <1>0, <1>8, <2>1 DEF ThreadFork
<1>9. ASSUME NEW q \in Proc, DropEntry(q) PROVE FALSE
  BY <1>0, <1>9 DEF DropEntry
<1>10. ASSUME NEW q \in Proc, TableGone(q) PROVE FALSE
  <2>1. /\ Victim(q) \in Proc /\ (pc[Victim(q)] = "embryo" \/ Victim(q) = q)
        /\ pc[q] \in {"exit", "unfork"}
    BY <1>10 DEF TableGone, IInv, TablesRight, Forking, Victim
  <2> QED BY <1>0, <1>10, <2>1 DEF TableGone
<1>11. ASSUME NEW q \in Proc, IoDone(q) \/ Fails(q) PROVE q = p
  BY <1>0, <1>11 DEF IoDone, Fails, Unlocked
<1> QED BY <1>1, <1>2, <1>3, <1>4, <1>5, <1>6, <1>7, <1>8, <1>9, <1>10, <1>11 DEF Next

(* No two of sys_read's and sys_write's transfers use one offset of a      *)
(* shared file: at the end of each the offset is where it was when the     *)
(* transfer began, nobody else is in a transfer or a seek of that file,    *)
(* and the offset is left there or further.                                *)
THEOREM NoTransferLost == Spec => TransfersNotLost
<1>1. IInv /\ [Next]_vars =>
        [\A p \in Proc : pc[p] = "io" /\ pc'[p] = "user" =>
           /\ pos[p] = of_offset[file[p]] /\ of_offset'[file[p]] >= pos[p]
           /\ \A q \in Proc \ {p} :
                pc[q] \in {"io", "seek"} => file[q] # file[p]]_vars
  <2> SUFFICES ASSUME IInv, Next, NEW p \in Proc, pc[p] = "io", pc'[p] = "user"
               PROVE  /\ pos[p] = of_offset[file[p]] /\ of_offset'[file[p]] >= pos[p]
                      /\ \A q \in Proc \ {p} :
                           pc[q] \in {"io", "seek"} => file[q] # file[p]
    OBVIOUS
  <2>1. /\ file[p] \in File /\ of_offset[file[p]] \in 0..MaxOffset
        /\ pos[p] = of_offset[file[p]] /\ of_offset \in [File -> 0..MaxOffset]
    BY DEF IInv, TypeOK, OffsetLockHeld, LocalsRight
  <2>2. \A q \in Proc \ {p} : pc[q] \in {"io", "seek"} => file[q] # file[p]
    BY DEF IInv, OffsetLockHeld
  <2>3. of_offset'[file[p]] >= of_offset[file[p]]
    <3>1. CASE IoDone(p)
      <4>1. PICK n \in 0..(MaxOffset - pos[p]) : Unlocked(p, pos[p] + n)
        BY <3>1 DEF IoDone
      <4>2. of_offset' = [of_offset EXCEPT ![file[p]] = pos[p] + n]
        BY <4>1 DEF Unlocked
      <4>3. of_offset'[file[p]] = of_offset[file[p]] + n
        BY <2>1, <4>2
      <4> QED BY <2>1, <4>1, <4>3, OpenFilesAssumption
    <3>2. CASE Fails(p)
      <4>1. of_offset' = [of_offset EXCEPT ![file[p]] = of_offset[file[p]]]
        BY <3>2 DEF Fails, Unlocked
      <4> QED BY <2>1, <4>1, OpenFilesAssumption
    <3> QED BY <3>1, <3>2, TransferEnds
  <2> QED BY <2>1, <2>2, <2>3
<1> QED BY <1>1, Invariance, PTL DEF Spec, TransfersNotLost

-----------------------------------------------------------------------------
(* The calls are those of SharedFiles.                                     *)

SharedStep == Shared!SharedNext \/ UNCHANGED Shared!sharedVars

(* Programs see no change. *)
LEMMA Unseen ==
  ASSUME \A p \in Proc : Gone(p)' <=> Gone(p),
         \A p \in Proc : ~Gone(p) => ft_openfiles'[p] = ft_openfiles[p],
         \A f \in VisibleFiles : of_offset'[f] = of_offset[f]
  PROVE  SharedStep
<1>1. VisibleTable' = VisibleTable
  BY DEF VisibleTable
<1>2. VisibleFiles' = VisibleFiles
  BY <1>1 DEF VisibleFiles
<1>3. {p \in Proc : ~Gone(p)}' = {p \in Proc : ~Gone(p)}
  OBVIOUS
<1>4. [f \in VisibleFiles |-> of_offset[f]]' = [f \in VisibleFiles |-> of_offset[f]]
  BY <1>2
<1> QED BY <1>1, <1>3, <1>4 DEF SharedStep, Shared!sharedVars

(* What of_offset says of the files that the tables refer to then. *)
OffsetsSeen == \A f \in VisibleFiles' :
  of_offset'[f] = IF f \in VisibleFiles THEN of_offset[f] ELSE 0

(* The tables that programs see change. *)
LEMMA Seen ==
  ASSUME OffsetsSeen
  PROVE  [f \in VisibleFiles |-> of_offset[f]]' =
           [f \in Shared!InUse(VisibleTable') |->
              IF f \in Shared!InUse(VisibleTable)
              THEN [g \in VisibleFiles |-> of_offset[g]][f] ELSE 0]
<1>1. /\ Shared!InUse(VisibleTable) = VisibleFiles
      /\ Shared!InUse(VisibleTable') = VisibleFiles'
  BY DEF Shared!InUse, VisibleFiles
<1>2. [f \in VisibleFiles |-> of_offset[f]]' =
        [f \in VisibleFiles' |->
           IF f \in VisibleFiles THEN [g \in VisibleFiles |-> of_offset[g]][f] ELSE 0]
  BY DEF OffsetsSeen
<1> QED BY <1>1, <1>2

LEMMA RefineOpen ==
  ASSUME IInv, NEW p \in Proc, NEW f \in File, Open(p, f)
  PROVE  SharedStep
<1> USE DEF Open, openfile_open, Goto
<1>1. \A q \in Proc : Gone(q)' <=> Gone(q)
  BY DEF IInv, TypeOK, Gone
<1>2. f \notin VisibleFiles
  BY Unreferenced, OpenFilesAssumption DEF VisibleFiles, VisibleTable, EmptyTable
<1>3. \A g \in VisibleFiles : of_offset'[g] = of_offset[g]
  BY <1>2 DEF IInv, TypeOK, VisibleFiles
<1> QED BY <1>1, <1>3, Unseen

LEMMA RefinePlacedOpen ==
  ASSUME IInv, NEW p \in Proc, NEW f \in File, PlacedOpen(p, f)
  PROVE  SharedStep
<1> USE DEF PlacedOpen, openfile_open
<1>1. \A q \in Proc : Gone(q)' <=> Gone(q)
  BY DEF Gone
<1>2. Gone(p) /\ \A q \in Proc : ~Gone(q) => ft_openfiles'[q] = ft_openfiles[q]
  BY DEF Gone, IInv, TypeOK
<1>3. f \notin VisibleFiles
  BY Unreferenced, OpenFilesAssumption DEF VisibleFiles, VisibleTable, EmptyTable
<1>4. \A g \in VisibleFiles : of_offset'[g] = of_offset[g]
  BY <1>3 DEF IInv, TypeOK, VisibleFiles
<1> QED BY <1>1, <1>2, <1>4, Unseen

LEMMA RefinePlace ==
  ASSUME IInv, NEW p \in Proc, Place(p), NEW f \in File, f = file[p]
  PROVE  Shared!Open(p, f)
<1> DEFINE d == Least(FreeFds(p))
           t == [VisibleTable EXCEPT ![p][d] = f]
<1>1. /\ d \in Fd /\ ft_openfiles[p][d] = NoFile
      /\ \A e \in Fd : ft_openfiles[p][e] = NoFile => d <= e
  BY LeastFd DEF Place, FreeFds
<1>2. /\ f \in File /\ of_refcount[f] = 1 /\ of_offset[f] = 0
      /\ \A q \in Proc, e \in Fd : ft_openfiles[q][e] # f
  <2>1. f \in File /\ of_refcount[f] = 1 /\ of_offset[f] = 0 /\ pc[p] \in Holding
    BY DEF Place, IInv, LocalsRight, SharingRight, Holding
  <2> QED BY <2>1, OnlyHolder
<1> HIDE DEF d
<1>3. f \notin VisibleFiles
  BY <1>2, OpenFilesAssumption DEF VisibleFiles, VisibleTable, EmptyTable
<1>4. ~Gone(p) /\ ~Gone(p)' /\ \A q \in Proc : Gone(q)' <=> Gone(q)
  BY DEF Place, ReturnsTo, Goto, IInv, TypeOK, Gone
<1>5. /\ ft_openfiles' = [ft_openfiles EXCEPT ![p][d] = f] /\ of_offset' = of_offset
      /\ ft_openfiles \in [Proc -> [Fd -> File \cup {NoFile}]]
  BY DEF Place, files, d, IInv, TypeOK
<1>6. VisibleTable' = t
  BY <1>4, <1>5 DEF VisibleTable
<1>7. VisibleTable[p] = ft_openfiles[p]
  BY <1>4 DEF VisibleTable
<1>8. VisibleFiles' \subseteq VisibleFiles \cup {f}
  <2>1. \A q \in Proc, e \in Fd : VisibleTable'[q][e] = VisibleTable[q][e]
                                  \/ VisibleTable'[q][e] = f
    <3>1. \A q \in Proc \ {p} : VisibleTable'[q] = VisibleTable[q]
      BY <1>4, <1>5 DEF VisibleTable
    <3>2. \A e \in Fd : VisibleTable'[p][e] = IF e = d THEN f ELSE VisibleTable[p][e]
      BY <1>1, <1>4, <1>5 DEF VisibleTable
    <3> QED BY <3>1, <3>2
  <2> QED BY <2>1 DEF VisibleFiles
<1>9. OffsetsSeen
  BY <1>2, <1>3, <1>5, <1>8 DEF OffsetsSeen
<1>10. Shared!Becomes(t)
  BY <1>6, <1>9, Seen DEF Shared!Becomes
<1>11. f \in File \ Shared!InUse(VisibleTable)
  BY <1>2, <1>3 DEF Shared!InUse, VisibleFiles
<1>12. \A e \in Fd : e < d => VisibleTable[p][e] # NoFile
  BY <1>1, <1>7, OpenFilesAssumption DEF Fd
<1>13. {q \in Proc : ~Gone(q)}' = {q \in Proc : ~Gone(q)} /\ p \in {q \in Proc : ~Gone(q)}
  BY <1>4
<1> QED BY <1>1, <1>7, <1>10, <1>11, <1>12, <1>13 DEF Shared!Open

LEMMA RefineClose ==
  ASSUME IInv, NEW p \in Proc, NEW d \in Fd, Close(p, d)
  PROVE  Shared!Close(p, d)
<1>1. ~Gone(p) /\ ~Gone(p)' /\ \A q \in Proc : Gone(q)' <=> Gone(q)
  BY DEF Close, Drop, Goto, IInv, TypeOK, Gone
<1>2. /\ ft_openfiles' = [ft_openfiles EXCEPT ![p][d] = NoFile] /\ of_offset' = of_offset
      /\ ft_openfiles \in [Proc -> [Fd -> File \cup {NoFile}]]
  BY DEF Close, files, IInv, TypeOK
<1>3. VisibleTable' = [VisibleTable EXCEPT ![p][d] = NoFile]
  BY <1>1, <1>2 DEF VisibleTable
<1>4. VisibleTable[p] = ft_openfiles[p]
  BY <1>1 DEF VisibleTable
<1>5. \A q \in Proc, e \in Fd : VisibleTable'[q][e] = VisibleTable[q][e]
                                \/ VisibleTable'[q][e] = NoFile
  BY <1>1, <1>2 DEF VisibleTable
<1>6. VisibleFiles' \subseteq VisibleFiles
  BY <1>5, OpenFilesAssumption DEF VisibleFiles
<1>7. Shared!Becomes([VisibleTable EXCEPT ![p][d] = NoFile])
  BY <1>2, <1>3, <1>6, Seen DEF OffsetsSeen, Shared!Becomes
<1>8. {q \in Proc : ~Gone(q)}' = {q \in Proc : ~Gone(q)} /\ p \in {q \in Proc : ~Gone(q)}
  BY <1>1
<1>9. ft_openfiles[p][d] # NoFile
  BY DEF Close
<1> QED BY <1>4, <1>7, <1>8, <1>9 DEF Shared!Close

(* The file that dup2 places is that of the descriptor it began with. *)
LEMMA RefineDup2Place ==
  ASSUME IInv, NEW p \in Proc, Dup2Place(p)
  PROVE  \E d \in Fd, e \in Fd : Shared!Dup2(p, d, e)
<1>1. ~Gone(p) /\ ~Gone(p)' /\ \A q \in Proc : Gone(q)' <=> Gone(q)
  BY DEF Dup2Place, ReturnsTo, Drop, Goto, IInv, TypeOK, Gone
<1>2. /\ ft_openfiles' = [ft_openfiles EXCEPT ![p][fd[p]] = file[p]]
      /\ of_offset' = of_offset
      /\ ft_openfiles \in [Proc -> [Fd -> File \cup {NoFile}]] /\ fd[p] \in Fd
  BY DEF Dup2Place, files, IInv, TypeOK, LocalsRight
<1>3. file[p] \in File /\ \E d \in Fd : ft_openfiles[p][d] = file[p]
  BY DEF Dup2Place, IInv, LocalsRight, SharingRight, Holding
<1>4. PICK d \in Fd, e \in Fd : ft_openfiles[p][d] = file[p] /\ e = fd[p]
  BY <1>2, <1>3
<1>5. VisibleTable[p] = ft_openfiles[p]
  BY <1>1 DEF VisibleTable
<1>6. VisibleTable' = [VisibleTable EXCEPT ![p][e] = VisibleTable[p][d]]
  BY <1>1, <1>2, <1>4, <1>5 DEF VisibleTable
<1>7. \A q \in Proc, i \in Fd : VisibleTable'[q][i] = VisibleTable[q][i]
                                \/ VisibleTable'[q][i] = VisibleTable[p][d]
  BY <1>1, <1>2, <1>4, <1>5 DEF VisibleTable
<1>8. VisibleFiles' \subseteq VisibleFiles
  BY <1>7 DEF VisibleFiles
<1>9. Shared!Becomes([VisibleTable EXCEPT ![p][e] = VisibleTable[p][d]])
  BY <1>2, <1>6, <1>8, Seen DEF OffsetsSeen, Shared!Becomes
<1>10. {q \in Proc : ~Gone(q)}' = {q \in Proc : ~Gone(q)} /\ p \in {q \in Proc : ~Gone(q)}
  BY <1>1
<1>11. Shared!Dup2(p, d, e)
  BY <1>3, <1>4, <1>5, <1>9, <1>10, OpenFilesAssumption DEF Shared!Dup2
<1> QED BY <1>11

LEMMA RefineUnlocked ==
  ASSUME IInv, NEW p \in Proc, NEW o \in 0..MaxOffset, pc[p] \in {"io", "seek"},
         Unlocked(p, o), NEW d \in Fd, d = fd[p]
  PROVE  Shared!Move(p, d, o)
<1>1. ~Gone(p) /\ \A q \in Proc : Gone(q)' <=> Gone(q)
  BY DEF Unlocked, ReturnsTo, Goto, IInv, TypeOK, Gone
<1>2. /\ ft_openfiles' = ft_openfiles /\ fd[p] \in Fd
      /\ ft_openfiles[p][fd[p]] = file[p] /\ file[p] \in File
      /\ of_offset' = [of_offset EXCEPT ![file[p]] = o]
      /\ of_offset \in [File -> 0..MaxOffset]
  BY DEF Unlocked, IInv, TypeOK, LocalsRight, OffsetLockHeld
<1>3. VisibleTable' = VisibleTable
  BY <1>1, <1>2 DEF VisibleTable
<1>4. VisibleFiles' = VisibleFiles /\ VisibleFiles \subseteq File
  BY <1>3 DEF VisibleFiles
<1>5. VisibleTable[p][fd[p]] = file[p]
  BY <1>1, <1>2 DEF VisibleTable
<1>6. file[p] \in VisibleFiles
  BY <1>2, <1>5 DEF VisibleFiles
<1>7. [f \in VisibleFiles |-> of_offset[f]]' =
        [[f \in VisibleFiles |-> of_offset[f]] EXCEPT ![file[p]] = o]
  BY <1>2, <1>4, <1>6
<1>8. {q \in Proc : ~Gone(q)}' = {q \in Proc : ~Gone(q)} /\ p \in {q \in Proc : ~Gone(q)}
  BY <1>1
<1> QED BY <1>2, <1>3, <1>5, <1>7, <1>8, OpenFilesAssumption DEF Shared!Move

(* A fork is seen when the child runs, and its table is its parent's.      *)
LEMMA RefineThreadFork ==
  ASSUME IInv, NEW p \in Proc, ThreadFork(p), NEW q \in Proc, q = child[p]
  PROVE  Shared!Fork(p, q)
<1>1. /\ pc[p] = "copy" /\ pc[q] = "embryo" /\ fd[p] = OPEN_MAX
      /\ ft_openfiles' = ft_openfiles /\ of_offset' = of_offset /\ back' = back
      /\ ft_openfiles \in [Proc -> [Fd -> File \cup {NoFile}]]
  BY DEF ThreadFork, files, tables, IInv, TypeOK, TablesRight, Forking
<1>2. pc'[p] = "user" /\ pc'[q] = "user" /\ \A r \in Proc \ {p, q} : pc'[r] = pc[r]
  BY <1>1 DEF ThreadFork, IInv, TypeOK
<1>3. \A d \in Fd : ft_openfiles[q][d] = ft_openfiles[p][d]
  BY <1>1, OpenFilesAssumption DEF IInv, TablesRight, Fd
<1>4. ft_openfiles[q] = ft_openfiles[p]
  BY <1>1, <1>3
<1>5. /\ ~Gone(p) /\ ~Gone(p)' /\ Gone(q) /\ ~Gone(q)'
      /\ \A r \in Proc \ {q} : Gone(r)' <=> Gone(r)
  BY <1>1, <1>2 DEF Gone
<1>6. /\ VisibleTable' = [VisibleTable EXCEPT ![q] = VisibleTable[p]]
      /\ \A r \in Proc : VisibleTable'[r] = VisibleTable[r]
                         \/ VisibleTable'[r] = VisibleTable[p]
  BY <1>1, <1>4, <1>5 DEF VisibleTable
<1>7. VisibleFiles' \subseteq VisibleFiles
  BY <1>6 DEF VisibleFiles
<1>8. Shared!Becomes([VisibleTable EXCEPT ![q] = VisibleTable[p]])
  BY <1>1, <1>6, <1>7, Seen DEF OffsetsSeen, Shared!Becomes
<1>9. /\ {r \in Proc : ~Gone(r)}' = {r \in Proc : ~Gone(r)} \cup {q}
      /\ p \in {r \in Proc : ~Gone(r)} /\ q \notin {r \in Proc : ~Gone(r)}
  BY <1>5
<1> QED BY <1>8, <1>9 DEF Shared!Fork

(* A table goes at once when its process begins to exit. *)
LEMMA RefineExit ==
  ASSUME IInv, NEW p \in Proc, Exit(p)
  PROVE  Shared!Exit(p)
<1>1. /\ ft_openfiles' = ft_openfiles /\ of_offset' = of_offset /\ back' = back
      /\ pc[p] = "user" /\ pc'[p] = "exit" /\ \A r \in Proc \ {p} : pc'[r] = pc[r]
  BY DEF Exit, Goto, files, tables, locals, IInv, TypeOK
<1>2. ~Gone(p) /\ Gone(p)' /\ \A r \in Proc \ {p} : Gone(r)' <=> Gone(r)
  BY <1>1 DEF Gone
<1>3. VisibleTable' = [VisibleTable EXCEPT ![p] = Shared!EmptyTable]
  BY <1>1, <1>2 DEF VisibleTable, Shared!EmptyTable, EmptyTable
<1>4. \A r \in Proc : VisibleTable'[r] = VisibleTable[r] \/ VisibleTable'[r] = EmptyTable
  BY <1>1, <1>2 DEF VisibleTable
<1>5. VisibleFiles' \subseteq VisibleFiles
  BY <1>4, OpenFilesAssumption DEF VisibleFiles, EmptyTable
<1>6. Shared!Becomes([VisibleTable EXCEPT ![p] = Shared!EmptyTable])
  BY <1>1, <1>3, <1>5, Seen DEF OffsetsSeen, Shared!Becomes
<1>7. /\ {r \in Proc : ~Gone(r)}' = {r \in Proc : ~Gone(r)} \ {p}
      /\ p \in {r \in Proc : ~Gone(r)}
  BY <1>2
<1> QED BY <1>6, <1>7 DEF Shared!Exit

(* A program starts with the files its process opened for itself. *)
LEMMA RefineStart ==
  ASSUME IInv, NEW p \in Proc, RunprogramDone(p), pc'[p] = "user"
  PROVE  Shared!Start(p)
<1> DEFINE t == ft_openfiles[p]
<1>1. /\ pc[p] = "stdfds" /\ back' = back /\ ft_openfiles' = ft_openfiles
      /\ of_offset' = of_offset /\ \A r \in Proc \ {p} : pc'[r] = pc[r]
      /\ ft_openfiles \in [Proc -> [Fd -> File \cup {NoFile}]]
  BY DEF RunprogramDone, Goto, files, tables, IInv, TypeOK
<1>2. Gone(p) /\ ~Gone(p)' /\ \A r \in Proc \ {p} : Gone(r)' <=> Gone(r)
  BY <1>1 DEF Gone
<1>3. VisibleTable' = [VisibleTable EXCEPT ![p] = t]
  BY <1>1, <1>2 DEF VisibleTable
<1>4. ASSUME NEW d \in Fd, t[d] # NoFile
      PROVE  t[d] \in File \ VisibleFiles /\ of_offset[t[d]] = 0
  <2>1. of_refcount[t[d]] = 1 /\ of_offset[t[d]] = 0
    BY <1>1, <1>4 DEF IInv, SharingRight
  <2>2. t[d] \in File /\ \A q \in Proc, e \in Fd : ft_openfiles[q][e] = t[d] => q = p
    BY <1>4, <2>1, OnlyEntry
  <2> HIDE DEF t
  <2>3. \A q \in Proc, e \in Fd : VisibleTable[q][e] # t[d]
    BY <1>2, <1>4, <2>2 DEF VisibleTable, EmptyTable
  <2> QED BY <2>1, <2>2, <2>3 DEF VisibleFiles
<1>5. t \in [Fd -> (File \ Shared!InUse(VisibleTable)) \cup {NoFile}]
  BY <1>1, <1>4 DEF Shared!InUse, VisibleFiles
<1>6. OffsetsSeen
  <2>1. \A q \in Proc : VisibleTable'[q] = IF q = p THEN t ELSE VisibleTable[q]
    BY <1>1, <1>2 DEF VisibleTable
  <2> SUFFICES ASSUME NEW f \in VisibleFiles', f \notin VisibleFiles
               PROVE  of_offset[f] = 0
    BY <1>1 DEF OffsetsSeen
  <2>2. PICK q \in Proc, d \in Fd : VisibleTable'[q][d] = f
    BY DEF VisibleFiles
  <2>3. f \in File /\ f # NoFile
    BY OpenFilesAssumption DEF VisibleFiles
  <2>4. q = p
    BY <2>1, <2>2, <2>3 DEF VisibleFiles
  <2> QED BY <1>4, <2>1, <2>2, <2>3, <2>4
<1>7. PICK u \in [Fd -> (File \ Shared!InUse(VisibleTable)) \cup {NoFile}] : u = t
  BY <1>5
<1>8. Shared!Becomes([VisibleTable EXCEPT ![p] = u])
  BY <1>3, <1>6, <1>7, Seen DEF Shared!Becomes
<1>9. /\ {r \in Proc : ~Gone(r)}' = {r \in Proc : ~Gone(r)} \cup {p}
      /\ p \notin {r \in Proc : ~Gone(r)}
  BY <1>2
<1> HIDE DEF t
<1> QED BY <1>8, <1>9 DEF Shared!Start, Shared!Becomes

-----------------------------------------------------------------------------
(* The steps that programs do not see. *)

LEMMA RefineTableGone ==
  ASSUME IInv, NEW p \in Proc, TableGone(p)
  PROVE  SharedStep
<1>1. /\ Victim(p) \in Proc /\ (pc[Victim(p)] = "embryo" \/ Victim(p) = p)
      /\ pc[p] \in {"exit", "unfork"} /\ (pc[p] = "exit" <=> Victim(p) = p)
  BY DEF TableGone, IInv, TablesRight, Forking, Victim
<1>2. /\ pc'[Victim(p)] = "free" /\ (Victim(p) # p => pc'[p] = "user")
      /\ \A r \in Proc \ {p, Victim(p)} : pc'[r] = pc[r]
  BY <1>1 DEF TableGone, IInv, TypeOK
<1>3. UNCHANGED <<ft_openfiles, of_offset, back>>
  BY DEF TableGone, files, tables
<1>4. \A q \in Proc : Gone(q)' <=> Gone(q)
  BY <1>1, <1>2, <1>3 DEF Gone
<1> QED BY <1>3, <1>4, Unseen

LEMMA RefineDropEntry ==
  ASSUME IInv, NEW p \in Proc, DropEntry(p)
  PROVE  SharedStep
<1> DEFINE q == Victim(p)
           d == Least(Fd \ FreeFds(q))
<1>1. /\ pc[p] \in {"exit", "unfork"} /\ q \in Proc
      /\ pc[q] = "embryo" \/ (q = p /\ pc[p] = "exit")
  <2>1. pc[p] \in {"exit", "unfork"}
    BY DEF DropEntry
  <2> QED BY <2>1 DEF IInv, TablesRight, Forking, Victim
<1> HIDE DEF q, d
<1>2. /\ ft_openfiles' = [ft_openfiles EXCEPT ![q][d] = NoFile] /\ of_offset' = of_offset
      /\ back' = [back EXCEPT ![p] = pc[p]] /\ pc' = [pc EXCEPT ![p] = "decref"]
  BY DEF DropEntry, Drop, Goto, files, q, d
<1>3. Gone(q) /\ \A r \in Proc : Gone(r)' <=> Gone(r)
  BY <1>1, <1>2 DEF Gone, IInv, TypeOK
<1>4. \A r \in Proc \ {q} : ft_openfiles'[r] = ft_openfiles[r]
  BY <1>2 DEF IInv, TypeOK
<1> QED BY <1>2, <1>3, <1>4, Unseen

LEMMA RefineCopyEntry ==
  ASSUME IInv, NEW p \in Proc, CopyEntry(p)
  PROVE  SharedStep
<1>1. /\ Gone(child[p]) /\ \A r \in Proc : Gone(r)' <=> Gone(r)
  BY DEF CopyEntry, IInv, TablesRight, Forking, Gone
<1>2. of_offset' = of_offset /\ \A r \in Proc \ {child[p]} : ft_openfiles'[r] = ft_openfiles[r]
  BY DEF CopyEntry, IInv, TypeOK
<1> QED BY <1>1, <1>2, Unseen

LEMMA RefineDestroy ==
  ASSUME IInv, NEW p \in Proc, Destroy(p)
  PROVE  SharedStep
<1>1. pc[p] = "destroy" /\ file[p] \in File /\ of_refcount[file[p]] = 1
  BY DEF Destroy, IInv, LocalsRight, Holding
<1>2. \A q \in Proc, d \in Fd : ft_openfiles[q][d] # file[p]
  BY <1>1, OnlyHolder DEF Holding
<1>3. file[p] \notin VisibleFiles
  BY <1>1, <1>2, OpenFilesAssumption DEF VisibleFiles, VisibleTable, EmptyTable
<1>4. \A f \in VisibleFiles : of_offset'[f] = of_offset[f]
  BY <1>3 DEF Destroy, IInv, TypeOK, VisibleFiles
<1>5. \A q \in Proc : Gone(q)' <=> Gone(q)
  BY DEF Destroy, ReturnsTo, Goto, IInv, TypeOK, Gone
<1>6. ft_openfiles' = ft_openfiles
  BY DEF Destroy
<1> QED BY <1>4, <1>5, <1>6, Unseen

LEMMA RefineDecref ==
  ASSUME IInv, NEW p \in Proc, Decref(p)
  PROVE  SharedStep
<1>1. \/ pc' = [pc EXCEPT ![p] = "destroy"] /\ back' = back
      \/ pc' = [pc EXCEPT ![p] = back[p]] /\ back' = [back EXCEPT ![p] = "user"]
  BY DEF Decref, ReturnsTo, Goto
<1>2. pc[p] = "decref" /\ UNCHANGED <<ft_openfiles, of_offset>>
  BY DEF Decref
<1>3. \A q \in Proc : Gone(q)' <=> Gone(q)
  BY <1>1, <1>2 DEF IInv, TypeOK, Gone
<1> QED BY <1>2, <1>3, Unseen

LEMMA RefineFork ==
  ASSUME IInv, NEW p \in Proc, NEW q \in Proc, Fork(p, q)
  PROVE  SharedStep
<1>1. /\ pc' = [pc EXCEPT ![p] = "copy", ![q] = "embryo"]
      /\ pc[p] = "user" /\ pc[q] = "free"
      /\ UNCHANGED <<ft_openfiles, of_offset, back>>
  BY DEF Fork, files, tables
<1>2. \A r \in Proc : Gone(r)' <=> Gone(r)
  BY <1>1 DEF IInv, TypeOK, Gone
<1> QED BY <1>1, <1>2, Unseen

(* ... and those of one process that only moves on. *)
LEMMA RefineOthers ==
  ASSUME IInv, NEW p \in Proc, NEW d \in Fd, NEW e \in Fd,
         Dup2(p, d, e) \/ Io(p, d) \/ Lseek(p, d) \/ StreamIo(p, d)
  PROVE  SharedStep
<1>1. /\ UNCHANGED <<ft_openfiles, of_offset, back>> /\ pc[p] = "user"
      /\ \E w \in {"dup2", "io", "seek", "stream"} : pc' = [pc EXCEPT ![p] = w]
  BY DEF Dup2, Io, Lseek, Locked, StreamIo, Goto, files, tables
<1>2. \A q \in Proc : Gone(q)' <=> Gone(q)
  BY <1>1 DEF IInv, TypeOK, Gone
<1> QED BY <1>1, <1>2, Unseen

LEMMA RefineIdle ==
  ASSUME IInv, NEW p \in Proc,
         \/ PlaceFails(p) \/ StreamIoDone(p) \/ ThreadForkFails(p)
         \/ Runprogram(p) \/ (RunprogramDone(p) /\ pc'[p] # "user")
  PROVE  SharedStep
<1> USE DEF files, tables, Goto
<1>1. UNCHANGED <<ft_openfiles, of_offset>>
  BY DEF PlaceFails, StreamIoDone, ThreadForkFails, Runprogram, RunprogramDone
<1>2. CASE PlaceFails(p) \/ StreamIoDone(p)
  <2>1. pc[p] \in {"place", "stream"} /\ back' = [back EXCEPT ![p] = "user"]
    BY <1>2 DEF PlaceFails, StreamIoDone, Drop, ReturnsTo
  <2>2. \E w \in {"decref", "user"} : pc' = [pc EXCEPT ![p] = w]
    BY <1>2 DEF PlaceFails, StreamIoDone, Drop, ReturnsTo
  <2>3. \A q \in Proc : Gone(q)' <=> Gone(q)
    BY <2>1, <2>2 DEF IInv, TypeOK, Gone
  <2> QED BY <1>1, <2>3, Unseen
<1>3. CASE ThreadForkFails(p)
  <2>1. \A q \in Proc : Gone(q)' <=> Gone(q)
    BY <1>3 DEF ThreadForkFails, IInv, TypeOK, Gone
  <2> QED BY <1>1, <2>1, Unseen
<1>4. CASE Runprogram(p) \/ (RunprogramDone(p) /\ pc'[p] # "user")
  <2>1. /\ back' = back /\ pc[p] \in {"free", "stdfds"}
        /\ \E w \in {"stdfds", "exit"} : pc' = [pc EXCEPT ![p] = w]
    BY <1>4 DEF Runprogram, RunprogramDone, IInv, TypeOK
  <2>2. \A q \in Proc : Gone(q)' <=> Gone(q)
    BY <2>1 DEF IInv, TypeOK, Gone
  <2> QED BY <1>1, <2>2, Unseen
<1> QED BY <1>2, <1>3, <1>4

-----------------------------------------------------------------------------
(* filetable.c, openfile.c and the calls implement the descriptors of      *)
(* SharedFiles: what takes a call several steps is seen by programs as one *)
(* step, in which everything else keeps its descriptors and its offsets.   *)
THEOREM Refinement == Spec => ImplementsSharedFiles
<1>1. Init => Shared!SharedInit
  <2> SUFFICES ASSUME Init PROVE Shared!SharedInit
    OBVIOUS
  <2>1. \A p \in Proc : Gone(p)
    BY DEF Init, Gone
  <2>2. VisibleTable = [p \in Proc |-> EmptyTable]
    BY <2>1 DEF VisibleTable
  <2>3. VisibleFiles = {}
    BY <2>2, OpenFilesAssumption DEF VisibleFiles, EmptyTable
  <2> QED BY <2>1, <2>2, <2>3 DEF Shared!SharedInit, Shared!EmptyTable, EmptyTable
<1>2. IInv /\ [Next]_vars => [Shared!SharedNext]_(Shared!sharedVars)
  <2> SUFFICES ASSUME IInv, [Next]_vars PROVE SharedStep
    BY DEF SharedStep
  <2>1. ASSUME NEW p \in Proc, NEW f \in File, Open(p, f) \/ PlacedOpen(p, f)
        PROVE  SharedStep
    BY <2>1, RefineOpen, RefinePlacedOpen
  <2>2. ASSUME NEW p \in Proc, NEW d \in Fd, Close(p, d) PROVE SharedStep
    BY <2>2, RefineClose DEF SharedStep, Shared!SharedNext
  <2>3. ASSUME NEW p \in Proc, NEW d \in Fd, Io(p, d) \/ Lseek(p, d) \/ StreamIo(p, d)
        PROVE  SharedStep
    BY <2>3, RefineOthers
  <2>4. ASSUME NEW p \in Proc, NEW d \in Fd, NEW e \in Fd, Dup2(p, d, e)
        PROVE  SharedStep
    BY <2>4, RefineOthers
  <2>5. ASSUME NEW p \in Proc, NEW q \in Proc, Fork(p, q) PROVE SharedStep
    BY <2>5, RefineFork
  <2>6. ASSUME NEW p \in Proc, IoDone(p) \/ SeekEnd(p) \/ Fails(p) PROVE SharedStep
    <3>1. pc[p] \in {"io", "seek"} /\ \E o \in 0..MaxOffset : Unlocked(p, o)
      BY <2>6, UnlockedTo DEF IoDone, SeekEnd, Fails
    <3>2. PICK o \in 0..MaxOffset, d \in Fd : Unlocked(p, o) /\ d = fd[p]
      BY <3>1 DEF IInv, LocalsRight
    <3>3. Shared!Move(p, d, o)
      BY <3>1, <3>2, RefineUnlocked
    <3> QED BY <3>3 DEF SharedStep, Shared!SharedNext
  <2>7. ASSUME NEW p \in Proc, Place(p) PROVE SharedStep
    <3>1. PICK f \in File : f = file[p]
      BY <2>7 DEF Place, IInv, LocalsRight, Holding
    <3>2. Shared!Open(p, f)
      BY <2>7, <3>1, RefinePlace
    <3> QED BY <3>2 DEF SharedStep, Shared!SharedNext
  <2>8. ASSUME NEW p \in Proc, Dup2Place(p) PROVE SharedStep
    BY <2>8, RefineDup2Place DEF SharedStep, Shared!SharedNext
  <2>9. ASSUME NEW p \in Proc, ThreadFork(p) PROVE SharedStep
    <3>1. PICK q \in Proc : q = child[p]
      BY <2>9 DEF ThreadFork, IInv, TablesRight, Forking
    <3>2. Shared!Fork(p, q)
      BY <2>9, <3>1, RefineThreadFork
    <3> QED BY <3>2 DEF SharedStep, Shared!SharedNext
  <2>10. ASSUME NEW p \in Proc, Exit(p) PROVE SharedStep
    BY <2>10, RefineExit DEF SharedStep, Shared!SharedNext
  <2>11. ASSUME NEW p \in Proc, RunprogramDone(p) \/ Runprogram(p) PROVE SharedStep
    <3>1. CASE RunprogramDone(p) /\ pc'[p] = "user"
      BY <3>1, RefineStart DEF SharedStep, Shared!SharedNext
    <3>2. CASE Runprogram(p) \/ (RunprogramDone(p) /\ pc'[p] # "user")
      BY <3>2, RefineIdle
    <3> QED BY <2>11, <3>1, <3>2
  <2>12. ASSUME NEW p \in Proc, PlaceFails(p) \/ StreamIoDone(p) \/ ThreadForkFails(p)
         PROVE  SharedStep
    BY <2>12, RefineIdle
  <2>13. ASSUME NEW p \in Proc, Decref(p) \/ Destroy(p) \/ CopyEntry(p) PROVE SharedStep
    BY <2>13, RefineDecref, RefineDestroy, RefineCopyEntry
  <2>14. ASSUME NEW p \in Proc, DropEntry(p) \/ TableGone(p) PROVE SharedStep
    BY <2>14, RefineDropEntry, RefineTableGone
  <2>15. CASE UNCHANGED vars
    BY <2>15 DEF vars, SharedStep, Shared!sharedVars, VisibleFiles, VisibleTable, Gone
  <2> QED BY <2>1, <2>2, <2>3, <2>4, <2>5, <2>6, <2>7, <2>8, <2>9, <2>10, <2>11,
             <2>12, <2>13, <2>14, <2>15 DEF Next
<1> QED BY <1>1, <1>2, Invariance, PTL DEF Spec, ImplementsSharedFiles, Shared!SharedSpec
=============================================================================
