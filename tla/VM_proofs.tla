----------------------------- MODULE VM_proofs -----------------------------
(***************************************************************************)
(* Proofs about VM, for every number of cpus, processes, frames and pages, *)
(* and whatever regions an executable asks for.                            *)
(***************************************************************************)
EXTENDS VM, TLAPS, FiniteSetTheorems, SequenceTheorems

TypeOK ==
  /\ p_as \in [Proc -> AddressSpace \cup {NULL}]
  /\ old \in [Proc -> AddressSpace \cup {NULL}]
  /\ pc \in [Proc -> Place]
  /\ fault \in [Proc -> [page : Nat, frame : Frame \cup {NULL}]]
  /\ current \in [Cpu -> Proc \cup {NULL}]
  /\ tlb \in [Cpu -> SUBSET [page : Page, frame : Frame, dirty : BOOLEAN]]
  /\ used \subseteq Frame /\ leaked \subseteq Frame

(* What a process has, place by place. *)
ProcRight(p) ==
  /\ pc[p] \in {"none", "start", "exit", "panic"} => p_as[p] = NULL
  /\ pc[p] \in {"none", "start", "argv", "user"} => old[p] = NULL
  /\ pc[p] \in {"define", "load", "stack", "argv", "user"} => p_as[p] # NULL
  /\ pc[p] = "none" => \A c \in Cpu : current[c] # p
  /\ fault[p] # NoFault =>
       /\ pc[p] \in {"load", "argv", "user"} /\ fault[p].frame # NULL
       /\ fault[p].page \in Page \ Mapped(p_as[p])
       /\ Containing(p_as[p], fault[p].page) # {}

ProcsRight == \A p \in Proc : ProcRight(p)

OneCpu == \A c, d \in Cpu : current[c] = current[d] /\ current[c] # NULL => c = d

(* Regions have no page in common. *)
Disjoint(x) == \A v \in Page : \A i, j \in Containing(x, v) : i = j

(* Each page mapped is in a region, with its rights. *)
Exact(x) ==
  /\ Disjoint(x)
  /\ \A v \in Mapped(x) : \E i \in Containing(x, v) :
       x.pagetable[v].dirty = x.regions[i].writeable

(* The loader may write everywhere, until it is done. *)
Loading(x) ==
  /\ Disjoint(x)
  /\ \A i \in DOMAIN x.regions : x.regions[i].writeable
  /\ \A v \in Mapped(x) : Containing(x, v) # {} /\ x.pagetable[v].dirty

SpaceRight(p) ==
  /\ pc[p] = "define" => Disjoint(p_as[p]) /\ Mapped(p_as[p]) = {}
  /\ pc[p] = "load" => Loading(p_as[p])
  /\ pc[p] \in {"stack", "argv", "user"} => Exact(p_as[p])
  /\ pc[p] \in {"define", "load", "stack"} /\ old[p] # NULL => Exact(old[p])

SpacesRight == \A p \in Proc : SpaceRight(p)

(* What can own a frame: page v of an address space, which p_as or old     *)
(* points to, or vm_fault between alloc_kpages and insert_pt; NULL: none.  *)
FrameIn(x, v) ==
  IF x = NULL THEN NULL
  ELSE IF x.pagetable[v] = NULL THEN NULL ELSE x.pagetable[v].frame

FrameAt(p, a, v) ==
  CASE a = "p_as" -> FrameIn(p_as[p], v)
    [] a = "old" -> FrameIn(old[p], v)
    [] OTHER -> IF fault[p].page = v THEN fault[p].frame ELSE NULL

Slot == {"p_as", "old", "fault"}

(* Each frame has one owner. *)
OwnersApart == \A p, q \in Proc, a, b \in Slot, u, v \in Page :
  FrameAt(p, a, u) # NULL /\ FrameAt(p, a, u) = FrameAt(q, b, v) =>
    p = q /\ a = b /\ u = v

(* The frames given are those owned and those lost. *)
UsedOwned ==
  /\ leaked \subseteq used
  /\ \A p \in Proc, a \in Slot, v \in Page :
       FrameAt(p, a, v) # NULL => FrameAt(p, a, v) \in used \ leaked
  /\ \A f \in used \ leaked :
       \E p \in Proc, a \in Slot, v \in Page : FrameAt(p, a, v) = f

Owned == OwnersApart /\ UsedOwned

(* What a cpu translates for the process it runs. *)
TLBRight == \A c \in Cpu : current[c] # NULL /\ p_as[current[c]] # NULL =>
  /\ \A e \in tlb[c] : /\ p_as[current[c]].pagetable[e.page] # NULL
                       /\ p_as[current[c]].pagetable[e.page] =
                            [frame |-> e.frame, dirty |-> e.dirty]
  /\ \A e, g \in tlb[c] : e.page = g.page => e = g

IInv == /\ TypeOK /\ ProcsRight /\ OneCpu /\ SpacesRight
        /\ Owned /\ TLBRight

-----------------------------------------------------------------------------
(* Addresses.                                                              *)

LEMMA SumNat == ASSUME NEW v \in Int, NEW n \in Int
                PROVE  Sum(v, n) \in 0..(ADDR_MAX - 1)
<1>1. ADDR_MAX \in Nat \ {0}
  BY VMAssumption
<1> DEFINE M == ADDR_MAX
<1>2. \A k \in Int : k % M \in 0..(M - 1)
  BY <1>1, Z3
<1>3. v + n \in Int
  OBVIOUS
<1>. QED
  BY <1>2, <1>3 DEF Sum

LEMMA RegionFields ==
  ASSUME NEW r \in Region
  PROVE  /\ r.base \in Nat /\ r.size \in Nat
         /\ r.writeable \in BOOLEAN /\ r.old_writeable \in BOOLEAN
         /\ Sum(r.base, r.size) \in Nat
<1>1. r.base \in 0..(ADDR_MAX - 1) /\ r.size \in 0..(ADDR_MAX - 1)
  BY DEF Region
<1>2. r.base \in Int /\ r.size \in Int /\ r.base \in Nat /\ r.size \in Nat
  BY <1>1
<1>3. Sum(r.base, r.size) \in 0..(ADDR_MAX - 1)
  BY <1>2, SumNat
<1>4. \A k \in 0..(ADDR_MAX - 1) : k \in Nat
  BY VMAssumption
<1>. QED
  BY <1>2, <1>3, <1>4 DEF Region

(* A region that passes the tests of region_valid against another has no   *)
(* page in common with it, although only end points are compared.          *)
LEMMA ClearDisjoint ==
  ASSUME NEW r \in Region, NEW s \in Region, Clear(r, s.base, s.size),
         NEW v \in Page, Contains(r, v), Contains(s, v)
  PROVE  FALSE
<1>1. v \in Int
  BY VMAssumption DEF Page
<1>2. /\ r.base \in Nat /\ s.base \in Nat
      /\ Sum(r.base, r.size) \in Nat /\ Sum(s.base, s.size) \in Nat
  BY RegionFields
<1>3. /\ ~(r.base <= s.base /\ Sum(r.base, r.size) > s.base)
      /\ ~(s.base <= r.base /\ Sum(s.base, s.size) > r.base)
  BY DEF Clear
<1>4. /\ v >= r.base /\ v < Sum(r.base, r.size)
      /\ v >= s.base /\ v < Sum(s.base, s.size)
  BY DEF Contains
<1>. QED
  BY <1>1, <1>2, <1>3, <1>4

-----------------------------------------------------------------------------
(* Address spaces.                                                         *)

LEMMA SpaceFields ==
  ASSUME NEW x \in AddressSpace
  PROVE  /\ x # NULL
         /\ x.regions \in Seq(Region)
         /\ DOMAIN x.regions = 1..Len(x.regions) /\ Len(x.regions) \in Nat
         /\ \A i \in DOMAIN x.regions : x.regions[i] \in Region
         /\ x.pagetable \in [Page -> PageEntry \cup {NULL}]
         /\ \A v \in Page : x.pagetable[v] # NULL => x.pagetable[v] \in PageEntry
<1>1. x \in [regions : Seq(Region), pagetable : [Page -> PageEntry \cup {NULL}]]
  BY DEF AddressSpace
<1>2. x.regions \in Seq(Region) /\ x.pagetable \in [Page -> PageEntry \cup {NULL}]
  BY <1>1
<1>3. /\ DOMAIN x.regions = 1..Len(x.regions) /\ Len(x.regions) \in Nat
      /\ \A i \in DOMAIN x.regions : x.regions[i] \in Region
  BY <1>2, LenProperties, ElementOfSeq
<1>4. x # NULL
  BY VMAssumption
<1>. QED
  BY <1>2, <1>3, <1>4

LEMMA FrameFields ==
  ASSUME NEW x \in AddressSpace, NEW v \in Page
  PROVE  /\ x.pagetable[v] # NULL =>
              /\ x.pagetable[v].frame \in Frame /\ x.pagetable[v].frame # NULL
              /\ x.pagetable[v].dirty \in BOOLEAN
         /\ v \in Mapped(x) <=> x.pagetable[v] # NULL
         /\ v \in Mapped(x) <=> FrameIn(x, v) # NULL
         /\ FrameIn(x, v) \in Frame \cup {NULL}
<1>1. x # NULL /\ (x.pagetable[v] # NULL => x.pagetable[v] \in PageEntry)
  BY SpaceFields
<1>2. x.pagetable[v] # NULL =>
              /\ x.pagetable[v].frame \in Frame /\ x.pagetable[v].frame # NULL
              /\ x.pagetable[v].dirty \in BOOLEAN
  BY <1>1, VMAssumption DEF PageEntry
<1>3. v \in Mapped(x) <=> x.pagetable[v] # NULL
  BY DEF Mapped
<1>. QED
  BY <1>1, <1>2, <1>3 DEF FrameIn

LEMMA FramesOfSpace ==
  ASSUME NEW x \in AddressSpace, NEW f
  PROVE  f \in FramesOf(x) <=> f # NULL /\ \E v \in Page : FrameIn(x, v) = f
<1>1. x # NULL
  BY SpaceFields
<1>2. FramesOf(x) = {x.pagetable[v].frame : v \in Mapped(x)}
  BY DEF FramesOf
<1>3. \A v \in Page : /\ v \in Mapped(x) <=> FrameIn(x, v) # NULL
                      /\ v \in Mapped(x) => FrameIn(x, v) = x.pagetable[v].frame
  BY <1>1, FrameFields DEF FrameIn
<1>4. Mapped(x) \subseteq Page
  BY DEF Mapped
<1>. QED
  BY <1>2, <1>3, <1>4

LEMMA NewSpaceRight ==
  /\ NewSpace \in AddressSpace
  /\ Mapped(NewSpace) = {} /\ Disjoint(NewSpace)
  /\ \A v \in Page : FrameIn(NewSpace, v) = NULL
<1>1. <<>> \in Seq(Region)
  BY EmptySeq
<1>2. [v \in Page |-> NULL] \in [Page -> PageEntry \cup {NULL}]
  OBVIOUS
<1>3. NewSpace \in AddressSpace
  BY <1>1, <1>2 DEF NewSpace, AddressSpace
<1>4. \A v \in Page : NewSpace.pagetable[v] = NULL
  BY DEF NewSpace
<1>5. DOMAIN NewSpace.regions = {}
  <2>1. NewSpace.regions = <<>>
    BY DEF NewSpace
  <2>. QED
    BY <2>1
<1>6. \A v \in Page : Containing(NewSpace, v) = {}
  BY <1>5 DEF Containing
<1>. QED
  BY <1>3, <1>4, <1>6, SpaceFields DEF Mapped, Disjoint, FrameIn

(* In a space with disjoint regions get_region finds the only one.         *)
LEMMA GetRegion ==
  ASSUME NEW x \in AddressSpace, Disjoint(x), NEW v \in Page,
         NEW i \in Containing(x, v)
  PROVE  get_region(x, v) = x.regions[i]
<1>1. \A j \in Containing(x, v) : j = i
  BY DEF Disjoint
<1>2. i \in Nat
  BY SpaceFields DEF Containing
<1>3. \A j \in Containing(x, v) : i <= j
  BY <1>1, <1>2
<1>4. (CHOOSE k \in Containing(x, v) : \A j \in Containing(x, v) : k <= j) = i
  BY <1>1, <1>3
<1>. QED
  BY <1>4 DEF get_region

(* as_define_region puts the region before the others.                     *)
LEMMA InsertRegion ==
  ASSUME NEW x \in AddressSpace, NEW r \in Region
  PROVE  /\ Insert(x, r) \in AddressSpace
         /\ Insert(x, r).pagetable = x.pagetable
         /\ DOMAIN Insert(x, r).regions = 1..(Len(x.regions) + 1)
         /\ \A i \in 1..(Len(x.regions) + 1) :
              Insert(x, r).regions[i] = IF i = 1 THEN r ELSE x.regions[i - 1]
<1>1. x.regions \in Seq(Region) /\ Len(x.regions) \in Nat
  BY SpaceFields
<1>2. <<r>> \in Seq(Region) /\ Len(<<r>>) = 1 /\ <<r>>[1] = r
  OBVIOUS
<1> DEFINE s == <<r>> \o x.regions
<1>3. /\ s \in Seq(Region) /\ Len(s) = 1 + Len(x.regions)
      /\ \A i \in 1..(1 + Len(x.regions)) :
           s[i] = IF i <= 1 THEN <<r>>[i] ELSE x.regions[i - 1]
  <2>1. /\ <<r>> \o x.regions \in Seq(Region)
        /\ Len(<<r>> \o x.regions) = Len(<<r>>) + Len(x.regions)
        /\ \A i \in 1..(Len(<<r>>) + Len(x.regions)) : (<<r>> \o x.regions)[i] =
              IF i <= Len(<<r>>) THEN <<r>>[i] ELSE x.regions[i - Len(<<r>>)]
    BY <1>1, <1>2, ConcatProperties
  <2>. QED
    BY <2>1, <1>2
<1>4. DOMAIN s = 1..Len(s)
  BY <1>3, LenProperties
<1>5. x \in [regions : Seq(Region), pagetable : [Page -> PageEntry \cup {NULL}]]
  BY DEF AddressSpace
<1>6. Insert(x, r) = [x EXCEPT !.regions = s]
  BY DEF Insert
<1> HIDE DEF s
<1>7. /\ Insert(x, r).regions = s /\ Insert(x, r).pagetable = x.pagetable
      /\ Insert(x, r) \in [regions : Seq(Region),
                           pagetable : [Page -> PageEntry \cup {NULL}]]
  BY <1>3, <1>5, <1>6
<1>8. \A i \in 1..(Len(x.regions) + 1) :
        s[i] = IF i = 1 THEN r ELSE x.regions[i - 1]
  BY <1>1, <1>2, <1>3
<1>. QED
  BY <1>1, <1>3, <1>4, <1>7, <1>8 DEF AddressSpace

(* A region that region_valid lets in shares no page with another.         *)
LEMMA InsertDisjoint ==
  ASSUME NEW x \in AddressSpace, NEW r \in Region, Disjoint(x),
         region_valid(x, r.base, r.size)
  PROVE  Disjoint(Insert(x, r))
<1> DEFINE n == Len(x.regions)
           y == Insert(x, r)
<1>1. /\ DOMAIN x.regions = 1..n /\ n \in Nat
      /\ \A i \in 1..n : x.regions[i] \in Region
  BY SpaceFields
<1>2. /\ DOMAIN y.regions = 1..(n + 1)
      /\ \A i \in 1..(n + 1) :
           y.regions[i] = IF i = 1 THEN r ELSE x.regions[i - 1]
  BY InsertRegion
<1>3. \A i \in 1..n : Clear(x.regions[i], r.base, r.size)
  BY <1>1 DEF region_valid
<1> HIDE DEF y, n
<1>4. ASSUME NEW v \in Page, NEW i \in Containing(y, v), NEW j \in Containing(y, v)
      PROVE  i = j
  <2>1. /\ i \in 1..(n + 1) /\ Contains(y.regions[i], v)
        /\ j \in 1..(n + 1) /\ Contains(y.regions[j], v)
    BY <1>2 DEF Containing
  <2>2. ASSUME NEW k \in 1..(n + 1), k # 1, Contains(y.regions[k], v)
        PROVE  k - 1 \in Containing(x, v) /\ k - 1 \in 1..n
    <3>1. k - 1 \in 1..n
      BY <1>1, <2>2
    <3>2. Contains(x.regions[k - 1], v)
      BY <1>2, <2>2
    <3>. QED
      BY <3>1, <3>2, <1>1 DEF Containing
  <2>3. ASSUME NEW k \in 1..(n + 1), k # 1, Contains(y.regions[k], v),
               Contains(y.regions[1], v)
        PROVE  FALSE
    <3>1. k - 1 \in 1..n /\ Contains(x.regions[k - 1], v)
      BY <2>2, <2>3 DEF Containing
    <3>2. Contains(r, v)
      BY <1>1, <1>2, <2>3
    <3>. QED
      BY <3>1, <3>2, <1>1, <1>3, ClearDisjoint
  <2>4. CASE i = 1 \/ j = 1
    BY <2>1, <2>3, <2>4
  <2>5. CASE i # 1 /\ j # 1
    <3>1. i - 1 = j - 1
      BY <2>1, <2>2, <2>5 DEF Disjoint
    <3>. QED
      BY <3>1, <2>1, <1>1
  <2>. QED
    BY <2>4, <2>5
<1>. QED
  BY <1>4 DEF Disjoint, y

LEMMA InsertExact ==
  ASSUME NEW x \in AddressSpace, NEW r \in Region, Exact(x),
         region_valid(x, r.base, r.size)
  PROVE  Exact(Insert(x, r))
<1> DEFINE n == Len(x.regions)
           y == Insert(x, r)
<1>1. DOMAIN x.regions = 1..n /\ n \in Nat
  BY SpaceFields
<1>2. /\ DOMAIN y.regions = 1..(n + 1)
      /\ \A i \in 1..(n + 1) :
           y.regions[i] = IF i = 1 THEN r ELSE x.regions[i - 1]
      /\ y.pagetable = x.pagetable
  BY InsertRegion
<1>3. Disjoint(y)
  BY InsertDisjoint DEF Exact
<1> HIDE DEF y, n
<1>4. ASSUME NEW v \in Mapped(y)
      PROVE  \E i \in Containing(y, v) :
               y.pagetable[v].dirty = y.regions[i].writeable
  <2>1. v \in Mapped(x)
    BY <1>2 DEF Mapped
  <2>2. PICK i \in Containing(x, v) : x.pagetable[v].dirty = x.regions[i].writeable
    BY <2>1 DEF Exact
  <2>3. i \in 1..n /\ Contains(x.regions[i], v)
    BY <1>1 DEF Containing
  <2>4. i + 1 \in 1..(n + 1) /\ y.regions[i + 1] = x.regions[i]
    <3>1. i + 1 \in 1..(n + 1) /\ i + 1 # 1 /\ (i + 1) - 1 = i
      BY <1>1, <2>3
    <3>. QED
      BY <3>1, <1>2
  <2>5. i + 1 \in Containing(y, v)
    BY <2>3, <2>4, <1>2 DEF Containing
  <2>. QED
    BY <2>2, <2>4, <2>5, <1>2
<1>. QED
  BY <1>3, <1>4 DEF Exact, y

(* What the page belongs to depends on the regions' addresses only.        *)
LEMMA SameShape ==
  ASSUME NEW x, NEW y, DOMAIN x.regions = DOMAIN y.regions,
         \A i \in DOMAIN x.regions :
           /\ x.regions[i].base = y.regions[i].base
           /\ x.regions[i].size = y.regions[i].size
  PROVE  /\ \A v : Containing(x, v) = Containing(y, v)
         /\ Disjoint(x) <=> Disjoint(y)
<1>1. ASSUME NEW v PROVE Containing(x, v) = Containing(y, v)
  BY DEF Containing, Contains
<1>. QED
  BY <1>1 DEF Disjoint

(* as_prepare_load makes each region writeable.                            *)
Writeable(x) == [x EXCEPT !.regions = Regions(x, LAMBDA r :
       [r EXCEPT !.old_writeable = r.writeable, !.writeable = TRUE])]

LEMMA PrepareLoad ==
  ASSUME NEW x \in AddressSpace
  PROVE  /\ Writeable(x) \in AddressSpace
         /\ Writeable(x).pagetable = x.pagetable
         /\ Disjoint(x) /\ Mapped(x) = {} => Loading(Writeable(x))
<1> DEFINE y == Writeable(x)
           s == [i \in DOMAIN x.regions |->
                   [x.regions[i] EXCEPT !.old_writeable = x.regions[i].writeable,
                                        !.writeable = TRUE]]
<1>1. /\ DOMAIN x.regions = 1..Len(x.regions) /\ Len(x.regions) \in Nat
      /\ \A i \in DOMAIN x.regions : x.regions[i] \in Region
  BY SpaceFields
<1>2. \A i \in DOMAIN x.regions :
        /\ s[i] \in Region /\ s[i].writeable = TRUE
        /\ s[i].base = x.regions[i].base /\ s[i].size = x.regions[i].size
  BY <1>1 DEF Region
<1>3. DOMAIN s = DOMAIN x.regions
  OBVIOUS
<1>4. s \in Seq(Region)
  <2>1. s \in [1..Len(x.regions) -> Region]
    BY <1>1, <1>2
  <2>. QED
    BY <2>1, <1>1, SeqDef
<1>5. y = [x EXCEPT !.regions = s]
  BY DEF Writeable, Regions
<1>6. x \in [regions : Seq(Region), pagetable : [Page -> PageEntry \cup {NULL}]]
  BY DEF AddressSpace
<1> HIDE DEF y, s
<1>7. /\ y.regions = s /\ y.pagetable = x.pagetable
      /\ y \in [regions : Seq(Region), pagetable : [Page -> PageEntry \cup {NULL}]]
  BY <1>4, <1>5, <1>6
<1>8. ASSUME Disjoint(x), Mapped(x) = {} PROVE Loading(y)
  <2>1. Disjoint(x) <=> Disjoint(y)
    BY <1>2, <1>3, <1>7, SameShape
  <2>2. Mapped(y) = {}
    BY <1>7, <1>8 DEF Mapped
  <2>. QED
    BY <2>1, <2>2, <1>2, <1>3, <1>7, <1>8 DEF Loading
<1>. QED
  BY <1>7, <1>8 DEF y, AddressSpace

(* as_complete_load gives regions and pages the rights they were asked.    *)
Restored(x) ==
  [regions |-> Regions(x, LAMBDA r : [r EXCEPT !.writeable = r.old_writeable]),
   pagetable |-> [v \in Page |-> Protected(x, v)]]

LEMMA CompleteLoad ==
  ASSUME NEW x \in AddressSpace
  PROVE  /\ Restored(x) \in AddressSpace
         /\ \A v \in Page : FrameIn(Restored(x), v) = FrameIn(x, v)
         /\ Loading(x) => Exact(Restored(x))
<1> DEFINE y == Restored(x)
           s == [i \in DOMAIN x.regions |->
                   [x.regions[i] EXCEPT !.writeable = x.regions[i].old_writeable]]
           t == [v \in Page |-> Protected(x, v)]
<1>1. /\ DOMAIN x.regions = 1..Len(x.regions) /\ Len(x.regions) \in Nat
      /\ \A i \in DOMAIN x.regions : x.regions[i] \in Region
      /\ \A v \in Page : x.pagetable[v] # NULL => x.pagetable[v] \in PageEntry
      /\ x # NULL
  BY SpaceFields
<1>2. \A i \in DOMAIN x.regions :
        /\ s[i] \in Region /\ s[i].writeable = x.regions[i].old_writeable
        /\ s[i].base = x.regions[i].base /\ s[i].size = x.regions[i].size
  BY <1>1 DEF Region
<1>3. DOMAIN s = DOMAIN x.regions
  OBVIOUS
<1>4. s \in Seq(Region)
  <2>1. s \in [1..Len(x.regions) -> Region]
    BY <1>1, <1>2
  <2>. QED
    BY <2>1, <1>1, SeqDef
<1>5. \A v \in Page :
        /\ t[v] = NULL <=> x.pagetable[v] = NULL
        /\ x.pagetable[v] # NULL =>
             /\ t[v] \in PageEntry /\ t[v].frame = x.pagetable[v].frame
             /\ t[v].dirty = IF get_region(x, v).old_writeable
                             THEN x.pagetable[v].dirty ELSE FALSE
  <2> SUFFICES ASSUME NEW v \in Page
      PROVE  /\ t[v] = NULL <=> x.pagetable[v] = NULL
             /\ x.pagetable[v] # NULL =>
                  /\ t[v] \in PageEntry /\ t[v].frame = x.pagetable[v].frame
                  /\ t[v].dirty = IF get_region(x, v).old_writeable
                                  THEN x.pagetable[v].dirty ELSE FALSE
    OBVIOUS
  <2>1. t[v] = Protected(x, v)
    OBVIOUS
  <2>2. v \in Mapped(x) <=> x.pagetable[v] # NULL
    BY DEF Mapped
  <2>3. CASE x.pagetable[v] = NULL
    BY <2>1, <2>2, <2>3 DEF Protected
  <2>4. CASE x.pagetable[v] # NULL /\ get_region(x, v).old_writeable
    BY <2>1, <2>2, <2>4, <1>1 DEF Protected
  <2>5. CASE x.pagetable[v] # NULL /\ ~get_region(x, v).old_writeable
    <3>1. t[v] = [x.pagetable[v] EXCEPT !.dirty = FALSE]
      BY <2>1, <2>2, <2>5 DEF Protected
    <3>2. x.pagetable[v] \in [frame : Frame, dirty : BOOLEAN]
      BY <2>5, <1>1 DEF PageEntry
    <3>3. /\ t[v] \in [frame : Frame, dirty : BOOLEAN]
          /\ t[v].frame = x.pagetable[v].frame /\ t[v].dirty = FALSE
      BY <3>1, <3>2
    <3>4. t[v] # NULL
      BY <3>3, VMAssumption DEF PageEntry
    <3>. QED
      BY <3>3, <3>4, <2>5 DEF PageEntry
  <2>. QED
    BY <2>3, <2>4, <2>5
<1>6. y = [regions |-> s, pagetable |-> t]
  BY DEF Restored, Regions
<1>7. t \in [Page -> PageEntry \cup {NULL}]
  BY <1>5
<1> HIDE DEF y, s, t
<1>8. y.regions = s /\ y.pagetable = t /\ y \in AddressSpace
  BY <1>4, <1>6, <1>7 DEF AddressSpace
<1>9. \A v \in Page : FrameIn(y, v) = FrameIn(x, v)
  BY <1>1, <1>5, <1>8, SpaceFields DEF FrameIn
<1>10. ASSUME Loading(x) PROVE Exact(y)
  <2>1. /\ Disjoint(x) <=> Disjoint(y)
        /\ \A v : Containing(x, v) = Containing(y, v)
    BY <1>2, <1>3, <1>8, SameShape
  <2>2. ASSUME NEW v \in Mapped(y)
        PROVE  \E i \in Containing(y, v) :
                 y.pagetable[v].dirty = y.regions[i].writeable
    <3>1. v \in Page /\ x.pagetable[v] # NULL /\ v \in Mapped(x)
      BY <1>5, <1>8 DEF Mapped
    <3>2. PICK i : i \in Containing(x, v)
      BY <3>1, <1>10 DEF Loading
    <3>3. get_region(x, v) = x.regions[i] /\ x.pagetable[v].dirty
      BY <3>1, <3>2, <1>10, GetRegion DEF Loading
    <3>4. i \in DOMAIN x.regions /\ x.regions[i].old_writeable \in BOOLEAN
      BY <3>2, <1>1, RegionFields DEF Containing
    <3>5. x.pagetable[v].dirty \in BOOLEAN
      BY <3>1, FrameFields
    <3>6. t[v].dirty = x.regions[i].old_writeable
      BY <3>1, <3>3, <3>4, <3>5, <1>5
    <3>. QED
      BY <3>2, <3>4, <3>6, <2>1, <1>2, <1>8
  <2>. QED
    BY <2>1, <2>2, <1>10 DEF Exact, Loading
<1>. QED
  BY <1>8, <1>9, <1>10 DEF y

(* insert_pt.                                                              *)
LEMMA InsertPage ==
  ASSUME NEW x \in AddressSpace, NEW w \in Page, w \notin Mapped(x),
         NEW e \in PageEntry
  PROVE  LET y == [x EXCEPT !.pagetable[w] = e] IN
         /\ y \in AddressSpace
         /\ y.pagetable = [x.pagetable EXCEPT ![w] = e]
         /\ \A v \in Page : FrameIn(y, v) = IF v = w THEN e.frame ELSE FrameIn(x, v)
         /\ \A v \in Page : Containing(y, v) = Containing(x, v)
         /\ Mapped(y) = Mapped(x) \cup {w}
         /\ Containing(x, w) # {} /\ e.dirty = get_region(x, w).writeable =>
              (Loading(x) => Loading(y)) /\ (Exact(x) => Exact(y))
<1> DEFINE y == [x EXCEPT !.pagetable[w] = e]
           t == [x.pagetable EXCEPT ![w] = e]
<1>1. /\ x # NULL /\ x.pagetable \in [Page -> PageEntry \cup {NULL}]
      /\ \A i \in DOMAIN x.regions : x.regions[i] \in Region
  BY SpaceFields
<1>2. t \in [Page -> PageEntry \cup {NULL}]
  BY <1>1
<1>3. x \in [regions : Seq(Region), pagetable : [Page -> PageEntry \cup {NULL}]]
  BY DEF AddressSpace
<1>4. y = [x EXCEPT !.pagetable = t]
  BY <1>3
<1>5. \A v \in Page : t[v] = IF v = w THEN e ELSE x.pagetable[v]
  BY <1>1
<1> HIDE DEF y, t
<1>6. y.regions = x.regions /\ y.pagetable = t
  BY <1>3, <1>4
<1>7. y \in AddressSpace
  BY <1>2, <1>3, <1>4 DEF AddressSpace
<1>8. e # NULL
  BY VMAssumption
<1>9. y # NULL
  BY <1>7, SpaceFields
<1>10. \A v \in Page : FrameIn(y, v) = IF v = w THEN e.frame ELSE FrameIn(x, v)
  BY <1>1, <1>5, <1>6, <1>8, <1>9 DEF FrameIn
<1>11. /\ \A v : Containing(x, v) = Containing(y, v)
       /\ Disjoint(x) <=> Disjoint(y)
  BY <1>6, SameShape
<1>12. Mapped(y) = Mapped(x) \cup {w}
  BY <1>5, <1>6, <1>8 DEF Mapped
<1>13. ASSUME Containing(x, w) # {}, e.dirty = get_region(x, w).writeable
       PROVE  (Loading(x) => Loading(y)) /\ (Exact(x) => Exact(y))
  <2>1. PICK i : i \in Containing(x, w)
    BY <1>13
  <2>2. i \in DOMAIN x.regions
    BY <2>1 DEF Containing
  <2>3. Disjoint(x) => e.dirty = x.regions[i].writeable
    BY <2>1, <1>13, GetRegion
  <2>4. ASSUME Loading(x) PROVE Loading(y)
    <3>1. /\ Disjoint(x) /\ \A j \in DOMAIN x.regions : x.regions[j].writeable
          /\ \A v \in Mapped(x) : Containing(x, v) # {} /\ x.pagetable[v].dirty
      BY <2>4 DEF Loading
    <3>2. e.dirty
      BY <3>1, <2>2, <2>3, <1>1, RegionFields
    <3>3. \A v \in Mapped(y) : Containing(y, v) # {} /\ y.pagetable[v].dirty
      BY <3>1, <3>2, <2>1, <1>5, <1>6, <1>11, <1>12 DEF Mapped
    <3>. QED
      BY <3>1, <3>3, <1>6, <1>11 DEF Loading
  <2>5. ASSUME Exact(x) PROVE Exact(y)
    <3>1. /\ Disjoint(x)
          /\ \A v \in Mapped(x) : \E j \in Containing(x, v) :
               x.pagetable[v].dirty = x.regions[j].writeable
      BY <2>5 DEF Exact
    <3>2. ASSUME NEW v \in Mapped(y)
          PROVE  \E j \in Containing(y, v) :
                   y.pagetable[v].dirty = y.regions[j].writeable
      <4>1. CASE v = w
        BY <4>1, <3>1, <2>1, <2>3, <1>5, <1>6, <1>11
      <4>2. CASE v # w
        <5>1. v \in Mapped(x) /\ v \in Page
          BY <4>2, <1>12 DEF Mapped
        <5>. QED
          BY <5>1, <4>2, <3>1, <1>5, <1>6, <1>11
      <4>. QED
        BY <4>1, <4>2
    <3>. QED
      BY <3>1, <3>2, <1>11 DEF Exact
  <2>. QED
    BY <2>4, <2>5
<1>14. y.pagetable = [x.pagetable EXCEPT ![w] = e]
  BY <1>6 DEF t
<1>. QED
  BY <1>7, <1>10, <1>11, <1>12, <1>13, <1>14 DEF y

(* as_copy gives the child the same pages, with the same rights, in the    *)
(* frames given for them.                                                  *)
SpaceCopy(x, frames) ==
  [regions |-> x.regions, pagetable |-> [v \in Page |-> Copied(x, frames, v)]]

LEMMA CopySpace ==
  ASSUME NEW x \in AddressSpace, NEW frames \in [Mapped(x) -> Frame]
  PROVE  /\ SpaceCopy(x, frames) \in AddressSpace
         /\ \A v \in Page : FrameIn(SpaceCopy(x, frames), v) =
              IF FrameIn(x, v) = NULL THEN NULL ELSE frames[v]
         /\ Exact(x) => Exact(SpaceCopy(x, frames))
<1> DEFINE y == SpaceCopy(x, frames)
           t == [v \in Page |-> Copied(x, frames, v)]
<1>1. /\ x # NULL /\ x.regions \in Seq(Region)
      /\ \A v \in Page : x.pagetable[v] # NULL => x.pagetable[v] \in PageEntry
  BY SpaceFields
<1>2. \A v \in Page :
        /\ t[v] = NULL <=> x.pagetable[v] = NULL
        /\ x.pagetable[v] # NULL =>
             /\ t[v] \in PageEntry /\ t[v].frame = frames[v]
             /\ t[v].dirty = x.pagetable[v].dirty
  <2> SUFFICES ASSUME NEW v \in Page
      PROVE  /\ t[v] = NULL <=> x.pagetable[v] = NULL
             /\ x.pagetable[v] # NULL =>
                  /\ t[v] \in PageEntry /\ t[v].frame = frames[v]
                  /\ t[v].dirty = x.pagetable[v].dirty
    OBVIOUS
  <2>1. t[v] = Copied(x, frames, v)
    OBVIOUS
  <2>2. v \in Mapped(x) <=> x.pagetable[v] # NULL
    BY DEF Mapped
  <2>3. CASE x.pagetable[v] = NULL
    BY <2>1, <2>2, <2>3 DEF Copied
  <2>4. CASE x.pagetable[v] # NULL
    <3>1. t[v] = [x.pagetable[v] EXCEPT !.frame = frames[v]]
      BY <2>1, <2>2, <2>4 DEF Copied
    <3>2. x.pagetable[v] \in [frame : Frame, dirty : BOOLEAN]
      BY <2>4, <1>1 DEF PageEntry
    <3>3. frames[v] \in Frame
      BY <2>2, <2>4
    <3>4. /\ t[v] \in [frame : Frame, dirty : BOOLEAN]
          /\ t[v].frame = frames[v] /\ t[v].dirty = x.pagetable[v].dirty
      BY <3>1, <3>2, <3>3
    <3>5. t[v] # NULL
      BY <3>4, VMAssumption DEF PageEntry
    <3>. QED
      BY <3>4, <3>5, <2>4 DEF PageEntry
  <2>. QED
    BY <2>3, <2>4
<1>3. y = [regions |-> x.regions, pagetable |-> t]
  BY DEF SpaceCopy
<1>4. t \in [Page -> PageEntry \cup {NULL}]
  BY <1>2
<1> HIDE DEF y, t
<1>5. y.regions = x.regions /\ y.pagetable = t /\ y \in AddressSpace
  BY <1>1, <1>3, <1>4 DEF AddressSpace
<1>6. \A v \in Page : FrameIn(y, v) = IF FrameIn(x, v) = NULL THEN NULL ELSE frames[v]
  <2>1. y # NULL
    BY <1>5, SpaceFields
  <2>2. \A v \in Page : FrameIn(x, v) = NULL <=> x.pagetable[v] = NULL
    BY FrameFields
  <2>. QED
    BY <2>1, <2>2, <1>2, <1>5 DEF FrameIn
<1>7. /\ \A v : Containing(x, v) = Containing(y, v)
      /\ Disjoint(x) <=> Disjoint(y)
  BY <1>5, SameShape
<1>8. Exact(x) => Exact(y)
  BY <1>2, <1>5, <1>7 DEF Exact, Mapped
<1>. QED
  BY <1>5, <1>6, <1>8 DEF y

-----------------------------------------------------------------------------
(* How the ownership of frames changes hands.                              *)

LEMMA OwnersKept ==
  ASSUME Owned, used' = used, leaked' = leaked,
         \A p \in Proc, a \in Slot, v \in Page : FrameAt(p, a, v)' = FrameAt(p, a, v)
  PROVE  Owned'
<1>1. OwnersApart'
  BY DEF Owned, OwnersApart
<1>2. UsedOwned'
  BY DEF Owned, UsedOwned
<1>. QED
  BY <1>1, <1>2 DEF Owned

(* The address space of P becomes the one to restore or destroy.           *)
LEMMA OwnersMoved ==
  ASSUME Owned, NULL \notin used, used' = used, leaked' = leaked, NEW P \in Proc,
         \A p \in Proc \ {P}, a \in Slot, v \in Page :
           FrameAt(p, a, v)' = FrameAt(p, a, v),
         \A v \in Page : /\ FrameAt(P, "old", v) = NULL
                         /\ FrameAt(P, "fault", v)' = FrameAt(P, "fault", v)
                         /\ FrameAt(P, "old", v)' = FrameAt(P, "p_as", v)
                         /\ FrameAt(P, "p_as", v)' = NULL
  PROVE  Owned'
<1>1. OwnersApart'
  BY DEF Owned, OwnersApart, Slot
<1>2. UsedOwned'
  <2>1. leaked' \subseteq used'
    BY DEF Owned, UsedOwned
  <2>2. ASSUME NEW p \in Proc, NEW a \in Slot, NEW v \in Page,
               FrameAt(p, a, v)' # NULL
        PROVE  FrameAt(p, a, v)' \in used' \ leaked'
    BY <2>2 DEF Owned, UsedOwned, Slot
  <2>3. ASSUME NEW f \in used' \ leaked'
        PROVE  \E p \in Proc, a \in Slot, v \in Page : FrameAt(p, a, v)' = f
    <3>1. PICK p \in Proc, a \in Slot, v \in Page : FrameAt(p, a, v) = f
      BY DEF Owned, UsedOwned
    <3>. QED
      BY <3>1, <2>3 DEF Slot
  <2>. QED
    BY <2>1, <2>2, <2>3 DEF UsedOwned
<1>. QED
  BY <1>1, <1>2 DEF Owned

(* The frames in slot d of P are given back.                               *)
LEMMA OwnersFreed ==
  ASSUME Owned, leaked' = leaked, NULL \notin used,
         NEW P \in Proc, NEW s \in {"p_as", "old"}, NEW d \in {"p_as", "old"},
         s # d,
         \A p \in Proc \ {P}, a \in Slot, v \in Page :
           FrameAt(p, a, v)' = FrameAt(p, a, v),
         \A v \in Page : /\ FrameAt(P, "fault", v)' = FrameAt(P, "fault", v)
                         /\ FrameAt(P, "p_as", v)' = FrameAt(P, s, v)
                         /\ FrameAt(P, "old", v)' = NULL,
         \A f : f \in used' <=> f \in used /\ ~(f # NULL /\ \E v \in Page : FrameAt(P, d, v) = f)
  PROVE  Owned'
<1>1. OwnersApart'
  BY DEF Owned, OwnersApart, Slot
<1>2. UsedOwned'
  <2>1. leaked' \subseteq used'
    BY DEF Owned, UsedOwned, Slot
  <2>2. ASSUME NEW p \in Proc, NEW a \in Slot, NEW v \in Page,
               FrameAt(p, a, v)' # NULL
        PROVE  FrameAt(p, a, v)' \in used' \ leaked'
    <3>1. PICK b \in Slot : /\ FrameAt(p, a, v)' = FrameAt(p, b, v)
                            /\ p # P \/ b # d
      BY <2>2 DEF Slot
    <3>2. FrameAt(p, b, v) \in used \ leaked
      BY <2>2, <3>1 DEF Owned, UsedOwned
    <3>3. \A u \in Page : FrameAt(P, d, u) # FrameAt(p, b, v)
      BY <2>2, <3>1 DEF Owned, OwnersApart, Slot
    <3>. QED
      BY <3>1, <3>2, <3>3
  <2>3. ASSUME NEW f \in used' \ leaked'
        PROVE  \E p \in Proc, a \in Slot, v \in Page : FrameAt(p, a, v)' = f
    <3>1. f \in used \ leaked /\ f # NULL
      BY <2>3
    <3>2. PICK p \in Proc, a \in Slot, v \in Page : FrameAt(p, a, v) = f
      BY <3>1 DEF Owned, UsedOwned
    <3>3. p # P \/ a # d
      BY <2>3, <3>1, <3>2
    <3>. QED
      BY <3>2, <3>3 DEF Slot
  <2>. QED
    BY <2>1, <2>2, <2>3 DEF UsedOwned
<1>. QED
  BY <1>1, <1>2 DEF Owned

(* A fault is given a frame.                                               *)
LEMMA OwnersAdded ==
  ASSUME Owned, NULL \notin used, leaked' = leaked, NEW P \in Proc, NEW w \in Page, NEW f,
         f \notin used, used' = used \cup {f}, f # NULL,
         \A p \in Proc, a \in Slot, v \in Page : p # P \/ a # "fault" =>
           FrameAt(p, a, v)' = FrameAt(p, a, v),
         \A v \in Page : /\ FrameAt(P, "fault", v) = NULL
                         /\ FrameAt(P, "fault", v)' = IF v = w THEN f ELSE NULL
  PROVE  Owned'
<1>1. \A p \in Proc, a \in Slot, v \in Page :
        FrameAt(p, a, v) # NULL => FrameAt(p, a, v) \in used
  BY DEF Owned, UsedOwned
<1>2. OwnersApart'
  BY <1>1 DEF Owned, OwnersApart, Slot
<1>3. UsedOwned'
  <2>1. leaked' \subseteq used' /\ f \notin leaked
    BY DEF Owned, UsedOwned
  <2>2. ASSUME NEW p \in Proc, NEW a \in Slot, NEW v \in Page,
               FrameAt(p, a, v)' # NULL
        PROVE  FrameAt(p, a, v)' \in used' \ leaked'
    BY <2>1, <2>2 DEF Owned, UsedOwned, Slot
  <2>3. ASSUME NEW g \in used' \ leaked'
        PROVE  \E p \in Proc, a \in Slot, v \in Page : FrameAt(p, a, v)' = g
    <3>1. CASE g = f
      BY <3>1 DEF Slot
    <3>2. CASE g \in used \ leaked
      <4>1. PICK p \in Proc, a \in Slot, v \in Page : FrameAt(p, a, v) = g
        BY <3>2 DEF Owned, UsedOwned
      <4>2. p # P \/ a # "fault"
        BY <4>1, <3>2, <2>3
      <4>. QED
        BY <4>1, <4>2
    <3>. QED
      BY <3>1, <3>2, <2>3
  <2>. QED
    BY <2>1, <2>2, <2>3 DEF UsedOwned
<1>. QED
  BY <1>2, <1>3 DEF Owned

(* A fault's frame becomes the page's.                                     *)
LEMMA OwnersEntered ==
  ASSUME Owned, NULL \notin used, used' = used, leaked' = leaked,
         NEW P \in Proc, NEW w \in Page,
         \A p \in Proc, a \in Slot, v \in Page :
           ~(p = P /\ v = w /\ a \in {"p_as", "fault"}) =>
             FrameAt(p, a, v)' = FrameAt(p, a, v),
         FrameAt(P, "p_as", w) = NULL,
         FrameAt(P, "fault", w)' = NULL,
         FrameAt(P, "p_as", w)' = FrameAt(P, "fault", w)
  PROVE  Owned'
<1>1. OwnersApart'
  BY DEF Owned, OwnersApart, Slot
<1>2. UsedOwned'
  <2>1. leaked' \subseteq used'
    BY DEF Owned, UsedOwned
  <2>2. ASSUME NEW p \in Proc, NEW a \in Slot, NEW v \in Page,
               FrameAt(p, a, v)' # NULL
        PROVE  FrameAt(p, a, v)' \in used' \ leaked'
    BY <2>2 DEF Owned, UsedOwned, Slot
  <2>3. ASSUME NEW f \in used' \ leaked'
        PROVE  \E p \in Proc, a \in Slot, v \in Page : FrameAt(p, a, v)' = f
    <3>1. PICK p \in Proc, a \in Slot, v \in Page : FrameAt(p, a, v) = f
      BY DEF Owned, UsedOwned
    <3>. QED
      BY <3>1, <2>3 DEF Slot
  <2>. QED
    BY <2>1, <2>2, <2>3 DEF UsedOwned
<1>. QED
  BY <1>1, <1>2 DEF Owned

(* A fault's frame is lost.                                                *)
LEMMA OwnersLost ==
  ASSUME Owned, NULL \notin used, used' = used, NEW P \in Proc, NEW w \in Page,
         FrameAt(P, "fault", w) # NULL,
         leaked' = leaked \cup {FrameAt(P, "fault", w)},
         \A p \in Proc, a \in Slot, v \in Page :
           p # P \/ a # "fault" => FrameAt(p, a, v)' = FrameAt(p, a, v),
         \A v \in Page : /\ FrameAt(P, "fault", v)' = NULL
                         /\ v # w => FrameAt(P, "fault", v) = NULL
  PROVE  Owned'
<1>1. OwnersApart'
  BY DEF Owned, OwnersApart, Slot
<1>2. UsedOwned'
  <2>1. leaked' \subseteq used'
    BY DEF Owned, UsedOwned, Slot
  <2>2. ASSUME NEW p \in Proc, NEW a \in Slot, NEW v \in Page,
               FrameAt(p, a, v)' # NULL
        PROVE  FrameAt(p, a, v)' \in used' \ leaked'
    <3>1. p # P \/ a # "fault"
      BY <2>2
    <3>2. FrameAt(p, a, v) = FrameAt(p, a, v)' /\ FrameAt(p, a, v) \in used \ leaked
      BY <2>2, <3>1 DEF Owned, UsedOwned
    <3>3. FrameAt(p, a, v) # FrameAt(P, "fault", w)
      BY <2>2, <3>1, <3>2 DEF Owned, OwnersApart, Slot
    <3>. QED
      BY <3>2, <3>3
  <2>3. ASSUME NEW f \in used' \ leaked'
        PROVE  \E p \in Proc, a \in Slot, v \in Page : FrameAt(p, a, v)' = f
    <3>1. PICK p \in Proc, a \in Slot, v \in Page : FrameAt(p, a, v) = f
      BY DEF Owned, UsedOwned
    <3>2. p # P \/ a # "fault"
      BY <2>3, <3>1
    <3>. QED
      BY <3>1, <3>2
  <2>. QED
    BY <2>1, <2>2, <2>3 DEF UsedOwned
<1>. QED
  BY <1>1, <1>2 DEF Owned

(* A child is given frames of its own.                                     *)
LEMMA OwnersCopied ==
  ASSUME Owned, NULL \notin used, leaked' = leaked, NEW Q \in Proc,
         NEW X, X \subseteq Page, NEW frames, NULL \notin {frames[v] : v \in X},
         \A v \in X : frames[v] \notin used,
         \A v, w \in X : frames[v] = frames[w] => v = w,
         used' = used \cup {frames[v] : v \in X},
         \A p \in Proc, a \in Slot, v \in Page :
           p # Q \/ a # "p_as" => FrameAt(p, a, v)' = FrameAt(p, a, v),
         \A v \in Page : /\ FrameAt(Q, "p_as", v) = NULL
                         /\ v \in X => FrameAt(Q, "p_as", v)' = frames[v]
                         /\ v \notin X => FrameAt(Q, "p_as", v)' = NULL
  PROVE  Owned'
<1>1. \A p \in Proc, a \in Slot, v \in Page :
        FrameAt(p, a, v) # NULL => FrameAt(p, a, v) \in used
  BY DEF Owned, UsedOwned
<1>2. OwnersApart'
  <2> SUFFICES ASSUME NEW p \in Proc, NEW q \in Proc, NEW a \in Slot, NEW b \in Slot,
                      NEW u \in Page, NEW v \in Page,
                      FrameAt(p, a, u)' # NULL, FrameAt(p, a, u)' = FrameAt(q, b, v)'
               PROVE  p = q /\ a = b /\ u = v
    BY DEF OwnersApart
  <2>1. CASE (p # Q \/ a # "p_as") /\ (q # Q \/ b # "p_as")
    BY <2>1 DEF Owned, OwnersApart
  <2>2. CASE (p = Q /\ a = "p_as") /\ (q = Q /\ b = "p_as")
    BY <2>2
  <2>3. CASE (p = Q /\ a = "p_as") /\ (q # Q \/ b # "p_as")
    BY <2>3, <1>1
  <2>4. CASE (p # Q \/ a # "p_as") /\ (q = Q /\ b = "p_as")
    BY <2>4, <1>1
  <2>. QED
    BY <2>1, <2>2, <2>3, <2>4
<1>3. UsedOwned'
  <2>1. leaked' \subseteq used' /\ leaked \subseteq used
    BY DEF Owned, UsedOwned
  <2>2. ASSUME NEW p \in Proc, NEW a \in Slot, NEW v \in Page,
               FrameAt(p, a, v)' # NULL
        PROVE  FrameAt(p, a, v)' \in used' \ leaked'
    <3>1. CASE p # Q \/ a # "p_as"
      BY <3>1, <2>2 DEF Owned, UsedOwned
    <3>2. CASE p = Q /\ a = "p_as"
      BY <3>2, <2>1, <2>2
    <3>. QED
      BY <3>1, <3>2
  <2>3. ASSUME NEW g \in used' \ leaked'
        PROVE  \E p \in Proc, a \in Slot, v \in Page : FrameAt(p, a, v)' = g
    <3>1. CASE g \in {frames[v] : v \in X}
      BY <3>1 DEF Slot
    <3>2. CASE g \in used \ leaked
      <4>1. PICK p \in Proc, a \in Slot, v \in Page : FrameAt(p, a, v) = g
        BY <3>2 DEF Owned, UsedOwned
      <4>2. p # Q \/ a # "p_as"
        BY <4>1, <3>2
      <4>. QED
        BY <4>1, <4>2
    <3>. QED
      BY <3>1, <3>2, <2>3
  <2>. QED
    BY <2>1, <2>2, <2>3 DEF UsedOwned
<1>. QED
  BY <1>2, <1>3 DEF Owned

-----------------------------------------------------------------------------
(* What the steps have in common.                                          *)

LEMMA NullNotUsed == TypeOK => NULL \notin used
  BY VMAssumption DEF TypeOK

LEMMA FrameAtIs ==
  /\ \A p \in Proc, v \in Page :
       /\ FrameAt(p, "p_as", v) = FrameIn(p_as[p], v)
       /\ FrameAt(p, "old", v) = FrameIn(old[p], v)
       /\ FrameAt(p, "fault", v) =
            IF fault[p].page = v THEN fault[p].frame ELSE NULL
  /\ \A p \in Proc, v \in Page :
       /\ FrameAt(p, "p_as", v)' = FrameIn(p_as'[p], v)
       /\ FrameAt(p, "old", v)' = FrameIn(old'[p], v)
       /\ FrameAt(p, "fault", v)' =
            IF fault'[p].page = v THEN fault'[p].frame ELSE NULL
  BY DEF FrameAt

(* A step changes what one process has.                                    *)
LEMMA OneProc ==
  ASSUME IInv, NEW P \in Proc,
         \A q \in Proc \ {P} : /\ p_as'[q] = p_as[q] /\ old'[q] = old[q]
                               /\ pc'[q] = pc[q] /\ fault'[q] = fault[q],
         \A c \in Cpu : current'[c] \in {current[c], NULL},
         TypeOK', ProcRight(P)', SpaceRight(P)', Owned', TLBRight'
  PROVE  IInv'
<1>1. OneCpu'
  BY DEF IInv, OneCpu
<1>2. ProcsRight'
  <2> SUFFICES ASSUME NEW q \in Proc PROVE ProcRight(q)'
    BY DEF ProcsRight
  <2>1. CASE q = P
    BY <2>1
  <2>2. CASE q # P
    <3>1. ProcRight(q)
      BY DEF IInv, ProcsRight
    <3>2. q # NULL
      BY VMAssumption
    <3>. QED
      BY <2>2, <3>1, <3>2 DEF ProcRight
  <2>. QED
    BY <2>1, <2>2
<1>3. SpacesRight'
  <2> SUFFICES ASSUME NEW q \in Proc PROVE SpaceRight(q)'
    BY DEF SpacesRight
  <2>1. CASE q = P
    BY <2>1
  <2>2. CASE q # P
    <3>1. SpaceRight(q)
      BY DEF IInv, SpacesRight
    <3>. QED
      BY <2>2, <3>1 DEF SpaceRight
  <2>. QED
    BY <2>1, <2>2
<1>. QED
  BY <1>1, <1>2, <1>3 DEF IInv

LEMMA TLBKept ==
  ASSUME TLBRight, NEW P \in Proc, \A c \in Cpu : tlb'[c] = tlb[c],
         \A c \in Cpu : current'[c] \in {current[c], NULL},
         \A q \in Proc \ {P} : p_as'[q] = p_as[q],
         \A c \in Cpu : current[c] \in Proc \cup {NULL},
         \/ p_as'[P] = NULL
         \/ p_as[P] # NULL /\ p_as'[P].pagetable = p_as[P].pagetable
         \/ \A c \in Cpu : current[c] # P
  PROVE  TLBRight'
<1> SUFFICES ASSUME NEW c \in Cpu, current'[c] # NULL, p_as'[current'[c]] # NULL
    PROVE  /\ \A e \in tlb'[c] : /\ p_as'[current'[c]].pagetable[e.page] # NULL
                       /\ p_as'[current'[c]].pagetable[e.page] =
                            [frame |-> e.frame, dirty |-> e.dirty]
           /\ \A e, g \in tlb'[c] : e.page = g.page => e = g
  BY DEF TLBRight
<1>1. current'[c] = current[c] /\ current[c] \in Proc
  OBVIOUS
<1>2. /\ p_as[current[c]] # NULL
      /\ p_as'[current[c]].pagetable = p_as[current[c]].pagetable
  BY <1>1
<1>3. tlb'[c] = tlb[c]
  OBVIOUS
<1>. QED
  BY <1>1, <1>2, <1>3 DEF TLBRight

(* as_activate, on the cpu that runs the process.                          *)
LEMMA TLBCleared ==
  ASSUME TLBRight, OneCpu, NEW P \in Proc, NEW C \in Cpu, current[C] = P,
         \A c \in Cpu : tlb'[c] = IF c = C THEN {} ELSE tlb[c],
         current' = current, \A q \in Proc \ {P} : p_as'[q] = p_as[q],
         \A c \in Cpu : current[c] \in Proc \cup {NULL}
  PROVE  TLBRight'
<1> SUFFICES ASSUME NEW c \in Cpu, current'[c] # NULL, p_as'[current'[c]] # NULL
    PROVE  /\ \A e \in tlb'[c] : /\ p_as'[current'[c]].pagetable[e.page] # NULL
                       /\ p_as'[current'[c]].pagetable[e.page] =
                            [frame |-> e.frame, dirty |-> e.dirty]
           /\ \A e, g \in tlb'[c] : e.page = g.page => e = g
  BY DEF TLBRight
<1>1. CASE c = C
  <2>1. tlb'[c] = {}
    BY <1>1
  <2>. QED
    BY <2>1
<1>2. CASE c # C
  <2>1. current[c] # P /\ current[c] \in Proc /\ current'[c] = current[c]
    BY <1>2 DEF OneCpu
  <2>2. p_as'[current[c]] = p_as[current[c]] /\ tlb'[c] = tlb[c]
    BY <1>2, <2>1
  <2>. QED
    BY <2>1, <2>2 DEF TLBRight
<1>. QED
  BY <1>1, <1>2

(* load_tlb, of a page that the cpu did not translate.                     *)
LEMMA TLBLoaded ==
  ASSUME TypeOK, TLBRight, OneCpu, NEW P \in Proc, NEW C \in Cpu, current[C] = P,
         current' = current, NEW w \in Page, NEW e \in PageEntry,
         load_tlb(C, w, e), \A g \in tlb[C] : g.page # w, p_as[P] # NULL,
         \A q \in Proc \ {P} : p_as'[q] = p_as[q],
         \A v \in Page : p_as'[P].pagetable[v] =
                           IF v = w THEN e ELSE p_as[P].pagetable[v]
  PROVE  /\ TLBRight'
         /\ tlb' \in [Cpu -> SUBSET [page : Page, frame : Frame, dirty : BOOLEAN]]
<1> DEFINE new == [page |-> w, frame |-> e.frame, dirty |-> e.dirty]
<1>1. PICK out \in SUBSET tlb[C] : tlb' = [tlb EXCEPT ![C] = (@ \ out) \cup {new}]
  BY DEF load_tlb
<1>2. tlb \in [Cpu -> SUBSET [page : Page, frame : Frame, dirty : BOOLEAN]]
  BY DEF TypeOK
<1>3. /\ e.frame \in Frame /\ e.dirty \in BOOLEAN /\ e # NULL
      /\ e = [frame |-> e.frame, dirty |-> e.dirty]
  BY VMAssumption DEF PageEntry
<1>4. /\ new \in [page : Page, frame : Frame, dirty : BOOLEAN]
      /\ new.page = w /\ new.frame = e.frame /\ new.dirty = e.dirty
  BY <1>3
<1> HIDE DEF new
<1>5. tlb' \in [Cpu -> SUBSET [page : Page, frame : Frame, dirty : BOOLEAN]]
  BY <1>1, <1>2, <1>4
<1>6. \A c \in Cpu : tlb'[c] = IF c = C THEN (tlb[C] \ out) \cup {new} ELSE tlb[c]
  BY <1>1, <1>2
<1>7. \A c \in Cpu : current[c] \in Proc \cup {NULL}
  BY DEF TypeOK
<1>8. \A g \in tlb[C] : g.page \in Page
  BY <1>2
<1>9. TLBRight'
  <2> SUFFICES ASSUME NEW c \in Cpu, current'[c] # NULL, p_as'[current'[c]] # NULL
      PROVE  /\ \A g \in tlb'[c] : /\ p_as'[current'[c]].pagetable[g.page] # NULL
                         /\ p_as'[current'[c]].pagetable[g.page] =
                              [frame |-> g.frame, dirty |-> g.dirty]
             /\ \A g, h \in tlb'[c] : g.page = h.page => g = h
    BY DEF TLBRight
  <2>1. CASE c = C
    <3>1. /\ \A g \in tlb[C] : /\ p_as[P].pagetable[g.page] # NULL
                               /\ p_as[P].pagetable[g.page] =
                                    [frame |-> g.frame, dirty |-> g.dirty]
          /\ \A g, h \in tlb[C] : g.page = h.page => g = h
      BY VMAssumption DEF TLBRight
    <3>2. \A g \in tlb'[C] : g = new \/ g \in tlb[C]
      BY <1>6
    <3>3. \A g \in tlb[C] : p_as'[P].pagetable[g.page] = p_as[P].pagetable[g.page]
      BY <1>8
    <3>4. /\ p_as'[P].pagetable[new.page] # NULL
          /\ p_as'[P].pagetable[new.page] = [frame |-> new.frame, dirty |-> new.dirty]
      BY <1>3, <1>4
    <3>. QED
      BY <2>1, <3>1, <3>2, <3>3, <3>4, <1>4
  <2>2. CASE c # C
    <3>1. current[c] # P /\ current[c] \in Proc /\ current'[c] = current[c]
      BY <2>2, <1>7 DEF OneCpu
    <3>2. p_as'[current[c]] = p_as[current[c]] /\ tlb'[c] = tlb[c]
      BY <2>2, <3>1, <1>6
    <3>. QED
      BY <3>1, <3>2 DEF TLBRight
  <2>. QED
    BY <2>1, <2>2
<1>. QED
  BY <1>5, <1>9

LEMMA Destroyed ==
  ASSUME NEW x \in AddressSpace \cup {NULL}, as_destroy(x)
  PROVE  /\ \A f : f \in used' <=>
              f \in used /\ ~(f # NULL /\ \E v \in Page : FrameIn(x, v) = f)
         /\ used' \subseteq used
<1>1. CASE x = NULL
  <2>1. used' = used /\ \A v \in Page : FrameIn(x, v) = NULL
    BY <1>1 DEF as_destroy, FrameIn
  <2>. QED
    BY <2>1
<1>2. CASE x # NULL
  <2>1. used' = used \ FramesOf(x) /\ x \in AddressSpace
    BY <1>2 DEF as_destroy
  <2>. QED
    BY <2>1, FramesOfSpace
<1>. QED
  BY <1>1, <1>2

LEMMA NoneFrames == \A v \in Page : FrameIn(NULL, v) = NULL
  BY DEF FrameIn

(* A step that changes the regions of P's address space and not its pages. *)
LEMMA SameFrames ==
  ASSUME Owned, NEW P \in Proc, used' = used, leaked' = leaked, fault' = fault,
         old' = old, \A q \in Proc \ {P} : p_as'[q] = p_as[q],
         \A v \in Page : FrameIn(p_as'[P], v) = FrameIn(p_as[P], v)
  PROVE  Owned'
<1>1. \A p \in Proc, v \in Page : FrameIn(p_as'[p], v) = FrameIn(p_as[p], v)
  OBVIOUS
<1>2. \A p \in Proc, a \in Slot, v \in Page : FrameAt(p, a, v)' = FrameAt(p, a, v)
  BY <1>1, FrameAtIs DEF Slot
<1>. QED
  BY <1>2, OwnersKept

-----------------------------------------------------------------------------
(* The steps.                                                              *)

LEMMA CreateRunprogramStep ==
  ASSUME IInv, NEW P \in Proc, CreateRunprogram(P)
  PROVE  IInv'
<1>1. TypeOK /\ ProcRight(P) /\ Owned /\ TLBRight
  BY DEF IInv, ProcsRight
<1>2. /\ pc[P] = "none" /\ pc' = [pc EXCEPT ![P] = "start"]
      /\ p_as' = p_as /\ old' = old /\ fault' = fault /\ current' = current
      /\ tlb' = tlb /\ used' = used /\ leaked' = leaked
  BY DEF CreateRunprogram, Goto
<1>3. pc' \in [Proc -> Place] /\ pc'[P] = "start"
      /\ \A q \in Proc \ {P} : pc'[q] = pc[q]
  BY <1>1, <1>2 DEF TypeOK, Place
<1>4. TypeOK'
  BY <1>1, <1>2, <1>3 DEF TypeOK
<1>5. ProcRight(P)'
  BY <1>1, <1>2, <1>3 DEF ProcRight
<1>6. SpaceRight(P)'
  BY <1>3 DEF SpaceRight
<1>7. Owned'
  BY <1>1, <1>2, SameFrames
<1>8. TLBRight'
  BY <1>1, <1>2 DEF TLBRight
<1>. QED
  BY <1>2, <1>3, <1>4, <1>5, <1>6, <1>7, <1>8, OneProc

LEMMA LoadExecStep ==
  ASSUME IInv, NEW C \in Cpu, NEW P \in Proc, LoadExec(C, P)
  PROVE  IInv'
<1>1. TypeOK /\ ProcRight(P) /\ SpaceRight(P) /\ Owned /\ TLBRight /\ OneCpu
  BY DEF IInv, ProcsRight, SpacesRight
<1>2. /\ current[C] = P /\ pc[P] \in {"start", "user"} /\ fault[P] = NoFault
      /\ p_as' = [p_as EXCEPT ![P] = NewSpace]
      /\ old' = [old EXCEPT ![P] = p_as[P]]
      /\ tlb' = IF NewSpace = NULL THEN tlb ELSE [tlb EXCEPT ![C] = {}]
      /\ pc' = [pc EXCEPT ![P] = "define"]
      /\ fault' = fault /\ current' = current /\ used' = used /\ leaked' = leaked
  BY DEF LoadExec, On, as_activate, Goto
<1>3. NewSpace \in AddressSpace /\ NewSpace # NULL
  BY NewSpaceRight, VMAssumption
<1>4. /\ p_as \in [Proc -> AddressSpace \cup {NULL}]
      /\ old \in [Proc -> AddressSpace \cup {NULL}] /\ pc \in [Proc -> Place]
      /\ tlb \in [Cpu -> SUBSET [page : Page, frame : Frame, dirty : BOOLEAN]]
      /\ \A c \in Cpu : current[c] \in Proc \cup {NULL}
  BY <1>1 DEF TypeOK
<1>5. /\ p_as' \in [Proc -> AddressSpace \cup {NULL}] /\ p_as'[P] = NewSpace
      /\ \A q \in Proc \ {P} : p_as'[q] = p_as[q]
  BY <1>2, <1>3, <1>4
<1>6. /\ old' \in [Proc -> AddressSpace \cup {NULL}] /\ old'[P] = p_as[P]
      /\ \A q \in Proc \ {P} : old'[q] = old[q]
  BY <1>2, <1>4
<1>7. /\ pc' \in [Proc -> Place] /\ pc'[P] = "define"
      /\ \A q \in Proc \ {P} : pc'[q] = pc[q]
  BY <1>2, <1>4 DEF Place
<1>8. /\ tlb' \in [Cpu -> SUBSET [page : Page, frame : Frame, dirty : BOOLEAN]]
      /\ \A c \in Cpu : tlb'[c] = IF c = C THEN {} ELSE tlb[c]
  BY <1>2, <1>3, <1>4
<1>9. TypeOK'
  BY <1>1, <1>2, <1>5, <1>6, <1>7, <1>8 DEF TypeOK
<1>10. ProcRight(P)'
  BY <1>2, <1>3, <1>5, <1>7 DEF ProcRight
<1>11. SpaceRight(P)'
  <2>1. Disjoint(p_as'[P]) /\ Mapped(p_as'[P]) = {}
    BY <1>5, NewSpaceRight
  <2>2. old'[P] # NULL => Exact(old'[P])
    BY <1>1, <1>2, <1>6 DEF ProcRight, SpaceRight
  <2>. QED
    BY <2>1, <2>2, <1>7 DEF SpaceRight
<1>12. Owned'
  <2>1. old[P] = NULL
    BY <1>1, <1>2 DEF ProcRight
  <2>2. \A v \in Page : /\ FrameAt(P, "old", v) = NULL
                         /\ FrameAt(P, "fault", v)' = FrameAt(P, "fault", v)
                         /\ FrameAt(P, "old", v)' = FrameAt(P, "p_as", v)
                         /\ FrameAt(P, "p_as", v)' = NULL
    BY <2>1, <1>2, <1>5, <1>6, FrameAtIs, NoneFrames, NewSpaceRight
  <2>3. \A p \in Proc \ {P}, a \in Slot, v \in Page :
           FrameAt(p, a, v)' = FrameAt(p, a, v)
    BY <1>2, <1>5, <1>6, FrameAtIs DEF Slot
  <2>. QED
    BY <2>2, <2>3, <1>1, <1>2, NullNotUsed, OwnersMoved
<1>13. TLBRight'
  BY <1>1, <1>2, <1>4, <1>5, <1>8, TLBCleared
<1>. QED
  BY <1>2, <1>5, <1>6, <1>7, <1>9, <1>10, <1>11, <1>12, <1>13, OneProc

LEMMA LoadExecFailsStep ==
  ASSUME IInv, NEW C \in Cpu, NEW P \in Proc, LoadExecFails(C, P)
  PROVE  IInv'
<1>1. TypeOK /\ ProcRight(P) /\ Owned /\ TLBRight
  BY DEF IInv, ProcsRight
<1>2. /\ pc[P] = "start" /\ fault[P] = NoFault /\ pc' = [pc EXCEPT ![P] = "exit"]
      /\ p_as' = p_as /\ old' = old /\ fault' = fault /\ current' = current
      /\ tlb' = tlb /\ used' = used /\ leaked' = leaked
  BY DEF LoadExecFails, On, Goto
<1>3. pc' \in [Proc -> Place] /\ pc'[P] = "exit"
      /\ \A q \in Proc \ {P} : pc'[q] = pc[q]
  BY <1>1, <1>2 DEF TypeOK, Place
<1>4. TypeOK'
  BY <1>1, <1>2, <1>3 DEF TypeOK
<1>5. ProcRight(P)'
  BY <1>1, <1>2, <1>3 DEF ProcRight
<1>6. SpaceRight(P)'
  BY <1>3 DEF SpaceRight
<1>7. Owned'
  BY <1>1, <1>2, SameFrames
<1>8. TLBRight'
  BY <1>1, <1>2 DEF TLBRight
<1>. QED
  BY <1>2, <1>3, <1>4, <1>5, <1>6, <1>7, <1>8, OneProc

LEMMA as_define_regionStep ==
  ASSUME IInv, NEW C \in Cpu, NEW P \in Proc, NEW e \in Executables,
         as_define_region(C, P, e)
  PROVE  IInv'
<1> DEFINE r == e[Len(p_as[P].regions) + 1]
<1>1. TypeOK /\ ProcRight(P) /\ SpaceRight(P) /\ Owned /\ TLBRight /\ OneCpu
  BY DEF IInv, ProcsRight, SpacesRight
<1>2. /\ Len(p_as[P].regions) < Len(e)
      /\ current[C] = P /\ pc[P] = "define" /\ fault[P] = NoFault
      /\ region_valid(p_as[P], r.base, r.size)
      /\ p_as' = [p_as EXCEPT ![P] = Insert(p_as[P], r)]
      /\ old' = old /\ pc' = pc /\ tlb' = tlb
      /\ fault' = fault /\ current' = current /\ used' = used /\ leaked' = leaked
  BY DEF as_define_region, On
<1>3. /\ p_as \in [Proc -> AddressSpace \cup {NULL}] /\ p_as[P] \in AddressSpace
      /\ \A c \in Cpu : current[c] \in Proc \cup {NULL} /\ r \in Region
  <2>1. /\ p_as \in [Proc -> AddressSpace \cup {NULL}] /\ p_as[P] \in AddressSpace
        /\ \A c \in Cpu : current[c] \in Proc \cup {NULL}
    BY <1>1, <1>2 DEF TypeOK, ProcRight
  <2>2. e \in Seq(Region)
    BY VMAssumption
  <2>3. Len(p_as[P].regions) \in Nat
    BY <2>1, LenProperties DEF AddressSpace
  <2>4. Len(p_as[P].regions) + 1 \in 1..Len(e)
    BY <1>2, <2>2, <2>3, LenProperties
  <2>. QED
    BY <2>1, <2>2, <2>4, ElementOfSeq
<1> HIDE DEF r
<1> DEFINE x == p_as[P]
           y == Insert(p_as[P], r)
<1>4. y \in AddressSpace /\ y # NULL /\ y.pagetable = x.pagetable /\ x # NULL
  BY <1>3, InsertRegion, SpaceFields
<1>5. /\ p_as' \in [Proc -> AddressSpace \cup {NULL}] /\ p_as'[P] = y
      /\ \A q \in Proc \ {P} : p_as'[q] = p_as[q]
  BY <1>2, <1>3, <1>4
<1>6. Disjoint(y) /\ Mapped(y) = {}
  <2>1. Disjoint(x) /\ Mapped(x) = {}
    BY <1>1, <1>2 DEF SpaceRight
  <2>2. Mapped(y) = {}
    BY <2>1, <1>4 DEF Mapped
  <2>. QED
    BY <2>1, <2>2, <1>2, <1>3, InsertDisjoint
<1>7. \A v \in Page : FrameIn(y, v) = FrameIn(x, v)
  BY <1>4 DEF FrameIn
<1> HIDE DEF x, y
<1>8. TypeOK'
  BY <1>1, <1>2, <1>5 DEF TypeOK
<1>9. ProcRight(P)'
  BY <1>1, <1>2, <1>4, <1>5 DEF ProcRight
<1>10. SpaceRight(P)'
  BY <1>1, <1>2, <1>5, <1>6 DEF SpaceRight
<1>11. Owned'
  BY <1>1, <1>2, <1>5, <1>7, SameFrames DEF x
<1>12. TLBRight'
  BY <1>1, <1>2, <1>3, <1>4, <1>5, TLBKept DEF x
<1>. QED
  BY <1>2, <1>5, <1>8, <1>9, <1>10, <1>11, <1>12, OneProc

LEMMA as_prepare_loadStep ==
  ASSUME IInv, NEW C \in Cpu, NEW P \in Proc, NEW e \in Executables,
         as_prepare_load(C, P, e)
  PROVE  IInv'
<1>1. TypeOK /\ ProcRight(P) /\ SpaceRight(P) /\ Owned /\ TLBRight /\ OneCpu
  BY DEF IInv, ProcsRight, SpacesRight
<1>2. p_as \in [Proc -> AddressSpace \cup {NULL}] /\ pc \in [Proc -> Place]
  BY <1>1 DEF TypeOK
<1>3. /\ current[C] = P /\ pc[P] = "define" /\ fault[P] = NoFault
      /\ p_as' = [p_as EXCEPT ![P] = Writeable(p_as[P])]
      /\ old' = old /\ pc' = [pc EXCEPT ![P] = "load"] /\ tlb' = tlb
      /\ fault' = fault /\ current' = current /\ used' = used /\ leaked' = leaked
  BY <1>2 DEF as_prepare_load, On, Goto, Writeable, Regions
<1>4. /\ p_as[P] \in AddressSpace
      /\ \A c \in Cpu : current[c] \in Proc \cup {NULL}
  BY <1>1, <1>3 DEF TypeOK, ProcRight
<1> DEFINE x == p_as[P]
           y == Writeable(p_as[P])
<1>5. y \in AddressSpace /\ y # NULL /\ y.pagetable = x.pagetable /\ x # NULL
  BY <1>4, PrepareLoad, SpaceFields
<1>6. /\ p_as' \in [Proc -> AddressSpace \cup {NULL}] /\ p_as'[P] = y
      /\ \A q \in Proc \ {P} : p_as'[q] = p_as[q]
  BY <1>2, <1>3, <1>5
<1>7. Loading(y)
  <2>1. Disjoint(x) /\ Mapped(x) = {}
    BY <1>1, <1>3 DEF SpaceRight
  <2>. QED
    BY <2>1, <1>4, PrepareLoad
<1>8. \A v \in Page : FrameIn(y, v) = FrameIn(x, v)
  BY <1>5 DEF FrameIn
<1> HIDE DEF x, y
<1>9. /\ pc' \in [Proc -> Place] /\ pc'[P] = "load"
      /\ \A q \in Proc \ {P} : pc'[q] = pc[q]
  BY <1>2, <1>3 DEF Place
<1>10. TypeOK'
  BY <1>1, <1>3, <1>6, <1>9 DEF TypeOK
<1>11. ProcRight(P)'
  BY <1>1, <1>3, <1>5, <1>6, <1>9 DEF ProcRight
<1>12. SpaceRight(P)'
  BY <1>1, <1>3, <1>6, <1>7, <1>9 DEF SpaceRight
<1>13. Owned'
  BY <1>1, <1>3, <1>6, <1>8, SameFrames DEF x
<1>14. TLBRight'
  BY <1>1, <1>3, <1>4, <1>5, <1>6, TLBKept DEF x
<1>. QED
  BY <1>3, <1>6, <1>9, <1>10, <1>11, <1>12, <1>13, <1>14, OneProc

LEMMA as_complete_loadStep ==
  ASSUME IInv, NEW C \in Cpu, NEW P \in Proc, as_complete_load(C, P)
  PROVE  IInv'
<1>1. TypeOK /\ ProcRight(P) /\ SpaceRight(P) /\ Owned /\ TLBRight /\ OneCpu
  BY DEF IInv, ProcsRight, SpacesRight
<1>2. /\ p_as \in [Proc -> AddressSpace \cup {NULL}] /\ pc \in [Proc -> Place]
      /\ tlb \in [Cpu -> SUBSET [page : Page, frame : Frame, dirty : BOOLEAN]]
  BY <1>1 DEF TypeOK
<1>3. /\ current[C] = P /\ pc[P] = "load" /\ fault[P] = NoFault
      /\ p_as' = [p_as EXCEPT ![P] = Restored(p_as[P])]
      /\ tlb' = IF p_as[P] = NULL THEN tlb ELSE [tlb EXCEPT ![C] = {}]
      /\ old' = old /\ pc' = [pc EXCEPT ![P] = "stack"]
      /\ fault' = fault /\ current' = current /\ used' = used /\ leaked' = leaked
  BY DEF as_complete_load, as_activate, On, Goto, Restored
<1>4. /\ p_as[P] \in AddressSpace
      /\ \A c \in Cpu : current[c] \in Proc \cup {NULL}
  BY <1>1, <1>3 DEF TypeOK, ProcRight
<1> DEFINE x == p_as[P]
           y == Restored(p_as[P])
<1>5. /\ y \in AddressSpace /\ y # NULL /\ x # NULL
      /\ \A v \in Page : FrameIn(y, v) = FrameIn(x, v)
  BY <1>4, CompleteLoad, SpaceFields
<1>6. /\ p_as' \in [Proc -> AddressSpace \cup {NULL}] /\ p_as'[P] = y
      /\ \A q \in Proc \ {P} : p_as'[q] = p_as[q]
  BY <1>2, <1>3, <1>5
<1>7. Exact(y)
  <2>1. Loading(x)
    BY <1>1, <1>3 DEF SpaceRight
  <2>. QED
    BY <2>1, <1>4, CompleteLoad
<1> HIDE DEF x, y
<1>8. /\ pc' \in [Proc -> Place] /\ pc'[P] = "stack"
      /\ \A q \in Proc \ {P} : pc'[q] = pc[q]
  BY <1>2, <1>3 DEF Place
<1>9. /\ tlb' \in [Cpu -> SUBSET [page : Page, frame : Frame, dirty : BOOLEAN]]
      /\ \A c \in Cpu : tlb'[c] = IF c = C THEN {} ELSE tlb[c]
  BY <1>2, <1>3, <1>5 DEF x
<1>10. TypeOK'
  BY <1>1, <1>3, <1>6, <1>8, <1>9 DEF TypeOK
<1>11. ProcRight(P)'
  BY <1>1, <1>3, <1>5, <1>6, <1>8 DEF ProcRight
<1>12. SpaceRight(P)'
  BY <1>1, <1>3, <1>6, <1>7, <1>8 DEF SpaceRight
<1>13. Owned'
  BY <1>1, <1>3, <1>5, <1>6, SameFrames DEF x
<1>14. TLBRight'
  BY <1>1, <1>3, <1>4, <1>6, <1>9, TLBCleared
<1>. QED
  BY <1>3, <1>6, <1>8, <1>10, <1>11, <1>12, <1>13, <1>14, OneProc

LEMMA LoadFailsStep ==
  ASSUME IInv, NEW C \in Cpu, NEW P \in Proc, LoadFails(C, P)
  PROVE  IInv'
<1>1. TypeOK /\ ProcRight(P) /\ SpaceRight(P) /\ Owned /\ TLBRight /\ OneCpu
  BY DEF IInv, ProcsRight, SpacesRight
<1>2. /\ current[C] = P /\ pc[P] \in {"define", "load", "stack"} /\ fault[P] = NoFault
      /\ p_as' = [p_as EXCEPT ![P] = old[P]]
      /\ tlb' = IF old[P] = NULL THEN tlb ELSE [tlb EXCEPT ![C] = {}]
      /\ as_destroy(p_as[P])
      /\ old' = [old EXCEPT ![P] = NULL]
      /\ pc' = [pc EXCEPT ![P] = IF old[P] = NULL THEN "exit" ELSE "user"]
      /\ fault' = fault /\ current' = current /\ leaked' = leaked
  BY DEF LoadFails, On, as_activate, Goto
<1>3. /\ p_as \in [Proc -> AddressSpace \cup {NULL}]
      /\ old \in [Proc -> AddressSpace \cup {NULL}] /\ pc \in [Proc -> Place]
      /\ tlb \in [Cpu -> SUBSET [page : Page, frame : Frame, dirty : BOOLEAN]]
      /\ \A c \in Cpu : current[c] \in Proc \cup {NULL}
  BY <1>1 DEF TypeOK
<1>4. /\ p_as' \in [Proc -> AddressSpace \cup {NULL}] /\ p_as'[P] = old[P]
      /\ \A q \in Proc \ {P} : p_as'[q] = p_as[q]
  BY <1>2, <1>3
<1>5. /\ old' \in [Proc -> AddressSpace \cup {NULL}] /\ old'[P] = NULL
      /\ \A q \in Proc \ {P} : old'[q] = old[q]
  BY <1>2, <1>3
<1>6. /\ pc' \in [Proc -> Place]
      /\ pc'[P] = IF old[P] = NULL THEN "exit" ELSE "user"
      /\ \A q \in Proc \ {P} : pc'[q] = pc[q]
  BY <1>2, <1>3 DEF Place
<1>7. /\ tlb' \in [Cpu -> SUBSET [page : Page, frame : Frame, dirty : BOOLEAN]]
      /\ \A c \in Cpu : tlb'[c] = IF c = C /\ old[P] # NULL THEN {} ELSE tlb[c]
  BY <1>2, <1>3
<1>8. /\ \A f : f \in used' <=>
           f \in used /\ ~(f # NULL /\ \E v \in Page : FrameIn(p_as[P], v) = f)
      /\ used' \subseteq used
  BY <1>2, <1>3, Destroyed
<1>9. TypeOK'
  BY <1>1, <1>2, <1>4, <1>5, <1>6, <1>7, <1>8 DEF TypeOK
<1>10. ProcRight(P)'
  BY <1>2, <1>4, <1>5, <1>6 DEF ProcRight
<1>11. SpaceRight(P)'
  BY <1>1, <1>2, <1>4, <1>5, <1>6 DEF SpaceRight
<1>12. Owned'
  <2>1. \A v \in Page : /\ FrameAt(P, "fault", v)' = FrameAt(P, "fault", v)
                        /\ FrameAt(P, "p_as", v)' = FrameAt(P, "old", v)
                        /\ FrameAt(P, "old", v)' = NULL
    BY <1>2, <1>4, <1>5, FrameAtIs, NoneFrames
  <2>2. \A p \in Proc \ {P}, a \in Slot, v \in Page :
           FrameAt(p, a, v)' = FrameAt(p, a, v)
    BY <1>2, <1>4, <1>5, FrameAtIs DEF Slot
  <2>3. \A f : f \in used' <=>
          f \in used /\ ~(f # NULL /\ \E v \in Page : FrameAt(P, "p_as", v) = f)
    BY <1>8, FrameAtIs
  <2>. QED
    BY <2>1, <2>2, <2>3, <1>1, <1>2, NullNotUsed, OwnersFreed
<1>13. TLBRight'
  <2>1. CASE old[P] = NULL
    BY <2>1, <1>1, <1>2, <1>3, <1>4, TLBKept
  <2>2. CASE old[P] # NULL
    BY <2>2, <1>1, <1>2, <1>3, <1>4, <1>7, TLBCleared
  <2>. QED
    BY <2>1, <2>2
<1>. QED
  BY <1>2, <1>4, <1>5, <1>6, <1>9, <1>10, <1>11, <1>12, <1>13, OneProc

LEMMA LoadExecDoneStep ==
  ASSUME IInv, NEW C \in Cpu, NEW P \in Proc, LoadExecDone(C, P)
  PROVE  IInv'
<1>1. TypeOK /\ ProcRight(P) /\ SpaceRight(P) /\ Owned /\ TLBRight /\ OneCpu
  BY DEF IInv, ProcsRight, SpacesRight
<1>2. /\ current[C] = P /\ pc[P] = "stack" /\ fault[P] = NoFault
      /\ region_valid(p_as[P], Stack.base, Stack.size)
      /\ p_as' = [p_as EXCEPT ![P] = Insert(p_as[P], Stack)]
      /\ as_destroy(old[P])
      /\ old' = [old EXCEPT ![P] = NULL]
      /\ pc' = [pc EXCEPT ![P] = "argv"] /\ tlb' = tlb
      /\ fault' = fault /\ current' = current /\ leaked' = leaked
  BY DEF LoadExecDone, On, Goto
<1>3. /\ p_as \in [Proc -> AddressSpace \cup {NULL}]
      /\ old \in [Proc -> AddressSpace \cup {NULL}] /\ pc \in [Proc -> Place]
      /\ \A c \in Cpu : current[c] \in Proc \cup {NULL}
      /\ p_as[P] \in AddressSpace /\ Stack \in Region
  BY <1>1, <1>2, VMAssumption DEF TypeOK, ProcRight
<1> DEFINE x == p_as[P]
           y == Insert(p_as[P], Stack)
<1>4. /\ y \in AddressSpace /\ y # NULL /\ y.pagetable = x.pagetable /\ x # NULL
  BY <1>3, InsertRegion, SpaceFields
<1>5. Exact(y)
  <2>1. Exact(x)
    BY <1>1, <1>2 DEF SpaceRight
  <2>. QED
    BY <2>1, <1>2, <1>3, InsertExact
<1>6. \A v \in Page : FrameIn(y, v) = FrameIn(x, v)
  BY <1>4 DEF FrameIn
<1>7. /\ p_as' \in [Proc -> AddressSpace \cup {NULL}] /\ p_as'[P] = y
      /\ \A q \in Proc \ {P} : p_as'[q] = p_as[q]
  BY <1>2, <1>3, <1>4
<1> HIDE DEF x, y
<1>8. /\ old' \in [Proc -> AddressSpace \cup {NULL}] /\ old'[P] = NULL
      /\ \A q \in Proc \ {P} : old'[q] = old[q]
  BY <1>2, <1>3
<1>9. /\ pc' \in [Proc -> Place] /\ pc'[P] = "argv"
      /\ \A q \in Proc \ {P} : pc'[q] = pc[q]
  BY <1>2, <1>3 DEF Place
<1>10. /\ \A f : f \in used' <=>
           f \in used /\ ~(f # NULL /\ \E v \in Page : FrameIn(old[P], v) = f)
      /\ used' \subseteq used
  BY <1>2, <1>3, Destroyed
<1>11. TypeOK'
  BY <1>1, <1>2, <1>7, <1>8, <1>9, <1>10 DEF TypeOK
<1>12. ProcRight(P)'
  BY <1>2, <1>4, <1>7, <1>8, <1>9 DEF ProcRight
<1>13. SpaceRight(P)'
  BY <1>5, <1>7, <1>9 DEF SpaceRight
<1>14. Owned'
  <2>1. \A v \in Page : /\ FrameAt(P, "fault", v)' = FrameAt(P, "fault", v)
                        /\ FrameAt(P, "p_as", v)' = FrameAt(P, "p_as", v)
                        /\ FrameAt(P, "old", v)' = NULL
    BY <1>2, <1>6, <1>7, <1>8, FrameAtIs, NoneFrames DEF x
  <2>2. \A p \in Proc \ {P}, a \in Slot, v \in Page :
           FrameAt(p, a, v)' = FrameAt(p, a, v)
    BY <1>2, <1>7, <1>8, FrameAtIs DEF Slot
  <2>3. \A f : f \in used' <=>
          f \in used /\ ~(f # NULL /\ \E v \in Page : FrameAt(P, "old", v) = f)
    BY <1>10, FrameAtIs
  <2>. QED
    BY <2>1, <2>2, <2>3, <1>1, <1>2, NullNotUsed, OwnersFreed
<1>15. TLBRight'
  BY <1>1, <1>2, <1>3, <1>4, <1>7, TLBKept DEF x
<1>. QED
  BY <1>2, <1>7, <1>8, <1>9, <1>11, <1>12, <1>13, <1>14, <1>15, OneProc

LEMMA EnterNewProcessStep ==
  ASSUME IInv, NEW C \in Cpu, NEW P \in Proc, EnterNewProcess(C, P)
  PROVE  IInv'
<1>1. TypeOK /\ ProcRight(P) /\ SpaceRight(P) /\ Owned /\ TLBRight
  BY DEF IInv, ProcsRight, SpacesRight
<1>2. /\ pc[P] = "argv" /\ fault[P] = NoFault /\ pc' = [pc EXCEPT ![P] = "user"]
      /\ p_as' = p_as /\ old' = old /\ fault' = fault /\ current' = current
      /\ tlb' = tlb /\ used' = used /\ leaked' = leaked
  BY DEF EnterNewProcess, On, Goto
<1>3. pc' \in [Proc -> Place] /\ pc'[P] = "user"
      /\ \A q \in Proc \ {P} : pc'[q] = pc[q]
  BY <1>1, <1>2 DEF TypeOK, Place
<1>4. TypeOK'
  BY <1>1, <1>2, <1>3 DEF TypeOK
<1>5. ProcRight(P)'
  BY <1>1, <1>2, <1>3 DEF ProcRight
<1>6. SpaceRight(P)'
  BY <1>1, <1>2, <1>3 DEF SpaceRight
<1>7. Owned'
  BY <1>1, <1>2, SameFrames
<1>8. TLBRight'
  BY <1>1, <1>2 DEF TLBRight
<1>. QED
  BY <1>2, <1>3, <1>4, <1>5, <1>6, <1>7, <1>8, OneProc

(* vm_fault kills the process, or it exits.                                *)
LEMMA KilledStep ==
  ASSUME IInv, NEW P \in Proc, pc[P] \in {"argv", "user"}, fault'[P] = NoFault,
         fault' \in [Proc -> [page : Nat, frame : Frame \cup {NULL}]],
         \A q \in Proc \ {P} : fault'[q] = fault[q],
         Killed(P), current' = current, tlb' = tlb, used' = used,
         leaked' \subseteq Frame,
         (fault' = fault /\ leaked' = leaked) \/ Owned'
  PROVE  IInv'
<1>1. TypeOK /\ ProcRight(P) /\ Owned /\ TLBRight
  BY DEF IInv, ProcsRight
<1>2. /\ p_as' = [p_as EXCEPT ![P] = NULL]
      /\ old' = [old EXCEPT ![P] = p_as[P]]
      /\ pc' = [pc EXCEPT ![P] = IF pc[P] = "argv" THEN "panic" ELSE "exit"]
  BY DEF Killed, Goto
<1>3. /\ p_as \in [Proc -> AddressSpace \cup {NULL}]
      /\ old \in [Proc -> AddressSpace \cup {NULL}] /\ pc \in [Proc -> Place]
      /\ \A c \in Cpu : current[c] \in Proc \cup {NULL}
  BY <1>1 DEF TypeOK
<1>4. /\ p_as' \in [Proc -> AddressSpace \cup {NULL}] /\ p_as'[P] = NULL
      /\ \A q \in Proc \ {P} : p_as'[q] = p_as[q]
  BY <1>2, <1>3
<1>5. /\ old' \in [Proc -> AddressSpace \cup {NULL}] /\ old'[P] = p_as[P]
      /\ \A q \in Proc \ {P} : old'[q] = old[q]
  BY <1>2, <1>3
<1>6. /\ pc' \in [Proc -> Place] /\ pc'[P] \in {"panic", "exit"}
      /\ \A q \in Proc \ {P} : pc'[q] = pc[q]
  BY <1>2, <1>3 DEF Place
<1>7. TypeOK'
  BY <1>1, <1>4, <1>5, <1>6 DEF TypeOK
<1>8. ProcRight(P)'
  BY <1>4, <1>5, <1>6 DEF ProcRight
<1>9. SpaceRight(P)'
  BY <1>6 DEF SpaceRight
<1>10. Owned'
  <2>1. CASE fault' = fault /\ leaked' = leaked
    <3>1. old[P] = NULL
      BY <1>1 DEF ProcRight
    <3>2. \A v \in Page : /\ FrameAt(P, "old", v) = NULL
                          /\ FrameAt(P, "fault", v)' = FrameAt(P, "fault", v)
                          /\ FrameAt(P, "old", v)' = FrameAt(P, "p_as", v)
                          /\ FrameAt(P, "p_as", v)' = NULL
      BY <2>1, <3>1, <1>4, <1>5, FrameAtIs, NoneFrames
    <3>3. \A p \in Proc \ {P}, a \in Slot, v \in Page :
             FrameAt(p, a, v)' = FrameAt(p, a, v)
      BY <2>1, <1>4, <1>5, FrameAtIs DEF Slot
    <3>. QED
      BY <2>1, <3>2, <3>3, <1>1, NullNotUsed, OwnersMoved
  <2>. QED
    BY <2>1
<1>11. TLBRight'
  BY <1>1, <1>3, <1>4, TLBKept
<1>. QED
  BY <1>4, <1>5, <1>6, <1>7, <1>8, <1>9, <1>10, <1>11, OneProc

LEMMA proc_exitStep ==
  ASSUME IInv, NEW C \in Cpu, NEW P \in Proc, proc_exit(C, P)
  PROVE  IInv'
<1>1. /\ pc[P] = "user" /\ fault[P] = NoFault /\ Killed(P) /\ fault' = fault
      /\ current' = current /\ tlb' = tlb /\ used' = used /\ leaked' = leaked
  BY DEF proc_exit, On
<1>2. /\ fault \in [Proc -> [page : Nat, frame : Frame \cup {NULL}]]
      /\ leaked \subseteq Frame
  BY DEF IInv, TypeOK
<1>. QED
  BY <1>1, <1>2, KilledStep

LEMMA FaultFailsStep ==
  ASSUME IInv, NEW C \in Cpu, NEW P \in Proc, NEW v \in Page, NEW write \in BOOLEAN,
         FaultFails(C, P, v, write)
  PROVE  IInv'
<1>1. /\ pc[P] \in {"user", "argv"} /\ fault[P] = NoFault /\ Killed(P) /\ fault' = fault
      /\ current' = current /\ tlb' = tlb /\ used' = used /\ leaked' = leaked
  BY DEF FaultFails, Touches, On
<1>2. /\ fault \in [Proc -> [page : Nat, frame : Frame \cup {NULL}]]
      /\ leaked \subseteq Frame
  BY DEF IInv, TypeOK
<1>. QED
  BY <1>1, <1>2, KilledStep

LEMMA ProcDestroyStep ==
  ASSUME IInv, NEW C \in Cpu, NEW P \in Proc, ProcDestroy(C, P)
  PROVE  IInv'
<1>1. TypeOK /\ ProcRight(P) /\ Owned /\ TLBRight /\ OneCpu
  BY DEF IInv, ProcsRight
<1>2. /\ current[C] = P /\ pc[P] = "exit" /\ fault[P] = NoFault
      /\ as_destroy(old[P])
      /\ old' = [old EXCEPT ![P] = NULL]
      /\ current' = [current EXCEPT ![C] = NULL]
      /\ pc' = [pc EXCEPT ![P] = "none"]
      /\ p_as' = p_as /\ fault' = fault /\ tlb' = tlb /\ leaked' = leaked
  BY DEF ProcDestroy, On, Goto
<1>3. /\ old \in [Proc -> AddressSpace \cup {NULL}] /\ pc \in [Proc -> Place]
      /\ current \in [Cpu -> Proc \cup {NULL}] /\ p_as[P] = NULL
  BY <1>1, <1>2 DEF TypeOK, ProcRight
<1>4. /\ old' \in [Proc -> AddressSpace \cup {NULL}] /\ old'[P] = NULL
      /\ \A q \in Proc \ {P} : old'[q] = old[q]
  BY <1>2, <1>3
<1>5. /\ pc' \in [Proc -> Place] /\ pc'[P] = "none"
      /\ \A q \in Proc \ {P} : pc'[q] = pc[q]
  BY <1>2, <1>3 DEF Place
<1>6. /\ current' \in [Cpu -> Proc \cup {NULL}]
      /\ \A c \in Cpu : current'[c] = IF c = C THEN NULL ELSE current[c]
  BY <1>2, <1>3
<1>7. \A c \in Cpu : current'[c] # P
  <2>1. P # NULL
    BY VMAssumption
  <2>. QED
    BY <2>1, <1>2, <1>6, <1>1 DEF OneCpu
<1>8. /\ \A f : f \in used' <=>
           f \in used /\ ~(f # NULL /\ \E v \in Page : FrameIn(old[P], v) = f)
      /\ used' \subseteq used
  BY <1>2, <1>3, Destroyed
<1>9. TypeOK'
  BY <1>1, <1>2, <1>4, <1>5, <1>6, <1>8 DEF TypeOK
<1>10. ProcRight(P)'
  BY <1>2, <1>3, <1>4, <1>5, <1>7 DEF ProcRight
<1>11. SpaceRight(P)'
  BY <1>5 DEF SpaceRight
<1>12. Owned'
  <2>1. \A v \in Page : /\ FrameAt(P, "fault", v)' = FrameAt(P, "fault", v)
                        /\ FrameAt(P, "p_as", v)' = FrameAt(P, "p_as", v)
                        /\ FrameAt(P, "old", v)' = NULL
    BY <1>2, <1>4, FrameAtIs, NoneFrames
  <2>2. \A p \in Proc \ {P}, a \in Slot, v \in Page :
           FrameAt(p, a, v)' = FrameAt(p, a, v)
    BY <1>2, <1>4, FrameAtIs DEF Slot
  <2>3. \A f : f \in used' <=>
          f \in used /\ ~(f # NULL /\ \E v \in Page : FrameAt(P, "old", v) = f)
    BY <1>8, FrameAtIs
  <2>. QED
    BY <2>1, <2>2, <2>3, <1>1, <1>2, NullNotUsed, OwnersFreed
<1>13. TLBRight'
  BY <1>1, <1>2, <1>3, <1>6, TLBKept
<1>. QED
  BY <1>2, <1>4, <1>5, <1>6, <1>9, <1>10, <1>11, <1>12, <1>13, OneProc

(* A fault's frame is lost, and the process killed.                        *)
LEMMA OwnersLostMoved ==
  ASSUME Owned, NULL \notin used, used' = used, NEW P \in Proc, NEW w \in Page,
         FrameAt(P, "fault", w) # NULL,
         leaked' = leaked \cup {FrameAt(P, "fault", w)},
         \A p \in Proc \ {P}, a \in Slot, v \in Page :
           FrameAt(p, a, v)' = FrameAt(p, a, v),
         \A v \in Page : /\ FrameAt(P, "fault", v)' = NULL
                         /\ v # w => FrameAt(P, "fault", v) = NULL
                         /\ FrameAt(P, "old", v) = NULL
                         /\ FrameAt(P, "old", v)' = FrameAt(P, "p_as", v)
                         /\ FrameAt(P, "p_as", v)' = NULL
  PROVE  Owned'
<1>1. OwnersApart'
  BY DEF Owned, OwnersApart, Slot
<1>2. UsedOwned'
  <2>1. leaked' \subseteq used'
    BY DEF Owned, UsedOwned, Slot
  <2>2. ASSUME NEW p \in Proc, NEW a \in Slot, NEW v \in Page,
               FrameAt(p, a, v)' # NULL
        PROVE  FrameAt(p, a, v)' \in used' \ leaked'
    <3>1. PICK b \in Slot : /\ FrameAt(p, b, v) = FrameAt(p, a, v)'
                            /\ p # P \/ b # "fault"
      BY <2>2 DEF Slot
    <3>2. FrameAt(p, b, v) \in used \ leaked
      BY <2>2, <3>1 DEF Owned, UsedOwned
    <3>3. FrameAt(p, b, v) # FrameAt(P, "fault", w)
      BY <2>2, <3>1 DEF Owned, OwnersApart, Slot
    <3>. QED
      BY <3>1, <3>2, <3>3
  <2>3. ASSUME NEW f \in used' \ leaked'
        PROVE  \E p \in Proc, a \in Slot, v \in Page : FrameAt(p, a, v)' = f
    <3>1. PICK p \in Proc, a \in Slot, v \in Page : FrameAt(p, a, v) = f
      BY DEF Owned, UsedOwned
    <3>2. p # P \/ a = "p_as"
      BY <2>3, <3>1 DEF Slot
    <3>. QED
      BY <3>1, <3>2 DEF Slot
  <2>. QED
    BY <2>1, <2>2, <2>3 DEF UsedOwned
<1>. QED
  BY <1>1, <1>2 DEF Owned

LEMMA FaultMappedStep ==
  ASSUME IInv, NEW C \in Cpu, NEW P \in Proc, NEW v \in Page, NEW write \in BOOLEAN,
         FaultMapped(C, P, v, write)
  PROVE  IInv'
<1>1. TypeOK /\ ProcRight(P) /\ SpaceRight(P) /\ Owned /\ TLBRight /\ OneCpu
  BY DEF IInv, ProcsRight, SpacesRight
<1>2. /\ current[C] = P /\ pc[P] \in {"user", "load", "argv"} /\ Entries(C, v) = {}
      /\ v \in Mapped(p_as[P]) /\ load_tlb(C, v, p_as[P].pagetable[v])
      /\ p_as' = p_as /\ old' = old /\ pc' = pc /\ fault' = fault
      /\ current' = current /\ used' = used /\ leaked' = leaked
  BY DEF FaultMapped, Touches, On
<1>3. p_as[P] \in AddressSpace /\ p_as[P] # NULL
  BY <1>1, <1>2 DEF TypeOK, ProcRight
<1>4. p_as[P].pagetable[v] \in PageEntry
  BY <1>2, <1>3, FrameFields, SpaceFields
<1>5. \A g \in tlb[C] : g.page # v
  BY <1>2 DEF Entries
<1>6. /\ TLBRight'
      /\ tlb' \in [Cpu -> SUBSET [page : Page, frame : Frame, dirty : BOOLEAN]]
  <2>1. \A u \in Page : p_as'[P].pagetable[u] =
          IF u = v THEN p_as[P].pagetable[v] ELSE p_as[P].pagetable[u]
    BY <1>2
  <2>. QED
    BY <2>1, <1>1, <1>2, <1>3, <1>4, <1>5, TLBLoaded
<1>7. TypeOK'
  BY <1>1, <1>2, <1>6 DEF TypeOK
<1>8. ProcRight(P)'
  BY <1>1, <1>2 DEF ProcRight
<1>9. SpaceRight(P)'
  BY <1>1, <1>2 DEF SpaceRight
<1>10. Owned'
  BY <1>1, <1>2, SameFrames
<1>. QED
  BY <1>2, <1>6, <1>7, <1>8, <1>9, <1>10, OneProc

LEMMA FaultAllocStep ==
  ASSUME IInv, NEW C \in Cpu, NEW P \in Proc, NEW v \in Page, NEW write \in BOOLEAN,
         FaultAlloc(C, P, v, write)
  PROVE  IInv'
<1>1. TypeOK /\ ProcRight(P) /\ SpaceRight(P) /\ Owned /\ TLBRight /\ OneCpu
  BY DEF IInv, ProcsRight, SpacesRight
<1>2. PICK f \in Frame \ used :
         /\ used' = used \cup {f}
         /\ fault' = [fault EXCEPT ![P] = [page |-> v, frame |-> f]]
  BY DEF FaultAlloc
<1>3. /\ current[C] = P /\ pc[P] \in {"user", "load", "argv"} /\ fault[P] = NoFault
      /\ Containing(p_as[P], v) # {} /\ v \notin Mapped(p_as[P])
      /\ p_as' = p_as /\ old' = old /\ pc' = pc
      /\ current' = current /\ tlb' = tlb /\ leaked' = leaked
  BY DEF FaultAlloc, Touches, On, lookup_region
<1>4. v \in Nat /\ f # NULL
  BY VMAssumption DEF Page
<1>5. fault \in [Proc -> [page : Nat, frame : Frame \cup {NULL}]]
  BY <1>1 DEF TypeOK
<1>6. /\ fault' \in [Proc -> [page : Nat, frame : Frame \cup {NULL}]]
      /\ fault'[P] = [page |-> v, frame |-> f]
      /\ \A q \in Proc \ {P} : fault'[q] = fault[q]
  BY <1>2, <1>4, <1>5
<1>7. fault'[P].page = v /\ fault'[P].frame = f
  BY <1>6
<1>8. TypeOK'
  BY <1>1, <1>2, <1>3, <1>6 DEF TypeOK
<1>9. ProcRight(P)'
  BY <1>1, <1>3, <1>4, <1>7 DEF ProcRight
<1>10. SpaceRight(P)'
  BY <1>1, <1>3 DEF SpaceRight
<1>11. Owned'
  <2>1. \A u \in Page : /\ FrameAt(P, "fault", u) = NULL
                         /\ FrameAt(P, "fault", u)' = IF u = v THEN f ELSE NULL
    BY <1>3, <1>7, FrameAtIs DEF NoFault
  <2>2. \A p \in Proc, a \in Slot, u \in Page : p # P \/ a # "fault" =>
           FrameAt(p, a, u)' = FrameAt(p, a, u)
    BY <1>3, <1>6, FrameAtIs DEF Slot
  <2>. QED
    BY <2>1, <2>2, <1>1, <1>2, <1>3, <1>4, NullNotUsed, OwnersAdded
<1>12. TLBRight'
  BY <1>1, <1>3 DEF TLBRight
<1>. QED
  BY <1>3, <1>6, <1>8, <1>9, <1>10, <1>11, <1>12, OneProc

LEMMA FaultInsertStep ==
  ASSUME IInv, NEW C \in Cpu, NEW P \in Proc, FaultInsert(C, P)
  PROVE  IInv'
<1>0. PICK w : w = fault[P].page
  OBVIOUS
<1> DEFINE x == p_as[P]
           e == [frame |-> fault[P].frame, dirty |-> get_region(x, w).writeable]
           y == [x EXCEPT !.pagetable[w] = e]
<1>1. TypeOK /\ ProcRight(P) /\ SpaceRight(P) /\ Owned /\ TLBRight /\ OneCpu
  BY DEF IInv, ProcsRight, SpacesRight
<1>2. /\ current[C] = P /\ fault[P] # NoFault
      /\ p_as' = [p_as EXCEPT ![P].pagetable[w] = e]
      /\ load_tlb(C, w, e)
      /\ fault' = [fault EXCEPT ![P] = NoFault]
      /\ old' = old /\ pc' = pc /\ current' = current /\ used' = used
      /\ leaked' = leaked
  BY <1>0 DEF FaultInsert
<1>3. /\ p_as \in [Proc -> AddressSpace \cup {NULL}]
      /\ fault \in [Proc -> [page : Nat, frame : Frame \cup {NULL}]]
      /\ \A c \in Cpu : current[c] \in Proc \cup {NULL}
  BY <1>1 DEF TypeOK
<1>4. /\ pc[P] \in {"load", "argv", "user"} /\ fault[P].frame # NULL
      /\ w \in Page /\ w \notin Mapped(x) /\ Containing(x, w) # {}
      /\ x # NULL
  BY <1>0, <1>1, <1>2 DEF ProcRight
<1>5. x \in AddressSpace
  BY <1>3, <1>4
<1>6. fault[P].frame \in Frame
  BY <1>3, <1>4
<1>7. get_region(x, w).writeable \in BOOLEAN
  <2>1. PICK i : i \in Containing(x, w)
    BY <1>4
  <2>2. Disjoint(x)
    BY <1>1, <1>4 DEF SpaceRight, Loading, Exact
  <2>3. get_region(x, w) = x.regions[i]
    BY <2>1, <2>2, <1>4, <1>5, GetRegion
  <2>4. x.regions[i] \in Region
    BY <2>1, <1>5, SpaceFields DEF Containing
  <2>. QED
    BY <2>3, <2>4, RegionFields
<1>8. e \in PageEntry /\ e.frame = fault[P].frame
      /\ e.dirty = get_region(x, w).writeable
  BY <1>6, <1>7 DEF PageEntry
<1>9. p_as' = [p_as EXCEPT ![P] = y]
  BY <1>2, <1>3
<1> HIDE DEF x, e
<1>10. /\ y \in AddressSpace
       /\ y.pagetable = [x.pagetable EXCEPT ![w] = e]
       /\ \A v \in Page : FrameIn(y, v) = IF v = w THEN e.frame ELSE FrameIn(x, v)
       /\ Loading(x) => Loading(y)
       /\ Exact(x) => Exact(y)
  BY <1>4, <1>5, <1>8, InsertPage
<1> HIDE DEF y
<1>11. /\ p_as' \in [Proc -> AddressSpace \cup {NULL}] /\ p_as'[P] = y
       /\ \A q \in Proc \ {P} : p_as'[q] = p_as[q]
  BY <1>3, <1>9, <1>10
<1>12. NoFault \in [page : Nat, frame : Frame \cup {NULL}]
  BY DEF NoFault
<1>13. /\ fault' \in [Proc -> [page : Nat, frame : Frame \cup {NULL}]]
       /\ fault'[P] = NoFault
       /\ \A q \in Proc \ {P} : fault'[q] = fault[q]
  BY <1>2, <1>3, <1>12
<1>14. y # NULL
  BY <1>10, SpaceFields
<1>15. /\ TLBRight'
       /\ tlb' \in [Cpu -> SUBSET [page : Page, frame : Frame, dirty : BOOLEAN]]
  <2>1. \A g \in tlb[C] : g.page # w
    <3>1. \A g \in tlb[C] : x.pagetable[g.page] # NULL
      BY <1>1, <1>2, <1>4, VMAssumption DEF TLBRight, x
    <3>2. x.pagetable[w] = NULL
      BY <1>4, <1>5, FrameFields
    <3>. QED
      BY <3>1, <3>2
  <2>2. \A v \in Page : p_as'[P].pagetable[v] =
                           IF v = w THEN e ELSE p_as[P].pagetable[v]
    <3>1. x.pagetable \in [Page -> PageEntry \cup {NULL}]
      BY <1>5, SpaceFields
    <3>. QED
      BY <3>1, <1>10, <1>11 DEF x
  <2>3. p_as[P] # NULL
    BY <1>4 DEF x
  <2>. QED
    BY <2>1, <2>2, <2>3, <1>1, <1>2, <1>4, <1>8, <1>11, TLBLoaded
<1>16. TypeOK'
  BY <1>1, <1>2, <1>11, <1>13, <1>15 DEF TypeOK
<1>17. ProcRight(P)'
  BY <1>1, <1>2, <1>4, <1>11, <1>13, <1>14 DEF ProcRight
<1>18. SpaceRight(P)'
  <2>1. pc[P] = "load" => Loading(p_as'[P])
    BY <1>1, <1>10, <1>11 DEF SpaceRight, x
  <2>2. pc[P] \in {"argv", "user"} => Exact(p_as'[P])
    BY <1>1, <1>10, <1>11 DEF SpaceRight, x
  <2>3. pc[P] = "load" /\ old[P] # NULL => Exact(old[P])
    BY <1>1 DEF SpaceRight
  <2>. QED
    BY <2>1, <2>2, <2>3, <1>2, <1>4 DEF SpaceRight
<1>19. Owned'
  <2>1. \A p \in Proc, a \in Slot, v \in Page :
           ~(p = P /\ v = w /\ a \in {"p_as", "fault"}) =>
             FrameAt(p, a, v)' = FrameAt(p, a, v)
    <3> SUFFICES ASSUME NEW p \in Proc, NEW v \in Page
        PROVE  \A a \in Slot : ~(p = P /\ v = w /\ a \in {"p_as", "fault"}) =>
                 FrameAt(p, a, v)' = FrameAt(p, a, v)
      OBVIOUS
    <3>1. FrameAt(p, "old", v)' = FrameAt(p, "old", v)
      BY <1>2, FrameAtIs
    <3>2. p # P \/ v # w => FrameAt(p, "p_as", v)' = FrameAt(p, "p_as", v)
      BY <1>10, <1>11, FrameAtIs DEF x
    <3>3. p # P \/ v # w => FrameAt(p, "fault", v)' = FrameAt(p, "fault", v)
      BY <1>0, <1>13, FrameAtIs DEF NoFault
    <3>. QED
      BY <3>1, <3>2, <3>3 DEF Slot
  <2>2. FrameAt(P, "p_as", w) = NULL
    BY <1>4, <1>5, FrameAtIs, FrameFields DEF x
  <2>3. FrameAt(P, "fault", w)' = NULL
    BY <1>4, <1>13, FrameAtIs DEF NoFault
  <2>4. FrameAt(P, "p_as", w)' = FrameAt(P, "fault", w)
    BY <1>0, <1>4, <1>8, <1>10, <1>11, FrameAtIs
  <2>. QED
    BY <2>1, <2>2, <2>3, <2>4, <1>1, <1>2, <1>4, NullNotUsed, OwnersEntered
<1>. QED
  BY <1>2, <1>11, <1>13, <1>15, <1>16, <1>17, <1>18, <1>19, OneProc

LEMMA InsertFailsStep ==
  ASSUME IInv, NEW C \in Cpu, NEW P \in Proc, InsertFails(C, P)
  PROVE  IInv'
<1> DEFINE w == fault[P].page
<1>1. TypeOK /\ ProcRight(P) /\ SpaceRight(P) /\ Owned /\ TLBRight /\ OneCpu
  BY DEF IInv, ProcsRight, SpacesRight
<1>2. /\ current[C] = P /\ fault[P] # NoFault
      /\ leaked' = leaked \cup {fault[P].frame}
      /\ fault' = [fault EXCEPT ![P] = NoFault]
      /\ current' = current /\ tlb' = tlb /\ used' = used
      /\ IF pc[P] = "load" THEN p_as' = p_as /\ old' = old /\ pc' = pc
         ELSE Killed(P)
  BY DEF InsertFails
<1>3. /\ p_as \in [Proc -> AddressSpace \cup {NULL}]
      /\ old \in [Proc -> AddressSpace \cup {NULL}]
      /\ fault \in [Proc -> [page : Nat, frame : Frame \cup {NULL}]]
      /\ leaked \subseteq Frame
  BY <1>1 DEF TypeOK
<1>4. /\ pc[P] \in {"load", "argv", "user"} /\ fault[P].frame # NULL
      /\ w \in Page /\ p_as[P] # NULL
  BY <1>1, <1>2 DEF ProcRight
<1>5. fault[P].frame \in Frame /\ leaked' \subseteq Frame
  BY <1>2, <1>3, <1>4
<1>6. NoFault \in [page : Nat, frame : Frame \cup {NULL}]
  BY DEF NoFault
<1>7. /\ fault' \in [Proc -> [page : Nat, frame : Frame \cup {NULL}]]
      /\ fault'[P] = NoFault
      /\ \A q \in Proc \ {P} : fault'[q] = fault[q]
  BY <1>2, <1>3, <1>6
<1>8. /\ FrameAt(P, "fault", w) = fault[P].frame
      /\ \A v \in Page : /\ FrameAt(P, "fault", v)' = NULL
                         /\ v # w => FrameAt(P, "fault", v) = NULL
  BY <1>4, <1>7, FrameAtIs DEF NoFault
<1>9. CASE pc[P] = "load"
  <2>1. p_as' = p_as /\ old' = old /\ pc' = pc
    BY <1>2, <1>9
  <2>2. TypeOK'
    BY <2>1, <1>1, <1>2, <1>5, <1>7 DEF TypeOK
  <2>3. ProcRight(P)'
    BY <2>1, <1>1, <1>2, <1>7 DEF ProcRight
  <2>4. SpaceRight(P)'
    BY <2>1, <1>1 DEF SpaceRight
  <2>5. Owned'
    <3>1. \A p \in Proc, a \in Slot, v \in Page :
            p # P \/ a # "fault" => FrameAt(p, a, v)' = FrameAt(p, a, v)
      BY <2>1, <1>7, FrameAtIs DEF Slot
    <3>. QED
      BY <3>1, <1>1, <1>2, <1>4, <1>8, NullNotUsed, OwnersLost
  <2>6. TLBRight'
    BY <2>1, <1>1, <1>2 DEF TLBRight
  <2>. QED
    BY <2>1, <2>2, <2>3, <2>4, <2>5, <2>6, <1>2, <1>7, OneProc
<1>10. CASE pc[P] \in {"argv", "user"}
  <2>1. Killed(P)
    BY <1>2, <1>10
  <2>2. /\ p_as'[P] = NULL /\ \A q \in Proc \ {P} : p_as'[q] = p_as[q]
        /\ old'[P] = p_as[P] /\ \A q \in Proc \ {P} : old'[q] = old[q]
    BY <2>1, <1>3 DEF Killed
  <2>3. old[P] = NULL
    BY <1>1, <1>10 DEF ProcRight
  <2>4. Owned'
    <3>1. \A v \in Page : /\ FrameAt(P, "old", v) = NULL
                          /\ FrameAt(P, "old", v)' = FrameAt(P, "p_as", v)
                          /\ FrameAt(P, "p_as", v)' = NULL
      BY <2>2, <2>3, FrameAtIs, NoneFrames
    <3>2. \A p \in Proc \ {P}, a \in Slot, v \in Page :
             FrameAt(p, a, v)' = FrameAt(p, a, v)
      BY <2>2, <1>7, FrameAtIs DEF Slot
    <3>. QED
      BY <3>1, <3>2, <1>1, <1>2, <1>4, <1>8, NullNotUsed, OwnersLostMoved
  <2>. QED
    BY <2>1, <2>4, <1>2, <1>5, <1>7, <1>10, KilledStep
<1>. QED
  BY <1>4, <1>9, <1>10

LEMMA as_copyStep ==
  ASSUME IInv, NEW C \in Cpu, NEW P \in Proc, NEW Q \in Proc, as_copy(C, P, Q)
  PROVE  IInv'
<1> DEFINE x == p_as[P]
<1>1. /\ TypeOK /\ ProcRight(P) /\ SpaceRight(P) /\ Owned /\ TLBRight /\ OneCpu
      /\ ProcRight(Q)
  BY DEF IInv, ProcsRight, SpacesRight
<1>2. PICK frames \in [Mapped(x) -> Frame \ used] :
       /\ \A v, w \in Mapped(x) : frames[v] = frames[w] => v = w
       /\ p_as' = [p_as EXCEPT ![Q] = SpaceCopy(x, frames)]
       /\ used' = used \cup {frames[v] : v \in Mapped(x)}
  BY DEF as_copy, SpaceCopy
<1>3. /\ current[C] = P /\ pc[P] = "user" /\ pc[Q] = "none"
      /\ pc' = [pc EXCEPT ![Q] = "user"]
      /\ old' = old /\ fault' = fault /\ current' = current /\ tlb' = tlb
      /\ leaked' = leaked
  BY DEF as_copy, On, Goto
<1>4. /\ p_as \in [Proc -> AddressSpace \cup {NULL}] /\ pc \in [Proc -> Place]
      /\ \A c \in Cpu : current[c] \in Proc \cup {NULL}
      /\ x \in AddressSpace /\ x # NULL
  BY <1>1, <1>3 DEF TypeOK, ProcRight
<1> DEFINE y == SpaceCopy(x, frames)
<1>5. Exact(x)
  BY <1>1, <1>3 DEF SpaceRight
<1> HIDE DEF x
<1>6. frames \in [Mapped(x) -> Frame]
  OBVIOUS
<1>7. /\ y \in AddressSpace /\ Exact(y)
      /\ \A v \in Page : FrameIn(y, v) =
           IF FrameIn(x, v) = NULL THEN NULL ELSE frames[v]
  BY <1>4, <1>5, <1>6, CopySpace
<1>8. y # NULL
  BY <1>7, SpaceFields
<1> HIDE DEF y
<1>9. /\ p_as' \in [Proc -> AddressSpace \cup {NULL}] /\ p_as'[Q] = y
      /\ \A q \in Proc \ {Q} : p_as'[q] = p_as[q]
  BY <1>2, <1>4, <1>7 DEF y
<1>10. /\ pc' \in [Proc -> Place] /\ pc'[Q] = "user"
       /\ \A q \in Proc \ {Q} : pc'[q] = pc[q]
  BY <1>3, <1>4 DEF Place
<1>11. p_as[Q] = NULL /\ old[Q] = NULL /\ fault[Q] = NoFault
       /\ \A c \in Cpu : current[c] # Q
  BY <1>1, <1>3 DEF ProcRight
<1>12. used' \subseteq Frame
  BY <1>1, <1>2 DEF TypeOK
<1>13. TypeOK'
  BY <1>1, <1>3, <1>9, <1>10, <1>12 DEF TypeOK
<1>14. ProcRight(Q)'
  BY <1>3, <1>8, <1>9, <1>10, <1>11 DEF ProcRight
<1>15. SpaceRight(Q)'
  BY <1>7, <1>9, <1>10 DEF SpaceRight
<1>16. Owned'
  <2>1. Mapped(x) \subseteq Page /\ NULL \notin {frames[v] : v \in Mapped(x)}
        /\ \A v \in Mapped(x) : frames[v] \notin used
    BY VMAssumption DEF Mapped
  <2>2. \A v \in Page : v \in Mapped(x) <=> FrameIn(x, v) # NULL
    BY <1>4, FrameFields
  <2>3. \A v \in Page : /\ FrameAt(Q, "p_as", v) = NULL
                        /\ v \in Mapped(x) => FrameAt(Q, "p_as", v)' = frames[v]
                        /\ v \notin Mapped(x) => FrameAt(Q, "p_as", v)' = NULL
    BY <2>2, <1>7, <1>9, <1>11, FrameAtIs, NoneFrames
  <2>4. \A p \in Proc, a \in Slot, v \in Page :
           p # Q \/ a # "p_as" => FrameAt(p, a, v)' = FrameAt(p, a, v)
    BY <1>3, <1>9, FrameAtIs DEF Slot
  <2>. QED
    BY <2>1, <2>3, <2>4, <1>1, <1>2, <1>3, NullNotUsed, OwnersCopied
<1>17. TLBRight'
  BY <1>1, <1>3, <1>4, <1>9, <1>11, TLBKept
<1>. QED
  BY <1>3, <1>9, <1>10, <1>13, <1>14, <1>15, <1>16, <1>17, OneProc

LEMMA DispatchStep ==
  ASSUME IInv, NEW C \in Cpu, NEW p \in Proc \cup {NULL}, Dispatch(C, p)
  PROVE  IInv'
<1>1. TypeOK /\ ProcsRight /\ SpacesRight /\ Owned /\ TLBRight /\ OneCpu
  BY DEF IInv
<1>2. /\ p # NULL => pc[p] # "none" /\ \A d \in Cpu : current[d] # p
      /\ current' = [current EXCEPT ![C] = p]
      /\ tlb' = IF p = NULL THEN tlb
                ELSE IF p_as[p] = NULL THEN tlb ELSE [tlb EXCEPT ![C] = {}]
      /\ p_as' = p_as /\ old' = old /\ pc' = pc /\ fault' = fault
      /\ used' = used /\ leaked' = leaked
  BY DEF Dispatch, as_activate
<1>3. /\ current \in [Cpu -> Proc \cup {NULL}]
      /\ tlb \in [Cpu -> SUBSET [page : Page, frame : Frame, dirty : BOOLEAN]]
  BY <1>1 DEF TypeOK
<1>4. /\ current' \in [Cpu -> Proc \cup {NULL}]
      /\ \A c \in Cpu : current'[c] = IF c = C THEN p ELSE current[c]
  BY <1>2, <1>3
<1>5. /\ tlb' \in [Cpu -> SUBSET [page : Page, frame : Frame, dirty : BOOLEAN]]
      /\ \A c \in Cpu : c # C => tlb'[c] = tlb[c]
      /\ p # NULL => p_as[p] = NULL \/ tlb'[C] = {}
  BY <1>2, <1>3
<1>6. TypeOK'
  BY <1>1, <1>2, <1>4, <1>5 DEF TypeOK
<1>7. ProcsRight'
  <2> SUFFICES ASSUME NEW q \in Proc PROVE ProcRight(q)'
    BY DEF ProcsRight
  <2>1. ProcRight(q)
    BY <1>1 DEF ProcsRight
  <2>2. pc[q] = "none" => \A c \in Cpu : current'[c] # q
    <3>1. q # NULL
      BY VMAssumption
    <3>. QED
      BY <2>1, <3>1, <1>2, <1>4 DEF ProcRight
  <2>. QED
    BY <2>1, <2>2, <1>2 DEF ProcRight
<1>8. SpacesRight'
  BY <1>1, <1>2 DEF SpacesRight, SpaceRight
<1>9. OneCpu'
  BY <1>1, <1>2, <1>4 DEF OneCpu
<1>10. Owned'
  <2>1. \A q \in Proc, a \in Slot, v \in Page : FrameAt(q, a, v)' = FrameAt(q, a, v)
    BY <1>2, FrameAtIs DEF Slot
  <2>. QED
    BY <2>1, <1>1, <1>2, OwnersKept
<1>11. TLBRight'
  <2> SUFFICES ASSUME NEW c \in Cpu, current'[c] # NULL, p_as'[current'[c]] # NULL
      PROVE  /\ \A e \in tlb'[c] : /\ p_as'[current'[c]].pagetable[e.page] # NULL
                         /\ p_as'[current'[c]].pagetable[e.page] =
                              [frame |-> e.frame, dirty |-> e.dirty]
             /\ \A e, g \in tlb'[c] : e.page = g.page => e = g
    BY DEF TLBRight
  <2>1. CASE c = C
    <3>1. tlb'[c] = {}
      BY <2>1, <1>2, <1>4, <1>5
    <3>. QED
      BY <3>1
  <2>2. CASE c # C
    <3>1. current'[c] = current[c] /\ tlb'[c] = tlb[c]
      BY <2>2, <1>4, <1>5
    <3>. QED
      BY <3>1, <1>1, <1>2 DEF TLBRight
  <2>. QED
    BY <2>1, <2>2
<1>. QED
  BY <1>6, <1>7, <1>8, <1>9, <1>10, <1>11 DEF IInv

-----------------------------------------------------------------------------
(* The theorems.                                                           *)

LEMMA InitIInv == Init => IInv
<1> SUFFICES ASSUME Init PROVE IInv
  OBVIOUS
<1>1. /\ \A p \in Proc : /\ p_as[p] = NULL /\ old[p] = NULL /\ pc[p] = "none"
                         /\ fault[p] = NoFault
      /\ \A c \in Cpu : current[c] = NULL /\ tlb[c] = {}
      /\ used = {} /\ leaked = {}
  BY DEF Init
<1>2. TypeOK
  BY DEF Init, TypeOK, Place, NoFault
<1>3. ProcsRight
  BY <1>1, VMAssumption DEF ProcsRight, ProcRight
<1>4. SpacesRight
  BY <1>1 DEF SpacesRight, SpaceRight
<1>5. OneCpu
  BY <1>1 DEF OneCpu
<1>6. Owned
  <2>1. \A p \in Proc, a \in Slot, v \in Page : FrameAt(p, a, v) = NULL
    BY <1>1, FrameAtIs, NoneFrames DEF Slot, NoFault
  <2>. QED
    BY <2>1, <1>1 DEF Owned, OwnersApart, UsedOwned
<1>7. TLBRight
  BY <1>1 DEF TLBRight
<1>. QED
  BY <1>2, <1>3, <1>4, <1>5, <1>6, <1>7 DEF IInv

LEMMA UnchangedIInv == IInv /\ UNCHANGED vars => IInv'
<1> SUFFICES ASSUME IInv, UNCHANGED vars PROVE IInv'
  OBVIOUS
<1>1. /\ p_as' = p_as /\ old' = old /\ pc' = pc /\ fault' = fault
      /\ current' = current /\ tlb' = tlb /\ used' = used /\ leaked' = leaked
  BY DEF vars
<1>2. TypeOK'
  BY <1>1 DEF IInv, TypeOK
<1>3. ProcsRight'
  BY <1>1 DEF IInv, ProcsRight, ProcRight
<1>4. SpacesRight'
  BY <1>1 DEF IInv, SpacesRight, SpaceRight
<1>5. OneCpu'
  BY <1>1 DEF IInv, OneCpu
<1>6. Owned'
  <2>1. \A q \in Proc, a \in Slot, v \in Page : FrameAt(q, a, v)' = FrameAt(q, a, v)
    BY <1>1, FrameAtIs DEF Slot
  <2>. QED
    BY <2>1, <1>1, OwnersKept DEF IInv
<1>7. TLBRight'
  BY <1>1 DEF IInv, TLBRight
<1>. QED
  BY <1>2, <1>3, <1>4, <1>5, <1>6, <1>7 DEF IInv

LEMMA NextIInv == IInv /\ [Next]_vars => IInv'
<1> SUFFICES ASSUME IInv, [Next]_vars PROVE IInv'
  OBVIOUS
<1>1. CASE UNCHANGED vars
  BY <1>1, UnchangedIInv
<1>2. ASSUME NEW p \in Proc, CreateRunprogram(p) PROVE IInv'
  BY <1>2, CreateRunprogramStep
<1>3. ASSUME NEW c \in Cpu, NEW p \in Proc, Load(c, p) PROVE IInv'
  BY <1>3, LoadExecStep, LoadExecFailsStep, as_define_regionStep,
     as_prepare_loadStep, LoadFailsStep, as_complete_loadStep,
     LoadExecDoneStep, EnterNewProcessStep DEF Load
<1>4. ASSUME NEW c \in Cpu, NEW p \in Proc, vm_fault(c, p) PROVE IInv'
  BY <1>4, FaultMappedStep, FaultAllocStep, FaultFailsStep, FaultInsertStep,
     InsertFailsStep DEF vm_fault
<1>5. ASSUME NEW c \in Cpu, NEW p \in Proc, NEW q \in Proc, as_copy(c, p, q)
      PROVE  IInv'
  BY <1>5, as_copyStep
<1>6. ASSUME NEW c \in Cpu, NEW p \in Proc, proc_exit(c, p) PROVE IInv'
  BY <1>6, proc_exitStep
<1>7. ASSUME NEW c \in Cpu, NEW p \in Proc, ProcDestroy(c, p) PROVE IInv'
  BY <1>7, ProcDestroyStep
<1>8. ASSUME NEW c \in Cpu, NEW p \in Proc \cup {NULL}, Dispatch(c, p) PROVE IInv'
  BY <1>8, DispatchStep
<1>. QED
  BY <1>1, <1>2, <1>3, <1>4, <1>5, <1>6, <1>7, <1>8 DEF Next

(* The inductive invariant: what each process has at each place of exec,   *)
(* fork, fault and exit, whose each frame is, and what each TLB holds.     *)
THEOREM Invariance == Spec => []IInv
<1>. QED
  BY InitIInv, NextIInv, PTL DEF Spec

(* Each variable of the address spaces, faults, cpus and TLBs has its type.*)
THEOREM TypeCorrect == Spec => []TypeOK
<1>1. IInv => TypeOK
  BY DEF IInv
<1>. QED
  BY <1>1, Invariance, PTL

LEMMA OwnedIsOnce == IInv => FramesOwnedOnce
<1> SUFFICES ASSUME IInv PROVE FramesOwnedOnce
  OBVIOUS
<1>1. TypeOK /\ ProcsRight /\ OwnersApart /\ UsedOwned
  BY DEF IInv, Owned
<1>2. ASSUME NEW p \in Proc, NEW a \in {"p_as", "old"}, NEW v \in Page
      PROVE  /\ <<p, a, v>> \in Pages <=> FrameAt(p, a, v) # NULL
             /\ <<p, a, v>> \in Pages => FrameOf(<<p, a, v>>) = FrameAt(p, a, v)
  <2> DEFINE x == Space(p, a)
  <2>1. x \in AddressSpace \cup {NULL}
    BY <1>1 DEF TypeOK, Space
  <2>2. FrameAt(p, a, v) = FrameIn(x, v)
    BY FrameAtIs DEF Space
  <2>3. <<p, a, v>> \in Pages <=> x # NULL /\ v \in Mapped(x)
    BY DEF Pages
  <2>4. FrameOf(<<p, a, v>>) = x.pagetable[v].frame
    BY DEF FrameOf
  <2> HIDE DEF x
  <2>5. CASE x = NULL
    BY <2>2, <2>3, <2>5, NoneFrames
  <2>6. CASE x # NULL
    <3>1. x \in AddressSpace
      BY <2>1, <2>6
    <3>2. v \in Mapped(x) <=> FrameIn(x, v) # NULL
      BY <3>1, FrameFields
    <3>3. FrameIn(x, v) # NULL => FrameIn(x, v) = x.pagetable[v].frame
      BY <2>6 DEF FrameIn
    <3>. QED
      BY <3>2, <3>3, <2>2, <2>3, <2>4, <2>6
  <2>. QED
    BY <2>5, <2>6
<1>3. ASSUME NEW p \in Proc, fault[p].frame # NULL
      PROVE  /\ fault[p].page \in Page
             /\ FrameAt(p, "fault", fault[p].page) = fault[p].frame
  <2>1. fault[p] # NoFault
    BY <1>3 DEF NoFault
  <2>2. fault[p].page \in Page
    BY <2>1, <1>1 DEF ProcsRight, ProcRight
  <2>. QED
    BY <2>2, FrameAtIs
<1>4. \A m \in Pages : \E p \in Proc, a \in {"p_as", "old"}, v \in Page :
        m = <<p, a, v>>
  BY DEF Pages
<1>5. ASSUME NEW m \in Pages, NEW n \in Pages, FrameOf(m) = FrameOf(n)
      PROVE  m = n
  <2>1. PICK p \in Proc, a \in {"p_as", "old"}, u \in Page : m = <<p, a, u>>
    BY <1>4
  <2>2. PICK q \in Proc, b \in {"p_as", "old"}, v \in Page : n = <<q, b, v>>
    BY <1>4
  <2>3. FrameAt(p, a, u) # NULL /\ FrameAt(p, a, u) = FrameAt(q, b, v)
    BY <2>1, <2>2, <1>2, <1>5
  <2>4. a \in Slot /\ b \in Slot
    BY DEF Slot
  <2>5. p = q /\ a = b /\ u = v
    BY <2>3, <2>4, <1>1 DEF OwnersApart
  <2>. QED
    BY <2>1, <2>2, <2>5
<1>6. ASSUME NEW p \in Proc, NEW q \in Proc, fault[p].frame = fault[q].frame
      PROVE  p = q \/ fault[p].frame = NULL
  <2> SUFFICES ASSUME fault[p].frame # NULL PROVE p = q
    OBVIOUS
  <2>1. PICK u \in Page : FrameAt(p, "fault", u) = fault[p].frame
    BY <1>3
  <2>2. PICK v \in Page : FrameAt(q, "fault", v) = fault[q].frame
    BY <1>3, <1>6
  <2>3. FrameAt(p, "fault", u) # NULL /\ FrameAt(p, "fault", u) = FrameAt(q, "fault", v)
    BY <2>1, <2>2, <1>6
  <2>. QED
    BY <2>3, <1>1 DEF OwnersApart, Slot
<1>7. {FrameOf(m) : m \in Pages} \cap InFlight = {}
  <2> SUFFICES ASSUME NEW m \in Pages, NEW q \in Proc, fault[q].frame # NULL,
                      FrameOf(m) = fault[q].frame
               PROVE  FALSE
    BY DEF InFlight
  <2>1. PICK p \in Proc, a \in {"p_as", "old"}, u \in Page : m = <<p, a, u>>
    BY <1>4
  <2>2. PICK v \in Page : FrameAt(q, "fault", v) = fault[q].frame
    BY <1>3
  <2>3. FrameAt(p, a, u) # NULL /\ FrameAt(p, a, u) = FrameAt(q, "fault", v)
    BY <2>1, <2>2, <1>2
  <2>4. a \in Slot /\ "fault" \in Slot /\ a # "fault"
    BY DEF Slot
  <2>. QED
    BY <2>3, <2>4, <1>1 DEF OwnersApart
<1>8. ASSUME NEW f
      PROVE  f \in used <=> f \in {FrameOf(m) : m \in Pages} \cup InFlight \cup leaked
  <2>1. ASSUME f \in used, f \notin leaked
        PROVE  f \in {FrameOf(m) : m \in Pages} \cup InFlight
    <3>1. PICK p \in Proc, a \in Slot, v \in Page : FrameAt(p, a, v) = f
      BY <2>1, <1>1 DEF UsedOwned
    <3>2. f # NULL
      BY <2>1, <1>1, NullNotUsed
    <3>3. CASE a \in {"p_as", "old"}
      <4>1. <<p, a, v>> \in Pages /\ FrameOf(<<p, a, v>>) = f
        BY <3>1, <3>2, <3>3, <1>2
      <4>. QED
        BY <4>1
    <3>4. CASE a = "fault"
      <4>1. fault[p].frame = f
        BY <3>1, <3>2, <3>4, FrameAtIs
      <4>. QED
        BY <4>1, <3>2 DEF InFlight
    <3>. QED
      BY <3>3, <3>4 DEF Slot
  <2>2. ASSUME NEW m \in Pages, f = FrameOf(m) PROVE f \in used
    <3>1. PICK p \in Proc, a \in {"p_as", "old"}, u \in Page : m = <<p, a, u>>
      BY <1>4
    <3>2. FrameAt(p, a, u) # NULL /\ FrameAt(p, a, u) = f
      BY <2>2, <3>1, <1>2
    <3>. QED
      BY <3>2, <1>1 DEF UsedOwned, Slot
  <2>3. ASSUME f \in InFlight PROVE f \in used
    <3>1. PICK p \in Proc : f = fault[p].frame /\ f # NULL
      BY <2>3 DEF InFlight
    <3>2. PICK v \in Page : FrameAt(p, "fault", v) = f
      BY <3>1, <1>3
    <3>. QED
      BY <3>1, <3>2, <1>1 DEF UsedOwned, Slot
  <2>4. f \in leaked => f \in used
    BY <1>1 DEF UsedOwned
  <2>. QED
    BY <2>1, <2>2, <2>3, <2>4
<1>9. used = {FrameOf(m) : m \in Pages} \cup InFlight \cup leaked
  BY <1>8
<1>. QED
  BY <1>5, <1>6, <1>7, <1>9 DEF FramesOwnedOnce

(* Over every path of exec, fork, failed load and death, a frame belongs to *)
(* one page of one address space or to one fault, and the frames given are  *)
(* those owned and those that vm_fault has lost.                            *)
THEOREM EachFrameOnce == Spec => []FramesOwnedOnce
<1>. QED
  BY OwnedIsOnce, Invariance, PTL

LEMMA TLBIsRight == IInv => TLBMatches
<1> SUFFICES ASSUME IInv, NEW c \in Cpu, current[c] # NULL,
                    p_as[current[c]] # NULL, NEW e \in tlb[c]
             PROVE  /\ e.page \in Mapped(p_as[current[c]])
                    /\ p_as[current[c]].pagetable[e.page] =
                         [frame |-> e.frame, dirty |-> e.dirty]
                    /\ Entries(c, e.page) = {e}
  BY DEF TLBMatches
<1>1. /\ \A g \in tlb[c] : /\ p_as[current[c]].pagetable[g.page] # NULL
                           /\ p_as[current[c]].pagetable[g.page] =
                                [frame |-> g.frame, dirty |-> g.dirty]
      /\ \A g, h \in tlb[c] : g.page = h.page => g = h
  BY DEF IInv, TLBRight
<1>2. e.page \in Page
  <2>1. tlb[c] \subseteq [page : Page, frame : Frame, dirty : BOOLEAN]
    BY DEF IInv, TypeOK
  <2>. QED
    BY <2>1
<1>3. Entries(c, e.page) = {e}
  BY <1>1 DEF Entries
<1>. QED
  BY <1>1, <1>2, <1>3 DEF Mapped

(* Whatever ran on a cpu before, it translates the running process's pages  *)
(* only, with the frames and rights of that process's page table, although  *)
(* the TLB is flushed by as_activate alone.                                 *)
THEOREM TLBAlwaysMatches == Spec => []TLBMatches
<1>. QED
  BY TLBIsRight, Invariance, PTL

LEMMA ExactIsRight == IInv => RightsExact
<1> SUFFICES ASSUME IInv, NEW p \in Proc, pc[p] \in {"argv", "user"}, NEW v \in Page
    PROVE  /\ Cardinality(Containing(p_as[p], v)) <= 1
           /\ v \in Mapped(p_as[p]) =>
                /\ Containing(p_as[p], v) # {}
                /\ p_as[p].pagetable[v].dirty <=> get_region(p_as[p], v).writeable
  BY DEF RightsExact
<1> DEFINE x == p_as[p]
           S == Containing(x, v)
<1>1. x \in AddressSpace
  BY DEF IInv, TypeOK, ProcsRight, ProcRight
<1>2. Exact(x)
  BY DEF IInv, SpacesRight, SpaceRight
<1> HIDE DEF x
<1>3. \A i, j \in S : i = j
  BY <1>2 DEF Exact, Disjoint
<1>4. Cardinality(S) <= 1
  <2>1. S = {} \/ \E i : S = {i}
    BY <1>3
  <2>2. S = {} => Cardinality(S) = 0
    BY FS_EmptySet
  <2>3. ASSUME NEW i, S = {i} PROVE Cardinality(S) = 1
    BY <2>3, FS_Singleton
  <2>. QED
    BY <2>1, <2>2, <2>3
<1>5. ASSUME v \in Mapped(x)
      PROVE  /\ S # {}
             /\ x.pagetable[v].dirty <=> get_region(x, v).writeable
  <2>1. PICK i \in S : x.pagetable[v].dirty = x.regions[i].writeable
    BY <1>2, <1>5 DEF Exact
  <2>2. get_region(x, v) = x.regions[i]
    BY <2>1, <1>1, <1>2, GetRegion DEF Exact
  <2>. QED
    BY <2>1, <2>2
<1>. QED
  BY <1>4, <1>5 DEF x

(* Each page of a program is in exactly one region and has that region's    *)
(* rights, although the loader wrote read-only pages, region_valid compares *)
(* end points that may wrap, and fork copied what it found.                 *)
THEOREM RightsAlwaysExact == Spec => []RightsExact
<1>. QED
  BY ExactIsRight, Invariance, PTL

=============================================================================
