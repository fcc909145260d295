--------------------------------- MODULE VM ---------------------------------
(***************************************************************************)
(* Virtual memory of the Asst3 kernel: kern/vm/vm.c and kern/vm/           *)
(* addrspace.c, driven by the scheduler (as_activate), the loader          *)
(* (loadexec and load_elf), fork (as_copy) and exit (as_destroy).          *)
(*                                                                         *)
(* A process has one thread, and only that thread uses its address space;  *)
(* the cpus' TLBs, the frames, and the moments at which a process leaves   *)
(* one cpu and goes on on another are what processes share.  A process may *)
(* lose its cpu between any two steps here.  Lengths and addresses are in  *)
(* pages, and addresses wrap at ADDR_MAX.                                  *)
(***************************************************************************)
EXTENDS Integers, Sequences, FiniteSets

CONSTANTS
  Cpu, Proc,
  Frame,       (* the frames alloc_kpages can give                         *)
  NULL,
  KSEG0,       (* MIPS_KSEG0: the number of pages of kuseg                 *)
  ADDR_MAX,    (* 2^20 pages of address space                              *)
  PTPAGES,     (* PAGETABLE_SIZE: the pages of one second-level table      *)
  NUM_TLB,
  Executables, (* the segments of each, as as_define_region aligns them    *)
  Stack,       (* the call made by as_define_stack                         *)
  ARG_PAGES    (* the most pages that argbuf_copyout writes                *)

Page == 0..(KSEG0 - 1)
Region == [base : 0..(ADDR_MAX - 1), size : 0..(ADDR_MAX - 1),
           readable : BOOLEAN, writeable : BOOLEAN, old_writeable : BOOLEAN]
PageEntry == [frame : Frame, dirty : BOOLEAN]
AddressSpace ==
  [regions : Seq(Region), pagetable : [Page -> PageEntry \cup {NULL}]]

ASSUME VMAssumption ==
  /\ NULL \notin Proc \cup Frame \cup PageEntry /\ NULL \notin AddressSpace
  /\ KSEG0 \in Nat /\ ADDR_MAX \in Nat /\ KSEG0 < ADDR_MAX
  /\ PTPAGES \in Nat \ {0} /\ NUM_TLB \in Nat \ {0}
  /\ Executables \subseteq Seq(Region) /\ Stack \in Region
  /\ ARG_PAGES \in Nat

VARIABLES
  p_as,    (* the address space that proc_getas returns to a process's     *)
           (* thread, NULL or its regions, newest first, and page table    *)
  old,     (* the address space that loadexec may restore, or proc_exit    *)
           (* is to destroy                                                *)
  pc,      (* what each process's thread does                              *)
  fault,   (* the local variables of vm_fault                              *)
  current, (* the process whose thread each cpu runs; NULL: a kernel thread*)
  tlb,     (* the entries of each cpu's TLB                                *)
  used,    (* the frames the allocator has given                           *)
  leaked   (* history: the frames that vm_fault has lost                   *)

vars == <<p_as, old, pc, fault, current, tlb, used, leaked>>

(* "start": in runprogram.  "define", "load", "stack": in loadexec.        *)
(* "argv": copying the arguments out.  "exit": in proc_exit, the thread    *)
(* being the kernel process's.                                             *)
Place == {"none", "start", "define", "load", "stack", "argv", "user",
          "exit", "panic"}

NewSpace == [regions |-> <<>>, pagetable |-> [v \in Page |-> NULL]]
NoFault == [page |-> 0, frame |-> NULL]

Init ==
  /\ p_as = [p \in Proc |-> NULL]
  /\ old = [p \in Proc |-> NULL]
  /\ pc = [p \in Proc |-> "none"]
  /\ fault = [p \in Proc |-> NoFault]
  /\ current = [c \in Cpu |-> NULL]
  /\ tlb = [c \in Cpu |-> {}]
  /\ used = {} /\ leaked = {}

On(c, p, place) == current[c] = p /\ pc[p] = place /\ fault[p] = NoFault
Goto(p, place) == pc' = [pc EXCEPT ![p] = place]

-----------------------------------------------------------------------------
(* Regions and page tables.                                                *)

Sum(v, n) == (v + n) % ADDR_MAX

(* The four tests of region_valid against one region. *)
Clear(r, v, n) ==
  /\ ~(r.base <= v /\ Sum(r.base, r.size) > v)
  /\ ~(r.base <= Sum(v, n) /\ Sum(r.base, r.size) > Sum(v, n))
  /\ ~(v <= r.base /\ Sum(v, n) > r.base)
  /\ ~(v <= Sum(r.base, r.size) /\ Sum(v, n) > Sum(r.base, r.size))

region_valid(x, v, n) ==
  /\ Sum(v, n) <= KSEG0
  /\ \A i \in DOMAIN x.regions : Clear(x.regions[i], v, n)

Contains(r, v) == v >= r.base /\ v < Sum(r.base, r.size)
Containing(x, v) ==
  {i \in DOMAIN x.regions : Contains(x.regions[i], v)}
get_region(x, v) ==
  x.regions[CHOOSE i \in Containing(x, v) :
                     \A j \in Containing(x, v) : i <= j]

lookup_region(x, v, write) ==
  /\ Containing(x, v) # {}
  /\ IF write THEN get_region(x, v).writeable ELSE get_region(x, v).readable

Mapped(x) == {v \in Page : x.pagetable[v] # NULL}
FramesOf(x) == {x.pagetable[v].frame : v \in Mapped(x)}
Tables(x) == {v \div PTPAGES : v \in Mapped(x)}

as_destroy(x) ==
  used' = IF x = NULL THEN used ELSE used \ FramesOf(x)

-----------------------------------------------------------------------------
(* The scheduler.                                                          *)

(* Mutant of as_activate: the TLB is left to the next process. *)
as_activateNot(c, x) == UNCHANGED tlb

as_activate(c, x) == tlb' = IF x = NULL THEN tlb ELSE [tlb EXCEPT ![c] = {}]

(* thread_switch to another thread; NULL: to one of the kernel process. *)
Dispatch(c, p) ==
  /\ p # current[c]
  /\ p # NULL => pc[p] # "none" /\ \A d \in Cpu : current[d] # p
  /\ current' = [current EXCEPT ![c] = p]
  /\ as_activate(c, IF p = NULL THEN NULL ELSE p_as[p])
  /\ UNCHANGED <<p_as, old, pc, fault, used, leaked>>

(* The menu makes a process, whose thread calls runprogram. *)
CreateRunprogram(p) ==
  /\ pc[p] = "none"
  /\ Goto(p, "start")
  /\ UNCHANGED <<p_as, old, fault, current, tlb, used, leaked>>

-----------------------------------------------------------------------------
(* loadexec and load_elf, for runprogram and execv.                        *)

LoadExec(c, p) ==
  /\ On(c, p, "start") \/ On(c, p, "user")
  /\ p_as' = [p_as EXCEPT ![p] = NewSpace]
  /\ old' = [old EXCEPT ![p] = p_as[p]]
  /\ as_activate(c, NewSpace)
  /\ Goto(p, "define")
  /\ UNCHANGED <<fault, current, used, leaked>>

(* The executable cannot be opened, or there is no memory. *)
LoadExecFails(c, p) ==
  /\ On(c, p, "start")
  /\ Goto(p, "exit")
  /\ UNCHANGED <<p_as, old, fault, current, tlb, used, leaked>>

Insert(x, r) == [x EXCEPT !.regions = <<r>> \o @]

(* x has the first segments of e, the last of them first. *)
Begins(x, e) ==
  LET n == Len(x.regions)
  IN  n <= Len(e) /\ \A i \in 1..n : e[i] = x.regions[n + 1 - i]

as_define_region(c, p, e) ==
  LET n == Len(p_as[p].regions)
      r == e[n + 1]
  IN
  /\ On(c, p, "define") /\ Begins(p_as[p], e) /\ n < Len(e)
  /\ region_valid(p_as[p], r.base, r.size)
  /\ p_as' = [p_as EXCEPT ![p] = Insert(@, r)]
  /\ UNCHANGED <<old, pc, fault, current, tlb, used, leaked>>

Regions(x, Op(_)) == [i \in DOMAIN x.regions |-> Op(x.regions[i])]

as_prepare_load(c, p, e) ==
  /\ On(c, p, "define") /\ Begins(p_as[p], e) /\ Len(p_as[p].regions) = Len(e)
  /\ p_as' = [p_as EXCEPT ![p].regions = Regions(p_as[p], LAMBDA r :
       [r EXCEPT !.old_writeable = r.writeable, !.writeable = TRUE])]
  /\ Goto(p, "load")
  /\ UNCHANGED <<old, fault, current, tlb, used, leaked>>

(* A segment is refused or cannot be read, or the stack is refused: the    *)
(* old address space is activated again, and the new one destroyed.        *)
LoadFails(c, p) ==
  /\ \/ On(c, p, "define") \/ On(c, p, "load")
     \/ /\ On(c, p, "stack")
        /\ ~region_valid(p_as[p], Stack.base, Stack.size)
  /\ p_as' = [p_as EXCEPT ![p] = old[p]]
  /\ as_activate(c, old[p])
  /\ as_destroy(p_as[p])
  /\ old' = [old EXCEPT ![p] = NULL]
  /\ Goto(p, IF old[p] = NULL THEN "exit" ELSE "user")
  /\ UNCHANGED <<fault, current, leaked>>

(* Mutant of Protected: the pages written by the loader stay writeable. *)
ProtectedNot(x, v) == x.pagetable[v]

Protected(x, v) ==
  IF v \in Mapped(x) /\ ~get_region(x, v).old_writeable
  THEN [x.pagetable[v] EXCEPT !.dirty = FALSE]
  ELSE x.pagetable[v]

as_complete_load(c, p) ==
  LET x == p_as[p] IN
  /\ On(c, p, "load")
  /\ as_activate(c, x)
  /\ p_as' = [p_as EXCEPT ![p] =
       [regions |->
          Regions(x, LAMBDA r : [r EXCEPT !.writeable = r.old_writeable]),
        pagetable |-> [v \in Page |-> Protected(x, v)]]]
  /\ Goto(p, "stack")
  /\ UNCHANGED <<old, fault, current, used, leaked>>

(* as_define_stack; the old program's address space is destroyed. *)
LoadExecDone(c, p) ==
  /\ On(c, p, "stack") /\ region_valid(p_as[p], Stack.base, Stack.size)
  /\ p_as' = [p_as EXCEPT ![p] = Insert(@, Stack)]
  /\ as_destroy(old[p])
  /\ old' = [old EXCEPT ![p] = NULL]
  /\ Goto(p, "argv")
  /\ UNCHANGED <<fault, current, tlb, leaked>>

(* argbuf_copyout writes the arguments to one or more of the stack's last  *)
(* pages; it is done when the pages it has written reach the stack's top.  *)
StackTop == Sum(Stack.base, Stack.size) - 1
ArgPages == {v \in Page : v <= StackTop /\ v > StackTop - ARG_PAGES}

EnterNewProcess(c, p) ==
  /\ On(c, p, "argv") /\ StackTop \in Mapped(p_as[p])
  /\ \A v \in ArgPages \cap Mapped(p_as[p]) : v..StackTop \subseteq Mapped(p_as[p])
  /\ Goto(p, "user")
  /\ UNCHANGED <<p_as, old, fault, current, tlb, used, leaked>>

-----------------------------------------------------------------------------
(* vm_fault.                                                               *)

Entries(c, v) == {e \in tlb[c] : e.page = v}

(* Where user memory is written or, by user code, read. *)
Touches(c, p, v, write) ==
  \/ On(c, p, "user")
  \/ On(c, p, "load") /\ write
  \/ On(c, p, "argv") /\ write /\ v \in ArgPages

(* tlb_random replaces an entry of the hardware's choice. *)
load_tlb(c, v, pte) ==
  \E out \in SUBSET tlb[c] :
    /\ Cardinality(out) <= 1 /\ Cardinality(tlb[c] \ out) < NUM_TLB
    /\ tlb' = [tlb EXCEPT ![c] = (@ \ out) \cup
         {[page |-> v, frame |-> pte.frame, dirty |-> pte.dirty]}]

(* A TLB miss on a page that the process has, or is given a frame for. *)
FaultMapped(c, p, v, write) ==
  /\ Touches(c, p, v, write) /\ Entries(c, v) = {}
  /\ lookup_region(p_as[p], v, write) /\ v \in Mapped(p_as[p])
  /\ load_tlb(c, v, p_as[p].pagetable[v])
  /\ UNCHANGED <<p_as, old, pc, fault, current, used, leaked>>

FaultAlloc(c, p, v, write) ==
  /\ Touches(c, p, v, write) /\ Entries(c, v) = {}
  /\ lookup_region(p_as[p], v, write) /\ v \notin Mapped(p_as[p])
  /\ \E f \in Frame \ used :
       /\ used' = used \cup {f}
       /\ fault' = [fault EXCEPT ![p] = [page |-> v, frame |-> f]]
  /\ UNCHANGED <<p_as, old, pc, current, tlb, leaked>>

(* insert_pt and load_tlb, on whichever cpu the process now is. *)
FaultInsert(c, p) ==
  LET v == fault[p].page
      pte == [frame |-> fault[p].frame,
              dirty |-> get_region(p_as[p], v).writeable]
  IN
  /\ current[c] = p /\ fault[p] # NoFault
  /\ p_as' = [p_as EXCEPT ![p].pagetable[v] = pte]
  /\ load_tlb(c, v, pte)
  /\ fault' = [fault EXCEPT ![p] = NoFault]
  /\ UNCHANGED <<old, pc, current, used, leaked>>

(* After vm_fault returns an error the process is killed: its thread is    *)
(* now the kernel process's.  If it was the kernel that wrote the new      *)
(* program's arguments, the kernel panics.                                 *)
Killed(p) ==
  /\ Goto(p, IF pc[p] = "argv" THEN "panic" ELSE "exit")
  /\ p_as' = [p_as EXCEPT ![p] = NULL]
  /\ old' = [old EXCEPT ![p] = p_as[p]]

(* A write to a page that is read-only, no such page, or no free frame. *)
FaultFails(c, p, v, write) ==
  /\ pc[p] \in {"user", "argv"}
  /\ Touches(c, p, v, write)
  /\ \/ \E e \in Entries(c, v) : write /\ ~e.dirty
     \/ /\ Entries(c, v) = {}
        /\ \/ ~lookup_region(p_as[p], v, write)
           \/ v \notin Mapped(p_as[p]) /\ used = Frame
  /\ Killed(p)
  /\ UNCHANGED <<fault, current, tlb, used, leaked>>

(* No memory for a second-level table: the frame is forgotten. *)
InsertFails(c, p) ==
  /\ current[c] = p /\ fault[p] # NoFault
  /\ fault[p].page \div PTPAGES \notin Tables(p_as[p])
  /\ leaked' = leaked \cup {fault[p].frame}
  /\ fault' = [fault EXCEPT ![p] = NoFault]
  /\ IF pc[p] = "load" THEN UNCHANGED <<p_as, old, pc>> ELSE Killed(p)
  /\ UNCHANGED <<current, tlb, used>>

-----------------------------------------------------------------------------
(* fork and exit.                                                          *)

(* Mutant of Copied: the copy maps the original's frames. *)
CopiedShared(x, frames, v) == x.pagetable[v]

Copied(x, frames, v) ==
  IF v \in Mapped(x) THEN [x.pagetable[v] EXCEPT !.frame = frames[v]]
  ELSE NULL

(* as_copy, and the thread of the child; without memory for a struct or a  *)
(* second-level table it gives back all it took.  When frames run out half *)
(* way through a table, the rest of that table is not initialized and      *)
(* as_destroy frees what it holds: undefined, and left out.                *)
as_copy(c, p, q) ==
  LET x == p_as[p] IN
  /\ On(c, p, "user") /\ pc[q] = "none"
  /\ \E frames \in [Mapped(x) -> Frame \ used] :
       /\ \A v, w \in Mapped(x) : frames[v] = frames[w] => v = w
       /\ p_as' = [p_as EXCEPT ![q] =
            [regions |-> x.regions,
             pagetable |-> [v \in Page |-> Copied(x, frames, v)]]]
       /\ used' = used \cup {frames[v] : v \in Mapped(x)}
  /\ Goto(q, "user")
  /\ UNCHANGED <<old, fault, current, tlb, leaked>>

proc_exit(c, p) ==
  /\ On(c, p, "user")
  /\ Killed(p)
  /\ UNCHANGED <<fault, current, tlb, used, leaked>>

(* proc_destroy, then thread_exit. *)
ProcDestroy(c, p) ==
  /\ On(c, p, "exit")
  /\ as_destroy(old[p])
  /\ old' = [old EXCEPT ![p] = NULL]
  /\ current' = [current EXCEPT ![c] = NULL]
  /\ Goto(p, "none")
  /\ UNCHANGED <<p_as, fault, tlb, leaked>>

-----------------------------------------------------------------------------
Load(c, p) ==
  \/ LoadExec(c, p) \/ LoadExecFails(c, p)
  \/ \E e \in Executables : as_define_region(c, p, e) \/ as_prepare_load(c, p, e)
  \/ LoadFails(c, p) \/ as_complete_load(c, p)
  \/ LoadExecDone(c, p) \/ EnterNewProcess(c, p)

vm_fault(c, p) ==
  \/ \E v \in Page, write \in BOOLEAN :
       \/ FaultMapped(c, p, v, write) \/ FaultAlloc(c, p, v, write)
       \/ FaultFails(c, p, v, write)
  \/ FaultInsert(c, p) \/ InsertFails(c, p)

Next ==
  \/ \E p \in Proc : CreateRunprogram(p)
  \/ \E c \in Cpu, p \in Proc :
       \/ Load(c, p) \/ vm_fault(c, p)
       \/ \E q \in Proc : as_copy(c, p, q)
       \/ proc_exit(c, p) \/ ProcDestroy(c, p)
  \/ \E c \in Cpu, p \in Proc \cup {NULL} : Dispatch(c, p)

Spec == Init /\ [][Next]_vars

-----------------------------------------------------------------------------
(* Properties.                                                             *)

(* The address spaces a process has, and the pages they map. *)
Space(p, which) == IF which = "old" THEN old[p] ELSE p_as[p]
Pages == {m \in Proc \X {"p_as", "old"} \X Page :
            /\ Space(m[1], m[2]) # NULL
            /\ m[3] \in Mapped(Space(m[1], m[2]))}
FrameOf(m) == Space(m[1], m[2]).pagetable[m[3]].frame
InFlight == {fault[p].frame : p \in Proc} \ {NULL}

(* A frame belongs to one page of one address space, or to a fault that    *)
(* has not entered it yet; frames are given back when and only when their  *)
(* address space is destroyed, over every path of exec, fork, failed load  *)
(* and death.  The only frames lost are those of vm_fault's insert_pt.     *)
FramesOwnedOnce ==
  /\ \A m, n \in Pages : FrameOf(m) = FrameOf(n) => m = n
  /\ \A p, q \in Proc : fault[p].frame = fault[q].frame =>
       p = q \/ fault[p].frame = NULL
  /\ {FrameOf(m) : m \in Pages} \cap InFlight = {}
  /\ used = {FrameOf(m) : m \in Pages} \cup InFlight \cup leaked

(* Whatever the cpu and whichever processes were on it before, a running   *)
(* process's cpu translates only its pages, to its page table's frames and *)
(* rights, and has no two entries for one page.  TLBs are not flushed when *)
(* a process leaves, exits or is given back a page's rights, but when one  *)
(* comes.                                                                  *)
TLBMatches == \A c \in Cpu :
  LET x == IF current[c] = NULL THEN NULL ELSE p_as[current[c]] IN
  x # NULL => \A e \in tlb[c] :
    /\ e.page \in Mapped(x)
    /\ x.pagetable[e.page] = [frame |-> e.frame, dirty |-> e.dirty]
    /\ Entries(c, e.page) = {e}

(* A program's page is in exactly one of its regions and can be written if *)
(* and only if that region can, although the loader wrote read-only pages  *)
(* with rights it had to take back, and fork copied the rights.            *)
RightsExact == \A p \in Proc : pc[p] \in {"argv", "user"} =>
  \A v \in Page :
    /\ Cardinality(Containing(p_as[p], v)) <= 1
    /\ v \in Mapped(p_as[p]) =>
         /\ Containing(p_as[p], v) # {}
         /\ p_as[p].pagetable[v].dirty <=> get_region(p_as[p], v).writeable
=============================================================================
