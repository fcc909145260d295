------------------------------- MODULE Frames -------------------------------
(***************************************************************************)
(* The allocator of physical page frames, arch/mips/vm/unsw.c, behind      *)
(* alloc_kpages and free_kpages.  The table has two bits for each frame:   *)
(* allocated, and not_last, which chains the frames of one allocation.     *)
(*                                                                         *)
(* Every operation holds frame_table_spinlock from beginning to end, so    *)
(* that there is one at a time, whatever the number of cpus; its locals    *)
(* are variables here.  The loops that can go wrong, the scan for several  *)
(* frames and the one that frees a block, take one step a turn.            *)
(***************************************************************************)
EXTENDS Integers

CONSTANTS
  first_frame,  (* the first frame the kernel and the table do not occupy  *)
  last_frame,   (* one past the last frame                                 *)
  MaxPages      (* the largest request                                     *)

(* A request for more frames than there are would make last_frame - npages *)
(* wrap, since it is unsigned.                                             *)
ASSUME FrameAssumption ==
  /\ first_frame \in Nat \ {0} /\ last_frame \in Nat /\ first_frame < last_frame
  /\ MaxPages \in Nat /\ MaxPages <= last_frame

Frame == 0..(last_frame - 1)

VARIABLES
  allocated,  (* the bits of frame_table                                   *)
  not_last,
  blocks,     (* the <<first frame, number of frames>> that callers hold   *)
  going,      (* the frames of the block being freed that are still marked *)
  pc,         (* "idle", "scan" or "free"                                  *)
  npages,     (* the locals of the operation in progress                   *)
  i,
  j

vars == <<allocated, not_last, blocks, going, pc, npages, i, j>>

FramesOf(b) == b[1]..(b[1] + b[2] - 1)

(* ram_bootstrap does not initialize not_last of the free frames.          *)
Init ==
  /\ allocated = [f \in Frame |-> f < first_frame]
  /\ not_last \in {g \in [Frame -> BOOLEAN] : \A f \in 0..(first_frame - 1) : ~g[f]}
  /\ blocks = {} /\ going = {}
  /\ pc = "idle" /\ npages = 0 /\ i = 0 /\ j = 0

Return == pc' = "idle" /\ npages' = 0 /\ i' = 0 /\ j' = 0

(* Mutant of Take: the last frame is chained to whatever follows it. *)
TakeUnended(f, n) ==
  /\ allocated' = [g \in Frame |-> allocated[g] \/ g \in FramesOf(<<f, n>>)]
  /\ not_last' = [g \in Frame |-> not_last[g] \/ g \in FramesOf(<<f, n>>)]
  /\ blocks' = blocks \cup {<<f, n>>}

(* Mark the n frames from f as one block and hand it out. *)
Take(f, n) ==
  /\ allocated' = [g \in Frame |-> allocated[g] \/ g \in FramesOf(<<f, n>>)]
  /\ not_last' = [g \in Frame |->
       IF g \in FramesOf(<<f, n>>) THEN g # f + n - 1 ELSE not_last[g]]
  /\ blocks' = blocks \cup {<<f, n>>}

-----------------------------------------------------------------------------
(* One frame: the first that is free.  If none is, nothing changes.        *)
AllocOneFrame ==
  /\ pc = "idle"
  /\ \E f \in first_frame..(last_frame - 1) :
       /\ ~allocated[f]
       /\ \A g \in first_frame..(f - 1) : allocated[g]
       /\ Take(f, 1)
  /\ UNCHANGED <<going, pc, npages, i, j>>

(* Several frames: the scan begins ... *)
AllocMultipleFrames(n) ==
  /\ pc = "idle"
  /\ pc' = "scan" /\ npages' = n /\ i' = first_frame /\ j' = 0
  /\ UNCHANGED <<allocated, not_last, blocks, going>>

(* Mutant of ScanDone: the loop goes on to the end of the table. *)
ScanDoneAtEnd == i >= last_frame \/ j >= npages

ScanDone == i >= last_frame - npages \/ j >= npages

(* Mutants of ScanTurn: after an allocated frame the scan goes on at that  *)
(* frame, or leaves out the one that follows.                              *)
ScanTurnStuck ==
  /\ pc = "scan" /\ ~ScanDone
  /\ IF allocated[i + j] THEN i' = i + j /\ j' = 0 ELSE j' = j + 1 /\ i' = i
  /\ UNCHANGED <<allocated, not_last, blocks, going, pc, npages>>
ScanTurnSkips ==
  /\ pc = "scan" /\ ~ScanDone
  /\ IF allocated[i + j] THEN i' = i + j + 2 /\ j' = 0 ELSE j' = j + 1 /\ i' = i
  /\ UNCHANGED <<allocated, not_last, blocks, going, pc, npages>>

(* ... goes on while the frames from i are free, and after the one that is *)
(* not ...                                                                 *)
ScanTurn ==
  /\ pc = "scan" /\ ~ScanDone
  /\ IF allocated[i + j] THEN i' = i + j + 1 /\ j' = 0 ELSE j' = j + 1 /\ i' = i
  /\ UNCHANGED <<allocated, not_last, blocks, going, pc, npages>>

(* ... and has found enough of them, or not. *)
ScanSucceeds ==
  /\ pc = "scan" /\ ScanDone /\ j = npages
  /\ Take(i, npages)
  /\ Return
  /\ UNCHANGED going

ScanFails ==
  /\ pc = "scan" /\ ScanDone /\ j # npages
  /\ Return
  /\ UNCHANGED <<allocated, not_last, blocks, going>>

-----------------------------------------------------------------------------
(* free_frames, of a block the caller holds; the code panics if the first  *)
(* frame is not allocated.                                                 *)
FreeFrames(b) ==
  /\ pc = "idle"
  /\ allocated[b[1]]
  /\ pc' = "free" /\ i' = b[1]
  /\ blocks' = blocks \ {b} /\ going' = FramesOf(b)
  /\ UNCHANGED <<allocated, not_last, npages, j>>

FreeTurn ==
  /\ pc = "free" /\ allocated[i]
  /\ allocated' = [allocated EXCEPT ![i] = FALSE]
  /\ i' = IF not_last[i] THEN i + 1 ELSE i
  /\ going' = going \ {i}
  /\ UNCHANGED <<not_last, blocks, pc, npages, j>>

FreeDone ==
  /\ pc = "free" /\ ~allocated[i]
  /\ Return
  /\ UNCHANGED <<allocated, not_last, blocks, going>>

-----------------------------------------------------------------------------
(* What goes on with the spinlock held. *)
Section == ScanTurn \/ ScanSucceeds \/ ScanFails \/ FreeTurn \/ FreeDone

Next ==
  \/ AllocOneFrame
  \/ \E n \in 2..MaxPages : AllocMultipleFrames(n)
  \/ \E b \in blocks : FreeFrames(b)
  \/ Section

Spec == Init /\ [][Next]_vars

(* With the spinlock held interrupts are off: the section runs to its end. *)
FairSpec == Spec /\ WF_vars(Section)

-----------------------------------------------------------------------------
(* Types; and the scan looks at no entry beyond the table's last. *)
TypeOK ==
  /\ allocated \in [Frame -> BOOLEAN]
  /\ not_last \in [Frame -> BOOLEAN]
  /\ blocks \subseteq Frame \X (1..last_frame)
  /\ going \subseteq Frame
  /\ pc \in {"idle", "scan", "free"}
  /\ npages \in 0..MaxPages
  /\ i \in 0..last_frame /\ j \in 0..npages
  /\ pc = "scan" /\ ~ScanDone => i + j \in Frame
  /\ pc = "free" => i \in Frame

Held == UNION {FramesOf(b) : b \in blocks}

(* The frames that are marked are the kernel's own, those of the blocks    *)
(* callers hold, and those still to be freed; the blocks are disjoint.  So *)
(* no frame is given out twice, a free gives back the block that was       *)
(* allocated and nothing next to it, and no frame is ever lost.            *)
FramesAccounted ==
  /\ \A f \in Frame : allocated[f] <=> f < first_frame \/ f \in Held \cup going
  /\ \A b, c \in blocks : FramesOf(b) \cap FramesOf(c) # {} => b = c
  /\ \A b \in blocks : FramesOf(b) \subseteq first_frame..(last_frame - 1)
  /\ going \subseteq first_frame..(last_frame - 1) /\ going \cap Held = {}
  /\ pc # "free" => going = {}

FreeWindow(f, n) == \A g \in f..(f + n - 1) : ~allocated[g]

(* The scan is first fit: the frames it takes are free, and the first that *)
(* many that are; and it fails only if there are none among those that end *)
(* before the last frame.                                                  *)
FirstFit ==
  pc = "scan" /\ ScanDone =>
    /\ j = npages => FreeWindow(i, npages) /\ i + npages <= last_frame
    /\ \A f \in first_frame..(last_frame - npages - 1) :
         FreeWindow(f, npages) => j = npages /\ i <= f

(* It fails only if there are none: "Did not find an unallocated           *)
(* contiguous range of frames" (unsw.c:266).                               *)
FailsOnlyIfNone ==
  pc = "scan" /\ ScanDone /\ j # npages =>
    \A f \in first_frame..(last_frame - npages) : ~FreeWindow(f, npages)

(* The spinlock is released: both loops end. *)
SectionsEnd == pc # "idle" ~> pc = "idle"

-----------------------------------------------------------------------------
(* The inductive invariant of Frames_proofs.tla.                           *)

ChainsRight ==
  \A b \in blocks : \A f \in FramesOf(b) : not_last[f] <=> f # b[1] + b[2] - 1

ScanRight ==
  pc = "scan" =>
    /\ npages >= 1 /\ i >= first_frame /\ i + j <= last_frame
    /\ FreeWindow(i, j)
    /\ \A f \in first_frame..(i - 1) : ~FreeWindow(f, npages)

FreeRight ==
  pc = "free" =>
    \/ going = {} /\ ~allocated[i]
    \/ \E e \in Frame : /\ i <= e /\ going = i..e
                       /\ \A f \in going : not_last[f] <=> f # e

IInv == TypeOK /\ FramesAccounted /\ ChainsRight /\ ScanRight /\ FreeRight
=============================================================================
