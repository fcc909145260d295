--------------------------- MODULE Frames_proofs ---------------------------
(***************************************************************************)
(* Proofs of the invariants of Frames, for every size of memory.  IInv is  *)
(* shown to be inductive, one lemma for each action.                       *)
(***************************************************************************)
EXTENDS Frames, TLAPS

LEMMA InitIInv == Init => IInv
<1>1. SUFFICES ASSUME Init PROVE IInv
  OBVIOUS
<1>2. Held = {}
  BY <1>1 DEF Init, Held
<1>3. TypeOK
  BY <1>1, FrameAssumption DEF Init, TypeOK, Frame
<1>4. FramesAccounted
  BY <1>1, <1>2, FrameAssumption DEF Init, FramesAccounted, Frame
<1>5. ChainsRight /\ ScanRight /\ FreeRight
  BY <1>1 DEF Init, ChainsRight, ScanRight, FreeRight
<1> QED
  BY <1>3, <1>4, <1>5 DEF IInv

(* A run of free frames that nobody holds becomes a block.                 *)
LEMMA TakeRight ==
  ASSUME IInv, pc # "free", UNCHANGED going,
         NEW f \in Nat, NEW n \in Nat, n >= 1,
         first_frame <= f, f + n <= last_frame, FreeWindow(f, n), Take(f, n)
  PROVE  /\ allocated' \in [Frame -> BOOLEAN]
         /\ not_last' \in [Frame -> BOOLEAN]
         /\ blocks' \subseteq Frame \X (1..last_frame)
         /\ (\A g \in Frame : allocated'[g] <=> g < first_frame \/ g \in Held' \cup going')
         /\ \A b, c \in blocks' : FramesOf(b) \cap FramesOf(c) # {} => b = c
         /\ \A b \in blocks' : FramesOf(b) \subseteq first_frame..(last_frame - 1)
         /\ going' = {} /\ going' \cap Held' = {}
         /\ ChainsRight'
<1> DEFINE nb == <<f, n>>
<1>0. /\ first_frame \in Nat \ {0} /\ last_frame \in Nat /\ first_frame < last_frame
      /\ TypeOK /\ FramesAccounted /\ ChainsRight
  BY FrameAssumption DEF IInv
<1>1. FramesOf(nb) = f..(f + n - 1) /\ FramesOf(nb) \subseteq first_frame..(last_frame - 1)
  BY <1>0 DEF FramesOf
<1>2. \A g \in FramesOf(nb) : g \in Frame /\ ~allocated[g]
  BY <1>0, <1>1 DEF Frame, FreeWindow
<1>3. \A b \in blocks : FramesOf(b) \cap FramesOf(nb) = {}
  <2> SUFFICES ASSUME NEW b \in blocks, NEW g \in FramesOf(b), g \in FramesOf(nb)
               PROVE  FALSE
    OBVIOUS
  <2>1. g \in Held
    BY DEF Held
  <2> QED
    BY <2>1, <1>0, <1>2 DEF FramesAccounted
<1>4. blocks' = blocks \cup {nb} /\ Held' = Held \cup FramesOf(nb)
  <2>1. blocks' = blocks \cup {nb}
    BY DEF Take
  <2> QED
    BY <2>1 DEF Held
<1>5. nb \in Frame \X (1..last_frame)
  BY <1>0 DEF Frame
<1>6. going = {} /\ going' = {}
  BY <1>0 DEF FramesAccounted
<1>7. /\ allocated' \in [Frame -> BOOLEAN] /\ not_last' \in [Frame -> BOOLEAN]
      /\ blocks' \subseteq Frame \X (1..last_frame)
  BY <1>0, <1>4, <1>5 DEF Take, TypeOK
<1>8. \A g \in Frame : allocated'[g] <=> g < first_frame \/ g \in Held' \cup going'
  <2> TAKE g \in Frame
  <2>1. allocated'[g] <=> allocated[g] \/ g \in FramesOf(nb)
    BY DEF Take
  <2> QED
    BY <2>1, <1>0, <1>4, <1>6 DEF FramesAccounted
<1>9. \A b, c \in blocks' : FramesOf(b) \cap FramesOf(c) # {} => b = c
  BY <1>0, <1>3, <1>4 DEF FramesAccounted
<1>10. \A b \in blocks' : FramesOf(b) \subseteq first_frame..(last_frame - 1)
  BY <1>0, <1>1, <1>4 DEF FramesAccounted
<1>11. ChainsRight'
  <2> SUFFICES ASSUME NEW b \in blocks', NEW g \in FramesOf(b)
               PROVE  not_last'[g] <=> g # b[1] + b[2] - 1
    BY DEF ChainsRight
  <2>1. g \in Frame
    BY <1>0, <1>10 DEF Frame
  <2>2. CASE b = nb
    BY <2>1, <2>2 DEF Take
  <2>3. CASE b \in blocks
    <3>1. g \notin FramesOf(nb)
      BY <2>3, <1>3
    <3>2. not_last'[g] = not_last[g]
      BY <2>1, <3>1 DEF Take
    <3> QED
      BY <3>2, <2>3, <1>0 DEF ChainsRight
  <2> QED
    BY <1>4, <2>2, <2>3
<1> QED
  BY <1>6, <1>7, <1>8, <1>9, <1>10, <1>11

LEMMA AllocOneFrameStep == ASSUME IInv, AllocOneFrame PROVE IInv'
<1>0. /\ first_frame \in Nat \ {0} /\ last_frame \in Nat /\ first_frame < last_frame
      /\ MaxPages \in Nat /\ TypeOK /\ pc = "idle"
  BY FrameAssumption DEF IInv, AllocOneFrame
<1>1. PICK f \in first_frame..(last_frame - 1) : ~allocated[f] /\ Take(f, 1)
  BY DEF AllocOneFrame
<1>2. FreeWindow(f, 1) /\ f \in Nat /\ f + 1 <= last_frame
  BY <1>0, <1>1 DEF FreeWindow
<1>3. UNCHANGED <<going, pc, npages, i, j>>
  BY DEF AllocOneFrame
<1>4. /\ allocated' \in [Frame -> BOOLEAN] /\ not_last' \in [Frame -> BOOLEAN]
      /\ blocks' \subseteq Frame \X (1..last_frame)
      /\ (\A g \in Frame : allocated'[g] <=> g < first_frame \/ g \in Held' \cup going')
      /\ \A b, c \in blocks' : FramesOf(b) \cap FramesOf(c) # {} => b = c
      /\ \A b \in blocks' : FramesOf(b) \subseteq first_frame..(last_frame - 1)
      /\ going' = {} /\ going' \cap Held' = {}
      /\ ChainsRight'
  BY <1>0, <1>1, <1>2, <1>3, TakeRight
<1>5. TypeOK'
  BY <1>0, <1>3, <1>4 DEF TypeOK
<1>6. FramesAccounted'
  BY <1>0, <1>3, <1>4 DEF FramesAccounted
<1> QED
  BY <1>0, <1>3, <1>4, <1>5, <1>6 DEF IInv, ScanRight, FreeRight

LEMMA ScanSucceedsStep == ASSUME IInv, ScanSucceeds PROVE IInv'
<1>0. /\ first_frame \in Nat \ {0} /\ last_frame \in Nat /\ first_frame < last_frame
      /\ MaxPages \in Nat /\ TypeOK /\ ScanRight /\ pc = "scan" /\ j = npages
  BY FrameAssumption DEF IInv, ScanSucceeds
<1>1. Take(i, npages) /\ pc' = "idle" /\ npages' = 0 /\ i' = 0 /\ j' = 0 /\ UNCHANGED going
  BY DEF ScanSucceeds, Return
<1>2. /\ i \in Nat /\ npages \in Nat /\ npages >= 1 /\ first_frame <= i
      /\ i + npages <= last_frame /\ FreeWindow(i, npages)
  BY <1>0 DEF TypeOK, ScanRight
<1>4. /\ allocated' \in [Frame -> BOOLEAN] /\ not_last' \in [Frame -> BOOLEAN]
      /\ blocks' \subseteq Frame \X (1..last_frame)
      /\ (\A g \in Frame : allocated'[g] <=> g < first_frame \/ g \in Held' \cup going')
      /\ \A b, c \in blocks' : FramesOf(b) \cap FramesOf(c) # {} => b = c
      /\ \A b \in blocks' : FramesOf(b) \subseteq first_frame..(last_frame - 1)
      /\ going' = {} /\ going' \cap Held' = {}
      /\ ChainsRight'
  BY <1>0, <1>1, <1>2, TakeRight
<1>5. TypeOK'
  BY <1>0, <1>1, <1>4 DEF TypeOK
<1>6. FramesAccounted'
  BY <1>1, <1>4 DEF FramesAccounted
<1> QED
  BY <1>1, <1>4, <1>5, <1>6 DEF IInv, ScanRight, FreeRight

(* A step that changes neither the bits nor the blocks. *)
LEMMA BitsKept ==
  ASSUME IInv, UNCHANGED <<allocated, not_last, blocks, going>>,
         pc' # "free" => going = {}
  PROVE  FramesAccounted' /\ ChainsRight'
<1>1. Held' = Held
  BY DEF Held
<1> QED
  BY <1>1 DEF IInv, FramesAccounted, ChainsRight

LEMMA AllocMultipleFramesStep ==
  ASSUME IInv, NEW n \in 2..MaxPages, AllocMultipleFrames(n) PROVE IInv'
<1>0. /\ first_frame \in Nat \ {0} /\ last_frame \in Nat /\ first_frame < last_frame
      /\ MaxPages \in Nat /\ MaxPages <= last_frame
      /\ TypeOK /\ pc = "idle" /\ going = {}
  BY FrameAssumption DEF IInv, AllocMultipleFrames, FramesAccounted
<1>1. /\ pc' = "scan" /\ npages' = n /\ i' = first_frame /\ j' = 0
      /\ UNCHANGED <<allocated, not_last, blocks, going>>
  BY DEF AllocMultipleFrames
<1>2. FramesAccounted' /\ ChainsRight'
  BY <1>0, <1>1, BitsKept
<1>3. TypeOK'
  BY <1>0, <1>1 DEF TypeOK, ScanDone, Frame
<1>4. ScanRight'
  BY <1>0, <1>1 DEF ScanRight, FreeWindow
<1> QED
  BY <1>1, <1>2, <1>3, <1>4 DEF IInv, FreeRight

LEMMA ScanTurnStep == ASSUME IInv, ScanTurn PROVE IInv'
<1>0. /\ first_frame \in Nat \ {0} /\ last_frame \in Nat /\ first_frame < last_frame
      /\ MaxPages \in Nat /\ MaxPages <= last_frame
      /\ TypeOK /\ ScanRight /\ pc = "scan" /\ ~ScanDone /\ going = {}
  BY FrameAssumption DEF IInv, ScanTurn, FramesAccounted
<1>1. UNCHANGED <<allocated, not_last, blocks, going, pc, npages>>
  BY DEF ScanTurn
<1>2. FramesAccounted' /\ ChainsRight'
  BY <1>0, <1>1, BitsKept
<1>3. /\ i \in Nat /\ j \in Nat /\ npages \in Nat /\ npages <= MaxPages
      /\ i < last_frame - npages /\ j < npages /\ i >= first_frame
  BY <1>0 DEF TypeOK, ScanDone, ScanRight
<1>4. CASE allocated[i + j]
  <2>1. i' = i + j + 1 /\ j' = 0
    BY <1>4 DEF ScanTurn
  <2>2. i' + j' <= last_frame /\ i' \in 0..last_frame /\ j' \in 0..npages
    BY <1>3, <1>0, <2>1
  <2>3. TypeOK'
    BY <1>0, <1>1, <1>3, <2>1, <2>2 DEF TypeOK, ScanDone, Frame
  <2>4. \A f \in first_frame..(i' - 1) : ~FreeWindow(f, npages)
    <3> SUFFICES ASSUME NEW f \in first_frame..(i + j), FreeWindow(f, npages) PROVE FALSE
      BY <2>1, <1>3, <1>0
    <3>1. CASE f \in first_frame..(i - 1)
      BY <3>1, <1>0 DEF ScanRight
    <3>2. CASE f \in i..(i + j)
      <4>1. i + j \in f..(f + npages - 1)
        BY <3>2, <1>3
      <4> QED
        BY <4>1, <1>4 DEF FreeWindow
    <3> QED
      BY <3>1, <3>2, <1>3, <1>0
  <2>5. ScanRight'
    BY <1>0, <1>1, <1>3, <2>1, <2>2, <2>4 DEF ScanRight, FreeWindow
  <2> QED
    BY <1>0, <1>1, <1>2, <2>3, <2>5 DEF IInv, FreeRight
<1>5. CASE ~allocated[i + j]
  <2>1. i' = i /\ j' = j + 1
    BY <1>5 DEF ScanTurn
  <2>2. i' + j' <= last_frame /\ j' \in 0..npages
    BY <1>3, <1>0, <2>1
  <2>3. TypeOK'
    BY <1>0, <1>1, <1>3, <2>1, <2>2 DEF TypeOK, ScanDone, Frame
  <2>4. \A g \in i..(i + j) : ~allocated[g]
    BY <1>0, <1>3, <1>5 DEF ScanRight, FreeWindow
  <2>5. ScanRight'
    BY <1>0, <1>1, <1>3, <2>1, <2>2, <2>4 DEF ScanRight, FreeWindow
  <2> QED
    BY <1>0, <1>1, <1>2, <2>3, <2>5 DEF IInv, FreeRight
<1> QED
  BY <1>4, <1>5

LEMMA ScanFailsStep == ASSUME IInv, ScanFails PROVE IInv'
<1>0. TypeOK /\ pc = "scan" /\ going = {} /\ MaxPages \in Nat /\ last_frame \in Nat
  BY FrameAssumption DEF IInv, ScanFails, FramesAccounted
<1>1. /\ pc' = "idle" /\ npages' = 0 /\ i' = 0 /\ j' = 0
      /\ UNCHANGED <<allocated, not_last, blocks, going>>
  BY DEF ScanFails, Return
<1>2. FramesAccounted' /\ ChainsRight'
  BY <1>0, <1>1, BitsKept
<1>3. TypeOK'
  BY <1>0, <1>1 DEF TypeOK
<1> QED
  BY <1>1, <1>2, <1>3 DEF IInv, ScanRight, FreeRight

LEMMA FreeDoneStep == ASSUME IInv, FreeDone PROVE IInv'
<1>0. /\ TypeOK /\ FreeRight /\ pc = "free" /\ ~allocated[i]
      /\ FramesAccounted /\ MaxPages \in Nat /\ last_frame \in Nat
  BY FrameAssumption DEF IInv, FreeDone
<1>1. /\ pc' = "idle" /\ npages' = 0 /\ i' = 0 /\ j' = 0
      /\ UNCHANGED <<allocated, not_last, blocks, going>>
  BY DEF FreeDone, Return
<1>2. going = {}
  <2>1. ASSUME NEW e \in Frame, i <= e, going = i..e PROVE FALSE
    <3>1. i \in going /\ i \in Frame
      BY <2>1, <1>0 DEF TypeOK, Frame
    <3> QED
      BY <3>1, <1>0 DEF FramesAccounted
  <2> QED
    BY <2>1, <1>0 DEF FreeRight
<1>3. FramesAccounted' /\ ChainsRight'
  BY <1>1, <1>2, BitsKept
<1>4. TypeOK'
  BY <1>0, <1>1 DEF TypeOK
<1> QED
  BY <1>1, <1>3, <1>4 DEF IInv, ScanRight, FreeRight

LEMMA FreeFramesStep ==
  ASSUME IInv, NEW b \in blocks, FreeFrames(b) PROVE IInv'
<1>0. /\ first_frame \in Nat \ {0} /\ last_frame \in Nat /\ first_frame < last_frame
      /\ MaxPages \in Nat /\ TypeOK /\ FramesAccounted /\ ChainsRight
      /\ pc = "idle" /\ going = {}
  BY FrameAssumption DEF IInv, FreeFrames, FramesAccounted
<1>1. /\ pc' = "free" /\ i' = b[1]
      /\ blocks' = blocks \ {b} /\ going' = FramesOf(b)
      /\ UNCHANGED <<allocated, not_last, npages, j>>
  BY DEF FreeFrames
<1>2. b[1] \in Frame /\ b[2] \in 1..last_frame /\ b[1] \in Nat /\ b[2] \in Nat
  BY <1>0 DEF TypeOK, Frame
<1>3. FramesOf(b) = b[1]..(b[1] + b[2] - 1) /\ FramesOf(b) \subseteq first_frame..(last_frame - 1)
  BY <1>0 DEF FramesOf, FramesAccounted
<1>4. \A g : g \in Held <=> g \in Held' \/ g \in FramesOf(b)
  BY <1>1 DEF Held
<1>5. FramesOf(b) \cap Held' = {}
  <2> SUFFICES ASSUME NEW c \in blocks, c # b, NEW g \in FramesOf(b), g \in FramesOf(c)
               PROVE  FALSE
    BY <1>1 DEF Held
  <2> QED
    BY <1>0 DEF FramesAccounted
<1>6. TypeOK'
  BY <1>0, <1>1, <1>2, <1>3 DEF TypeOK, Frame
<1>7. FramesAccounted'
  BY <1>0, <1>1, <1>4, <1>5 DEF FramesAccounted
<1>8. ChainsRight'
  BY <1>0, <1>1 DEF ChainsRight
<1>9. FreeRight'
  <2> DEFINE e == b[1] + b[2] - 1
  <2>1. e \in FramesOf(b) /\ e \in Frame /\ b[1] <= e
    BY <1>0, <1>2, <1>3 DEF Frame
  <2>2. \A f \in FramesOf(b) : not_last[f] <=> f # e
    BY <1>0 DEF ChainsRight
  <2> HIDE DEF e
  <2>3. FramesOf(b) = b[1]..e
    BY <1>3 DEF e
  <2> QED
    BY <1>1, <2>1, <2>2, <2>3 DEF FreeRight
<1> QED
  BY <1>1, <1>6, <1>7, <1>8, <1>9 DEF IInv, ScanRight

LEMMA FreeTurnStep == ASSUME IInv, FreeTurn PROVE IInv'
<1>0. /\ first_frame \in Nat \ {0} /\ last_frame \in Nat /\ first_frame < last_frame
      /\ MaxPages \in Nat /\ TypeOK /\ FramesAccounted /\ ChainsRight /\ FreeRight
      /\ pc = "free" /\ allocated[i] /\ i \in Frame /\ i \in Nat
  BY FrameAssumption DEF IInv, FreeTurn, TypeOK, Frame
<1>1. /\ allocated' = [allocated EXCEPT ![i] = FALSE]
      /\ i' = (IF not_last[i] THEN i + 1 ELSE i) /\ going' = going \ {i}
      /\ UNCHANGED <<not_last, blocks, pc, npages, j>>
  BY DEF FreeTurn
<1>2. PICK e \in Frame : /\ i <= e /\ going = i..e
                         /\ \A f \in going : not_last[f] <=> f # e
  BY <1>0 DEF FreeRight
<1>3. e \in Nat /\ i \in going /\ (not_last[i] <=> i # e) /\ e < last_frame
  BY <1>0, <1>2 DEF Frame
<1>4. Held' = Held /\ i \notin Held
  BY <1>0, <1>1, <1>3 DEF Held, FramesAccounted
<1>5. TypeOK'
  BY <1>0, <1>1, <1>2, <1>3 DEF TypeOK, Frame
<1>6. FramesAccounted'
  <2>1. \A f \in Frame : allocated'[f] <=> f < first_frame \/ f \in Held' \cup going'
    <3> TAKE f \in Frame
    <3>1. CASE f = i
      <4>1. ~(i < first_frame)
        BY <1>0, <1>3 DEF FramesAccounted
      <4> QED
        BY <4>1, <3>1, <1>0, <1>1, <1>4 DEF TypeOK
    <3>2. CASE f # i
      <4>1. allocated'[f] = allocated[f]
        BY <3>2, <1>0, <1>1 DEF TypeOK
      <4> QED
        BY <4>1, <3>2, <1>0, <1>1, <1>4 DEF FramesAccounted
    <3> QED
      BY <3>1, <3>2
  <2> QED
    BY <2>1, <1>0, <1>1, <1>4 DEF FramesAccounted
<1>7. ChainsRight'
  BY <1>0, <1>1 DEF ChainsRight
<1>8. FreeRight'
  <2>1. CASE i = e
    BY <2>1, <1>0, <1>1, <1>2, <1>3 DEF FreeRight, TypeOK
  <2>2. CASE i # e
    <3>1. i' = i + 1 /\ i + 1 <= e /\ going' = (i + 1)..e
      BY <2>2, <1>0, <1>1, <1>2, <1>3
    <3> QED
      BY <3>1, <1>0, <1>1, <1>2, <1>3 DEF FreeRight
  <2> QED
    BY <2>1, <2>2
<1> QED
  BY <1>0, <1>1, <1>5, <1>6, <1>7, <1>8 DEF IInv, ScanRight

LEMMA NextIInv == IInv /\ [Next]_vars => IInv'
<1> SUFFICES ASSUME IInv, [Next]_vars PROVE IInv'
  OBVIOUS
<1>1. CASE AllocOneFrame
  BY <1>1, AllocOneFrameStep
<1>2. ASSUME NEW n \in 2..MaxPages, AllocMultipleFrames(n) PROVE IInv'
  BY <1>2, AllocMultipleFramesStep
<1>3. ASSUME NEW b \in blocks, FreeFrames(b) PROVE IInv'
  BY <1>3, FreeFramesStep
<1>4. CASE ScanTurn
  BY <1>4, ScanTurnStep
<1>5. CASE ScanSucceeds
  BY <1>5, ScanSucceedsStep
<1>6. CASE ScanFails
  BY <1>6, ScanFailsStep
<1>7. CASE FreeTurn
  BY <1>7, FreeTurnStep
<1>8. CASE FreeDone
  BY <1>8, FreeDoneStep
<1>9. CASE UNCHANGED vars
  BY <1>9 DEF vars, IInv, TypeOK, ScanDone, FramesAccounted, Held, ChainsRight,
              ScanRight, FreeWindow, FreeRight
<1> QED
  BY <1>1, <1>2, <1>3, <1>4, <1>5, <1>6, <1>7, <1>8, <1>9 DEF Next, Section

(* The invariant of the allocator: bits, chains and both loops.            *)
THEOREM Invariance == Spec => []IInv
  BY InitIInv, NextIInv, PTL DEF Spec

(* The allocator's state is well typed, and neither loop ever leaves the   *)
(* frame table.                                                            *)
THEOREM TypeCorrect == Spec => []TypeOK
<1>1. IInv => TypeOK
  BY DEF IInv
<1> QED
  BY <1>1, Invariance, PTL

(* No frame is given out twice, freed with another block, or lost.         *)
THEOREM NoFrameLostOrShared == Spec => []FramesAccounted
<1>1. IInv => FramesAccounted
  BY DEF IInv
<1> QED
  BY <1>1, Invariance, PTL

(* alloc_multiple_frames is first fit, up to the last frame.               *)
THEOREM ScanIsFirstFit == Spec => []FirstFit
<1>1. IInv => FirstFit
  <2> SUFFICES ASSUME IInv, pc = "scan", ScanDone
               PROVE  /\ j = npages => FreeWindow(i, npages) /\ i + npages <= last_frame
                      /\ \A f \in first_frame..(last_frame - npages - 1) :
                           FreeWindow(f, npages) => j = npages /\ i <= f
    BY DEF FirstFit
  <2>1. /\ i \in Nat /\ j \in Nat /\ npages \in Nat /\ j <= npages
        /\ first_frame \in Nat /\ last_frame \in Nat /\ MaxPages \in Nat
        /\ i >= first_frame /\ i + j <= last_frame /\ FreeWindow(i, j)
        /\ \A f \in first_frame..(i - 1) : ~FreeWindow(f, npages)
    BY FrameAssumption DEF IInv, TypeOK, ScanRight
  <2>2. ASSUME NEW f \in first_frame..(last_frame - npages - 1), FreeWindow(f, npages)
        PROVE  j = npages /\ i <= f
    <3>1. i <= f
      BY <2>1, <2>2
    <3>2. j >= npages
      BY <2>1, <3>1 DEF ScanDone
    <3> QED
      BY <2>1, <3>1, <3>2
  <2> QED
    BY <2>1, <2>2
<1> QED
  BY <1>1, Invariance, PTL
=============================================================================
