-------------------------- MODULE Processes_proofs --------------------------
(***************************************************************************)
(* Proofs about Processes, for every table size, pid range and set of      *)
(* struct procs.                                                           *)
(***************************************************************************)
EXTENDS Processes, TLAPS, FiniteSetTheorems, NaturalsInduction, WellFoundedInduction

AllPid == Pid \cup {INVALID_PID, KERNEL_PID}

(* The hash of a pid is a slot. *)
LEMMA SlotType ==
  ASSUME NEW pid \in AllPid
  PROVE  Slot(pid) \in Slots
  BY TableAssumption, SMT DEF AllPid, Pid, Slots, Slot, INVALID_PID, KERNEL_PID, PID_MIN

(* inc_nextpid, however often, yields a pid. *)
LEMMA AdvanceType ==
  ASSUME NEW n \in Pid, NEW k \in Nat
  PROVE  Advance(n, k) \in Pid
<1>1. \A m, x \in Nat : m > 0 => x % m \in Nat /\ x % m < m
  BY SMT
<1>2. /\ PID_MAX - PID_MIN + 1 \in Nat /\ PID_MAX - PID_MIN + 1 > 0
      /\ n - PID_MIN + k \in Nat
  BY TableAssumption DEF Pid, PID_MIN, KERNEL_PID
<1>3. \A y \in Nat : y < PID_MAX - PID_MIN + 1 => PID_MIN + y \in Pid
  BY TableAssumption DEF Pid, PID_MIN, KERNEL_PID
<1> QED BY <1>1, <1>2, <1>3, Zenon DEF Advance

-----------------------------------------------------------------------------
(* The invariant holds initially. *)
LEMMA InitIInv == Init => IInv
<1> SUFFICES ASSUME Init PROVE IInv
  OBVIOUS
<1> USE DEF INVALID_PID, KERNEL_PID, PID_MIN
<1>1. 1 \in Slots /\ Slot(1) = 1
  BY TableAssumption, SMT DEF Slots, Slot
<1>2. TypeOK
  <2>1. PID_MIN \in Pid
    BY TableAssumption DEF Pid
  <2> QED BY <1>1, <2>1, ProcAssumption DEF Init, TypeOK, Info, NewInfo, Null
<1>3. SlotsRight
  BY <1>1 DEF Init, SlotsRight, NewInfo, Null
<1>4. ProcsRight
  BY <1>1, ProcAssumption DEF Init, ProcsRight, NewInfo, Null, Entry, Alive
<1>5. ParentsRight
  BY <1>1 DEF Init, ParentsRight, NewInfo, Null, Entry
<1>6. ForkersRight
  BY DEF Init, ForkersRight, Forking
<1>7. KidsRight
  BY <1>1, ProcAssumption DEF Init, KidsRight, NewInfo, Null, Alive
<1>8. SleepersRight
  BY DEF Init, SleepersRight, Asleep
<1> QED BY <1>2, <1>3, <1>4, <1>5, <1>6, <1>7, <1>8 DEF IInv

-----------------------------------------------------------------------------
(* Steps that leave the table alone. *)

LEMMA AsCopyStep ==
  ASSUME IInv, NEW p \in Proc, AsCopy(p)
  PROVE  IInv'
<1> USE DEF INVALID_PID, KERNEL_PID, PID_MIN
<1>1. TypeOK'
  <2> USE DEF IInv, TypeOK, AsCopy, Acquire
  <2>1. owns' \in [Proc -> SUBSET Object]
    OBVIOUS
  <2>2. live' \in [Object -> Int]
    BY DEF Object
  <2>3. pc' \in [Proc -> {"free", "embryo", "running", "as_copy", "filetable_copy",
                     "thread_fork", "prog_thread_fork", "runprogram", "waiting",
                     "woken", "copyout", "exited"}]
    OBVIOUS
  <2> QED BY <2>1, <2>2, <2>3
<1>2. SlotsRight'
  BY DEF IInv, SlotsRight, Slots, AsCopy, Acquire
<1>3. ProcsRight'
  BY DEF IInv, TypeOK, ProcsRight, Entry, Alive, AsCopy, Acquire
<1>4. ParentsRight'
  BY DEF IInv, TypeOK, ParentsRight, Entry, Alive, AsCopy, Acquire
<1>5. ForkersRight'
  BY DEF IInv, TypeOK, ProcsRight, ForkersRight, Forking, Entry, AsCopy, Acquire
<1>6. KidsRight'
  BY DEF IInv, TypeOK, KidsRight, Forking, Alive, Entry, AsCopy, Acquire
<1>7. SleepersRight'
  BY DEF IInv, TypeOK, SleepersRight, Asleep, Entry, AsCopy, Acquire
<1> QED BY <1>1, <1>2, <1>3, <1>4, <1>5, <1>6, <1>7 DEF IInv

LEMMA FiletableCopyStep ==
  ASSUME IInv, NEW p \in Proc, FiletableCopy(p)
  PROVE  IInv'
<1> USE DEF INVALID_PID, KERNEL_PID, PID_MIN
<1>1. TypeOK'
  <2> USE DEF IInv, TypeOK, FiletableCopy, Acquire
  <2>1. owns' \in [Proc -> SUBSET Object]
    OBVIOUS
  <2>2. live' \in [Object -> Int]
    BY DEF Object
  <2>3. pc' \in [Proc -> {"free", "embryo", "running", "as_copy", "filetable_copy",
                     "thread_fork", "prog_thread_fork", "runprogram", "waiting",
                     "woken", "copyout", "exited"}]
    OBVIOUS
  <2> QED BY <2>1, <2>2, <2>3
<1>2. SlotsRight'
  BY DEF IInv, SlotsRight, Slots, FiletableCopy, Acquire
<1>3. ProcsRight'
  BY DEF IInv, TypeOK, ProcsRight, Entry, Alive, FiletableCopy, Acquire
<1>4. ParentsRight'
  BY DEF IInv, TypeOK, ParentsRight, Entry, Alive, FiletableCopy, Acquire
<1>5. ForkersRight'
  BY DEF IInv, TypeOK, ProcsRight, ForkersRight, Forking, Entry, FiletableCopy, Acquire
<1>6. KidsRight'
  BY DEF IInv, TypeOK, KidsRight, Forking, Alive, Entry, FiletableCopy, Acquire
<1>7. SleepersRight'
  BY DEF IInv, TypeOK, SleepersRight, Asleep, Entry, FiletableCopy, Acquire
<1> QED BY <1>1, <1>2, <1>3, <1>4, <1>5, <1>6, <1>7 DEF IInv

LEMMA RunprogramStep ==
  ASSUME IInv, NEW p \in Proc, Runprogram(p)
  PROVE  IInv'
<1> USE DEF INVALID_PID, KERNEL_PID, PID_MIN
<1>1. TypeOK'
  BY DEF IInv, TypeOK, Object, Runprogram, Acquire
<1>2. SlotsRight'
  BY DEF IInv, SlotsRight, Slots, Runprogram, Acquire
<1>3. ProcsRight'
  BY DEF IInv, TypeOK, ProcsRight, Entry, Alive, Runprogram, Acquire
<1>4. ParentsRight'
  BY DEF IInv, TypeOK, ParentsRight, Entry, Alive, Runprogram, Acquire
<1>5. ForkersRight'
  BY DEF IInv, TypeOK, ProcsRight, ForkersRight, Forking, Entry, Runprogram, Acquire
<1>6. KidsRight'
  BY DEF IInv, TypeOK, KidsRight, Forking, Alive, Entry, Runprogram, Acquire
<1>7. SleepersRight'
  BY DEF IInv, TypeOK, SleepersRight, Asleep, Entry, Runprogram, Acquire
<1> QED BY <1>1, <1>2, <1>3, <1>4, <1>5, <1>6, <1>7 DEF IInv

LEMMA WaitReturnsStep ==
  ASSUME IInv, NEW p \in Proc, WaitReturns(p)
  PROVE  IInv'
<1> USE DEF INVALID_PID, KERNEL_PID, PID_MIN
<1>1. TypeOK'
  BY DEF IInv, TypeOK, Object, WaitReturns
<1>2. SlotsRight'
  BY DEF IInv, SlotsRight, Slots, WaitReturns
<1>3. ProcsRight'
  BY DEF IInv, TypeOK, ProcsRight, Entry, Alive, WaitReturns
<1>4. ParentsRight'
  BY DEF IInv, TypeOK, ParentsRight, Entry, Alive, WaitReturns
<1>5. ForkersRight'
  BY DEF IInv, TypeOK, ProcsRight, ForkersRight, Forking, Entry, WaitReturns
<1>6. KidsRight'
  BY DEF IInv, TypeOK, KidsRight, Forking, Alive, Entry, WaitReturns
<1>7. SleepersRight'
  BY DEF IInv, TypeOK, SleepersRight, Asleep, Entry, WaitReturns
<1> QED BY <1>1, <1>2, <1>3, <1>4, <1>5, <1>6, <1>7 DEF IInv

LEMMA ProcExitDestroyStep ==
  ASSUME IInv, NEW p \in Proc, ProcExitDestroy(p)
  PROVE  IInv'
<1> USE DEF INVALID_PID, KERNEL_PID, PID_MIN
<1>1. TypeOK'
  BY DEF IInv, TypeOK, Object, ProcExitDestroy, ProcDestroy, Release
<1>2. SlotsRight'
  BY DEF IInv, SlotsRight, Slots, ProcExitDestroy, ProcDestroy, Release
<1>3. ProcsRight'
  BY DEF IInv, TypeOK, ProcsRight, Entry, Alive, ProcExitDestroy, ProcDestroy, Release
<1>4. ParentsRight'
  BY DEF IInv, TypeOK, ParentsRight, Entry, Alive, ProcExitDestroy, ProcDestroy, Release
<1>5. ForkersRight'
  BY DEF IInv, TypeOK, ProcsRight, ForkersRight, Forking, Entry, ProcExitDestroy, ProcDestroy, Release
<1>6. KidsRight'
  BY DEF IInv, TypeOK, KidsRight, Forking, Alive, Entry, ProcExitDestroy, ProcDestroy, Release
<1>7. SleepersRight'
  BY DEF IInv, TypeOK, SleepersRight, Asleep, Entry, ProcExitDestroy, ProcDestroy, Release
<1> QED BY <1>1, <1>2, <1>3, <1>4, <1>5, <1>6, <1>7 DEF IInv

LEMMA WaitNoHangStep ==
  ASSUME IInv, NEW p \in Proc, NEW pid \in Pid, WaitNoHang(p, pid)
  PROVE  IInv'
<1> USE DEF INVALID_PID, KERNEL_PID, PID_MIN
<1>1. TypeOK'
  BY DEF IInv, TypeOK, Object, WaitNoHang, CanCall
<1>2. SlotsRight'
  BY DEF IInv, SlotsRight, Slots, WaitNoHang, CanCall
<1>3. ProcsRight'
  BY DEF IInv, TypeOK, ProcsRight, Entry, Alive, WaitNoHang, CanCall
<1>4. ParentsRight'
  BY DEF IInv, TypeOK, ParentsRight, Entry, Alive, WaitNoHang, CanCall
<1>5. ForkersRight'
  BY DEF IInv, TypeOK, ProcsRight, ForkersRight, Forking, Entry, WaitNoHang, CanCall
<1>6. KidsRight'
  BY DEF IInv, TypeOK, KidsRight, Forking, Alive, Entry, WaitNoHang, CanCall
<1>7. SleepersRight'
  BY DEF IInv, TypeOK, SleepersRight, Asleep, Entry, WaitNoHang, CanCall
<1> QED BY <1>1, <1>2, <1>3, <1>4, <1>5, <1>6, <1>7 DEF IInv

LEMMA PidAllocNoMemoryStep ==
  ASSUME IInv, NEW p \in Proc, PidAllocNoMemory(p)
  PROVE  IInv'
<1> USE DEF INVALID_PID, KERNEL_PID, PID_MIN
<1>1. TypeOK'
  BY AdvanceType DEF IInv, TypeOK, Object, PidAllocNoMemory
<1>2. SlotsRight'
  BY DEF IInv, SlotsRight, Slots, PidAllocNoMemory
<1>3. ProcsRight'
  BY DEF IInv, TypeOK, ProcsRight, Entry, Alive, PidAllocNoMemory
<1>4. ParentsRight'
  BY DEF IInv, TypeOK, ParentsRight, Entry, Alive, PidAllocNoMemory
<1>5. ForkersRight'
  BY DEF IInv, TypeOK, ProcsRight, ForkersRight, Forking, Entry, PidAllocNoMemory
<1>6. KidsRight'
  BY DEF IInv, TypeOK, KidsRight, Forking, Alive, Entry, PidAllocNoMemory
<1>7. SleepersRight'
  BY DEF IInv, TypeOK, SleepersRight, Asleep, Entry, PidAllocNoMemory
<1> QED BY <1>1, <1>2, <1>3, <1>4, <1>5, <1>6, <1>7 DEF IInv

(* pid_wait's checks leave only a child the caller was told of. *)
LEMMA WaitTarget ==
  ASSUME IInv, NEW p \in Proc, NEW pid \in Pid, pc[p] = "running", ~WaitFails(p, pid)
  PROVE  /\ Slot(pid) \in Slots
         /\ pi_get(pid) = Entry(pid)
         /\ Entry(pid).pid = pid
         /\ Entry(pid).ppid = p_pid[p]
         /\ pid \in kids[p]
<1>1. Slot(pid) \in Slots
  BY SlotType DEF AllPid
<1>2. Alive(p) /\ p_pid[p] # INVALID_PID /\ ~Forking(p)
  BY DEF IInv, ProcsRight, Alive, Forking
<1>3. Null.ppid = INVALID_PID
  BY DEF Null, NewInfo
<1>4. pi_get(pid) = Entry(pid) /\ Entry(pid).pid = pid /\ Entry(pid).ppid = p_pid[p]
  BY <1>2, <1>3 DEF WaitFails, pi_get, Entry
<1>5. pid \in kids[p]
  BY <1>1, <1>2, <1>4 DEF IInv, KidsRight, Entry
<1> QED BY <1>1, <1>4, <1>5

LEMMA WaitSleepStep ==
  ASSUME IInv, NEW p \in Proc, NEW pid \in Pid, WaitSleep(p, pid)
  PROVE  IInv'
<1> USE DEF INVALID_PID, KERNEL_PID, PID_MIN
<1>0. /\ pid \in kids[p] /\ ~Entry(pid).exited
  BY WaitTarget DEF WaitSleep, CanCall
<1>1. TypeOK'
  BY DEF IInv, TypeOK, WaitSleep
<1>2. SlotsRight'
  BY DEF IInv, SlotsRight, Slots, WaitSleep
<1>3. ProcsRight'
  BY DEF IInv, TypeOK, ProcsRight, Entry, Alive, WaitSleep, CanCall
<1>4. ParentsRight'
  BY DEF IInv, TypeOK, ParentsRight, Entry, Alive, WaitSleep, CanCall
<1>5. ForkersRight'
  BY DEF IInv, TypeOK, ProcsRight, ForkersRight, Forking, Entry, WaitSleep, CanCall
<1>6. KidsRight'
  BY DEF IInv, TypeOK, KidsRight, Forking, Alive, Entry, WaitSleep, CanCall
<1>7. SleepersRight'
  BY <1>0 DEF IInv, TypeOK, SleepersRight, Asleep, Entry, WaitSleep
<1> QED BY <1>1, <1>2, <1>3, <1>4, <1>5, <1>6, <1>7 DEF IInv

(* A forker's embryo has a pid and an entry that names the forker. *)
LEMMA ForkerFacts ==
  ASSUME IInv, NEW p \in Proc, Forking(p)
  PROVE  LET q == newproc[p]
         IN  /\ q \in Proc /\ pc[q] = "embryo" /\ q # p /\ q # kproc
             /\ Alive(p) /\ Alive(q)
             /\ p_pid[p] # INVALID_PID /\ p_pid[q] # INVALID_PID /\ p_pid[q] \in Pid
             /\ Entry(p_pid[q]).pid = p_pid[q] /\ Entry(p_pid[q]).ppid = p_pid[p]
<1> DEFINE q == newproc[p]
<1>1. q \in Proc /\ pc[q] = "embryo" /\ Entry(p_pid[q]).ppid = p_pid[p]
  BY DEF IInv, ForkersRight
<1>2. q # p /\ Alive(p) /\ Alive(q)
  BY <1>1 DEF Forking, Alive
<1>3. p_pid[p] # INVALID_PID /\ p_pid[q] # INVALID_PID /\ Entry(p_pid[q]).pid = p_pid[q]
  BY <1>1, <1>2 DEF IInv, ProcsRight
<1>4. p_pid[q] # KERNEL_PID /\ q # kproc
  BY <1>1, <1>3 DEF IInv, ProcsRight, ParentsRight
<1>5. p_pid[q] \in Pid
  BY <1>1, <1>3, <1>4 DEF IInv, TypeOK
<1> QED BY <1>1, <1>2, <1>3, <1>4, <1>5

(* The fork succeeds: the embryo becomes a child its parent knows of. *)
LEMMA ChildRunsStep ==
  ASSUME IInv, NEW p \in Proc, Forking(p), NEW as \in {"running", "runprogram"},
         ChildRuns(p, as)
  PROVE  IInv'
<1> USE DEF INVALID_PID, KERNEL_PID, PID_MIN
<1> DEFINE q == newproc[p]
<1>0. /\ q \in Proc /\ pc[q] = "embryo" /\ q # p /\ q # kproc
      /\ p_pid[q] \in Pid
      /\ Entry(p_pid[q]).pid = p_pid[q] /\ Entry(p_pid[q]).ppid = p_pid[p]
  BY ForkerFacts
<1> HIDE DEF q
<1>a. /\ kids' = [kids EXCEPT ![p] = kids[p] \cup {p_pid[q]}]
      /\ pc' = [pc EXCEPT ![p] = "running", ![q] = as]
      /\ newproc' = [newproc EXCEPT ![p] = NoProc]
      /\ UNCHANGED <<pidinfo, nextpid, nprocs, p_pid, them, reply, owns, live>>
  BY DEF ChildRuns, q
<1>1. TypeOK'
  BY <1>0, <1>a DEF IInv, TypeOK
<1>2. SlotsRight'
  BY <1>a DEF IInv, SlotsRight, Slots
<1>b. \A r \in Proc : Alive(r)' <=> Alive(r)
  BY <1>0, <1>a DEF IInv, TypeOK, Alive, Forking
<1>c. \A r \in Proc : Forking(r)' <=> Forking(r) /\ r # p
  BY <1>0, <1>a DEF IInv, TypeOK, Forking
<1>3. ProcsRight'
  BY <1>a, <1>b DEF IInv, ProcsRight, Entry
<1>4. ParentsRight'
  BY <1>a, <1>b DEF IInv, ParentsRight, Entry
<1>5. ForkersRight'
  <2> SUFFICES ASSUME NEW r \in Proc, Forking(r)'
               PROVE  (/\ newproc[r] \in Proc
                       /\ pc[newproc[r]] = "embryo"
                       /\ Entry(p_pid[newproc[r]]).ppid = p_pid[r]
                       /\ p_pid[newproc[r]] \notin kids[r])'
    BY DEF ForkersRight
  <2>1. Forking(r) /\ r # p
    BY <1>c
  <2>2. newproc'[r] = newproc[r] /\ kids'[r] = kids[r]
    BY <2>1, <1>a DEF IInv, TypeOK
  <2>3. newproc[r] # q
    BY <2>1, <1>0 DEF IInv, ForkersRight, ProcsRight, Alive, Forking
  <2>4. newproc[r] # p
    BY <2>1 DEF IInv, ForkersRight, Forking
  <2>5. newproc[r] \in Proc /\ pc'[newproc[r]] = pc[newproc[r]]
    BY <2>1, <2>3, <2>4, <1>a DEF IInv, TypeOK, ForkersRight
  <2> QED BY <2>1, <2>2, <2>5, <1>a DEF IInv, ForkersRight, Entry
<1>6. KidsRight'
  <2>1. \A r \in Proc : pc'[r] \in {"free", "embryo", "exited"} => kids'[r] = {}
    BY <1>0, <1>a DEF IInv, TypeOK, KidsRight
  <2>2. \A r \in Proc : \A c \in kids'[r] : Entry(c).pid = c /\ Entry(c).ppid = p_pid[r]
    BY <1>0, <1>a DEF IInv, TypeOK, KidsRight
  <2>3. \A r \in Proc : Alive(r) =>
          \A i \in Slots : pidinfo[i].ppid = p_pid[r] =>
            \/ pidinfo[i].pid \in kids'[r]
            \/ Forking(r)' /\ pidinfo[i].pid = p_pid[newproc'[r]]
    BY <1>0, <1>a, <1>c DEF IInv, TypeOK, KidsRight, q
  <2> QED BY <2>1, <2>2, <2>3, <1>a, <1>b DEF KidsRight, Entry
<1>7. SleepersRight'
  BY <1>0, <1>a DEF IInv, TypeOK, SleepersRight, Asleep, Entry, Forking
<1> QED BY <1>1, <1>2, <1>3, <1>4, <1>5, <1>6, <1>7 DEF IInv

-----------------------------------------------------------------------------
(* Steps that change the table. *)

(* A new pid is nobody's, and nobody's parent. *)
LEMMA PidAllocStep ==
  ASSUME IInv, NEW p \in Proc, NEW q \in Proc,
         NEW then \in {"as_copy", "prog_thread_fork"}, PidAlloc(p, q, then)
  PROVE  IInv'
<1> USE DEF INVALID_PID, KERNEL_PID, PID_MIN
<1>k. PICK k \in 0..ScanLimit :
        /\ ScanStops(k)
        /\ pidinfo' = [pidinfo EXCEPT ![Slot(Advance(nextpid, k))] =
                          NewInfo(Advance(nextpid, k), p_pid[p])]
        /\ p_pid' = [p_pid EXCEPT ![q] = Advance(nextpid, k)]
        /\ nextpid' = Advance(nextpid, k + 1)
  BY DEF PidAlloc
<1> DEFINE pid == Advance(nextpid, k)
           s == Slot(pid)
           new == NewInfo(pid, p_pid[p])
<1>n. k \in Nat /\ k + 1 \in Nat
  BY TableAssumption DEF ScanLimit
<1>t. pid \in Pid /\ nextpid' \in Pid
  BY <1>k, <1>n, AdvanceType DEF IInv, TypeOK
<1>s. s \in Slots
  BY <1>t, SlotType DEF AllPid
<1>f. pidinfo[s] = Null /\ Null.pid = 0 /\ Null.ppid = 0
  BY <1>k DEF ScanStops, Null, NewInfo
<1>w. new.pid = pid /\ new.ppid = p_pid[p] /\ ~new.exited /\ new \in Info
  BY <1>t DEF NewInfo, Info, IInv, TypeOK
<1>a. /\ pidinfo' = [pidinfo EXCEPT ![s] = new]
      /\ p_pid' = [p_pid EXCEPT ![q] = pid]
      /\ nprocs' = nprocs + 1
      /\ pc' = [pc EXCEPT ![p] = then, ![q] = "embryo"]
      /\ newproc' = [newproc EXCEPT ![p] = q]
      /\ UNCHANGED <<them, reply, kids, owns, live>>
      /\ pc[p] = "running" /\ pc[q] = "free"
  BY <1>k DEF PidAlloc, CanCall
<1>i. Slot(pid) = s
  OBVIOUS
<1> HIDE DEF pid, s, new
<1>p. pid # 0 /\ pid # 1
  BY <1>t DEF Pid
<1>q. /\ p # q /\ q # kproc /\ Alive(p) /\ ~Alive(q) /\ kids[q] = {} /\ ~Forking(p)
  BY <1>a DEF IInv, ProcsRight, KidsRight, Alive, Forking
<1>z. p_pid[q] = 0 /\ p_pid[p] # 0
  BY <1>q DEF IInv, ProcsRight
<1>x. \A r \in Proc : Alive(r)' <=> Alive(r) \/ r = q
  BY <1>q, <1>a DEF IInv, TypeOK, Alive
<1>y. \A r \in Proc : Alive(r) => p_pid[r] # pid /\ Slot(p_pid[r]) # s
  BY <1>f, <1>i DEF IInv, ProcsRight, Entry
<1>o. \A j \in Slots : pidinfo[j].ppid # pid
  BY <1>y, <1>p DEF IInv, ParentsRight
<1>e. \A r \in Proc : \A c \in kids[r] : c # pid /\ Slot(c) # s
  <2> TAKE r \in Proc
  <2> TAKE c \in kids[r]
  <2>1. Entry(c).pid = c /\ c \in Pid
    BY DEF IInv, TypeOK, KidsRight
  <2>2. c # 0
    BY <2>1 DEF Pid
  <2> QED BY <2>1, <2>2, <1>f, <1>i DEF Entry
<1>1. TypeOK'
  <2> USE <1>a, <1>t, <1>w DEF IInv, TypeOK
  <2>1. pidinfo' \in [Slots -> Info]
    OBVIOUS
  <2>5. nextpid' \in Pid /\ nprocs' \in Int
    OBVIOUS
  <2>2. p_pid' \in [Proc -> Pid \cup {INVALID_PID, KERNEL_PID}]
    OBVIOUS
  <2>3. pc' \in [Proc -> {"free", "embryo", "running", "as_copy", "filetable_copy",
                     "thread_fork", "prog_thread_fork", "runprogram", "waiting",
                     "woken", "copyout", "exited"}]
    OBVIOUS
  <2>4. newproc' \in [Proc -> Proc \cup {NoProc}]
    OBVIOUS
  <2> QED BY <2>1, <2>2, <2>3, <2>4, <2>5
<1>2. SlotsRight'
  BY <1>a, <1>w, <1>p, <1>i DEF IInv, TypeOK, SlotsRight
<1>3. ProcsRight'
  <2>1. p_pid'[kproc] = 1 /\ \A r \in Proc : r # kproc => p_pid'[r] # 1
    BY <1>a, <1>q, <1>p, ProcAssumption DEF IInv, TypeOK, ProcsRight
  <2>2. \A r \in Proc : Alive(r)' <=> p_pid'[r] # 0
    BY <1>a, <1>x, <1>p DEF IInv, TypeOK, ProcsRight
  <2>3. \A r \in Proc : Alive(r)' =>
          pidinfo'[Slot(p_pid'[r])].pid = p_pid'[r] /\ ~pidinfo'[Slot(p_pid'[r])].exited
    <3> TAKE r \in Proc
    <3> HAVE Alive(r)'
    <3>1. CASE r = q
      BY <3>1, <1>a, <1>w, <1>i, <1>s DEF IInv, TypeOK
    <3>2. CASE r # q
      BY <3>2, <1>a, <1>x, <1>y DEF IInv, TypeOK, ProcsRight, Entry
    <3> QED BY <3>1, <3>2
  <2>4. \A r, u \in Proc : Alive(r)' /\ p_pid'[r] = p_pid'[u] => r = u
    BY <1>a, <1>x, <1>y, <1>p DEF IInv, TypeOK, ProcsRight
  <2>5. \A j \in Slots : pidinfo'[j] # Null /\ ~pidinfo'[j].exited =>
          \E r \in Proc : Alive(r)' /\ p_pid'[r] = pidinfo'[j].pid
    <3> TAKE j \in Slots
    <3> HAVE pidinfo'[j] # Null /\ ~pidinfo'[j].exited
    <3>1. CASE j = s
      BY <3>1, <1>a, <1>w, <1>x DEF IInv, TypeOK
    <3>2. CASE j # s
      <4>1. pidinfo'[j] = pidinfo[j]
        BY <3>2, <1>a DEF IInv, TypeOK
      <4>2. PICK r \in Proc : Alive(r) /\ p_pid[r] = pidinfo[j].pid
        BY <4>1 DEF IInv, ProcsRight
      <4>3. r # q
        BY <4>2, <1>q
      <4> QED BY <4>1, <4>2, <4>3, <1>a, <1>x DEF IInv, TypeOK
    <3> QED BY <3>1, <3>2
  <2> QED BY <2>1, <2>2, <2>3, <2>4, <2>5 DEF ProcsRight, Entry
<1>4. ParentsRight'
  <2>1. pidinfo'[Slot(1)].ppid = 0
    <3>1. Slot(1) # s
      BY <1>y, ProcAssumption DEF IInv, ProcsRight
    <3> QED BY <3>1, <1>a DEF IInv, TypeOK, ParentsRight, Entry
  <2>2. \A j \in Slots : pidinfo'[j].exited => pidinfo'[j].ppid # 0
    BY <1>a, <1>w DEF IInv, TypeOK, ParentsRight
  <2>3. \A j \in Slots : pidinfo'[j].ppid # 0 =>
          \E r \in Proc : Alive(r)' /\ p_pid'[r] = pidinfo'[j].ppid
    <3> TAKE j \in Slots
    <3> HAVE pidinfo'[j].ppid # 0
    <3>1. CASE j = s
      BY <3>1, <1>a, <1>w, <1>q, <1>x DEF IInv, TypeOK
    <3>2. CASE j # s
      <4>1. pidinfo'[j] = pidinfo[j]
        BY <3>2, <1>a DEF IInv, TypeOK
      <4>2. PICK r \in Proc : Alive(r) /\ p_pid[r] = pidinfo[j].ppid
        BY <4>1 DEF IInv, ParentsRight
      <4>3. r # q
        BY <4>2, <1>q
      <4> QED BY <4>1, <4>2, <4>3, <1>a, <1>x DEF IInv, TypeOK
    <3> QED BY <3>1, <3>2
  <2>4. \A j \in Slots : pidinfo'[j] # Null => pidinfo'[j].ppid # pidinfo'[j].pid
    BY <1>a, <1>w, <1>q, <1>y DEF IInv, TypeOK, ParentsRight
  <2> QED BY <2>1, <2>2, <2>3, <2>4 DEF ParentsRight, Entry
<1>5. ForkersRight'
  <2> SUFFICES ASSUME NEW r \in Proc, Forking(r)'
               PROVE  (/\ newproc[r] \in Proc
                       /\ pc[newproc[r]] = "embryo"
                       /\ Entry(p_pid[newproc[r]]).ppid = p_pid[r]
                       /\ p_pid[newproc[r]] \notin kids[r])'
    BY DEF ForkersRight
  <2>1. CASE r = p
    <3>1. newproc'[r] = q /\ pc'[q] = "embryo" /\ p_pid'[q] = pid /\ p_pid'[r] = p_pid[p]
      BY <2>1, <1>a, <1>q DEF IInv, TypeOK
    <3>2. pidinfo'[Slot(pid)].ppid = p_pid[p] /\ pid \notin kids'[r]
      BY <1>a, <1>i, <1>s, <1>w, <1>e DEF IInv, TypeOK
    <3> QED BY <3>1, <3>2 DEF Entry
  <2>2. CASE r # p
    <3>1. Forking(r) /\ r # q
      BY <2>2, <1>a DEF IInv, TypeOK, Forking
    <3>2. newproc'[r] = newproc[r] /\ newproc[r] \in Proc /\ newproc[r] # p /\ newproc[r] # q
      BY <2>2, <3>1, <1>a DEF IInv, TypeOK, ForkersRight
    <3>3. /\ pc'[newproc[r]] = "embryo" /\ p_pid'[newproc[r]] = p_pid[newproc[r]]
          /\ p_pid'[r] = p_pid[r]
      BY <3>1, <3>2, <2>2, <1>a DEF IInv, TypeOK, ForkersRight
    <3>4. Alive(newproc[r])
      BY <3>1 DEF IInv, ForkersRight, Alive
    <3>5. pidinfo'[Slot(p_pid[newproc[r]])] = pidinfo[Slot(p_pid[newproc[r]])]
      BY <3>2, <3>4, <1>y, <1>a DEF IInv, TypeOK
    <3> QED BY <3>1, <3>2, <3>3, <3>5, <1>a DEF IInv, ForkersRight, Entry
  <2> QED BY <2>1, <2>2
<1>6. KidsRight'
  <2>1. \A r \in Proc : pc'[r] \in {"free", "embryo", "exited"} => kids'[r] = {}
    BY <1>a, <1>q DEF IInv, TypeOK, KidsRight
  <2>2. \A r \in Proc : \A c \in kids'[r] :
          pidinfo'[Slot(c)].pid = c /\ pidinfo'[Slot(c)].ppid = p_pid'[r]
    <3> TAKE r \in Proc
    <3> TAKE c \in kids'[r]
    <3>1. c \in kids[r] /\ r # q
      BY <1>a, <1>q
    <3>2. pidinfo'[Slot(c)] = pidinfo[Slot(c)] /\ p_pid'[r] = p_pid[r]
      BY <3>1, <1>e, <1>a DEF IInv, TypeOK
    <3> QED BY <3>1, <3>2 DEF IInv, KidsRight, Entry
  <2>3. \A r \in Proc : Alive(r)' =>
          \A i \in Slots : pidinfo'[i].ppid = p_pid'[r] =>
            \/ pidinfo'[i].pid \in kids'[r]
            \/ Forking(r)' /\ pidinfo'[i].pid = p_pid'[newproc'[r]]
    <3> TAKE r \in Proc
    <3> HAVE Alive(r)'
    <3> TAKE i \in Slots
    <3> HAVE pidinfo'[i].ppid = p_pid'[r]
    <3>1. CASE r = q
      <4>1. p_pid'[r] = pid
        BY <3>1, <1>a DEF IInv, TypeOK
      <4>2. i = s
        BY <4>1, <1>o, <1>a DEF IInv, TypeOK
      <4>3. p_pid[p] = pid
        BY <4>1, <4>2, <1>a, <1>w DEF IInv, TypeOK
      <4> QED BY <4>3, <1>q, <1>y
    <3>2. CASE r # q /\ i = s
      <4>1. pidinfo'[i] = new /\ p_pid'[r] = p_pid[r] /\ Alive(r)
        BY <3>2, <1>a, <1>x DEF IInv, TypeOK
      <4>2. r = p
        BY <4>1, <1>q, <1>w DEF IInv, ProcsRight
      <4>3. newproc'[r] = q /\ p_pid'[q] = pid /\ pc'[r] = then
        BY <4>2, <1>a, <1>q DEF IInv, TypeOK
      <4> QED BY <4>1, <4>3, <1>w DEF Forking
    <3>3. CASE r # q /\ i # s
      <4>1. /\ pidinfo'[i] = pidinfo[i] /\ p_pid'[r] = p_pid[r] /\ Alive(r)
            /\ kids'[r] = kids[r]
        BY <3>3, <1>a, <1>x DEF IInv, TypeOK
      <4>2. CASE r = p
        BY <4>1, <4>2, <1>q DEF IInv, KidsRight
      <4>3. CASE r # p
        <5>1. newproc'[r] = newproc[r] /\ (Forking(r)' <=> Forking(r))
          BY <4>3, <3>3, <1>a DEF IInv, TypeOK, Forking
        <5>2. Forking(r) => newproc[r] # q
          BY <1>a DEF IInv, ForkersRight
        <5> QED BY <4>1, <5>1, <5>2, <1>a DEF IInv, TypeOK, KidsRight
      <4> QED BY <4>2, <4>3
    <3> QED BY <3>1, <3>2, <3>3
  <2> QED BY <2>1, <2>2, <2>3 DEF KidsRight, Entry
<1>7. SleepersRight'
  <2> SUFFICES ASSUME NEW r \in Proc, Asleep(r)'
               PROVE  (them[r] \in kids[r] /\ (Entry(them[r]).exited <=> pc[r] = "woken"))'
    BY DEF SleepersRight
  <2>1. Asleep(r) /\ pc'[r] = pc[r]
    BY <1>a, <1>q DEF IInv, TypeOK, Asleep
  <2>2. them[r] \in kids[r]
    BY <2>1 DEF IInv, SleepersRight
  <2>3. pidinfo'[Slot(them[r])] = pidinfo[Slot(them[r])]
    BY <2>2, <1>e, <1>a DEF IInv, TypeOK
  <2> QED BY <2>1, <2>2, <2>3, <1>a DEF IInv, SleepersRight, Entry
<1> QED BY <1>1, <1>2, <1>3, <1>4, <1>5, <1>6, <1>7 DEF IInv

(* A fork that fails gives back a pid nobody else knows. *)
LEMMA ProcUnforkStep ==
  ASSUME IInv, NEW p \in Proc, Forking(p), ProcUnfork(p)
  PROVE  IInv'
<1> USE DEF INVALID_PID, KERNEL_PID, PID_MIN
<1> DEFINE q == newproc[p]
           c == p_pid[q]
           s == Slot(c)
<1>0. /\ q \in Proc /\ pc[q] = "embryo" /\ q # p /\ q # kproc
      /\ Alive(p) /\ Alive(q) /\ p_pid[p] # 0 /\ c # 0 /\ c \in Pid
      /\ Entry(c).pid = c /\ Entry(c).ppid = p_pid[p]
  BY ForkerFacts
<1>s. s \in Slots
  BY <1>0, SlotType DEF AllPid
<1>n. Null \in Info /\ Null.pid = 0 /\ Null.ppid = 0 /\ ~Null.exited
  BY DEF Null, NewInfo, Info
<1>a. /\ pidinfo' = [i \in Slots |-> IF i = s THEN Null ELSE pidinfo[i]]
      /\ nprocs' = nprocs - 1
      /\ p_pid' = [p_pid EXCEPT ![q] = 0]
      /\ pc' = [pc EXCEPT ![p] = "running", ![q] = "free"]
      /\ newproc' = [newproc EXCEPT ![p] = NoProc]
      /\ owns' = [owns EXCEPT ![q] = {}]
      /\ live' = [k \in Object |-> IF k \in owns[q] THEN live[k] - 1 ELSE live[k]]
      /\ UNCHANGED <<nextpid, them, reply, kids>>
  BY DEF ProcUnfork, PidUnalloc, Dropped, ProcDestroy, Release
<1>e. pidinfo[s].pid = c /\ pidinfo[s].ppid = p_pid[p]
  BY <1>0 DEF Entry
<1>f. q = newproc[p] /\ c = p_pid[q] /\ s = Slot(c)
  OBVIOUS
<1>g. c \notin kids[p]
  BY DEF IInv, ForkersRight
<1> HIDE DEF q, c, s
<1>x. \A r \in Proc : Alive(r)' <=> Alive(r) /\ r # q
  BY <1>0, <1>a DEF IInv, TypeOK, Alive, Forking
<1>y. \A r \in Proc : Alive(r) /\ r # q => p_pid[r] # c /\ Slot(p_pid[r]) # s
  BY <1>0, <1>e, <1>f DEF IInv, ProcsRight, Entry
<1>o. \A j \in Slots : pidinfo[j].ppid # c
  BY <1>0, <1>f DEF IInv, KidsRight, Forking
<1>h. \A r \in Proc : \A d \in kids[r] : d # c /\ Slot(d) # s
  <2> TAKE r \in Proc
  <2> TAKE d \in kids[r]
  <2>1. Entry(d).pid = d /\ Entry(d).ppid = p_pid[r]
    BY DEF IInv, KidsRight
  <2>2. CASE Slot(d) = s
    <3>1. d = c /\ p_pid[r] = p_pid[p]
      BY <2>1, <2>2, <1>e DEF Entry
    <3>2. r = p
      BY <3>1, <1>0 DEF IInv, ProcsRight
    <3> QED BY <3>1, <3>2, <1>g
  <2>3. CASE Slot(d) # s
    BY <2>3, <1>f
  <2> QED BY <2>2, <2>3
<1>1. TypeOK'
  <2> USE <1>0, <1>a, <1>n DEF IInv, TypeOK
  <2>1. pidinfo' \in [Slots -> Info]
    OBVIOUS
  <2>2. nextpid' \in Pid /\ nprocs' \in Int
    OBVIOUS
  <2>3. p_pid' \in [Proc -> Pid \cup {INVALID_PID, KERNEL_PID}]
    OBVIOUS
  <2>4. pc' \in [Proc -> {"free", "embryo", "running", "as_copy", "filetable_copy",
                     "thread_fork", "prog_thread_fork", "runprogram", "waiting",
                     "woken", "copyout", "exited"}]
    OBVIOUS
  <2>5. newproc' \in [Proc -> Proc \cup {NoProc}]
    OBVIOUS
  <2>6. owns' \in [Proc -> SUBSET Object] /\ live' \in [Object -> Int]
    OBVIOUS
  <2> QED BY <2>1, <2>2, <2>3, <2>4, <2>5, <2>6
<1>2. SlotsRight'
  BY <1>a DEF IInv, SlotsRight
<1>3. ProcsRight'
  <2>1. p_pid'[kproc] = 1 /\ \A r \in Proc : r # kproc => p_pid'[r] # 1
    BY <1>a, <1>0, ProcAssumption DEF IInv, TypeOK, ProcsRight
  <2>2. \A r \in Proc : Alive(r)' <=> p_pid'[r] # 0
    BY <1>a, <1>x, <1>0 DEF IInv, TypeOK, ProcsRight
  <2>3. \A r \in Proc : Alive(r)' =>
          pidinfo'[Slot(p_pid'[r])].pid = p_pid'[r] /\ ~pidinfo'[Slot(p_pid'[r])].exited
    <3> TAKE r \in Proc
    <3> HAVE Alive(r)'
    <3>1. p_pid'[r] = p_pid[r] /\ Slot(p_pid[r]) # s /\ Alive(r)
      BY <1>x, <1>y, <1>a DEF IInv, TypeOK
    <3>2. Slot(p_pid[r]) \in Slots
      BY SlotType DEF IInv, TypeOK, AllPid
    <3> QED BY <3>1, <3>2, <1>a DEF IInv, ProcsRight, Entry
  <2>4. \A r, u \in Proc : Alive(r)' /\ p_pid'[r] = p_pid'[u] => r = u
    BY <1>a, <1>x, <1>y, <2>2 DEF IInv, TypeOK, ProcsRight
  <2>5. \A j \in Slots : pidinfo'[j] # Null /\ ~pidinfo'[j].exited =>
          \E r \in Proc : Alive(r)' /\ p_pid'[r] = pidinfo'[j].pid
    <3> TAKE j \in Slots
    <3> HAVE pidinfo'[j] # Null /\ ~pidinfo'[j].exited
    <3>1. j # s /\ pidinfo'[j] = pidinfo[j]
      BY <1>a
    <3>2. PICK r \in Proc : Alive(r) /\ p_pid[r] = pidinfo[j].pid
      BY <3>1 DEF IInv, ProcsRight
    <3>3. r # q
      BY <3>1, <3>2, <1>f DEF IInv, SlotsRight
    <3> QED BY <3>1, <3>2, <3>3, <1>a, <1>x DEF IInv, TypeOK
  <2> QED BY <2>1, <2>2, <2>3, <2>4, <2>5 DEF ProcsRight, Entry
<1>4. ParentsRight'
  <2>1. pidinfo'[Slot(1)].ppid = 0
    BY <1>a, <1>n, SlotType DEF IInv, ParentsRight, Entry, AllPid
  <2>2. \A j \in Slots : pidinfo'[j].exited => pidinfo'[j].ppid # 0
    BY <1>a, <1>n DEF IInv, ParentsRight
  <2>3. \A j \in Slots : pidinfo'[j].ppid # 0 =>
          \E r \in Proc : Alive(r)' /\ p_pid'[r] = pidinfo'[j].ppid
    <3> TAKE j \in Slots
    <3> HAVE pidinfo'[j].ppid # 0
    <3>1. pidinfo'[j] = pidinfo[j]
      BY <1>a, <1>n
    <3>2. PICK r \in Proc : Alive(r) /\ p_pid[r] = pidinfo[j].ppid
      BY <3>1 DEF IInv, ParentsRight
    <3>3. r # q
      BY <3>2, <1>o, <1>f
    <3> QED BY <3>1, <3>2, <3>3, <1>a, <1>x DEF IInv, TypeOK
  <2>4. \A j \in Slots : pidinfo'[j] # Null => pidinfo'[j].ppid # pidinfo'[j].pid
    BY <1>a DEF IInv, ParentsRight
  <2> QED BY <2>1, <2>2, <2>3, <2>4 DEF ParentsRight, Entry
<1>5. ForkersRight'
  <2> SUFFICES ASSUME NEW r \in Proc, Forking(r)'
               PROVE  (/\ newproc[r] \in Proc
                       /\ pc[newproc[r]] = "embryo"
                       /\ Entry(p_pid[newproc[r]]).ppid = p_pid[r]
                       /\ p_pid[newproc[r]] \notin kids[r])'
    BY DEF ForkersRight
  <2>1. Forking(r) /\ r # p /\ r # q
    BY <1>a, <1>0 DEF IInv, TypeOK, Forking
  <2>2. /\ newproc[r] \in Proc /\ pc[newproc[r]] = "embryo" /\ Alive(newproc[r])
        /\ newproc[r] # p
    BY <2>1 DEF IInv, ForkersRight, Alive, Forking
  <2>3. newproc[r] # q
    BY <2>1, <1>0, <1>f DEF IInv, ForkersRight, ProcsRight
  <2>4. /\ newproc'[r] = newproc[r] /\ p_pid'[newproc[r]] = p_pid[newproc[r]]
        /\ pc'[newproc[r]] = "embryo" /\ p_pid'[r] = p_pid[r]
    BY <2>1, <2>2, <2>3, <1>a DEF IInv, TypeOK
  <2>5. Slot(p_pid[newproc[r]]) \in Slots /\ Slot(p_pid[newproc[r]]) # s
    BY <2>2, <2>3, <1>y, SlotType DEF IInv, TypeOK, AllPid
  <2> QED BY <2>1, <2>2, <2>4, <2>5, <1>a DEF IInv, ForkersRight, Entry
<1>6. KidsRight'
  <2>1. \A r \in Proc : pc'[r] \in {"free", "embryo", "exited"} => kids'[r] = {}
    BY <1>a, <1>0 DEF IInv, TypeOK, KidsRight
  <2>2. \A r \in Proc : \A d \in kids'[r] :
          pidinfo'[Slot(d)].pid = d /\ pidinfo'[Slot(d)].ppid = p_pid'[r]
    <3> TAKE r \in Proc
    <3> TAKE d \in kids'[r]
    <3>1. d \in kids[r] /\ d \in Pid /\ r # q
      BY <1>a, <1>0 DEF IInv, TypeOK, KidsRight
    <3>2. pidinfo'[Slot(d)] = pidinfo[Slot(d)] /\ p_pid'[r] = p_pid[r]
      BY <3>1, <1>h, <1>a, SlotType DEF IInv, TypeOK, AllPid
    <3> QED BY <3>1, <3>2 DEF IInv, KidsRight, Entry
  <2>3. \A r \in Proc : Alive(r)' =>
          \A i \in Slots : pidinfo'[i].ppid = p_pid'[r] =>
            \/ pidinfo'[i].pid \in kids'[r]
            \/ Forking(r)' /\ pidinfo'[i].pid = p_pid'[newproc'[r]]
    <3> TAKE r \in Proc
    <3> HAVE Alive(r)'
    <3> TAKE i \in Slots
    <3> HAVE pidinfo'[i].ppid = p_pid'[r]
    <3>1. Alive(r) /\ r # q /\ p_pid'[r] = p_pid[r] /\ p_pid[r] # 0
      BY <1>x, <1>a DEF IInv, TypeOK, ProcsRight
    <3>2. i # s /\ pidinfo'[i] = pidinfo[i] /\ pidinfo[i] # Null
      BY <3>1, <1>a, <1>n
    <3>3. pidinfo[i].pid # c
      BY <3>2, <1>f DEF IInv, SlotsRight
    <3>4. CASE r = p
      BY <3>1, <3>2, <3>3, <3>4, <1>a, <1>f DEF IInv, KidsRight
    <3>5. CASE r # p
      <4>1. newproc'[r] = newproc[r] /\ (Forking(r)' <=> Forking(r))
        BY <3>1, <3>5, <1>a DEF IInv, TypeOK, Forking
      <4>2. CASE pidinfo[i].pid \in kids[r]
        BY <4>2, <3>2, <1>a
      <4>3. CASE Forking(r) /\ pidinfo[i].pid = p_pid[newproc[r]]
        <5>1. newproc[r] # q /\ newproc[r] \in Proc
          BY <4>3, <3>3, <1>f DEF IInv, ForkersRight
        <5> QED BY <4>1, <4>3, <5>1, <3>2, <1>a DEF IInv, TypeOK
      <4> QED BY <4>2, <4>3, <3>1, <3>2 DEF IInv, KidsRight
    <3> QED BY <3>4, <3>5
  <2> QED BY <2>1, <2>2, <2>3 DEF KidsRight, Entry
<1>7. SleepersRight'
  <2> SUFFICES ASSUME NEW r \in Proc, Asleep(r)'
               PROVE  (them[r] \in kids[r] /\ (Entry(them[r]).exited <=> pc[r] = "woken"))'
    BY DEF SleepersRight
  <2>1. Asleep(r) /\ pc'[r] = pc[r]
    BY <1>a, <1>0 DEF IInv, TypeOK, Asleep
  <2>2. them[r] \in kids[r] /\ them[r] \in Pid
    BY <2>1 DEF IInv, TypeOK, SleepersRight
  <2>3. pidinfo'[Slot(them[r])] = pidinfo[Slot(them[r])]
    BY <2>2, <1>h, <1>a, SlotType DEF IInv, TypeOK, AllPid
  <2> QED BY <2>1, <2>2, <2>3, <1>a DEF IInv, SleepersRight, Entry
<1> QED BY <1>1, <1>2, <1>3, <1>4, <1>5, <1>6, <1>7 DEF IInv

(* A parent gives up a child, by waitpid or pid_disown: the entry x that   *)
(* replaces the child's no longer names the parent.                        *)
LEMMA ForgetChild ==
  ASSUME IInv, TypeOK', NEW p \in Proc, NEW c \in kids[p],
         pc[p] \in {"running", "woken"}, NEW then \in {"running", "copyout"}, NEW x,
         \/ Entry(c).exited /\ x = Null
         \/ ~Entry(c).exited /\ x = [Entry(c) EXCEPT !.ppid = INVALID_PID],
         pidinfo' = [i \in Slots |-> IF i = Slot(c) THEN x ELSE pidinfo[i]],
         kids' = [kids EXCEPT ![p] = kids[p] \ {c}],
         pc' = [pc EXCEPT ![p] = then],
         p_pid' = p_pid, newproc' = newproc,
         \A r \in Proc : r # p => them'[r] = them[r]
  PROVE  IInv'
<1> USE DEF INVALID_PID, KERNEL_PID, PID_MIN
<1> DEFINE s == Slot(c)
<1>0. /\ c \in Pid /\ c # 0 /\ c # 1 /\ Alive(p) /\ ~Forking(p) /\ p_pid[p] # 0
  BY DEF IInv, TypeOK, ProcsRight, Alive, Forking, Pid
<1>e. pidinfo[s].pid = c /\ pidinfo[s].ppid = p_pid[p]
  BY DEF IInv, KidsRight, Entry
<1>s. s \in Slots
  BY <1>0, SlotType DEF AllPid
<1>n. Null \in Info /\ Null.pid = 0 /\ Null.ppid = 0 /\ ~Null.exited
  BY DEF Null, NewInfo, Info
<1>x. /\ x.ppid = 0 /\ ~x.exited
      /\ pidinfo[s].exited => x = Null
      /\ ~pidinfo[s].exited => x.pid = c /\ x # Null
  BY <1>s, <1>e, <1>n, <1>0 DEF IInv, TypeOK, Entry, Info
<1>f. s = Slot(c)
  OBVIOUS
<1>a. pidinfo' = [i \in Slots |-> IF i = s THEN x ELSE pidinfo[i]]
  OBVIOUS
<1> HIDE DEF s
<1>b. \A r \in Proc : Alive(r)' <=> Alive(r)
  BY <1>0 DEF IInv, TypeOK, Alive
<1>c. \A r \in Proc : Forking(r)' <=> Forking(r)
  BY <1>0 DEF IInv, TypeOK, Forking
<1>h. \A r \in Proc : \A d \in kids[r] : Slot(d) = s => d = c /\ r = p
  <2> TAKE r \in Proc
  <2> TAKE d \in kids[r]
  <2> HAVE Slot(d) = s
  <2>1. Entry(d).pid = d /\ Entry(d).ppid = p_pid[r]
    BY DEF IInv, KidsRight
  <2>2. d = c /\ p_pid[r] = p_pid[p]
    BY <2>1, <1>e DEF Entry
  <2> QED BY <2>2, <1>0 DEF IInv, ProcsRight
<1>2. SlotsRight'
  BY <1>a, <1>x, <1>f, <1>0 DEF IInv, SlotsRight
<1>3. ProcsRight'
  <2>1. \A r \in Proc : Alive(r) =>
          pidinfo'[Slot(p_pid[r])].pid = p_pid[r] /\ ~pidinfo'[Slot(p_pid[r])].exited
    <3> TAKE r \in Proc
    <3> HAVE Alive(r)
    <3>1. /\ Slot(p_pid[r]) \in Slots
          /\ pidinfo[Slot(p_pid[r])].pid = p_pid[r] /\ ~pidinfo[Slot(p_pid[r])].exited
      BY SlotType DEF IInv, TypeOK, ProcsRight, Entry, AllPid
    <3> QED BY <3>1, <1>a, <1>x, <1>e
  <2>2. \A j \in Slots : pidinfo'[j] # Null /\ ~pidinfo'[j].exited =>
          pidinfo[j] # Null /\ ~pidinfo[j].exited /\ pidinfo'[j].pid = pidinfo[j].pid
    BY <1>a, <1>x, <1>e, <1>n, <1>0
  <2>3. \A j \in Slots : pidinfo'[j] # Null /\ ~pidinfo'[j].exited =>
          \E r \in Proc : Alive(r) /\ p_pid[r] = pidinfo'[j].pid
    BY <2>2 DEF IInv, ProcsRight
  <2> QED BY <2>1, <2>3, <1>b DEF IInv, ProcsRight, Entry
<1>4. ParentsRight'
  <2>1. pidinfo'[Slot(1)].ppid = 0
    BY <1>a, <1>x, SlotType DEF IInv, ParentsRight, Entry, AllPid
  <2>2. \A j \in Slots : pidinfo'[j].exited => pidinfo'[j].ppid # 0
    BY <1>a, <1>x DEF IInv, ParentsRight
  <2>3. \A j \in Slots : pidinfo'[j].ppid # 0 =>
          \E r \in Proc : Alive(r) /\ p_pid[r] = pidinfo'[j].ppid
    BY <1>a, <1>x DEF IInv, ParentsRight
  <2>4. \A j \in Slots : pidinfo'[j] # Null => pidinfo'[j].ppid # pidinfo'[j].pid
    BY <1>a, <1>x, <1>0 DEF IInv, ParentsRight
  <2> QED BY <2>1, <2>2, <2>3, <2>4, <1>b DEF ParentsRight, Entry
<1>5. ForkersRight'
  <2> SUFFICES ASSUME NEW r \in Proc, Forking(r)
               PROVE  (/\ newproc[r] \in Proc
                       /\ pc[newproc[r]] = "embryo"
                       /\ Entry(p_pid[newproc[r]]).ppid = p_pid[r]
                       /\ p_pid[newproc[r]] \notin kids[r])'
    BY <1>c DEF ForkersRight
  <2>1. /\ newproc[r] \in Proc /\ pc[newproc[r]] = "embryo" /\ newproc[r] # p
        /\ p_pid[newproc[r]] \in Pid
        /\ Entry(p_pid[newproc[r]]).pid = p_pid[newproc[r]]
        /\ Entry(p_pid[newproc[r]]).ppid = p_pid[r]
    BY ForkerFacts
  <2>2. Slot(p_pid[newproc[r]]) # s
    <3> SUFFICES ASSUME Slot(p_pid[newproc[r]]) = s PROVE FALSE
      OBVIOUS
    <3>1. p_pid[newproc[r]] = c /\ p_pid[r] = p_pid[p]
      BY <2>1, <1>e DEF Entry
    <3>2. r = p
      BY <3>1, <1>0 DEF IInv, ProcsRight
    <3> QED BY <3>2, <1>0
  <2>3. Slot(p_pid[newproc[r]]) \in Slots
    BY <2>1, SlotType DEF AllPid
  <2>4. pc'[newproc[r]] = "embryo" /\ kids'[r] = kids[r]
    BY <2>1, <1>0 DEF IInv, TypeOK
  <2> QED BY <2>1, <2>2, <2>3, <2>4, <1>a DEF IInv, ForkersRight, Entry
<1>6. KidsRight'
  <2>1. \A r \in Proc : pc'[r] \in {"free", "embryo", "exited"} => kids'[r] = {}
    BY DEF IInv, TypeOK, KidsRight
  <2>2. \A r \in Proc : \A d \in kids'[r] :
          pidinfo'[Slot(d)].pid = d /\ pidinfo'[Slot(d)].ppid = p_pid[r]
    <3> TAKE r \in Proc
    <3> TAKE d \in kids'[r]
    <3>1. d \in kids[r] /\ d \in Pid /\ (r = p => d # c)
      BY DEF IInv, TypeOK
    <3>2. Slot(d) # s /\ Slot(d) \in Slots
      BY <3>1, <1>h, SlotType DEF AllPid
    <3> QED BY <3>1, <3>2, <1>a DEF IInv, KidsRight, Entry
  <2>3. \A r \in Proc : Alive(r) =>
          \A i \in Slots : pidinfo'[i].ppid = p_pid[r] =>
            \/ pidinfo'[i].pid \in kids'[r]
            \/ Forking(r) /\ pidinfo'[i].pid = p_pid[newproc[r]]
    <3> TAKE r \in Proc
    <3> HAVE Alive(r)
    <3> TAKE i \in Slots
    <3> HAVE pidinfo'[i].ppid = p_pid[r]
    <3>1. p_pid[r] # 0
      BY DEF IInv, ProcsRight
    <3>2. i # s /\ pidinfo'[i] = pidinfo[i] /\ pidinfo[i] # Null
      BY <3>1, <1>a, <1>x, <1>n
    <3>3. pidinfo[i].pid # c
      BY <3>2, <1>f DEF IInv, SlotsRight
    <3> QED BY <3>2, <3>3 DEF IInv, TypeOK, KidsRight
  <2> QED BY <2>1, <2>2, <2>3, <1>b, <1>c DEF KidsRight, Entry
<1>7. SleepersRight'
  <2> SUFFICES ASSUME NEW r \in Proc, Asleep(r)'
               PROVE  (them[r] \in kids[r] /\ (Entry(them[r]).exited <=> pc[r] = "woken"))'
    BY DEF SleepersRight
  <2>1. r # p /\ Asleep(r) /\ pc'[r] = pc[r] /\ them'[r] = them[r] /\ kids'[r] = kids[r]
    BY DEF IInv, TypeOK, Asleep
  <2>2. them[r] \in kids[r] /\ them[r] \in Pid
    BY <2>1 DEF IInv, TypeOK, SleepersRight
  <2>3. pidinfo'[Slot(them[r])] = pidinfo[Slot(them[r])]
    BY <2>1, <2>2, <1>h, <1>a, SlotType DEF AllPid
  <2> QED BY <2>1, <2>2, <2>3 DEF IInv, SleepersRight, Entry
<1> QED BY <1>2, <1>3, <1>4, <1>5, <1>6, <1>7 DEF IInv

LEMMA CollectStep ==
  ASSUME IInv, NEW p \in Proc, NEW c \in kids[p], pc[p] \in {"running", "woken"},
         Entry(c).exited, Collect(p, c),
         them' = them \/ them' = [them EXCEPT ![p] = INVALID_PID]
  PROVE  IInv'
<1> USE DEF INVALID_PID, KERNEL_PID, PID_MIN
<1>1. /\ reply' = [reply EXCEPT ![p] = <<c, pidinfo[Slot(c)].status>>]
      /\ pidinfo' = [i \in Slots |-> IF i = Slot(c) THEN Null ELSE pidinfo[i]]
      /\ nprocs' = nprocs - 1
      /\ kids' = [kids EXCEPT ![p] = kids[p] \ {c}]
      /\ pc' = [pc EXCEPT ![p] = "copyout"]
      /\ UNCHANGED <<nextpid, p_pid, newproc, owns, live>>
  BY DEF Collect, Dropped
<1>2. Null \in Info
  BY DEF Null, NewInfo, Info
<1>3. c \in Pid /\ Slot(c) \in Slots
  BY SlotType DEF IInv, TypeOK, AllPid
<1>4. pidinfo[Slot(c)].status \in Status \cup {NoStatus}
  BY <1>3 DEF IInv, TypeOK, Info
<1>5. TypeOK'
  <2> USE <1>1, <1>2, <1>3, <1>4 DEF IInv, TypeOK
  <2>1. pidinfo' \in [Slots -> Info]
    OBVIOUS
  <2>2. nextpid' \in Pid /\ nprocs' \in Int
    OBVIOUS
  <2>3. reply' \in [Proc -> (Pid \cup {INVALID_PID}) \X (Status \cup {NoStatus})]
    OBVIOUS
  <2>4. kids' \in [Proc -> SUBSET Pid] /\ them' \in [Proc -> Pid \cup {INVALID_PID}]
    OBVIOUS
  <2>5. pc' \in [Proc -> {"free", "embryo", "running", "as_copy", "filetable_copy",
                     "thread_fork", "prog_thread_fork", "runprogram", "waiting",
                     "woken", "copyout", "exited"}]
    OBVIOUS
  <2> QED BY <2>1, <2>2, <2>3, <2>4, <2>5
<1>6. \A r \in Proc : r # p => them'[r] = them[r]
  BY DEF IInv, TypeOK
<1> QED BY <1>1, <1>5, <1>6, ForgetChild

LEMMA PidDisownStep ==
  ASSUME IInv, NEW c \in Pid, PidDisown(c)
  PROVE  IInv'
<1> USE DEF INVALID_PID, KERNEL_PID, PID_MIN
<1> DEFINE x == IF Entry(c).exited THEN Null ELSE [Entry(c) EXCEPT !.ppid = INVALID_PID]
<1>1. Slot(c) \in Slots /\ c \in kids[kproc] /\ pc[kproc] = "running" /\ kproc \in Proc
  BY SlotType, ProcAssumption DEF AllPid, PidDisown
<1>2. x \in Info
  <2>1. Null \in Info
    BY DEF Null, NewInfo, Info
  <2>2. \A e \in Info : [e EXCEPT !.ppid = 0] \in Info
    BY DEF Info
  <2>3. Entry(c) \in Info
    BY <1>1 DEF IInv, TypeOK, Entry
  <2> QED BY <2>1, <2>2, <2>3
<1>3. /\ pidinfo' = [i \in Slots |-> IF i = Slot(c) THEN x ELSE pidinfo[i]]
      /\ nprocs' \in Int
      /\ kids' = [kids EXCEPT ![kproc] = kids[kproc] \ {c}]
      /\ UNCHANGED <<nextpid, p_pid, pc, newproc, them, reply, owns, live>>
  BY <1>1 DEF IInv, TypeOK, PidDisown, Dropped, Entry
<1>4. /\ \/ Entry(c).exited /\ x = Null
         \/ ~Entry(c).exited /\ x = [Entry(c) EXCEPT !.ppid = INVALID_PID]
  BY <1>1 DEF IInv, TypeOK, Info, Entry
<1> HIDE DEF x
<1>5. TypeOK'
  <2> USE <1>1, <1>2, <1>3 DEF IInv, TypeOK
  <2>1. pidinfo' \in [Slots -> Info]
    OBVIOUS
  <2>2. kids' \in [Proc -> SUBSET Pid]
    OBVIOUS
  <2> QED BY <2>1, <2>2
<1>6. pc' = [pc EXCEPT ![kproc] = "running"]
  BY <1>1, <1>3 DEF IInv, TypeOK
<1> QED BY <1>1, <1>3, <1>4, <1>5, <1>6, ForgetChild

(* An exit disowns the children, drops the zombies among them, and then    *)
(* leaves a zombie for a living parent or drops its own entry.             *)
LEMMA SetExitStatusStep ==
  ASSUME IInv, NEW p \in Proc, NEW status \in Status, SetExitStatus(p, status)
  PROVE  IInv'
<1> USE DEF INVALID_PID, KERNEL_PID, PID_MIN
<1> DEFINE me     == p_pid[p]
           s      == Slot(me)
           orphan == pidinfo[s].ppid = 0
           mine   == {i \in Slots : pidinfo[i] # Null /\ pidinfo[i].ppid = me}
           gone   == {i \in mine : pidinfo[i].exited} \cup (IF orphan THEN {s} ELSE {})
<1>p. /\ p # kproc /\ pc[p] = "running" /\ Alive(p) /\ ~Forking(p) /\ ~Asleep(p)
      /\ me # 0 /\ me \in Pid
      /\ pidinfo[s].pid = me /\ ~pidinfo[s].exited
  BY DEF SetExitStatus, IInv, TypeOK, ProcsRight, Alive, Forking, Asleep, Entry
<1>s. s \in Slots
  BY <1>p, SlotType DEF AllPid
<1>n. Null \in Info /\ Null.pid = 0 /\ Null.ppid = 0 /\ ~Null.exited
  BY DEF Null, NewInfo, Info
<1>g. pi_get(me) = pidinfo[s]
  BY <1>p DEF pi_get
<1>m. s \notin mine
  BY <1>p DEF IInv, ParentsRight
<1>a. /\ pidinfo' = [i \in Slots |->
           IF i \in gone THEN Null
           ELSE IF i \in mine THEN [pidinfo[i] EXCEPT !.ppid = 0]
           ELSE IF i = s THEN [pidinfo[i] EXCEPT !.exited = TRUE, !.status = status]
           ELSE pidinfo[i]]
      /\ nprocs' = nprocs - Cardinality(gone)
      /\ p_pid' = [p_pid EXCEPT ![p] = 0]
      /\ pc' = [r \in Proc |->
           IF r = p THEN "exited"
           ELSE IF pc[r] = "waiting" /\ them[r] = me /\ ~orphan THEN "woken"
           ELSE pc[r]]
      /\ kids' = [kids EXCEPT ![p] = {}]
      /\ UNCHANGED <<nextpid, newproc, them, reply, owns, live>>
  <2>1. ChildSlots(me) = mine /\ (Orphan(me) <=> orphan) /\ GoneSlots(me) = gone
    BY <1>g DEF ChildSlots, Orphan, GoneSlots, Occupied
  <2>2. \A r \in Proc : r \in WokenBy(me) <=> pc[r] = "waiting" /\ them[r] = me /\ ~orphan
    BY <2>1 DEF WokenBy
  <2> HIDE DEF mine, gone, orphan
  <2> QED BY <2>1, <2>2 DEF SetExitStatus
(* What becomes of an entry. *)
<1>e. \A i \in Slots :
        \/ /\ pidinfo'[i] = Null /\ i # s
           /\ pidinfo[i].exited /\ pidinfo[i].ppid = me
        \/ /\ pidinfo'[i] = Null /\ i = s /\ orphan
        \/ /\ pidinfo[i].ppid = me /\ ~pidinfo[i].exited /\ i # s /\ pidinfo[i] # Null
           /\ pidinfo'[i].pid = pidinfo[i].pid /\ pidinfo'[i].ppid = 0 /\ ~pidinfo'[i].exited
        \/ /\ i = s /\ ~orphan
           /\ pidinfo'[i].pid = me /\ pidinfo'[i].ppid = pidinfo[i].ppid /\ pidinfo'[i].exited
        \/ /\ i # s /\ (pidinfo[i] # Null => pidinfo[i].ppid # me)
           /\ pidinfo'[i] = pidinfo[i]
  <2> TAKE i \in Slots
  <2>1. pidinfo[i] \in Info
    BY DEF IInv, TypeOK
  <2>2. CASE i = s
    BY <2>1, <2>2, <1>a, <1>m, <1>p DEF Info
  <2>3. CASE i # s
    BY <2>1, <2>3, <1>a DEF Info
  <2> QED BY <2>2, <2>3
<1>f. s = Slot(me) /\ (orphan <=> pidinfo[s].ppid = 0)
  OBVIOUS
<1>1. TypeOK'
  <2>1. \A e \in Info : /\ [e EXCEPT !.ppid = 0] \in Info
                        /\ [e EXCEPT !.exited = TRUE, !.status = status] \in Info
    BY DEF Info
  <2>2. pidinfo' \in [Slots -> Info]
    BY <2>1, <1>a, <1>n DEF IInv, TypeOK
  <2>3. nprocs' \in Int
    <3>1. mine \subseteq Slots /\ IsFiniteSet(Slots)
      BY FS_Interval, TableAssumption DEF Slots
    <3>2. gone \subseteq Slots
      BY <1>s
    <3>3. IsFiniteSet(gone)
      BY <3>1, <3>2, FS_Subset
    <3>4. Cardinality(gone) \in Nat
      BY <3>3, FS_CardinalityType
    <3>5. nprocs \in Int /\ nprocs' = nprocs - Cardinality(gone)
      BY <1>a DEF IInv, TypeOK
    <3> HIDE DEF gone
    <3> QED BY <3>4, <3>5
  <2>4. p_pid' \in [Proc -> Pid \cup {INVALID_PID, KERNEL_PID}] /\ kids' \in [Proc -> SUBSET Pid]
    BY <1>a DEF IInv, TypeOK
  <2>5. pc' \in [Proc -> {"free", "embryo", "running", "as_copy", "filetable_copy",
                     "thread_fork", "prog_thread_fork", "runprogram", "waiting",
                     "woken", "copyout", "exited"}]
    BY <1>a DEF IInv, TypeOK
  <2> QED BY <2>2, <2>3, <2>4, <2>5, <1>a DEF IInv, TypeOK
<1> HIDE DEF me, s, orphan, mine, gone
<1>x. \A r \in Proc : Alive(r)' <=> Alive(r) /\ r # p
  BY <1>a, <1>p DEF IInv, TypeOK, Alive
<1>c. \A r \in Proc : Forking(r)' <=> Forking(r)
  BY <1>a, <1>p DEF IInv, TypeOK, Forking
<1>i. \A r \in Proc : p_pid[r] = me /\ Alive(r) => r = p
  BY <1>p DEF IInv, ProcsRight, me
<1>y. \A r \in Proc : Alive(r) /\ r # p => p_pid[r] # me /\ Slot(p_pid[r]) # s
  BY <1>i, <1>p, <1>f DEF IInv, ProcsRight, Entry
(* The parent of the dying process, if any, is another one. *)
<1>o. me # pidinfo[s].ppid
  BY <1>p, <1>s, <1>n DEF IInv, ParentsRight
(* The other processes' children are not disowned. *)
<1>h. \A r \in Proc : r # p => \A d \in kids[r] :
        /\ Slot(d) \in Slots /\ d # 0
        /\ pidinfo'[Slot(d)].pid = d
        /\ pidinfo'[Slot(d)].ppid = p_pid[r]
        /\ (pidinfo'[Slot(d)].exited <=> pidinfo[Slot(d)].exited \/ d = me)
        /\ d = me => ~orphan
  <2> TAKE r \in Proc
  <2> HAVE r # p
  <2> TAKE d \in kids[r]
  <2>1. /\ pidinfo[Slot(d)].pid = d /\ pidinfo[Slot(d)].ppid = p_pid[r]
        /\ d \in Pid /\ Slot(d) \in Slots /\ d # 0
    BY SlotType DEF IInv, TypeOK, KidsRight, Entry, AllPid, Pid
  <2>2. Alive(r)
    BY DEF IInv, KidsRight, Alive
  <2>3. p_pid[r] # me /\ p_pid[r] # 0
    BY <2>2, <1>i DEF IInv, ProcsRight
  <2>4. Slot(d) = s <=> d = me
    BY <2>1, <1>p, <1>f
  <2>5. pidinfo[Slot(d)] # Null
    BY <2>1, <1>n
  <2>6. CASE d = me
    BY <2>1, <2>3, <2>4, <2>6, <1>e, <1>f
  <2>7. CASE d # me
    BY <2>1, <2>3, <2>4, <2>5, <2>7, <1>e
  <2> QED BY <2>6, <2>7, <2>1
<1>2. SlotsRight'
  <2> SUFFICES ASSUME NEW i \in Slots
               PROVE  pidinfo'[i] = Null \/ (pidinfo'[i].pid # 0 /\ Slot(pidinfo'[i].pid) = i)
    BY DEF SlotsRight
  <2>1. pidinfo[i] = Null \/ (pidinfo[i].pid # 0 /\ Slot(pidinfo[i].pid) = i)
    BY DEF IInv, SlotsRight
  <2>2. me # 0 /\ Slot(me) = s
    BY <1>p, <1>f
  <2>3. pidinfo'[i] = Null \/ pidinfo'[i].pid = pidinfo[i].pid \/ (i = s /\ pidinfo'[i].pid = me)
    BY <1>e
  <2>4. pidinfo[i] = Null => pidinfo'[i] = Null \/ i = s
    BY <1>e
  <2>5. pidinfo[s] # Null
    BY <1>p, <1>n, <2>2
  <2>6. CASE i = s
    BY <2>1, <2>2, <2>3, <2>5, <2>6
  <2>7. CASE i # s
    BY <2>1, <2>3, <2>4, <2>7
  <2> QED BY <2>6, <2>7
<1>3. ProcsRight'
  <2>1. p_pid'[kproc] = 1 /\ \A r \in Proc : r # kproc => p_pid'[r] # 1
    <3>1. p_pid[kproc] = 1 /\ \A r \in Proc : r # kproc => p_pid[r] # 1
      BY DEF IInv, ProcsRight
    <3>2. kproc \in Proc /\ kproc # p
      BY <1>p, ProcAssumption
    <3>3. \A r \in Proc : p_pid'[r] = IF r = p THEN 0 ELSE p_pid[r]
      BY <1>a DEF IInv, TypeOK
    <3> QED BY <3>1, <3>2, <3>3
  <2>2. \A r \in Proc : Alive(r)' <=> p_pid'[r] # 0
    BY <1>a, <1>x DEF IInv, TypeOK, ProcsRight
  <2>3. \A r \in Proc : Alive(r)' =>
          pidinfo'[Slot(p_pid'[r])].pid = p_pid'[r] /\ ~pidinfo'[Slot(p_pid'[r])].exited
    <3> TAKE r \in Proc
    <3> HAVE Alive(r)'
    <3>1. p_pid'[r] = p_pid[r] /\ Slot(p_pid[r]) # s /\ Alive(r)
      BY <1>x, <1>y, <1>a DEF IInv, TypeOK
    <3>2. /\ Slot(p_pid[r]) \in Slots
          /\ pidinfo[Slot(p_pid[r])].pid = p_pid[r] /\ ~pidinfo[Slot(p_pid[r])].exited
      BY <3>1, SlotType DEF IInv, TypeOK, ProcsRight, Entry, AllPid
    <3> QED BY <3>1, <3>2, <1>e
  <2>4. \A r, u \in Proc : Alive(r)' /\ p_pid'[r] = p_pid'[u] => r = u
    BY <1>a, <1>x, <2>2 DEF IInv, TypeOK, ProcsRight
  <2>5. \A j \in Slots : pidinfo'[j] # Null /\ ~pidinfo'[j].exited =>
          \E r \in Proc : Alive(r)' /\ p_pid'[r] = pidinfo'[j].pid
    <3> TAKE j \in Slots
    <3> HAVE pidinfo'[j] # Null /\ ~pidinfo'[j].exited
    <3>1. /\ j # s /\ pidinfo'[j].pid = pidinfo[j].pid
          /\ pidinfo[j] # Null /\ ~pidinfo[j].exited
      BY <1>e
    <3>2. PICK r \in Proc : Alive(r) /\ p_pid[r] = pidinfo[j].pid
      BY <3>1 DEF IInv, ProcsRight
    <3>3. r # p
      BY <3>1, <3>2, <1>f DEF IInv, SlotsRight, me
    <3> QED BY <3>1, <3>2, <3>3, <1>a, <1>x DEF IInv, TypeOK
  <2> QED BY <2>1, <2>2, <2>3, <2>4, <2>5 DEF ProcsRight, Entry
<1>4. ParentsRight'
  <2>1. pidinfo'[Slot(1)].ppid = 0
    <3>1. /\ Slot(1) \in Slots /\ pidinfo[Slot(1)].ppid = 0
          /\ Slot(1) # s
      <4>1. kproc # p /\ Alive(kproc) /\ p_pid[kproc] = 1
        BY <1>p, ProcAssumption DEF IInv, ProcsRight
      <4> QED BY <4>1, <1>y, SlotType, ProcAssumption DEF IInv, ParentsRight, Entry, AllPid
    <3> QED BY <3>1, <1>e, <1>n
  <2>2. \A j \in Slots : pidinfo'[j].exited => pidinfo'[j].ppid # 0
    BY <1>e, <1>n, <1>f DEF IInv, ParentsRight
  <2>3. \A j \in Slots : pidinfo'[j].ppid # 0 =>
          \E r \in Proc : Alive(r)' /\ p_pid'[r] = pidinfo'[j].ppid
    <3> TAKE j \in Slots
    <3> HAVE pidinfo'[j].ppid # 0
    <3>1. pidinfo'[j].ppid = pidinfo[j].ppid /\ pidinfo[j].ppid # me
      BY <1>e, <1>n, <1>o, <1>f
    <3>2. PICK r \in Proc : Alive(r) /\ p_pid[r] = pidinfo[j].ppid
      BY <3>1 DEF IInv, ParentsRight
    <3>3. r # p
      BY <3>1, <3>2 DEF me
    <3> QED BY <3>1, <3>2, <3>3, <1>a, <1>x DEF IInv, TypeOK
  <2>4. \A j \in Slots : pidinfo'[j] # Null => pidinfo'[j].ppid # pidinfo'[j].pid
    <3> TAKE j \in Slots
    <3> HAVE pidinfo'[j] # Null
    <3>1. CASE j = s
      BY <3>1, <1>e, <1>o
    <3>2. CASE j # s /\ pidinfo'[j] = pidinfo[j]
      BY <3>2 DEF IInv, ParentsRight
    <3>3. CASE j # s /\ pidinfo'[j] # pidinfo[j]
      <4>1. pidinfo'[j].ppid = 0 /\ pidinfo'[j].pid = pidinfo[j].pid /\ pidinfo[j] # Null
        BY <3>3, <1>e
      <4> QED BY <4>1 DEF IInv, SlotsRight
    <3> QED BY <3>1, <3>2, <3>3
  <2> QED BY <2>1, <2>2, <2>3, <2>4 DEF ParentsRight, Entry
<1>5. ForkersRight'
  <2> SUFFICES ASSUME NEW r \in Proc, Forking(r)
               PROVE  (/\ newproc[r] \in Proc
                       /\ pc[newproc[r]] = "embryo"
                       /\ Entry(p_pid[newproc[r]]).ppid = p_pid[r]
                       /\ p_pid[newproc[r]] \notin kids[r])'
    BY <1>c DEF ForkersRight
  <2> DEFINE q == newproc[r]
  <2>1. /\ q \in Proc /\ pc[q] = "embryo" /\ Alive(r) /\ Alive(q)
        /\ p_pid[r] # 0 /\ p_pid[q] \in Pid
        /\ pidinfo[Slot(p_pid[q])].pid = p_pid[q]
        /\ pidinfo[Slot(p_pid[q])].ppid = p_pid[r]
        /\ p_pid[q] \notin kids[r]
    BY ForkerFacts DEF Entry, IInv, ForkersRight
  <2>2. r # p /\ q # p
    BY <2>1, <1>p
  <2>3. p_pid[r] # me /\ Slot(p_pid[q]) # s /\ Slot(p_pid[q]) \in Slots
    BY <2>1, <2>2, <1>i, <1>y, SlotType DEF AllPid
  <2>4. ~pidinfo[Slot(p_pid[q])].exited
    BY <2>1 DEF IInv, ProcsRight, Entry
  <2>5. pidinfo'[Slot(p_pid[q])].ppid = p_pid[r]
    BY <2>1, <2>3, <2>4, <1>e
  <2>6. /\ newproc'[r] = q /\ p_pid'[q] = p_pid[q] /\ p_pid'[r] = p_pid[r]
        /\ pc'[q] = "embryo" /\ kids'[r] = kids[r]
    BY <2>1, <2>2, <1>a DEF IInv, TypeOK
  <2> HIDE DEF q
  <2> QED BY <2>1, <2>5, <2>6 DEF Entry
<1>6. KidsRight'
  <2>1. \A r \in Proc : pc'[r] \in {"free", "embryo", "exited"} => kids'[r] = {}
    BY <1>a DEF IInv, TypeOK, KidsRight
  <2>2. \A r \in Proc : \A d \in kids'[r] :
          pidinfo'[Slot(d)].pid = d /\ pidinfo'[Slot(d)].ppid = p_pid'[r]
    <3> TAKE r \in Proc
    <3> TAKE d \in kids'[r]
    <3>1. r # p /\ d \in kids[r] /\ p_pid'[r] = p_pid[r]
      BY <1>a DEF IInv, TypeOK
    <3> QED BY <3>1, <1>h
  <2>3. \A r \in Proc : Alive(r)' =>
          \A i \in Slots : pidinfo'[i].ppid = p_pid'[r] =>
            \/ pidinfo'[i].pid \in kids'[r]
            \/ Forking(r)' /\ pidinfo'[i].pid = p_pid'[newproc'[r]]
    <3> TAKE r \in Proc
    <3> HAVE Alive(r)'
    <3> TAKE i \in Slots
    <3> HAVE pidinfo'[i].ppid = p_pid'[r]
    <3>1. Alive(r) /\ r # p /\ p_pid'[r] = p_pid[r] /\ kids'[r] = kids[r] /\ p_pid[r] # 0
      BY <1>x, <1>a DEF IInv, TypeOK, ProcsRight
    <3>2. pidinfo'[i].pid = pidinfo[i].pid /\ pidinfo[i].ppid = p_pid[r]
      BY <3>1, <1>e, <1>n, <1>f, <1>p
    <3>3. CASE pidinfo[i].pid \in kids[r]
      BY <3>1, <3>2, <3>3
    <3>4. CASE Forking(r) /\ pidinfo[i].pid = p_pid[newproc[r]]
      <4>1. newproc'[r] = newproc[r] /\ newproc[r] \in Proc /\ newproc[r] # p
        BY <3>4, <1>a, <1>p DEF IInv, ForkersRight
      <4> QED BY <3>2, <3>4, <4>1, <1>a, <1>c DEF IInv, TypeOK
    <3> QED BY <3>1, <3>2, <3>3, <3>4 DEF IInv, KidsRight
  <2> QED BY <2>1, <2>2, <2>3 DEF KidsRight, Entry
<1>7. SleepersRight'
  <2> SUFFICES ASSUME NEW r \in Proc, Asleep(r)'
               PROVE  (them[r] \in kids[r] /\ (Entry(them[r]).exited <=> pc[r] = "woken"))'
    BY DEF SleepersRight
  <2>1. r # p /\ Asleep(r) /\ them'[r] = them[r] /\ kids'[r] = kids[r]
    BY <1>a DEF IInv, TypeOK, Asleep
  <2>2. them[r] \in kids[r] /\ (pidinfo[Slot(them[r])].exited <=> pc[r] = "woken")
    BY <2>1 DEF IInv, SleepersRight, Entry
  <2>3. /\ pidinfo'[Slot(them[r])].exited <=> pidinfo[Slot(them[r])].exited \/ them[r] = me
        /\ them[r] = me => ~orphan
    BY <2>1, <2>2, <1>h
  <2>4. pc'[r] = "woken" <=> pc[r] = "woken" \/ them[r] = me
    BY <2>1, <2>3, <1>a DEF Asleep
  <2> QED BY <2>1, <2>2, <2>3, <2>4 DEF Entry
<1> QED BY <1>1, <1>2, <1>3, <1>4, <1>5, <1>6, <1>7 DEF IInv

-----------------------------------------------------------------------------
(* Every step preserves the invariant. *)
LEMMA NextIInv == IInv /\ [Next]_vars => IInv'
<1> SUFFICES ASSUME IInv, [Next]_vars PROVE IInv'
  OBVIOUS
<1>1. ASSUME NEW p \in Proc, NEW q \in Proc, ProcFork(p, q) PROVE IInv'
  BY <1>1, PidAllocStep DEF ProcFork
<1>2. ASSUME NEW q \in Proc, ProcCreateRunprogram(q) PROVE IInv'
  BY <1>2, PidAllocStep, ProcAssumption DEF ProcCreateRunprogram
<1>3. ASSUME NEW p \in Proc, PidAllocNoMemory(p) PROVE IInv'
  BY <1>3, PidAllocNoMemoryStep
<1>4. ASSUME NEW p \in Proc, AsCopy(p) \/ AsCopyFails(p) PROVE IInv'
  BY <1>4, AsCopyStep, ProcUnforkStep DEF AsCopyFails, Forking
<1>5. ASSUME NEW p \in Proc, FiletableCopy(p) \/ FiletableCopyFails(p) PROVE IInv'
  BY <1>5, FiletableCopyStep, ProcUnforkStep DEF FiletableCopyFails, Forking
<1>6. ASSUME NEW p \in Proc, ThreadFork(p) \/ ThreadForkFails(p) PROVE IInv'
  BY <1>6, ChildRunsStep, ProcUnforkStep DEF ThreadFork, ThreadForkFails, Forking
<1>7. ASSUME ProgThreadFork PROVE IInv'
  BY <1>7, ChildRunsStep, ProcAssumption DEF ProgThreadFork, Forking
<1>8. ASSUME NEW p \in Proc, Runprogram(p) PROVE IInv'
  BY <1>8, RunprogramStep
<1>9. ASSUME NEW p \in Proc, NEW s \in Status, SetExitStatus(p, s) PROVE IInv'
  BY <1>9, SetExitStatusStep
<1>10. ASSUME NEW p \in Proc, ProcExitDestroy(p) PROVE IInv'
  BY <1>10, ProcExitDestroyStep
<1>11. ASSUME NEW p \in Proc, NEW pid \in Pid, WaitExited(p, pid) PROVE IInv'
  <2>1. pc[p] = "running" /\ ~WaitFails(p, pid) /\ pi_get(pid).exited
    BY <1>11 DEF WaitExited, CanCall
  <2>2. pid \in kids[p] /\ Entry(pid).exited
    BY <2>1, WaitTarget
  <2> QED BY <2>1, <2>2, <1>11, CollectStep DEF WaitExited
<1>12. ASSUME NEW p \in Proc, NEW pid \in Pid, WaitNoHang(p, pid) \/ WaitSleep(p, pid)
       PROVE  IInv'
  BY <1>12, WaitNoHangStep, WaitSleepStep
<1>13. ASSUME NEW p \in Proc, WaitWoken(p) PROVE IInv'
  <2>1. them[p] \in kids[p] /\ Entry(them[p]).exited
    BY <1>13 DEF WaitWoken, IInv, SleepersRight, Asleep
  <2> QED BY <2>1, <1>13, CollectStep DEF WaitWoken
<1>14. ASSUME NEW p \in Proc, WaitReturns(p) PROVE IInv'
  BY <1>14, WaitReturnsStep
<1>15. ASSUME NEW pid \in Pid, PidDisown(pid) PROVE IInv'
  BY <1>15, PidDisownStep
<1>16. ASSUME UNCHANGED vars PROVE IInv'
  BY <1>16 DEF vars, IInv, TypeOK, SlotsRight, ProcsRight, ParentsRight, ForkersRight,
               KidsRight, SleepersRight, Alive, Forking, Asleep, Entry
<1> QED BY <1>1, <1>2, <1>3, <1>4, <1>5, <1>6, <1>7, <1>8, <1>9, <1>10, <1>11,
           <1>12, <1>13, <1>14, <1>15, <1>16 DEF Next

(* The invariant holds in every state of every execution, for every table  *)
(* size, pid range and set of struct procs: what pid.c and proc.c keep     *)
(* true of the table between two critical sections.                        *)
THEOREM Invariance == Spec => []IInv
<1>1. Init => IInv
  BY InitIInv
<1>2. IInv /\ [Next]_vars => IInv'
  BY NextIInv
<1> QED BY <1>1, <1>2, PTL DEF Spec

-----------------------------------------------------------------------------
(* What it says of the table in the terms of the checked properties.       *)

(* Every variable keeps its type. *)
THEOREM TypeCorrect == Spec => []TypeOK
<1>1. IInv => TypeOK
  BY DEF IInv
<1> QED BY <1>1, Invariance, PTL

(* proc_destroy's assertion that the struct it frees has no pid            *)
(* (proc.c:185) never fails on the paths of fork and _exit.                *)
THEOREM DestroyedStructsHaveNoPid == Spec => []DestroyedHasNoPid
<1>1. IInv => DestroyedHasNoPid
  BY DEF IInv, ProcsRight, DestroyedHasNoPid, Alive
<1> QED BY <1>1, Invariance, PTL

(* No zombie outlives its parent: pid_setexitstatus drops the zombies of   *)
(* the process that exits and orphans its other children (pid.c:351-365).  *)
THEOREM NoStrandedZombie == Spec => []ZombiesCollectable
<1>1. IInv => ZombiesCollectable
  BY DEF IInv, ParentsRight, ZombiesCollectable, Occupied
<1> QED BY <1>1, Invariance, PTL

(* An entry looked up by the pid it holds is that entry. *)
LEMMA Lookup ==
  ASSUME NEW c, pidinfo[Slot(c)].pid = c
  PROVE  pi_get(c) = Entry(c)
BY DEF pi_get, Entry

(* A live process and an entry that has not exited come in pairs: fork     *)
(* fills one entry and its failure paths empty it, _exit marks or drops    *)
(* it, and a pid in use is not allocated again.                            *)
THEOREM LiveProcsHaveEntries == Spec => []LiveProcsRegistered
<1>1. ASSUME IInv PROVE LiveProcsRegistered
  <2>1. \A p \in Proc : Alive(p) <=> p_pid[p] # INVALID_PID
    BY <1>1 DEF IInv, ProcsRight
  <2>2. \A p \in Proc : Alive(p) =>
          pi_get(p_pid[p]).pid = p_pid[p] /\ ~pi_get(p_pid[p]).exited
    BY <1>1, Lookup DEF IInv, ProcsRight, Entry
  <2>3. \A p, q \in Proc : Alive(p) /\ Alive(q) /\ p_pid[p] = p_pid[q] => p = q
    BY <1>1 DEF IInv, ProcsRight
  <2>4. \A i \in Occupied : ~pidinfo[i].exited =>
          \E p \in Proc : Alive(p) /\ p_pid[p] = pidinfo[i].pid
    BY <1>1 DEF IInv, ProcsRight, Occupied
  <2> QED BY <2>1, <2>2, <2>3, <2>4 DEF LiveProcsRegistered
<1> QED BY <1>1, Invariance, PTL

(* waitpid succeeds on every pid fork returned that has not been collected *)
(* or disowned, and on no other: pid_wait's ESRCH and EPERM checks         *)
(* (pid.c:414-430) accept exactly the caller's children.                   *)
THEOREM ChildrenCanBeWaitedFor == Spec => []KidsWaitable
<1>1. ASSUME IInv PROVE KidsWaitable
  <2> SUFFICES ASSUME NEW p \in Proc, Alive(p)
               PROVE  /\ \A c \in kids[p] : ~WaitFails(p, c)
                      /\ \A i \in Occupied : pidinfo[i].ppid = p_pid[p] =>
                           \/ pidinfo[i].pid \in kids[p]
                           \/ Forking(p) /\ pidinfo[i].pid = p_pid[newproc[p]]
    BY DEF KidsWaitable
  <2>1. ASSUME NEW c \in kids[p] PROVE ~WaitFails(p, c)
    <3>1. /\ c \in Pid /\ c > INVALID_PID /\ c # INVALID_PID /\ Slot(c) \in Slots
          /\ Entry(c).pid = c /\ Entry(c).ppid = p_pid[p]
      BY <1>1, SlotType DEF IInv, TypeOK, KidsRight, AllPid, Pid, PID_MIN, INVALID_PID
    <3>2. pi_get(c) = Entry(c)
      BY <3>1, Lookup DEF Entry
    <3>3. Entry(c) # Null
      BY <3>1 DEF Null, NewInfo
    <3>4. c # p_pid[p]
      BY <1>1, <3>1, <3>3 DEF IInv, ParentsRight, Entry
    <3>5. ~(c <= INVALID_PID)
      BY <3>1 DEF Pid, INVALID_PID, PID_MIN
    <3> QED BY <3>1, <3>2, <3>3, <3>4, <3>5 DEF WaitFails
  <2>2. \A i \in Occupied : pidinfo[i].ppid = p_pid[p] =>
          \/ pidinfo[i].pid \in kids[p]
          \/ Forking(p) /\ pidinfo[i].pid = p_pid[newproc[p]]
    BY <1>1 DEF IInv, KidsRight, Occupied
  <2> QED BY <2>1, <2>2
<1> QED BY <1>1, Invariance, PTL

(* pid_wait's one cv_wait needs no loop (pid.c:441-443): the entry it      *)
(* sleeps on is still its child's when it wakes, and a sleeper whose child *)
(* has exited has been woken.                                              *)
THEOREM NoLostWakeup == Spec => []WaiterHoldsEntry
<1>1. ASSUME IInv PROVE WaiterHoldsEntry
  <2> SUFFICES ASSUME NEW p \in Proc, Asleep(p)
               PROVE  /\ them[p] \in kids[p]
                      /\ pi_get(them[p]).pid = them[p]
                      /\ pi_get(them[p]).ppid = p_pid[p]
                      /\ pi_get(them[p]).exited <=> pc[p] = "woken"
    BY DEF WaiterHoldsEntry
  <2>1. them[p] \in kids[p] /\ (Entry(them[p]).exited <=> pc[p] = "woken")
    BY <1>1 DEF IInv, SleepersRight
  <2>2. Entry(them[p]).pid = them[p] /\ Entry(them[p]).ppid = p_pid[p]
    BY <1>1, <2>1 DEF IInv, KidsRight
  <2>3. pi_get(them[p]) = Entry(them[p])
    BY <2>2, Lookup DEF Entry
  <2> QED BY <2>1, <2>2, <2>3
<1> QED BY <1>1, Invariance, PTL

-----------------------------------------------------------------------------
(* nprocs counts the entries.                                              *)

Counted == nprocs = Cardinality(Occupied)

LEMMA OccupiedFinite == IsFiniteSet(Occupied)
<1>1. Occupied \subseteq Slots
  BY DEF Occupied
<1>2. IsFiniteSet(Slots)
  BY FS_Interval, TableAssumption DEF Slots
<1> QED BY <1>1, <1>2, FS_Subset

(* A slot that is filled or emptied, and a table left as it was. *)
LEMMA CountAfterPut ==
  ASSUME Counted, NEW s, s \notin Occupied, Occupied' = Occupied \cup {s},
         nprocs' = nprocs + 1
  PROVE  Counted'
BY OccupiedFinite, FS_AddElement DEF Counted

LEMMA CountAfterDrop ==
  ASSUME Counted, NEW s, s \in Occupied, Occupied' = Occupied \ {s},
         nprocs' = nprocs - 1
  PROVE  Counted'
BY OccupiedFinite, FS_RemoveElement DEF Counted

LEMMA CountUnchanged ==
  ASSUME Counted, Occupied' = Occupied, nprocs' = nprocs
  PROVE  Counted'
BY DEF Counted

LEMMA DropEmptiesSlot ==
  ASSUME NEW s \in Slots, pidinfo' = Dropped(pidinfo, {s})
  PROVE  Occupied' = Occupied \ {s}
BY DEF Dropped, Occupied

(* An entry that is found by its own pid is in the table. *)
LEMMA EntryOccupied ==
  ASSUME NEW c \in Pid, Entry(c).pid = c
  PROVE  Slot(c) \in Slots /\ Slot(c) \in Occupied
<1>1. Slot(c) \in Slots
  BY SlotType DEF AllPid
<1>2. c # INVALID_PID
  BY DEF Pid, INVALID_PID, PID_MIN
<1> QED BY <1>1, <1>2 DEF Entry, Occupied, Null, NewInfo

LEMMA CountAfterUnfork ==
  ASSUME IInv, Counted, NEW p \in Proc, Forking(p), ProcUnfork(p)
  PROVE  Counted'
<1> DEFINE c == p_pid[newproc[p]]
<1>1. c \in Pid /\ Entry(c).pid = c
  BY ForkerFacts
<1>2. pidinfo' = Dropped(pidinfo, {Slot(c)}) /\ nprocs' = nprocs - 1
  BY DEF ProcUnfork, PidUnalloc
<1> HIDE DEF c
<1> QED BY <1>1, <1>2, EntryOccupied, DropEmptiesSlot, CountAfterDrop

LEMMA CountAfterCollect ==
  ASSUME IInv, Counted, NEW p \in Proc, NEW c \in kids[p], Collect(p, c)
  PROVE  Counted'
<1>1. c \in Pid /\ Entry(c).pid = c
  BY DEF IInv, TypeOK, KidsRight
<1>2. pidinfo' = Dropped(pidinfo, {Slot(c)}) /\ nprocs' = nprocs - 1
  BY DEF Collect
<1> QED BY <1>1, <1>2, EntryOccupied, DropEmptiesSlot, CountAfterDrop

LEMMA CountAfterAlloc ==
  ASSUME IInv, Counted, NEW p \in Proc, NEW q \in Proc, NEW then, PidAlloc(p, q, then)
  PROVE  Counted'
<1>1. PICK k \in 0..ScanLimit :
         /\ ScanStops(k)
         /\ pidinfo' = [pidinfo EXCEPT ![Slot(Advance(nextpid, k))] =
                          NewInfo(Advance(nextpid, k), p_pid[p])]
  BY DEF PidAlloc
<1> DEFINE pid == Advance(nextpid, k)
<1>2. k \in Nat
  OBVIOUS
<1>3. pid \in Pid
  BY <1>2, AdvanceType DEF IInv, TypeOK
<1>4. Slot(pid) \in Slots /\ pid # INVALID_PID
  BY <1>3, SlotType DEF AllPid, Pid, INVALID_PID, PID_MIN
<1>5. NewInfo(pid, p_pid[p]) # Null
  BY <1>4 DEF NewInfo, Null
<1>6. pidinfo[Slot(pid)] = Null
  BY <1>1 DEF ScanStops
<1> DEFINE s == Slot(pid)
           x == NewInfo(pid, p_pid[p])
<1>7. pidinfo' = [pidinfo EXCEPT ![s] = x]
  BY <1>1
<1> HIDE DEF pid, s, x
<1>8. s \notin Occupied /\ Occupied' = Occupied \cup {s}
  BY <1>4, <1>5, <1>6, <1>7 DEF IInv, TypeOK, Occupied, s, x
<1> QED BY <1>8, CountAfterPut DEF PidAlloc

LEMMA CountAfterDisown ==
  ASSUME IInv, Counted, NEW c \in Pid, PidDisown(c)
  PROVE  Counted'
<1>1. c \in kids[kproc] /\ kproc \in Proc
  BY ProcAssumption DEF PidDisown
<1>2. c \in Pid /\ Entry(c).pid = c
  BY <1>1 DEF IInv, KidsRight
<1>3. Slot(c) \in Slots /\ Slot(c) \in Occupied
  BY <1>2, EntryOccupied
<1>4. CASE pidinfo[Slot(c)].exited
  BY <1>3, <1>4, DropEmptiesSlot, CountAfterDrop DEF PidDisown
<1>5. CASE ~pidinfo[Slot(c)].exited
  <2> DEFINE s == Slot(c)
             x == [pidinfo[s] EXCEPT !.ppid = INVALID_PID]
  <2>1. pidinfo' = [pidinfo EXCEPT ![s] = x] /\ nprocs' = nprocs
    BY <1>5 DEF PidDisown
  <2>2. x.pid # INVALID_PID
    BY <1>2, <1>3 DEF IInv, TypeOK, Info, Entry, Pid, INVALID_PID, PID_MIN
  <2>3. x # Null
    BY <2>2 DEF Null, NewInfo
  <2>4. s \in Occupied /\ s \in Slots
    BY <1>3
  <2> HIDE DEF s, x
  <2>5. Occupied' = Occupied
    BY <2>1, <2>3, <2>4 DEF IInv, TypeOK, Occupied
  <2> QED BY <2>1, <2>5, CountUnchanged
<1> QED BY <1>4, <1>5

LEMMA CountAfterExit ==
  ASSUME IInv, Counted, NEW p \in Proc, NEW status \in Status, SetExitStatus(p, status)
  PROVE  Counted'
<1> DEFINE me     == p_pid[p]
           s      == Slot(me)
           orphan == pidinfo[s].ppid = INVALID_PID
           mine   == {i \in Occupied : pidinfo[i].ppid = me}
           gone   == {i \in mine : pidinfo[i].exited} \cup (IF orphan THEN {s} ELSE {})
<1>1. /\ Alive(p) /\ p # kproc /\ me # INVALID_PID /\ me \in Pid
      /\ Entry(me).pid = me
  BY DEF SetExitStatus, IInv, TypeOK, ProcsRight, Alive
<1>2. pi_get(me) = pidinfo[s]
  BY <1>1 DEF pi_get, Entry
<1>3. s \in Slots /\ s \in Occupied
  BY <1>1, EntryOccupied
<1>4. gone \subseteq Occupied
  BY <1>3
<1>5. /\ pidinfo' = [i \in Slots |->
           IF i \in gone THEN Null
           ELSE IF i \in mine THEN [pidinfo[i] EXCEPT !.ppid = INVALID_PID]
           ELSE IF i = s THEN [pidinfo[i] EXCEPT !.exited = TRUE, !.status = status]
           ELSE pidinfo[i]]
      /\ nprocs' = nprocs - Cardinality(gone)
  <2>1. ChildSlots(me) = mine /\ GoneSlots(me) = gone
    BY <1>2 DEF ChildSlots, Orphan, GoneSlots
  <2> HIDE DEF mine, gone
  <2> QED BY <2>1 DEF SetExitStatus
<1>6. \A i \in Slots : i \in Occupied => pidinfo[i].pid # INVALID_PID
  BY DEF IInv, SlotsRight, Occupied
<1>7. \A i \in Slots :
        /\ i \in gone => pidinfo'[i] = Null
        /\ i \notin gone => pidinfo'[i].pid = pidinfo[i].pid
        /\ i \notin Occupied => pidinfo'[i] = Null
  <2> TAKE i \in Slots
  <2>1. pidinfo[i] \in Info
    BY DEF IInv, TypeOK
  <2>2. i \notin Occupied => pidinfo[i] = Null /\ i \notin mine /\ i # s /\ i \notin gone
    BY <1>3, <1>4 DEF Occupied
  <2>3. i \in gone => pidinfo'[i] = Null
    BY <1>5
  <2>4. ASSUME i \notin gone PROVE pidinfo'[i].pid = pidinfo[i].pid
    <3>1. pidinfo'[i] = IF i \in mine THEN [pidinfo[i] EXCEPT !.ppid = INVALID_PID]
                        ELSE IF i = s
                             THEN [pidinfo[i] EXCEPT !.exited = TRUE, !.status = status]
                        ELSE pidinfo[i]
      BY <2>4, <1>5
    <3> HIDE DEF mine, s
    <3> QED BY <2>1, <3>1 DEF Info
  <2>5. i \notin Occupied => pidinfo'[i] = Null
    BY <2>2, <1>5
  <2> QED BY <2>3, <2>4, <2>5
<1>8. Null.pid = INVALID_PID
  BY DEF Null, NewInfo
<1> HIDE DEF gone, mine, s, me, orphan
<1>9. Occupied' = Occupied \ gone
  BY <1>6, <1>7, <1>8 DEF Occupied
<1>10. Cardinality(Occupied \ gone) = Cardinality(Occupied) - Cardinality(gone)
  <2>1. Occupied \cap gone = gone
    BY <1>4
  <2> QED BY <2>1, OccupiedFinite, FS_Difference
<1> QED BY <1>5, <1>9, <1>10 DEF Counted

LEMMA CountNext == IInv /\ Counted /\ [Next]_vars => Counted'
<1> SUFFICES ASSUME IInv, Counted, [Next]_vars PROVE Counted'
  OBVIOUS
<1>1. ASSUME pidinfo' = pidinfo, nprocs' = nprocs PROVE Counted'
  BY <1>1, CountUnchanged DEF Occupied
<1>2. ASSUME NEW p \in Proc, NEW q \in Proc, ProcFork(p, q) PROVE Counted'
  BY <1>2, CountAfterAlloc DEF ProcFork
<1>3. ASSUME NEW q \in Proc, ProcCreateRunprogram(q) PROVE Counted'
  BY <1>3, CountAfterAlloc, ProcAssumption DEF ProcCreateRunprogram
<1>4. ASSUME NEW p \in Proc,
             AsCopyFails(p) \/ FiletableCopyFails(p) \/ ThreadForkFails(p)
      PROVE  Counted'
  BY <1>4, CountAfterUnfork DEF AsCopyFails, FiletableCopyFails, ThreadForkFails, Forking
<1>5. ASSUME NEW p \in Proc, NEW s \in Status, SetExitStatus(p, s) PROVE Counted'
  BY <1>5, CountAfterExit
<1>6. ASSUME NEW p \in Proc, NEW pid \in Pid, WaitExited(p, pid) PROVE Counted'
  <2>1. pid \in kids[p] /\ Collect(p, pid)
    BY <1>6, WaitTarget DEF WaitExited, CanCall
  <2> QED BY <2>1, CountAfterCollect
<1>7. ASSUME NEW p \in Proc, WaitWoken(p) PROVE Counted'
  <2>1. them[p] \in kids[p] /\ Collect(p, them[p])
    BY <1>7 DEF WaitWoken, IInv, SleepersRight, Asleep
  <2> QED BY <2>1, CountAfterCollect
<1>8. ASSUME NEW pid \in Pid, PidDisown(pid) PROVE Counted'
  BY <1>8, CountAfterDisown
<1>9. ASSUME NEW p \in Proc,
             \/ PidAllocNoMemory(p) \/ AsCopy(p) \/ FiletableCopy(p) \/ ThreadFork(p)
             \/ Runprogram(p) \/ ProcExitDestroy(p) \/ WaitReturns(p)
             \/ ProgThreadFork \/ UNCHANGED vars
      PROVE  Counted'
  BY <1>1, <1>9 DEF PidAllocNoMemory, AsCopy, FiletableCopy, ThreadFork, ChildRuns,
                    Runprogram, ProcExitDestroy, WaitReturns, ProgThreadFork, vars
<1>10. ASSUME NEW p \in Proc, NEW pid \in Pid, WaitNoHang(p, pid) \/ WaitSleep(p, pid)
       PROVE  Counted'
  BY <1>1, <1>10 DEF WaitNoHang, WaitSleep
<1>11. ASSUME ProgThreadFork \/ UNCHANGED vars PROVE Counted'
  BY <1>9, <1>11, ProcAssumption
<1> QED BY <1>2, <1>3, <1>4, <1>5, <1>6, <1>7, <1>8, <1>9, <1>10, <1>11 DEF Next

LEMMA CountInit == Init => Counted
<1>1. ASSUME Init PROVE Occupied = {KERNEL_PID}
  BY <1>1, TableAssumption
     DEF Init, Occupied, Slots, NewInfo, Null, KERNEL_PID, INVALID_PID
<1>2. Cardinality({KERNEL_PID}) = 1
  BY FS_Singleton
<1> QED BY <1>1, <1>2 DEF Init, Counted

(* The table is a sound hash table and nprocs, which pid_alloc trusts when *)
(* it decides that a free slot exists, is exactly the number of entries:   *)
(* the assertions of pi_put and pi_drop (pid.c:185, 204, 205) never fail.  *)
THEOREM TableAlwaysConsistent == Spec => []TableConsistent
<1>1. Init => Counted
  BY CountInit
<1>2. IInv /\ Counted /\ [Next]_vars => Counted'
  BY CountNext
<1>3. IInv /\ Counted => TableConsistent
  BY DEF IInv, SlotsRight, Counted, TableConsistent, Occupied
<1> QED BY <1>1, <1>2, <1>3, Invariance, PTL DEF Spec

-----------------------------------------------------------------------------
(* Every object has one owner.                                             *)

LEMMA InitOwns == Init => OwnsRight /\ ObjectsOwnedOnce
<1> SUFFICES ASSUME Init PROVE OwnsRight /\ ObjectsOwnedOnce
  OBVIOUS
<1>1. OwnsRight
  BY DEF Init, OwnsRight
<1>2. ASSUME NEW k \in Object PROVE {p \in Proc : k \in owns[p]} = {}
  BY DEF Init
<1>3. Cardinality({}) = 0
  BY FS_EmptySet
<1>4. \A k \in Object : live[k] = 0
  BY DEF Init
<1> QED BY <1>1, <1>2, <1>3, <1>4 DEF ObjectsOwnedOnce

LEMMA OwnersFinite == \A k : IsFiniteSet({p \in Proc : k \in owns[p]})
<1> TAKE k
<1>1. {p \in Proc : k \in owns[p]} \subseteq Proc
  OBVIOUS
<1> QED BY <1>1, ProcAssumption, FS_Subset

(* A struct is given objects it did not have. *)
LEMMA OwnersGain ==
  ASSUME TypeOK, ObjectsOwnedOnce, NEW q \in Proc, NEW S \in SUBSET Object,
         S \cap owns[q] = {}, owns' = [owns EXCEPT ![q] = @ \cup S], Acquire(S)
  PROVE  ObjectsOwnedOnce'
<1> SUFFICES ASSUME NEW k \in Object
             PROVE  live'[k] = Cardinality({p \in Proc : k \in owns'[p]})
  BY DEF ObjectsOwnedOnce
<1>o. \A p \in Proc : owns'[p] = IF p = q THEN owns[q] \cup S ELSE owns[p]
  BY DEF TypeOK
<1>c. live[k] = Cardinality({p \in Proc : k \in owns[p]})
  BY DEF ObjectsOwnedOnce
<1>1. CASE k \in S
  <2>1. live'[k] = live[k] + 1
    BY <1>1 DEF Acquire
  <2>2. {p \in Proc : k \in owns'[p]} = {p \in Proc : k \in owns[p]} \cup {q}
    BY <1>1, <1>o
  <2>3. q \notin {p \in Proc : k \in owns[p]}
    BY <1>1
  <2>4. Cardinality({p \in Proc : k \in owns[p]} \cup {q})
          = Cardinality({p \in Proc : k \in owns[p]}) + 1
    BY <2>3, OwnersFinite, FS_AddElement
  <2> QED BY <2>1, <2>2, <2>4, <1>c
<1>2. CASE k \notin S
  <2>1. live'[k] = live[k]
    BY <1>2 DEF Acquire
  <2>2. {p \in Proc : k \in owns'[p]} = {p \in Proc : k \in owns[p]}
    BY <1>2, <1>o
  <2> QED BY <2>1, <2>2, <1>c
<1> QED BY <1>1, <1>2

(* A struct is destroyed, and what it points to with it. *)
LEMMA OwnersLose ==
  ASSUME TypeOK, ObjectsOwnedOnce, NEW q \in Proc, ProcDestroy(q)
  PROVE  ObjectsOwnedOnce'
<1> SUFFICES ASSUME NEW k \in Object
             PROVE  live'[k] = Cardinality({p \in Proc : k \in owns'[p]})
  BY DEF ObjectsOwnedOnce
<1>o. \A p \in Proc : owns'[p] = IF p = q THEN {} ELSE owns[p]
  BY DEF TypeOK, ProcDestroy
<1>c. live[k] = Cardinality({p \in Proc : k \in owns[p]}) /\ live[k] \in Int
  BY DEF ObjectsOwnedOnce, TypeOK
<1>1. CASE k \in owns[q]
  <2>1. live'[k] = live[k] - 1
    BY <1>1 DEF ProcDestroy, Release
  <2>2. {p \in Proc : k \in owns'[p]} = {p \in Proc : k \in owns[p]} \ {q}
    BY <1>1, <1>o
  <2>3. q \in {p \in Proc : k \in owns[p]}
    BY <1>1
  <2>4. Cardinality({p \in Proc : k \in owns[p]} \ {q})
          = Cardinality({p \in Proc : k \in owns[p]}) - 1
    <3>1. IsFiniteSet({p \in Proc : k \in owns[p]})
      BY OwnersFinite
    <3> QED BY <2>3, <3>1, FS_RemoveElement
  <2> QED BY <2>1, <2>2, <2>4, <1>c
<1>2. CASE k \notin owns[q]
  <2>1. live'[k] = live[k]
    BY <1>2 DEF ProcDestroy, Release
  <2>2. {p \in Proc : k \in owns'[p]} = {p \in Proc : k \in owns[p]}
    BY <1>2, <1>o
  <2> QED BY <2>1, <2>2, <1>c
<1> QED BY <1>1, <1>2

(* A failed fork destroys the embryo with what was copied so far. *)
LEMMA OwnsAfterUnfork ==
  ASSUME IInv, OwnsRight, ObjectsOwnedOnce, NEW p \in Proc, Forking(p), ProcUnfork(p)
  PROVE  OwnsRight' /\ ObjectsOwnedOnce'
<1> DEFINE q == newproc[p]
<1>1. q \in Proc /\ q # p /\ ProcDestroy(q)
  BY ForkerFacts DEF ProcUnfork
<1>2. /\ pc' = [pc EXCEPT ![p] = "running", ![q] = "free"]
      /\ newproc' = [newproc EXCEPT ![p] = NoProc]
  BY DEF ProcUnfork
<1> HIDE DEF q
<1>3. ObjectsOwnedOnce'
  BY <1>1, OwnersLose DEF IInv
<1>4. owns' = [owns EXCEPT ![q] = {}]
  BY <1>1 DEF ProcDestroy
<1>5. ASSUME NEW r \in Proc
      PROVE  /\ owns'[r] = {} \/ owns'[r] = owns[r]
             /\ pc'[r] \in {"free", "runprogram"} => owns'[r] = {}
             /\ r # p => newproc'[r] = newproc[r]
             /\ Forking(r)' => r # p /\ pc'[r] = pc[r]
  <2>1. owns'[r] = IF r = q THEN {} ELSE owns[r]
    BY <1>1, <1>4 DEF IInv, TypeOK
  <2>2. pc'[r] = IF r = q THEN "free" ELSE IF r = p THEN "running" ELSE pc[r]
    BY <1>1, <1>2 DEF IInv, TypeOK
  <2>3. r # p => newproc'[r] = newproc[r]
    BY <1>2 DEF IInv, TypeOK
  <2>4. pc[r] \in {"free", "runprogram"} => owns[r] = {}
    BY DEF OwnsRight
  <2> QED BY <2>1, <2>2, <2>3, <2>4, <1>1 DEF Forking
<1>6. OwnsRight'
  <2> SUFFICES ASSUME NEW r \in Proc
               PROVE  /\ pc'[r] \in {"free", "runprogram"} => owns'[r] = {}
                      /\ pc'[r] \in {"as_copy", "prog_thread_fork"} => owns'[newproc'[r]] = {}
                      /\ pc'[r] = "filetable_copy" => "ft" \notin owns'[newproc'[r]]
    BY DEF OwnsRight
  <2>1. ASSUME Forking(r)'
        PROVE  /\ newproc'[r] = newproc[r] /\ pc'[r] = pc[r] /\ newproc[r] \in Proc
    BY <2>1, <1>5 DEF IInv, ForkersRight, Forking
  <2>2. ASSUME Forking(r)'
        PROVE  owns'[newproc'[r]] = {} \/ owns'[newproc'[r]] = owns[newproc[r]]
    BY <2>1, <2>2, <1>5
  <2>3. pc'[r] \in {"as_copy", "prog_thread_fork"} => owns'[newproc'[r]] = {}
    BY <2>1, <2>2 DEF OwnsRight, Forking
  <2>4. pc'[r] = "filetable_copy" => "ft" \notin owns'[newproc'[r]]
    BY <2>1, <2>2 DEF OwnsRight, Forking
  <2> QED BY <2>3, <2>4, <1>5
<1> QED BY <1>3, <1>6

(* Steps that change neither a struct's pointers nor who is new. *)
LEMMA OwnsUnchanged ==
  ASSUME IInv, OwnsRight, ObjectsOwnedOnce, UNCHANGED <<owns, live>>,
         \A r \in Proc :
           /\ pc'[r] \in {"free", "runprogram"} => pc'[r] = pc[r]
           /\ Forking(r)' => pc'[r] = pc[r] /\ newproc'[r] = newproc[r]
  PROVE  OwnsRight' /\ ObjectsOwnedOnce'
<1>1. ObjectsOwnedOnce'
  BY DEF ObjectsOwnedOnce
<1>2. OwnsRight'
  BY DEF OwnsRight, Forking
<1> QED BY <1>1, <1>2

(* Two forkers have two embryos. *)
LEMMA EmbryosApart ==
  ASSUME IInv, NEW p \in Proc, NEW r \in Proc, Forking(p), Forking(r),
         newproc[p] = newproc[r]
  PROVE  p = r
<1>1. p_pid[p] = p_pid[r]
  BY DEF IInv, ForkersRight
<1>2. Alive(p)
  BY DEF Forking, Alive
<1> QED BY <1>1, <1>2 DEF IInv, ProcsRight

(* The struct q, which nobody but its forker knows of, gets an object.     *)
LEMMA OwnsAfterCopy ==
  ASSUME IInv, OwnsRight, ObjectsOwnedOnce, NEW p \in Proc,
         AsCopy(p) \/ FiletableCopy(p)
  PROVE  OwnsRight' /\ ObjectsOwnedOnce'
<1> DEFINE q == newproc[p]
           S == IF pc[p] = "as_copy" THEN owns[p] \cap {"as"} ELSE owns[p] \cap {"ft"}
           to == IF pc[p] = "as_copy" THEN "filetable_copy" ELSE "thread_fork"
<1>1. Forking(p) /\ pc[p] \in {"as_copy", "filetable_copy"}
  BY DEF AsCopy, FiletableCopy, Forking
<1>2. q \in Proc /\ q # p /\ pc[q] = "embryo"
  BY <1>1, ForkerFacts
<1>3. S \cap owns[q] = {} /\ S \in SUBSET Object
  BY <1>1, <1>2 DEF OwnsRight, Object
<1>4. /\ owns' = [owns EXCEPT ![q] = @ \cup S] /\ Acquire(S)
      /\ pc' = [pc EXCEPT ![p] = to] /\ newproc' = newproc
  <2>1. CASE AsCopy(p)
    <3>1. pc[p] = "as_copy" /\ owns[q] = {}
      BY <2>1 DEF AsCopy, OwnsRight
    <3> QED BY <2>1, <3>1 DEF AsCopy
  <2>2. CASE FiletableCopy(p)
    BY <2>2 DEF FiletableCopy
  <2> QED BY <2>1, <2>2
<1>s. pc[p] = "as_copy" => "ft" \notin S /\ owns[q] = {}
  BY <1>1 DEF OwnsRight
<1>t. to = "filetable_copy" => pc[p] = "as_copy"
  OBVIOUS
<1>u. to \in {"filetable_copy", "thread_fork"}
  OBVIOUS
<1>5. newproc[p] = q
  OBVIOUS
<1> HIDE DEF q, S, to
<1>6. ObjectsOwnedOnce'
  BY <1>2, <1>3, <1>4, OwnersGain DEF IInv
<1>7. \A r \in Proc : /\ pc'[r] = (IF r = p THEN to ELSE pc[r])
                       /\ owns'[r] = (IF r = q THEN owns[q] \cup S ELSE owns[r])
  BY <1>4 DEF IInv, TypeOK
<1>8. OwnsRight'
  <2> SUFFICES ASSUME NEW r \in Proc
               PROVE  /\ pc'[r] \in {"free", "runprogram"} => owns'[r] = {}
                      /\ pc'[r] \in {"as_copy", "prog_thread_fork"} => owns'[newproc[r]] = {}
                      /\ pc'[r] = "filetable_copy" => "ft" \notin owns'[newproc[r]]
    BY <1>4 DEF OwnsRight
  <2>1. CASE r = p
    <3>1. pc'[r] = to /\ owns'[newproc[r]] = owns[q] \cup S
      BY <2>1, <1>2, <1>5, <1>7
    <3> QED BY <3>1, <1>s, <1>t, <1>u
  <2>2. CASE r # p
    <3>1. pc'[r] = pc[r]
      BY <2>2, <1>7
    <3>2. pc[r] \in {"free", "runprogram"} => owns'[r] = {}
      BY <1>2, <1>7 DEF OwnsRight
    <3>3. Forking(r) => newproc[r] # q /\ newproc[r] \in Proc
      BY <2>2, <1>1, <1>5, EmbryosApart DEF IInv, ForkersRight
    <3>4. Forking(r) => owns'[newproc[r]] = owns[newproc[r]]
      BY <3>3, <1>7
    <3> QED BY <3>1, <3>2, <3>4 DEF OwnsRight, Forking
  <2> QED BY <2>1, <2>2
<1> QED BY <1>6, <1>8

(* A new struct is empty. *)
LEMMA OwnsAfterAlloc ==
  ASSUME IInv, OwnsRight, ObjectsOwnedOnce, NEW p \in Proc, NEW q \in Proc,
         NEW then \in {"as_copy", "prog_thread_fork"}, PidAlloc(p, q, then)
  PROVE  OwnsRight' /\ ObjectsOwnedOnce'
<1>1. /\ pc[q] = "free" /\ pc[p] = "running"
      /\ pc' = [pc EXCEPT ![p] = then, ![q] = "embryo"]
      /\ newproc' = [newproc EXCEPT ![p] = q] /\ UNCHANGED <<owns, live>>
  BY DEF PidAlloc, CanCall
<1>2. ObjectsOwnedOnce'
  BY <1>1 DEF ObjectsOwnedOnce
<1>3. owns[q] = {} /\ p # q
  BY <1>1 DEF OwnsRight
<1>4. \A r \in Proc :
        /\ pc'[r] = (IF r = p THEN then ELSE IF r = q THEN "embryo" ELSE pc[r])
        /\ newproc'[r] = (IF r = p THEN q ELSE newproc[r])
  BY <1>1, <1>3 DEF IInv, TypeOK
<1>5. OwnsRight'
  <2> SUFFICES ASSUME NEW r \in Proc
               PROVE  /\ pc'[r] \in {"free", "runprogram"} => owns[r] = {}
                      /\ pc'[r] \in {"as_copy", "prog_thread_fork"} => owns[newproc'[r]] = {}
                      /\ pc'[r] = "filetable_copy" => "ft" \notin owns[newproc'[r]]
    BY <1>1 DEF OwnsRight
  <2>1. CASE r = p
    BY <2>1, <1>3, <1>4
  <2>2. CASE r # p
    <3>1. newproc'[r] = newproc[r] /\ (pc'[r] = "embryo" \/ pc'[r] = pc[r])
      BY <2>2, <1>4
    <3> QED BY <3>1 DEF OwnsRight
  <2> QED BY <2>1, <2>2
<1> QED BY <1>2, <1>5

LEMMA OwnsAfterChildRuns ==
  ASSUME IInv, OwnsRight, ObjectsOwnedOnce, NEW p \in Proc, Forking(p),
         NEW as \in {"running", "runprogram"},
         as = "runprogram" => pc[p] = "prog_thread_fork", ChildRuns(p, as)
  PROVE  OwnsRight' /\ ObjectsOwnedOnce'
<1> DEFINE q == newproc[p]
<1>1. /\ pc' = [pc EXCEPT ![p] = "running", ![q] = as]
      /\ newproc' = [newproc EXCEPT ![p] = NoProc] /\ UNCHANGED <<owns, live>>
  BY DEF ChildRuns
<1>2. q \in Proc /\ q # p
  BY ForkerFacts
<1>3. as = "runprogram" => owns[q] = {}
  BY DEF OwnsRight
<1> HIDE DEF q
<1>4. \A r \in Proc :
        /\ pc'[r] = (IF r = q THEN as ELSE IF r = p THEN "running" ELSE pc[r])
        /\ r # p => newproc'[r] = newproc[r]
  BY <1>1, <1>2 DEF IInv, TypeOK
<1>5. OwnsRight'
  <2> SUFFICES ASSUME NEW r \in Proc
               PROVE  /\ pc'[r] \in {"free", "runprogram"} => owns[r] = {}
                      /\ pc'[r] \in {"as_copy", "prog_thread_fork"} => owns[newproc'[r]] = {}
                      /\ pc'[r] = "filetable_copy" => "ft" \notin owns[newproc'[r]]
    BY <1>1 DEF OwnsRight
  <2>1. CASE r = p
    BY <2>1, <1>2, <1>4
  <2>2. CASE r = q
    BY <2>2, <1>2, <1>3, <1>4
  <2>3. CASE r # p /\ r # q
    <3>1. newproc'[r] = newproc[r] /\ pc'[r] = pc[r]
      BY <2>3, <1>4
    <3> QED BY <3>1 DEF OwnsRight
  <2> QED BY <2>1, <2>2, <2>3
<1>6. ObjectsOwnedOnce'
  BY <1>1 DEF ObjectsOwnedOnce
<1> QED BY <1>5, <1>6

(* A process that is no forker's embryo changes its own pointers.          *)
LEMMA OwnsOfProcess ==
  ASSUME IInv, OwnsRight, NEW p \in Proc, pc[p] \in {"runprogram", "exited"},
         newproc' = newproc,
         \A r \in Proc : r # p => pc'[r] = pc[r] /\ owns'[r] = owns[r],
         ~Forking(p)', pc'[p] \in {"free", "runprogram"} => owns'[p] = {}
  PROVE  OwnsRight'
<1>1. \A r \in Proc : Forking(r) => newproc[r] # p /\ newproc[r] \in Proc
  BY DEF IInv, ForkersRight
<1>2. \A r \in Proc : r # p /\ Forking(r) => owns'[newproc[r]] = owns[newproc[r]]
  BY <1>1
<1>3. \A r \in Proc : r # p => (Forking(r)' <=> Forking(r))
  BY DEF Forking
<1> QED BY <1>2, <1>3 DEF OwnsRight, Forking

LEMMA OwnsAfterRunprogram ==
  ASSUME IInv, OwnsRight, ObjectsOwnedOnce, NEW p \in Proc, Runprogram(p)
  PROVE  OwnsRight' /\ ObjectsOwnedOnce'
<1>1. PICK S \in {{}, {"ft"}, Object} : owns' = [owns EXCEPT ![p] = S] /\ Acquire(S)
  BY DEF Runprogram
<1>2. S \in SUBSET Object
  BY DEF Object
<1>3. owns[p] = {}
  BY DEF Runprogram, OwnsRight
<1>4. ObjectsOwnedOnce'
  <2>1. owns' = [owns EXCEPT ![p] = @ \cup S] /\ S \cap owns[p] = {}
    BY <1>1, <1>3
  <2> QED BY <2>1, <1>1, <1>2, OwnersGain DEF IInv
<1>5. /\ \A r \in Proc : r # p => pc'[r] = pc[r] /\ owns'[r] = owns[r]
      /\ pc'[p] = "running"
  BY <1>1 DEF Runprogram, IInv, TypeOK
<1>6. OwnsRight'
  BY <1>5, OwnsOfProcess DEF Runprogram, Forking
<1> QED BY <1>4, <1>6

LEMMA OwnsAfterExitDestroy ==
  ASSUME IInv, OwnsRight, ObjectsOwnedOnce, NEW p \in Proc, ProcExitDestroy(p)
  PROVE  OwnsRight' /\ ObjectsOwnedOnce'
<1>1. ObjectsOwnedOnce'
  BY OwnersLose DEF ProcExitDestroy, IInv
<1>2. /\ \A r \in Proc : r # p => pc'[r] = pc[r] /\ owns'[r] = owns[r]
      /\ pc'[p] = "free" /\ owns'[p] = {}
  BY DEF ProcExitDestroy, ProcDestroy, IInv, TypeOK
<1>3. OwnsRight'
  BY <1>2, OwnsOfProcess DEF ProcExitDestroy, Forking
<1> QED BY <1>1, <1>3

LEMMA OwnsNext ==
  IInv /\ OwnsRight /\ ObjectsOwnedOnce /\ [Next]_vars => OwnsRight' /\ ObjectsOwnedOnce'
<1> SUFFICES ASSUME IInv, OwnsRight, ObjectsOwnedOnce, [Next]_vars
             PROVE  OwnsRight' /\ ObjectsOwnedOnce'
  OBVIOUS
<1>1. ASSUME NEW p \in Proc, NEW q \in Proc, ProcFork(p, q)
      PROVE  OwnsRight' /\ ObjectsOwnedOnce'
  BY <1>1, OwnsAfterAlloc DEF ProcFork
<1>2. ASSUME NEW q \in Proc, ProcCreateRunprogram(q) PROVE OwnsRight' /\ ObjectsOwnedOnce'
  BY <1>2, OwnsAfterAlloc, ProcAssumption DEF ProcCreateRunprogram
<1>3. ASSUME NEW p \in Proc,
             AsCopyFails(p) \/ FiletableCopyFails(p) \/ ThreadForkFails(p)
      PROVE  OwnsRight' /\ ObjectsOwnedOnce'
  BY <1>3, OwnsAfterUnfork DEF AsCopyFails, FiletableCopyFails, ThreadForkFails, Forking
<1>4. ASSUME NEW p \in Proc, AsCopy(p) \/ FiletableCopy(p)
      PROVE  OwnsRight' /\ ObjectsOwnedOnce'
  BY <1>4, OwnsAfterCopy
<1>5. ASSUME NEW p \in Proc, ThreadFork(p) PROVE OwnsRight' /\ ObjectsOwnedOnce'
  BY <1>5, OwnsAfterChildRuns DEF ThreadFork, Forking
<1>6. ASSUME ProgThreadFork PROVE OwnsRight' /\ ObjectsOwnedOnce'
  BY <1>6, OwnsAfterChildRuns, ProcAssumption DEF ProgThreadFork, Forking
<1>7. ASSUME NEW p \in Proc, Runprogram(p) PROVE OwnsRight' /\ ObjectsOwnedOnce'
  BY <1>7, OwnsAfterRunprogram
<1>8. ASSUME NEW p \in Proc, ProcExitDestroy(p) PROVE OwnsRight' /\ ObjectsOwnedOnce'
  BY <1>8, OwnsAfterExitDestroy
<1>9. ASSUME NEW p \in Proc, NEW s \in Status, SetExitStatus(p, s)
      PROVE  OwnsRight' /\ ObjectsOwnedOnce'
  <2>1. \A r \in Proc : pc'[r] \in {"exited", "woken"} \/ pc'[r] = pc[r]
    BY <1>9 DEF SetExitStatus
  <2> QED BY <2>1, <1>9, OwnsUnchanged DEF SetExitStatus, Forking
<1>10. ASSUME NEW p \in Proc, NEW c \in Pid \cup {INVALID_PID}, Collect(p, c)
       PROVE  OwnsRight' /\ ObjectsOwnedOnce'
  <2>1. \A r \in Proc : pc'[r] = "copyout" \/ pc'[r] = pc[r]
    BY <1>10 DEF Collect, IInv, TypeOK
  <2> QED BY <2>1, <1>10, OwnsUnchanged DEF Collect, Forking
<1>11. ASSUME NEW p \in Proc, NEW pid \in Pid,
              WaitExited(p, pid) \/ WaitNoHang(p, pid) \/ WaitSleep(p, pid)
       PROVE  OwnsRight' /\ ObjectsOwnedOnce'
  <2>1. ASSUME WaitNoHang(p, pid) \/ WaitSleep(p, pid)
        PROVE  OwnsRight' /\ ObjectsOwnedOnce'
    <3>1. \A r \in Proc : pc'[r] \in {"copyout", "waiting"} \/ pc'[r] = pc[r]
      BY <2>1 DEF WaitNoHang, WaitSleep, IInv, TypeOK
    <3> QED BY <3>1, <2>1, OwnsUnchanged DEF WaitNoHang, WaitSleep, Forking
  <2> QED BY <1>11, <2>1, <1>10 DEF WaitExited
<1>12. ASSUME NEW p \in Proc, WaitWoken(p) PROVE OwnsRight' /\ ObjectsOwnedOnce'
  BY <1>12, <1>10 DEF WaitWoken, IInv, TypeOK
<1>13. ASSUME NEW p \in Proc, WaitReturns(p) PROVE OwnsRight' /\ ObjectsOwnedOnce'
  <2>1. \A r \in Proc : pc'[r] = "running" \/ pc'[r] = pc[r]
    BY <1>13 DEF WaitReturns, IInv, TypeOK
  <2> QED BY <2>1, <1>13, OwnsUnchanged DEF WaitReturns, Forking
<1>14. ASSUME UNCHANGED <<pc, newproc, owns, live>> PROVE OwnsRight' /\ ObjectsOwnedOnce'
  BY <1>14, OwnsUnchanged DEF Forking
<1>15. ASSUME NEW p \in Proc, PidAllocNoMemory(p) PROVE OwnsRight' /\ ObjectsOwnedOnce'
  BY <1>14, <1>15 DEF PidAllocNoMemory
<1>16. ASSUME NEW pid \in Pid, PidDisown(pid) PROVE OwnsRight' /\ ObjectsOwnedOnce'
  BY <1>14, <1>16 DEF PidDisown
<1>17. ASSUME UNCHANGED vars PROVE OwnsRight' /\ ObjectsOwnedOnce'
  BY <1>14, <1>17 DEF vars
<1> QED BY <1>1, <1>2, <1>3, <1>4, <1>5, <1>6, <1>7, <1>8, <1>9, <1>11, <1>12, <1>13,
           <1>15, <1>16, <1>17 DEF Next

(* Every address space and file table that exists belongs to exactly one   *)
(* struct proc: as_copy and filetable_copy fill an empty struct, and every *)
(* failure path of proc_fork and proc_destroy after _exit give back just   *)
(* what was there (proc.c:108-192 and 266-334).                            *)
THEOREM NothingLeaks == Spec => []ObjectsOwnedOnce
<1>1. Init => OwnsRight /\ ObjectsOwnedOnce
  BY InitOwns
<1>2. IInv /\ OwnsRight /\ ObjectsOwnedOnce /\ [Next]_vars => OwnsRight' /\ ObjectsOwnedOnce'
  BY OwnsNext
<1> QED BY <1>1, <1>2, Invariance, PTL DEF Spec

-----------------------------------------------------------------------------
(* pid_alloc's scan.                                                       *)

LEMMA LeastNat ==
  ASSUME NEW S, S \subseteq Nat, S # {}
  PROVE  \E m \in S : \A k \in S : m <= k
<1> DEFINE R == OpToRel(<, Nat)
<1>1. IsWellFoundedOn(R, Nat)
  BY NatLessThanWellFounded
<1>2. \A x, y \in Nat : <<y, x>> \in R <=> y < x
  BY DEF OpToRel
<1> HIDE DEF R
<1>3. PICK m \in S : \A y \in S : ~ (<<y, m>> \in R)
  BY <1>1, WFMin
<1>4. ASSUME NEW k \in S PROVE m <= k
  <2>1. k \in Nat /\ m \in Nat /\ ~ (<<k, m>> \in R)
    BY <1>3
  <2>2. ~ (k < m)
    BY <1>2, <2>1
  <2> QED BY <2>1, <2>2
<1> QED BY <1>4

LEMMA DivMod ==
  ASSUME NEW m \in Nat, NEW x \in Nat, m > 0
  PROVE  x = m * (x \div m) + (x % m) /\ x \div m \in Nat /\ x % m \in 0..(m - 1)
BY SMT

LEMMA ModUnique ==
  ASSUME NEW m \in Nat, NEW a \in Nat, NEW r \in Nat, r < m
  PROVE  (m * a + r) % m = r
BY SMT

(* m consecutive numbers have every remainder modulo m. *)
LEMMA ModOnto ==
  ASSUME NEW m \in Nat, m > 0, NEW x \in Nat, NEW i \in 0..(m - 1)
  PROVE  \E d \in 0..(m - 1) : (x + d) % m = i
<1>1. PICK a \in Nat, r \in 0..(m - 1) : x = m * a + r
  BY DivMod
<1>2. CASE r <= i
  <2>1. x + (i - r) = m * a + i /\ i - r \in 0..(m - 1)
    BY <1>1, <1>2
  <2>2. (m * a + i) % m = i
    BY ModUnique
  <2> QED BY <2>1, <2>2
<1>3. CASE r > i
  <2>1. i - r + m \in 0..(m - 1) /\ x + (i - r + m) = (m * a + m) + i
    BY <1>1, <1>3
  <2>2. m * (a + 1) = m * a + m /\ a + 1 \in Nat
    OBVIOUS
  <2>3. (m * (a + 1) + i) % m = i
    BY <2>2, ModUnique
  <2> QED BY <2>1, <2>2, <2>3
<1> QED BY <1>2, <1>3

(* Before the last pid the candidates count up; after it they start again  *)
(* from PID_MIN. *)
LEMMA AdvanceUp ==
  ASSUME NEW n \in Pid, NEW k \in Nat, n + k <= PID_MAX
  PROVE  Advance(n, k) = n + k
<1>1. n - PID_MIN + k \in Nat /\ PID_MAX - PID_MIN + 1 \in Nat
      /\ n - PID_MIN + k < PID_MAX - PID_MIN + 1
  BY TableAssumption DEF Pid, PID_MIN, KERNEL_PID
<1>2. \A m, r \in Nat : r < m => r % m = r
  BY SMT
<1>3. (n - PID_MIN + k) % (PID_MAX - PID_MIN + 1) = n - PID_MIN + k
  BY <1>1, <1>2
<1>4. PID_MIN + (n - PID_MIN + k) = n + k
  BY DEF Pid, PID_MIN
<1> QED BY <1>3, <1>4 DEF Advance

LEMMA AdvanceRound ==
  ASSUME NEW n \in Pid, NEW d \in 0..(PROCS_MAX - 1)
  PROVE  Advance(n, PID_MAX + 1 - n + d) = PID_MIN + d
<1> DEFINE M == PID_MAX - PID_MIN + 1
<1>1. /\ M \in Nat /\ d \in Nat /\ d < M
      /\ n - PID_MIN + (PID_MAX + 1 - n + d) = M + d
  BY TableAssumption DEF Pid, PID_MIN, KERNEL_PID
<1> HIDE DEF M
<1>2. (M * 1 + d) % M = d
  BY <1>1, ModUnique
<1>3. M * 1 = M
  BY <1>1
<1>4. (n - PID_MIN + (PID_MAX + 1 - n + d)) % M = d
  BY <1>1, <1>2, <1>3
<1> QED BY <1>4 DEF Advance, M

(* Every slot is reached in at most two rounds of the table. *)
LEMMA ScanReaches ==
  ASSUME NEW n \in Pid, NEW i \in Slots
  PROVE  \E k \in 0..(2 * PROCS_MAX) : Slot(Advance(n, k)) = i
<1>1. PROCS_MAX \in Nat /\ PROCS_MAX > 0 /\ n \in Nat /\ n <= PID_MAX /\ i \in 0..(PROCS_MAX - 1)
  BY TableAssumption DEF Pid, PID_MIN, KERNEL_PID, Slots
<1>2. PICK d \in 0..(PROCS_MAX - 1) : (n + d) % PROCS_MAX = i
  BY <1>1, ModOnto
<1>3. CASE n + d <= PID_MAX
  <2>1. Slot(Advance(n, d)) = i
    BY <1>2, <1>3, AdvanceUp DEF Slot
  <2>2. d \in 0..(2 * PROCS_MAX)
    BY <1>1
  <2> QED BY <2>1, <2>2
<1>4. CASE n + d > PID_MAX
  <2>1. PICK e \in 0..(PROCS_MAX - 1) : (PID_MIN + e) % PROCS_MAX = i
    <3>1. PID_MIN \in Nat
      BY DEF PID_MIN
    <3> QED BY <1>1, <3>1, ModOnto
  <2>2. Slot(Advance(n, PID_MAX + 1 - n + e)) = i
    BY <2>1, AdvanceRound DEF Slot
  <2>3. PID_MAX + 1 - n + e \in 0..(2 * PROCS_MAX)
    BY <1>1, <1>4, TableAssumption
  <2> QED BY <2>2, <2>3
<1> QED BY <1>1, <1>3, <1>4, TableAssumption

LEMMA FreeSlot ==
  ASSUME Counted, nprocs # PROCS_MAX
  PROVE  \E i \in Slots : pidinfo[i] = Null
<1>1. Cardinality(Slots) = PROCS_MAX
  <2>1. 0 <= PROCS_MAX - 1 /\ PROCS_MAX - 1 \in Int
    BY TableAssumption DEF KERNEL_PID
  <2>2. Cardinality(0..(PROCS_MAX - 1)) = PROCS_MAX - 1 - 0 + 1
    BY <2>1, FS_Interval
  <2> QED BY <2>1, <2>2, TableAssumption DEF Slots
<1>2. Occupied # Slots
  BY <1>1 DEF Counted
<1> QED BY <1>2 DEF Occupied

(* pid_alloc finds a free slot whenever nprocs says there is one, and in   *)
(* fewer turns than its assertion allows (pid.c:257-260), whatever nextpid *)
(* is and wherever the pids wrap round: there are at least as many pids as *)
(* slots, so one round from nextpid to the last pid and on from PID_MIN    *)
(* meets every slot.                                                       *)
THEOREM ScanAlwaysTerminates == Spec => []ScanTerminates
<1>1. ASSUME IInv, Counted, nprocs # PROCS_MAX
      PROVE  \E k \in 0..ScanLimit : ScanStops(k)
  <2>1. PICK i \in Slots : pidinfo[i] = Null
    BY <1>1, FreeSlot
  <2>2. nextpid \in Pid
    BY <1>1 DEF IInv, TypeOK
  <2>3. PICK k \in 0..(2 * PROCS_MAX) : Slot(Advance(nextpid, k)) = i
    BY <2>2, ScanReaches
  <2> DEFINE S == {j \in Nat : pidinfo[Slot(Advance(nextpid, j))] = Null}
  <2>4. k \in Nat /\ k <= 2 * PROCS_MAX
    BY TableAssumption
  <2>5. k \in S /\ S \subseteq Nat
    BY <2>1, <2>3, <2>4
  <2>6. PICK m \in S : \A j \in S : m <= j
    BY <2>5, LeastNat
  <2>7. m \in Nat /\ m <= k
    BY <2>5, <2>6
  <2>8. m \in 0..ScanLimit
    BY <2>4, <2>7, TableAssumption DEF ScanLimit
  <2>9. \A j \in 0..(m - 1) : j \in Nat /\ ~(m <= j)
    BY <2>7
  <2>10. \A j \in 0..(m - 1) : j \notin S
    BY <2>6, <2>9
  <2>11. \A j \in 0..(m - 1) : pidinfo[Slot(Advance(nextpid, j))] # Null
    BY <2>9, <2>10
  <2>12. pidinfo[Slot(Advance(nextpid, m))] = Null
    BY <2>6
  <2> QED BY <2>8, <2>11, <2>12 DEF ScanStops
<1>2. IInv /\ Counted => ScanTerminates
  BY <1>1 DEF ScanTerminates
<1>3. Init => Counted
  BY CountInit
<1>4. IInv /\ Counted /\ [Next]_vars => Counted'
  BY CountNext
<1> QED BY <1>2, <1>3, <1>4, Invariance, PTL DEF Spec

-----------------------------------------------------------------------------
(* The process table implements ProcessTree, for every table size, pid     *)
(* range, set of struct procs and set of statuses.                         *)

(* What exit leaves in the table is a status, and only a waitpid that has  *)
(* collected a child holds a reply.                                        *)

LEMMA InitOutcomes == Init => OutcomesRight
BY DEF Init, OutcomesRight, NewInfo, Null

LEMMA OutcomesNext == IInv /\ OutcomesRight /\ [Next]_vars => OutcomesRight'
<1> SUFFICES ASSUME IInv, OutcomesRight, [Next]_vars PROVE OutcomesRight'
  OBVIOUS
<1> DEFINE Kept(i) == pidinfo'[i].exited => pidinfo[i].exited /\ pidinfo'[i].status = pidinfo[i].status
           Silent(r) == (pc'[r] # "copyout" => pc[r] # "copyout") /\ reply'[r] = reply[r]
<1>n. ~Null.exited
  BY DEF Null, NewInfo
<1>t. /\ pidinfo \in [Slots -> Info] /\ pc = [r \in Proc |-> pc[r]]
      /\ reply = [r \in Proc |-> reply[r]]
  BY DEF IInv, TypeOK
<1>k. ASSUME \A i \in Slots : Kept(i), \A r \in Proc : Silent(r) PROVE OutcomesRight'
  BY <1>k DEF OutcomesRight
<1>d. ASSUME NEW S, pidinfo' = Dropped(pidinfo, S) PROVE \A i \in Slots : Kept(i)
  BY <1>d, <1>n DEF Dropped
<1>1. ASSUME NEW p \in Proc, NEW q \in Proc, NEW then \in {"as_copy", "prog_thread_fork"},
             PidAlloc(p, q, then)
      PROVE  OutcomesRight'
  <2>1. PICK k \in 0..ScanLimit :
          pidinfo' = [pidinfo EXCEPT ![Slot(Advance(nextpid, k))] =
                         NewInfo(Advance(nextpid, k), p_pid[p])]
    BY <1>1 DEF PidAlloc
  <2>2. \A i \in Slots : Kept(i)
    <3> TAKE i \in Slots
    <3>1. pidinfo'[i] = pidinfo[i]
            \/ pidinfo'[i] = NewInfo(Advance(nextpid, k), p_pid[p])
      BY <2>1, <1>t
    <3> QED BY <3>1 DEF NewInfo
  <2>3. pc' = [pc EXCEPT ![p] = then, ![q] = "embryo"] /\ reply' = reply
    BY <1>1 DEF PidAlloc
  <2>4. pc[p] = "running" /\ pc[q] = "free"
    BY <1>1 DEF PidAlloc, CanCall
  <2>5. \A r \in Proc : Silent(r)
    BY <2>3, <2>4, <1>t
  <2> QED BY <2>2, <2>5, <1>k
<1>2. ASSUME NEW p \in Proc, Forking(p), ProcUnfork(p) PROVE OutcomesRight'
  <2>1. newproc[p] \in Proc /\ pc[newproc[p]] = "embryo"
    BY <1>2, ForkerFacts
  <2>2. \A r \in Proc : Silent(r)
    BY <1>2, <2>1, <1>t DEF ProcUnfork, Forking
  <2> QED BY <1>2, <2>2, <1>d, <1>k DEF ProcUnfork, PidUnalloc
<1>3. ASSUME NEW p \in Proc, Forking(p), NEW as, ChildRuns(p, as) PROVE OutcomesRight'
  <2>1. newproc[p] \in Proc /\ pc[newproc[p]] = "embryo"
    BY <1>3, ForkerFacts
  <2>2. \A r \in Proc : Silent(r)
    BY <1>3, <2>1, <1>t DEF ChildRuns, Forking
  <2> QED BY <1>3, <2>2, <1>k DEF ChildRuns
<1>4. ASSUME NEW p \in Proc, AsCopy(p) \/ FiletableCopy(p) \/ Runprogram(p)
                              \/ ProcExitDestroy(p)
      PROVE  OutcomesRight'
  <2>1. \A r \in Proc : Silent(r)
    BY <1>4, <1>t DEF AsCopy, FiletableCopy, Runprogram, ProcExitDestroy
  <2> QED BY <1>4, <2>1, <1>k DEF AsCopy, FiletableCopy, Runprogram, ProcExitDestroy
<1>5. ASSUME NEW p \in Proc, NEW s \in Status, SetExitStatus(p, s) PROVE OutcomesRight'
  <2>1. \A i \in Slots : pidinfo'[i].exited =>
          \/ pidinfo'[i].status = s
          \/ pidinfo[i].exited /\ pidinfo'[i].status = pidinfo[i].status
    <3> TAKE i \in Slots
    <3>1. \/ pidinfo'[i] = Null
          \/ pidinfo'[i] = [pidinfo[i] EXCEPT !.ppid = INVALID_PID]
          \/ pidinfo'[i] = [pidinfo[i] EXCEPT !.exited = TRUE, !.status = s]
          \/ pidinfo'[i] = pidinfo[i]
      BY <1>5 DEF SetExitStatus
    <3>2. pidinfo[i] \in Info
      BY <1>t
    <3> QED BY <3>1, <3>2, <1>n DEF Info
  <2>2. \A r \in Proc : pc'[r] # "copyout" => pc[r] # "copyout"
    BY <1>5 DEF SetExitStatus, WokenBy
  <2> QED BY <1>5, <2>1, <2>2 DEF OutcomesRight, SetExitStatus
<1>6. ASSUME NEW p \in Proc, NEW c, Collect(p, c) PROVE OutcomesRight'
  <2>1. \A i \in Slots : Kept(i)
    BY <1>6, <1>d DEF Collect
  <2>2. \A r \in Proc : r # p => Silent(r)
    BY <1>6, <1>t DEF Collect
  <2>3. pc'[p] = "copyout"
    BY <1>6, <1>t DEF Collect
  <2> QED BY <2>1, <2>2, <2>3 DEF OutcomesRight
<1>7. ASSUME NEW p \in Proc, NEW pid \in Pid,
             WaitExited(p, pid) \/ WaitNoHang(p, pid) \/ WaitSleep(p, pid)
      PROVE  OutcomesRight'
  <2>1. ASSUME WaitNoHang(p, pid) \/ WaitSleep(p, pid) PROVE OutcomesRight'
    <3>1. UNCHANGED <<pidinfo, reply>> /\ \A r \in Proc : r # p => pc'[r] = pc[r]
      BY <2>1, <1>t DEF WaitNoHang, WaitSleep
    <3>2. pc[p] = "running"
      BY <2>1 DEF WaitNoHang, WaitSleep, CanCall
    <3> QED BY <3>1, <3>2 DEF OutcomesRight
  <2> QED BY <1>7, <2>1, <1>6 DEF WaitExited
<1>8. ASSUME NEW p \in Proc, WaitWoken(p) PROVE OutcomesRight'
  BY <1>8, <1>6 DEF WaitWoken
<1>9. ASSUME NEW p \in Proc, WaitReturns(p) PROVE OutcomesRight'
  <2>1. /\ pidinfo' = pidinfo /\ reply'[p][1] = INVALID_PID
        /\ \A r \in Proc : r # p => pc'[r] = pc[r] /\ reply'[r] = reply[r]
    BY <1>9, <1>t DEF WaitReturns
  <2> QED BY <2>1 DEF OutcomesRight
<1>10. ASSUME NEW pid \in Pid, PidDisown(pid) PROVE OutcomesRight'
  <2>1. \A i \in Slots : Kept(i)
    <3>1. CASE pidinfo' = Dropped(pidinfo, {Slot(pid)})
      BY <3>1, <1>d
    <3>2. CASE pidinfo' = [pidinfo EXCEPT ![Slot(pid)].ppid = INVALID_PID]
      <4> TAKE i \in Slots
      <4>1. pidinfo'[i] = pidinfo[i] \/ pidinfo'[i] = [pidinfo[i] EXCEPT !.ppid = INVALID_PID]
        BY <3>2, <1>t
      <4>2. pidinfo[i] \in Info
        BY <1>t
      <4> QED BY <4>1, <4>2 DEF Info
    <3> QED BY <1>10, <3>1, <3>2 DEF PidDisown
  <2> QED BY <1>10, <2>1, <1>k DEF PidDisown
<1>11. ASSUME UNCHANGED <<pidinfo, pc, reply>> PROVE OutcomesRight'
  BY <1>11 DEF OutcomesRight
<1>12. ASSUME NEW p \in Proc, PidAllocNoMemory(p) PROVE OutcomesRight'
  BY <1>11, <1>12 DEF PidAllocNoMemory
<1>13. ASSUME UNCHANGED vars PROVE OutcomesRight'
  BY <1>11, <1>13 DEF vars
<1> HIDE DEF Kept, Silent
<1>14. ASSUME NEW p \in Proc, NEW q \in Proc, ProcFork(p, q) PROVE OutcomesRight'
  BY <1>14, <1>1 DEF ProcFork
<1>15. ASSUME NEW q \in Proc, ProcCreateRunprogram(q) PROVE OutcomesRight'
  BY <1>15, <1>1, ProcAssumption DEF ProcCreateRunprogram
<1>16. ASSUME NEW p \in Proc, AsCopyFails(p) \/ FiletableCopyFails(p) \/ ThreadForkFails(p)
       PROVE  OutcomesRight'
  BY <1>16, <1>2 DEF AsCopyFails, FiletableCopyFails, ThreadForkFails, Forking
<1>17. ASSUME NEW p \in Proc, ThreadFork(p) PROVE OutcomesRight'
  BY <1>17, <1>3 DEF ThreadFork, Forking
<1>18. ASSUME ProgThreadFork PROVE OutcomesRight'
  BY <1>18, <1>3, ProcAssumption DEF ProgThreadFork, Forking
<1> QED BY <1>4, <1>5, <1>7, <1>8, <1>9, <1>10, <1>12, <1>13, <1>14, <1>15, <1>16,
           <1>17, <1>18 DEF Next

-----------------------------------------------------------------------------
(* The tree a table shows.                                                 *)

Parents == [c \in PidsInUse |-> pi_get(c).ppid]
States  == [c \in PidsInUse |-> StateOf(c)]
Replies == {<<p_pid[p], reply[p][1], reply[p][2]>> :
               p \in {r \in Proc : reply[r][1] # INVALID_PID}}

TreeStep == Tree!TreeNext \/ UNCHANGED Tree!treeVars

(* A pid is in use when the entry in its slot is its own. *)
Used(c) == c \in AllPid /\ c # INVALID_PID /\ Entry(c).pid = c

LEMMA PidsOf ==
  ASSUME NEW t \in [Slots -> Info], NEW c,
         \A i \in Slots : t[i] = Null \/ (t[i].pid # INVALID_PID /\ Slot(t[i].pid) = i)
  PROVE  c \in {t[i].pid : i \in {j \in Slots : t[j] # Null}} <=>
           c \in AllPid /\ c # INVALID_PID /\ t[Slot(c)].pid = c
<1>1. ASSUME NEW i \in Slots, t[i] # Null, c = t[i].pid
      PROVE  c \in AllPid /\ c # INVALID_PID /\ t[Slot(c)].pid = c
  BY <1>1 DEF Info, AllPid
<1>2. ASSUME c \in AllPid, c # INVALID_PID, t[Slot(c)].pid = c
      PROVE  Slot(c) \in Slots /\ t[Slot(c)] # Null
  BY <1>2, SlotType DEF Null, NewInfo
<1> QED BY <1>1, <1>2

LEMMA InUse == ASSUME IInv, NEW c PROVE c \in PidsInUse <=> Used(c)
<1>1. /\ pidinfo \in [Slots -> Info]
      /\ \A i \in Slots : pidinfo[i] = Null
                           \/ (pidinfo[i].pid # INVALID_PID /\ Slot(pidinfo[i].pid) = i)
  BY DEF IInv, TypeOK, SlotsRight
<1> QED BY <1>1, PidsOf DEF PidsInUse, Occupied, Used, Entry

LEMMA InUseNext == ASSUME IInv', NEW c PROVE c \in PidsInUse' <=> Used(c)'
<1>1. /\ pidinfo' \in [Slots -> Info]
      /\ \A i \in Slots : pidinfo'[i] = Null
                            \/ (pidinfo'[i].pid # INVALID_PID /\ Slot(pidinfo'[i].pid) = i)
  BY DEF IInv, TypeOK, SlotsRight
<1> QED BY <1>1, PidsOf DEF PidsInUse, Occupied, Used, Entry

(* What the tree says of a pid in use. *)
LEMMA Seen ==
  ASSUME IInv, OutcomesRight, NEW c, Used(c)
  PROVE  /\ Slot(c) \in Slots /\ pi_get(c) = Entry(c) /\ Entry(c) \in Info
         /\ pidinfo[Slot(c)] # Null
         /\ IsEmbryo(c) => ~Entry(c).exited
         /\ StateOf(c) \in Status <=> Entry(c).exited
         /\ Entry(c).exited => StateOf(c) = Entry(c).status
         /\ ~Entry(c).exited => StateOf(c) = (IF IsEmbryo(c) THEN "embryo" ELSE "running")
<1>1. Slot(c) \in Slots
  BY SlotType DEF Used
<1>2. pi_get(c) = Entry(c)
  BY Lookup DEF Used, Entry
<1>3. Entry(c) \in Info /\ pidinfo[Slot(c)] # Null
  BY <1>1 DEF IInv, TypeOK, Entry, Used, Null, NewInfo
<1>4. ASSUME IsEmbryo(c) PROVE ~Entry(c).exited
  <2>1. PICK q \in Proc : pc[q] = "embryo" /\ p_pid[q] = c
    BY <1>4 DEF IsEmbryo
  <2>2. Alive(q)
    BY <2>1 DEF Alive
  <2> QED BY <2>1, <2>2 DEF IInv, ProcsRight
<1>5. Entry(c).exited => Entry(c).status \in Status
  BY <1>1 DEF OutcomesRight, Entry
<1>6. "embryo" \notin Status /\ "running" \notin Status
  BY StatusAssumption
<1>7. StateOf(c) = IF IsEmbryo(c) THEN "embryo"
                   ELSE IF Entry(c).exited THEN Entry(c).status ELSE "running"
  BY <1>2 DEF StateOf
<1> QED BY <1>1, <1>2, <1>3, <1>4, <1>5, <1>6, <1>7

-----------------------------------------------------------------------------
(* What a step changes of it.                                              *)

LEMMA SlotKept ==
  ASSUME NEW c, pidinfo'[Slot(c)] = pidinfo[Slot(c)]
  PROVE  /\ Used(c)' <=> Used(c)
         /\ (pi_get(c))' = pi_get(c) /\ (Entry(c))' = Entry(c)
         /\ (IsEmbryo(c)' <=> IsEmbryo(c)) => StateOf(c)' = StateOf(c)
<1>1. (pi_get(c))' = pi_get(c) /\ (Entry(c))' = Entry(c)
  BY DEF pi_get, Entry
<1>2. Used(c)' <=> Used(c)
  BY <1>1 DEF Used
<1>3. (IsEmbryo(c)' <=> IsEmbryo(c)) => StateOf(c)' = StateOf(c)
  BY <1>1 DEF StateOf
<1> QED BY <1>1, <1>2, <1>3

LEMMA EmbryosKept ==
  ASSUME \A q \in Proc : /\ pc'[q] = "embryo" <=> pc[q] = "embryo"
                         /\ pc[q] = "embryo" => p_pid'[q] = p_pid[q],
         NEW c
  PROVE  IsEmbryo(c)' <=> IsEmbryo(c)
BY DEF IsEmbryo

LEMMA StaysPut ==
  ASSUME pidinfo' = pidinfo, Replies' = Replies,
         \A c : IsEmbryo(c)' <=> IsEmbryo(c)
  PROVE  UNCHANGED Tree!treeVars
<1>1. PidsInUse' = PidsInUse
  BY DEF PidsInUse, Occupied
<1>2. \A c \in PidsInUse : (pi_get(c))' = pi_get(c) /\ StateOf(c)' = StateOf(c)
  BY SlotKept
<1>3. Parents' = Parents /\ States' = States
  BY <1>1, <1>2 DEF Parents, States
<1> QED BY <1>3 DEF Tree!treeVars, Parents, States, Replies

(* The entry of d is dropped and the other entries stay. *)
LEMMA PidGone ==
  ASSUME IInv, IInv', NEW d, Used(d), pidinfo' = Dropped(pidinfo, {Slot(d)}),
         \A c : c # d => (IsEmbryo(c)' <=> IsEmbryo(c))
  PROVE  /\ d \in PidsInUse
         /\ Parents' = Tree!Without(Parents, {d}) /\ States' = Tree!Without(States, {d})
<1>1. d \in PidsInUse /\ Slot(d) \in Slots
  BY InUse, SlotType DEF Used
<1>2. pidinfo'[Slot(d)] = Null
  BY <1>1 DEF Dropped
<1>3. ~Used(d)'
  BY <1>2 DEF Used, Entry, Null, NewInfo
<1>4. ASSUME NEW c, c # d, Used(c) \/ Used(c)'
      PROVE  pidinfo'[Slot(c)] = pidinfo[Slot(c)]
  <2>1. Slot(c) \in Slots
    BY <1>4, SlotType DEF Used
  <2>2. Slot(c) # Slot(d)
    BY <1>2, <1>4 DEF Used, Entry, Null, NewInfo
  <2> QED BY <2>1, <2>2 DEF Dropped
<1>5. \A c : Used(c)' <=> Used(c) /\ c # d
  BY <1>3, <1>4, SlotKept
<1>6. PidsInUse' = PidsInUse \ {d}
  <2>1. \A c : c \in PidsInUse' <=> c \in PidsInUse /\ c # d
    BY <1>5, InUse, InUseNext
  <2> QED BY <2>1
<1>7. \A c \in PidsInUse \ {d} : (pi_get(c))' = pi_get(c) /\ StateOf(c)' = StateOf(c)
  BY <1>4, InUse, SlotKept
<1>8. \A c \in PidsInUse \ {d} : (pi_get(c).ppid)' = pi_get(c).ppid
  BY <1>7
<1>9. Parents' = Tree!Without(Parents, {d})
  BY <1>6, <1>8 DEF Parents, Tree!Without
<1>10. States' = Tree!Without(States, {d})
  BY <1>6, <1>7 DEF States, Tree!Without
<1> QED BY <1>1, <1>9, <1>10

-----------------------------------------------------------------------------
(* Each step of the tree.                                                  *)

LEMMA AbortOrCollect ==
  ASSUME NEW d \in PidsInUse,
         Parents' = Tree!Without(Parents, {d}), States' = Tree!Without(States, {d})
  PROVE  /\ StateOf(d) = "embryo" /\ Replies' = Replies => Tree!Abort(d)
         /\ StateOf(d) \in Status /\ Replies' = Replies \cup {<<pi_get(d).ppid, d, StateOf(d)>>}
              => Tree!Collect(d)
         /\ StateOf(d) \in Status /\ Replies' = Replies /\ pi_get(d).ppid # INVALID_PID
              => Tree!Disown(d)
<1>1. Tree!InUse = PidsInUse /\ Parents[d] = pi_get(d).ppid /\ States[d] = StateOf(d)
  BY DEF Tree!InUse, Parents, States
<1>2. d \in Tree!Zombies <=> StateOf(d) \in Status
  BY <1>1 DEF Tree!Zombies, Tree!InUse, States
<1>3. StateOf(d) = "embryo" /\ Replies' = Replies => Tree!Abort(d)
  BY <1>1 DEF Tree!Abort, Tree!InUse, Parents, States, Replies
<1>4. StateOf(d) \in Status /\ Replies' = Replies \cup {<<pi_get(d).ppid, d, StateOf(d)>>}
        => Tree!Collect(d)
  BY <1>1, <1>2 DEF Tree!Collect, Parents, States, Replies
<1>5. StateOf(d) \in Status /\ Replies' = Replies /\ pi_get(d).ppid # INVALID_PID
        => Tree!Disown(d)
  BY <1>1, <1>2 DEF Tree!Disown, Tree!InUse, Parents, States, Replies
<1> QED BY <1>3, <1>4, <1>5

(* A live process that is no embryo runs, as the tree sees it. *)
LEMMA RunningPid ==
  ASSUME IInv, OutcomesRight, NEW p \in Proc, Alive(p), pc[p] # "embryo"
  PROVE  /\ Used(p_pid[p]) /\ p_pid[p] \in PidsInUse
         /\ ~IsEmbryo(p_pid[p]) /\ ~Entry(p_pid[p]).exited
         /\ StateOf(p_pid[p]) = "running"
<1>1. p_pid[p] \in AllPid /\ p_pid[p] # INVALID_PID
  BY DEF IInv, TypeOK, ProcsRight, AllPid
<1>2. Entry(p_pid[p]).pid = p_pid[p] /\ ~Entry(p_pid[p]).exited
  BY DEF IInv, ProcsRight
<1>3. Used(p_pid[p])
  BY <1>1, <1>2 DEF Used
<1>4. ~IsEmbryo(p_pid[p])
  BY DEF IsEmbryo, IInv, ProcsRight
<1>5. p_pid[p] \in PidsInUse
  BY <1>3, InUse
<1>6. StateOf(p_pid[p]) = "running"
  BY <1>2, <1>3, <1>4, Seen
<1> QED BY <1>2, <1>3, <1>4, <1>5, <1>6

(* Replies are kept while their owners keep their pids. *)
LEMMA RepliesKept ==
  ASSUME reply' = reply,
         \A r \in Proc : reply[r][1] # INVALID_PID => p_pid'[r] = p_pid[r]
  PROVE  Replies' = Replies
<1>1. \A r \in {u \in Proc : reply[u][1] # INVALID_PID} :
        <<p_pid'[r], reply[r][1], reply[r][2]>> = <<p_pid[r], reply[r][1], reply[r][2]>>
  OBVIOUS
<1> QED BY <1>1 DEF Replies

LEMMA RefineFork ==
  ASSUME IInv, IInv', OutcomesRight, NEW p \in Proc, NEW q \in Proc, NEW then,
         then # "embryo", PidAlloc(p, q, then)
  PROVE  TreeStep
<1>1. PICK k \in 0..ScanLimit :
        /\ ScanStops(k)
        /\ pidinfo' = [pidinfo EXCEPT ![Slot(Advance(nextpid, k))] =
                          NewInfo(Advance(nextpid, k), p_pid[p])]
        /\ p_pid' = [p_pid EXCEPT ![q] = Advance(nextpid, k)]
  BY DEF PidAlloc
<1>2. k \in Nat
  OBVIOUS
<1>3. PICK c \in Pid : c = Advance(nextpid, k)
  BY <1>2, AdvanceType DEF IInv, TypeOK
<1>4. PICK P : P = p_pid[p]
  OBVIOUS
<1> DEFINE new == NewInfo(c, P)
<1>5. Slot(c) \in Slots /\ c # INVALID_PID /\ c \in AllPid
  BY SlotType DEF AllPid, Pid, INVALID_PID, PID_MIN
<1>6. /\ pidinfo[Slot(c)].pid = INVALID_PID
      /\ pidinfo' = [pidinfo EXCEPT ![Slot(c)] = new]
      /\ p_pid' = [p_pid EXCEPT ![q] = c]
  BY <1>1, <1>3, <1>4 DEF ScanStops, Null, NewInfo
<1>7. pidinfo'[Slot(c)] = new /\ new.pid = c /\ new.ppid = P /\ ~new.exited
  BY <1>5, <1>6 DEF IInv, TypeOK, NewInfo
<1> HIDE DEF new
<1>8. /\ pc[p] = "running" /\ pc[q] = "free" /\ reply' = reply
      /\ pc' = [pc EXCEPT ![p] = then, ![q] = "embryo"]
  BY DEF PidAlloc, CanCall
<1>9. ASSUME NEW d, d # c
      PROVE  /\ Used(d) \/ Used(d)' => pidinfo'[Slot(d)] = pidinfo[Slot(d)]
             /\ IsEmbryo(d)' <=> IsEmbryo(d)
  <2>1. ASSUME Used(d) \/ Used(d)' PROVE pidinfo'[Slot(d)] = pidinfo[Slot(d)]
    <3>1. Slot(d) # Slot(c)
      BY <2>1, <1>6, <1>7, <1>9 DEF Used, Entry
    <3>2. Slot(d) \in Slots
      BY <2>1, SlotType DEF Used
    <3> QED BY <3>1, <3>2, <1>6 DEF IInv, TypeOK
  <2>2. ASSUME NEW r \in Proc
        PROVE  pc'[r] = "embryo" /\ p_pid'[r] = d <=> pc[r] = "embryo" /\ p_pid[r] = d
    <3>1. CASE r = q
      BY <3>1, <1>6, <1>8, <1>9 DEF IInv, TypeOK
    <3>2. CASE r # q
      BY <3>2, <1>6, <1>8 DEF IInv, TypeOK
    <3> QED BY <3>1, <3>2
  <2>3. IsEmbryo(d)' <=> IsEmbryo(d)
    BY <2>2 DEF IsEmbryo
  <2> QED BY <2>1, <2>3
<1>10. Used(c)' /\ ~Used(c) /\ (pi_get(c))' = new
  BY <1>5, <1>6, <1>7 DEF Used, Entry, pi_get
<1>11. StateOf(c)' = "embryo"
  <2>1. pc'[q] = "embryo" /\ p_pid'[q] = c
    BY <1>6, <1>8 DEF IInv, TypeOK
  <2>2. IsEmbryo(c)'
    BY <2>1 DEF IsEmbryo
  <2> QED BY <2>2 DEF StateOf
<1>12. \A d : Used(d)' <=> Used(d) \/ d = c
  BY <1>9, <1>10, SlotKept
<1>13. PidsInUse' = PidsInUse \cup {c}
  <2>1. \A d : d \in PidsInUse' <=> d \in PidsInUse \/ d = c
    BY <1>12, InUse, InUseNext
  <2> QED BY <2>1
<1>14. \A d \in PidsInUse : d # c /\ (pi_get(d))' = pi_get(d) /\ StateOf(d)' = StateOf(d)
  BY <1>9, <1>10, InUse, SlotKept
<1>15. /\ \A d \in PidsInUse \cup {c} :
             (pi_get(d).ppid)' = IF d = c THEN P ELSE pi_get(d).ppid
       /\ \A d \in PidsInUse \cup {c} :
             StateOf(d)' = IF d = c THEN "embryo" ELSE StateOf(d)
  BY <1>7, <1>10, <1>11, <1>14
<1>16. /\ Parents' = [d \in PidsInUse \cup {c} |-> IF d = c THEN P ELSE Parents[d]]
       /\ States' = [d \in PidsInUse \cup {c} |-> IF d = c THEN "embryo" ELSE States[d]]
  BY <1>13, <1>15 DEF Parents, States
<1>17. Replies' = Replies
  <2>1. reply[q][1] = INVALID_PID
    BY <1>8 DEF OutcomesRight
  <2> QED BY <2>1, <1>6, <1>8, RepliesKept DEF IInv, TypeOK
<1>18. P \in PidsInUse /\ StateOf(P) = "running"
  BY <1>4, <1>8, RunningPid DEF Alive
<1>19. c \in Pid \ PidsInUse
  BY <1>10, InUse
<1>20. Tree!Fork(P, c)
  <2>1. Tree!InUse = PidsInUse /\ States[P] = StateOf(P)
    BY <1>18 DEF Tree!InUse, States
  <2> QED BY <2>1, <1>16, <1>17, <1>18, <1>19 DEF Tree!Fork, Parents, States, Replies
<1> QED BY <1>18, <1>20 DEF TreeStep, Tree!TreeNext, Tree!InUse

(* The embryo of a forker is one in the tree. *)
LEMMA EmbryoSeen ==
  ASSUME IInv, OutcomesRight, NEW p \in Proc, Forking(p), NEW c, c = p_pid[newproc[p]]
  PROVE  Used(c) /\ c \in PidsInUse /\ StateOf(c) = "embryo"
<1>1. newproc[p] \in Proc /\ pc[newproc[p]] = "embryo" /\ c \in AllPid /\ c # INVALID_PID
      /\ Entry(c).pid = c
  BY ForkerFacts DEF AllPid
<1>2. Used(c)
  BY <1>1 DEF Used
<1>3. IsEmbryo(c)
  BY <1>1 DEF IsEmbryo
<1>4. c \in PidsInUse
  BY <1>2, InUse
<1>5. StateOf(c) = "embryo"
  BY <1>3 DEF StateOf
<1> QED BY <1>2, <1>4, <1>5

LEMMA RefineStart ==
  ASSUME IInv, OutcomesRight, NEW p \in Proc, Forking(p),
         NEW as \in {"running", "runprogram"}, ChildRuns(p, as)
  PROVE  TreeStep
<1>1. PICK c, q : q = newproc[p] /\ c = p_pid[newproc[p]]
  OBVIOUS
<1>2. q \in Proc /\ q # p /\ pc[q] = "embryo" /\ Alive(q)
  BY <1>1, ForkerFacts
<1>3. c \in PidsInUse /\ StateOf(c) = "embryo" /\ Used(c)
  BY <1>1, EmbryoSeen
<1>4. UNCHANGED <<pidinfo, p_pid, reply>> /\ pc' = [pc EXCEPT ![p] = "running", ![q] = as]
  BY <1>1 DEF ChildRuns
<1>5. \A r \in Proc : pc'[r] = "embryo" <=> pc[r] = "embryo" /\ r # q
  BY <1>2, <1>4 DEF IInv, TypeOK, Forking
<1>6. ~IsEmbryo(c)'
  <2>1. \A r \in Proc : p_pid[r] = c => r = q
    BY <1>1, <1>2 DEF IInv, ProcsRight
  <2> QED BY <2>1, <1>4, <1>5 DEF IsEmbryo
<1>7. ASSUME NEW d, d # c PROVE IsEmbryo(d)' <=> IsEmbryo(d)
  <2>1. IsEmbryo(d) => IsEmbryo(d)'
    BY <1>1, <1>4, <1>5, <1>7 DEF IsEmbryo
  <2>2. IsEmbryo(d)' => IsEmbryo(d)
    BY <1>4, <1>5 DEF IsEmbryo
  <2> QED BY <2>1, <2>2
<1>8. ~Entry(c).exited /\ pi_get(c) = Entry(c)
  <2>1. Entry(c).exited => StateOf(c) \in Status
    BY <1>3, Seen
  <2>2. "embryo" \notin Status
    BY StatusAssumption
  <2> QED BY <2>1, <2>2, <1>3, Seen
<1>9. StateOf(c)' = "running"
  <2>1. ~(pi_get(c).exited)'
    BY <1>4, <1>8 DEF pi_get
  <2> QED BY <2>1, <1>6 DEF StateOf
<1>10. \A d : (pi_get(d))' = pi_get(d) /\ (d # c => StateOf(d)' = StateOf(d))
  BY <1>4, <1>7, SlotKept
<1>11. PidsInUse' = PidsInUse
  BY <1>4 DEF PidsInUse, Occupied
<1>12. Parents' = Parents /\ States' = [States EXCEPT ![c] = "running"]
  <2>1. Parents' = Parents
    BY <1>10, <1>11 DEF Parents
  <2>2. \A d \in PidsInUse : StateOf(d)' = IF d = c THEN "running" ELSE StateOf(d)
    BY <1>9, <1>10
  <2> QED BY <2>1, <2>2, <1>11 DEF States
<1>13. Replies' = Replies
  BY <1>4, RepliesKept
<1>14. Tree!Start(c)
  BY <1>3, <1>12, <1>13 DEF Tree!Start, Tree!InUse, Parents, States, Replies
<1> QED BY <1>3, <1>14 DEF TreeStep, Tree!TreeNext, Tree!InUse

LEMMA RefineAbort ==
  ASSUME IInv, IInv', OutcomesRight, NEW p \in Proc, Forking(p), ProcUnfork(p)
  PROVE  TreeStep
<1>1. PICK c, q : q = newproc[p] /\ c = p_pid[newproc[p]]
  OBVIOUS
<1>2. q \in Proc /\ q # p /\ pc[q] = "embryo" /\ Alive(q)
  BY <1>1, ForkerFacts
<1>3. c \in PidsInUse /\ StateOf(c) = "embryo" /\ Used(c)
  BY <1>1, EmbryoSeen
<1>4. /\ pidinfo' = Dropped(pidinfo, {Slot(c)}) /\ reply' = reply
      /\ p_pid' = [p_pid EXCEPT ![q] = INVALID_PID]
      /\ pc' = [pc EXCEPT ![p] = "running", ![q] = "free"]
  BY <1>1 DEF ProcUnfork, PidUnalloc
<1>5. ASSUME NEW d, d # c PROVE IsEmbryo(d)' <=> IsEmbryo(d)
  <2>1. \A r \in Proc :
          pc'[r] = "embryo" /\ p_pid'[r] = d <=> pc[r] = "embryo" /\ p_pid[r] = d
    <3> TAKE r \in Proc
    <3>1. CASE r = q
      BY <3>1, <1>1, <1>2, <1>4, <1>5 DEF IInv, TypeOK
    <3>2. CASE r # q
      BY <3>2, <1>4 DEF IInv, TypeOK, Forking
    <3> QED BY <3>1, <3>2
  <2> QED BY <2>1 DEF IsEmbryo
<1>6. Parents' = Tree!Without(Parents, {c}) /\ States' = Tree!Without(States, {c})
  BY <1>3, <1>4, <1>5, PidGone
<1>7. Replies' = Replies
  <2>1. reply[q][1] = INVALID_PID
    BY <1>2 DEF OutcomesRight
  <2> QED BY <2>1, <1>4, RepliesKept DEF IInv, TypeOK
<1>8. Tree!Abort(c)
  BY <1>3, <1>6, <1>7, AbortOrCollect
<1> QED BY <1>3, <1>8 DEF TreeStep, Tree!TreeNext, Tree!InUse

(* What pid_setexitstatus does to an entry. *)
Disowned(e) == [e EXCEPT !.ppid = INVALID_PID]
Marked(e, s) == [e EXCEPT !.exited = TRUE, !.status = s]

(* An exit, seen by pid: what becomes of each one in use. *)
LEMMA ExitSeen ==
  ASSUME IInv, OutcomesRight, NEW p \in Proc, NEW s \in Status, SetExitStatus(p, s),
         NEW me, me = p_pid[p], NEW d, Used(d)
  PROVE  /\ Slot(d) \in Slots
         /\ d = me /\ Entry(me).ppid = INVALID_PID => (Entry(d))' = Null
         /\ d = me /\ Entry(me).ppid # INVALID_PID =>
              (Entry(d))' = Marked(Entry(d), s)
         /\ d # me /\ Entry(d).ppid = me /\ Entry(d).exited => (Entry(d))' = Null
         /\ d # me /\ Entry(d).ppid = me /\ ~Entry(d).exited =>
              (Entry(d))' = Disowned(Entry(d))
         /\ d # me /\ Entry(d).ppid # me => (Entry(d))' = Entry(d)
<1>1. /\ Alive(p) /\ pc[p] = "running" /\ me # INVALID_PID
      /\ Entry(me).pid = me /\ ~Entry(me).exited
  BY DEF SetExitStatus, IInv, ProcsRight, Alive
<1>2. me \in AllPid /\ Slot(me) \in Slots
  BY SlotType DEF IInv, TypeOK, AllPid
<1>3. Slot(d) \in Slots /\ (Slot(d) = Slot(me) <=> d = me) /\ pidinfo[Slot(d)] # Null
  BY <1>1, Seen DEF Used, Entry
<1>4. pi_get(me) = Entry(me)
  BY <1>1, Lookup DEF Entry
<1>5. Entry(me).ppid # me /\ pidinfo[Slot(me)] # Null
  BY <1>1, <1>2 DEF IInv, ParentsRight, Entry, Null, NewInfo
<1> DEFINE mine == ChildSlots(me)
           gone == GoneSlots(me)
<1>6. Slot(d) \in mine <=> Entry(d).ppid = me
  BY <1>3 DEF ChildSlots, Occupied, Entry
<1>7. Slot(d) \in gone <=>
        \/ Entry(d).ppid = me /\ Entry(d).exited
        \/ d = me /\ Entry(me).ppid = INVALID_PID
  BY <1>3, <1>4, <1>6 DEF GoneSlots, Orphan, Entry
<1>8. pidinfo' = [i \in Slots |->
           IF i \in gone THEN Null
           ELSE IF i \in mine THEN [pidinfo[i] EXCEPT !.ppid = INVALID_PID]
           ELSE IF i = Slot(me) THEN [pidinfo[i] EXCEPT !.exited = TRUE, !.status = s]
           ELSE pidinfo[i]]
  BY DEF SetExitStatus
<1> HIDE DEF mine, gone
<1>9. (Entry(d))' =
           IF Slot(d) \in gone THEN Null
           ELSE IF Slot(d) \in mine THEN Disowned(Entry(d))
           ELSE IF d = me THEN Marked(Entry(d), s)
           ELSE Entry(d)
  BY <1>3, <1>8 DEF Entry, Marked, Disowned
<1> QED BY <1>1, <1>3, <1>5, <1>6, <1>7, <1>9

LEMMA RefineExit ==
  ASSUME IInv, IInv', OutcomesRight, NEW p \in Proc, NEW s \in Status, SetExitStatus(p, s)
  PROVE  TreeStep
<1>1. PICK me : me = p_pid[p]
  OBVIOUS
<1>2. /\ pc[p] = "running" /\ p # kproc /\ reply' = reply
      /\ p_pid' = [p_pid EXCEPT ![p] = INVALID_PID]
  BY DEF SetExitStatus
<1>3. /\ me \in PidsInUse /\ Used(me) /\ StateOf(me) = "running"
      /\ ~IsEmbryo(me) /\ ~Entry(me).exited /\ me \in Pid
  <2>1. Alive(p) /\ pc[p] # "embryo"
    BY <1>2 DEF Alive
  <2>2. me \in Pid
    BY <1>1, <1>2, <2>1 DEF IInv, TypeOK, ProcsRight
  <2> QED BY <1>1, <2>1, <2>2, RunningPid
<1>e. ASSUME NEW d, Used(d)
      PROVE  /\ d = me /\ Entry(me).ppid = INVALID_PID => (Entry(d))' = Null
             /\ d = me /\ Entry(me).ppid # INVALID_PID =>
                  (Entry(d))' = Marked(Entry(d), s)
             /\ d # me /\ Entry(d).ppid = me /\ Entry(d).exited => (Entry(d))' = Null
             /\ d # me /\ Entry(d).ppid = me /\ ~Entry(d).exited =>
                  (Entry(d))' = Disowned(Entry(d))
             /\ d # me /\ Entry(d).ppid # me => (Entry(d))' = Entry(d)
  BY <1>1, <1>e, ExitSeen
<1>4. \A d : IsEmbryo(d)' <=> IsEmbryo(d)
  <2>1. \A r \in Proc : /\ pc'[r] = "embryo" <=> pc[r] = "embryo"
                        /\ pc[r] = "embryo" => p_pid'[r] = p_pid[r]
    BY <1>2 DEF SetExitStatus, WokenBy, IInv, TypeOK
  <2> QED BY <2>1, EmbryosKept
<1> DEFINE Dies(d) == \/ Entry(d).ppid = me /\ Entry(d).exited
                      \/ d = me /\ Entry(me).ppid = INVALID_PID
<1>5. ASSUME NEW d, Used(d), Dies(d) PROVE ~Used(d)'
  <2>1. (Entry(d))' = Null
    BY <1>3, <1>5, <1>e DEF IInv, ParentsRight, Entry
  <2> QED BY <2>1 DEF Used, Null, NewInfo
<1>6. ASSUME NEW d, Used(d), ~Dies(d)
      PROVE  /\ Used(d)'
             /\ (pi_get(d).ppid)' = IF pi_get(d).ppid = me THEN INVALID_PID ELSE pi_get(d).ppid
             /\ StateOf(d)' = IF d = me THEN s ELSE StateOf(d)
  <2>1. Entry(d) \in Info /\ pi_get(d) = Entry(d) /\ Entry(d).pid = d
        /\ d \in AllPid /\ d # INVALID_PID
    BY <1>6, Seen DEF Used
  <2>2. ASSUME NEW e \in Info, (Entry(d))' = e, e.pid = d
        PROVE  Used(d)' /\ (pi_get(d))' = e
    BY <2>1, <2>2 DEF Used, Entry, pi_get
  <2>3. CASE d = me
    <3>1. Entry(me).ppid # INVALID_PID
      BY <1>6, <2>3
    <3>2. (Entry(d))' = Marked(Entry(d), s)
      BY <1>6, <2>3, <3>1, <1>e
    <3>e. PICK e : e = Marked(Entry(d), s)
      OBVIOUS
    <3>3. /\ e \in Info /\ e.pid = d /\ e.exited /\ e.status = s
          /\ e.ppid = Entry(d).ppid
      BY <2>1, <3>e DEF Info, Marked
    <3>4. Used(d)' /\ (pi_get(d))' = e
      BY <2>2, <3>2, <3>3, <3>e
    <3>5. StateOf(d)' = s
      BY <1>3, <1>4, <2>3, <3>3, <3>4 DEF StateOf
    <3>6. Entry(d).ppid # me
      BY <2>1, <2>3, <1>3, Seen DEF IInv, ParentsRight, Entry
    <3> QED BY <2>1, <2>3, <3>3, <3>4, <3>5, <3>6
  <2>4. CASE d # me /\ Entry(d).ppid = me
    <3>1. ~Entry(d).exited
      BY <1>6, <2>4
    <3>2. (Entry(d))' = Disowned(Entry(d))
      BY <1>6, <2>4, <3>1, <1>e
    <3>e. PICK e : e = Disowned(Entry(d))
      OBVIOUS
    <3>3. e \in Info /\ e.pid = d /\ ~e.exited /\ e.ppid = INVALID_PID
      BY <2>1, <3>1, <3>e DEF Info, Disowned
    <3>4. Used(d)' /\ (pi_get(d))' = e
      BY <2>2, <3>2, <3>3, <3>e
    <3>5. StateOf(d)' = StateOf(d)
      BY <1>4, <2>1, <3>1, <3>3, <3>4 DEF StateOf
    <3> QED BY <2>1, <2>4, <3>3, <3>4, <3>5
  <2>5. CASE d # me /\ Entry(d).ppid # me
    <3>1. (Entry(d))' = Entry(d)
      BY <1>6, <2>5, <1>e
    <3>2. pidinfo'[Slot(d)] = pidinfo[Slot(d)]
      BY <3>1 DEF Entry
    <3>3. Used(d)' /\ (pi_get(d))' = pi_get(d) /\ StateOf(d)' = StateOf(d)
      BY <1>4, <1>6, <3>2, SlotKept
    <3> QED BY <2>1, <2>5, <3>3
  <2> QED BY <2>3, <2>4, <2>5
<1>7. ASSUME NEW d, ~Used(d) PROVE ~Used(d)'
  <2> SUFFICES ASSUME d \in AllPid, d # INVALID_PID, (Entry(d).pid)' = d PROVE Used(d)
    BY <1>7 DEF Used
  <2>1. Slot(d) \in Slots
    BY SlotType
  <2>2. pidinfo[Slot(d)] \in Info
    BY <2>1 DEF IInv, TypeOK
  <2>3. \/ pidinfo'[Slot(d)] = Null
        \/ pidinfo'[Slot(d)].pid = pidinfo[Slot(d)].pid
    BY <2>1, <2>2 DEF SetExitStatus, Info
  <2>4. pidinfo[Slot(d)].pid = d
    BY <2>3 DEF Entry, Null, NewInfo
  <2> QED BY <2>4 DEF Used, Entry
<1> DEFINE gone == (Tree!Children(me) \cap Tree!Zombies)
                     \cup (IF Parents[me] = INVALID_PID THEN {me} ELSE {})
<1>8. \A d \in PidsInUse :
        /\ Used(d) /\ Parents[d] = pi_get(d).ppid /\ States[d] = StateOf(d)
        /\ d \in Tree!Children(me) <=> Entry(d).ppid = me
        /\ d \in Tree!Zombies <=> Entry(d).exited
        /\ d \in gone <=> Dies(d)
  <2> TAKE d \in PidsInUse
  <2>1. Used(d) /\ Parents[d] = pi_get(d).ppid /\ States[d] = StateOf(d)
    BY InUse DEF Parents, States
  <2>2. pi_get(d) = Entry(d) /\ (StateOf(d) \in Status <=> Entry(d).exited)
    BY <2>1, Seen
  <2>3. Parents[me] = Entry(me).ppid
    BY <1>3, Seen DEF Parents
  <2>4. d \in Tree!Children(me) <=> Entry(d).ppid = me
    BY <2>1, <2>2 DEF Tree!Children, Tree!InUse, Parents
  <2>5. d \in Tree!Zombies <=> Entry(d).exited
    BY <2>1, <2>2 DEF Tree!Zombies, Tree!InUse, States
  <2> QED BY <2>1, <2>3, <2>4, <2>5
<1> HIDE DEF gone, Dies
<1>9. PidsInUse' = PidsInUse \ gone
  <2>1. \A d : d \in PidsInUse' <=> d \in PidsInUse /\ d \notin gone
    BY <1>5, <1>6, <1>7, <1>8, InUse, InUseNext
  <2> QED BY <2>1
<1>10. \A d \in PidsInUse \ gone :
         /\ (pi_get(d).ppid)' = IF d \in Tree!Children(me) THEN INVALID_PID ELSE Parents[d]
         /\ StateOf(d)' = IF d = me THEN s ELSE States[d]
  <2> TAKE d \in PidsInUse \ gone
  <2>1. pi_get(d).ppid = me <=> d \in Tree!Children(me)
    BY <1>8, Seen
  <2> QED BY <2>1, <1>6, <1>8
<1>11. /\ Parents' = [d \in PidsInUse \ gone |->
                        IF d \in Tree!Children(me) THEN INVALID_PID ELSE Parents[d]]
       /\ States' = [d \in PidsInUse \ gone |-> IF d = me THEN s ELSE States[d]]
  BY <1>9, <1>10 DEF Parents, States
<1>12. Replies' = Replies
  <2>1. reply[p][1] = INVALID_PID
    BY <1>2 DEF OutcomesRight
  <2> QED BY <2>1, <1>2, RepliesKept DEF IInv, TypeOK
<1>13. Tree!InUse = PidsInUse /\ States[me] = "running"
  BY <1>3 DEF Tree!InUse, States
<1>14. Tree!Exit(me, s)
  BY <1>3, <1>11, <1>12, <1>13 DEF Tree!Exit, Parents, States, Replies, gone
<1> QED BY <1>3, <1>14 DEF TreeStep, Tree!TreeNext, Tree!InUse

(* A child a process can wait for, as the tree sees it. *)
LEMMA ChildSeen ==
  ASSUME IInv, OutcomesRight, NEW p \in Proc, NEW c \in kids[p]
  PROVE  /\ c \in Pid /\ Used(c) /\ c \in PidsInUse
         /\ Entry(c).ppid = p_pid[p] /\ p_pid[p] # INVALID_PID
<1>1. c \in Pid /\ Entry(c).pid = c /\ Entry(c).ppid = p_pid[p]
  BY DEF IInv, TypeOK, KidsRight
<1>2. Used(c)
  BY <1>1 DEF Used, AllPid, Pid, INVALID_PID, PID_MIN
<1>3. Alive(p)
  BY DEF IInv, KidsRight, Alive
<1> QED BY <1>1, <1>2, <1>3, InUse DEF IInv, ProcsRight

LEMMA RefineCollect ==
  ASSUME IInv, IInv', OutcomesRight, NEW p \in Proc, NEW c \in kids[p], Entry(c).exited,
         pc[p] \in {"running", "woken"}, Collect(p, c)
  PROVE  TreeStep
<1>1. /\ c \in Pid /\ Used(c) /\ c \in PidsInUse /\ Entry(c).ppid = p_pid[p]
      /\ c # INVALID_PID /\ pi_get(c) = Entry(c)
      /\ StateOf(c) \in Status /\ StateOf(c) = Entry(c).status
  BY ChildSeen, Seen DEF Used
<1>2. /\ pidinfo' = Dropped(pidinfo, {Slot(c)}) /\ p_pid' = p_pid
      /\ pc' = [pc EXCEPT ![p] = "copyout"]
      /\ reply' = [reply EXCEPT ![p] = <<c, Entry(c).status>>]
  BY DEF Collect, Entry
<1>3. \A d : IsEmbryo(d)' <=> IsEmbryo(d)
  <2>1. \A r \in Proc : /\ pc'[r] = "embryo" <=> pc[r] = "embryo"
                        /\ pc[r] = "embryo" => p_pid'[r] = p_pid[r]
    BY <1>2 DEF IInv, TypeOK
  <2> QED BY <2>1, EmbryosKept
<1>4. Parents' = Tree!Without(Parents, {c}) /\ States' = Tree!Without(States, {c})
  BY <1>1, <1>2, <1>3, PidGone
<1>5. Replies' = Replies \cup {<<pi_get(c).ppid, c, StateOf(c)>>}
  <2> DEFINE Held(r) == <<p_pid[r], reply[r][1], reply[r][2]>>
  <2>1. reply[p][1] = INVALID_PID
    BY DEF OutcomesRight
  <2>2. \A r \in Proc : reply'[r] = IF r = p THEN <<c, Entry(c).status>> ELSE reply[r]
    BY <1>2 DEF IInv, TypeOK
  <2>3. {r \in Proc : reply'[r][1] # INVALID_PID}
          = {r \in Proc : reply[r][1] # INVALID_PID} \cup {p}
    BY <2>1, <2>2, <1>1
  <2>4. \A r \in Proc : <<p_pid'[r], reply'[r][1], reply'[r][2]>>
                          = IF r = p THEN <<p_pid[p], c, Entry(c).status>> ELSE Held(r)
    BY <2>2, <1>2
  <2>5. Replies' = {<<p_pid'[r], reply'[r][1], reply'[r][2]>> :
                      r \in {r \in Proc : reply[r][1] # INVALID_PID} \cup {p}}
    BY <2>3 DEF Replies
  <2>6. Replies = {Held(r) : r \in {r \in Proc : reply[r][1] # INVALID_PID}}
    BY DEF Replies
  <2>7. p \notin {r \in Proc : reply[r][1] # INVALID_PID}
    BY <2>1
  <2> HIDE DEF Held
  <2>8. Replies' = Replies \cup {<<p_pid[p], c, Entry(c).status>>}
    BY <2>4, <2>5, <2>6, <2>7
  <2> QED BY <2>8, <1>1
<1>6. Tree!Collect(c)
  BY <1>1, <1>4, <1>5, AbortOrCollect
<1> QED BY <1>1, <1>6 DEF TreeStep, Tree!TreeNext, Tree!InUse

LEMMA RefineDisown ==
  ASSUME IInv, IInv', OutcomesRight, NEW c \in Pid, PidDisown(c)
  PROVE  TreeStep
<1>1. c \in kids[kproc] /\ kproc \in Proc /\ UNCHANGED <<p_pid, pc, reply>>
  BY ProcAssumption DEF PidDisown
<1>2. /\ Used(c) /\ c \in PidsInUse /\ pi_get(c) = Entry(c)
      /\ pi_get(c).ppid # INVALID_PID /\ Slot(c) \in Slots
      /\ StateOf(c) \in Status <=> Entry(c).exited
  BY <1>1, ChildSeen, Seen
<1>3. \A d : IsEmbryo(d)' <=> IsEmbryo(d)
  BY <1>1, EmbryosKept
<1>4. Replies' = Replies
  BY <1>1, RepliesKept
<1>5. CASE Entry(c).exited
  <2>1. pidinfo' = Dropped(pidinfo, {Slot(c)})
    BY <1>5 DEF PidDisown, Entry
  <2>2. Parents' = Tree!Without(Parents, {c}) /\ States' = Tree!Without(States, {c})
    BY <2>1, <1>2, <1>3, PidGone
  <2> QED BY <2>2, <1>2, <1>4, <1>5, AbortOrCollect
          DEF TreeStep, Tree!TreeNext, Tree!InUse
<1>6. CASE ~Entry(c).exited
  <2>1. pidinfo' = [pidinfo EXCEPT ![Slot(c)].ppid = INVALID_PID]
    BY <1>6 DEF PidDisown, Entry
  <2>2. PICK e : e = Disowned(Entry(c))
    OBVIOUS
  <2>3. /\ pidinfo'[Slot(c)] = e /\ e.pid = c /\ ~e.exited /\ e.ppid = INVALID_PID
        /\ \A i \in Slots : i # Slot(c) => pidinfo'[i] = pidinfo[i]
    BY <2>1, <2>2, <1>2, <1>6 DEF IInv, TypeOK, Info, Entry, Disowned, Used
  <2>4. Used(c)' /\ (pi_get(c))' = e
    BY <2>3, <1>2 DEF Used, Entry, pi_get
  <2>5. StateOf(c)' = StateOf(c)
    BY <2>3, <2>4, <1>2, <1>3, <1>6 DEF StateOf
  <2>6. ASSUME NEW d, d # c, Used(d) \/ Used(d)'
        PROVE  pidinfo'[Slot(d)] = pidinfo[Slot(d)]
    <3>1. Slot(d) \in Slots
      BY <2>6, SlotType DEF Used
    <3>2. Slot(d) # Slot(c)
      BY <2>3, <2>6, <1>2 DEF Used, Entry
    <3> QED BY <3>1, <3>2, <2>3
  <2>7. \A d : Used(d)' <=> Used(d)
    BY <2>4, <2>6, <1>2, SlotKept
  <2>8. PidsInUse' = PidsInUse
    <3>1. \A d : d \in PidsInUse' <=> d \in PidsInUse
      BY <2>7, InUse, InUseNext
    <3> QED BY <3>1
  <2>9. \A d \in PidsInUse : /\ StateOf(d)' = StateOf(d)
                             /\ d # c => (pi_get(d))' = pi_get(d)
    BY <2>5, <2>6, <1>3, InUse, SlotKept
  <2>10. \A d \in PidsInUse :
           (pi_get(d).ppid)' = IF d = c THEN INVALID_PID ELSE pi_get(d).ppid
    BY <2>3, <2>4, <2>9
  <2>11. Parents' = [Parents EXCEPT ![c] = INVALID_PID] /\ States' = States
    <3>1. Parents' = [Parents EXCEPT ![c] = INVALID_PID]
      BY <2>8, <2>10 DEF Parents
    <3>2. States' = States
      BY <2>8, <2>9 DEF States
    <3> QED BY <3>1, <3>2
  <2>12. c \notin Tree!Zombies /\ Parents[c] # INVALID_PID
    BY <1>2, <1>6 DEF Tree!Zombies, Tree!InUse, Parents
  <2>13. Tree!Disown(c)
    BY <2>11, <2>12, <1>2, <1>4 DEF Tree!Disown, Tree!InUse, Parents, States, Replies
  <2> QED BY <2>13, <1>2 DEF TreeStep, Tree!TreeNext, Tree!InUse
<1> QED BY <1>5, <1>6

(* A waitpid that returns hands over what it collected, if anything: with  *)
(* WNOHANG it may have collected nothing. *)
LEMMA RefineReturn ==
  ASSUME IInv, OutcomesRight, NEW p \in Proc, WaitReturns(p)
  PROVE  TreeStep
<1>1. /\ UNCHANGED <<pidinfo, p_pid>> /\ pc[p] = "copyout"
      /\ pc' = [pc EXCEPT ![p] = "running"]
      /\ reply' = [reply EXCEPT ![p] = <<INVALID_PID, NoStatus>>]
  BY DEF WaitReturns
<1>2. \A d : IsEmbryo(d)' <=> IsEmbryo(d)
  <2>1. \A r \in Proc : /\ pc'[r] = "embryo" <=> pc[r] = "embryo"
                        /\ pc[r] = "embryo" => p_pid'[r] = p_pid[r]
    BY <1>1 DEF IInv, TypeOK
  <2> QED BY <2>1, EmbryosKept
<1> DEFINE Held(r) == <<p_pid[r], reply[r][1], reply[r][2]>>
           S == {r \in Proc : reply[r][1] # INVALID_PID}
<1>3. Replies = {Held(r) : r \in S}
  BY DEF Replies
<1>4. /\ {r \in Proc : reply'[r][1] # INVALID_PID} = S \ {p}
      /\ \A r \in S \ {p} : <<p_pid'[r], reply'[r][1], reply'[r][2]>> = Held(r)
  BY <1>1 DEF IInv, TypeOK
<1>5. Replies' = {Held(r) : r \in S \ {p}}
  BY <1>4 DEF Replies
<1>6. \A r \in S \ {p} : Held(r) # Held(p)
  <2>1. Alive(p)
    BY <1>1 DEF Alive
  <2>2. \A r \in Proc : r # p => p_pid[r] # p_pid[p]
    BY <2>1 DEF IInv, ProcsRight
  <2> QED BY <2>2
<1>7. CASE p \in S
  <2>1. PICK h : h = Held(p)
    OBVIOUS
  <2>2. h \in Replies /\ Replies' = Replies \ {h}
    <3> HIDE DEF Held, S
    <3> QED BY <2>1, <1>3, <1>5, <1>6, <1>7
  <2>3. Parents' = Parents /\ States' = States
    <3>1. PidsInUse' = PidsInUse
      BY <1>1 DEF PidsInUse, Occupied
    <3>2. \A c \in PidsInUse : (pi_get(c))' = pi_get(c) /\ StateOf(c)' = StateOf(c)
      BY <1>1, <1>2, SlotKept
    <3> QED BY <3>1, <3>2 DEF Parents, States
  <2>4. Tree!Deliver(h)
    BY <2>2, <2>3 DEF Tree!Deliver, Parents, States, Replies
  <2> QED BY <2>2, <2>4 DEF TreeStep, Tree!TreeNext, Replies
<1>8. CASE p \notin S
  <2>1. S \ {p} = S
    BY <1>8
  <2>2. Replies' = Replies
    BY <2>1, <1>3, <1>5
  <2> QED BY <2>2, <1>1, <1>2, StaysPut DEF TreeStep
<1> QED BY <1>7, <1>8

(* The other steps change nothing the tree shows. *)
LEMMA RefineInside ==
  ASSUME IInv, OutcomesRight, pidinfo' = pidinfo, p_pid' = p_pid, reply' = reply,
         \A r \in Proc : pc'[r] = "embryo" <=> pc[r] = "embryo"
  PROVE  TreeStep
<1>1. \A d : IsEmbryo(d)' <=> IsEmbryo(d)
  BY EmbryosKept
<1>2. Replies' = Replies
  BY RepliesKept
<1> QED BY <1>1, <1>2, StaysPut DEF TreeStep

-----------------------------------------------------------------------------
LEMMA RefineNext == IInv /\ IInv' /\ OutcomesRight /\ [Next]_vars => TreeStep
<1> SUFFICES ASSUME IInv, IInv', OutcomesRight, [Next]_vars PROVE TreeStep
  OBVIOUS
<1>1. ASSUME NEW p \in Proc, NEW q \in Proc, ProcFork(p, q) PROVE TreeStep
  BY <1>1, RefineFork DEF ProcFork
<1>2. ASSUME NEW q \in Proc, ProcCreateRunprogram(q) PROVE TreeStep
  BY <1>2, RefineFork, ProcAssumption DEF ProcCreateRunprogram
<1>3. ASSUME NEW p \in Proc,
             AsCopyFails(p) \/ FiletableCopyFails(p) \/ ThreadForkFails(p)
      PROVE  TreeStep
  BY <1>3, RefineAbort DEF AsCopyFails, FiletableCopyFails, ThreadForkFails, Forking
<1>4. ASSUME NEW p \in Proc, ThreadFork(p) PROVE TreeStep
  BY <1>4, RefineStart DEF ThreadFork, Forking
<1>5. ASSUME ProgThreadFork PROVE TreeStep
  BY <1>5, RefineStart, ProcAssumption DEF ProgThreadFork, Forking
<1>6. ASSUME NEW p \in Proc, NEW s \in Status, SetExitStatus(p, s) PROVE TreeStep
  BY <1>6, RefineExit
<1>7. ASSUME NEW p \in Proc, NEW pid \in Pid, WaitExited(p, pid) PROVE TreeStep
  <2>1. pc[p] = "running" /\ ~WaitFails(p, pid) /\ pi_get(pid).exited /\ Collect(p, pid)
    BY <1>7 DEF WaitExited, CanCall
  <2>2. pid \in kids[p] /\ Entry(pid).exited
    BY <2>1, WaitTarget
  <2> QED BY <2>1, <2>2, RefineCollect
<1>8. ASSUME NEW p \in Proc, WaitWoken(p) PROVE TreeStep
  <2>1. pc[p] = "woken" /\ Collect(p, them[p])
    BY <1>8 DEF WaitWoken
  <2>2. them[p] \in kids[p] /\ Entry(them[p]).exited
    BY <2>1 DEF IInv, SleepersRight, Asleep
  <2> QED BY <2>1, <2>2, RefineCollect
<1>9. ASSUME NEW p \in Proc, WaitReturns(p) PROVE TreeStep
  BY <1>9, RefineReturn
<1>10. ASSUME NEW pid \in Pid, PidDisown(pid) PROVE TreeStep
  BY <1>10, RefineDisown
<1>11. ASSUME NEW p \in Proc, ProcExitDestroy(p) PROVE TreeStep
  BY <1>11, RefineInside DEF ProcExitDestroy, IInv, TypeOK
<1>12. ASSUME NEW p \in Proc,
              AsCopy(p) \/ FiletableCopy(p) \/ Runprogram(p) \/ PidAllocNoMemory(p)
       PROVE  TreeStep
  BY <1>12, RefineInside
     DEF AsCopy, FiletableCopy, Runprogram, PidAllocNoMemory, IInv, TypeOK
<1>13. ASSUME NEW p \in Proc, NEW pid \in Pid, WaitNoHang(p, pid) \/ WaitSleep(p, pid)
       PROVE  TreeStep
  BY <1>13, RefineInside DEF WaitNoHang, WaitSleep, CanCall, IInv, TypeOK
<1>14. ASSUME UNCHANGED vars PROVE TreeStep
  BY <1>14, RefineInside DEF vars
<1> QED BY <1>1, <1>2, <1>3, <1>4, <1>5, <1>6, <1>7, <1>8, <1>9, <1>10, <1>11, <1>12,
           <1>13, <1>14 DEF Next

(* Fork, exit, wait and disown, seen through the process table, are the    *)
(* operations of ProcessTree, however many processes and pids there are:   *)
(* in particular each exit status goes to the parent of the process that   *)
(* exited with it, at most once, and a reused pid inherits nothing.        *)
THEOREM TableImplementsTree == Spec => ImplementsProcessTree
<1>1. Init => Tree!TreeInit
  <2> SUFFICES ASSUME Init PROVE Tree!TreeInit
    OBVIOUS
  <2>1. IInv /\ OutcomesRight
    BY InitIInv, InitOutcomes
  <2>2. /\ kproc \in Proc /\ Alive(kproc) /\ pc[kproc] = "running"
        /\ p_pid[kproc] = KERNEL_PID
    BY ProcAssumption DEF Init, Alive
  <2>3. Used(KERNEL_PID) /\ StateOf(KERNEL_PID) = "running"
    BY <2>1, <2>2, RunningPid
  <2>4. PidsInUse = {KERNEL_PID}
    <3>1. \A i \in Slots : pidinfo[i] # Null => pidinfo[i].pid = KERNEL_PID
      BY DEF Init, NewInfo
    <3>2. KERNEL_PID \in PidsInUse
      BY <2>1, <2>3, InUse
    <3> QED BY <3>1, <3>2 DEF PidsInUse, Occupied
  <2>5. pi_get(KERNEL_PID).ppid = INVALID_PID
    BY <2>1, <2>3, Seen DEF IInv, ParentsRight
  <2>6. Replies = {}
    BY DEF Init, Replies
  <2> QED BY <2>3, <2>4, <2>5, <2>6 DEF Tree!TreeInit, Replies
<1>2. IInv /\ IInv' /\ OutcomesRight /\ [Next]_vars => [Tree!TreeNext]_(Tree!treeVars)
  BY RefineNext DEF TreeStep
<1>3. Init => OutcomesRight
  BY InitOutcomes
<1>4. IInv /\ OutcomesRight /\ [Next]_vars => OutcomesRight'
  BY OutcomesNext
<1> QED BY <1>1, <1>2, <1>3, <1>4, Invariance, PTL
        DEF Spec, ImplementsProcessTree, Tree!TreeSpec
=============================================================================
