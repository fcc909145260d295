----------------------------- MODULE Processes -----------------------------
(***************************************************************************)
(* The life of a process in the Asst3 kernel: the process table of         *)
(* kern/proc/pid.c, proc_fork, proc_unfork, proc_exit and proc_destroy of  *)
(* kern/proc/proc.c, the system calls fork, waitpid and _exit, and the     *)
(* kernel menu, which forks, disowns and waits as the kernel process.      *)
(*                                                                         *)
(* Every access to the table is made with pidlock held, so one critical    *)
(* section is one step.  cv_wait ends a critical section and begins        *)
(* another: between the broadcast that wakes a waiter and the waiter's     *)
(* reacquiring pidlock anybody may run.  The members of a struct proc are  *)
(* touched by its own single thread, or by the forker until that thread    *)
(* exists.                                                                 *)
(***************************************************************************)
EXTENDS Integers, FiniteSets

CONSTANTS
  Proc,       (* the addresses of struct procs                             *)
  kproc,      (* the kernel process, whose thread here is the menu's       *)
  NoProc,     (* an uninitialized struct proc pointer                      *)
  PROCS_MAX,  (* the size of the process table                             *)
  PID_MAX,    (* the largest pid                                           *)
  Status,     (* the encoded statuses proc_exit is called with             *)
  NoStatus    (* a status never set: 0xbeef in the table, or stack garbage *)

INVALID_PID == 0
KERNEL_PID == 1
PID_MIN == 2

ASSUME ProcAssumption ==
  /\ kproc \in Proc /\ NoProc \notin Proc /\ IsFiniteSet(Proc)
  /\ NoStatus \notin Status
ASSUME TableAssumption ==
  /\ PROCS_MAX \in Nat /\ PROCS_MAX > KERNEL_PID
  /\ PID_MAX \in Nat /\ PID_MAX >= PID_MIN + PROCS_MAX - 1
(* ProcessTree's names of the states without a status are no statuses.     *)
ASSUME StatusAssumption == {"embryo", "running"} \cap Status = {}

Pid == PID_MIN..PID_MAX
Slots == 0..(PROCS_MAX - 1)
Slot(pid) == pid % PROCS_MAX

VARIABLES
  pidinfo,  (* the process table; a NULL slot is the record Null           *)
  nextpid,  (* the next candidate pid                                      *)
  nprocs,   (* the number of allocated pids                                *)
  p_pid,    (* each struct proc's pid                                      *)
  pc,       (* where the thread of each process is                         *)
  newproc,  (* the forker's local variable                                 *)
  them,     (* the pidinfo a pid_wait points to, by its pid                *)
  reply,    (* sys_waitpid's retval and status, until it returns           *)
  kids,     (* the children a process was told of and has not collected    *)
  owns,     (* the objects a struct proc points to                         *)
  live      (* how many objects of each kind exist                         *)

table == <<pidinfo, nextpid, nprocs>>
vars == <<pidinfo, nextpid, nprocs, p_pid, pc, newproc, them, reply, kids,
          owns, live>>

(* Address spaces and file tables, which a process and its struct share.   *)
Object == {"as", "ft"}

Info == [pid : Pid \cup {INVALID_PID, KERNEL_PID},
         ppid : Pid \cup {INVALID_PID, KERNEL_PID},
         exited : BOOLEAN, status : Status \cup {NoStatus}]

(* pidinfo_create(pid, ppid) *)
NewInfo(pid, ppid) ==
  [pid |-> pid, ppid |-> ppid, exited |-> FALSE, status |-> NoStatus]

Null == NewInfo(INVALID_PID, INVALID_PID)

Occupied == {i \in Slots : pidinfo[i] # Null}

(* pi_get: the entry of a pid, or Null. *)
pi_get(pid) ==
  IF pidinfo[Slot(pid)].pid = pid THEN pidinfo[Slot(pid)] ELSE Null

Init ==
  /\ pidinfo = [i \in Slots |->
                  IF i = KERNEL_PID THEN NewInfo(KERNEL_PID, INVALID_PID) ELSE Null]
  /\ nextpid = PID_MIN
  /\ nprocs = 1
  /\ p_pid = [p \in Proc |-> IF p = kproc THEN KERNEL_PID ELSE INVALID_PID]
  /\ pc = [p \in Proc |-> IF p = kproc THEN "running" ELSE "free"]
  /\ newproc = [p \in Proc |-> NoProc]
  /\ them = [p \in Proc |-> INVALID_PID]
  /\ reply = [p \in Proc |-> <<INVALID_PID, NoStatus>>]
  /\ kids = [p \in Proc |-> {}]
  /\ owns = [p \in Proc |-> {}]
  /\ live = [k \in Object |-> 0]

-----------------------------------------------------------------------------
(* The table.                                                              *)

(* Mutant of Advance: nextpid never wraps round. *)
AdvanceNoWrap(n, k) == n + k

(* The candidate pid after k calls of inc_nextpid. *)
Advance(n, k) ==
  PID_MIN + ((n - PID_MIN + k) % (PID_MAX - PID_MIN + 1))

(* Mutant of ScanLimit: as many turns as there are slots. *)
ScanLimitSlots == PROCS_MAX - 1

(* Mutant of ScanStops: the first candidate is taken, free or not. *)
ScanStopsAtOnce(k) == k = 0

(* pid_alloc's loop ends after k turns; the code asserts k <= ScanLimit.   *)
ScanLimit == 2 * PROCS_MAX + 5
ScanStops(k) ==
  /\ pidinfo[Slot(Advance(nextpid, k))] = Null
  /\ \A j \in 0..(k - 1) : pidinfo[Slot(Advance(nextpid, j))] # Null

(* pi_drop of the entries of the slots S. *)
Dropped(t, S) == [i \in Slots |-> IF i \in S THEN Null ELSE t[i]]

(* Mutant of PidUnalloc: nprocs is not counted down. *)
PidUnallocUncounted(pid) ==
  pidinfo' = Dropped(pidinfo, {Slot(pid)}) /\ UNCHANGED <<nprocs, nextpid>>

(* pid_unalloc *)
PidUnalloc(pid) ==
  /\ pidinfo' = Dropped(pidinfo, {Slot(pid)})
  /\ nprocs' = nprocs - 1
  /\ UNCHANGED nextpid

(* A process releases the objects of S, and q's struct its pointers.       *)
Release(S) == live' = [k \in Object |-> IF k \in S THEN live[k] - 1 ELSE live[k]]
Acquire(S) == live' = [k \in Object |-> IF k \in S THEN live[k] + 1 ELSE live[k]]

(* Mutant of ProcDestroy: it forgets what the struct points to. *)
ProcDestroyLeaks(q) == owns' = [owns EXCEPT ![q] = {}] /\ UNCHANGED live

(* proc_destroy: the struct and what it points to are freed. *)
ProcDestroy(q) == owns' = [owns EXCEPT ![q] = {}] /\ Release(owns[q])

(* Mutant of ProcUnfork: p_pid is not reset before proc_destroy. *)
ProcUnforkKeepsPid(p) ==
  LET q == newproc[p]
  IN  /\ PidUnalloc(p_pid[q]) /\ ProcDestroy(q)
      /\ pc' = [pc EXCEPT ![p] = "running", ![q] = "free"]
      /\ newproc' = [newproc EXCEPT ![p] = NoProc]
      /\ UNCHANGED <<p_pid, them, reply, kids>>

(* Give up a child that has not run: proc_unfork, and the error paths of   *)
(* proc_fork, which do the same.                                           *)
ProcUnfork(p) ==
  LET q == newproc[p]
  IN  /\ PidUnalloc(p_pid[q])
      /\ p_pid' = [p_pid EXCEPT ![q] = INVALID_PID]
      /\ ProcDestroy(q)
      /\ pc' = [pc EXCEPT ![p] = "running", ![q] = "free"]
      /\ newproc' = [newproc EXCEPT ![p] = NoProc]
      /\ UNCHANGED <<them, reply, kids>>

-----------------------------------------------------------------------------
(* fork.  A system call comes from a process with an address space; the    *)
(* menu calls proc_fork (waittest) and proc_create_runprogram directly.    *)

CanCall(p) == pc[p] = "running" /\ (p = kproc \/ "as" \in owns[p])

(* pid_alloc succeeds, for the new struct q; then is the caller's rest.    *)
PidAlloc(p, q, then) ==
  /\ CanCall(p) /\ pc[q] = "free"
  /\ nprocs # PROCS_MAX
  /\ \E k \in 0..ScanLimit :
       /\ ScanStops(k)
       /\ LET pid == Advance(nextpid, k)
          IN  /\ pidinfo' = [pidinfo EXCEPT ![Slot(pid)] = NewInfo(pid, p_pid[p])]
              /\ p_pid' = [p_pid EXCEPT ![q] = pid]
              /\ nextpid' = Advance(nextpid, k + 1)
  /\ nprocs' = nprocs + 1
  /\ pc' = [pc EXCEPT ![p] = then, ![q] = "embryo"]
  /\ newproc' = [newproc EXCEPT ![p] = q]
  /\ UNCHANGED <<them, reply, kids, owns, live>>

(* pid_alloc finds a pid and no memory: nextpid stays where the scan ended.*)
PidAllocNoMemory(p) ==
  /\ CanCall(p)
  /\ nprocs # PROCS_MAX
  /\ \E k \in 0..ScanLimit : ScanStops(k) /\ nextpid' = Advance(nextpid, k)
  /\ UNCHANGED <<pidinfo, nprocs, p_pid, pc, newproc, them, reply, kids, owns, live>>

ProcFork(p, q) == PidAlloc(p, q, "as_copy")

(* as_copy, of a process that has an address space. *)
AsCopy(p) ==
  LET S == owns[p] \cap {"as"}
  IN  /\ pc[p] = "as_copy"
      /\ owns' = [owns EXCEPT ![newproc[p]] = S]
      /\ Acquire(S)
      /\ pc' = [pc EXCEPT ![p] = "filetable_copy"]
      /\ UNCHANGED <<pidinfo, nextpid, nprocs, p_pid, newproc, them, reply, kids>>

AsCopyFails(p) == pc[p] = "as_copy" /\ "as" \in owns[p] /\ ProcUnfork(p)

(* filetable_copy, of a process that has a file table. *)
FiletableCopy(p) ==
  LET S == owns[p] \cap {"ft"}
  IN  /\ pc[p] = "filetable_copy"
      /\ owns' = [owns EXCEPT ![newproc[p]] = @ \cup S]
      /\ Acquire(S)
      /\ pc' = [pc EXCEPT ![p] = "thread_fork"]
      /\ UNCHANGED <<pidinfo, nextpid, nprocs, p_pid, newproc, them, reply, kids>>

FiletableCopyFails(p) ==
  pc[p] = "filetable_copy" /\ "ft" \in owns[p] /\ ProcUnfork(p)

(* thread_fork: the child runs, as q says, and the parent returns its pid, *)
(* which it read before.                                                   *)
ChildRuns(p, as) ==
  LET q == newproc[p]
  IN  /\ kids' = [kids EXCEPT ![p] = @ \cup {p_pid[q]}]
      /\ pc' = [pc EXCEPT ![p] = "running", ![q] = as]
      /\ newproc' = [newproc EXCEPT ![p] = NoProc]
      /\ UNCHANGED <<pidinfo, nextpid, nprocs, p_pid, them, reply, owns, live>>

ThreadFork(p) == pc[p] = "thread_fork" /\ ChildRuns(p, "running")

ThreadForkFails(p) == pc[p] = "thread_fork" /\ ProcUnfork(p)

(* common_prog: a process that will run a program from the menu. *)
ProcCreateRunprogram(q) == PidAlloc(kproc, q, "prog_thread_fork")

ProgThreadFork == pc[kproc] = "prog_thread_fork" /\ ChildRuns(kproc, "runprogram")

(* If thread_fork fails common_prog calls proc_destroy alone, and proc.c's *)
(* assertion fails.  The step is one of MenuNext and not of Next.          *)
ProgThreadForkFails ==
  LET q == newproc[kproc]
  IN  /\ pc[kproc] = "prog_thread_fork"
      /\ ProcDestroy(q)
      /\ pc' = [pc EXCEPT ![kproc] = "running", ![q] = "free"]
      /\ newproc' = [newproc EXCEPT ![kproc] = NoProc]
      /\ UNCHANGED <<pidinfo, nextpid, nprocs, p_pid, them, reply, kids>>

(* runprogram makes the file table and then the address space; it may fail *)
(* before each, and then cmd_progthread exits.                             *)
Runprogram(p) ==
  /\ pc[p] = "runprogram"
  /\ \E S \in {{}, {"ft"}, Object} :
       /\ owns' = [owns EXCEPT ![p] = S]
       /\ Acquire(S)
  /\ pc' = [pc EXCEPT ![p] = "running"]
  /\ UNCHANGED <<pidinfo, nextpid, nprocs, p_pid, newproc, them, reply, kids>>

-----------------------------------------------------------------------------
(* _exit.                                                                  *)

(* Mutants of ChildSlots: exit forgets the zombies, or the live children.  *)
ChildSlotsLive(me) == {i \in Occupied : pidinfo[i].ppid = me /\ ~pidinfo[i].exited}
ChildSlotsZombies(me) == {i \in Occupied : pidinfo[i].ppid = me /\ pidinfo[i].exited}

(* The entries that pid_setexitstatus disowns. *)
ChildSlots(me) == {i \in Occupied : pidinfo[i].ppid = me}

Orphan(me) == pi_get(me).ppid = INVALID_PID

(* Mutant of GoneSlots: a process without parent leaves a zombie as well. *)
GoneSlotsChildren(me) == {i \in ChildSlots(me) : pidinfo[i].exited}

(* The entries it drops: zombie children, and its own if nobody will wait. *)
GoneSlots(me) ==
  {i \in ChildSlots(me) : pidinfo[i].exited}
    \cup (IF Orphan(me) THEN {Slot(me)} ELSE {})

(* Mutant of WokenBy: the broadcast is missing. *)
WokenByNone(me) == {}

(* Those its broadcast wakes. *)
WokenBy(me) == {r \in Proc : pc[r] = "waiting" /\ them[r] = me /\ ~Orphan(me)}

(* pid_setexitstatus and the broadcast; the kernel process never exits.    *)
SetExitStatus(p, s) ==
  LET me   == p_pid[p]
      mine == ChildSlots(me)
      gone == GoneSlots(me)
  IN  /\ pc[p] = "running" /\ p # kproc
      /\ pidinfo' = [i \in Slots |->
           IF i \in gone THEN Null
           ELSE IF i \in mine THEN [pidinfo[i] EXCEPT !.ppid = INVALID_PID]
           ELSE IF i = Slot(me)
                THEN [pidinfo[i] EXCEPT !.exited = TRUE, !.status = s]
           ELSE pidinfo[i]]
      /\ nprocs' = nprocs - Cardinality(gone)
      /\ p_pid' = [p_pid EXCEPT ![p] = INVALID_PID]
      /\ pc' = [r \in Proc |->
           IF r = p THEN "exited"
           ELSE IF r \in WokenBy(me) THEN "woken"
           ELSE pc[r]]
      /\ kids' = [kids EXCEPT ![p] = {}]
      /\ UNCHANGED <<nextpid, newproc, them, reply, owns, live>>

(* The thread moves to the kernel process and destroys its old one. *)
ProcExitDestroy(p) ==
  /\ pc[p] = "exited"
  /\ ProcDestroy(p)
  /\ pc' = [pc EXCEPT ![p] = "free"]
  /\ UNCHANGED <<pidinfo, nextpid, nprocs, p_pid, newproc, them, reply, kids>>

-----------------------------------------------------------------------------
(* waitpid and pid_disown.                                                 *)

(* Mutant of WaitFails: anybody's child will do. *)
WaitFailsNoEperm(p, pid) ==
  pid = p_pid[p] \/ pid <= INVALID_PID \/ pi_get(pid) = Null

(* The error returns of pid_wait: EINVAL, ENOSYS, ESRCH and EPERM. *)
WaitFails(p, pid) ==
  \/ pid = p_pid[p]
  \/ pid <= INVALID_PID
  \/ pi_get(pid) = Null
  \/ pi_get(pid).ppid # p_pid[p]

(* The status is read, the entry dropped, and the call about to return.    *)
Collect(p, pid) ==
  /\ reply' = [reply EXCEPT ![p] = <<pid, pidinfo[Slot(pid)].status>>]
  /\ pidinfo' = Dropped(pidinfo, {Slot(pid)})
  /\ nprocs' = nprocs - 1
  /\ kids' = [kids EXCEPT ![p] = @ \ {pid}]
  /\ pc' = [pc EXCEPT ![p] = "copyout"]
  /\ UNCHANGED <<nextpid, p_pid, newproc, owns, live>>

WaitExited(p, pid) ==
  /\ CanCall(p) /\ ~WaitFails(p, pid)
  /\ pi_get(pid).exited
  /\ Collect(p, pid)
  /\ UNCHANGED them

(* WNOHANG: the pid returned is 0 and the status is whatever the stack had.*)
WaitNoHang(p, pid) ==
  /\ CanCall(p) /\ ~WaitFails(p, pid)
  /\ ~pi_get(pid).exited
  /\ pc' = [pc EXCEPT ![p] = "copyout"]
  /\ UNCHANGED <<pidinfo, nextpid, nprocs, p_pid, newproc, them, reply, kids, owns, live>>

(* cv_wait: pidlock is released and the thread sleeps, in one step. *)
WaitSleep(p, pid) ==
  /\ CanCall(p) /\ ~WaitFails(p, pid)
  /\ ~pi_get(pid).exited
  /\ them' = [them EXCEPT ![p] = pid]
  /\ pc' = [pc EXCEPT ![p] = "waiting"]
  /\ UNCHANGED <<pidinfo, nextpid, nprocs, p_pid, newproc, reply, kids, owns, live>>

(* cv_wait returns; the pidinfo is the one that was looked up before.      *)
WaitWoken(p) ==
  /\ pc[p] = "woken"
  /\ Collect(p, them[p])
  /\ them' = [them EXCEPT ![p] = INVALID_PID]

(* sys_waitpid copies the status out, or fails with EFAULT, and returns.   *)
WaitReturns(p) ==
  /\ pc[p] = "copyout"
  /\ reply' = [reply EXCEPT ![p] = <<INVALID_PID, NoStatus>>]
  /\ pc' = [pc EXCEPT ![p] = "running"]
  /\ UNCHANGED <<pidinfo, nextpid, nprocs, p_pid, newproc, them, kids, owns, live>>

(* Only waittest, which runs as the kernel process, disowns a child. *)
PidDisown(pid) ==
  LET i == Slot(pid)
  IN  /\ pc[kproc] = "running" /\ pid \in kids[kproc]
      /\ IF pidinfo[i].exited
         THEN pidinfo' = Dropped(pidinfo, {i}) /\ nprocs' = nprocs - 1
         ELSE pidinfo' = [pidinfo EXCEPT ![i].ppid = INVALID_PID] /\ UNCHANGED nprocs
      /\ kids' = [kids EXCEPT ![kproc] = @ \ {pid}]
      /\ UNCHANGED <<nextpid, p_pid, pc, newproc, them, reply, owns, live>>

-----------------------------------------------------------------------------
Next ==
  \/ \E p, q \in Proc : ProcFork(p, q)
  \/ \E q \in Proc : ProcCreateRunprogram(q)
  \/ \E p \in Proc : PidAllocNoMemory(p)
  \/ \E p \in Proc : AsCopy(p) \/ AsCopyFails(p)
  \/ \E p \in Proc : FiletableCopy(p) \/ FiletableCopyFails(p)
  \/ \E p \in Proc : ThreadFork(p) \/ ThreadForkFails(p)
  \/ ProgThreadFork
  \/ \E p \in Proc : Runprogram(p)
  \/ \E p \in Proc, s \in Status : SetExitStatus(p, s)
  \/ \E p \in Proc : ProcExitDestroy(p)
  \/ \E p \in Proc, pid \in Pid :
       WaitExited(p, pid) \/ WaitNoHang(p, pid) \/ WaitSleep(p, pid)
  \/ \E p \in Proc : WaitWoken(p) \/ WaitReturns(p)
  \/ \E pid \in Pid : PidDisown(pid)

(* What a thread does inside the kernel it finishes: the scheduler runs    *)
(* every runnable thread, and pidlock is held only for short critical      *)
(* sections.  When programs fork, wait or exit is their own affair.        *)
KernelStep(p) ==
  \/ AsCopy(p) \/ FiletableCopy(p) \/ ThreadFork(p)
  \/ (p = kproc /\ ProgThreadFork) \/ Runprogram(p)
  \/ ProcExitDestroy(p) \/ WaitWoken(p) \/ WaitReturns(p)

Spec == Init /\ [][Next]_vars
MenuSpec == Init /\ [][Next \/ ProgThreadForkFails]_vars
FairSpec == Spec /\ \A p \in Proc : WF_vars(KernelStep(p))

-----------------------------------------------------------------------------
(* Types. *)
TypeOK ==
  /\ pidinfo \in [Slots -> Info]
  /\ nextpid \in Pid
  /\ nprocs \in Int
  /\ p_pid \in [Proc -> Pid \cup {INVALID_PID, KERNEL_PID}]
  /\ pc \in [Proc -> {"free", "embryo", "running", "as_copy", "filetable_copy",
                      "thread_fork", "prog_thread_fork", "runprogram", "waiting",
                      "woken", "copyout", "exited"}]
  /\ newproc \in [Proc -> Proc \cup {NoProc}]
  /\ them \in [Proc -> Pid \cup {INVALID_PID}]
  /\ reply \in [Proc -> (Pid \cup {INVALID_PID}) \X (Status \cup {NoStatus})]
  /\ kids \in [Proc -> SUBSET Pid]
  /\ owns \in [Proc -> SUBSET Object]
  /\ live \in [Object -> Int]

Alive(p) == pc[p] \notin {"free", "exited"}
Forking(p) == pc[p] \in {"as_copy", "filetable_copy", "thread_fork", "prog_thread_fork"}
Asleep(p) == pc[p] \in {"waiting", "woken"}

(* The hash table is sound: an entry is in the slot of its pid, the slots  *)
(* no entry owns are NULL, and nprocs, the only thing pid_alloc looks at   *)
(* before it scans, is the number of entries.  pi_put and pi_drop assert   *)
(* their part of it (pid.c:185, 204 and 205).                              *)
TableConsistent ==
  /\ \A i \in Occupied : pidinfo[i].pid # INVALID_PID /\ Slot(pidinfo[i].pid) = i
  /\ nprocs = Cardinality(Occupied)

(* pid_alloc's scan finds a free slot before its assertion on the number   *)
(* of turns fails (pid.c:258): whatever nextpid is, however the pids wrap  *)
(* round, and whichever slots the surviving processes hold.                *)
ScanTerminates ==
  nprocs # PROCS_MAX => \E k \in 0..ScanLimit : ScanStops(k)

(* A process that has a pid has an entry of its own, which has not exited, *)
(* so two live processes never share a pid and a pid is not given out      *)
(* again while its process runs (the assertions at pid.c:296, 297, 367).   *)
(* Conversely an entry that has not exited has a process: a failed fork    *)
(* or an exit never strands one.                                           *)
LiveProcsRegistered ==
  /\ \A p \in Proc : Alive(p) <=> p_pid[p] # INVALID_PID
  /\ \A p \in Proc : Alive(p) =>
       pi_get(p_pid[p]).pid = p_pid[p] /\ ~pi_get(p_pid[p]).exited
  /\ \A p, q \in Proc : Alive(p) /\ Alive(q) /\ p_pid[p] = p_pid[q] => p = q
  /\ \A i \in Occupied : ~pidinfo[i].exited =>
       \E p \in Proc : Alive(p) /\ p_pid[p] = pidinfo[i].pid

(* No zombie is left behind: an entry that has exited has a parent that is *)
(* still alive and can collect it, although parents exit, disown and have  *)
(* their own pids reused.  An entry that names a parent never outlives it. *)
ZombiesCollectable ==
  \A i \in Occupied :
    /\ pidinfo[i].exited => pidinfo[i].ppid # INVALID_PID
    /\ pidinfo[i].ppid # INVALID_PID =>
         \E p \in Proc : Alive(p) /\ p_pid[p] = pidinfo[i].ppid

(* Every pid fork returned and waitpid has not yet collected can be waited *)
(* for: the call does not fail, however early the child exited and however *)
(* many pids were recycled since.  Conversely the only other entries that  *)
(* name p as parent are the embryo p is forking.                           *)
KidsWaitable ==
  \A p \in Proc : Alive(p) =>
    /\ \A c \in kids[p] : ~WaitFails(p, c)
    /\ \A i \in Occupied : pidinfo[i].ppid = p_pid[p] =>
         \/ pidinfo[i].pid \in kids[p]
         \/ Forking(p) /\ pidinfo[i].pid = p_pid[newproc[p]]

(* The pidinfo a sleeping pid_wait points to stays the entry it looked up, *)
(* and its process has exited exactly when the sleeper has been woken: the *)
(* single cv_wait, with no loop around it, is enough (pid.c:441-443), and  *)
(* no wakeup is lost.                                                      *)
WaiterHoldsEntry ==
  \A p \in Proc : Asleep(p) =>
    /\ them[p] \in kids[p]
    /\ pi_get(them[p]).pid = them[p]
    /\ pi_get(them[p]).ppid = p_pid[p]
    /\ pi_get(them[p]).exited <=> pc[p] = "woken"

(* proc_destroy asserts that a struct proc that is freed has no pid        *)
(* (proc.c:185).                                                           *)
DestroyedHasNoPid == \A p \in Proc : pc[p] = "free" => p_pid[p] = INVALID_PID

(* Every address space and file table belongs to exactly one struct proc:  *)
(* no failure path of fork leaks one or destroys one twice.                *)
ObjectsOwnedOnce ==
  \A k \in Object : live[k] = Cardinality({p \in Proc : k \in owns[p]})

(* A parent asleep in waitpid whose child has exited returns.              *)
ExitedChildWakesParent ==
  \A p \in Proc :
    (Asleep(p) /\ pi_get(them[p]).exited) ~> pc[p] = "running"

-----------------------------------------------------------------------------
(* The inductive invariant of Processes_proofs.tla: what the properties    *)
(* above say and what their proofs need besides, in terms of the table.    *)

Entry(pid) == pidinfo[Slot(pid)]

SlotsRight ==
  \A i \in Slots : \/ pidinfo[i] = Null
                   \/ /\ pidinfo[i].pid # INVALID_PID
                      /\ Slot(pidinfo[i].pid) = i

ProcsRight ==
  /\ p_pid[kproc] = KERNEL_PID
  /\ \A p \in Proc : p # kproc => p_pid[p] # KERNEL_PID
  /\ \A p \in Proc : Alive(p) <=> p_pid[p] # INVALID_PID
  /\ \A p \in Proc : Alive(p) =>
       Entry(p_pid[p]).pid = p_pid[p] /\ ~Entry(p_pid[p]).exited
  /\ \A p, q \in Proc : Alive(p) /\ p_pid[p] = p_pid[q] => p = q
  /\ \A i \in Slots : pidinfo[i] # Null /\ ~pidinfo[i].exited =>
       \E p \in Proc : Alive(p) /\ p_pid[p] = pidinfo[i].pid

ParentsRight ==
  /\ Entry(KERNEL_PID).ppid = INVALID_PID
  /\ \A i \in Slots : pidinfo[i] # Null => pidinfo[i].ppid # pidinfo[i].pid
  /\ \A i \in Slots : pidinfo[i].exited => pidinfo[i].ppid # INVALID_PID
  /\ \A i \in Slots : pidinfo[i].ppid # INVALID_PID =>
       \E p \in Proc : Alive(p) /\ p_pid[p] = pidinfo[i].ppid

ForkersRight ==
  \A p \in Proc : Forking(p) =>
    /\ newproc[p] \in Proc
    /\ pc[newproc[p]] = "embryo"
    /\ Entry(p_pid[newproc[p]]).ppid = p_pid[p]
    /\ p_pid[newproc[p]] \notin kids[p]

KidsRight ==
  /\ \A p \in Proc : pc[p] \in {"free", "embryo", "exited"} => kids[p] = {}
  /\ \A p \in Proc : \A c \in kids[p] : Entry(c).pid = c /\ Entry(c).ppid = p_pid[p]
  /\ \A p \in Proc : Alive(p) =>
       \A i \in Slots : pidinfo[i].ppid = p_pid[p] =>
         \/ pidinfo[i].pid \in kids[p]
         \/ Forking(p) /\ pidinfo[i].pid = p_pid[newproc[p]]

SleepersRight ==
  \A p \in Proc : Asleep(p) =>
    them[p] \in kids[p] /\ (Entry(them[p]).exited <=> pc[p] = "woken")

IInv == /\ TypeOK /\ SlotsRight /\ ProcsRight /\ ParentsRight
        /\ ForkersRight /\ KidsRight /\ SleepersRight

(* For ObjectsOwnedOnce: what a struct does not point to yet.              *)
OwnsRight ==
  \A p \in Proc :
    /\ pc[p] \in {"free", "runprogram"} => owns[p] = {}
    /\ pc[p] \in {"as_copy", "prog_thread_fork"} => owns[newproc[p]] = {}
    /\ pc[p] = "filetable_copy" => "ft" \notin owns[newproc[p]]

(* For ImplementsProcessTree: what exit leaves and waitpid hands on.       *)
OutcomesRight ==
  /\ \A i \in Slots : pidinfo[i].exited => pidinfo[i].status \in Status
  /\ \A p \in Proc : pc[p] # "copyout" => reply[p][1] = INVALID_PID

-----------------------------------------------------------------------------
(* The table implements the abstract process tree.                         *)

PidsInUse == {pidinfo[i].pid : i \in Occupied}

IsEmbryo(c) == \E q \in Proc : pc[q] = "embryo" /\ p_pid[q] = c

StateOf(c) ==
  IF IsEmbryo(c) THEN "embryo"
  ELSE IF pi_get(c).exited THEN pi_get(c).status ELSE "running"

Tree == INSTANCE ProcessTree WITH
  Root <- KERNEL_PID, NoPid <- INVALID_PID,
  parent <- [c \in PidsInUse |-> pi_get(c).ppid],
  state <- [c \in PidsInUse |-> StateOf(c)],
  pending <- {<<p_pid[p], reply[p][1], reply[p][2]>> :
                p \in {r \in Proc : reply[r][1] # INVALID_PID}}

(* Fork, exit, wait and disown, seen through the table, are the operations *)
(* of ProcessTree: in particular each exit status goes to the parent of    *)
(* the process that exited with it, at most once, and is the right one.    *)
ImplementsProcessTree == Tree!TreeSpec
=============================================================================
