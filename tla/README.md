# Verification of the COMP3231 OS/161 kernels

The repository holds three snapshots of one teaching kernel, OS/161 as extended
at UNSW for COMP3231: `src/Asst1` (synchronisation problems), `src/Asst2` (file
system calls) and `src/Asst3` (processes and virtual memory). The three trees
share most of their files. Where they differ, this project models the most
complete one, Asst3; what only Asst1 and Asst2 have (the synchronisation
problems, the first file table) has modules of its own. All paths below are
relative to `src/Asst3/kern` unless they say otherwise.

The project consists of TLA+ modules written from the C code, TLC
configurations that check them on small instances, and theorems about them that
the TLA+ proof system checks for every value of the constants.

## 1. Inventory

### The parts, their state and their operations

| Part | State | Operations | Status |
| --- | --- | --- | --- |
| Process table (`proc/pid.c`) | `pidinfo[PROCS_MAX]`, `nextpid`, `nprocs`, all under `pidlock`; a `pidinfo` has pid, parent's pid, exited, status and a condition variable | `pid_alloc`, `pid_unalloc`, `pid_disown`, `pid_setexitstatus`, `pid_wait` | modelled |
| Processes (`proc/proc.c`, `syscall/proc_syscalls.c`) | `struct proc`: pid, address space, file table, threads | `proc_fork`, `proc_unfork`, `proc_create_runprogram`, `proc_exit`, `proc_destroy`; `sys_fork`, `sys_waitpid`, `sys__exit` | modelled |
| Kernel menu (`main/menu.c`, `syscall/runprogram.c`) | none of its own: runs as the kernel process | `common_prog`, `cmd_progthread`, `runprogram` | partly |
| Blocking primitives (`thread/synch.c`) | semaphore: count, wait channel; lock: holder, wait channel; condition variable: wait channel | `P`, `V`, `lock_acquire`, `lock_release`, `cv_wait`, `cv_signal`, `cv_broadcast` | modelled |
| Threads and scheduler (`thread/thread.c`, `clock.c`) | per cpu: run queue, zombies, current thread, idle flag; per thread: state; wait channels: a list | `thread_fork`, `thread_switch`, `thread_exit`, `thread_make_runnable`, `thread_consider_migration`, `wchan_*`, `hardclock` | modelled, but not the start of cpus, panic, and TLB shootdown |
| Deadlock detector (`thread/hangman.c`) | who holds and who waits for which lockable | `hangman_wait`, `hangman_acquire`, `hangman_release`, called by `spinlock_acquire` and `spinlock_release` | modelled |
| Open files (`syscall/filetable.c`, `openfile.c`, `file_syscalls.c`) | a table per process; open files with a reference count and an offset under a lock | open, close, read, write, lseek, dup2, fork's `filetable_copy`, `runprogram`'s standard descriptors | modelled |
| Asst2's open files (`src/Asst2/kern/syscall/file.c`) | one global table with reference counts, and an index table per process | `sys_open`, `sys_close`, `sys_read`, `sys_write`, `sys_lseek`, `sys_dup2` | modelled, up to the first undefined step |
| Virtual memory (`vm/vm.c`, `vm/addrspace.c`) | two-level page table, list of regions; each cpu's TLB | `vm_fault`, `as_create`, `as_copy`, `as_destroy`, `as_activate`, `as_define_region`, `as_define_stack`, `as_prepare_load`, `as_complete_load` | partly: not an `as_copy` that runs out of memory half way |
| Program loading (`syscall/loadelf.c`, `runprogram.c`) | the new and the old address space | `loadexec`, `load_elf`, `execv` | by what they do to address spaces |
| Frame allocator (`arch/mips/vm/unsw.c`) | the frame table: allocated and not_last bits | `alloc_kpages`, `free_kpages` | modelled |
| Asst1's problems (`src/Asst1/kern/asst1`) | semaphores, a buffer, philosophers | producer and consumer, dining, counter, two locks | modelled |
| VFS and file systems (`vfs`, `fs`) | vnode reference counts, SFS's table of vnodes | `vnode_incref`, `vnode_decref`, loading and reclaiming | not modelled |
| Kernel heap, devices, machine-dependent code, libraries, user programs | | | not modelled |

### How they interact

* A process's only thread calls the process table; the table's lock is a
  sleeping lock of `synch.c`, and a waiter sleeps on its child's condition
  variable. `proc_fork` calls `pid_alloc`, `as_copy`, `filetable_copy` and the
  caller then `thread_fork`, each of which can fail.
* `synch.c` is built from wait channels and spinlocks. `thread_switch` carries a
  spinlock across the point where a thread gets on a channel's list.
* Wait channels, the run queues and the idle loops of the cpus hand threads to
  each other; `thread_make_runnable` and migration send interrupts to idle cpus.
* Open files are shared by the processes a fork relates; each has an offset
  under a lock and a reference count under a spinlock.
* `vm_fault` and `as_copy` take frames from the frame allocator, which has a
  spinlock of its own.

### What is hard

* Order: parent and child exit in any order; a child may exit before the parent
  returns from fork, or while the parent is between looking at the entry and
  sleeping.
* Reuse: pids wrap round and are used again, and entries name parents by pid.
* Partial failure: each step of fork can fail, with something to give back.
* Wakeups: `P` and `lock_acquire` do not hand over what they wait for, so a
  woken thread competes with newcomers; `cv_wait` gives up the lock before it is
  on the list; `pid_wait` sleeps without a loop.
* Shared memory between cpus: a thread is put on a list and woken before it has
  stopped running; queue lengths are read one at a time.
* Limits: a full process table, the last pid, a full descriptor table, no
  memory.
* Idling: an idle cpu stays on the stack of a thread that may be asleep, dead,
  or runnable again, while others put threads on its queue or take them off.
* Two pictures of one thing: the detector's records and the lock words, TLBs and
  page tables, the state of a philosopher and its semaphore.

`PROJECT.json` lists these hazards with their lines and the properties that
cover them.

### What makes each part correct

* Processes: a pid belongs to one live process; an entry that nobody can collect
  does not exist; a pid that fork returned can be waited for, once, and gives
  the right status; a waiter is woken when its child exits; nothing is leaked.
* Primitives: mutual exclusion; a count that never goes below zero; no thread
  asleep with nobody who will wake it while what it waits for is there;
  `cv_wait` atomic with respect to signals.
* Scheduler: each thread is on one list; a stack is not freed or run on by
  another cpu while one is still on it; a cpu with work is not idle.
* Deadlock detector: a report is a deadlock, and a deadlock is reported.
* Virtual memory: a frame is mapped by one page of one address space; a TLB
  never shows another process's pages or stale rights; text stays read-only.
* Asst1's problems: the items, forks and counter are exact, and every problem
  ends.
* Open files: the count is the number of references; calls on a shared offset
  are atomic; the vnode is closed once, at the last close.
* Frames: allocated blocks are disjoint, a free gives back the block that was
  allocated and nothing else.

## 2. The modules

| Module | What it is |
| --- | --- |
| `ProcessTree` | abstract: a forest of processes with fork, exit, disown, collect |
| `Processes` | the process table and the process calls, from the code |
| `ProcessesMC` | the instance TLC checks |
| `Processes_proofs` | theorems about `Processes`, and that it implements `ProcessTree` |
| `Monitor` | abstract: a semaphore, and a Mesa monitor |
| `Synch` | `synch.c` over wait channels, from the code |
| `SynchMC` | the instance TLC checks |
| `Synch_proofs` | theorems about `Synch` |
| `Frames` | the frame allocator, from the code; TLC checks it as it is |
| `Frames_proofs` | theorems about `Frames` |
| `SharedFiles` | abstract: descriptors, and open files they share |
| `OpenFiles` | descriptor tables and open files, from the code |
| `OpenFilesMC` | the instance TLC checks |
| `OpenFiles_proofs` | theorems about `OpenFiles` |
| `Asst2Files` | the file calls of Asst2, from the code |
| `Scheduler` | `thread.c`: run queues, idling, migration, zombies, from the code |
| `SchedulerMC` | the instance TLC checks |
| `Scheduler_proofs` | theorems about `Scheduler` |
| `Hangman` | the deadlock detector and the spinlocks that drive it |
| `Hangman_proofs` | theorems about `Hangman` |
| `VM` | address spaces, page tables, faults and TLBs, with exec, fork and exit |
| `VMMC` | the instance TLC checks |
| `VM_proofs` | theorems about `VM` |
| `BoundedBuffer` | abstract: a bounded buffer |
| `SynchProblems` | the four problems of Asst1, from the code |
| `SynchProblems_proofs` | theorems about `SynchProblems` |

Operators whose comment begins "Mutant of ..." are deliberate bugs. They are not
used by the specifications: each shows that one property fails when the code it
is about is wrong in that way.

### Processes

Variables have the names of the code's: `pidinfo`, `nextpid`, `nprocs`,
`p_pid`. `pc` says where the thread of a process is; `newproc` is the forker's
local variable and `them` the `pidinfo` pointer `pid_wait` keeps across its
sleep. `reply` is what a `sys_waitpid` is about to return, `owns` the pointers
of a struct proc to an address space and a file table, `live` how many of each
exist, and `kids` the ghost of what a program knows: the pids fork returned to
it that it has neither collected nor disowned.

One critical section under `pidlock` is one step. That is sound because every
access to the table in `pid.c` is made with the lock held, and what is outside
it, a struct proc's members, belongs to one thread at a time. `cv_wait` is two
critical sections: `WaitSleep` ends one, `WaitWoken` is the next, and any number
of steps of others come between. That the lock and the condition variable do
give these critical sections is what `Synch` shows.

fork is a sequence of steps because other processes run between them:
`ProcFork` (with `pid_alloc`), `AsCopy`, `FiletableCopy` and `ThreadFork`, each
but the first with a failing twin which ends in the code's error path. The child
is an "embryo" until `thread_fork`. The kernel process (`kproc`) runs the menu:
it starts programs (`ProcCreateRunprogram`, `ProgThreadFork`, and `Runprogram`
in the new thread), and, as `waittest` does, forks, waits and disowns.

`pid_alloc`'s scan is the least number `k` of turns after which the slot of the
candidate is empty, bounded by the assertion in the loop.

`MenuSpec` adds the failing `thread_fork` of `common_prog`. It is kept out of
`Next` because the kernel does not survive it (see Findings); the properties and
theorems of `Spec` are about runs in which that call does not fail.

Left out: `p_cwd`, thread arrays, names, the encoding of statuses, argument
checks without effect on the table (bad options, bad pids), `execv`.

### Synch

One semaphore, one lock and one condition variable used with it. A section that
holds one spinlock is one step. Only `cv_wait` takes a second spinlock while it
holds one, so the condition variable's spinlock is a variable
(`cv_wchanlock`) and `cv_wait` three steps: the lock is given up, the thread is
put on the list and the spinlock released, and later the thread is running again
and takes the spinlock, before it calls `lock_acquire`. `P` and `lock_acquire`
are one action each: a turn of the loop, which sleeps or succeeds. `t_state`
does not tell a ready thread from a running one. `cv_signal` and `cv_broadcast`
need not be called with the lock held: the code ignores its argument.

### Frames

The table's bits are `allocated` and `not_last`. Each operation holds the
spinlock from beginning to end, so there is one at a time and its locals
(`npages`, `i`, `j`) are variables; the loops that could go wrong take one step
a turn. `alloc_one_frame`'s loop is the choice of the least free frame. `blocks`
is a ghost: what callers hold; `going` is the part of the block being freed that
is still marked. Callers free what they were given, once (a double free is a
panic in the code). `ram_bootstrap` leaves `not_last` of the free frames
uninitialized: any initial value. `FrameAssumption` has `MaxPages <=
last_frame`, since `last_frame - npages` is unsigned: the kernel asks for a few
pages.

### OpenFiles

Variables have the names of the code's: `ft_openfiles`, `of_refcount`,
`of_offset`, `of_offsetlock` (its holder). `of_vnode` is what `VOP_ISSEEKABLE`
says of it, or "none" when the struct is free. `pc` says where a process is in a
call; `file`, `fd`, `pos` are the call's locals, `child` the forker's, and
`back` where a process goes on after `openfile_decref`, which close, dup2, a
failed open, exit and a failed fork call. What is done under `of_reflock` is one
step, and destroying the file is the next: the code gives up the spinlock in
between. `of_offsetlock` is held over several steps, because the transfer
sleeps. `CopyEntry` and `DropEntry` copy and destroy a table one entry a step;
`DropEntry` clears the entry before it drops the reference where the code does
so afterwards, which nobody can see since the table is the process's own.
`filetable_copy`'s only failure comes before it shares anything and is left out,
as are open modes (a transfer may fail for any reason) and file contents.

In the refinement mapping to `SharedFiles` a process is running from the end of
`runprogram`, or of the fork that made it, until it begins to exit; the offset
is a function of the files its table refers to.

### Scheduler

One section under a run queue's spinlock is one step. `thread_switch` holds its
own cpu's from placing the old thread to choosing the next, over several steps:
`thread_exit`, `thread_yield`, or, for a thread that sleeps, `wchan_sleep` and
`FallAsleep`; then `Choose` or `cpu_idle`. A sleeping thread's two are those on
either side of `spinlock_release(lk)` (`thread/thread.c:618`): the thread is on
the channel, whose lock is free, before its `t_state` says so, and a waker may
take it off there and then; it gets no further, since `thread_make_runnable`
needs the run queue, which is locked while `pc` is "sleep" or "switch".
`thread_fork` is two steps, with interrupts on between them: it gives the new
thread its own cpu (`thread_fork`), and makes it runnable there (`ForkEnds`),
perhaps from another cpu by then. `newthread` is its local variable; a thread
with one does nothing else before `ForkEnds`. `waking` holds the threads that `wchan_wakeone` and
`wchan_wakeall` have taken off the channel; the channel's lock is held until it
is empty. `c_isidle` is true on the way through `thread_switch`, as in the code,
and `c_curthread` stays the thread whose stack the cpu is on. `ipi` is the
interrupt line, which `lamebus_clear_ipi` lowers after the handler, so that one
raised in between is lost; the loop around `cpu_idle` looks at the queue
afterwards.

`thread_consider_migration` is a step for each queue it counts, one that takes
the victims, and one for each queue it sends to, under that queue's lock:
`Looked` is how many victims the loop takes up, and `Send` says which of them go
and which, the cpu's own `c_curthread` if it is met, is skipped and goes to the
end of the list. `migration` has the local variables. The one channel may have
any number of threads; the handlers of devices and of the one-second timer wake
in interrupts (`Wakeup` in "idle").
`schedule` does nothing in this kernel. Left out: the start of secondary cpus
(each boots with its thread), panic and offline interrupts, TLB shootdown, stack
checks, and failures of `thread_fork`, which change nothing here.

### Hangman

The actors are cpus and the lockables spinlocks. The lock word `splk_lock`,
which `spinlock_acquire` tests and sets, and the detector's records `l_holding`
and `a_waiting` are separate, since they change at different moments.
`hangman_check`'s loop takes a step a turn, under `hangman_lock`. An actor
releases what it holds; it may acquire anything. Panic ends an actor: "deadlock"
for a cycle (or a spinlock its cpu has), "confused" for a failed assertion.
`lock_acquire` and `lock_release` make the same calls in the same order, with
threads.

### VM

Addresses and lengths are in pages and wrap at `ADDR_MAX`. An address space is a
record of its regions, newest first, and a function from pages to page table
entries; the second-level tables are the groups of `PTPAGES` pages one of which
is mapped. A process has one thread, which is the only one to use its address
space, so `pt_lock` excludes nobody and is left out. What processes share is the
frames, the cpus and their TLBs. `Dispatch` puts another process's thread on a
cpu, with the `as_activate` of `thread_switch`, between any two steps;
`load_tlb` replaces any entry or none, since `tlb_random` is the hardware's.

`vm_fault` is two steps where it allocates (`FaultAlloc`, `FaultInsert`), since
the process may go on on another cpu after `alloc_kpages`. `LoadExec` to
`EnterNewProcess` are `loadexec`, for `runprogram` (no old address space) and
`execv`; segments are read while faults come from the kernel ("load"). `as_copy`
and `as_destroy` are single steps: nobody else sees the copy, and frames given
back while it runs are a matter of when. An executable is the sequence of its
segments, which `load_elf` defines one by one (`Begins`) and may refuse at any
of them. `argbuf_copyout` writes up to `ARG_PAGES` of the stack's last pages
(`ArgPages`), each with a fault of its own. A process that faults wrongly is killed
(`Killed`), and its address space destroyed in `ProcDestroy`.

### SynchProblems

Each thread is a list of instructions, translated from the thread's function,
that it executes a number of times; `P`, `V` and the locks' calls are single
steps, which `Synch` justifies. A lock is a semaphore that begins with one;
`lock_acquire`'s and `lock_release`'s assertions about the holder are left out,
since each of these threads releases only what it has acquired. Left out too is
a consumer's end after `SOMETHING_WRONG_COUNT` (10000) items, which the
producers' 60 do not reach. What is done between them is two steps, a look
(`Search`, `Look`, `Read`) and an act on what was seen (`Fill`, `Take`, `Let`,
`Add`), so that nothing is exclusive but by its semaphore. `RunTest` is the
menu, with the setup functions; what a problem does not reset (`counter`,
`adder_counters`, `state`) keeps what the last run left. `NADDS` adds are shared
by the adders, each of which counts its own after it has left the section
(`Count`), so that `counter` runs ahead of the counts by the adders that are in
between (`Uncounted`). The items with two zeros in them that main sends, `Stop`,
end the consumers. `Waited` is where a driver stands once its last wait is over.

### Asst2Files

`openedFiles` is the system's table of open files, `fdtable` each process's
table of indices into it. `of_lock` is held by `sys_read` and `sys_write` from
beginning to end, and taken late by `sys_lseek` and `sys_dup2`, which have a
step before. The vnode's count is the VFS's, as `vfs_open` and `vfs_close` use
it. In a call that follows a NULL entry or reaches a reclaimed vnode the program
may do anything: the model stops there (`panicked`). Programs of Asst2 do not
fork, and their descriptors are not closed when they end.

## 3. The runs

| Run | Instance | Shows |
| --- | --- | --- |
| `processes` | three user processes, 4 slots, pids 2 to 6, one status; symmetric | the nine invariants of `Processes` |
| `process_tree` | the same with 3 slots, pids 2 to 5, two statuses; not symmetric | refinement of `ProcessTree`; a parent whose child has exited returns |
| `processes_menu` | as `processes`, `MenuSpec` | the finding below |
| `synch` | four threads, initial count 1, count up to 3 | the five invariants, refinement of `Monitor`, two liveness properties |
| `frames` | frames 2 to 8 free, requests for 1 to 4 | the three invariants, and that the loops end |
| `frames_scan` | the same | the second finding below |
| `scheduler` | two cpus, three threads, one channel | no thread is lost, doubled or freed under a cpu; a cpu with work does not idle on |
| `hangman` | three actors, three spinlocks | reports are deadlocks, and deadlocks are reported |
| `vm` | two cpus, two processes, two frames, four pages of two to a table, a stack of two, TLBs of two entries, three executables; symmetric | frames, TLBs and rights |
| `synch_problems` | two producers, consumers, adders, three philosophers, a buffer of two; each repeats twice, three adds | sections exclude, drivers wait for all their threads, the buffer implements `BoundedBuffer`, every problem ends |
| `asst2_close` | two processes, tables of four, two files and the console | the third finding below |
| `open_files` | two processes, two open files, two descriptors, one standard descriptor, offsets up to 2 | the two invariants, refinement of `SharedFiles`, no lost transfer, files nobody uses are closed |

Bounds. Three user processes allow a grandparent, parent and child, so that
every order of three exits occurs, and a pid of one can be given to another
while a third still runs. Five pids over four slots (four over three) make pids
wrap while slots are held, with a shift at the wrap since the number of pids is
no multiple of the number of slots. With three slots the table gets full with a
process to spare. Two statuses suffice to tell a right status from a wrong one.
Four threads are one that is asleep, two that have been woken and one that comes
anew, which the properties about units and locks need; `SEM_MAX` 3 lets the
count exceed the number of threads that are awake.

Seven frames hold two blocks of three or four, or several smaller ones with gaps
of each length between them, so that a scan restarts more than once. Two
processes share a file after a fork or have one each; two descriptors make a
table full, with one file or two, so that open finds it full, and dup2 replaces
another file or the same one; two files are enough for one to be destroyed and
its struct used again. An offset of up to 2 lets one transfer overtake another.

Two cpus and three threads let one thread wake or migrate another while a cpu
idles on that one's stack and the third runs; an empty cpu beside
one with two on its queue makes migration send, skip its own current thread, and
put back. A forker that is migrated before `ForkEnds`, while another thread
goes on on the cpu it left, needs two threads more; the theorems cover it, and
`WakeNext` takes the same path through `thread_make_runnable` to another cpu.

Three actors and locks form cycles of every length up to three, and a lock
changes hands from a second to a third while the first is about to look. Two
processes and two cpus leave entries of each process in each TLB; pages 0 and 2
are in different second-level tables and the stack's two in one, so that both
inserting in an old table and a failing new one occur, and arguments take one
page or two; two frames run out, for exec with an old page and a new, for fork
and for the arguments. One executable has a segment that begins beyond kuseg and
whose end wraps to page 1, which `region_valid` accepts after the text and
before the stack; another is refused at its second segment, which lies over the
first; the third has data that stays writeable.

Two producers, consumers and slots are the least with a queue on each side and a
race for a slot; with three philosophers each neighbours each, and two rounds
let one eat twice while another waits. In `asst2_close` four entries leave room
for two descriptors of one file beside others; the counterexample needs two.

Deadlock is checked in every run but two: in `hangman` a system that deadlocks
or panics is meant to stop, and `asst2_close`'s stops at the first undefined
step. Of the properties:

* `TypeOK`, where a run checks it, holds ranges that a step could leave: of
  `nextpid`, of `sem_count`, of the scan's indices.
* `TableConsistent`, `ScanTerminates`: the table as a data structure.
* `LiveProcsRegistered`, `ZombiesCollectable`, `KidsWaitable`,
  `WaiterHoldsEntry`: the table against the processes. Together they say that
  the assertions of `pid.c` hold.
* `DestroyedHasNoPid`, `ObjectsOwnedOnce`: failure paths and exit.
* `ImplementsProcessTree`: in particular each status is delivered to the right
  parent, at most once.
* `SleepersListed`, `UnitsSpokenFor`, `FreeLockSpokenFor`, `NoUnlistedWaiter`:
  no wakeup is lost, in terms of lists and states.
* `ImplementsMonitor`: mutual exclusion and the atomicity of `cv_wait`.
* `ExitedChildWakesParent`, `FreeLockTaken`, `UnitsTaken`: liveness.
* `FramesAccounted`, `FirstFit`: the blocks against the table's bits, and the
  scan against what it looks for; `SectionsEnd`: no loop runs for ever under the
  spinlock.
* `RefcountsExact`, `UnusedFilesClosed`: a file is there as long as it is
  referred to, also between the steps of fork, dup2 and a failed open, and no
  longer.
* `OffsetLockHeld`, `TransfersNotLost`: every way out of a call gives the
  offset's lock up; and what the lock is for: where a transfer began is where the
  offset is when it ends, with nobody else in a call on it. `ImplementsSharedFiles`: the calls, as
  programs see them.
* `ThreadsInOnePlace`, `StacksKept`: threads against the lists, cpus and states
  they are in, over forks, migration, wakeups and exits, and in the moment at
  which a thread is on the channel and not yet asleep; `WorkRuns`: the unidle
  interrupt is sent whenever it is needed, and none that matters is lost.
* `NoFalseAlarm`, `DeadlocksReported`: the detector's records, which lag behind
  the lock words, against the cycles there are.
* `FramesOwnedOnce`, `TLBMatches`, `RightsExact`: page tables against the
  frames, the TLBs of whatever cpus the process was on, and the regions.
* `SectionsExclusive`, `ImplementsBoundedBuffer`, `AllFinish`: the problems, by
  what their semaphores are for. `DriversWait`: a problem's threads are gone when
  the next one sets up the same semaphores.

Fairness. `Processes` assumes weak fairness of what a thread does inside the
kernel (`KernelStep`): the scheduler is round robin over the run queue, timer
interrupts preempt, and `pidlock` is held for bounded sections. What programs
decide (to fork, wait or exit) has none. Nothing says that `as_copy` or
`thread_fork` succeed, but a thread that is in fork goes on, one way or the
other: the weak fairness of `KernelStep` is on the succeeding step, and a
failing one also disables it. `Synch` assumes weak fairness of `GoOn`, a thread
that is ready goes on with the call it is in. A spinlock is not fair, so nothing
is assumed of the step that waits for `cv_wchanlock`, and no property needs it.
`Frames` assumes that a section under the spinlock goes on: interrupts are off.
`OpenFiles` assumes it of the steps that end a call and wait for nobody but a
spinlock; nothing is assumed of transfers or of who gets the offset's lock.
`Scheduler` assumes weak fairness of `CarryOn(c)`: a cpu goes on executing, and
takes an interrupt whose line is raised; and strong fairness of the steps that
take a run queue's spinlock (`Spinning`), without which one cpu could take it
again and again while another spins. It assumes nothing of threads, devices and
clocks. `Hangman` does the same for its own spinlock (`Locking`) and does not
assume that any lock is ever released. `SynchProblems` assumes that a thread
which can go on does: weak fairness of each thread's step. `AllFinish` holds
although no semaphore is fair, because the work is finite. `VM` and `Asst2Files`
assume none.

## 4. Findings

`common_prog` (`main/menu.c:129`): when `thread_fork` fails it calls
`proc_destroy` on the new process. Its pid has been allocated by
`proc_create_runprogram` and is not given back, and `proc_destroy` asserts that
it was (`proc/proc.c:185`). `sys_fork` calls `proc_unfork` in the same
situation. The run `processes_menu` exhibits it in three steps.

`alloc_multiple_frames` (`arch/mips/vm/unsw.c:243`): the scan stops at `i <
(last_frame - npages)`, so that the last block of memory is never tried. The
allocation fails although it is free, where the comment (`unsw.c:266`) says that
none was found. The run `frames_scan` shows it on the first request for several
frames whose only candidate is the last. `FirstFit` states what the scan does
guarantee.

`sys_close` of Asst2 (`src/Asst2/kern/syscall/file.c:442`) closes the vnode with
every descriptor, although the open file has one reference to it. After `dup2`,
the first close takes the vnode from under the other descriptor. The run
`asst2_close` shows it; `close.html:65` says other handles are not affected.

Met while modelling, and part of the models, but with no run of their own:

* Asst2's `sys_close` leaves the descriptor's entry in `fdtable`. A second close
  succeeds while anybody uses that entry of `openedFiles`, the descriptor
  reaches whatever is opened there next, its slot is never used again, and
  `dup2` onto it fails. `sys_open` returns the index in `openedFiles` for the
  descriptor (571); return values are not in the model. With `O_APPEND`, a failing stat leaks the vnode
  (516-525). `sys_lseek` looks the descriptor up before it takes the lock.
* `as_deactivate` (`vm/addrspace.c:213-225`) calls `proc_getas` after
  `proc_setas(NULL)` in `proc_exit` and flushes nothing; `TLBMatches` holds
  because `as_activate` flushes.
* `region_valid` (382-391) refuses regions that touch; its comment (369) speaks
  of overlap.
* `exec` panics when there is no frame for the arguments
  (`syscall/runprogram.c:529`, and "panic" in `VM`).
* `vm_fault` loses the frame when `insert_pt` fails (`leaked` in `VM`).
* `maths` (`src/Asst1/kern/asst1/math.c`) does not reset the counter, so a
  second run adds nothing.
* Asst1's consumers search the buffer rather than take the oldest item, so that
  main's items may overtake others, which nobody receives then. `BoundedBuffer`
  therefore promises no order.

## 5. What is proved

Each theorem holds for every value of the constants that satisfies the module's
assumptions. These say that the constants are what their names suggest:

* `ProcAssumption`, `TableAssumption`, `StatusAssumption` (`Processes`): the set
  of processes is finite, the null values and the names of a process's states
  are not among the values, the table has a slot for the kernel process, and
  there are at least as many pids as slots.
* `SynchAssumption`: threads are finitely many; the counts are natural.
* `FrameAssumption`: see section 2.
* `OpenFilesAssumption`: processes are finitely many and the null values are no
  process and no file; the bounds are natural.
* `HangmanAssumption`: actors are finitely many, and `NULL` is no actor and no
  lockable.
* `VMAssumption`: kuseg is part of the address space, and `NULL` is no process,
  frame, page table entry or address space. Nothing is assumed about segments
  that overlap or wrap round, or of how many there are; nor about `ARG_PAGES`
  against the stack's size.
* `SchedulerAssumption`: there is a cpu, and each boots with a thread of its
  own.
* `SynchProblemsAssumption`: the numbers of threads, rounds and slots are
  positive, and there are two philosophers at least (one would be its own
  neighbour).

The shape is the same throughout: an inductive invariant `IInv`, which TLC
checked first on the instance of the run; one lemma for each action, and under
it one step for each part of the invariant; a theorem `Invariance`; and the
properties, which follow from `IInv`.

**Processes.** Every invariant of the run `processes`. The properties alone are
not inductive: that an entry's parent is alive needs that a forker's embryo is
its child; that a child can be waited for needs that the pid of a process with
children is not given out again, that is, that its entry stays in its slot until
it exits. `IInv` therefore has a part for each of: slots (`SlotsRight`),
processes and their entries (`ProcsRight`), entries and their parents
(`ParentsRight`), processes in the middle of a fork (`ForkersRight`), known
children (`KidsRight`) and sleepers (`SleepersRight`). Beside it stand three
invariants with proofs of their own: that `nprocs` counts the entries
(`TableAlwaysConsistent`, with facts about cardinalities); that address spaces
and file tables have one owner (`NothingLeaks`, with `OwnsRight`: what a forker's
new process has at each step of the fork); and that `pid_alloc`'s scan ends
within the bound it asserts (`ScanAlwaysTerminates`). The last is arithmetic:
`nprocs` below the limit leaves a slot free; each slot is the remainder of one of
any `PROCS_MAX` consecutive pids; and the turns from `nextpid` to `PID_MAX`, then
from `PID_MIN` on, meet such a pid before the bound. The least turn that does is
where the scan stops.

`TableImplementsTree`: `Spec` implements `ProcessTree!Spec`, with one lemma
for each action. The mapping reads the tree off the table by parents' pids,
which are reused; that it changes as the abstract operations say needs the
above. `OutcomesRight` adds that the status of an entry that is marked exited is
one, and that no reply is left over from an earlier call.

**Synch.** The type invariant, the four invariants of the run, and `Refinement`,
that `Spec` implements `Monitor!MonitorSpec`.

**Frames.** The three invariants of the run. `IInv` adds to them that the chain
of each block ends at its last frame and not before (`ChainsRight`, without
which a free could run into the next block), that the scan's window is free and
every window before it is not (`ScanRight`), and that what is still to be freed
is a chain that starts at `i` (`FreeRight`).

**OpenFiles.** `TypeOK`, the two invariants of the run, `TransfersNotLost` and the
refinement of `SharedFiles`. That a count is exact between the steps of a call
needs to know who has a reference that is not in a table: `IInv` says for each
place in open, dup2, fork, close and exit what `file` is and whether it is
counted. The count itself is a cardinality, and each step changes it by one
member: lemmas about sets of references, with the file of one table entry or one
local variable changed, do the arithmetic once. The lock's invariant then makes
`of_offset` private to the call that moves it: `pos` is still the offset when the
call ends (`LocalsRight`), which is what `TransfersNotLost` and the refinement's
transfer step need.

**Hangman.** `NoFalseAlarm`. The records lag behind the lock words: a lock that
has just been taken, or is about to be given up, has no holder on record, while
its holder may still be on record as waiting for it. `HoldersRight` and
`ActorsRight` say that this is all, place by place; `SearchRight`, that
`hangman_check` has followed recorded waits and holds from the lock it began
with. When the search comes back to its start, its path is a cycle of records
(`DeadlocksRight`), and no step of anybody changes a record on a cycle. That the
cycle is one of lock words too follows because everybody on it waits, so that
nobody on it is in the middle of taking or giving up a lock.

**VM.** `FramesOwnedOnce`, `TLBMatches` and `RightsExact`. `IInv` says for each
place of exec, fork, fault and exit which address spaces a process has (two
while it loads a program), that each frame is owned by one page of one of them
or by one fault between `alloc_kpages` and `insert_pt` (`Owned`), and that the
TLB of a cpu holds entries of the page table of the process it runs and no
others (`TLBRight`). For `RightsExact` regions must not share a page
(`Disjoint`), which the four tests of `region_valid` ensure with sums that wrap
as the code's do; and between `as_prepare_load` and `as_complete_load` every
region and every page must be writeable (`Loading`).

**Scheduler.** `ThreadsInOnePlace` and `StacksKept`. `IInv` puts a thread on
exactly the lists that its `t_state` and `t_cpu` say (`ThreadRight`; for one that
is being created or has not yet fallen asleep, that its creator or its cpu say), makes the
lists free of duplicates (`ListsRight`), keeps each cpu's `c_curthread` its own
and alive (`StackRight`), and says for each place of `thread_switch`, of a
wakeup and of the migration what the cpu may assume (`CpuRight`): that an idle
cpu is where it looks at its queue again, that victims are there only while a
migration runs, and that the migration never plans to send more threads than it
took, although it counted before other cpus added to its queue. That a thread
whose stack a cpu is on is neither sent away nor destroyed rests on `Sendable`
for the one and, for the other, on zombies being of their own cpu, which has left
their stack before `exorcise`.

**SynchProblems.** `SectionsExclusive`, `DriversWait` and the refinement of
`BoundedBuffer`. A thread here is a place in a list, so the lists come first:
lemmas say what each instruction of each kind of thread is, main's included,
whose list is as long as there are threads to wait for. Then a step of any
thread is what the instruction at its place does (`Does`), and one semaphore
belongs to one problem (`Sems`), so that a part of the invariant about one
problem is untouched by the others' threads. The parts are:

* `DiningRight`: who holds `key` is alone between its P and V, and `state` says
  at which places a philosopher may be. A philosopher that was let eat has a unit
  of its own semaphore or has passed it, never both; and what `Look` saw under
  the key is still true at `Let`, which is what keeps neighbours apart when one
  of them is made to eat by a third.
* `AddersRight`: `counter` is the number of the adders' increments, with those
  not yet counted; what an adder read is the counter while it is in the section;
  and an adder is gone only after the counter has come to `NADDS`.
* `BufferRight`: a P of `empty` is a claim on a free slot that lasts until the
  slot is filled, and after a take the slot is free until the consumer's V; so the
  count of `empty`, with the threads that have a claim or owe a V, is at most the
  number of free slots, and the same for `full` (`CountsRight`). With the key's
  owner alone (`KeyRight`) the search therefore finds a slot, and the slot is
  still what it was when it is used. Items are sent once, in an order that `todo`
  and main's place tell (`ItemsRight`), so no two slots have the same one.
* `DriverRight`: the waits a driver has made, with the units that are left, are
  the threads that have gone. When the waits are as many as the threads, all are
  gone: a fact about cardinalities, once for each of the four drivers.

In the refinement `Fill` is `Send`, `Take` is `Receive`, starting a problem is
`Startup`, and every other step leaves the abstract buffer alone.

Only model-checked: liveness and what needs ENABLED (`ExitedChildWakesParent`,
`FreeLockTaken`, `UnitsTaken`, `SectionsEnd`, `UnusedFilesClosed`, `WorkRuns`,
`DeadlocksReported`, `AllFinish`), which the proof system does not reach.

## 6. Plan

What is left is `Vnodes`: the last reference to a vnode against a lookup that
finds it (`fs/sfs/sfs_inode.c`, `vfs/vnode.c`).

## 7. What is not modelled and why

Interrupt levels are below the granularity of the models, as are spinlocks'
test-and-set outside `Hangman`. Devices, SFS's and semfs's disk layouts, reading
of executables, traps, system call dispatch, the libraries, the kernel heap and
user programs are I/O, machine-dependent, data layout or sequential code that
comes with OS/161. The VFS passes calls on; its counts of vnodes are in the
plan. `thread_fork`'s and `proc_addthread`'s memory failures inside exit
(`proc/proc.c:364` ignores the result) would end in an assertion and are not
modelled.

Where the code's behaviour is undefined the models stop or leave the case out:
an `as_copy` that runs out of memory half way (it destroys a page table whose
last second-level table is not initialized; when it is the memory for a
second-level table or a region that is missing, `as_copy` gives back all it
took, which is no step of the model), and everything in `Asst2Files`
after the first bad pointer. The size of a physical memory, pages' contents, and
arguments copied between spaces are abstracted.
