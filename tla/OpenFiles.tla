----------------------------- MODULE OpenFiles -----------------------------
(***************************************************************************)
(* Open files and descriptor tables of the Asst3 kernel: filetable.c,      *)
(* openfile.c and file_syscalls.c of kern/syscall, with the parts of fork, *)
(* exit and runprogram that copy, destroy and set up a table.              *)
(*                                                                         *)
(* A process has one thread, so its table is touched by nobody else, save  *)
(* the forker's copying and destroying the table of a child that has not   *)
(* run.  Open files are shared.  What is done under of_reflock is one      *)
(* step; of_offsetlock is held across steps, since the transfer it guards  *)
(* sleeps.                                                                 *)
(***************************************************************************)
EXTENDS Integers, FiniteSets

CONSTANTS
  Proc,       (* the processes                                             *)
  NoProc,     (* NULL: nobody holds the lock                               *)
  File,       (* the addresses of struct openfiles                         *)
  NoFile,     (* NULL                                                      *)
  OPEN_MAX,   (* the size of a table                                       *)
  StdFds,     (* how many descriptors runprogram opens: 3 in the code      *)
  MaxOffset   (* a bound on offsets                                        *)

ASSUME OpenFilesAssumption ==
  /\ NoProc \notin Proc /\ NoFile \notin File /\ IsFiniteSet(Proc)
  /\ OPEN_MAX \in Nat /\ StdFds \in 0..OPEN_MAX /\ MaxOffset \in Nat

Fd == 0..(OPEN_MAX - 1)

VARIABLES
  ft_openfiles,   (* each process's table                                  *)
  of_vnode,       (* "seekable" or "stream" while the file is open, "none" *)
                  (* when the struct is free                               *)
  of_refcount,
  of_offset,
  of_offsetlock,  (* its holder                                            *)
  pc,             (* where each process is                                 *)
  back,           (* where it goes on after openfile_decref                *)
  file,           (* the locals of the call it is in                       *)
  fd,
  pos,
  child

tables == <<ft_openfiles>>
files == <<of_vnode, of_refcount, of_offset, of_offsetlock>>
locals == <<back, file, fd, pos, child>>
vars == <<ft_openfiles, of_vnode, of_refcount, of_offset, of_offsetlock,
          pc, back, file, fd, pos, child>>

EmptyTable == [d \in Fd |-> NoFile]

Init ==
  /\ ft_openfiles = [p \in Proc |-> EmptyTable]
  /\ of_vnode = [f \in File |-> "none"]
  /\ of_refcount = [f \in File |-> 0]
  /\ of_offset = [f \in File |-> 0]
  /\ of_offsetlock = [f \in File |-> NoProc]
  /\ pc = [p \in Proc |-> "free"]
  /\ back = [p \in Proc |-> "user"]
  /\ file = [p \in Proc |-> NoFile]
  /\ fd = [p \in Proc |-> 0]
  /\ pos = [p \in Proc |-> 0]
  /\ child = [p \in Proc |-> NoProc]

Goto(p, where) == pc' = [pc EXCEPT ![p] = where]

(* A call returns to user mode; its locals are gone. *)
ReturnsTo(p, where) ==
  /\ Goto(p, where)
  /\ file' = [file EXCEPT ![p] = NoFile] /\ back' = [back EXCEPT ![p] = "user"]

-----------------------------------------------------------------------------
(* Open files.                                                             *)

(* openfile_open: vfs_open, and openfile_create. *)
openfile_open(f) ==
  /\ of_vnode[f] = "none"
  /\ \E v \in {"seekable", "stream"} : of_vnode' = [of_vnode EXCEPT ![f] = v]
  /\ of_refcount' = [of_refcount EXCEPT ![f] = 1]
  /\ of_offset' = [of_offset EXCEPT ![f] = 0]
  /\ UNCHANGED of_offsetlock

(* Mutant of openfile_incref: the count is taken for granted. *)
openfile_increfNot(f) == of_vnode[f] # "none" /\ UNCHANGED of_refcount

openfile_incref(f) == of_refcount' = [of_refcount EXCEPT ![f] = @ + 1]

(* openfile_decref: the last reference is not counted down; the spinlock   *)
(* is given up, and the file destroyed after that.                         *)
Decref(p) ==
  LET f == file[p]
  IN  /\ pc[p] = "decref"
      /\ \/ /\ of_refcount[f] = 1
            /\ Goto(p, "destroy")
            /\ UNCHANGED <<of_refcount, file, back>>
         \/ /\ of_refcount[f] > 1
            /\ of_refcount' = [of_refcount EXCEPT ![f] = @ - 1]
            /\ ReturnsTo(p, back[p])
      /\ UNCHANGED <<ft_openfiles, of_vnode, of_offset, of_offsetlock, fd, pos, child>>

(* openfile_destroy: vfs_close, and the struct is free. *)
Destroy(p) ==
  LET f == file[p]
  IN  /\ pc[p] = "destroy"
      /\ of_vnode' = [of_vnode EXCEPT ![f] = "none"]
      /\ of_refcount' = [of_refcount EXCEPT ![f] = 0]
      /\ of_offset' = [of_offset EXCEPT ![f] = 0]
      /\ ReturnsTo(p, back[p])
      /\ UNCHANGED <<ft_openfiles, of_offsetlock, fd, pos, child>>

(* A process gives up the reference it has in file. *)
Drop(p, f, then) ==
  /\ file' = [file EXCEPT ![p] = f]
  /\ back' = [back EXCEPT ![p] = then]
  /\ Goto(p, "decref")

-----------------------------------------------------------------------------
(* open and close.                                                         *)

FreeFds(p) == {d \in Fd : ft_openfiles[p][d] = NoFile}
Least(S) == CHOOSE d \in S : \A e \in S : d <= e

Open(p, f) ==
  /\ pc[p] = "user"
  /\ openfile_open(f)
  /\ file' = [file EXCEPT ![p] = f]
  /\ Goto(p, "place")
  /\ UNCHANGED <<ft_openfiles, back, fd, pos, child>>

(* Mutant of Place: the largest free descriptor. *)
PlaceLast(p) ==
  /\ pc[p] = "place" /\ FreeFds(p) # {}
  /\ LET d == CHOOSE d \in FreeFds(p) : \A e \in FreeFds(p) : e <= d
     IN ft_openfiles' = [ft_openfiles EXCEPT ![p][d] = file[p]]
  /\ ReturnsTo(p, "user")
  /\ UNCHANGED <<files, fd, pos, child>>

(* filetable_place: the smallest free descriptor ... *)
Place(p) ==
  /\ pc[p] = "place" /\ FreeFds(p) # {}
  /\ ft_openfiles' = [ft_openfiles EXCEPT ![p][Least(FreeFds(p))] = file[p]]
  /\ ReturnsTo(p, "user")
  /\ UNCHANGED <<files, fd, pos, child>>

(* Mutant of PlaceFails: the open file is forgotten. *)
PlaceFailsLeaks(p) ==
  /\ pc[p] = "place" /\ FreeFds(p) = {}
  /\ ReturnsTo(p, "user")
  /\ UNCHANGED <<files, tables, fd, pos, child>>

(* ... or EMFILE, and the file is closed again. *)
PlaceFails(p) ==
  /\ pc[p] = "place" /\ FreeFds(p) = {}
  /\ Drop(p, file[p], "user")
  /\ UNCHANGED <<files, tables, fd, pos, child>>

Close(p, d) ==
  /\ pc[p] = "user" /\ ft_openfiles[p][d] # NoFile
  /\ ft_openfiles' = [ft_openfiles EXCEPT ![p][d] = NoFile]
  /\ Drop(p, ft_openfiles[p][d], "user")
  /\ UNCHANGED <<files, fd, pos, child>>

-----------------------------------------------------------------------------
(* dup2 of different descriptors: the reference is made ... *)
Dup2(p, old, new) ==
  LET f == ft_openfiles[p][old]
  IN  /\ pc[p] = "user" /\ old # new /\ f # NoFile
      /\ openfile_incref(f)
      /\ file' = [file EXCEPT ![p] = f]
      /\ fd' = [fd EXCEPT ![p] = new]
      /\ Goto(p, "dup2")
      /\ UNCHANGED <<ft_openfiles, of_vnode, of_offset, of_offsetlock, back, pos, child>>

(* ... and placed, and the reference that was there is dropped. *)
Dup2Place(p) ==
  LET f == ft_openfiles[p][fd[p]]
  IN  /\ pc[p] = "dup2"
      /\ ft_openfiles' = [ft_openfiles EXCEPT ![p][fd[p]] = file[p]]
      /\ fd' = [fd EXCEPT ![p] = 0]
      /\ \/ f = NoFile /\ ReturnsTo(p, "user")
         \/ f # NoFile /\ Drop(p, f, "user")
      /\ UNCHANGED <<files, pos, child>>

-----------------------------------------------------------------------------
(* read, write and lseek.                                                  *)

Seekable(f) == of_vnode[f] = "seekable"

Unlock(p) ==
  of_offsetlock' = [f \in File |-> IF of_offsetlock[f] = p THEN NoProc ELSE of_offsetlock[f]]

(* Mutant of Locked: the lock is left out. *)
LockedNot(p, d, call) ==
  LET f == ft_openfiles[p][d]
  IN  /\ pc[p] = "user" /\ f # NoFile /\ Seekable(f)
      /\ pos' = [pos EXCEPT ![p] = of_offset[f]]
      /\ file' = [file EXCEPT ![p] = f] /\ fd' = [fd EXCEPT ![p] = d]
      /\ Goto(p, call)
      /\ UNCHANGED <<ft_openfiles, of_vnode, of_refcount, of_offset, of_offsetlock, back, child>>

(* The call begins: the offset is locked and read. *)
Locked(p, d, call) ==
  LET f == ft_openfiles[p][d]
  IN  /\ pc[p] = "user" /\ f # NoFile /\ Seekable(f)
      /\ of_offsetlock[f] = NoProc
      /\ of_offsetlock' = [of_offsetlock EXCEPT ![f] = p]
      /\ pos' = [pos EXCEPT ![p] = of_offset[f]]
      /\ file' = [file EXCEPT ![p] = f] /\ fd' = [fd EXCEPT ![p] = d]
      /\ Goto(p, call)
      /\ UNCHANGED <<ft_openfiles, of_vnode, of_refcount, of_offset, back, child>>

(* It ends, with the file's offset at o. *)
Unlocked(p, o) ==
  /\ of_offset' = [of_offset EXCEPT ![file[p]] = o]
  /\ Unlock(p)
  /\ pos' = [pos EXCEPT ![p] = 0] /\ fd' = [fd EXCEPT ![p] = 0]
  /\ ReturnsTo(p, "user")
  /\ UNCHANGED <<ft_openfiles, of_vnode, of_refcount, child>>

(* Mutant of Fails: an error return that keeps the lock. *)
FailsLocked(p) ==
  /\ pc[p] \in {"io", "seek"}
  /\ pos' = [pos EXCEPT ![p] = 0] /\ fd' = [fd EXCEPT ![p] = 0]
  /\ ReturnsTo(p, "user")
  /\ UNCHANGED <<files, tables, child>>

Io(p, d) == Locked(p, d, "io")

(* The transfer has moved n bytes. *)
IoDone(p) ==
  /\ pc[p] = "io"
  /\ \E n \in 0..(MaxOffset - pos[p]) : Unlocked(p, pos[p] + n)

Lseek(p, d) == Locked(p, d, "seek")

(* To a place relative to the start, to the offset or to the end. *)
SeekEnd(p) ==
  /\ pc[p] = "seek"
  /\ \E o \in (0..MaxOffset) \cup {pos[p] - 1, pos[p] + 1} :
       0 <= o /\ o <= MaxOffset /\ Unlocked(p, o)

(* Either fails: the wrong mode, an error below, a place before zero. *)
Fails(p) == pc[p] \in {"io", "seek"} /\ Unlocked(p, of_offset[file[p]])

(* What is not seekable is read and written without the lock. *)
StreamIo(p, d) ==
  /\ pc[p] = "user"
  /\ ft_openfiles[p][d] # NoFile /\ ~Seekable(ft_openfiles[p][d])
  /\ file' = [file EXCEPT ![p] = ft_openfiles[p][d]]
  /\ fd' = [fd EXCEPT ![p] = d]
  /\ Goto(p, "stream")
  /\ UNCHANGED <<files, tables, back, pos, child>>

StreamIoDone(p) ==
  /\ pc[p] = "stream"
  /\ fd' = [fd EXCEPT ![p] = 0]
  /\ ReturnsTo(p, "user")
  /\ UNCHANGED <<files, tables, pos, child>>

-----------------------------------------------------------------------------
(* Processes.                                                              *)

(* runprogram: a process with an empty table ... *)
Runprogram(p) ==
  /\ pc[p] = "free"
  /\ fd' = [fd EXCEPT ![p] = 0]
  /\ Goto(p, "stdfds")
  /\ UNCHANGED <<files, tables, back, file, pos, child>>

(* ... opens the console as each standard descriptor in turn ... *)
PlacedOpen(p, f) ==
  /\ pc[p] = "stdfds" /\ fd[p] < StdFds
  /\ openfile_open(f) /\ of_vnode'[f] = "stream"
  /\ ft_openfiles' = [ft_openfiles EXCEPT ![p][fd[p]] = f]
  /\ fd' = [fd EXCEPT ![p] = @ + 1]
  /\ UNCHANGED <<pc, back, file, pos, child>>

(* ... and runs, or fails and exits with those it has opened. *)
RunprogramDone(p) ==
  /\ pc[p] = "stdfds"
  /\ \/ fd[p] = StdFds /\ Goto(p, "user")
     \/ Goto(p, "exit")
  /\ fd' = [fd EXCEPT ![p] = 0]
  /\ UNCHANGED <<files, tables, back, file, pos, child>>

(* proc_fork: filetable_copy ... *)
Fork(p, q) ==
  /\ pc[p] = "user" /\ pc[q] = "free"
  /\ pc' = [pc EXCEPT ![p] = "copy", ![q] = "embryo"]
  /\ child' = [child EXCEPT ![p] = q]
  /\ fd' = [fd EXCEPT ![p] = 0]
  /\ UNCHANGED <<files, tables, back, file, pos>>

(* ... makes a reference for each entry ... *)
CopyEntry(p) ==
  LET f == ft_openfiles[p][fd[p]]
  IN  /\ pc[p] = "copy" /\ fd[p] < OPEN_MAX
      /\ IF f = NoFile THEN UNCHANGED of_refcount ELSE openfile_incref(f)
      /\ ft_openfiles' = [ft_openfiles EXCEPT ![child[p]][fd[p]] = f]
      /\ fd' = [fd EXCEPT ![p] = @ + 1]
      /\ UNCHANGED <<of_vnode, of_offset, of_offsetlock, pc, back, file, pos, child>>

(* ... and thread_fork starts the child, or fails.  *)
ThreadFork(p) ==
  /\ pc[p] = "copy" /\ fd[p] = OPEN_MAX
  /\ pc' = [pc EXCEPT ![p] = "user", ![child[p]] = "user"]
  /\ child' = [child EXCEPT ![p] = NoProc]
  /\ fd' = [fd EXCEPT ![p] = 0]
  /\ UNCHANGED <<files, tables, back, file, pos>>

ThreadForkFails(p) ==
  /\ pc[p] = "copy" /\ fd[p] = OPEN_MAX
  /\ Goto(p, "unfork")
  /\ fd' = [fd EXCEPT ![p] = 0]
  /\ UNCHANGED <<files, tables, back, file, pos, child>>

Exit(p) ==
  /\ pc[p] = "user"
  /\ Goto(p, "exit")
  /\ UNCHANGED <<files, tables, locals>>

(* The process whose table p is destroying. *)
Victim(p) == IF pc[p] = "exit" THEN p ELSE child[p]

(* filetable_destroy drops the entries one by one.  The code clears an     *)
(* entry after dropping its reference; nobody else sees the table.         *)
DropEntry(p) ==
  LET q == Victim(p)
      d == Least(Fd \ FreeFds(q))
  IN  /\ pc[p] \in {"exit", "unfork"} /\ FreeFds(q) # Fd
      /\ ft_openfiles' = [ft_openfiles EXCEPT ![q][d] = NoFile]
      /\ Drop(p, ft_openfiles[q][d], pc[p])
      /\ UNCHANGED <<files, fd, pos, child>>

TableGone(p) ==
  /\ pc[p] \in {"exit", "unfork"} /\ FreeFds(Victim(p)) = Fd
  /\ pc' = [pc EXCEPT ![p] = IF pc[p] = "exit" THEN "free" ELSE "user",
                      ![Victim(p)] = "free"]
  /\ child' = [child EXCEPT ![p] = NoProc]
  /\ UNCHANGED <<files, tables, back, file, fd, pos>>

-----------------------------------------------------------------------------
Next ==
  \/ \E p \in Proc, f \in File : Open(p, f) \/ PlacedOpen(p, f)
  \/ \E p \in Proc, d \in Fd : Close(p, d) \/ Io(p, d) \/ Lseek(p, d) \/ StreamIo(p, d)
  \/ \E p \in Proc, d, e \in Fd : Dup2(p, d, e)
  \/ \E p, q \in Proc : Fork(p, q)
  \/ \E p \in Proc :
       \/ Place(p) \/ PlaceFails(p) \/ Decref(p) \/ Destroy(p) \/ Dup2Place(p)
       \/ IoDone(p) \/ SeekEnd(p) \/ Fails(p) \/ StreamIoDone(p)
       \/ Runprogram(p) \/ RunprogramDone(p)
       \/ CopyEntry(p) \/ ThreadFork(p) \/ ThreadForkFails(p)
       \/ Exit(p) \/ DropEntry(p) \/ TableGone(p)

Spec == Init /\ [][Next]_vars

(* A process goes on with the end of a call that needs nothing of others.  *)
FairSpec ==
  Spec /\ \A p \in Proc :
            WF_vars(Place(p) \/ PlaceFails(p) \/ Decref(p) \/ Destroy(p) \/ Dup2Place(p))

-----------------------------------------------------------------------------
(* Types; in particular an offset is never negative. *)
TypeOK ==
  /\ ft_openfiles \in [Proc -> [Fd -> File \cup {NoFile}]]
  /\ of_vnode \in [File -> {"none", "seekable", "stream"}]
  /\ of_refcount \in [File -> Nat]
  /\ of_offset \in [File -> 0..MaxOffset]
  /\ of_offsetlock \in [File -> Proc \cup {NoProc}]
  /\ pc \in [Proc -> {"free", "embryo", "stdfds", "user", "place", "dup2", "decref",
                      "destroy", "io", "seek", "stream", "copy", "unfork", "exit"}]
  /\ back \in [Proc -> {"user", "exit", "unfork"}]
  /\ file \in [Proc -> File \cup {NoFile}]
  /\ fd \in [Proc -> 0..OPEN_MAX]
  /\ pos \in [Proc -> 0..MaxOffset]
  /\ child \in [Proc -> Proc \cup {NoProc}]

(* The table entries that refer to f, and the processes that have a        *)
(* reference of their own, not in a table.                                 *)
Entries(f) == {e \in Proc \X Fd : ft_openfiles[e[1]][e[2]] = f}
Holders(f) ==
  {p \in Proc : pc[p] \in {"place", "dup2", "decref", "destroy"} /\ file[p] = f}

(* An open file counts its references, which processes that share it make  *)
(* and drop at any moment; nothing refers to one that was destroyed, and   *)
(* one that will be has no reference but the destroyer's, although the     *)
(* spinlock was given up in between.                                       *)
RefcountsExact ==
  \A f \in File :
    /\ of_refcount[f] = Cardinality(Entries(f)) + Cardinality(Holders(f))
    /\ of_refcount[f] = 0 <=> of_vnode[f] = "none"

(* Whoever is in a transfer or a seek has the file in its table still      *)
(* (filetable_put asserts it), and its lock; nobody else has, and the lock *)
(* of a file that is destroyed is free (lock_destroy asserts it).          *)
OffsetLockHeld ==
  /\ \A p \in Proc :
       pc[p] \in {"io", "seek", "stream"} =>
         /\ ft_openfiles[p][fd[p]] = file[p] /\ file[p] # NoFile
         /\ of_offsetlock[file[p]] = p <=> pc[p] # "stream"
  /\ \A f \in File :
       of_offsetlock[f] # NoProc =>
         /\ of_vnode[f] = "seekable"
         /\ pc[of_offsetlock[f]] \in {"io", "seek"} /\ file[of_offsetlock[f]] = f

(* No two transfers use one offset: where a transfer began is where the    *)
(* offset still is when it ends, nobody else is then at that file, and the *)
(* offset is not moved back.                                               *)
TransfersNotLost ==
  [][\A p \in Proc : pc[p] = "io" /\ pc'[p] = "user" =>
       /\ pos[p] = of_offset[file[p]] /\ of_offset'[file[p]] >= pos[p]
       /\ \A q \in Proc \ {p} :
            pc[q] \in {"io", "seek"} => file[q] # file[p]]_vars

(* A file that no table refers to is closed, or somebody places it. *)
UnusedFilesClosed ==
  \A f \in File :
    (of_vnode[f] # "none" /\ Entries(f) = {})
      ~> (of_vnode[f] = "none" \/ Entries(f) # {})

-----------------------------------------------------------------------------
(* A child that has not run and a process that is going are not seen.      *)
Gone(p) ==
  \/ pc[p] \in {"free", "embryo", "stdfds", "exit"}
  \/ pc[p] \in {"decref", "destroy"} /\ back[p] = "exit"

VisibleTable == [p \in Proc |-> IF Gone(p) THEN EmptyTable ELSE ft_openfiles[p]]

VisibleFiles == {f \in File : \E p \in Proc, d \in Fd : VisibleTable[p][d] = f}

Shared == INSTANCE SharedFiles WITH
  running <- {p \in Proc : ~Gone(p)},
  table <- VisibleTable,
  offset <- [f \in VisibleFiles |-> of_offset[f]]

(* The calls are those of SharedFiles: however their steps interleave, a   *)
(* descriptor means the file it was given, with the offset all that share  *)
(* it see, until its process changes it; a child has its parent's table of *)
(* one moment, and a table goes as a whole.                                *)
ImplementsSharedFiles == Shared!SharedSpec
=============================================================================
