----------------------------- MODULE Asst2Files -----------------------------
(***************************************************************************)
(* The file calls of the Asst2 kernel, src/Asst2/kern/syscall/file.c: one  *)
(* table of open files for the system, under one lock, and a table of      *)
(* descriptors for each process, whose entries are indices of the former.  *)
(* Programs run one beside the other, do not fork, and do not end.         *)
(*                                                                         *)
(* A call that follows a NULL entry, or reaches a vnode that was           *)
(* reclaimed, may do anything: the model stops there.                      *)
(***************************************************************************)
EXTENDS Integers

CONSTANTS
  Proc,
  Vnode,      (* the addresses of vnodes                                   *)
  con,        (* the console's, to which the device list also refers       *)
  OPEN_MAX,   (* the size of either table                                  *)
  StdFds,     (* the descriptors init_fd_table opens: 3 in the code        *)
  MaxOffset   (* a bound on offsets                                        *)

Fd == 0..(OPEN_MAX - 1)
CLOSED_FILE == -1
NULL == [vn |-> con, rc |-> 0, offset |-> 0]  (* an open file has rc > 0 *)

VARIABLES
  fdtable,      (* each process's descriptors                              *)
  openedFiles,  (* the open files                                          *)
  vn_refcount,  (* 0 when the vnode was reclaimed                          *)
  pc,           (* where each process is                                   *)
  vn,           (* the locals of the call it is in                         *)
  OFT_key,
  fds,
  panicked      (* something undefined was done                            *)

tables == <<fdtable, openedFiles, vn_refcount>>
locals == <<vn, OFT_key, fds>>
vars == <<tables, pc, locals, panicked>>

Init ==
  /\ fdtable = [p \in Proc |-> [d \in Fd |-> CLOSED_FILE]]
  /\ openedFiles = [k \in Fd |-> NULL]
  /\ vn_refcount = [v \in Vnode |-> IF v = con THEN 1 ELSE 0]
  /\ pc = [p \in Proc |-> "start"]
  /\ vn = [p \in Proc |-> con] /\ OFT_key = [p \in Proc |-> 0]
  /\ fds = [p \in Proc |-> <<0, 0>>]
  /\ panicked = FALSE

Goes(p, from, to) ==
  /\ ~panicked /\ pc[p] = from /\ pc' = [pc EXCEPT ![p] = to]

(* The key of a descriptor.  CLOSED_FILE indexes the word before the table, *)
(* and is returned whatever is found there.                                 *)
fd_sanity_check(p, d) ==
  LET key == fdtable[p][d] IN
  IF key # CLOSED_FILE /\ openedFiles[key] # NULL THEN key ELSE CLOSED_FILE
Sane(p, d) == fd_sanity_check(p, d) # CLOSED_FILE

Alive(key) == openedFiles[key] # NULL /\ vn_refcount[openedFiles[key].vn] > 0

(* What is undefined is not followed. *)
Undefined == panicked' = TRUE /\ UNCHANGED tables
Defined == UNCHANGED panicked

Least(set) == CHOOSE i \in set : \A j \in set : i <= j
FreeKeys == {k \in Fd : openedFiles[k] = NULL}
FreeFds(p) == {d \in Fd : fdtable[p][d] = CLOSED_FILE}

-----------------------------------------------------------------------------
(* vfs_open finds the file's vnode, or makes one. *)
create_open_file(p, v) ==
  /\ vn' = [vn EXCEPT ![p] = v]
  /\ vn_refcount' = [vn_refcount EXCEPT ![v] = @ + 1]
  /\ UNCHANGED <<fdtable, openedFiles, OFT_key, fds>> /\ Defined

insert_open_file(p, d) ==
  LET key == Least(FreeKeys) IN
  /\ FreeKeys # {}
  /\ fdtable' = [fdtable EXCEPT ![p][d] = key]
  /\ openedFiles' = [openedFiles EXCEPT ![key] =
                       [vn |-> vn[p], rc |-> 1, offset |-> 0]]
  /\ UNCHANGED vn_refcount

vfs_close(v) == vn_refcount' = [vn_refcount EXCEPT ![v] = @ - 1]

Open(p, v) == Goes(p, "user", "open") /\ create_open_file(p, v)

(* With O_APPEND, a file whose size cannot be had is left as it was opened. *)
OpenLeaks(p, v) == Goes(p, "user", "user") /\ create_open_file(p, v)

Insert(p) ==
  /\ Goes(p, "open", "user")
  /\ FreeFds(p) # {} /\ insert_open_file(p, Least(FreeFds(p)))
  /\ UNCHANGED locals /\ Defined

InsertFails(p) ==
  /\ Goes(p, "open", "user")
  /\ FreeFds(p) = {} \/ FreeKeys = {}
  /\ vfs_close(vn[p])
  /\ UNCHANGED <<fdtable, openedFiles, locals>> /\ Defined

(* What sys_close does to a sane descriptor: the entry of fdtable stays.   *)
Closed(p, d) ==
  LET key == fdtable[p][d] IN
  IF Alive(key)
  THEN /\ vfs_close(openedFiles[key].vn)
       /\ openedFiles' = [openedFiles EXCEPT ![key] =
            IF @.rc = 1 THEN NULL ELSE [@ EXCEPT !.rc = @ - 1]]
       /\ UNCHANGED fdtable /\ Defined
  ELSE Undefined

sys_close(p, d) ==
  /\ Goes(p, "user", "user")
  /\ Sane(p, d) /\ Closed(p, d)
  /\ UNCHANGED locals

(* read and write hold of_lock throughout, and leave an offset. *)
sys_rw(p, d) ==
  /\ Goes(p, "user", "user") /\ Sane(p, d)
  /\ IF Alive(fdtable[p][d])
     THEN /\ \E to \in openedFiles[fdtable[p][d]].offset..MaxOffset :
               openedFiles' = [openedFiles EXCEPT ![fdtable[p][d]].offset = to]
          /\ UNCHANGED <<fdtable, vn_refcount>> /\ Defined
     ELSE Undefined
  /\ UNCHANGED locals

(* lseek looks at both tables before it takes the lock. *)
Lseek(p, d) ==
  /\ Goes(p, "user", "vnode") /\ Sane(p, d)
  /\ OFT_key' = [OFT_key EXCEPT ![p] = fdtable[p][d]]
  /\ UNCHANGED <<tables, vn, fds>> /\ Defined

LseekVnode(p) ==
  /\ Goes(p, "vnode", "lseek")
  /\ IF Alive(OFT_key[p]) THEN UNCHANGED tables /\ Defined ELSE Undefined
  /\ UNCHANGED locals

LseekLocked(p) ==
  /\ Goes(p, "lseek", "user")
  /\ IF openedFiles[OFT_key[p]] # NULL
     THEN /\ \E to \in 0..MaxOffset :
               openedFiles' = [openedFiles EXCEPT ![OFT_key[p]].offset = to]
          /\ UNCHANGED <<fdtable, vn_refcount>> /\ Defined
     ELSE Undefined
  /\ UNCHANGED locals

LseekFails(p) ==
  Goes(p, "lseek", "user") /\ UNCHANGED <<tables, locals>> /\ Defined

(* dup2 closes new_fd, gives up if that fails, and then takes the lock.    *)
Dup2(p, d, e) ==
  /\ Goes(p, "user", "dup2")
  /\ Sane(p, d) /\ d # e
  /\ OFT_key' = [OFT_key EXCEPT ![p] = fdtable[p][d]]
  /\ fds' = [fds EXCEPT ![p] = <<d, e>>]
  /\ UNCHANGED <<tables, vn>> /\ Defined

Dup2Close(p) ==
  /\ Goes(p, "dup2", "dup2 locks")
  /\ IF fdtable[p][fds[p][2]] = CLOSED_FILE THEN UNCHANGED tables /\ Defined
     ELSE Sane(p, fds[p][2]) /\ Closed(p, fds[p][2])
  /\ UNCHANGED locals

Dup2Fails(p) ==
  /\ Goes(p, "dup2", "user")
  /\ fdtable[p][fds[p][2]] # CLOSED_FILE /\ ~Sane(p, fds[p][2])
  /\ UNCHANGED <<tables, locals>> /\ Defined

Dup2Locked(p) ==
  /\ Goes(p, "dup2 locks", "user")
  /\ IF openedFiles[OFT_key[p]] # NULL
     THEN /\ openedFiles' = [openedFiles EXCEPT ![OFT_key[p]].rc = @ + 1]
          /\ fdtable' = [fdtable EXCEPT ![p][fds[p][2]] = fdtable[p][fds[p][1]]]
          /\ UNCHANGED vn_refcount /\ Defined
     ELSE Undefined
  /\ UNCHANGED locals

-----------------------------------------------------------------------------
(* runprogram opens the console for the first descriptors of a process.    *)
OpenStd(p) ==
  /\ fdtable[p][StdFds - 1] = CLOSED_FILE
  /\ Goes(p, "start", "std") /\ create_open_file(p, con)

InsertStd(p) ==
  LET d == Least(FreeFds(p)) IN
  /\ Goes(p, "std", IF d = StdFds - 1 THEN "user" ELSE "start")
  /\ insert_open_file(p, d) /\ UNCHANGED locals /\ Defined

(* Those that were opened are closed, and there is no program. *)
InsertStdFails(p) ==
  /\ Goes(p, "std", IF fdtable[p][0] = CLOSED_FILE THEN "gone" ELSE "ends")
  /\ FreeKeys = {} /\ vfs_close(con)
  /\ UNCHANGED <<fdtable, openedFiles, locals>> /\ Defined

CloseStd(p) ==
  LET d == fds[p][1] IN
  /\ Goes(p, "ends", IF d + 1 = Least(FreeFds(p)) THEN "gone" ELSE "ends")
  /\ IF Sane(p, d) THEN Closed(p, d) ELSE UNCHANGED tables /\ Defined
  /\ fds' = [fds EXCEPT ![p] = <<d + 1, 0>>]
  /\ UNCHANGED <<vn, OFT_key>>

Call(p) ==
  \/ \E v \in Vnode \ {con} : Open(p, v) \/ OpenLeaks(p, v)
  \/ Insert(p) \/ InsertFails(p)
  \/ \E d \in Fd : sys_close(p, d) \/ sys_rw(p, d) \/ Lseek(p, d)
  \/ LseekVnode(p) \/ LseekLocked(p) \/ LseekFails(p)
  \/ \E d, e \in Fd : Dup2(p, d, e)
  \/ Dup2Close(p) \/ Dup2Fails(p) \/ Dup2Locked(p)
  \/ OpenStd(p) \/ InsertStd(p) \/ InsertStdFails(p) \/ CloseStd(p)

Next == \E p \in Proc : Call(p)

Spec == Init /\ [][Next]_vars

-----------------------------------------------------------------------------
(* Properties.                                                             *)

Usable(p, d) == Sane(p, d) /\ Alive(fdtable[p][d])

(* What close.html says, "Other file handles are not affected in any way,  *)
(* even if they are attached to the same file": a close of one of several  *)
(* descriptors that refer to an open file, by its count too, leaves the    *)
(* others with an open file and an open vnode.  It fails: the vnode is     *)
(* closed with each of the descriptors that dup2 made.                     *)
OtherHandlesUnaffected ==
  [][\A p \in Proc : \A d, e \in Fd :
       /\ sys_close(p, d) /\ Usable(p, e) /\ e # d
       /\ fdtable[p][e] = fdtable[p][d] /\ openedFiles[fdtable[p][e]].rc > 1
       => Usable(p, e)']_vars
=============================================================================
