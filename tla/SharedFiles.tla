---------------------------- MODULE SharedFiles ----------------------------
(***************************************************************************)
(* What the file calls of the Asst3 kernel promise to programs: each       *)
(* process has descriptors that refer to open files; dup2 and fork make    *)
(* descriptors that share an open file and its offset; each call changes   *)
(* tables and offsets in one step.  OpenFiles.tla, written from the code,  *)
(* implements it.                                                          *)
(***************************************************************************)
EXTENDS Integers

CONSTANTS Proc, Fd, File, NoFile, MaxOffset

VARIABLES
  running,  (* the processes that make calls                               *)
  table,    (* each process's descriptors                                  *)
  offset    (* the offset of each open file, a function of those in use    *)

sharedVars == <<running, table, offset>>

EmptyTable == [d \in Fd |-> NoFile]

InUse(t) == {f \in File : \E p \in Proc, d \in Fd : t[p][d] = f}

SharedInit ==
  /\ running = {}
  /\ table = [p \in Proc |-> EmptyTable]
  /\ offset = [f \in {} |-> 0]

(* The descriptors change to t; open files keep their offsets, those that  *)
(* nothing refers to any more are gone, and new ones begin at zero.        *)
Becomes(t) ==
  /\ table' = t
  /\ offset' = [f \in InUse(t) |-> IF f \in InUse(table) THEN offset[f] ELSE 0]

(* A program begins with some descriptors of its own. *)
Start(p) ==
  /\ p \notin running
  /\ running' = running \cup {p}
  /\ \E t \in [Fd -> (File \ InUse(table)) \cup {NoFile}] :
       Becomes([table EXCEPT ![p] = t])

(* open: the smallest descriptor that is free. *)
Open(p, f) ==
  /\ p \in running /\ f \in File \ InUse(table)
  /\ \E d \in Fd : /\ table[p][d] = NoFile
                   /\ \A e \in Fd : e < d => table[p][e] # NoFile
                   /\ Becomes([table EXCEPT ![p][d] = f])
  /\ UNCHANGED running

Close(p, d) ==
  /\ p \in running /\ table[p][d] # NoFile
  /\ Becomes([table EXCEPT ![p][d] = NoFile])
  /\ UNCHANGED running

Dup2(p, d, e) ==
  /\ p \in running /\ table[p][d] # NoFile
  /\ Becomes([table EXCEPT ![p][e] = table[p][d]])
  /\ UNCHANGED running

Fork(p, q) ==
  /\ p \in running /\ q \notin running
  /\ running' = running \cup {q}
  /\ Becomes([table EXCEPT ![q] = table[p]])

Exit(p) ==
  /\ p \in running
  /\ running' = running \ {p}
  /\ Becomes([table EXCEPT ![p] = EmptyTable])

(* read, write and lseek leave the offset somewhere. *)
Move(p, d, o) ==
  /\ p \in running /\ table[p][d] # NoFile
  /\ offset' = [offset EXCEPT ![table[p][d]] = o]
  /\ UNCHANGED <<running, table>>

SharedNext ==
  \/ \E p \in Proc : Start(p) \/ Exit(p)
  \/ \E p \in Proc, f \in File : Open(p, f)
  \/ \E p, q \in Proc : Fork(p, q)
  \/ \E p \in Proc, d \in Fd : Close(p, d) \/ \E e \in Fd : Dup2(p, d, e)
  \/ \E p \in Proc, d \in Fd, o \in 0..MaxOffset : Move(p, d, o)

SharedSpec == SharedInit /\ [][SharedNext]_sharedVars
=============================================================================
