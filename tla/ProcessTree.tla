---------------------------- MODULE ProcessTree ----------------------------
(***************************************************************************)
(* What the process calls of OS/161 promise to user programs, without the  *)
(* process table that implements them: a forest of processes named by pids *)
(* in which fork adds a leaf, _exit turns a process into a zombie or, when *)
(* nobody will ask for its status, removes it, and waitpid hands the exit  *)
(* status of a zombie child to its parent, once.  Processes.tla, the       *)
(* specification written from kern/proc and kern/syscall, implements it.   *)
(***************************************************************************)
EXTENDS Integers, FiniteSets

CONSTANTS
  Pid,      (* the pids a process can be given                             *)
  Root,     (* the pid of the kernel process, which never exits; not a Pid *)
  NoPid,    (* the parent of a process nobody will wait for; not a Pid     *)
  Status    (* exit statuses                                               *)

VARIABLES
  parent,   (* a function from the pids in use to their parents' pids      *)
  state,    (* the same pids to "embryo", "running" or an exit status      *)
  pending   (* <<parent, child, status>>: statuses collected by a waitpid  *)
            (* that has not returned to its caller yet                     *)

treeVars == <<parent, state, pending>>

InUse == DOMAIN parent

Children(p) == {c \in InUse : parent[c] = p}

Zombies == {c \in InUse : state[c] \in Status}

(* The functions without the pids of S. *)
Without(f, S) == [c \in DOMAIN f \ S |-> f[c]]

TreeInit ==
  /\ parent = [c \in {Root} |-> NoPid]
  /\ state = [c \in {Root} |-> "running"]
  /\ pending = {}

-----------------------------------------------------------------------------
(* A running process makes a child, which is an embryo until it can run.   *)
Fork(p, c) ==
  /\ p \in InUse /\ state[p] = "running"
  /\ c \in Pid \ InUse
  /\ parent' = [d \in InUse \cup {c} |-> IF d = c THEN p ELSE parent[d]]
  /\ state' = [d \in InUse \cup {c} |-> IF d = c THEN "embryo" ELSE state[d]]
  /\ UNCHANGED pending

(* The fork succeeds and the child runs. *)
Start(c) ==
  /\ c \in InUse /\ state[c] = "embryo"
  /\ state' = [state EXCEPT ![c] = "running"]
  /\ UNCHANGED <<parent, pending>>

(* The fork fails: the embryo never existed. *)
Abort(c) ==
  /\ c \in InUse /\ state[c] = "embryo"
  /\ parent' = Without(parent, {c})
  /\ state' = Without(state, {c})
  /\ UNCHANGED pending

(* The parent declares that it will not wait: a zombie goes at once.       *)
Disown(c) ==
  /\ c \in InUse /\ parent[c] # NoPid
  /\ IF c \in Zombies
     THEN parent' = Without(parent, {c}) /\ state' = Without(state, {c})
     ELSE parent' = [parent EXCEPT ![c] = NoPid] /\ UNCHANGED state
  /\ UNCHANGED pending

(* A process exits.  It disowns its children, then stays a zombie while    *)
(* its own parent may still ask for the status.                            *)
Exit(c, s) ==
  LET gone == (Children(c) \cap Zombies)
                \cup (IF parent[c] = NoPid THEN {c} ELSE {})
  IN  /\ c \in InUse \cap Pid /\ state[c] = "running" /\ s \in Status
      /\ parent' = [d \in InUse \ gone |->
                      IF d \in Children(c) THEN NoPid ELSE parent[d]]
      /\ state' = [d \in InUse \ gone |-> IF d = c THEN s ELSE state[d]]
      /\ UNCHANGED pending

(* A waitpid takes the status of a zombie child, whose pid is free again.  *)
Collect(c) ==
  /\ c \in Zombies
  /\ pending' = pending \cup {<<parent[c], c, state[c]>>}
  /\ parent' = Without(parent, {c})
  /\ state' = Without(state, {c})

(* ... and returns it. *)
Deliver(r) ==
  /\ r \in pending
  /\ pending' = pending \ {r}
  /\ UNCHANGED <<parent, state>>

TreeNext ==
  \/ \E p \in InUse, c \in Pid : Fork(p, c)
  \/ \E c \in InUse : Start(c) \/ Abort(c) \/ Disown(c) \/ Collect(c)
  \/ \E c \in InUse, s \in Status : Exit(c, s)
  \/ \E r \in pending : Deliver(r)

TreeSpec == TreeInit /\ [][TreeNext]_treeVars
=============================================================================
