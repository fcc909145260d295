-------------------------------- MODULE VMMC --------------------------------
(* Instances of VM: small executables, and what is interchangeable. *)
EXTENDS VM, TLC

Seg(base, size, writeable) ==
  [base |-> base, size |-> size, readable |-> TRUE, writeable |-> writeable,
   old_writeable |-> writeable]

Text == Seg(0, 1, FALSE)
Data == Seg(0, 1, TRUE)
Wrapping == Seg(6, 3, TRUE)

(* One with a segment whose end wraps to page 1, one with two segments in  *)
(* one place, and a program of data; none touches the stack.               *)
MCExecutables == {<<Text, Wrapping>>, <<Text, Data>>, <<Data>>}
MCStack == Seg(2, 2, TRUE)

Interchangeable ==
  Permutations(Frame) \cup Permutations(Proc)
  \cup Permutations(Cpu)
=============================================================================
