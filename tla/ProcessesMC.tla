---------------------------- MODULE ProcessesMC ----------------------------
(* A small instance of Processes: three user processes, a table with room  *)
(* for the kernel and two or three of them, and pids that wrap round.      *)
EXTENDS Processes, TLC

CONSTANTS k0, p1, p2, p3, exit0, killed

MCProc == {k0, p1, p2, p3}
OneStatus == {exit0}
TwoStatuses == {exit0, killed}
UserSymmetry == Permutations({p1, p2, p3})
=============================================================================
