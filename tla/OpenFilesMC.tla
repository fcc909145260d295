---------------------------- MODULE OpenFilesMC ----------------------------
(* A small instance of OpenFiles. *)
EXTENDS OpenFiles

CONSTANTS p1, p2, f1, f2

TwoProcs == {p1, p2}
TwoFiles == {f1, f2}
=============================================================================
