--------------------------- MODULE BoundedBuffer ---------------------------
(***************************************************************************)
(* What producer_send and consumer_receive promise: a buffer that holds a  *)
(* bounded number of items, each of which was sent once and is received    *)
(* at most once, in any order.                                             *)
(***************************************************************************)
EXTENDS Integers, FiniteSets

CONSTANTS Item, Size
VARIABLES sent, buffer, received

Init == sent = {} /\ buffer = {} /\ received = {}

Send(i) ==
  /\ i \notin sent /\ Cardinality(buffer) < Size
  /\ sent' = sent \cup {i} /\ buffer' = buffer \cup {i}
  /\ UNCHANGED received

Receive(i) ==
  /\ i \in buffer
  /\ buffer' = buffer \ {i} /\ received' = received \cup {i}
  /\ UNCHANGED sent

(* The buffer is set up anew. *)
Startup == sent' = {} /\ buffer' = {} /\ received' = {}

Next == Startup \/ \E i \in Item : Send(i) \/ Receive(i)

Spec == Init /\ [][Next]_<<sent, buffer, received>>
=============================================================================
