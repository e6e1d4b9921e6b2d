------------------------------ MODULE FifoQueue ------------------------------
(***************************************************************************)
(* What the queues of src/src/Data-Structures promise their users: first   *)
(* in, first out, each item once, never more than Capacity inside, and     *)
(* nothing accepted any more once the queue is closed.                     *)
(*                                                                         *)
(* An item is its number in the order in which push accepted them.         *)
(***************************************************************************)
EXTENDS Integers, Sequences

CONSTANT Capacity   \* items that fit in, a number

VARIABLES
  accepted,    \* how many items push has accepted
  delivered,   \* the items that pop has returned, in that order
  closed

vars == <<accepted, delivered, closed>>

Init == accepted = 0 /\ delivered = <<>> /\ closed = FALSE

Push ==
  /\ ~closed /\ accepted - Len(delivered) < Capacity
  /\ accepted' = accepted + 1
  /\ UNCHANGED <<delivered, closed>>

Pop ==
  /\ Len(delivered) < accepted
  /\ delivered' = Append(delivered, Len(delivered) + 1)
  /\ UNCHANGED <<accepted, closed>>

Close ==
  /\ closed' = TRUE
  /\ UNCHANGED <<accepted, delivered>>

Next == Push \/ Pop \/ Close

Spec == Init /\ [][Next]_vars
=============================================================================
