---------------------------- MODULE BoundedFifo ----------------------------
(***************************************************************************)
(* What a message queue of kernel/rtos_queue.c promises: items come out in *)
(* the order they went in, none is lost, none comes out twice, and there   *)
(* are never more than capacity.  Module Queue implements it: see FIFO     *)
(* there.                                                                  *)
(***************************************************************************)
EXTENDS Naturals, Sequences

CONSTANT Item

VARIABLES contents, capacity   \* capacity is 0 when there is no queue

vars == <<contents, capacity>>

Init == contents = <<>> /\ capacity = 0

Create ==
  /\ capacity = 0
  /\ capacity' \in Nat \ {0}
  /\ contents' = <<>>

Delete ==
  /\ capacity' = 0
  /\ contents' = <<>>

Send ==
  /\ Len(contents) < capacity
  /\ \E i \in Item : contents' = Append(contents, i)
  /\ UNCHANGED capacity

Receive ==
  /\ contents # <<>>
  /\ contents' = Tail(contents)
  /\ UNCHANGED capacity

Next == Create \/ Delete \/ Send \/ Receive

Spec == Init /\ [][Next]_vars

=============================================================================
