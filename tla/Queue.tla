------------------------------- MODULE Queue -------------------------------
(***************************************************************************)
(* A message queue of kernel/rtos_queue.c, used by tasks of module Kernel: *)
(* a ring buffer with a list of waiting senders and one of waiting         *)
(* receivers.  The queue is one slot of the array g_kernel.queues.         *)
(***************************************************************************)
EXTENDS Waiting

CONSTANTS Items, Capacities

ASSUME QueueAssumption ==
  /\ WaitLists = {"send", "recv"}
  /\ Capacities \subseteq Nat \ {0}

VARIABLES
  max_items,   \* 0 when the slot is free
  item_count, head, tail,
  buffer       \* buffer[i]: the item in place i, NULL after memset

queueVars == <<max_items, item_count, head, tail, buffer>>
allVars == <<vars, waitVars, queueVars>>

Places(n) == IF n = 0 THEN {} ELSE 0 .. n - 1

QueueTypeOK ==
  /\ waiting \in [WaitLists -> Seq(TCB)]
  /\ max_items \in Capacities \cup {0}
  /\ item_count \in 0 .. max_items
  /\ head \in Nat /\ tail \in Nat
  /\ max_items > 0 => head < max_items /\ tail < max_items
  /\ buffer \in [Places(max_items) -> Items \cup {NULL}]

QueueInit ==
  /\ Init
  /\ WaitingInit
  /\ max_items = 0
  /\ item_count = 0
  /\ head = 0
  /\ tail = 0
  /\ buffer = [i \in Places(0) |-> NULL]

Clear(n) ==
  /\ max_items' = n
  /\ item_count' = 0
  /\ head' = 0
  /\ tail' = 0
  /\ buffer' = [i \in Places(n) |-> NULL]
  /\ waiting' = [l \in WaitLists |-> <<>>]
  /\ UNCHANGED <<vars, resume, abandoned>>

queue_create(n) ==
  /\ pc = "boot" \/ Calling("queue_create")
  /\ max_items = 0
  /\ Clear(n)

(* The nodes are freed; the tasks in them stay BLOCKED.                    *)
queue_delete ==
  /\ Calling("queue_delete")
  /\ max_items > 0
  /\ Clear(0)

Full == item_count >= max_items
Empty == item_count = 0

(* Mutant: the item goes to the place after as many as there are items. *)
PutAtCount(i) ==
  /\ buffer' = [buffer EXCEPT ![item_count] = i]
  /\ tail' = (tail + 1) % max_items
  /\ item_count' = item_count + 1
  /\ WakeFirst(lists, "recv")
  /\ UNCHANGED <<head, max_items>>

(* The item is copied in, and the first waiting receiver is woken.         *)
Put(i) ==
  /\ buffer' = [buffer EXCEPT ![tail] = i]
  /\ tail' = (tail + 1) % max_items
  /\ item_count' = item_count + 1
  /\ WakeFirst(lists, "recv")
  /\ UNCHANGED <<head, max_items>>

(* The item is copied out, and the first waiting sender is woken.          *)
Get ==
  /\ head' = (head + 1) % max_items
  /\ item_count' = item_count - 1
  /\ WakeFirst(lists, "send")
  /\ UNCHANGED <<tail, max_items, buffer>>

queue_send(i) ==
  /\ Calling("queue")
  /\ max_items > 0
  /\ \/ ~Full /\ Put(i) /\ UNCHANGED <<resume, abandoned>>
     \/ /\ Full
        /\ \E ms \in Timeouts : Block(lists, "send", ms, <<"send", i>>)
        /\ UNCHANGED queueVars

(* Mutant: a sender that had to wait does not wake a receiver. *)
SendResumesSilently(i) ==
  /\ Resuming(<<"send", i>>)
  /\ Return
  /\ UNCHANGED <<vars, waiting, head, max_items>>
  /\ IF Full THEN UNCHANGED <<buffer, tail, item_count>>
     ELSE /\ buffer' = [buffer EXCEPT ![tail] = i]
          /\ tail' = (tail + 1) % max_items
          /\ item_count' = item_count + 1

(* After kernel_schedule there is room, or the sender gives up.            *)
SendResumes(i) ==
  /\ Resuming(<<"send", i>>)
  /\ Return
  /\ IF Full THEN UNCHANGED <<vars, waiting, queueVars>> ELSE Put(i)

queue_receive ==
  /\ Calling("queue")
  /\ max_items > 0
  /\ \/ ~Empty /\ Get /\ UNCHANGED <<resume, abandoned>>
     \/ /\ Empty
        /\ \E ms \in Timeouts : Block(lists, "recv", ms, <<"receive">>)
        /\ UNCHANGED queueVars

ReceiveResumes ==
  /\ Resuming(<<"receive">>)
  /\ Return
  /\ IF Empty THEN UNCHANGED <<vars, waiting, queueVars>> ELSE Get

QueueNext ==
  \/ KernelStep /\ UNCHANGED queueVars
  \/ \E n \in Capacities : queue_create(n)
  \/ queue_delete
  \/ \E i \in Items : queue_send(i) \/ SendResumes(i)
  \/ queue_receive \/ ReceiveResumes

QueueSpec == QueueInit /\ [][QueueNext]_allVars

-----------------------------------------------------------------------------
(* Properties                                                              *)

(* The items in the queue, oldest first.                                   *)
Contents == [n \in 1 .. item_count |-> buffer[(head + n - 1) % max_items]]

Fifo == INSTANCE BoundedFifo WITH
  Item <- Items, contents <- Contents, capacity <- max_items

(* The ring buffer implements the bounded FIFO: whoever sends and receives *)
(* and wherever they wait, items come out in the order they went in, none  *)
(* is lost, overwritten or received twice, and no more are held than fit.  *)
FIFO == Fifo!Spec

(* While items are there and receivers wait, a receiver woken earlier is   *)
(* still to receive; while there is room and senders wait, a woken sender  *)
(* is still to send.                                                       *)
NoLostMessage ==
  ~abandoned =>
    /\ item_count > 0 /\ waiting["recv"] # <<>> => OneIsWoken({<<"receive">>})
    /\ item_count < max_items /\ waiting["send"] # <<>> =>
         OneIsWoken({<<"send", i>> : i \in Items})

=============================================================================
