----------------------------- MODULE Scheduler -----------------------------
(***************************************************************************)
(* What the scheduler of kernel/rtos_kernel.c promises, without pointers:  *)
(* one FIFO queue of tasks per priority, a set of sleepers, and one task   *)
(* that was dispatched.  Dispatching takes the longest-waiting task of the *)
(* highest priority that has one.  Module Kernel implements this one: see  *)
(* AbstractScheduler there.                                                *)
(***************************************************************************)
EXTENDS Naturals, Sequences

CONSTANTS Task, Idle, NULL, Priority

VARIABLES queue, sleeping, current

vars == <<queue, sleeping, current>>

InQueue(t, p) == \E i \in 1 .. Len(queue[p]) : queue[p][i] = t
Queued(t) == \E p \in Priority : InQueue(t, p)

(* q after its first t is taken out. *)
Without(q, t) ==
  IF \E i \in 1 .. Len(q) : q[i] = t
  THEN LET at == CHOOSE i \in 1 .. Len(q) : q[i] = t /\ \A j \in 1 .. i - 1 : q[j] # t
       IN  [i \in 1 .. Len(q) - 1 |-> IF i < at THEN q[i] ELSE q[i + 1]]
  ELSE q
Withdrawn(t) == [p \in Priority |-> Without(queue[p], t)]

Init ==
  /\ queue = [p \in Priority |-> IF p = 0 THEN <<Idle>> ELSE <<>>]
  /\ sleeping = {}
  /\ current = NULL

(* A task that is created, resumed or yields joins the end of a queue.     *)
Arrive(t, p) ==
  /\ ~Queued(t) /\ t \notin sleeping
  /\ queue' = [queue EXCEPT ![p] = Append(@, t)]
  /\ UNCHANGED <<sleeping, current>>

(* A task that is suspended or deleted leaves the queues; the others keep  *)
(* their order.                                                            *)
Leave(t) ==
  /\ Queued(t)
  /\ queue' = Withdrawn(t)
  /\ UNCHANGED <<sleeping, current>>

(* A change of priority sends a queued task to the end of its new queue.   *)
Move(t, p) ==
  /\ Queued(t)
  /\ queue' = [Withdrawn(t) EXCEPT ![p] = Append(@, t)]
  /\ UNCHANGED <<sleeping, current>>

(* Only the dispatched task goes to sleep.                                 *)
FallAsleep ==
  /\ ~Queued(current) /\ current \notin sleeping
  /\ sleeping' = sleeping \cup {current}
  /\ UNCHANGED <<queue, current>>

Wake(t, p) ==
  /\ t \in sleeping
  /\ sleeping' = sleeping \ {t}
  /\ queue' = [queue EXCEPT ![p] = Append(@, t)]
  /\ UNCHANGED current

(* A sleeper is deleted.                                                   *)
Vanish(t) ==
  /\ t \in sleeping
  /\ sleeping' = sleeping \ {t}
  /\ UNCHANGED <<queue, current>>

Waiting == {p \in Priority : queue[p] # <<>>}

(* The head of the highest nonempty queue is dispatched; the task it       *)
(* replaces may join the end of a queue.                                   *)
Dispatch ==
  \E p \in Waiting :
    /\ \A q \in Waiting : q <= p
    /\ current' = Head(queue[p])
    /\ LET popped == [queue EXCEPT ![p] = Tail(@)] IN
         \/ queue' = popped
         \/ /\ current # NULL /\ ~Queued(current) /\ current \notin sleeping
            /\ \E q \in Priority : queue' = [popped EXCEPT ![q] = Append(@, current)]
    /\ UNCHANGED sleeping

(* With nothing waiting, the idle task is dispatched.                      *)
DispatchIdle ==
  /\ Waiting = {}
  /\ current' = Idle
  /\ UNCHANGED <<queue, sleeping>>

(* Most steps of the kernel change nothing here; TLC looks for that first.  *)
Next ==
  \/ UNCHANGED vars
  \/ \E t \in Task : Leave(t) \/ Vanish(t)
  \/ \E t \in Task, p \in Priority : Arrive(t, p) \/ Move(t, p) \/ Wake(t, p)
  \/ FallAsleep
  \/ Dispatch
  \/ DispatchIdle

Spec == Init /\ [][Next]_vars

=============================================================================
