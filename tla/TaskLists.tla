----------------------------- MODULE TaskLists -----------------------------
(***************************************************************************)
(* The intrusive doubly linked lists of kernel/rtos_kernel.c: one ready    *)
(* queue per priority and one list of sleeping tasks, all threaded through *)
(* the same two fields, next and prev, of a task control block.            *)
(*                                                                         *)
(* The operators work on a record k that holds the part of g_kernel the    *)
(* list code reads and writes:                                             *)
(*   k.state, k.priority, k.in_ready_queue, k.next, k.prev   per TCB       *)
(*   k.ready_queue   head of the queue of each priority                    *)
(*   k.blocked_list  head of the list of sleeping tasks                    *)
(* and return it as the C function leaves it, pointer by pointer, so that  *)
(* a corrupted list is corrupted here in the same way.                     *)
(***************************************************************************)
EXTENDS Naturals, FiniteSets, Sequences

CONSTANTS
  MaxTasks,        \* AERORTOS_CONFIG_MAX_TASKS, the size of task_pool
  PriorityLevels,  \* AERORTOS_CONFIG_PRIORITY_LEVELS
  Idle,            \* &g_kernel.idle_task
  NULL             \* the null pointer

Tasks == 0 .. MaxTasks - 1              \* task_pool, by index
TCB == Tasks \cup {Idle}
Priorities == 0 .. PriorityLevels - 1   \* 0 is TASK_PRIORITY_IDLE
TaskState == {"TERMINATED", "READY", "RUNNING", "BLOCKED", "SUSPENDED"}

ASSUME TaskListsAssumption ==
  /\ MaxTasks \in Nat \ {0}
  /\ PriorityLevels \in Nat \ {0}
  /\ Idle \notin Tasks
  /\ NULL \notin Tasks \cup {Idle}

ListsType ==
  [state : [TCB -> TaskState],
   priority : [TCB -> Priorities],
   in_ready_queue : [TCB -> BOOLEAN],
   next : [TCB -> TCB \cup {NULL}],
   prev : [TCB -> TCB \cup {NULL}],
   ready_queue : [Priorities -> TCB \cup {NULL}],
   blocked_list : TCB \cup {NULL}]

-----------------------------------------------------------------------------
(* Walking a list                                                          *)

Closed(k, S) == \A t \in S : k.next[t] # NULL => k.next[t] \in S

(* The tasks a walk along next from head meets: the least set that holds   *)
(* head and is closed under next.                                          *)
Chain(k, head) ==
  IF head = NULL THEN {}
  ELSE {t \in TCB : \A S \in SUBSET TCB : head \in S /\ Closed(k, S) => t \in S}

(* Where `while (current->next != NULL) current = current->next` stops.    *)
Last(k, head) == CHOOSE t \in Chain(k, head) : k.next[t] = NULL

(* q is what a walk from head meets, in that order.                        *)
IsWalk(k, head, q) ==
  /\ head = IF q = <<>> THEN NULL ELSE q[1]
  /\ \A i \in 1 .. Len(q) : k.next[q[i]] = IF i = Len(q) THEN NULL ELSE q[i + 1]

Walk(k, head) ==
  LET n == CHOOSE n \in 0 .. Cardinality(TCB) : \E q \in [1 .. n -> TCB] : IsWalk(k, head, q)
  IN CHOOSE q \in [1 .. n -> TCB] : IsWalk(k, head, q)

-----------------------------------------------------------------------------
(* Mutant: the task is put at the front of its queue. *)
AddReadyAtFront(k, t) ==
  LET head == k.ready_queue[k.priority[t]] IN
  IF k.state[t] = "TERMINATED" \/ k.in_ready_queue[t] THEN k
  ELSE [k EXCEPT
         !.in_ready_queue[t] = TRUE,
         !.state[t] = IF @ = "RUNNING" THEN "READY" ELSE @,
         !.ready_queue[k.priority[t]] = t,
         !.next[t] = head,
         !.prev = [u \in TCB |-> IF u = t THEN NULL
                                 ELSE IF u = head THEN t ELSE @[u]]]

-----------------------------------------------------------------------------
(* kernel_add_to_ready_queue: append t to the queue of its priority.       *)
AddReady(k, t) ==
  LET p == k.priority[t]
      head == k.ready_queue[p]
  IN IF k.state[t] = "TERMINATED" \/ k.in_ready_queue[t] THEN k
     ELSE LET m == [k EXCEPT
                     !.in_ready_queue[t] = TRUE,
                     !.state[t] = IF @ = "RUNNING" THEN "READY" ELSE @]
          IN IF head = NULL
             THEN [m EXCEPT !.ready_queue[p] = t, !.next[t] = NULL, !.prev[t] = NULL]
             ELSE [m EXCEPT !.next[Last(k, head)] = t,
                            !.prev[t] = Last(k, head),
                            !.next[t] = NULL]

(* Join t's neighbours and clear its links; the caller sets the head.      *)
Unlink(k, t) ==
  [k EXCEPT
    !.next = [u \in TCB |-> IF u = t THEN NULL
                            ELSE IF u = k.prev[t] THEN k.next[t] ELSE @[u]],
    !.prev = [u \in TCB |-> IF u = t THEN NULL
                            ELSE IF u = k.next[t] THEN k.prev[t] ELSE @[u]]]

(* kernel_remove_from_ready_queue *)
RemoveReady(k, t) ==
  IF ~k.in_ready_queue[t] THEN k
  ELSE [Unlink(k, t) EXCEPT
         !.in_ready_queue[t] = FALSE,
         !.ready_queue[k.priority[t]] = IF k.prev[t] = NULL THEN k.next[t] ELSE @]

(* The unlinking from blocked_list in the tick handler and in task_delete. *)
RemoveBlocked(k, t) ==
  [Unlink(k, t) EXCEPT
    !.blocked_list = IF k.prev[t] = NULL THEN k.next[t] ELSE @]

(* task_sleep: t becomes the head of blocked_list.                         *)
PushBlocked(k, t) ==
  [k EXCEPT
    !.state[t] = "BLOCKED",
    !.next[t] = k.blocked_list,
    !.prev = [u \in TCB |-> IF u = k.blocked_list THEN t
                            ELSE IF u = t THEN NULL ELSE @[u]],
    !.blocked_list = t]

(* Mutant: the task is made READY but not put in a queue. *)
WakeWithoutQueueing(k, t) == [RemoveBlocked(k, t) EXCEPT !.state[t] = "READY"]

(* The tick handler moves a task whose time has come to its ready queue.   *)
WakeBlocked(k, t) == AddReady([RemoveBlocked(k, t) EXCEPT !.state[t] = "READY"], t)

(* kernel_cleanup_task: take t off whatever list it is on.                 *)
Cleanup(k, t) ==
  LET off == IF k.in_ready_queue[t] THEN RemoveReady(k, t)
             ELSE IF k.state[t] = "BLOCKED" THEN RemoveBlocked(k, t)
             ELSE k
  IN [off EXCEPT !.state[t] = "TERMINATED", !.in_ready_queue[t] = FALSE,
                 !.next[t] = NULL, !.prev[t] = NULL]

-----------------------------------------------------------------------------
(* What it means for the lists to be intact.                               *)

SameList(k, t, u) ==
  \/ k.in_ready_queue[t] /\ k.in_ready_queue[u] /\ k.priority[t] = k.priority[u]
  \/ k.state[t] = "BLOCKED" /\ k.state[u] = "BLOCKED"

(* Heads are on their list and have nothing before them; nothing else has  *)
(* nothing before it.                                                      *)
HeadsOK(k) ==
  /\ \A p \in Priorities : k.ready_queue[p] # NULL =>
       LET h == k.ready_queue[p] IN
         k.in_ready_queue[h] /\ k.priority[h] = p /\ k.prev[h] = NULL
  /\ k.blocked_list # NULL =>
       k.state[k.blocked_list] = "BLOCKED" /\ k.prev[k.blocked_list] = NULL
  /\ \A t \in TCB : k.prev[t] = NULL =>
       /\ k.in_ready_queue[t] => k.ready_queue[k.priority[t]] = t
       /\ k.state[t] = "BLOCKED" => k.blocked_list = t

(* next and prev are inverse, and stay within one list.                    *)
LinksOK(k) ==
  \A t \in TCB :
    /\ k.in_ready_queue[t] => k.state[t] = "READY"
    /\ k.next[t] # NULL => k.prev[k.next[t]] = t /\ SameList(k, t, k.next[t])
    /\ k.prev[t] # NULL => k.next[k.prev[t]] = t /\ SameList(k, t, k.prev[t])

ListsOK(k) == HeadsOK(k) /\ LinksOK(k)

=============================================================================
