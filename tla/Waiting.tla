------------------------------ MODULE Waiting ------------------------------
(***************************************************************************)
(* Blocking on a kernel object: the waiting lists of kernel/               *)
(* rtos_semaphore.c, rtos_mutex.c and rtos_queue.c, and the pool of        *)
(* waiting nodes they share.  The three files repeat the same code; the    *)
(* modules of that name extend this one.                                   *)
(*                                                                         *)
(* A task blocks in the middle of a call, and goes on there when           *)
(* kernel_schedule returns to it: resume[t] is the rest of t's call.       *)
(***************************************************************************)
EXTENDS Kernel, Sequences, FiniteSetsExt

CONSTANTS
  WaitLists,        \* the waiting lists there are
  MaxWaitingNodes,  \* AERORTOS_CONFIG_MAX_WAITING_NODES
  Timeouts          \* the nonzero timeouts tasks pass

ASSUME WaitingAssumption ==
  /\ MaxWaitingNodes \in Nat
  /\ Timeouts \subseteq Nat \ {0}

VARIABLES
  waiting,          \* waiting[l]: the tasks of the nodes of list l
  resume,           \* resume[t]: <<>>, or what t does when dispatched
  abandoned         \* history: has a call been cut short, or has a task
                    \* run on while one of its nodes was on a list?

waitVars == <<waiting, resume, abandoned>>

WaitingInit ==
  /\ waiting = [l \in WaitLists |-> <<>>]
  /\ resume = [t \in TCB |-> <<>>]
  /\ abandoned = FALSE

UsedNodes == MapThenSumSet(LAMBDA l : Len(waiting[l]), WaitLists)

(* sem_add_waiting_task and its copies: without a free node, nothing.      *)
AddWaiting(l, t) ==
  IF UsedNodes < MaxWaitingNodes THEN [waiting EXCEPT ![l] = Append(@, t)] ELSE waiting

(* The current task makes a call of this kind and is not inside another.   *)
Calling(c) == MayCall(c) /\ resume[current_task] = <<>>

(* kernel_schedule has returned to the current task inside a call.         *)
Resuming(rest) == pc = "app" /\ current_task # Idle /\ resume[current_task] = rest

(* The code of a task runs although a node of some list still names it: it *)
(* has not been woken.  kernel_schedule comes back to a task that blocks   *)
(* when the scheduler is locked, or when it finds no other to dispatch.    *)
RunsWaiting ==
  pc = "app" /\ \E l \in WaitLists : \E i \in 1 .. Len(waiting[l]) : waiting[l][i] = current_task

(* The caller becomes BLOCKED, whatever its state was, and is put on l, but *)
(* not on blocked_list.  k is lists, or what the caller has made of it.    *)
Block(k, l, ms, rest) ==
  /\ lists' = [k EXCEPT !.state[current_task] = "BLOCKED"]
  /\ wake_time' = [wake_time EXCEPT ![current_task] = (system_tick + ms) % TickModulus]
  /\ waiting' = AddWaiting(l, current_task)
  /\ resume' = [resume EXCEPT ![current_task] = rest]
  /\ CallSchedule
  /\ UNCHANGED <<task_id, is_suspended, first_run, schedVars, timerVars, controlVars>>
  /\ abandoned' = (abandoned \/ RunsWaiting')

(* Mutant: the node stays on the list. *)
WakeKeepsNode(k, l) ==
  /\ IF waiting[l] = <<>>
     THEN lists' = k /\ UNCHANGED wake_time
     ELSE LET t == Head(waiting[l]) IN
            /\ lists' = WakeBlocked(k, t)
            /\ wake_time' = [wake_time EXCEPT ![t] = 0]
  /\ UNCHANGED <<waiting, task_id, is_suspended, first_run, schedVars, timerVars, pc, controlVars>>

(* The first waiter of l, if any, is unlinked as if from blocked_list and  *)
(* queued; kernel_schedule is not called.                                  *)
WakeFirst(k, l) ==
  /\ IF waiting[l] = <<>>
     THEN lists' = k /\ UNCHANGED <<wake_time, waiting>>
     ELSE LET t == Head(waiting[l]) IN
            /\ lists' = WakeBlocked(k, t)
            /\ wake_time' = [wake_time EXCEPT ![t] = 0]
            /\ waiting' = [waiting EXCEPT ![l] = Tail(@)]
  /\ UNCHANGED <<task_id, is_suspended, first_run, schedVars, timerVars, pc, controlVars>>

(* The rest of the call ends.                                              *)
Return == resume' = [resume EXCEPT ![current_task] = <<>>] /\ UNCHANGED abandoned

(* kernel_schedule dispatches a task for its first run.                    *)
StartsAnew == current_task' # current_task /\ first_run[current_task']

(* A task loses the rest of its call: it is started anew, or deleted.      *)
CallCutShort ==
  \E t \in TCB :
    /\ resume[t] # <<>>
    /\ \/ resume'[t] = <<>>
       \/ task_id[t] /\ ~task_id'[t]

(* A step of the kernel itself.  A task dispatched for its first run       *)
(* begins its entry function, and a call it was in is lost: the first task *)
(* of all runs first twice (kernel_start), and a slot can be reused.       *)
KernelStep ==
  /\ UNCHANGED waiting
  /\ \/ (TimerThread \/ kernel_start \/ IdleLoop \/ Exited) /\ UNCHANGED resume
     \/ /\ pc = "app" => resume[current_task] = <<>>
        /\ KernelCall
        /\ UNCHANGED resume
     \/ /\ kernel_schedule
        /\ IF StartsAnew THEN resume' = [resume EXCEPT ![current_task'] = <<>>]
                         ELSE UNCHANGED resume
  /\ abandoned' = (abandoned \/ CallCutShort \/ RunsWaiting')

-----------------------------------------------------------------------------
(* Properties of the modules that extend this one                          *)

(* The tasks of the nodes of list l are BLOCKED inside the call whose rest *)
(* is rest, each in one node: no wake-up is spent on a task that does not  *)
(* wait, and none is given twice to the same wait.                         *)
AllWait(l, Rests) ==
  /\ \A i \in 1 .. Len(waiting[l]) :
       /\ resume[waiting[l][i]] \in Rests
       /\ lists.state[waiting[l][i]] = "BLOCKED"
  /\ \A i, j \in 1 .. Len(waiting[l]) : waiting[l][i] = waiting[l][j] => i = j

(* Some task has been woken in such a call and has yet to go on with it.   *)
OneIsWoken(Rests) == \E t \in TCB : resume[t] \in Rests /\ lists.state[t] # "BLOCKED"

(* When the tick handler has been through its list, no task whose time-out *)
(* had passed when it began is still BLOCKED.                              *)
TimeoutsFire ==
  pc = "walk" /\ cursor = NULL =>
    \A t \in TCB : lists.state[t] = "BLOCKED" => wake_time[t] > handler_tick

=============================================================================
