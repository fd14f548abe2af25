------------------------------- MODULE Kernel -------------------------------
(***************************************************************************)
(* The task scheduler of kernel/rtos_kernel.c, driven by the timer thread  *)
(* of kernel/rtos_port.c.                                                  *)
(*                                                                         *)
(* Two OS threads exist.  The timer thread only increments system_tick and *)
(* sets timer_pending.  The main thread runs everything else: main(),      *)
(* then the code of current_task, which calls the kernel.  pc says where   *)
(* the main thread is:                                                     *)
(*   boot   in main(), before kernel_start                                 *)
(*   app    in the code of current_task (for Idle: idle_task_function)     *)
(*   sched  at the top of kernel_schedule, its guard passed                *)
(*   walk   in the loop of kernel_tick_handler, at TCB cursor              *)
(*   pick   in kernel_schedule, past the pending tick                      *)
(*   exit   past the exit(0) of task_entry_wrapper                         *)
(* Each step is a stretch of code that does not read what the timer thread *)
(* writes, or reads it once.                                               *)
(*                                                                         *)
(* setjmp/longjmp is modelled by its purpose: once a task is dispatched,   *)
(* the main thread runs that task's code.                                  *)
(***************************************************************************)
EXTENDS TaskLists

CONSTANTS
  TaskPriorities, \* the priorities tasks are given
  SleepTimes,    \* the arguments tasks pass to task_sleep
  Calls,         \* the kernel calls tasks make
  TickModulus,   \* system_tick and wake_time count modulo this (2^32)
  TickLimit,     \* bound: the timer thread stops at this tick
  LockLimit      \* bound on scheduler_lock_depth taken by tasks

ASSUME KernelAssumption ==
  /\ TickModulus \in Nat \ {0}
  /\ TickLimit \in Nat
  /\ LockLimit \in Nat
  /\ TaskPriorities \subseteq Priorities
  /\ SleepTimes \subseteq Nat \ {0}

VARIABLES
  lists,                     \* the task lists: see TaskLists
  task_id,               \* task_id[t]: is it nonzero?
  is_suspended, first_run, wake_time,
  current_task,
  scheduler_running, scheduler_lock_depth,
  system_tick, timer_pending,
  timer_pc,              \* the timer thread, between its two writes?
  pc, cursor,
  tick_from,             \* who called kernel_tick_handler: "sched" or "idle"
  returning,             \* is kernel_schedule called by task_entry_wrapper?
  idle_pc,               \* idle loop: at the pending "check", or at "yield"
  handler_tick           \* history: system_tick when the handler was entered

tcbVars == <<task_id, is_suspended, first_run, wake_time>>
schedVars == <<current_task, scheduler_running, scheduler_lock_depth>>
timerVars == <<system_tick, timer_pending, timer_pc>>
controlVars == <<cursor, tick_from, returning, idle_pc, handler_tick>>
vars == <<lists, tcbVars, schedVars, timerVars, pc, controlVars>>

Tick == 0 .. TickModulus - 1

TypeOK ==
  /\ lists \in ListsType
  /\ task_id \in [TCB -> BOOLEAN]
  /\ is_suspended \in [TCB -> BOOLEAN]
  /\ first_run \in [TCB -> BOOLEAN]
  /\ wake_time \in [TCB -> Tick]
  /\ current_task \in TCB \cup {NULL}
  /\ scheduler_running \in BOOLEAN
  /\ scheduler_lock_depth \in 0 .. LockLimit + 1
  /\ system_tick \in Tick
  /\ timer_pending \in BOOLEAN
  /\ timer_pc \in {"idle", "set"}
  /\ pc \in {"boot", "app", "sched", "walk", "pick", "exit"}
  /\ cursor \in TCB \cup {NULL}
  /\ tick_from \in {"sched", "idle"}
  /\ returning \in BOOLEAN
  /\ idle_pc \in {"check", "yield"}
  /\ handler_tick \in Tick

(* kernel_init: every slot is free; the idle task is ready.                *)
Init ==
  /\ lists = AddReady(
           [state |-> [t \in TCB |-> IF t = Idle THEN "READY" ELSE "TERMINATED"],
            priority |-> [t \in TCB |-> 0],
            in_ready_queue |-> [t \in TCB |-> FALSE],
            next |-> [t \in TCB |-> NULL],
            prev |-> [t \in TCB |-> NULL],
            ready_queue |-> [p \in Priorities |-> NULL],
            blocked_list |-> NULL], Idle)
  /\ task_id = [t \in TCB |-> t = Idle]
  /\ is_suspended = [t \in TCB |-> FALSE]
  /\ first_run = [t \in TCB |-> t = Idle]
  /\ wake_time = [t \in TCB |-> 0]
  /\ current_task = NULL
  /\ scheduler_running = FALSE
  /\ scheduler_lock_depth = 0
  /\ system_tick = 0
  /\ timer_pending = FALSE
  /\ timer_pc = "idle"
  /\ pc = "boot"
  /\ cursor = NULL
  /\ tick_from = "sched"
  /\ returning = FALSE
  /\ idle_pc = "check"
  /\ handler_tick = 0

-----------------------------------------------------------------------------
(* The timer thread                                                        *)

(* timer_thread_function: system_tick++ ...                                *)
TimerIncrement ==
  /\ timer_pc = "idle"
  /\ system_tick < TickLimit
  /\ system_tick' = (system_tick + 1) % TickModulus
  /\ timer_pc' = "set"
  /\ UNCHANGED <<lists, tcbVars, schedVars, timer_pending, pc, controlVars>>

(* ... then timer_pending = 1.                                             *)
TimerSetPending ==
  /\ timer_pc = "set"
  /\ timer_pending' = TRUE
  /\ timer_pc' = "idle"
  /\ UNCHANGED <<lists, tcbVars, schedVars, system_tick, pc, controlVars>>

TimerThread == TimerIncrement \/ TimerSetPending

-----------------------------------------------------------------------------
(* Calls from main(), which only creates tasks, and from the code of tasks *)

MayCall(c) == c \in Calls /\ pc = "app" /\ current_task # Idle

(* Mutant: the guard of kernel_schedule forgets the lock. *)
SchedulerOnIgnoresLock == scheduler_running

(* kernel_schedule returns at once unless this holds.                      *)
SchedulerOn == scheduler_running /\ scheduler_lock_depth = 0

CallSchedule == pc' = IF SchedulerOn THEN "sched" ELSE pc

(* kernel_find_task_by_id succeeds (the idle task's id never changes).     *)
Known(t) == t = Idle \/ (task_id[t] /\ lists.state[t] # "TERMINATED")

FirstFree == CHOOSE t \in Tasks : ~task_id[t] /\ \A u \in Tasks : u < t => task_id[u]

task_create(p) ==
  /\ pc = "boot" \/ MayCall("create")
  /\ \E t \in Tasks : ~task_id[t]
  /\ lists' = AddReady([lists EXCEPT !.state[FirstFree] = "READY",
                             !.priority[FirstFree] = p,
                             !.in_ready_queue[FirstFree] = FALSE,
                             !.next[FirstFree] = NULL,
                             !.prev[FirstFree] = NULL], FirstFree)
  /\ task_id' = [task_id EXCEPT ![FirstFree] = TRUE]
  /\ is_suspended' = [is_suspended EXCEPT ![FirstFree] = FALSE]
  /\ first_run' = [first_run EXCEPT ![FirstFree] = TRUE]
  /\ wake_time' = [wake_time EXCEPT ![FirstFree] = 0]
  /\ CallSchedule
  /\ UNCHANGED <<schedVars, timerVars, controlVars>>

(* A task that deletes itself keeps running: no kernel_schedule then.      *)
task_delete(t) ==
  /\ MayCall("delete")
  /\ Known(t)
  /\ lists' = Cleanup(lists, t)
  /\ task_id' = [task_id EXCEPT ![t] = FALSE]
  /\ IF t # current_task THEN CallSchedule ELSE UNCHANGED pc
  /\ UNCHANGED <<is_suspended, first_run, wake_time, schedVars, timerVars, controlVars>>

(* Mutant: is_suspended is not set. *)
SuspendForgetsFlag(t) ==
  /\ MayCall("suspend")
  /\ Known(t) /\ t # Idle /\ ~is_suspended[t]
  /\ lists' = IF lists.state[t] \in {"READY", "RUNNING"}
          THEN [RemoveReady(lists, t) EXCEPT !.state[t] = "SUSPENDED"] ELSE lists
  /\ IF t = current_task THEN CallSchedule ELSE UNCHANGED pc
  /\ UNCHANGED <<task_id, is_suspended, first_run, wake_time, schedVars, timerVars, controlVars>>

(* A sleeping task only gets the flag, and stays on blocked_list.          *)
task_suspend(t) ==
  /\ MayCall("suspend")
  /\ Known(t) /\ t # Idle /\ ~is_suspended[t]
  /\ is_suspended' = [is_suspended EXCEPT ![t] = TRUE]
  /\ lists' = IF lists.state[t] \in {"READY", "RUNNING"}
          THEN [RemoveReady(lists, t) EXCEPT !.state[t] = "SUSPENDED"] ELSE lists
  /\ IF t = current_task THEN CallSchedule ELSE UNCHANGED pc
  /\ UNCHANGED <<task_id, first_run, wake_time, schedVars, timerVars, controlVars>>

task_resume(t) ==
  /\ MayCall("resume")
  /\ Known(t) /\ is_suspended[t]
  /\ is_suspended' = [is_suspended EXCEPT ![t] = FALSE]
  /\ lists' = IF lists.state[t] = "SUSPENDED"
          THEN AddReady([lists EXCEPT !.state[t] = "READY"], t) ELSE lists
  /\ CallSchedule
  /\ UNCHANGED <<task_id, first_run, wake_time, schedVars, timerVars, controlVars>>

(* Mutant: the call of kernel_schedule is missing. *)
SleepWithoutSchedule(ms) ==
  /\ MayCall("sleep")
  /\ task_id[current_task] /\ lists.state[current_task] = "RUNNING"
  /\ lists' = PushBlocked(lists, current_task)
  /\ wake_time' = [wake_time EXCEPT ![current_task] = (system_tick + ms) % TickModulus]
  /\ UNCHANGED <<pc, task_id, is_suspended, first_run, schedVars, timerVars, controlVars>>

task_sleep(ms) ==
  /\ MayCall("sleep")
  /\ task_id[current_task] /\ lists.state[current_task] = "RUNNING"
  /\ lists' = PushBlocked(lists, current_task)
  /\ wake_time' = [wake_time EXCEPT ![current_task] = (system_tick + ms) % TickModulus]
  /\ CallSchedule
  /\ UNCHANGED <<task_id, is_suspended, first_run, schedVars, timerVars, controlVars>>

Yield ==
  /\ IF lists.state[current_task] = "RUNNING"
     THEN lists' = AddReady(lists, current_task) /\ CallSchedule
     ELSE UNCHANGED <<lists, pc>>
  /\ UNCHANGED <<tcbVars, schedVars, timerVars, cursor, tick_from, returning, handler_tick>>

(* Also task_sleep(0).  A task whose state is not RUNNING gets             *)
(* KERNEL_ERROR_INVALID_PARAM, as it does from task_sleep.                 *)
task_yield == MayCall("yield") /\ Yield /\ UNCHANGED idle_pc

(* task_sleep refuses a task that is not RUNNING: nothing changes.         *)
SleepRefused ==
  /\ MayCall("sleep")
  /\ lists.state[current_task] # "RUNNING"
  /\ UNCHANGED vars

(* Mutant: a queued task is not moved to its new queue. *)
SetPriorityInPlace(t, p) ==
  /\ MayCall("set_priority")
  /\ Known(t)
  /\ lists' = [lists EXCEPT !.priority[t] = p]
  /\ IF t = current_task THEN CallSchedule ELSE UNCHANGED pc
  /\ UNCHANGED <<tcbVars, schedVars, timerVars, controlVars>>

task_set_priority(t, p) ==
  /\ MayCall("set_priority")
  /\ Known(t)
  /\ lists' = IF lists.in_ready_queue[t]
          THEN AddReady([RemoveReady(lists, t) EXCEPT !.priority[t] = p], t)
          ELSE [lists EXCEPT !.priority[t] = p]
  /\ IF t = current_task THEN CallSchedule ELSE UNCHANGED pc
  /\ UNCHANGED <<tcbVars, schedVars, timerVars, controlVars>>

kernel_lock_scheduler ==
  /\ MayCall("lock")
  /\ scheduler_lock_depth < LockLimit
  /\ scheduler_lock_depth' = scheduler_lock_depth + 1
  /\ UNCHANGED <<lists, tcbVars, current_task, scheduler_running, timerVars, pc, controlVars>>

(* Mutant: the counter is decremented unconditionally. *)
UnlockUnderflows ==
  /\ MayCall("lock")
  /\ scheduler_lock_depth' = scheduler_lock_depth - 1
  /\ pc' = IF scheduler_running /\ scheduler_lock_depth' = 0 THEN "sched" ELSE pc
  /\ UNCHANGED <<lists, tcbVars, current_task, scheduler_running, timerVars, controlVars>>

kernel_unlock_scheduler ==
  /\ MayCall("lock")
  /\ scheduler_lock_depth' = IF scheduler_lock_depth > 0 THEN scheduler_lock_depth - 1 ELSE 0
  /\ pc' = IF scheduler_running /\ scheduler_lock_depth' = 0 THEN "sched" ELSE pc
  /\ UNCHANGED <<lists, tcbVars, current_task, scheduler_running, timerVars, controlVars>>

(* The entry function returns: task_entry_wrapper deletes the task, calls  *)
(* kernel_schedule, and exits the process if that ever returns.            *)
TaskReturns ==
  /\ MayCall("return")
  /\ IF Known(current_task)
     THEN lists' = Cleanup(lists, current_task) /\ task_id' = [task_id EXCEPT ![current_task] = FALSE]
     ELSE UNCHANGED <<lists, task_id>>
  /\ returning' = TRUE
  /\ pc' = IF SchedulerOn THEN "sched" ELSE "exit"
  /\ UNCHANGED <<is_suspended, first_run, wake_time, schedVars, timerVars,
                 cursor, tick_from, idle_pc, handler_tick>>

KernelCall ==
  \/ \E p \in TaskPriorities : task_create(p)
  \/ \E t \in TCB : task_delete(t) \/ task_suspend(t) \/ task_resume(t)
  \/ \E ms \in SleepTimes : task_sleep(ms)
  \/ SleepRefused
  \/ task_yield
  \/ \E t \in TCB, p \in TaskPriorities : task_set_priority(t, p)
  \/ kernel_lock_scheduler \/ kernel_unlock_scheduler
  \/ TaskReturns

-----------------------------------------------------------------------------
(* The scheduler                                                           *)

Nonempty == {p \in Priorities : lists.ready_queue[p] # NULL}
HighestReady == lists.ready_queue[CHOOSE p \in Nonempty : \A q \in Nonempty : q <= p]

(* The first task.  first_run is set, and nothing clears it before the     *)
(* first task is dispatched again.                                         *)
kernel_start ==
  /\ pc = "boot"
  /\ Nonempty # {}
  /\ lists' = [RemoveReady(lists, HighestReady) EXCEPT !.state[HighestReady] = "RUNNING"]
  /\ current_task' = HighestReady
  /\ first_run' = [first_run EXCEPT ![HighestReady] = TRUE]
  /\ scheduler_running' = TRUE
  /\ pc' = "app"
  /\ UNCHANGED <<task_id, is_suspended, wake_time, scheduler_lock_depth, timerVars, controlVars>>

(* Mutant: the pending tick is not cleared. *)
EnterKeepsPending(from) ==
  /\ timer_pending' = timer_pending
  /\ tick_from' = from
  /\ cursor' = lists.blocked_list
  /\ handler_tick' = system_tick
  /\ pc' = "walk"

(* Entry to kernel_tick_handler.                                           *)
EnterTickHandler(from) ==
  /\ timer_pending' = FALSE
  /\ tick_from' = from
  /\ cursor' = lists.blocked_list
  /\ handler_tick' = system_tick
  /\ pc' = "walk"

(* kernel_schedule handles a pending tick first, under scheduler lock.     *)
SchedulePendingTick ==
  /\ pc = "sched"
  /\ timer_pending
  /\ EnterTickHandler("sched")
  /\ scheduler_lock_depth' = scheduler_lock_depth + 1
  /\ UNCHANGED <<lists, tcbVars, current_task, scheduler_running, system_tick, timer_pc,
                 returning, idle_pc>>

ScheduleNoTick ==
  /\ pc = "sched"
  /\ ~timer_pending
  /\ pc' = "pick"
  /\ UNCHANGED <<lists, tcbVars, schedVars, timerVars, controlVars>>

(* Mutant: next is read after the task was requeued. *)
VisitSkipsAfterWake ==
  /\ pc = "walk"
  /\ cursor # NULL
  /\ LET due == wake_time[cursor] <= system_tick IN
       /\ lists' = IF due THEN WakeBlocked(lists, cursor) ELSE lists
       /\ wake_time' = IF due THEN [wake_time EXCEPT ![cursor] = 0] ELSE wake_time
  /\ cursor' = lists'.next[cursor]
  /\ UNCHANGED <<task_id, is_suspended, first_run, schedVars, timerVars, pc,
                 tick_from, returning, idle_pc, handler_tick>>

(* One turn of the loop over blocked_list; system_tick is read here.       *)
VisitSleeper ==
  /\ pc = "walk"
  /\ cursor # NULL
  /\ LET due == wake_time[cursor] <= system_tick IN
       /\ lists' = IF due THEN WakeBlocked(lists, cursor) ELSE lists
       /\ wake_time' = IF due THEN [wake_time EXCEPT ![cursor] = 0] ELSE wake_time
  /\ cursor' = lists.next[cursor]
  /\ UNCHANGED <<task_id, is_suspended, first_run, schedVars, timerVars, pc,
                 tick_from, returning, idle_pc, handler_tick>>

(* The handler's own kernel_schedule: a no-op inside kernel_schedule, a    *)
(* full one when the idle loop called the handler.                         *)
FinishTickHandler ==
  /\ pc = "walk"
  /\ cursor = NULL
  /\ IF tick_from = "sched"
     THEN pc' = "pick" /\ scheduler_lock_depth' = scheduler_lock_depth - 1
     ELSE pc' = (IF SchedulerOn THEN "sched" ELSE "app") /\ UNCHANGED scheduler_lock_depth
  /\ tick_from' = "sched"
  /\ handler_tick' = 0
  /\ UNCHANGED <<lists, tcbVars, current_task, scheduler_running, timerVars,
                 cursor, returning, idle_pc>>

(* The task kernel_schedule settles on, NULL if it keeps the current one.  *)
Candidate ==
  IF Nonempty # {} THEN HighestReady
  ELSE IF lists.state[current_task] # "RUNNING" /\ lists.state[Idle] = "READY" THEN Idle
  ELSE NULL

(* kernel_schedule returns to its caller without a switch.                 *)
ReturnFromSchedule == pc' = IF returning THEN "exit" ELSE "app"

KeepCurrent ==
  /\ pc = "pick"
  /\ Candidate = NULL
  /\ ReturnFromSchedule
  /\ UNCHANGED <<lists, tcbVars, schedVars, timerVars, controlVars>>

(* "Don't switch if same task": its state stays what it was.               *)
PickSameTask ==
  /\ pc = "pick"
  /\ Candidate = current_task
  /\ lists' = RemoveReady(lists, current_task)
  /\ ReturnFromSchedule
  /\ UNCHANGED <<tcbVars, schedVars, timerVars, controlVars>>

(* A task that has not run: its entry point is called from here, and the   *)
(* task that was running is neither requeued nor marked READY.             *)
DispatchFirstRun ==
  /\ pc = "pick"
  /\ Candidate \notin {NULL, current_task}
  /\ first_run[Candidate]
  /\ lists' = [RemoveReady(lists, Candidate) EXCEPT !.state[Candidate] = "RUNNING"]
  /\ first_run' = [first_run EXCEPT ![Candidate] = FALSE]
  /\ current_task' = Candidate
  /\ pc' = "app"
  /\ returning' = FALSE
  /\ idle_pc' = IF Candidate = Idle THEN "check" ELSE idle_pc
  /\ UNCHANGED <<task_id, is_suspended, wake_time, scheduler_running, scheduler_lock_depth,
                 timerVars, cursor, tick_from, handler_tick>>

SwitchContext ==
  /\ pc = "pick"
  /\ Candidate \notin {NULL, current_task}
  /\ ~first_run[Candidate]
  /\ LET old == current_task
         m == [RemoveReady(lists, Candidate) EXCEPT !.state[Candidate] = "RUNNING"]
     IN lists' = IF lists.state[old] = "RUNNING"
             THEN IF task_id[old]
                  THEN AddReady([m EXCEPT !.state[old] = "READY"], old)
                  ELSE [m EXCEPT !.state[old] = "READY"]
             ELSE m
  /\ current_task' = Candidate
  /\ pc' = "app"
  /\ returning' = FALSE
  /\ UNCHANGED <<tcbVars, scheduler_running, scheduler_lock_depth, timerVars,
                 cursor, tick_from, idle_pc, handler_tick>>

kernel_schedule ==
  \/ SchedulePendingTick \/ ScheduleNoTick
  \/ VisitSleeper \/ FinishTickHandler
  \/ KeepCurrent \/ PickSameTask \/ DispatchFirstRun \/ SwitchContext

-----------------------------------------------------------------------------
(* idle_task_function: check timer_pending, then yield, for ever.          *)

(* Mutant: the pending tick is cleared but not handled. *)
IdleDropsTick ==
  /\ pc = "app" /\ current_task = Idle /\ idle_pc = "check"
  /\ idle_pc' = "yield"
  /\ timer_pending' = FALSE
  /\ UNCHANGED <<lists, tcbVars, schedVars, system_tick, timer_pc, tick_from, cursor,
                 handler_tick, pc, returning>>

IdleTick ==
  /\ pc = "app" /\ current_task = Idle /\ idle_pc = "check"
  /\ idle_pc' = "yield"
  /\ IF timer_pending
     THEN EnterTickHandler("idle")
     ELSE UNCHANGED <<timer_pending, tick_from, cursor, handler_tick, pc>>
  /\ UNCHANGED <<lists, tcbVars, schedVars, system_tick, timer_pc, returning>>

IdleYield ==
  /\ pc = "app" /\ current_task = Idle /\ idle_pc = "yield"
  /\ idle_pc' = "check"
  /\ Yield

IdleLoop == IdleTick \/ IdleYield

Exited == pc = "exit" /\ UNCHANGED vars

Next == TimerThread \/ KernelCall \/ kernel_start \/ kernel_schedule \/ IdleLoop \/ Exited

Spec == Init /\ [][Next]_vars

-----------------------------------------------------------------------------
(* Properties                                                              *)

(* Walking a ready queue from its head meets exactly the tasks flagged     *)
(* in_ready_queue at that priority, and walking blocked_list meets exactly *)
(* the BLOCKED tasks; the links agree in both directions.  So no sequence  *)
(* of kernel calls and ticks drops a task from a list, puts it on two, or  *)
(* leaves a dangling next or prev.                                         *)
ListsIntact ==
  /\ ListsOK(lists)
  /\ \A p \in Priorities :
       Chain(lists, lists.ready_queue[p]) =
         {t \in TCB : lists.in_ready_queue[t] /\ lists.priority[t] = p}
  /\ Chain(lists, lists.blocked_list) = {t \in TCB : lists.state[t] = "BLOCKED"}

(* kernel_tick_handler follows a saved next pointer while it relinks the   *)
(* tasks it wakes.  It still visits every sleeper: no task that is behind  *)
(* the cursor and was due when the handler began is left on blocked_list.  *)
(* (While system_tick has not wrapped.)                                    *)
NoSleeperPassedOver ==
  pc = "walk" =>
    \A t \in TCB : lists.state[t] = "BLOCKED" /\ wake_time[t] <= handler_tick
                    => t \in Chain(lists, cursor)

(* A task in state SUSPENDED has is_suspended set, whatever calls and      *)
(* wake-ups it went through; otherwise task_resume would return without    *)
(* making it READY and the task could never run again.                     *)
SuspendedCanBeResumed ==
  \A t \in TCB : lists.state[t] = "SUSPENDED" => is_suspended[t]

(* kernel_schedule may return to a task that has just blocked or suspended *)
(* itself.  With the scheduler unlocked that happens only if nothing else  *)
(* can be dispatched: every ready queue is empty and the idle task is not  *)
(* READY.                                                                  *)
BlockedTaskRunsOnlyAlone ==
  pc = "app" /\ scheduler_lock_depth = 0 /\ lists.state[current_task] \in {"BLOCKED", "SUSPENDED"}
    => Nonempty = {} /\ lists.state[Idle] # "READY"

(* No other task is dispatched while the scheduler is locked, by a task or *)
(* by kernel_schedule itself around the tick handler, although the depth   *)
(* is tested on entry and the dispatch comes several steps later.          *)
LockedSchedulerKeepsTask ==
  [][scheduler_lock_depth > 0 => UNCHANGED current_task]_vars

(* Tasks that only sleep, as the sensor and safety tasks of main.c do, are *)
(* never dropped: each is current, in a ready queue or on blocked_list.    *)
NoTaskDropped ==
  \A t \in Tasks : task_id[t] =>
    t = current_task \/ lists.in_ready_queue[t] \/ lists.state[t] = "BLOCKED"

(* What Scheduler promises, read off the lists.                            *)
Abstract == INSTANCE Scheduler WITH
  Task <- TCB,
  Priority <- Priorities,
  queue <- [p \in Priorities |-> Walk(lists, lists.ready_queue[p])],
  sleeping <- {t \in TCB : lists.state[t] = "BLOCKED"},
  current <- current_task

(* The pointer-level scheduler implements the abstract one: whatever calls *)
(* tasks make and however the timer thread interleaves, tasks of a         *)
(* priority are dispatched first come, first served, a dispatch takes the  *)
(* highest waiting priority, only a dispatched task goes to sleep, and     *)
(* every other step leaves queues and sleepers alone.                      *)
AbstractScheduler == Abstract!Spec

(* Tasks call the kernel again and again, the timer thread keeps running   *)
(* (to TickLimit), and kernel code does not stop half way.                 *)
Fairness ==
  /\ WF_vars(TimerThread)
  /\ WF_vars(kernel_start)
  /\ WF_vars(kernel_schedule)
  /\ WF_vars(IdleLoop)
  /\ WF_vars(\E ms \in SleepTimes : task_sleep(ms))

FairSpec == Spec /\ Fairness

(* A task whose sleep is over is taken off blocked_list, although ticks    *)
(* are only handled when some task enters the kernel: unless a task runs   *)
(* in a state other than RUNNING, which task_sleep refuses for ever.       *)
SleepersWake ==
  [](pc = "app" /\ current_task # Idle => lists.state[current_task] = "RUNNING")
  => \A t \in TCB :
       (lists.state[t] = "BLOCKED" /\ wake_time[t] <= system_tick)
         ~> lists.state[t] # "BLOCKED"

=============================================================================
