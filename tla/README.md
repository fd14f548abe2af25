# AeroRTOS in TLA+

A verification development for AeroRTOS: TLA+ models of the real-time kernel and
of the services around it, TLC configurations that check them on small instances,
and TLAPS proofs of what must hold for any number of tasks and priorities.

## 1. The system

AeroRTOS is a drone flight-controller simulator with its own kernel. One process
runs on a host OS with **two threads that matter** (until the user stops it): the
*main thread*, which runs `main()`, the kernel and the code of every task (tasks are
coroutines switched with `setjmp`/`longjmp`), and the *timer thread* of `kernel/rtos_port.c`, which
every millisecond increments `system_tick` and sets `timer_pending`. Nothing
interrupts a task: a tick is *handled* only when the main thread enters
`kernel_schedule` or when the idle loop sees `timer_pending`.

### Inventory

| Component | State | Operations | What makes it correct |
|---|---|---|---|
| Task scheduler (`kernel/rtos_kernel.c`) | task control blocks, one ready queue per priority, `blocked_list`, `current_task`, lock depth | create, delete, suspend, resume, sleep, yield, set_priority, lock/unlock, `kernel_schedule`, tick handler, idle loop | lists never corrupted, no task dropped or passed over, FIFO within a priority, lock respected, sleepers wake |
| Timer thread (`kernel/rtos_port.c`) | `system_tick`, `timer_pending` | increment, set pending | ticks are never needed more often than they are seen |
| Semaphores (`rtos_semaphore.c`) | count, maximum, waiting list | create, delete, take (with timeout), give | count within bounds, no lost wake-up, time-outs fire |
| Mutexes (`rtos_mutex.c`) | owner, lock count, saved priority, waiting list | create, delete, lock, unlock | mutual exclusion, recursion, priority inheritance and its undoing |
| Queues (`rtos_queue.c`) | ring buffer, two waiting lists | create, delete, send, receive | bounded FIFO, no lost wake-up |
| Waiting nodes (`rtos_kernel.c`) | a pool shared by all waiting lists | allocate, free | no node leaked or shared |
| Software timers (`rtos_timer.c`) | period, remaining, active flag | create, delete, start, stop, reset, the walk in the tick handler | each run of the handler counts once, none expires early, callbacks may change timers |
| Watchdog (`safety/watchdog.c`) | per-task last kick, miss counts, state | register, kick, update | a task that stops kicking is noticed, one that resumes recovers |
| Failsafe (`safety/failsafe_actions.c`) | the active trigger and its action, counters | trigger, update, reset, recover, the checks | one failsafe at a time, the first trigger stays, one action for each |
| Health monitor (`safety/health_monitor.c`) | per-sensor health, status | sensor updates, check | status follows the sensors |
| MAVLink (`communication/mavlink.c`, `mavlink_udp.c`) | sequence number, last send, the UDP socket | telemetry update, build, send, clean-up by two threads | a second has at most one heartbeat and silences are bounded, losses can be counted, a clean-up is final |
| Deadline analyzer (`profiling/deadline_analyzer.c`) | an entry per task, a ring of samples, totals | register, track, update, stop | totals, averages, slack and samples agree with the turns reported |
| CPU and memory profilers (`profiling/`) | per-task statistics | register, update | display only |
| Flight tasks (`main.c`) | motor outputs, battery, mission state in globals | sensor, estimator, control, telemetry, GCS, watchdog, performance, safety, navigation tasks | the monitor misses no silent task, a failsafe keeps the motors, no task it pauses causes the next |
| Mathematics (`ekf.c`, `cascaded_pid.c`, `motor_mixer.c`) | matrices and gains | numeric | not a subject for TLC |

**Interaction.** Tasks call the kernel directly. `task_create`, `task_sleep` and
the other calls change a list and then call `kernel_schedule`; that may run the
tick handler (under the scheduler lock), which moves sleepers to ready queues,
runs timer callbacks and counts execution time, and then dispatches the head of
the highest ready queue. Semaphores, mutexes and queues set the caller BLOCKED,
put it on a waiting list of their own, and call `kernel_schedule`; the wake-up is
done by the task that gives, unlocks, sends or receives. The flight tasks pace
themselves with `task_sleep`; sensor data start the estimator, which starts
control and navigation, through semaphores that these take with time-outs of 10,
5 and 100 ms (`main.c:218`, `:296`, `:754`). They send and receive on queues and
give semaphores without waiting. Each task kicks the watchdog in its loop; the
watchdog task turns a critical alarm into a failsafe, the safety task checks the
limits and may trigger one too, and control and navigation ask in every turn
whether a failsafe is active. They report their execution times to the deadline
analyzer. When the user stops the program, the console handler runs on an OS thread
of its own beside the other two: it stops the services, closes the socket that the
telemetry task is using, prints the reports and exits.

**What is hard.** The timer thread writes two words without a lock at any point
of the kernel. The tick handler unlinks list elements while it walks the list.
One pair of link fields serves all lists. A task is dispatched for the first time
by an ordinary call, which treats the replaced task differently from a switch.
Calls set the caller's state first and schedule later, and may return without a
switch. `PROJECT.json` lists each hazard at its line with the property that
covers it.

## 2. Plan

| Step | Modules | Runs | Theorems |
|---|---|---|---|
| 1 (done) | `TaskLists`, `Kernel`, abstract `Scheduler`, `MCKernel` | `kernel_*` | list integrity, type, lock, suspension; `Kernel` implements `Scheduler` |
| 2 (done) | `Waiting`, `Semaphore`, `Mutex`, `Queue`, abstract `BoundedFifo` | `semaphore*`, `mutex`, `queue` | mutual exclusion; the ring buffer implements the FIFO |
| 3 (done) | `Ticks`, `Watchdog`, `Failsafe`, `Health`, and `Flight`, which composes them with the task loops | `watchdog`, `flight` | one action per failsafe, not early, first trigger stays |
| 4 (done) | `Timers` over `Kernel`; `ContextSwitch` | `timers`, `context_switch` | ticks counted once, timers not early, `Kernel`'s results hold with timers |
| 5 (done) | `Telemetry`, `DeadlineAnalyzer` | `telemetry`, `profiling` | a clean-up is final; averages bounded, no division by zero |
| 6 (done) | proofs about what was only model-checked | | every safety property of the passing runs; `LockersWait` for tasks of one priority that do not sleep |
| 7 (next) | `Semaphore`, `Queue` | their runs | `AllWait` of their waiting lists, from the same invariant as `LockersWait` |

The modules that are proved about declare nothing RECURSIVE; sums and folds are those
of the community modules.

## 3. The modules

**`TaskLists`** translates the list code pointer by pointer: `AddReady` is
`kernel_add_to_ready_queue`, `RemoveReady` `kernel_remove_from_ready_queue`,
`PushBlocked` and `WakeBlocked` the insertion in `task_sleep` and the removal in
the tick handler, `Cleanup` `kernel_cleanup_task`. They take and return the record
of list fields, so that a corrupted list would be corrupted here in the same way.
`Chain` is the set of tasks a walk along `next` meets, `Walk` the sequence of them.

**`Kernel`** is the scheduler as two interleaved processes. `pc` says where the
main thread is; a step is a stretch of code that reads what the timer thread
writes at most once. `kernel_schedule` is split at its reads: the test of
`timer_pending` (`SchedulePendingTick`, `ScheduleNoTick`), each turn of the tick
handler's loop (`VisitSleeper`, which reads `system_tick`), the handler's end, and
the choice and dispatch of a task (`KeepCurrent`, `PickSameTask`,
`DispatchFirstRun`, `SwitchContext`), which run without reading either word.
The timer thread has two steps, because it writes two words. The context switch
is modelled by its purpose: after a dispatch the main thread runs the dispatched
task. `task_id` is only "nonzero or not", because ids never repeat; `Calls` says
which kernel calls tasks make in an instance.

**`Scheduler`** is what the kernel promises, without pointers: a FIFO queue per
priority, a set of sleepers, one dispatched task. `Kernel` instantiates it with the
walks of its ready queues (`AbstractScheduler`): every step of `Kernel` is a step of
`Scheduler` or changes nothing in it. Tasks enter queues at the end; a dispatch takes the
head of the highest queue that has one; who is suspended or deleted leaves the others
in order.

**`Waiting`** extends `Kernel` with what the three kinds of kernel objects share:
waiting lists as sequences of tasks, the pool of nodes as the number in use, and
the blocking itself. `Block` is the part of a call up to `kernel_schedule`;
`resume[t]` is what task `t` does when it is dispatched again, which is how a call
that blocks in the middle continues. `WakeFirst` is the wake-up that give, unlock,
send and receive repeat. A first-run dispatch can enter a task's function anew
while it is inside a blocking call (`kernel_start` sets `first_run`), a task can be
deleted inside one (`CallCutShort`), and a task's own code can run on while a node of a
waiting list still names it (`RunsWaiting`). The history variable `abandoned` says that
one of these has happened, and properties about the tasks inside a call are stated
until then.

**`Semaphore`**, **`Mutex`**, **`Queue`** are the three files, each function in two
parts where it blocks: up to the block (`semaphore_take`) and after it
(`TakeResumes`). `Mutex` carries the history `holds`, the locks each task has been
granted and not released.
`Queue` keeps `buffer`, `head`, `tail` and `item_count` as the code does;
**`BoundedFifo`** is a sequence with a capacity, and `Contents` maps one to the
other. Calls that are refused before they change anything are left out.

**`Ticks`** holds the subtraction of 32-bit ticks. **`Watchdog`** and **`Failsafe`**
and **`Health`** translate `safety/watchdog.c`, `safety/failsafe_actions.c` and
`safety/health_monitor.c` function by function: an operator takes the record of the
file's globals and returns the new one. `Watchdog` also has a machine that makes
every call at any time, with the true silence of each task as history. **`Flight`**
composes the three as `main.c` does: a turn of a task's loop is a step, since
tasks switch only in kernel calls, and control's turn is two, since it gives a
semaphore between writing the motors and its kick. Which task runs next and how late is left
open, and so is whether a task gets its semaphore, so that the schedules of the
kernel are among those of `Flight`, with one exception: a `task_sleep` of a
task that is not in state RUNNING does nothing (`rtos_kernel.c:831`), and the watchdog
task would run its next turn at once; in `Flight` it always sleeps (`monitor_wake`). One tick of `Flight` is a second. Nothing in
`main.c` ends a failsafe: the calls for it are those of an operator, and are
possible at any time. `FlightAssumption` says what `main.c` sees to: the registered
tasks fit in the watchdog's table, and the monitor sleeps at least as long as the
interval of its checks (both are 100 ms). Facts to know when reading it:

- `failsafe_actions_trigger` executes the action at once; the configured delay only
  becomes `action_duration_ms` (`failsafe_actions.c:251`).
- The checks of GPS, RC, communication and sensors are called with the current tick
  (`main.c:658`), so they never trigger.
- `failsafe_throttle` is a static that is never set back: a second failsafe starts
  at the level where the first one ended.
- The motor outputs are taken as one level, that of the fastest. What the controller
  gives them is not computed, it is any of `ControllerLevels`. A failsafe sets them to
  its throttle whatever they were (`main.c:314-322`): from motors that are off, or from
  low outputs of the controller, its first turn speeds them up, to 0.499 at most.
  `FailsafeKeepsMotors` says so. It forbids the controller's outputs while a
  failsafe is active, a take-over at the starting throttle of 0.5 or above, and any rise
  between the turns of failsafes.
- `watchdog_monitor_task` kicks, but no entry is registered for it.
- `Health` stays as `health_monitor_init` left it, see section 4.

**`Timers`** extends `Kernel` with `kernel/rtos_timer.c` and the second walk of
`kernel_tick_handler`, which comes after that over `blocked_list`: `Walking` holds
where the first is over. `VisitTimer` is a turn of the loop; when the timer expires,
`in_callback` says that application code runs, which may make any timer call and ends
with `CallbackReturns`. The histories `handled` and `started` count the runs of the
handler and note when each running timer was loaded. A timer call with id 0, the id of
a free slot, succeeds on the first free slot, as in the code. Callbacks that make
scheduling calls from inside the handler are left out.

**`Telemetry`** is the telemetry task and the console handler as two threads with
labels in `pc`. The main thread's steps are the turn (`Loop`), the gate and the choice
of frames (`mavlink_telemetry_update`), each frame (`mavlink_build_message`), the test
of the socket (`mavlink_udp_send`) and its use (`Sendto`), and the sleep; each thread
goes through `mavlink_udp_cleanup` in four steps. A frame is its sequence byte; the
socket loses any datagram without notice. A sleep ends at once when `wake_time` has
wrapped and `system_tick` has not, as `rtos_kernel.c:535` has it; and a `wake_time`
close below the wrap can be missed by a handler that is a tick late, after which the
task sleeps until `system_tick` has come round again (`MissWakeUp`, counted in `missed`). A heartbeat goes out
when the tick is in the first interval of a second, so at the wrap of the tick a second
is cut short: `TelemetryAssumption` says that what is left of it holds an interval
(2^32 % 1000 is 296, the interval 100). With less, TLC finds a silence longer than
`SilenceBounded` allows.

**`DeadlineAnalyzer`** is the file's functions over its globals, called as `main.c`
calls them: `turn` is the task that runs with its next call. Control and PerfMonitor
report execution and deadline, Telemetry stands for the tasks that report the execution
only. `log` is the history of all turns that were tracked; the properties recount it
(`MissedTurns`, `MetTurns`). Facts to know:

- The tasks are registered before they get a deadline (`main.c:908-935`), so their
  periods are 0; PerfMonitor registers itself a second time, with a period, and every
  search finds its first entry. The schedulability test therefore sums nothing and says
  yes, whatever the tasks take: see section 4.
- `avg_slack` is the average of unsigned differences, meaningless after a miss; no
  property is about it.
- A sample of a task that does not judge its turns keeps, once the history rotates, the
  mark of the sample that stood in its place.

**`ContextSwitch`** takes `setjmp` and `longjmp` literally: `stack` says whose code each
frame of the C stack runs, a context is the place of a frame of `kernel_schedule` or
dead. Which READY task is chosen is open.

Most modules define a type invariant (`...TypeOK`). Where a proof uses it or its bounds
can fail (`TypeOK`, `SemTypeOK`), a run checks it; the others only document the
variables.

## 4. The runs

| Run | Instance | Shows |
|---|---|---|
| `kernel_api` | 2 slots, 2 priorities, all calls of the scheduler on any task, 1 tick | `ListsIntact`, `SuspendedCanBeResumed`, `BlockedTaskRunsOnlyAlone`, and that `Kernel` implements `Scheduler` |
| `kernel_sleep` | 3 tasks that only sleep (1 or 2 ms), 2 ticks, fairness | no sleeper dropped or passed over, and every due sleeper is woken |
| `timers` | 1 task that sleeps, locks and makes timer calls; 2 slots for timers, periodic of 1 tick and one-shot of 3; 3 ticks | no tick is handled twice, every handled tick counts, no timer expires early, starts are kept; the lock counter does not underflow and no task is dispatched while it is positive |
| `semaphore` | 3 tasks of 2 priorities; take with and without time-out, give, yield, create, delete; 1 tick | the count stays in its bounds though it is tested again after a wait, no waiter is left while there is a count |
| `mutex` | 3 tasks; lock, unlock, yield, suspend, resume, create, delete; recursion to 2, 2 nodes, 1 tick | mutual exclusion, owners that know, waiting lists hold lockers only |
| `queue` | 3 tasks, 2 kinds of items, capacity 2, 2 nodes, 1 tick | `Queue` implements `BoundedFifo`, every item and every free place wakes somebody |
| `watchdog` | 2 tasks, one critical, tick modulo 4, any order of calls | nobody is accused wrongly, every check tells the truth about the silence of each task across the wrap, states fit the missed kicks, unregistering hurts nobody else |
| `flight` | control, estimator and navigation registered (time-outs 1, 2, 2), 3 ticks, outputs of the controller off or full, one failsafe ended by an operator | the monitor catches every silent critical task and only those, one failsafe at a time with one action, a low battery lands; the controller does not get the motors back from a failsafe, which only slows them down once it has them |
| `telemetry` | interval 5, second 20, turns late by 0 or 1, tick modulo 67, sequence modulo 3, up to 2 wake-ups missed in a row | at most one heartbeat a second, a bound on the time between two, gaps in the sequence are the losses, nothing is sent after a clean-up |
| `profiling` | 5 turns of 0, 1 or 3 ticks, deadlines 1 and 2, history of 2, 4 entries | totals, averages, worst slack and samples agree with the turns |
| `semaphore_timeout` | violation | a wait with a time-out is not ended by it, against `rtos_kernel.c:531`: blocked tasks of semaphores, mutexes and queues are never on `blocked_list` |
| `context_switch` | violation | a task's code runs in the name of another, against `rtos_kernel.c:299`: a first-run dispatch saves no context, and contexts name frames of one stack |

**Disagreements with the documentation that no run is spent on.**

- The kernel calls itself preemptive (`README.md:21`), but `kernel_schedule` compares
  READY tasks only with each other: a call that makes a low-priority task READY gives it
  the processor, and a caller that was replaced on a first-run dispatch is in no queue.
- `kernel_schedule` can return to a task that has just blocked itself, when there is
  nobody to dispatch (`rtos_kernel.c:249`); `BlockedTaskRunsOnlyAlone` says that this is
  the only case.
- Priority inheritance (`rtos_mutex.c:154`) writes the owner's priority while the owner
  may stand in the ready queue of its old one, so that `kernel_schedule`, which wants the
  "highest priority ready task" (`rtos_kernel.c:229`), can pick one that is not READY.
- `mutex_unlock` wants to "Restore original priority" (`rtos_mutex.c:206`), which may be
  a priority the task had itself inherited when it took the mutex (line 142).
- The estimator wants to "Update health monitor with sensor status" (`main.c:241`), but
  every update tests `g_health_initialized` (`health_monitor.c:118`), while
  `health_monitor_init` sets the field `g_health.initialized` (line 41): the status stays
  OK for ever.
- `mavlink_update` refreshes `last_heartbeat` before it tests the time-out
  (`mavlink.c:114`); nobody calls it.
- The heartbeat is meant to go out "every 1 second" (`mavlink.c:444`). It goes out in a
  turn whose tick lies in the first interval of a second, and turns are an interval or
  more apart: when they drift, as sleeps that end a tick late make them, one turn falls
  just before a second and the next behind its first interval, and that second has no
  heartbeat. `SilenceBounded` says how long it can take until the next one.
- The analysis is meant to find whether the system is schedulable, "utilization <= 1.0
  for EDF" (`deadline_analyzer.c:86`), and to "Update statistics and check
  schedulability" (line 57); the performance task warns by it that the "System is NOT
  schedulable!" (`main.c:581`). No entry that is given turns has a period (`main.c:913`, `:554`,
  `deadline_analyzer.c:69` and `:146`), so that the sum is 0: once it has run, the verdict is
  yes and stays yes, also if a task takes longer than its period in every turn.
- A wake-up sets `blocked_list` to NULL when its task is not on it and heads it by its
  links (`rtos_semaphore.c:196`): the sleepers are lost.

**Bounds.** Three TCBs (two tasks and idle) are enough for every shape of a list
operation: empty list, one element, first, middle and last of three elements (all
tasks and idle share priority 0 in `kernel_api`). `TickLimit` stops the timer
thread after one or two ticks; one tick can fall at every point of every call,
two let a tick arrive during the handling of the one before. `TickModulus` stands
for 2^32 and is not reached in the runs of `Kernel`; what the wrap does to a task that
paces itself with sleeps is checked in `telemetry`. `LockLimit` bounds the nesting tasks take; the kernel adds one.

With three tasks one can own or give while two wait, which needs both waiting nodes;
the third waiter then finds the pool empty. Capacity 2 lets the ring wrap while it is
partly full; recursion to 2 tells a release from a hand-over. The runs of `mutex` and
`queue` have one priority, so that inheritance does not reach the state where the
lists are already broken (see above); `semaphore` has two. These
three runs leave out `task_sleep` and `task_delete`: a wake-up clears `blocked_list`
when its task is not on it (`rtos_semaphore.c:196`), a task that cannot be replaced
returns from `kernel_schedule` still waiting (`rtos_kernel.c:249`), and a deleted task's nodes
name a slot that is used again, each of which breaks what the waiting lists hold
(`LockersWait`). They are listed as hazards. No state of these three runs satisfies
`RunsWaiting`, so that `abandoned` means there what its first two causes say; the proofs
of section 5 are for all calls.

In `watchdog` the tick has 4 values and the time-out is 2, so that a silence can be
below, at and above the time-out, can wrap, and can last a whole wrap. Missed kicks are
counted to 3, where the code stops looking. In `flight` three ticks are enough for
every registered task to become late, for the longest delay that a reachable trigger has,
and for a second failsafe after the first was ended. One limit at a time, together
with the battery, is exceeded in a turn of the safety task, and one sensor at a time is unhealthy.
`FullLevel` is full throttle, `StartLevel` and `FloorLevel` are the ends of
`failsafe_throttle`, with one level between them; outputs of the controller at 0 and at full
throttle (`ControllerLevels`) lie below and above these, so that a take-over can raise
and lower the motors. The theorems are for any such outputs.
The sensor task is the one that only kicks; it has no entry in this instance, and the
others' kicks are what matters there.

In `timers` one application task and idle are enough: timers do not depend on who runs.
Two slots let a callback change a timer before and behind the walk, a one-shot of 3
ticks can be started with one tick pending and one counted, and 3 ticks let it expire.
In `telemetry` the numbers keep the proportions that matter: an interval divides a
second into four turns, four turns that are late by one each stay below an interval
(with lateness of an interval a second there is no bound, and the premise of
`SilenceBounded` says so), and 67 leaves 7 ticks of a last second, more than an interval,
as 2^32 ticks of 1 ms leave 296. `MaxMissed` bounds the wake-ups that are missed one
after the other: each is a whole wrap of the tick after which everything is as before
but for the length of the silence, so that two show what more would.
In `profiling` a task can meet its deadline with slack and without, and miss it; five
turns rotate the history and let PerfMonitor analyse twice; the averages need products
below 32, the `Modulus`, as 2^32 is above the products of years of real turns.

**Fairness** (`FairSpec`): the timer thread, the scheduler's code and the idle loop
do not stop half way (the host OS runs both threads), and tasks call `task_sleep`
again and again, as the loops of the sensor and safety tasks do. `SleepersWake` is stated under the
premise that tasks execute in state RUNNING: the kernel can return to a task in
state READY or BLOCKED (`rtos_kernel.c:250` and `:258`), `task_sleep` refuses such
a task for ever, and then nothing handles ticks any more.

## 5. What is proved

The theorems hold for every value of the constants that the named assumptions of the
modules allow; TLC evaluates these in every run. Further hypotheses are in the statement
of a theorem and are named here. Each proof about states has an inductive
invariant, named with it.

**`KernelProofs`**, for any number of tasks, priorities and ticks, and any set of calls:

- `TypeCorrect`: `TypeOK`;
- `ListsStayIntact`: `ListsIntact`, that walking each list from its head meets
  exactly the tasks whose state and flags put them on it;
- `ResumeAlwaysPossible`: `SuspendedCanBeResumed`;
- `LockRespected`: `LockedSchedulerKeepsTask`;
- `BlockedTasksYield`: `BlockedTaskRunsOnlyAlone`;
- `HandlerReachesSleepers`: `NoSleeperPassedOver`, while `TickLimit < TickModulus`: the
  property compares a wake-up time with the tick at which the handler began, which says
  nothing across a wrap;
- `SleepersNotDropped`: `NoTaskDropped`, for `Calls \subseteq {"sleep"}`. With the other
  calls it is false: a task replaced in `task_create` is in no list (section 4);
- `SchedulerImplemented`: `AbstractScheduler`, the refinement of `Scheduler`.

The inductive invariant `IInv` is `TypeOK`, `SuspendedCanBeResumed`, `WellFormed(lists)`,
`SlotsOK` and `PhaseOK`. `ListsIntact` alone is not inductive: its links could close a
cycle that no walk from a head meets. `WellFormed` therefore demands the links to be
`Acyclic`, that tasks can be ranked such that the rank grows along `next`. Every list
operation preserves it, and walks in a well-formed structure meet exactly the members
(`WalksMeetMembers`). `SlotsOK` says which slots are in use, `PhaseOK` ties `pc` to the
cursor, the tick handler's caller and the lock depth; `LockRespected` follows from it
because `pick` is only reached with depth 0. For `HandlerReachesSleepers` a turn of the
walk goes to the successor of the element that it unlinks, which it has read before
(`ChainStep`). For `SleepersNotDropped`, a task that only sleeps
enters `kernel_schedule` listed, whatever is dispatched in its place (`EntersListed`).

The refinement rests on two things. In a well-formed structure a walk from each head
exists and is the only one, because it cannot come back to a task; and each list
operation has one effect on the walks: `AddReady` appends a task to the queue of its
priority or does nothing, `RemoveReady` takes it out, the rest leaves them alone. With
these each action of `Kernel` is a step of `Scheduler` or a stutter (the `...Implements`
lemmas, one for each).

**Blocking calls** do more than the scheduler's own: a wake-up unlinks a task from
`blocked_list` that is not on it, and priority inheritance changes the priority of a
queued task, so `IInv` is not kept by `Semaphore`, `Mutex` and `Queue`. What these
modules keep without it is in the second half of `KernelProofs`: `Sane`, the types
alone, and `WaitersOK`, that until a call is `abandoned` the tasks of a waiting list are
inside the call that waits there, each in one node, and none of them runs. `SpokenFor`
counts those who were woken and have yet to go on.

- `SemaphoreProofs`: `SemTypeCorrect` (`SemTypeOK`: the count stays between 0 and its
  maximum) and `GivesNotLost` (`NoLostGive`). `SemIInv` has `GivesCovered`: while tasks
  wait, as many were woken and have yet to test the count as the count says.
- `MutexProofs`: `MutualExclusionHolds`, `OwnersKnow` (`OwnerKnows`) and
  `MutexTypeCorrect`, for recursive locks of any depth, with task deletion and priority
  inheritance. `MInv` adds to mutual exclusion that an owned mutex is locked
  (`OwnedIsLocked`) and that a task to which `mutex_unlock` has handed the mutex, and
  which has not yet returned from `mutex_lock`, holds no lock of it while the count is 1
  (`HandedOver`); without the last, the grant when it returns could exceed the count.
  `Owned` adds what the owner can know.
  `LockersStayBlocked` (`LockersWait`) has the hypotheses of the run: `OnePriority`, and
  `Patient`, that tasks do not call `task_sleep`, `task_delete` or the scheduler lock.
  That waiters are inside their call and each once is part of `WaitersOK`; that they are
  BLOCKED needs intact ready queues, since a broken one may lead to any task. `Orderly`
  adds that (`Tidy`, the last part of `KernelProofs`): the lists are well formed with
  the BLOCKED tasks read as SUSPENDED, as those are on no list either (`Asleep`), so that
  the lemmas about list operations carry over; the task that runs is in no queue; and
  unlinking a waiter, which has no links, changes nothing (`NothingToUnlink`). With one
  priority inheritance changes nothing (`PriorityStays`).
- `QueueProofs`: `QueueIsFifo`, that every step of `Queue` is a step of `BoundedFifo` on
  `Contents` or leaves it alone, and `MessagesNotLost` (`NoLostMessage`). `Ring` ties
  `head`, `tail` and `item_count` together modulo the capacity; `MessagesCovered` is
  `SpokenFor` for the items and for the free places.

**`TimersProofs`**: `TimersKeepKernel`, that every step of `Timers` is one of `Kernel`
or leaves it alone, with which the results about `Kernel` carry over
(`LockRespectedWithTimers`, `KernelTypedWithTimers`), and for any number of timers, any
periods and any callbacks `NoTickTwice`, `TimersCountEveryTick`, `TimersNotTooEarly` and
`StartsStay` (`StartsAreKept`). The inductive invariant `TimersIInv` ties the handler's
runs to the ticks (`TicksHandledOnce` needs the two words of the timer thread in it),
what is gone of each period to the runs since the timer was loaded, and the ticks since
then to those runs.

**`FlightProofs`**, first of `Watchdog` alone, for any tasks, time-outs and order of
calls: `WatchdogTypeCorrect`, `NobodyAccusedWrongly` (`NoFalseTimeout`), `StatesFit`
(`StateFitsMisses`), `OthersKept` (`UnregisterKeepsOthers`) and `ChecksTellTruth`
(`CheckTellsTruth`). By `WatchdogIInv` the table holds each task at most once, each entry
tells the silence of its task up to the wrap of the tick (`Counts`), and whoever has a
miss or a lost state counted against it was met late (`Fair`). Then of `Flight`, for any set of
registered tasks, any time-outs and any number of ended failsafes: `OneAction`,
`NotEarly`, `FirstStays`, `AlarmsHaveCause`, `MonitorMissesNone` (`MonitorCatches`),
`LowBatteryIsFirst` (`LowBatteryLands`), `MotorsHeld` (`FailsafeKeepsMotors`) and
`FlightTypeCorrect` (`FlightTypeOK`). The lemma `FlightSteps` sums up what a step can do to the failsafe:
leave it or trigger it once (`MayTrigger`; `ChecksTriggerOnce` composes the nine checks
of the safety task), note that its duration is over, or end it. `FlightIInv` says that a
failsafe has not started in the future (`FlightInv`), that the watchdog runs with the
tasks `system_init` registered (`Watched`), that a check is due whenever the monitor
wakes (`Punctual`), and that the motors follow the failsafe's throttle (`Obeyed`). `Histories` adds what the
types say of the cause of an alarm, of the ended failsafes and of control's place. The
assumption `TickLimit < TickModulus` makes elapsed times differences.

**`TelemetryProofs`**: `ShutdownIsFinal` (where a thread stands in the clean-up says what
is still open, and `Sendto` after the test meets a closed or forgotten socket),
`LossesCounted` (`GapsCountLosses`), `BeatsApart` (`OneBeatPerSecond`), `SilencesBounded`
(`SilenceBounded`) and `TelemetryTypeCorrect`. The argument about time puts the tick
between the start of its second and the next: since the last heartbeat the tick is in the
same first interval, or before the next, or in the next with the gate of
`mavlink_telemetry_update` open, also where the second is the last before the wrap (`Pace`).
A missed wake-up leaves all this as it is and makes the silence a wrap longer.

**`DeadlineAnalyzerProofs`**: `AveragesBounded`, `NeverDividesByZero`,
`HistoryKeepsLatest` (`HistoryIsLatest`), `TotalsAreExact` (`TotalsExact`),
and `WorstSlackIsMet` (`WorstSlackIsOfMetTurns`).
Of an entry `AnalyzerIInv` says that its average is between shortest and longest time
(the division of a sum between two multiples), that it is counted at most as often as
`log` is long, which keeps the product below 2^32, and that the entry a task finds was
counted before the task judges a turn. `Layout` fixes who has which entry, `Pending` which turn
can still be without its judgement, `Latest` which turn each sample is of, `Counted` that
the sums over the entries are those over the `log`, and `Slacks` that the worst slack is
a lower bound that some turn has reached.

Sums over functions and folds are reasoned about by induction on finite sets, stated of a
set of numbers and not of an operator; what the community modules' folds compute follows
from their recursive functions.

**Only model-checked:**

- `SleepersWake`: liveness under fairness, which the proof system does not cover.
- `LockersWait` outside the hypotheses of `LockersStayBlocked`, where the lists can
  break; there only what `WaitersOK` says of the waiters is proved.
- The two violations.

## 6. What is not modelled

- The behaviour after a `longjmp` into a dead frame: it is undefined, and
  `ContextSwitch` ends there. `Kernel` takes a switch for what it is meant to do.
- `mavlink_parse_message` and the handling of parsed commands: no socket is read. The GCS
  task gives a fixed list of commands to `gcs_process_command`, whose state only that
  task reads. The bytes of frames; the layout that is built differs from the one
  the parser expects, but they never meet.
- `mavlink_update`, `deadline_analyzer_reset`, `deadline_analyzer_unregister_task` and
  others without callers, `watchdog_set_global_timeout`, recovery callbacks (NULL
  everywhere).
- Deadlines and execution times in the tick handler, CPU usage, the CPU and memory
  profilers, counters for display, logs and reports.
- The rest of the console handler, which stops services that are modelled each on its
  own and ends the process.
- Timer callbacks that make scheduling calls; no timer is created by `main.c`.
- TERMINATE and the other actions that no trigger of the default configuration has.
- Estimation, control and mixing: floating-point code without discrete state.
