---------------------------- MODULE TimersProofs ----------------------------
(***************************************************************************)
(* Theorems about Timers, for any number of tasks, timers and periods.     *)
(* Every step is a step of Kernel or leaves it alone, so that the theorems *)
(* of KernelProofs hold with timers and their callbacks.  TimersIInv       *)
(* relates what a timer has counted to the ticks that have passed.         *)
(***************************************************************************)
EXTENDS Timers, KernelProofs

(* system_tick does not wrap.                                              *)
NoWrap == TickLimit < TickModulus

InFlight == (IF timer_pending THEN 1 ELSE 0) + (IF timer_pc = "set" THEN 1 ELSE 0)

Running(i) == timers[i].is_active /\ timers[i].timer_id # 0

(* A timer in use has a period, and while it runs something left to count. *)
SlotOK(t) ==
  /\ t.timer_id # 0 => t.period # 0
  /\ t.timer_id # 0 /\ t.is_active => t.remaining # 0

(* Since a running timer was loaded, the handler has run at most once for  *)
(* each tick and for the two that were on their way.                       *)
RunsHaveTicks ==
  \A i \in Slots : Running(i) =>
    handled - started[i].run + InFlight <= system_tick - started[i].tick + 2

TimersIInv ==
  /\ TypeOK /\ TimersTypeOK
  /\ \A i \in Slots : SlotOK(timers[i])
  /\ TicksHandledOnce
  /\ EveryTickCounts
  /\ RunsHaveTicks

-----------------------------------------------------------------------------
LEMMA StepsAreKernelSteps == [TimersNext]_timersVars => [Next]_vars
<1>1. TimerCall => UNCHANGED vars
  BY DEF TimerCall, timer_create, timer_delete, timer_start, timer_stop, timer_reset
<1>2. VisitTimer \/ CallbackReturns => UNCHANGED vars
  BY DEF VisitTimer, CallbackReturns
<1>3. FinishTimers \/ EnterHandler \/ OtherKernelStep => Next
  BY DEF FinishTimers, EnterHandler, OtherKernelStep, Next, kernel_schedule, IdleLoop
<1>4. UNCHANGED timersVars => UNCHANGED vars
  BY DEF timersVars
<1> QED
  BY <1>1, <1>2, <1>3, <1>4 DEF TimersNext

(* The timers and their callbacks change nothing that the scheduler's      *)
(* specification allows to be seen.                                        *)
THEOREM TimersKeepKernel == TimersSpec => Spec
  BY StepsAreKernelSteps, PTL DEF TimersSpec, TimersInit, Spec

(* The lock still keeps the running task where callbacks make timer calls  *)
(* under it.                                                               *)
THEOREM LockRespectedWithTimers == TimersSpec => LockedSchedulerKeepsTask
  BY TimersKeepKernel, LockRespected, PTL

(* Type correctness of the kernel's state under timer calls.               *)
THEOREM KernelTypedWithTimers == TimersSpec => []TypeOK
  BY TimersKeepKernel, TypeCorrect, PTL

-----------------------------------------------------------------------------
LEMMA FirstSlotIsSlot ==
  ASSUME NEW id, HasSlot(id)
  PROVE  FirstSlot(id) \in Slots /\ timers[FirstSlot(id)].timer_id = id
<1> DEFINE same == {i \in Slots : timers[i].timer_id = id}
<1>1. \E i \in same : \A j \in same : i <= j
  <2>1. same \in SUBSET Nat /\ same # {}
    BY TimersAssumption DEF Slots, HasSlot
  <2> HIDE DEF same
  <2> QED BY <2>1, LeastNat
<1>2. \E i \in Slots : timers[i].timer_id = id /\ \A j \in Slots : timers[j].timer_id = id => i <= j
  BY <1>1
<1> QED
  BY <1>2 DEF FirstSlot

(* What a call or the walk relies on in the array timers.                  *)
TimerSlotsOK ==
  /\ timers \in [Slots -> TimerControlBlock]
  /\ timer_counter \in 0 .. CreateLimit
  /\ \A i \in Slots : SlotOK(timers[i]) /\ timers[i].remaining <= timers[i].period

(* Every timer call replaces one slot, and leaves it either not running or *)
(* with its whole period to go.                                            *)
CallFills(i, t) ==
  /\ timers' = [timers EXCEPT ![i] = t]
  /\ SlotOK(t) /\ t.remaining <= t.period
  /\ t.is_active => t.remaining = t.period
  /\ Loaded(i)

LEMMA CallShape ==
  ASSUME TimerSlotsOK, TimerCall
  PROVE  /\ \E i \in Slots, t \in TimerControlBlock : CallFills(i, t)
         /\ pc = "app" \/ in_callback
         /\ timer_counter' \in 0 .. CreateLimit
         /\ UNCHANGED <<vars, walkVars>>
<1> DEFINE Goal == /\ \E i \in Slots, t \in TimerControlBlock : CallFills(i, t)
                   /\ pc = "app" \/ in_callback
                   /\ timer_counter' \in 0 .. CreateLimit
                   /\ UNCHANGED <<vars, walkVars>>
<1>0. /\ timers \in [Slots -> TimerControlBlock]
      /\ timer_counter \in 0 .. CreateLimit /\ CreateLimit \in Nat
      /\ TimerCaller => pc = "app" \/ in_callback
      /\ 0 \in 0 .. CreateLimit
  BY TimersAssumption DEF TimerSlotsOK, TimerCaller, MayCall
<1>1. ASSUME NEW k \in Kinds, timer_create(k[1], k[2])  PROVE Goal
  <2> DEFINE i == FirstSlot(0)
             t == [timer_id |-> timer_counter + 1, period |-> k[1], remaining |-> k[1],
                   is_periodic |-> k[2], is_active |-> FALSE]
  <2>1. i \in Slots
    BY <1>1, FirstSlotIsSlot DEF timer_create
  <2>2. k[1] \in Periods /\ k[1] \in Nat \ {0} /\ k[2] \in BOOLEAN
    BY TimersAssumption DEF Periods
  <2>3. t \in TimerControlBlock /\ timer_counter + 1 \in 0 .. CreateLimit
    BY <1>0, <1>1, <2>2 DEF TimerControlBlock, timer_create
  <2>4. CallFills(i, t)
    BY <1>1, <2>2, <1>0 DEF CallFills, SlotOK, timer_create
  <2>5. TimerCaller /\ timer_counter' = timer_counter + 1 /\ UNCHANGED <<vars, walkVars>>
    BY <1>1 DEF timer_create
  <2> HIDE DEF i, t
  <2> QED BY <1>0, <2>1, <2>3, <2>4, <2>5
<1>2. ASSUME NEW id \in 0 .. CreateLimit, timer_delete(id)  PROVE Goal
  <2>1. FirstSlot(id) \in Slots /\ FreeTimer \in TimerControlBlock
    BY <1>0, <1>2, FirstSlotIsSlot DEF timer_delete, FreeTimer, TimerControlBlock
  <2>2. CallFills(FirstSlot(id), FreeTimer)
    BY <1>2 DEF CallFills, SlotOK, timer_delete, FreeTimer
  <2> QED BY <1>0, <1>2, <2>1, <2>2 DEF timer_delete
<1>3. ASSUME NEW id \in 0 .. CreateLimit, NEW i \in Slots, NEW t \in TimerControlBlock,
             CallFills(i, t), TimerCaller, timer_counter' = timer_counter,
             UNCHANGED <<vars, walkVars>>
      PROVE  Goal
  BY <1>0, <1>3
<1>4. ASSUME NEW id \in 0 .. CreateLimit,
             timer_start(id) \/ timer_stop(id) \/ timer_reset(id)
      PROVE  Goal
  <2> DEFINE i == FirstSlot(id)
  <2>1. i \in Slots
    BY <1>4, FirstSlotIsSlot DEF timer_start, timer_stop, timer_reset
  <2> HIDE DEF i
  <2>2. /\ timers[i] \in TimerControlBlock /\ SlotOK(timers[i])
        /\ timers[i].period \in Nat /\ timers[i].remaining \in Nat
        /\ timers[i].remaining <= timers[i].period
    BY <1>0, <2>1, TimersAssumption DEF TimerSlotsOK, TimerControlBlock, Periods
  <2>3. CASE timer_start(id)
    <3> DEFINE t == [timers[i] EXCEPT !.is_active = TRUE, !.remaining = timers[i].period]
    <3>1. timers' = [timers EXCEPT ![i] = t] /\ Loaded(i)
      BY <1>0, <2>1, <2>3 DEF timer_start, i
    <3>2. t \in TimerControlBlock /\ SlotOK(t) /\ t.remaining = t.period
      BY <2>2 DEF TimerControlBlock, SlotOK
    <3>3. t.period \in Nat
      BY <2>2 DEF TimerControlBlock
    <3>4. CallFills(i, t)
      BY <3>1, <3>2, <3>3 DEF CallFills
    <3> HIDE DEF t
    <3> QED BY <1>3, <2>1, <2>3, <3>2, <3>4 DEF timer_start
  <2>4. CASE timer_stop(id)
    <3> DEFINE t == [timers[i] EXCEPT !.is_active = FALSE]
    <3>1. timers' = [timers EXCEPT ![i] = t] /\ Loaded(i)
      BY <1>0, <2>1, <2>4 DEF timer_stop, i
    <3>2. t \in TimerControlBlock /\ SlotOK(t) /\ ~t.is_active /\ t.remaining <= t.period
      BY <2>2 DEF TimerControlBlock, SlotOK
    <3>4. CallFills(i, t)
      BY <3>1, <3>2 DEF CallFills
    <3> HIDE DEF t
    <3> QED BY <1>3, <2>1, <2>4, <3>2, <3>4 DEF timer_stop
  <2>5. CASE timer_reset(id)
    <3> DEFINE t == [timers[i] EXCEPT !.remaining = timers[i].period]
    <3>1. timers' = [timers EXCEPT ![i] = t] /\ Loaded(i)
      BY <1>0, <2>1, <2>5 DEF timer_reset, i
    <3>2. t \in TimerControlBlock /\ SlotOK(t) /\ t.remaining = t.period
      BY <2>2 DEF TimerControlBlock, SlotOK
    <3>3. t.period \in Nat
      BY <2>2 DEF TimerControlBlock
    <3>4. CallFills(i, t)
      BY <3>1, <3>2, <3>3 DEF CallFills
    <3> HIDE DEF t
    <3> QED BY <1>3, <2>1, <2>5, <3>2, <3>4 DEF timer_reset
  <2> QED BY <1>4, <2>3, <2>4, <2>5
<1> QED
  BY <1>1, <1>2, <1>4 DEF TimerCall

-----------------------------------------------------------------------------
(* A step of the main thread outside the handler of the timers.            *)
LEMMA CallStaysOutside ==
  ASSUME KernelCall
  PROVE  pc # "walk" /\ pc' # "walk" /\ UNCHANGED timerVars
<1> DEFINE Goal == pc # "walk" /\ pc' # "walk" /\ UNCHANGED timerVars
<1>1. ASSUME NEW p \in TaskPriorities, task_create(p)  PROVE Goal
  BY <1>1 DEF task_create, MayCall, CallSchedule
<1>2. ASSUME NEW t \in TCB, task_delete(t)  PROVE Goal
  BY <1>2 DEF task_delete, MayCall, CallSchedule
<1>3. ASSUME NEW t \in TCB, task_suspend(t)  PROVE Goal
  BY <1>3 DEF task_suspend, MayCall, CallSchedule
<1>4. ASSUME NEW t \in TCB, task_resume(t)  PROVE Goal
  BY <1>4 DEF task_resume, MayCall, CallSchedule
<1>5. ASSUME NEW ms \in SleepTimes, task_sleep(ms)  PROVE Goal
  BY <1>5 DEF task_sleep, MayCall, CallSchedule
<1>6. ASSUME NEW t \in TCB, NEW p \in TaskPriorities, task_set_priority(t, p)  PROVE Goal
  BY <1>6 DEF task_set_priority, MayCall, CallSchedule
<1>7. CASE SleepRefused
  BY <1>7 DEF SleepRefused, MayCall, vars
<1>8. CASE task_yield
  BY <1>8 DEF task_yield, Yield, MayCall, CallSchedule
<1>9. CASE kernel_lock_scheduler \/ kernel_unlock_scheduler
  BY <1>9 DEF kernel_lock_scheduler, kernel_unlock_scheduler, MayCall
<1>10. CASE TaskReturns
  BY <1>10 DEF TaskReturns, MayCall
<1> QED
  BY <1>1, <1>2, <1>3, <1>4, <1>5, <1>6, <1>7, <1>8, <1>9, <1>10 DEF KernelCall

LEMMA OtherStep ==
  ASSUME OtherKernelStep
  PROVE  /\ UNCHANGED <<slotVars, walkVars>>
         /\ pc' = "walk" <=> pc = "walk"
         /\ TimerIncrement \/ TimerSetPending \/ UNCHANGED timerVars
<1>1. CASE TimerThread
  BY <1>1 DEF OtherKernelStep, TimerThread, TimerIncrement, TimerSetPending
<1>2. CASE KernelCall
  BY <1>2, CallStaysOutside DEF OtherKernelStep
<1>3. CASE kernel_start \/ IdleYield \/ Exited \/ (~timer_pending /\ IdleTick)
  BY <1>3 DEF OtherKernelStep, kernel_start, IdleYield, Yield, CallSchedule, IdleTick, Exited,
              vars, timerVars
<1>4. CASE ScheduleNoTick \/ VisitSleeper \/ KeepCurrent \/ PickSameTask \/ DispatchFirstRun
           \/ SwitchContext
  BY <1>4 DEF OtherKernelStep, ScheduleNoTick, VisitSleeper, KeepCurrent, PickSameTask,
              DispatchFirstRun, SwitchContext, ReturnFromSchedule
<1> QED
  BY <1>1, <1>2, <1>3, <1>4 DEF OtherKernelStep

(* The types of what the arithmetic below is about.                        *)
LEMMA TimerTypes ==
  ASSUME TypeOK, TimersTypeOK
  PROVE  /\ system_tick \in Nat /\ handled \in Nat /\ InFlight \in 0 .. 2
         /\ timer_cursor \in 1 .. MaxTimers + 1 /\ MaxTimers \in Nat
         /\ \A i \in Slots :
              /\ i \in 1 .. MaxTimers
              /\ timers[i] \in TimerControlBlock
              /\ timers[i].period \in Nat /\ timers[i].remaining \in Nat
              /\ started[i].tick \in Nat /\ started[i].run \in Nat
              /\ started[i].in_walk \in BOOLEAN
<1>1. InFlight \in 0 .. 2
  BY DEF InFlight
<1>2. system_tick \in Nat
  BY KernelAssumption DEF TypeOK, Tick
<1>3. /\ handled \in Nat /\ timer_cursor \in 1 .. MaxTimers + 1 /\ MaxTimers \in Nat
      /\ timers \in [Slots -> TimerControlBlock]
      /\ started \in [Slots -> [tick : Nat, run : Nat, in_walk : BOOLEAN]]
  BY TimersAssumption DEF TimersTypeOK
<1> QED
  BY <1>1, <1>2, <1>3, TimersAssumption DEF Slots, TimerControlBlock, Periods

LEMMA InitTimersIInv == TimersInit => TimersIInv
<1> SUFFICES ASSUME TimersInit  PROVE TimersIInv
  OBVIOUS
<1>1. TypeOK
  BY InitIInv DEF TimersInit, IInv
<1>2. FreeTimer \in TimerControlBlock /\ NotStarted \in [tick : Nat, run : Nat, in_walk : BOOLEAN]
  BY TimersAssumption DEF FreeTimer, TimerControlBlock, NotStarted
<1>3. TimersTypeOK
  <2>1. /\ timers \in [Slots -> TimerControlBlock]
        /\ started \in [Slots -> [tick : Nat, run : Nat, in_walk : BOOLEAN]]
    BY <1>2 DEF TimersInit
  <2>2. \A i \in Slots : timers[i].remaining <= timers[i].period
    BY DEF TimersInit, FreeTimer
  <2>3. timer_counter \in 0 .. CreateLimit /\ timer_cursor \in 1 .. MaxTimers + 1
        /\ ~(timer_cursor > 1) /\ handled \in Nat
    BY TimersAssumption DEF TimersInit
  <2>4. ~in_callback /\ in_callback \in BOOLEAN
    BY DEF TimersInit
  <2> QED BY <2>1, <2>2, <2>3, <2>4 DEF TimersTypeOK
<1>4. (\A i \in Slots : SlotOK(timers[i])) /\ EveryTickCounts /\ RunsHaveTicks
  BY DEF TimersInit, SlotOK, FreeTimer, EveryTickCounts, RunsHaveTicks, Running
<1>5. TicksHandledOnce
  BY DEF TimersInit, Init, TicksHandledOnce
<1> QED
  BY <1>1, <1>3, <1>4, <1>5 DEF TimersIInv

LEMMA CallKeeps ==
  ASSUME TimersIInv, TimerCall
  PROVE  TimersIInv'
<1>1. /\ pc = "app" \/ in_callback
      /\ timer_counter' \in 0 .. CreateLimit
      /\ UNCHANGED <<vars, walkVars>>
  BY CallShape DEF TimersIInv, TimersTypeOK, TimerSlotsOK
<1>2. PICK i \in Slots, t \in TimerControlBlock : CallFills(i, t)
  BY CallShape DEF TimersIInv, TimersTypeOK, TimerSlotsOK
<1>3. /\ timers \in [Slots -> TimerControlBlock] /\ timers' = [timers EXCEPT ![i] = t]
      /\ SlotOK(t) /\ t.remaining <= t.period /\ (t.is_active => t.remaining = t.period)
      /\ t.period \in Nat /\ t.remaining \in Nat
  BY <1>2, TimersAssumption DEF CallFills, TimersIInv, TimersTypeOK, TimerControlBlock, Periods
<1> DEFINE s == IF t.is_active
                THEN [tick |-> system_tick, run |-> handled, in_walk |-> in_callback]
                ELSE NotStarted
<1>4. started' = [started EXCEPT ![i] = s]
  BY <1>2, <1>3 DEF CallFills, Loaded
<1>5. UNCHANGED <<system_tick, timer_pending, timer_pc, pc, timer_cursor, in_callback, handled>>
  BY <1>1 DEF vars, timerVars, walkVars
<1>6. /\ TypeOK' /\ TicksHandledOnce'
  <2>1. TypeOK'
    BY <1>1 DEF TimersIInv, TypeOK, vars, tcbVars, schedVars, timerVars, controlVars
  <2> QED BY <2>1, <1>5 DEF TimersIInv, TicksHandledOnce
<1>7. /\ system_tick \in Nat /\ handled \in Nat /\ InFlight \in 0 .. 2
      /\ in_callback \in BOOLEAN /\ started \in [Slots -> [tick : Nat, run : Nat, in_walk : BOOLEAN]]
  BY TimerTypes DEF TimersIInv, TimersTypeOK
<1>8. s \in [tick : Nat, run : Nat, in_walk : BOOLEAN]
  BY <1>7 DEF NotStarted
<1>9. TimersTypeOK'
  BY <1>1, <1>3, <1>4, <1>5, <1>7, <1>8 DEF TimersIInv, TimersTypeOK
<1>10. ASSUME NEW j \in Slots
       PROVE  /\ SlotOK(timers'[j])
              /\ j # i => timers'[j] = timers[j] /\ started'[j] = started[j]
              /\ j = i => timers'[j] = t /\ started'[j] = s
  BY <1>3, <1>4, <1>7 DEF TimersIInv
<1>11. EveryTickCounts'
  <2> SUFFICES ASSUME NEW j \in Slots, timers'[j].is_active, timers'[j].timer_id # 0
               PROVE  timers'[j].period - timers'[j].remaining - Runs(j)'
                        \in (IF started'[j].in_walk THEN {0, 1} ELSE {0})
    BY DEF EveryTickCounts
  <2>1. CASE j # i
    BY <1>5, <1>10, <2>1 DEF TimersIInv, EveryTickCounts, Runs
  <2>2. CASE j = i
    <3>1. /\ timers'[j] = t /\ t.remaining = t.period
          /\ started'[j].run = handled /\ started'[j].in_walk = in_callback
      BY <1>3, <1>10, <2>2
    <3>2. ~in_callback => pc # "walk"
      BY <1>1
    <3>3. timers'[j].period - timers'[j].remaining = 0
      BY <1>3, <3>1
    <3>4. Runs(j)' = IF pc = "walk" /\ timer_cursor <= j THEN -1 ELSE 0
      BY <1>5, <1>7, <3>1 DEF Runs
    <3> QED BY <3>1, <3>2, <3>3, <3>4
  <2> QED BY <2>1, <2>2
<1>12. RunsHaveTicks'
  <2> SUFFICES ASSUME NEW j \in Slots, Running(j)'
               PROVE  handled' - started'[j].run + InFlight' <= system_tick' - started'[j].tick + 2
    BY DEF RunsHaveTicks
  <2>0. InFlight' = InFlight
    BY <1>5 DEF InFlight
  <2>1. CASE j # i
    BY <1>5, <1>10, <2>0, <2>1 DEF TimersIInv, RunsHaveTicks, Running
  <2>2. CASE j = i
    <3>1. started'[j].run = handled /\ started'[j].tick = system_tick
      BY <1>10, <2>2 DEF Running
    <3> QED BY <1>5, <1>7, <2>0, <3>1
  <2> QED BY <2>1, <2>2
<1> QED
  BY <1>6, <1>9, <1>10, <1>11, <1>12 DEF TimersIInv

LEMMA VisitKeeps ==
  ASSUME TimersIInv, VisitTimer
  PROVE  TimersIInv'
<1> DEFINE i == timer_cursor
           expires == Counts(i) /\ timers[i].remaining = 1
           t == IF Counts(i) THEN Counted(timers[i]) ELSE timers[i]
           s == IF ~expires THEN started[i]
                ELSE IF t.is_active
                     THEN [tick |-> system_tick, run |-> handled, in_walk |-> FALSE]
                     ELSE NotStarted
<1>1. /\ pc = "walk" /\ ~in_callback
      /\ timers' = IF Counts(i) THEN [timers EXCEPT ![i] = Counted(@)] ELSE timers
      /\ in_callback' = expires
      /\ IF expires THEN Loaded(i) ELSE UNCHANGED started
      /\ timer_cursor' = i + 1 /\ i <= MaxTimers
      /\ UNCHANGED <<vars, timer_counter, handled>>
  BY DEF VisitTimer, Walking
<1>2. /\ system_tick \in Nat /\ handled \in Nat /\ InFlight \in 0 .. 2
      /\ i \in Slots /\ MaxTimers \in Nat
      /\ timers \in [Slots -> TimerControlBlock]
      /\ started \in [Slots -> [tick : Nat, run : Nat, in_walk : BOOLEAN]]
      /\ timers[i].period \in Nat /\ timers[i].remaining \in Nat
      /\ started[i].tick \in Nat /\ started[i].run \in Nat
      /\ SlotOK(timers[i]) /\ timers[i].remaining <= timers[i].period
  <2>1. i \in Slots
    BY <1>1, TimerTypes DEF TimersIInv, Slots
  <2> QED BY <2>1, TimerTypes DEF TimersIInv, TimersTypeOK
<1>3. UNCHANGED <<system_tick, timer_pending, timer_pc, pc, handled, timer_counter>>
  BY <1>1 DEF vars, timerVars
<1>4. TypeOK' /\ TicksHandledOnce'
  <2>1. TypeOK'
    BY <1>1 DEF TimersIInv, TypeOK, vars, tcbVars, schedVars, timerVars, controlVars
  <2> QED BY <2>1, <1>3 DEF TimersIInv, TicksHandledOnce
<1>5. timers' = [timers EXCEPT ![i] = t]
  BY <1>1, <1>2
(* What a counted timer is like.                                           *)
<1>6. /\ t \in TimerControlBlock /\ SlotOK(t) /\ t.remaining <= t.period
      /\ t.period \in Nat /\ t.remaining \in Nat
      /\ t.timer_id = timers[i].timer_id /\ t.period = timers[i].period
      /\ expires /\ t.is_active => t.remaining = t.period
      /\ ~expires /\ t.is_active /\ t.timer_id # 0 =>
           timers[i].is_active /\ t.remaining = timers[i].remaining - 1
  <2>1. /\ timers[i].timer_id \in 0 .. CreateLimit /\ timers[i] \in TimerControlBlock
        /\ timers[i].period \in Periods \cup {0}
        /\ timers[i].is_periodic \in BOOLEAN /\ timers[i].is_active \in BOOLEAN
    BY <1>2 DEF TimerControlBlock
  <2>2. CASE ~Counts(i)
    <3>1. t = timers[i] /\ ~expires
      BY <2>2
    <3>2. timers[i].is_active /\ timers[i].timer_id # 0 => FALSE
      BY <1>2, <2>2 DEF Counts, SlotOK
    <3> QED BY <1>2, <2>1, <3>1, <3>2
  <2>3. CASE Counts(i) /\ timers[i].remaining > 1
    <3>1. t = [timers[i] EXCEPT !.remaining = timers[i].remaining - 1] /\ ~expires
      BY <1>2, <2>3 DEF Counted
    <3>2. /\ t.remaining = timers[i].remaining - 1 /\ t.remaining \in Nat /\ t.remaining # 0
          /\ t.timer_id = timers[i].timer_id /\ t.period = timers[i].period
          /\ t \in TimerControlBlock /\ timers[i].is_active
      BY <1>2, <2>1, <2>3, <3>1 DEF TimerControlBlock, Counts
    <3> HIDE DEF t
    <3> QED BY <1>2, <3>1, <3>2 DEF SlotOK
  <2>4. CASE Counts(i) /\ timers[i].remaining = 1 /\ timers[i].is_periodic
    <3>1. t = [timers[i] EXCEPT !.remaining = timers[i].period] /\ expires
      BY <2>4 DEF Counted
    <3>2. /\ t.remaining = timers[i].period
          /\ t.timer_id = timers[i].timer_id /\ t.period = timers[i].period
          /\ t \in TimerControlBlock
      BY <1>2, <2>1, <3>1 DEF TimerControlBlock
    <3> HIDE DEF t
    <3> QED BY <1>2, <3>1, <3>2 DEF SlotOK
  <2>5. CASE Counts(i) /\ timers[i].remaining = 1 /\ ~timers[i].is_periodic
    <3>1. t = [timers[i] EXCEPT !.remaining = 0, !.is_active = FALSE] /\ expires
      BY <2>5 DEF Counted
    <3>2. t = [timer_id |-> timers[i].timer_id, period |-> timers[i].period, remaining |-> 0,
               is_periodic |-> timers[i].is_periodic, is_active |-> FALSE]
      BY <2>1, <3>1 DEF TimerControlBlock
    <3>3. /\ t.remaining = 0 /\ ~t.is_active
          /\ t.timer_id = timers[i].timer_id /\ t.period = timers[i].period
          /\ t \in TimerControlBlock
      <4> HIDE DEF t
      <4> QED BY <1>2, <2>1, <3>2 DEF TimerControlBlock
    <3> HIDE DEF t
    <3> QED BY <1>2, <3>1, <3>3 DEF SlotOK
  <2>6. Counts(i) => timers[i].remaining > 1 \/ timers[i].remaining = 1
    BY <1>2 DEF Counts
  <2> HIDE DEF t, expires
  <2> QED BY <2>2, <2>3, <2>4, <2>5, <2>6
<1>7. started' = [started EXCEPT ![i] = s]
  <2>1. timers'[i] = t
    BY <1>2, <1>5
  <2> QED BY <1>1, <1>2, <2>1 DEF Loaded
<1>8. s \in [tick : Nat, run : Nat, in_walk : BOOLEAN]
  BY <1>2 DEF NotStarted
<1> HIDE DEF t, s
<1>9. TimersTypeOK'
  <2>1. /\ timers' \in [Slots -> TimerControlBlock]
        /\ started' \in [Slots -> [tick : Nat, run : Nat, in_walk : BOOLEAN]]
    BY <1>2, <1>5, <1>6, <1>7, <1>8
  <2>2. \A j \in Slots : timers'[j].remaining <= timers'[j].period
    BY <1>2, <1>5, <1>6 DEF TimersIInv, TimersTypeOK
  <2>3. timer_counter' \in 0 .. CreateLimit /\ handled' \in Nat /\ in_callback' \in BOOLEAN
    BY <1>1, <1>3 DEF TimersIInv, TimersTypeOK
  <2>4. timer_cursor' \in 1 .. MaxTimers + 1 /\ timer_cursor' > 1 /\ pc' = "walk"
    BY <1>1, <1>2, <1>3 DEF Slots
  <2> QED BY <2>1, <2>2, <2>3, <2>4 DEF TimersTypeOK
<1>10. ASSUME NEW j \in Slots
       PROVE  /\ SlotOK(timers'[j])
              /\ j # i => timers'[j] = timers[j] /\ started'[j] = started[j]
              /\ j = i => timers'[j] = t /\ started'[j] = s
  BY <1>2, <1>5, <1>6, <1>7 DEF TimersIInv
<1>11. EveryTickCounts'
  <2> SUFFICES ASSUME NEW j \in Slots, timers'[j].is_active, timers'[j].timer_id # 0
               PROVE  timers'[j].period - timers'[j].remaining - Runs(j)'
                        \in (IF started'[j].in_walk THEN {0, 1} ELSE {0})
    BY DEF EveryTickCounts
  <2>1. CASE j # i
    <3>1. (timer_cursor' <= j) <=> (timer_cursor <= j)
      BY <1>1, <1>2, <2>1 DEF Slots
    <3> QED BY <1>3, <1>10, <2>1, <3>1 DEF TimersIInv, EveryTickCounts, Runs
  <2>2. CASE j = i
    <3>1. timers'[j] = t /\ started'[j] = s /\ ~(timer_cursor' <= j)
      BY <1>1, <1>2, <1>10, <2>2 DEF Slots
    <3>2. CASE expires
      <4>1. s.run = handled /\ s.in_walk = FALSE /\ t.remaining = t.period
        BY <1>6, <3>1, <3>2 DEF s
      <4>2. Runs(j)' = handled - handled - 0
        BY <1>3, <3>1, <4>1 DEF Runs
      <4> QED BY <1>2, <1>6, <3>1, <4>1, <4>2
    <3>3. CASE ~expires
      <4>1. /\ s = started[i] /\ timers[i].is_active /\ timers[i].timer_id # 0
            /\ t.remaining = timers[i].remaining - 1 /\ t.period = timers[i].period
        BY <1>6, <3>1, <3>3 DEF s
      <4>2. Runs(i) = handled - started[i].run - 1 /\ Runs(j)' = handled - started[i].run
        <5>1. Runs(j)' = handled - started[i].run - 0
          BY <1>3, <3>1, <4>1 DEF Runs
        <5>2. pc = "walk" /\ timer_cursor <= i
          BY <1>1, <1>2 DEF Slots
        <5>3. Runs(i) = handled - started[i].run - 1
          BY <5>2 DEF Runs
        <5> QED BY <1>2, <5>1, <5>3
      <4>3. timers[i].period - timers[i].remaining - Runs(i)
              \in (IF started[i].in_walk THEN {0, 1} ELSE {0})
        BY <1>2, <4>1 DEF TimersIInv, EveryTickCounts
      <4>4. t.period - t.remaining - Runs(j)' = timers[i].period - timers[i].remaining - Runs(i)
        BY <1>2, <4>1, <4>2
      <4> QED BY <3>1, <4>1, <4>3, <4>4
    <3> QED BY <3>2, <3>3
  <2> QED BY <2>1, <2>2
<1>12. RunsHaveTicks'
  <2> SUFFICES ASSUME NEW j \in Slots, Running(j)'
               PROVE  handled' - started'[j].run + InFlight' <= system_tick' - started'[j].tick + 2
    BY DEF RunsHaveTicks
  <2>0. InFlight' = InFlight
    BY <1>3 DEF InFlight
  <2>1. CASE j # i
    BY <1>3, <1>10, <2>0, <2>1 DEF TimersIInv, RunsHaveTicks, Running
  <2>2. CASE j = i /\ expires
    <3>1. started'[j].run = handled /\ started'[j].tick = system_tick
      BY <1>10, <2>2 DEF Running, s
    <3> QED BY <1>2, <1>3, <2>0, <3>1
  <2>3. CASE j = i /\ ~expires
    <3>1. started'[j] = started[j] /\ timers'[j] = t
      BY <1>10, <2>3 DEF s
    <3>2. Running(j)
      BY <1>6, <2>3, <3>1 DEF Running
    <3> QED BY <1>3, <2>0, <3>1, <3>2 DEF TimersIInv, RunsHaveTicks
  <2> QED BY <2>1, <2>2, <2>3
<1> QED
  BY <1>4, <1>9, <1>10, <1>11, <1>12 DEF TimersIInv

LEMMA ReturnKeeps ==
  ASSUME TimersIInv, CallbackReturns
  PROVE  TimersIInv'
<1>1. /\ in_callback' = FALSE
      /\ UNCHANGED <<vars, slotVars, timer_cursor, handled>>
  BY DEF CallbackReturns
<1>2. TypeOK'
  BY <1>1 DEF TimersIInv, TypeOK, vars, tcbVars, schedVars, timerVars, controlVars
<1>3. UNCHANGED <<timers, timer_counter, started, timer_cursor, handled, pc, system_tick,
                  timer_pending, timer_pc>>
  BY <1>1 DEF slotVars, vars, timerVars
<1>4. TimersTypeOK'
  BY <1>1, <1>3 DEF TimersIInv, TimersTypeOK
<1>5. TicksHandledOnce' /\ EveryTickCounts' /\ RunsHaveTicks' /\ \A i \in Slots : SlotOK(timers[i])'
  BY <1>3 DEF TimersIInv, TicksHandledOnce, EveryTickCounts, Runs, RunsHaveTicks, Running,
              InFlight, SlotOK
<1> QED
  BY <1>2, <1>4, <1>5 DEF TimersIInv

LEMMA FinishKeeps ==
  ASSUME TimersIInv, FinishTimers, TypeOK'
  PROVE  TimersIInv'
<1>1. /\ ~in_callback /\ timer_cursor > MaxTimers /\ timer_cursor' = 1
      /\ pc = "walk" /\ pc' # "walk"
      /\ UNCHANGED <<timers, timer_counter, started, in_callback, handled,
                     system_tick, timer_pending, timer_pc>>
  BY DEF FinishTimers, FinishTickHandler, slotVars, timerVars
<1>2. MaxTimers \in Nat /\ \A i \in Slots : i \in Nat /\ ~(timer_cursor <= i)
  BY <1>1, TimerTypes DEF TimersIInv
<1>3. TimersTypeOK'
  <2>1. timer_cursor' \in 1 .. MaxTimers + 1 /\ ~(timer_cursor' > 1)
    BY <1>1, <1>2
  <2> QED BY <1>1, <2>1 DEF TimersIInv, TimersTypeOK
<1>4. ASSUME NEW i \in Slots  PROVE Runs(i)' = Runs(i)
  BY <1>1, <1>2 DEF Runs
<1>5. TicksHandledOnce' /\ EveryTickCounts' /\ RunsHaveTicks' /\ \A i \in Slots : SlotOK(timers[i])'
  BY <1>1, <1>4 DEF TimersIInv, TicksHandledOnce, EveryTickCounts, RunsHaveTicks, Running,
              InFlight, SlotOK
<1> QED
  BY <1>3, <1>5 DEF TimersIInv

(* The handler consumes the pending tick it runs for.                      *)
LEMMA EnterKeeps ==
  ASSUME TimersIInv, EnterHandler, TypeOK'
  PROVE  TimersIInv'
<1>1. /\ timer_pending /\ timer_pending' = FALSE /\ pc # "walk" /\ pc' = "walk"
      /\ handled' = handled + 1
      /\ UNCHANGED <<timers, timer_counter, started, timer_cursor, in_callback,
                     system_tick, timer_pc>>
  BY DEF EnterHandler, SchedulePendingTick, IdleTick, EnterTickHandler, slotVars
<1>2. /\ handled \in Nat /\ timer_cursor \in 1 .. MaxTimers + 1 /\ MaxTimers \in Nat
      /\ InFlight \in 0 .. 2 /\ InFlight' \in 0 .. 2 /\ system_tick \in Nat
      /\ \A i \in Slots : started[i].run \in Nat /\ started[i].tick \in Nat
  <2>1. InFlight' \in 0 .. 2
    BY DEF InFlight
  <2> QED BY <2>1, TimerTypes DEF TimersIInv
<1>3. timer_cursor = 1
  <2>1. ~(timer_cursor > 1)
    BY <1>1 DEF TimersIInv, TimersTypeOK
  <2> QED BY <1>2, <2>1
<1>4. InFlight = InFlight' + 1
  BY <1>1 DEF InFlight
<1>5. TimersTypeOK'
  BY <1>1, <1>2 DEF TimersIInv, TimersTypeOK
<1>6. TicksHandledOnce'
  <2>1. TicksHandledOnce <=> handled + InFlight <= system_tick
    BY <1>2 DEF TicksHandledOnce, InFlight
  <2>2. handled' + InFlight' <= system_tick'
    BY <1>1, <1>2, <1>4, <2>1 DEF TimersIInv
  <2> QED BY <1>1, <1>2, <2>2 DEF TicksHandledOnce, InFlight
<1>7. ASSUME NEW i \in Slots  PROVE Runs(i)' = Runs(i)
  <2>1. timer_cursor' <= i
    BY <1>1, <1>3 DEF Slots
  <2>2. Runs(i) = handled - started[i].run - 0
    BY <1>1 DEF Runs
  <2>3. pc' = "walk" /\ started'[i].run = started[i].run /\ handled' = handled + 1
    BY <1>1
  <2>4. Runs(i)' = handled + 1 - started[i].run - 1
    BY <1>2, <2>1, <2>3 DEF Runs
  <2> QED BY <1>2, <2>2, <2>4
<1>8. EveryTickCounts' /\ \A i \in Slots : SlotOK(timers[i])'
  BY <1>1, <1>7 DEF TimersIInv, EveryTickCounts, SlotOK
<1>9. RunsHaveTicks'
  <2> SUFFICES ASSUME NEW i \in Slots, Running(i)'
               PROVE  handled' - started'[i].run + InFlight' <= system_tick' - started'[i].tick + 2
    BY DEF RunsHaveTicks
  <2>1. handled - started[i].run + InFlight <= system_tick - started[i].tick + 2
    BY <1>1 DEF TimersIInv, RunsHaveTicks, Running
  <2> QED BY <1>1, <1>2, <1>4, <2>1
<1> QED
  BY <1>5, <1>6, <1>8, <1>9 DEF TimersIInv

LEMMA OtherKeeps ==
  ASSUME NoWrap, TimersIInv, OtherKernelStep, TypeOK'
  PROVE  TimersIInv'
<1>1. /\ UNCHANGED <<timers, timer_counter, started, timer_cursor, in_callback, handled>>
      /\ pc' = "walk" <=> pc = "walk"
      /\ TimerIncrement \/ TimerSetPending \/ UNCHANGED timerVars
  BY OtherStep DEF slotVars, walkVars
<1>2. /\ system_tick \in Nat /\ handled \in Nat /\ InFlight \in 0 .. 2 /\ InFlight' \in 0 .. 2
      /\ \A i \in Slots : started[i].run \in Nat /\ started[i].tick \in Nat
  <2>1. InFlight' \in 0 .. 2
    BY DEF InFlight
  <2> QED BY <2>1, TimerTypes DEF TimersIInv
<1>3. PICK d \in {0, 1}, f \in 0 .. 2, g \in 0 .. 2 :
        system_tick' = system_tick + d /\ InFlight = f /\ InFlight' = g /\ g <= f + d
  <2>0. ASSUME NEW d \in {0, 1}, system_tick' = system_tick + d,
               InFlight' = InFlight + d \/ InFlight' = InFlight - 1
        PROVE  \E e \in {0, 1}, f \in 0 .. 2, g \in 0 .. 2 :
                 system_tick' = system_tick + e /\ InFlight = f /\ InFlight' = g /\ g <= f + e
    <3>1. PICK f \in 0 .. 2, g \in 0 .. 2 : InFlight = f /\ InFlight' = g
      BY <1>2
    <3>2. g = f + d \/ g = f - 1
      BY <2>0, <3>1
    <3>3. g <= f + d
      BY <3>2
    <3> QED BY <2>0, <3>1, <3>3
  <2>1. CASE TimerIncrement
    <3>1. system_tick' = (system_tick + 1) % TickModulus /\ system_tick + 1 < TickModulus
      BY <1>2, <2>1, KernelAssumption DEF TimerIncrement, NoWrap
    <3>2. system_tick' = system_tick + 1
      BY <1>2, <3>1, KernelAssumption
    <3>3. InFlight' = InFlight + 1
      BY <2>1 DEF TimerIncrement, InFlight
    <3> QED BY <2>0, <3>2, <3>3
  <2>2. CASE TimerSetPending
    <3>1. system_tick' = system_tick + 0
      BY <1>2, <2>2 DEF TimerSetPending
    <3>2. InFlight' = InFlight + 0 \/ InFlight' = InFlight - 1
      BY <2>2 DEF TimerSetPending, InFlight
    <3> QED BY <2>0, <3>1, <3>2
  <2>3. CASE UNCHANGED timerVars
    <3>1. system_tick' = system_tick + 0 /\ InFlight' = InFlight + 0
      BY <1>2, <2>3 DEF timerVars, InFlight
    <3> QED BY <2>0, <3>1
  <2> QED BY <1>1, <2>1, <2>2, <2>3
<1>4. TimersTypeOK'
  BY <1>1 DEF TimersIInv, TimersTypeOK
<1>5. TicksHandledOnce'
  <2>1. handled + f <= system_tick
    BY <1>2, <1>3 DEF TimersIInv, TicksHandledOnce, InFlight
  <2>2. handled' = handled
    BY <1>1
  <2>3. handled + g <= system_tick'
    BY <1>2, <1>3, <2>1
  <2>4. handled' + InFlight' <= system_tick' /\ system_tick' \in Nat
    BY <1>2, <1>3, <2>2, <2>3
  <2> QED BY <1>2, <2>2, <2>4 DEF TicksHandledOnce, InFlight
<1>6. ASSUME NEW i \in Slots  PROVE Runs(i)' = Runs(i)
  BY <1>1 DEF Runs
<1>7. EveryTickCounts' /\ \A i \in Slots : SlotOK(timers[i])'
  BY <1>1, <1>6 DEF TimersIInv, EveryTickCounts, SlotOK
<1>8. RunsHaveTicks'
  <2> SUFFICES ASSUME NEW i \in Slots, Running(i)'
               PROVE  handled' - started'[i].run + InFlight' <= system_tick' - started'[i].tick + 2
    BY DEF RunsHaveTicks
  <2>1. handled - started[i].run + InFlight <= system_tick - started[i].tick + 2
    BY <1>1 DEF TimersIInv, RunsHaveTicks, Running
  <2>2. handled - started[i].run + g <= system_tick + d - started[i].tick + 2
    BY <1>2, <1>3, <2>1
  <2>3. started'[i] = started[i] /\ handled' = handled
    BY <1>1
  <2>4. PICK h \in Nat, k \in Nat, r \in Nat, n \in Nat :
          /\ handled = h /\ system_tick = k /\ started[i].run = r /\ started[i].tick = n
    BY <1>2
  <2>5. h - r + g <= (k + d) - n + 2
    BY <2>2, <2>4
  <2>6. /\ handled' = h /\ started'[i].run = r /\ started'[i].tick = n
        /\ system_tick' = k + d /\ InFlight' = g
    BY <1>3, <2>3, <2>4
  <2> QED BY <2>5, <2>6
<1> QED
  BY <1>4, <1>5, <1>7, <1>8 DEF TimersIInv

LEMMA TimersInvariance ==
  ASSUME NoWrap
  PROVE  TimersSpec => []TimersIInv
<1>1. TimersIInv /\ [TimersNext]_timersVars /\ TypeOK' => TimersIInv'
  <2> SUFFICES ASSUME TimersIInv, [TimersNext]_timersVars, TypeOK'  PROVE TimersIInv'
    OBVIOUS
  <2>1. CASE UNCHANGED timersVars
    BY <2>1 DEF timersVars, vars, timerVars, slotVars, walkVars, TimersIInv, TimersTypeOK,
                SlotOK, TicksHandledOnce, EveryTickCounts, Runs, RunsHaveTicks, Running, InFlight
  <2> QED
    BY <2>1, CallKeeps, VisitKeeps, ReturnKeeps, FinishKeeps, EnterKeeps, OtherKeeps
    DEF TimersNext
<1> QED
  BY <1>1, InitTimersIInv, KernelTypedWithTimers, PTL DEF TimersSpec

(* However the timer thread interleaves with the main thread, no tick is   *)
(* handled twice.                                                          *)
THEOREM NoTickTwice ==
  ASSUME NoWrap
  PROVE  TimersSpec => []TicksHandledOnce
<1>1. TimersIInv => TicksHandledOnce
  BY DEF TimersIInv
<1> QED
  BY <1>1, TimersInvariance, PTL

(* For any number of timers, whatever their callbacks do to each other,    *)
(* every run of the handler counts exactly once for every running timer.   *)
THEOREM TimersCountEveryTick ==
  ASSUME NoWrap
  PROVE  TimersSpec => []EveryTickCounts
<1>1. TimersIInv => EveryTickCounts
  BY DEF TimersIInv
<1> QED
  BY <1>1, TimersInvariance, PTL

(* The bound on how early a timer expires, for every period.               *)
THEOREM TimersNotTooEarly ==
  ASSUME NoWrap
  PROVE  TimersSpec => NotTooEarly
<1> DEFINE A == \A i \in Slots :
       Expires(i) => system_tick - started[i].tick + 2 + (IF started[i].in_walk THEN 1 ELSE 0)
                       >= timers[i].period
<1>1. TimersIInv /\ [TimersNext]_timersVars => [A]_timersVars
  <2> SUFFICES ASSUME TimersIInv, TimersNext, NEW i \in Slots, Expires(i)
               PROVE  system_tick - started[i].tick + 2 + (IF started[i].in_walk THEN 1 ELSE 0)
                        >= timers[i].period
    OBVIOUS
  <2>1. VisitTimer
    BY DEF Expires, TimersNext, TimerCall, timer_create, timer_delete, timer_start, timer_stop,
           timer_reset, walkVars, CallbackReturns, FinishTimers, EnterHandler, OtherKernelStep
  <2>2. /\ Running(i) /\ timers[i].remaining = 1 /\ pc = "walk" /\ timer_cursor = i
    BY <2>1 DEF Expires, VisitTimer, Walking, Counts, Running
  <2>3. /\ system_tick \in Nat /\ handled \in Nat /\ i \in Nat
        /\ timers[i].period \in Nat /\ started[i].tick \in Nat /\ started[i].run \in Nat
    BY TimerTypes DEF TimersIInv
  <2>4. PICK f \in 0 .. 2 : InFlight = f
    BY TimerTypes DEF TimersIInv
  <2>5. handled - started[i].run + f <= system_tick - started[i].tick + 2
    BY <2>2, <2>4 DEF TimersIInv, RunsHaveTicks
  <2>6. timers[i].period - 1 - (handled - started[i].run - 1)
          \in (IF started[i].in_walk THEN {0, 1} ELSE {0})
    <3>1. Runs(i) = handled - started[i].run - 1
      BY <2>2, <2>3 DEF Runs
    <3>2. timers[i].period - timers[i].remaining - Runs(i)
            \in (IF started[i].in_walk THEN {0, 1} ELSE {0})
      BY <2>2 DEF TimersIInv, EveryTickCounts, Running
    <3> QED BY <2>2, <3>1, <3>2
  <2> QED BY <2>3, <2>5, <2>6
<1>2. TimersSpec => [][A]_timersVars
  BY <1>1, TimersInvariance, PTL DEF TimersSpec
<1> QED
  BY <1>2 DEF NotTooEarly

-----------------------------------------------------------------------------
(* Calls and the walk keep the slots in order, whether or not system_tick  *)
(* wraps.                                                                  *)
LEMMA SlotsInvariance == TimersSpec => []TimerSlotsOK
<1>1. TimersInit => TimerSlotsOK
  BY InitTimersIInv DEF TimersIInv, TimersTypeOK, TimerSlotsOK
<1>2. TimerSlotsOK /\ [TimersNext]_timersVars => TimerSlotsOK'
  <2> SUFFICES ASSUME TimerSlotsOK, [TimersNext]_timersVars  PROVE TimerSlotsOK'
    OBVIOUS
  <2>1. CASE TimerCall
    <3>1. timer_counter' \in 0 .. CreateLimit
      BY <2>1, CallShape
    <3>2. PICK i \in Slots, t \in TimerControlBlock : CallFills(i, t)
      BY <2>1, CallShape
    <3> QED BY <3>1, <3>2 DEF CallFills, TimerSlotsOK
  <2>2. CASE VisitTimer
    <3> DEFINE i == timer_cursor
    <3>1. timer_counter' = timer_counter
          /\ timers' = IF Counts(i) THEN [timers EXCEPT ![i] = Counted(@)] ELSE timers
      BY <2>2 DEF VisitTimer
    <3>2. CASE i \in Slots /\ Counts(i)
      <4> DEFINE t == timers[i]
                 c == Counted(timers[i])
      <4>1. /\ t \in TimerControlBlock /\ SlotOK(t) /\ t.remaining <= t.period
            /\ t.period \in Nat /\ t.remaining \in Nat /\ t.remaining > 0 /\ t.timer_id # 0
            /\ t.is_periodic \in BOOLEAN
        BY <3>2, TimersAssumption DEF TimerSlotsOK, TimerControlBlock, Periods, Counts
      <4>2. c \in TimerControlBlock /\ SlotOK(c) /\ c.remaining <= c.period
        <5> HIDE DEF i, t, c
        <5>0. c = Counted(t)
          BY DEF c, t
        <5>1. CASE t.remaining > 1
          BY <4>1, <5>0, <5>1 DEF Counted, TimerControlBlock, SlotOK
        <5>2. CASE ~(t.remaining > 1) /\ t.is_periodic
          BY <4>1, <5>0, <5>2 DEF Counted, TimerControlBlock, SlotOK
        <5>3. CASE ~(t.remaining > 1) /\ ~t.is_periodic
          <6>1. c = [t EXCEPT !.remaining = 0, !.is_active = FALSE]
            BY <5>0, <5>3 DEF Counted
          <6>2. c \in TimerControlBlock /\ c.remaining = 0 /\ ~c.is_active
                /\ c.timer_id = t.timer_id /\ c.period = t.period
            BY <4>1, <6>1 DEF TimerControlBlock
          <6> QED BY <4>1, <6>2 DEF SlotOK
        <5> QED BY <5>1, <5>2, <5>3
      <4>3. timers' = [timers EXCEPT ![i] = c]
        BY <3>1, <3>2
      <4> HIDE DEF i, c
      <4> QED BY <3>1, <3>2, <4>2, <4>3 DEF TimerSlotsOK
    <3>3. CASE ~(i \in Slots /\ Counts(i))
      <4>1. timers' = timers
        BY <3>1, <3>3 DEF TimerSlotsOK
      <4> QED BY <3>1, <4>1 DEF TimerSlotsOK
    <3> QED BY <3>2, <3>3
  <2>3. CASE UNCHANGED slotVars
    BY <2>3 DEF slotVars, TimerSlotsOK
  <2>4. CallbackReturns \/ FinishTimers \/ EnterHandler \/ OtherKernelStep \/ UNCHANGED timersVars
          => UNCHANGED slotVars
    BY DEF CallbackReturns, FinishTimers, EnterHandler, OtherKernelStep, timersVars
  <2> QED BY <2>1, <2>2, <2>3, <2>4 DEF TimersNext
<1> QED
  BY <1>1, <1>2, PTL DEF TimersSpec

(* No walk, callback or kernel step switches a running timer off, except   *)
(* the one-shot timer that expires.                                        *)
THEOREM StartsStay == TimersSpec => StartsAreKept
<1> DEFINE A == \A i \in Slots :
       timers[i].is_active /\ ~timers'[i].is_active =>
         \/ TimerCaller /\ TimerCall
         \/ Expires(i) /\ ~timers[i].is_periodic
<1>1. TimerSlotsOK /\ [TimersNext]_timersVars => [A]_timersVars
  <2> SUFFICES ASSUME TimerSlotsOK, TimersNext, NEW i \in Slots,
                      timers[i].is_active, ~timers'[i].is_active
               PROVE  \/ TimerCaller /\ TimerCall
                      \/ Expires(i) /\ ~timers[i].is_periodic
    OBVIOUS
  <2>1. CASE TimerCall
    BY <2>1 DEF TimerCall, timer_create, timer_delete, timer_start, timer_stop, timer_reset
  <2>2. CASE VisitTimer
    <3>1. /\ timers' = IF Counts(timer_cursor)
                       THEN [timers EXCEPT ![timer_cursor] = Counted(@)] ELSE timers
          /\ ~in_callback
          /\ in_callback' = (Counts(timer_cursor) /\ timers[timer_cursor].remaining = 1)
      BY <2>2 DEF VisitTimer
    <3>2. i = timer_cursor /\ Counts(i) /\ timers'[i] = Counted(timers[i])
      BY <3>1 DEF TimerSlotsOK
    <3>3. timers[i] \in TimerControlBlock /\ timers[i].remaining \in Nat /\ timers[i].remaining > 0
      BY <3>2 DEF TimerSlotsOK, TimerControlBlock, Counts
    <3>4. ~(timers[i].remaining > 1) /\ ~timers[i].is_periodic
      BY <3>2, <3>3 DEF Counted, TimerControlBlock
    <3>5. timers[i].remaining = 1
      BY <3>3, <3>4
    <3> QED BY <3>1, <3>2, <3>4, <3>5 DEF Expires
  <2>3. CASE CallbackReturns \/ FinishTimers \/ EnterHandler \/ OtherKernelStep
    BY <2>3 DEF CallbackReturns, FinishTimers, EnterHandler, OtherKernelStep, slotVars
  <2> QED BY <2>1, <2>2, <2>3 DEF TimersNext
<1>2. TimersSpec => [][A]_timersVars
  BY <1>1, SlotsInvariance, PTL DEF TimersSpec
<1> QED
  BY <1>2 DEF StartsAreKept

=============================================================================
