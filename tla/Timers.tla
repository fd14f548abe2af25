------------------------------- MODULE Timers -------------------------------
(***************************************************************************)
(* The software timers of kernel/rtos_timer.c and their part of            *)
(* kernel_tick_handler, in the kernel of module Kernel.                    *)
(*                                                                         *)
(* After the sleepers, the tick handler walks over g_kernel.timers and     *)
(* calls the callback of every timer that expires.  A callback is code of  *)
(* the application: it makes any sequence of timer calls, also on the      *)
(* timer that runs it, and returns.  A callback that makes a task READY or *)
(* calls kernel_schedule is not modelled.                                  *)
(***************************************************************************)
EXTENDS Kernel

CONSTANTS
  MaxTimers,     \* AERORTOS_CONFIG_MAX_TIMERS
  Kinds,         \* the timers created: pairs of a period and is_periodic
  CreateLimit    \* bound on timer_counter

ASSUME TimersAssumption ==
  /\ MaxTimers \in Nat \ {0}
  /\ Kinds \subseteq (Nat \ {0}) \X BOOLEAN
  /\ CreateLimit \in Nat

VARIABLES
  timers,        \* g_kernel.timers
  timer_counter,
  timer_cursor,  \* the loop variable of the walk over timers
  in_callback,   \* is the callback of timer timer_cursor - 1 running?
  handled,       \* history: how often the tick handler was entered
  started        \* history: when a running timer was last loaded

slotVars == <<timers, timer_counter, started>>
walkVars == <<timer_cursor, in_callback, handled>>
timersVars == <<vars, slotVars, walkVars>>

Slots == 1 .. MaxTimers
Periods == {k[1] : k \in Kinds}
FreeTimer == [timer_id |-> 0, period |-> 0, remaining |-> 0,
              is_periodic |-> FALSE, is_active |-> FALSE]
NotStarted == [tick |-> 0, run |-> 0, in_walk |-> FALSE]

TimerControlBlock ==
  [timer_id : 0 .. CreateLimit, period : Periods \cup {0}, remaining : Nat,
   is_periodic : BOOLEAN, is_active : BOOLEAN]

TimersTypeOK ==
  /\ timers \in [Slots -> TimerControlBlock]
  /\ timer_counter \in 0 .. CreateLimit
  /\ timer_cursor \in 1 .. MaxTimers + 1
  /\ in_callback \in BOOLEAN
  /\ handled \in Nat
  /\ started \in [Slots -> [tick : Nat, run : Nat, in_walk : BOOLEAN]]
  /\ timer_cursor > 1 => pc = "walk"
  /\ in_callback => timer_cursor > 1
  /\ \A i \in Slots : timers[i].remaining <= timers[i].period

TimersInit ==
  /\ Init
  /\ timers = [i \in Slots |-> FreeTimer]
  /\ timer_counter = 0
  /\ timer_cursor = 1
  /\ in_callback = FALSE
  /\ handled = 0
  /\ started = [i \in Slots |-> NotStarted]

-----------------------------------------------------------------------------
(* Calls, from tasks and from callbacks                                    *)

TimerCaller == MayCall("timer") \/ in_callback

(* The slot a loop over timers finds first.                                *)
FirstSlot(id) == CHOOSE i \in Slots :
  timers[i].timer_id = id /\ \A j \in Slots : timers[j].timer_id = id => i <= j

HasSlot(id) == \E i \in Slots : timers[i].timer_id = id

(* History: a running timer is loaded now, or is not running.              *)
Loaded(i) == started' = [started EXCEPT ![i] =
  IF timers'[i].is_active
  THEN [tick |-> system_tick, run |-> handled, in_walk |-> in_callback]
  ELSE NotStarted]

(* A new timer is not running.                                             *)
timer_create(period, periodic) ==
  /\ TimerCaller
  /\ timer_counter < CreateLimit
  /\ HasSlot(0)
  /\ timer_counter' = timer_counter + 1
  /\ timers' = [timers EXCEPT ![FirstSlot(0)] =
       [timer_id |-> timer_counter + 1, period |-> period, remaining |-> period,
        is_periodic |-> periodic, is_active |-> FALSE]]
  /\ Loaded(FirstSlot(0))
  /\ UNCHANGED <<vars, walkVars>>

(* Nobody checks that id is not 0, the id of a free slot: the four calls   *)
(* then succeed on the first free slot.                                    *)
timer_delete(id) ==
  /\ TimerCaller
  /\ HasSlot(id)
  /\ timers' = [timers EXCEPT ![FirstSlot(id)] = FreeTimer]
  /\ Loaded(FirstSlot(id))
  /\ UNCHANGED <<vars, timer_counter, walkVars>>

(* Mutant: a stopped timer goes on where it was. *)
StartKeepsRemaining(id) ==
  /\ TimerCaller
  /\ HasSlot(id)
  /\ timers' = [timers EXCEPT ![FirstSlot(id)].is_active = TRUE]
  /\ Loaded(FirstSlot(id))
  /\ UNCHANGED <<vars, timer_counter, walkVars>>

timer_start(id) ==
  /\ TimerCaller
  /\ HasSlot(id)
  /\ timers' = [timers EXCEPT ![FirstSlot(id)].is_active = TRUE,
                              ![FirstSlot(id)].remaining = timers[FirstSlot(id)].period]
  /\ Loaded(FirstSlot(id))
  /\ UNCHANGED <<vars, timer_counter, walkVars>>

timer_stop(id) ==
  /\ TimerCaller
  /\ HasSlot(id)
  /\ timers' = [timers EXCEPT ![FirstSlot(id)].is_active = FALSE]
  /\ Loaded(FirstSlot(id))
  /\ UNCHANGED <<vars, timer_counter, walkVars>>

timer_reset(id) ==
  /\ TimerCaller
  /\ HasSlot(id)
  /\ timers' = [timers EXCEPT ![FirstSlot(id)].remaining = timers[FirstSlot(id)].period]
  /\ Loaded(FirstSlot(id))
  /\ UNCHANGED <<vars, timer_counter, walkVars>>

TimerCall ==
  \/ \E k \in Kinds : timer_create(k[1], k[2])
  \/ \E id \in 0 .. CreateLimit :
       timer_delete(id) \/ timer_start(id) \/ timer_stop(id) \/ timer_reset(id)

-----------------------------------------------------------------------------
(* The walk in kernel_tick_handler                                         *)

Walking == pc = "walk" /\ cursor = NULL

Counts(i) == timers[i].is_active /\ timers[i].timer_id # 0 /\ timers[i].remaining > 0

(* What a tick makes of a running timer: an expiring one is reloaded or    *)
(* switched off before its callback is called.                             *)
Counted(t) ==
  IF t.remaining > 1 THEN [t EXCEPT !.remaining = @ - 1]
  ELSE IF t.is_periodic THEN [t EXCEPT !.remaining = t.period]
  ELSE [t EXCEPT !.remaining = 0, !.is_active = FALSE]

(* Mutant: the timer after an expired one is skipped. *)
VisitTimerSkips ==
  /\ Walking /\ ~in_callback /\ timer_cursor <= MaxTimers
  /\ LET i == timer_cursor
         expires == Counts(i) /\ timers[i].remaining = 1
     IN /\ timers' = IF Counts(i) THEN [timers EXCEPT ![i] = Counted(@)] ELSE timers
        /\ in_callback' = expires
        /\ IF expires THEN Loaded(i) ELSE UNCHANGED started
        /\ timer_cursor' = IF expires /\ i < MaxTimers THEN i + 2 ELSE i + 1
  /\ UNCHANGED <<vars, timer_counter, handled>>

VisitTimer ==
  /\ Walking /\ ~in_callback /\ timer_cursor <= MaxTimers
  /\ LET i == timer_cursor
         expires == Counts(i) /\ timers[i].remaining = 1
     IN /\ timers' = IF Counts(i) THEN [timers EXCEPT ![i] = Counted(@)] ELSE timers
        /\ in_callback' = expires
        /\ IF expires THEN Loaded(i) ELSE UNCHANGED started
  /\ timer_cursor' = timer_cursor + 1
  /\ UNCHANGED <<vars, timer_counter, handled>>

(* Mutant: a one-shot timer is switched off after its callback. *)
CallbackReturnsDisarms ==
  /\ in_callback
  /\ in_callback' = FALSE
  /\ timers' = [timers EXCEPT ![timer_cursor - 1].is_active = @ /\ timers[timer_cursor - 1].is_periodic]
  /\ UNCHANGED <<vars, timer_counter, started, timer_cursor, handled>>

CallbackReturns ==
  /\ in_callback
  /\ in_callback' = FALSE
  /\ UNCHANGED <<vars, slotVars, timer_cursor, handled>>

(* The rest of the handler, once both walks are over.                      *)
FinishTimers ==
  /\ ~in_callback /\ timer_cursor > MaxTimers
  /\ FinishTickHandler
  /\ timer_cursor' = 1
  /\ UNCHANGED <<slotVars, in_callback, handled>>

(* Every other step of the kernel; those that enter the handler count.     *)
EnterHandler ==
  /\ SchedulePendingTick \/ (timer_pending /\ IdleTick)
  /\ handled' = handled + 1
  /\ UNCHANGED <<slotVars, timer_cursor, in_callback>>

OtherKernelStep ==
  /\ \/ TimerThread \/ KernelCall \/ kernel_start \/ IdleYield \/ Exited
     \/ ~timer_pending /\ IdleTick
     \/ ScheduleNoTick \/ VisitSleeper
     \/ KeepCurrent \/ PickSameTask \/ DispatchFirstRun \/ SwitchContext
  /\ UNCHANGED <<slotVars, walkVars>>

TimersNext ==
  \/ TimerCall
  \/ VisitTimer \/ CallbackReturns \/ FinishTimers
  \/ EnterHandler \/ OtherKernelStep

TimersSpec == TimersInit /\ [][TimersNext]_timersVars

-----------------------------------------------------------------------------
(* Properties                                                              *)

(* The timer thread and the main thread share timer_pending without a      *)
(* lock; still the handler runs at most once for every tick that has       *)
(* passed, so that no timer runs fast because a tick was handled twice.    *)
TicksHandledOnce ==
  handled + (IF timer_pending THEN 1 ELSE 0) + (IF timer_pc = "set" THEN 1 ELSE 0)
    <= system_tick

(* Every run of the handler counts once for every running timer, whatever  *)
(* callbacks start, stop, delete or create in the middle of the walk: what *)
(* is gone of the period are the runs since the timer was loaded, without  *)
(* the one whose walk has not reached it.  Only a timer that a callback    *)
(* loads ahead of the walk may count that run, which began before it.      *)
Runs(i) ==
  handled - started[i].run - (IF pc = "walk" /\ timer_cursor <= i THEN 1 ELSE 0)

EveryTickCounts ==
  \A i \in Slots :
    timers[i].is_active /\ timers[i].timer_id # 0 =>
      timers[i].period - timers[i].remaining - Runs(i)
        \in (IF started[i].in_walk THEN {0, 1} ELSE {0})

(* A timer expires at most two ticks of the timer thread early, since when *)
(* it is loaded one tick may be pending and another counted in system_tick *)
(* but not yet pending; three, when a callback loads it and the walk that  *)
(* is going on reaches it.                                                 *)
Expires(i) == ~in_callback /\ in_callback' /\ timer_cursor = i

NotTooEarly ==
  [][\A i \in Slots :
       Expires(i) => system_tick - started[i].tick + 2 + (IF started[i].in_walk THEN 1 ELSE 0)
                       >= timers[i].period]_timersVars

(* A running timer is switched off only by a call that stops, deletes or   *)
(* replaces it, or by expiring itself: a callback that starts its own      *)
(* one-shot timer again finds it running when the callback is over.        *)
StartsAreKept ==
  [][\A i \in Slots :
       timers[i].is_active /\ ~timers'[i].is_active =>
         \/ TimerCaller /\ TimerCall
         \/ Expires(i) /\ ~timers[i].is_periodic]_timersVars

=============================================================================
