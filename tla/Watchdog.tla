------------------------------ MODULE Watchdog ------------------------------
(***************************************************************************)
(* The watchdog of safety/watchdog.c: tasks register and kick, a check     *)
(* looks for those that have not kicked for too long.  The operators named *)
(* after the C functions take and return the record g_watchdog, so that    *)
(* module Flight can use them inside the loops of the tasks; the machine   *)
(* of this module makes every call at any time.                            *)
(*                                                                         *)
(* Left out: the counters total_timeouts and total_recoveries, the flag    *)
(* enabled of an entry, which is set on registration and never cleared,    *)
(* and recovery_callback, which is NULL in every registration.             *)
(***************************************************************************)
EXTENDS Ticks, Sequences, SequencesExt

CONSTANTS
  TaskIds,         \* the task ids callers name
  CriticalIds,     \* those registered as critical
  WatchdogMaxTasks,
  AdjustableIds,   \* those whose time-out callers change later
  Timeouts,        \* the time-outs callers give; 0 asks for the global one
  CheckIntervals,  \* the arguments of watchdog_set_check_interval
  SilenceCap       \* bound: silence is counted up to here

DefaultTimeout == 2   \* WATCHDOG_DEFAULT_TIMEOUT_MS, in ticks of the model
DefaultInterval == 1  \* check_interval_ms after watchdog_init, likewise
MaxMissedKicks == 3   \* max_missed_kicks of every entry

ASSUME WatchdogAssumption ==
  /\ WatchdogMaxTasks \in Nat
  /\ Timeouts \subseteq Nat
  /\ CheckIntervals \subseteq Nat
  /\ SilenceCap \in Nat /\ SilenceCap >= TickModulus

VARIABLES
  watchdog,  \* g_watchdog with g_watchdog_initialized
  tick,      \* system_tick
  silence,   \* history: ticks since the task kicked, was registered or reset
  late       \* history: tasks a check has met, since then, past their time-out

history == <<silence, late>>
watchdogVars == <<watchdog, tick, history>>

(* WatchdogState: the order of the enum matters. *)
OK == 0
WARNING == 1
CRITICAL == 2
TIMEOUT == 3

Entry == [task_id : TaskIds, last_kick_time : 0 .. TickModulus - 1,
          timeout_ms : Nat, missed_kicks : Nat,
          state : OK .. TIMEOUT, is_critical : BOOLEAN]

WatchdogContext ==
  [initialized : BOOLEAN, enabled : BOOLEAN, tasks : Seq(Entry),
   last_check_time : 0 .. TickModulus - 1, check_interval_ms : Nat,
   global_timeout_ms : Nat, global_state : {OK, WARNING, CRITICAL}]

(* No task has two entries. *)
Distinct(tasks) ==
  \A i, j \in DOMAIN tasks : tasks[i].task_id = tasks[j].task_id => i = j

RegisteredIds(w) == {w.tasks[i].task_id : i \in DOMAIN w.tasks}
Position(w, t) == CHOOSE i \in DOMAIN w.tasks : w.tasks[i].task_id = t
EntryOf(w, t) == w.tasks[Position(w, t)]

-----------------------------------------------------------------------------
(* safety/watchdog.c                                                       *)

ZeroWatchdog ==
  [initialized |-> FALSE, enabled |-> FALSE, tasks |-> <<>>, last_check_time |-> 0,
   check_interval_ms |-> 0, global_timeout_ms |-> 0, global_state |-> OK]

watchdog_init(w) ==
  IF w.initialized THEN w
  ELSE [ZeroWatchdog EXCEPT !.initialized = TRUE, !.enabled = TRUE,
                            !.check_interval_ms = DefaultInterval,
                            !.global_timeout_ms = DefaultTimeout]

watchdog_start(w, now) ==
  [watchdog_init(w) EXCEPT !.enabled = TRUE, !.last_check_time = now]

watchdog_stop(w) == [w EXCEPT !.enabled = FALSE]

IsLate(e, now) == Elapsed(now, e.last_kick_time) > e.timeout_ms

(* Mutant: the state of a late entry is set to TIMEOUT last. *)
CheckEntryOverwrites(e, now) ==
  IF IsLate(e, now)
  THEN [e EXCEPT !.missed_kicks = IF @ < MaxMissedKicks THEN @ + 1 ELSE @,
                 !.state = TIMEOUT]
  ELSE [e EXCEPT !.state = OK]

(* What a check does to one entry.  missed_kicks is counted up to          *)
(* MaxMissedKicks: the code only asks whether it has reached that.         *)
CheckEntry(e, now) ==
  IF IsLate(e, now)
  THEN LET missed == e.missed_kicks + 1
       IN [e EXCEPT !.missed_kicks = IF missed > MaxMissedKicks THEN MaxMissedKicks ELSE missed,
                    !.state = IF missed >= MaxMissedKicks THEN CRITICAL ELSE TIMEOUT]
  ELSE IF 10 * Elapsed(now, e.last_kick_time) > 7 * e.timeout_ms
  THEN [e EXCEPT !.state = IF @ = OK THEN WARNING ELSE @]
  ELSE [e EXCEPT !.state = OK]

(* Mutant: a late task that is not critical always sets WARNING. *)
GlobalLastWins(g, e, now) ==
  IF ~IsLate(e, now) THEN g ELSE IF e.is_critical THEN CRITICAL ELSE WARNING

(* What a check of one entry does to global_state. *)
GlobalAfter(g, e, now) ==
  IF ~IsLate(e, now) THEN g
  ELSE IF e.is_critical THEN CRITICAL
  ELSE IF g < WARNING THEN WARNING ELSE g

(* What the loop of a check leaves in global_state. *)
GlobalState(tasks, now) == FoldLeft(LAMBDA g, e : GlobalAfter(g, e, now), OK, tasks)

(* watchdog_update returns before it looks at the tasks unless this holds. *)
CheckDue(w, now) ==
  /\ w.initialized /\ w.enabled
  /\ Elapsed(now, w.last_check_time) >= w.check_interval_ms

watchdog_update(w, now) ==
  IF ~CheckDue(w, now) THEN w
  ELSE [w EXCEPT !.last_check_time = now,
                 !.global_state = GlobalState(w.tasks, now),
                 !.tasks = [i \in DOMAIN w.tasks |-> CheckEntry(w.tasks[i], now)]]

(* Does not test whether the watchdog is initialized. *)
watchdog_reset(w, now) ==
  [w EXCEPT !.global_state = OK,
            !.tasks = [i \in DOMAIN w.tasks |->
                        [w.tasks[i] EXCEPT !.missed_kicks = 0, !.state = OK,
                                           !.last_kick_time = now]]]

(* watchdog_register_task returns false. *)
RefusesTask(w, t) == Len(w.tasks) >= WatchdogMaxTasks \/ t \in RegisteredIds(w)

watchdog_register_task(v, t, timeout_ms, is_critical, now) ==
  LET w == watchdog_init(v) IN
  IF RefusesTask(w, t) THEN w
  ELSE [w EXCEPT !.tasks = Append(@,
         [task_id |-> t, last_kick_time |-> now, missed_kicks |-> 0, state |-> OK,
          is_critical |-> is_critical,
          timeout_ms |-> IF timeout_ms > 0 THEN timeout_ms ELSE w.global_timeout_ms])]

(* Mutant: the entries after the removed one are not shifted. *)
UnregisterDropsLast(w, t) ==
  IF t \notin RegisteredIds(w) THEN w ELSE [w EXCEPT !.tasks = Front(@)]

(* The entries after the removed one are shifted. *)
watchdog_unregister_task(w, t) ==
  IF t \notin RegisteredIds(w) THEN w ELSE [w EXCEPT !.tasks = RemoveAt(@, Position(w, t))]

(* Mutant: a kick leaves the count of missed kicks. *)
KickedKeepsMisses(e, now) ==
  [e EXCEPT !.last_kick_time = now,
            !.state = IF @ \in {WARNING, TIMEOUT} THEN OK ELSE @]

(* A kick clears a warning and a time-out, but not CRITICAL. *)
Kicked(e, now) ==
  [e EXCEPT !.last_kick_time = now, !.missed_kicks = 0,
            !.state = IF @ \in {WARNING, TIMEOUT} THEN OK ELSE @]

watchdog_kick(w, t, now) ==
  IF ~w.initialized THEN w
  ELSE [w EXCEPT !.tasks = [i \in DOMAIN w.tasks |->
         IF w.tasks[i].task_id = t THEN Kicked(w.tasks[i], now) ELSE w.tasks[i]]]

watchdog_set_task_timeout(w, t, timeout_ms) ==
  [w EXCEPT !.tasks = [i \in DOMAIN w.tasks |->
     IF w.tasks[i].task_id = t THEN [w.tasks[i] EXCEPT !.timeout_ms = timeout_ms]
                               ELSE w.tasks[i]]]

-----------------------------------------------------------------------------
(* Any caller, any order                                                   *)

WatchdogInit ==
  /\ watchdog = ZeroWatchdog
  /\ tick = 0
  /\ silence = [t \in TaskIds |-> 0]
  /\ late = {}

(* The history of a task starts again when it is kicked or registered.     *)
Heard(T) ==
  /\ silence' = [t \in TaskIds |-> IF t \in T THEN 0 ELSE silence[t]]
  /\ late' = late \ T

Start == watchdog' = watchdog_start(watchdog, tick) /\ UNCHANGED <<tick, history>>

Stop == watchdog.enabled /\ watchdog' = watchdog_stop(watchdog) /\ UNCHANGED <<tick, history>>

(* A check adds to the late ones those truly silent for too long. *)
TrulyLate(w) == {t \in RegisteredIds(w) : silence[t] > EntryOf(w, t).timeout_ms}

Check ==
  /\ CheckDue(watchdog, tick)
  /\ UNCHANGED <<tick, silence>>
  /\ watchdog' = watchdog_update(watchdog, tick)
  /\ late' = late \cup TrulyLate(watchdog)

Reset ==
  /\ watchdog' = watchdog_reset(watchdog, tick)
  /\ Heard(RegisteredIds(watchdog))
  /\ UNCHANGED tick

Register(t) ==
  /\ t \notin RegisteredIds(watchdog)
  /\ \E ms \in Timeouts :
       watchdog' = watchdog_register_task(watchdog, t, ms, t \in CriticalIds, tick)
  /\ Heard({t})
  /\ UNCHANGED tick

(* Registering a task again is refused. *)
RegisterAgain(t) ==
  /\ t \in RegisteredIds(watchdog)
  /\ \E ms \in Timeouts :
       watchdog' = watchdog_register_task(watchdog, t, ms, TRUE, tick)
  /\ UNCHANGED <<tick, history>>

Unregister(t) ==
  /\ t \in RegisteredIds(watchdog)
  /\ UNCHANGED tick
  /\ Heard({t})
  /\ watchdog' = watchdog_unregister_task(watchdog, t)

Kick(t) ==
  /\ t \in RegisteredIds(watchdog)
  /\ watchdog' = watchdog_kick(watchdog, t, tick)
  /\ Heard({t})
  /\ UNCHANGED tick

SetTaskTimeout(t) ==
  /\ t \in AdjustableIds \cap RegisteredIds(watchdog)
  /\ \E ms \in Timeouts : watchdog' = watchdog_set_task_timeout(watchdog, t, ms)
  /\ UNCHANGED <<tick, history>>

watchdog_set_check_interval ==
  /\ \E ms \in CheckIntervals : watchdog' = [watchdog EXCEPT !.check_interval_ms = ms]
  /\ UNCHANGED <<tick, history>>

(* Time passes; silence grows for the tasks the watchdog knows. *)
Aged(w) == [t \in TaskIds |-> IF t \in RegisteredIds(w) /\ silence[t] < SilenceCap
                              THEN silence[t] + 1 ELSE silence[t]]

Tick ==
  /\ tick' = (tick + 1) % TickModulus
  /\ silence' = Aged(watchdog)
  /\ UNCHANGED <<watchdog, late>>

WatchdogNext ==
  \/ Start \/ Stop \/ Check \/ Reset \/ Tick \/ watchdog_set_check_interval
  \/ \E t \in TaskIds : Register(t) \/ RegisterAgain(t) \/ Unregister(t) \/ Kick(t)
                        \/ SetTaskTimeout(t)

WatchdogSpec == WatchdogInit /\ [][WatchdogNext]_watchdogVars

-----------------------------------------------------------------------------
(* Properties                                                              *)

(* Every entry is well formed and no task has two (watchdog_register_task).*)
WatchdogTypeOK ==
  /\ watchdog \in WatchdogContext
  /\ Len(watchdog.tasks) <= WatchdogMaxTasks /\ Distinct(watchdog.tasks)
  /\ tick \in 0 .. TickModulus - 1
  /\ silence \in [TaskIds -> 0 .. SilenceCap]
  /\ late \subseteq TaskIds

(* No task is accused wrongly: one with missed kicks, or in state TIMEOUT, *)
(* really was silent for longer than its time-out at some check since it   *)
(* last kicked, whatever was registered, removed or reset in between and   *)
(* however often the tick has wrapped (watchdog_update).                   *)
NoFalseTimeout ==
  \A i \in DOMAIN watchdog.tasks :
    LET e == watchdog.tasks[i]
    IN e.missed_kicks > 0 \/ e.state = TIMEOUT => e.task_id \in late

(* A CRITICAL entry either has used up its missed kicks or has kicked since*)
(* and waits for the check that clears it; a TIMEOUT entry has missed some *)
(* but not all (watchdog_update with watchdog_kick, which leaves CRITICAL).*)
StateFitsMisses ==
  \A i \in DOMAIN watchdog.tasks :
    LET e == watchdog.tasks[i]
    IN /\ e.state = CRITICAL => e.missed_kicks \in {0, MaxMissedKicks}
       /\ e.state = TIMEOUT => e.missed_kicks \in 1 .. MaxMissedKicks - 1

(* What a check leaves behind agrees with the true silence of each task,   *)
(* as long as none has been silent for a whole wrap of the tick: the late  *)
(* tasks are marked and the lively ones cleared, and global_state tells    *)
(* the worst of them in whatever order they are registered                 *)
(* (watchdog_update).                                                      *)
CheckTellsTruth ==
  [][Check /\ (\A t \in RegisteredIds(watchdog) : silence[t] < TickModulus) =>
       LET wrong == TrulyLate(watchdog)
       IN /\ \A t \in RegisteredIds(watchdog) :
               LET e == EntryOf(watchdog', t)
               IN /\ t \in wrong => e.state \in {TIMEOUT, CRITICAL}
                  /\ 10 * silence[t] <= 7 * e.timeout_ms => e.state = OK
          /\ (watchdog'.global_state = CRITICAL)
               <=> \E t \in wrong : EntryOf(watchdog, t).is_critical
          /\ (watchdog'.global_state = OK) <=> (wrong = {})]_watchdogVars

(* Removing a task leaves the entries of the others as they were           *)
(* (watchdog_unregister_task shifts them).                                 *)
UnregisterKeepsOthers ==
  [][\A t \in TaskIds : Unregister(t) =>
       /\ RegisteredIds(watchdog') = RegisteredIds(watchdog) \ {t}
       /\ \A u \in RegisteredIds(watchdog') :
            EntryOf(watchdog', u) = EntryOf(watchdog, u)]_watchdogVars

=============================================================================
