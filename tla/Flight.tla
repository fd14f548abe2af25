------------------------------- MODULE Flight -------------------------------
(***************************************************************************)
(* The tasks of main.c around the safety services: they kick the watchdog, *)
(* the monitor task turns a watchdog alarm into a failsafe, the safety     *)
(* task checks the limits, and the control and navigation tasks obey an    *)
(* active failsafe.                                                        *)
(*                                                                         *)
(* All tasks run in one thread and switch only in kernel calls, so a turn  *)
(* of a task's loop is one step, or two when a kernel call lies in between *)
(* the parts that matter (control).  Which task runs next is open, and so  *)
(* is how late it runs; whether a task's semaphore_take succeeds is open   *)
(* too: a turn in which it fails does nothing here.  Ticks stand for       *)
(* seconds.                                                                *)
(***************************************************************************)
EXTENDS Watchdog, Failsafe, Health

CONSTANTS
  TimeoutOf,      \* the time-outs of the tasks an instance registers
  KickingTasks,   \* the tasks of an instance that do nothing here but kick
  ControllerLevels, \* what the controller's outputs may be
  MonitorPeriod,  \* the sleep of the watchdog task
  TickLimit,      \* bound: time stops at this tick
  MaxEpisodes     \* bound: how many failsafes are ended from outside

Registered == DOMAIN TimeoutOf

(* Motor outputs are from 0.0 to 1.0; failsafe_throttle goes down from 0.5 *)
(* to 0.1, here in two steps.                                              *)
FloorLevel == 1
StartLevel == 3
FullLevel == 4
Levels == FloorLevel .. StartLevel

ASSUME FlightAssumption ==
  /\ Registered \subseteq {"Sensor", "Estimator", "Control", "Safety", "Navigation",
                            "Telemetry", "GCS", "PerfMonitor"}
  /\ Registered = TaskIds
  /\ KickingTasks \subseteq {"Sensor", "Telemetry", "GCS", "PerfMonitor"}
  /\ \A t \in Registered : TimeoutOf[t] \in Nat \ {0}
  /\ Cardinality(Registered) <= WatchdogMaxTasks
  /\ ControllerLevels \subseteq 0 .. FullLevel
  /\ MonitorPeriod \in Nat /\ MonitorPeriod >= DefaultInterval
  /\ TickLimit \in Nat /\ TickLimit < TickModulus
  /\ MaxEpisodes \in Nat

VARIABLES
  motors,            \* who set g_motor_outputs last, and the level of the fastest
  failsafe_throttle, \* the static of control_task_function
  control_pc,        \* control task: at the top of its "loop", or "kick" to come
  monitor_wake,      \* when the watchdog task's sleep ends
  battery,           \* g_battery_voltage against the limits
  cause,             \* history: the critical tasks late at the watchdog's alarm
  ended              \* history: failsafes ended so far

taskVars == <<motors, failsafe_throttle, control_pc, monitor_wake, battery>>
flightVars == <<watchdogVars, failsafe, health, taskVars, cause, ended>>

MotorsBy(who, level) == [by |-> who, level |-> level]

(* Mutant: navigation, which a failsafe pauses, counts as critical. *)
EveryTaskCritical == {"Sensor", "Estimator", "Control", "Safety", "Navigation"}

(* The tasks system_init registers as critical. *)
CriticalTasks == {"Sensor", "Estimator", "Control", "Safety"}

(* What the calls of watchdog_register_task by system_init make of w.      *)
RegisterAll(w, tasks) ==
  FoldLeft(LAMBDA v, t : watchdog_register_task(v, t, TimeoutOf[t], t \in CriticalTasks, 0),
           w, tasks)

(* system_init, up to kernel_start.  The order of the registrations is     *)
(* left open.                                                              *)
FlightInit ==
  /\ watchdog = RegisterAll(watchdog_start(ZeroWatchdog, 0), SetToSeq(Registered))
  /\ tick = 0 /\ silence = [t \in TaskIds |-> 0] /\ late = {}
  /\ FailsafeInit
  /\ health = health_monitor_init
  /\ motors = MotorsBy("off", 0) /\ failsafe_throttle = StartLevel /\ control_pc = "loop"
  /\ monitor_wake = 0 /\ battery = "good"
  /\ cause = {} /\ ended = 0

-----------------------------------------------------------------------------
(* The loops of main.c                                                     *)

(* watchdog_kick_current by t. *)
KickedBy(t) == watchdog' = watchdog_kick(watchdog, t, tick) /\ Heard({t})

(* Sensor, telemetry, GCS and performance tasks: a turn that kicks.  (The  *)
(* sensor task kicks in every hundredth turn.)                             *)
KickingTurn(t) ==
  /\ KickedBy(t)
  /\ UNCHANGED <<tick, failsafe, health, taskVars, cause, ended>>

(* A turn in which sensor_data_sem was taken; unhealthy holds the sensors  *)
(* whose queue was empty, and the filter if it does not find itself well.  *)
estimator_task_function(unhealthy) ==
  /\ health' = LET h1 == health_monitor_update_sensor(health, "imu", "imu" \notin unhealthy)
                   h2 == health_monitor_update_sensor(h1, "gps", "gps" \notin unhealthy)
                   h3 == health_monitor_update_sensor(h2, "baro", "baro" \notin unhealthy)
                   h4 == health_monitor_update_sensor(h3, "mag", TRUE)
               IN health_monitor_update_sensor(h4, "ekf", "ekf" \notin unhealthy)
  /\ KickedBy("Estimator")
  /\ UNCHANGED <<tick, failsafe, taskVars, cause, ended>>

(* The controller and the mixer. *)
ControllerOutputs ==
  /\ \E level \in ControllerLevels : motors' = MotorsBy("pid", level)
  /\ UNCHANGED failsafe_throttle

(* Mutant: the failsafe is not asked. *)
OutputsIgnoreFailsafe == ControllerOutputs

(* The motor outputs: the failsafe overrides the controller and lowers the *)
(* throttle a step each turn, down to its floor.  It starts from where the *)
(* failsafe before it has come to.                                         *)
Outputs ==
  IF failsafe.active
  THEN /\ failsafe_throttle' = IF failsafe_throttle > FloorLevel
                               THEN failsafe_throttle - 1 ELSE FloorLevel
       /\ motors' = MotorsBy("failsafe", failsafe_throttle')
  ELSE ControllerOutputs

(* A turn in which control_update_sem was taken, up to queue_send. *)
control_task_function ==
  /\ control_pc = "loop"
  /\ Outputs
  /\ control_pc' = "kick"
  /\ UNCHANGED <<watchdogVars, failsafe, health, monitor_wake,
                 battery, cause, ended>>

(* The rest of that turn: queue_send and semaphore_give may have let other *)
(* tasks run.                                                              *)
ControlKicks ==
  /\ control_pc = "kick"
  /\ KickedBy("Control")
  /\ control_pc' = "loop"
  /\ UNCHANGED <<tick, failsafe, health, motors, failsafe_throttle,
                 monitor_wake, battery, cause, ended>>

(* A turn in which navigation_update_sem was taken: with an active         *)
(* failsafe it ends before the kick.                                       *)
navigation_task_function ==
  /\ ~failsafe.active
  /\ KickedBy("Navigation")
  /\ UNCHANGED <<tick, failsafe, health, taskVars, cause, ended>>

(* Mutant: a global CRITICAL of an earlier check is not acted on. *)
AlarmOnlyWhenNew(before, after) == before.global_state # CRITICAL /\ after.global_state = CRITICAL

(* The monitor acts on the global state, whether or not the update has     *)
(* just computed it.                                                       *)
Alarm(before, after) == after.global_state = CRITICAL

(* The watchdog task.  It kicks too, but is not registered. *)
watchdog_monitor_task ==
  /\ tick >= monitor_wake
  /\ watchdog' = watchdog_update(watchdog, tick)
  /\ failsafe' = IF Alarm(watchdog, watchdog')
                 THEN failsafe_actions_trigger(failsafe, "WATCHDOG", tick) ELSE failsafe
  /\ monitor_wake' = tick + MonitorPeriod
  /\ cause' = IF failsafe' # failsafe
              THEN {t \in TrulyLate(watchdog) : EntryOf(watchdog, t).is_critical} ELSE cause
  /\ UNCHANGED <<tick, history, health, motors, failsafe_throttle,
                 control_pc, battery, ended>>

(* Mutant: the battery is checked after the speed. *)
BatteryCheckedLate(voltage, limits) ==
  LET f1 == failsafe_check_altitude(failsafe, "altitude" \in limits, tick)
      f2 == failsafe_check_speed(f1, "speed" \in limits, tick)
      f3 == failsafe_check_battery(f2, voltage, tick)
  IN failsafe_check_attitude(f3, "attitude" \in limits, tick)

(* The checks in their order; limits holds the ones exceeded.  GPS, RC,    *)
(* communication and sensors are reported as updated right now.            *)
Checks(voltage, limits) ==
  LET f1 == failsafe_check_battery(failsafe, voltage, tick)
      f2 == failsafe_check_gps(f1, TRUE, tick, tick)
      f3 == failsafe_check_rc(f2, tick, tick)
      f4 == failsafe_check_comm(f3, tick, tick)
      f5 == failsafe_check_sensors(f4, tick, tick)
      f6 == failsafe_check_altitude(f5, "altitude" \in limits, tick)
      f7 == failsafe_check_speed(f6, "speed" \in limits, tick)
      f8 == failsafe_check_attitude(f7, "attitude" \in limits, tick)
  IN failsafe_check_geofence(f8, FALSE, tick)

safety_task_function(limits) ==
  /\ KickedBy("Safety")
  /\ battery' \in {battery, "low"}
  /\ failsafe' = Checks(battery', limits)
  /\ health' = health_monitor_update_system(health_monitor_update(health, tick),
                                            "load" \in limits)
  /\ UNCHANGED <<tick, motors, failsafe_throttle, control_pc,
                 monitor_wake, cause, ended>>

(* The calls that note or end a failsafe, which no task of main.c makes:   *)
(* an operator's.                                                          *)
Operator ==
  /\ failsafe.active
  /\ \/ failsafe' = failsafe_actions_update(failsafe, tick) /\ UNCHANGED ended
     \/ /\ ended < MaxEpisodes
        /\ failsafe' \in {failsafe_recover(failsafe), failsafe_actions_reset(failsafe)}
        /\ ended' = ended + 1
  /\ UNCHANGED <<watchdogVars, health, taskVars, cause>>

TimePasses ==
  /\ tick < TickLimit
  /\ tick' = tick + 1
  /\ silence' = Aged(watchdog)
  /\ UNCHANGED <<watchdog, late, failsafe, health, taskVars, cause, ended>>

FlightNext ==
  \/ \E t \in KickingTasks : KickingTurn(t)
  \/ \E unhealthy \in SUBSET {"imu", "gps", "baro", "ekf"} :
       Cardinality(unhealthy) <= 1 /\ estimator_task_function(unhealthy)
  \/ control_task_function \/ ControlKicks
  \/ navigation_task_function
  \/ watchdog_monitor_task
  \/ \E limits \in SUBSET {"altitude", "speed", "attitude", "load"} :
       Cardinality(limits) <= 1 /\ safety_task_function(limits)
  \/ Operator
  \/ TimePasses

FlightSpec == FlightInit /\ [][FlightNext]_flightVars

-----------------------------------------------------------------------------
(* Properties                                                              *)

FlightTypeOK ==
  /\ WatchdogTypeOK
  /\ RegisteredIds(watchdog) = Registered
  /\ failsafe \in FailsafeStates
  /\ health \in HealthStates
  /\ motors \in [by : {"off", "pid", "failsafe"}, level : 0 .. FullLevel]
  /\ failsafe_throttle \in Levels
  /\ control_pc \in {"loop", "kick"}
  /\ monitor_wake \in Nat
  /\ battery \in {"good", "low"}
  /\ cause \subseteq CriticalTasks
  /\ ended \in 0 .. MaxEpisodes

(* A watchdog failsafe has a cause: when it was triggered, some critical   *)
(* task had truly been silent for longer than its time-out, and not only a *)
(* task that an earlier failsafe had paused (main.c: the monitor reads the *)
(* state of the last check; the navigation task does not kick when paused).*)
AlarmHasCause ==
  failsafe.active /\ failsafe.trigger_type = "WATCHDOG" => cause \ {"Navigation"} # {}

(* Each failsafe executes one action, and each is active until it is ended *)
(* once, whatever the monitor, the safety task and an operator do          *)
(* (failsafe_actions_trigger, failsafe_recover).                           *)
OneActionPerEpisode ==
  /\ failsafe.executions = failsafe.triggers
  /\ failsafe.triggers = ended + (IF failsafe.active THEN 1 ELSE 0)
  /\ failsafe.recoveries <= ended

(* A failsafe is reported as executed only while it is active and for its  *)
(* whole duration, which an earlier one must not shorten                   *)
(* (failsafe_actions_update, failsafe_actions_reset).                      *)
ExecutedNotEarly ==
  failsafe.executed =>
    /\ failsafe.active
    /\ tick - failsafe.action_start_time >= failsafe.action_duration_ms
    /\ failsafe.action_duration_ms > 0

(* After each turn of the watchdog task a failsafe is active if a critical *)
(* task has been silent for longer than its time-out: the check interval   *)
(* and the task's sleep never make it miss one (main.c, watchdog_update).  *)
MonitorCatches ==
  [][(\E t \in CriticalTasks \cap Registered : silence[t] > TimeoutOf[t])
     /\ watchdog_monitor_task => failsafe'.active]_flightVars

(* While a failsafe is active nothing changes its trigger, its action or   *)
(* its start: a second condition does not restart it                       *)
(* (failsafe_actions_trigger).                                             *)
FirstTriggerStays ==
  [][failsafe.active /\ failsafe'.active =>
       /\ failsafe'.trigger_type = failsafe.trigger_type
       /\ failsafe'.current_action = failsafe.current_action
       /\ failsafe'.action_start_time = failsafe.action_start_time]_flightVars

(* With a low battery a failsafe lands, even if the same turn of the safety *)
(* task finds a condition that asks for holding: the first trigger wins, so*)
(* the order of the checks decides (main.c, safety_task_function).         *)
LowBatteryLands ==
  [][~failsafe.active /\ failsafe'.active /\ battery' # "good"
       => failsafe'.current_action = "LAND"]_flightVars

(* While a failsafe is active the controller never gets the motors back.   *)
(* Once a failsafe drives them they only slow down, also if one failsafe   *)
(* takes over from another.  Taking over from the controller, or from      *)
(* motors that are off, may speed them up, but only to less than the       *)
(* throttle failsafe_throttle begins with (main.c, control_task_function). *)
FailsafeKeepsMotors ==
  [][failsafe.active /\ motors' # motors =>
       /\ motors'.by = "failsafe" /\ motors'.level < StartLevel
       /\ motors.by = "failsafe" => motors'.level < motors.level]_flightVars

=============================================================================
