------------------------------ MODULE Failsafe ------------------------------
(***************************************************************************)
(* The failsafe actions of safety/failsafe_actions.c: the record           *)
(* g_failsafe_state with its statistics, and the operators named after the *)
(* C functions that take and return it.  Times are in ticks of the model,  *)
(* which stand for a second, rounded up; now is kernel_get_tick().         *)
(*                                                                         *)
(* The state is the one after failsafe_actions_init with the default       *)
(* configuration, as system_init leaves it.  An action only prints, except *)
(* TERMINATE, which no trigger of that configuration has.                  *)
(***************************************************************************)
EXTENDS Ticks

Triggers == {"BATTERY", "GPS_LOSS", "RC_LOSS", "SENSOR_FAILURE", "COMM_LOSS",
             "ALTITUDE_LIMIT", "SPEED_LIMIT", "ATTITUDE_LIMIT", "WATCHDOG",
             "GE_FENCE", "MANUAL"}
Actions == {"NONE", "LAND", "RTL", "HOLD"}

VARIABLE failsafe

(* The actions and delays of failsafe_config_set_default.  The switch of   *)
(* failsafe_actions_trigger has no case for a fence or a manual trigger:   *)
(* they land after a second.                                               *)
ActionFor(trigger) ==
  CASE trigger \in {"GPS_LOSS", "SPEED_LIMIT", "ATTITUDE_LIMIT"} -> "HOLD"
    [] trigger = "COMM_LOSS" -> "RTL"
    [] OTHER -> "LAND"

DelayFor(trigger) ==
  CASE trigger \in {"GPS_LOSS", "COMM_LOSS"} -> 5
    [] trigger = "RC_LOSS" -> 3
    [] trigger = "WATCHDOG" -> 0
    [] OTHER -> 1

Enabled(trigger) == trigger # "GE_FENCE"

(* gps_timeout_ms, rc_timeout_ms, comm_timeout_ms, sensor_timeout_ms *)
TimeoutFor(trigger) ==
  CASE trigger \in {"GPS_LOSS", "COMM_LOSS"} -> 10
    [] trigger = "RC_LOSS" -> 3
    [] trigger = "SENSOR_FAILURE" -> 1

FailsafeInit ==
  failsafe = [active |-> FALSE, trigger_type |-> "BATTERY", current_action |-> "NONE",
              action_start_time |-> 0, action_duration_ms |-> 0, executed |-> FALSE,
              triggers |-> 0, executions |-> 0, recoveries |-> 0]

FailsafeStates ==
  [active : BOOLEAN, trigger_type : Triggers, current_action : Actions,
   action_start_time : Nat, action_duration_ms : Nat, executed : BOOLEAN,
   triggers : Nat, executions : Nat, recoveries : Nat]

(* failsafe_execute_action returns true. *)
Executable(action) == action # "NONE"

(* Mutant: a trigger replaces the one that is active. *)
TriggerReplaces(f, trigger, now) ==
  [f EXCEPT !.active = TRUE, !.trigger_type = trigger,
            !.action_start_time = now, !.current_action = ActionFor(trigger),
            !.action_duration_ms = DelayFor(trigger),
            !.triggers = @ + 1, !.executions = @ + 1]

(* Refused while a failsafe is active.  The action is executed here, at    *)
(* once; the delay only becomes action_duration_ms.                        *)
failsafe_actions_trigger(f, trigger, now) ==
  IF f.active THEN f
  ELSE [f EXCEPT !.active = TRUE, !.trigger_type = trigger,
                 !.action_start_time = now, !.current_action = ActionFor(trigger),
                 !.action_duration_ms = DelayFor(trigger), !.triggers = @ + 1,
                 !.executions = IF Executable(ActionFor(trigger)) THEN @ + 1 ELSE @]

(* Calls nothing: it notes that the duration is over. *)
failsafe_actions_update(f, now) ==
  IF /\ f.active /\ f.action_duration_ms > 0
     /\ Elapsed(now, f.action_start_time) >= f.action_duration_ms
  THEN [f EXCEPT !.executed = TRUE] ELSE f

(* Mutant: executed is not cleared. *)
ResetKeepsExecuted(f) == [f EXCEPT !.active = FALSE, !.current_action = "NONE"]

failsafe_actions_reset(f) ==
  [f EXCEPT !.active = FALSE, !.current_action = "NONE", !.executed = FALSE]

(* recovery_possible is always true. *)
failsafe_recover(f) ==
  IF f.active THEN failsafe_actions_reset([f EXCEPT !.recoveries = @ + 1]) ELSE f

-----------------------------------------------------------------------------
(* The checks.  A measured value is only told apart by the limit it is on  *)
(* the wrong side of.                                                      *)

TriggerIf(cond, f, trigger, now) ==
  IF Enabled(trigger) /\ cond THEN failsafe_actions_trigger(f, trigger, now) ELSE f

(* Low and critical do the same. *)
failsafe_check_battery(f, voltage, now) == TriggerIf(voltage = "low", f, "BATTERY", now)

failsafe_check_gps(f, has_fix, last_update, now) ==
  TriggerIf(has_fix /\ Elapsed(now, last_update) > TimeoutFor("GPS_LOSS"), f, "GPS_LOSS", now)

failsafe_check_rc(f, last_update, now) ==
  TriggerIf(Elapsed(now, last_update) > TimeoutFor("RC_LOSS"), f, "RC_LOSS", now)

failsafe_check_comm(f, last_heartbeat, now) ==
  TriggerIf(Elapsed(now, last_heartbeat) > TimeoutFor("COMM_LOSS"), f, "COMM_LOSS", now)

failsafe_check_sensors(f, last_update, now) ==
  TriggerIf(Elapsed(now, last_update) > TimeoutFor("SENSOR_FAILURE"), f, "SENSOR_FAILURE", now)

failsafe_check_altitude(f, outside, now) == TriggerIf(outside, f, "ALTITUDE_LIMIT", now)

failsafe_check_speed(f, too_fast, now) == TriggerIf(too_fast, f, "SPEED_LIMIT", now)

failsafe_check_attitude(f, too_steep, now) ==
  TriggerIf(too_steep, f, "ATTITUDE_LIMIT", now)

failsafe_check_geofence(f, outside, now) == TriggerIf(outside, f, "GE_FENCE", now)

=============================================================================
