------------------------------- MODULE Health -------------------------------
(***************************************************************************)
(* The health monitor of safety/health_monitor.c: the record g_health and  *)
(* the operators named after the C functions that take and return it.      *)
(* Every one of them that changes the record tests g_health_initialized    *)
(* first; health_monitor_init does not set it (it sets the field           *)
(* g_health.initialized, which nothing reads), so the record stays what    *)
(* health_monitor_init made it.                                            *)
(*                                                                         *)
(* Left out: the log and its counters.  Of the system load the record      *)
(* keeps whether a limit that health_monitor_check tests is exceeded.      *)
(***************************************************************************)
EXTENDS Ticks

Sensors == {"imu", "gps", "baro", "mag", "ekf"}
HealthStatus == {"OK", "WARNING", "ERROR", "CRITICAL"}

VARIABLE health

HealthStates ==
  [g_health_initialized : BOOLEAN, sensors : [Sensors -> BOOLEAN],
   load_high : BOOLEAN, overall_status : HealthStatus,
   last_check_time : 0 .. TickModulus - 1]

HealthInterval == 1  \* check_interval_ms, in ticks of the model

health_monitor_init ==
  [g_health_initialized |-> FALSE, sensors |-> [s \in Sensors |-> TRUE],
   load_high |-> FALSE, overall_status |-> "OK", last_check_time |-> 0]

health_monitor_update_sensor(h, s, healthy) ==
  IF h.g_health_initialized THEN [h EXCEPT !.sensors[s] = healthy] ELSE h

health_monitor_update_system(h, load_high) ==
  IF h.g_health_initialized THEN [h EXCEPT !.load_high = load_high] ELSE h

(* An unhealthy IMU or filter is critical, another sensor an error; the    *)
(* load only counts when all sensors are healthy.                          *)
health_monitor_check(h) ==
  [h EXCEPT !.overall_status =
     IF ~h.sensors["imu"] \/ ~h.sensors["ekf"] THEN "CRITICAL"
     ELSE IF \E s \in Sensors : ~h.sensors[s] THEN "ERROR"
     ELSE IF h.load_high THEN "WARNING" ELSE "OK"]

health_monitor_update(h, now) ==
  IF h.g_health_initialized /\ Elapsed(now, h.last_check_time) >= HealthInterval
  THEN health_monitor_check([h EXCEPT !.last_check_time = now]) ELSE h

=============================================================================
