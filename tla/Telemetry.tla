----------------------------- MODULE Telemetry ------------------------------
(***************************************************************************)
(* The telemetry task of main.c, mavlink_telemetry_update, the frames of   *)
(* communication/mavlink.c, and the UDP socket of                          *)
(* communication/mavlink_udp.c, which the console handler of main.c closes *)
(* from an OS thread of its own when the user stops the program.           *)
(*                                                                         *)
(* A turn of the task takes no time here: system_tick advances while the   *)
(* task sleeps, and what its code and the other tasks take is part of how  *)
(* late it wakes.  The socket loses any datagram, and says nothing.        *)
(***************************************************************************)
EXTENDS Naturals, Sequences

CONSTANTS
  Interval,      \* telemetry_interval_ms, also what the task sleeps: 100
  Second,        \* 1000
  MaxLate,       \* the tick handler runs at most this late after a wake_time
  MaxMissed,     \* bound: wake-ups missed between two heartbeats
  TickModulus,   \* system_tick counts modulo this: 2^32
  SeqModulus     \* values of the sequence byte: 256

ASSUME TelemetryAssumption ==
  /\ Interval \in Nat \ {0}
  /\ Second \in Nat /\ Second % Interval = 0 /\ Second > Interval
  /\ MaxLate \in Nat /\ MaxMissed \in Nat
  /\ TickModulus \in Nat /\ TickModulus > Second
  /\ TickModulus % Second >= Interval   \* 2^32 % 1000 is 296
  /\ SeqModulus \in Nat \ {0}

Threads == {"telemetry", "console"}
INVALID_SOCKET == "INVALID_SOCKET"

VARIABLES
  g_system_running,
  system_tick,
  last_telemetry_send,
  sequence,            \* ctx.sequence: the next frame's
  frames,              \* the frames of this update still to be built
  tx_buffer,           \* sequence byte of the frame in tx_buffer
  g_udp_socket, g_udp_initialized,
  socket_open,         \* the operating system's view of the socket
  pc,                  \* where each thread is
  wire,                \* history: sequence byte of the last datagram sent
  unsent,              \* history: frames built since then, modulo SeqModulus
  since,               \* history: ticks since the last heartbeat frame, or since 0,
  missed               \* and the wake-ups missed since then, a whole wrap each

clockVars == <<system_tick, last_telemetry_send, since, missed>>
frameVars == <<sequence, frames, tx_buffer>>
socketVars == <<g_udp_socket, g_udp_initialized, socket_open>>
wireVars == <<wire, unsent>>
vars == <<g_system_running, clockVars, frameVars, socketVars, pc, wireVars>>

Labels == {"loop", "update", "frames", "send", "sendto", "sleep", "done",
           "waiting", "reports", "exited",
           "cleanup", "close", "forget", "finish"}

FrameKinds == {"HEARTBEAT", "ATTITUDE", "GLOBAL_POSITION", "VFR_HUD", "SYS_STATUS"}
Stream == <<"ATTITUDE", "GLOBAL_POSITION", "VFR_HUD", "SYS_STATUS">>

TelemetryTypeOK ==
  /\ g_system_running \in BOOLEAN
  /\ system_tick \in 0 .. TickModulus - 1
  /\ last_telemetry_send \in 0 .. TickModulus - 1
  /\ sequence \in 0 .. SeqModulus - 1
  /\ tx_buffer \in 0 .. SeqModulus - 1
  /\ frames \in Seq(FrameKinds) /\ Len(frames) <= Len(Stream) + 1
  /\ g_udp_socket \in {"socket", INVALID_SOCKET}
  /\ g_udp_initialized \in BOOLEAN
  /\ socket_open \in BOOLEAN
  /\ pc \in [Threads -> Labels]
  /\ wire \in 0 .. SeqModulus - 1 /\ unsent \in 0 .. SeqModulus - 1
  /\ since \in Nat /\ missed \in 0 .. MaxMissed

(* mavlink_udp_init may have failed: system_init goes on with a warning.   *)
(* The task runs for the first time in the first second.                   *)
Init ==
  /\ g_system_running = TRUE
  /\ system_tick \in 0 .. Second - 1
  /\ last_telemetry_send = 0
  /\ sequence = 0 /\ frames = <<>> /\ tx_buffer = 0
  /\ g_udp_initialized \in BOOLEAN
  /\ g_udp_socket = IF g_udp_initialized THEN "socket" ELSE INVALID_SOCKET
  /\ socket_open = g_udp_initialized
  /\ pc = [t \in Threads |-> IF t = "telemetry" THEN "loop" ELSE "waiting"]
  /\ wire = SeqModulus - 1 /\ unsent = 0
  /\ since = system_tick /\ missed = 0

Goto(t, label) == pc' = [pc EXCEPT ![t] = label]

-----------------------------------------------------------------------------
(* The telemetry task                                                      *)

Loop ==
  /\ pc["telemetry"] = "loop"
  /\ Goto("telemetry", IF g_system_running THEN "update" ELSE "cleanup")
  /\ UNCHANGED <<g_system_running, clockVars, frameVars, socketVars, wireVars>>

Elapsed == (system_tick + TickModulus - last_telemetry_send) % TickModulus

(* Mutant: only a turn on the very second counts. *)
BeatDueExactly == system_tick % Second = 0

BeatDue == system_tick % Second < Interval

(* Mutant: the interval is left to task_sleep. *)
UpdateUngated ==
  /\ pc["telemetry"] = "update"
  /\ last_telemetry_send' = system_tick
  /\ frames' = IF BeatDue THEN <<"HEARTBEAT">> \o Stream ELSE Stream
  /\ Goto("telemetry", "frames")
  /\ UNCHANGED <<g_system_running, system_tick, since, missed, sequence, tx_buffer, socketVars, wireVars>>

mavlink_telemetry_update ==
  /\ pc["telemetry"] = "update"
  /\ IF Elapsed < Interval
     THEN Goto("telemetry", "sleep") /\ UNCHANGED <<last_telemetry_send, frames>>
     ELSE /\ last_telemetry_send' = system_tick
          /\ frames' = IF BeatDue THEN <<"HEARTBEAT">> \o Stream ELSE Stream
          /\ Goto("telemetry", "frames")
  /\ UNCHANGED <<g_system_running, system_tick, since, missed, sequence, tx_buffer, socketVars, wireVars>>

(* Mutant: the sequence number is not advanced. *)
BuildKeepsSequence ==
  /\ pc["telemetry"] = "frames" /\ frames # <<>>
  /\ tx_buffer' = sequence
  /\ sequence' = IF Head(frames) = "HEARTBEAT" THEN sequence ELSE (sequence + 1) % SeqModulus
  /\ IF Head(frames) = "HEARTBEAT" THEN since' = 0 /\ missed' = 0 ELSE UNCHANGED <<since, missed>>
  /\ frames' = Tail(frames)
  /\ unsent' = (unsent + 1) % SeqModulus
  /\ Goto("telemetry", "send")
  /\ UNCHANGED <<g_system_running, system_tick, last_telemetry_send, socketVars, wire>>

(* Every frame takes the next number of the same context.                  *)
mavlink_build_message ==
  /\ pc["telemetry"] = "frames" /\ frames # <<>>
  /\ tx_buffer' = sequence
  /\ sequence' = (sequence + 1) % SeqModulus
  /\ IF Head(frames) = "HEARTBEAT" THEN since' = 0 /\ missed' = 0 ELSE UNCHANGED <<since, missed>>
  /\ frames' = Tail(frames)
  /\ unsent' = (unsent + 1) % SeqModulus
  /\ Goto("telemetry", "send")
  /\ UNCHANGED <<g_system_running, system_tick, last_telemetry_send, socketVars, wire>>

(* mavlink_udp_send tests the socket ...                                   *)
mavlink_udp_send ==
  /\ pc["telemetry"] = "send"
  /\ Goto("telemetry", IF g_udp_initialized /\ g_udp_socket # INVALID_SOCKET
                       THEN "sendto" ELSE "frames")
  /\ UNCHANGED <<g_system_running, clockVars, frameVars, socketVars, wireVars>>

(* ... and uses it.  A failed sendto is silent.                            *)
Sendto ==
  /\ pc["telemetry"] = "sendto"
  /\ \/ /\ g_udp_socket # INVALID_SOCKET /\ socket_open
        /\ wire' = tx_buffer /\ unsent' = 0
     \/ UNCHANGED wireVars
  /\ Goto("telemetry", "frames")
  /\ UNCHANGED <<g_system_running, clockVars, frameVars, socketVars>>

FramesDone ==
  /\ pc["telemetry"] = "frames" /\ frames = <<>>
  /\ Goto("telemetry", "sleep")
  /\ UNCHANGED <<g_system_running, clockVars, frameVars, socketVars, wireVars>>

(* task_sleep: the first tick that the handler finds not before wake_time, *)
(* at once when wake_time has wrapped and system_tick has not.             *)
Sleep ==
  /\ pc["telemetry"] = "sleep"
  /\ \E d \in 1 .. Interval + MaxLate :
       /\ (system_tick + Interval) % TickModulus <= (system_tick + d) % TickModulus
       /\ system_tick' = (system_tick + d) % TickModulus
       /\ since' = since + d
  /\ Goto("telemetry", "loop")
  /\ UNCHANGED <<g_system_running, last_telemetry_send, missed, frameVars, socketVars, wireVars>>

(* When wake_time is close below the wrap, the handler may run too late to *)
(* find a tick not before it.  The task then sleeps on until system_tick   *)
(* has come round to where it was.                                         *)
MissWakeUp ==
  /\ pc["telemetry"] = "sleep"
  /\ system_tick + Interval < TickModulus
  /\ system_tick + Interval + MaxLate >= TickModulus
  /\ missed < MaxMissed
  /\ missed' = missed + 1
  /\ UNCHANGED <<g_system_running, system_tick, last_telemetry_send, since, frameVars,
                 socketVars, pc, wireVars>>

-----------------------------------------------------------------------------
(* mavlink_udp_cleanup, called by both threads                             *)

Cleanup(t) ==
  /\ pc[t] = "cleanup"
  /\ Goto(t, IF g_udp_socket # INVALID_SOCKET THEN "close" ELSE "finish")
  /\ UNCHANGED <<g_system_running, clockVars, frameVars, socketVars, wireVars>>

(* Mutant: the socket stays open. *)
CloseForgotten(t) ==
  /\ pc[t] = "close"
  /\ Goto(t, "finish")
  /\ UNCHANGED <<g_system_running, clockVars, frameVars, socketVars, wireVars>>

Close(t) ==
  /\ pc[t] = "close"
  /\ socket_open' = IF g_udp_socket # INVALID_SOCKET THEN FALSE ELSE socket_open
  /\ Goto(t, "forget")
  /\ UNCHANGED <<g_system_running, clockVars, frameVars, g_udp_socket, g_udp_initialized, wireVars>>

Forget(t) ==
  /\ pc[t] = "forget"
  /\ g_udp_socket' = INVALID_SOCKET
  /\ Goto(t, "finish")
  /\ UNCHANGED <<g_system_running, clockVars, frameVars, g_udp_initialized, socket_open, wireVars>>

Finish(t) ==
  /\ pc[t] = "finish"
  /\ g_udp_initialized' = FALSE
  /\ Goto(t, IF t = "console" THEN "reports" ELSE "done")
  /\ UNCHANGED <<g_system_running, clockVars, frameVars, g_udp_socket, socket_open, wireVars>>

mavlink_udp_cleanup(t) == Cleanup(t) \/ Close(t) \/ Forget(t) \/ Finish(t)

-----------------------------------------------------------------------------
(* The console handler: the user stops the program.                        *)
CtrlC ==
  /\ pc["console"] = "waiting"
  /\ g_system_running' = FALSE
  /\ Goto("console", "cleanup")
  /\ UNCHANGED <<clockVars, frameVars, socketVars, wireVars>>

Exit ==
  /\ pc["console"] = "reports"
  /\ Goto("console", "exited")
  /\ UNCHANGED <<g_system_running, clockVars, frameVars, socketVars, wireVars>>

Running == pc["console"] # "exited"

telemetry_task_function ==
  /\ Running
  /\ \/ Loop \/ mavlink_telemetry_update \/ mavlink_build_message \/ mavlink_udp_send
     \/ Sendto \/ FramesDone \/ Sleep \/ MissWakeUp
     \/ mavlink_udp_cleanup("telemetry")

console_handler == CtrlC \/ mavlink_udp_cleanup("console") \/ Exit

Exited == ~Running /\ UNCHANGED vars

Next == telemetry_task_function \/ console_handler \/ Exited

Spec == Init /\ [][Next]_vars

-----------------------------------------------------------------------------
(* Properties                                                              *)

BuildsBeat == pc["telemetry"] = "frames" /\ frames # <<>> /\ Head(frames) = "HEARTBEAT"
              /\ frames' # frames

(* A second of system_tick has at most one heartbeat, although the test is *)
(* on a window as wide as the interval and turns drift through it, and     *)
(* although sleeps end at once while system_tick is about to wrap.  (When  *)
(* a wake-up was missed the last heartbeat is more than a wrap ago.)       *)
OneBeatPerSecond ==
  [][BuildsBeat /\ missed = 0 /\ since <= system_tick => since > system_tick % Second]_vars

Silence == since + missed * TickModulus

(* How long it takes from a heartbeat to the next.  A turn that is late by *)
(* one tick may step over the window of a second and send no heartbeat in  *)
(* it.  It never happens in two seconds in a row while the turns of a      *)
(* second are together late by less than an interval.  The second that is  *)
(* cut short when system_tick wraps may be lost too, and a wake-up missed  *)
(* at the wrap (kernel_tick_handler) costs a whole wrap, but no more.  The *)
(* first heartbeat comes as soon, counted from tick 0.                     *)
SilenceBounded ==
  (Second \div Interval) * MaxLate < Interval =>
    Silence <= missed * TickModulus + 2 * Second + Interval
               + (IF since > system_tick THEN TickModulus % Second ELSE 0)

(* The receiver can count what it did not get: the gap between the byte of *)
(* a frame and that of the last datagram sent is the number of frames lost *)
(* in between, whether sendto failed or the socket was not there.          *)
GapsCountLosses ==
  pc["telemetry"] \in {"send", "sendto"} => tx_buffer = (wire + unsent) % SeqModulus

(* Once the cleanup of either thread has returned, no datagram leaves, not *)
(* even from a thread that had tested the socket before.                   *)
QuietAfterCleanup ==
  [][pc["telemetry"] = "done" \/ pc["console"] = "reports" => UNCHANGED wire]_vars

=============================================================================
