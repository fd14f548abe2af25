-------------------------- MODULE TelemetryProofs ---------------------------
(***************************************************************************)
(* The shutdown of the UDP socket by two threads that do not synchronize,  *)
(* the numbers of the frames, and the pace of the heartbeats across the    *)
(* wrap of system_tick.                                                    *)
(***************************************************************************)
EXTENDS Telemetry, SequenceTheorems, TLAPS

PastTest(t) == pc[t] \in {"finish", "done", "reports", "exited"}

(* A thread is past mavlink_udp_cleanup's use of the socket only if some   *)
(* thread has reset g_udp_socket, and nobody ever sets it again.           *)
SocketGone ==
  /\ pc \in [Threads -> Labels]
  /\ \A t \in Threads : PastTest(t) => g_udp_socket = INVALID_SOCKET

(* What a step of thread t may do to its place and to the socket.          *)
Steps(t, label) ==
  /\ pc' = [pc EXCEPT ![t] = label] /\ label \in Labels
  /\ g_udp_socket' \in {g_udp_socket, INVALID_SOCKET}
  /\ label \in {"finish", "done", "reports", "exited"} => g_udp_socket' = INVALID_SOCKET

LEMMA CleanupSteps ==
  ASSUME SocketGone, NEW t \in Threads, mavlink_udp_cleanup(t)
  PROVE  \E label \in Labels : Steps(t, label)
<1>1. CASE Cleanup(t)
  <2>1. CASE g_udp_socket # INVALID_SOCKET
    BY <1>1, <2>1 DEF Cleanup, Goto, Steps, Labels, socketVars
  <2>2. CASE g_udp_socket = INVALID_SOCKET
    BY <1>1, <2>2 DEF Cleanup, Goto, Steps, Labels, socketVars
  <2> QED BY <2>1, <2>2
<1>2. CASE Close(t)
  BY <1>2 DEF Close, Goto, Steps, Labels
<1>3. CASE Forget(t)
  BY <1>3 DEF Forget, Goto, Steps, Labels
<1>4. CASE Finish(t)
  <2>1. g_udp_socket = INVALID_SOCKET /\ g_udp_socket' = g_udp_socket
    BY <1>4 DEF Finish, SocketGone, PastTest
  <2> QED BY <1>4, <2>1 DEF Finish, Goto, Steps, Labels
<1> QED
  BY <1>1, <1>2, <1>3, <1>4 DEF mavlink_udp_cleanup

LEMMA TelemetrySteps ==
  ASSUME SocketGone, telemetry_task_function
  PROVE  \E label \in Labels : Steps("telemetry", label)
<1>1. CASE Loop
  BY <1>1 DEF Loop, Goto, Steps, Labels, socketVars
<1>2. CASE mavlink_telemetry_update
  BY <1>2 DEF mavlink_telemetry_update, Goto, Steps, Labels, socketVars
<1>3. CASE mavlink_udp_send
  BY <1>3 DEF mavlink_udp_send, Goto, Steps, Labels, socketVars
<1>4. CASE mavlink_build_message \/ Sendto \/ FramesDone \/ Sleep
  BY <1>4 DEF mavlink_build_message, Sendto, FramesDone, Sleep, Goto, Steps, Labels, socketVars
<1>5. CASE MissWakeUp
  <2>1. pc["telemetry"] \in Labels /\ pc' = [pc EXCEPT !["telemetry"] = pc["telemetry"]]
        /\ pc["telemetry"] \notin {"finish", "done", "reports", "exited"}
    BY <1>5 DEF MissWakeUp, SocketGone, Threads, Labels
  <2> QED BY <1>5, <2>1 DEF MissWakeUp, Steps, socketVars
<1> QED
  BY <1>1, <1>2, <1>3, <1>4, <1>5, CleanupSteps DEF telemetry_task_function, Threads

LEMMA ConsoleSteps ==
  ASSUME SocketGone, console_handler
  PROVE  \E label \in Labels : Steps("console", label)
<1>1. CASE CtrlC
  BY <1>1 DEF CtrlC, Goto, Steps, Labels, socketVars
<1>2. CASE Exit
  <2>1. g_udp_socket = INVALID_SOCKET
    BY <1>2 DEF Exit, SocketGone, PastTest, Threads
  <2> QED BY <1>2, <2>1 DEF Exit, Goto, Steps, Labels, socketVars
<1> QED
  BY <1>1, <1>2, CleanupSteps DEF console_handler, Threads

LEMMA SocketGoneInductive == SocketGone /\ [Next]_vars => SocketGone'
<1> SUFFICES ASSUME SocketGone, [Next]_vars  PROVE SocketGone'
  OBVIOUS
<1>1. ASSUME NEW t \in Threads, NEW label \in Labels, Steps(t, label)
      PROVE  SocketGone'
  BY <1>1 DEF Steps, SocketGone, PastTest
<1>2. CASE UNCHANGED vars \/ Exited
  BY <1>2 DEF Exited, vars, socketVars, SocketGone, PastTest
<1> QED
  BY <1>1, <1>2, TelemetrySteps, ConsoleSteps DEF Next, Threads

(* After either thread's cleanup nothing more is sent, although the other  *)
(* thread may stand between its test of the socket and sendto.             *)
THEOREM ShutdownIsFinal == Spec => QuietAfterCleanup
<1>1. Init => SocketGone
  BY DEF Init, SocketGone, PastTest, Threads, Labels
<1>2. SocketGone /\ [Next]_vars =>
        [pc["telemetry"] = "done" \/ pc["console"] = "reports" => UNCHANGED wire]_vars
  <2> SUFFICES ASSUME SocketGone, Next, pc["telemetry"] = "done" \/ pc["console"] = "reports"
               PROVE  UNCHANGED wire
    BY DEF vars, wireVars
  <2>1. g_udp_socket = INVALID_SOCKET
    BY DEF SocketGone, PastTest, Threads
  <2>2. CASE telemetry_task_function
    BY <2>1, <2>2 DEF telemetry_task_function, Loop, mavlink_telemetry_update,
       mavlink_build_message, mavlink_udp_send, Sendto, FramesDone, Sleep, MissWakeUp,
       mavlink_udp_cleanup,
       Cleanup, Close, Forget, Finish, wireVars
  <2>3. CASE console_handler
    BY <2>3 DEF console_handler, mavlink_udp_cleanup, Cleanup, Close, Forget, Finish, CtrlC, Exit,
                wireVars
  <2>4. CASE Exited
    BY <2>4 DEF Exited, vars, wireVars
  <2> QED BY <2>2, <2>3, <2>4 DEF Next
<1> QED
  BY <1>1, <1>2, SocketGoneInductive, PTL DEF Spec, QuietAfterCleanup

-----------------------------------------------------------------------------
(* Remainders                                                              *)

LEMMA ModSmall ==
  ASSUME NEW m \in Nat \ {0}, NEW x \in Nat, x < m
  PROVE  x % m = x
OBVIOUS

LEMMA Wraps ==
  ASSUME NEW m \in Nat \ {0}, NEW x \in Nat, x < 2 * m
  PROVE  x % m = IF x < m THEN x ELSE x - m
OBVIOUS

LEMMA ModRange ==
  ASSUME NEW m \in Nat \ {0}, NEW x \in Nat
  PROVE  x % m \in 0 .. m - 1
OBVIOUS

LEMMA DivMod ==
  ASSUME NEW m \in Nat \ {0}, NEW x \in Nat
  PROVE  x \div m \in Nat /\ x = m * (x \div m) + (x % m)
OBVIOUS

LEMMA ModUnique ==
  ASSUME NEW m \in Nat \ {0}, NEW x \in Nat, NEW q \in Nat, NEW r \in 0 .. m - 1, x = m * q + r
  PROVE  x % m = r
OBVIOUS

(* Adding no more than the modulus wraps at most once. *)
LEMMA ModAdd ==
  ASSUME NEW m \in Nat \ {0}, NEW x \in Nat, NEW d \in Nat, d <= m
  PROVE  (x + d) % m = IF (x % m) + d < m THEN (x % m) + d ELSE (x % m) + d - m
<1>1. PICK q \in Nat, r \in 0 .. m - 1 : x = m * q + r /\ x % m = r
  BY DivMod, ModRange
<1>2. PICK y \in Nat : y = x + d
  OBVIOUS
<1>3. CASE r + d < m
  <2>1. y = m * q + (r + d) /\ r + d \in 0 .. m - 1
    BY <1>1, <1>2, <1>3
  <2>2. y % m = r + d
    BY <2>1, ModUnique
  <2> QED BY <2>2, <1>1, <1>2, <1>3
<1>4. CASE r + d >= m
  <2>1. PICK p \in Nat, z \in 0 .. m - 1 : p = q + 1 /\ z = r + d - m
    BY <1>4
  <2>2. y = m * p + z
    <3>1. m * p = m * q + m
      BY <2>1
    <3> QED BY <3>1, <2>1, <1>1, <1>2
  <2>3. y % m = z
    BY <2>2, ModUnique
  <2> QED BY <2>1, <2>3, <1>1, <1>2, <1>4
<1> QED BY <1>1, <1>3, <1>4

-----------------------------------------------------------------------------
(* The numbers of the frames                                               *)

Numbers ==
  /\ sequence = (wire + unsent + 1) % SeqModulus
  /\ pc["telemetry"] \in {"send", "sendto"} => tx_buffer = (wire + unsent) % SeqModulus

LEMMA NextAround ==
  ASSUME NEW m \in Nat \ {0}, NEW r \in 0 .. m - 1
  PROVE  (r + 1) % m = IF r + 1 < m THEN r + 1 ELSE r + 1 - m
<1>1. CASE r + 1 < m
  BY <1>1
<1>2. CASE r + 1 = m
  BY <1>2
<1> QED BY <1>1, <1>2

LEMMA NextNumber ==
  ASSUME NEW m \in Nat \ {0}, NEW x \in Nat
  PROVE  (x + 1) % m = ((x % m) + 1) % m
<1>1. PICK r \in 0 .. m - 1 : r = x % m
  BY ModRange
<1>2. PICK d \in Nat : d = 1 /\ d <= m
  OBVIOUS
<1>3. (x + d) % m = IF r + d < m THEN r + d ELSE r + d - m
  BY <1>1, <1>2, ModAdd
<1> QED BY <1>1, <1>2, <1>3, NextAround

LEMMA Constants ==
  /\ Interval \in Nat \ {0} /\ Second \in Nat \ {0} /\ Second > Interval /\ MaxLate \in Nat
  /\ MaxMissed \in Nat /\ TickModulus \in Nat \ {0} /\ SeqModulus \in Nat \ {0}
BY TelemetryAssumption

LEMMA Kinds ==
  /\ Stream \in Seq(FrameKinds) /\ Len(Stream) = 4
  /\ \A i \in 1 .. 4 : Stream[i] # "HEARTBEAT"
  /\ <<"HEARTBEAT">> \o Stream \in Seq(FrameKinds) /\ Len(<<"HEARTBEAT">> \o Stream) = 5
  /\ (<<"HEARTBEAT">> \o Stream)[1] = "HEARTBEAT"
  /\ \A i \in 2 .. 5 : (<<"HEARTBEAT">> \o Stream)[i] # "HEARTBEAT"
<1>1. /\ Stream \in Seq(FrameKinds) /\ Len(Stream) = 4
      /\ \A i \in 1 .. 4 : Stream[i] # "HEARTBEAT"
  <2>1. Stream \in Seq(FrameKinds) /\ Len(Stream) = 4
    BY DEF Stream, FrameKinds
  <2>2. ASSUME NEW i \in 1 .. 4 PROVE Stream[i] # "HEARTBEAT"
    <3>1. i = 1 \/ i = 2 \/ i = 3 \/ i = 4
      OBVIOUS
    <3> QED BY <3>1 DEF Stream
  <2> QED BY <2>1, <2>2
<1>2. <<"HEARTBEAT">> \in Seq(FrameKinds) /\ Len(<<"HEARTBEAT">>) = 1
      /\ <<"HEARTBEAT">>[1] = "HEARTBEAT"
  BY DEF FrameKinds
<1>3. PICK h \in Seq(FrameKinds), s \in Seq(FrameKinds) : h = <<"HEARTBEAT">> /\ s = Stream
  BY <1>1, <1>2
<1>4. /\ h \o s \in Seq(FrameKinds) /\ Len(h \o s) = 5
      /\ \A i \in 1 .. 5 : (h \o s)[i] = IF i <= 1 THEN h[i] ELSE s[i - 1]
  <2>1. Len(h) = 1 /\ Len(s) = 4
    BY <1>1, <1>2, <1>3
  <2>2. /\ h \o s \in Seq(FrameKinds) /\ Len(h \o s) = Len(h) + Len(s)
        /\ \A i \in 1 .. Len(h) + Len(s) :
              (h \o s)[i] = IF i <= Len(h) THEN h[i] ELSE s[i - Len(h)]
    BY ConcatProperties
  <2> QED BY <2>1, <2>2
<1>5. \A i \in 2 .. 5 : i - 1 \in 1 .. 4
  OBVIOUS
<1> QED BY <1>1, <1>2, <1>3, <1>4, <1>5

(* A heartbeat is the first frame of its update. *)
BeatFirst ==
  /\ \A i \in 2 .. Len(frames) : frames[i] # "HEARTBEAT"
  /\ pc["telemetry"] # "frames" => (frames # <<>> => frames[1] # "HEARTBEAT")

BeatNext == frames # <<>> /\ frames[1] = "HEARTBEAT"

(* system_tick and since tell when the last heartbeat was, unless          *)
(* system_tick has wrapped since then.  Nothing is sent before it, and the *)
(* gate keeps the next one an interval away.                               *)
GateHolds ==
  /\ since <= system_tick =>
       /\ system_tick - since <= last_telemetry_send
       /\ last_telemetry_send <= system_tick
  /\ BeatNext =>
       /\ last_telemetry_send = system_tick
       /\ BeatDue
       /\ since <= system_tick => since > system_tick % Second

TelemetryIInv == SocketGone /\ TelemetryTypeOK /\ Numbers /\ BeatFirst /\ GateHolds

-----------------------------------------------------------------------------
LEMMA InitIInv == Init => TelemetryIInv
<1> SUFFICES ASSUME Init PROVE TelemetryIInv
  OBVIOUS
<1> USE Constants DEF Init
<1>1. SocketGone
  BY DEF SocketGone, PastTest, Threads, Labels
<1>2. system_tick \in 0 .. TickModulus - 1
  BY TelemetryAssumption
<1>3. TelemetryTypeOK
  <2>1. frames = <<>> /\ frames \in Seq(FrameKinds) /\ Len(frames) = 0 /\ Len(Stream) = 4
    BY Kinds
  <2>2. pc \in [Threads -> Labels]
    BY <1>1 DEF SocketGone
  <2> QED BY <1>2, <2>1, <2>2 DEF TelemetryTypeOK
<1>4. Numbers
  <2>1. PICK m \in Nat \ {0} : m = SeqModulus
    OBVIOUS
  <2>2. m % m = 0
    OBVIOUS
  <2>3. (wire + unsent + 1) = m
    BY <2>1
  <2>4. pc["telemetry"] = "loop"
    BY DEF Threads
  <2> QED BY <2>1, <2>2, <2>3, <2>4 DEF Numbers
<1>5. BeatFirst /\ GateHolds
  BY <1>2 DEF BeatFirst, GateHolds, BeatNext
<1> QED BY <1>1, <1>3, <1>4, <1>5 DEF TelemetryIInv

(* What the console, and the cleanup by either thread, leave alone. *)
Aside ==
  /\ UNCHANGED <<clockVars, frameVars, wireVars>>
  /\ \/ pc'["telemetry"] = pc["telemetry"]
     \/ /\ pc["telemetry"] \notin {"frames", "send", "sendto", "sleep"}
        /\ pc'["telemetry"] \notin {"frames", "send", "sendto", "sleep", "loop", "update"}

LEMMA AsideSteps ==
  ASSUME TelemetryIInv,
         console_handler \/ mavlink_udp_cleanup("telemetry") \/ Exited \/ UNCHANGED vars
  PROVE  Aside
<1>1. pc \in [Threads -> Labels] /\ "telemetry" \in Threads /\ "console" \in Threads
  BY DEF TelemetryIInv, SocketGone, Threads
<1>2. ASSUME NEW t \in Threads, mavlink_udp_cleanup(t) PROVE Aside
  BY <1>1, <1>2 DEF Aside, mavlink_udp_cleanup, Cleanup, Close, Forget, Finish, Goto,
     clockVars, frameVars, wireVars, Threads
<1>3. CASE CtrlC \/ Exit
  BY <1>1, <1>3 DEF Aside, CtrlC, Exit, Goto, clockVars, frameVars, wireVars
<1>4. CASE Exited \/ UNCHANGED vars
  BY <1>4 DEF Aside, Exited, vars, clockVars, frameVars, wireVars
<1> QED BY <1>1, <1>2, <1>3, <1>4 DEF console_handler

LEMMA AsideKeeps ==
  ASSUME TelemetryIInv, Aside
  PROVE  Numbers' /\ BeatFirst' /\ GateHolds'
<1> USE DEF TelemetryIInv, Aside, clockVars, frameVars, wireVars
<1>1. Numbers'
  BY DEF Numbers
<1>2. BeatFirst'
  BY DEF BeatFirst
<1>3. GateHolds'
  BY DEF GateHolds, BeatNext, BeatDue
<1> QED BY <1>1, <1>2, <1>3

LEMMA LoopKeeps ==
  ASSUME TelemetryIInv, Loop \/ mavlink_udp_send \/ FramesDone \/ MissWakeUp
  PROVE  Numbers' /\ BeatFirst' /\ GateHolds'
<1> USE DEF TelemetryIInv, Loop, mavlink_udp_send, FramesDone, MissWakeUp, Goto, clockVars, frameVars, wireVars
<1>1. pc \in [Threads -> Labels] /\ "telemetry" \in Threads
  BY DEF SocketGone, Threads
<1>2. Numbers'
  BY <1>1 DEF Numbers
<1>3. BeatFirst'
  BY <1>1 DEF BeatFirst
<1>4. GateHolds'
  BY DEF GateHolds, BeatNext, BeatDue
<1> QED BY <1>2, <1>3, <1>4

LEMMA BuildKeeps ==
  ASSUME TelemetryIInv, mavlink_build_message
  PROVE  Numbers' /\ BeatFirst' /\ GateHolds'
<1> USE DEF TelemetryIInv, mavlink_build_message, Goto
<1>1. pc \in [Threads -> Labels] /\ "telemetry" \in Threads
  BY DEF SocketGone, Threads
<1>2. PICK m \in Nat \ {0} : m = SeqModulus
  BY Constants
<1>3. /\ wire \in Nat /\ unsent \in Nat
      /\ sequence = (wire + unsent + 1) % m /\ sequence' = (sequence + 1) % m
      /\ tx_buffer' = sequence /\ wire' = wire /\ unsent' = (unsent + 1) % m
  BY <1>2 DEF Numbers, TelemetryTypeOK
<1>4. PICK x \in Nat : x = wire + unsent + 1
  BY <1>3
<1>5. PICK u \in Nat, r \in 0 .. m - 1 : u = unsent + 1 /\ r = u % m /\ unsent' = r
  BY <1>3, ModRange
<1>6. PICK y \in Nat : y = wire + r
  BY <1>3
<1>7. y % m = x % m
  <2>1. PICK k \in Nat : u = m * k + r
    BY <1>5, DivMod
  <2>2. PICK h \in Nat, z \in 0 .. m - 1 : y = m * h + z /\ z = y % m
    BY DivMod, ModRange
  <2>3. PICK q \in Nat, mh \in Nat, mk \in Nat : q = h + k /\ mh = m * h /\ mk = m * k
    OBVIOUS
  <2>4. m * q = mh + mk
    BY <2>3
  <2>5. u = mk + r /\ y = mh + z
    BY <2>1, <2>2, <2>3
  <2>6. x = (mh + mk) + z
    BY <1>3, <1>4, <1>5, <1>6, <2>5
  <2>7. x = m * q + z
    BY <2>4, <2>6
  <2> QED BY <2>2, <2>7, ModUnique
<1>8. (y + 1) % m = ((x % m) + 1) % m
  BY <1>7, NextNumber
<1>9. /\ sequence' = (wire' + unsent' + 1) % m
       /\ tx_buffer' = (wire' + unsent') % m
  <2>1. wire' + unsent' = y /\ wire' + unsent' + 1 = y + 1
    BY <1>3, <1>5, <1>6
  <2>2. sequence = x % m
    BY <1>3, <1>4
  <2> QED BY <1>3, <1>7, <1>8, <2>1, <2>2
<1>10. Numbers'
  BY <1>1, <1>2, <1>9 DEF Numbers
<1>11. /\ frames \in Seq(FrameKinds) /\ frames # <<>> /\ frames' = Tail(frames)
      /\ \A i \in 2 .. Len(frames) : frames[i] # "HEARTBEAT"
  BY DEF TelemetryTypeOK, BeatFirst
<1>12. /\ \A i \in 1 .. Len(frames') : frames'[i] # "HEARTBEAT"
      /\ frames' \in Seq(FrameKinds)
  <2>1. Len(frames') = Len(frames) - 1 /\ Len(frames) \in Nat
        /\ \A i \in 1 .. Len(frames') : frames'[i] = frames[i + 1]
    BY <1>11
  <2> QED BY <1>11, <2>1
<1>13. frames' # <<>> => 1 \in 1 .. Len(frames')
  BY <1>12
<1>14. BeatFirst' /\ ~BeatNext'
  BY <1>12, <1>13 DEF BeatFirst, BeatNext
<1>15. /\ system_tick \in Nat /\ last_telemetry_send \in Nat /\ since \in Nat
       /\ Head(frames) = frames[1]
  BY <1>11, Constants DEF TelemetryTypeOK
<1>16. GateHolds'
  BY <1>11, <1>14, <1>15 DEF GateHolds, BeatNext
<1> QED BY <1>10, <1>14, <1>16

LEMMA SendtoKeeps ==
  ASSUME TelemetryIInv, Sendto
  PROVE  Numbers' /\ BeatFirst' /\ GateHolds'
<1> USE DEF TelemetryIInv, Sendto, Goto
<1>1. pc \in [Threads -> Labels] /\ "telemetry" \in Threads
  BY DEF SocketGone, Threads
<1>2. BeatFirst' /\ GateHolds'
  BY <1>1 DEF BeatFirst, GateHolds, BeatNext, BeatDue, clockVars, frameVars
<1>3. CASE UNCHANGED wireVars
  BY <1>1, <1>2, <1>3 DEF Numbers, wireVars, frameVars
<1>4. CASE wire' = tx_buffer /\ unsent' = 0
  <2>1. PICK m \in Nat \ {0} : m = SeqModulus
    BY Constants
  <2>2. PICK x \in Nat : x = wire + unsent
    BY Constants DEF TelemetryTypeOK
  <2>3. sequence = (x + 1) % m /\ tx_buffer = x % m /\ sequence' = sequence
    BY <2>1, <2>2 DEF Numbers, frameVars
  <2>4. x % m \in Nat
    BY ModRange
  <2>5. wire' + unsent' + 1 = (x % m) + 1
    BY <1>4, <2>3, <2>4
  <2>6. sequence' = (wire' + unsent' + 1) % m
    BY <2>3, <2>5, NextNumber
  <2> QED BY <1>1, <1>2, <2>1, <2>6 DEF Numbers
<1> QED BY <1>2, <1>3, <1>4

LEMMA UpdateKeeps ==
  ASSUME TelemetryIInv, mavlink_telemetry_update
  PROVE  Numbers' /\ BeatFirst' /\ GateHolds'
<1> USE DEF TelemetryIInv, mavlink_telemetry_update, Goto
<1>1. pc \in [Threads -> Labels] /\ "telemetry" \in Threads
  BY DEF SocketGone, Threads
<1>2. Numbers'
  BY <1>1 DEF Numbers, wireVars
<1>3. CASE Elapsed < Interval
  BY <1>1, <1>2, <1>3 DEF BeatFirst, GateHolds, BeatNext, BeatDue
<1>4. CASE ~(Elapsed < Interval)
  <2>1. /\ last_telemetry_send' = system_tick /\ system_tick' = system_tick /\ since' = since
        /\ frames' = IF BeatDue THEN <<"HEARTBEAT">> \o Stream ELSE Stream
        /\ pc'["telemetry"] = "frames"
    BY <1>1, <1>4
  <2>2. /\ system_tick \in Nat /\ last_telemetry_send \in Nat /\ since \in Nat
        /\ system_tick < TickModulus
    BY Constants DEF TelemetryTypeOK
  <2>3. BeatFirst'
    <3>1. CASE BeatDue
      BY <2>1, <3>1, Kinds DEF BeatFirst
    <3>2. CASE ~BeatDue
      BY <2>1, <3>2, Kinds DEF BeatFirst
    <3> QED BY <3>1, <3>2
  <2>4. BeatNext' => BeatDue
    <3>1. ~BeatDue => frames'[1] # "HEARTBEAT"
      BY <2>1, Kinds
    <3> QED BY <3>1 DEF BeatNext
  <2>5. since <= system_tick /\ BeatDue => since > system_tick % Second
    <3> SUFFICES ASSUME since <= system_tick, BeatDue, since <= system_tick % Second
                 PROVE  FALSE
      BY <2>2, ModRange, Constants
    <3>1. since < Interval
      BY <2>2, ModRange, Constants DEF BeatDue
    <3>2. PICK e \in Nat : e = system_tick - last_telemetry_send
      BY <2>2 DEF GateHolds
    <3>3. e < Interval /\ e < TickModulus
      BY <2>2, <3>1, <3>2, Constants DEF GateHolds
    <3>4. (e + TickModulus) % TickModulus = e
      <4>1. e % TickModulus = e
        BY <3>3, Constants, ModSmall
      <4>2. PICK m \in Nat \ {0} : m = TickModulus /\ m <= m
        BY Constants
      <4>3. (e + m) % m = IF (e % m) + m < m THEN (e % m) + m ELSE (e % m) + m - m
        BY <4>2, ModAdd
      <4> QED BY <4>1, <4>2, <4>3
    <3>5. system_tick + TickModulus - last_telemetry_send = e + TickModulus
      BY <2>2, <3>2, Constants
    <3> QED BY <1>4, <3>3, <3>4, <3>5, Constants DEF Elapsed
  <2>6. GateHolds'
    BY <2>1, <2>2, <2>4, <2>5 DEF GateHolds, BeatDue
  <2> QED BY <1>2, <2>3, <2>6
<1> QED BY <1>3, <1>4

(* Where a sleep of d ends. *)
LEMMA WakeTick ==
  ASSUME NEW now \in 0 .. TickModulus - 1, NEW d \in Nat
  PROVE  /\ (now + d) % TickModulus \in 0 .. TickModulus - 1
         /\ now + d < TickModulus => (now + d) % TickModulus = now + d
         /\ now + d >= TickModulus => (now + d) % TickModulus < d
<1>1. PICK m \in Nat \ {0} : m = TickModulus
  BY Constants
<1>2. PICK x \in Nat : x = now + d
  BY <1>1
<1>3. x % m \in 0 .. m - 1 /\ (x < m => x % m = x)
  BY ModRange, ModSmall
<1>4. x >= m => x % m < d
  <2> SUFFICES ASSUME x >= m PROVE x % m < d
    OBVIOUS
  <2>1. PICK q \in Nat, r \in 0 .. m - 1 : x = m * q + r /\ r = x % m
    BY DivMod, ModRange
  <2>2. q >= 1
    BY <2>1
  <2>3. m * q >= m
    BY <2>2
  <2>4. r <= x - m
    BY <2>1, <2>3
  <2> QED BY <1>1, <1>2, <2>1, <2>4
<1> QED BY <1>1, <1>2, <1>3, <1>4

LEMMA SleepKeeps ==
  ASSUME TelemetryIInv, Sleep
  PROVE  Numbers' /\ BeatFirst' /\ GateHolds'
<1> USE DEF TelemetryIInv, Sleep, Goto
<1>1. pc \in [Threads -> Labels] /\ "telemetry" \in Threads
  BY DEF SocketGone, Threads
<1>2. Numbers' /\ BeatFirst' /\ ~BeatNext'
  BY <1>1 DEF Numbers, BeatFirst, BeatNext, wireVars, frameVars
<1>3. PICK d \in 1 .. Interval + MaxLate :
         system_tick' = (system_tick + d) % TickModulus /\ since' = since + d
  OBVIOUS
<1>4. d \in Nat /\ d >= 1
  BY Constants
<1>5. /\ system_tick \in 0 .. TickModulus - 1 /\ since \in Nat /\ last_telemetry_send \in Nat
      /\ last_telemetry_send' = last_telemetry_send
  BY Constants DEF TelemetryTypeOK
<1>6. /\ system_tick' \in 0 .. TickModulus - 1
      /\ system_tick + d < TickModulus => system_tick' = system_tick + d
      /\ system_tick + d >= TickModulus => system_tick' < d
  BY <1>3, <1>4, <1>5, WakeTick
<1>7. GateHolds'
  BY <1>2, <1>3, <1>4, <1>5, <1>6, Constants DEF GateHolds
<1> QED BY <1>2, <1>7

LEMMA TypeKept ==
  ASSUME TelemetryIInv, Next, SocketGone'
  PROVE  TelemetryTypeOK'
<1> USE DEF TelemetryIInv, TelemetryTypeOK, clockVars, frameVars, socketVars, wireVars
<1>1. pc' \in [Threads -> Labels]
  BY DEF SocketGone
<1>2. \A n \in Nat : n % SeqModulus \in 0 .. SeqModulus - 1
  BY Constants, ModRange
<1>3. CASE mavlink_telemetry_update
  <2>1. frames' \in {frames, <<"HEARTBEAT">> \o Stream, Stream}
    BY <1>3 DEF mavlink_telemetry_update
  <2>2. ASSUME NEW f \in {frames, <<"HEARTBEAT">> \o Stream, Stream}
        PROVE  f \in Seq(FrameKinds) /\ Len(f) <= Len(Stream) + 1
    <3>1. Len(Stream) = 4 /\ Stream \in Seq(FrameKinds)
      BY Kinds
    <3>2. CASE f = <<"HEARTBEAT">> \o Stream
      <4>1. f \in Seq(FrameKinds) /\ Len(f) = 5
        BY <3>2, Kinds
      <4> QED BY <3>1, <4>1
    <3>3. CASE f = Stream
      <4>1. f \in Seq(FrameKinds) /\ Len(f) = 4
        BY <3>1, <3>3
      <4> QED BY <3>1, <4>1
    <3>4. CASE f = frames
      BY <3>4
    <3> QED BY <3>2, <3>3, <3>4
  <2> QED BY <1>1, <1>3, <2>1, <2>2 DEF mavlink_telemetry_update
<1>4. CASE mavlink_build_message
  <2>1. frames' \in Seq(FrameKinds) /\ Len(frames') <= Len(Stream) + 1
    <3>1. frames \in Seq(FrameKinds) /\ frames # <<>> /\ frames' = Tail(frames)
      BY <1>4 DEF mavlink_build_message
    <3>2. Tail(frames) \in Seq(FrameKinds) /\ Len(Tail(frames)) = Len(frames) - 1
          /\ Len(frames) \in Nat
      BY <3>1
    <3> QED BY <3>1, <3>2, Kinds
  <2>2. sequence + 1 \in Nat /\ unsent + 1 \in Nat
    BY Constants
  <2>3. since' \in Nat /\ missed' \in 0 .. MaxMissed
    BY <1>4, Constants DEF mavlink_build_message
  <2> QED BY <1>1, <1>2, <1>4, <2>1, <2>2, <2>3 DEF mavlink_build_message
<1>5. CASE Sleep
  <2>1. PICK d \in 1 .. Interval + MaxLate :
          system_tick' = (system_tick + d) % TickModulus /\ since' = since + d
    BY <1>5 DEF Sleep
  <2>2. d \in Nat /\ system_tick' \in 0 .. TickModulus - 1
    BY <2>1, WakeTick, Constants
  <2> QED BY <1>1, <1>5, <2>1, <2>2 DEF Sleep
<1>6. CASE Sendto
  BY <1>1, <1>6, Constants DEF Sendto
<1>7. CASE Loop \/ mavlink_udp_send \/ FramesDone
  BY <1>1, <1>7 DEF Loop, mavlink_udp_send, FramesDone
<1>11. CASE MissWakeUp
  <2>1. missed' \in 0 .. MaxMissed
    BY <1>11, Constants DEF MissWakeUp
  <2> QED BY <1>1, <1>11, <2>1 DEF MissWakeUp
<1>8. ASSUME NEW t \in Threads, mavlink_udp_cleanup(t) PROVE TelemetryTypeOK'
  BY <1>1, <1>8 DEF mavlink_udp_cleanup, Cleanup, Close, Forget, Finish
<1>9. CASE CtrlC \/ Exit
  BY <1>1, <1>9 DEF CtrlC, Exit
<1>10. CASE Exited
  BY <1>1, <1>10 DEF Exited, vars
<1> QED
  BY <1>3, <1>4, <1>5, <1>6, <1>7, <1>8, <1>9, <1>10, <1>11
     DEF Next, telemetry_task_function, console_handler, Threads

LEMMA IInvInductive == TelemetryIInv /\ [Next]_vars => TelemetryIInv'
<1> SUFFICES ASSUME TelemetryIInv, [Next]_vars PROVE TelemetryIInv'
  OBVIOUS
<1>1. SocketGone'
  BY SocketGoneInductive DEF TelemetryIInv
<1>2. TelemetryTypeOK'
  <2>1. CASE UNCHANGED vars
    BY <2>1 DEF TelemetryIInv, TelemetryTypeOK, vars, clockVars, frameVars, socketVars, wireVars
  <2> QED BY <1>1, <2>1, TypeKept
<1>3. Numbers' /\ BeatFirst' /\ GateHolds'
  BY AsideSteps, AsideKeeps, LoopKeeps, BuildKeeps, SendtoKeeps, UpdateKeeps, SleepKeeps
     DEF Next, telemetry_task_function
<1> QED BY <1>1, <1>2, <1>3 DEF TelemetryIInv

(* The invariant of the frames and of the gate, on which the rest stands.  *)
THEOREM TelemetryInvariance == Spec => []TelemetryIInv
<1> QED BY InitIInv, IInvInductive, PTL DEF Spec

(* Every variable of the telemetry task and of the console keeps its type  *)
(* (mavlink.c, mavlink_udp.c).                                             *)
THEOREM TelemetryTypeCorrect == Spec => []TelemetryTypeOK
<1>1. TelemetryIInv => TelemetryTypeOK
  BY DEF TelemetryIInv
<1> QED BY <1>1, TelemetryInvariance, PTL

(* The gap between two numbers is what was lost, for any width of the      *)
(* sequence byte, whoever closes the socket (mavlink_build_message).       *)
THEOREM LossesCounted == Spec => []GapsCountLosses
<1>1. TelemetryIInv => GapsCountLosses
  BY DEF TelemetryIInv, Numbers, GapsCountLosses
<1> QED BY <1>1, TelemetryInvariance, PTL

(* A second has one heartbeat at most: a turn inside the window of the one *)
(* before it is stopped by the gate (mavlink_telemetry_update).            *)
THEOREM BeatsApart == Spec => OneBeatPerSecond
<1>1. TelemetryIInv /\ [Next]_vars =>
        [BuildsBeat /\ missed = 0 /\ since <= system_tick => since > system_tick % Second]_vars
  <2> SUFFICES ASSUME TelemetryIInv, BuildsBeat, since <= system_tick
               PROVE  since > system_tick % Second
    OBVIOUS
  <2>1. frames \in Seq(FrameKinds) /\ frames # <<>> /\ Head(frames) = "HEARTBEAT"
    BY DEF BuildsBeat, TelemetryIInv, TelemetryTypeOK
  <2>2. BeatNext
    BY <2>1 DEF BeatNext
  <2> QED BY <2>2 DEF TelemetryIInv, GateHolds
<1> QED BY <1>1, TelemetryInvariance, PTL DEF Spec, OneBeatPerSecond

-----------------------------------------------------------------------------
(* The pace of the heartbeats                                              *)
(*                                                                         *)
(* A processed turn at tick t is in a second that has had its heartbeat    *)
(* (Hit), or in one whose window a late turn has stepped over (Missed).    *)
(* A missed second is followed by one whose window the next turns reach    *)
(* (Due): the place of each turn of a missed second in the grid of         *)
(* intervals, Phase, tells how late its turns are altogether.              *)

Phase(o) ==
  \E j \in Nat \ {0}, y \in 0 .. Interval - 1 : o = j * Interval + y /\ y < j * MaxLate

(* What is left of the last second when system_tick wraps. *)
Rest == TickModulus % Second

Hit(t, s) == s <= t % Second

Missed(t, s) ==
  /\ t + Interval < TickModulus => Phase(t % Second)
  /\ s <= (t % Second) + Second + (IF t < Second THEN Rest ELSE 0)

Due(t, s) ==
  /\ t % Second < Interval
  /\ s <= (t % Second) + 2 * Second + (IF s > t THEN Rest ELSE 0)

MostlyOnTime == (Second \div Interval) * MaxLate < Interval

(* The constants of a program whose turns are late by little. *)
LEMMA Proportions ==
  ASSUME MostlyOnTime
  PROVE  \E k \in Nat :
           /\ k >= 2 /\ Second = k * Interval /\ k * MaxLate < Interval
           /\ 2 * MaxLate < Interval /\ 2 * Interval <= Second
           /\ Rest \in Interval .. Second - 1
           /\ \E q \in Nat \ {0} : TickModulus = Second * q + Rest
<1>1. PICK k \in Nat : k = Second \div Interval /\ Second = Interval * k
  <2>1. Second \div Interval \in Nat
        /\ Second = Interval * (Second \div Interval) + (Second % Interval)
    BY Constants, DivMod
  <2> QED BY <2>1, Constants, TelemetryAssumption
<1>2. k >= 2 /\ k * Interval = Interval * k
  <2>1. k # 0 /\ k # 1
    BY <1>1, Constants
  <2> QED BY <2>1, Constants
<1>3. k * MaxLate < Interval
  BY <1>1 DEF MostlyOnTime
<1>4. 2 * MaxLate <= k * MaxLate /\ 2 * Interval <= k * Interval
  BY <1>2, Constants
<1>5. Rest \in Interval .. Second - 1
  BY Constants, ModRange, TelemetryAssumption DEF Rest
<1>6. PICK q \in Nat : TickModulus = Second * q + Rest
  BY Constants, DivMod DEF Rest
<1>7. q # 0
  BY <1>5, <1>6, Constants, TelemetryAssumption
<1>8. 2 * MaxLate < Interval /\ 2 * Interval <= Second /\ Second = k * Interval
  <2>1. k * MaxLate \in Nat /\ k * Interval \in Nat
    BY Constants
  <2> QED BY <1>1, <1>2, <1>3, <1>4, <2>1, Constants
<1> QED BY <1>2, <1>3, <1>5, <1>6, <1>7, <1>8

(* The first turn after a stepped-over window is late by less than MaxLate.*)
LEMMA FirstPhase ==
  ASSUME NEW o \in Nat, Interval <= o, o < Interval + MaxLate, MaxLate < Interval
  PROVE  Phase(o)
<1>1. PICK y \in 0 .. Interval - 1 : y = o - Interval /\ y < MaxLate
  BY Constants
<1>2. 1 \in Nat \ {0} /\ o = 1 * Interval + y /\ y < 1 * MaxLate
  BY <1>1, Constants
<1> QED BY <1>2 DEF Phase

(* A sleep is never short, unless wake_time has wrapped and system_tick has *)
(* not.                                                                     *)
LEMMA SleepLength ==
  ASSUME MostlyOnTime, NEW t \in 0 .. TickModulus - 1, NEW d \in 1 .. Interval + MaxLate,
         (t + Interval) % TickModulus <= (t + d) % TickModulus
  PROVE  /\ d \in Nat /\ d < 2 * Interval /\ d <= Second /\ Second < TickModulus
         /\ t + Interval < TickModulus => t + d < TickModulus /\ d >= Interval
         /\ t + d < TickModulus => (t + d) % TickModulus = t + d
         /\ t + d >= TickModulus => d >= Interval /\ (t + d) % TickModulus = t + d - TickModulus
<1>1. PICK m \in Nat \ {0}, i \in Nat \ {0} : m = TickModulus /\ i = Interval
  BY Constants
<1>2. /\ d \in Nat /\ d < 2 * i /\ d <= Second /\ Second < m /\ i < m /\ t < m
  BY <1>1, Proportions, Constants, TelemetryAssumption
<1>3. PICK x \in Nat, w \in Nat : x = t + d /\ w = t + i
  BY <1>1, <1>2
<1>4. x < 2 * m /\ w < 2 * m
  BY <1>1, <1>2, <1>3, Constants, TelemetryAssumption
<1>5. x % m = IF x < m THEN x ELSE x - m
  BY <1>4, Wraps
<1>6. w % m = IF w < m THEN w ELSE w - m
  BY <1>4, Wraps
<1>7. w % m <= x % m
  BY <1>1, <1>3
<1> QED BY <1>1, <1>2, <1>3, <1>5, <1>6, <1>7

LEMMA SecondLater ==
  ASSUME NEW t \in Nat, NEW d \in Nat, d <= Second
  PROVE  /\ t % Second \in 0 .. Second - 1
         /\ (t + d) % Second = IF (t % Second) + d < Second THEN (t % Second) + d
                               ELSE (t % Second) + d - Second
         /\ t < Second => t % Second = t
BY Constants, ModAdd, ModRange, ModSmall

LEMMA FromHit ==
  ASSUME MostlyOnTime, NEW t \in Nat, NEW s \in Nat, NEW d \in Interval .. Interval + MaxLate,
         Hit(t, s)
  PROVE  Hit(t + d, s + d) \/ Missed(t + d, s + d) \/ Due(t + d, s + d)
<1>1. PICK k \in Nat :
        /\ 2 * MaxLate < Interval /\ 2 * Interval <= Second
        /\ Rest \in Interval .. Second - 1
  BY Proportions
<1>2. d \in Nat /\ d <= Second /\ Interval <= d /\ d <= Interval + MaxLate
  BY <1>1, Constants
<1>3. PICK o \in 0 .. Second - 1 : o = t % Second
  BY Constants, ModRange
<1>4. PICK n \in 0 .. Second - 1 : n = (t + d) % Second
  <2>1. t + d \in Nat
    BY <1>2
  <2> QED BY <2>1, Constants, ModRange
<1>5. n = IF o + d < Second THEN o + d ELSE o + d - Second
  BY <1>2, <1>3, <1>4, SecondLater
<1>6. s <= o
  BY <1>3 DEF Hit
<1>7. CASE o + d < Second
  BY <1>2, <1>4, <1>5, <1>6, <1>7, Constants DEF Hit
<1>8. CASE o + d >= Second
  <2>1. n = o + d - Second /\ s + d <= n + Second /\ n < Interval + MaxLate
    BY <1>2, <1>3, <1>5, <1>6, <1>8, Constants
  <2>2. CASE n < Interval
    BY <1>1, <1>2, <1>4, <2>1, <2>2, Constants DEF Due
  <2>3. CASE n >= Interval
    <3>1. Phase(n)
      BY <1>1, <2>1, <2>3, FirstPhase, Constants
    <3>2. s + d <= n + Second + (IF t + d < Second THEN Rest ELSE 0)
      BY <1>1, <1>2, <2>1, Constants
    <3> QED BY <1>4, <3>1, <3>2 DEF Missed
  <2> QED BY <2>2, <2>3, Constants
<1> QED BY <1>7, <1>8, <1>2, Constants

(* A turn further on in the grid, and how it leaves a missed second. *)
LEMMA PhaseNext ==
  ASSUME MostlyOnTime, NEW o \in 0 .. Second - 1, NEW d \in Interval .. Interval + MaxLate,
         Phase(o)
  PROVE  /\ o + d < Second => Phase(o + d)
         /\ o + d >= Second => o + d - Second < Interval
<1>1. PICK k \in Nat : Second = k * Interval /\ k * MaxLate < Interval
  BY Proportions
<1>2. PICK j \in Nat \ {0}, y \in 0 .. Interval - 1 : o = j * Interval + y /\ y < j * MaxLate
  BY DEF Phase
<1>3. PICK l \in 0 .. MaxLate : d = Interval + l
  BY Constants
<1>4. j < k
  <2> SUFFICES ASSUME j >= k PROVE FALSE
    OBVIOUS
  <2>1. j * Interval >= k * Interval
    BY <1>1, Constants
  <2> QED BY <1>1, <1>2, <2>1, Constants
<1>5. PICK jI \in Nat, jL \in Nat, i \in Nat \ {0} :
        jI = j * Interval /\ jL = j * MaxLate /\ i = j + 1
  BY Constants
<1>6. i * Interval = jI + Interval /\ i * MaxLate = jL + MaxLate
  BY <1>5, Constants
<1>7. jL + MaxLate <= k * MaxLate /\ jI + Interval <= k * Interval
  <2>1. i <= k
    BY <1>4, <1>5
  <2>2. i * MaxLate <= k * MaxLate /\ i * Interval <= k * Interval
    BY <2>1, Constants
  <2> QED BY <1>6, <2>2
<1>8. PICK z \in 0 .. Interval - 1 : z = y + l /\ z < jL + MaxLate
  BY <1>1, <1>2, <1>3, <1>5, <1>7, Constants
<1>9. o + d = jI + Interval + z
  BY <1>2, <1>3, <1>5, <1>8, Constants
<1>10. Phase(o + d)
  <2>1. o + d = i * Interval + z /\ z < i * MaxLate
    BY <1>6, <1>8, <1>9
  <2> QED BY <2>1 DEF Phase
<1>11. o + d - Second < Interval
  BY <1>1, <1>7, <1>8, <1>9, Constants
<1> QED BY <1>10, <1>11

LEMMA FromMissed ==
  ASSUME MostlyOnTime, NEW t \in Nat, NEW s \in Nat, NEW d \in Interval .. Interval + MaxLate,
         t + Interval < TickModulus, Missed(t, s), ~Hit(t, s)
  PROVE  Missed(t + d, s + d) \/ Due(t + d, s + d)
<1>1. Rest \in Nat
  BY Constants, ModRange DEF Rest
<1>2. d \in Nat /\ d <= Second
  BY Proportions, Constants
<1>3. PICK o \in 0 .. Second - 1 : o = t % Second
  BY Constants, ModRange
<1>4. PICK n \in 0 .. Second - 1 : n = (t + d) % Second
  <2>1. t + d \in Nat
    BY <1>2
  <2> QED BY <2>1, Constants, ModRange
<1>5. /\ n = IF o + d < Second THEN o + d ELSE o + d - Second
      /\ t < Second => o = t
  BY <1>2, <1>3, <1>4, SecondLater
<1>6. /\ Phase(o) /\ s > o
      /\ s <= o + Second + (IF t < Second THEN Rest ELSE 0)
  BY <1>3, Constants DEF Missed, Hit
<1>7. /\ o + d < Second => Phase(o + d)
      /\ o + d >= Second => o + d - Second < Interval
  BY <1>6, PhaseNext
<1>8. CASE o + d < Second
  <2>1. Phase(n) /\ n = o + d
    BY <1>5, <1>7, <1>8
  <2>2. t < Second => t + d < Second
    BY <1>2, <1>5, <1>8
  <2>3. s + d <= n + Second + (IF t + d < Second THEN Rest ELSE 0)
    BY <1>1, <1>2, <1>6, <2>1, <2>2, Constants
  <2> QED BY <1>4, <2>1, <2>3 DEF Missed
<1>9. CASE o + d >= Second
  <2>1. n < Interval /\ n = o + d - Second
    BY <1>5, <1>7, <1>9, <1>2, Constants
  <2>2. t < Second => s + d > t + d
    BY <1>2, <1>5, <1>6
  <2>3. s + d <= n + 2 * Second + (IF s + d > t + d THEN Rest ELSE 0)
    BY <1>1, <1>2, <1>6, <2>1, <2>2, Constants
  <2> QED BY <1>4, <2>1, <2>3 DEF Due
<1> QED BY <1>2, <1>8, <1>9, Constants

(* The last interval before the wrap, where sleeps end at once. *)
LEMMA FreeZone ==
  ASSUME MostlyOnTime, NEW t \in 0 .. TickModulus - 1, t + Interval >= TickModulus
  PROVE  \E o \in 0 .. Rest - 1 :
           /\ o = t % Second /\ t >= Second /\ Rest - o = TickModulus - t
<1>1. PICK q \in Nat \ {0} : TickModulus = Second * q + Rest
  BY Proportions
<1>2. Rest \in Interval .. Second - 1 /\ Rest \in Nat
  BY Proportions, Constants
<1>3. PICK w \in Nat : w = Second * q /\ w >= Second
  BY <1>1, Constants
<1>4. PICK o \in 0 .. Rest - 1 : t = w + o
  BY <1>1, <1>2, <1>3, Constants
<1>5. o \in 0 .. Second - 1 /\ t = Second * q + o
  BY <1>2, <1>3, <1>4, Constants
<1>6. t \in Nat /\ q \in Nat
  BY Constants
<1>7. t % Second = o
  BY <1>5, <1>6, Constants, ModUnique
<1>8. t >= Second /\ Rest - o = TickModulus - t
  BY <1>1, <1>2, <1>3, <1>4, Constants
<1> QED BY <1>7, <1>8

LEMMA FromFreeZone ==
  ASSUME MostlyOnTime, NEW t \in 0 .. TickModulus - 1, NEW s \in Nat,
         NEW d \in 1 .. Interval + MaxLate, t + Interval >= TickModulus,
         (t + Interval) % TickModulus <= (t + d) % TickModulus, Hit(t, s) \/ Missed(t, s),
         NEW n \in 0 .. TickModulus - 1, n = (t + d) % TickModulus
  PROVE  \/ Hit(n, s + d) \/ Missed(n, s + d)
         \/ Due(n, s + d) /\ d >= Interval
<1>1. PICK o \in 0 .. Rest - 1 : o = t % Second /\ t >= Second /\ Rest - o = TickModulus - t
  BY FreeZone
<1>2. /\ d \in Nat /\ d < 2 * Interval /\ d <= Second /\ Second < TickModulus /\ t \in Nat
      /\ t + d < TickModulus => n = t + d
      /\ t + d >= TickModulus => d >= Interval /\ n = t + d - TickModulus
  <2>1. /\ d \in Nat /\ d < 2 * Interval /\ d <= Second /\ Second < TickModulus
        /\ t + d < TickModulus => (t + d) % TickModulus = t + d
        /\ t + d >= TickModulus =>
             d >= Interval /\ (t + d) % TickModulus = t + d - TickModulus
    BY SleepLength
  <2>2. t \in Nat
    BY Constants
  <2> QED BY <2>1, <2>2
<1>3. Rest \in Interval .. Second - 1 /\ Rest \in Nat /\ 2 * MaxLate < Interval
      /\ 2 * Interval <= Second
  BY Proportions, Constants
<1>4. s <= o \/ s <= o + Second
  BY <1>1, Constants DEF Hit, Missed
<1>5. CASE t + d < TickModulus
  <2>1. n = t + d /\ n + Interval >= TickModulus /\ n >= Second /\ o + d < Second
    BY <1>1, <1>2, <1>3, <1>5, Constants
  <2>2. n % Second = o + d
    BY <1>1, <1>2, <2>1, SecondLater
  <2>3. s <= o => Hit(n, s + d)
    BY <1>1, <1>2, <1>3, <2>2, Constants DEF Hit
  <2>4. s <= o + Second => Missed(n, s + d)
    BY <1>1, <1>2, <1>3, <2>1, <2>2, Constants DEF Missed
  <2> QED BY <1>4, <2>3, <2>4
<1>6. CASE t + d >= TickModulus
  <2>1. d >= Interval /\ n = t + d - TickModulus /\ n + Rest = o + d /\ n < d
        /\ n < Interval + MaxLate /\ n < Second /\ n \in Nat
    BY <1>1, <1>2, <1>3, <1>6, Constants
  <2>2. n % Second = n
    BY <2>1, Constants, ModSmall
  <2>3. s + d <= n + Rest + Second
    BY <1>1, <1>2, <1>3, <1>4, <2>1, Constants
  <2>4. s + d > n
    BY <1>2, <2>1
  <2>5. CASE n < Interval
    <3>1. s + d <= n + 2 * Second + Rest
      BY <1>2, <1>3, <2>1, <2>3, Constants
    <3> QED BY <2>1, <2>2, <2>4, <2>5, <3>1 DEF Due
  <2>6. CASE n >= Interval
    <3>1. Phase(n)
      BY <1>3, <2>1, <2>6, FirstPhase, Constants
    <3>2. s + d <= n + Second + Rest
      BY <1>2, <1>3, <2>1, <2>3, Constants
    <3> QED BY <2>1, <2>2, <3>1, <3>2 DEF Missed
  <2> QED BY <2>1, <2>5, <2>6, Constants
<1> QED BY <1>2, <1>5, <1>6, Constants

-----------------------------------------------------------------------------
(* Where the heartbeats are late the gate is open, and at the end of a     *)
(* turn it is closed: no turn is wasted.                                   *)
Pace ==
  /\ Elapsed \in 0 .. TickModulus - 1
  /\ pc["telemetry"] = "sleep" => Elapsed < Interval
  /\ pc["telemetry"] \in {"frames", "send", "sendto"} => last_telemetry_send = system_tick
  /\ \/ Hit(system_tick, since)
     \/ Missed(system_tick, since)
     \/ /\ Due(system_tick, since)
        /\ pc["telemetry"] \in {"loop", "update"} => Elapsed >= Interval
        /\ pc["telemetry"] \in {"frames", "send", "sendto", "sleep"} => BeatNext

PaceIInv == TelemetryIInv /\ Pace

LEMMA ElapsedSince ==
  ASSUME TelemetryTypeOK
  PROVE  /\ Elapsed \in 0 .. TickModulus - 1
         /\ last_telemetry_send = system_tick => Elapsed = 0
         /\ last_telemetry_send = 0 => Elapsed = system_tick
<1>1. PICK m \in Nat \ {0} : m = TickModulus
  BY Constants
<1>2. system_tick \in 0 .. m - 1 /\ last_telemetry_send \in 0 .. m - 1
  BY <1>1 DEF TelemetryTypeOK
<1>3. PICK x \in Nat : x = system_tick + m - last_telemetry_send /\ x < 2 * m
  BY <1>2
<1>4. x % m = IF x < m THEN x ELSE x - m
  BY <1>3, Wraps
<1>5. Elapsed = x % m
  BY <1>1, <1>3 DEF Elapsed
<1> QED BY <1>1, <1>2, <1>3, <1>4, <1>5

LEMMA InitPace ==
  ASSUME MostlyOnTime, Init
  PROVE  Pace
<1>1. TelemetryTypeOK
  BY InitIInv DEF TelemetryIInv
<1>2. pc["telemetry"] = "loop" /\ since = system_tick /\ last_telemetry_send = 0
      /\ system_tick \in 0 .. Second - 1
  BY DEF Init, Threads
<1>3. system_tick % Second = system_tick
  BY <1>2, Constants, ModSmall
<1>4. Hit(system_tick, since)
  BY <1>2, <1>3, Constants DEF Hit
<1> QED BY <1>1, <1>2, <1>4, ElapsedSince DEF Pace

LEMMA AsidePace ==
  ASSUME PaceIInv, Aside
  PROVE  Pace'
BY DEF PaceIInv, Pace, Aside, BeatNext, Elapsed, clockVars, frameVars, wireVars

LEMMA LoopPace ==
  ASSUME PaceIInv, Loop \/ mavlink_udp_send \/ FramesDone \/ Sendto \/ MissWakeUp
  PROVE  Pace'
<1>1. pc \in [Threads -> Labels] /\ "telemetry" \in Threads
  BY DEF PaceIInv, TelemetryIInv, SocketGone, Threads
<1>2. /\ system_tick' = system_tick /\ since' = since /\ frames' = frames
      /\ last_telemetry_send' = last_telemetry_send /\ Elapsed' = Elapsed
      /\ BeatNext' = BeatNext
  BY DEF Loop, mavlink_udp_send, FramesDone, Sendto, MissWakeUp, clockVars, frameVars, Elapsed,
     BeatNext
<1>3. TelemetryTypeOK /\ BeatFirst
  BY DEF PaceIInv, TelemetryIInv
<1>4. CASE Loop
  BY <1>1, <1>2, <1>4 DEF PaceIInv, Pace, Loop, Goto
<1>5. CASE mavlink_udp_send \/ Sendto
  BY <1>1, <1>2, <1>5 DEF PaceIInv, Pace, mavlink_udp_send, Sendto, Goto
<1>6. CASE FramesDone
  <2>1. ~BeatNext /\ last_telemetry_send = system_tick /\ pc'["telemetry"] = "sleep"
        /\ pc["telemetry"] = "frames"
    BY <1>1, <1>6 DEF FramesDone, Goto, BeatNext, PaceIInv, Pace
  <2>2. Elapsed = 0
    BY <1>3, <2>1, ElapsedSince
  <2> QED BY <1>2, <2>1, <2>2, Constants DEF PaceIInv, Pace
<1>7. CASE MissWakeUp
  BY <1>2, <1>7 DEF PaceIInv, Pace, MissWakeUp
<1> QED BY <1>4, <1>5, <1>6, <1>7

LEMMA UpdatePace ==
  ASSUME PaceIInv, mavlink_telemetry_update, TelemetryTypeOK'
  PROVE  Pace'
<1>1. pc \in [Threads -> Labels] /\ "telemetry" \in Threads
  BY DEF PaceIInv, TelemetryIInv, SocketGone, Threads
<1>2. /\ system_tick' = system_tick /\ since' = since /\ pc["telemetry"] = "update"
      /\ Pace
  BY DEF mavlink_telemetry_update, PaceIInv
<1>3. CASE Elapsed < Interval
  <2>1. /\ last_telemetry_send' = last_telemetry_send /\ frames' = frames
        /\ pc'["telemetry"] = "sleep" /\ Elapsed' = Elapsed
    BY <1>1, <1>3 DEF mavlink_telemetry_update, Goto, Elapsed
  <2>2. Hit(system_tick, since) \/ Missed(system_tick, since)
    BY <1>2, <1>3, Constants DEF Pace
  <2> QED BY <1>2, <1>3, <2>1, <2>2 DEF Pace
<1>4. CASE ~(Elapsed < Interval)
  <2>1. /\ last_telemetry_send' = system_tick /\ pc'["telemetry"] = "frames"
        /\ frames' = IF BeatDue THEN <<"HEARTBEAT">> \o Stream ELSE Stream
    BY <1>1, <1>4 DEF mavlink_telemetry_update, Goto
  <2>2. Elapsed' \in 0 .. TickModulus - 1
    <3>1. system_tick \in Nat /\ TickModulus \in Nat \ {0}
      BY Constants DEF PaceIInv, TelemetryIInv, TelemetryTypeOK
    <3>2. system_tick' + TickModulus - last_telemetry_send' = TickModulus
      BY <1>2, <2>1, <3>1
    <3>3. TickModulus % TickModulus \in 0 .. TickModulus - 1
      BY <3>1, ModRange
    <3> QED BY <3>2, <3>3 DEF Elapsed
  <2>3. Due(system_tick, since) => BeatNext'
    <3>1. <<"HEARTBEAT">> \o Stream # <<>>
      <4>1. Len(<<"HEARTBEAT">> \o Stream) = 5
        BY Kinds
      <4> QED BY <4>1
    <3> QED BY <2>1, <3>1, Kinds DEF Due, BeatDue, BeatNext
  <2> QED BY <1>2, <2>1, <2>2, <2>3 DEF Pace
<1> QED BY <1>3, <1>4

LEMMA BuildPace ==
  ASSUME PaceIInv, mavlink_build_message
  PROVE  Pace'
<1>1. pc \in [Threads -> Labels] /\ "telemetry" \in Threads
  BY DEF PaceIInv, TelemetryIInv, SocketGone, Threads
<1>2. /\ system_tick' = system_tick /\ last_telemetry_send' = last_telemetry_send
      /\ pc["telemetry"] = "frames" /\ pc'["telemetry"] = "send" /\ Elapsed' = Elapsed
      /\ since' = IF Head(frames) = "HEARTBEAT" THEN 0 ELSE since
      /\ frames # <<>>
  BY <1>1 DEF mavlink_build_message, Goto, Elapsed
<1>3. frames \in Seq(FrameKinds) /\ system_tick \in Nat
  BY Constants DEF PaceIInv, TelemetryIInv, TelemetryTypeOK
<1>4. Head(frames) = frames[1]
  BY <1>2, <1>3
<1>5. CASE Head(frames) = "HEARTBEAT"
  <2>1. Hit(system_tick', since')
    BY <1>2, <1>3, <1>5, Constants, ModRange DEF Hit
  <2> QED BY <1>2, <2>1 DEF PaceIInv, Pace
<1>6. CASE Head(frames) # "HEARTBEAT"
  <2>1. ~BeatNext
    BY <1>4, <1>6 DEF BeatNext
  <2> QED BY <1>2, <1>6, <2>1 DEF PaceIInv, Pace
<1> QED BY <1>5, <1>6

LEMMA ElapsedLater ==
  ASSUME NEW t \in 0 .. TickModulus - 1, NEW l \in 0 .. TickModulus - 1, NEW d \in Nat,
         NEW n \in 0 .. TickModulus - 1,
         t + d < TickModulus => n = t + d,
         t + d >= TickModulus => n = t + d - TickModulus,
         ((t + TickModulus - l) % TickModulus) + d < TickModulus
  PROVE  (n + TickModulus - l) % TickModulus = ((t + TickModulus - l) % TickModulus) + d
<1>1. PICK m \in Nat \ {0} : m = TickModulus
  BY Constants
<1>2. PICK x \in Nat, y \in Nat : x = t + m - l /\ y = n + m - l /\ x < 2 * m /\ y < 2 * m
  BY <1>1
<1>3. x % m = (IF x < m THEN x ELSE x - m) /\ y % m = (IF y < m THEN y ELSE y - m)
  BY <1>2, Wraps
<1>4. PICK e \in 0 .. m - 1 : e = x % m /\ e + d < m
  BY <1>1, <1>2, ModRange
<1>5. e = IF x < m THEN x ELSE x - m
  BY <1>3, <1>4
<1>6. (IF y < m THEN y ELSE y - m) = e + d
  BY <1>1, <1>2, <1>4, <1>5
<1> QED BY <1>1, <1>2, <1>3, <1>4, <1>6

LEMMA SleepPace ==
  ASSUME MostlyOnTime, PaceIInv, Sleep, TelemetryTypeOK'
  PROVE  Pace'
<1>1. pc \in [Threads -> Labels] /\ "telemetry" \in Threads
  BY DEF PaceIInv, TelemetryIInv, SocketGone, Threads
<1>2. PICK d \in 1 .. Interval + MaxLate :
        /\ (system_tick + Interval) % TickModulus <= (system_tick + d) % TickModulus
        /\ system_tick' = (system_tick + d) % TickModulus
        /\ since' = since + d
  BY DEF Sleep
<1>3. /\ pc["telemetry"] = "sleep" /\ pc'["telemetry"] = "loop"
      /\ last_telemetry_send' = last_telemetry_send
  BY <1>1 DEF Sleep, Goto
<1>4. PICK t \in 0 .. TickModulus - 1, l \in 0 .. TickModulus - 1, s \in Nat,
           n \in 0 .. TickModulus - 1 :
        t = system_tick /\ l = last_telemetry_send /\ s = since /\ n = system_tick'
  BY DEF PaceIInv, TelemetryIInv, TelemetryTypeOK
<1>5. Hit(t, s) \/ Missed(t, s)
  <2>1. frames # <<>> => frames[1] # "HEARTBEAT"
    BY <1>3 DEF PaceIInv, TelemetryIInv, BeatFirst
  <2> QED BY <1>3, <1>4, <2>1 DEF PaceIInv, Pace, BeatNext
<1>6. /\ d \in Nat /\ d < 2 * Interval /\ d <= Second /\ Second < TickModulus
      /\ t + Interval < TickModulus => t + d < TickModulus /\ d >= Interval
      /\ t + d < TickModulus => n = t + d
      /\ t + d >= TickModulus => d >= Interval /\ n = t + d - TickModulus
  <2>1. (t + Interval) % TickModulus <= (t + d) % TickModulus
    BY <1>2, <1>4
  <2>2. /\ d \in Nat /\ d < 2 * Interval /\ d <= Second /\ Second < TickModulus
        /\ t + Interval < TickModulus => t + d < TickModulus /\ d >= Interval
        /\ t + d < TickModulus => (t + d) % TickModulus = t + d
        /\ t + d >= TickModulus => d >= Interval /\ (t + d) % TickModulus = t + d - TickModulus
    BY <2>1, SleepLength
  <2> QED BY <1>2, <1>4, <2>2
<1>7. PICK e \in 0 .. TickModulus - 1 : e = Elapsed /\ e < Interval
  BY <1>3 DEF PaceIInv, Pace
<1>8. e + d < TickModulus
  <2>1. PICK q \in Nat \ {0} : TickModulus = Second * q + Rest
    BY Proportions
  <2>2. Second * q >= Second /\ Rest >= Interval /\ Rest \in Nat /\ 2 * Interval <= Second
        /\ Second * q \in Nat
    BY <2>1, Proportions, Constants
  <2> QED BY <1>6, <1>7, <2>1, <2>2, Constants
<1>9. Elapsed' = e + d
  <2>1. e = (t + TickModulus - l) % TickModulus
    BY <1>4, <1>7 DEF Elapsed
  <2>2. (n + TickModulus - l) % TickModulus = e + d
    BY <1>6, <1>8, <2>1, ElapsedLater
  <2> QED BY <1>3, <1>4, <2>2 DEF Elapsed
<1>10. \/ Hit(n, s + d) \/ Missed(n, s + d)
       \/ Due(n, s + d) /\ d >= Interval
  <2>1. CASE t + Interval < TickModulus
    <3>1. d \in Interval .. Interval + MaxLate /\ n = t + d /\ t \in Nat
      BY <1>6, <2>1, Constants
    <3>2. CASE Hit(t, s)
      BY <3>1, <3>2, FromHit
    <3>3. CASE ~Hit(t, s)
      BY <1>5, <2>1, <3>1, <3>3, FromMissed
    <3> QED BY <3>2, <3>3
  <2>2. CASE t + Interval >= TickModulus
    BY <1>2, <1>4, <1>5, <2>2, FromFreeZone
  <2> QED BY <2>1, <2>2, Constants
<1>11. Hit(system_tick', since') \/ Missed(system_tick', since')
       \/ (Due(system_tick', since') /\ Elapsed' >= Interval)
  BY <1>2, <1>4, <1>6, <1>7, <1>9, <1>10, Constants
<1>12. Elapsed' \in 0 .. TickModulus - 1
  BY <1>6, <1>7, <1>8, <1>9, Constants
<1> QED BY <1>3, <1>11, <1>12 DEF Pace, Hit, Missed, Due, Phase, Rest

LEMMA PaceInductive == MostlyOnTime /\ PaceIInv /\ [Next]_vars => PaceIInv'
<1> SUFFICES ASSUME MostlyOnTime, PaceIInv, [Next]_vars PROVE PaceIInv'
  OBVIOUS
<1>1. TelemetryIInv' /\ TelemetryIInv
  BY IInvInductive DEF PaceIInv
<1>2. TelemetryTypeOK'
  BY <1>1 DEF TelemetryIInv
<1>3. Pace'
  BY <1>1, <1>2, AsideSteps, AsidePace, LoopPace, UpdatePace, BuildPace, SleepPace
     DEF Next, telemetry_task_function
<1> QED BY <1>1, <1>3 DEF PaceIInv

LEMMA PaceBounds ==
  ASSUME MostlyOnTime, PaceIInv
  PROVE  since <= 2 * Second + Interval + (IF since > system_tick THEN Rest ELSE 0)
<1>1. PICK t \in 0 .. TickModulus - 1, s \in Nat : t = system_tick /\ s = since
  BY DEF PaceIInv, TelemetryIInv, TelemetryTypeOK
<1>2. PICK o \in 0 .. Second - 1 : o = t % Second /\ (t < Second => o = t) /\ t \in Nat
  <2>1. t \in Nat
    BY Constants
  <2> QED BY <2>1, Constants, ModRange, ModSmall
<1>3. Rest \in Nat
  BY Constants, ModRange DEF Rest
<1>4. ASSUME Hit(t, s)
      PROVE  s <= 2 * Second + Interval + (IF s > t THEN Rest ELSE 0)
  BY <1>2, <1>3, <1>4, Constants DEF Hit
<1>5. ASSUME Missed(t, s)
      PROVE  s <= 2 * Second + Interval + (IF s > t THEN Rest ELSE 0)
  BY <1>2, <1>3, <1>5, Constants DEF Missed
<1>6. ASSUME Due(t, s)
      PROVE  s <= 2 * Second + Interval + (IF s > t THEN Rest ELSE 0)
  BY <1>2, <1>3, <1>6, Constants DEF Due
<1>7. s <= 2 * Second + Interval + (IF s > t THEN Rest ELSE 0)
  BY <1>1, <1>4, <1>5, <1>6 DEF PaceIInv, Pace
<1> QED BY <1>1, <1>7

(* While the turns of a second are together late by less than an interval, *)
(* no two seconds in a row go without a heartbeat, also where sleeps end   *)
(* at once before system_tick wraps, but for the whole wraps that missed   *)
(* wake-ups cost (mavlink_telemetry_update, task_sleep,                    *)
(* kernel_tick_handler).                                                   *)
THEOREM SilencesBounded == Spec => []SilenceBounded
<1>1. MostlyOnTime /\ Init => PaceIInv
  BY InitIInv, InitPace DEF PaceIInv
<1>2. CASE MostlyOnTime
  <2>1. Init => PaceIInv
    BY <1>1, <1>2
  <2>2. PaceIInv /\ [Next]_vars => PaceIInv'
    BY <1>2, PaceInductive
  <2>3. PaceIInv => SilenceBounded
    <3> SUFFICES ASSUME PaceIInv  PROVE SilenceBounded
      OBVIOUS
    <3>1. since <= 2 * Second + Interval + (IF since > system_tick THEN Rest ELSE 0)
      BY <1>2, PaceBounds
    <3>2. since \in Nat /\ Rest \in Nat /\ missed \in Nat
      BY Constants, ModRange DEF PaceIInv, TelemetryIInv, TelemetryTypeOK, Rest
    <3>3. PICK slept \in Nat : slept = missed * TickModulus
      BY <3>2, Constants
    <3> QED BY <3>1, <3>2, <3>3, Constants DEF SilenceBounded, Silence, Rest
  <2> QED BY <2>1, <2>2, <2>3, PTL DEF Spec
<1>3. CASE ~MostlyOnTime
  <2>1. SilenceBounded
    BY <1>3 DEF SilenceBounded, MostlyOnTime
  <2> QED BY <2>1, PTL
<1> QED BY <1>2, <1>3

=============================================================================
