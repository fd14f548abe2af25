------------------------------ MODULE MCFlight ------------------------------
(* Module Flight with three of the tasks of main.c registered: Control has *)
(* the shortest time-out, as in system_init; the others' are long enough   *)
(* to differ from it and short enough to run out before TickLimit.         *)
EXTENDS Flight

MCTimeoutOf == [t \in TaskIds |-> IF t = "Control" THEN 1 ELSE 2]

=============================================================================
