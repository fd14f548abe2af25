------------------------------ MODULE MCTimers ------------------------------
(* Module Timers with one periodic timer of one tick and one-shot timers   *)
(* of three.                                                               *)
EXTENDS Timers

MCKinds == {<<1, TRUE>>, <<3, FALSE>>}

=============================================================================
