------------------------------- MODULE Ticks --------------------------------
(* Times as the services around the kernel read them: kernel_get_tick()    *)
(* returns a uint32_t, and times are subtracted in that width.             *)
EXTENDS Integers

CONSTANT TickModulus  \* 2^32

ASSUME TicksAssumption == TickModulus \in Nat \ {0}

Elapsed(now, since) == (now - since) % TickModulus

=============================================================================
