------------------------------ MODULE MCKernel ------------------------------
(* Module Kernel with tasks that make every call.                          *)
EXTENDS Kernel

SchedulerCalls == {"create", "delete", "suspend", "resume", "sleep", "yield",
                   "set_priority", "lock", "return"}

=============================================================================
