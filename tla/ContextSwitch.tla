--------------------------- MODULE ContextSwitch ----------------------------
(***************************************************************************)
(* What setjmp and longjmp of kernel_schedule do to the one C stack that   *)
(* all tasks of kernel/rtos_kernel.c share.  Module Kernel takes a switch  *)
(* for what it is meant to do; this module takes it literally.             *)
(*                                                                         *)
(* A task is dispatched for the first time by a call of its function from  *)
(* within kernel_schedule, on top of the frames of the task it replaces.   *)
(* A jmp_buf names a frame of kernel_schedule by its place on the stack,   *)
(* and is Dead from the moment this frame has returned or was jumped over. *)
(* Which READY task is chosen is left open, so that priorities and the     *)
(* times of sleeps are arbitrary.                                          *)
(***************************************************************************)
EXTENDS Naturals, Sequences

CONSTANTS
  Tasks,      \* application tasks
  Idle,       \* the idle task
  First,      \* the task that kernel_start runs
  Dead        \* a jmp_buf whose frame is gone, or that was never set

VARIABLES
  current_task,
  state,
  first_run,
  context,    \* jmp_buf of a task: the place of a frame on the stack, or Dead
  stack       \* whose function each frame runs, outermost first

vars == <<current_task, state, first_run, context, stack>>

TCB == Tasks \cup {Idle}

(* kernel_start: its own frame is at place 0, and first_run is set again.  *)
Init ==
  /\ current_task = First
  /\ state = [t \in TCB |-> IF t = First THEN "RUNNING" ELSE "READY"]
  /\ first_run = [t \in TCB |-> TRUE]
  /\ context = [t \in TCB |-> IF t = First THEN 0 ELSE Dead]
  /\ stack = <<First>>

(* The tick handler wakes a sleeper.                                       *)
Wake(t) ==
  /\ state[t] = "BLOCKED"
  /\ state' = [state EXCEPT ![t] = "READY"]
  /\ UNCHANGED <<current_task, first_run, context, stack>>

(* The current task sleeps or yields and n is chosen: its function is      *)
(* called, and the context of the task it replaces is not saved.           *)
DispatchFirstRun(n) ==
  /\ state[n] = "READY" /\ n # current_task /\ first_run[n]
  /\ \E s \in {"BLOCKED", "READY"} :
       /\ s = "BLOCKED" => current_task # Idle
       /\ state' = [state EXCEPT ![current_task] = s, ![n] = "RUNNING"]
  /\ first_run' = [first_run EXCEPT ![n] = FALSE]
  /\ context' = [context EXCEPT ![n] = Len(stack)]
  /\ stack' = Append(stack, n)
  /\ current_task' = n

(* Or n has run before: the context of the current task is saved, and      *)
(* longjmp goes to the frame in n's context, which returns to its caller.  *)
(* A jump into a dead frame is undefined and where this model ends.        *)
SwitchContext(n) ==
  LET saved == [context EXCEPT ![current_task] = Len(stack)]
      place == saved[n]
  IN  /\ state[n] = "READY" /\ n # current_task /\ ~first_run[n]
      /\ place # Dead
      /\ \E s \in {"BLOCKED", "READY"} :
           /\ s = "BLOCKED" => current_task # Idle
           /\ state' = [state EXCEPT ![current_task] = s, ![n] = "RUNNING"]
      /\ stack' = SubSeq(stack, 1, place)
      /\ context' = [t \in TCB |-> IF saved[t] # Dead /\ saved[t] >= place THEN Dead ELSE saved[t]]
      /\ current_task' = n
      /\ UNCHANGED first_run

Next == \E t \in TCB : Wake(t) \/ DispatchFirstRun(t) \/ SwitchContext(t)

Spec == Init /\ [][Next]_vars

-----------------------------------------------------------------------------
(* The code that runs is that of the current task (rtos_kernel.c:299,      *)
(* "Save current context and jump to next task").                          *)
ResumesOwnCode == stack[Len(stack)] = current_task

=============================================================================
