----------------------------- MODULE Semaphore -----------------------------
(***************************************************************************)
(* The counting semaphores of kernel/rtos_semaphore.c, used by tasks of    *)
(* module Kernel.  A semaphore is a slot of the array g_kernel.semaphores. *)
(***************************************************************************)
EXTENDS Waiting

CONSTANTS Semaphores, MaxCounts

ASSUME SemaphoreAssumption == Semaphores \subseteq WaitLists /\ MaxCounts \subseteq Nat

VARIABLES
  sem_id,     \* sem_id[s]: is the slot in use?
  count, max_count

semVars == <<sem_id, count, max_count>>
allVars == <<vars, waitVars, semVars>>

SemTypeOK ==
  /\ waiting \in [WaitLists -> Seq(TCB)]
  /\ sem_id \in [Semaphores -> BOOLEAN]
  /\ count \in [Semaphores -> Nat]
  /\ max_count \in [Semaphores -> Nat]
  /\ \A s \in Semaphores : count[s] <= max_count[s]

SemInit ==
  /\ Init
  /\ WaitingInit
  /\ sem_id = [s \in Semaphores |-> FALSE]
  /\ count = [s \in Semaphores |-> 0]
  /\ max_count = [s \in Semaphores |-> 0]

semaphore_create(s, initial_count, max) ==
  /\ pc = "boot" \/ Calling("sem_create")
  /\ ~sem_id[s]
  /\ initial_count <= max
  /\ sem_id' = [sem_id EXCEPT ![s] = TRUE]
  /\ count' = [count EXCEPT ![s] = initial_count]
  /\ max_count' = [max_count EXCEPT ![s] = max]
  /\ waiting' = [waiting EXCEPT ![s] = <<>>]
  /\ UNCHANGED <<vars, resume, abandoned>>

(* The nodes are freed; the tasks in them stay as they are.                *)
semaphore_delete(s) ==
  /\ Calling("sem_delete")
  /\ sem_id[s]
  /\ sem_id' = [sem_id EXCEPT ![s] = FALSE]
  /\ count' = [count EXCEPT ![s] = 0]
  /\ max_count' = [max_count EXCEPT ![s] = 0]
  /\ waiting' = [waiting EXCEPT ![s] = <<>>]
  /\ UNCHANGED <<vars, resume, abandoned>>

semaphore_take(s) ==
  /\ Calling("sem")
  /\ sem_id[s]
  /\ \/ /\ count[s] > 0
        /\ count' = [count EXCEPT ![s] = @ - 1]
        /\ UNCHANGED <<vars, waitVars>>
     \/ /\ count[s] = 0
        /\ \E ms \in Timeouts : Block(lists, s, ms, <<"take", s>>)
        /\ UNCHANGED count
  /\ UNCHANGED <<sem_id, max_count>>

(* Mutant: the count is not tested again. *)
TakeResumesUnchecked(s) ==
  /\ Resuming(<<"take", s>>)
  /\ count' = [count EXCEPT ![s] = @ - 1]
  /\ Return
  /\ UNCHANGED <<vars, waiting, sem_id, max_count>>

(* After kernel_schedule the count is tested again, through the pointer to *)
(* the slot.                                                               *)
TakeResumes(s) ==
  /\ Resuming(<<"take", s>>)
  /\ count' = [count EXCEPT ![s] = IF @ > 0 THEN @ - 1 ELSE @]
  /\ Return
  /\ UNCHANGED <<vars, waiting, sem_id, max_count>>

(* Mutant: a waiter is woken only when the count was 0. *)
GiveWakesOnlyFromZero(s) ==
  /\ Calling("sem")
  /\ sem_id[s]
  /\ count[s] < max_count[s]
  /\ count' = [count EXCEPT ![s] = @ + 1]
  /\ IF count[s] = 0 THEN WakeFirst(lists, s) ELSE UNCHANGED <<vars, waiting>>
  /\ UNCHANGED <<resume, abandoned, sem_id, max_count>>

semaphore_give(s) ==
  /\ Calling("sem")
  /\ sem_id[s]
  /\ count[s] < max_count[s]
  /\ count' = [count EXCEPT ![s] = @ + 1]
  /\ WakeFirst(lists, s)
  /\ UNCHANGED <<resume, abandoned, sem_id, max_count>>

SemNext ==
  \/ KernelStep /\ UNCHANGED semVars
  \/ \E s \in Semaphores :
       \/ \E max \in MaxCounts : \E n \in 0 .. max : semaphore_create(s, n, max)
       \/ semaphore_delete(s)
       \/ semaphore_take(s) \/ TakeResumes(s) \/ semaphore_give(s)

SemSpec == SemInit /\ [][SemNext]_allVars

-----------------------------------------------------------------------------
(* Properties                                                              *)

(* While a semaphore has a count and tasks wait for it, a task woken by an *)
(* earlier give is still to take it: no waiter is left behind although     *)
(* other tasks can take the count between the wake-up and the second test. *)
(* (Unless a call was abandoned: a task started anew keeps what it was     *)
(* woken for.)                                                             *)
NoLostGive ==
  ~abandoned =>
    \A s \in Semaphores :
      count[s] > 0 /\ waiting[s] # <<>> => OneIsWoken({<<"take", s>>})

=============================================================================
