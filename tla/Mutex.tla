------------------------------- MODULE Mutex -------------------------------
(***************************************************************************)
(* The recursive mutexes with priority inheritance of kernel/rtos_mutex.c, *)
(* used by tasks of module Kernel.  A mutex is a slot of the array         *)
(* g_kernel.mutexes.                                                       *)
(***************************************************************************)
EXTENDS Waiting

CONSTANTS
  Mutexes,
  RecursionLimit   \* bound: tasks do not lock a mutex more often than this

ASSUME MutexAssumption == Mutexes \subseteq WaitLists /\ RecursionLimit \in Nat \ {0}

VARIABLES
  mutex_id,        \* mutex_id[m]: is the slot in use?
  is_locked, owner, lock_count, original_priority,
  holds            \* history: holds[m][t], the locks t has been granted on m
                   \* less the ones it has released

mutexVars == <<mutex_id, is_locked, owner, lock_count, original_priority, holds>>
allVars == <<vars, waitVars, mutexVars>>

MutexTypeOK ==
  /\ waiting \in [WaitLists -> Seq(TCB)]
  /\ mutex_id \in [Mutexes -> BOOLEAN]
  /\ is_locked \in [Mutexes -> BOOLEAN]
  /\ owner \in [Mutexes -> TCB \cup {NULL}]
  /\ lock_count \in [Mutexes -> Nat]
  /\ original_priority \in [Mutexes -> Priorities]
  /\ holds \in [Mutexes -> [TCB -> Nat]]

MutexInit ==
  /\ Init
  /\ WaitingInit
  /\ mutex_id = [m \in Mutexes |-> FALSE]
  /\ is_locked = [m \in Mutexes |-> FALSE]
  /\ owner = [m \in Mutexes |-> NULL]
  /\ lock_count = [m \in Mutexes |-> 0]
  /\ original_priority = [m \in Mutexes |-> 0]
  /\ holds = [m \in Mutexes |-> [t \in TCB |-> 0]]

(* The fields of slot m after memset, and after mutex_create.              *)
Clear(m) ==
  /\ is_locked' = [is_locked EXCEPT ![m] = FALSE]
  /\ owner' = [owner EXCEPT ![m] = NULL]
  /\ lock_count' = [lock_count EXCEPT ![m] = 0]
  /\ original_priority' = [original_priority EXCEPT ![m] = 0]
  /\ holds' = [holds EXCEPT ![m] = [t \in TCB |-> 0]]
  /\ waiting' = [waiting EXCEPT ![m] = <<>>]
  /\ UNCHANGED <<vars, resume, abandoned>>

mutex_create(m) ==
  /\ pc = "boot" \/ Calling("mutex_create")
  /\ ~mutex_id[m]
  /\ mutex_id' = [mutex_id EXCEPT ![m] = TRUE]
  /\ Clear(m)

(* The nodes are freed; the tasks in them, and the owner, stay as they are. *)
mutex_delete(m) ==
  /\ Calling("mutex_delete")
  /\ mutex_id[m]
  /\ mutex_id' = [mutex_id EXCEPT ![m] = FALSE]
  /\ Clear(m)

Grant(m) == holds' = [holds EXCEPT ![m][current_task] = @ + 1]

LockAgain(m) ==
  /\ is_locked[m] /\ owner[m] = current_task
  /\ lock_count[m] < RecursionLimit
  /\ lock_count' = [lock_count EXCEPT ![m] = @ + 1]
  /\ Grant(m)
  /\ UNCHANGED <<vars, waitVars, is_locked, owner, original_priority>>

LockFree(m) ==
  /\ ~is_locked[m]
  /\ is_locked' = [is_locked EXCEPT ![m] = TRUE]
  /\ owner' = [owner EXCEPT ![m] = current_task]
  /\ lock_count' = [lock_count EXCEPT ![m] = 1]
  /\ original_priority' = [original_priority EXCEPT ![m] = lists.priority[current_task]]
  /\ Grant(m)
  /\ UNCHANGED <<vars, waitVars>>

(* Priority inheritance writes the owner's priority, and does not move the *)
(* owner from the ready queue it may be in.                                *)
LockWaits(m) ==
  /\ is_locked[m] /\ owner[m] # current_task
  /\ LET o == owner[m]
         p == lists.priority[current_task]
     IN \E ms \in Timeouts :
          Block([lists EXCEPT !.priority[o] = IF p > @ THEN p ELSE @],
                m, ms, <<"lock", m>>)
  /\ UNCHANGED <<is_locked, owner, lock_count, original_priority, holds>>

mutex_lock(m) ==
  /\ Calling("mutex")
  /\ mutex_id[m]
  /\ LockAgain(m) \/ LockFree(m) \/ LockWaits(m)
  /\ UNCHANGED mutex_id

(* After kernel_schedule: has mutex_unlock made the task the owner?        *)
LockResumes(m) ==
  /\ Resuming(<<"lock", m>>)
  /\ Return
  /\ IF owner[m] = current_task THEN Grant(m) ELSE UNCHANGED holds
  /\ UNCHANGED <<vars, waiting, mutex_id, is_locked, owner, lock_count, original_priority>>

(* Mutant: the waiter is woken and the old owner stays. *)
HandOverKeepsOwner(m) ==
  /\ WakeFirst([lists EXCEPT !.priority[current_task] = original_priority[m]], m)
  /\ IF waiting[m] # <<>>
     THEN UNCHANGED <<is_locked, owner, lock_count, original_priority>>
     ELSE /\ is_locked' = [is_locked EXCEPT ![m] = FALSE]
          /\ owner' = [owner EXCEPT ![m] = NULL]
          /\ lock_count' = [lock_count EXCEPT ![m] = 0]
          /\ UNCHANGED original_priority

(* The last unlock restores the priority and hands the mutex to the first  *)
(* waiter, which it wakes.                                                 *)
HandOver(m) ==
  LET k == [lists EXCEPT !.priority[current_task] = original_priority[m]] IN
  /\ WakeFirst(k, m)
  /\ IF waiting[m] # <<>>
     THEN LET w == Head(waiting[m]) IN
            /\ owner' = [owner EXCEPT ![m] = w]
            /\ lock_count' = [lock_count EXCEPT ![m] = 1]
            /\ original_priority' = [original_priority EXCEPT ![m] = k.priority[w]]
            /\ UNCHANGED is_locked
     ELSE /\ is_locked' = [is_locked EXCEPT ![m] = FALSE]
          /\ owner' = [owner EXCEPT ![m] = NULL]
          /\ lock_count' = [lock_count EXCEPT ![m] = 0]
          /\ UNCHANGED original_priority

(* What the task still holds after an unlock. *)
Release(m) ==
  holds' = [holds EXCEPT ![m][current_task] = IF lock_count[m] = 1 \/ @ = 0 THEN 0 ELSE @ - 1]

(* Mutant: one unlock undoes every lock. *)
UnlockIgnoresCount(m) ==
  /\ Calling("mutex")
  /\ mutex_id[m]
  /\ owner[m] = current_task
  /\ Release(m)
  /\ HandOver(m)
  /\ UNCHANGED <<resume, abandoned, mutex_id>>

mutex_unlock(m) ==
  /\ Calling("mutex")
  /\ mutex_id[m]
  /\ owner[m] = current_task
  /\ Release(m)
  /\ IF lock_count[m] > 1
     THEN /\ lock_count' = [lock_count EXCEPT ![m] = @ - 1]
          /\ UNCHANGED <<vars, waiting, is_locked, owner, original_priority>>
     ELSE HandOver(m)
  /\ UNCHANGED <<resume, abandoned, mutex_id>>

MutexKernelStep ==
  /\ KernelStep
  /\ UNCHANGED mutexVars

MutexNext ==
  \/ MutexKernelStep
  \/ \E m \in Mutexes :
       \/ mutex_create(m) \/ mutex_delete(m)
       \/ mutex_lock(m) \/ LockResumes(m) \/ mutex_unlock(m)

MutexSpec == MutexInit /\ [][MutexNext]_allVars

-----------------------------------------------------------------------------
(* Properties                                                              *)

(* A task that has been granted a mutex and has not released it as often   *)
(* is its owner, and the lock count covers its locks: two tasks never hold *)
(* a mutex together, through recursion, time-outs, hand-over and deletion. *)
MutualExclusion ==
  \A m \in Mutexes, t \in TCB :
    holds[m][t] > 0 => is_locked[m] /\ owner[m] = t /\ holds[m][t] <= lock_count[m]

(* A locked mutex is never left with a task that does not know it: the     *)
(* owner holds all of its locks, or has been woken in mutex_lock and has   *)
(* yet to see that it is the owner.                                        *)
OwnerKnows ==
  ~abandoned => \A m \in Mutexes : is_locked[m] =>
    \/ holds[m][owner[m]] = lock_count[m]
    \/ resume[owner[m]] = <<"lock", m>> /\ lists.state[owner[m]] # "BLOCKED"

(* The waiting list of a mutex holds tasks BLOCKED in its mutex_lock, each *)
(* once.                                                                   *)
LockersWait == ~abandoned => \A m \in Mutexes : AllWait(m, {<<"lock", m>>})

=============================================================================
