----------------------------- MODULE MutexProofs -----------------------------
(***************************************************************************)
(* Theorems about Mutex, for any number of tasks, mutexes and calls.       *)
(* Nothing is assumed about the task lists, which priority inheritance can *)
(* corrupt: mutual exclusion holds all the same.  Only the last theorem,   *)
(* that waiters stay BLOCKED, needs them intact.                           *)
(***************************************************************************)
EXTENDS Mutex, KernelProofs

Rests == {<<>>} \cup {<<"lock", m>> : m \in Mutexes}

HoldTypes ==
  /\ resume \in [TCB -> Rests]
  /\ owner = [m \in Mutexes |-> owner[m]]
  /\ is_locked \in [Mutexes -> BOOLEAN]
  /\ lock_count \in [Mutexes -> Nat]
  /\ holds \in [Mutexes -> [TCB -> Nat]]

(* A mutex with an owner is locked.                                        *)
OwnedIsLocked == \A m \in Mutexes : owner[m] # NULL => is_locked[m]

(* A task that is still to return from mutex_lock with the mutex handed to *)
(* it counts for one lock, which it does not hold yet.                     *)
HandedOver ==
  \A m \in Mutexes, t \in TCB :
    resume[t] = <<"lock", m>> /\ owner[m] = t => holds[m][t] = 0 /\ lock_count[m] = 1

MInv == HoldTypes /\ OwnedIsLocked /\ HandedOver /\ MutualExclusion

-----------------------------------------------------------------------------
(* A function after an update at one place.                                *)
LEMMA Updated ==
  ASSUME NEW A, NEW f, f = [x \in A |-> f[x]], NEW a \in A, NEW v,
         NEW g, g = [f EXCEPT ![a] = v]
  PROVE  g = [x \in A |-> g[x]] /\ \A x \in A : g[x] = IF x = a THEN v ELSE f[x]
OBVIOUS

(* The locks of the current task on m become v.                            *)
LEMMA HoldsUpdated ==
  ASSUME HoldTypes, NEW m \in Mutexes, NEW v, current_task \in TCB => v \in Nat,
         holds' = [holds EXCEPT ![m][current_task] = v]
  PROVE  /\ holds' \in [Mutexes -> [TCB -> Nat]]
         /\ \A n \in Mutexes, t \in TCB :
              holds'[n][t] = IF n = m /\ t = current_task THEN v ELSE holds[n][t]
<1> DEFINE h == [holds[m] EXCEPT ![current_task] = v]
<1>1. holds \in [Mutexes -> [TCB -> Nat]] /\ holds[m] \in [TCB -> Nat]
  BY DEF HoldTypes
<1>2. h \in [TCB -> Nat] /\ \A t \in TCB : h[t] = IF t = current_task THEN v ELSE holds[m][t]
  BY <1>1
<1>3. holds' = [holds EXCEPT ![m] = h]
  OBVIOUS
<1> HIDE DEF h
<1> QED BY <1>1, <1>2, <1>3

(* A task is inside at most one mutex_lock.                                *)
LEMMA RestsDiffer ==
  /\ \A m, n : <<"lock", m>> = <<"lock", n>> => m = n
  /\ \A m : <<>> # <<"lock", m>>
OBVIOUS

(* What MInv says of one mutex and one task.                               *)
LEMMA MInvAt ==
  ASSUME MInv, NEW n \in Mutexes, NEW t \in TCB
  PROVE  /\ holds[n][t] \in Nat /\ lock_count[n] \in Nat
         /\ holds[n][t] > 0 => is_locked[n] /\ owner[n] = t /\ holds[n][t] <= lock_count[n]
         /\ owner[n] = t => is_locked[n]
         /\ resume[t] = <<"lock", n>> /\ owner[n] = t => holds[n][t] = 0 /\ lock_count[n] = 1
  BY TaskListsAssumption
     DEF MInv, HoldTypes, MutualExclusion, OwnedIsLocked, HandedOver, TCB

(* HandedOver and MutualExclusion, one mutex and one task at a time.       *)
LEMMA HoldsAtEach ==
  ASSUME \A n \in Mutexes, t \in TCB :
           /\ resume'[t] = <<"lock", n>> /\ owner'[n] = t => holds'[n][t] = 0 /\ lock_count'[n] = 1
           /\ holds'[n][t] > 0 =>
                is_locked'[n] /\ owner'[n] = t /\ holds'[n][t] <= lock_count'[n]
  PROVE  HandedOver' /\ MutualExclusion'
  BY DEF HandedOver, MutualExclusion

(* The initial state satisfies the invariant.                              *)
LEMMA InitMInv == MutexInit => MInv
<1> SUFFICES ASSUME MutexInit PROVE MInv
  OBVIOUS
<1> QED
  BY DEF MInv, MutexInit, WaitingInit, Init, HoldTypes, OwnedIsLocked, HandedOver,
         MutualExclusion, Rests

(* A step of the kernel changes no mutex, and at most ends a call.         *)
LEMMA KernelStepMInv ==
  ASSUME MInv, MutexKernelStep
  PROVE  MInv'
<1>1. KernelStep /\ UNCHANGED <<is_locked, owner, lock_count, holds>>
  BY DEF MutexKernelStep, mutexVars
<1>3. UNCHANGED resume \/ resume' = [resume EXCEPT ![current_task'] = <<>>]
  BY <1>1 DEF KernelStep
<1>4. <<>> \in Rests /\ resume \in [TCB -> Rests]
  BY DEF MInv, HoldTypes, Rests
<1>5. resume' \in [TCB -> Rests]
  BY <1>3, <1>4
<1>6. \A t \in TCB : resume'[t] = resume[t] \/ resume'[t] = <<>>
  BY <1>3, <1>4
<1>7. HandedOver'
  <2> SUFFICES ASSUME NEW m \in Mutexes, NEW t \in TCB, resume'[t] = <<"lock", m>>, owner[m] = t
               PROVE  holds[m][t] = 0 /\ lock_count[m] = 1
    BY <1>1 DEF HandedOver
  <2>1. resume[t] = <<"lock", m>>
    BY <1>6
  <2> QED BY <2>1 DEF MInv, HandedOver
<1> QED
  BY <1>1, <1>5, <1>7 DEF MInv, HoldTypes, OwnedIsLocked, MutualExclusion

(* A lock granted to the current task.                                     *)
LEMMA Granted ==
  ASSUME HoldTypes, NEW m \in Mutexes, Grant(m)
  PROVE  /\ holds' \in [Mutexes -> [TCB -> Nat]]
         /\ \A n \in Mutexes, t \in TCB :
              holds'[n][t] = IF n = m /\ t = current_task THEN holds[n][t] + 1 ELSE holds[n][t]
<1>1. current_task \in TCB => holds[m][current_task] + 1 \in Nat
  BY DEF HoldTypes
<1>2. holds' = [holds EXCEPT ![m][current_task] = holds[m][current_task] + 1]
  BY DEF Grant
<1>3. /\ holds' \in [Mutexes -> [TCB -> Nat]]
      /\ \A n \in Mutexes, t \in TCB : holds'[n][t] =
           IF n = m /\ t = current_task THEN holds[m][current_task] + 1 ELSE holds[n][t]
  BY <1>1, <1>2, HoldsUpdated
<1> QED BY <1>3

(* Slot m is cleared: nobody holds or owns it.                             *)
LEMMA ClearMInv ==
  ASSUME MInv, NEW m \in Mutexes, Clear(m)
  PROVE  MInv'
<1>1. UNCHANGED <<resume, pc, current_task, scheduler_running>>
  BY DEF Clear, vars, schedVars, controlVars
<1>2. owner' = [n \in Mutexes |-> owner'[n]]
      /\ \A n \in Mutexes : owner'[n] = IF n = m THEN NULL ELSE owner[n]
  BY Updated DEF MInv, Clear, HoldTypes
<1>3. /\ holds' \in [Mutexes -> [TCB -> Nat]]
      /\ \A n \in Mutexes, t \in TCB : holds'[n][t] = IF n = m THEN 0 ELSE holds[n][t]
  <2>1. [t \in TCB |-> 0] \in [TCB -> Nat] /\ \A t \in TCB : [u \in TCB |-> 0][t] = 0
    OBVIOUS
  <2> DEFINE none == [t \in TCB |-> 0]
  <2>2. none \in [TCB -> Nat] /\ \A t \in TCB : none[t] = 0
    BY <2>1
  <2>3. holds' = [holds EXCEPT ![m] = none]
    BY DEF Clear
  <2> HIDE DEF none
  <2> QED BY <2>2, <2>3 DEF MInv, HoldTypes
<1>4. /\ is_locked' \in [Mutexes -> BOOLEAN] /\ lock_count' \in [Mutexes -> Nat]
      /\ \A n \in Mutexes : n # m => is_locked'[n] = is_locked[n] /\ lock_count'[n] = lock_count[n]
  BY DEF MInv, Clear, HoldTypes
<1>5. NULL \notin TCB
  BY TaskListsAssumption DEF TCB
<1>6. HoldTypes'
  BY <1>1, <1>2, <1>3, <1>4 DEF MInv, HoldTypes
<1>7. OwnedIsLocked'
  BY <1>1, <1>2, <1>4 DEF MInv, OwnedIsLocked
<1>8. HandedOver'
  BY <1>1, <1>2, <1>3, <1>4, <1>5 DEF MInv, HandedOver
<1>9. MutualExclusion'
  BY <1>2, <1>3, <1>4 DEF MInv, MutualExclusion
<1> QED BY <1>6, <1>7, <1>8, <1>9 DEF MInv

(* The owner locks again.                                                  *)
LEMMA LockAgainMInv ==
  ASSUME MInv, NEW m \in Mutexes, Calling("mutex"), LockAgain(m)
  PROVE  MInv'
<1>1. UNCHANGED <<resume, pc, current_task, scheduler_running, is_locked, owner>>
      /\ resume[current_task] = <<>> /\ owner[m] = current_task
  BY DEF LockAgain, Calling, vars, schedVars, controlVars, waitVars
<1>2. /\ lock_count' \in [Mutexes -> Nat]
      /\ \A n \in Mutexes : lock_count'[n] = IF n = m THEN lock_count[n] + 1 ELSE lock_count[n]
  BY DEF MInv, LockAgain, HoldTypes
<1>3. /\ holds' \in [Mutexes -> [TCB -> Nat]]
      /\ \A n \in Mutexes, t \in TCB :
           holds'[n][t] = IF n = m /\ t = current_task THEN holds[n][t] + 1 ELSE holds[n][t]
  BY Granted DEF MInv, LockAgain
<1>4. HoldTypes' /\ OwnedIsLocked'
  BY <1>1, <1>2, <1>3 DEF MInv, HoldTypes, OwnedIsLocked
<1>5. HandedOver' /\ MutualExclusion'
  <2>1. \A n \in Mutexes : resume[current_task] # <<"lock", n>>
    BY <1>1, RestsDiffer
  <2>2. ASSUME NEW n \in Mutexes, NEW t \in TCB
        PROVE  /\ resume'[t] = <<"lock", n>> /\ owner'[n] = t =>
                    holds'[n][t] = 0 /\ lock_count'[n] = 1
               /\ holds'[n][t] > 0 =>
                    is_locked'[n] /\ owner'[n] = t /\ holds'[n][t] <= lock_count'[n]
    <3>1. /\ holds[n][t] \in Nat /\ lock_count[n] \in Nat
          /\ holds[n][t] > 0 => is_locked[n] /\ owner[n] = t /\ holds[n][t] <= lock_count[n]
          /\ owner[n] = t => is_locked[n]
          /\ resume[t] = <<"lock", n>> /\ owner[n] = t => holds[n][t] = 0 /\ lock_count[n] = 1
      BY MInvAt
    <3>2. CASE t = current_task /\ n = m
      BY <3>1, <3>2, <1>1, <1>2, <1>3, <2>1
    <3>3. CASE t = current_task /\ n # m
      BY <3>1, <3>3, <1>1, <1>2, <1>3, <2>1
    <3>4. CASE t # current_task
      BY <3>1, <3>4, <1>1, <1>2, <1>3, <2>1
    <3> QED BY <3>2, <3>3, <3>4
  <2> QED BY <2>2, HoldsAtEach
<1> QED BY <1>4, <1>5 DEF MInv

(* A free mutex is locked: nobody held it.                                 *)
LEMMA LockFreeMInv ==
  ASSUME MInv, NEW m \in Mutexes, Calling("mutex"), LockFree(m)
  PROVE  MInv'
<1>1. UNCHANGED <<resume, pc, current_task, scheduler_running>>
      /\ resume[current_task] = <<>>
  BY DEF LockFree, Calling, vars, schedVars, controlVars, waitVars
<1>2. owner' = [n \in Mutexes |-> owner'[n]]
      /\ \A n \in Mutexes : owner'[n] = IF n = m THEN current_task ELSE owner[n]
  BY Updated DEF MInv, LockFree, HoldTypes
<1>3. /\ is_locked' \in [Mutexes -> BOOLEAN] /\ lock_count' \in [Mutexes -> Nat]
      /\ \A n \in Mutexes :
           /\ n = m => is_locked'[n] /\ lock_count'[n] = 1
           /\ n # m => is_locked'[n] = is_locked[n] /\ lock_count'[n] = lock_count[n]
  BY DEF MInv, LockFree, HoldTypes
<1>4. /\ holds' \in [Mutexes -> [TCB -> Nat]]
      /\ \A n \in Mutexes, t \in TCB :
           holds'[n][t] = IF n = m /\ t = current_task THEN holds[n][t] + 1 ELSE holds[n][t]
  BY Granted DEF MInv, LockFree
<1>5. \A t \in TCB : holds[m][t] = 0
  BY DEF MInv, LockFree, HoldTypes, MutualExclusion
<1>6. HoldTypes' /\ OwnedIsLocked'
  BY <1>1, <1>2, <1>3, <1>4 DEF MInv, HoldTypes, OwnedIsLocked
<1>7. HandedOver' /\ MutualExclusion'
  <2>1. \A n \in Mutexes : resume[current_task] # <<"lock", n>>
    BY <1>1, RestsDiffer
  <2>2. ASSUME NEW n \in Mutexes, NEW t \in TCB
        PROVE  /\ resume'[t] = <<"lock", n>> /\ owner'[n] = t =>
                    holds'[n][t] = 0 /\ lock_count'[n] = 1
               /\ holds'[n][t] > 0 =>
                    is_locked'[n] /\ owner'[n] = t /\ holds'[n][t] <= lock_count'[n]
    <3>1. /\ holds[n][t] \in Nat /\ lock_count[n] \in Nat
          /\ holds[n][t] > 0 => is_locked[n] /\ owner[n] = t /\ holds[n][t] <= lock_count[n]
          /\ owner[n] = t => is_locked[n]
          /\ resume[t] = <<"lock", n>> /\ owner[n] = t => holds[n][t] = 0 /\ lock_count[n] = 1
      BY MInvAt
    <3>2. CASE t = current_task /\ n = m
      BY <3>1, <3>2, <1>1, <1>2, <1>3, <1>4, <1>5, <2>1
    <3>3. CASE t = current_task /\ n # m
      BY <3>1, <3>3, <1>1, <1>2, <1>3, <1>4, <1>5, <2>1
    <3>4. CASE t # current_task
      BY <3>1, <3>4, <1>1, <1>2, <1>3, <1>4, <1>5, <2>1
    <3> QED BY <3>2, <3>3, <3>4
  <2> QED BY <2>2, HoldsAtEach
<1> QED BY <1>6, <1>7 DEF MInv

(* The caller begins to wait: it does not own the mutex.                   *)
LEMMA LockWaitsMInv ==
  ASSUME MInv, NEW m \in Mutexes, Calling("mutex"), LockWaits(m)
  PROVE  MInv'
<1>1. /\ UNCHANGED <<current_task, scheduler_running, is_locked, owner, lock_count, holds>>
      /\ resume' = [resume EXCEPT ![current_task] = <<"lock", m>>]
      /\ pc = "app" /\ pc' # "boot" /\ owner[m] # current_task
  BY DEF LockWaits, Block, CallSchedule, schedVars, Calling, MayCall
<1>2. <<"lock", m>> \in Rests
  BY DEF Rests
<1>3. HoldTypes'
  BY <1>1, <1>2 DEF MInv, HoldTypes
<1>4. OwnedIsLocked'
  BY <1>1 DEF MInv, OwnedIsLocked
<1>5. \A t \in TCB : resume'[t] = IF t = current_task THEN <<"lock", m>> ELSE resume[t]
  BY <1>1 DEF MInv, HoldTypes
<1>6. HandedOver'
  BY <1>1, <1>5, RestsDiffer DEF MInv, HandedOver
<1>7. MutualExclusion'
  BY <1>1 DEF MInv, MutualExclusion
<1> QED BY <1>3, <1>4, <1>6, <1>7 DEF MInv

(* The call ends, with the mutex if it has been handed to the caller.      *)
LEMMA LockResumesMInv ==
  ASSUME MInv, NEW m \in Mutexes, LockResumes(m)
  PROVE  MInv'
<1>1. /\ UNCHANGED <<pc, current_task, scheduler_running, is_locked, owner, lock_count>>
      /\ resume' = [resume EXCEPT ![current_task] = <<>>]
      /\ resume[current_task] = <<"lock", m>>
      /\ IF owner[m] = current_task THEN Grant(m) ELSE UNCHANGED holds
  BY DEF LockResumes, Return, Resuming, vars, schedVars, controlVars
<1>2. <<>> \in Rests
  BY DEF Rests
<1>3. /\ resume' \in [TCB -> Rests]
      /\ \A t \in TCB : resume'[t] = IF t = current_task THEN <<>> ELSE resume[t]
  BY <1>1, <1>2 DEF MInv, HoldTypes
<1>4. /\ holds' \in [Mutexes -> [TCB -> Nat]]
      /\ \A n \in Mutexes, t \in TCB :
           holds'[n][t] = IF n = m /\ t = current_task /\ owner[m] = current_task
                          THEN holds[n][t] + 1 ELSE holds[n][t]
  <2>1. CASE owner[m] = current_task
    BY <1>1, <2>1, Granted DEF MInv
  <2>2. CASE owner[m] # current_task
    BY <1>1, <2>2 DEF MInv, HoldTypes
  <2> QED BY <2>1, <2>2
<1>5. HoldTypes' /\ OwnedIsLocked'
  BY <1>1, <1>3, <1>4 DEF MInv, HoldTypes, OwnedIsLocked
<1>6. HandedOver' /\ MutualExclusion'
  <2>1. \A n \in Mutexes : resume'[current_task] = <<>> => resume'[current_task] # <<"lock", n>>
    BY RestsDiffer
  <2>2. ASSUME NEW n \in Mutexes, NEW t \in TCB
        PROVE  /\ resume'[t] = <<"lock", n>> /\ owner'[n] = t =>
                    holds'[n][t] = 0 /\ lock_count'[n] = 1
               /\ holds'[n][t] > 0 =>
                    is_locked'[n] /\ owner'[n] = t /\ holds'[n][t] <= lock_count'[n]
    <3>1. /\ holds[n][t] \in Nat /\ lock_count[n] \in Nat
          /\ holds[n][t] > 0 => is_locked[n] /\ owner[n] = t /\ holds[n][t] <= lock_count[n]
          /\ owner[n] = t => is_locked[n]
          /\ resume[t] = <<"lock", n>> /\ owner[n] = t => holds[n][t] = 0 /\ lock_count[n] = 1
      BY MInvAt
    <3>2. CASE t = current_task /\ n = m
      BY <3>1, <3>2, <1>1, <1>3, <1>4, <2>1
    <3>3. CASE t = current_task /\ n # m
      BY <3>1, <3>3, <1>1, <1>3, <1>4, <2>1
    <3>4. CASE t # current_task
      BY <3>1, <3>4, <1>1, <1>3, <1>4, <2>1
    <3> QED BY <3>2, <3>3, <3>4
  <2> QED BY <2>2, HoldsAtEach
<1> QED BY <1>5, <1>6 DEF MInv

(* The owner unlocks; the last unlock leaves no holder, and the new owner, *)
(* if there is one, has one lock it does not hold yet.                     *)
LEMMA UnlockMInv ==
  ASSUME MInv, Sane, NEW m \in Mutexes, mutex_unlock(m)
  PROVE  MInv'
<1>1. /\ pc = "app" /\ owner[m] = current_task /\ resume[current_task] = <<>>
      /\ UNCHANGED <<resume, current_task, pc, scheduler_running>>
  BY DEF mutex_unlock, Calling, MayCall, HandOver, WakeFirst, vars, schedVars, controlVars
<1> DEFINE left == IF lock_count[m] = 1 \/ holds[m][current_task] = 0
                   THEN 0 ELSE holds[m][current_task] - 1
<1>2. /\ holds' \in [Mutexes -> [TCB -> Nat]]
      /\ \A n \in Mutexes, t \in TCB :
           holds'[n][t] = IF n = m /\ t = current_task THEN left ELSE holds[n][t]
  <2>1. holds' = [holds EXCEPT ![m][current_task] = left]
    BY DEF mutex_unlock, Release
  <2>2. holds \in [Mutexes -> [TCB -> Nat]] /\ (current_task \in TCB => left \in Nat)
    BY DEF MInv, HoldTypes
  <2> HIDE DEF left
  <2> QED BY <2>1, <2>2, HoldsUpdated DEF MInv
<1>3. is_locked[m] /\ current_task # NULL
  BY <1>1, TCBFinite DEF MInv, Sane, OwnedIsLocked
<1>4. \A t \in TCB : t # current_task => holds[m][t] = 0
  BY <1>1 DEF MInv, MutualExclusion, HoldTypes
<1>6. CASE lock_count[m] > 1
  <2>1. UNCHANGED <<is_locked, owner>> /\ lock_count' = [lock_count EXCEPT ![m] = @ - 1]
    BY <1>6 DEF mutex_unlock
  <2>2. /\ lock_count' \in [Mutexes -> Nat]
        /\ \A n \in Mutexes : lock_count'[n] = IF n = m THEN lock_count[n] - 1 ELSE lock_count[n]
    BY <1>6, <2>1 DEF MInv, HoldTypes
  <2>3. HoldTypes' /\ OwnedIsLocked'
    BY <1>1, <1>2, <2>1, <2>2 DEF MInv, HoldTypes, OwnedIsLocked
  <2>4. HandedOver' /\ MutualExclusion'
    <3>1. \A n \in Mutexes : resume[current_task] # <<"lock", n>>
      BY <1>1, RestsDiffer
    <3> QED BY <1>1, <1>2, <1>3, <1>4, <1>6, <2>1, <2>2, <3>1, MInvAt, HoldsAtEach
  <2> QED BY <2>3, <2>4 DEF MInv
<1>7. CASE ~(lock_count[m] > 1)
  <2>1. \A t \in TCB : holds'[m][t] = 0
    BY <1>1, <1>2, <1>4, <1>7 DEF MInv, HoldTypes, MutualExclusion
  <2>2. HandOver(m)
    BY <1>7 DEF mutex_unlock
  <2>3. PICK w : \E c \in Nat, l \in BOOLEAN :
          /\ owner' = [owner EXCEPT ![m] = w]
          /\ lock_count' = [lock_count EXCEPT ![m] = c]
          /\ is_locked' = [is_locked EXCEPT ![m] = l]
          /\ w # NULL => l /\ c = 1
    <3>1. CASE waiting[m] # <<>>
      <4>1. /\ owner' = [owner EXCEPT ![m] = Head(waiting[m])]
            /\ lock_count' = [lock_count EXCEPT ![m] = 1]
            /\ is_locked' = is_locked
        BY <2>2, <3>1 DEF HandOver
      <4>2. is_locked = [is_locked EXCEPT ![m] = TRUE]
        BY <1>3 DEF MInv, HoldTypes
      <4> QED BY <4>1, <4>2
    <3>2. CASE waiting[m] = <<>>
      <4>1. /\ owner' = [owner EXCEPT ![m] = NULL]
            /\ lock_count' = [lock_count EXCEPT ![m] = 0]
            /\ is_locked' = [is_locked EXCEPT ![m] = FALSE]
        BY <2>2, <3>2 DEF HandOver
      <4> QED BY <4>1
    <3> QED BY <3>1, <3>2
  <2>4. owner' = [n \in Mutexes |-> owner'[n]]
        /\ \A n \in Mutexes : owner'[n] = IF n = m THEN w ELSE owner[n]
    BY <2>3, Updated DEF MInv, HoldTypes
  <2>5. /\ is_locked' \in [Mutexes -> BOOLEAN] /\ lock_count' \in [Mutexes -> Nat]
        /\ w # NULL => is_locked'[m] /\ lock_count'[m] = 1
        /\ \A n \in Mutexes : n # m =>
             is_locked'[n] = is_locked[n] /\ lock_count'[n] = lock_count[n]
    BY <2>3 DEF MInv, HoldTypes
  <2>6. HoldTypes' /\ OwnedIsLocked'
    BY <1>1, <1>2, <2>4, <2>5 DEF MInv, HoldTypes, OwnedIsLocked
  <2>7. NULL \notin TCB
    BY TaskListsAssumption DEF TCB
  <2>8. HandedOver' /\ MutualExclusion'
    <3>1. ASSUME NEW n \in Mutexes, NEW t \in TCB
          PROVE  /\ resume'[t] = <<"lock", n>> /\ owner'[n] = t =>
                      holds'[n][t] = 0 /\ lock_count'[n] = 1
                 /\ holds'[n][t] > 0 =>
                      is_locked'[n] /\ owner'[n] = t /\ holds'[n][t] <= lock_count'[n]
      <4>1. /\ holds[n][t] \in Nat /\ lock_count[n] \in Nat
            /\ holds[n][t] > 0 => is_locked[n] /\ owner[n] = t /\ holds[n][t] <= lock_count[n]
            /\ owner[n] = t => is_locked[n]
            /\ resume[t] = <<"lock", n>> /\ owner[n] = t => holds[n][t] = 0 /\ lock_count[n] = 1
        BY MInvAt
      <4>2. CASE n = m
        BY <4>1, <4>2, <1>1, <1>2, <2>1, <2>4, <2>5, <2>7
      <4>3. CASE n # m
        BY <4>1, <4>3, <1>1, <1>2, <2>1, <2>4, <2>5, <2>7
      <4> QED BY <4>2, <4>3
    <3> QED BY <3>1, HoldsAtEach
  <2> QED BY <2>6, <2>8 DEF MInv
<1> QED BY <1>6, <1>7

(* Every step keeps the invariant.                                         *)
LEMMA NextMInv == MInv /\ Sane /\ [MutexNext]_allVars => MInv'
<1> SUFFICES ASSUME MInv, Sane, [MutexNext]_allVars  PROVE MInv'
  OBVIOUS
<1>1. CASE MutexKernelStep
  BY <1>1, KernelStepMInv
<1>2. ASSUME NEW m \in Mutexes, mutex_create(m) \/ mutex_delete(m)  PROVE MInv'
  BY <1>2, ClearMInv DEF mutex_create, mutex_delete
<1>3. ASSUME NEW m \in Mutexes, mutex_lock(m)  PROVE MInv'
  BY <1>3, LockAgainMInv, LockFreeMInv, LockWaitsMInv DEF mutex_lock
<1>4. ASSUME NEW m \in Mutexes, LockResumes(m)  PROVE MInv'
  BY <1>4, LockResumesMInv
<1>5. ASSUME NEW m \in Mutexes, mutex_unlock(m)  PROVE MInv'
  BY <1>5, UnlockMInv
<1>6. CASE UNCHANGED allVars
  BY <1>6 DEF allVars, vars, waitVars, mutexVars, schedVars, controlVars, MInv, HoldTypes,
     OwnedIsLocked, HandedOver, MutualExclusion
<1> QED BY <1>1, <1>2, <1>3, <1>4, <1>5, <1>6 DEF MutexNext

-----------------------------------------------------------------------------
(* Who waits for a mutex, and who owns it *)

MutexRests == [l \in WaitLists |-> {<<"lock", l>>}]

OwnTypes ==
  /\ mutex_id \in [Mutexes -> BOOLEAN]
  /\ owner \in [Mutexes -> TCB \cup {NULL}]
  /\ original_priority \in [Mutexes -> Priorities]

LockedIsOwned == \A m \in Mutexes : is_locked[m] => owner[m] \in TCB

Knows(m) ==
  \/ holds[m][owner[m]] = lock_count[m]
  \/ resume[owner[m]] = <<"lock", m>> /\ lists.state[owner[m]] # "BLOCKED"

Owned ==
  /\ Sane /\ WaitTypes /\ OwnTypes /\ LockedIsOwned
  /\ ~abandoned => WaitersOK(MutexRests) /\ \A m \in Mutexes : is_locked[m] => Knows(m)

MutexIInv == MInv /\ Owned

(* What a task that waits on m has left to do.                             *)
LEMMA LockRest ==
  ASSUME NEW m \in Mutexes
  PROVE  m \in WaitLists /\ MutexRests[m] = {<<"lock", m>>} /\ <<"lock", m>> # <<>>
  BY MutexAssumption DEF MutexRests

(* A step that leaves a mutex alone, takes no rest of a call from its      *)
(* owner and does not block it, unless the owner is not in a call.         *)
LEMMA KnowsStill ==
  ASSUME NEW m \in Mutexes, owner[m] \in TCB, Knows(m),
         holds'[m][owner[m]] = holds[m][owner[m]],
         owner'[m] = owner[m], lock_count'[m] = lock_count[m],
         resume[owner[m]] = <<"lock", m>> => resume'[owner[m]] = <<"lock", m>> /\ ~Blocks(owner[m])
  PROVE  Knows(m)'
  BY DEF Knows, Blocks

(* The initial state.                                                      *)
LEMMA InitOwned == MutexInit => Owned
<1> SUFFICES ASSUME MutexInit PROVE Owned
  OBVIOUS
<1>1. /\ waiting = [l \in WaitLists |-> <<>>] /\ resume = [t \in TCB |-> <<>>] /\ pc = "boot"
      /\ \A m \in Mutexes : ~is_locked[m]
  BY DEF MutexInit, WaitingInit, Init
<1>2. WaitTypes /\ WaitersOK(MutexRests)
  BY <1>1 DEF WaitTypes, WaitersOK, RunsWaiting
<1>3. OwnTypes
  <2>1. 0 \in Priorities
    BY TaskListsAssumption DEF Priorities
  <2> QED BY <2>1 DEF OwnTypes, MutexInit
<1> QED BY <1>1, <1>2, <1>3, InitSane DEF Owned, LockedIsOwned, MutexInit

(* The kernel blocks no task that is in mutex_lock.                        *)
LEMMA KernelStepOwned ==
  ASSUME MutexIInv, MutexKernelStep
  PROVE  Owned'
<1>1. /\ KernelStep /\ UNCHANGED <<mutex_id, is_locked, owner, lock_count, original_priority, holds>>
      /\ Sane /\ WaitTypes /\ OwnTypes /\ LockedIsOwned
  BY DEF MutexKernelStep, mutexVars, MutexIInv, Owned
<1>2. /\ Sane' /\ WaitTypes' /\ UNCHANGED waiting
      /\ ~abandoned' =>
           /\ ~abandoned /\ UNCHANGED resume
           /\ \A t \in TCB : resume[t] # <<>> => ~Blocks(t)
  BY <1>1, KernelStepWaits
<1>3. OwnTypes' /\ LockedIsOwned'
  BY <1>1 DEF OwnTypes, LockedIsOwned
<1>4. ASSUME ~abandoned'
      PROVE  WaitersOK(MutexRests)' /\ \A m \in Mutexes : is_locked'[m] => Knows(m)'
  <2>1. WaitersOK(MutexRests) /\ \A m \in Mutexes : is_locked[m] => Knows(m)
    BY <1>2, <1>4 DEF MutexIInv, Owned
  <2>2. WaitersOK(MutexRests)'
    BY <1>1, <1>4, <2>1, KernelStepKeeps
  <2>3. ASSUME NEW m \in Mutexes, is_locked'[m] PROVE Knows(m)'
    <3>1. owner[m] \in TCB /\ Knows(m)
      BY <1>1, <2>1, <2>3 DEF LockedIsOwned
    <3>2. resume[owner[m]] = <<"lock", m>> => UNCHANGED resume /\ ~Blocks(owner[m])
      BY <1>2, <1>4, <3>1, LockRest
    <3> QED BY <1>1, <3>1, <3>2, KnowsStill
  <2> QED BY <2>2, <2>3
<1> QED BY <1>2, <1>3, <1>4 DEF Owned

(* Slot m is cleared.                                                      *)
LEMMA ClearOwned ==
  ASSUME MutexIInv, NEW m \in Mutexes, Clear(m), mutex_id' \in [Mutexes -> BOOLEAN]
  PROVE  Owned'
<1>1. /\ UNCHANGED <<lists, pc, cursor, current_task, scheduler_running, resume, abandoned>>
      /\ Sane /\ WaitTypes /\ OwnTypes /\ LockedIsOwned
  BY DEF Clear, vars, schedVars, controlVars, MutexIInv, Owned
<1>2. /\ waiting' \in [WaitLists -> Seq(TCB)]
      /\ \A l \in WaitLists : waiting'[l] \in {waiting[l], <<>>}
  BY <1>1, EmptySeq, LockRest DEF WaitTypes, Clear
<1>3. Sane' /\ WaitTypes'
  BY <1>1, <1>2 DEF Sane, WaitTypes
<1>4. OwnTypes'
  <2>1. 0 \in Priorities
    BY TaskListsAssumption DEF Priorities
  <2> QED BY <1>1, <2>1 DEF OwnTypes, Clear
<1>5. /\ ~is_locked'[m]
      /\ \A n \in Mutexes \ {m} :
           /\ is_locked'[n] = is_locked[n] /\ owner'[n] = owner[n]
           /\ lock_count'[n] = lock_count[n] /\ holds'[n] = holds[n]
  BY <1>1 DEF Clear, OwnTypes, MutexIInv, MInv, HoldTypes
<1>6. LockedIsOwned'
  BY <1>1, <1>5 DEF LockedIsOwned
<1>7. ASSUME ~abandoned'
      PROVE  WaitersOK(MutexRests)' /\ \A n \in Mutexes : is_locked'[n] => Knows(n)'
  <2>1. WaitersOK(MutexRests) /\ \A n \in Mutexes : is_locked[n] => Knows(n)
    BY <1>1, <1>7 DEF MutexIInv, Owned
  <2>2. WaitersOK(MutexRests)'
    BY <1>1, <1>2, <2>1, WaitersLeft
  <2>3. ASSUME NEW n \in Mutexes, is_locked'[n] PROVE Knows(n)'
    BY <1>1, <1>5, <2>1, <2>3 DEF Knows
  <2> QED BY <2>2, <2>3
<1> QED BY <1>1, <1>3, <1>4, <1>6, <1>7 DEF Owned

(* The caller gets the mutex, or gets it once more.                        *)
LEMMA LockOwned ==
  ASSUME MutexIInv, NEW m \in Mutexes, Calling("mutex"), LockAgain(m) \/ LockFree(m),
         UNCHANGED mutex_id
  PROVE  Owned'
<1>1. /\ UNCHANGED <<lists, pc, cursor, current_task, scheduler_running, waiting, resume, abandoned>>
      /\ MInv /\ Sane /\ WaitTypes /\ OwnTypes /\ LockedIsOwned /\ current_task \in TCB
  BY DEF LockAgain, LockFree, vars, schedVars, controlVars, waitVars, MutexIInv, Owned, Sane,
         Calling, MayCall
<1>2. Sane' /\ WaitTypes' /\ (WaitersOK(MutexRests) => WaitersOK(MutexRests)')
  BY <1>1 DEF Sane, WaitTypes, WaitersOK, RunsWaiting
<1>3. OwnTypes'
  <2>1. lists.priority[current_task] \in Priorities
    BY <1>1 DEF Sane, Plain, PlainType
  <2> QED BY <1>1, <2>1 DEF OwnTypes, LockAgain, LockFree
<1>4. /\ owner'[m] = current_task /\ is_locked'[m]
      /\ \A n \in Mutexes \ {m} :
           /\ is_locked'[n] = is_locked[n] /\ owner'[n] = owner[n]
           /\ lock_count'[n] = lock_count[n]
  BY <1>1 DEF LockAgain, LockFree, OwnTypes, MInv, HoldTypes
<1>5. \A n \in Mutexes, t \in TCB :
        holds'[n][t] = IF n = m /\ t = current_task THEN holds[n][t] + 1 ELSE holds[n][t]
  BY <1>1, Granted DEF MInv, LockAgain, LockFree
<1>6. LockedIsOwned'
  BY <1>1, <1>4 DEF LockedIsOwned
<1>7. ASSUME \A n \in Mutexes : is_locked[n] => Knows(n), NEW n \in Mutexes, is_locked'[n]
      PROVE  Knows(n)'
  <2>1. CASE n # m
    <3>1. owner[n] \in TCB /\ Knows(n)
      BY <1>1, <1>4, <1>7, <2>1 DEF LockedIsOwned
    <3> QED BY <1>1, <1>4, <1>5, <2>1, <3>1, KnowsStill DEF Blocks
  <2>2. CASE n = m /\ LockAgain(m)
    <3>1. resume[current_task] = <<>> /\ owner[m] = current_task /\ Knows(m)
      BY <1>7, <2>2 DEF LockAgain, Calling
    <3>2. holds[m][current_task] = lock_count[m]
      BY <3>1, LockRest DEF Knows
    <3>3. lock_count'[m] = lock_count[m] + 1
      BY <1>1, <2>2 DEF LockAgain, MInv, HoldTypes
    <3>4. holds'[m][current_task] = lock_count[m] + 1
      BY <1>1, <1>5, <3>2
    <3> QED BY <1>4, <2>2, <3>3, <3>4 DEF Knows
  <2>3. CASE n = m /\ LockFree(m)
    <3>1. holds[m][current_task] = 0
      BY <1>1, <2>3, MInvAt DEF LockFree
    <3>2. lock_count'[m] = 1
      BY <1>1, <2>3 DEF LockFree, MInv, HoldTypes
    <3>3. holds'[m][current_task] = 1
      BY <1>1, <1>5, <3>1
    <3> QED BY <1>4, <2>3, <3>2, <3>3 DEF Knows
  <2> QED BY <2>1, <2>2, <2>3
<1> QED BY <1>1, <1>2, <1>3, <1>6, <1>7 DEF Owned, MutexIInv

(* The caller waits, and lends the owner its priority.                     *)
LEMMA LockWaitsOwned ==
  ASSUME MutexIInv, NEW m \in Mutexes, Calling("mutex"), LockWaits(m), UNCHANGED mutex_id
  PROVE  Owned'
<1>1. /\ MInv /\ Sane /\ WaitTypes /\ OwnTypes /\ LockedIsOwned /\ Plain(lists)
      /\ UNCHANGED <<mutex_id, is_locked, owner, lock_count, original_priority, holds>>
      /\ pc = "app" /\ current_task \in TCB /\ resume[current_task] = <<>>
      /\ is_locked[m] /\ m \in WaitLists
  BY LockRest DEF LockWaits, MutexIInv, Owned, Sane, Calling, MayCall
<1> DEFINE o == owner[m]
           p == lists.priority[current_task]
           k == [lists EXCEPT !.priority[o] = IF p > @ THEN p ELSE @]
<1>2. PICK ms \in Timeouts : Block(k, m, ms, <<"lock", m>>)
  BY DEF LockWaits
<1>3. Plain(k) /\ k.state = lists.state
  <2>1. o \in TCB /\ p \in Priorities /\ lists.priority[o] \in Priorities
    BY <1>1 DEF LockedIsOwned, Plain, PlainType
  <2> DEFINE q == IF p > lists.priority[o] THEN p ELSE lists.priority[o]
  <2>2. q \in Priorities
    BY <2>1
  <2>3. k = [lists EXCEPT !.priority[o] = q]
    <3>1. PICK V : lists \in PlainType(V)
      BY <1>1 DEF Plain
    <3> QED BY <3>1 DEF PlainType
  <2> HIDE DEF q, o, k
  <2> QED BY <1>1, <2>2, <2>3, SetPriorityPlain
<1> HIDE DEF k
<1>4. /\ Sane' /\ WaitTypes' /\ UNCHANGED current_task
      /\ \A t \in TCB \ {current_task} : resume'[t] = resume[t]
      /\ \A t \in TCB \ {current_task} : lists'.state[t] = lists.state[t]
      /\ ~abandoned' => ~abandoned
  BY <1>1, <1>2, <1>3, BlockWaits
<1>5. OwnTypes' /\ LockedIsOwned'
  BY <1>1 DEF OwnTypes, LockedIsOwned
<1>6. ASSUME ~abandoned'
      PROVE  WaitersOK(MutexRests)' /\ \A n \in Mutexes : is_locked'[n] => Knows(n)'
  <2>1. WaitersOK(MutexRests) /\ \A n \in Mutexes : is_locked[n] => Knows(n)
    BY <1>4, <1>6 DEF MutexIInv, Owned
  <2>2. <<"lock", m>> \in MutexRests[m]
    BY LockRest
  <2>3. WaitersOK(MutexRests)'
    BY <1>1, <1>2, <1>3, <1>6, <2>1, <2>2, BlockKeeps
  <2>4. ASSUME NEW n \in Mutexes, is_locked'[n] PROVE Knows(n)'
    <3>1. owner[n] \in TCB /\ Knows(n)
      BY <1>1, <2>1, <2>4 DEF LockedIsOwned
    <3>2. resume[owner[n]] = <<"lock", n>> =>
            resume'[owner[n]] = <<"lock", n>> /\ ~Blocks(owner[n])
      BY <1>1, <1>4, <3>1, LockRest DEF Blocks
    <3> QED BY <1>1, <3>1, <3>2, KnowsStill
  <2> QED BY <2>3, <2>4
<1> QED BY <1>4, <1>5, <1>6 DEF Owned

(* The call ends; an owner sees that it is the owner.                      *)
LEMMA LockResumesOwned ==
  ASSUME MutexIInv, NEW m \in Mutexes, LockResumes(m)
  PROVE  Owned'
<1>1. /\ UNCHANGED <<lists, pc, cursor, current_task, scheduler_running, waiting, abandoned>>
      /\ UNCHANGED <<mutex_id, is_locked, owner, lock_count, original_priority>>
      /\ MInv /\ Sane /\ WaitTypes /\ OwnTypes /\ LockedIsOwned /\ current_task \in TCB
      /\ pc = "app" /\ resume[current_task] = <<"lock", m>>
  BY DEF LockResumes, Return, Resuming, vars, schedVars, controlVars, MutexIInv, Owned, Sane
<1>2. /\ resume' = [t \in TCB |-> resume'[t]]
      /\ \A t \in TCB \ {current_task} : resume'[t] = resume[t]
  <2>1. PICK f : f = [t \in TCB |-> f[t]] /\ f = resume
    BY <1>1 DEF WaitTypes
  <2> QED BY <2>1 DEF LockResumes, Return
<1>3. /\ Sane' /\ WaitTypes' /\ OwnTypes' /\ LockedIsOwned'
      /\ WaitersOK(MutexRests) => WaitersOK(MutexRests)'
  <2>1. Sane' /\ WaitTypes' /\ OwnTypes' /\ LockedIsOwned'
    BY <1>1, <1>2 DEF Sane, WaitTypes, OwnTypes, LockedIsOwned
  <2>2. ASSUME WaitersOK(MutexRests) PROVE WaitersOK(MutexRests)'
    BY <1>1, <1>2, <2>2, WaitersLeft DEF WaitTypes
  <2> QED BY <2>1, <2>2
<1>4. \A n \in Mutexes, t \in TCB :
        holds'[n][t] = IF n = m /\ t = current_task /\ owner[m] = current_task
                       THEN holds[n][t] + 1 ELSE holds[n][t]
  <2>1. CASE owner[m] = current_task
    BY <1>1, <2>1, Granted DEF MInv, LockResumes
  <2>2. CASE owner[m] # current_task
    BY <2>2 DEF LockResumes
  <2> QED BY <2>1, <2>2
<1>5. ASSUME \A n \in Mutexes : is_locked[n] => Knows(n), NEW n \in Mutexes, is_locked'[n]
      PROVE  Knows(n)'
  <2>1. owner[n] \in TCB /\ Knows(n)
    BY <1>1, <1>5 DEF LockedIsOwned
  <2>2. CASE n = m /\ owner[m] = current_task
    <3>1. holds[m][current_task] = 0 /\ lock_count[m] = 1
      BY <1>1, <2>2, MInvAt
    <3>2. holds'[m][current_task] = 1
      BY <1>1, <1>4, <2>2, <3>1
    <3> QED BY <1>1, <2>2, <3>1, <3>2 DEF Knows
  <2>3. CASE ~(n = m /\ owner[m] = current_task)
    <3>1. holds'[n][owner[n]] = holds[n][owner[n]]
      BY <1>4, <2>1, <2>3
    <3>2. resume[owner[n]] = <<"lock", n>> => owner[n] # current_task
      BY <1>1, <2>3, RestsDiffer
    <3> QED BY <1>1, <1>2, <2>1, <3>1, <3>2, KnowsStill DEF Blocks
  <2> QED BY <2>2, <2>3
<1> QED BY <1>1, <1>3, <1>5 DEF Owned, MutexIInv

(* The owner unlocks: it keeps the other locks it holds, or the first      *)
(* waiter is woken as the new owner.                                       *)
LEMMA UnlockOwned ==
  ASSUME MutexIInv, NEW m \in Mutexes, mutex_unlock(m)
  PROVE  Owned'
<1>1. /\ MInv /\ Sane /\ WaitTypes /\ OwnTypes /\ LockedIsOwned /\ Plain(lists)
      /\ UNCHANGED <<resume, abandoned, mutex_id>>
      /\ pc = "app" /\ resume[current_task] = <<>> /\ owner[m] = current_task
      /\ current_task \in TCB /\ m \in WaitLists
  BY LockRest DEF mutex_unlock, MutexIInv, Owned, Sane, Calling, MayCall
<1>2. \A n \in Mutexes \ {m} : holds'[n] = holds[n]
  BY <1>1 DEF mutex_unlock, Release, MInv, HoldTypes
<1>3. CASE lock_count[m] > 1
  <2>1. UNCHANGED <<lists, pc, cursor, current_task, scheduler_running, waiting, is_locked, owner,
                    original_priority>>
    BY <1>3 DEF mutex_unlock, vars, schedVars, controlVars
  <2>2. Sane' /\ WaitTypes' /\ OwnTypes' /\ LockedIsOwned'
        /\ (WaitersOK(MutexRests) => WaitersOK(MutexRests)')
    BY <1>1, <2>1 DEF Sane, WaitTypes, OwnTypes, LockedIsOwned, WaitersOK, RunsWaiting
  <2>3. ASSUME \A n \in Mutexes : is_locked[n] => Knows(n), NEW n \in Mutexes, is_locked'[n]
        PROVE  Knows(n)'
    <3>1. owner[n] \in TCB /\ Knows(n)
      BY <1>1, <2>1, <2>3 DEF LockedIsOwned
    <3>2. /\ lock_count'[m] = lock_count[m] - 1
          /\ \A q \in Mutexes \ {m} : lock_count'[q] = lock_count[q]
      BY <1>1, <1>3 DEF mutex_unlock, MInv, HoldTypes
    <3>3. CASE n = m
      <4>1. holds[m][current_task] = lock_count[m]
        BY <1>1, <3>1, <3>3, LockRest DEF Knows
      <4>2. holds[m][current_task] \in Nat /\ lock_count[m] \in Nat
        BY <1>1, MInvAt
      <4>3. holds'[m][current_task] =
              IF lock_count[m] = 1 \/ holds[m][current_task] = 0
              THEN 0 ELSE holds[m][current_task] - 1
        BY <1>1 DEF mutex_unlock, Release, MInv, HoldTypes
      <4> QED BY <1>1, <1>3, <2>1, <3>2, <3>3, <4>1, <4>2, <4>3 DEF Knows
    <3>4. CASE n # m
      BY <1>1, <1>2, <2>1, <3>1, <3>2, <3>4, KnowsStill DEF Blocks
    <3> QED BY <3>3, <3>4
  <2> QED BY <1>1, <2>2, <2>3 DEF Owned, MutexIInv
<1>4. CASE ~(lock_count[m] > 1)
  <2> DEFINE k == [lists EXCEPT !.priority[current_task] = original_priority[m]]
             w == Head(waiting[m])
  <2>1. HandOver(m) /\ WakeFirst(k, m)
    BY <1>4 DEF mutex_unlock, HandOver
  <2>2. Plain(k) /\ k.state = lists.state
    <3>1. original_priority[m] \in Priorities
      BY <1>1 DEF OwnTypes
    <3> QED BY <1>1, <3>1, SetPriorityPlain
  <2>3. w \in TCB => k.priority[w] \in Priorities
    BY <2>2 DEF Plain, PlainType
  <2>4. CASE waiting[m] # <<>>
    <3>1. /\ owner' = [owner EXCEPT ![m] = w] /\ lock_count' = [lock_count EXCEPT ![m] = 1]
          /\ original_priority' = [original_priority EXCEPT ![m] = k.priority[w]]
          /\ UNCHANGED is_locked
      BY <2>1, <2>4 DEF HandOver
    <3> HIDE DEF k, w
    <3>2. /\ Sane' /\ UNCHANGED <<pc, current_task>> /\ waiting' \in [WaitLists -> Seq(TCB)]
          /\ \A t \in TCB : ~Blocks(t)
          /\ \A n \in WaitLists \ {m} : waiting'[n] = waiting[n]
          /\ w \in TCB /\ lists'.state[w] = "READY" /\ waiting'[m] = Tail(waiting[m])
      BY <1>1, <2>1, <2>2, <2>4, WakeFirstWaits DEF w
    <3>3. WaitTypes' /\ OwnTypes' /\ LockedIsOwned'
      BY <1>1, <2>3, <3>1, <3>2 DEF WaitTypes, OwnTypes, LockedIsOwned
    <3>4. ASSUME ~abandoned'
          PROVE  WaitersOK(MutexRests)' /\ \A n \in Mutexes : is_locked'[n] => Knows(n)'
      <4>1. WaitersOK(MutexRests) /\ \A n \in Mutexes : is_locked[n] => Knows(n)
        BY <1>1, <3>4 DEF MutexIInv, Owned
      <4>2. WaitersOK(MutexRests)'
        BY <1>1, <2>4, <3>2, <4>1, WaitersLeft
      <4>3. resume[w] \in MutexRests[m]
        BY <1>1, <2>4, <3>2, <4>1, WokenByWake DEF w
      <4>4. Knows(m)'
        BY <1>1, <3>1, <3>2, <4>3, LockRest DEF Knows, OwnTypes
      <4>5. ASSUME NEW n \in Mutexes, n # m, is_locked'[n] PROVE Knows(n)'
        <5>1. owner[n] \in TCB /\ Knows(n)
          BY <1>1, <3>1, <4>1, <4>5 DEF LockedIsOwned
        <5>2. owner'[n] = owner[n] /\ lock_count'[n] = lock_count[n]
          BY <1>1, <3>1, <4>5 DEF OwnTypes, MInv, HoldTypes
        <5> QED BY <1>1, <1>2, <3>2, <4>5, <5>1, <5>2, KnowsStill
      <4> QED BY <4>2, <4>4, <4>5
    <3> QED BY <3>2, <3>3, <3>4 DEF Owned
  <2>5. CASE waiting[m] = <<>>
    <3>1. /\ owner' = [owner EXCEPT ![m] = NULL] /\ lock_count' = [lock_count EXCEPT ![m] = 0]
          /\ is_locked' = [is_locked EXCEPT ![m] = FALSE]
          /\ UNCHANGED original_priority
      BY <2>1, <2>5 DEF HandOver
    <3> HIDE DEF k, w
    <3>2. /\ Sane' /\ UNCHANGED <<pc, current_task>> /\ waiting' \in [WaitLists -> Seq(TCB)]
          /\ \A t \in TCB : ~Blocks(t)
          /\ \A n \in WaitLists \ {m} : waiting'[n] = waiting[n]
          /\ waiting'[m] = <<>>
      BY <1>1, <2>1, <2>2, <2>5, WakeFirstWaits
    <3>3. /\ ~is_locked'[m]
          /\ \A n \in Mutexes \ {m} :
               /\ is_locked'[n] = is_locked[n] /\ owner'[n] = owner[n]
               /\ lock_count'[n] = lock_count[n]
      BY <1>1, <3>1 DEF OwnTypes, MInv, HoldTypes
    <3>4. WaitTypes' /\ OwnTypes' /\ LockedIsOwned'
      BY <1>1, <3>1, <3>2, <3>3 DEF WaitTypes, OwnTypes, LockedIsOwned
    <3>5. ASSUME ~abandoned'
          PROVE  WaitersOK(MutexRests)' /\ \A n \in Mutexes : is_locked'[n] => Knows(n)'
      <4>1. WaitersOK(MutexRests) /\ \A n \in Mutexes : is_locked[n] => Knows(n)
        BY <1>1, <3>5 DEF MutexIInv, Owned
      <4>2. WaitersOK(MutexRests)'
        BY <1>1, <3>2, <4>1, WaitersLeft
      <4>3. ASSUME NEW n \in Mutexes, is_locked'[n] PROVE Knows(n)'
        <5>1. n # m /\ owner[n] \in TCB /\ Knows(n)
          BY <1>1, <3>3, <4>1, <4>3 DEF LockedIsOwned
        <5> QED BY <1>1, <1>2, <3>2, <3>3, <5>1, KnowsStill
      <4> QED BY <4>2, <4>3
    <3> QED BY <3>2, <3>4, <3>5 DEF Owned
  <2> QED BY <2>4, <2>5
<1> QED BY <1>3, <1>4

(* Every step preserves the whole invariant.                               *)
LEMMA NextMutexIInv == MutexIInv /\ [MutexNext]_allVars => MutexIInv'
<1> SUFFICES ASSUME MutexIInv, [MutexNext]_allVars PROVE Owned'
  BY NextMInv DEF MutexIInv, Owned
<1>1. CASE MutexKernelStep
  BY <1>1, KernelStepOwned
<1>2. ASSUME NEW m \in Mutexes, mutex_create(m) \/ mutex_delete(m)  PROVE Owned'
  <2>1. Clear(m) /\ mutex_id' \in [Mutexes -> BOOLEAN]
    BY <1>2 DEF mutex_create, mutex_delete, MutexIInv, Owned, OwnTypes
  <2> QED BY <2>1, ClearOwned
<1>3. ASSUME NEW m \in Mutexes, mutex_lock(m)  PROVE Owned'
  BY <1>3, LockOwned, LockWaitsOwned DEF mutex_lock
<1>4. ASSUME NEW m \in Mutexes, LockResumes(m)  PROVE Owned'
  BY <1>4, LockResumesOwned
<1>5. ASSUME NEW m \in Mutexes, mutex_unlock(m)  PROVE Owned'
  BY <1>5, UnlockOwned
<1>6. CASE UNCHANGED allVars
  <2>1. UNCHANGED <<lists, pc, cursor, current_task, scheduler_running, waiting, resume, abandoned,
                    mutex_id, is_locked, owner, lock_count, original_priority, holds>>
    BY <1>6 DEF allVars, vars, schedVars, controlVars, waitVars, mutexVars
  <2> QED BY <2>1 DEF MutexIInv, Owned, Sane, WaitTypes, OwnTypes, LockedIsOwned, WaitersOK,
                      RunsWaiting, Knows
<1> QED BY <1>1, <1>2, <1>3, <1>4, <1>5, <1>6 DEF MutexNext

-----------------------------------------------------------------------------
(* The inductive invariant holds in every state.                           *)
THEOREM MutexInvariance == MutexSpec => []MutexIInv
<1>1. MutexInit => MutexIInv
  BY InitMInv, InitOwned DEF MutexIInv
<1> QED BY <1>1, NextMutexIInv, PTL DEF MutexSpec

(* The mutexes have their types (MutexTypeOK in Mutex.tla): an owner is a  *)
(* task and a priority to restore is one of the levels there are.          *)
THEOREM MutexTypeCorrect == MutexSpec => []MutexTypeOK
<1>1. MutexIInv => MutexTypeOK
  BY DEF MutexIInv, MInv, HoldTypes, Owned, WaitTypes, OwnTypes, MutexTypeOK
<1> QED BY <1>1, MutexInvariance, PTL

(* Two tasks never hold a mutex together (MutualExclusion in Mutex.tla),   *)
(* whatever the number of tasks, mutexes, waiting nodes and locks.         *)
THEOREM MutualExclusionHolds == MutexSpec => []MutualExclusion
<1>1. MutexIInv => MutualExclusion
  BY DEF MutexIInv, MInv
<1> QED BY <1>1, MutexInvariance, PTL

(* A locked mutex is never left with a task that does not know it          *)
(* (OwnerKnows in Mutex.tla): the owner holds all of its locks, or has     *)
(* been woken in mutex_lock and has yet to see that it is the owner.       *)
THEOREM OwnersKnow == MutexSpec => []OwnerKnows
<1>1. MutexIInv => OwnerKnows
  BY DEF MutexIInv, Owned, Knows, OwnerKnows
<1> QED BY <1>1, MutexInvariance, PTL

-----------------------------------------------------------------------------
(* Waiters stay blocked *)

(* All tasks have the same priority, so that priority inheritance never    *)
(* moves the priority of a queued owner away from its queue.               *)
OnePriority == \A p, q \in TaskPriorities : p = q

(* Every task a node names is BLOCKED.                                     *)
AllBlocked == \A l \in WaitLists : \A i \in 1 .. Len(waiting[l]) : lists.state[waiting[l][i]] = "BLOCKED"

(* The owner of a locked mutex has the priority it was given, and so has   *)
(* the priority to restore.                                                *)
OwnersRanked ==
  \A m \in Mutexes : is_locked[m] =>
    owner[m] \in Tasks /\ Ranked(owner[m]) /\ original_priority[m] \in TaskPriorities

(* As long as no call has been cut short, the queues are in order and      *)
(* every waiter is BLOCKED.                                                *)
Orderly == ~abandoned => Tidy /\ AllBlocked /\ OwnersRanked

(* Inheriting or restoring a priority changes nothing.                     *)
LEMMA PriorityStays ==
  ASSUME OnePriority, Tidy, NEW t \in TCB, Ranked(t), NEW p \in TaskPriorities
  PROVE  [lists EXCEPT !.priority[t] = p] = lists
<1>1. lists \in ListsType
  BY IntactFacts DEF Tidy
<1>2. lists.priority[t] = p
  BY DEF OnePriority, Ranked
<1> QED BY <1>1, <1>2 DEF ListsType

(* The task that calls the mutex functions.                                *)
LEMMA CallerRanked ==
  ASSUME Tidy, NEW c, Calling(c)
  PROVE  /\ current_task \in Tasks /\ current_task \in TCB /\ current_task # Idle /\ Ranked(current_task)
         /\ task_id[current_task] /\ pc = "app" /\ SchedulerOn /\ ~lists.in_ready_queue[current_task]
  BY DEF Tidy, PoolOK, Calling, MayCall, TCB, SchedulerOn

(* A step that changes nothing of the kernel.                              *)
LEMMA SameTidy ==
  ASSUME Tidy, UNCHANGED vars
  PROVE  Tidy'
  BY DEF Tidy, PoolOK, Ranked, vars, tcbVars, schedVars, controlVars

(* A step of the kernel wakes no waiter and changes no rank.               *)
LEMMA KernelStepOrderly ==
  ASSUME Patient, MutexIInv, Orderly, MutexKernelStep
  PROVE  Orderly'
<1> SUFFICES ASSUME ~abandoned' PROVE Tidy' /\ AllBlocked' /\ OwnersRanked'
  BY DEF Orderly
<1>1. KernelStep /\ UNCHANGED waiting /\ UNCHANGED <<is_locked, owner, original_priority>> /\ ~abandoned
  BY DEF MutexKernelStep, mutexVars, KernelStep
<1>2. Tidy /\ AllBlocked /\ OwnersRanked /\ WaitersOK(MutexRests) /\ WaitTypes
  BY <1>1 DEF Orderly, MutexIInv, Owned
<1>3. Tidy' /\ Stays
  BY <1>1, <1>2, KernelStepTidy
<1>4. AllBlocked'
  <2> SUFFICES ASSUME NEW l \in WaitLists, NEW i \in 1 .. Len(waiting[l])
               PROVE  lists'.state[waiting[l][i]] = "BLOCKED"
    BY <1>1 DEF AllBlocked
  <2>1. waiting[l][i] \in TCB /\ lists.state[waiting[l][i]] = "BLOCKED"
    BY <1>2, ElementOfSeq DEF WaitTypes, AllBlocked
  <2>2. ~(pc = "app" /\ waiting[l][i] = current_task)
    BY <1>2 DEF WaitersOK, RunsWaiting
  <2> QED BY <1>3, <2>1, <2>2 DEF Stays
<1>5. OwnersRanked'
  <2>1. \A t \in Tasks : Ranked(t) => Ranked(t)'
    BY <1>3 DEF Stays, TCB
  <2> QED BY <1>1, <1>2, <2>1 DEF OwnersRanked, Ranked
<1> QED BY <1>3, <1>4, <1>5

(* Slot m is cleared: its nodes are gone.                                  *)
LEMMA ClearOrderly ==
  ASSUME MutexIInv, Orderly, NEW m \in Mutexes, Clear(m)
  PROVE  Orderly'
<1> SUFFICES ASSUME ~abandoned' PROVE Tidy' /\ AllBlocked' /\ OwnersRanked'
  BY DEF Orderly
<1>1. UNCHANGED <<vars, resume, abandoned>> /\ UNCHANGED lists
  BY DEF Clear, vars
<1>2. Tidy /\ AllBlocked /\ OwnersRanked /\ WaitTypes /\ OwnTypes /\ MInv
  BY <1>1 DEF Orderly, MutexIInv, Owned
<1>3. \A l \in WaitLists : waiting'[l] \in {waiting[l], <<>>}
  BY <1>2, LockRest DEF WaitTypes, Clear
<1>4. AllBlocked'
  BY <1>1, <1>2, <1>3, EmptySeq DEF AllBlocked
<1>5. OwnersRanked'
  <2>1. ~is_locked'[m]
    BY <1>2 DEF Clear, MInv, HoldTypes
  <2>2. \A n \in Mutexes \ {m} : is_locked'[n] = is_locked[n] /\ owner'[n] = owner[n]
                                 /\ original_priority'[n] = original_priority[n]
    BY <1>2 DEF Clear, MInv, HoldTypes, OwnTypes
  <2> QED BY <1>1, <1>2, <2>1, <2>2 DEF OwnersRanked, Ranked
<1> QED BY <1>1, <1>2, <1>4, <1>5, SameTidy

(* The caller gets the mutex, or gets it once more.                        *)
LEMMA LockOrderly ==
  ASSUME MutexIInv, Orderly, NEW m \in Mutexes, Calling("mutex"), LockAgain(m) \/ LockFree(m)
  PROVE  Orderly'
<1> SUFFICES ASSUME ~abandoned' PROVE Tidy' /\ AllBlocked' /\ OwnersRanked'
  BY DEF Orderly
<1>1. UNCHANGED <<vars, waiting, abandoned>> /\ UNCHANGED lists
  BY DEF LockAgain, LockFree, vars, waitVars
<1>2. Tidy /\ AllBlocked /\ OwnersRanked /\ MInv /\ OwnTypes
  BY <1>1 DEF Orderly, MutexIInv, Owned
<1>3. OwnersRanked'
  <2>1. CASE LockAgain(m)
    BY <1>1, <1>2, <2>1 DEF OwnersRanked, Ranked, LockAgain
  <2>2. CASE LockFree(m)
    <3>1. current_task \in Tasks /\ Ranked(current_task)
      BY <1>2, CallerRanked
    <3>2. owner'[m] = current_task /\ original_priority'[m] = lists.priority[current_task]
      BY <1>2, <2>2 DEF LockFree, OwnTypes
    <3>3. \A n \in Mutexes \ {m} : is_locked'[n] = is_locked[n] /\ owner'[n] = owner[n]
                                   /\ original_priority'[n] = original_priority[n]
      BY <1>2, <2>2 DEF LockFree, OwnTypes, MInv, HoldTypes
    <3> QED BY <1>1, <1>2, <3>1, <3>2, <3>3 DEF OwnersRanked, Ranked
  <2> QED BY <2>1, <2>2
<1> QED BY <1>1, <1>2, <1>3, SameTidy DEF AllBlocked

(* The caller becomes BLOCKED, then its node is added.                     *)
LEMMA LockWaitsOrderly ==
  ASSUME OnePriority, MutexIInv, Orderly, NEW m \in Mutexes, Calling("mutex"), LockWaits(m)
  PROVE  Orderly'
<1> SUFFICES ASSUME ~abandoned' PROVE Tidy' /\ AllBlocked' /\ OwnersRanked'
  BY DEF Orderly
<1> DEFINE c == current_task
           o == owner[m]
           p == lists.priority[c]
           k == [lists EXCEPT !.priority[o] = IF p > @ THEN p ELSE @]
<1>1. PICK ms \in Timeouts : Block(k, m, ms, <<"lock", m>>)
  BY DEF LockWaits
<1>2. /\ ~abandoned /\ CallSchedule /\ UNCHANGED <<task_id, schedVars, cursor, tick_from, returning>>
      /\ lists' = [k EXCEPT !.state[c] = "BLOCKED"] /\ waiting' = AddWaiting(m, c)
      /\ UNCHANGED <<is_locked, owner, original_priority>> /\ is_locked[m]
  BY <1>1 DEF Block, LockWaits, controlVars
<1>3. Tidy /\ AllBlocked /\ OwnersRanked /\ WaitTypes /\ WaitersOK(MutexRests)
  BY <1>2 DEF Orderly, MutexIInv, Owned
<1>4. /\ c \in Tasks /\ c \in TCB /\ c # Idle /\ Ranked(c) /\ task_id[c] /\ pc = "app" /\ SchedulerOn
      /\ ~lists.in_ready_queue[c]
  BY <1>3, CallerRanked
<1>5. k = lists
  <2>1. o \in TCB /\ Ranked(o)
    BY <1>2, <1>3 DEF OwnersRanked, TCB
  <2> DEFINE q == IF p > lists.priority[o] THEN p ELSE lists.priority[o]
  <2>2. q \in TaskPriorities
    BY <1>4, <2>1 DEF Ranked
  <2>3. lists \in ListsType
    BY <1>3, IntactFacts DEF Tidy
  <2>4. k = [lists EXCEPT !.priority[o] = q]
    BY <2>3 DEF ListsType
  <2> HIDE DEF q, k
  <2> QED BY <1>3, <2>1, <2>2, <2>4, PriorityStays
<1> HIDE DEF k
<1>6. OnlyMoves(lists, lists', c) /\ lists'.state[c] = "BLOCKED"
  <2>1. lists' = [lists EXCEPT !.state[c] = "BLOCKED"] /\ Intact(lists) /\ "BLOCKED" \in TaskState
    BY <1>2, <1>3, <1>5 DEF Tidy, TaskState
  <2> HIDE DEF c
  <2> QED BY <1>4, <2>1, IntactSetState
<1>7. PoolOK' /\ \A u \in TCB : Ranked(u) => Ranked(u)'
  BY <1>2, <1>3, <1>4, <1>6, MovePool DEF Tidy
<1>8. Tidy'
  <2>1. pc' # pc
    BY <1>2, <1>4 DEF CallSchedule
  <2> QED BY <1>2, <1>3, <1>4, <1>6, <1>7, <2>1, CallTidy DEF OnlyMoves
<1>9. AllBlocked'
  <2> SUFFICES ASSUME NEW l \in WaitLists, NEW i \in 1 .. Len(waiting'[l])
               PROVE  lists'.state[waiting'[l][i]] = "BLOCKED"
    BY DEF AllBlocked
  <2>1. waiting[l] \in Seq(TCB) /\ waiting'[l] \in {waiting[l], Append(waiting[l], c)}
    BY <1>2, <1>3 DEF WaitTypes, AddWaiting
  <2>2. \/ waiting'[l][i] = c
        \/ \E j \in 1 .. Len(waiting[l]) : waiting'[l][i] = waiting[l][j]
    <3>1. CASE waiting'[l] = waiting[l]
      BY <3>1
    <3>2. CASE waiting'[l] = Append(waiting[l], c)
      BY <1>4, <2>1, <3>2, NodeAdded, LenProperties
    <3> QED BY <2>1, <3>1, <3>2
  <2>3. \A j \in 1 .. Len(waiting[l]) : waiting[l][j] \in TCB /\ lists.state[waiting[l][j]] = "BLOCKED"
    BY <1>3, <2>1, ElementOfSeq DEF AllBlocked
  <2> QED BY <1>6, <2>2, <2>3 DEF OnlyMoves, SameBut
<1>10. OwnersRanked'
  <2>1. \A t \in Tasks : Ranked(t) => Ranked(t)'
    BY <1>7 DEF TCB
  <2> QED BY <1>2, <1>3, <2>1 DEF OwnersRanked, Ranked
<1> QED BY <1>8, <1>9, <1>10

(* The call ends.                                                          *)
LEMMA LockResumesOrderly ==
  ASSUME Orderly, NEW m \in Mutexes, LockResumes(m)
  PROVE  Orderly'
<1>1. UNCHANGED <<vars, waiting, abandoned, is_locked, owner, original_priority>> /\ UNCHANGED lists
  BY DEF LockResumes, Return, vars
<1> QED BY <1>1, SameTidy DEF Orderly, AllBlocked, OwnersRanked, Ranked

(* The first waiter is unlinked, woken and made the owner.  It waits       *)
(* nowhere else, and in one node, so the waiters that are left are         *)
(* BLOCKED.                                                                *)
LEMMA UnlockOrderly ==
  ASSUME OnePriority, MutexIInv, Orderly, NEW m \in Mutexes, mutex_unlock(m)
  PROVE  Orderly'
<1> SUFFICES ASSUME ~abandoned' PROVE Tidy' /\ AllBlocked' /\ OwnersRanked'
  BY DEF Orderly
<1> DEFINE c == current_task
<1>1. Calling("mutex") /\ owner[m] = c /\ ~abandoned
  BY DEF mutex_unlock
<1>2. /\ Tidy /\ AllBlocked /\ OwnersRanked /\ WaitTypes /\ WaitersOK(MutexRests) /\ OwnTypes
      /\ MInv /\ m \in WaitLists
  BY <1>1, LockRest DEF Orderly, MutexIInv, Owned
<1>3. /\ c \in Tasks /\ c \in TCB /\ c # Idle /\ Ranked(c) /\ task_id[c] /\ pc = "app" /\ SchedulerOn
      /\ ~lists.in_ready_queue[c]
  BY <1>1, <1>2, CallerRanked
<1>4. CASE lock_count[m] > 1
  <2>1. UNCHANGED <<vars, waiting, is_locked, owner, original_priority>> /\ UNCHANGED lists
    BY <1>4 DEF mutex_unlock, vars
  <2> QED BY <1>2, <2>1, SameTidy DEF AllBlocked, OwnersRanked, Ranked
<1>5. CASE ~(lock_count[m] > 1)
  <2>1. HandOver(m)
    BY <1>5 DEF mutex_unlock
  <2>2. is_locked[m] /\ original_priority[m] \in TaskPriorities
    BY <1>1, <1>2, <1>3, TCBFinite DEF MInv, OwnedIsLocked, OwnersRanked
  <2>3. [lists EXCEPT !.priority[c] = original_priority[m]] = lists
    BY <1>2, <1>3, <2>2, PriorityStays
  <2>4. /\ WakeFirst(lists, m)
        /\ IF waiting[m] # <<>>
           THEN LET w == Head(waiting[m]) IN
                  /\ owner' = [owner EXCEPT ![m] = w]
                  /\ original_priority' = [original_priority EXCEPT ![m] = lists.priority[w]]
                  /\ UNCHANGED is_locked
           ELSE /\ is_locked' = [is_locked EXCEPT ![m] = FALSE]
                /\ owner' = [owner EXCEPT ![m] = NULL]
                /\ UNCHANGED original_priority
    BY <2>1, <2>3 DEF HandOver
  <2>5. UNCHANGED <<task_id, schedVars, pc, cursor, tick_from, returning>>
    BY <2>4 DEF WakeFirst, controlVars
  <2>6. CASE waiting[m] = <<>>
    <3>1. lists' = lists /\ waiting' = waiting
      BY <2>4, <2>6 DEF WakeFirst
    <3>2. /\ ~is_locked'[m]
          /\ \A n \in Mutexes \ {m} : is_locked'[n] = is_locked[n] /\ owner'[n] = owner[n]
                                      /\ original_priority'[n] = original_priority[n]
      BY <1>2, <2>4, <2>6 DEF OwnTypes, MInv, HoldTypes
    <3>3. Tidy'
      BY <1>2, <2>5, <3>1 DEF Tidy, PoolOK, Ranked, schedVars
    <3> QED BY <1>2, <3>1, <3>2, <3>3 DEF AllBlocked, OwnersRanked, Ranked
  <2>7. CASE waiting[m] # <<>>
    <3> DEFINE w == Head(waiting[m])
    <3>1. /\ w \in TCB /\ w = waiting[m][1] /\ Len(waiting[m]) \in Nat \ {0}
          /\ Len(Tail(waiting[m])) = Len(waiting[m]) - 1
          /\ \A i \in 1 .. Len(waiting[m]) - 1 : Tail(waiting[m])[i] = waiting[m][i + 1]
      BY <1>2, <2>7, NodeTaken DEF WaitTypes
    <3>2. /\ lists' = WakeBlocked(lists, w) /\ waiting' = [waiting EXCEPT ![m] = Tail(@)]
          /\ owner' = [owner EXCEPT ![m] = w] /\ UNCHANGED is_locked
          /\ original_priority' = [original_priority EXCEPT ![m] = lists.priority[w]]
      BY <2>4, <2>7 DEF WakeFirst
    <3> HIDE DEF w
    <3>3. 1 \in 1 .. Len(waiting[m])
      BY <3>1
    <3>4. lists.state[w] = "BLOCKED" /\ w # c /\ resume[w] = <<"lock", m>>
      BY <1>2, <1>3, <3>1, <3>3, LockRest DEF AllBlocked, WaitersOK, RunsWaiting
    <3>5. w # Idle /\ w \in Tasks /\ task_id[w] /\ Ranked(w)
      BY <1>2, <3>1, <3>4 DEF Tidy, PoolOK, TCB
    <3>6. OnlyMoves(lists, lists', w) /\ lists'.state[w] = "READY"
      BY <1>2, <3>1, <3>2, <3>4, IntactWake DEF Tidy
    <3>7. PoolOK' /\ \A u \in TCB : Ranked(u) => Ranked(u)'
      BY <1>2, <2>5, <3>1, <3>5, <3>6, MovePool DEF Tidy
    <3>8. Tidy'
      <4>1. ~lists'.in_ready_queue[c]
        BY <1>3, <3>4, <3>6 DEF OnlyMoves, SameBut
      <4> QED BY <1>2, <1>3, <2>5, <3>6, <3>7, <4>1, CallTidy DEF OnlyMoves
    <3>9. AllBlocked'
      <4> SUFFICES ASSUME NEW l \in WaitLists, NEW i \in 1 .. Len(waiting'[l])
                   PROVE  lists'.state[waiting'[l][i]] = "BLOCKED"
        BY DEF AllBlocked
      <4>1. \E j \in 1 .. Len(waiting[l]) : waiting'[l][i] = waiting[l][j] /\ waiting[l][j] # w
        <5>1. CASE l # m
          <6>1. waiting'[l] = waiting[l]
            BY <1>2, <3>2, <5>1 DEF WaitTypes
          <6>2. resume[waiting[l][i]] = <<"lock", l>>
            BY <1>2, <6>1 DEF WaitersOK, MutexRests
          <6> QED BY <3>4, <5>1, <6>1, <6>2, RestsDiffer
        <5>2. CASE l = m
          <6>1. waiting'[m] = Tail(waiting[m])
            BY <1>2, <3>2 DEF WaitTypes
          <6>2. i + 1 \in 1 .. Len(waiting[m]) /\ i + 1 # 1 /\ waiting'[m][i] = waiting[m][i + 1]
            BY <3>1, <5>2, <6>1
          <6>3. waiting[m][i + 1] # w
            BY <1>2, <3>1, <3>3, <6>2 DEF WaitersOK
          <6> QED BY <5>2, <6>2, <6>3
        <5> QED BY <5>1, <5>2
      <4>2. PICK j \in 1 .. Len(waiting[l]) : waiting'[l][i] = waiting[l][j] /\ waiting[l][j] # w
        BY <4>1
      <4>3. waiting[l][j] \in TCB /\ lists.state[waiting[l][j]] = "BLOCKED"
        BY <1>2, ElementOfSeq DEF AllBlocked, WaitTypes
      <4> QED BY <3>6, <4>2, <4>3 DEF OnlyMoves, SameBut
    <3>10. OwnersRanked'
      <4>1. \A t \in Tasks : Ranked(t) => Ranked(t)'
        BY <3>7 DEF TCB
      <4>2. owner'[m] = w /\ original_priority'[m] = lists.priority[w]
        BY <1>2, <3>2 DEF OwnTypes
      <4>3. \A n \in Mutexes \ {m} : owner'[n] = owner[n] /\ original_priority'[n] = original_priority[n]
        BY <1>2, <3>2 DEF OwnTypes
      <4> QED BY <1>2, <3>2, <3>5, <4>1, <4>2, <4>3 DEF OwnersRanked, Ranked
    <3> QED BY <3>8, <3>9, <3>10
  <2> QED BY <2>6, <2>7
<1> QED BY <1>4, <1>5

(* Every step.                                                             *)
LEMMA NextOrderly ==
  ASSUME Patient, OnePriority
  PROVE  MutexIInv /\ Orderly /\ [MutexNext]_allVars => Orderly'
<1> SUFFICES ASSUME MutexIInv, Orderly, [MutexNext]_allVars PROVE Orderly'
  OBVIOUS
<1>1. CASE MutexKernelStep
  BY <1>1, KernelStepOrderly
<1>2. ASSUME NEW m \in Mutexes, mutex_create(m) \/ mutex_delete(m)  PROVE Orderly'
  BY <1>2, ClearOrderly DEF mutex_create, mutex_delete
<1>3. ASSUME NEW m \in Mutexes, mutex_lock(m)  PROVE Orderly'
  BY <1>3, LockOrderly, LockWaitsOrderly DEF mutex_lock
<1>4. ASSUME NEW m \in Mutexes, LockResumes(m)  PROVE Orderly'
  BY <1>4, LockResumesOrderly
<1>5. ASSUME NEW m \in Mutexes, mutex_unlock(m)  PROVE Orderly'
  BY <1>5, UnlockOrderly
<1>6. CASE UNCHANGED allVars
  <2>1. UNCHANGED <<vars, waiting, abandoned, is_locked, owner, original_priority>> /\ UNCHANGED lists
    BY <1>6 DEF allVars, vars, waitVars, mutexVars
  <2> QED BY <2>1, SameTidy DEF Orderly, AllBlocked, OwnersRanked, Ranked
<1> QED BY <1>1, <1>2, <1>3, <1>4, <1>5, <1>6 DEF MutexNext

(* The waiting list of a mutex holds tasks BLOCKED in its mutex_lock, each *)
(* once (LockersWait in Mutex.tla): the code wakes a waiter with the       *)
(* unlinking meant for sleepers, and still no wake-up, yield, suspension   *)
(* or reuse of a slot makes a waiter READY or leaves the node of a task    *)
(* that runs.  The hypotheses are those of the run: with several           *)
(* priorities, inheritance rewrites the priority of an owner in a ready    *)
(* queue; with sleepers, waking a waiter can cut blocked_list off.         *)
THEOREM LockersStayBlocked ==
  ASSUME Patient, OnePriority
  PROVE  MutexSpec => []LockersWait
<1>1. MutexInit => Orderly
  <2> SUFFICES ASSUME MutexInit PROVE Tidy /\ AllBlocked /\ OwnersRanked
    BY DEF Orderly
  <2> QED BY InitTidy, EmptySeq DEF MutexInit, WaitingInit, AllBlocked, OwnersRanked
<1>2. MutexIInv /\ Orderly => LockersWait
  <2> SUFFICES ASSUME ~abandoned, MutexIInv, Orderly, NEW m \in Mutexes
               PROVE  AllWait(m, {<<"lock", m>>})
    BY DEF LockersWait
  <2>1. WaitersOK(MutexRests) /\ AllBlocked /\ m \in WaitLists /\ MutexRests[m] = {<<"lock", m>>}
    BY LockRest DEF MutexIInv, Owned, Orderly
  <2> QED BY <2>1 DEF WaitersOK, AllBlocked, AllWait
<1> QED BY <1>1, <1>2, NextOrderly, MutexInvariance, PTL DEF MutexSpec

=============================================================================
