--------------------------- MODULE SemaphoreProofs ---------------------------
(***************************************************************************)
(* Theorems about Semaphore, for any number of tasks, semaphores, nodes,   *)
(* counts and calls.  A blocking call can corrupt the task lists, and      *)
(* nothing is assumed of them but their types.                             *)
(***************************************************************************)
EXTENDS Semaphore, KernelProofs

SemRests == [l \in WaitLists |-> {<<"take", l>>}]

(* A count that waiters could take is spoken for: for each unit of it a    *)
(* task has been woken that has yet to test the count again.               *)
GivesCovered ==
  \A s \in Semaphores : SpokenFor(s, {<<"take", s>>}, count[s])

SemIInv ==
  /\ Sane /\ WaitTypes /\ SemTypeOK
  /\ ~abandoned => WaitersOK(SemRests) /\ GivesCovered

-----------------------------------------------------------------------------
(* What a task that waits on s has left to do.                             *)
LEMMA TakeRest ==
  ASSUME NEW s \in Semaphores
  PROVE  s \in WaitLists /\ SemRests[s] = {<<"take", s>>} /\ <<>> \notin {<<"take", s>>}
  BY SemaphoreAssumption DEF SemRests

(* GivesCovered after a step, one semaphore at a time.                     *)
LEMMA StaysCovered ==
  ASSUME NEW s \in Semaphores, GivesCovered, count[s] \in Nat, count'[s] \in Nat,
         waiting'[s] # <<>> => waiting[s] # <<>>,
         LET W == Woken(s, {<<"take", s>>})
         IN  \/ count'[s] <= count[s] /\ W \subseteq W'
             \/ count'[s] <= count[s] - 1 /\ \E t \in TCB : W \ {t} \subseteq W'
             \/ count'[s] <= count[s] + 1 /\ \E t \in TCB : t \notin W /\ W \cup {t} \subseteq W'
  PROVE  SpokenFor(s, {<<"take", s>>}, count[s])'
<1>1. s \in WaitLists /\ SpokenFor(s, {<<"take", s>>}, count[s])
  BY TakeRest DEF GivesCovered
<1>2. count'[s] > 0 /\ waiting'[s] # <<>> =>
        count'[s] <= Cardinality(Woken(s, {<<"take", s>>})')
  BY <1>1, SpokenForStep
<1> QED BY <1>2 DEF SpokenFor

(* The initial state.                                                      *)
LEMMA InitSemIInv == SemInit => SemIInv
<1> SUFFICES ASSUME SemInit PROVE SemIInv
  OBVIOUS
<1>1. waiting = [l \in WaitLists |-> <<>>] /\ resume = [t \in TCB |-> <<>>] /\ pc = "boot"
  BY DEF SemInit, WaitingInit, Init
<1>2. WaitTypes /\ ~RunsWaiting
  BY <1>1 DEF WaitTypes, RunsWaiting
<1>3. SemTypeOK
  BY <1>1 DEF SemInit, SemTypeOK
<1>4. WaitersOK(SemRests)
  BY <1>1, <1>2 DEF WaitersOK
<1>5. GivesCovered
  BY <1>1, SemaphoreAssumption DEF GivesCovered, SpokenFor
<1> QED BY <1>2, <1>3, <1>4, <1>5, InitSane DEF SemIInv, SemInit

(* The kernel wakes no waiter and takes no count.                          *)
LEMMA KernelStepSem ==
  ASSUME SemIInv, KernelStep, UNCHANGED semVars
  PROVE  SemIInv'
<1>1. Sane /\ WaitTypes /\ SemTypeOK
  BY DEF SemIInv
<1>2. Sane' /\ WaitTypes' /\ UNCHANGED waiting /\ (~abandoned' => ~abandoned)
  BY <1>1, KernelStepWaits
<1>3. SemTypeOK'
  BY <1>1, <1>2 DEF SemTypeOK, semVars
<1>4. ASSUME ~abandoned' PROVE WaitersOK(SemRests)' /\ GivesCovered'
  <2>1. WaitersOK(SemRests) /\ GivesCovered
    BY <1>2, <1>4 DEF SemIInv
  <2>2. WaitersOK(SemRests)'
        /\ \A s \in Semaphores : Woken(s, {<<"take", s>>}) \subseteq Woken(s, {<<"take", s>>})'
    BY <1>1, <1>4, <2>1, TakeRest, KernelStepKeeps
  <2>3. ASSUME NEW s \in Semaphores
        PROVE  SpokenFor(s, {<<"take", s>>}, count[s])'
    <3>1. /\ count[s] \in Nat /\ count'[s] \in Nat /\ count'[s] <= count[s]
          /\ waiting'[s] = waiting[s]
      BY <1>1, <1>2 DEF SemTypeOK, semVars
    <3>2. Woken(s, {<<"take", s>>}) \subseteq Woken(s, {<<"take", s>>})'
      BY <2>2
    <3> QED BY <2>1, <3>1, <3>2, StaysCovered
  <2> QED BY <2>2, <2>3 DEF GivesCovered
<1> QED BY <1>2, <1>3, <1>4 DEF SemIInv

(* semaphore_create and semaphore_delete empty the waiting list.           *)
LEMMA ClearSem ==
  ASSUME SemIInv, NEW s \in Semaphores, NEW n \in Nat, NEW m \in Nat, n <= m,
         sem_id' \in [Semaphores -> BOOLEAN], count' = [count EXCEPT ![s] = n],
         max_count' = [max_count EXCEPT ![s] = m], waiting' = [waiting EXCEPT ![s] = <<>>],
         UNCHANGED <<vars, resume, abandoned>>
  PROVE  SemIInv'
<1>1. Sane /\ WaitTypes /\ SemTypeOK /\ s \in WaitLists
  BY TakeRest DEF SemIInv
<1>2. UNCHANGED <<lists, pc, cursor, current_task, scheduler_running>>
  BY DEF vars, schedVars, controlVars
<1>3. /\ waiting' \in [WaitLists -> Seq(TCB)] /\ waiting'[s] = <<>>
      /\ \A l \in WaitLists \ {s} : waiting'[l] = waiting[l]
  BY <1>1, EmptySeq DEF WaitTypes
<1>4. Sane' /\ WaitTypes'
  BY <1>1, <1>2, <1>3 DEF Sane, WaitTypes
<1>5. SemTypeOK'
  BY <1>1, <1>3 DEF SemTypeOK
<1>6. ASSUME ~abandoned' PROVE WaitersOK(SemRests)' /\ GivesCovered'
  <2>1. WaitersOK(SemRests) /\ GivesCovered
    BY <1>6 DEF SemIInv
  <2>2. WaitersOK(SemRests)'
    BY <1>1, <1>2, <1>3, <2>1, WaitersLeft
  <2>3. ASSUME NEW q \in Semaphores \ {s}
        PROVE  SpokenFor(q, {<<"take", q>>}, count[q])'
    <3>1. /\ q \in Semaphores /\ q \in WaitLists \ {s}
          /\ count[q] \in Nat /\ count'[q] \in Nat /\ count'[q] <= count[q]
      <4>1. q \in Semaphores /\ q # s
        OBVIOUS
      <4>2. q \in WaitLists
        BY <4>1, TakeRest
      <4> QED BY <1>1, <4>1, <4>2 DEF SemTypeOK
    <3>2. Woken(q, {<<"take", q>>}) \subseteq Woken(q, {<<"take", q>>})'
      BY <1>2, <1>3, <3>1 DEF Woken, Named
    <3> QED BY <1>3, <2>1, <3>1, <3>2, StaysCovered
  <2>4. SpokenFor(s, {<<"take", s>>}, count[s])'
    BY <1>3 DEF SpokenFor
  <2> QED BY <2>2, <2>3, <2>4 DEF GivesCovered
<1> QED BY <1>4, <1>5, <1>6 DEF SemIInv

(* A task takes a count that is there, or waits.                           *)
LEMMA TakeSem ==
  ASSUME SemIInv, NEW s \in Semaphores, semaphore_take(s)
  PROVE  SemIInv'
<1>1. Sane /\ WaitTypes /\ SemTypeOK /\ s \in WaitLists /\ Calling("sem")
      /\ UNCHANGED <<sem_id, max_count>>
  BY TakeRest DEF SemIInv, semaphore_take
<1>2. CASE count[s] > 0 /\ count' = [count EXCEPT ![s] = @ - 1] /\ UNCHANGED <<vars, waitVars>>
  <2>1. UNCHANGED <<lists, pc, cursor, current_task, scheduler_running, waiting, resume, abandoned>>
    BY <1>2 DEF vars, schedVars, controlVars, waitVars
  <2>2. count' \in [Semaphores -> Nat] /\ \A q \in Semaphores : count'[q] <= count[q]
    BY <1>1, <1>2 DEF SemTypeOK
  <2>3. SemTypeOK'
    BY <1>1, <2>1, <2>2 DEF SemTypeOK
  <2>4. Sane' /\ WaitTypes' /\ (WaitersOK(SemRests) => WaitersOK(SemRests)')
    BY <1>1, <2>1 DEF Sane, WaitTypes, WaitersOK, RunsWaiting
  <2>5. ASSUME GivesCovered PROVE GivesCovered'
    <3>1. ASSUME NEW q \in Semaphores
          PROVE  SpokenFor(q, {<<"take", q>>}, count[q])'
      <4>1. count[q] \in Nat /\ count'[q] \in Nat /\ count'[q] <= count[q]
        BY <1>1, <2>2 DEF SemTypeOK
      <4>2. Woken(q, {<<"take", q>>}) \subseteq Woken(q, {<<"take", q>>})'
        BY <2>1 DEF Woken, Named
      <4> QED BY <2>1, <2>5, <4>1, <4>2, StaysCovered
    <3> QED BY <3>1 DEF GivesCovered
  <2> QED BY <2>1, <2>3, <2>4, <2>5 DEF SemIInv
<1>3. ASSUME count[s] = 0, NEW ms, Block(lists, s, ms, <<"take", s>>), UNCHANGED count
      PROVE  SemIInv'
  <2>1. /\ Sane' /\ WaitTypes' /\ (~abandoned' => ~abandoned)
        /\ \A n \in WaitLists \ {s} : waiting'[n] = waiting[n]
    BY <1>1, <1>3, BlockWaits DEF Sane
  <2>2. SemTypeOK'
    BY <1>1, <1>3, <2>1 DEF SemTypeOK, WaitTypes
  <2>3. ASSUME ~abandoned' PROVE WaitersOK(SemRests)' /\ GivesCovered'
    <3>1. WaitersOK(SemRests) /\ GivesCovered
      BY <2>1, <2>3 DEF SemIInv
    <3>2. <<"take", s>> \in SemRests[s]
      BY TakeRest
    <3>3. WaitersOK(SemRests)'
          /\ \A q \in Semaphores \ {s} :
               Woken(q, {<<"take", q>>}) \subseteq Woken(q, {<<"take", q>>})'
      BY <1>1, <1>3, <2>3, <3>1, <3>2, TakeRest, BlockKeeps DEF Sane
    <3>4. ASSUME NEW q \in Semaphores
          PROVE  SpokenFor(q, {<<"take", q>>}, count[q])'
      <4>1. CASE q = s
        BY <1>3, <4>1 DEF SpokenFor
      <4>2. CASE q # s
        <5>1. /\ waiting'[q] = waiting[q]
              /\ count[q] \in Nat /\ count'[q] \in Nat /\ count'[q] <= count[q]
          BY <1>1, <1>3, <2>1, <4>2, TakeRest DEF SemTypeOK
        <5>2. Woken(q, {<<"take", q>>}) \subseteq Woken(q, {<<"take", q>>})'
          BY <3>3, <4>2
        <5> QED BY <3>1, <5>1, <5>2, StaysCovered
      <4> QED BY <4>1, <4>2
    <3> QED BY <3>3, <3>4 DEF GivesCovered
  <2> QED BY <2>1, <2>2, <2>3 DEF SemIInv
<1> QED BY <1>2, <1>3 DEF semaphore_take

(* A woken task tests the count again: it takes one unit at most, and it   *)
(* is one of those the count was spoken for by.                            *)
LEMMA TakeResumesSem ==
  ASSUME SemIInv, NEW s \in Semaphores, TakeResumes(s)
  PROVE  SemIInv'
<1>1. Sane /\ WaitTypes /\ SemTypeOK /\ pc = "app"
  BY DEF SemIInv, TakeResumes, Resuming
<1>2. /\ UNCHANGED <<lists, pc, cursor, current_task, scheduler_running, waiting, abandoned>>
      /\ UNCHANGED <<sem_id, max_count>>
      /\ count' = [count EXCEPT ![s] = IF @ > 0 THEN @ - 1 ELSE @]
      /\ resume' = [resume EXCEPT ![current_task] = <<>>]
      /\ resume[current_task] = <<"take", s>> /\ current_task \in TCB
  BY <1>1 DEF TakeResumes, Resuming, Return, vars, schedVars, controlVars, Sane
<1>3. resume' = [t \in TCB |-> resume'[t]] /\ resume'[current_task] = <<>>
      /\ \A t \in TCB \ {current_task} : resume'[t] = resume[t]
  <2>1. PICK f : f = [t \in TCB |-> f[t]] /\ f = resume
    BY <1>1 DEF WaitTypes
  <2> QED BY <1>2, <2>1
<1>4. Sane' /\ WaitTypes'
  BY <1>1, <1>2, <1>3 DEF Sane, WaitTypes
<1>5. /\ count' \in [Semaphores -> Nat]
      /\ count[s] \in Nat /\ count'[s] = IF count[s] > 0 THEN count[s] - 1 ELSE 0
      /\ \A q \in Semaphores : count'[q] <= count[q] /\ (q # s => count'[q] = count[q])
  BY <1>1, <1>2 DEF SemTypeOK
<1>6. SemTypeOK'
  BY <1>1, <1>2, <1>5 DEF SemTypeOK
<1>7. ASSUME ~abandoned' PROVE WaitersOK(SemRests)' /\ GivesCovered'
  <2>1. WaitersOK(SemRests) /\ GivesCovered
    BY <1>2, <1>7 DEF SemIInv
  <2>2. WaitersOK(SemRests)'
    BY <1>1, <1>2, <1>3, <2>1, WaitersLeft DEF WaitTypes
  <2>3. ASSUME NEW q \in Semaphores \ {s}
        PROVE  SpokenFor(q, {<<"take", q>>}, count[q])'
    <3>1. Woken(q, {<<"take", q>>}) \subseteq Woken(q, {<<"take", q>>})'
      <4> SUFFICES ASSUME NEW t \in Woken(q, {<<"take", q>>})
                   PROVE  t \in Woken(q, {<<"take", q>>})'
        OBVIOUS
      <4>1. t \in TCB /\ resume[t] = <<"take", q>>
        BY DEF Woken
      <4>2. t # current_task
        BY <1>2, <2>3, <4>1
      <4> QED BY <1>2, <1>3, <4>1, <4>2 DEF Woken, Named
    <3>2. /\ q \in Semaphores /\ waiting'[q] = waiting[q]
          /\ count[q] \in Nat /\ count'[q] \in Nat /\ count'[q] <= count[q]
      BY <1>1, <1>2, <1>5 DEF SemTypeOK
    <3> QED BY <2>1, <3>1, <3>2, StaysCovered
  <2>4. SpokenFor(s, {<<"take", s>>}, count[s])'
    <3>1. CASE count[s] = 0
      BY <1>5, <3>1 DEF SpokenFor
    <3>2. CASE count[s] > 0
      <4>1. Woken(s, {<<"take", s>>}) \ {current_task} \subseteq Woken(s, {<<"take", s>>})'
        BY <1>2, <1>3 DEF Woken, Named
      <4>2. count'[s] \in Nat /\ count'[s] <= count[s] - 1
        BY <1>5, <3>2
      <4> QED BY <1>2, <1>5, <2>1, <4>1, <4>2, StaysCovered
    <3> QED BY <1>5, <3>1, <3>2
  <2> QED BY <2>2, <2>3, <2>4 DEF GivesCovered
<1> QED BY <1>2, <1>4, <1>6, <1>7 DEF SemIInv

(* A unit is given, and the first waiter becomes one more woken task.      *)
LEMMA GiveSem ==
  ASSUME SemIInv, NEW s \in Semaphores, semaphore_give(s)
  PROVE  SemIInv'
<1>1. Sane /\ WaitTypes /\ SemTypeOK /\ s \in WaitLists /\ Plain(lists)
  BY TakeRest DEF SemIInv, Sane
<1>2. /\ count[s] < max_count[s] /\ count' = [count EXCEPT ![s] = @ + 1]
      /\ WakeFirst(lists, s) /\ UNCHANGED <<resume, abandoned, sem_id, max_count>>
  BY DEF semaphore_give
<1>3. /\ Sane' /\ UNCHANGED <<pc, current_task>>
      /\ waiting' \in [WaitLists -> Seq(TCB)]
      /\ \A t \in TCB : ~Blocks(t)
      /\ \A n \in WaitLists \ {s} : waiting'[n] = waiting[n]
      /\ waiting[s] = <<>> => waiting'[s] = <<>>
      /\ waiting[s] # <<>> =>
           /\ Head(waiting[s]) \in TCB /\ lists'.state[Head(waiting[s])] = "READY"
           /\ waiting'[s] = Tail(waiting[s])
  BY <1>1, <1>2, WakeFirstWaits
<1>4. WaitTypes'
  BY <1>1, <1>2, <1>3 DEF WaitTypes
<1>5. /\ count' \in [Semaphores -> Nat] /\ count[s] \in Nat /\ count'[s] = count[s] + 1
      /\ \A q \in Semaphores \ {s} : count'[q] = count[q]
  BY <1>1, <1>2 DEF SemTypeOK
<1>6. SemTypeOK'
  BY <1>1, <1>2, <1>3, <1>5 DEF SemTypeOK
<1>7. ASSUME ~abandoned' PROVE WaitersOK(SemRests)' /\ GivesCovered'
  <2>1. WaitersOK(SemRests) /\ GivesCovered
    BY <1>2, <1>7 DEF SemIInv
  <2>2. WaitersOK(SemRests)'
    BY <1>1, <1>2, <1>3, <2>1, WaitersLeft
  <2>3. ASSUME NEW q \in Semaphores \ {s}
        PROVE  SpokenFor(q, {<<"take", q>>}, count[q])'
    <3>1. /\ q \in Semaphores /\ q \in WaitLists \ {s}
          /\ count[q] \in Nat /\ count'[q] \in Nat /\ count'[q] <= count[q]
      <4>1. q \in Semaphores /\ q # s
        OBVIOUS
      <4>2. q \in WaitLists
        BY <4>1, TakeRest
      <4> QED BY <1>1, <1>5, <4>1, <4>2 DEF SemTypeOK
    <3>2. Woken(q, {<<"take", q>>}) \subseteq Woken(q, {<<"take", q>>})'
      BY <1>2, <1>3, <3>1 DEF Woken, Named, Blocks
    <3> QED BY <1>3, <2>1, <3>1, <3>2, StaysCovered
  <2>4. SpokenFor(s, {<<"take", s>>}, count[s])'
    <3>1. CASE waiting'[s] = <<>>
      BY <3>1 DEF SpokenFor
    <3>2. CASE waiting'[s] # <<>>
      <4>1. pc = "app" /\ resume[current_task] = <<>>
        BY DEF semaphore_give, Calling, MayCall
      <4>2. /\ waiting[s] # <<>>
            /\ \E t \in TCB :
                 /\ t \notin Woken(s, {<<"take", s>>})
                 /\ Woken(s, {<<"take", s>>}) \cup {t} \subseteq Woken(s, {<<"take", s>>})'
        BY <1>1, <1>2, <2>1, <3>2, <4>1, TakeRest, WakeAddsOne
      <4>3. count'[s] \in Nat /\ count'[s] <= count[s] + 1
        BY <1>5
      <4> QED BY <1>5, <2>1, <4>2, <4>3, StaysCovered
    <3> QED BY <3>1, <3>2
  <2> QED BY <2>2, <2>3, <2>4 DEF GivesCovered
<1> QED BY <1>2, <1>3, <1>4, <1>6, <1>7 DEF SemIInv

(* Every step preserves SemIInv.                                           *)
LEMMA NextSemIInv == SemIInv /\ [SemNext]_allVars => SemIInv'
<1> SUFFICES ASSUME SemIInv, [SemNext]_allVars PROVE SemIInv'
  OBVIOUS
<1>1. CASE KernelStep /\ UNCHANGED semVars
  BY <1>1, KernelStepSem
<1>2. ASSUME NEW s \in Semaphores, NEW max \in MaxCounts, NEW n \in 0 .. max,
             semaphore_create(s, n, max)
      PROVE  SemIInv'
  <2>1. max \in Nat /\ n \in Nat /\ n <= max
    BY <1>2, SemaphoreAssumption
  <2>2. sem_id' \in [Semaphores -> BOOLEAN]
    BY <1>2 DEF semaphore_create, SemIInv, SemTypeOK
  <2> QED BY <1>2, <2>1, <2>2, ClearSem DEF semaphore_create
<1>3. ASSUME NEW s \in Semaphores, semaphore_delete(s) PROVE SemIInv'
  <2>1. sem_id' \in [Semaphores -> BOOLEAN]
    BY <1>3 DEF semaphore_delete, SemIInv, SemTypeOK
  <2>2. /\ count' = [count EXCEPT ![s] = 0] /\ max_count' = [max_count EXCEPT ![s] = 0]
        /\ waiting' = [waiting EXCEPT ![s] = <<>>] /\ UNCHANGED <<vars, resume, abandoned>>
    BY <1>3 DEF semaphore_delete
  <2>3. 0 \in Nat /\ 0 <= 0
    OBVIOUS
  <2> QED BY <2>1, <2>2, <2>3, ClearSem
<1>4. ASSUME NEW s \in Semaphores,
             semaphore_take(s) \/ TakeResumes(s) \/ semaphore_give(s)
      PROVE  SemIInv'
  BY <1>4, TakeSem, TakeResumesSem, GiveSem
<1>5. CASE UNCHANGED allVars
  <2>1. UNCHANGED <<lists, pc, cursor, current_task, scheduler_running, waiting, resume,
                    abandoned, sem_id, count, max_count>>
    BY <1>5 DEF allVars, vars, schedVars, controlVars, waitVars, semVars
  <2> QED BY <2>1 DEF SemIInv, Sane, WaitTypes, SemTypeOK, WaitersOK, RunsWaiting, GivesCovered,
                      SpokenFor, Woken, Named
<1> QED BY <1>1, <1>2, <1>3, <1>4, <1>5 DEF SemNext

-----------------------------------------------------------------------------
(* The inductive invariant holds in every state.                           *)
THEOREM SemInvariance == SemSpec => []SemIInv
<1> QED BY InitSemIInv, NextSemIInv, PTL DEF SemSpec

(* The semaphores have their types, and no count exceeds its maximum       *)
(* (SemTypeOK in Semaphore.tla), however takes and gives interleave.       *)
THEOREM SemTypeCorrect == SemSpec => []SemTypeOK
<1>1. SemIInv => SemTypeOK
  BY DEF SemIInv
<1> QED BY <1>1, SemInvariance, PTL

(* A unit given while tasks wait is not lost (NoLostGive in Semaphore.tla): *)
(* as long as the count is not 0 and tasks wait, one of those woken has    *)
(* yet to test the count again.                                            *)
THEOREM GivesNotLost == SemSpec => []NoLostGive
<1>1. SemIInv => NoLostGive
  <2> SUFFICES ASSUME SemIInv, ~abandoned, NEW s \in Semaphores, count[s] > 0, waiting[s] # <<>>
               PROVE  OneIsWoken({<<"take", s>>})
    BY DEF NoLostGive
  <2> QED BY TakeRest, SpokenForBySome DEF SemIInv, GivesCovered, SemTypeOK
<1> QED BY <1>1, SemInvariance, PTL

=============================================================================
