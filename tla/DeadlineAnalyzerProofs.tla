----------------------- MODULE DeadlineAnalyzerProofs -----------------------
(***************************************************************************)
(* What the deadline analyzer keeps is what the tasks did: its averages,   *)
(* totals, worst slacks and history agree with the turns that were         *)
(* reported, its divisions are never by zero, and its verdict does not     *)
(* depend on any of it; for every size of the tables and every turn.       *)
(***************************************************************************)
EXTENDS DeadlineAnalyzer, SequenceTheorems, FiniteSetTheorems, WellFoundedInduction, TLAPS

-----------------------------------------------------------------------------
(* Arithmetic                                                              *)

LEMMA ProductMonotone ==
  ASSUME NEW a \in Nat, NEW b \in Nat, NEW n \in Nat, a <= b
  PROVE  a * n <= b * n
<1>1. PICK c \in Nat : b = a + c
  BY SMT
<1>2. b * n = a * n + c * n /\ c * n \in Nat /\ a * n \in Nat
  BY <1>1, SMT
<1> QED
  BY <1>2, SMT

LEMMA QuotientBounds ==
  ASSUME NEW s \in Nat, NEW d \in Nat \ {0}, NEW lo \in Nat, NEW hi \in Nat,
         lo * d <= s, s <= hi * d
  PROVE  s \div d \in Nat /\ lo <= s \div d /\ s \div d <= hi
<1>1. PICK q \in Nat, r \in Nat : q = s \div d /\ s = q * d + r /\ r < d
  BY SMT
<1>2. ASSUME q < lo  PROVE FALSE
  <2>1. (q + 1) * d <= lo * d
    BY <1>2, ProductMonotone, SMT
  <2>2. (q + 1) * d = q * d + d
    BY SMT
  <2> QED BY <1>1, <2>1, <2>2, SMT
<1>3. ASSUME hi < q  PROVE FALSE
  <2>1. (hi + 1) * d <= q * d
    BY <1>3, ProductMonotone, SMT
  <2>2. (hi + 1) * d = hi * d + d
    BY SMT
  <2> QED BY <1>1, <2>1, <2>2, SMT
<1> QED
  BY <1>1, <1>2, <1>3, SMT

(* One more sample: the truncated average stays between the bounds.        *)
LEMMA AverageStep ==
  ASSUME NEW lo \in Nat, NEW hi \in Nat, NEW avg \in Nat, NEW n \in Nat, NEW x \in Nat,
         lo <= x, x <= hi, n = 0 \/ (lo <= avg /\ avg <= hi),
         hi * (n + 1) < Modulus
  PROVE  LET q == ((avg * n + x) % Modulus) \div (n + 1)
         IN  q \in Nat /\ lo <= q /\ q <= hi
<1>0. Modulus \in Nat \ {0}
  BY AnalyzerAssumption
<1>1. lo * n <= avg * n /\ avg * n <= hi * n
  <2>1. CASE n = 0
    BY <2>1, SMT
  <2>2. CASE lo <= avg /\ avg <= hi
    BY <2>2, ProductMonotone
  <2> QED BY <2>1, <2>2
<1>2. lo * (n + 1) = lo * n + lo /\ hi * (n + 1) = hi * n + hi
  BY SMT
<1>3. avg * n \in Nat /\ lo * n \in Nat /\ hi * n \in Nat
  BY SMT
<1>4. PICK s \in Nat : s = avg * n + x
  BY <1>3, SMT
<1>5. lo * (n + 1) <= s /\ s <= hi * (n + 1)
  BY <1>1, <1>2, <1>3, <1>4, SMT
<1>6. hi * (n + 1) \in Nat
  BY SMT
<1>7. s < Modulus
  BY <1>0, <1>5, <1>6, SMT
<1>8. s % Modulus = s
  BY <1>0, <1>7, SMT
<1>9. s \div (n + 1) \in Nat /\ lo <= s \div (n + 1) /\ s \div (n + 1) <= hi
  BY <1>5, QuotientBounds, SMT
<1> QED
  BY <1>4, <1>8, <1>9

-----------------------------------------------------------------------------
(* The inductive invariant                                                 *)

EntryType ==
  [task_id : Tasks \cup {NoTask}, period_ms : {0, PerfPeriod}, wcet : Nat, bcet : Nat,
   avg_execution_time : Nat, total_executions : Nat, deadline_misses : Nat,
   consecutive_misses : Nat, max_consecutive_misses : Nat, worst_slack : Nat, avg_slack : Nat]

(* An entry that has turns.                                                *)
Averages(e) ==
  /\ e.wcet \in ExecTimes
  /\ e.bcet <= e.avg_execution_time /\ e.avg_execution_time <= e.wcet

EntryOK(e) ==
  /\ e.total_executions <= Len(log)
  /\ IF e.total_executions = 0
     THEN e.wcet = 0 /\ (e.task_id # NoTask => e.bcet = UINT32_MAX)
     ELSE Averages(e)

(* The task between its two calls has an entry with a turn: it was counted *)
(* by the first call, and nobody else runs before the second.              *)
AnalyzerIInv ==
  /\ tasks \in [Entries -> EntryType]
  /\ \A i \in Entries : EntryOK(tasks[i])
  /\ log \in Seq([task : Tasks, exec_time : ExecTimes, judged : BOOLEAN])
  /\ Len(log) <= ExecLimit
  /\ \/ turn = Idle
     \/ /\ turn \in [task : Tasks, call : {"update", "execution", "deadline"}, exec_time : ExecTimes]
        /\ turn.call # "deadline" => Len(log) < ExecLimit
        /\ turn.call = "deadline" /\ enabled =>
             \A i \in Entries : IsEntryOf(i, turn.task) => tasks[i].total_executions > 0

LEMMA InitHolds == Init => AnalyzerIInv
<1> SUFFICES ASSUME Init  PROVE AnalyzerIInv
  OBVIOUS
<1>1. UINT32_MAX \in Nat
  BY AnalyzerAssumption DEF UINT32_MAX
<1>2. ASSUME NEW i \in Entries
      PROVE  tasks[i] \in EntryType /\ EntryOK(tasks[i])
  <2>1. CASE i <= 3
    <3>1. PICK t \in Tasks : tasks[i] = RegisteredEntry(t, 0)
      BY <2>1 DEF Init, Entries, Tasks
    <3>2. tasks[i] = [task_id |-> t, period_ms |-> 0, wcet |-> 0, bcet |-> UINT32_MAX,
                      avg_execution_time |-> 0, total_executions |-> 0, deadline_misses |-> 0,
                      consecutive_misses |-> 0, max_consecutive_misses |-> 0,
                      worst_slack |-> UINT32_MAX, avg_slack |-> 0]
      BY <3>1 DEF RegisteredEntry, NewEntry
    <3> QED BY <1>1, <3>2 DEF EntryOK, EntryType, Init
  <2>2. CASE ~(i <= 3)
    <3>1. tasks[i] = FreeEntry
      BY <2>2 DEF Init
    <3> QED BY <3>1 DEF FreeEntry, NewEntry, EntryOK, EntryType, Init
  <2> QED BY <2>1, <2>2
<1>3. tasks \in [Entries -> EntryType]
  BY <1>2 DEF Init
<1>4. log = <<>> /\ turn = Idle
  BY DEF Init
<1> QED
  BY <1>2, <1>3, <1>4, AnalyzerAssumption DEF AnalyzerIInv

(* PerfMonitor's second registration takes a free entry.                   *)
LEMMA RegisterKeeps == ASSUME AnalyzerIInv, RegisterItself  PROVE AnalyzerIInv'
<1>1. UINT32_MAX \in Nat
  BY AnalyzerAssumption DEF UINT32_MAX
<1>2. log' = log /\ turn' = turn /\ turn = Idle
  BY DEF RegisterItself
<1>3. CASE UNCHANGED tasks
  BY <1>2, <1>3 DEF AnalyzerIInv, EntryOK, Averages
<1>4. ASSUME NEW i \in Entries, tasks' = [tasks EXCEPT ![i] = RegisteredEntry(PerfMonitor, PerfPeriod)]
      PROVE  AnalyzerIInv'
  <2>1. RegisteredEntry(PerfMonitor, PerfPeriod) =
          [task_id |-> PerfMonitor, period_ms |-> PerfPeriod, wcet |-> 0, bcet |-> UINT32_MAX,
           avg_execution_time |-> 0, total_executions |-> 0, deadline_misses |-> 0,
           consecutive_misses |-> 0, max_consecutive_misses |-> 0,
           worst_slack |-> UINT32_MAX, avg_slack |-> 0]
    BY DEF RegisteredEntry, NewEntry
  <2>2. RegisteredEntry(PerfMonitor, PerfPeriod) \in EntryType
    BY <1>1, <2>1 DEF EntryType, Tasks
  <2>3. tasks' \in [Entries -> EntryType]
    BY <1>4, <2>2 DEF AnalyzerIInv
  <2>4. ASSUME NEW j \in Entries  PROVE EntryOK(tasks[j])'
    BY <1>2, <1>4, <2>1 DEF AnalyzerIInv, EntryOK, Averages
  <2> QED BY <1>2, <2>3, <2>4 DEF AnalyzerIInv
<1> QED
  BY <1>3, <1>4 DEF RegisterItself, deadline_analyzer_register_task

LEMMA BeginKeeps == ASSUME AnalyzerIInv, NEW t \in Tasks, BeginTurn(t)  PROVE AnalyzerIInv'
<1>1. UNCHANGED <<tasks, log>>
  BY DEF BeginTurn, stats
<1>2. PICK x \in ExecTimes :
        turn' = [task |-> t, call |-> IF t = PerfMonitor THEN "update" ELSE "execution",
                 exec_time |-> x]
  BY DEF BeginTurn
<1>3. /\ turn' \in [task : Tasks, call : {"update", "execution", "deadline"}, exec_time : ExecTimes]
      /\ turn'.call # "deadline" /\ Len(log) < ExecLimit
  BY <1>2 DEF BeginTurn
<1> QED
  BY <1>1, <1>3 DEF AnalyzerIInv, EntryOK, Averages

LEMMA AnalyseKeeps == ASSUME AnalyzerIInv, Analyse  PROVE AnalyzerIInv'
<1>1. UNCHANGED <<tasks, log>>
  BY DEF Analyse
<1>2. turn # Idle
  BY DEF Analyse, Idle
<1>3. /\ turn' \in [task : Tasks, call : {"update", "execution", "deadline"}, exec_time : ExecTimes]
      /\ turn'.call # "deadline" /\ Len(log) < ExecLimit
  BY <1>2 DEF Analyse, AnalyzerIInv
<1> QED
  BY <1>1, <1>3 DEF AnalyzerIInv, EntryOK, Averages

(* An entry with some of its fields replaced, spelled out.                 *)
LEMMA EntryFields ==
  ASSUME NEW e \in EntryType
  PROVE  e = [task_id |-> e.task_id, period_ms |-> e.period_ms, wcet |-> e.wcet, bcet |-> e.bcet,
              avg_execution_time |-> e.avg_execution_time,
              total_executions |-> e.total_executions, deadline_misses |-> e.deadline_misses,
              consecutive_misses |-> e.consecutive_misses,
              max_consecutive_misses |-> e.max_consecutive_misses,
              worst_slack |-> e.worst_slack, avg_slack |-> e.avg_slack]
  BY DEF EntryType

(* track_execution gives the entry one more turn.                          *)
LEMMA WithExecutionOK ==
  ASSUME AnalyzerIInv, NEW i \in Entries, tasks[i].task_id # NoTask,
         NEW x \in ExecTimes, Len(log) < ExecLimit
  PROVE  LET e == WithExecution(tasks[i], x)
         IN  /\ e \in EntryType
             /\ Averages(e)
             /\ e.total_executions = tasks[i].total_executions + 1
<1> DEFINE e == tasks[i]
           lo == IF x < e.bcet THEN x ELSE e.bcet
           hi == IF x > e.wcet THEN x ELSE e.wcet
           q == Averaged(e, x)
<1>1. e \in EntryType /\ EntryOK(e)
  BY DEF AnalyzerIInv
<1>2. Len(log) \in Nat /\ x \in Nat /\ ExecLimit \in Nat /\ x < UINT32_MAX
  BY AnalyzerAssumption DEF AnalyzerIInv, UINT32_MAX
<1>3. /\ e.bcet \in Nat /\ e.wcet \in Nat /\ e.avg_execution_time \in Nat
      /\ e.total_executions \in Nat
  BY <1>1 DEF EntryType
<1>4. lo \in Nat /\ hi \in Nat /\ lo <= x /\ x <= hi
  BY <1>2, <1>3, SMT
<1>5. hi \in ExecTimes
  <2>1. CASE e.total_executions = 0
    BY <1>1, <1>2, <2>1 DEF EntryOK
  <2>2. CASE e.total_executions # 0
    BY <1>1, <2>2 DEF EntryOK, Averages
  <2> QED BY <2>1, <2>2
<1>6. e.total_executions = 0 \/ (lo <= e.avg_execution_time /\ e.avg_execution_time <= hi)
  BY <1>1, <1>2, <1>3 DEF EntryOK, Averages
<1>7. hi * (e.total_executions + 1) < Modulus
  <2>1. e.total_executions + 1 <= ExecLimit /\ e.total_executions + 1 \in Nat
    BY <1>1, <1>2, <1>3 DEF EntryOK
  <2>2. (e.total_executions + 1) * hi <= ExecLimit * hi
    BY <1>2, <1>4, <2>1, ProductMonotone
  <2>3. hi * ExecLimit < Modulus /\ Modulus \in Nat
    BY <1>5, AnalyzerAssumption
  <2>4. PICK n \in Nat : n = e.total_executions + 1
    BY <2>1
  <2>5. n * hi = hi * n /\ ExecLimit * hi = hi * ExecLimit /\ hi * n \in Nat /\ hi * ExecLimit \in Nat
    BY <1>2, <1>4, SMT
  <2> HIDE DEF hi
  <2> QED BY <2>2, <2>3, <2>4, <2>5
<1>8. q \in Nat /\ lo <= q /\ q <= hi
  <2> HIDE DEF lo, hi, e
  <2> QED BY <1>2, <1>3, <1>4, <1>6, <1>7, AverageStep DEF Averaged
<1>9. WithExecution(e, x) \in EntryType /\ WithExecution(e, x) =
        [task_id |-> e.task_id, period_ms |-> e.period_ms, wcet |-> hi, bcet |-> lo,
         avg_execution_time |-> q, total_executions |-> e.total_executions + 1,
         deadline_misses |-> e.deadline_misses, consecutive_misses |-> e.consecutive_misses,
         max_consecutive_misses |-> e.max_consecutive_misses, worst_slack |-> e.worst_slack,
         avg_slack |-> e.avg_slack]
  <2> HIDE DEF q, lo, hi
  <2>0. PICK n \in Nat : n = e.total_executions + 1
    BY <1>3
  <2> DEFINE step1 == [e EXCEPT !.bcet = lo]
             step2 == [step1 EXCEPT !.wcet = hi]
             step3 == [step2 EXCEPT !.avg_execution_time = q]
             step4 == [step3 EXCEPT !.total_executions = n]
  <2>1. WithExecution(e, x) = step4
    BY <2>0 DEF WithExecution, q, lo, hi
  <2>2. step1 \in EntryType
    BY <1>1, <1>4 DEF EntryType
  <2>3. step2 \in EntryType
    BY <2>2, <1>4 DEF EntryType
  <2>4. step3 \in EntryType
    BY <2>3, <1>8 DEF EntryType
  <2>5. step4 \in EntryType
    BY <2>4 DEF EntryType
  <2>6. WithExecution(e, x) \in EntryType
    BY <2>1, <2>5, Zenon
  <2> QED BY <2>0, <2>1, <2>5, <2>6, EntryFields, <1>1 DEF EntryType
<1> HIDE DEF q, lo, hi
<1> QED
  BY <1>5, <1>8, <1>9 DEF Averages

LEMMA TrackExecutionKeeps == ASSUME AnalyzerIInv, TrackExecution  PROVE AnalyzerIInv'
<1>1. turn # Idle
  BY DEF TrackExecution, Idle
<1>2. PICK t \in Tasks, x \in ExecTimes : t = turn.task /\ x = turn.exec_time
  BY <1>1 DEF AnalyzerIInv
<1>3. Len(log) < ExecLimit /\ turn.call = "execution"
  BY <1>1 DEF AnalyzerIInv, TrackExecution
<1>4. t # NoTask
  BY AnalyzerAssumption DEF Tasks
<1>5. turn' = IF t \in Judging THEN [turn EXCEPT !.call = "deadline"] ELSE Idle
  BY <1>2 DEF TrackExecution
<1>6. turn' = Idle \/ (/\ turn' \in [task : Tasks, call : {"update", "execution", "deadline"},
                                     exec_time : ExecTimes]
                      /\ turn'.call = "deadline" /\ turn'.task = t)
  BY <1>1, <1>2, <1>5 DEF AnalyzerIInv
<1>7. enabled' = enabled
  BY DEF TrackExecution
<1>8. CASE enabled /\ HasEntry(t)
  <2>1. PICK i \in Entries :
          IsEntryOf(i, t) /\ tasks' = [tasks EXCEPT ![i] = WithExecution(tasks[i], x)]
    BY <1>2, <1>8 DEF TrackExecution, deadline_analyzer_track_execution
  <2>2. tasks[i].task_id = t
    BY <2>1 DEF IsEntryOf
  <2>3. log' = Append(log, [task |-> t, exec_time |-> x, judged |-> FALSE])
    BY <1>2, <1>8 DEF TrackExecution, deadline_analyzer_track_execution
  <2>4. /\ log' \in Seq([task : Tasks, exec_time : ExecTimes, judged : BOOLEAN])
        /\ Len(log') = Len(log) + 1 /\ Len(log') <= ExecLimit /\ Len(log) \in Nat
    BY <1>3, <2>3, AnalyzerAssumption DEF AnalyzerIInv
  <2>5. PICK e \in EntryType :
          /\ e = WithExecution(tasks[i], x) /\ Averages(e)
          /\ e.total_executions = tasks[i].total_executions + 1
    BY <1>3, <1>4, <2>2, WithExecutionOK
  <2>6. tasks' = [tasks EXCEPT ![i] = e]
    BY <2>1, <2>5
  <2>7. tasks' \in [Entries -> EntryType]
    BY <2>5, <2>6 DEF AnalyzerIInv
  <2>8. tasks[i].total_executions \in Nat /\ tasks[i].total_executions <= Len(log)
    BY DEF AnalyzerIInv, EntryType, EntryOK
  <2>9. ASSUME NEW j \in Entries  PROVE EntryOK(tasks[j])'
    <3>1. CASE j = i
      <4>1. tasks'[j] = e
        BY <2>6, <3>1 DEF AnalyzerIInv
      <4> QED BY <2>4, <2>5, <2>8, <4>1 DEF EntryOK, Averages
    <3>2. CASE j # i
      <4>1. tasks'[j] = tasks[j]
        BY <2>6, <3>2 DEF AnalyzerIInv
      <4>2. tasks[j] \in EntryType /\ EntryOK(tasks[j])
        BY DEF AnalyzerIInv
      <4>3. tasks[j].total_executions \in Nat
        BY <4>2 DEF EntryType
      <4> QED BY <2>4, <4>1, <4>2, <4>3 DEF EntryOK, Averages
    <3> QED BY <3>1, <3>2
  <2>10. ASSUME NEW j \in Entries, IsEntryOf(j, t)'  PROVE tasks'[j].total_executions > 0
    <3>1. \A k \in Entries : tasks'[k].task_id = tasks[k].task_id
      <4>1. e.task_id = tasks[i].task_id
        BY <2>5 DEF WithExecution, AnalyzerIInv, EntryType
      <4> QED BY <2>6, <4>1 DEF AnalyzerIInv
    <3>2. j = i
      BY <2>1, <2>10, <3>1 DEF IsEntryOf, Entries
    <3> QED BY <2>5, <2>6, <2>8, <3>2 DEF AnalyzerIInv
  <2> QED BY <1>6, <2>4, <2>7, <2>9, <2>10 DEF AnalyzerIInv
<1>9. CASE ~(enabled /\ HasEntry(t))
  <2>1. UNCHANGED <<tasks, log>>
    BY <1>2, <1>9 DEF TrackExecution, deadline_analyzer_track_execution, stats
  <2>2. enabled => \A i \in Entries : ~IsEntryOf(i, t)'
    BY <1>9, <2>1 DEF HasEntry, IsEntryOf
  <2> QED BY <1>6, <1>7, <2>1, <2>2 DEF AnalyzerIInv, EntryOK, Averages
<1> QED
  BY <1>8, <1>9

(* track_deadline does not divide by zero and leaves the averages alone.   *)
LEMMA WithDeadlineOK ==
  ASSUME NEW e \in EntryType, e.total_executions > 0, NEW met \in BOOLEAN, NEW slack \in Nat
  PROVE  LET d == WithDeadline(e, met, slack)
         IN  /\ d \in EntryType
             /\ d.task_id = e.task_id /\ d.total_executions = e.total_executions
             /\ d.wcet = e.wcet /\ d.bcet = e.bcet
             /\ d.avg_execution_time = e.avg_execution_time
<1> DEFINE misses == IF met THEN e.deadline_misses ELSE e.deadline_misses + 1
           streak == Streak(e, met)
           longest == IF streak > e.max_consecutive_misses THEN streak ELSE e.max_consecutive_misses
           worst == WorseSlack(e, slack)
           avg == ((e.avg_slack * (e.total_executions - 1) + slack) % Modulus)
                    \div e.total_executions
           step1 == [e EXCEPT !.deadline_misses = misses]
           step2 == [step1 EXCEPT !.consecutive_misses = streak]
           step3 == [step2 EXCEPT !.max_consecutive_misses = longest]
           step4 == [step3 EXCEPT !.worst_slack = worst]
           step5 == [step4 EXCEPT !.avg_slack = avg]
<1>1. misses \in Nat /\ streak \in Nat /\ longest \in Nat /\ worst \in Nat
  BY DEF EntryType, Streak, WorseSlack
<1>2. avg \in Nat
  <2>1. PICK n \in Nat : e.total_executions = n + 1
    BY DEF EntryType
  <2>2. e.avg_slack * n \in Nat
    BY DEF EntryType
  <2>3. PICK m \in Nat : m = (e.avg_slack * (e.total_executions - 1) + slack) % Modulus
    BY <2>1, <2>2, AnalyzerAssumption, SMT
  <2>4. m \div (n + 1) \in Nat
    BY SMT
  <2> QED BY <2>1, <2>3, <2>4
<1>3. WithDeadline(e, met, slack) = step5
  BY DEF WithDeadline
<1> HIDE DEF misses, streak, longest, worst, avg
<1>4. step1 \in EntryType
  BY <1>1 DEF EntryType
<1>5. step2 \in EntryType
  BY <1>1, <1>4 DEF EntryType
<1>6. step3 \in EntryType
  BY <1>1, <1>5 DEF EntryType
<1>7. step4 \in EntryType
  BY <1>1, <1>6 DEF EntryType
<1>8. step5 \in EntryType
  BY <1>2, <1>7 DEF EntryType
<1> QED
  BY <1>3, <1>8 DEF EntryType

LEMMA TrackDeadlineKeeps == ASSUME AnalyzerIInv, TrackDeadline  PROVE AnalyzerIInv'
<1>1. turn # Idle /\ turn' = Idle /\ turn.call = "deadline"
  BY DEF TrackDeadline, Idle
<1>2. PICK t \in Tasks, x \in ExecTimes : t = turn.task /\ x = turn.exec_time
  BY <1>1 DEF AnalyzerIInv
<1>3. CASE enabled /\ HasEntry(t)
  <2>1. Slack(t, x) \in Nat
    <3>1. Deadline(t) \in Nat /\ x \in Nat /\ x < Modulus /\ Modulus \in Nat \ {0}
      BY AnalyzerAssumption DEF Deadline
    <3> QED BY <3>1 DEF Slack
  <2>2. PICK i \in Entries :
          /\ IsEntryOf(i, t)
          /\ tasks' = [tasks EXCEPT ![i] = WithDeadline(tasks[i], x <= Deadline(t), Slack(t, x))]
    BY <1>2, <1>3 DEF TrackDeadline, deadline_analyzer_track_deadline
  <2>3. tasks[i] \in EntryType /\ tasks[i].total_executions > 0
    BY <1>1, <1>2, <1>3, <2>2 DEF AnalyzerIInv
  <2>4. (x <= Deadline(t)) \in BOOLEAN
    OBVIOUS
  <2>5. PICK e \in EntryType :
          /\ e = WithDeadline(tasks[i], x <= Deadline(t), Slack(t, x))
          /\ e.task_id = tasks[i].task_id /\ e.total_executions = tasks[i].total_executions
          /\ e.wcet = tasks[i].wcet /\ e.bcet = tasks[i].bcet
          /\ e.avg_execution_time = tasks[i].avg_execution_time
    BY <2>1, <2>3, <2>4, WithDeadlineOK
  <2>6. tasks' = [tasks EXCEPT ![i] = e]
    BY <2>2, <2>5
  <2>7. tasks' \in [Entries -> EntryType]
    BY <2>6 DEF AnalyzerIInv
  <2>8. log' = [log EXCEPT ![Len(log)] = [log[Len(log)] EXCEPT !.judged = TRUE]]
    BY <1>2, <1>3 DEF TrackDeadline, deadline_analyzer_track_deadline
  <2>9. /\ log' \in Seq([task : Tasks, exec_time : ExecTimes, judged : BOOLEAN])
        /\ Len(log') = Len(log)
    <3>1. Len(log) \in 1 .. Len(log)
      <4>1. tasks[i].total_executions \in Nat
        BY <2>3 DEF EntryType
      <4>2. tasks[i].total_executions <= Len(log)
        BY DEF AnalyzerIInv, EntryOK
      <4>3. Len(log) \in Nat
        BY DEF AnalyzerIInv
      <4> QED BY <2>3, <4>1, <4>2, <4>3
    <3>2. log[Len(log)] \in [task : Tasks, exec_time : ExecTimes, judged : BOOLEAN]
      <4>1. PICK n \in 1 .. Len(log) : n = Len(log)
        BY <3>1
      <4>2. \A k \in 1 .. Len(log) :
              log[k] \in [task : Tasks, exec_time : ExecTimes, judged : BOOLEAN]
        BY ElementOfSeq DEF AnalyzerIInv
      <4> QED BY <4>1, <4>2
    <3>3. [log[Len(log)] EXCEPT !.judged = TRUE]
            \in [task : Tasks, exec_time : ExecTimes, judged : BOOLEAN]
      BY <3>2
    <3> QED BY <2>8, <3>1, <3>3 DEF AnalyzerIInv
  <2>10. ASSUME NEW j \in Entries  PROVE EntryOK(tasks[j])'
    BY <2>5, <2>6, <2>9 DEF AnalyzerIInv, EntryOK, Averages
  <2> QED BY <1>1, <2>7, <2>9, <2>10 DEF AnalyzerIInv
<1>4. CASE ~(enabled /\ HasEntry(t))
  <2>1. UNCHANGED <<tasks, log>>
    BY <1>2, <1>4 DEF TrackDeadline, deadline_analyzer_track_deadline, stats
  <2> QED BY <1>1, <2>1 DEF AnalyzerIInv, EntryOK, Averages
<1> QED
  BY <1>3, <1>4

LEMMA StopKeeps ==
  ASSUME AnalyzerIInv, deadline_analyzer_stop \/ UNCHANGED vars  PROVE AnalyzerIInv'
<1>1. UNCHANGED <<tasks, log, turn>> /\ (enabled' => enabled)
  BY DEF deadline_analyzer_stop, vars, stats
<1> QED
  BY <1>1 DEF AnalyzerIInv, EntryOK, Averages, IsEntryOf

LEMMA AnalyzerStep == AnalyzerIInv /\ [Next]_vars => AnalyzerIInv'
<1> SUFFICES ASSUME AnalyzerIInv, [Next]_vars  PROVE AnalyzerIInv'
  OBVIOUS
<1>1. CASE Exit
  BY <1>1, StopKeeps DEF Exit
<1> QED BY <1>1, RegisterKeeps, BeginKeeps, AnalyseKeeps, TrackExecutionKeeps,
           TrackDeadlineKeeps, StopKeeps DEF Next

LEMMA AnalyzerInductive == Spec => []AnalyzerIInv
  BY AnalyzerStep, InitHolds, PTL DEF Spec

(* The running average of every entry stays between its best and its worst *)
(* case, whatever the turns take and whatever the size of the tables, as   *)
(* long as the sum it is computed from does not overflow.                  *)
THEOREM AveragesBounded == Spec => []AverageBounded
<1>1. AnalyzerIInv => AverageBounded
  BY DEF AnalyzerIInv, EntryOK, Averages, AverageBounded
<1> QED
  BY <1>1, AnalyzerInductive, PTL

(* What track_deadline divides by, total_executions of the caller's entry, *)
(* is not 0 when it does.                                                  *)
DivisorPositive ==
  turn.call = "deadline" /\ enabled =>
    \A i \in Entries : IsEntryOf(i, turn.task) => tasks[i].total_executions > 0

(* No call of track_deadline that main.c makes divides by zero, although   *)
(* the function itself does not test it: the execution comes first, and    *)
(* the analyzer can only be stopped in between, not started.               *)
THEOREM NeverDividesByZero == Spec => []DivisorPositive
<1>1. AnalyzerIInv => DivisorPositive
  BY DEF AnalyzerIInv, DivisorPositive, Idle
<1> QED
  BY <1>1, AnalyzerInductive, PTL

-----------------------------------------------------------------------------
(* The entries and the turns                                               *)

(* The entry that system_init gives a task.                                *)
Place(t) == IF t = Control THEN 1 ELSE IF t = PerfMonitor THEN 2 ELSE 3

Unused(e) ==
  /\ e.task_id \in {PerfMonitor, NoTask}
  /\ e.wcet = 0 /\ e.total_executions = 0 /\ e.deadline_misses = 0

(* The first three entries stay where they are, and the others, which a    *)
(* task can only have beside one of these, are never given a turn.         *)
Layout ==
  /\ \A t \in Tasks : Place(t) \in Entries =>
       tasks[Place(t)].task_id = t /\ tasks[Place(t)].period_ms = 0
  /\ \A i \in Entries : i > 3 => Unused(tasks[i])

Turn == [task : Tasks, exec_time : ExecTimes, judged : BOOLEAN]

(* Only the last turn can be without its judgement, while its task runs or *)
(* for ever.                                                               *)
Pending ==
  /\ \A k \in 1 .. Len(log) : Place(log[k].task) \in Entries
  /\ \A k \in 1 .. Len(log) : log[k].task \in Judging /\ ~log[k].judged =>
       k = Len(log) /\ (enabled => turn.call = "deadline" /\ turn.task = log[k].task)
  /\ turn.call = "deadline" => turn.task \in Judging
  /\ turn.call = "deadline" /\ enabled /\ Place(turn.task) \in Entries =>
       /\ Len(log) > 0
       /\ log[Len(log)] = [task |-> turn.task, exec_time |-> turn.exec_time, judged |-> FALSE]

TurnsIInv == AnalyzerIInv /\ Layout /\ Pending

LEMMA Places ==
  /\ Place(Control) = 1 /\ Place(PerfMonitor) = 2 /\ Place(Telemetry) = 3
  /\ \A t \in Tasks : Place(t) \in 1 .. 3
  /\ \A t, u \in Tasks : Place(t) = Place(u) => t = u
  /\ \A i \in 1 .. 3 : \E t \in Tasks : Place(t) = i
  BY AnalyzerAssumption DEF Place, Tasks

(* The entry that is found is the one that system_init gave.               *)
LEMMA EntryFound ==
  ASSUME Layout, NEW t \in Tasks
  PROVE  /\ \A i : IsEntryOf(i, t) <=> i = Place(t) /\ i \in Entries
         /\ HasEntry(t) <=> Place(t) \in Entries
<1>1. \A i \in Entries : i \in Nat \ {0}
  BY DEF Entries
<1>2. t # NoTask
  BY AnalyzerAssumption DEF Tasks
<1>3. ASSUME NEW i \in Entries, i < Place(t)  PROVE tasks[i].task_id # t
  <2>1. i \in 1 .. 3
    BY <1>1, <1>3, Places
  <2>2. PICK u \in Tasks : Place(u) = i
    BY <2>1, Places
  <2>3. u # t /\ tasks[i].task_id = u
    BY <1>1, <1>3, <2>2 DEF Layout
  <2> QED BY <2>3
<1>4. ASSUME NEW i \in Entries, tasks[i].task_id = t  PROVE Place(t) \in Entries /\ Place(t) <= i
  <2>1. CASE i > 3
    <3>1. Place(t) = 2 /\ MaxTasks \in Nat
      BY <1>2, <1>4, <2>1, Places, AnalyzerAssumption DEF Layout, Unused
    <3> QED BY <3>1, <2>1 DEF Entries
  <2>2. CASE ~(i > 3)
    <3>1. i \in 1 .. 3
      BY <1>1, <2>2
    <3>2. PICK u \in Tasks : Place(u) = i
      BY <3>1, Places
    <3>3. u = t
      BY <1>4, <3>2 DEF Layout
    <3> QED BY <3>2, <3>3, <1>1
  <2> QED BY <2>1, <2>2
<1>5. Place(t) \in Entries => tasks[Place(t)].task_id = t
  BY DEF Layout
<1>6. ASSUME NEW i, IsEntryOf(i, t)  PROVE i = Place(t) /\ i \in Entries
  <2>1. i \in Entries /\ tasks[i].task_id = t /\ \A j \in Entries : j < i => tasks[j].task_id # t
    BY <1>6 DEF IsEntryOf
  <2>2. Place(t) \in Entries /\ Place(t) <= i
    BY <1>4, <2>1
  <2> QED BY <1>1, <1>5, <2>1, <2>2
<1>7. ASSUME Place(t) \in Entries  PROVE IsEntryOf(Place(t), t)
  BY <1>3, <1>5, <1>7 DEF IsEntryOf
<1>8. HasEntry(t) <=> Place(t) \in Entries
  BY <1>4, <1>5 DEF HasEntry
<1> QED BY <1>6, <1>7, <1>8

(* What the call of track_execution does.                                  *)
LEMMA ExecutionDoes ==
  ASSUME AnalyzerIInv, Layout, TrackExecution
  PROVE  \E t \in Tasks, x \in ExecTimes :
           /\ t = turn.task /\ x = turn.exec_time /\ turn.call = "execution"
           /\ turn' = IF t \in Judging THEN [task |-> t, call |-> "deadline", exec_time |-> x] ELSE Idle
           /\ enabled' = enabled
           /\ \/ /\ enabled /\ Place(t) \in Entries
                 /\ tasks' = [tasks EXCEPT ![Place(t)] = WithExecution(tasks[Place(t)], x)]
                 /\ total_executions' = total_executions + 1
                 /\ history' = Recorded(t, x)
                 /\ log' = Append(log, [task |-> t, exec_time |-> x, judged |-> FALSE])
                 /\ UNCHANGED total_deadline_misses
              \/ /\ ~(enabled /\ Place(t) \in Entries)
                 /\ UNCHANGED <<stats, log>>
<1>1. turn # Idle /\ turn.call = "execution"
  BY DEF TrackExecution, Idle
<1>2. turn \in [task : Tasks, call : {"update", "execution", "deadline"}, exec_time : ExecTimes]
  BY <1>1 DEF AnalyzerIInv
<1>3. PICK t \in Tasks, x \in ExecTimes : t = turn.task /\ x = turn.exec_time
  BY <1>2
<1>4. turn' = IF t \in Judging THEN [turn EXCEPT !.call = "deadline"] ELSE Idle
  BY <1>3 DEF TrackExecution
<1>5. turn' = IF t \in Judging THEN [task |-> t, call |-> "deadline", exec_time |-> x] ELSE Idle
  BY <1>2, <1>3, <1>4
<1>6. enabled' = enabled /\ deadline_analyzer_track_execution(t, x)
  BY <1>3 DEF TrackExecution
<1>7. CASE enabled /\ HasEntry(t)
  <2>1. PICK i \in Entries :
          IsEntryOf(i, t) /\ tasks' = [tasks EXCEPT ![i] = WithExecution(tasks[i], x)]
    BY <1>6, <1>7 DEF deadline_analyzer_track_execution
  <2>2. i = Place(t)
    BY <2>1, EntryFound
  <2>3. /\ total_executions' = total_executions + 1
        /\ history' = Recorded(t, x)
        /\ log' = Append(log, [task |-> t, exec_time |-> x, judged |-> FALSE])
        /\ UNCHANGED total_deadline_misses
    BY <1>6, <1>7 DEF deadline_analyzer_track_execution
  <2> QED BY <1>1, <1>3, <1>5, <1>6, <1>7, <2>1, <2>2, <2>3
<1>8. CASE ~(enabled /\ HasEntry(t))
  <2>1. UNCHANGED <<stats, log>>
    BY <1>6, <1>8 DEF deadline_analyzer_track_execution
  <2>2. ~(enabled /\ Place(t) \in Entries)
    BY <1>8, EntryFound
  <2> QED BY <1>1, <1>3, <1>5, <1>6, <2>1, <2>2
<1> QED BY <1>7, <1>8

(* What the call of track_deadline does.                                   *)
LEMMA DeadlineDoes ==
  ASSUME AnalyzerIInv, Layout, TrackDeadline
  PROVE  \E t \in Tasks, x \in ExecTimes, met \in BOOLEAN, slack \in Nat :
           /\ t = turn.task /\ x = turn.exec_time /\ turn.call = "deadline"
           /\ met = (x <= Deadline(t)) /\ slack = Slack(t, x)
           /\ turn' = Idle /\ enabled' = enabled
           /\ \/ /\ enabled /\ Place(t) \in Entries
                 /\ tasks[Place(t)].total_executions > 0
                 /\ tasks' = [tasks EXCEPT ![Place(t)] = WithDeadline(tasks[Place(t)], met, slack)]
                 /\ total_deadline_misses' = total_deadline_misses + (IF met THEN 0 ELSE 1)
                 /\ history' = Marked(met, slack)
                 /\ log' = [log EXCEPT ![Len(log)].judged = TRUE]
                 /\ UNCHANGED total_executions
              \/ /\ ~(enabled /\ Place(t) \in Entries)
                 /\ UNCHANGED <<stats, log>>
<1>1. turn # Idle /\ turn.call = "deadline"
  BY DEF TrackDeadline, Idle
<1>2. turn \in [task : Tasks, call : {"update", "execution", "deadline"}, exec_time : ExecTimes]
  BY <1>1 DEF AnalyzerIInv
<1>3. PICK t \in Tasks, x \in ExecTimes : t = turn.task /\ x = turn.exec_time
  BY <1>2
<1>4. Slack(t, x) \in Nat
  <2>1. Deadline(t) \in Nat /\ x \in Nat /\ x < Modulus /\ Modulus \in Nat \ {0}
    BY AnalyzerAssumption DEF Deadline
  <2> QED BY <2>1 DEF Slack
<1>5. \E met \in BOOLEAN, slack \in Nat : met = (x <= Deadline(t)) /\ slack = Slack(t, x)
  <2>1. (x <= Deadline(t)) \in BOOLEAN
    OBVIOUS
  <2>2. PICK met \in BOOLEAN : met = (x <= Deadline(t))
    BY <2>1, Zenon
  <2> QED BY <1>4, <2>2
<1>5a. PICK met \in BOOLEAN, slack \in Nat : met = (x <= Deadline(t)) /\ slack = Slack(t, x)
  BY <1>5
<1>6. turn' = Idle /\ enabled' = enabled /\ deadline_analyzer_track_deadline(t, met, slack)
  BY <1>3, <1>5a DEF TrackDeadline
<1>7. CASE enabled /\ HasEntry(t)
  <2>1. PICK i \in Entries :
          IsEntryOf(i, t) /\ tasks' = [tasks EXCEPT ![i] = WithDeadline(tasks[i], met, slack)]
    BY <1>6, <1>7 DEF deadline_analyzer_track_deadline
  <2>2. i = Place(t)
    BY <2>1, EntryFound
  <2>3. /\ total_deadline_misses' = total_deadline_misses + (IF met THEN 0 ELSE 1)
        /\ history' = Marked(met, slack)
        /\ log' = [log EXCEPT ![Len(log)].judged = TRUE]
        /\ UNCHANGED total_executions
    BY <1>6, <1>7 DEF deadline_analyzer_track_deadline
  <2>4. tasks[i].total_executions > 0
    BY <1>1, <1>3, <1>7, <2>1 DEF AnalyzerIInv, Idle
  <2> QED BY <1>1, <1>3, <1>5a, <1>6, <1>7, <2>1, <2>2, <2>3, <2>4
<1>8. CASE ~(enabled /\ HasEntry(t))
  <2>1. UNCHANGED <<stats, log>>
    BY <1>6, <1>8 DEF deadline_analyzer_track_deadline
  <2>2. ~(enabled /\ Place(t) \in Entries)
    BY <1>8, EntryFound
  <2> QED BY <1>1, <1>3, <1>5a, <1>6, <2>1, <2>2
<1> QED BY <1>7, <1>8

-----------------------------------------------------------------------------
(* The layout and the last turn are kept                                   *)

LEMMA ExecutionFields ==
  ASSUME NEW e \in EntryType, NEW x
  PROVE  LET d == WithExecution(e, x)
         IN  /\ d.task_id = e.task_id /\ d.period_ms = e.period_ms
             /\ d.total_executions = e.total_executions + 1
             /\ d.deadline_misses = e.deadline_misses /\ d.worst_slack = e.worst_slack
BY DEF WithExecution, EntryType

LEMMA DeadlineFields ==
  ASSUME NEW e \in EntryType, NEW met, NEW slack
  PROVE  LET d == WithDeadline(e, met, slack)
         IN  /\ d.task_id = e.task_id /\ d.period_ms = e.period_ms
             /\ d.total_executions = e.total_executions
             /\ d.deadline_misses = IF met THEN e.deadline_misses ELSE e.deadline_misses + 1
             /\ d.worst_slack = WorseSlack(e, slack)
BY DEF WithDeadline, EntryType

LEMMA LayoutStarts == Init => Layout
<1> SUFFICES ASSUME Init  PROVE Layout
  OBVIOUS
<1>1. ASSUME NEW t \in Tasks, Place(t) \in Entries
      PROVE  tasks[Place(t)].task_id = t /\ tasks[Place(t)].period_ms = 0
  <2>1. tasks[Place(t)] = RegisteredEntry(<<Control, PerfMonitor, Telemetry>>[Place(t)], 0)
    BY <1>1, Places DEF Init
  <2>2. <<Control, PerfMonitor, Telemetry>>[Place(t)] = t
    BY AnalyzerAssumption DEF Place, Tasks
  <2> QED BY <2>1, <2>2 DEF RegisteredEntry, NewEntry
<1>2. ASSUME NEW i \in Entries, i > 3  PROVE Unused(tasks[i])
  <2>1. tasks[i] = FreeEntry
    BY <1>2 DEF Init, Entries
  <2> QED BY <2>1 DEF FreeEntry, NewEntry, Unused
<1> QED BY <1>1, <1>2 DEF Layout

(* A step that puts e into the entry of a task keeps the layout.           *)
LEMMA LayoutOfEntry ==
  ASSUME AnalyzerIInv, Layout, NEW t \in Tasks, Place(t) \in Entries, NEW e,
         e.task_id = tasks[Place(t)].task_id, e.period_ms = tasks[Place(t)].period_ms,
         tasks' = [tasks EXCEPT ![Place(t)] = e]
  PROVE  Layout'
<1>1. \A i \in Entries : i # Place(t) => tasks'[i] = tasks[i]
  BY DEF AnalyzerIInv
<1>2. tasks'[Place(t)] = e
  BY DEF AnalyzerIInv
<1>3. Place(t) \in 1 .. 3
  BY Places
<1>4. ASSUME NEW i \in Entries, i > 3  PROVE Unused(tasks'[i])
  <2>1. tasks'[i] = tasks[i]
    BY <1>1, <1>3, <1>4
  <2> QED BY <1>4, <2>1 DEF Layout
<1>5. ASSUME NEW u \in Tasks, Place(u) \in Entries
      PROVE  tasks'[Place(u)].task_id = u /\ tasks'[Place(u)].period_ms = 0
  BY <1>1, <1>2, <1>5 DEF Layout
<1> QED BY <1>4, <1>5 DEF Layout

(* PerfMonitor's second registration is in none of the first three.        *)
LEMMA RegisteredPlace ==
  ASSUME AnalyzerIInv, Layout, RegisterItself
  PROVE  \/ UNCHANGED tasks
         \/ \E i \in Entries : /\ i > 3
                               /\ tasks[i].task_id = NoTask
                               /\ tasks' = [tasks EXCEPT ![i] = RegisteredEntry(PerfMonitor, PerfPeriod)]
<1>1. ASSUME NEW i \in Entries, tasks[i].task_id = NoTask  PROVE i > 3
  <2> SUFFICES ASSUME ~(i > 3)  PROVE FALSE
    OBVIOUS
  <2>1. i \in 1 .. 3
    BY DEF Entries
  <2>2. PICK u \in Tasks : Place(u) = i
    BY <2>1, Places
  <2>3. u = NoTask
    BY <1>1, <2>2 DEF Layout
  <2> QED BY <2>3, AnalyzerAssumption DEF Tasks
<1> QED
  BY <1>1 DEF RegisterItself, deadline_analyzer_register_task, IsEntryOf

LEMMA LayoutKept == ASSUME AnalyzerIInv, Layout, [Next]_vars  PROVE Layout'
<1>1. CASE UNCHANGED tasks
  BY <1>1 DEF Layout, Unused
<1>2. CASE RegisterItself
  <2>1. ASSUME NEW i \in Entries, i > 3,
               tasks' = [tasks EXCEPT ![i] = RegisteredEntry(PerfMonitor, PerfPeriod)]
        PROVE  Layout'
    <3>1. \A j \in Entries : j # i => tasks'[j] = tasks[j]
      BY <2>1 DEF AnalyzerIInv
    <3>2. Unused(tasks'[i])
      <4>1. tasks'[i] = RegisteredEntry(PerfMonitor, PerfPeriod)
        BY <2>1 DEF AnalyzerIInv
      <4> QED BY <4>1 DEF Unused, RegisteredEntry, NewEntry
    <3>3. \A u \in Tasks : Place(u) # i
      BY <2>1, Places
    <3>4. \A j \in Entries : j > 3 => Unused(tasks'[j])
      BY <3>1, <3>2 DEF Layout
    <3>5. \A u \in Tasks : Place(u) \in Entries =>
            tasks'[Place(u)].task_id = u /\ tasks'[Place(u)].period_ms = 0
      BY <3>1, <3>3 DEF Layout
    <3> QED BY <3>4, <3>5 DEF Layout
  <2> QED BY <1>1, <1>2, <2>1, RegisteredPlace
<1>3. CASE TrackExecution
  <2>1. PICK t \in Tasks, x \in ExecTimes :
          \/ /\ Place(t) \in Entries
             /\ tasks' = [tasks EXCEPT ![Place(t)] = WithExecution(tasks[Place(t)], x)]
          \/ UNCHANGED tasks
    BY <1>3, ExecutionDoes DEF stats
  <2>2. Place(t) \in Entries => tasks[Place(t)] \in EntryType
    BY DEF AnalyzerIInv
  <2> QED BY <1>1, <2>1, <2>2, ExecutionFields, LayoutOfEntry
<1>4. CASE TrackDeadline
  <2>1. PICK t \in Tasks, met \in BOOLEAN, slack \in Nat :
          \/ /\ Place(t) \in Entries
             /\ tasks' = [tasks EXCEPT ![Place(t)] = WithDeadline(tasks[Place(t)], met, slack)]
          \/ UNCHANGED tasks
    BY <1>4, DeadlineDoes DEF stats
  <2>2. Place(t) \in Entries => tasks[Place(t)] \in EntryType
    BY DEF AnalyzerIInv
  <2> QED BY <1>1, <2>1, <2>2, DeadlineFields, LayoutOfEntry
<1>5. CASE (\E t \in Tasks : BeginTurn(t)) \/ Analyse \/ deadline_analyzer_stop \/ Exit \/ UNCHANGED vars
  BY <1>1, <1>5 DEF BeginTurn, Analyse, deadline_analyzer_stop, Exit, vars, stats
<1> QED BY <1>2, <1>3, <1>4, <1>5 DEF Next

(* The log with one more turn.                                             *)
LEMMA LogGrows ==
  ASSUME AnalyzerIInv, NEW t \in Tasks, NEW x \in ExecTimes,
         log' = Append(log, [task |-> t, exec_time |-> x, judged |-> FALSE])
  PROVE  /\ Len(log) \in Nat /\ Len(log') = Len(log) + 1
         /\ \A k \in 1 .. Len(log) : log'[k] = log[k] /\ log[k] \in Turn
         /\ log'[Len(log) + 1] = [task |-> t, exec_time |-> x, judged |-> FALSE]
<1>1. log \in Seq(Turn)
  BY DEF AnalyzerIInv, Turn
<1>2. [task |-> t, exec_time |-> x, judged |-> FALSE] \in Turn
  BY DEF Turn
<1> QED BY <1>1, <1>2, AppendProperties, ElementOfSeq

LEMMA JudgedTurn ==
  ASSUME NEW r \in Turn
  PROVE  [r EXCEPT !.judged = TRUE] = [task |-> r.task, exec_time |-> r.exec_time, judged |-> TRUE]
<1> DEFINE d == [r EXCEPT !.judged = TRUE]
<1>1. d \in Turn /\ d.task = r.task /\ d.exec_time = r.exec_time /\ d.judged = TRUE
  BY DEF Turn
<1>2. \A e \in Turn : e = [task |-> e.task, exec_time |-> e.exec_time, judged |-> e.judged]
  BY DEF Turn
<1>3. d = [task |-> d.task, exec_time |-> d.exec_time, judged |-> d.judged]
  BY <1>1, <1>2
<1> QED BY <1>1, <1>3, Zenon

(* The log with its last turn judged.                                      *)
LEMMA LogJudged ==
  ASSUME AnalyzerIInv, Len(log) > 0, log' = [log EXCEPT ![Len(log)].judged = TRUE]
  PROVE  /\ Len(log) \in Nat \ {0} /\ Len(log') = Len(log)
         /\ \A k \in 1 .. Len(log) : log[k] \in Turn /\ (k # Len(log) => log'[k] = log[k])
         /\ log'[Len(log)] = [task |-> log[Len(log)].task, exec_time |-> log[Len(log)].exec_time,
                              judged |-> TRUE]
<1>1. log \in Seq(Turn)
  BY DEF AnalyzerIInv, Turn
<1>2. Len(log) \in Nat \ {0} /\ DOMAIN log = 1 .. Len(log)
  BY <1>1
<1>3. PICK n \in 1 .. Len(log) : n = Len(log)
  BY <1>2
<1>4. \A k \in 1 .. Len(log) : log[k] \in Turn
  BY <1>1, ElementOfSeq
<1>5. PICK r \in Turn : r = log[n]
  BY <1>4
<1>6. [r EXCEPT !.judged = TRUE] = [task |-> r.task, exec_time |-> r.exec_time, judged |-> TRUE]
  BY JudgedTurn
<1>7. log' = [log EXCEPT ![n] = [r EXCEPT !.judged = TRUE]]
  BY <1>3, <1>5
<1>8. Len(log') = Len(log)
  BY <1>1, <1>7
<1> QED BY <1>2, <1>3, <1>4, <1>5, <1>6, <1>7, <1>8

LEMMA PendingStarts == Init => Pending
  BY DEF Init, Pending, Idle

LEMMA PendingKept == ASSUME TurnsIInv, AnalyzerIInv', [Next]_vars  PROVE Pending'
<1>0. AnalyzerIInv /\ Layout /\ Pending
  BY DEF TurnsIInv
<1>1. CASE UNCHANGED log /\ turn'.call # "deadline" /\ (enabled' => enabled /\ turn.call # "deadline")
  BY <1>0, <1>1 DEF Pending
<1>2. CASE UNCHANGED <<log, turn>> /\ (enabled' => enabled)
  BY <1>0, <1>2 DEF Pending
<1>3. CASE TrackExecution
  <2>1. PICK t \in Tasks, x \in ExecTimes :
           /\ t = turn.task /\ x = turn.exec_time /\ turn.call = "execution"
           /\ turn' = IF t \in Judging THEN [task |-> t, call |-> "deadline", exec_time |-> x] ELSE Idle
           /\ enabled' = enabled
           /\ \/ /\ enabled /\ Place(t) \in Entries
                 /\ log' = Append(log, [task |-> t, exec_time |-> x, judged |-> FALSE])
              \/ /\ ~(enabled /\ Place(t) \in Entries)
                 /\ UNCHANGED log
    BY <1>0, <1>3, ExecutionDoes
  <2>2. turn'.call = "deadline" => t \in Judging /\ turn'.task = t /\ turn'.exec_time = x
    BY <2>1 DEF Idle
  <2>3. CASE enabled /\ Place(t) \in Entries
    <3>1. /\ Len(log) \in Nat /\ Len(log') = Len(log) + 1
          /\ \A k \in 1 .. Len(log) : log'[k] = log[k] /\ log[k] \in Turn
          /\ log'[Len(log) + 1] = [task |-> t, exec_time |-> x, judged |-> FALSE]
      BY <1>0, <2>1, <2>3, LogGrows
    <3>2. ASSUME NEW k \in 1 .. Len(log')
          PROVE  k \in 1 .. Len(log) \/ k = Len(log) + 1
      BY <3>1
    <3>3. \A k \in 1 .. Len(log') : Place(log'[k].task) \in Entries
      BY <1>0, <2>3, <3>1, <3>2 DEF Pending
    <3>4. ASSUME NEW k \in 1 .. Len(log), log[k].task \in Judging
          PROVE  log[k].judged
      BY <1>0, <2>1, <2>3, <3>4 DEF Pending
    <3>5. t \in Judging => turn'.call = "deadline" /\ turn'.task = t
      BY <2>1
    <3>6. ASSUME NEW k \in 1 .. Len(log'), log'[k].task \in Judging, ~log'[k].judged
          PROVE  k = Len(log') /\ (enabled' => turn'.call = "deadline" /\ turn'.task = log'[k].task)
      BY <3>1, <3>2, <3>4, <3>5, <3>6
    <3>7. ASSUME turn'.call = "deadline"
          PROVE  /\ turn'.task \in Judging /\ Len(log') > 0
                 /\ log'[Len(log')] = [task |-> turn'.task, exec_time |-> turn'.exec_time,
                                       judged |-> FALSE]
      <4>1. turn'.task = t /\ turn'.exec_time = x /\ t \in Judging
        BY <2>2, <3>7
      <4>2. log'[Len(log')] = [task |-> t, exec_time |-> x, judged |-> FALSE] /\ Len(log') > 0
        BY <3>1
      <4> QED BY <4>1, <4>2, Zenon
    <3> QED BY <3>3, <3>6, <3>7 DEF Pending
  <2>4. CASE ~(enabled /\ Place(t) \in Entries)
    <3>1. UNCHANGED log
      BY <2>1, <2>4
    <3>2. ASSUME NEW k \in 1 .. Len(log), log[k].task \in Judging, ~log[k].judged
          PROVE  k = Len(log) /\ ~enabled
      BY <1>0, <2>1, <3>2 DEF Pending
    <3>3. \A k \in 1 .. Len(log) : Place(log[k].task) \in Entries
      BY <1>0 DEF Pending
    <3> QED BY <2>1, <2>2, <2>4, <3>1, <3>2, <3>3 DEF Pending
  <2> QED BY <2>3, <2>4
<1>4. CASE TrackDeadline
  <2>1. PICK t \in Tasks, x \in ExecTimes :
           /\ t = turn.task /\ x = turn.exec_time /\ turn.call = "deadline"
           /\ turn' = Idle /\ enabled' = enabled
           /\ \/ /\ enabled /\ Place(t) \in Entries
                 /\ log' = [log EXCEPT ![Len(log)].judged = TRUE]
              \/ /\ ~(enabled /\ Place(t) \in Entries)
                 /\ UNCHANGED log
    BY <1>0, <1>4, DeadlineDoes
  <2>2. turn'.call # "deadline"
    BY <2>1 DEF Idle
  <2>3. CASE enabled /\ Place(t) \in Entries
    <3>0. Len(log) > 0
      BY <1>0, <2>1, <2>3 DEF Pending
    <3>1. /\ Len(log) \in Nat \ {0} /\ Len(log') = Len(log)
          /\ \A k \in 1 .. Len(log) : log[k] \in Turn /\ (k # Len(log) => log'[k] = log[k])
          /\ log'[Len(log)] = [task |-> log[Len(log)].task, exec_time |-> log[Len(log)].exec_time,
                               judged |-> TRUE]
      BY <1>0, <2>1, <2>3, <3>0, LogJudged
    <3>2. \A k \in 1 .. Len(log') : log'[k].task = log[k].task
      BY <3>1
    <3>3. \A k \in 1 .. Len(log') : Place(log'[k].task) \in Entries
      BY <1>0, <3>1, <3>2 DEF Pending
    <3>4. ASSUME NEW k \in 1 .. Len(log'), log'[k].task \in Judging  PROVE log'[k].judged
      BY <1>0, <3>1, <3>4 DEF Pending
    <3> QED BY <2>2, <3>3, <3>4 DEF Pending
  <2>4. CASE ~(enabled /\ Place(t) \in Entries)
    <3>1. UNCHANGED log
      BY <2>1, <2>4
    <3>2. ASSUME NEW k \in 1 .. Len(log), log[k].task \in Judging, ~log[k].judged
          PROVE  k = Len(log) /\ ~enabled
      BY <1>0, <2>1, <2>4, <3>2 DEF Pending
    <3>3. \A k \in 1 .. Len(log) : Place(log[k].task) \in Entries
      BY <1>0 DEF Pending
    <3> QED BY <2>1, <2>2, <3>1, <3>2, <3>3 DEF Pending
  <2> QED BY <2>3, <2>4
<1>5. CASE RegisterItself \/ deadline_analyzer_stop \/ Exit \/ UNCHANGED vars
  BY <1>2, <1>5 DEF RegisterItself, deadline_analyzer_stop, Exit, vars, stats
<1>6. CASE \E t \in Tasks : BeginTurn(t)
  <2>1. UNCHANGED log /\ turn'.call # "deadline" /\ enabled' = enabled /\ turn.call # "deadline"
    BY <1>6 DEF BeginTurn, Idle
  <2> QED BY <1>1, <2>1
<1>7. CASE Analyse
  <2>1. turn \in [task : Tasks, call : {"update", "execution", "deadline"}, exec_time : ExecTimes]
    BY <1>0, <1>7 DEF Analyse, AnalyzerIInv, Idle
  <2>2. turn'.call = "execution"
    BY <1>7, <2>1 DEF Analyse
  <2>3. UNCHANGED log /\ turn'.call # "deadline" /\ enabled' = enabled /\ turn.call # "deadline"
    BY <1>7, <2>2 DEF Analyse
  <2> QED BY <1>1, <2>3
<1> QED BY <1>3, <1>4, <1>5, <1>6, <1>7 DEF Next

LEMMA TurnsInductive == Spec => []TurnsIInv
<1>1. Init => TurnsIInv
  BY InitHolds, LayoutStarts, PendingStarts DEF TurnsIInv
<1>2. TurnsIInv /\ [Next]_vars => TurnsIInv'
  <2> SUFFICES ASSUME TurnsIInv, [Next]_vars  PROVE TurnsIInv'
    OBVIOUS
  <2>1. AnalyzerIInv /\ Layout
    BY DEF TurnsIInv
  <2>2. AnalyzerIInv'
    BY <2>1, AnalyzerStep
  <2>3. Layout'
    BY <2>1, LayoutKept
  <2>4. Pending'
    BY <2>2, PendingKept
  <2> QED BY <2>2, <2>3, <2>4 DEF TurnsIInv
<1> QED BY <1>1, <1>2, PTL DEF Spec

-----------------------------------------------------------------------------
(* The history                                                             *)

Sample ==
  [task_id : Tasks, execution_time : ExecTimes, deadline_met : BOOLEAN, slack_time : Nat]

(* The sample s is of the turn r, and tells how it was judged.             *)
SampleOf(s, r) ==
  /\ s.task_id = r.task /\ s.execution_time = r.exec_time
  /\ r.judged => s.deadline_met = ~Missed(r) /\ s.slack_time = Slack(r.task, r.exec_time)

Latest ==
  /\ history \in Seq(Sample)
  /\ Len(history) = IF Len(log) < HistorySize THEN Len(log) ELSE HistorySize
  /\ \A i \in 1 .. Len(history) : SampleOf(history[i], log[Len(log) - Len(history) + i])

LEMMA LatestStarts == Init => Latest
<1> SUFFICES ASSUME Init  PROVE Latest
  OBVIOUS
<1>1. history = <<>> /\ log = <<>> /\ HistorySize \in Nat \ {0}
  BY AnalyzerAssumption DEF Init
<1> QED BY <1>1 DEF Latest

Reused(s, t, x) == [s EXCEPT !.task_id = t, !.execution_time = x]
WithMark(s, met, slack) == [s EXCEPT !.deadline_met = met, !.slack_time = slack]

LEMMA SampleReused ==
  ASSUME NEW s \in Sample, NEW t \in Tasks, NEW x \in ExecTimes
  PROVE  /\ Reused(s, t, x) \in Sample
         /\ Reused(s, t, x).task_id = t /\ Reused(s, t, x).execution_time = x
BY DEF Sample, Reused

LEMMA SampleMarked ==
  ASSUME NEW s \in Sample, NEW met, met \in BOOLEAN, NEW slack \in Nat
  PROVE  /\ WithMark(s, met, slack) \in Sample
         /\ WithMark(s, met, slack).task_id = s.task_id
         /\ WithMark(s, met, slack).execution_time = s.execution_time
         /\ WithMark(s, met, slack).deadline_met = met
         /\ WithMark(s, met, slack).slack_time = slack
BY DEF Sample, WithMark

(* A new turn: the history grows or rotates.                               *)
LEMMA RecordedIsLatest ==
  ASSUME AnalyzerIInv, Latest, NEW t \in Tasks, NEW x \in ExecTimes,
         log' = Append(log, [task |-> t, exec_time |-> x, judged |-> FALSE]),
         history' = Recorded(t, x)
  PROVE  Latest'
<1> DEFINE n == Len(log)
           m == Len(history)
<1>1. /\ n \in Nat /\ Len(log') = n + 1
      /\ \A k \in 1 .. n : log'[k] = log[k]
      /\ log'[n + 1] = [task |-> t, exec_time |-> x, judged |-> FALSE]
  BY LogGrows
<1>2. history \in Seq(Sample) /\ m \in Nat /\ HistorySize \in Nat \ {0}
  BY AnalyzerAssumption DEF Latest
<1>3. m = IF n < HistorySize THEN n ELSE HistorySize
  BY DEF Latest
<1>4. \A i \in 1 .. m : SampleOf(history[i], log[n - m + i])
  BY DEF Latest
<1>5. ASSUME NEW s, s.task_id = t, s.execution_time = x
      PROVE  SampleOf(s, log'[n + 1])
  BY <1>1, <1>5 DEF SampleOf
<1>6. CASE m < HistorySize
  <2>1. PICK s \in Sample :
          s = [task_id |-> t, execution_time |-> x, deadline_met |-> FALSE, slack_time |-> 0]
    BY DEF Sample
  <2>2. history' = Append(history, s)
    BY <1>6, <2>1 DEF Recorded
  <2>3. /\ history' \in Seq(Sample) /\ Len(history') = m + 1
        /\ \A i \in 1 .. m : history'[i] = history[i]
        /\ history'[m + 1] = s
    BY <1>2, <2>2, AppendProperties
  <2>4. m = n
    BY <1>1, <1>2, <1>3, <1>6
  <2>5. Len(history') = IF Len(log') < HistorySize THEN Len(log') ELSE HistorySize
    BY <1>1, <1>2, <1>6, <2>3, <2>4
  <2>6. ASSUME NEW i \in 1 .. Len(history')
        PROVE  SampleOf(history'[i], log'[Len(log') - Len(history') + i])
    <3>1. Len(log') - Len(history') + i = i
      BY <1>1, <2>3, <2>4
    <3>2. CASE i \in 1 .. m
      <4>1. n - m + i = i /\ history'[i] = history[i] /\ log'[i] = log[i]
        BY <1>1, <2>3, <2>4, <3>2
      <4>2. SampleOf(history[i], log[i])
        BY <1>4, <3>2, <4>1
      <4> QED BY <3>1, <4>1, <4>2
    <3>3. CASE i = m + 1
      <4>1. SampleOf(s, log'[n + 1])
        BY <1>5, <2>1
      <4> QED BY <2>3, <2>4, <3>1, <3>3, <4>1
    <3>4. i \in 1 .. m \/ i = m + 1
      BY <1>2, <2>3
    <3> QED BY <3>2, <3>3, <3>4
  <2> QED BY <2>3, <2>5, <2>6 DEF Latest
<1>7. CASE ~(m < HistorySize)
  <2>1. m = HistorySize /\ n >= m
    BY <1>1, <1>2, <1>3, <1>7
  <2>2. PICK h \in Sample : h = history[m]
    BY <1>2, <2>1, ElementOfSeq
  <2> DEFINE s == Reused(h, t, x)
  <2>3. s \in Sample /\ s.task_id = t /\ s.execution_time = x
    BY SampleReused
  <2>4. history' = Append(Tail(history), s)
    BY <1>7, <2>1, <2>2, <2>3 DEF Recorded, Reused
  <2> HIDE DEF s
  <2>5. /\ Tail(history) \in Seq(Sample) /\ Len(Tail(history)) = m - 1
        /\ \A i \in 1 .. m - 1 : Tail(history)[i] = history[i + 1]
    BY <1>2, <2>1, HeadTailProperties
  <2>6. /\ history' \in Seq(Sample) /\ Len(history') = m
        /\ \A i \in 1 .. m - 1 : history'[i] = history[i + 1]
        /\ history'[m] = s
    <3>1. \A i \in 1 .. m - 1 : i \in 1 .. Len(Tail(history))
      BY <2>5
    <3> QED BY <1>2, <2>1, <2>3, <2>4, <2>5, <3>1, AppendProperties
  <2>7. Len(history') = IF Len(log') < HistorySize THEN Len(log') ELSE HistorySize
    BY <1>1, <1>2, <2>1, <2>6
  <2>8. ASSUME NEW i \in 1 .. Len(history')
        PROVE  SampleOf(history'[i], log'[Len(log') - Len(history') + i])
    <3>1. CASE i < m
      <4>0. i \in Nat \ {0} /\ m \in Nat /\ n \in Nat /\ i < m /\ m <= n
        BY <1>1, <1>2, <2>1, <2>6, <3>1
      <4>1. /\ i + 1 \in 1 .. m /\ n - m + (i + 1) \in 1 .. n
            /\ Len(log') - Len(history') + i = n - m + (i + 1)
        <5>1. Len(log') = n + 1 /\ Len(history') = m
          BY <1>1, <2>6
        <5>2. /\ i + 1 \in 1 .. m /\ n - m + (i + 1) \in 1 .. n
              /\ n + 1 - m + i = n - m + (i + 1)
          <6> HIDE DEF n, m
          <6> QED BY <4>0
        <5> QED BY <5>1, <5>2
      <4>2. SampleOf(history[i + 1], log[n - m + (i + 1)])
        BY <1>4, <4>1
      <4>3. history'[i] = history[i + 1] /\ log'[n - m + (i + 1)] = log[n - m + (i + 1)]
        BY <1>1, <2>6, <3>1, <4>1
      <4> QED BY <4>1, <4>2, <4>3
    <3>2. CASE i = m
      <4>1. Len(log') - Len(history') + i = n + 1
        BY <1>1, <1>2, <2>6, <3>2
      <4>2. SampleOf(s, log'[n + 1])
        BY <1>5, <2>3
      <4> QED BY <2>6, <3>2, <4>1, <4>2
    <3>3. i < m \/ i = m
      BY <1>2, <2>6
    <3> QED BY <3>1, <3>2, <3>3
  <2> QED BY <2>6, <2>7, <2>8 DEF Latest
<1> QED BY <1>6, <1>7

(* The last sample is marked: it is the caller's.                          *)
LEMMA MarkedIsLatest ==
  ASSUME AnalyzerIInv, Latest, NEW t \in Tasks, NEW x \in ExecTimes,
         NEW met, met \in BOOLEAN, NEW slack \in Nat, met <=> x <= Deadline(t), slack = Slack(t, x),
         Len(log) > 0, log[Len(log)] = [task |-> t, exec_time |-> x, judged |-> FALSE],
         log' = [log EXCEPT ![Len(log)].judged = TRUE],
         history' = Marked(met, slack)
  PROVE  Latest'
<1> DEFINE n == Len(log)
           m == Len(history)
<1>1. /\ n \in Nat \ {0} /\ Len(log') = n
      /\ \A k \in 1 .. n : k # n => log'[k] = log[k]
      /\ log'[n] = [task |-> t, exec_time |-> x, judged |-> TRUE]
  BY LogJudged
<1>2. history \in Seq(Sample) /\ HistorySize \in Nat \ {0}
  BY AnalyzerAssumption DEF Latest
<1>3. m = IF n < HistorySize THEN n ELSE HistorySize
  BY DEF Latest
<1>4. m \in Nat \ {0} /\ m <= n
  BY <1>1, <1>2, <1>3
<1>5. \A i \in 1 .. m : history[i] \in Sample /\ SampleOf(history[i], log[n - m + i])
  BY <1>2, ElementOfSeq DEF Latest
<1>6a. PICK h \in Sample : h = history[m]
  BY <1>4, <1>5
<1> DEFINE s == WithMark(h, met, slack)
<1>6. /\ s \in Sample
      /\ s.task_id = h.task_id /\ s.execution_time = h.execution_time
      /\ s.deadline_met = met /\ s.slack_time = slack
  BY SampleMarked
<1>7. history' = [i \in 1 .. m |-> IF i = m THEN s ELSE history[i]]
  <2>1. DOMAIN history = 1 .. m
    BY <1>2
  <2>2. history' = [i \in 1 .. m |-> IF i = m THEN WithMark(history[i], met, slack) ELSE history[i]]
    BY <2>1 DEF Marked, WithMark
  <2>3. \A i \in 1 .. m : (IF i = m THEN WithMark(history[i], met, slack) ELSE history[i])
                            = (IF i = m THEN s ELSE history[i])
    BY <1>6a
  <2> HIDE DEF s
  <2> QED BY <2>2, <2>3
<1> HIDE DEF s
<1>8. history' \in Seq(Sample) /\ Len(history') = m
  <2>1. \A i \in 1 .. m : history'[i] \in Sample
    BY <1>5, <1>6, <1>7
  <2>2. history' \in [1 .. m -> Sample]
    BY <1>7, <2>1
  <2> QED BY <1>4, <2>2
<1>9. ASSUME NEW i \in 1 .. m
      PROVE  SampleOf(history'[i], log'[n - m + i])
  <2>1. CASE i # m
    <3>1. n - m + i \in 1 .. n /\ n - m + i # n
      BY <1>1, <1>4, <2>1
    <3>2. history'[i] = history[i] /\ log'[n - m + i] = log[n - m + i]
      BY <1>1, <1>7, <2>1, <3>1
    <3> QED BY <1>5, <3>2
  <2>2. CASE i = m
    <3>1. n - m + i = n
      BY <1>1, <1>4, <2>2
    <3>2. SampleOf(h, log[n])
      BY <1>5, <1>6a, <2>2, <3>1
    <3>3. s.task_id = t /\ s.execution_time = x
      BY <1>6, <3>2 DEF SampleOf
    <3>4. met <=> ~Missed(log'[n])
      <4>1. x \in Nat /\ Deadline(t) \in Nat
        BY AnalyzerAssumption DEF Deadline
      <4> QED BY <1>1, <4>1 DEF Missed
    <3>5. history'[i] = s
      BY <1>7, <2>2
    <3> QED BY <1>1, <1>6, <3>1, <3>3, <3>4, <3>5 DEF SampleOf
  <2> QED BY <2>1, <2>2
<1>10. \A i \in 1 .. Len(history') : SampleOf(history'[i], log'[Len(log') - Len(history') + i])
  BY <1>1, <1>8, <1>9
<1>11. Len(history') = IF Len(log') < HistorySize THEN Len(log') ELSE HistorySize
  BY <1>1, <1>3, <1>8
<1> QED BY <1>8, <1>10, <1>11 DEF Latest

LEMMA LatestKept == ASSUME TurnsIInv, Latest, [Next]_vars  PROVE Latest'
<1>0. AnalyzerIInv /\ Layout /\ Pending
  BY DEF TurnsIInv
<1>1. CASE UNCHANGED <<log, history>>
  BY <1>1 DEF Latest
<1>2. CASE TrackExecution
  BY <1>0, <1>1, <1>2, ExecutionDoes, RecordedIsLatest DEF stats
<1>3. CASE TrackDeadline
  <2>1. PICK t \in Tasks, x \in ExecTimes, met \in BOOLEAN, slack \in Nat :
           /\ t = turn.task /\ x = turn.exec_time /\ turn.call = "deadline"
           /\ met = (x <= Deadline(t)) /\ slack = Slack(t, x)
           /\ \/ /\ enabled /\ Place(t) \in Entries
                 /\ history' = Marked(met, slack)
                 /\ log' = [log EXCEPT ![Len(log)].judged = TRUE]
              \/ UNCHANGED <<stats, log>>
    BY <1>0, <1>3, DeadlineDoes
  <2>2. ASSUME enabled, Place(t) \in Entries
        PROVE  Len(log) > 0 /\ log[Len(log)] = [task |-> t, exec_time |-> x, judged |-> FALSE]
    BY <1>0, <2>1, <2>2 DEF Pending
  <2> QED BY <1>0, <1>1, <2>1, <2>2, MarkedIsLatest DEF stats
<1>4. CASE RegisterItself \/ (\E t \in Tasks : BeginTurn(t)) \/ Analyse
           \/ deadline_analyzer_stop \/ Exit \/ UNCHANGED vars
  BY <1>1, <1>4 DEF RegisterItself, BeginTurn, Analyse, deadline_analyzer_stop, Exit, vars, stats
<1> QED BY <1>2, <1>3, <1>4 DEF Next

(* The history holds the latest turns in their order with their own marks, *)
(* however large it is and however often it rotates: between the two calls *)
(* of a turn no other task gets to add a sample.                           *)
THEOREM HistoryKeepsLatest == Spec => []HistoryIsLatest
<1>1. Init => Latest
  BY LatestStarts
<1>2. TurnsIInv /\ Latest /\ [Next]_vars => Latest'
  BY LatestKept
<1>3. TurnsIInv /\ Latest => HistoryIsLatest
  <2> SUFFICES ASSUME TurnsIInv, Latest  PROVE HistoryIsLatest
    OBVIOUS
  <2>1. Len(log) \in Nat /\ HistorySize \in Nat \ {0} /\ Len(history) \in Nat
    BY AnalyzerAssumption DEF TurnsIInv, AnalyzerIInv, Latest
  <2>2. Len(history) = IF Len(log) < HistorySize THEN Len(log) ELSE HistorySize
    BY DEF Latest
  <2>3. Min({Len(log), HistorySize}) = Len(history)
    BY <2>1, <2>2 DEF Min
  <2>4. ASSUME NEW i \in DOMAIN history
        PROVE  LET r == log[Len(log) - Len(history) + i]
               IN  /\ history[i].task_id = r.task /\ history[i].execution_time = r.exec_time
                   /\ r.task \in Judging /\ (i < Len(history) \/ r.judged) =>
                        /\ history[i].deadline_met = ~Missed(r)
                        /\ history[i].slack_time = Slack(r.task, r.exec_time)
    <3>1. i \in 1 .. Len(history)
      BY DEF Latest
    <3>2. SampleOf(history[i], log[Len(log) - Len(history) + i])
      BY <3>1 DEF Latest
    <3>3. ASSUME i < Len(history), log[Len(log) - Len(history) + i].task \in Judging
          PROVE  log[Len(log) - Len(history) + i].judged
      <4>1. PICK k \in 1 .. Len(log) : k = Len(log) - Len(history) + i /\ k # Len(log)
        BY <2>1, <2>2, <3>1, <3>3
      <4> QED BY <3>3, <4>1 DEF TurnsIInv, Pending
    <3> QED BY <3>2, <3>3 DEF SampleOf
  <2> QED BY <2>3, <2>4 DEF HistoryIsLatest
<1> QED BY <1>1, <1>2, <1>3, TurnsInductive, PTL DEF Spec

-----------------------------------------------------------------------------
(* Sums                                                                    *)

(* A set of subsets of a finite set that is not empty has one that has no  *)
(* other inside it.                                                        *)
LEMMA SmallestSubset ==
  ASSUME NEW E, IsFiniteSet(E), NEW T, T \subseteq SUBSET E, T # {}
  PROVE  \E s \in T : \A u \in T : u \subseteq s => u = s
<1>1. IsWellFoundedOn(StrictSubsetOrdering(E), SUBSET E)
  BY FS_StrictSubsetOrderingWellFounded, FS_FiniteSubsetsOfFinite
<1>2. PICK s \in T : \A u \in T : ~(<<u, s>> \in StrictSubsetOrdering(E))
  BY <1>1, WFMin
<1>3. ASSUME NEW u \in T, u \subseteq s, u # s  PROVE FALSE
  <2>1. <<u, s>> \in StrictSubsetOrdering(E)
    BY <1>3 DEF StrictSubsetOrdering
  <2> QED BY <1>2, <2>1
<1> QED BY <1>3

(* h is the sum of f over every subset of E: any element can be taken out. *)
Sums(h, E, f) ==
  /\ h \in [SUBSET E -> Nat]
  /\ h[{}] = 0
  /\ \A s \in SUBSET E : \A x \in s : h[s] = f[x] + h[s \ {x}]

LEMMA SumsExist ==
  ASSUME NEW E, IsFiniteSet(E), NEW f \in [E -> Nat]
  PROVE  \E h : Sums(h, E, f)
<1> DEFINE T == {s \in SUBSET E : ~ \E h : Sums(h, s, f)}
<1> SUFFICES ASSUME T # {}  PROVE FALSE
  <2>1. E \in SUBSET E
    OBVIOUS
  <2> QED BY <2>1
<1>0. T \subseteq SUBSET E
  OBVIOUS
<1>1. PICK s \in T : \A u \in T : u \subseteq s => u = s
  <2> HIDE DEF T
  <2> QED BY <1>0, SmallestSubset
<1>2. CASE s = {}
  <2>1. SUBSET s = {{}}
    BY <1>2
  <2>2. [u \in SUBSET s |-> 0] \in [SUBSET s -> Nat] /\ {} \in SUBSET s
    OBVIOUS
  <2>3. Sums([u \in SUBSET s |-> 0], s, f)
    BY <2>1, <2>2 DEF Sums
  <2> QED BY <1>1, <2>3
<1>3. ASSUME NEW x \in s  PROVE FALSE
  <2>1. s \ {x} \in SUBSET E /\ s \ {x} \notin T
    BY <1>1, <1>3
  <2>2. PICK h : Sums(h, s \ {x}, f)
    BY <2>1
  <2>3. /\ h \in [SUBSET (s \ {x}) -> Nat] /\ h[{}] = 0
        /\ \A u \in SUBSET (s \ {x}) : \A y \in u : h[u] = f[y] + h[u \ {y}]
    BY <2>2 DEF Sums
  <2>4. \A y \in s : f[y] \in Nat
    BY <1>1
  <2> DEFINE g == [u \in SUBSET s |-> IF x \in u THEN f[x] + h[u \ {x}] ELSE h[u]]
  <2>5. ASSUME NEW u \in SUBSET s
        PROVE  u \ {x} \in SUBSET (s \ {x}) /\ (x \notin u => u \in SUBSET (s \ {x}))
    OBVIOUS
  <2>6. g \in [SUBSET s -> Nat]
    <3>1. ASSUME NEW u \in SUBSET s
          PROVE  (IF x \in u THEN f[x] + h[u \ {x}] ELSE h[u]) \in Nat
      <4>1. u \ {x} \in SUBSET (s \ {x}) /\ (x \notin u => u \in SUBSET (s \ {x}))
        BY <2>5
      <4>2. h[u \ {x}] \in Nat /\ (x \notin u => h[u] \in Nat) /\ f[x] \in Nat
        BY <1>3, <2>3, <2>4, <4>1
      <4> QED BY <4>2
    <3> QED BY <3>1
  <2>7. g[{}] = 0
    BY <2>3
  <2>8. ASSUME NEW u \in SUBSET s, NEW y \in u
        PROVE  g[u] = f[y] + g[u \ {y}]
    <3>1. CASE x \notin u
      <4>1. u \in SUBSET (s \ {x}) /\ u \ {y} \in SUBSET s /\ x \notin u \ {y}
        BY <3>1
      <4> QED BY <2>3, <3>1, <4>1
    <3>2. CASE x \in u /\ y = x
      <4>1. u \ {y} \in SUBSET s /\ x \notin u \ {y}
        BY <3>2
      <4> QED BY <3>2, <4>1
    <3>3. CASE x \in u /\ y # x
      <4>1. /\ u \ {y} \in SUBSET s /\ x \in u \ {y}
            /\ u \ {x} \in SUBSET (s \ {x}) /\ y \in u \ {x}
            /\ (u \ {y}) \ {x} = (u \ {x}) \ {y}
        BY <3>3
      <4>2. h[u \ {x}] = f[y] + h[(u \ {x}) \ {y}]
        BY <2>3, <4>1
      <4>3. g[u] = f[x] + h[u \ {x}] /\ g[u \ {y}] = f[x] + h[(u \ {x}) \ {y}]
        BY <3>3, <4>1
      <4>4. f[x] \in Nat /\ f[y] \in Nat /\ h[(u \ {x}) \ {y}] \in Nat
        BY <2>3, <2>4, <4>1
      <4> HIDE DEF g
      <4> QED BY <4>2, <4>3, <4>4
    <3> QED BY <3>1, <3>2, <3>3
  <2>9. Sums(g, s, f)
    <3> HIDE DEF g
    <3> QED BY <2>6, <2>7, <2>8 DEF Sums
  <2> QED BY <1>1, <2>9
<1> QED BY <1>2, <1>3

(* SumFunction computes that sum.                                          *)
LEMMA SumFunctionIs ==
  ASSUME NEW E, IsFiniteSet(E), NEW f \in [E -> Nat], NEW h, Sums(h, E, f)
  PROVE  SumFunction(f) = h[E]
<1> DEFINE Rec(g, s) == IF s = {} THEN 0
                        ELSE f[CHOOSE x \in s : TRUE] + g[s \ {CHOOSE x \in s : TRUE}]
           iter == CHOOSE g : g = [s \in SUBSET E |-> Rec(g, s)]
<1>1. SumFunction(f) = iter[E]
  <2>1. DOMAIN f = E
    OBVIOUS
  <2> QED BY <2>1 DEF SumFunction, SumFunctionOnSet, FoldFunctionOnSet, MapThenFoldSet
<1>2. h = [s \in SUBSET E |-> Rec(h, s)]
  <2>1. h \in [SUBSET E -> Nat] /\ h[{}] = 0
    BY DEF Sums
  <2>2. ASSUME NEW s \in SUBSET E  PROVE h[s] = Rec(h, s)
    <3>1. CASE s = {}
      BY <2>1, <3>1
    <3>2. CASE s # {}
      <4>1. PICK y \in s : y = CHOOSE x \in s : TRUE
        BY <3>2
      <4>2. h[s] = f[y] + h[s \ {y}]
        BY DEF Sums
      <4> QED BY <3>2, <4>1, <4>2
    <3> QED BY <3>1, <3>2
  <2> HIDE DEF Rec
  <2> QED BY <2>1, <2>2
<1>3. iter = [s \in SUBSET E |-> Rec(iter, s)]
  <2> HIDE DEF Rec
  <2> QED BY <1>2
<1>4. ASSUME NEW s \in SUBSET E  PROVE iter[s] = h[s]
  <2> DEFINE T == {u \in SUBSET E : iter[u] # h[u]}
  <2> SUFFICES ASSUME T # {}  PROVE FALSE
    OBVIOUS
  <2>0. T \subseteq SUBSET E
    OBVIOUS
  <2>1. PICK u \in T : \A v \in T : v \subseteq u => v = u
    <3> HIDE DEF T
    <3> QED BY <2>0, SmallestSubset
  <2>2. iter[u] = Rec(iter, u) /\ h[u] = Rec(h, u)
    <3> HIDE DEF iter, Rec
    <3> QED BY <1>2, <1>3
  <2>3. u # {}
    BY <2>1, <2>2
  <2>4. PICK y \in u : y = CHOOSE x \in u : TRUE
    BY <2>3
  <2>5. u \ {y} \in SUBSET E /\ u \ {y} \notin T
    BY <2>1, <2>4
  <2>6. iter[u \ {y}] = h[u \ {y}]
    BY <2>5
  <2> HIDE DEF iter
  <2> QED BY <2>1, <2>2, <2>3, <2>4, <2>6
<1>5. E \in SUBSET E
  OBVIOUS
<1> HIDE DEF iter
<1> QED BY <1>1, <1>4, <1>5

(* The sum is a number, and follows a change of one value.                 *)
LEMMA SumChanges ==
  ASSUME NEW E, IsFiniteSet(E), NEW f \in [E -> Nat], NEW g \in [E -> Nat], NEW i \in E,
         \A x \in E : x # i => g[x] = f[x]
  PROVE  /\ SumFunction(f) \in Nat /\ SumFunction(g) \in Nat
         /\ SumFunction(g) + f[i] = SumFunction(f) + g[i]
<1>1. PICK h : Sums(h, E, f)
  BY SumsExist
<1>2. PICK k : Sums(k, E, g)
  BY SumsExist
<1>3. SumFunction(f) = h[E] /\ SumFunction(g) = k[E]
  BY <1>1, <1>2, SumFunctionIs
<1>4. ASSUME NEW s \in SUBSET E, i \notin s  PROVE h[s] = k[s]
  <2> DEFINE T == {u \in SUBSET E : i \notin u /\ h[u] # k[u]}
  <2> SUFFICES ASSUME T # {}  PROVE FALSE
    BY <1>4
  <2>0. T \subseteq SUBSET E
    OBVIOUS
  <2>1. PICK u \in T : \A v \in T : v \subseteq u => v = u
    <3> HIDE DEF T
    <3> QED BY <2>0, SmallestSubset
  <2>2. u # {}
    BY <1>1, <1>2, <2>1 DEF Sums
  <2>3. PICK y \in u : TRUE
    BY <2>2
  <2>4. u \ {y} \in SUBSET E /\ u \ {y} \notin T /\ i \notin u /\ y \in E
    BY <2>1, <2>3
  <2>5. h[u \ {y}] = k[u \ {y}] /\ f[y] = g[y]
    BY <2>4
  <2>6. h[u] = f[y] + h[u \ {y}] /\ k[u] = g[y] + k[u \ {y}]
    BY <1>1, <1>2 DEF Sums
  <2> QED BY <2>1, <2>5, <2>6
<1>5. h[E] = f[i] + h[E \ {i}] /\ k[E] = g[i] + k[E \ {i}]
  BY <1>1, <1>2 DEF Sums
<1>6. h[E \ {i}] = k[E \ {i}]
  BY <1>4
<1>7. h[E] \in Nat /\ k[E] \in Nat /\ h[E \ {i}] \in Nat /\ f[i] \in Nat /\ g[i] \in Nat
  BY <1>1, <1>2 DEF Sums
<1> QED BY <1>3, <1>5, <1>6, <1>7

LEMMA SumOfZeros ==
  ASSUME NEW E, IsFiniteSet(E), NEW f \in [E -> Nat], \A x \in E : f[x] = 0
  PROVE  SumFunction(f) = 0
<1>1. PICK h : Sums(h, E, f)
  BY SumsExist
<1> DEFINE T == {u \in SUBSET E : h[u] # 0}
<1>2. ASSUME T # {}  PROVE FALSE
  <2>0. T \subseteq SUBSET E
    OBVIOUS
  <2>1. PICK u \in T : \A v \in T : v \subseteq u => v = u
    <3> HIDE DEF T
    <3> QED BY <1>2, <2>0, SmallestSubset
  <2>2. u # {}
    BY <1>1, <2>1 DEF Sums
  <2>3. PICK y \in u : TRUE
    BY <2>2
  <2>4. u \ {y} \in SUBSET E /\ u \ {y} \notin T
    BY <2>1, <2>3
  <2>5. h[u] = f[y] + h[u \ {y}] /\ f[y] = 0
    BY <1>1 DEF Sums
  <2> QED BY <2>1, <2>4, <2>5
<1>3. E \in SUBSET E
  OBVIOUS
<1> QED BY <1>1, <1>2, <1>3, SumFunctionIs

-----------------------------------------------------------------------------
(* The totals                                                              *)

LEMMA EntriesFinite == IsFiniteSet(Entries)
  BY FS_Interval, AnalyzerAssumption DEF Entries

Executions == [i \in Entries |-> tasks[i].total_executions]
Misses == [i \in Entries |-> tasks[i].deadline_misses]

(* The entries count what the log shows, so that recounting them changes   *)
(* nothing.                                                                *)
Counted ==
  /\ total_executions = Len(log)
  /\ total_deadline_misses = Cardinality(MissedTurns)
  /\ SumFunction(Executions) = Len(log)
  /\ SumFunction(Misses) = Cardinality(MissedTurns)

LEMMA CountTypes ==
  ASSUME AnalyzerIInv
  PROVE  Executions \in [Entries -> Nat] /\ Misses \in [Entries -> Nat]
  BY DEF AnalyzerIInv, EntryType, Executions, Misses

LEMMA MissedFinite ==
  ASSUME AnalyzerIInv
  PROVE  IsFiniteSet(MissedTurns) /\ Cardinality(MissedTurns) \in Nat
<1>1. Len(log) \in Nat /\ DOMAIN log = 1 .. Len(log)
  BY DEF AnalyzerIInv
<1>2. MissedTurns \subseteq 1 .. Len(log)
  BY <1>1 DEF MissedTurns
<1>3. IsFiniteSet(1 .. Len(log))
  BY <1>1, FS_Interval
<1> QED BY <1>2, <1>3, FS_Subset, FS_CardinalityType

LEMMA CountedStarts == Init => Counted
<1> SUFFICES ASSUME Init  PROVE Counted
  OBVIOUS
<1>1. log = <<>> /\ total_executions = 0 /\ total_deadline_misses = 0
  BY DEF Init
<1>2. MissedTurns = {}
  BY <1>1 DEF MissedTurns
<1>3. Cardinality(MissedTurns) = 0
  BY <1>2, FS_EmptySet
<1>4. ASSUME NEW i \in Entries
      PROVE  tasks[i].total_executions = 0 /\ tasks[i].deadline_misses = 0
  <2>1. CASE i <= 3
    <3>1. tasks[i] = RegisteredEntry(<<Control, PerfMonitor, Telemetry>>[i], 0)
      BY <2>1 DEF Init
    <3> QED BY <3>1 DEF RegisteredEntry, NewEntry
  <2>2. CASE ~(i <= 3)
    <3>1. tasks[i] = FreeEntry
      BY <2>2 DEF Init
    <3> QED BY <3>1 DEF FreeEntry, NewEntry
  <2> QED BY <2>1, <2>2
<1>5. /\ Executions \in [Entries -> Nat] /\ \A i \in Entries : Executions[i] = 0
      /\ Misses \in [Entries -> Nat] /\ \A i \in Entries : Misses[i] = 0
  BY <1>4 DEF Executions, Misses
<1>6. SumFunction(Executions) = 0 /\ SumFunction(Misses) = 0
  BY <1>5, EntriesFinite, SumOfZeros
<1> QED BY <1>1, <1>3, <1>6 DEF Counted

(* One entry of the table changes.                                         *)
LEMMA EntryChanges ==
  ASSUME AnalyzerIInv, AnalyzerIInv', NEW i \in Entries, NEW e,
         tasks' = [tasks EXCEPT ![i] = e]
  PROVE  /\ SumFunction(Executions)' \in Nat /\ SumFunction(Executions) \in Nat
         /\ SumFunction(Misses)' \in Nat /\ SumFunction(Misses) \in Nat
         /\ SumFunction(Executions)' + tasks[i].total_executions =
              SumFunction(Executions) + e.total_executions
         /\ SumFunction(Misses)' + tasks[i].deadline_misses =
              SumFunction(Misses) + e.deadline_misses
<1>1. /\ Executions \in [Entries -> Nat] /\ Misses \in [Entries -> Nat]
      /\ Executions' \in [Entries -> Nat] /\ Misses' \in [Entries -> Nat]
  BY CountTypes DEF AnalyzerIInv, EntryType, Executions, Misses
<1>2. \A j \in Entries : j # i => tasks'[j] = tasks[j]
  BY DEF AnalyzerIInv
<1>3. tasks'[i] = e
  BY DEF AnalyzerIInv
<1>4. /\ \A j \in Entries : j # i => Executions'[j] = Executions[j] /\ Misses'[j] = Misses[j]
      /\ Executions[i] = tasks[i].total_executions /\ Executions'[i] = e.total_executions
      /\ Misses[i] = tasks[i].deadline_misses /\ Misses'[i] = e.deadline_misses
  BY <1>2, <1>3 DEF Executions, Misses
<1>5. ASSUME NEW f \in [Entries -> Nat], NEW g \in [Entries -> Nat],
             \A x \in Entries : x # i => g[x] = f[x]
      PROVE  /\ SumFunction(f) \in Nat /\ SumFunction(g) \in Nat
             /\ SumFunction(g) + f[i] = SumFunction(f) + g[i]
  BY <1>5, EntriesFinite, SumChanges
<1>6. /\ SumFunction(Executions) \in Nat /\ SumFunction(Executions') \in Nat
      /\ SumFunction(Executions') + Executions[i] = SumFunction(Executions) + Executions'[i]
  BY <1>1, <1>4, <1>5
<1>7. /\ SumFunction(Misses) \in Nat /\ SumFunction(Misses') \in Nat
      /\ SumFunction(Misses') + Misses[i] = SumFunction(Misses) + Misses'[i]
  BY <1>1, <1>4, <1>5
<1> QED BY <1>4, <1>6, <1>7

LEMMA CountedKept ==
  ASSUME TurnsIInv, AnalyzerIInv', Counted, [Next]_vars  PROVE Counted'
<1>0. AnalyzerIInv /\ Layout /\ Pending
  BY DEF TurnsIInv
<1>1. IsFiniteSet(MissedTurns) /\ Cardinality(MissedTurns) \in Nat
  BY <1>0, MissedFinite
<1>2. CASE UNCHANGED <<log, stats>>
  BY <1>2 DEF Counted, stats, Executions, Misses, MissedTurns, Missed
<1>3. CASE TrackExecution
  <2>1. PICK t \in Tasks, x \in ExecTimes :
           \/ /\ Place(t) \in Entries
              /\ tasks' = [tasks EXCEPT ![Place(t)] = WithExecution(tasks[Place(t)], x)]
              /\ total_executions' = total_executions + 1
              /\ log' = Append(log, [task |-> t, exec_time |-> x, judged |-> FALSE])
              /\ UNCHANGED total_deadline_misses
           \/ UNCHANGED <<log, stats>>
    BY <1>0, <1>3, ExecutionDoes
  <2>2. ASSUME Place(t) \in Entries,
               tasks' = [tasks EXCEPT ![Place(t)] = WithExecution(tasks[Place(t)], x)],
               total_executions' = total_executions + 1,
               log' = Append(log, [task |-> t, exec_time |-> x, judged |-> FALSE]),
               UNCHANGED total_deadline_misses
        PROVE  Counted'
    <3>1. /\ Len(log) \in Nat /\ Len(log') = Len(log) + 1
          /\ \A k \in 1 .. Len(log) : log'[k] = log[k]
          /\ log'[Len(log) + 1] = [task |-> t, exec_time |-> x, judged |-> FALSE]
      BY <1>0, <2>2, LogGrows
    <3>2. DOMAIN log = 1 .. Len(log) /\ DOMAIN log' = 1 .. Len(log) + 1
      <4>1. DOMAIN log = 1 .. Len(log)
        BY <1>0 DEF AnalyzerIInv
      <4>2. DOMAIN log' = 1 .. Len(log')
        BY DEF AnalyzerIInv
      <4> QED BY <3>1, <4>1, <4>2
    <3>3. MissedTurns' = MissedTurns
      <4>1. MissedTurns' = {k \in 1 .. Len(log) + 1 : log'[k].judged /\ Missed(log'[k])}
        BY <3>2 DEF MissedTurns, Missed
      <4>2. ASSUME NEW k \in 1 .. Len(log) + 1, log'[k].judged
            PROVE  k \in 1 .. Len(log)
        BY <3>1, <4>2
      <4>3. MissedTurns = {k \in 1 .. Len(log) : log[k].judged /\ Missed(log[k])}
        BY <3>2 DEF MissedTurns
      <4>4. 1 .. Len(log) \subseteq 1 .. Len(log) + 1
        BY <3>1
      <4> QED BY <3>1, <4>1, <4>2, <4>3, <4>4
    <3>4. PICK e : e = WithExecution(tasks[Place(t)], x)
      OBVIOUS
    <3>5. tasks[Place(t)] \in EntryType
      BY <1>0, <2>2 DEF AnalyzerIInv
    <3>6. /\ e.total_executions = tasks[Place(t)].total_executions + 1
          /\ e.deadline_misses = tasks[Place(t)].deadline_misses
      BY <3>4, <3>5, ExecutionFields
    <3>7. tasks' = [tasks EXCEPT ![Place(t)] = e]
      BY <2>2, <3>4
    <3>8. /\ SumFunction(Executions)' \in Nat /\ SumFunction(Executions) \in Nat
          /\ SumFunction(Misses)' \in Nat /\ SumFunction(Misses) \in Nat
          /\ SumFunction(Executions)' + tasks[Place(t)].total_executions =
               SumFunction(Executions) + e.total_executions
          /\ SumFunction(Misses)' + tasks[Place(t)].deadline_misses =
               SumFunction(Misses) + e.deadline_misses
      BY <1>0, <2>2, <3>7, EntryChanges
    <3>9. tasks[Place(t)].total_executions \in Nat /\ tasks[Place(t)].deadline_misses \in Nat
      BY <3>5 DEF EntryType
    <3>10. /\ SumFunction(Executions)' = SumFunction(Executions) + 1
           /\ SumFunction(Misses)' = SumFunction(Misses)
      BY <3>6, <3>8, <3>9
    <3>11. Cardinality(MissedTurns)' = Cardinality(MissedTurns)
      BY <3>3
    <3> QED BY <2>2, <3>1, <3>10, <3>11 DEF Counted
  <2> QED BY <1>2, <2>1, <2>2
<1>4. CASE TrackDeadline
  <2>1. PICK t \in Tasks, x \in ExecTimes, met \in BOOLEAN, slack \in Nat :
           /\ t = turn.task /\ x = turn.exec_time /\ turn.call = "deadline"
           /\ met <=> x <= Deadline(t)
           /\ \/ /\ enabled /\ Place(t) \in Entries
                 /\ tasks' = [tasks EXCEPT ![Place(t)] = WithDeadline(tasks[Place(t)], met, slack)]
                 /\ total_deadline_misses' = total_deadline_misses + (IF met THEN 0 ELSE 1)
                 /\ log' = [log EXCEPT ![Len(log)].judged = TRUE]
                 /\ UNCHANGED total_executions
              \/ UNCHANGED <<log, stats>>
    BY <1>0, <1>4, DeadlineDoes
  <2>2. ASSUME enabled, Place(t) \in Entries,
               tasks' = [tasks EXCEPT ![Place(t)] = WithDeadline(tasks[Place(t)], met, slack)],
               total_deadline_misses' = total_deadline_misses + (IF met THEN 0 ELSE 1),
               log' = [log EXCEPT ![Len(log)].judged = TRUE],
               UNCHANGED total_executions
        PROVE  Counted'
    <3>1. Len(log) > 0 /\ log[Len(log)] = [task |-> t, exec_time |-> x, judged |-> FALSE]
      BY <1>0, <2>1, <2>2 DEF Pending
    <3>2. /\ Len(log) \in Nat \ {0} /\ Len(log') = Len(log)
          /\ \A k \in 1 .. Len(log) : k # Len(log) => log'[k] = log[k]
          /\ log'[Len(log)] = [task |-> t, exec_time |-> x, judged |-> TRUE]
      BY <1>0, <2>2, <3>1, LogJudged
    <3>3. DOMAIN log = 1 .. Len(log) /\ DOMAIN log' = 1 .. Len(log)
      <4>1. DOMAIN log = 1 .. Len(log)
        BY <1>0 DEF AnalyzerIInv
      <4>2. DOMAIN log' = 1 .. Len(log')
        BY DEF AnalyzerIInv
      <4> QED BY <3>2, <4>1, <4>2
    <3>4. Missed(log'[Len(log)]) <=> ~met
      <4>1. x \in Nat /\ Deadline(t) \in Nat
        BY AnalyzerAssumption DEF Deadline
      <4> QED BY <2>1, <3>2, <4>1 DEF Missed
    <3>5. /\ met => MissedTurns' = MissedTurns
          /\ ~met => MissedTurns' = MissedTurns \cup {Len(log)}
      <4>1. MissedTurns' = {k \in 1 .. Len(log) : log'[k].judged /\ Missed(log'[k])}
        BY <3>3 DEF MissedTurns, Missed
      <4>2. MissedTurns = {k \in 1 .. Len(log) : log[k].judged /\ Missed(log[k])}
        BY <3>3 DEF MissedTurns
      <4>3. ASSUME NEW k \in 1 .. Len(log), k # Len(log)
            PROVE  k \in MissedTurns' <=> k \in MissedTurns
        BY <3>2, <4>1, <4>2, <4>3
      <4>4. Len(log) \notin MissedTurns /\ (Len(log) \in MissedTurns' <=> ~met)
        BY <3>1, <3>2, <3>4, <4>1, <4>2
      <4>5. MissedTurns \subseteq 1 .. Len(log) /\ MissedTurns' \subseteq 1 .. Len(log)
        BY <4>1, <4>2
      <4>6. Len(log) \in 1 .. Len(log)
        BY <3>2
      <4>7. ASSUME met  PROVE MissedTurns' = MissedTurns
        <5>1. \A k \in 1 .. Len(log) : k \in MissedTurns' <=> k \in MissedTurns
          BY <4>3, <4>4, <4>7
        <5> QED BY <4>5, <5>1
      <4>8. ASSUME ~met  PROVE MissedTurns' = MissedTurns \cup {Len(log)}
        BY <4>3, <4>4, <4>5, <4>6, <4>8
      <4> QED BY <4>7, <4>8
    <3>6. Cardinality(MissedTurns)' = Cardinality(MissedTurns) + (IF met THEN 0 ELSE 1)
      <4>1. Len(log) \notin MissedTurns
        BY <3>1 DEF MissedTurns
      <4>2. Cardinality(MissedTurns \cup {Len(log)}) = Cardinality(MissedTurns) + 1
        BY <1>1, <4>1, FS_AddElement
      <4>3. CASE met
        BY <1>1, <3>5, <4>3
      <4>4. CASE ~met
        BY <3>5, <4>2, <4>4
      <4> QED BY <4>3, <4>4
    <3>7. PICK e : e = WithDeadline(tasks[Place(t)], met, slack)
      OBVIOUS
    <3>8. tasks[Place(t)] \in EntryType
      BY <1>0, <2>2 DEF AnalyzerIInv
    <3>9. tasks[Place(t)].total_executions \in Nat /\ tasks[Place(t)].deadline_misses \in Nat
      BY <3>8 DEF EntryType
    <3>10. /\ e.total_executions = tasks[Place(t)].total_executions
           /\ e.deadline_misses = tasks[Place(t)].deadline_misses + (IF met THEN 0 ELSE 1)
      BY <3>7, <3>8, <3>9, DeadlineFields
    <3>11. tasks' = [tasks EXCEPT ![Place(t)] = e]
      BY <2>2, <3>7
    <3>12. /\ SumFunction(Executions)' \in Nat /\ SumFunction(Executions) \in Nat
           /\ SumFunction(Misses)' \in Nat /\ SumFunction(Misses) \in Nat
           /\ SumFunction(Executions)' + tasks[Place(t)].total_executions =
                SumFunction(Executions) + e.total_executions
           /\ SumFunction(Misses)' + tasks[Place(t)].deadline_misses =
                SumFunction(Misses) + e.deadline_misses
      BY <1>0, <2>2, <3>11, EntryChanges
    <3>13. /\ SumFunction(Executions)' = SumFunction(Executions)
           /\ SumFunction(Misses)' = SumFunction(Misses) + (IF met THEN 0 ELSE 1)
      BY <3>9, <3>10, <3>12
    <3> QED BY <2>2, <3>2, <3>6, <3>13 DEF Counted
  <2> QED BY <1>2, <2>1, <2>2
<1>5. CASE RegisterItself
  <2>1. UNCHANGED <<log, total_executions, total_deadline_misses>>
    BY <1>5 DEF RegisterItself
  <2>2. ASSUME NEW i \in Entries, i > 3,
               tasks' = [tasks EXCEPT ![i] = RegisteredEntry(PerfMonitor, PerfPeriod)]
        PROVE  Counted'
    <3>1. tasks[i].total_executions = 0 /\ tasks[i].deadline_misses = 0
      BY <1>0, <2>2 DEF Layout, Unused
    <3>2. PICK e : e = RegisteredEntry(PerfMonitor, PerfPeriod)
      OBVIOUS
    <3>3. e.total_executions = 0 /\ e.deadline_misses = 0
      BY <3>2 DEF RegisteredEntry, NewEntry
    <3>4. tasks' = [tasks EXCEPT ![i] = e]
      BY <2>2, <3>2
    <3>5. /\ SumFunction(Executions)' \in Nat /\ SumFunction(Executions) \in Nat
          /\ SumFunction(Misses)' \in Nat /\ SumFunction(Misses) \in Nat
          /\ SumFunction(Executions)' + tasks[i].total_executions =
               SumFunction(Executions) + e.total_executions
          /\ SumFunction(Misses)' + tasks[i].deadline_misses =
               SumFunction(Misses) + e.deadline_misses
      BY <1>0, <3>4, EntryChanges
    <3>6. /\ SumFunction(Executions)' = SumFunction(Executions)
          /\ SumFunction(Misses)' = SumFunction(Misses)
      BY <3>1, <3>3, <3>5
    <3>7. Cardinality(MissedTurns)' = Cardinality(MissedTurns)
      BY <2>1 DEF MissedTurns, Missed
    <3> QED BY <2>1, <3>6, <3>7 DEF Counted
  <2>3. CASE UNCHANGED tasks
    BY <2>1, <2>3 DEF Counted, Executions, Misses, MissedTurns, Missed
  <2> QED BY <1>0, <1>5, <2>2, <2>3, RegisteredPlace
<1>6. CASE Analyse
  <2>1. UNCHANGED <<log, tasks>> /\ deadline_analyzer_update
    BY <1>6 DEF Analyse
  <2>2. \/ /\ total_executions' = SumFunction(Executions)
           /\ total_deadline_misses' = SumFunction(Misses)
        \/ UNCHANGED <<total_executions, total_deadline_misses>>
    BY <2>1 DEF deadline_analyzer_update, Executions, Misses
  <2>3. total_executions' = total_executions /\ total_deadline_misses' = total_deadline_misses
    BY <2>2 DEF Counted
  <2> QED BY <2>1, <2>3 DEF Counted, Executions, Misses, MissedTurns, Missed
<1>7. CASE (\E t \in Tasks : BeginTurn(t)) \/ deadline_analyzer_stop \/ Exit \/ UNCHANGED vars
  BY <1>2, <1>7 DEF BeginTurn, deadline_analyzer_stop, Exit, vars
<1> QED BY <1>3, <1>4, <1>5, <1>6, <1>7 DEF Next

(* The counts of the whole system are exact between two analyses and after *)
(* one, for any number of entries: no turn counts twice, in the two entries*)
(* of PerfMonitor or when update counts again.                             *)
THEOREM TotalsAreExact == Spec => []TotalsExact
<1>1. Init => Counted
  BY CountedStarts
<1>2. TurnsIInv /\ TurnsIInv' /\ Counted /\ [Next]_vars => Counted'
  <2>1. TurnsIInv' => AnalyzerIInv'
    BY DEF TurnsIInv
  <2> QED BY <2>1, CountedKept
<1>3. Counted => TotalsExact
  BY DEF Counted, TotalsExact
<1> QED BY <1>1, <1>2, <1>3, TurnsInductive, PTL DEF Spec

-----------------------------------------------------------------------------
(* The worst slack                                                         *)

(* The worst slack of a task is a lower bound of the slack of the turns    *)
(* that met the deadline, and one of them has it unless it is still as     *)
(* large as no such turn can make it.                                      *)
SlackIs(t) ==
  LET worst == tasks[Place(t)].worst_slack
  IN  /\ \A k \in MetTurns(t) : worst <= Deadline(t) - log[k].exec_time
      /\ worst >= Deadline(t) \/ \E k \in MetTurns(t) : worst = Deadline(t) - log[k].exec_time

Slacks == \A t \in Judging : Place(t) \in Entries => SlackIs(t)

LEMMA DeadlineType ==
  /\ \A t \in Tasks : Deadline(t) \in Nat /\ Deadline(t) < Modulus
  /\ \A x \in ExecTimes : x \in Nat /\ x < Modulus - 1
  /\ Modulus \in Nat \ {0} /\ Judging \subseteq Tasks
  BY AnalyzerAssumption DEF Deadline, Judging, Tasks

(* The unsigned difference: small for a deadline that is met, larger than  *)
(* any such for one that is not.                                           *)
LEMMA SlackValue ==
  ASSUME NEW t \in Tasks, NEW x \in ExecTimes
  PROVE  /\ x <= Deadline(t) => Slack(t, x) = Deadline(t) - x
         /\ ~(x <= Deadline(t)) => Slack(t, x) > Deadline(t)
         /\ Slack(t, x) \in Nat
<1>1. PICK d \in Nat : d = Deadline(t) /\ d < Modulus
  BY DeadlineType
<1>2. x \in Nat /\ x < Modulus - 1 /\ Modulus \in Nat \ {0}
  BY DeadlineType
<1>3. CASE x <= d
  <2>1. PICK s \in Nat : s = d - x /\ s < Modulus
    BY <1>1, <1>2, <1>3
  <2>2. d + Modulus - x = s + Modulus
    BY <1>1, <1>2, <2>1
  <2>3. (s + Modulus) % Modulus = s
    BY <1>2, <2>1, SMT
  <2> QED BY <1>1, <1>3, <2>1, <2>2, <2>3 DEF Slack
<1>4. CASE ~(x <= d)
  <2>1. PICK s \in Nat : s = d + Modulus - x /\ s < Modulus /\ s > d
    BY <1>1, <1>2, <1>4
  <2>2. s % Modulus = s
    BY <1>2, <2>1, SMT
  <2> QED BY <1>1, <1>4, <2>1, <2>2 DEF Slack
<1> QED BY <1>3, <1>4

LEMMA MetTurnsOf ==
  ASSUME AnalyzerIInv, NEW t
  PROVE  MetTurns(t) = {k \in 1 .. Len(log) : log[k].task = t /\ log[k].judged /\ ~Missed(log[k])}
<1>1. DOMAIN log = 1 .. Len(log)
  BY DEF AnalyzerIInv
<1> QED BY <1>1 DEF MetTurns

LEMMA MetTurnsOfNext ==
  ASSUME AnalyzerIInv', NEW t
  PROVE  MetTurns(t)' =
           {k \in 1 .. Len(log') : log'[k].task = t /\ log'[k].judged /\ ~Missed(log'[k])}
<1>1. DOMAIN log' = 1 .. Len(log')
  BY DEF AnalyzerIInv
<1> QED BY <1>1 DEF MetTurns, Missed

LEMMA SlackSame ==
  ASSUME NEW t, SlackIs(t), MetTurns(t)' = MetTurns(t),
         \A k \in MetTurns(t) : log'[k].exec_time = log[k].exec_time,
         tasks'[Place(t)].worst_slack = tasks[Place(t)].worst_slack
  PROVE  SlackIs(t)'
  BY DEF SlackIs

LEMMA SlacksStart == ASSUME Init, AnalyzerIInv, Layout  PROVE Slacks
<1> SUFFICES ASSUME NEW t \in Judging, Place(t) \in Entries  PROVE SlackIs(t)
  BY DEF Slacks
<1>1. log = <<>>
  BY DEF Init
<1>2. MetTurns(t) = {}
  BY <1>1 DEF MetTurns
<1>3. t \in Tasks
  BY DeadlineType
<1>4. tasks[Place(t)] = RegisteredEntry(<<Control, PerfMonitor, Telemetry>>[Place(t)], 0)
  BY <1>3, Places DEF Init
<1>5. tasks[Place(t)].worst_slack = Modulus - 1
  BY <1>4 DEF RegisteredEntry, NewEntry, UINT32_MAX
<1>6. Modulus - 1 >= Deadline(t)
  BY <1>3, DeadlineType
<1> QED BY <1>2, <1>5, <1>6 DEF SlackIs

(* The turn that is being tracked is not judged yet.                       *)
LEMMA SlacksAfterExecution ==
  ASSUME AnalyzerIInv, AnalyzerIInv', Slacks, NEW t \in Tasks, NEW x \in ExecTimes,
         Place(t) \in Entries,
         tasks' = [tasks EXCEPT ![Place(t)] = WithExecution(tasks[Place(t)], x)],
         log' = Append(log, [task |-> t, exec_time |-> x, judged |-> FALSE])
  PROVE  Slacks'
<1> SUFFICES ASSUME NEW u \in Judging, Place(u) \in Entries  PROVE SlackIs(u)'
  BY DEF Slacks
<1>1. SlackIs(u)
  BY DEF Slacks
<1>2. /\ Len(log) \in Nat /\ Len(log') = Len(log) + 1
      /\ \A k \in 1 .. Len(log) : log'[k] = log[k]
      /\ log'[Len(log) + 1] = [task |-> t, exec_time |-> x, judged |-> FALSE]
  BY LogGrows
<1>3. MetTurns(u)' = MetTurns(u) /\ MetTurns(u) \subseteq 1 .. Len(log)
  <2>1. ASSUME NEW k \in 1 .. Len(log) + 1, log'[k].judged  PROVE k \in 1 .. Len(log)
    BY <1>2, <2>1
  <2>2. 1 .. Len(log) \subseteq 1 .. Len(log) + 1
    BY <1>2
  <2>3. MetTurns(u)' = {k \in 1 .. Len(log) + 1 :
                          log'[k].task = u /\ log'[k].judged /\ ~Missed(log'[k])}
    BY <1>2, MetTurnsOfNext
  <2>4. MetTurns(u) = {k \in 1 .. Len(log) : log[k].task = u /\ log[k].judged /\ ~Missed(log[k])}
    BY MetTurnsOf
  <2> QED BY <1>2, <2>1, <2>2, <2>3, <2>4
<1>4. tasks'[Place(u)].worst_slack = tasks[Place(u)].worst_slack
  <2>1. tasks[Place(t)] \in EntryType
    BY DEF AnalyzerIInv
  <2>2. WithExecution(tasks[Place(t)], x).worst_slack = tasks[Place(t)].worst_slack
    BY <2>1, ExecutionFields
  <2> QED BY <2>2 DEF AnalyzerIInv
<1> QED BY <1>1, <1>2, <1>3, <1>4, SlackSame

(* The last turn is judged: the smaller slack is kept.                     *)
LEMMA SlacksAfterDeadline ==
  ASSUME AnalyzerIInv, AnalyzerIInv', Slacks, NEW t \in Judging, NEW x \in ExecTimes,
         NEW met, met \in BOOLEAN, met <=> x <= Deadline(t),
         NEW slack \in Nat, slack = Slack(t, x), Place(t) \in Entries,
         tasks' = [tasks EXCEPT ![Place(t)] = WithDeadline(tasks[Place(t)], met, slack)],
         Len(log) > 0, log[Len(log)] = [task |-> t, exec_time |-> x, judged |-> FALSE],
         log' = [log EXCEPT ![Len(log)].judged = TRUE]
  PROVE  Slacks'
<1> SUFFICES ASSUME NEW u \in Judging, Place(u) \in Entries  PROVE SlackIs(u)'
  BY DEF Slacks
<1>0. t \in Tasks /\ u \in Tasks
  BY DeadlineType
<1>1. SlackIs(u)
  BY DEF Slacks
<1>2. /\ Len(log) \in Nat \ {0} /\ Len(log') = Len(log)
      /\ \A k \in 1 .. Len(log) : k # Len(log) => log'[k] = log[k]
      /\ log'[Len(log)] = [task |-> t, exec_time |-> x, judged |-> TRUE]
  BY LogJudged
<1>3. MetTurns(u)' = {k \in 1 .. Len(log) :
                        log'[k].task = u /\ log'[k].judged /\ ~Missed(log'[k])}
  BY <1>2, MetTurnsOfNext
<1>4. MetTurns(u) = {k \in 1 .. Len(log) : log[k].task = u /\ log[k].judged /\ ~Missed(log[k])}
  BY MetTurnsOf
<1>5. Len(log) \in 1 .. Len(log)
  BY <1>2
<1>6. \A k \in 1 .. Len(log) : k # Len(log) => (k \in MetTurns(u)' <=> k \in MetTurns(u))
  BY <1>2, <1>3, <1>4
<1>7. Len(log) \notin MetTurns(u) /\ (Len(log) \in MetTurns(u)' <=> u = t /\ met)
  <2>1. Missed(log'[Len(log)]) <=> ~met
    <3>1. x \in Nat /\ Deadline(t) \in Nat
      BY <1>0, DeadlineType
    <3> QED BY <1>2, <3>1 DEF Missed
  <2>2. Len(log) \notin MetTurns(u)
    BY <1>4
  <2>3. log'[Len(log)].task = t /\ log'[Len(log)].judged
    BY <1>2
  <2>4. Len(log) \in MetTurns(u)' <=>
          log'[Len(log)].task = u /\ log'[Len(log)].judged /\ ~Missed(log'[Len(log)])
    BY <1>3, <1>5
  <2> QED BY <2>1, <2>2, <2>3, <2>4
<1>8. MetTurns(u) \subseteq 1 .. Len(log) /\ MetTurns(u)' \subseteq 1 .. Len(log)
  BY <1>3, <1>4
<1>9. ASSUME ~(u = t /\ met)  PROVE MetTurns(u)' = MetTurns(u)
  <2>1. \A k \in 1 .. Len(log) : k \in MetTurns(u)' <=> k \in MetTurns(u)
    BY <1>6, <1>7, <1>9
  <2> QED BY <1>8, <2>1
<1>10. \A k \in MetTurns(u) : log'[k].exec_time = log[k].exec_time
  BY <1>2, <1>7, <1>8
<1>11. CASE u # t
  <2>1. Place(u) # Place(t)
    BY <1>0, <1>11, Places
  <2>2. tasks'[Place(u)] = tasks[Place(u)]
    BY <2>1 DEF AnalyzerIInv
  <2> QED BY <1>1, <1>9, <1>10, <1>11, <2>2, SlackSame
<1>12. CASE u = t
  <2>1. PICK worst \in Nat : worst = tasks[Place(t)].worst_slack
    BY DEF AnalyzerIInv, EntryType
  <2>2. tasks[Place(t)] \in EntryType
    BY DEF AnalyzerIInv
  <2>3. WithDeadline(tasks[Place(t)], met, slack).worst_slack = WorseSlack(tasks[Place(t)], slack)
    BY <2>2, DeadlineFields
  <2>4. tasks'[Place(t)] = WithDeadline(tasks[Place(t)], met, slack)
    BY DEF AnalyzerIInv
  <2>5. tasks'[Place(t)].worst_slack = IF slack < worst THEN slack ELSE worst
    BY <2>1, <2>3, <2>4 DEF WorseSlack
  <2>6. PICK d \in Nat : d = Deadline(t)
    BY <1>0, DeadlineType
  <2>7. x \in Nat
    BY DeadlineType
  <2>8. /\ \A k \in MetTurns(t) : worst <= d - log[k].exec_time
        /\ worst >= d \/ \E k \in MetTurns(t) : worst = d - log[k].exec_time
    BY <1>1, <1>12, <2>1, <2>6 DEF SlackIs
  <2>9. \A k \in MetTurns(t) : log[k].exec_time \in Nat
    <3>1. \A k \in 1 .. Len(log) : log[k] \in [task : Tasks, exec_time : ExecTimes, judged : BOOLEAN]
      BY ElementOfSeq DEF AnalyzerIInv
    <3> QED BY <1>8, <1>12, <3>1, DeadlineType
  <2>10. CASE met
    <3>1. slack = d - x
      BY <1>0, <2>6, <2>10, SlackValue
    <3>2. MetTurns(t)' = MetTurns(t) \cup {Len(log)}
      BY <1>5, <1>6, <1>7, <1>8, <1>12, <2>10
    <3>3. log'[Len(log)].exec_time = x
      BY <1>2
    <3>4. PICK least \in Nat : least = tasks'[Place(t)].worst_slack
      BY <2>1, <2>5
    <3>5. least <= worst /\ least <= d - x /\ (least = worst \/ least = d - x)
      <4>1. least = IF slack < worst THEN slack ELSE worst
        BY <2>5, <3>4
      <4>2. \A p, q, m \in Nat : m = (IF p < q THEN p ELSE q) =>
              m <= q /\ m <= p /\ (m = q \/ m = p)
        OBVIOUS
      <4>3. least <= worst /\ least <= slack /\ (least = worst \/ least = slack)
        BY <4>1, <4>2
      <4> QED BY <3>1, <4>3
    <3>6. \A k \in MetTurns(t)' : least <= d - log'[k].exec_time
      <4>1. ASSUME NEW k \in MetTurns(t)  PROVE least <= d - log'[k].exec_time
        <5>1. log'[k].exec_time = log[k].exec_time /\ log[k].exec_time \in Nat
          BY <1>10, <1>12, <2>9
        <5>2. worst <= d - log[k].exec_time
          BY <2>8
        <5> QED BY <3>5, <5>1, <5>2
      <4> QED BY <3>2, <3>3, <3>5, <4>1
    <3>7. least >= d \/ \E k \in MetTurns(t)' : least = d - log'[k].exec_time
      <4>1. CASE least = d - x
        BY <3>2, <3>3, <4>1
      <4>2. CASE least = worst
        <5>1. CASE worst >= d
          BY <4>2, <5>1
        <5>2. ASSUME NEW k \in MetTurns(t), worst = d - log[k].exec_time
              PROVE  \E j \in MetTurns(t)' : least = d - log'[j].exec_time
          <6>1. k \in MetTurns(t)' /\ log'[k].exec_time = log[k].exec_time
            BY <1>10, <1>12, <3>2
          <6> QED BY <4>2, <5>2, <6>1
        <5> QED BY <2>8, <5>1, <5>2
      <4> QED BY <3>5, <4>1, <4>2
    <3> QED BY <1>12, <2>6, <3>4, <3>6, <3>7 DEF SlackIs
  <2>11. CASE ~met
    <3>1. slack > d
      BY <1>0, <2>6, <2>11, SlackValue
    <3>2. MetTurns(t)' = MetTurns(t)
      BY <1>9, <1>12, <2>11
    <3>3. PICK least \in Nat : least = tasks'[Place(t)].worst_slack
      BY <2>1, <2>5
    <3>4. least <= worst /\ (least = worst \/ least >= d)
      BY <2>1, <2>5, <2>6, <3>1, <3>3
    <3>5. ASSUME NEW k \in MetTurns(t)
          PROVE  /\ log'[k].exec_time = log[k].exec_time
                 /\ least <= d - log'[k].exec_time
      <4>1. log'[k].exec_time = log[k].exec_time /\ log[k].exec_time \in Nat
        BY <1>10, <1>12, <2>9
      <4>2. worst <= d - log[k].exec_time
        BY <2>8
      <4> QED BY <3>4, <4>1, <4>2
    <3>6. least >= d \/ \E k \in MetTurns(t) : least = d - log'[k].exec_time
      BY <2>8, <3>4, <3>5
    <3> QED BY <1>12, <2>6, <3>2, <3>3, <3>5, <3>6 DEF SlackIs
  <2> QED BY <2>10, <2>11
<1> QED BY <1>11, <1>12

LEMMA SlacksKept == ASSUME TurnsIInv, TurnsIInv', Slacks, [Next]_vars  PROVE Slacks'
<1>0. AnalyzerIInv /\ AnalyzerIInv' /\ Layout /\ Pending
  BY DEF TurnsIInv
<1>1. CASE UNCHANGED <<log, tasks>>
  BY <1>1 DEF Slacks, SlackIs, MetTurns, Missed
<1>2. CASE TrackExecution
  BY <1>0, <1>1, <1>2, ExecutionDoes, SlacksAfterExecution DEF stats
<1>3. CASE TrackDeadline
  <2>1. PICK t \in Tasks, x \in ExecTimes, met \in BOOLEAN, slack \in Nat :
           /\ t = turn.task /\ x = turn.exec_time /\ turn.call = "deadline"
           /\ met <=> x <= Deadline(t)
           /\ slack = Slack(t, x)
           /\ \/ /\ enabled /\ Place(t) \in Entries
                 /\ tasks' = [tasks EXCEPT ![Place(t)] = WithDeadline(tasks[Place(t)], met, slack)]
                 /\ log' = [log EXCEPT ![Len(log)].judged = TRUE]
              \/ UNCHANGED <<log, tasks>>
    BY <1>0, <1>3, DeadlineDoes DEF stats
  <2>2. ASSUME enabled, Place(t) \in Entries
        PROVE  Len(log) > 0 /\ log[Len(log)] = [task |-> t, exec_time |-> x, judged |-> FALSE]
    BY <1>0, <2>1, <2>2 DEF Pending
  <2>3. t \in Judging
    BY <1>0, <2>1 DEF Pending
  <2> QED BY <1>0, <1>1, <2>1, <2>2, <2>3, SlacksAfterDeadline
<1>4. CASE RegisterItself
  <2>1. UNCHANGED log
    BY <1>4 DEF RegisterItself
  <2>2. ASSUME NEW i \in Entries, i > 3,
               tasks' = [tasks EXCEPT ![i] = RegisteredEntry(PerfMonitor, PerfPeriod)],
               NEW t \in Judging, Place(t) \in Entries
        PROVE  SlackIs(t)'
    <3>1. t \in Tasks /\ Place(t) # i
      BY <2>2, Places, DeadlineType
    <3>2. tasks'[Place(t)] = tasks[Place(t)]
      BY <1>0, <2>2, <3>1 DEF AnalyzerIInv
    <3>3. SlackIs(t) /\ MetTurns(t)' = MetTurns(t)
      BY <2>1, <2>2 DEF Slacks, MetTurns, Missed
    <3> QED BY <2>1, <3>2, <3>3, SlackSame
  <2> QED BY <1>0, <1>1, <1>4, <2>1, <2>2, RegisteredPlace DEF Slacks
<1>5. CASE (\E t \in Tasks : BeginTurn(t)) \/ Analyse \/ deadline_analyzer_stop \/ Exit \/ UNCHANGED vars
  BY <1>1, <1>5 DEF BeginTurn, Analyse, deadline_analyzer_stop, Exit, vars, stats
<1> QED BY <1>2, <1>3, <1>4, <1>5 DEF Next

(* The worst slack of a task is that of the longest of its turns that met  *)
(* the deadline, although that of a missed one wraps: it is always larger. *)
THEOREM WorstSlackIsMet == Spec => []WorstSlackIsOfMetTurns
<1>1. Init => Slacks
  BY SlacksStart, InitHolds, LayoutStarts
<1>2. TurnsIInv /\ TurnsIInv' /\ Slacks /\ [Next]_vars => Slacks'
  BY SlacksKept
<1>3. TurnsIInv /\ Slacks => WorstSlackIsOfMetTurns
  <2> SUFFICES ASSUME TurnsIInv, Slacks, NEW t \in Judging, NEW i \in Entries,
                      IsEntryOf(i, t), MetTurns(t) # {}
               PROVE  tasks[i].worst_slack =
                        Deadline(t) - Max({log[k].exec_time : k \in MetTurns(t)})
    BY DEF WorstSlackIsOfMetTurns
  <2>0. AnalyzerIInv /\ Layout /\ t \in Tasks
    BY DeadlineType DEF TurnsIInv
  <2>1. i = Place(t) /\ SlackIs(t)
    BY <2>0, EntryFound DEF Slacks
  <2>2. PICK worst \in Nat, d \in Nat : worst = tasks[i].worst_slack /\ d = Deadline(t)
    <3>1. tasks[i].worst_slack \in Nat
      BY <2>0 DEF AnalyzerIInv, EntryType
    <3> QED BY <2>0, <3>1, DeadlineType
  <2>3. ASSUME NEW k \in MetTurns(t)  PROVE log[k].exec_time \in Nat
    <3>1. k \in 1 .. Len(log)
      BY <2>0, MetTurnsOf
    <3>2. log[k] \in [task : Tasks, exec_time : ExecTimes, judged : BOOLEAN]
      BY <2>0, <3>1, ElementOfSeq DEF AnalyzerIInv
    <3> QED BY <3>2, DeadlineType
  <2>4. /\ \A k \in MetTurns(t) : worst <= d - log[k].exec_time
        /\ worst >= d \/ \E k \in MetTurns(t) : worst = d - log[k].exec_time
    BY <2>1, <2>2 DEF SlackIs
  <2>5. PICK j \in MetTurns(t) : worst = d - log[j].exec_time
    <3>1. CASE worst >= d
      <4>1. PICK k \in MetTurns(t) : TRUE
        OBVIOUS
      <4>2. worst <= d - log[k].exec_time /\ log[k].exec_time \in Nat
        BY <2>3, <2>4
      <4>3. worst = d - log[k].exec_time
        BY <3>1, <4>2
      <4> QED BY <4>3
    <3> QED BY <2>4, <3>1
  <2>6. PICK longest \in Nat : longest = log[j].exec_time
    BY <2>3
  <2> DEFINE S == {log[k].exec_time : k \in MetTurns(t)}
  <2>7. longest \in S /\ \A y \in S : y \in Nat /\ longest >= y
    <3>1. ASSUME NEW k \in MetTurns(t)
          PROVE  log[k].exec_time \in Nat /\ longest >= log[k].exec_time
      <4>1. log[k].exec_time \in Nat /\ worst <= d - log[k].exec_time
        BY <2>3, <2>4
      <4> QED BY <2>5, <2>6, <4>1
    <3> QED BY <2>6, <3>1
  <2>8. Max(S) = longest
    <3> HIDE DEF S
    <3>1. \A z \in S : (\A y \in S : z >= y) => z = longest
      BY <2>7
    <3>2. Max(S) \in S /\ \A y \in S : Max(S) >= y
      BY <2>7 DEF Max
    <3> QED BY <3>1, <3>2
  <2> QED BY <2>2, <2>5, <2>6, <2>8
<1> QED BY <1>1, <1>2, <1>3, TurnsInductive, PTL DEF Spec

=============================================================================
