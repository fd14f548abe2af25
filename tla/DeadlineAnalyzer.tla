-------------------------- MODULE DeadlineAnalyzer --------------------------
(***************************************************************************)
(* profiling/deadline_analyzer.c as the tasks of main.c use it: Control    *)
(* and PerfMonitor report every turn and whether it met its deadline,      *)
(* Telemetry stands for the tasks that report the turn only, PerfMonitor   *)
(* registers itself once more and analyses, and the console handler, an    *)
(* OS thread, stops the analyzer at any time.                              *)
(*                                                                         *)
(* The tasks share one processor and do not yield between the calls of a   *)
(* turn.  Left out: minimum and maximum, which repeat bcet and wcet, the   *)
(* ratios that are only printed, and names, timestamps and criticality.    *)
(***************************************************************************)
EXTENDS Naturals, Sequences, FiniteSetsExt

CONSTANTS
  Control, PerfMonitor, Telemetry, NoTask,
  ControlDeadline, PerfDeadline,   \* 5 and 500
  PerfPeriod,        \* 2000: what PerfMonitor registers for itself
  AnalysisInterval,  \* 1000
  PerfSleep,         \* 500
  MaxTasks, HistorySize,           \* 32 and 100
  Modulus,           \* 2^32
  ExecTimes,         \* what a turn may take
  ExecLimit          \* bound on the turns tracked

ASSUME AnalyzerAssumption ==
  /\ Control # PerfMonitor /\ Control # Telemetry /\ PerfMonitor # Telemetry
  /\ NoTask \notin {Control, PerfMonitor, Telemetry}
  /\ ControlDeadline \in Nat /\ PerfDeadline \in Nat /\ PerfPeriod \in Nat \ {0}
  /\ AnalysisInterval \in Nat /\ PerfSleep \in 0 .. AnalysisInterval
  /\ MaxTasks \in Nat /\ HistorySize \in Nat \ {0}
  /\ Modulus \in Nat \ {0} /\ ControlDeadline < Modulus /\ PerfDeadline < Modulus
  /\ ExecLimit \in Nat
  /\ ExecTimes \subseteq Nat
  /\ \A x \in ExecTimes : x < Modulus - 1 /\ x * ExecLimit < Modulus

VARIABLES
  enabled,
  tasks,             \* g_analyzer.tasks
  history,           \* the samples in use
  total_executions, total_deadline_misses,
  schedulable,
  registered,        \* has PerfMonitor registered itself?
  elapsed,           \* ticks since last_analysis_time, up to AnalysisInterval
  turn,              \* the task that runs, its next call, its exec_time
  log                \* history: every turn tracked, and whether it was judged

stats == <<tasks, history, total_executions, total_deadline_misses>>
verdict == <<schedulable, elapsed>>
vars == <<enabled, stats, verdict, registered, turn, log>>

Tasks == {Control, PerfMonitor, Telemetry}
Judging == {Control, PerfMonitor}    \* the tasks that call track_deadline
Entries == 1 .. MaxTasks
UINT32_MAX == Modulus - 1
Deadline(t) == IF t = Control THEN ControlDeadline ELSE PerfDeadline

Idle == [task |-> NoTask, call |-> "none", exec_time |-> 0]

DeadlineStats ==
  [task_id : Tasks \cup {NoTask}, period_ms : {0, PerfPeriod},
   wcet : Nat, bcet : 0 .. UINT32_MAX, avg_execution_time : 0 .. UINT32_MAX,
   total_executions : 0 .. ExecLimit, deadline_misses : 0 .. ExecLimit,
   consecutive_misses : Nat, max_consecutive_misses : Nat,
   worst_slack : 0 .. UINT32_MAX, avg_slack : 0 .. UINT32_MAX]

NewEntry(t, period, least) ==
  [task_id |-> t, period_ms |-> period, wcet |-> 0, bcet |-> least,
   avg_execution_time |-> 0, total_executions |-> 0, deadline_misses |-> 0,
   consecutive_misses |-> 0, max_consecutive_misses |-> 0,
   worst_slack |-> least, avg_slack |-> 0]

FreeEntry == NewEntry(NoTask, 0, 0)
RegisteredEntry(t, period) == NewEntry(t, period, UINT32_MAX)

ExecutionSample ==
  [task_id : Tasks, execution_time : ExecTimes, deadline_met : BOOLEAN,
   slack_time : 0 .. UINT32_MAX]

AnalyzerTypeOK ==
  /\ enabled \in BOOLEAN /\ schedulable \in BOOLEAN /\ registered \in BOOLEAN
  /\ tasks \in [Entries -> DeadlineStats]
  /\ history \in Seq(ExecutionSample) /\ Len(history) <= HistorySize
  /\ total_executions \in Nat /\ total_deadline_misses \in Nat
  /\ elapsed \in 0 .. AnalysisInterval
  /\ turn = Idle \/ turn \in [task : Tasks, call : {"update", "execution", "deadline"},
                              exec_time : ExecTimes]
  /\ log \in Seq([task : Tasks, exec_time : ExecTimes, judged : BOOLEAN])
  /\ Len(log) <= ExecLimit

(* system_init registers the tasks before task_set_deadline gives them a   *)
(* deadline, so their deadline and period are 0.                           *)
Init ==
  /\ enabled = TRUE /\ schedulable = FALSE /\ registered = FALSE
  /\ tasks = [i \in Entries |-> IF i <= 3
                                THEN RegisteredEntry(<<Control, PerfMonitor, Telemetry>>[i], 0)
                                ELSE FreeEntry]
  /\ history = <<>> /\ log = <<>>
  /\ total_executions = 0 /\ total_deadline_misses = 0
  /\ elapsed \in 0 .. AnalysisInterval
  /\ turn = Idle

-----------------------------------------------------------------------------
(* The analyzer's functions                                                *)

IsEntryOf(i, t) ==
  i \in Entries /\ tasks[i].task_id = t /\ \A j \in Entries : j < i => tasks[j].task_id # t

HasEntry(t) == \E i \in Entries : tasks[i].task_id = t

deadline_analyzer_register_task(t, period) ==
  IF HasEntry(NoTask)
  THEN \E i \in Entries : IsEntryOf(i, NoTask) /\ tasks' = [tasks EXCEPT ![i] = RegisteredEntry(t, period)]
  ELSE UNCHANGED tasks

(* Mutant: total_executions has been advanced before. *)
AveragedLate(e, x) ==
  ((e.avg_execution_time * (e.total_executions + 1) + x) % Modulus)
    \div (e.total_executions + 1)

Averaged(e, x) ==
  ((e.avg_execution_time * e.total_executions + x) % Modulus)
    \div (e.total_executions + 1)

WithExecution(e, x) ==
  [e EXCEPT !.bcet = IF x < @ THEN x ELSE @,
            !.wcet = IF x > @ THEN x ELSE @,
            !.avg_execution_time = Averaged(e, x),
            !.total_executions = @ + 1]

(* A full history rotates; the new last sample keeps the mark of the old.  *)
Recorded(t, x) ==
  IF Len(history) < HistorySize
  THEN Append(history, [task_id |-> t, execution_time |-> x,
                        deadline_met |-> FALSE, slack_time |-> 0])
  ELSE Append(Tail(history), [history[HistorySize] EXCEPT !.task_id = t, !.execution_time = x])

deadline_analyzer_track_execution(t, x) ==
  IF enabled /\ HasEntry(t)
  THEN /\ \E i \in Entries : /\ IsEntryOf(i, t)
                             /\ tasks' = [tasks EXCEPT ![i] = WithExecution(@, x)]
       /\ total_executions' = total_executions + 1
       /\ history' = Recorded(t, x)
       /\ log' = Append(log, [task |-> t, exec_time |-> x, judged |-> FALSE])
       /\ UNCHANGED total_deadline_misses
  ELSE UNCHANGED <<stats, log>>

(* deadline - exec_time, in unsigned arithmetic                            *)
Slack(t, x) == (Deadline(t) + Modulus - x) % Modulus

Streak(e, met) == IF met THEN 0 ELSE e.consecutive_misses + 1

(* Mutant: the larger slack is kept. *)
LargerSlack(e, slack) ==
  IF slack > e.worst_slack \/ e.worst_slack = UINT32_MAX THEN slack ELSE e.worst_slack

WorseSlack(e, slack) == IF slack < e.worst_slack THEN slack ELSE e.worst_slack

WithDeadline(e, met, slack) ==
  [e EXCEPT !.deadline_misses = IF met THEN @ ELSE @ + 1,
            !.consecutive_misses = Streak(e, met),
            !.max_consecutive_misses = IF Streak(e, met) > @ THEN Streak(e, met) ELSE @,
            !.worst_slack = WorseSlack(e, slack),
            !.avg_slack = ((@ * (e.total_executions - 1) + slack) % Modulus)
                            \div e.total_executions]

(* Mutant: the sample is the one before the last. *)
MarkedOneOff(met, slack) ==
  [i \in DOMAIN history |->
     IF i = Len(history) - 1
     THEN [history[i] EXCEPT !.deadline_met = met, !.slack_time = slack]
     ELSE history[i]]

(* The last sample is taken to be the caller's.                            *)
Marked(met, slack) ==
  [i \in DOMAIN history |->
     IF i = Len(history)
     THEN [history[i] EXCEPT !.deadline_met = met, !.slack_time = slack]
     ELSE history[i]]

deadline_analyzer_track_deadline(t, met, slack) ==
  IF enabled /\ HasEntry(t)
  THEN /\ \E i \in Entries : /\ IsEntryOf(i, t)
                             /\ tasks' = [tasks EXCEPT ![i] = WithDeadline(@, met, slack)]
       /\ total_deadline_misses' = total_deadline_misses + (IF met THEN 0 ELSE 1)
       /\ history' = Marked(met, slack)
       /\ log' = [log EXCEPT ![Len(log)].judged = TRUE]
       /\ UNCHANGED total_executions
  ELSE UNCHANGED <<stats, log>>

(* Is the sum of wcet / period_ms at most 1?  The periods are all equal.   *)
Schedulable ==
  SumFunction([i \in {e \in Entries : tasks[e].period_ms > 0} |-> tasks[i].wcet]) <= PerfPeriod

(* Mutant: the totals are not cleared first. *)
UpdateKeepsTotals ==
  IF enabled /\ elapsed >= AnalysisInterval
  THEN /\ elapsed' = 0
       /\ total_executions' = total_executions +
            SumFunction([i \in Entries |-> tasks[i].total_executions])
       /\ total_deadline_misses' = total_deadline_misses +
            SumFunction([i \in Entries |-> tasks[i].deadline_misses])
       /\ schedulable' = Schedulable
  ELSE UNCHANGED <<verdict, total_executions, total_deadline_misses>>

deadline_analyzer_update ==
  IF enabled /\ elapsed >= AnalysisInterval
  THEN /\ elapsed' = 0
       /\ total_executions' = SumFunction([i \in Entries |-> tasks[i].total_executions])
       /\ total_deadline_misses' = SumFunction([i \in Entries |-> tasks[i].deadline_misses])
       /\ schedulable' = Schedulable
  ELSE UNCHANGED <<verdict, total_executions, total_deadline_misses>>

-----------------------------------------------------------------------------
(* The tasks and the console handler                                       *)

(* PerfMonitor registers itself before its loop.                           *)
RegisterItself ==
  /\ turn = Idle /\ ~registered
  /\ registered' = TRUE
  /\ deadline_analyzer_register_task(PerfMonitor, PerfPeriod)
  /\ UNCHANGED <<enabled, history, total_executions, total_deadline_misses, verdict, turn, log>>

(* A turn begins: PerfMonitor's with the analysis.                         *)
BeginTurn(t) ==
  /\ turn = Idle /\ Len(log) < ExecLimit
  /\ t = PerfMonitor => registered
  /\ \E x \in ExecTimes :
       turn' = [task |-> t, call |-> IF t = PerfMonitor THEN "update" ELSE "execution",
                exec_time |-> x]
  /\ UNCHANGED <<enabled, stats, verdict, registered, log>>

Analyse ==
  /\ turn.call = "update"
  /\ deadline_analyzer_update
  /\ turn' = [turn EXCEPT !.call = "execution"]
  /\ UNCHANGED <<enabled, tasks, history, registered, log>>

TrackExecution ==
  /\ turn.call = "execution"
  /\ deadline_analyzer_track_execution(turn.task, turn.exec_time)
  /\ turn' = IF turn.task \in Judging THEN [turn EXCEPT !.call = "deadline"] ELSE Idle
  /\ UNCHANGED <<enabled, verdict, registered>>

(* The turn ends with task_sleep: ticks pass until PerfMonitor's next.     *)
TrackDeadline ==
  /\ turn.call = "deadline"
  /\ deadline_analyzer_track_deadline(turn.task, turn.exec_time <= Deadline(turn.task),
                                      Slack(turn.task, turn.exec_time))
  /\ turn' = Idle
  /\ IF turn.task = PerfMonitor
     THEN \E d \in PerfSleep .. AnalysisInterval :
            elapsed' = IF elapsed + d < AnalysisInterval THEN elapsed + d ELSE AnalysisInterval
     ELSE UNCHANGED elapsed
  /\ UNCHANGED <<enabled, schedulable, registered>>

deadline_analyzer_stop ==
  /\ enabled
  /\ enabled' = FALSE
  /\ UNCHANGED <<stats, verdict, registered, turn, log>>

(* The console handler ends the program after its report.                  *)
Exit == ~enabled /\ UNCHANGED vars

Next ==
  \/ RegisterItself
  \/ \E t \in Tasks : BeginTurn(t)
  \/ Analyse \/ TrackExecution \/ TrackDeadline
  \/ deadline_analyzer_stop \/ Exit

Spec == Init /\ [][Next]_vars

-----------------------------------------------------------------------------
(* Properties                                                              *)

Missed(r) == r.exec_time > Deadline(r.task)

(* The turns judged to have met, or missed, their deadline.                *)
MetTurns(t) == {k \in DOMAIN log : log[k].task = t /\ log[k].judged /\ ~Missed(log[k])}
MissedTurns == {k \in DOMAIN log : log[k].judged /\ Missed(log[k])}

(* The average is recomputed from its own truncated value at every turn,   *)
(* with a division by a count that changes: it never leaves what the task  *)
(* has really taken.                                                       *)
AverageBounded ==
  \A i \in Entries : tasks[i].total_executions > 0 =>
    /\ tasks[i].bcet <= tasks[i].avg_execution_time
    /\ tasks[i].avg_execution_time <= tasks[i].wcet

(* The slack of a missed deadline wraps to a huge number: worst_slack is   *)
(* that of the longest turn that met its deadline, and a task that also    *)
(* missed some shows none of it.                                           *)
WorstSlackIsOfMetTurns ==
  \A t \in Judging, i \in Entries :
    IsEntryOf(i, t) /\ MetTurns(t) # {} =>
      tasks[i].worst_slack = Deadline(t) - Max({log[k].exec_time : k \in MetTurns(t)})

(* What the safety task logs, the counts of the whole system, are exact    *)
(* between two analyses and after one: no turn is counted twice, in        *)
(* PerfMonitor's two entries or by update, and none is lost.               *)
TotalsExact ==
  /\ total_executions = Len(log)
  /\ total_deadline_misses = Cardinality(MissedTurns)

(* The history holds the latest turns in their order, and the mark of      *)
(* every sample of a task that judges its turns is that turn's own, but    *)
(* for a last one that the stop of the analyzer left without.              *)
HistoryIsLatest ==
  /\ Len(history) = Min({Len(log), HistorySize})
  /\ \A i \in DOMAIN history :
       LET r == log[Len(log) - Len(history) + i]
       IN  /\ history[i].task_id = r.task /\ history[i].execution_time = r.exec_time
           /\ r.task \in Judging /\ (i < Len(history) \/ r.judged) =>
                /\ history[i].deadline_met = ~Missed(r)
                /\ history[i].slack_time = Slack(r.task, r.exec_time)

=============================================================================
