---------------------------- MODULE FlightProofs ----------------------------
(***************************************************************************)
(* What holds of the watchdog, for any caller and any order of calls, and  *)
(* of the tasks that fly under it, whatever tasks are registered, however  *)
(* the ticks fall and however often an operator ends a failsafe.           *)
(*                                                                         *)
(* Both parts compute with folds over the entries of the watchdog, so the  *)
(* module begins with what a fold over a sequence needs: induction over a  *)
(* bounded range of numbers, stated of a set, from the well-foundedness of *)
(* the order on Nat, and the existence of the function by which            *)
(* MapThenFoldSet defines its result.                                      *)
(***************************************************************************)
EXTENDS Flight, TLAPS, FiniteSetTheorems, NaturalsInduction, WellFoundedInduction

-----------------------------------------------------------------------------
(* Induction and folds                                                     *)

(* A set of numbers that is not empty has a least one.                     *)
LEMMA LeastNat ==
  ASSUME NEW T, T \subseteq Nat, T # {}
  PROVE  \E n \in T : \A m \in T : n <= m
<1> DEFINE R == OpToRel(<, Nat)
<1>1. IsWellFoundedOn(R, Nat)
  BY NatLessThanWellFounded
<1>2. \A x, y \in Nat : <<x, y>> \in R <=> x < y
  BY DEF OpToRel
<1> HIDE DEF R
<1>3. PICK x \in T : \A y \in T : ~(<<y, x>> \in R)
  BY <1>1, WFMin
<1>4. ASSUME NEW y \in T  PROVE x <= y
  <2>1. x \in Nat /\ y \in Nat /\ ~(<<y, x>> \in R)
    BY <1>3
  <2>2. ~(y < x)
    BY <1>2, <2>1
  <2> QED BY <2>1, <2>2
<1> QED BY <1>4

(* Induction up to n, with the numbers that satisfy the hypothesis as a set.*)
LEMMA Induction ==
  ASSUME NEW n \in Nat, NEW Holds, 0 \in Holds,
         \A k \in Nat : k < n /\ k \in Holds => k + 1 \in Holds
  PROVE  \A k \in 0 .. n : k \in Holds
<1> SUFFICES ASSUME {k \in 0 .. n : k \notin Holds} # {}  PROVE FALSE
  OBVIOUS
<1> DEFINE T == {k \in 0 .. n : k \notin Holds}
<1>1. T \subseteq Nat /\ T # {}
  OBVIOUS
<1>2. PICK least \in T : \A m \in T : least <= m
  BY <1>1, LeastNat
<1>3. least \in Nat /\ least # 0 /\ least <= n /\ least \notin Holds
  OBVIOUS
<1>4. least - 1 \in Nat /\ least - 1 < n /\ least - 1 < least
  BY <1>3
<1>5. least - 1 \in Holds
  BY <1>2, <1>3, <1>4
<1> QED BY <1>3, <1>4, <1>5

(* The element a fold over 1..k takes first.                               *)
LEMMA MaxOfPrefix ==
  ASSUME NEW k \in Nat \ {0}
  PROVE  Max(1 .. k) = k /\ (1 .. k) \ {k} = 1 .. (k - 1)
BY DEF Max

LEMMA MaxOfInitial ==
  ASSUME NEW n \in Nat, NEW s \in SUBSET (1 .. n), s # {}
  PROVE  Max(s) \in s /\ \A x \in s : Max(s) >= x
<1> DEFINE T == {m \in Nat : \A x \in s : m >= x}
<1>1. T \subseteq Nat /\ n \in T
  OBVIOUS
<1>2. PICK m \in T : \A k \in T : m <= k
  BY <1>1, LeastNat
<1>3. m \in Nat /\ \A x \in s : m >= x
  OBVIOUS
<1>4. m \in s
  <2> SUFFICES ASSUME m \notin s  PROVE FALSE
    OBVIOUS
  <2>1. PICK x \in s : TRUE
    OBVIOUS
  <2>2. m - 1 \in Nat /\ \A y \in s : m - 1 >= y
    BY <1>3, <2>1
  <2> QED BY <1>2, <1>3, <2>2
<1> QED BY <1>3, <1>4 DEF Max

(* h is the recursion of a fold over 1..n, with step[i] for the element i.  *)
Iterates(h, n, base, step) ==
  /\ h[{}] = base
  /\ \A s \in SUBSET (1 .. n) : s # {} => h[s] = step[Max(s)][h[s \ {Max(s)}]]

(* The recursion over the subsets of 1..n has a solution. *)
LEMMA FoldDefined ==
  ASSUME NEW n \in Nat, NEW V, NEW base \in V, NEW step \in [1 .. n -> [V -> V]]
  PROVE  \E h \in [SUBSET (1 .. n) -> V] : Iterates(h, n, base, step)
<1> DEFINE Solves(h, k) ==
             /\ h[{}] = base
             /\ \A s \in SUBSET (1 .. k) : s # {} => h[s] = step[Max(s)][h[s \ {Max(s)}]]
           Holds == {k \in 0 .. n : \E h \in [SUBSET (1 .. k) -> V] : Solves(h, k)}
<1>1. 0 \in Holds
  <2>1. [s \in SUBSET (1 .. 0) |-> base] \in [SUBSET (1 .. 0) -> V]
    OBVIOUS
  <2>2. SUBSET (1 .. 0) = {{}}
    OBVIOUS
  <2>3. Solves([s \in SUBSET (1 .. 0) |-> base], 0)
    BY <2>2
  <2>4. 0 \in 0 .. n
    OBVIOUS
  <2> HIDE DEF Solves
  <2> QED BY <2>1, <2>3, <2>4
<1>2. ASSUME NEW k \in Nat, k < n, k \in Holds
      PROVE  k + 1 \in Holds
  <2>1. PICK h \in [SUBSET (1 .. k) -> V] : Solves(h, k)
    BY <1>2
  <2> DEFINE g == [s \in SUBSET (1 .. k + 1) |->
                    IF k + 1 \in s THEN step[k + 1][h[s \ {k + 1}]] ELSE h[s]]
  <2>2. ASSUME NEW s \in SUBSET (1 .. k + 1)
        PROVE  s \ {k + 1} \in SUBSET (1 .. k)
    OBVIOUS
  <2>3. ASSUME NEW s \in SUBSET (1 .. k + 1), k + 1 \in s
        PROVE  Max(s) = k + 1
    <3>1. k + 1 \in Nat /\ s # {}
      BY <2>3
    <3>2. Max(s) \in s /\ \A x \in s : Max(s) >= x
      BY <3>1, MaxOfInitial
    <3>3. Max(s) \in 1 .. k + 1 /\ Max(s) >= k + 1
      BY <2>3, <3>2
    <3> QED BY <3>3
  <2>4. ASSUME NEW s \in SUBSET (1 .. k), s # {}
        PROVE  Max(s) \in s
    BY <2>4, MaxOfInitial
  <2>5. g \in [SUBSET (1 .. k + 1) -> V]
    <3> SUFFICES ASSUME NEW s \in SUBSET (1 .. k + 1)
                 PROVE  (IF k + 1 \in s THEN step[k + 1][h[s \ {k + 1}]] ELSE h[s]) \in V
      OBVIOUS
    <3>1. CASE k + 1 \in s
      <4>1. h[s \ {k + 1}] \in V /\ k + 1 \in 1 .. n
        BY <1>2, <2>2
      <4> QED BY <3>1, <4>1
    <3>2. CASE k + 1 \notin s
      <4>1. s \in SUBSET (1 .. k)
        BY <3>2, <2>2
      <4> QED BY <3>2, <4>1
    <3> QED BY <3>1, <3>2
  <2>6. Solves(g, k + 1)
    <3>1. g[{}] = base
      BY <2>1
    <3>2. ASSUME NEW s \in SUBSET (1 .. k + 1), s # {}
          PROVE  g[s] = step[Max(s)][g[s \ {Max(s)}]]
      <4>1. CASE k + 1 \in s
        <5>1. Max(s) = k + 1
          BY <4>1, <2>3
        <5>2. g[s \ {k + 1}] = h[s \ {k + 1}]
          BY <2>2
        <5> QED BY <4>1, <5>1, <5>2
      <4>2. CASE k + 1 \notin s
        <5>1. s \in SUBSET (1 .. k)
          BY <4>2, <2>2
        <5>2. g[s] = h[s] /\ g[s \ {Max(s)}] = h[s \ {Max(s)}]
          BY <4>2
        <5> QED BY <2>1, <3>2, <5>1, <5>2
      <4> QED BY <4>1, <4>2
    <3> QED BY <3>1, <3>2
  <2>7. k + 1 \in 0 .. n
    BY <1>2
  <2> HIDE DEF g
  <2> QED BY <2>5, <2>6, <2>7
<1>3. n \in Holds
  <2> HIDE DEF Holds
  <2>1. \A k \in 0 .. n : k \in Holds
    BY <1>1, <1>2, Induction
  <2> QED BY <2>1
<1>4. PICK h \in [SUBSET (1 .. n) -> V] : Solves(h, n)
  BY <1>3
<1> QED BY <1>4 DEF Iterates

-----------------------------------------------------------------------------
(* Entries of the watchdog                                                 *)

(* global_state is computed entry by entry (watchdog_update).              *)
LEMMA GlobalUnfolds ==
  ASSUME NEW tasks \in Seq(Entry), NEW now
  PROVE  \E f \in [0 .. Len(tasks) -> {OK, WARNING, CRITICAL}] :
           /\ f[0] = OK
           /\ \A k \in 1 .. Len(tasks) : f[k] = GlobalAfter(f[k - 1], tasks[k], now)
           /\ f[Len(tasks)] = GlobalState(tasks, now)
<1> DEFINE n == Len(tasks)
           V == {OK, WARNING, CRITICAL}
           Rec(g, s) == IF s = {} THEN OK
                        ELSE GlobalAfter(g[s \ {Max(s)}], tasks[Max(s)], now)
           step == [i \in 1 .. n |-> [g \in V |-> GlobalAfter(g, tasks[i], now)]]
           iter == CHOOSE g : g = [s \in SUBSET (1 .. n) |-> Rec(g, s)]
<1>1. GlobalState(tasks, now) = iter[1 .. n]
  <2>1. DOMAIN tasks = 1 .. n
    OBVIOUS
  <2> QED BY <2>1 DEF GlobalState, FoldLeft, MapThenFoldSet
<1>2. n \in Nat /\ OK \in V
  OBVIOUS
<1>3. \A g \in V : \A e : GlobalAfter(g, e, now) \in V
  BY DEF GlobalAfter, OK, WARNING, CRITICAL
<1>4. step \in [1 .. n -> [V -> V]]
  BY <1>3
<1>5. \E h : h = [s \in SUBSET (1 .. n) |-> Rec(h, s)]
  <2>1. PICK h \in [SUBSET (1 .. n) -> V] :
          Iterates(h, n, OK, step)
    <3> HIDE DEF step, V, n
    <3> QED BY <1>2, <1>4, FoldDefined
  <2>2. ASSUME NEW s \in SUBSET (1 .. n), s # {}
        PROVE  step[Max(s)][h[s \ {Max(s)}]] = Rec(h, s)
    <3>1. Max(s) \in 1 .. n
      BY <1>2, <2>2, MaxOfInitial
    <3>2. h[s \ {Max(s)}] \in V
      OBVIOUS
    <3> QED BY <3>1, <3>2, <2>2
  <2> HIDE DEF step
  <2>3. \A s \in SUBSET (1 .. n) : h[s] = Rec(h, s)
    BY <2>1, <2>2 DEF Iterates
  <2>4. h = [s \in SUBSET (1 .. n) |-> Rec(h, s)]
    BY <2>3
  <2> QED BY <2>4
<1>6. iter = [s \in SUBSET (1 .. n) |-> Rec(iter, s)]
  <2> HIDE DEF Rec
  <2> QED BY <1>5
<1> DEFINE f == [k \in 0 .. n |-> iter[1 .. k]]
<1>7. f[0] = OK
  <2>1. iter[{}] = OK
    BY <1>6
  <2> QED BY <2>1, <1>2
<1>8. ASSUME NEW k \in 1 .. n
      PROVE  f[k] = GlobalAfter(f[k - 1], tasks[k], now)
  <2>0. k \in Nat \ {0} /\ k - 1 \in 0 .. n
    BY <1>2
  <2>1. 1 .. k \in SUBSET (1 .. n) /\ 1 .. k # {} /\ k \in Nat \ {0} /\ k - 1 \in 0 .. n
    BY <1>2, <2>0
  <2>2. Max(1 .. k) = k /\ (1 .. k) \ {k} = 1 .. (k - 1)
    BY <2>1, MaxOfPrefix
  <2>3. iter[1 .. k] = GlobalAfter(iter[1 .. (k - 1)], tasks[k], now)
    BY <1>6, <2>1, <2>2
  <2> QED BY <2>1, <2>3
<1>9. f \in [0 .. n -> V]
  <2> DEFINE Holds == {k \in 0 .. n : f[k] \in V}
  <2> HIDE DEF f, V
  <2>1. 0 \in Holds
    BY <1>7, <1>2
  <2>2. ASSUME NEW k \in Nat, k < n, k \in Holds
        PROVE  k + 1 \in Holds
    <3>1. k + 1 \in 1 .. n /\ (k + 1) - 1 = k /\ k + 1 \in 0 .. n
      BY <2>2
    <3>2. f[k + 1] = GlobalAfter(f[k], tasks[k + 1], now)
      BY <1>8, <3>1
    <3> QED BY <1>3, <2>2, <3>1, <3>2
  <2>3. \A k \in 0 .. n : k \in Holds
    <3> HIDE DEF Holds
    <3> QED BY <1>2, <2>1, <2>2, Induction
  <2>4. f = [k \in 0 .. n |-> f[k]]
    BY DEF f
  <2> QED BY <2>3, <2>4
<1>10. f[n] = iter[1 .. n]
  BY <1>2
<1> HIDE DEF f, iter
<1> QED BY <1>1, <1>7, <1>8, <1>9, <1>10

States == {OK, WARNING, CRITICAL, TIMEOUT}

(* What StateFitsMisses says of one entry. *)
Fits(e) ==
  /\ e.state = CRITICAL => e.missed_kicks \in {0, MaxMissedKicks}
  /\ e.state = TIMEOUT => e.missed_kicks \in 1 .. MaxMissedKicks - 1

(* An entry that its task is not accused by. *)
Blank(e) == e.missed_kicks = 0 /\ e.state # TIMEOUT

SameTask(e, c) ==
  /\ c.task_id = e.task_id /\ c.timeout_ms = e.timeout_ms /\ c.is_critical = e.is_critical

LEMMA EntryState == OK .. TIMEOUT = States
BY DEF States, OK, WARNING, CRITICAL, TIMEOUT

(* A difference of ticks, in their width.                                  *)
LEMMA ElapsedValue ==
  ASSUME NEW now \in 0 .. TickModulus - 1, NEW since \in 0 .. TickModulus - 1
  PROVE  /\ Elapsed(now, since) \in 0 .. TickModulus - 1
         /\ since <= now => Elapsed(now, since) = now - since
         /\ since > now => Elapsed(now, since) = now - since + TickModulus
<1>1. TickModulus \in Nat \ {0}
  BY TicksAssumption
<1>2. PICK d \in Int : d = now - since
  BY <1>1
<1>3. CASE since <= now
  <2>1. d \in 0 .. TickModulus - 1
    BY <1>1, <1>2, <1>3
  <2>2. d % TickModulus = d
    BY <1>1, <2>1
  <2> QED BY <1>1, <1>2, <1>3, <2>1, <2>2 DEF Elapsed
<1>4. CASE since > now
  <2>1. d + TickModulus \in 0 .. TickModulus - 1 /\ d < 0
    BY <1>1, <1>2, <1>4
  <2>2. d % TickModulus = d + TickModulus
    BY <1>1, <2>1
  <2> QED BY <1>1, <1>2, <1>4, <2>1, <2>2 DEF Elapsed
<1> QED BY <1>1, <1>3, <1>4

(* A tick later everything is a tick longer ago, up to the wrap. *)
LEMMA ElapsedNext ==
  ASSUME NEW now \in 0 .. TickModulus - 1, NEW since \in 0 .. TickModulus - 1
  PROVE  /\ (now + 1) % TickModulus \in 0 .. TickModulus - 1
         /\ Elapsed((now + 1) % TickModulus, since)
              = IF Elapsed(now, since) = TickModulus - 1 THEN 0 ELSE Elapsed(now, since) + 1
<1>1. TickModulus \in Nat \ {0}
  BY TicksAssumption
<1>2. PICK next \in Nat : next = IF now = TickModulus - 1 THEN 0 ELSE now + 1
  BY <1>1
<1>3. (now + 1) % TickModulus = next /\ next \in 0 .. TickModulus - 1
  <2>1. CASE now = TickModulus - 1
    BY <1>1, <1>2, <2>1
  <2>2. CASE now # TickModulus - 1
    <3>1. now + 1 \in 0 .. TickModulus - 1
      BY <1>1, <2>2
    <3>2. \A x \in 0 .. TickModulus - 1 : x % TickModulus = x
      BY <1>1
    <3> QED BY <1>2, <2>2, <3>1, <3>2
  <2> QED BY <2>1, <2>2
<1>4. Elapsed(next, since)
        = IF Elapsed(now, since) = TickModulus - 1 THEN 0 ELSE Elapsed(now, since) + 1
  <2>1. /\ since <= now => Elapsed(now, since) = now - since
        /\ since > now => Elapsed(now, since) = now - since + TickModulus
    BY ElapsedValue
  <2>2. /\ since <= next => Elapsed(next, since) = next - since
        /\ since > next => Elapsed(next, since) = next - since + TickModulus
    BY <1>3, ElapsedValue
  <2>3. CASE now = TickModulus - 1
    BY <1>1, <1>2, <2>1, <2>2, <2>3
  <2>4. CASE now # TickModulus - 1 /\ since <= now
    BY <1>1, <1>2, <2>1, <2>2, <2>4
  <2>5. CASE now # TickModulus - 1 /\ since > now
    BY <1>1, <1>2, <2>1, <2>2, <2>5
  <2> QED BY <1>1, <2>3, <2>4, <2>5
<1> QED BY <1>3, <1>4

(* What a check leaves of an entry.                                        *)
LEMMA CheckedEntry ==
  ASSUME NEW e \in Entry, NEW now \in 0 .. TickModulus - 1
  PROVE  /\ CheckEntry(e, now) \in Entry /\ SameTask(e, CheckEntry(e, now))
         /\ CheckEntry(e, now).last_kick_time = e.last_kick_time
         /\ Fits(e) => Fits(CheckEntry(e, now))
         /\ IsLate(e, now) => CheckEntry(e, now).state \in {TIMEOUT, CRITICAL}
         /\ ~IsLate(e, now) /\ Blank(e) => Blank(CheckEntry(e, now))
         /\ 10 * Elapsed(now, e.last_kick_time) <= 7 * e.timeout_ms
              => CheckEntry(e, now).state = OK
<1>0. /\ e.missed_kicks \in Nat /\ e.timeout_ms \in Nat /\ e.state \in States
      /\ e.last_kick_time \in 0 .. TickModulus - 1
  BY EntryState DEF Entry
<1>1. PICK el \in Nat : el = Elapsed(now, e.last_kick_time)
  <2>1. Elapsed(now, e.last_kick_time) \in 0 .. TickModulus - 1
    BY <1>0, ElapsedValue
  <2> QED BY <2>1, TicksAssumption
<1>2. IsLate(e, now) <=> el > e.timeout_ms
  BY <1>1 DEF IsLate
<1>4. CASE IsLate(e, now)
  <2>1. PICK missed \in Nat : missed = e.missed_kicks + 1
    BY <1>0
  <2>2. PICK m \in Nat : m = IF missed > MaxMissedKicks THEN MaxMissedKicks ELSE missed
    BY <2>1 DEF MaxMissedKicks
  <2>3. PICK st \in States : st = IF missed >= MaxMissedKicks THEN CRITICAL ELSE TIMEOUT
    BY DEF States
  <2>4. CheckEntry(e, now) = [e EXCEPT !.missed_kicks = m, !.state = st]
    BY <1>4, <2>1, <2>2, <2>3 DEF CheckEntry
  <2>5. /\ CheckEntry(e, now) \in Entry /\ SameTask(e, CheckEntry(e, now))
        /\ CheckEntry(e, now).last_kick_time = e.last_kick_time
        /\ CheckEntry(e, now).missed_kicks = m /\ CheckEntry(e, now).state = st
    <3>1. st \in OK .. TIMEOUT
      BY EntryState
    <3> QED BY <2>4, <3>1 DEF Entry, SameTask
  <2>6. Fits(CheckEntry(e, now))
    BY <1>0, <2>1, <2>2, <2>3, <2>5 DEF Fits, MaxMissedKicks, CRITICAL, TIMEOUT
  <2>7. ~(10 * el <= 7 * e.timeout_ms)
    BY <1>0, <1>2, <1>4
  <2> QED BY <1>1, <1>4, <2>3, <2>5, <2>6, <2>7
<1>5. CASE ~IsLate(e, now)
  <2>1. PICK st \in States :
          /\ st \in {OK, WARNING, e.state} /\ (e.state # OK => st # WARNING \/ e.state = WARNING)
          /\ CheckEntry(e, now) = [e EXCEPT !.state = st]
          /\ 10 * el <= 7 * e.timeout_ms => st = OK
    <3>1. CASE 10 * el > 7 * e.timeout_ms
      <4>1. PICK st \in States : st = IF e.state = OK THEN WARNING ELSE e.state
        BY <1>0 DEF States
      <4>2. CheckEntry(e, now) = [e EXCEPT !.state = st]
        BY <1>1, <1>5, <3>1, <4>1 DEF CheckEntry
      <4> QED BY <1>0, <1>1, <3>1, <4>1, <4>2 DEF OK, WARNING
    <3>2. CASE ~(10 * el > 7 * e.timeout_ms)
      <4>1. CheckEntry(e, now) = [e EXCEPT !.state = OK] /\ OK \in States
        BY <1>1, <1>5, <3>2 DEF CheckEntry, States
      <4> QED BY <4>1 DEF OK, WARNING
    <3> QED BY <3>1, <3>2
  <2>3. /\ CheckEntry(e, now) \in Entry /\ SameTask(e, CheckEntry(e, now))
        /\ CheckEntry(e, now).last_kick_time = e.last_kick_time
        /\ CheckEntry(e, now).missed_kicks = e.missed_kicks /\ CheckEntry(e, now).state = st
    <3>1. st \in OK .. TIMEOUT
      BY EntryState
    <3> QED BY <2>1, <3>1 DEF Entry, SameTask
  <2>4. Fits(e) => Fits(CheckEntry(e, now))
    BY <2>1, <2>3 DEF Fits, OK, WARNING, CRITICAL, TIMEOUT
  <2>5. Blank(e) => Blank(CheckEntry(e, now))
    BY <2>1, <2>3 DEF Blank, OK, WARNING, CRITICAL, TIMEOUT
  <2> QED BY <1>1, <1>5, <2>1, <2>3, <2>4, <2>5
<1> QED BY <1>4, <1>5

(* What a kick leaves of an entry.                                         *)
LEMMA KickedEntry ==
  ASSUME NEW e \in Entry, NEW now \in 0 .. TickModulus - 1
  PROVE  /\ Kicked(e, now) \in Entry /\ SameTask(e, Kicked(e, now))
         /\ Kicked(e, now).last_kick_time = now
         /\ Blank(Kicked(e, now)) /\ Fits(Kicked(e, now))
<1>0. e.state \in States
  BY EntryState DEF Entry
<1>1. PICK st \in States : st = IF e.state \in {WARNING, TIMEOUT} THEN OK ELSE e.state
  BY <1>0 DEF States
<1>2. st # TIMEOUT /\ st \in OK .. TIMEOUT
  BY <1>1, EntryState DEF OK, TIMEOUT
<1>3. Kicked(e, now) = [e EXCEPT !.last_kick_time = now, !.missed_kicks = 0, !.state = st]
  BY <1>1 DEF Kicked
<1>4. 0 \in Nat
  OBVIOUS
<1>5. /\ Kicked(e, now) \in Entry /\ SameTask(e, Kicked(e, now))
      /\ Kicked(e, now).last_kick_time = now
      /\ Kicked(e, now).missed_kicks = 0 /\ Kicked(e, now).state = st
  BY <1>2, <1>3, <1>4 DEF Entry, SameTask
<1> QED BY <1>2, <1>5 DEF Blank, Fits

(* What the watchdog knows of a task's silence: the truth, up to the wrap. *)
Timed(e, now, quiet) ==
  /\ Elapsed(now, e.last_kick_time) <= quiet[e.task_id]
  /\ quiet[e.task_id] < TickModulus => Elapsed(now, e.last_kick_time) = quiet[e.task_id]

AllTimed(w, now, quiet) == \A i \in DOMAIN w.tasks : Timed(w.tasks[i], now, quiet)

(* A record that the calls of watchdog.c can leave behind.                 *)
Sound(w) ==
  /\ w \in WatchdogContext
  /\ Len(w.tasks) <= WatchdogMaxTasks /\ Distinct(w.tasks)
  /\ w.tasks # <<>> => w.initialized

(* The entries g belong to the tasks of f. *)
SameTasks(f, g) ==
  /\ g \in Seq(Entry) /\ Len(g) = Len(f)
  /\ \A i \in 1 .. Len(f) : g[i].task_id = f[i].task_id

LEMMA SoundFields ==
  ASSUME NEW w, Sound(w)
  PROVE  /\ w.tasks \in Seq(Entry) /\ Len(w.tasks) \in Nat
         /\ DOMAIN w.tasks = 1 .. Len(w.tasks)
         /\ \A i \in 1 .. Len(w.tasks) : w.tasks[i] \in Entry /\ w.tasks[i].task_id \in TaskIds
         /\ \A i, j \in 1 .. Len(w.tasks) : w.tasks[i].task_id = w.tasks[j].task_id => i = j
         /\ RegisteredIds(w) = {w.tasks[i].task_id : i \in 1 .. Len(w.tasks)}
<1>1. w.tasks \in Seq(Entry)
  BY DEF Sound, WatchdogContext
<1>2. DOMAIN w.tasks = 1 .. Len(w.tasks) /\ Len(w.tasks) \in Nat
  BY <1>1
<1>3. \A i \in 1 .. Len(w.tasks) : w.tasks[i] \in Entry
  BY <1>1
<1> QED BY <1>1, <1>2, <1>3 DEF Sound, Distinct, RegisteredIds, Entry

LEMMA SoundMap ==
  ASSUME NEW w, Sound(w), NEW v, v \in WatchdogContext, v.initialized = w.initialized,
         SameTasks(w.tasks, v.tasks)
  PROVE  Sound(v) /\ RegisteredIds(v) = RegisteredIds(w)
<1>1. /\ DOMAIN v.tasks = 1 .. Len(w.tasks) /\ DOMAIN w.tasks = 1 .. Len(w.tasks)
      /\ \A i \in 1 .. Len(w.tasks) : v.tasks[i].task_id = w.tasks[i].task_id
      /\ v.tasks \in Seq(Entry) /\ w.tasks \in Seq(Entry) /\ Len(v.tasks) = Len(w.tasks)
  BY SoundFields DEF SameTasks
<1>2. Distinct(v.tasks)
  BY <1>1 DEF Sound, Distinct
<1>3. v.tasks # <<>> => v.initialized
  BY <1>1 DEF Sound
<1>4. RegisteredIds(v) = RegisteredIds(w)
  BY <1>1 DEF RegisteredIds
<1> QED BY <1>1, <1>2, <1>3, <1>4 DEF Sound

(* The entry that a search for a registered task finds. *)
LEMMA Found ==
  ASSUME NEW w, Sound(w), NEW i \in 1 .. Len(w.tasks)
  PROVE  /\ w.tasks[i].task_id \in RegisteredIds(w)
         /\ Position(w, w.tasks[i].task_id) = i /\ EntryOf(w, w.tasks[i].task_id) = w.tasks[i]
<1>1. i \in DOMAIN w.tasks /\ w.tasks[i].task_id \in RegisteredIds(w)
  BY SoundFields
<1>2. \A j \in DOMAIN w.tasks : w.tasks[j].task_id = w.tasks[i].task_id => j = i
  BY SoundFields
<1>3. Position(w, w.tasks[i].task_id) = i
  BY <1>1, <1>2 DEF Position
<1> QED BY <1>1, <1>3 DEF EntryOf

LEMMA FoundOf ==
  ASSUME NEW w, Sound(w), NEW t \in RegisteredIds(w)
  PROVE  \E i \in 1 .. Len(w.tasks) :
           i = Position(w, t) /\ w.tasks[i].task_id = t /\ EntryOf(w, t) = w.tasks[i]
<1>1. PICK i \in 1 .. Len(w.tasks) : w.tasks[i].task_id = t
  BY SoundFields
<1> QED BY <1>1, Found

-----------------------------------------------------------------------------
(* The calls                                                               *)

LEMMA Kicks ==
  ASSUME NEW w, Sound(w), NEW t, NEW now \in 0 .. TickModulus - 1, w.initialized
  PROVE  LET v == watchdog_kick(w, t, now)
         IN  /\ Sound(v) /\ RegisteredIds(v) = RegisteredIds(w) /\ Len(v.tasks) = Len(w.tasks)
             /\ v = [w EXCEPT !.tasks = v.tasks]
             /\ \A i \in 1 .. Len(w.tasks) :
                  v.tasks[i] = IF w.tasks[i].task_id = t THEN Kicked(w.tasks[i], now) ELSE w.tasks[i]
<1> DEFINE v == watchdog_kick(w, t, now)
           g == [i \in 1 .. Len(w.tasks) |->
                  IF w.tasks[i].task_id = t THEN Kicked(w.tasks[i], now) ELSE w.tasks[i]]
<1>1. v = [w EXCEPT !.tasks = g]
  BY SoundFields DEF watchdog_kick
<1>2. ASSUME NEW i \in 1 .. Len(w.tasks)
      PROVE  g[i] \in Entry /\ g[i].task_id = w.tasks[i].task_id
  <2>1. w.tasks[i] \in Entry
    BY SoundFields
  <2>2. Kicked(w.tasks[i], now) \in Entry /\ Kicked(w.tasks[i], now).task_id = w.tasks[i].task_id
    BY <2>1, KickedEntry DEF SameTask
  <2> QED BY <2>1, <2>2
<1>3. g \in Seq(Entry) /\ Len(g) = Len(w.tasks)
  <2>1. g \in [1 .. Len(w.tasks) -> Entry] /\ Len(w.tasks) \in Nat
    BY <1>2, SoundFields
  <2> HIDE DEF g
  <2> QED BY <2>1
<1> HIDE DEF g
<1>4. v \in WatchdogContext /\ v.initialized = w.initialized /\ v.tasks = g
  BY <1>1, <1>3 DEF Sound, WatchdogContext
<1>5. SameTasks(w.tasks, v.tasks)
  BY <1>2, <1>3, <1>4 DEF SameTasks
<1>6. Sound(v) /\ RegisteredIds(v) = RegisteredIds(w)
  BY <1>4, <1>5, SoundMap
<1> QED BY <1>1, <1>3, <1>4, <1>6 DEF g

LEMMA Examines ==
  ASSUME NEW w, Sound(w), NEW now \in 0 .. TickModulus - 1, CheckDue(w, now)
  PROVE  LET v == watchdog_update(w, now)
         IN  /\ Sound(v) /\ RegisteredIds(v) = RegisteredIds(w) /\ Len(v.tasks) = Len(w.tasks)
             /\ v.last_check_time = now
             /\ v.check_interval_ms = w.check_interval_ms /\ v.initialized /\ v.enabled
             /\ v.global_state = GlobalState(w.tasks, now)
             /\ \A i \in 1 .. Len(w.tasks) : v.tasks[i] = CheckEntry(w.tasks[i], now)
<1> DEFINE v == watchdog_update(w, now)
           g == [i \in 1 .. Len(w.tasks) |-> CheckEntry(w.tasks[i], now)]
           state == GlobalState(w.tasks, now)
<1>1. v = [w EXCEPT !.last_check_time = now, !.global_state = state, !.tasks = g]
  BY SoundFields DEF watchdog_update
<1>2. ASSUME NEW i \in 1 .. Len(w.tasks)
      PROVE  g[i] \in Entry /\ g[i].task_id = w.tasks[i].task_id
  <2>1. w.tasks[i] \in Entry
    BY SoundFields
  <2>2. CheckEntry(w.tasks[i], now) \in Entry
        /\ CheckEntry(w.tasks[i], now).task_id = w.tasks[i].task_id
    BY <2>1, CheckedEntry DEF SameTask
  <2> QED BY <2>2
<1>3. g \in Seq(Entry) /\ Len(g) = Len(w.tasks)
  <2>1. g \in [1 .. Len(w.tasks) -> Entry] /\ Len(w.tasks) \in Nat
    BY <1>2, SoundFields
  <2> HIDE DEF g
  <2> QED BY <2>1
<1>4. state \in {OK, WARNING, CRITICAL}
  <2>1. w.tasks \in Seq(Entry) /\ Len(w.tasks) \in Nat
    BY SoundFields
  <2>2. PICK f \in [0 .. Len(w.tasks) -> {OK, WARNING, CRITICAL}] : f[Len(w.tasks)] = state
    BY <2>1, GlobalUnfolds
  <2> QED BY <2>1, <2>2
<1> HIDE DEF g, state
<1>5. /\ v \in WatchdogContext /\ v.initialized = w.initialized /\ v.tasks = g
      /\ v.last_check_time = now /\ v.check_interval_ms = w.check_interval_ms
      /\ v.enabled = w.enabled /\ v.global_state = state
  BY <1>1, <1>3, <1>4 DEF Sound, WatchdogContext
<1>6. SameTasks(w.tasks, v.tasks)
  BY <1>2, <1>3, <1>5 DEF SameTasks
<1>7. Sound(v) /\ RegisteredIds(v) = RegisteredIds(w)
  BY <1>5, <1>6, SoundMap
<1>8. w.initialized /\ w.enabled
  BY DEF CheckDue
<1>9. \A i \in 1 .. Len(w.tasks) : v.tasks[i] = CheckEntry(w.tasks[i], now)
  BY <1>5 DEF g
<1>10. v.global_state = GlobalState(w.tasks, now)
  BY <1>5 DEF state
<1> QED BY <1>3, <1>5, <1>7, <1>8, <1>9, <1>10

LEMMA Resets ==
  ASSUME NEW w, Sound(w), NEW now \in 0 .. TickModulus - 1
  PROVE  LET v == watchdog_reset(w, now)
         IN  /\ Sound(v) /\ RegisteredIds(v) = RegisteredIds(w) /\ Len(v.tasks) = Len(w.tasks)
             /\ \A i \in 1 .. Len(w.tasks) :
                  /\ v.tasks[i].task_id = w.tasks[i].task_id
                  /\ v.tasks[i].last_kick_time = now
                  /\ Blank(v.tasks[i]) /\ Fits(v.tasks[i])
<1> DEFINE v == watchdog_reset(w, now)
           g == [i \in 1 .. Len(w.tasks) |->
                  [w.tasks[i] EXCEPT !.missed_kicks = 0, !.state = OK, !.last_kick_time = now]]
<1>1. v = [w EXCEPT !.global_state = OK, !.tasks = g]
  BY SoundFields DEF watchdog_reset
<1>2. ASSUME NEW i \in 1 .. Len(w.tasks)
      PROVE  /\ g[i] \in Entry /\ g[i].task_id = w.tasks[i].task_id
             /\ g[i].last_kick_time = now /\ Blank(g[i]) /\ Fits(g[i])
  <2>1. w.tasks[i] \in Entry /\ 0 \in Nat /\ OK \in OK .. TIMEOUT
    BY SoundFields DEF OK, TIMEOUT
  <2>2. PICK e \in Entry : e = w.tasks[i]
    BY <2>1
  <2>3. PICK c : c = [e EXCEPT !.missed_kicks = 0, !.state = OK, !.last_kick_time = now]
    OBVIOUS
  <2>4. /\ c \in Entry /\ c.task_id = e.task_id /\ c.last_kick_time = now
        /\ c.missed_kicks = 0 /\ c.state = OK
    BY <2>1, <2>3 DEF Entry
  <2>5. Blank(c) /\ Fits(c)
    BY <2>4 DEF Blank, Fits, OK, TIMEOUT, CRITICAL
  <2>6. g[i] = c
    BY <2>2, <2>3
  <2> QED BY <2>2, <2>4, <2>5, <2>6
<1>3. g \in Seq(Entry) /\ Len(g) = Len(w.tasks)
  <2>1. g \in [1 .. Len(w.tasks) -> Entry] /\ Len(w.tasks) \in Nat
    BY <1>2, SoundFields
  <2> HIDE DEF g
  <2> QED BY <2>1
<1> HIDE DEF g
<1>4. v \in WatchdogContext /\ v.initialized = w.initialized /\ v.tasks = g
  BY <1>1, <1>3 DEF Sound, WatchdogContext
<1>5. SameTasks(w.tasks, v.tasks)
  BY <1>2, <1>3, <1>4 DEF SameTasks
<1>6. Sound(v) /\ RegisteredIds(v) = RegisteredIds(w)
  BY <1>4, <1>5, SoundMap
<1> QED BY <1>2, <1>3, <1>4, <1>6

LEMMA SetsTimeout ==
  ASSUME NEW w, Sound(w), NEW t, NEW ms \in Nat
  PROVE  LET v == watchdog_set_task_timeout(w, t, ms)
         IN  /\ Sound(v) /\ RegisteredIds(v) = RegisteredIds(w) /\ Len(v.tasks) = Len(w.tasks)
             /\ \A i \in 1 .. Len(w.tasks) :
                  /\ v.tasks[i].task_id = w.tasks[i].task_id
                  /\ v.tasks[i].last_kick_time = w.tasks[i].last_kick_time
                  /\ v.tasks[i].state = w.tasks[i].state
                  /\ v.tasks[i].missed_kicks = w.tasks[i].missed_kicks
<1> DEFINE v == watchdog_set_task_timeout(w, t, ms)
           g == [i \in 1 .. Len(w.tasks) |->
                  IF w.tasks[i].task_id = t THEN [w.tasks[i] EXCEPT !.timeout_ms = ms]
                                            ELSE w.tasks[i]]
<1>1. v = [w EXCEPT !.tasks = g]
  BY SoundFields DEF watchdog_set_task_timeout
<1>2. ASSUME NEW i \in 1 .. Len(w.tasks)
      PROVE  /\ g[i] \in Entry /\ g[i].task_id = w.tasks[i].task_id
             /\ g[i].last_kick_time = w.tasks[i].last_kick_time
             /\ g[i].state = w.tasks[i].state /\ g[i].missed_kicks = w.tasks[i].missed_kicks
  <2>1. w.tasks[i] \in Entry
    BY SoundFields
  <2>2. PICK e \in Entry : e = w.tasks[i]
    BY <2>1
  <2>3. PICK c : c = [e EXCEPT !.timeout_ms = ms]
    OBVIOUS
  <2>4. /\ c \in Entry /\ c.task_id = e.task_id /\ c.last_kick_time = e.last_kick_time
        /\ c.missed_kicks = e.missed_kicks /\ c.state = e.state
    BY <2>1, <2>3 DEF Entry
  <2>5. g[i] = IF e.task_id = t THEN c ELSE e
    BY <2>2, <2>3
  <2> QED BY <2>2, <2>4, <2>5
<1>3. g \in Seq(Entry) /\ Len(g) = Len(w.tasks)
  <2>1. g \in [1 .. Len(w.tasks) -> Entry] /\ Len(w.tasks) \in Nat
    BY <1>2, SoundFields
  <2> HIDE DEF g
  <2> QED BY <2>1
<1> HIDE DEF g
<1>4. v \in WatchdogContext /\ v.initialized = w.initialized /\ v.tasks = g
  BY <1>1, <1>3 DEF Sound, WatchdogContext
<1>5. SameTasks(w.tasks, v.tasks)
  BY <1>2, <1>3, <1>4 DEF SameTasks
<1>6. Sound(v) /\ RegisteredIds(v) = RegisteredIds(w)
  BY <1>4, <1>5, SoundMap
<1> QED BY <1>2, <1>3, <1>4, <1>6

LEMMA Initializes ==
  ASSUME NEW w, Sound(w)
  PROVE  LET v == watchdog_init(w)
         IN  /\ Sound(v) /\ v.initialized /\ v.tasks = w.tasks
             /\ RegisteredIds(v) = RegisteredIds(w)
<1> DEFINE v == watchdog_init(w)
<1>1. CASE w.initialized
  BY <1>1 DEF watchdog_init
<1>2. CASE ~w.initialized
  <2>1. w.tasks = <<>>
    BY <1>2 DEF Sound
  <2>2. v = [initialized |-> TRUE, enabled |-> TRUE, tasks |-> <<>>, last_check_time |-> 0,
             check_interval_ms |-> DefaultInterval, global_timeout_ms |-> DefaultTimeout,
             global_state |-> OK]
    BY <1>2 DEF watchdog_init, ZeroWatchdog
  <2>3. 0 \in 0 .. TickModulus - 1 /\ <<>> \in Seq(Entry)
    BY TicksAssumption
  <2>4. v \in WatchdogContext
    BY <2>2, <2>3 DEF WatchdogContext, DefaultInterval, DefaultTimeout
  <2>5. v.tasks = <<>> /\ v.initialized
    BY <2>2
  <2>6. Sound(v)
    BY <2>1, <2>4, <2>5 DEF Sound
  <2> QED BY <2>1, <2>5, <2>6 DEF RegisteredIds
<1> QED BY <1>1, <1>2

SameFields(w, v) ==
  /\ v.initialized = w.initialized /\ v.enabled = w.enabled
  /\ v.last_check_time = w.last_check_time /\ v.check_interval_ms = w.check_interval_ms
  /\ v.global_state = w.global_state

(* The new entry is the last, as if it had just kicked. *)
LEMMA Registers ==
  ASSUME NEW w, Sound(w), NEW t \in TaskIds, NEW ms \in Nat, NEW crit \in BOOLEAN,
         NEW now \in 0 .. TickModulus - 1
  PROVE  LET v == watchdog_register_task(w, t, ms, crit, now)
             e == v.tasks[Len(w.tasks) + 1]
         IN  /\ Sound(v) /\ v.initialized
             /\ w.initialized => SameFields(w, v)
             /\ RefusesTask(w, t) => v.tasks = w.tasks /\ RegisteredIds(v) = RegisteredIds(w)
             /\ ~RefusesTask(w, t) =>
                  /\ Len(v.tasks) = Len(w.tasks) + 1
                  /\ \A i \in 1 .. Len(w.tasks) : v.tasks[i] = w.tasks[i]
                  /\ e.task_id = t /\ e.last_kick_time = now /\ Blank(e) /\ Fits(e)
                  /\ e.is_critical = crit /\ (ms > 0 => e.timeout_ms = ms)
                  /\ RegisteredIds(v) = RegisteredIds(w) \cup {t}
<1> DEFINE u == watchdog_init(w)
           v == watchdog_register_task(w, t, ms, crit, now)
<1>1. /\ Sound(u) /\ u.initialized /\ u.tasks = w.tasks
      /\ RegisteredIds(u) = RegisteredIds(w)
  BY Initializes
<1>2. RefusesTask(u, t) <=> RefusesTask(w, t)
  BY <1>1 DEF RefusesTask
<1>3. CASE RefusesTask(w, t)
  <2>1. v = u
    BY <1>2, <1>3 DEF watchdog_register_task
  <2>2. w.initialized => SameFields(w, v)
    BY <2>1 DEF SameFields, watchdog_init
  <2> QED BY <1>1, <1>3, <2>1, <2>2
<1>4. CASE ~RefusesTask(w, t)
  <2>1. PICK to \in Nat : to = IF ms > 0 THEN ms ELSE u.global_timeout_ms
    BY <1>1 DEF Sound, WatchdogContext
  <2>2. PICK e : e = [task_id |-> t, last_kick_time |-> now, missed_kicks |-> 0, state |-> OK,
                      is_critical |-> crit, timeout_ms |-> to]
    OBVIOUS
  <2>3. e \in Entry
    <3>1. OK \in OK .. TIMEOUT /\ 0 \in Nat
      BY DEF OK, TIMEOUT
    <3> QED BY <2>1, <2>2, <3>1 DEF Entry
  <2>4. v = [u EXCEPT !.tasks = Append(u.tasks, e)]
    <3>1. v = [u EXCEPT !.tasks = Append(u.tasks,
                [task_id |-> t, last_kick_time |-> now, missed_kicks |-> 0, state |-> OK,
                 is_critical |-> crit,
                 timeout_ms |-> IF ms > 0 THEN ms ELSE u.global_timeout_ms])]
      BY <1>2, <1>4 DEF watchdog_register_task
    <3> QED BY <2>1, <2>2, <3>1
  <2>5. w.tasks \in Seq(Entry) /\ Len(w.tasks) \in Nat
    BY SoundFields
  <2>6. PICK g : g = Append(w.tasks, e)
    OBVIOUS
  <2>7. /\ g \in Seq(Entry) /\ Len(g) = Len(w.tasks) + 1 /\ g[Len(w.tasks) + 1] = e
        /\ \A i \in 1 .. Len(w.tasks) : g[i] = w.tasks[i]
        /\ DOMAIN g = 1 .. Len(w.tasks) + 1 /\ g # <<>>
    BY <2>3, <2>5, <2>6
  <2>8. v = [u EXCEPT !.tasks = g]
    BY <1>1, <2>4, <2>6
  <2>9. v \in WatchdogContext /\ v.tasks = g /\ v.initialized
    BY <1>1, <2>7, <2>8 DEF Sound, WatchdogContext
  <2>10. Len(w.tasks) + 1 <= WatchdogMaxTasks
    <3>1. ~(Len(w.tasks) >= WatchdogMaxTasks)
      BY <1>4 DEF RefusesTask
    <3> QED BY <2>5, <3>1, WatchdogAssumption
  <2>11. \A i \in 1 .. Len(w.tasks) : w.tasks[i].task_id # t
    BY <1>4, SoundFields DEF RefusesTask
  <2>12. Distinct(g)
    <3>1. ASSUME NEW i \in 1 .. Len(w.tasks) + 1, NEW j \in 1 .. Len(w.tasks) + 1,
                 g[i].task_id = g[j].task_id
          PROVE  i = j
      <4>1. \A k \in 1 .. Len(w.tasks) + 1 :
              \/ k = Len(w.tasks) + 1 /\ g[k].task_id = t
              \/ k \in 1 .. Len(w.tasks) /\ g[k] = w.tasks[k] /\ g[k].task_id # t
        <5>1. e.task_id = t
          BY <2>2
        <5>2. \A k \in 1 .. Len(w.tasks) + 1 : k = Len(w.tasks) + 1 \/ k \in 1 .. Len(w.tasks)
          BY <2>5
        <5> QED BY <2>7, <2>11, <5>1, <5>2
      <4>2. CASE g[i].task_id = t
        BY <3>1, <4>1, <4>2
      <4>3. CASE g[i].task_id # t
        <5>1. /\ i \in 1 .. Len(w.tasks) /\ j \in 1 .. Len(w.tasks)
              /\ g[i] = w.tasks[i] /\ g[j] = w.tasks[j]
          BY <3>1, <4>1, <4>3
        <5> QED BY <3>1, <5>1, SoundFields
      <4> QED BY <4>2, <4>3
    <3> QED BY <2>7, <3>1 DEF Distinct
  <2>13. Sound(v)
    BY <2>7, <2>9, <2>10, <2>12 DEF Sound
  <2>14. RegisteredIds(v) = RegisteredIds(w) \cup {t}
    <3>1. RegisteredIds(v) = {g[i].task_id : i \in 1 .. Len(w.tasks) + 1}
      BY <2>7, <2>9 DEF RegisteredIds
    <3>2. RegisteredIds(w) = {w.tasks[i].task_id : i \in 1 .. Len(w.tasks)}
      BY SoundFields
    <3>3. e.task_id = t
      BY <2>2
    <3>4. 1 .. Len(w.tasks) + 1 = (1 .. Len(w.tasks)) \cup {Len(w.tasks) + 1}
      BY <2>5
    <3> QED BY <2>7, <3>1, <3>2, <3>3, <3>4
  <2>15. Blank(e) /\ Fits(e)
    BY <2>2 DEF Blank, Fits, OK, TIMEOUT, CRITICAL
  <2>16. e.task_id = t /\ e.last_kick_time = now /\ e.is_critical = crit /\ e.timeout_ms = to
    BY <2>2
  <2>17. w.initialized => SameFields(w, v)
    <3>1. SameFields(u, v)
      BY <1>1, <2>8 DEF SameFields, Sound, WatchdogContext
    <3>2. w.initialized => u = w
      BY DEF watchdog_init
    <3> QED BY <3>1, <3>2
  <2> QED BY <1>4, <2>1, <2>7, <2>9, <2>13, <2>14, <2>15, <2>16, <2>17
<1> QED BY <1>3, <1>4

(* The others keep their entries, in their order. *)
LEMMA Unregisters ==
  ASSUME NEW w, Sound(w), NEW t \in RegisteredIds(w)
  PROVE  LET v == watchdog_unregister_task(w, t)
         IN  /\ Sound(v) /\ RegisteredIds(v) = RegisteredIds(w) \ {t}
             /\ \A i \in 1 .. Len(v.tasks) : \E j \in 1 .. Len(w.tasks) :
                  v.tasks[i] = w.tasks[j] /\ w.tasks[j].task_id # t
             /\ \A u \in RegisteredIds(v) : EntryOf(v, u) = EntryOf(w, u)
<1> DEFINE v == watchdog_unregister_task(w, t)
           n == Len(w.tasks)
<1>1. PICK p \in 1 .. n : p = Position(w, t) /\ w.tasks[p].task_id = t
  BY FoundOf
<1>2. w.tasks \in Seq(Entry) /\ n \in Nat
  BY SoundFields
<1>3. PICK g : g = SubSeq(w.tasks, 1, p - 1) \o SubSeq(w.tasks, p + 1, n)
  OBVIOUS
<1>4. v = [w EXCEPT !.tasks = g]
  BY <1>1, <1>3 DEF watchdog_unregister_task, RemoveAt
<1>5. /\ g \in Seq(Entry) /\ Len(g) = n - 1
      /\ \A i \in 1 .. n - 1 : g[i] = w.tasks[IF i < p THEN i ELSE i + 1]
  <2>1. /\ SubSeq(w.tasks, 1, p - 1) \in Seq(Entry) /\ Len(SubSeq(w.tasks, 1, p - 1)) = p - 1
        /\ \A i \in 1 .. p - 1 : SubSeq(w.tasks, 1, p - 1)[i] = w.tasks[i]
    BY <1>1, <1>2
  <2>2. /\ SubSeq(w.tasks, p + 1, n) \in Seq(Entry) /\ Len(SubSeq(w.tasks, p + 1, n)) = n - p
        /\ \A i \in 1 .. n - p : SubSeq(w.tasks, p + 1, n)[i] = w.tasks[p + i]
    BY <1>1, <1>2
  <2>3. g \in Seq(Entry) /\ Len(g) = n - 1
    <3>1. \A a, b \in Seq(Entry) : a \o b \in Seq(Entry) /\ Len(a \o b) = Len(a) + Len(b)
      OBVIOUS
    <3>2. g \in Seq(Entry) /\ Len(g) = (p - 1) + (n - p)
      BY <1>3, <2>1, <2>2, <3>1
    <3> QED BY <1>1, <1>2, <3>2
  <2>4. ASSUME NEW i \in 1 .. n - 1
        PROVE  g[i] = w.tasks[IF i < p THEN i ELSE i + 1]
    <3>1. CASE i < p
      <4>1. i \in 1 .. p - 1
        BY <1>1, <1>2, <3>1
      <4>2. g[i] = SubSeq(w.tasks, 1, p - 1)[i]
        BY <1>1, <1>2, <1>3, <2>1, <2>2, <4>1
      <4> QED BY <2>1, <3>1, <4>1, <4>2
    <3>2. CASE ~(i < p)
      <4>1. i - (p - 1) \in 1 .. n - p /\ p + (i - (p - 1)) = i + 1
        BY <1>1, <1>2, <3>2
      <4>2. g[i] = SubSeq(w.tasks, p + 1, n)[i - (p - 1)]
        <5>1. \A a, b \in Seq(Entry) : \A k \in Len(a) + 1 .. Len(a) + Len(b) :
                (a \o b)[k] = b[k - Len(a)]
          OBVIOUS
        <5>2. i \in (p - 1) + 1 .. (p - 1) + (n - p)
          BY <1>1, <1>2, <3>2
        <5>3. PICK a \in Seq(Entry) : a = SubSeq(w.tasks, 1, p - 1) /\ Len(a) = p - 1
          BY <2>1
        <5>4. PICK b \in Seq(Entry) : b = SubSeq(w.tasks, p + 1, n) /\ Len(b) = n - p
          BY <2>2
        <5>5. (a \o b)[i] = b[i - Len(a)]
          BY <5>1, <5>2, <5>3, <5>4
        <5> QED BY <1>3, <5>3, <5>4, <5>5
      <4>3. SubSeq(w.tasks, p + 1, n)[i - (p - 1)] = w.tasks[p + (i - (p - 1))]
        BY <2>2, <4>1
      <4> QED BY <3>2, <4>1, <4>2, <4>3
    <3> QED BY <3>1, <3>2
  <2> QED BY <2>3, <2>4
<1>6. v \in WatchdogContext /\ v.tasks = g /\ v.initialized = w.initialized
  BY <1>4, <1>5 DEF Sound, WatchdogContext
<1>7. ASSUME NEW i \in 1 .. n - 1
      PROVE  \E j \in 1 .. n : j # p /\ g[i] = w.tasks[j] /\ j = (IF i < p THEN i ELSE i + 1)
  BY <1>1, <1>2, <1>5
<1>8. \A j \in 1 .. n : w.tasks[j].task_id = t => j = p
  BY <1>1, SoundFields
<1>9. DOMAIN g = 1 .. n - 1
  BY <1>5
<1>10. Distinct(g)
  <2> SUFFICES ASSUME NEW i \in 1 .. n - 1, NEW k \in 1 .. n - 1, g[i].task_id = g[k].task_id
               PROVE  i = k
    BY <1>9 DEF Distinct
  <2>1. PICK j \in 1 .. n : g[i] = w.tasks[j] /\ j = (IF i < p THEN i ELSE i + 1)
    BY <1>7
  <2>2. PICK l \in 1 .. n : g[k] = w.tasks[l] /\ l = (IF k < p THEN k ELSE k + 1)
    BY <1>7
  <2>3. j = l
    BY <2>1, <2>2, SoundFields
  <2> QED BY <1>1, <1>2, <2>1, <2>2, <2>3
<1>11. Sound(v)
  <2>1. n <= WatchdogMaxTasks /\ w.initialized
    <3>1. w.tasks # <<>>
      BY <1>1, <1>2
    <3> QED BY <3>1 DEF Sound
  <2> QED BY <1>2, <1>5, <1>6, <1>10, <2>1, WatchdogAssumption DEF Sound
<1>12. ASSUME NEW j \in 1 .. n, j # p
       PROVE  \E i \in 1 .. n - 1 : g[i] = w.tasks[j]
  <2>1. CASE j < p
    <3>1. j \in 1 .. n - 1
      BY <1>1, <1>2, <2>1
    <3> QED BY <1>5, <2>1, <3>1
  <2>2. CASE ~(j < p)
    <3>1. j - 1 \in 1 .. n - 1 /\ ~(j - 1 < p) /\ (j - 1) + 1 = j
      BY <1>1, <1>2, <1>12, <2>2
    <3> QED BY <1>5, <3>1
  <2> QED BY <2>1, <2>2
<1>13. RegisteredIds(v) = RegisteredIds(w) \ {t}
  <2>1. RegisteredIds(v) = {g[i].task_id : i \in 1 .. n - 1}
    BY <1>6, <1>9 DEF RegisteredIds
  <2>2. RegisteredIds(w) = {w.tasks[i].task_id : i \in 1 .. n}
    BY SoundFields
  <2>3. ASSUME NEW u \in RegisteredIds(v)  PROVE u \in RegisteredIds(w) \ {t}
    BY <1>7, <1>8, <2>1, <2>2
  <2>4. ASSUME NEW u \in RegisteredIds(w) \ {t}  PROVE u \in RegisteredIds(v)
    <3>1. PICK j \in 1 .. n : w.tasks[j].task_id = u
      BY <2>2
    <3>2. j # p
      BY <1>1, <3>1
    <3>3. PICK i \in 1 .. n - 1 : g[i] = w.tasks[j]
      BY <1>12, <3>2
    <3> QED BY <2>1, <3>1, <3>3
  <2> QED BY <2>3, <2>4
<1>14. ASSUME NEW u \in RegisteredIds(v)
       PROVE  EntryOf(v, u) = EntryOf(w, u)
  <2>1. PICK i \in 1 .. Len(v.tasks) : v.tasks[i].task_id = u /\ EntryOf(v, u) = v.tasks[i]
    BY <1>11, FoundOf
  <2>2. PICK j \in 1 .. n : g[i] = w.tasks[j]
    BY <1>5, <1>6, <1>7, <2>1
  <2>3. EntryOf(w, w.tasks[j].task_id) = w.tasks[j]
    BY Found
  <2> QED BY <1>6, <2>1, <2>2, <2>3
<1>15. \A i \in 1 .. Len(v.tasks) : \E j \in 1 .. n : v.tasks[i] = w.tasks[j] /\ w.tasks[j].task_id # t
  BY <1>5, <1>6, <1>7, <1>8
<1> QED BY <1>11, <1>13, <1>14, <1>15

(* global_state is the worst of the entries, whatever their order. *)
LEMMA GlobalTells ==
  ASSUME NEW tasks \in Seq(Entry), NEW now
  PROVE  /\ GlobalState(tasks, now) = CRITICAL
              <=> \E j \in 1 .. Len(tasks) : IsLate(tasks[j], now) /\ tasks[j].is_critical
         /\ GlobalState(tasks, now) = OK <=> \A j \in 1 .. Len(tasks) : ~IsLate(tasks[j], now)
<1> DEFINE n == Len(tasks)
           Late(j) == IsLate(tasks[j], now)
           Grave(j) == IsLate(tasks[j], now) /\ tasks[j].is_critical
<1>1. n \in Nat
  OBVIOUS
<1>2. PICK f \in [0 .. n -> {OK, WARNING, CRITICAL}] :
        /\ f[0] = OK
        /\ \A k \in 1 .. n : f[k] = GlobalAfter(f[k - 1], tasks[k], now)
        /\ f[n] = GlobalState(tasks, now)
  BY GlobalUnfolds
<1> DEFINE Holds == {k \in 0 .. n : /\ f[k] = CRITICAL <=> \E j \in 1 .. k : Grave(j)
                                    /\ f[k] = OK <=> \A j \in 1 .. k : ~Late(j)}
<1>3. 0 \in Holds
  <2>1. f[0] = OK /\ OK # CRITICAL /\ 0 \in 0 .. n
    BY <1>1, <1>2 DEF OK, CRITICAL
  <2> QED BY <2>1
<1>4. ASSUME NEW k \in Nat, k < n, k \in Holds
      PROVE  k + 1 \in Holds
  <2>1. k + 1 \in 1 .. n /\ (k + 1) - 1 = k /\ k + 1 \in 0 .. n /\ k \in 0 .. n
    BY <1>1, <1>4
  <2>2. f[k + 1] = GlobalAfter(f[k], tasks[k + 1], now)
    BY <1>2, <2>1
  <2>3. 1 .. (k + 1) = (1 .. k) \cup {k + 1}
    BY <2>1
  <2>4. f[k] \in {OK, WARNING, CRITICAL}
    BY <1>2, <2>1
  <2>5. f[k + 1] = IF ~Late(k + 1) THEN f[k]
                   ELSE IF Grave(k + 1) THEN CRITICAL
                   ELSE IF f[k] < WARNING THEN WARNING ELSE f[k]
    BY <2>2 DEF GlobalAfter
  <2>6. Grave(k + 1) => Late(k + 1)
    OBVIOUS
  <2> HIDE DEF Late, Grave
  <2>7. f[k + 1] = CRITICAL <=> f[k] = CRITICAL \/ Grave(k + 1)
    BY <2>4, <2>5, <2>6 DEF OK, WARNING, CRITICAL
  <2>8. f[k + 1] = OK <=> f[k] = OK /\ ~Late(k + 1)
    BY <2>4, <2>5, <2>6 DEF OK, WARNING, CRITICAL
  <2>9. /\ (\E j \in 1 .. (k + 1) : Grave(j)) <=> (\E j \in 1 .. k : Grave(j)) \/ Grave(k + 1)
        /\ (\A j \in 1 .. (k + 1) : ~Late(j)) <=> (\A j \in 1 .. k : ~Late(j)) /\ ~Late(k + 1)
    BY <2>3
  <2> QED BY <1>4, <2>1, <2>7, <2>8, <2>9
<1>5. n \in Holds
  <2> HIDE DEF Holds
  <2>1. \A k \in 0 .. n : k \in Holds
    BY <1>1, <1>3, <1>4, Induction
  <2> QED BY <1>1, <2>1
<1> QED BY <1>2, <1>5

-----------------------------------------------------------------------------
(* Any caller, any order                                                   *)

(* A task with missed kicks was met late.                                  *)
Accused(e, met) == Blank(e) \/ e.task_id \in met

Fair(w, met) == \A i \in 1 .. Len(w.tasks) : Fits(w.tasks[i]) /\ Accused(w.tasks[i], met)

(* The times in the entries are right.                                     *)
Counts ==
  /\ tick \in 0 .. TickModulus - 1
  /\ silence \in [TaskIds -> 0 .. SilenceCap]
  /\ AllTimed(watchdog, tick, silence)

(* The inductive invariant: the entries tell the silence of their tasks up *)
(* to the wrap of the tick, so that a check only counts against a task that*)
(* is truly late, and whoever has something counted against it was met.    *)
WatchdogIInv ==
  /\ Sound(watchdog) /\ Counts
  /\ late \subseteq TaskIds /\ Fair(watchdog, late)

LEMMA JustKicked ==
  ASSUME NEW e, NEW now \in 0 .. TickModulus - 1, NEW quiet,
         e.last_kick_time = now, quiet[e.task_id] = 0
  PROVE  Timed(e, now, quiet)
<1>1. Elapsed(now, now) = 0 /\ 0 < TickModulus
  BY ElapsedValue, TicksAssumption
<1> QED BY <1>1 DEF Timed

(* A late entry belongs to a task that is truly late; unless one has been  *)
(* silent for a whole wrap, it is late only then.                          *)
LEMMA LateIsTrue ==
  ASSUME Sound(watchdog), Counts, NEW i \in 1 .. Len(watchdog.tasks)
  PROVE  LET t == watchdog.tasks[i].task_id
         IN  /\ IsLate(watchdog.tasks[i], tick) => t \in TrulyLate(watchdog)
             /\ silence[t] < TickModulus =>
                  /\ Elapsed(tick, watchdog.tasks[i].last_kick_time) = silence[t]
                  /\ IsLate(watchdog.tasks[i], tick) <=> t \in TrulyLate(watchdog)
<1> DEFINE e == watchdog.tasks[i]
           t == e.task_id
<1>1. e \in Entry /\ t \in TaskIds /\ i \in DOMAIN watchdog.tasks
  BY SoundFields
<1>2. t \in RegisteredIds(watchdog) /\ EntryOf(watchdog, t) = e
  BY Found
<1>3. Timed(e, tick, silence)
  BY <1>1 DEF Counts, AllTimed
<1>4. e.timeout_ms \in Nat /\ e.last_kick_time \in 0 .. TickModulus - 1
  BY <1>1 DEF Entry
<1>5. silence[t] \in Nat
  <2>1. silence[t] \in 0 .. SilenceCap
    BY <1>1 DEF Counts
  <2> QED BY <2>1, WatchdogAssumption
<1>6. PICK el \in Nat : el = Elapsed(tick, e.last_kick_time)
  <2>1. Elapsed(tick, e.last_kick_time) \in 0 .. TickModulus - 1
    BY <1>4, ElapsedValue DEF Counts
  <2> QED BY <2>1, TicksAssumption
<1>7. el <= silence[t] /\ (silence[t] < TickModulus => el = silence[t])
  BY <1>3, <1>6 DEF Timed
<1>8. t \in TrulyLate(watchdog) <=> silence[t] > e.timeout_ms
  BY <1>2 DEF TrulyLate
<1>9. IsLate(e, tick) <=> el > e.timeout_ms
  BY <1>6 DEF IsLate
<1> QED BY <1>4, <1>5, <1>6, <1>7, <1>8, <1>9

LEMMA HeardTypes ==
  ASSUME NEW T, Heard(T), silence \in [TaskIds -> 0 .. SilenceCap], late \subseteq TaskIds
  PROVE  /\ silence' \in [TaskIds -> 0 .. SilenceCap] /\ late' \subseteq TaskIds
         /\ \A t \in TaskIds : silence'[t] = IF t \in T THEN 0 ELSE silence[t]
         /\ \A t \in late : t \in T \/ t \in late'
<1>1. 0 \in 0 .. SilenceCap
  BY WatchdogAssumption
<1>2. silence' = [t \in TaskIds |-> IF t \in T THEN 0 ELSE silence[t]] /\ late' = late \ T
  BY DEF Heard
<1>3. silence' \in [TaskIds -> 0 .. SilenceCap]
  BY <1>1, <1>2
<1> QED BY <1>2, <1>3

(* Time passes. *)
LEMMA Ages ==
  ASSUME Sound(watchdog), Counts, tick' = (tick + 1) % TickModulus,
         silence' = Aged(watchdog), UNCHANGED watchdog
  PROVE  Counts'
<1>0. TickModulus \in Nat \ {0} /\ SilenceCap \in Nat /\ SilenceCap >= TickModulus
  BY TicksAssumption, WatchdogAssumption
<1>1. tick' \in 0 .. TickModulus - 1
  BY ElapsedNext DEF Counts
<1>2. ASSUME NEW t \in TaskIds
      PROVE  /\ silence[t] \in 0 .. SilenceCap
             /\ silence'[t] = IF t \in RegisteredIds(watchdog) /\ silence[t] < SilenceCap
                              THEN silence[t] + 1 ELSE silence[t]
             /\ silence'[t] \in 0 .. SilenceCap
  <2>1. silence[t] \in 0 .. SilenceCap
    BY DEF Counts
  <2>2. silence'[t] = IF t \in RegisteredIds(watchdog) /\ silence[t] < SilenceCap
                      THEN silence[t] + 1 ELSE silence[t]
    BY DEF Aged
  <2> QED BY <1>0, <2>1, <2>2
<1>3. silence' \in [TaskIds -> 0 .. SilenceCap]
  <2>1. silence' = [t \in TaskIds |-> silence'[t]]
    BY DEF Aged
  <2> QED BY <1>2, <2>1
<1>4. ASSUME NEW i \in DOMAIN watchdog.tasks
      PROVE  Timed(watchdog.tasks[i], tick', silence')
  <2> DEFINE e == watchdog.tasks[i]
             t == e.task_id
  <2>1. e \in Entry /\ t \in TaskIds /\ t \in RegisteredIds(watchdog)
    <3>1. i \in 1 .. Len(watchdog.tasks)
      BY SoundFields
    <3> QED BY <3>1, SoundFields
  <2>2. PICK since \in 0 .. TickModulus - 1 : since = e.last_kick_time
    BY <2>1 DEF Entry
  <2>3. Elapsed(tick', since)
          = IF Elapsed(tick, since) = TickModulus - 1 THEN 0 ELSE Elapsed(tick, since) + 1
    BY ElapsedNext DEF Counts
  <2>4. PICK el \in 0 .. TickModulus - 1 : el = Elapsed(tick, since)
    BY ElapsedValue DEF Counts
  <2>5. el <= silence[t] /\ (silence[t] < TickModulus => el = silence[t])
    BY <2>2, <2>4 DEF Counts, AllTimed, Timed
  <2>6. Elapsed(tick', since) = IF el = TickModulus - 1 THEN 0 ELSE el + 1
    BY <2>3, <2>4
  <2>7. /\ silence[t] \in Nat /\ silence[t] <= SilenceCap
        /\ silence'[t] = IF silence[t] < SilenceCap THEN silence[t] + 1 ELSE silence[t]
    BY <1>0, <1>2, <2>1
  <2>8. Elapsed(tick', since) <= silence'[t]
    BY <1>0, <2>4, <2>5, <2>6, <2>7
  <2>9. silence'[t] < TickModulus => Elapsed(tick', since) = silence'[t]
    BY <1>0, <2>4, <2>5, <2>6, <2>7
  <2> QED BY <2>2, <2>8, <2>9 DEF Timed
<1> QED BY <1>1, <1>3, <1>4 DEF Counts, AllTimed

(* A kick by t, or a call that does as if the tasks in T had kicked.       *)
LEMMA HeardCounts ==
  ASSUME Sound(watchdog), Sound(watchdog'), Counts, UNCHANGED tick, NEW T, Heard(T), late \subseteq TaskIds,
         \A i \in 1 .. Len(watchdog.tasks)' :
           LET c == watchdog'.tasks[i]
           IN  \/ c.task_id \in T /\ c.last_kick_time = tick
               \/ \E j \in 1 .. Len(watchdog.tasks) :
                    /\ c.task_id = watchdog.tasks[j].task_id /\ c.task_id \notin T
                    /\ c.last_kick_time = watchdog.tasks[j].last_kick_time
  PROVE  Counts'
<1>1. /\ silence' \in [TaskIds -> 0 .. SilenceCap]
      /\ \A t \in TaskIds : silence'[t] = IF t \in T THEN 0 ELSE silence[t]
  BY HeardTypes DEF Counts
<1>2. tick \in 0 .. TickModulus - 1
  BY DEF Counts
<1>3. ASSUME NEW i \in DOMAIN watchdog'.tasks
      PROVE  Timed(watchdog'.tasks[i], tick, silence')
  <2>1. PICK c : c = watchdog'.tasks[i]
    OBVIOUS
  <2>2. i \in 1 .. Len(watchdog.tasks)' /\ c \in Entry /\ c.task_id \in TaskIds
    BY <2>1, SoundFields
  <2>3. CASE c.task_id \in T /\ c.last_kick_time = tick
    <3>1. silence'[c.task_id] = 0
      BY <1>1, <2>2, <2>3
    <3> QED BY <1>2, <2>1, <2>3, <3>1, JustKicked
  <2>4. ASSUME NEW j \in 1 .. Len(watchdog.tasks),
               c.task_id = watchdog.tasks[j].task_id, c.task_id \notin T,
               c.last_kick_time = watchdog.tasks[j].last_kick_time
        PROVE  Timed(c, tick, silence')
    <3>1. j \in DOMAIN watchdog.tasks
      BY SoundFields
    <3>2. Timed(watchdog.tasks[j], tick, silence)
      BY <3>1 DEF Counts, AllTimed
    <3>3. silence'[c.task_id] = silence[c.task_id]
      BY <1>1, <2>2, <2>4
    <3> QED BY <2>4, <3>2, <3>3 DEF Timed
  <2> QED BY <2>1, <2>2, <2>3, <2>4
<1> QED BY <1>1, <1>2, <1>3 DEF Counts, AllTimed

LEMMA WatchdogStarts == WatchdogInit => WatchdogIInv
<1> SUFFICES ASSUME WatchdogInit  PROVE WatchdogIInv
  OBVIOUS
<1>1. TickModulus \in Nat \ {0} /\ SilenceCap \in Nat /\ WatchdogMaxTasks \in Nat
  BY TicksAssumption, WatchdogAssumption
<1>2. watchdog = ZeroWatchdog /\ tick = 0 /\ silence = [t \in TaskIds |-> 0] /\ late = {}
  BY DEF WatchdogInit
<1>3. /\ watchdog.tasks = <<>> /\ Len(watchdog.tasks) = 0 /\ DOMAIN watchdog.tasks = {}
  BY <1>2 DEF ZeroWatchdog
<1>4. watchdog \in WatchdogContext
  <2>1. 0 \in 0 .. TickModulus - 1 /\ <<>> \in Seq(Entry)
    BY <1>1
  <2> QED BY <1>2, <2>1 DEF ZeroWatchdog, WatchdogContext
<1>5. Sound(watchdog)
  BY <1>1, <1>3, <1>4 DEF Sound, Distinct
<1>6. Counts
  <2>1. 0 \in 0 .. SilenceCap /\ 0 \in 0 .. TickModulus - 1
    BY <1>1
  <2> QED BY <1>2, <1>3, <2>1 DEF Counts, AllTimed
<1>7. Fair(watchdog, late)
  BY <1>3 DEF Fair
<1> QED BY <1>2, <1>5, <1>6, <1>7 DEF WatchdogIInv

LEMMA SameTicks ==
  ASSUME Counts, Sound(watchdog'), watchdog'.tasks = watchdog.tasks, UNCHANGED <<tick, silence>>
  PROVE  Counts'
BY DEF Counts, AllTimed

LEMMA WatchdogStep ==
  ASSUME WatchdogIInv, [WatchdogNext]_watchdogVars
  PROVE  WatchdogIInv'
<1>0. /\ Sound(watchdog) /\ Counts /\ late \subseteq TaskIds /\ Fair(watchdog, late)
      /\ tick \in 0 .. TickModulus - 1 /\ silence \in [TaskIds -> 0 .. SilenceCap]
  BY DEF WatchdogIInv, Counts
<1>00. /\ Len(watchdog.tasks) \in Nat
       /\ \A i \in 1 .. Len(watchdog.tasks) :
            /\ watchdog.tasks[i].task_id \in TaskIds
            /\ watchdog.tasks[i].task_id \in RegisteredIds(watchdog)
            /\ watchdog.tasks[i] \in Entry
            /\ Fits(watchdog.tasks[i]) /\ Accused(watchdog.tasks[i], late)
  BY <1>0, SoundFields, Found DEF Fair
(* Calls that change no entry and no history. *)
<1>1. ASSUME Sound(watchdog'), watchdog'.tasks = watchdog.tasks, UNCHANGED <<tick, history>>
      PROVE  WatchdogIInv'
  <2>1. UNCHANGED <<tick, silence, late>>
    BY <1>1 DEF history
  <2>2. Counts'
    BY <1>0, <1>1, <2>1, SameTicks
  <2> QED BY <1>0, <1>1, <2>1, <2>2 DEF WatchdogIInv, Fair
<1>2. CASE Start
  <2>1. PICK u : u = watchdog_init(watchdog)
    OBVIOUS
  <2>2. Sound(u) /\ u.initialized /\ u.tasks = watchdog.tasks
    BY <1>0, <2>1, Initializes
  <2>3. watchdog' = [u EXCEPT !.enabled = TRUE, !.last_check_time = tick]
    BY <1>2, <2>1 DEF Start, watchdog_start
  <2>4. /\ watchdog' \in WatchdogContext /\ watchdog'.tasks = u.tasks
        /\ watchdog'.initialized = u.initialized
    BY <1>0, <2>2, <2>3 DEF Sound, WatchdogContext
  <2>5. Sound(watchdog')
    BY <2>2, <2>4 DEF Sound
  <2> QED BY <1>1, <1>2, <2>2, <2>4, <2>5 DEF Start
<1>3. CASE Stop
  <2>1. watchdog' = [watchdog EXCEPT !.enabled = FALSE]
    BY <1>3 DEF Stop, watchdog_stop
  <2>2. /\ watchdog' \in WatchdogContext /\ watchdog'.tasks = watchdog.tasks
        /\ watchdog'.initialized = watchdog.initialized
    BY <1>0, <2>1 DEF Sound, WatchdogContext
  <2>3. Sound(watchdog')
    BY <1>0, <2>2 DEF Sound
  <2> QED BY <1>1, <1>3, <2>2, <2>3 DEF Stop
<1>4. CASE watchdog_set_check_interval
  <2>1. PICK ms \in CheckIntervals : watchdog' = [watchdog EXCEPT !.check_interval_ms = ms]
    BY <1>4 DEF watchdog_set_check_interval
  <2>2. ms \in Nat
    BY WatchdogAssumption
  <2>3. /\ watchdog' \in WatchdogContext /\ watchdog'.tasks = watchdog.tasks
        /\ watchdog'.initialized = watchdog.initialized
    BY <1>0, <2>1, <2>2 DEF Sound, WatchdogContext
  <2>4. Sound(watchdog')
    BY <1>0, <2>3 DEF Sound
  <2> QED BY <1>1, <1>4, <2>3, <2>4 DEF watchdog_set_check_interval
<1>5. CASE Check
  <2>1. PICK v : v = watchdog_update(watchdog, tick)
    OBVIOUS
  <2>2. /\ Sound(v) /\ Len(v.tasks) = Len(watchdog.tasks)
        /\ \A i \in 1 .. Len(watchdog.tasks) : v.tasks[i] = CheckEntry(watchdog.tasks[i], tick)
    BY <1>0, <1>5, <2>1, Examines DEF Check
  <2>3. watchdog' = v /\ late' = late \cup TrulyLate(watchdog) /\ UNCHANGED <<tick, silence>>
    BY <1>5, <2>1 DEF Check
  <2>4. ASSUME NEW i \in 1 .. Len(watchdog.tasks)
        PROVE  /\ v.tasks[i].task_id = watchdog.tasks[i].task_id
               /\ v.tasks[i].last_kick_time = watchdog.tasks[i].last_kick_time
               /\ Fits(v.tasks[i]) /\ Accused(v.tasks[i], late')
    <3>1. PICK e \in Entry : e = watchdog.tasks[i]
      BY <1>00
    <3>2. v.tasks[i] = CheckEntry(e, tick)
      BY <2>2, <3>1
    <3>3. /\ CheckEntry(e, tick).task_id = e.task_id
          /\ CheckEntry(e, tick).last_kick_time = e.last_kick_time
          /\ Fits(CheckEntry(e, tick))
          /\ ~IsLate(e, tick) /\ Blank(e) => Blank(CheckEntry(e, tick))
      BY <1>0, <1>00, <3>1, CheckedEntry DEF SameTask
    <3>4. IsLate(e, tick) => e.task_id \in TrulyLate(watchdog)
      BY <1>0, <3>1, LateIsTrue
    <3>5. Blank(e) \/ e.task_id \in late
      BY <1>00, <3>1 DEF Accused
    <3> QED BY <2>3, <3>1, <3>2, <3>3, <3>4, <3>5 DEF Accused
  <2>5. Counts'
    <3>1. \A i \in DOMAIN v.tasks : Timed(v.tasks[i], tick, silence)
      BY <1>0, <2>2, <2>4, SoundFields DEF Counts, AllTimed, Timed
    <3> QED BY <1>0, <2>3, <3>1 DEF Counts, AllTimed
  <2>6. late' \subseteq TaskIds
    BY <1>0, <2>3, SoundFields DEF TrulyLate
  <2>7. Fair(watchdog', late')
    BY <2>2, <2>3, <2>4 DEF Fair
  <2> QED BY <2>2, <2>3, <2>5, <2>6, <2>7 DEF WatchdogIInv
<1>6. CASE Reset
  <2> DEFINE T == RegisteredIds(watchdog)
  <2>1. PICK v : v = watchdog_reset(watchdog, tick)
    OBVIOUS
  <2>2. /\ Sound(v) /\ Len(v.tasks) = Len(watchdog.tasks)
        /\ \A i \in 1 .. Len(watchdog.tasks) :
             /\ v.tasks[i].task_id = watchdog.tasks[i].task_id
             /\ v.tasks[i].last_kick_time = tick
             /\ Blank(v.tasks[i]) /\ Fits(v.tasks[i])
    BY <1>0, <2>1, Resets
  <2>3. watchdog' = v /\ Heard(T) /\ UNCHANGED tick
    BY <1>6, <2>1 DEF Reset
  <2>4. late' \subseteq TaskIds
    BY <1>0, <2>3, HeardTypes
  <2>5. Counts'
    <3>1. \A i \in 1 .. Len(watchdog.tasks)' :
            watchdog'.tasks[i].task_id \in T /\ watchdog'.tasks[i].last_kick_time = tick
      BY <1>00, <2>2, <2>3
    <3> HIDE DEF T
    <3> QED BY <1>0, <2>2, <2>3, <3>1, HeardCounts
  <2>6. Fair(watchdog', late')
    BY <2>2, <2>3 DEF Fair, Accused
  <2> QED BY <2>2, <2>3, <2>4, <2>5, <2>6 DEF WatchdogIInv
<1>7. CASE Tick
  <2>1. tick' = (tick + 1) % TickModulus /\ silence' = Aged(watchdog) /\ UNCHANGED <<watchdog, late>>
    BY <1>7 DEF Tick
  <2>2. Counts'
    BY <1>0, <2>1, Ages
  <2> QED BY <1>0, <2>1, <2>2 DEF WatchdogIInv
<1>8. ASSUME NEW t \in TaskIds, Register(t)
      PROVE  WatchdogIInv'
  <2>1. PICK ms \in Timeouts :
          watchdog' = watchdog_register_task(watchdog, t, ms, t \in CriticalIds, tick)
    BY <1>8 DEF Register
  <2>2. ms \in Nat /\ Len(watchdog.tasks) \in Nat
    BY <1>00, WatchdogAssumption
  <2>3. t \notin RegisteredIds(watchdog) /\ Heard({t}) /\ UNCHANGED tick
    BY <1>8 DEF Register
  <2>40. PICK crit \in BOOLEAN : crit = (t \in CriticalIds)
    <3>1. (t \in CriticalIds) \in BOOLEAN
      OBVIOUS
    <3> QED BY <3>1
  <2>41. PICK v : v = watchdog_register_task(watchdog, t, ms, crit, tick)
    OBVIOUS
  <2>42. watchdog' = v
    BY <2>1, <2>40, <2>41
  <2>4. /\ Sound(v)
        /\ RefusesTask(watchdog, t) => v.tasks = watchdog.tasks
        /\ ~RefusesTask(watchdog, t) =>
             /\ Len(v.tasks) = Len(watchdog.tasks) + 1
             /\ \A i \in 1 .. Len(watchdog.tasks) : v.tasks[i] = watchdog.tasks[i]
             /\ v.tasks[Len(watchdog.tasks) + 1].task_id = t
             /\ v.tasks[Len(watchdog.tasks) + 1].last_kick_time = tick
             /\ Blank(v.tasks[Len(watchdog.tasks) + 1]) /\ Fits(v.tasks[Len(watchdog.tasks) + 1])
    <3>1. Sound(watchdog) /\ t \in TaskIds /\ ms \in Nat /\ crit \in BOOLEAN
          /\ tick \in 0 .. TickModulus - 1
      BY <1>0, <2>2
    <3>2. Sound(v) /\ (RefusesTask(watchdog, t) => v.tasks = watchdog.tasks)
      BY <3>1, <2>41, Registers
    <3>3. PICK e : e = v.tasks[Len(watchdog.tasks) + 1]
      OBVIOUS
    <3>4. ~RefusesTask(watchdog, t) =>
             /\ Len(v.tasks) = Len(watchdog.tasks) + 1
             /\ \A i \in 1 .. Len(watchdog.tasks) : v.tasks[i] = watchdog.tasks[i]
             /\ e.task_id = t /\ e.last_kick_time = tick /\ Blank(e) /\ Fits(e)
      BY <3>1, <2>41, <3>3, Registers
    <3> QED BY <3>2, <3>3, <3>4
  <2>5. ASSUME NEW i \in 1 .. Len(watchdog'.tasks)
        PROVE  \/ /\ watchdog'.tasks[i].task_id = t /\ watchdog'.tasks[i].last_kick_time = tick
                  /\ Blank(watchdog'.tasks[i]) /\ Fits(watchdog'.tasks[i])
               \/ i \in 1 .. Len(watchdog.tasks) /\ watchdog'.tasks[i] = watchdog.tasks[i]
    <3>1. CASE RefusesTask(watchdog, t)
      BY <2>4, <2>42, <3>1
    <3>2. CASE ~RefusesTask(watchdog, t)
      <4>1. i \in 1 .. Len(watchdog.tasks) \/ i = Len(watchdog.tasks) + 1
        BY <2>2, <2>4, <2>42, <3>2
      <4> QED BY <2>4, <2>42, <3>2, <4>1
    <3> QED BY <3>1, <3>2
  <2>6. late' \subseteq TaskIds /\ \A u \in late : u = t \/ u \in late'
    BY <1>0, <2>3, HeardTypes
  <2>7. \A i \in 1 .. Len(watchdog.tasks) : watchdog.tasks[i].task_id # t
    BY <1>00, <2>3
  <2>8. Counts'
    <3>1. \A i \in 1 .. Len(watchdog.tasks)' :
            LET c == watchdog'.tasks[i]
            IN  \/ c.task_id \in {t} /\ c.last_kick_time = tick
                \/ \E j \in 1 .. Len(watchdog.tasks) :
                     /\ c.task_id = watchdog.tasks[j].task_id /\ c.task_id \notin {t}
                     /\ c.last_kick_time = watchdog.tasks[j].last_kick_time
      BY <2>5, <2>7
    <3> QED BY <1>0, <2>3, <2>4, <2>42, <3>1, HeardCounts
  <2>9. Fair(watchdog', late')
    BY <1>00, <2>5, <2>6, <2>7 DEF Fair, Accused
  <2> QED BY <2>4, <2>42, <2>6, <2>8, <2>9 DEF WatchdogIInv
<1>9. ASSUME NEW t \in TaskIds, RegisterAgain(t)
      PROVE  WatchdogIInv'
  <2>1. PICK ms \in Timeouts :
          watchdog' = watchdog_register_task(watchdog, t, ms, TRUE, tick)
    BY <1>9 DEF RegisterAgain
  <2>2. ms \in Nat /\ RefusesTask(watchdog, t) /\ UNCHANGED <<tick, history>>
    BY <1>9, WatchdogAssumption DEF RegisterAgain, RefusesTask
  <2>3. PICK crit \in BOOLEAN : crit = TRUE
    OBVIOUS
  <2>4. PICK v : v = watchdog_register_task(watchdog, t, ms, crit, tick)
    OBVIOUS
  <2>5. watchdog' = v
    BY <2>1, <2>3, <2>4
  <2>6. Sound(v) /\ (RefusesTask(watchdog, t) => v.tasks = watchdog.tasks)
    <3>1. Sound(watchdog) /\ t \in TaskIds /\ ms \in Nat /\ crit \in BOOLEAN
          /\ tick \in 0 .. TickModulus - 1
      BY <1>0, <2>2
    <3> QED BY <3>1, <2>4, Registers
  <2> QED BY <1>1, <2>2, <2>5, <2>6
<1>10. ASSUME NEW t \in TaskIds, Unregister(t)
       PROVE  WatchdogIInv'
  <2>1. /\ t \in RegisteredIds(watchdog) /\ watchdog' = watchdog_unregister_task(watchdog, t)
        /\ Heard({t}) /\ UNCHANGED tick
    BY <1>10 DEF Unregister
  <2>2. /\ Sound(watchdog')
        /\ \A i \in 1 .. Len(watchdog'.tasks) : \E j \in 1 .. Len(watchdog.tasks) :
             watchdog'.tasks[i] = watchdog.tasks[j] /\ watchdog.tasks[j].task_id # t
    <3>1. PICK v : v = watchdog_unregister_task(watchdog, t)
      OBVIOUS
    <3>2. /\ Sound(v)
          /\ \A i \in 1 .. Len(v.tasks) : \E j \in 1 .. Len(watchdog.tasks) :
               v.tasks[i] = watchdog.tasks[j] /\ watchdog.tasks[j].task_id # t
      BY <1>0, <2>1, <3>1, Unregisters
    <3> QED BY <2>1, <3>1, <3>2
  <2>3. late' \subseteq TaskIds /\ \A u \in late : u = t \/ u \in late'
    BY <1>0, <2>1, HeardTypes
  <2>4. Counts'
    <3>1. \A i \in 1 .. Len(watchdog.tasks)' :
            LET c == watchdog'.tasks[i]
            IN  \E j \in 1 .. Len(watchdog.tasks) :
                  /\ c.task_id = watchdog.tasks[j].task_id /\ c.task_id \notin {t}
                  /\ c.last_kick_time = watchdog.tasks[j].last_kick_time
      BY <2>2
    <3> QED BY <1>0, <2>1, <2>2, <3>1, HeardCounts
  <2>5. Fair(watchdog', late')
    BY <1>00, <2>2, <2>3 DEF Fair, Accused
  <2> QED BY <2>2, <2>3, <2>4, <2>5 DEF WatchdogIInv
<1>11. ASSUME NEW t \in TaskIds, Kick(t)
       PROVE  WatchdogIInv'
  <2>1. /\ t \in RegisteredIds(watchdog) /\ watchdog' = watchdog_kick(watchdog, t, tick)
        /\ Heard({t}) /\ UNCHANGED tick
    BY <1>11 DEF Kick
  <2>2. watchdog.initialized
    <3>1. watchdog.tasks # <<>>
      BY <2>1 DEF RegisteredIds
    <3> QED BY <1>0, <3>1 DEF Sound
  <2>3. /\ Sound(watchdog') /\ Len(watchdog'.tasks) = Len(watchdog.tasks)
        /\ \A i \in 1 .. Len(watchdog.tasks) :
             watchdog'.tasks[i] = IF watchdog.tasks[i].task_id = t
                                  THEN Kicked(watchdog.tasks[i], tick) ELSE watchdog.tasks[i]
    BY <1>0, <2>1, <2>2, Kicks
  <2>4. ASSUME NEW i \in 1 .. Len(watchdog.tasks)
        PROVE  \/ /\ watchdog'.tasks[i].task_id = t /\ watchdog'.tasks[i].last_kick_time = tick
                  /\ Blank(watchdog'.tasks[i]) /\ Fits(watchdog'.tasks[i])
               \/ watchdog'.tasks[i] = watchdog.tasks[i] /\ watchdog.tasks[i].task_id # t
    <3>1. PICK e \in Entry : e = watchdog.tasks[i]
      BY <1>00
    <3>2. /\ Kicked(e, tick).task_id = e.task_id /\ Kicked(e, tick).last_kick_time = tick
          /\ Blank(Kicked(e, tick)) /\ Fits(Kicked(e, tick))
      BY <1>0, KickedEntry DEF SameTask
    <3> QED BY <2>3, <3>1, <3>2
  <2>5. late' \subseteq TaskIds /\ \A u \in late : u = t \/ u \in late'
    BY <1>0, <2>1, HeardTypes
  <2>6. Counts'
    <3>1. \A i \in 1 .. Len(watchdog.tasks)' :
            LET c == watchdog'.tasks[i]
            IN  \/ c.task_id \in {t} /\ c.last_kick_time = tick
                \/ \E j \in 1 .. Len(watchdog.tasks) :
                     /\ c.task_id = watchdog.tasks[j].task_id /\ c.task_id \notin {t}
                     /\ c.last_kick_time = watchdog.tasks[j].last_kick_time
      BY <2>3, <2>4
    <3> QED BY <1>0, <2>1, <2>3, <3>1, HeardCounts
  <2>7. Fair(watchdog', late')
    BY <1>00, <2>3, <2>4, <2>5 DEF Fair, Accused
  <2> QED BY <2>3, <2>5, <2>6, <2>7 DEF WatchdogIInv
<1>12. ASSUME NEW t \in TaskIds, SetTaskTimeout(t)
       PROVE  WatchdogIInv'
  <2>1. PICK ms \in Timeouts : watchdog' = watchdog_set_task_timeout(watchdog, t, ms)
    BY <1>12 DEF SetTaskTimeout
  <2>2. UNCHANGED <<tick, silence, late>>
    BY <1>12 DEF SetTaskTimeout, history
  <2>3. /\ Sound(watchdog') /\ Len(watchdog'.tasks) = Len(watchdog.tasks)
        /\ \A i \in 1 .. Len(watchdog.tasks) :
             /\ watchdog'.tasks[i].task_id = watchdog.tasks[i].task_id
             /\ watchdog'.tasks[i].last_kick_time = watchdog.tasks[i].last_kick_time
             /\ watchdog'.tasks[i].state = watchdog.tasks[i].state
             /\ watchdog'.tasks[i].missed_kicks = watchdog.tasks[i].missed_kicks
    <3>1. ms \in Nat
      BY WatchdogAssumption
    <3> QED BY <1>0, <2>1, <3>1, SetsTimeout
  <2>4. Counts'
    <3>1. \A i \in DOMAIN watchdog'.tasks : Timed(watchdog'.tasks[i], tick, silence)
      BY <1>0, <2>3, SoundFields DEF Counts, AllTimed, Timed
    <3> QED BY <1>0, <2>2, <3>1 DEF Counts, AllTimed
  <2>5. Fair(watchdog', late')
    BY <1>00, <2>2, <2>3 DEF Fair, Accused, Fits, Blank
  <2> QED BY <1>0, <2>2, <2>3, <2>4, <2>5 DEF WatchdogIInv
<1>13. CASE UNCHANGED watchdogVars
  BY <1>0, <1>1, <1>13 DEF watchdogVars
<1> QED
  BY <1>2, <1>3, <1>4, <1>5, <1>6, <1>7, <1>8, <1>9, <1>10, <1>11, <1>12, <1>13 DEF WatchdogNext

(* The inductive invariant holds whatever is called in whatever order      *)
(* (watchdog.c).                                                           *)
THEOREM WatchdogInvariance == WatchdogSpec => []WatchdogIInv
<1>1. WatchdogIInv /\ [WatchdogNext]_watchdogVars => WatchdogIInv'
  BY WatchdogStep
<1> QED BY <1>1, WatchdogStarts, PTL DEF WatchdogSpec

(* Entries are well formed, at most WatchdogMaxTasks, and one for each task*)
(* (watchdog_register_task, watchdog_unregister_task).                     *)
THEOREM WatchdogTypeCorrect == WatchdogSpec => []WatchdogTypeOK
<1>1. WatchdogIInv => WatchdogTypeOK
  BY DEF WatchdogIInv, WatchdogTypeOK, Sound, Counts
<1> QED BY <1>1, WatchdogInvariance, PTL

(* A task with missed kicks was truly silent for longer than its time-out  *)
(* at some check since it last kicked (watchdog_update, watchdog_kick).    *)
THEOREM NobodyAccusedWrongly == WatchdogSpec => []NoFalseTimeout
<1>1. ASSUME WatchdogIInv  PROVE NoFalseTimeout
  <2>1. \A i \in 1 .. Len(watchdog.tasks) : Accused(watchdog.tasks[i], late)
    BY <1>1 DEF WatchdogIInv, Fair
  <2>2. DOMAIN watchdog.tasks = 1 .. Len(watchdog.tasks)
    BY <1>1, SoundFields DEF WatchdogIInv
  <2> QED BY <2>1, <2>2 DEF NoFalseTimeout, Accused, Blank
<1> QED BY <1>1, WatchdogInvariance, PTL

(* The state of an entry agrees with its missed kicks (watchdog_update,    *)
(* watchdog_kick).                                                         *)
THEOREM StatesFit == WatchdogSpec => []StateFitsMisses
<1>1. ASSUME WatchdogIInv  PROVE StateFitsMisses
  <2>1. \A i \in 1 .. Len(watchdog.tasks) : Fits(watchdog.tasks[i])
    BY <1>1 DEF WatchdogIInv, Fair
  <2>2. DOMAIN watchdog.tasks = 1 .. Len(watchdog.tasks)
    BY <1>1, SoundFields DEF WatchdogIInv
  <2> QED BY <2>1, <2>2 DEF StateFitsMisses, Fits
<1> QED BY <1>1, WatchdogInvariance, PTL

(* Removing an entry leaves those of the other tasks                       *)
(* (watchdog_unregister_task).                                             *)
THEOREM OthersKept == WatchdogSpec => UnregisterKeepsOthers
<1> DEFINE Kept == \A t \in TaskIds : Unregister(t) =>
                     /\ RegisteredIds(watchdog') = RegisteredIds(watchdog) \ {t}
                     /\ \A u \in RegisteredIds(watchdog') :
                          EntryOf(watchdog', u) = EntryOf(watchdog, u)
<1>1. ASSUME WatchdogIInv  PROVE Kept
  BY <1>1, Unregisters DEF WatchdogIInv, Unregister
<1>2. WatchdogIInv /\ [WatchdogNext]_watchdogVars => [Kept]_watchdogVars
  BY <1>1
<1>3. WatchdogSpec => [][Kept]_watchdogVars
  BY <1>2, WatchdogInvariance, PTL DEF WatchdogSpec
<1> QED BY <1>3 DEF UnregisterKeepsOthers

(* A check marks the late tasks and clears the lively ones, and global_state*)
(* is the worst of them whatever their order (watchdog_update).            *)
THEOREM ChecksTellTruth == WatchdogSpec => CheckTellsTruth
<1> DEFINE Told ==
      Check /\ (\A t \in RegisteredIds(watchdog) : silence[t] < TickModulus) =>
       LET wrong == TrulyLate(watchdog)
       IN /\ \A t \in RegisteredIds(watchdog) :
               LET e == EntryOf(watchdog', t)
               IN /\ t \in wrong => e.state \in {TIMEOUT, CRITICAL}
                  /\ 10 * silence[t] <= 7 * e.timeout_ms => e.state = OK
          /\ (watchdog'.global_state = CRITICAL)
               <=> \E t \in wrong : EntryOf(watchdog, t).is_critical
          /\ (watchdog'.global_state = OK) <=> (wrong = {})
<1>1. ASSUME WatchdogIInv  PROVE Told
  <2> SUFFICES ASSUME Check, \A t \in RegisteredIds(watchdog) : silence[t] < TickModulus
               PROVE  /\ \A t \in RegisteredIds(watchdog) :
                           LET e == EntryOf(watchdog', t)
                           IN /\ t \in TrulyLate(watchdog) => e.state \in {TIMEOUT, CRITICAL}
                              /\ 10 * silence[t] <= 7 * e.timeout_ms => e.state = OK
                      /\ (watchdog'.global_state = CRITICAL)
                           <=> \E t \in TrulyLate(watchdog) : EntryOf(watchdog, t).is_critical
                      /\ (watchdog'.global_state = OK) <=> (TrulyLate(watchdog) = {})
    OBVIOUS
  <2>0. Sound(watchdog) /\ Counts /\ tick \in 0 .. TickModulus - 1
    BY <1>1 DEF WatchdogIInv, Counts
  <2>1. /\ Sound(watchdog') /\ RegisteredIds(watchdog') = RegisteredIds(watchdog)
        /\ Len(watchdog'.tasks) = Len(watchdog.tasks)
        /\ watchdog'.global_state = GlobalState(watchdog.tasks, tick)
        /\ \A i \in 1 .. Len(watchdog.tasks) :
             watchdog'.tasks[i] = CheckEntry(watchdog.tasks[i], tick)
    BY <2>0, Examines DEF Check
  <2>2. \A i \in 1 .. Len(watchdog.tasks) :
          /\ watchdog.tasks[i].task_id \in RegisteredIds(watchdog)
          /\ EntryOf(watchdog, watchdog.tasks[i].task_id) = watchdog.tasks[i]
    BY <2>0, Found
  <2>3. \A i \in 1 .. Len(watchdog.tasks) :
          /\ Elapsed(tick, watchdog.tasks[i].last_kick_time) = silence[watchdog.tasks[i].task_id]
          /\ IsLate(watchdog.tasks[i], tick)
               <=> watchdog.tasks[i].task_id \in TrulyLate(watchdog)
    BY <2>0, <2>2, LateIsTrue
  <2>4. ASSUME NEW t \in RegisteredIds(watchdog)
        PROVE  LET e == EntryOf(watchdog', t)
               IN /\ t \in TrulyLate(watchdog) => e.state \in {TIMEOUT, CRITICAL}
                  /\ 10 * silence[t] <= 7 * e.timeout_ms => e.state = OK
    <3>1. PICK i \in 1 .. Len(watchdog.tasks) : watchdog.tasks[i].task_id = t
      BY <2>0, FoundOf
    <3>2. PICK e \in Entry : e = watchdog.tasks[i]
      BY <2>0, <3>1, SoundFields
    <3>3. watchdog'.tasks[i] = CheckEntry(e, tick)
      BY <2>1, <3>2
    <3>4. /\ SameTask(e, CheckEntry(e, tick))
          /\ IsLate(e, tick) => CheckEntry(e, tick).state \in {TIMEOUT, CRITICAL}
          /\ 10 * Elapsed(tick, e.last_kick_time) <= 7 * e.timeout_ms
               => CheckEntry(e, tick).state = OK
      BY <2>0, CheckedEntry
    <3>5. EntryOf(watchdog', t) = CheckEntry(e, tick)
      <4>1. watchdog'.tasks[i].task_id = t /\ i \in 1 .. Len(watchdog'.tasks)
        BY <2>1, <3>1, <3>2, <3>3, <3>4 DEF SameTask
      <4>2. EntryOf(watchdog', watchdog'.tasks[i].task_id) = watchdog'.tasks[i]
        BY <2>1, <4>1, Found
      <4> QED BY <3>3, <4>1, <4>2
    <3>6. /\ Elapsed(tick, e.last_kick_time) = silence[t]
          /\ IsLate(e, tick) <=> t \in TrulyLate(watchdog)
      BY <2>3, <3>1, <3>2
    <3> QED BY <3>4, <3>5, <3>6 DEF SameTask
  <2>5. \A t \in TrulyLate(watchdog) : \E i \in 1 .. Len(watchdog.tasks) :
          watchdog.tasks[i].task_id = t /\ EntryOf(watchdog, t) = watchdog.tasks[i]
    BY <2>0, FoundOf DEF TrulyLate
  <2>6. watchdog.tasks \in Seq(Entry)
    BY <2>0, SoundFields
  <2>7. /\ watchdog'.global_state = CRITICAL
             <=> \E j \in 1 .. Len(watchdog.tasks) :
                   IsLate(watchdog.tasks[j], tick) /\ watchdog.tasks[j].is_critical
        /\ watchdog'.global_state = OK
             <=> \A j \in 1 .. Len(watchdog.tasks) : ~IsLate(watchdog.tasks[j], tick)
    BY <2>1, <2>6, GlobalTells
  <2>8. (watchdog'.global_state = CRITICAL)
          <=> \E t \in TrulyLate(watchdog) : EntryOf(watchdog, t).is_critical
    BY <2>2, <2>3, <2>5, <2>7
  <2>9. (watchdog'.global_state = OK) <=> (TrulyLate(watchdog) = {})
    BY <2>3, <2>5, <2>7
  <2> QED BY <2>4, <2>8, <2>9
<1>2. WatchdogIInv /\ [WatchdogNext]_watchdogVars => [Told]_watchdogVars
  BY <1>1
<1>3. WatchdogSpec => [][Told]_watchdogVars
  BY <1>2, WatchdogInvariance, PTL DEF WatchdogSpec
<1> QED BY <1>3 DEF CheckTellsTruth
-----------------------------------------------------------------------------
(* The failsafe in flight                                                  *)

(* A turn of any task leaves the failsafe alone or triggers it once, and   *)
(* only if none is active.                                                 *)
Triggered(f, trigger) ==
  [f EXCEPT !.active = TRUE, !.trigger_type = trigger,
            !.action_start_time = tick, !.current_action = ActionFor(trigger),
            !.action_duration_ms = DelayFor(trigger), !.triggers = @ + 1,
            !.executions = @ + 1]

MayTrigger(T, f, g) ==
  \/ g = f
  \/ ~f.active /\ \E trigger \in T : g = Triggered(f, trigger)

(* The triggers of the safety task's checks.                               *)
CheckTriggers == Triggers \ {"WATCHDOG", "MANUAL"}

(* The clock has not wrapped and a failsafe has not started in the future. *)
Clock ==
  /\ tick \in Nat /\ tick <= TickLimit
  /\ ended \in Nat
  /\ failsafe \in FailsafeStates
  /\ failsafe.action_start_time <= tick

FlightInv == Clock /\ OneActionPerEpisode /\ ExecutedNotEarly

-----------------------------------------------------------------------------
(* The configuration                                                       *)

(* Every trigger has an action that can be executed.                       *)
LEMMA Configured ==
  ASSUME NEW trigger \in Triggers
  PROVE  /\ ActionFor(trigger) \in Actions /\ Executable(ActionFor(trigger))
         /\ DelayFor(trigger) \in Nat
BY DEF Triggers, Actions, ActionFor, DelayFor, Executable

LEMMA TriggerOnce ==
  ASSUME NEW f \in FailsafeStates, NEW trigger \in Triggers
  PROVE  MayTrigger({trigger}, f, failsafe_actions_trigger(f, trigger, tick))
<1>1. CASE f.active
  BY <1>1 DEF MayTrigger, failsafe_actions_trigger
<1>2. CASE ~f.active
  <2>1. failsafe_actions_trigger(f, trigger, tick) = Triggered(f, trigger)
    BY <1>2, Configured DEF failsafe_actions_trigger, Triggered
  <2> QED BY <1>2, <2>1 DEF MayTrigger
<1> QED BY <1>1, <1>2

(* The state stays one, and a second trigger does nothing.                 *)
LEMMA TriggerStates ==
  ASSUME tick \in Nat, NEW f \in FailsafeStates, NEW g, MayTrigger(Triggers, f, g)
  PROVE  g \in FailsafeStates
<1>1. CASE g = f
  BY <1>1
<1>2. ASSUME NEW trigger \in Triggers, g = Triggered(f, trigger)
      PROVE  g \in FailsafeStates
  <2>1. PICK action \in Actions, delay \in Nat :
          action = ActionFor(trigger) /\ delay = DelayFor(trigger)
    BY Configured
  <2>2. PICK n \in Nat, k \in Nat : n = f.triggers + 1 /\ k = f.executions + 1
    BY DEF FailsafeStates
  <2>3. g = [f EXCEPT !.active = TRUE, !.trigger_type = trigger,
                      !.action_start_time = tick, !.current_action = action,
                      !.action_duration_ms = delay, !.triggers = n, !.executions = k]
    BY ONLY <1>2, <2>1, <2>2 DEF Triggered
  <2> QED BY <2>3 DEF FailsafeStates
<1> QED BY <1>1, <1>2 DEF MayTrigger

LEMMA CheckTriggersOnce ==
  ASSUME tick \in Nat, NEW f \in FailsafeStates, NEW trigger \in CheckTriggers, NEW cond
  PROVE  LET g == TriggerIf(cond, f, trigger, tick)
         IN  MayTrigger(CheckTriggers, f, g) /\ g \in FailsafeStates
<1> DEFINE g == TriggerIf(cond, f, trigger, tick)
<1>1. trigger \in Triggers
  BY DEF CheckTriggers
<1>2. g = f \/ g = failsafe_actions_trigger(f, trigger, tick)
  BY DEF TriggerIf
<1>3. MayTrigger({trigger}, f, g)
  BY <1>1, <1>2, TriggerOnce DEF MayTrigger
<1>4. MayTrigger(CheckTriggers, f, g) /\ MayTrigger(Triggers, f, g)
  BY <1>1, <1>3 DEF MayTrigger
<1> QED BY <1>4, TriggerStates

LEMMA TriggersCompose ==
  ASSUME NEW T, NEW f \in FailsafeStates, NEW g, NEW h, MayTrigger(T, f, g), MayTrigger(T, g, h)
  PROVE  MayTrigger(T, f, h)
<1>1. CASE g = f
  BY <1>1
<1>2. ASSUME NEW trigger \in T, g = Triggered(f, trigger)
      PROVE  g.active
  BY <1>2 DEF Triggered, FailsafeStates
<1> QED BY <1>1, <1>2 DEF MayTrigger

(* All checks of a turn of the safety task together.                       *)
LEMMA ChecksTriggerOnce ==
  ASSUME tick \in Nat, failsafe \in FailsafeStates, NEW voltage, NEW limits
  PROVE  MayTrigger(CheckTriggers, failsafe, Checks(voltage, limits))
<1> DEFINE f0 == failsafe
           f1 == failsafe_check_battery(f0, voltage, tick)
           f2 == failsafe_check_gps(f1, TRUE, tick, tick)
           f3 == failsafe_check_rc(f2, tick, tick)
           f4 == failsafe_check_comm(f3, tick, tick)
           f5 == failsafe_check_sensors(f4, tick, tick)
           f6 == failsafe_check_altitude(f5, "altitude" \in limits, tick)
           f7 == failsafe_check_speed(f6, "speed" \in limits, tick)
           f8 == failsafe_check_attitude(f7, "attitude" \in limits, tick)
           f9 == failsafe_check_geofence(f8, FALSE, tick)
<1>0. f0 \in FailsafeStates
  OBVIOUS
<1>1. MayTrigger(CheckTriggers, f0, f1) /\ f1 \in FailsafeStates
  BY <1>0, CheckTriggersOnce DEF failsafe_check_battery, Triggers, CheckTriggers
<1> HIDE DEF f1
<1>2. MayTrigger(CheckTriggers, f1, f2) /\ f2 \in FailsafeStates
  BY <1>1, CheckTriggersOnce DEF failsafe_check_gps, Triggers, CheckTriggers
<1> HIDE DEF f2
<1>3. MayTrigger(CheckTriggers, f2, f3) /\ f3 \in FailsafeStates
  BY <1>2, CheckTriggersOnce DEF failsafe_check_rc, Triggers, CheckTriggers
<1> HIDE DEF f3
<1>4. MayTrigger(CheckTriggers, f3, f4) /\ f4 \in FailsafeStates
  BY <1>3, CheckTriggersOnce DEF failsafe_check_comm, Triggers, CheckTriggers
<1> HIDE DEF f4
<1>5. MayTrigger(CheckTriggers, f4, f5) /\ f5 \in FailsafeStates
  BY <1>4, CheckTriggersOnce DEF failsafe_check_sensors, Triggers, CheckTriggers
<1> HIDE DEF f5
<1>6. MayTrigger(CheckTriggers, f5, f6) /\ f6 \in FailsafeStates
  BY <1>5, CheckTriggersOnce DEF failsafe_check_altitude, Triggers, CheckTriggers
<1> HIDE DEF f6
<1>7. MayTrigger(CheckTriggers, f6, f7) /\ f7 \in FailsafeStates
  BY <1>6, CheckTriggersOnce DEF failsafe_check_speed, Triggers, CheckTriggers
<1> HIDE DEF f7
<1>8. MayTrigger(CheckTriggers, f7, f8) /\ f8 \in FailsafeStates
  BY <1>7, CheckTriggersOnce DEF failsafe_check_attitude, Triggers, CheckTriggers
<1> HIDE DEF f8
<1>9. MayTrigger(CheckTriggers, f8, f9) /\ f9 \in FailsafeStates
  BY <1>8, CheckTriggersOnce DEF failsafe_check_geofence, Triggers, CheckTriggers
<1> HIDE DEF f9
<1>10. MayTrigger(CheckTriggers, f0, f4)
  BY <1>0, <1>1, <1>2, <1>3, <1>4, TriggersCompose
<1>11. MayTrigger(CheckTriggers, f0, f9)
  BY <1>0, <1>10, <1>4, <1>5, <1>6, <1>7, <1>8, <1>9, TriggersCompose
<1>12. Checks(voltage, limits) = f9
  BY DEF Checks, f1, f2, f3, f4, f5, f6, f7, f8, f9
<1> QED BY <1>11, <1>12

-----------------------------------------------------------------------------
(* Steps                                                                   *)

(* What each step does to the failsafe, the clock and the count of ends.   *)
Untouched == UNCHANGED <<failsafe, ended>>

Ends ==
  /\ failsafe.active /\ ended' = ended + 1
  /\ failsafe' \in {failsafe_recover(failsafe), failsafe_actions_reset(failsafe)}

LEMMA FlightSteps ==
  ASSUME FlightInv, [FlightNext]_flightVars
  PROVE  \/ tick' = tick /\ ended' = ended /\ MayTrigger(Triggers, failsafe, failsafe')
         \/ tick' = tick /\ ended' = ended /\ failsafe' = failsafe_actions_update(failsafe, tick)
         \/ tick' = tick /\ Ends
         \/ tick' = tick + 1 /\ tick < TickLimit /\ Untouched
<1> USE DEF taskVars, watchdogVars, history, Untouched
<1>0. tick \in Nat /\ failsafe \in FailsafeStates
  BY DEF FlightInv, Clock
<1>1. ASSUME NEW t \in KickingTasks, KickingTurn(t)  PROVE tick' = tick /\ Untouched
  BY <1>1 DEF KickingTurn
<1>2. ASSUME NEW unhealthy, estimator_task_function(unhealthy)  PROVE tick' = tick /\ Untouched
  BY <1>2 DEF estimator_task_function
<1>3. CASE control_task_function \/ ControlKicks \/ navigation_task_function
  BY <1>3 DEF control_task_function, ControlKicks, navigation_task_function, MayTrigger
<1>4. CASE watchdog_monitor_task
  <2>1. MayTrigger(Triggers, failsafe, failsafe_actions_trigger(failsafe, "WATCHDOG", tick))
    BY <1>0, TriggerOnce DEF Triggers, MayTrigger
  <2>2. MayTrigger(Triggers, failsafe, failsafe)
    BY DEF MayTrigger
  <2>3. tick' = tick /\ ended' = ended
    BY <1>4 DEF watchdog_monitor_task
  <2>4. \/ failsafe' = failsafe
        \/ failsafe' = failsafe_actions_trigger(failsafe, "WATCHDOG", tick)
    BY <1>4 DEF watchdog_monitor_task
  <2> QED BY <2>1, <2>2, <2>3, <2>4
<1>5. ASSUME NEW limits, safety_task_function(limits)
      PROVE  tick' = tick /\ ended' = ended /\ MayTrigger(Triggers, failsafe, failsafe')
  BY <1>0, <1>5, ChecksTriggerOnce DEF safety_task_function, MayTrigger, CheckTriggers
<1>6. CASE Operator
  BY <1>6 DEF Operator, Ends
<1>7. CASE TimePasses
  BY <1>7 DEF TimePasses
<1>8. CASE UNCHANGED flightVars
  BY <1>8 DEF flightVars, MayTrigger
<1> QED
  BY <1>1, <1>2, <1>3, <1>4, <1>5, <1>6, <1>7, <1>8 DEF FlightNext, MayTrigger

LEMMA FlightInit1 == FlightInit => FlightInv
<1> SUFFICES ASSUME FlightInit  PROVE FlightInv
  OBVIOUS
<1>1. TickLimit \in Nat
  BY FlightAssumption
<1>0. FailsafeInit /\ tick = 0 /\ ended = 0
  BY Zenon DEF FlightInit
<1>2. Clock
  BY <1>0, <1>1 DEF Clock, FailsafeInit, FailsafeStates, Triggers, Actions
<1>3. OneActionPerEpisode /\ ExecutedNotEarly
  BY <1>0 DEF OneActionPerEpisode, ExecutedNotEarly, FailsafeInit
<1> QED BY <1>2, <1>3 DEF FlightInv

(* The tick has not wrapped, so the elapsed time is the difference.        *)
LEMMA ElapsedIsDifference ==
  ASSUME NEW now \in Nat, NEW since \in Nat, since <= now, now <= TickLimit
  PROVE  Elapsed(now, since) = now - since
<1>1. TickModulus \in Nat \ {0} /\ TickLimit \in Nat /\ TickLimit < TickModulus
  BY FlightAssumption, TicksAssumption
<1>2. PICK d \in Nat : d = now - since
  OBVIOUS
<1>3. d % TickModulus = d
  BY <1>1, <1>2
<1> QED BY <1>2, <1>3 DEF Elapsed

LEMMA FlightStep ==
  ASSUME FlightInv, [FlightNext]_flightVars
  PROVE  FlightInv'
<1> USE DEF FlightInv, Clock, OneActionPerEpisode, ExecutedNotEarly
<1>0. /\ TickLimit \in Nat /\ tick \in Nat /\ tick <= TickLimit /\ ended \in Nat
      /\ failsafe \in FailsafeStates
      /\ failsafe.active \in BOOLEAN /\ failsafe.executed \in BOOLEAN
      /\ failsafe.triggers \in Nat /\ failsafe.executions \in Nat /\ failsafe.recoveries \in Nat
      /\ failsafe.action_start_time \in Nat /\ failsafe.action_duration_ms \in Nat
  BY FlightAssumption DEF FailsafeStates
<1>1. CASE tick' = tick /\ ended' = ended /\ MayTrigger(Triggers, failsafe, failsafe')
  <2>1. failsafe' \in FailsafeStates
    BY <1>0, <1>1, TriggerStates
  <2>2. CASE failsafe' = failsafe
    BY <1>0, <1>1, <2>2
  <2>3. ASSUME NEW trigger \in Triggers, ~failsafe.active, failsafe' = Triggered(failsafe, trigger)
        PROVE  FlightInv'
    <3>1. /\ failsafe'.active /\ failsafe'.executed = failsafe.executed
          /\ failsafe'.action_start_time = tick
          /\ failsafe'.triggers = failsafe.triggers + 1
          /\ failsafe'.executions = failsafe.executions + 1
          /\ failsafe'.recoveries = failsafe.recoveries
      BY <2>3, <1>0 DEF Triggered, FailsafeStates
    <3> QED BY <1>0, <1>1, <2>1, <2>3, <3>1
  <2> QED BY <1>1, <2>2, <2>3 DEF MayTrigger
<1>2. CASE tick' = tick /\ ended' = ended /\ failsafe' = failsafe_actions_update(failsafe, tick)
  <2>1. CASE failsafe' = failsafe
    BY <1>0, <1>2, <2>1
  <2>2. CASE failsafe' # failsafe
    <3>1. /\ failsafe.active /\ failsafe.action_duration_ms > 0
          /\ Elapsed(tick, failsafe.action_start_time) >= failsafe.action_duration_ms
          /\ failsafe' = [failsafe EXCEPT !.executed = TRUE]
      BY <1>2, <2>2 DEF failsafe_actions_update
    <3>2. Elapsed(tick, failsafe.action_start_time) = tick - failsafe.action_start_time
      BY <1>0, ElapsedIsDifference
    <3>3. /\ failsafe'.active /\ failsafe' \in FailsafeStates
          /\ failsafe'.action_start_time = failsafe.action_start_time
          /\ failsafe'.action_duration_ms = failsafe.action_duration_ms
          /\ failsafe'.triggers = failsafe.triggers
          /\ failsafe'.executions = failsafe.executions
          /\ failsafe'.recoveries = failsafe.recoveries
      BY <1>0, <3>1 DEF FailsafeStates
    <3> QED BY <1>0, <1>2, <3>1, <3>2, <3>3
  <2> QED BY <2>1, <2>2
<1>3. CASE tick' = tick /\ Ends
  <2>1. /\ failsafe' \in FailsafeStates
        /\ ~failsafe'.active /\ ~failsafe'.executed
        /\ failsafe'.action_start_time = failsafe.action_start_time
        /\ failsafe'.triggers = failsafe.triggers
        /\ failsafe'.executions = failsafe.executions
        /\ failsafe'.recoveries \in {failsafe.recoveries, failsafe.recoveries + 1}
    <3>1. CASE failsafe' = failsafe_actions_reset(failsafe)
      BY <1>0, <3>1 DEF failsafe_actions_reset, FailsafeStates, Actions
    <3>2. CASE failsafe' = failsafe_recover(failsafe)
      <4>1. PICK n \in Nat : n = failsafe.recoveries + 1
        BY <1>0
      <4>2. failsafe' = [failsafe EXCEPT !.recoveries = n, !.active = FALSE,
                                         !.current_action = "NONE", !.executed = FALSE]
        BY <1>3, <3>2, <4>1 DEF Ends, failsafe_recover, failsafe_actions_reset
      <4> QED BY <1>0, <4>1, <4>2 DEF FailsafeStates, Actions
    <3> QED BY <1>3, <3>1, <3>2 DEF Ends
  <2> QED BY <1>0, <1>3, <2>1 DEF Ends
<1>4. CASE tick' = tick + 1 /\ tick < TickLimit /\ Untouched
  BY <1>0, <1>4 DEF Untouched
<1> QED BY <1>1, <1>2, <1>3, <1>4, FlightSteps

LEMMA FlightInvHolds == FlightSpec => []FlightInv
<1>1. FlightInv /\ [FlightNext]_flightVars => FlightInv'
  BY FlightStep
<1> QED BY <1>1, FlightInit1, PTL DEF FlightSpec

-----------------------------------------------------------------------------
(* Theorems                                                                *)

(* Each failsafe executes one action, and is active until it is ended once *)
(* (failsafe_actions_trigger, failsafe_recover).                           *)
THEOREM OneAction == FlightSpec => []OneActionPerEpisode
<1>1. FlightInv => OneActionPerEpisode
  BY DEF FlightInv
<1> QED BY <1>1, FlightInvHolds, PTL

(* A failsafe is not reported as executed before its duration is over      *)
(* (failsafe_actions_update, failsafe_actions_reset).                      *)
THEOREM NotEarly == FlightSpec => []ExecutedNotEarly
<1>1. FlightInv => ExecutedNotEarly
  BY DEF FlightInv
<1> QED BY <1>1, FlightInvHolds, PTL

(* Nothing replaces or restarts an active failsafe                         *)
(* (failsafe_actions_trigger).                                             *)
THEOREM FirstStays == FlightSpec => FirstTriggerStays
<1> DEFINE Stays == failsafe.active /\ failsafe'.active =>
                     /\ failsafe'.trigger_type = failsafe.trigger_type
                     /\ failsafe'.current_action = failsafe.current_action
                     /\ failsafe'.action_start_time = failsafe.action_start_time
<1>1. ASSUME FlightInv, [FlightNext]_flightVars  PROVE Stays
  <2>0. failsafe \in FailsafeStates
    BY <1>1 DEF FlightInv, Clock
  <2>1. CASE MayTrigger(Triggers, failsafe, failsafe')
    BY <2>1 DEF MayTrigger
  <2>2. CASE failsafe' = failsafe_actions_update(failsafe, tick)
    BY <2>0, <2>2 DEF failsafe_actions_update, FailsafeStates
  <2>3. CASE Ends
    BY <2>0, <2>3 DEF Ends, failsafe_recover, failsafe_actions_reset, FailsafeStates
  <2>4. CASE Untouched
    BY <2>4 DEF Untouched
  <2> QED BY <1>1, <2>1, <2>2, <2>3, <2>4, FlightSteps
<1>2. FlightInv /\ [FlightNext]_flightVars => [Stays]_flightVars
  BY <1>1
<1>3. FlightSpec => [][Stays]_flightVars
  BY <1>2, FlightInvHolds, PTL DEF FlightSpec
<1> QED BY <1>3 DEF FirstTriggerStays

-----------------------------------------------------------------------------
(* The watchdog that system_init leaves behind.                            *)

Contexts == {w \in WatchdogContext : Sound(w)}

RegisterOne(w, t) == watchdog_register_task(w, t, TimeoutOf[t], t \in CriticalTasks, 0)

(* An entry as system_init registered it.                                  *)
AsRegistered(e) ==
  e.timeout_ms = TimeoutOf[e.task_id] /\ (e.is_critical <=> e.task_id \in CriticalTasks)

(* The watchdog after the first k registrations.                           *)
RegisteredUpTo(w, tasks, k) ==
  /\ w \in Contexts
  /\ w.initialized /\ w.enabled /\ w.check_interval_ms = DefaultInterval
  /\ w.last_check_time = 0 /\ w.global_state = OK
  /\ Len(w.tasks) = k
  /\ \A i \in 1 .. k : /\ w.tasks[i].task_id = tasks[i] /\ AsRegistered(w.tasks[i])
                       /\ w.tasks[i].last_kick_time = 0

LEMMA FlightFacts ==
  /\ Registered = TaskIds /\ WatchdogMaxTasks \in Nat
  /\ IsFiniteSet(Registered) /\ Cardinality(Registered) \in Nat
  /\ Cardinality(Registered) <= WatchdogMaxTasks
  /\ \A t \in Registered : TimeoutOf[t] \in Nat \ {0}
  /\ TickModulus \in Nat \ {0} /\ TickLimit \in Nat /\ TickLimit < TickModulus
  /\ MonitorPeriod \in Nat /\ MonitorPeriod >= DefaultInterval
  /\ SilenceCap \in Nat /\ SilenceCap >= TickModulus
<1> DEFINE All == {"Sensor", "Estimator", "Control", "Safety", "Navigation",
                   "Telemetry", "GCS", "PerfMonitor"}
<1>1. IsFiniteSet({"Sensor"}) /\ IsFiniteSet({"Sensor", "Estimator"})
  <2>1. {"Sensor"} = {} \cup {"Sensor"} /\ {"Sensor", "Estimator"} = {"Sensor"} \cup {"Estimator"}
    OBVIOUS
  <2> QED BY <2>1, FS_EmptySet, FS_AddElement
<1>2. IsFiniteSet({"Sensor", "Estimator", "Control", "Safety"})
  <2>1. IsFiniteSet({"Sensor", "Estimator"} \cup {"Control"})
    BY <1>1, FS_AddElement
  <2>2. IsFiniteSet(({"Sensor", "Estimator"} \cup {"Control"}) \cup {"Safety"})
    BY <2>1, FS_AddElement
  <2>3. ({"Sensor", "Estimator"} \cup {"Control"}) \cup {"Safety"}
          = {"Sensor", "Estimator", "Control", "Safety"}
    OBVIOUS
  <2> QED BY <2>2, <2>3
<1>3. IsFiniteSet({"Sensor", "Estimator", "Control", "Safety", "Navigation", "Telemetry"})
  <2> DEFINE A == {"Sensor", "Estimator", "Control", "Safety"}
  <2>1. IsFiniteSet(A \cup {"Navigation"})
    BY <1>2, FS_AddElement
  <2>2. IsFiniteSet((A \cup {"Navigation"}) \cup {"Telemetry"})
    BY <2>1, FS_AddElement
  <2>3. (A \cup {"Navigation"}) \cup {"Telemetry"}
          = {"Sensor", "Estimator", "Control", "Safety", "Navigation", "Telemetry"}
    OBVIOUS
  <2> QED BY <2>2, <2>3
<1>4. IsFiniteSet(All)
  <2> DEFINE B == {"Sensor", "Estimator", "Control", "Safety", "Navigation", "Telemetry"}
  <2>1. IsFiniteSet(B \cup {"GCS"})
    BY <1>3, FS_AddElement
  <2>2. IsFiniteSet((B \cup {"GCS"}) \cup {"PerfMonitor"})
    BY <2>1, FS_AddElement
  <2>3. (B \cup {"GCS"}) \cup {"PerfMonitor"} = All
    OBVIOUS
  <2> QED BY <2>2, <2>3
<1>5. Registered \in SUBSET All
  BY FlightAssumption
<1>6. IsFiniteSet(Registered) /\ Cardinality(Registered) \in Nat
  BY <1>4, <1>5, FS_Subset, FS_CardinalityType
<1> QED BY <1>6, FlightAssumption, WatchdogAssumption, TicksAssumption

(* Some order of the tasks exists, and it names each once.                 *)
LEMMA RegistrationOrder ==
  /\ SetToSeq(Registered) \in Seq(Registered)
  /\ Len(SetToSeq(Registered)) = Cardinality(Registered)
  /\ \A i, j \in 1 .. Len(SetToSeq(Registered)) :
       SetToSeq(Registered)[i] = SetToSeq(Registered)[j] => i = j
  /\ \A t \in Registered : \E i \in 1 .. Len(SetToSeq(Registered)) : SetToSeq(Registered)[i] = t
<1> DEFINE n == Cardinality(Registered)
           s == SetToSeq(Registered)
<1>1. IsFiniteSet(Registered) /\ n \in Nat /\ ExistsBijection(1 .. n, Registered)
  BY FlightFacts, FS_CardinalityType
<1>2. \E f \in [1 .. n -> Registered] : IsInjective(f)
  BY <1>1 DEF ExistsBijection, Bijection, Injection
<1>3. s \in [1 .. n -> Registered] /\ IsInjective(s)
  BY <1>2 DEF SetToSeq
<1>4. s \in Seq(Registered) /\ Len(s) = n /\ DOMAIN s = 1 .. n
  BY <1>1, <1>3
<1>5. s \in Injection(1 .. n, Registered)
  BY <1>3 DEF Injection
<1>6. s \in Surjection(1 .. n, Registered)
  <2>1. IsFiniteSet(1 .. n) /\ Cardinality(1 .. n) = n
    BY <1>1, FS_Interval
  <2> QED BY <1>1, <1>5, <2>1, FS_Injection
<1> QED BY <1>3, <1>4, <1>6 DEF IsInjective, Surjection

LEMMA RegisterOneKeeps ==
  ASSUME NEW w \in Contexts, NEW t \in Registered
  PROVE  RegisterOne(w, t) \in Contexts
<1>1. PICK crit \in BOOLEAN : crit = (t \in CriticalTasks)
  <2>1. (t \in CriticalTasks) \in BOOLEAN
    OBVIOUS
  <2> QED BY <2>1
<1>2. PICK v : v = watchdog_register_task(w, t, TimeoutOf[t], crit, 0)
  OBVIOUS
<1>3. RegisterOne(w, t) = v
  BY <1>1, <1>2 DEF RegisterOne
<1>4. t \in TaskIds /\ TimeoutOf[t] \in Nat /\ 0 \in 0 .. TickModulus - 1 /\ Sound(w)
  BY FlightFacts DEF Contexts
<1>5. Sound(v)
  BY <1>2, <1>4, Registers
<1> QED BY <1>3, <1>5 DEF Contexts, Sound

(* The registrations are made one after the other.                         *)
LEMMA RegistrationUnfolds ==
  ASSUME NEW tasks \in Seq(Registered), NEW w \in Contexts
  PROVE  \E f \in [0 .. Len(tasks) -> Contexts] :
           /\ f[0] = w
           /\ \A k \in 1 .. Len(tasks) : f[k] = RegisterOne(f[k - 1], tasks[k])
           /\ f[Len(tasks)] = RegisterAll(w, tasks)
<1> DEFINE n == Len(tasks)
           Rec(g, s) == IF s = {} THEN w ELSE RegisterOne(g[s \ {Max(s)}], tasks[Max(s)])
           step == [i \in 1 .. n |-> [v \in Contexts |-> RegisterOne(v, tasks[i])]]
           iter == CHOOSE g : g = [s \in SUBSET (1 .. n) |-> Rec(g, s)]
<1>1. RegisterAll(w, tasks) = iter[1 .. n]
  <2>1. DOMAIN tasks = 1 .. n
    OBVIOUS
  <2> QED BY <2>1 DEF RegisterAll, FoldLeft, MapThenFoldSet, RegisterOne
<1>2. n \in Nat
  OBVIOUS
<1>3. \A v \in Contexts : \A i \in 1 .. n : RegisterOne(v, tasks[i]) \in Contexts
  BY RegisterOneKeeps
<1>4. step \in [1 .. n -> [Contexts -> Contexts]]
  BY <1>3
<1>5. \E h : h = [s \in SUBSET (1 .. n) |-> Rec(h, s)]
  <2>1. PICK h \in [SUBSET (1 .. n) -> Contexts] : Iterates(h, n, w, step)
    <3> HIDE DEF step, n
    <3> QED BY <1>2, <1>4, FoldDefined
  <2>2. ASSUME NEW s \in SUBSET (1 .. n), s # {}
        PROVE  step[Max(s)][h[s \ {Max(s)}]] = Rec(h, s)
    <3>1. Max(s) \in 1 .. n
      BY <1>2, <2>2, MaxOfInitial
    <3>2. h[s \ {Max(s)}] \in Contexts
      OBVIOUS
    <3> QED BY <3>1, <3>2, <2>2
  <2> HIDE DEF step
  <2>3. \A s \in SUBSET (1 .. n) : h[s] = Rec(h, s)
    BY <2>1, <2>2 DEF Iterates
  <2>4. h = [s \in SUBSET (1 .. n) |-> Rec(h, s)]
    BY <2>3
  <2> QED BY <2>4
<1>6. iter = [s \in SUBSET (1 .. n) |-> Rec(iter, s)]
  <2> HIDE DEF Rec
  <2> QED BY <1>5
<1> DEFINE f == [k \in 0 .. n |-> iter[1 .. k]]
<1>7. f[0] = w
  <2>1. iter[{}] = w
    BY <1>6
  <2> QED BY <2>1, <1>2
<1>8. ASSUME NEW k \in 1 .. n
      PROVE  f[k] = RegisterOne(f[k - 1], tasks[k])
  <2>0. k \in Nat \ {0} /\ k - 1 \in 0 .. n
    BY <1>2
  <2>1. 1 .. k \in SUBSET (1 .. n) /\ 1 .. k # {}
    BY <1>2, <2>0
  <2>2. Max(1 .. k) = k /\ (1 .. k) \ {k} = 1 .. (k - 1)
    BY <2>0, MaxOfPrefix
  <2>3. iter[1 .. k] = RegisterOne(iter[1 .. (k - 1)], tasks[k])
    BY <1>6, <2>1, <2>2
  <2> QED BY <2>0, <2>3
<1>9. f \in [0 .. n -> Contexts]
  <2> DEFINE Holds == {k \in 0 .. n : f[k] \in Contexts}
  <2> HIDE DEF f
  <2>1. 0 \in Holds
    BY <1>7, <1>2
  <2>2. ASSUME NEW k \in Nat, k < n, k \in Holds
        PROVE  k + 1 \in Holds
    <3>1. k + 1 \in 1 .. n /\ (k + 1) - 1 = k /\ k + 1 \in 0 .. n
      BY <2>2
    <3>2. f[k + 1] = RegisterOne(f[k], tasks[k + 1])
      BY <1>8, <3>1
    <3> QED BY <1>3, <2>2, <3>1, <3>2
  <2>3. \A k \in 0 .. n : k \in Holds
    <3> HIDE DEF Holds
    <3> QED BY <1>2, <2>1, <2>2, Induction
  <2>4. f = [k \in 0 .. n |-> f[k]]
    BY DEF f
  <2> QED BY <2>3, <2>4
<1>10. f[n] = iter[1 .. n]
  BY <1>2
<1> HIDE DEF f, iter
<1> QED BY <1>1, <1>7, <1>8, <1>9, <1>10

LEMMA RegisterNext ==
  ASSUME NEW tasks \in Seq(Registered), NEW k \in 0 .. Len(tasks) - 1,
         \A i, j \in 1 .. Len(tasks) : tasks[i] = tasks[j] => i = j,
         Len(tasks) <= WatchdogMaxTasks, NEW w, RegisteredUpTo(w, tasks, k)
  PROVE  RegisteredUpTo(RegisterOne(w, tasks[k + 1]), tasks, k + 1)
<1>0. PICK t \in Registered : t = tasks[k + 1]
  OBVIOUS
<1>1. PICK crit \in BOOLEAN : crit = (t \in CriticalTasks)
  <2>1. (t \in CriticalTasks) \in BOOLEAN
    OBVIOUS
  <2> QED BY <2>1
<1>6. /\ t \in TaskIds /\ 0 \in 0 .. TickModulus - 1
      /\ \E ms \in Nat \ {0} : ms = TimeoutOf[t]
  BY FlightFacts
<1>14. PICK ms \in Nat \ {0} : ms = TimeoutOf[t]
  BY <1>6
<1>15. PICK now \in 0 .. TickModulus - 1 : now = 0
  BY <1>6
<1>2. PICK v : v = watchdog_register_task(w, t, ms, crit, now)
  OBVIOUS
<1>3. RegisterOne(w, tasks[k + 1]) = v
  BY <1>0, <1>1, <1>14, <1>15, <1>2 DEF RegisterOne
<1>4. /\ Len(w.tasks) = k /\ k \in Nat /\ Sound(w) /\ w.initialized
      /\ \A i \in 1 .. k : w.tasks[i].task_id = tasks[i]
  BY DEF RegisteredUpTo, Contexts
<1>5. ~RefusesTask(w, t)
  <2>1. ~(Len(w.tasks) >= WatchdogMaxTasks)
    BY <1>4, WatchdogAssumption
  <2>2. t \notin RegisteredIds(w)
    <3>1. RegisteredIds(w) = {w.tasks[i].task_id : i \in 1 .. k}
      BY <1>4, SoundFields
    <3> QED BY <1>0, <1>4, <3>1
  <2> QED BY <2>1, <2>2 DEF RefusesTask
<1>7. PICK e : e = v.tasks[k + 1]
  OBVIOUS
<1>16. Sound(w) /\ t \in TaskIds /\ ms \in Nat /\ crit \in BOOLEAN /\ now \in 0 .. TickModulus - 1
  BY <1>4, <1>6
<1>17. Sound(v) /\ (w.initialized => SameFields(w, v))
  BY <1>2, <1>16, Registers
<1>18. /\ Len(v.tasks) = Len(w.tasks) + 1
       /\ \A i \in 1 .. Len(w.tasks) : v.tasks[i] = w.tasks[i]
  BY <1>2, <1>5, <1>16, Registers
<1>8. Sound(v) /\ SameFields(w, v) /\ Len(v.tasks) = k + 1
      /\ \A i \in 1 .. k : v.tasks[i] = w.tasks[i]
  BY <1>4, <1>17, <1>18
<1>19. e = v.tasks[Len(w.tasks) + 1]
  BY <1>4, <1>7
<1>9. e.task_id = t /\ e.last_kick_time = now /\ e.is_critical = crit /\ e.timeout_ms = ms
  <2>1. ms > 0
    OBVIOUS
  <2> QED BY <1>2, <1>5, <1>16, <1>19, <2>1, Registers
<1>10. AsRegistered(e)
  BY <1>1, <1>14, <1>9 DEF AsRegistered
<1>11. \A i \in 1 .. k + 1 : i \in 1 .. k \/ i = k + 1
  BY <1>4
<1>12. \A i \in 1 .. k + 1 : /\ v.tasks[i].task_id = tasks[i] /\ AsRegistered(v.tasks[i])
                              /\ v.tasks[i].last_kick_time = 0
  <2>1. \A i \in 1 .. k : /\ w.tasks[i].task_id = tasks[i] /\ AsRegistered(w.tasks[i])
                           /\ w.tasks[i].last_kick_time = 0
    BY DEF RegisteredUpTo
  <2> QED BY <1>0, <1>7, <1>8, <1>9, <1>10, <1>11, <1>15, <2>1
<1>13. /\ v \in Contexts /\ v.initialized /\ v.enabled /\ v.check_interval_ms = DefaultInterval
       /\ v.last_check_time = 0 /\ v.global_state = OK
  BY <1>8 DEF RegisteredUpTo, SameFields, Contexts, Sound
<1> QED BY <1>3, <1>8, <1>12, <1>13 DEF RegisteredUpTo

(* system_init registers every task, whatever the order.                   *)
LEMMA Registrations ==
  LET w == RegisterAll(watchdog_start(ZeroWatchdog, 0), SetToSeq(Registered))
  IN  /\ Sound(w) /\ w.initialized /\ w.enabled /\ w.check_interval_ms = DefaultInterval
      /\ w.last_check_time = 0 /\ w.global_state = OK
      /\ RegisteredIds(w) = Registered
      /\ \A i \in 1 .. Len(w.tasks) : AsRegistered(w.tasks[i]) /\ w.tasks[i].last_kick_time = 0
<1> DEFINE first == watchdog_start(ZeroWatchdog, 0)
           tasks == SetToSeq(Registered)
           n == Len(tasks)
<1>1. RegisteredUpTo(first, tasks, 0) /\ first \in Contexts
  <2>1. first = [initialized |-> TRUE, enabled |-> TRUE, tasks |-> <<>>, last_check_time |-> 0,
                 check_interval_ms |-> DefaultInterval, global_timeout_ms |-> DefaultTimeout,
                 global_state |-> OK]
    <3>1. PICK u : u = watchdog_init(ZeroWatchdog)
      OBVIOUS
    <3>2. u = [initialized |-> TRUE, enabled |-> TRUE, tasks |-> <<>>, last_check_time |-> 0,
               check_interval_ms |-> DefaultInterval, global_timeout_ms |-> DefaultTimeout,
               global_state |-> OK]
      BY <3>1 DEF watchdog_init, ZeroWatchdog
    <3>3. first = [u EXCEPT !.enabled = TRUE, !.last_check_time = 0]
      BY <3>1 DEF watchdog_start
    <3> HIDE DEF first
    <3> QED BY <3>2, <3>3
  <2>2. 0 \in 0 .. TickModulus - 1 /\ <<>> \in Seq(Entry) /\ 0 <= WatchdogMaxTasks
    BY FlightFacts
  <2>3. first \in WatchdogContext
    <3> HIDE DEF first
    <3> QED BY <2>1, <2>2 DEF WatchdogContext, DefaultInterval, DefaultTimeout
  <2>4. Sound(first)
    BY <2>1, <2>2, <2>3 DEF Sound, Distinct
  <2> QED BY <2>1, <2>3, <2>4 DEF RegisteredUpTo, Contexts
<1>2. /\ tasks \in Seq(Registered) /\ n \in Nat /\ n <= WatchdogMaxTasks
      /\ \A i, j \in 1 .. n : tasks[i] = tasks[j] => i = j
      /\ \A t \in Registered : \E i \in 1 .. n : tasks[i] = t
  BY RegistrationOrder, FlightFacts
<1> HIDE DEF tasks, first
<1>3. PICK f \in [0 .. n -> Contexts] :
        /\ f[0] = first
        /\ \A k \in 1 .. n : f[k] = RegisterOne(f[k - 1], tasks[k])
        /\ f[n] = RegisterAll(first, tasks)
  BY <1>1, <1>2, RegistrationUnfolds
<1> DEFINE Holds == {k \in 0 .. n : RegisteredUpTo(f[k], tasks, k)}
<1>4. 0 \in Holds
  BY <1>1, <1>2, <1>3
<1>5. ASSUME NEW k \in Nat, k < n, k \in Holds
      PROVE  k + 1 \in Holds
  <2>1. k + 1 \in 1 .. n /\ (k + 1) - 1 = k /\ k + 1 \in 0 .. n /\ k \in 0 .. n - 1
    BY <1>2, <1>5
  <2>2. f[k + 1] = RegisterOne(f[k], tasks[k + 1])
    BY <1>3, <2>1
  <2>3. RegisteredUpTo(RegisterOne(f[k], tasks[k + 1]), tasks, k + 1)
    BY <1>2, <1>5, <2>1, RegisterNext
  <2> QED BY <2>1, <2>2, <2>3
<1>6. n \in Holds
  <2> HIDE DEF Holds
  <2>1. \A k \in 0 .. n : k \in Holds
    BY <1>2, <1>4, <1>5, Induction
  <2> QED BY <1>2, <2>1
<1>7. PICK w : w = RegisterAll(first, tasks)
  OBVIOUS
<1>8. RegisteredUpTo(w, tasks, n)
  BY <1>3, <1>6, <1>7
<1>9. Sound(w) /\ Len(w.tasks) = n /\ \A i \in 1 .. n : w.tasks[i].task_id = tasks[i]
  BY <1>8 DEF RegisteredUpTo, Contexts
<1>10. RegisteredIds(w) = Registered
  <2>1. RegisteredIds(w) = {w.tasks[i].task_id : i \in 1 .. n}
    BY <1>9, SoundFields
  <2> QED BY <1>2, <1>9, <2>1
<1> QED BY <1>7, <1>8, <1>9, <1>10 DEF RegisteredUpTo, first, tasks

-----------------------------------------------------------------------------
(* The watchdog and its monitor in flight                                  *)

(* The watchdog runs as system_init set it up.                             *)
Watched ==
  /\ Sound(watchdog) /\ Counts /\ late \subseteq TaskIds
  /\ watchdog.initialized /\ watchdog.enabled
  /\ watchdog.check_interval_ms = DefaultInterval
  /\ RegisteredIds(watchdog) = Registered
  /\ \A i \in 1 .. Len(watchdog.tasks) : AsRegistered(watchdog.tasks[i])

(* No task was silent before the start, and the monitor sleeps until a     *)
(* check is due.                                                           *)
Punctual ==
  /\ tick \in Nat /\ tick <= TickLimit
  /\ \A t \in TaskIds : silence[t] <= tick
  /\ monitor_wake \in Nat
  /\ \/ /\ monitor_wake = 0 /\ watchdog.last_check_time = 0 /\ watchdog.global_state = OK
     \/ /\ watchdog.last_check_time <= tick
        /\ monitor_wake = watchdog.last_check_time + MonitorPeriod

GravelyLate == {t \in TrulyLate(watchdog) : EntryOf(watchdog, t).is_critical}

LEMMA WatchSteps ==
  ASSUME [FlightNext]_flightVars
  PROVE  \/ \E t : KickedBy(t) /\ UNCHANGED <<tick, monitor_wake>>
         \/ UNCHANGED <<watchdog, tick, silence, late, monitor_wake>>
         \/ watchdog_monitor_task
         \/ TimePasses
<1> USE DEF taskVars, watchdogVars, history
<1> DEFINE Kicking == \E t : KickedBy(t) /\ UNCHANGED <<tick, monitor_wake>>
           Still == UNCHANGED <<watchdog, tick, silence, late, monitor_wake>>
<1>1. ASSUME NEW t \in KickingTasks, KickingTurn(t)  PROVE Kicking
  BY <1>1 DEF KickingTurn
<1>2. ASSUME NEW unhealthy, estimator_task_function(unhealthy)  PROVE Kicking
  BY <1>2 DEF estimator_task_function
<1>3. CASE control_task_function
  BY <1>3 DEF control_task_function
<1>4. CASE ControlKicks \/ navigation_task_function
  <2>1. Kicking
    BY <1>4 DEF ControlKicks, navigation_task_function
  <2> QED BY <2>1
<1>5. ASSUME NEW limits, safety_task_function(limits)  PROVE Kicking
  BY <1>5 DEF safety_task_function
<1>6. CASE Operator
  BY <1>6 DEF Operator
<1>7. CASE UNCHANGED flightVars
  BY <1>7 DEF flightVars
<1> QED BY <1>1, <1>2, <1>3, <1>4, <1>5, <1>6, <1>7 DEF FlightNext

LEMMA KickKeeps ==
  ASSUME Watched, Punctual, NEW t, KickedBy(t), UNCHANGED <<tick, monitor_wake>>
  PROVE  Watched' /\ Punctual'
<1>0. /\ Sound(watchdog) /\ watchdog.initialized /\ Len(watchdog.tasks) \in Nat
      /\ tick \in 0 .. TickModulus - 1 /\ silence \in [TaskIds -> 0 .. SilenceCap]
      /\ Counts /\ late \subseteq TaskIds
      /\ watchdog \in WatchdogContext
      /\ \A i \in 1 .. Len(watchdog.tasks) : watchdog.tasks[i] \in Entry
  BY SoundFields DEF Watched, Counts, Sound
<1>1. PICK v : v = watchdog_kick(watchdog, t, tick)
  OBVIOUS
<1>2. watchdog' = v /\ Heard({t})
  BY <1>1 DEF KickedBy
<1>3. /\ Sound(v) /\ RegisteredIds(v) = RegisteredIds(watchdog)
      /\ Len(v.tasks) = Len(watchdog.tasks)
      /\ v = [watchdog EXCEPT !.tasks = v.tasks]
      /\ \A i \in 1 .. Len(watchdog.tasks) :
           v.tasks[i] = IF watchdog.tasks[i].task_id = t
                        THEN Kicked(watchdog.tasks[i], tick) ELSE watchdog.tasks[i]
  BY <1>0, <1>1, Kicks
<1>4. SameFields(watchdog, v)
  <2>1. PICK g : g = v.tasks
    OBVIOUS
  <2>2. v = [watchdog EXCEPT !.tasks = g]
    BY <1>3, <2>1
  <2> QED BY <1>0, <2>2 DEF SameFields, WatchdogContext
<1>5. ASSUME NEW i \in 1 .. Len(watchdog.tasks)
      PROVE  /\ SameTask(watchdog.tasks[i], v.tasks[i])
             /\ \/ v.tasks[i].task_id = t /\ v.tasks[i].last_kick_time = tick
                \/ watchdog.tasks[i].task_id # t /\ v.tasks[i] = watchdog.tasks[i]
  <2>1. PICK e \in Entry : e = watchdog.tasks[i]
    BY <1>0
  <2>2. SameTask(e, Kicked(e, tick)) /\ Kicked(e, tick).last_kick_time = tick
    BY <1>0, KickedEntry
  <2>3. CASE e.task_id = t
    BY <1>3, <2>1, <2>2, <2>3 DEF SameTask
  <2>4. CASE e.task_id # t
    BY <1>3, <2>1, <2>4 DEF SameTask
  <2> QED BY <2>3, <2>4
<1>6. \A i \in 1 .. Len(v.tasks) : AsRegistered(v.tasks[i])
  BY <1>3, <1>5 DEF Watched, AsRegistered, SameTask
<1>7. Counts'
  <2>1. \A i \in 1 .. Len(watchdog.tasks)' :
          LET c == watchdog'.tasks[i]
          IN  \/ c.task_id \in {t} /\ c.last_kick_time = tick
              \/ \E j \in 1 .. Len(watchdog.tasks) :
                   /\ c.task_id = watchdog.tasks[j].task_id /\ c.task_id \notin {t}
                   /\ c.last_kick_time = watchdog.tasks[j].last_kick_time
    BY <1>2, <1>3, <1>5
  <2> QED BY <1>0, <1>2, <1>3, <2>1, HeardCounts
<1>8. /\ late' \subseteq TaskIds
      /\ \A u \in TaskIds : silence'[u] = IF u \in {t} THEN 0 ELSE silence[u]
  BY <1>0, <1>2, HeardTypes
<1>9. Watched'
  BY <1>2, <1>3, <1>4, <1>6, <1>7, <1>8 DEF Watched, SameFields
<1>10. Punctual'
  <2>1. \A u \in TaskIds : silence'[u] <= tick
    BY <1>8 DEF Punctual
  <2> QED BY <1>2, <1>4, <2>1 DEF Punctual, SameFields
<1> QED BY <1>9, <1>10

(* When the monitor's sleep is over a check is due, except at the start.   *)
LEMMA MonitorDue ==
  ASSUME Watched, Punctual, tick >= monitor_wake
  PROVE  \/ CheckDue(watchdog, tick)
         \/ tick = 0 /\ watchdog.last_check_time = 0 /\ watchdog.global_state = OK
<1>1. PICK last \in 0 .. TickModulus - 1 : last = watchdog.last_check_time
  BY DEF Watched, Sound, WatchdogContext
<1>2. tick \in 0 .. TickModulus - 1 /\ last <= tick
  BY <1>1, FlightFacts DEF Watched, Counts, Punctual
<1>3. Elapsed(tick, last) = tick - last
  BY <1>1, <1>2, ElapsedValue
<1>4. CheckDue(watchdog, tick) <=> tick - last >= 1
  BY <1>1, <1>3 DEF CheckDue, Watched, DefaultInterval
<1>5. last \in Nat /\ tick \in Nat /\ MonitorPeriod >= 1 /\ MonitorPeriod \in Nat
  BY <1>1, <1>2, FlightFacts DEF DefaultInterval
<1> QED BY <1>1, <1>4, <1>5 DEF Punctual

LEMMA MonitorKeeps ==
  ASSUME Watched, Punctual, watchdog_monitor_task
  PROVE  Watched' /\ Punctual'
<1>1. /\ tick >= monitor_wake /\ watchdog' = watchdog_update(watchdog, tick)
      /\ monitor_wake' = tick + MonitorPeriod /\ UNCHANGED <<tick, silence, late>>
  BY DEF watchdog_monitor_task, history
<1>0. /\ Sound(watchdog) /\ Counts /\ tick \in 0 .. TickModulus - 1 /\ tick \in Nat
      /\ MonitorPeriod \in Nat /\ Len(watchdog.tasks) \in Nat
      /\ \A i \in 1 .. Len(watchdog.tasks) : watchdog.tasks[i] \in Entry
  BY FlightFacts, SoundFields DEF Watched, Counts, Punctual
<1>2. CASE CheckDue(watchdog, tick)
  <2>1. PICK v : v = watchdog_update(watchdog, tick)
    OBVIOUS
  <2>2. /\ Sound(v) /\ RegisteredIds(v) = RegisteredIds(watchdog)
        /\ Len(v.tasks) = Len(watchdog.tasks)
        /\ v.last_check_time = tick /\ v.check_interval_ms = watchdog.check_interval_ms
        /\ v.initialized /\ v.enabled
        /\ \A i \in 1 .. Len(watchdog.tasks) : v.tasks[i] = CheckEntry(watchdog.tasks[i], tick)
    BY <1>0, <1>2, <2>1, Examines
  <2>3. \A i \in 1 .. Len(watchdog.tasks) :
          /\ SameTask(watchdog.tasks[i], v.tasks[i])
          /\ v.tasks[i].last_kick_time = watchdog.tasks[i].last_kick_time
    BY <1>0, <2>2, CheckedEntry
  <2>4. \A i \in 1 .. Len(v.tasks) : AsRegistered(v.tasks[i])
    BY <2>2, <2>3 DEF Watched, AsRegistered, SameTask
  <2>5. Counts'
    <3>1. \A i \in DOMAIN v.tasks : Timed(v.tasks[i], tick, silence)
      BY <1>0, <2>2, <2>3, SoundFields DEF Counts, AllTimed, Timed, SameTask
    <3> QED BY <1>0, <1>1, <2>1, <3>1 DEF Counts, AllTimed
  <2>6. Watched'
    BY <1>1, <2>1, <2>2, <2>4, <2>5 DEF Watched
  <2>7. tick + MonitorPeriod \in Nat /\ tick <= tick
    BY <1>0
  <2> QED BY <1>1, <2>1, <2>2, <2>6, <2>7 DEF Punctual
<1>3. CASE ~CheckDue(watchdog, tick)
  <2>1. watchdog' = watchdog
    BY <1>1, <1>3 DEF watchdog_update
  <2>2. tick = 0 /\ watchdog.last_check_time = 0
    BY <1>1, <1>3, MonitorDue
  <2>3. Counts'
    BY <1>0, <1>1, <2>1, SameTicks
  <2> QED BY <1>0, <1>1, <2>1, <2>2, <2>3 DEF Watched, Punctual
<1> QED BY <1>2, <1>3

(* What the monitor finds: the critical tasks that are truly late.         *)
LEMMA MonitorFinds ==
  ASSUME Watched, Punctual, watchdog_monitor_task
  PROVE  /\ watchdog'.global_state = CRITICAL <=> GravelyLate # {}
         /\ GravelyLate \subseteq CriticalTasks
         /\ \A t \in CriticalTasks \cap Registered : silence[t] > TimeoutOf[t] => t \in GravelyLate
<1>1. tick >= monitor_wake /\ watchdog' = watchdog_update(watchdog, tick)
  BY DEF watchdog_monitor_task
<1>0. /\ Sound(watchdog) /\ Counts /\ tick \in 0 .. TickModulus - 1 /\ tick \in Nat
      /\ RegisteredIds(watchdog) = Registered /\ Registered = TaskIds
      /\ watchdog.tasks \in Seq(Entry)
  BY FlightFacts, SoundFields DEF Watched, Counts, Punctual
<1>2. ASSUME NEW t \in Registered
      PROVE  /\ silence[t] \in Nat /\ silence[t] <= tick /\ silence[t] < TickModulus
             /\ \E i \in 1 .. Len(watchdog.tasks) :
                  /\ watchdog.tasks[i].task_id = t /\ EntryOf(watchdog, t) = watchdog.tasks[i]
                  /\ EntryOf(watchdog, t).timeout_ms = TimeoutOf[t]
                  /\ EntryOf(watchdog, t).is_critical <=> t \in CriticalTasks
  <2>1. silence[t] \in Nat
    BY <1>0, FlightFacts DEF Counts
  <2>2. silence[t] <= tick /\ silence[t] < TickModulus
    BY <1>0, <2>1, FlightFacts DEF Punctual
  <2>3. PICK i \in 1 .. Len(watchdog.tasks) :
          watchdog.tasks[i].task_id = t /\ EntryOf(watchdog, t) = watchdog.tasks[i]
    BY <1>0, FoundOf
  <2>4. AsRegistered(watchdog.tasks[i])
    BY DEF Watched
  <2> QED BY <2>1, <2>2, <2>3, <2>4 DEF AsRegistered
<1>3. \A t : t \in GravelyLate <=> t \in Registered \cap CriticalTasks /\ silence[t] > TimeoutOf[t]
  BY <1>0, <1>2 DEF GravelyLate, TrulyLate
<1>4. watchdog'.global_state = CRITICAL <=> GravelyLate # {}
  <2>1. CASE CheckDue(watchdog, tick)
    <3>1. PICK v : v = watchdog_update(watchdog, tick)
      OBVIOUS
    <3>2. v.global_state = GlobalState(watchdog.tasks, tick)
      BY <1>0, <2>1, <3>1, Examines
    <3>3. GlobalState(watchdog.tasks, tick) = CRITICAL
            <=> \E j \in 1 .. Len(watchdog.tasks) :
                  IsLate(watchdog.tasks[j], tick) /\ watchdog.tasks[j].is_critical
      BY <1>0, GlobalTells
    <3>4. ASSUME NEW j \in 1 .. Len(watchdog.tasks)
          PROVE  /\ watchdog.tasks[j].task_id \in Registered
                 /\ EntryOf(watchdog, watchdog.tasks[j].task_id) = watchdog.tasks[j]
                 /\ IsLate(watchdog.tasks[j], tick)
                      <=> watchdog.tasks[j].task_id \in TrulyLate(watchdog)
      <4>1. /\ watchdog.tasks[j].task_id \in Registered
            /\ EntryOf(watchdog, watchdog.tasks[j].task_id) = watchdog.tasks[j]
        BY <1>0, Found
      <4>2. silence[watchdog.tasks[j].task_id] < TickModulus
        BY <1>2, <4>1
      <4> QED BY <1>0, <4>1, <4>2, LateIsTrue
    <3>5. ASSUME NEW t \in GravelyLate
          PROVE  \E j \in 1 .. Len(watchdog.tasks) :
                   IsLate(watchdog.tasks[j], tick) /\ watchdog.tasks[j].is_critical
      <4>1. t \in TrulyLate(watchdog) /\ EntryOf(watchdog, t).is_critical /\ t \in Registered
        BY <1>3 DEF GravelyLate
      <4>2. PICK i \in 1 .. Len(watchdog.tasks) :
              watchdog.tasks[i].task_id = t /\ EntryOf(watchdog, t) = watchdog.tasks[i]
        BY <1>2, <4>1
      <4> QED BY <3>4, <4>1, <4>2
    <3>6. ASSUME NEW j \in 1 .. Len(watchdog.tasks),
                 IsLate(watchdog.tasks[j], tick) /\ watchdog.tasks[j].is_critical
          PROVE  GravelyLate # {}
      <4>1. watchdog.tasks[j].task_id \in GravelyLate
        BY <3>4, <3>6 DEF GravelyLate
      <4> QED BY <4>1
    <3> QED BY <1>1, <3>1, <3>2, <3>3, <3>5, <3>6
  <2>2. CASE ~CheckDue(watchdog, tick)
    <3>1. tick = 0 /\ watchdog.global_state = OK
      BY <1>1, <2>2, MonitorDue
    <3>2. watchdog' = watchdog
      BY <1>1, <2>2 DEF watchdog_update
    <3>3. GravelyLate = {}
      <4>1. ASSUME NEW t \in Registered  PROVE ~(silence[t] > TimeoutOf[t])
        <5>1. TimeoutOf[t] \in Nat \ {0} /\ silence[t] \in Nat /\ silence[t] <= 0
          BY <1>2, <3>1, FlightFacts
        <5> QED BY <5>1
      <4> QED BY <1>3, <4>1
    <3> QED BY <3>1, <3>2, <3>3 DEF OK, CRITICAL
  <2> QED BY <2>1, <2>2
<1> QED BY <1>3, <1>4

LEMMA TimeKeeps ==
  ASSUME Watched, Punctual, TimePasses
  PROVE  Watched' /\ Punctual'
<1>1. /\ tick < TickLimit /\ tick' = tick + 1 /\ silence' = Aged(watchdog)
      /\ UNCHANGED <<watchdog, late, monitor_wake>>
  BY DEF TimePasses, taskVars
<1>2. tick' = (tick + 1) % TickModulus
  <2>1. tick + 1 \in 0 .. TickModulus - 1
    BY <1>1, FlightFacts DEF Punctual
  <2>2. \A x \in 0 .. TickModulus - 1 : x % TickModulus = x
    BY FlightFacts
  <2> QED BY <1>1, <2>1, <2>2
<1>3. Counts'
  BY <1>1, <1>2, Ages DEF Watched
<1>4. Watched'
  BY <1>1, <1>3 DEF Watched
<1>5. \A t \in TaskIds : silence'[t] <= tick'
  <2> SUFFICES ASSUME NEW t \in TaskIds  PROVE silence'[t] <= tick'
    OBVIOUS
  <2>1. silence'[t] \in {silence[t], silence[t] + 1}
    BY <1>1 DEF Aged
  <2>2. silence[t] \in Nat /\ silence[t] <= tick /\ tick \in Nat
    BY FlightFacts DEF Watched, Counts, Punctual
  <2> QED BY <1>1, <2>1, <2>2
<1>6. watchdog.last_check_time \in Nat
  BY FlightFacts DEF Watched, Sound, WatchdogContext
<1> QED BY <1>1, <1>4, <1>5, <1>6, FlightFacts DEF Punctual

-----------------------------------------------------------------------------
(* What the failsafe does, and why                                         *)

(* The motors obey: a failsafe's throttle is what control_task_function    *)
(* keeps.                                                                  *)
Obeyed ==
  /\ motors \in [by : {"off", "pid", "failsafe"}, level : 0 .. FullLevel]
  /\ failsafe_throttle \in Levels
  /\ motors.by = "failsafe" => motors.level = failsafe_throttle
  /\ battery \in {"good", "low"}

(* Only the monitor raises the alarm, and only it writes down the cause.   *)
LEMMA AlarmSteps ==
  ASSUME tick \in Nat, failsafe \in FailsafeStates, [FlightNext]_flightVars
  PROVE  \/ watchdog_monitor_task
         \/ UNCHANGED <<cause, battery>> /\ UNCHANGED failsafe
         \/ UNCHANGED cause /\ \E limits : safety_task_function(limits)
         \/ /\ UNCHANGED <<cause, battery>>
            /\ failsafe' = failsafe_actions_update(failsafe, tick) \/ Ends
<1> USE DEF taskVars, watchdogVars, history
<1>1. ASSUME NEW t \in KickingTasks, KickingTurn(t)  PROVE UNCHANGED <<cause, battery, failsafe>>
  BY <1>1 DEF KickingTurn
<1>2. ASSUME NEW unhealthy, estimator_task_function(unhealthy)
      PROVE  UNCHANGED <<cause, battery, failsafe>>
  BY <1>2 DEF estimator_task_function
<1>3. CASE control_task_function \/ ControlKicks \/ navigation_task_function
  BY <1>3 DEF control_task_function, ControlKicks, navigation_task_function
<1>5. ASSUME NEW limits, safety_task_function(limits)  PROVE UNCHANGED cause
  BY <1>5 DEF safety_task_function
<1>6. CASE Operator
  BY <1>6 DEF Operator, Ends
<1>7. CASE TimePasses
  BY <1>7 DEF TimePasses
<1>8. CASE UNCHANGED flightVars
  BY <1>8 DEF flightVars
<1> QED BY <1>1, <1>2, <1>3, <1>5, <1>6, <1>7, <1>8 DEF FlightNext

LEMMA AlarmKeepsCause ==
  ASSUME FlightInv, Watched, Punctual, AlarmHasCause, [FlightNext]_flightVars
  PROVE  AlarmHasCause'
<1>0. tick \in Nat /\ failsafe \in FailsafeStates
  BY DEF FlightInv, Clock
<1>1. CASE watchdog_monitor_task
  <2>1. /\ failsafe' = IF watchdog'.global_state = CRITICAL
                       THEN failsafe_actions_trigger(failsafe, "WATCHDOG", tick) ELSE failsafe
        /\ cause' = IF failsafe' # failsafe THEN GravelyLate ELSE cause
    BY <1>1 DEF watchdog_monitor_task, Alarm, GravelyLate
  <2>2. CASE failsafe' = failsafe
    BY <2>1, <2>2 DEF AlarmHasCause
  <2>3. CASE failsafe' # failsafe
    <3>1. GravelyLate # {} /\ GravelyLate \subseteq CriticalTasks
      BY <1>1, <2>1, <2>3, MonitorFinds
    <3>2. "Navigation" \notin CriticalTasks
      BY DEF CriticalTasks
    <3> QED BY <2>1, <2>3, <3>1, <3>2 DEF AlarmHasCause
  <2> QED BY <2>2, <2>3
<1>2. CASE UNCHANGED <<cause, battery>> /\ UNCHANGED failsafe
  BY <1>2 DEF AlarmHasCause
<1>3. ASSUME NEW limits, safety_task_function(limits), UNCHANGED cause
      PROVE  AlarmHasCause'
  <2>1. MayTrigger(CheckTriggers, failsafe, failsafe')
    BY <1>0, <1>3, ChecksTriggerOnce DEF safety_task_function
  <2>2. ASSUME NEW trigger \in CheckTriggers, failsafe' = Triggered(failsafe, trigger)
        PROVE  failsafe'.trigger_type # "WATCHDOG"
    BY <1>0, <2>2 DEF Triggered, CheckTriggers, FailsafeStates
  <2> QED BY <1>3, <2>1, <2>2 DEF MayTrigger, AlarmHasCause
<1>4. CASE UNCHANGED cause /\ failsafe' = failsafe_actions_update(failsafe, tick)
  <2>1. failsafe'.active = failsafe.active /\ failsafe'.trigger_type = failsafe.trigger_type
    BY <1>0, <1>4 DEF failsafe_actions_update, FailsafeStates
  <2> QED BY <1>4, <2>1 DEF AlarmHasCause
<1>5. CASE Ends
  <2>1. ~failsafe'.active
    BY <1>0, <1>5 DEF Ends, failsafe_recover, failsafe_actions_reset, FailsafeStates
  <2> QED BY <2>1 DEF AlarmHasCause
<1> QED BY <1>0, <1>1, <1>2, <1>3, <1>4, <1>5, AlarmSteps

(* A turn of the control task with an active failsafe.                     *)
Descends ==
  /\ motors' = MotorsBy("failsafe", failsafe_throttle')
  /\ failsafe_throttle' = IF failsafe_throttle > FloorLevel
                          THEN failsafe_throttle - 1 ELSE FloorLevel

(* Only control_task_function touches the motors.                          *)
LEMMA MotorSteps ==
  ASSUME Obeyed, [FlightNext]_flightVars
  PROVE  Obeyed' /\ (motors' = motors \/ ~failsafe.active \/ Descends)
<1> USE DEF taskVars, watchdogVars, history
<1> DEFINE Same == UNCHANGED <<motors, failsafe_throttle, battery>>
<1>1. ASSUME NEW t \in KickingTasks, KickingTurn(t)  PROVE Same
  BY <1>1 DEF KickingTurn
<1>2. ASSUME NEW unhealthy, estimator_task_function(unhealthy)  PROVE Same
  BY <1>2 DEF estimator_task_function
<1>3. ASSUME ControlKicks \/ navigation_task_function \/ watchdog_monitor_task  PROVE Same
  BY <1>3 DEF ControlKicks, navigation_task_function, watchdog_monitor_task
<1>4. ASSUME Operator \/ TimePasses \/ UNCHANGED flightVars  PROVE Same
  BY <1>4 DEF Operator, TimePasses, flightVars
<1>5. ASSUME NEW limits, safety_task_function(limits)
      PROVE  UNCHANGED <<motors, failsafe_throttle>> /\ battery' \in {battery, "low"}
  BY <1>5 DEF safety_task_function
<1>6. CASE control_task_function
  <2>1. Outputs /\ UNCHANGED battery
    BY <1>6 DEF control_task_function
  <2>2. CASE failsafe.active
    <3>1. PICK level \in Levels :
            level = IF failsafe_throttle > FloorLevel THEN failsafe_throttle - 1 ELSE FloorLevel
      BY DEF Obeyed, Levels, FloorLevel, StartLevel
    <3>2. failsafe_throttle' = level /\ motors' = MotorsBy("failsafe", level)
      BY <2>1, <2>2, <3>1 DEF Outputs
    <3>3. level \in 0 .. FullLevel
      BY <3>1 DEF Levels, FloorLevel, StartLevel, FullLevel
    <3>4. motors' \in [by : {"off", "pid", "failsafe"}, level : 0 .. FullLevel]
          /\ motors'.level = level
      BY <3>2, <3>3 DEF MotorsBy
    <3> QED BY <2>1, <3>1, <3>2, <3>4 DEF Obeyed, Descends
  <2>3. CASE ~failsafe.active
    <3>1. PICK level \in ControllerLevels : motors' = MotorsBy("pid", level)
      BY <2>1, <2>3 DEF Outputs, ControllerOutputs
    <3>3. UNCHANGED failsafe_throttle /\ level \in 0 .. FullLevel
      BY <2>1, <2>3, FlightAssumption DEF Outputs, ControllerOutputs
    <3>2. motors' \in [by : {"off", "pid", "failsafe"}, level : 0 .. FullLevel]
          /\ motors'.by = "pid"
      BY <3>1, <3>3 DEF MotorsBy
    <3> QED BY <2>1, <2>3, <3>2, <3>3 DEF Obeyed
  <2> QED BY <2>2, <2>3
<1>7. ASSUME UNCHANGED <<motors, failsafe_throttle>>, battery' \in {battery, "low"}
      PROVE  Obeyed'
  BY <1>7 DEF Obeyed
<1> QED BY <1>1, <1>2, <1>3, <1>4, <1>5, <1>6, <1>7 DEF FlightNext

(* With a low battery the first check of a turn already lands.             *)
LEMMA LowBatteryFirst ==
  ASSUME tick \in Nat, failsafe \in FailsafeStates, ~failsafe.active, NEW limits
  PROVE  Checks("low", limits) = Triggered(failsafe, "BATTERY")
<1> DEFINE f1 == failsafe_check_battery(failsafe, "low", tick)
           f2 == failsafe_check_gps(f1, TRUE, tick, tick)
           f3 == failsafe_check_rc(f2, tick, tick)
           f4 == failsafe_check_comm(f3, tick, tick)
           f5 == failsafe_check_sensors(f4, tick, tick)
           f6 == failsafe_check_altitude(f5, "altitude" \in limits, tick)
           f7 == failsafe_check_speed(f6, "speed" \in limits, tick)
           f8 == failsafe_check_attitude(f7, "attitude" \in limits, tick)
           f9 == failsafe_check_geofence(f8, FALSE, tick)
<1>1. f1 = Triggered(failsafe, "BATTERY")
  BY Configured DEF failsafe_check_battery, TriggerIf, Enabled, failsafe_actions_trigger,
     Triggered, Triggers
<1>2. f1.active
  BY <1>1 DEF Triggered, FailsafeStates
<1>3. ASSUME NEW f, f.active, NEW cond, NEW trigger  PROVE TriggerIf(cond, f, trigger, tick) = f
  BY <1>3 DEF TriggerIf, failsafe_actions_trigger
<1> HIDE DEF f1
<1>4. f2 = f1
  BY <1>2, <1>3 DEF failsafe_check_gps
<1>5. f3 = f1
  BY <1>2, <1>3, <1>4 DEF failsafe_check_rc
<1>6. f4 = f1
  BY <1>2, <1>3, <1>5 DEF failsafe_check_comm
<1>7. f5 = f1
  BY <1>2, <1>3, <1>6 DEF failsafe_check_sensors
<1>8. f6 = f1
  BY <1>2, <1>3, <1>7 DEF failsafe_check_altitude
<1>9. f7 = f1
  BY <1>2, <1>3, <1>8 DEF failsafe_check_speed
<1>10. f8 = f1
  BY <1>2, <1>3, <1>9 DEF failsafe_check_attitude
<1>11. f9 = f1
  BY <1>2, <1>3, <1>10 DEF failsafe_check_geofence
<1>12. Checks("low", limits) = f9
  BY DEF Checks, f1, f2, f3, f4, f5, f6, f7, f8, f9
<1> QED BY <1>1, <1>11, <1>12

(* The inductive invariant: besides what is said of the failsafe, the      *)
(* watchdog runs with the entries system_init gave it and knows the silence*)
(* of each task, and the monitor never wakes before a check is due.        *)
FlightIInv == FlightInv /\ Watched /\ Punctual /\ Obeyed /\ AlarmHasCause

LEMMA FlightStarts == FlightInit => FlightIInv
<1> SUFFICES ASSUME FlightInit  PROVE FlightIInv
  OBVIOUS
<1>1. FlightInv
  BY FlightInit1
<1>2. /\ watchdog = RegisterAll(watchdog_start(ZeroWatchdog, 0), SetToSeq(Registered))
      /\ tick = 0 /\ silence = [t \in TaskIds |-> 0] /\ late = {}
      /\ motors = MotorsBy("off", 0) /\ failsafe_throttle = StartLevel
      /\ monitor_wake = 0 /\ battery = "good" /\ FailsafeInit
  BY Zenon DEF FlightInit
<1>3. /\ Sound(watchdog) /\ watchdog.initialized /\ watchdog.enabled
      /\ watchdog.check_interval_ms = DefaultInterval
      /\ watchdog.last_check_time = 0 /\ watchdog.global_state = OK
      /\ RegisteredIds(watchdog) = Registered
      /\ \A i \in 1 .. Len(watchdog.tasks) :
           AsRegistered(watchdog.tasks[i]) /\ watchdog.tasks[i].last_kick_time = 0
  BY <1>2, Registrations
<1>4. /\ 0 \in 0 .. TickModulus - 1 /\ 0 \in 0 .. SilenceCap /\ 0 \in Nat /\ 0 <= TickLimit
  BY FlightFacts
<1>5. Counts
  <2>1. ASSUME NEW i \in DOMAIN watchdog.tasks
        PROVE  Timed(watchdog.tasks[i], tick, silence)
    <3>1. i \in 1 .. Len(watchdog.tasks) /\ watchdog.tasks[i].task_id \in TaskIds
      BY <1>3, SoundFields
    <3>2. silence[watchdog.tasks[i].task_id] = 0 /\ watchdog.tasks[i].last_kick_time = tick
      BY <1>2, <1>3, <3>1
    <3> QED BY <1>2, <1>4, <3>2, JustKicked
  <2> QED BY <1>2, <1>4, <2>1 DEF Counts, AllTimed
<1>6. Watched
  BY <1>2, <1>3, <1>5 DEF Watched
<1>7. Punctual
  BY <1>2, <1>3, <1>4 DEF Punctual
<1>8. Obeyed
  BY <1>2 DEF Obeyed, MotorsBy, Levels, StartLevel, FloorLevel, FullLevel
<1>9. AlarmHasCause
  BY <1>2 DEF AlarmHasCause, FailsafeInit
<1> QED BY <1>1, <1>6, <1>7, <1>8, <1>9 DEF FlightIInv

LEMMA FlightKeeps ==
  ASSUME FlightIInv, [FlightNext]_flightVars
  PROVE  FlightIInv'
<1>0. FlightInv /\ Watched /\ Punctual /\ Obeyed /\ AlarmHasCause
  BY DEF FlightIInv
<1>1. FlightInv'
  BY <1>0, FlightStep
<1>2. Obeyed' /\ AlarmHasCause'
  BY <1>0, MotorSteps, AlarmKeepsCause
<1>3. Watched' /\ Punctual'
  <2>1. ASSUME NEW t, KickedBy(t) /\ UNCHANGED <<tick, monitor_wake>>
        PROVE  Watched' /\ Punctual'
    BY <1>0, <2>1, KickKeeps
  <2>2. CASE UNCHANGED <<watchdog, tick, silence, late, monitor_wake>>
    BY <1>0, <2>2 DEF Watched, Punctual, Counts, AllTimed
  <2>3. CASE watchdog_monitor_task
    BY <1>0, <2>3, MonitorKeeps
  <2>4. CASE TimePasses
    BY <1>0, <2>4, TimeKeeps
  <2> QED BY <2>1, <2>2, <2>3, <2>4, WatchSteps
<1> QED BY <1>1, <1>2, <1>3 DEF FlightIInv

(* The inductive invariant holds in every run of the flight tasks          *)
(* (main.c, watchdog.c, failsafe_actions.c).                               *)
THEOREM FlightInvariance == FlightSpec => []FlightIInv
<1>1. FlightIInv /\ [FlightNext]_flightVars => FlightIInv'
  BY FlightKeeps
<1> QED BY <1>1, FlightStarts, PTL DEF FlightSpec

(* A failsafe of the watchdog was triggered while a critical task was truly*)
(* late, whichever tasks are registered in whatever order (main.c,         *)
(* watchdog_monitor_task).                                                 *)
THEOREM AlarmsHaveCause == FlightSpec => []AlarmHasCause
<1>1. FlightIInv => AlarmHasCause
  BY DEF FlightIInv
<1> QED BY <1>1, FlightInvariance, PTL

(* A turn of the watchdog task leaves a failsafe active if a critical task *)
(* is late: its sleep and the check interval never hide one (main.c,       *)
(* watchdog_update).                                                       *)
THEOREM MonitorMissesNone == FlightSpec => MonitorCatches
<1> DEFINE Caught == (\E t \in CriticalTasks \cap Registered : silence[t] > TimeoutOf[t])
                     /\ watchdog_monitor_task => failsafe'.active
<1>1. ASSUME FlightIInv  PROVE Caught
  <2> SUFFICES ASSUME NEW t \in CriticalTasks \cap Registered, silence[t] > TimeoutOf[t],
                      watchdog_monitor_task
               PROVE  failsafe'.active
    OBVIOUS
  <2>0. Watched /\ Punctual /\ tick \in Nat /\ failsafe \in FailsafeStates
    BY <1>1 DEF FlightIInv, FlightInv, Clock
  <2>1. watchdog'.global_state = CRITICAL
    BY <2>0, MonitorFinds
  <2>2. failsafe' = failsafe_actions_trigger(failsafe, "WATCHDOG", tick)
    BY <2>1 DEF watchdog_monitor_task, Alarm
  <2>3. CASE failsafe.active
    BY <2>2, <2>3 DEF failsafe_actions_trigger
  <2>4. CASE ~failsafe.active
    <3>1. failsafe' = Triggered(failsafe, "WATCHDOG")
      BY <2>2, <2>4, Configured DEF failsafe_actions_trigger, Triggered, Triggers
    <3> QED BY <2>0, <3>1 DEF Triggered, FailsafeStates
  <2> QED BY <2>3, <2>4
<1>2. FlightIInv /\ [FlightNext]_flightVars => [Caught]_flightVars
  BY <1>1
<1>3. FlightSpec => [][Caught]_flightVars
  BY <1>2, FlightInvariance, PTL DEF FlightSpec
<1> QED BY <1>3 DEF MonitorCatches

(* With a low battery a failsafe that begins lands (main.c,                *)
(* safety_task_function: the battery is checked first).                    *)
THEOREM LowBatteryIsFirst == FlightSpec => LowBatteryLands
<1> DEFINE Lands == ~failsafe.active /\ failsafe'.active /\ battery' # "good"
                    => failsafe'.current_action = "LAND"
<1>1. ASSUME FlightIInv, [FlightNext]_flightVars  PROVE Lands
  <2> SUFFICES ASSUME ~failsafe.active, failsafe'.active, battery' # "good"
               PROVE  failsafe'.current_action = "LAND"
    OBVIOUS
  <2>0. tick \in Nat /\ failsafe \in FailsafeStates /\ Obeyed
    BY <1>1 DEF FlightIInv, FlightInv, Clock
  <2>1. ASSUME NEW trigger \in {"WATCHDOG", "BATTERY"}, failsafe' = Triggered(failsafe, trigger)
        PROVE  failsafe'.current_action = "LAND"
    <3>1. ActionFor(trigger) = "LAND"
      BY DEF ActionFor
    <3> QED BY <2>0, <2>1, <3>1 DEF Triggered, FailsafeStates
  <2>2. CASE watchdog_monitor_task
    <3>1. failsafe' = failsafe_actions_trigger(failsafe, "WATCHDOG", tick)
      BY <2>2 DEF watchdog_monitor_task
    <3>2. failsafe' = Triggered(failsafe, "WATCHDOG")
      BY <3>1, Configured DEF failsafe_actions_trigger, Triggered, Triggers
    <3> QED BY <2>1, <3>2
  <2>3. ASSUME NEW limits, safety_task_function(limits)
        PROVE  failsafe'.current_action = "LAND"
    <3>1. battery' \in {battery, "low"} /\ failsafe' = Checks(battery', limits)
      BY <2>3 DEF safety_task_function
    <3>2. battery' = "low"
      BY <2>0, <3>1 DEF Obeyed
    <3>3. failsafe' = Triggered(failsafe, "BATTERY")
      BY <2>0, <3>1, <3>2, LowBatteryFirst
    <3> QED BY <2>1, <3>3
  <2>4. CASE failsafe' = failsafe
    BY <2>4
  <2>5. CASE failsafe' = failsafe_actions_update(failsafe, tick) \/ Ends
    BY <2>5 DEF failsafe_actions_update, Ends
  <2> QED BY <1>1, <2>0, <2>2, <2>3, <2>4, <2>5, AlarmSteps
<1>2. FlightIInv /\ [FlightNext]_flightVars => [Lands]_flightVars
  BY <1>1
<1>3. FlightSpec => [][Lands]_flightVars
  BY <1>2, FlightInvariance, PTL DEF FlightSpec
<1> QED BY <1>3 DEF LowBatteryLands

(* While a failsafe is active the controller does not get the motors back, *)
(* a failsafe that drives them only slows them down, and one that takes    *)
(* them over leaves them below its starting throttle, whatever the         *)
(* controller's outputs were (main.c, control_task_function).              *)
THEOREM MotorsHeld == FlightSpec => FailsafeKeepsMotors
<1> DEFINE Down == failsafe.active /\ motors' # motors =>
                     /\ motors'.by = "failsafe" /\ motors'.level < StartLevel
                     /\ motors.by = "failsafe" => motors'.level < motors.level
<1>1. ASSUME FlightIInv, [FlightNext]_flightVars  PROVE Down
  <2> SUFFICES ASSUME failsafe.active, motors' # motors
               PROVE  /\ motors'.by = "failsafe" /\ motors'.level < StartLevel
                      /\ motors.by = "failsafe" => motors'.level < motors.level
    OBVIOUS
  <2>0. Obeyed
    BY <1>1 DEF FlightIInv
  <2>1. Descends
    BY <1>1, <2>0, MotorSteps
  <2>2. PICK level : level = failsafe_throttle'
    OBVIOUS
  <2>3. /\ motors' = [by |-> "failsafe", level |-> level]
        /\ failsafe_throttle \in 1 .. 3
        /\ level = IF failsafe_throttle > 1 THEN failsafe_throttle - 1 ELSE 1
    BY <2>0, <2>1, <2>2 DEF Obeyed, Descends, MotorsBy, Levels, FloorLevel, StartLevel
  <2>4. /\ motors'.by = "failsafe" /\ motors'.level = level
        /\ motors'.level < StartLevel
    BY <2>3 DEF StartLevel
  <2>5. ASSUME motors.by = "failsafe"  PROVE motors'.level < motors.level
    <3>1. motors.level = failsafe_throttle
      BY <2>0, <2>5 DEF Obeyed
    <3>2. motors = [by |-> "failsafe", level |-> failsafe_throttle]
      BY <2>0, <2>5, <3>1 DEF Obeyed
    <3>3. level # failsafe_throttle
      BY <2>3, <3>2
    <3> QED BY <2>3, <2>4, <3>1, <3>3
  <2> QED BY <2>4, <2>5
<1>2. FlightIInv /\ [FlightNext]_flightVars => [Down]_flightVars
  BY <1>1
<1>3. FlightSpec => [][Down]_flightVars
  BY <1>2, FlightInvariance, PTL DEF FlightSpec
<1> QED BY <1>3 DEF FailsafeKeepsMotors

-----------------------------------------------------------------------------
(* The health monitor                                                      *)

(* health_monitor_init does not initialize it.                             *)
Idle == health = health_monitor_init

LEMMA HealthIdle == FlightSpec => []Idle
<1>1. FlightInit => Idle
  BY Zenon DEF FlightInit, Idle
<1>2. ASSUME Idle, [FlightNext]_flightVars
      PROVE  Idle'
  <2> USE DEF taskVars, watchdogVars, history
  <2>0. ~health.g_health_initialized
    BY <1>2 DEF health_monitor_init, Idle
  <2>1. ASSUME NEW t \in KickingTasks, KickingTurn(t)  PROVE UNCHANGED health
    BY <2>1 DEF KickingTurn
  <2>2. ASSUME NEW unhealthy, estimator_task_function(unhealthy)  PROVE UNCHANGED health
    BY <2>0, <2>2 DEF estimator_task_function, health_monitor_update_sensor
  <2>3. ASSUME control_task_function \/ ControlKicks \/ navigation_task_function
               \/ watchdog_monitor_task \/ Operator
        PROVE  UNCHANGED health
    BY <2>3 DEF control_task_function, ControlKicks, navigation_task_function,
       watchdog_monitor_task, Operator
  <2>4. ASSUME NEW limits, safety_task_function(limits)  PROVE UNCHANGED health
    <3>1. health' = health_monitor_update_system(health_monitor_update(health, tick),
                                                 "load" \in limits)
      BY <2>4 DEF safety_task_function
    <3>2. health_monitor_update(health, tick) = health
      BY <2>0 DEF health_monitor_update
    <3> QED BY <2>0, <3>1, <3>2 DEF health_monitor_update_system
  <2>5. ASSUME TimePasses \/ UNCHANGED flightVars  PROVE UNCHANGED health
    BY <2>5 DEF TimePasses, flightVars
  <2> QED BY <1>2, <2>1, <2>2, <2>3, <2>4, <2>5 DEF FlightNext, Idle
<1>3. Idle /\ [FlightNext]_flightVars => Idle'
  BY <1>2
<1> QED BY <1>1, <1>3, PTL DEF FlightSpec

(* The counter of ended failsafes, the history of the alarm and the place  *)
(* of the control task.                                                    *)
Histories ==
  cause \subseteq CriticalTasks /\ ended \in 0 .. MaxEpisodes /\ control_pc \in {"loop", "kick"}

LEMMA HistoriesKept ==
  ASSUME FlightIInv, Histories, [FlightNext]_flightVars
  PROVE  Histories'
<1> USE DEF taskVars, watchdogVars, history
<1> DEFINE Same == UNCHANGED <<cause, ended, control_pc>>
<1>1. ASSUME NEW t \in KickingTasks, KickingTurn(t)  PROVE Same
  BY <1>1 DEF KickingTurn
<1>2. ASSUME NEW unhealthy, estimator_task_function(unhealthy)  PROVE Same
  BY <1>2 DEF estimator_task_function
<1>3. CASE control_task_function \/ ControlKicks
  <2>1. UNCHANGED <<cause, ended>> /\ control_pc' \in {"loop", "kick"}
    BY <1>3 DEF control_task_function, ControlKicks
  <2> QED BY <2>1 DEF Histories
<1>4. CASE watchdog_monitor_task
  <2>1. /\ UNCHANGED <<ended, control_pc>>
        /\ cause' = IF failsafe' # failsafe THEN GravelyLate ELSE cause
    BY <1>4 DEF watchdog_monitor_task, GravelyLate
  <2>2. GravelyLate \subseteq CriticalTasks
    BY <1>4, MonitorFinds DEF FlightIInv
  <2> QED BY <2>1, <2>2 DEF Histories
<1>5. ASSUME NEW limits, safety_task_function(limits)  PROVE Same
  BY <1>5 DEF safety_task_function
<1>6. CASE Operator
  <2>1. /\ UNCHANGED <<cause, control_pc>>
        /\ \/ ended' = ended
           \/ ended < MaxEpisodes /\ ended' = ended + 1
    BY <1>6 DEF Operator
  <2>2. ended \in Nat /\ ended <= MaxEpisodes /\ MaxEpisodes \in Nat
    BY FlightAssumption DEF Histories
  <2>3. ended' \in 0 .. MaxEpisodes
    BY <2>1, <2>2
  <2> QED BY <2>1, <2>3 DEF Histories
<1>7. CASE navigation_task_function \/ TimePasses \/ UNCHANGED flightVars
  <2>1. Same
    BY <1>7 DEF navigation_task_function, TimePasses, flightVars
  <2> QED BY <2>1 DEF Histories
<1>8. Same => Histories'
  BY DEF Histories
<1> QED BY <1>1, <1>2, <1>3, <1>4, <1>5, <1>6, <1>7, <1>8 DEF FlightNext

LEMMA HistoriesHold == FlightSpec => []Histories
<1>1. FlightInit => Histories
  <2>1. FlightInit => cause = {} /\ ended = 0 /\ control_pc = "loop"
    BY Zenon DEF FlightInit
  <2> QED BY <2>1, FlightAssumption DEF Histories
<1>2. FlightIInv /\ Histories /\ [FlightNext]_flightVars => Histories'
  BY HistoriesKept
<1> QED BY <1>1, <1>2, FlightInvariance, PTL DEF FlightSpec

(* All the variables of the tasks, of the watchdog, of the failsafe and of *)
(* the health monitor keep their types, the registered tasks stay the ones *)
(* system_init registers, and the cause noted at an alarm holds critical   *)
(* tasks only (main.c, watchdog.c, failsafe_actions.c, health_monitor.c).  *)
THEOREM FlightTypeCorrect == FlightSpec => []FlightTypeOK
<1>1. ASSUME FlightIInv, Idle, Histories  PROVE FlightTypeOK
  <2>1. health \in HealthStates
    <3>1. 0 \in 0 .. TickModulus - 1
      BY FlightFacts
    <3> QED BY <1>1, <3>1 DEF HealthStates, health_monitor_init, HealthStatus, Idle
  <2>2. WatchdogTypeOK /\ RegisteredIds(watchdog) = Registered
    BY <1>1 DEF FlightIInv, Watched, WatchdogTypeOK, Sound, Counts
  <2>3. /\ failsafe \in FailsafeStates /\ failsafe_throttle \in Levels
        /\ motors \in [by : {"off", "pid", "failsafe"}, level : 0 .. FullLevel]
        /\ monitor_wake \in Nat /\ battery \in {"good", "low"}
    BY <1>1 DEF FlightIInv, FlightInv, Clock, Obeyed, Punctual
  <2> QED BY <1>1, <2>1, <2>2, <2>3 DEF FlightTypeOK, Histories
<1>2. FlightIInv /\ Idle /\ Histories => FlightTypeOK
  BY <1>1
<1> QED BY <1>2, FlightInvariance, HealthIdle, HistoriesHold, PTL

=============================================================================
