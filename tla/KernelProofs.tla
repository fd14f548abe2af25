---------------------------- MODULE KernelProofs ----------------------------
(***************************************************************************)
(* Theorems about the kernel, for any number of tasks, priorities and      *)
(* calls, in four parts.                                                   *)
(*   TaskLists   what the list operators preserve                          *)
(*   Kernel      the inductive invariant IInv and what follows from it     *)
(*   Scheduler   Kernel implements it                                      *)
(*   Waiting     what blocking calls can rely on.  They may corrupt the    *)
(*               lists, so this part assumes nothing of how tasks are      *)
(*               linked.                                                   *)
(***************************************************************************)
EXTENDS Waiting, FiniteSetTheorems, FunctionTheorems, SequenceTheorems,
        WellFoundedInduction, TLAPS

(***************************************************************************)
(* TaskLists.  WellFormed is what every operator preserves: the neighbour  *)
(* facts of ListsOK, and a rank that grows along next, so that no list     *)
(* runs in a circle.                                                       *)
(***************************************************************************)

GrowsAlongNext(k, rank) ==
  \A t \in TCB : k.next[t] # NULL => rank[t] < rank[k.next[t]]

Acyclic(k) == \E rank \in [TCB -> Nat] : GrowsAlongNext(k, rank)

WellFormed(k) == k \in ListsType /\ ListsOK(k) /\ Acyclic(k)

-----------------------------------------------------------------------------
(* Walks *)

(* TCB is finite: the pool of tasks and the idle task.                     *)
LEMMA TCBFinite == IsFiniteSet(TCB) /\ NULL \notin TCB /\ Idle \in TCB
<1>1. IsFiniteSet(Tasks)
  BY FS_Interval, TaskListsAssumption, MaxTasks - 1 \in Int DEF Tasks
<1> QED
  BY <1>1, FS_AddElement, TaskListsAssumption DEF TCB

(* A walk stays among the tasks, meets its head and goes on along next.    *)
LEMMA ChainClosed ==
  ASSUME NEW k \in ListsType, NEW head \in TCB
  PROVE  /\ Chain(k, head) \subseteq TCB
         /\ head \in Chain(k, head)
         /\ Closed(k, Chain(k, head))
<1>1. head # NULL
  BY TCBFinite
<1> QED
  BY <1>1 DEF Chain, Closed, ListsType

(* A walk meets nothing outside a closed set that holds its head.          *)
LEMMA ChainLeast ==
  ASSUME NEW k, NEW S \in SUBSET TCB, NEW head \in S, Closed(k, S)
  PROVE  Chain(k, head) \subseteq S
  BY TCBFinite DEF Chain

(* Where next and prev are inverse, a walk that starts with nothing before *)
(* its head ends: the loop of kernel_add_to_ready_queue terminates.        *)
LEMMA LastExists ==
  ASSUME NEW k \in ListsType, LinksOK(k), NEW head \in TCB, k.prev[head] = NULL
  PROVE  /\ Last(k, head) \in Chain(k, head)
         /\ Last(k, head) \in TCB
         /\ k.next[Last(k, head)] = NULL
<1> DEFINE C == Chain(k, head)
<1>1. C \subseteq TCB /\ head \in C /\ Closed(k, C)
  BY ChainClosed
<1>2. \E t \in C : k.next[t] = NULL
  <2> SUFFICES ASSUME \A t \in C : k.next[t] # NULL  PROVE FALSE
    OBVIOUS
  <2> DEFINE f == [t \in C |-> k.next[t]]
  <2>1. f \in [C -> C]
    BY <1>1 DEF Closed
  <2>2. \A a, b \in C : f[a] = f[b] => a = b
    BY <1>1 DEF LinksOK
  <2>3. f \in Injection(C, C)
    <3> HIDE DEF f, C
    <3> QED BY <2>1, <2>2, Fun_IsInj
  <2>4. IsFiniteSet(C)
    <3> HIDE DEF C
    <3> QED BY <1>1, TCBFinite, FS_Subset
  <2>5. f \in Surjection(C, C)
    <3> HIDE DEF f, C
    <3> QED BY <2>3, <2>4, FS_Injection
  <2>6. PICK t \in C : f[t] = head
    <3> HIDE DEF f, C
    <3> QED BY <2>5, <1>1, Fun_SurjectionProperties
  <2>7. k.next[t] = head /\ head # NULL
    BY <2>6, <1>1, TCBFinite
  <2> QED
    BY <2>7, <1>1, TCBFinite DEF LinksOK
<1> QED
  BY <1>1, <1>2 DEF Last

-----------------------------------------------------------------------------
(* What each operator preserves *)

(* A task on no list has no neighbours, and no task is its own neighbour.  *)
LEMMA OffList ==
  ASSUME NEW k, WellFormed(k), NEW t \in TCB
  PROVE  /\ ~k.in_ready_queue[t] /\ k.state[t] # "BLOCKED" => k.next[t] = NULL /\ k.prev[t] = NULL
         /\ k.next[t] # t /\ k.prev[t] # t
         /\ k.next[t] # NULL => k.next[t] # k.prev[t]
<1>1. PICK rank \in [TCB -> Nat] : GrowsAlongNext(k, rank)
  BY DEF WellFormed, Acyclic
<1>2. k \in ListsType /\ LinksOK(k)
  BY DEF WellFormed, ListsOK
<1>3. ~k.in_ready_queue[t] /\ k.state[t] # "BLOCKED" => k.next[t] = NULL /\ k.prev[t] = NULL
  BY <1>2 DEF LinksOK, SameList
<1>4. k.next[t] \in TCB \cup {NULL} /\ k.prev[t] \in TCB \cup {NULL}
  BY <1>2 DEF ListsType
<1>5. k.next[t] # t
  BY <1>1, <1>4, TCBFinite DEF GrowsAlongNext
<1>6. k.prev[t] # t
  BY <1>2, <1>5, TCBFinite DEF LinksOK
<1>7. k.next[t] # NULL => k.next[t] # k.prev[t]
  <2> SUFFICES ASSUME k.next[t] # NULL, k.next[t] = k.prev[t]  PROVE FALSE
    OBVIOUS
  <2>1. k.next[k.next[t]] = t /\ k.next[t] \in TCB
    BY <1>2, <1>4 DEF LinksOK
  <2>2. rank[t] < rank[k.next[t]] /\ rank[k.next[t]] < rank[t]
    BY <2>1, <1>1, TCBFinite DEF GrowsAlongNext
  <2> QED
    BY <2>1, <2>2
<1> QED
  BY <1>3, <1>5, <1>6, <1>7

(* Changing the state of a task on no list.                                *)
LEMMA SetStateWellFormed ==
  ASSUME NEW k, WellFormed(k), NEW t \in TCB, NEW s \in TaskState \ {"BLOCKED"},
         ~k.in_ready_queue[t], k.state[t] # "BLOCKED"
  PROVE  /\ WellFormed([k EXCEPT !.state[t] = s])
         /\ [k EXCEPT !.state[t] = s].state = [k.state EXCEPT ![t] = s]
<1> DEFINE m == [k EXCEPT !.state[t] = s]
<1>1. k \in ListsType /\ HeadsOK(k) /\ LinksOK(k)
  BY DEF WellFormed, ListsOK
<1>2. m \in ListsType
  BY <1>1 DEF ListsType
<1>3. HeadsOK(m)
  BY <1>1 DEF HeadsOK, ListsType
<1>4. LinksOK(m)
  BY <1>1, OffList DEF LinksOK, SameList, ListsType
<1>5. Acyclic(m)
  BY DEF WellFormed, Acyclic, GrowsAlongNext, ListsType
<1> QED
  BY <1>1, <1>2, <1>3, <1>4, <1>5 DEF WellFormed, ListsOK, ListsType

(* Changing the priority of a task that is in no ready queue.              *)
LEMMA SetPriorityWellFormed ==
  ASSUME NEW k, WellFormed(k), NEW t \in TCB, NEW p \in Priorities, ~k.in_ready_queue[t]
  PROVE  /\ WellFormed([k EXCEPT !.priority[t] = p])
         /\ [k EXCEPT !.priority[t] = p].state = k.state
<1> DEFINE m == [k EXCEPT !.priority[t] = p]
<1>1. k \in ListsType /\ HeadsOK(k) /\ LinksOK(k)
  BY DEF WellFormed, ListsOK
<1>2. m \in ListsType
  BY <1>1 DEF ListsType
<1>3. HeadsOK(m)
  BY <1>1 DEF HeadsOK, ListsType
<1>4. LinksOK(m)
  BY <1>1 DEF LinksOK, SameList, ListsType
<1>5. Acyclic(m)
  BY DEF WellFormed, Acyclic, GrowsAlongNext, ListsType
<1> QED
  BY <1>1, <1>2, <1>3, <1>4, <1>5 DEF WellFormed, ListsOK, ListsType

(* kernel_add_to_ready_queue                                               *)
LEMMA AddReadyWellFormed ==
  ASSUME NEW k, WellFormed(k), NEW t \in TCB,
         k.state[t] \in {"READY", "RUNNING", "TERMINATED"}
  PROVE  /\ WellFormed(AddReady(k, t))
         /\ AddReady(k, t).state = [k.state EXCEPT ![t] = IF @ = "RUNNING" THEN "READY" ELSE @]
<1> DEFINE p == k.priority[t]
           head == k.ready_queue[p]
           last == Last(k, head)
           m == [k EXCEPT !.in_ready_queue[t] = TRUE,
                          !.state[t] = IF @ = "RUNNING" THEN "READY" ELSE @]
           first == [m EXCEPT !.ready_queue[p] = t, !.next[t] = NULL, !.prev[t] = NULL]
           after == [m EXCEPT !.next[last] = t, !.prev[t] = last, !.next[t] = NULL]
<1>1. k \in ListsType /\ HeadsOK(k) /\ LinksOK(k)
  BY DEF WellFormed, ListsOK
<1>2. CASE k.state[t] = "TERMINATED" \/ k.in_ready_queue[t]
  BY <1>1, <1>2 DEF AddReady, LinksOK, ListsType
<1>3. CASE ~(k.state[t] = "TERMINATED" \/ k.in_ready_queue[t]) /\ head = NULL
  <2>1. AddReady(k, t) = first
    BY <1>3 DEF AddReady
  <2>2. k.next[t] = NULL /\ k.prev[t] = NULL
    BY <1>3, OffList
  <2>3. first \in ListsType
    BY <1>1 DEF ListsType, TaskState
  <2>4. HeadsOK(first)
    BY <1>1, <1>3, <2>2, TCBFinite DEF HeadsOK, ListsType
  <2>5. LinksOK(first)
    BY <1>1, <1>3, <2>2, TCBFinite DEF LinksOK, SameList, ListsType
  <2>6. Acyclic(first)
    BY <1>1, <2>2 DEF WellFormed, Acyclic, GrowsAlongNext, ListsType
  <2>7. first.state = m.state
    BY <1>1 DEF ListsType
  <2>8. m.state = [k.state EXCEPT ![t] = IF @ = "RUNNING" THEN "READY" ELSE @]
    BY <1>1 DEF ListsType
  <2> HIDE DEF first, m
  <2> QED
    BY <2>1, <2>3, <2>4, <2>5, <2>6, <2>7, <2>8 DEF WellFormed, ListsOK
<1>4. CASE ~(k.state[t] = "TERMINATED" \/ k.in_ready_queue[t]) /\ head # NULL
  <2>1. AddReady(k, t) = after
    BY <1>4 DEF AddReady
  <2>2. k.next[t] = NULL /\ k.prev[t] = NULL
    BY <1>4, OffList
  <2>3. p \in Priorities /\ head \in TCB /\ k.prev[head] = NULL
        /\ k.in_ready_queue[head] /\ k.priority[head] = p
    BY <1>1, <1>4 DEF HeadsOK, ListsType
  <2>4. last \in TCB /\ k.next[last] = NULL /\ last \in Chain(k, head)
    BY <1>1, <2>3, LastExists
  <2>5. k.in_ready_queue[last] /\ k.priority[last] = p
    <3> DEFINE Q == {u \in TCB : k.in_ready_queue[u] /\ k.priority[u] = p}
    <3>1. Closed(k, Q)
      BY <1>1, TCBFinite DEF Closed, LinksOK, SameList, ListsType
    <3>2. Chain(k, head) \subseteq Q
      <4> HIDE DEF head
      <4> QED BY <3>1, <2>3, ChainLeast
    <3> QED
      BY <3>2, <2>4
  <2>6. last # t /\ p = k.priority[t]
    BY <1>4, <2>5
  <2> HIDE DEF last, head, p
  <2>7. after \in ListsType
    BY <1>1, <2>4 DEF ListsType, TaskState
  <2>8. HeadsOK(after)
    BY <1>1, <1>4, <2>2, <2>4, <2>5, <2>6, TCBFinite DEF HeadsOK, ListsType
  <2>9. LinksOK(after)
    BY <1>1, <1>4, <2>2, <2>4, <2>5, <2>6, TCBFinite DEF LinksOK, SameList, ListsType
  <2>10. Acyclic(after)
    <3>1. PICK rank \in [TCB -> Nat] : GrowsAlongNext(k, rank)
      BY DEF WellFormed, Acyclic
    <3> DEFINE new == [rank EXCEPT ![t] = rank[last] + 1]
    <3>2. new \in [TCB -> Nat]
      BY <2>4
    <3>3. \A u \in TCB : k.next[u] # t
      BY <1>1, <2>2, TCBFinite DEF LinksOK
    <3>4. GrowsAlongNext(after, new)
      BY <1>1, <2>2, <2>4, <2>6, <3>1, <3>3 DEF GrowsAlongNext, ListsType
    <3> QED
      BY <3>2, <3>4 DEF Acyclic
  <2>11. after.state = m.state
    BY <1>1 DEF ListsType
  <2>12. m.state = [k.state EXCEPT ![t] = IF @ = "RUNNING" THEN "READY" ELSE @]
    BY <1>1 DEF ListsType
  <2> HIDE DEF after, m
  <2> QED
    BY <2>1, <2>7, <2>8, <2>9, <2>10, <2>11, <2>12 DEF WellFormed, ListsOK
<1> QED
  BY <1>2, <1>3, <1>4

(* m is k with the neighbours of t joined: t stands alone and the other    *)
(* links are still inverse.                                                *)
Unlinked(k, t, m) ==
  /\ m \in ListsType /\ Acyclic(m)
  /\ m = [k EXCEPT !.next = m.next, !.prev = m.prev]
  /\ m.next[t] = NULL /\ m.prev[t] = NULL
  /\ \A u \in TCB \ {t} :
       /\ m.next[u] # NULL =>
            m.next[u] # t /\ m.prev[m.next[u]] = u /\ SameList(k, u, m.next[u])
       /\ m.prev[u] # NULL =>
            m.prev[u] # t /\ m.next[m.prev[u]] = u /\ SameList(k, u, m.prev[u])
       /\ m.prev[u] = NULL => k.prev[u] = NULL \/ (k.prev[t] = NULL /\ k.next[t] = u)
       /\ k.prev[u] = NULL => m.prev[u] = NULL
  /\ k.next[t] # NULL => m.prev[k.next[t]] = k.prev[t]

(* After Unlink(k, t) the links among the other tasks are intact.          *)
LEMMA UnlinkLinks ==
  ASSUME NEW k, WellFormed(k), NEW t \in TCB
  PROVE  Unlinked(k, t, Unlink(k, t))
<1> DEFINE m == Unlink(k, t)
           a == k.prev[t]
           b == k.next[t]
<1>1. k \in ListsType /\ HeadsOK(k) /\ LinksOK(k)
  BY DEF WellFormed, ListsOK
<1>2. a \in TCB \cup {NULL} /\ b \in TCB \cup {NULL}
  BY <1>1 DEF ListsType
<1>3. a # t /\ b # t /\ (a # NULL => a # b)
  BY OffList
<1>4. m.next = [u \in TCB |-> IF u = t THEN NULL ELSE IF u = a THEN b ELSE k.next[u]]
      /\ m.prev = [u \in TCB |-> IF u = t THEN NULL ELSE IF u = b THEN a ELSE k.prev[u]]
      /\ m = [k EXCEPT !.next = m.next, !.prev = m.prev]
  BY <1>1 DEF Unlink, ListsType
<1> HIDE DEF m
<1>5. m \in ListsType
  <2>1. m.next \in [TCB -> TCB \cup {NULL}] /\ m.prev \in [TCB -> TCB \cup {NULL}]
    <3> HIDE DEF a, b
    <3> QED BY <1>1, <1>2, <1>4 DEF ListsType
  <2> QED
    BY <1>1, <1>4, <2>1 DEF ListsType
<1>6. (a # NULL => k.next[a] = t /\ SameList(k, t, a))
      /\ (b # NULL => k.prev[b] = t /\ SameList(k, t, b))
  BY <1>1 DEF LinksOK
<1>7. a # NULL /\ b # NULL => SameList(k, a, b) /\ SameList(k, b, a)
  BY <1>1, <1>2, <1>6 DEF SameList, LinksOK
<1>8. Acyclic(m)
  <2>1. PICK rank \in [TCB -> Nat] : GrowsAlongNext(k, rank)
    BY DEF WellFormed, Acyclic
  <2>2. ASSUME a # NULL, b # NULL  PROVE rank[a] < rank[b]
    <3>1. k.next[a] = t /\ k.next[t] = b /\ t # NULL /\ a \in TCB /\ b \in TCB
      BY <1>2, <1>6, <2>2, TCBFinite
    <3>2. rank[a] < rank[t] /\ rank[t] < rank[b]
      BY <3>1, <2>1, <2>2 DEF GrowsAlongNext
    <3>3. rank[a] \in Nat /\ rank[t] \in Nat /\ rank[b] \in Nat
      BY <3>1, <2>1
    <3> HIDE DEF a, b
    <3> QED BY <3>2, <3>3
  <2>3. ASSUME NEW u \in TCB, m.next[u] # NULL  PROVE rank[u] < rank[m.next[u]]
    <3>1. CASE u = a
      BY <1>3, <1>4, <2>2, <2>3, <3>1, TCBFinite
    <3>2. CASE u # a
      BY <1>4, <2>1, <2>3, <3>2 DEF GrowsAlongNext
    <3> QED
      BY <3>1, <3>2
  <2> QED
    BY <2>3, <2>1 DEF Acyclic, GrowsAlongNext
<1>9. \A u \in TCB \ {t} : m.next[u] # NULL =>
        m.next[u] # t /\ m.prev[m.next[u]] = u /\ SameList(k, u, m.next[u])
  <2> SUFFICES ASSUME NEW u \in TCB \ {t}, m.next[u] # NULL
      PROVE m.next[u] # t /\ m.prev[m.next[u]] = u /\ SameList(k, u, m.next[u])
    OBVIOUS
  <2>1. CASE u = a
    BY <1>2, <1>3, <1>4, <1>7, <2>1, TCBFinite
  <2>2. CASE u # a
    <3>1. m.next[u] = k.next[u] /\ k.next[u] \in TCB
      BY <1>1, <1>4, <2>2 DEF ListsType
    <3>2. k.prev[k.next[u]] = u /\ SameList(k, u, k.next[u])
      BY <1>1, <3>1 DEF LinksOK
    <3>3. k.next[u] # t /\ k.next[u] # b
      BY <1>6, <2>2, <3>1, <3>2, TCBFinite
    <3> QED
      BY <1>4, <3>1, <3>2, <3>3
  <2> QED
    BY <2>1, <2>2
<1>10. \A u \in TCB \ {t} : m.prev[u] # NULL =>
        m.prev[u] # t /\ m.next[m.prev[u]] = u /\ SameList(k, u, m.prev[u])
  <2> SUFFICES ASSUME NEW u \in TCB \ {t}, m.prev[u] # NULL
      PROVE m.prev[u] # t /\ m.next[m.prev[u]] = u /\ SameList(k, u, m.prev[u])
    OBVIOUS
  <2>1. CASE u = b
    BY <1>2, <1>3, <1>4, <1>7, <2>1, TCBFinite
  <2>2. CASE u # b
    <3>1. m.prev[u] = k.prev[u] /\ k.prev[u] \in TCB
      BY <1>1, <1>4, <2>2 DEF ListsType
    <3>2. k.next[k.prev[u]] = u /\ SameList(k, u, k.prev[u])
      BY <1>1, <3>1 DEF LinksOK
    <3>3. k.prev[u] # t /\ k.prev[u] # a
      BY <1>6, <2>2, <3>1, <3>2, TCBFinite
    <3> QED
      BY <1>4, <3>1, <3>2, <3>3
  <2> QED
    BY <2>1, <2>2
<1>11. \A u \in TCB \ {t} :
        /\ m.prev[u] = NULL => k.prev[u] = NULL \/ (k.prev[t] = NULL /\ k.next[t] = u)
        /\ k.prev[u] = NULL => m.prev[u] = NULL
  BY <1>2, <1>4, <1>6, TCBFinite
<1>12. m.next[t] = NULL /\ m.prev[t] = NULL /\ (b # NULL => m.prev[b] = a)
  BY <1>2, <1>3, <1>4
<1>13. Unlinked(k, t, m)
  BY <1>4, <1>5, <1>8, <1>9, <1>10, <1>11, <1>12 DEF Unlinked
<1> QED
  BY <1>13 DEF m

(* kernel_remove_from_ready_queue                                          *)
LEMMA RemoveReadyWellFormed ==
  ASSUME NEW k, WellFormed(k), NEW t \in TCB
  PROVE  /\ WellFormed(RemoveReady(k, t))
         /\ ~RemoveReady(k, t).in_ready_queue[t]
         /\ RemoveReady(k, t).state = k.state
         /\ RemoveReady(k, t).priority = k.priority
<1>1. k \in ListsType /\ HeadsOK(k) /\ LinksOK(k)
  BY DEF WellFormed, ListsOK
<1>2. CASE ~k.in_ready_queue[t]
  BY <1>2 DEF RemoveReady
<1>3. CASE k.in_ready_queue[t]
  <2> DEFINE m == Unlink(k, t)
             p == k.priority[t]
             r == [m EXCEPT !.in_ready_queue[t] = FALSE,
                            !.ready_queue[p] = IF k.prev[t] = NULL THEN k.next[t] ELSE @]
  <2>1. RemoveReady(k, t) = r
    BY <1>3 DEF RemoveReady
  <2>2. Unlinked(k, t, m)
    BY UnlinkLinks
  <2> HIDE DEF m
  <2>3. m.state = k.state /\ m.priority = k.priority /\ m.in_ready_queue = k.in_ready_queue
        /\ m.ready_queue = k.ready_queue /\ m.blocked_list = k.blocked_list
    BY <1>1, <2>2 DEF ListsType, Unlinked
  <2>4. k.state[t] = "READY" /\ p \in Priorities /\ k.next[t] # t
    BY <1>1, <1>3, OffList DEF LinksOK, ListsType
  <2>5. k.next[t] # NULL => k.next[t] \in TCB \ {t} /\ k.in_ready_queue[k.next[t]]
                            /\ k.priority[k.next[t]] = p /\ m.prev[k.next[t]] = k.prev[t]
    BY <1>1, <2>2, <2>4 DEF LinksOK, SameList, ListsType, Unlinked
  <2>6. (k.prev[t] = NULL => k.ready_queue[p] = t) /\ (k.prev[t] # NULL => k.ready_queue[p] # t)
    BY <1>1, <1>3, <2>4, TCBFinite DEF HeadsOK
  <2>7. r.state = k.state /\ r.priority = k.priority /\ r.next = m.next /\ r.prev = m.prev
        /\ r.in_ready_queue = [k.in_ready_queue EXCEPT ![t] = FALSE]
        /\ r.ready_queue = [k.ready_queue EXCEPT ![p] = IF k.prev[t] = NULL THEN k.next[t] ELSE @]
        /\ r.blocked_list = k.blocked_list
    BY <2>2, <2>3 DEF ListsType, Unlinked
  <2>8. r \in ListsType
    <3> HIDE DEF p
    <3> QED BY <1>1, <2>2, <2>3, <2>4 DEF ListsType, Unlinked
  <2> HIDE DEF r
  <2>9. HeadsOK(r)
    <3>1. ASSUME NEW q \in Priorities, r.ready_queue[q] # NULL
          PROVE  LET h == r.ready_queue[q] IN
                   r.in_ready_queue[h] /\ r.priority[h] = q /\ r.prev[h] = NULL
      <4>1. CASE q = p /\ k.prev[t] = NULL
        <5>1. r.ready_queue[q] = k.next[t]
          BY <1>1, <2>4, <2>7, <4>1 DEF ListsType
        <5> HIDE DEF p
        <5> QED BY <1>1, <2>5, <2>7, <3>1, <4>1, <5>1 DEF ListsType
      <4>2. CASE ~(q = p /\ k.prev[t] = NULL)
        <5> DEFINE h == k.ready_queue[q]
        <5>1. r.ready_queue[q] = h /\ h \in TCB
          BY <1>1, <2>4, <2>7, <3>1, <4>2 DEF ListsType
        <5>2. k.in_ready_queue[h] /\ k.priority[h] = q /\ k.prev[h] = NULL /\ h # t
          BY <1>1, <2>6, <3>1, <4>2, <5>1, TCBFinite DEF HeadsOK
        <5> HIDE DEF p, h
        <5>3. r.prev[h] = NULL
          BY <2>2, <2>7, <5>1, <5>2 DEF Unlinked
        <5> QED BY <1>1, <2>7, <5>1, <5>2, <5>3 DEF ListsType
      <4> QED BY <4>1, <4>2
    <3>2. r.blocked_list # NULL =>
            r.state[r.blocked_list] = "BLOCKED" /\ r.prev[r.blocked_list] = NULL
      BY <1>1, <2>2, <2>4, <2>7 DEF HeadsOK, ListsType, Unlinked
    <3>3. ASSUME NEW u \in TCB, r.prev[u] = NULL
          PROVE  /\ r.in_ready_queue[u] => r.ready_queue[r.priority[u]] = u
                 /\ r.state[u] = "BLOCKED" => r.blocked_list = u
      <4>1. CASE u = t
        BY <1>1, <2>4, <2>7, <4>1 DEF ListsType
      <4>2. CASE u # t /\ k.prev[u] = NULL
        <5>1. r.state[u] = "BLOCKED" => r.blocked_list = u
          BY <1>1, <2>7, <4>2 DEF HeadsOK
        <5>2. ASSUME k.in_ready_queue[u]  PROVE k.ready_queue[k.priority[u]] = u
          BY <1>1, <4>2, <5>2 DEF HeadsOK
        <5>3. ASSUME k.in_ready_queue[u]  PROVE r.ready_queue[k.priority[u]] = u
          BY <1>1, <2>4, <2>6, <2>7, <4>2, <5>2, <5>3 DEF ListsType
        <5> QED BY <1>1, <2>7, <4>2, <5>1, <5>3 DEF ListsType
      <4>3. CASE u # t /\ k.prev[t] = NULL /\ k.next[t] = u
        <5>1. k.in_ready_queue[u] /\ k.priority[u] = p /\ k.state[u] = "READY"
          BY <1>1, <2>5, <4>3, TCBFinite DEF LinksOK
        <5> QED BY <1>1, <2>4, <2>7, <4>3, <5>1 DEF ListsType
      <4> QED BY <2>2, <2>7, <3>3, <4>1, <4>2, <4>3 DEF Unlinked
    <3> QED
      BY <3>1, <3>2, <3>3 DEF HeadsOK
  <2>10. LinksOK(r)
    <3>1. ASSUME NEW u \in TCB \ {t}, NEW v \in TCB \ {t}, SameList(k, u, v)
          PROVE  SameList(r, u, v)
      BY <1>1, <2>7, <3>1 DEF SameList, ListsType
    <3>2. r.next \in [TCB -> TCB \cup {NULL}] /\ r.prev \in [TCB -> TCB \cup {NULL}]
      BY <2>8 DEF ListsType
    <3>3. ASSUME NEW u \in TCB \ {t}, r.next[u] # NULL
          PROVE  r.prev[r.next[u]] = u /\ SameList(r, u, r.next[u])
      BY <2>2, <2>7, <3>1, <3>2, <3>3 DEF Unlinked
    <3>4. ASSUME NEW u \in TCB \ {t}, r.prev[u] # NULL
          PROVE  r.next[r.prev[u]] = u /\ SameList(r, u, r.prev[u])
      BY <2>2, <2>7, <3>1, <3>2, <3>4 DEF Unlinked
    <3>5. \A u \in TCB : r.in_ready_queue[u] => r.state[u] = "READY"
      BY <1>1, <2>7 DEF LinksOK, ListsType
    <3>6. r.next[t] = NULL /\ r.prev[t] = NULL
      BY <2>2, <2>7 DEF Unlinked
    <3> QED
      BY <3>3, <3>4, <3>5, <3>6 DEF LinksOK
  <2>11. Acyclic(r)
    BY <2>2, <2>7 DEF Acyclic, GrowsAlongNext, Unlinked
  <2>12. ~r.in_ready_queue[t]
    BY <1>1, <2>7 DEF ListsType
  <2> QED
    BY <2>1, <2>7, <2>8, <2>9, <2>10, <2>11, <2>12 DEF WellFormed, ListsOK
<1> QED
  BY <1>2, <1>3

(* Taking a sleeper off blocked_list and giving it another state, as the   *)
(* tick handler and task_delete do.                                        *)
LEMMA RemoveBlockedWellFormed ==
  ASSUME NEW k, WellFormed(k), NEW t \in TCB, k.state[t] = "BLOCKED",
         NEW s \in TaskState \ {"BLOCKED"}
  PROVE  LET r == [RemoveBlocked(k, t) EXCEPT !.state[t] = s] IN
         /\ WellFormed(r)
         /\ r.state = [k.state EXCEPT ![t] = s]
         /\ r.in_ready_queue = k.in_ready_queue /\ ~r.in_ready_queue[t]
<1> DEFINE m == Unlink(k, t)
           r == [RemoveBlocked(k, t) EXCEPT !.state[t] = s]
<1>1. k \in ListsType /\ HeadsOK(k) /\ LinksOK(k)
  BY DEF WellFormed, ListsOK
<1>2. r = [m EXCEPT !.blocked_list = IF k.prev[t] = NULL THEN k.next[t] ELSE @, !.state[t] = s]
  BY DEF RemoveBlocked
<1>3. Unlinked(k, t, m)
  BY UnlinkLinks
<1> HIDE DEF m, r
<1>4. m.state = k.state /\ m.priority = k.priority /\ m.in_ready_queue = k.in_ready_queue
      /\ m.ready_queue = k.ready_queue /\ m.blocked_list = k.blocked_list
  BY <1>1, <1>3 DEF ListsType, Unlinked
<1>5. ~k.in_ready_queue[t] /\ k.next[t] # t
  BY <1>1, OffList DEF LinksOK
<1>6. k.next[t] # NULL => k.next[t] \in TCB \ {t} /\ k.state[k.next[t]] = "BLOCKED"
                          /\ m.prev[k.next[t]] = k.prev[t]
  BY <1>1, <1>3, <1>5 DEF LinksOK, SameList, ListsType, Unlinked
<1>7. (k.prev[t] = NULL => k.blocked_list = t) /\ (k.prev[t] # NULL => k.blocked_list # t)
  BY <1>1, TCBFinite DEF HeadsOK
<1>8. r.state = [k.state EXCEPT ![t] = s] /\ r.priority = k.priority
      /\ r.next = m.next /\ r.prev = m.prev
      /\ r.in_ready_queue = k.in_ready_queue /\ r.ready_queue = k.ready_queue
      /\ r.blocked_list = IF k.prev[t] = NULL THEN k.next[t] ELSE k.blocked_list
  BY <1>2, <1>3, <1>4 DEF ListsType, Unlinked
<1>9. r \in ListsType
  BY <1>1, <1>2, <1>3, <1>4 DEF ListsType, Unlinked
<1>10. HeadsOK(r)
  <2>1. ASSUME NEW q \in Priorities, r.ready_queue[q] # NULL
        PROVE  LET h == r.ready_queue[q] IN
                 r.in_ready_queue[h] /\ r.priority[h] = q /\ r.prev[h] = NULL
    BY <1>1, <1>3, <1>5, <1>8, <2>1 DEF HeadsOK, ListsType, Unlinked
  <2>2. r.blocked_list # NULL =>
          r.state[r.blocked_list] = "BLOCKED" /\ r.prev[r.blocked_list] = NULL
    <3>1. CASE k.prev[t] = NULL
      BY <1>1, <1>6, <1>8, <3>1 DEF ListsType
    <3>2. CASE k.prev[t] # NULL
      BY <1>1, <1>3, <1>7, <1>8, <3>2 DEF HeadsOK, ListsType, Unlinked
    <3> QED BY <3>1, <3>2
  <2>3. ASSUME NEW u \in TCB, r.prev[u] = NULL
        PROVE  /\ r.in_ready_queue[u] => r.ready_queue[r.priority[u]] = u
               /\ r.state[u] = "BLOCKED" => r.blocked_list = u
    <3>1. CASE u = t
      BY <1>1, <1>5, <1>8, <3>1 DEF ListsType
    <3>2. CASE u # t /\ k.prev[u] = NULL
      BY <1>1, <1>7, <1>8, <3>2 DEF HeadsOK, ListsType
    <3>3. CASE u # t /\ k.prev[t] = NULL /\ k.next[t] = u
      <4>1. ~k.in_ready_queue[u] /\ r.blocked_list = u
        BY <1>1, <1>6, <1>8, <3>3, TCBFinite DEF LinksOK
      <4> QED BY <1>8, <4>1
    <3> QED BY <1>3, <1>8, <2>3, <3>1, <3>2, <3>3 DEF Unlinked
  <2> QED
    BY <2>1, <2>2, <2>3 DEF HeadsOK
<1>11. LinksOK(r)
  <2>1. ASSUME NEW u \in TCB \ {t}, NEW v \in TCB \ {t}, SameList(k, u, v)
        PROVE  SameList(r, u, v)
    BY <1>1, <1>8, <2>1 DEF SameList, ListsType
  <2>2. r.next \in [TCB -> TCB \cup {NULL}] /\ r.prev \in [TCB -> TCB \cup {NULL}]
    BY <1>9 DEF ListsType
  <2>3. ASSUME NEW u \in TCB \ {t}, r.next[u] # NULL
        PROVE  r.prev[r.next[u]] = u /\ SameList(r, u, r.next[u])
    BY <1>3, <1>8, <2>1, <2>2, <2>3 DEF Unlinked
  <2>4. ASSUME NEW u \in TCB \ {t}, r.prev[u] # NULL
        PROVE  r.next[r.prev[u]] = u /\ SameList(r, u, r.prev[u])
    BY <1>3, <1>8, <2>1, <2>2, <2>4 DEF Unlinked
  <2>5. \A u \in TCB : r.in_ready_queue[u] => r.state[u] = "READY"
    BY <1>1, <1>5, <1>8 DEF LinksOK, ListsType
  <2>6. r.next[t] = NULL /\ r.prev[t] = NULL
    BY <1>3, <1>8 DEF Unlinked
  <2> QED
    BY <2>3, <2>4, <2>5, <2>6 DEF LinksOK
<1>12. Acyclic(r)
  BY <1>3, <1>8 DEF Acyclic, GrowsAlongNext, Unlinked
<1>13. WellFormed(r) /\ r.state = [k.state EXCEPT ![t] = s]
       /\ r.in_ready_queue = k.in_ready_queue /\ ~r.in_ready_queue[t]
  BY <1>5, <1>8, <1>9, <1>10, <1>11, <1>12 DEF WellFormed, ListsOK
<1> QED
  BY <1>13 DEF r

(* A sleeper whose time has come goes to the end of its ready queue.       *)
LEMMA WakeBlockedWellFormed ==
  ASSUME NEW k, WellFormed(k), NEW t \in TCB, k.state[t] = "BLOCKED"
  PROVE  /\ WellFormed(WakeBlocked(k, t))
         /\ WakeBlocked(k, t).state = [k.state EXCEPT ![t] = "READY"]
<1> DEFINE r == [RemoveBlocked(k, t) EXCEPT !.state[t] = "READY"]
<1>1. WellFormed(r) /\ r.state = [k.state EXCEPT ![t] = "READY"] /\ r.state[t] = "READY"
  <2>1. WellFormed(r) /\ r.state = [k.state EXCEPT ![t] = "READY"]
    BY RemoveBlockedWellFormed DEF TaskState
  <2>2. k.state \in [TCB -> TaskState]
    BY DEF WellFormed, ListsType
  <2> HIDE DEF r
  <2> QED BY <2>1, <2>2
<1> HIDE DEF r
<1>2. WellFormed(AddReady(r, t)) /\ AddReady(r, t).state = r.state
  <2>1. WellFormed(AddReady(r, t)) /\ r.state \in [TCB -> TaskState]
        /\ AddReady(r, t).state = [r.state EXCEPT ![t] = IF @ = "RUNNING" THEN "READY" ELSE @]
    BY <1>1, AddReadyWellFormed DEF WellFormed, ListsType
  <2> QED BY <1>1, <2>1
<1> QED
  BY <1>1, <1>2 DEF r, WakeBlocked

(* task_sleep: a task on no list becomes the head of blocked_list.         *)
LEMMA PushBlockedWellFormed ==
  ASSUME NEW k, WellFormed(k), NEW t \in TCB, ~k.in_ready_queue[t], k.state[t] # "BLOCKED"
  PROVE  /\ WellFormed(PushBlocked(k, t))
         /\ PushBlocked(k, t).state = [k.state EXCEPT ![t] = "BLOCKED"]
<1> DEFINE h == k.blocked_list
           r == PushBlocked(k, t)
<1>1. k \in ListsType /\ HeadsOK(k) /\ LinksOK(k)
  BY DEF WellFormed, ListsOK
<1>2. k.next[t] = NULL /\ k.prev[t] = NULL
  BY OffList
<1>3. h # NULL => h \in TCB \ {t} /\ k.state[h] = "BLOCKED" /\ k.prev[h] = NULL
  BY <1>1 DEF HeadsOK, ListsType
<1>4. h \in TCB \cup {NULL} /\ h # t
  BY <1>1, <1>3, TCBFinite DEF ListsType
<1>5. r.state = [k.state EXCEPT ![t] = "BLOCKED"] /\ r.priority = k.priority
      /\ r.in_ready_queue = k.in_ready_queue /\ r.ready_queue = k.ready_queue
      /\ r.next = [k.next EXCEPT ![t] = h]
      /\ r.prev = [u \in TCB |-> IF u = h THEN t ELSE IF u = t THEN NULL ELSE k.prev[u]]
      /\ r.blocked_list = t
  BY <1>1 DEF PushBlocked, ListsType
<1>6. r \in ListsType
  BY <1>1 DEF PushBlocked, ListsType, TaskState
<1> HIDE DEF r, h
<1>7. \A u \in TCB : k.next[u] # t /\ k.prev[u] # t
  BY <1>1, <1>2, TCBFinite DEF LinksOK
<1>8. HeadsOK(r)
  <2>1. ASSUME NEW q \in Priorities, r.ready_queue[q] # NULL
        PROVE  LET g == r.ready_queue[q] IN
                 r.in_ready_queue[g] /\ r.priority[g] = q /\ r.prev[g] = NULL
    <3>1. k.ready_queue[q] \in TCB /\ k.ready_queue[q] # h
      BY <1>1, <1>3, <1>5, <2>1 DEF HeadsOK, LinksOK, ListsType
    <3> QED BY <1>1, <1>5, <2>1, <3>1 DEF HeadsOK, ListsType
  <2>2. r.blocked_list # NULL =>
          r.state[r.blocked_list] = "BLOCKED" /\ r.prev[r.blocked_list] = NULL
    BY <1>1, <1>4, <1>5 DEF ListsType
  <2>3. ASSUME NEW u \in TCB, r.prev[u] = NULL
        PROVE  /\ r.in_ready_queue[u] => r.ready_queue[r.priority[u]] = u
               /\ r.state[u] = "BLOCKED" => r.blocked_list = u
    <3>1. CASE u = t
      BY <1>5, <3>1
    <3>2. CASE u # t
      <4>1. u # h /\ k.prev[u] = NULL
        BY <1>4, <1>5, <2>3, <3>2, TCBFinite
      <4>2. k.state[u] # "BLOCKED"
        BY <1>1, <4>1 DEF HeadsOK, h
      <4> QED BY <1>1, <1>5, <3>2, <4>1, <4>2 DEF HeadsOK, ListsType
    <3> QED BY <3>1, <3>2
  <2> QED
    BY <2>1, <2>2, <2>3 DEF HeadsOK
<1>9. LinksOK(r)
  <2>1. ASSUME NEW u \in TCB, r.next[u] # NULL
        PROVE  r.prev[r.next[u]] = u /\ SameList(r, u, r.next[u])
    <3>1. CASE u = t
      BY <1>1, <1>3, <1>4, <1>5, <2>1, <3>1 DEF SameList, ListsType
    <3>2. CASE u # t
      <4>1. r.next[u] = k.next[u] /\ k.next[u] \in TCB \ {t}
        BY <1>1, <1>5, <1>7, <2>1, <3>2 DEF ListsType
      <4>2. k.prev[k.next[u]] = u /\ SameList(k, u, k.next[u])
        BY <1>1, <4>1, TCBFinite DEF LinksOK
      <4>3. k.next[u] # h
        BY <1>3, <4>1, <4>2, TCBFinite
      <4> QED BY <1>1, <1>5, <3>2, <4>1, <4>2, <4>3 DEF SameList, ListsType
    <3> QED BY <3>1, <3>2
  <2>2. ASSUME NEW u \in TCB, r.prev[u] # NULL
        PROVE  r.next[r.prev[u]] = u /\ SameList(r, u, r.prev[u])
    <3>1. CASE u = h
      BY <1>1, <1>3, <1>4, <1>5, <2>2, <3>1, TCBFinite DEF SameList, ListsType
    <3>2. CASE u # h
      <4>1. r.prev[u] = k.prev[u] /\ k.prev[u] \in TCB \ {t} /\ u # t
        BY <1>1, <1>5, <1>7, <2>2, <3>2 DEF ListsType
      <4>2. k.next[k.prev[u]] = u /\ SameList(k, u, k.prev[u])
        BY <1>1, <4>1, TCBFinite DEF LinksOK
      <4> QED BY <1>1, <1>5, <4>1, <4>2 DEF SameList, ListsType
    <3> QED BY <3>1, <3>2
  <2>3. \A u \in TCB : r.in_ready_queue[u] => r.state[u] = "READY"
    BY <1>1, <1>5 DEF LinksOK, ListsType
  <2> QED
    BY <2>1, <2>2, <2>3 DEF LinksOK
<1>10. Acyclic(r)
  <2>1. PICK rank \in [TCB -> Nat] : GrowsAlongNext(k, rank)
    BY DEF WellFormed, Acyclic
  <2> DEFINE new == [u \in TCB |-> IF u = t THEN 0 ELSE rank[u] + 1]
  <2>2. new \in [TCB -> Nat]
    BY <2>1
  <2>3. ASSUME NEW u \in TCB, r.next[u] # NULL  PROVE new[u] < new[r.next[u]]
    <3>1. CASE u = t
      BY <1>1, <1>3, <1>5, <2>1, <2>3, <3>1 DEF ListsType
    <3>2. CASE u # t
      <4>1. r.next[u] = k.next[u] /\ k.next[u] \in TCB \ {t}
        BY <1>1, <1>5, <1>7, <2>3, <3>2 DEF ListsType
      <4>2. rank[u] < rank[k.next[u]] /\ rank[u] \in Nat /\ rank[k.next[u]] \in Nat
        BY <2>1, <4>1, TCBFinite DEF GrowsAlongNext
      <4> QED BY <3>2, <4>1, <4>2
    <3> QED BY <3>1, <3>2
  <2> HIDE DEF new
  <2> QED
    BY <2>2, <2>3 DEF Acyclic, GrowsAlongNext
<1>11. WellFormed(r)
  BY <1>6, <1>8, <1>9, <1>10 DEF WellFormed, ListsOK
<1> QED
  BY <1>5, <1>11 DEF r

(* kernel_cleanup_task leaves a task on no list.                           *)
LEMMA CleanupWellFormed ==
  ASSUME NEW k, WellFormed(k), NEW t \in TCB
  PROVE  /\ WellFormed(Cleanup(k, t))
         /\ Cleanup(k, t).state = [k.state EXCEPT ![t] = "TERMINATED"]
<1>1. k \in ListsType /\ HeadsOK(k) /\ LinksOK(k)
  BY DEF WellFormed, ListsOK
<1>2. ASSUME NEW off \in ListsType, WellFormed([off EXCEPT !.state[t] = "TERMINATED"]),
             ~off.in_ready_queue[t]
      PROVE  LET c == [off EXCEPT !.state[t] = "TERMINATED", !.in_ready_queue[t] = FALSE,
                                  !.next[t] = NULL, !.prev[t] = NULL]
             IN  WellFormed(c) /\ c.state = [off.state EXCEPT ![t] = "TERMINATED"]
  <2> DEFINE r == [off EXCEPT !.state[t] = "TERMINATED"]
             c == [off EXCEPT !.state[t] = "TERMINATED", !.in_ready_queue[t] = FALSE,
                              !.next[t] = NULL, !.prev[t] = NULL]
  <2>1. r.state = [off.state EXCEPT ![t] = "TERMINATED"] /\ r.next = off.next
        /\ r.prev = off.prev /\ r.in_ready_queue = off.in_ready_queue
    BY <1>2 DEF ListsType
  <2>2. off.next[t] = NULL /\ off.prev[t] = NULL
    <3>1. ~r.in_ready_queue[t] /\ r.state[t] # "BLOCKED"
      BY <1>2, <2>1 DEF ListsType
    <3> HIDE DEF r
    <3>2. r.next[t] = NULL /\ r.prev[t] = NULL
      BY <1>2, <3>1, OffList DEF r
    <3> QED BY <2>1, <3>2
  <2>3. [off.next EXCEPT ![t] = NULL] = off.next /\ [off.prev EXCEPT ![t] = NULL] = off.prev
        /\ [off.in_ready_queue EXCEPT ![t] = FALSE] = off.in_ready_queue
    BY <1>2, <2>2 DEF ListsType
  <2>4. c = r
    BY <1>2, <2>3 DEF ListsType
  <2> HIDE DEF c
  <2>5. WellFormed(c) /\ c.state = [off.state EXCEPT ![t] = "TERMINATED"]
    BY <1>2, <2>1, <2>4
  <2> QED BY <2>5 DEF c
<1>3. CASE k.in_ready_queue[t]
  <2> DEFINE off == RemoveReady(k, t)
  <2>1. WellFormed(off) /\ ~off.in_ready_queue[t] /\ off.state = k.state
    BY RemoveReadyWellFormed
  <2>2. off.state[t] # "BLOCKED" /\ off \in ListsType
    BY <1>1, <1>3, <2>1 DEF LinksOK, WellFormed
  <2>3. Cleanup(k, t) = [off EXCEPT !.state[t] = "TERMINATED", !.in_ready_queue[t] = FALSE,
                                    !.next[t] = NULL, !.prev[t] = NULL]
    BY <1>3 DEF Cleanup
  <2> HIDE DEF off
  <2>4. WellFormed([off EXCEPT !.state[t] = "TERMINATED"])
    BY <2>1, <2>2, SetStateWellFormed DEF TaskState
  <2> QED
    BY <1>2, <2>1, <2>2, <2>3, <2>4
<1>4. CASE ~k.in_ready_queue[t] /\ k.state[t] = "BLOCKED"
  <2> DEFINE off == RemoveBlocked(k, t)
  <2>1. WellFormed([off EXCEPT !.state[t] = "TERMINATED"])
    BY <1>4, RemoveBlockedWellFormed DEF TaskState
  <2>2. off \in ListsType /\ ~off.in_ready_queue[t] /\ off.state = k.state
    <3>1. Unlinked(k, t, Unlink(k, t))
      BY UnlinkLinks
    <3> QED BY <1>1, <1>4, <3>1 DEF RemoveBlocked, Unlinked, ListsType
  <2>3. Cleanup(k, t) = [off EXCEPT !.state[t] = "TERMINATED", !.in_ready_queue[t] = FALSE,
                                    !.next[t] = NULL, !.prev[t] = NULL]
    BY <1>4 DEF Cleanup
  <2> HIDE DEF off
  <2> QED
    BY <1>2, <2>1, <2>2, <2>3
<1>5. CASE ~k.in_ready_queue[t] /\ k.state[t] # "BLOCKED"
  <2>1. Cleanup(k, t) = [k EXCEPT !.state[t] = "TERMINATED", !.in_ready_queue[t] = FALSE,
                                  !.next[t] = NULL, !.prev[t] = NULL]
    BY <1>5 DEF Cleanup
  <2>2. WellFormed([k EXCEPT !.state[t] = "TERMINATED"])
    BY <1>5, SetStateWellFormed DEF TaskState
  <2> QED
    BY <1>1, <1>2, <1>5, <2>1, <2>2
<1> QED
  BY <1>3, <1>4, <1>5

(* task_create: a free slot is filled in.                                  *)
LEMMA CreateWellFormed ==
  ASSUME NEW k, WellFormed(k), NEW t \in TCB, NEW p \in Priorities,
         ~k.in_ready_queue[t], k.state[t] # "BLOCKED"
  PROVE  LET r == [k EXCEPT !.state[t] = "READY", !.priority[t] = p,
                            !.in_ready_queue[t] = FALSE, !.next[t] = NULL, !.prev[t] = NULL]
         IN  WellFormed(r) /\ r.state = [k.state EXCEPT ![t] = "READY"]
<1> DEFINE m == [k EXCEPT !.state[t] = "READY"]
           n == [m EXCEPT !.priority[t] = p]
           r == [k EXCEPT !.state[t] = "READY", !.priority[t] = p,
                          !.in_ready_queue[t] = FALSE, !.next[t] = NULL, !.prev[t] = NULL]
<1>1. k \in ListsType /\ k.next[t] = NULL /\ k.prev[t] = NULL
  BY OffList DEF WellFormed
<1>2. WellFormed(m) /\ m.state = [k.state EXCEPT ![t] = "READY"]
  BY SetStateWellFormed DEF TaskState
<1>3. ~m.in_ready_queue[t]
  BY <1>1 DEF ListsType
<1>4. WellFormed(n) /\ n.state = m.state
  <2> HIDE DEF m
  <2> QED BY <1>2, <1>3, SetPriorityWellFormed
<1>5. [k.next EXCEPT ![t] = NULL] = k.next /\ [k.prev EXCEPT ![t] = NULL] = k.prev
      /\ [k.in_ready_queue EXCEPT ![t] = FALSE] = k.in_ready_queue
  BY <1>1 DEF ListsType
<1>6. r = n
  BY <1>1, <1>5 DEF ListsType
<1> HIDE DEF r, n, m
<1>7. WellFormed(r) /\ r.state = [k.state EXCEPT ![t] = "READY"]
  BY <1>2, <1>4, <1>6
<1> QED
  BY <1>7 DEF r

(* A READY task leaves its queue and gets another state: it is dispatched, *)
(* or suspended.                                                           *)
LEMMA TakeReadyWellFormed ==
  ASSUME NEW k, WellFormed(k), NEW t \in TCB, k.state[t] # "BLOCKED",
         NEW s \in TaskState \ {"BLOCKED"}
  PROVE  LET r == [RemoveReady(k, t) EXCEPT !.state[t] = s]
         IN  WellFormed(r) /\ r.state = [k.state EXCEPT ![t] = s]
<1> DEFINE m == RemoveReady(k, t)
<1>1. WellFormed(m) /\ ~m.in_ready_queue[t] /\ m.state = k.state
  BY RemoveReadyWellFormed
<1> HIDE DEF m
<1>2. WellFormed([m EXCEPT !.state[t] = s])
      /\ [m EXCEPT !.state[t] = s].state = [k.state EXCEPT ![t] = s]
  BY <1>1, SetStateWellFormed
<1> QED
  BY <1>2 DEF m

-----------------------------------------------------------------------------
(* What a walk over an intact list meets *)

(* A nonempty set of naturals has a least member.                          *)
LEMMA LeastNat ==
  ASSUME NEW S \in SUBSET Nat, S # {}
  PROVE  \E n \in S : \A m \in S : n <= m
<1> DEFINE Less == OpToRel(<, Nat)
<1>1. \A x, y \in Nat : x < y => <<x, y>> \in Less
  BY Zenon DEF OpToRel
<1>2. IsWellFoundedOn(Less, Nat)
  BY NatLessThanWellFounded, Zenon
<1> HIDE DEF Less
<1>3. \E x \in S : \A y \in S : ~(<<y, x>> \in Less)
  BY <1>2, WFMin
<1>4. PICK x \in S : \A y \in S : ~(<<y, x>> \in Less)
  BY <1>3
<1>5. ASSUME NEW y \in S  PROVE x <= y
  <2>1. x \in Nat /\ y \in Nat /\ ~(y < x)
    BY <1>1, <1>4
  <2> QED BY <2>1
<1> QED
  BY <1>5

(* A nonempty set of tasks has one of least rank.                          *)
LEMMA LeastRank ==
  ASSUME NEW rank \in [TCB -> Nat], NEW S \in SUBSET TCB, S # {}
  PROVE  \E t \in S : \A u \in S : ~(rank[u] < rank[t])
<1> DEFINE Ranks == {rank[t] : t \in S}
<1>1. Ranks \in SUBSET Nat /\ Ranks # {}
  OBVIOUS
<1>2. \E x \in Ranks : \A y \in Ranks : x <= y
  <2> HIDE DEF Ranks
  <2> QED BY <1>1, LeastNat
<1>3. PICK t \in S : \A u \in S : rank[t] <= rank[u]
  BY <1>2
<1>4. \A u \in S : rank[t] \in Nat /\ rank[u] \in Nat
  OBVIOUS
<1> QED
  BY <1>3, <1>4

(* If M holds whatever next and prev lead to from M, and its only member   *)
(* with nothing before it is the head, a walk meets exactly M.             *)
LEMMA ChainIsMembers ==
  ASSUME NEW k, WellFormed(k), NEW head \in TCB \cup {NULL}, NEW M \in SUBSET TCB,
         head # NULL => head \in M,
         \A t \in M : k.next[t] # NULL => k.next[t] \in M,
         \A t \in M : k.prev[t] # NULL => k.prev[t] \in M,
         \A t \in M : k.prev[t] = NULL => head = t
  PROVE  Chain(k, head) = M
<1>1. PICK rank \in [TCB -> Nat] : GrowsAlongNext(k, rank)
  BY DEF WellFormed, Acyclic
<1>2. k \in ListsType /\ LinksOK(k)
  BY DEF WellFormed, ListsOK
<1>3. Chain(k, head) \subseteq M
  <2>1. CASE head = NULL
    BY <2>1 DEF Chain
  <2>2. CASE head # NULL
    BY <2>2, ChainLeast DEF Closed
  <2> QED BY <2>1, <2>2
<1>4. M \subseteq Chain(k, head)
  <2> SUFFICES ASSUME M \ Chain(k, head) # {}  PROVE FALSE
    OBVIOUS
  <2> DEFINE missed == M \ Chain(k, head)
  <2>1. PICK t \in missed : \A u \in missed : ~(rank[u] < rank[t])
    <3> HIDE DEF missed
    <3> QED BY LeastRank DEF missed
  <2>2. head \in TCB => head \in Chain(k, head) /\ Closed(k, Chain(k, head))
    BY <1>2, ChainClosed
  <2>3. k.prev[t] # NULL
    BY <2>1, <2>2, TCBFinite
  <2>4. k.prev[t] \in M /\ k.next[k.prev[t]] = t /\ t \in TCB
    BY <1>2, <2>1, <2>3 DEF LinksOK
  <2>5. rank[k.prev[t]] < rank[t]
    BY <1>1, <2>4, TCBFinite DEF GrowsAlongNext
  <2>6. k.prev[t] \in Chain(k, head)
    BY <2>1, <2>4, <2>5
  <2>7. head \in TCB
    BY <2>6 DEF Chain
  <2> QED
    BY <2>1, <2>2, <2>4, <2>6, <2>7, TCBFinite DEF Closed
<1> QED
  BY <1>3, <1>4

(* Walking a ready queue meets exactly the tasks flagged for it, walking   *)
(* blocked_list exactly the sleepers.                                      *)
LEMMA WalksMeetMembers ==
  ASSUME NEW k, WellFormed(k)
  PROVE  /\ \A p \in Priorities :
              Chain(k, k.ready_queue[p]) =
                {t \in TCB : k.in_ready_queue[t] /\ k.priority[t] = p}
         /\ Chain(k, k.blocked_list) = {t \in TCB : k.state[t] = "BLOCKED"}
<1>1. k \in ListsType /\ HeadsOK(k) /\ LinksOK(k)
  BY DEF WellFormed, ListsOK
<1>2. ASSUME NEW p \in Priorities
      PROVE  Chain(k, k.ready_queue[p]) =
               {t \in TCB : k.in_ready_queue[t] /\ k.priority[t] = p}
  <2> DEFINE M == {t \in TCB : k.in_ready_queue[t] /\ k.priority[t] = p}
             head == k.ready_queue[p]
  <2>1. head \in TCB \cup {NULL} /\ (head # NULL => head \in M)
    BY <1>1 DEF HeadsOK, ListsType
  <2>2. \A t \in M : k.next[t] # NULL => k.next[t] \in M
    BY <1>1 DEF LinksOK, SameList, ListsType
  <2>3. \A t \in M : k.prev[t] # NULL => k.prev[t] \in M
    BY <1>1 DEF LinksOK, SameList, ListsType
  <2>4. \A t \in M : k.prev[t] = NULL => head = t
    BY <1>1 DEF HeadsOK
  <2>5. M \in SUBSET TCB
    OBVIOUS
  <2> HIDE DEF M, head
  <2>6. Chain(k, head) = M
    BY <2>1, <2>2, <2>3, <2>4, <2>5, ChainIsMembers
  <2> QED BY <2>6 DEF M, head
<1>3. Chain(k, k.blocked_list) = {t \in TCB : k.state[t] = "BLOCKED"}
  <2> DEFINE M == {t \in TCB : k.state[t] = "BLOCKED"}
             head == k.blocked_list
  <2>1. head \in TCB \cup {NULL} /\ (head # NULL => head \in M)
    BY <1>1 DEF HeadsOK, ListsType
  <2>2. \A t \in M : k.next[t] # NULL => k.next[t] \in M
    BY <1>1 DEF LinksOK, SameList, ListsType
  <2>3. \A t \in M : k.prev[t] # NULL => k.prev[t] \in M
    BY <1>1 DEF LinksOK, SameList, ListsType
  <2>4. \A t \in M : k.prev[t] = NULL => head = t
    BY <1>1 DEF HeadsOK
  <2>5. M \in SUBSET TCB
    OBVIOUS
  <2> HIDE DEF M, head
  <2>6. Chain(k, head) = M
    BY <2>1, <2>2, <2>3, <2>4, <2>5, ChainIsMembers
  <2> QED BY <2>6 DEF M, head
<1> QED
  BY <1>2, <1>3

(* A walk from c meets c and what a walk from its successor meets.         *)
LEMMA ChainStep ==
  ASSUME NEW k \in ListsType, NEW c \in TCB
  PROVE  Chain(k, c) \subseteq {c} \cup Chain(k, k.next[c])
<1> DEFINE n == k.next[c]
           S == {c} \cup Chain(k, n)
<1>1. n \in TCB \cup {NULL}
  BY DEF ListsType
<1>2. S \in SUBSET TCB /\ c \in S
  BY DEF Chain
<1>3. n # NULL => n \in Chain(k, n) /\ Closed(k, Chain(k, n))
  <2> HIDE DEF n
  <2> QED BY <1>1, ChainClosed
<1>4. n = NULL => Chain(k, n) = {}
  BY DEF Chain
<1>5. Closed(k, S)
  <2> SUFFICES ASSUME NEW t \in S, k.next[t] # NULL  PROVE k.next[t] \in S
    BY DEF Closed
  <2>1. CASE t = c
    BY <1>3, <2>1
  <2>2. CASE t # c
    BY <1>3, <1>4, <2>2 DEF Closed
  <2> QED BY <2>1, <2>2
<1> HIDE DEF S
<1>6. Chain(k, c) \subseteq S
  BY <1>2, <1>5, ChainLeast
<1> QED
  BY <1>6 DEF S

(* Queueing t redirects next of t and of tasks that are queued, no other.  *)
LEMMA AddReadyNext ==
  ASSUME NEW k, WellFormed(k), NEW t \in TCB, NEW u \in TCB, u # t, ~k.in_ready_queue[u]
  PROVE  AddReady(k, t).next[u] = k.next[u]
<1> DEFINE p == k.priority[t]
           head == k.ready_queue[p]
           last == Last(k, head)
<1>1. k \in ListsType /\ HeadsOK(k) /\ LinksOK(k)
  BY DEF WellFormed, ListsOK
<1>2. CASE k.state[t] = "TERMINATED" \/ k.in_ready_queue[t] \/ head = NULL
  BY <1>1, <1>2 DEF AddReady, ListsType
<1>3. CASE ~(k.state[t] = "TERMINATED" \/ k.in_ready_queue[t] \/ head = NULL)
  <2>1. p \in Priorities /\ head \in TCB /\ k.prev[head] = NULL
    BY <1>1, <1>3 DEF HeadsOK, ListsType
  <2>2. last \in Chain(k, head)
    BY <1>1, <2>1, LastExists
  <2>3. Chain(k, head) = {v \in TCB : k.in_ready_queue[v] /\ k.priority[v] = p}
    BY <2>1, WalksMeetMembers
  <2>4. last # u
    <3> HIDE DEF last, head
    <3> QED BY <2>2, <2>3
  <2>5. AddReady(k, t).next = [k.next EXCEPT ![last] = t, ![t] = NULL]
    BY <1>1, <1>3 DEF AddReady, ListsType
  <2> HIDE DEF last
  <2> QED
    BY <1>1, <2>4, <2>5 DEF ListsType
<1> QED
  BY <1>2, <1>3

(* Waking c redirects, among the sleepers, only the one before c.          *)
LEMMA WakeBlockedNext ==
  ASSUME NEW k, WellFormed(k), NEW c \in TCB, k.state[c] = "BLOCKED",
         NEW u \in TCB, u # c, k.state[u] = "BLOCKED"
  PROVE  WakeBlocked(k, c).next[u] = IF u = k.prev[c] THEN k.next[c] ELSE k.next[u]
<1> DEFINE r == [RemoveBlocked(k, c) EXCEPT !.state[c] = "READY"]
<1>1. WellFormed(r) /\ r.in_ready_queue = k.in_ready_queue
  BY RemoveBlockedWellFormed DEF TaskState
<1>2. ~k.in_ready_queue[u]
  BY DEF WellFormed, ListsOK, LinksOK
<1>3. r.next[u] = IF u = k.prev[c] THEN k.next[c] ELSE k.next[u]
  BY DEF RemoveBlocked, Unlink, WellFormed, ListsType
<1>4. WakeBlocked(k, c) = AddReady(r, c)
  BY DEF WakeBlocked
<1> HIDE DEF r
<1> QED
  BY <1>1, <1>2, <1>3, <1>4, AddReadyNext

(* Waking c leaves every sleeper behind it where the saved next pointer    *)
(* leads: relinking does not cut off the rest of the walk.                 *)
LEMMA RestIsKept ==
  ASSUME NEW k, WellFormed(k), NEW c \in TCB, k.state[c] = "BLOCKED"
  PROVE  Chain(k, k.next[c]) \subseteq Chain(WakeBlocked(k, c), k.next[c])
<1> DEFINE n == k.next[c]
           m == WakeBlocked(k, c)
           S == Chain(m, n)
<1>1. k \in ListsType /\ LinksOK(k) /\ n \in TCB \cup {NULL}
  BY DEF WellFormed, ListsOK, ListsType
<1>2. m \in ListsType
  BY WakeBlockedWellFormed DEF WellFormed
<1>3. CASE n = NULL
  BY <1>3 DEF Chain
<1>4. CASE n # NULL
  <2>1. PICK rank \in [TCB -> Nat] : GrowsAlongNext(k, rank)
    BY DEF WellFormed, Acyclic
  <2> DEFINE B == {u \in TCB : k.state[u] = "BLOCKED" /\ ~(rank[u] < rank[n])}
  <2>2. n \in TCB /\ n # c /\ k.state[n] = "BLOCKED" /\ rank[c] < rank[n]
    BY <1>1, <1>4, <2>1, OffList, TCBFinite DEF LinksOK, SameList, GrowsAlongNext
  <2>3. \A u \in TCB : rank[u] \in Nat
    BY <2>1
  <2>4. c \notin B /\ k.prev[c] \notin B
    <3>1. k.prev[c] \in TCB => k.next[k.prev[c]] = c
      BY <1>1, TCBFinite DEF LinksOK
    <3>2. k.prev[c] \in TCB => rank[k.prev[c]] < rank[c]
      BY <2>1, <3>1, TCBFinite DEF GrowsAlongNext
    <3> QED BY <2>2, <2>3, <3>2
  <2>5. \A u \in B : m.next[u] = k.next[u]
    BY <2>4, WakeBlockedNext
  <2>6. Closed(k, B)
    <3> SUFFICES ASSUME NEW u \in B, k.next[u] # NULL  PROVE k.next[u] \in B
      BY DEF Closed
    <3>1. k.next[u] \in TCB /\ k.state[k.next[u]] = "BLOCKED" /\ rank[u] < rank[k.next[u]]
      BY <1>1, <2>1 DEF LinksOK, SameList, GrowsAlongNext, ListsType
    <3> QED BY <2>2, <2>3, <3>1
  <2>7. S \subseteq B
    <3>1. Closed(m, B) /\ n \in B /\ B \in SUBSET TCB
      BY <2>2, <2>3, <2>5, <2>6 DEF Closed
    <3> HIDE DEF B, n, m
    <3> QED BY <3>1, ChainLeast
  <2>8. n \in S /\ Closed(m, S)
    <3> HIDE DEF n, m
    <3> QED BY <1>2, <2>2, ChainClosed
  <2>9. Closed(k, S) /\ S \in SUBSET TCB
    <3> HIDE DEF S, m
    <3> QED BY <2>5, <2>7, <2>8 DEF Closed
  <2>10. Chain(k, n) \subseteq S
    <3> HIDE DEF n, m, S
    <3> QED BY <2>8, <2>9, ChainLeast
  <2> QED
    BY <2>10
<1> QED
  BY <1>3, <1>4

-----------------------------------------------------------------------------
(***************************************************************************)
(* Kernel.  IInv: the lists are well formed, a free slot is on no list,    *)
(* and pc agrees with the scheduler's lock and current task.               *)
(***************************************************************************)

(* A free slot is TERMINATED; the idle task never waits.                   *)
SlotsOK ==
  /\ \A t \in TCB : ~task_id[t] => lists.state[t] = "TERMINATED"
  /\ lists.state[Idle] \notin {"BLOCKED", "SUSPENDED"}

(* What holds at each control point of the main thread.                    *)
PhaseOK ==
  /\ pc = "boot" <=> ~scheduler_running
  /\ pc = "boot" => current_task = NULL /\ scheduler_lock_depth = 0
  /\ pc # "boot" => current_task \in TCB
  /\ pc \in {"sched", "pick"} => scheduler_lock_depth = 0
  /\ pc = "walk" => IF tick_from = "sched" THEN scheduler_lock_depth = 1
                                           ELSE current_task = Idle
  /\ cursor # NULL => pc = "walk" /\ lists.state[cursor] = "BLOCKED"

IInv == TypeOK /\ WellFormed(lists) /\ SlotsOK /\ SuspendedCanBeResumed /\ PhaseOK

-----------------------------------------------------------------------------
(* Tick arithmetic stays within the width of system_tick.                  *)
LEMMA TickRange == \A n \in Nat : n % TickModulus \in Tick
  BY KernelAssumption DEF Tick

(* The type of every field of lists, from TypeOK.                          *)
LEMMA ListsTyped ==
  ASSUME WellFormed(lists)
  PROVE  /\ lists \in ListsType
         /\ lists.state \in [TCB -> TaskState]
         /\ \A t \in TCB : lists.in_ready_queue[t] => lists.state[t] = "READY"
  BY DEF WellFormed, ListsType, ListsOK, LinksOK

(* Among finitely many priorities one is highest.                          *)
LEMMA HighestExists ==
  ASSUME NEW S \in SUBSET Priorities, S # {}
  PROVE  \E p \in S : \A q \in S : q <= p
<1> DEFINE Gaps == {PriorityLevels - p : p \in S}
<1>1. \A p \in S : p \in Nat /\ PriorityLevels - p \in Nat
  BY TaskListsAssumption DEF Priorities
<1>2. Gaps \in SUBSET Nat /\ Gaps # {}
  BY <1>1
<1>3. \E x \in Gaps : \A y \in Gaps : x <= y
  <2> HIDE DEF Gaps
  <2> QED BY <1>2, LeastNat
<1>4. PICK p \in S : \A q \in S : PriorityLevels - p <= PriorityLevels - q
  BY <1>3
<1>5. \A q \in S : q <= p
  BY <1>1, <1>4, TaskListsAssumption
<1> QED
  BY <1>5

(* The task kernel_schedule and kernel_start dispatch is READY.            *)
LEMMA HighestReadyIsReady ==
  ASSUME WellFormed(lists), Nonempty # {}
  PROVE  HighestReady \in TCB /\ lists.state[HighestReady] = "READY"
<1> DEFINE p == CHOOSE p \in Nonempty : \A q \in Nonempty : q <= p
<1>1. Nonempty \in SUBSET Priorities
  BY DEF Nonempty
<1>2. p \in Nonempty
  BY <1>1, HighestExists
<1> HIDE DEF p
<1>3. lists.ready_queue[p] \in TCB /\ lists.in_ready_queue[lists.ready_queue[p]]
  BY <1>2 DEF Nonempty, WellFormed, ListsType, ListsOK, HeadsOK
<1>4. lists.state[lists.ready_queue[p]] = "READY"
  BY <1>3, ListsTyped
<1> QED
  BY <1>3, <1>4 DEF p, HighestReady

(* kernel_schedule picks a task that waits READY, or the idle task.        *)
LEMMA CandidateIsReady ==
  ASSUME WellFormed(lists), Candidate # NULL
  PROVE  Candidate \in TCB /\ lists.state[Candidate] = "READY"
  BY HighestReadyIsReady, TCBFinite DEF Candidate

(* task_create finds a slot of task_pool that is free.                     *)
LEMMA FirstFreeIsFree ==
  ASSUME \E t \in Tasks : ~task_id[t]
  PROVE  FirstFree \in Tasks /\ ~task_id[FirstFree]
<1> DEFINE free == {t \in Tasks : ~task_id[t]}
<1>1. \E t \in free : \A u \in free : t <= u
  <2>1. free \in SUBSET Nat /\ free # {}
    BY TaskListsAssumption DEF Tasks
  <2> HIDE DEF free
  <2> QED BY <2>1, LeastNat
<1>2. \E t \in Tasks : ~task_id[t] /\ \A u \in Tasks : u < t => task_id[u]
  BY <1>1, TaskListsAssumption DEF Tasks
<1> QED
  BY <1>2 DEF FirstFree

-----------------------------------------------------------------------------
(* kernel_init establishes the invariant.                                  *)
LEMMA InitIInv == Init => IInv
<1> SUFFICES ASSUME Init  PROVE IInv
  OBVIOUS
<1> DEFINE empty ==
      [state |-> [t \in TCB |-> IF t = Idle THEN "READY" ELSE "TERMINATED"],
       priority |-> [t \in TCB |-> 0],
       in_ready_queue |-> [t \in TCB |-> FALSE],
       next |-> [t \in TCB |-> NULL],
       prev |-> [t \in TCB |-> NULL],
       ready_queue |-> [p \in Priorities |-> NULL],
       blocked_list |-> NULL]
<1>1. empty \in ListsType
  BY TaskListsAssumption DEF ListsType, TaskState, Priorities
<1>2. HeadsOK(empty) /\ LinksOK(empty)
  BY DEF HeadsOK, LinksOK
<1>3. Acyclic(empty)
  <2>1. [t \in TCB |-> 0] \in [TCB -> Nat] /\ GrowsAlongNext(empty, [t \in TCB |-> 0])
    BY DEF GrowsAlongNext
  <2> QED BY <2>1 DEF Acyclic
<1>4. WellFormed(empty) /\ empty.state = [t \in TCB |-> IF t = Idle THEN "READY" ELSE "TERMINATED"]
  BY <1>1, <1>2, <1>3 DEF WellFormed, ListsOK
<1>5. lists = AddReady(empty, Idle)
  BY DEF Init
<1> HIDE DEF empty
<1>6. WellFormed(lists) /\ lists.state = [empty.state EXCEPT ![Idle] = IF @ = "RUNNING" THEN "READY" ELSE @]
  <2>1. empty.state[Idle] = "READY"
    BY <1>4, TCBFinite
  <2> QED BY <1>4, <1>5, <2>1, TCBFinite, AddReadyWellFormed
<1>7. lists.state = [t \in TCB |-> IF t = Idle THEN "READY" ELSE "TERMINATED"]
  BY <1>4, <1>6
<1>8. TypeOK
  <2>1. 0 \in Tick /\ 0 \in 0 .. LockLimit + 1
    BY KernelAssumption DEF Tick
  <2> QED BY <1>6, <2>1, ListsTyped DEF Init, TypeOK
<1>9. SlotsOK /\ SuspendedCanBeResumed
  BY <1>7, TCBFinite DEF Init, SlotsOK, SuspendedCanBeResumed
<1>10. PhaseOK
  BY DEF Init, PhaseOK
<1> QED
  BY <1>6, <1>8, <1>9, <1>10 DEF IInv

(* The steps that leave every task control block alone.                    *)
QuietStep ==
  \/ TimerIncrement \/ TimerSetPending
  \/ kernel_lock_scheduler \/ kernel_unlock_scheduler
  \/ SchedulePendingTick \/ ScheduleNoTick \/ FinishTickHandler
  \/ KeepCurrent \/ IdleTick
  \/ UNCHANGED vars

(* A step that leaves the lists and the slots alone preserves IInv.        *)
LEMMA QuietStepIInv ==
  ASSUME IInv, QuietStep
  PROVE  IInv'
<1> USE DEF schedVars, timerVars, controlVars, IInv
<1>1. UNCHANGED <<lists, task_id, is_suspended, first_run, wake_time>>
  BY DEF QuietStep, TimerIncrement, TimerSetPending, kernel_lock_scheduler,
         kernel_unlock_scheduler, SchedulePendingTick, ScheduleNoTick, FinishTickHandler,
         KeepCurrent, IdleTick, tcbVars, vars
<1>2. WellFormed(lists)' /\ SlotsOK' /\ SuspendedCanBeResumed'
  BY <1>1 DEF SlotsOK, SuspendedCanBeResumed
<1>3. lists.blocked_list # NULL =>
        lists.blocked_list \in TCB /\ lists.state[lists.blocked_list] = "BLOCKED"
  BY DEF WellFormed, ListsType, ListsOK, HeadsOK
<1>4. lists.blocked_list \in TCB \cup {NULL}
  BY DEF WellFormed, ListsType
<1>5. TypeOK' /\ PhaseOK'
  <2>1. CASE TimerIncrement
    <3>1. system_tick' \in Tick
      BY <2>1, TickRange DEF TimerIncrement, TypeOK, Tick
    <3> QED BY <1>1, <2>1, <3>1 DEF TimerIncrement, TypeOK, PhaseOK
  <2>2. CASE TimerSetPending
    BY <1>1, <2>2 DEF TimerSetPending, TypeOK, PhaseOK
  <2>3. CASE kernel_lock_scheduler
    BY <1>1, <2>3, KernelAssumption DEF kernel_lock_scheduler, MayCall, TypeOK, PhaseOK
  <2>4. CASE kernel_unlock_scheduler
    BY <1>1, <2>4, KernelAssumption DEF kernel_unlock_scheduler, MayCall, TypeOK, PhaseOK
  <2>5. CASE SchedulePendingTick
    <3>1. scheduler_lock_depth = 0 /\ scheduler_lock_depth' = 1 /\ 1 \in 0 .. LockLimit + 1
      BY <2>5, KernelAssumption DEF SchedulePendingTick, PhaseOK
    <3>2. TypeOK'
      BY <1>1, <1>4, <2>5, <3>1 DEF SchedulePendingTick, EnterTickHandler, TypeOK
    <3>3. PhaseOK'
      BY <1>1, <1>3, <2>5, <3>1 DEF SchedulePendingTick, EnterTickHandler, PhaseOK
    <3> QED BY <3>2, <3>3
  <2>6. CASE ScheduleNoTick
    BY <1>1, <2>6 DEF ScheduleNoTick, TypeOK, PhaseOK
  <2>7. CASE FinishTickHandler
    <3>1. 0 \in Tick
      BY KernelAssumption DEF Tick
    <3> QED BY <1>1, <2>7, <3>1, KernelAssumption DEF FinishTickHandler, SchedulerOn, TypeOK, PhaseOK
  <2>8. CASE KeepCurrent
    BY <1>1, <2>8 DEF KeepCurrent, ReturnFromSchedule, TypeOK, PhaseOK
  <2>9. CASE IdleTick
    BY <1>1, <1>3, <1>4, <2>9 DEF IdleTick, EnterTickHandler, TypeOK, PhaseOK
  <2>10. CASE UNCHANGED vars
    BY <1>1, <2>10 DEF vars, TypeOK, PhaseOK
  <2> QED
    BY <2>1, <2>2, <2>3, <2>4, <2>5, <2>6, <2>7, <2>8, <2>9, <2>10 DEF QuietStep
<1> QED
  BY <1>2, <1>5

(* A kernel call returns to its caller or enters kernel_schedule.          *)
LEMMA CallPhaseOK ==
  ASSUME IInv, pc \in {"boot", "app"}, CallSchedule \/ UNCHANGED pc,
         UNCHANGED <<schedVars, timerVars, controlVars>>
  PROVE  PhaseOK' /\ pc' \in {"boot", "app", "sched"}
<1>1. cursor = NULL /\ cursor' = NULL
  BY DEF IInv, PhaseOK, controlVars
<1> QED
  BY <1>1 DEF IInv, PhaseOK, CallSchedule, SchedulerOn, schedVars, controlVars

(* The types of what a kernel call changes are enough.                     *)
LEMMA CallTypeOK ==
  ASSUME IInv, WellFormed(lists)', pc' \in {"boot", "app", "sched"},
         UNCHANGED <<schedVars, timerVars, controlVars>>,
         task_id' \in [TCB -> BOOLEAN], is_suspended' \in [TCB -> BOOLEAN],
         first_run' \in [TCB -> BOOLEAN], wake_time' \in [TCB -> Tick]
  PROVE  TypeOK'
  BY DEF IInv, TypeOK, WellFormed, schedVars, timerVars, controlVars

(* Tasks in use that become READY or RUNNING disturb neither property.     *)
LEMMA RunnableSlotsOK ==
  ASSUME SlotsOK, SuspendedCanBeResumed, UNCHANGED <<task_id, is_suspended>>,
         \A u \in TCB : lists'.state[u] # lists.state[u] =>
               task_id[u] /\ lists'.state[u] \in {"READY", "RUNNING"}
  PROVE  SlotsOK' /\ SuspendedCanBeResumed'
  BY TCBFinite DEF SlotsOK, SuspendedCanBeResumed

(* task_create preserves IInv.                                             *)
LEMMA CreateIInv ==
  ASSUME IInv, NEW p \in TaskPriorities, task_create(p)
  PROVE  IInv'
<1> DEFINE f == FirstFree
           filled == [lists EXCEPT !.state[f] = "READY", !.priority[f] = p,
                                   !.in_ready_queue[f] = FALSE, !.next[f] = NULL, !.prev[f] = NULL]
<1>1. f \in TCB /\ f # Idle /\ ~task_id[f] /\ p \in Priorities
  BY FirstFreeIsFree, TaskListsAssumption, KernelAssumption DEF task_create, TCB
<1>2. lists' = AddReady(filled, f)
  BY DEF task_create
<1> HIDE DEF f
<1>3. lists.state[f] = "TERMINATED" /\ ~lists.in_ready_queue[f]
      /\ lists.state \in [TCB -> TaskState]
  BY <1>1, ListsTyped DEF IInv, SlotsOK
<1>4. WellFormed(filled) /\ filled.state = [lists.state EXCEPT ![f] = "READY"]
  BY <1>1, <1>3, CreateWellFormed DEF IInv
<1> HIDE DEF filled
<1>5. WellFormed(lists)' /\ lists'.state = [lists.state EXCEPT ![f] = "READY"]
  <2>1. WellFormed(AddReady(filled, f))
        /\ AddReady(filled, f).state = [filled.state EXCEPT ![f] = IF @ = "RUNNING" THEN "READY" ELSE @]
    <3>1. filled.state[f] = "READY"
      BY <1>1, <1>3, <1>4
    <3> QED BY <1>1, <1>4, <3>1, AddReadyWellFormed
  <2>2. [filled.state EXCEPT ![f] = IF @ = "RUNNING" THEN "READY" ELSE @]
          = [lists.state EXCEPT ![f] = "READY"]
    BY <1>1, <1>3, <1>4
  <2> QED BY <1>2, <2>1, <2>2
<1>6. task_id' = [task_id EXCEPT ![f] = TRUE] /\ is_suspended' = [is_suspended EXCEPT ![f] = FALSE]
      /\ first_run' = [first_run EXCEPT ![f] = TRUE] /\ wake_time' = [wake_time EXCEPT ![f] = 0]
      /\ CallSchedule /\ UNCHANGED <<schedVars, timerVars, controlVars>>
      /\ pc \in {"boot", "app"}
  BY DEF task_create, MayCall, f
<1>7. PhaseOK' /\ pc' \in {"boot", "app", "sched"}
  BY <1>6, CallPhaseOK
<1>8. TypeOK'
  <2>1. task_id' \in [TCB -> BOOLEAN] /\ is_suspended' \in [TCB -> BOOLEAN]
        /\ first_run' \in [TCB -> BOOLEAN] /\ wake_time' \in [TCB -> Tick]
    <3>1. 0 \in Tick
      BY KernelAssumption DEF Tick
    <3> QED BY <1>6, <3>1 DEF IInv, TypeOK
  <2> QED BY <1>5, <1>6, <1>7, <2>1, CallTypeOK
<1>9. SlotsOK'
  BY <1>1, <1>3, <1>5, <1>6 DEF IInv, TypeOK, SlotsOK
<1>10. SuspendedCanBeResumed'
  BY <1>1, <1>3, <1>5, <1>6 DEF IInv, TypeOK, SuspendedCanBeResumed
<1> QED
  BY <1>5, <1>7, <1>8, <1>9, <1>10 DEF IInv

(* task_delete preserves IInv.                                             *)
LEMMA DeleteIInv ==
  ASSUME IInv, NEW t \in TCB, task_delete(t)
  PROVE  IInv'
<1>1. WellFormed(lists)' /\ lists'.state = [lists.state EXCEPT ![t] = "TERMINATED"]
  BY CleanupWellFormed DEF IInv, task_delete
<1>2. task_id' = [task_id EXCEPT ![t] = FALSE] /\ UNCHANGED <<is_suspended, first_run, wake_time>>
      /\ (CallSchedule \/ UNCHANGED pc) /\ UNCHANGED <<schedVars, timerVars, controlVars>>
      /\ pc \in {"boot", "app"}
  BY DEF task_delete, MayCall
<1>3. lists.state \in [TCB -> TaskState]
  BY ListsTyped DEF IInv
<1>4. PhaseOK' /\ pc' \in {"boot", "app", "sched"}
  BY <1>2, CallPhaseOK
<1>5. TypeOK'
  <2>1. task_id' \in [TCB -> BOOLEAN] /\ is_suspended' \in [TCB -> BOOLEAN]
        /\ first_run' \in [TCB -> BOOLEAN] /\ wake_time' \in [TCB -> Tick]
    BY <1>2 DEF IInv, TypeOK
  <2> QED BY <1>1, <1>2, <1>4, <2>1, CallTypeOK
<1>6. SlotsOK' /\ SuspendedCanBeResumed'
  BY <1>1, <1>2, <1>3, TCBFinite DEF IInv, TypeOK, SlotsOK, SuspendedCanBeResumed
<1> QED
  BY <1>1, <1>4, <1>5, <1>6 DEF IInv

(* task_suspend preserves IInv.                                            *)
LEMMA SuspendIInv ==
  ASSUME IInv, NEW t \in TCB, task_suspend(t)
  PROVE  IInv'
<1> DEFINE runs == lists.state[t] \in {"READY", "RUNNING"}
<1>1. WellFormed(lists)' /\ lists'.state = IF runs THEN [lists.state EXCEPT ![t] = "SUSPENDED"]
                                                   ELSE lists.state
  BY TakeReadyWellFormed DEF IInv, task_suspend, TaskState
<1>2. is_suspended' = [is_suspended EXCEPT ![t] = TRUE] /\ UNCHANGED <<task_id, first_run, wake_time>>
      /\ (CallSchedule \/ UNCHANGED pc) /\ UNCHANGED <<schedVars, timerVars, controlVars>>
      /\ pc \in {"boot", "app"} /\ t # Idle /\ Known(t)
  BY DEF task_suspend, MayCall
<1>3. lists.state \in [TCB -> TaskState]
  BY ListsTyped DEF IInv
<1>4. PhaseOK' /\ pc' \in {"boot", "app", "sched"}
  BY <1>2, CallPhaseOK
<1>5. TypeOK'
  <2>1. task_id' \in [TCB -> BOOLEAN] /\ is_suspended' \in [TCB -> BOOLEAN]
        /\ first_run' \in [TCB -> BOOLEAN] /\ wake_time' \in [TCB -> Tick]
    BY <1>2 DEF IInv, TypeOK
  <2> QED BY <1>1, <1>2, <1>4, <2>1, CallTypeOK
<1>6. SlotsOK' /\ SuspendedCanBeResumed'
  BY <1>1, <1>2, <1>3, TCBFinite DEF IInv, TypeOK, SlotsOK, SuspendedCanBeResumed
<1> QED
  BY <1>1, <1>4, <1>5, <1>6 DEF IInv

(* task_resume preserves IInv.                                             *)
LEMMA ResumeIInv ==
  ASSUME IInv, NEW t \in TCB, task_resume(t)
  PROVE  IInv'
<1> DEFINE asleep == lists.state[t] = "SUSPENDED"
           woken == [lists EXCEPT !.state[t] = "READY"]
<1>1. lists.state \in [TCB -> TaskState] /\ lists \in ListsType
      /\ (asleep => ~lists.in_ready_queue[t])
  BY ListsTyped DEF IInv
<1>2. lists' = IF asleep THEN AddReady(woken, t) ELSE lists
  BY DEF task_resume
<1>3. asleep => WellFormed(AddReady(woken, t))
                /\ AddReady(woken, t).state = [lists.state EXCEPT ![t] = "READY"]
  <2> HAVE asleep
  <2>1. WellFormed(woken) /\ woken.state = [lists.state EXCEPT ![t] = "READY"]
    BY <1>1, SetStateWellFormed DEF IInv, TaskState
  <2> HIDE DEF woken
  <2>2. woken.state[t] = "READY"
    BY <1>1, <2>1
  <2>3. WellFormed(AddReady(woken, t)) /\ AddReady(woken, t).state
                 = [woken.state EXCEPT ![t] = IF @ = "RUNNING" THEN "READY" ELSE @]
    BY <2>1, <2>2, AddReadyWellFormed
  <2> QED BY <1>1, <2>1, <2>2, <2>3
<1> HIDE DEF woken
<1>4. WellFormed(lists)' /\ lists'.state = IF asleep THEN [lists.state EXCEPT ![t] = "READY"]
                                                     ELSE lists.state
  BY <1>2, <1>3 DEF IInv
<1>5. is_suspended' = [is_suspended EXCEPT ![t] = FALSE] /\ UNCHANGED <<task_id, first_run, wake_time>>
      /\ CallSchedule /\ UNCHANGED <<schedVars, timerVars, controlVars>>
      /\ pc \in {"boot", "app"} /\ Known(t)
  BY DEF task_resume, MayCall
<1>6. PhaseOK' /\ pc' \in {"boot", "app", "sched"}
  BY <1>5, CallPhaseOK
<1>7. TypeOK'
  <2>1. task_id' \in [TCB -> BOOLEAN] /\ is_suspended' \in [TCB -> BOOLEAN]
        /\ first_run' \in [TCB -> BOOLEAN] /\ wake_time' \in [TCB -> Tick]
    BY <1>5 DEF IInv, TypeOK
  <2> QED BY <1>4, <1>5, <1>6, <2>1, CallTypeOK
<1>8. SlotsOK' /\ SuspendedCanBeResumed'
  BY <1>1, <1>4, <1>5, TCBFinite DEF IInv, TypeOK, SlotsOK, SuspendedCanBeResumed, Known
<1> QED
  BY <1>4, <1>6, <1>7, <1>8 DEF IInv

(* task_sleep preserves IInv.                                              *)
LEMMA SleepIInv ==
  ASSUME IInv, NEW ms \in SleepTimes, task_sleep(ms)
  PROVE  IInv'
<1>1. current_task \in TCB \ {Idle} /\ pc = "app" /\ lists.state[current_task] = "RUNNING"
      /\ task_id[current_task]
  BY DEF IInv, PhaseOK, task_sleep, MayCall
<1>2. lists.state \in [TCB -> TaskState] /\ ~lists.in_ready_queue[current_task]
  BY <1>1, ListsTyped DEF IInv
<1>3. WellFormed(lists)' /\ lists'.state = [lists.state EXCEPT ![current_task] = "BLOCKED"]
  BY <1>1, <1>2, PushBlockedWellFormed DEF IInv, task_sleep
<1>4. wake_time' = [wake_time EXCEPT ![current_task] = (system_tick + ms) % TickModulus]
      /\ UNCHANGED <<task_id, is_suspended, first_run>>
      /\ CallSchedule /\ UNCHANGED <<schedVars, timerVars, controlVars>>
  BY DEF task_sleep
<1>5. PhaseOK' /\ pc' \in {"boot", "app", "sched"}
  BY <1>1, <1>4, CallPhaseOK
<1>6. TypeOK'
  <2>1. system_tick + ms \in Nat
    BY KernelAssumption DEF IInv, TypeOK, Tick
  <2>2. (system_tick + ms) % TickModulus \in Tick
    BY <2>1, TickRange
  <2>3. task_id' \in [TCB -> BOOLEAN] /\ is_suspended' \in [TCB -> BOOLEAN]
        /\ first_run' \in [TCB -> BOOLEAN] /\ wake_time' \in [TCB -> Tick]
    BY <1>4, <2>2 DEF IInv, TypeOK
  <2> QED BY <1>3, <1>4, <1>5, <2>3, CallTypeOK
<1>7. SlotsOK' /\ SuspendedCanBeResumed'
  BY <1>1, <1>2, <1>3, <1>4 DEF IInv, TypeOK, SlotsOK, SuspendedCanBeResumed
<1> QED
  BY <1>3, <1>5, <1>6, <1>7 DEF IInv

(* task_set_priority preserves IInv.                                       *)
LEMMA SetPriorityIInv ==
  ASSUME IInv, NEW t \in TCB, NEW p \in TaskPriorities, task_set_priority(t, p)
  PROVE  IInv'
<1> DEFINE off == RemoveReady(lists, t)
           moved == [off EXCEPT !.priority[t] = p]
<1>1. lists.state \in [TCB -> TaskState] /\ p \in Priorities
      /\ (lists.in_ready_queue[t] => lists.state[t] = "READY")
  BY KernelAssumption, ListsTyped DEF IInv
<1>2. lists' = IF lists.in_ready_queue[t] THEN AddReady(moved, t)
                                          ELSE [lists EXCEPT !.priority[t] = p]
  BY DEF task_set_priority
<1>3. WellFormed(moved) /\ moved.state = lists.state
  <2>1. WellFormed(off) /\ ~off.in_ready_queue[t] /\ off.state = lists.state
    BY RemoveReadyWellFormed DEF IInv
  <2> HIDE DEF off
  <2> QED BY <1>1, <2>1, SetPriorityWellFormed
<1> HIDE DEF moved
<1>4. WellFormed(lists)' /\ lists'.state = lists.state
  <2>1. CASE lists.in_ready_queue[t]
    <3>1. WellFormed(AddReady(moved, t)) /\ AddReady(moved, t).state
                 = [moved.state EXCEPT ![t] = IF @ = "RUNNING" THEN "READY" ELSE @]
      BY <1>1, <1>3, <2>1, AddReadyWellFormed
    <3>2. [moved.state EXCEPT ![t] = IF @ = "RUNNING" THEN "READY" ELSE @] = lists.state
      BY <1>1, <1>3, <2>1
    <3> QED BY <1>2, <2>1, <3>1, <3>2
  <2>2. CASE ~lists.in_ready_queue[t]
    BY <1>1, <1>2, <2>2, SetPriorityWellFormed DEF IInv
  <2> QED BY <2>1, <2>2
<1>5. UNCHANGED <<task_id, is_suspended, first_run, wake_time>>
      /\ (CallSchedule \/ UNCHANGED pc) /\ UNCHANGED <<schedVars, timerVars, controlVars>>
      /\ pc \in {"boot", "app"}
  BY DEF task_set_priority, MayCall, tcbVars
<1>6. PhaseOK' /\ pc' \in {"boot", "app", "sched"}
  BY <1>5, CallPhaseOK
<1>7. TypeOK'
  BY <1>4, <1>5, <1>6 DEF IInv, TypeOK, WellFormed, schedVars, timerVars, controlVars
<1>8. SlotsOK' /\ SuspendedCanBeResumed'
  BY <1>4, <1>5 DEF IInv, SlotsOK, SuspendedCanBeResumed
<1> QED
  BY <1>4, <1>6, <1>7, <1>8 DEF IInv

(* task_yield, from a task or from the idle loop.                          *)
LEMMA YieldIInv ==
  ASSUME IInv, pc = "app", Yield, idle_pc' \in {"check", "yield"}
  PROVE  IInv'
<1>1. current_task \in TCB /\ cursor = NULL /\ scheduler_running
  BY DEF IInv, PhaseOK
<1>2. lists.state \in [TCB -> TaskState]
  BY ListsTyped DEF IInv
<1>3. UNCHANGED <<task_id, is_suspended, first_run, wake_time, current_task, scheduler_running,
                  scheduler_lock_depth, system_tick, timer_pending, timer_pc, cursor, tick_from,
                  returning, handler_tick>>
      /\ pc' \in {"app", "sched"} /\ (pc' = "sched" => scheduler_lock_depth = 0)
  BY DEF Yield, CallSchedule, SchedulerOn, tcbVars, schedVars, timerVars
<1>4. WellFormed(lists)' /\ (\/ lists' = lists
                             \/ lists'.state = [lists.state EXCEPT ![current_task] = "READY"]
                                /\ lists.state[current_task] = "RUNNING")
  <2>1. CASE lists.state[current_task] = "RUNNING"
    <3>1. WellFormed(AddReady(lists, current_task)) /\ AddReady(lists, current_task).state
            = [lists.state EXCEPT ![current_task] = IF @ = "RUNNING" THEN "READY" ELSE @]
      BY <1>1, <2>1, AddReadyWellFormed DEF IInv
    <3> QED BY <1>1, <1>2, <2>1, <3>1 DEF Yield
  <2>2. CASE lists.state[current_task] # "RUNNING"
    BY <2>2 DEF Yield, IInv
  <2> QED BY <2>1, <2>2
<1>5. TypeOK'
  BY <1>3, <1>4 DEF IInv, TypeOK, WellFormed
<1>6. PhaseOK'
  BY <1>1, <1>3 DEF IInv, PhaseOK
<1>7. SlotsOK' /\ SuspendedCanBeResumed'
  <2>1. \A u \in TCB : lists'.state[u] # lists.state[u] =>
              task_id[u] /\ lists'.state[u] \in {"READY", "RUNNING"}
    BY <1>1, <1>2, <1>4 DEF IInv, SlotsOK
  <2> QED BY <1>3, <2>1, RunnableSlotsOK DEF IInv
<1> QED
  BY <1>4, <1>5, <1>6, <1>7 DEF IInv

(* The return of an entry function preserves IInv.                         *)
LEMMA ReturnsIInv ==
  ASSUME IInv, TaskReturns
  PROVE  IInv'
<1>1. current_task \in TCB \ {Idle} /\ cursor = NULL /\ scheduler_running /\ pc = "app"
  BY DEF IInv, PhaseOK, TaskReturns, MayCall
<1>2. lists.state \in [TCB -> TaskState]
  BY ListsTyped DEF IInv
<1>3. WellFormed(lists)'
      /\ \/ lists' = lists /\ task_id' = task_id
         \/ lists'.state = [lists.state EXCEPT ![current_task] = "TERMINATED"]
            /\ task_id' = [task_id EXCEPT ![current_task] = FALSE]
  BY <1>1, CleanupWellFormed DEF TaskReturns, IInv
<1>4. UNCHANGED <<is_suspended, first_run, wake_time, current_task, scheduler_running,
                  scheduler_lock_depth, system_tick, timer_pending, timer_pc, cursor, tick_from,
                  idle_pc, handler_tick>>
      /\ returning' = TRUE
      /\ pc' \in {"sched", "exit"} /\ (pc' = "sched" => scheduler_lock_depth = 0)
  BY DEF TaskReturns, SchedulerOn, schedVars, timerVars
<1>5. TypeOK'
  <2>1. task_id' \in [TCB -> BOOLEAN]
    BY <1>3 DEF IInv, TypeOK
  <2> QED BY <1>3, <1>4, <2>1 DEF IInv, TypeOK, WellFormed
<1>6. PhaseOK'
  BY <1>1, <1>4 DEF IInv, PhaseOK
<1>7. SlotsOK' /\ SuspendedCanBeResumed'
  <2>1. CASE lists' = lists /\ task_id' = task_id
    BY <1>4, <2>1 DEF IInv, SlotsOK, SuspendedCanBeResumed
  <2>2. CASE lists'.state = [lists.state EXCEPT ![current_task] = "TERMINATED"]
             /\ task_id' = [task_id EXCEPT ![current_task] = FALSE]
    BY <1>1, <1>2, <1>4, <2>2 DEF IInv, TypeOK, SlotsOK, SuspendedCanBeResumed
  <2> QED BY <1>3, <2>1, <2>2
<1> QED
  BY <1>3, <1>5, <1>6, <1>7 DEF IInv

(* kernel_start preserves IInv.                                            *)
LEMMA StartIInv ==
  ASSUME IInv, kernel_start
  PROVE  IInv'
<1> DEFINE h == HighestReady
<1>1. h \in TCB /\ lists.state[h] = "READY"
  BY HighestReadyIsReady DEF IInv, kernel_start
<1>2. lists.state \in [TCB -> TaskState] /\ cursor = NULL /\ scheduler_lock_depth = 0
      /\ task_id[h]
  BY <1>1, ListsTyped DEF IInv, PhaseOK, SlotsOK, kernel_start
<1>3. lists' = [RemoveReady(lists, h) EXCEPT !.state[h] = "RUNNING"]
      /\ first_run' = [first_run EXCEPT ![h] = TRUE] /\ current_task' = h
      /\ scheduler_running' = TRUE /\ pc' = "app"
      /\ UNCHANGED <<task_id, is_suspended, wake_time, scheduler_lock_depth,
                     system_tick, timer_pending, timer_pc, cursor, tick_from, returning,
                     idle_pc, handler_tick>>
  BY DEF kernel_start, timerVars, controlVars
<1> HIDE DEF h
<1>4. WellFormed(lists)' /\ lists'.state = [lists.state EXCEPT ![h] = "RUNNING"]
  BY <1>1, <1>3, TakeReadyWellFormed DEF IInv, TaskState
<1>5. TypeOK'
  BY <1>1, <1>3, <1>4 DEF IInv, TypeOK, WellFormed
<1>6. PhaseOK'
  BY <1>1, <1>2, <1>3 DEF PhaseOK
<1>7. SlotsOK' /\ SuspendedCanBeResumed'
  <2>1. \A u \in TCB : lists'.state[u] # lists.state[u] =>
              task_id[u] /\ lists'.state[u] \in {"READY", "RUNNING"}
    BY <1>1, <1>2, <1>4
  <2> QED BY <1>3, <2>1, RunnableSlotsOK DEF IInv
<1> QED
  BY <1>4, <1>5, <1>6, <1>7 DEF IInv

(* The walk over blocked_list goes on to a task that still sleeps.         *)
LEMMA VisitIInv ==
  ASSUME IInv, VisitSleeper
  PROVE  IInv'
<1> DEFINE c == cursor
<1>1. c \in TCB /\ lists.state[c] = "BLOCKED" /\ pc = "walk"
  BY DEF IInv, TypeOK, PhaseOK, VisitSleeper
<1>2. lists.state \in [TCB -> TaskState] /\ task_id[c] /\ c # Idle
  BY <1>1, ListsTyped DEF IInv, SlotsOK
<1>3. lists.next[c] \in TCB \cup {NULL} /\ lists.next[c] # c
      /\ (lists.next[c] # NULL => lists.state[lists.next[c]] = "BLOCKED")
  BY <1>1, OffList DEF IInv, WellFormed, ListsType, ListsOK, LinksOK, SameList
<1>4. /\ \/ lists' = WakeBlocked(lists, c) \/ lists' = lists
      /\ \/ wake_time' = [wake_time EXCEPT ![c] = 0] \/ wake_time' = wake_time
      /\ cursor' = lists.next[c]
      /\ UNCHANGED <<task_id, is_suspended, first_run, current_task, scheduler_running,
                     scheduler_lock_depth, system_tick, timer_pending, timer_pc, pc, tick_from,
                     returning, idle_pc, handler_tick>>
  BY DEF VisitSleeper, schedVars, timerVars
<1> HIDE DEF c
<1>5. WellFormed(lists)' /\ (\/ lists'.state = [lists.state EXCEPT ![c] = "READY"]
                             \/ lists' = lists)
  BY <1>1, <1>4, WakeBlockedWellFormed DEF IInv
<1>6. TypeOK'
  <2>1. wake_time' \in [TCB -> Tick]
    <3>1. 0 \in Tick
      BY KernelAssumption DEF Tick
    <3> QED BY <1>4, <3>1 DEF IInv, TypeOK
  <2> QED BY <1>3, <1>4, <1>5, <2>1 DEF IInv, TypeOK, WellFormed
<1>7. PhaseOK'
  BY <1>1, <1>2, <1>3, <1>4, <1>5 DEF IInv, PhaseOK
<1>8. SlotsOK' /\ SuspendedCanBeResumed'
  <2>1. \A u \in TCB : lists'.state[u] # lists.state[u] =>
              task_id[u] /\ lists'.state[u] \in {"READY", "RUNNING"}
    BY <1>1, <1>2, <1>5
  <2> QED BY <1>4, <2>1, RunnableSlotsOK DEF IInv
<1> QED
  BY <1>5, <1>6, <1>7, <1>8 DEF IInv

(* Keeping the task that was picked preserves IInv.                        *)
LEMMA PickSameIInv ==
  ASSUME IInv, PickSameTask
  PROVE  IInv'
<1>1. current_task \in TCB /\ pc = "pick" /\ cursor = NULL
  BY DEF IInv, PhaseOK, PickSameTask
<1>2. WellFormed(lists)' /\ lists'.state = lists.state
  BY <1>1, RemoveReadyWellFormed DEF IInv, PickSameTask
<1>3. UNCHANGED <<task_id, is_suspended, first_run, wake_time, current_task, scheduler_running,
                  scheduler_lock_depth, system_tick, timer_pending, timer_pc, cursor, tick_from,
                  returning, idle_pc, handler_tick>>
      /\ pc' \in {"app", "exit"}
  BY DEF PickSameTask, ReturnFromSchedule, tcbVars, schedVars, timerVars, controlVars
<1>4. TypeOK'
  BY <1>2, <1>3 DEF IInv, TypeOK, WellFormed
<1>5. PhaseOK'
  BY <1>1, <1>3 DEF IInv, PhaseOK
<1>6. SlotsOK' /\ SuspendedCanBeResumed'
  BY <1>2, <1>3 DEF IInv, SlotsOK, SuspendedCanBeResumed
<1> QED
  BY <1>2, <1>4, <1>5, <1>6 DEF IInv

(* A first dispatch, or a context switch.                                  *)
LEMMA DispatchIInv ==
  ASSUME IInv, DispatchFirstRun \/ SwitchContext
  PROVE  IInv' /\ lists'.state[current_task'] = "RUNNING"
<1> DEFINE c == Candidate
           old == current_task
           m == [RemoveReady(lists, c) EXCEPT !.state[c] = "RUNNING"]
           requeued == [m EXCEPT !.state[old] = "READY"]
<1>1. c \in TCB /\ lists.state[c] = "READY" /\ c # old /\ pc = "pick"
  BY CandidateIsReady DEF IInv, DispatchFirstRun, SwitchContext
<1>2. old \in TCB /\ cursor = NULL /\ scheduler_lock_depth = 0 /\ scheduler_running
  BY <1>1 DEF IInv, PhaseOK
<1>3. lists.state \in [TCB -> TaskState] /\ task_id[c]
      /\ (lists.state[old] = "RUNNING" => ~lists.in_ready_queue[old] /\ task_id[old])
  BY <1>1, <1>2, ListsTyped DEF IInv, SlotsOK
<1>4. /\ \/ lists' = m
         \/ lists' = AddReady(requeued, old) /\ lists.state[old] = "RUNNING"
      /\ \/ first_run' = [first_run EXCEPT ![c] = FALSE] \/ first_run' = first_run
      /\ current_task' = c /\ pc' = "app" /\ returning' = FALSE
      /\ idle_pc' \in {"check", idle_pc}
      /\ UNCHANGED <<task_id, is_suspended, wake_time, scheduler_running,
                     scheduler_lock_depth, system_tick, timer_pending, timer_pc, cursor, tick_from,
                     handler_tick>>
  <2>1. CASE DispatchFirstRun
    BY <2>1 DEF DispatchFirstRun, timerVars
  <2>2. CASE SwitchContext
    BY <1>3, <2>2 DEF SwitchContext, tcbVars, timerVars
  <2> QED BY <2>1, <2>2
<1> HIDE DEF c
<1>5. WellFormed(m) /\ m.state = [lists.state EXCEPT ![c] = "RUNNING"]
  BY <1>1, TakeReadyWellFormed DEF IInv, TaskState
<1> HIDE DEF m, old
<1>6. lists.state[old] = "RUNNING" =>
        WellFormed(AddReady(requeued, old))
        /\ AddReady(requeued, old).state = [lists.state EXCEPT ![c] = "RUNNING", ![old] = "READY"]
  <2> HAVE lists.state[old] = "RUNNING"
  <2>1. m.state[old] = "RUNNING" /\ ~m.in_ready_queue[old] /\ m.state[old] # "BLOCKED"
    BY <1>1, <1>2, <1>3, <1>5 DEF WellFormed, ListsOK, LinksOK
  <2>2. WellFormed(requeued) /\ requeued.state = [m.state EXCEPT ![old] = "READY"]
    <3>1. WellFormed(m) /\ old \in TCB /\ "READY" \in TaskState \ {"BLOCKED"}
      BY <1>2, <1>5 DEF TaskState
    <3> QED BY <2>1, <3>1, SetStateWellFormed, Zenon
  <2> HIDE DEF requeued
  <2>3. requeued.state = [lists.state EXCEPT ![c] = "RUNNING", ![old] = "READY"]
    BY <1>5, <2>2
  <2>4. requeued.state[old] = "READY"
    BY <1>2, <1>3, <2>3
  <2>5. WellFormed(AddReady(requeued, old)) /\ AddReady(requeued, old).state
          = [requeued.state EXCEPT ![old] = IF @ = "RUNNING" THEN "READY" ELSE @]
    BY <1>2, <2>2, <2>4, AddReadyWellFormed
  <2>6. [requeued.state EXCEPT ![old] = IF @ = "RUNNING" THEN "READY" ELSE @] = requeued.state
    BY <1>2, <1>3, <2>3, <2>4
  <2> QED BY <2>3, <2>5, <2>6
<1> HIDE DEF requeued
<1>7. WellFormed(lists)'
      /\ \/ lists'.state = [lists.state EXCEPT ![c] = "RUNNING"]
         \/ lists'.state = [lists.state EXCEPT ![c] = "RUNNING", ![old] = "READY"]
            /\ lists.state[old] = "RUNNING"
  BY <1>4, <1>5, <1>6
<1>8. TypeOK'
  BY <1>1, <1>4, <1>7 DEF IInv, TypeOK, WellFormed
<1>9. PhaseOK'
  BY <1>1, <1>2, <1>4 DEF IInv, PhaseOK
<1>10. SlotsOK' /\ SuspendedCanBeResumed'
  <2>1. \A u \in TCB : lists'.state[u] # lists.state[u] =>
              task_id[u] /\ lists'.state[u] \in {"READY", "RUNNING"}
    BY <1>1, <1>2, <1>3, <1>7
  <2> QED BY <1>4, <2>1, RunnableSlotsOK DEF IInv
<1>11. lists'.state[c] = "RUNNING" /\ current_task' = c
  BY <1>1, <1>2, <1>3, <1>4, <1>7
<1> QED
  BY <1>7, <1>8, <1>9, <1>10, <1>11 DEF IInv

-----------------------------------------------------------------------------
(* Every step keeps the invariant.                                         *)
LEMMA NextIInv == IInv /\ [Next]_vars => IInv'
<1> SUFFICES ASSUME IInv, [Next]_vars  PROVE IInv'
  OBVIOUS
<1>1. CASE TimerThread
  BY <1>1, QuietStepIInv DEF TimerThread, QuietStep
<1>2. CASE KernelCall
  <2>1. ASSUME NEW p \in TaskPriorities, task_create(p)  PROVE IInv'
    BY <2>1, CreateIInv
  <2>2. ASSUME NEW t \in TCB, task_delete(t)  PROVE IInv'
    BY <2>2, DeleteIInv
  <2>3. ASSUME NEW t \in TCB, task_suspend(t)  PROVE IInv'
    BY <2>3, SuspendIInv
  <2>4. ASSUME NEW t \in TCB, task_resume(t)  PROVE IInv'
    BY <2>4, ResumeIInv
  <2>5. ASSUME NEW ms \in SleepTimes, task_sleep(ms)  PROVE IInv'
    BY <2>5, SleepIInv
  <2>6. CASE SleepRefused
    BY <2>6, QuietStepIInv DEF SleepRefused, QuietStep
  <2>7. CASE task_yield
    BY <2>7, YieldIInv DEF task_yield, MayCall, IInv, TypeOK
  <2>8. ASSUME NEW t \in TCB, NEW p \in TaskPriorities, task_set_priority(t, p)  PROVE IInv'
    BY <2>8, SetPriorityIInv
  <2>9. CASE kernel_lock_scheduler \/ kernel_unlock_scheduler
    BY <2>9, QuietStepIInv DEF QuietStep
  <2>10. CASE TaskReturns
    BY <2>10, ReturnsIInv
  <2> QED
    BY <1>2, <2>1, <2>2, <2>3, <2>4, <2>5, <2>6, <2>7, <2>8, <2>9, <2>10 DEF KernelCall
<1>3. CASE kernel_start
  BY <1>3, StartIInv
<1>4. CASE kernel_schedule
  <2>1. CASE SchedulePendingTick \/ ScheduleNoTick \/ FinishTickHandler \/ KeepCurrent
    BY <2>1, QuietStepIInv DEF QuietStep
  <2>2. CASE VisitSleeper
    BY <2>2, VisitIInv
  <2>3. CASE PickSameTask
    BY <2>3, PickSameIInv
  <2>4. CASE DispatchFirstRun \/ SwitchContext
    BY <2>4, DispatchIInv
  <2> QED
    BY <1>4, <2>1, <2>2, <2>3, <2>4 DEF kernel_schedule
<1>5. CASE IdleLoop
  <2>1. CASE IdleTick
    BY <2>1, QuietStepIInv DEF QuietStep
  <2>2. CASE IdleYield
    BY <2>2, YieldIInv DEF IdleYield
  <2> QED BY <1>5, <2>1, <2>2 DEF IdleLoop
<1>6. CASE Exited \/ UNCHANGED vars
  BY <1>6, QuietStepIInv DEF QuietStep, Exited
<1> QED
  BY <1>1, <1>2, <1>3, <1>4, <1>5, <1>6 DEF Next

(* IInv holds in every state of every instance of the scheduler.           *)
THEOREM Invariance == Spec => []IInv
<1> QED
  BY InitIInv, NextIInv, PTL DEF Spec

(* The kernel's variables keep their types; in particular the scheduler    *)
(* lock never underflows, whatever tasks do and wherever ticks fall.       *)
THEOREM TypeCorrect == Spec => []TypeOK
<1>1. IInv => TypeOK
  BY DEF IInv
<1> QED
  BY <1>1, Invariance, PTL

(* No sequence of kernel calls, ticks and context switches corrupts a      *)
(* list: a walk along next from each head meets exactly the tasks that     *)
(* belong on that list, and prev is its inverse.                           *)
THEOREM ListsStayIntact == Spec => []ListsIntact
<1>1. IInv => ListsIntact
  BY WalksMeetMembers DEF IInv, WellFormed, ListsIntact
<1> QED
  BY <1>1, Invariance, PTL

(* A suspended task has the flag task_resume looks at.                     *)
THEOREM ResumeAlwaysPossible == Spec => []SuspendedCanBeResumed
<1>1. IInv => SuspendedCanBeResumed
  BY DEF IInv
<1> QED
  BY <1>1, Invariance, PTL

(* No dispatch while the scheduler is locked.                              *)
THEOREM LockRespected == Spec => LockedSchedulerKeepsTask
<1>1. IInv /\ [Next]_vars => [scheduler_lock_depth > 0 => UNCHANGED current_task]_vars
  <2> SUFFICES ASSUME IInv, Next, scheduler_lock_depth > 0  PROVE UNCHANGED current_task
    OBVIOUS
  <2>1. pc \notin {"boot", "pick", "sched"}
    BY DEF IInv, PhaseOK
  <2> QED
    BY <2>1 DEF Next, TimerThread, TimerIncrement, TimerSetPending, KernelCall, task_create,
         task_delete, task_suspend, task_resume, task_sleep, SleepRefused, task_yield, Yield,
         task_set_priority, kernel_lock_scheduler, kernel_unlock_scheduler, TaskReturns,
         kernel_start, kernel_schedule, SchedulePendingTick, ScheduleNoTick, VisitSleeper,
         FinishTickHandler, KeepCurrent, PickSameTask, DispatchFirstRun, SwitchContext,
         IdleLoop, IdleTick, IdleYield, Exited, vars, schedVars
<1> QED
  BY <1>1, Invariance, PTL DEF Spec, LockedSchedulerKeepsTask

-----------------------------------------------------------------------------
(* With every head NULL, no task is flagged as queued.                     *)
LEMMA NothingQueued ==
  ASSUME WellFormed(lists), Nonempty = {}, NEW t \in TCB
  PROVE  ~lists.in_ready_queue[t]
<1> DEFINE p == lists.priority[t]
<1>1. p \in Priorities
  BY DEF WellFormed, ListsType
<1>2. lists.ready_queue[p] = NULL
  BY <1>1 DEF Nonempty
<1>3. Chain(lists, lists.ready_queue[p]) = {}
  BY <1>2 DEF Chain
<1>4. Chain(lists, lists.ready_queue[p]) = {u \in TCB : lists.in_ready_queue[u] /\ lists.priority[u] = p}
  BY <1>1, WalksMeetMembers
<1> QED
  BY <1>3, <1>4

(* A step by which the code of a task regains control while it is blocked  *)
(* finds nothing to dispatch, and no later step queues anything without    *)
(* entering kernel_schedule.                                               *)
LEMMA BlockedStep ==
  ASSUME IInv, IInv', Next, BlockedTaskRunsOnlyAlone
  PROVE  BlockedTaskRunsOnlyAlone'
<1> DEFINE Waits(t) == lists.state[t] \in {"BLOCKED", "SUSPENDED"}
<1> SUFFICES ASSUME pc' = "app", scheduler_lock_depth' = 0, Waits(current_task)'
             PROVE  Nonempty' = {} /\ lists'.state[Idle] # "READY"
  BY DEF BlockedTaskRunsOnlyAlone
<1>1. /\ lists.state \in [TCB -> TaskState] /\ lists \in ListsType
      /\ ~Waits(Idle) /\ ~Waits(Idle)'
  BY ListsTyped DEF IInv, SlotsOK
<1>2. current_task' # Idle
  BY <1>1
<1>3. pc = "app" => scheduler_running /\ current_task \in TCB
  BY DEF IInv, PhaseOK
<1>4. ASSUME pc = "app", lists' = lists, current_task' = current_task, scheduler_lock_depth = 0
      PROVE  Nonempty' = {} /\ lists'.state[Idle] # "READY"
  BY <1>4 DEF BlockedTaskRunsOnlyAlone, Nonempty
<1>5. CASE TimerThread
  <2>1. UNCHANGED <<lists, pc, current_task, scheduler_lock_depth>>
    BY <1>5 DEF TimerThread, TimerIncrement, TimerSetPending, schedVars
  <2> QED BY <1>4, <2>1
<1>6. CASE KernelCall
  <2>1. CASE CallSchedule /\ UNCHANGED schedVars /\ pc \in {"app", "boot"}
    BY <1>3, <2>1 DEF CallSchedule, SchedulerOn, schedVars, IInv, PhaseOK
  <2>2. ASSUME NEW t \in TCB, task_delete(t), t = current_task  PROVE FALSE
    <3>1. lists'.state = [lists.state EXCEPT ![t] = "TERMINATED"]
      BY <2>2, CleanupWellFormed DEF task_delete, IInv
    <3>2. current_task' = t
      BY <2>2 DEF task_delete, schedVars
    <3> QED BY <1>1, <3>1, <3>2
  <2>3. ASSUME NEW t \in TCB, task_suspend(t), t # current_task
        PROVE  Nonempty' = {} /\ lists'.state[Idle] # "READY"
    <3>1. pc = "app" /\ scheduler_lock_depth = 0 /\ current_task' = current_task /\ t # Idle
          /\ lists' = IF lists.state[t] \in {"READY", "RUNNING"}
                      THEN [RemoveReady(lists, t) EXCEPT !.state[t] = "SUSPENDED"] ELSE lists
      BY <2>3 DEF task_suspend, MayCall, schedVars
    <3>2. lists'.state = IF lists.state[t] \in {"READY", "RUNNING"}
                         THEN [lists.state EXCEPT ![t] = "SUSPENDED"] ELSE lists.state
      BY <3>1, TakeReadyWellFormed DEF IInv, TaskState
    <3>3. Waits(current_task)
      BY <1>1, <1>3, <2>3, <3>1, <3>2
    <3>4. Nonempty = {} /\ lists.state[Idle] # "READY"
      BY <3>1, <3>3 DEF BlockedTaskRunsOnlyAlone
    <3>5. RemoveReady(lists, t) = lists
      BY <3>4, NothingQueued DEF IInv, RemoveReady
    <3>6. lists'.ready_queue = lists.ready_queue
      BY <1>1, <3>1, <3>5 DEF ListsType
    <3> QED BY <1>1, <3>1, <3>2, <3>4, <3>6, TCBFinite DEF Nonempty
  <2>4. ASSUME NEW t \in TCB, NEW p \in TaskPriorities, task_set_priority(t, p), t # current_task
        PROVE  Nonempty' = {} /\ lists'.state[Idle] # "READY"
    <3>1. pc = "app" /\ scheduler_lock_depth = 0 /\ current_task' = current_task
      BY <2>4 DEF task_set_priority, MayCall, schedVars
    <3>2. CASE ~lists.in_ready_queue[t]
      <4>1. lists'.state = lists.state /\ lists'.ready_queue = lists.ready_queue
        BY <1>1, <2>4, <3>2 DEF task_set_priority, ListsType
      <4> QED BY <3>1, <4>1 DEF BlockedTaskRunsOnlyAlone, Nonempty
    <3>3. CASE lists.in_ready_queue[t]
      <4> DEFINE moved == [RemoveReady(lists, t) EXCEPT !.priority[t] = p]
      <4>1. lists' = AddReady(moved, t)
        BY <2>4, <3>3 DEF task_set_priority
      <4>2. WellFormed(moved) /\ moved.state = lists.state /\ lists.state[t] = "READY"
        <5> DEFINE off == RemoveReady(lists, t)
        <5>1. WellFormed(off) /\ ~off.in_ready_queue[t] /\ off.state = lists.state
          BY RemoveReadyWellFormed DEF IInv
        <5>2. p \in Priorities /\ lists.state[t] = "READY"
          BY <3>3, KernelAssumption, ListsTyped DEF IInv
        <5> HIDE DEF off
        <5>3. WellFormed([off EXCEPT !.priority[t] = p])
              /\ [off EXCEPT !.priority[t] = p].state = off.state
          BY <5>1, <5>2, SetPriorityWellFormed
        <5> QED BY <5>1, <5>2, <5>3 DEF off
      <4> HIDE DEF moved
      <4>3. lists'.state = [moved.state EXCEPT ![t] = IF @ = "RUNNING" THEN "READY" ELSE @]
        BY <4>1, <4>2, AddReadyWellFormed
      <4>4. Waits(current_task)
        BY <1>1, <1>3, <2>4, <3>1, <4>2, <4>3
      <4> QED BY <3>1, <3>3, <4>4, NothingQueued DEF BlockedTaskRunsOnlyAlone, IInv
    <3> QED BY <3>2, <3>3
  <2>5. CASE SleepRefused
    BY <1>4, <2>5 DEF SleepRefused, MayCall, vars, schedVars
  <2>6. CASE task_yield
    <3>1. CASE lists.state[current_task] = "RUNNING"
      BY <2>1, <2>6, <3>1 DEF task_yield, MayCall, Yield
    <3>2. CASE lists.state[current_task] # "RUNNING"
      BY <1>4, <2>6, <3>2 DEF task_yield, MayCall, Yield, schedVars
    <3> QED BY <3>1, <3>2
  <2>7. CASE kernel_lock_scheduler
    BY <2>7, KernelAssumption DEF kernel_lock_scheduler, IInv, TypeOK
  <2>8. CASE kernel_unlock_scheduler
    BY <1>3, <2>8 DEF kernel_unlock_scheduler, MayCall
  <2>9. CASE TaskReturns
    BY <2>9 DEF TaskReturns
  <2>10. ASSUME NEW p \in TaskPriorities, task_create(p)
         PROVE  Nonempty' = {} /\ lists'.state[Idle] # "READY"
    BY <2>1, <2>10 DEF task_create, MayCall
  <2>11. ASSUME NEW t \in TCB, task_delete(t) \/ task_suspend(t) \/ task_resume(t)
         PROVE  Nonempty' = {} /\ lists'.state[Idle] # "READY"
    <3>1. CASE task_delete(t)
      BY <2>1, <2>2, <3>1 DEF task_delete, MayCall
    <3>2. CASE task_suspend(t)
      <4>1. CASE t = current_task
        BY <2>1, <3>2, <4>1 DEF task_suspend, MayCall
      <4> QED BY <2>3, <3>2, <4>1
    <3>3. CASE task_resume(t)
      BY <2>1, <3>3 DEF task_resume, MayCall
    <3> QED BY <2>11, <3>1, <3>2, <3>3
  <2>12. ASSUME NEW ms \in SleepTimes, task_sleep(ms)
         PROVE  Nonempty' = {} /\ lists'.state[Idle] # "READY"
    BY <2>1, <2>12 DEF task_sleep, MayCall
  <2>13. ASSUME NEW t \in TCB, NEW p \in TaskPriorities, task_set_priority(t, p)
         PROVE  Nonempty' = {} /\ lists'.state[Idle] # "READY"
    <3>1. CASE t = current_task
      BY <2>1, <2>13, <3>1 DEF task_set_priority, MayCall
    <3> QED BY <2>4, <2>13, <3>1
  <2> QED
    BY <1>6, <2>5, <2>6, <2>7, <2>8, <2>9, <2>10, <2>11, <2>12, <2>13 DEF KernelCall
<1>7. CASE kernel_start
  <2>1. HighestReady \in TCB /\ lists.state[HighestReady] = "READY"
    BY <1>7, HighestReadyIsReady DEF IInv, kernel_start
  <2>2. lists'.state = [lists.state EXCEPT ![HighestReady] = "RUNNING"]
    BY <1>7, <2>1, TakeReadyWellFormed DEF IInv, kernel_start, TaskState
  <2>3. current_task' = HighestReady
    BY <1>7 DEF kernel_start
  <2> QED BY <1>1, <2>1, <2>2, <2>3
<1>8. CASE kernel_schedule
  <2>1. CASE SchedulePendingTick \/ ScheduleNoTick \/ VisitSleeper
    BY <2>1 DEF SchedulePendingTick, EnterTickHandler, ScheduleNoTick, VisitSleeper
  <2>2. CASE FinishTickHandler
    <3>1. tick_from # "sched" /\ pc = "walk" /\ current_task' = current_task
      BY <2>2 DEF FinishTickHandler
    <3> QED BY <1>2, <3>1 DEF IInv, PhaseOK
  <2>3. CASE KeepCurrent
    <3>1. Candidate = NULL /\ lists' = lists /\ current_task' = current_task
      BY <2>3 DEF KeepCurrent, schedVars
    <3>2. Nonempty = {}
      BY <3>1, HighestReadyIsReady, TCBFinite DEF Candidate, IInv
    <3>3. lists.state[current_task] # "RUNNING"
      BY <3>1
    <3>4. lists.state[Idle] # "READY"
      BY <3>1, <3>2, <3>3, TCBFinite DEF Candidate
    <3> QED BY <3>1, <3>2, <3>4 DEF Nonempty
  <2>4. CASE PickSameTask
    <3>1. Candidate = current_task /\ current_task' = current_task
          /\ lists' = RemoveReady(lists, current_task) /\ current_task \in TCB
      BY <2>4 DEF PickSameTask, schedVars, IInv, PhaseOK
    <3>2. lists.state[current_task] = "READY"
      BY <3>1, CandidateIsReady, TCBFinite DEF IInv
    <3>3. lists'.state = lists.state
      BY <3>1, RemoveReadyWellFormed DEF IInv
    <3> QED BY <3>1, <3>2, <3>3
  <2>5. CASE DispatchFirstRun \/ SwitchContext
    BY <2>5, DispatchIInv
  <2> QED
    BY <1>8, <2>1, <2>2, <2>3, <2>4, <2>5 DEF kernel_schedule
<1>9. CASE IdleLoop
  BY <1>2, <1>9 DEF IdleLoop, IdleTick, IdleYield, Yield, schedVars
<1>10. CASE Exited
  BY <1>10 DEF Exited, vars
<1> QED
  BY <1>5, <1>6, <1>7, <1>8, <1>9, <1>10 DEF Next

(* With the scheduler unlocked, kernel_schedule comes back to a task that  *)
(* has blocked or suspended itself only if nothing else can run.           *)
THEOREM BlockedTasksYield == Spec => []BlockedTaskRunsOnlyAlone
<1>1. Init => BlockedTaskRunsOnlyAlone
  BY DEF Init, BlockedTaskRunsOnlyAlone
<1>2. IInv /\ IInv' /\ [Next]_vars /\ BlockedTaskRunsOnlyAlone => BlockedTaskRunsOnlyAlone'
  <2>1. ASSUME UNCHANGED vars, BlockedTaskRunsOnlyAlone  PROVE BlockedTaskRunsOnlyAlone'
    BY <2>1 DEF vars, schedVars, BlockedTaskRunsOnlyAlone, Nonempty
  <2> QED BY <2>1, BlockedStep
<1> QED
  BY <1>1, <1>2, Invariance, PTL DEF Spec

-----------------------------------------------------------------------------
(* Until system_tick wraps, the handler began in the past.                 *)
TickOrder == system_tick <= TickLimit /\ handler_tick <= system_tick

LEMMA TickOrderStep ==
  ASSUME TickLimit < TickModulus, IInv, TickOrder, [Next]_vars
  PROVE  TickOrder'
<1>1. system_tick \in Nat /\ handler_tick \in Nat
  BY KernelAssumption DEF IInv, TypeOK, Tick
<1>2. CASE TimerIncrement
  <2>1. system_tick' = system_tick + 1 /\ handler_tick' = handler_tick
    BY <1>1, <1>2, KernelAssumption DEF TimerIncrement, controlVars
  <2> QED BY <1>1, <1>2, <2>1, KernelAssumption DEF TickOrder, TimerIncrement
<1>3. CASE ~TimerIncrement
  <2>1. system_tick' = system_tick /\ handler_tick' \in {0, handler_tick, system_tick}
    BY <1>3 DEF Next, TimerThread, TimerSetPending, KernelCall, task_create,
         task_delete, task_suspend, task_resume, task_sleep, SleepRefused, task_yield, Yield,
         task_set_priority, kernel_lock_scheduler, kernel_unlock_scheduler, TaskReturns,
         kernel_start, kernel_schedule, SchedulePendingTick, ScheduleNoTick, VisitSleeper,
         FinishTickHandler, KeepCurrent, PickSameTask, DispatchFirstRun, SwitchContext,
         IdleLoop, IdleTick, IdleYield, EnterTickHandler, Exited, vars, timerVars, controlVars
  <2> QED BY <1>1, <2>1 DEF TickOrder
<1> QED
  BY <1>2, <1>3

(* A turn of the handler's loop wakes the task at the cursor if it is due, *)
(* and the rest of the walk is still ahead.                                *)
LEMMA VisitPassesNobody ==
  ASSUME IInv, TickOrder, NoSleeperPassedOver, VisitSleeper
  PROVE  NoSleeperPassedOver'
<1> SUFFICES ASSUME NEW t \in TCB, lists'.state[t] = "BLOCKED", wake_time'[t] <= handler_tick'
             PROVE  t \in Chain(lists', cursor')
  BY DEF NoSleeperPassedOver
<1> DEFINE c == cursor
<1>1. c \in TCB /\ lists.state[c] = "BLOCKED" /\ pc = "walk" /\ WellFormed(lists)
  BY DEF IInv, TypeOK, PhaseOK, VisitSleeper
<1>2. lists \in ListsType /\ wake_time \in [TCB -> Tick] /\ cursor' = lists.next[c]
      /\ handler_tick' = handler_tick
  BY DEF IInv, TypeOK, VisitSleeper
<1>3. CASE wake_time[c] <= system_tick
  <2>1. lists' = WakeBlocked(lists, c) /\ wake_time' = [wake_time EXCEPT ![c] = 0]
    BY <1>3 DEF VisitSleeper
  <2>2. lists'.state = [lists.state EXCEPT ![c] = "READY"]
    BY <1>1, <2>1, WakeBlockedWellFormed
  <2>3. t # c /\ lists.state[t] = "BLOCKED"
    BY <1>1, <1>2, <2>2 DEF ListsType
  <2>4. wake_time[t] <= handler_tick
    BY <1>2, <2>1, <2>3
  <2>5. t \in Chain(lists, c)
    BY <1>1, <2>3, <2>4 DEF NoSleeperPassedOver
  <2>6. t \in Chain(lists, lists.next[c])
    BY <1>1, <1>2, <2>3, <2>5, ChainStep
  <2> HIDE DEF c
  <2> QED
    BY <1>1, <1>2, <2>1, <2>6, RestIsKept
<1>4. CASE ~(wake_time[c] <= system_tick)
  <2>1. lists' = lists /\ wake_time' = wake_time
    BY <1>4 DEF VisitSleeper
  <2>2. t # c
    <3>1. wake_time[c] \in Nat /\ system_tick \in Nat /\ handler_tick \in Nat
      BY <1>1, <1>2, KernelAssumption DEF IInv, TypeOK, Tick
    <3> QED BY <1>2, <1>4, <2>1, <3>1 DEF TickOrder
  <2>3. t \in Chain(lists, c)
    BY <1>1, <1>2, <2>1 DEF NoSleeperPassedOver
  <2> HIDE DEF c
  <2> QED
    BY <1>1, <1>2, <2>1, <2>2, <2>3, ChainStep
<1> QED
  BY <1>3, <1>4

(* Every other step starts the walk at the head, leaves what the walk is   *)
(* about alone, or is not in the walk.                                     *)
LEMMA PassesNobody ==
  ASSUME IInv, TickOrder, NoSleeperPassedOver, [Next]_vars
  PROVE  NoSleeperPassedOver'
<1>1. CASE VisitSleeper
  BY <1>1, VisitPassesNobody
<1>2. CASE SchedulePendingTick \/ IdleTick
  <2>1. CASE pc' # "walk"
    BY <2>1 DEF NoSleeperPassedOver
  <2>2. CASE pc' = "walk"
    <3>1. cursor' = lists.blocked_list /\ lists' = lists
      BY <1>2, <2>2 DEF SchedulePendingTick, IdleTick, EnterTickHandler
    <3>2. Chain(lists, lists.blocked_list) = {t \in TCB : lists.state[t] = "BLOCKED"}
      BY WalksMeetMembers DEF IInv
    <3> QED BY <3>1, <3>2 DEF NoSleeperPassedOver
  <2> QED BY <2>1, <2>2
<1>3. CASE TimerThread \/ Exited \/ UNCHANGED vars
  <2>1. UNCHANGED <<lists, wake_time, handler_tick, cursor, pc>>
    BY <1>3 DEF TimerThread, TimerIncrement, TimerSetPending, Exited, vars, tcbVars, controlVars
  <2> QED BY <2>1 DEF NoSleeperPassedOver
<1>4. CASE KernelCall \/ kernel_start \/ IdleYield \/ ScheduleNoTick \/ FinishTickHandler
           \/ KeepCurrent \/ PickSameTask \/ DispatchFirstRun \/ SwitchContext
  <2>1. pc' # "walk"
    BY <1>4 DEF KernelCall, task_create, MayCall, CallSchedule,
         task_delete, task_suspend, task_resume, task_sleep, SleepRefused, task_yield, Yield,
         task_set_priority, kernel_lock_scheduler, kernel_unlock_scheduler, TaskReturns,
         kernel_start, ScheduleNoTick, FinishTickHandler, KeepCurrent, PickSameTask,
         ReturnFromSchedule, DispatchFirstRun, SwitchContext, IdleYield, vars
  <2> QED BY <2>1 DEF NoSleeperPassedOver
<1> QED
  BY <1>1, <1>2, <1>3, <1>4 DEF Next, kernel_schedule, IdleLoop

(* In uptime that does not wrap system_tick, the tick handler reaches      *)
(* every sleeper that was due when it began, although it relinks the list  *)
(* it walks and the timer thread may tick meanwhile.                       *)
THEOREM HandlerReachesSleepers ==
  ASSUME TickLimit < TickModulus
  PROVE  Spec => []NoSleeperPassedOver
<1>1. Init => TickOrder /\ NoSleeperPassedOver
  BY KernelAssumption DEF Init, TickOrder, NoSleeperPassedOver
<1>2. IInv /\ TickOrder /\ NoSleeperPassedOver /\ [Next]_vars
        => TickOrder' /\ NoSleeperPassedOver'
  BY TickOrderStep, PassesNobody
<1> QED
  BY <1>1, <1>2, Invariance, PTL DEF Spec

-----------------------------------------------------------------------------
(* From k to m only t changes its state or its place in a queue.           *)
SameBut(k, m, t) ==
  \A u \in TCB \ {t} : m.state[u] = k.state[u] /\ m.in_ready_queue[u] = k.in_ready_queue[u]

(* Queueing t puts it in a queue and moves no other task.                  *)
LEMMA AddReadyFlags ==
  ASSUME NEW k \in ListsType, NEW t \in TCB
  PROVE  /\ k.state[t] # "TERMINATED" => AddReady(k, t).in_ready_queue[t]
         /\ SameBut(k, AddReady(k, t), t)
  BY DEF AddReady, ListsType, SameBut

(* Taking t out of its queue, in whatever state, moves no other task.      *)
LEMMA TakeReadyFlags ==
  ASSUME NEW k \in ListsType, NEW t \in TCB, NEW s \in TaskState
  PROVE  LET m == [RemoveReady(k, t) EXCEPT !.state[t] = s] IN
         m \in ListsType /\ SameBut(k, m, t) /\ SameBut(k, RemoveReady(k, t), t)
<1> DEFINE r == RemoveReady(k, t)
<1>1. r \in ListsType /\ SameBut(k, r, t)
  <2>1. CASE ~k.in_ready_queue[t]
    BY <2>1 DEF RemoveReady, SameBut
  <2>2. CASE k.in_ready_queue[t]
    <3> DEFINE n == Unlink(k, t)
    <3>1. n.next \in [TCB -> TCB \cup {NULL}] /\ n.prev \in [TCB -> TCB \cup {NULL}]
          /\ n = [k EXCEPT !.next = n.next, !.prev = n.prev]
      BY DEF Unlink, ListsType
    <3>2. r = [n EXCEPT !.in_ready_queue[t] = FALSE,
                        !.ready_queue[k.priority[t]] = IF k.prev[t] = NULL THEN k.next[t] ELSE @]
      BY <2>2 DEF RemoveReady
    <3> HIDE DEF n, r
    <3> QED BY <3>1, <3>2 DEF ListsType, SameBut
  <2> QED BY <2>1, <2>2
<1> HIDE DEF r
<1>2. [r EXCEPT !.state[t] = s] \in ListsType /\ SameBut(k, [r EXCEPT !.state[t] = s], t)
  BY <1>1 DEF ListsType, SameBut
<1> QED
  BY <1>1, <1>2 DEF r

(* A task the kernel has not lost: on the list of sleepers or in a queue.  *)
Listed(t) == lists.in_ready_queue[t] \/ lists.state[t] = "BLOCKED"

(* A task that only sleeps enters the scheduler listed, so whatever is     *)
(* dispatched in its place, it is not lost.                                *)
EntersListed == pc \in {"sched", "walk", "pick"} => current_task = Idle \/ Listed(current_task)

(* No step loses a task while tasks only sleep.                            *)
LEMMA NobodyLost ==
  ASSUME Calls \subseteq {"sleep"}, IInv, IInv', NoTaskDropped, EntersListed, [Next]_vars
  PROVE  NoTaskDropped' /\ EntersListed'
<1>1. lists \in ListsType /\ WellFormed(lists) /\ lists.state \in [TCB -> TaskState]
      /\ \A t \in TCB : lists.in_ready_queue[t] => lists.state[t] = "READY"
  BY ListsTyped DEF IInv
<1>2. Tasks \subseteq TCB /\ Idle \in TCB /\ Idle \notin Tasks /\ NULL \notin TCB
  BY TaskListsAssumption DEF TCB
<1>3. CASE UNCHANGED <<lists, task_id, current_task>> /\ (pc' = pc \/ pc \in {"sched", "walk", "pick"} \/ current_task = Idle)
  BY <1>3 DEF NoTaskDropped, EntersListed, Listed
<1>4. CASE TimerThread \/ SleepRefused \/ ScheduleNoTick \/ SchedulePendingTick \/ FinishTickHandler
           \/ KeepCurrent \/ IdleTick \/ Exited \/ UNCHANGED vars
  BY <1>3, <1>4 DEF TimerThread, TimerIncrement, TimerSetPending, SleepRefused, ScheduleNoTick,
       SchedulePendingTick, FinishTickHandler, KeepCurrent, IdleTick, Exited, vars, tcbVars, schedVars
<1>5. ASSUME NEW p \in TaskPriorities, task_create(p)  PROVE NoTaskDropped' /\ EntersListed'
  <2>1. FirstFree \in TCB /\ FirstFree \in Tasks /\ p \in Priorities
    BY <1>2, <1>5, FirstFreeIsFree, KernelAssumption DEF task_create
  <2>2. pc' = "boot" /\ current_task' = current_task
    BY <1>5 DEF task_create, MayCall, CallSchedule, SchedulerOn, schedVars, IInv, PhaseOK
  <2> DEFINE k == [lists EXCEPT !.state[FirstFree] = "READY", !.priority[FirstFree] = p,
                             !.in_ready_queue[FirstFree] = FALSE,
                             !.next[FirstFree] = NULL, !.prev[FirstFree] = NULL]
  <2>3. k \in ListsType /\ k.state[FirstFree] = "READY" /\ SameBut(lists, k, FirstFree)
    BY <1>1, <2>1 DEF ListsType, TaskState, SameBut
  <2>4. lists' = AddReady(k, FirstFree) /\ task_id' = [task_id EXCEPT ![FirstFree] = TRUE]
    BY <1>5 DEF task_create
  <2> HIDE DEF k
  <2>5. lists'.in_ready_queue[FirstFree] /\ SameBut(k, lists', FirstFree)
    BY <2>1, <2>3, <2>4, AddReadyFlags
  <2>6. \A u \in Tasks \ {FirstFree} : task_id'[u] = task_id[u]
    BY <1>2, <2>4 DEF IInv, TypeOK
  <2> QED
    BY <1>2, <2>2, <2>3, <2>5, <2>6 DEF NoTaskDropped, EntersListed, Listed, SameBut
<1>6. ASSUME NEW ms \in SleepTimes, task_sleep(ms)  PROVE NoTaskDropped' /\ EntersListed'
  <2>1. current_task \in TCB /\ current_task' = current_task /\ task_id' = task_id
        /\ lists' = PushBlocked(lists, current_task)
    BY <1>6 DEF task_sleep, MayCall, IInv, PhaseOK, schedVars
  <2>2. lists'.state = [lists.state EXCEPT ![current_task] = "BLOCKED"]
        /\ lists'.in_ready_queue = lists.in_ready_queue
    BY <1>1, <2>1 DEF PushBlocked, ListsType
  <2> QED
    BY <1>1, <1>2, <2>1, <2>2 DEF NoTaskDropped, EntersListed, Listed
<1>7. CASE kernel_start
  <2> DEFINE c == HighestReady
  <2>1. c \in TCB /\ lists.state[c] = "READY" /\ pc = "boot" /\ current_task = NULL
    BY <1>1, <1>7, HighestReadyIsReady DEF kernel_start, IInv, PhaseOK
  <2>2. lists' = [RemoveReady(lists, c) EXCEPT !.state[c] = "RUNNING"]
        /\ current_task' = c /\ task_id' = task_id /\ pc' = "app"
    BY <1>7 DEF kernel_start
  <2> HIDE DEF c
  <2>3. SameBut(lists, lists', c)
    BY <1>1, <2>1, <2>2, TakeReadyFlags DEF TaskState
  <2> QED
    BY <1>2, <2>1, <2>2, <2>3 DEF NoTaskDropped, EntersListed, Listed, SameBut
<1>8. CASE VisitSleeper
  <2>1. cursor \in TCB /\ lists.state[cursor] = "BLOCKED"
    BY <1>8 DEF IInv, TypeOK, PhaseOK, VisitSleeper
  <2>2. UNCHANGED <<task_id, current_task, pc>>
        /\ (lists' = lists \/ lists' = WakeBlocked(lists, cursor))
    BY <1>8 DEF VisitSleeper, schedVars
  <2> DEFINE r == [RemoveBlocked(lists, cursor) EXCEPT !.state[cursor] = "READY"]
  <2>3. WellFormed(r) /\ r.state = [lists.state EXCEPT ![cursor] = "READY"]
        /\ r.in_ready_queue = lists.in_ready_queue
    BY <1>1, <2>1, RemoveBlockedWellFormed DEF TaskState
  <2>4. WakeBlocked(lists, cursor) = AddReady(r, cursor)
    BY DEF WakeBlocked
  <2> HIDE DEF r
  <2>5. r \in ListsType /\ r.state[cursor] # "TERMINATED"
    BY <1>1, <2>1, <2>3 DEF WellFormed
  <2>6. \/ lists' = lists
        \/ lists'.in_ready_queue[cursor] /\ SameBut(r, lists', cursor)
    BY <2>1, <2>2, <2>4, <2>5, AddReadyFlags
  <2>7. \A u \in TCB : Listed(u) => Listed(u)'
    BY <1>1, <2>3, <2>6 DEF Listed, SameBut
  <2> QED
    BY <1>2, <2>2, <2>7 DEF NoTaskDropped, EntersListed, Listed, IInv, TypeOK, PhaseOK
<1>9. CASE PickSameTask
  <2>1. current_task \in TCB /\ UNCHANGED <<task_id, current_task>> /\ pc' \notin {"sched", "walk", "pick"}
        /\ lists' = RemoveReady(lists, current_task)
    BY <1>9 DEF PickSameTask, ReturnFromSchedule, IInv, PhaseOK, tcbVars, schedVars
  <2>2. SameBut(lists, lists', current_task)
    BY <1>1, <2>1, TakeReadyFlags DEF TaskState
  <2> QED
    BY <1>1, <1>2, <2>1, <2>2 DEF NoTaskDropped, EntersListed, Listed, SameBut
<1>10. CASE DispatchFirstRun \/ SwitchContext
  <2> DEFINE c == Candidate
             m == [RemoveReady(lists, c) EXCEPT !.state[c] = "RUNNING"]
  <2>1. c \in TCB /\ c # current_task /\ current_task \in TCB /\ pc = "pick" /\ pc' = "app"
        /\ current_task' = c /\ task_id' = task_id
    BY <1>1, <1>10, CandidateIsReady DEF DispatchFirstRun, SwitchContext, IInv, PhaseOK, tcbVars
  <2>2. current_task = Idle \/ Listed(current_task)
    BY <2>1 DEF EntersListed
  <2>3. m \in ListsType /\ SameBut(lists, m, c)
    <3> HIDE DEF c
    <3> QED BY <1>1, <2>1, TakeReadyFlags DEF TaskState
  <2>4. lists' = m \/ (lists.state[current_task] = "RUNNING"
          /\ \/ lists' = [m EXCEPT !.state[current_task] = "READY"]
             \/ lists' = AddReady([m EXCEPT !.state[current_task] = "READY"], current_task))
    BY <1>10 DEF DispatchFirstRun, SwitchContext
  <2> HIDE DEF c, m
  <2>5. \A u \in TCB \ {c, current_task} :
          lists'.state[u] = lists.state[u] /\ lists'.in_ready_queue[u] = lists.in_ready_queue[u]
    <3> DEFINE n == [m EXCEPT !.state[current_task] = "READY"]
    <3>1. n \in ListsType /\ SameBut(m, n, current_task)
      BY <2>1, <2>3 DEF ListsType, TaskState, SameBut
    <3>2. lists' = m \/ lists' = n \/ lists' = AddReady(n, current_task)
      BY <2>4
    <3> HIDE DEF n
    <3>3. SameBut(n, AddReady(n, current_task), current_task)
      BY <2>1, <3>1, AddReadyFlags
    <3> QED BY <2>3, <3>1, <3>2, <3>3 DEF SameBut
  <2>6. current_task # Idle => lists' = m
    BY <1>1, <2>1, <2>2, <2>4 DEF Listed
  <2>7. \A u \in Tasks \ {c} : Listed(u) => Listed(u)'
    BY <1>2, <2>1, <2>3, <2>5, <2>6 DEF Listed, SameBut
  <2> QED
    BY <1>2, <2>1, <2>2, <2>7 DEF NoTaskDropped, EntersListed, Listed
<1>11. CASE IdleYield
  <2>1. current_task = Idle /\ UNCHANGED <<task_id, current_task>>
        /\ (lists' = lists \/ lists' = AddReady(lists, Idle))
    BY <1>11 DEF IdleYield, Yield, tcbVars, schedVars
  <2>2. \A u \in Tasks : Listed(u) => Listed(u)'
    <3>1. SameBut(lists, AddReady(lists, Idle), Idle)
      BY <1>1, <1>2, AddReadyFlags
    <3> QED BY <1>2, <2>1, <3>1 DEF Listed, SameBut
  <2> QED
    BY <1>2, <2>1, <2>2 DEF NoTaskDropped, EntersListed, Listed
<1>12. CASE KernelCall
  <2>1. \A c \in {"delete", "suspend", "resume", "yield", "set_priority", "lock", "return"} : ~MayCall(c)
    BY DEF MayCall
  <2> QED
    BY <1>4, <1>5, <1>6, <1>12, <2>1 DEF KernelCall, task_delete, task_suspend, task_resume,
         task_yield, task_set_priority, kernel_lock_scheduler, kernel_unlock_scheduler, TaskReturns
<1> QED
  BY <1>4, <1>7, <1>8, <1>9, <1>10, <1>11, <1>12 DEF Next, kernel_schedule, IdleLoop

(* Tasks that only sleep, as those of main.c, are never dropped.           *)
THEOREM SleepersNotDropped ==
  ASSUME Calls \subseteq {"sleep"}
  PROVE  Spec => []NoTaskDropped
<1>1. Init => NoTaskDropped /\ EntersListed
  BY TaskListsAssumption DEF Init, NoTaskDropped, EntersListed, Tasks, TCB
<1>2. IInv /\ IInv' /\ NoTaskDropped /\ EntersListed /\ [Next]_vars
        => NoTaskDropped' /\ EntersListed'
  BY NobodyLost
<1> QED
  BY <1>1, <1>2, Invariance, PTL DEF Spec

-----------------------------------------------------------------------------
(***************************************************************************)
(* Kernel implements Scheduler.  A queue of Scheduler is the walk from a   *)
(* head.  First what a walk is, then what each list operation does to the  *)
(* queues, then that each step of Kernel is a step of Scheduler.           *)
(***************************************************************************)

(* A set of subsets of a finite set that is not empty has one that has no  *)
(* other inside it.                                                        *)
LEMMA SmallestSet ==
  ASSUME NEW E, IsFiniteSet(E), NEW T, T \subseteq SUBSET E, T # {}
  PROVE  \E s \in T : \A u \in T : u \subseteq s => u = s
<1>1. IsWellFoundedOn(StrictSubsetOrdering(E), SUBSET E)
  BY FS_StrictSubsetOrderingWellFounded, FS_FiniteSubsetsOfFinite
<1>2. PICK s \in T : \A u \in T : ~(<<u, s>> \in StrictSubsetOrdering(E))
  BY <1>1, WFMin
<1>3. ASSUME NEW u \in T, u \subseteq s, u # s  PROVE FALSE
  <2>1. <<u, s>> \in StrictSubsetOrdering(E)
    BY <1>3 DEF StrictSubsetOrdering
  <2> QED BY <1>2, <2>1
<1> QED BY <1>3

(* The types of a walk and of what next leads to on it.                    *)
LEMMA WalkAt ==
  ASSUME NEW k \in ListsType, NEW head, NEW q \in Seq(TCB), IsWalk(k, head, q)
  PROVE  /\ Len(q) \in Nat /\ (q = <<>> <=> Len(q) = 0)
         /\ head = (IF Len(q) = 0 THEN NULL ELSE q[1])
         /\ \A i \in 1 .. Len(q) :
              /\ q[i] \in TCB /\ q[i] # NULL
              /\ i < Len(q) => i + 1 \in 1 .. Len(q) /\ k.next[q[i]] = q[i + 1]
              /\ i = Len(q) => k.next[q[i]] = NULL
<1>1. Len(q) \in Nat /\ q \in [1 .. Len(q) -> TCB] /\ (q = <<>> <=> Len(q) = 0)
  BY LenProperties, EmptySeq
<1>2. head = (IF Len(q) = 0 THEN NULL ELSE q[1])
  BY <1>1 DEF IsWalk
<1>3. ASSUME NEW i \in 1 .. Len(q)
      PROVE  /\ q[i] \in TCB /\ q[i] # NULL
             /\ i < Len(q) => i + 1 \in 1 .. Len(q) /\ k.next[q[i]] = q[i + 1]
             /\ i = Len(q) => k.next[q[i]] = NULL
  <2>1. q[i] \in TCB /\ q[i] # NULL
    BY <1>1, TCBFinite
  <2>2. k.next[q[i]] = IF i = Len(q) THEN NULL ELSE q[i + 1]
    BY DEF IsWalk
  <2>3. i < Len(q) => i + 1 \in 1 .. Len(q) /\ i # Len(q)
    <3> DEFINE n == Len(q)
    <3>1. n \in Nat /\ i \in 1 .. n
      BY <1>1
    <3> HIDE DEF n
    <3>2. i < n => i + 1 \in 1 .. n /\ i # n
      BY <3>1
    <3> QED BY <3>2 DEF n
  <2> QED BY <2>1, <2>2, <2>3
<1> QED
  BY <1>1, <1>2, <1>3

(* Ranks grow along a walk, so that it meets no task twice.                *)
LEMMA WalkGrows ==
  ASSUME NEW k \in ListsType, NEW rank \in [TCB -> Nat], GrowsAlongNext(k, rank),
         NEW head, NEW q \in Seq(TCB), IsWalk(k, head, q),
         NEW i \in 1 .. Len(q), NEW j \in 1 .. Len(q), i < j
  PROVE  rank[q[i]] < rank[q[j]] /\ q[i] # q[j]
<1> DEFINE S == {n \in i + 1 .. Len(q) : ~(rank[q[i]] < rank[q[n]])}
<1>1. \A n \in 1 .. Len(q) : rank[q[n]] \in Nat
  BY WalkAt
<1>2. \A n \in 1 .. Len(q) : n < Len(q) => rank[q[n]] < rank[q[n + 1]]
  <2> SUFFICES ASSUME NEW n \in 1 .. Len(q), n < Len(q)  PROVE rank[q[n]] < rank[q[n + 1]]
    OBVIOUS
  <2>1. n + 1 \in 1 .. Len(q) /\ k.next[q[n]] = q[n + 1] /\ q[n] \in TCB
    BY WalkAt
  <2>2. q[n + 1] # NULL
    BY <2>1, WalkAt
  <2> QED BY <2>1, <2>2 DEF GrowsAlongNext
<1>3. S = {}
  <2> SUFFICES ASSUME S # {}  PROVE FALSE
    OBVIOUS
  <2>1. S \in SUBSET Nat
    BY WalkAt
  <2>2. PICK n \in S : \A m \in S : n <= m
    <3> HIDE DEF S
    <3> QED BY <2>1, LeastNat
  <2>3. n - 1 \in 1 .. Len(q) /\ n - 1 < Len(q) /\ (n - 1) + 1 = n /\ n \in 1 .. Len(q)
    BY <2>2, WalkAt
  <2>4. rank[q[n - 1]] < rank[q[n]]
    BY <1>2, <2>3
  <2>5. n - 1 = i \/ rank[q[i]] < rank[q[n - 1]]
    <3>1. n - 1 \notin S
      BY <2>1, <2>2
    <3> QED BY <2>2, <2>3, <3>1
  <2> QED BY <1>1, <2>2, <2>3, <2>4, <2>5
<1> QED
  BY <1>1, <1>3

(* Two walks from the same head agree as far as the first goes.            *)
LEMMA WalkPrefix ==
  ASSUME NEW k \in ListsType, NEW head, NEW q \in Seq(TCB), IsWalk(k, head, q),
         NEW r \in Seq(TCB), IsWalk(k, head, r)
  PROVE  Len(q) <= Len(r) /\ \A i \in 1 .. Len(q) : q[i] = r[i]
<1> DEFINE D == {i \in 1 .. Len(q) : ~(i <= Len(r) /\ q[i] = r[i])}
<1>1. Len(q) \in Nat /\ Len(r) \in Nat
  BY WalkAt
<1>2. D = {}
  <2> SUFFICES ASSUME D # {}  PROVE FALSE
    OBVIOUS
  <2>1. D \in SUBSET Nat
    BY <1>1
  <2>2. PICK i \in D : \A j \in D : i <= j
    <3> HIDE DEF D
    <3> QED BY <2>1, LeastNat
  <2>3. CASE i = 1
    <3>1. head = q[1] /\ q[1] # NULL
      BY <1>1, <2>2, <2>3, WalkAt
    <3>2. Len(r) # 0 /\ head = r[1]
      BY <3>1, WalkAt
    <3>3. i <= Len(r) /\ q[i] = r[i]
      BY <1>1, <2>3, <3>1, <3>2
    <3> QED BY <2>2, <3>3
  <2>4. CASE i # 1
    <3>1. i - 1 \in 1 .. Len(q) /\ i - 1 < Len(q) /\ (i - 1) + 1 = i
      BY <1>1, <2>2, <2>4
    <3>2. i - 1 <= Len(r) /\ q[i - 1] = r[i - 1]
      BY <2>1, <2>2, <3>1
    <3>3. k.next[q[i - 1]] = q[i] /\ q[i] # NULL
      BY <2>2, <3>1, WalkAt
    <3>4. i - 1 \in 1 .. Len(r)
      BY <1>1, <3>1, <3>2
    <3>5. i - 1 # Len(r)
      BY <3>2, <3>3, <3>4, WalkAt
    <3>6. i - 1 < Len(r)
      BY <1>1, <3>4, <3>5
    <3>7. k.next[r[i - 1]] = r[i]
      BY <3>1, <3>4, <3>6, WalkAt
    <3>8. i <= Len(r) /\ q[i] = r[i]
      BY <1>1, <2>1, <2>2, <3>2, <3>3, <3>6, <3>7
    <3> QED BY <2>2, <3>8
  <2> QED BY <2>3, <2>4
<1>3. \A i \in 1 .. Len(q) : i <= Len(r) /\ q[i] = r[i]
  BY <1>2
<1>4. Len(q) = 0 \/ Len(q) \in 1 .. Len(q)
  BY <1>1
<1> QED BY <1>1, <1>3, <1>4

(* There is one walk from a head.                                          *)
LEMMA WalkUnique ==
  ASSUME NEW k \in ListsType, NEW head, NEW q \in Seq(TCB), IsWalk(k, head, q),
         NEW r \in Seq(TCB), IsWalk(k, head, r)
  PROVE  q = r
<1>1. Len(q) <= Len(r) /\ \A i \in 1 .. Len(q) : q[i] = r[i]
  BY WalkPrefix
<1>2. Len(r) <= Len(q)
  BY WalkPrefix
<1>3. Len(q) \in Nat /\ Len(r) \in Nat
  BY WalkAt
<1>4. Len(q) = Len(r)
  BY <1>1, <1>2, <1>3
<1> QED BY <1>1, <1>4, SeqEqual

(* A walk over lists without circles comes to an end.                      *)
LEMMA WalkExists ==
  ASSUME NEW k, WellFormed(k), NEW head \in TCB \cup {NULL}
  PROVE  \E q \in Seq(TCB) : IsWalk(k, head, q)
<1>0. k \in ListsType
  BY DEF WellFormed
<1>1. PICK rank \in [TCB -> Nat] : GrowsAlongNext(k, rank)
  BY DEF WellFormed, Acyclic
<1> DEFINE Ends(h) == \E q \in Seq(TCB) : IsWalk(k, h, q)
           Bad == {t \in TCB : ~Ends(t)}
           Ahead(t) == {u \in TCB : rank[t] < rank[u]}
<1>2. Ends(NULL)
  <2>1. <<>> \in Seq(TCB) /\ 1 .. Len(<<>>) = {}
    BY EmptySeq
  <2>2. IsWalk(k, NULL, <<>>)
    BY <2>1 DEF IsWalk
  <2> QED BY <2>1, <2>2
<1>3. ASSUME NEW t \in TCB, Ends(k.next[t])  PROVE Ends(t)
  <2>1. PICK q \in Seq(TCB) : IsWalk(k, k.next[t], q)
    BY <1>3
  <2> DEFINE r == <<t>> \o q
  <2>2. r \in Seq(TCB) /\ Len(r) = Len(q) + 1 /\ r[1] = t
        /\ \A i \in 1 .. Len(q) : r[i + 1] = q[i]
    BY <2>1
  <2>3. Len(q) \in Nat /\ (q = <<>> <=> Len(q) = 0)
        /\ k.next[t] = (IF Len(q) = 0 THEN NULL ELSE q[1])
    BY <1>0, <2>1, WalkAt
  <2> HIDE DEF r
  <2>4. ASSUME NEW i \in 1 .. Len(r)
        PROVE  k.next[r[i]] = IF i = Len(r) THEN NULL ELSE r[i + 1]
    <3>1. CASE i = 1
      BY <2>2, <2>3, <3>1
    <3>2. CASE i # 1
      <4>1. i - 1 \in 1 .. Len(q) /\ r[i] = q[i - 1] /\ (i - 1) + 1 = i
        <5>1. i - 1 \in 1 .. Len(q) /\ (i - 1) + 1 = i
          BY <2>2, <2>3, <3>2
        <5>2. r[(i - 1) + 1] = q[i - 1]
          BY <2>2, <5>1
        <5> QED BY <5>1, <5>2
      <4>2. i - 1 < Len(q) => k.next[q[i - 1]] = q[i] /\ i \in 1 .. Len(q)
        BY <1>0, <2>1, <4>1, WalkAt
      <4>3. i - 1 = Len(q) => k.next[q[i - 1]] = NULL
        BY <1>0, <2>1, <4>1, WalkAt
      <4> QED BY <2>2, <2>3, <4>1, <4>2, <4>3
    <3> QED BY <3>1, <3>2
  <2>5. r # <<>>
    BY <2>2, <2>3
  <2>6. IsWalk(k, t, r)
    BY <2>2, <2>4, <2>5 DEF IsWalk
  <2> QED BY <2>2, <2>6
<1> HIDE DEF Ends
<1>4. Bad = {}
  <2> SUFFICES ASSUME Bad # {}  PROVE FALSE
    OBVIOUS
  <2> DEFINE T == {Ahead(t) : t \in Bad}
  <2>1. T \subseteq SUBSET TCB /\ T # {} /\ IsFiniteSet(TCB)
    <3>1. \A t \in TCB : Ahead(t) \in SUBSET TCB
      OBVIOUS
    <3> HIDE DEF Ahead
    <3> QED BY <3>1, TCBFinite
  <2>2. \E s \in T : \A u \in T : u \subseteq s => u = s
    <3> HIDE DEF T
    <3> QED BY <2>1, SmallestSet
  <2>3. PICK t \in Bad : \A u \in Bad : Ahead(u) \subseteq Ahead(t) => Ahead(u) = Ahead(t)
    <3> HIDE DEF Ahead, Bad
    <3> QED BY <2>2
  <2> DEFINE n == k.next[t]
  <2>4. n # NULL /\ ~Ends(n)
    BY <1>2, <1>3, <2>3
  <2>5. n \in TCB /\ n \in Bad /\ rank[t] < rank[n] /\ t \in TCB
    BY <1>0, <1>1, <2>3, <2>4 DEF ListsType, GrowsAlongNext
  <2>6. Ahead(n) \subseteq Ahead(t) /\ n \in Ahead(t) /\ n \notin Ahead(n)
    BY <2>5
  <2> QED BY <2>3, <2>5, <2>6
<1>5. \A t \in TCB : Ends(t)
  BY <1>4
<1> QED
  BY <1>2, <1>5 DEF Ends

(* What Walk is.                                                           *)
LEMMA WalkIs ==
  ASSUME NEW k, WellFormed(k), NEW head \in TCB \cup {NULL}, NEW q \in Seq(TCB), IsWalk(k, head, q)
  PROVE  Walk(k, head) = q
<1>0. k \in ListsType
  BY DEF WellFormed
<1>1. Len(q) \in Nat /\ q \in [1 .. Len(q) -> TCB]
  BY LenProperties
<1>2. Len(q) <= Cardinality(TCB)
  <2>1. PICK rank \in [TCB -> Nat] : GrowsAlongNext(k, rank)
    BY DEF WellFormed, Acyclic
  <2>2. \A i, j \in 1 .. Len(q) : i < j => q[i] # q[j]
    BY <1>0, <2>1, WalkGrows
  <2>3. \A i, j \in 1 .. Len(q) : q[i] = q[j] => i = j
    BY <1>1, <2>2
  <2>4. q \in Injection(1 .. Len(q), TCB)
    BY <1>1, <2>3 DEF Injection, IsInjective
  <2>5. Cardinality(1 .. Len(q)) <= Cardinality(TCB)
    BY <2>4, TCBFinite, FS_Injection
  <2>6. Cardinality(1 .. Len(q)) = Len(q)
    <3> DEFINE n == Len(q)
    <3>1. n \in Nat /\ n \in Int /\ 1 \in Int
      BY <1>1
    <3> HIDE DEF n
    <3>2. Cardinality(1 .. n) = IF 1 > n THEN 0 ELSE n - 1 + 1
      BY <3>1, FS_Interval
    <3>3. Cardinality(1 .. n) = n
      BY <3>1, <3>2
    <3> QED BY <3>3 DEF n
  <2> QED BY <2>5, <2>6
<1>3. Cardinality(TCB) \in Nat
  BY TCBFinite, FS_CardinalityType
<1> DEFINE n == CHOOSE n \in 0 .. Cardinality(TCB) : \E r \in [1 .. n -> TCB] : IsWalk(k, head, r)
<1>4. n \in 0 .. Cardinality(TCB) /\ \E r \in [1 .. n -> TCB] : IsWalk(k, head, r)
  <2>1. Len(q) \in 0 .. Cardinality(TCB)
    BY <1>1, <1>2, <1>3
  <2> QED BY <1>1, <2>1
<1> HIDE DEF n
<1>5. \A r \in [1 .. n -> TCB] : r \in Seq(TCB)
  BY <1>3, <1>4
<1>6. Walk(k, head) \in [1 .. n -> TCB] /\ IsWalk(k, head, Walk(k, head))
  BY <1>4 DEF Walk, n
<1> QED
  BY <1>0, <1>5, <1>6, WalkUnique

(* The queues of ready tasks, each in the order of its walk.               *)
Queues(k) == [p \in Priorities |-> Walk(k, k.ready_queue[p])]

(* A queue holds the tasks flagged for it, each once.                      *)
LEMMA QueueIs ==
  ASSUME NEW k, WellFormed(k), NEW p \in Priorities
  PROVE  /\ Queues(k)[p] \in Seq(TCB)
         /\ IsWalk(k, k.ready_queue[p], Queues(k)[p])
         /\ \A t \in TCB : (\E i \in 1 .. Len(Queues(k)[p]) : Queues(k)[p][i] = t)
                             <=> k.in_ready_queue[t] /\ k.priority[t] = p
         /\ \A i, j \in 1 .. Len(Queues(k)[p]) : Queues(k)[p][i] = Queues(k)[p][j] => i = j
<1> DEFINE head == k.ready_queue[p]
<1>1. k \in ListsType /\ head \in TCB \cup {NULL}
  BY DEF WellFormed, ListsType
<1>2. PICK q \in Seq(TCB) : IsWalk(k, head, q)
  <2> HIDE DEF head
  <2> QED BY <1>1, WalkExists
<1>3. Queues(k)[p] = q
  <2>1. Walk(k, head) = q
    <3> HIDE DEF head
    <3> QED BY <1>1, <1>2, WalkIs
  <2> QED BY <2>1 DEF Queues
<1>4. Chain(k, head) = {t \in TCB : k.in_ready_queue[t] /\ k.priority[t] = p}
  BY WalksMeetMembers
<1>5. PICK rank \in [TCB -> Nat] : GrowsAlongNext(k, rank)
  BY DEF WellFormed, Acyclic
<1> HIDE DEF head
<1>6. Len(q) \in Nat
  BY <1>1, <1>2, WalkAt
<1>7. \A i, j \in 1 .. Len(q) : q[i] = q[j] => i = j
  <2>1. \A i, j \in 1 .. Len(q) : i < j => q[i] # q[j]
    BY <1>1, <1>2, <1>5, WalkGrows
  <2> QED BY <1>6, <2>1
<1> DEFINE R == {q[i] : i \in 1 .. Len(q)}
<1>8. R \subseteq Chain(k, head)
  <2> DEFINE D == {i \in 1 .. Len(q) : q[i] \notin Chain(k, head)}
  <2> SUFFICES ASSUME D # {}  PROVE FALSE
    OBVIOUS
  <2>1. D \in SUBSET Nat
    BY <1>6
  <2>2. PICK i \in D : \A j \in D : i <= j
    <3> HIDE DEF D
    <3> QED BY <2>1, LeastNat
  <2>3. head \in TCB
    BY <1>1, <1>2, <1>6, <2>2, WalkAt
  <2>4. head \in Chain(k, head) /\ Closed(k, Chain(k, head))
    BY <1>1, <2>3, ChainClosed
  <2>5. i # 1
    BY <1>1, <1>2, <1>6, <2>2, <2>4, WalkAt
  <2>6. i - 1 \in 1 .. Len(q) /\ i - 1 < Len(q) /\ (i - 1) + 1 = i
    BY <1>6, <2>2, <2>5
  <2>7. q[i - 1] \in Chain(k, head)
    BY <2>1, <2>2, <2>6
  <2>8. k.next[q[i - 1]] = q[i] /\ q[i] # NULL
    BY <1>1, <1>2, <2>2, <2>6, WalkAt
  <2> QED BY <2>2, <2>4, <2>7, <2>8 DEF Closed
<1>9. Chain(k, head) \subseteq R
  <2>1. CASE head = NULL
    BY <2>1 DEF Chain
  <2>2. CASE head # NULL
    <3>1. 1 \in 1 .. Len(q) /\ head = q[1]
      BY <1>1, <1>2, <1>6, <2>2, WalkAt
    <3>2. \A i \in 1 .. Len(q) : i < Len(q) \/ i = Len(q)
      BY <1>6
    <3>3. \A i \in 1 .. Len(q) : k.next[q[i]] # NULL => k.next[q[i]] \in R
      BY <1>1, <1>2, <3>2, WalkAt
    <3>4. R \in SUBSET TCB /\ head \in R
      BY <1>1, <1>2, <3>1, WalkAt
    <3>5. Closed(k, R)
      BY <3>3 DEF Closed
    <3> HIDE DEF R
    <3> QED BY <3>4, <3>5, ChainLeast
  <2> QED BY <2>1, <2>2
<1> QED
  BY <1>2, <1>3, <1>4, <1>7, <1>8, <1>9 DEF head

(* Queues is what the heads and next spell out.                            *)
LEMMA QueuesAre ==
  ASSUME NEW m, WellFormed(m), NEW Q,
         Q = [p \in Priorities |-> Q[p]],
         \A p \in Priorities : Q[p] \in Seq(TCB) /\ IsWalk(m, m.ready_queue[p], Q[p])
  PROVE  Queues(m) = Q
<1>1. \A p \in Priorities : m.ready_queue[p] \in TCB \cup {NULL}
  BY DEF WellFormed, ListsType
<1>2. \A p \in Priorities : Walk(m, m.ready_queue[p]) = Q[p]
  BY <1>1, WalkIs
<1> QED
  BY <1>2 DEF Queues

(* A walk is the same where the links of its tasks are.                    *)
LEMMA SameWalk ==
  ASSUME NEW k, NEW m, NEW head, NEW q, IsWalk(k, head, q),
         \A i \in 1 .. Len(q) : m.next[q[i]] = k.next[q[i]]
  PROVE  IsWalk(m, head, q)
  BY DEF IsWalk

(* Nothing happens to the queues where heads and the links of queued tasks *)
(* stay.                                                                   *)
LEMMA QueuesStay ==
  ASSUME NEW k, WellFormed(k), NEW m, WellFormed(m),
         m.ready_queue = k.ready_queue,
         \A t \in TCB : k.in_ready_queue[t] => m.next[t] = k.next[t]
  PROVE  Queues(m) = Queues(k)
<1> DEFINE Q == Queues(k)
<1>1. Q = [p \in Priorities |-> Q[p]]
  BY DEF Queues
<1>2. ASSUME NEW p \in Priorities
      PROVE  Q[p] \in Seq(TCB) /\ IsWalk(m, m.ready_queue[p], Q[p])
  <2>1. /\ Q[p] \in Seq(TCB) /\ IsWalk(k, k.ready_queue[p], Q[p])
        /\ \A t \in TCB : (\E i \in 1 .. Len(Q[p]) : Q[p][i] = t)
                             <=> k.in_ready_queue[t] /\ k.priority[t] = p
    BY QueueIs
  <2>2. \A i \in 1 .. Len(Q[p]) : Q[p][i] \in TCB
    BY <2>1, WalkAt DEF WellFormed
  <2> HIDE DEF Q
  <2>3. \A i \in 1 .. Len(Q[p]) : m.next[Q[p][i]] = k.next[Q[p][i]]
    BY <2>1, <2>2
  <2> QED BY <2>1, <2>3, SameWalk
<1> HIDE DEF Q
<1> QED BY <1>1, <1>2, QueuesAre DEF Q

(* A task that is queued joins the end of the queue of its priority.       *)
LEMMA AddReadyQueues ==
  ASSUME NEW k, WellFormed(k), NEW t \in TCB, k.state[t] \in {"READY", "RUNNING"},
         ~k.in_ready_queue[t]
  PROVE  Queues(AddReady(k, t)) = [Queues(k) EXCEPT ![k.priority[t]] = Append(@, t)]
<1> DEFINE p == k.priority[t]
           head == k.ready_queue[p]
           last == Last(k, head)
           m == AddReady(k, t)
           K == Queues(k)
           Q == [K EXCEPT ![p] = Append(@, t)]
<1>1. /\ k \in ListsType /\ p \in Priorities /\ head \in TCB \cup {NULL} /\ k.next[t] = NULL
      /\ k.next \in [TCB -> TCB \cup {NULL}] /\ k.ready_queue \in [Priorities -> TCB \cup {NULL}]
  BY OffList DEF WellFormed, ListsType
<1>2. WellFormed(m)
  BY AddReadyWellFormed
<1>3. head = NULL => m.next = [k.next EXCEPT ![t] = NULL]
                     /\ m.ready_queue = [k.ready_queue EXCEPT ![p] = t]
  BY <1>1 DEF AddReady, ListsType
<1>4. head # NULL => m.next = [k.next EXCEPT ![last] = t, ![t] = NULL]
                     /\ m.ready_queue = k.ready_queue
  BY <1>1 DEF AddReady, ListsType
<1>5. \A r \in Priorities :
        /\ K[r] \in Seq(TCB) /\ IsWalk(k, k.ready_queue[r], K[r])
        /\ \A u \in TCB : (\E i \in 1 .. Len(K[r]) : K[r][i] = u)
                             <=> k.in_ready_queue[u] /\ k.priority[u] = r
        /\ \A i, j \in 1 .. Len(K[r]) : K[r][i] = K[r][j] => i = j
  BY QueueIs
<1>6. K = [r \in Priorities |-> K[r]]
  BY DEF Queues
<1> DEFINE q == K[p]
<1>7. /\ Len(q) \in Nat /\ (q = <<>> <=> Len(q) = 0) /\ q \in Seq(TCB)
      /\ head = (IF Len(q) = 0 THEN NULL ELSE q[1])
      /\ \A i \in 1 .. Len(q) :
           /\ q[i] \in TCB /\ q[i] # NULL /\ q[i] # t
           /\ i < Len(q) => i + 1 \in 1 .. Len(q) /\ k.next[q[i]] = q[i + 1]
           /\ i = Len(q) => k.next[q[i]] = NULL
  <2>1. q \in Seq(TCB) /\ IsWalk(k, head, q)
    BY <1>1, <1>5
  <2>2. \A i \in 1 .. Len(q) : q[i] # t
    BY <1>1, <1>5
  <2> HIDE DEF q, head
  <2> QED BY <1>1, <2>1, <2>2, WalkAt
<1>8. head # NULL => last = q[Len(q)] /\ k.in_ready_queue[last] /\ k.priority[last] = p
  <2> SUFFICES ASSUME head # NULL PROVE last = q[Len(q)] /\ k.in_ready_queue[last] /\ k.priority[last] = p
    OBVIOUS
  <2>1. Chain(k, head) = {u \in TCB : k.in_ready_queue[u] /\ k.priority[u] = p}
    BY <1>1, WalksMeetMembers
  <2>2. last \in Chain(k, head) /\ k.next[last] = NULL
    <3>1. head \in TCB /\ k.prev[head] = NULL /\ LinksOK(k)
      BY <1>1 DEF WellFormed, ListsOK, HeadsOK
    <3> HIDE DEF head
    <3> QED BY <1>1, <3>1, LastExists
  <2>3. last \in TCB /\ k.in_ready_queue[last] /\ k.priority[last] = p
    <3> HIDE DEF last, head
    <3> QED BY <2>1, <2>2
  <2>4. PICK i \in 1 .. Len(q) : q[i] = last
    <3> HIDE DEF last
    <3> QED BY <1>1, <1>5, <2>3
  <2>5. i < Len(q) => k.next[q[i]] # NULL
    <3> HIDE DEF q, last, head
    <3> QED BY <1>7
  <2>6. i = Len(q)
    <3> HIDE DEF q, last, head
    <3> QED BY <1>7, <2>2, <2>4, <2>5
  <2> QED BY <2>3, <2>4, <2>6
<1>9. ASSUME NEW r \in Priorities, r # p
      PROVE  Q[r] \in Seq(TCB) /\ IsWalk(m, m.ready_queue[r], Q[r])
  <2>1. Q[r] = K[r] /\ K[r] \in Seq(TCB) /\ IsWalk(k, k.ready_queue[r], K[r])
    BY <1>5, <1>6, <1>9
  <2>2. m.ready_queue[r] = k.ready_queue[r]
    <3> HIDE DEF m, head, p
    <3> QED BY <1>1, <1>3, <1>4, <1>9
  <2>3. ASSUME NEW i \in 1 .. Len(K[r])  PROVE m.next[K[r][i]] = k.next[K[r][i]]
    <3> DEFINE u == K[r][i]
    <3>1. u \in TCB
      BY <1>1, <2>1, WalkAt
    <3>2. k.in_ready_queue[u] /\ k.priority[u] = r
      BY <1>5, <3>1
    <3>3. u # t /\ (head # NULL => u # last)
      <4> HIDE DEF u, last, head, q
      <4> QED BY <1>8, <1>9, <3>2
    <3> HIDE DEF u, last, head, m
    <3>4. m.next[u] = k.next[u]
      BY <1>1, <1>3, <1>4, <3>1, <3>3
    <3> QED BY <3>4 DEF u
  <2> HIDE DEF m, Q, K
  <2> QED BY <2>1, <2>2, <2>3, SameWalk
<1>10. Q[p] \in Seq(TCB) /\ IsWalk(m, m.ready_queue[p], Q[p])
  <2> DEFINE n == Append(q, t)
  <2>1. Q[p] = n
    BY <1>1, <1>6
  <2>2. /\ n \in Seq(TCB) /\ n # <<>> /\ Len(n) = Len(q) + 1 /\ n[Len(q) + 1] = t
        /\ \A i \in 1 .. Len(q) : n[i] = q[i]
    <3> HIDE DEF q
    <3> QED BY <1>7, AppendProperties
  <2> HIDE DEF m, n, q, head, last, p, Q
  <2>3. m.ready_queue[p] = n[1]
    <3>1. CASE head = NULL
      BY <1>1, <1>3, <1>7, <2>2, <3>1
    <3>2. CASE head # NULL
      <4>1. 1 \in 1 .. Len(q) /\ head = q[1]
        BY <1>7, <3>2
      <4>2. m.ready_queue[p] = head
        BY <1>4, <3>2 DEF head
      <4> QED BY <2>2, <4>1, <4>2
    <3> QED BY <3>1, <3>2
  <2>4. ASSUME NEW i \in 1 .. Len(n)
        PROVE  m.next[n[i]] = IF i = Len(n) THEN NULL ELSE n[i + 1]
    <3>1. CASE i = Len(n)
      <4>1. n[i] = t
        BY <2>2, <3>1
      <4>2. m.next[t] = NULL
        BY <1>1, <1>3, <1>4
      <4> QED BY <3>1, <4>1, <4>2
    <3>2. CASE i # Len(n)
      <4>1. i \in 1 .. Len(q) /\ n[i] = q[i] /\ (i < Len(q) \/ i = Len(q))
        BY <1>7, <2>2, <3>2
      <4>2. head # NULL
        BY <1>7, <4>1
      <4>3. CASE i = Len(q)
        <5>1. n[i] = last /\ last \in TCB /\ last # t
          BY <1>7, <1>8, <4>1, <4>2, <4>3
        <5>2. m.next[last] = t
          BY <1>1, <1>4, <4>2, <5>1
        <5> QED BY <2>2, <3>2, <4>3, <5>1, <5>2
      <4>4. CASE i < Len(q)
        <5>1. i + 1 \in 1 .. Len(q) /\ k.next[q[i]] = q[i + 1] /\ q[i] # t /\ q[i] \in TCB
          BY <1>7, <4>1, <4>4
        <5>2. q[i] # last
          <6>1. Len(q) \in 1 .. Len(q) /\ i # Len(q)
            BY <1>7, <4>1, <4>4
          <6> QED BY <1>1, <1>5, <1>8, <4>1, <4>2, <6>1 DEF q
        <5>3. m.next[q[i]] = q[i + 1]
          BY <1>1, <1>4, <4>2, <5>1, <5>2
        <5> QED BY <2>2, <3>2, <4>1, <5>1, <5>3
      <4> QED BY <4>1, <4>3, <4>4
    <3> QED BY <3>1, <3>2
  <2> QED BY <2>1, <2>2, <2>3, <2>4 DEF IsWalk
<1> HIDE DEF m, K, p
<1>11. Q = [r \in Priorities |-> Q[r]]
  BY <1>6
<1>12. \A r \in Priorities : Q[r] \in Seq(TCB) /\ IsWalk(m, m.ready_queue[r], Q[r])
  <2> HIDE DEF Q
  <2> QED BY <1>9, <1>10
<1>13. Queues(m) = Q
  <2> HIDE DEF Q
  <2> QED BY <1>2, <1>11, <1>12, QueuesAre
<1> QED BY <1>13 DEF m, K, p

(* Without takes one element out and closes the gap.                       *)
LEMMA WithoutIs ==
  ASSUME NEW q \in Seq(TCB), NEW at \in 1 .. Len(q),
         \A i, j \in 1 .. Len(q) : q[i] = q[j] => i = j
  PROVE  /\ Abstract!Without(q, q[at]) \in Seq(TCB)
         /\ Len(Abstract!Without(q, q[at])) = Len(q) - 1
         /\ \A i \in 1 .. Len(q) - 1 :
              Abstract!Without(q, q[at])[i] = IF i < at THEN q[i] ELSE q[i + 1]
<1> DEFINE n == Len(q)
           r == [i \in 1 .. n - 1 |-> IF i < at THEN q[i] ELSE q[i + 1]]
<1>1. n \in Nat /\ \A i \in 1 .. n : q[i] \in TCB
  BY LenProperties
<1>2. (CHOOSE i \in 1 .. n : q[i] = q[at] /\ \A j \in 1 .. i - 1 : q[j] # q[at]) = at
  <2>1. \A j \in 1 .. at - 1 : q[j] # q[at]
    BY <1>1
  <2>2. \A i \in 1 .. n : q[i] = q[at] => i = at
    OBVIOUS
  <2> QED BY <2>1, <2>2
<1>3. Abstract!Without(q, q[at]) = r
  BY <1>2 DEF Abstract!Without
<1> HIDE DEF n
<1>4. at \in 1 .. n
  BY DEF n
<1>5. n - 1 \in Nat
  BY <1>1, <1>4
<1>6. \A i \in 1 .. n - 1 : i \in 1 .. n /\ i + 1 \in 1 .. n
  BY <1>1
<1>7. r \in [1 .. n - 1 -> TCB]
  BY <1>1, <1>6
<1>8. r \in Seq(TCB) /\ Len(r) = n - 1
  <2> HIDE DEF r
  <2> QED BY <1>5, <1>7, LenProperties
<1> QED
  BY <1>3, <1>8 DEF n

(* So does unlinking, on a walk.                                           *)
LEMMA WalkWithout ==
  ASSUME NEW k \in ListsType, NEW m \in ListsType, NEW head, NEW q \in Seq(TCB), IsWalk(k, head, q),
         NEW at \in 1 .. Len(q), \A i, j \in 1 .. Len(q) : q[i] = q[j] => i = j,
         \A i \in 1 .. Len(q) : i # at =>
           m.next[q[i]] = IF i + 1 = at THEN k.next[q[at]] ELSE k.next[q[i]],
         NEW start, start = IF at = 1 THEN k.next[q[at]] ELSE head
  PROVE  /\ Abstract!Without(q, q[at]) \in Seq(TCB)
         /\ IsWalk(m, start, Abstract!Without(q, q[at]))
<1> DEFINE n == Len(q)
           r == Abstract!Without(q, q[at])
<1>1. /\ n \in Nat /\ (q = <<>> <=> n = 0)
      /\ head = (IF n = 0 THEN NULL ELSE q[1])
      /\ \A i \in 1 .. n :
           /\ q[i] \in TCB /\ q[i] # NULL
           /\ i < n => i + 1 \in 1 .. n /\ k.next[q[i]] = q[i + 1]
           /\ i = n => k.next[q[i]] = NULL
  BY WalkAt
<1>2. /\ r \in Seq(TCB) /\ Len(r) = n - 1
      /\ \A i \in 1 .. n - 1 : r[i] = IF i < at THEN q[i] ELSE q[i + 1]
  BY WithoutIs
<1>3. at \in 1 .. n
      /\ \A i \in 1 .. n : i # at => m.next[q[i]] = IF i + 1 = at THEN k.next[q[at]] ELSE k.next[q[i]]
  OBVIOUS
<1> HIDE DEF n, r
<1>4. r = <<>> <=> n = 1
  BY <1>1, <1>2, EmptySeq
<1>5. start = IF n = 1 THEN NULL ELSE r[1]
  <2>1. CASE at = 1
    <3>1. at < n => n > 1 /\ 1 \in 1 .. n - 1 /\ ~(1 < at)
      BY <1>1, <2>1
    <3>2. at < n \/ at = n
      BY <1>1, <1>3
    <3>3. at < n => start = q[2] /\ r[1] = q[2]
      BY <1>1, <1>2, <1>3, <2>1, <3>1
    <3>4. at = n => start = NULL /\ n = 1
      BY <1>1, <1>3, <2>1
    <3> QED BY <2>1, <3>1, <3>2, <3>3, <3>4
  <2>2. CASE at # 1
    <3>1. n # 1 /\ n # 0 /\ 1 \in 1 .. n - 1 /\ 1 < at
      BY <1>1, <1>3, <2>2
    <3>2. r[1] = q[1]
      BY <1>2, <3>1
    <3> QED BY <1>1, <2>2, <3>1, <3>2
  <2> QED BY <2>1, <2>2
<1>6. ASSUME NEW i \in 1 .. n - 1
      PROVE  m.next[r[i]] = IF i = n - 1 THEN NULL ELSE r[i + 1]
  <2>1. i \in 1 .. n /\ i + 1 \in 1 .. n /\ i < n /\ (i # n - 1 => i + 1 \in 1 .. n - 1)
    BY <1>1
  <2>2. CASE i + 1 < at
    <3>1. r[i] = q[i] /\ i # at /\ i + 1 # at /\ i # n - 1
      BY <1>1, <1>2, <1>3, <2>1, <2>2
    <3>2. r[i + 1] = q[i + 1]
      BY <1>2, <2>1, <2>2, <3>1
    <3> QED BY <1>1, <1>3, <2>1, <3>1, <3>2
  <2>3. CASE i + 1 = at
    <3>1. r[i] = q[i] /\ i # at /\ ~(i + 1 < at)
      BY <1>1, <1>2, <1>3, <2>1, <2>3
    <3>2. m.next[r[i]] = k.next[q[at]]
      BY <1>3, <2>1, <2>3, <3>1
    <3>3. i = n - 1 <=> at = n
      BY <1>1, <2>3
    <3>4. i # n - 1 => r[i + 1] = q[at + 1] /\ at < n
      BY <1>1, <1>2, <1>3, <2>1, <2>3, <3>1
    <3> QED BY <1>1, <1>3, <3>2, <3>3, <3>4
  <2>4. CASE i + 1 > at
    <3>1. r[i] = q[i + 1] /\ i + 1 # at /\ (i + 1) + 1 # at /\ ~(i + 1 < at)
      BY <1>1, <1>2, <1>3, <2>1, <2>4
    <3>2. m.next[r[i]] = k.next[q[i + 1]]
      BY <1>3, <2>1, <3>1
    <3>3. i # n - 1 => r[i + 1] = q[(i + 1) + 1] /\ i + 1 < n
      BY <1>1, <1>2, <2>1, <3>1
    <3>4. i = n - 1 => i + 1 = n
      BY <1>1
    <3> QED BY <1>1, <2>1, <3>2, <3>3, <3>4
  <2> QED BY <1>1, <1>3, <2>1, <2>2, <2>3, <2>4
<1>7. IsWalk(m, start, r)
  BY <1>2, <1>4, <1>5, <1>6 DEF IsWalk
<1> QED
  BY <1>2, <1>7 DEF r

(* A task that is taken off its queue leaves the others in their order.    *)
LEMMA RemoveReadyQueues ==
  ASSUME NEW k, WellFormed(k), NEW t \in TCB, k.in_ready_queue[t]
  PROVE  Queues(RemoveReady(k, t))
           = [Queues(k) EXCEPT ![k.priority[t]] = Abstract!Without(@, t)]
<1> DEFINE p == k.priority[t]
           head == k.ready_queue[p]
           a == k.prev[t]
           b == k.next[t]
           m == RemoveReady(k, t)
           K == Queues(k)
           Q == [K EXCEPT ![p] = Abstract!Without(@, t)]
<1>1. /\ k \in ListsType /\ HeadsOK(k) /\ LinksOK(k)
      /\ p \in Priorities /\ k.priority \in [TCB -> Priorities]
      /\ a \in TCB \cup {NULL} /\ b \in TCB \cup {NULL}
      /\ k.next \in [TCB -> TCB \cup {NULL}] /\ k.ready_queue \in [Priorities -> TCB \cup {NULL}]
  BY DEF WellFormed, ListsType, ListsOK
<1>2. WellFormed(m) /\ m \in ListsType
  BY RemoveReadyWellFormed DEF WellFormed
<1>3. /\ m.next = [u \in TCB |-> IF u = t THEN NULL ELSE IF u = a THEN b ELSE k.next[u]]
      /\ m.ready_queue = [k.ready_queue EXCEPT ![p] = IF a = NULL THEN b ELSE @]
  BY <1>1 DEF RemoveReady, Unlink, ListsType
<1>4. \A r \in Priorities :
        /\ K[r] \in Seq(TCB) /\ IsWalk(k, k.ready_queue[r], K[r])
        /\ \A u \in TCB : (\E i \in 1 .. Len(K[r]) : K[r][i] = u)
                             <=> k.in_ready_queue[u] /\ k.priority[u] = r
        /\ \A i, j \in 1 .. Len(K[r]) : K[r][i] = K[r][j] => i = j
  BY QueueIs
<1>5. K = [r \in Priorities |-> K[r]]
  BY DEF Queues
<1>6. a # NULL => a \in TCB /\ k.next[a] = t /\ k.in_ready_queue[a] /\ k.priority[a] = p
  <2> SUFFICES ASSUME a # NULL
        PROVE a \in TCB /\ k.next[a] = t /\ k.in_ready_queue[a] /\ k.priority[a] = p
    OBVIOUS
  <2>1. a \in TCB /\ k.next[a] = t /\ SameList(k, t, a)
    BY <1>1 DEF LinksOK
  <2>2. k.state[t] = "READY"
    BY <1>1 DEF LinksOK
  <2> QED BY <2>1, <2>2 DEF SameList
<1> HIDE DEF m, a, b, K
<1>7. ASSUME NEW r \in Priorities, r # p
      PROVE  Q[r] \in Seq(TCB) /\ IsWalk(m, m.ready_queue[r], Q[r])
  <2>1. Q[r] = K[r] /\ K[r] \in Seq(TCB) /\ IsWalk(k, k.ready_queue[r], K[r])
    BY <1>4, <1>5, <1>7
  <2>2. m.ready_queue[r] = k.ready_queue[r]
    BY <1>1, <1>3, <1>7
  <2>3. ASSUME NEW i \in 1 .. Len(K[r])  PROVE m.next[K[r][i]] = k.next[K[r][i]]
    <3> DEFINE u == K[r][i]
    <3>1. u \in TCB
      BY <1>1, <2>1, WalkAt
    <3>2. k.in_ready_queue[u] /\ k.priority[u] = r
      BY <1>4, <3>1
    <3>3. u # t /\ u # a
      BY <1>6, <1>7, <3>1, <3>2, TCBFinite
    <3> HIDE DEF u
    <3>4. m.next[u] = k.next[u]
      BY <1>3, <3>1, <3>3
    <3> QED BY <3>4 DEF u
  <2> HIDE DEF Q
  <2> QED BY <2>1, <2>2, <2>3, SameWalk
<1>8. Q[p] \in Seq(TCB) /\ IsWalk(m, m.ready_queue[p], Q[p])
  <2> DEFINE q == K[p]
  <2>1. /\ q \in Seq(TCB) /\ IsWalk(k, head, q)
        /\ \A i, j \in 1 .. Len(q) : q[i] = q[j] => i = j
        /\ \A u \in TCB : (\E i \in 1 .. Len(q) : q[i] = u)
                             <=> k.in_ready_queue[u] /\ k.priority[u] = p
    BY <1>1, <1>4
  <2>2. Q[p] = Abstract!Without(q, t)
    BY <1>1, <1>5
  <2> HIDE DEF q, Q
  <2>3. PICK at \in 1 .. Len(q) : q[at] = t
    BY <2>1
  <2> HIDE DEF head
  <2>4. /\ Len(q) \in Nat /\ head = (IF Len(q) = 0 THEN NULL ELSE q[1])
        /\ \A i \in 1 .. Len(q) :
             /\ q[i] \in TCB /\ q[i] # NULL
             /\ i < Len(q) => i + 1 \in 1 .. Len(q) /\ k.next[q[i]] = q[i + 1]
             /\ i = Len(q) => k.next[q[i]] = NULL
    BY <1>1, <2>1, WalkAt
  <2>5. at = 1 => a = NULL
    <3> SUFFICES ASSUME at = 1, a # NULL PROVE FALSE
      OBVIOUS
    <3>1. head = t /\ head # NULL
      BY <2>3, <2>4
    <3>2. k.prev[t] = NULL
      BY <1>1, <3>1 DEF HeadsOK, head
    <3> QED BY <3>2 DEF a
  <2>6. at # 1 => a = q[at - 1] /\ a # NULL /\ at - 1 \in 1 .. Len(q)
    <3> SUFFICES ASSUME at # 1 PROVE a = q[at - 1] /\ a # NULL /\ at - 1 \in 1 .. Len(q)
      OBVIOUS
    <3>1. at - 1 \in 1 .. Len(q) /\ at - 1 < Len(q) /\ (at - 1) + 1 = at
      BY <2>3, <2>4
    <3>2. k.next[q[at - 1]] = t /\ q[at - 1] \in TCB /\ q[at - 1] # NULL
      BY <2>3, <2>4, <3>1
    <3>3. k.prev[t] = q[at - 1]
      BY <1>1, <3>2, TCBFinite DEF LinksOK
    <3> QED BY <3>1, <3>2, <3>3 DEF a
  <2>7. m.ready_queue[p] = IF at = 1 THEN k.next[q[at]] ELSE head
    BY <1>1, <1>3, <2>3, <2>5, <2>6 DEF a, b, head
  <2>8. ASSUME NEW i \in 1 .. Len(q), i # at
        PROVE  m.next[q[i]] = IF i + 1 = at THEN k.next[q[at]] ELSE k.next[q[i]]
    <3>1. q[i] # t /\ q[i] \in TCB /\ q[i] # NULL
      BY <2>1, <2>3, <2>4, <2>8
    <3>2. i + 1 = at <=> q[i] = a
      <4>1. CASE at = 1
        BY <2>4, <2>5, <3>1, <4>1
      <4>2. CASE at # 1
        <5>1. i = at - 1 <=> q[i] = q[at - 1]
          BY <2>1, <2>6, <4>2
        <5>2. i = at - 1 <=> i + 1 = at
          BY <2>4
        <5> QED BY <2>6, <4>2, <5>1, <5>2
      <4> QED BY <4>1, <4>2
    <3>3. m.next[q[i]] = IF q[i] = a THEN b ELSE k.next[q[i]]
      BY <1>3, <3>1
    <3>4. b = k.next[q[at]]
      BY <2>3 DEF b
    <3> QED BY <3>2, <3>3, <3>4
  <2>9. /\ Abstract!Without(q, q[at]) \in Seq(TCB)
        /\ IsWalk(m, m.ready_queue[p], Abstract!Without(q, q[at]))
    BY <1>1, <1>2, <2>1, <2>7, <2>8, WalkWithout
  <2> QED BY <2>2, <2>3, <2>9
<1>9. Q = [r \in Priorities |-> Q[r]]
  BY <1>5
<1>10. \A r \in Priorities : Q[r] \in Seq(TCB) /\ IsWalk(m, m.ready_queue[r], Q[r])
  <2> HIDE DEF Q
  <2> QED BY <1>7, <1>8
<1>11. Queues(m) = Q
  <2> HIDE DEF Q
  <2> QED BY <1>2, <1>9, <1>10, QueuesAre
<1> QED BY <1>11 DEF m, K

(* The head of a queue leaves its tail behind.                             *)
LEMMA WithoutHead ==
  ASSUME NEW q \in Seq(TCB), q # <<>>, \A i, j \in 1 .. Len(q) : q[i] = q[j] => i = j
  PROVE  Abstract!Without(q, q[1]) = Tail(q) /\ Head(q) = q[1]
<1>1. Len(q) \in Nat /\ 1 \in 1 .. Len(q)
  BY EmptySeq, LenProperties
<1> DEFINE r == Abstract!Without(q, q[1])
<1>2. /\ r \in Seq(TCB) /\ Len(r) = Len(q) - 1
      /\ \A i \in 1 .. Len(q) - 1 : r[i] = IF i < 1 THEN q[i] ELSE q[i + 1]
  BY <1>1, WithoutIs
<1>3. /\ Tail(q) \in Seq(TCB) /\ Len(Tail(q)) = Len(q) - 1 /\ Head(q) = q[1]
      /\ \A i \in 1 .. Len(q) - 1 : Tail(q)[i] = q[i + 1]
  BY HeadTailProperties
<1> HIDE DEF r
<1>4. \A i \in 1 .. Len(q) - 1 : r[i] = Tail(q)[i]
  BY <1>1, <1>2, <1>3
<1>5. r = Tail(q)
  <2>1. Len(r) = Len(Tail(q)) /\ \A i \in 1 .. Len(r) : r[i] = Tail(q)[i]
    BY <1>2, <1>3, <1>4
  <2> QED BY <1>2, <1>3, <2>1, SeqEqual
<1> QED BY <1>3, <1>5 DEF r

(* The queues with t taken out of its own.                                 *)
Left(k, t) == [Queues(k) EXCEPT ![k.priority[t]] = Abstract!Without(@, t)]

(* The queues with t at the end of the queue of priority p.                *)
Joined(Q, t, p) == [Q EXCEPT ![p] = Append(@, t)]

(* A task leaves its queue, if it is in one, and gets another state.       *)
LEMMA TakeReadyQueues ==
  ASSUME NEW k, WellFormed(k), NEW t \in TCB, k.state[t] # "BLOCKED",
         NEW s \in TaskState \ {"BLOCKED"}
  PROVE  Queues([RemoveReady(k, t) EXCEPT !.state[t] = s])
           = IF k.in_ready_queue[t] THEN Left(k, t) ELSE Queues(k)
<1> DEFINE m == RemoveReady(k, t)
           r == [m EXCEPT !.state[t] = s]
<1>1. WellFormed(m) /\ WellFormed(r)
  BY RemoveReadyWellFormed, TakeReadyWellFormed
<1>2. r.ready_queue = m.ready_queue /\ r.next = m.next
  <2> HIDE DEF m
  <2> QED BY <1>1 DEF WellFormed, ListsType
<1>3. Queues(r) = Queues(m)
  <2> HIDE DEF r, m
  <2> QED BY <1>1, <1>2, QueuesStay
<1>4. Queues(m) = IF k.in_ready_queue[t] THEN Left(k, t) ELSE Queues(k)
  BY RemoveReadyQueues DEF Left, RemoveReady
<1> QED
  BY <1>3, <1>4

(* A task that is in no queue gets another state or priority.              *)
LEMMA SetFieldQueues ==
  ASSUME NEW k, WellFormed(k), NEW m, WellFormed(m),
         m.ready_queue = k.ready_queue, m.next = k.next
  PROVE  Queues(m) = Queues(k)
  BY QueuesStay

(* Sleepers come and go without touching a queue.                          *)
LEMMA UnblockedNext ==
  ASSUME NEW k, WellFormed(k), NEW t \in TCB, k.state[t] = "BLOCKED",
         NEW u \in TCB, k.in_ready_queue[u]
  PROVE  RemoveBlocked(k, t).next[u] = k.next[u] /\ u # t
<1> DEFINE a == k.prev[t]
<1>1. k \in ListsType /\ LinksOK(k)
  BY DEF WellFormed, ListsOK
<1>2. k.state[u] = "READY" /\ ~k.in_ready_queue[t]
  BY <1>1 DEF LinksOK
<1>3. u # a
  <2>1. a # NULL => SameList(k, t, a)
    BY <1>1 DEF LinksOK
  <2>2. u # NULL
    BY TCBFinite
  <2> QED BY <1>2, <2>1, <2>2 DEF SameList
<1>4. RemoveBlocked(k, t).next = [v \in TCB |-> IF v = t THEN NULL
                                                ELSE IF v = a THEN k.next[t] ELSE k.next[v]]
  BY <1>1 DEF RemoveBlocked, Unlink, ListsType
<1> HIDE DEF a
<1> QED
  BY <1>2, <1>3, <1>4

(* A sleeper that wakes joins the end of the queue of its priority.        *)
LEMMA WakeBlockedQueues ==
  ASSUME NEW k, WellFormed(k), NEW t \in TCB, k.state[t] = "BLOCKED"
  PROVE  Queues(WakeBlocked(k, t)) = Joined(Queues(k), t, k.priority[t])
<1> DEFINE off == RemoveBlocked(k, t)
           r == [off EXCEPT !.state[t] = "READY"]
<1>1. /\ WellFormed(r) /\ r.in_ready_queue = k.in_ready_queue /\ ~r.in_ready_queue[t]
      /\ r.state = [k.state EXCEPT ![t] = "READY"]
  BY RemoveBlockedWellFormed DEF TaskState
<1>2. k \in ListsType
  BY DEF WellFormed
<1>3. r.ready_queue = k.ready_queue /\ r.next = off.next /\ r.priority = k.priority
  BY <1>2 DEF RemoveBlocked, Unlink, ListsType
<1>4. \A u \in TCB : k.in_ready_queue[u] => off.next[u] = k.next[u]
  BY UnblockedNext
<1>5. r.state[t] = "READY"
  BY <1>1, <1>2 DEF ListsType
<1>6. WakeBlocked(k, t) = AddReady(r, t)
  BY DEF WakeBlocked
<1> HIDE DEF r, off
<1>7. Queues(r) = Queues(k)
  BY <1>1, <1>3, <1>4, QueuesStay
<1>8. Queues(AddReady(r, t)) = [Queues(r) EXCEPT ![r.priority[t]] = Append(@, t)]
  BY <1>1, <1>5, AddReadyQueues
<1> QED
  BY <1>3, <1>6, <1>7, <1>8 DEF Joined

(* Falling asleep changes no queue.                                        *)
LEMMA PushBlockedQueues ==
  ASSUME NEW k, WellFormed(k), NEW t \in TCB, ~k.in_ready_queue[t], k.state[t] # "BLOCKED"
  PROVE  Queues(PushBlocked(k, t)) = Queues(k)
<1> DEFINE r == PushBlocked(k, t)
<1>1. WellFormed(r)
  BY PushBlockedWellFormed
<1>2. r.ready_queue = k.ready_queue /\ r.next = [k.next EXCEPT ![t] = k.blocked_list]
  BY DEF PushBlocked, WellFormed, ListsType
<1>3. \A u \in TCB : k.in_ready_queue[u] => r.next[u] = k.next[u]
  <2> HIDE DEF r
  <2> QED BY <1>2 DEF WellFormed, ListsType
<1> HIDE DEF r
<1>4. Queues(r) = Queues(k)
  BY <1>1, <1>2, <1>3, QueuesStay
<1> QED
  BY <1>4 DEF r

(* A task that is deleted leaves its queue, if it is in one.               *)
LEMMA CleanupQueues ==
  ASSUME NEW k, WellFormed(k), NEW t \in TCB
  PROVE  Queues(Cleanup(k, t)) = IF k.in_ready_queue[t] THEN Left(k, t) ELSE Queues(k)
<1> DEFINE off == IF k.in_ready_queue[t] THEN RemoveReady(k, t)
                  ELSE IF k.state[t] = "BLOCKED" THEN RemoveBlocked(k, t) ELSE k
           c == Cleanup(k, t)
<1>1. WellFormed(c)
  BY CleanupWellFormed
<1>2. k \in ListsType
  BY DEF WellFormed
<1>3. off \in ListsType
  <2>1. WellFormed(RemoveReady(k, t))
    BY RemoveReadyWellFormed
  <2>2. RemoveBlocked(k, t) \in ListsType
    <3>1. Unlinked(k, t, Unlink(k, t))
      BY UnlinkLinks
    <3> QED BY <1>2, <3>1 DEF RemoveBlocked, Unlinked, ListsType
  <2> HIDE DEF c
  <2> QED BY <1>2, <2>1, <2>2 DEF WellFormed
<1>4. c.ready_queue = off.ready_queue /\ c.next = [off.next EXCEPT ![t] = NULL]
  <2>1. c = [off EXCEPT !.state[t] = "TERMINATED", !.in_ready_queue[t] = FALSE,
                        !.next[t] = NULL, !.prev[t] = NULL]
    BY DEF Cleanup
  <2> HIDE DEF c, off
  <2> QED BY <1>3, <2>1 DEF ListsType
<1>5. \A u \in TCB : u # t => c.next[u] = off.next[u]
  <2> HIDE DEF c, off
  <2> QED BY <1>3, <1>4 DEF ListsType
<1>6. CASE k.in_ready_queue[t]
  <2>1. off = RemoveReady(k, t)
    BY <1>6
  <2> HIDE DEF off, c
  <2>2. WellFormed(off) /\ ~off.in_ready_queue[t]
    BY <2>1, RemoveReadyWellFormed
  <2>3. \A u \in TCB : off.in_ready_queue[u] => c.next[u] = off.next[u]
    BY <1>5, <2>2
  <2>4. Queues(c) = Queues(off)
    BY <1>1, <1>4, <2>2, <2>3, QueuesStay
  <2>5. Queues(off) = Left(k, t)
    BY <1>6, <2>1, RemoveReadyQueues DEF Left
  <2> QED BY <1>6, <2>4, <2>5 DEF c
<1>7. CASE ~k.in_ready_queue[t]
  <2>1. off.ready_queue = k.ready_queue
        /\ \A u \in TCB : k.in_ready_queue[u] => off.next[u] = k.next[u] /\ u # t
    <3>1. CASE k.state[t] = "BLOCKED"
      <4>1. off = RemoveBlocked(k, t)
        BY <1>7, <3>1
      <4>2. off.ready_queue = k.ready_queue
        BY <1>2, <4>1 DEF RemoveBlocked, Unlink, ListsType
      <4> QED BY <3>1, <4>1, <4>2, UnblockedNext
    <3>2. CASE k.state[t] # "BLOCKED"
      BY <1>7, <3>2
    <3> QED BY <3>1, <3>2
  <2> HIDE DEF off, c
  <2>2. \A u \in TCB : k.in_ready_queue[u] => c.next[u] = k.next[u]
    BY <1>5, <2>1
  <2>3. Queues(c) = Queues(k)
    BY <1>1, <1>4, <2>1, <2>2, QueuesStay
  <2> QED BY <1>7, <2>3 DEF c
<1> QED
  BY <1>6, <1>7

(* A task that is created joins the end of the queue of its priority.      *)
LEMMA CreateQueues ==
  ASSUME NEW k, WellFormed(k), NEW t \in TCB, NEW p \in Priorities,
         ~k.in_ready_queue[t], k.state[t] # "BLOCKED"
  PROVE  LET r == [k EXCEPT !.state[t] = "READY", !.priority[t] = p,
                            !.in_ready_queue[t] = FALSE, !.next[t] = NULL, !.prev[t] = NULL]
         IN  Queues(AddReady(r, t)) = Joined(Queues(k), t, p)
<1> DEFINE r == [k EXCEPT !.state[t] = "READY", !.priority[t] = p,
                          !.in_ready_queue[t] = FALSE, !.next[t] = NULL, !.prev[t] = NULL]
<1>1. WellFormed(r)
  BY CreateWellFormed
<1>2. k \in ListsType
  BY DEF WellFormed
<1>3. /\ r.ready_queue = k.ready_queue /\ r.next = [k.next EXCEPT ![t] = NULL]
      /\ r.priority[t] = p /\ r.state[t] = "READY" /\ ~r.in_ready_queue[t]
  BY <1>2 DEF ListsType
<1> HIDE DEF r
<1>4. \A u \in TCB : k.in_ready_queue[u] => r.next[u] = k.next[u]
  BY <1>2, <1>3 DEF ListsType
<1>5. Queues(r) = Queues(k)
  BY <1>1, <1>3, <1>4, QueuesStay
<1>6. Queues(AddReady(r, t)) = [Queues(r) EXCEPT ![r.priority[t]] = Append(@, t)]
  BY <1>1, <1>3, AddReadyQueues
<1>7. Queues(AddReady(r, t)) = Joined(Queues(k), t, p)
  BY <1>3, <1>5, <1>6 DEF Joined
<1> QED
  BY <1>7 DEF r

(* The sleeping tasks.                                                     *)
Sleepers(k) == {t \in TCB : k.state[t] = "BLOCKED"}

(* What the variables of Scheduler stand for.                              *)
LEMMA AbstractQueued ==
  ASSUME WellFormed(lists), NEW t \in TCB
  PROVE  Abstract!Queued(t) <=> lists.in_ready_queue[t]
<1>1. \A p \in Priorities :
        Abstract!InQueue(t, p) <=> lists.in_ready_queue[t] /\ lists.priority[t] = p
  BY QueueIs DEF Abstract!InQueue, Queues
<1>2. lists.priority[t] \in Priorities
  BY DEF WellFormed, ListsType
<1> QED
  BY <1>1, <1>2 DEF Abstract!Queued

(* Taking t out of every queue is taking it out of its own.                *)
LEMMA WithdrawnIs ==
  ASSUME WellFormed(lists), NEW t \in TCB
  PROVE  Abstract!Withdrawn(t) = IF lists.in_ready_queue[t] THEN Left(lists, t) ELSE Queues(lists)
<1> DEFINE K == Queues(lists)
<1>1. \A p \in Priorities : 
        ~(lists.in_ready_queue[t] /\ lists.priority[t] = p) => Abstract!Without(K[p], t) = K[p]
  <2>1. \A p \in Priorities : (\E i \in 1 .. Len(K[p]) : K[p][i] = t)
                                <=> lists.in_ready_queue[t] /\ lists.priority[t] = p
    BY QueueIs
  <2> HIDE DEF K
  <2> QED BY <2>1 DEF Abstract!Without
<1>2. K = [p \in Priorities |-> K[p]] /\ lists.priority[t] \in Priorities
  BY DEF Queues, WellFormed, ListsType
<1>3. Abstract!Withdrawn(t) = [p \in Priorities |-> Abstract!Without(K[p], t)]
  BY DEF Abstract!Withdrawn, Queues
<1>4. Left(lists, t) = [p \in Priorities |-> IF p = lists.priority[t] THEN Abstract!Without(K[p], t) ELSE K[p]]
  BY <1>2 DEF Left
<1> HIDE DEF K
<1> QED
  BY <1>1, <1>2, <1>3, <1>4 DEF K

(* What a step must do to the queues, the sleepers and current_task to be  *)
(* a step of Scheduler, one lemma for each of its actions.                 *)
LEMMA StutterSteps ==
  ASSUME Queues(lists') = Queues(lists), Sleepers(lists') = Sleepers(lists),
         current_task' = current_task
  PROVE  Abstract!Next
  BY DEF Abstract!Next, Abstract!vars, Queues, Sleepers

(* Arrive                                                                  *)
LEMMA ArriveSteps ==
  ASSUME WellFormed(lists), NEW t \in TCB, NEW p \in Priorities,
         ~lists.in_ready_queue[t], lists.state[t] # "BLOCKED",
         Queues(lists') = Joined(Queues(lists), t, p), Sleepers(lists') = Sleepers(lists),
         current_task' = current_task
  PROVE  Abstract!Next
<1>1. Abstract!Arrive(t, p)
  BY AbstractQueued DEF Abstract!Arrive, Queues, Sleepers, Joined
<1> QED
  BY <1>1 DEF Abstract!Next

(* Leave                                                                   *)
LEMMA LeaveSteps ==
  ASSUME WellFormed(lists), NEW t \in TCB, lists.in_ready_queue[t],
         Queues(lists') = Left(lists, t), Sleepers(lists') = Sleepers(lists),
         current_task' = current_task
  PROVE  Abstract!Next
<1>1. Abstract!Leave(t)
  BY AbstractQueued, WithdrawnIs DEF Abstract!Leave, Queues, Sleepers
<1> QED
  BY <1>1 DEF Abstract!Next

(* Move                                                                    *)
LEMMA MoveSteps ==
  ASSUME WellFormed(lists), NEW t \in TCB, NEW p \in Priorities, lists.in_ready_queue[t],
         Queues(lists') = Joined(Left(lists, t), t, p), Sleepers(lists') = Sleepers(lists),
         current_task' = current_task
  PROVE  Abstract!Next
<1>1. Abstract!Move(t, p)
  BY AbstractQueued, WithdrawnIs DEF Abstract!Move, Queues, Sleepers, Joined
<1> QED
  BY <1>1 DEF Abstract!Next

(* FallAsleep                                                              *)
LEMMA FallAsleepSteps ==
  ASSUME WellFormed(lists), current_task \in TCB,
         ~lists.in_ready_queue[current_task], lists.state[current_task] # "BLOCKED",
         Queues(lists') = Queues(lists),
         Sleepers(lists') = Sleepers(lists) \cup {current_task},
         current_task' = current_task
  PROVE  Abstract!Next
<1>1. Abstract!FallAsleep
  BY AbstractQueued DEF Abstract!FallAsleep, Queues, Sleepers
<1> QED
  BY <1>1 DEF Abstract!Next

(* Wake                                                                    *)
LEMMA WakeSteps ==
  ASSUME WellFormed(lists), NEW t \in TCB, NEW p \in Priorities, lists.state[t] = "BLOCKED",
         Queues(lists') = Joined(Queues(lists), t, p), Sleepers(lists') = Sleepers(lists) \ {t},
         current_task' = current_task
  PROVE  Abstract!Next
<1>1. Abstract!Wake(t, p)
  BY DEF Abstract!Wake, Queues, Sleepers, Joined
<1> QED
  BY <1>1 DEF Abstract!Next

(* Vanish                                                                  *)
LEMMA VanishSteps ==
  ASSUME WellFormed(lists), NEW t \in TCB, lists.state[t] = "BLOCKED",
         Queues(lists') = Queues(lists), Sleepers(lists') = Sleepers(lists) \ {t},
         current_task' = current_task
  PROVE  Abstract!Next
<1>1. Abstract!Vanish(t)
  BY DEF Abstract!Vanish, Queues, Sleepers
<1> QED
  BY <1>1 DEF Abstract!Next

(* A queue is empty where its head is NULL.                                *)
LEMMA EmptyQueue ==
  ASSUME WellFormed(lists)
  PROVE  Abstract!Waiting = Nonempty
<1>1. ASSUME NEW p \in Priorities  PROVE Queues(lists)[p] # <<>> <=> lists.ready_queue[p] # NULL
  <2> DEFINE q == Queues(lists)[p]
             head == lists.ready_queue[p]
  <2>1. q \in Seq(TCB) /\ IsWalk(lists, head, q) /\ lists \in ListsType
    BY QueueIs DEF WellFormed
  <2> HIDE DEF q, head
  <2>2. /\ (q = <<>> <=> Len(q) = 0) /\ Len(q) \in Nat
        /\ head = (IF Len(q) = 0 THEN NULL ELSE q[1])
        /\ \A i \in 1 .. Len(q) : q[i] # NULL
    BY <2>1, WalkAt
  <2>3. Len(q) # 0 => 1 \in 1 .. Len(q)
    BY <2>2
  <2> QED BY <2>2, <2>3 DEF q, head
<1> QED
  BY <1>1 DEF Abstract!Waiting, Nonempty, Queues

(* The task that is dispatched is the head of the highest queue.           *)
LEMMA HighestReadyIsHead ==
  ASSUME WellFormed(lists), Nonempty # {}
  PROVE  \E p \in Nonempty :
           /\ p \in Priorities /\ \A q \in Nonempty : q <= p
           /\ HighestReady \in TCB /\ lists.in_ready_queue[HighestReady]
           /\ lists.priority[HighestReady] = p
           /\ HighestReady = Head(Queues(lists)[p])
           /\ Left(lists, HighestReady) = [Queues(lists) EXCEPT ![p] = Tail(@)]
<1> DEFINE p == CHOOSE p \in Nonempty : \A q \in Nonempty : q <= p
           h == lists.ready_queue[p]
           Q == Queues(lists)[p]
<1>1. p \in Nonempty /\ \A q \in Nonempty : q <= p
  BY HighestExists DEF Nonempty
<1> HIDE DEF p
<1>2. p \in Priorities /\ h # NULL
  BY <1>1 DEF Nonempty
<1>3. h \in TCB /\ lists.in_ready_queue[h] /\ lists.priority[h] = p
  BY <1>2 DEF WellFormed, ListsType, ListsOK, HeadsOK
<1>4. /\ Q \in Seq(TCB) /\ IsWalk(lists, h, Q) /\ lists \in ListsType
      /\ \A i, j \in 1 .. Len(Q) : Q[i] = Q[j] => i = j
  BY <1>2, QueueIs DEF WellFormed
<1>5. Q # <<>> /\ h = Q[1]
  <2> HIDE DEF Q, h
  <2> QED BY <1>2, <1>4, WalkAt
<1>6. Abstract!Without(Q, h) = Tail(Q) /\ Head(Q) = h
  <2> HIDE DEF Q
  <2> QED BY <1>4, <1>5, WithoutHead
<1>7. Queues(lists) = [q \in Priorities |-> Queues(lists)[q]]
  BY DEF Queues
<1>8. Left(lists, h) = [Queues(lists) EXCEPT ![p] = Tail(@)]
  BY <1>2, <1>3, <1>6, <1>7 DEF Left
<1>9. HighestReady = h
  BY DEF HighestReady, p
<1> HIDE DEF h
<1> QED
  BY <1>1, <1>2, <1>3, <1>6, <1>8, <1>9

(* Dispatch                                                                *)
LEMMA DispatchSteps ==
  ASSUME WellFormed(lists), Nonempty # {}, current_task' = HighestReady,
         Sleepers(lists') = Sleepers(lists),
         \/ Queues(lists') = Left(lists, HighestReady)
         \/ /\ current_task \in TCB /\ ~lists.in_ready_queue[current_task]
            /\ lists.state[current_task] # "BLOCKED"
            /\ \E q \in Priorities : Queues(lists') = Joined(Left(lists, HighestReady), current_task, q)
  PROVE  Abstract!Next
<1>1. PICK p \in Nonempty :
           /\ p \in Priorities /\ \A q \in Nonempty : q <= p
           /\ HighestReady = Head(Queues(lists)[p])
           /\ Left(lists, HighestReady) = [Queues(lists) EXCEPT ![p] = Tail(@)]
  BY HighestReadyIsHead
<1>2. Abstract!Waiting = Nonempty
  BY EmptyQueue
<1>3. current_task' = Head(Queues(lists)[p])
  BY <1>1
<1>4. UNCHANGED {t \in TCB : lists.state[t] = "BLOCKED"}
  BY DEF Sleepers
<1> DEFINE popped == [Queues(lists) EXCEPT ![p] = Tail(@)]
<1>5. \/ Queues(lists') = popped
      \/ /\ current_task # NULL /\ ~Abstract!Queued(current_task)
         /\ current_task \notin {t \in TCB : lists.state[t] = "BLOCKED"}
         /\ \E q \in Priorities : Queues(lists') = [popped EXCEPT ![q] = Append(@, current_task)]
  BY <1>1, AbstractQueued, TCBFinite DEF Joined
<1>6. Abstract!Dispatch
  <2> SUFFICES \E r \in Abstract!Waiting :
      /\ \A q \in Abstract!Waiting : q <= r
      /\ current_task' = Head(Queues(lists)[r])
      /\ LET pop == [Queues(lists) EXCEPT ![r] = Tail(@)] IN
         \/ Queues(lists') = pop
         \/ /\ current_task # NULL /\ ~Abstract!Queued(current_task)
            /\ current_task \notin {t \in TCB : lists.state[t] = "BLOCKED"}
            /\ \E q \in Priorities : Queues(lists') = [pop EXCEPT ![q] = Append(@, current_task)]
      /\ UNCHANGED {t \in TCB : lists.state[t] = "BLOCKED"}
    BY DEF Abstract!Dispatch, Queues
  <2> QED BY <1>1, <1>2, <1>3, <1>4, <1>5
<1> QED
  BY <1>6 DEF Abstract!Next

(* DispatchIdle                                                            *)
LEMMA DispatchIdleSteps ==
  ASSUME WellFormed(lists), Nonempty = {}, current_task' = Idle,
         Queues(lists') = Queues(lists), Sleepers(lists') = Sleepers(lists)
  PROVE  Abstract!Next
<1>1. Abstract!DispatchIdle
  BY EmptyQueue DEF Abstract!DispatchIdle, Queues, Sleepers
<1> QED
  BY <1>1 DEF Abstract!Next

(* kernel_init                                                             *)
LEMMA InitImplements == Init => Abstract!Init
<1> SUFFICES ASSUME Init  PROVE Abstract!Init
  OBVIOUS
<1> DEFINE empty ==
      [state |-> [t \in TCB |-> IF t = Idle THEN "READY" ELSE "TERMINATED"],
       priority |-> [t \in TCB |-> 0],
       in_ready_queue |-> [t \in TCB |-> FALSE],
       next |-> [t \in TCB |-> NULL],
       prev |-> [t \in TCB |-> NULL],
       ready_queue |-> [p \in Priorities |-> NULL],
       blocked_list |-> NULL]
           none == [p \in Priorities |-> <<>>]
<1>1. empty \in ListsType
  BY TaskListsAssumption DEF ListsType, TaskState, Priorities
<1>2. HeadsOK(empty) /\ LinksOK(empty)
  BY DEF HeadsOK, LinksOK
<1>3. Acyclic(empty)
  <2>1. [t \in TCB |-> 0] \in [TCB -> Nat] /\ GrowsAlongNext(empty, [t \in TCB |-> 0])
    BY DEF GrowsAlongNext
  <2> QED BY <2>1 DEF Acyclic
<1>4. WellFormed(empty) /\ empty.state = [t \in TCB |-> IF t = Idle THEN "READY" ELSE "TERMINATED"]
      /\ empty.ready_queue = [p \in Priorities |-> NULL]
      /\ empty.priority[Idle] = 0 /\ ~empty.in_ready_queue[Idle] /\ empty.state[Idle] = "READY"
  BY <1>1, <1>2, <1>3, TCBFinite DEF WellFormed, ListsOK
<1>5. lists = AddReady(empty, Idle) /\ current_task = NULL
  BY DEF Init
<1> HIDE DEF empty
<1>6. Queues(empty) = none
  <2>1. \A p \in Priorities : none[p] \in Seq(TCB) /\ IsWalk(empty, empty.ready_queue[p], none[p])
    <3>1. <<>> \in Seq(TCB) /\ 1 .. Len(<<>>) = {}
      BY EmptySeq
    <3> QED BY <1>4, <3>1 DEF IsWalk
  <2>2. none = [p \in Priorities |-> none[p]]
    OBVIOUS
  <2> HIDE DEF none
  <2> QED BY <1>4, <2>1, <2>2, QueuesAre
<1>7. Queues(lists) = [none EXCEPT ![0] = Append(@, Idle)]
  BY <1>4, <1>5, <1>6, TCBFinite, AddReadyQueues
<1>8. Queues(lists) = [p \in Priorities |-> IF p = 0 THEN <<Idle>> ELSE <<>>]
  <2>1. Append(<<>>, Idle) = <<Idle>>
    OBVIOUS
  <2> QED BY <1>7, <2>1
<1>9. Sleepers(lists) = {}
  <2>1. lists.state = [empty.state EXCEPT ![Idle] = IF @ = "RUNNING" THEN "READY" ELSE @]
    BY <1>4, <1>5, TCBFinite, AddReadyWellFormed
  <2> QED BY <1>4, <2>1, TCBFinite DEF Sleepers
<1> QED
  BY <1>5, <1>8, <1>9 DEF Abstract!Init, Queues, Sleepers

(* task_create                                                             *)
LEMMA CreateImplements ==
  ASSUME IInv, NEW p \in TaskPriorities, task_create(p)
  PROVE  Abstract!Next
<1> DEFINE f == FirstFree
           filled == [lists EXCEPT !.state[f] = "READY", !.priority[f] = p,
                                   !.in_ready_queue[f] = FALSE, !.next[f] = NULL, !.prev[f] = NULL]
<1>1. f \in TCB /\ ~task_id[f] /\ p \in Priorities
  BY FirstFreeIsFree, KernelAssumption DEF task_create, TCB
<1>2. lists' = AddReady(filled, f) /\ current_task' = current_task
  BY DEF task_create, schedVars
<1> HIDE DEF f
<1>3. /\ WellFormed(lists) /\ lists.state[f] = "TERMINATED" /\ ~lists.in_ready_queue[f]
      /\ lists.state \in [TCB -> TaskState]
  BY <1>1, ListsTyped DEF IInv, SlotsOK
<1>4. WellFormed(filled) /\ filled.state = [lists.state EXCEPT ![f] = "READY"]
  BY <1>1, <1>3, CreateWellFormed
<1>5. Queues(AddReady(filled, f)) = Joined(Queues(lists), f, p)
  BY <1>1, <1>3, CreateQueues
<1> HIDE DEF filled
<1>6. lists'.state = [lists.state EXCEPT ![f] = "READY"]
  <2>1. filled.state[f] = "READY"
    BY <1>1, <1>3, <1>4
  <2>2. AddReady(filled, f).state = [filled.state EXCEPT ![f] = IF @ = "RUNNING" THEN "READY" ELSE @]
    BY <1>1, <1>4, <2>1, AddReadyWellFormed
  <2> QED BY <1>1, <1>2, <1>3, <1>4, <2>2
<1>7. Sleepers(lists') = Sleepers(lists)
  BY <1>1, <1>3, <1>6 DEF Sleepers
<1> QED
  BY <1>1, <1>2, <1>3, <1>5, <1>7, ArriveSteps

(* Deleting a task, by task_delete or when its entry function returns.     *)
LEMMA CleanupImplements ==
  ASSUME IInv, NEW t \in TCB, lists' = Cleanup(lists, t), current_task' = current_task
  PROVE  Abstract!Next
<1>1. WellFormed(lists) /\ lists.state \in [TCB -> TaskState]
      /\ (lists.in_ready_queue[t] => lists.state[t] = "READY")
  BY ListsTyped DEF IInv
<1>2. lists'.state = [lists.state EXCEPT ![t] = "TERMINATED"]
  BY <1>1, CleanupWellFormed
<1>3. Queues(lists') = IF lists.in_ready_queue[t] THEN Left(lists, t) ELSE Queues(lists)
  BY <1>1, CleanupQueues
<1>4. Sleepers(lists') = Sleepers(lists) \ {t}
      /\ (lists.state[t] # "BLOCKED" => Sleepers(lists') = Sleepers(lists))
  BY <1>1, <1>2 DEF Sleepers
<1>5. CASE lists.in_ready_queue[t]
  BY <1>1, <1>3, <1>4, <1>5, LeaveSteps
<1>6. CASE lists.state[t] = "BLOCKED"
  BY <1>1, <1>3, <1>4, <1>6, VanishSteps
<1>7. CASE ~lists.in_ready_queue[t] /\ lists.state[t] # "BLOCKED"
  BY <1>3, <1>4, <1>7, StutterSteps
<1> QED
  BY <1>5, <1>6, <1>7

(* task_suspend                                                            *)
LEMMA SuspendImplements ==
  ASSUME IInv, NEW t \in TCB, task_suspend(t)
  PROVE  Abstract!Next
<1>1. WellFormed(lists) /\ lists.state \in [TCB -> TaskState]
  BY ListsTyped DEF IInv
<1>2. /\ current_task' = current_task
      /\ lists' = IF lists.state[t] \in {"READY", "RUNNING"}
                  THEN [RemoveReady(lists, t) EXCEPT !.state[t] = "SUSPENDED"] ELSE lists
  BY DEF task_suspend, schedVars
<1>3. CASE lists.state[t] \in {"READY", "RUNNING"}
  <2>1. lists'.state = [lists.state EXCEPT ![t] = "SUSPENDED"]
    BY <1>1, <1>2, <1>3, TakeReadyWellFormed DEF TaskState
  <2>2. Queues(lists') = IF lists.in_ready_queue[t] THEN Left(lists, t) ELSE Queues(lists)
    BY <1>1, <1>2, <1>3, TakeReadyQueues DEF TaskState
  <2>3. Sleepers(lists') = Sleepers(lists)
    BY <1>1, <1>3, <2>1 DEF Sleepers
  <2>4. CASE lists.in_ready_queue[t]
    BY <1>1, <1>2, <2>2, <2>3, <2>4, LeaveSteps
  <2>5. CASE ~lists.in_ready_queue[t]
    BY <1>2, <2>2, <2>3, <2>5, StutterSteps
  <2> QED BY <2>4, <2>5
<1>4. CASE lists.state[t] \notin {"READY", "RUNNING"}
  BY <1>2, <1>4, StutterSteps
<1> QED
  BY <1>3, <1>4

(* task_resume                                                             *)
LEMMA ResumeImplements ==
  ASSUME IInv, NEW t \in TCB, task_resume(t)
  PROVE  Abstract!Next
<1> DEFINE woken == [lists EXCEPT !.state[t] = "READY"]
<1>1. WellFormed(lists) /\ lists.state \in [TCB -> TaskState] /\ lists \in ListsType
      /\ (lists.in_ready_queue[t] => lists.state[t] = "READY")
  BY ListsTyped DEF IInv
<1>2. current_task' = current_task
      /\ lists' = IF lists.state[t] = "SUSPENDED" THEN AddReady(woken, t) ELSE lists
  BY DEF task_resume, schedVars
<1>3. CASE lists.state[t] = "SUSPENDED"
  <2>1. WellFormed(woken) /\ woken.state = [lists.state EXCEPT ![t] = "READY"]
    BY <1>1, <1>3, SetStateWellFormed DEF TaskState
  <2>2. woken.ready_queue = lists.ready_queue /\ woken.next = lists.next
        /\ woken.in_ready_queue = lists.in_ready_queue /\ woken.priority = lists.priority
    BY <1>1 DEF ListsType
  <2> HIDE DEF woken
  <2>3. woken.state[t] = "READY" /\ ~woken.in_ready_queue[t]
    BY <1>1, <1>3, <2>1, <2>2
  <2>4. Queues(woken) = Queues(lists)
    BY <1>1, <2>1, <2>2, SetFieldQueues
  <2>5. Queues(lists') = Joined(Queues(lists), t, lists.priority[t])
    BY <1>2, <1>3, <2>1, <2>2, <2>3, <2>4, AddReadyQueues DEF Joined
  <2>6. lists'.state = [lists.state EXCEPT ![t] = "READY"]
    <3>1. AddReady(woken, t).state = [woken.state EXCEPT ![t] = IF @ = "RUNNING" THEN "READY" ELSE @]
      BY <2>1, <2>3, AddReadyWellFormed
    <3> QED BY <1>1, <1>2, <1>3, <2>1, <2>3, <3>1
  <2>7. Sleepers(lists') = Sleepers(lists)
    BY <1>1, <1>3, <2>6 DEF Sleepers
  <2>8. lists.priority[t] \in Priorities /\ ~lists.in_ready_queue[t] /\ lists.state[t] # "BLOCKED"
    BY <1>1, <1>3 DEF ListsType
  <2> QED BY <1>1, <1>2, <2>5, <2>7, <2>8, ArriveSteps
<1>4. CASE lists.state[t] # "SUSPENDED"
  BY <1>2, <1>4, StutterSteps
<1> QED
  BY <1>3, <1>4

(* task_sleep                                                              *)
LEMMA SleepImplements ==
  ASSUME IInv, NEW ms \in SleepTimes, task_sleep(ms)
  PROVE  Abstract!Next
<1>1. current_task \in TCB /\ lists.state[current_task] = "RUNNING"
  BY DEF IInv, PhaseOK, task_sleep, MayCall
<1>2. WellFormed(lists) /\ lists.state \in [TCB -> TaskState] /\ ~lists.in_ready_queue[current_task]
  BY <1>1, ListsTyped DEF IInv
<1>3. lists' = PushBlocked(lists, current_task) /\ current_task' = current_task
  BY DEF task_sleep, schedVars
<1>4. lists'.state = [lists.state EXCEPT ![current_task] = "BLOCKED"]
  BY <1>1, <1>2, <1>3, PushBlockedWellFormed
<1>5. Queues(lists') = Queues(lists)
  BY <1>1, <1>2, <1>3, PushBlockedQueues
<1>6. Sleepers(lists') = Sleepers(lists) \cup {current_task}
  BY <1>1, <1>2, <1>4 DEF Sleepers
<1> QED
  BY <1>1, <1>2, <1>3, <1>5, <1>6, FallAsleepSteps

(* task_yield and the idle task's yield                                    *)
LEMMA YieldImplements ==
  ASSUME IInv, pc = "app", Yield
  PROVE  Abstract!Next
<1>1. current_task \in TCB /\ current_task' = current_task
  BY DEF IInv, PhaseOK, Yield, schedVars
<1>2. WellFormed(lists) /\ lists.state \in [TCB -> TaskState]
      /\ (lists.in_ready_queue[current_task] => lists.state[current_task] = "READY")
  BY <1>1, ListsTyped DEF IInv
<1>3. CASE lists.state[current_task] = "RUNNING"
  <2>1. lists' = AddReady(lists, current_task)
    BY <1>3 DEF Yield
  <2>2. Queues(lists') = Joined(Queues(lists), current_task, lists.priority[current_task])
    BY <1>1, <1>2, <1>3, <2>1, AddReadyQueues DEF Joined
  <2>3. lists'.state = [lists.state EXCEPT ![current_task] = "READY"]
    <3>1. AddReady(lists, current_task).state
            = [lists.state EXCEPT ![current_task] = IF @ = "RUNNING" THEN "READY" ELSE @]
      BY <1>1, <1>2, <1>3, AddReadyWellFormed
    <3> QED BY <1>1, <1>2, <1>3, <2>1, <3>1
  <2>4. Sleepers(lists') = Sleepers(lists)
    BY <1>1, <1>2, <1>3, <2>3 DEF Sleepers
  <2>5. lists.priority[current_task] \in Priorities
    BY <1>1, <1>2 DEF WellFormed, ListsType
  <2> QED BY <1>1, <1>2, <1>3, <2>2, <2>4, <2>5, ArriveSteps
<1>4. CASE lists.state[current_task] # "RUNNING"
  <2>1. lists' = lists
    BY <1>4 DEF Yield
  <2> QED BY <1>1, <2>1, StutterSteps
<1> QED
  BY <1>3, <1>4

(* task_set_priority                                                       *)
LEMMA SetPriorityImplements ==
  ASSUME IInv, NEW t \in TCB, NEW p \in TaskPriorities, task_set_priority(t, p)
  PROVE  Abstract!Next
<1> DEFINE off == RemoveReady(lists, t)
           moved == [off EXCEPT !.priority[t] = p]
<1>1. WellFormed(lists) /\ lists.state \in [TCB -> TaskState] /\ lists \in ListsType
      /\ p \in Priorities /\ (lists.in_ready_queue[t] => lists.state[t] = "READY")
  BY KernelAssumption, ListsTyped DEF IInv
<1>2. current_task' = current_task
      /\ lists' = IF lists.in_ready_queue[t] THEN AddReady(moved, t)
                                             ELSE [lists EXCEPT !.priority[t] = p]
  BY DEF task_set_priority, schedVars
<1>3. CASE lists.in_ready_queue[t]
  <2>1. WellFormed(off) /\ ~off.in_ready_queue[t] /\ off.state = lists.state
    BY <1>1, RemoveReadyWellFormed
  <2>2. Queues(off) = Left(lists, t)
    BY <1>1, <1>3, RemoveReadyQueues DEF Left
  <2> HIDE DEF off
  <2>3. WellFormed(moved)
    BY <1>1, <2>1, SetPriorityWellFormed
  <2>4. /\ moved.ready_queue = off.ready_queue /\ moved.next = off.next
        /\ moved.state = off.state /\ moved.in_ready_queue = off.in_ready_queue
        /\ moved.priority[t] = p
    BY <2>1 DEF WellFormed, ListsType
  <2> HIDE DEF moved
  <2>5. Queues(moved) = Left(lists, t)
    BY <2>1, <2>2, <2>3, <2>4, SetFieldQueues
  <2>6. moved.state[t] = "READY" /\ ~moved.in_ready_queue[t]
    BY <1>1, <1>3, <2>1, <2>4
  <2>7. Queues(lists') = Joined(Left(lists, t), t, p)
    BY <1>2, <1>3, <2>3, <2>4, <2>5, <2>6, AddReadyQueues DEF Joined
  <2>8. lists'.state = [lists.state EXCEPT ![t] = "READY"]
    <3>1. AddReady(moved, t).state = [moved.state EXCEPT ![t] = IF @ = "RUNNING" THEN "READY" ELSE @]
      BY <2>3, <2>6, AddReadyWellFormed
    <3> QED BY <1>1, <1>2, <1>3, <2>1, <2>4, <2>6, <3>1
  <2>9. Sleepers(lists') = Sleepers(lists)
    BY <1>1, <1>3, <2>8 DEF Sleepers
  <2> QED BY <1>1, <1>2, <1>3, <2>7, <2>9, MoveSteps
<1>4. CASE ~lists.in_ready_queue[t]
  <2>1. lists' = [lists EXCEPT !.priority[t] = p]
    BY <1>2, <1>4
  <2>2. WellFormed([lists EXCEPT !.priority[t] = p])
    BY <1>1, <1>4, SetPriorityWellFormed
  <2>3. /\ lists'.ready_queue = lists.ready_queue /\ lists'.next = lists.next
        /\ lists'.state = lists.state
    BY <1>1, <2>1 DEF ListsType
  <2>4. Queues(lists') = Queues(lists)
    BY <1>1, <2>1, <2>2, <2>3, SetFieldQueues
  <2>5. Sleepers(lists') = Sleepers(lists)
    BY <2>3 DEF Sleepers
  <2> QED BY <1>2, <2>4, <2>5, StutterSteps
<1> QED
  BY <1>3, <1>4

(* One turn of the tick handler's loop                                     *)
LEMMA VisitImplements ==
  ASSUME IInv, VisitSleeper
  PROVE  Abstract!Next
<1> DEFINE c == cursor
<1>1. c \in TCB /\ lists.state[c] = "BLOCKED"
  BY DEF IInv, TypeOK, PhaseOK, VisitSleeper
<1>2. WellFormed(lists) /\ lists.state \in [TCB -> TaskState] /\ lists.priority[c] \in Priorities
  BY <1>1, ListsTyped DEF IInv, WellFormed, ListsType
<1>3. (lists' = WakeBlocked(lists, c) \/ lists' = lists) /\ current_task' = current_task
  BY DEF VisitSleeper, schedVars
<1> HIDE DEF c
<1>4. CASE lists' = WakeBlocked(lists, c)
  <2>1. lists'.state = [lists.state EXCEPT ![c] = "READY"]
    BY <1>1, <1>2, <1>4, WakeBlockedWellFormed
  <2>2. Queues(lists') = Joined(Queues(lists), c, lists.priority[c])
    BY <1>1, <1>2, <1>4, WakeBlockedQueues
  <2>3. Sleepers(lists') = Sleepers(lists) \ {c}
    BY <1>1, <1>2, <2>1 DEF Sleepers
  <2> QED BY <1>1, <1>2, <1>3, <2>2, <2>3, WakeSteps
<1>5. CASE lists' = lists
  BY <1>3, <1>5, StutterSteps
<1> QED
  BY <1>3, <1>4, <1>5

(* kernel_start                                                            *)
LEMMA StartImplements ==
  ASSUME IInv, kernel_start
  PROVE  Abstract!Next
<1> DEFINE h == HighestReady
<1>1. WellFormed(lists) /\ lists.state \in [TCB -> TaskState] /\ Nonempty # {}
  BY ListsTyped DEF IInv, kernel_start
<1>2. h \in TCB /\ lists.in_ready_queue[h] /\ lists.state[h] = "READY"
  BY <1>1, HighestReadyIsReady, HighestReadyIsHead
<1>3. lists' = [RemoveReady(lists, h) EXCEPT !.state[h] = "RUNNING"] /\ current_task' = h
  BY DEF kernel_start
<1> HIDE DEF h
<1>4. lists'.state = [lists.state EXCEPT ![h] = "RUNNING"] /\ Queues(lists') = Left(lists, h)
  BY <1>1, <1>2, <1>3, TakeReadyWellFormed, TakeReadyQueues DEF TaskState
<1>5. Sleepers(lists') = Sleepers(lists)
  BY <1>1, <1>2, <1>4 DEF Sleepers
<1> QED
  BY <1>1, <1>3, <1>4, <1>5, DispatchSteps DEF h

(* The task picked is the current one                                      *)
LEMMA PickSameImplements ==
  ASSUME IInv, PickSameTask
  PROVE  Abstract!Next
<1>1. current_task \in TCB /\ current_task = Candidate /\ current_task' = current_task
      /\ lists' = RemoveReady(lists, current_task)
  BY DEF IInv, PhaseOK, PickSameTask, schedVars
<1>2. WellFormed(lists)
  BY DEF IInv
<1>3. Sleepers(lists') = Sleepers(lists)
  <2>1. lists'.state = lists.state
    BY <1>1, <1>2, RemoveReadyWellFormed
  <2> QED BY <2>1 DEF Sleepers
<1>4. CASE Nonempty # {}
  <2>1. current_task = HighestReady /\ lists.in_ready_queue[current_task]
    BY <1>1, <1>2, <1>4, HighestReadyIsHead DEF Candidate
  <2>2. Queues(lists') = Left(lists, current_task)
    BY <1>1, <1>2, <2>1, RemoveReadyQueues DEF Left
  <2> QED BY <1>1, <1>2, <1>3, <1>4, <2>1, <2>2, DispatchSteps
<1>5. CASE Nonempty = {}
  <2>1. lists' = lists
    BY <1>1, <1>2, <1>5, NothingQueued DEF RemoveReady
  <2> QED BY <1>1, <2>1, StutterSteps
<1> QED
  BY <1>4, <1>5

(* A first dispatch, or a context switch                                   *)
LEMMA DispatchImplements ==
  ASSUME IInv, DispatchFirstRun \/ SwitchContext
  PROVE  Abstract!Next
<1> DEFINE c == Candidate
           old == current_task
           m == [RemoveReady(lists, c) EXCEPT !.state[c] = "RUNNING"]
           requeued == [m EXCEPT !.state[old] = "READY"]
<1>0. WellFormed(lists) /\ pc = "pick"
  BY DEF IInv, DispatchFirstRun, SwitchContext
<1>1. c \in TCB /\ lists.state[c] = "READY" /\ c # old
  BY CandidateIsReady DEF IInv, DispatchFirstRun, SwitchContext
<1>2. old \in TCB
  BY <1>0 DEF IInv, PhaseOK
<1>3. lists.state \in [TCB -> TaskState]
      /\ (lists.state[old] = "RUNNING" => ~lists.in_ready_queue[old] /\ task_id[old])
  BY <1>1, <1>2, ListsTyped DEF IInv, SlotsOK
<1>4. /\ \/ lists' = m
         \/ lists' = AddReady(requeued, old) /\ lists.state[old] = "RUNNING"
      /\ current_task' = c
  <2>1. CASE DispatchFirstRun
    BY <2>1 DEF DispatchFirstRun
  <2>2. CASE SwitchContext
    BY <1>3, <2>2 DEF SwitchContext
  <2> QED BY <2>1, <2>2
<1>5. /\ Nonempty # {} => c = HighestReady /\ lists.in_ready_queue[c]
      /\ Nonempty = {} => c = Idle /\ ~lists.in_ready_queue[c] /\ lists.state[old] # "RUNNING"
  <2>1. CASE Nonempty # {}
    BY <1>0, <2>1, HighestReadyIsHead DEF Candidate
  <2>2. CASE Nonempty = {}
    BY <1>0, <1>1, <2>2, TCBFinite, NothingQueued DEF Candidate
  <2> QED BY <2>1, <2>2
<1> HIDE DEF c
<1>6. /\ WellFormed(m) /\ m.state = [lists.state EXCEPT ![c] = "RUNNING"]
      /\ Queues(m) = IF lists.in_ready_queue[c] THEN Left(lists, c) ELSE Queues(lists)
  BY <1>0, <1>1, TakeReadyWellFormed, TakeReadyQueues DEF TaskState
<1> HIDE DEF m, old
<1>7. Sleepers(m) = Sleepers(lists)
  BY <1>1, <1>3, <1>6 DEF Sleepers
<1>8. CASE lists' = m
  <2>1. CASE Nonempty # {}
    BY <1>0, <1>4, <1>5, <1>6, <1>7, <1>8, <2>1, DispatchSteps
  <2>2. CASE Nonempty = {}
    BY <1>0, <1>4, <1>5, <1>6, <1>7, <1>8, <2>2, DispatchIdleSteps
  <2> QED BY <2>1, <2>2
<1>9. CASE lists' = AddReady(requeued, old) /\ lists.state[old] = "RUNNING"
  <2>0. Nonempty # {} /\ c = HighestReady /\ lists.in_ready_queue[c] /\ ~lists.in_ready_queue[old]
    BY <1>3, <1>5, <1>9
  <2>1. m.state[old] = "RUNNING" /\ ~m.in_ready_queue[old] /\ m.state[old] # "BLOCKED"
        /\ m.state \in [TCB -> TaskState]
    BY <1>1, <1>2, <1>3, <1>6, <1>9 DEF WellFormed, ListsOK, LinksOK, ListsType
  <2>2. WellFormed(requeued) /\ requeued.state = [m.state EXCEPT ![old] = "READY"]
    <3>1. WellFormed(m) /\ old \in TCB /\ "READY" \in TaskState \ {"BLOCKED"}
      BY <1>2, <1>6 DEF TaskState
    <3> QED BY <2>1, <3>1, SetStateWellFormed, Zenon
  <2>3. /\ requeued.ready_queue = m.ready_queue /\ requeued.next = m.next
        /\ requeued.in_ready_queue = m.in_ready_queue
    BY <1>6 DEF WellFormed, ListsType
  <2> HIDE DEF requeued
  <2>4. requeued.state[old] = "READY" /\ ~requeued.in_ready_queue[old]
        /\ requeued.priority[old] \in Priorities
    BY <1>2, <2>1, <2>2, <2>3 DEF WellFormed, ListsType
  <2>5. Queues(requeued) = Left(lists, c)
    BY <1>6, <2>0, <2>2, <2>3, SetFieldQueues
  <2>6. Queues(lists') = Joined(Left(lists, c), old, requeued.priority[old])
    <3>1. Queues(AddReady(requeued, old))
            = [Queues(requeued) EXCEPT ![requeued.priority[old]] = Append(@, old)]
      BY <1>2, <2>2, <2>4, AddReadyQueues
    <3> QED BY <1>9, <2>5, <3>1 DEF Joined
  <2>7. lists'.state = [m.state EXCEPT ![old] = "READY"]
    <3>1. AddReady(requeued, old).state
            = [requeued.state EXCEPT ![old] = IF @ = "RUNNING" THEN "READY" ELSE @]
      BY <1>2, <2>2, <2>4, AddReadyWellFormed
    <3> QED BY <1>2, <1>9, <2>1, <2>2, <2>4, <3>1
  <2>8. Sleepers(lists') = Sleepers(lists)
    BY <1>2, <1>7, <2>1, <2>7 DEF Sleepers
  <2>9. \E q \in Priorities : Queues(lists') = Joined(Left(lists, c), old, q)
    BY <2>4, <2>6
  <2>10. lists.state[old] # "BLOCKED"
    BY <1>9
  <2> QED BY <1>0, <1>2, <1>4, <2>0, <2>8, <2>9, <2>10, DispatchSteps DEF old
<1> QED
  BY <1>4, <1>8, <1>9

(* Every step of the kernel is a step of Scheduler.                        *)
LEMMA NextImplements == IInv /\ [Next]_vars => [Abstract!Next]_(Abstract!vars)
<1> SUFFICES ASSUME IInv, [Next]_vars  PROVE Abstract!Next
  OBVIOUS
<1>1. ASSUME UNCHANGED <<lists, current_task>>  PROVE Abstract!Next
  BY <1>1, StutterSteps
<1>2. CASE TimerThread
  BY <1>1, <1>2 DEF TimerThread, TimerIncrement, TimerSetPending, schedVars
<1>3. CASE KernelCall
  <2>1. ASSUME NEW p \in TaskPriorities, task_create(p)  PROVE Abstract!Next
    BY <2>1, CreateImplements
  <2>2. ASSUME NEW t \in TCB, task_delete(t)  PROVE Abstract!Next
    BY <2>2, CleanupImplements DEF task_delete, schedVars
  <2>3. ASSUME NEW t \in TCB, task_suspend(t)  PROVE Abstract!Next
    BY <2>3, SuspendImplements
  <2>4. ASSUME NEW t \in TCB, task_resume(t)  PROVE Abstract!Next
    BY <2>4, ResumeImplements
  <2>5. ASSUME NEW ms \in SleepTimes, task_sleep(ms)  PROVE Abstract!Next
    BY <2>5, SleepImplements
  <2>6. CASE SleepRefused
    BY <1>1, <2>6 DEF SleepRefused, vars, schedVars
  <2>7. CASE task_yield
    BY <2>7, YieldImplements DEF task_yield, MayCall
  <2>8. ASSUME NEW t \in TCB, NEW p \in TaskPriorities, task_set_priority(t, p)  PROVE Abstract!Next
    BY <2>8, SetPriorityImplements
  <2>9. CASE kernel_lock_scheduler \/ kernel_unlock_scheduler
    BY <1>1, <2>9 DEF kernel_lock_scheduler, kernel_unlock_scheduler
  <2>10. CASE TaskReturns
    <3>1. current_task \in TCB /\ current_task' = current_task
      BY <2>10 DEF TaskReturns, MayCall, IInv, PhaseOK, schedVars
    <3>2. lists' = lists \/ lists' = Cleanup(lists, current_task)
      BY <2>10 DEF TaskReturns
    <3> QED BY <1>1, <3>1, <3>2, CleanupImplements
  <2> QED
    BY <1>3, <2>1, <2>2, <2>3, <2>4, <2>5, <2>6, <2>7, <2>8, <2>9, <2>10 DEF KernelCall
<1>4. CASE kernel_start
  BY <1>4, StartImplements
<1>5. CASE kernel_schedule
  <2>1. CASE SchedulePendingTick \/ ScheduleNoTick \/ FinishTickHandler \/ KeepCurrent
    BY <1>1, <2>1 DEF SchedulePendingTick, ScheduleNoTick, FinishTickHandler, KeepCurrent, schedVars
  <2>2. CASE VisitSleeper
    BY <2>2, VisitImplements
  <2>3. CASE PickSameTask
    BY <2>3, PickSameImplements
  <2>4. CASE DispatchFirstRun \/ SwitchContext
    BY <2>4, DispatchImplements
  <2> QED
    BY <1>5, <2>1, <2>2, <2>3, <2>4 DEF kernel_schedule
<1>6. CASE IdleLoop
  <2>1. CASE IdleTick
    BY <1>1, <2>1 DEF IdleTick, schedVars
  <2>2. CASE IdleYield
    BY <2>2, YieldImplements DEF IdleYield
  <2> QED BY <1>6, <2>1, <2>2 DEF IdleLoop
<1>7. CASE Exited \/ UNCHANGED vars
  BY <1>1, <1>7 DEF Exited, vars, schedVars
<1> QED
  BY <1>2, <1>3, <1>4, <1>5, <1>6, <1>7 DEF Next

(* The scheduler with its intrusive lists implements Scheduler: tasks of a *)
(* priority are dispatched first come, first served, a dispatch takes the  *)
(* highest priority that has a task waiting, and nothing else reorders the *)
(* queues, whatever tasks call and wherever ticks fall.                    *)
THEOREM SchedulerImplemented == Spec => AbstractScheduler
<1> QED
  BY InitImplements, NextImplements, Invariance, PTL DEF Spec, AbstractScheduler, Abstract!Spec

(***************************************************************************)
(* Waiting.  A blocking call can hand kernel_schedule lists that are not   *)
(* WellFormed, so IInv is lost here; Sane is what is left of it.           *)
(***************************************************************************)

(* The types of the fields where a blocking call has corrupted the lists:  *)
(* prev may hold anything, as Last is any value on a walk in a circle.     *)
PlainType(V) ==
  [state : [TCB -> TaskState],
   priority : [TCB -> Priorities],
   in_ready_queue : [TCB -> BOOLEAN],
   next : [TCB -> TCB \cup {NULL}],
   prev : V,
   ready_queue : [Priorities -> TCB \cup {NULL}],
   blocked_list : TCB \cup {NULL}]

Plain(k) == \E V : k \in PlainType(V)

(* From k to m nobody becomes BLOCKED.                                     *)
NobodyBlocks(k, m) == \A u \in TCB : m.state[u] = "BLOCKED" => k.state[u] = "BLOCKED"

(* A new state for one task.                                               *)
LEMMA SetStatePlain ==
  ASSUME NEW k, Plain(k), NEW t, NEW s \in TaskState
  PROVE  /\ Plain([k EXCEPT !.state[t] = s])
         /\ [k EXCEPT !.state[t] = s].state = [k.state EXCEPT ![t] = s]
<1>1. PICK V : k \in PlainType(V)
  BY DEF Plain
<1>2. /\ [k EXCEPT !.state[t] = s] \in PlainType(V)
      /\ [k EXCEPT !.state[t] = s].state = [k.state EXCEPT ![t] = s]
  BY <1>1 DEF PlainType
<1> QED BY <1>2 DEF Plain

(* A new priority for one task.                                            *)
LEMMA SetPriorityPlain ==
  ASSUME NEW k, Plain(k), NEW t, NEW p \in Priorities
  PROVE  Plain([k EXCEPT !.priority[t] = p]) /\ [k EXCEPT !.priority[t] = p].state = k.state
<1>1. PICK V : k \in PlainType(V)
  BY DEF Plain
<1>2. /\ [k EXCEPT !.priority[t] = p] \in PlainType(V)
      /\ [k EXCEPT !.priority[t] = p].state = k.state
  BY <1>1 DEF PlainType
<1> QED BY <1>2 DEF Plain

(* kernel_add_to_ready_queue.                                              *)
LEMMA AddReadyPlain ==
  ASSUME NEW k, Plain(k), NEW t \in TCB
  PROVE  /\ Plain(AddReady(k, t)) /\ NobodyBlocks(k, AddReady(k, t))
         /\ k.state[t] = "READY" => AddReady(k, t).state = k.state
<1> DEFINE p == k.priority[t]
           last == Last(k, k.ready_queue[p])
           m == [k EXCEPT !.in_ready_queue[t] = TRUE,
                          !.state[t] = IF @ = "RUNNING" THEN "READY" ELSE @]
           alone == [m EXCEPT !.ready_queue[p] = t, !.next[t] = NULL, !.prev[t] = NULL]
           appended == [m EXCEPT !.next[last] = t, !.prev[t] = last, !.next[t] = NULL]
<1>1. PICK V : k \in PlainType(V)
  BY DEF Plain
<1>2. AddReady(k, t) = k \/ AddReady(k, t) = alone \/ AddReady(k, t) = appended
  BY DEF AddReady
<1> HIDE DEF last
<1>3. m \in PlainType(V) /\ NobodyBlocks(k, m) /\ (k.state[t] = "READY" => m.state = k.state)
  BY <1>1 DEF PlainType, NobodyBlocks, TaskState
<1> HIDE DEF m
<1>4. alone \in PlainType({alone.prev}) /\ alone.state = m.state
  BY <1>1, <1>3 DEF PlainType
<1>5. appended \in PlainType({appended.prev}) /\ appended.state = m.state
  BY <1>1, <1>3 DEF PlainType
<1> HIDE DEF alone, appended
<1> QED BY <1>1, <1>2, <1>3, <1>4, <1>5 DEF NobodyBlocks, Plain

(* kernel_remove_from_ready_queue, and unlinking from blocked_list.        *)
LEMMA RemovePlain ==
  ASSUME NEW k, Plain(k), NEW t \in TCB
  PROVE  /\ Plain(RemoveReady(k, t)) /\ RemoveReady(k, t).state = k.state
         /\ Plain(RemoveBlocked(k, t)) /\ RemoveBlocked(k, t).state = k.state
<1> DEFINE u == Unlink(k, t)
           unqueued == [u EXCEPT !.in_ready_queue[t] = FALSE,
             !.ready_queue[k.priority[t]] = IF k.prev[t] = NULL THEN k.next[t] ELSE @]
           woken == [u EXCEPT !.blocked_list = IF k.prev[t] = NULL THEN k.next[t] ELSE @]
<1>1. PICK V : k \in PlainType(V)
  BY DEF Plain
<1>2. u \in PlainType({u.prev}) /\ u.state = k.state
  BY <1>1 DEF Unlink, PlainType
<1>3. k.next[t] \in TCB \cup {NULL}
  BY <1>1 DEF PlainType
<1>4. RemoveReady(k, t) \in {k, unqueued} /\ RemoveBlocked(k, t) = woken
  BY DEF RemoveReady, RemoveBlocked
<1> HIDE DEF u
<1>5. unqueued \in PlainType({u.prev}) /\ unqueued.state = u.state
  BY <1>2, <1>3 DEF PlainType
<1>6. woken \in PlainType({u.prev}) /\ woken.state = u.state
  BY <1>2, <1>3 DEF PlainType
<1> HIDE DEF unqueued, woken
<1> QED BY <1>2, <1>4, <1>5, <1>6 DEF Plain

(* The tick handler, and the calls that wake a waiter.                     *)
LEMMA WakeBlockedPlain ==
  ASSUME NEW k, Plain(k), NEW t \in TCB
  PROVE  /\ Plain(WakeBlocked(k, t)) /\ NobodyBlocks(k, WakeBlocked(k, t))
         /\ WakeBlocked(k, t).state[t] = "READY"
<1> DEFINE off == RemoveBlocked(k, t)
           m == [off EXCEPT !.state[t] = "READY"]
<1>1. Plain(off) /\ off.state = k.state
  BY RemovePlain
<1>2. WakeBlocked(k, t) = AddReady(m, t)
  BY DEF WakeBlocked
<1> HIDE DEF off
<1>3. Plain(m) /\ m.state = [k.state EXCEPT ![t] = "READY"]
  <2>1. "READY" \in TaskState
    BY DEF TaskState
  <2>2. Plain(m) /\ m.state = [off.state EXCEPT ![t] = "READY"]
    BY <1>1, <2>1, SetStatePlain
  <2> QED BY <1>1, <2>2
<1> HIDE DEF m
<1>4. m.state[t] = "READY" /\ NobodyBlocks(k, m)
  BY <1>3 DEF Plain, PlainType, NobodyBlocks
<1>5. Plain(AddReady(m, t)) /\ NobodyBlocks(m, AddReady(m, t)) /\ AddReady(m, t).state = m.state
  BY <1>3, <1>4, AddReadyPlain
<1> QED BY <1>2, <1>4, <1>5 DEF NobodyBlocks

(* task_sleep.                                                             *)
LEMMA PushBlockedPlain ==
  ASSUME NEW k, Plain(k), NEW t \in TCB
  PROVE  Plain(PushBlocked(k, t)) /\ PushBlocked(k, t).state = [k.state EXCEPT ![t] = "BLOCKED"]
<1> DEFINE m == PushBlocked(k, t)
<1>1. PICK V : k \in PlainType(V)
  BY DEF Plain
<1>2. m \in PlainType({m.prev}) /\ m.state = [k.state EXCEPT ![t] = "BLOCKED"]
  BY <1>1 DEF PlainType, PushBlocked, TaskState
<1> QED BY <1>2 DEF Plain

(* kernel_cleanup_task.                                                    *)
LEMMA CleanupPlain ==
  ASSUME NEW k, Plain(k), NEW t \in TCB
  PROVE  Plain(Cleanup(k, t)) /\ NobodyBlocks(k, Cleanup(k, t))
<1> DEFINE off == IF k.in_ready_queue[t] THEN RemoveReady(k, t)
                  ELSE IF k.state[t] = "BLOCKED" THEN RemoveBlocked(k, t) ELSE k
           m == [off EXCEPT !.state[t] = "TERMINATED", !.in_ready_queue[t] = FALSE,
                            !.next[t] = NULL, !.prev[t] = NULL]
<1>1. Plain(off) /\ off.state = k.state
  BY RemovePlain
<1>2. Cleanup(k, t) = m
  BY DEF Cleanup
<1> HIDE DEF off
<1>3. PICK V : off \in PlainType(V)
  BY <1>1 DEF Plain
<1>4. m \in PlainType({m.prev}) /\ m.state = [k.state EXCEPT ![t] = "TERMINATED"]
  BY <1>1, <1>3 DEF PlainType, TaskState
<1> HIDE DEF m
<1>5. k.state \in [TCB -> TaskState]
  BY <1>1, <1>3 DEF PlainType
<1> QED BY <1>2, <1>4, <1>5 DEF Plain, NobodyBlocks

(* A task taken off its ready queue, to run or to be suspended.            *)
LEMMA TakeReadyPlain ==
  ASSUME NEW k, Plain(k), NEW t \in TCB, NEW s \in TaskState, s # "BLOCKED"
  PROVE  /\ Plain([RemoveReady(k, t) EXCEPT !.state[t] = s])
         /\ NobodyBlocks(k, [RemoveReady(k, t) EXCEPT !.state[t] = s])
<1> DEFINE off == RemoveReady(k, t)
           m == [off EXCEPT !.state[t] = s]
<1>1. Plain(off) /\ off.state = k.state
  BY RemovePlain
<1> HIDE DEF off
<1>2. Plain(m) /\ m.state = [off.state EXCEPT ![t] = s]
  BY <1>1, SetStatePlain
<1>3. off.state \in [TCB -> TaskState]
  BY <1>1 DEF Plain, PlainType
<1>4. Plain(m) /\ NobodyBlocks(k, m)
  BY <1>1, <1>2, <1>3 DEF NobodyBlocks
<1> QED BY <1>4 DEF off

(* What every step of the kernel keeps, corrupted lists or not: the types  *)
(* above, and a task to run from kernel_start on.                          *)
Sane ==
  /\ Plain(lists)
  /\ cursor \in TCB \cup {NULL}
  /\ pc = "boot" => ~scheduler_running
  /\ pc # "boot" => current_task \in TCB

(* kernel_schedule and kernel_start dispatch a task.                       *)
LEMMA DispatchesTask ==
  ASSUME Plain(lists)
  PROVE  /\ Nonempty # {} => HighestReady \in TCB
         /\ Candidate \in TCB \cup {NULL}
<1>1. ASSUME Nonempty # {} PROVE HighestReady \in TCB
  <2>1. PICK p \in Nonempty : \A q \in Nonempty : q <= p
    BY <1>1, HighestExists DEF Nonempty
  <2> DEFINE top == CHOOSE r \in Nonempty : \A q \in Nonempty : q <= r
  <2>2. top \in Nonempty
    BY <2>1
  <2> HIDE DEF top
  <2> QED BY <2>2 DEF top, HighestReady, Nonempty, Plain, PlainType
<1> QED BY <1>1, TCBFinite DEF Candidate

(* What a step does to the states of the tasks, when lists becomes m.      *)
Blocks(t) == lists'.state[t] = "BLOCKED" /\ lists.state[t] # "BLOCKED"

(* The calls from the code of tasks.  Only task_sleep blocks a task.       *)
LEMMA KernelCallPlain ==
  ASSUME Sane, KernelCall
  PROVE  Sane' /\ \A t \in TCB : Blocks(t) => pc = "app" /\ t = current_task
<1> USE DEF Sane
<1>1. /\ UNCHANGED <<cursor, current_task, scheduler_running>>
      /\ pc \in {"boot", "app"} /\ (pc = "boot" <=> pc' = "boot")
  BY DEF KernelCall, task_create, task_delete, task_suspend, task_resume, task_sleep,
     SleepRefused, task_yield, Yield, task_set_priority, kernel_lock_scheduler,
     kernel_unlock_scheduler, TaskReturns, CallSchedule, SchedulerOn, MayCall, vars,
     schedVars, controlVars
<1>2. ASSUME Plain(lists'), NobodyBlocks(lists, lists')
      PROVE  Sane' /\ \A t \in TCB : Blocks(t) => pc = "app" /\ t = current_task
  BY <1>1, <1>2 DEF NobodyBlocks, Blocks
<1>3. {"READY", "SUSPENDED"} \subseteq TaskState
  BY DEF TaskState
<1>4. CASE lists' = lists
  BY <1>2, <1>4 DEF NobodyBlocks
<1>5. ASSUME NEW p \in TaskPriorities, task_create(p)
      PROVE  Plain(lists') /\ NobodyBlocks(lists, lists')
  <2> DEFINE f == FirstFree
             m == [lists EXCEPT !.state[f] = "READY", !.priority[f] = p,
                     !.in_ready_queue[f] = FALSE, !.next[f] = NULL, !.prev[f] = NULL]
  <2>1. f \in TCB /\ p \in Priorities /\ lists' = AddReady(m, f)
    BY <1>5, FirstFreeIsFree, KernelAssumption DEF task_create, TCB
  <2> HIDE DEF f
  <2>2. PICK V : lists \in PlainType(V)
    BY DEF Plain
  <2>3. m \in PlainType({m.prev}) /\ NobodyBlocks(lists, m)
    BY <1>3, <2>1, <2>2 DEF PlainType, NobodyBlocks
  <2> HIDE DEF m
  <2>4. Plain(m)
    BY <2>3 DEF Plain
  <2> QED BY <2>1, <2>3, <2>4, AddReadyPlain DEF NobodyBlocks
<1>6. ASSUME NEW t \in TCB, task_delete(t)
      PROVE  Plain(lists') /\ NobodyBlocks(lists, lists')
  BY <1>6, CleanupPlain DEF task_delete
<1>7. ASSUME NEW t \in TCB, task_suspend(t)
      PROVE  Plain(lists') /\ NobodyBlocks(lists, lists')
  BY <1>3, <1>7, TakeReadyPlain DEF task_suspend, NobodyBlocks
<1>8. ASSUME NEW t \in TCB, task_resume(t)
      PROVE  Plain(lists') /\ NobodyBlocks(lists, lists')
  <2> DEFINE m == [lists EXCEPT !.state[t] = "READY"]
  <2>1. lists' = lists \/ lists' = AddReady(m, t)
    BY <1>8 DEF task_resume
  <2>2. Plain(m) /\ NobodyBlocks(lists, m)
    BY <1>3, SetStatePlain DEF NobodyBlocks, Plain, PlainType
  <2> HIDE DEF m
  <2> QED BY <2>1, <2>2, AddReadyPlain DEF NobodyBlocks
<1>9. ASSUME NEW ms \in SleepTimes, task_sleep(ms)
      PROVE  Sane' /\ \A t \in TCB : Blocks(t) => pc = "app" /\ t = current_task
  <2>1. pc = "app" /\ current_task \in TCB /\ lists' = PushBlocked(lists, current_task)
    BY <1>9 DEF task_sleep, MayCall
  <2>2. Plain(lists') /\ lists'.state = [lists.state EXCEPT ![current_task] = "BLOCKED"]
    BY <2>1, PushBlockedPlain
  <2>3. lists.state \in [TCB -> TaskState]
    BY DEF Plain, PlainType
  <2> QED BY <1>1, <2>1, <2>2, <2>3 DEF Blocks
<1>10. CASE task_yield
  BY <1>1, <1>2, <1>4, <1>10, AddReadyPlain DEF task_yield, Yield, MayCall
<1>11. ASSUME NEW t \in TCB, NEW p \in TaskPriorities, task_set_priority(t, p)
       PROVE  Plain(lists') /\ NobodyBlocks(lists, lists')
  <2> DEFINE off == RemoveReady(lists, t)
             m == [off EXCEPT !.priority[t] = p]
  <2>1. Plain(off) /\ off.state = lists.state /\ p \in Priorities
    BY RemovePlain, KernelAssumption
  <2>2. lists' = [lists EXCEPT !.priority[t] = p] \/ lists' = AddReady(m, t)
    BY <1>11 DEF task_set_priority
  <2> HIDE DEF off
  <2>3. Plain(m) /\ m.state = lists.state
    BY <2>1, SetPriorityPlain
  <2>4. Plain([lists EXCEPT !.priority[t] = p])
        /\ [lists EXCEPT !.priority[t] = p].state = lists.state
    BY <2>1, SetPriorityPlain
  <2> HIDE DEF m
  <2>5. Plain(AddReady(m, t)) /\ NobodyBlocks(m, AddReady(m, t))
    BY <2>3, AddReadyPlain
  <2> QED BY <2>2, <2>3, <2>4, <2>5 DEF NobodyBlocks
<1>12. ASSUME TaskReturns
       PROVE  Plain(lists') /\ NobodyBlocks(lists, lists')
  BY <1>1, <1>12, CleanupPlain DEF TaskReturns, MayCall, NobodyBlocks
<1>13. CASE SleepRefused \/ kernel_lock_scheduler \/ kernel_unlock_scheduler
  BY <1>4, <1>13 DEF SleepRefused, kernel_lock_scheduler, kernel_unlock_scheduler, vars
<1> QED
  BY <1>2, <1>5, <1>6, <1>7, <1>8, <1>9, <1>10, <1>11, <1>12, <1>13 DEF KernelCall

(* The scheduler, the tick handler, the idle loop and the timer thread     *)
(* block nobody.                                                           *)
LEMMA SchedulerPlain ==
  ASSUME Sane, TimerThread \/ kernel_start \/ kernel_schedule \/ IdleLoop \/ Exited
  PROVE  Sane' /\ NobodyBlocks(lists, lists')
<1> USE DEF Sane
<1>1. CASE TimerThread
  BY <1>1 DEF TimerThread, TimerIncrement, TimerSetPending, schedVars, controlVars, NobodyBlocks
<1>2. "RUNNING" \in TaskState
  BY DEF TaskState
<1>3. CASE kernel_start
  <2>1. HighestReady \in TCB
    BY <1>3, DispatchesTask DEF kernel_start
  <2>2. lists' = [RemoveReady(lists, HighestReady) EXCEPT !.state[HighestReady] = "RUNNING"]
    BY <1>3 DEF kernel_start
  <2>3. Plain(lists') /\ NobodyBlocks(lists, lists')
    BY <1>2, <2>1, <2>2, TakeReadyPlain
  <2> QED BY <1>3, <2>1, <2>3 DEF kernel_start, controlVars
<1>4. lists.blocked_list \in TCB \cup {NULL} /\ \A t \in TCB : lists.next[t] \in TCB \cup {NULL}
  BY DEF Plain, PlainType
<1>5. CASE SchedulePendingTick \/ ScheduleNoTick \/ FinishTickHandler \/ KeepCurrent
  BY <1>4, <1>5 DEF SchedulePendingTick, EnterTickHandler, ScheduleNoTick, FinishTickHandler,
     KeepCurrent, ReturnFromSchedule, SchedulerOn, schedVars, controlVars, NobodyBlocks
<1>6. CASE VisitSleeper
  <2>1. cursor \in TCB
    BY <1>6 DEF VisitSleeper
  <2>2. Plain(WakeBlocked(lists, cursor)) /\ NobodyBlocks(lists, WakeBlocked(lists, cursor))
    BY <2>1, WakeBlockedPlain
  <2>3. lists' \in {lists, WakeBlocked(lists, cursor)}
    BY <1>6 DEF VisitSleeper
  <2>4. /\ cursor' = lists.next[cursor]
        /\ UNCHANGED <<pc, current_task, scheduler_running>>
    BY <1>6 DEF VisitSleeper, schedVars
  <2>5. Plain(lists') /\ NobodyBlocks(lists, lists')
    BY <2>2, <2>3 DEF NobodyBlocks
  <2> QED BY <1>4, <2>1, <2>4, <2>5
<1>7. CASE PickSameTask
  <2>1. Plain(lists') /\ NobodyBlocks(lists, lists')
    BY <1>7, RemovePlain DEF PickSameTask, NobodyBlocks
  <2> QED BY <1>7, <2>1 DEF PickSameTask, ReturnFromSchedule, schedVars, controlVars
<1>8. CASE DispatchFirstRun
  <2>1. Candidate \in TCB
    BY <1>8, DispatchesTask DEF DispatchFirstRun
  <2>2. lists' = [RemoveReady(lists, Candidate) EXCEPT !.state[Candidate] = "RUNNING"]
    BY <1>8 DEF DispatchFirstRun
  <2>3. Plain(lists') /\ NobodyBlocks(lists, lists')
    BY <1>2, <2>1, <2>2, TakeReadyPlain
  <2> QED BY <1>8, <2>1, <2>3 DEF DispatchFirstRun
<1>9. CASE SwitchContext
  <2> DEFINE m == [RemoveReady(lists, Candidate) EXCEPT !.state[Candidate] = "RUNNING"]
             back == [m EXCEPT !.state[current_task] = "READY"]
  <2>1. Candidate \in TCB
    BY <1>9, DispatchesTask DEF SwitchContext
  <2>2. Plain(m) /\ NobodyBlocks(lists, m)
    BY <1>2, <2>1, TakeReadyPlain
  <2>3. lists' \in {m, back, AddReady(back, current_task)}
    BY <1>9 DEF SwitchContext
  <2> HIDE DEF m
  <2>4. Plain(back) /\ NobodyBlocks(lists, back)
    <3>1. Plain(back) /\ back.state = [m.state EXCEPT ![current_task] = "READY"]
      BY <2>2, SetStatePlain DEF TaskState
    <3>2. m.state \in [TCB -> TaskState]
      BY <2>2 DEF Plain, PlainType
    <3> QED BY <2>2, <3>1, <3>2 DEF NobodyBlocks
  <2> HIDE DEF back
  <2>5. current_task \in TCB
    BY <1>9 DEF SwitchContext
  <2>6. Plain(AddReady(back, current_task)) /\ NobodyBlocks(back, AddReady(back, current_task))
    BY <2>4, <2>5, AddReadyPlain
  <2>7. Plain(lists') /\ NobodyBlocks(lists, lists')
    BY <2>2, <2>3, <2>4, <2>6 DEF NobodyBlocks
  <2> QED BY <1>9, <2>1, <2>7 DEF SwitchContext
<1>10. CASE IdleLoop
  <2>1. CASE IdleTick
    BY <1>4, <2>1 DEF IdleTick, EnterTickHandler, schedVars, NobodyBlocks
  <2>2. CASE IdleYield
    <3>1. Plain(lists') /\ NobodyBlocks(lists, lists')
      BY <2>2, AddReadyPlain DEF IdleYield, Yield, NobodyBlocks
    <3> QED BY <2>2, <3>1 DEF IdleYield, Yield, CallSchedule, SchedulerOn, schedVars
  <2> QED BY <1>10, <2>1, <2>2 DEF IdleLoop
<1>11. CASE Exited
  BY <1>11 DEF Exited, vars, schedVars, controlVars, NobodyBlocks
<1> QED
  BY <1>1, <1>3, <1>5, <1>6, <1>7, <1>8, <1>9, <1>10, <1>11 DEF kernel_schedule

-----------------------------------------------------------------------------
(* Waiters and what wakes them *)

(* kernel_init leaves plain lists.                                         *)
LEMMA InitSane == Init => Sane
<1> SUFFICES ASSUME Init PROVE Sane
  OBVIOUS
<1>1. IInv
  BY InitIInv
<1>2. lists \in PlainType([TCB -> TCB \cup {NULL}])
  BY <1>1 DEF IInv, WellFormed, ListsType, PlainType
<1> QED BY <1>2 DEF Init, Sane, Plain

WaitTypes ==
  /\ waiting \in [WaitLists -> Seq(TCB)]
  /\ resume = [t \in TCB |-> resume[t]]

(* The tasks of the nodes of list l.                                       *)
Named(l) == {waiting[l][i] : i \in 1 .. Len(waiting[l])}

(* The tasks named by a node of l are inside a call that waits on l, whose *)
(* rest is one of R[l], each in one node, and none of them runs.           *)
WaitersOK(R) ==
  /\ \A l \in WaitLists : \A i \in 1 .. Len(waiting[l]) : resume[waiting[l][i]] \in R[l]
  /\ \A l \in WaitLists : \A i, j \in 1 .. Len(waiting[l]) :
       waiting[l][i] = waiting[l][j] => i = j
  /\ ~RunsWaiting

(* The tasks woken in such a call, that have yet to go on with it.         *)
Woken(l, rests) ==
  {t \in TCB : resume[t] \in rests /\ lists.state[t] # "BLOCKED" /\ t \notin Named(l)}

(* Counting tasks.                                                         *)
LEMMA CountTasks ==
  ASSUME NEW S \in SUBSET TCB, NEW T \in SUBSET TCB
  PROVE  /\ Cardinality(S) \in Nat
         /\ S \subseteq T => Cardinality(S) <= Cardinality(T)
         /\ \A t \in TCB : t \notin S /\ S \cup {t} \subseteq T => Cardinality(S) + 1 <= Cardinality(T)
         /\ \A t \in TCB : S \ {t} \subseteq T => Cardinality(S) - 1 <= Cardinality(T)
         /\ Cardinality(S) > 0 => S # {}
<1>1. IsFiniteSet(S) /\ IsFiniteSet(T)
  BY TCBFinite, FS_Subset
<1>2. Cardinality(S) \in Nat /\ Cardinality(T) \in Nat
  BY <1>1, FS_CardinalityType
<1>3. S \subseteq T => Cardinality(S) <= Cardinality(T)
  BY <1>1, FS_Subset
<1>4. ASSUME NEW t \in TCB, t \notin S, S \cup {t} \subseteq T
      PROVE  Cardinality(S) + 1 <= Cardinality(T)
  <2>1. Cardinality(S \cup {t}) = Cardinality(S) + 1
    BY <1>1, <1>4, FS_AddElement
  <2>2. Cardinality(S \cup {t}) <= Cardinality(T)
    BY <1>1, <1>4, FS_Subset
  <2> QED BY <2>1, <2>2
<1>5. ASSUME NEW t \in TCB, S \ {t} \subseteq T
      PROVE  Cardinality(S) - 1 <= Cardinality(T)
  <2>1. Cardinality(S \ {t}) <= Cardinality(T)
    BY <1>1, <1>5, FS_Subset
  <2>2. Cardinality(S \ {t}) = IF t \in S THEN Cardinality(S) - 1 ELSE Cardinality(S)
    BY <1>1, FS_RemoveElement
  <2> QED BY <1>2, <2>1, <2>2
<1>6. Cardinality(S) > 0 => S # {}
  BY FS_EmptySet
<1> QED BY <1>2, <1>3, <1>4, <1>5, <1>6

(* A list after a node is added at its end or taken from its front.        *)
LEMMA NodeAdded ==
  ASSUME NEW q \in Seq(TCB), NEW t \in TCB
  PROVE  /\ Append(q, t) \in Seq(TCB) /\ Len(Append(q, t)) = Len(q) + 1
         /\ \A i \in 1 .. Len(q) + 1 : Append(q, t)[i] = IF i = Len(q) + 1 THEN t ELSE q[i]
  BY AppendProperties

LEMMA NodeTaken ==
  ASSUME NEW q \in Seq(TCB), q # <<>>
  PROVE  /\ Head(q) \in TCB /\ Head(q) = q[1] /\ Len(q) \in Nat \ {0}
         /\ Tail(q) \in Seq(TCB) /\ Len(Tail(q)) = Len(q) - 1
         /\ \A i \in 1 .. Len(q) - 1 : Tail(q)[i] = q[i + 1]
<1>1. Len(q) \in Nat /\ Len(q) # 0
  BY EmptySeq, LenProperties
<1> QED BY <1>1, HeadTailProperties

(* A step of the kernel, as long as no call is abandoned, leaves waiters   *)
(* and calls alone, and a woken task stays woken.                          *)
LEMMA KernelStepWaits ==
  ASSUME Sane, WaitTypes, KernelStep
  PROVE  /\ Sane' /\ WaitTypes' /\ UNCHANGED waiting
         /\ ~abandoned' =>
              /\ ~abandoned /\ UNCHANGED resume /\ ~RunsWaiting'
              /\ \A t \in TCB : resume[t] # <<>> => ~Blocks(t)
<1>1. UNCHANGED waiting /\ abandoned' = (abandoned \/ CallCutShort \/ RunsWaiting')
  BY DEF KernelStep
<1>2. resume' = resume \/ resume' = [resume EXCEPT ![current_task'] = <<>>]
  BY DEF KernelStep
<1>3. resume' = [t \in TCB |-> resume'[t]]
      /\ \A t \in TCB : resume'[t] \in {resume[t], <<>>}
  <2>1. PICK f : f = [t \in TCB |-> f[t]] /\ f = resume
    BY DEF WaitTypes
  <2> QED BY <1>2, <2>1
<1>4. Sane' /\ \A t \in TCB : resume[t] # <<>> => ~Blocks(t)
  <2>1. CASE KernelCall /\ (pc = "app" => resume[current_task] = <<>>)
    BY <2>1, KernelCallPlain
  <2>2. CASE TimerThread \/ kernel_start \/ kernel_schedule \/ IdleLoop \/ Exited
    BY <2>2, SchedulerPlain DEF NobodyBlocks, Blocks
  <2> QED BY <2>1, <2>2 DEF KernelStep
<1>5. ASSUME ~CallCutShort
      PROVE  resume' = resume
  <2>1. \A t \in TCB : resume'[t] = resume[t]
    BY <1>3, <1>5 DEF CallCutShort
  <2> QED BY <1>3, <2>1 DEF WaitTypes
<1> QED BY <1>1, <1>3, <1>4, <1>5 DEF WaitTypes

(* What such a step leaves of the waiters.                                 *)
LEMMA KernelStepKeeps ==
  ASSUME Sane, WaitTypes, KernelStep, NEW R, WaitersOK(R), ~abandoned'
  PROVE  /\ WaitersOK(R)'
         /\ \A l \in WaitLists : \A rests :
              <<>> \notin rests => Woken(l, rests) \subseteq Woken(l, rests)'
<1>1. /\ UNCHANGED <<waiting, resume>> /\ ~RunsWaiting'
      /\ \A t \in TCB : resume[t] # <<>> => ~Blocks(t)
  BY KernelStepWaits
<1>2. WaitersOK(R)'
  BY <1>1 DEF WaitersOK
<1>3. ASSUME NEW l \in WaitLists, NEW rests, <<>> \notin rests
      PROVE  Woken(l, rests) \subseteq Woken(l, rests)'
  BY <1>1, <1>3 DEF Woken, Blocks, Named
<1> QED BY <1>2, <1>3

(* A list is emptied, or a call that waits on none of them ends: the       *)
(* waiters that are left are as they were.                                 *)
LEMMA WaitersLeft ==
  ASSUME WaitTypes, NEW R, WaitersOK(R), pc = "app" \/ UNCHANGED resume,
         UNCHANGED <<pc, current_task>>,
         waiting' \in [WaitLists -> Seq(TCB)],
         \A l \in WaitLists :
           \/ waiting'[l] \in {waiting[l], <<>>}
           \/ waiting[l] # <<>> /\ waiting'[l] = Tail(waiting[l]),
         \A t \in TCB \ {current_task} : resume'[t] = resume[t]
  PROVE  WaitersOK(R)'
<1>1. ASSUME NEW l \in WaitLists
      PROVE  \E d \in {0, 1} : \A i \in 1 .. Len(waiting'[l]) :
               i + d \in 1 .. Len(waiting[l]) /\ waiting'[l][i] = waiting[l][i + d]
  <2>1. waiting[l] \in Seq(TCB) /\ Len(waiting[l]) \in Nat
    BY LenProperties DEF WaitTypes
  <2>2. CASE waiting'[l] = waiting[l]
    <3>1. \A i \in 1 .. Len(waiting'[l]) :
            i + 0 \in 1 .. Len(waiting[l]) /\ waiting'[l][i] = waiting[l][i + 0]
      BY <2>1, <2>2
    <3> QED BY <3>1
  <2>3. CASE waiting'[l] = <<>>
    BY <2>3, EmptySeq
  <2>4. CASE waiting[l] # <<>> /\ waiting'[l] = Tail(waiting[l])
    <3>1. Len(waiting'[l]) = Len(waiting[l]) - 1
          /\ \A i \in 1 .. Len(waiting[l]) - 1 : waiting'[l][i] = waiting[l][i + 1]
      BY <2>1, <2>4, NodeTaken
    <3>2. \A i \in 1 .. Len(waiting'[l]) :
            i + 1 \in 1 .. Len(waiting[l]) /\ waiting'[l][i] = waiting[l][i + 1]
      BY <2>1, <3>1
    <3> QED BY <3>2
  <2> QED BY <2>2, <2>3, <2>4
<1>2. \A l \in WaitLists : \A i \in 1 .. Len(waiting[l]) : waiting[l][i] \in TCB
  BY ElementOfSeq DEF WaitTypes
<1>3. pc = "app" => \A l \in WaitLists : \A i \in 1 .. Len(waiting[l]) : waiting[l][i] # current_task
  BY DEF WaitersOK, RunsWaiting
<1>4. \A l \in WaitLists : \A i \in 1 .. Len(waiting[l]) : resume'[waiting[l][i]] = resume[waiting[l][i]]
  BY <1>2, <1>3
<1>5. ASSUME NEW l \in WaitLists
      PROVE  /\ \A i \in 1 .. Len(waiting'[l]) : resume'[waiting'[l][i]] \in R[l]
             /\ \A i, j \in 1 .. Len(waiting'[l]) : waiting'[l][i] = waiting'[l][j] => i = j
  <2>1. PICK d \in {0, 1} : \A i \in 1 .. Len(waiting'[l]) :
               i + d \in 1 .. Len(waiting[l]) /\ waiting'[l][i] = waiting[l][i + d]
    BY <1>1
  <2>2. \A i \in 1 .. Len(waiting[l]) : resume[waiting[l][i]] \in R[l]
    BY DEF WaitersOK
  <2>3. \A i, j \in 1 .. Len(waiting[l]) : waiting[l][i] = waiting[l][j] => i = j
    BY DEF WaitersOK
  <2>4. ASSUME NEW i \in 1 .. Len(waiting'[l]), NEW j \in 1 .. Len(waiting'[l]),
               waiting'[l][i] = waiting'[l][j]
        PROVE  i = j
    <3>1. i + d = j + d
      BY <2>1, <2>3, <2>4
    <3> QED BY <3>1
  <2>5. \A i \in 1 .. Len(waiting'[l]) : resume'[waiting'[l][i]] \in R[l]
    <3> SUFFICES ASSUME NEW i \in 1 .. Len(waiting'[l]) PROVE resume'[waiting'[l][i]] \in R[l]
      OBVIOUS
    <3>1. PICK j \in 1 .. Len(waiting[l]) : waiting'[l][i] = waiting[l][j]
      BY <2>1
    <3> QED BY <1>4, <2>2, <3>1
  <2> QED BY <2>4, <2>5
<1>6. ~RunsWaiting'
  <2> SUFFICES ASSUME pc = "app", NEW l \in WaitLists, NEW i \in 1 .. Len(waiting'[l])
               PROVE  waiting'[l][i] # current_task
    BY DEF RunsWaiting
  <2> QED BY <1>1, <1>3
<1> QED BY <1>5, <1>6 DEF WaitersOK

(* The current task begins to wait on l.                                   *)
LEMMA BlockWaits ==
  ASSUME Sane, WaitTypes, NEW l \in WaitLists, NEW ms, NEW rest, NEW c, NEW k,
         Calling(c), Plain(k), k.state = lists.state, Block(k, l, ms, rest)
  PROVE  /\ Sane' /\ WaitTypes' /\ UNCHANGED current_task
         /\ \A n \in WaitLists \ {l} : waiting'[n] = waiting[n]
         /\ \A t \in TCB \ {current_task} : resume'[t] = resume[t]
         /\ \A t \in TCB \ {current_task} : lists'.state[t] = lists.state[t]
         /\ ~abandoned' => ~abandoned
<1>1. pc = "app" /\ current_task \in TCB /\ resume[current_task] = <<>>
  BY DEF Calling, MayCall, Sane
<1>2. /\ lists' = [k EXCEPT !.state[current_task] = "BLOCKED"]
      /\ waiting' \in {waiting, [waiting EXCEPT ![l] = Append(@, current_task)]}
      /\ resume' = [resume EXCEPT ![current_task] = rest]
      /\ UNCHANGED <<cursor, current_task, scheduler_running>>
      /\ pc' \in {"app", "sched"}
      /\ ~abandoned' => ~abandoned
  BY <1>1 DEF Block, AddWaiting, CallSchedule, schedVars, controlVars
<1>3. Plain(lists') /\ lists'.state = [lists.state EXCEPT ![current_task] = "BLOCKED"]
  <2>1. "BLOCKED" \in TaskState
    BY DEF TaskState
  <2> DEFINE m == [k EXCEPT !.state[current_task] = "BLOCKED"]
  <2>2. Plain(m) /\ m.state = [k.state EXCEPT ![current_task] = "BLOCKED"]
    <3>1. \A t : \A s \in TaskState : Plain([k EXCEPT !.state[t] = s])
                 /\ [k EXCEPT !.state[t] = s].state = [k.state EXCEPT ![t] = s]
      BY SetStatePlain
    <3> QED BY <2>1, <3>1
  <2>3. lists' = m
    BY <1>2
  <2> HIDE DEF m
  <2> QED BY <2>2, <2>3
<1>4. Sane'
  BY <1>1, <1>2, <1>3 DEF Sane
<1>5. waiting' \in [WaitLists -> Seq(TCB)] /\ \A n \in WaitLists \ {l} : waiting'[n] = waiting[n]
  <2>1. Append(waiting[l], current_task) \in Seq(TCB)
    BY <1>1, NodeAdded DEF WaitTypes
  <2> QED BY <1>2, <2>1 DEF WaitTypes
<1>6. resume' = [t \in TCB |-> resume'[t]] /\ \A t \in TCB \ {current_task} : resume'[t] = resume[t]
  <2>1. PICK f : f = [t \in TCB |-> f[t]] /\ f = resume
    BY DEF WaitTypes
  <2> QED BY <1>2, <2>1
<1>7. \A t \in TCB \ {current_task} : lists'.state[t] = lists.state[t]
  <2>1. lists.state \in [TCB -> TaskState]
    BY DEF Sane, Plain, PlainType
  <2> QED BY <1>3, <2>1
<1> QED BY <1>2, <1>4, <1>5, <1>6, <1>7 DEF WaitTypes

(* It is a waiter like the others, unless kernel_schedule returned to it.  *)
LEMMA BlockKeeps ==
  ASSUME Sane, WaitTypes, NEW l \in WaitLists, NEW ms, NEW rest, NEW c, NEW k,
         Calling(c), Plain(k), k.state = lists.state, Block(k, l, ms, rest),
         NEW R, WaitersOK(R), rest \in R[l], ~abandoned'
  PROVE  /\ WaitersOK(R)'
         /\ \A n \in WaitLists \ {l} : \A rests :
              <<>> \notin rests => Woken(n, rests) \subseteq Woken(n, rests)'
<1>1. pc = "app" /\ current_task \in TCB /\ resume[current_task] = <<>>
  BY DEF Calling, MayCall, Sane
<1>2. /\ UNCHANGED current_task
      /\ \A n \in WaitLists \ {l} : waiting'[n] = waiting[n]
      /\ \A t \in TCB \ {current_task} : resume'[t] = resume[t]
      /\ \A t \in TCB \ {current_task} : lists'.state[t] = lists.state[t]
  BY BlockWaits
<1>3. resume'[current_task] = rest /\ ~RunsWaiting'
      /\ waiting'[l] \in {waiting[l], Append(waiting[l], current_task)}
  <2>1. PICK f : f = [t \in TCB |-> f[t]] /\ f = resume
    BY DEF WaitTypes
  <2>2. resume' = [resume EXCEPT ![current_task] = rest]
        /\ abandoned' = (abandoned \/ RunsWaiting')
        /\ waiting' \in {waiting, [waiting EXCEPT ![l] = Append(@, current_task)]}
    BY DEF Block, AddWaiting
  <2> QED BY <1>1, <2>1, <2>2 DEF WaitTypes
<1>4. \A n \in WaitLists : \A i \in 1 .. Len(waiting[n]) :
        waiting[n][i] \in TCB \ {current_task}
  BY <1>1, ElementOfSeq DEF WaitTypes, WaitersOK, RunsWaiting
<1>5. ASSUME NEW n \in WaitLists
      PROVE  /\ \A i \in 1 .. Len(waiting[n]) : resume'[waiting[n][i]] \in R[n]
             /\ \A i, j \in 1 .. Len(waiting[n]) : waiting[n][i] = waiting[n][j] => i = j
  BY <1>2, <1>4 DEF WaitersOK
<1>6. ASSUME NEW n \in WaitLists
      PROVE  /\ \A i \in 1 .. Len(waiting'[n]) : resume'[waiting'[n][i]] \in R[n]
             /\ \A i, j \in 1 .. Len(waiting'[n]) : waiting'[n][i] = waiting'[n][j] => i = j
  <2>1. CASE waiting'[n] = waiting[n]
    BY <1>5, <2>1
  <2>2. CASE n = l /\ waiting'[l] = Append(waiting[l], current_task)
    <3>1. Len(waiting'[l]) = Len(waiting[l]) + 1 /\ Len(waiting[l]) \in Nat
          /\ \A i \in 1 .. Len(waiting[l]) + 1 :
               waiting'[l][i] = IF i = Len(waiting[l]) + 1 THEN current_task ELSE waiting[l][i]
      BY <1>1, <2>2, NodeAdded, LenProperties DEF WaitTypes
    <3>2. \A i \in 1 .. Len(waiting[l]) + 1 : i = Len(waiting[l]) + 1 \/ i \in 1 .. Len(waiting[l])
      BY <3>1
    <3>3. \A i \in 1 .. Len(waiting[l]) : waiting[l][i] # current_task
      BY <1>4
    <3> QED BY <1>3, <1>5, <2>2, <3>1, <3>2, <3>3
  <2> QED BY <1>2, <1>3, <2>1, <2>2
<1>7. ASSUME NEW n \in WaitLists \ {l}, NEW rests, <<>> \notin rests
      PROVE  Woken(n, rests) \subseteq Woken(n, rests)'
  <2> SUFFICES ASSUME NEW t \in Woken(n, rests) PROVE t \in Woken(n, rests)'
    OBVIOUS
  <2>1. t # current_task
    BY <1>1, <1>7 DEF Woken
  <2> QED BY <1>2, <2>1 DEF Woken, Named
<1> QED BY <1>3, <1>6, <1>7 DEF WaitersOK

(* The first waiter of l is woken, if there is one.                        *)
LEMMA WakeFirstWaits ==
  ASSUME Sane, WaitTypes, NEW l \in WaitLists, NEW k, Plain(k), k.state = lists.state,
         WakeFirst(k, l)
  PROVE  /\ Sane' /\ UNCHANGED <<pc, current_task>>
         /\ waiting' \in [WaitLists -> Seq(TCB)]
         /\ \A t \in TCB : ~Blocks(t)
         /\ \A n \in WaitLists \ {l} : waiting'[n] = waiting[n]
         /\ waiting[l] = <<>> => waiting'[l] = <<>>
         /\ waiting[l] # <<>> =>
              /\ Head(waiting[l]) \in TCB /\ lists'.state[Head(waiting[l])] = "READY"
              /\ waiting'[l] = Tail(waiting[l])
<1>1. UNCHANGED <<pc, cursor, current_task, scheduler_running>>
  BY DEF WakeFirst, schedVars, controlVars
<1>2. CASE waiting[l] = <<>>
  <2>1. lists' = k /\ UNCHANGED waiting
    BY <1>2 DEF WakeFirst
  <2> QED BY <1>1, <1>2, <2>1 DEF Sane, WaitTypes, Blocks
<1>3. CASE waiting[l] # <<>>
  <2> DEFINE t == Head(waiting[l])
  <2>1. lists' = WakeBlocked(k, t) /\ waiting' = [waiting EXCEPT ![l] = Tail(@)]
    BY <1>3 DEF WakeFirst
  <2>2. t \in TCB /\ Tail(waiting[l]) \in Seq(TCB)
    BY <1>3, NodeTaken DEF WaitTypes
  <2>3. Plain(lists') /\ NobodyBlocks(k, lists') /\ lists'.state[t] = "READY"
    BY <2>1, <2>2, WakeBlockedPlain
  <2>4. /\ waiting' \in [WaitLists -> Seq(TCB)] /\ waiting'[l] = Tail(waiting[l])
        /\ \A n \in WaitLists \ {l} : waiting'[n] = waiting[n]
    BY <2>1, <2>2 DEF WaitTypes
  <2> QED BY <1>1, <1>3, <2>2, <2>3, <2>4 DEF Sane, NobodyBlocks, Blocks
<1> QED BY <1>2, <1>3

(* The woken task was waiting and is not any more.                         *)
LEMMA WokenByWake ==
  ASSUME WaitTypes, NEW R, WaitersOK(R), NEW l \in WaitLists, waiting[l] # <<>>,
         waiting'[l] = Tail(waiting[l]), NEW t, t = Head(waiting[l])
  PROVE  t \in Named(l) /\ t \notin Named(l)' /\ resume[t] \in R[l] /\ Named(l)' \subseteq Named(l)
<1>1. /\ t = waiting[l][1] /\ Len(waiting[l]) \in Nat \ {0}
      /\ Len(waiting'[l]) = Len(waiting[l]) - 1
      /\ \A i \in 1 .. Len(waiting[l]) - 1 : waiting'[l][i] = waiting[l][i + 1]
  BY NodeTaken DEF WaitTypes
<1>2. /\ 1 \in 1 .. Len(waiting[l])
      /\ \A i \in 1 .. Len(waiting[l]) - 1 : i + 1 \in 1 .. Len(waiting[l]) /\ i + 1 # 1
  BY <1>1
<1>3. \A i, j \in 1 .. Len(waiting[l]) : waiting[l][i] = waiting[l][j] => i = j
  BY DEF WaitersOK
<1> QED BY <1>1, <1>2, <1>3 DEF Named, WaitersOK

(* Nobody blocks, no node is added to l, and only the current task may end *)
(* its call: the others that were woken on l still are.                    *)
LEMMA WokenStay ==
  ASSUME NEW l \in WaitLists, NEW rests, \A t \in TCB : ~Blocks(t), Named(l)' \subseteq Named(l),
         \A t \in TCB \ {current_task} : resume'[t] = resume[t]
  PROVE  /\ Woken(l, rests) \ {current_task} \subseteq Woken(l, rests)'
         /\ resume'[current_task] = resume[current_task] \/ resume[current_task] \notin rests
              => Woken(l, rests) \subseteq Woken(l, rests)'
  BY DEF Woken, Blocks

(* Waking the first waiter of l makes it one more woken task.              *)
LEMMA WakeAddsOne ==
  ASSUME Sane, WaitTypes, NEW R, WaitersOK(R), NEW l \in WaitLists, WakeFirst(lists, l),
         pc = "app", \A t \in TCB \ {current_task} : resume'[t] = resume[t],
         resume[current_task] \notin R[l], waiting'[l] # <<>>
  PROVE  /\ waiting[l] # <<>>
         /\ \E t \in TCB : t \notin Woken(l, R[l]) /\ Woken(l, R[l]) \cup {t} \subseteq Woken(l, R[l])'
<1> DEFINE t == Head(waiting[l])
<1>1. /\ waiting[l] # <<>> /\ t \in TCB /\ lists'.state[t] = "READY"
      /\ waiting'[l] = Tail(waiting[l]) /\ \A u \in TCB : ~Blocks(u)
  BY WakeFirstWaits DEF Sane
<1>2. t \in Named(l) /\ t \notin Named(l)' /\ resume[t] \in R[l] /\ Named(l)' \subseteq Named(l)
  BY <1>1, WokenByWake
<1>3. t # current_task
  BY <1>2 DEF WaitersOK, RunsWaiting, Named
<1>4. t \in Woken(l, R[l])' /\ t \notin Woken(l, R[l])
  BY <1>1, <1>2, <1>3 DEF Woken
<1>5. Woken(l, R[l]) \subseteq Woken(l, R[l])'
  BY <1>1, <1>2, WokenStay
<1> QED BY <1>1, <1>4, <1>5

(* There are n units of what the tasks on l wait for.  They are spoken     *)
(* for: if tasks wait, as many have been woken and are still to take one.  *)
SpokenFor(l, rests, n) ==
  n > 0 /\ waiting[l] # <<>> => n <= Cardinality(Woken(l, rests))

(* Units are taken, by nobody who waits or by one that was woken, or one   *)
(* more task is woken for one more unit.                                   *)
LEMMA SpokenForStep ==
  ASSUME NEW l \in WaitLists, NEW rests, NEW n \in Nat, NEW m \in Nat, SpokenFor(l, rests, n),
         waiting'[l] # <<>> => waiting[l] # <<>>,
         \/ m <= n /\ Woken(l, rests) \subseteq Woken(l, rests)'
         \/ m <= n - 1 /\ \E t \in TCB : Woken(l, rests) \ {t} \subseteq Woken(l, rests)'
         \/ m <= n + 1 /\ \E t \in TCB : t \notin Woken(l, rests)
                                     /\ Woken(l, rests) \cup {t} \subseteq Woken(l, rests)'
  PROVE  m > 0 /\ waiting'[l] # <<>> => m <= Cardinality(Woken(l, rests)')
<1> DEFINE W == Woken(l, rests)
           V == Woken(l, rests)'
<1>1. W \subseteq TCB /\ V \subseteq TCB
  BY DEF Woken
<1>2. waiting'[l] # <<>> => n = 0 \/ n <= Cardinality(W)
  BY DEF SpokenFor
<1>3. \/ m <= n /\ W \subseteq V
      \/ m <= n - 1 /\ \E t \in TCB : W \ {t} \subseteq V
      \/ m <= n + 1 /\ \E t \in TCB : t \notin W /\ W \cup {t} \subseteq V
  OBVIOUS
<1> HIDE DEF W, V
<1>4. Cardinality(W) \in Nat /\ Cardinality(V) \in Nat
  BY <1>1, CountTasks
<1>5. \/ m <= n /\ Cardinality(W) <= Cardinality(V)
      \/ m <= n - 1 /\ Cardinality(W) - 1 <= Cardinality(V)
      \/ m <= n + 1 /\ Cardinality(W) + 1 <= Cardinality(V)
  BY <1>1, <1>3, CountTasks
<1>6. m > 0 /\ waiting'[l] # <<>> => m <= Cardinality(V)
  BY <1>2, <1>4, <1>5
<1> QED BY <1>6 DEF V

(* Units that are spoken for by at least one task.                         *)
LEMMA SpokenForBySome ==
  ASSUME NEW l \in WaitLists, NEW rests, NEW n \in Nat, SpokenFor(l, rests, n), n > 0,
         waiting[l] # <<>>
  PROVE  OneIsWoken(rests)
<1> DEFINE W == Woken(l, rests)
<1>1. W \subseteq TCB /\ n <= Cardinality(W)
  BY DEF Woken, SpokenFor
<1> HIDE DEF W
<1>2. PICK t \in TCB : t \in W
  BY <1>1, CountTasks
<1> QED BY <1>2 DEF W, Woken, OneIsWoken

-----------------------------------------------------------------------------
(* Tasks that wait on kernel objects, and intact ready queues *)

(* The structure with its BLOCKED tasks read as SUSPENDED: what is on no   *)
(* list, neither state allows to be on one.                                *)
Asleep(k) ==
  [k EXCEPT !.state = [t \in TCB |-> IF k.state[t] = "BLOCKED" THEN "SUSPENDED" ELSE k.state[t]]]

(* That changes no other field.                                            *)
LEMMA AsleepFields ==
  ASSUME NEW k \in ListsType
  PROVE  /\ Asleep(k) \in ListsType
         /\ \A t \in TCB : Asleep(k).state[t] = IF k.state[t] = "BLOCKED" THEN "SUSPENDED" ELSE k.state[t]
         /\ Asleep(k).priority = k.priority /\ Asleep(k).in_ready_queue = k.in_ready_queue
         /\ Asleep(k).next = k.next /\ Asleep(k).prev = k.prev
         /\ Asleep(k).ready_queue = k.ready_queue /\ Asleep(k).blocked_list = k.blocked_list
  BY DEF Asleep, ListsType, TaskState

(* Two structures that agree in every field are the same.                  *)
LEMMA SameFields ==
  ASSUME NEW k \in ListsType, NEW m \in ListsType,
         \A t \in TCB : k.state[t] = m.state[t],
         k.priority = m.priority, k.in_ready_queue = m.in_ready_queue,
         k.next = m.next, k.prev = m.prev,
         k.ready_queue = m.ready_queue, k.blocked_list = m.blocked_list
  PROVE  k = m
<1>1. k.state = m.state
  BY DEF ListsType
<1> QED BY <1>1 DEF ListsType

(* A new state, seen that way.                                             *)
LEMMA AsleepState ==
  ASSUME NEW k \in ListsType, NEW t \in TCB, NEW s \in TaskState
  PROVE  /\ [k EXCEPT !.state[t] = s] \in ListsType
         /\ Asleep([k EXCEPT !.state[t] = s])
              = [Asleep(k) EXCEPT !.state[t] = IF s = "BLOCKED" THEN "SUSPENDED" ELSE s]
<1>1. [k EXCEPT !.state[t] = s] \in ListsType
  BY DEF ListsType, TaskState
<1>2. CASE s = "BLOCKED"
  BY <1>2 DEF Asleep, ListsType
<1>3. CASE s # "BLOCKED"
  BY <1>3 DEF Asleep, ListsType
<1> QED BY <1>1, <1>2, <1>3

(* Queueing a task does not see the difference.                            *)
LEMMA AsleepAddReady ==
  ASSUME NEW k \in ListsType, NEW t \in TCB
  PROVE  Asleep(AddReady(k, t)) = AddReady(Asleep(k), t)
<1> DEFINE a == Asleep(k)
           p == k.priority[t]
           last == Last(k, k.ready_queue[p])
           m == [k EXCEPT !.in_ready_queue[t] = TRUE,
                          !.state[t] = IF @ = "RUNNING" THEN "READY" ELSE @]
           w == [a EXCEPT !.in_ready_queue[t] = TRUE,
                          !.state[t] = IF @ = "RUNNING" THEN "READY" ELSE @]
           alone(r) == [r EXCEPT !.ready_queue[p] = t, !.next[t] = NULL, !.prev[t] = NULL]
           appended(r) == [r EXCEPT !.next[last] = t, !.prev[t] = last, !.next[t] = NULL]
           refused == k.state[t] = "TERMINATED" \/ k.in_ready_queue[t]
<1>1. /\ a.priority[t] = p /\ a.ready_queue[p] = k.ready_queue[p]
      /\ refused <=> a.state[t] = "TERMINATED" \/ a.in_ready_queue[t]
      /\ Last(a, a.ready_queue[p]) = last
  <2>1. Last(a, a.ready_queue[p]) = last
    BY AsleepFields DEF Last, Chain, Closed
  <2> QED BY <2>1, AsleepFields
<1>2. AddReady(k, t) = IF refused THEN k ELSE IF k.ready_queue[p] = NULL THEN alone(m) ELSE appended(m)
  BY DEF AddReady
<1>3. AddReady(a, t) = IF refused THEN a ELSE IF k.ready_queue[p] = NULL THEN alone(w) ELSE appended(w)
  <2> HIDE DEF a, p, last, refused
  <2> QED BY <1>1 DEF AddReady
<1>4. Asleep(m) = w /\ m \in ListsType
  BY DEF Asleep, ListsType, TaskState
<1> HIDE DEF a, m, w
<1>5. Asleep(alone(m)) = alone(w)
  BY <1>4 DEF Asleep, ListsType
<1>6. Asleep(appended(m)) = appended(w)
  <2> DEFINE S == [u \in TCB |-> IF m.state[u] = "BLOCKED" THEN "SUSPENDED" ELSE m.state[u]]
  <2>1. w = [m EXCEPT !.state = S]
    BY <1>4 DEF Asleep
  <2>2. appended(m).state = m.state
    BY <1>4 DEF ListsType
  <2>3. Asleep(appended(m)) = [appended(m) EXCEPT !.state = S]
    BY <2>2 DEF Asleep
  <2> HIDE DEF S
  <2>4. [appended(m) EXCEPT !.state = S] = appended([m EXCEPT !.state = S])
    BY <1>4 DEF ListsType
  <2> QED BY <2>1, <2>3, <2>4
<1> HIDE DEF alone, appended
<1> QED BY <1>2, <1>3, <1>5, <1>6 DEF a

(* Nor does unlinking one.                                                 *)
LEMMA AsleepUnlink ==
  ASSUME NEW k \in ListsType, NEW t \in TCB
  PROVE  Asleep(Unlink(k, t)) = Unlink(Asleep(k), t)
  BY DEF Asleep, Unlink, ListsType

(* Nor does taking one out of its queue.                                   *)
LEMMA AsleepRemoveReady ==
  ASSUME NEW k \in ListsType, NEW t \in TCB
  PROVE  Asleep(RemoveReady(k, t)) = RemoveReady(Asleep(k), t)
<1> DEFINE a == Asleep(k)
           h == IF k.prev[t] = NULL THEN k.next[t] ELSE k.ready_queue[k.priority[t]]
           off(r) == [r EXCEPT !.in_ready_queue[t] = FALSE, !.ready_queue[k.priority[t]] = h]
<1>1. Asleep(Unlink(k, t)) = Unlink(a, t) /\ Unlink(k, t) \in ListsType
  BY AsleepUnlink DEF Unlink, ListsType
<1>2. RemoveReady(k, t) = IF ~k.in_ready_queue[t] THEN k ELSE off(Unlink(k, t))
  BY DEF RemoveReady, Unlink, ListsType
<1>3. RemoveReady(a, t) = IF ~k.in_ready_queue[t] THEN a ELSE off(Unlink(a, t))
  <2>1. /\ a \in ListsType /\ a.in_ready_queue = k.in_ready_queue /\ a.priority = k.priority
        /\ a.prev = k.prev /\ a.next = k.next /\ a.ready_queue = k.ready_queue
    BY AsleepFields
  <2> DEFINE u == Unlink(a, t)
  <2>2. u \in ListsType /\ u.ready_queue = a.ready_queue
    <3> HIDE DEF a
    <3> QED BY <2>1 DEF Unlink, ListsType
  <2>3. RemoveReady(a, t) = IF ~a.in_ready_queue[t] THEN a
          ELSE [u EXCEPT !.in_ready_queue[t] = FALSE,
                  !.ready_queue[a.priority[t]] = IF a.prev[t] = NULL THEN a.next[t] ELSE @]
    BY DEF RemoveReady
  <2> HIDE DEF a, u
  <2> QED BY <2>1, <2>2, <2>3 DEF ListsType, u
<1>4. Asleep(off(Unlink(k, t))) = off(Asleep(Unlink(k, t)))
  <2> DEFINE u == Unlink(k, t)
  <2> HIDE DEF u, h
  <2>1. u \in ListsType => Asleep(off(u)) = off(Asleep(u))
    BY DEF Asleep, ListsType
  <2> QED BY <1>1, <2>1 DEF u
<1> QED BY <1>1, <1>2, <1>3, <1>4

(* A new priority, seen that way.                                          *)
LEMMA AsleepPriority ==
  ASSUME NEW k \in ListsType, NEW t \in TCB, NEW p \in Priorities
  PROVE  /\ [k EXCEPT !.priority[t] = p] \in ListsType
         /\ Asleep([k EXCEPT !.priority[t] = p]) = [Asleep(k) EXCEPT !.priority[t] = p]
  BY DEF Asleep, ListsType

(* The ready queues are well formed and blocked_list is empty, whatever    *)
(* tasks are BLOCKED: tasks that wait on a kernel object are on no list.   *)
Intact(k) == k \in ListsType /\ WellFormed(Asleep(k))

(* From k to m only t moves, and the queues stay intact.                   *)
OnlyMoves(k, m, t) == Intact(m) /\ SameBut(k, m, t) /\ m.priority = k.priority

(* What that says of the fields.                                           *)
LEMMA IntactFacts ==
  ASSUME NEW k, Intact(k)
  PROVE  /\ k \in ListsType /\ Plain(k) /\ k.blocked_list = NULL
         /\ \A t \in TCB : k.in_ready_queue[t] => k.state[t] = "READY"
         /\ \A t \in TCB : ~k.in_ready_queue[t] => k.next[t] = NULL /\ k.prev[t] = NULL
         /\ \A p \in Priorities : k.ready_queue[p] # NULL =>
              k.ready_queue[p] \in TCB /\ k.in_ready_queue[k.ready_queue[p]]
<1> DEFINE a == Asleep(k)
<1>1. /\ k \in ListsType /\ WellFormed(a) /\ a \in ListsType
      /\ \A t \in TCB : a.state[t] = IF k.state[t] = "BLOCKED" THEN "SUSPENDED" ELSE k.state[t]
      /\ a.in_ready_queue = k.in_ready_queue /\ a.next = k.next /\ a.prev = k.prev
      /\ a.ready_queue = k.ready_queue /\ a.blocked_list = k.blocked_list
  BY AsleepFields DEF Intact
<1>2. Plain(k)
  <2>1. k \in PlainType([TCB -> TCB \cup {NULL}])
    BY <1>1 DEF ListsType, PlainType
  <2> QED BY <2>1 DEF Plain
<1> HIDE DEF a
<1>3. \A t \in TCB : a.state[t] # "BLOCKED"
  BY <1>1
<1>4. a.blocked_list = NULL
  BY <1>1, <1>3 DEF WellFormed, ListsOK, HeadsOK, ListsType
<1>5. \A t \in TCB : a.in_ready_queue[t] => a.state[t] = "READY"
  BY <1>1 DEF WellFormed, ListsOK, LinksOK
<1>6. \A t \in TCB : ~a.in_ready_queue[t] => a.next[t] = NULL /\ a.prev[t] = NULL
  BY <1>1, <1>3, OffList
<1>7. \A p \in Priorities : a.ready_queue[p] # NULL =>
        a.ready_queue[p] \in TCB /\ a.in_ready_queue[a.ready_queue[p]]
  BY <1>1 DEF WellFormed, ListsOK, HeadsOK, ListsType
<1>8. \A t \in TCB : k.in_ready_queue[t] => k.state[t] = "READY"
  BY <1>1, <1>5
<1> QED BY <1>1, <1>2, <1>4, <1>6, <1>7, <1>8

(* A task in no queue may take any state.                                  *)
LEMMA IntactSetState ==
  ASSUME NEW k, Intact(k), NEW t \in TCB, ~k.in_ready_queue[t], NEW s \in TaskState
  PROVE  LET m == [k EXCEPT !.state[t] = s]
         IN  OnlyMoves(k, m, t) /\ m.state[t] = s /\ ~m.in_ready_queue[t]
<1> DEFINE m == [k EXCEPT !.state[t] = s]
           a == Asleep(k)
           b == IF s = "BLOCKED" THEN "SUSPENDED" ELSE s
<1>1. k \in ListsType /\ WellFormed(a) /\ ~a.in_ready_queue[t] /\ a.state[t] # "BLOCKED"
  BY AsleepFields DEF Intact
<1>2. b \in TaskState \ {"BLOCKED"}
  BY DEF TaskState
<1>3. m \in ListsType /\ Asleep(m) = [a EXCEPT !.state[t] = b]
  BY <1>1, AsleepState
<1>4. WellFormed([a EXCEPT !.state[t] = b])
  <2> HIDE DEF a, b
  <2> QED BY <1>1, <1>2, SetStateWellFormed
<1>5. SameBut(k, m, t) /\ m.priority = k.priority /\ m.state[t] = s /\ ~m.in_ready_queue[t]
  BY <1>1 DEF SameBut, ListsType
<1> QED BY <1>3, <1>4, <1>5 DEF OnlyMoves, Intact

(* A task in no queue may take any priority.                               *)
LEMMA IntactSetPriority ==
  ASSUME NEW k, Intact(k), NEW t \in TCB, ~k.in_ready_queue[t], NEW p \in Priorities
  PROVE  LET m == [k EXCEPT !.priority[t] = p]
         IN  /\ Intact(m) /\ m.state = k.state /\ m.in_ready_queue = k.in_ready_queue
             /\ m.priority = [k.priority EXCEPT ![t] = p]
<1> DEFINE m == [k EXCEPT !.priority[t] = p]
           a == Asleep(k)
<1>1. k \in ListsType /\ WellFormed(a) /\ ~a.in_ready_queue[t]
  BY AsleepFields DEF Intact
<1>2. m \in ListsType /\ Asleep(m) = [a EXCEPT !.priority[t] = p]
  BY <1>1, AsleepPriority
<1>3. WellFormed([a EXCEPT !.priority[t] = p])
  <2> HIDE DEF a
  <2> QED BY <1>1, SetPriorityWellFormed
<1>4. /\ m.state = k.state /\ m.in_ready_queue = k.in_ready_queue
      /\ m.priority = [k.priority EXCEPT ![t] = p]
  BY <1>1 DEF ListsType
<1> QED BY <1>2, <1>3, <1>4 DEF Intact

(* A task that can run is queued.                                          *)
LEMMA IntactAddReady ==
  ASSUME NEW k, Intact(k), NEW t \in TCB, k.state[t] \in {"READY", "RUNNING"}
  PROVE  OnlyMoves(k, AddReady(k, t), t) /\ AddReady(k, t).state[t] = "READY"
<1> DEFINE m == AddReady(k, t)
           a == Asleep(k)
           b == AddReady(a, t)
<1>1. k \in ListsType /\ WellFormed(a) /\ a.state[t] \in {"READY", "RUNNING", "TERMINATED"}
      /\ a.state[t] = k.state[t] /\ Plain(k)
  BY AsleepFields, IntactFacts DEF Intact
<1>2. WellFormed(b) /\ b.state = [a.state EXCEPT ![t] = IF @ = "RUNNING" THEN "READY" ELSE @]
  <2> HIDE DEF a
  <2> QED BY <1>1, AddReadyWellFormed
<1>3. Asleep(m) = b
  BY <1>1, AsleepAddReady
<1>4. SameBut(k, m, t) /\ Plain(m)
  BY <1>1, AddReadyFlags, AddReadyPlain
<1>5. m.priority = k.priority /\ m.state[t] = "READY"
  <2> DEFINE p == k.priority[t]
             last == Last(k, k.ready_queue[p])
             n == [k EXCEPT !.in_ready_queue[t] = TRUE,
                            !.state[t] = IF @ = "RUNNING" THEN "READY" ELSE @]
             alone == [n EXCEPT !.ready_queue[p] = t, !.next[t] = NULL, !.prev[t] = NULL]
             appended == [n EXCEPT !.next[last] = t, !.prev[t] = last, !.next[t] = NULL]
  <2>1. \/ m = k /\ k.in_ready_queue[t]
        \/ m = alone
        \/ m = appended
    BY <1>1 DEF AddReady
  <2> HIDE DEF last, m
  <2>2. k.in_ready_queue[t] => k.state[t] = "READY"
    BY IntactFacts
  <2>3. n.priority = k.priority /\ n.state[t] = "READY"
    BY <1>1 DEF ListsType
  <2>4. alone.priority = n.priority /\ alone.state = n.state
    BY <1>1 DEF ListsType
  <2>5. appended.priority = n.priority /\ appended.state = n.state
    BY <1>1 DEF ListsType
  <2> QED BY <2>1, <2>2, <2>3, <2>4, <2>5
<1> HIDE DEF m, b
<1>6. m \in ListsType
  <2>1. PICK V : m \in PlainType(V)
    BY <1>4 DEF Plain
  <2>2. Asleep(m).prev = m.prev
    BY <2>1 DEF Asleep, PlainType
  <2>3. m.prev \in [TCB -> TCB \cup {NULL}]
    BY <1>2, <1>3, <2>2 DEF WellFormed, ListsType
  <2> QED BY <2>1, <2>3 DEF PlainType, ListsType
<1> QED BY <1>2, <1>3, <1>4, <1>5, <1>6 DEF OnlyMoves, Intact, m

(* A task is taken out of its queue, if it is in one.                      *)
LEMMA IntactRemoveReady ==
  ASSUME NEW k, Intact(k), NEW t \in TCB
  PROVE  /\ OnlyMoves(k, RemoveReady(k, t), t) /\ RemoveReady(k, t).state = k.state
         /\ ~RemoveReady(k, t).in_ready_queue[t]
<1> DEFINE m == RemoveReady(k, t)
           a == Asleep(k)
           b == RemoveReady(a, t)
<1>1. k \in ListsType /\ WellFormed(a) /\ Plain(k)
  BY IntactFacts DEF Intact
<1>2. WellFormed(b) /\ ~b.in_ready_queue[t] /\ b.priority = a.priority
  <2> HIDE DEF a
  <2> QED BY <1>1, RemoveReadyWellFormed
<1>3. Asleep(m) = b
  BY <1>1, AsleepRemoveReady
<1>4. m.state = k.state
  BY <1>1, RemovePlain
<1>5. SameBut(k, m, t) /\ m \in ListsType
  <2>1. k.state[t] \in TaskState
    BY <1>1 DEF ListsType
  <2>2. SameBut(k, m, t) /\ [m EXCEPT !.state[t] = k.state[t]] \in ListsType
    BY <1>1, <2>1, TakeReadyFlags
  <2>3. Plain(m)
    BY <1>1, RemovePlain
  <2> HIDE DEF m
  <2>4. PICK V : m \in PlainType(V)
    BY <2>3 DEF Plain
  <2>5. [m EXCEPT !.state[t] = k.state[t]].prev = m.prev
    BY <2>4 DEF PlainType
  <2>6. m.prev \in [TCB -> TCB \cup {NULL}]
    BY <2>2, <2>5 DEF ListsType
  <2> QED BY <2>2, <2>4, <2>6 DEF PlainType, ListsType
<1>6. m.priority = k.priority /\ ~m.in_ready_queue[t]
  <2> HIDE DEF m, b
  <2> QED BY <1>1, <1>2, <1>3, <1>5, AsleepFields
<1> QED BY <1>2, <1>3, <1>4, <1>5, <1>6 DEF OnlyMoves, Intact

(* A task is taken out of its queue and given a state.                     *)
LEMMA IntactTakeReady ==
  ASSUME NEW k, Intact(k), NEW t \in TCB, NEW s \in TaskState
  PROVE  LET m == [RemoveReady(k, t) EXCEPT !.state[t] = s]
         IN  OnlyMoves(k, m, t) /\ m.state[t] = s /\ ~m.in_ready_queue[t]
<1> DEFINE r == RemoveReady(k, t)
           m == [r EXCEPT !.state[t] = s]
<1>1. OnlyMoves(k, r, t) /\ ~r.in_ready_queue[t]
  BY IntactRemoveReady
<1> HIDE DEF r
<1>2. OnlyMoves(r, m, t) /\ m.state[t] = s /\ ~m.in_ready_queue[t]
  BY <1>1, IntactSetState DEF OnlyMoves
<1>3. OnlyMoves(k, m, t) /\ m.state[t] = s /\ ~m.in_ready_queue[t]
  <2> HIDE DEF m
  <2> QED BY <1>1, <1>2 DEF OnlyMoves, SameBut
<1> QED BY <1>3 DEF r

(* A waiter is woken with the code that unlinks a sleeper.  With both of   *)
(* its links NULL that changes nothing.                                    *)
LEMMA NothingToUnlink ==
  ASSUME NEW k, Intact(k), NEW t \in TCB, ~k.in_ready_queue[t]
  PROVE  RemoveBlocked(k, t) = k
<1>1. /\ k \in ListsType /\ k.blocked_list = NULL /\ k.next[t] = NULL /\ k.prev[t] = NULL
  BY IntactFacts
<1> DEFINE u == Unlink(k, t)
<1>2. u = k
  <2>1. \A v \in TCB : v # k.prev[t] /\ v # k.next[t]
    BY <1>1, TCBFinite
  <2>2. k.next \in [TCB -> TCB \cup {NULL}] /\ k.prev \in [TCB -> TCB \cup {NULL}]
    BY <1>1 DEF ListsType
  <2>3. [v \in TCB |-> IF v = t THEN NULL ELSE IF v = k.prev[t] THEN k.next[t] ELSE k.next[v]] = k.next
    BY <1>1, <2>1, <2>2
  <2>4. [v \in TCB |-> IF v = t THEN NULL ELSE IF v = k.next[t] THEN k.prev[t] ELSE k.prev[v]] = k.prev
    BY <1>1, <2>1, <2>2
  <2>5. u = [k EXCEPT !.next = k.next, !.prev = k.prev]
    BY <2>3, <2>4 DEF Unlink
  <2> QED BY <1>1, <2>5 DEF ListsType
<1> HIDE DEF u
<1>3. [u EXCEPT !.blocked_list = NULL] = k
  BY <1>1, <1>2 DEF ListsType
<1>4. RemoveBlocked(k, t) = [u EXCEPT !.blocked_list = NULL]
  BY <1>1, <1>2 DEF RemoveBlocked, u
<1> QED BY <1>3, <1>4

(* So the first waiter goes to the ready queue of its priority.            *)
LEMMA IntactWake ==
  ASSUME NEW k, Intact(k), NEW t \in TCB, k.state[t] = "BLOCKED"
  PROVE  OnlyMoves(k, WakeBlocked(k, t), t) /\ WakeBlocked(k, t).state[t] = "READY"
<1> DEFINE m == [k EXCEPT !.state[t] = "READY"]
<1>1. /\ k \in ListsType /\ ~k.in_ready_queue[t] /\ k.blocked_list = NULL
      /\ k.next[t] = NULL /\ k.prev[t] = NULL
  BY IntactFacts
<1>2. RemoveBlocked(k, t) = k
  BY <1>1, NothingToUnlink
<1>3. WakeBlocked(k, t) = AddReady(m, t)
  BY <1>2 DEF WakeBlocked
<1>4. OnlyMoves(k, m, t) /\ m.state[t] = "READY"
  BY <1>1, IntactSetState DEF TaskState
<1> HIDE DEF m
<1>5. OnlyMoves(m, AddReady(m, t), t)
  BY <1>4, IntactAddReady DEF OnlyMoves
<1>6. AddReady(m, t).state[t] = "READY"
  BY <1>4, IntactAddReady DEF OnlyMoves
<1> QED BY <1>3, <1>4, <1>5, <1>6 DEF OnlyMoves, SameBut

(* A task is deleted.                                                      *)
LEMMA IntactCleanup ==
  ASSUME NEW k, Intact(k), NEW t \in TCB
  PROVE  OnlyMoves(k, Cleanup(k, t), t) /\ Cleanup(k, t).state[t] = "TERMINATED"
<1> DEFINE r == RemoveReady(k, t)
           m == [r EXCEPT !.state[t] = "TERMINATED"]
<1>1. /\ k \in ListsType /\ k.blocked_list = NULL
      /\ ~k.in_ready_queue[t] => k.next[t] = NULL /\ k.prev[t] = NULL /\ r = k
      /\ k.in_ready_queue[t] => k.state[t] # "BLOCKED"
  BY IntactFacts DEF RemoveReady
<1>2. OnlyMoves(k, r, t) /\ ~r.in_ready_queue[t] /\ r \in ListsType /\ Intact(r)
  BY IntactRemoveReady DEF OnlyMoves, Intact
<1>3. OnlyMoves(k, m, t) /\ m.state[t] = "TERMINATED"
  BY IntactTakeReady DEF TaskState
<1>4. RemoveBlocked(k, t) = k \/ k.in_ready_queue[t]
  BY NothingToUnlink
<1>5. Cleanup(k, t) = [r EXCEPT !.state[t] = "TERMINATED", !.in_ready_queue[t] = FALSE,
                                !.next[t] = NULL, !.prev[t] = NULL]
  BY <1>1, <1>4 DEF Cleanup
<1> HIDE DEF r
<1>6. r.next[t] = NULL /\ r.prev[t] = NULL
  BY <1>2, IntactFacts
<1>7. Cleanup(k, t) = m
  <2>1. [r.next EXCEPT ![t] = NULL] = r.next /\ [r.prev EXCEPT ![t] = NULL] = r.prev
        /\ [r.in_ready_queue EXCEPT ![t] = FALSE] = r.in_ready_queue
    BY <1>2, <1>6 DEF ListsType
  <2> QED BY <1>2, <1>5, <2>1 DEF ListsType
<1> HIDE DEF m
<1> QED BY <1>3, <1>7

(* A slot is filled: the new task is queued.                               *)
LEMMA IntactCreate ==
  ASSUME NEW k, Intact(k), NEW t \in TCB, NEW p \in Priorities, ~k.in_ready_queue[t]
  PROVE  LET m == AddReady([k EXCEPT !.state[t] = "READY", !.priority[t] = p,
                              !.in_ready_queue[t] = FALSE, !.next[t] = NULL, !.prev[t] = NULL], t)
         IN  /\ Intact(m) /\ SameBut(k, m, t) /\ m.state[t] = "READY"
             /\ m.priority = [k.priority EXCEPT ![t] = p]
<1> DEFINE r == [k EXCEPT !.state[t] = "READY"]
           n == [r EXCEPT !.priority[t] = p]
           f == [k EXCEPT !.state[t] = "READY", !.priority[t] = p,
                          !.in_ready_queue[t] = FALSE, !.next[t] = NULL, !.prev[t] = NULL]
<1>1. k \in ListsType /\ k.next[t] = NULL /\ k.prev[t] = NULL
  BY IntactFacts
<1>2. OnlyMoves(k, r, t) /\ r.state[t] = "READY" /\ ~r.in_ready_queue[t]
  BY IntactSetState DEF TaskState
<1>3. f = n
  <2>1. [k.next EXCEPT ![t] = NULL] = k.next /\ [k.prev EXCEPT ![t] = NULL] = k.prev
        /\ [k.in_ready_queue EXCEPT ![t] = FALSE] = k.in_ready_queue
    BY <1>1 DEF ListsType
  <2> QED BY <1>1, <2>1 DEF ListsType
<1> HIDE DEF r
<1>4. /\ Intact(n) /\ n.state = r.state /\ n.in_ready_queue = r.in_ready_queue
      /\ n.priority = [r.priority EXCEPT ![t] = p]
  BY <1>2, IntactSetPriority DEF OnlyMoves
<1> HIDE DEF n
<1>5. OnlyMoves(n, AddReady(n, t), t) /\ AddReady(n, t).state[t] = "READY"
  BY <1>2, <1>4, IntactAddReady
<1> HIDE DEF f
<1>6. /\ Intact(AddReady(f, t)) /\ SameBut(k, AddReady(f, t), t) /\ AddReady(f, t).state[t] = "READY"
      /\ AddReady(f, t).priority = [k.priority EXCEPT ![t] = p]
  BY <1>2, <1>3, <1>4, <1>5 DEF OnlyMoves, SameBut
<1> QED BY <1>6 DEF f

(* Tasks do not call task_sleep, task_delete or the scheduler lock: nobody *)
(* is on blocked_list, and a call that blocks does not return at once.     *)
Patient == Calls \cap {"sleep", "delete", "lock"} = {}

(* The priority of t is one that task_create or task_set_priority gave.    *)
Ranked(t) == lists.priority[t] \in TaskPriorities

(* A slot in use holds a task with such a priority, a free one a           *)
(* terminated task.                                                        *)
PoolOK ==
  /\ task_id \in [TCB -> BOOLEAN]
  /\ \A t \in TCB : ~task_id[t] => lists.state[t] = "TERMINATED"
  /\ \A t \in Tasks : task_id[t] => Ranked(t)
  /\ lists.state[Idle] # "BLOCKED"

(* The queues are intact; the scheduler is on and unlocked whenever a task *)
(* runs; and the task that runs is in no queue.                            *)
Tidy ==
  /\ Intact(lists) /\ PoolOK
  /\ cursor = NULL /\ tick_from \in {"sched", "idle"}
  /\ pc = "boot" <=> ~scheduler_running
  /\ pc = "boot" => current_task = NULL /\ ~returning
  /\ pc # "boot" => current_task \in TCB /\ (task_id[current_task] \/ returning)
  /\ scheduler_lock_depth = IF pc = "walk" /\ tick_from = "sched" THEN 1 ELSE 0
  /\ pc = "app" => ~returning /\ ~lists.in_ready_queue[current_task]
  /\ pc = "walk" /\ tick_from = "idle" =>
       current_task = Idle /\ ~returning /\ ~lists.in_ready_queue[current_task]

(* Tasks stay blocked, but for the one that runs, and keep their rank.     *)
Stays ==
  /\ \A t \in TCB : lists.state[t] = "BLOCKED" =>
       lists'.state[t] = "BLOCKED" \/ (pc = "app" /\ t = current_task)
  /\ \A t \in TCB : Ranked(t) => Ranked(t)'

(* A kernel call that leaves queues and slots in order.                    *)
LEMMA CallTidy ==
  ASSUME Tidy, pc \in {"boot", "app"}, CallSchedule \/ UNCHANGED pc,
         UNCHANGED <<schedVars, cursor, tick_from, returning>>,
         Intact(lists'), PoolOK', \A t \in TCB : task_id[t] => task_id'[t],
         pc = "app" /\ UNCHANGED pc => ~lists'.in_ready_queue[current_task]
  PROVE  Tidy'
<1>1. pc' \in {"boot", "app", "sched"} /\ (pc = "boot" <=> pc' = "boot")
      /\ (pc' = "app" => pc = "app")
  BY DEF Tidy, CallSchedule, SchedulerOn
<1> QED BY <1>1 DEF Tidy, schedVars

(* One task moves.                                                         *)
LEMMA MovePool ==
  ASSUME PoolOK, NEW t \in TCB, OnlyMoves(lists, lists', t), UNCHANGED task_id,
         task_id[t] \/ lists'.state[t] = "TERMINATED", t = Idle => lists'.state[t] # "BLOCKED"
  PROVE  PoolOK' /\ \A u \in TCB : Ranked(u) => Ranked(u)'
  BY TCBFinite DEF PoolOK, OnlyMoves, SameBut, Ranked

(* Each call does: task_create,                                            *)
LEMMA CreateTidy ==
  ASSUME Tidy, NEW p \in TaskPriorities, task_create(p)
  PROVE  Tidy' /\ Stays
<1> DEFINE f == FirstFree
<1>1. f \in Tasks /\ f \in TCB /\ f # Idle /\ ~task_id[f] /\ p \in Priorities
  BY FirstFreeIsFree, TaskListsAssumption, KernelAssumption DEF task_create, TCB
<1>2. lists' = AddReady([lists EXCEPT !.state[f] = "READY", !.priority[f] = p,
                           !.in_ready_queue[f] = FALSE, !.next[f] = NULL, !.prev[f] = NULL], f)
  BY DEF task_create
<1> HIDE DEF f
<1>3. Intact(lists) /\ lists.state[f] = "TERMINATED" /\ ~lists.in_ready_queue[f]
      /\ lists.priority \in [TCB -> Priorities]
  BY <1>1, IntactFacts DEF Tidy, PoolOK, ListsType
<1>4. /\ Intact(lists') /\ SameBut(lists, lists', f) /\ lists'.state[f] = "READY"
      /\ lists'.priority = [lists.priority EXCEPT ![f] = p]
  <2>1. \A k : Intact(k) /\ ~k.in_ready_queue[f] =>
          LET m == AddReady([k EXCEPT !.state[f] = "READY", !.priority[f] = p,
                              !.in_ready_queue[f] = FALSE, !.next[f] = NULL, !.prev[f] = NULL], f)
          IN  /\ Intact(m) /\ SameBut(k, m, f) /\ m.state[f] = "READY"
              /\ m.priority = [k.priority EXCEPT ![f] = p]
    BY <1>1, IntactCreate
  <2> QED BY <1>2, <1>3, <2>1
<1>5. task_id' = [task_id EXCEPT ![f] = TRUE] /\ CallSchedule /\ pc \in {"boot", "app"}
      /\ UNCHANGED <<schedVars, cursor, tick_from, returning>>
  BY DEF task_create, MayCall, controlVars, f
<1>6. PoolOK' /\ Stays
  <2>1. PoolOK /\ task_id \in [TCB -> BOOLEAN]
    BY DEF Tidy, PoolOK
  <2>2. /\ task_id' \in [TCB -> BOOLEAN]
        /\ \A t \in TCB : task_id'[t] = (t = f \/ task_id[t])
    BY <1>5, <2>1
  <2>3. \A t \in TCB : lists'.priority[t] = IF t = f THEN p ELSE lists.priority[t]
    BY <1>1, <1>3, <1>4
  <2>4. \A t \in TCB : Ranked(t) \/ t = f => Ranked(t)'
    BY <2>3 DEF Ranked
  <2>5. \A t \in TCB \ {f} : lists'.state[t] = lists.state[t]
    BY <1>4 DEF SameBut
  <2>6. PoolOK'
    BY <1>1, <1>4, <2>1, <2>2, <2>4, <2>5, TCBFinite DEF PoolOK, TCB
  <2> QED BY <1>3, <2>4, <2>5, <2>6 DEF Stays
<1>7. \A t \in TCB : task_id[t] => task_id'[t]
  BY <1>5 DEF Tidy, PoolOK
<1>8. ~(pc = "app" /\ UNCHANGED pc)
  BY <1>5 DEF CallSchedule, SchedulerOn, Tidy
<1> QED BY <1>4, <1>5, <1>6, <1>7, <1>8, CallTidy

(* task_suspend,                                                           *)
LEMMA SuspendTidy ==
  ASSUME Tidy, NEW t \in TCB, task_suspend(t)
  PROVE  Tidy' /\ Stays
<1>1. /\ lists' = IF lists.state[t] \in {"READY", "RUNNING"}
                 THEN [RemoveReady(lists, t) EXCEPT !.state[t] = "SUSPENDED"] ELSE lists
      /\ Known(t) /\ t # Idle /\ pc = "app" /\ UNCHANGED task_id
      /\ UNCHANGED <<schedVars, cursor, tick_from, returning>>
      /\ CallSchedule \/ UNCHANGED pc
  BY DEF task_suspend, MayCall, controlVars
<1>2. CASE lists' = lists
  BY <1>1, <1>2, CallTidy DEF Tidy, PoolOK, Stays, Ranked
<1>3. CASE lists' = [RemoveReady(lists, t) EXCEPT !.state[t] = "SUSPENDED"]
           /\ lists.state[t] \in {"READY", "RUNNING"}
  <2>1. OnlyMoves(lists, lists', t) /\ ~lists'.in_ready_queue[t] /\ lists'.state[t] = "SUSPENDED"
    BY <1>3, IntactTakeReady DEF Tidy, TaskState
  <2>2. PoolOK' /\ Stays
    BY <1>1, <1>3, <2>1, MovePool DEF Tidy, Known, Stays, OnlyMoves, SameBut
  <2>3. ~lists'.in_ready_queue[current_task]
    BY <1>1, <2>1 DEF Tidy, OnlyMoves, SameBut
  <2> QED BY <1>1, <2>1, <2>2, <2>3, CallTidy DEF OnlyMoves
<1> QED BY <1>1, <1>2, <1>3

(* task_resume,                                                            *)
LEMMA ResumeTidy ==
  ASSUME Tidy, NEW t \in TCB, task_resume(t)
  PROVE  Tidy' /\ Stays
<1> DEFINE woken == [lists EXCEPT !.state[t] = "READY"]
<1>1. /\ lists' = IF lists.state[t] = "SUSPENDED" THEN AddReady(woken, t) ELSE lists
      /\ pc = "app" /\ UNCHANGED task_id /\ CallSchedule
      /\ UNCHANGED <<schedVars, cursor, tick_from, returning>>
  BY DEF task_resume, MayCall, controlVars
<1>2. ~(UNCHANGED pc)
  BY <1>1 DEF CallSchedule, SchedulerOn, Tidy
<1>3. CASE lists' = lists
  BY <1>1, <1>2, <1>3, CallTidy DEF Tidy, PoolOK, Stays, Ranked
<1>4. CASE lists' = AddReady(woken, t) /\ lists.state[t] = "SUSPENDED"
  <2>1. Intact(lists) /\ ~lists.in_ready_queue[t] /\ task_id[t]
    BY <1>4, IntactFacts DEF Tidy, PoolOK
  <2>2. OnlyMoves(lists, woken, t) /\ woken.state[t] = "READY"
    BY <2>1, IntactSetState DEF TaskState
  <2> HIDE DEF woken
  <2>3. OnlyMoves(woken, lists', t) /\ lists'.state[t] = "READY"
    BY <1>4, <2>2, IntactAddReady DEF OnlyMoves
  <2>4. OnlyMoves(lists, lists', t)
    BY <2>2, <2>3 DEF OnlyMoves, SameBut
  <2>5. PoolOK' /\ Stays
    BY <1>1, <1>4, <2>1, <2>3, <2>4, MovePool DEF Tidy, Stays, OnlyMoves, SameBut
  <2> QED BY <1>1, <1>2, <2>4, <2>5, CallTidy DEF OnlyMoves
<1> HIDE DEF woken
<1> QED BY <1>1, <1>3, <1>4

(* task_yield,                                                             *)
LEMMA YieldTidy ==
  ASSUME Tidy, Yield, pc = "app"
  PROVE  Tidy' /\ Stays
<1>1. /\ IF lists.state[current_task] = "RUNNING"
         THEN lists' = AddReady(lists, current_task) /\ CallSchedule ELSE UNCHANGED <<lists, pc>>
      /\ UNCHANGED <<schedVars, cursor, tick_from, returning, task_id>>
  BY DEF Yield, tcbVars
<1>2. CASE UNCHANGED <<lists, pc>>
  BY <1>1, <1>2 DEF Tidy, PoolOK, Stays, Ranked, schedVars
<1>3. CASE lists' = AddReady(lists, current_task) /\ CallSchedule
           /\ lists.state[current_task] = "RUNNING"
  <2>1. ~UNCHANGED pc /\ current_task \in TCB /\ task_id[current_task] /\ Intact(lists)
    BY <1>3 DEF CallSchedule, SchedulerOn, Tidy
  <2>2. OnlyMoves(lists, lists', current_task) /\ lists'.state[current_task] = "READY"
    BY <1>3, <2>1, IntactAddReady
  <2>3. PoolOK' /\ Stays
    BY <1>1, <2>1, <2>2, MovePool DEF Tidy, Stays, OnlyMoves, SameBut
  <2> QED BY <1>1, <1>3, <2>1, <2>2, <2>3, CallTidy DEF OnlyMoves
<1> QED BY <1>1, <1>2, <1>3

(* task_set_priority, also of a task in a queue,                           *)
LEMMA SetPriorityTidy ==
  ASSUME Tidy, NEW t \in TCB, NEW p \in TaskPriorities, task_set_priority(t, p)
  PROVE  Tidy' /\ Stays
<1> DEFINE off == RemoveReady(lists, t)
           moved == [off EXCEPT !.priority[t] = p]
<1>1. /\ lists' = IF lists.in_ready_queue[t] THEN AddReady(moved, t)
                                            ELSE [lists EXCEPT !.priority[t] = p]
      /\ pc = "app" /\ UNCHANGED task_id /\ Intact(lists) /\ p \in Priorities
      /\ UNCHANGED <<schedVars, cursor, tick_from, returning>>
      /\ CallSchedule \/ (UNCHANGED pc /\ t # current_task)
  <2>1. /\ lists' = IF lists.in_ready_queue[t] THEN AddReady(moved, t)
                                              ELSE [lists EXCEPT !.priority[t] = p]
        /\ pc = "app" /\ UNCHANGED <<tcbVars, schedVars, controlVars>>
        /\ IF t = current_task THEN CallSchedule ELSE UNCHANGED pc
    BY DEF task_set_priority, MayCall
  <2> HIDE DEF off, moved
  <2> QED BY <2>1, KernelAssumption DEF tcbVars, controlVars, Tidy
<1>2. lists.priority \in [TCB -> Priorities]
  BY <1>1, IntactFacts DEF ListsType
<1>3. /\ Intact(lists') /\ SameBut(lists, lists', t) /\ lists'.state[t] = lists.state[t]
      /\ lists'.priority = [lists.priority EXCEPT ![t] = p]
  <2>1. CASE ~lists.in_ready_queue[t]
    BY <1>1, <2>1, IntactSetPriority DEF SameBut
  <2>2. CASE lists.in_ready_queue[t]
    <3>1. OnlyMoves(lists, off, t) /\ ~off.in_ready_queue[t] /\ off.state = lists.state
      BY <1>1, IntactRemoveReady
    <3> HIDE DEF off
    <3>2. /\ Intact(moved) /\ moved.state = off.state /\ moved.in_ready_queue = off.in_ready_queue
          /\ moved.priority = [off.priority EXCEPT ![t] = p]
      BY <1>1, <3>1, IntactSetPriority DEF OnlyMoves
    <3>3. lists.state[t] = "READY"
      BY <1>1, <2>2, IntactFacts
    <3> HIDE DEF moved
    <3>4. OnlyMoves(moved, lists', t) /\ lists'.state[t] = "READY"
      BY <1>1, <2>2, <3>1, <3>2, <3>3, IntactAddReady
    <3> QED BY <3>1, <3>2, <3>3, <3>4 DEF OnlyMoves, SameBut
  <2> QED BY <2>1, <2>2
<1> HIDE DEF moved, off
<1>4. PoolOK' /\ Stays
  <2>1. \A u \in TCB : lists'.priority[u] = IF u = t THEN p ELSE lists.priority[u]
    BY <1>2, <1>3
  <2>2. \A u \in TCB : Ranked(u) => Ranked(u)'
    BY <2>1 DEF Ranked
  <2>3. \A u \in TCB : lists'.state[u] = lists.state[u]
    BY <1>3 DEF SameBut
  <2>4. PoolOK /\ UNCHANGED task_id
    BY <1>1 DEF Tidy
  <2>5. PoolOK'
    BY <2>2, <2>3, <2>4, TCBFinite DEF PoolOK, TCB
  <2> QED BY <2>2, <2>3, <2>5 DEF Stays
<1>5. pc = "app" /\ UNCHANGED pc => ~lists'.in_ready_queue[current_task]
  BY <1>1, <1>3 DEF Tidy, CallSchedule, SchedulerOn, SameBut
<1> QED BY <1>1, <1>3, <1>4, <1>5, CallTidy

(* and the return of an entry function.                                    *)
LEMMA ReturnsTidy ==
  ASSUME Tidy, TaskReturns
  PROVE  Tidy' /\ Stays
<1>1. /\ IF Known(current_task)
         THEN lists' = Cleanup(lists, current_task) /\ task_id' = [task_id EXCEPT ![current_task] = FALSE]
         ELSE UNCHANGED <<lists, task_id>>
      /\ returning' /\ pc = "app" /\ pc' \in {"sched", "exit"} /\ current_task \in Tasks
      /\ current_task \in TCB
      /\ UNCHANGED <<schedVars, cursor, tick_from>>
  BY DEF TaskReturns, MayCall, Tidy, TCB
<1>2. Intact(lists') /\ PoolOK' /\ Stays
  <2>1. CASE UNCHANGED <<lists, task_id>>
    BY <2>1 DEF Tidy, PoolOK, Stays, Ranked
  <2>2. CASE lists' = Cleanup(lists, current_task) /\ task_id' = [task_id EXCEPT ![current_task] = FALSE]
    <3>1. OnlyMoves(lists, lists', current_task) /\ lists'.state[current_task] = "TERMINATED"
      BY <1>1, <2>2, IntactCleanup DEF Tidy
    <3> QED BY <1>1, <2>2, <3>1, TaskListsAssumption DEF Tidy, PoolOK, Stays, Ranked, OnlyMoves, SameBut, TCB
  <2> QED BY <1>1, <2>1, <2>2
<1> QED BY <1>1, <1>2 DEF Tidy, schedVars

(* The head of the highest queue is a task that is READY in it.            *)
LEMMA IntactHighest ==
  ASSUME Intact(lists), Nonempty # {}
  PROVE  HighestReady \in TCB /\ lists.in_ready_queue[HighestReady] /\ lists.state[HighestReady] = "READY"
<1> DEFINE p == CHOOSE p \in Nonempty : \A q \in Nonempty : q <= p
<1>1. p \in Nonempty
  BY HighestExists DEF Nonempty
<1>2. HighestReady = lists.ready_queue[p]
  BY DEF HighestReady
<1> HIDE DEF p
<1> QED BY <1>1, <1>2, IntactFacts DEF Nonempty

(* With every head NULL, no task is flagged as queued.                     *)
LEMMA IntactNothingQueued ==
  ASSUME Intact(lists), Nonempty = {}, NEW t \in TCB
  PROVE  ~lists.in_ready_queue[t]
<1> DEFINE a == Asleep(lists)
           p == a.priority[t]
<1>1. /\ WellFormed(a) /\ a.ready_queue = lists.ready_queue
      /\ a.in_ready_queue = lists.in_ready_queue
  BY AsleepFields DEF Intact
<1> HIDE DEF a
<1>2. p \in Priorities
  BY <1>1 DEF WellFormed, ListsType
<1>3. a.ready_queue[p] = NULL
  BY <1>1, <1>2 DEF Nonempty
<1>4. Chain(a, a.ready_queue[p]) = {u \in TCB : a.in_ready_queue[u] /\ a.priority[u] = p}
  BY <1>1, <1>2, WalksMeetMembers
<1>5. Chain(a, a.ready_queue[p]) = {}
  BY <1>3 DEF Chain
<1> QED BY <1>1, <1>4, <1>5

(* The first task is dispatched.                                           *)
LEMMA StartTidy ==
  ASSUME Tidy, kernel_start
  PROVE  Tidy' /\ Stays
<1> DEFINE h == HighestReady
<1>1. /\ pc = "boot" /\ Nonempty # {} /\ current_task' = h /\ scheduler_running' /\ pc' = "app"
      /\ lists' = [RemoveReady(lists, h) EXCEPT !.state[h] = "RUNNING"]
      /\ UNCHANGED <<task_id, scheduler_lock_depth, cursor, tick_from, returning>>
  BY DEF kernel_start, controlVars
<1>2. Intact(lists) /\ h \in TCB /\ lists.state[h] = "READY" /\ task_id[h]
  BY <1>1, IntactHighest DEF Tidy, PoolOK
<1> HIDE DEF h
<1>3. OnlyMoves(lists, lists', h) /\ lists'.state[h] = "RUNNING" /\ ~lists'.in_ready_queue[h]
  BY <1>1, <1>2, IntactTakeReady DEF TaskState
<1>4. PoolOK' /\ Stays
  BY <1>1, <1>2, <1>3, MovePool DEF Tidy, Stays, OnlyMoves, SameBut
<1> QED BY <1>1, <1>2, <1>3, <1>4 DEF Tidy, OnlyMoves

(* kernel_schedule picks a READY task, or keeps one that is in no queue.   *)
LEMMA IntactCandidate ==
  ASSUME Tidy, pc # "boot"
  PROVE  /\ Candidate # NULL => Candidate \in TCB /\ lists.state[Candidate] = "READY" /\ task_id[Candidate]
         /\ Candidate = NULL => ~lists.in_ready_queue[current_task]
<1>1. Intact(lists) /\ current_task \in TCB
  BY DEF Tidy
<1>2. CASE Nonempty # {}
  BY <1>1, <1>2, IntactHighest, TCBFinite DEF Candidate, Tidy, PoolOK
<1>3. CASE Nonempty = {}
  BY <1>1, <1>3, IntactNothingQueued, TCBFinite DEF Candidate, Tidy, PoolOK
<1> QED BY <1>2, <1>3

(* It keeps the current task,                                              *)
LEMMA KeepTidy ==
  ASSUME Tidy, KeepCurrent
  PROVE  Tidy' /\ Stays
<1>1. /\ pc = "pick" /\ pc' = (IF returning THEN "exit" ELSE "app") /\ Candidate = NULL
      /\ UNCHANGED <<lists, task_id, current_task, scheduler_running, scheduler_lock_depth,
                     cursor, tick_from, returning>>
  BY DEF KeepCurrent, ReturnFromSchedule, tcbVars, schedVars, controlVars
<1>2. ~lists.in_ready_queue[current_task]
  BY <1>1, IntactCandidate
<1> QED BY <1>1, <1>2 DEF Tidy, PoolOK, Stays, Ranked

(* picks the current task,                                                 *)
LEMMA PickSameTidy ==
  ASSUME Tidy, PickSameTask
  PROVE  Tidy' /\ Stays
<1>1. /\ pc = "pick" /\ pc' = (IF returning THEN "exit" ELSE "app") /\ Candidate = current_task
      /\ lists' = RemoveReady(lists, current_task)
      /\ UNCHANGED <<task_id, current_task, scheduler_running, scheduler_lock_depth,
                     cursor, tick_from, returning>>
  BY DEF PickSameTask, ReturnFromSchedule, tcbVars, schedVars, controlVars
<1>2. Intact(lists) /\ current_task \in TCB /\ lists.state[current_task] = "READY" /\ task_id[current_task]
  BY <1>1, IntactCandidate, TCBFinite DEF Tidy
<1>3. OnlyMoves(lists, lists', current_task) /\ lists'.state = lists.state
      /\ ~lists'.in_ready_queue[current_task]
  BY <1>1, <1>2, IntactRemoveReady
<1>4. PoolOK' /\ Stays
  BY <1>1, <1>2, <1>3, MovePool DEF Tidy, Stays, OnlyMoves, SameBut
<1> QED BY <1>1, <1>2, <1>3, <1>4 DEF Tidy, OnlyMoves

(* or dispatches another, queueing the one that ran unless that is the     *)
(* first run of the other.                                                 *)
LEMMA DispatchTidy ==
  ASSUME Tidy, DispatchFirstRun \/ SwitchContext
  PROVE  Tidy' /\ Stays
<1> DEFINE c == Candidate
           m == [RemoveReady(lists, c) EXCEPT !.state[c] = "RUNNING"]
           old == current_task
           ready == [m EXCEPT !.state[old] = "READY"]
<1>1. /\ pc = "pick" /\ c \notin {NULL, old} /\ current_task' = c /\ pc' = "app" /\ ~returning'
      /\ UNCHANGED <<task_id, scheduler_running, scheduler_lock_depth, cursor, tick_from>>
  BY DEF DispatchFirstRun, SwitchContext, tcbVars
<1>2. \/ lists' = m
      \/ lists.state[old] = "RUNNING" /\ lists' = IF task_id[old] THEN AddReady(ready, old) ELSE ready
  BY DEF DispatchFirstRun, SwitchContext
<1>3. Intact(lists) /\ c \in TCB /\ lists.state[c] = "READY" /\ task_id[c] /\ old \in TCB
      /\ (task_id[old] \/ lists.state[old] = "TERMINATED")
  BY <1>1, IntactCandidate DEF Tidy, PoolOK
<1> HIDE DEF c, old
<1>4. OnlyMoves(lists, m, c) /\ m.state[c] = "RUNNING" /\ ~m.in_ready_queue[c]
  BY <1>3, IntactTakeReady DEF TaskState
<1> HIDE DEF m
<1>5. /\ Intact(lists') /\ lists'.priority = lists.priority
      /\ \A u \in TCB \ {c, old} : lists'.state[u] = lists.state[u]
      /\ lists'.state[c] = "RUNNING" /\ ~lists'.in_ready_queue[c]
      /\ \/ lists'.state[old] = lists.state[old]
         \/ lists.state[old] = "RUNNING" /\ lists'.state[old] = "READY" /\ task_id[old]
  <2>1. CASE lists' = m
    BY <1>1, <1>3, <1>4, <2>1 DEF OnlyMoves, SameBut
  <2>2. CASE lists.state[old] = "RUNNING" /\ lists' = AddReady(ready, old) /\ task_id[old]
    <3>1. m.state[old] = "RUNNING" /\ ~m.in_ready_queue[old] /\ Intact(m)
      BY <1>1, <1>3, <1>4, <2>2, IntactFacts DEF OnlyMoves, SameBut
    <3>2. OnlyMoves(m, ready, old) /\ ready.state[old] = "READY"
      BY <1>3, <3>1, IntactSetState DEF TaskState
    <3> HIDE DEF ready
    <3>3. OnlyMoves(ready, lists', old) /\ lists'.state[old] = "READY"
      BY <1>3, <2>2, <3>2, IntactAddReady DEF OnlyMoves
    <3> QED BY <1>1, <1>3, <1>4, <2>2, <3>2, <3>3 DEF OnlyMoves, SameBut
  <2>3. lists.state[old] = "RUNNING" => task_id[old]
    BY <1>3
  <2> HIDE DEF ready
  <2> QED BY <1>2, <2>1, <2>2, <2>3
<1>6. PoolOK'
  <2>1. lists.state[Idle] # "BLOCKED" /\ Idle \in TCB
    BY TCBFinite DEF Tidy, PoolOK
  <2>2. lists'.state[Idle] # "BLOCKED"
    BY <1>5, <2>1
  <2>3. \A t \in Tasks : task_id[t] => Ranked(t)
    BY DEF Tidy, PoolOK
  <2>4. \A t \in Tasks : task_id'[t] => Ranked(t)'
    BY <1>1, <1>5, <2>3 DEF Ranked
  <2>5. \A t \in TCB : ~task_id[t] => lists.state[t] = "TERMINATED"
    BY DEF Tidy, PoolOK
  <2>6. \A t \in TCB : ~task_id'[t] => lists'.state[t] = "TERMINATED"
    BY <1>1, <1>3, <1>5, <2>5
  <2> QED BY <1>1, <2>2, <2>4, <2>6 DEF Tidy, PoolOK
<1>7. Stays
  BY <1>3, <1>5 DEF Stays, Ranked
<1> QED BY <1>1, <1>3, <1>5, <1>6, <1>7 DEF Tidy

(* The steps that touch neither the queues nor the slots.  The tick        *)
(* handler finds blocked_list empty.                                       *)
LEMMA QuietTidy ==
  ASSUME Tidy, \/ TimerThread \/ Exited \/ SleepRefused
               \/ SchedulePendingTick \/ ScheduleNoTick \/ VisitSleeper \/ FinishTickHandler
               \/ IdleTick
  PROVE  Tidy' /\ Stays
<1>1. lists' = lists /\ UNCHANGED <<task_id, current_task, scheduler_running, returning>>
  BY DEF Tidy, TimerThread, TimerIncrement, TimerSetPending, Exited, SleepRefused, SchedulePendingTick,
         ScheduleNoTick, VisitSleeper, FinishTickHandler, IdleTick, vars, tcbVars, schedVars, controlVars
<1>2. Stays /\ PoolOK'
  BY <1>1 DEF Stays, Ranked, Tidy, PoolOK
<1>3. CASE TimerThread \/ Exited \/ SleepRefused
  BY <1>1, <1>2, <1>3 DEF Tidy, TimerThread, TimerIncrement, TimerSetPending, Exited, SleepRefused,
                          vars, schedVars, controlVars
<1>4. CASE SchedulePendingTick
  <2>1. lists.blocked_list = NULL
    BY IntactFacts DEF Tidy
  <2> QED BY <1>1, <1>2, <1>4, <2>1 DEF Tidy, SchedulePendingTick, EnterTickHandler
<1>5. CASE ScheduleNoTick
  BY <1>1, <1>2, <1>5 DEF Tidy, ScheduleNoTick, schedVars, controlVars
<1>6. CASE FinishTickHandler
  BY <1>1, <1>2, <1>6 DEF Tidy, FinishTickHandler, SchedulerOn
<1>7. CASE IdleTick
  <2>1. lists.blocked_list = NULL
    BY IntactFacts DEF Tidy
  <2>2. CASE timer_pending
    BY <1>1, <1>2, <1>7, <2>1, <2>2 DEF Tidy, IdleTick, EnterTickHandler, schedVars
  <2>3. CASE ~timer_pending
    BY <1>1, <1>2, <1>7, <2>3 DEF Tidy, IdleTick, schedVars
  <2> QED BY <2>2, <2>3
<1>8. ~VisitSleeper
  BY DEF Tidy, VisitSleeper
<1> QED BY <1>3, <1>4, <1>5, <1>6, <1>7, <1>8

(* Every step of the kernel: no task that waits is made READY by it.       *)
LEMMA KernelStepTidy ==
  ASSUME Patient, Tidy, KernelStep
  PROVE  Tidy' /\ Stays
<1>1. CASE KernelCall
  <2>1. ~MayCall("sleep") /\ ~MayCall("delete") /\ ~MayCall("lock")
    BY DEF Patient, MayCall
  <2>2. \/ \E p \in TaskPriorities : task_create(p)
        \/ \E t \in TCB : task_suspend(t) \/ task_resume(t)
        \/ task_yield
        \/ \E t \in TCB, p \in TaskPriorities : task_set_priority(t, p)
        \/ TaskReturns
    BY <1>1, <2>1 DEF KernelCall, task_delete, task_sleep, SleepRefused, kernel_lock_scheduler,
                      kernel_unlock_scheduler
  <2>3. CASE task_yield
    BY <2>3, YieldTidy DEF task_yield, MayCall
  <2> QED BY <2>2, <2>3, CreateTidy, SuspendTidy, ResumeTidy, SetPriorityTidy, ReturnsTidy
<1>2. CASE kernel_schedule
  BY <1>2, QuietTidy, KeepTidy, PickSameTidy, DispatchTidy DEF kernel_schedule
<1>3. CASE TimerThread \/ Exited
  BY <1>3, QuietTidy
<1>4. CASE kernel_start
  BY <1>4, StartTidy
<1>5. CASE IdleLoop
  BY <1>5, QuietTidy, YieldTidy DEF IdleLoop, IdleYield
<1> QED BY <1>1, <1>2, <1>3, <1>4, <1>5 DEF KernelStep

(* The idle task is queued, every slot is free.                            *)
LEMMA InitTidy == Init => Tidy
<1> SUFFICES ASSUME Init PROVE Tidy
  OBVIOUS
<1>1. IInv
  BY InitIInv
<1>2. lists \in ListsType /\ WellFormed(lists)
  BY <1>1 DEF IInv, WellFormed
<1> DEFINE z == [state |-> [t \in TCB |-> IF t = Idle THEN "READY" ELSE "TERMINATED"],
            priority |-> [t \in TCB |-> 0],
            in_ready_queue |-> [t \in TCB |-> FALSE],
            next |-> [t \in TCB |-> NULL],
            prev |-> [t \in TCB |-> NULL],
            ready_queue |-> [p \in Priorities |-> NULL],
            blocked_list |-> NULL]
<1>3. lists = AddReady(z, Idle)
  BY DEF Init
<1>4. z \in ListsType /\ z.state[Idle] = "READY" /\ \A t \in TCB : t # Idle => z.state[t] = "TERMINATED"
  BY TCBFinite, TaskListsAssumption DEF ListsType, TaskState, Priorities
<1>5. \A t \in TCB : lists.state[t] = z.state[t]
  <2> HIDE DEF z
  <2>1. SameBut(z, lists, Idle)
    BY <1>3, <1>4, TCBFinite, AddReadyFlags
  <2>2. lists.state[Idle] = "READY"
    BY <1>3, <1>4, TCBFinite DEF AddReady, ListsType
  <2> QED BY <1>4, <2>1, <2>2 DEF SameBut
<1> HIDE DEF z
<1>6. Asleep(lists) = lists
  <2>1. \A t \in TCB : lists.state[t] # "BLOCKED"
    BY <1>4, <1>5
  <2> QED BY <1>2, <2>1, AsleepFields, SameFields
<1>7. PoolOK
  <2>1. task_id \in [TCB -> BOOLEAN] /\ \A t \in TCB : task_id[t] = (t = Idle)
    BY DEF Init
  <2>2. \A t \in Tasks : ~task_id[t]
    BY <2>1, TaskListsAssumption DEF TCB
  <2> QED BY <1>4, <1>5, <2>1, <2>2, TCBFinite DEF PoolOK
<1> QED BY <1>2, <1>6, <1>7 DEF Tidy, Intact, Init

=============================================================================
