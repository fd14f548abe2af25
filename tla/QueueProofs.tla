----------------------------- MODULE QueueProofs -----------------------------
(***************************************************************************)
(* Theorems about Queue, for any capacity, items, tasks and calls.  That   *)
(* it implements the bounded FIFO of BoundedFifo needs the relation of     *)
(* tail to head and item_count, and nothing of who waits where.  That no   *)
(* message is left behind needs who waits where, and nothing of the places *)
(* of the ring but how many are filled.                                    *)
(***************************************************************************)
EXTENDS Queue, KernelProofs

Cells == Items \cup {NULL}

(* tail is item_count places after head, around the ring.                  *)
Ring ==
  /\ max_items \in Nat /\ item_count \in Nat /\ head \in Nat /\ tail \in Nat
  /\ item_count <= max_items
  /\ max_items > 0 =>
       head < max_items /\ tail < max_items /\ tail = (head + item_count) % max_items
  /\ buffer \in [Places(max_items) -> Cells]

-----------------------------------------------------------------------------
(* At most once around the ring, % subtracts the capacity or nothing.      *)
LEMMA Wraps ==
  ASSUME NEW n \in Nat \ {0}, NEW x \in Nat, x < 2 * n
  PROVE  x % n = IF x < n THEN x ELSE x - n
OBVIOUS

(* The place k after head in a ring of m.                                  *)
Slot(h, m, k) == IF h + k < m THEN h + k ELSE h + k - m

Read(b, h, c, m) == [n \in 1 .. c |-> b[(h + n - 1) % m]]

(* Reading c places from h on.                                             *)
LEMMA ReadRing ==
  ASSUME NEW m \in Nat, NEW c \in Nat, c <= m, NEW h \in Nat, m > 0 => h < m,
         NEW b \in [Places(m) -> Cells]
  PROVE  /\ Read(b, h, c, m) \in Seq(Cells) /\ Len(Read(b, h, c, m)) = c
         /\ \A n \in 1 .. c : Slot(h, m, n - 1) \in 0 .. m - 1
                           /\ Read(b, h, c, m)[n] = b[Slot(h, m, n - 1)]
<1>1. ASSUME NEW n \in 1 .. c
      PROVE  /\ Slot(h, m, n - 1) \in 0 .. m - 1
             /\ (h + n - 1) % m = Slot(h, m, n - 1)
  <2>1. m \in Nat \ {0} /\ h < m
    OBVIOUS
  <2>2. PICK x \in Nat : x = h + n - 1
    OBVIOUS
  <2>3. x < 2 * m /\ Slot(h, m, n - 1) = IF x < m THEN x ELSE x - m
    BY <2>1, <2>2 DEF Slot
  <2>4. x % m = IF x < m THEN x ELSE x - m
    BY <2>1, <2>3, Wraps
  <2> QED BY <2>1, <2>2, <2>3, <2>4
<1>2. Read(b, h, c, m) = [n \in 1 .. c |-> b[Slot(h, m, n - 1)]]
  BY <1>1 DEF Read
<1>3. \A n \in 1 .. c : b[Slot(h, m, n - 1)] \in Cells
  BY <1>1 DEF Places
<1>4. Read(b, h, c, m) \in [1 .. c -> Cells]
  BY <1>2, <1>3
<1>5. Read(b, h, c, m) \in Seq(Cells) /\ Len(Read(b, h, c, m)) = c
  BY <1>4, LenProperties
<1> QED BY <1>1, <1>2, <1>5

(* What the queue holds, for ReadRing.                                     *)
LEMMA ContentsRead ==
  ASSUME Ring
  PROVE  /\ Contents = Read(buffer, head, item_count, max_items)
         /\ Contents \in Seq(Cells) /\ Len(Contents) = item_count
         /\ \A n \in 1 .. item_count :
              /\ Slot(head, max_items, n - 1) \in 0 .. max_items - 1
              /\ Contents[n] = buffer[Slot(head, max_items, n - 1)]
<1>1. Contents = Read(buffer, head, item_count, max_items)
  BY DEF Contents, Read
<1>2. /\ max_items \in Nat /\ item_count \in Nat /\ item_count <= max_items
      /\ head \in Nat /\ (max_items > 0 => head < max_items)
      /\ buffer \in [Places(max_items) -> Cells]
  BY DEF Ring
<1> QED BY <1>1, <1>2, ReadRing

(* The same after a step.                                                  *)
LEMMA ContentsReadNext ==
  ASSUME Ring'
  PROVE  /\ Contents' \in Seq(Cells) /\ Len(Contents') = item_count'
         /\ \A n \in 1 .. item_count' : Contents'[n] = buffer'[Slot(head', max_items', n - 1)]
<1>1. Contents' = Read(buffer', head', item_count', max_items')
  BY DEF Contents, Read
<1>2. /\ max_items' \in Nat /\ item_count' \in Nat /\ item_count' <= max_items'
      /\ head' \in Nat /\ (max_items' > 0 => head' < max_items')
      /\ buffer' \in [Places(max_items') -> Cells]
  BY DEF Ring, Places, Cells
<1> QED BY <1>1, <1>2, ReadRing

(* The empty queue has no contents.                                        *)
LEMMA EmptyContents ==
  ASSUME Ring, item_count = 0
  PROVE  Contents = <<>>
  BY ContentsRead, EmptySeq

(* Before queue_create there is no queue.                                  *)
LEMMA InitRing == QueueInit => Ring /\ Fifo!Init
<1> SUFFICES ASSUME QueueInit PROVE Ring /\ Fifo!Init
  OBVIOUS
<1>1. Ring
  BY DEF QueueInit, Ring, Places
<1>2. item_count = 0 /\ max_items = 0
  BY DEF QueueInit
<1> QED BY <1>1, <1>2, EmptyContents DEF Fifo!Init

(* queue_create and queue_delete leave an empty ring.                      *)
LEMMA ClearStep ==
  ASSUME NEW n \in Nat, Clear(n)
  PROVE  Ring' /\ Contents' = <<>> /\ max_items' = n
<1>1. /\ max_items' = n /\ item_count' = 0 /\ head' = 0 /\ tail' = 0
      /\ buffer' = [i \in Places(n) |-> NULL]
  BY DEF Clear
<1>2. n > 0 => 0 = (0 + 0) % n
  BY Wraps
<1>3. Ring'
  BY <1>1, <1>2 DEF Ring, Cells
<1>4. Contents' = [k \in 1 .. 0 |-> buffer'[(0 + k - 1) % n]]
  BY <1>1 DEF Contents
<1>5. [k \in 1 .. 0 |-> buffer'[(0 + k - 1) % n]] = <<>>
  OBVIOUS
<1> QED BY <1>1, <1>3, <1>4, <1>5

(* A step that leaves the queue alone.                                     *)
LEMMA RingUnchanged ==
  ASSUME Ring, UNCHANGED queueVars
  PROVE  Ring' /\ UNCHANGED Fifo!vars
  BY DEF queueVars, Ring, Contents, Fifo!vars

(* Put appends the item: it goes to the only place not read so far.        *)
LEMMA PutSends ==
  ASSUME Ring, ~Full, NEW i \in Items, Put(i)
  PROVE  Ring' /\ Fifo!Send
<1>1. /\ buffer' = [buffer EXCEPT ![tail] = i]
      /\ tail' = (tail + 1) % max_items
      /\ item_count' = item_count + 1
      /\ head' = head /\ max_items' = max_items
  BY DEF Put
<1>2. /\ max_items \in Nat \ {0} /\ item_count < max_items /\ head < max_items
      /\ head \in Nat /\ item_count \in Nat
  BY DEF Ring, Full
<1>3. tail = Slot(head, max_items, item_count) /\ tail \in 0 .. max_items - 1
  <2>1. PICK x \in Nat : x = head + item_count
    BY <1>2
  <2>2. x < 2 * max_items
    BY <1>2, <2>1
  <2>3. x % max_items = IF x < max_items THEN x ELSE x - max_items
    BY <1>2, <2>2, Wraps
  <2> QED BY <1>2, <2>1, <2>2, <2>3 DEF Ring, Slot
<1>4. tail' = IF tail + 1 < max_items THEN tail + 1 ELSE tail + 1 - max_items
  BY <1>1, <1>2, <1>3, Wraps
<1>5. (head + item_count + 1) % max_items = tail'
  <2>1. PICK x \in Nat : x = head + item_count + 1
    BY <1>2
  <2>2. x < 2 * max_items
    BY <1>2, <2>1
  <2>3. x % max_items = IF x < max_items THEN x ELSE x - max_items
    BY <1>2, <2>2, Wraps
  <2> QED BY <1>2, <1>3, <1>4, <2>1, <2>2, <2>3 DEF Slot
<1>6. Ring'
  <2>1. buffer' \in [Places(max_items') -> Cells]
    BY <1>1, <1>2, <1>3 DEF Ring, Places, Cells
  <2>2. tail' \in Nat /\ tail' < max_items
    BY <1>2, <1>3, <1>4
  <2>3. tail' = (head' + item_count') % max_items'
    BY <1>1, <1>2, <1>5
  <2> QED BY <1>1, <1>2, <2>1, <2>2, <2>3 DEF Ring
<1>7. Contents \in Seq(Cells) /\ Len(Contents) = item_count
      /\ \A n \in 1 .. item_count :
           /\ Slot(head, max_items, n - 1) \in 0 .. max_items - 1
           /\ Contents[n] = buffer[Slot(head, max_items, n - 1)]
  BY ContentsRead
<1>8. Contents' \in Seq(Cells) /\ Len(Contents') = item_count + 1
      /\ \A n \in 1 .. item_count + 1 : Contents'[n] = buffer'[Slot(head, max_items, n - 1)]
  BY <1>1, <1>6, ContentsReadNext
<1>9. \A n \in 1 .. item_count : Slot(head, max_items, n - 1) # tail
  BY <1>2, <1>3 DEF Slot
<1>10. Contents' = Append(Contents, i)
  <2>1. i \in Cells
    BY DEF Cells
  <2>2. /\ Append(Contents, i) \in Seq(Cells)
        /\ Len(Append(Contents, i)) = item_count + 1
        /\ \A n \in 1 .. item_count : Append(Contents, i)[n] = Contents[n]
        /\ Append(Contents, i)[item_count + 1] = i
    BY <1>7, <2>1, AppendProperties
  <2>3. ASSUME NEW n \in 1 .. item_count PROVE Contents'[n] = Contents[n]
    <3>1. buffer'[Slot(head, max_items, n - 1)] = buffer[Slot(head, max_items, n - 1)]
      BY <1>1, <1>2, <1>7, <1>9 DEF Ring, Places
    <3> QED BY <1>2, <1>7, <1>8, <3>1
  <2>4. Contents'[item_count + 1] = i
    <3>1. buffer'[tail] = i
      BY <1>1, <1>2, <1>3 DEF Ring, Places
    <3>2. Slot(head, max_items, item_count + 1 - 1) = tail
      BY <1>2, <1>3
    <3> QED BY <1>2, <1>8, <3>1, <3>2
  <2>5. \A n \in 1 .. item_count + 1 : Contents'[n] = Append(Contents, i)[n]
    BY <1>2, <2>2, <2>3, <2>4
  <2> QED BY <1>8, <2>2, <2>5, SeqEqual
<1> QED BY <1>1, <1>2, <1>6, <1>7, <1>10 DEF Fifo!Send

(* Get takes the first item off.                                           *)
LEMMA GetReceives ==
  ASSUME Ring, ~Empty, Get
  PROVE  Ring' /\ Fifo!Receive
<1>1. /\ head' = (head + 1) % max_items
      /\ item_count' = item_count - 1
      /\ tail' = tail /\ max_items' = max_items /\ buffer' = buffer
  BY DEF Get
<1>2. /\ max_items \in Nat \ {0} /\ item_count \in Nat \ {0} /\ item_count <= max_items
      /\ head \in Nat /\ head < max_items
  BY DEF Ring, Empty
<1>3. head' = IF head + 1 < max_items THEN head + 1 ELSE head + 1 - max_items
  <2>1. PICK x \in Nat : x = head + 1
    BY <1>2
  <2>2. x < 2 * max_items
    BY <1>2, <2>1
  <2>3. x % max_items = IF x < max_items THEN x ELSE x - max_items
    BY <1>2, <2>2, Wraps
  <2> QED BY <1>1, <1>2, <2>1, <2>3
<1>4. head' \in Nat /\ head' < max_items
  BY <1>2, <1>3
<1>5. tail = (head' + item_count') % max_items
  <2>1. PICK x, y : x = head + item_count /\ y = head' + item_count'
    OBVIOUS
  <2>2. /\ x \in Nat /\ y \in Nat /\ x < 2 * max_items /\ y < 2 * max_items
        /\ (head + 1 < max_items => y = x)
        /\ (head + 1 >= max_items => x >= max_items /\ y = x - max_items)
    BY <1>1, <1>2, <1>3, <1>4, <2>1
  <2>3. x % max_items = IF x < max_items THEN x ELSE x - max_items
    BY <1>2, <2>2, Wraps
  <2>4. y % max_items = IF y < max_items THEN y ELSE y - max_items
    BY <1>2, <2>2, Wraps
  <2>5. tail = x % max_items
    BY <1>2, <2>1 DEF Ring
  <2> QED BY <1>2, <2>1, <2>2, <2>3, <2>4, <2>5
<1>6. Ring'
  BY <1>1, <1>2, <1>4, <1>5 DEF Ring
<1>7. Contents \in Seq(Cells) /\ Len(Contents) = item_count
      /\ \A n \in 1 .. item_count : Contents[n] = buffer[Slot(head, max_items, n - 1)]
  BY ContentsRead
<1>8. Contents' \in Seq(Cells) /\ Len(Contents') = item_count - 1
      /\ \A n \in 1 .. item_count - 1 : Contents'[n] = buffer[Slot(head', max_items, n - 1)]
  BY <1>1, <1>6, ContentsReadNext
<1>9. \A n \in 1 .. item_count - 1 : Slot(head', max_items, n - 1) = Slot(head, max_items, n)
  BY <1>1, <1>2, <1>3 DEF Slot
<1>10. Contents # <<>>
  BY <1>2, <1>7, EmptySeq
<1>11. Contents' = Tail(Contents)
  <2>1. /\ Tail(Contents) \in Seq(Cells) /\ Len(Tail(Contents)) = item_count - 1
        /\ \A n \in 1 .. item_count - 1 : Tail(Contents)[n] = Contents[n + 1]
    BY <1>7, <1>10, HeadTailProperties
  <2>2. ASSUME NEW n \in 1 .. item_count - 1 PROVE Contents'[n] = Tail(Contents)[n]
    <3>1. n + 1 \in 1 .. item_count /\ n + 1 - 1 = n
      BY <1>2
    <3>2. Contents[n + 1] = buffer[Slot(head, max_items, n)]
      BY <1>7, <3>1
    <3> QED BY <1>8, <1>9, <2>1, <3>2
  <2> QED BY <1>2, <1>8, <2>1, <2>2, SeqEqual
<1> QED BY <1>1, <1>6, <1>10, <1>11 DEF Fifo!Receive

(* Every step of the tasks is a step of the FIFO, or changes nothing in it. *)
LEMMA StepRefines == Ring /\ [QueueNext]_allVars => Ring' /\ [Fifo!Next]_(Fifo!vars)
<1> SUFFICES ASSUME Ring, [QueueNext]_allVars PROVE Ring' /\ [Fifo!Next]_(Fifo!vars)
  OBVIOUS
<1>1. CASE UNCHANGED queueVars
  BY <1>1, RingUnchanged
<1>2. ASSUME NEW i \in Items, ~Full, Put(i)
      PROVE  Ring' /\ [Fifo!Next]_(Fifo!vars)
  BY <1>2, PutSends DEF Fifo!Next
<1>3. CASE ~Empty /\ Get
  BY <1>3, GetReceives DEF Fifo!Next
<1>4. ASSUME NEW n \in Capacities, queue_create(n)
      PROVE  Ring' /\ [Fifo!Next]_(Fifo!vars)
  <2>1. n \in Nat \ {0} /\ max_items = 0 /\ Clear(n)
    BY <1>4, QueueAssumption DEF queue_create
  <2> QED BY <2>1, ClearStep DEF Fifo!Next, Fifo!Create
<1>5. CASE queue_delete
  BY <1>5, ClearStep DEF queue_delete, Fifo!Next, Fifo!Delete
<1>6. ASSUME NEW i \in Items, queue_send(i) \/ SendResumes(i)
      PROVE  UNCHANGED queueVars \/ (~Full /\ Put(i))
  <2>1. CASE queue_send(i)
    BY <2>1 DEF queue_send
  <2>2. CASE SendResumes(i)
    BY <2>2 DEF SendResumes
  <2> QED BY <1>6, <2>1, <2>2
<1>7. CASE queue_receive \/ ReceiveResumes
  <2>1. UNCHANGED queueVars \/ (~Empty /\ Get)
    <3>1. CASE queue_receive
      BY <3>1 DEF queue_receive
    <3>2. CASE ReceiveResumes
      BY <3>2 DEF ReceiveResumes
    <3> QED BY <1>7, <3>1, <3>2
  <2> QED BY <1>1, <1>3, <2>1
<1>8. CASE UNCHANGED allVars
  BY <1>1, <1>8 DEF allVars
<1> QED BY <1>1, <1>2, <1>4, <1>5, <1>6, <1>7, <1>8 DEF QueueNext

-----------------------------------------------------------------------------
(* The queue is a bounded FIFO (FIFO in Queue.tla): items come out in the  *)
(* order they went in, none is lost, overwritten or received twice.        *)
THEOREM QueueIsFifo == QueueSpec => FIFO
<1>1. QueueInit => Ring /\ Fifo!Init
  BY InitRing
<1>2. Ring /\ [QueueNext]_allVars => Ring' /\ [Fifo!Next]_(Fifo!vars)
  BY StepRefines
<1> QED BY <1>1, <1>2, PTL DEF QueueSpec, FIFO, Fifo!Spec

-----------------------------------------------------------------------------
(* Who waits, and for what *)

Receives == {<<"receive">>}
Sends == {<<"send", i>> : i \in Items}

QueueRests == [l \in WaitLists |-> IF l = "recv" THEN Receives ELSE Sends]

(* Items that receivers wait for, and free places that senders wait for,   *)
(* are spoken for by tasks that have been woken and are still to go on.    *)
MessagesCovered ==
  /\ SpokenFor("recv", Receives, item_count)
  /\ SpokenFor("send", Sends, max_items - item_count)

QueueIInv ==
  /\ Sane /\ WaitTypes /\ Ring
  /\ ~abandoned => WaitersOK(QueueRests) /\ MessagesCovered

(* Receivers and senders have different calls to go on with.               *)
LEMMA QueueRestsDiffer ==
  /\ "recv" \in WaitLists /\ "send" \in WaitLists /\ "recv" # "send"
  /\ \A l \in WaitLists : l = "recv" \/ l = "send"
  /\ QueueRests["recv"] = Receives /\ QueueRests["send"] = Sends
  /\ <<>> \notin Receives /\ <<>> \notin Sends
  /\ \A rest \in Receives : rest \notin Sends
<1>1. "recv" \in WaitLists /\ "send" \in WaitLists /\ \A l \in WaitLists : l = "recv" \/ l = "send"
  BY QueueAssumption
<1>2. \A i : <<"send", i>> # <<"receive">> /\ <<"send", i>> # <<>>
  OBVIOUS
<1>3. <<"receive">> # <<>>
  OBVIOUS
<1> QED BY <1>1, <1>2, <1>3 DEF QueueRests, Receives, Sends

(* How many items and free places there are.                               *)
LEMMA RingCounts ==
  ASSUME Ring
  PROVE  item_count \in Nat /\ max_items \in Nat /\ max_items - item_count \in Nat
  BY DEF Ring

(* MessagesCovered after a step, one list at a time.                       *)
LEMMA CoveredAfter ==
  ASSUME NEW l \in WaitLists, NEW rests, NEW n \in Nat, NEW m \in Nat, SpokenFor(l, rests, n),
         waiting'[l] # <<>> => waiting[l] # <<>>, m <= n,
         Woken(l, rests) \subseteq Woken(l, rests)'
  PROVE  m > 0 /\ waiting'[l] # <<>> => m <= Cardinality(Woken(l, rests)')
  BY SpokenForStep

(* A step that moves no item, ends no call that waits, and wakes nobody to *)
(* wait.                                                                   *)
LEMMA QueueStays ==
  ASSUME Ring, MessagesCovered, UNCHANGED queueVars,
         \A l \in WaitLists : waiting'[l] # <<>> => waiting[l] # <<>>,
         Woken("recv", Receives) \subseteq Woken("recv", Receives)',
         Woken("send", Sends) \subseteq Woken("send", Sends)'
  PROVE  MessagesCovered'
<1>1. item_count \in Nat /\ max_items - item_count \in Nat
      /\ item_count' = item_count /\ max_items' = max_items
  BY RingCounts DEF queueVars
<1>2. item_count > 0 /\ waiting'["recv"] # <<>> =>
        item_count <= Cardinality(Woken("recv", Receives)')
  BY <1>1, QueueRestsDiffer, CoveredAfter DEF MessagesCovered
<1>3. max_items - item_count > 0 /\ waiting'["send"] # <<>> =>
        max_items - item_count <= Cardinality(Woken("send", Sends)')
  BY <1>1, QueueRestsDiffer, CoveredAfter DEF MessagesCovered
<1> QED BY <1>1, <1>2, <1>3 DEF MessagesCovered, SpokenFor

(* The initial state.                                                      *)
LEMMA InitQueueIInv == QueueInit => QueueIInv
<1> SUFFICES ASSUME QueueInit PROVE QueueIInv
  OBVIOUS
<1>1. waiting = [l \in WaitLists |-> <<>>] /\ resume = [t \in TCB |-> <<>>] /\ pc = "boot"
  BY DEF QueueInit, WaitingInit, Init
<1>2. WaitTypes /\ WaitersOK(QueueRests)
  BY <1>1 DEF WaitTypes, WaitersOK, RunsWaiting
<1>3. MessagesCovered
  BY <1>1, QueueRestsDiffer DEF MessagesCovered, SpokenFor
<1> QED BY <1>2, <1>3, InitRing, InitSane DEF QueueIInv, QueueInit

(* The kernel wakes no waiter and moves no item.                           *)
LEMMA KernelStepQueue ==
  ASSUME QueueIInv, KernelStep, UNCHANGED queueVars
  PROVE  QueueIInv'
<1>1. Sane /\ WaitTypes /\ Ring
  BY DEF QueueIInv
<1>2. Sane' /\ WaitTypes' /\ UNCHANGED waiting /\ (~abandoned' => ~abandoned)
  BY <1>1, KernelStepWaits
<1>3. ASSUME ~abandoned' PROVE WaitersOK(QueueRests)' /\ MessagesCovered'
  <2>1. WaitersOK(QueueRests) /\ MessagesCovered
    BY <1>2, <1>3 DEF QueueIInv
  <2>2. /\ WaitersOK(QueueRests)'
        /\ Woken("recv", Receives) \subseteq Woken("recv", Receives)'
        /\ Woken("send", Sends) \subseteq Woken("send", Sends)'
    BY <1>1, <1>3, <2>1, QueueRestsDiffer, KernelStepKeeps
  <2> QED BY <1>1, <1>2, <2>1, <2>2, QueueStays
<1> QED BY <1>1, <1>2, <1>3, RingUnchanged DEF QueueIInv

(* queue_create and queue_delete empty both waiting lists.                 *)
LEMMA ClearQueue ==
  ASSUME QueueIInv, NEW n \in Nat, Clear(n)
  PROVE  QueueIInv'
<1>1. UNCHANGED <<lists, pc, cursor, current_task, scheduler_running, resume, abandoned>>
      /\ waiting' = [l \in WaitLists |-> <<>>]
  BY DEF Clear, vars, schedVars, controlVars
<1>2. Sane' /\ WaitTypes' /\ WaitersOK(QueueRests)'
  BY <1>1 DEF QueueIInv, Sane, WaitTypes, WaitersOK, RunsWaiting
<1>3. MessagesCovered'
  BY <1>1, QueueRestsDiffer DEF MessagesCovered, SpokenFor
<1> QED BY <1>2, <1>3, ClearStep DEF QueueIInv

(* A task waits on a list for whose members there is nothing.              *)
LEMMA BlockQueue ==
  ASSUME QueueIInv, UNCHANGED queueVars, Calling("queue"), NEW ms, NEW l \in WaitLists, NEW rest,
         Block(lists, l, ms, rest), rest \in QueueRests[l],
         l = "recv" => Empty, l = "send" => Full
  PROVE  QueueIInv'
<1>1. Sane /\ WaitTypes /\ Ring /\ Plain(lists)
  BY DEF QueueIInv, Sane
<1>2. /\ Sane' /\ WaitTypes' /\ (~abandoned' => ~abandoned)
      /\ \A n \in WaitLists \ {l} : waiting'[n] = waiting[n]
  BY <1>1, BlockWaits
<1>3. ASSUME ~abandoned' PROVE WaitersOK(QueueRests)' /\ MessagesCovered'
  <2>1. WaitersOK(QueueRests) /\ MessagesCovered
    BY <1>2, <1>3 DEF QueueIInv
  <2>2. /\ WaitersOK(QueueRests)'
        /\ \A n \in WaitLists \ {l} : \A rests :
              <<>> \notin rests => Woken(n, rests) \subseteq Woken(n, rests)'
    BY <1>1, <1>3, <2>1, BlockKeeps
  <2>3. /\ item_count \in Nat /\ max_items \in Nat /\ max_items - item_count \in Nat
        /\ item_count' = item_count /\ max_items' = max_items
    BY <1>1, RingCounts DEF queueVars
  <2>4. SpokenFor("recv", Receives, item_count)'
    <3>1. CASE l = "recv"
      BY <2>3, <3>1 DEF SpokenFor, Empty
    <3>2. CASE l # "recv"
      <4>1. /\ Woken("recv", Receives) \subseteq Woken("recv", Receives)'
            /\ waiting'["recv"] = waiting["recv"]
        BY <1>2, <2>2, <3>2, QueueRestsDiffer
      <4>2. item_count > 0 /\ waiting'["recv"] # <<>> =>
              item_count <= Cardinality(Woken("recv", Receives)')
        BY <2>1, <2>3, <4>1, QueueRestsDiffer, CoveredAfter DEF MessagesCovered
      <4> QED BY <2>3, <4>2 DEF SpokenFor
    <3> QED BY <3>1, <3>2
  <2>5. SpokenFor("send", Sends, max_items - item_count)'
    <3>1. CASE l = "send"
      BY <2>3, <3>1 DEF SpokenFor, Full
    <3>2. CASE l # "send"
      <4>1. /\ Woken("send", Sends) \subseteq Woken("send", Sends)'
            /\ waiting'["send"] = waiting["send"]
        BY <1>2, <2>2, <3>2, QueueRestsDiffer
      <4>2. max_items - item_count > 0 /\ waiting'["send"] # <<>> =>
              max_items - item_count <= Cardinality(Woken("send", Sends)')
        BY <2>1, <2>3, <4>1, QueueRestsDiffer, CoveredAfter DEF MessagesCovered
      <4> QED BY <2>3, <4>2 DEF SpokenFor
    <3> QED BY <3>1, <3>2
  <2> QED BY <2>2, <2>4, <2>5 DEF MessagesCovered
<1> QED BY <1>1, <1>2, <1>3, RingUnchanged DEF QueueIInv

(* The current task moves an item and wakes the first waiter of list l,    *)
(* for which there is one unit more.  If it was woken itself, it is one of *)
(* those the units of the other list were spoken for by.                   *)
LEMMA MoveWaits ==
  ASSUME Sane, WaitTypes, WaitersOK(QueueRests), pc = "app", NEW l \in WaitLists,
         WakeFirst(lists, l), UNCHANGED resume \/ Return, resume[current_task] \notin QueueRests[l],
         NEW o \in WaitLists \ {l},
         resume[current_task] \in QueueRests[o] => resume'[current_task] = <<>>,
         NEW n \in Nat, SpokenFor(l, QueueRests[l], n),
         NEW m \in Nat, m > 0, SpokenFor(o, QueueRests[o], m)
  PROVE  /\ WaitersOK(QueueRests)'
         /\ n + 1 > 0 /\ waiting'[l] # <<>> => n + 1 <= Cardinality(Woken(l, QueueRests[l])')
         /\ m - 1 > 0 /\ waiting'[o] # <<>> => m - 1 <= Cardinality(Woken(o, QueueRests[o])')
<1>1. current_task \in TCB /\ Plain(lists)
  BY DEF Sane
<1>2. \A t \in TCB \ {current_task} : resume'[t] = resume[t]
  <2>1. PICK f : f = [t \in TCB |-> f[t]] /\ f = resume
    BY DEF WaitTypes
  <2> QED BY <2>1 DEF Return
<1>3. /\ UNCHANGED <<pc, current_task>> /\ waiting' \in [WaitLists -> Seq(TCB)]
      /\ \A t \in TCB : ~Blocks(t)
      /\ \A k \in WaitLists \ {l} : waiting'[k] = waiting[k]
      /\ waiting[l] = <<>> => waiting'[l] = <<>>
      /\ waiting[l] # <<>> => waiting'[l] = Tail(waiting[l])
  BY <1>1, WakeFirstWaits
<1>4. WaitersOK(QueueRests)'
  BY <1>2, <1>3, WaitersLeft
<1>5. ASSUME waiting'[l] # <<>> PROVE n + 1 <= Cardinality(Woken(l, QueueRests[l])')
  <2>1. /\ waiting[l] # <<>>
        /\ \E t \in TCB : /\ t \notin Woken(l, QueueRests[l])
                         /\ Woken(l, QueueRests[l]) \cup {t} \subseteq Woken(l, QueueRests[l])'
    BY <1>2, <1>5, WakeAddsOne
  <2>2. n + 1 \in Nat /\ n + 1 > 0 /\ n + 1 <= n + 1
    OBVIOUS
  <2> QED BY <1>5, <2>1, <2>2, SpokenForStep
<1>6. ASSUME waiting'[o] # <<>> PROVE m - 1 > 0 => m - 1 <= Cardinality(Woken(o, QueueRests[o])')
  <2>1. Named(o)' \subseteq Named(o) /\ waiting[o] # <<>>
    BY <1>3, <1>6 DEF Named
  <2>2. Woken(o, QueueRests[o]) \ {current_task} \subseteq Woken(o, QueueRests[o])'
    BY <1>2, <1>3, <2>1, WokenStay
  <2>3. m - 1 \in Nat /\ m - 1 <= m - 1
    OBVIOUS
  <2> QED BY <1>1, <1>6, <2>1, <2>2, <2>3, SpokenForStep
<1> QED BY <1>4, <1>5, <1>6

(* Put and Get, by a task that need not wait or by one that did.           *)
LEMMA PutQueue ==
  ASSUME QueueIInv, pc = "app", NEW i \in Items, ~Full, Put(i),
         \/ UNCHANGED <<resume, abandoned>> /\ resume[current_task] = <<>>
         \/ Return /\ resume[current_task] \in Sends
  PROVE  QueueIInv'
<1>1. Sane /\ WaitTypes /\ Ring /\ Plain(lists) /\ current_task \in TCB
  BY DEF QueueIInv, Sane
<1>2. /\ WakeFirst(lists, "recv") /\ item_count' = item_count + 1 /\ max_items' = max_items
      /\ UNCHANGED abandoned
  BY DEF Put, Return
<1>3. resume' = [t \in TCB |-> resume'[t]]
      /\ (resume[current_task] \in Sends => resume'[current_task] = <<>>)
  <2>1. PICK f : f = [t \in TCB |-> f[t]] /\ f = resume
    BY <1>1 DEF WaitTypes
  <2> QED BY <1>1, <2>1, QueueRestsDiffer DEF Return
<1>4. Sane' /\ waiting' \in [WaitLists -> Seq(TCB)]
  BY <1>1, <1>2, QueueRestsDiffer, WakeFirstWaits
<1>5. Sane' /\ WaitTypes' /\ Ring'
  BY <1>1, <1>3, <1>4, PutSends DEF WaitTypes
<1>6. ASSUME ~abandoned' PROVE WaitersOK(QueueRests)' /\ MessagesCovered'
  <2>1. WaitersOK(QueueRests) /\ MessagesCovered
    BY <1>2, <1>6 DEF QueueIInv
  <2>2. PICK room \in Nat : room = max_items - item_count
    BY <1>1, RingCounts
  <2>3. /\ item_count \in Nat /\ max_items \in Nat /\ room > 0
        /\ max_items' - item_count' = room - 1
    BY <1>1, <1>2, <2>2, RingCounts DEF Full
  <2>4. /\ "recv" \in WaitLists /\ "send" \in WaitLists \ {"recv"}
        /\ QueueRests["recv"] = Receives /\ QueueRests["send"] = Sends
        /\ resume[current_task] \notin QueueRests["recv"]
    BY QueueRestsDiffer
  <2>5. SpokenFor("recv", QueueRests["recv"], item_count) /\ SpokenFor("send", QueueRests["send"], room)
    BY <2>1, <2>2, <2>4 DEF MessagesCovered
  <2>6. UNCHANGED resume \/ Return
    OBVIOUS
  <2>7. /\ WaitersOK(QueueRests)'
        /\ item_count + 1 > 0 /\ waiting'["recv"] # <<>>
             => item_count + 1 <= Cardinality(Woken("recv", QueueRests["recv"])')
        /\ room - 1 > 0 /\ waiting'["send"] # <<>>
             => room - 1 <= Cardinality(Woken("send", QueueRests["send"])')
    BY <1>1, <1>2, <1>3, <2>1, <2>3, <2>4, <2>5, <2>6, MoveWaits
  <2> QED BY <1>2, <2>3, <2>4, <2>7 DEF MessagesCovered, SpokenFor
<1> QED BY <1>2, <1>5, <1>6 DEF QueueIInv

LEMMA GetQueue ==
  ASSUME QueueIInv, pc = "app", ~Empty, Get,
         \/ UNCHANGED <<resume, abandoned>> /\ resume[current_task] = <<>>
         \/ Return /\ resume[current_task] \in Receives
  PROVE  QueueIInv'
<1>1. Sane /\ WaitTypes /\ Ring /\ Plain(lists) /\ current_task \in TCB
  BY DEF QueueIInv, Sane
<1>2. /\ WakeFirst(lists, "send") /\ item_count' = item_count - 1 /\ max_items' = max_items
      /\ UNCHANGED abandoned
  BY DEF Get, Return
<1>3. resume' = [t \in TCB |-> resume'[t]]
      /\ (resume[current_task] \in Receives => resume'[current_task] = <<>>)
  <2>1. PICK f : f = [t \in TCB |-> f[t]] /\ f = resume
    BY <1>1 DEF WaitTypes
  <2> QED BY <1>1, <2>1, QueueRestsDiffer DEF Return
<1>4. Sane' /\ waiting' \in [WaitLists -> Seq(TCB)]
  BY <1>1, <1>2, QueueRestsDiffer, WakeFirstWaits
<1>5. Sane' /\ WaitTypes' /\ Ring'
  BY <1>1, <1>3, <1>4, GetReceives DEF WaitTypes
<1>6. ASSUME ~abandoned' PROVE WaitersOK(QueueRests)' /\ MessagesCovered'
  <2>1. WaitersOK(QueueRests) /\ MessagesCovered
    BY <1>2, <1>6 DEF QueueIInv
  <2>2. PICK room \in Nat : room = max_items - item_count
    BY <1>1, RingCounts
  <2>3. /\ item_count \in Nat /\ max_items \in Nat /\ item_count > 0
        /\ max_items' - item_count' = room + 1
    BY <1>1, <1>2, <2>2, RingCounts DEF Empty
  <2>4. /\ "send" \in WaitLists /\ "recv" \in WaitLists \ {"send"}
        /\ QueueRests["recv"] = Receives /\ QueueRests["send"] = Sends
        /\ resume[current_task] \notin QueueRests["send"]
    BY QueueRestsDiffer
  <2>5. SpokenFor("recv", QueueRests["recv"], item_count) /\ SpokenFor("send", QueueRests["send"], room)
    BY <2>1, <2>2, <2>4 DEF MessagesCovered
  <2>6. UNCHANGED resume \/ Return
    OBVIOUS
  <2>7. /\ WaitersOK(QueueRests)'
        /\ room + 1 > 0 /\ waiting'["send"] # <<>>
             => room + 1 <= Cardinality(Woken("send", QueueRests["send"])')
        /\ item_count - 1 > 0 /\ waiting'["recv"] # <<>>
             => item_count - 1 <= Cardinality(Woken("recv", QueueRests["recv"])')
    BY <1>1, <1>2, <1>3, <2>1, <2>3, <2>4, <2>5, <2>6, MoveWaits
  <2> QED BY <1>2, <2>3, <2>4, <2>7 DEF MessagesCovered, SpokenFor
<1> QED BY <1>2, <1>5, <1>6 DEF QueueIInv

(* A task is woken and gives up: there is nothing for it, nor for those    *)
(* that wait on the list it was on.                                        *)
LEMMA GiveUpQueue ==
  ASSUME QueueIInv, pc = "app", Return, UNCHANGED <<vars, waiting, queueVars>>,
         \/ Full /\ resume[current_task] \in Sends
         \/ Empty /\ resume[current_task] \in Receives
  PROVE  QueueIInv'
<1>1. Sane /\ WaitTypes /\ Ring /\ current_task \in TCB
  BY DEF QueueIInv, Sane
<1>2. /\ UNCHANGED <<lists, pc, cursor, current_task, scheduler_running, waiting, abandoned>>
      /\ resume' = [resume EXCEPT ![current_task] = <<>>]
  BY DEF Return, vars, schedVars, controlVars
<1>3. resume' = [t \in TCB |-> resume'[t]]
      /\ \A t \in TCB \ {current_task} : resume'[t] = resume[t]
  <2>1. PICK f : f = [t \in TCB |-> f[t]] /\ f = resume
    BY <1>1 DEF WaitTypes
  <2> QED BY <1>2, <2>1
<1>4. Sane' /\ WaitTypes'
  BY <1>1, <1>2, <1>3 DEF Sane, WaitTypes
<1>5. ASSUME ~abandoned' PROVE WaitersOK(QueueRests)' /\ MessagesCovered'
  <2>1. WaitersOK(QueueRests) /\ MessagesCovered
    BY <1>2, <1>5 DEF QueueIInv
  <2>2. WaitersOK(QueueRests)'
    BY <1>1, <1>2, <1>3, <2>1, WaitersLeft DEF WaitTypes
  <2>3. /\ item_count \in Nat /\ max_items \in Nat /\ max_items - item_count \in Nat
        /\ item_count' = item_count /\ max_items' = max_items
    BY <1>1, RingCounts DEF queueVars
  <2>4. \A l \in WaitLists : \A rests :
          resume[current_task] \notin rests => Woken(l, rests) \subseteq Woken(l, rests)'
    BY <1>2, <1>3 DEF Woken, Named
  <2>5. CASE Full /\ resume[current_task] \in Sends
    <3>1. SpokenFor("send", Sends, max_items - item_count)'
      BY <2>3, <2>5 DEF SpokenFor, Full
    <3>2. Woken("recv", Receives) \subseteq Woken("recv", Receives)'
      BY <2>4, <2>5, QueueRestsDiffer
    <3>3. item_count > 0 /\ waiting'["recv"] # <<>> =>
            item_count <= Cardinality(Woken("recv", Receives)')
      BY <1>2, <2>1, <2>3, <3>2, QueueRestsDiffer, CoveredAfter DEF MessagesCovered
    <3> QED BY <2>2, <2>3, <3>1, <3>3 DEF MessagesCovered, SpokenFor
  <2>6. CASE Empty /\ resume[current_task] \in Receives
    <3>1. SpokenFor("recv", Receives, item_count)'
      BY <2>3, <2>6 DEF SpokenFor, Empty
    <3>2. Woken("send", Sends) \subseteq Woken("send", Sends)'
      BY <2>4, <2>6, QueueRestsDiffer
    <3>3. max_items - item_count > 0 /\ waiting'["send"] # <<>> =>
            max_items - item_count <= Cardinality(Woken("send", Sends)')
      BY <1>2, <2>1, <2>3, <3>2, QueueRestsDiffer, CoveredAfter DEF MessagesCovered
    <3> QED BY <2>2, <2>3, <3>1, <3>3 DEF MessagesCovered, SpokenFor
  <2> QED BY <2>2, <2>5, <2>6
<1> QED BY <1>1, <1>2, <1>4, <1>5, RingUnchanged DEF QueueIInv

(* Every step preserves QueueIInv.                                         *)
LEMMA NextQueueIInv == QueueIInv /\ [QueueNext]_allVars => QueueIInv'
<1> SUFFICES ASSUME QueueIInv, [QueueNext]_allVars PROVE QueueIInv'
  OBVIOUS
<1>1. CASE KernelStep /\ UNCHANGED queueVars
  BY <1>1, KernelStepQueue
<1>2. ASSUME NEW n \in Capacities, queue_create(n) PROVE QueueIInv'
  BY <1>2, QueueAssumption, ClearQueue DEF queue_create
<1>3. CASE queue_delete
  BY <1>3, ClearQueue DEF queue_delete
<1>4. ASSUME NEW i \in Items, queue_send(i) PROVE QueueIInv'
  <2>1. pc = "app" /\ resume[current_task] = <<>> /\ Calling("queue")
    BY <1>4 DEF queue_send, Calling, MayCall
  <2>2. ASSUME Full, NEW ms, Block(lists, "send", ms, <<"send", i>>), UNCHANGED queueVars
        PROVE  QueueIInv'
    <3>1. <<"send", i>> \in QueueRests["send"] /\ "send" \in WaitLists /\ "send" # "recv"
      BY QueueRestsDiffer DEF Sends
    <3> QED BY <2>1, <2>2, <3>1, BlockQueue
  <2>3. CASE ~Full /\ Put(i) /\ UNCHANGED <<resume, abandoned>>
    BY <2>1, <2>3, PutQueue
  <2> QED BY <1>4, <2>2, <2>3 DEF queue_send
<1>5. ASSUME NEW i \in Items, SendResumes(i) PROVE QueueIInv'
  <2>1. pc = "app" /\ resume[current_task] \in Sends /\ Return
    BY <1>5 DEF SendResumes, Resuming, Sends
  <2>2. CASE Full
    BY <1>5, <2>1, <2>2, GiveUpQueue DEF SendResumes
  <2>3. CASE ~Full
    BY <1>5, <2>1, <2>3, PutQueue DEF SendResumes
  <2> QED BY <2>2, <2>3
<1>6. CASE queue_receive
  <2>1. pc = "app" /\ resume[current_task] = <<>> /\ Calling("queue")
    BY <1>6 DEF queue_receive, Calling, MayCall
  <2>2. ASSUME Empty, NEW ms, Block(lists, "recv", ms, <<"receive">>), UNCHANGED queueVars
        PROVE  QueueIInv'
    <3>1. <<"receive">> \in QueueRests["recv"] /\ "recv" \in WaitLists /\ "recv" # "send"
      BY QueueRestsDiffer DEF Receives
    <3> QED BY <2>1, <2>2, <3>1, BlockQueue
  <2>3. CASE ~Empty /\ Get /\ UNCHANGED <<resume, abandoned>>
    BY <2>1, <2>3, GetQueue
  <2> QED BY <1>6, <2>2, <2>3 DEF queue_receive
<1>7. CASE ReceiveResumes
  <2>1. pc = "app" /\ resume[current_task] \in Receives /\ Return
    BY <1>7 DEF ReceiveResumes, Resuming, Receives
  <2>2. CASE Empty
    BY <1>7, <2>1, <2>2, GiveUpQueue DEF ReceiveResumes
  <2>3. CASE ~Empty
    BY <1>7, <2>1, <2>3, GetQueue DEF ReceiveResumes
  <2> QED BY <2>2, <2>3
<1>8. CASE UNCHANGED allVars
  <2>1. UNCHANGED <<lists, pc, cursor, current_task, scheduler_running, waiting, resume,
                    abandoned, max_items, item_count, head, tail, buffer>>
    BY <1>8 DEF allVars, vars, schedVars, controlVars, waitVars, queueVars
  <2> QED BY <2>1 DEF QueueIInv, Sane, WaitTypes, Ring, WaitersOK, RunsWaiting, MessagesCovered,
                      SpokenFor, Woken, Named
<1> QED BY <1>1, <1>2, <1>3, <1>4, <1>5, <1>6, <1>7, <1>8 DEF QueueNext

-----------------------------------------------------------------------------
(* The inductive invariant holds in every state.                           *)
THEOREM QueueInvariance == QueueSpec => []QueueIInv
<1> QED BY InitQueueIInv, NextQueueIInv, PTL DEF QueueSpec

(* No message is left behind (NoLostMessage in Queue.tla): while items and *)
(* waiting receivers are there, a woken receiver is still to receive, and  *)
(* while places and waiting senders are there, a woken sender to send.     *)
THEOREM MessagesNotLost == QueueSpec => []NoLostMessage
<1>1. QueueIInv => NoLostMessage
  <2> SUFFICES ASSUME QueueIInv, ~abandoned
               PROVE  /\ item_count > 0 /\ waiting["recv"] # <<>> => OneIsWoken(Receives)
                      /\ item_count < max_items /\ waiting["send"] # <<>> => OneIsWoken(Sends)
    BY DEF NoLostMessage, Receives, Sends
  <2>1. item_count \in Nat /\ max_items \in Nat /\ max_items - item_count \in Nat
    BY RingCounts DEF QueueIInv
  <2>2. item_count > 0 /\ waiting["recv"] # <<>> => OneIsWoken(Receives)
    BY <2>1, QueueRestsDiffer, SpokenForBySome DEF QueueIInv, MessagesCovered
  <2>3. item_count < max_items => max_items - item_count > 0
    BY <2>1
  <2>4. item_count < max_items /\ waiting["send"] # <<>> => OneIsWoken(Sends)
    BY <2>1, <2>3, QueueRestsDiffer, SpokenForBySome DEF QueueIInv, MessagesCovered
  <2> QED BY <2>2, <2>4
<1> QED BY <1>1, QueueInvariance, PTL

=============================================================================
