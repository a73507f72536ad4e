---------------------------- MODULE Kernel_proofs ----------------------------
(***************************************************************************)
(* The message queues of the kernel are double-ended queues, and its       *)
(* memory partition loses no block, for every size, any tasks, events and  *)
(* messages, and whatever the applications call.                           *)
(***************************************************************************)
EXTENDS Kernel, SequenceTheorems, TLAPS

BlockFields == {"type", "cnt", "pip", "ptr", "grp"}

(* E is a table of event control blocks; their PIPs are priorities.        *)
Typed(E) ==
  DOMAIN E = Events /\ \A e \in Events : DOMAIN E[e] = BlockFields /\ E[e].pip \in Prios

Rings == [slots : [0..QSize - 1 -> Msgs \cup {NoMsg}],
          in : 0..QSize - 1, out : 0..QSize - 1, entries : 0..QSize]

(* OSQIn is as far behind OSQOut as there are entries, and each entry is a *)
(* message.                                                                *)
RingOK(q) ==
  /\ q \in Rings
  /\ q.in = IF q.out + q.entries < QSize THEN q.out + q.entries
                                         ELSE (q.out + q.entries) - QSize
  /\ \A i \in 1..q.entries : q.slots[Slot(q, i)] \in Msgs

QueueInv ==
  /\ Typed(event)
  /\ app \in Apps
  /\ OSQTbl \in [Events -> Rings]
  /\ \A e \in Events : RingOK(OSQTbl[e])

Flushed(q) == [q EXCEPT !.in = 0, !.out = 0, !.entries = 0]
QueueContents == [e \in Events |-> IF IsQ(e) THEN Content(OSQTbl[e]) ELSE <<>>]

-----------------------------------------------------------------------------
(* The content of a ring is a sequence of as many messages as it has       *)
(* entries.                                                                *)
LEMMA ContentIsSeq ==
  ASSUME NEW q, RingOK(q)
  PROVE  Content(q) \in Seq(Msgs) /\ Len(Content(q)) = q.entries
<1>1. q.entries \in Nat
  BY QAssumption DEF RingOK, Rings
<1>2. Content(q) \in [1..q.entries -> Msgs]
  BY <1>1 DEF RingOK, Content
<1> QED
  BY <1>1, <1>2

(* In a ring of S slots from slot o on: the slot of the i-th entry, and the *)
(* slots before and after.                                                 *)
SlotOf(S, o, i) == IF o + i <= S THEN (o + i) - 1 ELSE (o + i) - (S + 1)
Before(S, o) == IF o = 0 THEN S - 1 ELSE o - 1
After(S, o) == IF o + 1 = S THEN 0 ELSE o + 1

(* The slot behind n entries from slot o on.                               *)
Behind(S, o, n) == IF o + n < S THEN o + n ELSE (o + n) - S

(* An entry is not where the next one goes in.                             *)
LEMMA SlotsInside ==
  ASSUME NEW S \in Nat \ {0}, NEW o \in 0..S - 1, NEW n \in 0..S - 1, NEW i \in 1..n
  PROVE  SlotOf(S, o, i) \in 0..S - 1 /\ SlotOf(S, o, i) # Behind(S, o, n)
  BY DEF SlotOf, Behind

(* The next one goes in at OSQIn, which moves on by one.                   *)
LEMMA SlotBehind ==
  ASSUME NEW S \in Nat \ {0}, NEW o \in 0..S - 1, NEW n \in 0..S - 1
  PROVE  SlotOf(S, o, n + 1) = Behind(S, o, n)
         /\ After(S, Behind(S, o, n)) = Behind(S, o, n + 1)
  BY DEF SlotOf, Behind, After

(* A message put in at OSQIn is the last.                                  *)
LEMMA PutAppends ==
  ASSUME NEW q, RingOK(q), q.entries < QSize, NEW m \in Msgs
  PROVE  RingOK(Put(q, m)) /\ Content(Put(q, m)) = Append(Content(q), m)
<1> DEFINE r == Put(q, m)
<1>1. /\ q.slots \in [0..QSize - 1 -> Msgs \cup {NoMsg}]
      /\ q.in \in 0..QSize - 1 /\ q.out \in 0..QSize - 1 /\ q.entries \in 0..QSize - 1
  BY QAssumption DEF RingOK, Rings
<1>2. /\ r.slots = [q.slots EXCEPT ![q.in] = m] /\ r.in = Next1(q.in)
      /\ r.out = q.out /\ r.entries = q.entries + 1
  BY DEF Put, RingOK, Rings
<1>3. r \in Rings
  <2>1. Next1(q.in) \in 0..QSize - 1 /\ q.entries + 1 \in 0..QSize
    BY <1>1, QAssumption DEF Next1
  <2> QED
    BY <1>1, <2>1 DEF Put, RingOK, Rings
<1>a. q.in = Behind(QSize, q.out, q.entries)
  BY DEF RingOK, Behind
<1> HIDE DEF r
<1>4. ASSUME NEW i \in 1..q.entries
      PROVE  Slot(r, i) = Slot(q, i) /\ Slot(q, i) \in 0..QSize - 1 /\ Slot(q, i) # q.in
  <2>1. Slot(r, i) = SlotOf(QSize, q.out, i) /\ Slot(q, i) = SlotOf(QSize, q.out, i)
    BY <1>2 DEF Slot, SlotOf
  <2> QED
    BY <1>1, <1>a, <2>1, QAssumption, SlotsInside
<1>5. Slot(r, q.entries + 1) = q.in
  <2>1. Slot(r, q.entries + 1) = SlotOf(QSize, q.out, q.entries + 1)
    BY <1>2 DEF Slot, SlotOf
  <2> QED
    BY <1>1, <1>a, <2>1, QAssumption, SlotBehind
<1>6. /\ \A i \in 1..q.entries : r.slots[Slot(r, i)] = q.slots[Slot(q, i)]
      /\ r.slots[Slot(r, q.entries + 1)] = m
  BY <1>1, <1>2, <1>4, <1>5
<1>7. RingOK(r)
  <2>1. r.in = After(QSize, Behind(QSize, q.out, q.entries))
    BY <1>2, <1>a DEF Next1, After
  <2>2. r.in = Behind(QSize, q.out, q.entries + 1)
    BY <1>1, <2>1, QAssumption, SlotBehind
  <2>3. r.in = IF r.out + r.entries < QSize THEN r.out + r.entries
                                            ELSE (r.out + r.entries) - QSize
    BY <1>2, <2>2 DEF Behind
  <2>4. \A i \in 1..r.entries : i \in 1..q.entries \/ i = q.entries + 1
    BY <1>1, <1>2
  <2> QED
    BY <1>3, <1>6, <2>3, <2>4 DEF RingOK
<1>8. Content(r) = Append(Content(q), m)
  <2>1. Append(Content(q), m) \in Seq(Msgs) /\ Len(Append(Content(q), m)) = q.entries + 1
        /\ \A i \in 1..q.entries + 1 :
             Append(Content(q), m)[i] = IF i <= q.entries THEN Content(q)[i] ELSE m
    BY <1>1, ContentIsSeq
  <2>2. Content(r) \in Seq(Msgs) /\ Len(Content(r)) = q.entries + 1
    BY <1>2, <1>7, ContentIsSeq
  <2>3. \A i \in 1..q.entries + 1 :
          Content(r)[i] = IF i <= q.entries THEN Content(q)[i] ELSE m
    BY <1>1, <1>2, <1>6 DEF Content
  <2> QED
    BY <2>1, <2>2, <2>3, SeqEqual
<1> QED
  BY <1>7, <1>8 DEF r

(* From the slot before OSQOut on, an entry is one place later.            *)
LEMMA SlotsBefore ==
  ASSUME NEW S \in Nat \ {0}, NEW o \in 0..S - 1, NEW i \in 1..S - 1
  PROVE  /\ SlotOf(S, Before(S, o), i + 1) = SlotOf(S, o, i)
         /\ SlotOf(S, o, i) \in 0..S - 1
         /\ SlotOf(S, o, i) # Before(S, o)
  BY DEF SlotOf, Before

(* OSQIn is as far from the slot before OSQOut as it was, and one more.    *)
LEMMA InBefore ==
  ASSUME NEW S \in Nat \ {0}, NEW o \in 0..S - 1, NEW n \in 0..S - 1
  PROVE  Behind(S, Before(S, o), n + 1) = Behind(S, o, n)
  BY DEF Behind, Before

(* OSQIn is as far from the slot after OSQOut as it was, less one.         *)
LEMMA InAfter ==
  ASSUME NEW S \in Nat \ {0}, NEW o \in 0..S - 1, NEW n \in 1..S
  PROVE  Behind(S, After(S, o), n - 1) = Behind(S, o, n)
  BY DEF Behind, After

(* From the slot after OSQOut on, an entry is one place earlier.           *)
LEMMA SlotsAfter ==
  ASSUME NEW S \in Nat \ {0}, NEW o \in 0..S - 1, NEW i \in 1..S - 1
  PROVE  SlotOf(S, After(S, o), i) = SlotOf(S, o, i + 1)
  BY DEF SlotOf, After

(* A message put in before OSQOut is the first.                            *)
LEMMA PutFrontPrepends ==
  ASSUME NEW q, RingOK(q), q.entries < QSize, NEW m \in Msgs
  PROVE  RingOK(PutFront(q, m)) /\ Content(PutFront(q, m)) = <<m>> \o Content(q)
<1> DEFINE r == PutFront(q, m)
           out == (IF q.out = 0 THEN QSize ELSE q.out) - 1
<1>1. /\ q.slots \in [0..QSize - 1 -> Msgs \cup {NoMsg}]
      /\ q.in \in 0..QSize - 1 /\ q.out \in 0..QSize - 1 /\ q.entries \in 0..QSize - 1
      /\ out \in 0..QSize - 1
  BY QAssumption DEF RingOK, Rings
<1>2. /\ r.slots = [q.slots EXCEPT ![out] = m] /\ r.in = q.in
      /\ r.out = out /\ r.entries = q.entries + 1
  BY DEF PutFront, RingOK, Rings
<1>3. r \in Rings
  <2>1. q.entries + 1 \in 0..QSize
    BY <1>1, QAssumption
  <2> QED
    BY <1>1, <2>1 DEF PutFront, RingOK, Rings
<1>a. q.in = IF q.out + q.entries < QSize THEN q.out + q.entries
                                          ELSE (q.out + q.entries) - QSize
  BY DEF RingOK
<1>b. out = IF q.out = 0 THEN QSize - 1 ELSE q.out - 1
  OBVIOUS
<1> HIDE DEF r, out
<1>4. ASSUME NEW i \in 1..q.entries
      PROVE  Slot(r, i + 1) = Slot(q, i) /\ Slot(q, i) \in 0..QSize - 1 /\ Slot(q, i) # out
  <2>1. i \in 1..QSize - 1
    BY <1>1, QAssumption
  <2>2. Slot(r, i + 1) = SlotOf(QSize, Before(QSize, q.out), i + 1)
        /\ Slot(q, i) = SlotOf(QSize, q.out, i) /\ out = Before(QSize, q.out)
    BY <1>2, <1>b DEF Slot, SlotOf, Before
  <2> QED
    BY <1>1, <2>1, <2>2, QAssumption, SlotsBefore
<1>5. Slot(r, 1) = out
  <2>1. Slot(r, 1) = IF out + 1 <= QSize THEN (out + 1) - 1 ELSE (out + 1) - (QSize + 1)
    BY <1>2 DEF Slot
  <2> QED
    BY <1>1, <2>1, QAssumption
<1>6. /\ \A i \in 1..q.entries : r.slots[Slot(r, i + 1)] = q.slots[Slot(q, i)]
      /\ r.slots[Slot(r, 1)] = m
  BY <1>1, <1>2, <1>4, <1>5
<1>7. RingOK(r)
  <2>1. r.in = Behind(QSize, q.out, q.entries)
    BY <1>2, <1>a DEF Behind
  <2>2. r.in = Behind(QSize, Before(QSize, q.out), q.entries + 1)
    BY <1>1, <2>1, QAssumption, InBefore
  <2>3. r.in = IF r.out + r.entries < QSize THEN r.out + r.entries
                                            ELSE (r.out + r.entries) - QSize
    BY <1>2, <1>b, <2>2 DEF Behind, Before
  <2>4. \A i \in 1..r.entries : i = 1 \/ (i - 1 \in 1..q.entries /\ i = (i - 1) + 1)
    BY <1>1, <1>2
  <2> QED
    BY <1>3, <1>6, <2>3, <2>4 DEF RingOK
<1>8. Content(r) = <<m>> \o Content(q)
  <2>1. <<m>> \o Content(q) \in Seq(Msgs) /\ Len(<<m>> \o Content(q)) = q.entries + 1
        /\ \A i \in 1..q.entries + 1 :
             (<<m>> \o Content(q))[i] = IF i = 1 THEN m ELSE Content(q)[i - 1]
    BY <1>1, ContentIsSeq
  <2>2. Content(r) \in Seq(Msgs) /\ Len(Content(r)) = q.entries + 1
    BY <1>2, <1>7, ContentIsSeq
  <2>3. \A i \in 1..q.entries + 1 :
          Content(r)[i] = (<<m>> \o Content(q))[i]
    <3>1. ASSUME NEW i \in 1..q.entries + 1, i # 1
          PROVE  i - 1 \in 1..q.entries /\ i = (i - 1) + 1
      BY <1>1, <3>1
    <3> QED
      BY <1>1, <1>2, <1>6, <2>1, <3>1 DEF Content
  <2> QED
    BY <2>1, <2>2, <2>3, SeqEqual
<1> QED
  BY <1>7, <1>8 DEF r

(* What is taken at OSQOut was the first.                                  *)
LEMMA GetTakesFirst ==
  ASSUME NEW q, RingOK(q), q.entries > 0
  PROVE  RingOK(Get(q)) /\ Content(Get(q)) = Tail(Content(q)) /\ Content(q) # <<>>
<1> DEFINE r == Get(q)
<1>1. /\ q.slots \in [0..QSize - 1 -> Msgs \cup {NoMsg}]
      /\ q.in \in 0..QSize - 1 /\ q.out \in 0..QSize - 1 /\ q.entries \in 1..QSize
  BY QAssumption DEF RingOK, Rings
<1>2. /\ r.slots = q.slots /\ r.in = q.in
      /\ r.out = Next1(q.out) /\ r.entries = q.entries - 1
  BY DEF Get, RingOK, Rings
<1>3. r \in Rings
  <2>1. Next1(q.out) \in 0..QSize - 1 /\ q.entries - 1 \in 0..QSize
    BY <1>1, QAssumption DEF Next1
  <2> QED
    BY <1>1, <2>1 DEF Get, RingOK, Rings
<1> HIDE DEF r
<1>4. ASSUME NEW i \in 1..q.entries - 1
      PROVE  Slot(r, i) = Slot(q, i + 1) /\ i + 1 \in 1..q.entries
  <2>1. i \in 1..QSize - 1 /\ i + 1 \in 1..q.entries
    BY <1>1, QAssumption
  <2>2. Slot(r, i) = SlotOf(QSize, After(QSize, q.out), i)
        /\ Slot(q, i + 1) = SlotOf(QSize, q.out, i + 1)
    BY <1>2 DEF Slot, SlotOf, After, Next1
  <2> QED
    BY <1>1, <2>1, <2>2, QAssumption, SlotsAfter
<1>5. RingOK(r)
  <2>1. r.in = Behind(QSize, q.out, q.entries) /\ r.out = After(QSize, q.out)
    BY <1>2 DEF RingOK, Behind, After, Next1
  <2>2. r.in = Behind(QSize, After(QSize, q.out), q.entries - 1)
    BY <1>1, <2>1, QAssumption, InAfter
  <2>3. r.in = IF r.out + r.entries < QSize THEN r.out + r.entries
                                            ELSE (r.out + r.entries) - QSize
    BY <1>2, <2>1, <2>2 DEF Behind
  <2> QED
    BY <1>2, <1>3, <1>4, <2>3 DEF RingOK
<1>6. Content(q) \in Seq(Msgs) /\ Len(Content(q)) = q.entries /\ Content(q) # <<>>
  BY <1>1, ContentIsSeq
<1>7. Content(r) = Tail(Content(q))
  <2>1. Tail(Content(q)) \in Seq(Msgs) /\ Len(Tail(Content(q))) = q.entries - 1
        /\ \A i \in 1..q.entries - 1 : Tail(Content(q))[i] = Content(q)[i + 1]
    BY <1>1, <1>6, HeadTailProperties
  <2>2. Content(r) \in Seq(Msgs) /\ Len(Content(r)) = q.entries - 1
    BY <1>2, <1>5, ContentIsSeq
  <2>3. \A i \in 1..q.entries - 1 : Content(r)[i] = Content(q)[i + 1]
    BY <1>1, <1>2, <1>4 DEF Content
  <2> QED
    BY <2>1, <2>2, <2>3, SeqEqual
<1> QED
  BY <1>5, <1>6, <1>7 DEF r

(* A ring whose pointers and count start again is empty.                   *)
LEMMA FlushedIsEmpty ==
  ASSUME NEW q, RingOK(q)
  PROVE  RingOK(Flushed(q)) /\ Content(Flushed(q)) = <<>>
<1>1. Flushed(q) \in Rings /\ Flushed(q).in = 0 /\ Flushed(q).out = 0 /\ Flushed(q).entries = 0
  <2>1. q \in Rings /\ 0 \in 0..QSize - 1 /\ 0 \in 0..QSize
    BY QAssumption DEF RingOK
  <2> QED
    BY <2>1 DEF Rings, Flushed
<1>2. RingOK(Flushed(q))
  BY <1>1, QAssumption DEF RingOK
<1> QED
  BY <1>1, <1>2, ContentIsSeq, EmptySeq

-----------------------------------------------------------------------------
(* The blocks of the table E have the types they have now.                 *)
Kept(E) == Typed(E) /\ \A e \in Events : E[e].type = event[e].type

(* What a call may do to the queue of event e: nothing, one operation of   *)
(* the ring, or end it.                                                    *)
Stays(e) == event'[e].type = event[e].type
Change(e) ==
  \/ Stays(e) /\ OSQTbl'[e] = OSQTbl[e]
  \/ /\ Stays(e) /\ OSQTbl[e].entries < QSize
     /\ \E m \in Msgs : OSQTbl'[e] \in {Put(OSQTbl[e], m), PutFront(OSQTbl[e], m)}
  \/ Stays(e) /\ OSQTbl[e].entries > 0 /\ OSQTbl'[e] = Get(OSQTbl[e])
  \/ OSQTbl'[e] = Flushed(OSQTbl[e])
  \/ event'[e].type # "q" /\ OSQTbl'[e] = OSQTbl[e]

QueueStep ==
  /\ app' = app /\ Typed(event')
  /\ OSQTbl' = [e \in Events |-> OSQTbl'[e]]
  /\ \A e \in Events : Change(e)

(* Such a step leaves rings, and is a step of the double-ended queues.     *)
LEMMA QueueStepIsDequeStep ==
  ASSUME QueueInv, QueueStep
  PROVE  QueueInv' /\ Deque!Next
<1>1. ASSUME NEW e \in Events
      PROVE  RingOK(OSQTbl'[e]) /\ Deque!Step(e)
  <2> DEFINE q == OSQTbl[e]
             r == OSQTbl'[e]
             c == QueueContents[e]
             d == QueueContents'[e]
  <2>1. RingOK(q) /\ Change(e)
    BY DEF QueueInv, QueueStep
  <2>2. c = IF IsQ(e) THEN Content(q) ELSE <<>>
    BY DEF QueueContents
  <2>3. d = IF event'[e].type = "q" THEN Content(r) ELSE <<>>
    BY DEF QueueContents, IsQ
  <2>4. Deque!Step(e) <=>
          \/ d = c
          \/ \E m \in IF Len(c) < QSize THEN Msgs ELSE {} : d = Append(c, m)
          \/ \E m \in IF Len(c) < QSize THEN Msgs ELSE {} : d = <<m>> \o c
          \/ c # <<>> /\ d = Tail(c)
          \/ d = <<>>
    BY DEF QueueContents, Deque!Step, Deque!PostBack, Deque!PostFront, Deque!Pend, Deque!Flush
  <2> HIDE DEF q, r, c, d
  <2>5. CASE Stays(e) /\ r = q
    BY <2>1, <2>2, <2>3, <2>4, <2>5 DEF Stays, IsQ, r
  <2>6. CASE Stays(e) /\ q.entries < QSize /\ \E m \in Msgs : r \in {Put(q, m), PutFront(q, m)}
    <3>1. PICK m \in Msgs : r \in {Put(q, m), PutFront(q, m)}
      BY <2>6
    <3>2. RingOK(r) /\ Content(r) \in {Append(Content(q), m), <<m>> \o Content(q)}
      BY <2>1, <2>6, <3>1, PutAppends, PutFrontPrepends
    <3>3. Len(Content(q)) < QSize
      BY <2>1, <2>6, ContentIsSeq
    <3>4. CASE IsQ(e)
      BY <2>2, <2>3, <2>4, <2>6, <3>2, <3>3, <3>4 DEF Stays, IsQ, r
    <3>5. CASE ~IsQ(e)
      BY <2>2, <2>3, <2>4, <2>6, <3>2, <3>5 DEF Stays, IsQ, r
    <3> QED
      BY <3>4, <3>5
  <2>7. CASE Stays(e) /\ q.entries > 0 /\ r = Get(q)
    <3>1. RingOK(r) /\ Content(r) = Tail(Content(q)) /\ Content(q) # <<>>
      BY <2>1, <2>7, GetTakesFirst
    <3> QED
      BY <2>2, <2>3, <2>4, <2>7, <3>1 DEF Stays, IsQ, r
  <2>8. CASE r = Flushed(q)
    BY <2>1, <2>3, <2>4, <2>8, FlushedIsEmpty DEF r
  <2>9. CASE event'[e].type # "q" /\ r = q
    BY <2>1, <2>3, <2>4, <2>9 DEF r
  <2> QED
    BY <2>1, <2>5, <2>6, <2>7, <2>8, <2>9 DEF Change, q, r
<1>2. OSQTbl' \in [Events -> Rings]
  BY <1>1 DEF QueueStep, RingOK
<1>3. QueueInv'
  BY <1>1, <1>2 DEF QueueInv, QueueStep, Typed
<1>4. Deque!Next
  BY <1>1 DEF Deque!Next
<1> QED
  BY <1>3, <1>4

-----------------------------------------------------------------------------
(* The wait lists, counts and pointers of the blocks change, the types do  *)
(* not: one block, or a table that is built anew.                          *)
LEMMA FieldsKeepTypes ==
  ASSUME Typed(event), NEW e, NEW v, NEW w
  PROVE  /\ Kept(event)
         /\ Kept([event EXCEPT ![e].cnt = v])
         /\ Kept([event EXCEPT ![e].ptr = v])
         /\ Kept([event EXCEPT ![e].cnt = v, ![e].ptr = w])
  BY DEF Kept, Typed, BlockFields

LEMMA WithoutKeepsTypes ==
  ASSUME Typed(event), NEW S, NEW e, NEW v, NEW w
  PROVE  Kept(ListsWithout(S, e)) /\ Kept([ListsWithout(S, e) EXCEPT ![e].cnt = v, ![e].ptr = w])
<1>1. Kept(ListsWithout(S, e))
  BY DEF ListsWithout, Kept, Typed, BlockFields
<1> QED
  BY <1>1 DEF Kept, Typed, BlockFields

LEMMA RenamedKeepsTypes ==
  ASSUME Typed(event), NEW t, NEW prio
  PROVE  Kept(Renamed(t, prio))
  BY DEF Renamed, Kept, Typed, BlockFields

(* So it is with every way of making tasks ready or wait.                  *)
LEMMA RdyKeepsTypes ==
  ASSUME Typed(event), NEW e, NEW S, NEW msg, NEW msk, NEW how,
         EventTaskRdy(e, S, msg, msk, how)
  PROVE  Kept(event')
  BY WithoutKeepsTypes, Zenon DEF EventTaskRdy

LEMMA WaitKeepsTypes ==
  ASSUME Typed(event), NEW call, NEW bit, NEW es, NEW timeout,
         EventTaskWait(call, bit, es, timeout)
  PROVE  Kept(event')
<1>1. PICK t : event' = [e \in Events |->
          IF e \in es THEN [event[e] EXCEPT !.grp = @ \cup {tcb[t].prio}] ELSE event[e]]
  BY Zenon DEF EventTaskWait
<1> QED
  BY <1>1 DEF Kept, Typed, BlockFields

LEMMA RemoveKeepsTypes ==
  ASSUME Typed(event), NEW t, NEW es, EventTaskRemove(t, es)
  PROVE  Kept(event')
  BY DEF EventTaskRemove, Kept, Typed, BlockFields

LEMMA WakeKeepsTypes ==
  ASSUME Typed(event), NEW call, Wake(call)
  PROVE  Kept(event')
<1>1. EventTaskRemove(OSTCBCur, local[OSTCBCur].events) \/ event' = event
  BY Zenon DEF Wake
<1> QED
  BY <1>1, RemoveKeepsTypes, FieldsKeepTypes

-----------------------------------------------------------------------------
(* A step that keeps the types and the rings changes no queue.             *)
LEMMA KeptIsStep ==
  ASSUME QueueInv, Kept(event'), OSQTbl' = OSQTbl, app' = app
  PROVE  QueueStep
  BY DEF QueueInv, QueueStep, Kept, Change, Stays

(* A block that becomes another event than a queue has none.               *)
LEMMA RetypedIsStep ==
  ASSUME QueueInv, NEW E, NEW n, NEW e \in Events, Kept(E),
         DOMAIN n = BlockFields, n.pip \in Prios, n.type # "q",
         event' = [E EXCEPT ![e] = n], OSQTbl' = OSQTbl, app' = app
  PROVE  QueueStep
<1>1. Typed(event') /\ \A x \in Events : x # e => event'[x].type = event[x].type
  BY DEF Kept, Typed
<1>2. event'[e].type # "q"
  BY DEF Kept, Typed
<1> QED
  BY <1>1, <1>2 DEF QueueInv, QueueStep, Change, Stays

(* One ring changes as a queue's may.                                      *)
LEMMA OneRingIsStep ==
  ASSUME QueueInv, NEW e \in Events, NEW q, OSQTbl' = [OSQTbl EXCEPT ![e] = q],
         Typed(event'), \A x \in Events : x # e => Stays(x), Change(e), app' = app
  PROVE  QueueStep
  BY DEF QueueInv, QueueStep, Change

(* The blocks the services make or leave.                                  *)
LEMMA FreshTypes ==
  ASSUME NEW v
  PROVE  /\ DOMAIN EventClear = BlockFields /\ EventClear.pip \in Prios /\ EventClear.type # "q"
         /\ DOMAIN SemFresh(v) = BlockFields /\ SemFresh(v).pip \in Prios /\ SemFresh(v).type # "q"
         /\ DOMAIN MboxFresh(v) = BlockFields /\ MboxFresh(v).pip \in Prios
         /\ MboxFresh(v).type # "q"
         /\ DOMAIN MutexFresh(v) = BlockFields /\ MutexFresh(v).pip = v /\ MutexFresh(v).type # "q"
         /\ DOMAIN QFresh = BlockFields /\ QFresh.pip \in Prios
<1>1. 0 \in Prios
  BY CoreAssumption DEF Prios
<1> QED
  BY <1>1 DEF EventClear, SemFresh, MboxFresh, MutexFresh, QFresh, BlockFields

-----------------------------------------------------------------------------
(* Every action is such a step. The scheduler, the flags and the memory    *)
(* leave the event control blocks alone.                                   *)
LEMMA SchedulerStep ==
  ASSUME QueueInv, Scheduler
  PROVE  QueueStep
<1>1. event' = event
  BY Zenon DEF Scheduler, OS_Sched, OSSchedLock, OSSchedUnlock, OSIntEnter, OSIntExit, OSTimeTick,
     OSTimeDly, OSTimeDlyResume, waitVars
<1>2. OSQTbl' = OSQTbl /\ app' = app
  BY Zenon DEF Scheduler, dataVars
<1> QED
  BY <1>1, <1>2, KeptIsStep, FieldsKeepTypes DEF QueueInv

LEMMA TaskManagementStep ==
  ASSUME QueueInv, TaskManagement
  PROVE  QueueStep
<1>1. \/ event' = event
      \/ \E p, q \in Prios : event' = Renamed(OSTCBPrioTbl[p], q)
  BY Zenon DEF TaskManagement, OSTaskCreate, OS_TCBInit, OSTaskDelEnds, OSTaskSuspend, OSTaskResume,
     OSTaskChangePrio, waitVars
<1>2. OSQTbl' = OSQTbl /\ app' = app
  BY Zenon DEF TaskManagement, dataVars
<1> QED
  BY <1>1, <1>2, KeptIsStep, FieldsKeepTypes, RenamedKeepsTypes DEF QueueInv

LEMMA TaskDeletionStep ==
  ASSUME QueueInv, TaskDeletion
  PROVE  QueueStep
<1>1. \E t, es : EventTaskRemove(t, es)
  BY Zenon DEF TaskDeletion, OSTaskDel
<1>2. OSQTbl' = OSQTbl /\ app' = app
  BY Zenon DEF TaskDeletion
<1> QED
  BY <1>1, <1>2, KeptIsStep, RemoveKeepsTypes DEF QueueInv

LEMMA EventFlagsStep ==
  ASSUME QueueInv, EventFlags
  PROVE  QueueStep
<1>1. ASSUME NEW g, NEW f, NEW type, NEW consume, NEW n,
             \/ OSFlagPost(g, f, type) \/ OSFlagCreate(g, f) \/ OSFlagPend(g, f, type, consume, n)
             \/ OSFlagAccept(g, f, type, consume) \/ OSFlagDel(g, n) \/ OSFlagPendEnds
      PROVE  event' = event
  <2>1. CASE OSFlagPost(g, f, type)
    BY <2>1, Zenon DEF OSFlagPost
  <2>2. CASE OSFlagCreate(g, f) \/ OSFlagAccept(g, f, type, consume)
    BY <2>2, Zenon DEF OSFlagCreate, OSFlagAccept, coreVars, waitVars
  <2>3. CASE OSFlagPend(g, f, type, consume, n)
    BY <2>3, Zenon DEF OSFlagPend, OS_FlagBlock, coreVars, waitVars
  <2>4. CASE OSFlagDel(g, n) \/ OSFlagPendEnds
    BY <2>4, Zenon DEF OSFlagDel, OSFlagPendEnds
  <2> QED
    BY <1>1, <2>1, <2>2, <2>3, <2>4
<1>2. event' = event
  BY <1>1, Zenon DEF EventFlags
<1>3. OSQTbl' = OSQTbl /\ app' = app
  BY Zenon DEF EventFlags, dataVars
<1> QED
  BY <1>2, <1>3, KeptIsStep, FieldsKeepTypes DEF QueueInv

LEMMA MemoryStep ==
  ASSUME QueueInv, Memory
  PROVE  QueueStep
<1>1. event' = event /\ OSQTbl' = OSQTbl /\ app' = app
  BY Zenon DEF Memory, coreVars, waitVars, dataVars
<1> QED
  BY <1>1, KeptIsStep, FieldsKeepTypes DEF QueueInv

(* A deletion with OS_DEL_ALWAYS, too, ends an event.                      *)
LEMMA DelAlwaysRetypes ==
  ASSUME Typed(event), NEW e, NEW bit, EventDelAlways(e, bit)
  PROVE  \E E : Kept(E) /\ event' = [E EXCEPT ![e] = EventClear]
<1>1. \E S : event' = [ListsWithout(S, e) EXCEPT ![e] = EventClear]
  BY Zenon DEF EventDelAlways
<1> QED
  BY <1>1, WithoutKeepsTypes

(* The creation and the deletion of an event that is no queue.             *)
LEMMA CreationIsStep ==
  ASSUME QueueInv, NEW e \in Events, NEW n, NEW bit, OSQTbl' = OSQTbl, app' = app,
         DOMAIN n = BlockFields, n.pip \in Prios, n.type # "q",
         \/ event' = [event EXCEPT ![e] = n] \/ EventDelAlways(e, bit)
  PROVE  QueueStep
<1>1. Typed(event) /\ Kept(event)
  BY FieldsKeepTypes DEF QueueInv
<1>2. \E E : Kept(E) /\ (event' = [E EXCEPT ![e] = n] \/ event' = [E EXCEPT ![e] = EventClear])
  BY <1>1, DelAlwaysRetypes, Zenon
<1>3. DOMAIN EventClear = BlockFields /\ EventClear.pip \in Prios /\ EventClear.type # "q"
  BY FreshTypes
<1> QED
  BY <1>2, <1>3, RetypedIsStep, Zenon

LEMMA SemaphoresStep ==
  ASSUME QueueInv, Semaphores
  PROVE  QueueStep
<1>1. OSQTbl' = OSQTbl /\ app' = app
  BY Zenon DEF Semaphores
<1>2. ASSUME NEW e \in Events, NEW n,
             \/ OSSemPend(e, n) \/ OSSemPost(e) \/ OSSemAccept(e)
             \/ OSSemSet(e, n) \/ OSSemPendAbort(e, n)
      PROVE  Kept(event')
  <2>1. \/ \E v : event' = [event EXCEPT ![e].cnt = v]
        \/ \E call, bit, es : EventTaskWait(call, bit, es, n)
        \/ \E S, msg, msk, how : EventTaskRdy(e, S, msg, msk, how)
    BY <1>2, Zenon DEF OSSemPend, OSSemPost, OSSemAccept, OSSemSet, OSSemPendAbort
  <2>2. Typed(event)
    BY DEF QueueInv
  <2>3. ASSUME NEW v, event' = [event EXCEPT ![e].cnt = v]
        PROVE  Kept(event')
    BY <2>2, <2>3, FieldsKeepTypes
  <2> QED
    BY <2>1, <2>2, <2>3, WaitKeepsTypes, RdyKeepsTypes, Zenon
<1>3. ASSUME NEW e \in Events, NEW n, OSSemCreate(e, n) \/ OSSemDel(e, n)
      PROVE  QueueStep
  <2>1. \/ event' = [event EXCEPT ![e] = SemFresh(n)]
        \/ event' = [event EXCEPT ![e] = EventClear]
        \/ EventDelAlways(e, "SEM")
    BY <1>3, Zenon DEF OSSemCreate, OSSemDel, EventInit
  <2>2. /\ DOMAIN EventClear = BlockFields /\ EventClear.pip \in Prios /\ EventClear.type # "q"
        /\ DOMAIN SemFresh(n) = BlockFields /\ SemFresh(n).pip \in Prios /\ SemFresh(n).type # "q"
    BY FreshTypes
  <2> QED
    BY <1>1, <2>1, <2>2, CreationIsStep, Zenon
<1>4. OSSemPendEnds => Kept(event')
  BY WakeKeepsTypes DEF OSSemPendEnds, QueueInv
<1> QED
  BY <1>1, <1>2, <1>3, <1>4, KeptIsStep, Zenon DEF Semaphores

LEMMA MailboxesStep ==
  ASSUME QueueInv, Mailboxes
  PROVE  QueueStep
<1>1. OSQTbl' = OSQTbl /\ app' = app
  BY Zenon DEF Mailboxes
<1>2. ASSUME NEW e \in Events, NEW n, NEW b, NEW d,
             \/ OSMboxPend(e, n) \/ OSMboxPost(e, n) \/ OSMboxPostOpt(e, n, b, d)
             \/ OSMboxAccept(e) \/ OSMboxPendAbort(e, n)
      PROVE  Kept(event')
  <2>1. \/ \E v : event' = [event EXCEPT ![e].ptr = v]
        \/ \E call, bit, es : EventTaskWait(call, bit, es, n)
        \/ \E S, msg, msk, how : EventTaskRdy(e, S, msg, msk, how)
    BY <1>2, Zenon DEF OSMboxPend, OSMboxPost, OSMboxPostOpt, OSMboxAccept, OSMboxPendAbort,
       PostToWaiters
  <2>2. Typed(event)
    BY DEF QueueInv
  <2>3. ASSUME NEW v, event' = [event EXCEPT ![e].ptr = v]
        PROVE  Kept(event')
    BY <2>2, <2>3, FieldsKeepTypes
  <2> QED
    BY <2>1, <2>2, <2>3, WaitKeepsTypes, RdyKeepsTypes, Zenon
<1>3. ASSUME NEW e \in Events, NEW n, OSMboxCreate(e, n) \/ OSMboxDel(e, n)
      PROVE  QueueStep
  <2>1. \/ event' = [event EXCEPT ![e] = MboxFresh(n)]
        \/ event' = [event EXCEPT ![e] = EventClear]
        \/ EventDelAlways(e, "MBOX")
    BY <1>3, Zenon DEF OSMboxCreate, OSMboxDel, EventInit
  <2>2. /\ DOMAIN EventClear = BlockFields /\ EventClear.pip \in Prios /\ EventClear.type # "q"
        /\ DOMAIN MboxFresh(n) = BlockFields /\ MboxFresh(n).pip \in Prios
        /\ MboxFresh(n).type # "q"
    BY FreshTypes
  <2> QED
    BY <1>1, <2>1, <2>2, CreationIsStep, Zenon
<1>4. OSMboxPendEnds => Kept(event')
  BY WakeKeepsTypes DEF OSMboxPendEnds, MsgPendEnds, QueueInv
<1> QED
  BY <1>1, <1>2, <1>3, <1>4, KeptIsStep, Zenon DEF Mailboxes

LEMMA MutexesStep ==
  ASSUME QueueInv, Mutexes
  PROVE  QueueStep
<1>1. OSQTbl' = OSQTbl /\ app' = app
  BY Zenon DEF Mutexes, dataVars
<1>2. ASSUME NEW e \in Events, NEW n, OSMutexPend(e, n) \/ OSMutexAccept(e) \/ OSMutexPost(e)
      PROVE  Kept(event')
  <2>1. CASE Acquire(e)
    <3>1. \E v, w : event' = [event EXCEPT ![e].cnt = v, ![e].ptr = w]
      BY <2>1, Zenon DEF Acquire
    <3>2. Typed(event)
      BY DEF QueueInv
    <3>3. PICK v, w : event' = [event EXCEPT ![e].cnt = v, ![e].ptr = w]
      BY <3>1
    <3> QED
      BY <3>2, <3>3, FieldsKeepTypes
  <2>2. CASE OSMutexPendBlocks(e, n)
    <3>1. event' = [x \in Events |-> [event[x] EXCEPT
            !.grp = (IF RaisesOwner(e) /\ ~(tcb[Owner(e)].prio \in OSRdyTbl) /\ x = tcb[Owner(e)].eventPtr
                     THEN (@ \ {tcb[Owner(e)].prio}) \cup {Pip(e)} ELSE @)
                    \cup (IF x = e THEN {tcb[OSTCBCur].prio} ELSE {})]]
      BY <2>2, Zenon DEF OSMutexPendBlocks
    <3> QED
      BY <3>1 DEF Kept, QueueInv, Typed, BlockFields
  <2>3. CASE OSMutexPost(e)
    <3>1. \/ \E S, v, w : event' = [ListsWithout(S, e) EXCEPT ![e].cnt = v, ![e].ptr = w]
          \/ \E v, w : event' = [event EXCEPT ![e].cnt = v, ![e].ptr = w]
      BY <2>3, Zenon DEF OSMutexPost
    <3>2. Typed(event)
      BY DEF QueueInv
    <3>3. ASSUME NEW S, NEW v, NEW w, event' = [ListsWithout(S, e) EXCEPT ![e].cnt = v, ![e].ptr = w]
          PROVE  Kept(event')
      BY <3>2, <3>3, WithoutKeepsTypes
    <3>4. ASSUME NEW v, NEW w, event' = [event EXCEPT ![e].cnt = v, ![e].ptr = w]
          PROVE  Kept(event')
      BY <3>2, <3>4, FieldsKeepTypes
    <3> QED
      BY <3>1, <3>3, <3>4, Zenon
  <2> QED
    BY <1>2, <2>1, <2>2, <2>3, Zenon DEF OSMutexPend, OSMutexAccept
<1>3. ASSUME NEW e \in Events, NEW n \in Prios, OSMutexCreate(e, n)
      PROVE  QueueStep
  <2>1. event' = [event EXCEPT ![e] = MutexFresh(n)]
    BY <1>3, Zenon DEF OSMutexCreate, EventInit
  <2>2. DOMAIN MutexFresh(n) = BlockFields /\ MutexFresh(n).pip \in Prios /\ MutexFresh(n).type # "q"
    BY FreshTypes
  <2> QED
    BY <1>1, <2>1, <2>2, CreationIsStep, Zenon
<1>4. ASSUME NEW e \in Events, NEW b, OSMutexDel(e, b)
      PROVE  QueueStep
  <2>1. \E S : event' = [ListsWithout(S, e) EXCEPT ![e] = EventClear]
    BY <1>4, Zenon DEF OSMutexDel
  <2>2. \E E : Kept(E) /\ event' = [E EXCEPT ![e] = EventClear]
    BY <2>1, WithoutKeepsTypes DEF QueueInv
  <2>3. DOMAIN EventClear = BlockFields /\ EventClear.pip \in Prios /\ EventClear.type # "q"
    BY FreshTypes
  <2> QED
    BY <1>1, <2>2, <2>3, RetypedIsStep, Zenon
<1>5. OSMutexPendEnds => Kept(event')
  BY WakeKeepsTypes DEF OSMutexPendEnds, QueueInv
<1> QED
  BY <1>1, <1>2, <1>3, <1>4, <1>5, KeptIsStep, Zenon DEF Mutexes

(* A message goes into the ring, or to a task that waits.                  *)
LEMMA PostIsStep ==
  ASSUME QueueInv, NEW e \in Events, NEW m \in Msgs, NEW front, app' = app,
         \/ Append1(e, m, front)
         \/ OSQTbl' = OSQTbl /\ \E b : PostToWaiters(e, m, "Q", b)
  PROVE  QueueStep
<1>1. Typed(event) /\ Kept(event)
  BY FieldsKeepTypes DEF QueueInv
<1>2. CASE Append1(e, m, front)
  <2>1. /\ event' = event /\ OSQTbl[e].entries < QSize
        /\ \/ OSQTbl' = [OSQTbl EXCEPT ![e] = Put(OSQTbl[e], m)]
           \/ OSQTbl' = [OSQTbl EXCEPT ![e] = PutFront(OSQTbl[e], m)]
    <3>1. event' = event /\ Entries(e) < QSize
      BY <1>2, Zenon DEF Append1, coreVars, waitVars
    <3>2. OSQTbl' = [OSQTbl EXCEPT ![e] = IF front THEN PutFront(OSQTbl[e], m)
                                                   ELSE Put(OSQTbl[e], m)]
      BY <1>2, Zenon DEF Append1
    <3> QED
      BY <3>1, <3>2, Zenon DEF Entries
  <2>2. Change(e) /\ \A x \in Events : Stays(x)
    BY <2>1 DEF Change, Stays, QueueInv
  <2> QED
    BY <1>1, <2>1, <2>2, OneRingIsStep
<1>3. CASE OSQTbl' = OSQTbl /\ \E b : PostToWaiters(e, m, "Q", b)
  <2>1. \E S, msg, msk, how : EventTaskRdy(e, S, msg, msk, how)
    BY <1>3, Zenon DEF PostToWaiters
  <2>2. Kept(event')
    BY <1>1, <2>1, RdyKeepsTypes, Zenon
  <2> QED
    BY <1>3, <2>2, KeptIsStep
<1> QED
  BY <1>2, <1>3

(* A message is taken from the ring.                                       *)
LEMMA TakeIsStep ==
  ASSUME QueueInv, NEW e \in Events, Entries(e) > 0, Take(e), event' = event, app' = app
  PROVE  QueueStep
<1>1. OSQTbl' = [OSQTbl EXCEPT ![e] = Get(OSQTbl[e])] /\ OSQTbl[e].entries > 0
  BY DEF Take, Entries
<1>2. Change(e) /\ \A x \in Events : Stays(x)
  BY <1>1 DEF Change, Stays, QueueInv
<1> QED
  BY <1>1, <1>2, OneRingIsStep DEF QueueInv

(* The ring starts again, as it is or with a queue that is made.           *)
LEMMA FlushIsStep ==
  ASSUME QueueInv, NEW e \in Events, app' = app,
         OSQTbl' = [OSQTbl EXCEPT ![e] = [@ EXCEPT !.in = 0, !.out = 0, !.entries = 0]],
         event' = event \/ event' = [event EXCEPT ![e] = QFresh]
  PROVE  QueueStep
<1>1. OSQTbl' = [OSQTbl EXCEPT ![e] = Flushed(OSQTbl[e])]
  BY DEF Flushed
<1>2. Change(e)
  BY <1>1 DEF Change, QueueInv
<1>3. Typed(event') /\ \A x \in Events : x # e => Stays(x)
  BY FreshTypes DEF QueueInv, Typed, Stays
<1> QED
  BY <1>1, <1>2, <1>3, OneRingIsStep

LEMMA QueuesStep ==
  ASSUME QueueInv, Queues
  PROVE  QueueStep
<1>1. app' = app /\ app.msgs \subseteq Msgs /\ Typed(event) /\ Kept(event)
  BY AppsAssumption, FieldsKeepTypes DEF Queues, QueueInv
<1>2. ASSUME NEW e \in Events, NEW n, OSQPend(e, n) \/ OSQAccept(e)
      PROVE  QueueStep
  <2>1. \/ Entries(e) > 0 /\ Take(e) /\ event' = event
        \/ OSQTbl' = OSQTbl /\ \E call, bit, es : EventTaskWait(call, bit, es, n)
    BY <1>2, Zenon DEF OSQPend, OSQAccept, coreVars, waitVars
  <2>2. CASE Entries(e) > 0 /\ Take(e) /\ event' = event
    BY <1>1, <2>2, TakeIsStep
  <2>3. CASE OSQTbl' = OSQTbl /\ \E call, bit, es : EventTaskWait(call, bit, es, n)
    <3>1. Kept(event')
      BY <1>1, <2>3, WaitKeepsTypes, Zenon
    <3> QED
      BY <1>1, <2>3, <3>1, KeptIsStep
  <2> QED
    BY <2>1, <2>2, <2>3
<1>3. ASSUME NEW e \in Events, NEW m \in app.msgs, NEW b, NEW f, NEW n,
             OSQPost(e, m) \/ OSQPostFront(e, m) \/ OSQPostOpt(e, m, b, f, n)
      PROVE  QueueStep
  <2>1. \E front : \/ Append1(e, m, front)
                   \/ OSQTbl' = OSQTbl /\ \E x : PostToWaiters(e, m, "Q", x)
    BY <1>3, Zenon DEF OSQPost, OSQPostFront, OSQPostOpt, PostAt
  <2> QED
    BY <1>1, <2>1, PostIsStep, Zenon
<1>4. ASSUME NEW e \in Events, OSQFlush(e) \/ OSQCreate(e)
      PROVE  QueueStep
  <2>1. /\ OSQTbl' = [OSQTbl EXCEPT ![e] = [@ EXCEPT !.in = 0, !.out = 0, !.entries = 0]]
        /\ event' = event \/ event' = [event EXCEPT ![e] = QFresh]
    BY <1>4, Zenon DEF OSQFlush, OSQCreate, EventInit, coreVars, waitVars
  <2> QED
    BY <1>1, <2>1, FlushIsStep, Zenon
<1>5. ASSUME NEW e \in Events, NEW b, OSQPendAbort(e, b)
      PROVE  QueueStep
  <2>1. OSQTbl' = OSQTbl /\ \E S, msg, msk, how : EventTaskRdy(e, S, msg, msk, how)
    BY <1>5, Zenon DEF OSQPendAbort
  <2>2. Kept(event')
    BY <1>1, <2>1, RdyKeepsTypes, Zenon
  <2> QED
    BY <1>1, <2>1, <2>2, KeptIsStep
<1>6. ASSUME NEW e \in Events, NEW b, OSQDel(e, b)
      PROVE  QueueStep
  <2>1. /\ OSQTbl' = OSQTbl
        /\ event' = [event EXCEPT ![e] = EventClear] \/ EventDelAlways(e, "Q")
    BY <1>6, Zenon DEF OSQDel
  <2>2. DOMAIN EventClear = BlockFields /\ EventClear.pip \in Prios /\ EventClear.type # "q"
    BY FreshTypes
  <2> QED
    BY <1>1, <2>1, <2>2, CreationIsStep, Zenon
<1>7. ASSUME OSQPendEnds
      PROVE  QueueStep
  <2>1. OSQTbl' = OSQTbl /\ Wake("q")
    BY <1>7, Zenon DEF OSQPendEnds, MsgPendEnds
  <2> QED
    BY <1>1, <2>1, WakeKeepsTypes, KeptIsStep, Zenon
<1> QED
  BY <1>2, <1>3, <1>4, <1>5, <1>6, <1>7, Zenon DEF Queues

(* One call takes from several queues, semaphores and mailboxes.           *)
LEMMA SeveralEventsStep ==
  ASSUME QueueInv, SeveralEvents
  PROVE  QueueStep
<1>1. app' = app /\ Typed(event) /\ Kept(event)
  BY FieldsKeepTypes DEF SeveralEvents, QueueInv
<1>2. ASSUME NEW es \in SUBSET Events, NEW timeout, OSEventPendMulti(es, timeout)
      PROVE  QueueStep
  <2>1. \/ TakeAll({e \in es : Available(e)})
        \/ OSQTbl' = OSQTbl /\ \E call, bit, x : EventTaskWait(call, bit, x, timeout)
    BY <1>2, Zenon DEF OSEventPendMulti
  <2>2. CASE OSQTbl' = OSQTbl /\ \E call, bit, x : EventTaskWait(call, bit, x, timeout)
    <3>1. Kept(event')
      BY <1>1, <2>2, WaitKeepsTypes, Zenon
    <3> QED
      BY <1>1, <2>2, <3>1, KeptIsStep
  <2>3. CASE TakeAll({e \in es : Available(e)})
    <3> DEFINE S == {e \in es : Available(e)}
    <3>1. /\ event' = [e \in Events |->
               IF e \notin S \/ IsQ(e) THEN event[e]
               ELSE IF IsSem(e) THEN [event[e] EXCEPT !.cnt = @ - 1]
               ELSE [event[e] EXCEPT !.ptr = NoMsg]]
          /\ OSQTbl' = [e \in Events |-> IF e \in S /\ IsQ(e) THEN Get(OSQTbl[e]) ELSE OSQTbl[e]]
      BY <2>3, Zenon DEF TakeAll
    <3>2. \A e \in S : IsQ(e) => OSQTbl[e].entries > 0
      BY DEF Available, IsQ, IsSem, IsMbox, Entries
    <3> HIDE DEF S
    <3>3. Typed(event') /\ \A e \in Events : Stays(e)
      BY <1>1, <3>1 DEF Typed, BlockFields, Stays
    <3>4. \A e \in Events : Change(e)
      BY <3>1, <3>2, <3>3 DEF Change
    <3>5. OSQTbl' = [e \in Events |-> OSQTbl'[e]]
      BY <3>1
    <3> QED
      BY <1>1, <3>3, <3>4, <3>5 DEF QueueStep
  <2> QED
    BY <2>1, <2>2, <2>3
<1>3. ASSUME OSEventPendMultiEnds
      PROVE  QueueStep
  <2>1. OSQTbl' = OSQTbl /\ Wake("multi")
    BY <1>3, Zenon DEF OSEventPendMultiEnds
  <2> QED
    BY <1>1, <2>1, WakeKeepsTypes, KeptIsStep, Zenon
<1> QED
  BY <1>2, <1>3, Zenon DEF SeveralEvents

-----------------------------------------------------------------------------
(* The queues are empty at the start, whatever the application.            *)
LEMMA QueuesStartEmpty ==
  ASSUME Init
  PROVE  QueueInv /\ Deque!Init
<1>1. app \in Apps /\ event = [e \in Events |-> EventOf(app.kind[e])]
      /\ OSQTbl = [e \in Events |-> QEmpty]
  BY DEF Init
<1>2. RingOK(QEmpty) /\ Content(QEmpty) = <<>>
  <2>1. RingOK(QEmpty) /\ QEmpty.entries = 0
    BY QAssumption DEF QEmpty, RingOK, Rings
  <2> QED
    BY <2>1, ContentIsSeq, EmptySeq
<1>3. Typed(event)
  <2>1. \A e \in Events : app.kind[e] \in EventKinds
    BY <1>1, AppsAssumption
  <2>2. \A k \in EventKinds : DOMAIN EventOf(k) = BlockFields /\ EventOf(k).pip = 0
    BY DEF EventKinds, EventOf, BlockFields, SemFresh, MboxFresh, QFresh, MutexFresh, EventClear
  <2>3. 0 \in Prios
    BY CoreAssumption DEF Prios
  <2> QED
    BY <1>1, <2>1, <2>2, <2>3 DEF Typed
<1>4. QueueInv
  BY <1>1, <1>2, <1>3 DEF QueueInv, RingOK
<1>5. Deque!Init
  BY <1>1, <1>2 DEF Deque!Init
<1> QED
  BY <1>4, <1>5

(* Every step of the kernel keeps the rings and is a step of the           *)
(* double-ended queues or none.                                            *)
LEMMA StepIsDequeStep ==
  ASSUME QueueInv, [Next]_vars
  PROVE  QueueInv' /\ [Deque!Next]_QueueContents
<1>1. CASE Next
  <2>1. QueueStep
    BY <1>1, SchedulerStep, TaskManagementStep, TaskDeletionStep, SemaphoresStep, MailboxesStep,
       QueuesStep, SeveralEventsStep, EventFlagsStep, MutexesStep, MemoryStep DEF Next
  <2> QED
    BY <2>1, QueueStepIsDequeStep
<1>2. CASE UNCHANGED vars
  <2>1. event' = event /\ OSQTbl' = OSQTbl /\ app' = app
    BY <1>2, Zenon DEF vars, coreVars, waitVars, dataVars
  <2> QED
    BY <2>1 DEF QueueInv, QueueContents, IsQ
<1> QED
  BY <1>1, <1>2

(* The message queues of os_q.c, rings with wrapping pointers under all    *)
(* the calls of the kernel, are bounded double-ended queues, for every     *)
(* size of the rings, all tasks, events and messages and any application.  *)
THEOREM QueuesAreDeques == Spec => QueueIsADeque
<1>1. Init => QueueInv /\ Deque!Init
  BY QueuesStartEmpty
<1>2. QueueInv /\ [Next]_vars => QueueInv' /\ [Deque!Next]_QueueContents
  BY StepIsDequeStep
<1> QED
  BY <1>1, <1>2, PTL DEF Spec, QueueIsADeque, Deque!Spec, QueueContents

-----------------------------------------------------------------------------
(* The partition: its links and its count are what they can be, and no     *)
(* block is lost.                                                          *)
MemInv ==
  /\ OSMemNFree \in 0..OSMemNBlks
  /\ link \in [Blocks -> Blocks \cup {NoBlock}]
  /\ held \subseteq Blocks
  /\ MemBlocksConserved

(* The way through the free blocks: it ends at a null pointer, meets every *)
(* free block, and none twice.                                             *)
Path(path) ==
  /\ path \in [1..OSMemNFree -> Blocks \ held]
  /\ Linked(path)
  /\ \A b \in Blocks \ held : \E i \in 1..OSMemNFree : path[i] = b
  /\ \A i, k \in 1..OSMemNFree : path[i] = path[k] => i = k

(* OSMemCreate links the blocks in the order of their addresses.           *)
LEMMA MemCreated ==
  ASSUME OSMemCreate
  PROVE  MemInv
<1>1. OSMemNFree = OSMemNBlks /\ OSMemNFree \in Nat \ {0} /\ held = {} /\ OSMemFreeList = 1
      /\ link = [b \in Blocks |-> IF b = OSMemNBlks THEN NoBlock ELSE b + 1]
  BY MemAssumption DEF OSMemCreate
<1>2. link \in [Blocks -> Blocks \cup {NoBlock}]
  BY <1>1 DEF Blocks, NoBlock
<1> DEFINE path == [i \in 1..OSMemNFree |-> i]
<1>3. path \in [1..OSMemNFree -> Blocks \ held]
  BY <1>1 DEF Blocks
<1>4. Linked(path)
  BY <1>1 DEF Linked, PointerBehind, Blocks, NoBlock
<1>5. MemBlocksConserved
  BY <1>1, <1>3, <1>4 DEF MemBlocksConserved, Blocks
<1> QED
  BY <1>1, <1>2, <1>5 DEF MemInv, Blocks

(* The first block leaves the way.                                         *)
LEMMA GetKeepsBlocks ==
  ASSUME MemInv, OSMemGet
  PROVE  MemInv'
<1> DEFINE n == OSMemNFree
<1>1. PICK path : Path(path)
  BY DEF MemInv, MemBlocksConserved, Path
<1>2. /\ n \in Nat \ {0} /\ OSMemNFree' = n - 1 /\ n <= OSMemNBlks
      /\ link' = link /\ OSMemFreeList' = link[OSMemFreeList]
      /\ held' = held \cup {OSMemFreeList}
  BY MemAssumption DEF MemInv, OSMemGet
<1>3. path[1] = OSMemFreeList /\ path[1] \in Blocks \ held
  BY <1>1, <1>2 DEF Path, Linked, PointerBehind
<1>a. PICK rest : rest = [i \in 1..n - 1 |-> path[i + 1]]
  OBVIOUS
<1>4. \A i \in 1..n - 1 : rest[i] = path[i + 1] /\ i + 1 \in 1..n /\ rest[i] # path[1]
  BY <1>1, <1>2, <1>a DEF Path
<1>5. rest \in [1..n - 1 -> Blocks \ held']
  BY <1>1, <1>2, <1>3, <1>4, <1>a DEF Path
<1>6. \A b \in Blocks \ held' : \E i \in 1..n - 1 : rest[i] = b
  <2> SUFFICES ASSUME NEW b \in Blocks \ held'
               PROVE  \E i \in 1..n - 1 : rest[i] = b
    OBVIOUS
  <2>1. PICK i \in 1..n : path[i] = b
    BY <1>1, <1>2 DEF Path
  <2>2. i # 1
    BY <1>2, <1>3, <2>1
  <2>3. i - 1 \in 1..n - 1 /\ rest[i - 1] = b
    BY <1>2, <1>a, <2>1, <2>2
  <2> QED
    BY <2>3
<1>7. \A i, k \in 1..n - 1 : rest[i] = rest[k] => i = k
  <2> SUFFICES ASSUME NEW i \in 1..n - 1, NEW k \in 1..n - 1, rest[i] = rest[k]
               PROVE  i = k
    OBVIOUS
  <2>1. path[i + 1] = path[k + 1]
    BY <1>4
  <2>2. i + 1 = k + 1
    BY <1>1, <1>4, <2>1 DEF Path
  <2> QED
    BY <1>2, <2>2
<1>8. Linked(rest)'
  <2>1. \A i \in 1..n - 1 : rest[i] = IF i - 1 = 0 THEN OSMemFreeList' ELSE link'[rest[i - 1]]
    <3> SUFFICES ASSUME NEW i \in 1..n - 1
                 PROVE  rest[i] = IF i - 1 = 0 THEN OSMemFreeList' ELSE link'[rest[i - 1]]
      OBVIOUS
    <3>1. rest[i] = link[path[i]]
      BY <1>1, <1>2, <1>4 DEF Path, Linked, PointerBehind
    <3>2. CASE i = 1
      BY <1>2, <1>3, <3>1, <3>2
    <3>3. CASE i # 1
      <4>1. i - 1 \in 1..n - 1 /\ rest[i - 1] = path[i]
        BY <1>2, <1>a, <3>3
      <4> QED
        BY <1>2, <3>1, <3>3, <4>1
    <3> QED
      BY <3>2, <3>3
  <2>2. (IF n - 1 = 0 THEN OSMemFreeList' ELSE link'[rest[n - 1]]) = NoBlock
    <3>1. link[path[n]] = NoBlock
      BY <1>1, <1>2 DEF Path, Linked, PointerBehind
    <3>2. CASE n = 1
      BY <1>2, <1>3, <3>1, <3>2
    <3>3. CASE n # 1
      <4>1. n - 1 \in 1..n - 1 /\ rest[n - 1] = path[n]
        BY <1>2, <1>a, <3>3
      <4> QED
        BY <1>2, <3>1, <3>3, <4>1
    <3> QED
      BY <3>2, <3>3
  <2> QED
    BY <1>2, <2>1, <2>2 DEF Linked, PointerBehind
<1>9. MemBlocksConserved'
  BY <1>2, <1>5, <1>6, <1>7, <1>8 DEF MemBlocksConserved, Blocks
<1> QED
  <2>1. n - 1 \in 0..OSMemNBlks
    BY <1>2, MemAssumption
  <2> QED
    BY <1>2, <1>3, <1>9, <2>1 DEF MemInv, Blocks

(* A block that is put back comes before the others: it was on no way,     *)
(* because it was held.                                                    *)
LEMMA PutKeepsBlocks ==
  ASSUME MemInv, NEW b \in Blocks, OSMemPut(b)
  PROVE  MemInv'
<1> DEFINE n == OSMemNFree
<1>1. PICK path : Path(path)
  BY DEF MemInv, MemBlocksConserved, Path
<1>2. /\ n \in Nat /\ OSMemNFree' = n + 1 /\ n + 1 <= OSMemNBlks
      /\ b \in held /\ OSMemFreeList' = b /\ held' = held \ {b}
      /\ link' = [link EXCEPT ![b] = OSMemFreeList]
      /\ link \in [Blocks -> Blocks \cup {NoBlock}]
  BY MemAssumption DEF MemInv, OSMemPut
<1>3. \A i \in 1..n : path[i] \in Blocks \ held /\ path[i] # b
  BY <1>1, <1>2 DEF Path
<1>4. OSMemFreeList \in Blocks \cup {NoBlock}
  <2>1. CASE n = 0
    BY <1>1, <2>1 DEF Path, Linked, PointerBehind
  <2>2. CASE n # 0
    BY <1>1, <1>2, <1>3, <2>2 DEF Path, Linked, PointerBehind
  <2> QED
    BY <2>1, <2>2
<1>5. /\ link'[b] = OSMemFreeList
      /\ \A i \in 1..n : link'[path[i]] = link[path[i]]
  BY <1>2, <1>3
<1>a. PICK more : more = [i \in 1..n + 1 |-> IF i = 1 THEN b ELSE path[i - 1]]
  OBVIOUS
<1>6. more[1] = b /\ \A i \in 1..n : i + 1 \in 1..n + 1 /\ more[i + 1] = path[i]
  BY <1>2, <1>a
<1>7. \A i \in 1..n + 1 : i = 1 \/ (i - 1 \in 1..n /\ i = (i - 1) + 1)
  BY <1>2
<1>8. more \in [1..n + 1 -> Blocks \ held']
  BY <1>2, <1>a, <1>3, <1>7
<1>9. \A x \in Blocks \ held' : \E i \in 1..n + 1 : more[i] = x
  <2> SUFFICES ASSUME NEW x \in Blocks \ held', x # b
               PROVE  \E i \in 1..n + 1 : more[i] = x
    BY <1>2, <1>6
  <2>1. PICK i \in 1..n : path[i] = x
    BY <1>1, <1>2 DEF Path
  <2> QED
    BY <1>6, <2>1
<1>10. \A i, k \in 1..n + 1 : more[i] = more[k] => i = k
  <2> SUFFICES ASSUME NEW i \in 1..n + 1, NEW k \in 1..n + 1, more[i] = more[k]
               PROVE  i = k
    OBVIOUS
  <2>1. i # 1 => more[i] = path[i - 1] /\ i - 1 \in 1..n /\ more[i] # b
    BY <1>3, <1>6, <1>7
  <2>2. k # 1 => more[k] = path[k - 1] /\ k - 1 \in 1..n /\ more[k] # b
    BY <1>3, <1>6, <1>7
  <2>3. i # 1 /\ k # 1 => i - 1 = k - 1
    BY <1>1, <2>1, <2>2 DEF Path
  <2> QED
    BY <1>2, <1>6, <2>1, <2>2, <2>3
<1>11. Linked(more)'
  <2>1. \A i \in 1..n + 1 : more[i] = IF i - 1 = 0 THEN OSMemFreeList' ELSE link'[more[i - 1]]
    <3> SUFFICES ASSUME NEW i \in 1..n, i + 1 \in 1..n + 1
                 PROVE  more[i + 1] = link'[more[i]]
      BY <1>2, <1>6, <1>7
    <3>1. more[i + 1] = path[i] /\ path[i] = PointerBehind(path, i - 1)
      BY <1>1, <1>6 DEF Path, Linked
    <3>2. CASE i = 1
      BY <1>5, <1>6, <3>1, <3>2 DEF PointerBehind
    <3>3. CASE i # 1
      <4>1. i - 1 \in 1..n /\ (i - 1) + 1 = i
        BY <1>2, <3>3
      <4>2. more[i] = path[i - 1]
        BY <1>6, <4>1
      <4> QED
        BY <1>5, <3>1, <4>1, <4>2 DEF PointerBehind
    <3> QED
      BY <3>2, <3>3
  <2>2. link'[more[n + 1]] = NoBlock
    <3>1. CASE n = 0
      BY <1>1, <1>5, <1>6, <3>1 DEF Path, Linked, PointerBehind
    <3>2. CASE n # 0
      BY <1>1, <1>2, <1>5, <1>6, <3>2 DEF Path, Linked, PointerBehind
    <3> QED
      BY <3>1, <3>2
  <2> QED
    BY <1>2, <2>1, <2>2 DEF Linked, PointerBehind
<1>12. MemBlocksConserved'
  BY <1>2, <1>8, <1>9, <1>10, <1>11 DEF MemBlocksConserved, Blocks
<1> QED
  BY <1>2, <1>4, <1>12 DEF MemInv, Blocks

(* A holder writes into a block that is not on the way.                    *)
LEMMA WriteKeepsBlocks ==
  ASSUME MemInv, NEW b \in Blocks, NEW x \in Blocks \cup {NoBlock}, Write(b, x)
  PROVE  MemInv'
<1>1. PICK path : Path(path)
  BY DEF MemInv, MemBlocksConserved, Path
<1>2. /\ OSMemNFree' = OSMemNFree /\ OSMemNFree \in Nat
      /\ b \in held /\ OSMemFreeList' = OSMemFreeList /\ held' = held
      /\ link' = [link EXCEPT ![b] = x]
      /\ link \in [Blocks -> Blocks \cup {NoBlock}]
  BY MemAssumption DEF MemInv, Write
<1>3. \A i \in 1..OSMemNFree : link'[path[i]] = link[path[i]]
  BY <1>1, <1>2 DEF Path
<1>4. Linked(path)'
  BY <1>1, <1>2, <1>3 DEF Path, Linked, PointerBehind
<1>5. MemBlocksConserved'
  BY <1>1, <1>2, <1>4 DEF Path, MemBlocksConserved, Blocks
<1> QED
  BY <1>2, <1>5 DEF MemInv, Blocks

LEMMA BlocksInv == Spec => []MemInv
<1>1. Init => MemInv
  BY MemCreated DEF Init
<1>2. MemInv /\ [Next]_vars => MemInv'
  <2> SUFFICES ASSUME MemInv, [Next]_vars
               PROVE  MemInv'
    OBVIOUS
  <2>1. CASE UNCHANGED memVars
    <3>1. PICK path : Path(path)
      BY DEF MemInv, MemBlocksConserved, Path
    <3>2. /\ OSMemFreeList' = OSMemFreeList /\ link' = link /\ held' = held
          /\ OSMemNFree' = OSMemNFree /\ OSMemNFree \in Nat
      BY <2>1, MemAssumption DEF memVars, MemInv
    <3>3. Linked(path)'
      BY <3>1, <3>2 DEF Path, Linked, PointerBehind
    <3>4. MemBlocksConserved'
      BY <3>1, <3>2, <3>3 DEF Path, MemBlocksConserved, Blocks
    <3> QED
      BY <3>2, <3>4 DEF MemInv, Blocks
  <2>2. CASE Memory
    BY <2>2, GetKeepsBlocks, PutKeepsBlocks, WriteKeepsBlocks DEF Memory
  <2>3. CASE ~Memory
    <3>1. UNCHANGED memVars
      BY <2>3, Zenon DEF Next, vars, Scheduler, TaskManagement, TaskDeletion, Semaphores, Mailboxes,
         Queues, SeveralEvents, EventFlags, Mutexes
    <3> QED
      BY <2>1, <3>1
  <2> QED
    BY <2>2, <2>3
<1> QED
  BY <1>1, <1>2, PTL DEF Spec

(* No block of a memory partition is lost or handed out twice, whatever    *)
(* the holders write into theirs, for every number of blocks and any       *)
(* application (os_mem.c).                                                 *)
THEOREM BlocksConserved == Spec => []MemBlocksConserved
<1>1. MemInv => MemBlocksConserved
  BY DEF MemInv
<1> QED
  BY <1>1, BlocksInv, PTL
=============================================================================
