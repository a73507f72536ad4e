-------------------------------- MODULE OSQ ---------------------------------
(***************************************************************************)
(* Message queues (os_q.c): a ring of pointers with one to the next free   *)
(* slot and one to the oldest message. The words that are handed over are  *)
(* messages, and a null pointer would be one too.                          *)
(***************************************************************************)
EXTENDS OSMbox, SequencesExt

CONSTANT QSize   \* OSQSize

ASSUME QAssumption == QSize \in Nat \ {0}

(* The queue control block of each event: the slots from OSQStart up to    *)
(* OSQEnd, OSQIn and OSQOut as places in it, and OSQEntries.               *)
VARIABLE OSQTbl

QEmpty == [slots |-> [i \in 0..QSize - 1 |-> NoMsg], in |-> 0, out |-> 0, entries |-> 0]

IsQ(e) == event[e].type = "q"
QFresh == [EventClear EXCEPT !.type = "q"]
Entries(e) == OSQTbl[e].entries
Next1(i) == IF i + 1 = QSize THEN 0 ELSE i + 1
Oldest(q) == q.slots[q.out]

(* A message is taken: its slot keeps the pointer.                         *)
Get(q) == [q EXCEPT !.out = Next1(@), !.entries = @ - 1]
Put(q, m) == [q EXCEPT !.slots[q.in] = m, !.in = Next1(@), !.entries = @ + 1]
PutFrontLate(q, m) ==
  [q EXCEPT !.slots[q.out] = m, !.out = (IF @ = 0 THEN QSize ELSE @) - 1, !.entries = @ + 1]
PutFront(q, m) ==
  LET out == (IF q.out = 0 THEN QSize ELSE q.out) - 1
  IN [q EXCEPT !.slots[out] = m, !.out = out, !.entries = @ + 1]

(* The messages of a queue, the oldest first.                              *)
Slot(q, i) == IF q.out + i <= QSize THEN (q.out + i) - 1 ELSE (q.out + i) - (QSize + 1)
Content(q) == [i \in 1..q.entries |-> q.slots[Slot(q, i)]]

Take(e) ==
  /\ OSQTbl' = [OSQTbl EXCEPT ![e] = Get(@)]
  /\ Taken(Oldest(OSQTbl[e]))

-----------------------------------------------------------------------------
OSQAccept(e) ==
  /\ CanCall /\ IsQ(e) /\ Entries(e) > 0
  /\ Take(e)
  /\ UNCHANGED coreVars

OSQPend(e, timeout) ==
  /\ MayPend /\ IsQ(e)
  /\ \/ /\ Entries(e) > 0
        /\ Take(e)
        /\ UNCHANGED coreVars
     \/ /\ Entries(e) = 0
        /\ EventTaskWait("q", {"Q"}, {e}, timeout)
        /\ UNCHANGED <<copies, OSQTbl>>

OSQPendEnds == MsgPendEnds("q") /\ UNCHANGED OSQTbl

OSQPendAbort(e, broadcast) ==
  /\ CanCall /\ IsQ(e) /\ Waiters(e) # {}
  /\ EventTaskRdy(e, IF broadcast THEN Waiters(e) ELSE HighestWaiter(e), NoMsg, {"Q"}, "ABORT")
  /\ CallSched
  /\ UNCHANGED <<schedVars, listVars, copies, OSQTbl>>

AppendAlways(e, m, front) ==
  /\ Waiters(e) = {}
  /\ OSQTbl' = [OSQTbl EXCEPT ![e] = IF front THEN PutFront(@, m) ELSE Put(@, m)]
  /\ Posted(m, 1)
  /\ UNCHANGED coreVars

(* Nobody waits, and there is room.                                        *)
Append1(e, m, front) ==
  /\ Waiters(e) = {} /\ Entries(e) < QSize
  /\ OSQTbl' = [OSQTbl EXCEPT ![e] = IF front THEN PutFront(@, m) ELSE Put(@, m)]
  /\ Posted(m, 1)
  /\ UNCHANGED coreVars

PostAt(e, m, front) ==
  /\ CanCall /\ IsQ(e)
  /\ \/ /\ Waiters(e) # {}
        /\ PostToWaiters(e, m, "Q", FALSE)
        /\ CallSched
        /\ UNCHANGED <<schedVars, listVars, OSQTbl>>
     \/ Append1(e, m, front)

OSQPost(e, m) == PostAt(e, m, FALSE)
OSQPostFront(e, m) == PostAt(e, m, TRUE)

OSQPostOpt(e, m, broadcast, front, nosched) ==
  /\ CanCall /\ IsQ(e)
  /\ \/ /\ Waiters(e) # {}
        /\ PostToWaiters(e, m, "Q", broadcast)
        /\ CallEnds(nosched)
        /\ UNCHANGED <<OSTCBCur, OSPrioCur, OSIntNesting, OSLockNesting, listVars, OSQTbl>>
     \/ Append1(e, m, front)

InQueue(e, m) == Cardinality({i \in 1..Entries(e) : Content(OSQTbl[e])[i] = m})
Discard(e) == copies' = [m \in Msgs |-> copies[m] - InQueue(e, m)]

OSQFlushPointers(e) ==
  /\ CanCall /\ IsQ(e) /\ Entries(e) > 0
  /\ OSQTbl' = [OSQTbl EXCEPT ![e] = [@ EXCEPT !.in = 0, !.out = 0]]
  /\ Discard(e)
  /\ UNCHANGED coreVars

OSQFlush(e) ==
  /\ CanCall /\ IsQ(e) /\ Entries(e) > 0
  /\ OSQTbl' = [OSQTbl EXCEPT ![e] = [@ EXCEPT !.in = 0, !.out = 0, !.entries = 0]]
  /\ Discard(e)
  /\ UNCHANGED coreVars

(* There is a queue control block for every event.                         *)
OSQCreate(e) ==
  /\ TaskCalls
  /\ EventInit(e, QFresh)
  /\ OSQTbl' = [OSQTbl EXCEPT ![e] = [@ EXCEPT !.in = 0, !.out = 0, !.entries = 0]]
  /\ UNCHANGED <<schedVars, listVars, OSRdyTbl, tcb, callVars, copies>>

(* The block keeps its pointers; the messages are out of reach. Used with  *)
(* care: NobodyOnTheWay in Kernel.                                         *)
OSQDel(e, always) ==
  /\ TaskCalls /\ IsQ(e)
  /\ \/ /\ Waiters(e) = {}
        /\ event' = [event EXCEPT ![e] = EventClear]
        /\ Return /\ UNCHANGED <<OSRdyTbl, tcb>>
     \/ /\ Waiters(e) # {} /\ always
        /\ EventDelAlways(e, "Q")
        /\ CallSched
  /\ Discard(e)
  /\ UNCHANGED <<schedVars, listVars, OSQTbl>>

-----------------------------------------------------------------------------
(* The tasks that were handed message m and have yet to return with it.    *)
MsgGranted(e, m) == {t \in Granted(e) : tcb[t].msg = m}

(* What a queue promises: a double-ended queue for each event.             *)
Deque == INSTANCE Deque WITH
  content <- [e \in Events |-> IF IsQ(e) THEN Content(OSQTbl[e]) ELSE <<>>]

(* Every step of the ring, its pointers wrapping, is a step of the double- *)
(* ended queue or none (os_q.c).                                           *)
QueueIsADeque == Deque!Spec

(* A message that was posted is in its mailbox or queue, or with a task    *)
(* that was made ready for it and has yet to return, and a broadcast makes *)
(* a copy for each: no interleaving of posts, timeouts, aborts, flushes    *)
(* and waits on one event or several loses or doubles one (os_q.c,         *)
(* os_mbox.c, os_core.c).                                                  *)
MessagesConserved ==
  \A m \in Msgs : copies[m] =
      Cardinality({e \in Events : IsMbox(e) /\ event[e].ptr = m})
    + Cardinality({x \in Events \X (1..QSize) :
        IsQ(x[1]) /\ x[2] <= Entries(x[1]) /\ Content(OSQTbl[x[1]])[x[2]] = m})
    + Cardinality(UNION {MsgGranted(e, m) : e \in Events})
=============================================================================
