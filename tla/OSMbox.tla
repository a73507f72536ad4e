------------------------------- MODULE OSMbox -------------------------------
(***************************************************************************)
(* Mailboxes of one message (os_mbox.c).                                   *)
(***************************************************************************)
EXTENDS OSCore

(* History: the copies of each message that were posted and that no call   *)
(* has returned yet.                                                       *)
VARIABLE copies

IsMbox(e) == event[e].type = "mbox"
Posted(m, n) == copies' = [copies EXCEPT ![m] = @ + n]
Taken(m) == copies' = [copies EXCEPT ![m] = @ - 1]

MboxFresh(m) == [EventClear EXCEPT !.type = "mbox", !.ptr = m]
Empty(e) == event[e].ptr = NoMsg

-----------------------------------------------------------------------------
OSMboxAccept(e) ==
  /\ CanCall /\ IsMbox(e) /\ ~Empty(e)
  /\ event' = [event EXCEPT ![e].ptr = NoMsg]
  /\ Taken(event[e].ptr)
  /\ UNCHANGED <<schedVars, listVars, OSRdyTbl, tcb, callVars>>

OSMboxPend(e, timeout) ==
  /\ MayPend /\ IsMbox(e)
  /\ \/ /\ ~Empty(e)
        /\ event' = [event EXCEPT ![e].ptr = NoMsg]
        /\ Taken(event[e].ptr)
        /\ UNCHANGED <<schedVars, listVars, OSRdyTbl, tcb, callVars>>
     \/ /\ Empty(e)
        /\ EventTaskWait("mbox", {"MBOX"}, {e}, timeout)
        /\ UNCHANGED copies

(* The end of a pend on a mailbox or, alike, on a queue: a deletion makes  *)
(* the task ready without a message.                                       *)
MsgPendEnds(call) ==
  LET t == tcb[OSTCBCur] IN
  /\ Wake(call)
  /\ IF t.statPend = "OK" /\ t.msg # NoMsg THEN Taken(t.msg) ELSE UNCHANGED copies

OSMboxPendEnds == MsgPendEnds("mbox")

OSMboxPendAbort(e, broadcast) ==
  /\ CanCall /\ IsMbox(e) /\ Waiters(e) # {}
  /\ EventTaskRdy(e, IF broadcast THEN Waiters(e) ELSE HighestWaiter(e), NoMsg, {"MBOX"}, "ABORT")
  /\ CallSched
  /\ UNCHANGED <<schedVars, listVars, copies>>

(* A message for the tasks that wait: one, or with OS_POST_OPT_BROADCAST   *)
(* all of them, each a copy.                                               *)
PostToWaiters(e, m, bit, broadcast) ==
  LET S == IF broadcast THEN Waiters(e) ELSE HighestWaiter(e) IN
  /\ EventTaskRdy(e, S, m, {bit}, "OK")
  /\ Posted(m, Cardinality(S))

OSMboxPost(e, m) ==
  /\ CanCall /\ IsMbox(e)
  /\ \/ /\ Waiters(e) # {}
        /\ PostToWaiters(e, m, "MBOX", FALSE)
        /\ CallSched
     \/ /\ Waiters(e) = {} /\ Empty(e)
        /\ event' = [event EXCEPT ![e].ptr = m]
        /\ Posted(m, 1)
        /\ Return /\ UNCHANGED <<OSRdyTbl, tcb>>
  /\ UNCHANGED <<schedVars, listVars>>

(* With OS_POST_OPT_NO_SCHED a task that was made ready waits for the next *)
(* schedule.                                                               *)
CallEnds(nosched) ==
  IF nosched THEN deferred' = (deferred \/ ~InISR) /\ Return ELSE UNCHANGED deferred /\ CallSched

OSMboxPostOpt(e, m, broadcast, nosched) ==
  /\ CanCall /\ IsMbox(e)
  /\ \/ /\ Waiters(e) # {}
        /\ PostToWaiters(e, m, "MBOX", broadcast)
        /\ CallEnds(nosched)
     \/ /\ Waiters(e) = {} /\ Empty(e)
        /\ event' = [event EXCEPT ![e].ptr = m]
        /\ Posted(m, 1)
        /\ Return /\ UNCHANGED <<OSRdyTbl, tcb, deferred>>
  /\ UNCHANGED <<OSTCBCur, OSPrioCur, OSIntNesting, OSLockNesting, listVars>>

OSMboxCreate(e, m) ==
  /\ TaskCalls
  /\ EventInit(e, MboxFresh(m))
  /\ IF m = NoMsg THEN UNCHANGED copies ELSE Posted(m, 1)
  /\ UNCHANGED <<schedVars, listVars, OSRdyTbl, tcb, callVars>>

(* A message left in a mailbox goes with it. Used with care:               *)
(* NobodyOnTheWay in Kernel.                                               *)
OSMboxDel(e, always) ==
  /\ TaskCalls /\ IsMbox(e)
  /\ \/ /\ Waiters(e) = {}
        /\ event' = [event EXCEPT ![e] = EventClear]
        /\ Return /\ UNCHANGED <<OSRdyTbl, tcb>>
     \/ /\ Waiters(e) # {} /\ always
        /\ EventDelAlways(e, "MBOX")
        /\ CallSched
  /\ IF Empty(e) THEN UNCHANGED copies ELSE Taken(event[e].ptr)
  /\ UNCHANGED <<schedVars, listVars>>
=============================================================================
