---------------------------- MODULE OSEventMulti ----------------------------
(***************************************************************************)
(* Waiting for any of several semaphores, mailboxes and queues             *)
(* (OSEventPendMulti in os_core.c).                                        *)
(***************************************************************************)
EXTENDS OSSem, OSQ

(* The call takes from every event that has something.                     *)
Available(e) == \/ IsSem(e) /\ event[e].cnt > 0
                \/ IsMbox(e) /\ ~Empty(e)
                \/ IsQ(e) /\ Entries(e) > 0

(* The message of an event that is no semaphore.                           *)
MsgOf(e) == IF IsMbox(e) THEN event[e].ptr ELSE Oldest(OSQTbl[e])

TakeAll(S) ==
  /\ event' = [e \in Events |->
       IF e \notin S \/ IsQ(e) THEN event[e]
       ELSE IF IsSem(e) THEN [event[e] EXCEPT !.cnt = @ - 1]
       ELSE [event[e] EXCEPT !.ptr = NoMsg]]
  /\ OSQTbl' = [e \in Events |-> IF e \in S /\ IsQ(e) THEN Get(OSQTbl[e]) ELSE OSQTbl[e]]
  /\ units' = [e \in Events |-> IF e \in S /\ IsSem(e) THEN units[e] - 1 ELSE units[e]]
  /\ copies' = [m \in Msgs |->
       copies[m] - Cardinality({e \in S : ~IsSem(e) /\ MsgOf(e) = m})]
  /\ UNCHANGED <<schedVars, listVars, OSRdyTbl, tcb, callVars>>

StatBit(e) == CASE IsSem(e) -> "SEM" [] IsMbox(e) -> "MBOX" [] IsQ(e) -> "Q"

OSEventPendMulti(es, timeout) ==
  LET S == {e \in es : Available(e)} IN
  /\ MayPend /\ es # {}
  /\ \A e \in es : IsSem(e) \/ IsMbox(e) \/ IsQ(e)
  /\ \/ S # {} /\ TakeAll(S)
     \/ /\ S = {}
        /\ EventTaskWait("multi", {StatBit(e) : e \in es} \cup {"MULTI"}, es, timeout)
        /\ UNCHANGED <<units, copies, OSQTbl>>

(* What the task was made ready by is in OSTCBEventPtr. Were that event    *)
(* gone the code would return in the middle and leave the task's control   *)
(* block as it is; no event goes while a task waits for several            *)
(* (NobodyOnTheWay in Kernel).                                             *)
OSEventPendMultiEnds ==
  LET t == tcb[OSTCBCur] IN
  /\ Wake("multi")
  /\ IF t.statPend = "OK" /\ t.msg # NoMsg THEN Taken(t.msg) ELSE UNCHANGED copies
  /\ IF t.statPend = "OK" /\ IsSem(t.eventPtr) THEN Debit(t.eventPtr) ELSE UNCHANGED units
  /\ UNCHANGED OSQTbl
=============================================================================
