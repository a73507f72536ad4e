------------------------------- MODULE OSSem --------------------------------
(***************************************************************************)
(* Counting semaphores (os_sem.c).                                         *)
(***************************************************************************)
EXTENDS OSCore

CONSTANT SemMax   \* the largest count, 65535 in the code

ASSUME SemAssumption == SemMax \in Nat

(* History: the units of each semaphore that were given to it and that no  *)
(* call has returned with yet.                                             *)
VARIABLE units

IsSem(e) == event[e].type = "sem"
Credit(e, n) == units' = [units EXCEPT ![e] = @ + n]
Debit(e) == units' = [units EXCEPT ![e] = @ - 1]

(* The tasks a post or a deletion made ready and that have yet to return.  *)
SemGranted(e) ==
  {t \in Granted(e) : local[t].call = "sem" \/ (local[t].call = "multi" /\ IsSem(e))}

SemFresh(cnt) == [EventClear EXCEPT !.type = "sem", !.cnt = cnt]

-----------------------------------------------------------------------------
OSSemAccept(e) ==
  /\ CanCall /\ IsSem(e) /\ event[e].cnt > 0
  /\ event' = [event EXCEPT ![e].cnt = @ - 1]
  /\ Debit(e)
  /\ UNCHANGED <<schedVars, listVars, OSRdyTbl, tcb, callVars>>

OSSemPend(e, timeout) ==
  /\ MayPend /\ IsSem(e)
  /\ \/ /\ event[e].cnt > 0
        /\ event' = [event EXCEPT ![e].cnt = @ - 1]
        /\ Debit(e)
        /\ UNCHANGED <<schedVars, listVars, OSRdyTbl, tcb, callVars>>
     \/ /\ event[e].cnt = 0
        /\ EventTaskWait("sem", {"SEM"}, {e}, timeout)
        /\ UNCHANGED units

OSSemPendEnds ==
  /\ Wake("sem")
  /\ \E e \in local[OSTCBCur].events :
       IF tcb[OSTCBCur].statPend = "OK" THEN Debit(e) ELSE UNCHANGED units

OSSemPost(e) ==
  /\ CanCall /\ IsSem(e)
  /\ \/ /\ Waiters(e) # {}
        /\ EventTaskRdy(e, HighestWaiter(e), NoMsg, {"SEM"}, "OK")
        /\ CallSched
     \/ /\ Waiters(e) = {} /\ event[e].cnt < SemMax
        /\ event' = [event EXCEPT ![e].cnt = @ + 1]
        /\ Return /\ UNCHANGED <<OSRdyTbl, tcb>>
  /\ Credit(e, 1)
  /\ UNCHANGED <<schedVars, listVars>>

(* With OS_PEND_OPT_BROADCAST every waiting task, else the highest.        *)
OSSemPendAbort(e, broadcast) ==
  /\ CanCall /\ IsSem(e) /\ Waiters(e) # {}
  /\ EventTaskRdy(e, IF broadcast THEN Waiters(e) ELSE HighestWaiter(e), NoMsg, {"SEM"}, "ABORT")
  /\ CallSched
  /\ UNCHANGED <<schedVars, listVars, units>>

OSSemSetAnyway(e, cnt) ==
  /\ CanCall /\ IsSem(e)
  /\ event' = [event EXCEPT ![e].cnt = cnt]
  /\ units' = [units EXCEPT ![e] = (@ - event[e].cnt) + cnt]
  /\ UNCHANGED <<schedVars, listVars, OSRdyTbl, tcb, callVars>>

OSSemSet(e, cnt) ==
  /\ CanCall /\ IsSem(e)
  /\ event[e].cnt > 0 \/ Waiters(e) = {}
  /\ event' = [event EXCEPT ![e].cnt = cnt]
  /\ units' = [units EXCEPT ![e] = (@ - event[e].cnt) + cnt]
  /\ UNCHANGED <<schedVars, listVars, OSRdyTbl, tcb, callVars>>

OSSemCreate(e, cnt) ==
  /\ TaskCalls
  /\ EventInit(e, SemFresh(cnt))
  /\ Credit(e, cnt)
  /\ UNCHANGED <<schedVars, listVars, OSRdyTbl, tcb, callVars>>

(* With OS_DEL_ALWAYS the waiting tasks return as from a post, so their    *)
(* units are counted; what the count held is gone. It must be used with    *)
(* care: see NobodyOnTheWay in Kernel.                                     *)
OSSemDel(e, always) ==
  /\ TaskCalls /\ IsSem(e)
  /\ \/ /\ Waiters(e) = {}
        /\ event' = [event EXCEPT ![e] = EventClear]
        /\ Return /\ UNCHANGED <<OSRdyTbl, tcb>>
     \/ /\ Waiters(e) # {} /\ always
        /\ EventDelAlways(e, "SEM")
        /\ CallSched
  /\ units' = [units EXCEPT ![e] = (@ - event[e].cnt) + Cardinality(Waiters(e))]
  /\ UNCHANGED <<schedVars, listVars>>

-----------------------------------------------------------------------------
(* A unit given to a semaphore is counted, or with a task that was made    *)
(* ready for it and has yet to return, and nowhere else: no interleaving   *)
(* of posts, timeouts, aborts and waits loses or doubles one (os_sem.c).   *)
SemUnitsConserved ==
  \A e \in Events : event[e].type \in {"sem", "unused"} =>
    units[e] = event[e].cnt + Cardinality(SemGranted(e))
=============================================================================
