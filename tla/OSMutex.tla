------------------------------ MODULE OSMutex -------------------------------
(***************************************************************************)
(* Mutual exclusion with a priority inheritance priority, the PIP          *)
(* (os_mutex.c). While someone with a higher priority waits the owner runs *)
(* at the PIP; OSEventCnt keeps its own priority, OSEventPtr the owner.    *)
(***************************************************************************)
EXTENDS OSCore

Available255 == 255   \* OS_MUTEX_AVAILABLE

(* OS_LOWEST_PRIO is at most 254 (ucos_ii.h), so no owner's priority reads *)
(* as a free mutex.                                                        *)
ASSUME MutexAssumption == LowestPrio < Available255

IsMutex(e) == event[e].type = "mutex"
Pip(e) == event[e].pip
Owner(e) == event[e].ptr
OwnerPrio(e) == event[e].cnt
Owned(e) == event[e].cnt # Available255

MutexFresh(prio) == [EventClear EXCEPT !.type = "mutex", !.cnt = Available255,
                                       !.pip = prio, !.ptr = NoTask]

-----------------------------------------------------------------------------
OSMutexCreate(e, prio) ==
  /\ TaskCalls /\ OSTCBPrioTbl[prio] = NoTask
  /\ EventInit(e, MutexFresh(prio))
  /\ OSTCBPrioTbl' = [OSTCBPrioTbl EXCEPT ![prio] = Reserved]
  /\ UNCHANGED <<schedVars, OSTCBList, OSRdyTbl, tcb, callVars>>

(* The caller becomes the owner at once, also when the PIP is no better    *)
(* than its priority (OS_ERR_PIP_LOWER).                                   *)
Acquire(e) ==
  /\ ~Owned(e)
  /\ event' = [event EXCEPT ![e].cnt = tcb[OSTCBCur].prio, ![e].ptr = OSTCBCur]
  /\ UNCHANGED <<schedVars, listVars, OSRdyTbl, tcb, callVars>>

OSMutexAccept(e) == TaskCalls /\ IsMutex(e) /\ Acquire(e)

(* The owner has a lower priority than the caller and the PIP.             *)
RaisesHigherOwner(e) == tcb[Owner(e)].prio > Pip(e) /\ OwnerPrio(e) < tcb[OSTCBCur].prio
RaisesOwner(e) == tcb[Owner(e)].prio > Pip(e) /\ OwnerPrio(e) > tcb[OSTCBCur].prio

(* The caller waits. A raised owner keeps its place in the ready list, or  *)
(* in the list of the event its control block points to; its old priority  *)
(* stays taken.                                                            *)
OSMutexPendBlocks(e, timeout) ==
  LET t == OSTCBCur
      o == Owner(e)
      raise == RaisesOwner(e)
      old == tcb[o].prio
      ready == old \in OSRdyTbl
      moves(x) == raise /\ ~ready /\ x = tcb[o].eventPtr
      waiting == [tcb[t] EXCEPT !.stat = @ \cup {"MUTEX"}, !.statPend = "OK",
                                !.dly = timeout, !.eventPtr = e]
  IN /\ Owned(e)
     /\ tcb' = [x \in Tasks |-> IF x = t THEN waiting
                               ELSE IF raise /\ x = o THEN [tcb[x] EXCEPT !.prio = Pip(e)]
                               ELSE tcb[x]]
     /\ OSRdyTbl' = (IF raise /\ ready THEN (OSRdyTbl \ {old}) \cup {Pip(e)} ELSE OSRdyTbl)
                    \ {tcb[t].prio}
     /\ event' = [x \in Events |-> [event[x] EXCEPT
          !.grp = (IF moves(x) THEN (@ \ {old}) \cup {Pip(e)} ELSE @)
                  \cup (IF x = e THEN {tcb[t].prio} ELSE {})]]
     /\ OSTCBPrioTbl' = IF raise THEN [OSTCBPrioTbl EXCEPT ![Pip(e)] = o] ELSE OSTCBPrioTbl
     /\ pc' = [pc EXCEPT ![t] = "pend"]
     /\ local' = [local EXCEPT ![t] = [local[t] EXCEPT !.call = "mutex", !.events = {e}]]
     /\ UNCHANGED <<schedVars, OSTCBList>>

OSMutexPend(e, timeout) ==
  /\ MayPend /\ IsMutex(e)
  /\ Acquire(e) \/ OSMutexPendBlocks(e, timeout)

OSMutexPendEnds == Wake("mutex")

(* OSMutex_RdyAtPrio: task o back at the priority prio, and ready.         *)
StillRaised(o, prio) == tcb[o]
LoweredTo(o, prio) == [tcb[o] EXCEPT !.prio = prio]
RdyAtPrio(o, prio) == (OSRdyTbl \ {tcb[o].prio}) \cup {prio}

(* The owner leaves the PIP. The highest waiting task is the next owner;   *)
(* without one the call ends and does not schedule.                        *)
OSMutexPost(e) ==
  LET t == OSTCBCur
      raised == tcb[t].prio = Pip(e)
      rdy == IF raised THEN RdyAtPrio(t, OwnerPrio(e)) ELSE OSRdyTbl
      next == {OSTCBPrioTbl[p] : p \in HighestWaiter(e)}
  IN /\ TaskCalls /\ IsMutex(e) /\ Owner(e) = t
     /\ OSTCBPrioTbl' = [p \in Prios |-> IF p = Pip(e) THEN Reserved
                          ELSE IF raised /\ p = OwnerPrio(e) THEN t ELSE OSTCBPrioTbl[p]]
     /\ \/ /\ Waiters(e) # {}
           /\ tcb' = [x \in Tasks |->
                IF x \in next THEN Awoken(x, e, NoMsg, {"MUTEX"}, "OK")
                ELSE IF raised /\ x = t THEN LoweredTo(t, OwnerPrio(e)) ELSE tcb[x]]
           /\ OSRdyTbl' = rdy \cup Readied(next)
           /\ event' = [ListsWithout(next, e) EXCEPT
                ![e].cnt = Min(Waiters(e)), ![e].ptr = OSTCBPrioTbl'[Min(Waiters(e))]]
           /\ CallSched
        \/ /\ Waiters(e) = {}
           /\ tcb' = IF raised THEN [tcb EXCEPT ![t] = LoweredTo(t, OwnerPrio(e))] ELSE tcb
           /\ OSRdyTbl' = rdy
           /\ event' = [event EXCEPT ![e].cnt = Available255, ![e].ptr = NoTask]
           /\ Return
     /\ UNCHANGED <<schedVars, OSTCBList>>

(* With OS_DEL_ALWAYS a raised owner goes back to its priority first, and  *)
(* every waiting task returns as if it owned the mutex. Used with care:    *)
(* NobodyOnTheWay in Kernel.                                               *)
OSMutexDel(e, always) ==
  LET o == Owner(e)
      raised == always /\ o # NoTask /\ tcb[o].prio = Pip(e)
      woken == {OSTCBPrioTbl[p] : p \in Waiters(e)}
  IN /\ TaskCalls /\ IsMutex(e)
     /\ always \/ Waiters(e) = {}
     /\ tcb' = [x \in Tasks |->
          IF x \in woken THEN Awoken(x, e, NoMsg, {"MUTEX"}, "OK")
          ELSE IF raised /\ x = o THEN LoweredTo(o, OwnerPrio(e)) ELSE tcb[x]]
     /\ OSRdyTbl' = (IF raised THEN RdyAtPrio(o, OwnerPrio(e)) ELSE OSRdyTbl) \cup Readied(woken)
     /\ event' = [ListsWithout(woken, e) EXCEPT ![e] = EventClear]
     /\ OSTCBPrioTbl' = [p \in Prios |-> IF p = Pip(e) THEN NoTask
                         ELSE IF raised /\ p = OwnerPrio(e) THEN o ELSE OSTCBPrioTbl[p]]
     /\ IF Waiters(e) # {} THEN CallSched ELSE Return
     /\ UNCHANGED <<schedVars, OSTCBList>>

-----------------------------------------------------------------------------
(* A task made ready for a mutex is its owner, so no two tasks return from *)
(* a pend on it without a post between; and while a task with a higher     *)
(* priority than the owner's own waits, the owner runs at the PIP, so that *)
(* nothing between the two can keep the waiting task from going on         *)
(* (os_mutex.c).                                                           *)
MutexOwnerInherits ==
  \A e \in Events : IsMutex(e) =>
    /\ Granted(e) \subseteq {Owner(e)}
    /\ Owned(e) <=> Owner(e) # NoTask
    /\ \A p \in Waiters(e) : p < OwnerPrio(e) => tcb[Owner(e)].prio = Pip(e)
=============================================================================
