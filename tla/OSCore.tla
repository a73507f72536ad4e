------------------------------- MODULE OSCore -------------------------------
(***************************************************************************)
(* The core of the uC/OS-II kernel of Lab 5 (os_core.c): the task control  *)
(* blocks, the ready list, the wait lists of events, the scheduler and the *)
(* brackets of an interrupt service routine. A critical section of the     *)
(* code is one step; an interrupt can come between any two of them, and    *)
(* with it a switch to another task. A bit map of the code is the set of   *)
(* the priorities whose bits are set. An early return that changes         *)
(* nothing is no step at all. A call tests the type of its event, with     *)
(* interrupts on, before its critical section. Here the test is part of    *)
(* the section, which is exact as long as no event is deleted between the  *)
(* two: an interrupt service routine ends before a task goes on, only      *)
(* tasks delete, and Kernel lets them delete only while nobody else is on  *)
(* the way to an event (NobodyOnTheWay).                                   *)
(***************************************************************************)
EXTENDS Naturals, FiniteSets, FiniteSetsExt

CONSTANTS
  Tasks,         \* the task control blocks of the applications
  Idle,          \* that of the idle task
  NoTask,        \* a null pointer to a task control block
  Reserved,      \* OS_TCB_RESERVED
  Events,        \* the event control blocks
  NoEvent,       \* a null pointer to one
  Msgs, NoMsg,   \* messages, and the null message
  LowestPrio,    \* OS_LOWEST_PRIO, the idle task's priority
  MaxNesting     \* how deep interrupts nest; one at a time with the HAL's funnel

(* Control blocks and pointers that are not to be confused, and the idle   *)
(* task's priority, below every other.                                     *)
ASSUME CoreAssumption ==
  /\ LowestPrio \in Nat /\ MaxNesting \in Nat
  /\ IsFiniteSet(Tasks) /\ IsFiniteSet(Events)
  /\ Idle \notin Tasks /\ NoTask \notin Tasks \cup {Idle}
  /\ Reserved \notin Tasks \cup {Idle, NoTask}
  /\ NoEvent \notin Events /\ NoMsg \notin Msgs

VARIABLES
  OSTCBCur, OSIntNesting, OSLockNesting,
  OSPrioCur,      \* the priority OSTCBCur was switched in at
  OSTCBList,      \* the set of the tasks that exist, without the idle task
  OSTCBPrioTbl,
  OSRdyTbl,       \* OSRdyGrp and OSRdyTbl: the priorities ready to run
  tcb,            \* the fields of a task control block
  event,          \* the fields of an event control block, grp its wait list
  pc,             \* where each task is: see below
  local,          \* the arguments of the call it is in
  deferred        \* history: a post with OS_POST_OPT_NO_SCHED owes a schedule

Prios == 0..LowestPrio
PendBits == {"SEM", "MBOX", "Q", "FLAG", "MUTEX"}   \* OS_STAT_PEND_ANY
StatBits == PendBits \cup {"SUSPEND", "MULTI"}

(* A task is in its own code ("run"), before the OS_Sched that ends a call *)
(* ("sched"), before that of a pend ("pend"), before the critical section  *)
(* with which a pend ends ("wake"), or inside OSTaskCreate or OSTaskDel    *)
(* ("create", "delete"); "dead" when it does not exist.                    *)
Places == {"run", "sched", "pend", "wake", "create", "delete", "dead"}

NoLocal == [call |-> "none", events |-> {}, task |-> NoTask, prio |-> LowestPrio]
TCBClear(prio) == [prio |-> prio, stat |-> {}, statPend |-> "OK", dly |-> 0,
                   eventPtr |-> NoEvent, multi |-> {}, msg |-> NoMsg]
EventClear == [type |-> "unused", cnt |-> 0, pip |-> 0, ptr |-> NoMsg, grp |-> {}]

runVars   == <<OSTCBCur, OSPrioCur, deferred>>
schedVars == <<runVars, OSIntNesting, OSLockNesting>>
listVars  == <<OSTCBList, OSTCBPrioTbl>>
waitVars  == <<OSRdyTbl, tcb, event>>
callVars  == <<pc, local>>
coreVars  == <<schedVars, listVars, waitVars, callVars>>

-----------------------------------------------------------------------------
(* After OSInit, the creation of the tasks of S at their priorities, with  *)
(* pips reserved for mutexes, and OSStart.                                 *)
InitTCBList(S, prioOf) ==
  /\ OSTCBList = S
  /\ tcb = [t \in Tasks |-> TCBClear(IF t \in S THEN prioOf[t] ELSE LowestPrio)]
  /\ pc = [t \in Tasks |-> IF t \in S THEN "run" ELSE "dead"]
  /\ local = [t \in Tasks |-> NoLocal]

InitPrioTbl(S, prioOf, pips) ==
  OSTCBPrioTbl = [p \in Prios |->
    IF p = LowestPrio THEN Idle
    ELSE IF p \in pips THEN Reserved
    ELSE IF \E t \in S : prioOf[t] = p THEN CHOOSE t \in S : prioOf[t] = p ELSE NoTask]

InitRdyList(S, prioOf) == OSRdyTbl = {LowestPrio} \cup {prioOf[t] : t \in S}

InitMisc == OSIntNesting = 0 /\ OSLockNesting = 0 /\ deferred = FALSE

OSStart(S, prioOf) ==
  /\ OSTCBCur = CHOOSE t \in S : \A u \in S : prioOf[t] <= prioOf[u]
  /\ OSPrioCur = Min({prioOf[t] : t \in S})

-----------------------------------------------------------------------------
Waiters(e) == event[e].grp
LowestWaiter(e) == {Max(Waiters(e))}
HighestWaiter(e) == {Min(Waiters(e))}
Locked == OSLockNesting > 0
InISR == OSIntNesting > 0

(* A task at its own code, or an interrupt service routine, makes a call.  *)
(* The idle task makes none.                                               *)
CanCall == InISR \/ (OSTCBCur # Idle /\ pc[OSTCBCur] = "run")

(* What the tests at the head of a call that may block, or that allocates, *)
(* leave: a task.                                                          *)
TaskCalls == ~InISR /\ CanCall
MayPend == TaskCalls /\ ~Locked

(* The end of a call: by OS_Sched, which does nothing in an interrupt, or  *)
(* without.                                                                *)
CallSched ==
  /\ pc' = IF InISR THEN pc ELSE [pc EXCEPT ![OSTCBCur] = "sched"]
  /\ UNCHANGED local
Return == UNCHANGED callVars

(* The tasks of S that are not suspended can be made ready.                *)
Readied(S) == {tcb[t].prio : t \in {u \in S : "SUSPEND" \notin tcb[u].stat}}

(* The event e makes the waiting tasks at the priorities of S ready: once  *)
(* for the highest, again and again for all of them. Pending on more than  *)
(* one event, a task leaves the other lists too and keeps which one it was *)
(* in OSTCBEventPtr.                                                       *)
Awoken(t, e, msg, msk, pend_stat) == [tcb[t] EXCEPT
  !.dly = 0, !.msg = msg, !.stat = @ \ msk, !.statPend = pend_stat,
  !.eventPtr = IF tcb[t].multi # {} THEN e ELSE @]

(* The wait lists after the tasks of S, made ready by e, have left them.   *)
ListsWithoutFirst(S, e) == [event EXCEPT ![e].grp = @ \ {tcb[t].prio : t \in S}]
ListsWithout(S, e) == [x \in Events |-> [event[x] EXCEPT
  !.grp = @ \ {tcb[t].prio : t \in {u \in S : x = e \/ x \in tcb[u].multi}}]]

EventTaskRdy(e, S, msg, msk, pend_stat) ==
  LET woken == {OSTCBPrioTbl[p] : p \in S} IN
  /\ tcb' = [t \in Tasks |->
       IF t \in woken THEN Awoken(t, e, msg, msk, pend_stat) ELSE tcb[t]]
  /\ OSRdyTbl' = OSRdyTbl \cup Readied(woken)
  /\ event' = ListsWithout(woken, e)

(* The last act of a deletion with OS_DEL_ALWAYS: all waiters are made     *)
(* ready, as by a post, and the block is free.                             *)
EventDelAlways(e, bit) ==
  LET woken == {OSTCBPrioTbl[p] : p \in Waiters(e)} IN
  /\ tcb' = [t \in Tasks |->
       IF t \in woken THEN Awoken(t, e, NoMsg, {bit}, "OK") ELSE tcb[t]]
  /\ OSRdyTbl' = OSRdyTbl \cup Readied(woken)
  /\ event' = [ListsWithout(woken, e) EXCEPT ![e] = EventClear]

(* The running task waits for the events of es, one of them or several.    *)
EventTaskWait(call, bit, es, timeout) ==
  LET t == OSTCBCur
      multi == call = "multi"
  IN /\ tcb' = [tcb EXCEPT ![t] = [tcb[t] EXCEPT
          !.stat = @ \cup bit, !.statPend = "OK", !.dly = timeout,
          !.eventPtr = IF multi THEN NoEvent ELSE CHOOSE e \in es : TRUE,
          !.multi = IF multi THEN es ELSE @]]
     /\ event' = [e \in Events |->
          IF e \in es THEN [event[e] EXCEPT !.grp = @ \cup {tcb[t].prio}] ELSE event[e]]
     /\ OSRdyTbl' = OSRdyTbl \ {tcb[t].prio}
     /\ pc' = [pc EXCEPT ![t] = "pend"]
     /\ local' = [local EXCEPT ![t] = [local[t] EXCEPT !.call = call, !.events = es]]
     /\ UNCHANGED <<schedVars, listVars>>

(* Task t leaves the wait lists of the events of es.                       *)
EventTaskRemove(t, es) ==
  event' = [e \in Events |->
    IF e \in es THEN [event[e] EXCEPT !.grp = @ \ {tcb[t].prio}] ELSE event[e]]

WakeStaysListed(call) ==
  LET t == OSTCBCur IN
  /\ ~InISR /\ t # Idle /\ pc[t] = "wake" /\ local[t].call = call
  /\ tcb' = [tcb EXCEPT ![t] = [TCBClear(tcb[t].prio) EXCEPT !.dly = tcb[t].dly]]
  /\ pc' = [pc EXCEPT ![t] = "run"]
  /\ local' = [local EXCEPT ![t] = NoLocal]
  /\ UNCHANGED <<schedVars, listVars, OSRdyTbl, event>>

(* The last critical section of a pend: a task that timed out is still in  *)
(* the lists. What it returns is a matter of the service.                  *)
Wake(call) ==
  LET t == OSTCBCur IN
  /\ ~InISR /\ t # Idle /\ pc[t] = "wake" /\ local[t].call = call
  /\ IF tcb[t].statPend = "TO" THEN EventTaskRemove(t, local[t].events) ELSE UNCHANGED event
  /\ tcb' = [tcb EXCEPT ![t] = [tcb[t] EXCEPT
       !.stat = {}, !.statPend = "OK", !.eventPtr = NoEvent, !.multi = {},
       !.msg = IF call \in {"sem", "mutex"} THEN @ ELSE NoMsg]]
  /\ pc' = [pc EXCEPT ![t] = "run"]
  /\ local' = [local EXCEPT ![t] = NoLocal]
  /\ UNCHANGED <<schedVars, listVars, OSRdyTbl>>

(* The deletion of task t is under way: it is in no list any more.         *)
BeingDeleted(t) == \E u \in OSTCBList : pc[u] = "delete" /\ local[u].task = t

(* The tasks that event e made ready and that have yet to return from      *)
(* their pend.                                                             *)
Granted(e) == {t \in OSTCBList :
  /\ ~BeingDeleted(t)
  /\ pc[t] \in {"pend", "wake"} /\ e \in local[t].events
  /\ tcb[t].statPend = "OK" /\ tcb[t].prio \notin Waiters(e)
  /\ local[t].call = "multi" => tcb[t].eventPtr = e}

-----------------------------------------------------------------------------
OSPrioHighRdy == Min(OSRdyTbl)

(* OS_SchedNew and the switch: none when the highest ready priority is the *)
(* one the running task was switched in at.                                *)
OS_SchedNew ==
  /\ IF OSPrioHighRdy # OSPrioCur
     THEN OSTCBCur' = OSTCBPrioTbl[OSPrioHighRdy] /\ OSPrioCur' = OSPrioHighRdy
     ELSE UNCHANGED <<OSTCBCur, OSPrioCur>>
  /\ deferred' = FALSE

(* A task that was switched out inside OS_Sched goes on behind it.         *)
OS_Sched ==
  /\ ~InISR /\ OSTCBCur # Idle /\ pc[OSTCBCur] \in {"sched", "pend"}
  /\ pc' = [pc EXCEPT ![OSTCBCur] = IF @ = "sched" THEN "run" ELSE "wake"]
  /\ IF Locked THEN UNCHANGED runVars ELSE OS_SchedNew
  /\ UNCHANGED <<OSIntNesting, OSLockNesting, listVars, waitVars, local>>

OSIntEnter ==
  /\ OSIntNesting < MaxNesting
  /\ OSIntNesting' = OSIntNesting + 1
  /\ UNCHANGED <<runVars, OSLockNesting, listVars, waitVars, callVars>>

OSIntExit ==
  /\ InISR
  /\ OSIntNesting' = OSIntNesting - 1
  /\ IF OSIntNesting' = 0 /\ ~Locked THEN OS_SchedNew ELSE UNCHANGED runVars
  /\ UNCHANGED <<OSLockNesting, listVars, waitVars, callVars>>

(* MaxLock stands for the 255 of the code.                                 *)
OSSchedLock(MaxLock) ==
  /\ TaskCalls /\ OSLockNesting < MaxLock
  /\ OSLockNesting' = OSLockNesting + 1
  /\ UNCHANGED <<runVars, OSIntNesting, listVars, waitVars, callVars>>

OSSchedUnlockQuietly ==
  /\ TaskCalls /\ Locked
  /\ OSLockNesting' = OSLockNesting - 1
  /\ UNCHANGED <<runVars, OSIntNesting, listVars, waitVars, callVars>>

(* Whoever unlocks has locked, and an interrupt cannot lock.               *)
OSSchedUnlock ==
  /\ TaskCalls /\ Locked
  /\ OSLockNesting' = OSLockNesting - 1
  /\ IF OSLockNesting' = 0 THEN CallSched ELSE Return
  /\ UNCHANGED <<runVars, OSIntNesting, listVars, waitVars>>

(* The time of task t, or of OSTimeDlyResume, has come: a wait ends as a   *)
(* timeout, and a suspended task stays so.                                 *)
Expired(t) == [tcb[t] EXCEPT
  !.dly = 0, !.stat = @ \ PendBits,
  !.statPend = IF tcb[t].stat \cap PendBits # {} THEN "TO" ELSE "OK"]

OSTimeTick ==
  LET expired == {t \in OSTCBList : tcb[t].dly = 1} IN
  /\ InISR
  /\ tcb' = [t \in Tasks |-> IF t \in expired THEN Expired(t)
                             ELSE IF t \in OSTCBList /\ tcb[t].dly > 0
                             THEN [tcb[t] EXCEPT !.dly = @ - 1] ELSE tcb[t]]
  /\ OSRdyTbl' = OSRdyTbl \cup Readied(expired)
  /\ UNCHANGED <<schedVars, listVars, event, callVars>>

-----------------------------------------------------------------------------
(* OS_EventWaitListInit and the fields a service sets: an unused block     *)
(* becomes an event, and an event an unused block.                         *)
EventInit(e, new) ==
  /\ event[e].type = "unused"
  /\ event' = [event EXCEPT ![e] = new]
=============================================================================
