------------------------------- MODULE Kernel -------------------------------
(***************************************************************************)
(* The uC/OS-II kernel of Lab 5 under the applications of Apps. An         *)
(* application is the set of tasks it starts with, the events it has, and  *)
(* the calls its tasks and its interrupt service routines make, in any     *)
(* order and with any of the arguments below; which application runs is    *)
(* chosen at the start.                                                    *)
(***************************************************************************)
EXTENDS OSEventMulti, OSTask, OSTime, OSMutex, OSMem

CONSTANTS
  Apps,          \* records, see Init and the actions
  MaxLock,       \* how deep an application locks the scheduler
  Timeouts, Delays

ASSUME TimeoutsAssumption == Timeouts \subseteq Nat /\ Delays \subseteq Nat /\ MaxLock \in Nat

EventKinds == {"sem", "mbox", "q", "mutex", "unused", "taken"}

(* The tasks an application starts with have priorities of their own above *)
(* the idle task's, as OSTaskCreate demands, and a mutex's is not among    *)
(* them.                                                                   *)
ASSUME AppsAssumption ==
  \A x \in Apps :
    /\ x.msgs \subseteq Msgs /\ x.kind \in [Events -> EventKinds]
    /\ x.tasks \subseteq Tasks /\ x.tasks # {}
    /\ x.prioOf \in [x.tasks -> 0..LowestPrio - 1]
    /\ \A t, u \in x.tasks : x.prioOf[t] = x.prioOf[u] => t = u
    /\ \A t \in x.tasks : x.prioOf[t] \notin x.pips
    /\ x.prios \subseteq Prios /\ x.timeouts \subseteq Timeouts
    /\ x.groups \subseteq FlagGroups /\ x.flagargs \subseteq SUBSET Flags
    /\ x.waits \subseteq [type : WaitTypes, consume : BOOLEAN]

VARIABLE app

dataVars == <<units, copies, OSQTbl>>
vars == <<coreVars, dataVars, flagVars, memVars, app>>

EventOf(kind) ==
  CASE kind = "sem"    -> SemFresh(0)
    [] kind = "mbox"   -> MboxFresh(NoMsg)
    [] kind = "q"      -> QFresh
    [] kind = "mutex"  -> MutexFresh(0)
    [] kind \in {"unused", "taken"} -> [EventClear EXCEPT !.type = kind]

Init ==
  /\ app \in Apps
  /\ InitTCBList(app.tasks, app.prioOf)
  /\ InitPrioTbl(app.tasks, app.prioOf, app.pips)
  /\ InitRdyList(app.tasks, app.prioOf)
  /\ InitMisc
  /\ OSStart(app.tasks, app.prioOf)
  /\ event = [e \in Events |-> EventOf(app.kind[e])]
  /\ units = [e \in Events |-> 0]
  /\ copies = [m \in Msgs |-> 0]
  /\ OSQTbl = [e \in Events |-> QEmpty]
  /\ OS_FlagInit(app.groups)
  /\ OSMemCreate

-----------------------------------------------------------------------------
May(call) == call \in IF InISR THEN app.isr ELSE app.calls

(* The rule of OSMutexPend: a task that owns a mutex pends on nothing.     *)
OwnsNone == \A e \in Events : IsMutex(e) => Owner(e) # OSTCBCur

(* The care OSSemDel, OSMboxDel, OSQDel, OSMutexDel and OSFlagDel must be  *)
(* used with: nobody else is on the way to an event. Every call tests the  *)
(* type of the event before its critical section, with interrupts on; a    *)
(* task that is in its own code and not in a delay may be between the two, *)
(* and while it is no event goes. And nobody waits for several events,     *)
(* which would return from one that is gone without tidying up             *)
(* (OSEventPendMulti).                                                     *)
OnItsWay(t) == pc[t] = "run" /\ tcb[t].dly = 0
NobodyOnTheWay ==
  \A t \in OSTCBList \ {OSTCBCur} : ~OnItsWay(t) /\ local[t].call # "multi"

Scheduler ==
  /\ \/ OS_Sched
     \/ May("lock") /\ (OSSchedLock(MaxLock) \/ OSSchedUnlock)
     \/ OSIntEnter
     \/ OSIntExit
     \/ May("tick") /\ OSTimeTick
     \/ May("OSTimeDly") /\ (OwnsNone \/ May("owner delays")) /\ \E n \in Delays : OSTimeDly(n)
     \/ May("OSTimeDlyResume") /\ \E p \in Prios : OSTimeDlyResume(p)
  /\ UNCHANGED <<dataVars, flagVars, memVars, app>>

TaskManagement ==
  /\ \/ May("OSTaskCreate") /\ \E p \in app.prios : OSTaskCreate(p)
     \/ OS_TCBInit
     \/ OSTaskDelEnds
     \/ May("OSTaskSuspend") /\ \E p \in Prios : OSTaskSuspend(p)
     \/ May("OSTaskResume") /\ \E p \in Prios : OSTaskResume(p)
     \/ May("OSTaskChangePrio") /\ \E p, q \in Prios : OSTaskChangePrio(p, q)
  /\ UNCHANGED <<dataVars, memVars, app>>

(* What a task was given and has yet to return with goes with it.          *)
TaskDeletion ==
  /\ May("OSTaskDel")
  /\ \E p \in Prios :
       LET t == OSTCBPrioTbl[p] IN
       /\ OSTaskDel(p)
       /\ units' = [e \in Events |-> IF t \in SemGranted(e) THEN units[e] - 1 ELSE units[e]]
       /\ copies' = [m \in Msgs |-> IF \E e \in Events : t \in MsgGranted(e, m)
                                    THEN copies[m] - 1 ELSE copies[m]]
  /\ UNCHANGED <<OSQTbl, memVars, app>>

Semaphores ==
  /\ \/ \E e \in Events :
          \/ May("OSSemPend") /\ \E t \in app.timeouts : OSSemPend(e, t)
          \/ May("OSSemPost") /\ OSSemPost(e)
          \/ May("OSSemAccept") /\ OSSemAccept(e)
          \/ May("OSSemSet") /\ \E n \in 0..SemMax : OSSemSet(e, n)
          \/ May("OSSemPendAbort") /\ \E b \in BOOLEAN : OSSemPendAbort(e, b)
          \/ May("OSSemCreate") /\ \E n \in 0..SemMax : OSSemCreate(e, n)
          \/ May("OSSemDel") /\ NobodyOnTheWay /\ \E b \in BOOLEAN : OSSemDel(e, b)
     \/ OSSemPendEnds
  /\ UNCHANGED <<copies, OSQTbl, flagVars, memVars, app>>

Mailboxes ==
  /\ \/ \E e \in Events :
          \/ May("OSMboxPend") /\ \E t \in app.timeouts : OSMboxPend(e, t)
          \/ May("OSMboxPost") /\ \E m \in app.msgs : OSMboxPost(e, m)
          \/ May("OSMboxPostOpt") /\ \E m \in app.msgs, b, n \in BOOLEAN : OSMboxPostOpt(e, m, b, n)
          \/ May("OSMboxAccept") /\ OSMboxAccept(e)
          \/ May("OSMboxPendAbort") /\ \E b \in BOOLEAN : OSMboxPendAbort(e, b)
          \/ May("OSMboxCreate") /\ \E m \in app.msgs \cup {NoMsg} : OSMboxCreate(e, m)
          \/ May("OSMboxDel") /\ NobodyOnTheWay /\ \E b \in BOOLEAN : OSMboxDel(e, b)
     \/ OSMboxPendEnds
  /\ UNCHANGED <<units, OSQTbl, flagVars, memVars, app>>

Queues ==
  /\ \/ \E e \in Events :
          \/ May("OSQPend") /\ \E t \in app.timeouts : OSQPend(e, t)
          \/ May("OSQPost") /\ \E m \in app.msgs : OSQPost(e, m)
          \/ May("OSQPostFront") /\ \E m \in app.msgs : OSQPostFront(e, m)
          \/ May("OSQPostOpt") /\ \E m \in app.msgs, b, f, n \in BOOLEAN : OSQPostOpt(e, m, b, f, n)
          \/ May("OSQAccept") /\ OSQAccept(e)
          \/ May("OSQFlush") /\ OSQFlush(e)
          \/ May("OSQPendAbort") /\ \E b \in BOOLEAN : OSQPendAbort(e, b)
          \/ May("OSQCreate") /\ OSQCreate(e)
          \/ May("OSQDel") /\ NobodyOnTheWay /\ \E b \in BOOLEAN : OSQDel(e, b)
     \/ OSQPendEnds
  /\ UNCHANGED <<units, flagVars, memVars, app>>

SeveralEvents ==
  /\ \/ May("OSEventPendMulti") /\ \E es \in SUBSET Events, t \in app.timeouts : OSEventPendMulti(es, t)
     \/ OSEventPendMultiEnds
  /\ UNCHANGED <<flagVars, memVars, app>>

EventFlags ==
  /\ \/ \E g \in FlagGroups, f \in app.flagargs :
          \/ May("OSFlagPost") /\ \E set \in BOOLEAN : OSFlagPost(g, f, set)
          \/ May("OSFlagCreate") /\ OSFlagCreate(g, f)
          \/ \E w \in app.waits :
               \/ May("OSFlagPend") /\ \E t \in app.timeouts : OSFlagPend(g, f, w.type, w.consume, t)
               \/ May("OSFlagAccept") /\ OSFlagAccept(g, f, w.type, w.consume)
     \/ May("OSFlagDel") /\ NobodyOnTheWay /\ \E g \in FlagGroups, b \in BOOLEAN : OSFlagDel(g, b)
     \/ OSFlagPendEnds
  /\ UNCHANGED <<dataVars, memVars, app>>

Mutexes ==
  /\ \/ \E e \in Events :
          \/ May("OSMutexPend") /\ OwnsNone /\ \E t \in app.timeouts : OSMutexPend(e, t)
          \/ May("OSMutexAccept") /\ OSMutexAccept(e)
          \/ May("OSMutexPost") /\ OSMutexPost(e)
          \/ May("OSMutexCreate") /\ \E p \in Prios : OSMutexCreate(e, p)
          \/ May("OSMutexDel") /\ NobodyOnTheWay /\ \E b \in BOOLEAN : OSMutexDel(e, b)
     \/ OSMutexPendEnds
  /\ UNCHANGED <<dataVars, flagVars, memVars, app>>

Memory ==
  /\ CanCall /\ May("OSMem")
  /\ \/ OSMemGet
     \/ \E b \in Blocks : OSMemPut(b) \/ \E x \in Blocks \cup {NoBlock} : Write(b, x)
  /\ UNCHANGED <<coreVars, dataVars, flagVars, app>>

Next == \/ Scheduler \/ TaskManagement \/ TaskDeletion \/ Semaphores \/ Mailboxes \/ Queues
        \/ SeveralEvents \/ EventFlags \/ Mutexes \/ Memory

Spec == Init /\ [][Next]_vars

-----------------------------------------------------------------------------
TypeOK ==
  /\ OSTCBCur \in Tasks \cup {Idle} /\ OSPrioCur \in Prios
  /\ OSIntNesting \in 0..MaxNesting /\ OSLockNesting \in 0..MaxLock + 1
  /\ OSTCBList \subseteq Tasks /\ OSRdyTbl \subseteq Prios /\ LowestPrio \in OSRdyTbl
  /\ OSTCBPrioTbl \in [Prios -> Tasks \cup {Idle, NoTask, Reserved}]
  /\ pc \in [Tasks -> Places]
  /\ \A t \in Tasks :
       /\ tcb[t].prio \in Prios /\ tcb[t].stat \subseteq StatBits
       /\ tcb[t].statPend \in {"OK", "TO", "ABORT"}
       /\ \E n \in Timeouts \cup Delays \cup {0} : tcb[t].dly \in 0..n
       /\ tcb[t].eventPtr \in Events \cup {NoEvent} /\ tcb[t].multi \subseteq Events
       /\ tcb[t].msg \in Msgs \cup {NoMsg}
       /\ local[t].events \subseteq Events
  /\ \A e \in Events : event[e].grp \subseteq Prios /\ event[e].pip \in Prios
  /\ units \in [Events -> 0..SemMax + Cardinality(Tasks)]
  /\ \A e \in Events : OSQTbl[e].entries \in 0..QSize
  /\ OSMemNFree \in 0..OSMemNBlks

(* Task t is inside a pend that nothing has ended yet.                     *)
StillWaiting(t) ==
  /\ pc[t] \in {"pend", "wake"} /\ tcb[t].statPend # "TO"
  /\ \/ \E e \in local[t].events : tcb[t].prio \in Waiters(e)
     \/ \E g \in node[t].grp : t \in OSFlagWaitList[g]

(* The ready list, which the calls, the tick and the interrupts keep by    *)
(* hand, says for every task whether it can run: it is neither suspended,  *)
(* nor delayed, nor waiting. No task is left out for good that should run, *)
(* and none runs that should not (os_core.c, os_task.c, os_time.c).        *)
RunnableIsReady ==
  \A t \in OSTCBList : ~BeingDeleted(t) =>
    (tcb[t].prio \in OSRdyTbl <=>
       "SUSPEND" \notin tcb[t].stat /\ tcb[t].dly = 0 /\ ~StillWaiting(t))

(* A priority in an event's list is that of a task that is inside a pend   *)
(* on the event: what is posted to it goes to a task that asked for it     *)
(* (OSEventTbl, ucos_ii.h).                                                *)
NoGhostWaiter ==
  \A e \in Events : \A p \in Waiters(e) :
    LET t == OSTCBPrioTbl[p] IN
    /\ t \in OSTCBList
    /\ tcb[t].prio = p
    /\ pc[t] \in {"pend", "wake"} /\ e \in local[t].events

(* In a task's own code, with the scheduler unlocked, the running task is  *)
(* the highest that is ready, unless it asked for no schedule: no call and *)
(* no interrupt makes a more important task ready and leaves it waiting    *)
(* (OS_Sched, OSIntExit).                                                  *)
HighestReadyRuns ==
  ~InISR /\ ~Locked /\ ~deferred /\ (OSTCBCur # Idle => pc[OSTCBCur] \in {"run", "wake"})
    => OSTCBCur = OSTCBPrioTbl[Min(OSRdyTbl)]

(* Nobody waits at an event for what the event has, so no task sleeps      *)
(* beside a unit, a message or a free mutex, nor at a block that is no     *)
(* event, if events are deleted with care (NobodyOnTheWay; the pends,      *)
(* posts and deletes of os_sem.c, os_mbox.c, os_q.c, os_mutex.c).          *)
NobodyWaitsForWhatIsThere ==
  \A e \in Events :
    Available(e) \/ (IsMutex(e) /\ ~Owned(e)) \/ event[e].type = "unused" => Waiters(e) = {}

(* The table of priorities names each task under the priority it has, so   *)
(* that the scheduler and the wait lists, which only know priorities, find *)
(* it (OSTCBPrioTbl, os_core.c, os_task.c, os_mutex.c).                    *)
PrioTableNamesTasks ==
  /\ \A t \in OSTCBList : OSTCBPrioTbl[tcb[t].prio] = t
  /\ \A p \in OSRdyTbl : OSTCBPrioTbl[p] \in OSTCBList \cup {Idle}

(* A step that ends waits at an event by a post, a deletion or an abort    *)
(* ends that of the most important task there: whoever stays is less       *)
(* important than whoever goes (OS_EventTaskRdy, os_core.c).               *)
WakesInPriorityOrder ==
  [][\A e \in Events :
       LET goes == {t \in OSTCBList : /\ t \notin Granted(e) /\ t \in Granted(e)'
                                      /\ pc[t] \in {"pend", "wake"}}
       IN \A t \in goes : \A p \in Waiters(e)' : tcb[t].prio < p]_vars
=============================================================================
