-------------------------- MODULE KernelEvents_proofs --------------------------
(***************************************************************************)
(* What the kernel's waits, posts and deletions do to the events: nobody   *)
(* waits for what is there, the most important task wakes first, and no    *)
(* unit of a semaphore and no message is lost or doubled.                  *)
(***************************************************************************)
EXTENDS KernelTasks_proofs, Kernel_proofs, FiniteSetTheorems

(* Task t is inside a pend on events and is not being deleted.             *)
InPend(t) ==
  t \in OSTCBList /\ ~BeingDeleted(t) /\ Pending(t) /\ local[t].call # "flag"

(* It waits in the lists of all its events, timed out perhaps, or in none: *)
(* then its control block says which event made it ready.                  *)
Waiting(t) ==
  /\ \A e \in local[t].events : tcb[t].prio \in Waiters(e)
  /\ local[t].call = "multi" => tcb[t].eventPtr = NoEvent
  /\ local[t].call # "multi" => event[tcb[t].eventPtr].type = local[t].call
Woken(t) ==
  /\ \A e \in Events : tcb[t].prio \notin Waiters(e)
  /\ tcb[t].dly = 0 /\ tcb[t].statPend # "TO" /\ tcb[t].eventPtr \in local[t].events

PendOK(t) ==
  /\ local[t].call \in {"sem", "mbox", "q", "multi"} /\ local[t].events # {}
  /\ local[t].call = "multi" => tcb[t].multi = local[t].events
  /\ local[t].call # "multi" => local[t].events = {tcb[t].eventPtr}
  /\ Waiting(t) \/ Woken(t)

PendsOK == \A t \in Tasks : InPend(t) => PendOK(t)

-----------------------------------------------------------------------------
(* What a step may do to a task in a pend that it does not end: the task's *)
(* time may come.                                                          *)
Keeps(t) ==
  /\ InPend(t)' <=> InPend(t)
  /\ InPend(t) =>
       /\ local'[t] = local[t]
       /\ tcb'[t].prio = tcb[t].prio /\ tcb'[t].eventPtr = tcb[t].eventPtr
       /\ tcb'[t].multi = tcb[t].multi /\ tcb'[t].msg = tcb[t].msg
       /\ tcb[t].dly = 0 => tcb'[t].dly = 0 /\ tcb'[t].statPend = tcb[t].statPend
       /\ tcb[t].dly # 0 => tcb'[t].statPend \in {tcb[t].statPend, "TO"}

ListsSame ==
  \A e \in Events : /\ Waiters(e)' = Waiters(e)
                    /\ Waiters(e) # {} => event'[e].type = event[e].type

Stay == ListsSame /\ \A t \in Tasks : Keeps(t)

LEMMA PendEvents ==
  ASSUME TasksOK, NEW t \in Tasks
  PROVE  local[t].events \subseteq Events /\ tcb[t] \in TCBs /\ local[t] \in Locals
BY DEF TasksOK, TypesOK, Locals

LEMMA StayPends ==
  ASSUME TasksOK, PendsOK, Stay
  PROVE  PendsOK'
<1> SUFFICES ASSUME NEW t \in Tasks, InPend(t)' PROVE PendOK(t)'
  BY DEF PendsOK
<1>1. /\ InPend(t) /\ PendOK(t) /\ local'[t] = local[t]
      /\ tcb'[t].prio = tcb[t].prio /\ tcb'[t].eventPtr = tcb[t].eventPtr
      /\ tcb'[t].multi = tcb[t].multi
      /\ tcb[t].dly = 0 => tcb'[t].dly = 0 /\ tcb'[t].statPend = tcb[t].statPend
  BY DEF Stay, Keeps, PendsOK
<1>2. local[t].events \subseteq Events /\ local[t].events # {}
  BY <1>1, PendEvents DEF PendOK
<1>3. \A e \in Events : /\ Waiters(e)' = Waiters(e)
                        /\ Waiters(e) # {} => event'[e].type = event[e].type
  BY DEF Stay, ListsSame
<1>4. CASE Waiting(t)
  <2>1. \A e \in local[t].events : event'[e].type = event[e].type
    BY <1>2, <1>3, <1>4 DEF Waiting
  <2>2. Waiting(t)'
    BY <1>1, <1>2, <1>3, <1>4, <2>1 DEF Waiting, PendOK
  <2> QED BY <1>1, <2>2 DEF PendOK
<1>5. CASE Woken(t)
  <2>1. Woken(t)'
    BY <1>1, <1>3, <1>5 DEF Woken
  <2> QED BY <1>1, <2>1 DEF PendOK
<1> QED BY <1>1, <1>4, <1>5 DEF PendOK

(* Who is deleted, when nobody begins or ends a deletion.                  *)
LEMMA DeletionSame ==
  ASSUME TypesOK, OSTCBList' = OSTCBList,
         \A t \in Tasks : pc'[t] = "delete" <=> pc[t] = "delete",
         \A t \in Tasks : pc[t] = "delete" => local'[t] = local[t]
  PROVE  \A t : BeingDeleted(t)' = BeingDeleted(t)
BY DEF BeingDeleted, TypesOK

(* Nothing that this is about changes.                                     *)
LEMMA QuietStays ==
  ASSUME TasksOK, ListsStay, UNCHANGED <<OSTCBList, tcb, callVars>>
  PROVE  Stay
<1>1. pc' = pc /\ local' = local /\ tcb' = tcb /\ OSTCBList' = OSTCBList
  BY DEF callVars
<1>2. \A t : BeingDeleted(t)' = BeingDeleted(t) /\ InPend(t)' = InPend(t)
  BY <1>1 DEF BeingDeleted, InPend, Pending
<1>3. ListsSame
  BY DEF ListsSame, ListsStay, Waiters
<1> QED BY <1>1, <1>2, <1>3 DEF Stay, Keeps

(* A call that ends no pend and moves nobody in the lists of events.       *)
LEMMA CallStays ==
  ASSUME TasksOK, CallFrame, event' = event,
         \A t \in Tasks : InPend(t) =>
           /\ tcb'[t].prio = tcb[t].prio /\ tcb'[t].eventPtr = tcb[t].eventPtr
           /\ tcb'[t].multi = tcb[t].multi /\ tcb'[t].msg = tcb[t].msg
           /\ tcb[t].dly = 0 => tcb'[t].dly = 0 /\ tcb'[t].statPend = tcb[t].statPend
           /\ tcb[t].dly # 0 => tcb'[t].statPend \in {tcb[t].statPend, "TO"}
  PROVE  Stay
<1>1. /\ \A t \in Tasks : Pending(t)' = Pending(t)
      /\ \A t \in OSTCBList : BeingDeleted(t)' = BeingDeleted(t)
      /\ OSTCBList' = OSTCBList /\ local' = local
  BY FrameFacts DEF TasksOK, CallFrame
<1>2. \A t \in Tasks : InPend(t)' = InPend(t)
  BY <1>1 DEF InPend
<1>3. ListsSame
  BY DEF ListsSame, Waiters
<1> QED BY <1>1, <1>2, <1>3 DEF Stay, Keeps

(* One task, the caller, comes and goes, and is in no pend on an event.    *)
LEMMA CallerStays ==
  ASSUME TasksOK, NEW c \in Tasks, ~InPend(c), ~InPend(c)',
         OSTCBList' = OSTCBList, event' = event,
         pc[c] # "delete", pc'[c] # "delete",
         \A t \in Tasks \ {c} : tcb'[t] = tcb[t] /\ pc'[t] = pc[t] /\ local'[t] = local[t]
  PROVE  Stay
<1>1. \A t : BeingDeleted(t)' = BeingDeleted(t)
  BY DeletionSame DEF TasksOK
<1>2. ASSUME NEW t \in Tasks
      PROVE  Keeps(t)
  <2>1. CASE t = c
    BY <2>1 DEF Keeps
  <2>2. CASE t # c
    BY <1>1, <2>2 DEF Keeps, InPend, Pending
  <2> QED BY <2>1, <2>2
<1>3. ListsSame
  BY DEF ListsSame, Waiters
<1> QED BY <1>2, <1>3 DEF Stay

-----------------------------------------------------------------------------
(* The waits whose time comes are waits: who was made ready has no delay.  *)
LEMMA DelayedWaits ==
  ASSUME TasksOK, PendsOK, NEW t \in Tasks, InPend(t), tcb[t].dly # 0
  PROVE  tcb[t].statPend = "OK" /\ Bits(t) # {}
<1>1. Waiting(t) /\ local[t].events # {} /\ local[t].events \subseteq Events /\ t \in OSTCBList
  BY PendEvents DEF PendsOK, PendOK, Woken, InPend
<1>2. Listed(t)
  BY <1>1 DEF Waiting, Listed
<1> QED BY <1>1, <1>2 DEF TasksOK, WaitsOK

LEMMA TickStays ==
  ASSUME TasksOK, PendsOK, OSTimeTick, UNCHANGED <<flagVars, app>>
  PROVE  Stay
<1>1. CallFrame /\ event' = event
  BY FrameOfCall DEF OSTimeTick, schedVars, runVars, flagVars, CanCall, Return
<1>2. PICK expired : expired = {t \in OSTCBList : tcb[t].dly = 1}
  OBVIOUS
<1>3. tcb' = [t \in Tasks |-> IF t \in expired THEN Expired(t)
                              ELSE IF t \in OSTCBList /\ tcb[t].dly > 0
                              THEN [tcb[t] EXCEPT !.dly = @ - 1] ELSE tcb[t]]
  BY <1>2 DEF OSTimeTick
<1>4. ASSUME NEW t \in Tasks, InPend(t)
      PROVE  /\ tcb'[t].prio = tcb[t].prio /\ tcb'[t].eventPtr = tcb[t].eventPtr
             /\ tcb'[t].multi = tcb[t].multi /\ tcb'[t].msg = tcb[t].msg
             /\ tcb[t].dly = 0 => tcb'[t].dly = 0 /\ tcb'[t].statPend = tcb[t].statPend
             /\ tcb[t].dly # 0 => tcb'[t].statPend \in {tcb[t].statPend, "TO"}
  <2>1. tcb[t] \in TCBs
    BY PendEvents
  <2>2. CASE t \in expired
    <3>1. tcb'[t] = Expired(t) /\ tcb[t].dly # 0
      BY <1>2, <1>3, <2>2
    <3>2. Expired(t).msg = tcb[t].msg
      BY <2>1 DEF Expired, TCBs
    <3> QED BY <1>4, <2>1, <3>1, <3>2, ExpiredFields, DelayedWaits
  <2>3. CASE t \notin expired /\ tcb[t].dly > 0
    <3>1. tcb'[t] = [tcb[t] EXCEPT !.dly = tcb[t].dly - 1]
      BY <1>3, <1>4, <2>3 DEF InPend
    <3> QED BY <2>1, <2>3, <3>1 DEF TCBs
  <2>4. CASE t \notin expired /\ ~(tcb[t].dly > 0)
    BY <1>3, <2>4, <2>1 DEF TCBs
  <2> QED BY <2>2, <2>3, <2>4
<1> QED BY <1>1, <1>4, CallStays

LEMMA TimeDlyResumeStays ==
  ASSUME TasksOK, PendsOK, NEW p \in Prios, OSTimeDlyResume(p), UNCHANGED <<flagVars, app>>
  PROVE  Stay
<1>1. CallFrame /\ event' = event
  BY FrameOfCall DEF OSTimeDlyResume, schedVars, runVars, flagVars, CanCall, Return
<1>2. PICK d \in Tasks : tcb[d].dly # 0 /\ tcb' = [tcb EXCEPT ![d] = Expired(d)]
  BY DEF OSTimeDlyResume
<1>3. ASSUME NEW t \in Tasks, InPend(t)
      PROVE  /\ tcb'[t].prio = tcb[t].prio /\ tcb'[t].eventPtr = tcb[t].eventPtr
             /\ tcb'[t].multi = tcb[t].multi /\ tcb'[t].msg = tcb[t].msg
             /\ tcb[t].dly = 0 => tcb'[t].dly = 0 /\ tcb'[t].statPend = tcb[t].statPend
             /\ tcb[t].dly # 0 => tcb'[t].statPend \in {tcb[t].statPend, "TO"}
  <2>1. tcb[t] \in TCBs
    BY PendEvents
  <2>2. CASE t = d
    <3>1. tcb'[t] = Expired(t) /\ tcb[t].dly # 0
      BY <1>2, <2>2 DEF TasksOK, TypesOK
    <3>2. Expired(t).msg = tcb[t].msg
      BY <2>1 DEF Expired, TCBs
    <3> QED BY <1>3, <2>1, <3>1, <3>2, ExpiredFields, DelayedWaits
  <2>3. CASE t # d
    <3>1. tcb'[t] = tcb[t]
      BY <1>2, <2>3 DEF TasksOK, TypesOK
    <3> QED BY <3>1
  <2> QED BY <2>2, <2>3
<1> QED BY <1>1, <1>3, CallStays

LEMMA SchedulerStays ==
  ASSUME TasksOK, PendsOK, Scheduler
  PROVE  Stay
<1>1. UNCHANGED <<flagVars, app>>
  BY DEF Scheduler
<1>2. CASE OS_Sched
  <2>1. PICK c : c = OSTCBCur
    OBVIOUS
  <2>2. /\ c \in Tasks /\ pc[c] \in {"sched", "pend"}
        /\ pc' = [pc EXCEPT ![c] = IF pc[c] = "sched" THEN "run" ELSE "wake"]
        /\ local' = local /\ tcb' = tcb /\ event' = event /\ OSTCBList' = OSTCBList
    BY <1>2, <2>1, CoreAssumption DEF OS_Sched, TasksOK, CurrentOK, TypesOK, listVars, waitVars
  <2>3. \A t \in Tasks : /\ Pending(t)' = Pending(t)
                         /\ pc'[t] = "delete" <=> pc[t] = "delete"
    BY <2>2 DEF TasksOK, TypesOK, Pending
  <2>4. \A t : BeingDeleted(t)' = BeingDeleted(t)
    BY <2>2, <2>3, DeletionSame DEF TasksOK
  <2>5. \A t \in Tasks : InPend(t)' = InPend(t)
    BY <2>2, <2>3, <2>4 DEF InPend
  <2> QED BY <2>2, <2>5 DEF Stay, Keeps, ListsSame, Waiters
<1>3. CASE OSSchedLock(MaxLock) \/ OSIntEnter \/ OSIntExit
  <2>1. UNCHANGED <<OSTCBList, tcb, callVars>> /\ event' = event
    BY <1>3 DEF OSSchedLock, OSIntEnter, OSIntExit, listVars, waitVars
  <2>2. ListsStay
    BY <1>1, <2>1 DEF ListsStay, TasksOK, EventsTyped, flagVars
  <2> QED BY <2>1, <2>2, QuietStays
<1>4. CASE OSSchedUnlock
  <2>1. /\ OSTCBList' = OSTCBList /\ event' = event /\ tcb' = tcb /\ local' = local
        /\ OSTCBCur \in Tasks /\ pc[OSTCBCur] = "run"
        /\ pc' = pc \/ pc' = [pc EXCEPT ![OSTCBCur] = "sched"]
    BY <1>4, CallerExists DEF OSSchedUnlock, TaskCalls, TasksOK, listVars, waitVars, callVars,
       CallSched, Return
  <2>2. PICK c \in Tasks : c = OSTCBCur
    BY <2>1
  <2>3. pc'[c] \in {"run", "sched"} /\ \A t \in Tasks \ {c} : pc'[t] = pc[t]
    BY <2>1, <2>2 DEF TasksOK, TypesOK
  <2>4. ~InPend(c) /\ ~InPend(c)'
    BY <2>1, <2>2, <2>3 DEF InPend, Pending
  <2> QED BY <2>1, <2>2, <2>3, <2>4, CallerStays
<1>5. CASE OSTimeTick
  BY <1>1, <1>5, TickStays
<1>6. ASSUME NEW n, OSTimeDly(n)
      PROVE  Stay
  <2>1. PICK c : c = OSTCBCur
    OBVIOUS
  <2>2. /\ c \in Tasks /\ pc[c] = "run" /\ CanCall /\ event' = event
        /\ tcb' = [tcb EXCEPT ![c].dly = n]
    BY <1>6, <2>1, CallerExists DEF OSTimeDly, TaskCalls, TasksOK
  <2>3. CallFrame
    BY <1>1, <1>6, FrameOfCall DEF OSTimeDly, TaskCalls, schedVars, runVars, flagVars
  <2>4. ~InPend(c)
    BY <2>2 DEF InPend, Pending
  <2>5. \A t \in Tasks : InPend(t) => tcb'[t] = tcb[t]
    BY <2>2, <2>4 DEF TasksOK, TypesOK
  <2> QED BY <2>2, <2>3, <2>5, CallStays
<1>7. CASE \E p \in Prios : OSTimeDlyResume(p)
  BY <1>1, <1>7, TimeDlyResumeStays
<1> QED BY <1>2, <1>3, <1>4, <1>5, <1>6, <1>7 DEF Scheduler

-----------------------------------------------------------------------------
LEMMA SuspensionStays ==
  ASSUME TasksOK, NEW p \in Prios, OSTaskSuspend(p) \/ OSTaskResume(p), app' = app
  PROVE  Stay
<1>a. PICK d \in Tasks : \E S : tcb' = [tcb EXCEPT ![d].stat = S]
  BY DEF OSTaskSuspend, OSTaskResume
<1>1. PICK S : tcb' = [tcb EXCEPT ![d].stat = S]
  BY <1>a
<1>2. CallFrame /\ event' = event
  BY FrameOfCall DEF OSTaskSuspend, OSTaskResume, schedVars, runVars, flagVars
<1>3. ASSUME NEW t \in Tasks
      PROVE  /\ tcb'[t].prio = tcb[t].prio /\ tcb'[t].eventPtr = tcb[t].eventPtr
             /\ tcb'[t].multi = tcb[t].multi /\ tcb'[t].msg = tcb[t].msg
             /\ tcb'[t].dly = tcb[t].dly /\ tcb'[t].statPend = tcb[t].statPend
  <2>1. tcb[t] \in TCBs /\ tcb'[t] \in {tcb[t], [tcb[t] EXCEPT !.stat = S]}
    BY <1>1, PendEvents DEF TasksOK, TypesOK
  <2> QED BY <2>1 DEF TCBs
<1> QED BY <1>2, <1>3, CallStays

LEMMA TaskCreateStays ==
  ASSUME TasksOK, NEW p \in Prios, OSTaskCreate(p)
  PROVE  Stay
<1>1. PICK c : c = OSTCBCur
  OBVIOUS
<1>2. /\ c \in Tasks /\ pc[c] = "run" /\ event' = event /\ tcb' = tcb /\ OSTCBList' = OSTCBList
      /\ pc' = [pc EXCEPT ![c] = "create"] /\ local' = [local EXCEPT ![c].prio = p]
  BY <1>1, CallerExists DEF OSTaskCreate, TaskCalls, TasksOK, waitVars
<1>3. pc'[c] = "create"
  BY <1>2 DEF TasksOK, TypesOK
<1>4. ~InPend(c) /\ ~InPend(c)'
  BY <1>2, <1>3 DEF InPend, Pending
<1>5. \A t \in Tasks \ {c} : pc'[t] = pc[t] /\ local'[t] = local[t]
  BY <1>2 DEF TasksOK, TypesOK
<1> QED BY <1>2, <1>3, <1>4, <1>5, CallerStays

(* The task that is made is in no pend, and nor is the one that makes it.  *)
LEMMA TCBInitStays ==
  ASSUME TasksOK, OS_TCBInit
  PROVE  Stay
<1>1. PICK c : c = OSTCBCur
  OBVIOUS
<1>2. /\ c \in OSTCBList /\ c \in Tasks /\ pc[c] = "create" /\ event' = event
      /\ local' = [local EXCEPT ![c] = NoLocal]
  BY <1>1, CoreAssumption DEF OS_TCBInit, TasksOK, CurrentOK, TypesOK
<1>3. \A t \in Tasks \ {c} : local'[t] = local[t]
  BY <1>2 DEF TasksOK, TypesOK
<1>4. CASE OSTCBList' = OSTCBList /\ tcb' = tcb /\ pc' = [pc EXCEPT ![c] = "run"]
  <2>1. pc'[c] = "run" /\ \A t \in Tasks \ {c} : pc'[t] = pc[t]
    BY <1>2, <1>4 DEF TasksOK, TypesOK
  <2>2. ~InPend(c) /\ ~InPend(c)'
    BY <1>2, <2>1 DEF InPend, Pending
  <2> QED BY <1>2, <1>3, <1>4, <2>1, <2>2, CallerStays
<1>5. ASSUME NEW n \in Tasks \ OSTCBList, NEW b, OSTCBList' = OSTCBList \cup {n},
             tcb' = [tcb EXCEPT ![n] = b], pc' = [pc EXCEPT ![c] = "sched", ![n] = "run"]
      PROVE  Stay
  <2>1. n # c
    BY <1>2, <1>5
  <2>2. /\ pc'[c] = "sched" /\ pc'[n] = "run"
        /\ \A t \in Tasks \ {c, n} : pc'[t] = pc[t] /\ tcb'[t] = tcb[t]
    BY <1>2, <1>5, <2>1 DEF TasksOK, TypesOK
  <2>3. \A u \in Tasks : pc[u] # "delete" /\ pc'[u] # "delete"
    BY <1>1, <1>2, <2>2 DEF TasksOK, DeletionOK
  <2>4. OSTCBList \subseteq Tasks
    BY DEF TasksOK, TypesOK
  <2>5. \A t : ~BeingDeleted(t) /\ ~BeingDeleted(t)'
    BY <1>5, <2>3, <2>4 DEF BeingDeleted
  <2>6. \A t \in {c, n} : ~InPend(t) /\ ~InPend(t)'
    BY <1>2, <1>3, <1>5, <2>2 DEF InPend, Pending
  <2>7. \A t \in Tasks \ {c, n} : Keeps(t)
    BY <1>3, <1>5, <2>2, <2>5 DEF Keeps, InPend, Pending
  <2>8. \A t \in Tasks : Keeps(t)
    BY <2>6, <2>7 DEF Keeps
  <2> QED BY <1>2, <2>8 DEF Stay, ListsSame, Waiters
<1> QED BY <1>1, <1>4, <1>5 DEF OS_TCBInit

(* The task that goes was out of all lists already.                        *)
LEMMA TaskDelEndsStays ==
  ASSUME TasksOK, OSTaskDelEnds
  PROVE  Stay
<1>1. PICK c, t : c = OSTCBCur /\ t = local[c].task
  OBVIOUS
<1>2. /\ c \in OSTCBList /\ c \in Tasks /\ pc[c] = "delete" /\ t \in OSTCBList /\ t \in Tasks
      /\ \A u \in Tasks : pc[u] = "delete" => u = c
  BY <1>1, CoreAssumption DEF OSTaskDelEnds, TasksOK, CurrentOK, DeletionOK, TypesOK
<1>3. /\ event' = event /\ OSTCBList' = OSTCBList \ {t}
      /\ pc' = IF t = c THEN [pc EXCEPT ![c] = "sched"]
                        ELSE [[pc EXCEPT ![c] = "sched"] EXCEPT ![t] = "dead"]
      /\ local' = [local EXCEPT ![c] = NoLocal, ![t] = NoLocal]
      /\ tcb' = [tcb EXCEPT ![t] = TCBClear(LowestPrio)]
  BY <1>1 DEF OSTaskDelEnds
<1>4. /\ \A u \in Tasks \ {c, t} : pc'[u] = pc[u] /\ tcb'[u] = tcb[u] /\ local'[u] = local[u]
      /\ pc'[c] = "sched" /\ pc'[t] # "delete"
  BY <1>2, <1>3 DEF TasksOK, TypesOK
<1>5. OSTCBList \subseteq Tasks
  BY DEF TasksOK, TypesOK
<1>6. \A u \in Tasks : pc'[u] # "delete"
  BY <1>2, <1>4
<1>7. \A u : ~BeingDeleted(u)'
  BY <1>3, <1>5, <1>6 DEF BeingDeleted
<1>8. \A u : BeingDeleted(u) => u = t
  BY <1>1, <1>2, <1>5 DEF BeingDeleted
<1>9. ~InPend(t) /\ ~InPend(t)' /\ ~InPend(c) /\ ~InPend(c)'
  BY <1>1, <1>2, <1>3, <1>4 DEF InPend, BeingDeleted, Pending
<1>10. \A u \in Tasks \ {c, t} : Keeps(u)
  BY <1>3, <1>4, <1>7, <1>8 DEF Keeps, InPend, Pending
<1>11. \A u \in Tasks : Keeps(u)
  BY <1>9, <1>10 DEF Keeps
<1> QED BY <1>3, <1>11 DEF Stay, ListsSame, Waiters

LEMMA TaskManagementStays ==
  ASSUME TasksOK, Plain, TaskManagement
  PROVE  Stay
<1>1. app' = app /\ app.prios \subseteq Prios /\ ~May("OSTaskChangePrio")
  BY ArgumentsOK DEF TaskManagement, May, Plain
<1> QED
  BY <1>1, TaskCreateStays, TCBInitStays, TaskDelEndsStays, SuspensionStays DEF TaskManagement

(* Who waits for flags is in no pend on an event.                          *)
LEMMA EventFlagsStay ==
  ASSUME TasksOK, EventFlags
  PROVE  Stay
<1>1. app' = app
  BY DEF EventFlags
<1>2. ASSUME UNCHANGED <<coreVars, OSFlagWaitList, node>>
      PROVE  Stay
  <2>1. UNCHANGED <<OSTCBList, tcb, callVars>> /\ event' = event
    BY <1>2 DEF coreVars, listVars, waitVars
  <2>2. ListsStay
    BY <1>2, <2>1 DEF ListsStay, TasksOK, EventsTyped
  <2> QED BY <2>1, <2>2, QuietStays
<1>3. ASSUME NEW g \in FlagGroups, NEW S \in SUBSET OSFlagWaitList[g], NEW rdy, CanCall,
             OS_FlagTaskRdy(S, rdy), UNCHANGED <<schedVars, listVars, event, node, app>>
      PROVE  Stay
  <2>1. CallFrame /\ event' = event
    BY <1>3, FrameOfCall DEF OS_FlagTaskRdy, schedVars, runVars
  <2>2. \A t \in S : ~InPend(t)
    BY DEF TasksOK, FlagsOK, InPend
  <2>3. \A t \in Tasks : InPend(t) => tcb'[t] = tcb[t]
    BY <1>3, <2>2 DEF OS_FlagTaskRdy
  <2> QED BY <2>1, <2>3, CallStays
<1>4. ASSUME NEW g \in FlagGroups, NEW f, NEW set, OSFlagPost(g, f, set)
      PROVE  Stay
  <2>1. PICK now : OS_FlagTaskRdy(TasksRdy(g, now),
                     [t \in Tasks |-> FlagsRdy(now, node[t].flags, node[t].type)])
    BY <1>4 DEF OSFlagPost
  <2>2. TasksRdy(g, now) \in SUBSET OSFlagWaitList[g]
    BY DEF TasksRdy
  <2>3. CanCall /\ UNCHANGED <<schedVars, listVars, event, node, app>>
    BY <1>1, <1>4 DEF OSFlagPost
  <2> QED BY <1>3, <2>1, <2>2, <2>3
<1>5. ASSUME NEW g \in FlagGroups, NEW b, OSFlagDel(g, b)
      PROVE  Stay
  <2>1. CanCall /\ UNCHANGED <<schedVars, listVars, event, node, app>>
    BY <1>1, <1>5 DEF OSFlagDel, TaskCalls
  <2>2. OS_FlagTaskRdy(OSFlagWaitList[g], [t \in Tasks |-> {}])
    BY <1>5 DEF OSFlagDel
  <2> QED BY <1>3, <2>1, <2>2
<1>6. ASSUME NEW g \in FlagGroups, NEW f, NEW type, NEW consume, NEW timeout, MayPend,
             OS_FlagBlock(g, f, type, consume, timeout)
      PROVE  Stay
  <2>1. PICK c : c = OSTCBCur
    OBVIOUS
  <2>2. /\ c \in Tasks /\ pc[c] = "run" /\ local[c] \in Locals
    BY <1>6, <2>1, CallerAtRest
  <2>3. /\ OSTCBList' = OSTCBList /\ event' = event
        /\ pc' = [pc EXCEPT ![c] = "pend"] /\ local' = [local EXCEPT ![c].call = "flag"]
        /\ \A t \in Tasks \ {c} : tcb'[t] = tcb[t]
    BY <1>6, <2>1, <2>2 DEF OS_FlagBlock, listVars, TasksOK, TypesOK
  <2>4. pc'[c] # "delete" /\ \A t \in Tasks \ {c} : pc'[t] = pc[t] /\ local'[t] = local[t]
    BY <2>2, <2>3 DEF TasksOK, TypesOK
  <2>5. local'[c].call = "flag"
    BY <2>2, <2>3 DEF TasksOK, TypesOK, Locals
  <2>6. ~InPend(c) /\ ~InPend(c)'
    BY <2>2, <2>5 DEF InPend, Pending
  <2> QED BY <2>2, <2>3, <2>4, <2>6, CallerStays
<1>7. ASSUME OSFlagPendEnds
      PROVE  Stay
  <2>1. PICK c : c = OSTCBCur
    OBVIOUS
  <2>2. c \in Tasks /\ pc[c] = "wake" /\ local[c].call = "flag"
    BY <1>7, <2>1, WokenIsReady DEF OSFlagPendEnds
  <2>3. /\ OSTCBList' = OSTCBList /\ event' = event
        /\ pc' = [pc EXCEPT ![c] = "run"] /\ local' = [local EXCEPT ![c] = NoLocal]
        /\ \A t \in Tasks \ {c} : tcb'[t] = tcb[t]
    BY <1>7, <2>1 DEF OSFlagPendEnds, listVars, TasksOK, TypesOK
  <2>4. pc'[c] = "run" /\ \A t \in Tasks \ {c} : pc'[t] = pc[t] /\ local'[t] = local[t]
    BY <2>2, <2>3 DEF TasksOK, TypesOK
  <2>5. ~InPend(c) /\ ~InPend(c)'
    BY <2>2, <2>4 DEF InPend, Pending
  <2> QED BY <2>2, <2>3, <2>4, <2>5, CallerStays
<1> QED
  BY <1>2, <1>4, <1>5, <1>6, <1>7 DEF EventFlags, OSFlagPend, OSFlagAccept, OSFlagCreate

-----------------------------------------------------------------------------
(* The fields of an event's block other than its wait list.                *)
DataSame(e) ==
  event'[e].type = event[e].type /\ event'[e].cnt = event[e].cnt /\ event'[e].ptr = event[e].ptr

(* What a step leaves of the tasks in a pend other than those of D.        *)
OthersSame(D) ==
  \A t \in Tasks \ D : /\ InPend(t)' <=> InPend(t)
                       /\ InPend(t) => local'[t] = local[t] /\ tcb'[t] = tcb[t]

(* Task c begins to wait for the events of es.                             *)
Enters(c, es) ==
  /\ c \in OSTCBList /\ c \in Tasks /\ ~InPend(c) /\ InPend(c)' /\ es # {}
  /\ local'[c].call \in {"sem", "mbox", "q", "multi"} /\ local'[c].events = es
  /\ IF local'[c].call = "multi" THEN tcb'[c].multi = es /\ tcb'[c].eventPtr = NoEvent
                                 ELSE es = {tcb'[c].eventPtr}
  /\ \A e \in es : /\ event[e].type \in {"sem", "mbox", "q"}
                   /\ local'[c].call # "multi" => event[e].type = local'[c].call
  /\ tcb'[c].prio = tcb[c].prio /\ tcb'[c].statPend = "OK"
  /\ \A e \in Events : /\ tcb[c].prio \notin Waiters(e) /\ DataSame(e)
                       /\ Waiters(e)' = IF e \in es THEN Waiters(e) \cup {tcb[c].prio} ELSE Waiters(e)
  /\ OthersSame({c})

(* Event e makes tasks that wait for it ready: they leave all their lists. *)
Awakens(e, woken, msg, how) ==
  /\ \A t \in woken :
       /\ t \in Tasks /\ InPend(t) /\ InPend(t)' /\ local'[t] = local[t] /\ tcb[t].prio \in Waiters(e)
       /\ tcb'[t].prio = tcb[t].prio /\ tcb'[t].multi = tcb[t].multi
       /\ tcb'[t].dly = 0 /\ tcb'[t].statPend = how /\ tcb'[t].msg = msg
       /\ tcb'[t].eventPtr = IF tcb[t].multi # {} THEN e ELSE tcb[t].eventPtr
  /\ \A x \in Events : Waiters(x)' = Waiters(x) \ {tcb[t].prio : t \in {u \in woken : x \in local[u].events}}
  /\ \A x \in Events : DataSame(x) \/ (x = e /\ event'[e] = EventClear /\ Waiters(e)' = {})
  /\ OthersSame(woken)

(* Task t ends its pend, or is deleted in it, and is in no list any more.  *)
Leaves(t) ==
  /\ t \in Tasks /\ InPend(t) /\ ~InPend(t)' /\ OthersSame({t})
  /\ \A e \in Events : Waiters(e)' = Waiters(e) \ {tcb[t].prio} /\ DataSame(e)

(* Two tasks in a pend have different priorities.                          *)
LEMMA PriosDiffer ==
  ASSUME TasksOK, NEW t \in OSTCBList, NEW u \in OSTCBList, t # u
  PROVE  tcb[t].prio # tcb[u].prio
BY DEF TasksOK, TableOK

LEMMA WaitersInPend ==
  ASSUME TasksOK, NEW e \in Events, NEW p \in Waiters(e)
  PROVE  /\ OSTCBPrioTbl[p] \in Tasks /\ InPend(OSTCBPrioTbl[p])
         /\ tcb[OSTCBPrioTbl[p]].prio = p /\ e \in local[OSTCBPrioTbl[p]].events
<1>1. PICK t : t = OSTCBPrioTbl[p]
  OBVIOUS
<1>2. t \in OSTCBList /\ t \in Tasks /\ Pending(t) /\ e \in local[t].events
  BY <1>1 DEF TasksOK, ListsOK, TypesOK
<1>3. p \in Prios /\ tcb[t].prio = p
  BY <1>1, <1>2 DEF TasksOK, TableOK, EventsTyped, Waiters
<1>4. ~BeingDeleted(t)
  BY <1>2, <1>3, NotBeingDeleted DEF TasksOK, Listed
<1>5. local[t].call # "flag"
  BY <1>2 DEF TasksOK, PendingOK
<1> QED BY <1>1, <1>2, <1>3, <1>4, <1>5 DEF InPend

LEMMA EntersPends ==
  ASSUME TasksOK, PendsOK, NEW c, NEW es \in SUBSET Events, Enters(c, es)
  PROVE  PendsOK'
<1> SUFFICES ASSUME NEW t \in Tasks, InPend(t)' PROVE PendOK(t)'
  BY DEF PendsOK
<1>1. CASE t = c
  <2>1. Waiting(t)'
    BY <1>1 DEF Enters, Waiting, DataSame
  <2> QED BY <1>1, <2>1 DEF Enters, PendOK
<1>2. CASE t # c
  <2>1. InPend(t) /\ PendOK(t) /\ local'[t] = local[t] /\ tcb'[t] = tcb[t]
    BY <1>2 DEF Enters, OthersSame, PendsOK
  <2>2. local[t].events \subseteq Events /\ tcb[t].prio # tcb[c].prio
    BY <1>2, <2>1, PendEvents, PriosDiffer DEF InPend, Enters
  <2>3. \A e \in Events : /\ tcb[t].prio \in Waiters(e)' <=> tcb[t].prio \in Waiters(e)
                          /\ event'[e].type = event[e].type
    BY <2>2 DEF Enters, DataSame
  <2>4. CASE Waiting(t)
    <3>1. local[t].call # "multi" => tcb[t].eventPtr \in Events
      BY <2>1, <2>2 DEF PendOK
    <3>2. Waiting(t)'
      BY <2>1, <2>2, <2>3, <2>4, <3>1 DEF Waiting
    <3> QED BY <2>1, <3>2 DEF PendOK
  <2>5. CASE Woken(t)
    <3>1. Woken(t)'
      BY <2>1, <2>3, <2>5 DEF Woken
    <3> QED BY <2>1, <3>1 DEF PendOK
  <2> QED BY <2>1, <2>4, <2>5 DEF PendOK
<1> QED BY <1>1, <1>2

LEMMA AwakensPends ==
  ASSUME TasksOK, PendsOK, NEW e \in Events, NEW woken, NEW msg, NEW how \in {"OK", "ABORT"},
         Awakens(e, woken, msg, how)
  PROVE  PendsOK'
<1> SUFFICES ASSUME NEW t \in Tasks, InPend(t)' PROVE PendOK(t)'
  BY DEF PendsOK
<1>1. /\ InPend(t) /\ PendOK(t) /\ t \in OSTCBList /\ local'[t] = local[t]
      /\ local[t].events \subseteq Events /\ local[t].events # {}
  BY PendEvents DEF Awakens, OthersSame, PendsOK, PendOK, InPend
<1>2. CASE t \in woken
  <2>1. /\ tcb'[t].prio = tcb[t].prio /\ tcb'[t].multi = tcb[t].multi
        /\ tcb'[t].dly = 0 /\ tcb'[t].statPend = how /\ tcb[t].prio \in Waiters(e)
        /\ tcb'[t].eventPtr = IF tcb[t].multi # {} THEN e ELSE tcb[t].eventPtr
    BY <1>2 DEF Awakens
  <2>2. e \in local[t].events /\ \A x \in Events : tcb[t].prio \in Waiters(x) => x \in local[t].events
    BY <1>1, <2>1 DEF TasksOK, ListsOK, TableOK
  <2>3. \A x \in Events : tcb[t].prio \notin Waiters(x)'
    BY <1>2, <2>2 DEF Awakens
  <2>4. local[t].call # "multi" => tcb[t].multi = {}
    BY DEF TasksOK, PendingOK
  <2>5. tcb'[t].eventPtr \in local[t].events /\ (local[t].call # "multi" => tcb'[t].eventPtr = tcb[t].eventPtr)
    BY <1>1, <2>1, <2>2, <2>4 DEF PendOK
  <2>6. Woken(t)'
    BY <1>1, <2>1, <2>3, <2>5 DEF Woken
  <2> QED BY <1>1, <2>1, <2>5, <2>6 DEF PendOK
<1>3. CASE t \notin woken
  <2>1. tcb'[t] = tcb[t]
    BY <1>1, <1>3 DEF Awakens, OthersSame
  <2>2. \A u \in woken : tcb[u].prio # tcb[t].prio
    BY <1>1, <1>3, PriosDiffer DEF Awakens, InPend
  <2>3. \A x \in Events : tcb[t].prio \in Waiters(x)' <=> tcb[t].prio \in Waiters(x)
    BY <2>2 DEF Awakens
  <2>4. CASE Waiting(t)
    <3>1. \A x \in local[t].events : event'[x].type = event[x].type
      BY <1>1, <2>3, <2>4 DEF Awakens, Waiting, DataSame
    <3>2. Waiting(t)'
      BY <1>1, <2>1, <2>3, <2>4, <3>1 DEF Waiting, PendOK
    <3> QED BY <1>1, <2>1, <3>2 DEF PendOK
  <2>5. CASE Woken(t)
    <3>1. Woken(t)'
      BY <1>1, <2>1, <2>3, <2>5 DEF Woken
    <3> QED BY <1>1, <2>1, <3>1 DEF PendOK
  <2> QED BY <1>1, <2>4, <2>5 DEF PendOK
<1> QED BY <1>2, <1>3

LEMMA LeavesPends ==
  ASSUME TasksOK, PendsOK, NEW d, Leaves(d)
  PROVE  PendsOK'
<1> SUFFICES ASSUME NEW t \in Tasks, InPend(t)' PROVE PendOK(t)'
  BY DEF PendsOK
<1>1. /\ t # d /\ InPend(t) /\ PendOK(t) /\ t \in OSTCBList /\ local'[t] = local[t]
      /\ tcb'[t] = tcb[t] /\ local[t].events \subseteq Events /\ tcb[t].prio # tcb[d].prio
  BY PendEvents, PriosDiffer DEF Leaves, OthersSame, PendsOK, InPend
<1>2. \A x \in Events : /\ tcb[t].prio \in Waiters(x)' <=> tcb[t].prio \in Waiters(x)
                        /\ event'[x].type = event[x].type
  BY <1>1 DEF Leaves, DataSame
<1>3. CASE Waiting(t)
  <2>1. local[t].call # "multi" => tcb[t].eventPtr \in Events
    BY <1>1 DEF PendOK
  <2>2. Waiting(t)'
    BY <1>1, <1>2, <1>3, <2>1 DEF Waiting
  <2> QED BY <1>1, <2>2 DEF PendOK
<1>4. CASE Woken(t)
  <2>1. Woken(t)'
    BY <1>1, <1>2, <1>4 DEF Woken
  <2> QED BY <1>1, <2>1 DEF PendOK
<1> QED BY <1>1, <1>3, <1>4 DEF PendOK

-----------------------------------------------------------------------------
(* The steps of the kernel that begin a pend on events.                    *)
LEMMA WaitEnters ==
  ASSUME TasksOK, MayPend, NEW call \in {"sem", "mbox", "q", "multi"},
         NEW es \in SUBSET Events, es # {}, NEW timeout, NEW bit,
         \A e \in es : /\ event[e].type \in {"sem", "mbox", "q"}
                       /\ call # "multi" => event[e].type = call,
         call # "multi" => \E e \in Events : es = {e},
         EventTaskWait(call, bit, es, timeout), NEW c, c = OSTCBCur
  PROVE  Enters(c, es)
<1>1. c = OSTCBCur
  OBVIOUS
<1>2. /\ c \in OSTCBList /\ c \in Tasks /\ c # Idle /\ pc[c] = "run" /\ ~InISR /\ ~Locked
      /\ tcb[c] \in TCBs /\ local[c] \in Locals /\ ~Listed(c) /\ tcb[c].multi = {}
  BY <1>1, CallerAtRest
<1>3. TypesOK /\ EventsTyped(event) /\ DeletionOK
  BY DEF TasksOK
<1>4. PICK first : first = IF call = "multi" THEN NoEvent ELSE CHOOSE e \in es : TRUE
  OBVIOUS
<1>5. call # "multi" => es = {first}
  BY <1>4
<1>6. /\ tcb' = [tcb EXCEPT ![c] = [tcb[c] EXCEPT
           !.stat = @ \cup bit, !.statPend = "OK", !.dly = timeout,
           !.eventPtr = first, !.multi = IF call = "multi" THEN es ELSE @]]
      /\ event' = [e \in Events |->
           IF e \in es THEN [event[e] EXCEPT !.grp = @ \cup {tcb[c].prio}] ELSE event[e]]
      /\ pc' = [pc EXCEPT ![c] = "pend"]
      /\ local' = [local EXCEPT ![c] = [local[c] EXCEPT !.call = call, !.events = es]]
      /\ OSTCBList' = OSTCBList
  BY <1>1, <1>4 DEF EventTaskWait, listVars
<1>7. /\ tcb'[c] = [tcb[c] EXCEPT !.stat = tcb[c].stat \cup bit, !.statPend = "OK", !.dly = timeout,
           !.eventPtr = first, !.multi = IF call = "multi" THEN es ELSE tcb[c].multi]
      /\ pc'[c] = "pend" /\ local'[c] = [local[c] EXCEPT !.call = call, !.events = es]
      /\ \A t \in Tasks \ {c} : pc'[t] = pc[t] /\ tcb'[t] = tcb[t] /\ local'[t] = local[t]
  BY <1>2, <1>3, <1>6 DEF TypesOK
<1>8. /\ tcb'[c].statPend = "OK" /\ tcb'[c].eventPtr = first /\ tcb'[c].prio = tcb[c].prio
      /\ tcb'[c].multi = (IF call = "multi" THEN es ELSE {})
  BY <1>2, <1>7 DEF TCBs
<1>9. local'[c].call = call /\ local'[c].events = es
  BY <1>2, <1>7 DEF Locals
<1>10. \A t : ~BeingDeleted(t) /\ ~BeingDeleted(t)'
  <2>1. \A u \in Tasks : pc[u] # "delete" /\ pc'[u] # "delete"
    BY <1>1, <1>2, <1>3, <1>7 DEF DeletionOK
  <2> QED BY <1>3, <1>6, <2>1 DEF BeingDeleted, TypesOK
<1>11. ~InPend(c) /\ InPend(c)'
  BY <1>2, <1>6, <1>7, <1>9, <1>10 DEF InPend, Pending
<1>12. OthersSame({c})
  BY <1>6, <1>7, <1>10 DEF OthersSame, InPend, Pending
<1>13. ASSUME NEW e \in Events
       PROVE  /\ tcb[c].prio \notin Waiters(e) /\ DataSame(e)
              /\ Waiters(e)' = IF e \in es THEN Waiters(e) \cup {tcb[c].prio} ELSE Waiters(e)
  <2>1. DOMAIN event[e] = EventFields
    BY <1>3 DEF EventsTyped
  <2>2. event'[e] = IF e \in es THEN [event[e] EXCEPT !.grp = event[e].grp \cup {tcb[c].prio}] ELSE event[e]
    BY <1>6
  <2> QED BY <1>2, <2>1, <2>2 DEF EventFields, DataSame, Waiters, Listed
<1> QED BY <1>1, <1>2, <1>4, <1>5, <1>8, <1>9, <1>11, <1>12, <1>13 DEF Enters

(* Those with which a task returns from one: it is in a list only if it    *)
(* has timed out.                                                          *)
Over(t) == Listed(t) => tcb[t].statPend = "TO"

LEMMA WakeLeaves ==
  ASSUME TasksOK, NEW call \in {"sem", "mbox", "q", "multi"}, Wake(call), NEW c, c = OSTCBCur
  PROVE  Leaves(c) /\ Over(c)
<1>1. c = OSTCBCur
  OBVIOUS
<1>2. ~InISR /\ c # Idle /\ pc[c] = "wake" /\ local[c].call = call
  BY <1>1 DEF Wake
<1>3. /\ c \in OSTCBList /\ c \in Tasks /\ tcb[c] \in TCBs
      /\ ~Waits(c) /\ (Listed(c) => tcb[c].statPend = "TO")
  BY <1>1, <1>2, WokenIsReady
<1>4. TypesOK /\ EventsTyped(event) /\ TableOK /\ DeletionOK /\ ListsOK
  BY DEF TasksOK
<1>5. /\ \/ tcb[c].statPend = "TO" /\ EventTaskRemove(c, local[c].events)
         \/ tcb[c].statPend # "TO" /\ event' = event
      /\ pc' = [pc EXCEPT ![c] = "run"] /\ local' = [local EXCEPT ![c] = NoLocal]
      /\ OSTCBList' = OSTCBList
      /\ \A t \in Tasks \ {c} : tcb'[t] = tcb[t]
  BY <1>1, <1>4 DEF Wake, listVars, TypesOK
<1>6. pc'[c] = "run" /\ \A t \in Tasks \ {c} : pc'[t] = pc[t] /\ local'[t] = local[t]
  BY <1>3, <1>4, <1>5 DEF TypesOK
<1>7. \A t : ~BeingDeleted(t) /\ ~BeingDeleted(t)'
  <2>1. \A u \in Tasks : pc[u] # "delete" /\ pc'[u] # "delete"
    BY <1>1, <1>2, <1>4, <1>6 DEF DeletionOK
  <2> QED BY <1>4, <1>5, <2>1 DEF BeingDeleted, TypesOK
<1>8. InPend(c) /\ ~InPend(c)'
  BY <1>2, <1>3, <1>6, <1>7 DEF InPend, Pending
<1>9. OthersSame({c})
  BY <1>5, <1>6, <1>7 DEF OthersSame, InPend, Pending
<1>10. ASSUME NEW e \in Events
       PROVE  Waiters(e)' = Waiters(e) \ {tcb[c].prio} /\ DataSame(e)
  <2>1. CASE tcb[c].statPend = "TO" /\ EventTaskRemove(c, local[c].events)
    <3>1. e \notin local[c].events => tcb[c].prio \notin Waiters(e)
      BY <1>3, <1>4 DEF ListsOK, TableOK
    <3>2. DOMAIN event[e] = EventFields
      BY <1>4 DEF EventsTyped
    <3>3. event'[e] = IF e \in local[c].events
                      THEN [event[e] EXCEPT !.grp = event[e].grp \ {tcb[c].prio}] ELSE event[e]
      BY <2>1 DEF EventTaskRemove
    <3> QED BY <3>1, <3>2, <3>3 DEF EventFields, DataSame, Waiters
  <2>2. CASE tcb[c].statPend # "TO" /\ event' = event
    <3>1. tcb[c].prio \notin Waiters(e)
      BY <1>3, <2>2 DEF Listed
    <3> QED BY <2>2, <3>1 DEF DataSame, Waiters
  <2> QED BY <1>5, <2>1, <2>2
<1> QED BY <1>1, <1>3, <1>8, <1>9, <1>10 DEF Leaves, Over

(* The deletion of a task that is in a pend, or is in none.                *)
LEMMA TaskDelLeaves ==
  ASSUME TasksOK, NEW prio \in Prios, OSTaskDel(prio), NEW t, t = OSTCBPrioTbl[prio]
  PROVE  /\ t \in Tasks /\ \A e \in Events : DataSame(e)
         /\ IF InPend(t) THEN Leaves(t) ELSE Stay
<1>1. PICK c : c = OSTCBCur
  OBVIOUS
<1>2. TypesOK /\ EventsTyped(event) /\ TableOK /\ DeletionOK /\ ListsOK /\ CurrentOK
  BY DEF TasksOK
<1>3. c \in OSTCBList /\ c \in Tasks /\ pc[c] = "run" /\ t \in OSTCBList /\ t \in Tasks
      /\ OSTCBPrioTbl[tcb[t].prio] = t
  BY <1>1, <1>2, CallerExists DEF OSTaskDel, TaskCalls, TableOK
<1>4. /\ EventTaskRemove(t, tcb[t].multi \cup {tcb[t].eventPtr})
      /\ tcb' = [tcb EXCEPT ![t].dly = 0, ![t].stat = {}, ![t].statPend = "OK"]
      /\ pc' = [pc EXCEPT ![c] = "delete"]
      /\ local' = [local EXCEPT ![c].task = t, ![c].prio = prio]
      /\ OSTCBList' = OSTCBList
  BY <1>1 DEF OSTaskDel, listVars
<1>5. /\ pc'[c] = "delete" /\ local'[c].task = t
      /\ \A u \in Tasks \ {c} : pc'[u] = pc[u] /\ local'[u] = local[u]
      /\ \A u \in Tasks \ {t} : tcb'[u] = tcb[u]
  <2>1. local[c] \in Locals
    BY <1>2, <1>3 DEF TypesOK
  <2>2. local'[c] = [[local[c] EXCEPT !.task = t] EXCEPT !.prio = prio]
    BY <1>2, <1>3, <1>4 DEF TypesOK
  <2>3. local'[c].task = t
    BY <2>1, <2>2 DEF Locals
  <2> QED BY <1>2, <1>3, <1>4, <2>3 DEF TypesOK
<1>6. \A u : BeingDeleted(u)' <=> u = t
  <2>1. \A u \in Tasks : pc[u] # "delete"
    BY <1>1, <1>2, <1>3 DEF DeletionOK
  <2>2. \A u \in Tasks : pc'[u] = "delete" <=> u = c
    BY <1>3, <1>5, <2>1
  <2> QED BY <1>2, <1>3, <1>4, <1>5, <2>2 DEF BeingDeleted, TypesOK
<1>7. \A u : ~BeingDeleted(u)
  BY <1>1, <1>2, <1>3 DEF DeletionOK, BeingDeleted, TypesOK
<1>8. ~InPend(t)' /\ ~InPend(c) /\ ~InPend(c)'
  BY <1>3, <1>5, <1>6 DEF InPend, Pending
<1>9. OthersSame({t})
  <2>1. \A u \in Tasks \ {t, c} : /\ InPend(u)' <=> InPend(u)
                                  /\ local'[u] = local[u] /\ tcb'[u] = tcb[u]
    BY <1>4, <1>5, <1>6, <1>7 DEF InPend, Pending
  <2> QED BY <1>8, <2>1 DEF OthersSame
<1>10. ASSUME NEW e \in Events
       PROVE  Waiters(e)' = Waiters(e) \ {tcb[t].prio} /\ DataSame(e)
  <2>1. tcb[t].prio \in Waiters(e) => e \in tcb[t].multi \cup {tcb[t].eventPtr}
    BY <1>2, <1>3 DEF ListsOK, Lists
  <2>2. DOMAIN event[e] = EventFields
    BY <1>2 DEF EventsTyped
  <2>3. event'[e] = IF e \in tcb[t].multi \cup {tcb[t].eventPtr}
                    THEN [event[e] EXCEPT !.grp = event[e].grp \ {tcb[t].prio}] ELSE event[e]
    BY <1>4 DEF EventTaskRemove
  <2> QED BY <2>1, <2>2, <2>3 DEF EventFields, DataSame, Waiters
<1>11. CASE InPend(t)
  BY <1>3, <1>8, <1>9, <1>10, <1>11 DEF Leaves
<1>12. CASE ~InPend(t)
  <2>1. \A e \in Events : tcb[t].prio \notin Waiters(e)
    BY <1>3, <1>12, WaitersInPend
  <2>2. ListsSame
    BY <1>10, <2>1 DEF ListsSame, DataSame
  <2>3. \A u \in Tasks : Keeps(u)
    BY <1>8, <1>9, <1>12 DEF OthersSame, Keeps
  <2> QED BY <1>3, <1>10, <1>12, <2>2, <2>3 DEF Stay
<1> QED BY <1>3, <1>10, <1>11, <1>12

(* And a post, an abort or a deletion of the event.                        *)
LEMMA ReadyAwakens ==
  ASSUME TasksOK, PendsOK, CanCall, NEW e \in Events, NEW S \in SUBSET Waiters(e),
         NEW msg \in Msgs \cup {NoMsg}, NEW msk, NEW how \in {"OK", "ABORT"},
         \/ S # {} /\ msk = {StatBit(e)} /\ EventTaskRdy(e, S, msg, msk, how)
         \/ /\ S = Waiters(e) /\ msg = NoMsg /\ how = "OK"
            /\ \E bit : msk = {bit} /\ bit = StatBit(e) /\ EventDelAlways(e, bit),
         CallSched \/ Return, OSTCBCur' = OSTCBCur, OSPrioCur' = OSPrioCur,
         OSIntNesting' = OSIntNesting, OSLockNesting' = OSLockNesting,
         UNCHANGED <<listVars, flagVars, app>>
  PROVE  Awakens(e, {OSTCBPrioTbl[p] : p \in S}, msg, how)
<1>1. PICK woken : woken = {OSTCBPrioTbl[p] : p \in S}
  OBVIOUS
<1>2. TypesOK /\ EventsTyped(event) /\ TableOK /\ ListsOK /\ CurrentOK
  BY DEF TasksOK
<1>3. /\ tcb' = [t \in Tasks |-> IF t \in woken THEN Awoken(t, e, msg, msk, how) ELSE tcb[t]]
      /\ \/ event' = ListsWithout(woken, e)
         \/ S = Waiters(e) /\ event' = [ListsWithout(woken, e) EXCEPT ![e] = EventClear]
  BY <1>1, Zenon DEF EventTaskRdy, EventDelAlways
<1>4. CallFrame
  BY FrameOfCall DEF flagVars
<1>5. /\ \A t \in Tasks : Pending(t)' = Pending(t)
      /\ \A t \in OSTCBList : BeingDeleted(t)' = BeingDeleted(t)
      /\ OSTCBList' = OSTCBList /\ local' = local
  BY <1>2, <1>4, FrameFacts DEF CallFrame
<1>6. \A t \in Tasks : InPend(t)' = InPend(t)
  BY <1>5 DEF InPend
<1>7. \A t \in woken : t \in Tasks /\ InPend(t) /\ tcb[t].prio \in S
  BY <1>1, WaitersInPend
<1>8. ASSUME NEW t \in woken
      PROVE  /\ tcb'[t].prio = tcb[t].prio /\ tcb'[t].multi = tcb[t].multi
             /\ tcb'[t].dly = 0 /\ tcb'[t].statPend = how /\ tcb'[t].msg = msg
             /\ tcb'[t].eventPtr = IF tcb[t].multi # {} THEN e ELSE tcb[t].eventPtr
  <2>1. tcb'[t] = Awoken(t, e, msg, msk, how) /\ tcb[t] \in TCBs
    BY <1>3, <1>7, PendEvents
  <2> QED BY <2>1 DEF Awoken, TCBs
<1>9. OthersSame(woken)
  BY <1>3, <1>5, <1>6 DEF OthersSame
<1>10. ASSUME NEW t \in woken, NEW x \in Events
       PROVE  x = e \/ x \in tcb[t].multi <=> x \in local[t].events
  <2>1. e \in local[t].events /\ PendOK(t)
    BY <1>1, <1>7, WaitersInPend DEF PendsOK
  <2>2. local[t].call # "multi" => tcb[t].multi = {}
    BY <1>7 DEF TasksOK, PendingOK
  <2> QED BY <2>1, <2>2 DEF PendOK
<1>11. PICK L : L = ListsWithout(woken, e)
  OBVIOUS
<1>12. ASSUME NEW x \in Events
       PROVE  /\ L[x].type = event[x].type /\ L[x].cnt = event[x].cnt /\ L[x].ptr = event[x].ptr
              /\ L[x].grp = event[x].grp \ {tcb[t].prio : t \in {u \in woken : x \in local[u].events}}
  <2>1. PICK G : G = {tcb[t].prio : t \in {u \in woken : x = e \/ x \in tcb[u].multi}}
    OBVIOUS
  <2>2. G = {tcb[t].prio : t \in {u \in woken : x \in local[u].events}}
    BY <1>10, <2>1
  <2>3. L[x] = [event[x] EXCEPT !.grp = event[x].grp \ G]
    BY <1>11, <2>1 DEF ListsWithout
  <2>4. DOMAIN event[x] = EventFields
    BY <1>2 DEF EventsTyped
  <2> QED BY <2>2, <2>3, <2>4 DEF EventFields
<1>13. DOMAIN L = Events
  BY <1>11 DEF ListsWithout
<1>14. CASE event' = L
  BY <1>1, <1>5, <1>6, <1>7, <1>8, <1>9, <1>12, <1>14 DEF Awakens, Waiters, DataSame
<1>15. CASE S = Waiters(e) /\ event' = [L EXCEPT ![e] = EventClear]
  <2>1. /\ event'[e] = EventClear /\ \A x \in Events : x # e => event'[x] = L[x]
    BY <1>13, <1>15
  <2>2. EventClear.grp = {}
    BY FreshFields
  <2>3. L[e].grp = {}
    <3>1. ASSUME NEW p \in Waiters(e)
          PROVE  p \in {tcb[t].prio : t \in {u \in woken : e \in local[u].events}}
      <4>1. /\ OSTCBPrioTbl[p] \in woken /\ tcb[OSTCBPrioTbl[p]].prio = p
            /\ e \in local[OSTCBPrioTbl[p]].events
        BY <1>1, <1>15, WaitersInPend
      <4> QED BY <4>1
    <3> QED BY <1>12, <3>1 DEF Waiters
  <2>4. \A x \in Events : event'[x].grp = L[x].grp
    BY <2>1, <2>2, <2>3
  <2>5. \A x \in Events : Waiters(x)' =
          Waiters(x) \ {tcb[t].prio : t \in {u \in woken : x \in local[u].events}}
    BY <1>12, <2>4 DEF Waiters
  <2>6. \A x \in Events : DataSame(x) \/ (x = e /\ event'[e] = EventClear /\ Waiters(e)' = {})
    BY <1>12, <2>1, <2>2 DEF DataSame, Waiters
  <2> QED BY <1>5, <1>6, <1>7, <1>8, <1>9, <2>5, <2>6, <1>1 DEF Awakens
<1> QED BY <1>1, <1>3, <1>11, <1>14, <1>15

-----------------------------------------------------------------------------
(* Who was made ready by e and has yet to return: a task whose control     *)
(* block says so and that is in no list.                                   *)
GrantedBy(e) ==
  {t \in Tasks : InPend(t) /\ Woken(t) /\ tcb[t].statPend = "OK" /\ tcb[t].eventPtr = e}

LEMMA GrantedMeans ==
  ASSUME TasksOK, PendsOK, NEW e \in Events
  PROVE  Granted(e) = GrantedBy(e)
<1>1. ASSUME NEW t \in Granted(e)
      PROVE  t \in GrantedBy(e)
  <2>1. /\ t \in OSTCBList /\ ~BeingDeleted(t) /\ Pending(t) /\ e \in local[t].events
        /\ tcb[t].statPend = "OK" /\ tcb[t].prio \notin Waiters(e)
        /\ local[t].call = "multi" => tcb[t].eventPtr = e
    BY <1>1 DEF Granted, Pending
  <2>2. t \in Tasks /\ local[t].call # "flag"
    BY <2>1 DEF TasksOK, TypesOK, PendingOK
  <2>3. InPend(t) /\ PendOK(t)
    BY <2>1, <2>2 DEF InPend, PendsOK
  <2>4. Woken(t) /\ tcb[t].eventPtr = e
    BY <2>1, <2>3 DEF PendOK, Waiting
  <2> QED BY <2>1, <2>2, <2>3, <2>4 DEF GrantedBy
<1>2. ASSUME NEW t \in GrantedBy(e)
      PROVE  t \in Granted(e)
  BY <1>2 DEF GrantedBy, Granted, InPend, Woken, Pending
<1> QED BY <1>1, <1>2

LEMMA GrantedMeansAll == TasksOK /\ PendsOK => \A e \in Events : Granted(e) = GrantedBy(e)
BY GrantedMeans

LEMMA GrantedMeansNext ==
  TasksOK' /\ PendsOK' => (\A e \in Events : Granted(e) = GrantedBy(e))'
BY GrantedMeansAll, PTL

LEMMA GrantedStay ==
  ASSUME TasksOK, PendsOK, TasksOK', PendsOK', Stay, NEW e \in Events
  PROVE  /\ Granted(e)' = Granted(e)
         /\ \A t \in Granted(e) : tcb'[t].msg = tcb[t].msg /\ local'[t] = local[t]
<1>1. Granted(e) = GrantedBy(e)
  BY GrantedMeans
<1>2. Granted(e)' = GrantedBy(e)'
  BY GrantedMeansNext
<1>3. ASSUME NEW t \in Tasks
      PROVE  t \in GrantedBy(e)' <=> t \in GrantedBy(e)
  <2>1. CASE InPend(t)
    <3>1. /\ PendOK(t) /\ InPend(t)' /\ local'[t] = local[t]
          /\ tcb'[t].prio = tcb[t].prio /\ tcb'[t].eventPtr = tcb[t].eventPtr
          /\ tcb[t].dly = 0 => tcb'[t].dly = 0 /\ tcb'[t].statPend = tcb[t].statPend
          /\ local[t].events \subseteq Events /\ local[t].events # {}
      BY <2>1, PendEvents DEF Stay, Keeps, PendsOK, PendOK
    <3>2. \A x \in Events : Waiters(x)' = Waiters(x)
      BY DEF Stay, ListsSame
    <3>3. CASE Woken(t)
      <4>1. Woken(t)' /\ tcb'[t].statPend = tcb[t].statPend
        BY <3>1, <3>2, <3>3 DEF Woken
      <4> QED BY <2>1, <3>1, <3>3, <4>1 DEF GrantedBy
    <3>4. CASE Waiting(t)
      <4>1. ~Woken(t) /\ ~Woken(t)'
        BY <3>1, <3>2, <3>4 DEF Waiting, Woken
      <4> QED BY <4>1 DEF GrantedBy
    <3> QED BY <3>1, <3>3, <3>4 DEF PendOK
  <2>2. CASE ~InPend(t)
    BY <2>2 DEF Stay, Keeps, GrantedBy
  <2> QED BY <2>1, <2>2
<1>4. \A t \in GrantedBy(e) : tcb'[t].msg = tcb[t].msg /\ local'[t] = local[t]
  BY DEF GrantedBy, Stay, Keeps
<1> QED BY <1>1, <1>2, <1>3, <1>4 DEF GrantedBy

LEMMA GrantedEnters ==
  ASSUME TasksOK, PendsOK, TasksOK', PendsOK', NEW c, NEW es \in SUBSET Events, Enters(c, es),
         NEW e \in Events
  PROVE  Granted(e)' = Granted(e) /\ \A t \in Granted(e) : tcb'[t] = tcb[t] /\ local'[t] = local[t]
<1>1. Granted(e) = GrantedBy(e)
  BY GrantedMeans
<1>2. Granted(e)' = GrantedBy(e)'
  BY GrantedMeansNext
<1>3. c \notin GrantedBy(e) /\ c \notin GrantedBy(e)'
  BY DEF GrantedBy, Enters, Woken
<1>4. ASSUME NEW t \in Tasks \ {c}
      PROVE  t \in GrantedBy(e)' <=> t \in GrantedBy(e)
  <2>1. CASE InPend(t)
    <3>1. InPend(t)' /\ local'[t] = local[t] /\ tcb'[t] = tcb[t] /\ tcb[t].prio # tcb[c].prio
      BY <2>1, PriosDiffer DEF Enters, OthersSame, InPend
    <3>2. \A x \in Events : tcb[t].prio \in Waiters(x)' <=> tcb[t].prio \in Waiters(x)
      BY <3>1 DEF Enters
    <3> QED BY <2>1, <3>1, <3>2 DEF GrantedBy, Woken
  <2>2. CASE ~InPend(t)
    BY <2>2 DEF Enters, OthersSame, GrantedBy
  <2> QED BY <2>1, <2>2
<1>5. \A t \in GrantedBy(e) : tcb'[t] = tcb[t] /\ local'[t] = local[t]
  BY <1>3 DEF GrantedBy, Enters, OthersSame
<1> QED BY <1>1, <1>2, <1>3, <1>4, <1>5 DEF GrantedBy

LEMMA GrantedAwakens ==
  ASSUME TasksOK, PendsOK, TasksOK', PendsOK', NEW x \in Events,
         NEW e \in Events, NEW woken, NEW msg, NEW how \in {"OK", "ABORT"},
         Awakens(e, woken, msg, how)
  PROVE  /\ Granted(x)' = IF x = e /\ how = "OK" THEN Granted(x) \cup woken ELSE Granted(x)
         /\ Granted(x) \cap woken = {}
         /\ \A t \in Granted(x) : tcb'[t] = tcb[t] /\ local'[t] = local[t]
<1>1. Granted(x) = GrantedBy(x)
  BY GrantedMeans
<1>2. Granted(x)' = GrantedBy(x)'
  BY GrantedMeansNext
<1>3. ASSUME NEW t \in woken
      PROVE  t \in Tasks /\ t \notin GrantedBy(x) /\ (t \in GrantedBy(x)' <=> x = e /\ how = "OK")
  <2>1. /\ t \in Tasks /\ InPend(t) /\ InPend(t)' /\ PendOK(t) /\ PendOK(t)'
        /\ tcb[t].prio \in Waiters(e) /\ tcb'[t].prio = tcb[t].prio
        /\ tcb'[t].dly = 0 /\ tcb'[t].statPend = how /\ local'[t] = local[t]
        /\ tcb'[t].eventPtr = IF tcb[t].multi # {} THEN e ELSE tcb[t].eventPtr
    BY DEF Awakens, PendsOK
  <2>2. e \in local[t].events
    BY <2>1 DEF InPend, TasksOK, ListsOK, TableOK
  <2>3. local[t].call # "multi" => tcb[t].multi = {}
    BY <2>1 DEF TasksOK, PendingOK
  <2>4. tcb'[t].eventPtr = e
    BY <2>1, <2>2, <2>3 DEF PendOK
  <2>5. ~Woken(t)
    BY <2>1 DEF Woken
  <2>6. ~Waiting(t)'
    <3>1. tcb[t].prio \notin Waiters(e)'
      BY <2>2 DEF Awakens
    <3> QED BY <2>1, <2>2, <3>1 DEF Waiting
  <2> QED BY <2>1, <2>4, <2>5, <2>6 DEF PendOK, GrantedBy
<1>4. ASSUME NEW t \in Tasks \ woken
      PROVE  t \in GrantedBy(x)' <=> t \in GrantedBy(x)
  <2>1. CASE InPend(t)
    <3>1. /\ InPend(t)' /\ local'[t] = local[t] /\ tcb'[t] = tcb[t]
          /\ \A u \in woken : tcb[u].prio # tcb[t].prio
      BY <2>1, PriosDiffer DEF Awakens, OthersSame, InPend
    <3>2. \A y \in Events : tcb[t].prio \in Waiters(y)' <=> tcb[t].prio \in Waiters(y)
      BY <3>1 DEF Awakens
    <3> QED BY <2>1, <3>1, <3>2 DEF GrantedBy, Woken
  <2>2. CASE ~InPend(t)
    BY <2>2 DEF Awakens, OthersSame, GrantedBy
  <2> QED BY <2>1, <2>2
<1>5. \A t \in GrantedBy(x) : tcb'[t] = tcb[t] /\ local'[t] = local[t]
  BY <1>3 DEF GrantedBy, Awakens, OthersSame
<1>6. GrantedBy(x)' = IF x = e /\ how = "OK" THEN GrantedBy(x) \cup woken ELSE GrantedBy(x)
  BY <1>3, <1>4 DEF GrantedBy
<1> QED BY <1>1, <1>2, <1>3, <1>5, <1>6

LEMMA GrantedLeaves ==
  ASSUME TasksOK, PendsOK, TasksOK', PendsOK', NEW x \in Events, NEW d, Leaves(d)
  PROVE  /\ Granted(x)' = Granted(x) \ {d}
         /\ \A t \in Granted(x) \ {d} : tcb'[t] = tcb[t] /\ local'[t] = local[t]
<1>1. Granted(x) = GrantedBy(x)
  BY GrantedMeans
<1>2. Granted(x)' = GrantedBy(x)'
  BY GrantedMeansNext
<1>3. d \notin GrantedBy(x)'
  BY DEF GrantedBy, Leaves
<1>4. ASSUME NEW t \in Tasks \ {d}
      PROVE  t \in GrantedBy(x)' <=> t \in GrantedBy(x)
  <2>1. CASE InPend(t)
    <3>1. InPend(t)' /\ local'[t] = local[t] /\ tcb'[t] = tcb[t] /\ tcb[t].prio # tcb[d].prio
      BY <2>1, PriosDiffer DEF Leaves, OthersSame, InPend
    <3>2. \A y \in Events : tcb[t].prio \in Waiters(y)' <=> tcb[t].prio \in Waiters(y)
      BY <3>1 DEF Leaves
    <3> QED BY <2>1, <3>1, <3>2 DEF GrantedBy, Woken
  <2>2. CASE ~InPend(t)
    BY <2>2 DEF Leaves, OthersSame, GrantedBy
  <2> QED BY <2>1, <2>2
<1>5. \A t \in GrantedBy(x) \ {d} : tcb'[t] = tcb[t] /\ local'[t] = local[t]
  BY DEF GrantedBy, Leaves, OthersSame
<1> QED BY <1>1, <1>2, <1>3, <1>4, <1>5 DEF GrantedBy

-----------------------------------------------------------------------------
(* The calls of the services, each as one of these.                        *)
Awakened(S) == {OSTCBPrioTbl[p] : p \in S}

(* Somebody waits: the highest, or all of them, are made ready.            *)
Readies(e, S, msg, how) ==
  /\ Waiters(e) # {} /\ S \in {Waiters(e), HighestWaiter(e)}
  /\ Awakens(e, Awakened(S), msg, how)

LEMMA PendEnters ==
  ASSUME TasksOK, MayPend, NEW e \in Events, NEW call \in {"sem", "mbox", "q"}, NEW bit,
         event[e].type = call, NEW timeout, EventTaskWait(call, bit, {e}, timeout)
  PROVE  \E c : Enters(c, {e})
<1>1. /\ call \in {"sem", "mbox", "q", "multi"} /\ call # "multi"
      /\ {e} \in SUBSET Events /\ {e} # {} /\ \E x \in Events : {e} = {x}
      /\ \A x \in {e} : /\ event[x].type \in {"sem", "mbox", "q"}
                        /\ call # "multi" => event[x].type = call
  OBVIOUS
<1>2. PICK es : es = {e}
  OBVIOUS
<1>3. PICK c : c = OSTCBCur
  OBVIOUS
<1>4. Enters(c, es)
  BY <1>1, <1>2, <1>3, WaitEnters
<1> QED BY <1>2, <1>4

LEMMA PostAwakens ==
  ASSUME TasksOK, PendsOK, CanCall, NEW e \in Events, Waiters(e) # {}, NEW bit, StatBit(e) = bit,
         NEW S, S \in {Waiters(e), HighestWaiter(e)},
         NEW msg \in Msgs \cup {NoMsg}, NEW how \in {"OK", "ABORT"},
         EventTaskRdy(e, S, msg, {bit}, how), CallSched \/ Return,
         UNCHANGED <<OSTCBCur, OSPrioCur, OSIntNesting, OSLockNesting, listVars, flagVars, app>>
  PROVE  Readies(e, S, msg, how)
<1>1. S \in SUBSET Waiters(e) /\ S # {}
  BY WaitersChosen DEF TasksOK
<1>2. PICK msk : msk = {StatBit(e)}
  OBVIOUS
<1>3. EventTaskRdy(e, S, msg, msk, how)
  BY <1>2
<1>4. Awakens(e, {OSTCBPrioTbl[p] : p \in S}, msg, how)
  BY <1>1, <1>2, <1>3, ReadyAwakens
<1> QED BY <1>4 DEF Readies, Awakened

LEMMA DeletionAwakens ==
  ASSUME TasksOK, PendsOK, TaskCalls, NEW e \in Events, Waiters(e) # {}, NEW bit, StatBit(e) = bit,
         EventDelAlways(e, bit), CallSched, UNCHANGED <<schedVars, listVars, flagVars, app>>
  PROVE  Readies(e, Waiters(e), NoMsg, "OK")
<1>1. CanCall /\ UNCHANGED <<OSTCBCur, OSPrioCur, OSIntNesting, OSLockNesting>>
  BY DEF TaskCalls, schedVars, runVars
<1>2. PICK S : S = Waiters(e)
  OBVIOUS
<1>3. PICK msk : msk = {StatBit(e)}
  OBVIOUS
<1>4. PICK msg : msg = NoMsg
  OBVIOUS
<1>5. PICK how : how = "OK"
  OBVIOUS
<1>6. \E b : msk = {b} /\ b = StatBit(e) /\ EventDelAlways(e, b)
  BY <1>3
<1>7. Awakens(e, {OSTCBPrioTbl[p] : p \in S}, msg, how)
  BY <1>1, <1>2, <1>3, <1>4, <1>5, <1>6, ReadyAwakens
<1> QED BY <1>2, <1>4, <1>5, <1>7 DEF Readies, Awakened

(* A change of one event block that leaves the lists alone.                *)
LEMMA EditStays ==
  ASSUME TasksOK, NEW e \in Events, NEW b, event' = [event EXCEPT ![e] = b],
         DOMAIN b = EventFields, b.grp = event[e].grp, b.type \in EventKinds \ {"mutex"},
         b.grp = {} \/ b.type = event[e].type, 
         UNCHANGED <<listVars, tcb, callVars, flagVars>>
  PROVE  Stay
<1>1. ListsStay
  BY EventEdit DEF TasksOK, flagVars
<1>2. UNCHANGED <<OSTCBList, tcb, callVars>>
  BY DEF listVars
<1> QED BY <1>1, <1>2, QuietStays

LEMMA CountStays ==
  ASSUME TasksOK, NEW e \in Events, NEW n, event' = [event EXCEPT ![e].cnt = n],
         UNCHANGED <<listVars, tcb, callVars, flagVars>>
  PROVE  Stay
<1>1. PICK b : b = [event[e] EXCEPT !.cnt = n]
  OBVIOUS
<1>2. event' = [event EXCEPT ![e] = b]
  BY <1>1
<1>3. DOMAIN event[e] = EventFields /\ event[e].type \in EventKinds \ {"mutex"}
  BY DEF TasksOK, EventsTyped
<1>4. DOMAIN b = EventFields /\ b.grp = event[e].grp /\ b.type = event[e].type
  BY <1>1, <1>3 DEF EventFields
<1> QED BY <1>2, <1>3, <1>4, EditStays

LEMMA PointerStays ==
  ASSUME TasksOK, NEW e \in Events, NEW m, event' = [event EXCEPT ![e].ptr = m],
         UNCHANGED <<listVars, tcb, callVars, flagVars>>
  PROVE  Stay
<1>1. PICK b : b = [event[e] EXCEPT !.ptr = m]
  OBVIOUS
<1>2. event' = [event EXCEPT ![e] = b]
  BY <1>1
<1>3. DOMAIN event[e] = EventFields /\ event[e].type \in EventKinds \ {"mutex"}
  BY DEF TasksOK, EventsTyped
<1>4. DOMAIN b = EventFields /\ b.grp = event[e].grp /\ b.type = event[e].type
  BY <1>1, <1>3 DEF EventFields
<1> QED BY <1>2, <1>3, <1>4, EditStays

(* An event is made, or one without waiting tasks is deleted.              *)
LEMMA FreshStays ==
  ASSUME TasksOK, NEW e \in Events, NEW b, event' = [event EXCEPT ![e] = b],
         event[e].type = "unused" \/ Waiters(e) = {},
         \/ \E n : b = SemFresh(n)
         \/ \E m : b = MboxFresh(m)
         \/ b = QFresh \/ b = EventClear,
         UNCHANGED <<listVars, tcb, callVars, flagVars>>
  PROVE  Stay
<1>1. DOMAIN b = EventFields /\ b.grp = {} /\ b.type \in EventKinds \ {"mutex"}
  <2>1. CASE \E n : b = SemFresh(n)
    BY <2>1, FreshFields
  <2>2. CASE \E m : b = MboxFresh(m)
    BY <2>2, FreshFields
  <2>3. CASE b = QFresh \/ b = EventClear
    BY <2>3, FreshFields
  <2> QED BY <2>1, <2>2, <2>3
<1>2. event[e].grp = {}
  BY UnusedHasNoList DEF Waiters
<1> QED BY <1>1, <1>2, EditStays

(* Made ready by a post or an abort, the waiting tasks leave the events as *)
(* they were.                                                              *)
LEMMA RdyData ==
  ASSUME EventsTyped(event), NEW e, NEW S, NEW msg, NEW msk, NEW how,
         EventTaskRdy(e, S, msg, msk, how)
  PROVE  \A x \in Events : DataSame(x)
<1>1. PICK woken : woken = {OSTCBPrioTbl[p] : p \in S}
  OBVIOUS
<1>2. event' = ListsWithout(woken, e)
  BY <1>1 DEF EventTaskRdy
<1>3. ASSUME NEW x \in Events
      PROVE  DataSame(x)
  <2>1. PICK G : G = {tcb[t].prio : t \in {u \in woken : x = e \/ x \in tcb[u].multi}}
    OBVIOUS
  <2>2. event'[x] = [event[x] EXCEPT !.grp = event[x].grp \ G]
    BY <1>2, <2>1 DEF ListsWithout
  <2>3. DOMAIN event[x] = EventFields
    BY DEF EventsTyped
  <2> QED BY <2>2, <2>3 DEF EventFields, DataSame
<1> QED BY <1>3

-----------------------------------------------------------------------------
(* Nobody waits at an event for what it has, and counts end at SemMax.     *)
Count(n) == n \in Nat /\ n <= SemMax
AvailOK ==
  /\ \A e \in Events : event[e].cnt \in Nat /\ event[e].cnt <= SemMax
  /\ \A e \in Events : Available(e) => Waiters(e) = {}

UnitsTyped == units \in [Events -> Int]

(* What the calls of a semaphore do: a wait, a count, a creation, a        *)
(* deletion, an awakening and a return.                                    *)
SemWaits(e) == (\E c : Enters(c, {e})) /\ IsSem(e) /\ ~Available(e) /\ units' = units
SemCounts(e, n) ==
  /\ Stay /\ IsSem(e) /\ (Available(e) \/ Waiters(e) = {}) /\ n <= SemMax
  /\ event' = [event EXCEPT ![e].cnt = n]
  /\ units' = [units EXCEPT ![e] = (@ - event[e].cnt) + n]
SemBegins(e, n) ==
  /\ Stay /\ event[e].type = "unused" /\ Waiters(e) = {} /\ n <= SemMax
  /\ event' = [event EXCEPT ![e] = SemFresh(n)]
  /\ units' = [units EXCEPT ![e] = @ + n]
SemGoes(e) ==
  /\ Stay /\ IsSem(e) /\ Waiters(e) = {} /\ "OSSemDel" \in app.calls
  /\ event' = [event EXCEPT ![e] = EventClear]
  /\ units' = [units EXCEPT ![e] = @ - event[e].cnt]
SemReadies(e, S, how) ==
  /\ Readies(e, S, NoMsg, how) /\ IsSem(e)
  /\ (\A x \in Events : DataSame(x)) \/ "OSSemDel" \in app.calls
  /\ how = "OK" => units' = [units EXCEPT ![e] = @ + Cardinality(S)]
  /\ how = "ABORT" => units' = units
SemReturns(c, e) ==
  /\ Leaves(c) /\ Over(c) /\ local[c].call = "sem"
  /\ units' = IF tcb[c].statPend = "OK" THEN [units EXCEPT ![e] = @ - 1] ELSE units

SemStep ==
  \/ \E e \in Events : SemWaits(e) \/ SemGoes(e)
  \/ \E e \in Events, n \in Nat : SemCounts(e, n) \/ SemBegins(e, n)
  \/ \E e \in Events, how \in {"OK", "ABORT"} : \E S : SemReadies(e, S, how)
  \/ \E c \in Tasks : \E e \in local[c].events : SemReturns(c, e)

LEMMA OneWaiter ==
  ASSUME NEW e
  PROVE  Cardinality(HighestWaiter(e)) = 1
BY FS_Singleton DEF HighestWaiter

LEMMA SemaphoreSteps ==
  ASSUME TasksOK, PendsOK, AvailOK, UnitsTyped, Semaphores
  PROVE  SemStep
<1>1. UNCHANGED <<flagVars, app>>
  BY DEF Semaphores
<1>2. ASSUME NEW e \in Events, NEW t, OSSemPend(e, t)
      PROVE  SemStep
  <2>1. /\ MayPend /\ IsSem(e) /\ event[e].type = "sem" /\ units[e] \in Int
        /\ event[e].cnt \in Nat /\ event[e].cnt <= SemMax
    BY <1>2 DEF OSSemPend, IsSem, AvailOK, UnitsTyped
  <2>2. CASE event[e].cnt = 0 /\ EventTaskWait("sem", {"SEM"}, {e}, t) /\ units' = units
    <3>1. \E c : Enters(c, {e})
      BY <2>1, <2>2, PendEnters
    <3>2. ~Available(e)
      BY <2>1, <2>2 DEF Available, IsSem, IsMbox, IsQ
    <3> QED BY <2>1, <2>2, <3>1, <3>2 DEF SemStep, SemWaits, SemCounts, SemBegins, SemGoes, SemReturns
  <2>3. CASE /\ event[e].cnt > 0 /\ event' = [event EXCEPT ![e].cnt = @ - 1] /\ Debit(e)
             /\ UNCHANGED <<schedVars, listVars, OSRdyTbl, tcb, callVars>>
    <3>1. PICK n \in Nat : n = event[e].cnt - 1 /\ n <= SemMax
      BY <2>1, <2>3, SemAssumption
    <3>a. units[e] - 1 = (units[e] - event[e].cnt) + n
      BY <2>1, <3>1
    <3>2. /\ event' = [event EXCEPT ![e].cnt = n]
          /\ units' = [units EXCEPT ![e] = (units[e] - event[e].cnt) + n]
      BY <2>3, <3>1, <3>a DEF Debit
    <3>3. Available(e)
      BY <2>1, <2>3 DEF Available
    <3>4. Stay
      BY <1>1, <2>3, <3>2, CountStays
    <3> QED BY <2>1, <3>1, <3>2, <3>3, <3>4 DEF SemStep, SemWaits, SemCounts, SemBegins, SemGoes, SemReturns
  <2> QED BY <1>2, <2>2, <2>3 DEF OSSemPend
<1>3. ASSUME NEW e \in Events, OSSemPost(e)
      PROVE  SemStep
  <2>1. /\ CanCall /\ IsSem(e) /\ StatBit(e) = "SEM" /\ UNCHANGED <<schedVars, listVars>>
        /\ event[e].cnt \in Nat /\ units[e] \in Int /\ units' = [units EXCEPT ![e] = @ + 1]
    BY <1>3, StatBits3 DEF OSSemPost, AvailOK, UnitsTyped, Credit
  <2>2. CASE Waiters(e) # {} /\ EventTaskRdy(e, HighestWaiter(e), NoMsg, {"SEM"}, "OK") /\ CallSched
    <3>1. PICK S : S = HighestWaiter(e)
      OBVIOUS
    <3>2. UNCHANGED <<OSTCBCur, OSPrioCur, OSIntNesting, OSLockNesting>>
      BY <2>1 DEF schedVars, runVars
    <3>3. Readies(e, S, NoMsg, "OK")
      BY <1>1, <2>1, <2>2, <3>1, <3>2, PostAwakens
    <3>4. units' = [units EXCEPT ![e] = @ + Cardinality(S)]
      BY <2>1, <3>1, OneWaiter
    <3>5. \A x \in Events : DataSame(x)
      BY <2>2, RdyData DEF TasksOK
    <3>6. SemReadies(e, S, "OK")
      BY <2>1, <3>3, <3>4, <3>5 DEF SemReadies
    <3> QED BY <3>6 DEF SemStep
  <2>3. CASE /\ Waiters(e) = {} /\ event[e].cnt < SemMax /\ event' = [event EXCEPT ![e].cnt = @ + 1]
             /\ Return /\ UNCHANGED <<OSRdyTbl, tcb>>
    <3>1. PICK n \in Nat : n = event[e].cnt + 1 /\ n <= SemMax
      BY <2>1, <2>3, SemAssumption
    <3>a. units[e] + 1 = (units[e] - event[e].cnt) + n
      BY <2>1, <3>1
    <3>2. /\ event' = [event EXCEPT ![e].cnt = n]
          /\ units' = [units EXCEPT ![e] = (units[e] - event[e].cnt) + n]
      BY <2>1, <2>3, <3>1, <3>a
    <3>3. Stay
      BY <1>1, <2>1, <2>3, <3>2, CountStays DEF Return
    <3> QED BY <2>1, <2>3, <3>1, <3>2, <3>3 DEF SemStep, SemWaits, SemCounts, SemBegins, SemGoes, SemReturns
  <2> QED BY <1>3, <2>2, <2>3 DEF OSSemPost
<1>4. ASSUME NEW e \in Events, OSSemAccept(e)
      PROVE  SemStep
  <2>1. /\ IsSem(e) /\ units[e] \in Int /\ event[e].cnt > 0
        /\ event[e].cnt \in Nat /\ event[e].cnt <= SemMax
    BY <1>4 DEF OSSemAccept, AvailOK, UnitsTyped
  <2>2. PICK n \in Nat : n = event[e].cnt - 1 /\ n <= SemMax
    BY <2>1, SemAssumption
  <2>a. units[e] - 1 = (units[e] - event[e].cnt) + n
    BY <2>1, <2>2
  <2>3. /\ event' = [event EXCEPT ![e].cnt = n]
        /\ units' = [units EXCEPT ![e] = (units[e] - event[e].cnt) + n]
    BY <1>4, <2>2, <2>a DEF OSSemAccept, Debit
  <2>4. Available(e)
    BY <2>1 DEF Available
  <2>5. Stay
    BY <1>1, <1>4, <2>3, CountStays DEF OSSemAccept
  <2> QED BY <2>1, <2>2, <2>3, <2>4, <2>5 DEF SemStep, SemWaits, SemCounts, SemBegins, SemGoes, SemReturns
<1>5. ASSUME NEW e \in Events, NEW n \in Nat, n <= SemMax, OSSemSet(e, n)
      PROVE  SemStep
  <2>1. /\ IsSem(e) /\ event' = [event EXCEPT ![e].cnt = n]
        /\ units' = [units EXCEPT ![e] = (@ - event[e].cnt) + n]
        /\ Available(e) \/ Waiters(e) = {}
    BY <1>5 DEF OSSemSet, Available
  <2>2. Stay
    BY <1>1, <1>5, <2>1, CountStays DEF OSSemSet
  <2> QED BY <1>5, <2>1, <2>2 DEF SemStep, SemWaits, SemCounts, SemBegins, SemGoes, SemReturns
<1>6. ASSUME NEW e \in Events, NEW b \in BOOLEAN, OSSemPendAbort(e, b)
      PROVE  SemStep
  <2>1. /\ CanCall /\ IsSem(e) /\ StatBit(e) = "SEM" /\ Waiters(e) # {} /\ CallSched
        /\ UNCHANGED <<schedVars, listVars>> /\ units' = units
    BY <1>6, StatBits3 DEF OSSemPendAbort
  <2>2. UNCHANGED <<OSTCBCur, OSPrioCur, OSIntNesting, OSLockNesting>>
    BY <2>1 DEF schedVars, runVars
  <2>3. PICK S \in {Waiters(e), HighestWaiter(e)} : EventTaskRdy(e, S, NoMsg, {"SEM"}, "ABORT")
    BY <1>6 DEF OSSemPendAbort
  <2>4. Readies(e, S, NoMsg, "ABORT")
    BY <1>1, <2>1, <2>2, <2>3, PostAwakens
  <2>5. \A x \in Events : DataSame(x)
    BY <2>3, RdyData DEF TasksOK
  <2>6. SemReadies(e, S, "ABORT")
    BY <2>1, <2>4, <2>5 DEF SemReadies
  <2> QED BY <2>6 DEF SemStep
<1>7. ASSUME NEW e \in Events, NEW n \in Nat, n <= SemMax, OSSemCreate(e, n)
      PROVE  SemStep
  <2>1. /\ event[e].type = "unused" /\ event' = [event EXCEPT ![e] = SemFresh(n)]
        /\ units' = [units EXCEPT ![e] = @ + n]
    BY <1>7 DEF OSSemCreate, EventInit, Credit
  <2>2. Stay
    BY <1>1, <1>7, <2>1, FreshStays DEF OSSemCreate
  <2>3. Waiters(e) = {}
    BY <2>1, UnusedHasNoList DEF Waiters
  <2> QED BY <1>7, <2>1, <2>2, <2>3 DEF SemStep, SemWaits, SemCounts, SemBegins, SemGoes, SemReturns
<1>8. ASSUME NEW e \in Events, NEW b \in BOOLEAN, OSSemDel(e, b), May("OSSemDel")
      PROVE  SemStep
  <2>1. /\ TaskCalls /\ IsSem(e) /\ StatBit(e) = "SEM" /\ UNCHANGED <<schedVars, listVars>>
        /\ units' = [units EXCEPT ![e] = (@ - event[e].cnt) + Cardinality(Waiters(e))]
        /\ event[e].cnt \in Nat /\ units[e] \in Int
    BY <1>8, StatBits3 DEF OSSemDel, AvailOK, UnitsTyped
  <2>2. "OSSemDel" \in app.calls
    BY <1>8, <2>1 DEF May, TaskCalls
  <2>3. CASE Waiters(e) = {} /\ event' = [event EXCEPT ![e] = EventClear] /\ Return /\ tcb' = tcb
    <3>1. Stay
      BY <1>1, <2>1, <2>3, FreshStays DEF Return
    <3>a. Cardinality(Waiters(e)) = 0
      BY <2>3, FS_EmptySet
    <3>b. (units[e] - event[e].cnt) + 0 = units[e] - event[e].cnt
      BY <2>1
    <3>2. units' = [units EXCEPT ![e] = units[e] - event[e].cnt]
      BY <2>1, <3>a, <3>b
    <3> QED BY <2>1, <2>2, <2>3, <3>1, <3>2 DEF SemStep, SemWaits, SemCounts, SemBegins, SemGoes, SemReturns
  <2>4. CASE Waiters(e) # {} /\ EventDelAlways(e, "SEM") /\ CallSched
    <3>1. Readies(e, Waiters(e), NoMsg, "OK")
      BY <1>1, <2>1, <2>4, DeletionAwakens
    <3>2. event[e].cnt = 0
      BY <2>1, <2>4 DEF AvailOK, Available
    <3>3. units[e] - event[e].cnt = units[e]
      BY <2>1, <3>2
    <3>4. units' = [units EXCEPT ![e] = units[e] + Cardinality(Waiters(e))]
      BY <2>1, <3>3
    <3>5. SemReadies(e, Waiters(e), "OK")
      BY <2>1, <2>2, <3>1, <3>4 DEF SemReadies
    <3> QED BY <3>5 DEF SemStep
  <2> QED BY <1>8, <2>3, <2>4 DEF OSSemDel
<1>9. ASSUME OSSemPendEnds
      PROVE  SemStep
  <2>1. PICK c : c = OSTCBCur
    OBVIOUS
  <2>2. Wake("sem") /\ c \in Tasks /\ local[c].call = "sem"
    BY <1>9, <2>1, WokenIsReady DEF OSSemPendEnds, Wake
  <2>3. Leaves(c) /\ Over(c)
    BY <2>1, <2>2, WakeLeaves
  <2>4. PICK e \in local[c].events :
          units' = IF tcb[c].statPend = "OK" THEN [units EXCEPT ![e] = @ - 1] ELSE units
    BY <1>9, <2>1 DEF OSSemPendEnds, Debit
  <2> QED BY <2>2, <2>3, <2>4 DEF SemStep, SemWaits, SemCounts, SemBegins, SemGoes, SemReturns
<1>10. \A n \in 0..SemMax : n \in Nat /\ n <= SemMax
  BY SemAssumption
<1> QED BY <1>2, <1>3, <1>4, <1>5, <1>6, <1>7, <1>8, <1>9, <1>10 DEF Semaphores

-----------------------------------------------------------------------------
MsgsTyped == /\ copies \in [Msgs -> Int]
             /\ \A e \in Events : event[e].ptr \in Msgs \cup {NoMsg}

(* What the calls of a mailbox or a queue do: a wait, an awakening, a      *)
(* return, and what happens to a message in the event's keeping.           *)
MsgWaits(e) ==
  (\E c : Enters(c, {e})) /\ (IsMbox(e) \/ IsQ(e)) /\ ~Available(e) /\ UNCHANGED <<copies, OSQTbl>>
MsgReadies(e, S, m, how) ==
  /\ Readies(e, S, m, how) /\ (IsMbox(e) \/ IsQ(e))
  /\ (\A x \in Events : DataSame(x)) \/ "OSMboxDel" \in app.calls \/ "OSQDel" \in app.calls
  /\ copies' = IF how = "OK" /\ m # NoMsg THEN [copies EXCEPT ![m] = @ + Cardinality(S)] ELSE copies
  /\ OSQTbl' = OSQTbl
MsgReturns(c) ==
  /\ Leaves(c) /\ Over(c) /\ local[c].call \in {"mbox", "q"}
  /\ copies' = IF tcb[c].statPend = "OK" /\ tcb[c].msg # NoMsg
               THEN [copies EXCEPT ![tcb[c].msg] = @ - 1] ELSE copies
  /\ OSQTbl' = OSQTbl

MboxTakes(e) ==
  /\ Stay /\ IsMbox(e) /\ Available(e)
  /\ event' = [event EXCEPT ![e].ptr = NoMsg]
  /\ copies' = [copies EXCEPT ![event[e].ptr] = @ - 1]
MboxFills(e, m) ==
  /\ Stay /\ IsMbox(e) /\ ~Available(e) /\ Waiters(e) = {}
  /\ event' = [event EXCEPT ![e].ptr = m]
  /\ copies' = [copies EXCEPT ![m] = @ + 1]
MboxBegins(e, m) ==
  /\ Stay /\ event[e].type = "unused" /\ Waiters(e) = {}
  /\ event' = [event EXCEPT ![e] = MboxFresh(m)]
  /\ copies' = IF m = NoMsg THEN copies ELSE [copies EXCEPT ![m] = @ + 1]
MboxGoes(e) ==
  /\ Stay /\ IsMbox(e) /\ Waiters(e) = {} /\ "OSMboxDel" \in app.calls
  /\ event' = [event EXCEPT ![e] = EventClear]
  /\ copies' = IF Empty(e) THEN copies ELSE [copies EXCEPT ![event[e].ptr] = @ - 1]

MboxStep ==
  \/ \E e \in Events : MsgWaits(e)
  \/ \E e \in Events : (MboxTakes(e) \/ MboxGoes(e)) /\ OSQTbl' = OSQTbl
  \/ \E e \in Events, m \in Msgs : MboxFills(e, m) /\ OSQTbl' = OSQTbl
  \/ \E e \in Events, m \in Msgs \cup {NoMsg} : MboxBegins(e, m) /\ OSQTbl' = OSQTbl
  \/ \E e \in Events, m \in Msgs \cup {NoMsg}, how \in {"OK", "ABORT"} : \E S : MsgReadies(e, S, m, how)
  \/ \E c \in Tasks : MsgReturns(c)

LEMMA SchedSame ==
  ASSUME UNCHANGED <<schedVars, listVars>>
  PROVE  UNCHANGED <<OSTCBCur, OSPrioCur, OSIntNesting, OSLockNesting, listVars>>
BY DEF schedVars, runVars

LEMMA MessagePosts ==
  ASSUME TasksOK, PendsOK, CanCall, NEW e \in Events, IsMbox(e) \/ IsQ(e), Waiters(e) # {},
         NEW bit, StatBit(e) = bit, NEW m \in Msgs, NEW b,
         PostToWaiters(e, m, bit, b), CallSched \/ Return, OSQTbl' = OSQTbl,
         UNCHANGED <<OSTCBCur, OSPrioCur, OSIntNesting, OSLockNesting, listVars, flagVars, app>>
  PROVE  \E S : MsgReadies(e, S, m, "OK")
<1>1. PICK S : S = IF b THEN Waiters(e) ELSE HighestWaiter(e)
  OBVIOUS
<1>2. /\ EventTaskRdy(e, S, m, {bit}, "OK")
      /\ copies' = [copies EXCEPT ![m] = @ + Cardinality(S)]
  BY <1>1, Zenon DEF PostToWaiters, Posted
<1>3. S \in {Waiters(e), HighestWaiter(e)} /\ m \in Msgs \cup {NoMsg} /\ m # NoMsg
  BY <1>1, CoreAssumption
<1>4. Readies(e, S, m, "OK")
  BY <1>2, <1>3, PostAwakens
<1>5. \A x \in Events : DataSame(x)
  BY <1>2, RdyData DEF TasksOK
<1> QED BY <1>2, <1>3, <1>4, <1>5, Zenon DEF MsgReadies

LEMMA MessageAborts ==
  ASSUME TasksOK, PendsOK, CanCall, NEW e \in Events, IsMbox(e) \/ IsQ(e), Waiters(e) # {},
         NEW bit, StatBit(e) = bit, NEW b,
         EventTaskRdy(e, IF b THEN Waiters(e) ELSE HighestWaiter(e), NoMsg, {bit}, "ABORT"),
         CallSched, UNCHANGED <<schedVars, listVars, flagVars, app, copies, OSQTbl>>
  PROVE  \E S : MsgReadies(e, S, NoMsg, "ABORT")
<1>1. PICK S : S = IF b THEN Waiters(e) ELSE HighestWaiter(e)
  OBVIOUS
<1>2. /\ EventTaskRdy(e, S, NoMsg, {bit}, "ABORT") /\ S \in {Waiters(e), HighestWaiter(e)}
      /\ UNCHANGED <<OSTCBCur, OSPrioCur, OSIntNesting, OSLockNesting>>
  BY <1>1, SchedSame
<1>3. Readies(e, S, NoMsg, "ABORT")
  BY <1>2, PostAwakens
<1>4. \A x \in Events : DataSame(x)
  BY <1>2, RdyData DEF TasksOK
<1> QED BY <1>3, <1>4 DEF MsgReadies

LEMMA MailboxSteps ==
  ASSUME TasksOK, PendsOK, AvailOK, MsgsTyped, Mailboxes
  PROVE  MboxStep
<1>1. /\ UNCHANGED <<flagVars, app>> /\ OSQTbl' = OSQTbl
      /\ app.msgs \subseteq Msgs
  BY ArgumentsOK DEF Mailboxes
<1>2. ASSUME NEW e \in Events, NEW t, OSMboxPend(e, t)
      PROVE  MboxStep
  <2>1. MayPend /\ IsMbox(e) /\ event[e].type = "mbox"
    BY <1>2 DEF OSMboxPend, IsMbox
  <2>2. CASE Empty(e) /\ EventTaskWait("mbox", {"MBOX"}, {e}, t) /\ copies' = copies
    <3>1. \E c : Enters(c, {e})
      BY <2>1, <2>2, PendEnters
    <3>2. ~Available(e)
      BY <2>1, <2>2 DEF Available, IsSem, IsMbox, IsQ
    <3>3. MsgWaits(e)
      BY <1>1, <2>1, <2>2, <3>1, <3>2 DEF MsgWaits
    <3> QED BY <3>3 DEF MboxStep
  <2>3. CASE /\ ~Empty(e) /\ event' = [event EXCEPT ![e].ptr = NoMsg] /\ Taken(event[e].ptr)
             /\ UNCHANGED <<schedVars, listVars, OSRdyTbl, tcb, callVars>>
    <3>1. Stay
      BY <1>1, <2>3, PointerStays
    <3>2. MboxTakes(e)
      BY <2>1, <2>3, <3>1 DEF MboxTakes, Taken, Available
    <3> QED BY <1>1, <3>2 DEF MboxStep
  <2> QED BY <1>2, <2>2, <2>3 DEF OSMboxPend
<1>3. ASSUME NEW e \in Events, NEW m \in Msgs, IsMbox(e), Waiters(e) = {}, Empty(e),
             event' = [event EXCEPT ![e].ptr = m], Posted(m, 1),
             UNCHANGED <<listVars, tcb, callVars>>
      PROVE  MboxStep
  <2>1. Stay
    BY <1>1, <1>3, PointerStays
  <2>2. ~Available(e)
    BY <1>3 DEF Available, IsSem, IsMbox, IsQ
  <2>3. MboxFills(e, m)
    BY <1>3, <2>1, <2>2 DEF MboxFills, Posted
  <2> QED BY <1>1, <2>3 DEF MboxStep
<1>4. ASSUME NEW e \in Events, NEW m \in app.msgs, OSMboxPost(e, m)
      PROVE  MboxStep
  <2>1. /\ CanCall /\ IsMbox(e) /\ StatBit(e) = "MBOX" /\ m \in Msgs
        /\ UNCHANGED <<OSTCBCur, OSPrioCur, OSIntNesting, OSLockNesting, listVars>>
    BY <1>1, <1>4, StatBits3, SchedSame DEF OSMboxPost
  <2>2. CASE Waiters(e) # {} /\ PostToWaiters(e, m, "MBOX", FALSE) /\ CallSched
    <3>1. \E S : MsgReadies(e, S, m, "OK")
      BY <1>1, <2>1, <2>2, MessagePosts
    <3> QED BY <2>1, <3>1 DEF MboxStep
  <2> QED BY <1>3, <1>4, <2>1, <2>2 DEF OSMboxPost, Return
<1>5. ASSUME NEW e \in Events, NEW m \in app.msgs, NEW b, NEW n, OSMboxPostOpt(e, m, b, n)
      PROVE  MboxStep
  <2>1. /\ CanCall /\ IsMbox(e) /\ StatBit(e) = "MBOX" /\ m \in Msgs
        /\ UNCHANGED <<OSTCBCur, OSPrioCur, OSIntNesting, OSLockNesting, listVars>>
    BY <1>1, <1>5, StatBits3 DEF OSMboxPostOpt
  <2>2. CASE Waiters(e) # {} /\ PostToWaiters(e, m, "MBOX", b) /\ CallEnds(n)
    <3>1. CallSched \/ Return
      BY <2>2, Zenon DEF CallEnds
    <3>2. \E S : MsgReadies(e, S, m, "OK")
      BY <1>1, <2>1, <2>2, <3>1, MessagePosts
    <3> QED BY <2>1, <3>2 DEF MboxStep
  <2> QED BY <1>3, <1>5, <2>1, <2>2 DEF OSMboxPostOpt, Return
<1>6. ASSUME NEW e \in Events, OSMboxAccept(e)
      PROVE  MboxStep
  <2>1. Stay
    BY <1>1, <1>6, PointerStays DEF OSMboxAccept
  <2>2. MboxTakes(e)
    BY <1>6, <2>1 DEF OSMboxAccept, MboxTakes, Taken, Available
  <2> QED BY <1>1, <2>2 DEF MboxStep
<1>7. ASSUME NEW e \in Events, NEW b, OSMboxPendAbort(e, b)
      PROVE  MboxStep
  <2>1. StatBit(e) = "MBOX"
    BY <1>7, StatBits3 DEF OSMboxPendAbort
  <2>2. \E S : MsgReadies(e, S, NoMsg, "ABORT")
    BY <1>1, <1>7, <2>1, MessageAborts DEF OSMboxPendAbort
  <2> QED BY <2>2 DEF MboxStep
<1>8. ASSUME NEW e \in Events, NEW m \in app.msgs \cup {NoMsg}, OSMboxCreate(e, m)
      PROVE  MboxStep
  <2>1. /\ event[e].type = "unused" /\ event' = [event EXCEPT ![e] = MboxFresh(m)]
        /\ copies' = IF m = NoMsg THEN copies ELSE [copies EXCEPT ![m] = @ + 1]
    BY <1>8 DEF OSMboxCreate, EventInit, Posted
  <2>2. Stay
    BY <1>1, <1>8, <2>1, FreshStays DEF OSMboxCreate
  <2>3. MboxBegins(e, m)
    BY <2>1, <2>2, UnusedHasNoList DEF MboxBegins, Waiters
  <2>4. m \in Msgs \cup {NoMsg}
    BY <1>1
  <2> QED BY <1>1, <2>3, <2>4 DEF MboxStep
<1>9. ASSUME NEW e \in Events, NEW b, OSMboxDel(e, b), May("OSMboxDel")
      PROVE  MboxStep
  <2>1. /\ TaskCalls /\ IsMbox(e) /\ StatBit(e) = "MBOX" /\ UNCHANGED <<schedVars, listVars>>
        /\ copies' = IF Empty(e) THEN copies ELSE [copies EXCEPT ![event[e].ptr] = @ - 1]
    BY <1>9, StatBits3 DEF OSMboxDel, Taken
  <2>2. "OSMboxDel" \in app.calls
    BY <1>9, <2>1 DEF May, TaskCalls
  <2>3. CASE Waiters(e) = {} /\ event' = [event EXCEPT ![e] = EventClear] /\ Return /\ tcb' = tcb
    <3>1. Stay
      BY <1>1, <2>1, <2>3, FreshStays DEF Return
    <3>2. MboxGoes(e)
      BY <2>1, <2>2, <2>3, <3>1 DEF MboxGoes
    <3> QED BY <1>1, <3>2 DEF MboxStep
  <2>4. CASE Waiters(e) # {} /\ EventDelAlways(e, "MBOX") /\ CallSched
    <3>1. Readies(e, Waiters(e), NoMsg, "OK")
      BY <1>1, <2>1, <2>4, DeletionAwakens
    <3>2. Empty(e)
      BY <2>1, <2>4 DEF AvailOK, Available
    <3>3. MsgReadies(e, Waiters(e), NoMsg, "OK")
      BY <1>1, <2>1, <2>2, <3>1, <3>2 DEF MsgReadies
    <3> QED BY <3>3 DEF MboxStep
  <2> QED BY <1>9, <2>3, <2>4 DEF OSMboxDel
<1>10. ASSUME OSMboxPendEnds
       PROVE  MboxStep
  <2>1. PICK c : c = OSTCBCur
    OBVIOUS
  <2>2. Wake("mbox") /\ c \in Tasks /\ local[c].call = "mbox"
    BY <1>10, <2>1, WokenIsReady DEF OSMboxPendEnds, MsgPendEnds, Wake
  <2>3. Leaves(c) /\ Over(c)
    BY <2>1, <2>2, WakeLeaves
  <2>4. MsgReturns(c)
    BY <1>1, <1>10, <2>1, <2>2, <2>3 DEF OSMboxPendEnds, MsgPendEnds, Taken, MsgReturns
  <2> QED BY <2>2, <2>4 DEF MboxStep
<1> QED
  BY <1>2, <1>4, <1>5, <1>6, <1>7, <1>8, <1>9, <1>10 DEF Mailboxes

-----------------------------------------------------------------------------
QTakes(e) ==
  /\ Stay /\ event' = event /\ IsQ(e) /\ Available(e)
  /\ OSQTbl' = [OSQTbl EXCEPT ![e] = Get(OSQTbl[e])]
  /\ copies' = [copies EXCEPT ![Oldest(OSQTbl[e])] = @ - 1]
QPuts(e, m) ==
  /\ Stay /\ event' = event /\ IsQ(e) /\ Waiters(e) = {} /\ Entries(e) < QSize
  /\ \E q \in {Put(OSQTbl[e], m), PutFront(OSQTbl[e], m)} : OSQTbl' = [OSQTbl EXCEPT ![e] = q]
  /\ copies' = [copies EXCEPT ![m] = @ + 1]
QFlushes(e) ==
  /\ Stay /\ event' = event /\ IsQ(e)
  /\ OSQTbl' = [OSQTbl EXCEPT ![e] = Flushed(OSQTbl[e])] /\ Discard(e)
QBegins(e) ==
  /\ Stay /\ event[e].type = "unused" /\ Waiters(e) = {}
  /\ event' = [event EXCEPT ![e] = QFresh]
  /\ OSQTbl' = [OSQTbl EXCEPT ![e] = Flushed(OSQTbl[e])] /\ copies' = copies
QGoes(e) ==
  /\ Stay /\ IsQ(e) /\ Waiters(e) = {} /\ "OSQDel" \in app.calls
  /\ event' = [event EXCEPT ![e] = EventClear]
  /\ Discard(e) /\ OSQTbl' = OSQTbl

QStep ==
  \/ \E e \in Events : MsgWaits(e)
  \/ \E e \in Events : QTakes(e) \/ QFlushes(e) \/ QBegins(e) \/ QGoes(e)
  \/ \E e \in Events, m \in Msgs : QPuts(e, m)
  \/ \E e \in Events, m \in Msgs \cup {NoMsg}, how \in {"OK", "ABORT"} : \E S : MsgReadies(e, S, m, how)
  \/ \E c \in Tasks : MsgReturns(c)

(* The calls of a queue that do not touch the core.                        *)
LEMMA CoreQuiet ==
  ASSUME TasksOK, UNCHANGED <<coreVars, flagVars>>
  PROVE  Stay /\ event' = event
<1>1. UNCHANGED <<OSTCBList, tcb, callVars>> /\ event' = event
  BY DEF coreVars, listVars, waitVars
<1>2. ListsStay
  BY <1>1 DEF ListsStay, TasksOK, flagVars
<1> QED BY <1>1, <1>2, QuietStays

LEMMA QueueSteps ==
  ASSUME TasksOK, PendsOK, AvailOK, MsgsTyped, QueueInv, Queues
  PROVE  QStep
<1>1. UNCHANGED <<flagVars, app>> /\ app.msgs \subseteq Msgs
  BY ArgumentsOK DEF Queues
<1>2. ASSUME NEW e \in Events, NEW t, OSQPend(e, t)
      PROVE  QStep
  <2>1. MayPend /\ IsQ(e) /\ event[e].type = "q"
    BY <1>2 DEF OSQPend, IsQ
  <2>2. CASE Entries(e) = 0 /\ EventTaskWait("q", {"Q"}, {e}, t) /\ UNCHANGED <<copies, OSQTbl>>
    <3>1. \E c : Enters(c, {e})
      BY <2>1, <2>2, PendEnters
    <3>2. ~Available(e)
      BY <2>1, <2>2 DEF Available, IsSem, IsMbox, IsQ
    <3>3. MsgWaits(e)
      BY <2>1, <2>2, <3>1, <3>2 DEF MsgWaits
    <3> QED BY <3>3 DEF QStep
  <2>3. CASE Entries(e) > 0 /\ Take(e) /\ UNCHANGED coreVars
    <3>1. Stay /\ event' = event
      BY <1>1, <2>3, CoreQuiet
    <3>2. QTakes(e)
      BY <2>1, <2>3, <3>1 DEF QTakes, Take, Taken, Available
    <3> QED BY <3>2 DEF QStep
  <2> QED BY <1>2, <2>2, <2>3 DEF OSQPend
<1>3. ASSUME NEW e \in Events, NEW m \in Msgs, NEW f, IsQ(e), Append1(e, m, f)
      PROVE  QStep
  <2>1. Stay /\ event' = event
    BY <1>1, <1>3, CoreQuiet DEF Append1
  <2>2. QPuts(e, m)
    BY <1>3, <2>1 DEF QPuts, Append1, Posted
  <2> QED BY <2>2 DEF QStep
<1>4. ASSUME NEW e \in Events, NEW m \in app.msgs, NEW f, PostAt(e, m, f)
      PROVE  QStep
  <2>1. CanCall /\ IsQ(e) /\ StatBit(e) = "Q" /\ m \in Msgs
    BY <1>1, <1>4, StatBits3 DEF PostAt
  <2>2. CASE /\ Waiters(e) # {} /\ PostToWaiters(e, m, "Q", FALSE) /\ CallSched
             /\ UNCHANGED <<schedVars, listVars, OSQTbl>>
    <3>1. UNCHANGED <<OSTCBCur, OSPrioCur, OSIntNesting, OSLockNesting, listVars>>
      BY <2>2, SchedSame
    <3>2. \E S : MsgReadies(e, S, m, "OK")
      BY <1>1, <2>1, <2>2, <3>1, MessagePosts
    <3> QED BY <2>1, <3>2 DEF QStep
  <2> QED BY <1>3, <1>4, <2>1, <2>2 DEF PostAt
<1>5. ASSUME NEW e \in Events, NEW m \in app.msgs, NEW b, NEW f, NEW n, OSQPostOpt(e, m, b, f, n)
      PROVE  QStep
  <2>1. CanCall /\ IsQ(e) /\ StatBit(e) = "Q" /\ m \in Msgs
    BY <1>1, <1>5, StatBits3 DEF OSQPostOpt
  <2>2. CASE /\ Waiters(e) # {} /\ PostToWaiters(e, m, "Q", b) /\ CallEnds(n)
             /\ UNCHANGED <<OSTCBCur, OSPrioCur, OSIntNesting, OSLockNesting, listVars, OSQTbl>>
    <3>1. CallSched \/ Return
      BY <2>2, Zenon DEF CallEnds
    <3>2. \E S : MsgReadies(e, S, m, "OK")
      BY <1>1, <2>1, <2>2, <3>1, MessagePosts
    <3> QED BY <2>1, <3>2 DEF QStep
  <2> QED BY <1>3, <1>5, <2>1, <2>2 DEF OSQPostOpt
<1>6. ASSUME NEW e \in Events, OSQAccept(e)
      PROVE  QStep
  <2>1. Stay /\ event' = event
    BY <1>1, <1>6, CoreQuiet DEF OSQAccept
  <2>2. QTakes(e)
    BY <1>6, <2>1 DEF OSQAccept, QTakes, Take, Taken, Available
  <2> QED BY <2>2 DEF QStep
<1>7. ASSUME NEW e \in Events, OSQFlush(e)
      PROVE  QStep
  <2>1. Stay /\ event' = event
    BY <1>1, <1>7, CoreQuiet DEF OSQFlush
  <2>2. QFlushes(e)
    BY <1>7, <2>1 DEF OSQFlush, QFlushes, Flushed
  <2> QED BY <2>2 DEF QStep
<1>8. ASSUME NEW e \in Events, NEW b, OSQPendAbort(e, b)
      PROVE  QStep
  <2>1. StatBit(e) = "Q"
    BY <1>8, StatBits3 DEF OSQPendAbort
  <2>2. \E S : MsgReadies(e, S, NoMsg, "ABORT")
    BY <1>1, <1>8, <2>1, MessageAborts DEF OSQPendAbort
  <2> QED BY <2>2 DEF QStep
<1>9. ASSUME NEW e \in Events, OSQCreate(e)
      PROVE  QStep
  <2>1. /\ event[e].type = "unused" /\ event' = [event EXCEPT ![e] = QFresh]
        /\ OSQTbl' = [OSQTbl EXCEPT ![e] = Flushed(OSQTbl[e])] /\ copies' = copies
    BY <1>9 DEF OSQCreate, EventInit, Flushed
  <2>2. Stay
    BY <1>1, <1>9, <2>1, FreshStays DEF OSQCreate
  <2>3. QBegins(e)
    BY <2>1, <2>2, UnusedHasNoList DEF QBegins, Waiters
  <2> QED BY <2>3 DEF QStep
<1>10. ASSUME NEW e \in Events, NEW b, OSQDel(e, b), May("OSQDel")
       PROVE  QStep
  <2>1. /\ TaskCalls /\ IsQ(e) /\ StatBit(e) = "Q" /\ UNCHANGED <<schedVars, listVars>>
        /\ Discard(e) /\ OSQTbl' = OSQTbl
    BY <1>10, StatBits3 DEF OSQDel
  <2>2. "OSQDel" \in app.calls
    BY <1>10, <2>1 DEF May, TaskCalls
  <2>3. CASE Waiters(e) = {} /\ event' = [event EXCEPT ![e] = EventClear] /\ Return /\ tcb' = tcb
    <3>1. Stay
      BY <1>1, <2>1, <2>3, FreshStays DEF Return
    <3>2. QGoes(e)
      BY <2>1, <2>2, <2>3, <3>1 DEF QGoes
    <3> QED BY <3>2 DEF QStep
  <2>4. CASE Waiters(e) # {} /\ EventDelAlways(e, "Q") /\ CallSched
    <3>1. Readies(e, Waiters(e), NoMsg, "OK")
      BY <1>1, <2>1, <2>4, DeletionAwakens
    <3>2. Entries(e) = 0
      BY <2>1, <2>4, QAssumption DEF AvailOK, Available, QueueInv, Rings, Entries
    <3>3. copies' = copies
      <4>1. \A m \in Msgs : InQueue(e, m) = 0
        <5>1. \A m \in Msgs : {i \in 1..Entries(e) : Content(OSQTbl[e])[i] = m} = {}
          BY <3>2
        <5> QED BY <5>1, FS_EmptySet DEF InQueue
      <4>2. copies' = [m \in Msgs |-> copies[m] - 0]
        BY <2>1, <4>1 DEF Discard
      <4>3. \A m \in Msgs : copies[m] - 0 = copies[m]
        BY DEF MsgsTyped
      <4> QED BY <4>2, <4>3 DEF MsgsTyped
    <3>4. MsgReadies(e, Waiters(e), NoMsg, "OK")
      BY <1>1, <2>1, <2>2, <3>1, <3>3 DEF MsgReadies
    <3> QED BY <3>4 DEF QStep
  <2> QED BY <1>10, <2>3, <2>4 DEF OSQDel
<1>11. ASSUME OSQPendEnds
       PROVE  QStep
  <2>1. PICK c : c = OSTCBCur
    OBVIOUS
  <2>2. Wake("q") /\ c \in Tasks /\ local[c].call = "q"
    BY <1>11, <2>1, WokenIsReady DEF OSQPendEnds, MsgPendEnds, Wake
  <2>3. Leaves(c) /\ Over(c)
    BY <2>1, <2>2, WakeLeaves
  <2>4. MsgReturns(c)
    BY <1>11, <2>1, <2>2, <2>3 DEF OSQPendEnds, MsgPendEnds, Taken, MsgReturns
  <2> QED BY <2>2, <2>4 DEF QStep
<1> QED
  BY <1>2, <1>4, <1>5, <1>6, <1>7, <1>8, <1>9, <1>10, <1>11 DEF Queues, OSQPost, OSQPostFront

-----------------------------------------------------------------------------
(* The call that waits for several events.                                 *)
MultiWaits(es) ==
  /\ \E c : Enters(c, es)
  /\ \A e \in es : ~Available(e)
  /\ UNCHANGED <<units, copies, OSQTbl>>
MultiTakes(S) ==
  /\ Stay /\ TakeAll(S)
  /\ \A e \in S : Available(e)
MultiReturns(c) ==
  /\ Leaves(c) /\ Over(c) /\ local[c].call = "multi" /\ OSQTbl' = OSQTbl
  /\ copies' = IF tcb[c].statPend = "OK" /\ tcb[c].msg # NoMsg
               THEN [copies EXCEPT ![tcb[c].msg] = @ - 1] ELSE copies
  /\ units' = IF tcb[c].statPend = "OK" /\ IsSem(tcb[c].eventPtr)
              THEN [units EXCEPT ![tcb[c].eventPtr] = @ - 1] ELSE units

MultiStep ==
  \/ \E es \in SUBSET Events : MultiWaits(es) \/ MultiTakes(es)
  \/ \E c \in Tasks : MultiReturns(c)

LEMMA TakeAllStays ==
  ASSUME TasksOK, NEW S \in SUBSET Events, TakeAll(S), UNCHANGED <<flagVars, app>>
  PROVE  Stay
<1>1. EventsTyped(event) /\ UNCHANGED <<OSFlagWaitList, node>>
  BY DEF TasksOK, flagVars
<1>2. event' = [e \in Events |->
        IF e \notin S \/ IsQ(e) THEN event[e]
        ELSE IF IsSem(e) THEN [event[e] EXCEPT !.cnt = @ - 1]
        ELSE [event[e] EXCEPT !.ptr = NoMsg]]
  BY DEF TakeAll
<1>3. ASSUME NEW e \in Events
      PROVE  /\ DOMAIN event'[e] = EventFields /\ event'[e].grp = event[e].grp
             /\ event'[e].type = event[e].type
  <2>1. /\ DOMAIN event[e] = EventFields
        /\ event'[e] = IF e \notin S \/ IsQ(e) THEN event[e]
                       ELSE IF IsSem(e) THEN [event[e] EXCEPT !.cnt = @ - 1]
                       ELSE [event[e] EXCEPT !.ptr = NoMsg]
    BY <1>1, <1>2 DEF EventsTyped
  <2> QED BY <2>1 DEF EventFields
<1>4. ListsStay
  BY <1>1, <1>2, <1>3 DEF ListsStay, EventsTyped
<1>5. UNCHANGED <<OSTCBList, tcb, callVars>>
  BY DEF TakeAll, listVars
<1> QED BY <1>4, <1>5, QuietStays

LEMMA SeveralEventsSteps ==
  ASSUME TasksOK, PendsOK, SeveralEvents
  PROVE  MultiStep
<1>1. UNCHANGED <<flagVars, app>>
  BY DEF SeveralEvents
<1>2. ASSUME NEW es \in SUBSET Events, NEW t, OSEventPendMulti(es, t)
      PROVE  MultiStep
  <2>1. /\ MayPend /\ es # {}
        /\ \A e \in es : event[e].type \in {"sem", "mbox", "q"}
    BY <1>2 DEF OSEventPendMulti, IsSem, IsMbox, IsQ
  <2>2. PICK S : S = {e \in es : Available(e)}
    OBVIOUS
  <2>3. CASE S = {} /\ EventTaskWait("multi", {StatBit(e) : e \in es} \cup {"MULTI"}, es, t)
             /\ UNCHANGED <<units, copies, OSQTbl>>
    <3>1. PICK bit : bit = {StatBit(e) : e \in es} \cup {"MULTI"}
      OBVIOUS
    <3>2. PICK call : call = "multi"
      OBVIOUS
    <3>3. PICK c : c = OSTCBCur
      OBVIOUS
    <3>4. EventTaskWait(call, bit, es, t) /\ call \in {"sem", "mbox", "q", "multi"}
          /\ \A e \in es : call # "multi" => event[e].type = call
      BY <2>3, <3>1, <3>2
    <3>5. Enters(c, es)
      BY <2>1, <3>2, <3>3, <3>4, WaitEnters
    <3>6. MultiWaits(es)
      BY <2>2, <2>3, <3>5 DEF MultiWaits
    <3> QED BY <3>6 DEF MultiStep
  <2>4. CASE TakeAll(S)
    <3>1. Stay
      BY <1>1, <2>2, <2>4, TakeAllStays
    <3>2. MultiTakes(S) /\ S \in SUBSET Events
      BY <2>2, <2>4, <3>1 DEF MultiTakes
    <3> QED BY <3>2 DEF MultiStep
  <2> QED BY <1>2, <2>2, <2>3, <2>4 DEF OSEventPendMulti
<1>3. ASSUME OSEventPendMultiEnds
      PROVE  MultiStep
  <2>1. PICK c : c = OSTCBCur
    OBVIOUS
  <2>2. Wake("multi") /\ c \in Tasks /\ local[c].call = "multi"
    BY <1>3, <2>1, WokenIsReady DEF OSEventPendMultiEnds, Wake
  <2>3. Leaves(c) /\ Over(c)
    BY <2>1, <2>2, WakeLeaves
  <2>4. MultiReturns(c)
    BY <1>3, <2>1, <2>2, <2>3 DEF OSEventPendMultiEnds, Taken, Debit, MultiReturns
  <2> QED BY <2>2, <2>4 DEF MultiStep
<1> QED BY <1>2, <1>3 DEF SeveralEvents

-----------------------------------------------------------------------------
(* The deletion of a task, and the steps that do not touch the events.     *)
DelStep(t) ==
  /\ IF InPend(t) THEN Leaves(t) ELSE Stay
  /\ (\A e \in Events : DataSame(e)) /\ OSQTbl' = OSQTbl
  /\ units' = [e \in Events |-> IF t \in SemGranted(e) THEN units[e] - 1 ELSE units[e]]
  /\ copies' = [m \in Msgs |-> IF \E e \in Events : t \in MsgGranted(e, m)
                               THEN copies[m] - 1 ELSE copies[m]]
QuietStep == Stay /\ event' = event /\ UNCHANGED dataVars

LEMMA QuietSteps ==
  ASSUME TasksOK, PendsOK, Plain,
         Scheduler \/ TaskManagement \/ EventFlags \/ Memory \/ UNCHANGED vars
  PROVE  QuietStep
<1>1. CASE Scheduler
  <2>1. Stay
    BY <1>1, SchedulerStays
  <2>2. event' = event /\ UNCHANGED dataVars
    BY <1>1 DEF Scheduler, OS_Sched, OSSchedLock, OSSchedUnlock, OSIntEnter, OSIntExit, OSTimeTick,
       OSTimeDly, OSTimeDlyResume, waitVars
  <2> QED BY <2>1, <2>2 DEF QuietStep
<1>2. CASE TaskManagement
  <2>1. Stay
    BY <1>2, TaskManagementStays
  <2>2. ~May("OSTaskChangePrio")
    BY SMTT(30) DEF May, Plain
  <2>3. event' = event /\ UNCHANGED dataVars
    BY <1>2, <2>2 DEF TaskManagement, OSTaskCreate, OS_TCBInit, OSTaskDelEnds, OSTaskSuspend,
       OSTaskResume, waitVars
  <2> QED BY <2>1, <2>3 DEF QuietStep
<1>3. CASE EventFlags
  <2>1. Stay
    BY <1>3, EventFlagsStay
  <2>2. UNCHANGED dataVars
    BY <1>3 DEF EventFlags
  <2>3. ASSUME OSFlagPendEnds
        PROVE  event' = event
    BY <2>3 DEF OSFlagPendEnds
  <2>4. ASSUME NEW g, NEW b, OSFlagDel(g, b)
        PROVE  event' = event
    BY <2>4 DEF OSFlagDel
  <2>5. ASSUME NEW g, NEW F, NEW on, OSFlagPost(g, F, on)
        PROVE  event' = event
    BY <2>5 DEF OSFlagPost
  <2>6. ASSUME NEW g, NEW f, NEW type, NEW consume, NEW timeout,
               OSFlagPend(g, f, type, consume, timeout)
        PROVE  event' = event
    BY <2>6 DEF OSFlagPend, OS_FlagBlock, coreVars, waitVars
  <2>7. ASSUME NEW g, NEW f, OSFlagCreate(g, f)
        PROVE  event' = event
    BY <2>7 DEF OSFlagCreate, coreVars, waitVars
  <2>8. ASSUME NEW g, NEW f, NEW type, NEW consume, OSFlagAccept(g, f, type, consume)
        PROVE  event' = event
    BY <2>8 DEF OSFlagAccept, coreVars, waitVars
  <2>9. event' = event
    BY <1>3, <2>3, <2>4, <2>5, <2>6, <2>7, <2>8 DEF EventFlags
  <2> QED BY <2>1, <2>2, <2>9 DEF QuietStep
<1>4. CASE Memory \/ UNCHANGED vars
  <2>1. UNCHANGED <<coreVars, flagVars, dataVars>>
    BY <1>4 DEF Memory, vars
  <2> QED BY <2>1, CoreQuiet DEF QuietStep
<1> QED BY <1>1, <1>2, <1>3, <1>4

LEMMA DeletionSteps ==
  ASSUME TasksOK, TaskDeletion
  PROVE  \E t \in Tasks : DelStep(t)
<1>1. PICK p \in Prios :
        /\ OSTaskDel(p) /\ OSQTbl' = OSQTbl
        /\ units' = [e \in Events |-> IF OSTCBPrioTbl[p] \in SemGranted(e)
                                      THEN units[e] - 1 ELSE units[e]]
        /\ copies' = [m \in Msgs |-> IF \E e \in Events : OSTCBPrioTbl[p] \in MsgGranted(e, m)
                                     THEN copies[m] - 1 ELSE copies[m]]
  BY DEF TaskDeletion
<1>2. PICK t : t = OSTCBPrioTbl[p]
  OBVIOUS
<1>3. /\ t \in Tasks /\ \A e \in Events : DataSame(e)
      /\ IF InPend(t) THEN Leaves(t) ELSE Stay
  BY <1>1, <1>2, TaskDelLeaves
<1> QED BY <1>1, <1>2, <1>3 DEF DelStep

-----------------------------------------------------------------------------
(* What holds of the events and the tasks that wait for them.              *)
EventsOK == PendsOK /\ AvailOK /\ UnitsTyped /\ MsgsTyped

EventsInv == TasksOK /\ QueueInv /\ EventsOK

(* The kinds of steps.                                                     *)
LEMMA StepKinds ==
  ASSUME EventsInv, Plain, [Next]_vars
  PROVE  \/ QuietStep
         \/ \E t \in Tasks : DelStep(t)
         \/ SemStep /\ UNCHANGED <<copies, OSQTbl>>
         \/ MboxStep /\ units' = units
         \/ QStep /\ units' = units
         \/ MultiStep
<1>1. ~Mutexes
  BY NoMutexes DEF EventsInv
<1>2. CASE Scheduler \/ TaskManagement \/ EventFlags \/ Memory \/ UNCHANGED vars
  BY <1>2, QuietSteps DEF EventsInv, EventsOK
<1>3. CASE TaskDeletion
  BY <1>3, DeletionSteps DEF EventsInv
<1>4. CASE Semaphores
  BY <1>4, SemaphoreSteps DEF EventsInv, EventsOK, Semaphores
<1>5. CASE Mailboxes
  BY <1>5, MailboxSteps DEF EventsInv, EventsOK, Mailboxes
<1>6. CASE Queues
  BY <1>6, QueueSteps DEF EventsInv, EventsOK, Queues
<1>7. CASE SeveralEvents
  BY <1>7, SeveralEventsSteps DEF EventsInv, EventsOK
<1> QED BY <1>1, <1>2, <1>3, <1>4, <1>5, <1>6, <1>7 DEF Next

(* What each does to the tasks in a pend.                                  *)
Entering == \E c : \E es \in SUBSET Events : Enters(c, es) /\ \A e \in es : ~Available(e)
Awakening ==
  \E e \in Events, how \in {"OK", "ABORT"} : \E S, msg : Readies(e, S, msg, how)
Leaving == \E t : Leaves(t)

LEMMA StepsOfPends ==
  ASSUME EventsInv, Plain, [Next]_vars
  PROVE  Stay \/ Entering \/ Awakening \/ Leaving
<1>1. CASE QuietStep \/ \E t \in Tasks : DelStep(t)
  BY <1>1 DEF QuietStep, DelStep, Leaving
<1>2. ASSUME NEW e \in Events, NEW c, Enters(c, {e}), ~Available(e)
      PROVE  Entering
  <2>1. {e} \in SUBSET Events
    OBVIOUS
  <2> QED BY <1>2, <2>1 DEF Entering
<1>3. CASE SemStep
  <2>1. ASSUME NEW e \in Events, SemWaits(e)
        PROVE  Entering
    BY <1>2, <2>1 DEF SemWaits
  <2>2. ASSUME NEW e \in Events, NEW S, NEW how \in {"OK", "ABORT"}, SemReadies(e, S, how)
        PROVE  Awakening
    BY <2>2 DEF SemReadies, Awakening
  <2>3. ASSUME NEW e \in Events, NEW n, SemGoes(e) \/ SemCounts(e, n) \/ SemBegins(e, n)
        PROVE  Stay
    BY <2>3 DEF SemGoes, SemCounts, SemBegins
  <2>4. ASSUME NEW c, NEW e, SemReturns(c, e)
        PROVE  Leaving
    BY <2>4 DEF SemReturns, Leaving
  <2> QED BY <1>3, <2>1, <2>2, <2>3, <2>4 DEF SemStep
<1>4. ASSUME NEW e \in Events, MsgWaits(e)
      PROVE  Entering
  BY <1>2, <1>4 DEF MsgWaits
<1>5. ASSUME NEW e \in Events, NEW S, NEW m, NEW how \in {"OK", "ABORT"}, MsgReadies(e, S, m, how)
      PROVE  Awakening
  BY <1>5 DEF MsgReadies, Awakening
<1>6. ASSUME NEW c, MsgReturns(c)
      PROVE  Leaving
  BY <1>6 DEF MsgReturns, Leaving
<1>7. CASE MboxStep
  <2>1. ASSUME NEW e \in Events, NEW m,
               MboxTakes(e) \/ MboxGoes(e) \/ MboxFills(e, m) \/ MboxBegins(e, m)
        PROVE  Stay
    BY <2>1 DEF MboxTakes, MboxGoes, MboxFills, MboxBegins
  <2> QED BY <1>4, <1>5, <1>6, <1>7, <2>1 DEF MboxStep
<1>8. CASE QStep
  <2>1. ASSUME NEW e \in Events, NEW m,
               QTakes(e) \/ QFlushes(e) \/ QBegins(e) \/ QGoes(e) \/ QPuts(e, m)
        PROVE  Stay
    BY <2>1 DEF QTakes, QFlushes, QBegins, QGoes, QPuts
  <2> QED BY <1>4, <1>5, <1>6, <1>8, <2>1 DEF QStep
<1>9. CASE MultiStep
  <2>1. ASSUME NEW es \in SUBSET Events, MultiWaits(es)
        PROVE  Entering
    BY <2>1 DEF MultiWaits, Entering
  <2> QED BY <1>9, <2>1 DEF MultiStep, MultiTakes, MultiReturns, Leaving
<1> QED BY <1>1, <1>3, <1>7, <1>8, <1>9, StepKinds

LEMMA PendsKeep ==
  ASSUME EventsInv, Plain, [Next]_vars
  PROVE  PendsOK'
<1>1. TasksOK /\ PendsOK
  BY DEF EventsInv, EventsOK
<1>2. CASE Stay
  BY <1>1, <1>2, StayPends
<1>3. CASE Entering
  BY <1>1, <1>3, EntersPends DEF Entering
<1>4. CASE Awakening
  BY <1>1, <1>4, AwakensPends DEF Awakening, Readies
<1>5. CASE Leaving
  BY <1>1, <1>5, LeavesPends DEF Leaving
<1> QED BY <1>2, <1>3, <1>4, <1>5, StepsOfPends

-----------------------------------------------------------------------------
(* No step leaves somebody waiting for what is there.                      *)
AvailStep(e) ==
  event'[e].cnt \in Nat /\ event'[e].cnt <= SemMax /\ (Available(e)' => Waiters(e)' = {})

LEMMA DataAvail ==
  ASSUME AvailOK, NEW e \in Events, DataSame(e), OSQTbl' = OSQTbl, Waiters(e)' \subseteq Waiters(e)
  PROVE  AvailStep(e)
<1>1. Available(e)' <=> Available(e)
  BY DEF DataSame, Available, IsSem, IsMbox, IsQ, Empty, Entries
<1> QED BY <1>1 DEF AvailOK, AvailStep, DataSame

LEMMA EditAvail ==
  ASSUME TasksOK, AvailOK, Stay, NEW e \in Events, NEW b, event' = [event EXCEPT ![e] = b],
         Count(b.cnt), Waiters(e) = {}, \A x \in Events \ {e} : OSQTbl'[x] = OSQTbl[x],
         NEW x \in Events
  PROVE  AvailStep(x)
<1>1. DOMAIN event = Events
  BY DEF TasksOK, EventsTyped
<1>2. Waiters(x)' = Waiters(x)
  BY DEF Stay, ListsSame
<1>3. CASE x = e
  BY <1>1, <1>2, <1>3 DEF AvailStep, Count
<1>4. CASE x # e
  <2>1. event'[x] = event[x] /\ OSQTbl'[x] = OSQTbl[x]
    BY <1>1, <1>4
  <2>2. Available(x)' <=> Available(x)
    BY <2>1 DEF Available, IsSem, IsMbox, IsQ, Empty, Entries
  <2> QED BY <1>2, <2>1, <2>2 DEF AvailOK, AvailStep
<1> QED BY <1>3, <1>4

LEMMA EntersAvail ==
  ASSUME AvailOK, NEW c, NEW es \in SUBSET Events, Enters(c, es), \A e \in es : ~Available(e),
         OSQTbl' = OSQTbl, NEW x \in Events
  PROVE  AvailStep(x)
<1>1. DataSame(x) /\ Waiters(x)' = IF x \in es THEN Waiters(x) \cup {tcb[c].prio} ELSE Waiters(x)
  BY DEF Enters
<1>2. CASE x \in es
  <2>1. ~Available(x)'
    BY <1>1, <1>2 DEF DataSame, Available, IsSem, IsMbox, IsQ, Empty, Entries
  <2> QED BY <1>1, <2>1 DEF AvailStep, AvailOK, DataSame
<1>3. CASE x \notin es
  BY <1>1, <1>3, DataAvail
<1> QED BY <1>2, <1>3

LEMMA ReadiesAvail ==
  ASSUME AvailOK, NEW e \in Events, NEW S, NEW msg, NEW how, Readies(e, S, msg, how),
         OSQTbl' = OSQTbl, NEW x \in Events
  PROVE  AvailStep(x)
<1>1. Waiters(x)' \subseteq Waiters(x)
  BY DEF Readies, Awakens
<1>2. DataSame(x) \/ (x = e /\ event'[e] = EventClear /\ Waiters(e)' = {})
  BY DEF Readies, Awakens
<1>3. EventClear.cnt = 0 /\ 0 <= SemMax
  BY SemAssumption DEF EventClear
<1> QED BY <1>1, <1>2, <1>3, DataAvail DEF AvailStep

LEMMA LeavesAvail ==
  ASSUME AvailOK, NEW t, Leaves(t), OSQTbl' = OSQTbl, NEW x \in Events
  PROVE  AvailStep(x)
<1>1. Waiters(x)' \subseteq Waiters(x) /\ DataSame(x)
  BY DEF Leaves
<1> QED BY <1>1, DataAvail

LEMMA StayAvail ==
  ASSUME AvailOK, Stay, OSQTbl' = OSQTbl, \A e \in Events : DataSame(e), NEW x \in Events
  PROVE  AvailStep(x)
<1>1. Waiters(x)' = Waiters(x)
  BY DEF Stay, ListsSame
<1> QED BY <1>1, DataAvail

LEMMA FreshCounts ==
  /\ EventClear.cnt = 0 /\ QFresh.cnt = 0 /\ Count(0)
  /\ \A n : SemFresh(n).cnt = n /\ MboxFresh(n).cnt = 0
BY SemAssumption DEF EventClear, QFresh, SemFresh, MboxFresh, Count

LEMMA SemAvail ==
  ASSUME EventsInv, SemStep, OSQTbl' = OSQTbl, NEW x \in Events
  PROVE  AvailStep(x)
<1>1. TasksOK /\ AvailOK
  BY DEF EventsInv, EventsOK
<1>2. ASSUME NEW e \in Events, SemWaits(e)
      PROVE  AvailStep(x)
  <2>1. PICK c : Enters(c, {e}) /\ ~Available(e)
    BY <1>2 DEF SemWaits
  <2>2. {e} \in SUBSET Events
    OBVIOUS
  <2> QED BY <1>1, <2>1, <2>2, EntersAvail
<1>3. ASSUME NEW e \in Events, SemGoes(e)
      PROVE  AvailStep(x)
  BY <1>1, <1>3, FreshCounts, EditAvail DEF SemGoes
<1>4. ASSUME NEW e \in Events, NEW n \in Nat, SemCounts(e, n)
      PROVE  AvailStep(x)
  <2>1. PICK b : b = [event[e] EXCEPT !.cnt = n]
    OBVIOUS
  <2>2. DOMAIN event = Events /\ DOMAIN event[e] = EventFields
    BY <1>1 DEF TasksOK, EventsTyped
  <2>3. event' = [event EXCEPT ![e] = b] /\ Count(b.cnt)
    BY <1>4, <2>1, <2>2 DEF SemCounts, EventFields, Count
  <2>4. Stay /\ Waiters(e) = {}
    BY <1>1, <1>4 DEF SemCounts, AvailOK
  <2> QED BY <1>1, <2>3, <2>4, EditAvail
<1>5. ASSUME NEW e \in Events, NEW n \in Nat, SemBegins(e, n)
      PROVE  AvailStep(x)
  BY <1>1, <1>5, FreshCounts, EditAvail DEF SemBegins, Count
<1>6. ASSUME NEW e \in Events, NEW S, NEW how, SemReadies(e, S, how)
      PROVE  AvailStep(x)
  BY <1>1, <1>6, ReadiesAvail DEF SemReadies
<1>7. ASSUME NEW c, NEW e, SemReturns(c, e)
      PROVE  AvailStep(x)
  BY <1>1, <1>7, LeavesAvail DEF SemReturns
<1> QED BY <1>2, <1>3, <1>4, <1>5, <1>6, <1>7 DEF SemStep

LEMMA MessageAvail ==
  ASSUME EventsInv, NEW x \in Events,
         \/ \E e \in Events : MsgWaits(e)
         \/ \E e \in Events, m \in Msgs \cup {NoMsg}, how \in {"OK", "ABORT"} : \E S : MsgReadies(e, S, m, how)
         \/ \E c \in Tasks : MsgReturns(c)
  PROVE  AvailStep(x)
<1>1. TasksOK /\ AvailOK
  BY DEF EventsInv, EventsOK
<1>2. ASSUME NEW e \in Events, MsgWaits(e)
      PROVE  AvailStep(x)
  <2>1. PICK c : Enters(c, {e}) /\ ~Available(e) /\ OSQTbl' = OSQTbl
    BY <1>2 DEF MsgWaits
  <2>2. {e} \in SUBSET Events
    OBVIOUS
  <2> QED BY <1>1, <2>1, <2>2, EntersAvail
<1>3. ASSUME NEW e \in Events, NEW S, NEW m, NEW how, MsgReadies(e, S, m, how)
      PROVE  AvailStep(x)
  BY <1>1, <1>3, ReadiesAvail DEF MsgReadies
<1>4. ASSUME NEW c, MsgReturns(c)
      PROVE  AvailStep(x)
  BY <1>1, <1>4, LeavesAvail DEF MsgReturns
<1> QED BY <1>2, <1>3, <1>4

LEMMA MboxAvail ==
  ASSUME EventsInv, MboxStep, NEW x \in Events
  PROVE  AvailStep(x)
<1>1. TasksOK /\ AvailOK
  BY DEF EventsInv, EventsOK
<1>2. ASSUME NEW e \in Events, NEW m, MboxTakes(e) \/ MboxFills(e, m), OSQTbl' = OSQTbl
      PROVE  AvailStep(x)
  <2>1. PICK n : event' = [event EXCEPT ![e].ptr = n]
    BY <1>2 DEF MboxTakes, MboxFills
  <2>2. PICK b : b = [event[e] EXCEPT !.ptr = n]
    OBVIOUS
  <2>3. DOMAIN event = Events /\ DOMAIN event[e] = EventFields /\ Count(event[e].cnt)
    BY <1>1 DEF TasksOK, EventsTyped, AvailOK, Count
  <2>4. event' = [event EXCEPT ![e] = b] /\ Count(b.cnt)
    BY <2>1, <2>2, <2>3 DEF EventFields
  <2>5. Stay /\ Waiters(e) = {}
    BY <1>1, <1>2 DEF MboxTakes, MboxFills, AvailOK
  <2> QED BY <1>1, <1>2, <2>4, <2>5, EditAvail
<1>3. ASSUME NEW e \in Events, NEW m, MboxBegins(e, m) \/ MboxGoes(e), OSQTbl' = OSQTbl
      PROVE  AvailStep(x)
  <2>1. PICK b \in {EventClear, MboxFresh(m)} : event' = [event EXCEPT ![e] = b]
    BY <1>3 DEF MboxBegins, MboxGoes
  <2>2. Stay /\ Waiters(e) = {} /\ Count(b.cnt)
    BY <1>3, <2>1, FreshCounts DEF MboxBegins, MboxGoes
  <2> QED BY <1>1, <1>3, <2>1, <2>2, EditAvail
<1> QED BY <1>2, <1>3, MessageAvail DEF MboxStep

LEMMA QAvail ==
  ASSUME EventsInv, QStep, NEW x \in Events
  PROVE  AvailStep(x)
<1>1. TasksOK /\ AvailOK /\ QueueInv
  BY DEF EventsInv, EventsOK
<1>2. ASSUME NEW e \in Events, Stay, event' = event, NEW q, OSQTbl' = [OSQTbl EXCEPT ![e] = q],
             Waiters(e) = {} \/ ~Available(e)'
      PROVE  AvailStep(x)
  <2>1. DataSame(x) /\ Waiters(x)' = Waiters(x)
    BY <1>2 DEF DataSame, Stay, ListsSame
  <2>2. CASE x = e
    BY <1>1, <1>2, <2>1, <2>2 DEF AvailStep, DataSame, AvailOK
  <2>3. CASE x # e
    <3>1. Available(x)' <=> Available(x)
      BY <1>1, <1>2, <2>3 DEF Available, IsSem, IsMbox, IsQ, Empty, Entries, QueueInv
    <3> QED BY <1>1, <2>1, <3>1 DEF AvailStep, DataSame, AvailOK
  <2> QED BY <2>2, <2>3
<1>3. ASSUME NEW e \in Events, QTakes(e)
      PROVE  AvailStep(x)
  <2>1. Waiters(e) = {}
    BY <1>1, <1>3 DEF QTakes, AvailOK
  <2> QED BY <1>2, <1>3, <2>1 DEF QTakes
<1>4. ASSUME NEW e \in Events, NEW m, QPuts(e, m)
      PROVE  AvailStep(x)
  BY <1>2, <1>4 DEF QPuts
<1>5. ASSUME NEW e \in Events, QFlushes(e)
      PROVE  AvailStep(x)
  <2>1. Flushed(OSQTbl[e]).entries = 0
    BY <1>1 DEF QueueInv, RingOK, Rings, Flushed
  <2>2. Entries(e)' = 0 /\ IsQ(e)'
    BY <1>1, <1>5, <2>1 DEF QFlushes, QueueInv, Entries, IsQ
  <2>3. ~Available(e)'
    BY <2>2 DEF Available, IsQ, IsSem, IsMbox
  <2> QED BY <1>2, <1>5, <2>3 DEF QFlushes
<1>6. ASSUME NEW e \in Events, QBegins(e) \/ QGoes(e)
      PROVE  AvailStep(x)
  <2>1. PICK b \in {EventClear, QFresh} : event' = [event EXCEPT ![e] = b]
    BY <1>6 DEF QBegins, QGoes
  <2>2. Stay /\ Waiters(e) = {} /\ Count(b.cnt)
    BY <1>6, <2>1, FreshCounts DEF QBegins, QGoes
  <2>3. \A y \in Events \ {e} : OSQTbl'[y] = OSQTbl[y]
    BY <1>1, <1>6 DEF QBegins, QGoes, QueueInv
  <2> QED BY <1>1, <2>1, <2>2, <2>3, EditAvail
<1> QED BY <1>3, <1>4, <1>5, <1>6, MessageAvail DEF QStep

LEMMA MultiAvail ==
  ASSUME EventsInv, MultiStep, NEW x \in Events
  PROVE  AvailStep(x)
<1>1. TasksOK /\ AvailOK
  BY DEF EventsInv, EventsOK
<1>2. ASSUME NEW es \in SUBSET Events, MultiWaits(es)
      PROVE  AvailStep(x)
  BY <1>1, <1>2, EntersAvail DEF MultiWaits
<1>3. ASSUME NEW S \in SUBSET Events, MultiTakes(S)
      PROVE  AvailStep(x)
  <2>1. /\ event'[x] = IF x \notin S \/ IsQ(x) THEN event[x]
                       ELSE IF IsSem(x) THEN [event[x] EXCEPT !.cnt = @ - 1]
                       ELSE [event[x] EXCEPT !.ptr = NoMsg]
        /\ OSQTbl'[x] = IF x \in S /\ IsQ(x) THEN Get(OSQTbl[x]) ELSE OSQTbl[x]
        /\ Waiters(x)' = Waiters(x)
    BY <1>3 DEF MultiTakes, TakeAll, Stay, ListsSame
  <2>2. CASE x \notin S
    <3>1. Available(x)' <=> Available(x)
      BY <2>1, <2>2 DEF Available, IsSem, IsMbox, IsQ, Empty, Entries
    <3> QED BY <1>1, <2>1, <2>2, <3>1 DEF AvailStep, AvailOK
  <2>3. CASE x \in S
    <3>1. /\ Available(x) /\ Waiters(x) = {} /\ DOMAIN event[x] = EventFields
          /\ event[x].cnt \in Nat /\ event[x].cnt <= SemMax
      BY <1>1, <1>3, <2>3 DEF MultiTakes, AvailOK, TasksOK, EventsTyped
    <3>2. IsSem(x) => event[x].cnt > 0 /\ ~IsQ(x)
      BY <3>1 DEF Available, IsSem, IsMbox, IsQ
    <3>3. event'[x].cnt \in Nat /\ event'[x].cnt <= SemMax
      BY <2>1, <2>3, <3>1, <3>2, SemAssumption DEF EventFields
    <3> QED BY <2>1, <3>1, <3>3 DEF AvailStep
  <2> QED BY <2>2, <2>3
<1>4. ASSUME NEW c, MultiReturns(c)
      PROVE  AvailStep(x)
  BY <1>1, <1>4, LeavesAvail DEF MultiReturns
<1> QED BY <1>2, <1>3, <1>4 DEF MultiStep

LEMMA AvailKeep ==
  ASSUME EventsInv, Plain, [Next]_vars
  PROVE  AvailOK'
<1> SUFFICES ASSUME NEW x \in Events PROVE AvailStep(x)
  BY DEF AvailOK, AvailStep
<1>1. AvailOK
  BY DEF EventsInv, EventsOK
<1>2. CASE QuietStep
  <2>1. Stay /\ OSQTbl' = OSQTbl /\ \A e \in Events : DataSame(e)
    BY <1>2 DEF QuietStep, dataVars, DataSame
  <2> QED BY <1>1, <2>1, StayAvail
<1>3. ASSUME NEW t, DelStep(t)
      PROVE  AvailStep(x)
  BY <1>1, <1>3, LeavesAvail, StayAvail DEF DelStep
<1> QED BY <1>2, <1>3, StepKinds, SemAvail, MboxAvail, QAvail, MultiAvail

-----------------------------------------------------------------------------
(* The history variables stay counts.                                      *)
LEMMA WaitersCount ==
  ASSUME TasksOK, NEW e \in Events, NEW S, S \in {Waiters(e), HighestWaiter(e)}
  PROVE  Cardinality(S) \in Int
<1>1. CASE S = HighestWaiter(e)
  BY <1>1, OneWaiter
<1>2. CASE S = Waiters(e)
  <2>1. Waiters(e) \subseteq Prios /\ IsFiniteSet(Prios)
    BY CoreAssumption, FS_Interval DEF TasksOK, EventsTyped, Waiters, Prios
  <2>2. IsFiniteSet(S)
    BY <1>2, <2>1, FS_Subset
  <2> QED BY <2>2, FS_CardinalityType
<1> QED BY <1>1, <1>2

LEMMA InQueueCounts ==
  ASSUME QueueInv, NEW e \in Events, NEW m
  PROVE  InQueue(e, m) \in Nat
<1>1. Entries(e) \in Nat
  BY DEF QueueInv, Rings, Entries
<1>2. IsFiniteSet(1..Entries(e))
  BY <1>1, FS_Interval
<1>3. PICK Q : Q = {i \in 1..Entries(e) : Content(OSQTbl[e])[i] = m}
  OBVIOUS
<1>4. IsFiniteSet(Q)
  BY <1>2, <1>3, FS_Subset
<1> QED BY <1>3, <1>4, FS_CardinalityType DEF InQueue

LEMMA UnitsKeep ==
  ASSUME EventsInv, Plain, [Next]_vars
  PROVE  UnitsTyped'
<1>1. TasksOK /\ units \in [Events -> Int] /\ \A e \in Events : event[e].cnt \in Nat
  BY DEF EventsInv, EventsOK, AvailOK, UnitsTyped
<1>2. CASE QuietStep
  BY <1>1, <1>2 DEF QuietStep, dataVars, UnitsTyped
<1>3. ASSUME NEW t, DelStep(t)
      PROVE  UnitsTyped'
  BY <1>1, <1>3 DEF DelStep, UnitsTyped
<1>4. CASE SemStep
  <2>1. ASSUME NEW e \in Events, SemWaits(e) \/ SemGoes(e)
        PROVE  UnitsTyped'
    <3>1. units[e] - event[e].cnt \in Int
      BY <1>1
    <3> QED BY <1>1, <2>1, <3>1 DEF SemWaits, SemGoes, UnitsTyped
  <2>2. ASSUME NEW e \in Events, NEW n \in Nat, SemCounts(e, n) \/ SemBegins(e, n)
        PROVE  UnitsTyped'
    <3>1. (units[e] - event[e].cnt) + n \in Int /\ units[e] + n \in Int
      BY <1>1
    <3> QED BY <1>1, <2>2, <3>1 DEF SemCounts, SemBegins, UnitsTyped
  <2>3. ASSUME NEW e \in Events, NEW S, NEW how \in {"OK", "ABORT"}, SemReadies(e, S, how)
        PROVE  UnitsTyped'
    <3>1. Cardinality(S) \in Int
      BY <1>1, <2>3, WaitersCount DEF SemReadies, Readies
    <3>2. units[e] + Cardinality(S) \in Int
      BY <1>1, <3>1
    <3> QED BY <1>1, <2>3, <3>2 DEF SemReadies, UnitsTyped
  <2>4. ASSUME NEW c \in Tasks, NEW e \in local[c].events, SemReturns(c, e)
        PROVE  UnitsTyped'
    <3>1. e \in Events
      BY <1>1, PendEvents
    <3>2. units[e] - 1 \in Int
      BY <1>1, <3>1
    <3> QED BY <1>1, <2>4, <3>2 DEF SemReturns, UnitsTyped
  <2> QED BY <1>4, <2>1, <2>2, <2>3, <2>4 DEF SemStep
<1>5. CASE units' = units
  BY <1>1, <1>5 DEF UnitsTyped
<1>6. CASE MultiStep
  <2>1. ASSUME NEW S, MultiTakes(S)
        PROVE  UnitsTyped'
    BY <1>1, <2>1 DEF MultiTakes, TakeAll, UnitsTyped
  <2>2. ASSUME NEW c, MultiReturns(c)
        PROVE  UnitsTyped'
    <3>1. \A e \in Events : units[e] - 1 \in Int
      BY <1>1
    <3> QED BY <1>1, <2>2, <3>1 DEF MultiReturns, UnitsTyped
  <2> QED BY <1>5, <1>6, <2>1, <2>2 DEF MultiStep, MultiWaits
<1> QED BY <1>2, <1>3, <1>4, <1>5, <1>6, StepKinds

LEMMA PointersKeep ==
  ASSUME EventsInv, Plain, [Next]_vars, NEW x \in Events
  PROVE  event'[x].ptr \in Msgs \cup {NoMsg}
<1>1. /\ DOMAIN event = Events /\ \A e \in Events : DOMAIN event[e] = EventFields
      /\ \A e \in Events : event[e].ptr \in Msgs \cup {NoMsg}
  BY DEF EventsInv, TasksOK, EventsTyped, EventsOK, MsgsTyped
<1>2. /\ EventClear.ptr = NoMsg /\ QFresh.ptr = NoMsg
      /\ \A n : SemFresh(n).ptr = NoMsg /\ MboxFresh(n).ptr = n
  BY DEF EventClear, QFresh, SemFresh, MboxFresh
<1>3. ASSUME DataSame(x)
      PROVE  event'[x].ptr \in Msgs \cup {NoMsg}
  BY <1>1, <1>3 DEF DataSame
<1>4. ASSUME NEW e \in Events, NEW b, event' = [event EXCEPT ![e] = b], b.ptr \in Msgs \cup {NoMsg}
      PROVE  event'[x].ptr \in Msgs \cup {NoMsg}
  BY <1>1, <1>4
<1>5. ASSUME NEW e \in Events, NEW S, NEW m, NEW how, Readies(e, S, m, how)
      PROVE  event'[x].ptr \in Msgs \cup {NoMsg}
  BY <1>1, <1>2, <1>5 DEF Readies, Awakens, DataSame
<1>6. ASSUME NEW c, NEW es, Enters(c, es)
      PROVE  event'[x].ptr \in Msgs \cup {NoMsg}
  BY <1>3, <1>6 DEF Enters
<1>7. ASSUME NEW c, Leaves(c)
      PROVE  event'[x].ptr \in Msgs \cup {NoMsg}
  BY <1>3, <1>7 DEF Leaves
<1>8. CASE QuietStep \/ \E t \in Tasks : DelStep(t)
  BY <1>3, <1>8 DEF QuietStep, DelStep, DataSame
<1>9. CASE SemStep
  <2>1. ASSUME NEW e \in Events, NEW n \in Nat, SemCounts(e, n)
        PROVE  event'[x].ptr \in Msgs \cup {NoMsg}
    BY <1>1, <2>1 DEF SemCounts, EventFields
  <2>2. ASSUME NEW e \in Events, NEW n \in Nat, SemBegins(e, n) \/ SemGoes(e)
        PROVE  event'[x].ptr \in Msgs \cup {NoMsg}
    BY <1>2, <1>4, <2>2 DEF SemBegins, SemGoes
  <2> QED BY <1>5, <1>6, <1>7, <1>9, <2>1, <2>2
          DEF SemStep, SemWaits, SemReadies, SemReturns
<1>10. CASE MboxStep
  <2>1. ASSUME NEW e \in Events, NEW m \in Msgs, MboxTakes(e) \/ MboxFills(e, m)
        PROVE  event'[x].ptr \in Msgs \cup {NoMsg}
    BY <1>1, <2>1 DEF MboxTakes, MboxFills, EventFields
  <2>2. ASSUME NEW e \in Events, NEW m \in Msgs \cup {NoMsg}, MboxBegins(e, m) \/ MboxGoes(e)
        PROVE  event'[x].ptr \in Msgs \cup {NoMsg}
    BY <1>2, <1>4, <2>2 DEF MboxBegins, MboxGoes
  <2>3. ASSUME NEW e \in Events, MboxTakes(e)
        PROVE  event'[x].ptr \in Msgs \cup {NoMsg}
    BY <1>1, <2>3 DEF MboxTakes, EventFields
  <2> QED BY <1>5, <1>6, <1>7, <1>10, <2>1, <2>2, <2>3
          DEF MboxStep, MsgWaits, MsgReadies, MsgReturns
<1>11. CASE QStep
  <2>1. ASSUME NEW e \in Events, QBegins(e) \/ QGoes(e)
        PROVE  event'[x].ptr \in Msgs \cup {NoMsg}
    BY <1>2, <1>4, <2>1 DEF QBegins, QGoes
  <2>2. ASSUME NEW e \in Events, NEW m, QTakes(e) \/ QFlushes(e) \/ QPuts(e, m)
        PROVE  event'[x].ptr \in Msgs \cup {NoMsg}
    BY <1>3, <2>2 DEF QTakes, QFlushes, QPuts, DataSame
  <2> QED BY <1>5, <1>6, <1>7, <1>11, <2>1, <2>2
          DEF QStep, MsgWaits, MsgReadies, MsgReturns
<1>12. CASE MultiStep
  <2>1. ASSUME NEW S, MultiTakes(S)
        PROVE  event'[x].ptr \in Msgs \cup {NoMsg}
    BY <1>1, <2>1 DEF MultiTakes, TakeAll, EventFields
  <2> QED BY <1>6, <1>7, <1>12, <2>1 DEF MultiStep, MultiWaits, MultiReturns
<1> QED BY <1>8, <1>9, <1>10, <1>11, <1>12, StepKinds

LEMMA MessageCopies ==
  ASSUME EventsInv,
         \/ \E e \in Events : MsgWaits(e)
         \/ \E e \in Events, m \in Msgs \cup {NoMsg}, how \in {"OK", "ABORT"} : \E S : MsgReadies(e, S, m, how)
         \/ \E c \in Tasks : MsgReturns(c)
  PROVE  copies' \in [Msgs -> Int]
<1>1. TasksOK /\ copies \in [Msgs -> Int]
  BY DEF EventsInv, EventsOK, MsgsTyped
<1>2. ASSUME NEW e \in Events, MsgWaits(e)
      PROVE  copies' \in [Msgs -> Int]
  BY <1>1, <1>2 DEF MsgWaits
<1>3. ASSUME NEW e \in Events, NEW S, NEW m \in Msgs \cup {NoMsg}, NEW how, MsgReadies(e, S, m, how)
      PROVE  copies' \in [Msgs -> Int]
  <2>1. Cardinality(S) \in Int
    BY <1>1, <1>3, WaitersCount DEF MsgReadies, Readies
  <2>2. m # NoMsg => copies[m] + Cardinality(S) \in Int
    BY <1>1, <1>3, <2>1
  <2> QED BY <1>1, <1>3, <2>2 DEF MsgReadies
<1>4. ASSUME NEW c, MsgReturns(c)
      PROVE  copies' \in [Msgs -> Int]
  <2>1. \A m \in Msgs : copies[m] - 1 \in Int
    BY <1>1
  <2> QED BY <1>1, <1>4, <2>1 DEF MsgReturns
<1> QED BY <1>2, <1>3, <1>4

LEMMA CopiesKeep ==
  ASSUME EventsInv, Plain, [Next]_vars
  PROVE  copies' \in [Msgs -> Int]
<1>1. TasksOK /\ QueueInv /\ copies \in [Msgs -> Int]
  BY DEF EventsInv, EventsOK, MsgsTyped
<1>2. CASE copies' = copies
  BY <1>1, <1>2
<1>3. ASSUME NEW t, DelStep(t)
      PROVE  copies' \in [Msgs -> Int]
  BY <1>1, <1>3 DEF DelStep
<1>4. \A m \in Msgs : copies[m] - 1 \in Int /\ copies[m] + 1 \in Int
  BY <1>1
<1>5. ASSUME NEW e \in Events, Discard(e)
      PROVE  copies' \in [Msgs -> Int]
  <2>1. \A m \in Msgs : copies[m] - InQueue(e, m) \in Int
    BY <1>1, InQueueCounts
  <2> QED BY <1>5, <2>1 DEF Discard
<1>6. ASSUME NEW e \in Events, NEW m \in Msgs \cup {NoMsg},
             \/ MboxTakes(e) \/ MboxGoes(e) \/ MboxBegins(e, m)
             \/ m \in Msgs /\ MboxFills(e, m)
      PROVE  copies' \in [Msgs -> Int]
  BY <1>1, <1>4, <1>6 DEF MboxTakes, MboxGoes, MboxFills, MboxBegins
<1>7. CASE MboxStep
  <2>1. ASSUME NEW e \in Events, MboxTakes(e) \/ MboxGoes(e)
        PROVE  copies' \in [Msgs -> Int]
    BY <1>6, <2>1
  <2> QED BY <1>6, <1>7, <2>1, MessageCopies DEF MboxStep
<1>8. CASE QStep
  <2>1. ASSUME NEW e \in Events, NEW m \in Msgs, QTakes(e) \/ QPuts(e, m)
        PROVE  copies' \in [Msgs -> Int]
    BY <1>1, <1>4, <2>1 DEF QTakes, QPuts
  <2>2. ASSUME NEW e \in Events, QTakes(e) \/ QFlushes(e) \/ QBegins(e) \/ QGoes(e)
        PROVE  copies' \in [Msgs -> Int]
    BY <1>1, <1>2, <1>4, <1>5, <2>2 DEF QTakes, QFlushes, QBegins, QGoes
  <2> QED BY <1>8, <2>1, <2>2, MessageCopies DEF QStep
<1>9. CASE MultiStep
  <2>1. ASSUME NEW S \in SUBSET Events, MultiTakes(S)
        PROVE  copies' \in [Msgs -> Int]
    <3>1. ASSUME NEW m \in Msgs, NEW Q, Q = {e \in S : ~IsSem(e) /\ MsgOf(e) = m}
          PROVE  copies[m] - Cardinality(Q) \in Int
      <4>1. IsFiniteSet(Q)
        BY <3>1, CoreAssumption, FS_Subset
      <4> QED BY <1>1, <4>1, FS_CardinalityType
    <3> QED BY <2>1, <3>1 DEF MultiTakes, TakeAll
  <2>2. ASSUME NEW c, MultiReturns(c)
        PROVE  copies' \in [Msgs -> Int]
    BY <1>1, <1>4, <2>2 DEF MultiReturns
  <2> QED BY <1>2, <1>9, <2>1, <2>2 DEF MultiStep, MultiWaits
<1> QED BY <1>2, <1>3, <1>7, <1>8, <1>9, StepKinds DEF QuietStep, dataVars

LEMMA EventsKeep ==
  ASSUME EventsInv, Plain, [Next]_vars
  PROVE  EventsInv'
<1>1. TasksOK' /\ QueueInv'
  BY TasksKeep, StepIsDequeStep DEF EventsInv
<1>2. MsgsTyped'
  BY PointersKeep, CopiesKeep DEF MsgsTyped
<1> QED BY <1>1, <1>2, PendsKeep, AvailKeep, UnitsKeep DEF EventsInv, EventsOK

LEMMA EventsStart ==
  ASSUME Init, Plain
  PROVE  EventsInv
<1>1. TasksOK /\ QueueInv
  BY TasksStart, QueuesStartEmpty
<1>2. PendsOK
  BY DEF Init, InitTCBList, PendsOK, InPend, Pending
<1>3. ASSUME NEW e \in Events
      PROVE  event[e].cnt = 0 /\ event[e].ptr = NoMsg /\ Waiters(e) = {}
  <2>1. app.kind[e] \in EventKinds \ {"mutex"} /\ event[e] = EventOf(app.kind[e])
    BY AppsAssumption DEF Init, Plain
  <2> QED BY <2>1 DEF EventOf, EventKinds, SemFresh, MboxFresh, QFresh, EventClear, Waiters
<1>4. AvailOK /\ UnitsTyped /\ MsgsTyped
  BY <1>3, SemAssumption DEF Init, AvailOK, UnitsTyped, MsgsTyped
<1> QED BY <1>1, <1>2, <1>4 DEF EventsInv, EventsOK

LEMMA EventsAlwaysInv == Spec => [](Plain => EventsInv)
<1>1. Init => (Plain => EventsInv)
  BY EventsStart
<1>2. (Plain => EventsInv) /\ [Next]_vars => (Plain => EventsInv)'
  <2> SUFFICES ASSUME Plain => EventsInv, [Next]_vars, Plain'
               PROVE  EventsInv'
    OBVIOUS
  <2>1. Plain
    BY AppStays DEF Plain
  <2> QED BY <2>1, EventsKeep
<1> QED BY <1>1, <1>2, PTL DEF Spec

-----------------------------------------------------------------------------
(* Under any application that leaves mutexes and changes of priority       *)
(* alone and deletes an event only while nobody else is on the way to      *)
(* one, nobody sleeps beside a unit or a message, and nobody waits at a    *)
(* block that is no event (os_sem.c, os_mbox.c, os_q.c,                    *)
(* OSEventPendMulti).                                                      *)
THEOREM NobodyWaitsInVain == Spec => [](Plain => NobodyWaitsForWhatIsThere)
<1>1. EventsInv => NobodyWaitsForWhatIsThere
  <2> SUFFICES ASSUME EventsInv, NEW e \in Events,
                      Available(e) \/ IsMutex(e) \/ event[e].type = "unused"
               PROVE  Waiters(e) = {}
    BY DEF NobodyWaitsForWhatIsThere
  <2>1. ~IsMutex(e)
    BY DEF EventsInv, TasksOK, EventsTyped, IsMutex
  <2>2. event[e].type = "unused" => Waiters(e) = {}
    BY DEF EventsInv, TasksOK, ListsOK
  <2> QED BY <2>1, <2>2 DEF EventsInv, EventsOK, AvailOK
<1> QED BY <1>1, EventsAlwaysInv, PTL

(* The tasks that an awakening takes have the priorities of S.             *)
LEMMA AwakenedPrios ==
  ASSUME TasksOK, NEW e \in Events, NEW S, S \in {Waiters(e), HighestWaiter(e)}, Waiters(e) # {}
  PROVE  /\ S \in SUBSET Waiters(e)
         /\ \A p \in S : OSTCBPrioTbl[p] \in Awakened(S)
         /\ \A t \in Awakened(S) : /\ t \in Tasks /\ InPend(t) /\ tcb[t].prio \in S
                                   /\ e \in local[t].events
<1>1. S \in SUBSET Waiters(e)
  BY WaitersChosen DEF TasksOK
<1> QED BY <1>1, WaitersInPend DEF Awakened

LEMMA AwakensInOrder ==
  ASSUME TasksOK, NEW e \in Events, NEW S, NEW msg, NEW how, Readies(e, S, msg, how),
         NEW t \in Awakened(S), NEW q \in Waiters(e)'
  PROVE  tcb[t].prio < q
<1>1. /\ Waiters(e) # {} /\ S \in {Waiters(e), HighestWaiter(e)}
      /\ Waiters(e)' = Waiters(e) \ {tcb[u].prio : u \in {u \in Awakened(S) : e \in local[u].events}}
  BY DEF Readies, Awakens
<1>2. /\ S \in SUBSET Waiters(e) /\ \A p \in S : OSTCBPrioTbl[p] \in Awakened(S)
      /\ tcb[t].prio \in S
  BY <1>1, AwakenedPrios
<1>3. q \in Waiters(e) /\ q \notin S
  <2>1. ASSUME q \in S
        PROVE  FALSE
    <3>1. /\ OSTCBPrioTbl[q] \in Awakened(S) /\ e \in local[OSTCBPrioTbl[q]].events
          /\ tcb[OSTCBPrioTbl[q]].prio = q
      BY <1>1, <1>2, <2>1, WaitersInPend
    <3> QED BY <1>1, <3>1
  <2> QED BY <1>1, <2>1
<1>4. Min(Waiters(e)) \in Waiters(e) /\ \A p \in Waiters(e) : Min(Waiters(e)) <= p
  BY <1>1, WaitersChosen DEF TasksOK
<1>5. tcb[t].prio = Min(Waiters(e))
  BY <1>1, <1>2, <1>3 DEF HighestWaiter
<1>6. tcb[t].prio <= q /\ tcb[t].prio # q /\ tcb[t].prio \in Nat /\ q \in Nat
  BY <1>2, <1>3, <1>4, <1>5, PriosAreNat DEF TasksOK, EventsTyped, Waiters
<1> QED BY <1>6

(* Whoever a post, an abort or a deletion leaves waiting is less important *)
(* than whoever it makes ready (OS_EventTaskRdy, os_core.c), also when the *)
(* tasks wait at several events, time out or are suspended meanwhile.      *)
THEOREM HighestWakesFirst == Spec => (Plain => WakesInPriorityOrder)
<1>1. ASSUME EventsInv, EventsInv', Plain, [Next]_vars, NEW e \in Events,
             NEW t, t \notin Granted(e), t \in Granted(e)', NEW q \in Waiters(e)'
      PROVE  tcb[t].prio < q
  <2>1. TasksOK /\ PendsOK /\ TasksOK' /\ PendsOK'
    BY <1>1 DEF EventsInv, EventsOK
  <2>2. CASE Stay
    BY <1>1, <2>1, <2>2, GrantedStay
  <2>3. CASE Entering
    BY <1>1, <2>1, <2>3, GrantedEnters DEF Entering
  <2>4. ASSUME NEW x \in Events, NEW how \in {"OK", "ABORT"}, NEW S, NEW msg,
               Readies(x, S, msg, how)
        PROVE  tcb[t].prio < q
    <3>1. x = e /\ t \in Awakened(S)
      BY <1>1, <2>1, <2>4, GrantedAwakens DEF Readies
    <3> QED BY <1>1, <2>1, <2>4, <3>1, AwakensInOrder
  <2>5. CASE Leaving
    BY <1>1, <2>1, <2>5, GrantedLeaves DEF Leaving
  <2> QED BY <1>1, <2>2, <2>3, <2>4, <2>5, StepsOfPends DEF Awakening
<1>2. EventsInv /\ EventsInv' /\ Plain /\ [Next]_vars =>
        [\A e \in Events :
           LET goes == {t \in OSTCBList : /\ t \notin Granted(e) /\ t \in Granted(e)'
                                          /\ pc[t] \in {"pend", "wake"}}
           IN \A t \in goes : \A p \in Waiters(e)' : tcb[t].prio < p]_vars
  BY <1>1
<1>3. Plain /\ [Next]_vars => Plain'
  BY AppStays DEF Plain
<1> QED BY <1>2, <1>3, EventsAlwaysInv, PTL DEF Spec, WakesInPriorityOrder

-----------------------------------------------------------------------------
(* The units of the semaphores. A task that waits for several events has   *)
(* events to wait for as long as it waits: an application that does so     *)
(* deletes none. (Which unit a task returns with is told by the kind of    *)
(* the event in OSTCBEventPtr, and a deleted event has none.)              *)
EventsOutlive ==
  "OSEventPendMulti" \in app.calls => app.calls \cap {"OSSemDel", "OSMboxDel", "OSQDel"} = {}

KindsOK ==
  \A t \in Tasks : InPend(t) /\ local[t].call = "multi" =>
    \A e \in local[t].events : event[e].type \in {"sem", "mbox", "q"}

TypeStep(e) ==
  \/ event'[e].type = event[e].type \/ event[e].type = "unused"
  \/ app.calls \cap {"OSSemDel", "OSMboxDel", "OSQDel"} # {}

LEMMA EditTypes ==
  ASSUME TasksOK, NEW e \in Events, NEW b, event' = [event EXCEPT ![e] = b],
         \/ event[e].type = "unused"
         \/ app.calls \cap {"OSSemDel", "OSMboxDel", "OSQDel"} # {},
         NEW x \in Events
  PROVE  TypeStep(x)
BY DEF TasksOK, EventsTyped, TypeStep

LEMMA TypeSteps ==
  ASSUME EventsInv, Plain, [Next]_vars, NEW x \in Events
  PROVE  TypeStep(x)
<1>1. TasksOK /\ DOMAIN event = Events /\ \A e \in Events : DOMAIN event[e] = EventFields
  BY DEF EventsInv, TasksOK, EventsTyped
<1>2. ASSUME DataSame(x)
      PROVE  TypeStep(x)
  BY <1>2 DEF DataSame, TypeStep
<1>3. ASSUME NEW c, NEW es, Enters(c, es)
      PROVE  TypeStep(x)
  BY <1>2, <1>3 DEF Enters
<1>4. ASSUME NEW c, Leaves(c)
      PROVE  TypeStep(x)
  BY <1>2, <1>4 DEF Leaves
<1>5. CASE QuietStep \/ \E t \in Tasks : DelStep(t)
  BY <1>2, <1>5 DEF QuietStep, DelStep, DataSame
<1>6. CASE SemStep
  <2>1. ASSUME NEW e \in Events, NEW n, SemCounts(e, n)
        PROVE  TypeStep(x)
    BY <1>1, <2>1 DEF SemCounts, EventFields, TypeStep
  <2>2. ASSUME NEW e \in Events, NEW n, SemBegins(e, n) \/ SemGoes(e)
        PROVE  TypeStep(x)
    BY <1>1, <2>2, EditTypes DEF SemBegins, SemGoes
  <2>3. ASSUME NEW e, NEW S, NEW how, SemReadies(e, S, how)
        PROVE  TypeStep(x)
    BY <1>2, <2>3 DEF SemReadies, TypeStep
  <2> QED BY <1>3, <1>4, <1>6, <2>1, <2>2, <2>3 DEF SemStep, SemWaits, SemReturns
<1>7. ASSUME NEW e, NEW S, NEW m, NEW how, MsgReadies(e, S, m, how)
      PROVE  TypeStep(x)
  BY <1>2, <1>7 DEF MsgReadies, TypeStep
<1>8. CASE MboxStep
  <2>1. ASSUME NEW e \in Events, NEW m, MboxTakes(e) \/ MboxFills(e, m)
        PROVE  TypeStep(x)
    BY <1>1, <2>1 DEF MboxTakes, MboxFills, EventFields, TypeStep
  <2>2. ASSUME NEW e \in Events, NEW m, MboxBegins(e, m) \/ MboxGoes(e)
        PROVE  TypeStep(x)
    BY <1>1, <2>2, EditTypes DEF MboxBegins, MboxGoes
  <2> QED BY <1>3, <1>4, <1>7, <1>8, <2>1, <2>2 DEF MboxStep, MsgWaits, MsgReturns
<1>9. CASE QStep
  <2>1. ASSUME NEW e \in Events, QBegins(e) \/ QGoes(e)
        PROVE  TypeStep(x)
    BY <1>1, <2>1, EditTypes DEF QBegins, QGoes
  <2>2. ASSUME NEW e \in Events, NEW m, QTakes(e) \/ QFlushes(e) \/ QPuts(e, m)
        PROVE  TypeStep(x)
    BY <2>2 DEF QTakes, QFlushes, QPuts, TypeStep
  <2> QED BY <1>3, <1>4, <1>7, <1>9, <2>1, <2>2 DEF QStep, MsgWaits, MsgReturns
<1>10. CASE MultiStep
  <2>1. ASSUME NEW S, MultiTakes(S)
        PROVE  TypeStep(x)
    BY <1>1, <2>1 DEF MultiTakes, TakeAll, EventFields, TypeStep
  <2> QED BY <1>3, <1>4, <1>10, <2>1 DEF MultiStep, MultiWaits, MultiReturns
<1> QED BY <1>5, <1>6, <1>8, <1>9, <1>10, StepKinds

(* A pend on several events keeps its events' kinds.                       *)
LEMMA KindsKeep ==
  ASSUME EventsInv, Plain, EventsOutlive, KindsOK, [Next]_vars
  PROVE  KindsOK'
<1> SUFFICES ASSUME NEW t \in Tasks, InPend(t)', local'[t].call = "multi", NEW e \in local'[t].events
             PROVE  event'[e].type \in {"sem", "mbox", "q"}
  BY DEF KindsOK
<1>1. TasksOK /\ TasksOK' /\ e \in Events
  BY TasksKeep DEF EventsInv, TasksOK, TypesOK, Locals
<1>2. ASSUME InPend(t), local'[t] = local[t]
      PROVE  event'[e].type \in {"sem", "mbox", "q"}
  <2>1. event[e].type \in {"sem", "mbox", "q"} /\ local[t].call = "multi"
    BY <1>2 DEF KindsOK
  <2>2. app.calls \cap {"OSSemDel", "OSMboxDel", "OSQDel"} = {}
    BY <1>1, <2>1 DEF TasksOK, PendingOK, EventsOutlive
  <2> QED BY <1>1, <2>1, <2>2, TypeSteps DEF TypeStep
<1>3. CASE Stay
  BY <1>2, <1>3 DEF Stay, Keeps
<1>4. ASSUME NEW c, NEW es \in SUBSET Events, Enters(c, es)
      PROVE  event'[e].type \in {"sem", "mbox", "q"}
  <2>1. CASE t = c
    BY <1>1, <1>4, <2>1 DEF Enters, DataSame
  <2>2. CASE t # c
    BY <1>2, <1>4, <2>2 DEF Enters, OthersSame
  <2> QED BY <2>1, <2>2
<1>5. ASSUME NEW x, NEW S, NEW msg, NEW how, Readies(x, S, msg, how)
      PROVE  event'[e].type \in {"sem", "mbox", "q"}
  BY <1>2, <1>5 DEF Readies, Awakens, OthersSame
<1>6. ASSUME NEW d, Leaves(d)
      PROVE  event'[e].type \in {"sem", "mbox", "q"}
  BY <1>2, <1>6 DEF Leaves, OthersSame
<1> QED BY <1>3, <1>4, <1>5, <1>6, StepsOfPends DEF Entering, Awakening, Leaving

(* Of the tasks that an event made ready, those that owe a unit still do.  *)
LEMMA OwingTasks ==
  ASSUME TasksOK, PendsOK, KindsOK, EventsOutlive, NEW e \in Events, TypeStep(e), NEW t \in Granted(e)
  PROVE  (t \in SemGranted(e)) <=>
           (local[t].call = "sem" \/ (local[t].call = "multi" /\ event'[e].type = "sem"))
<1>1. t \in Tasks /\ InPend(t) /\ Woken(t) /\ tcb[t].eventPtr = e
  BY GrantedMeans DEF GrantedBy
<1>2. CASE local[t].call = "multi"
  <2>1. event[e].type \in {"sem", "mbox", "q"}
    BY <1>1, <1>2 DEF Woken, KindsOK
  <2>2. app.calls \cap {"OSSemDel", "OSMboxDel", "OSQDel"} = {}
    BY <1>1, <1>2 DEF TasksOK, PendingOK, EventsOutlive
  <2> QED BY <1>2, <2>1, <2>2 DEF TypeStep, SemGranted, IsSem
<1>3. CASE local[t].call # "multi"
  BY <1>3 DEF SemGranted
<1> QED BY <1>2, <1>3

SemHyp == /\ TasksOK /\ PendsOK /\ TasksOK' /\ PendsOK'
          /\ KindsOK /\ EventsOutlive /\ \A e \in Events : TypeStep(e)

LEMMA SemGrantedStays ==
  ASSUME SemHyp, \/ Stay \/ Entering, NEW e \in Events
  PROVE  SemGranted(e)' = SemGranted(e)
<1>1. TasksOK /\ PendsOK /\ TasksOK' /\ PendsOK' /\ KindsOK /\ EventsOutlive /\ TypeStep(e)
  BY DEF SemHyp
<1>2. Granted(e)' = Granted(e) /\ \A t \in Granted(e) : local'[t] = local[t]
  BY <1>1, GrantedStay, GrantedEnters DEF Entering
<1>3. \A t \in Granted(e) : t \in SemGranted(e)' <=> t \in SemGranted(e)
  BY <1>1, <1>2, OwingTasks DEF SemGranted, IsSem
<1>4. SemGranted(e) \subseteq Granted(e) /\ SemGranted(e)' \subseteq Granted(e)'
  BY DEF SemGranted
<1> QED BY <1>2, <1>3, <1>4

LEMMA SemGrantedLeaves ==
  ASSUME SemHyp, NEW d, Leaves(d), NEW e \in Events
  PROVE  SemGranted(e)' = SemGranted(e) \ {d}
<1>1. TasksOK /\ PendsOK /\ TasksOK' /\ PendsOK' /\ KindsOK /\ EventsOutlive /\ TypeStep(e)
  BY DEF SemHyp
<1>2. Granted(e)' = Granted(e) \ {d} /\ \A t \in Granted(e) \ {d} : local'[t] = local[t]
  BY <1>1, GrantedLeaves
<1>3. \A t \in Granted(e) \ {d} : t \in SemGranted(e)' <=> t \in SemGranted(e)
  BY <1>1, <1>2, OwingTasks DEF SemGranted, IsSem
<1>4. SemGranted(e) \subseteq Granted(e) /\ SemGranted(e)' \subseteq Granted(e)'
  BY DEF SemGranted
<1> QED BY <1>2, <1>3, <1>4

LEMMA SemGrantedAwakens ==
  ASSUME SemHyp, NEW x \in Events, NEW S, NEW msg, NEW how \in {"OK", "ABORT"},
         Readies(x, S, msg, how), NEW e \in Events
  PROVE  /\ SemGranted(e)' = IF e = x /\ how = "OK" /\ IsSem(x)
                             THEN SemGranted(e) \cup Awakened(S) ELSE SemGranted(e)
         /\ SemGranted(e) \cap Awakened(S) = {}
<1>1. TasksOK /\ PendsOK /\ TasksOK' /\ PendsOK' /\ KindsOK /\ EventsOutlive /\ TypeStep(e)
  BY DEF SemHyp
<1>2. Awakens(x, Awakened(S), msg, how) /\ Waiters(x) # {} /\ S \in {Waiters(x), HighestWaiter(x)}
  BY DEF Readies
<1>3. /\ Granted(e)' = IF e = x /\ how = "OK" THEN Granted(e) \cup Awakened(S) ELSE Granted(e)
      /\ Granted(e) \cap Awakened(S) = {}
      /\ \A t \in Granted(e) : local'[t] = local[t]
  BY <1>1, <1>2, GrantedAwakens
<1>4. \A t \in Granted(e) : t \in SemGranted(e)' <=> t \in SemGranted(e)
  BY <1>1, <1>3, OwingTasks DEF SemGranted, IsSem
<1>5. SemGranted(e) \subseteq Granted(e) /\ SemGranted(e)' \subseteq Granted(e)'
  BY DEF SemGranted
<1>6. ASSUME e = x, how = "OK", NEW t \in Awakened(S)
      PROVE  t \in SemGranted(e)' <=> IsSem(x)
  <2>1. /\ t \in Tasks /\ InPend(t) /\ tcb[t].prio \in Waiters(x) /\ x \in local[t].events
        /\ local'[t] = local[t] /\ t \in Granted(e)'
    BY <1>1, <1>2, <1>3, <1>6, AwakenedPrios DEF Awakens
  <2>2. PendOK(t) /\ Waiting(t)
    BY <1>1, <2>1 DEF PendsOK, PendOK, Woken
  <2>3. CASE local[t].call = "multi"
    <3>1. event[x].type \in {"sem", "mbox", "q"}
      BY <1>1, <2>1, <2>3 DEF KindsOK
    <3>2. app.calls \cap {"OSSemDel", "OSMboxDel", "OSQDel"} = {}
      BY <1>1, <2>1, <2>3 DEF TasksOK, PendingOK, EventsOutlive
    <3>3. event'[x].type = event[x].type
      BY <1>1, <1>6, <3>1, <3>2 DEF TypeStep
    <3> QED BY <1>6, <2>1, <2>3, <3>3 DEF SemGranted, IsSem
  <2>4. CASE local[t].call # "multi"
    <3>1. tcb[t].eventPtr = x /\ event[x].type = local[t].call
      BY <2>1, <2>2, <2>4 DEF PendOK, Waiting
    <3> QED BY <1>6, <2>1, <2>4, <3>1 DEF SemGranted, IsSem
  <2> QED BY <2>3, <2>4
<1> QED BY <1>3, <1>4, <1>5, <1>6

(* There are as many tasks as priorities they are found by.                *)
LEMMA AwakenedCount ==
  ASSUME TasksOK, NEW e \in Events, Waiters(e) # {}, NEW S, S \in {Waiters(e), HighestWaiter(e)}
  PROVE  /\ IsFiniteSet(Awakened(S)) /\ Cardinality(Awakened(S)) = Cardinality(S)
         /\ Cardinality(S) \in Nat
<1>1. S \in SUBSET Waiters(e)
  BY AwakenedPrios
<1>2. Waiters(e) \subseteq Prios /\ IsFiniteSet(Prios)
  BY CoreAssumption, FS_Interval DEF TasksOK, EventsTyped, Waiters, Prios
<1>3. IsFiniteSet(S) /\ Cardinality(S) \in Nat
  BY <1>1, <1>2, FS_Subset, FS_CardinalityType
<1>4. PICK f : f = [p \in S |-> OSTCBPrioTbl[p]]
  OBVIOUS
<1>5. f \in [S -> Awakened(S)] /\ \A t \in Awakened(S) : \E p \in S : f[p] = t
  BY <1>4 DEF Awakened
<1>6. \A p, q \in S : f[p] = f[q] => p = q
  BY <1>1, <1>4, WaitersInPend
<1>7. f \in Bijection(S, Awakened(S))
  BY <1>5, <1>6 DEF Bijection, Injection, Surjection, IsInjective
<1>8. ExistsBijection(S, Awakened(S))
  BY <1>7 DEF ExistsBijection
<1> QED BY <1>3, <1>8, FS_Bijection

LEMMA GrantedCount ==
  ASSUME TasksOK, NEW e
  PROVE  IsFiniteSet(SemGranted(e)) /\ Cardinality(SemGranted(e)) \in Nat
<1>1. SemGranted(e) \in SUBSET Tasks
  BY DEF SemGranted, Granted, TasksOK, TypesOK
<1> QED BY <1>1, CoreAssumption, FS_Subset, FS_CardinalityType

LEMMA JoinedCount ==
  ASSUME NEW A, NEW B, IsFiniteSet(A), IsFiniteSet(B), A \cap B = {}
  PROVE  Cardinality(A \cup B) = Cardinality(A) + Cardinality(B)
<1>1. Cardinality(A) \in Nat /\ Cardinality(B) \in Nat
  BY FS_CardinalityType
<1>2. Cardinality(A \cup B) = Cardinality(A) + Cardinality(B) - Cardinality(A \cap B)
  BY FS_Union
<1>3. Cardinality(A \cap B) = 0
  BY FS_EmptySet
<1> QED BY <1>1, <1>2, <1>3

SemCounted(e) ==
  /\ ~IsSem(e) => event[e].cnt = 0
  /\ units[e] = event[e].cnt + Cardinality(SemGranted(e))

SemOK == KindsOK /\ \A e \in Events : SemCounted(e)

(* An event whose count and whose debtors stay.                            *)
LEMMA SameCounted ==
  ASSUME NEW x \in Events, SemCounted(x), event'[x].type = event[x].type, event'[x].cnt = event[x].cnt,
         units'[x] = units[x], SemGranted(x)' = SemGranted(x)
  PROVE  SemCounted(x)'
BY DEF SemCounted, IsSem

(* One whose count changes with its units.                                 *)
LEMMA EditCounted ==
  ASSUME EventsInv, NEW e \in Events, NEW b, event' = [event EXCEPT ![e] = b], b.cnt \in Nat,
         b.type # "sem" => b.cnt = 0, \A x \in Events : SemCounted(x),
         units' = [units EXCEPT ![e] = (@ - event[e].cnt) + b.cnt],
         NEW x \in Events, SemGranted(x)' = SemGranted(x)
  PROVE  SemCounted(x)'
<1>1. /\ DOMAIN event = Events /\ units \in [Events -> Int] /\ event[x].cnt \in Nat
      /\ Cardinality(SemGranted(x)) \in Nat
  BY GrantedCount DEF EventsInv, TasksOK, EventsTyped, EventsOK, AvailOK, UnitsTyped
<1>2. CASE x = e
  <2>1. event'[x] = b /\ units'[x] = (units[x] - event[x].cnt) + b.cnt
    BY <1>1, <1>2
  <2>2. units[x] = event[x].cnt + Cardinality(SemGranted(x))
    BY DEF SemCounted
  <2>3. units'[x] = b.cnt + Cardinality(SemGranted(x))
    BY <1>1, <2>1, <2>2
  <2> QED BY <2>1, <2>3 DEF SemCounted, IsSem
<1>3. CASE x # e
  BY <1>1, <1>3 DEF SemCounted, IsSem
<1> QED BY <1>2, <1>3

LEMMA LeavesCounted ==
  ASSUME EventsInv, SemHyp, NEW t, Leaves(t), NEW x \in Events, SemCounted(x),
         units'[x] = IF t \in SemGranted(x) THEN units[x] - 1 ELSE units[x]
  PROVE  SemCounted(x)'
<1>1. event'[x].type = event[x].type /\ event'[x].cnt = event[x].cnt
  BY DEF Leaves, DataSame
<1>2. SemGranted(x)' = SemGranted(x) \ {t}
  BY SemGrantedLeaves
<1>3. /\ IsFiniteSet(SemGranted(x)) /\ Cardinality(SemGranted(x)) \in Nat /\ event[x].cnt \in Nat
      /\ units[x] \in Int
  BY GrantedCount DEF EventsInv, EventsOK, AvailOK, UnitsTyped
<1>4. PICK G : G = SemGranted(x)
  OBVIOUS
<1>5. Cardinality(G \ {t}) = IF t \in G THEN Cardinality(G) - 1 ELSE Cardinality(G)
  BY <1>3, <1>4, FS_RemoveElement
<1>6. units'[x] = event[x].cnt + Cardinality(G \ {t})
  BY <1>3, <1>4, <1>5 DEF SemCounted
<1> QED BY <1>1, <1>2, <1>4, <1>6 DEF SemCounted, IsSem

(* The end of a pend: the task was made ready by the event in its control  *)
(* block, or by none.                                                      *)
LEMMA EndedPend ==
  ASSUME TasksOK, PendsOK, NEW t \in Tasks, InPend(t), Over(t), NEW x \in Events
  PROVE  t \in Granted(x) <=> tcb[t].statPend = "OK" /\ x = tcb[t].eventPtr
<1>1. PendOK(t) /\ local[t].events \subseteq Events
  BY PendEvents DEF PendsOK
<1>2. Granted(x) = GrantedBy(x)
  BY GrantedMeans
<1>3. tcb[t].statPend = "OK" => Woken(t)
  BY <1>1 DEF PendOK, Waiting, Over, Listed
<1> QED BY <1>2, <1>3 DEF GrantedBy

LEMMA SemStepCounts ==
  ASSUME EventsInv, EventsInv', Plain, EventsOutlive, SemOK, SemHyp, SemStep, NEW x \in Events
  PROVE  SemCounted(x)'
<1>1. /\ TasksOK /\ PendsOK /\ units \in [Events -> Int] /\ SemCounted(x)
      /\ \A e \in Events : event[e].cnt \in Nat
      /\ DOMAIN event = Events /\ \A e \in Events : DOMAIN event[e] = EventFields
  BY DEF EventsInv, EventsOK, UnitsTyped, AvailOK, SemOK, TasksOK, EventsTyped
<1>2. ASSUME NEW e \in Events, SemWaits(e)
      PROVE  SemCounted(x)'
  <2>1. PICK c : Enters(c, {e}) /\ ~Available(e) /\ units' = units
    BY <1>2 DEF SemWaits
  <2>2. {e} \in SUBSET Events /\ \A y \in {e} : ~Available(y)
    BY <2>1
  <2>3. Entering
    BY <2>1, <2>2 DEF Entering
  <2>4. SemGranted(x)' = SemGranted(x) /\ DataSame(x)
    BY <2>1, <2>3, SemGrantedStays DEF Enters
  <2> QED BY <1>1, <2>1, <2>4, SameCounted DEF DataSame
<1>3. ASSUME NEW e \in Events, NEW b, Stay, event' = [event EXCEPT ![e] = b], b.cnt \in Nat,
             b.type # "sem" => b.cnt = 0, units' = [units EXCEPT ![e] = (@ - event[e].cnt) + b.cnt]
      PROVE  SemCounted(x)'
  BY <1>3, EditCounted, SemGrantedStays DEF SemOK
<1>4. ASSUME NEW e \in Events, SemGoes(e)
      PROVE  SemCounted(x)'
  <2>1. PICK b : b = EventClear
    OBVIOUS
  <2>2. b.cnt = 0 /\ b.cnt \in Nat /\ b.type # "sem"
    BY <2>1 DEF EventClear
  <2>3. (units[e] - event[e].cnt) + 0 = units[e] - event[e].cnt
    BY <1>1
  <2>4. units' = [units EXCEPT ![e] = (@ - event[e].cnt) + b.cnt]
    BY <1>1, <1>4, <2>2, <2>3 DEF SemGoes
  <2>5. Stay /\ event' = [event EXCEPT ![e] = b]
    BY <1>4, <2>1 DEF SemGoes
  <2> QED BY <1>3, <2>2, <2>4, <2>5
<1>5. ASSUME NEW e \in Events, NEW n \in Nat, SemCounts(e, n)
      PROVE  SemCounted(x)'
  <2>1. PICK b : b = [event[e] EXCEPT !.cnt = n]
    OBVIOUS
  <2>2. b.cnt = n /\ b.type = "sem" /\ event' = [event EXCEPT ![e] = b]
    BY <1>1, <1>5, <2>1 DEF SemCounts, EventFields, IsSem
  <2> QED BY <1>3, <1>5, <2>2 DEF SemCounts
<1>6. ASSUME NEW e \in Events, NEW n \in Nat, SemBegins(e, n)
      PROVE  SemCounted(x)'
  <2>1. SemFresh(n).cnt = n /\ SemFresh(n).type = "sem"
    BY DEF SemFresh, EventClear
  <2>2. event[e].cnt = 0
    BY <1>6 DEF SemBegins, SemOK, SemCounted, IsSem
  <2>3. (units[e] - 0) + n = units[e] + n
    BY <1>1
  <2>4. units' = [units EXCEPT ![e] = (@ - event[e].cnt) + SemFresh(n).cnt]
    BY <1>1, <1>6, <2>1, <2>2, <2>3 DEF SemBegins
  <2> QED BY <1>3, <1>6, <2>1, <2>4, ZenonT(40) DEF SemBegins
<1>7. ASSUME NEW e \in Events, NEW S, NEW how \in {"OK", "ABORT"}, SemReadies(e, S, how)
      PROVE  SemCounted(x)'
  <2>1. Readies(e, S, NoMsg, how) /\ IsSem(e)
    BY <1>7 DEF SemReadies
  <2>2. /\ SemGranted(x)' = IF x = e /\ how = "OK" THEN SemGranted(x) \cup Awakened(S) ELSE SemGranted(x)
        /\ SemGranted(x) \cap Awakened(S) = {}
    BY <2>1, SemGrantedAwakens
  <2>3. IsFiniteSet(Awakened(S)) /\ Cardinality(Awakened(S)) = Cardinality(S) /\ Cardinality(S) \in Nat
    BY <1>1, <2>1, AwakenedCount DEF Readies
  <2>4. IsFiniteSet(SemGranted(x)) /\ Cardinality(SemGranted(x)) \in Nat
    BY <1>1, GrantedCount
  <2>5. \/ event'[x].cnt = event[x].cnt /\ event'[x].type = event[x].type
        \/ x = e /\ event[e].cnt = 0 /\ event'[e].cnt = 0
    <3>1. ~Available(e)
      BY <2>1 DEF EventsInv, EventsOK, AvailOK, Readies
    <3>2. event[e].cnt = 0
      BY <1>1, <2>1, <3>1 DEF Available
    <3>3. EventClear.cnt = 0
      BY DEF EventClear
    <3> QED BY <2>1, <3>2, <3>3 DEF Readies, Awakens, DataSame
  <2>6. event'[x].cnt = event[x].cnt /\ (event'[x].type # "sem" => event'[x].cnt = 0)
    BY <1>1, <2>5 DEF SemCounted, IsSem
  <2>7. CASE x = e /\ how = "OK"
    <3>1. Cardinality(SemGranted(x) \cup Awakened(S)) = Cardinality(SemGranted(x)) + Cardinality(S)
      BY <2>2, <2>3, <2>4, JoinedCount
    <3>2. units'[x] = units[x] + Cardinality(S)
      BY <1>1, <1>7, <2>7 DEF SemReadies
    <3>3. units'[x] = event[x].cnt + Cardinality(SemGranted(x) \cup Awakened(S))
      BY <1>1, <2>3, <2>4, <3>1, <3>2 DEF SemCounted
    <3> QED BY <2>2, <2>6, <2>7, <3>3 DEF SemCounted, IsSem
  <2>8. CASE ~(x = e /\ how = "OK")
    <3>1. units'[x] = units[x] /\ SemGranted(x)' = SemGranted(x)
      BY <1>1, <1>7, <2>2, <2>8 DEF SemReadies
    <3> QED BY <1>1, <2>6, <3>1 DEF SemCounted, IsSem
  <2> QED BY <2>7, <2>8
<1>8. ASSUME NEW c \in Tasks, NEW e \in local[c].events, SemReturns(c, e)
      PROVE  SemCounted(x)'
  <2>1. /\ InPend(c) /\ Over(c) /\ Leaves(c) /\ e \in Events /\ local[c].call = "sem"
        /\ local[c].events = {tcb[c].eventPtr}
    BY <1>1, <1>8, PendEvents DEF SemReturns, Leaves, PendsOK, PendOK
  <2>2. c \in Granted(x) <=> tcb[c].statPend = "OK" /\ x = e
    BY <1>1, <1>8, <2>1, EndedPend
  <2>3. c \in SemGranted(x) <=> tcb[c].statPend = "OK" /\ x = e
    BY <2>1, <2>2 DEF SemGranted
  <2>4. units'[x] = IF c \in SemGranted(x) THEN units[x] - 1 ELSE units[x]
    BY <1>1, <1>8, <2>1, <2>3 DEF SemReturns
  <2> QED BY <1>1, <2>1, <2>4, LeavesCounted
<1> QED BY <1>2, <1>4, <1>5, <1>6, <1>7, <1>8 DEF SemStep

(* The calls of mailboxes and queues have no units, and the blocks they    *)
(* make and free have no count.                                            *)
LEMMA CountsIdle ==
  ASSUME EventsInv, SemOK, MboxStep \/ QStep, NEW x \in Events
  PROVE  event'[x].cnt = event[x].cnt /\ (event'[x].type # "sem" => event'[x].cnt = 0)
<1>1. /\ SemCounted(x) /\ \A e \in Events : ~IsSem(e) => event[e].cnt = 0
      /\ DOMAIN event = Events /\ \A e \in Events : DOMAIN event[e] = EventFields
  BY DEF SemOK, SemCounted, EventsInv, TasksOK, EventsTyped
<1>2. ASSUME DataSame(x)
      PROVE  event'[x].cnt = event[x].cnt /\ (event'[x].type # "sem" => event'[x].cnt = 0)
  BY <1>1, <1>2 DEF DataSame, SemCounted, IsSem
<1>3. ASSUME NEW e \in Events, ~IsSem(e), NEW b, event' = [event EXCEPT ![e] = b], b.cnt = 0
      PROVE  event'[x].cnt = event[x].cnt /\ (event'[x].type # "sem" => event'[x].cnt = 0)
  BY <1>1, <1>3 DEF SemCounted, IsSem
<1>4. ASSUME NEW e \in Events, NEW S, NEW m, NEW how, MsgReadies(e, S, m, how)
      PROVE  event'[x].cnt = event[x].cnt /\ (event'[x].type # "sem" => event'[x].cnt = 0)
  <2>1. DataSame(x) \/ (x = e /\ event'[e] = EventClear)
    BY <1>4 DEF MsgReadies, Readies, Awakens
  <2>2. event[e].cnt = 0
    BY <1>1, <1>4 DEF MsgReadies, IsMbox, IsQ, IsSem
  <2> QED BY <1>2, <2>1, <2>2, FreshCounts
<1>5. ASSUME NEW e \in Events, MsgWaits(e)
      PROVE  event'[x].cnt = event[x].cnt /\ (event'[x].type # "sem" => event'[x].cnt = 0)
  BY <1>2, <1>5 DEF MsgWaits, Enters
<1>6. ASSUME NEW c, MsgReturns(c)
      PROVE  event'[x].cnt = event[x].cnt /\ (event'[x].type # "sem" => event'[x].cnt = 0)
  BY <1>2, <1>6 DEF MsgReturns, Leaves
<1>7. CASE MboxStep
  <2>1. ASSUME NEW e \in Events, NEW m, MboxTakes(e) \/ MboxFills(e, m)
        PROVE  event'[x].cnt = event[x].cnt /\ (event'[x].type # "sem" => event'[x].cnt = 0)
    <3>1. event'[x].cnt = event[x].cnt /\ event'[x].type = event[x].type
      BY <1>1, <2>1 DEF MboxTakes, MboxFills, EventFields
    <3> QED BY <1>1, <3>1 DEF IsSem
  <2>2. ASSUME NEW e \in Events, NEW m, MboxBegins(e, m) \/ MboxGoes(e)
        PROVE  event'[x].cnt = event[x].cnt /\ (event'[x].type # "sem" => event'[x].cnt = 0)
    <3>1. ~IsSem(e) /\ \E b : event' = [event EXCEPT ![e] = b] /\ b.cnt = 0
      BY <2>2, FreshCounts DEF MboxBegins, MboxGoes, IsSem, IsMbox
    <3> QED BY <1>3, <3>1
  <2> QED BY <1>4, <1>5, <1>6, <1>7, <2>1, <2>2 DEF MboxStep
<1>8. CASE QStep
  <2>1. ASSUME NEW e \in Events, QBegins(e) \/ QGoes(e)
        PROVE  event'[x].cnt = event[x].cnt /\ (event'[x].type # "sem" => event'[x].cnt = 0)
    <3>1. ~IsSem(e) /\ \E b : event' = [event EXCEPT ![e] = b] /\ b.cnt = 0
      BY <2>1, FreshCounts DEF QBegins, QGoes, IsSem, IsQ
    <3> QED BY <1>3, <3>1
  <2>2. ASSUME NEW e \in Events, NEW m, QTakes(e) \/ QFlushes(e) \/ QPuts(e, m)
        PROVE  event'[x].cnt = event[x].cnt /\ (event'[x].type # "sem" => event'[x].cnt = 0)
    BY <1>2, <2>2 DEF QTakes, QFlushes, QPuts, DataSame
  <2> QED BY <1>4, <1>5, <1>6, <1>8, <2>1, <2>2 DEF QStep
<1> QED BY <1>7, <1>8

LEMMA MessageGrants ==
  ASSUME SemHyp, EventsInv, Plain, [Next]_vars, MboxStep \/ QStep, NEW x \in Events, SemCounted(x),
         units' = units, event'[x].cnt = event[x].cnt, event'[x].type # "sem" => event'[x].cnt = 0
  PROVE  SemCounted(x)'
<1>1. TasksOK /\ PendsOK
  BY DEF EventsInv, EventsOK
<1>2. ASSUME SemGranted(x)' = SemGranted(x)
      PROVE  SemCounted(x)'
  BY <1>2 DEF SemCounted, IsSem
<1>3. ASSUME NEW e \in Events, NEW S, NEW m, NEW how \in {"OK", "ABORT"}, MsgReadies(e, S, m, how)
      PROVE  SemCounted(x)'
  BY <1>2, <1>3, SemGrantedAwakens DEF MsgReadies, IsSem, IsMbox, IsQ
<1>4. ASSUME NEW c \in Tasks, MsgReturns(c)
      PROVE  SemCounted(x)'
  <2>1. local[c].call \in {"mbox", "q"} /\ Leaves(c)
    BY <1>4 DEF MsgReturns
  <2>2. c \notin SemGranted(x)
    BY <2>1 DEF SemGranted
  <2>3. SemGranted(x)' = SemGranted(x)
    BY <2>1, <2>2, SemGrantedLeaves
  <2> QED BY <1>2, <2>3
<1>5. ASSUME NEW e \in Events, MsgWaits(e)
      PROVE  SemCounted(x)'
  <2>1. PICK c : Enters(c, {e}) /\ ~Available(e)
    BY <1>5 DEF MsgWaits
  <2>2. {e} \in SUBSET Events /\ \A y \in {e} : ~Available(y)
    BY <2>1
  <2>3. Entering
    BY <2>1, <2>2 DEF Entering
  <2> QED BY <1>2, <2>3, SemGrantedStays
<1>6. CASE Stay
  BY <1>2, <1>6, SemGrantedStays
<1>7. CASE MboxStep
  <2>1. ASSUME NEW e \in Events, NEW m,
               MboxTakes(e) \/ MboxGoes(e) \/ MboxFills(e, m) \/ MboxBegins(e, m)
        PROVE  Stay
    BY <2>1 DEF MboxTakes, MboxGoes, MboxFills, MboxBegins
  <2> QED BY <1>3, <1>4, <1>5, <1>6, <1>7, <2>1 DEF MboxStep
<1>8. CASE QStep
  <2>1. ASSUME NEW e \in Events, NEW m,
               QTakes(e) \/ QFlushes(e) \/ QBegins(e) \/ QGoes(e) \/ QPuts(e, m)
        PROVE  Stay
    BY <2>1 DEF QTakes, QFlushes, QBegins, QGoes, QPuts
  <2> QED BY <1>3, <1>4, <1>5, <1>6, <1>8, <2>1 DEF QStep
<1> QED BY <1>7, <1>8

LEMMA MultiStepCounts ==
  ASSUME EventsInv, SemOK, SemHyp, MultiStep, NEW x \in Events
  PROVE  SemCounted(x)'
<1>1. /\ TasksOK /\ PendsOK /\ units \in [Events -> Int] /\ SemCounted(x) /\ event[x].cnt \in Nat
      /\ DOMAIN event = Events /\ DOMAIN event[x] = EventFields
  BY DEF EventsInv, EventsOK, UnitsTyped, AvailOK, SemOK, TasksOK, EventsTyped
<1>2. ASSUME NEW es \in SUBSET Events, MultiWaits(es)
      PROVE  SemCounted(x)'
  <2>1. PICK c : Enters(c, es) /\ units' = units
    BY <1>2 DEF MultiWaits
  <2>2. Entering
    BY <1>2, <2>1 DEF MultiWaits, Entering
  <2>3. SemGranted(x)' = SemGranted(x) /\ DataSame(x)
    BY <2>1, <2>2, SemGrantedStays DEF Enters
  <2> QED BY <1>1, <2>1, <2>3, SameCounted DEF DataSame
<1>3. ASSUME NEW S \in SUBSET Events, MultiTakes(S)
      PROVE  SemCounted(x)'
  <2>1. /\ event'[x] = IF x \notin S \/ IsQ(x) THEN event[x]
                       ELSE IF IsSem(x) THEN [event[x] EXCEPT !.cnt = @ - 1]
                       ELSE [event[x] EXCEPT !.ptr = NoMsg]
        /\ units'[x] = IF x \in S /\ IsSem(x) THEN units[x] - 1 ELSE units[x]
        /\ SemGranted(x)' = SemGranted(x)
    BY <1>3, SemGrantedStays DEF MultiTakes, TakeAll
  <2>2. CASE x \in S /\ IsSem(x)
    <3>1. ~IsQ(x)
      BY <2>2 DEF IsSem, IsQ
    <3>2. event'[x].cnt = event[x].cnt - 1 /\ event'[x].type = event[x].type
      BY <1>1, <2>1, <2>2, <3>1 DEF EventFields
    <3>3. Cardinality(SemGranted(x)) \in Nat /\ units[x] \in Int
      BY <1>1, GrantedCount
    <3>4. units'[x] = event'[x].cnt + Cardinality(SemGranted(x))
      BY <1>1, <2>1, <2>2, <3>2, <3>3 DEF SemCounted
    <3> QED BY <2>1, <2>2, <3>2, <3>4 DEF SemCounted, IsSem
  <2>3. CASE ~(x \in S /\ IsSem(x))
    <3>1. event'[x].cnt = event[x].cnt /\ event'[x].type = event[x].type
      BY <1>1, <2>1, <2>3 DEF EventFields
    <3> QED BY <1>1, <2>1, <2>3, <3>1, SameCounted
  <2> QED BY <2>2, <2>3
<1>4. ASSUME NEW c \in Tasks, MultiReturns(c)
      PROVE  SemCounted(x)'
  <2>1. /\ InPend(c) /\ Over(c) /\ Leaves(c) /\ local[c].call = "multi"
    BY <1>4 DEF MultiReturns, Leaves
  <2>2. c \in Granted(x) <=> tcb[c].statPend = "OK" /\ x = tcb[c].eventPtr
    BY <1>1, <1>4, <2>1, EndedPend
  <2>3. c \in SemGranted(x) <=> tcb[c].statPend = "OK" /\ x = tcb[c].eventPtr /\ IsSem(x)
    BY <2>1, <2>2 DEF SemGranted
  <2>4. units'[x] = IF c \in SemGranted(x) THEN units[x] - 1 ELSE units[x]
    BY <1>1, <1>4, <2>3 DEF MultiReturns
  <2> QED BY <1>1, <2>1, <2>4, LeavesCounted
<1> QED BY <1>2, <1>3, <1>4 DEF MultiStep

LEMMA SemKeep ==
  ASSUME EventsInv, EventsInv', Plain, EventsOutlive, SemOK, [Next]_vars
  PROVE  SemOK'
<1>1. SemHyp
  BY TypeSteps DEF EventsInv, EventsOK, SemOK, SemHyp
<1>2. KindsOK'
  BY KindsKeep DEF SemOK
<1>3. ASSUME NEW x \in Events
      PROVE  SemCounted(x)'
  <2>1. SemCounted(x) /\ units \in [Events -> Int]
    BY DEF SemOK, EventsInv, EventsOK, UnitsTyped
  <2>2. CASE QuietStep
    <3>1. SemGranted(x)' = SemGranted(x)
      BY <1>1, <2>2, SemGrantedStays DEF QuietStep
    <3>2. event' = event /\ units' = units
      BY <2>2 DEF QuietStep, dataVars
    <3> QED BY <2>1, <3>1, <3>2, SameCounted
  <2>3. ASSUME NEW t \in Tasks, DelStep(t)
        PROVE  SemCounted(x)'
    <3>1. units'[x] = (IF t \in SemGranted(x) THEN units[x] - 1 ELSE units[x]) /\ DataSame(x)
      BY <2>3 DEF DelStep
    <3>2. CASE InPend(t)
      BY <1>1, <2>1, <2>3, <3>1, <3>2, LeavesCounted DEF DelStep
    <3>3. CASE ~InPend(t)
      <4>1. t \notin SemGranted(x)
        BY <1>1, <3>3, GrantedMeans DEF SemHyp, SemGranted, GrantedBy
      <4>2. SemGranted(x)' = SemGranted(x)
        BY <1>1, <2>3, <3>3, SemGrantedStays DEF DelStep
      <4> QED BY <2>1, <3>1, <4>1, <4>2, SameCounted DEF DataSame
    <3> QED BY <3>2, <3>3
  <2>4. CASE SemStep
    BY <1>1, <2>4, SemStepCounts
  <2>5. CASE (MboxStep \/ QStep) /\ units' = units
    BY <1>1, <2>1, <2>5, CountsIdle, MessageGrants
  <2>6. CASE MultiStep
    BY <1>1, <2>6, MultiStepCounts
  <2> QED BY <2>2, <2>3, <2>4, <2>5, <2>6, StepKinds
<1> QED BY <1>2, <1>3 DEF SemOK

LEMMA SemStart ==
  ASSUME Init, Plain
  PROVE  SemOK
<1>1. KindsOK
  BY DEF Init, InitTCBList, KindsOK, InPend, Pending
<1>2. ASSUME NEW e \in Events
      PROVE  SemCounted(e)
  <2>1. app.kind[e] \in EventKinds \ {"mutex"} /\ event[e] = EventOf(app.kind[e]) /\ units[e] = 0
    BY <1>2, AppsAssumption DEF Init, Plain
  <2>2. event[e].cnt = 0
    BY <2>1 DEF EventOf, EventKinds, SemFresh, MboxFresh, QFresh, EventClear
  <2>3. \A t \in OSTCBList : pc[t] = "run"
    BY AppsAssumption DEF Init, InitTCBList
  <2>4. SemGranted(e) = {}
    BY <2>3 DEF SemGranted, Granted
  <2> QED BY <2>1, <2>2, <2>4, FS_EmptySet DEF SemCounted
<1> QED BY <1>1, <1>2 DEF SemOK

LEMMA UnitsInv == Spec => [](Plain /\ EventsOutlive => SemOK)
<1>1. Init => (Plain /\ EventsOutlive => SemOK)
  BY SemStart
<1>2. /\ Plain => EventsInv
      /\ (Plain => EventsInv)'
      /\ Plain /\ EventsOutlive => SemOK
      /\ [Next]_vars
      => (Plain /\ EventsOutlive => SemOK)'
  <2> SUFFICES ASSUME Plain => EventsInv, Plain' => EventsInv', Plain /\ EventsOutlive => SemOK,
                      [Next]_vars, Plain', EventsOutlive'
               PROVE  SemOK'
    OBVIOUS
  <2>1. Plain /\ EventsOutlive
    BY AppStays DEF Plain, EventsOutlive
  <2> QED BY <2>1, SemKeep
<1> QED BY <1>1, <1>2, EventsAlwaysInv, PTL DEF Spec

(* No unit given to a semaphore is lost or doubled, under every            *)
(* application that leaves mutexes and changes of priority alone, keeps    *)
(* its events if it waits for several, and deletes one only while nobody   *)
(* else is on the way to it (os_sem.c, OSEventPendMulti).                  *)
THEOREM UnitsConserved == Spec => [](Plain /\ EventsOutlive => SemUnitsConserved)
<1>1. SemOK => SemUnitsConserved
  BY DEF SemOK, SemCounted, SemUnitsConserved
<1> QED BY <1>1, UnitsInv, PTL

-----------------------------------------------------------------------------
(* Counting messages. The cells of the sequences of c that hold m:         *)
Contents == [Events -> {s \in Seq(Msgs) : Len(s) <= QSize}]
Cells(c, m) ==
  {x \in Events \X (1..QSize) : x[2] <= Len(c[x[1]]) /\ c[x[1]][x[2]] = m}

LEMMA CellsCount ==
  ASSUME NEW c, NEW m
  PROVE  IsFiniteSet(Cells(c, m)) /\ Cardinality(Cells(c, m)) \in Nat
<1>1. IsFiniteSet(Events) /\ IsFiniteSet(1..QSize)
  BY CoreAssumption, QAssumption, FS_Interval
<1>2. IsFiniteSet(Events \X (1..QSize))
  BY <1>1, FS_Product
<1>3. Cells(c, m) \in SUBSET (Events \X (1..QSize))
  BY DEF Cells
<1> QED BY <1>2, <1>3, FS_Subset, FS_CardinalityType

LEMMA SameCount ==
  ASSUME NEW S, NEW T, IsFiniteSet(S), NEW f \in [S -> T],
         \A x, y \in S : f[x] = f[y] => x = y, \A t \in T : \E x \in S : f[x] = t
  PROVE  IsFiniteSet(T) /\ Cardinality(T) = Cardinality(S)
<1>1. f \in Bijection(S, T)
  BY DEF Bijection, Injection, Surjection, IsInjective
<1>2. ExistsBijection(S, T)
  BY <1>1 DEF ExistsBijection
<1> QED BY <1>2, FS_Bijection

LEMMA CellIn ==
  ASSUME NEW c \in Contents, NEW m, NEW e \in Events, NEW i \in Nat \ {0}
  PROVE  <<e, i>> \in Cells(c, m) <=> i <= Len(c[e]) /\ c[e][i] = m
<1>1. Len(c[e]) \in Nat /\ Len(c[e]) <= QSize /\ QSize \in Nat
  BY QAssumption DEF Contents
<1>2. i <= Len(c[e]) => i \in 1..QSize
  BY <1>1
<1> QED BY <1>2 DEF Cells

LEMMA CellForm ==
  ASSUME NEW c, NEW m, NEW x \in Cells(c, m)
  PROVE  /\ x = <<x[1], x[2]>> /\ x[1] \in Events /\ x[2] \in Nat \ {0}
         /\ x[2] <= Len(c[x[1]]) /\ c[x[1]][x[2]] = m
BY QAssumption DEF Cells

(* The first message of each queue of S is taken.                          *)
Tails(c, d, S) ==
  /\ c \in Contents /\ d \in Contents /\ S \in SUBSET Events
  /\ \A e \in S : c[e] # <<>> /\ d[e] = Tail(c[e])
  /\ \A e \in Events \ S : d[e] = c[e]

LEMMA CellsOfTails ==
  ASSUME NEW c, NEW d, NEW m, NEW S, Tails(c, d, S)
  PROVE  Cardinality(Cells(c, m)) =
           Cardinality(Cells(d, m)) + Cardinality({e \in S : Head(c[e]) = m})
<1> USE DEF Tails
<1>1. PICK H : H = {e \in S : Head(c[e]) = m}
  OBVIOUS
<1>2. PICK F : F = {<<e, 1>> : e \in H}
  OBVIOUS
<1>3. PICK C, D : C = Cells(c, m) /\ D = Cells(d, m)
  OBVIOUS
<1>4. \A e \in S : /\ Len(c[e]) \in Nat \ {0} /\ Head(c[e]) = c[e][1] /\ Len(d[e]) = Len(c[e]) - 1
                   /\ \A i \in 1..Len(c[e]) - 1 : d[e][i] = c[e][i + 1]
  <2> SUFFICES ASSUME NEW e \in S
               PROVE  /\ Len(c[e]) \in Nat \ {0} /\ Head(c[e]) = c[e][1] /\ Len(d[e]) = Len(c[e]) - 1
                      /\ \A i \in 1..Len(c[e]) - 1 : d[e][i] = c[e][i + 1]
    OBVIOUS
  <2>1. PICK s : s = c[e]
    OBVIOUS
  <2>2. s \in Seq(Msgs) /\ s # <<>> /\ d[e] = Tail(s)
    BY <2>1 DEF Contents
  <2>3. Len(s) \in Nat \ {0} /\ Len(Tail(s)) = Len(s) - 1
    BY <2>2
  <2>4. \A i \in 1..Len(s) - 1 : Tail(s)[i] = s[i + 1]
    BY <2>2, <2>3
  <2> QED BY <2>1, <2>2, <2>3, <2>4
<1>5. \A e \in S : \A i \in Nat \ {0} : <<e, i>> \in D <=> <<e, i + 1>> \in C
  <2> SUFFICES ASSUME NEW e \in S, NEW i \in Nat \ {0}
               PROVE  <<e, i>> \in D <=> <<e, i + 1>> \in C
    OBVIOUS
  <2>1. <<e, i>> \in D <=> i <= Len(d[e]) /\ d[e][i] = m
    BY <1>3, CellIn
  <2>2. i + 1 \in Nat \ {0}
    OBVIOUS
  <2>3. <<e, i + 1>> \in C <=> i + 1 <= Len(c[e]) /\ c[e][i + 1] = m
    BY <1>3, <2>2, CellIn
  <2>4. i <= Len(d[e]) <=> i + 1 <= Len(c[e])
    BY <1>4
  <2>5. i <= Len(d[e]) => d[e][i] = c[e][i + 1]
    BY <1>4
  <2> QED BY <2>1, <2>3, <2>4, <2>5
<1>6. \A e \in Events \ S : \A i \in Nat \ {0} : <<e, i>> \in D <=> <<e, i>> \in C
  <2> SUFFICES ASSUME NEW e \in Events \ S, NEW i \in Nat \ {0}
               PROVE  <<e, i>> \in D <=> <<e, i>> \in C
    OBVIOUS
  <2>1. <<e, i>> \in D <=> i <= Len(d[e]) /\ d[e][i] = m
    BY <1>3, CellIn
  <2>2. <<e, i>> \in C <=> i <= Len(c[e]) /\ c[e][i] = m
    BY <1>3, CellIn
  <2> QED BY <2>1, <2>2
<1>7. \A e \in S : <<e, 1>> \in C <=> e \in H
  <2> SUFFICES ASSUME NEW e \in S PROVE <<e, 1>> \in C <=> e \in H
    OBVIOUS
  <2>1. PICK i : i = 1
    OBVIOUS
  <2>2. i \in Nat \ {0} /\ e \in Events
    BY <2>1
  <2>3. <<e, i>> \in C <=> i <= Len(c[e]) /\ c[e][i] = m
    BY <1>3, <2>2, CellIn
  <2>4. i <= Len(c[e]) /\ (Head(c[e]) = c[e][i])
    BY <1>4, <2>1
  <2> QED BY <1>1, <2>1, <2>3, <2>4
<1>8. F \in SUBSET C
  BY <1>1, <1>2, <1>7
<1>9. IsFiniteSet(C) /\ IsFiniteSet(D) /\ IsFiniteSet(H)
  BY <1>1, <1>3, CellsCount, CoreAssumption, FS_Subset
<1>10. Cardinality(F) = Cardinality(H) /\ IsFiniteSet(F)
  <2>1. PICK f : f = [e \in H |-> <<e, 1>>]
    OBVIOUS
  <2>2. f \in [H -> F] /\ \A t \in F : \E e \in H : f[e] = t
    BY <1>2, <2>1
  <2>3. \A x, y \in H : f[x] = f[y] => x = y
    BY <2>1
  <2> QED BY <1>9, <2>2, <2>3, SameCount
<1>11. Cardinality(C \ F) = Cardinality(D)
  <2>1. PICK f : f = [x \in D |-> IF x[1] \in S THEN <<x[1], x[2] + 1>> ELSE x]
    OBVIOUS
  <2>2. ASSUME NEW x \in D
        PROVE  /\ x = <<x[1], x[2]>> /\ x[1] \in Events /\ x[2] \in Nat \ {0}
    BY <1>3, CellForm
  <2>3. ASSUME NEW x \in D
        PROVE  f[x] \in C \ F
    <3>1. CASE x[1] \in S
      <4>1. <<x[1], x[2] + 1>> \in C
        BY <1>5, <2>2, <3>1
      <4>2. x[2] + 1 # 1
        BY <2>2
      <4> QED BY <1>2, <2>1, <3>1, <4>1, <4>2
    <3>2. CASE x[1] \notin S
      BY <1>1, <1>2, <1>6, <2>1, <2>2, <3>2
    <3> QED BY <3>1, <3>2
  <2>4. ASSUME NEW x \in D, NEW y \in D, f[x] = f[y]
        PROVE  x = y
    <3>1. f[x][1] = x[1] /\ f[y][1] = y[1]
      BY <2>1
    <3>2. x[1] = y[1]
      BY <2>4, <3>1
    <3>3. CASE x[1] \in S
      <4>1. f[x][2] = x[2] + 1 /\ f[y][2] = y[2] + 1
        BY <2>1, <3>2, <3>3
      <4>2. x[2] + 1 = y[2] + 1
        BY <2>4, <4>1
      <4>3. x[2] = y[2]
        BY <2>2, <4>2
      <4> QED BY <2>2, <3>2, <4>3
    <3>4. CASE x[1] \notin S
      BY <2>1, <2>4, <3>2, <3>4
    <3> QED BY <3>3, <3>4
  <2>5. ASSUME NEW y \in C \ F
        PROVE  \E x \in D : f[x] = y
    <3>1. y = <<y[1], y[2]>> /\ y[1] \in Events /\ y[2] \in Nat \ {0}
      BY <1>3, CellForm
    <3>2. CASE y[1] \in S
      <4>1. y[2] # 1
        BY <1>2, <1>7, <2>5, <3>1, <3>2
      <4>2. PICK i : i = y[2] - 1
        OBVIOUS
      <4>3. i \in Nat \ {0} /\ i + 1 = y[2]
        BY <3>1, <4>1, <4>2
      <4>4. <<y[1], i>> \in D
        BY <1>5, <2>5, <3>1, <3>2, <4>3
      <4>5. f[<<y[1], i>>] = <<y[1], i + 1>>
        BY <2>1, <3>2, <4>4
      <4> QED BY <3>1, <4>3, <4>4, <4>5
    <3>3. CASE y[1] \notin S
      <4>1. y \in D
        BY <1>6, <2>5, <3>1, <3>3
      <4> QED BY <2>1, <3>3, <4>1
    <3> QED BY <3>2, <3>3
  <2>6. f \in [D -> C \ F]
    BY <2>1, <2>3
  <2> QED BY <1>9, <2>4, <2>5, <2>6, SameCount
<1>12. Cardinality(C) = Cardinality(C \ F) + Cardinality(F)
  <2>1. C = (C \ F) \cup F /\ (C \ F) \cap F = {} /\ (C \ F) \in SUBSET C
    BY <1>8
  <2>2. IsFiniteSet(C \ F)
    BY <1>9, <2>1, FS_Subset
  <2> QED BY <1>10, <2>1, <2>2, JoinedCount
<1> QED BY <1>1, <1>3, <1>10, <1>11, <1>12

(* A message is put behind the others.                                     *)
Appends(c, d, e, k) ==
  /\ c \in Contents /\ d \in Contents /\ e \in Events
  /\ d[e] = Append(c[e], k) /\ \A x \in Events \ {e} : d[x] = c[x]

LEMMA CellsOfAppend ==
  ASSUME NEW c, NEW d, NEW m, NEW k, NEW e, Appends(c, d, e, k)
  PROVE  Cardinality(Cells(d, m)) =
           IF k = m THEN Cardinality(Cells(c, m)) + 1 ELSE Cardinality(Cells(c, m))
<1> USE DEF Appends
<1>1. PICK n : n = Len(c[e]) + 1
  OBVIOUS
<1>2. /\ c[e] \in Seq(Msgs) /\ n \in Nat \ {0} /\ Len(d[e]) = n /\ d[e][n] = k
      /\ \A i \in 1..n - 1 : d[e][i] = c[e][i]
  <2>1. PICK s : s = c[e]
    OBVIOUS
  <2>2. s \in Seq(Msgs)
    BY <2>1 DEF Contents
  <2>3. Len(Append(s, k)) = Len(s) + 1 /\ Append(s, k)[Len(s) + 1] = k
        /\ \A i \in 1..Len(s) : Append(s, k)[i] = s[i]
    BY <2>2
  <2> QED BY <1>1, <2>1, <2>2, <2>3
<1>3. \A x \in Events : \A i \in Nat \ {0} :
        <<x, i>> \in Cells(d, m) <=> \/ <<x, i>> \in Cells(c, m)
                                     \/ x = e /\ i = n /\ k = m
  <2> SUFFICES ASSUME NEW x \in Events, NEW i \in Nat \ {0}
               PROVE  <<x, i>> \in Cells(d, m) <=> \/ <<x, i>> \in Cells(c, m)
                                                   \/ x = e /\ i = n /\ k = m
    OBVIOUS
  <2>1. /\ <<x, i>> \in Cells(d, m) <=> i <= Len(d[x]) /\ d[x][i] = m
        /\ <<x, i>> \in Cells(c, m) <=> i <= Len(c[x]) /\ c[x][i] = m
    BY CellIn
  <2>2. CASE x = e
    <3>1. Len(c[e]) = n - 1 /\ (i <= n <=> i <= n - 1 \/ i = n) /\ (i <= n - 1 => i \in 1..n - 1)
      BY <1>1, <1>2
    <3>2. i = n => ~(i <= n - 1)
      BY <1>2
    <3> QED BY <1>2, <2>1, <2>2, <3>1, <3>2
  <2>3. CASE x # e
    BY <2>1, <2>3
  <2> QED BY <2>2, <2>3
<1>4. <<e, n>> \notin Cells(c, m)
  <2>1. <<e, n>> \in Cells(c, m) => n <= Len(c[e])
    BY <1>2, CellIn
  <2>2. ~(n <= Len(c[e]))
    BY <1>1, <1>2
  <2> QED BY <2>1, <2>2
<1>5. Cells(d, m) = IF k = m THEN Cells(c, m) \cup {<<e, n>>} ELSE Cells(c, m)
  <2>1. \A x \in Cells(d, m) \cup Cells(c, m) :
          x = <<x[1], x[2]>> /\ x[1] \in Events /\ x[2] \in Nat \ {0}
    BY CellForm
  <2>2. \A x \in Cells(d, m) : x \in Cells(c, m) \/ (x = <<e, n>> /\ k = m)
    BY <1>3, <2>1
  <2>3. \A x \in Cells(c, m) : x \in Cells(d, m)
    BY <1>3, <2>1
  <2>4. k = m => <<e, n>> \in Cells(d, m)
    BY <1>2, <1>3
  <2> QED BY <2>2, <2>3, <2>4
<1> QED BY <1>4, <1>5, CellsCount, FS_AddElement

(* A queue is emptied.                                                     *)
LEMMA CellsOfFlush ==
  ASSUME NEW c \in Contents, NEW d \in Contents, NEW m, NEW e \in Events,
         d[e] = <<>>, \A x \in Events \ {e} : d[x] = c[x]
  PROVE  Cardinality(Cells(c, m)) =
           Cardinality(Cells(d, m)) + Cardinality({i \in 1..Len(c[e]) : c[e][i] = m})
<1>1. PICK Q : Q = {i \in 1..Len(c[e]) : c[e][i] = m}
  OBVIOUS
<1>2. PICK F : F = {<<e, i>> : i \in Q}
  OBVIOUS
<1>3. Len(c[e]) \in Nat
  BY DEF Contents
<1>4. \A i \in Nat \ {0} : <<e, i>> \in Cells(c, m) <=> i \in Q
  BY <1>1, <1>3, CellIn
<1>5. ASSUME NEW i \in Nat \ {0}
      PROVE  <<e, i>> \notin Cells(d, m)
  <2>1. Len(d[e]) = 0 /\ ~(i <= 0)
    OBVIOUS
  <2>2. <<e, i>> \in Cells(d, m) <=> i <= Len(d[e]) /\ d[e][i] = m
    BY CellIn
  <2> QED BY <2>1, <2>2
<1>6. ASSUME NEW x \in Events \ {e}, NEW i \in Nat \ {0}
      PROVE  <<x, i>> \in Cells(d, m) <=> <<x, i>> \in Cells(c, m)
  <2>1. <<x, i>> \in Cells(d, m) <=> i <= Len(d[x]) /\ d[x][i] = m
    BY CellIn
  <2>2. <<x, i>> \in Cells(c, m) <=> i <= Len(c[x]) /\ c[x][i] = m
    BY CellIn
  <2> QED BY <2>1, <2>2
<1>7. \A x \in Cells(d, m) \cup Cells(c, m) :
        x = <<x[1], x[2]>> /\ x[1] \in Events /\ x[2] \in Nat \ {0}
  BY CellForm
<1>8. Q \in SUBSET (Nat \ {0})
  BY <1>1, <1>3
<1>9. Cells(c, m) = Cells(d, m) \cup F
  <2>1. \A x \in Cells(c, m) : x \in Cells(d, m) \cup F
    BY <1>2, <1>4, <1>6, <1>7
  <2>2. \A x \in Cells(d, m) : x \in Cells(c, m)
    BY <1>5, <1>6, <1>7
  <2>3. \A x \in F : x \in Cells(c, m)
    BY <1>2, <1>4, <1>8
  <2> QED BY <2>1, <2>2, <2>3
<1>10. Cells(d, m) \cap F = {}
  BY <1>2, <1>5, <1>8
<1>11. IsFiniteSet(Q)
  <2>1. IsFiniteSet(1..Len(c[e]))
    BY <1>3, FS_Interval
  <2> QED BY <1>1, <2>1, FS_Subset
<1>12. IsFiniteSet(F) /\ Cardinality(F) = Cardinality(Q)
  <2>1. PICK f : f = [i \in Q |-> <<e, i>>]
    OBVIOUS
  <2>2. f \in [Q -> F] /\ \A t \in F : \E i \in Q : f[i] = t
    BY <1>2, <2>1
  <2>3. \A x, y \in Q : f[x] = f[y] => x = y
    BY <2>1
  <2> QED BY <1>11, <2>2, <2>3, SameCount
<1> QED BY <1>1, <1>9, <1>10, <1>12, CellsCount, JoinedCount

-----------------------------------------------------------------------------
(* Where a message is: in mailboxes, in queues, with tasks.                *)
Boxes(m) == {e \in Events : IsMbox(e) /\ event[e].ptr = m}
Holders(m) == UNION {MsgGranted(e, m) : e \in Events}
MsgCounted(m) ==
  copies[m] = Cardinality(Boxes(m)) + Cardinality(Cells(QueueContents, m)) + Cardinality(Holders(m))

(* A task that a semaphore made ready has no message.                      *)
NoSemMsgs ==
  \A e \in Events : \A t \in Granted(e) : local[t].call = "sem" => tcb[t].msg = NoMsg

MsgsOK == NoSemMsgs /\ \A m \in Msgs : MsgCounted(m)

LEMMA ContentsTyped ==
  ASSUME QueueInv
  PROVE  /\ QueueContents \in Contents
         /\ \A e \in Events : IsQ(e) => Len(QueueContents[e]) = Entries(e)
         /\ \A e \in Events : ~IsQ(e) => QueueContents[e] = <<>>
<1>1. ASSUME NEW e \in Events
      PROVE  /\ QueueContents[e] \in Seq(Msgs) /\ Len(QueueContents[e]) <= QSize
             /\ IsQ(e) => Len(QueueContents[e]) = Entries(e)
  <2>1. RingOK(OSQTbl[e]) /\ OSQTbl[e].entries <= QSize /\ QSize \in Nat
    BY QAssumption DEF QueueInv, Rings
  <2>2. Content(OSQTbl[e]) \in Seq(Msgs) /\ Len(Content(OSQTbl[e])) = OSQTbl[e].entries
    BY <2>1, ContentIsSeq
  <2>3. CASE IsQ(e)
    BY <2>1, <2>2, <2>3 DEF QueueContents, Entries
  <2>4. CASE ~IsQ(e)
    <3>1. QueueContents[e] = <<>>
      BY <2>4 DEF QueueContents
    <3>2. Len(QueueContents[e]) = 0
      BY <3>1
    <3> QED BY <2>1, <2>4, <3>1, <3>2
  <2> QED BY <2>3, <2>4
<1>2. DOMAIN QueueContents = Events
  BY DEF QueueContents
<1>3. QueueContents = [e \in Events |-> QueueContents[e]]
  BY DEF QueueContents
<1>4. QueueContents \in Contents
  BY <1>1, <1>3 DEF Contents
<1> QED BY <1>1, <1>4 DEF QueueContents

LEMMA CellsAreSlots ==
  ASSUME QueueInv, NEW m
  PROVE  {x \in Events \X (1..QSize) :
            IsQ(x[1]) /\ x[2] <= Entries(x[1]) /\ Content(OSQTbl[x[1]])[x[2]] = m}
         = Cells(QueueContents, m)
<1>1. ASSUME NEW x \in Events \X (1..QSize)
      PROVE  IsQ(x[1]) /\ x[2] <= Entries(x[1]) /\ Content(OSQTbl[x[1]])[x[2]] = m
             <=> x[2] <= Len(QueueContents[x[1]]) /\ QueueContents[x[1]][x[2]] = m
  <2>1. x[1] \in Events /\ x[2] \in 1..QSize
    OBVIOUS
  <2>2. CASE IsQ(x[1])
    <3>1. Len(QueueContents[x[1]]) = Entries(x[1])
      BY <2>1, <2>2, ContentsTyped
    <3>2. QueueContents[x[1]] = Content(OSQTbl[x[1]])
      BY <2>1, <2>2 DEF QueueContents
    <3> QED BY <2>2, <3>1, <3>2
  <2>3. CASE ~IsQ(x[1])
    <3>1. Len(QueueContents[x[1]]) = 0
      BY <2>1, <2>3, ContentsTyped
    <3>2. ~(x[2] <= 0)
      BY <2>1, QAssumption
    <3> QED BY <2>3, <3>1, <3>2
  <2> QED BY <2>2, <2>3
<1> QED BY <1>1 DEF Cells

LEMMA OldestIsHead ==
  ASSUME QueueInv, NEW e \in Events, IsQ(e), Entries(e) > 0
  PROVE  QueueContents[e] # <<>> /\ Head(QueueContents[e]) = Oldest(OSQTbl[e])
<1>1. PICK q : q = OSQTbl[e]
  OBVIOUS
<1>2. RingOK(q) /\ q.entries > 0 /\ q.entries \in Nat /\ q.out \in 0..QSize - 1 /\ QSize \in Nat
  BY <1>1, QAssumption DEF QueueInv, Entries, Rings
<1>3. Slot(q, 1) = q.out
  BY <1>2 DEF Slot
<1>4. QueueContents[e] = Content(q)
  BY <1>1 DEF QueueContents
<1>5. Content(q) \in Seq(Msgs) /\ Len(Content(q)) = q.entries
  BY <1>2, ContentIsSeq
<1>6. PICK s : s = Content(q)
  OBVIOUS
<1>7. s # <<>> /\ Head(s) = s[1] /\ 1 \in 1..q.entries
  BY <1>2, <1>5, <1>6
<1>8. s[1] = q.slots[q.out]
  BY <1>3, <1>6, <1>7 DEF Content
<1> QED BY <1>1, <1>4, <1>6, <1>7, <1>8 DEF Oldest

LEMMA MessageCounts ==
  ASSUME TasksOK, NEW m
  PROVE  /\ IsFiniteSet(Boxes(m)) /\ Cardinality(Boxes(m)) \in Nat
         /\ IsFiniteSet(Holders(m)) /\ Cardinality(Holders(m)) \in Nat
<1>1. Boxes(m) \in SUBSET Events
  BY DEF Boxes
<1>2. Holders(m) \in SUBSET Tasks
  BY DEF Holders, MsgGranted, Granted, TasksOK, TypesOK
<1> QED BY <1>1, <1>2, CoreAssumption, FS_Subset, FS_CardinalityType

-----------------------------------------------------------------------------
(* What each kind of step does to the holders.                             *)
LEMMA HoldersStay ==
  ASSUME EventsInv, EventsInv', Stay \/ Entering, NoSemMsgs
  PROVE  NoSemMsgs' /\ \A m : Holders(m)' = Holders(m)
<1>1. TasksOK /\ PendsOK /\ TasksOK' /\ PendsOK'
  BY DEF EventsInv, EventsOK
<1>2. \A e \in Events : /\ Granted(e)' = Granted(e)
                        /\ \A t \in Granted(e) : tcb'[t].msg = tcb[t].msg /\ local'[t] = local[t]
  BY <1>1, GrantedStay, GrantedEnters DEF Entering
<1>3. \A m : \A e \in Events : MsgGranted(e, m)' = MsgGranted(e, m)
  BY <1>2 DEF MsgGranted
<1> QED BY <1>2, <1>3 DEF NoSemMsgs, Holders

LEMMA HoldersLeave ==
  ASSUME EventsInv, EventsInv', NEW d, Leaves(d), NoSemMsgs
  PROVE  NoSemMsgs' /\ \A m : Holders(m)' = Holders(m) \ {d}
<1>1. TasksOK /\ PendsOK /\ TasksOK' /\ PendsOK'
  BY DEF EventsInv, EventsOK
<1>2. \A e \in Events : /\ Granted(e)' = Granted(e) \ {d}
                        /\ \A t \in Granted(e) \ {d} : tcb'[t] = tcb[t] /\ local'[t] = local[t]
  BY <1>1, GrantedLeaves
<1>3. \A m : \A e \in Events : MsgGranted(e, m)' = MsgGranted(e, m) \ {d}
  BY <1>2 DEF MsgGranted
<1> QED BY <1>2, <1>3 DEF NoSemMsgs, Holders

LEMMA HoldersAwaken ==
  ASSUME EventsInv, EventsInv', NEW x \in Events, NEW S, NEW msg, NEW how \in {"OK", "ABORT"},
         Readies(x, S, msg, how), IsSem(x) => msg = NoMsg, NoSemMsgs
  PROVE  /\ NoSemMsgs'
         /\ \A m : /\ Holders(m)' = IF how = "OK" /\ msg = m THEN Holders(m) \cup Awakened(S)
                                    ELSE Holders(m)
                   /\ Holders(m) \cap Awakened(S) = {}
<1>1. TasksOK /\ PendsOK /\ TasksOK' /\ PendsOK'
  BY DEF EventsInv, EventsOK
<1>2. Awakens(x, Awakened(S), msg, how) /\ Waiters(x) # {} /\ S \in {Waiters(x), HighestWaiter(x)}
  BY DEF Readies
<1>3. \A e \in Events :
        /\ Granted(e)' = IF e = x /\ how = "OK" THEN Granted(e) \cup Awakened(S) ELSE Granted(e)
        /\ Granted(e) \cap Awakened(S) = {}
        /\ \A t \in Granted(e) : tcb'[t] = tcb[t] /\ local'[t] = local[t]
  BY <1>1, <1>2, GrantedAwakens
<1>4. \A t \in Awakened(S) : tcb'[t].msg = msg /\ local'[t] = local[t]
  BY <1>2 DEF Awakens
<1>5. ASSUME NEW t \in Awakened(S), local[t].call = "sem"
      PROVE  msg = NoMsg
  <2>1. t \in Tasks /\ InPend(t) /\ tcb[t].prio \in Waiters(x) /\ x \in local[t].events
    BY <1>1, <1>2, AwakenedPrios
  <2>2. PendOK(t) /\ Waiting(t)
    BY <1>1, <2>1 DEF PendsOK, PendOK, Woken
  <2>3. IsSem(x)
    BY <1>5, <2>1, <2>2 DEF PendOK, Waiting, IsSem
  <2> QED BY <2>3
<1>6. NoSemMsgs'
  BY <1>3, <1>4, <1>5 DEF NoSemMsgs
<1>7. ASSUME NEW m, NEW e \in Events
      PROVE  /\ MsgGranted(e, m)' = IF e = x /\ how = "OK" /\ msg = m
                                    THEN MsgGranted(e, m) \cup Awakened(S) ELSE MsgGranted(e, m)
             /\ MsgGranted(e, m) \cap Awakened(S) = {}
  BY <1>3, <1>4 DEF MsgGranted
<1>8. ASSUME NEW m
      PROVE  /\ Holders(m)' = IF how = "OK" /\ msg = m THEN Holders(m) \cup Awakened(S) ELSE Holders(m)
             /\ Holders(m) \cap Awakened(S) = {}
  BY <1>7 DEF Holders
<1> QED BY <1>6, <1>8

LEMMA EndedHolder ==
  ASSUME EventsInv, NEW t \in Tasks, InPend(t), Over(t), NEW m
  PROVE  t \in Holders(m) <=> tcb[t].statPend = "OK" /\ tcb[t].msg = m
<1>1. TasksOK /\ PendsOK
  BY DEF EventsInv, EventsOK
<1>2. \A x \in Events : t \in Granted(x) <=> tcb[t].statPend = "OK" /\ x = tcb[t].eventPtr
  BY <1>1, EndedPend
<1>3. tcb[t].statPend = "OK" => tcb[t].eventPtr \in Events
  <2>1. PendOK(t) /\ local[t].events \subseteq Events
    BY <1>1, PendEvents DEF PendsOK
  <2> QED BY <2>1 DEF PendOK, Waiting, Woken, Over, Listed
<1> QED BY <1>2, <1>3 DEF Holders, MsgGranted

-----------------------------------------------------------------------------
(* The steps that leave the mailboxes and the queues alone.                *)
StoreSame == QueueContents' = QueueContents /\ \A m \in Msgs : Boxes(m)' = Boxes(m)

LEMMA SameStore ==
  ASSUME OSQTbl' = OSQTbl,
         \A x \in Events : /\ IsQ(x)' <=> IsQ(x)
                           /\ IsMbox(x)' <=> IsMbox(x)
                           /\ IsMbox(x) => event'[x].ptr = event[x].ptr
  PROVE  StoreSame
<1>1. QueueContents' = QueueContents
  BY DEF QueueContents
<1>2. \A m \in Msgs : Boxes(m)' = Boxes(m)
  BY DEF Boxes
<1> QED BY <1>1, <1>2 DEF StoreSame

LEMMA DataStore ==
  ASSUME OSQTbl' = OSQTbl, \A x \in Events : DataSame(x)
  PROVE  StoreSame
BY SameStore DEF DataSame, IsQ, IsMbox

LEMMA ReadiesStore ==
  ASSUME EventsInv, NEW e \in Events, NEW S, NEW msg, NEW how, Readies(e, S, msg, how), OSQTbl' = OSQTbl
  PROVE  StoreSame
<1>1. \A x \in Events : DataSame(x) \/ (x = e /\ event'[e] = EventClear)
  BY DEF Readies, Awakens
<1>2. QueueInv /\ ~Available(e)
  BY DEF EventsInv, EventsOK, AvailOK, Readies
<1>3. EventClear.type = "unused"
  BY DEF EventClear
<1>4. CASE \A x \in Events : DataSame(x)
  BY <1>4, DataStore
<1>5. CASE event'[e] = EventClear
  <2>1. ~IsQ(e)' /\ ~IsMbox(e)'
    BY <1>3, <1>5 DEF IsQ, IsMbox
  <2>2. \A x \in Events \ {e} : /\ IsQ(x)' <=> IsQ(x)
                                /\ IsMbox(x)' <=> IsMbox(x)
                                /\ event'[x].ptr = event[x].ptr
    BY <1>1 DEF IsQ, IsMbox, DataSame
  <2>3. IsQ(e) => Content(OSQTbl[e]) = <<>>
    <3>1. IsQ(e) => Len(QueueContents[e]) = Entries(e) /\ Entries(e) \in Nat
      BY <1>2, ContentsTyped DEF QueueInv, Rings, Entries
    <3>2. IsQ(e) => Len(QueueContents[e]) = 0
      BY <1>2, <3>1 DEF Available
    <3>3. QueueContents[e] \in Seq(Msgs)
      BY <1>2, ContentsTyped DEF Contents
    <3>4. PICK s : s = QueueContents[e]
      OBVIOUS
    <3>5. IsQ(e) => s = <<>>
      BY <3>2, <3>3, <3>4
    <3> QED BY <3>4, <3>5 DEF QueueContents
  <2>4. QueueContents' = QueueContents
    BY <2>1, <2>2, <2>3 DEF QueueContents
  <2>5. ASSUME NEW m \in Msgs
        PROVE  Boxes(m)' = Boxes(m)
    <3>1. e \notin Boxes(m) /\ e \notin Boxes(m)'
      BY <1>2, <2>1, CoreAssumption DEF Boxes, Available, Empty
    <3> QED BY <2>2, <3>1 DEF Boxes
  <2> QED BY <2>4, <2>5 DEF StoreSame
<1> QED BY <1>1, <1>4, <1>5

LEMMA EditStore ==
  ASSUME TasksOK, NEW e \in Events, NEW b, event' = [event EXCEPT ![e] = b], OSQTbl' = OSQTbl,
         ~IsQ(e), ~IsMbox(e), b.type \notin {"mbox", "q"}
  PROVE  StoreSame
<1>1. \A x \in Events : event'[x] = IF x = e THEN b ELSE event[x]
  BY DEF TasksOK, EventsTyped
<1> QED BY <1>1, SameStore DEF IsQ, IsMbox

(* The calls of a semaphore do.                                            *)
LEMMA SemStore ==
  ASSUME EventsInv, SemStep, OSQTbl' = OSQTbl
  PROVE  StoreSame
<1>1. TasksOK /\ DOMAIN event = Events /\ \A e \in Events : DOMAIN event[e] = EventFields
  BY DEF EventsInv, TasksOK, EventsTyped
<1>2. ASSUME NEW e \in Events, SemWaits(e)
      PROVE  StoreSame
  BY <1>2, DataStore DEF SemWaits, Enters
<1>3. ASSUME NEW e \in Events, NEW n, SemGoes(e) \/ SemBegins(e, n)
      PROVE  StoreSame
  <2>1. PICK b \in {EventClear, SemFresh(n)} : event' = [event EXCEPT ![e] = b]
    BY <1>3 DEF SemGoes, SemBegins
  <2>2. b.type \notin {"mbox", "q"}
    <3>1. EventClear.type = "unused" /\ SemFresh(n).type = "sem"
      BY DEF EventClear, SemFresh
    <3> QED BY <2>1, <3>1
  <2>3. ~IsQ(e) /\ ~IsMbox(e)
    BY <1>3 DEF SemGoes, SemBegins, IsSem, IsQ, IsMbox
  <2> QED BY <1>1, <2>1, <2>2, <2>3, EditStore
<1>4. ASSUME NEW e \in Events, NEW n, SemCounts(e, n)
      PROVE  StoreSame
  <2>1. \A x \in Events : event'[x].type = event[x].type /\ event'[x].ptr = event[x].ptr
    BY <1>1, <1>4 DEF SemCounts, EventFields
  <2> QED BY <2>1, SameStore DEF IsQ, IsMbox
<1>5. ASSUME NEW e \in Events, NEW S, NEW how, SemReadies(e, S, how)
      PROVE  StoreSame
  BY <1>5, ReadiesStore DEF SemReadies
<1>6. ASSUME NEW c, NEW e, SemReturns(c, e)
      PROVE  StoreSame
  BY <1>6, DataStore DEF SemReturns, Leaves
<1> QED BY <1>2, <1>3, <1>4, <1>5, <1>6 DEF SemStep

-----------------------------------------------------------------------------
(* The counting itself.                                                    *)
LEMMA CountsTyped ==
  ASSUME EventsInv, NEW m \in Msgs
  PROVE  /\ copies[m] \in Int /\ IsFiniteSet(Boxes(m)) /\ IsFiniteSet(Holders(m))
         /\ Cardinality(Boxes(m)) \in Nat /\ Cardinality(Holders(m)) \in Nat
         /\ Cardinality(Cells(QueueContents, m)) \in Nat
BY MessageCounts, CellsCount DEF EventsInv, EventsOK, MsgsTyped

LEMMA SameMsgs ==
  ASSUME StoreSame, NEW m \in Msgs, Holders(m)' = Holders(m), copies'[m] = copies[m], MsgCounted(m)
  PROVE  MsgCounted(m)'
BY DEF StoreSame, MsgCounted

LEMMA LeavesMsgs ==
  ASSUME EventsInv, StoreSame, NEW m \in Msgs, NEW d, Holders(m)' = Holders(m) \ {d}, MsgCounted(m),
         copies'[m] = IF d \in Holders(m) THEN copies[m] - 1 ELSE copies[m]
  PROVE  MsgCounted(m)'
<1>1. PICK H : H = Holders(m)
  OBVIOUS
<1>2. IsFiniteSet(H) /\ Cardinality(H) \in Nat
  BY <1>1, CountsTyped
<1>3. Cardinality(H \ {d}) = IF d \in H THEN Cardinality(H) - 1 ELSE Cardinality(H)
  BY <1>2, FS_RemoveElement
<1>4. Cardinality(Holders(m)') = Cardinality(H \ {d})
  BY <1>1
<1>5. copies'[m] = Cardinality(Boxes(m)) + Cardinality(Cells(QueueContents, m)) + Cardinality(Holders(m)')
  BY <1>1, <1>2, <1>3, <1>4, CountsTyped DEF MsgCounted
<1> QED BY <1>5 DEF MsgCounted, StoreSame

LEMMA AwakensMsgs ==
  ASSUME EventsInv, StoreSame, NEW m \in Msgs, NEW A, IsFiniteSet(A), Holders(m) \cap A = {},
         Holders(m)' = Holders(m) \cup A, copies'[m] = copies[m] + Cardinality(A), MsgCounted(m)
  PROVE  MsgCounted(m)'
<1>1. PICK H : H = Holders(m)
  OBVIOUS
<1>2. IsFiniteSet(H) /\ Cardinality(H) \in Nat /\ Cardinality(A) \in Nat
  BY <1>1, CountsTyped, FS_CardinalityType
<1>3. Cardinality(H \cup A) = Cardinality(H) + Cardinality(A)
  BY <1>1, <1>2, JoinedCount
<1>4. Cardinality(Holders(m)') = Cardinality(H \cup A)
  BY <1>1
<1>5. copies'[m] = Cardinality(Boxes(m)) + Cardinality(Cells(QueueContents, m)) + Cardinality(Holders(m)')
  BY <1>1, <1>2, <1>3, <1>4, CountsTyped DEF MsgCounted
<1> QED BY <1>5 DEF MsgCounted, StoreSame

(* A message goes into a mailbox, or out of it.                            *)
LEMMA BoxMsgs ==
  ASSUME EventsInv, NEW m \in Msgs, NEW e \in Events, QueueContents' = QueueContents,
         Holders(m)' = Holders(m), MsgCounted(m),
         \/ /\ e \notin Boxes(m) /\ Boxes(m)' = Boxes(m) \cup {e} /\ copies'[m] = copies[m] + 1
         \/ /\ e \in Boxes(m) /\ Boxes(m)' = Boxes(m) \ {e} /\ copies'[m] = copies[m] - 1
  PROVE  MsgCounted(m)'
<1>1. PICK B : B = Boxes(m)
  OBVIOUS
<1>2. IsFiniteSet(B) /\ Cardinality(B) \in Nat
  BY <1>1, CountsTyped
<1>3. /\ e \notin B => Cardinality(B \cup {e}) = Cardinality(B) + 1
      /\ e \in B => Cardinality(B \ {e}) = Cardinality(B) - 1
  BY <1>2, FS_AddElement, FS_RemoveElement
<1>4. PICK C : C = Boxes(m)'
  OBVIOUS
<1>5. \/ Cardinality(C) = Cardinality(B) + 1 /\ copies'[m] = copies[m] + 1
      \/ Cardinality(C) = Cardinality(B) - 1 /\ copies'[m] = copies[m] - 1
  BY <1>1, <1>3, <1>4
<1>6. copies[m] = Cardinality(B) + Cardinality(Cells(QueueContents, m)) + Cardinality(Holders(m))
  BY <1>1 DEF MsgCounted
<1>7. copies'[m] = Cardinality(C) + Cardinality(Cells(QueueContents, m)) + Cardinality(Holders(m))
  BY <1>2, <1>5, <1>6, CountsTyped
<1> QED BY <1>4, <1>7 DEF MsgCounted

(* The queues change, the mailboxes do not.                                *)
LEMMA QueueMsgs ==
  ASSUME EventsInv, NEW m \in Msgs, Boxes(m)' = Boxes(m), Holders(m)' = Holders(m), MsgCounted(m),
         NEW c, c = QueueContents, NEW d, d = QueueContents',
         copies'[m] = (copies[m] - Cardinality(Cells(c, m))) + Cardinality(Cells(d, m))
  PROVE  MsgCounted(m)'
<1>1. Cardinality(Cells(d, m)) \in Nat
  BY CellsCount
<1>2. copies'[m] = Cardinality(Boxes(m)) + Cardinality(Cells(d, m)) + Cardinality(Holders(m))
  BY <1>1, CountsTyped DEF MsgCounted
<1> QED BY <1>2 DEF MsgCounted

-----------------------------------------------------------------------------
(* The steps that hand messages to tasks, or take them back.               *)
MsgsHyp == EventsInv /\ EventsInv' /\ MsgsOK

LEMMA WaitsMsgs ==
  ASSUME MsgsHyp, NEW c, NEW es \in SUBSET Events, Enters(c, es), \A e \in es : ~Available(e),
         UNCHANGED <<copies, OSQTbl>>
  PROVE  MsgsOK'
<1>1. Entering
  BY DEF Entering
<1>2. NoSemMsgs' /\ \A m : Holders(m)' = Holders(m)
  BY <1>1, HoldersStay DEF MsgsHyp, MsgsOK
<1>3. StoreSame
  BY DataStore DEF Enters
<1> QED BY <1>2, <1>3, SameMsgs DEF MsgsHyp, MsgsOK

LEMMA StayMsgs ==
  ASSUME MsgsHyp, Stay, StoreSame, copies' = copies
  PROVE  MsgsOK'
<1>1. NoSemMsgs' /\ \A m : Holders(m)' = Holders(m)
  BY HoldersStay DEF MsgsHyp, MsgsOK
<1> QED BY <1>1, SameMsgs DEF MsgsHyp, MsgsOK

LEMMA ReadiesMsgs ==
  ASSUME MsgsHyp, NEW e \in Events, NEW S, NEW m \in Msgs \cup {NoMsg}, NEW how \in {"OK", "ABORT"},
         Readies(e, S, m, how), IsSem(e) => m = NoMsg, OSQTbl' = OSQTbl,
         copies' = IF how = "OK" /\ m # NoMsg THEN [copies EXCEPT ![m] = @ + Cardinality(S)]
                   ELSE copies
  PROVE  MsgsOK'
<1>1. StoreSame
  BY ReadiesStore DEF MsgsHyp
<1>2. /\ NoSemMsgs'
      /\ \A k : /\ Holders(k)' = IF how = "OK" /\ m = k THEN Holders(k) \cup Awakened(S) ELSE Holders(k)
                /\ Holders(k) \cap Awakened(S) = {}
  BY HoldersAwaken DEF MsgsHyp, MsgsOK
<1>3. IsFiniteSet(Awakened(S)) /\ Cardinality(Awakened(S)) = Cardinality(S)
  BY AwakenedCount DEF Readies, MsgsHyp, EventsInv
<1>4. NoMsg \notin Msgs /\ copies \in [Msgs -> Int] /\ EventsInv
  BY CoreAssumption DEF MsgsHyp, EventsInv, EventsOK, MsgsTyped
<1>5. ASSUME NEW k \in Msgs
      PROVE  MsgCounted(k)'
  <2>1. MsgCounted(k)
    BY DEF MsgsHyp, MsgsOK
  <2>2. CASE how = "OK" /\ m = k
    <3>1. copies'[k] = copies[k] + Cardinality(Awakened(S))
      BY <1>3, <1>4, <2>2
    <3> QED BY <1>1, <1>2, <1>3, <1>4, <2>1, <2>2, <3>1, AwakensMsgs
  <2>3. CASE ~(how = "OK" /\ m = k)
    <3>1. copies'[k] = copies[k]
      BY <1>4, <2>3
    <3> QED BY <1>1, <1>2, <2>1, <2>3, <3>1, SameMsgs
  <2> QED BY <2>2, <2>3
<1> QED BY <1>2, <1>5 DEF MsgsOK

LEMMA ReturnsMsgs ==
  ASSUME MsgsHyp, NEW d, Leaves(d), OSQTbl' = OSQTbl,
         \A m \in Msgs : copies'[m] = IF d \in Holders(m) THEN copies[m] - 1 ELSE copies[m]
  PROVE  MsgsOK'
<1>1. NoSemMsgs' /\ \A m : Holders(m)' = Holders(m) \ {d}
  BY HoldersLeave DEF MsgsHyp, MsgsOK
<1>2. StoreSame
  BY DataStore DEF Leaves
<1> QED BY <1>1, <1>2, LeavesMsgs DEF MsgsHyp, MsgsOK

(* A pend that is over: the task returns with what it was handed.          *)
LEMMA EndsMsgs ==
  ASSUME MsgsHyp, NEW c, Leaves(c), Over(c), OSQTbl' = OSQTbl,
         copies' = IF tcb[c].statPend = "OK" /\ tcb[c].msg # NoMsg
                   THEN [copies EXCEPT ![tcb[c].msg] = @ - 1] ELSE copies
  PROVE  MsgsOK'
<1>1. c \in Tasks /\ InPend(c) /\ EventsInv /\ copies \in [Msgs -> Int]
  BY DEF Leaves, MsgsHyp, EventsInv, EventsOK, MsgsTyped
<1>2. \A m : c \in Holders(m) <=> tcb[c].statPend = "OK" /\ tcb[c].msg = m
  BY <1>1, EndedHolder
<1>3. NoMsg \notin Msgs
  BY CoreAssumption
<1>4. \A m \in Msgs : copies'[m] = IF c \in Holders(m) THEN copies[m] - 1 ELSE copies[m]
  BY <1>1, <1>2, <1>3
<1> QED BY <1>4, ReturnsMsgs

LEMMA DelMsgs ==
  ASSUME MsgsHyp, NEW t \in Tasks, DelStep(t)
  PROVE  MsgsOK'
<1>1. \A m \in Msgs : copies'[m] = IF t \in Holders(m) THEN copies[m] - 1 ELSE copies[m]
  BY DEF DelStep, Holders
<1>2. CASE InPend(t)
  BY <1>1, <1>2, ReturnsMsgs DEF DelStep
<1>3. CASE ~InPend(t)
  <2>1. TasksOK /\ PendsOK /\ copies \in [Msgs -> Int] /\ copies' \in [Msgs -> Int]
    BY DEF MsgsHyp, EventsInv, EventsOK, MsgsTyped
  <2>2. \A m : t \notin Holders(m)
    BY <1>3, <2>1, GrantedMeans DEF GrantedBy, Holders, MsgGranted
  <2>3. copies' = copies
    BY <1>1, <2>1, <2>2
  <2>4. StoreSame
    BY DataStore DEF DelStep
  <2> QED BY <1>3, <2>3, <2>4, StayMsgs DEF DelStep
<1> QED BY <1>2, <1>3

LEMMA SemMsgs ==
  ASSUME MsgsHyp, SemStep, UNCHANGED <<copies, OSQTbl>>
  PROVE  MsgsOK'
<1>1. StoreSame
  BY SemStore DEF MsgsHyp
<1>2. ASSUME NEW e \in Events, NEW n, SemGoes(e) \/ SemCounts(e, n) \/ SemBegins(e, n)
      PROVE  MsgsOK'
  BY <1>1, <1>2, StayMsgs DEF SemGoes, SemCounts, SemBegins
<1>3. ASSUME NEW e \in Events, SemWaits(e)
      PROVE  MsgsOK'
  <2>1. PICK c : Enters(c, {e}) /\ ~Available(e)
    BY <1>3 DEF SemWaits
  <2>2. {e} \in SUBSET Events /\ \A x \in {e} : ~Available(x)
    BY <2>1
  <2> QED BY <2>1, <2>2, WaitsMsgs
<1>4. ASSUME NEW e \in Events, NEW S, NEW how \in {"OK", "ABORT"}, SemReadies(e, S, how)
      PROVE  MsgsOK'
  <2>1. Readies(e, S, NoMsg, how) /\ NoMsg \in Msgs \cup {NoMsg}
    BY <1>4 DEF SemReadies
  <2> QED BY <2>1, ReadiesMsgs
<1>5. ASSUME NEW c \in Tasks, NEW e, SemReturns(c, e)
      PROVE  MsgsOK'
  <2>1. Leaves(c) /\ local[c].call = "sem"
    BY <1>5 DEF SemReturns
  <2>2. \A m \in Msgs : c \notin Holders(m)
    BY <2>1, CoreAssumption DEF MsgsHyp, MsgsOK, NoSemMsgs, Holders, MsgGranted
  <2> QED BY <2>1, <2>2, ReturnsMsgs
<1> QED BY <1>2, <1>3, <1>4, <1>5 DEF SemStep

LEMMA SharedMsgs ==
  ASSUME MsgsHyp,
         \/ \E e \in Events : MsgWaits(e)
         \/ \E e \in Events, m \in Msgs \cup {NoMsg}, how \in {"OK", "ABORT"} : \E S : MsgReadies(e, S, m, how)
         \/ \E c \in Tasks : MsgReturns(c)
  PROVE  MsgsOK'
<1>1. ASSUME NEW e \in Events, MsgWaits(e)
      PROVE  MsgsOK'
  <2>1. PICK c : Enters(c, {e}) /\ ~Available(e) /\ UNCHANGED <<copies, OSQTbl>>
    BY <1>1 DEF MsgWaits
  <2>2. {e} \in SUBSET Events /\ \A x \in {e} : ~Available(x)
    BY <2>1
  <2> QED BY <2>1, <2>2, WaitsMsgs
<1>2. ASSUME NEW e \in Events, NEW m \in Msgs \cup {NoMsg}, NEW how \in {"OK", "ABORT"}, NEW S,
             MsgReadies(e, S, m, how)
      PROVE  MsgsOK'
  <2>1. ~IsSem(e)
    BY <1>2 DEF MsgReadies, IsSem, IsMbox, IsQ
  <2> QED BY <1>2, <2>1, ReadiesMsgs DEF MsgReadies
<1>3. ASSUME NEW c \in Tasks, MsgReturns(c)
      PROVE  MsgsOK'
  BY <1>3, EndsMsgs DEF MsgReturns
<1> QED BY <1>1, <1>2, <1>3

-----------------------------------------------------------------------------
(* The steps of a mailbox: what it held, k, and what it holds, n.          *)
BoxEdit(e, b, k, n) ==
  /\ event' = [event EXCEPT ![e] = b] /\ ~IsQ(e) /\ b.type # "q"
  /\ \A m \in Msgs : (IsMbox(e) /\ event[e].ptr = m) <=> m = k
  /\ \A m \in Msgs : (b.type = "mbox" /\ b.ptr = m) <=> m = n
  /\ k \notin Msgs \/ n \notin Msgs
  /\ \A m \in Msgs : copies'[m] = IF m = k THEN copies[m] - 1
                                  ELSE IF m = n THEN copies[m] + 1 ELSE copies[m]

LEMMA BoxStepMsgs ==
  ASSUME MsgsHyp, Stay, OSQTbl' = OSQTbl, NEW e \in Events, NEW b, NEW k, NEW n, BoxEdit(e, b, k, n)
  PROVE  MsgsOK'
<1>1. NoSemMsgs' /\ \A m : Holders(m)' = Holders(m)
  BY HoldersStay DEF MsgsHyp, MsgsOK
<1>2. \A x \in Events : event'[x] = IF x = e THEN b ELSE event[x]
  BY DEF BoxEdit, MsgsHyp, EventsInv, TasksOK, EventsTyped
<1>3. QueueContents' = QueueContents
  <2>1. \A x \in Events : IsQ(x)' <=> IsQ(x)
    BY <1>2 DEF BoxEdit, IsQ
  <2> QED BY <2>1 DEF QueueContents
<1>4. ASSUME NEW m \in Msgs
      PROVE  MsgCounted(m)'
  <2>1. \A x \in Events : x \in Boxes(m)' <=> IF x = e THEN m = n ELSE x \in Boxes(m)
    BY <1>2 DEF BoxEdit, Boxes, IsMbox
  <2>2. e \in Boxes(m) <=> m = k
    BY DEF BoxEdit, Boxes
  <2>3. Boxes(m) \subseteq Events /\ Boxes(m)' \subseteq Events
    BY DEF Boxes
  <2>4. /\ MsgCounted(m) /\ EventsInv /\ (k \notin Msgs \/ n \notin Msgs)
        /\ copies'[m] = IF m = k THEN copies[m] - 1
                       ELSE IF m = n THEN copies[m] + 1 ELSE copies[m]
    BY DEF BoxEdit, MsgsHyp, MsgsOK
  <2>5. CASE m = k
    <3>1. Boxes(m)' = Boxes(m) \ {e} /\ e \in Boxes(m)
      BY <2>1, <2>2, <2>3, <2>4, <2>5
    <3> QED BY <1>1, <1>3, <2>4, <2>5, <3>1, BoxMsgs
  <2>6. CASE m = n
    <3>1. Boxes(m)' = Boxes(m) \cup {e} /\ e \notin Boxes(m) /\ m # k
      BY <2>1, <2>2, <2>3, <2>4, <2>6
    <3> QED BY <1>1, <1>3, <2>4, <2>6, <3>1, BoxMsgs
  <2>7. CASE m # k /\ m # n
    <3>1. Boxes(m)' = Boxes(m)
      BY <2>1, <2>2, <2>3, <2>7
    <3>2. copies'[m] = copies[m]
      BY <2>4, <2>7
    <3> QED BY <1>1, <1>3, <2>4, <3>1, <3>2 DEF MsgCounted
  <2> QED BY <2>5, <2>6, <2>7
<1> QED BY <1>1, <1>4 DEF MsgsOK

LEMMA MboxMsgs ==
  ASSUME MsgsHyp, MboxStep
  PROVE  MsgsOK'
<1>1. /\ DOMAIN event = Events /\ \A e \in Events : DOMAIN event[e] = EventFields
      /\ copies \in [Msgs -> Int] /\ NoMsg \notin Msgs
      /\ \A e \in Events : event[e].ptr \in Msgs \cup {NoMsg}
  BY CoreAssumption DEF MsgsHyp, EventsInv, EventsOK, MsgsTyped, TasksOK, EventsTyped
<1>2. ASSUME NEW e \in Events, MboxTakes(e), OSQTbl' = OSQTbl
      PROVE  MsgsOK'
  <2>1. PICK b : b = [event[e] EXCEPT !.ptr = NoMsg]
    OBVIOUS
  <2>2. b.type = "mbox" /\ b.ptr = NoMsg /\ event' = [event EXCEPT ![e] = b]
    BY <1>1, <1>2, <2>1 DEF MboxTakes, IsMbox, EventFields
  <2>3. ~IsQ(e) /\ IsMbox(e) /\ Stay
    BY <1>2 DEF MboxTakes, IsMbox, IsQ
  <2>4. \A m \in Msgs : copies'[m] = IF m = event[e].ptr THEN copies[m] - 1 ELSE copies[m]
    BY <1>1, <1>2 DEF MboxTakes
  <2>5. PICK k, n : k = event[e].ptr /\ n = NoMsg
    OBVIOUS
  <2>6. BoxEdit(e, b, k, n)
    BY <1>1, <2>2, <2>3, <2>4, <2>5 DEF BoxEdit
  <2> QED BY <1>2, <2>3, <2>6, BoxStepMsgs
<1>3. ASSUME NEW e \in Events, NEW m \in Msgs, MboxFills(e, m), OSQTbl' = OSQTbl
      PROVE  MsgsOK'
  <2>1. PICK b : b = [event[e] EXCEPT !.ptr = m]
    OBVIOUS
  <2>2. b.type = "mbox" /\ b.ptr = m /\ event' = [event EXCEPT ![e] = b]
    BY <1>1, <1>3, <2>1 DEF MboxFills, IsMbox, EventFields
  <2>3. ~IsQ(e) /\ IsMbox(e) /\ Stay /\ event[e].ptr = NoMsg
    BY <1>1, <1>3 DEF MboxFills, IsMbox, IsQ, IsSem, Available, Empty
  <2>4. \A k \in Msgs : copies'[k] = IF k = m THEN copies[k] + 1 ELSE copies[k]
    BY <1>1, <1>3 DEF MboxFills
  <2>5. \A k \in Msgs : copies'[k] = IF k = NoMsg THEN copies[k] - 1
                                     ELSE IF k = m THEN copies[k] + 1 ELSE copies[k]
    BY <1>1, <2>4
  <2>6. BoxEdit(e, b, NoMsg, m)
    BY <1>1, <2>2, <2>3, <2>5 DEF BoxEdit
  <2> QED BY <1>3, <2>3, <2>6, BoxStepMsgs
<1>4. ASSUME NEW e \in Events, NEW m \in Msgs \cup {NoMsg}, MboxBegins(e, m), OSQTbl' = OSQTbl
      PROVE  MsgsOK'
  <2>1. PICK b : b = MboxFresh(m)
    OBVIOUS
  <2>2. b.type = "mbox" /\ b.ptr = m /\ event' = [event EXCEPT ![e] = b]
    BY <1>4, <2>1 DEF MboxBegins, MboxFresh, EventClear
  <2>3. ~IsQ(e) /\ ~IsMbox(e) /\ Stay
    BY <1>4 DEF MboxBegins, IsMbox, IsQ
  <2>4. \A k \in Msgs : copies'[k] = IF k = NoMsg THEN copies[k] - 1
                                     ELSE IF k = m THEN copies[k] + 1 ELSE copies[k]
    BY <1>1, <1>4 DEF MboxBegins
  <2>5. BoxEdit(e, b, NoMsg, m)
    BY <1>1, <2>2, <2>3, <2>4 DEF BoxEdit
  <2> QED BY <1>4, <2>3, <2>5, BoxStepMsgs
<1>5. ASSUME NEW e \in Events, MboxGoes(e), OSQTbl' = OSQTbl
      PROVE  MsgsOK'
  <2>1. PICK b : b = EventClear
    OBVIOUS
  <2>2. b.type = "unused" /\ event' = [event EXCEPT ![e] = b]
    BY <1>5, <2>1 DEF MboxGoes, EventClear
  <2>3. ~IsQ(e) /\ IsMbox(e) /\ Stay
    BY <1>5 DEF MboxGoes, IsMbox, IsQ
  <2>4. \A k \in Msgs : copies'[k] = IF k = event[e].ptr THEN copies[k] - 1 ELSE copies[k]
    BY <1>1, <1>5 DEF MboxGoes, Empty
  <2>5. PICK k, n : k = event[e].ptr /\ n = NoMsg
    OBVIOUS
  <2>6. BoxEdit(e, b, k, n)
    BY <1>1, <2>2, <2>3, <2>4, <2>5 DEF BoxEdit
  <2> QED BY <1>5, <2>3, <2>6, BoxStepMsgs
<1>6. CASE \/ \E e \in Events : MsgWaits(e)
           \/ \E e \in Events, m \in Msgs \cup {NoMsg}, how \in {"OK", "ABORT"} : \E S : MsgReadies(e, S, m, how)
           \/ \E c \in Tasks : MsgReturns(c)
  BY <1>6, SharedMsgs
<1> QED BY <1>2, <1>3, <1>4, <1>5, <1>6 DEF MboxStep

-----------------------------------------------------------------------------
LEMMA ContentsTypedNext == QueueInv' => QueueContents' \in Contents
<1>1. QueueInv => QueueContents \in Contents
  BY ContentsTyped
<1>2. (QueueInv => QueueContents \in Contents)'
  BY <1>1, PTL
<1> QED BY <1>2 DEF Contents

(* The steps of a queue.                                                   *)
LEMMA QueueStepMsgs ==
  ASSUME MsgsHyp, Stay, \A m \in Msgs : Boxes(m)' = Boxes(m),
         NEW c, c = QueueContents, NEW d, d = QueueContents',
         \A m \in Msgs : copies'[m] = (copies[m] - Cardinality(Cells(c, m))) + Cardinality(Cells(d, m))
  PROVE  MsgsOK'
<1>1. NoSemMsgs' /\ \A m : Holders(m)' = Holders(m)
  BY HoldersStay DEF MsgsHyp, MsgsOK
<1>2. ASSUME NEW m \in Msgs
      PROVE  MsgCounted(m)'
  BY <1>1, QueueMsgs DEF MsgsHyp, MsgsOK
<1> QED BY <1>1, <1>2 DEF MsgsOK

LEMMA RingChanges ==
  ASSUME event' = event, NEW e \in Events, IsQ(e), NEW q, OSQTbl' = [OSQTbl EXCEPT ![e] = q],
         DOMAIN OSQTbl = Events
  PROVE  /\ \A m \in Msgs : Boxes(m)' = Boxes(m)
         /\ QueueContents'[e] = Content(q)
         /\ \A x \in Events \ {e} : QueueContents'[x] = QueueContents[x]
<1>1. \A m \in Msgs : Boxes(m)' = Boxes(m)
  BY DEF Boxes, IsMbox
<1> QED BY <1>1 DEF QueueContents, IsQ

LEMMA QTakesMsgs ==
  ASSUME MsgsHyp, NEW e \in Events, QTakes(e)
  PROVE  MsgsOK'
<1>1. QueueInv /\ QueueInv' /\ copies \in [Msgs -> Int] /\ DOMAIN OSQTbl = Events
  BY DEF MsgsHyp, EventsInv, EventsOK, MsgsTyped, QueueInv
<1>2. PICK c, d : c = QueueContents /\ d = QueueContents'
  OBVIOUS
<1>3. c \in Contents /\ d \in Contents
  BY <1>1, <1>2, ContentsTyped, ContentsTypedNext
<1>4. IsQ(e) /\ Entries(e) > 0 /\ Stay
  BY DEF QTakes, Available, IsQ, IsSem, IsMbox
<1>5. c[e] # <<>> /\ Head(c[e]) = Oldest(OSQTbl[e]) /\ c[e] = Content(OSQTbl[e])
  BY <1>1, <1>2, <1>4, OldestIsHead DEF QueueContents
<1>6. /\ \A m \in Msgs : Boxes(m)' = Boxes(m)
      /\ d[e] = Content(Get(OSQTbl[e])) /\ \A x \in Events \ {e} : d[x] = c[x]
  BY <1>1, <1>2, <1>4, RingChanges DEF QTakes
<1>7. d[e] = Tail(c[e])
  <2>1. RingOK(OSQTbl[e]) /\ OSQTbl[e].entries > 0
    BY <1>1, <1>4 DEF QueueInv, Entries
  <2> QED BY <1>5, <1>6, <2>1, GetTakesFirst
<1>8. PICK h : h = Head(c[e])
  OBVIOUS
<1>9. ASSUME NEW m \in Msgs
      PROVE  copies'[m] = (copies[m] - Cardinality(Cells(c, m))) + Cardinality(Cells(d, m))
  <2>1. PICK H : H = {x \in {e} : Head(c[x]) = m}
    OBVIOUS
  <2>2. Cardinality(Cells(c, m)) = Cardinality(Cells(d, m)) + Cardinality(H)
    <3>1. PICK S : S = {e}
      OBVIOUS
    <3>2. Tails(c, d, S) /\ H = {x \in S : Head(c[x]) = m}
      BY <1>3, <1>5, <1>6, <1>7, <2>1, <3>1 DEF Tails
    <3> QED BY <3>2, CellsOfTails
  <2>3. H = IF m = h THEN {e} ELSE {}
    BY <1>8, <2>1
  <2>4. Cardinality(H) = IF m = h THEN 1 ELSE 0
    BY <2>3, FS_Singleton, FS_EmptySet
  <2>5. copies'[m] = IF m = h THEN copies[m] - 1 ELSE copies[m]
    BY <1>1, <1>5, <1>8 DEF QTakes
  <2>6. Cardinality(Cells(d, m)) \in Nat /\ copies[m] \in Int
    BY <1>1, CellsCount
  <2> QED BY <2>2, <2>4, <2>5, <2>6
<1> QED BY <1>2, <1>4, <1>6, <1>9, QueueStepMsgs

LEMMA QPutsMsgs ==
  ASSUME MsgsHyp, NEW e \in Events, NEW k \in Msgs, QPuts(e, k)
  PROVE  MsgsOK'
<1>1. QueueInv /\ QueueInv' /\ copies \in [Msgs -> Int] /\ DOMAIN OSQTbl = Events
  BY DEF MsgsHyp, EventsInv, EventsOK, MsgsTyped, QueueInv
<1>2. PICK c, d : c = QueueContents /\ d = QueueContents'
  OBVIOUS
<1>3. c \in Contents /\ d \in Contents
  BY <1>1, <1>2, ContentsTyped, ContentsTypedNext
<1>4. IsQ(e) /\ Stay /\ c[e] = Content(OSQTbl[e]) /\ RingOK(OSQTbl[e]) /\ OSQTbl[e].entries < QSize
  BY <1>1, <1>2 DEF QPuts, QueueContents, QueueInv, Entries
<1>5. PICK q \in {Put(OSQTbl[e], k), PutFront(OSQTbl[e], k)} : OSQTbl' = [OSQTbl EXCEPT ![e] = q]
  BY DEF QPuts
<1>6. /\ \A m \in Msgs : Boxes(m)' = Boxes(m)
      /\ d[e] = Content(q) /\ \A x \in Events \ {e} : d[x] = c[x]
  BY <1>1, <1>2, <1>4, <1>5, RingChanges DEF QPuts
<1>7. d[e] = Append(c[e], k) \/ d[e] = <<k>> \o c[e]
  BY <1>4, <1>5, <1>6, PutAppends, PutFrontPrepends
<1>8. ASSUME NEW m \in Msgs
      PROVE  Cardinality(Cells(d, m)) =
               IF k = m THEN Cardinality(Cells(c, m)) + 1 ELSE Cardinality(Cells(c, m))
  <2>1. CASE d[e] = Append(c[e], k)
    <3>1. Appends(c, d, e, k)
      BY <1>3, <1>6, <2>1 DEF Appends
    <3> QED BY <3>1, CellsOfAppend
  <2>2. CASE d[e] = <<k>> \o c[e]
    <3>1. c[e] = Tail(d[e]) /\ d[e] # <<>> /\ Head(d[e]) = k
      <4>1. PICK s : s = c[e]
        OBVIOUS
      <4>2. s \in Seq(Msgs) /\ d[e] = <<k>> \o s
        BY <1>3, <2>2, <4>1 DEF Contents
      <4>3. <<k>> \o s # <<>> /\ Head(<<k>> \o s) = k /\ Tail(<<k>> \o s) = s
        BY <4>2
      <4> QED BY <4>1, <4>2, <4>3
    <3>2. PICK H : H = {x \in {e} : Head(d[x]) = m}
      OBVIOUS
    <3>3. Cardinality(Cells(d, m)) = Cardinality(Cells(c, m)) + Cardinality(H)
      <4>1. PICK S : S = {e}
        OBVIOUS
      <4>2. Tails(d, c, S) /\ H = {x \in S : Head(d[x]) = m}
        BY <1>3, <1>6, <3>1, <3>2, <4>1 DEF Tails
      <4> QED BY <4>2, CellsOfTails
    <3>4. H = IF k = m THEN {e} ELSE {}
      BY <3>1, <3>2
    <3>5. Cardinality(H) = IF k = m THEN 1 ELSE 0
      BY <3>4, FS_Singleton, FS_EmptySet
    <3> QED BY <3>3, <3>5, CellsCount
  <2> QED BY <1>7, <2>1, <2>2
<1>9. ASSUME NEW m \in Msgs
      PROVE  copies'[m] = (copies[m] - Cardinality(Cells(c, m))) + Cardinality(Cells(d, m))
  <2>1. copies'[m] = IF k = m THEN copies[m] + 1 ELSE copies[m]
    BY <1>1 DEF QPuts
  <2>2. Cardinality(Cells(c, m)) \in Nat /\ copies[m] \in Int
    BY <1>1, CellsCount
  <2> QED BY <1>8, <2>1, <2>2
<1> QED BY <1>2, <1>4, <1>6, <1>9, QueueStepMsgs

(* A queue is emptied, or deleted with what it holds.                      *)
LEMMA DiscardMsgs ==
  ASSUME MsgsHyp, NEW e \in Events, IsQ(e), Stay, Discard(e), \A m \in Msgs : Boxes(m)' = Boxes(m),
         QueueContents'[e] = <<>>, \A x \in Events \ {e} : QueueContents'[x] = QueueContents[x]
  PROVE  MsgsOK'
<1>1. QueueInv /\ QueueInv' /\ copies \in [Msgs -> Int]
  BY DEF MsgsHyp, EventsInv, EventsOK, MsgsTyped, QueueInv
<1>2. PICK c, d : c = QueueContents /\ d = QueueContents'
  OBVIOUS
<1>3. c \in Contents /\ d \in Contents /\ Entries(e) = Len(c[e]) /\ c[e] = Content(OSQTbl[e])
  BY <1>1, <1>2, ContentsTyped, ContentsTypedNext DEF QueueContents
<1>4. ASSUME NEW m \in Msgs
      PROVE  copies'[m] = (copies[m] - Cardinality(Cells(c, m))) + Cardinality(Cells(d, m))
  <2>1. Cardinality(Cells(c, m)) = Cardinality(Cells(d, m)) + InQueue(e, m)
    BY <1>2, <1>3, CellsOfFlush DEF InQueue
  <2>2. copies'[m] = copies[m] - InQueue(e, m)
    BY DEF Discard
  <2>3. Cardinality(Cells(d, m)) \in Nat /\ copies[m] \in Int /\ InQueue(e, m) \in Nat
    BY <1>1, CellsCount, InQueueCounts
  <2> QED BY <2>1, <2>2, <2>3
<1> QED BY <1>2, <1>4, QueueStepMsgs

LEMMA QMsgs ==
  ASSUME MsgsHyp, QStep
  PROVE  MsgsOK'
<1>1. /\ DOMAIN OSQTbl = Events /\ \A e \in Events : RingOK(OSQTbl[e])
      /\ DOMAIN event = Events
  BY DEF MsgsHyp, EventsInv, QueueInv, TasksOK, EventsTyped
<1>2. ASSUME NEW e \in Events, QFlushes(e)
      PROVE  MsgsOK'
  <2>1. /\ \A m \in Msgs : Boxes(m)' = Boxes(m)
        /\ QueueContents'[e] = Content(Flushed(OSQTbl[e]))
        /\ \A x \in Events \ {e} : QueueContents'[x] = QueueContents[x]
    BY <1>1, <1>2, RingChanges DEF QFlushes
  <2>2. QueueContents'[e] = <<>>
    BY <1>1, <2>1, FlushedIsEmpty
  <2> QED BY <1>2, <2>1, <2>2, DiscardMsgs DEF QFlushes
<1>3. ASSUME NEW e \in Events, QBegins(e)
      PROVE  MsgsOK'
  <2>1. QFresh.type = "q" /\ event[e].type = "unused" /\ Stay /\ copies' = copies
    BY <1>3 DEF QBegins, QFresh, EventClear
  <2>2. /\ \A x \in Events : event'[x] = IF x = e THEN QFresh ELSE event[x]
        /\ \A x \in Events : OSQTbl'[x] = IF x = e THEN Flushed(OSQTbl[e]) ELSE OSQTbl[x]
    BY <1>1, <1>3 DEF QBegins
  <2>3. \A m \in Msgs : Boxes(m)' = Boxes(m)
    BY <2>1, <2>2 DEF Boxes, IsMbox
  <2>4. Content(Flushed(OSQTbl[e])) = <<>>
    BY <1>1, FlushedIsEmpty
  <2>5. QueueContents' = QueueContents
    BY <2>1, <2>2, <2>4 DEF QueueContents, IsQ
  <2> QED BY <2>1, <2>3, <2>5, StayMsgs DEF StoreSame
<1>4. ASSUME NEW e \in Events, QGoes(e)
      PROVE  MsgsOK'
  <2>1. EventClear.type = "unused" /\ IsQ(e) /\ event[e].type = "q" /\ Stay /\ Discard(e)
    BY <1>4 DEF QGoes, IsQ, EventClear
  <2>2. OSQTbl' = OSQTbl /\ \A x \in Events : event'[x] = IF x = e THEN EventClear ELSE event[x]
    BY <1>1, <1>4 DEF QGoes
  <2>3. \A m \in Msgs : Boxes(m)' = Boxes(m)
    BY <2>1, <2>2 DEF Boxes, IsMbox
  <2>4. QueueContents'[e] = <<>> /\ \A x \in Events \ {e} : QueueContents'[x] = QueueContents[x]
    BY <2>1, <2>2 DEF QueueContents, IsQ
  <2> QED BY <2>1, <2>3, <2>4, DiscardMsgs
<1>5. CASE \/ \E e \in Events : MsgWaits(e)
           \/ \E e \in Events, m \in Msgs \cup {NoMsg}, how \in {"OK", "ABORT"} : \E S : MsgReadies(e, S, m, how)
           \/ \E c \in Tasks : MsgReturns(c)
  BY <1>5, SharedMsgs
<1> QED BY <1>2, <1>3, <1>4, <1>5, QTakesMsgs, QPutsMsgs DEF QStep

-----------------------------------------------------------------------------
(* A task takes all that several events have: from the mailboxes B and the *)
(* queues Q.                                                               *)
LEMMA RemovedCount ==
  ASSUME NEW A, NEW B, IsFiniteSet(A), B \subseteq A
  PROVE  IsFiniteSet(B) /\ Cardinality(A \ B) = Cardinality(A) - Cardinality(B)
         /\ Cardinality(A) \in Nat /\ Cardinality(B) \in Nat
<1>1. IsFiniteSet(B) /\ IsFiniteSet(A \ B)
  BY FS_Subset
<1>2. Cardinality((A \ B) \cup B) = Cardinality(A \ B) + Cardinality(B)
  BY <1>1, JoinedCount
<1>3. (A \ B) \cup B = A
  OBVIOUS
<1>4. Cardinality(A \ B) \in Nat /\ Cardinality(B) \in Nat /\ Cardinality(A) \in Nat
  BY <1>1, FS_CardinalityType
<1>5. Cardinality(A) = Cardinality(A \ B) + Cardinality(B)
  BY <1>2, <1>3
<1>6. Cardinality(A \ B) = Cardinality(A) - Cardinality(B)
  BY <1>4, <1>5
<1> QED BY <1>1, <1>4, <1>6

LEMMA MultiTakesMsgs ==
  ASSUME MsgsHyp, NEW S \in SUBSET Events, MultiTakes(S)
  PROVE  MsgsOK'
<1>1. /\ QueueInv /\ QueueInv' /\ copies \in [Msgs -> Int] /\ EventsInv
      /\ DOMAIN OSQTbl = Events /\ \A e \in Events : RingOK(OSQTbl[e])
      /\ DOMAIN event = Events /\ \A e \in Events : DOMAIN event[e] = EventFields
      /\ NoMsg \notin Msgs
  BY CoreAssumption
     DEF MsgsHyp, EventsInv, EventsOK, MsgsTyped, QueueInv, TasksOK, EventsTyped
<1>2. NoSemMsgs' /\ \A m : Holders(m)' = Holders(m)
  BY HoldersStay DEF MsgsHyp, MsgsOK, MultiTakes
<1>3. PICK Q : Q = {e \in S : IsQ(e)}
  OBVIOUS
<1>4. ASSUME NEW e \in Events
      PROVE  /\ event'[e].type = event[e].type
             /\ IsMbox(e) => event'[e].ptr = IF e \in S THEN NoMsg ELSE event[e].ptr
  <2>1. event'[e] = IF e \notin S \/ IsQ(e) THEN event[e]
                    ELSE IF IsSem(e) THEN [event[e] EXCEPT !.cnt = @ - 1]
                    ELSE [event[e] EXCEPT !.ptr = NoMsg]
    BY DEF MultiTakes, TakeAll
  <2>2. DOMAIN event[e] = EventFields
    BY <1>1
  <2> QED BY <2>1, <2>2 DEF EventFields, IsMbox, IsQ, IsSem
<1>5. \A e \in Events : OSQTbl'[e] = IF e \in Q THEN Get(OSQTbl[e]) ELSE OSQTbl[e]
  BY <1>3 DEF MultiTakes, TakeAll
<1>6. PICK c, d : c = QueueContents /\ d = QueueContents'
  OBVIOUS
<1>7. c \in Contents /\ d \in Contents
  BY <1>1, <1>6, ContentsTyped, ContentsTypedNext
<1>8. ASSUME NEW e \in Q
      PROVE  c[e] # <<>> /\ d[e] = Tail(c[e]) /\ Head(c[e]) = MsgOf(e)
  <2>1. e \in Events /\ IsQ(e) /\ Entries(e) > 0 /\ ~IsMbox(e)
    BY <1>3 DEF MultiTakes, Available, IsQ, IsSem, IsMbox
  <2>2. c[e] = Content(OSQTbl[e]) /\ d[e] = Content(Get(OSQTbl[e]))
    BY <1>4, <1>5, <1>6, <2>1 DEF QueueContents, IsQ
  <2>3. d[e] = Tail(c[e])
    BY <1>1, <2>1, <2>2, GetTakesFirst DEF Entries
  <2> QED BY <1>1, <1>6, <2>1, <2>3, OldestIsHead DEF MsgOf
<1>9. \A e \in Events \ Q : d[e] = c[e]
  BY <1>4, <1>5, <1>6 DEF QueueContents, IsQ
<1>10. Tails(c, d, Q)
  BY <1>3, <1>7, <1>8, <1>9 DEF Tails
<1>11. ASSUME NEW m \in Msgs
       PROVE  MsgCounted(m)'
  <2>1. PICK A : A = {e \in S : IsMbox(e) /\ event[e].ptr = m}
    OBVIOUS
  <2>2. PICK H : H = {e \in Q : Head(c[e]) = m}
    OBVIOUS
  <2>3. PICK B : B = Boxes(m)
    OBVIOUS
  <2>4. A \subseteq B /\ IsFiniteSet(B)
    BY <1>1, <2>1, <2>3, CountsTyped DEF Boxes
  <2>5. Boxes(m)' = B \ A
    BY <1>1, <1>4, <2>1, <2>3 DEF Boxes, IsMbox
  <2>6. /\ IsFiniteSet(A) /\ Cardinality(B \ A) = Cardinality(B) - Cardinality(A)
        /\ Cardinality(A) \in Nat /\ Cardinality(B) \in Nat
    BY <2>4, RemovedCount
  <2>7. Cardinality(Cells(c, m)) = Cardinality(Cells(d, m)) + Cardinality(H)
    BY <1>10, <2>2, CellsOfTails
  <2>8. IsFiniteSet(H) /\ Cardinality(H) \in Nat
    <3>1. H \in SUBSET Events
      BY <1>3, <2>2
    <3> QED BY <3>1, CoreAssumption, FS_Subset, FS_CardinalityType
  <2>9. PICK T : T = {e \in S : ~IsSem(e) /\ MsgOf(e) = m}
    OBVIOUS
  <2>10. T = A \cup H /\ A \cap H = {}
    <3>1. \A e \in S : ~IsSem(e) <=> IsMbox(e) \/ e \in Q
      BY <1>3 DEF MultiTakes, Available, IsQ, IsSem, IsMbox
    <3>2. \A e \in S : e \in Q => ~IsMbox(e)
      BY <1>3 DEF IsQ, IsMbox
    <3>3. \A e \in S : IsMbox(e) => MsgOf(e) = event[e].ptr
      BY DEF MsgOf
    <3>4. Q \subseteq S
      BY <1>3
    <3> QED BY <1>8, <2>1, <2>2, <2>9, <3>1, <3>2, <3>3, <3>4
  <2>11. Cardinality(T) = Cardinality(A) + Cardinality(H)
    BY <2>6, <2>8, <2>10, JoinedCount
  <2>12. copies'[m] = copies[m] - Cardinality(T)
    BY <2>9 DEF MultiTakes, TakeAll
  <2>13. copies[m] = Cardinality(B) + Cardinality(Cells(c, m)) + Cardinality(Holders(m))
    BY <1>6, <2>3 DEF MsgsHyp, MsgsOK, MsgCounted
  <2>14. Cardinality(Holders(m)) \in Nat /\ Cardinality(Cells(d, m)) \in Nat
    BY <1>1, CountsTyped, CellsCount
  <2>15. copies'[m] = Cardinality(B \ A) + Cardinality(Cells(d, m)) + Cardinality(Holders(m))
    BY <2>6, <2>7, <2>8, <2>11, <2>12, <2>13, <2>14
  <2> QED BY <1>2, <1>6, <2>5, <2>15 DEF MsgCounted
<1> QED BY <1>2, <1>11 DEF MsgsOK

LEMMA MsgsKeep ==
  ASSUME EventsInv, EventsInv', Plain, MsgsOK, [Next]_vars
  PROVE  MsgsOK'
<1>1. MsgsHyp
  BY DEF MsgsHyp
<1>2. CASE QuietStep
  <2>1. Stay /\ event' = event /\ OSQTbl' = OSQTbl /\ copies' = copies
    BY <1>2 DEF QuietStep, dataVars
  <2>2. StoreSame
    BY <2>1, DataStore DEF DataSame
  <2> QED BY <1>1, <2>1, <2>2, StayMsgs
<1>3. CASE MultiStep
  <2>1. ASSUME NEW es \in SUBSET Events, MultiWaits(es)
        PROVE  MsgsOK'
    BY <1>1, <2>1, WaitsMsgs DEF MultiWaits
  <2>2. ASSUME NEW c, MultiReturns(c)
        PROVE  MsgsOK'
    BY <1>1, <2>2, EndsMsgs DEF MultiReturns
  <2> QED BY <1>1, <1>3, <2>1, <2>2, MultiTakesMsgs DEF MultiStep
<1> QED BY <1>1, <1>2, <1>3, StepKinds, DelMsgs, SemMsgs, MboxMsgs, QMsgs

LEMMA MsgsStart ==
  ASSUME Init, Plain
  PROVE  MsgsOK
<1>1. EventsInv
  BY EventsStart
<1>2. \A t \in OSTCBList : pc[t] = "run"
  BY AppsAssumption DEF Init, InitTCBList
<1>3. \A e \in Events : Granted(e) = {}
  BY <1>2 DEF Granted
<1>4. \A e \in Events : event[e].ptr = NoMsg
  <2>1. ASSUME NEW e \in Events
        PROVE  event[e].ptr = NoMsg
    <3>1. app.kind[e] \in EventKinds \ {"mutex"} /\ event[e] = EventOf(app.kind[e])
      BY AppsAssumption DEF Init, Plain
    <3> QED BY <3>1 DEF EventOf, EventKinds, SemFresh, MboxFresh, QFresh, EventClear
  <2> QED BY <2>1
<1>5. \A e \in Events : OSQTbl[e].entries = 0
  BY DEF Init, QEmpty
<1>6. ASSUME NEW m \in Msgs
      PROVE  MsgCounted(m)
  <2>1. Boxes(m) = {}
    BY <1>4, CoreAssumption DEF Boxes
  <2>2. Holders(m) = {}
    BY <1>3 DEF Holders, MsgGranted
  <2>3. Cells(QueueContents, m) = {}
    <3>1. \A e \in Events : Len(QueueContents[e]) = 0
      <4>1. QueueInv
        BY <1>1 DEF EventsInv
      <4>2. \A e \in Events : ~IsQ(e) => Len(QueueContents[e]) = 0
        BY <4>1, ContentsTyped
      <4> QED BY <1>5, <4>1, <4>2, ContentsTyped DEF Entries
    <3>2. \A i \in 1..QSize : ~(i <= 0)
      BY QAssumption
    <3> QED BY <3>1, <3>2 DEF Cells
  <2>4. copies[m] = 0
    BY DEF Init
  <2> QED BY <2>1, <2>2, <2>3, <2>4, FS_EmptySet DEF MsgCounted
<1> QED BY <1>3, <1>6 DEF MsgsOK, NoSemMsgs

(* No message is lost or doubled: what was posted is in its mailbox, in    *)
(* its queue or with a task that was made ready for it, under every        *)
(* application that leaves mutexes and changes of priority alone and       *)
(* deletes an event only while nobody else is on the way to one (os_q.c,   *)
(* os_mbox.c, OSEventPendMulti).                                           *)
THEOREM MessagesAreConserved == Spec => [](Plain => MessagesConserved)
<1>1. Init => (Plain => MsgsOK)
  BY MsgsStart
<1>2. /\ Plain => EventsInv
      /\ (Plain => EventsInv)'
      /\ Plain => MsgsOK
      /\ [Next]_vars
      => (Plain => MsgsOK)'
  <2> SUFFICES ASSUME Plain => EventsInv, Plain' => EventsInv', Plain => MsgsOK, [Next]_vars, Plain'
               PROVE  MsgsOK'
    OBVIOUS
  <2>1. Plain
    BY AppStays DEF Plain
  <2> QED BY <2>1, MsgsKeep
<1>3. EventsInv /\ MsgsOK => MessagesConserved
  <2> SUFFICES ASSUME EventsInv, MsgsOK, NEW m \in Msgs
               PROVE  copies[m] =
                          Cardinality({e \in Events : IsMbox(e) /\ event[e].ptr = m})
                        + Cardinality({x \in Events \X (1..QSize) :
                            IsQ(x[1]) /\ x[2] <= Entries(x[1]) /\ Content(OSQTbl[x[1]])[x[2]] = m})
                        + Cardinality(UNION {MsgGranted(e, m) : e \in Events})
    BY DEF MessagesConserved
  <2>1. {x \in Events \X (1..QSize) :
           IsQ(x[1]) /\ x[2] <= Entries(x[1]) /\ Content(OSQTbl[x[1]])[x[2]] = m}
        = Cells(QueueContents, m)
    BY CellsAreSlots DEF EventsInv
  <2> QED BY <2>1 DEF MsgsOK, MsgCounted, Boxes, Holders
<1> QED BY <1>1, <1>2, <1>3, EventsAlwaysInv, PTL DEF Spec

-----------------------------------------------------------------------------
(* What is left of the types: the nesting of interrupts and locks, the     *)
(* times of the delays, and the counts of the semaphores.                  *)
Timed(n) == \E m \in Timeouts \cup Delays \cup {0} : n \in 0..m
TimesOK == \A t \in Tasks : Timed(tcb[t].dly)
NestingOK == OSIntNesting \in 0..MaxNesting /\ OSLockNesting \in 0..MaxLock + 1
CountsOK == \A e \in Events : event[e].cnt \in 0..SemMax

(* Only the brackets of interrupts and locks, and deletions, nest.         *)
LEMMA NestingStays ==
  ASSUME Semaphores \/ Mailboxes \/ Queues \/ SeveralEvents \/ EventFlags \/ Memory
  PROVE  OSIntNesting' = OSIntNesting /\ OSLockNesting' = OSLockNesting
<1>1. CASE Semaphores
  BY <1>1, Zenon DEF Semaphores, OSSemPend, OSSemPost, OSSemAccept, OSSemSet, OSSemPendAbort,
     OSSemCreate, OSSemDel, OSSemPendEnds, EventTaskWait, Wake, schedVars
<1>2. CASE Mailboxes
  BY <1>2, Zenon DEF Mailboxes, OSMboxPend, OSMboxPost, OSMboxPostOpt, OSMboxAccept,
     OSMboxPendAbort, OSMboxCreate, OSMboxDel, OSMboxPendEnds, MsgPendEnds, EventTaskWait, Wake,
     schedVars
<1>3. CASE Queues
  BY <1>3, Zenon DEF Queues, OSQPend, OSQPost, OSQPostFront, OSQPostOpt, PostAt, Append1, OSQAccept,
     OSQFlush, OSQPendAbort, OSQCreate, OSQDel, OSQPendEnds, MsgPendEnds, EventTaskWait, Wake,
     coreVars, schedVars
<1>4. CASE SeveralEvents
  BY <1>4, ZenonT(60) DEF SeveralEvents, OSEventPendMulti, OSEventPendMultiEnds, TakeAll, EventTaskWait,
     Wake, schedVars
<1>5. CASE EventFlags
  BY <1>5, ZenonT(60) DEF EventFlags, OSFlagPost, OSFlagCreate, OSFlagPend, OS_FlagBlock, OSFlagAccept,
     OSFlagDel, OSFlagPendEnds, coreVars, schedVars
<1>6. CASE Memory
  BY <1>6, Zenon DEF Memory, coreVars, schedVars
<1> QED BY <1>1, <1>2, <1>3, <1>4, <1>5, <1>6

LEMMA NestingKeeps ==
  ASSUME TasksOK, Plain, NestingOK, [Next]_vars
  PROVE  NestingOK'
<1>1. /\ OSIntNesting \in 0..MaxNesting /\ OSLockNesting \in 0..MaxLock + 1
      /\ MaxNesting \in Nat /\ MaxLock \in Nat
  BY CoreAssumption, TimeoutsAssumption DEF NestingOK
<1>2. CASE OSIntNesting' = OSIntNesting /\ OSLockNesting' = OSLockNesting
  BY <1>1, <1>2 DEF NestingOK
<1>3. CASE Scheduler
  <2>1. CASE OSIntEnter
    BY <1>1, <2>1 DEF OSIntEnter, NestingOK
  <2>2. CASE OSIntExit
    BY <1>1, <2>2 DEF OSIntExit, InISR, NestingOK
  <2>3. CASE OSSchedLock(MaxLock)
    BY <1>1, <2>3 DEF OSSchedLock, NestingOK
  <2>4. CASE OSSchedUnlock
    BY <1>1, <2>4 DEF OSSchedUnlock, Locked, NestingOK
  <2>5. CASE OS_Sched \/ OSTimeTick \/ (\E n : OSTimeDly(n)) \/ \E p : OSTimeDlyResume(p)
    BY <1>2, <2>5, Zenon DEF OS_Sched, OSTimeTick, OSTimeDly, OSTimeDlyResume, schedVars
  <2> QED BY <1>3, <2>1, <2>2, <2>3, <2>4, <2>5 DEF Scheduler
<1>4. CASE TaskManagement
  <2>1. CASE OSTaskDelEnds
    <3>1. Locked /\ OSLockNesting' = OSLockNesting - 1 /\ OSIntNesting' = OSIntNesting
      <4>1. OSTCBCur \in Tasks /\ pc[OSTCBCur] = "delete"
        BY <2>1 DEF OSTaskDelEnds, TasksOK, TypesOK, CurrentOK
      <4> QED BY <2>1, <4>1 DEF OSTaskDelEnds, TasksOK, DeletionOK
    <3> QED BY <1>1, <3>1 DEF Locked, NestingOK
  <2>2. CASE ~OSTaskDelEnds
    BY <1>2, <1>4, <2>2, Zenon DEF TaskManagement, OSTaskCreate, OS_TCBInit, OSTaskSuspend,
       OSTaskResume, OSTaskChangePrio, schedVars
  <2> QED BY <2>1, <2>2
<1>5. CASE TaskDeletion
  <2>1. PICK p \in Prios : OSTaskDel(p)
    BY <1>5 DEF TaskDeletion
  <2>2. /\ CanCall /\ ~InISR /\ "OSTaskDel" \in app.calls
        /\ OSLockNesting' = OSLockNesting + 1 /\ OSIntNesting' = OSIntNesting
    BY <1>5, <2>1 DEF TaskDeletion, OSTaskDel, TaskCalls, May
  <2>3. pc[OSTCBCur] = "run" /\ "lock" \notin app.calls
    BY <2>2 DEF CanCall, Plain
  <2>4. ~Locked
    BY <2>3 DEF TasksOK, LockOK
  <2> QED BY <1>1, <2>2, <2>4 DEF Locked, NestingOK
<1>6. CASE UNCHANGED vars
  BY <1>2, <1>6 DEF vars, coreVars, schedVars
<1> QED BY <1>2, <1>3, <1>4, <1>5, <1>6, NestingStays, NoMutexes DEF Next

-----------------------------------------------------------------------------
(* The time of a task is one it asked for, or less.                        *)
TimesShrink == \A t \in Tasks : tcb'[t].dly \in {tcb[t].dly, 0}

LEMMA NoTime == Timed(0)
<1>1. 0 \in 0..0
  OBVIOUS
<1> QED BY <1>1 DEF Timed

LEMMA TimeIsTimed ==
  ASSUME NEW n \in Timeouts \cup Delays
  PROVE  Timed(n)
<1>1. n \in 0..n
  BY TimeoutsAssumption
<1> QED BY <1>1 DEF Timed

LEMMA ShrinkKeepsTimes ==
  ASSUME TimesOK, TimesShrink
  PROVE  TimesOK'
<1> SUFFICES ASSUME NEW t \in Tasks PROVE Timed(tcb'[t].dly)
  BY DEF TimesOK, Timed
<1> QED BY NoTime DEF TimesOK, TimesShrink

LEMMA RdyTimes ==
  ASSUME TypesOK, NEW e, NEW S, NEW msg, NEW msk, NEW how,
         EventTaskRdy(e, S, msg, msk, how) \/ EventDelAlways(e, msk)
  PROVE  TimesShrink
<1>1. ASSUME NEW t \in Tasks, NEW m, NEW b, NEW h
      PROVE  Awoken(t, e, m, b, h).dly = 0
  <2>1. tcb[t] \in TCBs
    BY DEF TypesOK
  <2> QED BY <2>1 DEF Awoken, TCBs
<1> DEFINE MadeReady(W, m, b, h) ==
         tcb' = [t \in Tasks |-> IF t \in W THEN Awoken(t, e, m, b, h) ELSE tcb[t]]
<1>2. (\E W : MadeReady(W, msg, msk, how)) \/ (\E W : MadeReady(W, NoMsg, {msk}, "OK"))
  BY DEF EventTaskRdy, EventDelAlways
<1> QED BY <1>1, <1>2 DEF TimesShrink

LEMMA WaitTimes ==
  ASSUME TasksOK, TimesOK, NEW call, NEW bit, NEW es, NEW timeout \in app.timeouts,
         EventTaskWait(call, bit, es, timeout)
  PROVE  TimesOK'
<1>1. Timed(timeout)
  BY TimeIsTimed, AppsAssumption DEF TasksOK, TypesOK
<1>2. tcb \in [Tasks -> TCBs]
  BY DEF TasksOK, TypesOK
<1>3. ASSUME NEW t \in Tasks
      PROVE  tcb'[t].dly = timeout \/ tcb'[t].dly = tcb[t].dly
  <2>1. CASE t = OSTCBCur
    BY <1>2, <2>1 DEF EventTaskWait, TCBs
  <2>2. CASE t # OSTCBCur
    BY <1>2, <2>2 DEF EventTaskWait
  <2> QED BY <2>1, <2>2
<1> QED BY <1>1, <1>3 DEF TimesOK, Timed

LEMMA WakeTimes ==
  ASSUME TypesOK, NEW call, Wake(call)
  PROVE  TimesShrink
<1>1. tcb \in [Tasks -> TCBs]
  BY DEF TypesOK
<1>2. PICK x : tcb' = [tcb EXCEPT ![OSTCBCur] = [tcb[OSTCBCur] EXCEPT
       !.stat = {}, !.statPend = "OK", !.eventPtr = NoEvent, !.multi = {}, !.msg = x]]
  BY DEF Wake
<1> QED BY <1>1, <1>2 DEF TimesShrink, TCBs

(* The times of the control blocks change in these ways.                   *)
TimedOrLess(t) == \/ tcb'[t].dly \in {tcb[t].dly, 0}
                  \/ tcb[t].dly > 0 /\ tcb'[t].dly = tcb[t].dly - 1
                  \/ Timed(tcb'[t].dly)

LEMMA LessIsTimed ==
  ASSUME TypesOK, TimesOK, NEW t \in Tasks, TimedOrLess(t)
  PROVE  Timed(tcb'[t].dly)
<1>1. tcb[t].dly \in Nat
  BY DEF TypesOK, TCBs
<1>2. PICK m \in Timeouts \cup Delays \cup {0} : tcb[t].dly \in 0..m
  BY DEF TimesOK, Timed
<1>3. m \in Nat
  BY TimeoutsAssumption
<1>4. CASE tcb[t].dly > 0 /\ tcb'[t].dly = tcb[t].dly - 1
  <2>1. tcb'[t].dly \in 0..m
    BY <1>1, <1>2, <1>3, <1>4
  <2> QED BY <2>1 DEF Timed
<1> QED BY <1>2, <1>4, NoTime DEF TimedOrLess, TimesOK

LEMMA SchedulerTimes ==
  ASSUME TasksOK, TimesOK, Scheduler, NEW t \in Tasks
  PROVE  TimedOrLess(t)
<1>1. tcb \in [Tasks -> TCBs] /\ tcb[t].dly \in Nat /\ DOMAIN tcb[t] = DOMAIN TCBClear(0)
  BY DEF TasksOK, TypesOK, TCBs, TCBClear
<1>2. CASE tcb' = tcb
  BY <1>2 DEF TimedOrLess
<1>3. Expired(t).dly = 0
  BY <1>1 DEF Expired, TCBClear
<1>4. ASSUME NEW n \in Delays, OSTimeDly(n)
      PROVE  TimedOrLess(t)
  <2>1. Timed(n)
    BY TimeIsTimed
  <2>2. tcb'[t].dly = n \/ tcb'[t].dly = tcb[t].dly
    BY <1>1, <1>4 DEF OSTimeDly, TCBClear
  <2> QED BY <2>1, <2>2 DEF TimedOrLess
<1>5. ASSUME NEW p, OSTimeDlyResume(p)
      PROVE  TimedOrLess(t)
  BY <1>1, <1>3, <1>5 DEF OSTimeDlyResume, TimedOrLess
<1>6. CASE OSTimeTick
  BY <1>1, <1>3, <1>6 DEF OSTimeTick, TimedOrLess, TCBClear
<1>7. CASE OS_Sched \/ OSSchedLock(MaxLock) \/ OSSchedUnlock \/ OSIntEnter \/ OSIntExit
  BY <1>2, <1>7 DEF OS_Sched, OSSchedLock, OSSchedUnlock, OSIntEnter, OSIntExit, waitVars
<1> QED BY <1>4, <1>5, <1>6, <1>7 DEF Scheduler

LEMMA TaskTimes ==
  ASSUME TasksOK, TaskManagement \/ TaskDeletion, Plain, NEW t \in Tasks
  PROVE  TimedOrLess(t)
<1>1. tcb \in [Tasks -> TCBs] /\ DOMAIN tcb[t] = DOMAIN TCBClear(0)
  BY DEF TasksOK, TypesOK, TCBs, TCBClear
<1>2. CASE tcb' = tcb
  BY <1>2 DEF TimedOrLess
<1>3. ASSUME NEW p, OSTaskCreate(p)
      PROVE  TimedOrLess(t)
  BY <1>2, <1>3 DEF OSTaskCreate, waitVars
<1>4. ASSUME NEW u, NEW p, tcb' = [tcb EXCEPT ![u] = TCBClear(p)]
      PROVE  TimedOrLess(t)
  BY <1>1, <1>4 DEF TimedOrLess, TCBClear
<1>5. CASE OS_TCBInit \/ OSTaskDelEnds
  BY <1>2, <1>4, <1>5 DEF OS_TCBInit, OSTaskDelEnds
<1>6. ASSUME NEW p, OSTaskSuspend(p) \/ OSTaskResume(p)
      PROVE  TimedOrLess(t)
  BY <1>1, <1>6 DEF OSTaskSuspend, OSTaskResume, TimedOrLess, TCBClear
<1>7. ASSUME NEW p, OSTaskDel(p)
      PROVE  TimedOrLess(t)
  BY <1>1, <1>7 DEF OSTaskDel, TimedOrLess, TCBClear
<1>8. ~May("OSTaskChangePrio")
  BY DEF May, Plain
<1> QED BY <1>3, <1>5, <1>6, <1>7, <1>8 DEF TaskManagement, TaskDeletion

LEMMA FlagTimes ==
  ASSUME TasksOK, EventFlags, NEW t \in Tasks
  PROVE  TimedOrLess(t)
<1>1. /\ tcb \in [Tasks -> TCBs] /\ \A u \in Tasks : DOMAIN tcb[u] = DOMAIN TCBClear(0)
      /\ app.timeouts \subseteq Timeouts
  BY AppsAssumption DEF TasksOK, TypesOK, TCBs, TCBClear
<1>2. CASE tcb' = tcb
  BY <1>2 DEF TimedOrLess
<1>3. ASSUME NEW S, NEW rdy, OS_FlagTaskRdy(S, rdy)
      PROVE  TimedOrLess(t)
  BY <1>1, <1>3 DEF OS_FlagTaskRdy, TimedOrLess, TCBClear
<1>4. ASSUME NEW g, NEW f, NEW w, NEW b, NEW n \in app.timeouts, OS_FlagBlock(g, f, w, b, n)
      PROVE  TimedOrLess(t)
  <2>1. Timed(n)
    BY <1>1, TimeIsTimed
  <2>2. tcb'[t].dly = n \/ tcb'[t].dly = tcb[t].dly
    BY <1>1, <1>4 DEF OS_FlagBlock, TCBClear
  <2> QED BY <2>1, <2>2 DEF TimedOrLess
<1>5. CASE OSFlagPendEnds
  <2>1. tcb' = tcb \/ tcb' = [tcb EXCEPT ![OSTCBCur].statPend = "OK", ![OSTCBCur].stat = {}]
    BY <1>5 DEF OSFlagPendEnds
  <2> QED BY <1>1, <1>2, <2>1 DEF TimedOrLess, TCBClear
<1>6. ASSUME NEW g, NEW f, NEW set, OSFlagPost(g, f, set)
      PROVE  TimedOrLess(t)
  BY <1>3, <1>6 DEF OSFlagPost
<1>7. ASSUME NEW g, NEW b, OSFlagDel(g, b)
      PROVE  TimedOrLess(t)
  BY <1>3, <1>7 DEF OSFlagDel
<1>8. ASSUME NEW g, NEW f, NEW w, NEW c, NEW n \in app.timeouts, OSFlagPend(g, f, w, c, n)
      PROVE  TimedOrLess(t)
  BY <1>2, <1>4, <1>8 DEF OSFlagPend, coreVars, waitVars
<1>9. ASSUME NEW g, NEW f, NEW w, NEW c, OSFlagCreate(g, f) \/ OSFlagAccept(g, f, w, c)
      PROVE  TimedOrLess(t)
  BY <1>2, <1>9 DEF OSFlagCreate, OSFlagAccept, coreVars, waitVars
<1> QED BY <1>5, <1>6, <1>7, <1>8, <1>9 DEF EventFlags

(* The calls of semaphores, mailboxes and queues have three ways with      *)
(* control blocks.                                                         *)
SomeWait == \E call, bit, es : \E n \in app.timeouts : EventTaskWait(call, bit, es, n)
SomeRdy == \/ \E e, S, msg, msk, how : EventTaskRdy(e, S, msg, msk, how)
          \/ \E e, msk : EventDelAlways(e, msk)
SomeWake == \E call : Wake(call)

Handled == tcb' = tcb \/ SomeWait \/ SomeRdy \/ SomeWake

LEMMA Handling ==
  /\ \A call, bit, es : \A n \in app.timeouts : EventTaskWait(call, bit, es, n) => Handled
  /\ \A e, S, msg, msk, how : EventTaskRdy(e, S, msg, msk, how) => Handled
  /\ \A e, msk : EventDelAlways(e, msk) => Handled
  /\ \A call : Wake(call) => Handled
  /\ tcb' = tcb => Handled
<1>1. ASSUME NEW call, NEW bit, NEW es, NEW n \in app.timeouts, EventTaskWait(call, bit, es, n)
      PROVE  SomeWait
  BY <1>1, Zenon DEF SomeWait
<1>2. ASSUME NEW e, NEW S, NEW msg, NEW msk, NEW how, EventTaskRdy(e, S, msg, msk, how)
      PROVE  SomeRdy
  BY <1>2, Zenon DEF SomeRdy
<1>3. ASSUME NEW e, NEW msk, EventDelAlways(e, msk)
      PROVE  SomeRdy
  BY <1>3, Zenon DEF SomeRdy
<1>4. ASSUME NEW call, Wake(call)
      PROVE  SomeWake
  BY <1>4, Zenon DEF SomeWake
<1> QED BY <1>1, <1>2, <1>3, <1>4, Zenon DEF Handled

LEMMA SemTimes ==
  ASSUME Semaphores
  PROVE  Handled
<1>1. ASSUME NEW e \in Events, NEW n \in app.timeouts, OSSemPend(e, n)
      PROVE  Handled
  BY <1>1, Handling, Zenon DEF OSSemPend
<1>2. ASSUME NEW e \in Events, OSSemPost(e)
      PROVE  Handled
  BY <1>2, Handling, Zenon DEF OSSemPost
<1>3. ASSUME NEW e \in Events, NEW n, OSSemAccept(e) \/ OSSemSet(e, n) \/ OSSemCreate(e, n)
      PROVE  Handled
  BY <1>3, Handling, Zenon DEF OSSemAccept, OSSemSet, OSSemCreate
<1>4. ASSUME NEW e \in Events, NEW b, OSSemPendAbort(e, b) \/ OSSemDel(e, b)
      PROVE  Handled
  BY <1>4, Handling, Zenon DEF OSSemPendAbort, OSSemDel
<1>5. CASE OSSemPendEnds
  BY <1>5, Handling, Zenon DEF OSSemPendEnds
<1> QED BY <1>1, <1>2, <1>3, <1>4, <1>5 DEF Semaphores

LEMMA MboxTimes ==
  ASSUME Mailboxes
  PROVE  Handled
<1>1. ASSUME NEW e \in Events, NEW n \in app.timeouts, OSMboxPend(e, n)
      PROVE  Handled
  BY <1>1, Handling, Zenon DEF OSMboxPend
<1>2. ASSUME NEW e \in Events, NEW m, NEW b, NEW n, OSMboxPost(e, m) \/ OSMboxPostOpt(e, m, b, n)
      PROVE  Handled
  BY <1>2, Handling, Zenon DEF OSMboxPost, OSMboxPostOpt, PostToWaiters
<1>3. ASSUME NEW e \in Events, NEW m, OSMboxAccept(e) \/ OSMboxCreate(e, m)
      PROVE  Handled
  BY <1>3, Handling, Zenon DEF OSMboxAccept, OSMboxCreate
<1>4. ASSUME NEW e \in Events, NEW b, OSMboxPendAbort(e, b) \/ OSMboxDel(e, b)
      PROVE  Handled
  BY <1>4, Handling, Zenon DEF OSMboxPendAbort, OSMboxDel
<1>5. CASE OSMboxPendEnds
  BY <1>5, Handling, Zenon DEF OSMboxPendEnds, MsgPendEnds
<1> QED BY <1>1, <1>2, <1>3, <1>4, <1>5 DEF Mailboxes

LEMMA QTimes ==
  ASSUME Queues
  PROVE  Handled
<1>1. ASSUME NEW e \in Events, NEW n \in app.timeouts, OSQPend(e, n)
      PROVE  Handled
  BY <1>1, Handling DEF OSQPend, coreVars, waitVars
<1>2. ASSUME NEW e \in Events, NEW m, NEW f, Append1(e, m, f)
      PROVE  Handled
  BY <1>2, Handling DEF Append1, coreVars, waitVars
<1>3. ASSUME NEW e \in Events, NEW m, NEW b, NEW f, NEW n,
             OSQPost(e, m) \/ OSQPostFront(e, m) \/ OSQPostOpt(e, m, b, f, n)
      PROVE  Handled
  BY <1>2, <1>3, Handling, Zenon DEF OSQPost, OSQPostFront, PostAt, OSQPostOpt, PostToWaiters
<1>4. ASSUME NEW e \in Events, OSQAccept(e) \/ OSQFlush(e) \/ OSQCreate(e)
      PROVE  Handled
  BY <1>4, Handling DEF OSQAccept, OSQFlush, OSQCreate, coreVars, waitVars
<1>5. ASSUME NEW e \in Events, NEW b, OSQPendAbort(e, b) \/ OSQDel(e, b)
      PROVE  Handled
  BY <1>5, Handling, Zenon DEF OSQPendAbort, OSQDel
<1>6. CASE OSQPendEnds
  BY <1>6, Handling, Zenon DEF OSQPendEnds, MsgPendEnds
<1> QED BY <1>1, <1>3, <1>4, <1>5, <1>6 DEF Queues

LEMMA MultiTimes ==
  ASSUME SeveralEvents
  PROVE  Handled
<1>1. ASSUME NEW es, NEW n \in app.timeouts, OSEventPendMulti(es, n)
      PROVE  Handled
  BY <1>1, Handling, Zenon DEF OSEventPendMulti, TakeAll
<1>2. CASE OSEventPendMultiEnds
  BY <1>2, Handling, Zenon DEF OSEventPendMultiEnds
<1> QED BY <1>1, <1>2 DEF SeveralEvents

LEMMA TimesKeep ==
  ASSUME TasksOK, Plain, TimesOK, [Next]_vars
  PROVE  TimesOK'
<1>1. ASSUME \A t \in Tasks : TimedOrLess(t)
      PROVE  TimesOK'
  BY <1>1, LessIsTimed DEF TasksOK, TimesOK, Timed
<1>2. CASE tcb' = tcb
  BY <1>1, <1>2 DEF TimedOrLess
<1>3. CASE SomeWait
  BY <1>3, WaitTimes DEF SomeWait
<1>4. CASE SomeRdy
  BY <1>4, RdyTimes, ShrinkKeepsTimes DEF SomeRdy, TasksOK
<1>5. CASE SomeWake
  BY <1>5, WakeTimes, ShrinkKeepsTimes DEF SomeWake, TasksOK
<1>6. CASE Scheduler \/ TaskManagement \/ TaskDeletion \/ EventFlags
  BY <1>1, <1>6, SchedulerTimes, TaskTimes, FlagTimes
<1>7. CASE Semaphores \/ Mailboxes \/ Queues \/ SeveralEvents
  BY <1>2, <1>3, <1>4, <1>5, <1>7, SemTimes, MboxTimes, QTimes, MultiTimes
     DEF Handled
<1>8. CASE Memory \/ UNCHANGED vars
  BY <1>2, <1>8 DEF Memory, vars, coreVars, waitVars
<1> QED BY <1>6, <1>7, <1>8, NoMutexes DEF Next

-----------------------------------------------------------------------------
(* Nothing but the times and the nesting is left to follow.                *)
TimesInv == TimesOK /\ NestingOK

LEMMA TimesStart ==
  ASSUME Init
  PROVE  TimesInv
<1>1. \A t \in Tasks : tcb[t].dly = 0
  BY DEF Init, InitTCBList, TCBClear
<1>2. MaxNesting \in Nat /\ MaxLock \in Nat
  BY CoreAssumption, TimeoutsAssumption
<1> QED BY <1>1, <1>2, NoTime DEF Init, InitMisc, TimesInv, TimesOK, NestingOK

LEMMA TypesHold ==
  ASSUME EventsInv, SemOK, TimesInv, MemInv
  PROVE  TypeOK
<1>1. TasksOK /\ QueueInv /\ EventsOK
  BY DEF EventsInv
<1>2. OSTCBCur \in Tasks \cup {Idle} /\ OSPrioCur \in Prios /\ LowestPrio \in OSRdyTbl
  <2>1. TypesOK /\ CurrentOK /\ LowestPrio \in OSRdyTbl /\ LowestPrio \in Prios
    BY <1>1 DEF TasksOK, TypesOK, ReadyOK
  <2>2. ASSUME NEW t \in Tasks
        PROVE  tcb[t].prio \in Prios
    BY <2>1 DEF TypesOK, TCBs
  <2> QED BY <2>1, <2>2 DEF CurrentOK, TypesOK
<1>3. /\ OSTCBList \subseteq Tasks /\ OSRdyTbl \subseteq Prios
      /\ OSTCBPrioTbl \in [Prios -> Tasks \cup {Idle, NoTask, Reserved}]
      /\ pc \in [Tasks -> Places]
  BY <1>1 DEF TasksOK, TypesOK
<1>4. ASSUME NEW t \in Tasks
      PROVE  /\ tcb[t].prio \in Prios /\ tcb[t].stat \subseteq StatBits
             /\ tcb[t].statPend \in {"OK", "TO", "ABORT"}
             /\ \E n \in Timeouts \cup Delays \cup {0} : tcb[t].dly \in 0..n
             /\ tcb[t].eventPtr \in Events \cup {NoEvent} /\ tcb[t].multi \subseteq Events
             /\ tcb[t].msg \in Msgs \cup {NoMsg}
             /\ local[t].events \subseteq Events
  <2>1. tcb[t] \in TCBs /\ local[t] \in Locals
    BY <1>1 DEF TasksOK, TypesOK
  <2>2. Timed(tcb[t].dly)
    BY DEF TimesInv, TimesOK
  <2> QED BY <2>1, <2>2 DEF TCBs, Locals, Timed
<1>5. \A e \in Events : event[e].grp \subseteq Prios /\ event[e].pip \in Prios
  BY <1>1 DEF TasksOK, EventsTyped, QueueInv, Typed
<1>6. ASSUME NEW e \in Events
      PROVE  units[e] \in 0..SemMax + Cardinality(Tasks)
  <2>1. units[e] = event[e].cnt + Cardinality(SemGranted(e))
    BY DEF SemOK, SemCounted
  <2>2. event[e].cnt \in Nat /\ event[e].cnt <= SemMax
    BY <1>1 DEF EventsOK, AvailOK
  <2>3. SemGranted(e) \subseteq Tasks
    BY <1>3 DEF SemGranted, Granted
  <2>4. /\ Cardinality(SemGranted(e)) \in Nat /\ Cardinality(Tasks) \in Nat
        /\ Cardinality(SemGranted(e)) <= Cardinality(Tasks)
    BY <2>3, CoreAssumption, FS_Subset, FS_CardinalityType
  <2> QED BY <2>1, <2>2, <2>4, SemAssumption
<1>7. units \in [Events -> 0..SemMax + Cardinality(Tasks)]
  BY <1>1, <1>6 DEF EventsOK, UnitsTyped
<1>8. \A e \in Events : OSQTbl[e].entries \in 0..QSize
  BY <1>1 DEF QueueInv, RingOK, Rings
<1> QED BY <1>2, <1>3, <1>4, <1>5, <1>7, <1>8 DEF TypeOK, TimesInv, NestingOK, MemInv

(* The types, whatever the sizes of the kernel's tables, for every         *)
(* application that keeps to the rules of Plain and EventsOutlive: no      *)
(* nesting, delay, count, queue or partition leaves its range, and no task *)
(* loses its priority (os_core.c, os_sem.c, os_q.c, os_mem.c).             *)
THEOREM TypesKept == Spec => [](Plain /\ EventsOutlive => TypeOK)
<1>1. Init => (Plain => TimesInv)
  BY TimesStart
<1>2. (Plain => EventsInv) /\ (Plain => TimesInv) /\ [Next]_vars => (Plain => TimesInv)'
  <2> SUFFICES ASSUME Plain => EventsInv, Plain => TimesInv, [Next]_vars, Plain'
               PROVE  TimesInv'
    OBVIOUS
  <2>1. Plain
    BY AppStays DEF Plain
  <2>2. TasksOK /\ TimesOK /\ NestingOK
    BY <2>1 DEF EventsInv, TimesInv
  <2> QED BY <2>1, <2>2, TimesKeep, NestingKeeps DEF TimesInv
<1>3. EventsInv /\ SemOK /\ TimesInv /\ MemInv => TypeOK
  BY TypesHold
<1> QED BY <1>1, <1>2, <1>3, EventsAlwaysInv, UnitsInv, BlocksInv, PTL DEF Spec
=============================================================================
