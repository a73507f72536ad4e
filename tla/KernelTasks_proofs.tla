------------------------- MODULE KernelTasks_proofs -------------------------
(***************************************************************************)
(* Tasks, priorities and wait lists of the kernel: the scheduler runs who  *)
(* should run, and nobody is in a list he does not wait in, nor waits for  *)
(* flags that are there, for any number of tasks, priorities, events and   *)
(* flags and any plain application. Events are deleted with the care that  *)
(* Kernel's NobodyOnTheWay describes, here and in the two modules on top   *)
(* of this one.                                                            *)
(***************************************************************************)
EXTENDS Kernel, WellFoundedInduction, TLAPS

(* The applications of the theorems: they inherit no priority and change   *)
(* none, and one that deletes tasks neither locks the scheduler (a task    *)
(* that deletes itself would run on) nor resumes tasks from an interrupt   *)
(* (one could resume the task that is being deleted).                      *)
Plain ==
  /\ \A e \in Events : app.kind[e] # "mutex"
  /\ "OSMutexCreate" \notin app.calls
  /\ "OSTaskChangePrio" \notin app.calls \cup app.isr
  /\ "OSTaskDel" \in app.calls => "lock" \notin app.calls /\ "OSTaskResume" \notin app.isr

(* A task that waits for several events keeps the bits of those it was not *)
(* made ready by; OSTaskResume then takes it for one that waits.           *)
NoSuspendedMulti ==
  "OSEventPendMulti" \in app.calls => "OSTaskSuspend" \notin app.calls \cup app.isr

-----------------------------------------------------------------------------
Pending(t) == pc[t] \in {"pend", "wake"}
FlagListed(t) == \E g \in FlagGroups : t \in OSFlagWaitList[g]
Listed(t) == (\E e \in Events : tcb[t].prio \in Waiters(e)) \/ FlagListed(t)
Waits(t) == Listed(t) /\ tcb[t].statPend = "OK"
Bits(t) == tcb[t].stat \cap PendBits

(* The events in whose lists a task control block says that it is.         *)
Lists(t) == IF tcb[t].multi # {} THEN tcb[t].multi ELSE {tcb[t].eventPtr}

TCBs == [prio : Prios, stat : SUBSET StatBits, statPend : {"OK", "TO", "ABORT"}, dly : Nat,
         eventPtr : Events \cup {NoEvent}, multi : SUBSET Events, msg : Msgs \cup {NoMsg}]
CallNames == {"none", "sem", "mbox", "q", "multi", "flag"}
Locals == [call : CallNames, events : SUBSET Events, task : Tasks \cup {NoTask}, prio : Prios]
EventFields == {"type", "cnt", "pip", "ptr", "grp"}

TypesOK ==
  /\ app \in Apps
  /\ OSIntNesting \in Nat /\ OSLockNesting \in Nat /\ deferred \in BOOLEAN
  /\ OSTCBList \subseteq Tasks /\ OSRdyTbl \subseteq Prios
  /\ OSTCBPrioTbl \in [Prios -> Tasks \cup {Idle, NoTask, Reserved}]
  /\ tcb \in [Tasks -> TCBs]
  /\ pc \in [Tasks -> Places]
  /\ local \in [Tasks -> Locals]
  /\ OSFlagWaitList \in [FlagGroups -> SUBSET Tasks]
  /\ DOMAIN node = Tasks

(* The blocks of the table E are those of no mutex.                        *)
EventsTyped(E) ==
  /\ DOMAIN E = Events
  /\ \A e \in Events : /\ DOMAIN E[e] = EventFields
                       /\ E[e].grp \subseteq Prios
                       /\ E[e].type \in EventKinds \ {"mutex"}

(* The table of priorities and the tasks name each other, and a priority   *)
(* is reserved for each task that is being created.                        *)
TableOK ==
  /\ OSTCBPrioTbl[LowestPrio] = Idle
  /\ \A p \in Prios : OSTCBPrioTbl[p] = Idle => p = LowestPrio
  /\ \A t \in OSTCBList : OSTCBPrioTbl[tcb[t].prio] = t
  /\ \A p \in Prios : OSTCBPrioTbl[p] \in Tasks =>
       OSTCBPrioTbl[p] \in OSTCBList /\ tcb[OSTCBPrioTbl[p]].prio = p
  /\ \A c \in Tasks : pc[c] = "create" =>
       /\ OSTCBPrioTbl[local[c].prio] = Reserved
       /\ \A d \in Tasks : pc[d] = "create" /\ local[d].prio = local[c].prio => d = c

ReadyOK ==
  /\ LowestPrio \in OSRdyTbl
  /\ \A p \in OSRdyTbl : OSTCBPrioTbl[p] \in OSTCBList \cup {Idle}

(* The running task is the idle task, one that exists, or one that has     *)
(* deleted itself and is about to be switched out for good.                *)
CurrentOK ==
  \/ OSTCBCur = Idle /\ OSPrioCur = LowestPrio
  \/ OSTCBCur \in OSTCBList /\ OSPrioCur = tcb[OSTCBCur].prio
  \/ /\ OSTCBCur \in Tasks \ OSTCBList /\ pc[OSTCBCur] = "sched" /\ ~Locked
     /\ OSPrioCur \in Prios /\ OSTCBPrioTbl[OSPrioCur] = NoTask

(* With the scheduler unlocked a task in its own code is ready, and the    *)
(* highest that is unless it asked for no schedule.                        *)
SchedOK ==
  ~InISR /\ ~Locked /\ (OSTCBCur # Idle => pc[OSTCBCur] \in {"run", "wake", "create"}) =>
    OSPrioCur \in OSRdyTbl /\ (~deferred => OSPrioCur = Min(OSRdyTbl))

LockOK ==
  Locked => /\ OSTCBCur \in OSTCBList /\ ~Pending(OSTCBCur)
            /\ "lock" \notin app.calls => pc[OSTCBCur] = "delete" /\ OSLockNesting = 1

(* A task that is being deleted is out of all lists and stays out.         *)
DeletionOK ==
  \A u \in Tasks : pc[u] = "delete" =>
    /\ u = OSTCBCur /\ u \in OSTCBList /\ Locked /\ "OSTaskDel" \in app.calls
    /\ local[u].task \in OSTCBList /\ local[u].prio = tcb[local[u].task].prio
    /\ local[u].prio \notin OSRdyTbl /\ tcb[local[u].task].dly = 0 /\ ~Listed(local[u].task)

(* What a task that is in no pend has left behind; what its state says of  *)
(* the calls that were made.                                               *)
PendingOK ==
  \A t \in Tasks :
    /\ t \notin OSTCBList => ~Pending(t)
    /\ ~Pending(t) => local[t].events = {} /\ tcb[t].multi = {}
    /\ local[t].call = "multi" => "OSEventPendMulti" \in app.calls
    /\ local[t].call # "multi" => tcb[t].multi = {}
    /\ local[t].call = "flag" => local[t].events = {}
    /\ "SUSPEND" \in tcb[t].stat => "OSTaskSuspend" \in app.calls \cup app.isr
    /\ "MULTI" \in tcb[t].stat => local[t].call = "multi" /\ Pending(t)

(* Who is in an event's list is in a pend on it, and his control block     *)
(* knows.                                                                  *)
ListsOK ==
  \A e \in Events : \A p \in Waiters(e) :
    LET t == OSTCBPrioTbl[p] IN
    /\ t \in OSTCBList /\ Pending(t) /\ e \in local[t].events /\ e \in Lists(t)
    /\ event[e].type \in {"sem", "mbox", "q"}
    /\ local[t].call # "multi" => Bits(t) \subseteq {StatBit(e)}

FlagsOK ==
  \A g \in FlagGroups : \A t \in OSFlagWaitList[g] :
    /\ t \in OSTCBList /\ Pending(t) /\ local[t].call = "flag" /\ local[t].events = {}
    /\ node[t].grp = {g} /\ Bits(t) \subseteq {"FLAG"}

(* The bits and OSTCBStatPend tell whether a task in a list still waits or *)
(* has timed out.                                                          *)
WaitsOK ==
  \A t \in OSTCBList :
    /\ Listed(t) => \/ tcb[t].statPend = "OK" /\ Bits(t) # {}
                    \/ tcb[t].statPend = "TO" /\ Bits(t) = {} /\ tcb[t].dly = 0
    /\ Bits(t) # {} => Listed(t) \/ (Pending(t) /\ local[t].call = "multi")

RunnableOK ==
  \A t \in OSTCBList :
    /\ tcb[t].prio \in OSRdyTbl => "SUSPEND" \notin tcb[t].stat /\ tcb[t].dly = 0 /\ ~Waits(t)
    /\ /\ NoSuspendedMulti /\ ~BeingDeleted(t)
       /\ "SUSPEND" \notin tcb[t].stat /\ tcb[t].dly = 0 /\ ~Waits(t)
       => tcb[t].prio \in OSRdyTbl

TasksOK ==
  /\ TypesOK /\ EventsTyped(event)
  /\ TableOK /\ ReadyOK /\ CurrentOK /\ SchedOK /\ LockOK /\ DeletionOK /\ PendingOK
  /\ ListsOK /\ FlagsOK /\ WaitsOK /\ RunnableOK

-----------------------------------------------------------------------------
(* The wait lists stay, and the kinds of the events that somebody waits    *)
(* for.                                                                    *)
ListsStay ==
  /\ EventsTyped(event')
  /\ \A e \in Events : /\ event'[e].grp = event[e].grp
                       /\ event'[e].grp = {} \/ event'[e].type = event[e].type
  /\ OSFlagWaitList' = OSFlagWaitList /\ node' = node

LEMMA ListsStayFacts ==
  ASSUME ListsStay, tcb' = tcb
  PROVE  /\ \A t : FlagListed(t)' = FlagListed(t) /\ Listed(t)' = Listed(t) /\ Waits(t)' = Waits(t)
         /\ \A t : Bits(t)' = Bits(t) /\ Lists(t)' = Lists(t)
         /\ \A e \in Events : Waiters(e)' = Waiters(e) /\ (Waiters(e) # {} => StatBit(e)' = StatBit(e))
<1>1. \A t : FlagListed(t)' = FlagListed(t)
  BY DEF ListsStay, FlagListed
<1>2. \A e \in Events : Waiters(e)' = Waiters(e)
  BY DEF ListsStay, Waiters
<1>3. \A t : Listed(t)' = Listed(t) 
  BY <1>1, <1>2 DEF Listed
<1>4. \A t : Waits(t)' = Waits(t)
  BY <1>3 DEF Waits
<1>5. \A t : Bits(t)' = Bits(t) /\ Lists(t)' = Lists(t)
  BY DEF Bits, Lists
<1>6. \A e \in Events : Waiters(e) # {} => StatBit(e)' = StatBit(e)
  BY DEF ListsStay, StatBit, Waiters, IsSem, IsMbox, IsQ
<1> QED BY <1>1, <1>2, <1>3, <1>4, <1>5, <1>6

(* A call that only counts: no task and no list changes.                   *)
LEMMA QuietKeeps ==
  ASSUME TasksOK, ListsStay,
         UNCHANGED <<schedVars, listVars, OSRdyTbl, tcb, callVars, app>>
  PROVE  TasksOK'
<1>1. /\ OSTCBCur' = OSTCBCur /\ OSPrioCur' = OSPrioCur /\ deferred' = deferred
      /\ OSIntNesting' = OSIntNesting /\ OSLockNesting' = OSLockNesting
      /\ OSTCBList' = OSTCBList /\ OSTCBPrioTbl' = OSTCBPrioTbl
      /\ OSRdyTbl' = OSRdyTbl /\ tcb' = tcb /\ pc' = pc /\ local' = local /\ app' = app
  BY DEF schedVars, runVars, listVars, callVars
<1>2. /\ \A t : FlagListed(t)' = FlagListed(t) /\ Listed(t)' = Listed(t) /\ Waits(t)' = Waits(t)
      /\ \A t : Bits(t)' = Bits(t) /\ Lists(t)' = Lists(t) /\ Pending(t)' = Pending(t)
      /\ \A t : BeingDeleted(t)' = BeingDeleted(t)
      /\ \A e \in Events : Waiters(e)' = Waiters(e) /\ (Waiters(e) # {} => StatBit(e)' = StatBit(e))
  BY <1>1, ListsStayFacts DEF Pending, BeingDeleted
<1>3. /\ OSFlagWaitList' = OSFlagWaitList /\ node' = node /\ EventsTyped(event')
      /\ \A e \in Events : Waiters(e) # {} => event'[e].type = event[e].type
  BY DEF ListsStay, Waiters
<1>4. TypesOK'
  BY <1>1, <1>3 DEF TasksOK, TypesOK
<1>5. TableOK' /\ ReadyOK' /\ CurrentOK' /\ SchedOK' /\ LockOK'
  BY <1>1, <1>2 DEF TasksOK, TableOK, ReadyOK, CurrentOK, SchedOK, LockOK, InISR, Locked
<1>6. DeletionOK' /\ PendingOK'
  BY <1>1, <1>2 DEF TasksOK, DeletionOK, PendingOK, Locked
<1>7. ListsOK'
  BY <1>1, <1>2, <1>3 DEF TasksOK, ListsOK
<1>8. FlagsOK'
  BY <1>1, <1>2, <1>3 DEF TasksOK, FlagsOK
<1>9. WaitsOK' /\ RunnableOK'
  BY <1>1, <1>2 DEF TasksOK, WaitsOK, RunnableOK, NoSuspendedMulti
<1> QED BY <1>3, <1>4, <1>5, <1>6, <1>7, <1>8, <1>9 DEF TasksOK, EventsTyped

-----------------------------------------------------------------------------
LEMMA NatLessWellFounded == IsWellFoundedOn({x \in Nat \X Nat : x[1] < x[2]}, Nat)
<1>1. OpToRel(<,Nat) = {x \in Nat \X Nat : x[1] < x[2]}
  BY Zenon DEF OpToRel
<1> QED BY <1>1, NatLessThanWellFounded, Zenon

(* A set of naturals has its minimum.                                      *)
LEMMA MinOfSet ==
  ASSUME NEW S \in SUBSET Nat, S # {}
  PROVE  Min(S) \in S /\ \A y \in S : Min(S) <= y
<1> DEFINE R == {x \in Nat \X Nat : x[1] < x[2]}
<1>1. PICK x \in S : \A y \in S : ~(<<y, x>> \in R)
  BY NatLessWellFounded, WFMin, Zenon
<1>2. \A y \in S : x <= y
  <2> TAKE y \in S
  <2>1. x \in Nat /\ y \in Nat /\ ~(<<y, x>> \in R)
    BY <1>1
  <2> QED BY <2>1
<1> QED BY <1>2, Zenon DEF Min

LEMMA PriosAreNat == Prios \subseteq Nat /\ LowestPrio \in Prios
BY CoreAssumption DEF Prios

LEMMA HighestIsReady ==
  ASSUME OSRdyTbl \subseteq Prios, LowestPrio \in OSRdyTbl
  PROVE  Min(OSRdyTbl) \in OSRdyTbl /\ \A p \in OSRdyTbl : Min(OSRdyTbl) <= p
BY MinOfSet, PriosAreNat

-----------------------------------------------------------------------------
(* The scheduler: the running task goes on behind its OS_Sched, or another *)
(* one runs.                                                               *)
LEMMA SwitchKeeps ==
  ASSUME TasksOK, UNCHANGED <<listVars, waitVars, local, OSFlagWaitList, node, app>>,
         OSIntNesting' \in Nat, OSLockNesting' \in Nat, deferred' \in BOOLEAN,
         pc' \in [Tasks -> Places],
         \A t \in Tasks : /\ pc'[t] \in {"pend", "wake"} <=> pc[t] \in {"pend", "wake"}
                          /\ pc'[t] = "delete" <=> pc[t] = "delete"
                          /\ pc'[t] = "create" <=> pc[t] = "create",
         (\E u \in Tasks : pc[u] = "delete") => OSTCBCur' = OSTCBCur /\ Locked',
         CurrentOK', SchedOK', LockOK'
  PROVE  TasksOK'
<1>1. /\ OSTCBList' = OSTCBList /\ OSTCBPrioTbl' = OSTCBPrioTbl
      /\ OSRdyTbl' = OSRdyTbl /\ tcb' = tcb /\ local' = local /\ app' = app /\ event' = event
      /\ OSFlagWaitList' = OSFlagWaitList /\ node' = node
  BY DEF waitVars, listVars
<1>2. ListsStay
  BY <1>1 DEF ListsStay, TasksOK, EventsTyped
<1>3. /\ \A t : FlagListed(t)' = FlagListed(t) /\ Listed(t)' = Listed(t) /\ Waits(t)' = Waits(t)
      /\ \A t : Bits(t)' = Bits(t) /\ Lists(t)' = Lists(t)
      /\ \A e \in Events : Waiters(e)' = Waiters(e) /\ (Waiters(e) # {} => StatBit(e)' = StatBit(e))
  BY <1>1, <1>2, ListsStayFacts
<1>4. OSTCBList \subseteq Tasks /\ \A t \in Tasks : Pending(t)' = Pending(t)
  BY DEF Pending, TasksOK, TypesOK
<1>a. \A t \in OSTCBList : BeingDeleted(t)' = BeingDeleted(t)
  BY <1>1, <1>4 DEF BeingDeleted
<1>5. TypesOK' /\ EventsTyped(event')
  BY <1>1 DEF TasksOK, TypesOK
<1>6. TableOK' /\ ReadyOK'
  BY <1>1 DEF TasksOK, TableOK, ReadyOK
<1>7. DeletionOK'
  BY <1>1, <1>3 DEF TasksOK, DeletionOK
<1>8. PendingOK'
  BY <1>1, <1>4 DEF TasksOK, PendingOK
<1>9. ListsOK'
  BY <1>1, <1>3, <1>4 DEF TasksOK, ListsOK
<1>10. FlagsOK'
  BY <1>1, <1>3, <1>4 DEF TasksOK, FlagsOK
<1>11. WaitsOK' /\ RunnableOK'
  BY <1>1, <1>3, <1>4, <1>a DEF TasksOK, WaitsOK, RunnableOK, NoSuspendedMulti
<1> QED BY <1>5, <1>6, <1>7, <1>8, <1>9, <1>10, <1>11 DEF TasksOK

(* Where OS_SchedNew leads: to the highest task that is ready.             *)
LEMMA SchedNewFacts ==
  ASSUME TypesOK, TableOK, ReadyOK, CurrentOK, OS_SchedNew, OSRdyTbl' = OSRdyTbl
  PROVE  /\ OSPrioCur' = Min(OSRdyTbl) /\ OSPrioCur' \in OSRdyTbl /\ deferred' = FALSE
         /\ \/ OSTCBCur' = Idle /\ OSPrioCur' = LowestPrio
            \/ OSTCBCur' \in OSTCBList /\ OSPrioCur' = tcb[OSTCBCur'].prio
<1>1. /\ Min(OSRdyTbl) \in OSRdyTbl /\ Min(OSRdyTbl) \in Prios
      /\ OSTCBPrioTbl[Min(OSRdyTbl)] \in OSTCBList \cup {Idle}
  BY HighestIsReady DEF TypesOK, ReadyOK
<1>2. CASE Min(OSRdyTbl) # OSPrioCur
  <2>1. OSTCBCur' = OSTCBPrioTbl[Min(OSRdyTbl)] /\ OSPrioCur' = Min(OSRdyTbl) /\ deferred' = FALSE
    BY <1>2 DEF OS_SchedNew, OSPrioHighRdy
  <2> QED BY <1>1, <2>1, CoreAssumption DEF TypesOK, TableOK
<1>3. CASE Min(OSRdyTbl) = OSPrioCur
  <2>1. OSTCBCur' = OSTCBCur /\ OSPrioCur' = OSPrioCur /\ deferred' = FALSE
    BY <1>3 DEF OS_SchedNew, OSPrioHighRdy
  <2>2. OSTCBPrioTbl[OSPrioCur] # NoTask
    BY <1>1, <1>3, CoreAssumption DEF TypesOK
  <2> QED BY <1>1, <1>3, <2>1, <2>2 DEF CurrentOK
<1> QED BY <1>2, <1>3

LEMMA OS_SchedKeeps ==
  ASSUME TasksOK, OS_Sched, UNCHANGED <<flagVars, app>>
  PROVE  TasksOK'
<1>1. /\ TypesOK /\ TableOK /\ ReadyOK /\ CurrentOK /\ SchedOK /\ LockOK /\ DeletionOK
      /\ OSTCBCur \in Tasks /\ ~InISR /\ pc[OSTCBCur] \in {"sched", "pend"}
  BY CoreAssumption DEF TasksOK, OS_Sched, CurrentOK, TypesOK
<1>2. /\ UNCHANGED <<listVars, waitVars, local, OSFlagWaitList, node, app>>
      /\ OSIntNesting' = OSIntNesting /\ OSLockNesting' = OSLockNesting
      /\ OSRdyTbl' = OSRdyTbl /\ tcb' = tcb /\ OSTCBList' = OSTCBList
      /\ pc' = [pc EXCEPT ![OSTCBCur] = IF pc[OSTCBCur] = "sched" THEN "run" ELSE "wake"]
  BY DEF OS_Sched, flagVars, listVars, waitVars
<1>3. pc' \in [Tasks -> Places] /\ \A t \in Tasks : t # OSTCBCur => pc'[t] = pc[t]
  BY <1>1, <1>2 DEF TypesOK, Places
<1>4. /\ pc[OSTCBCur] = "sched" => pc'[OSTCBCur] = "run"
      /\ pc[OSTCBCur] = "pend" => pc'[OSTCBCur] = "wake"
  BY <1>1, <1>2 DEF TypesOK
<1>5. CASE Locked
  <2>1. OSTCBCur' = OSTCBCur /\ OSPrioCur' = OSPrioCur /\ deferred' = deferred /\ Locked'
        /\ OSTCBCur \in OSTCBList /\ pc[OSTCBCur] = "sched"
    BY <1>1, <1>2, <1>5 DEF OS_Sched, runVars, Locked, LockOK, Pending
  <2>2. CurrentOK' /\ SchedOK' /\ LockOK'
    BY <1>1, <1>2, <1>4, <1>5, <2>1 DEF CurrentOK, SchedOK, LockOK, Pending
  <2> QED BY <1>1, <1>2, <1>3, <1>4, <2>1, <2>2, SwitchKeeps DEF TypesOK
<1>6. CASE ~Locked
  <2>1. /\ OSPrioCur' = Min(OSRdyTbl) /\ OSPrioCur' \in OSRdyTbl /\ deferred' = FALSE
        /\ \/ OSTCBCur' = Idle /\ OSPrioCur' = LowestPrio
           \/ OSTCBCur' \in OSTCBList /\ OSPrioCur' = tcb[OSTCBCur'].prio
    BY <1>1, <1>2, <1>6, SchedNewFacts DEF OS_Sched
  <2>2. CurrentOK' /\ SchedOK' /\ LockOK' /\ ~Locked'
    BY <1>1, <1>2, <1>6, <2>1 DEF CurrentOK, SchedOK, LockOK, Locked
  <2>3. ~\E u \in Tasks : pc[u] = "delete"
    BY <1>1, <1>6 DEF DeletionOK
  <2> QED BY <1>1, <1>2, <1>3, <1>4, <2>1, <2>2, <2>3, SwitchKeeps DEF TypesOK
<1> QED BY <1>5, <1>6

LEMMA InterruptKeeps ==
  ASSUME TasksOK, OSIntEnter \/ OSIntExit, UNCHANGED <<flagVars, app>>
  PROVE  TasksOK'
<1>1. TypesOK /\ TableOK /\ ReadyOK /\ CurrentOK /\ SchedOK /\ LockOK /\ DeletionOK
  BY DEF TasksOK
<1>2. /\ UNCHANGED <<listVars, waitVars, local, OSFlagWaitList, node, app>>
      /\ OSLockNesting' = OSLockNesting /\ pc' = pc
      /\ OSRdyTbl' = OSRdyTbl /\ tcb' = tcb /\ OSTCBList' = OSTCBList /\ OSTCBPrioTbl' = OSTCBPrioTbl
  BY DEF OSIntEnter, OSIntExit, flagVars, listVars, waitVars, callVars
<1>3. OSIntNesting' \in Nat /\ (OSIntEnter => OSIntNesting' > 0) /\ Locked' = Locked
  BY <1>1, <1>2 DEF OSIntEnter, OSIntExit, InISR, TypesOK, Locked
<1>4. CASE UNCHANGED runVars
  <2>1. OSTCBCur' = OSTCBCur /\ OSPrioCur' = OSPrioCur /\ deferred' = deferred
    BY <1>4 DEF runVars
  <2>2. CurrentOK' /\ LockOK'
    BY <1>1, <1>2, <1>3, <2>1 DEF CurrentOK, LockOK, Pending
  <2>3. InISR' \/ Locked' \/ OS_SchedNew
    BY <1>1, <1>3 DEF InISR, TypesOK, OSIntExit
  <2>4. SchedOK'
    BY <1>1, <1>2, <2>1, <2>3, SchedNewFacts DEF SchedOK
  <2>5. (\E u \in Tasks : pc[u] = "delete") => Locked'
    BY <1>1, <1>3 DEF DeletionOK
  <2> QED BY <1>1, <1>2, <1>3, <2>1, <2>2, <2>4, <2>5, SwitchKeeps DEF TypesOK
<1>5. CASE OS_SchedNew /\ ~Locked
  <2>1. /\ OSPrioCur' = Min(OSRdyTbl) /\ OSPrioCur' \in OSRdyTbl /\ deferred' = FALSE
        /\ \/ OSTCBCur' = Idle /\ OSPrioCur' = LowestPrio
           \/ OSTCBCur' \in OSTCBList /\ OSPrioCur' = tcb[OSTCBCur'].prio
    BY <1>1, <1>2, <1>5, SchedNewFacts
  <2>2. CurrentOK' /\ SchedOK' /\ LockOK'
    BY <1>1, <1>2, <1>3, <1>5, <2>1 DEF CurrentOK, SchedOK, LockOK
  <2>3. ~\E u \in Tasks : pc[u] = "delete"
    BY <1>1, <1>5 DEF DeletionOK
  <2> QED BY <1>1, <1>2, <1>3, <2>1, <2>2, <2>3, SwitchKeeps DEF TypesOK
<1> QED BY <1>4, <1>5 DEF OSIntEnter, OSIntExit

(* Who makes a call that not every interrupt routine can make: a task that *)
(* exists, with its own priority.                                          *)
LEMMA CallerExists ==
  ASSUME TypesOK, CurrentOK, CanCall, ~InISR
  PROVE  OSTCBCur \in OSTCBList /\ OSTCBCur \in Tasks /\ OSPrioCur = tcb[OSTCBCur].prio
         /\ pc[OSTCBCur] = "run" /\ OSTCBCur # Idle
BY DEF CanCall, CurrentOK, TypesOK

LEMMA LockKeeps ==
  ASSUME TasksOK, "lock" \in app.calls, OSSchedLock(MaxLock) \/ OSSchedUnlock,
         UNCHANGED <<flagVars, app>>
  PROVE  TasksOK'
<1>1. TypesOK /\ TableOK /\ ReadyOK /\ CurrentOK /\ SchedOK /\ LockOK /\ DeletionOK
  BY DEF TasksOK
<1>2. ~InISR /\ OSTCBCur \in OSTCBList /\ OSTCBCur \in Tasks /\ pc[OSTCBCur] = "run"
  BY <1>1, CallerExists DEF OSSchedLock, OSSchedUnlock, TaskCalls
<1>3. /\ UNCHANGED <<listVars, waitVars, local, OSFlagWaitList, node, app>>
      /\ OSTCBCur' = OSTCBCur /\ OSPrioCur' = OSPrioCur /\ deferred' = deferred
      /\ OSIntNesting' = OSIntNesting /\ app' = app
      /\ OSRdyTbl' = OSRdyTbl /\ tcb' = tcb /\ OSTCBList' = OSTCBList
  BY DEF OSSchedLock, OSSchedUnlock, flagVars, listVars, waitVars, callVars, runVars, CallSched, Return
<1>4. /\ OSLockNesting' \in Nat
      /\ pc' = pc \/ pc' = [pc EXCEPT ![OSTCBCur] = "sched"]
      /\ OSLockNesting' = 0 => pc' = [pc EXCEPT ![OSTCBCur] = "sched"]
  BY <1>1, <1>2 DEF TypesOK, OSSchedLock, OSSchedUnlock, Locked, CallSched, Return, callVars, InISR
<1>5. /\ pc' \in [Tasks -> Places] /\ \A t \in Tasks : t # OSTCBCur => pc'[t] = pc[t]
      /\ pc'[OSTCBCur] \in {"run", "sched"} /\ (OSLockNesting' = 0 => pc'[OSTCBCur] = "sched")
  BY <1>1, <1>2, <1>4 DEF TypesOK, Places
<1>6. CurrentOK' /\ LockOK'
  BY <1>1, <1>2, <1>3, <1>5 DEF CurrentOK, LockOK, Pending, TypesOK
<1>7. SchedOK'
  BY <1>2, <1>3, <1>4, <1>5, CoreAssumption DEF SchedOK, Locked
<1>8. ~\E u \in Tasks : pc[u] = "delete"
  BY <1>1, <1>2 DEF DeletionOK
<1> QED BY <1>1, <1>2, <1>3, <1>4, <1>5, <1>6, <1>7, <1>8, SwitchKeeps DEF TypesOK

-----------------------------------------------------------------------------
(* A call of the running task, or of an interrupt: it ends in OS_Sched or  *)
(* at once, and moves no task in the table.                                *)
CallFrame ==
  /\ CanCall
  /\ OSTCBCur' = OSTCBCur /\ OSPrioCur' = OSPrioCur
  /\ OSIntNesting' = OSIntNesting /\ OSLockNesting' = OSLockNesting
  /\ OSTCBList' = OSTCBList /\ OSTCBPrioTbl' = OSTCBPrioTbl
  /\ local' = local /\ node' = node /\ app' = app
  /\ pc' = pc \/ (~InISR /\ pc' = [pc EXCEPT ![OSTCBCur] = "sched"])

(* Tasks leave lists, and nothing else happens to the lists.               *)
ListsShrink ==
  /\ EventsTyped(event')
  /\ \A e \in Events : /\ event'[e].grp \subseteq event[e].grp
                       /\ event'[e].grp = {} \/ event'[e].type = event[e].type
  /\ \A g \in FlagGroups : OSFlagWaitList'[g] \subseteq OSFlagWaitList[g]

(* What such a call may do to a control block and to the ready list.       *)
BlocksChange ==
  /\ \A t \in Tasks :
       /\ tcb'[t].prio = tcb[t].prio /\ tcb'[t].multi = tcb[t].multi
       /\ tcb'[t].stat \subseteq tcb[t].stat \cup {"SUSPEND"}
       /\ "SUSPEND" \in tcb'[t].stat =>
            "SUSPEND" \in tcb[t].stat \/ "OSTaskSuspend" \in app.calls \cup app.isr
  /\ \A t \in OSTCBList :
       /\ Listed(t)' => tcb'[t].eventPtr = tcb[t].eventPtr
       /\ BeingDeleted(t) => /\ tcb'[t].dly = tcb[t].dly
                             /\ tcb[t].prio \in OSRdyTbl' => tcb[t].prio \in OSRdyTbl
  /\ LowestPrio \in OSRdyTbl'
  /\ \A p \in OSRdyTbl' : p \in OSRdyTbl \/ \E t \in OSTCBList : p = tcb[t].prio

LEMMA FrameFacts ==
  ASSUME TypesOK, CurrentOK, CallFrame
  PROVE  /\ pc' \in [Tasks -> Places]
         /\ \A t \in Tasks : /\ Pending(t)' = Pending(t)
                             /\ pc'[t] = "delete" <=> pc[t] = "delete"
                             /\ pc'[t] = "create" <=> pc[t] = "create"
                             /\ t # OSTCBCur => pc'[t] = pc[t]
         /\ OSTCBCur \in Tasks => pc'[OSTCBCur] = pc[OSTCBCur] \/ pc'[OSTCBCur] = "sched"
         /\ Locked' = Locked /\ InISR' = InISR
         /\ \A t \in OSTCBList : BeingDeleted(t)' = BeingDeleted(t)
<1>1. CASE pc' = pc
  BY <1>1 DEF TypesOK, CallFrame, Pending, Locked, InISR, BeingDeleted
<1>2. CASE ~InISR /\ pc' = [pc EXCEPT ![OSTCBCur] = "sched"]
  <2>1. OSTCBCur \in Tasks /\ pc[OSTCBCur] = "run"
    BY <1>2, CallerExists DEF CallFrame
  <2>2. pc' \in [Tasks -> Places] /\ \A t \in Tasks : t # OSTCBCur => pc'[t] = pc[t]
    BY <1>2, <2>1 DEF TypesOK, Places
  <2>3. pc'[OSTCBCur] = "sched"
    BY <1>2, <2>1 DEF TypesOK
  <2>4. \A t \in Tasks : /\ Pending(t)' = Pending(t)
                         /\ pc'[t] = "delete" <=> pc[t] = "delete"
                         /\ pc'[t] = "create" <=> pc[t] = "create"
    BY <2>1, <2>2, <2>3 DEF Pending
  <2> QED BY <2>2, <2>3, <2>4 DEF CallFrame, Locked, InISR, BeingDeleted, TypesOK
<1> QED BY <1>1, <1>2 DEF CallFrame

(* A call that lets tasks go from lists and makes them ready, or takes     *)
(* them from the ready list.                                               *)
LEMMA CallKeeps ==
  ASSUME TasksOK, CallFrame, ListsShrink, BlocksChange,
         TypesOK', SchedOK', WaitsOK', RunnableOK'
  PROVE  TasksOK'
<1>1. /\ TypesOK /\ TableOK /\ ReadyOK /\ CurrentOK /\ LockOK /\ DeletionOK /\ PendingOK
      /\ ListsOK /\ FlagsOK
  BY DEF TasksOK
<1>2. /\ \A t \in Tasks : /\ Pending(t)' = Pending(t)
                          /\ pc'[t] = "delete" <=> pc[t] = "delete"
                          /\ pc'[t] = "create" <=> pc[t] = "create"
                          /\ t # OSTCBCur => pc'[t] = pc[t]
      /\ OSTCBCur \in Tasks => pc'[OSTCBCur] = pc[OSTCBCur] \/ pc'[OSTCBCur] = "sched"
      /\ Locked' = Locked /\ InISR' = InISR
  BY <1>1, FrameFacts
<1>3. OSTCBList \subseteq Tasks
  BY <1>1 DEF TypesOK
<1>4. TableOK'
  BY <1>1, <1>2, <1>3 DEF TableOK, CallFrame, BlocksChange
<1>5. ReadyOK'
  BY <1>1, <1>3 DEF ReadyOK, TableOK, CallFrame, BlocksChange
<1>6. CurrentOK'
  BY <1>1, <1>2, <1>3 DEF CurrentOK, CallFrame, BlocksChange
<1>7. LockOK'
  <2>1. Locked /\ "lock" \notin app.calls => pc'[OSTCBCur] = "delete"
    BY <1>1, <1>2, <1>3 DEF LockOK
  <2> QED BY <1>1, <1>2, <1>3, <2>1 DEF LockOK, CallFrame
<1>8. \A t \in OSTCBList : Listed(t)' => Listed(t)
  BY <1>3 DEF Listed, FlagListed, Waiters, ListsShrink, BlocksChange
<1>9. DeletionOK'
  <2> SUFFICES ASSUME NEW u \in Tasks, pc[u] = "delete"
               PROVE  /\ tcb'[local[u].task].dly = 0 /\ tcb'[local[u].task].prio = local[u].prio
                      /\ local[u].prio \notin OSRdyTbl' /\ ~Listed(local[u].task)'
    BY <1>1, <1>2 DEF DeletionOK, CallFrame
  <2>1. PICK x : x = local[u].task
    OBVIOUS
  <2>2. /\ u \in OSTCBList /\ x \in OSTCBList /\ ~Listed(x) /\ local[u].prio = tcb[x].prio
        /\ local[u].prio \notin OSRdyTbl /\ tcb[x].dly = 0
    BY <1>1, <2>1 DEF DeletionOK
  <2>3. BeingDeleted(x)
    BY <2>1, <2>2 DEF BeingDeleted
  <2>4. x \in Tasks /\ ~Listed(x)'
    BY <1>3, <1>8, <2>2
  <2>5. tcb'[x].dly = 0 /\ tcb'[x].prio = local[u].prio /\ local[u].prio \notin OSRdyTbl'
    BY <2>2, <2>3, <2>4 DEF BlocksChange
  <2> QED BY <2>1, <2>4, <2>5 DEF CallFrame, Listed, FlagListed, Waiters
<1>10. PendingOK'
  <2> SUFFICES ASSUME NEW t \in Tasks
               PROVE  /\ t \notin OSTCBList => ~Pending(t)
                      /\ ~Pending(t) => local[t].events = {} /\ tcb'[t].multi = {}
                      /\ local[t].call = "multi" => "OSEventPendMulti" \in app.calls
                      /\ local[t].call # "multi" => tcb'[t].multi = {}
                      /\ local[t].call = "flag" => local[t].events = {}
                      /\ "SUSPEND" \in tcb'[t].stat => "OSTaskSuspend" \in app.calls \cup app.isr
                      /\ "MULTI" \in tcb'[t].stat => local[t].call = "multi" /\ Pending(t)
    BY <1>2 DEF PendingOK, CallFrame
  <2> QED BY <1>1 DEF PendingOK, BlocksChange
<1>11. ListsOK'
  <2> SUFFICES ASSUME NEW e \in Events, NEW p \in event'[e].grp,
                      NEW t, t = OSTCBPrioTbl[p]
               PROVE  /\ t \in OSTCBList /\ Pending(t)' /\ e \in local[t].events /\ e \in Lists(t)'
                      /\ event'[e].type \in {"sem", "mbox", "q"}
                      /\ local[t].call # "multi" => Bits(t)' \subseteq {StatBit(e)'}
    BY DEF ListsOK, CallFrame, Waiters
  <2>1. /\ p \in event[e].grp /\ event'[e].type = event[e].type
        /\ p \in Prios
    BY DEF ListsShrink, EventsTyped
  <2>2. /\ t \in OSTCBList /\ Pending(t) /\ e \in local[t].events /\ e \in Lists(t)
        /\ event[e].type \in {"sem", "mbox", "q"}
        /\ local[t].call # "multi" => Bits(t) \subseteq {StatBit(e)}
    BY <1>1, <2>1 DEF ListsOK, Waiters
  <2>3. tcb[t].prio = p /\ t \in Tasks
    BY <1>1, <1>3, <2>1, <2>2 DEF TableOK
  <2>4. Listed(t)'
    BY <2>1, <2>3 DEF Listed, Waiters, BlocksChange
  <2>5. Lists(t)' = Lists(t) /\ Bits(t)' \subseteq Bits(t) /\ StatBit(e)' = StatBit(e)
    BY <2>1, <2>2, <2>3, <2>4 DEF Lists, Bits, StatBit, IsSem, IsMbox, IsQ, BlocksChange, PendBits
  <2> QED BY <1>2, <2>1, <2>2, <2>3, <2>5
<1>12. FlagsOK'
  <2> SUFFICES ASSUME NEW g \in FlagGroups, NEW t \in OSFlagWaitList'[g]
               PROVE  /\ t \in OSTCBList /\ Pending(t)' /\ local[t].call = "flag"
                      /\ local[t].events = {} /\ node[t].grp = {g} /\ Bits(t)' \subseteq {"FLAG"}
    BY DEF FlagsOK, CallFrame
  <2>1. t \in OSFlagWaitList[g]
    BY DEF ListsShrink
  <2>2. /\ t \in OSTCBList /\ Pending(t) /\ local[t].call = "flag" /\ local[t].events = {}
        /\ node[t].grp = {g} /\ Bits(t) \subseteq {"FLAG"}
    BY <1>1, <2>1 DEF FlagsOK
  <2>3. Bits(t)' \subseteq Bits(t)
    BY <1>3, <2>2 DEF Bits, BlocksChange, PendBits
  <2> QED BY <1>2, <1>3, <2>2, <2>3
<1> QED
  BY <1>4, <1>5, <1>6, <1>7, <1>9, <1>10, <1>11, <1>12 DEF TasksOK, ListsShrink, EventsTyped

(* In an interrupt, or before an OS_Sched, the order of the ready list is  *)
(* nobody's concern yet.                                                   *)
LEMMA CallSchedOK ==
  ASSUME TypesOK, CurrentOK, SchedOK, CallFrame, OSRdyTbl' \subseteq Prios,
         \/ InISR
         \/ pc' = [pc EXCEPT ![OSTCBCur] = "sched"]
         \/ OSRdyTbl \subseteq OSRdyTbl' /\ deferred' = TRUE
         \/ OSRdyTbl' = OSRdyTbl /\ deferred' = deferred
         \/ deferred' = deferred /\ \E p : p # OSPrioCur /\ OSRdyTbl' = OSRdyTbl \ {p}
  PROVE  SchedOK'
<1>1. CASE InISR
  BY <1>1, FrameFacts DEF SchedOK
<1>2. ASSUME ~InISR
      PROVE  OSTCBCur \in Tasks /\ pc[OSTCBCur] = "run" /\ OSTCBCur # Idle
  BY <1>2, CallerExists DEF CallFrame
<1>3. CASE ~InISR /\ pc' = [pc EXCEPT ![OSTCBCur] = "sched"]
  <2>1. pc'[OSTCBCur] = "sched" /\ OSTCBCur # Idle
    BY <1>2, <1>3 DEF TypesOK
  <2> QED BY <2>1 DEF SchedOK, CallFrame
<1>4. CASE ~InISR /\ OSRdyTbl \subseteq OSRdyTbl' /\ deferred' = TRUE
  <2>1. ~Locked => OSPrioCur \in OSRdyTbl
    BY <1>2, <1>4 DEF SchedOK
  <2> QED BY <1>4, <2>1, FrameFacts DEF SchedOK, CallFrame
<1>5. CASE ~InISR /\ OSRdyTbl' = OSRdyTbl /\ deferred' = deferred
  <2>1. ~Locked => OSPrioCur \in OSRdyTbl /\ (~deferred => OSPrioCur = Min(OSRdyTbl))
    BY <1>2, <1>5 DEF SchedOK
  <2> QED BY <1>5, <2>1, FrameFacts DEF SchedOK, CallFrame
<1>6. CASE ~InISR /\ deferred' = deferred /\ \E p : p # OSPrioCur /\ OSRdyTbl' = OSRdyTbl \ {p}
  <2>1. ~Locked => OSPrioCur \in OSRdyTbl /\ (~deferred => OSPrioCur = Min(OSRdyTbl))
    BY <1>2, <1>6 DEF SchedOK
  <2>2. ~Locked /\ ~deferred => OSPrioCur = Min(OSRdyTbl')
    <3> SUFFICES ASSUME ~Locked, ~deferred PROVE OSPrioCur = Min(OSRdyTbl')
      OBVIOUS
    <3>1. OSPrioCur \in OSRdyTbl' /\ OSRdyTbl' \subseteq OSRdyTbl /\ OSRdyTbl \subseteq Nat
      BY <1>6, <2>1, PriosAreNat DEF TypesOK
    <3>2. \A p \in OSRdyTbl : OSPrioCur <= p
      BY <2>1, <3>1, MinOfSet
    <3>3. Min(OSRdyTbl') \in OSRdyTbl' /\ Min(OSRdyTbl') <= OSPrioCur
      BY <3>1, MinOfSet
    <3>4. OSPrioCur \in Nat /\ Min(OSRdyTbl') \in Nat /\ OSPrioCur <= Min(OSRdyTbl')
      BY <3>1, <3>2, <3>3
    <3> QED BY <3>3, <3>4
  <2> QED BY <1>6, <2>1, <2>2, FrameFacts DEF SchedOK, CallFrame
<1> QED BY <1>1, <1>3, <1>4, <1>5, <1>6

-----------------------------------------------------------------------------
(* What a post, an abort or a deletion leaves of a control block.          *)
LEMMA AwokenFields ==
  ASSUME NEW t, tcb[t] \in TCBs, NEW e \in Events, NEW msg \in Msgs \cup {NoMsg}, NEW msk,
         NEW how \in {"OK", "ABORT"}
  PROVE  /\ Awoken(t, e, msg, msk, how) \in TCBs
         /\ Awoken(t, e, msg, msk, how).prio = tcb[t].prio
         /\ Awoken(t, e, msg, msk, how).multi = tcb[t].multi
         /\ Awoken(t, e, msg, msk, how).stat = tcb[t].stat \ msk
         /\ Awoken(t, e, msg, msk, how).dly = 0
BY DEF Awoken, TCBs

(* The tasks of woken, which waited for event e, are made ready by it.     *)
RdyEffect(e, woken) ==
  /\ \A t \in woken :
       /\ t \in OSTCBList /\ tcb[t].prio \in Waiters(e)
       /\ tcb'[t] \in TCBs /\ tcb'[t].prio = tcb[t].prio /\ tcb'[t].multi = tcb[t].multi
       /\ tcb'[t].stat = tcb[t].stat \ {StatBit(e)} /\ tcb'[t].dly = 0
  /\ \A t \in Tasks \ woken : tcb'[t] = tcb[t]
  /\ OSRdyTbl' = OSRdyTbl \cup {tcb[t].prio : t \in {u \in woken : "SUSPEND" \notin tcb[u].stat}}
  /\ \A x \in Events :
       event'[x].grp = event[x].grp \ {tcb[t].prio : t \in {u \in woken : x = e \/ x \in tcb[u].multi}}
  /\ OSFlagWaitList' = OSFlagWaitList

(* A task that is made ready is in no list any more.                       *)
LEMMA AwokenLeave ==
  ASSUME TypesOK, EventsTyped(event), TableOK, ListsOK, FlagsOK,
         NEW e \in Events, NEW woken, RdyEffect(e, woken), NEW t \in OSTCBList
  PROVE  /\ t \in woken => Listed(t) /\ ~Listed(t)' /\ Pending(t)
                           /\ (local[t].call # "multi" => Bits(t) \subseteq {StatBit(e)})
         /\ t \notin woken => Listed(t)' = Listed(t)
<1>1. t \in Tasks /\ tcb[t] \in TCBs /\ OSTCBPrioTbl[tcb[t].prio] = t /\ OSTCBList \subseteq Tasks
  BY DEF TypesOK, TableOK
<1>2. ASSUME t \in woken
      PROVE  /\ Listed(t) /\ ~Listed(t)' /\ Pending(t)
             /\ local[t].call # "multi" => Bits(t) \subseteq {StatBit(e)}
  <2>1. tcb[t].prio \in event[e].grp /\ tcb'[t].prio = tcb[t].prio
    BY <1>2 DEF RdyEffect, Waiters
  <2>2. /\ Pending(t) /\ e \in local[t].events /\ e \in Lists(t)
        /\ local[t].call # "multi" => Bits(t) \subseteq {StatBit(e)}
    BY <1>1, <2>1 DEF ListsOK, Waiters
  <2>3. ASSUME NEW x \in Events
        PROVE  tcb[t].prio \notin event'[x].grp
    <3>1. tcb[t].prio \in event[x].grp => x \in Lists(t)
      BY <1>1 DEF ListsOK, Waiters
    <3>2. x \in Lists(t) => x = e \/ x \in tcb[t].multi
      BY <2>2 DEF Lists
    <3> QED BY <1>2, <3>1, <3>2 DEF RdyEffect
  <2>4. \A g \in FlagGroups : t \notin OSFlagWaitList[g]
    BY <2>2 DEF FlagsOK
  <2>5. ~Listed(t)'
    BY <2>1, <2>3, <2>4 DEF Listed, FlagListed, Waiters, RdyEffect
  <2> QED BY <2>1, <2>2, <2>5 DEF Listed, Waiters
<1>3. ASSUME t \notin woken
      PROVE  Listed(t)' = Listed(t)
  <2>1. tcb'[t] = tcb[t] /\ OSFlagWaitList' = OSFlagWaitList
    BY <1>1, <1>3 DEF RdyEffect
  <2>2. \A u \in woken : tcb[u].prio # tcb[t].prio
    BY <1>1, <1>3 DEF RdyEffect, TableOK
  <2>3. \A x \in Events : tcb[t].prio \in event'[x].grp <=> tcb[t].prio \in event[x].grp
    BY <2>2 DEF RdyEffect
  <2> QED BY <2>1, <2>3 DEF Listed, FlagListed, Waiters
<1> QED BY <1>2, <1>3

LEMMA RdyKeeps ==
  ASSUME TasksOK, CallFrame, EventsTyped(event'), deferred' \in BOOLEAN,
         tcb' = [t \in Tasks |-> tcb'[t]],
         NEW e \in Events, NEW woken, RdyEffect(e, woken),
         \A x \in Events : event'[x].grp = {} \/ event'[x].type = event[x].type,
         InISR \/ pc' = [pc EXCEPT ![OSTCBCur] = "sched"] \/ deferred' = TRUE
  PROVE  TasksOK'
<1>1. /\ TypesOK /\ EventsTyped(event) /\ TableOK /\ ReadyOK /\ CurrentOK /\ SchedOK
      /\ DeletionOK /\ ListsOK /\ FlagsOK /\ WaitsOK /\ RunnableOK
  BY DEF TasksOK
<1>2. OSTCBList \subseteq Tasks /\ woken \subseteq OSTCBList
  BY <1>1 DEF TypesOK, RdyEffect
<1>3. \A t \in OSTCBList :
        /\ t \in woken => Listed(t) /\ ~Listed(t)' /\ Pending(t)
                          /\ (local[t].call # "multi" => Bits(t) \subseteq {StatBit(e)})
        /\ t \notin woken => Listed(t)' = Listed(t)
  BY <1>1, AwokenLeave
<1>4. /\ pc' \in [Tasks -> Places]
      /\ \A t \in Tasks : Pending(t)' = Pending(t)
      /\ \A t \in OSTCBList : BeingDeleted(t)' = BeingDeleted(t)
  BY <1>1, FrameFacts
<1>5. \A t \in OSTCBList : tcb[t].prio \in Prios
  BY <1>1, <1>2 DEF TypesOK, TCBs
<1>6. OSRdyTbl' \subseteq Prios /\ OSRdyTbl \subseteq OSRdyTbl'
  BY <1>1, <1>2, <1>5 DEF TypesOK, RdyEffect
<1>7. TypesOK'
  <2>1. \A t \in Tasks : tcb'[t] \in TCBs
    BY <1>1, <1>2 DEF RdyEffect, TypesOK
  <2>2. tcb' \in [Tasks -> TCBs]
    BY <2>1
  <2> QED BY <1>1, <1>4, <1>6, <2>2 DEF TypesOK, CallFrame, RdyEffect
<1>8. SchedOK'
  BY <1>1, <1>6, CallSchedOK
<1>9. ASSUME NEW t \in OSTCBList
      PROVE  tcb[t].prio \in OSRdyTbl' <=>
               tcb[t].prio \in OSRdyTbl \/ (t \in woken /\ "SUSPEND" \notin tcb[t].stat)
  BY <1>1, <1>2 DEF RdyEffect, TableOK
<1>10. ListsShrink
  BY DEF ListsShrink, RdyEffect
<1>11. \A t \in OSTCBList : BeingDeleted(t) => ~Listed(t)
  BY <1>1, <1>2 DEF BeingDeleted, DeletionOK
<1>12. BlocksChange
  <2>1. \A t \in Tasks :
       /\ tcb'[t].prio = tcb[t].prio /\ tcb'[t].multi = tcb[t].multi
       /\ tcb'[t].stat \subseteq tcb[t].stat
    BY <1>2 DEF RdyEffect
  <2>2. \A t \in OSTCBList : Listed(t)' => tcb'[t].eventPtr = tcb[t].eventPtr
    BY <1>2, <1>3 DEF RdyEffect
  <2>3. \A t \in OSTCBList : BeingDeleted(t) => /\ tcb'[t].dly = tcb[t].dly
                                                /\ tcb[t].prio \in OSRdyTbl' => tcb[t].prio \in OSRdyTbl
    BY <1>2, <1>3, <1>9, <1>11 DEF RdyEffect
  <2>4. LowestPrio \in OSRdyTbl'
    BY <1>1, <1>6 DEF ReadyOK
  <2>5. \A p \in OSRdyTbl' : p \in OSRdyTbl \/ \E t \in OSTCBList : p = tcb[t].prio
    BY <1>2 DEF RdyEffect
  <2> QED BY <2>1, <2>2, <2>3, <2>4, <2>5 DEF BlocksChange
<1>13. \A t \in OSTCBList : t \notin woken => tcb'[t] = tcb[t] /\ Waits(t)' = Waits(t) /\ Bits(t)' = Bits(t)
  BY <1>2, <1>3 DEF RdyEffect, Waits, Bits
<1>14. \A t \in OSTCBList : t \in woken =>
         /\ ~Waits(t)' /\ tcb'[t].dly = 0 /\ tcb'[t].prio = tcb[t].prio
         /\ "SUSPEND" \in tcb'[t].stat <=> "SUSPEND" \in tcb[t].stat
         /\ local[t].call # "multi" => Bits(t)' = {}
  <2> SUFFICES ASSUME NEW t \in OSTCBList, t \in woken
               PROVE  /\ ~Waits(t)' /\ tcb'[t].dly = 0 /\ tcb'[t].prio = tcb[t].prio
                      /\ "SUSPEND" \in tcb'[t].stat <=> "SUSPEND" \in tcb[t].stat
                      /\ local[t].call # "multi" => Bits(t)' = {}
    OBVIOUS
  <2>1. tcb'[t].stat = tcb[t].stat \ {StatBit(e)} /\ tcb'[t].dly = 0 /\ tcb'[t].prio = tcb[t].prio
    BY DEF RdyEffect
  <2>2. StatBit(e) # "SUSPEND"
    <3>1. event[e].type \in {"sem", "mbox", "q"}
      BY <1>1, <1>2 DEF ListsOK, RdyEffect
    <3> QED BY <3>1 DEF StatBit, IsSem, IsMbox, IsQ
  <2> QED BY <1>3, <2>1, <2>2 DEF Waits, Bits
<1>15. WaitsOK'
  <2> SUFFICES ASSUME NEW t \in OSTCBList
        PROVE  /\ Listed(t)' => \/ tcb'[t].statPend = "OK" /\ Bits(t)' # {}
                                \/ tcb'[t].statPend = "TO" /\ Bits(t)' = {} /\ tcb'[t].dly = 0
               /\ Bits(t)' # {} => Listed(t)' \/ (Pending(t)' /\ local'[t].call = "multi")
    BY DEF WaitsOK, CallFrame
  <2>1. CASE t \in woken
    BY <1>2, <1>3, <1>4, <1>14, <2>1 DEF CallFrame
  <2>2. CASE t \notin woken
    BY <1>1, <1>2, <1>3, <1>4, <1>13, <2>2 DEF CallFrame, WaitsOK
  <2> QED BY <2>1, <2>2
<1>16. RunnableOK'
  <2> SUFFICES ASSUME NEW t \in OSTCBList
        PROVE  /\ tcb'[t].prio \in OSRdyTbl' => "SUSPEND" \notin tcb'[t].stat /\ tcb'[t].dly = 0 /\ ~Waits(t)'
               /\ /\ NoSuspendedMulti /\ ~BeingDeleted(t)
                  /\ "SUSPEND" \notin tcb'[t].stat /\ tcb'[t].dly = 0 /\ ~Waits(t)'
                  => tcb'[t].prio \in OSRdyTbl'
    BY <1>4 DEF RunnableOK, CallFrame, NoSuspendedMulti
  <2>1. CASE t \in woken
    BY <1>1, <1>9, <1>14, <2>1 DEF RunnableOK
  <2>2. CASE t \notin woken
    BY <1>1, <1>9, <1>13, <2>2 DEF RunnableOK
  <2> QED BY <2>1, <2>2
<1> QED
  BY <1>7, <1>8, <1>10, <1>12, <1>15, <1>16, CallKeeps

(* OS_EventTaskRdy, for some of the tasks that wait or for all of them,    *)
(* has this effect, also when the event is deleted with them.              *)
LEMMA EventTaskRdyEffect ==
  ASSUME TypesOK, EventsTyped(event), TableOK, ListsOK,
         NEW e \in Events, NEW S \in SUBSET Waiters(e), NEW msg \in Msgs \cup {NoMsg},
         NEW msk, NEW how \in {"OK", "ABORT"}, OSFlagWaitList' = OSFlagWaitList,
         \/ S # {} /\ msk = {StatBit(e)} /\ EventTaskRdy(e, S, msg, msk, how)
         \/ /\ S = Waiters(e) /\ msg = NoMsg /\ how = "OK"
            /\ \E bit : msk = {bit} /\ bit = StatBit(e) /\ EventDelAlways(e, bit)
  PROVE  /\ RdyEffect(e, {OSTCBPrioTbl[p] : p \in S})
         /\ EventsTyped(event') /\ tcb' = [t \in Tasks |-> tcb'[t]]
         /\ \A x \in Events : event'[x].grp = {} \/ event'[x].type = event[x].type
<1> DEFINE woken == {OSTCBPrioTbl[p] : p \in S}
<1>1. ASSUME NEW p \in S
      PROVE  OSTCBPrioTbl[p] \in OSTCBList /\ tcb[OSTCBPrioTbl[p]].prio = p
  <2>1. p \in Prios /\ OSTCBPrioTbl[p] \in OSTCBList /\ OSTCBList \subseteq Tasks
    BY DEF ListsOK, EventsTyped, Waiters, TypesOK
  <2> QED BY <2>1 DEF TableOK
<1>2. \A t \in woken : t \in OSTCBList /\ t \in Tasks /\ tcb[t].prio \in S
  BY <1>1 DEF TypesOK
<1>3. \A p \in S : \E t \in woken : tcb[t].prio = p
  BY <1>1
<1>4. /\ tcb' = [t \in Tasks |-> IF t \in woken THEN Awoken(t, e, msg, msk, how) ELSE tcb[t]]
      /\ OSRdyTbl' = OSRdyTbl \cup Readied(woken)
      /\ msk = {StatBit(e)}
      /\ \/ event' = ListsWithout(woken, e)
         \/ S = Waiters(e) /\ event' = [ListsWithout(woken, e) EXCEPT ![e] = EventClear]
  BY Zenon DEF EventTaskRdy, EventDelAlways
<1> DEFINE L == ListsWithout(woken, e)
<1>5. /\ DOMAIN L = Events
      /\ \A x \in Events :
           /\ DOMAIN L[x] = EventFields /\ L[x].type = event[x].type
           /\ L[x].grp = event[x].grp \ {tcb[t].prio : t \in {u \in woken : x = e \/ x \in tcb[u].multi}}
  BY DEF ListsWithout, EventsTyped, EventFields
<1> HIDE DEF L, woken
<1>6. \A x \in Events :
        /\ event'[x].grp = event[x].grp \ {tcb[t].prio : t \in {u \in woken : x = e \/ x \in tcb[u].multi}}
        /\ event'[x].grp = {} \/ event'[x].type = event[x].type
        /\ DOMAIN event'[x] = EventFields /\ event'[x].type \in EventKinds \ {"mutex"}
  <2>1. CASE event' = L
    BY <1>5, <2>1 DEF EventsTyped
  <2>2. CASE S = Waiters(e) /\ event' = [L EXCEPT ![e] = EventClear]
    <3>1. event'[e] = EventClear /\ \A x \in Events : x # e => event'[x] = L[x]
      BY <1>5, <2>2
    <3>2. EventClear.grp = {} /\ EventClear.type = "unused" /\ DOMAIN EventClear = EventFields
      BY DEF EventClear, EventFields
    <3>3. event[e].grp \ {tcb[t].prio : t \in {u \in woken : e = e \/ e \in tcb[u].multi}} = {}
      BY <1>3, <2>2 DEF Waiters
    <3> QED BY <1>5, <3>1, <3>2, <3>3 DEF EventsTyped, EventKinds
  <2> QED BY <1>4, <2>1, <2>2 DEF L
<1>7. EventsTyped(event')
  <2>1. DOMAIN event' = Events
    BY <1>4, <1>5 DEF L
  <2> QED BY <1>6, <2>1 DEF EventsTyped
<1>8. tcb' = [t \in Tasks |-> tcb'[t]]
  BY <1>4
<1>9. RdyEffect(e, woken)
  <2>1. ASSUME NEW t \in woken
        PROVE  /\ t \in OSTCBList /\ tcb[t].prio \in Waiters(e)
               /\ tcb'[t] \in TCBs /\ tcb'[t].prio = tcb[t].prio /\ tcb'[t].multi = tcb[t].multi
               /\ tcb'[t].stat = tcb[t].stat \ {StatBit(e)} /\ tcb'[t].dly = 0
    <3>1. tcb'[t] = Awoken(t, e, msg, msk, how) /\ tcb[t] \in TCBs
      BY <1>2, <1>4 DEF TypesOK
    <3> QED BY <1>2, <1>4, <3>1, AwokenFields
  <2>2. \A t \in Tasks \ woken : tcb'[t] = tcb[t]
    BY <1>4
  <2> QED BY <1>4, <1>6, <2>1, <2>2 DEF RdyEffect, Readied
<1> QED BY <1>6, <1>7, <1>8, <1>9 DEF woken

-----------------------------------------------------------------------------
(* The running task goes into a wait, or comes out of one; the others stay *)
(* as they are.                                                            *)
OwnFrame(c) ==
  /\ c = OSTCBCur /\ c \in OSTCBList /\ ~InISR /\ ~Locked
  /\ UNCHANGED schedVars /\ UNCHANGED listVars /\ app' = app
  /\ pc' \in [Tasks -> Places] /\ tcb' \in [Tasks -> TCBs] /\ local' \in [Tasks -> Locals]
  /\ EventsTyped(event') /\ OSFlagWaitList' \in [FlagGroups -> SUBSET Tasks]
  /\ DOMAIN node' = Tasks
  /\ \A t \in Tasks \ {c} : /\ pc'[t] = pc[t] /\ tcb'[t] = tcb[t]
                            /\ local'[t] = local[t] /\ node'[t] = node[t]
  /\ pc[c] \notin {"create", "delete"} /\ pc'[c] \notin {"create", "delete"}
  /\ tcb'[c].prio = tcb[c].prio
  /\ OSRdyTbl' \subseteq OSRdyTbl
  /\ \A p \in OSRdyTbl : p # tcb[c].prio => p \in OSRdyTbl'
  /\ \A e \in Events : /\ event'[e].type = event[e].type
                       /\ \A p \in Prios \ {tcb[c].prio} : p \in event'[e].grp <=> p \in event[e].grp
  /\ \A g \in FlagGroups : \A t \in Tasks \ {c} : t \in OSFlagWaitList'[g] <=> t \in OSFlagWaitList[g]

(* The invariants, as they must hold of this task.                         *)
OwnWaits(c) ==
  /\ Listed(c) => \/ tcb[c].statPend = "OK" /\ Bits(c) # {}
                  \/ tcb[c].statPend = "TO" /\ Bits(c) = {} /\ tcb[c].dly = 0
  /\ Bits(c) # {} => Listed(c) \/ (Pending(c) /\ local[c].call = "multi")
OwnRunnable(c) ==
  /\ tcb[c].prio \in OSRdyTbl => "SUSPEND" \notin tcb[c].stat /\ tcb[c].dly = 0 /\ ~Waits(c)
  /\ "SUSPEND" \notin tcb[c].stat /\ tcb[c].dly = 0 /\ ~Waits(c) => tcb[c].prio \in OSRdyTbl
OwnPending(c) ==
  /\ ~Pending(c) => local[c].events = {} /\ tcb[c].multi = {}
  /\ local[c].call = "multi" => "OSEventPendMulti" \in app.calls
  /\ local[c].call # "multi" => tcb[c].multi = {}
  /\ local[c].call = "flag" => local[c].events = {}
  /\ "SUSPEND" \notin tcb[c].stat
  /\ "MULTI" \in tcb[c].stat => local[c].call = "multi" /\ Pending(c)
OwnLists(c) ==
  \A e \in Events : tcb[c].prio \in Waiters(e) =>
    /\ Pending(c) /\ e \in local[c].events /\ e \in Lists(c)
    /\ event[e].type \in {"sem", "mbox", "q"}
    /\ local[c].call # "multi" => Bits(c) \subseteq {StatBit(e)}
OwnFlags(c) ==
  \A g \in FlagGroups : c \in OSFlagWaitList[g] =>
    /\ Pending(c) /\ local[c].call = "flag" /\ local[c].events = {}
    /\ node[c].grp = {g} /\ Bits(c) \subseteq {"FLAG"}

LEMMA OwnKeeps ==
  ASSUME TasksOK, NEW c, OwnFrame(c), SchedOK',
         OwnWaits(c)', OwnRunnable(c)', OwnPending(c)', OwnLists(c)', OwnFlags(c)'
  PROVE  TasksOK'
<1>1. /\ TypesOK /\ EventsTyped(event) /\ TableOK /\ ReadyOK /\ CurrentOK /\ SchedOK /\ LockOK
      /\ DeletionOK /\ PendingOK /\ ListsOK /\ FlagsOK /\ WaitsOK /\ RunnableOK
  BY DEF TasksOK
<1>2. /\ OSTCBCur' = OSTCBCur /\ OSPrioCur' = OSPrioCur /\ deferred' = deferred
      /\ OSIntNesting' = OSIntNesting /\ OSLockNesting' = OSLockNesting
      /\ OSTCBList' = OSTCBList /\ OSTCBPrioTbl' = OSTCBPrioTbl /\ app' = app
      /\ c = OSTCBCur /\ c \in OSTCBList /\ c \in Tasks /\ OSTCBList \subseteq Tasks
  BY <1>1 DEF OwnFrame, schedVars, runVars, listVars, TypesOK
<1>3. ASSUME NEW t \in Tasks, t # c
      PROVE  /\ pc'[t] = pc[t] /\ tcb'[t] = tcb[t] /\ local'[t] = local[t] /\ node'[t] = node[t]
             /\ Pending(t)' = Pending(t) /\ Lists(t)' = Lists(t) /\ Bits(t)' = Bits(t)
  BY <1>3 DEF OwnFrame, Pending, Lists, Bits
<1>4. \A t \in Tasks : tcb'[t].prio = tcb[t].prio /\ tcb[t].prio \in Prios
  BY <1>1, <1>3 DEF OwnFrame, TypesOK, TCBs
<1>5. \A u \in Tasks : pc[u] # "delete" /\ pc'[u] # "delete"
  BY <1>1, <1>3 DEF DeletionOK, OwnFrame
<1>6. TypesOK'
  BY <1>1, <1>2 DEF TypesOK, OwnFrame
<1>7. TableOK'
  <2>1. \A t \in Tasks : pc'[t] = "create" => t # c /\ pc[t] = "create" /\ local'[t] = local[t]
    BY <1>3 DEF OwnFrame
  <2> QED BY <1>1, <1>2, <1>4, <2>1 DEF TableOK
<1>8. ReadyOK'
  <2>1. LowestPrio # tcb[c].prio
    BY <1>1, <1>2, CoreAssumption DEF TableOK
  <2> QED BY <1>1, <1>2, <2>1 DEF ReadyOK, OwnFrame
<1>9. CurrentOK' /\ LockOK' /\ DeletionOK'
  BY <1>1, <1>2, <1>4, <1>5 DEF CurrentOK, LockOK, DeletionOK, Locked, OwnFrame
<1>10. ASSUME NEW t \in OSTCBList, t # c
       PROVE  Listed(t)' = Listed(t) /\ Waits(t)' = Waits(t) /\ tcb[t].prio # tcb[c].prio
              /\ BeingDeleted(t)' = BeingDeleted(t)
  <2>1. tcb[t].prio # tcb[c].prio
    BY <1>1, <1>2, <1>10 DEF TableOK
  <2>2. Listed(t)' = Listed(t)
    BY <1>2, <1>3, <1>4, <1>10, <2>1 DEF Listed, FlagListed, Waiters, OwnFrame
  <2> QED BY <1>2, <1>3, <1>5, <1>10, <2>1, <2>2 DEF Waits, BeingDeleted
<1>11. PendingOK'
  <2> SUFFICES ASSUME NEW t \in Tasks
               PROVE  /\ t \notin OSTCBList => ~Pending(t)'
                      /\ ~Pending(t)' => local'[t].events = {} /\ tcb'[t].multi = {}
                      /\ local'[t].call = "multi" => "OSEventPendMulti" \in app.calls
                      /\ local'[t].call # "multi" => tcb'[t].multi = {}
                      /\ local'[t].call = "flag" => local'[t].events = {}
                      /\ "SUSPEND" \in tcb'[t].stat => "OSTaskSuspend" \in app.calls \cup app.isr
                      /\ "MULTI" \in tcb'[t].stat => local'[t].call = "multi" /\ Pending(t)'
    BY <1>2 DEF PendingOK
  <2>1. CASE t = c
    BY <1>2, <2>1 DEF OwnPending
  <2>2. CASE t # c
    BY <1>1, <1>3, <2>2 DEF PendingOK
  <2> QED BY <2>1, <2>2
<1>12. ListsOK'
  <2> SUFFICES ASSUME NEW e \in Events, NEW p \in event'[e].grp,
                      NEW t, t = OSTCBPrioTbl[p]
               PROVE  /\ t \in OSTCBList /\ Pending(t)' /\ e \in local'[t].events /\ e \in Lists(t)'
                      /\ event'[e].type \in {"sem", "mbox", "q"}
                      /\ local'[t].call # "multi" => Bits(t)' \subseteq {StatBit(e)'}
    BY <1>2 DEF ListsOK, Waiters
  <2>1. p \in Prios /\ event'[e].type = event[e].type
    BY DEF OwnFrame, EventsTyped
  <2>2. CASE p = tcb[c].prio
    <3>1. t = c
      BY <1>1, <1>2, <2>2 DEF TableOK
    <3> QED BY <1>2, <1>4, <2>2, <3>1 DEF OwnLists, Waiters
  <2>3. CASE p # tcb[c].prio
    <3>1. p \in event[e].grp
      BY <2>1, <2>3 DEF OwnFrame
    <3>2. /\ t \in OSTCBList /\ Pending(t) /\ e \in local[t].events /\ e \in Lists(t)
          /\ event[e].type \in {"sem", "mbox", "q"}
          /\ local[t].call # "multi" => Bits(t) \subseteq {StatBit(e)}
      BY <1>1, <3>1 DEF ListsOK, Waiters
    <3>3. t \in Tasks /\ t # c
      BY <1>1, <1>2, <2>1, <2>3, <3>2 DEF TableOK
    <3>4. StatBit(e)' = StatBit(e)
      BY <2>1 DEF StatBit, IsSem, IsMbox, IsQ
    <3> QED BY <1>3, <2>1, <3>2, <3>3, <3>4
  <2> QED BY <2>2, <2>3
<1>13. FlagsOK'
  <2> SUFFICES ASSUME NEW g \in FlagGroups, NEW t \in OSFlagWaitList'[g]
               PROVE  /\ t \in OSTCBList /\ Pending(t)' /\ local'[t].call = "flag"
                      /\ local'[t].events = {} /\ node'[t].grp = {g} /\ Bits(t)' \subseteq {"FLAG"}
    BY <1>2 DEF FlagsOK
  <2>1. CASE t = c
    BY <1>2, <2>1 DEF OwnFlags
  <2>2. CASE t # c
    <3>1. t \in OSFlagWaitList[g] /\ t \in Tasks
      BY <2>2 DEF OwnFrame
    <3> QED BY <1>1, <1>3, <2>2, <3>1 DEF FlagsOK
  <2> QED BY <2>1, <2>2
<1>14. WaitsOK'
  <2> SUFFICES ASSUME NEW t \in OSTCBList
        PROVE  /\ Listed(t)' => \/ tcb'[t].statPend = "OK" /\ Bits(t)' # {}
                                \/ tcb'[t].statPend = "TO" /\ Bits(t)' = {} /\ tcb'[t].dly = 0
               /\ Bits(t)' # {} => Listed(t)' \/ (Pending(t)' /\ local'[t].call = "multi")
    BY <1>2 DEF WaitsOK
  <2>1. CASE t = c
    BY <1>2, <2>1 DEF OwnWaits
  <2>2. CASE t # c
    BY <1>1, <1>2, <1>3, <1>10, <2>2 DEF WaitsOK
  <2> QED BY <2>1, <2>2
<1>15. RunnableOK'
  <2> SUFFICES ASSUME NEW t \in OSTCBList
        PROVE  /\ tcb'[t].prio \in OSRdyTbl' => "SUSPEND" \notin tcb'[t].stat /\ tcb'[t].dly = 0 /\ ~Waits(t)'
               /\ /\ NoSuspendedMulti /\ ~BeingDeleted(t)'
                  /\ "SUSPEND" \notin tcb'[t].stat /\ tcb'[t].dly = 0 /\ ~Waits(t)'
                  => tcb'[t].prio \in OSRdyTbl'
    BY <1>2 DEF RunnableOK, NoSuspendedMulti
  <2>1. CASE t = c
    BY <1>2, <2>1 DEF OwnRunnable
  <2>2. CASE t # c
    <3>1. tcb[t].prio \in OSRdyTbl' <=> tcb[t].prio \in OSRdyTbl
      BY <1>10, <2>2 DEF OwnFrame
    <3> QED BY <1>1, <1>2, <1>3, <1>10, <2>2, <3>1 DEF RunnableOK
  <2> QED BY <2>1, <2>2
<1> QED
  BY <1>6, <1>7, <1>8, <1>9, <1>11, <1>12, <1>13, <1>14, <1>15 DEF TasksOK, OwnFrame, EventsTyped

-----------------------------------------------------------------------------
(* A task that may pend waits for nothing and is ready.                    *)
LEMMA CallerAtRest ==
  ASSUME TasksOK, MayPend, NEW c, c = OSTCBCur
  PROVE  /\ c \in OSTCBList /\ c \in Tasks /\ c # Idle /\ pc[c] = "run" /\ ~InISR /\ ~Locked
         /\ tcb[c] \in TCBs /\ local[c] \in Locals
         /\ ~Listed(c) /\ Bits(c) = {} /\ tcb[c].stat = {} /\ tcb[c].dly = 0
         /\ tcb[c].prio \in OSRdyTbl /\ tcb[c].multi = {} /\ local[c].events = {}
<1>1. /\ TypesOK /\ EventsTyped(event) /\ TableOK /\ CurrentOK /\ SchedOK /\ PendingOK
      /\ ListsOK /\ FlagsOK /\ WaitsOK /\ RunnableOK
  BY DEF TasksOK
<1>2. c \in OSTCBList /\ c \in Tasks /\ OSPrioCur = tcb[c].prio /\ pc[c] = "run" /\ c # Idle
      /\ ~InISR /\ ~Locked
  BY <1>1, CallerExists DEF MayPend, TaskCalls
<1>3. tcb[c] \in TCBs /\ local[c] \in Locals
  BY <1>1, <1>2 DEF TypesOK
<1>4. ~Pending(c) /\ OSTCBPrioTbl[tcb[c].prio] = c
  BY <1>1, <1>2 DEF Pending, TableOK
<1>5. ~Listed(c)
  BY <1>1, <1>4 DEF Listed, FlagListed, ListsOK, FlagsOK
<1>6. tcb[c].prio \in OSRdyTbl
  BY <1>1, <1>2 DEF SchedOK
<1>7. Bits(c) = {} /\ "SUSPEND" \notin tcb[c].stat /\ tcb[c].dly = 0 /\ "MULTI" \notin tcb[c].stat
  BY <1>1, <1>2, <1>4, <1>5, <1>6 DEF WaitsOK, RunnableOK, PendingOK
<1>8. tcb[c].stat = {}
  BY <1>3, <1>7 DEF Bits, TCBs, StatBits
<1> QED BY <1>1, <1>2, <1>3, <1>4, <1>5, <1>6, <1>7, <1>8 DEF PendingOK

(* The running task waits for one event, or for several.                   *)
LEMMA WaitKeeps ==
  ASSUME TasksOK, MayPend, NEW call \in {"sem", "mbox", "q", "multi"},
         NEW es \in SUBSET Events, es # {}, NEW timeout \in Nat, NEW bit,
         \A e \in es : event[e].type \in {"sem", "mbox", "q"},
         call = "multi" => /\ "OSEventPendMulti" \in app.calls
                           /\ bit = {StatBit(e) : e \in es} \cup {"MULTI"},
         call # "multi" => \E e \in Events : es = {e} /\ bit = {StatBit(e)},
         EventTaskWait(call, bit, es, timeout), UNCHANGED <<flagVars, app>>
  PROVE  TasksOK'
<1>1. PICK c : c = OSTCBCur
  OBVIOUS
<1>2. /\ c \in OSTCBList /\ c \in Tasks /\ c # Idle /\ pc[c] = "run" /\ ~InISR /\ ~Locked
      /\ tcb[c] \in TCBs /\ local[c] \in Locals
      /\ ~Listed(c) /\ Bits(c) = {} /\ tcb[c].stat = {} /\ tcb[c].dly = 0
      /\ tcb[c].prio \in OSRdyTbl /\ tcb[c].multi = {} /\ local[c].events = {}
  BY <1>1, CallerAtRest
<1>3. TypesOK /\ EventsTyped(event) /\ TableOK /\ SchedOK
  BY DEF TasksOK
<1>4. PICK first : first = IF call = "multi" THEN NoEvent ELSE CHOOSE e \in es : TRUE
  OBVIOUS
<1>5. /\ call # "multi" => first \in Events /\ es = {first} /\ bit = {StatBit(first)}
      /\ first \in Events \cup {NoEvent}
  BY <1>4
<1>6. \A e \in es : StatBit(e) \in {"SEM", "MBOX", "Q"}
  BY DEF StatBit, IsSem, IsMbox, IsQ
<1>7. bit \subseteq StatBits /\ "SUSPEND" \notin bit /\ bit \cap PendBits # {}
      /\ ("MULTI" \in bit => call = "multi")
      /\ \A e \in es : call # "multi" => bit \cap PendBits = {StatBit(e)}
  BY <1>5, <1>6 DEF StatBits, PendBits
<1>8. /\ tcb' = [tcb EXCEPT ![c] = [tcb[c] EXCEPT
           !.stat = @ \cup bit, !.statPend = "OK", !.dly = timeout,
           !.eventPtr = first, !.multi = IF call = "multi" THEN es ELSE @]]
      /\ event' = [e \in Events |->
           IF e \in es THEN [event[e] EXCEPT !.grp = @ \cup {tcb[c].prio}] ELSE event[e]]
      /\ OSRdyTbl' = OSRdyTbl \ {tcb[c].prio}
      /\ pc' = [pc EXCEPT ![c] = "pend"]
      /\ local' = [local EXCEPT ![c] = [local[c] EXCEPT !.call = call, !.events = es]]
      /\ UNCHANGED schedVars /\ UNCHANGED listVars
  BY <1>1, <1>4 DEF EventTaskWait
<1>9. /\ tcb'[c] = [tcb[c] EXCEPT !.stat = bit, !.statPend = "OK", !.dly = timeout,
           !.eventPtr = first, !.multi = IF call = "multi" THEN es ELSE {}]
      /\ pc'[c] = "pend" /\ local'[c] = [local[c] EXCEPT !.call = call, !.events = es]
  <2>1. tcb[c].stat \cup bit = bit /\ (IF call = "multi" THEN es ELSE tcb[c].multi)
                                      = IF call = "multi" THEN es ELSE {}
    BY <1>2
  <2>2. tcb'[c] = [tcb[c] EXCEPT !.stat = tcb[c].stat \cup bit, !.statPend = "OK",
                      !.dly = timeout, !.eventPtr = first,
                      !.multi = IF call = "multi" THEN es ELSE tcb[c].multi]
    BY <1>2, <1>3, <1>8 DEF TypesOK
  <2>3. pc'[c] = "pend" /\ local'[c] = [local[c] EXCEPT !.call = call, !.events = es]
    BY <1>2, <1>3, <1>8 DEF TypesOK
  <2> QED BY <2>1, <2>2, <2>3
<1>10. tcb'[c] \in TCBs /\ local'[c] \in Locals
  <2>1. (IF call = "multi" THEN es ELSE {}) \in SUBSET Events
    OBVIOUS
  <2>2. bit \in SUBSET StatBits /\ call \in CallNames
    BY <1>7 DEF CallNames
  <2>3. tcb'[c] \in TCBs
    BY <1>2, <1>5, <1>9, <2>1, <2>2, ZenonT(40) DEF TCBs
  <2>4. local'[c] \in Locals
    BY <1>2, <1>9, <2>2 DEF Locals
  <2> QED BY <2>3, <2>4
<1>11. /\ tcb'[c].stat = bit /\ tcb'[c].statPend = "OK" /\ tcb'[c].eventPtr = first
       /\ tcb'[c].multi = (IF call = "multi" THEN es ELSE {}) /\ tcb'[c].prio = tcb[c].prio
       /\ local'[c].call = call /\ local'[c].events = es
  BY <1>2, <1>9 DEF TCBs, Locals
<1>12. /\ DOMAIN event' = Events
       /\ \A e \in Events : /\ DOMAIN event'[e] = EventFields /\ event'[e].type = event[e].type
                            /\ event'[e].grp = IF e \in es THEN event[e].grp \cup {tcb[c].prio}
                                               ELSE event[e].grp
  BY <1>3, <1>8 DEF EventsTyped, EventFields
<1>13. EventsTyped(event')
  <2>1. tcb[c].prio \in Prios
    BY <1>2 DEF TCBs
  <2>2. \A e \in Events : event'[e].grp \subseteq Prios
    <3> SUFFICES ASSUME NEW e \in Events PROVE event'[e].grp \subseteq Prios
      OBVIOUS
    <3>1. event[e].grp \subseteq Prios
      BY <1>3 DEF EventsTyped
    <3>2. event'[e].grp \subseteq event[e].grp \cup {tcb[c].prio}
      BY <1>12
    <3> QED BY <2>1, <3>1, <3>2
  <2> QED BY <1>3, <1>12, <2>2 DEF EventsTyped
<1>14. pc' \in [Tasks -> Places] /\ tcb' \in [Tasks -> TCBs] /\ local' \in [Tasks -> Locals]
  BY <1>3, <1>8, <1>9, <1>10 DEF TypesOK, Places
<1>15. OSFlagWaitList' = OSFlagWaitList /\ node' = node /\ app' = app
  BY DEF flagVars
<1>16. OwnFrame(c)
  <2>1. \A t \in Tasks \ {c} : /\ pc'[t] = pc[t] /\ tcb'[t] = tcb[t]
                               /\ local'[t] = local[t] /\ node'[t] = node[t]
    BY <1>3, <1>8, <1>15 DEF TypesOK
  <2>2. \A e \in Events : \A p \in Prios \ {tcb[c].prio} : p \in event'[e].grp <=> p \in event[e].grp
    BY <1>12
  <2>3. OSFlagWaitList' \in [FlagGroups -> SUBSET Tasks] /\ DOMAIN node' = Tasks
    BY <1>3, <1>15 DEF TypesOK
  <2>4. pc[c] \notin {"create", "delete"} /\ pc'[c] \notin {"create", "delete"}
    BY <1>2, <1>9
  <2> QED BY <1>1, <1>2, <1>8, <1>11, <1>12, <1>13, <1>14, <1>15, <2>1, <2>2, <2>3, <2>4 DEF OwnFrame
<1>17. SchedOK'
  BY <1>1, <1>2, <1>8, <1>9 DEF SchedOK, schedVars, runVars
<1>18. Listed(c)' /\ Waits(c)' /\ Pending(c)'
  <2>1. PICK e \in Events : e \in es
    OBVIOUS
  <2>2. tcb'[c].prio \in event'[e].grp
    BY <1>11, <1>12, <2>1
  <2> QED BY <1>9, <1>11, <2>2 DEF Listed, Waits, Pending, Waiters
<1>19. OwnWaits(c)'
  BY <1>7, <1>11, <1>18 DEF OwnWaits, Bits
<1>20. OwnRunnable(c)'
  BY <1>8, <1>11, <1>18 DEF OwnRunnable
<1>21. OwnPending(c)'
  BY <1>7, <1>11, <1>15, <1>18 DEF OwnPending
<1>22. OwnLists(c)'
  <2> SUFFICES ASSUME NEW e \in Events, tcb'[c].prio \in event'[e].grp
               PROVE  /\ Pending(c)' /\ e \in local'[c].events /\ e \in Lists(c)'
                      /\ event'[e].type \in {"sem", "mbox", "q"}
                      /\ local'[c].call # "multi" => Bits(c)' \subseteq {StatBit(e)'}
    BY DEF OwnLists, Waiters
  <2>1. e \in es
    BY <1>2, <1>11, <1>12 DEF Listed, Waiters
  <2>2. StatBit(e)' = StatBit(e)
    BY <1>12 DEF StatBit, IsSem, IsMbox, IsQ
  <2>3. e \in Lists(c)'
    BY <1>5, <1>11, <2>1 DEF Lists
  <2>4. local'[c].call # "multi" => Bits(c)' \subseteq {StatBit(e)'}
    BY <1>7, <1>11, <2>1, <2>2 DEF Bits
  <2> QED BY <1>11, <1>12, <1>18, <2>1, <2>3, <2>4
<1>23. OwnFlags(c)'
  BY <1>2, <1>15 DEF OwnFlags, Listed, FlagListed
<1> QED BY <1>16, <1>17, <1>19, <1>20, <1>21, <1>22, <1>23, OwnKeeps

LEMMA FlagBlockKeeps ==
  ASSUME TasksOK, MayPend, NEW g \in FlagGroups, NEW timeout \in Nat,
         NEW flags, NEW type, NEW consume,
         OS_FlagBlock(g, flags, type, consume, timeout), app' = app
  PROVE  TasksOK'
<1>1. PICK c : c = OSTCBCur
  OBVIOUS
<1>2. /\ c \in OSTCBList /\ c \in Tasks /\ c # Idle /\ pc[c] = "run" /\ ~InISR /\ ~Locked
      /\ tcb[c] \in TCBs /\ local[c] \in Locals
      /\ ~Listed(c) /\ Bits(c) = {} /\ tcb[c].stat = {} /\ tcb[c].dly = 0
      /\ tcb[c].prio \in OSRdyTbl /\ tcb[c].multi = {} /\ local[c].events = {}
  BY <1>1, CallerAtRest
<1>3. TypesOK /\ EventsTyped(event) /\ TableOK /\ SchedOK
  BY DEF TasksOK
<1>4. /\ tcb' = [tcb EXCEPT ![c] = [tcb[c] EXCEPT
           !.stat = @ \cup {"FLAG"}, !.statPend = "OK", !.dly = timeout]]
      /\ node' = [node EXCEPT ![c] =
           [grp |-> {g}, flags |-> flags, type |-> type, consume |-> consume]]
      /\ OSFlagWaitList' = [OSFlagWaitList EXCEPT ![g] = @ \cup {c}]
      /\ OSRdyTbl' = OSRdyTbl \ {tcb[c].prio}
      /\ pc' = [pc EXCEPT ![c] = "pend"]
      /\ local' = [local EXCEPT ![c].call = "flag"]
      /\ UNCHANGED schedVars /\ UNCHANGED listVars /\ event' = event
  BY <1>1 DEF OS_FlagBlock
<1>5. /\ tcb'[c] = [tcb[c] EXCEPT !.stat = {"FLAG"}, !.statPend = "OK", !.dly = timeout]
      /\ pc'[c] = "pend" /\ local'[c] = [local[c] EXCEPT !.call = "flag"] /\ node'[c].grp = {g}
  <2>1. tcb[c].stat \cup {"FLAG"} = {"FLAG"}
    BY <1>2
  <2>2. tcb'[c] = [tcb[c] EXCEPT !.stat = tcb[c].stat \cup {"FLAG"}, !.statPend = "OK", !.dly = timeout]
    BY <1>2, <1>3, <1>4 DEF TypesOK
  <2>3. pc'[c] = "pend" /\ local'[c] = [local[c] EXCEPT !.call = "flag"] /\ node'[c].grp = {g}
    BY <1>2, <1>3, <1>4 DEF TypesOK
  <2> QED BY <2>1, <2>2, <2>3
<1>6. tcb'[c] \in TCBs /\ local'[c] \in Locals
  <2>1. {"FLAG"} \in SUBSET StatBits
    BY DEF StatBits, PendBits
  <2> QED BY <1>2, <1>5, <2>1 DEF TCBs, Locals, CallNames
<1>7. /\ tcb'[c].stat = {"FLAG"} /\ tcb'[c].statPend = "OK" /\ tcb'[c].multi = {}
      /\ tcb'[c].prio = tcb[c].prio /\ local'[c].call = "flag" /\ local'[c].events = {}
  BY <1>2, <1>5 DEF TCBs, Locals
<1>8. pc' \in [Tasks -> Places] /\ tcb' \in [Tasks -> TCBs] /\ local' \in [Tasks -> Locals]
  BY <1>3, <1>4, <1>5, <1>6 DEF TypesOK, Places
<1>9. /\ OSFlagWaitList' \in [FlagGroups -> SUBSET Tasks] /\ DOMAIN node' = Tasks
      /\ c \in OSFlagWaitList'[g] /\ \A h \in FlagGroups : h # g => OSFlagWaitList'[h] = OSFlagWaitList[h]
      /\ OSFlagWaitList'[g] = OSFlagWaitList[g] \cup {c}
  BY <1>2, <1>3, <1>4 DEF TypesOK
<1>10. \A t \in Tasks \ {c} : /\ pc'[t] = pc[t] /\ tcb'[t] = tcb[t]
                              /\ local'[t] = local[t] /\ node'[t] = node[t]
  BY <1>3, <1>4 DEF TypesOK
<1>11. OwnFrame(c)
  BY <1>1, <1>2, <1>3, <1>4, <1>5, <1>7, <1>8, <1>9, <1>10 DEF OwnFrame, EventsTyped
<1>12. SchedOK'
  BY <1>1, <1>2, <1>4, <1>5 DEF SchedOK, schedVars, runVars
<1>13. Listed(c)' /\ Waits(c)' /\ Pending(c)' /\ Bits(c)' = {"FLAG"}
  BY <1>5, <1>7, <1>9 DEF Listed, FlagListed, Waits, Pending, Bits, PendBits
<1>14. OwnWaits(c)' /\ OwnRunnable(c)' /\ OwnPending(c)'
  BY <1>4, <1>7, <1>13 DEF OwnWaits, OwnRunnable, OwnPending
<1>15. OwnLists(c)'
  BY <1>2, <1>4, <1>7 DEF OwnLists, Listed, Waiters
<1>16. OwnFlags(c)'
  BY <1>2, <1>5, <1>7, <1>9, <1>13 DEF OwnFlags, Listed, FlagListed
<1> QED BY <1>11, <1>12, <1>14, <1>15, <1>16, OwnKeeps

(* A task that goes on behind its wait has been made ready; only a timeout *)
(* leaves it in a list.                                                    *)
LEMMA WokenIsReady ==
  ASSUME TasksOK, NEW c, c = OSTCBCur, ~InISR, c # Idle, pc[c] = "wake"
  PROVE  /\ c \in OSTCBList /\ c \in Tasks /\ ~Locked /\ OSPrioCur = tcb[c].prio
         /\ tcb[c] \in TCBs /\ local[c] \in Locals
         /\ tcb[c].prio \in OSRdyTbl /\ "SUSPEND" \notin tcb[c].stat /\ tcb[c].dly = 0
         /\ ~Waits(c) /\ (Listed(c) => tcb[c].statPend = "TO" /\ Bits(c) = {})
         /\ OSPrioCur \in OSRdyTbl /\ (~deferred => OSPrioCur = Min(OSRdyTbl))
<1>1. TypesOK /\ CurrentOK /\ SchedOK /\ LockOK /\ WaitsOK /\ RunnableOK
  BY DEF TasksOK
<1>2. c \in OSTCBList /\ c \in Tasks /\ ~Locked /\ OSPrioCur = tcb[c].prio
  BY <1>1 DEF CurrentOK, LockOK, Pending, TypesOK
<1>3. OSPrioCur \in OSRdyTbl /\ (~deferred => OSPrioCur = Min(OSRdyTbl))
  BY <1>1, <1>2 DEF SchedOK
<1>4. "SUSPEND" \notin tcb[c].stat /\ tcb[c].dly = 0 /\ ~Waits(c)
  BY <1>1, <1>2, <1>3 DEF RunnableOK
<1>5. Listed(c) => tcb[c].statPend = "TO" /\ Bits(c) = {}
  BY <1>1, <1>2, <1>4 DEF WaitsOK, Waits
<1> QED BY <1>1, <1>2, <1>3, <1>4, <1>5 DEF TypesOK

(* The end of a wait: the task is in no list any more and has no bit left. *)
LEMMA WakeKeeps ==
  ASSUME TasksOK, NEW call \in {"sem", "mbox", "q", "multi"}, Wake(call),
         UNCHANGED <<flagVars, app>>
  PROVE  TasksOK'
<1>1. PICK c : c = OSTCBCur
  OBVIOUS
<1>a. ~InISR /\ c # Idle /\ pc[c] = "wake" /\ local[c].call = call
  BY <1>1 DEF Wake
<1>2. /\ c \in OSTCBList /\ c \in Tasks /\ ~Locked /\ OSPrioCur = tcb[c].prio
      /\ tcb[c] \in TCBs /\ local[c] \in Locals
      /\ tcb[c].prio \in OSRdyTbl /\ "SUSPEND" \notin tcb[c].stat /\ tcb[c].dly = 0
      /\ ~Waits(c) /\ (Listed(c) => tcb[c].statPend = "TO" /\ Bits(c) = {})
      /\ OSPrioCur \in OSRdyTbl /\ (~deferred => OSPrioCur = Min(OSRdyTbl))
  BY <1>1, <1>a, WokenIsReady
<1>3. TypesOK /\ EventsTyped(event) /\ TableOK /\ SchedOK /\ ListsOK /\ FlagsOK
  BY DEF TasksOK
<1>4. /\ \/ tcb[c].statPend = "TO" /\ EventTaskRemove(c, local[c].events)
         \/ tcb[c].statPend # "TO" /\ event' = event
      /\ tcb' = [tcb EXCEPT ![c] = [tcb[c] EXCEPT
           !.stat = {}, !.statPend = "OK", !.eventPtr = NoEvent, !.multi = {},
           !.msg = IF call \in {"sem", "mutex"} THEN @ ELSE NoMsg]]
      /\ pc' = [pc EXCEPT ![c] = "run"]
      /\ local' = [local EXCEPT ![c] = NoLocal]
      /\ UNCHANGED schedVars /\ UNCHANGED listVars /\ OSRdyTbl' = OSRdyTbl
  BY <1>1 DEF Wake
<1>5. /\ tcb'[c] = [tcb[c] EXCEPT !.stat = {}, !.statPend = "OK", !.eventPtr = NoEvent,
           !.multi = {}, !.msg = IF call \in {"sem", "mutex"} THEN tcb[c].msg ELSE NoMsg]
      /\ pc'[c] = "run" /\ local'[c] = NoLocal
  BY <1>2, <1>3, <1>4 DEF TypesOK
<1>6. tcb'[c] \in TCBs /\ local'[c] \in Locals
  <2>1. NoLocal \in Locals
    BY PriosAreNat DEF NoLocal, Locals, CallNames
  <2> QED BY <1>2, <1>5, <2>1 DEF TCBs
<1>7. /\ tcb'[c].stat = {} /\ tcb'[c].statPend = "OK" /\ tcb'[c].multi = {}
      /\ tcb'[c].prio = tcb[c].prio /\ tcb'[c].dly = 0
      /\ local'[c].call = "none" /\ local'[c].events = {}
  BY <1>2, <1>5 DEF TCBs, NoLocal
<1>8. pc' \in [Tasks -> Places] /\ tcb' \in [Tasks -> TCBs] /\ local' \in [Tasks -> Locals]
  BY <1>3, <1>4, <1>5, <1>6 DEF TypesOK, Places
<1>9. OSFlagWaitList' = OSFlagWaitList /\ node' = node /\ app' = app
  BY DEF flagVars
<1>10. /\ DOMAIN event' = Events
       /\ \A e \in Events : /\ DOMAIN event'[e] = EventFields /\ event'[e].type = event[e].type
                            /\ event'[e].grp \in {event[e].grp, event[e].grp \ {tcb[c].prio}}
                            /\ tcb[c].prio \notin event'[e].grp
  <2>1. CASE tcb[c].statPend = "TO" /\ EventTaskRemove(c, local[c].events)
    <3>1. \A e \in Events : e \notin local[c].events => tcb[c].prio \notin event[e].grp
      BY <1>2, <1>3 DEF ListsOK, Waiters, TableOK
    <3> QED BY <1>3, <2>1, <3>1 DEF EventTaskRemove, EventsTyped, EventFields
  <2>2. CASE tcb[c].statPend # "TO" /\ event' = event
    BY <1>2, <1>3, <2>2 DEF EventsTyped, Listed, Waiters
  <2> QED BY <1>4, <2>1, <2>2
<1>11. ~Listed(c)' /\ ~Pending(c)' /\ Bits(c)' = {}
  <2>1. ~FlagListed(c)
    BY <1>a, <1>3 DEF FlagListed, FlagsOK
  <2> QED BY <1>5, <1>7, <1>9, <1>10, <2>1 DEF Listed, FlagListed, Waiters, Pending, Bits
<1>12. \A t \in Tasks \ {c} : /\ pc'[t] = pc[t] /\ tcb'[t] = tcb[t]
                              /\ local'[t] = local[t] /\ node'[t] = node[t]
  BY <1>3, <1>4, <1>9 DEF TypesOK
<1>13. EventsTyped(event')
  BY <1>3, <1>10 DEF EventsTyped
<1>14. OwnFrame(c)
  <2>1. \A e \in Events : \A p \in Prios \ {tcb[c].prio} : p \in event'[e].grp <=> p \in event[e].grp
    BY <1>10
  <2> QED BY <1>1, <1>a, <1>2, <1>3, <1>4, <1>5, <1>7, <1>8, <1>9, <1>10, <1>12, <1>13, <2>1
          DEF OwnFrame, TypesOK
<1>15. SchedOK'
  BY <1>1, <1>2, <1>4 DEF SchedOK, schedVars, runVars
<1>16. OwnWaits(c)' /\ OwnRunnable(c)' /\ OwnPending(c)'
  BY <1>2, <1>4, <1>7, <1>11 DEF OwnWaits, OwnRunnable, OwnPending, Waits
<1>17. OwnLists(c)' /\ OwnFlags(c)'
  BY <1>11 DEF OwnLists, OwnFlags, Listed, FlagListed
<1> QED BY <1>14, <1>15, <1>16, <1>17, OwnKeeps

LEMMA FlagPendEndsKeeps ==
  ASSUME TasksOK, OSFlagPendEnds, app' = app
  PROVE  TasksOK'
<1>1. PICK c : c = OSTCBCur
  OBVIOUS
<1>a. ~InISR /\ c # Idle /\ pc[c] = "wake" /\ local[c].call = "flag"
  BY <1>1 DEF OSFlagPendEnds
<1>2. /\ c \in OSTCBList /\ c \in Tasks /\ ~Locked /\ OSPrioCur = tcb[c].prio
      /\ tcb[c] \in TCBs /\ local[c] \in Locals
      /\ tcb[c].prio \in OSRdyTbl /\ "SUSPEND" \notin tcb[c].stat /\ tcb[c].dly = 0
      /\ ~Waits(c) /\ (Listed(c) => tcb[c].statPend = "TO" /\ Bits(c) = {})
      /\ OSPrioCur \in OSRdyTbl /\ (~deferred => OSPrioCur = Min(OSRdyTbl))
  BY <1>1, <1>a, WokenIsReady
<1>3. /\ TypesOK /\ EventsTyped(event) /\ TableOK /\ SchedOK /\ PendingOK /\ ListsOK /\ FlagsOK
      /\ WaitsOK
  BY DEF TasksOK
<1>4. /\ \/ /\ tcb[c].statPend # "OK" /\ OS_FlagUnlink({c})
            /\ tcb' = [tcb EXCEPT ![c].statPend = "OK", ![c].stat = {}]
         \/ tcb[c].statPend = "OK" /\ tcb' = tcb /\ OSFlagWaitList' = OSFlagWaitList
      /\ node' = [node EXCEPT ![c] = NoNode]
      /\ pc' = [pc EXCEPT ![c] = "run"]
      /\ local' = [local EXCEPT ![c] = NoLocal]
      /\ UNCHANGED schedVars /\ UNCHANGED listVars /\ OSRdyTbl' = OSRdyTbl /\ event' = event
  BY <1>1 DEF OSFlagPendEnds
<1>5. Bits(c) = {} /\ "MULTI" \notin tcb[c].stat /\ tcb[c].multi = {} /\ local[c].events = {}
  <2>1. "MULTI" \notin tcb[c].stat /\ tcb[c].multi = {} /\ local[c].events = {}
    BY <1>a, <1>2, <1>3 DEF PendingOK
  <2>2. Bits(c) = {}
    BY <1>a, <1>2, <1>3 DEF WaitsOK
  <2> QED BY <2>1, <2>2
<1>6. /\ tcb'[c] \in TCBs /\ tcb'[c].prio = tcb[c].prio /\ tcb'[c].multi = {} /\ tcb'[c].dly = 0
      /\ tcb'[c].stat \subseteq tcb[c].stat /\ tcb' \in [Tasks -> TCBs]
      /\ \A t \in Tasks \ {c} : tcb'[t] = tcb[t]
  <2>1. CASE tcb' = [tcb EXCEPT ![c].statPend = "OK", ![c].stat = {}]
    <3>1. tcb'[c] = [tcb[c] EXCEPT !.statPend = "OK", !.stat = {}] /\ \A t \in Tasks \ {c} : tcb'[t] = tcb[t]
      BY <1>2, <1>3, <2>1 DEF TypesOK
    <3>2. tcb'[c] \in TCBs /\ tcb'[c].prio = tcb[c].prio /\ tcb'[c].multi = {} /\ tcb'[c].dly = 0
          /\ tcb'[c].stat = {}
      BY <1>2, <1>5, <3>1 DEF TCBs
    <3> QED BY <1>3, <2>1, <3>1, <3>2 DEF TypesOK
  <2>2. CASE tcb' = tcb
    BY <1>2, <1>3, <1>5, <2>2 DEF TypesOK
  <2> QED BY <1>4, <2>1, <2>2
<1>7. /\ pc'[c] = "run" /\ local'[c] = NoLocal /\ NoLocal \in Locals
      /\ local'[c].call = "none" /\ local'[c].events = {}
  BY <1>2, <1>3, <1>4, PriosAreNat DEF TypesOK, NoLocal, Locals, CallNames
<1>8. /\ pc' \in [Tasks -> Places] /\ local' \in [Tasks -> Locals] /\ DOMAIN node' = Tasks
      /\ \A t \in Tasks \ {c} : pc'[t] = pc[t] /\ local'[t] = local[t] /\ node'[t] = node[t]
  BY <1>3, <1>4, <1>7 DEF TypesOK, Places
<1>9. /\ OSFlagWaitList' \in [FlagGroups -> SUBSET Tasks] /\ ~FlagListed(c)'
      /\ \A g \in FlagGroups : \A t \in Tasks \ {c} : t \in OSFlagWaitList'[g] <=> t \in OSFlagWaitList[g]
  <2>1. CASE OS_FlagUnlink({c})
    BY <1>3, <2>1 DEF OS_FlagUnlink, TypesOK, FlagListed
  <2>2. CASE tcb[c].statPend = "OK" /\ OSFlagWaitList' = OSFlagWaitList
    BY <1>2, <1>3, <2>2 DEF TypesOK, FlagListed, Listed
  <2> QED BY <1>4, <2>1, <2>2
<1>10. ~Listed(c)' /\ ~Pending(c)' /\ Bits(c)' = {}
  <2>1. \A e \in Events : tcb[c].prio \notin event[e].grp
    BY <1>2, <1>3, <1>5 DEF ListsOK, Waiters, TableOK
  <2> QED BY <1>4, <1>5, <1>6, <1>7, <1>9, <2>1 DEF Listed, Waiters, Pending, Bits
<1>11. OwnFrame(c)
  BY <1>1, <1>a, <1>2, <1>3, <1>4, <1>6, <1>7, <1>8, <1>9 DEF OwnFrame, EventsTyped
<1>12. SchedOK'
  BY <1>1, <1>2, <1>4 DEF SchedOK, schedVars, runVars
<1>13. OwnWaits(c)' /\ OwnRunnable(c)'
  BY <1>2, <1>4, <1>6, <1>10 DEF OwnWaits, OwnRunnable, Waits
<1>14. OwnPending(c)'
  BY <1>2, <1>5, <1>6, <1>7, <1>10 DEF OwnPending
<1>15. OwnLists(c)' /\ OwnFlags(c)'
  BY <1>10 DEF OwnLists, OwnFlags, Listed, FlagListed
<1> QED BY <1>11, <1>12, <1>13, <1>14, <1>15, OwnKeeps

-----------------------------------------------------------------------------
(* A call that changes one task's control block and its place in the ready *)
(* list, and no wait list.                                                 *)
LEMMA OneBlockKeeps ==
  ASSUME TasksOK, CallFrame, NEW t \in OSTCBList, NEW b \in TCBs, tcb' = [tcb EXCEPT ![t] = b],
         b.prio = tcb[t].prio, b.multi = tcb[t].multi, b.eventPtr = tcb[t].eventPtr,
         b.stat \subseteq tcb[t].stat \cup {"SUSPEND"},
         "SUSPEND" \in b.stat =>
           "SUSPEND" \in tcb[t].stat \/ "OSTaskSuspend" \in app.calls \cup app.isr,
         event' = event, OSFlagWaitList' = OSFlagWaitList, deferred' = deferred,
         OSRdyTbl' \in {OSRdyTbl, OSRdyTbl \cup {tcb[t].prio}, OSRdyTbl \ {tcb[t].prio}},
         SchedOK',
         BeingDeleted(t) => /\ b.dly = tcb[t].dly
                            /\ tcb[t].prio \in OSRdyTbl' => tcb[t].prio \in OSRdyTbl,
         Listed(t) => \/ b.statPend = "OK" /\ b.stat \cap PendBits # {}
                      \/ b.statPend = "TO" /\ b.stat \cap PendBits = {} /\ b.dly = 0,
         b.stat \cap PendBits # {} => Listed(t) \/ (Pending(t) /\ local[t].call = "multi"),
         tcb[t].prio \in OSRdyTbl' =>
           "SUSPEND" \notin b.stat /\ b.dly = 0 /\ ~(Listed(t) /\ b.statPend = "OK"),
         /\ NoSuspendedMulti /\ ~BeingDeleted(t)
         /\ "SUSPEND" \notin b.stat /\ b.dly = 0 /\ ~(Listed(t) /\ b.statPend = "OK")
         => tcb[t].prio \in OSRdyTbl'
  PROVE  TasksOK'
<1>1. /\ TypesOK /\ EventsTyped(event) /\ TableOK /\ ReadyOK /\ CurrentOK /\ WaitsOK /\ RunnableOK
      /\ OSTCBList \subseteq Tasks
  BY DEF TasksOK, TypesOK
<1>2. tcb' \in [Tasks -> TCBs] /\ tcb'[t] = b /\ \A u \in Tasks : u # t => tcb'[u] = tcb[u]
  BY <1>1 DEF TypesOK
<1>3. \A u \in Tasks : tcb'[u].prio = tcb[u].prio
  BY <1>2
<1>4. \A u \in Tasks : Listed(u)' = Listed(u) /\ Pending(u)' = Pending(u)
  BY <1>1, <1>3, FrameFacts DEF Listed, FlagListed, Waiters
<1>5. \A u \in OSTCBList : u # t => tcb[u].prio # tcb[t].prio /\ tcb[u].prio \in Prios
  BY <1>1 DEF TableOK, TypesOK, TCBs
<1>6. \A u \in OSTCBList : u # t =>
        /\ tcb[u].prio \in OSRdyTbl' <=> tcb[u].prio \in OSRdyTbl
        /\ Bits(u)' = Bits(u) /\ Waits(u)' = Waits(u)
  BY <1>1, <1>2, <1>4, <1>5 DEF Bits, Waits
<1>7. Bits(t)' = b.stat \cap PendBits /\ (Waits(t)' <=> Listed(t) /\ b.statPend = "OK")
  BY <1>1, <1>2, <1>4 DEF Bits, Waits
<1>8. tcb[t].prio \in Prios /\ tcb[t].prio # LowestPrio
  <2>1. tcb[t].prio # LowestPrio
    BY <1>1, CoreAssumption DEF TableOK
  <2> QED BY <1>1, <2>1 DEF TypesOK, TCBs
<1>9. TypesOK'
  <2>1. pc' \in [Tasks -> Places] /\ OSRdyTbl' \subseteq Prios
    BY <1>1, <1>8, FrameFacts DEF TypesOK
  <2> QED BY <1>1, <1>2, <2>1 DEF TypesOK, CallFrame
<1>10. ListsShrink
  BY <1>1 DEF ListsShrink, EventsTyped
<1>11. BlocksChange
  <2>1. LowestPrio \in OSRdyTbl' /\ \A p \in OSRdyTbl' : p \in OSRdyTbl \/ p = tcb[t].prio
    BY <1>1, <1>8 DEF ReadyOK
  <2>2. \A u \in Tasks :
         /\ tcb'[u].prio = tcb[u].prio /\ tcb'[u].multi = tcb[u].multi
         /\ tcb'[u].stat \subseteq tcb[u].stat \cup {"SUSPEND"}
         /\ "SUSPEND" \in tcb'[u].stat =>
              "SUSPEND" \in tcb[u].stat \/ "OSTaskSuspend" \in app.calls \cup app.isr
    BY <1>2
  <2>3. \A u \in OSTCBList :
         /\ tcb'[u].eventPtr = tcb[u].eventPtr
         /\ BeingDeleted(u) => /\ tcb'[u].dly = tcb[u].dly
                               /\ tcb[u].prio \in OSRdyTbl' => tcb[u].prio \in OSRdyTbl
    BY <1>1, <1>2, <1>6
  <2> QED BY <2>1, <2>2, <2>3 DEF BlocksChange
<1>12. WaitsOK'
  <2> SUFFICES ASSUME NEW u \in OSTCBList
        PROVE  /\ Listed(u)' => \/ tcb'[u].statPend = "OK" /\ Bits(u)' # {}
                                \/ tcb'[u].statPend = "TO" /\ Bits(u)' = {} /\ tcb'[u].dly = 0
               /\ Bits(u)' # {} => Listed(u)' \/ (Pending(u)' /\ local'[u].call = "multi")
    BY DEF WaitsOK, CallFrame
  <2>1. CASE u = t
    BY <1>1, <1>2, <1>4, <1>7, <2>1 DEF CallFrame
  <2>2. CASE u # t
    BY <1>1, <1>2, <1>4, <1>6, <2>2 DEF CallFrame, WaitsOK
  <2> QED BY <2>1, <2>2
<1>13. RunnableOK'
  <2> SUFFICES ASSUME NEW u \in OSTCBList
        PROVE  /\ tcb'[u].prio \in OSRdyTbl' => "SUSPEND" \notin tcb'[u].stat /\ tcb'[u].dly = 0 /\ ~Waits(u)'
               /\ /\ NoSuspendedMulti /\ ~BeingDeleted(u)
                  /\ "SUSPEND" \notin tcb'[u].stat /\ tcb'[u].dly = 0 /\ ~Waits(u)'
                  => tcb'[u].prio \in OSRdyTbl'
    BY <1>1, FrameFacts DEF RunnableOK, CallFrame, NoSuspendedMulti
  <2>1. CASE u = t
    BY <1>2, <1>7, <2>1
  <2>2. CASE u # t
    BY <1>1, <1>2, <1>6, <2>2 DEF RunnableOK
  <2> QED BY <2>1, <2>2
<1> QED BY <1>9, <1>10, <1>11, <1>12, <1>13, CallKeeps

(* The frame of a call that names its changes.                             *)
LEMMA FrameOfCall ==
  ASSUME CanCall, CallSched \/ Return, OSTCBCur' = OSTCBCur, OSPrioCur' = OSPrioCur,
         OSIntNesting' = OSIntNesting, OSLockNesting' = OSLockNesting,
         UNCHANGED <<listVars, node, app>>
  PROVE  /\ CallFrame
         /\ CallSched => InISR \/ pc' = [pc EXCEPT ![OSTCBCur] = "sched"]
<1>1. local' = local /\ (pc' = pc \/ (~InISR /\ pc' = [pc EXCEPT ![OSTCBCur] = "sched"]))
  BY DEF CallSched, Return, callVars
<1> QED BY <1>1 DEF CallFrame, listVars, CallSched

(* What the deletion of a task keeps others from.                          *)
LEMMA NotBeingDeleted ==
  ASSUME TypesOK, DeletionOK, NEW t \in OSTCBList, BeingDeleted(t)
  PROVE  /\ tcb[t].dly = 0 /\ ~Listed(t) /\ "OSTaskDel" \in app.calls
         /\ tcb[t].prio \notin OSRdyTbl /\ pc[OSTCBCur] = "delete"
BY DEF BeingDeleted, DeletionOK, TypesOK

LEMMA TimeDlyKeeps ==
  ASSUME TasksOK, NEW n \in Nat, OSTimeDly(n), UNCHANGED <<flagVars, app>>
  PROVE  TasksOK'
<1>1. PICK c : c = OSTCBCur
  OBVIOUS
<1>2. /\ TypesOK /\ TableOK /\ CurrentOK /\ SchedOK /\ DeletionOK /\ ListsOK /\ FlagsOK /\ WaitsOK
      /\ OSRdyTbl \subseteq Prios
  BY DEF TasksOK, TypesOK
<1>3. c \in OSTCBList /\ c \in Tasks /\ pc[c] = "run" /\ tcb[c] \in TCBs
  BY <1>1, <1>2, CallerExists DEF OSTimeDly, TaskCalls, TypesOK
<1>4. ~Listed(c) /\ ~BeingDeleted(c)
  BY <1>1, <1>2, <1>3, NotBeingDeleted DEF Listed, FlagListed, ListsOK, FlagsOK, TableOK, Pending
<1>5. PICK b : b = [tcb[c] EXCEPT !.dly = n]
  OBVIOUS
<1>6. /\ b \in TCBs /\ b.dly = n /\ b.prio = tcb[c].prio /\ b.multi = tcb[c].multi
      /\ b.eventPtr = tcb[c].eventPtr /\ b.stat = tcb[c].stat
  BY <1>3, <1>5 DEF TCBs
<1>7. /\ tcb' = [tcb EXCEPT ![c] = b] /\ OSRdyTbl' = OSRdyTbl \ {tcb[c].prio} /\ event' = event
      /\ OSFlagWaitList' = OSFlagWaitList /\ deferred' = deferred /\ n # 0 /\ CallSched
  BY <1>1, <1>2, <1>3, <1>5 DEF OSTimeDly, flagVars, schedVars, runVars, TypesOK
<1>8. CallFrame /\ (InISR \/ pc' = [pc EXCEPT ![OSTCBCur] = "sched"])
  BY <1>7, FrameOfCall DEF OSTimeDly, TaskCalls, schedVars, runVars, flagVars
<1>9. SchedOK'
  BY <1>2, <1>7, <1>8, CallSchedOK
<1> QED BY <1>2, <1>3, <1>4, <1>6, <1>7, <1>8, <1>9, OneBlockKeeps DEF WaitsOK, Bits

(* The end of a wait by time.                                              *)
LEMMA ExpiredFields ==
  ASSUME NEW t, tcb[t] \in TCBs
  PROVE  /\ Expired(t) \in TCBs /\ Expired(t).prio = tcb[t].prio /\ Expired(t).multi = tcb[t].multi
         /\ Expired(t).eventPtr = tcb[t].eventPtr /\ Expired(t).stat = tcb[t].stat \ PendBits
         /\ Expired(t).dly = 0
         /\ Expired(t).statPend = IF Bits(t) # {} THEN "TO" ELSE "OK"
BY DEF Expired, TCBs, Bits

LEMMA TimeDlyResumeKeeps ==
  ASSUME TasksOK, NEW p \in Prios, OSTimeDlyResume(p), UNCHANGED <<flagVars, app>>
  PROVE  TasksOK'
<1>1. PICK t : t = OSTCBPrioTbl[p]
  OBVIOUS
<1>2. /\ TypesOK /\ TableOK /\ CurrentOK /\ SchedOK /\ DeletionOK /\ WaitsOK /\ RunnableOK
      /\ OSRdyTbl \subseteq Prios
  BY DEF TasksOK, TypesOK
<1>3. t \in OSTCBList /\ t \in Tasks /\ tcb[t] \in TCBs /\ tcb[t].prio \in Prios /\ tcb[t].dly # 0
  BY <1>1, <1>2 DEF OSTimeDlyResume, TypesOK, TableOK, TCBs
<1>4. PICK b : b = Expired(t)
  OBVIOUS
<1>5. /\ b \in TCBs /\ b.prio = tcb[t].prio /\ b.multi = tcb[t].multi /\ b.eventPtr = tcb[t].eventPtr
      /\ b.stat = tcb[t].stat \ PendBits /\ b.dly = 0
      /\ b.statPend = IF Bits(t) # {} THEN "TO" ELSE "OK"
  BY <1>3, <1>4, ExpiredFields
<1>6. Readied({t}) = IF "SUSPEND" \notin tcb[t].stat THEN {tcb[t].prio} ELSE {}
  <2>1. CASE "SUSPEND" \notin tcb[t].stat
    BY <2>1 DEF Readied
  <2>2. CASE "SUSPEND" \in tcb[t].stat
    BY <2>2 DEF Readied
  <2> QED BY <2>1, <2>2
<1>7. /\ tcb' = [tcb EXCEPT ![t] = b] /\ OSRdyTbl' = OSRdyTbl \cup Readied({t}) /\ event' = event
      /\ OSFlagWaitList' = OSFlagWaitList /\ deferred' = deferred
      /\ IF Readied({t}) # {} THEN CallSched ELSE Return
  BY <1>1, <1>4 DEF OSTimeDlyResume, flagVars, schedVars, runVars
<1>8. CallFrame /\ (CallSched => InISR \/ pc' = [pc EXCEPT ![OSTCBCur] = "sched"])
  BY <1>7, FrameOfCall DEF OSTimeDlyResume, schedVars, runVars, flagVars
<1>9. OSRdyTbl' \in {OSRdyTbl, OSRdyTbl \cup {tcb[t].prio}} /\ OSRdyTbl' \subseteq Prios
      /\ (tcb[t].prio \in OSRdyTbl' <=> tcb[t].prio \in OSRdyTbl \/ "SUSPEND" \notin tcb[t].stat)
  BY <1>2, <1>3, <1>6, <1>7
<1>10. SchedOK'
  <2>1. CASE Readied({t}) # {}
    BY <1>2, <1>7, <1>8, <1>9, <2>1, CallSchedOK
  <2>2. CASE Readied({t}) = {}
    <3>1. OSRdyTbl' = OSRdyTbl
      BY <1>7, <2>2
    <3> QED BY <1>2, <1>7, <1>8, <3>1, CallSchedOK
  <2> QED BY <2>1, <2>2
<1>11. ~BeingDeleted(t)
  BY <1>2, <1>3, NotBeingDeleted
<1>12. /\ b.stat \cap PendBits = {} /\ ("SUSPEND" \in b.stat <=> "SUSPEND" \in tcb[t].stat)
       /\ b.stat \subseteq tcb[t].stat
  BY <1>5 DEF PendBits
<1>13. Listed(t) => b.statPend = "TO"
  BY <1>2, <1>3, <1>5 DEF WaitsOK
<1>14. tcb[t].prio \notin OSRdyTbl
  BY <1>2, <1>3 DEF RunnableOK
<1> QED
  BY <1>3, <1>5, <1>7, <1>8, <1>9, <1>10, <1>11, <1>12, <1>13, <1>14, OneBlockKeeps

LEMMA TaskSuspendKeeps ==
  ASSUME TasksOK, NEW p \in Prios, May("OSTaskSuspend"), OSTaskSuspend(p), app' = app
  PROVE  TasksOK'
<1>1. PICK t : t = OSTCBPrioTbl[p]
  OBVIOUS
<1>2. /\ TypesOK /\ TableOK /\ CurrentOK /\ SchedOK /\ DeletionOK /\ WaitsOK /\ RunnableOK
      /\ OSRdyTbl \subseteq Prios
  BY DEF TasksOK, TypesOK
<1>3. t \in OSTCBList /\ t \in Tasks /\ tcb[t] \in TCBs
  BY <1>1, <1>2 DEF OSTaskSuspend, TypesOK, TableOK
<1>4. PICK b : b = [tcb[t] EXCEPT !.stat = @ \cup {"SUSPEND"}]
  OBVIOUS
<1>5. /\ b \in TCBs /\ b.prio = tcb[t].prio /\ b.multi = tcb[t].multi /\ b.eventPtr = tcb[t].eventPtr
      /\ b.stat = tcb[t].stat \cup {"SUSPEND"} /\ b.dly = tcb[t].dly /\ b.statPend = tcb[t].statPend
  <2>1. tcb[t].stat \cup {"SUSPEND"} \in SUBSET StatBits
    BY <1>3 DEF TCBs, StatBits
  <2> QED BY <1>3, <1>4, <2>1 DEF TCBs
<1>6. "OSTaskSuspend" \in app.calls \cup app.isr
  BY DEF May
<1>7. /\ tcb' = [tcb EXCEPT ![t] = b] /\ OSRdyTbl' = OSRdyTbl \ {tcb[t].prio} /\ event' = event
      /\ OSFlagWaitList' = OSFlagWaitList /\ deferred' = deferred
      /\ IF t = OSTCBCur THEN CallSched ELSE Return
  BY <1>1, <1>2, <1>3, <1>4 DEF OSTaskSuspend, flagVars, schedVars, runVars, TypesOK
<1>8. CallFrame /\ (CallSched => InISR \/ pc' = [pc EXCEPT ![OSTCBCur] = "sched"])
  BY <1>7, FrameOfCall DEF OSTaskSuspend, schedVars, runVars, flagVars
<1>9. SchedOK'
  <2>1. CASE t = OSTCBCur
    BY <1>2, <1>7, <1>8, <2>1, CallSchedOK
  <2>2. CASE t # OSTCBCur /\ ~InISR
    <3>1. OSTCBCur \in OSTCBList /\ OSPrioCur = tcb[OSTCBCur].prio
      BY <1>2, <2>2, CallerExists DEF OSTaskSuspend
    <3>2. tcb[t].prio # OSPrioCur
      BY <1>2, <1>3, <2>2, <3>1 DEF TableOK
    <3> QED BY <1>2, <1>7, <1>8, <3>2, CallSchedOK
  <2>3. CASE InISR
    BY <1>2, <1>7, <1>8, <2>3, CallSchedOK
  <2> QED BY <2>1, <2>2, <2>3
<1>10. b.stat \cap PendBits = Bits(t) /\ "SUSPEND" \in b.stat
  BY <1>5 DEF PendBits, Bits
<1> QED
  BY <1>2, <1>3, <1>5, <1>6, <1>7, <1>8, <1>9, <1>10, OneBlockKeeps DEF WaitsOK, RunnableOK

(* An application that deletes tasks resumes none from an interrupt, so    *)
(* the task is not one that is being deleted.                              *)
LEMMA TaskResumeKeeps ==
  ASSUME TasksOK, Plain, NEW p \in Prios, May("OSTaskResume"), OSTaskResume(p), app' = app
  PROVE  TasksOK'
<1>1. PICK t : t = OSTCBPrioTbl[p]
  OBVIOUS
<1>2. /\ TypesOK /\ TableOK /\ CurrentOK /\ SchedOK /\ DeletionOK /\ PendingOK /\ WaitsOK /\ RunnableOK
      /\ OSRdyTbl \subseteq Prios
  BY DEF TasksOK, TypesOK
<1>3. t \in OSTCBList /\ t \in Tasks /\ tcb[t] \in TCBs /\ "SUSPEND" \in tcb[t].stat
      /\ tcb[t].prio \in Prios
  BY <1>1, <1>2 DEF OSTaskResume, TypesOK, TableOK, TCBs
<1>4. PICK b : b = [tcb[t] EXCEPT !.stat = @ \ {"SUSPEND"}]
  OBVIOUS
<1>5. /\ b \in TCBs /\ b.prio = tcb[t].prio /\ b.multi = tcb[t].multi /\ b.eventPtr = tcb[t].eventPtr
      /\ b.stat = tcb[t].stat \ {"SUSPEND"} /\ b.dly = tcb[t].dly /\ b.statPend = tcb[t].statPend
  BY <1>3, <1>4 DEF TCBs
<1>6. PICK runs \in BOOLEAN : runs <=> tcb[t].stat = {"SUSPEND"} /\ tcb[t].dly = 0
  OBVIOUS
<1>7. /\ tcb' = [tcb EXCEPT ![t] = b] /\ event' = event
      /\ OSRdyTbl' = IF runs THEN OSRdyTbl \cup {tcb[t].prio} ELSE OSRdyTbl
      /\ OSFlagWaitList' = OSFlagWaitList /\ deferred' = deferred
      /\ IF runs THEN CallSched ELSE Return
  <2>1. tcb' = [tcb EXCEPT ![t] = b] /\ event' = event
    BY <1>1, <1>2, <1>3, <1>4 DEF OSTaskResume, TypesOK
  <2>2. /\ OSRdyTbl' = IF runs THEN OSRdyTbl \cup {tcb[t].prio} ELSE OSRdyTbl
        /\ IF runs THEN CallSched ELSE Return
    BY <1>1, <1>6 DEF OSTaskResume
  <2> QED BY <2>1, <2>2 DEF OSTaskResume, flagVars, schedVars, runVars
<1>8. CallFrame /\ (CallSched => InISR \/ pc' = [pc EXCEPT ![OSTCBCur] = "sched"])
  BY <1>7, FrameOfCall DEF OSTaskResume, schedVars, runVars, flagVars
<1>9. SchedOK'
  <2>1. CASE runs
    BY <1>2, <1>3, <1>7, <1>8, <2>1, CallSchedOK
  <2>2. CASE ~runs
    BY <1>2, <1>7, <1>8, <2>2, CallSchedOK
  <2> QED BY <2>1, <2>2
<1>10. ~BeingDeleted(t)
  <2> SUFFICES ASSUME BeingDeleted(t) PROVE FALSE
    OBVIOUS
  <2>1. "OSTaskDel" \in app.calls /\ pc[OSTCBCur] = "delete"
    BY <1>2, <1>3, NotBeingDeleted
  <2>2. InISR
    BY <2>1 DEF OSTaskResume, CanCall
  <2> QED BY <2>1, <2>2 DEF Plain, May
<1>11. b.stat \cap PendBits = Bits(t) /\ "SUSPEND" \notin b.stat
  BY <1>5 DEF PendBits, Bits
<1>12. tcb[t].prio \notin OSRdyTbl
  BY <1>2, <1>3 DEF RunnableOK
<1>13. runs => ~(Listed(t) /\ b.statPend = "OK") /\ b.dly = 0
  <2>1. runs => Bits(t) = {}
    BY <1>6 DEF Bits, PendBits
  <2> QED BY <1>2, <1>3, <1>5, <1>6, <2>1 DEF WaitsOK
<1>14. ASSUME NoSuspendedMulti, b.dly = 0, ~(Listed(t) /\ b.statPend = "OK")
       PROVE  runs
  <2>1. local[t].call # "multi"
    BY <1>2, <1>3, <1>14 DEF NoSuspendedMulti, PendingOK
  <2>2. "MULTI" \notin tcb[t].stat
    BY <1>2, <1>3, <2>1 DEF PendingOK
  <2>3. Bits(t) = {}
    BY <1>2, <1>3, <1>5, <1>14, <2>1 DEF WaitsOK
  <2>4. tcb[t].stat = {"SUSPEND"}
    BY <1>3, <2>2, <2>3 DEF TCBs, StatBits, Bits
  <2> QED BY <1>5, <1>6, <1>14, <2>4
<1>15. tcb[t].prio \in OSRdyTbl' <=> runs
  BY <1>7, <1>12
<1> QED
  <2>1. Listed(t) => \/ b.statPend = "OK" /\ b.stat \cap PendBits # {}
                     \/ b.statPend = "TO" /\ b.stat \cap PendBits = {} /\ b.dly = 0
    BY <1>2, <1>3, <1>5, <1>11 DEF WaitsOK
  <2>2. b.stat \cap PendBits # {} => Listed(t) \/ (Pending(t) /\ local[t].call = "multi")
    BY <1>2, <1>3, <1>11 DEF WaitsOK
  <2>3. b.stat \subseteq tcb[t].stat \cup {"SUSPEND"}
    BY <1>5
  <2>4. OSRdyTbl' \in {OSRdyTbl, OSRdyTbl \cup {tcb[t].prio}, OSRdyTbl \ {tcb[t].prio}}
    BY <1>7
  <2> QED
    BY <1>3, <1>5, <1>7, <1>8, <1>9, <1>10, <1>11, <1>13, <1>14, <1>15, <2>1, <2>2, <2>3, <2>4,
       OneBlockKeeps

LEMMA TimeTickKeeps ==
  ASSUME TasksOK, OSTimeTick, UNCHANGED <<flagVars, app>>
  PROVE  TasksOK'
<1>1. /\ TypesOK /\ EventsTyped(event) /\ TableOK /\ ReadyOK /\ CurrentOK /\ SchedOK /\ DeletionOK
      /\ WaitsOK /\ RunnableOK
  BY DEF TasksOK
<1>2. PICK expired : expired = {t \in OSTCBList : tcb[t].dly = 1}
  OBVIOUS
<1>3. /\ tcb' = [t \in Tasks |-> IF t \in expired THEN Expired(t)
                                 ELSE IF t \in OSTCBList /\ tcb[t].dly > 0
                                 THEN [tcb[t] EXCEPT !.dly = @ - 1] ELSE tcb[t]]
      /\ OSRdyTbl' = OSRdyTbl \cup Readied(expired) /\ event' = event
      /\ OSFlagWaitList' = OSFlagWaitList /\ deferred' = deferred /\ InISR
  BY <1>2 DEF OSTimeTick, flagVars, schedVars, runVars
<1>4. CallFrame
  BY FrameOfCall DEF OSTimeTick, schedVars, runVars, flagVars, CanCall, Return
<1>5. OSTCBList \subseteq Tasks /\ expired \subseteq OSTCBList /\ \A t \in Tasks : tcb[t] \in TCBs
  BY <1>1, <1>2 DEF TypesOK
<1>6. ASSUME NEW t \in Tasks
      PROVE  /\ tcb'[t] \in TCBs /\ tcb'[t].prio = tcb[t].prio /\ tcb'[t].multi = tcb[t].multi
             /\ tcb'[t].eventPtr = tcb[t].eventPtr /\ tcb'[t].stat \subseteq tcb[t].stat
             /\ "SUSPEND" \in tcb'[t].stat <=> "SUSPEND" \in tcb[t].stat
             /\ t \in expired => /\ tcb'[t].stat \cap PendBits = {} /\ tcb'[t].dly = 0
                                 /\ tcb'[t].statPend = IF Bits(t) # {} THEN "TO" ELSE "OK"
             /\ t \notin expired => tcb'[t].stat = tcb[t].stat /\ tcb'[t].statPend = tcb[t].statPend
             /\ t \in OSTCBList \ expired => (tcb'[t].dly = 0 <=> tcb[t].dly = 0)
  <2>1. CASE t \in expired
    <3>1. tcb'[t] = Expired(t)
      BY <1>3, <2>1
    <3>2. Expired(t).stat = tcb[t].stat \ PendBits
      BY <1>5, ExpiredFields
    <3>3. /\ Expired(t).stat \cap PendBits = {} /\ Expired(t).stat \subseteq tcb[t].stat
          /\ "SUSPEND" \in Expired(t).stat <=> "SUSPEND" \in tcb[t].stat
      BY <3>2 DEF PendBits
    <3> QED BY <1>5, <2>1, <3>1, <3>3, ExpiredFields
  <2>2. CASE t \in OSTCBList \ expired /\ tcb[t].dly > 0
    <3>1. tcb'[t] = [tcb[t] EXCEPT !.dly = tcb[t].dly - 1] /\ tcb[t].dly \in Nat /\ tcb[t].dly # 1
      BY <1>2, <1>3, <1>5, <2>2 DEF TCBs
    <3>2. tcb[t].dly - 1 \in Nat /\ tcb[t].dly - 1 # 0 /\ tcb[t].dly # 0
      BY <2>2, <3>1
    <3> QED BY <1>5, <2>2, <3>1, <3>2 DEF TCBs
  <2>3. CASE t \notin expired /\ ~(t \in OSTCBList /\ tcb[t].dly > 0)
    <3>1. tcb'[t] = tcb[t]
      BY <1>3, <2>3
    <3> QED BY <1>5, <2>3, <3>1 DEF TCBs
  <2> QED BY <2>1, <2>2, <2>3
<1>7. \A t \in Tasks : Listed(t)' = Listed(t)
  BY <1>3, <1>6 DEF Listed, FlagListed, Waiters
<1>8. \A t \in Tasks : t \notin expired => Bits(t)' = Bits(t) /\ Waits(t)' = Waits(t)
  BY <1>6, <1>7 DEF Bits, Waits
<1>9. ASSUME NEW t \in expired
      PROVE  Bits(t)' = {} /\ ~Waits(t)' /\ ~BeingDeleted(t) /\ (Listed(t) => tcb'[t].statPend = "TO")
  <2>1. tcb[t].dly = 1 /\ t \in OSTCBList /\ t \in Tasks
    BY <1>2, <1>5
  <2>2. ~BeingDeleted(t)
    BY <1>1, <2>1, NotBeingDeleted
  <2>3. Listed(t) => Bits(t) # {}
    BY <1>1, <2>1 DEF WaitsOK
  <2> QED BY <1>6, <1>7, <2>1, <2>2, <2>3 DEF Bits, Waits
<1>10. Readied(expired) = {tcb[t].prio : t \in {u \in expired : "SUSPEND" \notin tcb[u].stat}}
  BY DEF Readied
<1>11. \A t \in OSTCBList : tcb[t].prio \in Prios /\ OSTCBPrioTbl[tcb[t].prio] = t
  BY <1>1, <1>5 DEF TCBs, TableOK
<1>12. ASSUME NEW t \in OSTCBList
       PROVE  tcb[t].prio \in OSRdyTbl' <=>
                tcb[t].prio \in OSRdyTbl \/ (t \in expired /\ "SUSPEND" \notin tcb[t].stat)
  BY <1>3, <1>5, <1>10, <1>11
<1>13. TypesOK'
  <2>1. tcb' \in [Tasks -> TCBs]
    BY <1>3, <1>6
  <2>2. OSRdyTbl' \subseteq Prios
    BY <1>1, <1>3, <1>5, <1>10, <1>11 DEF TypesOK
  <2>3. pc' \in [Tasks -> Places]
    BY <1>1, <1>4, FrameFacts
  <2> QED BY <1>1, <1>3, <1>4, <2>1, <2>2, <2>3 DEF TypesOK, CallFrame
<1>14. SchedOK'
  BY <1>1, <1>3, <1>4, <1>13, CallSchedOK DEF TypesOK
<1>15. ListsShrink
  BY <1>1, <1>3 DEF ListsShrink, EventsTyped
<1>16. BlocksChange
  <2>1. \A t \in OSTCBList : BeingDeleted(t) => tcb'[t].dly = tcb[t].dly /\ t \notin expired
    <3> SUFFICES ASSUME NEW t \in OSTCBList, BeingDeleted(t)
                 PROVE  tcb'[t].dly = tcb[t].dly /\ t \notin expired
      OBVIOUS
    <3>1. tcb[t].dly = 0 /\ t \notin expired /\ t \in Tasks
      BY <1>1, <1>5, <1>9, NotBeingDeleted
    <3>2. tcb'[t] = tcb[t]
      BY <1>3, <3>1
    <3> QED BY <3>1, <3>2
  <2>2. LowestPrio \in OSRdyTbl'
    BY <1>1, <1>3 DEF ReadyOK
  <2>3. \A p \in OSRdyTbl' : p \in OSRdyTbl \/ \E t \in OSTCBList : p = tcb[t].prio
    BY <1>3, <1>5, <1>10
  <2> QED BY <1>5, <1>6, <1>12, <2>1, <2>2, <2>3 DEF BlocksChange
<1>17. WaitsOK'
  <2> SUFFICES ASSUME NEW t \in OSTCBList
        PROVE  /\ Listed(t)' => \/ tcb'[t].statPend = "OK" /\ Bits(t)' # {}
                                \/ tcb'[t].statPend = "TO" /\ Bits(t)' = {} /\ tcb'[t].dly = 0
               /\ Bits(t)' # {} => Listed(t)' \/ (Pending(t)' /\ local'[t].call = "multi")
    BY <1>4 DEF WaitsOK, CallFrame
  <2>1. CASE t \in expired
    BY <1>5, <1>6, <1>7, <1>9, <2>1
  <2>2. CASE t \notin expired
    <3>1. Pending(t)' = Pending(t) /\ local' = local
      BY <1>1, <1>4, <1>5, FrameFacts DEF CallFrame
    <3> QED BY <1>1, <1>5, <1>6, <1>7, <1>8, <2>2, <3>1 DEF WaitsOK
  <2> QED BY <2>1, <2>2
<1>18. RunnableOK'
  <2> SUFFICES ASSUME NEW t \in OSTCBList
        PROVE  /\ tcb'[t].prio \in OSRdyTbl' => "SUSPEND" \notin tcb'[t].stat /\ tcb'[t].dly = 0 /\ ~Waits(t)'
               /\ /\ NoSuspendedMulti /\ ~BeingDeleted(t)
                  /\ "SUSPEND" \notin tcb'[t].stat /\ tcb'[t].dly = 0 /\ ~Waits(t)'
                  => tcb'[t].prio \in OSRdyTbl'
    BY <1>1, <1>4, FrameFacts DEF RunnableOK, CallFrame, NoSuspendedMulti
  <2>1. CASE t \in expired
    <3>1. tcb[t].prio \notin OSRdyTbl
      BY <1>1, <1>2, <2>1 DEF RunnableOK
    <3> QED BY <1>5, <1>6, <1>9, <1>12, <2>1, <3>1
  <2>2. CASE t \notin expired
    BY <1>1, <1>5, <1>6, <1>8, <1>12, <2>2 DEF RunnableOK
  <2> QED BY <2>1, <2>2
<1> QED BY <1>4, <1>13, <1>14, <1>15, <1>16, <1>17, <1>18, CallKeeps

FlagAwoken(t) == [tcb[t] EXCEPT !.dly = 0, !.stat = @ \ {"FLAG"}, !.statPend = "OK"]

LEMMA FlagAwokenFields ==
  ASSUME NEW t, tcb[t] \in TCBs
  PROVE  /\ FlagAwoken(t) \in TCBs /\ FlagAwoken(t).prio = tcb[t].prio
         /\ FlagAwoken(t).multi = tcb[t].multi /\ FlagAwoken(t).eventPtr = tcb[t].eventPtr
         /\ FlagAwoken(t).stat = tcb[t].stat \ {"FLAG"} /\ FlagAwoken(t).dly = 0
BY DEF FlagAwoken, TCBs

(* A post of flags, or the deletion of a group: the tasks of S leave the   *)
(* list, and those that are not suspended are ready.                       *)
LEMMA FlagTaskRdyKeeps ==
  ASSUME TasksOK, NEW g \in FlagGroups, NEW S \in SUBSET OSFlagWaitList[g], NEW rdy,
         OS_FlagTaskRdy(S, rdy), CanCall, UNCHANGED <<schedVars, listVars, event, node, app>>
  PROVE  TasksOK'
<1>1. /\ TypesOK /\ EventsTyped(event) /\ TableOK /\ ReadyOK /\ CurrentOK /\ SchedOK /\ DeletionOK
      /\ PendingOK /\ ListsOK /\ FlagsOK /\ WaitsOK /\ RunnableOK
  BY DEF TasksOK
<1>2. /\ OSTCBList \subseteq Tasks /\ S \subseteq OSTCBList
      /\ \A t \in Tasks : tcb[t] \in TCBs
      /\ \A t \in OSTCBList : tcb[t].prio \in Prios /\ OSTCBPrioTbl[tcb[t].prio] = t
  BY <1>1 DEF TypesOK, FlagsOK, TableOK, TCBs
<1>3. PICK ready : ready = {t \in S : tcb[t].stat \subseteq {"FLAG"}}
  OBVIOUS
<1>4. /\ tcb' = [t \in Tasks |->
           IF t \in S THEN [tcb[t] EXCEPT !.dly = 0, !.stat = @ \ {"FLAG"}, !.statPend = "OK"]
                      ELSE tcb[t]]
      /\ OSRdyTbl' = OSRdyTbl \cup {tcb[t].prio : t \in ready}
      /\ OSFlagWaitList' = [h \in FlagGroups |-> OSFlagWaitList[h] \ S]
      /\ IF ready = {} THEN Return ELSE CallSched
      /\ event' = event /\ deferred' = deferred
  BY <1>3 DEF OS_FlagTaskRdy, OS_FlagUnlink, schedVars, runVars
<1>5. CallFrame /\ (CallSched => InISR \/ pc' = [pc EXCEPT ![OSTCBCur] = "sched"])
  BY <1>4, FrameOfCall DEF schedVars, runVars
<1>6. ASSUME NEW t \in S
      PROVE  /\ tcb'[t] \in TCBs /\ tcb'[t].prio = tcb[t].prio /\ tcb'[t].multi = tcb[t].multi
             /\ tcb'[t].eventPtr = tcb[t].eventPtr
             /\ tcb'[t].stat = tcb[t].stat \ {"FLAG"} /\ tcb'[t].dly = 0
  <2>1. tcb'[t] = FlagAwoken(t)
    BY <1>2, <1>4 DEF FlagAwoken
  <2>2. tcb[t] \in TCBs
    BY <1>2
  <2> QED BY <2>1, <2>2, FlagAwokenFields
<1>7. \A t \in Tasks : t \notin S => tcb'[t] = tcb[t]
  BY <1>4
<1>8. ASSUME NEW t \in S
      PROVE  /\ Listed(t) /\ ~Listed(t)' /\ Bits(t)' = {} /\ ~Waits(t)' /\ ~BeingDeleted(t)
             /\ t \in ready <=> "SUSPEND" \notin tcb[t].stat
  <2>1. /\ t \in OSTCBList /\ t \in Tasks /\ local[t].call = "flag" /\ local[t].events = {}
        /\ Bits(t) \subseteq {"FLAG"}
    BY <1>1, <1>2 DEF FlagsOK
  <2>2. Listed(t)
    BY DEF Listed, FlagListed
  <2>3. \A e \in Events : tcb[t].prio \notin event[e].grp
    BY <1>1, <1>2, <2>1, SMTT(30) DEF ListsOK, Waiters
  <2>4. ~Listed(t)'
    BY <1>4, <1>6, <2>3, Zenon DEF Listed, FlagListed, Waiters
  <2>5. Bits(t)' = {}
    BY <1>6, <2>1 DEF Bits
  <2>6. "MULTI" \notin tcb[t].stat
    BY <1>1, <2>1 DEF PendingOK
  <2>7. t \in ready <=> "SUSPEND" \notin tcb[t].stat
    BY <1>2, <1>3, <2>1, <2>6 DEF TCBs, StatBits, Bits
  <2> QED BY <1>1, <2>1, <2>2, <2>4, <2>5, <2>7, NotBeingDeleted DEF Waits
<1>9. \A t \in OSTCBList : t \notin S =>
        Listed(t)' = Listed(t) /\ Bits(t)' = Bits(t) /\ Waits(t)' = Waits(t)
  <2> SUFFICES ASSUME NEW t \in OSTCBList, t \notin S
               PROVE  Listed(t)' = Listed(t) /\ Bits(t)' = Bits(t) /\ Waits(t)' = Waits(t)
    OBVIOUS
  <2>1. tcb'[t] = tcb[t]
    BY <1>2, <1>7
  <2>2. Listed(t)' = Listed(t)
    BY <1>4, <2>1 DEF Listed, FlagListed, Waiters
  <2> QED BY <2>1, <2>2 DEF Bits, Waits
<1>10. ASSUME NEW t \in OSTCBList
       PROVE  tcb[t].prio \in OSRdyTbl' <=> tcb[t].prio \in OSRdyTbl \/ t \in ready
  <2>1. \A u \in ready : u \in OSTCBList
    BY <1>2, <1>3
  <2> QED BY <1>2, <1>4, <2>1, ZenonT(40)
<1>11. TypesOK'
  <2>1. tcb' \in [Tasks -> TCBs]
    <3>1. \A t \in Tasks : tcb'[t] \in TCBs
      BY <1>2, <1>6, <1>7
    <3> QED BY <1>4, <3>1
  <2>2. OSRdyTbl' \subseteq Prios
    <3>1. \A t \in ready : tcb[t].prio \in Prios
      BY <1>2, <1>3
    <3>2. OSRdyTbl \subseteq Prios
      BY <1>1 DEF TypesOK
    <3> QED BY <1>4, <3>1, <3>2
  <2>3. pc' \in [Tasks -> Places]
    BY <1>1, <1>5, FrameFacts
  <2>4. OSFlagWaitList' \in [FlagGroups -> SUBSET Tasks]
    BY <1>1, <1>4 DEF TypesOK
  <2> QED BY <1>1, <1>4, <1>5, <2>1, <2>2, <2>3, <2>4 DEF TypesOK, CallFrame
<1>12. SchedOK'
  <2>1. OSRdyTbl' \subseteq Prios
    BY <1>11 DEF TypesOK
  <2>2. CASE ready = {}
    <3>1. OSRdyTbl' = OSRdyTbl
      BY <1>4, <2>2
    <3> QED BY <1>1, <1>4, <1>5, <2>1, <3>1, CallSchedOK
  <2>3. CASE ready # {}
    BY <1>1, <1>4, <1>5, <2>1, <2>3, CallSchedOK
  <2> QED BY <2>2, <2>3
<1>13. ListsShrink
  BY <1>1, <1>4 DEF ListsShrink, EventsTyped
<1>14. BlocksChange
  <2>1. \A t \in Tasks :
         /\ tcb'[t].prio = tcb[t].prio /\ tcb'[t].multi = tcb[t].multi
         /\ tcb'[t].stat \subseteq tcb[t].stat /\ tcb'[t].eventPtr = tcb[t].eventPtr
    BY <1>6, <1>7
  <2>2. \A t \in OSTCBList : BeingDeleted(t) => tcb'[t] = tcb[t] /\ t \notin ready
    BY <1>2, <1>3, <1>7, <1>8
  <2>3. LowestPrio \in OSRdyTbl' /\ \A p \in OSRdyTbl' : p \in OSRdyTbl \/ \E t \in OSTCBList : p = tcb[t].prio
    BY <1>1, <1>2, <1>3, <1>4, ZenonT(40) DEF ReadyOK
  <2> QED BY <1>2, <1>10, <2>1, <2>2, <2>3 DEF BlocksChange
<1>15. WaitsOK'
  <2> SUFFICES ASSUME NEW t \in OSTCBList
        PROVE  /\ Listed(t)' => \/ tcb'[t].statPend = "OK" /\ Bits(t)' # {}
                                \/ tcb'[t].statPend = "TO" /\ Bits(t)' = {} /\ tcb'[t].dly = 0
               /\ Bits(t)' # {} => Listed(t)' \/ (Pending(t)' /\ local'[t].call = "multi")
    BY <1>5 DEF WaitsOK, CallFrame
  <2>1. CASE t \in S
    BY <1>8, <2>1
  <2>2. CASE t \notin S
    <3>1. Pending(t)' = Pending(t) /\ local' = local /\ tcb'[t] = tcb[t]
      BY <1>1, <1>2, <1>5, <1>7, <2>2, FrameFacts DEF CallFrame
    <3> QED BY <1>1, <1>9, <2>2, <3>1 DEF WaitsOK
  <2> QED BY <2>1, <2>2
<1>16. RunnableOK'
  <2> SUFFICES ASSUME NEW t \in OSTCBList
        PROVE  /\ tcb'[t].prio \in OSRdyTbl' => "SUSPEND" \notin tcb'[t].stat /\ tcb'[t].dly = 0 /\ ~Waits(t)'
               /\ /\ NoSuspendedMulti /\ ~BeingDeleted(t)
                  /\ "SUSPEND" \notin tcb'[t].stat /\ tcb'[t].dly = 0 /\ ~Waits(t)'
                  => tcb'[t].prio \in OSRdyTbl'
    BY <1>1, <1>5, FrameFacts DEF RunnableOK, CallFrame, NoSuspendedMulti
  <2>1. CASE t \in S
    <3>1. tcb[t].prio \in OSRdyTbl => "SUSPEND" \notin tcb[t].stat
      BY <1>1 DEF RunnableOK
    <3> QED BY <1>6, <1>8, <1>10, <2>1, <3>1
  <2>2. CASE t \notin S
    <3>1. tcb'[t] = tcb[t] /\ t \notin ready
      BY <1>2, <1>3, <1>7, <2>2
    <3> QED BY <1>1, <1>9, <1>10, <2>2, <3>1 DEF RunnableOK
  <2> QED BY <2>1, <2>2
<1> QED BY <1>5, <1>11, <1>12, <1>13, <1>14, <1>15, <1>16, CallKeeps

-----------------------------------------------------------------------------
(* The running task reserves a priority for a task that it creates, or     *)
(* gives one back.                                                         *)
LEMMA ReserveKeeps ==
  ASSUME TasksOK, NEW c, c = OSTCBCur, c \in OSTCBList, ~InISR,
         pc[c] \in {"run", "create"}, NEW place \in {"run", "create"},
         pc' = [pc EXCEPT ![c] = place],
         NEW l \in Locals, l.events = {}, l.call \in {"none", local[c].call},
         local' = [local EXCEPT ![c] = l],
         NEW prio \in Prios, OSTCBPrioTbl[prio] \in {NoTask, Reserved}, NEW x \in {NoTask, Reserved},
         OSTCBPrioTbl' = [OSTCBPrioTbl EXCEPT ![prio] = x],
         \A d \in Tasks : pc'[d] = "create" =>
           /\ OSTCBPrioTbl'[local'[d].prio] = Reserved
           /\ \A u \in Tasks : pc'[u] = "create" /\ local'[u].prio = local'[d].prio => u = d,
         UNCHANGED <<schedVars, OSTCBList, waitVars, OSFlagWaitList, node, app>>
  PROVE  TasksOK'
<1>1. /\ TypesOK /\ EventsTyped(event) /\ TableOK /\ ReadyOK /\ CurrentOK /\ SchedOK /\ LockOK
      /\ DeletionOK /\ PendingOK /\ ListsOK /\ FlagsOK /\ WaitsOK /\ RunnableOK
      /\ c \in Tasks /\ OSTCBList \subseteq Tasks
  BY DEF TasksOK, TypesOK
<1>2. /\ OSTCBCur' = OSTCBCur /\ OSPrioCur' = OSPrioCur /\ deferred' = deferred
      /\ OSIntNesting' = OSIntNesting /\ OSLockNesting' = OSLockNesting
      /\ OSTCBList' = OSTCBList /\ OSRdyTbl' = OSRdyTbl /\ tcb' = tcb /\ event' = event
      /\ OSFlagWaitList' = OSFlagWaitList /\ node' = node /\ app' = app
      /\ Locked' = Locked /\ InISR' = InISR
  BY DEF schedVars, runVars, waitVars, Locked, InISR
<1>3. /\ pc' \in [Tasks -> Places] /\ local' \in [Tasks -> Locals]
      /\ OSTCBPrioTbl' \in [Prios -> Tasks \cup {Idle, NoTask, Reserved}]
      /\ pc'[c] = place /\ local'[c] = l
      /\ \A t \in Tasks : t # c => pc'[t] = pc[t] /\ local'[t] = local[t]
      /\ OSTCBPrioTbl'[prio] = x /\ \A p \in Prios : p # prio => OSTCBPrioTbl'[p] = OSTCBPrioTbl[p]
  BY <1>1 DEF TypesOK, Places
<1>4. OSTCBPrioTbl[prio] \notin Tasks \cup {Idle} /\ x \notin Tasks \cup {Idle}
  BY CoreAssumption
<1>5. \A t : FlagListed(t)' = FlagListed(t) /\ Listed(t)' = Listed(t) /\ Waits(t)' = Waits(t)
             /\ Bits(t)' = Bits(t) /\ Lists(t)' = Lists(t)
  BY <1>2 DEF FlagListed, Listed, Waits, Bits, Lists, Waiters
<1>6. ~Pending(c) /\ ~Pending(c)' /\ \A t \in Tasks : Pending(t)' = Pending(t)
  BY <1>1, <1>3 DEF Pending
<1>7. \A u \in Tasks : pc[u] # "delete" /\ pc'[u] # "delete"
  BY <1>1, <1>3 DEF DeletionOK
<1>8. \A t \in Tasks : ~BeingDeleted(t) /\ ~BeingDeleted(t)'
  BY <1>1, <1>2, <1>7 DEF BeingDeleted
<1>9. TypesOK'
  BY <1>1, <1>2, <1>3 DEF TypesOK
<1>10. TableOK'
  BY <1>1, <1>2, <1>3, <1>4, PriosAreNat DEF TableOK
<1>11. ReadyOK'
  BY <1>1, <1>2, <1>3, <1>4 DEF ReadyOK, TypesOK
<1>12. CurrentOK' /\ SchedOK' /\ LockOK' /\ DeletionOK'
  BY <1>1, <1>2, <1>3, <1>6, <1>7 DEF CurrentOK, SchedOK, LockOK, DeletionOK
<1>13. PendingOK'
  BY <1>1, <1>2, <1>3, <1>6 DEF PendingOK
<1>14. ListsOK'
  <2> SUFFICES ASSUME NEW e \in Events, NEW p \in event[e].grp, NEW t, t = OSTCBPrioTbl'[p]
               PROVE  /\ t \in OSTCBList /\ Pending(t)' /\ e \in local'[t].events /\ e \in Lists(t)'
                      /\ event[e].type \in {"sem", "mbox", "q"}
                      /\ local'[t].call # "multi" => Bits(t)' \subseteq {StatBit(e)'}
    BY <1>2 DEF ListsOK, Waiters
  <2>1. OSTCBPrioTbl[p] \in OSTCBList /\ p \in Prios
    BY <1>1 DEF ListsOK, Waiters, EventsTyped
  <2>2. t = OSTCBPrioTbl[p]
    BY <1>1, <1>3, <1>4, <2>1
  <2>3. /\ t \in OSTCBList /\ Pending(t) /\ e \in local[t].events /\ e \in Lists(t)
        /\ event[e].type \in {"sem", "mbox", "q"}
        /\ local[t].call # "multi" => Bits(t) \subseteq {StatBit(e)}
    BY <1>1, <2>2, ZenonT(40) DEF ListsOK, Waiters
  <2>4. local'[t] = local[t] /\ t \in Tasks
    BY <1>1, <1>3, <1>6, <2>3
  <2>5. StatBit(e)' = StatBit(e)
    BY <1>2 DEF StatBit, IsSem, IsMbox, IsQ
  <2> QED BY <1>5, <1>6, <2>3, <2>4, <2>5
<1>15. FlagsOK'
  BY <1>1, <1>2, <1>3, <1>5, <1>6 DEF FlagsOK
<1>16. WaitsOK'
  BY <1>1, <1>2, <1>3, <1>5, <1>6 DEF WaitsOK
<1>17. RunnableOK'
  BY <1>1, <1>2, <1>5, <1>8 DEF RunnableOK, NoSuspendedMulti
<1> QED
  BY <1>1, <1>2, <1>9, <1>10, <1>11, <1>12, <1>13, <1>14, <1>15, <1>16, <1>17 DEF TasksOK

LEMMA TaskCreateKeeps ==
  ASSUME TasksOK, NEW prio \in Prios, OSTaskCreate(prio), app' = app
  PROVE  TasksOK'
<1>1. PICK c : c = OSTCBCur
  OBVIOUS
<1>2. TypesOK /\ TableOK /\ CurrentOK /\ PendingOK
  BY DEF TasksOK
<1>3. ~InISR /\ c \in OSTCBList /\ c \in Tasks /\ pc[c] = "run" /\ local[c] \in Locals
      /\ local[c].events = {}
  BY <1>1, <1>2, CallerExists DEF OSTaskCreate, TaskCalls, TypesOK, PendingOK, Pending
<1>4. PICK l : l = [local[c] EXCEPT !.prio = prio]
  OBVIOUS
<1>5. l \in Locals /\ l.events = {} /\ l.call = local[c].call /\ l.prio = prio
  BY <1>3, <1>4 DEF Locals
<1>6. /\ pc' = [pc EXCEPT ![c] = "create"] /\ local' = [local EXCEPT ![c] = l]
      /\ OSTCBPrioTbl[prio] = NoTask /\ OSTCBPrioTbl' = [OSTCBPrioTbl EXCEPT ![prio] = Reserved]
  BY <1>1, <1>2, <1>3, <1>4 DEF OSTaskCreate, TypesOK
<1>7. /\ pc'[c] = "create" /\ local'[c].prio = prio /\ OSTCBPrioTbl'[prio] = Reserved
      /\ \A d \in Tasks : d # c => pc'[d] = pc[d] /\ local'[d] = local[d]
      /\ \A p \in Prios : p # prio => OSTCBPrioTbl'[p] = OSTCBPrioTbl[p]
      /\ \A d \in Tasks : local[d].prio \in Prios
  BY <1>2, <1>3, <1>5, <1>6 DEF TypesOK, Locals
<1>8. \A d \in Tasks : pc'[d] = "create" =>
        /\ OSTCBPrioTbl'[local'[d].prio] = Reserved
        /\ \A u \in Tasks : pc'[u] = "create" /\ local'[u].prio = local'[d].prio => u = d
  <2>1. \A d \in Tasks : pc[d] = "create" => local[d].prio # prio
    BY <1>2, <1>6, CoreAssumption DEF TableOK
  <2> QED BY <1>2, <1>3, <1>7, <2>1 DEF TableOK
<1>9. UNCHANGED <<schedVars, OSTCBList, waitVars, OSFlagWaitList, node, app>>
  BY DEF OSTaskCreate, flagVars
<1> QED BY <1>1, <1>3, <1>5, <1>6, <1>8, <1>9, ReserveKeeps

LEMMA NoLocalFields ==
  /\ NoLocal \in Locals /\ NoLocal.events = {} /\ NoLocal.call = "none"
  /\ NoLocal.task = NoTask /\ NoLocal.prio = LowestPrio
BY PriosAreNat DEF NoLocal, Locals, CallNames

LEMMA TCBClearFields ==
  ASSUME NEW prio \in Prios
  PROVE  /\ TCBClear(prio) \in TCBs /\ TCBClear(prio).prio = prio /\ TCBClear(prio).stat = {}
         /\ TCBClear(prio).multi = {} /\ TCBClear(prio).dly = 0
BY DEF TCBClear, TCBs

(* OSTaskCreate goes on: a new task is ready, or there was no control      *)
(* block for it.                                                           *)
LEMMA TCBInitKeeps ==
  ASSUME TasksOK, OS_TCBInit, app' = app
  PROVE  TasksOK'
<1>1. PICK c : c = OSTCBCur
  OBVIOUS
<1>2. /\ TypesOK /\ EventsTyped(event) /\ TableOK /\ ReadyOK /\ CurrentOK /\ SchedOK /\ LockOK
      /\ DeletionOK /\ PendingOK /\ ListsOK /\ FlagsOK /\ WaitsOK /\ RunnableOK
      /\ OSTCBList \subseteq Tasks
  BY DEF TasksOK, TypesOK
<1>3. ~InISR /\ c \in OSTCBList /\ c \in Tasks /\ pc[c] = "create" /\ OSPrioCur = tcb[c].prio
      /\ local[c] \in Locals
  BY <1>1, <1>2 DEF OS_TCBInit, CurrentOK, TypesOK
<1>4. PICK prio \in Prios : prio = local[c].prio
  BY <1>3 DEF Locals
<1>5. OSTCBPrioTbl[prio] = Reserved /\ \A d \in Tasks : pc[d] = "create" /\ d # c => local[d].prio # prio
  BY <1>2, <1>3, <1>4 DEF TableOK
<1>6. /\ local' = [local EXCEPT ![c] = NoLocal]
      /\ UNCHANGED <<schedVars, event, OSFlagWaitList, app>>
  BY <1>1 DEF OS_TCBInit
<1>7. CASE /\ OSTCBList = Tasks
           /\ OSTCBPrioTbl' = [OSTCBPrioTbl EXCEPT ![prio] = NoTask]
           /\ pc' = [pc EXCEPT ![c] = "run"]
           /\ UNCHANGED <<OSTCBList, OSRdyTbl, tcb, node>>
  <2>1. /\ pc'[c] = "run" /\ \A d \in Tasks : d # c => pc'[d] = pc[d] /\ local'[d] = local[d]
        /\ \A p \in Prios : p # prio => OSTCBPrioTbl'[p] = OSTCBPrioTbl[p]
        /\ \A d \in Tasks : local[d].prio \in Prios
    BY <1>2, <1>3, <1>6, <1>7 DEF TypesOK, Locals
  <2>2. \A d \in Tasks : pc'[d] = "create" =>
          /\ OSTCBPrioTbl'[local'[d].prio] = Reserved
          /\ \A u \in Tasks : pc'[u] = "create" /\ local'[u].prio = local'[d].prio => u = d
    BY <1>2, <1>3, <1>5, <2>1 DEF TableOK
  <2>3. UNCHANGED <<schedVars, OSTCBList, waitVars, OSFlagWaitList, node, app>>
    BY <1>6, <1>7 DEF waitVars
  <2> QED BY <1>1, <1>3, <1>5, <1>6, <1>7, <2>2, <2>3, NoLocalFields, ReserveKeeps
<1>8. ASSUME NEW t \in Tasks \ OSTCBList,
             OSTCBList' = OSTCBList \cup {t},
             OSTCBPrioTbl' = [OSTCBPrioTbl EXCEPT ![prio] = t],
             tcb' = [tcb EXCEPT ![t] = TCBClear(prio)],
             OSRdyTbl' = OSRdyTbl \cup {prio},
             pc' = [pc EXCEPT ![c] = "sched", ![t] = "run"],
             node' = [node EXCEPT ![t] = NoNode]
      PROVE  TasksOK'
  <2>1. /\ OSTCBCur' = OSTCBCur /\ OSPrioCur' = OSPrioCur /\ deferred' = deferred
        /\ OSIntNesting' = OSIntNesting /\ OSLockNesting' = OSLockNesting
        /\ event' = event /\ OSFlagWaitList' = OSFlagWaitList /\ app' = app
        /\ Locked' = Locked /\ InISR' = InISR /\ c # t
    BY <1>3, <1>6, <1>8 DEF schedVars, runVars, Locked, InISR
  <2>2. /\ tcb' \in [Tasks -> TCBs] /\ tcb'[t] = TCBClear(prio) /\ \A u \in Tasks : u # t => tcb'[u] = tcb[u]
        /\ tcb'[t].prio = prio /\ tcb'[t].stat = {} /\ tcb'[t].multi = {} /\ tcb'[t].dly = 0
    BY <1>2, <1>8, TCBClearFields DEF TypesOK
  <2>3. /\ pc' \in [Tasks -> Places] /\ pc'[t] = "run" /\ pc'[c] = "sched"
        /\ \A u \in Tasks \ {c, t} : pc'[u] = pc[u]
    BY <1>2, <1>3, <1>8, <2>1 DEF TypesOK, Places
  <2>4. /\ local' \in [Tasks -> Locals] /\ local'[c] = NoLocal
        /\ \A u \in Tasks : u # c => local'[u] = local[u]
    BY <1>2, <1>3, <1>6, NoLocalFields DEF TypesOK
  <2>5. /\ OSTCBPrioTbl' \in [Prios -> Tasks \cup {Idle, NoTask, Reserved}] /\ OSTCBPrioTbl'[prio] = t
        /\ \A p \in Prios : p # prio => OSTCBPrioTbl'[p] = OSTCBPrioTbl[p]
    BY <1>2, <1>8 DEF TypesOK
  <2>6. /\ DOMAIN node' = Tasks /\ \A u \in Tasks : u # t => node'[u] = node[u]
    BY <1>2, <1>8 DEF TypesOK
  <2>7. \A u \in OSTCBList : u \in Tasks /\ u # t /\ tcb[u].prio # prio
    BY <1>2, <1>5, CoreAssumption DEF TableOK
  <2>8. \A e \in Events : \A p \in event[e].grp : p \in Prios /\ p # prio /\ OSTCBPrioTbl[p] \in OSTCBList
    BY <1>2, <1>5, CoreAssumption DEF ListsOK, Waiters, EventsTyped
  <2>9. \A u \in OSTCBList : /\ Listed(u)' = Listed(u) /\ Waits(u)' = Waits(u) /\ Bits(u)' = Bits(u)
                             /\ Lists(u)' = Lists(u) /\ Pending(u)' = Pending(u)
    <3> SUFFICES ASSUME NEW u \in OSTCBList
                 PROVE  /\ Listed(u)' = Listed(u) /\ Waits(u)' = Waits(u) /\ Bits(u)' = Bits(u)
                        /\ Lists(u)' = Lists(u) /\ Pending(u)' = Pending(u)
      OBVIOUS
    <3>1. tcb'[u] = tcb[u]
      BY <2>2, <2>7
    <3>2. Listed(u)' = Listed(u)
      BY <2>1, <3>1 DEF Listed, FlagListed, Waiters
    <3>3. Pending(u)' = Pending(u)
      BY <1>3, <2>3, <2>7 DEF Pending
    <3> QED BY <3>1, <3>2, <3>3 DEF Waits, Bits, Lists
  <2>10. ~Listed(t)' /\ Bits(t)' = {} /\ ~Waits(t)' /\ ~Pending(t)'
    BY <1>2, <2>1, <2>2, <2>3, <2>8 DEF Listed, FlagListed, Waits, Waiters, Bits, Pending, FlagsOK
  <2>11. \A u \in Tasks : pc[u] # "delete" /\ pc'[u] # "delete"
    BY <1>1, <1>2, <1>3, <2>3 DEF DeletionOK
  <2>12. \A u \in Tasks : ~BeingDeleted(u) /\ ~BeingDeleted(u)'
    BY <1>2, <1>8, <2>11 DEF BeingDeleted
  <2>13. TypesOK'
    BY <1>2, <1>8, <2>1, <2>2, <2>3, <2>4, <2>5, <2>6 DEF TypesOK
  <2>14. TableOK'
    <3>1. prio # LowestPrio
      BY <1>2, <1>5, CoreAssumption DEF TableOK
    <3>2. OSTCBPrioTbl'[LowestPrio] = Idle /\ \A p \in Prios : OSTCBPrioTbl'[p] = Idle => p = LowestPrio
      BY <1>2, <2>5, <3>1, PriosAreNat, CoreAssumption DEF TableOK
    <3>3. \A u \in OSTCBList' : OSTCBPrioTbl'[tcb'[u].prio] = u
      BY <1>2, <1>8, <2>2, <2>5, <2>7 DEF TableOK, TypesOK, TCBs
    <3>4. \A p \in Prios : OSTCBPrioTbl'[p] \in Tasks =>
            OSTCBPrioTbl'[p] \in OSTCBList' /\ tcb'[OSTCBPrioTbl'[p]].prio = p
      BY <1>2, <1>8, <2>2, <2>5, <2>7 DEF TableOK
    <3>5. \A d \in Tasks : pc'[d] = "create" =>
            d # c /\ pc[d] = "create" /\ local'[d] = local[d] /\ local[d].prio # prio
      BY <1>5, <2>3, <2>4
    <3>6. \A d \in Tasks : local[d].prio \in Prios
      BY <1>2 DEF TypesOK, Locals
    <3>7. \A d \in Tasks : pc'[d] = "create" =>
            /\ OSTCBPrioTbl'[local'[d].prio] = Reserved
            /\ \A u \in Tasks : pc'[u] = "create" /\ local'[u].prio = local'[d].prio => u = d
      BY <1>2, <2>5, <3>5, <3>6 DEF TableOK
    <3> QED BY <3>2, <3>3, <3>4, <3>7 DEF TableOK
  <2>15. ReadyOK'
    BY <1>2, <1>5, <1>8, <2>5, CoreAssumption DEF ReadyOK, TypesOK
  <2>16. CurrentOK' /\ SchedOK' /\ LockOK' /\ DeletionOK'
    <3>1. CurrentOK' /\ SchedOK'
      BY <1>1, <1>3, <1>8, <2>1, <2>2, <2>3, CoreAssumption DEF CurrentOK, SchedOK
    <3>2. LockOK'
      BY <1>1, <1>2, <1>3, <1>8, <2>1, <2>3 DEF LockOK, Pending
    <3> QED BY <2>11, <3>1, <3>2 DEF DeletionOK
  <2>17. PendingOK'
    <3> SUFFICES ASSUME NEW u \in Tasks
                 PROVE  /\ u \notin OSTCBList' => ~Pending(u)'
                        /\ ~Pending(u)' => local'[u].events = {} /\ tcb'[u].multi = {}
                        /\ local'[u].call = "multi" => "OSEventPendMulti" \in app.calls
                        /\ local'[u].call # "multi" => tcb'[u].multi = {}
                        /\ local'[u].call = "flag" => local'[u].events = {}
                        /\ "SUSPEND" \in tcb'[u].stat => "OSTaskSuspend" \in app.calls \cup app.isr
                        /\ "MULTI" \in tcb'[u].stat => local'[u].call = "multi" /\ Pending(u)'
      BY <2>1 DEF PendingOK
    <3>1. CASE u = t
      BY <1>2, <1>8, <2>1, <2>2, <2>4, <2>10, <3>1 DEF PendingOK
    <3>2. CASE u = c
      <4>1. ~Pending(c) /\ ~Pending(c)'
        BY <1>3, <2>3 DEF Pending
      <4> QED BY <1>2, <1>3, <2>1, <2>2, <2>4, <3>2, <4>1, NoLocalFields DEF PendingOK
    <3>3. CASE u \notin {c, t}
      <4>1. Pending(u)' = Pending(u) /\ local'[u] = local[u] /\ tcb'[u] = tcb[u]
        BY <2>2, <2>3, <2>4, <3>3 DEF Pending
      <4> QED BY <1>2, <1>8, <3>3, <4>1 DEF PendingOK
    <3> QED BY <3>1, <3>2, <3>3
  <2>18. ListsOK'
    <3> SUFFICES ASSUME NEW e \in Events, NEW p \in event[e].grp, NEW u, u = OSTCBPrioTbl'[p]
                 PROVE  /\ u \in OSTCBList' /\ Pending(u)' /\ e \in local'[u].events /\ e \in Lists(u)'
                        /\ event[e].type \in {"sem", "mbox", "q"}
                        /\ local'[u].call # "multi" => Bits(u)' \subseteq {StatBit(e)'}
      BY <2>1 DEF ListsOK, Waiters
    <3>1. u = OSTCBPrioTbl[p] /\ u \in OSTCBList
      BY <2>5, <2>8
    <3>2. /\ Pending(u) /\ e \in local[u].events /\ e \in Lists(u)
          /\ event[e].type \in {"sem", "mbox", "q"}
          /\ local[u].call # "multi" => Bits(u) \subseteq {StatBit(e)}
      BY <1>2, <3>1 DEF ListsOK, Waiters
    <3>3. local'[u] = local[u]
      BY <1>3, <2>4, <2>7, <3>1, <3>2 DEF Pending
    <3>4. StatBit(e)' = StatBit(e)
      BY <2>1 DEF StatBit, IsSem, IsMbox, IsQ
    <3> QED BY <1>8, <2>9, <3>1, <3>2, <3>3, <3>4
  <2>19. FlagsOK'
    <3> SUFFICES ASSUME NEW g \in FlagGroups, NEW u \in OSFlagWaitList[g]
                 PROVE  /\ u \in OSTCBList' /\ Pending(u)' /\ local'[u].call = "flag"
                        /\ local'[u].events = {} /\ node'[u].grp = {g} /\ Bits(u)' \subseteq {"FLAG"}
      BY <2>1 DEF FlagsOK
    <3>1. /\ u \in OSTCBList /\ Pending(u) /\ local[u].call = "flag" /\ local[u].events = {}
          /\ node[u].grp = {g} /\ Bits(u) \subseteq {"FLAG"}
      BY <1>2 DEF FlagsOK
    <3>2. local'[u] = local[u]
      BY <1>3, <2>4, <2>7, <3>1 DEF Pending
    <3> QED BY <1>8, <2>6, <2>7, <2>9, <3>1, <3>2
  <2>20. WaitsOK'
    <3> SUFFICES ASSUME NEW u \in OSTCBList'
          PROVE  /\ Listed(u)' => \/ tcb'[u].statPend = "OK" /\ Bits(u)' # {}
                                  \/ tcb'[u].statPend = "TO" /\ Bits(u)' = {} /\ tcb'[u].dly = 0
                 /\ Bits(u)' # {} => Listed(u)' \/ (Pending(u)' /\ local'[u].call = "multi")
      BY DEF WaitsOK
    <3>1. CASE u = t
      BY <2>10, <3>1
    <3>2. CASE u # t
      <4>1. u \in OSTCBList /\ tcb'[u] = tcb[u] /\ (Pending(u) => local'[u] = local[u])
        BY <1>3, <1>8, <2>2, <2>4, <2>7, <3>2 DEF Pending
      <4> QED BY <1>2, <2>9, <4>1 DEF WaitsOK
    <3> QED BY <3>1, <3>2
  <2>21. RunnableOK'
    <3> SUFFICES ASSUME NEW u \in OSTCBList'
          PROVE  /\ tcb'[u].prio \in OSRdyTbl' => "SUSPEND" \notin tcb'[u].stat /\ tcb'[u].dly = 0 /\ ~Waits(u)'
                 /\ /\ NoSuspendedMulti
                    /\ "SUSPEND" \notin tcb'[u].stat /\ tcb'[u].dly = 0 /\ ~Waits(u)'
                    => tcb'[u].prio \in OSRdyTbl'
      BY <2>1 DEF RunnableOK, NoSuspendedMulti
    <3>1. CASE u = t
      BY <1>8, <2>2, <2>10, <3>1
    <3>2. CASE u # t
      BY <1>2, <1>8, <2>2, <2>7, <2>9, <2>12, <3>2 DEF RunnableOK
    <3> QED BY <3>1, <3>2
  <2> QED
    BY <1>2, <2>1, <2>13, <2>14, <2>15, <2>16, <2>17, <2>18, <2>19, <2>20, <2>21 DEF TasksOK
<1> QED BY <1>1, <1>4, <1>7, <1>8 DEF OS_TCBInit

-----------------------------------------------------------------------------
Unlisted(t) == [tcb[t] EXCEPT !.dly = 0, !.stat = {}, !.statPend = "OK"]

LEMMA UnlistedFields ==
  ASSUME NEW t, tcb[t] \in TCBs
  PROVE  /\ Unlisted(t) \in TCBs /\ Unlisted(t).prio = tcb[t].prio
         /\ Unlisted(t).multi = tcb[t].multi /\ Unlisted(t).stat = {} /\ Unlisted(t).dly = 0
BY DEF Unlisted, TCBs

(* A deletion begins: the task leaves all lists.                           *)
LEMMA TaskDelKeeps ==
  ASSUME TasksOK, Plain, NEW prio \in Prios, May("OSTaskDel"), OSTaskDel(prio), app' = app
  PROVE  TasksOK'
<1>1. PICK c : c = OSTCBCur
  OBVIOUS
<1>2. PICK t : t = OSTCBPrioTbl[prio]
  OBVIOUS
<1>3. /\ TypesOK /\ EventsTyped(event) /\ TableOK /\ ReadyOK /\ CurrentOK /\ SchedOK /\ LockOK
      /\ DeletionOK /\ PendingOK /\ ListsOK /\ FlagsOK /\ WaitsOK /\ RunnableOK
      /\ OSTCBList \subseteq Tasks
  BY DEF TasksOK, TypesOK
<1>4. /\ ~InISR /\ c \in OSTCBList /\ c \in Tasks /\ pc[c] = "run" /\ OSPrioCur = tcb[c].prio
      /\ local[c] \in Locals /\ t \in OSTCBList /\ t \in Tasks /\ tcb[t].prio = prio
      /\ tcb[t] \in TCBs
  BY <1>1, <1>2, <1>3, CallerExists DEF OSTaskDel, TaskCalls, TypesOK, TableOK
<1>5. "OSTaskDel" \in app.calls /\ "lock" \notin app.calls /\ ~Locked
  BY <1>1, <1>3, <1>4 DEF May, Plain, LockOK
<1>6. /\ OSRdyTbl' = OSRdyTbl \ {prio}
      /\ EventTaskRemove(t, tcb[t].multi \cup {tcb[t].eventPtr}) /\ OS_FlagUnlink({t})
      /\ tcb' = [tcb EXCEPT ![t].dly = 0, ![t].stat = {}, ![t].statPend = "OK"]
      /\ OSLockNesting' = OSLockNesting + 1
      /\ pc' = [pc EXCEPT ![c] = "delete"]
      /\ local' = [local EXCEPT ![c].task = t, ![c].prio = prio]
      /\ OSTCBCur' = OSTCBCur /\ OSPrioCur' = OSPrioCur /\ deferred' = deferred
      /\ OSIntNesting' = OSIntNesting /\ OSTCBList' = OSTCBList /\ OSTCBPrioTbl' = OSTCBPrioTbl
      /\ node' = node /\ app' = app
  BY <1>1, <1>2, <1>4 DEF OSTaskDel, runVars, listVars
<1>7. OSLockNesting = 0 /\ OSLockNesting' = 1 /\ Locked' /\ InISR' = InISR
  BY <1>3, <1>5, <1>6 DEF TypesOK, Locked, InISR
<1>8. /\ tcb' \in [Tasks -> TCBs] /\ \A u \in Tasks : u # t => tcb'[u] = tcb[u]
      /\ tcb'[t].prio = prio /\ tcb'[t].stat = {} /\ tcb'[t].dly = 0
      /\ tcb'[t].multi = tcb[t].multi
  <2>1. tcb'[t] = Unlisted(t) /\ \A u \in Tasks : u # t => tcb'[u] = tcb[u]
    BY <1>3, <1>4, <1>6 DEF TypesOK, Unlisted
  <2>2. /\ tcb'[t] \in TCBs /\ tcb'[t].prio = prio /\ tcb'[t].stat = {} /\ tcb'[t].dly = 0
        /\ tcb'[t].multi = tcb[t].multi
    BY <1>4, <2>1, UnlistedFields
  <2> QED BY <1>3, <1>4, <1>6, <2>1, <2>2 DEF TypesOK
<1>9. /\ pc' \in [Tasks -> Places] /\ pc'[c] = "delete" /\ \A u \in Tasks : u # c => pc'[u] = pc[u]
  BY <1>3, <1>4, <1>6 DEF TypesOK, Places
<1>10. /\ local' \in [Tasks -> Locals] /\ \A u \in Tasks : u # c => local'[u] = local[u]
       /\ local'[c].call = local[c].call /\ local'[c].events = local[c].events
       /\ local'[c].task = t /\ local'[c].prio = prio
  <2>1. local'[c] = [local[c] EXCEPT !.task = t, !.prio = prio]
        /\ \A u \in Tasks : u # c => local'[u] = local[u]
    BY <1>3, <1>4, <1>6 DEF TypesOK
  <2>2. /\ local'[c] \in Locals /\ local'[c].call = local[c].call /\ local'[c].events = local[c].events
        /\ local'[c].task = t /\ local'[c].prio = prio
    BY <1>4, <2>1 DEF Locals
  <2> QED BY <1>3, <1>4, <1>6, <2>1, <2>2 DEF TypesOK
<1>11. /\ DOMAIN event' = Events
       /\ \A e \in Events : /\ DOMAIN event'[e] = EventFields /\ event'[e].type = event[e].type
                            /\ event'[e].grp \in {event[e].grp, event[e].grp \ {prio}}
                            /\ prio \notin event'[e].grp
  <2>1. \A e \in Events : prio \in event[e].grp => e \in tcb[t].multi \cup {tcb[t].eventPtr}
    BY <1>2, <1>3 DEF ListsOK, Lists, Waiters
  <2> QED BY <1>3, <1>4, <1>6, <2>1 DEF EventTaskRemove, EventsTyped, EventFields
<1>12. EventsTyped(event')
  BY <1>3, <1>11 DEF EventsTyped
<1>13. /\ OSFlagWaitList' \in [FlagGroups -> SUBSET Tasks] /\ ~FlagListed(t)'
       /\ \A g \in FlagGroups : /\ OSFlagWaitList'[g] \subseteq OSFlagWaitList[g]
                                /\ \A u \in Tasks : u # t => u \in OSFlagWaitList'[g] <=> u \in OSFlagWaitList[g]
  BY <1>3, <1>6 DEF OS_FlagUnlink, TypesOK, FlagListed
<1>14. ~Listed(t)' /\ Bits(t)' = {} /\ ~Waits(t)'
  BY <1>8, <1>11, <1>13 DEF Listed, Waiters, Bits, Waits
<1>15. \A u \in OSTCBList : u # t => tcb[u].prio # prio /\ u \in Tasks /\ tcb[u].prio \in Prios
  BY <1>2, <1>3 DEF TableOK, TypesOK, TCBs
<1>16. \A u \in OSTCBList : u # t =>
         /\ Listed(u)' = Listed(u) /\ Waits(u)' = Waits(u) /\ Bits(u)' = Bits(u) /\ Lists(u)' = Lists(u)
         /\ tcb[u].prio \in OSRdyTbl' <=> tcb[u].prio \in OSRdyTbl
  <2> SUFFICES ASSUME NEW u \in OSTCBList, u # t
               PROVE  /\ Listed(u)' = Listed(u) /\ Waits(u)' = Waits(u)
                      /\ Bits(u)' = Bits(u) /\ Lists(u)' = Lists(u)
                      /\ tcb[u].prio \in OSRdyTbl' <=> tcb[u].prio \in OSRdyTbl
    OBVIOUS
  <2>1. tcb'[u] = tcb[u] /\ tcb[u].prio # prio
    BY <1>8, <1>15
  <2>2. Listed(u)' = Listed(u)
    BY <1>11, <1>13, <1>15, <2>1 DEF Listed, FlagListed, Waiters
  <2>3. tcb[u].prio \in OSRdyTbl' <=> tcb[u].prio \in OSRdyTbl
    BY <1>6, <2>1
  <2>4. Waits(u)' = Waits(u) /\ Bits(u)' = Bits(u) /\ Lists(u)' = Lists(u)
    BY <2>1, <2>2 DEF Waits, Bits, Lists
  <2> QED BY <2>2, <2>3, <2>4
<1>17. \A u \in Tasks : Pending(u)' = Pending(u)
  BY <1>4, <1>9 DEF Pending
<1>18. \A u \in Tasks : pc[u] # "delete" /\ (pc'[u] = "delete" => u = c)
  BY <1>1, <1>3, <1>4, <1>9 DEF DeletionOK
<1>19. \A u \in Tasks : ~BeingDeleted(u) /\ (BeingDeleted(u)' <=> u = t)
  BY <1>3, <1>4, <1>6, <1>9, <1>10, <1>18 DEF BeingDeleted
<1>20. TypesOK'
  BY <1>3, <1>6, <1>7, <1>8, <1>9, <1>10, <1>13 DEF TypesOK
<1>21. TableOK'
  <2>1. \A u \in Tasks : tcb'[u].prio = tcb[u].prio
    BY <1>4, <1>8
  <2>2. \A d \in Tasks : pc'[d] = "create" => pc[d] = "create" /\ local'[d] = local[d]
    BY <1>9, <1>10
  <2>3. \A p \in Prios : OSTCBPrioTbl[p] \in Tasks =>
          OSTCBPrioTbl[p] \in OSTCBList /\ tcb'[OSTCBPrioTbl[p]].prio = p
    BY <1>3, <2>1 DEF TableOK
  <2>4. \A u \in OSTCBList : OSTCBPrioTbl[tcb'[u].prio] = u
    BY <1>3, <2>1 DEF TableOK
  <2>5. \A d \in Tasks : pc'[d] = "create" =>
          /\ OSTCBPrioTbl[local'[d].prio] = Reserved
          /\ \A u \in Tasks : pc'[u] = "create" /\ local'[u].prio = local'[d].prio => u = d
    BY <1>3, <2>2 DEF TableOK
  <2> QED BY <1>3, <1>6, <2>3, <2>4, <2>5 DEF TableOK
<1>22. ReadyOK'
  <2>1. prio # LowestPrio
    BY <1>2, <1>3, <1>4, CoreAssumption DEF TableOK
  <2> QED BY <1>3, <1>6, <2>1 DEF ReadyOK
<1>23. CurrentOK' /\ SchedOK' /\ LockOK'
  <2>1. tcb'[c].prio = tcb[c].prio
    BY <1>4, <1>8
  <2> QED BY <1>1, <1>4, <1>6, <1>7, <1>9, <2>1 DEF CurrentOK, SchedOK, LockOK, Pending
<1>24. DeletionOK'
  <2> SUFFICES ASSUME NEW u \in Tasks, pc'[u] = "delete"
               PROVE  /\ u = OSTCBCur' /\ u \in OSTCBList' /\ Locked' /\ "OSTaskDel" \in app'.calls
                      /\ local'[u].task \in OSTCBList' /\ local'[u].prio = tcb'[local'[u].task].prio
                      /\ local'[u].prio \notin OSRdyTbl' /\ tcb'[local'[u].task].dly = 0
                      /\ ~Listed(local[u].task)'
    BY DEF DeletionOK
  <2>1. u = c /\ local'[u].task = t
    BY <1>10, <1>18
  <2>2. ~Listed(local[u].task)'
    BY <1>14, <2>1 DEF Listed, FlagListed, Waiters
  <2> QED BY <1>1, <1>4, <1>5, <1>6, <1>7, <1>8, <1>10, <2>1, <2>2
<1>25. PendingOK'
  <2> SUFFICES ASSUME NEW u \in Tasks
               PROVE  /\ u \notin OSTCBList => ~Pending(u)
                      /\ ~Pending(u) => local'[u].events = {} /\ tcb'[u].multi = {}
                      /\ local'[u].call = "multi" => "OSEventPendMulti" \in app.calls
                      /\ local'[u].call # "multi" => tcb'[u].multi = {}
                      /\ local'[u].call = "flag" => local'[u].events = {}
                      /\ "SUSPEND" \in tcb'[u].stat => "OSTaskSuspend" \in app.calls \cup app.isr
                      /\ "MULTI" \in tcb'[u].stat => local'[u].call = "multi" /\ Pending(u)
    BY <1>6, <1>17 DEF PendingOK
  <2>1. local'[u].call = local[u].call /\ local'[u].events = local[u].events
    BY <1>10
  <2>2. tcb'[u].multi = tcb[u].multi /\ tcb'[u].stat \subseteq tcb[u].stat
    BY <1>8
  <2> QED BY <1>3, <2>1, <2>2 DEF PendingOK
<1>26. ListsOK'
  <2> SUFFICES ASSUME NEW e \in Events, NEW p \in event'[e].grp, NEW u, u = OSTCBPrioTbl[p]
               PROVE  /\ u \in OSTCBList /\ Pending(u)' /\ e \in local'[u].events /\ e \in Lists(u)'
                      /\ event'[e].type \in {"sem", "mbox", "q"}
                      /\ local'[u].call # "multi" => Bits(u)' \subseteq {StatBit(e)'}
    BY <1>6 DEF ListsOK, Waiters
  <2>1. p \in event[e].grp /\ p # prio /\ p \in Prios
    BY <1>3, <1>11 DEF EventsTyped
  <2>2. /\ u \in OSTCBList /\ Pending(u) /\ e \in local[u].events /\ e \in Lists(u)
        /\ event[e].type \in {"sem", "mbox", "q"}
        /\ local[u].call # "multi" => Bits(u) \subseteq {StatBit(e)}
    BY <1>3, <2>1 DEF ListsOK, Waiters
  <2>3. u # t
    BY <1>3, <1>4, <2>1, <2>2 DEF TableOK
  <2>4. StatBit(e)' = StatBit(e)
    BY <1>11 DEF StatBit, IsSem, IsMbox, IsQ
  <2> QED BY <1>3, <1>10, <1>11, <1>16, <1>17, <2>2, <2>3, <2>4
<1>27. FlagsOK'
  <2> SUFFICES ASSUME NEW g \in FlagGroups, NEW u \in OSFlagWaitList'[g]
               PROVE  /\ u \in OSTCBList /\ Pending(u)' /\ local'[u].call = "flag"
                      /\ local'[u].events = {} /\ node[u].grp = {g} /\ Bits(u)' \subseteq {"FLAG"}
    BY <1>6 DEF FlagsOK
  <2>1. /\ u \in OSTCBList /\ Pending(u) /\ local[u].call = "flag" /\ local[u].events = {}
        /\ node[u].grp = {g} /\ Bits(u) \subseteq {"FLAG"}
    BY <1>3, <1>13 DEF FlagsOK
  <2>2. u # t
    BY <1>13 DEF FlagListed
  <2> QED BY <1>3, <1>10, <1>16, <1>17, <2>1, <2>2
<1>28. WaitsOK'
  <2> SUFFICES ASSUME NEW u \in OSTCBList
        PROVE  /\ Listed(u)' => \/ tcb'[u].statPend = "OK" /\ Bits(u)' # {}
                                \/ tcb'[u].statPend = "TO" /\ Bits(u)' = {} /\ tcb'[u].dly = 0
               /\ Bits(u)' # {} => Listed(u)' \/ (Pending(u)' /\ local'[u].call = "multi")
    BY <1>6 DEF WaitsOK
  <2>1. CASE u = t
    BY <1>14, <2>1
  <2>2. CASE u # t
    <3>1. tcb'[u] = tcb[u] /\ local'[u].call = local[u].call /\ Pending(u)' = Pending(u)
      BY <1>3, <1>8, <1>10, <1>17, <2>2
    <3> QED BY <1>3, <1>16, <2>2, <3>1 DEF WaitsOK
  <2> QED BY <2>1, <2>2
<1>29. RunnableOK'
  <2> SUFFICES ASSUME NEW u \in OSTCBList
        PROVE  /\ tcb'[u].prio \in OSRdyTbl' => "SUSPEND" \notin tcb'[u].stat /\ tcb'[u].dly = 0 /\ ~Waits(u)'
               /\ /\ NoSuspendedMulti /\ ~BeingDeleted(u)'
                  /\ "SUSPEND" \notin tcb'[u].stat /\ tcb'[u].dly = 0 /\ ~Waits(u)'
                  => tcb'[u].prio \in OSRdyTbl'
    BY <1>6 DEF RunnableOK, NoSuspendedMulti
  <2>1. CASE u = t
    BY <1>4, <1>6, <1>8, <1>19, <2>1
  <2>2. CASE u # t
    <3>1. tcb'[u] = tcb[u] /\ ~BeingDeleted(u)
      BY <1>3, <1>8, <1>19, <2>2
    <3> QED BY <1>3, <1>16, <2>2, <3>1 DEF RunnableOK
  <2> QED BY <2>1, <2>2
<1> QED
  BY <1>12, <1>20, <1>21, <1>22, <1>23, <1>24, <1>25, <1>26, <1>27, <1>28, <1>29
     DEF TasksOK, EventsTyped

(* It ends: the task and its priority are free; a task that deleted itself *)
(* stays until the schedule.                                               *)
LEMMA TaskDelEndsKeeps ==
  ASSUME TasksOK, Plain, OSTaskDelEnds, app' = app
  PROVE  TasksOK'
<1>1. PICK c : c = OSTCBCur
  OBVIOUS
<1>2. PICK t : t = local[c].task
  OBVIOUS
<1>3. /\ TypesOK /\ EventsTyped(event) /\ TableOK /\ ReadyOK /\ CurrentOK /\ SchedOK /\ LockOK
      /\ DeletionOK /\ PendingOK /\ ListsOK /\ FlagsOK /\ WaitsOK /\ RunnableOK
      /\ OSTCBList \subseteq Tasks
  BY DEF TasksOK, TypesOK
<1>4. /\ ~InISR /\ c \in OSTCBList /\ c \in Tasks /\ pc[c] = "delete" /\ OSPrioCur = tcb[c].prio
      /\ c # Idle
  BY <1>1, <1>3 DEF OSTaskDelEnds, CurrentOK, TypesOK
<1>5. PICK prio : prio = local[c].prio
  OBVIOUS
<1>6. /\ t \in OSTCBList /\ t \in Tasks /\ tcb[t].prio = prio /\ prio \in Prios /\ prio \notin OSRdyTbl
      /\ tcb[t].dly = 0 /\ ~Listed(t) /\ Locked /\ "OSTaskDel" \in app.calls
      /\ \A u \in Tasks : pc[u] = "delete" => u = c
  BY <1>1, <1>2, <1>3, <1>4, <1>5 DEF DeletionOK, TypesOK, TCBs
<1>7. OSLockNesting = 1
  BY <1>1, <1>3, <1>6 DEF LockOK, Plain
<1>8. OSTCBPrioTbl[prio] = t
  BY <1>3, <1>6 DEF TableOK
<1>9. /\ OSLockNesting' = 0
      /\ OSTCBPrioTbl' = [OSTCBPrioTbl EXCEPT ![prio] = NoTask]
      /\ OSTCBList' = OSTCBList \ {t}
      /\ pc' = IF t = c THEN [pc EXCEPT ![c] = "sched"] ELSE [[pc EXCEPT ![c] = "sched"] EXCEPT ![t] = "dead"]
      /\ local' = [local EXCEPT ![c] = NoLocal, ![t] = NoLocal]
      /\ tcb' = [tcb EXCEPT ![t] = TCBClear(LowestPrio)]
      /\ OSTCBCur' = OSTCBCur /\ OSPrioCur' = OSPrioCur /\ deferred' = deferred
      /\ OSIntNesting' = OSIntNesting /\ OSRdyTbl' = OSRdyTbl /\ event' = event
      /\ OSFlagWaitList' = OSFlagWaitList /\ node' = node /\ app' = app
  BY <1>1, <1>2, <1>5, <1>7 DEF OSTaskDelEnds, runVars, flagVars
<1>10. ~Locked' /\ InISR' = InISR
  BY <1>9 DEF Locked, InISR
<1>11. /\ pc' \in [Tasks -> Places] /\ pc'[c] = "sched" /\ (t # c => pc'[t] = "dead")
       /\ \A u \in Tasks \ {c, t} : pc'[u] = pc[u]
  <2>1. CASE t = c
    BY <1>3, <1>4, <1>9, <2>1 DEF TypesOK, Places
  <2>2. CASE t # c
    BY <1>3, <1>4, <1>6, <1>9, <2>2 DEF TypesOK, Places
  <2> QED BY <2>1, <2>2
<1>12. /\ local' \in [Tasks -> Locals] /\ local'[c] = NoLocal /\ local'[t] = NoLocal
       /\ \A u \in Tasks \ {c, t} : local'[u] = local[u]
  BY <1>3, <1>4, <1>6, <1>9, NoLocalFields DEF TypesOK
<1>13. /\ tcb' \in [Tasks -> TCBs] /\ tcb'[t].stat = {} /\ tcb'[t].multi = {}
       /\ \A u \in Tasks : u # t => tcb'[u] = tcb[u]
  <2>1. tcb'[t] = TCBClear(LowestPrio)
    BY <1>3, <1>6, <1>9 DEF TypesOK
  <2> QED BY <1>3, <1>6, <1>9, <2>1, TCBClearFields, PriosAreNat DEF TypesOK
<1>14. /\ OSTCBPrioTbl' \in [Prios -> Tasks \cup {Idle, NoTask, Reserved}] /\ OSTCBPrioTbl'[prio] = NoTask
       /\ \A p \in Prios : p # prio => OSTCBPrioTbl'[p] = OSTCBPrioTbl[p]
  BY <1>3, <1>6, <1>9 DEF TypesOK
<1>15. \A u \in OSTCBList : u # t => tcb[u].prio # prio /\ u \in Tasks /\ tcb[u].prio \in Prios
  BY <1>3, <1>8 DEF TableOK, TypesOK, TCBs
<1>16. ~Pending(c) /\ ~Pending(c)' /\ ~Pending(t)' /\ \A u \in Tasks \ {t} : Pending(u)' = Pending(u)
  BY <1>4, <1>11 DEF Pending
<1>17. \A u \in OSTCBList : u # t =>
         Listed(u)' = Listed(u) /\ Waits(u)' = Waits(u) /\ Bits(u)' = Bits(u) /\ Lists(u)' = Lists(u)
  <2> SUFFICES ASSUME NEW u \in OSTCBList, u # t
               PROVE  /\ Listed(u)' = Listed(u) /\ Waits(u)' = Waits(u)
                      /\ Bits(u)' = Bits(u) /\ Lists(u)' = Lists(u)
    OBVIOUS
  <2>1. tcb'[u] = tcb[u]
    BY <1>13, <1>15
  <2>2. Listed(u)' = Listed(u)
    BY <1>9, <2>1 DEF Listed, FlagListed, Waiters
  <2> QED BY <2>1, <2>2 DEF Waits, Bits, Lists
<1>18. \A u \in Tasks : pc'[u] # "delete"
  BY <1>4, <1>6, <1>11
<1>19. \A u \in OSTCBList : u # t => ~BeingDeleted(u) /\ ~BeingDeleted(u)'
  BY <1>2, <1>3, <1>6, <1>9, <1>18 DEF BeingDeleted
<1>20. TypesOK'
  BY <1>3, <1>9, <1>11, <1>12, <1>13, <1>14 DEF TypesOK
<1>21. TableOK'
  <2>1. prio # LowestPrio
    BY <1>3, <1>6, <1>8, CoreAssumption DEF TableOK
  <2>2. OSTCBPrioTbl'[LowestPrio] = Idle /\ \A p \in Prios : OSTCBPrioTbl'[p] = Idle => p = LowestPrio
    BY <1>3, <1>14, <2>1, PriosAreNat, CoreAssumption DEF TableOK
  <2>3. \A u \in OSTCBList' : OSTCBPrioTbl'[tcb'[u].prio] = u
    BY <1>3, <1>9, <1>13, <1>14, <1>15 DEF TableOK
  <2>4. \A p \in Prios : OSTCBPrioTbl'[p] \in Tasks =>
          OSTCBPrioTbl'[p] \in OSTCBList' /\ tcb'[OSTCBPrioTbl'[p]].prio = p
    <3> SUFFICES ASSUME NEW p \in Prios, OSTCBPrioTbl'[p] \in Tasks
                 PROVE  OSTCBPrioTbl'[p] \in OSTCBList' /\ tcb'[OSTCBPrioTbl'[p]].prio = p
      OBVIOUS
    <3>1. p # prio /\ OSTCBPrioTbl'[p] = OSTCBPrioTbl[p]
      BY <1>14, CoreAssumption
    <3>2. OSTCBPrioTbl[p] \in OSTCBList /\ tcb[OSTCBPrioTbl[p]].prio = p /\ OSTCBPrioTbl[p] # t
      BY <1>3, <1>6, <3>1 DEF TableOK
    <3> QED BY <1>3, <1>9, <1>13, <3>1, <3>2
  <2>5. \A d \in Tasks : pc'[d] = "create" => pc[d] = "create" /\ local'[d] = local[d]
    BY <1>11, <1>12
  <2>6. \A d \in Tasks : pc[d] = "create" => local[d].prio # prio /\ local[d].prio \in Prios
    BY <1>3, <1>6, <1>8, CoreAssumption DEF TableOK, TypesOK, Locals
  <2>7. \A d \in Tasks : pc'[d] = "create" =>
          /\ OSTCBPrioTbl'[local'[d].prio] = Reserved
          /\ \A u \in Tasks : pc'[u] = "create" /\ local'[u].prio = local'[d].prio => u = d
    BY <1>3, <1>14, <2>5, <2>6 DEF TableOK
  <2> QED BY <2>2, <2>3, <2>4, <2>7 DEF TableOK
<1>22. ReadyOK'
  <2>1. ASSUME NEW p \in OSRdyTbl
        PROVE  OSTCBPrioTbl'[p] \in OSTCBList' \cup {Idle}
    <3>1. p \in Prios /\ p # prio
      BY <1>3, <1>6 DEF TypesOK
    <3>2. OSTCBPrioTbl[p] # t
      BY <1>3, <1>6, <3>1 DEF TableOK
    <3> QED BY <1>3, <1>9, <1>14, <3>1, <3>2 DEF ReadyOK
  <2> QED BY <1>3, <1>9, <2>1 DEF ReadyOK
<1>23. CurrentOK'
  <2>1. CASE c = t
    BY <1>1, <1>4, <1>6, <1>9, <1>10, <1>11, <1>14, <2>1 DEF CurrentOK
  <2>2. CASE c # t
    BY <1>1, <1>4, <1>9, <1>13, <2>2 DEF CurrentOK
  <2> QED BY <2>1, <2>2
<1>24. SchedOK' /\ LockOK' /\ DeletionOK'
  BY <1>1, <1>4, <1>9, <1>10, <1>11, <1>18 DEF SchedOK, LockOK, DeletionOK
<1>25. PendingOK'
  <2> SUFFICES ASSUME NEW u \in Tasks
               PROVE  /\ u \notin OSTCBList' => ~Pending(u)'
                      /\ ~Pending(u)' => local'[u].events = {} /\ tcb'[u].multi = {}
                      /\ local'[u].call = "multi" => "OSEventPendMulti" \in app.calls
                      /\ local'[u].call # "multi" => tcb'[u].multi = {}
                      /\ local'[u].call = "flag" => local'[u].events = {}
                      /\ "SUSPEND" \in tcb'[u].stat => "OSTaskSuspend" \in app.calls \cup app.isr
                      /\ "MULTI" \in tcb'[u].stat => local'[u].call = "multi" /\ Pending(u)'
    BY <1>9 DEF PendingOK
  <2>1. CASE u = t
    BY <1>12, <1>13, <1>16, <2>1, NoLocalFields
  <2>2. CASE u = c /\ u # t
    BY <1>3, <1>4, <1>12, <1>13, <1>16, <2>2, NoLocalFields DEF PendingOK
  <2>3. CASE u \notin {c, t}
    BY <1>3, <1>9, <1>12, <1>13, <1>16, <2>3 DEF PendingOK
  <2> QED BY <2>1, <2>2, <2>3
<1>26. ListsOK'
  <2> SUFFICES ASSUME NEW e \in Events, NEW p \in event[e].grp, NEW u, u = OSTCBPrioTbl'[p]
               PROVE  /\ u \in OSTCBList' /\ Pending(u)' /\ e \in local'[u].events /\ e \in Lists(u)'
                      /\ event[e].type \in {"sem", "mbox", "q"}
                      /\ local'[u].call # "multi" => Bits(u)' \subseteq {StatBit(e)'}
    BY <1>9 DEF ListsOK, Waiters
  <2>1. p \in Prios /\ p # prio
    BY <1>3, <1>6 DEF EventsTyped, Listed, Waiters
  <2>2. u = OSTCBPrioTbl[p]
    BY <1>14, <2>1
  <2>3. /\ u \in OSTCBList /\ Pending(u) /\ e \in local[u].events /\ e \in Lists(u)
        /\ event[e].type \in {"sem", "mbox", "q"}
        /\ local[u].call # "multi" => Bits(u) \subseteq {StatBit(e)}
    BY <1>3, <2>2 DEF ListsOK, Waiters
  <2>4. u # t /\ u # c /\ u \in Tasks
    BY <1>3, <1>6, <1>16, <2>1, <2>2, <2>3 DEF TableOK
  <2>5. StatBit(e)' = StatBit(e)
    BY <1>9 DEF StatBit, IsSem, IsMbox, IsQ
  <2> QED BY <1>9, <1>12, <1>16, <1>17, <2>3, <2>4, <2>5
<1>27. FlagsOK'
  <2> SUFFICES ASSUME NEW g \in FlagGroups, NEW u \in OSFlagWaitList[g]
               PROVE  /\ u \in OSTCBList' /\ Pending(u)' /\ local'[u].call = "flag"
                      /\ local'[u].events = {} /\ node[u].grp = {g} /\ Bits(u)' \subseteq {"FLAG"}
    BY <1>9 DEF FlagsOK
  <2>1. /\ u \in OSTCBList /\ Pending(u) /\ local[u].call = "flag" /\ local[u].events = {}
        /\ node[u].grp = {g} /\ Bits(u) \subseteq {"FLAG"}
    BY <1>3 DEF FlagsOK
  <2>2. u # t /\ u # c /\ u \in Tasks
    BY <1>3, <1>6, <1>16, <2>1 DEF Listed, FlagListed
  <2> QED BY <1>9, <1>12, <1>16, <1>17, <2>1, <2>2
<1>28. WaitsOK'
  <2> SUFFICES ASSUME NEW u \in OSTCBList, u # t
        PROVE  /\ Listed(u)' => \/ tcb'[u].statPend = "OK" /\ Bits(u)' # {}
                                \/ tcb'[u].statPend = "TO" /\ Bits(u)' = {} /\ tcb'[u].dly = 0
               /\ Bits(u)' # {} => Listed(u)' \/ (Pending(u)' /\ local'[u].call = "multi")
    BY <1>9 DEF WaitsOK
  <2>1. /\ tcb'[u] = tcb[u] /\ Pending(u)' = Pending(u) /\ (Pending(u) => local'[u] = local[u])
    BY <1>12, <1>13, <1>15, <1>16
  <2> QED BY <1>3, <1>17, <2>1 DEF WaitsOK
<1>29. RunnableOK'
  <2> SUFFICES ASSUME NEW u \in OSTCBList, u # t
        PROVE  /\ tcb'[u].prio \in OSRdyTbl => "SUSPEND" \notin tcb'[u].stat /\ tcb'[u].dly = 0 /\ ~Waits(u)'
               /\ /\ NoSuspendedMulti
                  /\ "SUSPEND" \notin tcb'[u].stat /\ tcb'[u].dly = 0 /\ ~Waits(u)'
                  => tcb'[u].prio \in OSRdyTbl
    BY <1>9 DEF RunnableOK, NoSuspendedMulti
  <2>1. tcb'[u] = tcb[u] /\ ~BeingDeleted(u)
    BY <1>13, <1>15, <1>19
  <2> QED BY <1>3, <1>17, <2>1 DEF RunnableOK
<1> QED
  BY <1>3, <1>9, <1>20, <1>21, <1>22, <1>23, <1>24, <1>25, <1>26, <1>27, <1>28, <1>29 DEF TasksOK

-----------------------------------------------------------------------------
(* One event control block changes, and its wait list does not.            *)
LEMMA EventEdit ==
  ASSUME EventsTyped(event), NEW e \in Events, NEW b, event' = [event EXCEPT ![e] = b],
         DOMAIN b = EventFields, b.grp = event[e].grp, b.type \in EventKinds \ {"mutex"},
         b.grp = {} \/ b.type = event[e].type, UNCHANGED <<OSFlagWaitList, node>>
  PROVE  ListsStay
<1>1. /\ DOMAIN event' = Events /\ event'[e] = b
      /\ \A x \in Events : x # e => event'[x] = event[x]
  BY DEF EventsTyped
<1> QED BY <1>1 DEF ListsStay, EventsTyped

(* Nobody waits at a block that is in no use.                              *)
LEMMA UnusedHasNoList ==
  ASSUME TasksOK, NEW e \in Events, event[e].type = "unused"
  PROVE  event[e].grp = {}
BY DEF TasksOK, ListsOK, Waiters

LEMMA FreshFields ==
  ASSUME NEW n
  PROVE  \A b \in {SemFresh(n), MboxFresh(n), QFresh, EventClear} :
           DOMAIN b = EventFields /\ b.grp = {} /\ b.type \in EventKinds \ {"mutex"}
<1>1. /\ DOMAIN EventClear = EventFields /\ EventClear.grp = {} /\ EventClear.type = "unused"
  BY DEF EventClear, EventFields
<1>2. /\ DOMAIN SemFresh(n) = EventFields /\ SemFresh(n).grp = {} /\ SemFresh(n).type = "sem"
      /\ DOMAIN MboxFresh(n) = EventFields /\ MboxFresh(n).grp = {} /\ MboxFresh(n).type = "mbox"
      /\ DOMAIN QFresh = EventFields /\ QFresh.grp = {} /\ QFresh.type = "q"
  BY <1>1 DEF SemFresh, MboxFresh, QFresh, EventFields
<1> QED BY <1>1, <1>2 DEF EventKinds

(* A count or a pointer of an event changes, or an event without a list is *)
(* made or deleted.                                                        *)
LEMMA EventEditKeeps ==
  ASSUME TasksOK, NEW e \in Events, NEW b, event' = [event EXCEPT ![e] = b],
         \/ \E n : b = [event[e] EXCEPT !.cnt = n]
         \/ \E m : b = [event[e] EXCEPT !.ptr = m]
         \/ /\ event[e].type = "unused" \/ Waiters(e) = {}
            /\ \/ \E n : b = SemFresh(n)
               \/ \E m : b = MboxFresh(m)
               \/ b = QFresh \/ b = EventClear,
         UNCHANGED <<schedVars, listVars, OSRdyTbl, tcb, callVars, flagVars, app>>
  PROVE  TasksOK'
<1>1. /\ EventsTyped(event) /\ DOMAIN event[e] = EventFields
      /\ event[e].type \in EventKinds \ {"mutex"}
      /\ UNCHANGED <<OSFlagWaitList, node>>
  BY DEF TasksOK, EventsTyped, flagVars
<1>2. CASE (\E n : b = [event[e] EXCEPT !.cnt = n]) \/ (\E m : b = [event[e] EXCEPT !.ptr = m])
  <2>1. DOMAIN b = EventFields /\ b.grp = event[e].grp /\ b.type = event[e].type
    BY <1>1, <1>2 DEF EventFields
  <2>2. ListsStay
    BY <1>1, <2>1, EventEdit
  <2> QED BY <2>2, QuietKeeps
<1>3. CASE /\ event[e].type = "unused" \/ Waiters(e) = {}
           /\ \/ \E n : b = SemFresh(n)
              \/ \E m : b = MboxFresh(m)
              \/ b = QFresh \/ b = EventClear
  <2>1. DOMAIN b = EventFields /\ b.grp = {} /\ b.type \in EventKinds \ {"mutex"}
    <3>1. CASE \E n : b = SemFresh(n)
      BY <3>1, FreshFields
    <3>2. CASE \E m : b = MboxFresh(m)
      BY <3>2, FreshFields
    <3>3. CASE b = QFresh \/ b = EventClear
      BY <3>3, FreshFields
    <3> QED BY <1>3, <3>1, <3>2, <3>3
  <2>2. event[e].grp = {}
    BY <1>3, UnusedHasNoList DEF Waiters
  <2>3. ListsStay
    BY <1>1, <2>1, <2>2, EventEdit
  <2> QED BY <2>3, QuietKeeps
<1> QED BY <1>2, <1>3

(* Nothing of the kernel's core changes.                                   *)
LEMMA CoreStays ==
  ASSUME TasksOK, UNCHANGED <<coreVars, OSFlagWaitList, node, app>>
  PROVE  TasksOK'
<1>1. ListsStay
  BY DEF ListsStay, TasksOK, EventsTyped, coreVars, waitVars
<1> QED BY <1>1, QuietKeeps DEF coreVars, waitVars

(* A post, an abort or a deletion that finds tasks waiting.                *)
LEMMA AwakeningKeeps ==
  ASSUME TasksOK, CanCall, NEW e \in Events, NEW S \in SUBSET Waiters(e),
         NEW msg \in Msgs \cup {NoMsg}, NEW msk, NEW how \in {"OK", "ABORT"},
         \/ S # {} /\ msk = {StatBit(e)} /\ EventTaskRdy(e, S, msg, msk, how)
         \/ /\ S = Waiters(e) /\ msg = NoMsg /\ how = "OK"
            /\ \E bit : msk = {bit} /\ bit = StatBit(e) /\ EventDelAlways(e, bit),
         \/ CallSched /\ deferred' = deferred
         \/ Return /\ deferred' = (deferred \/ ~InISR),
         UNCHANGED <<OSTCBCur, OSPrioCur, OSIntNesting, OSLockNesting, listVars, flagVars, app>>
  PROVE  TasksOK'
<1>1. TypesOK /\ EventsTyped(event) /\ TableOK /\ ListsOK
  BY DEF TasksOK
<1>2. OSFlagWaitList' = OSFlagWaitList /\ node' = node
  BY DEF flagVars
<1>3. /\ RdyEffect(e, {OSTCBPrioTbl[p] : p \in S})
      /\ EventsTyped(event') /\ tcb' = [t \in Tasks |-> tcb'[t]]
      /\ \A x \in Events : event'[x].grp = {} \/ event'[x].type = event[x].type
  BY <1>1, <1>2, EventTaskRdyEffect
<1>4. CallFrame /\ (CallSched => InISR \/ pc' = [pc EXCEPT ![OSTCBCur] = "sched"])
  BY <1>2, FrameOfCall
<1>5. deferred' \in BOOLEAN /\ (InISR \/ pc' = [pc EXCEPT ![OSTCBCur] = "sched"] \/ deferred' = TRUE)
  BY <1>1, <1>4 DEF TypesOK
<1> QED BY <1>3, <1>4, <1>5, RdyKeeps

(* The tasks that such a call names: the highest, or all.                  *)
LEMMA WaitersChosen ==
  ASSUME EventsTyped(event), NEW e \in Events, Waiters(e) # {}
  PROVE  /\ HighestWaiter(e) \in SUBSET Waiters(e) /\ HighestWaiter(e) # {}
         /\ Min(Waiters(e)) \in Waiters(e) /\ \A p \in Waiters(e) : Min(Waiters(e)) <= p
<1>1. Waiters(e) \in SUBSET Nat
  BY PriosAreNat DEF EventsTyped, Waiters
<1>2. Min(Waiters(e)) \in Waiters(e) /\ \A p \in Waiters(e) : Min(Waiters(e)) <= p
  BY <1>1, MinOfSet
<1> QED BY <1>2 DEF HighestWaiter

LEMMA StatBits3 ==
  ASSUME NEW e
  PROVE  /\ IsSem(e) => StatBit(e) = "SEM" /\ event[e].type \in {"sem", "mbox", "q"}
         /\ IsMbox(e) => StatBit(e) = "MBOX" /\ event[e].type \in {"sem", "mbox", "q"}
         /\ IsQ(e) => StatBit(e) = "Q" /\ event[e].type \in {"sem", "mbox", "q"}
BY DEF StatBit, IsSem, IsMbox, IsQ

-----------------------------------------------------------------------------
(* What the arguments of the calls are.                                    *)
LEMMA ArgumentsOK ==
  ASSUME TasksOK
  PROVE  /\ app \in Apps /\ app.timeouts \subseteq Nat /\ app.prios \subseteq Prios
         /\ app.msgs \subseteq Msgs /\ Delays \subseteq Nat
BY AppsAssumption, TimeoutsAssumption DEF TasksOK, TypesOK

(* A count or a pointer of an event is set.                                *)
LEMMA CountKeeps ==
  ASSUME TasksOK, NEW e \in Events, NEW n, event' = [event EXCEPT ![e].cnt = n],
         UNCHANGED <<schedVars, listVars, OSRdyTbl, tcb, callVars, flagVars, app>>
  PROVE  TasksOK'
<1>1. PICK b : b = [event[e] EXCEPT !.cnt = n]
  OBVIOUS
<1>2. event' = [event EXCEPT ![e] = b]
  BY <1>1
<1> QED BY <1>1, <1>2, EventEditKeeps

LEMMA PointerKeeps ==
  ASSUME TasksOK, NEW e \in Events, NEW m, event' = [event EXCEPT ![e].ptr = m],
         UNCHANGED <<schedVars, listVars, OSRdyTbl, tcb, callVars, flagVars, app>>
  PROVE  TasksOK'
<1>1. PICK b : b = [event[e] EXCEPT !.ptr = m]
  OBVIOUS
<1>2. event' = [event EXCEPT ![e] = b]
  BY <1>1
<1> QED BY <1>1, <1>2, EventEditKeeps

(* An event is made.                                                       *)
LEMMA CreationKeeps ==
  ASSUME TasksOK, NEW e \in Events, NEW b, EventInit(e, b),
         \/ \E n : b = SemFresh(n)
         \/ \E m : b = MboxFresh(m)
         \/ b = QFresh,
         UNCHANGED <<schedVars, listVars, OSRdyTbl, tcb, callVars, flagVars, app>>
  PROVE  TasksOK'
<1>1. event[e].type = "unused" /\ event' = [event EXCEPT ![e] = b]
  BY DEF EventInit
<1> QED BY <1>1, EventEditKeeps

(* The running task waits for one event.                                   *)
LEMMA PendKeeps ==
  ASSUME TasksOK, MayPend, NEW e \in Events, NEW call \in {"sem", "mbox", "q"}, NEW bit,
         StatBit(e) = bit, event[e].type \in {"sem", "mbox", "q"},
         NEW timeout \in app.timeouts, EventTaskWait(call, {bit}, {e}, timeout),
         UNCHANGED <<flagVars, app>>
  PROVE  TasksOK'
<1>1. timeout \in Nat
  BY ArgumentsOK
<1>2. /\ {e} \in SUBSET Events /\ {e} # {} /\ call # "multi"
      /\ call \in {"sem", "mbox", "q", "multi"}
      /\ \A x \in {e} : event[x].type \in {"sem", "mbox", "q"}
  OBVIOUS
<1>3. \E x \in Events : {e} = {x} /\ {bit} = {StatBit(x)}
  OBVIOUS
<1> QED BY <1>1, <1>2, <1>3, WaitKeeps, Zenon

(* The highest waiting task, or all of them, are made ready by a post or   *)
(* an abort that schedules at its end.                                     *)
LEMMA PostKeeps ==
  ASSUME TasksOK, CanCall, NEW e \in Events, Waiters(e) # {}, NEW bit, StatBit(e) = bit,
         NEW S, S \in {Waiters(e), HighestWaiter(e)},
         NEW msg \in Msgs \cup {NoMsg}, NEW how \in {"OK", "ABORT"},
         EventTaskRdy(e, S, msg, {bit}, how),
         \/ CallSched /\ deferred' = deferred
         \/ Return /\ deferred' = (deferred \/ ~InISR),
         UNCHANGED <<OSTCBCur, OSPrioCur, OSIntNesting, OSLockNesting, listVars, flagVars, app>>
  PROVE  TasksOK'
<1>1. S \in SUBSET Waiters(e) /\ S # {}
  BY WaitersChosen DEF TasksOK
<1>2. {bit} = {StatBit(e)}
  OBVIOUS
<1> QED BY <1>1, <1>2, AwakeningKeeps

(* An event is deleted.                                                    *)
LEMMA DeletionKeeps ==
  ASSUME TasksOK, TaskCalls, NEW e \in Events, NEW bit, StatBit(e) = bit,
         \/ /\ Waiters(e) = {}
            /\ event' = [event EXCEPT ![e] = EventClear]
            /\ Return /\ UNCHANGED <<OSRdyTbl, tcb>>
         \/ /\ EventDelAlways(e, bit)
            /\ CallSched,
         UNCHANGED <<schedVars, listVars, flagVars, app>>
  PROVE  TasksOK'
<1>1. CASE /\ Waiters(e) = {}
           /\ event' = [event EXCEPT ![e] = EventClear]
           /\ Return /\ UNCHANGED <<OSRdyTbl, tcb>>
  BY <1>1, EventEditKeeps DEF Return
<1>2. CASE EventDelAlways(e, bit) /\ CallSched
  <2>1. CanCall
    BY DEF TaskCalls
  <2>2. UNCHANGED <<OSTCBCur, OSPrioCur, OSIntNesting, OSLockNesting, deferred>>
    BY DEF schedVars, runVars
  <2>3. \E b : {bit} = {b} /\ b = StatBit(e) /\ EventDelAlways(e, b)
    BY <1>2
  <2>4. Waiters(e) \in SUBSET Waiters(e)
    OBVIOUS
  <2>5. NoMsg \in Msgs \cup {NoMsg} /\ "OK" \in {"OK", "ABORT"}
    OBVIOUS
  <2> QED BY <1>2, <2>1, <2>2, <2>3, <2>4, <2>5, AwakeningKeeps, Zenon
<1> QED BY <1>1, <1>2

-----------------------------------------------------------------------------
LEMMA SemaphoresKeep ==
  ASSUME TasksOK, Semaphores
  PROVE  TasksOK'
<1>1. UNCHANGED <<flagVars, app>>
  BY DEF Semaphores
<1>2. ASSUME NEW e \in Events, NEW t \in app.timeouts, OSSemPend(e, t)
      PROVE  TasksOK'
  <2>1. MayPend /\ IsSem(e) /\ StatBit(e) = "SEM" /\ event[e].type \in {"sem", "mbox", "q"}
    BY <1>2, StatBits3 DEF OSSemPend
  <2>2. CASE EventTaskWait("sem", {"SEM"}, {e}, t)
    BY <1>1, <2>1, <2>2, PendKeeps
  <2>3. CASE /\ event' = [event EXCEPT ![e].cnt = @ - 1]
             /\ UNCHANGED <<schedVars, listVars, OSRdyTbl, tcb, callVars>>
    BY <1>1, <2>3, CountKeeps
  <2> QED BY <1>2, <2>2, <2>3 DEF OSSemPend
<1>3. ASSUME NEW e \in Events, OSSemPost(e)
      PROVE  TasksOK'
  <2>1. CanCall /\ IsSem(e) /\ StatBit(e) = "SEM" /\ UNCHANGED <<schedVars, listVars>>
    BY <1>3, StatBits3 DEF OSSemPost
  <2>2. UNCHANGED <<OSTCBCur, OSPrioCur, OSIntNesting, OSLockNesting, deferred>>
    BY <2>1 DEF schedVars, runVars
  <2>3. CASE Waiters(e) # {} /\ EventTaskRdy(e, HighestWaiter(e), NoMsg, {"SEM"}, "OK") /\ CallSched
    BY <1>1, <2>1, <2>2, <2>3, PostKeeps
  <2>4. CASE event' = [event EXCEPT ![e].cnt = @ + 1] /\ Return /\ UNCHANGED <<OSRdyTbl, tcb>>
    BY <1>1, <2>1, <2>4, CountKeeps DEF Return
  <2> QED BY <1>3, <2>3, <2>4 DEF OSSemPost
<1>4. ASSUME NEW e \in Events, OSSemAccept(e)
      PROVE  TasksOK'
  BY <1>1, <1>4, CountKeeps DEF OSSemAccept
<1>5. ASSUME NEW e \in Events, NEW n, OSSemSet(e, n)
      PROVE  TasksOK'
  BY <1>1, <1>5, CountKeeps DEF OSSemSet
<1>6. ASSUME NEW e \in Events, NEW b \in BOOLEAN, OSSemPendAbort(e, b)
      PROVE  TasksOK'
  <2>1. /\ CanCall /\ StatBit(e) = "SEM" /\ Waiters(e) # {} /\ CallSched
        /\ UNCHANGED <<schedVars, listVars>>
    BY <1>6, StatBits3 DEF OSSemPendAbort
  <2>2. UNCHANGED <<OSTCBCur, OSPrioCur, OSIntNesting, OSLockNesting, deferred>>
    BY <2>1 DEF schedVars, runVars
  <2>3. PICK S \in {Waiters(e), HighestWaiter(e)} : EventTaskRdy(e, S, NoMsg, {"SEM"}, "ABORT")
    BY <1>6 DEF OSSemPendAbort
  <2> QED BY <1>1, <2>1, <2>2, <2>3, PostKeeps
<1>7. ASSUME NEW e \in Events, NEW n, OSSemCreate(e, n)
      PROVE  TasksOK'
  BY <1>1, <1>7, CreationKeeps DEF OSSemCreate
<1>8. ASSUME NEW e \in Events, NEW b \in BOOLEAN, OSSemDel(e, b)
      PROVE  TasksOK'
  <2>1. TaskCalls /\ StatBit(e) = "SEM" /\ UNCHANGED <<schedVars, listVars>>
    BY <1>8, StatBits3 DEF OSSemDel
  <2> QED BY <1>1, <1>8, <2>1, DeletionKeeps DEF OSSemDel
<1>9. ASSUME OSSemPendEnds
      PROVE  TasksOK'
  BY <1>1, <1>9, WakeKeeps DEF OSSemPendEnds
<1> QED BY <1>2, <1>3, <1>4, <1>5, <1>6, <1>7, <1>8, <1>9 DEF Semaphores

LEMMA MailboxesKeep ==
  ASSUME TasksOK, Mailboxes
  PROVE  TasksOK'
<1>1. UNCHANGED <<flagVars, app>> /\ app.msgs \subseteq Msgs
  BY ArgumentsOK DEF Mailboxes
<1>2. ASSUME NEW e \in Events, NEW t \in app.timeouts, OSMboxPend(e, t)
      PROVE  TasksOK'
  <2>1. MayPend /\ IsMbox(e) /\ StatBit(e) = "MBOX" /\ event[e].type \in {"sem", "mbox", "q"}
    BY <1>2, StatBits3 DEF OSMboxPend
  <2>2. CASE EventTaskWait("mbox", {"MBOX"}, {e}, t)
    BY <1>1, <2>1, <2>2, PendKeeps
  <2>3. CASE /\ event' = [event EXCEPT ![e].ptr = NoMsg]
             /\ UNCHANGED <<schedVars, listVars, OSRdyTbl, tcb, callVars>>
    BY <1>1, <2>3, PointerKeeps
  <2> QED BY <1>2, <2>2, <2>3 DEF OSMboxPend
<1>3. ASSUME NEW e \in Events, NEW m \in app.msgs, OSMboxPost(e, m)
      PROVE  TasksOK'
  <2>1. /\ CanCall /\ IsMbox(e) /\ StatBit(e) = "MBOX" /\ UNCHANGED <<schedVars, listVars>>
        /\ m \in Msgs \cup {NoMsg}
    BY <1>1, <1>3, StatBits3 DEF OSMboxPost
  <2>2. UNCHANGED <<OSTCBCur, OSPrioCur, OSIntNesting, OSLockNesting, deferred>>
    BY <2>1 DEF schedVars, runVars
  <2>3. CASE Waiters(e) # {} /\ PostToWaiters(e, m, "MBOX", FALSE) /\ CallSched
    <3>1. EventTaskRdy(e, HighestWaiter(e), m, {"MBOX"}, "OK")
      BY <2>3 DEF PostToWaiters
    <3> QED BY <1>1, <2>1, <2>2, <2>3, <3>1, PostKeeps
  <2>4. CASE event' = [event EXCEPT ![e].ptr = m] /\ Return /\ UNCHANGED <<OSRdyTbl, tcb>>
    BY <1>1, <2>1, <2>4, PointerKeeps DEF Return
  <2> QED BY <1>3, <2>3, <2>4 DEF OSMboxPost
<1>4. ASSUME NEW e \in Events, NEW m \in app.msgs, NEW b \in BOOLEAN, NEW n \in BOOLEAN,
             OSMboxPostOpt(e, m, b, n)
      PROVE  TasksOK'
  <2>1. /\ CanCall /\ IsMbox(e) /\ StatBit(e) = "MBOX" /\ m \in Msgs \cup {NoMsg}
        /\ UNCHANGED <<OSTCBCur, OSPrioCur, OSIntNesting, OSLockNesting, listVars>>
    BY <1>1, <1>4, StatBits3 DEF OSMboxPostOpt
  <2>2. CASE Waiters(e) # {} /\ PostToWaiters(e, m, "MBOX", b) /\ CallEnds(n)
    <3>1. PICK S \in {Waiters(e), HighestWaiter(e)} : EventTaskRdy(e, S, m, {"MBOX"}, "OK")
      BY <2>2 DEF PostToWaiters
    <3>2. \/ CallSched /\ deferred' = deferred
          \/ Return /\ deferred' = (deferred \/ ~InISR)
      BY <2>2, Zenon DEF CallEnds
    <3> QED BY <1>1, <2>1, <2>2, <3>1, <3>2, PostKeeps
  <2>3. CASE event' = [event EXCEPT ![e].ptr = m] /\ Return /\ UNCHANGED <<OSRdyTbl, tcb, deferred>>
    BY <1>1, <2>1, <2>3, PointerKeeps DEF Return, schedVars, runVars
  <2> QED BY <1>4, <2>2, <2>3 DEF OSMboxPostOpt
<1>5. ASSUME NEW e \in Events, OSMboxAccept(e)
      PROVE  TasksOK'
  BY <1>1, <1>5, PointerKeeps DEF OSMboxAccept
<1>6. ASSUME NEW e \in Events, NEW b \in BOOLEAN, OSMboxPendAbort(e, b)
      PROVE  TasksOK'
  <2>1. /\ CanCall /\ StatBit(e) = "MBOX" /\ Waiters(e) # {} /\ CallSched
        /\ UNCHANGED <<schedVars, listVars>>
    BY <1>6, StatBits3 DEF OSMboxPendAbort
  <2>2. UNCHANGED <<OSTCBCur, OSPrioCur, OSIntNesting, OSLockNesting, deferred>>
    BY <2>1 DEF schedVars, runVars
  <2>3. PICK S \in {Waiters(e), HighestWaiter(e)} : EventTaskRdy(e, S, NoMsg, {"MBOX"}, "ABORT")
    BY <1>6 DEF OSMboxPendAbort
  <2> QED BY <1>1, <2>1, <2>2, <2>3, PostKeeps
<1>7. ASSUME NEW e \in Events, NEW m, OSMboxCreate(e, m)
      PROVE  TasksOK'
  BY <1>1, <1>7, CreationKeeps DEF OSMboxCreate
<1>8. ASSUME NEW e \in Events, NEW b \in BOOLEAN, OSMboxDel(e, b)
      PROVE  TasksOK'
  <2>1. TaskCalls /\ StatBit(e) = "MBOX" /\ UNCHANGED <<schedVars, listVars>>
    BY <1>8, StatBits3 DEF OSMboxDel
  <2> QED BY <1>1, <1>8, <2>1, DeletionKeeps DEF OSMboxDel
<1>9. ASSUME OSMboxPendEnds
      PROVE  TasksOK'
  BY <1>1, <1>9, WakeKeeps DEF OSMboxPendEnds, MsgPendEnds
<1> QED BY <1>2, <1>3, <1>4, <1>5, <1>6, <1>7, <1>8, <1>9 DEF Mailboxes

LEMMA QueuesKeep ==
  ASSUME TasksOK, Queues
  PROVE  TasksOK'
<1>1. UNCHANGED <<flagVars, app>> /\ app.msgs \subseteq Msgs
  BY ArgumentsOK DEF Queues
<1>2. ASSUME UNCHANGED coreVars
      PROVE  TasksOK'
  BY <1>1, <1>2, CoreStays DEF flagVars
<1>3. ASSUME NEW e \in Events, NEW t \in app.timeouts, OSQPend(e, t)
      PROVE  TasksOK'
  <2>1. MayPend /\ IsQ(e) /\ StatBit(e) = "Q" /\ event[e].type \in {"sem", "mbox", "q"}
    BY <1>3, StatBits3 DEF OSQPend
  <2>2. CASE EventTaskWait("q", {"Q"}, {e}, t)
    BY <1>1, <2>1, <2>2, PendKeeps
  <2> QED BY <1>2, <1>3, <2>2 DEF OSQPend
<1>4. ASSUME NEW e \in Events, NEW m \in app.msgs, NEW f, PostAt(e, m, f)
      PROVE  TasksOK'
  <2>1. /\ CanCall /\ IsQ(e) /\ StatBit(e) = "Q" /\ m \in Msgs \cup {NoMsg}
    BY <1>1, <1>4, StatBits3 DEF PostAt
  <2>2. CASE /\ Waiters(e) # {} /\ PostToWaiters(e, m, "Q", FALSE) /\ CallSched
             /\ UNCHANGED <<schedVars, listVars>>
    <3>1. EventTaskRdy(e, HighestWaiter(e), m, {"Q"}, "OK")
      BY <2>2 DEF PostToWaiters
    <3>2. UNCHANGED <<OSTCBCur, OSPrioCur, OSIntNesting, OSLockNesting, deferred>>
      BY <2>2 DEF schedVars, runVars
    <3> QED BY <1>1, <2>1, <2>2, <3>1, <3>2, PostKeeps
  <2>3. CASE UNCHANGED coreVars
    BY <1>2, <2>3
  <2> QED BY <1>4, <2>2, <2>3 DEF PostAt, Append1
<1>5. ASSUME NEW e \in Events, NEW m \in app.msgs, NEW b \in BOOLEAN, NEW f \in BOOLEAN,
             NEW n \in BOOLEAN, OSQPostOpt(e, m, b, f, n)
      PROVE  TasksOK'
  <2>1. CanCall /\ IsQ(e) /\ StatBit(e) = "Q" /\ m \in Msgs \cup {NoMsg}
    BY <1>1, <1>5, StatBits3 DEF OSQPostOpt
  <2>2. CASE /\ Waiters(e) # {} /\ PostToWaiters(e, m, "Q", b) /\ CallEnds(n)
             /\ UNCHANGED <<OSTCBCur, OSPrioCur, OSIntNesting, OSLockNesting, listVars>>
    <3>1. PICK S \in {Waiters(e), HighestWaiter(e)} : EventTaskRdy(e, S, m, {"Q"}, "OK")
      BY <2>2 DEF PostToWaiters
    <3>2. \/ CallSched /\ deferred' = deferred
          \/ Return /\ deferred' = (deferred \/ ~InISR)
      BY <2>2, Zenon DEF CallEnds
    <3> QED BY <1>1, <2>1, <2>2, <3>1, <3>2, PostKeeps
  <2>3. CASE UNCHANGED coreVars
    BY <1>2, <2>3
  <2> QED BY <1>5, <2>2, <2>3 DEF OSQPostOpt, Append1
<1>6. ASSUME NEW e \in Events, OSQAccept(e) \/ OSQFlush(e)
      PROVE  TasksOK'
  BY <1>2, <1>6 DEF OSQAccept, OSQFlush
<1>7. ASSUME NEW e \in Events, NEW b \in BOOLEAN, OSQPendAbort(e, b)
      PROVE  TasksOK'
  <2>1. /\ CanCall /\ StatBit(e) = "Q" /\ Waiters(e) # {} /\ CallSched
        /\ UNCHANGED <<schedVars, listVars>>
    BY <1>7, StatBits3 DEF OSQPendAbort
  <2>2. UNCHANGED <<OSTCBCur, OSPrioCur, OSIntNesting, OSLockNesting, deferred>>
    BY <2>1 DEF schedVars, runVars
  <2>3. PICK S \in {Waiters(e), HighestWaiter(e)} : EventTaskRdy(e, S, NoMsg, {"Q"}, "ABORT")
    BY <1>7 DEF OSQPendAbort
  <2> QED BY <1>1, <2>1, <2>2, <2>3, PostKeeps
<1>8. ASSUME NEW e \in Events, OSQCreate(e)
      PROVE  TasksOK'
  BY <1>1, <1>8, CreationKeeps DEF OSQCreate
<1>9. ASSUME NEW e \in Events, NEW b \in BOOLEAN, OSQDel(e, b)
      PROVE  TasksOK'
  <2>1. TaskCalls /\ StatBit(e) = "Q" /\ UNCHANGED <<schedVars, listVars>>
    BY <1>9, StatBits3 DEF OSQDel
  <2> QED BY <1>1, <1>9, <2>1, DeletionKeeps DEF OSQDel
<1>10. ASSUME OSQPendEnds
       PROVE  TasksOK'
  BY <1>1, <1>10, WakeKeeps DEF OSQPendEnds, MsgPendEnds
<1> QED BY <1>3, <1>4, <1>5, <1>6, <1>7, <1>8, <1>9, <1>10 DEF Queues, OSQPost, OSQPostFront

(* What the call takes leaves every list alone.                            *)
LEMMA TakeAllKeeps ==
  ASSUME TasksOK, NEW S \in SUBSET Events, TakeAll(S), UNCHANGED <<flagVars, app>>
  PROVE  TasksOK'
<1>1. EventsTyped(event) /\ UNCHANGED <<OSFlagWaitList, node>>
  BY DEF TasksOK, flagVars
<1>2. event' = [e \in Events |->
        IF e \notin S \/ IsQ(e) THEN event[e]
        ELSE IF IsSem(e) THEN [event[e] EXCEPT !.cnt = @ - 1]
        ELSE [event[e] EXCEPT !.ptr = NoMsg]]
  BY DEF TakeAll
<1>3. ASSUME NEW e \in Events
      PROVE  /\ DOMAIN event'[e] = EventFields /\ event'[e].grp = event[e].grp
             /\ event'[e].type = event[e].type
  <2>1. /\ DOMAIN event[e] = EventFields
        /\ event'[e] = IF e \notin S \/ IsQ(e) THEN event[e]
                       ELSE IF IsSem(e) THEN [event[e] EXCEPT !.cnt = @ - 1]
                       ELSE [event[e] EXCEPT !.ptr = NoMsg]
    BY <1>1, <1>2 DEF EventsTyped
  <2> QED BY <2>1 DEF EventFields
<1>4. DOMAIN event' = Events
  BY <1>2
<1>5. ListsStay
  BY <1>1, <1>3, <1>4 DEF ListsStay, EventsTyped
<1> QED BY <1>5, QuietKeeps DEF TakeAll

LEMMA SeveralEventsKeep ==
  ASSUME TasksOK, SeveralEvents
  PROVE  TasksOK'
<1>1. UNCHANGED <<flagVars, app>> /\ app.timeouts \subseteq Nat
  BY ArgumentsOK DEF SeveralEvents
<1>2. ASSUME NEW es \in SUBSET Events, NEW t \in app.timeouts, OSEventPendMulti(es, t),
             May("OSEventPendMulti")
      PROVE  TasksOK'
  <2>1. /\ MayPend /\ es # {} /\ t \in Nat
        /\ \A e \in es : event[e].type \in {"sem", "mbox", "q"}
    BY <1>1, <1>2 DEF OSEventPendMulti, IsSem, IsMbox, IsQ
  <2>2. "OSEventPendMulti" \in app.calls
    BY <1>2, <2>1 DEF May, MayPend, TaskCalls
  <2>3. CASE EventTaskWait("multi", {StatBit(e) : e \in es} \cup {"MULTI"}, es, t)
    <3>1. "multi" \in {"sem", "mbox", "q", "multi"}
      OBVIOUS
    <3>2. PICK bit : bit = {StatBit(e) : e \in es} \cup {"MULTI"}
      OBVIOUS
    <3>3. EventTaskWait("multi", bit, es, t)
      BY <2>3, <3>2
    <3> QED BY <1>1, <2>1, <2>2, <3>1, <3>2, <3>3, WaitKeeps, Zenon
  <2>4. CASE TakeAll({e \in es : Available(e)})
    <3>1. {e \in es : Available(e)} \in SUBSET Events
      OBVIOUS
    <3> QED BY <1>1, <2>4, <3>1, TakeAllKeeps
  <2> QED BY <1>2, <2>3, <2>4 DEF OSEventPendMulti
<1>3. ASSUME OSEventPendMultiEnds
      PROVE  TasksOK'
  BY <1>1, <1>3, WakeKeeps DEF OSEventPendMultiEnds
<1> QED BY <1>2, <1>3 DEF SeveralEvents

LEMMA EventFlagsKeep ==
  ASSUME TasksOK, EventFlags
  PROVE  TasksOK'
<1>1. app' = app /\ app.timeouts \subseteq Nat
  BY ArgumentsOK DEF EventFlags
<1>2. ASSUME UNCHANGED <<coreVars, OSFlagWaitList, node>>
      PROVE  TasksOK'
  BY <1>1, <1>2, CoreStays
<1>3. ASSUME NEW g \in FlagGroups, NEW f, NEW set, OSFlagPost(g, f, set)
      PROVE  TasksOK'
  <2>1. PICK now : OS_FlagTaskRdy(TasksRdy(g, now), [t \in Tasks |-> FlagsRdy(now, node[t].flags, node[t].type)])
    BY <1>3 DEF OSFlagPost
  <2>2. TasksRdy(g, now) \in SUBSET OSFlagWaitList[g]
    BY DEF TasksRdy
  <2>3. CanCall /\ UNCHANGED <<schedVars, listVars, event, node, app>>
    BY <1>1, <1>3 DEF OSFlagPost
  <2> QED BY <2>1, <2>2, <2>3, FlagTaskRdyKeeps
<1>4. ASSUME NEW g \in FlagGroups, NEW b, OSFlagDel(g, b)
      PROVE  TasksOK'
  <2>1. CanCall /\ UNCHANGED <<schedVars, listVars, event, node, app>>
    BY <1>1, <1>4 DEF OSFlagDel, TaskCalls
  <2>2. OS_FlagTaskRdy(OSFlagWaitList[g], [t \in Tasks |-> {}])
    BY <1>4 DEF OSFlagDel
  <2>3. OSFlagWaitList[g] \in SUBSET OSFlagWaitList[g]
    OBVIOUS
  <2> QED BY <2>1, <2>2, <2>3, FlagTaskRdyKeeps
<1>5. ASSUME NEW g \in FlagGroups, NEW f, NEW type, NEW consume, NEW t \in app.timeouts,
             OSFlagPend(g, f, type, consume, t)
      PROVE  TasksOK'
  <2>1. CASE OS_FlagBlock(g, f, type, consume, t)
    <3>1. MayPend /\ t \in Nat
      BY <1>1, <1>5 DEF OSFlagPend
    <3> QED BY <1>1, <2>1, <3>1, FlagBlockKeeps
  <2> QED BY <1>2, <1>5, <2>1 DEF OSFlagPend
<1>6. ASSUME NEW g \in FlagGroups, NEW f, OSFlagCreate(g, f)
      PROVE  TasksOK'
  BY <1>2, <1>6 DEF OSFlagCreate
<1>7. ASSUME NEW g \in FlagGroups, NEW f, NEW type, NEW consume, OSFlagAccept(g, f, type, consume)
      PROVE  TasksOK'
  BY <1>2, <1>7 DEF OSFlagAccept
<1>8. ASSUME OSFlagPendEnds
      PROVE  TasksOK'
  BY <1>1, <1>8, FlagPendEndsKeeps
<1> QED BY <1>3, <1>4, <1>5, <1>6, <1>7, <1>8 DEF EventFlags

(* There is no mutex to call, and none is made.                            *)
LEMMA NoMutexes ==
  ASSUME TasksOK, Plain
  PROVE  ~Mutexes
<1>1. \A e \in Events : ~IsMutex(e)
  BY DEF TasksOK, EventsTyped, IsMutex
<1>2. ~OSMutexPendEnds
  BY DEF OSMutexPendEnds, Wake, TasksOK, TypesOK, CurrentOK, Locals, CallNames
<1>3. ASSUME NEW e \in Events, NEW p, May("OSMutexCreate"), OSMutexCreate(e, p)
      PROVE  FALSE
  BY <1>3 DEF May, OSMutexCreate, TaskCalls, Plain
<1> QED
  BY <1>1, <1>2, <1>3 DEF Mutexes, OSMutexPend, OSMutexAccept, OSMutexPost, OSMutexDel

LEMMA SchedulerKeeps ==
  ASSUME TasksOK, Scheduler
  PROVE  TasksOK'
<1>1. UNCHANGED <<flagVars, app>> /\ Delays \subseteq Nat
  BY ArgumentsOK DEF Scheduler
<1>2. CASE OS_Sched
  BY <1>1, <1>2, OS_SchedKeeps
<1>3. CASE May("lock") /\ (OSSchedLock(MaxLock) \/ OSSchedUnlock)
  <2>1. "lock" \in app.calls
    BY <1>3 DEF May, OSSchedLock, OSSchedUnlock, TaskCalls
  <2> QED BY <1>1, <1>3, <2>1, LockKeeps
<1>4. CASE OSIntEnter \/ OSIntExit
  BY <1>1, <1>4, InterruptKeeps
<1>5. CASE OSTimeTick
  BY <1>1, <1>5, TimeTickKeeps
<1>6. CASE \E n \in Delays : OSTimeDly(n)
  BY <1>1, <1>6, TimeDlyKeeps
<1>7. CASE \E p \in Prios : OSTimeDlyResume(p)
  BY <1>1, <1>7, TimeDlyResumeKeeps
<1> QED BY <1>2, <1>3, <1>4, <1>5, <1>6, <1>7 DEF Scheduler

LEMMA TaskManagementKeeps ==
  ASSUME TasksOK, Plain, TaskManagement
  PROVE  TasksOK'
<1>1. app' = app /\ app.prios \subseteq Prios
  BY ArgumentsOK DEF TaskManagement
<1>2. ~May("OSTaskChangePrio")
  BY DEF May, Plain
<1>3. CASE \E p \in app.prios : OSTaskCreate(p)
  BY <1>1, <1>3, TaskCreateKeeps
<1>4. CASE OS_TCBInit
  BY <1>1, <1>4, TCBInitKeeps
<1>5. CASE OSTaskDelEnds
  BY <1>1, <1>5, TaskDelEndsKeeps
<1>6. CASE May("OSTaskSuspend") /\ \E p \in Prios : OSTaskSuspend(p)
  BY <1>1, <1>6, TaskSuspendKeeps
<1>7. CASE May("OSTaskResume") /\ \E p \in Prios : OSTaskResume(p)
  BY <1>1, <1>7, TaskResumeKeeps
<1> QED BY <1>2, <1>3, <1>4, <1>5, <1>6, <1>7 DEF TaskManagement

LEMMA TasksKeep ==
  ASSUME TasksOK, Plain, [Next]_vars
  PROVE  TasksOK'
<1>1. CASE Scheduler
  BY <1>1, SchedulerKeeps
<1>2. CASE TaskManagement
  BY <1>2, TaskManagementKeeps
<1>3. CASE TaskDeletion
  BY <1>3, TaskDelKeeps DEF TaskDeletion
<1>4. CASE Semaphores
  BY <1>4, SemaphoresKeep
<1>5. CASE Mailboxes
  BY <1>5, MailboxesKeep
<1>6. CASE Queues
  BY <1>6, QueuesKeep
<1>7. CASE SeveralEvents
  BY <1>7, SeveralEventsKeep
<1>8. CASE EventFlags
  BY <1>8, EventFlagsKeep
<1>9. CASE Mutexes
  BY <1>9, NoMutexes
<1>10. CASE Memory
  BY <1>10, CoreStays DEF Memory, flagVars
<1>11. CASE UNCHANGED vars
  BY <1>11, CoreStays DEF vars, flagVars
<1> QED
  BY <1>1, <1>2, <1>3, <1>4, <1>5, <1>6, <1>7, <1>8, <1>9, <1>10, <1>11 DEF Next

-----------------------------------------------------------------------------
(* The blocks of the events an application starts with.                    *)
LEMMA EventOfFields ==
  ASSUME NEW kind \in EventKinds, kind # "mutex"
  PROVE  /\ DOMAIN EventOf(kind) = EventFields /\ EventOf(kind).grp = {}
         /\ EventOf(kind).type \in EventKinds \ {"mutex"}
<1>1. CASE kind = "sem"
  <2>1. EventOf(kind) = SemFresh(0)
    BY <1>1 DEF EventOf
  <2> QED BY <2>1, FreshFields
<1>2. CASE kind = "mbox"
  <2>1. EventOf(kind) = MboxFresh(NoMsg)
    BY <1>2 DEF EventOf
  <2> QED BY <2>1, FreshFields
<1>3. CASE kind = "q"
  <2>1. EventOf(kind) = QFresh
    BY <1>3 DEF EventOf
  <2> QED BY <2>1, FreshFields
<1>4. CASE kind \in {"unused", "taken"}
  <2>1. EventOf(kind) = [EventClear EXCEPT !.type = kind]
    BY <1>4 DEF EventOf
  <2>2. DOMAIN EventClear = EventFields /\ EventClear.grp = {}
    BY FreshFields
  <2> QED BY <1>4, <2>1, <2>2 DEF EventFields
<1> QED BY <1>1, <1>2, <1>3, <1>4 DEF EventKinds

(* OSStart finds the task with the best priority.                          *)
LEMMA HighestTaskStarts ==
  ASSUME NEW S, NEW prioOf \in [S -> Nat], S # {}, OSStart(S, prioOf)
  PROVE  /\ OSTCBCur \in S /\ OSPrioCur = prioOf[OSTCBCur]
         /\ \A u \in S : OSPrioCur <= prioOf[u]
<1>1. PICK P : P = {prioOf[t] : t \in S}
  OBVIOUS
<1>2. P \in SUBSET Nat /\ P # {}
  BY <1>1
<1>3. Min(P) \in P /\ \A y \in P : Min(P) <= y
  BY <1>2, MinOfSet
<1>4. PICK t \in S : prioOf[t] = Min(P)
  BY <1>1, <1>3
<1>5. \A u \in S : prioOf[t] <= prioOf[u]
  BY <1>1, <1>3, <1>4
<1>6. OSTCBCur \in S /\ \A u \in S : prioOf[OSTCBCur] <= prioOf[u]
  BY <1>5 DEF OSStart
<1>7. prioOf[OSTCBCur] <= prioOf[t] /\ prioOf[t] <= prioOf[OSTCBCur]
  BY <1>5, <1>6
<1>8. OSPrioCur = prioOf[t] /\ prioOf[t] \in Nat /\ prioOf[OSTCBCur] \in Nat
  BY <1>1, <1>4, <1>6 DEF OSStart
<1> QED BY <1>5, <1>6, <1>7, <1>8

LEMMA TasksStart ==
  ASSUME Init, Plain
  PROVE  TasksOK
<1>1. PICK S, prioOf : S = app.tasks /\ prioOf = app.prioOf
  OBVIOUS
<1>2. /\ app \in Apps /\ app.kind \in [Events -> EventKinds]
      /\ S \subseteq Tasks /\ S # {} /\ prioOf \in [S -> 0..LowestPrio - 1]
      /\ \A t, u \in S : prioOf[t] = prioOf[u] => t = u
      /\ \A t \in S : prioOf[t] \notin app.pips
  BY <1>1, AppsAssumption DEF Init
<1>3. \A t \in S : prioOf[t] \in Prios /\ prioOf[t] < LowestPrio /\ prioOf[t] \in Nat
  BY <1>2, CoreAssumption DEF Prios
<1>4. /\ OSTCBList = S
      /\ tcb = [t \in Tasks |-> TCBClear(IF t \in S THEN prioOf[t] ELSE LowestPrio)]
      /\ pc = [t \in Tasks |-> IF t \in S THEN "run" ELSE "dead"]
      /\ local = [t \in Tasks |-> NoLocal]
      /\ OSRdyTbl = {LowestPrio} \cup {prioOf[t] : t \in S}
      /\ OSTCBPrioTbl = [p \in Prios |->
           IF p = LowestPrio THEN Idle
           ELSE IF p \in app.pips THEN Reserved
           ELSE IF \E t \in S : prioOf[t] = p THEN CHOOSE t \in S : prioOf[t] = p ELSE NoTask]
      /\ OSIntNesting = 0 /\ OSLockNesting = 0 /\ deferred = FALSE
      /\ event = [e \in Events |-> EventOf(app.kind[e])]
      /\ OSFlagWaitList = [g \in FlagGroups |-> {}]
      /\ node = [t \in Tasks |-> NoNode]
      /\ OSStart(S, prioOf)
  BY <1>1 DEF Init, InitTCBList, InitPrioTbl, InitRdyList, InitMisc, OS_FlagInit
<1>5. /\ OSTCBCur \in S /\ OSPrioCur = prioOf[OSTCBCur]
      /\ \A u \in S : OSPrioCur <= prioOf[u]
  <2>1. prioOf \in [S -> Nat]
    BY <1>2, <1>3
  <2> QED BY <1>2, <1>4, <2>1, HighestTaskStarts
<1>6. ASSUME NEW t \in Tasks
      PROVE  /\ tcb[t] \in TCBs /\ tcb[t].stat = {} /\ tcb[t].multi = {} /\ tcb[t].dly = 0
             /\ t \in S => tcb[t].prio = prioOf[t]
             /\ ~Pending(t) /\ pc[t] # "create" /\ pc[t] # "delete"
             /\ t \in S => pc[t] = "run"
             /\ local[t] \in Locals /\ local[t].events = {} /\ local[t].call = "none"
  <2>1. PICK p \in Prios : tcb[t] = TCBClear(p) /\ (t \in S => p = prioOf[t])
    BY <1>3, <1>4, PriosAreNat
  <2> QED BY <1>4, <2>1, TCBClearFields, NoLocalFields DEF Pending
<1>7. ASSUME NEW p \in Prios
      PROVE  /\ OSTCBPrioTbl[p] \in Tasks \cup {Idle, NoTask, Reserved}
             /\ OSTCBPrioTbl[p] = Idle <=> p = LowestPrio
             /\ OSTCBPrioTbl[p] \in Tasks => OSTCBPrioTbl[p] \in S /\ prioOf[OSTCBPrioTbl[p]] = p
             /\ \A t \in S : prioOf[t] = p => OSTCBPrioTbl[p] = t
  <2>1. CASE p = LowestPrio
    BY <1>3, <1>4, <2>1, CoreAssumption
  <2>2. CASE p # LowestPrio /\ p \in app.pips
    BY <1>2, <1>4, <2>2, CoreAssumption
  <2>3. CASE p # LowestPrio /\ p \notin app.pips /\ \E t \in S : prioOf[t] = p
    <3>1. OSTCBPrioTbl[p] = CHOOSE t \in S : prioOf[t] = p
      BY <1>4, <2>3
    <3>2. OSTCBPrioTbl[p] \in S /\ prioOf[OSTCBPrioTbl[p]] = p
      BY <2>3, <3>1
    <3> QED BY <1>2, <2>3, <3>2, CoreAssumption
  <2>4. CASE p # LowestPrio /\ p \notin app.pips /\ ~\E t \in S : prioOf[t] = p
    BY <1>4, <2>4, CoreAssumption
  <2> QED BY <2>1, <2>2, <2>3, <2>4
<1>8. ASSUME NEW e \in Events
      PROVE  /\ DOMAIN event[e] = EventFields /\ event[e].grp = {}
             /\ event[e].type \in EventKinds \ {"mutex"}
  <2>1. app.kind[e] \in EventKinds /\ app.kind[e] # "mutex" /\ event[e] = EventOf(app.kind[e])
    BY <1>2, <1>4 DEF Plain
  <2> QED BY <2>1, EventOfFields
<1>9. EventsTyped(event)
  BY <1>4, <1>8 DEF EventsTyped
<1>10. TypesOK
  <2>1. /\ OSTCBList \subseteq Tasks /\ OSRdyTbl \subseteq Prios
        /\ OSIntNesting \in Nat /\ OSLockNesting \in Nat /\ deferred \in BOOLEAN
    BY <1>2, <1>3, <1>4, PriosAreNat
  <2>2. OSTCBPrioTbl \in [Prios -> Tasks \cup {Idle, NoTask, Reserved}]
    BY <1>4, <1>7
  <2>3. tcb \in [Tasks -> TCBs] /\ local \in [Tasks -> Locals]
    BY <1>4, <1>6
  <2>4. pc \in [Tasks -> Places]
    BY <1>4 DEF Places
  <2>5. OSFlagWaitList \in [FlagGroups -> SUBSET Tasks] /\ DOMAIN node = Tasks
    BY <1>4
  <2> QED BY <1>2, <2>1, <2>2, <2>3, <2>4, <2>5 DEF TypesOK
<1>11. TableOK
  BY <1>2, <1>3, <1>4, <1>6, <1>7, PriosAreNat DEF TableOK
<1>12. ReadyOK
  BY <1>3, <1>4, <1>7, PriosAreNat DEF ReadyOK
<1>13. CurrentOK
  BY <1>2, <1>4, <1>5, <1>6 DEF CurrentOK
<1>14. SchedOK
  <2>1. OSRdyTbl \subseteq Prios /\ LowestPrio \in OSRdyTbl
    BY <1>4, <1>10 DEF TypesOK
  <2>2. Min(OSRdyTbl) \in OSRdyTbl /\ \A p \in OSRdyTbl : Min(OSRdyTbl) <= p
    BY <2>1, HighestIsReady
  <2>3. OSPrioCur \in OSRdyTbl /\ \A p \in OSRdyTbl : OSPrioCur <= p
    BY <1>3, <1>4, <1>5, CoreAssumption
  <2>4. OSPrioCur \in Nat /\ Min(OSRdyTbl) \in Nat
    BY <2>1, <2>2, <2>3, PriosAreNat
  <2>5. OSPrioCur <= Min(OSRdyTbl) /\ Min(OSRdyTbl) <= OSPrioCur
    BY <2>2, <2>3
  <2>6. OSPrioCur = Min(OSRdyTbl)
    BY <2>4, <2>5
  <2> QED BY <2>3, <2>6 DEF SchedOK
<1>15. LockOK /\ DeletionOK /\ PendingOK
  <2>1. ~Locked
    BY <1>4 DEF Locked
  <2>2. PendingOK
    BY <1>6 DEF PendingOK
  <2> QED BY <1>6, <2>1, <2>2 DEF LockOK, DeletionOK
<1>16. (\A e \in Events : Waiters(e) = {}) /\ \A t : ~FlagListed(t) /\ ~Listed(t)
  BY <1>4, <1>8 DEF Waiters, FlagListed, Listed
<1>17. ListsOK /\ FlagsOK
  BY <1>4, <1>16 DEF ListsOK, FlagsOK
<1>18. WaitsOK
  BY <1>2, <1>4, <1>6, <1>16 DEF WaitsOK, Bits
<1>19. RunnableOK
  <2>1. ASSUME NEW t \in OSTCBList
        PROVE  tcb[t].prio \in OSRdyTbl /\ tcb[t].stat = {} /\ tcb[t].dly = 0 /\ ~Waits(t)
    <3>1. t \in S /\ t \in Tasks
      BY <1>2, <1>4, <2>1
    <3>2. tcb[t].stat = {} /\ tcb[t].dly = 0 /\ tcb[t].prio = prioOf[t]
      BY <1>6, <3>1
    <3>3. prioOf[t] \in OSRdyTbl
      BY <1>4, <3>1
    <3> QED BY <1>16, <3>2, <3>3 DEF Waits
  <2> QED BY <2>1 DEF RunnableOK
<1> QED
  BY <1>9, <1>10, <1>11, <1>12, <1>13, <1>14, <1>15, <1>17, <1>18, <1>19 DEF TasksOK

-----------------------------------------------------------------------------
(* The application never changes, and under a plain one the conditions     *)
(* above hold in every state.                                              *)
LEMMA TasksAlwaysOK == Spec => [](Plain => TasksOK)
<1>1. Init => (Plain => TasksOK)
  BY TasksStart
<1>2. (Plain => TasksOK) /\ [Next]_vars => (Plain => TasksOK)'
  <2> SUFFICES ASSUME Plain => TasksOK, [Next]_vars, Plain'
               PROVE  TasksOK'
    OBVIOUS
  <2>1. app' = app
    BY DEF Next, vars, Scheduler, TaskManagement, TaskDeletion, Semaphores, Mailboxes, Queues,
           SeveralEvents, EventFlags, Mutexes, Memory
  <2>2. Plain
    BY <2>1 DEF Plain
  <2> QED BY <2>2, TasksKeep
<1> QED BY <1>1, <1>2, PTL DEF Spec

(* The table of priorities names each task under the priority it has, and  *)
(* every ready priority has a task (OSTCBPrioTbl, os_core.c, os_task.c).   *)
THEOREM TableNamesTasks == Spec => [](Plain => PrioTableNamesTasks)
<1>1. TasksOK => PrioTableNamesTasks
  BY DEF TasksOK, TableOK, ReadyOK, PrioTableNamesTasks
<1> QED BY <1>1, TasksAlwaysOK, PTL

(* Whoever is in an event's list is inside a pend on it, so that nothing   *)
(* is posted to a task that did not ask for it (OSEventTbl, os_core.c).    *)
THEOREM WaitersPend == Spec => [](Plain => NoGhostWaiter)
<1>1. ASSUME TasksOK, NEW e \in Events, NEW p \in Waiters(e), NEW t, t = OSTCBPrioTbl[p]
      PROVE  /\ t \in OSTCBList /\ tcb[t].prio = p
             /\ pc[t] \in {"pend", "wake"} /\ e \in local[t].events
  <2>1. t \in OSTCBList /\ Pending(t) /\ e \in local[t].events
    BY <1>1 DEF TasksOK, ListsOK
  <2>2. p \in Prios /\ t \in Tasks
    BY <1>1, <2>1 DEF TasksOK, EventsTyped, TypesOK, Waiters
  <2> QED BY <1>1, <2>1, <2>2 DEF TasksOK, TableOK, Pending
<1>2. TasksOK => NoGhostWaiter
  BY <1>1 DEF NoGhostWaiter
<1> QED BY <1>2, TasksAlwaysOK, PTL

(* With the scheduler unlocked and no schedule owed, a task at its own     *)
(* code is the most important one that is ready (OS_Sched, OSIntExit).     *)
THEOREM HighestRuns == Spec => [](Plain => HighestReadyRuns)
<1>1. ASSUME TasksOK, ~InISR, ~Locked, ~deferred,
             OSTCBCur # Idle => pc[OSTCBCur] \in {"run", "wake"}
      PROVE  OSTCBCur = OSTCBPrioTbl[Min(OSRdyTbl)]
  <2>1. OSPrioCur \in OSRdyTbl /\ OSPrioCur = Min(OSRdyTbl)
    BY <1>1 DEF TasksOK, SchedOK
  <2>2. CASE OSTCBCur = Idle /\ OSPrioCur = LowestPrio
    BY <2>1, <2>2, <1>1 DEF TasksOK, TableOK
  <2>3. CASE OSTCBCur \in OSTCBList /\ OSPrioCur = tcb[OSTCBCur].prio
    BY <2>1, <2>3, <1>1 DEF TasksOK, TableOK
  <2>4. CASE OSTCBCur \in Tasks \ OSTCBList /\ pc[OSTCBCur] = "sched"
    BY <1>1, <2>4, CoreAssumption
  <2> QED BY <1>1, <2>2, <2>3, <2>4 DEF TasksOK, CurrentOK
<1>2. TasksOK => HighestReadyRuns
  BY <1>1 DEF HighestReadyRuns
<1> QED BY <1>2, TasksAlwaysOK, PTL

(* A node points to the group in whose list it is or was.                  *)
NodesOK == DOMAIN node = Tasks /\ \A t \in Tasks : node[t].grp \subseteq FlagGroups

LEMMA NodesAlwaysOK == Spec => []NodesOK
<1>1. NoNode.grp = {}
  BY DEF NoNode
<1>2. Init => NodesOK
  BY <1>1 DEF Init, OS_FlagInit, NodesOK
<1>3. ASSUME NodesOK, [Next]_vars
      PROVE  NodesOK'
  <2>1. CASE node' = node
    BY <1>3, <2>1 DEF NodesOK
  <2>2. ASSUME NEW t, node' = [node EXCEPT ![t] = NoNode]
        PROVE  NodesOK'
    BY <1>1, <1>3, <2>2 DEF NodesOK
  <2>3. ASSUME NEW g \in FlagGroups, NEW f, NEW type, NEW consume, NEW timeout,
               OS_FlagBlock(g, f, type, consume, timeout)
        PROVE  NodesOK'
    <3>1. PICK n : /\ n = [grp |-> {g}, flags |-> f, type |-> type, consume |-> consume]
                   /\ node' = [node EXCEPT ![OSTCBCur] = n]
      BY <2>3 DEF OS_FlagBlock
    <3>2. n.grp \subseteq FlagGroups
      BY <3>1
    <3> QED BY <1>3, <3>1, <3>2 DEF NodesOK
  <2>4. CASE TaskManagement
    BY <2>1, <2>2, <2>4 DEF TaskManagement, OSTaskCreate, OS_TCBInit, OSTaskDelEnds, OSTaskSuspend,
       OSTaskResume, OSTaskChangePrio, flagVars
  <2>5. CASE EventFlags
    BY <2>1, <2>2, <2>3, <2>5, ZenonT(40)
       DEF EventFlags, OSFlagPost, OSFlagCreate, OSFlagPend, OSFlagAccept,
       OSFlagDel, OSFlagPendEnds
  <2>6. CASE TaskDeletion
    BY <2>1, <2>6 DEF TaskDeletion, OSTaskDel
  <2> QED
    BY <1>3, <2>1, <2>4, <2>5, <2>6 DEF Next, vars, Scheduler, Semaphores, Mailboxes, Queues,
       SeveralEvents, Mutexes, Memory, flagVars
<1> QED BY <1>2, <1>3, PTL DEF Spec

(* A task is in the ready list if and only if it can run: neither          *)
(* suspended nor delayed nor waiting, under every plain application that   *)
(* deletes an event only while nobody else is on the way to one            *)
(* (os_core.c, os_task.c, os_time.c).                                      *)
THEOREM ReadyMeansRunnable ==
  Spec => [](Plain /\ NoSuspendedMulti => RunnableIsReady)
<1>1. ASSUME TasksOK, NodesOK, NEW t \in OSTCBList
      PROVE  StillWaiting(t) <=> Waits(t)
  <2>1. t \in Tasks /\ OSTCBPrioTbl[tcb[t].prio] = t
    BY <1>1 DEF TasksOK, TypesOK, TableOK
  <2>2. Listed(t) => /\ Pending(t)
                     /\ \/ \E e \in local[t].events : tcb[t].prio \in Waiters(e)
                        \/ \E g \in node[t].grp : t \in OSFlagWaitList[g]
                     /\ tcb[t].statPend \in {"OK", "TO"}
    BY <1>1, <2>1 DEF TasksOK, ListsOK, FlagsOK, WaitsOK, Listed, FlagListed
  <2>3. CASE Waits(t)
    BY <2>2, <2>3 DEF Waits, StillWaiting, Pending
  <2>4. CASE StillWaiting(t)
    <3>1. \/ \E e \in local[t].events : tcb[t].prio \in Waiters(e)
          \/ \E g \in node[t].grp : t \in OSFlagWaitList[g]
      BY <2>4 DEF StillWaiting
    <3>2. local[t].events \subseteq Events /\ node[t].grp \subseteq FlagGroups
      BY <1>1, <2>1 DEF TasksOK, TypesOK, Locals, NodesOK
    <3>3. Listed(t)
      BY <3>1, <3>2 DEF Listed, FlagListed
    <3> QED BY <2>2, <2>4, <3>3 DEF StillWaiting, Waits
  <2> QED BY <2>3, <2>4
<1>2. ASSUME TasksOK, NodesOK, NoSuspendedMulti, NEW t \in OSTCBList, ~BeingDeleted(t)
      PROVE  tcb[t].prio \in OSRdyTbl <=>
               "SUSPEND" \notin tcb[t].stat /\ tcb[t].dly = 0 /\ ~StillWaiting(t)
  BY <1>1, <1>2 DEF TasksOK, RunnableOK
<1>3. TasksOK /\ NodesOK /\ NoSuspendedMulti => RunnableIsReady
  BY <1>2 DEF RunnableIsReady
<1> QED BY <1>3, TasksAlwaysOK, NodesAlwaysOK, PTL

-----------------------------------------------------------------------------
(* No application of the theorem consumes flags of one kind, set or        *)
(* cleared, while it waits for the other.                                  *)
Unmixed ==
  \A w, v \in app.waits : w.consume => (SetType(w.type) <=> SetType(v.type))

(* The waits of the nodes are those of the application, and flags are      *)
(* never taken for the mark of a group that does not exist.                *)
Wanted(n) == \E w \in app.waits : n.type = w.type /\ n.consume = w.consume
FlagTypes ==
  /\ OSFlagTbl \in [FlagGroups -> (SUBSET Flags) \cup {Unused}]
  /\ OSTCBFlagsRdy \in [Tasks -> SUBSET Flags]
  /\ node \in [Tasks -> [grp : SUBSET FlagGroups, flags : SUBSET Flags,
                         type : WaitTypes, consume : BOOLEAN]]
  /\ \A t \in Tasks : node[t] = NoNode \/ Wanted(node[t])
FlagsInv == FlagTypes /\ FlagWaitersUnsatisfied

LEMMA GroupIs ==
  ASSUME FlagTypes, NEW g \in FlagGroups
  PROVE  /\ IsGroup(g) => OSFlagTbl[g] \subseteq Flags
         /\ OSFlagTbl[g] \subseteq Flags => IsGroup(g)
<1>1. OSFlagTbl[g] \in SUBSET Flags \/ OSFlagTbl[g] = Unused
  BY DEF FlagTypes
<1>2. ~(Unused \subseteq Flags)
  BY FlagsAssumption DEF Unused
<1> QED BY <1>1, <1>2 DEF IsGroup

LEMMA RdyAreFlags ==
  ASSUME NEW now \in SUBSET Flags, NEW flags \in SUBSET Flags, NEW rdy \in SUBSET Flags, NEW type
  PROVE  FlagsRdy(now, flags, type) \subseteq Flags /\ Consumed(now, rdy, type) \subseteq Flags
BY DEF FlagsRdy, Consumed

(* Flags that are taken away make no wait for set flags come true, and     *)
(* flags that are given none for cleared ones.                             *)
LEMMA ConsumedKeeps ==
  ASSUME NEW now, NEW rdy, NEW type, NEW flags, NEW wanted,
         SetType(type) <=> SetType(wanted), ~Satisfied(now, flags, wanted)
  PROVE  ~Satisfied(Consumed(now, rdy, type), flags, wanted)
<1>1. CASE SetType(type)
  <2>1. Consumed(now, rdy, type) = now \ rdy
    BY <1>1 DEF Consumed
  <2>2. \A x : FlagsRdy(x, flags, wanted) = x \cap flags
    BY <1>1 DEF FlagsRdy
  <2>3. (now \ rdy) \cap flags = flags => now \cap flags = flags
    OBVIOUS
  <2>4. (now \ rdy) \cap flags # {} => now \cap flags # {}
    OBVIOUS
  <2> QED BY <2>1, <2>2, <2>3, <2>4 DEF Satisfied
<1>2. CASE ~SetType(type)
  <2>1. Consumed(now, rdy, type) = now \cup rdy
    BY <1>2 DEF Consumed
  <2>2. \A x : FlagsRdy(x, flags, wanted) = flags \ x
    BY <1>2 DEF FlagsRdy
  <2>3. flags \ (now \cup rdy) = flags => flags \ now = flags
    OBVIOUS
  <2>4. flags \ (now \cup rdy) # {} => flags \ now # {}
    OBVIOUS
  <2> QED BY <2>1, <2>2, <2>3, <2>4 DEF Satisfied
<1> QED BY <1>1, <1>2

(* Consuming, by a task that waited or by one that found what it wanted.   *)
LEMMA ConsumingKeeps ==
  ASSUME Unmixed, FlagsInv, NEW w, Wanted(w), w.consume, NEW rdy \in SUBSET Flags,
         NEW g \in FlagGroups, IsGroup(g), NEW t \in OSFlagWaitList[g], t \in Tasks
  PROVE  /\ Consumed(OSFlagTbl[g], rdy, w.type) \in SUBSET Flags
         /\ ~Satisfied(Consumed(OSFlagTbl[g], rdy, w.type), node[t].flags, node[t].type)
<1>1. node[t].grp = {g} /\ ~Satisfied(OSFlagTbl[g], node[t].flags, node[t].type)
  BY DEF FlagsInv, FlagWaitersUnsatisfied
<1>2. Wanted(node[t])
  BY <1>1 DEF FlagsInv, FlagTypes, NoNode
<1>3. SetType(w.type) <=> SetType(node[t].type)
  BY <1>2 DEF Unmixed, Wanted
<1> QED BY <1>1, <1>3, ConsumedKeeps, GroupIs, RdyAreFlags DEF FlagsInv

LEMMA FlagsStart == Init => FlagsInv
<1> SUFFICES ASSUME Init PROVE FlagsInv
  OBVIOUS
<1>1. NoNode \in [grp : SUBSET FlagGroups, flags : SUBSET Flags,
                  type : WaitTypes, consume : BOOLEAN]
  BY DEF NoNode, WaitTypes
<1>2. FlagTypes
  BY <1>1 DEF Init, OS_FlagInit, FlagTypes
<1> QED BY <1>2 DEF Init, OS_FlagInit, FlagsInv, FlagWaitersUnsatisfied

(* The lists shrink, the groups and the nodes of who stays do not change.  *)
LEMMA FlagsShrink ==
  ASSUME FlagsInv, FlagTypes', OSFlagTbl' = OSFlagTbl,
         \A g \in FlagGroups : /\ OSFlagWaitList'[g] \subseteq OSFlagWaitList[g]
                               /\ \A t \in OSFlagWaitList'[g] : node'[t] = node[t]
  PROVE  FlagsInv'
BY DEF FlagsInv, FlagWaitersUnsatisfied, IsGroup

LEMMA FlagTypesStay ==
  ASSUME FlagsInv, UNCHANGED <<OSFlagTbl, node, OSTCBFlagsRdy, app>>
  PROVE  FlagTypes'
BY DEF FlagsInv, FlagTypes, Wanted

LEMMA FlagsStay ==
  ASSUME FlagsInv, UNCHANGED <<flagVars, app>>
  PROVE  FlagsInv'
BY FlagTypesStay DEF FlagsInv, FlagWaitersUnsatisfied, IsGroup, flagVars

(* A node that goes is in no list.                                         *)
LEMMA NodeGoes ==
  ASSUME FlagsInv, TypesOK, NEW t \in Tasks, \A g \in FlagGroups : t \notin OSFlagWaitList'[g],
         node' = [node EXCEPT ![t] = NoNode], UNCHANGED <<OSFlagTbl, OSTCBFlagsRdy, app>>,
         \A g \in FlagGroups : OSFlagWaitList'[g] \subseteq OSFlagWaitList[g]
  PROVE  FlagsInv'
<1>1. NoNode \in [grp : SUBSET FlagGroups, flags : SUBSET Flags,
                  type : WaitTypes, consume : BOOLEAN]
  BY DEF NoNode, WaitTypes
<1>2. \A u \in Tasks : node'[u] = IF u = t THEN NoNode ELSE node[u]
  BY DEF FlagsInv, FlagTypes
<1>3. FlagTypes'
  BY <1>1, <1>2 DEF FlagsInv, FlagTypes, Wanted
<1>4. \A g \in FlagGroups : \A u \in OSFlagWaitList'[g] : u \in Tasks /\ u # t
  BY DEF TypesOK
<1> QED BY <1>2, <1>3, <1>4, FlagsShrink

LEMMA TasksKeepFlags ==
  ASSUME TasksOK, FlagsInv, TaskManagement \/ TaskDeletion
  PROVE  FlagsInv'
<1>1. ASSUME OS_TCBInit, UNCHANGED app
      PROVE  FlagsInv'
  <2>1. CASE node' = node
    BY <1>1, <2>1, FlagsStay DEF OS_TCBInit, flagVars
  <2>2. ASSUME NEW t \in Tasks \ OSTCBList, node' = [node EXCEPT ![t] = NoNode]
        PROVE  FlagsInv'
    <3>1. UNCHANGED <<OSFlagTbl, OSFlagWaitList, OSTCBFlagsRdy>>
      BY <1>1 DEF OS_TCBInit
    <3>2. \A g \in FlagGroups : t \notin OSFlagWaitList[g]
      BY <2>2 DEF TasksOK, FlagsOK
    <3> QED BY <1>1, <2>2, <3>1, <3>2, NodeGoes DEF TasksOK
  <2> QED BY <1>1, <2>1, <2>2 DEF OS_TCBInit
<1>2. ASSUME NEW p, OSTaskDel(p), UNCHANGED app
      PROVE  FlagsInv'
  <2>1. /\ UNCHANGED <<OSFlagTbl, node, OSTCBFlagsRdy>>
        /\ \A g \in FlagGroups : OSFlagWaitList'[g] \subseteq OSFlagWaitList[g]
    BY <1>2 DEF OSTaskDel, OS_FlagUnlink
  <2> QED BY <1>2, <2>1, FlagTypesStay, FlagsShrink
<1>3. CASE TaskDeletion
  BY <1>2, <1>3 DEF TaskDeletion
<1>4. CASE TaskManagement
  BY <1>1, <1>4, FlagsStay DEF TaskManagement, OSTaskCreate, OSTaskDelEnds, OSTaskSuspend,
     OSTaskResume, OSTaskChangePrio
<1> QED BY <1>3, <1>4

-----------------------------------------------------------------------------
(* Flags of group g are taken by who wants w; the nodes in its list stay.  *)
Consumes(g, w, rdy) ==
  /\ IsGroup(g)
  /\ OSFlagTbl' = [OSFlagTbl EXCEPT ![g] = Consumed(OSFlagTbl[g], rdy, w.type)]

LEMMA ConsumingKeepsAll ==
  ASSUME TypesOK, FlagsInv, Unmixed, NEW w, Wanted(w), w.consume, NEW rdy \in SUBSET Flags,
         NEW g \in FlagGroups, Consumes(g, w, rdy),
         OSFlagWaitList' = OSFlagWaitList,
         \A h \in FlagGroups : \A t \in OSFlagWaitList[h] : node'[t] = node[t]
  PROVE  /\ OSFlagTbl' \in [FlagGroups -> (SUBSET Flags) \cup {Unused}]
         /\ FlagWaitersUnsatisfied'
<1>1. OSFlagTbl \in [FlagGroups -> (SUBSET Flags) \cup {Unused}]
  BY DEF FlagsInv, FlagTypes
<1>2. Consumed(OSFlagTbl[g], rdy, w.type) \in SUBSET Flags
  BY GroupIs, RdyAreFlags DEF FlagsInv, Consumes
<1>3. /\ OSFlagTbl' \in [FlagGroups -> (SUBSET Flags) \cup {Unused}]
      /\ \A h \in FlagGroups :
            OSFlagTbl'[h] = IF h = g THEN Consumed(OSFlagTbl[g], rdy, w.type) ELSE OSFlagTbl[h]
  BY <1>1, <1>2 DEF Consumes
<1>4. IsGroup(g)'
  BY <1>2, <1>3, FlagsAssumption DEF IsGroup, Unused
<1>5. ASSUME NEW h \in FlagGroups, NEW t \in OSFlagWaitList'[h]
      PROVE  /\ IsGroup(h)' /\ node'[t].grp = {h}
             /\ ~Satisfied(OSFlagTbl'[h], node'[t].flags, node'[t].type)
  <2>1. /\ t \in OSFlagWaitList[h] /\ t \in Tasks /\ node'[t] = node[t]
        /\ IsGroup(h) /\ node[t].grp = {h}
        /\ ~Satisfied(OSFlagTbl[h], node[t].flags, node[t].type)
    BY <1>5 DEF TypesOK, FlagsInv, FlagWaitersUnsatisfied
  <2>2. CASE h = g
    <3>1. /\ t \in OSFlagWaitList[g] /\ IsGroup(g)
      BY <2>1, <2>2
    <3>2. ~Satisfied(Consumed(OSFlagTbl[g], rdy, w.type), node[t].flags, node[t].type)
      BY <2>1, <3>1, ConsumingKeeps
    <3> QED BY <1>3, <1>4, <2>1, <2>2, <3>2
  <2>3. CASE h # g
    BY <1>3, <2>1, <2>3 DEF IsGroup
  <2> QED BY <2>2, <2>3
<1> QED BY <1>3, <1>5 DEF FlagWaitersUnsatisfied

LEMMA TakeKeepsFlags ==
  ASSUME TypesOK, FlagsInv, Unmixed, UNCHANGED <<OSFlagWaitList, node, app>>,
         OSTCBFlagsRdy' \in [Tasks -> SUBSET Flags],
         NEW g \in FlagGroups, IsGroup(g), NEW flags \in SUBSET Flags, NEW w \in app.waits,
         TakeFlags(g, flags, w.type, w.consume)
  PROVE  FlagsInv'
<1>1. CASE OSFlagTbl' = OSFlagTbl
  <2>1. FlagTypes'
    BY <1>1 DEF FlagsInv, FlagTypes, Wanted
  <2> QED BY <1>1, <2>1 DEF FlagsInv, FlagWaitersUnsatisfied, IsGroup
<1>2. CASE w.consume
  <2>1. PICK rdy : rdy = FlagsRdy(OSFlagTbl[g], flags, w.type)
    OBVIOUS
  <2>2. rdy \in SUBSET Flags
    BY <2>1, GroupIs, RdyAreFlags DEF FlagsInv
  <2>3. Consumes(g, w, rdy)
    BY <1>2, <2>1 DEF TakeFlags, Consumes
  <2>4. Wanted(w)
    BY DEF Wanted
  <2>5. OSFlagTbl' \in [FlagGroups -> (SUBSET Flags) \cup {Unused}] /\ FlagWaitersUnsatisfied'
    BY <1>2, <2>2, <2>3, <2>4, ConsumingKeepsAll
  <2> QED BY <2>5 DEF FlagsInv, FlagTypes, Wanted
<1> QED BY <1>1, <1>2 DEF TakeFlags

(* A task joins the list of a group that is not as it wants.               *)
LEMMA BlockKeepsFlags ==
  ASSUME TasksOK, FlagsInv, UNCHANGED app, TaskCalls,
         NEW g \in FlagGroups, IsGroup(g), NEW flags \in SUBSET Flags, NEW w \in app.waits,
         w \in [type : WaitTypes, consume : BOOLEAN], NEW timeout,
         ~Satisfied(OSFlagTbl[g], flags, w.type),
         OS_FlagBlock(g, flags, w.type, w.consume, timeout)
  PROVE  FlagsInv'
<1>1. PICK c, n : /\ c = OSTCBCur
                  /\ n = [grp |-> {g}, flags |-> flags, type |-> w.type, consume |-> w.consume]
  OBVIOUS
<1>2. /\ node' = [node EXCEPT ![c] = n]
      /\ OSFlagWaitList' = [OSFlagWaitList EXCEPT ![g] = @ \cup {c}]
      /\ UNCHANGED <<OSFlagTbl, OSTCBFlagsRdy>>
  BY <1>1 DEF OS_FlagBlock
<1>3. n \in [grp : SUBSET FlagGroups, flags : SUBSET Flags, type : WaitTypes, consume : BOOLEAN]
  BY <1>1
<1>4. c \in Tasks /\ pc[c] = "run"
  BY <1>1 DEF TaskCalls, CanCall, TasksOK, TypesOK, CurrentOK
<1>5. \A h \in FlagGroups : c \notin OSFlagWaitList[h]
  BY <1>4 DEF TasksOK, FlagsOK, Pending
<1>6. \A u \in Tasks : node'[u] = IF u = c THEN n ELSE node[u]
  BY <1>2 DEF FlagsInv, FlagTypes
<1>7. Wanted(n)
  BY <1>1 DEF Wanted
<1>8. FlagTypes'
  BY <1>2, <1>3, <1>6, <1>7 DEF FlagsInv, FlagTypes, Wanted
<1>9. ASSUME NEW h \in FlagGroups, NEW t \in OSFlagWaitList'[h]
      PROVE  /\ IsGroup(h)' /\ node'[t].grp = {h}
             /\ ~Satisfied(OSFlagTbl'[h], node'[t].flags, node'[t].type)
  <2>1. CASE h = g /\ t = c
    BY <1>1, <1>2, <1>4, <1>6, <2>1 DEF IsGroup
  <2>2. CASE t \in OSFlagWaitList[h]
    <3>1. t \in Tasks /\ t # c
      BY <1>5, <2>2 DEF TasksOK, TypesOK
    <3> QED BY <1>2, <1>6, <2>2, <3>1 DEF FlagsInv, FlagWaitersUnsatisfied, IsGroup
  <2>3. (h = g /\ t = c) \/ t \in OSFlagWaitList[h]
    BY <1>2, <1>9 DEF TasksOK, TypesOK
  <2> QED BY <2>1, <2>2, <2>3
<1> QED BY <1>8, <1>9 DEF FlagsInv, FlagWaitersUnsatisfied

(* The flags of g change, and the tasks of S leave the lists.              *)
Changes(g, now, S) ==
  /\ OSFlagTbl' = [OSFlagTbl EXCEPT ![g] = now] /\ node' = node
  /\ OSFlagWaitList' = [h \in FlagGroups |-> OSFlagWaitList[h] \ S]

LEMMA PostKeepsFlags ==
  ASSUME FlagsInv, app' = app, OSTCBFlagsRdy' \in [Tasks -> SUBSET Flags],
         NEW g \in FlagGroups, NEW now, NEW S, Changes(g, now, S),
         now \in (SUBSET Flags) \cup {Unused},
         \A t \in OSFlagWaitList[g] \ S :
            now # Unused /\ ~Satisfied(now, node[t].flags, node[t].type)
  PROVE  FlagsInv'
<1>1. FlagTypes'
  BY DEF Changes, FlagsInv, FlagTypes, Wanted
<1>2. /\ \A h \in FlagGroups : OSFlagTbl'[h] = IF h = g THEN now ELSE OSFlagTbl[h]
      /\ \A h \in FlagGroups : OSFlagWaitList'[h] = OSFlagWaitList[h] \ S
      /\ node' = node
  BY DEF Changes, FlagsInv, FlagTypes
<1>3. ASSUME NEW h \in FlagGroups, NEW t \in OSFlagWaitList'[h]
      PROVE  /\ IsGroup(h)' /\ node'[t].grp = {h}
             /\ ~Satisfied(OSFlagTbl'[h], node'[t].flags, node'[t].type)
  <2>1. /\ t \in OSFlagWaitList[h] /\ t \notin S
        /\ IsGroup(h) /\ node[t].grp = {h}
        /\ ~Satisfied(OSFlagTbl[h], node[t].flags, node[t].type)
    BY <1>2, <1>3 DEF FlagsInv, FlagWaitersUnsatisfied
  <2> QED BY <1>2, <2>1 DEF IsGroup
<1> QED BY <1>1, <1>3 DEF FlagsInv, FlagWaitersUnsatisfied

LEMMA FlagPostKeeps ==
  ASSUME TypesOK, FlagsInv, UNCHANGED app, NEW g \in FlagGroups,
         NEW flags \in SUBSET Flags, NEW set, OSFlagPost(g, flags, set)
  PROVE  FlagsInv'
<1>1. PICK now : now = IF set THEN OSFlagTbl[g] \cup flags ELSE OSFlagTbl[g] \ flags
  OBVIOUS
<1>2. PICK rdy : rdy = [t \in Tasks |-> FlagsRdy(now, node[t].flags, node[t].type)]
  OBVIOUS
<1>3. PICK S : S = TasksRdy(g, now)
  OBVIOUS
<1>4. /\ IsGroup(g) /\ OSFlagTbl' = [OSFlagTbl EXCEPT ![g] = now] /\ node' = node
      /\ OSTCBFlagsRdy' = [t \in Tasks |-> IF t \in S THEN rdy[t] ELSE OSTCBFlagsRdy[t]]
      /\ OSFlagWaitList' = [h \in FlagGroups |-> OSFlagWaitList[h] \ S]
  BY <1>1, <1>2, <1>3 DEF OSFlagPost, OS_FlagTaskRdy, OS_FlagUnlink
<1>5. now \in SUBSET Flags
  BY <1>1, <1>4, GroupIs DEF FlagsInv
<1>6. OSTCBFlagsRdy' \in [Tasks -> SUBSET Flags]
  <2>1. ASSUME NEW t \in Tasks PROVE rdy[t] \in SUBSET Flags
    <3>1. node[t].flags \in SUBSET Flags
      BY DEF FlagsInv, FlagTypes
    <3>2. rdy[t] = FlagsRdy(now, node[t].flags, node[t].type)
      BY <1>2
    <3> QED BY <1>5, <3>1, <3>2 DEF FlagsRdy
  <2>2. \A t \in Tasks : OSTCBFlagsRdy[t] \in SUBSET Flags
    BY DEF FlagsInv, FlagTypes
  <2> QED BY <1>4, <2>1, <2>2
<1>7. now # Unused
  BY <1>5, FlagsAssumption DEF Unused
<1>8. \A t \in OSFlagWaitList[g] \ S : ~Satisfied(now, node[t].flags, node[t].type)
  BY <1>3 DEF TasksRdy
<1>9. Changes(g, now, S)
  BY <1>4 DEF Changes
<1> QED BY <1>5, <1>6, <1>7, <1>8, <1>9, PostKeepsFlags

LEMMA FlagDelKeeps ==
  ASSUME TypesOK, FlagsInv, UNCHANGED app, NEW g \in FlagGroups, NEW always, OSFlagDel(g, always)
  PROVE  FlagsInv'
<1>1. PICK S, rdy : S = OSFlagWaitList[g] /\ rdy = [t \in Tasks |-> {}]
  OBVIOUS
<1>2. /\ OSFlagTbl' = [OSFlagTbl EXCEPT ![g] = Unused] /\ node' = node
      /\ OSTCBFlagsRdy' = [t \in Tasks |-> IF t \in S THEN rdy[t] ELSE OSTCBFlagsRdy[t]]
      /\ OSFlagWaitList' = [h \in FlagGroups |-> OSFlagWaitList[h] \ S]
  BY <1>1 DEF OSFlagDel, OS_FlagTaskRdy, OS_FlagUnlink
<1>3. OSTCBFlagsRdy' \in [Tasks -> SUBSET Flags]
  BY <1>1, <1>2 DEF FlagsInv, FlagTypes
<1>4. Changes(g, Unused, S)
  BY <1>2 DEF Changes
<1> QED BY <1>1, <1>3, <1>4, PostKeepsFlags

LEMMA FlagCreateKeeps ==
  ASSUME TypesOK, FlagsInv, UNCHANGED app, NEW g \in FlagGroups,
         NEW flags \in SUBSET Flags, OSFlagCreate(g, flags)
  PROVE  FlagsInv'
<1>1. OSFlagWaitList[g] = {}
  BY DEF OSFlagCreate, FlagsInv, FlagWaitersUnsatisfied
<1>2. /\ OSFlagTbl' = [OSFlagTbl EXCEPT ![g] = flags]
      /\ UNCHANGED <<OSFlagWaitList, node, OSTCBFlagsRdy>>
  BY DEF OSFlagCreate
<1>3. OSFlagWaitList' = [h \in FlagGroups |-> OSFlagWaitList[h] \ {}]
  BY <1>2 DEF TypesOK
<1>4. OSTCBFlagsRdy' \in [Tasks -> SUBSET Flags]
  BY <1>2 DEF FlagsInv, FlagTypes
<1>5. Changes(g, flags, {})
  BY <1>2, <1>3 DEF Changes
<1>6. flags # Unused
  BY FlagsAssumption DEF Unused
<1> QED BY <1>1, <1>4, <1>5, <1>6, PostKeepsFlags

(* The task runs again: it is in a list only if it has timed out.          *)
LEMMA FlagWakeKeeps ==
  ASSUME TasksOK, FlagsInv, Unmixed, UNCHANGED app, OSFlagPendEnds
  PROVE  FlagsInv'
<1>1. PICK t : t = OSTCBCur
  OBVIOUS
<1>2. t # Idle /\ pc[t] = "wake" /\ ~InISR
  BY <1>1 DEF OSFlagPendEnds
<1>3. t \in OSTCBList /\ t \in Tasks /\ OSPrioCur = tcb[t].prio
  BY <1>1, <1>2 DEF TasksOK, CurrentOK, TypesOK
<1>4. ~Locked
  BY <1>1, <1>2 DEF TasksOK, LockOK, Pending
<1>5. tcb[t].prio \in OSRdyTbl
  BY <1>1, <1>2, <1>3, <1>4 DEF TasksOK, SchedOK
<1>6. node' = [node EXCEPT ![t] = NoNode] /\ OSTCBFlagsRdy' = OSTCBFlagsRdy
  BY <1>1 DEF OSFlagPendEnds
<1>7. CASE tcb[t].statPend # "OK"
  <2>1. /\ OSFlagTbl' = OSFlagTbl
        /\ OSFlagWaitList' = [h \in FlagGroups |-> OSFlagWaitList[h] \ {t}]
    BY <1>1, <1>7 DEF OSFlagPendEnds, OS_FlagUnlink
  <2> QED BY <1>3, <1>6, <2>1, NodeGoes DEF TasksOK
<1>8. CASE tcb[t].statPend = "OK"
  <2>1. OSFlagWaitList' = OSFlagWaitList
    BY <1>1, <1>8 DEF OSFlagPendEnds
  <2>2. \A g \in FlagGroups : t \notin OSFlagWaitList[g]
    BY <1>3, <1>5, <1>8 DEF TasksOK, RunnableOK, Waits, Listed, FlagListed
  <2>3. PICK n : n = node[t]
    OBVIOUS
  <2>4. OSFlagTbl' = [g \in FlagGroups |->
               IF n.consume /\ g \in n.grp /\ IsGroup(g)
               THEN Consumed(OSFlagTbl[g], OSTCBFlagsRdy[t], n.type) ELSE OSFlagTbl[g]]
    BY <1>1, <1>8, <2>3 DEF OSFlagPendEnds
  <2>5. CASE \A g \in FlagGroups : ~(n.consume /\ g \in n.grp /\ IsGroup(g))
    <3>1. OSFlagTbl' = OSFlagTbl
      BY <2>4, <2>5 DEF FlagsInv, FlagTypes
    <3> QED BY <1>3, <1>6, <2>1, <2>2, <3>1, NodeGoes DEF TasksOK
  <2>6. CASE n.consume
    <3>1. Wanted(n)
      BY <1>3, <2>3, <2>6 DEF FlagsInv, FlagTypes, NoNode
    <3>2. OSTCBFlagsRdy[t] \in SUBSET Flags
      BY <1>3 DEF FlagsInv, FlagTypes
    <3>3. ASSUME NEW h \in FlagGroups, NEW u \in OSFlagWaitList'[h]
          PROVE  /\ IsGroup(h)' /\ node'[u].grp = {h}
                 /\ ~Satisfied(OSFlagTbl'[h], node'[u].flags, node'[u].type)
      <4>1. u \in OSFlagWaitList[h] /\ u \in Tasks /\ u # t
        BY <2>1, <2>2, <3>3 DEF TasksOK, TypesOK
      <4>2. node'[u] = node[u]
        BY <1>6, <4>1 DEF FlagsInv, FlagTypes
      <4>3. /\ IsGroup(h) /\ node[u].grp = {h}
            /\ ~Satisfied(OSFlagTbl[h], node[u].flags, node[u].type)
        BY <4>1 DEF FlagsInv, FlagWaitersUnsatisfied
      <4>4. CASE OSFlagTbl'[h] = OSFlagTbl[h]
        BY <4>2, <4>3, <4>4 DEF IsGroup
      <4>5. CASE OSFlagTbl'[h] = Consumed(OSFlagTbl[h], OSTCBFlagsRdy[t], n.type)
        <5>1. /\ Consumed(OSFlagTbl[h], OSTCBFlagsRdy[t], n.type) \in SUBSET Flags
              /\ ~Satisfied(Consumed(OSFlagTbl[h], OSTCBFlagsRdy[t], n.type),
                            node[u].flags, node[u].type)
          BY <2>6, <3>1, <3>2, <4>1, <4>3, ConsumingKeeps
        <5>2. IsGroup(h)'
          BY <4>5, <5>1, FlagsAssumption DEF IsGroup, Unused
        <5> QED BY <4>2, <4>3, <4>5, <5>1, <5>2
      <4> QED BY <2>4, <4>4, <4>5
    <3>4. FlagWaitersUnsatisfied'
      BY <3>3 DEF FlagWaitersUnsatisfied
    <3>5. \A g \in FlagGroups : IsGroup(g) =>
            Consumed(OSFlagTbl[g], OSTCBFlagsRdy[t], n.type) \in SUBSET Flags
      BY <3>2, GroupIs, RdyAreFlags DEF FlagsInv
    <3>6. OSFlagTbl' \in [FlagGroups -> (SUBSET Flags) \cup {Unused}]
      BY <2>4, <3>5 DEF FlagsInv, FlagTypes
    <3>7. NoNode \in [grp : SUBSET FlagGroups, flags : SUBSET Flags,
                      type : WaitTypes, consume : BOOLEAN]
      BY DEF NoNode, WaitTypes
    <3>8. \A u \in Tasks : node'[u] = IF u = t THEN NoNode ELSE node[u]
      BY <1>6 DEF FlagsInv, FlagTypes
    <3>9. FlagTypes'
      BY <1>6, <3>6, <3>7, <3>8 DEF FlagsInv, FlagTypes, Wanted
    <3> QED BY <3>4, <3>9 DEF FlagsInv
  <2> QED BY <2>5, <2>6
<1> QED BY <1>7, <1>8

LEMMA FlagsKeep ==
  ASSUME TasksOK, FlagsInv, Unmixed, [Next]_vars
  PROVE  FlagsInv'
<1>1. /\ app \in Apps
      /\ app.flagargs \subseteq SUBSET Flags
      /\ app.waits \subseteq [type : WaitTypes, consume : BOOLEAN]
  BY AppsAssumption DEF TasksOK, TypesOK
<1>2. TypesOK
  BY DEF TasksOK
<1>3. ASSUME EventFlags
      PROVE  FlagsInv'
  <2>1. app' = app
    BY <1>3 DEF EventFlags
  <2>2. ASSUME NEW g \in FlagGroups, NEW f \in app.flagargs, NEW set, OSFlagPost(g, f, set)
        PROVE  FlagsInv'
    BY <1>1, <1>2, <2>1, <2>2, FlagPostKeeps
  <2>3. ASSUME NEW g \in FlagGroups, NEW f \in app.flagargs, OSFlagCreate(g, f)
        PROVE  FlagsInv'
    BY <1>1, <1>2, <2>1, <2>3, FlagCreateKeeps
  <2>4. ASSUME NEW g \in FlagGroups, NEW f \in app.flagargs, NEW w \in app.waits,
               OSFlagAccept(g, f, w.type, w.consume)
        PROVE  FlagsInv'
    <3>1. OSTCBFlagsRdy' \in [Tasks -> SUBSET Flags]
      BY <2>4 DEF OSFlagAccept, FlagsInv, FlagTypes
    <3> QED BY <1>1, <1>2, <2>1, <2>4, <3>1, TakeKeepsFlags DEF OSFlagAccept
  <2>5. ASSUME NEW g \in FlagGroups, NEW f \in app.flagargs, NEW w \in app.waits, NEW timeout,
               OSFlagPend(g, f, w.type, w.consume, timeout)
        PROVE  FlagsInv'
    <3>1. IsGroup(g) /\ TaskCalls
      BY <2>5 DEF OSFlagPend, MayPend
    <3>2. CASE /\ TakeFlags(g, f, w.type, w.consume)
               /\ OSTCBFlagsRdy' = [OSTCBFlagsRdy EXCEPT
                    ![OSTCBCur] = FlagsRdy(OSFlagTbl[g], f, w.type)]
               /\ UNCHANGED <<OSFlagWaitList, node>>
      <4>1. FlagsRdy(OSFlagTbl[g], f, w.type) \in SUBSET Flags
        BY <1>1, <3>1, GroupIs, RdyAreFlags DEF FlagsInv
      <4>2. OSTCBFlagsRdy' \in [Tasks -> SUBSET Flags]
        BY <3>2, <4>1 DEF FlagsInv, FlagTypes
      <4> QED BY <1>1, <1>2, <2>1, <3>1, <3>2, <4>2, TakeKeepsFlags
    <3>3. CASE /\ ~Satisfied(OSFlagTbl[g], f, w.type)
               /\ OS_FlagBlock(g, f, w.type, w.consume, timeout)
      BY <1>1, <2>1, <3>1, <3>3, BlockKeepsFlags
    <3> QED BY <2>5, <3>2, <3>3 DEF OSFlagPend
  <2>6. ASSUME NEW g \in FlagGroups, NEW b, OSFlagDel(g, b)
        PROVE  FlagsInv'
    BY <1>2, <2>1, <2>6, FlagDelKeeps
  <2>7. CASE OSFlagPendEnds
    BY <2>1, <2>7, FlagWakeKeeps
  <2> QED BY <1>3, <2>2, <2>3, <2>4, <2>5, <2>6, <2>7 DEF EventFlags
<1>4. CASE UNCHANGED <<flagVars, app>>
  BY <1>4, FlagsStay
<1>5. CASE TaskManagement \/ TaskDeletion
  BY <1>5, TasksKeepFlags
<1> QED
  BY <1>3, <1>4, <1>5 DEF Next, vars, Scheduler, Semaphores, Mailboxes, Queues, SeveralEvents,
     Mutexes, Memory

(* A task is in the list of a group of flags only while the flags are not  *)
(* as it wants them, under every plain application that does not mix the   *)
(* consuming of one kind of flags with waits for the other and that        *)
(* deletes a group only while nobody else is on the way to one             *)
(* (os_flag.c).                                                            *)
THEOREM FlagWaitersWait == Spec => [](Plain /\ Unmixed => FlagWaitersUnsatisfied)
<1>1. Init => (Plain /\ Unmixed => FlagsInv)
  BY FlagsStart
<1>2. ASSUME Plain => TasksOK, Plain /\ Unmixed => FlagsInv, [Next]_vars, Plain', Unmixed'
      PROVE  FlagsInv'
  <2>1. app' = app
    BY <1>2 DEF Next, vars, Scheduler, TaskManagement, TaskDeletion, Semaphores, Mailboxes, Queues,
           SeveralEvents, EventFlags, Mutexes, Memory
  <2>2. Plain /\ Unmixed
    BY <1>2, <2>1 DEF Plain, Unmixed
  <2> QED BY <1>2, <2>2, FlagsKeep
<1>3. (Plain => TasksOK) /\ (Plain /\ Unmixed => FlagsInv) /\ [Next]_vars
        => (Plain /\ Unmixed => FlagsInv)'
  BY <1>2
<1>4. FlagsInv => FlagWaitersUnsatisfied
  BY DEF FlagsInv
<1> QED BY <1>1, <1>3, <1>4, TasksAlwaysOK, PTL DEF Spec

-----------------------------------------------------------------------------
(* The application is picked at the start and never changes.               *)
LEMMA AppStays == [Next]_vars => app' = app
BY DEF Next, vars, Scheduler, TaskManagement, TaskDeletion, Semaphores, Mailboxes, Queues,
       SeveralEvents, EventFlags, Mutexes, Memory
============================================================================
