------------------------- MODULE KernelMutex_proofs -------------------------
(***************************************************************************)
(* Tasks that run at inherited priorities: what KernelTasks_proofs shows   *)
(* of the table, the lists and the scheduler holds for applications of     *)
(* mutexes too, and whoever keeps a more important task waiting runs at    *)
(* the PIP, for any number of tasks, priorities and mutexes.               *)
(***************************************************************************)
EXTENDS KernelTasks_proofs

(* The applications of the theorems on mutexes: their tasks own, wait for  *)
(* and delay, each mutex has a priority of its own above every task's, and *)
(* one that accepts or deletes mutexes has one, and no new one after it,   *)
(* which a task still returning from the old one would be taken to own.    *)
MutexCalls == {"OSMutexPend", "OSMutexPost", "OSMutexAccept", "OSMutexCreate", "OSMutexDel",
               "OSTimeDly"}
MayBeMutex(e) == app.kind[e] \in {"mutex", "unused"}
MutexRules ==
  /\ app.calls \subseteq MutexCalls /\ app.isr \subseteq {"tick"}
  /\ \A e, f \in Events : app.kind[e] = "mutex" /\ app.kind[f] = "mutex" => e = f
  /\ \A e \in Events : app.kind[e] = "mutex" => 0 \in app.pips
  /\ {"OSMutexAccept", "OSMutexDel"} \cap app.calls # {} =>
       \A e, f \in Events : MayBeMutex(e) /\ MayBeMutex(f) => e = f
  /\ ~({"OSMutexCreate", "OSMutexDel"} \subseteq app.calls)
  /\ "OSMutexCreate" \in app.calls =>
       \A p \in 0..LowestPrio - 1 : \A t \in app.tasks :
         app.prioOf[t] <= p => \E u \in app.tasks : app.prioOf[u] = p

-----------------------------------------------------------------------------
OwnPrio(t) == app.prioOf[t]
Owns(t, e) == IsMutex(e) /\ Owner(e) = t
OwnsOne(t) == \E e \in Events : Owns(t, e)

MutexTCBs == [prio : Prios, stat : SUBSET {"MUTEX"}, statPend : {"OK", "TO"}, dly : Nat,
              eventPtr : Events \cup {NoEvent}, multi : {{}}, msg : Msgs \cup {NoMsg}]
MutexPlaces == {"run", "sched", "pend", "wake", "dead"}
MutexLocals == [call : {"none", "mutex"}, events : SUBSET Events,
                task : Tasks \cup {NoTask}, prio : Prios]

(* E is a table of event control blocks, in which only those are mutexes   *)
(* that were ones at the start or unused.                                  *)
MutexBlocks(E) ==
  /\ DOMAIN E = Events
  /\ \A e \in Events : /\ DOMAIN E[e] = EventFields
                       /\ E[e].type \in {"mutex", "unused"} => MayBeMutex(e)

MutexTypes ==
  /\ OSTCBList = app.tasks /\ OSLockNesting = 0 /\ OSIntNesting \in Nat
  /\ OSRdyTbl \subseteq Prios /\ LowestPrio \in OSRdyTbl
  /\ OSTCBPrioTbl \in [Prios -> Tasks \cup {Idle, NoTask, Reserved}]
  /\ tcb \in [Tasks -> MutexTCBs]
  /\ pc \in [Tasks -> MutexPlaces]
  /\ local \in [Tasks -> MutexLocals]

(* The table has every task under its own priority and the one it runs at, *)
(* which is the PIP of a mutex it owns if not its own.                     *)
MutexTable ==
  /\ OSTCBPrioTbl[LowestPrio] = Idle
  /\ \A t \in OSTCBList : OSTCBPrioTbl[OwnPrio(t)] = t /\ OSTCBPrioTbl[tcb[t].prio] = t
  /\ \A t \in OSTCBList : tcb[t].prio = OwnPrio(t) \/ \E e \in Events : Owns(t, e) /\ tcb[t].prio = Pip(e)

(* A mutex's PIP is above every task's own priority and in the table       *)
(* stands for the owner as long as that is raised. The owner is ready; who *)
(* pends on the mutex waits in its list, or owns it.                       *)
MutexHeld(e) ==
  /\ Pip(e) \in Prios /\ \A t \in OSTCBList : Pip(e) < OwnPrio(t)
  /\ OSTCBPrioTbl[Pip(e)] = IF Owned(e) /\ tcb[Owner(e)].prio = Pip(e) THEN Owner(e) ELSE Reserved
  /\ Owned(e) <=> Owner(e) # NoTask
  /\ Owned(e) => /\ Owner(e) \in OSTCBList /\ OwnerPrio(e) = OwnPrio(Owner(e))
                 /\ tcb[Owner(e)].prio \in OSRdyTbl
  /\ ~Owned(e) => Waiters(e) = {}
  /\ \A f \in Events : IsMutex(f) /\ f # e => Pip(e) # Pip(f) /\ (Owned(e) => Owner(e) # Owner(f))
  /\ \A p \in Waiters(e) : p < OwnerPrio(e) => tcb[Owner(e)].prio = Pip(e)
  /\ Owned(e) /\ tcb[Owner(e)].prio = Pip(e) => Waiters(e) # {}
  /\ \A t \in OSTCBList : Pending(t) /\ e \in local[t].events =>
       tcb[t].prio \in Waiters(e) \/ Owner(e) = t
MutexesHeld == \A e \in Events : IsMutex(e) => MutexHeld(e)

(* The one mutex is deleted; whoever pended on it is about to return.      *)
MutexGone == "OSMutexDel" \in app.calls /\ \A e \in Events : ~IsMutex(e)

(* Who is in a mutex's list pends on it alone and owns none; it is not     *)
(* ready unless it has timed out.                                          *)
WaitsFor(t, e) ==
  /\ IsMutex(e) /\ Pending(t) /\ local[t].events = {e} /\ ~OwnsOne(t)
  /\ \/ tcb[t].statPend = "TO" /\ tcb[t].dly = 0
     \/ tcb[t].statPend = "OK" /\ "MUTEX" \in tcb[t].stat /\ tcb[t].prio \notin OSRdyTbl
MutexWaits ==
  /\ \A e \in Events : \A p \in Waiters(e) : \E t \in OSTCBList : tcb[t].prio = p /\ WaitsFor(t, e)
  /\ \A t \in OSTCBList : \A e \in Events : Pending(t) /\ e \in local[t].events =>
       IsMutex(e) \/ MutexGone

InList(t) == /\ Pending(t) /\ tcb[t].statPend = "OK"
             /\ \E e \in local[t].events : tcb[t].prio \in Waiters(e)
MutexReady ==
  /\ \A p \in OSRdyTbl : p # LowestPrio => \E t \in OSTCBList : tcb[t].prio = p
  /\ \A t \in OSTCBList : tcb[t].prio \in OSRdyTbl => tcb[t].dly = 0
  /\ \A t \in OSTCBList : tcb[t].prio \in OSRdyTbl \/ tcb[t].dly > 0 \/ InList(t)

(* A post does not change OSPrioCur: until the next schedule it can be a   *)
(* PIP that nobody runs at any more.                                       *)
StalePrio(t) ==
  /\ OSPrioCur \in Prios /\ OSTCBPrioTbl[OSPrioCur] \notin Tasks \cup {Idle}
  /\ pc[t] = "sched" \/ \A e \in Events : IsMutex(e) /\ Pip(e) = OSPrioCur => Owner(e) \in {t, NoTask}
MutexSched ==
  /\ OSTCBCur \in OSTCBList \cup {Idle}
  /\ OSTCBCur = Idle => OSPrioCur = LowestPrio
  /\ OSTCBCur \in OSTCBList => OSPrioCur = tcb[OSTCBCur].prio \/ StalePrio(OSTCBCur)
  /\ OSTCBCur \in OSTCBList /\ ~InISR /\ pc[OSTCBCur] \in {"run", "wake"} =>
       tcb[OSTCBCur].prio = Min(OSRdyTbl)
  /\ OSTCBCur = Idle /\ ~InISR => Min(OSRdyTbl) = LowestPrio

MutexesLive ==
  /\ MutexTypes /\ MutexTable /\ MutexesHeld /\ MutexWaits /\ MutexReady /\ MutexSched
MutexInv == app \in Apps /\ MutexBlocks(event) /\ MutexesLive

-----------------------------------------------------------------------------
(* The tasks of an application, and their priorities.                      *)
LEMMA AppTasks ==
  ASSUME app \in Apps
  PROVE  /\ app.tasks \subseteq Tasks /\ app.timeouts \subseteq Nat /\ Delays \subseteq Nat
         /\ \A t \in app.tasks : OwnPrio(t) \in Nat /\ OwnPrio(t) < LowestPrio /\ OwnPrio(t) \in Prios
<1>1. /\ app.tasks \subseteq Tasks /\ app.prioOf \in [app.tasks -> 0..LowestPrio - 1]
      /\ app.timeouts \subseteq Timeouts
  BY AppsAssumption
<1>2. Timeouts \subseteq Nat /\ Delays \subseteq Nat
  BY TimeoutsAssumption
<1>3. \A t \in app.tasks : OwnPrio(t) \in 0..LowestPrio - 1
  BY <1>1 DEF OwnPrio
<1>4. \A n \in 0..LowestPrio - 1 : n \in Nat /\ n < LowestPrio /\ n \in Prios
  BY CoreAssumption DEF Prios
<1> QED BY <1>1, <1>2, <1>3, <1>4

(* Priorities tell tasks, PIPs and the idle task apart.                    *)
LEMMA MutexFacts ==
  ASSUME app \in Apps, MutexesLive
  PROVE  /\ OSTCBList \subseteq Tasks
         /\ \A t \in OSTCBList : /\ OwnPrio(t) \in Nat /\ OwnPrio(t) < LowestPrio
                                 /\ OwnPrio(t) \in Prios /\ tcb[t].prio \in Prios
         /\ \A t, u \in OSTCBList : tcb[t].prio = tcb[u].prio => t = u
         /\ \A t, u \in OSTCBList : tcb[t].prio = OwnPrio(u) => t = u
         /\ \A t \in OSTCBList : ~OwnsOne(t) => tcb[t].prio = OwnPrio(t)
         /\ \A t \in OSTCBList : \A e \in Events : IsMutex(e) /\ Owner(e) # t => tcb[t].prio # Pip(e)
         /\ \A e \in Events : IsMutex(e) /\ Owned(e) =>
              tcb[Owner(e)].prio \in {OwnPrio(Owner(e)), Pip(e)}
         /\ \A t \in OSTCBList : tcb[t].prio # LowestPrio
         /\ \A e \in Events : IsMutex(e) /\ OSTCBList # {} => Pip(e) # LowestPrio
<1>1. OSTCBList \subseteq Tasks /\ \A t \in OSTCBList : OwnPrio(t) \in Nat /\ OwnPrio(t) < LowestPrio
        /\ OwnPrio(t) \in Prios /\ tcb[t].prio \in Prios
  <2>1. OSTCBList = app.tasks /\ \A t \in Tasks : tcb[t].prio \in Prios
    BY DEF MutexesLive, MutexTypes, MutexTCBs
  <2> QED BY <2>1, AppTasks
<1>2. /\ \A t, u \in OSTCBList : tcb[t].prio = tcb[u].prio => t = u
      /\ \A t, u \in OSTCBList : tcb[t].prio = OwnPrio(u) => t = u
  BY DEF MutexesLive, MutexTable
<1>3. \A t \in OSTCBList : ~OwnsOne(t) => tcb[t].prio = OwnPrio(t)
  BY DEF MutexesLive, MutexTable, OwnsOne
<1>4. \A e \in Events : IsMutex(e) =>
        /\ Pip(e) \in Nat /\ \A t \in OSTCBList : Pip(e) < OwnPrio(t)
        /\ Owned(e) => Owner(e) \in OSTCBList
        /\ \A f \in Events : IsMutex(f) /\ f # e => Pip(e) # Pip(f) /\ (Owned(e) => Owner(e) # Owner(f))
  BY PriosAreNat DEF MutexesLive, MutexesHeld, MutexHeld
<1>5. ASSUME NEW t \in OSTCBList, NEW e \in Events, IsMutex(e), Owner(e) # t
      PROVE  tcb[t].prio # Pip(e)
  <2>1. CASE tcb[t].prio = OwnPrio(t)
    <3>1. OwnPrio(t) \in Nat /\ Pip(e) \in Nat /\ Pip(e) < OwnPrio(t)
      BY <1>1, <1>4, <1>5
    <3> QED BY <2>1, <3>1
  <2>2. CASE \E f \in Events : Owns(t, f) /\ tcb[t].prio = Pip(f)
    BY <1>4, <1>5, <2>2 DEF Owns
  <2> QED BY <2>1, <2>2 DEF MutexesLive, MutexTable
<1>6. ASSUME NEW e \in Events, IsMutex(e), Owned(e)
      PROVE  tcb[Owner(e)].prio \in {OwnPrio(Owner(e)), Pip(e)}
  BY <1>4, <1>6 DEF MutexesLive, MutexTable, Owns
<1>7. \A t \in OSTCBList : tcb[t].prio # LowestPrio
  BY <1>1, CoreAssumption DEF MutexesLive, MutexTable
<1>8. ASSUME NEW e \in Events, IsMutex(e), NEW t \in OSTCBList PROVE Pip(e) # LowestPrio
  <2>1. OwnPrio(t) \in Nat /\ OwnPrio(t) < LowestPrio /\ Pip(e) \in Nat /\ Pip(e) < OwnPrio(t)
    BY <1>1, <1>4, <1>8
  <2> QED BY <2>1, CoreAssumption
<1> QED BY <1>1, <1>2, <1>3, <1>5, <1>6, <1>7, <1>8

-----------------------------------------------------------------------------
(* A step that changes no priority, no table and no owner; tasks may leave *)
(* lists.                                                                  *)
NoOwnerChanges ==
  /\ OSTCBList' = OSTCBList /\ OSTCBPrioTbl' = OSTCBPrioTbl /\ app' = app
  /\ MutexBlocks(event')
  /\ \A e \in Events : /\ event'[e].type = event[e].type /\ event'[e].cnt = event[e].cnt
                       /\ event'[e].pip = event[e].pip /\ event'[e].ptr = event[e].ptr
                       /\ event'[e].grp \subseteq event[e].grp
  /\ \A t \in OSTCBList : tcb'[t].prio = tcb[t].prio

LEMMA OwnersStay ==
  ASSUME NoOwnerChanges
  PROVE  /\ \A e \in Events : /\ IsMutex(e)' = IsMutex(e) /\ Owner(e)' = Owner(e) /\ Pip(e)' = Pip(e)
                              /\ OwnerPrio(e)' = OwnerPrio(e) /\ Owned(e)' = Owned(e)
                              /\ Waiters(e)' \subseteq Waiters(e)
         /\ \A t : OwnsOne(t)' = OwnsOne(t) /\ OwnPrio(t)' = OwnPrio(t)
         /\ MutexGone => MutexGone'
<1>1. \A e \in Events : /\ IsMutex(e)' = IsMutex(e) /\ Owner(e)' = Owner(e) /\ Pip(e)' = Pip(e)
                        /\ OwnerPrio(e)' = OwnerPrio(e) /\ Owned(e)' = Owned(e)
                        /\ Waiters(e)' \subseteq Waiters(e)
  BY DEF NoOwnerChanges, IsMutex, Owner, Pip, OwnerPrio, Owned, Waiters
<1>2. \A t : OwnsOne(t)' = OwnsOne(t)
  BY <1>1 DEF OwnsOne, Owns
<1>3. \A t : OwnPrio(t)' = OwnPrio(t)
  BY DEF NoOwnerChanges, OwnPrio
<1>4. MutexGone => MutexGone'
  BY <1>1 DEF NoOwnerChanges, MutexGone
<1> QED BY <1>1, <1>2, <1>3, <1>4

LEMMA OwnersStayHeld ==
  ASSUME app \in Apps, MutexesLive, NoOwnerChanges,
         \A e \in Events : IsMutex(e) /\ Owned(e) =>
           /\ tcb[Owner(e)].prio \in OSRdyTbl'
           /\ tcb[Owner(e)].prio = Pip(e) => Waiters(e)' # {},
         \A t \in OSTCBList : \A e \in Events : Pending(t)' /\ e \in local'[t].events =>
           /\ Pending(t) /\ e \in local[t].events
           /\ tcb[t].prio \in Waiters(e) => tcb[t].prio \in Waiters(e)'
  PROVE  MutexTable' /\ MutexesHeld' /\ (\A t \in OSTCBList : \A e \in Events :
           Pending(t)' /\ e \in local'[t].events => IsMutex(e)' \/ MutexGone')
<1>1. /\ \A e \in Events : /\ IsMutex(e)' = IsMutex(e) /\ Owner(e)' = Owner(e) /\ Pip(e)' = Pip(e)
                           /\ OwnerPrio(e)' = OwnerPrio(e) /\ Owned(e)' = Owned(e)
                           /\ Waiters(e)' \subseteq Waiters(e)
      /\ \A t : OwnPrio(t)' = OwnPrio(t)
      /\ OSTCBList' = OSTCBList /\ OSTCBPrioTbl' = OSTCBPrioTbl
      /\ \A t \in OSTCBList : tcb'[t].prio = tcb[t].prio
      /\ MutexGone => MutexGone'
  BY OwnersStay DEF NoOwnerChanges
<1>2. MutexTable'
  BY <1>1 DEF MutexesLive, MutexTable, Owns
<1>3. ASSUME NEW e \in Events, IsMutex(e)
      PROVE  MutexHeld(e)'
  <2>1. MutexHeld(e)
    BY <1>3 DEF MutexesLive, MutexesHeld
  <2>2. Owned(e) => tcb'[Owner(e)].prio = tcb[Owner(e)].prio
    BY <1>1, <2>1 DEF MutexHeld
  <2>3. \A f \in Events : IsMutex(f)' = IsMutex(f) /\ Pip(f)' = Pip(f) /\ Owner(f)' = Owner(f)
    BY <1>1
  <2>4. Waiters(e) # {} => Owned(e)
    BY <2>1 DEF MutexHeld
  <2>5. \A p \in Waiters(e)' : p < OwnerPrio(e)' => tcb'[Owner(e)'].prio = Pip(e)'
    BY <1>1, <2>1, <2>2, <2>4 DEF MutexHeld
  <2>6. \A t \in OSTCBList' : Pending(t)' /\ e \in local'[t].events =>
          tcb'[t].prio \in Waiters(e)' \/ Owner(e)' = t
    BY <1>1, <2>1 DEF MutexHeld
  <2>7. /\ OSTCBPrioTbl'[Pip(e)'] =
             IF Owned(e)' /\ tcb'[Owner(e)'].prio = Pip(e)' THEN Owner(e)' ELSE Reserved
        /\ Pip(e)' \in Prios /\ \A t \in OSTCBList' : Pip(e)' < OwnPrio(t)'
        /\ Owned(e)' <=> Owner(e)' # NoTask
        /\ Owned(e)' => /\ Owner(e)' \in OSTCBList' /\ OwnerPrio(e)' = OwnPrio(Owner(e))'
                        /\ tcb'[Owner(e)'].prio \in OSRdyTbl'
        /\ ~Owned(e)' => Waiters(e)' = {}
        /\ Owned(e)' /\ tcb'[Owner(e)'].prio = Pip(e)' => Waiters(e)' # {}
    BY <1>1, <1>3, <2>1, <2>2 DEF MutexHeld
  <2>8. \A f \in Events : IsMutex(f)' /\ f # e =>
          Pip(e)' # Pip(f)' /\ (Owned(e)' => Owner(e)' # Owner(f)')
    BY <1>1, <2>1, <2>3 DEF MutexHeld
  <2> QED BY <2>5, <2>6, <2>7, <2>8 DEF MutexHeld
<1>4. MutexesHeld'
  BY <1>1, <1>3 DEF MutexesHeld
<1> QED BY <1>1, <1>2, <1>4 DEF MutexesLive, MutexWaits

LEMMA StaysInList ==
  ASSUME MutexTypes, NEW t \in Tasks, InList(t), tcb'[t].prio = tcb[t].prio, tcb'[t].statPend = tcb[t].statPend,
         Pending(t)' = Pending(t), local'[t] = local[t],
         \A e \in Events : e \in local[t].events /\ tcb[t].prio \in Waiters(e) => tcb[t].prio \in Waiters(e)'
  PROVE  InList(t)'
<1>1. local[t].events \subseteq Events
  BY DEF MutexTypes, MutexLocals
<1> QED BY <1>1 DEF InList

(* The scheduler.                                                          *)
LEMMA MutexSwitchKeeps ==
  ASSUME app \in Apps, MutexBlocks(event), MutexesLive,
         UNCHANGED <<listVars, waitVars, local, app, OSLockNesting>>,
         OSIntNesting' \in Nat, pc' \in [Tasks -> MutexPlaces],
         \A t \in Tasks : Pending(t)' = Pending(t),
         MutexSched'
  PROVE  MutexesLive' /\ MutexBlocks(event')
<1>1. /\ OSTCBList' = OSTCBList /\ OSTCBPrioTbl' = OSTCBPrioTbl /\ OSLockNesting' = OSLockNesting
      /\ OSRdyTbl' = OSRdyTbl /\ tcb' = tcb /\ local' = local /\ app' = app /\ event' = event
  BY DEF waitVars, listVars
<1>2. MutexBlocks(event')
  BY <1>1 DEF MutexBlocks, MayBeMutex
<1>3. NoOwnerChanges
  BY <1>1, <1>2 DEF NoOwnerChanges
<1>4. OSTCBList \subseteq Tasks
  BY MutexFacts
<1>5. MutexTypes'
  BY <1>1 DEF MutexesLive, MutexTypes
<1>6. MutexTable' /\ MutexesHeld'
  <2>1. \A e \in Events : Waiters(e)' = Waiters(e)
    BY <1>1 DEF Waiters
  <2>2. \A e \in Events : IsMutex(e) /\ Owned(e) =>
          /\ tcb[Owner(e)].prio \in OSRdyTbl'
          /\ tcb[Owner(e)].prio = Pip(e) => Waiters(e)' # {}
    BY <1>1, <2>1 DEF MutexesLive, MutexesHeld, MutexHeld
  <2> QED BY <1>1, <1>3, <1>4, <2>1, <2>2, OwnersStayHeld
<1>7. MutexWaits'
  BY <1>1, <1>3, <1>4, OwnersStay DEF MutexesLive, MutexWaits, WaitsFor, Waiters
<1>8. MutexReady'
  <2>1. \A e \in Events : Waiters(e)' = Waiters(e)
    BY <1>1 DEF Waiters
  <2>2. \A t \in OSTCBList : InList(t) => InList(t)'
    BY <1>1, <1>4, <2>1, StaysInList DEF MutexesLive
  <2> QED BY <1>1, <2>2 DEF MutexesLive, MutexReady
<1> QED BY <1>2, <1>5, <1>6, <1>7, <1>8 DEF MutexesLive

LEMMA MutexSchedNew ==
  ASSUME app \in Apps, MutexesLive, OS_SchedNew
  PROVE  /\ OSTCBCur' \in OSTCBList \cup {Idle} /\ OSPrioCur' = Min(OSRdyTbl)
         /\ OSTCBCur' = Idle => OSPrioCur' = LowestPrio
         /\ OSTCBCur' \in OSTCBList => OSPrioCur' = tcb[OSTCBCur'].prio
<1>1. /\ Min(OSRdyTbl) \in OSRdyTbl /\ OSRdyTbl \subseteq Prios /\ LowestPrio \in OSRdyTbl
  BY HighestIsReady DEF MutexesLive, MutexTypes
<1>2. PICK p : p = Min(OSRdyTbl)
  OBVIOUS
<1>3. \/ p = LowestPrio /\ OSTCBPrioTbl[p] = Idle
      \/ \E t \in OSTCBList : tcb[t].prio = p /\ OSTCBPrioTbl[p] = t
  BY <1>1, <1>2 DEF MutexesLive, MutexReady, MutexTable
<1>4. OSTCBList \subseteq Tasks /\ Idle \notin OSTCBList /\ \A t \in OSTCBList : tcb[t].prio # LowestPrio
  BY MutexFacts, CoreAssumption
<1>5. CASE p # OSPrioCur
  <2>1. OSTCBCur' = OSTCBPrioTbl[p] /\ OSPrioCur' = p
    BY <1>2, <1>5 DEF OS_SchedNew, OSPrioHighRdy
  <2> QED BY <1>1, <1>2, <1>3, <1>4, <2>1
<1>6. CASE p = OSPrioCur
  <2>1. OSTCBCur' = OSTCBCur /\ OSPrioCur' = p
    BY <1>2, <1>6 DEF OS_SchedNew, OSPrioHighRdy
  <2>2. OSTCBPrioTbl[p] \in Tasks \cup {Idle}
    BY <1>3, <1>4
  <2>3. OSTCBCur \in OSTCBList => OSPrioCur = tcb[OSTCBCur].prio
    BY <1>6, <2>2 DEF MutexesLive, MutexSched, StalePrio
  <2> QED BY <1>1, <1>2, <1>6, <2>1, <2>3 DEF MutexesLive, MutexSched
<1> QED BY <1>5, <1>6

LEMMA MutexOS_Sched ==
  ASSUME app \in Apps, MutexBlocks(event), MutexesLive, OS_Sched, app' = app
  PROVE  MutexesLive' /\ MutexBlocks(event')
<1>1. /\ ~Locked /\ OSTCBCur \in OSTCBList /\ OSTCBCur \in Tasks /\ Idle \notin OSTCBList
      /\ pc \in [Tasks -> MutexPlaces] /\ OSIntNesting \in Nat
  BY MutexFacts, CoreAssumption DEF MutexesLive, MutexTypes, MutexSched, Locked, OS_Sched
<1>2. /\ UNCHANGED <<listVars, waitVars, local, app, OSLockNesting, OSIntNesting>>
      /\ OSRdyTbl' = OSRdyTbl /\ tcb' = tcb /\ OSTCBList' = OSTCBList
      /\ pc' = [pc EXCEPT ![OSTCBCur] = IF pc[OSTCBCur] = "sched" THEN "run" ELSE "wake"]
      /\ pc[OSTCBCur] \in {"sched", "pend"} /\ OS_SchedNew
  BY <1>1 DEF OS_Sched, listVars, waitVars
<1>3. pc' \in [Tasks -> MutexPlaces] /\ \A t \in Tasks : Pending(t)' = Pending(t)
  BY <1>1, <1>2 DEF MutexPlaces, Pending
<1>4. MutexSched'
  BY <1>2, MutexSchedNew DEF MutexSched
<1> QED BY <1>1, <1>2, <1>3, <1>4, MutexSwitchKeeps

LEMMA MutexInterrupt ==
  ASSUME app \in Apps, MutexBlocks(event), MutexesLive, OSIntEnter \/ OSIntExit, app' = app
  PROVE  MutexesLive' /\ MutexBlocks(event')
<1>1. ~Locked /\ pc \in [Tasks -> MutexPlaces] /\ OSIntNesting \in Nat /\ OSLockNesting = 0
  BY DEF MutexesLive, MutexTypes, Locked
<1>2. /\ UNCHANGED <<listVars, waitVars, local, app, OSLockNesting>> /\ pc' = pc
      /\ OSRdyTbl' = OSRdyTbl /\ tcb' = tcb /\ OSTCBList' = OSTCBList
      /\ OSTCBPrioTbl' = OSTCBPrioTbl /\ event' = event
  BY DEF OSIntEnter, OSIntExit, listVars, waitVars, callVars
<1>3. OSIntNesting' \in Nat
  BY <1>1 DEF OSIntEnter, OSIntExit, InISR
<1>4. \A t \in Tasks : Pending(t)' = Pending(t)
  BY <1>2 DEF Pending
<1>5. CASE UNCHANGED runVars /\ InISR'
  <2>1. OSTCBCur' = OSTCBCur /\ OSPrioCur' = OSPrioCur
    BY <1>5 DEF runVars
  <2>2. MutexSched'
    BY <1>2, <1>5, <2>1 DEF MutexesLive, MutexSched, StalePrio, IsMutex, Owner, Pip
  <2> QED BY <1>1, <1>2, <1>3, <1>4, <2>2, MutexSwitchKeeps
<1>6. CASE OS_SchedNew
  <2>1. MutexSched'
    BY <1>2, <1>6, MutexSchedNew DEF MutexSched
  <2> QED BY <1>1, <1>2, <1>3, <1>4, <2>1, MutexSwitchKeeps
<1> QED
  <2>1. OSIntEnter => UNCHANGED runVars /\ InISR'
    BY <1>1 DEF OSIntEnter, InISR
  <2>2. OSIntExit => OS_SchedNew \/ (UNCHANGED runVars /\ InISR')
    BY <1>1, <1>3 DEF OSIntExit, InISR, Locked
  <2> QED BY <1>5, <1>6, <2>1, <2>2

-----------------------------------------------------------------------------
(* The running task, in its own code or at the end of a pend.              *)
LEMMA MutexCaller ==
  ASSUME app \in Apps, MutexesLive, ~InISR, OSTCBCur # Idle, pc[OSTCBCur] \in {"run", "wake"}
  PROVE  /\ OSTCBCur \in OSTCBList /\ OSTCBCur \in Tasks
         /\ tcb[OSTCBCur].prio = Min(OSRdyTbl) /\ (\A p \in OSRdyTbl : Min(OSRdyTbl) <= p)
         /\ tcb[OSTCBCur].prio \in OSRdyTbl /\ tcb[OSTCBCur].dly = 0
         /\ pc[OSTCBCur] = "run" => ~Pending(OSTCBCur)
<1>1. OSRdyTbl \subseteq Prios /\ LowestPrio \in OSRdyTbl
  BY DEF MutexesLive, MutexTypes
<1>2. Min(OSRdyTbl) \in OSRdyTbl /\ \A p \in OSRdyTbl : Min(OSRdyTbl) <= p
  BY <1>1, HighestIsReady
<1>3. OSTCBCur \in OSTCBList /\ OSTCBCur \in Tasks /\ tcb[OSTCBCur].prio = Min(OSRdyTbl)
  BY MutexFacts DEF MutexesLive, MutexSched
<1> QED BY <1>2, <1>3 DEF MutexesLive, MutexReady, Pending

LEMMA MutexTimeDly ==
  ASSUME app \in Apps, MutexBlocks(event), MutexesLive, NEW ticks \in Nat, OSTimeDly(ticks), OwnsNone,
         app' = app
  PROVE  MutexesLive' /\ MutexBlocks(event')
<1>1. PICK c : c = OSTCBCur
  OBVIOUS
<1>2. /\ ~InISR /\ c # Idle /\ pc[c] = "run" /\ c \in OSTCBList /\ c \in Tasks /\ ~Pending(c)
      /\ OSTCBList \subseteq Tasks
  BY <1>1, MutexCaller, MutexFacts DEF OSTimeDly, TaskCalls, CanCall
<1>3. /\ OSTCBList' = OSTCBList /\ OSTCBPrioTbl' = OSTCBPrioTbl /\ local' = local /\ event' = event
      /\ OSTCBCur' = OSTCBCur /\ OSPrioCur' = OSPrioCur /\ OSIntNesting' = OSIntNesting
      /\ OSLockNesting' = OSLockNesting
      /\ OSRdyTbl' = OSRdyTbl \ {tcb[c].prio}
      /\ tcb' = [tcb EXCEPT ![c].dly = ticks] /\ pc' = [pc EXCEPT ![c] = "sched"]
  BY <1>1, <1>2 DEF OSTimeDly, CallSched, schedVars, runVars, listVars
<1>4. /\ tcb \in [Tasks -> MutexTCBs] /\ pc \in [Tasks -> MutexPlaces] /\ local \in [Tasks -> MutexLocals]
  BY DEF MutexesLive, MutexTypes
<1>5. /\ tcb' \in [Tasks -> MutexTCBs] /\ \A t \in Tasks : tcb'[t].prio = tcb[t].prio
      /\ \A t \in Tasks : t # c => tcb'[t] = tcb[t]
  BY <1>2, <1>3, <1>4 DEF MutexTCBs
<1>6. /\ pc' \in [Tasks -> MutexPlaces] /\ pc'[c] = "sched" /\ \A t \in Tasks : t # c => pc'[t] = pc[t]
  BY <1>2, <1>3, <1>4 DEF MutexPlaces
<1>7. \A t \in Tasks : Pending(t)' = Pending(t)
  BY <1>2, <1>6 DEF Pending
<1>8. MutexBlocks(event') /\ NoOwnerChanges
  BY <1>2, <1>3, <1>5 DEF MutexBlocks, MayBeMutex, NoOwnerChanges
<1>9. ~OwnsOne(c) /\ \A t \in OSTCBList : t # c => tcb[t].prio # tcb[c].prio
  BY <1>1, <1>2, MutexFacts DEF OwnsNone, OwnsOne, Owns
<1>10. MutexTypes'
  <2>1. tcb[c].prio # LowestPrio
    BY <1>2, MutexFacts
  <2> QED BY <1>3, <1>5, <1>6, <2>1 DEF MutexesLive, MutexTypes
<1>11. MutexTable' /\ MutexesHeld' /\ (\A t \in OSTCBList : \A e \in Events :
           Pending(t)' /\ e \in local'[t].events => IsMutex(e)' \/ MutexGone')
  <2>1. \A e \in Events : Waiters(e)' = Waiters(e)
    BY <1>3 DEF Waiters
  <2>2. \A e \in Events : IsMutex(e) /\ Owned(e) =>
          /\ tcb[Owner(e)].prio \in OSRdyTbl'
          /\ tcb[Owner(e)].prio = Pip(e) => Waiters(e)' # {}
    BY <1>3, <1>9, <2>1 DEF MutexesLive, MutexesHeld, MutexHeld, OwnsOne, Owns
  <2> QED BY <1>2, <1>3, <1>7, <1>8, <2>1, <2>2, OwnersStayHeld
<1>12. MutexWaits'
  <2>1. ASSUME NEW e \in Events, NEW p \in Waiters(e)'
        PROVE  \E t \in OSTCBList' : tcb'[t].prio = p /\ WaitsFor(t, e)'
    <3>1. PICK t \in OSTCBList : tcb[t].prio = p /\ WaitsFor(t, e)
      BY <1>3, <2>1 DEF MutexesLive, MutexWaits, Waiters
    <3>2. t # c /\ t \in Tasks /\ tcb'[t] = tcb[t] /\ Pending(t)' = Pending(t)
      BY <1>2, <1>5, <1>7, <3>1 DEF WaitsFor
    <3>3. IsMutex(e)' = IsMutex(e) /\ OwnsOne(t)' = OwnsOne(t)
      BY <1>8, OwnersStay
    <3>4. tcb'[t].prio = p /\ WaitsFor(t, e)'
      <4>1. local'[t] = local[t] /\ (tcb[t].prio \notin OSRdyTbl => tcb[t].prio \notin OSRdyTbl')
        BY <1>3
      <4> QED BY <3>1, <3>2, <3>3, <4>1 DEF WaitsFor
    <3>5. t \in OSTCBList'
      BY <1>3
    <3> QED BY <3>4, <3>5
  <2> QED BY <1>3, <1>11, <2>1 DEF MutexWaits
<1>13. MutexReady'
  <2>1. \A e \in Events : Waiters(e)' = Waiters(e)
    BY <1>3 DEF Waiters
  <2>2. \A t \in OSTCBList : InList(t) /\ t # c => InList(t)'
    BY <1>2, <1>3, <1>5, <1>7, <2>1, StaysInList DEF MutexesLive
  <2>3. tcb'[c].dly > 0 /\ tcb'[c].prio \notin OSRdyTbl'
    <3>1. ticks > 0
      BY DEF OSTimeDly
    <3>2. tcb'[c].dly = ticks
      BY <1>2, <1>3, <1>4 DEF MutexTCBs
    <3>3. tcb'[c].prio = tcb[c].prio /\ OSRdyTbl' = OSRdyTbl \ {tcb[c].prio}
      BY <1>2, <1>3, <1>5
    <3> QED BY <3>1, <3>2, <3>3
  <2>4. ASSUME NEW t \in OSTCBList PROVE tcb'[t].prio \in OSRdyTbl' \/ tcb'[t].dly > 0 \/ InList(t)'
    <3>1. CASE t = c
      BY <2>3, <3>1
    <3>2. CASE t # c
      <4>1. tcb'[t] = tcb[t] /\ (tcb[t].prio \in OSRdyTbl => tcb[t].prio \in OSRdyTbl')
        BY <1>2, <1>3, <1>5, <1>9, <3>2
      <4> QED BY <2>2, <3>2, <4>1 DEF MutexesLive, MutexReady
    <3> QED BY <3>1, <3>2
  <2>5. /\ \A p \in OSRdyTbl' : p # LowestPrio => \E t \in OSTCBList : tcb'[t].prio = p
        /\ \A t \in OSTCBList : tcb'[t].prio \in OSRdyTbl' => tcb'[t].dly = 0
    BY <1>2, <1>3, <1>5, <2>3 DEF MutexesLive, MutexReady
  <2> QED BY <1>3, <2>4, <2>5 DEF MutexReady
<1>14. MutexSched'
  <2>1. StalePrio(c) => StalePrio(c)'
    BY <1>3, <1>6 DEF StalePrio
  <2> QED BY <1>1, <1>2, <1>3, <1>5, <1>6, <2>1, CoreAssumption DEF MutexesLive, MutexSched
<1> QED BY <1>8, <1>10, <1>11, <1>12, <1>13, <1>14 DEF MutexesLive

(* What the tick makes of a control block.                                 *)
LEMMA MutexExpired ==
  ASSUME NEW t \in Tasks, tcb \in [Tasks -> MutexTCBs]
  PROVE  /\ Expired(t) \in MutexTCBs /\ Expired(t).prio = tcb[t].prio /\ Expired(t).dly = 0
         /\ "MUTEX" \in tcb[t].stat => Expired(t).statPend = "TO"
<1>1. tcb[t] \in MutexTCBs
  OBVIOUS
<1>2. "MUTEX" \in PendBits
  BY DEF PendBits
<1> QED BY <1>1, <1>2 DEF Expired, MutexTCBs

LEMMA MutexTick ==
  ASSUME app \in Apps, MutexBlocks(event), MutexesLive, OSTimeTick, app' = app
  PROVE  MutexesLive' /\ MutexBlocks(event')
<1>1. PICK X : X = {t \in OSTCBList : tcb[t].dly = 1}
  OBVIOUS
<1>2. /\ OSTCBList' = OSTCBList /\ OSTCBPrioTbl' = OSTCBPrioTbl /\ local' = local /\ event' = event
      /\ OSTCBCur' = OSTCBCur /\ OSPrioCur' = OSPrioCur /\ OSIntNesting' = OSIntNesting
      /\ OSLockNesting' = OSLockNesting /\ pc' = pc
      /\ OSRdyTbl' = OSRdyTbl \cup Readied(X)
      /\ tcb' = [t \in Tasks |-> IF t \in X THEN Expired(t)
                                 ELSE IF t \in OSTCBList /\ tcb[t].dly > 0
                                 THEN [tcb[t] EXCEPT !.dly = tcb[t].dly - 1] ELSE tcb[t]]
  BY <1>1 DEF OSTimeTick, schedVars, runVars, listVars, callVars
<1>3. /\ tcb \in [Tasks -> MutexTCBs] /\ pc \in [Tasks -> MutexPlaces] /\ local \in [Tasks -> MutexLocals]
      /\ OSTCBList \subseteq Tasks
  BY MutexFacts DEF MutexesLive, MutexTypes
<1>4. ASSUME NEW t \in Tasks
      PROVE  /\ tcb'[t] \in MutexTCBs /\ tcb'[t].prio = tcb[t].prio
             /\ tcb[t].dly = 0 => tcb'[t] = tcb[t]
             /\ t \in X => tcb'[t] = Expired(t)
             /\ t \notin X => tcb'[t].stat = tcb[t].stat /\ tcb'[t].statPend = tcb[t].statPend
  <2>1. tcb[t] \in MutexTCBs
    BY <1>3
  <2>2. CASE t \in X
    <3>1. tcb'[t] = Expired(t) /\ tcb[t].dly = 1
      BY <1>1, <1>2, <2>2
    <3> QED BY <1>3, <2>2, <3>1, MutexExpired
  <2>3. CASE t \notin X /\ t \in OSTCBList /\ tcb[t].dly > 0
    <3>1. tcb'[t] = [tcb[t] EXCEPT !.dly = tcb[t].dly - 1]
      BY <1>2, <2>3
    <3>2. tcb[t].dly \in Nat /\ tcb[t].dly # 0 /\ tcb[t].dly - 1 \in Nat
      BY <2>1, <2>3 DEF MutexTCBs
    <3> QED BY <2>1, <2>3, <3>1, <3>2 DEF MutexTCBs
  <2>4. CASE t \notin X /\ ~(t \in OSTCBList /\ tcb[t].dly > 0)
    <3>1. tcb'[t] = tcb[t]
      BY <1>2, <2>4
    <3> QED BY <2>1, <2>4, <3>1
  <2> QED BY <2>2, <2>3, <2>4
<1>5. /\ \A t \in X : t \in OSTCBList /\ t \in Tasks /\ tcb[t].dly = 1
      /\ \A t \in OSTCBList : tcb[t].prio \in OSRdyTbl' => tcb[t].prio \in OSRdyTbl \/ t \in X
      /\ \A p \in OSRdyTbl' : p \in OSRdyTbl \/ \E t \in OSTCBList : tcb[t].prio = p
  <2>1. \A t \in X : t \in OSTCBList /\ t \in Tasks /\ tcb[t].dly = 1
    BY <1>1, <1>3
  <2>2. \A p \in OSRdyTbl' : p \in OSRdyTbl \/ \E t \in X : tcb[t].prio = p
    BY <1>2 DEF Readied
  <2> QED BY <2>1, <2>2, MutexFacts
<1>6. \A t \in Tasks : Pending(t)' = Pending(t)
  BY <1>2 DEF Pending
<1>7. MutexBlocks(event') /\ NoOwnerChanges
  BY <1>2, <1>3, <1>4 DEF MutexBlocks, MayBeMutex, NoOwnerChanges
<1>8. MutexTypes'
  <2>1. tcb' \in [Tasks -> MutexTCBs]
    BY <1>2, <1>4
  <2>2. OSRdyTbl' \subseteq Prios
    BY <1>5, MutexFacts DEF MutexesLive, MutexTypes
  <2> QED BY <1>2, <2>1, <2>2 DEF MutexesLive, MutexTypes
<1>9. MutexTable' /\ MutexesHeld' /\ (\A t \in OSTCBList : \A e \in Events :
           Pending(t)' /\ e \in local'[t].events => IsMutex(e)' \/ MutexGone')
  <2>1. \A e \in Events : Waiters(e)' = Waiters(e)
    BY <1>2 DEF Waiters
  <2>2. \A e \in Events : IsMutex(e) /\ Owned(e) =>
          /\ tcb[Owner(e)].prio \in OSRdyTbl'
          /\ tcb[Owner(e)].prio = Pip(e) => Waiters(e)' # {}
    BY <1>2, <2>1 DEF MutexesLive, MutexesHeld, MutexHeld
  <2> QED BY <1>2, <1>3, <1>6, <1>7, <2>1, <2>2, OwnersStayHeld
<1>10. MutexWaits'
  <2>1. ASSUME NEW e \in Events, NEW p \in Waiters(e)'
        PROVE  \E t \in OSTCBList' : tcb'[t].prio = p /\ WaitsFor(t, e)'
    <3>1. PICK t \in OSTCBList : tcb[t].prio = p /\ WaitsFor(t, e)
      BY <1>2, <2>1 DEF MutexesLive, MutexWaits, Waiters
    <3>2. t \in Tasks /\ Pending(t)' = Pending(t) /\ IsMutex(e)' = IsMutex(e) /\ OwnsOne(t)' = OwnsOne(t)
      BY <1>3, <1>6, <1>7, OwnersStay
    <3>3. \/ tcb'[t].statPend = "TO" /\ tcb'[t].dly = 0
          \/ tcb'[t].statPend = "OK" /\ "MUTEX" \in tcb'[t].stat /\ tcb'[t].prio \notin OSRdyTbl'
      <4>1. CASE tcb[t].statPend = "TO" /\ tcb[t].dly = 0
        BY <1>4, <3>2, <4>1
      <4>2. CASE "MUTEX" \in tcb[t].stat /\ t \in X
        BY <1>3, <1>4, <3>2, <4>2, MutexExpired
      <4>3. CASE tcb[t].statPend = "OK" /\ "MUTEX" \in tcb[t].stat /\ tcb[t].prio \notin OSRdyTbl /\ t \notin X
        BY <1>4, <1>5, <3>2, <4>3
      <4> QED BY <3>1, <4>1, <4>2, <4>3 DEF WaitsFor
    <3>4. tcb'[t].prio = p /\ local'[t] = local[t] /\ t \in OSTCBList'
      BY <1>2, <1>4, <3>1, <3>2
    <3>5. WaitsFor(t, e)'
      BY <3>1, <3>2, <3>3, <3>4 DEF WaitsFor
    <3> QED BY <3>4, <3>5
  <2> QED BY <1>2, <1>9, <2>1 DEF MutexWaits
<1>11. MutexReady'
  <2>1. ASSUME NEW p \in OSRdyTbl', p # LowestPrio
        PROVE  \E t \in OSTCBList' : tcb'[t].prio = p
    <3>1. PICK t \in OSTCBList : tcb[t].prio = p
      BY <1>5, <2>1 DEF MutexesLive, MutexReady
    <3>2. tcb'[t].prio = p /\ t \in OSTCBList'
      BY <1>2, <1>3, <1>4, <3>1
    <3> QED BY <3>2
  <2>2. ASSUME NEW t \in OSTCBList, tcb[t].prio \in OSRdyTbl'
        PROVE  tcb'[t].dly = 0
    <3>1. t \in Tasks
      BY <1>3
    <3>2. CASE t \in X
      BY <1>3, <1>4, <3>1, <3>2, MutexExpired
    <3>3. CASE tcb[t].prio \in OSRdyTbl
      BY <1>4, <3>1, <3>3 DEF MutexesLive, MutexReady
    <3> QED BY <1>5, <2>2, <3>2, <3>3
  <2>3. ASSUME NEW t \in OSTCBList PROVE tcb[t].prio \in OSRdyTbl' \/ tcb'[t].dly > 0 \/ InList(t)'
    <3>1. t \in Tasks /\ tcb[t] \in MutexTCBs
      BY <1>3
    <3>2. CASE t \in X
      <4>1. "SUSPEND" \notin tcb[t].stat
        BY <3>1 DEF MutexTCBs
      <4> QED BY <1>2, <3>2, <4>1 DEF Readied
    <3>3. CASE tcb[t].prio \in OSRdyTbl
      BY <1>2, <3>3
    <3>4. CASE t \notin X /\ tcb[t].dly > 0
      <4>1. tcb[t].dly \in Nat /\ tcb[t].dly # 1 /\ tcb'[t] = [tcb[t] EXCEPT !.dly = tcb[t].dly - 1]
        BY <1>1, <1>2, <3>1, <3>4 DEF MutexTCBs
      <4>2. tcb'[t].dly = tcb[t].dly - 1
        BY <3>1, <4>1 DEF MutexTCBs
      <4> QED BY <3>4, <4>1, <4>2
    <3>5. CASE t \notin X /\ InList(t)
      <4>1. \A e \in Events : Waiters(e)' = Waiters(e)
        BY <1>2 DEF Waiters
      <4>2. local'[t] = local[t]
        BY <1>2
      <4>3. InList(t)'
        BY <1>4, <1>6, <3>1, <3>5, <4>1, <4>2, StaysInList DEF MutexesLive
      <4> QED BY <4>3
    <3> QED BY <3>2, <3>3, <3>4, <3>5 DEF MutexesLive, MutexReady
  <2> QED BY <1>2, <1>3, <1>4, <2>1, <2>2, <2>3 DEF MutexReady
<1>12. MutexSched'
  <2>1. StalePrio(OSTCBCur) => StalePrio(OSTCBCur)'
    BY <1>2 DEF StalePrio, IsMutex, Pip, Owner
  <2>2. InISR'
    BY <1>2 DEF OSTimeTick, InISR
  <2>3. OSTCBCur \in OSTCBList => tcb'[OSTCBCur].prio = tcb[OSTCBCur].prio
    BY <1>3, <1>4
  <2> QED BY <1>2, <2>1, <2>2, <2>3 DEF MutexesLive, MutexSched
<1> QED BY <1>7, <1>8, <1>9, <1>10, <1>11, <1>12 DEF MutexesLive

LEMMA MutexWake ==
  ASSUME app \in Apps, MutexBlocks(event), MutexesLive, Wake("mutex"), app' = app
  PROVE  MutexesLive' /\ MutexBlocks(event')
<1>1. PICK c : c = OSTCBCur
  OBVIOUS
<1>2. /\ ~InISR /\ c # Idle /\ pc[c] = "wake" /\ c \in OSTCBList /\ c \in Tasks /\ Pending(c)
      /\ tcb[c].prio \in OSRdyTbl /\ OSTCBList \subseteq Tasks
  BY <1>1, MutexCaller, MutexFacts DEF Wake, Pending
<1>3. /\ OSTCBList' = OSTCBList /\ OSTCBPrioTbl' = OSTCBPrioTbl /\ OSRdyTbl' = OSRdyTbl
      /\ OSTCBCur' = OSTCBCur /\ OSPrioCur' = OSPrioCur /\ OSIntNesting' = OSIntNesting
      /\ OSLockNesting' = OSLockNesting
      /\ IF tcb[c].statPend = "TO" THEN EventTaskRemove(c, local[c].events) ELSE event' = event
      /\ tcb' = [tcb EXCEPT ![c] = [tcb[c] EXCEPT
           !.stat = {}, !.statPend = "OK", !.eventPtr = NoEvent, !.multi = {}, !.msg = tcb[c].msg]]
      /\ pc' = [pc EXCEPT ![c] = "run"] /\ local' = [local EXCEPT ![c] = NoLocal]
  BY <1>1, <1>2 DEF Wake, schedVars, runVars, listVars
<1>4. /\ tcb \in [Tasks -> MutexTCBs] /\ pc \in [Tasks -> MutexPlaces] /\ local \in [Tasks -> MutexLocals]
  BY DEF MutexesLive, MutexTypes
<1>5. /\ tcb' \in [Tasks -> MutexTCBs]
      /\ \A t \in Tasks : tcb'[t].prio = tcb[t].prio /\ tcb'[t].dly = tcb[t].dly
      /\ \A t \in Tasks : t # c => tcb'[t] = tcb[t]
  <2>1. tcb[c] \in MutexTCBs
    BY <1>2, <1>4
  <2>2. PICK r : r = [tcb[c] EXCEPT !.stat = {}, !.statPend = "OK", !.eventPtr = NoEvent, !.multi = {},
                                    !.msg = tcb[c].msg]
    OBVIOUS
  <2>3. r \in MutexTCBs /\ r.prio = tcb[c].prio /\ r.dly = tcb[c].dly
    BY <2>1, <2>2 DEF MutexTCBs
  <2>4. tcb' = [tcb EXCEPT ![c] = r]
    BY <1>3, <2>2
  <2> QED BY <1>2, <1>4, <2>3, <2>4
<1>6. /\ pc' \in [Tasks -> MutexPlaces] /\ pc'[c] = "run" /\ \A t \in Tasks : t # c => pc'[t] = pc[t]
  BY <1>2, <1>3, <1>4 DEF MutexPlaces
<1>7. /\ local' \in [Tasks -> MutexLocals] /\ \A t \in Tasks : t # c => local'[t] = local[t]
  <2>1. NoLocal \in MutexLocals
    BY PriosAreNat DEF NoLocal, MutexLocals
  <2> QED BY <1>2, <1>3, <1>4, <2>1
<1>8. ~Pending(c)' /\ \A t \in Tasks : t # c => Pending(t)' = Pending(t)
  BY <1>6 DEF Pending
<1>9. /\ MutexBlocks(event')
      /\ \A e \in Events : /\ event'[e].type = event[e].type /\ event'[e].cnt = event[e].cnt
                           /\ event'[e].pip = event[e].pip /\ event'[e].ptr = event[e].ptr
                           /\ event'[e].grp \subseteq event[e].grp
                           /\ event[e].grp \subseteq event'[e].grp \cup {tcb[c].prio}
                           /\ tcb[c].statPend = "TO" /\ e \in local[c].events => tcb[c].prio \notin event'[e].grp
  <2>1. CASE tcb[c].statPend = "TO"
    <3>1. event' = [e \in Events |->
            IF e \in local[c].events THEN [event[e] EXCEPT !.grp = event[e].grp \ {tcb[c].prio}] ELSE event[e]]
      BY <1>3, <2>1 DEF EventTaskRemove
    <3>2. \A e \in Events : DOMAIN event[e] = EventFields
      BY DEF MutexBlocks
    <3>3. ASSUME NEW e \in Events
          PROVE  /\ DOMAIN event'[e] = EventFields
                 /\ event'[e].type = event[e].type /\ event'[e].cnt = event[e].cnt
                 /\ event'[e].pip = event[e].pip /\ event'[e].ptr = event[e].ptr
                 /\ event'[e].grp = IF e \in local[c].events THEN event[e].grp \ {tcb[c].prio} ELSE event[e].grp
      BY <3>1, <3>2 DEF EventFields
    <3> QED BY <3>1, <3>3 DEF MutexBlocks, MayBeMutex
  <2>2. CASE tcb[c].statPend # "TO"
    BY <1>3, <2>2 DEF MutexBlocks, MayBeMutex
  <2> QED BY <2>1, <2>2
<1>10. NoOwnerChanges
  BY <1>2, <1>3, <1>5, <1>9 DEF NoOwnerChanges
<1>11. MutexTypes'
  BY <1>3, <1>5, <1>6, <1>7 DEF MutexesLive, MutexTypes
<1>12. \A t \in OSTCBList : t # c => tcb[t].prio # tcb[c].prio
  BY <1>2, MutexFacts
<1>13. MutexTable' /\ MutexesHeld' /\ (\A t \in OSTCBList : \A e \in Events :
           Pending(t)' /\ e \in local'[t].events => IsMutex(e)' \/ MutexGone')
  <2>1. ASSUME NEW e \in Events, IsMutex(e), Owned(e)
        PROVE  /\ tcb[Owner(e)].prio \in OSRdyTbl'
               /\ tcb[Owner(e)].prio = Pip(e) => Waiters(e)' # {}
    <3>1. /\ MutexHeld(e) /\ tcb[Owner(e)].prio \in OSRdyTbl /\ OSRdyTbl' = OSRdyTbl
          /\ tcb[Owner(e)].prio = Pip(e) => Waiters(e) # {}
      BY <1>3, <2>1 DEF MutexesLive, MutexesHeld, MutexHeld
    <3>2. SUFFICES ASSUME tcb[Owner(e)].prio = Pip(e), tcb[c].prio \in Waiters(e) PROVE FALSE
      BY <1>9, <3>1 DEF Waiters
    <3>3. ~OwnsOne(c)
      <4>1. PICK t \in OSTCBList : tcb[t].prio = tcb[c].prio /\ WaitsFor(t, e)
        BY <3>2 DEF MutexesLive, MutexWaits
      <4> QED BY <1>2, <4>1, MutexFacts DEF WaitsFor
    <3>4. tcb[c].prio = OwnPrio(c) /\ OwnPrio(c) \in Nat /\ Pip(e) \in Nat /\ Pip(e) < OwnPrio(c)
      BY <1>2, <3>1, <3>3, MutexFacts, PriosAreNat DEF MutexHeld
    <3>5. tcb[c].prio <= Pip(e)
      BY <1>1, <1>2, <3>1, <3>2, MutexCaller DEF Wake
    <3> QED BY <3>4, <3>5
  <2>2. \A t \in OSTCBList : \A e \in Events : Pending(t)' /\ e \in local'[t].events =>
           /\ Pending(t) /\ e \in local[t].events
           /\ tcb[t].prio \in Waiters(e) => tcb[t].prio \in Waiters(e)'
    BY <1>2, <1>7, <1>8, <1>9, <1>12 DEF Waiters
  <2> QED BY <1>10, <2>1, <2>2, OwnersStayHeld
<1>14. MutexWaits'
  <2>1. ASSUME NEW e \in Events, NEW p \in Waiters(e)'
        PROVE  \E t \in OSTCBList' : tcb'[t].prio = p /\ WaitsFor(t, e)'
    <3>1. PICK t \in OSTCBList : tcb[t].prio = p /\ WaitsFor(t, e)
      BY <1>9, <2>1 DEF MutexesLive, MutexWaits, Waiters
    <3>2. t # c
      <4>1. SUFFICES ASSUME t = c PROVE FALSE
        OBVIOUS
      <4>2. tcb[c].statPend = "TO"
        BY <1>2, <3>1, <4>1 DEF WaitsFor
      <4> QED BY <1>9, <2>1, <3>1, <4>1, <4>2 DEF WaitsFor, Waiters
    <3>3. /\ t \in Tasks /\ tcb'[t] = tcb[t] /\ Pending(t)' = Pending(t) /\ local'[t] = local[t]
          /\ IsMutex(e)' = IsMutex(e) /\ OwnsOne(t)' = OwnsOne(t)
      BY <1>2, <1>5, <1>7, <1>8, <1>10, <3>2, OwnersStay
    <3>4. tcb'[t].prio = p /\ WaitsFor(t, e)'
      <4>1. OSRdyTbl' = OSRdyTbl
        BY <1>3
      <4> QED BY <3>1, <3>3, <4>1 DEF WaitsFor
    <3>5. t \in OSTCBList'
      BY <1>3
    <3> QED BY <3>4, <3>5
  <2> QED BY <1>3, <1>13, <2>1 DEF MutexWaits
<1>15. MutexReady'
  <2>1. \A t \in OSTCBList : \A e \in Events : t # c /\ tcb[t].prio \in Waiters(e) => tcb[t].prio \in Waiters(e)'
    BY <1>9, <1>12 DEF Waiters
  <2>2. \A t \in OSTCBList : InList(t) /\ t # c => InList(t)'
    BY <1>2, <1>5, <1>7, <1>8, <2>1, StaysInList DEF MutexesLive
  <2>3. ASSUME NEW t \in OSTCBList PROVE tcb'[t].prio \in OSRdyTbl' \/ tcb'[t].dly > 0 \/ InList(t)'
    <3>1. tcb'[t].prio = tcb[t].prio /\ tcb'[t].dly = tcb[t].dly /\ OSRdyTbl' = OSRdyTbl
      BY <1>2, <1>3, <1>5
    <3> QED BY <1>2, <2>2, <3>1 DEF MutexesLive, MutexReady
  <2>4. /\ \A p \in OSRdyTbl' : p # LowestPrio => \E t \in OSTCBList : tcb'[t].prio = p
        /\ \A t \in OSTCBList : tcb'[t].prio \in OSRdyTbl' => tcb'[t].dly = 0
    BY <1>2, <1>3, <1>5 DEF MutexesLive, MutexReady
  <2> QED BY <1>3, <2>3, <2>4 DEF MutexReady
<1>16. MutexSched'
  <2>1. StalePrio(c) => StalePrio(c)'
    BY <1>2, <1>3, <1>10, OwnersStay DEF StalePrio
  <2> QED BY <1>1, <1>2, <1>3, <1>5, <2>1, CoreAssumption DEF MutexesLive, MutexSched
<1> QED BY <1>9, <1>11, <1>13, <1>14, <1>15, <1>16 DEF MutexesLive

-----------------------------------------------------------------------------
(* The running task becomes the owner of a free mutex.                     *)
LEMMA MutexAcquire ==
  ASSUME app \in Apps, MutexBlocks(event), MutexesLive, NEW e \in Events, TaskCalls, IsMutex(e),
         Acquire(e), ~OwnsOne(OSTCBCur), app' = app
  PROVE  MutexesLive' /\ MutexBlocks(event')
<1>1. PICK c : c = OSTCBCur
  OBVIOUS
<1>2. /\ ~InISR /\ c # Idle /\ pc[c] = "run" /\ c \in OSTCBList /\ c \in Tasks /\ ~Pending(c)
      /\ OSTCBList \subseteq Tasks /\ tcb[c].prio \in OSRdyTbl /\ tcb[c].prio = OwnPrio(c)
      /\ OwnPrio(c) \in Nat /\ OwnPrio(c) < LowestPrio
  BY <1>1, MutexCaller, MutexFacts DEF TaskCalls, CanCall
<1>3. /\ OSTCBList' = OSTCBList /\ OSTCBPrioTbl' = OSTCBPrioTbl /\ local' = local /\ pc' = pc
      /\ OSTCBCur' = OSTCBCur /\ OSPrioCur' = OSPrioCur /\ OSIntNesting' = OSIntNesting
      /\ OSLockNesting' = OSLockNesting /\ OSRdyTbl' = OSRdyTbl /\ tcb' = tcb
      /\ event' = [event EXCEPT ![e].cnt = tcb[c].prio, ![e].ptr = c]
  BY <1>1 DEF Acquire, schedVars, runVars, listVars, callVars
<1>4. /\ MutexBlocks(event')
      /\ \A f \in Events : f # e => event'[f] = event[f]
      /\ event'[e].type = event[e].type /\ event'[e].pip = event[e].pip /\ event'[e].grp = event[e].grp
      /\ event'[e].cnt = tcb[c].prio /\ event'[e].ptr = c
  <2>1. DOMAIN event = Events /\ \A f \in Events : DOMAIN event[f] = EventFields
    BY DEF MutexBlocks
  <2>2. /\ DOMAIN event' = Events /\ \A f \in Events : f # e => event'[f] = event[f]
        /\ DOMAIN event'[e] = EventFields
        /\ event'[e].type = event[e].type /\ event'[e].pip = event[e].pip /\ event'[e].grp = event[e].grp
        /\ event'[e].cnt = tcb[c].prio /\ event'[e].ptr = c
    BY <1>3, <2>1 DEF EventFields
  <2> QED BY <2>1, <2>2 DEF MutexBlocks, MayBeMutex
<1>5. /\ \A f \in Events : /\ IsMutex(f)' = IsMutex(f) /\ Pip(f)' = Pip(f) /\ Waiters(f)' = Waiters(f)
                           /\ f # e => /\ Owner(f)' = Owner(f) /\ OwnerPrio(f)' = OwnerPrio(f)
                                       /\ Owned(f)' = Owned(f)
      /\ Owner(e)' = c /\ OwnerPrio(e)' = OwnPrio(c) /\ Owned(e)'
  <2>1. OwnPrio(c) # Available255
    BY <1>2, MutexAssumption, CoreAssumption DEF Available255
  <2> QED BY <1>2, <1>4, <2>1 DEF IsMutex, Pip, Waiters, Owner, OwnerPrio, Owned
<1>6. /\ ~Owned(e) /\ Owner(e) = NoTask /\ Waiters(e) = {} /\ NoTask \notin OSTCBList
      /\ MutexHeld(e)
  BY <1>2, CoreAssumption DEF Acquire, MutexesLive, MutexesHeld, MutexHeld
<1>7. /\ \A t \in OSTCBList : t # c => OwnsOne(t)' = OwnsOne(t)
      /\ \A t : OwnPrio(t)' = OwnPrio(t)
      /\ \A f \in Events : IsMutex(f) => Owner(f) # c
      /\ \A t \in Tasks : Pending(t)' = Pending(t)
  <2>1. \A t \in OSTCBList : t # c => OwnsOne(t)' = OwnsOne(t)
    BY <1>5, <1>6 DEF OwnsOne, Owns
  <2> QED BY <1>1, <1>3, <2>1 DEF OwnPrio, OwnsOne, Owns, Pending
<1>8. MutexTypes'
  BY <1>3 DEF MutexesLive, MutexTypes
<1>9. MutexTable'
  <2>1. ASSUME NEW t \in OSTCBList, NEW f \in Events, Owns(t, f), tcb[t].prio = Pip(f)
        PROVE  Owns(t, f)' /\ tcb'[t].prio = Pip(f)'
    BY <1>3, <1>5, <1>6, <2>1 DEF Owns
  <2>2. ASSUME NEW t \in OSTCBList
        PROVE  tcb'[t].prio = OwnPrio(t)' \/ \E f \in Events : Owns(t, f)' /\ tcb'[t].prio = Pip(f)'
    BY <1>3, <1>7, <2>1 DEF MutexesLive, MutexTable
  <2> QED BY <1>3, <1>7, <2>2 DEF MutexesLive, MutexTable
<1>10. MutexesHeld'
  <2>1. MutexHeld(e)'
    <3>1. tcb[c].prio # Pip(e)
      BY <1>2, <1>6, MutexFacts
    <3>2. OSTCBPrioTbl[Pip(e)] = Reserved
      BY <1>6 DEF MutexHeld
    <3>3. \A t \in OSTCBList : ~(Pending(t) /\ e \in local[t].events)
      BY <1>2, <1>6, CoreAssumption DEF MutexHeld
    <3>4. /\ Pip(e)' \in Prios /\ \A t \in OSTCBList' : Pip(e)' < OwnPrio(t)'
          /\ OSTCBPrioTbl'[Pip(e)'] = Reserved /\ tcb'[Owner(e)'].prio # Pip(e)'
          /\ Owned(e)' /\ Owner(e)' # NoTask /\ Owner(e)' \in OSTCBList'
          /\ OwnerPrio(e)' = OwnPrio(c)' /\ tcb'[Owner(e)'].prio \in OSRdyTbl'
          /\ Waiters(e)' = {}
      BY <1>2, <1>3, <1>5, <1>6, <1>7, <3>1, <3>2 DEF MutexHeld
    <3>5. \A f \in Events : IsMutex(f)' /\ f # e => Pip(e)' # Pip(f)' /\ Owner(e)' # Owner(f)'
      BY <1>5, <1>6, <1>7 DEF MutexHeld
    <3>6. \A t \in OSTCBList' : ~(Pending(t)' /\ e \in local'[t].events)
      BY <1>2, <1>3, <1>7, <3>3
    <3>7. OwnPrio(Owner(e))' = OwnPrio(c)'
      BY <1>5 DEF OwnPrio
    <3> QED BY <3>4, <3>5, <3>6, <3>7 DEF MutexHeld
  <2>2. ASSUME NEW f \in Events, IsMutex(f)', f # e
        PROVE  MutexHeld(f)'
    <3>1. /\ IsMutex(f) /\ MutexHeld(f)
          /\ IsMutex(f)' = IsMutex(f) /\ Pip(f)' = Pip(f) /\ Waiters(f)' = Waiters(f)
          /\ Owner(f)' = Owner(f) /\ OwnerPrio(f)' = OwnerPrio(f) /\ Owned(f)' = Owned(f)
      BY <1>5, <2>2 DEF MutexesLive, MutexesHeld
    <3>2. \A g \in Events : IsMutex(g)' /\ g # f => Pip(f)' # Pip(g)' /\ (Owned(f)' => Owner(f)' # Owner(g)')
      BY <1>5, <1>7, <3>1 DEF MutexHeld
    <3>3. OwnPrio(Owner(f))' = OwnPrio(Owner(f))
      BY <3>1 DEF OwnPrio
    <3>4. \A t \in OSTCBList' : Pending(t)' /\ f \in local'[t].events =>
            tcb'[t].prio \in Waiters(f)' \/ Owner(f)' = t
      BY <1>2, <1>3, <1>7, <3>1 DEF MutexHeld
    <3> QED BY <1>3, <1>7, <3>1, <3>2, <3>3, <3>4 DEF MutexHeld
  <2> QED BY <2>1, <2>2 DEF MutexesHeld
<1>11. MutexWaits'
  <2>1. ASSUME NEW f \in Events, NEW p \in Waiters(f)'
        PROVE  \E t \in OSTCBList' : tcb'[t].prio = p /\ WaitsFor(t, f)'
    <3>1. PICK t \in OSTCBList : tcb[t].prio = p /\ WaitsFor(t, f)
      BY <1>5, <2>1 DEF MutexesLive, MutexWaits
    <3>2. t # c /\ t \in Tasks /\ OwnsOne(t)' = OwnsOne(t) /\ Pending(t)' = Pending(t)
      BY <1>2, <1>7, <3>1 DEF WaitsFor
    <3>3. tcb'[t].prio = p /\ WaitsFor(t, f)' /\ t \in OSTCBList'
      BY <1>3, <1>5, <3>1, <3>2 DEF WaitsFor
    <3> QED BY <3>3
  <2>2. \A t \in OSTCBList' : \A f \in Events : Pending(t)' /\ f \in local'[t].events => IsMutex(f)'
    <3>1. ~MutexGone
      BY DEF MutexGone
    <3> QED BY <1>2, <1>3, <1>5, <1>7, <3>1 DEF MutexesLive, MutexWaits
  <2> QED BY <2>1, <2>2 DEF MutexWaits
<1>12. MutexReady'
  <2>1. \A t \in OSTCBList : InList(t) => InList(t)'
    BY <1>2, <1>3, <1>5, <1>7, StaysInList DEF MutexesLive
  <2> QED BY <1>3, <2>1 DEF MutexesLive, MutexReady
<1>13. MutexSched'
  <2>1. StalePrio(c) => StalePrio(c)'
    BY <1>2, <1>3, <1>5 DEF StalePrio
  <2> QED BY <1>1, <1>2, <1>3, <2>1 DEF MutexesLive, MutexSched
<1> QED BY <1>4, <1>8, <1>9, <1>10, <1>11, <1>12, <1>13 DEF MutexesLive

(* The running task waits for a mutex, and may raise its owner.            *)
LEMMA MutexBlock ==
  ASSUME app \in Apps, MutexBlocks(event), MutexesLive, NEW e \in Events, NEW timeout \in Nat,
         TaskCalls, IsMutex(e), OSMutexPendBlocks(e, timeout), ~OwnsOne(OSTCBCur), app' = app
  PROVE  MutexesLive' /\ MutexBlocks(event')
<1>1. PICK c, o, raise : c = OSTCBCur /\ o = Owner(e) /\ raise = RaisesOwner(e)
  OBVIOUS
<1>2. /\ ~InISR /\ c # Idle /\ pc[c] = "run" /\ c \in OSTCBList /\ c \in Tasks /\ ~Pending(c)
      /\ OSTCBList \subseteq Tasks /\ tcb[c].prio \in OSRdyTbl /\ tcb[c].prio = OwnPrio(c)
      /\ OwnPrio(c) \in Nat /\ OwnPrio(c) < LowestPrio /\ OwnPrio(c) \in Prios
  BY <1>1, MutexCaller, MutexFacts DEF TaskCalls, CanCall
<1>3. /\ Owned(e) /\ MutexHeld(e) /\ o \in OSTCBList /\ o \in Tasks /\ o # c /\ OwnsOne(o)
      /\ OwnerPrio(e) = OwnPrio(o) /\ tcb[o].prio \in OSRdyTbl /\ tcb[o].prio \in {OwnPrio(o), Pip(e)}
      /\ Pip(e) \in Prios /\ Pip(e) \in Nat /\ tcb[o].prio \in Nat /\ OwnPrio(o) \in Nat
      /\ Pip(e) < OwnPrio(o) /\ Pip(e) < OwnPrio(c) /\ Pip(e) # LowestPrio
  <2>1. Owned(e) /\ MutexHeld(e)
    BY DEF OSMutexPendBlocks, MutexesLive, MutexesHeld
  <2>2. o \in OSTCBList /\ OwnsOne(o)
    BY <1>1, <2>1 DEF MutexHeld, OwnsOne, Owns
  <2>3. Pip(e) \in Prios
    BY <2>1 DEF MutexHeld
  <2> QED BY <1>1, <1>2, <2>1, <2>2, <2>3, MutexFacts, PriosAreNat DEF MutexHeld
<1>4. /\ OSTCBList' = OSTCBList /\ OSTCBCur' = OSTCBCur /\ OSPrioCur' = OSPrioCur
      /\ OSIntNesting' = OSIntNesting /\ OSLockNesting' = OSLockNesting
      /\ pc' = [pc EXCEPT ![c] = "pend"]
      /\ local' = [local EXCEPT ![c] = [local[c] EXCEPT !.call = "mutex", !.events = {e}]]
      /\ OSTCBPrioTbl' = IF raise THEN [OSTCBPrioTbl EXCEPT ![Pip(e)] = o] ELSE OSTCBPrioTbl
      /\ OSRdyTbl' = (IF raise THEN (OSRdyTbl \ {tcb[o].prio}) \cup {Pip(e)} ELSE OSRdyTbl) \ {tcb[c].prio}
  BY <1>1, <1>3 DEF OSMutexPendBlocks, schedVars, runVars
<1>5. tcb' = [x \in Tasks |->
        IF x = c THEN [tcb[c] EXCEPT !.stat = tcb[c].stat \cup {"MUTEX"}, !.statPend = "OK",
                                     !.dly = timeout, !.eventPtr = e]
        ELSE IF raise /\ x = o THEN [tcb[x] EXCEPT !.prio = Pip(e)] ELSE tcb[x]]
  BY <1>1 DEF OSMutexPendBlocks
<1>6. event' = [x \in Events |-> [event[x] EXCEPT !.grp = event[x].grp \cup (IF x = e THEN {tcb[c].prio} ELSE {})]]
  BY <1>1, <1>3 DEF OSMutexPendBlocks
<1>7. /\ tcb \in [Tasks -> MutexTCBs] /\ pc \in [Tasks -> MutexPlaces] /\ local \in [Tasks -> MutexLocals]
      /\ OSTCBPrioTbl \in [Prios -> Tasks \cup {Idle, NoTask, Reserved}]
  BY DEF MutexesLive, MutexTypes
<1>8. /\ \A t \in Tasks : tcb'[t] \in MutexTCBs /\ tcb'[t].prio = IF raise /\ t = o THEN Pip(e) ELSE tcb[t].prio
      /\ \A t \in Tasks : t # c => tcb'[t].dly = tcb[t].dly
      /\ \A t \in Tasks : t # c /\ t # o => tcb'[t] = tcb[t]
      /\ "MUTEX" \in tcb'[c].stat /\ tcb'[c].statPend = "OK"
  <2>1. \A t \in Tasks : tcb[t] \in MutexTCBs
    BY <1>7
  <2>2. tcb'[c] \in MutexTCBs /\ tcb'[c].prio = tcb[c].prio /\ "MUTEX" \in tcb'[c].stat /\ tcb'[c].statPend = "OK"
    BY <1>2, <1>5, <2>1 DEF MutexTCBs
  <2>3. ASSUME NEW t \in Tasks, t # c, raise, t = o
        PROVE  tcb'[t] \in MutexTCBs /\ tcb'[t].prio = Pip(e) /\ tcb'[t].dly = tcb[t].dly
    BY <1>3, <1>5, <2>1, <2>3 DEF MutexTCBs
  <2>4. ASSUME NEW t \in Tasks, t # c, ~(raise /\ t = o)
        PROVE  tcb'[t] = tcb[t]
    BY <1>5, <2>4
  <2> QED BY <1>3, <2>1, <2>2, <2>3, <2>4
<1>9. /\ pc' \in [Tasks -> MutexPlaces] /\ pc'[c] = "pend" /\ (\A t \in Tasks : t # c => pc'[t] = pc[t])
      /\ local' \in [Tasks -> MutexLocals] /\ local'[c].events = {e}
      /\ \A t \in Tasks : t # c => local'[t] = local[t]
  <2>1. local[c] \in MutexLocals
    BY <1>2, <1>7
  <2>2. PICK r : r = [local[c] EXCEPT !.call = "mutex", !.events = {e}]
    OBVIOUS
  <2>3. r \in MutexLocals /\ r.events = {e}
    BY <2>1, <2>2 DEF MutexLocals
  <2>4. local' = [local EXCEPT ![c] = r]
    BY <1>4, <2>2
  <2> QED BY <1>2, <1>4, <1>7, <2>3, <2>4 DEF MutexPlaces
<1>10. /\ Pending(c)' /\ \A t \in Tasks : t # c => Pending(t)' = Pending(t)
  BY <1>9 DEF Pending
<1>11. /\ MutexBlocks(event')
       /\ \A f \in Events : /\ event'[f].type = event[f].type /\ event'[f].cnt = event[f].cnt
                            /\ event'[f].pip = event[f].pip /\ event'[f].ptr = event[f].ptr
                            /\ f # e => event'[f].grp = event[f].grp
       /\ event'[e].grp = event[e].grp \cup {tcb[c].prio}
  <2>1. \A f \in Events : DOMAIN event[f] = EventFields
    BY DEF MutexBlocks
  <2>2. ASSUME NEW f \in Events
        PROVE  /\ DOMAIN event'[f] = EventFields
               /\ event'[f].type = event[f].type /\ event'[f].cnt = event[f].cnt
               /\ event'[f].pip = event[f].pip /\ event'[f].ptr = event[f].ptr
               /\ event'[f].grp = event[f].grp \cup (IF f = e THEN {tcb[c].prio} ELSE {})
    BY <1>6, <2>1 DEF EventFields
  <2>3. DOMAIN event' = Events
    BY <1>6
  <2>4. MutexBlocks(event')
    <3>1. \A f \in Events : event[f].type \in {"mutex", "unused"} => MayBeMutex(f)
      BY DEF MutexBlocks
    <3>2. \A f \in Events : DOMAIN event'[f] = EventFields /\ event'[f].type = event[f].type
      BY <2>2
    <3>3. \A f : MayBeMutex(f)' = MayBeMutex(f)
      BY DEF MayBeMutex
    <3> QED BY <2>3, <3>1, <3>2, <3>3 DEF MutexBlocks
  <2>5. \A f \in Events : f # e => event'[f].grp = event[f].grp
    <3> TAKE f \in Events
    <3> HAVE f # e
    <3>1. (IF f = e THEN {tcb[c].prio} ELSE {}) = {}
      OBVIOUS
    <3> QED BY <2>2, <3>1
  <2>6. event'[e].grp = event[e].grp \cup {tcb[c].prio}
    BY <2>2
  <2> QED BY <2>2, <2>4, <2>5, <2>6
<1>12. /\ \A f \in Events : /\ IsMutex(f)' = IsMutex(f) /\ Pip(f)' = Pip(f)
                            /\ Owner(f)' = Owner(f) /\ OwnerPrio(f)' = OwnerPrio(f) /\ Owned(f)' = Owned(f)
                            /\ f # e => Waiters(f)' = Waiters(f)
       /\ Waiters(e)' = Waiters(e) \cup {tcb[c].prio}
       /\ \A t : OwnPrio(t)' = OwnPrio(t)
  BY <1>11 DEF IsMutex, Pip, Waiters, Owner, OwnerPrio, Owned, OwnPrio
<1>13. \A t : OwnsOne(t)' = OwnsOne(t)
  BY <1>12 DEF OwnsOne, Owns
<1>14. /\ \A t \in OSTCBList : t # o => tcb[t].prio # Pip(e)
       /\ \A t \in OSTCBList : t # o => tcb[t].prio # tcb[o].prio
       /\ \A t \in OSTCBList : t # c => tcb[t].prio # tcb[c].prio
       /\ \A t \in OSTCBList : OwnPrio(t) # Pip(e) /\ OwnPrio(t) \in Prios
  <2>1. \A t \in OSTCBList : OwnPrio(t) \in Nat /\ Pip(e) < OwnPrio(t)
    BY <1>3, MutexFacts DEF MutexHeld
  <2> QED BY <1>1, <1>2, <1>3, <2>1, MutexFacts
<1>15. MutexTypes'
  <2>1. tcb' \in [Tasks -> MutexTCBs]
    BY <1>5, <1>8
  <2>2. OSTCBPrioTbl' \in [Prios -> Tasks \cup {Idle, NoTask, Reserved}]
    BY <1>3, <1>4, <1>7
  <2>3. OSRdyTbl' \subseteq Prios /\ LowestPrio \in OSRdyTbl'
    <3>1. OSRdyTbl \subseteq Prios /\ LowestPrio \in OSRdyTbl
      BY DEF MutexesLive, MutexTypes
    <3>2. tcb[o].prio # LowestPrio /\ tcb[c].prio # LowestPrio
      BY <1>2, <1>3, MutexFacts
    <3> QED BY <1>3, <1>4, <3>1, <3>2
  <2> QED BY <1>4, <1>9, <2>1, <2>2, <2>3 DEF MutexesLive, MutexTypes
<1>16. /\ \A p \in Prios : OSTCBPrioTbl'[p] = IF raise /\ p = Pip(e) THEN o ELSE OSTCBPrioTbl[p]
       /\ \A p \in OSRdyTbl' : (p \in OSRdyTbl /\ (raise => p # tcb[o].prio)) \/ (raise /\ p = Pip(e))
       /\ tcb[c].prio \notin OSRdyTbl' /\ tcb'[o].prio \in OSRdyTbl'
       /\ \A t \in OSTCBList : t # c /\ t # o => (tcb[t].prio \in OSRdyTbl' <=> tcb[t].prio \in OSRdyTbl)
  <2>1. \A p \in Prios : OSTCBPrioTbl'[p] = IF raise /\ p = Pip(e) THEN o ELSE OSTCBPrioTbl[p]
    BY <1>3, <1>4, <1>7
  <2>2. tcb'[o].prio \in OSRdyTbl'
    BY <1>2, <1>3, <1>4, <1>8, <1>14
  <2> QED BY <1>4, <1>14, <2>1, <2>2
<1>17. MutexTable'
  <2>1. OSTCBPrioTbl'[LowestPrio] = Idle
    BY <1>3, <1>16, PriosAreNat DEF MutexesLive, MutexTable
  <2>2. ASSUME NEW t \in OSTCBList
        PROVE  OSTCBPrioTbl'[OwnPrio(t)] = t /\ OSTCBPrioTbl'[tcb'[t].prio] = t
    <3>1. OwnPrio(t) \in Prios /\ tcb[t].prio \in Prios /\ t \in Tasks
          /\ OSTCBPrioTbl[OwnPrio(t)] = t /\ OSTCBPrioTbl[tcb[t].prio] = t
      BY MutexFacts DEF MutexesLive, MutexTable
    <3> QED BY <1>3, <1>8, <1>14, <1>16, <3>1
  <2>3. ASSUME NEW t \in OSTCBList
        PROVE  tcb'[t].prio = OwnPrio(t) \/ \E f \in Events : Owns(t, f)' /\ tcb'[t].prio = Pip(f)'
    <3>1. CASE raise /\ t = o
      <4>1. Owns(t, e)' /\ tcb'[t].prio = Pip(e)'
        BY <1>1, <1>3, <1>8, <1>12, <3>1 DEF Owns
      <4> QED BY <4>1
    <3>2. CASE ~(raise /\ t = o)
      <4>1. tcb'[t].prio = tcb[t].prio
        BY <1>2, <1>8, <3>2
      <4>2. CASE tcb[t].prio = OwnPrio(t)
        BY <4>1, <4>2
      <4>3. ASSUME NEW f \in Events, Owns(t, f), tcb[t].prio = Pip(f)
            PROVE  Owns(t, f)' /\ tcb'[t].prio = Pip(f)'
        BY <1>12, <4>1, <4>3 DEF Owns
      <4> QED BY <4>2, <4>3 DEF MutexesLive, MutexTable
    <3> QED BY <3>1, <3>2
  <2> QED BY <1>4, <1>12, <2>1, <2>2, <2>3 DEF MutexTable
<1>18. ASSUME NEW f \in Events, NEW t \in OSTCBList, Pending(t), f \in local[t].events, f # e
       PROVE  t # o /\ t # c
  <2>1. t # c
    BY <1>2, <1>18
  <2>2. IsMutex(f)
    BY <1>1, <1>18 DEF MutexesLive, MutexWaits, MutexGone
  <2>3. tcb[t].prio \in Waiters(f) \/ Owner(f) = t
    BY <1>18, <2>2 DEF MutexesLive, MutexesHeld, MutexHeld
  <2>4. Owner(f) # o
    BY <1>1, <1>3, <1>18, <2>2 DEF MutexHeld
  <2>5. ASSUME tcb[t].prio \in Waiters(f)
        PROVE  ~OwnsOne(t)
    <3>1. PICK u \in OSTCBList : tcb[u].prio = tcb[t].prio /\ WaitsFor(u, f)
      BY <2>5 DEF MutexesLive, MutexWaits
    <3> QED BY <3>1, MutexFacts DEF WaitsFor
  <2> QED BY <1>3, <2>1, <2>3, <2>4, <2>5
<1>19. MutexesHeld'
  <2>1. MutexHeld(e)'
    <3>1. Owner(e)' = o /\ Owned(e)' /\ OwnerPrio(e)' = OwnPrio(o) /\ Pip(e)' = Pip(e) /\ tcb'[o].prio \in OSRdyTbl'
      BY <1>1, <1>3, <1>12, <1>16
    <3>2. OSTCBPrioTbl'[Pip(e)'] = IF Owned(e)' /\ tcb'[Owner(e)'].prio = Pip(e)' THEN Owner(e)' ELSE Reserved
      BY <1>1, <1>3, <1>8, <1>16, <3>1 DEF MutexHeld
    <3>3. \A p \in Waiters(e)' : p < OwnerPrio(e)' => tcb'[Owner(e)'].prio = Pip(e)'
      <4>1. SUFFICES ASSUME NEW p \in Waiters(e)', p < OwnPrio(o)
                     PROVE  tcb'[o].prio = Pip(e)
        BY <3>1
      <4>2. CASE p \in Waiters(e)
        BY <1>1, <1>3, <1>8, <4>1, <4>2 DEF MutexHeld
      <4>3. CASE p = tcb[c].prio
        <5>1. raise \/ tcb[o].prio = Pip(e)
          BY <1>1, <1>2, <1>3, <4>1, <4>3 DEF RaisesOwner
        <5> QED BY <1>3, <1>8, <5>1
      <4> QED BY <1>12, <4>1, <4>2, <4>3
    <3>4. \A f \in Events : IsMutex(f)' /\ f # e => Pip(e)' # Pip(f)' /\ (Owned(e)' => Owner(e)' # Owner(f)')
      BY <1>3, <1>12 DEF MutexHeld
    <3>5. ASSUME NEW t \in OSTCBList, Pending(t)', e \in local'[t].events
          PROVE  tcb'[t].prio \in Waiters(e)' \/ Owner(e)' = t
      <4>1. CASE t = c
        BY <1>2, <1>3, <1>8, <1>12, <4>1
      <4>2. CASE t # c /\ t # o
        <5>1. t \in Tasks /\ Pending(t) /\ e \in local[t].events /\ tcb'[t].prio = tcb[t].prio
          BY <1>2, <1>8, <1>9, <1>10, <3>5, <4>2
        <5> QED BY <1>1, <1>3, <1>12, <4>2, <5>1 DEF MutexHeld
      <4> QED BY <3>1, <4>1, <4>2
    <3>6. Pip(e)' \in Prios /\ \A t \in OSTCBList' : Pip(e)' < OwnPrio(t)'
      BY <1>3, <1>4, <1>12 DEF MutexHeld
    <3>7. o # NoTask /\ OwnPrio(Owner(e))' = OwnPrio(o)
      BY <1>3, <3>1, CoreAssumption DEF OwnPrio
    <3>8. Waiters(e)' # {}
      BY <1>12
    <3> QED BY <1>3, <1>4, <3>1, <3>2, <3>3, <3>4, <3>5, <3>6, <3>7, <3>8 DEF MutexHeld
  <2>2. ASSUME NEW f \in Events, IsMutex(f)', f # e
        PROVE  MutexHeld(f)'
    <3>1. /\ IsMutex(f) /\ MutexHeld(f)
          /\ Pip(f)' = Pip(f) /\ Waiters(f)' = Waiters(f)
          /\ Owner(f)' = Owner(f) /\ OwnerPrio(f)' = OwnerPrio(f) /\ Owned(f)' = Owned(f)
      BY <1>12, <2>2 DEF MutexesLive, MutexesHeld
    <3>2. \A g \in Events : IsMutex(g)' /\ g # f => Pip(f)' # Pip(g)' /\ (Owned(f)' => Owner(f)' # Owner(g)')
      BY <1>12, <3>1 DEF MutexHeld
    <3>3. OwnPrio(Owner(f))' = OwnPrio(Owner(f))
      BY <3>1 DEF OwnPrio
    <3>4. Owned(f) => /\ Owner(f) \in OSTCBList /\ Owner(f) # c /\ Owner(f) # o
                      /\ tcb'[Owner(f)].prio = tcb[Owner(f)].prio
                      /\ tcb'[Owner(f)].prio \in OSRdyTbl'
      <4>1. SUFFICES ASSUME Owned(f) PROVE /\ Owner(f) \in OSTCBList /\ Owner(f) # c /\ Owner(f) # o
                      /\ tcb'[Owner(f)].prio = tcb[Owner(f)].prio
                      /\ tcb'[Owner(f)].prio \in OSRdyTbl'
        OBVIOUS
      <4>2. Owner(f) \in OSTCBList /\ tcb[Owner(f)].prio \in OSRdyTbl
        BY <3>1, <4>1 DEF MutexHeld
      <4>3. Owner(f) # c /\ Owner(f) # o
        BY <1>1, <1>3, <2>2, <3>1, <4>1 DEF MutexHeld, OwnsOne, Owns
      <4> QED BY <1>2, <1>8, <1>16, <4>2, <4>3
    <3>5. Pip(f) \in Prios /\ Pip(f) # Pip(e)
      BY <1>3, <2>2, <3>1 DEF MutexHeld
    <3>6. OSTCBPrioTbl'[Pip(f)'] = IF Owned(f)' /\ tcb'[Owner(f)'].prio = Pip(f)' THEN Owner(f)' ELSE Reserved
      BY <1>16, <3>1, <3>4, <3>5 DEF MutexHeld
    <3>7. ASSUME NEW t \in OSTCBList, Pending(t)', f \in local'[t].events
          PROVE  tcb'[t].prio \in Waiters(f)' \/ Owner(f)' = t
      <4>1. t \in Tasks /\ t # c
        BY <1>2, <1>9, <2>2, <3>7
      <4>2. Pending(t) /\ f \in local[t].events
        BY <1>9, <1>10, <3>7, <4>1
      <4>3. t # o
        BY <1>18, <2>2, <4>2
      <4>4. tcb'[t].prio = tcb[t].prio
        BY <1>8, <4>1, <4>3
      <4> QED BY <3>1, <4>2, <4>4 DEF MutexHeld
    <3>8. \A p \in Waiters(f)' : p < OwnerPrio(f)' => tcb'[Owner(f)'].prio = Pip(f)'
      <4>1. Waiters(f) # {} => Owned(f)
        BY <3>1 DEF MutexHeld
      <4> QED BY <3>1, <3>4, <4>1 DEF MutexHeld
    <3> QED BY <1>4, <1>12, <3>1, <3>2, <3>3, <3>4, <3>5, <3>6, <3>7, <3>8 DEF MutexHeld
  <2> QED BY <2>1, <2>2 DEF MutexesHeld
<1>20. MutexWaits'
  <2>1. ASSUME NEW f \in Events, NEW p \in Waiters(f)'
        PROVE  \E t \in OSTCBList' : tcb'[t].prio = p /\ WaitsFor(t, f)'
    <3>1. CASE p \in Waiters(f)
      <4>1. PICK t \in OSTCBList : tcb[t].prio = p /\ WaitsFor(t, f)
        BY <3>1 DEF MutexesLive, MutexWaits
      <4>2. t # c /\ t # o /\ t \in Tasks
        BY <1>2, <1>3, <4>1 DEF WaitsFor
      <4>3. /\ tcb'[t] = tcb[t] /\ local'[t] = local[t] /\ Pending(t)' = Pending(t)
            /\ tcb[t].prio \notin OSRdyTbl => tcb'[t].prio \notin OSRdyTbl'
        BY <1>8, <1>9, <1>10, <1>16, <4>2
      <4>4. WaitsFor(t, f)'
        BY <1>12, <1>13, <4>1, <4>3 DEF WaitsFor
      <4> QED BY <1>4, <4>1, <4>3, <4>4
    <3>2. CASE p \notin Waiters(f)
      <4>1. f = e /\ p = tcb[c].prio
        BY <1>12, <2>1, <3>2
      <4>2. tcb'[c].prio = p /\ tcb'[c].prio \notin OSRdyTbl'
        BY <1>2, <1>3, <1>8, <1>16, <4>1
      <4>3. ~OwnsOne(c)'
        BY <1>1, <1>13
      <4>4. WaitsFor(c, f)'
        BY <1>8, <1>9, <1>10, <1>12, <4>1, <4>2, <4>3 DEF WaitsFor
      <4> QED BY <1>2, <1>4, <4>2, <4>4
    <3> QED BY <3>1, <3>2
  <2>2. ASSUME NEW t \in OSTCBList, NEW f \in Events, Pending(t)', f \in local'[t].events
        PROVE  IsMutex(f)'
    <3>1. CASE t = c
      BY <1>9, <1>12, <2>2, <3>1
    <3>2. CASE t # c
      <4>1. ~MutexGone
        BY DEF MutexGone
      <4> QED BY <1>2, <1>9, <1>10, <1>12, <2>2, <3>2, <4>1 DEF MutexesLive, MutexWaits
    <3> QED BY <3>1, <3>2
  <2> QED BY <1>4, <2>1, <2>2 DEF MutexWaits
<1>21. MutexReady'
  <2>1. ASSUME NEW p \in OSRdyTbl', p # LowestPrio
        PROVE  \E t \in OSTCBList' : tcb'[t].prio = p
    <3>1. CASE raise /\ p = Pip(e)
      BY <1>3, <1>4, <1>8, <3>1
    <3>2. CASE p \in OSRdyTbl /\ (raise => p # tcb[o].prio)
      <4>1. PICK t \in OSTCBList : tcb[t].prio = p
        BY <2>1, <3>2 DEF MutexesLive, MutexReady
      <4>2. tcb'[t].prio = p /\ t \in OSTCBList'
        BY <1>2, <1>4, <1>8, <3>2, <4>1
      <4> QED BY <4>2
    <3> QED BY <1>16, <2>1, <3>1, <3>2
  <2>2. ASSUME NEW t \in OSTCBList, tcb'[t].prio \in OSRdyTbl'
        PROVE  tcb'[t].dly = 0
    <3>1. t # c /\ t \in Tasks
      BY <1>2, <1>3, <1>8, <1>16, <2>2
    <3>2. CASE t = o
      BY <1>3, <1>8, <3>1, <3>2 DEF MutexesLive, MutexReady
    <3>3. CASE t # o
      BY <1>8, <1>16, <2>2, <3>1, <3>3 DEF MutexesLive, MutexReady
    <3> QED BY <3>2, <3>3
  <2>3. ASSUME NEW t \in OSTCBList PROVE tcb'[t].prio \in OSRdyTbl' \/ tcb'[t].dly > 0 \/ InList(t)'
    <3>1. CASE t = c
      <4>1. tcb'[c].statPend = "OK" /\ e \in local'[c].events /\ tcb'[c].prio \in Waiters(e)'
        BY <1>2, <1>3, <1>8, <1>9, <1>12
      <4>2. InList(c)'
        BY <1>10, <4>1 DEF InList
      <4> QED BY <3>1, <4>2
    <3>2. CASE t = o
      BY <1>3, <1>8, <1>16, <3>2
    <3>3. CASE t # c /\ t # o
      <4>1. t \in Tasks /\ tcb'[t] = tcb[t] /\ (tcb[t].prio \in OSRdyTbl => tcb[t].prio \in OSRdyTbl')
        BY <1>2, <1>3, <1>8, <1>16, <3>3, MutexFacts
      <4>2. \A f \in Events : tcb[t].prio \in Waiters(f) => tcb[t].prio \in Waiters(f)'
        BY <1>12
      <4>3. local'[t] = local[t] /\ Pending(t)' = Pending(t)
        BY <1>9, <1>10, <3>3, <4>1
      <4>4. InList(t) => InList(t)'
        BY <4>1, <4>2, <4>3, StaysInList DEF MutexesLive
      <4> QED BY <4>1, <4>4 DEF MutexesLive, MutexReady
    <3> QED BY <3>1, <3>2, <3>3
  <2> QED BY <1>4, <2>1, <2>2, <2>3 DEF MutexReady
<1>22. MutexSched'
  <2>1. tcb'[c].prio = tcb[c].prio
    BY <1>2, <1>3, <1>8
  <2>2. ASSUME StalePrio(c) PROVE StalePrio(c)'
    <3>1. OSPrioCur \in Prios /\ OSTCBPrioTbl[OSPrioCur] \notin Tasks \cup {Idle}
          /\ \A f \in Events : IsMutex(f) /\ Pip(f) = OSPrioCur => Owner(f) \in {c, NoTask}
      BY <1>2, <2>2 DEF StalePrio
    <3>2. Pip(e) # OSPrioCur
      BY <1>1, <1>3, <3>1, CoreAssumption
    <3>3. OSTCBPrioTbl'[OSPrioCur] = OSTCBPrioTbl[OSPrioCur]
      BY <1>16, <3>1, <3>2
    <3> QED BY <1>4, <1>12, <3>1, <3>3 DEF StalePrio
  <2> QED BY <1>1, <1>2, <1>4, <1>9, <2>1, <2>2 DEF MutexesLive, MutexSched
<1> QED BY <1>11, <1>15, <1>17, <1>19, <1>20, <1>21, <1>22 DEF MutexesLive
(* The mutex e goes from its owner, the running task c, to task n, the     *)
(* highest that waits, or to nobody; c is at its own priority again.       *)
PassedOn(e, c, n) ==
  /\ OSTCBList' = OSTCBList /\ OSTCBCur' = OSTCBCur /\ OSPrioCur' = OSPrioCur
  /\ OSIntNesting' = OSIntNesting /\ OSLockNesting' = OSLockNesting /\ local' = local /\ app' = app
  /\ pc' \in [Tasks -> MutexPlaces] /\ (\A t \in Tasks : t # c => pc'[t] = pc[t])
  /\ pc'[c] = "sched" \/ (n = NoTask /\ pc'[c] = "run")
  /\ tcb' \in [Tasks -> MutexTCBs]
  /\ tcb'[c].prio = OwnPrio(c) /\ tcb'[c].dly = tcb[c].dly
  /\ \A t \in Tasks : t # c /\ t # n => tcb'[t] = tcb[t]
  /\ n \in Tasks => tcb'[n].prio = tcb[n].prio /\ tcb'[n].dly = 0
  /\ OSTCBPrioTbl' \in [Prios -> Tasks \cup {Idle, NoTask, Reserved}]
  /\ \A p \in Prios : OSTCBPrioTbl'[p] = IF p = Pip(e) THEN Reserved ELSE OSTCBPrioTbl[p]
  /\ \A p : p \in OSRdyTbl' <=>
       (p \in OSRdyTbl /\ p # Pip(e)) \/ p = OwnPrio(c) \/ (n \in Tasks /\ p = tcb[n].prio)
  /\ MutexBlocks(event')
  /\ \A f \in Events : event'[f].type = event[f].type /\ event'[f].pip = event[f].pip
  /\ \A f \in Events : f # e => /\ event'[f].cnt = event[f].cnt /\ event'[f].ptr = event[f].ptr
                                /\ event'[f].grp = event[f].grp
  /\ event'[e].ptr = n
  /\ \/ n = NoTask /\ event'[e].cnt = Available255 /\ event'[e].grp = {} /\ event[e].grp = {}
     \/ /\ n \in OSTCBList /\ WaitsFor(n, e) /\ OwnPrio(n) \in Waiters(e)
        /\ event'[e].cnt = OwnPrio(n) /\ event'[e].grp = event[e].grp \ {OwnPrio(n)}
        /\ \A p \in Waiters(e) : OwnPrio(n) <= p

LEMMA MutexPassOn ==
  ASSUME app \in Apps, MutexBlocks(event), MutexesLive, NEW e \in Events, NEW c, NEW n,
         TaskCalls, IsMutex(e), c = OSTCBCur, Owner(e) = c, PassedOn(e, c, n)
  PROVE  MutexesLive' /\ MutexBlocks(event')
<1>1. /\ ~InISR /\ c # Idle /\ pc[c] = "run" /\ c \in OSTCBList /\ c \in Tasks /\ ~Pending(c)
      /\ OSTCBList \subseteq Tasks /\ tcb[c].prio \in OSRdyTbl /\ tcb[c].dly = 0
      /\ OwnPrio(c) \in Nat /\ OwnPrio(c) < LowestPrio /\ OwnPrio(c) \in Prios
      /\ c # NoTask /\ NoTask \notin OSTCBList /\ Idle \notin OSTCBList
  BY MutexCaller, MutexFacts, CoreAssumption DEF TaskCalls, CanCall
<1>2. /\ MutexHeld(e) /\ Owned(e) /\ OwnerPrio(e) = OwnPrio(c) /\ tcb[c].prio \in {OwnPrio(c), Pip(e)}
      /\ Pip(e) \in Prios /\ Pip(e) \in Nat /\ Pip(e) < OwnPrio(c) /\ Pip(e) # LowestPrio
      /\ \A t \in OSTCBList : OwnPrio(t) # Pip(e) /\ OwnPrio(t) \in Prios
  <2>1. MutexHeld(e) /\ Owned(e)
    BY <1>1 DEF MutexesLive, MutexesHeld, MutexHeld
  <2>2. \A t \in OSTCBList : OwnPrio(t) \in Nat /\ Pip(e) < OwnPrio(t)
    BY <2>1, MutexFacts DEF MutexHeld
  <2>3. Pip(e) \in Nat
    BY <2>1, PriosAreNat DEF MutexHeld
  <2> QED BY <1>1, <2>1, <2>2, <2>3, MutexFacts DEF MutexHeld
<1>3. /\ OSTCBList' = OSTCBList /\ OSTCBCur' = OSTCBCur /\ OSPrioCur' = OSPrioCur
      /\ OSIntNesting' = OSIntNesting /\ OSLockNesting' = OSLockNesting /\ local' = local /\ app' = app
  BY DEF PassedOn
<1>4. n \in OSTCBList \cup {NoTask} /\ n # c /\ (n \in Tasks <=> n \in OSTCBList)
      /\ (n \in OSTCBList => ~OwnsOne(n) /\ Pending(n) /\ tcb[n].prio = OwnPrio(n))
  <2>1. n = NoTask \/ (n \in OSTCBList /\ WaitsFor(n, e))
    BY DEF PassedOn
  <2> QED BY <1>1, <2>1, MutexFacts, CoreAssumption DEF WaitsFor
<1>5. /\ \A t \in OSTCBList : tcb'[t].prio = IF t = c THEN OwnPrio(c) ELSE tcb[t].prio
      /\ \A t \in OSTCBList : t # c /\ t # n => tcb'[t] = tcb[t]
      /\ \A t \in OSTCBList : t # c => tcb[t].prio # Pip(e)
      /\ \A t \in OSTCBList : t # c => tcb[t].prio # OwnPrio(c)
      /\ \A t \in OSTCBList : t # n /\ n \in OSTCBList => tcb[t].prio # tcb[n].prio
  BY <1>1, <1>4, MutexFacts DEF PassedOn
<1>6. /\ \A p \in Prios : OSTCBPrioTbl'[p] = IF p = Pip(e) THEN Reserved ELSE OSTCBPrioTbl[p]
      /\ \A p : p \in OSRdyTbl' <=>
           (p \in OSRdyTbl /\ p # Pip(e)) \/ p = OwnPrio(c) \/ (n \in OSTCBList /\ p = tcb[n].prio)
  BY <1>4 DEF PassedOn
<1>7. /\ \A t \in Tasks : t # c => Pending(t)' = Pending(t)
      /\ ~Pending(c)'
  BY DEF PassedOn, Pending
<1>8. /\ \A f \in Events : /\ IsMutex(f)' = IsMutex(f) /\ Pip(f)' = Pip(f)
                           /\ f # e => /\ Owner(f)' = Owner(f) /\ OwnerPrio(f)' = OwnerPrio(f)
                                       /\ Owned(f)' = Owned(f) /\ Waiters(f)' = Waiters(f)
      /\ \A t : OwnPrio(t)' = OwnPrio(t)
      /\ Owner(e)' = n
  BY DEF PassedOn, IsMutex, Pip, Owner, OwnerPrio, Owned, Waiters, OwnPrio
<1>9. \/ n = NoTask /\ ~Owned(e)' /\ Waiters(e)' = {} /\ Waiters(e) = {}
      \/ /\ n \in OSTCBList /\ Owned(e)' /\ OwnerPrio(e)' = OwnPrio(n)
         /\ Waiters(e)' = Waiters(e) \ {OwnPrio(n)}
         /\ \A p \in Waiters(e)' : ~(p < OwnPrio(n))
  <2>1. CASE n = NoTask
    BY <1>1, <2>1 DEF PassedOn, Owned, Waiters
  <2>2. CASE n \in OSTCBList
    <3>1. OwnPrio(n) \in Nat /\ OwnPrio(n) < LowestPrio
      BY <2>2, MutexFacts
    <3>2. OwnPrio(n) # Available255
      BY <3>1, MutexAssumption, CoreAssumption DEF Available255
    <3>3. /\ event'[e].cnt = OwnPrio(n) /\ event'[e].grp = event[e].grp \ {OwnPrio(n)}
          /\ \A p \in Waiters(e) : OwnPrio(n) <= p
      BY <1>1, <2>2 DEF PassedOn
    <3>4. \A p \in Waiters(e) : p \in Nat
      <4>1. \A p \in Waiters(e) : \E t \in OSTCBList : tcb[t].prio = p
        BY DEF MutexesLive, MutexWaits
      <4> QED BY <4>1, MutexFacts, PriosAreNat
    <3>5. \A p \in Waiters(e) : ~(p < OwnPrio(n))
      BY <3>1, <3>3, <3>4
    <3> QED BY <2>2, <3>2, <3>3, <3>5 DEF Owned, OwnerPrio, Waiters
  <2> QED BY <1>4, <2>1, <2>2
<1>10. \A f \in Events : IsMutex(f) /\ f # e => Owner(f) # c /\ (n \in OSTCBList => Owner(f) # n)
  BY <1>2, <1>4 DEF MutexHeld, OwnsOne, Owns
<1>11. \A t \in OSTCBList : t # c /\ t # n => OwnsOne(t)' = OwnsOne(t)
  BY <1>8 DEF OwnsOne, Owns
<1>12. MutexTypes'
  <2>1. OSRdyTbl' \subseteq Prios /\ LowestPrio \in OSRdyTbl'
    <3>1. OSRdyTbl \subseteq Prios /\ LowestPrio \in OSRdyTbl
      BY DEF MutexesLive, MutexTypes
    <3>2. n \in OSTCBList => tcb[n].prio \in Prios
      BY MutexFacts
    <3> QED BY <1>1, <1>2, <1>6, <3>1, <3>2
  <2> QED BY <1>3, <2>1 DEF MutexesLive, MutexTypes, PassedOn
<1>13. MutexTable'
  <2>1. OSTCBPrioTbl'[LowestPrio] = Idle
    BY <1>2, <1>6, PriosAreNat DEF MutexesLive, MutexTable
  <2>2. ASSUME NEW t \in OSTCBList
        PROVE  OSTCBPrioTbl'[OwnPrio(t)] = t /\ OSTCBPrioTbl'[tcb'[t].prio] = t
    <3>1. OwnPrio(t) \in Prios /\ tcb[t].prio \in Prios
          /\ OSTCBPrioTbl[OwnPrio(t)] = t /\ OSTCBPrioTbl[tcb[t].prio] = t
      BY MutexFacts DEF MutexesLive, MutexTable
    <3> QED BY <1>2, <1>5, <1>6, <3>1
  <2>3. ASSUME NEW t \in OSTCBList
        PROVE  tcb'[t].prio = OwnPrio(t) \/ \E f \in Events : Owns(t, f)' /\ tcb'[t].prio = Pip(f)'
    <3>1. CASE t = c
      BY <1>5, <3>1
    <3>2. CASE t # c
      <4>1. CASE tcb[t].prio = OwnPrio(t)
        BY <1>5, <3>2, <4>1
      <4>2. ASSUME NEW f \in Events, Owns(t, f), tcb[t].prio = Pip(f)
            PROVE  Owns(t, f)' /\ tcb'[t].prio = Pip(f)'
        BY <1>5, <1>8, <3>2, <4>2 DEF Owns
      <4> QED BY <4>1, <4>2 DEF MutexesLive, MutexTable
    <3> QED BY <3>1, <3>2
  <2> QED BY <1>3, <1>8, <2>1, <2>2, <2>3 DEF MutexTable
<1>14. MutexesHeld'
  <2>1. MutexHeld(e)'
    <3>1. /\ Pip(e)' = Pip(e) /\ OSTCBPrioTbl'[Pip(e)] = Reserved
          /\ n \in OSTCBList => tcb'[n].prio # Pip(e) /\ tcb'[n].prio \in OSRdyTbl'
      BY <1>2, <1>4, <1>5, <1>6, <1>8
    <3>2. OSTCBPrioTbl'[Pip(e)'] = IF Owned(e)' /\ tcb'[Owner(e)'].prio = Pip(e)' THEN Owner(e)' ELSE Reserved
      BY <1>1, <1>8, <1>9, <3>1
    <3>3. Owned(e)' <=> Owner(e)' # NoTask
      BY <1>1, <1>8, <1>9
    <3>4. OwnPrio(Owner(e))' = OwnPrio(n)
      BY <1>8 DEF OwnPrio, PassedOn
    <3>5. Owned(e)' => /\ Owner(e)' \in OSTCBList' /\ OwnerPrio(e)' = OwnPrio(Owner(e))'
                       /\ tcb'[Owner(e)'].prio \in OSRdyTbl'
      BY <1>3, <1>8, <1>9, <3>1, <3>4
    <3>6. \A p \in Waiters(e)' : p < OwnerPrio(e)' => tcb'[Owner(e)'].prio = Pip(e)'
      BY <1>9
    <3>7. \A f \in Events : IsMutex(f)' /\ f # e => Pip(e)' # Pip(f)' /\ (Owned(e)' => Owner(e)' # Owner(f)')
      BY <1>2, <1>8, <1>9, <1>10 DEF MutexHeld
    <3>8. ASSUME NEW t \in OSTCBList, Pending(t)', e \in local'[t].events
          PROVE  tcb'[t].prio \in Waiters(e)' \/ Owner(e)' = t
      <4>1. t # c /\ Pending(t) /\ e \in local[t].events
        BY <1>1, <1>3, <1>7, <3>8
      <4>2. tcb[t].prio \in Waiters(e)
        BY <1>2, <4>1 DEF MutexHeld
      <4> QED BY <1>4, <1>5, <1>8, <1>9, <4>1, <4>2
    <3>9. Pip(e)' \in Prios /\ \A t \in OSTCBList' : Pip(e)' < OwnPrio(t)'
      BY <1>2, <1>3, <1>8 DEF MutexHeld
    <3>10. ~Owned(e)' => Waiters(e)' = {}
      BY <1>9
    <3>11. ~(Owned(e)' /\ tcb'[Owner(e)'].prio = Pip(e)')
      BY <1>8, <1>9, <3>1
    <3> QED BY <1>3, <3>2, <3>3, <3>5, <3>6, <3>7, <3>8, <3>9, <3>10, <3>11 DEF MutexHeld
  <2>2. ASSUME NEW f \in Events, IsMutex(f)', f # e
        PROVE  MutexHeld(f)'
    <3>1. /\ IsMutex(f) /\ MutexHeld(f) /\ Owner(f) # c /\ (n \in OSTCBList => Owner(f) # n)
          /\ Pip(f)' = Pip(f) /\ Waiters(f)' = Waiters(f)
          /\ Owner(f)' = Owner(f) /\ OwnerPrio(f)' = OwnerPrio(f) /\ Owned(f)' = Owned(f)
      BY <1>8, <1>10, <2>2 DEF MutexesLive, MutexesHeld
    <3>2. Owned(f) => /\ Owner(f) \in OSTCBList /\ Owner(f) # c /\ Owner(f) # n
                      /\ tcb[Owner(f)].prio \in OSRdyTbl
      BY <1>1, <1>4, <3>1 DEF MutexHeld
    <3>3. Owned(f) => tcb'[Owner(f)] = tcb[Owner(f)] /\ tcb'[Owner(f)].prio \in OSRdyTbl'
      BY <1>5, <1>6, <3>2
    <3>4. \A g \in Events : IsMutex(g)' /\ g # f => Pip(f)' # Pip(g)' /\ (Owned(f)' => Owner(f)' # Owner(g)')
      <4> TAKE g \in Events
      <4> HAVE IsMutex(g)' /\ g # f
      <4>1. IsMutex(g) /\ Pip(f) # Pip(g) /\ (Owned(f) => Owner(f) # Owner(g))
        BY <1>8, <3>1 DEF MutexHeld
      <4> QED BY <1>8, <3>1, <3>2, <4>1
    <3>5. OwnPrio(Owner(f))' = OwnPrio(Owner(f))
      BY <1>3, <3>1 DEF OwnPrio
    <3>6. Pip(f) \in Prios /\ Pip(f) # Pip(e)
      BY <1>2, <2>2, <3>1 DEF MutexHeld
    <3>7. OSTCBPrioTbl'[Pip(f)'] = IF Owned(f)' /\ tcb'[Owner(f)'].prio = Pip(f)' THEN Owner(f)' ELSE Reserved
      BY <1>6, <3>1, <3>3, <3>6 DEF MutexHeld
    <3>8. ASSUME NEW t \in OSTCBList, Pending(t)', f \in local'[t].events
          PROVE  tcb'[t].prio \in Waiters(f)' \/ Owner(f)' = t
      <4>1. t # c /\ Pending(t) /\ f \in local[t].events
        BY <1>1, <1>3, <1>7, <3>8
      <4> QED BY <1>5, <3>1, <4>1 DEF MutexHeld
    <3>9. \A p \in Waiters(f)' : p < OwnerPrio(f)' => tcb'[Owner(f)'].prio = Pip(f)'
      <4>1. Waiters(f) # {} => Owned(f)
        BY <3>1 DEF MutexHeld
      <4> QED BY <3>1, <3>3, <4>1 DEF MutexHeld
    <3> QED BY <1>3, <1>8, <3>1, <3>3, <3>4, <3>5, <3>7, <3>8, <3>9 DEF MutexHeld
  <2> QED BY <2>1, <2>2 DEF MutexesHeld
<1>15. MutexWaits'
  <2>1. ASSUME NEW f \in Events, NEW p \in Waiters(f)'
        PROVE  \E t \in OSTCBList' : tcb'[t].prio = p /\ WaitsFor(t, f)'
    <3>1. p \in Waiters(f) /\ (f = e => n \in OSTCBList /\ p # OwnPrio(n))
      BY <1>8, <1>9, <2>1
    <3>2. PICK t \in OSTCBList : tcb[t].prio = p /\ WaitsFor(t, f)
      BY <3>1 DEF MutexesLive, MutexWaits
    <3>3. t # c
      BY <1>1, <3>2 DEF WaitsFor
    <3>4. t # n
      <4>1. SUFFICES ASSUME t = n PROVE FALSE
        OBVIOUS
      <4>2. WaitsFor(n, e)
        BY <1>1, <3>2, <4>1 DEF PassedOn
      <4>3. f = e
        BY <3>2, <4>1, <4>2 DEF WaitsFor
      <4> QED BY <1>4, <3>1, <3>2, <4>1, <4>3
    <3>5. /\ tcb'[t] = tcb[t] /\ local'[t] = local[t] /\ Pending(t)' = Pending(t)
          /\ OwnsOne(t)' = OwnsOne(t) /\ IsMutex(f)' = IsMutex(f)
          /\ tcb[t].prio \notin OSRdyTbl => tcb[t].prio \notin OSRdyTbl'
      BY <1>1, <1>3, <1>5, <1>6, <1>7, <1>8, <1>11, <3>3, <3>4
    <3>6. WaitsFor(t, f)'
      BY <3>2, <3>5 DEF WaitsFor
    <3> QED BY <1>3, <3>2, <3>5, <3>6
  <2>2. ASSUME NEW t \in OSTCBList, NEW f \in Events, Pending(t)', f \in local'[t].events
        PROVE  IsMutex(f)'
    <3>1. ~MutexGone
      BY DEF MutexGone
    <3> QED BY <1>1, <1>3, <1>7, <1>8, <2>2, <3>1 DEF MutexesLive, MutexWaits
  <2> QED BY <1>3, <2>1, <2>2 DEF MutexWaits
<1>16. MutexReady'
  <2>1. ASSUME NEW p \in OSRdyTbl', p # LowestPrio
        PROVE  \E t \in OSTCBList' : tcb'[t].prio = p
    <3>1. CASE p = OwnPrio(c)
      BY <1>1, <1>3, <1>5, <3>1
    <3>2. CASE n \in OSTCBList /\ p = tcb[n].prio
      BY <1>3, <1>4, <1>5, <3>2
    <3>3. CASE p \in OSRdyTbl /\ p # Pip(e) /\ p # OwnPrio(c)
      <4>1. PICK t \in OSTCBList : tcb[t].prio = p
        BY <2>1, <3>3 DEF MutexesLive, MutexReady
      <4>2. tcb'[t].prio = p /\ t \in OSTCBList'
        BY <1>2, <1>3, <1>5, <3>3, <4>1
      <4> QED BY <4>2
    <3> QED BY <1>6, <2>1, <3>1, <3>2, <3>3
  <2>2. ASSUME NEW t \in OSTCBList, tcb'[t].prio \in OSRdyTbl'
        PROVE  tcb'[t].dly = 0
    <3>1. CASE t = c
      BY <1>1, <3>1 DEF PassedOn
    <3>2. CASE t = n
      BY <1>1, <3>2 DEF PassedOn
    <3>3. CASE t # c /\ t # n
      <4>1. tcb'[t] = tcb[t] /\ tcb[t].prio \in OSRdyTbl
        BY <1>5, <1>6, <2>2, <3>3
      <4> QED BY <4>1 DEF MutexesLive, MutexReady
    <3> QED BY <3>1, <3>2, <3>3
  <2>3. ASSUME NEW t \in OSTCBList PROVE tcb'[t].prio \in OSRdyTbl' \/ tcb'[t].dly > 0 \/ InList(t)'
    <3>1. CASE t = c
      BY <1>5, <1>6, <3>1
    <3>2. CASE t = n
      BY <1>4, <1>5, <1>6, <3>2
    <3>3. CASE t # c /\ t # n
      <4>1. t \in Tasks /\ tcb'[t] = tcb[t] /\ (tcb[t].prio \in OSRdyTbl => tcb[t].prio \in OSRdyTbl')
        BY <1>1, <1>5, <1>6, <3>3
      <4>2. \A f \in Events : tcb[t].prio \in Waiters(f) => tcb[t].prio \in Waiters(f)'
        BY <1>4, <1>5, <1>8, <1>9, <3>3
      <4>3. local'[t] = local[t] /\ Pending(t)' = Pending(t)
        BY <1>3, <1>7, <3>3, <4>1
      <4>4. InList(t) => InList(t)'
        BY <4>1, <4>2, <4>3, StaysInList DEF MutexesLive
      <4> QED BY <4>1, <4>4 DEF MutexesLive, MutexReady
    <3> QED BY <3>1, <3>2, <3>3
  <2> QED BY <1>3, <2>1, <2>2, <2>3 DEF MutexReady
<1>17. MutexSched'
  <2>1. pc'[c] \in {"sched", "run"} /\ (pc'[c] = "run" => n = NoTask)
    BY DEF PassedOn
  <2>2. tcb'[c].prio = OwnPrio(c) /\ OwnPrio(c) \in OSRdyTbl'
    BY <1>1, <1>5, <1>6
  <2>3. OSPrioCur = tcb'[c].prio \/ OSPrioCur = Pip(e) \/ StalePrio(c)
    BY <1>1, <1>2, <2>2 DEF MutexesLive, MutexSched
  <2>4. ASSUME OSPrioCur = Pip(e) PROVE StalePrio(c)'
    <3>1. OSPrioCur \in Prios /\ OSTCBPrioTbl'[OSPrioCur] \notin Tasks \cup {Idle}
      BY <1>2, <1>6, <2>4, CoreAssumption
    <3>2. \A f \in Events : IsMutex(f)' /\ Pip(f)' = OSPrioCur => f = e
      BY <1>2, <1>8, <2>4 DEF MutexHeld
    <3> QED BY <1>3, <1>8, <2>1, <3>1, <3>2 DEF StalePrio
  <2>5. ASSUME StalePrio(c) PROVE StalePrio(c)'
    <3>1. OSPrioCur \in Prios /\ OSTCBPrioTbl[OSPrioCur] \notin Tasks \cup {Idle}
          /\ \A f \in Events : IsMutex(f) /\ Pip(f) = OSPrioCur => Owner(f) \in {c, NoTask}
      BY <1>1, <2>5 DEF StalePrio
    <3>2. OSTCBPrioTbl'[OSPrioCur] \notin Tasks \cup {Idle}
      BY <1>6, <3>1, CoreAssumption
    <3>3. n = NoTask => \A f \in Events : IsMutex(f)' /\ Pip(f)' = OSPrioCur => Owner(f)' \in {c, NoTask}
      BY <1>8, <3>1
    <3> QED BY <1>3, <2>1, <3>1, <3>2, <3>3 DEF StalePrio
  <2>6. n = NoTask => tcb'[c].prio = Min(OSRdyTbl)'
    <3> SUFFICES ASSUME n = NoTask PROVE tcb'[c].prio = Min(OSRdyTbl')
      OBVIOUS
    <3>1. Waiters(e) = {} /\ tcb[c].prio # Pip(e)
      BY <1>1, <1>2, <1>9 DEF MutexHeld
    <3>2. tcb[c].prio = OwnPrio(c) /\ tcb[c].prio = Min(OSRdyTbl)
      BY <1>1, <1>2, <3>1, MutexCaller
    <3>3. Pip(e) \notin OSRdyTbl
      <4>1. \A t \in OSTCBList : tcb[t].prio # Pip(e)
        BY <1>5, <3>1
      <4> QED BY <1>2, <4>1 DEF MutexesLive, MutexReady
    <3>4. OSRdyTbl' = OSRdyTbl
      BY <1>1, <1>4, <1>6, <3>2, <3>3
    <3> QED BY <2>2, <3>2, <3>4
  <2> QED BY <1>1, <1>3, <2>1, <2>2, <2>3, <2>4, <2>5, <2>6 DEF MutexSched
<1> QED BY <1>12, <1>13, <1>14, <1>15, <1>16, <1>17 DEF MutexesLive, PassedOn

(* What a post makes of the control blocks.                                *)
LEMMA MutexAwoken ==
  ASSUME NEW t \in Tasks, NEW e, NEW prio \in Prios, tcb \in [Tasks -> MutexTCBs]
  PROVE  /\ Awoken(t, e, NoMsg, {"MUTEX"}, "OK") \in MutexTCBs
         /\ Awoken(t, e, NoMsg, {"MUTEX"}, "OK").prio = tcb[t].prio
         /\ Awoken(t, e, NoMsg, {"MUTEX"}, "OK").dly = 0
         /\ LoweredTo(t, prio) \in MutexTCBs /\ LoweredTo(t, prio).prio = prio
         /\ LoweredTo(t, prio).dly = tcb[t].dly
<1>1. tcb[t] \in MutexTCBs /\ tcb[t].multi = {}
  BY DEF MutexTCBs
<1>2. PICK a, l : /\ a = Awoken(t, e, NoMsg, {"MUTEX"}, "OK") /\ l = LoweredTo(t, prio)
  OBVIOUS
<1>3. a = [tcb[t] EXCEPT !.dly = 0, !.msg = NoMsg, !.stat = tcb[t].stat \ {"MUTEX"},
                         !.statPend = "OK", !.eventPtr = tcb[t].eventPtr]
  BY <1>1, <1>2 DEF Awoken
<1>4. l = [tcb[t] EXCEPT !.prio = prio]
  BY <1>2 DEF LoweredTo
<1>5. a \in MutexTCBs /\ a.prio = tcb[t].prio /\ a.dly = 0
  BY <1>1, <1>3 DEF MutexTCBs
<1>6. l \in MutexTCBs /\ l.prio = prio /\ l.dly = tcb[t].dly
  BY <1>1, <1>4 DEF MutexTCBs
<1> QED BY <1>2, <1>5, <1>6

(* The owner posts.                                                        *)
LEMMA MutexPostPasses ==
  ASSUME app \in Apps, MutexBlocks(event), MutexesLive, NEW e \in Events, OSMutexPost(e), app' = app
  PROVE  /\ TaskCalls /\ IsMutex(e) /\ Owner(e) = OSTCBCur
         /\ \E n : PassedOn(e, OSTCBCur, n)
<1>1. PICK c, raised : c = OSTCBCur /\ raised = (tcb[c].prio = Pip(e))
  OBVIOUS
<1>2. /\ TaskCalls /\ IsMutex(e) /\ Owner(e) = c
      /\ ~InISR /\ c # Idle /\ pc[c] = "run" /\ c \in OSTCBList /\ c \in Tasks /\ ~Pending(c)
      /\ OSTCBList \subseteq Tasks /\ tcb[c].prio \in OSRdyTbl /\ c # NoTask
      /\ OwnPrio(c) \in Nat /\ OwnPrio(c) < LowestPrio /\ OwnPrio(c) \in Prios
  BY <1>1, MutexCaller, MutexFacts, CoreAssumption DEF OSMutexPost, TaskCalls, CanCall
<1>3. /\ MutexHeld(e) /\ Owned(e) /\ OwnerPrio(e) = OwnPrio(c) /\ tcb[c].prio \in {OwnPrio(c), Pip(e)}
      /\ Pip(e) \in Prios /\ Pip(e) \in Nat /\ Pip(e) < OwnPrio(c)
  <2>1. MutexHeld(e) /\ Owned(e)
    BY <1>2 DEF MutexesLive, MutexesHeld, MutexHeld
  <2>2. Pip(e) \in Prios /\ Pip(e) < OwnPrio(c)
    BY <1>2, <2>1 DEF MutexHeld
  <2> QED BY <1>2, <2>1, <2>2, MutexFacts, PriosAreNat DEF MutexHeld
<1>4. /\ OSTCBPrioTbl[OwnPrio(c)] = c
      /\ ~raised => tcb[c].prio = OwnPrio(c) /\ OSTCBPrioTbl[Pip(e)] = Reserved
      /\ ~raised => Pip(e) \notin OSRdyTbl
  <2>1. OSTCBPrioTbl[OwnPrio(c)] = c
    BY <1>2 DEF MutexesLive, MutexTable
  <2>2. ~raised => tcb[c].prio = OwnPrio(c)
    BY <1>1, <1>3
  <2>3. ~raised => OSTCBPrioTbl[Pip(e)] = Reserved
    BY <1>1, <1>2, <1>3 DEF MutexHeld
  <2>4. ASSUME Pip(e) \in OSRdyTbl PROVE raised
    <3>1. PICK t \in OSTCBList : tcb[t].prio = Pip(e)
      BY <1>2, <2>4, MutexFacts DEF MutexesLive, MutexReady
    <3>2. t = c
      BY <1>2, <3>1, MutexFacts
    <3> QED BY <1>1, <3>1, <3>2
  <2> QED BY <2>1, <2>2, <2>3, <2>4
<1>5. PICK rdy : rdy = IF raised THEN RdyAtPrio(c, OwnerPrio(e)) ELSE OSRdyTbl
  OBVIOUS
<1>6. \A p : p \in rdy <=> (p \in OSRdyTbl /\ p # Pip(e)) \/ p = OwnPrio(c)
  <2>1. CASE raised
    BY <1>1, <1>3, <1>5, <2>1 DEF RdyAtPrio
  <2>2. CASE ~raised
    BY <1>2, <1>3, <1>4, <1>5, <2>2
  <2> QED BY <2>1, <2>2
<1>7. PICK S : S = {OSTCBPrioTbl[p] : p \in HighestWaiter(e)}
  OBVIOUS
<1>8. /\ OSTCBList' = OSTCBList /\ OSTCBCur' = OSTCBCur /\ OSPrioCur' = OSPrioCur
      /\ OSIntNesting' = OSIntNesting /\ OSLockNesting' = OSLockNesting
      /\ OSTCBPrioTbl' = [p \in Prios |-> IF p = Pip(e) THEN Reserved
                          ELSE IF raised /\ p = OwnerPrio(e) THEN c ELSE OSTCBPrioTbl[p]]
      /\ \/ /\ Waiters(e) # {}
            /\ tcb' = [x \in Tasks |->
                 IF x \in S THEN Awoken(x, e, NoMsg, {"MUTEX"}, "OK")
                 ELSE IF raised /\ x = c THEN LoweredTo(c, OwnerPrio(e)) ELSE tcb[x]]
            /\ OSRdyTbl' = rdy \cup Readied(S)
            /\ event' = [ListsWithout(S, e) EXCEPT
                 ![e].cnt = Min(Waiters(e)), ![e].ptr = OSTCBPrioTbl'[Min(Waiters(e))]]
            /\ CallSched
         \/ /\ Waiters(e) = {}
            /\ tcb' = IF raised THEN [tcb EXCEPT ![c] = LoweredTo(c, OwnerPrio(e))] ELSE tcb
            /\ OSRdyTbl' = rdy
            /\ event' = [event EXCEPT ![e].cnt = Available255, ![e].ptr = NoTask]
            /\ Return
  BY <1>1, <1>5, <1>7 DEF OSMutexPost, schedVars, runVars
<1>9. /\ tcb \in [Tasks -> MutexTCBs] /\ pc \in [Tasks -> MutexPlaces]
      /\ OSTCBPrioTbl \in [Prios -> Tasks \cup {Idle, NoTask, Reserved}]
      /\ DOMAIN event = Events /\ \A f \in Events : DOMAIN event[f] = EventFields
  BY DEF MutexesLive, MutexTypes, MutexBlocks
<1>10. /\ OSTCBPrioTbl' \in [Prios -> Tasks \cup {Idle, NoTask, Reserved}]
       /\ \A p \in Prios : OSTCBPrioTbl'[p] = IF p = Pip(e) THEN Reserved ELSE OSTCBPrioTbl[p]
  <2>1. OSTCBPrioTbl' = [p \in Prios |-> IF p = Pip(e) THEN Reserved
                          ELSE IF raised /\ p = OwnPrio(c) THEN c ELSE OSTCBPrioTbl[p]]
    BY <1>3, <1>8
  <2> QED BY <1>2, <1>4, <1>9, <2>1
<1>11. /\ Awoken(c, e, NoMsg, {"MUTEX"}, "OK") \in MutexTCBs
       /\ LoweredTo(c, OwnerPrio(e)) \in MutexTCBs /\ LoweredTo(c, OwnerPrio(e)).prio = OwnPrio(c)
       /\ LoweredTo(c, OwnerPrio(e)).dly = tcb[c].dly
  BY <1>2, <1>3, <1>9, MutexAwoken
<1>12. CASE Waiters(e) = {}
  <2>1. /\ OSRdyTbl' = rdy /\ pc' = pc /\ local' = local
        /\ tcb' = IF raised THEN [tcb EXCEPT ![c] = LoweredTo(c, OwnerPrio(e))] ELSE tcb
        /\ event' = [event EXCEPT ![e].cnt = Available255, ![e].ptr = NoTask]
    BY <1>8, <1>12 DEF Return, callVars
  <2>2. /\ tcb' \in [Tasks -> MutexTCBs] /\ tcb'[c].prio = OwnPrio(c) /\ tcb'[c].dly = tcb[c].dly
        /\ \A t \in Tasks : t # c => tcb'[t] = tcb[t]
    <3>1. CASE raised
      BY <1>2, <1>9, <1>11, <2>1, <3>1
    <3>2. CASE ~raised
      BY <1>4, <1>9, <2>1, <3>2
    <3> QED BY <3>1, <3>2
  <2>3. /\ DOMAIN event' = Events /\ \A f \in Events : f # e => event'[f] = event[f]
        /\ DOMAIN event'[e] = EventFields
        /\ event'[e].type = event[e].type /\ event'[e].pip = event[e].pip /\ event'[e].grp = event[e].grp
        /\ event'[e].cnt = Available255 /\ event'[e].ptr = NoTask
    BY <1>9, <2>1 DEF EventFields
  <2>4. MutexBlocks(event')
    BY <1>9, <2>3 DEF MutexBlocks, MayBeMutex
  <2>5. event[e].grp = {}
    BY <1>12 DEF Waiters
  <2>6. PassedOn(e, c, NoTask)
    <3>1. /\ OSTCBList' = OSTCBList /\ OSTCBCur' = OSTCBCur /\ OSPrioCur' = OSPrioCur
          /\ OSIntNesting' = OSIntNesting /\ OSLockNesting' = OSLockNesting /\ local' = local
          /\ pc' = pc /\ pc[c] = "run" /\ pc' \in [Tasks -> MutexPlaces] /\ NoTask \notin Tasks
      BY <1>2, <1>8, <1>9, <2>1, CoreAssumption
    <3>2. \A p : p \in OSRdyTbl' <=>
            (p \in OSRdyTbl /\ p # Pip(e)) \/ p = OwnPrio(c) \/ (NoTask \in Tasks /\ p = tcb[NoTask].prio)
      BY <1>6, <2>1, <3>1
    <3> QED BY <1>10, <2>2, <2>3, <2>4, <2>5, <3>1, <3>2 DEF PassedOn
  <2> QED BY <1>1, <1>2, <2>6
<1>13. CASE Waiters(e) # {}
  <2>1. /\ OSRdyTbl' = rdy \cup Readied(S) /\ pc' = [pc EXCEPT ![c] = "sched"] /\ local' = local
        /\ tcb' = [x \in Tasks |->
             IF x \in S THEN Awoken(x, e, NoMsg, {"MUTEX"}, "OK")
             ELSE IF raised /\ x = c THEN LoweredTo(c, OwnerPrio(e)) ELSE tcb[x]]
        /\ event' = [ListsWithout(S, e) EXCEPT
             ![e].cnt = Min(Waiters(e)), ![e].ptr = OSTCBPrioTbl'[Min(Waiters(e))]]
    BY <1>1, <1>2, <1>8, <1>13 DEF CallSched
  <2>2. PICK m : m = Min(Waiters(e))
    OBVIOUS
  <2>3. /\ Waiters(e) \in SUBSET Nat
        /\ \A p \in Waiters(e) : \E t \in OSTCBList : tcb[t].prio = p /\ WaitsFor(t, e)
    <3>1. \A p \in Waiters(e) : \E t \in OSTCBList : tcb[t].prio = p /\ WaitsFor(t, e)
      BY DEF MutexesLive, MutexWaits
    <3> QED BY <3>1, MutexFacts, PriosAreNat
  <2>4. m \in Waiters(e) /\ \A p \in Waiters(e) : m <= p
    BY <1>13, <2>2, <2>3, MinOfSet
  <2>5. PICK n \in OSTCBList : tcb[n].prio = m /\ WaitsFor(n, e)
    BY <2>3, <2>4
  <2>6. /\ n \in Tasks /\ n # c /\ m = OwnPrio(n) /\ m \in Prios /\ OSTCBPrioTbl[m] = n /\ m # Pip(e)
    <3>1. n # c /\ ~OwnsOne(n)
      BY <1>2, <2>5 DEF WaitsFor
    <3>2. OwnPrio(n) = tcb[n].prio /\ OwnPrio(n) \in Prios /\ OwnPrio(n) \in Nat
      BY <3>1, MutexFacts
    <3>3. Pip(e) < OwnPrio(n)
      BY <1>3 DEF MutexHeld
    <3>4. OSTCBPrioTbl[OwnPrio(n)] = n
      BY DEF MutexesLive, MutexTable
    <3> QED BY <1>2, <1>3, <2>5, <3>1, <3>2, <3>3, <3>4
  <2>7. S = {n} /\ OSTCBPrioTbl'[m] = n
    BY <1>7, <1>10, <2>2, <2>6 DEF HighestWaiter
  <2>8. tcb[n].stat \subseteq {"MUTEX"} /\ tcb[n].multi = {} /\ tcb[n] \in MutexTCBs
    BY <1>9, <2>6 DEF MutexTCBs
  <2>9. Readied(S) = {m}
    BY <2>5, <2>7, <2>8 DEF Readied
  <2>10. PICK E : E = ListsWithout(S, e)
    OBVIOUS
  <2>11. /\ DOMAIN E = Events
         /\ \A f \in Events : f # e => /\ DOMAIN E[f] = EventFields /\ E[f].type = event[f].type
                                       /\ E[f].pip = event[f].pip /\ E[f].cnt = event[f].cnt
                                       /\ E[f].ptr = event[f].ptr /\ E[f].grp = event[f].grp
         /\ DOMAIN E[e] = EventFields /\ E[e].type = event[e].type /\ E[e].pip = event[e].pip
         /\ E[e].grp = event[e].grp \ {m}
    <3>1. E = [x \in Events |-> [event[x] EXCEPT
            !.grp = event[x].grp \ {tcb[t].prio : t \in {u \in S : x = e \/ x \in tcb[u].multi}}]]
      BY <2>10 DEF ListsWithout
    <3>2. ASSUME NEW f \in Events
          PROVE  {tcb[t].prio : t \in {u \in S : f = e \/ f \in tcb[u].multi}} = IF f = e THEN {m} ELSE {}
      BY <2>5, <2>7, <2>8
    <3>3. ASSUME NEW f \in Events
          PROVE  E[f] = [event[f] EXCEPT !.grp = event[f].grp \ (IF f = e THEN {m} ELSE {})]
      BY <3>1, <3>2
    <3>4. ASSUME NEW f \in Events
          PROVE  /\ DOMAIN E[f] = EventFields /\ E[f].type = event[f].type
                 /\ E[f].pip = event[f].pip /\ E[f].cnt = event[f].cnt /\ E[f].ptr = event[f].ptr
                 /\ E[f].grp = event[f].grp \ (IF f = e THEN {m} ELSE {})
      BY <1>9, <3>3 DEF EventFields
    <3>5. DOMAIN E = Events
      BY <3>1
    <3>6. \A f \in Events : f # e => E[f].grp = event[f].grp
      BY <3>4
    <3>7. E[e].grp = event[e].grp \ {m}
      BY <3>4
    <3> QED BY <3>4, <3>5, <3>6, <3>7
  <2>12. /\ DOMAIN event' = Events
         /\ \A f \in Events : f # e => event'[f] = E[f]
         /\ DOMAIN event'[e] = EventFields /\ event'[e].type = event[e].type
         /\ event'[e].pip = event[e].pip /\ event'[e].grp = event[e].grp \ {m}
         /\ event'[e].cnt = m /\ event'[e].ptr = n
    <3>1. event' = [E EXCEPT ![e].cnt = m, ![e].ptr = n]
      BY <2>1, <2>2, <2>7, <2>10
    <3> QED BY <2>11, <3>1 DEF EventFields
  <2>13. MutexBlocks(event')
    <3>1. ASSUME NEW f \in Events
          PROVE  DOMAIN event'[f] = EventFields /\ event'[f].type = event[f].type
      BY <2>11, <2>12
    <3>2. \A f : MayBeMutex(f)' = MayBeMutex(f)
      BY DEF MayBeMutex
    <3> QED BY <2>12, <3>1, <3>2 DEF MutexBlocks
  <2>14. /\ tcb' \in [Tasks -> MutexTCBs] /\ tcb'[c].prio = OwnPrio(c) /\ tcb'[c].dly = tcb[c].dly
         /\ \A t \in Tasks : t # c /\ t # n => tcb'[t] = tcb[t]
         /\ tcb'[n].prio = tcb[n].prio /\ tcb'[n].dly = 0
    <3>1. PICK a, l : a = Awoken(n, e, NoMsg, {"MUTEX"}, "OK") /\ l = LoweredTo(c, OwnerPrio(e))
      OBVIOUS
    <3>2. a \in MutexTCBs /\ a.prio = tcb[n].prio /\ a.dly = 0
      BY <1>2, <1>9, <2>6, <3>1, MutexAwoken
    <3>3. l \in MutexTCBs /\ l.prio = OwnPrio(c) /\ l.dly = tcb[c].dly
      BY <1>11, <3>1
    <3>4. tcb' = [x \in Tasks |-> IF x = n THEN Awoken(x, e, NoMsg, {"MUTEX"}, "OK")
                                   ELSE IF raised /\ x = c THEN l ELSE tcb[x]]
      BY <2>1, <2>7, <3>1
    <3>5. /\ tcb'[n] = a /\ tcb'[c] = IF raised THEN l ELSE tcb[c]
          /\ \A t \in Tasks : t # c /\ t # n => tcb'[t] = tcb[t]
      BY <1>2, <2>6, <3>1, <3>4
    <3>6. \A t \in Tasks : tcb'[t] \in MutexTCBs
      BY <1>2, <1>9, <2>6, <3>2, <3>3, <3>5
    <3>7. tcb' \in [Tasks -> MutexTCBs]
      BY <3>4, <3>6
    <3> QED BY <1>4, <3>2, <3>3, <3>5, <3>7
  <2>15. \A p : p \in OSRdyTbl' <=>
           (p \in OSRdyTbl /\ p # Pip(e)) \/ p = OwnPrio(c) \/ (n \in Tasks /\ p = tcb[n].prio)
    BY <1>6, <2>1, <2>5, <2>6, <2>9
  <2>16. /\ pc' \in [Tasks -> MutexPlaces] /\ (\A t \in Tasks : t # c => pc'[t] = pc[t])
         /\ pc'[c] = "sched"
    BY <1>2, <1>9, <2>1 DEF MutexPlaces
  <2>17. /\ OwnPrio(n) \in Waiters(e) /\ event'[e].cnt = OwnPrio(n)
         /\ event'[e].grp = event[e].grp \ {OwnPrio(n)} /\ \A p \in Waiters(e) : OwnPrio(n) <= p
    BY <2>4, <2>6, <2>12
  <2>18. /\ \A f \in Events : event'[f].type = event[f].type /\ event'[f].pip = event[f].pip
         /\ \A f \in Events : f # e => /\ event'[f].cnt = event[f].cnt /\ event'[f].ptr = event[f].ptr
                                       /\ event'[f].grp = event[f].grp
    BY <2>11, <2>12
  <2>19. PassedOn(e, c, n)
    BY <1>8, <1>10, <2>1, <2>5, <2>12, <2>13, <2>14, <2>15, <2>16, <2>17, <2>18 DEF PassedOn
  <2> QED BY <1>1, <1>2, <2>19
<1> QED BY <1>12, <1>13

LEMMA MutexPost ==
  ASSUME app \in Apps, MutexBlocks(event), MutexesLive, NEW e \in Events, OSMutexPost(e), app' = app
  PROVE  MutexesLive' /\ MutexBlocks(event')
BY MutexPostPasses, MutexPassOn

(* A task creates a mutex: its priority, still free, is above every task's *)
(* and no other mutex's.                                                   *)
LEMMA MutexCreate ==
  ASSUME app \in Apps, MutexBlocks(event), MutexesLive, MutexRules, "OSMutexCreate" \in app.calls,
         NEW e \in Events, NEW prio \in Prios, OSMutexCreate(e, prio), app' = app
  PROVE  MutexesLive' /\ MutexBlocks(event')
<1>1. /\ OSTCBPrioTbl[prio] = NoTask /\ event[e].type = "unused" /\ ~IsMutex(e)
      /\ event' = [event EXCEPT ![e] = MutexFresh(prio)]
      /\ OSTCBPrioTbl' = [OSTCBPrioTbl EXCEPT ![prio] = Reserved]
      /\ OSTCBCur' = OSTCBCur /\ OSPrioCur' = OSPrioCur /\ OSIntNesting' = OSIntNesting
      /\ OSLockNesting' = OSLockNesting /\ OSTCBList' = OSTCBList /\ OSRdyTbl' = OSRdyTbl
      /\ tcb' = tcb /\ pc' = pc /\ local' = local
  BY DEF OSMutexCreate, EventInit, IsMutex, schedVars, runVars, callVars
<1>2. /\ OSTCBList \subseteq Tasks /\ NoTask \notin OSTCBList /\ OSTCBList = app.tasks
      /\ \A t \in OSTCBList : /\ OwnPrio(t) \in Nat /\ OwnPrio(t) \in Prios /\ tcb[t].prio \in Prios
                              /\ OSTCBPrioTbl[OwnPrio(t)] = t /\ OSTCBPrioTbl[tcb[t].prio] = t
      /\ OSTCBPrioTbl[LowestPrio] = Idle
      /\ OSTCBPrioTbl \in [Prios -> Tasks \cup {Idle, NoTask, Reserved}]
  BY MutexFacts, CoreAssumption DEF MutexesLive, MutexTypes, MutexTable
<1>3. /\ prio # LowestPrio /\ prio \in 0..LowestPrio - 1 /\ prio \in Nat
      /\ \A t \in OSTCBList : OwnPrio(t) # prio /\ tcb[t].prio # prio
  <2>1. prio # LowestPrio
    BY <1>1, <1>2, CoreAssumption
  <2>2. \A t \in OSTCBList : OwnPrio(t) # prio /\ tcb[t].prio # prio
    BY <1>1, <1>2
  <2> QED BY <2>1, <2>2, CoreAssumption DEF Prios
<1>4. \A t \in OSTCBList : prio < OwnPrio(t)
  <2> TAKE t \in OSTCBList
  <2>1. OwnPrio(t) <= prio => \E u \in OSTCBList : OwnPrio(u) = prio
    BY <1>2, <1>3 DEF MutexRules, OwnPrio
  <2> QED BY <1>2, <1>3, <2>1
<1>5. \A f \in Events : IsMutex(f) =>
        /\ f # e /\ Pip(f) # prio /\ Pip(f) \in Prios
        /\ Owned(f) => Owner(f) \in OSTCBList /\ Owner(f) # NoTask
  <2> TAKE f \in Events
  <2> HAVE IsMutex(f)
  <2>1. MutexHeld(f)
    BY DEF MutexesLive, MutexesHeld
  <2>2. OSTCBPrioTbl[Pip(f)] # NoTask
    BY <1>2, <2>1, CoreAssumption DEF MutexHeld
  <2> QED BY <1>1, <1>2, <2>1, <2>2 DEF MutexHeld
<1>6. /\ DOMAIN event' = Events /\ event'[e] = MutexFresh(prio)
      /\ \A f \in Events : f # e => event'[f] = event[f]
      /\ \A f \in Events : DOMAIN event[f] = EventFields
  BY <1>1 DEF MutexBlocks
<1>7. /\ DOMAIN MutexFresh(prio) = EventFields /\ MutexFresh(prio).type = "mutex"
      /\ MutexFresh(prio).cnt = Available255 /\ MutexFresh(prio).pip = prio
      /\ MutexFresh(prio).ptr = NoTask /\ MutexFresh(prio).grp = {}
  BY DEF MutexFresh, EventClear, EventFields
<1>8. MutexBlocks(event')
  <2>1. \A f : MayBeMutex(f)' = MayBeMutex(f)
    BY DEF MayBeMutex
  <2>2. MayBeMutex(e)
    BY <1>1 DEF MutexBlocks
  <2>3. ASSUME NEW f \in Events
        PROVE  /\ DOMAIN event'[f] = EventFields
               /\ event'[f].type \in {"mutex", "unused"} => MayBeMutex(f)
    BY <1>6, <1>7, <2>2 DEF MutexBlocks
  <2> QED BY <1>6, <2>1, <2>3 DEF MutexBlocks
<1>9. /\ IsMutex(e)' /\ ~Owned(e)' /\ Owner(e)' = NoTask /\ Pip(e)' = prio /\ Waiters(e)' = {}
      /\ \A f \in Events : f # e => /\ IsMutex(f)' = IsMutex(f) /\ Pip(f)' = Pip(f) /\ Waiters(f)' = Waiters(f)
                                    /\ Owner(f)' = Owner(f) /\ OwnerPrio(f)' = OwnerPrio(f)
                                    /\ Owned(f)' = Owned(f)
      /\ \A t : OwnPrio(t)' = OwnPrio(t) /\ Pending(t)' = Pending(t)
  BY <1>1, <1>6, <1>7 DEF IsMutex, Owned, Owner, OwnerPrio, Pip, Waiters, OwnPrio, Pending
<1>10. \A t \in OSTCBList : \A f \in Events : Owns(t, f)' = Owns(t, f)
  BY <1>1, <1>2, <1>9 DEF Owns
<1>11. \A t \in OSTCBList : OwnsOne(t)' = OwnsOne(t)
  BY <1>10 DEF OwnsOne
<1>12. \A p \in Prios : OSTCBPrioTbl'[p] = IF p = prio THEN Reserved ELSE OSTCBPrioTbl[p]
  BY <1>1, <1>2
<1>13. MutexTypes'
  BY <1>1, <1>2 DEF MutexesLive, MutexTypes
<1>14. MutexTable'
  <2>1. OSTCBPrioTbl'[LowestPrio] = Idle
    BY <1>2, <1>3, <1>12, PriosAreNat
  <2>2. \A t \in OSTCBList : OSTCBPrioTbl'[OwnPrio(t)] = t /\ OSTCBPrioTbl'[tcb[t].prio] = t
    BY <1>2, <1>3, <1>12
  <2>3. ASSUME NEW t \in OSTCBList
        PROVE  tcb'[t].prio = OwnPrio(t) \/ \E f \in Events : Owns(t, f)' /\ tcb'[t].prio = Pip(f)'
    <3>1. ASSUME NEW f \in Events, Owns(t, f), tcb[t].prio = Pip(f)
          PROVE  Owns(t, f)' /\ tcb'[t].prio = Pip(f)'
      BY <1>1, <1>5, <1>9, <1>10, <3>1 DEF Owns
    <3> QED BY <1>1, <3>1 DEF MutexesLive, MutexTable
  <2> QED BY <1>1, <1>9, <2>1, <2>2, <2>3 DEF MutexTable
<1>15. MutexesHeld'
  <2>1. MutexHeld(e)'
    <3>1. \A t \in OSTCBList : Pending(t) => e \notin local[t].events
      BY <1>1 DEF MutexesLive, MutexWaits, MutexRules, MutexGone
    <3>2. \A f \in Events : IsMutex(f)' /\ f # e => Pip(e)' # Pip(f)'
      BY <1>5, <1>9
    <3>3. OSTCBPrioTbl'[prio] = Reserved
      BY <1>12
    <3>4. Pip(e)' \in Prios /\ \A t \in OSTCBList' : Pip(e)' < OwnPrio(t)'
      BY <1>1, <1>4, <1>9
    <3> QED BY <1>1, <1>9, <3>1, <3>2, <3>3, <3>4 DEF MutexHeld
  <2>2. ASSUME NEW f \in Events, IsMutex(f)', f # e
        PROVE  MutexHeld(f)'
    <3>1. /\ IsMutex(f) /\ MutexHeld(f) /\ Pip(f) # prio /\ Pip(f) \in Prios
          /\ IsMutex(f)' = IsMutex(f) /\ Pip(f)' = Pip(f) /\ Waiters(f)' = Waiters(f)
          /\ Owner(f)' = Owner(f) /\ OwnerPrio(f)' = OwnerPrio(f) /\ Owned(f)' = Owned(f)
          /\ Owned(f) => Owner(f) # NoTask
      BY <1>5, <1>9, <2>2 DEF MutexesLive, MutexesHeld
    <3>2. \A g \in Events : IsMutex(g)' /\ g # f => Pip(f)' # Pip(g)' /\ (Owned(f)' => Owner(f)' # Owner(g)')
      BY <1>9, <3>1 DEF MutexHeld
    <3>3. OSTCBPrioTbl'[Pip(f)'] = IF Owned(f)' /\ tcb'[Owner(f)'].prio = Pip(f)' THEN Owner(f)' ELSE Reserved
      BY <1>1, <1>12, <3>1 DEF MutexHeld
    <3>4. OwnPrio(Owner(f))' = OwnPrio(Owner(f))
      BY <3>1 DEF OwnPrio
    <3> QED BY <1>1, <1>9, <3>1, <3>2, <3>3, <3>4 DEF MutexHeld
  <2> QED BY <2>1, <2>2 DEF MutexesHeld
<1>16. MutexWaits'
  <2>1. ASSUME NEW f \in Events, NEW p \in Waiters(f)'
        PROVE  \E t \in OSTCBList' : tcb'[t].prio = p /\ WaitsFor(t, f)'
    <3>1. f # e /\ p \in Waiters(f)
      BY <1>9, <2>1
    <3>2. PICK t \in OSTCBList : tcb[t].prio = p /\ WaitsFor(t, f)
      BY <3>1 DEF MutexesLive, MutexWaits
    <3>3. WaitsFor(t, f)'
      BY <1>1, <1>9, <1>11, <3>1, <3>2 DEF WaitsFor
    <3> QED BY <1>1, <3>2, <3>3
  <2>2. ASSUME NEW t \in OSTCBList, NEW f \in Events, Pending(t)', f \in local'[t].events
        PROVE  IsMutex(f)'
    BY <1>1, <1>9, <2>2 DEF MutexesLive, MutexWaits, MutexRules, MutexGone
  <2> QED BY <1>1, <2>1, <2>2 DEF MutexWaits
<1>17. MutexReady'
  <2>1. \A f \in Events : Waiters(f) \subseteq Waiters(f)'
    BY <1>1, <1>9 DEF MutexesLive, MutexWaits, WaitsFor
  <2>2. \A t \in OSTCBList : InList(t) => InList(t)'
    BY <1>1, <1>2, <1>9, <2>1, StaysInList DEF MutexesLive
  <2> QED BY <1>1, <2>2 DEF MutexesLive, MutexReady
<1>18. MutexSched'
  <2>1. ASSUME StalePrio(OSTCBCur) PROVE StalePrio(OSTCBCur)'
    <3>1. OSTCBPrioTbl'[OSPrioCur] \notin Tasks \cup {Idle} /\ OSPrioCur \in Prios
      BY <1>12, <2>1, CoreAssumption DEF StalePrio
    <3>2. \/ pc'[OSTCBCur] = "sched"
          \/ \A f \in Events : IsMutex(f)' /\ Pip(f)' = OSPrioCur => Owner(f)' \in {OSTCBCur, NoTask}
      BY <1>1, <1>9, <2>1 DEF StalePrio
    <3> QED BY <1>1, <3>1, <3>2 DEF StalePrio
  <2>2. InISR' = InISR
    BY <1>1 DEF InISR
  <2> QED BY <1>1, <2>1, <2>2 DEF MutexesLive, MutexSched
<1> QED BY <1>8, <1>13, <1>14, <1>15, <1>16, <1>17, <1>18 DEF MutexesLive

(* An application that deletes mutexes has one at most.                    *)
LEMMA MutexDelEvents ==
  ASSUME MutexBlocks(event), MutexRules, "OSMutexDel" \in app.calls,
         NEW e \in Events, NEW always, OSMutexDel(e, always), app' = app
  PROVE  /\ MutexGone' /\ MutexBlocks(event') /\ (\A f \in Events : IsMutex(f) => f = e)
         /\ \A f \in Events : Waiters(f)' \subseteq IF f = e THEN {} ELSE Waiters(f)
<1>1. PICK S : S = {OSTCBPrioTbl[p] : p \in Waiters(e)}
  OBVIOUS
<1>2. IsMutex(e) /\ event' = [ListsWithout(S, e) EXCEPT ![e] = EventClear]
  BY <1>1 DEF OSMutexDel
<1>3. DOMAIN event = Events /\ \A f \in Events : DOMAIN event[f] = EventFields
  BY DEF MutexBlocks
<1>4. PICK E : E = ListsWithout(S, e)
  OBVIOUS
<1>5. /\ DOMAIN E = Events
      /\ \A f \in Events : /\ DOMAIN E[f] = EventFields /\ E[f].type = event[f].type
                            /\ E[f].grp \subseteq event[f].grp
  BY <1>3, <1>4 DEF ListsWithout, EventFields
<1>6. DOMAIN EventClear = EventFields /\ EventClear.type = "unused" /\ EventClear.grp = {}
  BY DEF EventClear, EventFields
<1>7. /\ DOMAIN event' = Events /\ event'[e] = EventClear
      /\ \A f \in Events : f # e => /\ DOMAIN event'[f] = EventFields /\ event'[f].type = event[f].type
                                    /\ event'[f].grp \subseteq event[f].grp
  BY <1>2, <1>4, <1>5
<1>8. MayBeMutex(e) /\ \A f \in Events : IsMutex(f) => f = e
  BY <1>2 DEF MutexBlocks, MutexRules, IsMutex
<1>9. \A f : MayBeMutex(f)' = MayBeMutex(f)
  BY DEF MayBeMutex
<1>10. MutexBlocks(event')
  BY <1>6, <1>7, <1>8, <1>9 DEF MutexBlocks
<1>11. \A f \in Events : ~IsMutex(f)'
  BY <1>6, <1>7, <1>8 DEF IsMutex
<1>12. \A f \in Events : Waiters(f)' \subseteq IF f = e THEN {} ELSE Waiters(f)
  BY <1>6, <1>7 DEF Waiters
<1> QED BY <1>8, <1>10, <1>11, <1>12 DEF MutexGone

(* A raised owner goes back to its priority, all who wait are made ready.  *)
LEMMA MutexDel ==
  ASSUME app \in Apps, MutexBlocks(event), MutexesLive, MutexRules, "OSMutexDel" \in app.calls,
         NEW e \in Events, NEW always, OSMutexDel(e, always), app' = app
  PROVE  MutexesLive' /\ MutexBlocks(event')
<1>1. PICK S, c, o : S = {OSTCBPrioTbl[p] : p \in Waiters(e)} /\ c = OSTCBCur /\ o = Owner(e)
  OBVIOUS
<1>2. PICK raised : raised = (always /\ o # NoTask /\ tcb[o].prio = Pip(e))
  OBVIOUS
<1>3. /\ TaskCalls /\ IsMutex(e) /\ ~InISR /\ c # Idle /\ pc[c] = "run" /\ c \in OSTCBList /\ c \in Tasks
      /\ ~Pending(c) /\ OSTCBList \subseteq Tasks /\ tcb[c].prio = Min(OSRdyTbl)
      /\ NoTask \notin Tasks
  BY <1>1, MutexCaller, MutexFacts, CoreAssumption DEF OSMutexDel, TaskCalls, CanCall
<1>4. /\ OSTCBList' = OSTCBList /\ OSTCBCur' = OSTCBCur /\ OSPrioCur' = OSPrioCur
      /\ OSIntNesting' = OSIntNesting /\ OSLockNesting' = OSLockNesting
      /\ always \/ Waiters(e) = {}
      /\ tcb' = [x \in Tasks |->
           IF x \in S THEN Awoken(x, e, NoMsg, {"MUTEX"}, "OK")
           ELSE IF raised /\ x = o THEN LoweredTo(o, OwnerPrio(e)) ELSE tcb[x]]
      /\ OSRdyTbl' = (IF raised THEN RdyAtPrio(o, OwnerPrio(e)) ELSE OSRdyTbl) \cup Readied(S)
      /\ OSTCBPrioTbl' = [p \in Prios |-> IF p = Pip(e) THEN NoTask
                          ELSE IF raised /\ p = OwnerPrio(e) THEN o ELSE OSTCBPrioTbl[p]]
      /\ IF Waiters(e) # {} THEN CallSched ELSE Return
  BY <1>1, <1>2 DEF OSMutexDel, schedVars, runVars
<1>5. /\ MutexGone' /\ MutexBlocks(event') /\ (\A f \in Events : IsMutex(f) => f = e)
      /\ \A f \in Events : ~IsMutex(f)' /\ Waiters(f)' = {}
  <2>1. /\ MutexGone' /\ MutexBlocks(event') /\ (\A f \in Events : IsMutex(f) => f = e)
        /\ \A f \in Events : Waiters(f)' \subseteq IF f = e THEN {} ELSE Waiters(f)
    BY MutexDelEvents
  <2>2. \A f \in Events : f # e => Waiters(f) = {}
    BY <2>1 DEF MutexesLive, MutexWaits, WaitsFor
  <2> QED BY <2>1, <2>2 DEF MutexGone
<1>6. /\ MutexHeld(e) /\ Pip(e) \in Prios /\ Pip(e) \in Nat /\ Pip(e) # LowestPrio
      /\ \A t \in OSTCBList : OwnPrio(t) \in Prios /\ OwnPrio(t) # Pip(e) /\ tcb[t].prio # LowestPrio
  <2>1. MutexHeld(e) /\ Pip(e) \in Prios /\ Pip(e) # LowestPrio
    BY <1>3, MutexFacts DEF MutexesLive, MutexesHeld, MutexHeld
  <2>2. \A t \in OSTCBList : OwnPrio(t) \in Nat /\ Pip(e) < OwnPrio(t)
    BY <2>1, MutexFacts DEF MutexHeld
  <2>3. Pip(e) \in Nat
    BY <2>1, PriosAreNat
  <2>4. \A t \in OSTCBList : OwnPrio(t) # Pip(e)
    BY <2>2, <2>3
  <2>5. \A t \in OSTCBList : OwnPrio(t) \in Prios /\ tcb[t].prio # LowestPrio
    BY MutexFacts
  <2> QED BY <2>1, <2>3, <2>4, <2>5
<1>7. raised => /\ o \in OSTCBList /\ o \in Tasks /\ OwnerPrio(e) = OwnPrio(o) /\ tcb[o].prio = Pip(e)
                /\ Pip(e) \in OSRdyTbl /\ OSTCBPrioTbl[OwnPrio(o)] = o /\ Waiters(e) # {}
  BY <1>1, <1>2, <1>3, <1>6 DEF MutexHeld, MutexesLive, MutexTable
<1>8. ~raised => /\ \A t \in OSTCBList : tcb[t].prio # Pip(e)
                 /\ Pip(e) \notin OSRdyTbl
  <2>1. ASSUME ~raised, NEW t \in OSTCBList, tcb[t].prio = Pip(e) PROVE FALSE
    <3>1. t = o /\ o # NoTask
      BY <1>1, <1>3, <2>1, MutexFacts
    <3>2. Waiters(e) # {}
      BY <1>1, <1>6, <2>1, <3>1 DEF MutexHeld
    <3> QED BY <1>2, <1>4, <2>1, <3>1, <3>2
  <2> QED BY <1>6, <2>1 DEF MutexesLive, MutexReady
<1>9. ASSUME NEW t \in OSTCBList PROVE tcb[t].prio = OwnPrio(t) \/ (raised /\ t = o)
  <2>1. CASE OwnsOne(t)
    <3>1. t = o /\ tcb[t].prio \in {OwnPrio(t), Pip(e)}
      BY <1>1, <1>5, <1>9, <2>1 DEF OwnsOne, Owns, MutexesLive, MutexTable
    <3> QED BY <1>8, <3>1
  <2>2. CASE ~OwnsOne(t)
    BY <2>2, MutexFacts
  <2> QED BY <2>1, <2>2
<1>10. /\ \A p \in Waiters(e) : OSTCBPrioTbl[p] \in S
       /\ \A t \in S : t \in OSTCBList /\ WaitsFor(t, e) /\ tcb[t].prio \in Waiters(e)
       /\ \A t \in OSTCBList : tcb[t].prio \in Waiters(e) => t \in S
       /\ \A p \in Waiters(e) : \E t \in S : tcb[t].prio = p
  <2>1. ASSUME NEW p \in Waiters(e)
        PROVE  \E t \in OSTCBList : tcb[t].prio = p /\ WaitsFor(t, e) /\ OSTCBPrioTbl[p] = t
    BY <2>1 DEF MutexesLive, MutexWaits, MutexTable
  <2>2. \A t \in OSTCBList : OSTCBPrioTbl[tcb[t].prio] = t
    BY DEF MutexesLive, MutexTable
  <2> QED BY <1>1, <2>1, <2>2
<1>11. \A t \in S : t \in Tasks /\ t # c /\ ~(raised /\ t = o) /\ tcb[t].prio = OwnPrio(t)
  BY <1>1, <1>3, <1>9, <1>10 DEF WaitsFor, OwnsOne, Owns
<1>12. /\ tcb \in [Tasks -> MutexTCBs] /\ pc \in [Tasks -> MutexPlaces] /\ local \in [Tasks -> MutexLocals]
       /\ OSTCBPrioTbl \in [Prios -> Tasks \cup {Idle, NoTask, Reserved}]
       /\ OSRdyTbl \subseteq Prios /\ LowestPrio \in OSRdyTbl
  BY DEF MutexesLive, MutexTypes
<1>13. /\ tcb' \in [Tasks -> MutexTCBs]
       /\ \A t \in OSTCBList : tcb'[t].prio = OwnPrio(t) /\ tcb'[t].dly = IF t \in S THEN 0 ELSE tcb[t].dly
  <2>1. ASSUME NEW t \in S
        PROVE  tcb'[t] \in MutexTCBs /\ tcb'[t].prio = OwnPrio(t) /\ tcb'[t].dly = 0
    <3>1. tcb'[t] = Awoken(t, e, NoMsg, {"MUTEX"}, "OK") /\ t \in Tasks
      BY <1>4, <1>11
    <3> QED BY <1>6, <1>11, <1>12, <3>1, MutexAwoken
  <2>2. ASSUME raised
        PROVE  tcb'[o] \in MutexTCBs /\ tcb'[o].prio = OwnPrio(o) /\ tcb'[o].dly = tcb[o].dly
    <3>1. o \notin S
      BY <1>11, <2>2
    <3>2. tcb'[o] = LoweredTo(o, OwnPrio(o))
      BY <1>4, <1>7, <2>2, <3>1
    <3>3. o \in Tasks /\ OwnPrio(o) \in Prios
      BY <1>6, <1>7, <2>2
    <3>4. PICK l : l = LoweredTo(o, OwnPrio(o))
      OBVIOUS
    <3>5. l \in MutexTCBs /\ l.prio = OwnPrio(o) /\ l.dly = tcb[o].dly
      BY <1>12, <3>3, <3>4, MutexAwoken
    <3> QED BY <3>2, <3>4, <3>5
  <2>3. ASSUME NEW t \in Tasks, t \notin S, ~(raised /\ t = o) PROVE tcb'[t] = tcb[t] /\ tcb[t] \in MutexTCBs
    BY <1>4, <1>12, <2>3
  <2>4. \A t \in Tasks : tcb'[t] \in MutexTCBs
    BY <2>1, <2>2, <2>3
  <2>5. tcb' \in [Tasks -> MutexTCBs]
    BY <1>4, <2>4
  <2>6. ASSUME NEW t \in OSTCBList
        PROVE  tcb'[t].prio = OwnPrio(t) /\ tcb'[t].dly = IF t \in S THEN 0 ELSE tcb[t].dly
    BY <1>3, <1>9, <1>11, <2>1, <2>2, <2>3
  <2> QED BY <2>5, <2>6
<1>14. \A p : p \in OSRdyTbl' <=>
         (p \in OSRdyTbl /\ p # Pip(e)) \/ (raised /\ p = OwnPrio(o)) \/ p \in Waiters(e)
  <2>1. \A t \in S : "SUSPEND" \notin tcb[t].stat
    BY <1>11, <1>12 DEF MutexTCBs
  <2>2. \A p : p \in Readied(S) <=> p \in Waiters(e)
    BY <1>10, <2>1 DEF Readied
  <2>3. CASE raised
    BY <1>4, <1>7, <2>2, <2>3 DEF RdyAtPrio
  <2>4. CASE ~raised
    BY <1>4, <1>8, <2>2, <2>4
  <2> QED BY <2>3, <2>4
<1>15. /\ OSTCBPrioTbl' \in [Prios -> Tasks \cup {Idle, NoTask, Reserved}]
       /\ \A p \in Prios : OSTCBPrioTbl'[p] = IF p = Pip(e) THEN NoTask ELSE OSTCBPrioTbl[p]
  BY <1>4, <1>7, <1>12
<1>16. /\ local' = local /\ pc' \in [Tasks -> MutexPlaces] /\ (\A t \in Tasks : Pending(t)' = Pending(t))
       /\ \A t : OwnPrio(t)' = OwnPrio(t)
       /\ Waiters(e) # {} => pc'[c] = "sched"
       /\ Waiters(e) = {} => pc' = pc
  <2>1. CASE Waiters(e) # {}
    <3>1. pc' = [pc EXCEPT ![c] = "sched"] /\ local' = local
      BY <1>1, <1>3, <1>4, <2>1 DEF CallSched
    <3> QED BY <1>3, <1>12, <2>1, <3>1 DEF MutexPlaces, Pending, OwnPrio
  <2>2. CASE Waiters(e) = {}
    BY <1>4, <1>12, <2>2 DEF Return, callVars, Pending, OwnPrio
  <2> QED BY <2>1, <2>2
<1>17. MutexTypes'
  <2>1. \A p \in Waiters(e) : p \in Prios
    BY <1>6, <1>10, <1>11
  <2>2. OSRdyTbl' \subseteq Prios /\ LowestPrio \in OSRdyTbl'
    BY <1>6, <1>7, <1>12, <1>14, <2>1
  <2> QED BY <1>4, <1>12, <1>13, <1>15, <1>16, <2>2 DEF MutexesLive, MutexTypes
<1>18. MutexTable'
  <2>1. OSTCBPrioTbl'[LowestPrio] = Idle
    BY <1>6, <1>12, <1>15 DEF MutexesLive, MutexTable
  <2>2. ASSUME NEW t \in OSTCBList
        PROVE  tcb'[t].prio = OwnPrio(t) /\ OSTCBPrioTbl'[OwnPrio(t)] = t
    BY <1>6, <1>13, <1>15 DEF MutexesLive, MutexTable
  <2> QED BY <1>4, <1>16, <2>1, <2>2 DEF MutexTable
<1>19. MutexesHeld' /\ MutexWaits'
  BY <1>5 DEF MutexesHeld, MutexWaits
<1>20. ASSUME NEW t \in OSTCBList, OwnPrio(t) \in OSRdyTbl PROVE tcb[t].prio = OwnPrio(t)
  <2>1. PICK u \in OSTCBList : tcb[u].prio = OwnPrio(t)
    BY <1>20, MutexFacts, CoreAssumption DEF MutexesLive, MutexReady
  <2> QED BY <2>1, MutexFacts
<1>21. MutexReady'
  <2>1. ASSUME NEW p \in OSRdyTbl', p # LowestPrio PROVE \E t \in OSTCBList : tcb'[t].prio = p
    <3>1. CASE p \in OSRdyTbl /\ p # Pip(e)
      <4>1. PICK t \in OSTCBList : tcb[t].prio = p
        BY <2>1, <3>1 DEF MutexesLive, MutexReady
      <4>2. tcb[t].prio = OwnPrio(t)
        BY <1>7, <1>9, <3>1, <4>1
      <4> QED BY <1>13, <4>1, <4>2
    <3>2. CASE raised /\ p = OwnPrio(o)
      BY <1>7, <1>13, <3>2
    <3>3. CASE p \in Waiters(e)
      BY <1>10, <1>11, <1>13, <3>3
    <3> QED BY <1>14, <2>1, <3>1, <3>2, <3>3
  <2>2. ASSUME NEW t \in OSTCBList, tcb'[t].prio \in OSRdyTbl', t \notin S PROVE tcb[t].dly = 0
    <3>1. OwnPrio(t) \in OSRdyTbl'
      BY <1>13, <2>2
    <3>2. CASE OwnPrio(t) \in OSRdyTbl
      BY <1>20, <3>2 DEF MutexesLive, MutexReady
    <3>3. CASE raised /\ OwnPrio(t) = OwnPrio(o)
      <4>1. t = o
        BY <1>7, <3>3 DEF MutexesLive, MutexTable
      <4> QED BY <1>7, <3>3, <4>1 DEF MutexesLive, MutexReady
    <3>4. CASE OwnPrio(t) \in Waiters(e)
      <4>1. PICK u \in S : tcb[u].prio = OwnPrio(t)
        BY <1>10, <3>4
      <4>2. u = t
        BY <1>10, <4>1, MutexFacts
      <4> QED BY <2>2, <4>2
    <3> QED BY <1>14, <3>1, <3>2, <3>3, <3>4
  <2>3. ASSUME NEW t \in OSTCBList
        PROVE  tcb'[t].prio \in OSRdyTbl' \/ tcb'[t].dly > 0
    <3>1. CASE t \in S
      BY <1>10, <1>11, <1>13, <1>14, <3>1
    <3>2. CASE t \notin S
      <4>1. ~InList(t)
        <5>1. local[t].events \subseteq Events
          BY <1>3, <1>12 DEF MutexLocals
        <5>2. \A f \in Events : f # e => Waiters(f) = {}
          BY <1>5 DEF MutexesLive, MutexWaits, WaitsFor
        <5> QED BY <1>10, <3>2, <5>1, <5>2 DEF InList
      <4>2. CASE tcb[t].dly > 0
        BY <1>13, <3>2, <4>2
      <4>3. CASE tcb[t].prio \in OSRdyTbl
        <5>1. CASE raised /\ t = o
          BY <1>13, <1>14, <5>1
        <5>2. CASE ~(raised /\ t = o)
          <6>1. tcb[t].prio = OwnPrio(t) /\ OwnPrio(t) # Pip(e)
            BY <1>6, <1>9, <5>2
          <6> QED BY <1>13, <1>14, <4>3, <6>1
        <5> QED BY <5>1, <5>2
      <4> QED BY <4>1, <4>2, <4>3 DEF MutexesLive, MutexReady
    <3> QED BY <3>1, <3>2
  <2>4. ASSUME NEW t \in OSTCBList, tcb'[t].prio \in OSRdyTbl' PROVE tcb'[t].dly = 0
    BY <1>13, <2>2, <2>4
  <2> QED BY <1>4, <2>1, <2>3, <2>4 DEF MutexReady
<1>22. MutexSched'
  <2>1. OSPrioCur = tcb'[c].prio \/ StalePrio(c)'
    <3>1. \A f \in Events : ~IsMutex(f)'
      BY <1>5
    <3>2. CASE OSPrioCur = Pip(e)
      BY <1>3, <1>4, <1>6, <1>15, <3>1, <3>2, CoreAssumption DEF StalePrio
    <3>3. CASE StalePrio(c)
      BY <1>3, <1>4, <1>6, <1>15, <3>1, <3>3, CoreAssumption DEF StalePrio
    <3>4. CASE OSPrioCur = tcb[c].prio /\ OSPrioCur # Pip(e)
      BY <1>3, <1>7, <1>9, <1>13, <3>4
    <3> QED BY <1>1, <1>3, <3>2, <3>3, <3>4 DEF MutexesLive, MutexSched
  <2>2. ASSUME pc'[c] \in {"run", "wake"} PROVE tcb'[c].prio = Min(OSRdyTbl')
    <3>1. Waiters(e) = {} /\ ~raised
      BY <1>7, <1>16, <2>2
    <3>2. OSRdyTbl' = OSRdyTbl
      BY <1>8, <1>14, <3>1
    <3>3. tcb'[c].prio = tcb[c].prio
      BY <1>3, <1>9, <1>13, <3>1
    <3> QED BY <1>3, <3>2, <3>3
  <2> QED BY <1>1, <1>3, <1>4, <2>1, <2>2 DEF MutexSched
<1> QED BY <1>5, <1>17, <1>18, <1>19, <1>21, <1>22 DEF MutexesLive

-----------------------------------------------------------------------------
(* The calls such an application makes.                                    *)
LEMMA MutexMay ==
  ASSUME MutexRules, NEW call, May(call)
  PROVE  IF InISR THEN call = "tick" ELSE call \in MutexCalls /\ call \in app.calls
BY DEF MutexRules, May

(* Its steps; those of a deleted or created task are still to be excluded. *)
MutexStep ==
  \/ OS_Sched \/ OSIntEnter \/ OSIntExit \/ OSTimeTick
  \/ OwnsNone /\ \E n \in Delays : OSTimeDly(n)
  \/ OS_TCBInit \/ OSTaskDelEnds \/ OSFlagPendEnds
  \/ \E call \in {"sem", "mbox", "q", "multi", "mutex"} : Wake(call)
  \/ \E e \in Events :
       \/ OwnsNone /\ \E t \in app.timeouts : OSMutexPend(e, t)
       \/ "OSMutexAccept" \in app.calls /\ OSMutexAccept(e)
       \/ OSMutexPost(e)
       \/ "OSMutexCreate" \in app.calls /\ \E p \in Prios : OSMutexCreate(e, p)
       \/ "OSMutexDel" \in app.calls /\ \E b \in BOOLEAN : OSMutexDel(e, b)

LEMMA MutexSteps ==
  ASSUME MutexRules, Next
  PROVE  MutexStep /\ app' = app
<1>1. ~May("lock") /\ ~May("OSTimeDlyResume") /\ ~May("owner delays")
  <2>1. ~May("lock") /\ ~May("OSTimeDlyResume")
    BY MutexMay DEF MutexCalls
  <2>2. "owner delays" \notin MutexCalls /\ "owner delays" # "tick"
    BY Zenon DEF MutexCalls
  <2>3. ~May("owner delays")
    BY <2>2, MutexMay, Zenon
  <2> QED BY <2>1, <2>3
<1>2. CASE Scheduler
  BY <1>1, <1>2 DEF Scheduler, MutexStep
<1>3. CASE TaskManagement
  <2>1. ~May("OSTaskCreate") /\ ~May("OSTaskSuspend") /\ ~May("OSTaskResume") /\ ~May("OSTaskChangePrio")
    BY MutexMay DEF MutexCalls
  <2> QED BY <1>3, <2>1 DEF TaskManagement, MutexStep
<1>4. ~TaskDeletion
  <2>1. ~May("OSTaskDel")
    BY MutexMay DEF MutexCalls
  <2> QED BY <2>1 DEF TaskDeletion
<1>5. CASE Semaphores
  <2>1. /\ ~May("OSSemPend") /\ ~May("OSSemPost") /\ ~May("OSSemAccept") /\ ~May("OSSemSet")
        /\ ~May("OSSemPendAbort") /\ ~May("OSSemCreate") /\ ~May("OSSemDel")
    BY MutexMay DEF MutexCalls
  <2>2. Wake("sem") /\ app' = app
    BY <1>5, <2>1 DEF Semaphores, OSSemPendEnds
  <2> QED BY <2>2 DEF MutexStep
<1>6. CASE Mailboxes
  <2>1. /\ ~May("OSMboxPend") /\ ~May("OSMboxPost") /\ ~May("OSMboxPostOpt") /\ ~May("OSMboxAccept")
        /\ ~May("OSMboxPendAbort") /\ ~May("OSMboxCreate") /\ ~May("OSMboxDel")
    BY MutexMay DEF MutexCalls
  <2>2. Wake("mbox") /\ app' = app
    BY <1>6, <2>1 DEF Mailboxes, OSMboxPendEnds, MsgPendEnds
  <2> QED BY <2>2 DEF MutexStep
<1>7. CASE Queues
  <2>1. /\ ~May("OSQPend") /\ ~May("OSQPost") /\ ~May("OSQPostFront") /\ ~May("OSQPostOpt")
        /\ ~May("OSQAccept") /\ ~May("OSQFlush") /\ ~May("OSQPendAbort") /\ ~May("OSQCreate")
        /\ ~May("OSQDel")
    BY MutexMay DEF MutexCalls
  <2>2. Wake("q") /\ app' = app
    BY <1>7, <2>1 DEF Queues, OSQPendEnds, MsgPendEnds
  <2> QED BY <2>2 DEF MutexStep
<1>8. CASE SeveralEvents
  <2>1. ~May("OSEventPendMulti")
    BY MutexMay DEF MutexCalls
  <2>2. Wake("multi") /\ app' = app
    BY <1>8, <2>1 DEF SeveralEvents, OSEventPendMultiEnds
  <2> QED BY <2>2 DEF MutexStep
<1>9. CASE EventFlags
  <2>1. /\ ~May("OSFlagPost") /\ ~May("OSFlagCreate") /\ ~May("OSFlagPend") /\ ~May("OSFlagAccept")
        /\ ~May("OSFlagDel")
    BY MutexMay DEF MutexCalls
  <2> QED BY <1>9, <2>1 DEF EventFlags, MutexStep
<1>10. CASE Mutexes
  <2>1. app' = app
    BY <1>10 DEF Mutexes
  <2>2. CASE OSMutexPendEnds
    BY <2>1, <2>2 DEF OSMutexPendEnds, MutexStep
  <2>3. ASSUME NEW e \in Events,
               \/ May("OSMutexPend") /\ OwnsNone /\ \E t \in app.timeouts : OSMutexPend(e, t)
               \/ May("OSMutexAccept") /\ OSMutexAccept(e)
               \/ May("OSMutexPost") /\ OSMutexPost(e)
               \/ May("OSMutexCreate") /\ \E p \in Prios : OSMutexCreate(e, p)
               \/ May("OSMutexDel") /\ \E b \in BOOLEAN : OSMutexDel(e, b)
        PROVE  MutexStep
    <3>1. /\ May("OSMutexAccept") => "OSMutexAccept" \in app.calls
          /\ May("OSMutexCreate") => "OSMutexCreate" \in app.calls
          /\ May("OSMutexDel") => "OSMutexDel" \in app.calls
      BY MutexMay
    <3> QED BY <2>3, <3>1 DEF MutexStep
  <2> QED BY <1>10, <2>1, <2>2, <2>3 DEF Mutexes
<1>11. ~Memory
  <2>1. ~May("OSMem")
    BY MutexMay DEF MutexCalls
  <2> QED BY <2>1 DEF Memory
<1> QED BY <1>2, <1>3, <1>4, <1>5, <1>6, <1>7, <1>8, <1>9, <1>10, <1>11 DEF Next

LEMMA MutexKeepsLive ==
  ASSUME app \in Apps, MutexRules, MutexBlocks(event), MutexesLive, MutexStep, app' = app
  PROVE  MutexesLive' /\ MutexBlocks(event')
<1>1. /\ OSTCBCur \in Tasks \cup {Idle}
      /\ OSTCBCur # Idle => /\ pc[OSTCBCur] \notin {"create", "delete"}
                            /\ local[OSTCBCur].call \in {"none", "mutex"}
  <2>1. OSTCBCur \in Tasks \cup {Idle}
    BY MutexFacts DEF MutexesLive, MutexSched
  <2> QED BY <2>1 DEF MutexesLive, MutexTypes, MutexPlaces, MutexLocals
<1>2. ~OS_TCBInit /\ ~OSTaskDelEnds /\ ~OSFlagPendEnds
      /\ \A call \in {"sem", "mbox", "q", "multi"} : ~Wake(call)
  BY <1>1 DEF OS_TCBInit, OSTaskDelEnds, OSFlagPendEnds, Wake
<1>3. CASE OS_Sched \/ OSIntEnter \/ OSIntExit \/ OSTimeTick \/ Wake("mutex")
  BY <1>3, MutexOS_Sched, MutexInterrupt, MutexTick, MutexWake
<1>4. ASSUME OwnsNone, NEW n \in Delays, OSTimeDly(n)
      PROVE  MutexesLive' /\ MutexBlocks(event')
  <2>1. n \in Nat
    BY TimeoutsAssumption
  <2> QED BY <1>4, <2>1, MutexTimeDly
<1>5. ASSUME NEW e \in Events, NEW t \in app.timeouts, OwnsNone, OSMutexPend(e, t)
      PROVE  MutexesLive' /\ MutexBlocks(event')
  <2>1. t \in Nat
    BY AppTasks
  <2>2. TaskCalls /\ IsMutex(e) /\ (Acquire(e) \/ OSMutexPendBlocks(e, t))
    BY <1>5 DEF OSMutexPend, MayPend
  <2>3. ~OwnsOne(OSTCBCur)
    BY <1>5 DEF OwnsNone, OwnsOne, Owns
  <2> QED BY <2>1, <2>2, <2>3, MutexAcquire, MutexBlock
<1>6. ASSUME NEW e \in Events, "OSMutexAccept" \in app.calls, OSMutexAccept(e)
      PROVE  MutexesLive' /\ MutexBlocks(event')
  <2>1. TaskCalls /\ IsMutex(e) /\ Acquire(e)
    BY <1>6 DEF OSMutexAccept
  <2>2. \A f \in Events : IsMutex(f) => f = e
    BY <1>6, <2>1 DEF MutexBlocks, MutexRules, IsMutex
  <2>3. OSTCBCur # NoTask
    BY <1>1, CoreAssumption
  <2>4. Owner(e) = NoTask
    BY <2>1 DEF Acquire, MutexesLive, MutexesHeld, MutexHeld
  <2>5. ~OwnsOne(OSTCBCur)
    BY <2>2, <2>3, <2>4 DEF OwnsOne, Owns
  <2> QED BY <2>1, <2>5, MutexAcquire
<1>7. ASSUME NEW e \in Events, OSMutexPost(e)
      PROVE  MutexesLive' /\ MutexBlocks(event')
  BY <1>7, MutexPost
<1>8. ASSUME NEW e \in Events, NEW p \in Prios, "OSMutexCreate" \in app.calls, OSMutexCreate(e, p)
      PROVE  MutexesLive' /\ MutexBlocks(event')
  BY <1>8, MutexCreate
<1>9. ASSUME NEW e \in Events, NEW b \in BOOLEAN, "OSMutexDel" \in app.calls, OSMutexDel(e, b)
      PROVE  MutexesLive' /\ MutexBlocks(event')
  BY <1>9, MutexDel
<1> QED BY <1>2, <1>3, <1>4, <1>5, <1>6, <1>7, <1>8, <1>9 DEF MutexStep

-----------------------------------------------------------------------------
(* The blocks at the start.                                                *)
LEMMA MutexEventOf ==
  ASSUME NEW kind \in EventKinds
  PROVE  /\ DOMAIN EventOf(kind) = EventFields /\ EventOf(kind).grp = {} /\ EventOf(kind).type = kind
         /\ kind = "mutex" => /\ EventOf(kind).pip = 0 /\ EventOf(kind).cnt = Available255
                              /\ EventOf(kind).ptr = NoTask
<1>1. DOMAIN EventClear = EventFields /\ EventClear.grp = {}
  BY DEF EventClear, EventFields
<1>2. CASE kind = "sem"
  <2>1. EventOf(kind) = SemFresh(0)
    BY <1>2 DEF EventOf
  <2> QED BY <1>1, <1>2, <2>1 DEF SemFresh, EventFields
<1>3. CASE kind = "mbox"
  <2>1. EventOf(kind) = MboxFresh(NoMsg)
    BY <1>3 DEF EventOf
  <2> QED BY <1>1, <1>3, <2>1 DEF MboxFresh, EventFields
<1>4. CASE kind = "q"
  <2>1. EventOf(kind) = QFresh
    BY <1>4 DEF EventOf
  <2> QED BY <1>1, <1>4, <2>1 DEF QFresh, EventFields
<1>5. CASE kind = "mutex"
  <2>1. EventOf(kind) = MutexFresh(0)
    BY <1>5 DEF EventOf
  <2> QED BY <1>1, <1>5, <2>1 DEF MutexFresh, EventFields
<1>6. CASE kind \in {"unused", "taken"}
  <2>1. EventOf(kind) = [EventClear EXCEPT !.type = kind]
    BY <1>6 DEF EventOf
  <2> QED BY <1>1, <1>6, <2>1 DEF EventFields
<1> QED BY <1>2, <1>3, <1>4, <1>5, <1>6 DEF EventKinds

LEMMA MutexStart ==
  ASSUME Init, MutexRules
  PROVE  MutexInv
<1>1. PICK S, prioOf : S = app.tasks /\ prioOf = app.prioOf
  OBVIOUS
<1>2. /\ app \in Apps /\ app.kind \in [Events -> EventKinds]
      /\ S \subseteq Tasks /\ S # {} /\ prioOf \in [S -> 0..LowestPrio - 1]
      /\ \A t, u \in S : prioOf[t] = prioOf[u] => t = u
      /\ \A t \in S : prioOf[t] \notin app.pips
  BY <1>1, AppsAssumption DEF Init
<1>3. \A t \in S : prioOf[t] \in Prios /\ prioOf[t] < LowestPrio /\ prioOf[t] \in Nat
  BY <1>2, CoreAssumption DEF Prios
<1>4. /\ OSTCBList = S
      /\ tcb = [t \in Tasks |-> TCBClear(IF t \in S THEN prioOf[t] ELSE LowestPrio)]
      /\ pc = [t \in Tasks |-> IF t \in S THEN "run" ELSE "dead"]
      /\ local = [t \in Tasks |-> NoLocal]
      /\ OSRdyTbl = {LowestPrio} \cup {prioOf[t] : t \in S}
      /\ OSTCBPrioTbl = [p \in Prios |->
           IF p = LowestPrio THEN Idle
           ELSE IF p \in app.pips THEN Reserved
           ELSE IF \E t \in S : prioOf[t] = p THEN CHOOSE t \in S : prioOf[t] = p ELSE NoTask]
      /\ OSIntNesting = 0 /\ OSLockNesting = 0
      /\ event = [e \in Events |-> EventOf(app.kind[e])]
      /\ OSStart(S, prioOf)
  BY <1>1 DEF Init, InitTCBList, InitPrioTbl, InitRdyList, InitMisc
<1>5. OSTCBCur \in S /\ OSPrioCur = prioOf[OSTCBCur]
  <2>1. prioOf \in [S -> Nat]
    BY <1>2, <1>3
  <2> QED BY <1>2, <1>4, <2>1, HighestTaskStarts
<1>6. ASSUME NEW t \in Tasks
      PROVE  /\ tcb[t] \in MutexTCBs /\ tcb[t].dly = 0 /\ ~Pending(t) /\ pc[t] \in MutexPlaces
             /\ t \in S => tcb[t].prio = prioOf[t]
             /\ local[t] \in MutexLocals
  <2>1. PICK p \in Prios : tcb[t] = TCBClear(p) /\ (t \in S => p = prioOf[t])
    BY <1>3, <1>4, PriosAreNat
  <2>2. TCBClear(p) \in MutexTCBs /\ TCBClear(p).prio = p /\ TCBClear(p).dly = 0
    BY DEF TCBClear, MutexTCBs
  <2>3. NoLocal \in MutexLocals
    BY PriosAreNat DEF NoLocal, MutexLocals
  <2>4. pc[t] \in MutexPlaces /\ ~Pending(t)
    BY <1>4 DEF Pending, MutexPlaces
  <2> QED BY <1>4, <2>1, <2>2, <2>3, <2>4
<1>7. ASSUME NEW p \in Prios
      PROVE  /\ OSTCBPrioTbl[p] \in Tasks \cup {Idle, NoTask, Reserved}
             /\ p = LowestPrio => OSTCBPrioTbl[p] = Idle
             /\ p # LowestPrio /\ p \in app.pips => OSTCBPrioTbl[p] = Reserved
             /\ \A t \in S : prioOf[t] = p => OSTCBPrioTbl[p] = t
  <2>1. CASE p = LowestPrio
    BY <1>3, <1>4, <2>1, CoreAssumption
  <2>2. CASE p # LowestPrio /\ p \in app.pips
    BY <1>2, <1>4, <2>2, CoreAssumption
  <2>3. CASE p # LowestPrio /\ p \notin app.pips /\ \E t \in S : prioOf[t] = p
    <3>1. OSTCBPrioTbl[p] = CHOOSE t \in S : prioOf[t] = p
      BY <1>4, <2>3
    <3>2. OSTCBPrioTbl[p] \in S /\ prioOf[OSTCBPrioTbl[p]] = p
      BY <2>3, <3>1
    <3> QED BY <1>2, <2>3, <3>2, CoreAssumption
  <2>4. CASE p # LowestPrio /\ p \notin app.pips /\ ~\E t \in S : prioOf[t] = p
    BY <1>4, <2>4, CoreAssumption
  <2> QED BY <2>1, <2>2, <2>3, <2>4
<1>8. ASSUME NEW e \in Events
      PROVE  /\ DOMAIN event[e] = EventFields /\ Waiters(e) = {}
             /\ IsMutex(e) <=> app.kind[e] = "mutex"
             /\ event[e].type \in {"mutex", "unused"} => MayBeMutex(e)
             /\ IsMutex(e) => Pip(e) = 0 /\ ~Owned(e) /\ Owner(e) = NoTask
  <2>1. app.kind[e] \in EventKinds /\ event[e] = EventOf(app.kind[e])
    BY <1>2, <1>4
  <2> QED BY <2>1, MutexEventOf DEF Waiters, IsMutex, MayBeMutex, Pip, Owned, Owner
<1>9. MutexBlocks(event)
  BY <1>4, <1>8 DEF MutexBlocks
<1>10. MutexTypes
  <2>1. OSTCBPrioTbl \in [Prios -> Tasks \cup {Idle, NoTask, Reserved}]
    BY <1>4, <1>7
  <2>2. tcb \in [Tasks -> MutexTCBs] /\ local \in [Tasks -> MutexLocals] /\ pc \in [Tasks -> MutexPlaces]
    BY <1>4, <1>6
  <2> QED BY <1>1, <1>3, <1>4, <2>1, <2>2, PriosAreNat DEF MutexTypes
<1>11. \A t \in S : OwnPrio(t) = prioOf[t] /\ tcb[t].prio = prioOf[t] /\ t \in Tasks
  BY <1>1, <1>2, <1>6 DEF OwnPrio
<1>12. MutexTable
  <2>1. OSTCBPrioTbl[LowestPrio] = Idle
    BY <1>7, PriosAreNat
  <2>2. \A t \in S : OSTCBPrioTbl[prioOf[t]] = t
    BY <1>3, <1>7
  <2>3. ASSUME NEW t \in OSTCBList
        PROVE  tcb[t].prio = OwnPrio(t) /\ OSTCBPrioTbl[OwnPrio(t)] = t /\ OSTCBPrioTbl[tcb[t].prio] = t
    <3>1. t \in S
      BY <1>4
    <3>2. OwnPrio(t) = prioOf[t] /\ tcb[t].prio = prioOf[t]
      BY <1>11, <3>1
    <3> QED BY <2>2, <3>1, <3>2
  <2> QED BY <2>1, <2>3 DEF MutexTable
<1>13. MutexesHeld
  <2> SUFFICES ASSUME NEW e \in Events, IsMutex(e) PROVE MutexHeld(e)
    BY DEF MutexesHeld
  <2>1. 0 \in app.pips /\ Pip(e) = 0 /\ ~Owned(e) /\ Owner(e) = NoTask /\ Waiters(e) = {}
    BY <1>8 DEF MutexRules
  <2>2. \A t \in S : 0 < OwnPrio(t)
    BY <1>2, <1>3, <1>11, <2>1
  <2>3. 0 \in Prios /\ 0 # LowestPrio
    BY <1>2, <1>3, <1>11, <2>2, CoreAssumption DEF Prios
  <2>4. OSTCBPrioTbl[0] = Reserved
    BY <1>7, <2>1, <2>3
  <2>5. \A f \in Events : IsMutex(f) => f = e
    BY <1>8 DEF MutexRules
  <2>6. \A t \in OSTCBList : ~Pending(t)
    BY <1>2, <1>4, <1>6
  <2> QED BY <1>4, <2>1, <2>2, <2>3, <2>4, <2>5, <2>6 DEF MutexHeld
<1>14. MutexWaits
  BY <1>2, <1>4, <1>6, <1>8 DEF MutexWaits
<1>15. MutexReady
  BY <1>4, <1>6, <1>11 DEF MutexReady
<1>16. MutexSched
  <2>1. OSTCBCur # Idle /\ tcb[OSTCBCur].prio \in OSRdyTbl /\ OSPrioCur = tcb[OSTCBCur].prio
    BY <1>2, <1>4, <1>5, <1>11, CoreAssumption
  <2>2. OSRdyTbl \subseteq Prios /\ LowestPrio \in OSRdyTbl
    BY <1>10 DEF MutexTypes
  <2>3. Min(OSRdyTbl) \in OSRdyTbl /\ \A p \in OSRdyTbl : Min(OSRdyTbl) <= p
    BY <2>2, HighestIsReady
  <2>4. \A p \in OSRdyTbl : OSPrioCur <= p
    <3>1. prioOf \in [S -> Nat]
      BY <1>2, <1>3
    <3>2. \A u \in S : OSPrioCur <= prioOf[u]
      BY <1>2, <1>4, <3>1, HighestTaskStarts
    <3> QED BY <1>3, <1>4, <1>5, <3>2, CoreAssumption
  <2>5. OSPrioCur \in Nat /\ Min(OSRdyTbl) \in Nat
    BY <2>1, <2>2, <2>3, PriosAreNat
  <2>6. OSPrioCur <= Min(OSRdyTbl) /\ Min(OSRdyTbl) <= OSPrioCur
    BY <2>1, <2>3, <2>4
  <2>7. OSPrioCur = Min(OSRdyTbl)
    BY <2>5, <2>6
  <2> QED BY <1>4, <1>5, <2>1, <2>7 DEF MutexSched
<1> QED BY <1>2, <1>9, <1>10, <1>12, <1>13, <1>14, <1>15, <1>16 DEF MutexInv, MutexesLive

LEMMA MutexBlocksLater ==
  ASSUME app \in Apps, app' = app, MutexBlocks(event'), MutexesLive'
  PROVE  MutexInv'
<1>1. MutexBlocks(event)'
  BY DEF MutexBlocks, MayBeMutex
<1> QED BY <1>1 DEF MutexInv

LEMMA MutexStutters ==
  ASSUME MutexInv, UNCHANGED vars
  PROVE  MutexInv'
<1>1. /\ UNCHANGED <<listVars, waitVars, local, app, OSLockNesting>> /\ pc' = pc /\ app' = app
      /\ OSIntNesting' = OSIntNesting /\ OSTCBCur' = OSTCBCur /\ OSPrioCur' = OSPrioCur
      /\ OSTCBList' = OSTCBList /\ tcb' = tcb /\ OSRdyTbl' = OSRdyTbl
      /\ OSTCBPrioTbl' = OSTCBPrioTbl /\ event' = event
  BY DEF vars, coreVars, schedVars, runVars, listVars, waitVars, callVars
<1>2. MutexBlocks(event')
  BY <1>1 DEF MutexInv, MutexBlocks, MayBeMutex
<1>4. ASSUME MutexesLive PROVE MutexesLive'
  <2>1. MutexSched'
    BY <1>1, <1>4 DEF MutexesLive, MutexSched, StalePrio, InISR, IsMutex, Pip, Owner
  <2>2. OSIntNesting' \in Nat /\ pc' \in [Tasks -> MutexPlaces]
    BY <1>1, <1>4 DEF MutexesLive, MutexTypes
  <2>3. \A t \in Tasks : Pending(t)' = Pending(t)
    BY <1>1 DEF Pending
  <2> QED BY <1>1, <1>4, <2>1, <2>2, <2>3, MutexSwitchKeeps DEF MutexInv
<1>5. MutexesLive'
  BY <1>4 DEF MutexInv
<1> QED BY <1>1, <1>2, <1>5, MutexBlocksLater DEF MutexInv

LEMMA MutexKeeps ==
  ASSUME MutexInv, MutexRules, Next
  PROVE  MutexInv'
<1>1. MutexStep /\ app' = app
  BY MutexSteps
<1>2. MutexesLive' /\ MutexBlocks(event')
  BY <1>1, MutexKeepsLive DEF MutexInv
<1> QED BY <1>1, <1>2, MutexBlocksLater DEF MutexInv

LEMMA MutexAlwaysInv == Spec => [](MutexRules => MutexInv)
<1>1. Init => (MutexRules => MutexInv)
  BY MutexStart
<1>2. (MutexRules => MutexInv) /\ [Next]_vars => (MutexRules => MutexInv)'
  <2> SUFFICES ASSUME MutexRules => MutexInv, [Next]_vars, MutexRules'
               PROVE  MutexInv'
    OBVIOUS
  <2>1. app' = app
    BY AppStays
  <2>2. MutexRules
    BY <2>1 DEF MutexRules, MayBeMutex
  <2> QED BY <2>2, MutexKeeps, MutexStutters
<1> QED BY <1>1, <1>2, PTL DEF Spec

(* Under priority inheritance too the table names each task under the      *)
(* priority it runs at (OSTCBPrioTbl, os_mutex.c),                         *)
THEOREM MutexTableNamesTasks == Spec => [](MutexRules => PrioTableNamesTasks)
<1>1. MutexInv => PrioTableNamesTasks
  BY DEF MutexInv, MutexesLive, MutexTable, MutexReady, PrioTableNamesTasks
<1> QED BY <1>1, MutexAlwaysInv, PTL

(* who is in a mutex's list is inside a pend on it (OSEventTbl, ucos_ii.h),*)
THEOREM MutexWaitersPend == Spec => [](MutexRules => NoGhostWaiter)
<1>1. ASSUME app \in Apps, MutexesLive, NEW e \in Events, NEW p \in Waiters(e), NEW t, t = OSTCBPrioTbl[p]
      PROVE  /\ t \in OSTCBList /\ tcb[t].prio = p
             /\ pc[t] \in {"pend", "wake"} /\ e \in local[t].events
  <2>1. PICK u \in OSTCBList : tcb[u].prio = p /\ WaitsFor(u, e)
    BY <1>1 DEF MutexesLive, MutexWaits
  <2>2. u = t
    BY <1>1, <2>1 DEF MutexesLive, MutexTable
  <2> QED BY <2>1, <2>2 DEF WaitsFor, Pending
<1>2. MutexInv => NoGhostWaiter
  BY <1>1 DEF MutexInv, NoGhostWaiter
<1> QED BY <1>2, MutexAlwaysInv, PTL

(* nobody waits for a mutex that is free, nor for one that is gone, if it  *)
(* is deleted only while nobody else is on the way to it (OSMutexPend,     *)
(* OSMutexPost, OSMutexDel),                                               *)
THEOREM NobodyWaitsForFreeMutex == Spec => [](MutexRules => NobodyWaitsForWhatIsThere)
<1>1. ASSUME MutexesLive, NEW e \in Events, NEW p \in Waiters(e)
      PROVE  IsMutex(e) /\ Owned(e)
  <2>1. IsMutex(e)
    BY <1>1 DEF MutexesLive, MutexWaits, WaitsFor
  <2> QED BY <1>1, <2>1 DEF MutexesLive, MutexesHeld, MutexHeld
<1>2. MutexInv => NobodyWaitsForWhatIsThere
  BY <1>1 DEF MutexInv, NobodyWaitsForWhatIsThere, Available, IsMutex, IsSem, IsMbox, IsQ
<1> QED BY <1>2, MutexAlwaysInv, PTL

(* and the most important ready task runs, though a post without waiting   *)
(* tasks does not schedule: its caller was not raised (OS_Sched).          *)
THEOREM HighestRunsWithMutexes == Spec => [](MutexRules => HighestReadyRuns)
<1>1. ASSUME app \in Apps, MutexesLive, ~InISR, OSTCBCur # Idle => pc[OSTCBCur] \in {"run", "wake"}
      PROVE  OSTCBCur = OSTCBPrioTbl[Min(OSRdyTbl)]
  <2>1. CASE OSTCBCur = Idle
    BY <1>1, <2>1 DEF MutexesLive, MutexSched, MutexTable
  <2>2. CASE OSTCBCur # Idle
    <3>1. OSTCBCur \in OSTCBList /\ tcb[OSTCBCur].prio = Min(OSRdyTbl)
      BY <1>1, <2>2, MutexCaller
    <3> QED BY <1>1, <3>1 DEF MutexesLive, MutexTable
  <2> QED BY <2>1, <2>2
<1>2. MutexInv => HighestReadyRuns
  BY <1>1 DEF MutexInv, HighestReadyRuns
<1> QED BY <1>2, MutexAlwaysInv, PTL

(* Of the tasks that return from a pend on a mutex one at most owns it, and*)
(* while a more important task waits, the owner runs at the PIP, whatever  *)
(* else owns, waits, times out or delays (os_mutex.c).                     *)
THEOREM MutexInherits == Spec => [](MutexRules => MutexOwnerInherits)
<1>1. ASSUME MutexInv, NEW e \in Events, IsMutex(e)
      PROVE  /\ Granted(e) \subseteq {Owner(e)}
             /\ Owned(e) <=> Owner(e) # NoTask
             /\ \A p \in Waiters(e) : p < OwnerPrio(e) => tcb[Owner(e)].prio = Pip(e)
  <2>1. MutexHeld(e)
    BY <1>1 DEF MutexInv, MutexesLive, MutexesHeld
  <2>2. ASSUME NEW t \in Granted(e) PROVE t = Owner(e)
    BY <2>1, <2>2 DEF Granted, Pending, MutexHeld
  <2> QED BY <2>1, <2>2 DEF MutexHeld
<1>2. MutexInv => MutexOwnerInherits
  BY <1>1 DEF MutexOwnerInherits
<1> QED BY <1>2, MutexAlwaysInv, PTL

(* No task of such an application waits for event flags.                   *)
LEMMA MutexNoNodes == Spec => [](MutexRules => node \in [Tasks -> {NoNode}])
<1>1. Init => node \in [Tasks -> {NoNode}]
  BY DEF Init, OS_FlagInit
<1>2. ASSUME MutexRules, node \in [Tasks -> {NoNode}], Next PROVE node' \in [Tasks -> {NoNode}]
  <2>1. CASE TaskManagement
    <3>1. ~May("OSTaskCreate") /\ ~May("OSTaskSuspend") /\ ~May("OSTaskResume") /\ ~May("OSTaskChangePrio")
      BY <1>2, MutexMay DEF MutexCalls
    <3>2. OS_TCBInit \/ OSTaskDelEnds
      BY <2>1, <3>1 DEF TaskManagement
    <3> QED BY <1>2, <3>2 DEF OS_TCBInit, OSTaskDelEnds, flagVars
  <2>2. ~TaskDeletion
    BY <1>2, MutexMay DEF TaskDeletion, MutexCalls
  <2>3. CASE EventFlags
    <3>1. /\ ~May("OSFlagPost") /\ ~May("OSFlagCreate") /\ ~May("OSFlagPend") /\ ~May("OSFlagAccept")
          /\ ~May("OSFlagDel")
      BY <1>2, MutexMay DEF MutexCalls
    <3>2. OSFlagPendEnds
      BY <2>3, <3>1 DEF EventFlags
    <3> QED BY <1>2, <3>2 DEF OSFlagPendEnds
  <2> QED BY <1>2, <2>1, <2>2, <2>3 DEF Next, Scheduler, Semaphores, Mailboxes, Queues, SeveralEvents,
             Mutexes, Memory, flagVars
<1>3. (MutexRules => node \in [Tasks -> {NoNode}]) /\ [Next]_vars
        => (MutexRules => node \in [Tasks -> {NoNode}])'
  <2> SUFFICES ASSUME MutexRules => node \in [Tasks -> {NoNode}], [Next]_vars, MutexRules'
               PROVE  node' \in [Tasks -> {NoNode}]
    OBVIOUS
  <2>1. app' = app
    BY AppStays
  <2>2. MutexRules
    BY <2>1 DEF MutexRules, MayBeMutex
  <2> QED BY <1>2, <2>2 DEF vars, flagVars
<1> QED BY <1>1, <1>3, PTL DEF Spec

(* A task is in the ready list if and only if it can run: neither delayed  *)
(* nor waiting, at whatever priority it runs (os_mutex.c, os_time.c).      *)
THEOREM RunnableWithMutexes == Spec => [](MutexRules => RunnableIsReady)
<1>1. ASSUME app \in Apps, MutexesLive, node \in [Tasks -> {NoNode}], NEW t \in OSTCBList
      PROVE  tcb[t].prio \in OSRdyTbl <=>
               "SUSPEND" \notin tcb[t].stat /\ tcb[t].dly = 0 /\ ~StillWaiting(t)
  <2>1. /\ t \in Tasks /\ "SUSPEND" \notin tcb[t].stat /\ tcb[t].statPend \in {"OK", "TO"}
        /\ local[t].events \subseteq Events /\ node[t].grp = {}
    BY <1>1, MutexFacts DEF MutexesLive, MutexTypes, MutexTCBs, MutexLocals, NoNode
  <2>2. StillWaiting(t) <=> InList(t)
    BY <2>1 DEF StillWaiting, InList, Pending
  <2>3. ASSUME InList(t) PROVE tcb[t].prio \notin OSRdyTbl
    <3>1. PICK e \in Events : tcb[t].prio \in Waiters(e)
      BY <2>1, <2>3 DEF InList
    <3>2. PICK u \in OSTCBList : tcb[u].prio = tcb[t].prio /\ WaitsFor(u, e)
      BY <1>1, <3>1 DEF MutexesLive, MutexWaits
    <3>3. u = t
      BY <1>1, <3>2, MutexFacts
    <3> QED BY <2>3, <3>2, <3>3 DEF InList, WaitsFor
  <2> QED BY <1>1, <2>1, <2>2, <2>3 DEF MutexesLive, MutexReady
<1>2. MutexInv /\ node \in [Tasks -> {NoNode}] => RunnableIsReady
  BY <1>1 DEF MutexInv, RunnableIsReady
<1> QED BY <1>2, MutexAlwaysInv, MutexNoNodes, PTL

(* After the deletion no mutex comes back.                                 *)
LEMMA MutexStaysGone ==
  ASSUME MutexRules, MutexBlocks(event), MutexGone, MutexStep, app' = app
  PROVE  MutexGone' /\ MutexBlocks(event')
<1>1. "OSMutexCreate" \notin app.calls
  BY DEF MutexRules, MutexGone
<1>2. \A e \in Events : ~OSMutexAccept(e) /\ ~OSMutexPost(e) /\ (\A t : ~OSMutexPend(e, t))
                        /\ (\A b : ~OSMutexDel(e, b))
  BY DEF MutexGone, OSMutexAccept, OSMutexPost, OSMutexPend, OSMutexDel
<1>3. \/ OS_Sched \/ OSIntEnter \/ OSIntExit \/ OSTimeTick \/ (\E n \in Delays : OSTimeDly(n))
      \/ OS_TCBInit \/ OSTaskDelEnds \/ OSFlagPendEnds
      \/ \E call \in {"sem", "mbox", "q", "multi", "mutex"} : Wake(call)
  BY <1>1, <1>2 DEF MutexStep
<1>4. event' = event \/ \E t, es : EventTaskRemove(t, es)
  <2>1. OS_Sched \/ OSIntEnter \/ OSIntExit \/ OSTimeTick => event' = event
    BY DEF OS_Sched, OSIntEnter, OSIntExit, OSTimeTick, waitVars
  <2>2. (\E n \in Delays : OSTimeDly(n)) => event' = event
    BY DEF OSTimeDly
  <2>3. OS_TCBInit \/ OSTaskDelEnds \/ OSFlagPendEnds => event' = event
    BY DEF OS_TCBInit, OSTaskDelEnds, OSFlagPendEnds
  <2>4. \A call : Wake(call) => event' = event \/ EventTaskRemove(OSTCBCur, local[OSTCBCur].events)
    BY DEF Wake
  <2> QED BY <1>3, <2>1, <2>2, <2>3, <2>4
<1>5. /\ DOMAIN event' = Events
      /\ \A e \in Events : DOMAIN event'[e] = EventFields /\ event'[e].type = event[e].type
  <2>1. CASE event' = event
    BY <2>1 DEF MutexBlocks
  <2>2. ASSUME NEW t, NEW es, EventTaskRemove(t, es)
        PROVE  /\ DOMAIN event' = Events
               /\ \A e \in Events : DOMAIN event'[e] = EventFields /\ event'[e].type = event[e].type
    BY <2>2 DEF EventTaskRemove, MutexBlocks, EventFields
  <2> QED BY <1>4, <2>1, <2>2
<1>6. (\A e : MayBeMutex(e)' = MayBeMutex(e)) /\ \A e \in Events : IsMutex(e)' = IsMutex(e)
  BY <1>5 DEF MayBeMutex, IsMutex
<1> QED BY <1>5, <1>6 DEF MutexGone, MutexBlocks

(* What a step does to a task that waits, or is about to return: only a    *)
(* post gives it a mutex.                                                  *)
StaysAsItIs(t, e) ==
  /\ local'[t] = local[t]
  /\ tcb'[t].statPend = "OK" => tcb[t].statPend = "OK"
  /\ event'[e].ptr = t => event[e].ptr = t

LEMMA MutexPassesOnly ==
  ASSUME app \in Apps, MutexBlocks(event), MutexesLive, MutexStep, MutexRules,
         app' = app, NEW t \in OSTCBList, Pending(t), Pending(t)', NEW e \in Events,
         IsMutex(e)', ~MutexGone, e \in local'[t].events
  PROVE  StaysAsItIs(t, e) \/ \E f \in Events : IsMutex(f) /\ PassedOn(f, OSTCBCur, t)
<1>1. PICK c : c = OSTCBCur
  OBVIOUS
<1>2. /\ t \in Tasks /\ c \in Tasks \cup {Idle} /\ NoTask \notin Tasks
      /\ c # Idle => /\ pc[c] \notin {"create", "delete"}
                     /\ local[c].call \in {"none", "mutex"}
      /\ tcb \in [Tasks -> MutexTCBs] /\ pc \in [Tasks -> MutexPlaces] /\ local \in [Tasks -> MutexLocals]
      /\ DOMAIN event = Events /\ \A f \in Events : DOMAIN event[f] = EventFields
  <2>1. c \in Tasks \cup {Idle} /\ t \in Tasks
    BY <1>1, MutexFacts DEF MutexesLive, MutexSched
  <2> QED BY <2>1, CoreAssumption DEF MutexesLive, MutexTypes, MutexPlaces, MutexLocals, MutexBlocks
<1>3. ~OS_TCBInit /\ ~OSTaskDelEnds /\ ~OSFlagPendEnds
      /\ \A call \in {"sem", "mbox", "q", "multi"} : ~Wake(call)
  BY <1>1, <1>2 DEF OS_TCBInit, OSTaskDelEnds, OSFlagPendEnds, Wake
<1>4. ASSUME TaskCalls PROVE c \in Tasks /\ pc[c] = "run" /\ t # c
  BY <1>1, <1>2, <1>4 DEF TaskCalls, CanCall, Pending, InISR
<1>5. CASE OS_Sched \/ OSIntEnter \/ OSIntExit
  <2>1. tcb' = tcb /\ event' = event /\ local' = local
    BY <1>5 DEF OS_Sched, OSIntEnter, OSIntExit, waitVars, callVars
  <2> QED BY <2>1 DEF StaysAsItIs
<1>6. CASE OSTimeTick
  <2>1. local' = local /\ event' = event
    BY <1>6 DEF OSTimeTick, callVars
  <2>2. tcb[t].dly = 0 => tcb'[t] = tcb[t]
    BY <1>2, <1>6 DEF OSTimeTick
  <2>3. IsMutex(e) /\ (tcb[t].prio \in Waiters(e) \/ tcb[t].prio \in OSRdyTbl)
    <3>1. IsMutex(e) /\ (tcb[t].prio \in Waiters(e) \/ Owner(e) = t)
      BY <2>1 DEF IsMutex, MutexesLive, MutexWaits, MutexesHeld, MutexHeld
    <3>2. t # NoTask
      BY <1>2
    <3> QED BY <3>1, <3>2 DEF MutexesLive, MutexesHeld, MutexHeld
  <2>4. CASE tcb[t].prio \in Waiters(e)
    <3>1. PICK u \in OSTCBList : tcb[u].prio = tcb[t].prio /\ WaitsFor(u, e)
      BY <2>4 DEF MutexesLive, MutexWaits
    <3>2. u = t
      BY <3>1, MutexFacts
    <3>3. tcb[t].statPend = "OK" \/ tcb[t].dly = 0
      BY <3>1, <3>2 DEF WaitsFor
    <3> QED BY <2>1, <2>2, <3>3 DEF StaysAsItIs
  <2>5. CASE tcb[t].prio \in OSRdyTbl
    <3>1. tcb[t].dly = 0
      BY <2>5 DEF MutexesLive, MutexReady
    <3> QED BY <2>1, <2>2, <3>1 DEF StaysAsItIs
  <2> QED BY <2>3, <2>4, <2>5
<1>7. ASSUME NEW n \in Delays, OSTimeDly(n) PROVE StaysAsItIs(t, e)
  <2>1. /\ TaskCalls /\ local' = local /\ event' = event
        /\ tcb' = tcb \/ tcb' = [tcb EXCEPT ![c].dly = n]
    BY <1>1, <1>7 DEF OSTimeDly, CallSched, Return, callVars, waitVars
  <2>2. tcb'[t].statPend = tcb[t].statPend
    BY <1>2, <1>4, <2>1
  <2> QED BY <2>1, <2>2 DEF StaysAsItIs
<1>8. CASE Wake("mutex")
  <2>1. /\ c \in Tasks
        /\ IF tcb[c].statPend = "TO" THEN EventTaskRemove(c, local[c].events) ELSE event' = event
        /\ tcb' = [tcb EXCEPT ![c] = [tcb[c] EXCEPT
             !.stat = {}, !.statPend = "OK", !.eventPtr = NoEvent, !.multi = {}, !.msg = tcb[c].msg]]
        /\ pc' = [pc EXCEPT ![c] = "run"] /\ local' = [local EXCEPT ![c] = NoLocal]
    BY <1>1, <1>2, <1>8 DEF Wake
  <2>2. t # c
    BY <1>2, <2>1 DEF Pending
  <2>3. tcb'[t] = tcb[t] /\ local'[t] = local[t]
    BY <1>2, <2>1, <2>2
  <2>4. event'[e].ptr = event[e].ptr
    BY <1>2, <2>1 DEF EventTaskRemove, EventFields
  <2> QED BY <2>3, <2>4 DEF StaysAsItIs
<1>9. ASSUME NEW f \in Events, TaskCalls, Acquire(f) PROVE StaysAsItIs(t, e)
  <2>1. event' = [event EXCEPT ![f].cnt = tcb[c].prio, ![f].ptr = c] /\ tcb' = tcb /\ local' = local
    BY <1>1, <1>9 DEF Acquire, callVars
  <2>2. event'[e].ptr \in {event[e].ptr, c}
    BY <1>2, <2>1 DEF EventFields
  <2> QED BY <1>4, <1>9, <2>1, <2>2 DEF StaysAsItIs
<1>10. ASSUME NEW f \in Events, NEW n, TaskCalls, OSMutexPendBlocks(f, n) PROVE StaysAsItIs(t, e)
  <2>1. local'[t] = local[t] /\ tcb'[t] \in {tcb[t], [tcb[t] EXCEPT !.prio = Pip(f)]}
    BY <1>1, <1>2, <1>4, <1>10 DEF OSMutexPendBlocks
  <2>2. event'[e].ptr = event[e].ptr
    BY <1>2, <1>10 DEF OSMutexPendBlocks, EventFields
  <2>3. tcb'[t].statPend = tcb[t].statPend
    BY <1>2, <2>1 DEF MutexTCBs
  <2> QED BY <2>1, <2>2, <2>3 DEF StaysAsItIs
<1>11. ASSUME NEW f \in Events, OSMutexPost(f)
       PROVE  StaysAsItIs(t, e) \/ (IsMutex(f) /\ PassedOn(f, OSTCBCur, t))
  <2>1. PICK n : TaskCalls /\ IsMutex(f) /\ PassedOn(f, OSTCBCur, n)
    BY <1>11, MutexPostPasses
  <2>2. CASE n # t
    BY <1>1, <1>2, <1>4, <2>1, <2>2 DEF PassedOn, StaysAsItIs
  <2> QED BY <2>1, <2>2
<1>12. ASSUME NEW f \in Events, NEW p \in Prios, OSMutexCreate(f, p) PROVE StaysAsItIs(t, e)
  <2>1. event' = [event EXCEPT ![f] = MutexFresh(p)] /\ tcb' = tcb /\ local' = local
    BY <1>12 DEF OSMutexCreate, EventInit, callVars
  <2>2. MutexFresh(p).ptr = NoTask
    BY DEF MutexFresh, EventClear
  <2> QED BY <1>2, <2>1, <2>2 DEF StaysAsItIs
<1>13. ~\E f \in Events, b \in BOOLEAN : "OSMutexDel" \in app.calls /\ OSMutexDel(f, b)
  <2> SUFFICES ASSUME NEW f \in Events, NEW b \in BOOLEAN, "OSMutexDel" \in app.calls, OSMutexDel(f, b)
               PROVE  ~IsMutex(e)'
    OBVIOUS
  <2>1. MutexGone'
    BY MutexDelEvents
  <2> QED BY <2>1 DEF MutexGone
<1> QED BY <1>3, <1>5, <1>6, <1>7, <1>8, <1>9, <1>10, <1>11, <1>12, <1>13
        DEF MutexStep, OSMutexPend, OSMutexAccept, MayPend

(* A mutex goes to the highest of the tasks that wait for it, also when    *)
(* others time out or are raised meanwhile (OS_EventTaskRdy, os_core.c).   *)
THEOREM MutexGoesToHighest == Spec => (MutexRules => WakesInPriorityOrder)
<1>1. ASSUME MutexInv, MutexInv', MutexRules, Next, NEW e \in Events, NEW t \in OSTCBList,
             t \notin Granted(e), t \in Granted(e)', pc[t] \in {"pend", "wake"}, NEW q \in Waiters(e)'
      PROVE  tcb[t].prio < q
  <2>1. /\ app \in Apps /\ MutexBlocks(event) /\ MutexesLive /\ MutexesLive' /\ MutexStep /\ app' = app
        /\ OSTCBList \subseteq Tasks /\ t \in OSTCBList'
    <3>1. MutexStep /\ app' = app
      BY <1>1, MutexSteps
    <3> QED BY <1>1, <3>1, MutexFacts DEF MutexInv, Granted
  <2>2. /\ Pending(t) /\ Pending(t)' /\ e \in local'[t].events /\ tcb'[t].statPend = "OK"
        /\ tcb'[t].prio \notin Waiters(e)'
    BY <1>1 DEF Granted, Pending
  <2>10. IsMutex(e)'
    BY <1>1, <2>1 DEF MutexesLive, MutexWaits, WaitsFor
  <2>11. ~MutexGone
    BY <1>1, <2>1, <2>10, MutexStaysGone DEF MutexGone
  <2>3. event'[e].ptr = t
    BY <2>1, <2>2, <2>10 DEF MutexesLive, MutexesHeld, MutexHeld, Owner
  <2>4. ~StaysAsItIs(t, e)
    <3> SUFFICES ASSUME StaysAsItIs(t, e) PROVE FALSE
      OBVIOUS
    <3>1. e \in local[t].events /\ tcb[t].statPend = "OK" /\ Owner(e) = t /\ IsMutex(e)
      BY <2>1, <2>2, <2>3, <2>11 DEF StaysAsItIs, Owner, MutexesLive, MutexWaits
    <3>2. ~BeingDeleted(t) /\ local[t].call # "multi"
      BY <2>1 DEF BeingDeleted, MutexesLive, MutexTypes, MutexPlaces, MutexLocals
    <3>3. tcb[t].prio \in Waiters(e)
      BY <1>1, <3>1, <3>2 DEF Granted
    <3>4. PICK u \in OSTCBList : tcb[u].prio = tcb[t].prio /\ WaitsFor(u, e)
      BY <2>1, <3>3 DEF MutexesLive, MutexWaits
    <3>5. u = t
      BY <2>1, <3>4, MutexFacts
    <3> QED BY <3>1, <3>4, <3>5 DEF WaitsFor, OwnsOne, Owns
  <2>5. PICK f \in Events : IsMutex(f) /\ PassedOn(f, OSTCBCur, t)
    BY <1>1, <2>1, <2>2, <2>4, <2>10, <2>11, MutexPassesOnly
  <2>6. /\ WaitsFor(t, f) /\ local' = local /\ event'[f].grp = event[f].grp \ {OwnPrio(t)}
        /\ \A p \in Waiters(f) : OwnPrio(t) <= p
    BY <2>1, <2>5, CoreAssumption DEF PassedOn
  <2>7. e = f /\ tcb[t].prio = OwnPrio(t) /\ OwnPrio(t) \in Nat
    BY <2>1, <2>2, <2>6, MutexFacts DEF WaitsFor
  <2>8. q \in Waiters(f) /\ q # OwnPrio(t)
    BY <1>1, <2>6, <2>7 DEF Waiters
  <2>9. q \in Nat
    <3>1. PICK u \in OSTCBList : tcb[u].prio = q
      BY <2>1, <2>8 DEF MutexesLive, MutexWaits
    <3> QED BY <2>1, <3>1, MutexFacts, PriosAreNat
  <2> QED BY <2>6, <2>7, <2>8, <2>9
<1>2. MutexInv /\ MutexInv' /\ MutexRules /\ [Next]_vars =>
        [\A e \in Events :
           LET goes == {t \in OSTCBList : /\ t \notin Granted(e) /\ t \in Granted(e)'
                                          /\ pc[t] \in {"pend", "wake"}}
           IN \A t \in goes : \A p \in Waiters(e)' : tcb[t].prio < p]_vars
  BY <1>1
<1>3. MutexRules /\ [Next]_vars => MutexRules'
  BY AppStays DEF MutexRules, MayBeMutex
<1> QED BY <1>2, <1>3, MutexAlwaysInv, PTL DEF Spec, WakesInPriorityOrder
=============================================================================
