------------------------------ MODULE MCKernel ------------------------------
(***************************************************************************)
(* Three tasks at most, at the priorities 1, 2 and 3, three events of at   *)
(* most three kinds, and one application after the other.                  *)
(***************************************************************************)
EXTENDS Kernel, TLC

CONSTANTS t1, t2, t3, e1, e2, e3, g1, a, b, m1, m2

MCTasks == {t1, t2, t3}
MCEvents == {e1, e2, e3}
MCMsgs == {m1, m2}
MCGroups == {g1}
MCFlags == {a, b}

prio3 == (t1 :> 1) @@ (t2 :> 2) @@ (t3 :> 3)
prio2 == (t1 :> 1) @@ (t2 :> 2)
Kind(x, y, z) == (e1 :> x) @@ (e2 :> y) @@ (e3 :> z)
NoEvents == Kind("taken", "taken", "taken")
OneNew == Kind("unused", "taken", "taken")
One(kind) == Kind(kind, "taken", "taken")

App(prioOf, kind, calls, isr) ==
  [tasks |-> DOMAIN prioOf, prioOf |-> prioOf, pips |-> {}, kind |-> kind, msgs |-> {m1},
   prios |-> {1, 2}, timeouts |-> Timeouts, groups |-> {}, waits |-> {}, flagargs |-> {}, calls |-> calls, isr |-> isr]

(* Waiting, giving up, being suspended and resumed; posts and ticks from   *)
(* interrupts.                                                             *)
SemApp == App(prio3, One("sem"),
  {"OSSemPend", "OSSemPost", "OSSemAccept", "OSSemPendAbort", "OSTaskSuspend", "OSTaskResume"},
  {"tick", "OSSemPost", "OSTimeDlyResume"})

MboxApp == App(prio3, One("mbox"),
  {"OSMboxPend", "OSMboxPost", "OSMboxAccept", "OSMboxPendAbort"}, {"tick", "OSMboxPostOpt"})

MboxOptApp == [App(prio2, One("mbox"),
  {"OSMboxPend", "OSMboxPostOpt", "lock"},
  {"tick", "OSMboxPost", "OSMboxPendAbort", "OSTaskSuspend", "OSTaskResume"})
    EXCEPT !.msgs = {m1, m2}]

QApp == [App(prio2, One("q"),
  {"OSQPend", "OSQPost", "OSQPostFront", "OSQAccept", "OSQFlush"},
  {"tick", "OSQPost", "OSTaskSuspend", "OSTaskResume"}) EXCEPT !.msgs = {m1, m2}]

QOptApp == App(prio3, One("q"),
  {"OSQPend", "OSQPostOpt", "OSQPendAbort"}, {"tick", "OSQPostOpt", "OSQAccept"})

(* Several events at once; nobody is suspended.                            *)
MultiApp == App(prio2, Kind("sem", "mbox", "taken"),
  {"OSEventPendMulti", "OSSemPost", "OSMboxPost", "OSMboxPostOpt"},
  {"tick", "OSSemPost", "OSMboxPost", "OSSemPendAbort"})
MultiQApp == [App(prio2, Kind("sem", "q", "taken"),
  {"OSEventPendMulti", "OSQPend", "OSQPost"}, {"tick", "OSSemPost", "OSQPost"})
    EXCEPT !.timeouts = {1}]

(* Events come and go while the other tasks wait or are delayed.           *)
SemLifeApp == App(prio3, OneNew,
  {"OSSemCreate", "OSSemDel", "OSSemPend", "OSSemPost", "OSSemSet", "OSTimeDly"}, {"tick", "OSSemPost"})
MboxLifeApp == App(prio2, OneNew,
  {"OSMboxCreate", "OSMboxDel", "OSMboxPend", "OSMboxPost", "OSTimeDly"}, {"tick", "OSMboxPost"})
QLifeApp == App(prio2, OneNew,
  {"OSQCreate", "OSQDel", "OSQPend", "OSQPost", "OSTimeDly"}, {"tick", "OSQPost"})

(* Tasks come and go while they wait, are delayed or are suspended.        *)
TasksApp == App(prio2, One("sem"),
  {"OSTaskCreate", "OSTaskDel", "OSTimeDly", "OSSemPend", "OSTaskSuspend"},
  {"tick", "OSSemPost"})

(* Delays and suspensions, once with a scheduler that is locked at times   *)
(* and once with priorities that change.                                   *)
LockApp == App(prio2, NoEvents,
  {"OSTimeDly", "OSTimeDlyResume", "lock", "OSTaskSuspend", "OSTaskResume"},
  {"tick", "OSTaskSuspend", "OSTaskResume"})
PrioApp == App(prio3, NoEvents,
  {"OSTimeDly", "OSTaskSuspend", "OSTaskResume", "OSTaskChangePrio"}, {"tick"})

Wait(type, consume) == [type |-> type, consume |-> consume]
FlagApp(flagargs, waits, calls, isr) ==
  [App(prio2, NoEvents, calls, isr) EXCEPT !.groups = {g1}, !.waits = waits,
    !.flagargs = flagargs, !.timeouts = {1}]
FlagSetApp == FlagApp({{a}, {a, b}}, {Wait("SET_ALL", FALSE), Wait("SET_ANY", TRUE)},
  {"OSFlagPend", "OSFlagPost", "OSFlagAccept"}, {"tick", "OSFlagPost"})
FlagBothApp == FlagApp({{a}, {a, b}}, {Wait("SET_ANY", FALSE), Wait("CLR_ALL", FALSE)},
  {"OSFlagPend", "OSFlagPost"}, {"tick"})
FlagSuspendApp == FlagApp({{a}}, {Wait("SET_ALL", TRUE)},
  {"OSFlagPend", "OSFlagPost", "OSTaskSuspend", "OSTaskResume"},
  {"tick", "OSTaskSuspend", "OSTaskResume"})
FlagLifeApp == FlagApp({{a}}, {Wait("CLR_ANY", FALSE)},
  {"OSFlagPend", "OSFlagCreate", "OSFlagDel", "OSTaskDel", "OSTaskCreate", "OSTimeDly"}, {"tick", "OSFlagPost"})

(* Mutexes with timeouts, and mutexes whose owners are delayed: not both.  *)
MutexApp == App(prio3, OneNew,
  {"OSMutexCreate", "OSMutexPend", "OSMutexPost", "OSMutexAccept", "OSTimeDly"}, {"tick"})
MutexDlyApp == [App(prio3, OneNew,
  {"OSMutexCreate", "OSMutexPend", "OSMutexPost", "OSTimeDly", "owner delays"}, {"tick"})
    EXCEPT !.timeouts = {0}]

MutexDelApp == [App(prio3, One("mutex"),
  {"OSMutexPend", "OSMutexPost", "OSMutexDel", "OSTimeDly"}, {"tick"})
    EXCEPT !.pips = {0}, !.timeouts = {0}]

(* All control blocks are in use.                                          *)
FullApp == [App(prio3, NoEvents, {"OSTaskCreate", "OSTimeDly"}, {"tick"}) EXCEPT !.prios = {0}]

MemApp == App(prio2, NoEvents, {"OSMem"}, {"OSMem"})

MCApps == {SemApp, MboxApp, MboxOptApp, QApp, QOptApp, MultiApp, MultiQApp, SemLifeApp,
  MboxLifeApp, QLifeApp, TasksApp, LockApp, PrioApp, FlagSetApp, FlagBothApp, FlagSuspendApp, FlagLifeApp,
  MutexApp, MutexDlyApp, MutexDelApp, FullApp, MemApp}

(* Priorities that change while tasks wait; not one of MCApps: a task that *)
(* was made ready and has yet to run is put back into the list.            *)
ChangePrioApp == [App(prio2, One("sem"),
  {"OSSemPend", "OSSemPost", "OSTaskChangePrio", "OSTimeDly"}, {"tick", "OSSemPost"})
    EXCEPT !.timeouts = {0}]
MCChangePrioApps == {ChangePrioApp}
=============================================================================
