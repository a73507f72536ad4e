------------------------------- MODULE OSTask -------------------------------
(***************************************************************************)
(* Task management (os_task.c): creation and deletion, suspension, and the *)
(* change of a priority.                                                   *)
(***************************************************************************)
EXTENDS OSFlag

-----------------------------------------------------------------------------
(* The wait lists of what the task's control block points to, whether the  *)
(* task still waits in them or not.                                        *)
Renamed(t, newprio) ==
  [e \in Events |->
    IF e = tcb[t].eventPtr \/ e \in tcb[t].multi
    THEN [event[e] EXCEPT !.grp = (@ \ {tcb[t].prio}) \cup {newprio}] ELSE event[e]]

OSTaskChangePrio(oldprio, newprio) ==
  LET t == OSTCBPrioTbl[oldprio] IN
  /\ CanCall /\ newprio < LowestPrio
  /\ OSTCBPrioTbl[newprio] = NoTask
  /\ t \in Tasks
  /\ OSTCBPrioTbl' = [OSTCBPrioTbl EXCEPT ![oldprio] = NoTask, ![newprio] = t]
  /\ OSRdyTbl' = IF tcb[t].prio \in OSRdyTbl THEN (OSRdyTbl \ {tcb[t].prio}) \cup {newprio}
                                             ELSE OSRdyTbl
  /\ event' = Renamed(t, newprio)
  /\ tcb' = [tcb EXCEPT ![t].prio = newprio]
  /\ CallSched
  /\ UNCHANGED <<schedVars, OSTCBList, flagVars>>

(* OSTaskCreate reserves the priority; the stack is made with interrupts   *)
(* enabled.                                                                *)
OSTaskCreate(prio) ==
  /\ TaskCalls /\ prio < LowestPrio
  /\ OSTCBPrioTbl[prio] = NoTask
  /\ OSTCBPrioTbl' = [OSTCBPrioTbl EXCEPT ![prio] = Reserved]
  /\ pc' = [pc EXCEPT ![OSTCBCur] = "create"]
  /\ local' = [local EXCEPT ![OSTCBCur].prio = prio]
  /\ UNCHANGED <<schedVars, OSTCBList, waitVars, flagVars>>

(* A free control block, or the priority is given back.                    *)
OS_TCBInit ==
  LET c == OSTCBCur
      prio == local[c].prio
  IN /\ ~InISR /\ c # Idle /\ pc[c] = "create"
     /\ local' = [local EXCEPT ![c] = NoLocal]
     /\ \/ \E t \in Tasks \ OSTCBList :
             /\ OSTCBList' = OSTCBList \cup {t}
             /\ OSTCBPrioTbl' = [OSTCBPrioTbl EXCEPT ![prio] = t]
             /\ tcb' = [tcb EXCEPT ![t] = TCBClear(prio)]
             /\ OSRdyTbl' = OSRdyTbl \cup {prio}
             /\ pc' = [pc EXCEPT ![c] = "sched", ![t] = "run"]
             /\ node' = [node EXCEPT ![t] = NoNode]
        \/ /\ OSTCBList = Tasks
           /\ OSTCBPrioTbl' = [OSTCBPrioTbl EXCEPT ![prio] = NoTask]
           /\ pc' = [pc EXCEPT ![c] = "run"]
           /\ UNCHANGED <<OSTCBList, OSRdyTbl, tcb, node>>
     /\ UNCHANGED <<schedVars, event, OSFlagTbl, OSFlagWaitList, OSTCBFlagsRdy>>

(* The task leaves all lists and the scheduler is locked for a moment in   *)
(* which interrupts are enabled.                                           *)
OSTaskDel(prio) ==
  LET t == OSTCBPrioTbl[prio]
      lists == tcb[t].multi \cup {tcb[t].eventPtr}
  IN /\ TaskCalls /\ t \in Tasks
     /\ OSRdyTbl' = OSRdyTbl \ {tcb[t].prio}
     /\ EventTaskRemove(t, lists)
     /\ OS_FlagUnlink({t})
     /\ tcb' = [tcb EXCEPT ![t].dly = 0, ![t].stat = {}, ![t].statPend = "OK"]
     /\ OSLockNesting' = OSLockNesting + 1
     /\ pc' = [pc EXCEPT ![OSTCBCur] = "delete"]
     /\ local' = [local EXCEPT ![OSTCBCur].task = t, ![OSTCBCur].prio = prio]
     /\ UNCHANGED <<runVars, OSIntNesting, listVars, OSFlagTbl, node, OSTCBFlagsRdy>>

OSTaskDelEnds ==
  LET c == OSTCBCur
      t == local[c].task
      left == [pc EXCEPT ![c] = "sched"]
  IN /\ ~InISR /\ c # Idle /\ pc[c] = "delete"
     /\ OSLockNesting' = OSLockNesting - 1
     /\ OSTCBPrioTbl' = [OSTCBPrioTbl EXCEPT ![local[c].prio] = NoTask]
     /\ OSTCBList' = OSTCBList \ {t}
     /\ pc' = IF t = c THEN left ELSE [left EXCEPT ![t] = "dead"]
     /\ local' = [local EXCEPT ![c] = NoLocal, ![t] = NoLocal]
     /\ tcb' = [tcb EXCEPT ![t] = TCBClear(LowestPrio)]
     /\ UNCHANGED <<runVars, OSIntNesting, OSRdyTbl, event, flagVars>>

OSTaskSuspend(prio) ==
  LET t == OSTCBPrioTbl[prio] IN
  /\ CanCall /\ t \in Tasks
  /\ OSRdyTbl' = OSRdyTbl \ {tcb[t].prio}
  /\ tcb' = [tcb EXCEPT ![t].stat = @ \cup {"SUSPEND"}]
  /\ IF t = OSTCBCur THEN CallSched ELSE Return
  /\ UNCHANGED <<schedVars, listVars, event, flagVars>>

OSTaskResumeDelayed(prio) ==
  LET t == OSTCBPrioTbl[prio]
      runs == tcb[t].stat = {"SUSPEND"}
  IN /\ CanCall /\ t \in Tasks /\ "SUSPEND" \in tcb[t].stat
     /\ tcb' = [tcb EXCEPT ![t].stat = @ \ {"SUSPEND"}]
     /\ OSRdyTbl' = IF runs THEN OSRdyTbl \cup {tcb[t].prio} ELSE OSRdyTbl
     /\ IF runs THEN CallSched ELSE Return
     /\ UNCHANGED <<schedVars, listVars, event, flagVars>>

OSTaskResume(prio) ==
  LET t == OSTCBPrioTbl[prio]
      runs == tcb[t].stat = {"SUSPEND"} /\ tcb[t].dly = 0
  IN /\ CanCall /\ t \in Tasks /\ "SUSPEND" \in tcb[t].stat
     /\ tcb' = [tcb EXCEPT ![t].stat = @ \ {"SUSPEND"}]
     /\ OSRdyTbl' = IF runs THEN OSRdyTbl \cup {tcb[t].prio} ELSE OSRdyTbl
     /\ IF runs THEN CallSched ELSE Return
     /\ UNCHANGED <<schedVars, listVars, event, flagVars>>
=============================================================================
