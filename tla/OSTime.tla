------------------------------- MODULE OSTime -------------------------------
(***************************************************************************)
(* Delays (os_time.c). OSTimeDlyHMSM is one OSTimeDly after another, and   *)
(* the clock of OSTimeGet and OSTimeSet is read by nothing in the kernel.  *)
(***************************************************************************)
EXTENDS OSCore

(* The scheduler may be locked: the task then runs on with its delay.      *)
OSTimeDly(ticks) ==
  /\ TaskCalls /\ ticks > 0
  /\ OSRdyTbl' = OSRdyTbl \ {tcb[OSTCBCur].prio}
  /\ tcb' = [tcb EXCEPT ![OSTCBCur].dly = ticks]
  /\ CallSched
  /\ UNCHANGED <<schedVars, listVars, event>>

OSTimeDlyResume(prio) ==
  LET t == OSTCBPrioTbl[prio] IN
  /\ CanCall
  /\ t \in Tasks /\ tcb[t].dly # 0
  /\ tcb' = [tcb EXCEPT ![t] = Expired(t)]
  /\ OSRdyTbl' = OSRdyTbl \cup Readied({t})
  /\ IF Readied({t}) # {} THEN CallSched ELSE Return
  /\ UNCHANGED <<schedVars, listVars, event>>
=============================================================================
