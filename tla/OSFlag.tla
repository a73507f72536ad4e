------------------------------- MODULE OSFlag -------------------------------
(***************************************************************************)
(* Event flag groups (os_flag.c): a set of flags, and for every waiting    *)
(* task a node, on that task's own stack, linked into the group's list.    *)
(***************************************************************************)
EXTENDS OSCore

CONSTANTS
  FlagGroups,
  Flags       \* the flags of a group

(* No flag is called as the mark of a group that does not exist.           *)
ASSUME FlagsAssumption == "unused" \notin Flags

VARIABLES
  OSFlagTbl,      \* the flags that are set, of the groups that exist
  OSFlagWaitList, \* the tasks whose nodes are linked into each group
  node,           \* the node of each task's pend, with its consume
  OSTCBFlagsRdy

NoNode == [grp |-> {}, flags |-> {}, type |-> "SET_ALL", consume |-> FALSE]
WaitTypes == {"SET_ALL", "SET_ANY", "CLR_ALL", "CLR_ANY"}
flagVars == <<OSFlagTbl, OSFlagWaitList, node, OSTCBFlagsRdy>>

Unused == {"unused"}   \* no set of flags
IsGroup(g) == OSFlagTbl[g] # Unused
SetType(type) == type \in {"SET_ALL", "SET_ANY"}

(* Of flags, those that are as the wait wants them, and whether that is    *)
(* enough.                                                                 *)
FlagsRdy(now, flags, type) == IF SetType(type) THEN now \cap flags ELSE flags \ now
Satisfied(now, flags, type) ==
  IF type \in {"SET_ALL", "CLR_ALL"} THEN FlagsRdy(now, flags, type) = flags
                                     ELSE FlagsRdy(now, flags, type) # {}
Consumed(now, rdy, type) == IF SetType(type) THEN now \ rdy ELSE now \cup rdy

OS_FlagInit(groups) ==
  /\ OSFlagTbl = [g \in FlagGroups |-> IF g \in groups THEN {} ELSE Unused]
  /\ OSFlagWaitList = [g \in FlagGroups |-> {}]
  /\ node = [t \in Tasks |-> NoNode]
  /\ OSTCBFlagsRdy = [t \in Tasks |-> {}]

-----------------------------------------------------------------------------
TakeFlags(g, flags, type, consume) ==
  LET now == OSFlagTbl[g] IN
  /\ Satisfied(now, flags, type)
  /\ IF consume
     THEN OSFlagTbl' = [OSFlagTbl EXCEPT ![g] = Consumed(now, FlagsRdy(now, flags, type), type)]
     ELSE UNCHANGED OSFlagTbl

OSFlagAccept(g, flags, type, consume) ==
  /\ CanCall /\ IsGroup(g)
  /\ TakeFlags(g, flags, type, consume)
  /\ UNCHANGED <<coreVars, OSFlagWaitList, node, OSTCBFlagsRdy>>

OS_FlagBlock(g, flags, type, consume, timeout) ==
  LET t == OSTCBCur IN
  /\ tcb' = [tcb EXCEPT ![t] = [tcb[t] EXCEPT
       !.stat = @ \cup {"FLAG"}, !.statPend = "OK", !.dly = timeout]]
  /\ node' = [node EXCEPT ![t] =
       [grp |-> {g}, flags |-> flags, type |-> type, consume |-> consume]]
  /\ OSFlagWaitList' = [OSFlagWaitList EXCEPT ![g] = @ \cup {t}]
  /\ OSRdyTbl' = OSRdyTbl \ {tcb[t].prio}
  /\ pc' = [pc EXCEPT ![t] = "pend"]
  /\ local' = [local EXCEPT ![t].call = "flag"]
  /\ UNCHANGED <<schedVars, listVars, event, OSFlagTbl, OSTCBFlagsRdy>>

OSFlagPend(g, flags, type, consume, timeout) ==
  /\ MayPend /\ IsGroup(g)
  /\ \/ /\ TakeFlags(g, flags, type, consume)
        /\ OSTCBFlagsRdy' = [OSTCBFlagsRdy EXCEPT ![OSTCBCur] = FlagsRdy(OSFlagTbl[g], flags, type)]
        /\ UNCHANGED <<coreVars, OSFlagWaitList, node>>
     \/ /\ ~Satisfied(OSFlagTbl[g], flags, type)
        /\ OS_FlagBlock(g, flags, type, consume, timeout)

OS_FlagUnlink(S) == OSFlagWaitList' = [g \in FlagGroups |-> OSFlagWaitList[g] \ S]

(* The task runs again. Timed out, it unlinks its node; else it consumes   *)
(* the flags it was made ready by, here and now, whatever they are now.    *)
OSFlagPendEnds ==
  LET t == OSTCBCur
      n == node[t]
  IN /\ ~InISR /\ t # Idle /\ pc[t] = "wake" /\ local[t].call = "flag"
     /\ \/ /\ tcb[t].statPend # "OK"
           /\ OS_FlagUnlink({t})
           /\ tcb' = [tcb EXCEPT ![t].statPend = "OK", ![t].stat = {}]
           /\ UNCHANGED OSFlagTbl
        \/ /\ tcb[t].statPend = "OK"
           /\ OSFlagTbl' = [g \in FlagGroups |->
                IF n.consume /\ g \in n.grp /\ IsGroup(g)
                THEN Consumed(OSFlagTbl[g], OSTCBFlagsRdy[t], n.type) ELSE OSFlagTbl[g]]
           /\ UNCHANGED <<tcb, OSFlagWaitList>>
     /\ node' = [node EXCEPT ![t] = NoNode]
     /\ pc' = [pc EXCEPT ![t] = "run"]
     /\ local' = [local EXCEPT ![t] = NoLocal]
     /\ UNCHANGED <<schedVars, listVars, OSRdyTbl, event, OSTCBFlagsRdy>>

(* The tasks of S are made ready, each with its flags.                     *)
OS_FlagTaskRdy(S, rdy) ==
  LET ready == {t \in S : tcb[t].stat \subseteq {"FLAG"}} IN
  /\ tcb' = [t \in Tasks |->
       IF t \in S THEN [tcb[t] EXCEPT !.dly = 0, !.stat = @ \ {"FLAG"}, !.statPend = "OK"]
                  ELSE tcb[t]]
  /\ OSTCBFlagsRdy' = [t \in Tasks |-> IF t \in S THEN rdy[t] ELSE OSTCBFlagsRdy[t]]
  /\ OSRdyTbl' = OSRdyTbl \cup {tcb[t].prio : t \in ready}
  /\ OS_FlagUnlink(S)
  /\ IF ready = {} THEN Return ELSE CallSched

(* The waiting tasks that the flags now satisfy.                           *)
FirstTaskRdy(g, now) ==
  {t \in OSFlagWaitList[g] : /\ t = CHOOSE u \in OSFlagWaitList[g] : TRUE
                             /\ Satisfied(now, node[t].flags, node[t].type)}
TasksRdy(g, now) == {t \in OSFlagWaitList[g] : Satisfied(now, node[t].flags, node[t].type)}

OSFlagPost(g, flags, set) ==
  LET now == IF set THEN OSFlagTbl[g] \cup flags ELSE OSFlagTbl[g] \ flags
      S == TasksRdy(g, now)
      rdy == [t \in Tasks |-> FlagsRdy(now, node[t].flags, node[t].type)]
  IN /\ CanCall /\ IsGroup(g)
     /\ OSFlagTbl' = [OSFlagTbl EXCEPT ![g] = now]
     /\ OS_FlagTaskRdy(S, rdy)
     /\ UNCHANGED <<schedVars, listVars, event, node>>

OSFlagCreate(g, flags) ==
  /\ TaskCalls /\ ~IsGroup(g)
  /\ OSFlagTbl' = [OSFlagTbl EXCEPT ![g] = flags]
  /\ UNCHANGED <<coreVars, OSFlagWaitList, node, OSTCBFlagsRdy>>

(* Used with care: NobodyOnTheWay in Kernel.                               *)
OSFlagDel(g, always) ==
  /\ TaskCalls /\ IsGroup(g)
  /\ always \/ OSFlagWaitList[g] = {}
  /\ OSFlagTbl' = [OSFlagTbl EXCEPT ![g] = Unused]
  /\ OS_FlagTaskRdy(OSFlagWaitList[g], [t \in Tasks |-> {}])
  /\ UNCHANGED <<schedVars, listVars, event, node>>

-----------------------------------------------------------------------------
(* A task is linked into a group's list only while what it waits for is    *)
(* not so: a post looks at every node, and nothing else can make a wait    *)
(* come true behind its back (os_flag.c). Flags consumed by a wait for     *)
(* cleared flags are set without a look, so this is about applications     *)
(* that do not mix the two.                                                *)
FlagWaitersUnsatisfied ==
  \A g \in FlagGroups : \A t \in OSFlagWaitList[g] :
    /\ IsGroup(g)
    /\ node[t].grp = {g}
    /\ ~Satisfied(OSFlagTbl[g], node[t].flags, node[t].type)
=============================================================================
