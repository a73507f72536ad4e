------------------------ MODULE SharedService_proofs -------------------------
(***************************************************************************)
(* What holds of the shared state machine for every pair of sides, set of  *)
(* arguments and target.                                                   *)
(***************************************************************************)
EXTENDS SharedService, TLAPS

(* There are two sides: what is not x is the other one.                    *)
LEMMA TwoSides ==
  /\ First \in Side
  /\ \A x \in Side : Other(x) \in Side /\ Other(x) # x
  /\ \A x, y \in Side : y # x => y = Other(x)
<1>1. PICK z \in Side : First \in Side /\ Side = {First, z} /\ z # First
  BY SideAssumption
<1>2. \A x \in Side : \E y \in Side : y # x
  BY <1>1
<1>3. \A x \in Side : Other(x) \in Side /\ Other(x) # x
  BY <1>2 DEF Other
<1> QED
  BY <1>1, <1>3

(* At power up nobody waits and nobody is served. *)
LEMMA InitInv == Init => IInv
<1> SUFFICES ASSUME Init PROVE IInv
  OBVIOUS
<1>1. TypeOK
  BY TwoSides DEF Init, TrapInit, SharedInit, TypeOK, Step
<1>2. RequestsAreKept
  BY DEF Init, TrapInit, SharedInit, RequestsAreKept, Served
<1> QED
  BY <1>1, <1>2 DEF Init, TrapInit, SharedInit, IInv, TargetRunsForTurn, OvertakenOnce

(* A reset forgets requests, traps and turns together. *)
LEMMA ResetInv == IInv /\ Reset => IInv'
<1> SUFFICES ASSUME IInv, Reset PROVE IInv'
  OBVIOUS
<1>1. TypeOK'
  BY TwoSides DEF IInv, Reset, TrapReset, SharedReset, TypeOK, Step
<1>2. RequestsAreKept'
  BY DEF Reset, TrapReset, SharedReset, RequestsAreKept, Served
<1> QED
  BY <1>1, <1>2 DEF Reset, TrapReset, SharedReset, IInv, TargetRunsForTurn, OvertakenOnce

(* A request between two edges sets its own trap and touches nothing else. *)
LEMMA AskInv == ASSUME IInv, NEW x \in Side, Ask(x) PROVE IInv'
<1> USE DEF IInv
<1>1. UNCHANGED <<turn, step, received_data, target, target_arguments, FDC_TOP_2>>
  BY DEF Ask, sharedVars, targetVars, TrapRise
<1>2. ~Served(x)
  BY DEF Ask, RequestsAreKept
<1>3. reset_start_request(step, turn)[x] = FALSE
  BY <1>2 DEF reset_start_request, Served
<1>4. /\ FDC_TOP_1' = [FDC_TOP_1 EXCEPT ![x] = TRUE]
      /\ waiting' = [waiting EXCEPT ![x] = TRUE]
      /\ overtaken' = [overtaken EXCEPT ![x] = 0]
      /\ \E v \in Arguments : input_arguments' = [input_arguments EXCEPT ![x] = v]
  BY <1>3 DEF Ask, TrapRise
<1>5. TypeOK'
  BY <1>1, <1>4 DEF TypeOK
<1>6. RequestsAreKept'
  BY <1>1, <1>2, <1>4 DEF RequestsAreKept, Served, TypeOK
<1>7. step # "check_state" => input_arguments'[turn] = input_arguments[turn]
  BY <1>2, <1>4 DEF Served, TypeOK
<1>8. TargetRunsForTurn'
  BY <1>1, <1>7 DEF TargetRunsForTurn, output_arguments
<1>9. OvertakenOnce'
  BY <1>4 DEF OvertakenOnce, TypeOK
<1>10. (\A y \in Side : waiting[y] /\ overtaken[y] = 1 =>
          Served(y) \/ (FDC_TOP_2[y] /\ (turn = y \/ step # "check_state")))'
  BY <1>1, <1>4 DEF Served, TypeOK
<1>11. (\A y \in Side : FDC_TOP_2[y] => FDC_TOP_1[y])'
  BY <1>1, <1>4 DEF TypeOK
<1> QED
  BY <1>1, <1>5, <1>6, <1>7, <1>8, <1>9, <1>10, <1>11

(* The registers an edge always moves in the same way.                     *)
LEMMA EdgeType == IInv /\ Edge => TypeOK'
<1> SUFFICES ASSUME IInv, Edge PROVE TypeOK'
  OBVIOUS
<1> USE DEF IInv
<1>1. FDC_TOP_1' \in [Side -> BOOLEAN] /\ FDC_TOP_2' \in [Side -> BOOLEAN]
  BY DEF Edge, TrapClock
<1>2. turn' \in Side /\ step' \in Step
  BY TwoSides DEF TypeOK, Edge, SharedStep, CheckState, GiveStart, WaitForFinish, RegisterData,
                  GiveFinish, Step
<1>3. received_data' \in [Side -> {Result(v) : v \in Arguments} \union {NoData}]
  BY DEF TypeOK, Edge, SharedStep, ReceivedData, in_received_data
<1>4. waiting' \in [Side -> BOOLEAN] /\ input_arguments' \in [Side -> Arguments]
  BY DEF TypeOK, Edge
<1>5. target' \in {"ready", "running", "finished"} /\ target_arguments' \in Arguments
  BY DEF TypeOK, Edge, TargetStep, output_arguments
<1>6. overtaken' \in [Side -> Nat]
  <2>1. \A x \in Side : overtaken[x] \in Nat /\ overtaken[x] + 1 \in Nat
    <3>1. \A x \in Side : overtaken[x] \in Nat
      BY DEF TypeOK
    <3>2. \A n \in Nat : n + 1 \in Nat
      OBVIOUS
    <3> QED
      BY <3>1, <3>2, Zenon
  <2> QED
    BY <2>1 DEF Edge
<1> QED
  BY <1>1, <1>2, <1>3, <1>4, <1>5, <1>6 DEF TypeOK

(* An edge in each step of the machine.                                    *)
LEMMA EdgeInv == IInv /\ Edge => IInv'
<1> SUFFICES ASSUME IInv, Edge PROVE IInv'
  OBVIOUS
<1> USE DEF IInv
<1>1. TypeOK'
  BY EdgeType
<1> DEFINE clear(x) == step' = "give_start" /\ turn' = x
<1>2. \A x \in Side :
        /\ FDC_TOP_1'[x] = (FDC_TOP_1[x] /\ ~clear(x))
        /\ FDC_TOP_2'[x] = (FDC_TOP_1[x] /\ ~clear(x))
        /\ waiting'[x] = (waiting[x] /\ ~finish(x))
        /\ overtaken'[x] = IF Starts /\ turn # x /\ waiting[x] THEN overtaken[x] + 1
                                                               ELSE overtaken[x]
  BY DEF Edge, TrapClock, reset_start_request
<1>3. input_arguments' = input_arguments
  BY DEF Edge
<1>4. (\A x \in Side : FDC_TOP_2[x] => FDC_TOP_1[x])'
  BY <1>2
<1>5. RequestsAreKept'
  <2> SUFFICES ASSUME NEW x \in Side
               PROVE  /\ waiting'[x] <=> (FDC_TOP_1'[x] \/ Served(x)')
                      /\ ~(FDC_TOP_1'[x] /\ Served(x)')
    BY DEF RequestsAreKept
  <2>1. /\ waiting[x] <=> (FDC_TOP_1[x] \/ Served(x))
        /\ ~(FDC_TOP_1[x] /\ Served(x))
        /\ FDC_TOP_2[x] => FDC_TOP_1[x]
    BY DEF RequestsAreKept
  <2>2. CASE CheckState(FDC_TOP_2)
    <3>1. ~finish(x) /\ ~Served(x)
      BY <2>2 DEF CheckState, finish, Served
    <3>2. clear(x) <=> Served(x)'
      BY <2>2 DEF CheckState, Served
    <3>3. clear(x) => FDC_TOP_1[x]
      BY <2>1, <2>2 DEF CheckState
    <3> QED
      BY <1>2, <2>1, <3>1, <3>2, <3>3
  <2>3. CASE GiveStart \/ WaitForFinish(target = "finished") \/ RegisterData
    <3>1. ~finish(x) /\ ~clear(x) /\ (Served(x)' <=> Served(x))
      BY <2>3 DEF GiveStart, WaitForFinish, RegisterData, finish, Served
    <3> QED
      BY <1>2, <2>1, <3>1
  <2>4. CASE GiveFinish
    <3>1. ~clear(x) /\ ~Served(x)' /\ (finish(x) <=> Served(x))
      BY <2>4 DEF GiveFinish, finish, Served
    <3> QED
      BY <1>2, <2>1, <3>1
  <2> QED
    BY <2>2, <2>3, <2>4 DEF Edge, SharedStep
<1>6. TargetRunsForTurn'
  BY <1>3 DEF TargetRunsForTurn, output_arguments, start_target_state_machine, TargetStep,
              Edge, SharedStep, CheckState, GiveStart, WaitForFinish, RegisterData, GiveFinish
<1>7. (/\ step \in {"wait_for_finish", "register_data"} =>
            target_arguments = input_arguments[turn] /\ target # "ready"
       /\ step = "register_data" => target = "finished")'
  BY <1>3 DEF TargetRunsForTurn, output_arguments, start_target_state_machine, TargetStep,
              Edge, SharedStep, CheckState, GiveStart, WaitForFinish, RegisterData, GiveFinish
<1>8. (step = "give_finish" => received_data[turn] = Result(input_arguments[turn]))'
  BY <1>3 DEF in_received_data, ReceivedData, TypeOK,
              Edge, SharedStep, CheckState, GiveStart, WaitForFinish, RegisterData, GiveFinish
<1>9. ASSUME NEW x \in Side, waiting'[x]
      PROVE  /\ overtaken'[x] <= 1
             /\ overtaken'[x] = 1 =>
                  Served(x)' \/ (FDC_TOP_2'[x] /\ (turn' = x \/ step' # "check_state"))
  <2>1. waiting[x] /\ overtaken[x] \in Nat /\ overtaken[x] <= 1
    BY <1>2, <1>9 DEF OvertakenOnce, TypeOK
  <2>2. FDC_TOP_1[x] \/ Served(x)
    BY <2>1 DEF RequestsAreKept
  <2>3. CASE Starts /\ turn # x
    <3>1. turn' = turn /\ step = "check_state" /\ step' = "give_start"
      BY <2>3 DEF Starts, Edge, SharedStep, CheckState, GiveStart, WaitForFinish,
                  RegisterData, GiveFinish
    <3>2. ~Served(x) /\ overtaken[x] # 1
      BY <2>1, <2>3, <3>1 DEF Served
    <3>3. FDC_TOP_2'[x] /\ overtaken'[x] = overtaken[x] + 1
      BY <1>2, <2>1, <2>2, <2>3, <3>1, <3>2
    <3> QED
      BY <2>1, <3>1, <3>2, <3>3
  <2>4. CASE ~(Starts /\ turn # x)
    <3>1. overtaken'[x] = overtaken[x]
      BY <1>2, <2>4
    <3>2. ASSUME overtaken[x] = 1
          PROVE  Served(x)' \/ (FDC_TOP_2'[x] /\ (turn' = x \/ step' # "check_state"))
      <4>1. Served(x) \/ (FDC_TOP_2[x] /\ (turn = x \/ step # "check_state"))
        BY <2>1, <3>2
      <4>2. CASE Served(x)
        BY <1>2, <1>9, <4>2 DEF Served, finish, Edge, SharedStep, CheckState, GiveStart,
                                WaitForFinish, RegisterData, GiveFinish
      <4>3. CASE ~Served(x)
        <5>1. FDC_TOP_2[x] /\ FDC_TOP_1[x] /\ (turn = x \/ step # "check_state")
          BY <4>1, <4>3
        <5>2. Served(x)' \/ (turn' = x \/ step' # "check_state")
          BY <4>3, <5>1, TwoSides
             DEF Served, Edge, SharedStep, CheckState, GiveStart, WaitForFinish,
                 RegisterData, GiveFinish, TypeOK
        <5>3. Served(x)' \/ FDC_TOP_2'[x]
          BY <1>2, <5>1 DEF Served
        <5> QED
          BY <5>2, <5>3 DEF Served
      <4> QED
        BY <4>2, <4>3
    <3> QED
      BY <2>1, <3>1, <3>2
  <2> QED
    BY <2>3, <2>4
<1> QED
  BY <1>1, <1>4, <1>5, <1>6, <1>7, <1>8, <1>9 DEF OvertakenOnce

(* Every step keeps the inductive invariant of the arbiter. *)
LEMMA StepInv == IInv /\ [Next]_vars => IInv'
<1> SUFFICES ASSUME IInv, [Next]_vars PROVE IInv'
  OBVIOUS
<1>1. CASE UNCHANGED vars
  BY <1>1 DEF IInv, vars, sharedVars, askerVars, targetVars, TypeOK, RequestsAreKept, Served,
              TargetRunsForTurn, output_arguments, OvertakenOnce
<1>2. CASE Next
  BY <1>2, EdgeInv, ResetInv, AskInv DEF Next
<1> QED
  BY <1>1, <1>2

(* The inductive invariant of the shared machine and its users.            *)
THEOREM InvariantHolds == Spec => []IInv
BY InitInv, StepInv, PTL DEF Spec

(* Registers keep their types: what a side receives is always a result.    *)
THEOREM TypeCorrect == Spec => []TypeOK
<1>1. IInv => TypeOK
  BY DEF IInv
<1> QED
  BY <1>1, InvariantHolds, PTL

(* No request is lost and none is served twice.                            *)
THEOREM NoRequestIsLost == Spec => []RequestsAreKept
<1>1. IInv => RequestsAreKept
  BY DEF IInv
<1> QED
  BY <1>1, InvariantHolds, PTL

(* finish and its data go to the side that asked for them.                 *)
THEOREM AnswersReachTheirAskers == Spec => []AnswerIsForTheAsker
<1>1. IInv => AnswerIsForTheAsker
  BY DEF IInv, AnswerIsForTheAsker, RequestsAreKept, Served, finish
<1> QED
  BY <1>1, InvariantHolds, PTL

(* Nobody who has asked is overtaken twice.                                *)
THEOREM NobodyIsOvertakenTwice == Spec => []OvertakenOnce
<1>1. IInv => OvertakenOnce
  BY DEF IInv
<1> QED
  BY <1>1, InvariantHolds, PTL
=============================================================================
