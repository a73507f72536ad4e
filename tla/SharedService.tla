---------------------------- MODULE SharedService ----------------------------
(***************************************************************************)
(* The shared machine between two askers and a target. The repository has  *)
(* only its test bench around it; the askers and the target here are the   *)
(* ones its ports are made for: an asker keeps its arguments until finish, *)
(* and the target, on the same clock, runs for as long as it likes and     *)
(* holds its result until it is started again.                             *)
(***************************************************************************)
EXTENDS SharedAccess, Naturals

CONSTANTS
  Arguments,   \* the arguments an asker can give
  Result(_),   \* what the target computes from them
  Partial      \* what it shows before it has finished

VARIABLES
  waiting,            \* waiting[x]: side x has asked and has not seen finish
  input_arguments,
  target,             \* "ready", "running" or "finished"
  target_arguments,   \* what the target was started with
  overtaken           \* overtaken[x]: starts of the other side since x asked

sharedVars == <<turn, step, received_data>>
askerVars  == <<waiting, input_arguments>>
targetVars == <<target, target_arguments>>
vars == <<FDC_TOP_1, FDC_TOP_2, sharedVars, askerVars, targetVars, overtaken>>

Init ==
  /\ TrapInit /\ SharedInit
  /\ waiting = [x \in Side |-> FALSE]
  /\ input_arguments \in [Side -> Arguments]
  /\ target = "ready" /\ target_arguments \in Arguments
  /\ overtaken = [x \in Side |-> 0]

-----------------------------------------------------------------------------
in_received_data == IF target = "finished" THEN Result(target_arguments) ELSE Partial

(* The target: a start is taken in any state but running, and finished is  *)
(* a level or a pulse.                                                     *)
TargetStep ==
  IF start_target_state_machine /\ target # "running"
  THEN target' = "running" /\ target_arguments' = output_arguments(input_arguments)
  ELSE /\ UNCHANGED target_arguments
       /\ target' \in IF target = "running" THEN {"running", "finished"} ELSE {target}

(* Side x asks, at any time between two edges of sm_clk.                   *)
Ask(x) ==
  /\ ~waiting[x]
  /\ waiting' = [waiting EXCEPT ![x] = TRUE]
  /\ \E v \in Arguments : input_arguments' = [input_arguments EXCEPT ![x] = v]
  /\ TrapRise(x, reset_start_request(step, turn)[x])
  /\ overtaken' = [overtaken EXCEPT ![x] = 0]
  /\ UNCHANGED <<sharedVars, targetVars>>

Starts == step # "give_start" /\ step' = "give_start"

Edge ==
  /\ SharedStep(FDC_TOP_2, target = "finished", in_received_data)
  /\ TrapClock(reset_start_request(step', turn'))
  /\ TargetStep
  /\ waiting' = [x \in Side |-> waiting[x] /\ ~finish(x)]
  /\ overtaken' = [x \in Side |-> IF Starts /\ turn # x /\ waiting[x] THEN overtaken[x] + 1
                                                                       ELSE overtaken[x]]
  /\ UNCHANGED input_arguments

(* A reset reaches the askers, the target and the traps as well.           *)
Reset ==
  /\ SharedReset
  /\ TrapReset
  /\ waiting' = [x \in Side |-> FALSE]
  /\ overtaken' = [x \in Side |-> 0]
  /\ target' = "ready"
  /\ UNCHANGED <<input_arguments, target_arguments>>

Next == Edge \/ Reset \/ \E x \in Side : Ask(x)

Spec == Init /\ [][Next]_vars

(* The clock runs and the target finishes; nobody has to ask, and reset    *)
(* need not come.                                                          *)
FairSpec == Spec /\ WF_vars(Edge) /\ SF_vars(Edge /\ target' = "finished")

-----------------------------------------------------------------------------
(* Every register has its type, and what a side receives is a result: the  *)
(* register is not loaded before the target has finished.                  *)
TypeOK ==
  /\ FDC_TOP_1 \in [Side -> BOOLEAN] /\ FDC_TOP_2 \in [Side -> BOOLEAN]
  /\ turn \in Side /\ step \in Step
  /\ received_data \in [Side -> {Result(v) : v \in Arguments} \union {NoData}]
  /\ waiting \in [Side -> BOOLEAN] /\ input_arguments \in [Side -> Arguments]
  /\ target \in {"ready", "running", "finished"} /\ target_arguments \in Arguments
  /\ overtaken \in [Side -> Nat]

Served(x) == turn = x /\ step # "check_state"

(* No request is lost, nor served twice: a side waits exactly when its     *)
(* request is in the trap or the machine is at work for it, never both.    *)
RequestsAreKept ==
  \A x \in Side :
    /\ waiting[x] <=> (FDC_TOP_1[x] \/ Served(x))
    /\ ~(FDC_TOP_1[x] /\ Served(x))

(* The target runs for one side at a time, the machine waits for it, and   *)
(* the arguments it was started with are still at its input.               *)
TargetRunsForTurn ==
  target = "running" =>
    step = "wait_for_finish" /\ target_arguments = output_arguments(input_arguments)

(* finish goes to a side that asked, with the result of its own arguments  *)
(* in its register.                                                        *)
AnswerIsForTheAsker ==
  \A x \in Side :
    finish(x) => waiting[x] /\ received_data[x] = Result(input_arguments[x])

(* After a side has asked the other is started at most once before it.     *)
OvertakenOnce == \A x \in Side : waiting[x] => overtaken[x] <= 1

(* The facts above follow from what the machine is at in each step.        *)
IInv ==
  /\ TypeOK
  /\ RequestsAreKept
  /\ \A x \in Side : FDC_TOP_2[x] => FDC_TOP_1[x]
  /\ TargetRunsForTurn
  /\ step \in {"wait_for_finish", "register_data"} =>
       target_arguments = input_arguments[turn] /\ target # "ready"
  /\ step = "register_data" => target = "finished"
  /\ step = "give_finish" => received_data[turn] = Result(input_arguments[turn])
  /\ OvertakenOnce
  /\ \A x \in Side :
       waiting[x] /\ overtaken[x] = 1 =>
         Served(x) \/ (FDC_TOP_2[x] /\ (turn = x \/ step # "check_state"))

(* Every side that asks sees finish, or a reset.                           *)
EveryRequestEnds == \A x \in Side : waiting[x] ~> ~waiting[x]
=============================================================================
