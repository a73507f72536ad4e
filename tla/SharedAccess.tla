---------------------------- MODULE SharedAccess -----------------------------
(***************************************************************************)
(* shared_access_to_one_state_machine: two sides, a and b, share one target*)
(* state machine. A state of the enumeration is a step and the side it is  *)
(* for; the side is the bit select_b_output_parameters.                    *)
(***************************************************************************)
EXTENDS TrapEdge

CONSTANTS
  First,        \* side a, which is looked at first
  NoData        \* received_data after reset

ASSUME SideAssumption == First \in Side /\ \E x \in Side : Side = {First, x} /\ x # First

VARIABLES
  turn, step,      \* state
  received_data    \* received_data_a, received_data_b

Step == {"check_state", "give_start", "wait_for_finish", "register_data", "give_finish"}

SharedInit ==
  /\ turn = First /\ step = "check_state"
  /\ received_data = [x \in Side |-> NoData]

Other(x) == CHOOSE y \in Side : y # x

start_target_state_machine == step = "give_start"
finish(x) == step = "give_finish" /\ turn = x

(* reset_start_request_a and _b, by their bits of the state. A bug: they   *)
(* are connected to the wrong sides.                                       *)
ClearsTheOther(s, t) == [x \in Side |-> s = "give_start" /\ t # x]

reset_start_request(s, t) == [x \in Side |-> s = "give_start" /\ t = x]

output_arguments(input_arguments) == input_arguments[turn]

(* A bug: a side without a request keeps the turn. *)
CheckStays(start_request) ==
  /\ step = "check_state" /\ UNCHANGED turn
  /\ step' = IF start_request[turn] THEN "give_start" ELSE "check_state"

CheckState(start_request) ==
  /\ step = "check_state"
  /\ IF start_request[turn] THEN step' = "give_start" /\ UNCHANGED turn
                            ELSE step' = "check_state" /\ turn' = Other(turn)

GiveStart == step = "give_start" /\ step' = "wait_for_finish" /\ UNCHANGED turn

(* A bug: the answer is taken for finished while the target still runs. *)
WaitsOneCycle(finished) ==
  step = "wait_for_finish" /\ step' = "register_data" /\ UNCHANGED turn

WaitForFinish(finished) ==
  /\ step = "wait_for_finish" /\ UNCHANGED turn
  /\ step' = IF finished THEN "register_data" ELSE "wait_for_finish"

RegisterData == step = "register_data" /\ step' = "give_finish" /\ UNCHANGED turn

(* A bug: the state after give_finish is the start of the same side.       *)
FinishStartsAgain == step = "give_finish" /\ step' = "give_start" /\ UNCHANGED turn

GiveFinish == step = "give_finish" /\ step' = "check_state" /\ turn' = Other(turn)

(* The registers of both sides. Bugs: they load one step early; the other  *)
(* side's is loaded.                                                       *)
LoadsEarly(data) ==
  received_data' = IF step = "wait_for_finish" THEN [received_data EXCEPT ![turn] = data]
                                               ELSE received_data

LoadsTheOther(data) ==
  received_data' = IF step = "register_data"
                   THEN [received_data EXCEPT ![Other(turn)] = data] ELSE received_data

ReceivedData(data) ==
  received_data' = IF step = "register_data" THEN [received_data EXCEPT ![turn] = data]
                                             ELSE received_data

SharedStep(start_request, finished, data) ==
  /\ \/ CheckState(start_request)
     \/ GiveStart
     \/ WaitForFinish(finished)
     \/ RegisterData
     \/ GiveFinish
  /\ ReceivedData(data)

SharedReset ==
  /\ turn' = First /\ step' = "check_state"
  /\ received_data' = [x \in Side |-> NoData]
=============================================================================
