---------------------------- MODULE MemoryShuffle ----------------------------
(***************************************************************************)
(* s_memory_shuffle: RC4's key schedule as a state machine that reads and  *)
(* writes a memory with registered addresses. Each register has an always  *)
(* block of its own in the code and a conjunct of its own here.            *)
(***************************************************************************)
EXTENDS RC4Types

VARIABLES shuffle_state, shuffle_i, shuffle_j, shuffle_si, shuffle_sj

ShuffleState == {"IDLE", "SET_I_ADDRESS", "READ_SI", "COMPUTE_J", "SET_J_ADDRESS",
                 "READ_SJ", "STORE_SI", "STORE_SJ", "I_ADD", "FINISH"}

(* From COMPUTE_J's edge to I_ADD's, the step of the loop is decided and   *)
(* its swap is under way.                                                  *)
ShuffleCommitted ==
  {"SET_J_ADDRESS", "READ_SJ", "STORE_SI", "STORE_SJ", "I_ADD"}

ShuffleInit ==
  /\ shuffle_state = "IDLE"
  /\ shuffle_i = 0 /\ shuffle_j = 0
  /\ shuffle_si = 0 /\ shuffle_sj = 0

shuffle_finish == shuffle_state = "FINISH"

(* A bug: STORE_SI selects address j, so both stores hit the same cell. *)
ShuffleSelectsJForBothStores ==
  shuffle_state \in {"IDLE", "SET_J_ADDRESS", "STORE_SI", "STORE_SJ"}

(* state[6]: j drives the address wires. *)
shuffle_address_select == shuffle_state \in {"IDLE", "SET_J_ADDRESS", "STORE_SJ"}

(* state[7] selects the data, state[8] enables the write. *)
ShuffleRequest ==
  [address |-> IF shuffle_address_select THEN shuffle_j ELSE shuffle_i,
   data    |-> IF shuffle_state = "STORE_SI" THEN shuffle_sj ELSE shuffle_si,
   wren    |-> shuffle_state \in {"STORE_SI", "STORE_SJ"}]

(* A bug: S[j] is read in the cycle that sets its address. *)
ShuffleComputeJThenRead == "READ_SJ"

(* The state after COMPUTE_J sets the address a cycle before READ_SJ. *)
ShuffleAfterComputeJ == "SET_J_ADDRESS"

(* The case statement of the state register. *)
ShuffleSuccessor(start) ==
  CASE shuffle_state = "IDLE"          -> IF start THEN "SET_I_ADDRESS" ELSE "IDLE"
    [] shuffle_state = "SET_I_ADDRESS" -> "READ_SI"
    [] shuffle_state = "READ_SI"       -> "COMPUTE_J"
    [] shuffle_state = "COMPUTE_J"     -> ShuffleAfterComputeJ
    [] shuffle_state = "SET_J_ADDRESS" -> "READ_SJ"
    [] shuffle_state = "READ_SJ"       -> "STORE_SI"
    [] shuffle_state = "STORE_SI"      -> "STORE_SJ"
    [] shuffle_state = "STORE_SJ"      -> "I_ADD"
    [] shuffle_state = "I_ADD"         -> IF shuffle_i = N - 1 THEN "FINISH"
                                          ELSE "SET_I_ADDRESS"
    [] shuffle_state = "FINISH"        -> "IDLE"

(* A bug: j survives FINISH, so the next message starts from a stale j. *)
ShuffleJKept(reset, key) ==
  shuffle_j' = IF reset THEN 0
               ELSE IF shuffle_state = "COMPUTE_J"
                    THEN (shuffle_j + shuffle_si + key[shuffle_i % 3]) % N
               ELSE shuffle_j

ShuffleJ(reset, key) ==
  shuffle_j' = IF reset \/ shuffle_state = "FINISH" THEN 0
               ELSE IF shuffle_state = "COMPUTE_J"
                    THEN (shuffle_j + shuffle_si + key[shuffle_i % 3]) % N
               ELSE shuffle_j

(* A bug: SET_I_ADDRESS has the bit that clears i. *)
ShuffleIRestarts(reset) ==
  shuffle_i' = IF reset \/ shuffle_state \in {"FINISH", "SET_I_ADDRESS"} THEN 0
               ELSE IF shuffle_state = "I_ADD" THEN (shuffle_i + 1) % N
               ELSE shuffle_i

ShuffleI(reset) ==
  shuffle_i' = IF reset \/ shuffle_state = "FINISH" THEN 0
               ELSE IF shuffle_state = "I_ADD" THEN (shuffle_i + 1) % N
               ELSE shuffle_i

(* si and sj have an enable and no reset. *)
ShuffleReads(q) ==
  /\ shuffle_si' = IF shuffle_state = "READ_SI" THEN q ELSE shuffle_si
  /\ shuffle_sj' = IF shuffle_state = "READ_SJ" THEN q ELSE shuffle_sj

ShuffleStep(reset, start, key, q) ==
  /\ shuffle_state' = IF reset THEN "IDLE" ELSE ShuffleSuccessor(start)
  /\ ShuffleI(reset)
  /\ ShuffleJ(reset, key)
  /\ ShuffleReads(q)
=============================================================================
