---------------------------- MODULE DecodeWithKey ----------------------------
(***************************************************************************)
(* decode_with_key: the sequencer, the three engines, the multiplexer that *)
(* shares the working memory between them, and the three memories. One     *)
(* step is one rising edge of clk: every register takes its new value at   *)
(* once. reset, start and secret_key are wires from push buttons and       *)
(* switches, so any value may be present at any edge.                      *)
(***************************************************************************)
EXTENDS MainControl, MemoryInit, MemoryShuffle, Decode, RC4Reference

VARIABLES
  secret_key,    \* the switches, as the next edge will see them
  S,             \* Working_Memory_RAM
  s_address,     \* its address register: its output q is S[s_address]
  encr_address,  \* the address register of Encryp_Message_ROM
  message        \* Decryp_Message_RAM

main_vars    == <<main_state>>
init_vars    == <<init_state, counter>>
shuffle_vars == <<shuffle_state, shuffle_i, shuffle_j, shuffle_si, shuffle_sj>>
decode_vars  == <<decode_state, decode_i, decode_j, decode_k,
                  decode_si, decode_sj, decode_f>>
memory_vars  == <<S, s_address, encr_address, message>>
vars == <<main_vars, init_vars, shuffle_vars, decode_vars, memory_vars, secret_key>>

(* The outputs of the two memories that are read: the addresses are        *)
(* registered, the outputs are not, and a write shows in the next cycle.   *)
s_memory_q == S[s_address]
encr_mem_q == Encrypted[encr_address]

NoRequest == [address |-> 0, data |-> 0, wren |-> FALSE]

(* share_access_to_s_memory *)
SharedRequest ==
  CASE select_share = "INIT"    -> InitRequest
    [] select_share = "SHUFFLE" -> ShuffleRequest
    [] select_share = "DECODE"  -> DecodeRequest
    [] select_share = "NONE"    -> NoRequest

WorkingMemory ==
  /\ s_address' = SharedRequest.address
  /\ S' = IF SharedRequest.wren
          THEN [S EXCEPT ![SharedRequest.address] = SharedRequest.data]
          ELSE S

(* A bug: the byte is stored while f is still being read. *)
MessageStoredEarly ==
  /\ encr_address' = decode_k
  /\ message' = IF decode_state = "READ_F"
                THEN [message EXCEPT ![decode_k] = ByteXor(decode_f, encr_mem_q)]
                ELSE message

MessageMemories ==
  /\ encr_address' = decode_k
  /\ message' = IF decode_state = "STORE_DECRYPTED"
                THEN [message EXCEPT ![decode_k] = ByteXor(decode_f, encr_mem_q)]
                ELSE message

Init ==
  /\ MainInit /\ InitInit /\ ShuffleInit /\ DecodeInit
  /\ secret_key \in Keys
  /\ S = [a \in Byte |-> 0] /\ s_address = 0
  /\ encr_address = 0 /\ message = [m \in MsgIndex |-> 0]

(* One rising edge: every always block of every module. *)
Clock(reset, start) ==
  /\ MainStep(reset, start, init_finish, shuffle_finish, decode_finish)
  /\ InitStep(reset, start_init)
  /\ ShuffleStep(reset, start_shuffle, secret_key, s_memory_q)
  /\ DecodeStep(reset, start_decode, s_memory_q)
  /\ WorkingMemory
  /\ MessageMemories

(* ~KEY[3] and ~KEY[0] are read as levels; the switches then move. *)
Edge(reset, keys) ==
  (\E start \in BOOLEAN : Clock(reset, start)) /\ secret_key' \in keys

ResetEdge == Edge(TRUE, Keys)
RunEdge   == Edge(FALSE, Keys)

Next == ResetEdge \/ RunEdge

Spec == Init /\ [][Next]_vars

(* The switches are left alone while a message is being decrypted. The     *)
(* clock never stops, so edges without a reset keep coming.                *)
SteadyKeys == IF main_state = "IDLE" THEN Keys ELSE {secret_key}
SteadyResetEdge == Edge(TRUE, SteadyKeys)
SteadyRunEdge   == Edge(FALSE, SteadyKeys)
SteadyNext == SteadyResetEdge \/ SteadyRunEdge
SteadySpec == Init /\ [][SteadyNext]_vars /\ WF_vars(SteadyRunEdge)

-----------------------------------------------------------------------------
(* Every register stays within its width: a counter that is compared with  *)
(* its last value and then wraps never leaves the addresses of its memory. *)
TypeOK ==
  /\ main_state \in MainState
  /\ init_state \in InitState /\ counter \in Byte
  /\ shuffle_state \in ShuffleState
  /\ shuffle_i \in Byte /\ shuffle_j \in Byte
  /\ shuffle_si \in Byte /\ shuffle_sj \in Byte
  /\ decode_state \in DecodeState /\ decode_k \in MsgIndex
  /\ decode_i \in Byte /\ decode_j \in Byte
  /\ decode_si \in Byte /\ decode_sj \in Byte /\ decode_f \in Byte
  /\ secret_key \in Keys
  /\ S \in [Byte -> Byte] /\ s_address \in Byte
  /\ encr_address \in MsgIndex /\ message \in [MsgIndex -> Byte]

(* An engine is out of its IDLE state only while the sequencer gives it    *)
(* the working memory: otherwise its writes are lost and it reads another  *)
(* engine's cell. The two sides are separate state machines that agree     *)
(* only through start and finish wires, with resets at any edge.           *)
EngineOwnsMemory ==
  /\ init_state # "IDLE"    => select_share = "INIT"
  /\ shuffle_state # "IDLE" => select_share = "SHUFFLE"
  /\ decode_state # "IDLE"  => select_share = "DECODE"

(* The shuffle always starts from the identity, also after resets in the   *)
(* middle of an initialisation (which keep the counter) and in the middle  *)
(* of a swap (which leave the memory without one of its values).           *)
IdentityWhenShuffleStarts == main_state = "START_SHUFFLE" => S = Identity

(* A register that takes q takes the cell its engine means: the address    *)
(* was registered by the RAM one edge earlier and nobody moved it since.   *)
ReadsSeeAddressedCell ==
  /\ shuffle_state = "READ_SI" => s_address = shuffle_i
  /\ shuffle_state = "READ_SJ" => s_address = shuffle_j
  /\ decode_state = "READ_SI" => s_address = decode_i
  /\ decode_state = "READ_SJ" => s_address = decode_j
  /\ decode_state = "READ_F" => s_address = (S[decode_i] + S[decode_j]) % N
  /\ decode_state = "STORE_DECRYPTED" => encr_address = decode_k

(* From the initialisation on, the working memory is a permutation except  *)
(* between the two writes of one swap.                                     *)
PermutationBetweenSwaps ==
  /\ select_share \in {"SHUFFLE", "DECODE"}
  /\ shuffle_state # "STORE_SJ"
  /\ decode_state # "STORE_SJ"
  => Permutation(S)

-----------------------------------------------------------------------------
(* The inductive invariant behind the four invariants above, in parts.     *)

(* Who may be running in each state of the sequencer. *)
Handshake ==
  /\ init_state = "START" => main_state = "WAIT_INIT"
  /\ shuffle_state # "IDLE" <=> main_state = "WAIT_SHUFFLE"
  /\ decode_state # "IDLE" <=> main_state = "WAIT_DECODE"

(* The counter survives resets, and so does the prefix it has written: no  *)
(* other engine writes before the counter is back at 0.                    *)
InitPrefix ==
  /\ \A a \in Byte : a < counter => S[a] = a
  /\ select_share \in {"SHUFFLE", "DECODE"} => counter = 0
  /\ main_state = "WAIT_INIT" /\ init_state = "IDLE" => counter = 0 /\ S = Identity
  /\ main_state = "START_SHUFFLE" => S = Identity

(* What the shuffle's registers know of the memory in each state. *)
ShuffleKnows ==
  /\ shuffle_state = "READ_SI" => s_address = shuffle_i
  /\ shuffle_state = "READ_SJ" => s_address = shuffle_j
  /\ shuffle_state \in {"COMPUTE_J", "SET_J_ADDRESS", "READ_SJ", "STORE_SI"}
       => shuffle_si = S[shuffle_i]
  /\ shuffle_state = "STORE_SI" => shuffle_sj = S[shuffle_j]

(* The same for decode, whose last read is of the cell si + sj. *)
DecodeKnows ==
  /\ decode_state = "READ_SI" => s_address = decode_i
  /\ decode_state = "READ_SJ" => s_address = decode_j
  /\ decode_state \in {"UPDATE_J", "SET_SJ_ADDR", "READ_SJ", "STORE_SI"}
       => decode_si = S[decode_i]
  /\ decode_state = "STORE_SI" => decode_sj = S[decode_j]
  /\ decode_state = "STORE_SJ" => (decode_i = decode_j => decode_si = decode_sj)
  /\ decode_state \in {"STORE_SJ", "SET_F_ADDR", "READ_F"} => decode_si = S[decode_j]
  /\ decode_state \in {"SET_F_ADDR", "READ_F"} => decode_sj = S[decode_i]
  /\ decode_state = "READ_F" => s_address = (decode_si + decode_sj) % N
  /\ decode_state \in {"READ_F", "STORE_DECRYPTED"} => encr_address = decode_k
  /\ decode_state = "STORE_DECRYPTED" => decode_f = S[(S[decode_j] + S[decode_i]) % N]

(* An engine in IDLE is ready for the next message: its indices are 0.     *)
IdleAtZero ==
  /\ shuffle_state = "IDLE" => shuffle_i = 0 /\ shuffle_j = 0
  /\ decode_state = "IDLE" => decode_i = 0 /\ decode_j = 0 /\ decode_k = 0

(* Between the two writes of a swap, the second one makes S a permutation. *)
SwapCompletes ==
  select_share \in {"SHUFFLE", "DECODE"} =>
    Permutation(IF shuffle_state = "STORE_SJ" THEN [S EXCEPT ![shuffle_j] = shuffle_si]
                ELSE IF decode_state = "STORE_SJ" THEN [S EXCEPT ![decode_i] = decode_sj]
                ELSE S)

IInv ==
  /\ TypeOK /\ Handshake /\ InitPrefix /\ ShuffleKnows /\ DecodeKnows /\ SwapCompletes
  /\ IdleAtZero

-----------------------------------------------------------------------------
(* The abstract RC4 inside. A swap takes effect at the edge that computes  *)
(* j; until both cells are written, the mapping completes it.              *)
PhaseBar ==
  CASE select_share \in {"NONE", "INIT"} -> "idle"
    [] select_share = "SHUFFLE" -> "schedule"
    [] select_share = "DECODE" ->
         IF decode_state \in DecodeEmitting THEN "emit" ELSE "swap"

PermBar ==
  CASE select_share \in {"NONE", "INIT"} -> Identity
    [] select_share = "SHUFFLE" ->
         IF shuffle_state \in {"SET_J_ADDRESS", "READ_SJ", "STORE_SI"}
         THEN Swap(S, shuffle_i, shuffle_j)
         ELSE IF shuffle_state = "STORE_SJ"
         THEN [S EXCEPT ![shuffle_j] = shuffle_si] ELSE S
    [] select_share = "DECODE" ->
         IF decode_state \in {"SET_SJ_ADDR", "READ_SJ", "STORE_SI"}
         THEN Swap(S, decode_i, decode_j)
         ELSE IF decode_state = "STORE_SJ"
         THEN [S EXCEPT ![decode_i] = decode_sj] ELSE S

IBar ==
  CASE select_share \in {"NONE", "INIT"} -> 0
    [] select_share = "SHUFFLE" ->
         IF shuffle_state = "FINISH" THEN N
         ELSE IF shuffle_state \in ShuffleCommitted THEN shuffle_i + 1 ELSE shuffle_i
    [] select_share = "DECODE" ->
         IF decode_state \in DecodeLooking THEN (decode_i - 1) % N ELSE decode_i

JBar ==
  CASE select_share \in {"NONE", "INIT"} -> 0
    [] select_share = "SHUFFLE" -> shuffle_j
    [] select_share = "DECODE"  -> decode_j

CountBar ==
  IF select_share # "DECODE" THEN 0
  ELSE IF decode_state = "FINISH" THEN L
  ELSE IF decode_state = "UPDATE_K" THEN decode_k + 1 ELSE decode_k

Abstract == INSTANCE RC4
  WITH phase <- PhaseBar, perm <- PermBar, i <- IBar, j <- JBar,
       count <- CountBar, plain <- message

(* Every clock edge is a step of RC4 or changes nothing of it, whatever    *)
(* the buttons and switches do: swaps are never half done or done twice,   *)
(* and a reset leaves nothing behind that the next run could see.          *)
ImplementsRC4 == Abstract!Spec

(* With the switches left alone, the message at the end of a run is the    *)
(* one the program computes, however many runs and resets came before.     *)
MessageDecrypted == decode_state = "FINISH" => message = Decrypted(secret_key)

(* Every run ends: the sequencer never waits for a finish that was missed. *)
EveryRunEnds == (main_state # "IDLE") ~> (main_state = "IDLE")
=============================================================================
