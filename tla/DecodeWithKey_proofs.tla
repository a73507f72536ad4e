------------------------- MODULE DecodeWithKey_proofs -------------------------
(***************************************************************************)
(* The decrypter's invariants, that it implements RC4, and that what it    *)
(* leaves in the decoded memory is the message, for every size of memory   *)
(* and message, every set of keys and every byte operation that ^ could    *)
(* be.                                                                     *)
(***************************************************************************)
EXTENDS DecodeWithKey, WellFoundedInduction, TLAPS

(* 0, from which every counter and address starts, is of their types. *)
LEMMA ZeroType == 0 \in Byte /\ 0 \in MsgIndex
BY SizeAssumption DEF Byte, MsgIndex

-----------------------------------------------------------------------------
(* A sum that wraps at the width of its register is a value of it. *)
LEMMA ModType ==
  ASSUME NEW n \in Nat \ {0}, NEW a \in Int
  PROVE  a % n \in 0 .. n - 1
OBVIOUS

(* i + 1 and si + sj, as eight bits. *)
LEMMA ByteSum ==
  ASSUME NEW a \in Byte, NEW b \in Byte
  PROVE  (a + b) % N \in Byte /\ (a + 1) % N \in Byte
BY SizeAssumption, ModType DEF Byte

(* j + si + a byte of the key, as eight bits. *)
LEMMA ByteSum3 ==
  ASSUME NEW a \in Byte, NEW b \in Byte, NEW c \in Byte
  PROVE  (a + b + c) % N \in Byte
BY SizeAssumption, ModType DEF Byte

(* k + 1 as an index of the message. *)
LEMMA NextIndexType ==
  ASSUME NEW m \in MsgIndex
  PROVE  (m + 1) % L \in MsgIndex
BY SizeAssumption, ModType DEF MsgIndex

(* The byte of the switches that i % 3 selects is a byte. *)
LEMMA KeyByteType ==
  ASSUME NEW key \in Keys, NEW a \in Byte
  PROVE  key[a % 3] \in Byte
<1>1. key \in [0 .. 2 -> Byte]
  BY KeysAssumption DEF Key
<1>2. a % 3 \in 0 .. 2
  BY SizeAssumption DEF Byte
<1> QED BY <1>1, <1>2

(* Every edge is one Clock step, with or without a reset. *)
LEMMA NextIsClock ==
  ASSUME Next
  PROVE  \E reset, start \in BOOLEAN : Clock(reset, start) /\ secret_key' \in Keys
BY DEF Next, ResetEdge, RunEdge, Edge

(* Each engine drives a well-formed request, so the multiplexer does.      *)
LEMMA RequestType ==
  ASSUME TypeOK
  PROVE  /\ InitRequest \in Request
         /\ ShuffleRequest \in Request
         /\ DecodeRequest \in Request
         /\ SharedRequest \in Request
<1>1. InitRequest \in Request
  BY DEF TypeOK, InitRequest, Request
<1>2. ShuffleRequest \in Request
  BY DEF TypeOK, ShuffleRequest, Request, shuffle_address_select
<1>3. s_mem_addr \in Byte
  <2>1. (decode_si + decode_sj) % N \in Byte
    BY ByteSum DEF TypeOK
  <2> QED BY <2>1 DEF TypeOK, s_mem_addr
<1>4. DecodeRequest \in Request
  BY <1>3 DEF TypeOK, DecodeRequest, Request
<1>5. NoRequest \in Request
  BY ZeroType DEF NoRequest, Request
<1>6. select_share \in {"NONE", "INIT", "SHUFFLE", "DECODE"}
  BY DEF TypeOK, MainState, select_share
<1>7. SharedRequest \in Request
  BY <1>1, <1>2, <1>4, <1>5, <1>6 DEF SharedRequest
<1> QED BY <1>1, <1>2, <1>4, <1>7

(* The registers power up with values of their types. *)
LEMMA TypeInit == Init => TypeOK
BY KeysAssumption, ZeroType
   DEF Init, TypeOK, MainInit, InitInit, ShuffleInit, DecodeInit,
       MainState, InitState, ShuffleState, DecodeState

(* An edge of the clock keeps every register in its type. *)
LEMMA TypeStep == TypeOK /\ [Next]_vars => TypeOK'
<1> SUFFICES ASSUME TypeOK, [Next]_vars PROVE TypeOK'
  OBVIOUS
<1>1. CASE UNCHANGED vars
  BY <1>1 DEF TypeOK, vars, main_vars, init_vars, shuffle_vars, decode_vars, memory_vars
<1>2. CASE Next
  <2>1. PICK reset \in BOOLEAN, start \in BOOLEAN :
             Clock(reset, start) /\ secret_key' \in Keys
    BY <1>2, NextIsClock
  <2>2. s_memory_q \in Byte /\ encr_mem_q \in Byte
    BY MessageAssumption DEF TypeOK, s_memory_q, encr_mem_q
  <2>3. main_state' \in MainState
    BY <2>1 DEF Clock, MainStep, MainBranch, MainState
  <2>4. init_state' \in InitState /\ counter' \in Byte
    <3>1. init_state' \in InitState
      BY <2>1 DEF Clock, InitStep, InitState, TypeOK
    <3>2. counter' \in {0, counter, counter + 1} /\ (counter' = counter + 1 => counter # N - 1)
      BY <2>1, SizeAssumption DEF Clock, InitStep, InitCounter, TypeOK, Byte
    <3> QED BY <3>1, <3>2, SizeAssumption DEF TypeOK, Byte
  <2>5. shuffle_state' \in ShuffleState
    BY <2>1 DEF Clock, ShuffleStep, ShuffleSuccessor, ShuffleAfterComputeJ, ShuffleState, TypeOK
  <2>6. /\ shuffle_i' \in Byte /\ shuffle_si' \in Byte /\ shuffle_sj' \in Byte
    <3>1. (shuffle_i + 1) % N \in Byte
      BY ByteSum DEF TypeOK
    <3>2. shuffle_i' \in Byte
      <4>1. shuffle_i' \in {0, shuffle_i, (shuffle_i + 1) % N}
        BY <2>1, Zenon DEF Clock, ShuffleStep, ShuffleI
      <4> QED BY <3>1, <4>1, ZeroType DEF TypeOK
    <3>3. shuffle_si' \in Byte /\ shuffle_sj' \in Byte
      BY <2>1, <2>2 DEF Clock, ShuffleStep, ShuffleReads, TypeOK
    <3> QED BY <3>2, <3>3
  <2>7. shuffle_j' \in Byte
    <3>1. (shuffle_j + shuffle_si + secret_key[shuffle_i % 3]) % N \in Byte
      BY ByteSum3, KeyByteType DEF TypeOK
    <3>2. shuffle_j' \in {0, shuffle_j, (shuffle_j + shuffle_si + secret_key[shuffle_i % 3]) % N}
      BY <2>1, Zenon DEF Clock, ShuffleStep, ShuffleJ
    <3> QED BY <3>1, <3>2, ZeroType DEF TypeOK
  <2>8. decode_state' \in DecodeState
    BY <2>1 DEF Clock, DecodeStep, DecodeSuccessor, DecodeState, TypeOK
  <2>9. decode_i' \in Byte /\ decode_j' \in Byte /\ decode_k' \in MsgIndex
    <3>1. (decode_i + 1) % N \in Byte /\ (decode_j + decode_si) % N \in Byte
      BY ByteSum DEF TypeOK
    <3>2. (decode_k + 1) % L \in MsgIndex
      BY NextIndexType DEF TypeOK
    <3>3. decode_i' \in {0, decode_i, (decode_i + 1) % N}
      BY <2>1, Zenon DEF Clock, DecodeStep, DecodeI
    <3>4. decode_j' \in {0, decode_j, (decode_j + decode_si) % N}
      BY <2>1, Zenon DEF Clock, DecodeStep, DecodeJ
    <3>5. decode_k' \in {0, decode_k, (decode_k + 1) % L}
      BY <2>1, Zenon DEF Clock, DecodeStep, DecodeK
    <3> QED BY <3>1, <3>2, <3>3, <3>4, <3>5, ZeroType DEF TypeOK
  <2>10. decode_si' \in Byte /\ decode_sj' \in Byte /\ decode_f' \in Byte
    BY <2>1, <2>2 DEF Clock, DecodeStep, DecodeReads, TypeOK
  <2>11. S' \in [Byte -> Byte] /\ s_address' \in Byte
    BY <2>1, RequestType DEF Clock, WorkingMemory, Request, TypeOK
  <2>12. encr_address' \in MsgIndex /\ message' \in [MsgIndex -> Byte]
    BY <2>1, <2>2, XorAssumption DEF Clock, MessageMemories, TypeOK
  <2> QED
    BY <2>1, <2>3, <2>4, <2>5, <2>6, <2>7, <2>8, <2>9, <2>10, <2>11, <2>12 DEF TypeOK
<1> QED BY <1>1, <1>2

(* The registers, memories and addresses keep their widths: every index    *)
(* and every sum stays inside the memory it addresses.                     *)
THEOREM TypeCorrect == Spec => []TypeOK
BY TypeInit, TypeStep, PTL DEF Spec

-----------------------------------------------------------------------------
(* The three engines and the sequencer move in step: each engine leaves    *)
(* IDLE at the edge that takes the sequencer into the wait for it, and is  *)
(* back in IDLE at the edge that takes the sequencer out.                  *)
LEMMA HandshakeStep ==
  ASSUME TypeOK, Handshake,
         NEW reset \in BOOLEAN, NEW start \in BOOLEAN, Clock(reset, start)
  PROVE  Handshake'
<1>1. (init_state = "START" => main_state = "WAIT_INIT")'
  BY DEF Clock, TypeOK, Handshake, InitState, InitStep, MainState, MainStep, MainBranch,
         start_init, init_finish
<1>2. (shuffle_state # "IDLE" <=> main_state = "WAIT_SHUFFLE")'
  BY DEF Clock, TypeOK, Handshake, MainState, MainStep, MainBranch, ShuffleState,
         ShuffleStep, ShuffleSuccessor, ShuffleAfterComputeJ, start_shuffle, shuffle_finish
<1>3. (decode_state # "IDLE" <=> main_state = "WAIT_DECODE")'
  BY DEF Clock, TypeOK, Handshake, MainState, MainStep, MainBranch, DecodeState,
         DecodeStep, DecodeSuccessor, start_decode, decode_finish
<1> QED BY <1>1, <1>2, <1>3 DEF Handshake

(* What one edge does to the working memory, by the state of whichever     *)
(* engine is running.                                                      *)
MemoryEffect ==
  /\ init_state = "START" => S' = [S EXCEPT ![counter] = counter]
  /\ shuffle_state = "STORE_SI" => S' = [S EXCEPT ![shuffle_i] = shuffle_sj]
  /\ shuffle_state = "STORE_SJ" => S' = [S EXCEPT ![shuffle_j] = shuffle_si]
  /\ decode_state = "STORE_SI" => S' = [S EXCEPT ![decode_j] = decode_si]
  /\ decode_state = "STORE_SJ" => S' = [S EXCEPT ![decode_i] = decode_sj]
  /\ /\ init_state = "IDLE"
     /\ shuffle_state \notin {"STORE_SI", "STORE_SJ"}
     /\ decode_state \notin {"STORE_SI", "STORE_SJ"}
     => S' = S
  /\ shuffle_state = "SET_I_ADDRESS" => s_address' = shuffle_i
  /\ shuffle_state = "SET_J_ADDRESS" => s_address' = shuffle_j
  /\ decode_state = "SET_SI_ADDR" => s_address' = decode_i
  /\ decode_state = "SET_SJ_ADDR" => s_address' = decode_j
  /\ decode_state = "SET_F_ADDR" => s_address' = (decode_si + decode_sj) % N

(* The multiplexer gives the memory what its owner asks for. *)
LEMMA MemoryStep ==
  ASSUME TypeOK, Handshake, WorkingMemory
  PROVE  MemoryEffect
<1> USE DEF MemoryEffect, WorkingMemory, SharedRequest, select_share
<1>1. CASE main_state \in {"START_INIT", "WAIT_INIT"}
  BY <1>1 DEF TypeOK, Handshake, InitState, InitRequest
<1>2. CASE main_state \in {"START_SHUFFLE", "WAIT_SHUFFLE"}
  BY <1>2 DEF TypeOK, Handshake, InitState, ShuffleRequest, shuffle_address_select
<1>3. CASE main_state \in {"START_DECODE", "WAIT_DECODE"}
  BY <1>3 DEF TypeOK, Handshake, InitState, DecodeRequest, s_mem_addr
<1>4. CASE main_state = "IDLE"
  BY <1>4 DEF TypeOK, Handshake, InitState, NoRequest
<1> QED BY <1>1, <1>2, <1>3, <1>4 DEF TypeOK, MainState

-----------------------------------------------------------------------------
(* The initialised prefix grows with the counter, survives resets, and is  *)
(* the whole memory when the sequencer leaves the wait.                    *)
LEMMA InitPrefixStep ==
  ASSUME TypeOK, Handshake, InitPrefix,
         NEW reset \in BOOLEAN, NEW start \in BOOLEAN, Clock(reset, start)
  PROVE  InitPrefix'
<1> USE DEF InitState
<1>m. MemoryEffect
  BY MemoryStep DEF Clock
<1>1. \A a \in Byte : a < counter' => S'[a] = a
  <2>1. CASE init_state = "START"
    <3>1. S' = [S EXCEPT ![counter] = counter]
      BY <1>m, <2>1 DEF MemoryEffect
    <3>2. counter' \in {0, counter, counter + 1}
      BY <2>1 DEF Clock, InitStep, InitCounter
    <3>3. ASSUME NEW a \in Byte, a < counter' PROVE S'[a] = a
      <4>1. a = counter \/ a < counter
        BY <3>2, <3>3 DEF TypeOK, Byte
      <4> QED BY <3>1, <4>1 DEF TypeOK, InitPrefix
    <3> QED BY <3>3
  <2>2. CASE init_state = "IDLE"
    <3>1. counter' = counter
      BY <2>2 DEF Clock, InitStep, InitCounter
    <3>2. CASE counter = 0
      BY <3>1, <3>2 DEF Byte
    <3>3. CASE counter # 0
      <4>1. shuffle_state = "IDLE" /\ decode_state = "IDLE"
        BY <3>3 DEF InitPrefix, Handshake, select_share
      <4>2. S' = S
        BY <1>m, <2>2, <4>1 DEF MemoryEffect
      <4> QED BY <3>1, <4>2 DEF InitPrefix
    <3> QED BY <3>2, <3>3
  <2> QED BY <2>1, <2>2 DEF TypeOK
<1>2. main_state' \in {"START_SHUFFLE", "WAIT_SHUFFLE", "START_DECODE", "WAIT_DECODE"}
        => init_state = "IDLE" /\ counter = 0 /\ counter' = 0
  BY DEF Clock, MainStep, MainBranch, MainState, InitStep, InitCounter, init_finish,
         TypeOK, Handshake, InitPrefix, select_share
<1>3. main_state' = "WAIT_INIT" /\ init_state' = "IDLE" => counter' = 0 /\ S' = Identity
  <2> SUFFICES ASSUME main_state' = "WAIT_INIT", init_state' = "IDLE"
               PROVE  counter' = 0 /\ S' = Identity
    OBVIOUS
  <2>1. init_state = "START" /\ counter = N - 1 /\ counter' = 0
    BY DEF Clock, MainStep, MainBranch, MainState, InitStep, InitCounter, init_finish,
           start_init, TypeOK, Handshake
  <2>2. S' = [S EXCEPT ![counter] = counter]
    BY <1>m, <2>1 DEF MemoryEffect
  <2>3. \A a \in Byte : a < N - 1 => S[a] = a
    BY <2>1 DEF InitPrefix
  <2>4. S' = [a \in Byte |-> a]
    <3>1. \A a \in Byte : a = counter \/ a < N - 1
      BY <2>1, SizeAssumption DEF Byte
    <3>2. \A a \in Byte : S'[a] = a
      BY <2>2, <2>3, <3>1 DEF TypeOK
    <3>3. DOMAIN S' = Byte /\ S' = [a \in DOMAIN S' |-> S'[a]]
      BY <2>2 DEF TypeOK
    <3> QED BY <3>2, <3>3, Zenon
  <2> QED BY <2>1, <2>4 DEF Identity
<1>4. main_state' = "START_SHUFFLE" => S' = Identity
  <2> SUFFICES ASSUME main_state' = "START_SHUFFLE" PROVE S' = Identity
    OBVIOUS
  <2>1. main_state = "WAIT_INIT" /\ init_state = "IDLE"
    BY DEF Clock, MainStep, MainBranch, MainState, init_finish, TypeOK
  <2> QED BY <1>m, <2>1 DEF MemoryEffect, Handshake, InitPrefix
<1>5. (select_share \in {"SHUFFLE", "DECODE"} => counter = 0)'
  <2>1. main_state' \in MainState
    BY DEF Clock, MainStep, MainBranch, MainState
  <2> QED BY <1>2, <2>1 DEF MainState, select_share
<1> QED BY <1>1, <1>3, <1>4, <1>5 DEF InitPrefix

(* A reset empties what is claimed; otherwise each state hands its facts   *)
(* to the next one, since no state that reads also writes.                 *)
LEMMA ShuffleKnowsStep ==
  ASSUME TypeOK, Handshake, ShuffleKnows,
         NEW reset \in BOOLEAN, NEW start \in BOOLEAN, Clock(reset, start)
  PROVE  ShuffleKnows'
<1>m. MemoryEffect
  BY MemoryStep DEF Clock
<1>q. S' = S \/ init_state = "START" \/ shuffle_state \in {"STORE_SI", "STORE_SJ"}
             \/ decode_state \in {"STORE_SI", "STORE_SJ"}
  BY <1>m DEF MemoryEffect, TypeOK, InitState
<1>1. shuffle_state # "IDLE" => init_state = "IDLE" /\ decode_state = "IDLE"
  BY DEF Handshake, TypeOK, InitState
<1>2. shuffle_state' = IF reset THEN "IDLE" ELSE ShuffleSuccessor(start_shuffle)
  BY DEF Clock, ShuffleStep
<1>3. ShuffleReads(S[s_address])
  BY DEF Clock, ShuffleStep, s_memory_q
<1>4. shuffle_state \notin {"I_ADD", "FINISH"} /\ ~reset => shuffle_i' = shuffle_i
  BY DEF Clock, ShuffleStep, ShuffleI
<1>5. shuffle_state \notin {"COMPUTE_J", "FINISH"} /\ ~reset => shuffle_j' = shuffle_j
  BY DEF Clock, ShuffleStep, ShuffleJ
<1>6. CASE reset
  BY <1>2, <1>6 DEF ShuffleKnows
<1>7. CASE ~reset
  BY <1>m, <1>q, <1>1, <1>2, <1>3, <1>4, <1>5, <1>7
     DEF MemoryEffect, ShuffleKnows, ShuffleReads, ShuffleSuccessor, ShuffleAfterComputeJ,
         TypeOK, ShuffleState
<1> QED BY <1>6, <1>7

(* The same for decode, from READ_SI to STORE_DECRYPTED. *)
LEMMA DecodeKnowsStep ==
  ASSUME TypeOK, Handshake, DecodeKnows,
         NEW reset \in BOOLEAN, NEW start \in BOOLEAN, Clock(reset, start)
  PROVE  DecodeKnows'
<1>m. MemoryEffect
  BY MemoryStep DEF Clock
<1>1. decode_state # "IDLE" => init_state = "IDLE" /\ shuffle_state = "IDLE"
  BY DEF Handshake, TypeOK, InitState
<1>2. decode_state' = IF reset THEN "IDLE" ELSE DecodeSuccessor(start_decode)
  BY DEF Clock, DecodeStep
<1>3. DecodeReads(S[s_address])
  BY DEF Clock, DecodeStep, s_memory_q
<1>4. decode_state \notin {"UPDATE_I", "FINISH"} /\ ~reset => decode_i' = decode_i
  BY DEF Clock, DecodeStep, DecodeI
<1>5. decode_state \notin {"UPDATE_J", "FINISH"} /\ ~reset => decode_j' = decode_j
  BY DEF Clock, DecodeStep, DecodeJ
<1>6. decode_state \notin {"UPDATE_K", "FINISH"} /\ ~reset => decode_k' = decode_k
  BY DEF Clock, DecodeStep, DecodeK
<1>7. encr_address' = decode_k
  BY DEF Clock, MessageMemories
<1>8. CASE reset
  BY <1>2, <1>8 DEF DecodeKnows
<1>9. CASE ~reset
  <2> USE <1>2, <1>9 DEF DecodeSuccessor
  <2>1. CASE decode_state \in {"IDLE", "UPDATE_I", "STORE_DECRYPTED", "UPDATE_K", "FINISH"}
    BY <2>1 DEF DecodeKnows
  <2>2. CASE decode_state \in {"SET_SI_ADDR", "READ_SI", "UPDATE_J", "SET_SJ_ADDR", "READ_SJ"}
    BY <1>m, <1>1, <1>3, <1>4, <1>5, <2>2 DEF MemoryEffect, DecodeKnows, DecodeReads
  <2>3. CASE decode_state = "STORE_SI"
    BY <1>m, <1>3, <1>4, <1>5, <2>3 DEF MemoryEffect, DecodeKnows, DecodeReads, TypeOK
  <2>4. CASE decode_state = "STORE_SJ"
    BY <1>m, <1>3, <1>4, <1>5, <2>4 DEF MemoryEffect, DecodeKnows, DecodeReads, TypeOK
  <2>5. CASE decode_state \in {"SET_F_ADDR", "READ_F"}
    BY <1>m, <1>1, <1>3, <1>4, <1>5, <1>6, <1>7, <2>5
       DEF MemoryEffect, DecodeKnows, DecodeReads
  <2> QED BY <2>1, <2>2, <2>3, <2>4, <2>5 DEF TypeOK, DecodeState
<1> QED BY <1>8, <1>9

(* FINISH and a reset clear the indices, and IDLE leaves them alone. *)
LEMMA IdleAtZeroStep ==
  ASSUME TypeOK, IdleAtZero, NEW reset \in BOOLEAN, NEW start \in BOOLEAN, Clock(reset, start)
  PROVE  IdleAtZero'
<1>1. (shuffle_state = "IDLE" => shuffle_i = 0 /\ shuffle_j = 0)'
  BY DEF Clock, ShuffleStep, ShuffleSuccessor, ShuffleAfterComputeJ, ShuffleI, ShuffleJ,
         IdleAtZero, TypeOK, ShuffleState
<1>2. (decode_state = "IDLE" => decode_i = 0 /\ decode_j = 0 /\ decode_k = 0)'
  BY DEF Clock, DecodeStep, DecodeSuccessor, DecodeI, DecodeJ, DecodeK, IdleAtZero,
         TypeOK, DecodeState
<1> QED BY <1>1, <1>2 DEF IdleAtZero

-----------------------------------------------------------------------------
(* The initialised memory has every value once. *)
LEMMA IdentityIsPermutation == Permutation(Identity)
BY DEF Permutation, Identity

(* Writing f[b] over f[a] and then the old f[a] over f[b] loses no value,  *)
(* also when a and b are the same cell.                                    *)
LEMMA TwoWritesSwap ==
  ASSUME NEW f \in [Byte -> Byte], Permutation(f), NEW a \in Byte, NEW b \in Byte
  PROVE  Permutation([[f EXCEPT ![a] = f[b]] EXCEPT ![b] = f[a]])
<1> DEFINE g == [[f EXCEPT ![a] = f[b]] EXCEPT ![b] = f[a]]
<1>1. \A c \in Byte : g[c] = IF c = b THEN f[a] ELSE IF c = a THEN f[b] ELSE f[c]
  OBVIOUS
<1> QED BY <1>1, Zenon DEF Permutation

(* The memory is a permutation as soon as the swap under way is completed. *)
LEMMA SwapCompletesStep ==
  ASSUME TypeOK, Handshake, Handshake', InitPrefix', ShuffleKnows, DecodeKnows, SwapCompletes,
         NEW reset \in BOOLEAN, NEW start \in BOOLEAN, Clock(reset, start)
  PROVE  SwapCompletes'
<1>m. MemoryEffect
  BY MemoryStep DEF Clock
<1>s. /\ shuffle_state' = IF reset THEN "IDLE" ELSE ShuffleSuccessor(start_shuffle)
      /\ decode_state' = IF reset THEN "IDLE" ELSE DecodeSuccessor(start_decode)
  BY DEF Clock, ShuffleStep, DecodeStep
<1> SUFFICES ASSUME select_share' \in {"SHUFFLE", "DECODE"}
             PROVE  Permutation(IF shuffle_state = "STORE_SJ"
                                THEN [S EXCEPT ![shuffle_j] = shuffle_si]
                                ELSE IF decode_state = "STORE_SJ"
                                THEN [S EXCEPT ![decode_i] = decode_sj]
                                ELSE S)'
  BY DEF SwapCompletes
<1>r. ~reset
  BY DEF Clock, MainStep, MainBranch, select_share
<1>1. CASE main_state = "WAIT_INIT"
  <2>1. main_state' = "START_SHUFFLE"
    BY <1>1, <1>r DEF Clock, MainStep, MainBranch, select_share
  <2>2. S' = Identity /\ shuffle_state' = "IDLE" /\ decode_state' = "IDLE"
    BY <2>1 DEF InitPrefix, Handshake
  <2> QED BY <2>2, IdentityIsPermutation
<1>2. CASE main_state # "WAIT_INIT"
  <2>1. select_share \in {"SHUFFLE", "DECODE"} /\ init_state = "IDLE"
    BY <1>2, <1>r DEF Clock, MainStep, MainBranch, select_share, Handshake, TypeOK,
                      MainState, InitState
  <2>2. CASE shuffle_state = "STORE_SI"
    <3>1. S' = [S EXCEPT ![shuffle_i] = S[shuffle_j]] /\ decode_state = "IDLE"
      BY <1>m, <2>2 DEF MemoryEffect, ShuffleKnows, Handshake
    <3>2. shuffle_state' = "STORE_SJ" /\ shuffle_j' = shuffle_j /\ shuffle_si' = S[shuffle_i]
      BY <1>r, <1>s, <2>2 DEF Clock, ShuffleStep, ShuffleSuccessor, ShuffleJ, ShuffleReads,
                              ShuffleKnows
    <3>3. Permutation(S)
      BY <2>1, <2>2, <3>1 DEF SwapCompletes
    <3> QED BY <3>1, <3>2, <3>3, TwoWritesSwap DEF TypeOK
  <2>3. CASE decode_state = "STORE_SI"
    <3>1. S' = [S EXCEPT ![decode_j] = S[decode_i]] /\ shuffle_state = "IDLE"
      BY <1>m, <2>3 DEF MemoryEffect, DecodeKnows, Handshake
    <3>2. decode_state' = "STORE_SJ" /\ decode_i' = decode_i /\ decode_sj' = S[decode_j]
      BY <1>r, <1>s, <2>3 DEF Clock, DecodeStep, DecodeSuccessor, DecodeI, DecodeReads,
                              DecodeKnows
    <3>3. shuffle_state' # "STORE_SJ"
      BY <1>s, <3>1 DEF ShuffleSuccessor
    <3>4. Permutation(S)
      BY <2>1, <2>3, <3>1 DEF SwapCompletes
    <3> QED BY <3>1, <3>2, <3>3, <3>4, TwoWritesSwap DEF TypeOK
  <2>4. CASE shuffle_state # "STORE_SI" /\ decode_state # "STORE_SI"
    <3>1. shuffle_state' # "STORE_SJ" /\ decode_state' # "STORE_SJ"
      BY <1>s, <2>4 DEF ShuffleSuccessor, ShuffleAfterComputeJ, DecodeSuccessor,
                        TypeOK, ShuffleState, DecodeState
    <3>2. shuffle_state = "STORE_SJ" => decode_state = "IDLE"
      BY DEF Handshake
    <3>3. Permutation(S')
      BY <1>m, <2>1, <2>4, <3>2 DEF MemoryEffect, SwapCompletes
    <3> QED BY <3>1, <3>3
  <2> QED BY <2>2, <2>3, <2>4
<1> QED BY <1>1, <1>2

-----------------------------------------------------------------------------
(* At power up nobody runs and nothing is claimed of the memory. *)
LEMMA InvariantInit == Init => IInv
<1> SUFFICES ASSUME Init PROVE IInv
  OBVIOUS
<1> USE DEF Init, MainInit, InitInit, ShuffleInit, DecodeInit
<1>1. TypeOK
  BY TypeInit
<1>2. Handshake
  BY DEF Handshake
<1>3. InitPrefix
  BY SizeAssumption DEF InitPrefix, select_share, Byte
<1>4. ShuffleKnows /\ DecodeKnows /\ SwapCompletes /\ IdleAtZero
  BY DEF ShuffleKnows, DecodeKnows, SwapCompletes, IdleAtZero, select_share
<1> QED BY <1>1, <1>2, <1>3, <1>4 DEF IInv

(* Every edge, with or without reset, keeps the inductive invariant. *)
LEMMA InvariantStep == IInv /\ [Next]_vars => IInv'
<1> SUFFICES ASSUME IInv, [Next]_vars PROVE IInv'
  OBVIOUS
<1>1. CASE UNCHANGED vars
  <2>1. TypeOK'
    BY TypeStep DEF IInv
  <2> USE <1>1 DEF vars, main_vars, init_vars, shuffle_vars, decode_vars, memory_vars
  <2>2. Handshake'
    BY DEF IInv, Handshake
  <2>3. InitPrefix'
    BY DEF IInv, InitPrefix, select_share
  <2>4. ShuffleKnows'
    BY DEF IInv, ShuffleKnows
  <2>5. DecodeKnows'
    BY DEF IInv, DecodeKnows
  <2>6. SwapCompletes'
    BY DEF IInv, SwapCompletes, select_share
  <2>7. IdleAtZero'
    BY DEF IInv, IdleAtZero
  <2> QED BY <2>1, <2>2, <2>3, <2>4, <2>5, <2>6, <2>7 DEF IInv
<1>2. CASE Next
  <2>1. PICK reset \in BOOLEAN, start \in BOOLEAN : Clock(reset, start)
    BY <1>2, NextIsClock
  <2>2. TypeOK' /\ Handshake'
    BY <2>1, TypeStep, HandshakeStep DEF IInv
  <2>3. InitPrefix' /\ ShuffleKnows' /\ DecodeKnows' /\ IdleAtZero'
    BY <2>1, InitPrefixStep, ShuffleKnowsStep, DecodeKnowsStep, IdleAtZeroStep DEF IInv
  <2>4. SwapCompletes'
    BY <2>1, <2>2, <2>3, SwapCompletesStep DEF IInv
  <2> QED BY <2>2, <2>3, <2>4 DEF IInv
<1> QED BY <1>1, <1>2

(* The inductive invariant holds of the decrypter for every memory size,   *)
(* message length, key set and any buttons pressed at any edge.            *)
THEOREM InvariantHolds == Spec => []IInv
BY InvariantInit, InvariantStep, PTL DEF Spec

(* No engine runs while the multiplexer gives the memory to another: the   *)
(* start and finish wires keep the four state machines in step.            *)
THEOREM MemoryHasOneOwner == Spec => []EngineOwnsMemory
<1>1. IInv => EngineOwnsMemory
  BY DEF IInv, TypeOK, InitState, Handshake, EngineOwnsMemory, select_share
<1> QED BY <1>1, InvariantHolds, PTL

(* The shuffle starts from the identity whatever was interrupted before.   *)
THEOREM ShuffleStartsFromIdentity == Spec => []IdentityWhenShuffleStarts
<1>1. IInv => IdentityWhenShuffleStarts
  BY DEF IInv, InitPrefix, IdentityWhenShuffleStarts
<1> QED BY <1>1, InvariantHolds, PTL

(* Every register that samples a memory samples the cell it means.         *)
THEOREM ReadsAreOfTheAddressedCell == Spec => []ReadsSeeAddressedCell
<1>1. IInv => ReadsSeeAddressedCell
  <2> SUFFICES ASSUME IInv PROVE ReadsSeeAddressedCell
    OBVIOUS
  <2>1. S[decode_i] \in Byte /\ S[decode_j] \in Byte
    BY DEF IInv, TypeOK
  <2>2. S[decode_j] + S[decode_i] = S[decode_i] + S[decode_j]
    BY <2>1 DEF Byte
  <2> QED BY <2>2 DEF IInv, ShuffleKnows, DecodeKnows, ReadsSeeAddressedCell
<1> QED BY <1>1, InvariantHolds, PTL

(* Outside the second half of a swap the working memory has every byte     *)
(* value exactly once.                                                     *)
THEOREM SwapsKeepThePermutation == Spec => []PermutationBetweenSwaps
<1>1. IInv => PermutationBetweenSwaps
  BY DEF IInv, SwapCompletes, PermutationBetweenSwaps
<1> QED BY <1>1, InvariantHolds, PTL

-----------------------------------------------------------------------------
(* The wrap of an index of the memory, written out. *)
LEMMA IndexWraps ==
  ASSUME NEW a \in Byte
  PROVE  /\ (a + 1) % N = IF a = N - 1 THEN 0 ELSE a + 1
         /\ (a - 1) % N = IF a = 0 THEN N - 1 ELSE a - 1
         /\ (((a + 1) % N) - 1) % N = a
         /\ (((a - 1) % N) + 1) % N = a
<1>1. \A b \in Byte : b % N = b
  BY SizeAssumption DEF Byte
<1>2. N % N = 0 /\ (0 - 1) % N = N - 1
  BY SizeAssumption
<1>3. (a + 1) % N = IF a = N - 1 THEN 0 ELSE a + 1
  <2>1. CASE a = N - 1
    BY <1>2, <2>1, SizeAssumption
  <2>2. CASE a # N - 1
    BY <1>1, <2>2, SizeAssumption DEF Byte
  <2> QED BY <2>1, <2>2
<1>4. (a - 1) % N = IF a = 0 THEN N - 1 ELSE a - 1
  <2>1. CASE a = 0
    BY <1>2, <2>1, SizeAssumption
  <2>2. CASE a # 0
    BY <1>1, <2>2, SizeAssumption DEF Byte
  <2> QED BY <2>1, <2>2
<1>5. (((a + 1) % N) - 1) % N = a
  <2>1. CASE a = N - 1
    BY <1>2, <1>3, <2>1, SizeAssumption
  <2>2. CASE a # N - 1
    BY <1>1, <1>3, <2>2, SizeAssumption DEF Byte
  <2> QED BY <2>1, <2>2
<1>6. (((a - 1) % N) + 1) % N = a
  <2>1. CASE a = 0
    BY <1>2, <1>4, <2>1, SizeAssumption
  <2>2. CASE a # 0
    BY <1>1, <1>4, <2>2, SizeAssumption DEF Byte
  <2> QED BY <2>1, <2>2
<1> QED BY <1>3, <1>4, <1>5, <1>6

(* The two share the types. *)
LEMMA SharedTypes ==
  /\ Abstract!Identity = Identity
  /\ \A f, a, b : Abstract!Swap(f, a, b) = Swap(f, a, b)
BY DEF Abstract!Identity, Abstract!Byte, Identity, Byte, Abstract!Swap, Swap

(* Nothing of the abstract decrypter changes. *)
Stutters ==
  /\ PhaseBar' = PhaseBar /\ PermBar' = PermBar /\ IBar' = IBar /\ JBar' = JBar
  /\ CountBar' = CountBar /\ message' = message

(* The edge that stores a byte stores the one RC4 emits. *)
LEMMA StoredIsEmitted ==
  ASSUME IInv, decode_state = "STORE_DECRYPTED", MessageMemories
  PROVE  /\ PhaseBar = "emit" /\ PermBar = S /\ IBar = decode_i /\ JBar = decode_j
         /\ CountBar = decode_k /\ message' = Abstract!Emitted
<1>1. main_state = "WAIT_DECODE"
  BY DEF IInv, Handshake
<1>2. /\ PhaseBar = "emit" /\ PermBar = S /\ IBar = decode_i /\ JBar = decode_j
      /\ CountBar = decode_k
  BY <1>1 DEF PhaseBar, PermBar, IBar, JBar, CountBar, select_share, DecodeEmitting, DecodeLooking
<1>3. message' = [message EXCEPT ![decode_k] = ByteXor(decode_f, Encrypted[encr_address])]
  BY DEF MessageMemories, encr_mem_q
<1>4. encr_address = decode_k /\ decode_f = S[(S[decode_j] + S[decode_i]) % N]
  BY DEF IInv, DecodeKnows
<1>5. S[decode_j] + S[decode_i] = S[decode_i] + S[decode_j]
  <2>1. S[decode_i] \in Byte /\ S[decode_j] \in Byte
    BY DEF IInv, TypeOK
  <2> QED BY <2>1 DEF Byte
<1>6. Abstract!Emitted =
        [message EXCEPT ![CountBar] =
           ByteXor(PermBar[(PermBar[IBar] + PermBar[JBar]) % N], Encrypted[CountBar])]
  BY DEF Abstract!Emitted
<1>7. Abstract!Emitted =
        [message EXCEPT ![decode_k] =
           ByteXor(S[(S[decode_i] + S[decode_j]) % N], Encrypted[decode_k])]
  BY <1>2, <1>6, Zenon
<1> QED BY <1>2, <1>3, <1>4, <1>5, <1>7, Zenon

(* A reset is RC4's, whatever is under way; the byte that is due at its    *)
(* edge still reaches the message.                                         *)
LEMMA ResetAborts ==
  ASSUME IInv, NEW start \in BOOLEAN, Clock(TRUE, start)
  PROVE  Abstract!Abort
<1>1. main_state' = "IDLE"
  BY DEF Clock, MainStep
<1>2. PhaseBar' = "idle" /\ PermBar' = Identity /\ IBar' = 0 /\ JBar' = 0 /\ CountBar' = 0
  BY <1>1 DEF PhaseBar, PermBar, IBar, JBar, CountBar, select_share
<1>3. message' = message \/ (PhaseBar = "emit" /\ message' = Abstract!Emitted)
  <2>1. CASE decode_state = "STORE_DECRYPTED"
    BY <2>1, StoredIsEmitted DEF Clock
  <2>2. CASE decode_state # "STORE_DECRYPTED"
    BY <2>2 DEF Clock, MessageMemories
  <2> QED BY <2>1, <2>2
<1> QED BY <1>2, <1>3, SharedTypes, Zenon DEF Abstract!Abort, Abstract!Rest

-----------------------------------------------------------------------------
(* Without a reset: until the shuffle starts, RC4 is idle, and begins when *)
(* the memory has been initialised.                                        *)
LEMMA InitMaps ==
  ASSUME IInv, IInv', NEW start \in BOOLEAN, Clock(FALSE, start),
         main_state \in {"IDLE", "START_INIT", "WAIT_INIT"}
  PROVE  Abstract!Begin \/ Stutters
<1>1. PhaseBar = "idle" /\ PermBar = Identity /\ IBar = 0 /\ JBar = 0 /\ CountBar = 0
  BY DEF PhaseBar, PermBar, IBar, JBar, CountBar, select_share
<1>2. message' = message
  BY DEF IInv, Handshake, Clock, MessageMemories
<1>3. main_state' \in {"IDLE", "START_INIT", "WAIT_INIT", "START_SHUFFLE"}
  BY DEF Clock, MainStep, MainBranch
<1>4. CASE main_state' = "START_SHUFFLE"
  <2>1. /\ S' = Identity /\ shuffle_state' = "IDLE" /\ shuffle_i' = 0 /\ shuffle_j' = 0
    BY <1>4 DEF IInv, Handshake, InitPrefix, IdleAtZero
  <2>2. PhaseBar' = "schedule" /\ PermBar' = Identity /\ IBar' = 0 /\ JBar' = 0 /\ CountBar' = 0
    BY <1>4, <2>1 DEF PhaseBar, PermBar, IBar, JBar, CountBar, select_share, ShuffleCommitted
  <2> QED BY <1>1, <1>2, <2>2, Zenon DEF Abstract!Begin
<1>5. CASE main_state' # "START_SHUFFLE"
  <2>1. PhaseBar' = "idle" /\ PermBar' = Identity /\ IBar' = 0 /\ JBar' = 0 /\ CountBar' = 0
    BY <1>3, <1>5 DEF PhaseBar, PermBar, IBar, JBar, CountBar, select_share
  <2> QED BY <1>1, <1>2, <2>1 DEF Stutters
<1> QED BY <1>4, <1>5

(* What RC4 is while the shuffle has the memory. *)
LEMMA ShuffleBar ==
  /\ main_state \in {"START_SHUFFLE", "WAIT_SHUFFLE"} =>
       /\ PhaseBar = "schedule" /\ JBar = shuffle_j /\ CountBar = 0
       /\ IBar = IF shuffle_state = "FINISH" THEN N
                 ELSE IF shuffle_state \in ShuffleCommitted THEN shuffle_i + 1 ELSE shuffle_i
       /\ PermBar = IF shuffle_state \in {"SET_J_ADDRESS", "READ_SJ", "STORE_SI"}
                    THEN Swap(S, shuffle_i, shuffle_j)
                    ELSE IF shuffle_state = "STORE_SJ"
                    THEN [S EXCEPT ![shuffle_j] = shuffle_si] ELSE S
  /\ main_state' \in {"START_SHUFFLE", "WAIT_SHUFFLE"} =>
       /\ PhaseBar' = "schedule" /\ JBar' = shuffle_j' /\ CountBar' = 0
       /\ IBar' = IF shuffle_state' = "FINISH" THEN N
                  ELSE IF shuffle_state' \in ShuffleCommitted THEN shuffle_i' + 1
                  ELSE shuffle_i'
       /\ PermBar' = IF shuffle_state' \in {"SET_J_ADDRESS", "READ_SJ", "STORE_SI"}
                     THEN Swap(S', shuffle_i', shuffle_j')
                     ELSE IF shuffle_state' = "STORE_SJ"
                     THEN [S' EXCEPT ![shuffle_j'] = shuffle_si'] ELSE S'
<1>1. main_state \in {"START_SHUFFLE", "WAIT_SHUFFLE"} => select_share = "SHUFFLE"
  BY DEF select_share
<1>2. main_state' \in {"START_SHUFFLE", "WAIT_SHUFFLE"} => select_share' = "SHUFFLE"
  BY DEF select_share
<1> QED BY <1>1, <1>2 DEF PhaseBar, PermBar, IBar, JBar, CountBar, Swap

(* What RC4 is while decode has the memory. *)
LEMMA DecodeBar ==
  /\ main_state \in {"START_DECODE", "WAIT_DECODE"} =>
       /\ PhaseBar = IF decode_state \in DecodeEmitting THEN "emit" ELSE "swap"
       /\ IBar = IF decode_state \in DecodeLooking THEN (decode_i - 1) % N ELSE decode_i
       /\ JBar = decode_j
       /\ CountBar = IF decode_state = "FINISH" THEN L
                     ELSE IF decode_state = "UPDATE_K" THEN decode_k + 1 ELSE decode_k
       /\ PermBar = IF decode_state \in {"SET_SJ_ADDR", "READ_SJ", "STORE_SI"}
                    THEN Swap(S, decode_i, decode_j)
                    ELSE IF decode_state = "STORE_SJ"
                    THEN [S EXCEPT ![decode_i] = decode_sj] ELSE S
  /\ main_state' \in {"START_DECODE", "WAIT_DECODE"} =>
       /\ PhaseBar' = IF decode_state' \in DecodeEmitting THEN "emit" ELSE "swap"
       /\ IBar' = IF decode_state' \in DecodeLooking THEN (decode_i' - 1) % N ELSE decode_i'
       /\ JBar' = decode_j'
       /\ CountBar' = IF decode_state' = "FINISH" THEN L
                      ELSE IF decode_state' = "UPDATE_K" THEN decode_k' + 1 ELSE decode_k'
       /\ PermBar' = IF decode_state' \in {"SET_SJ_ADDR", "READ_SJ", "STORE_SI"}
                     THEN Swap(S', decode_i', decode_j')
                     ELSE IF decode_state' = "STORE_SJ"
                     THEN [S' EXCEPT ![decode_i'] = decode_sj'] ELSE S'
<1>1. main_state \in {"START_DECODE", "WAIT_DECODE"} => select_share = "DECODE"
  BY DEF select_share
<1>2. main_state' \in {"START_DECODE", "WAIT_DECODE"} => select_share' = "DECODE"
  BY DEF select_share
<1> QED BY <1>1, <1>2 DEF PhaseBar, PermBar, IBar, JBar, CountBar, Swap

(* While the shuffle runs, its swap is RC4's at the edge that computes j;  *)
(* the writes that follow only carry it out.                               *)
LEMMA ShuffleMaps ==
  ASSUME IInv, IInv', NEW start \in BOOLEAN, Clock(FALSE, start),
         main_state \in {"START_SHUFFLE", "WAIT_SHUFFLE"}
  PROVE  Abstract!Schedule(secret_key) \/ Abstract!Scheduled \/ Stutters
<1>m. MemoryEffect
  BY MemoryStep DEF Clock, IInv
<1>t. /\ shuffle_state \in ShuffleState /\ shuffle_i \in Byte /\ shuffle_j \in Byte
      /\ S \in [Byte -> Byte] /\ secret_key \in Keys
  BY DEF IInv, TypeOK
<1>d. decode_state = "IDLE" /\ init_state = "IDLE" /\ message' = message
  BY DEF IInv, TypeOK, InitState, Handshake, Clock, MessageMemories
<1>s. /\ shuffle_state' = ShuffleSuccessor(start_shuffle)
      /\ shuffle_state \notin {"I_ADD", "FINISH"} => shuffle_i' = shuffle_i
      /\ shuffle_state \notin {"COMPUTE_J", "FINISH"} => shuffle_j' = shuffle_j
      /\ shuffle_state # "READ_SI" => shuffle_si' = shuffle_si
      /\ shuffle_state # "READ_SJ" => shuffle_sj' = shuffle_sj
  BY DEF Clock, ShuffleStep, ShuffleI, ShuffleJ, ShuffleReads
<1>q. shuffle_state \notin {"STORE_SI", "STORE_SJ"} => S' = S
  BY <1>m, <1>d DEF MemoryEffect
<1>w. shuffle_state # "FINISH" => main_state' = "WAIT_SHUFFLE"
  BY DEF Clock, MainStep, MainBranch, shuffle_finish, IInv, Handshake
<1> USE ShuffleBar
<1>1. CASE shuffle_state \in {"IDLE", "SET_I_ADDRESS", "READ_SI"}
  <2>1. shuffle_state' \in {"SET_I_ADDRESS", "READ_SI", "COMPUTE_J"}
    BY <1>1, <1>s DEF ShuffleSuccessor, start_shuffle, IInv, Handshake
  <2> QED BY <1>1, <1>d, <1>s, <1>q, <1>w, <2>1 DEF Stutters, ShuffleCommitted
<1>2. CASE shuffle_state = "COMPUTE_J"
  <2> DEFINE next == (shuffle_j + S[shuffle_i] + secret_key[shuffle_i % 3]) % N
  <2>1. shuffle_state' = "SET_J_ADDRESS" /\ shuffle_i' = shuffle_i /\ S' = S
    BY <1>2, <1>s, <1>q DEF ShuffleSuccessor, ShuffleAfterComputeJ
  <2>2. shuffle_j' = next
    <3>1. shuffle_si = S[shuffle_i]
      BY <1>2 DEF IInv, ShuffleKnows
    <3> QED BY <1>2, <3>1 DEF Clock, ShuffleStep, ShuffleJ
  <2>3. PhaseBar = "schedule" /\ PermBar = S /\ IBar = shuffle_i /\ JBar = shuffle_j /\ CountBar = 0
    BY <1>2 DEF ShuffleCommitted
  <2>4. /\ PhaseBar' = "schedule" /\ PermBar' = Swap(S, shuffle_i, next)
        /\ IBar' = shuffle_i + 1 /\ JBar' = next /\ CountBar' = 0
    BY <1>2, <1>w, <2>1, <2>2 DEF ShuffleCommitted
  <2>5. shuffle_i < N
    BY <1>t, SizeAssumption DEF Byte
  <2> HIDE DEF next
  <2>6. Abstract!Schedule(secret_key) <=>
          /\ PhaseBar = "schedule" /\ IBar < N
          /\ PermBar' = Swap(PermBar, IBar, (JBar + PermBar[IBar] + secret_key[IBar % 3]) % N)
          /\ IBar' = IBar + 1 /\ JBar' = (JBar + PermBar[IBar] + secret_key[IBar % 3]) % N
          /\ PhaseBar' = PhaseBar /\ CountBar' = CountBar /\ message' = message
    BY SharedTypes, Zenon DEF Abstract!Schedule
  <2>7. Abstract!Schedule(secret_key)
    BY <1>d, <2>3, <2>4, <2>5, <2>6, Zenon DEF next
  <2> QED BY <2>7
<1>3. CASE shuffle_state \in {"SET_J_ADDRESS", "READ_SJ"}
  <2>1. shuffle_state' \in {"READ_SJ", "STORE_SI"}
    BY <1>3, <1>s DEF ShuffleSuccessor
  <2> QED BY <1>3, <1>d, <1>s, <1>q, <1>w, <2>1 DEF Stutters, ShuffleCommitted
<1>4. CASE shuffle_state = "STORE_SI"
  <2>1. /\ shuffle_state' = "STORE_SJ" /\ shuffle_i' = shuffle_i /\ shuffle_j' = shuffle_j
        /\ shuffle_si' = shuffle_si
    BY <1>4, <1>s DEF ShuffleSuccessor
  <2>2. shuffle_si = S[shuffle_i] /\ S' = [S EXCEPT ![shuffle_i] = S[shuffle_j]]
    BY <1>4, <1>m DEF MemoryEffect, IInv, ShuffleKnows
  <2>3. [S' EXCEPT ![shuffle_j] = S[shuffle_i]] = Swap(S, shuffle_i, shuffle_j)
    BY <2>2 DEF Swap
  <2>4. PermBar' = PermBar
    BY <1>4, <1>w, <2>1, <2>2, <2>3
  <2> QED BY <1>4, <1>d, <1>w, <2>1, <2>4 DEF Stutters, ShuffleCommitted
<1>5. CASE shuffle_state = "STORE_SJ"
  <2>1. /\ shuffle_state' = "I_ADD" /\ shuffle_i' = shuffle_i /\ shuffle_j' = shuffle_j
        /\ S' = [S EXCEPT ![shuffle_j] = shuffle_si]
    BY <1>5, <1>m, <1>s DEF ShuffleSuccessor, MemoryEffect
  <2> QED BY <1>5, <1>d, <1>w, <2>1 DEF Stutters, ShuffleCommitted
<1>6. CASE shuffle_state = "I_ADD"
  <2>1. /\ shuffle_state' = IF shuffle_i = N - 1 THEN "FINISH" ELSE "SET_I_ADDRESS"
        /\ shuffle_i' = (shuffle_i + 1) % N /\ shuffle_j' = shuffle_j /\ S' = S
    BY <1>6, <1>s, <1>q DEF ShuffleSuccessor, Clock, ShuffleStep, ShuffleI
  <2>2. IBar' = shuffle_i + 1
    <3>1. shuffle_i # N - 1 => shuffle_i' = shuffle_i + 1
      BY <1>t, <2>1, IndexWraps
    <3>2. shuffle_i = N - 1 => shuffle_i + 1 = N
      BY SizeAssumption
    <3> QED BY <1>6, <1>w, <2>1, <3>1, <3>2 DEF ShuffleCommitted
  <2> QED BY <1>6, <1>d, <1>w, <2>1, <2>2 DEF Stutters, ShuffleCommitted
<1>7. CASE shuffle_state = "FINISH"
  <2>1. main_state = "WAIT_SHUFFLE" /\ main_state' = "START_DECODE" /\ S' = S
    BY <1>7, <1>q DEF IInv, Handshake, Clock, MainStep, MainBranch, shuffle_finish
  <2>2. decode_state' = "IDLE" /\ decode_i' = 0 /\ decode_j' = 0 /\ decode_k' = 0
    BY <2>1 DEF IInv, Handshake, IdleAtZero
  <2>3. /\ PhaseBar' = "swap" /\ PermBar' = S /\ IBar' = 0 /\ JBar' = 0 /\ CountBar' = 0
    BY <2>1, <2>2, DecodeBar DEF DecodeEmitting, DecodeLooking
  <2>4. PhaseBar = "schedule" /\ PermBar = S /\ IBar = N /\ CountBar = 0
    BY <1>7
  <2> QED BY <1>d, <2>3, <2>4, Zenon DEF Abstract!Scheduled
<1> QED BY <1>1, <1>2, <1>3, <1>4, <1>5, <1>6, <1>7, <1>t DEF ShuffleState

(* The same for decode, whose swap is RC4's at the edge that moves j and   *)
(* whose byte is RC4's at the edge that stores it.                         *)
LEMMA DecodeMaps ==
  ASSUME IInv, IInv', NEW start \in BOOLEAN, Clock(FALSE, start),
         main_state \in {"START_DECODE", "WAIT_DECODE"}
  PROVE  Abstract!SwapNext \/ Abstract!Emit \/ Abstract!Finish \/ Stutters
<1>m. MemoryEffect
  BY MemoryStep DEF Clock, IInv
<1>t. /\ decode_state \in DecodeState /\ decode_i \in Byte /\ decode_j \in Byte
      /\ decode_k \in MsgIndex /\ S \in [Byte -> Byte]
  BY DEF IInv, TypeOK
<1>d. shuffle_state = "IDLE" /\ init_state = "IDLE"
  BY DEF IInv, TypeOK, InitState, Handshake
<1>s. /\ decode_state' = DecodeSuccessor(start_decode)
      /\ decode_state \notin {"UPDATE_I", "FINISH"} => decode_i' = decode_i
      /\ decode_state \notin {"UPDATE_J", "FINISH"} => decode_j' = decode_j
      /\ decode_state \notin {"UPDATE_K", "FINISH"} => decode_k' = decode_k
      /\ decode_state # "READ_SI" => decode_si' = decode_si
      /\ decode_state # "READ_SJ" => decode_sj' = decode_sj
      /\ decode_state # "STORE_DECRYPTED" => message' = message
  BY DEF Clock, DecodeStep, DecodeI, DecodeJ, DecodeK, DecodeReads, MessageMemories
<1>q. decode_state \notin {"STORE_SI", "STORE_SJ"} => S' = S
  BY <1>m, <1>d DEF MemoryEffect
<1>w. decode_state # "FINISH" => main_state' = "WAIT_DECODE"
  BY DEF Clock, MainStep, MainBranch, decode_finish, IInv, Handshake
<1> USE DecodeBar
<1>1. CASE decode_state = "IDLE"
  <2>1. decode_state' = "UPDATE_I"
    BY <1>1, <1>s DEF DecodeSuccessor, start_decode, IInv, Handshake
  <2> QED BY <1>1, <1>s, <1>q, <1>w, <2>1 DEF Stutters, DecodeLooking, DecodeEmitting
<1>2. CASE decode_state = "UPDATE_I"
  <2>1. decode_state' = "SET_SI_ADDR" /\ decode_i' = (decode_i + 1) % N
    BY <1>2, <1>s DEF DecodeSuccessor, Clock, DecodeStep, DecodeI
  <2>2. IBar' = IBar
    BY <1>2, <1>t, <1>w, <2>1, IndexWraps DEF DecodeLooking
  <2> QED BY <1>2, <1>s, <1>q, <1>w, <2>1, <2>2 DEF Stutters, DecodeLooking, DecodeEmitting
<1>3. CASE decode_state \in {"SET_SI_ADDR", "READ_SI"}
  <2>1. decode_state' \in {"READ_SI", "UPDATE_J"}
    BY <1>3, <1>s DEF DecodeSuccessor
  <2> QED BY <1>3, <1>s, <1>q, <1>w, <2>1 DEF Stutters, DecodeLooking, DecodeEmitting
<1>4. CASE decode_state = "UPDATE_J"
  <2> DEFINE b == (decode_j + S[decode_i]) % N
  <2>1. decode_state' = "SET_SJ_ADDR" /\ decode_i' = decode_i /\ decode_k' = decode_k /\ S' = S
    BY <1>4, <1>s, <1>q DEF DecodeSuccessor
  <2>2. decode_j' = b
    <3>1. decode_si = S[decode_i]
      BY <1>4 DEF IInv, DecodeKnows
    <3> QED BY <1>4, <3>1 DEF Clock, DecodeStep, DecodeJ
  <2>3. /\ PhaseBar = "swap" /\ PermBar = S /\ (IBar + 1) % N = decode_i /\ JBar = decode_j
        /\ CountBar = decode_k
    BY <1>4, <1>t, IndexWraps DEF DecodeLooking, DecodeEmitting
  <2>4. /\ PhaseBar' = "emit" /\ PermBar' = Swap(S, decode_i, b) /\ IBar' = decode_i
        /\ JBar' = b /\ CountBar' = decode_k
    BY <1>4, <1>w, <2>1, <2>2 DEF DecodeLooking, DecodeEmitting
  <2>5. decode_k < L /\ message' = message
    BY <1>4, <1>s, <1>t, SizeAssumption DEF MsgIndex
  <2> HIDE DEF b
  <2>6. Abstract!SwapNext <=>
          /\ PhaseBar = "swap" /\ CountBar < L
          /\ PhaseBar' = "emit" /\ IBar' = (IBar + 1) % N
          /\ JBar' = (JBar + PermBar[(IBar + 1) % N]) % N
          /\ PermBar' = Swap(PermBar, (IBar + 1) % N, (JBar + PermBar[(IBar + 1) % N]) % N)
          /\ CountBar' = CountBar /\ message' = message
    BY SharedTypes, Zenon DEF Abstract!SwapNext
  <2>7. Abstract!SwapNext
    BY <2>3, <2>4, <2>5, <2>6, Zenon DEF b
  <2> QED BY <2>7
<1>5. CASE decode_state \in {"SET_SJ_ADDR", "READ_SJ"}
  <2>1. decode_state' \in {"READ_SJ", "STORE_SI"}
    BY <1>5, <1>s DEF DecodeSuccessor
  <2> QED BY <1>5, <1>s, <1>q, <1>w, <2>1 DEF Stutters, DecodeLooking, DecodeEmitting
<1>6. CASE decode_state = "STORE_SI"
  <2>1. /\ decode_state' = "STORE_SJ" /\ decode_i' = decode_i /\ decode_j' = decode_j
        /\ decode_sj' = decode_sj
    BY <1>6, <1>s DEF DecodeSuccessor
  <2>2. decode_sj = S[decode_j] /\ S' = [S EXCEPT ![decode_j] = S[decode_i]]
    BY <1>6, <1>m DEF MemoryEffect, IInv, DecodeKnows
  <2>3. [S' EXCEPT ![decode_i] = S[decode_j]] = Swap(S, decode_i, decode_j)
    BY <1>t, <2>2 DEF Swap
  <2>4. PermBar' = PermBar
    BY <1>6, <1>w, <2>1, <2>2, <2>3
  <2> QED BY <1>6, <1>s, <1>w, <2>1, <2>4 DEF Stutters, DecodeLooking, DecodeEmitting
<1>7. CASE decode_state = "STORE_SJ"
  <2>1. decode_state' = "SET_F_ADDR" /\ S' = [S EXCEPT ![decode_i] = decode_sj]
    BY <1>7, <1>m, <1>s DEF DecodeSuccessor, MemoryEffect
  <2> QED BY <1>7, <1>s, <1>w, <2>1 DEF Stutters, DecodeLooking, DecodeEmitting
<1>8. CASE decode_state \in {"SET_F_ADDR", "READ_F"}
  <2>1. decode_state' \in {"READ_F", "STORE_DECRYPTED"}
    BY <1>8, <1>s DEF DecodeSuccessor
  <2> QED BY <1>8, <1>s, <1>q, <1>w, <2>1 DEF Stutters, DecodeLooking, DecodeEmitting
<1>9. CASE decode_state = "STORE_DECRYPTED"
  <2>1. decode_state' = "UPDATE_K"
    BY <1>9, <1>s DEF DecodeSuccessor
  <2>2. /\ PhaseBar = "emit" /\ PermBar = S /\ IBar = decode_i /\ JBar = decode_j
        /\ CountBar = decode_k /\ message' = Abstract!Emitted
    BY <1>9, StoredIsEmitted DEF Clock
  <2>3. /\ PhaseBar' = "swap" /\ PermBar' = S /\ IBar' = decode_i /\ JBar' = decode_j
        /\ CountBar' = decode_k + 1
    BY <1>9, <1>s, <1>q, <1>w, <2>1 DEF DecodeLooking, DecodeEmitting
  <2> QED BY <2>2, <2>3, Zenon DEF Abstract!Emit
<1>10. CASE decode_state = "UPDATE_K"
  <2>1. /\ decode_state' = IF decode_k = L - 1 THEN "FINISH" ELSE "UPDATE_I"
        /\ decode_k' = (decode_k + 1) % L
    BY <1>10, <1>s DEF DecodeSuccessor, DecodeLastIndex, Clock, DecodeStep, DecodeK
  <2>2. CountBar' = decode_k + 1
    <3>1. CASE decode_k = L - 1
      BY <1>w, <1>10, <2>1, <3>1, SizeAssumption
    <3>2. CASE decode_k # L - 1
      <4>1. decode_k + 1 \in 0 .. L - 1
        BY <1>t, <3>2, SizeAssumption DEF MsgIndex
      <4>2. (decode_k + 1) % L = decode_k + 1
        BY <4>1, SizeAssumption
      <4> QED BY <1>w, <1>10, <2>1, <3>2, <4>2
    <3> QED BY <3>1, <3>2
  <2> QED BY <1>s, <1>q, <1>w, <1>10, <2>1, <2>2 DEF Stutters, DecodeLooking, DecodeEmitting
<1>11. CASE decode_state = "FINISH"
  <2>1. main_state = "WAIT_DECODE" /\ main_state' = "IDLE"
    BY <1>11 DEF IInv, Handshake, Clock, MainStep, MainBranch, decode_finish
  <2>2. PhaseBar' = "idle" /\ PermBar' = Identity /\ IBar' = 0 /\ JBar' = 0 /\ CountBar' = 0
    BY <2>1 DEF PhaseBar, PermBar, IBar, JBar, CountBar, select_share
  <2>3. PhaseBar = "swap" /\ CountBar = L /\ message' = message
    BY <1>s, <1>11 DEF DecodeEmitting
  <2> QED BY <2>2, <2>3, SharedTypes, Zenon DEF Abstract!Finish, Abstract!Rest
<1> QED
  BY <1>1, <1>2, <1>3, <1>4, <1>5, <1>6, <1>7, <1>8, <1>9, <1>10, <1>11, <1>t DEF DecodeState

(* At power up RC4 is idle. *)
LEMMA InitMapsToInit == Init => Abstract!Init
<1> SUFFICES ASSUME Init PROVE Abstract!Init
  OBVIOUS
<1>1. main_state = "IDLE" /\ message = [m \in MsgIndex |-> 0]
  BY DEF Init, MainInit
<1>2. PhaseBar = "idle" /\ PermBar = Identity /\ IBar = 0 /\ JBar = 0 /\ CountBar = 0
  BY <1>1 DEF PhaseBar, PermBar, IBar, JBar, CountBar, select_share
<1> QED
  BY <1>1, <1>2, SharedTypes DEF Abstract!Init, Abstract!MsgIndex, MsgIndex

(* Every edge is a step of RC4, or one that it does not see. *)
LEMMA StepMapsToStep == IInv /\ IInv' /\ [Next]_vars => [Abstract!Next]_(Abstract!vars)
<1> SUFFICES ASSUME IInv, IInv', [Next]_vars
             PROVE  Abstract!Next \/ UNCHANGED Abstract!vars
  OBVIOUS
<1>1. Stutters => UNCHANGED Abstract!vars
  BY DEF Stutters, Abstract!vars
<1>2. CASE UNCHANGED vars
  <2>1. /\ main_state' = main_state /\ S' = S /\ message' = message
        /\ shuffle_state' = shuffle_state /\ shuffle_i' = shuffle_i /\ shuffle_j' = shuffle_j
        /\ shuffle_si' = shuffle_si
        /\ decode_state' = decode_state /\ decode_i' = decode_i /\ decode_j' = decode_j
        /\ decode_k' = decode_k /\ decode_sj' = decode_sj
    BY <1>2 DEF vars, main_vars, shuffle_vars, decode_vars, memory_vars
  <2>2. Stutters
    BY <2>1 DEF Stutters, PhaseBar, PermBar, IBar, JBar, CountBar, select_share
  <2> QED BY <1>1, <2>2
<1>3. CASE Next
  <2>1. PICK reset \in BOOLEAN, start \in BOOLEAN : Clock(reset, start)
    BY <1>3, NextIsClock
  <2>2. CASE reset
    <3>1. Clock(TRUE, start)
      BY <2>1, <2>2
    <3> QED BY <3>1, ResetAborts DEF Abstract!Next
  <2>3. CASE ~reset
    <3>1. Clock(FALSE, start)
      BY <2>1, <2>3
    <3>2. main_state \in MainState /\ secret_key \in Keys
      BY DEF IInv, TypeOK
    <3>3. CASE main_state \in {"IDLE", "START_INIT", "WAIT_INIT"}
      BY <1>1, <3>1, <3>3, InitMaps DEF Abstract!Next
    <3>4. CASE main_state \in {"START_SHUFFLE", "WAIT_SHUFFLE"}
      BY <1>1, <3>1, <3>2, <3>4, ShuffleMaps DEF Abstract!Next
    <3>5. CASE main_state \in {"START_DECODE", "WAIT_DECODE"}
      BY <1>1, <3>1, <3>5, DecodeMaps DEF Abstract!Next
    <3> QED BY <3>2, <3>3, <3>4, <3>5 DEF MainState
  <2> QED BY <2>2, <2>3
<1> QED BY <1>2, <1>3

(* The circuit implements RC4 over a message, one atomic swap a step, for  *)
(* every size of memory and message, every set of keys, and whatever the   *)
(* buttons and switches do: the swaps of four state machines sharing one   *)
(* memory are never half done, done twice or seen by the next run.         *)
THEOREM DecrypterImplementsRC4 == Spec => ImplementsRC4
BY InitMapsToInit, StepMapsToStep, InvariantHolds, PTL DEF Spec, ImplementsRC4, Abstract!Spec

-----------------------------------------------------------------------------
(* The program of RC4Reference, whose loops are recursive functions.       *)
LEMMA NatLessWellFounded == IsWellFoundedOn({x \in Nat \X Nat : x[1] < x[2]}, Nat)
<1>1. OpToRel(<,Nat) = {x \in Nat \X Nat : x[1] < x[2]}
  BY Zenon DEF OpToRel
<1> QED BY <1>1, NatLessThanWellFounded, Zenon

LEMMA FirstOfSet ==
  ASSUME NEW T \in SUBSET Nat, T # {}
  PROVE  \E n \in T : \A m \in T : n <= m
<1> DEFINE R == {x \in Nat \X Nat : x[1] < x[2]}
<1>1. PICK n \in T : \A m \in T : ~(<<m, n>> \in R)
  BY NatLessWellFounded, WFMin, Zenon
<1>2. ASSUME NEW m \in T PROVE n <= m
  <2>1. n \in Nat /\ m \in Nat /\ ~(<<m, n>> \in R)
    BY <1>1
  <2> QED BY <2>1
<1> QED BY <1>2

(* A function that is defined at 0 and at each n from its value before n.  *)
Recursion(f, M, first, step) ==
  f = [n \in 0..M |-> IF n = 0 THEN first ELSE step[n - 1][f[n - 1]]]

LEMMA RecursionExists ==
  ASSUME NEW M \in Nat, NEW first, NEW step
  PROVE  \E f : Recursion(f, M, first, step)
<1> DEFINE T == {n \in Nat : ~\E f : Recursion(f, n, first, step)}
<1> SUFFICES ASSUME T # {} PROVE FALSE
  OBVIOUS
<1>1. PICK k \in T : \A m \in T : k <= m
  BY FirstOfSet
<1>2. CASE k = 0
  <2>1. PICK f : f = [n \in 0..0 |-> first]
    OBVIOUS
  <2>2. f = [n \in 0..0 |-> IF n = 0 THEN first ELSE step[n - 1][f[n - 1]]]
    BY <2>1
  <2> QED BY <1>1, <1>2, <2>2 DEF Recursion
<1>3. CASE k # 0
  <2>1. k - 1 \in Nat /\ k - 1 < k
    BY <1>1, <1>3
  <2>2. PICK f : Recursion(f, k - 1, first, step)
    BY <1>1, <2>1
  <2>3. PICK g : g = [n \in 0..k |-> IF n = 0 THEN first ELSE step[n - 1][f[n - 1]]]
    OBVIOUS
  <2>4. \A n \in 0..k - 1 : g[n] = f[n]
    BY <2>1, <2>2, <2>3 DEF Recursion
  <2>5. \A n \in 0..k : n # 0 => g[n - 1] = f[n - 1]
    BY <2>1, <2>4
  <2>6. g = [n \in 0..k |-> IF n = 0 THEN first ELSE step[n - 1][g[n - 1]]]
    BY <2>3, <2>5
  <2> QED BY <1>1, <2>6 DEF Recursion
<1> QED BY <1>2, <1>3

(* Its values are in D, if it starts and stays there.                      *)
LEMMA StaysInType ==
  ASSUME NEW M \in Nat, NEW D, NEW f, f[0] \in D,
         \A n \in 0..M - 1 : f[n] \in D => f[n + 1] \in D
  PROVE  \A n \in 0..M : f[n] \in D
<1> DEFINE T == {n \in 0..M : f[n] \notin D}
<1> SUFFICES ASSUME T # {} PROVE FALSE
  OBVIOUS
<1>1. T \in SUBSET Nat
  OBVIOUS
<1>2. PICK k \in T : \A m \in T : k <= m
  BY <1>1, FirstOfSet
<1>3. k # 0
  BY <1>2
<1>4. k - 1 \in 0..M - 1 /\ k - 1 \in 0..M /\ ~(k <= k - 1) /\ (k - 1) + 1 = k
  BY <1>2, <1>3
<1>5. f[k - 1] \in D
  BY <1>2, <1>4
<1>6. f[(k - 1) + 1] \in D
  BY <1>4, <1>5
<1> QED BY <1>2, <1>4, <1>6

LEMMA RecursionType ==
  ASSUME NEW M \in Nat, NEW D, NEW first \in D, NEW step \in [0..M - 1 -> [D -> D]],
         NEW f, Recursion(f, M, first, step)
  PROVE  \A n \in 0..M : f[n] \in D
<1>1. f[0] = first
  BY DEF Recursion
<1>2. ASSUME NEW n \in 0..M - 1, f[n] \in D
      PROVE  f[n + 1] \in D
  <2>1. n + 1 \in 0..M /\ n + 1 # 0 /\ (n + 1) - 1 = n
    OBVIOUS
  <2>2. f[n + 1] = step[(n + 1) - 1][f[(n + 1) - 1]]
    BY <2>1 DEF Recursion
  <2>3. step[n] \in [D -> D]
    OBVIOUS
  <2>4. step[n][f[n]] \in D
    BY <1>2, <2>3
  <2> QED BY <2>1, <2>2, <2>4
<1> QED BY <1>1, <1>2, StaysInType

LEMMA SwapType ==
  ASSUME NEW s \in [Byte -> Byte], NEW a \in Byte, NEW b \in Byte
  PROVE  Swap(s, a, b) \in [Byte -> Byte]
BY DEF Swap

(* The key schedule, round by round.                                       *)
LEMMA KeyRoundsAre ==
  ASSUME NEW key \in Keys
  PROVE  /\ KeyRounds(key)[0] = [s |-> Identity, j |-> 0]
         /\ \A n \in 0..N - 1 : KeyRounds(key)[n + 1] = KeyRound(KeyRounds(key)[n], n, key)
         /\ KeyRounds(key) \in [0..N -> [s : [Byte -> Byte], j : Byte]]
<1> DEFINE D == [s : [Byte -> Byte], j : Byte]
           first == [s |-> Identity, j |-> 0]
           step == [n \in 0..N - 1 |-> [old \in D |-> KeyRound(old, n, key)]]
<1>1. N \in Nat /\ N # 0 /\ 0 \in Byte
  BY SizeAssumption, ZeroType
<1>2. first \in D
  BY <1>1 DEF Identity
<1>3. ASSUME NEW n \in 0..N - 1, NEW old \in D
      PROVE  KeyRound(old, n, key) \in D
  <2>1. n \in Byte
    BY DEF Byte
  <2>2. old.s \in [Byte -> Byte] /\ old.j \in Byte /\ old.s[n] \in Byte
    BY <2>1
  <2>3. PICK next : next = (old.j + old.s[n] + key[n % 3]) % N
    OBVIOUS
  <2>4. next \in Byte
    BY <2>1, <2>2, <2>3, KeyByteType, ByteSum3
  <2>5. Swap(old.s, n, next) \in [Byte -> Byte]
    BY <2>1, <2>2, <2>4, SwapType
  <2>6. KeyRound(old, n, key) = [s |-> Swap(old.s, n, next), j |-> next]
    BY <2>3 DEF KeyRound
  <2> QED BY <2>4, <2>5, <2>6
<1>4. step \in [0..N - 1 -> [D -> D]]
  BY <1>3
<1>5. PICK f : Recursion(f, N, first, step)
  BY <1>1, RecursionExists
<1>6. \A n \in 0..N : f[n] \in D
  <2> HIDE DEF D, first, step
  <2> QED BY <1>1, <1>2, <1>4, <1>5, RecursionType
<1>7. f = [n \in 0..N |-> IF n = 0 THEN first ELSE step[n - 1][f[n - 1]]]
  BY <1>5 DEF Recursion
<1>8. \A n \in 0..N : n # 0 => step[n - 1][f[n - 1]] = KeyRound(f[n - 1], n - 1, key)
  <2> SUFFICES ASSUME NEW n \in 0..N, n # 0
               PROVE  step[n - 1][f[n - 1]] = KeyRound(f[n - 1], n - 1, key)
    OBVIOUS
  <2>1. n - 1 \in 0..N - 1 /\ n - 1 \in 0..N
    BY <1>1
  <2> QED BY <1>6, <2>1
<1> HIDE DEF step
<1>9. f = [n \in 0..N |-> IF n = 0 THEN [s |-> Identity, j |-> 0]
                          ELSE KeyRound(f[n - 1], n - 1, key)]
  BY <1>7, <1>8
<1>10. KeyRounds(key) = CHOOSE g : g = [n \in 0..N |-> IF n = 0 THEN [s |-> Identity, j |-> 0]
                                       ELSE KeyRound(g[n - 1], n - 1, key)]
  BY DEF KeyRounds
<1>11. PICK g : g = KeyRounds(key)
  OBVIOUS
<1>12. g = [n \in 0..N |-> IF n = 0 THEN [s |-> Identity, j |-> 0]
                          ELSE KeyRound(g[n - 1], n - 1, key)]
  BY <1>9, <1>10, <1>11, Zenon
<1>13. g[0] = first /\ \A n \in 0..N - 1 : g[n + 1] = KeyRound(g[n], n, key)
  <2>1. g[0] = first
    BY <1>1, <1>12
  <2>2. ASSUME NEW n \in 0..N - 1 PROVE g[n + 1] = KeyRound(g[n], n, key)
    <3>1. n + 1 \in 0..N /\ n + 1 # 0 /\ (n + 1) - 1 = n
      BY <1>1
    <3>2. g[n + 1] = KeyRound(g[(n + 1) - 1], (n + 1) - 1, key)
      BY <1>12, <3>1
    <3> QED BY <3>1, <3>2
  <2> QED BY <2>1, <2>2
<1>14. \A n \in 0..N : g[n] \in D
  <2>1. \A n \in 0..N - 1 : g[n] \in D => g[n + 1] \in D
    BY <1>3, <1>13
  <2>2. g[0] \in D
    BY <1>2, <1>13
  <2> HIDE DEF D
  <2> QED BY <1>1, <2>1, <2>2, StaysInType
<1>15. g \in [0..N -> D]
  <2>1. g = [n \in 0..N |-> g[n]]
    BY <1>12
  <2> QED BY <1>14, <2>1
<1> QED BY <1>11, <1>13, <1>15

(* The same for the keystream.                                             *)
LEMMA StreamRoundsAre ==
  ASSUME NEW key \in Keys
  PROVE  /\ StreamRounds(key)[0] = [s |-> KeyRounds(key)[N].s, i |-> 0, j |-> 0]
         /\ \A n \in 0..L - 1 : StreamRounds(key)[n + 1] = StreamRound(StreamRounds(key)[n])
<1> DEFINE D == [s : [Byte -> Byte], i : Byte, j : Byte]
           first == [s |-> KeySchedule(key), i |-> 0, j |-> 0]
           step == [n \in 0..L - 1 |-> [old \in D |-> StreamRound(old)]]
<1>1. L \in Nat /\ L # 0 /\ 0 \in Byte /\ N \in Nat /\ N # 0
  BY SizeAssumption, ZeroType
<1>2. first \in D
  <2>1. KeySchedule(key) \in [Byte -> Byte]
    BY <1>1, KeyRoundsAre DEF KeySchedule
  <2> QED BY <1>1, <2>1
<1>3. ASSUME NEW old \in D
      PROVE  StreamRound(old) \in D
  <2>1. old.s \in [Byte -> Byte] /\ old.i \in Byte /\ old.j \in Byte
    OBVIOUS
  <2>2. PICK a : a = (old.i + 1) % N
    OBVIOUS
  <2>3. a \in Byte
    BY <2>1, <2>2, ByteSum
  <2>4. PICK b : b = (old.j + old.s[a]) % N
    OBVIOUS
  <2>5. b \in Byte
    <3>1. old.s[a] \in Byte
      BY <2>1, <2>3
    <3> QED BY <2>1, <2>4, <3>1, ByteSum
  <2>6. Swap(old.s, a, b) \in [Byte -> Byte]
    BY <2>1, <2>3, <2>5, SwapType
  <2>7. StreamRound(old) = [s |-> Swap(old.s, a, b), i |-> a, j |-> b]
    BY <2>2, <2>4 DEF StreamRound
  <2> QED BY <2>3, <2>5, <2>6, <2>7
<1>4. step \in [0..L - 1 -> [D -> D]]
  BY <1>3
<1>5. PICK f : Recursion(f, L, first, step)
  BY <1>1, RecursionExists
<1>6. \A n \in 0..L : f[n] \in D
  <2> HIDE DEF D, first, step
  <2> QED BY <1>1, <1>2, <1>4, <1>5, RecursionType
<1>7. f = [n \in 0..L |-> IF n = 0 THEN first ELSE step[n - 1][f[n - 1]]]
  BY <1>5 DEF Recursion
<1>8. \A n \in 0..L : n # 0 => step[n - 1][f[n - 1]] = StreamRound(f[n - 1])
  <2> SUFFICES ASSUME NEW n \in 0..L, n # 0
               PROVE  step[n - 1][f[n - 1]] = StreamRound(f[n - 1])
    OBVIOUS
  <2>1. n - 1 \in 0..L - 1 /\ n - 1 \in 0..L
    BY <1>1
  <2> QED BY <1>6, <2>1
<1> HIDE DEF step
<1>9. f = [n \in 0..L |-> IF n = 0 THEN [s |-> KeySchedule(key), i |-> 0, j |-> 0]
                          ELSE StreamRound(f[n - 1])]
  BY <1>7, <1>8
<1>10. StreamRounds(key) =
         CHOOSE g : g = [n \in 0..L |-> IF n = 0 THEN [s |-> KeySchedule(key), i |-> 0, j |-> 0]
                                        ELSE StreamRound(g[n - 1])]
  BY DEF StreamRounds
<1>11. PICK g : g = StreamRounds(key)
  OBVIOUS
<1>12. g = [n \in 0..L |-> IF n = 0 THEN [s |-> KeySchedule(key), i |-> 0, j |-> 0]
                          ELSE StreamRound(g[n - 1])]
  BY <1>9, <1>10, <1>11, Zenon
<1>13. g[0] = first
  BY <1>1, <1>12
<1>14. ASSUME NEW n \in 0..L - 1 PROVE g[n + 1] = StreamRound(g[n])
  <2>1. n + 1 \in 0..L /\ n + 1 # 0 /\ (n + 1) - 1 = n
    BY <1>1
  <2>2. g[n + 1] = StreamRound(g[(n + 1) - 1])
    BY <1>12, <2>1
  <2> QED BY <2>1, <2>2
<1> QED BY <1>11, <1>13, <1>14 DEF KeySchedule

-----------------------------------------------------------------------------
(* How far the circuit is in the program, with the key it was started      *)
(* with: the rounds done, and the bytes of the message that are right.     *)
Progress ==
  /\ PhaseBar = "schedule" => /\ IBar \in 0..N
                              /\ KeyRounds(secret_key)[IBar] = [s |-> PermBar, j |-> JBar]
  /\ PhaseBar = "swap" => /\ CountBar \in 0..L
                          /\ StreamRounds(secret_key)[CountBar] =
                                [s |-> PermBar, i |-> IBar, j |-> JBar]
  /\ PhaseBar = "emit" => /\ CountBar \in 0..L - 1
                          /\ StreamRounds(secret_key)[CountBar + 1] =
                                [s |-> PermBar, i |-> IBar, j |-> JBar]
  /\ PhaseBar \in {"swap", "emit"} =>
       \A m \in 0..CountBar - 1 : message[m] = Decrypted(secret_key)[m]

(* The names that the refinement mapping gives, in one place.              *)
LEMMA BarSteps ==
  /\ Abstract!Begin => /\ PhaseBar' = "schedule" /\ PermBar' = PermBar
                       /\ IBar' = IBar /\ JBar' = JBar
  /\ Abstract!Schedule(secret_key) =>
       /\ PhaseBar = "schedule" /\ IBar < N
       /\ PermBar' = Swap(PermBar, IBar, (JBar + PermBar[IBar] + secret_key[IBar % 3]) % N)
       /\ IBar' = IBar + 1 /\ JBar' = (JBar + PermBar[IBar] + secret_key[IBar % 3]) % N
       /\ PhaseBar' = PhaseBar
  /\ Abstract!Scheduled =>
       /\ PhaseBar = "schedule" /\ IBar = N /\ PhaseBar' = "swap" /\ IBar' = 0 /\ JBar' = 0
       /\ PermBar' = PermBar /\ CountBar' = CountBar
  /\ Abstract!SwapNext =>
       /\ PhaseBar = "swap" /\ CountBar < L
       /\ PhaseBar' = "emit" /\ IBar' = (IBar + 1) % N
       /\ JBar' = (JBar + PermBar[(IBar + 1) % N]) % N
       /\ PermBar' = Swap(PermBar, (IBar + 1) % N, (JBar + PermBar[(IBar + 1) % N]) % N)
       /\ CountBar' = CountBar /\ message' = message
  /\ Abstract!Emit =>
       /\ PhaseBar = "emit" /\ PhaseBar' = "swap" /\ CountBar' = CountBar + 1
       /\ PermBar' = PermBar /\ IBar' = IBar /\ JBar' = JBar
       /\ message' = [message EXCEPT ![CountBar] =
             ByteXor(PermBar[(PermBar[IBar] + PermBar[JBar]) % N], Encrypted[CountBar])]
  /\ Abstract!Finish => PhaseBar' = "idle"
  /\ Abstract!Abort => PhaseBar' = "idle"
<1>1. Abstract!Begin => /\ PhaseBar' = "schedule" /\ PermBar' = PermBar
                       /\ IBar' = IBar /\ JBar' = JBar
  BY SharedTypes, Zenon DEF Abstract!Begin
<1>2. Abstract!Schedule(secret_key) =>
       /\ PhaseBar = "schedule" /\ IBar < N
       /\ PermBar' = Swap(PermBar, IBar, (JBar + PermBar[IBar] + secret_key[IBar % 3]) % N)
       /\ IBar' = IBar + 1 /\ JBar' = (JBar + PermBar[IBar] + secret_key[IBar % 3]) % N
       /\ PhaseBar' = PhaseBar
  BY SharedTypes, Zenon DEF Abstract!Schedule
<1>3. Abstract!Scheduled =>
       /\ PhaseBar = "schedule" /\ IBar = N /\ PhaseBar' = "swap" /\ IBar' = 0 /\ JBar' = 0
       /\ PermBar' = PermBar /\ CountBar' = CountBar
  BY SharedTypes, Zenon DEF Abstract!Scheduled
<1>4. Abstract!SwapNext =>
       /\ PhaseBar = "swap" /\ CountBar < L
       /\ PhaseBar' = "emit" /\ IBar' = (IBar + 1) % N
       /\ JBar' = (JBar + PermBar[(IBar + 1) % N]) % N
       /\ PermBar' = Swap(PermBar, (IBar + 1) % N, (JBar + PermBar[(IBar + 1) % N]) % N)
       /\ CountBar' = CountBar /\ message' = message
  BY SharedTypes, Zenon DEF Abstract!SwapNext
<1>5. Abstract!Emit =>
       /\ PhaseBar = "emit" /\ PhaseBar' = "swap" /\ CountBar' = CountBar + 1
       /\ PermBar' = PermBar /\ IBar' = IBar /\ JBar' = JBar
       /\ message' = [message EXCEPT ![CountBar] =
             ByteXor(PermBar[(PermBar[IBar] + PermBar[JBar]) % N], Encrypted[CountBar])]
  BY SharedTypes, Zenon DEF Abstract!Emit, Abstract!Emitted
<1>6. Abstract!Finish => PhaseBar' = "idle"
  BY SharedTypes, Zenon DEF Abstract!Finish, Abstract!Rest
<1>7. Abstract!Abort => PhaseBar' = "idle"
  BY SharedTypes, Zenon DEF Abstract!Abort, Abstract!Rest
<1> QED BY <1>1, <1>2, <1>3, <1>4, <1>5, <1>6, <1>7

LEMMA ScheduleProgresses ==
  ASSUME Progress, secret_key \in Keys, secret_key' = secret_key, Abstract!Schedule(secret_key)
  PROVE  Progress'
<1>1. PICK next : next = (JBar + PermBar[IBar] + secret_key[IBar % 3]) % N
  OBVIOUS
<1>2. /\ PhaseBar = "schedule" /\ IBar < N /\ PermBar' = Swap(PermBar, IBar, next)
      /\ IBar' = IBar + 1 /\ JBar' = next /\ PhaseBar' = PhaseBar
  BY <1>1, BarSteps, Zenon
<1>3. IBar \in 0..N /\ KeyRounds(secret_key)[IBar] = [s |-> PermBar, j |-> JBar]
  BY <1>2 DEF Progress
<1>4. IBar \in 0..N - 1 /\ IBar + 1 \in 0..N
  BY <1>2, <1>3, SizeAssumption
<1>5. KeyRounds(secret_key)[IBar + 1] = KeyRound(KeyRounds(secret_key)[IBar], IBar, secret_key)
  BY <1>4, KeyRoundsAre
<1>6. PICK old : old = [s |-> PermBar, j |-> JBar]
  OBVIOUS
<1>7. KeyRound(old, IBar, secret_key) = [s |-> Swap(PermBar, IBar, next), j |-> next]
  BY <1>1, <1>6 DEF KeyRound
<1>8. KeyRounds(secret_key)'[IBar'] = [s |-> PermBar', j |-> JBar']
  BY <1>2, <1>3, <1>5, <1>6, <1>7
<1> QED BY <1>2, <1>4, <1>8 DEF Progress

LEMMA SwapProgresses ==
  ASSUME Progress, secret_key \in Keys, secret_key' = secret_key, Abstract!SwapNext
  PROVE  Progress'
<1>1. PICK a, b : a = (IBar + 1) % N /\ b = (JBar + PermBar[(IBar + 1) % N]) % N
  OBVIOUS
<1>2. /\ PhaseBar = "swap" /\ CountBar < L /\ PhaseBar' = "emit" /\ IBar' = a /\ JBar' = b
      /\ PermBar' = Swap(PermBar, a, b) /\ CountBar' = CountBar /\ message' = message
  BY <1>1, BarSteps, Zenon
<1>3. /\ CountBar \in 0..L
      /\ StreamRounds(secret_key)[CountBar] = [s |-> PermBar, i |-> IBar, j |-> JBar]
      /\ \A m \in 0..CountBar - 1 : message[m] = Decrypted(secret_key)[m]
  BY <1>2 DEF Progress
<1>4. CountBar \in 0..L - 1
  BY <1>2, <1>3, SizeAssumption
<1>5. StreamRounds(secret_key)[CountBar + 1] = StreamRound(StreamRounds(secret_key)[CountBar])
  BY <1>4, StreamRoundsAre
<1>6. PICK old : old = [s |-> PermBar, i |-> IBar, j |-> JBar]
  OBVIOUS
<1>7. StreamRound(old) = [s |-> Swap(PermBar, a, b), i |-> a, j |-> b]
  BY <1>1, <1>6 DEF StreamRound
<1>8. StreamRounds(secret_key)'[CountBar' + 1] = [s |-> PermBar', i |-> IBar', j |-> JBar']
  BY <1>2, <1>3, <1>5, <1>6, <1>7
<1>9. \A m \in 0..CountBar' - 1 : message'[m] = Decrypted(secret_key)'[m]
  BY <1>2, <1>3
<1> QED BY <1>2, <1>4, <1>8, <1>9 DEF Progress

(* The byte that is stored is the program's.                               *)
LEMMA EmitProgresses ==
  ASSUME Progress, message \in [MsgIndex -> Byte], secret_key \in Keys,
         secret_key' = secret_key, Abstract!Emit
  PROVE  Progress'
<1>1. PICK byte : byte = ByteXor(PermBar[(PermBar[IBar] + PermBar[JBar]) % N], Encrypted[CountBar])
  OBVIOUS
<1>2. /\ PhaseBar = "emit" /\ PhaseBar' = "swap" /\ CountBar' = CountBar + 1
      /\ PermBar' = PermBar /\ IBar' = IBar /\ JBar' = JBar
      /\ message' = [message EXCEPT ![CountBar] = byte]
  BY <1>1, BarSteps, Zenon
<1>3. /\ CountBar \in 0..L - 1
      /\ StreamRounds(secret_key)[CountBar + 1] = [s |-> PermBar, i |-> IBar, j |-> JBar]
      /\ \A m \in 0..CountBar - 1 : message[m] = Decrypted(secret_key)[m]
  BY <1>2 DEF Progress
<1>4. CountBar + 1 \in 0..L /\ CountBar \in MsgIndex
  BY <1>3, SizeAssumption DEF MsgIndex
<1>5. PICK round : round = [s |-> PermBar, i |-> IBar, j |-> JBar]
  OBVIOUS
<1>6. StreamByte(round) = PermBar[(PermBar[IBar] + PermBar[JBar]) % N]
  BY <1>5 DEF StreamByte
<1>7. Decrypted(secret_key)[CountBar] =
        ByteXor(StreamByte(StreamRounds(secret_key)[CountBar + 1]), Encrypted[CountBar])
  BY <1>4 DEF Decrypted
<1>8. Decrypted(secret_key)[CountBar] = byte
  BY <1>1, <1>3, <1>5, <1>6, <1>7, Zenon
<1>9. message'[CountBar] = byte /\ \A m \in MsgIndex : m # CountBar => message'[m] = message[m]
  BY <1>2, <1>4
<1>10. ASSUME NEW m \in 0..CountBar' - 1
       PROVE  message'[m] = Decrypted(secret_key)'[m]
  <2>1. m \in MsgIndex /\ (m = CountBar \/ m \in 0..CountBar - 1)
    <3>1. PICK c : c = CountBar
      OBVIOUS
    <3>2. c \in 0..L - 1 /\ m \in 0..(c + 1) - 1
      BY <1>2, <1>3, <1>10, <3>1, Zenon
    <3>3. m \in 0..L - 1 /\ (m = c \/ m \in 0..c - 1)
      BY <3>2, SizeAssumption
    <3> QED BY <3>1, <3>3 DEF MsgIndex
  <2>2. CASE m = CountBar
    BY <1>8, <1>9, <2>2
  <2>3. CASE m # CountBar
    BY <1>3, <1>9, <2>1, <2>3
  <2> QED BY <2>2, <2>3
<1> QED BY <1>2, <1>3, <1>4, <1>10 DEF Progress

(* The key moves only while RC4 is idle.                                   *)
LEMMA ProgressStep ==
  ASSUME IInv, IInv', Progress, [SteadyNext]_vars
  PROVE  Progress'
<1>1. /\ message \in [MsgIndex -> Byte] /\ secret_key \in Keys /\ secret_key' \in Keys
      /\ main_state \in MainState
  BY DEF IInv, TypeOK
<1>2. Keys \subseteq Keys /\ SteadyKeys \subseteq Keys
  BY <1>1 DEF SteadyKeys
<1>3. ASSUME PhaseBar' = "idle" PROVE Progress'
  BY <1>3 DEF Progress
<1>4. ASSUME Stutters, secret_key' = secret_key PROVE Progress'
  BY <1>4 DEF Stutters, Progress
<1>5. CASE UNCHANGED vars
  <2>1. /\ main_state' = main_state /\ S' = S /\ message' = message /\ secret_key' = secret_key
        /\ shuffle_state' = shuffle_state /\ shuffle_i' = shuffle_i /\ shuffle_j' = shuffle_j
        /\ shuffle_si' = shuffle_si
        /\ decode_state' = decode_state /\ decode_i' = decode_i /\ decode_j' = decode_j
        /\ decode_k' = decode_k /\ decode_sj' = decode_sj
    BY <1>5 DEF vars, main_vars, shuffle_vars, decode_vars, memory_vars
  <2>2. Stutters
    BY <2>1 DEF Stutters, PhaseBar, PermBar, IBar, JBar, CountBar, select_share
  <2> QED BY <1>4, <2>1, <2>2
<1>6. CASE SteadyNext
  <2>1. PICK reset \in BOOLEAN, start \in BOOLEAN :
          Clock(reset, start) /\ secret_key' \in SteadyKeys
    BY <1>6 DEF SteadyNext, SteadyResetEdge, SteadyRunEdge, Edge
  <2>2. main_state # "IDLE" => secret_key' = secret_key
    BY <2>1 DEF SteadyKeys
  <2>3. CASE reset
    <3>1. Clock(TRUE, start)
      BY <2>1, <2>3
    <3>2. PhaseBar' = "idle"
      BY <3>1, ResetAborts, BarSteps
    <3> QED BY <1>3, <3>2
  <2>4. CASE ~reset
    <3>1. Clock(FALSE, start)
      BY <2>1, <2>4
    <3>2. CASE main_state = "IDLE"
      <4>1. main_state' \in {"IDLE", "START_INIT"}
        BY <3>1, <3>2 DEF Clock, MainStep, MainBranch
      <4>2. PhaseBar' = "idle"
        BY <4>1 DEF PhaseBar, select_share
      <4> QED BY <1>3, <4>2
    <3>3. CASE main_state \in {"START_INIT", "WAIT_INIT"}
      <4>1. secret_key' = secret_key
        BY <2>2, <3>3
      <4>2. CASE Abstract!Begin
        <5>1. PermBar = Identity /\ IBar = 0 /\ JBar = 0
          BY <3>3 DEF PermBar, IBar, JBar, select_share
        <5>2. PhaseBar' = "schedule" /\ PermBar' = Identity /\ IBar' = 0 /\ JBar' = 0
          BY <4>2, <5>1, BarSteps
        <5>3. KeyRounds(secret_key)[0] = [s |-> Identity, j |-> 0]
          BY <1>1, KeyRoundsAre
        <5> QED BY <4>1, <5>2, <5>3, SizeAssumption DEF Progress
      <4> QED BY <1>4, <3>1, <3>3, <4>1, <4>2, InitMaps
    <3>4. CASE main_state \in {"START_SHUFFLE", "WAIT_SHUFFLE"}
      <4>1. secret_key' = secret_key
        BY <2>2, <3>4
      <4>2. CASE Abstract!Schedule(secret_key)
        BY <1>1, <4>1, <4>2, ScheduleProgresses
      <4>3. CASE Abstract!Scheduled
        <5>1. /\ PhaseBar = "schedule" /\ IBar = N /\ PhaseBar' = "swap" /\ IBar' = 0
              /\ JBar' = 0 /\ PermBar' = PermBar /\ CountBar' = CountBar
          BY <4>3, BarSteps
        <5>2. CountBar = 0
          BY <3>4, ShuffleBar
        <5>3. KeyRounds(secret_key)[N] = [s |-> PermBar, j |-> JBar]
          BY <5>1 DEF Progress
        <5>4. StreamRounds(secret_key)[0] = [s |-> PermBar, i |-> 0, j |-> 0]
          BY <1>1, <5>3, StreamRoundsAre
        <5> QED BY <4>1, <5>1, <5>2, <5>4, SizeAssumption DEF Progress
      <4> QED BY <1>4, <3>1, <3>4, <4>1, <4>2, <4>3, ShuffleMaps
    <3>5. CASE main_state \in {"START_DECODE", "WAIT_DECODE"}
      <4>1. secret_key' = secret_key
        BY <2>2, <3>5
      <4>2. CASE Abstract!SwapNext
        BY <1>1, <4>1, <4>2, SwapProgresses
      <4>3. CASE Abstract!Emit
        BY <1>1, <4>1, <4>3, EmitProgresses
      <4>4. CASE Abstract!Finish
        BY <1>3, <4>4, BarSteps
      <4> QED BY <1>4, <3>1, <3>5, <4>1, <4>2, <4>3, <4>4, DecodeMaps
    <3> QED BY <1>1, <3>2, <3>3, <3>4, <3>5 DEF MainState
  <2> QED BY <2>3, <2>4
<1> QED BY <1>5, <1>6

(* With the switches left alone while a message is decrypted, the message  *)
(* at the end of a run is the one the program computes, for every size of  *)
(* memory and message, however many runs and resets came before.           *)
THEOREM MessagesAreDecrypted == SteadySpec => []MessageDecrypted
<1>1. IInv /\ [SteadyNext]_vars => IInv'
  <2>1. IInv => SteadyKeys \subseteq Keys
    BY DEF SteadyKeys, IInv, TypeOK
  <2>2. IInv /\ SteadyNext => Next
    BY <2>1 DEF SteadyNext, SteadyResetEdge, SteadyRunEdge, Next, ResetEdge, RunEdge, Edge
  <2> QED BY <2>2, InvariantStep
<1>2. Init => Progress
  BY InitMapsToInit DEF Abstract!Init, Progress
<1>3. IInv /\ Progress => MessageDecrypted
  <2> SUFFICES ASSUME IInv, Progress, decode_state = "FINISH"
               PROVE  message = Decrypted(secret_key)
    BY DEF MessageDecrypted
  <2>1. main_state = "WAIT_DECODE"
    BY DEF IInv, Handshake
  <2>2. PhaseBar = "swap" /\ CountBar = L
    BY <2>1, DecodeBar DEF DecodeEmitting
  <2>3. \A m \in MsgIndex : message[m] = Decrypted(secret_key)[m]
    BY <2>2 DEF Progress, MsgIndex
  <2>4. message = [m \in MsgIndex |-> message[m]]
    BY DEF IInv, TypeOK
  <2>5. Decrypted(secret_key) = [m \in MsgIndex |-> Decrypted(secret_key)[m]]
    BY DEF Decrypted
  <2> QED BY <2>3, <2>4, <2>5
<1>4. SteadySpec => []IInv
  BY <1>1, InvariantInit, PTL DEF SteadySpec
<1>5. IInv /\ IInv' /\ Progress /\ [SteadyNext]_vars => Progress'
  BY ProgressStep
<1>6. SteadySpec => []Progress
  BY <1>2, <1>4, <1>5, PTL DEF SteadySpec
<1> QED BY <1>3, <1>4, <1>6, PTL
=============================================================================
