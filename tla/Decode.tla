-------------------------------- MODULE Decode --------------------------------
(***************************************************************************)
(* decode: RC4's keystream generator. Each round swaps two cells of the    *)
(* working memory, reads the keystream byte and stores one decrypted byte. *)
(***************************************************************************)
EXTENDS RC4Types

VARIABLES decode_state, decode_i, decode_j, decode_k, decode_si, decode_sj, decode_f

DecodeState == {"IDLE", "UPDATE_I", "SET_SI_ADDR", "READ_SI", "UPDATE_J",
                "SET_SJ_ADDR", "READ_SJ", "STORE_SI", "STORE_SJ", "SET_F_ADDR",
                "READ_F", "STORE_DECRYPTED", "UPDATE_K", "FINISH"}

(* UPDATE_I has moved i, UPDATE_J has not yet moved j. *)
DecodeLooking == {"SET_SI_ADDR", "READ_SI", "UPDATE_J"}

(* The swap is decided, the byte of this round is not stored yet. *)
DecodeEmitting == {"SET_SJ_ADDR", "READ_SJ", "STORE_SI", "STORE_SJ",
                   "SET_F_ADDR", "READ_F", "STORE_DECRYPTED"}

DecodeInit ==
  /\ decode_state = "IDLE"
  /\ decode_i = 0 /\ decode_j = 0 /\ decode_k = 0
  /\ decode_si = 0 /\ decode_sj = 0 /\ decode_f = 0

(* ~state[14]: high in IDLE as well as in FINISH. *)
decode_finish == decode_state \in {"IDLE", "FINISH"}

(* s_addr_selec: 00 is i, 01 is j, 11 is si + sj. *)
s_mem_addr ==
  IF decode_state \in {"SET_SJ_ADDR", "STORE_SI"} THEN decode_j
  ELSE IF decode_state = "SET_F_ADDR" THEN (decode_si + decode_sj) % N
  ELSE decode_i

DecodeRequest ==
  [address |-> s_mem_addr,
   data    |-> IF decode_state = "STORE_SJ" THEN decode_sj ELSE decode_si,
   wren    |-> decode_state \in {"STORE_SI", "STORE_SJ"}]

(* UPDATE_K ends the run at the last index: k == 31 for 32 bytes. *)
DecodeLastIndex == L - 1

DecodeSuccessor(start) ==
  CASE decode_state = "IDLE"            -> IF start THEN "UPDATE_I" ELSE "IDLE"
    [] decode_state = "UPDATE_I"        -> "SET_SI_ADDR"
    [] decode_state = "SET_SI_ADDR"     -> "READ_SI"
    [] decode_state = "READ_SI"         -> "UPDATE_J"
    [] decode_state = "UPDATE_J"        -> "SET_SJ_ADDR"
    [] decode_state = "SET_SJ_ADDR"     -> "READ_SJ"
    [] decode_state = "READ_SJ"         -> "STORE_SI"
    [] decode_state = "STORE_SI"        -> "STORE_SJ"
    [] decode_state = "STORE_SJ"        -> "SET_F_ADDR"
    [] decode_state = "SET_F_ADDR"      -> "READ_F"
    [] decode_state = "READ_F"          -> "STORE_DECRYPTED"
    [] decode_state = "STORE_DECRYPTED" -> "UPDATE_K"
    [] decode_state = "UPDATE_K"        -> IF decode_k = DecodeLastIndex THEN "FINISH"
                                           ELSE "UPDATE_I"
    [] decode_state = "FINISH"          -> "IDLE"

DecodeI(reset) ==
  decode_i' = IF reset \/ decode_state = "FINISH" THEN 0
              ELSE IF decode_state = "UPDATE_I" THEN (decode_i + 1) % N
              ELSE decode_i

DecodeJ(reset) ==
  decode_j' = IF reset \/ decode_state = "FINISH" THEN 0
              ELSE IF decode_state = "UPDATE_J" THEN (decode_j + decode_si) % N
              ELSE decode_j

DecodeK(reset) ==
  decode_k' = IF reset \/ decode_state = "FINISH" THEN 0
              ELSE IF decode_state = "UPDATE_K" THEN (decode_k + 1) % L
              ELSE decode_k

(* si, sj and f have an enable and no reset. *)
DecodeReads(q) ==
  /\ decode_si' = IF decode_state = "READ_SI" THEN q ELSE decode_si
  /\ decode_sj' = IF decode_state = "READ_SJ" THEN q ELSE decode_sj
  /\ decode_f'  = IF decode_state = "READ_F" THEN q ELSE decode_f

DecodeStep(reset, start, q) ==
  /\ decode_state' = IF reset THEN "IDLE" ELSE DecodeSuccessor(start)
  /\ DecodeI(reset)
  /\ DecodeJ(reset)
  /\ DecodeK(reset)
  /\ DecodeReads(q)
=============================================================================
