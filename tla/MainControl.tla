----------------------------- MODULE MainControl -----------------------------
(***************************************************************************)
(* decode_with_key_main_control: the sequencer that starts the three       *)
(* engines one after another and tells the memory multiplexer who owns the *)
(* working memory.                                                         *)
(***************************************************************************)
VARIABLE main_state

MainState == {"IDLE", "START_INIT", "WAIT_INIT", "START_SHUFFLE",
              "WAIT_SHUFFLE", "START_DECODE", "WAIT_DECODE"}

MainInit == main_state = "IDLE"

start_init    == main_state = "START_INIT"
start_shuffle == main_state = "START_SHUFFLE"
start_decode  == main_state = "START_DECODE"

(* state[4:3]: the owner of the memory is part of the state's encoding. *)
select_share ==
  CASE main_state \in {"START_INIT", "WAIT_INIT"}       -> "INIT"
    [] main_state \in {"START_SHUFFLE", "WAIT_SHUFFLE"} -> "SHUFFLE"
    [] main_state \in {"START_DECODE", "WAIT_DECODE"}   -> "DECODE"
    [] main_state = "IDLE"                              -> "NONE"

(* A branch of the case statement: leave `from' for `to' when cond holds. *)
MainBranch(from, cond, to) ==
  /\ main_state = from
  /\ main_state' = IF cond THEN to ELSE from

MainStep(reset, start, init_finish, shuffle_finish, decode_finish) ==
  \/ reset /\ main_state' = "IDLE"
  \/ /\ ~reset
     /\ \/ MainBranch("IDLE", start, "START_INIT")
        \/ MainBranch("START_INIT", TRUE, "WAIT_INIT")
        \/ MainBranch("WAIT_INIT", init_finish, "START_SHUFFLE")
        \/ MainBranch("START_SHUFFLE", TRUE, "WAIT_SHUFFLE")
        \/ MainBranch("WAIT_SHUFFLE", shuffle_finish, "START_DECODE")
        \/ MainBranch("START_DECODE", TRUE, "WAIT_DECODE")
        \/ MainBranch("WAIT_DECODE", decode_finish, "IDLE")
=============================================================================
