--------------------------- MODULE KeyboardControl ---------------------------
(***************************************************************************)
(* Keyboard_Control: the player's modes. key_pressed is the last converted *)
(* key and stays until the next one; only R in a playing mode also asks    *)
(* for kbd_data_ready.                                                     *)
(***************************************************************************)
VARIABLE kbd_state

KeyboardState == {"check_key", "Forward", "Forward_reset", "Forward_pause",
                  "Backward", "Backward_reset", "Backward_pause", "secret_s"}

KeyboardInit == kbd_state = "check_key"

Resetting == {"Forward_reset", "Backward_reset"}
Playing   == {"Forward", "Backward"}
Paused    == {"Forward_pause", "Backward_pause"}

(* The state's bits: reset, dir, play. *)
restart          == kbd_state \in Resetting
dir              == kbd_state \in {"Backward", "Backward_reset"}

(* A bug: a reset does not ask for the flash to be read. *)
OnlyPlayingReads == kbd_state \in Playing

start_read_flash == kbd_state \in Playing \union Resetting

(* The first branch whose key is down, or the same state. *)
KeyboardSuccessor(key, ready, flash_read_finished) ==
  CASE kbd_state = "check_key" ->
         IF key = "E" THEN "Forward" ELSE IF key = "B" THEN "Backward"
         ELSE IF key = "S" THEN "secret_s" ELSE "check_key"
    [] kbd_state = "Forward" ->
         IF key = "R" /\ ready THEN "Forward_reset" ELSE IF key = "B" THEN "Backward"
         ELSE IF key = "D" THEN "Forward_pause" ELSE "Forward"
    [] kbd_state = "Forward_reset" ->
         IF flash_read_finished THEN "Forward" ELSE "Forward_reset"
    [] kbd_state = "Forward_pause" ->
         IF key = "R" THEN "Forward_reset" ELSE IF key = "E" THEN "Forward"
         ELSE IF key = "B" THEN "Backward_pause" ELSE "Forward_pause"
    [] kbd_state = "Backward" ->
         IF key = "R" /\ ready THEN "Backward_reset" ELSE IF key = "D" THEN "Backward_pause"
         ELSE IF key = "F" THEN "Forward" ELSE "Backward"
    [] kbd_state = "Backward_reset" ->
         IF flash_read_finished THEN "Backward" ELSE "Backward_reset"
    [] kbd_state = "Backward_pause" ->
         IF key = "R" THEN "Backward_reset" ELSE IF key = "E" THEN "Backward"
         ELSE IF key = "F" THEN "Forward_pause" ELSE "Backward_pause"
    [] kbd_state = "secret_s" -> IF key = "R" THEN "check_key" ELSE "secret_s"

KeyboardStep(key, ready, flash_read_finished) ==
  kbd_state' = KeyboardSuccessor(key, ready, flash_read_finished)
=============================================================================
