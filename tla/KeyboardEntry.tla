---------------------------- MODULE KeyboardEntry ----------------------------
(***************************************************************************)
(* From a key press to key_pressed: Kbd_ctrl raises data_ready, the state  *)
(* machine of Write_Kbd_To_Scope_LCD has key2ascii convert the code and    *)
(* then clears data_ready. The two async_trap_and_reset cells on the way   *)
(* are netlists: each passes an edge on after a delay of its own.          *)
(***************************************************************************)
CONSTANT KeyCodes   \* the keys, by the character key2ascii gives

VARIABLES
  scan_code,    \* the key of the last complete PS/2 frame
  ascii_code,   \* key2ascii's register: key_pressed
  data_ready,   \* Kbd_ctrl
  lcd_state,    \* Write_Kbd_To_Scope_LCD
  ready_trap,   \* data_ready rose, the state machine has not seen it
  clear_trap    \* reset_kbd_data rose, Kbd_ctrl has not seen it

LCDState == {"init_state", "init_scope_LCD_reg", "idle", "convert_to_ascii_now",
             "LCD_enable_change_state", "LCD_byte_change_value_state",
             "clear_kbd_data", "finished"}

NoKey == "none"

EntryInit ==
  /\ scan_code = NoKey /\ ascii_code = NoKey
  /\ lcd_state = "init_state"
  /\ data_ready = FALSE /\ ready_trap = FALSE /\ clear_trap = FALSE

LCDChain == [init_state |-> "init_scope_LCD_reg",
             init_scope_LCD_reg |-> "idle",
             convert_to_ascii_now |-> "LCD_enable_change_state",
             LCD_enable_change_state |-> "LCD_byte_change_value_state",
             LCD_byte_change_value_state |-> "clear_kbd_data",
             clear_kbd_data |-> "finished",
             finished |-> "idle"]

(* Keys come milliseconds apart: the last one has been dealt with. *)
EntryQuiet == lcd_state = "idle" /\ data_ready = FALSE /\ ready_trap = FALSE /\ clear_trap = FALSE

(* A bug: the state machine clears data_ready as it starts the conversion. *)
ClearsAtConversion == lcd_state' = "convert_to_ascii_now"

ClearsAtClear == lcd_state' = "clear_kbd_data"

(* A system clock edge: saw is whether the trap shows data_ready now, and  *)
(* cleared whether the other trap's answer reaches Kbd_ctrl.               *)
EntryStep(saw, cleared) ==
  /\ saw => ready_trap /\ lcd_state = "idle"
  /\ cleared => clear_trap
  /\ lcd_state' = IF lcd_state # "idle" THEN LCDChain[lcd_state]
                  ELSE IF saw THEN "convert_to_ascii_now" ELSE "idle"
  /\ ascii_code' = IF lcd_state' = "convert_to_ascii_now" THEN scan_code ELSE ascii_code
  /\ ready_trap' = (ready_trap /\ ~saw)
  /\ clear_trap' = (ClearsAtClear \/ (clear_trap /\ ~cleared))
  /\ data_ready' = (data_ready /\ ~cleared)
  /\ UNCHANGED scan_code

(* The same edge, with a frame just complete. *)
EntryPress(key) ==
  /\ EntryQuiet
  /\ scan_code' = key /\ data_ready' = TRUE /\ ready_trap' = TRUE
  /\ UNCHANGED <<ascii_code, lcd_state, clear_trap>>
=============================================================================
