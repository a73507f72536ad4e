------------------------------ MODULE MemoryInit ------------------------------
(***************************************************************************)
(* s_memory_init: writes counter into cell counter while in START. A reset *)
(* leaves the counter where it is.                                         *)
(***************************************************************************)
EXTENDS RC4Types

VARIABLES init_state, counter

InitState == {"IDLE", "START"}

InitInit == init_state = "IDLE" /\ counter = 0

(* A bug: finish is high while the memory is still being written. *)
InitFinishAlways == init_state \in InitState

init_finish == init_state = "IDLE"

InitRequest == [address |-> counter, data |-> counter, wren |-> init_state = "START"]

(* A bug: the counter does not wrap to 0 after the last cell. *)
InitCounterWrapsLate(reset) ==
  counter' = IF init_state # "START" \/ reset \/ counter = N - 1 THEN counter
             ELSE counter + 1

(* A bug: the counter is a bit wider than the address. *)
InitCounterTooWide(reset) ==
  counter' = IF init_state # "START" \/ reset THEN counter ELSE counter + 1

(* The counter moves only in START, and a reset there wins over it. *)
InitCounter(reset) ==
  counter' = IF init_state # "START" \/ reset THEN counter
             ELSE IF counter = N - 1 THEN 0 ELSE counter + 1

InitStep(reset, start) ==
  /\ init_state' = IF reset THEN "IDLE"
                   ELSE IF init_state = "IDLE" /\ start THEN "START"
                   ELSE IF init_state = "START" /\ counter = N - 1 THEN "IDLE"
                   ELSE init_state
  /\ InitCounter(reset)
=============================================================================
