------------------------------- MODULE Player --------------------------------
(***************************************************************************)
(* The music player of Labs 2 and 3 as simple_ipod_solution wires it: the  *)
(* keys choose a mode, the address controller reads words of the flash and *)
(* gives two bytes of each out at the sample clock. Every register is      *)
(* clocked by CLK_50M and a step is one edge of it.                        *)
(***************************************************************************)
EXTENDS Sychronizer, FlashRead, MemoryAddressControl, KeyboardControl, KeyboardEntry,
        Sequences

CONSTANT MaxPending   \* accepted reads the flash holds before it asks to wait

ASSUME PendingAssumption == MaxPending \in Nat \ {0}

VARIABLES
  flash_pending,         \* the addresses accepted and not yet answered
  flash_readdata,        \* flash_mem_readdata, held until the next answer
  flash_readdatavalid,
  restart_owed           \* R has put the player into reset, the address has not moved yet

synchVars == <<FDC_1, FDC_2, FDC_3, FDC_4>>
entryVars == <<scan_code, ascii_code, data_ready, lcd_state, ready_trap, clear_trap>>
flashVars == <<flash_pending, flash_readdata, flash_readdatavalid>>
vars == <<synchVars, flash_state, mac_state, address, kbd_state, entryVars,
          flashVars, restart_owed>>

Init ==
  /\ SychronizerInit /\ FlashInit /\ AddressInit /\ KeyboardInit /\ EntryInit
  /\ flash_pending = <<>> /\ flash_readdata = NoWord /\ flash_readdatavalid = FALSE
  /\ restart_owed = FALSE

-----------------------------------------------------------------------------
(* The flash controller: reads are answered in order, one at most every    *)
(* other edge, and the address is taken with the read.                     *)
Flash(accept, answer) ==
  /\ accept => start_Flash /\ Len(flash_pending) < MaxPending
  /\ answer => flash_pending # <<>> /\ ~flash_readdatavalid
  /\ flash_pending' = (IF answer THEN Tail(flash_pending) ELSE flash_pending)
                        \o (IF accept THEN <<address>> ELSE <<>>)
  /\ flash_readdatavalid' = answer
  /\ flash_readdata' = IF answer THEN Head(flash_pending) ELSE flash_readdata

(* The four state machines of the player at one edge.                      *)
Machines(accept) ==
  /\ FlashReadStep(start_Flash, start_Flash, ~accept, flash_readdatavalid)
  /\ AddressStep(out_sync_sig, start_read_flash, dir, restart, flash_finish)
  /\ KeyboardStep(ascii_code, data_ready, mac_finish)

MovesTheAddress == mac_state \in {"inc_addr", "dec_addr"}

Owes ==
  restart_owed' =
    \/ restart_owed /\ ~(restart /\ MovesTheAddress)
    \/ kbd_state' \in Resetting /\ kbd_state \notin Resetting /\ scan_code = "R"

(* The sample clock is far slower than CLK_50M: its rise finds the         *)
(* flip-flops low.                                                         *)
SychronizerQuiet == ~(FDC_1 \/ FDC_2 \/ FDC_3 \/ FDC_4)

Edge(rise, accept, answer) ==
  /\ SychronizerStep(rise)
  /\ Flash(accept, answer)
  /\ Machines(accept)
  /\ Owes

(* An edge at which no key is completed, and one at which a key is.        *)
PlainEdge(rise, accept, answer) ==
  /\ Edge(rise, accept, answer)
  /\ \E saw, cleared \in BOOLEAN : EntryStep(saw, cleared)

KeyEdge(key, accept, answer) ==
  /\ Edge(FALSE, accept, answer)
  /\ EntryPress(key)

TickEdge(accept, answer) == SychronizerQuiet /\ PlainEdge(TRUE, accept, answer)

Next ==
  \E accept, answer \in BOOLEAN :
    \/ PlainEdge(FALSE, accept, answer)
    \/ TickEdge(accept, answer)
    \/ \E key \in KeyCodes : KeyEdge(key, accept, answer)

Spec == Init /\ [][Next]_vars

(* The clock runs, the sample clock ticks, and the flash neither asks to   *)
(* wait nor holds an answer back for ever.                                 *)
Fairness ==
  /\ WF_vars(Next)
  /\ WF_vars(\E accept, answer \in BOOLEAN : TickEdge(accept, answer))
  /\ SF_vars(\E rise, answer \in BOOLEAN : PlainEdge(rise, TRUE, answer))
  /\ SF_vars(\E rise, accept \in BOOLEAN : PlainEdge(rise, accept, TRUE))

FairSpec == Spec /\ Fairness

-----------------------------------------------------------------------------
(* Every register and wire has its type.                                   *)
TypeOK ==
  /\ {FDC_1, FDC_2, FDC_3, FDC_4} \subseteq BOOLEAN
  /\ flash_state \in FlashState
  /\ mac_state \in AddressState /\ address \in Address
  /\ kbd_state \in KeyboardState
  /\ {scan_code, ascii_code} \subseteq KeyCodes \union {NoKey}
  /\ lcd_state \in LCDState
  /\ {data_ready, ready_trap, clear_trap} \subseteq BOOLEAN
  /\ flash_pending \in Seq(Address) /\ Len(flash_pending) <= MaxPending
  /\ flash_readdata \in Word
  /\ {flash_readdatavalid, restart_owed} \subseteq BOOLEAN

(* Flash_Read works only for a controller that waits in readFlash, so its  *)
(* finish can not be taken for that of a later read.                       *)
FlashInStep == flash_state # "idle" => mac_state = "readFlash"

(* Once the flash has answered all it accepted, a byte put out is of the   *)
(* word at address: the handshake on wait_Request has made the flash take  *)
(* that address, and it has not moved since.                               *)
AnsweredSampleIsOfAddress ==
  LoadsSample /\ flash_pending = <<>> => out_Data(dir, flash_readdata).word = address

(* The word last asked for is that at address from the moment the flash    *)
(* has taken the read until the address moves.                             *)
LastAsked ==
  IF flash_pending = <<>> THEN flash_readdata ELSE flash_pending[Len(flash_pending)]

WordAsked ==
  \/ mac_state = "readFlash" /\ flash_state \in {"wait_read", "finished"}
  \/ mac_state \in {"get_data_1", "read_data_1", "get_data_2", "read_data_2"}

(* The keyboard entry from the press of a key to the clear of data_ready:  *)
(* the trap shows a press that is still there, and until the clear is asked*)
(* for the key converted is the one pressed.                               *)
EntryInStep ==
  /\ ready_trap => lcd_state = "idle" /\ data_ready /\ ~clear_trap
  /\ lcd_state \in {"convert_to_ascii_now", "LCD_enable_change_state",
                    "LCD_byte_change_value_state"}
       => data_ready /\ ~clear_trap /\ ascii_code = scan_code

(* R is about to put the player into reset: the key was pressed or         *)
(* converted an edge ago, or a reset has just ended.                       *)
ResetsNext ==
  ascii_code = "R" /\ (kbd_state \in Paused \/ (kbd_state \in Playing /\ data_ready))

ResetsOnlyEarly ==
  ResetsNext => \/ mac_state = "idle"
                \/ lcd_state = "idle" /\ ready_trap
                \/ lcd_state = "convert_to_ascii_now"

(* A reset that is owed sees the address move, unless the finish of the    *)
(* read before ends it at once: then R resets again two edges later.       *)
OwedInStep ==
  restart_owed =>
    \/ restart /\ mac_state # "finished"
    \/ /\ restart /\ mac_state = "finished"
       /\ ascii_code = "R" /\ scan_code = "R" /\ data_ready /\ ~clear_trap
    \/ kbd_state \in Playing /\ mac_state = "idle" /\ ascii_code = "R" /\ data_ready

IInv ==
  /\ TypeOK
  /\ FlashInStep
  /\ WordAsked => LastAsked = address
  /\ EntryInStep
  /\ ResetsOnlyEarly
  /\ OwedInStep

(* A byte put out is always of the word at address, as the comment of      *)
(* readFlash has it: "finished data reading process".                      *)
SampleIsOfAddress == LoadsSample => out_Data(dir, flash_readdata).word = address

(* A press of R that put the player into reset is not forgotten: until the *)
(* address has moved to the song's end, either restart is still up, or the *)
(* playing mode has been resumed with R and kbd_data_ready both still there*)
(* to reset again.                                                         *)
RestartIsApplied ==
  restart_owed =>
    restart \/ (kbd_state \in Playing /\ ascii_code = "R" /\ data_ready)

(* The address stays in the song: "if already reach the top, go back to    *)
(* start".                                                                 *)
AddressInSong == address <= AddressMax

(* The song restarts for the key R alone: "R -- Replay", "Press R".        *)
RestartOnlyForR ==
  [][kbd_state \notin Resetting /\ kbd_state' \in Resetting => scan_code = "R"]_vars

(* The second byte waits for a pulse of its own: "wait until the           *)
(* sychronized clock start to read data again". FDC_4 is the pulse one     *)
(* edge late, so that it is low in the first cycle of a pulse.             *)
SecondByteWaits ==
  [][mac_state = "get_data_2" /\ mac_state' = "read_data_2" => ~FDC_4]_vars

(* No reset lasts for ever: the read it waits for is made, its two bytes   *)
(* find their pulses and finish comes back.                                *)
EveryResetEnds == kbd_state \in Resetting ~> kbd_state \notin Resetting
=============================================================================
