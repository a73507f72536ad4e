---------------------------- MODULE Player_proofs ----------------------------
(***************************************************************************)
(* What holds of the player for every song, set of keys and depth of the   *)
(* flash's queue: types, that an answered word is the one asked for, and   *)
(* that a press of R is not forgotten.                                     *)
(***************************************************************************)
EXTENDS Player, SequenceTheorems, TLAPS

(* The last element of a queue outlives its head.                          *)
LEMMA LastOfTail ==
  ASSUME NEW q \in Seq(Address), q # <<>>
  PROVE  /\ Tail(q) \in Seq(Address) /\ Head(q) \in Address
         /\ Len(Tail(q)) = Len(q) - 1 /\ Len(q) \in Nat \ {0}
         /\ Tail(q) = <<>> => Head(q) = q[Len(q)]
         /\ Tail(q) # <<>> => Tail(q)[Len(Tail(q))] = q[Len(q)]
<1>1. /\ Tail(q) \in Seq(Address) /\ Head(q) \in Address
      /\ Len(Tail(q)) = Len(q) - 1
      /\ \A i \in 1 .. Len(Tail(q)) : Tail(q)[i] = q[i + 1]
  BY HeadTailProperties
<1>2. Len(q) \in Nat \ {0} /\ Head(q) = q[1]
  BY EmptySeq
<1>3. Tail(q) = <<>> => Len(q) = 1
  <2>1. \A t \in Seq(Address) : t = <<>> => Len(t) = 0
    BY EmptySeq, Zenon
  <2>2. Tail(q) = <<>> => Len(Tail(q)) = 0
    BY <1>1, <2>1, Zenon
  <2>3. \A n \in Nat \ {0} : n - 1 = 0 => n = 1
    OBVIOUS
  <2> QED
    BY <1>1, <1>2, <2>2, <2>3, Zenon
<1>4. Tail(q) # <<>> => Len(Tail(q)) \in 1 .. Len(Tail(q))
  BY <1>1, EmptySeq
<1>5. Tail(q) # <<>> => Tail(q)[Len(Tail(q))] = q[Len(q) - 1 + 1]
  BY <1>1, <1>4
<1>6. Len(q) - 1 + 1 = Len(q)
  BY <1>2
<1> QED
  BY <1>1, <1>2, <1>3, <1>5, <1>6

(* The last element of a queue that is appended to.                        *)
LEMMA LastOfAppend ==
  ASSUME NEW q \in Seq(Address), NEW e \in Address
  PROVE  /\ q \o <<e>> \in Seq(Address) /\ q \o <<e>> # <<>>
         /\ Len(q \o <<e>>) = Len(q) + 1 /\ Len(q) \in Nat
         /\ (q \o <<e>>)[Len(q) + 1] = e
<1>1. <<e>> \in Seq(Address) /\ Len(<<e>>) = 1 /\ <<e>>[1] = e
  OBVIOUS
<1>2. Len(q) \in Nat
  BY LenProperties
<1>3. /\ q \o <<e>> \in Seq(Address) /\ Len(q \o <<e>>) = Len(q) + 1
      /\ \A i \in 1 .. Len(q) + 1 :
           (q \o <<e>>)[i] = IF i <= Len(q) THEN q[i] ELSE <<e>>[i - Len(q)]
  BY <1>1, ConcatProperties
<1>4. (q \o <<e>>)[Len(q) + 1] = e
  BY <1>1, <1>2, <1>3
<1>5. q \o <<e>> # <<>>
  BY <1>2, <1>3, EmptySeq
<1> QED
  BY <1>2, <1>3, <1>4, <1>5

(* One edge of the flash: its queue stays a short queue of addresses, and  *)
(* the word last asked for is the one now accepted or the one it was.      *)
LEMMA FlashStep ==
  ASSUME NEW accept \in BOOLEAN, NEW answer \in BOOLEAN, TypeOK, Flash(accept, answer)
  PROVE  /\ flash_pending' \in Seq(Address)
         /\ Len(flash_pending') <= MaxPending
         /\ flash_readdata' \in Word
         /\ LastAsked' = IF accept THEN address ELSE LastAsked
<1> DEFINE q == flash_pending
           rest == IF answer THEN Tail(q) ELSE q
<1>1. /\ q \in Seq(Address) /\ Len(q) <= MaxPending /\ Len(q) \in Nat
      /\ address \in Address /\ flash_readdata \in Word /\ MaxPending \in Nat \ {0}
  BY PendingAssumption, LenProperties DEF TypeOK
<1>2. answer => q # <<>> /\ flash_readdata' = Head(q)
  BY DEF Flash
<1>3. ~answer => flash_readdata' = flash_readdata
  BY DEF Flash
<1>4. /\ rest \in Seq(Address) /\ Len(rest) <= Len(q) /\ Len(rest) \in Nat
      /\ flash_readdata' \in Word
  <2>1. CASE answer
    BY <1>1, <1>2, <2>1, LastOfTail DEF Word
  <2>2. CASE ~answer
    BY <1>1, <1>3, <2>2
  <2> QED
    BY <2>1, <2>2
<1>5. q' = rest \o (IF accept THEN <<address>> ELSE <<>>)
  BY DEF Flash
<1>6. CASE accept
  <2>1. q' = rest \o <<address>> /\ Len(q) < MaxPending
    BY <1>5, <1>6 DEF Flash
  <2>2. /\ q' \in Seq(Address) /\ q' # <<>> /\ Len(q') = Len(rest) + 1
        /\ q'[Len(q')] = address
    BY <1>1, <1>4, <2>1, LastOfAppend
  <2>3. Len(q') <= MaxPending
    BY <1>1, <1>4, <2>1, <2>2
  <2> QED
    BY <1>4, <1>6, <2>2, <2>3 DEF LastAsked
<1>7. CASE ~accept
  <2>1. q' = rest
    BY <1>4, <1>5, <1>7, ConcatEmptySeq
  <2>2. CASE answer
    <3>1. q' = Tail(q) /\ q # <<>>
      BY <1>2, <2>1, <2>2
    <3>2. LastAsked = q[Len(q)]
      BY <3>1 DEF LastAsked
    <3>3. LastAsked' = q[Len(q)]
      BY <1>1, <1>2, <2>2, <3>1, LastOfTail DEF LastAsked
    <3> QED
      BY <1>1, <1>4, <1>7, <2>1, <3>2, <3>3
  <2>3. CASE ~answer
    <3>1. LastAsked' = LastAsked
      BY <1>3, <2>1, <2>3 DEF LastAsked
    <3> QED
      BY <1>1, <1>4, <1>7, <2>1, <3>1
  <2> QED
    BY <2>2, <2>3
<1> QED
  BY <1>6, <1>7

-----------------------------------------------------------------------------
(* At power up nothing has been asked of the flash. *)
LEMMA InitInv == Init => IInv
<1> SUFFICES ASSUME Init PROVE IInv
  OBVIOUS
<1> USE DEF Init, SychronizerInit, FlashInit, AddressInit, KeyboardInit, EntryInit
<1>1. flash_pending \in Seq(Address) /\ Len(flash_pending) <= MaxPending
  BY PendingAssumption, EmptySeq
<1>2. TypeOK
  <2>1. {FDC_1, FDC_2, FDC_3, FDC_4} \subseteq BOOLEAN
    OBVIOUS
  <2>2. flash_state \in FlashState /\ kbd_state \in KeyboardState /\ lcd_state \in LCDState
    BY DEF FlashState, KeyboardState, LCDState
  <2>3. mac_state \in AddressState /\ address \in Address /\ flash_readdata \in Word
    BY AddressAssumption DEF AddressState, Address, Word
  <2>4. {scan_code, ascii_code} \subseteq KeyCodes \union {NoKey}
    OBVIOUS
  <2>5. {data_ready, ready_trap, clear_trap} \subseteq BOOLEAN
    OBVIOUS
  <2>6. {flash_readdatavalid, restart_owed} \subseteq BOOLEAN
    OBVIOUS
  <2> QED
    BY <1>1, <2>1, <2>2, <2>3, <2>4, <2>5, <2>6 DEF TypeOK
<1>3. FlashInStep /\ ~WordAsked
  BY DEF FlashInStep, WordAsked
<1>4. EntryInStep /\ ResetsOnlyEarly /\ OwedInStep
  BY DEF EntryInStep, ResetsOnlyEarly, ResetsNext, OwedInStep, NoKey
<1> QED
  BY <1>2, <1>3, <1>4 DEF IInv

(* The flip-flops, the modes and the keyboard: their types, whatever the   *)
(* flash does.                                                             *)
LEMMA SychronizerType ==
  ASSUME TypeOK, NEW rise \in BOOLEAN, SychronizerStep(rise)
  PROVE  {FDC_1, FDC_2, FDC_3, FDC_4}' \subseteq BOOLEAN
<1>1. {FDC_1, FDC_2, FDC_3, FDC_4} \subseteq BOOLEAN
  BY DEF TypeOK
<1>2. FDC_1' \in BOOLEAN
  BY DEF SychronizerStep
<1>3. FDC_2' \in BOOLEAN
  BY DEF SychronizerStep
<1>4. FDC_3' \in BOOLEAN /\ FDC_4' \in BOOLEAN
  BY <1>1 DEF SychronizerStep
<1> QED
  BY <1>2, <1>3, <1>4

(* A key of any kind leaves the modes among the modes. *)
LEMMA KeyboardType ==
  ASSUME TypeOK, NEW key, NEW ready, NEW done, KeyboardStep(key, ready, done)
  PROVE  kbd_state' \in KeyboardState
BY DEF TypeOK, KeyboardStep, KeyboardSuccessor, KeyboardState

(* The keyboard entry keeps its registers among the keys and states. *)
LEMMA EntryType ==
  ASSUME TypeOK,
         \/ \E saw, cleared \in BOOLEAN : EntryStep(saw, cleared)
         \/ \E key \in KeyCodes : EntryPress(key)
  PROVE  /\ {scan_code, ascii_code}' \subseteq KeyCodes \union {NoKey}
         /\ lcd_state' \in LCDState
         /\ {data_ready, ready_trap, clear_trap}' \subseteq BOOLEAN
<1>1. /\ {scan_code, ascii_code} \subseteq KeyCodes \union {NoKey}
      /\ lcd_state \in LCDState
      /\ {data_ready, ready_trap, clear_trap} \subseteq BOOLEAN
  BY DEF TypeOK
<1>2. CASE \E saw, cleared \in BOOLEAN : EntryStep(saw, cleared)
  <2>1. PICK saw \in BOOLEAN, cleared \in BOOLEAN : EntryStep(saw, cleared)
    BY <1>2
  <2>2. {scan_code, ascii_code}' \subseteq KeyCodes \union {NoKey}
    BY <1>1, <2>1 DEF EntryStep
  <2>3. lcd_state' \in LCDState
    BY <1>1, <2>1 DEF EntryStep, LCDState, LCDChain
  <2>4. data_ready' \in BOOLEAN
    BY <2>1 DEF EntryStep
  <2>5. ready_trap' \in BOOLEAN
    BY <2>1 DEF EntryStep
  <2>6. clear_trap' \in BOOLEAN
    BY <2>1 DEF EntryStep
  <2> QED
    BY <2>2, <2>3, <2>4, <2>5, <2>6
<1>3. CASE \E key \in KeyCodes : EntryPress(key)
  BY <1>1, <1>3 DEF EntryPress
<1> QED
  BY <1>2, <1>3

(* The address controller and Flash_Read: types, their keeping in step,    *)
(* and what they do to the word asked for.                                 *)
LEMMA AddressType ==
  ASSUME TypeOK, NEW tick, NEW start, NEW down, NEW reset, NEW end,
         AddressStep(tick, start, down, reset, end)
  PROVE  mac_state' \in AddressState /\ address' \in Address
<1>1. mac_state \in AddressState /\ address \in 0 .. AddressMax + 1
  BY DEF TypeOK, Address
<1>2. mac_state' \in AddressState
  BY <1>1 DEF AddressStep, AddressStates, AddressBranch, AddressState
<1>3. address' \in 0 .. AddressMax + 1
  BY <1>1, AddressAssumption DEF AddressStep, AddressMoves
<1> QED
  BY <1>2, <1>3 DEF Address

(* Flash_Read stays among its states. *)
LEMMA FlashReadType ==
  ASSUME TypeOK, NEW start, NEW read, NEW wait, NEW valid,
         FlashReadStep(start, read, wait, valid)
  PROVE  flash_state' \in FlashState
BY DEF TypeOK, FlashReadStep, FlashStarts, SlaveReady, FlashBranch, FlashState

(* An edge of the keyboard entry, a key completed or not. *)
EntryEdge ==
  \/ \E saw, cleared \in BOOLEAN : EntryStep(saw, cleared)
  \/ \E key \in KeyCodes : EntryPress(key)

(* The entry keeps in step. A key is converted as pressed, data_ready      *)
(* rises with a press only, and falls only once the clear was asked for.   *)
LEMMA EntryKeepsStep ==
  ASSUME TypeOK, EntryInStep, EntryEdge
  PROVE  /\ EntryInStep'
         /\ ascii_code' = ascii_code \/ (ascii_code' = scan_code /\ lcd_state' = "convert_to_ascii_now")
         /\ data_ready' => data_ready \/ (lcd_state' = "idle" /\ ready_trap')
         /\ data_ready => scan_code' = scan_code
         /\ data_ready /\ ~clear_trap => data_ready'
         /\ data_ready /\ ~clear_trap /\ (ready_trap \/ lcd_state = "convert_to_ascii_now")
              => ~clear_trap'
<1>1. lcd_state \in LCDState /\ {data_ready, ready_trap, clear_trap} \subseteq BOOLEAN
  BY DEF TypeOK
<1>2. CASE \E saw, cleared \in BOOLEAN : EntryStep(saw, cleared)
  <2>1. PICK saw \in BOOLEAN, cleared \in BOOLEAN : EntryStep(saw, cleared)
    BY <1>2
  <2>2. /\ saw => ready_trap /\ lcd_state = "idle"
        /\ cleared => clear_trap
        /\ lcd_state' = IF lcd_state # "idle" THEN LCDChain[lcd_state]
                        ELSE IF saw THEN "convert_to_ascii_now" ELSE "idle"
        /\ ascii_code' = IF lcd_state' = "convert_to_ascii_now" THEN scan_code ELSE ascii_code
        /\ ready_trap' = (ready_trap /\ ~saw)
        /\ clear_trap' = (lcd_state' = "clear_kbd_data" \/ (clear_trap /\ ~cleared))
        /\ data_ready' = (data_ready /\ ~cleared)
        /\ scan_code' = scan_code
    BY <2>1 DEF EntryStep, ClearsAtClear
  <2>3. EntryInStep'
    BY <1>1, <2>2 DEF EntryInStep, LCDState, LCDChain
  <2>4. ready_trap \/ lcd_state = "convert_to_ascii_now" => lcd_state' # "clear_kbd_data"
    BY <2>2 DEF EntryInStep, LCDChain
  <2> QED
    BY <1>1, <2>2, <2>3, <2>4
<1>3. CASE \E key \in KeyCodes : EntryPress(key)
  BY <1>1, <1>3 DEF EntryPress, EntryQuiet, EntryInStep
<1> QED
  BY <1>2, <1>3 DEF EntryEdge

(* A reset is entered by R alone, pressed or resumed at the edge before,   *)
(* and left by the finish of a read alone.                                 *)
LEMMA ResetEnds ==
  ASSUME TypeOK, KeyboardStep(ascii_code, data_ready, mac_finish)
  PROVE  /\ restart /\ ~mac_finish => kbd_state' \in Resetting
         /\ restart /\ mac_finish => kbd_state' \in Playing
         /\ ResetsNext => kbd_state' \in Resetting
         /\ kbd_state' \in Resetting => restart \/ ResetsNext
         /\ ascii_code = "R" => kbd_state' \notin Paused
         /\ ascii_code = "R" /\ kbd_state' \in Playing /\ data_ready => restart /\ mac_finish
  BY DEF TypeOK, KeyboardStep, KeyboardSuccessor, KeyboardState, ResetsNext, restart,
         Resetting, Playing, Paused

(* The address controller passes through a move to its finish, and then is *)
(* idle for an edge.                                                       *)
LEMMA FinishFollowsMove ==
  ASSUME TypeOK, NEW tick, NEW start, NEW down, NEW reset, NEW end,
         AddressStep(tick, start, down, reset, end)
  PROVE  /\ mac_state' = "finished" => MovesTheAddress
         /\ mac_state = "finished" => mac_state' = "idle"
         /\ mac_state = "idle" => ~MovesTheAddress
  BY DEF TypeOK, AddressStep, AddressStates, AddressBranch, AddressState, MovesTheAddress

(* One edge of all of them keeps what is known of a reset that is owed.    *)
LEMMA OwedStep ==
  ASSUME TypeOK, EntryInStep, ResetsOnlyEarly, OwedInStep, EntryEdge, Owes,
         KeyboardStep(ascii_code, data_ready, mac_finish),
         AddressStep(out_sync_sig, start_read_flash, dir, restart, flash_finish)
  PROVE  ResetsOnlyEarly' /\ OwedInStep'
<1>1. /\ restart' <=> kbd_state' \in Resetting
      /\ restart <=> kbd_state \in Resetting
      /\ mac_finish <=> mac_state = "finished"
  BY DEF restart, mac_finish
<1>2. ResetsOnlyEarly'
  <2> SUFFICES ASSUME ResetsNext', lcd_state' # "convert_to_ascii_now"
               PROVE  mac_state' = "idle" \/ (lcd_state' = "idle" /\ ready_trap')
    BY DEF ResetsOnlyEarly
  <2>1. ascii_code = "R" /\ ascii_code' = "R"
    BY EntryKeepsStep DEF ResetsNext
  <2>2. kbd_state' \in Playing /\ data_ready'
    BY <2>1, ResetEnds DEF ResetsNext
  <2>3. data_ready => mac_state = "finished"
    BY <1>1, <2>1, <2>2, ResetEnds
  <2> QED
    BY <2>2, <2>3, EntryKeepsStep, FinishFollowsMove
<1>3. ASSUME kbd_state' \in Resetting, kbd_state \notin Resetting, scan_code = "R"
      PROVE  OwedInStep'
  <2>1. ResetsNext /\ restart'
    BY <1>1, <1>3, ResetEnds
  <2>2. CASE mac_state = "idle"
    BY <2>1, <2>2, FinishFollowsMove DEF OwedInStep
  <2>3. CASE (lcd_state = "idle" /\ ready_trap) \/ lcd_state = "convert_to_ascii_now"
    <3>1. data_ready /\ ~clear_trap /\ ascii_code = "R"
      BY <2>1, <2>3 DEF EntryInStep, ResetsNext
    <3>2. data_ready' /\ ~clear_trap' /\ ascii_code' = "R" /\ scan_code' = "R"
      BY <1>3, <2>3, <3>1, EntryKeepsStep
    <3> QED
      BY <2>1, <3>2 DEF OwedInStep
  <2> QED
    BY <2>1, <2>2, <2>3 DEF ResetsOnlyEarly
<1>4. ASSUME restart_owed, ~(restart /\ MovesTheAddress)
      PROVE  OwedInStep'
  <2>1. CASE restart /\ mac_state # "finished"
    BY <1>1, <1>4, <2>1, ResetEnds, FinishFollowsMove DEF OwedInStep
  <2>2. CASE /\ restart /\ mac_state = "finished"
             /\ ascii_code = "R" /\ scan_code = "R" /\ data_ready /\ ~clear_trap
    BY <1>1, <2>2, ResetEnds, FinishFollowsMove, EntryKeepsStep DEF OwedInStep
  <2>3. CASE kbd_state \in Playing /\ mac_state = "idle" /\ ascii_code = "R" /\ data_ready
    <3>1. ResetsNext
      BY <2>3 DEF ResetsNext
    <3> QED
      BY <1>1, <2>3, <3>1, ResetEnds, FinishFollowsMove DEF OwedInStep
  <2> QED
    BY <1>4, <2>1, <2>2, <2>3 DEF OwedInStep
<1>5. restart_owed' \in BOOLEAN /\ restart_owed \in BOOLEAN
  BY DEF Owes, TypeOK
<1>6. restart_owed' => \/ restart_owed /\ ~(restart /\ MovesTheAddress)
                       \/ kbd_state' \in Resetting /\ kbd_state \notin Resetting /\ scan_code = "R"
  BY DEF Owes
<1>7. OwedInStep'
  BY <1>3, <1>4, <1>6 DEF OwedInStep
<1> QED
  BY <1>2, <1>7

(* Every edge keeps the inductive invariant of the player. *)
LEMMA StepInv == IInv /\ [Next]_vars => IInv'
<1> SUFFICES ASSUME IInv, [Next]_vars PROVE IInv'
  OBVIOUS
<1> USE DEF IInv
<1>1. CASE UNCHANGED vars
  BY <1>1 DEF vars, synchVars, entryVars, flashVars, TypeOK, FlashInStep, WordAsked, LastAsked,
     EntryInStep, ResetsOnlyEarly, ResetsNext, OwedInStep, restart, Resetting, Playing, Paused
<1>2. CASE Next
  <2>1. PICK accept \in BOOLEAN, answer \in BOOLEAN, rise \in BOOLEAN :
          /\ Edge(rise, accept, answer)
          /\ \/ \E saw, cleared \in BOOLEAN : EntryStep(saw, cleared)
             \/ \E key \in KeyCodes : EntryPress(key)
    BY <1>2 DEF Next, PlainEdge, TickEdge, KeyEdge
  <2>2. /\ FlashReadStep(start_Flash, start_Flash, ~accept, flash_readdatavalid)
        /\ AddressStep(out_sync_sig, start_read_flash, dir, restart, flash_finish)
        /\ KeyboardStep(ascii_code, data_ready, mac_finish)
        /\ Flash(accept, answer) /\ SychronizerStep(rise) /\ Owes
    BY <2>1 DEF Edge, Machines
  <2>3. TypeOK'
    <3>1. {FDC_1, FDC_2, FDC_3, FDC_4}' \subseteq BOOLEAN
      BY <2>2, SychronizerType
    <3>2. flash_state' \in FlashState
      BY <2>2, FlashReadType
    <3>3. mac_state' \in AddressState /\ address' \in Address
      BY <2>2, AddressType
    <3>4. kbd_state' \in KeyboardState
      BY <2>2, KeyboardType
    <3>5. /\ {scan_code, ascii_code}' \subseteq KeyCodes \union {NoKey}
          /\ lcd_state' \in LCDState
          /\ {data_ready, ready_trap, clear_trap}' \subseteq BOOLEAN
      BY <2>1, EntryType
    <3>6. /\ flash_pending' \in Seq(Address) /\ Len(flash_pending') <= MaxPending
          /\ flash_readdata' \in Word
      BY <2>2, FlashStep
    <3>7. flash_readdatavalid' \in BOOLEAN
      BY <2>2 DEF Flash
    <3>8. restart_owed' \in BOOLEAN
      BY <2>2 DEF Owes
    <3> QED
      BY <3>1, <3>2, <3>3, <3>4, <3>5, <3>6, <3>7, <3>8 DEF TypeOK
  <2>4. FlashInStep'
    BY <2>2 DEF FlashInStep, FlashReadStep, FlashStarts, SlaveReady, FlashBranch,
                start_Flash, flash_finish, AddressStep, AddressStates, AddressBranch
  <2>5. (WordAsked => LastAsked = address)'
    <3>1. LastAsked' = IF accept THEN address ELSE LastAsked
      BY <2>2, FlashStep
    <3>2. WordAsked' => address' = address
      BY <2>2 DEF WordAsked, AddressStep, AddressStates, AddressBranch, AddressMoves
    <3>3. WordAsked' => WordAsked \/ accept
      BY <2>2 DEF WordAsked, FlashInStep, FlashReadStep, FlashStarts, SlaveReady, FlashBranch,
                  start_Flash, flash_finish, AddressStep, AddressStates, AddressBranch
    <3> QED
      BY <3>1, <3>2, <3>3
  <2>6. EntryEdge
    BY <2>1 DEF EntryEdge
  <2>7. EntryInStep'
    BY <2>6, EntryKeepsStep
  <2>8. ResetsOnlyEarly' /\ OwedInStep'
    BY <2>2, <2>6, OwedStep
  <2> QED
    BY <2>3, <2>4, <2>5, <2>7, <2>8
<1> QED
  BY <1>1, <1>2

(* The inductive invariant of the player, for every song, key set and      *)
(* queue of the flash.                                                     *)
THEOREM InvariantHolds == Spec => []IInv
BY InitInv, StepInv, PTL DEF Spec

(* Registers and wires keep their types: the address never passes the word *)
(* after the song's last one.                                              *)
THEOREM TypeCorrect == Spec => []TypeOK
<1>1. IInv => TypeOK
  BY DEF IInv
<1> QED
  BY <1>1, InvariantHolds, PTL

(* Flash_Read is at work only for the controller's present read.           *)
THEOREM FlashKeepsStep == Spec => []FlashInStep
<1>1. IInv => FlashInStep
  BY DEF IInv
<1> QED
  BY <1>1, InvariantHolds, PTL

(* A byte put out with no read unanswered is of the word at address.       *)
THEOREM AnsweredSamplesAreRight == Spec => []AnsweredSampleIsOfAddress
<1>1. IInv => AnsweredSampleIsOfAddress
  BY DEF IInv, AnsweredSampleIsOfAddress, WordAsked, LastAsked, LoadsSample, out_Data
<1> QED
  BY <1>1, InvariantHolds, PTL

(* A press of R that put the player into reset is not forgotten before the *)
(* address has moved to the song's end, for every song and set of keys.    *)
THEOREM RestartsAreApplied == Spec => []RestartIsApplied
<1>1. IInv => RestartIsApplied
  BY DEF IInv, OwedInStep, RestartIsApplied
<1> QED
  BY <1>1, InvariantHolds, PTL
=============================================================================
