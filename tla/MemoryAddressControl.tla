------------------------- MODULE MemoryAddressControl -------------------------
(***************************************************************************)
(* Memory_Address_Control: reads the word at address from the flash, gives *)
(* out two of its bytes and moves the address. A word of the song is named *)
(* by its address, and a byte of it by the half it lies in.                *)
(***************************************************************************)
EXTENDS Integers

CONSTANTS
  AddressMax,   \* address_max: the last word of the song
  NoWord        \* what the flash shows before its first answer

ASSUME AddressAssumption == AddressMax \in Nat

VARIABLES
  mac_state,    \* state
  address

AddressState == {"idle", "readFlash", "get_data_1", "read_data_1", "get_data_2",
                 "read_data_2", "checkInc", "inc_addr", "dec_addr", "finished"}

(* 23 bits hold more than the song; the increment passes its end by one.   *)
Address == 0 .. AddressMax + 1
Word == Address \union {NoWord}

AddressInit == mac_state = "idle" /\ address = 0

start_Flash    == mac_state = "readFlash"
mac_finish     == mac_state = "finished"

AddressBranch(from, cond, to) ==
  /\ mac_state = from
  /\ mac_state' = IF cond THEN to ELSE from

AddressStates(tick, start, dir, end_Flash) ==
  \/ AddressBranch("idle", start, "readFlash")
  \/ AddressBranch("readFlash", end_Flash, "get_data_1")
  \/ AddressBranch("get_data_1", tick, "read_data_1")
  \/ AddressBranch("read_data_1", TRUE, "get_data_2")
  \/ AddressBranch("get_data_2", tick, "read_data_2")
  \/ AddressBranch("read_data_2", TRUE, "checkInc")
  \/ mac_state = "checkInc" /\ mac_state' = IF dir THEN "dec_addr" ELSE "inc_addr"
  \/ AddressBranch("inc_addr", TRUE, "finished")
  \/ AddressBranch("dec_addr", TRUE, "finished")
  \/ AddressBranch("finished", TRUE, "idle")

(* The edge that ends a read_data state loads out_Data, the register of    *)
(* the byte in play; nothing in the player reads it. The first byte out is *)
(* the low one forwards and the high one backwards.                        *)
LoadsSample == mac_state \in {"read_data_1", "read_data_2"}

out_Data(dir, song_Data) ==
  [word |-> song_Data, half |-> IF dir = (mac_state = "read_data_1") THEN "high" ELSE "low"]

(* Bugs: the address moves while the word is in use; the decrement never   *)
(* wraps.                                                                  *)
AddressMovesEarly(restart) ==
  address' = IF mac_state = "get_data_1" /\ address < AddressMax THEN address + 1 ELSE address

AddressRunsUnder(restart) ==
  address' =
    IF mac_state = "dec_addr" THEN IF restart THEN AddressMax ELSE address - 1 ELSE address

(* The test of the increment is on the old address: it lets address_max    *)
(* through and catches it one word later.                                  *)
AddressMoves(restart) ==
  address' =
    IF mac_state = "inc_addr"
    THEN IF restart \/ address > AddressMax THEN 0 ELSE address + 1
    ELSE IF mac_state = "dec_addr"
    THEN IF restart \/ address = 0 THEN AddressMax ELSE address - 1
    ELSE address

AddressStep(tick, start, dir, restart, end_Flash) ==
  /\ AddressStates(tick, start, dir, end_Flash)
  /\ AddressMoves(restart)
=============================================================================
