---------------------------- MODULE RC4Reference ----------------------------
(***************************************************************************)
(* RC4 as a program on an array, the definition the hardware is compared   *)
(* with (decode_script.py holds its key schedule as a loop).               *)
(***************************************************************************)
EXTENDS RC4Types

(* Round n of the key schedule, and s and j before round n.                *)
KeyRound(old, n, key) ==
  LET next == (old.j + old.s[n] + key[n % 3]) % N
  IN  [s |-> Swap(old.s, n, next), j |-> next]

KeyRounds(key) ==
  LET before[n \in 0 .. N] ==
        IF n = 0 THEN [s |-> Identity, j |-> 0] ELSE KeyRound(before[n - 1], n - 1, key)
  IN  before

KeySchedule(key) == KeyRounds(key)[N].s

(* A round of the keystream, the state after n of them, and the byte that  *)
(* a round gives.                                                          *)
StreamRound(old) ==
  LET a == (old.i + 1) % N
      b == (old.j + old.s[a]) % N
  IN  [s |-> Swap(old.s, a, b), i |-> a, j |-> b]

StreamRounds(key) ==
  LET after[n \in 0 .. L] ==
        IF n = 0 THEN [s |-> KeySchedule(key), i |-> 0, j |-> 0] ELSE StreamRound(after[n - 1])
  IN  after

StreamByte(r) == r.s[(r.s[r.i] + r.s[r.j]) % N]

Decrypted(key) ==
  LET rounds == StreamRounds(key)
  IN  [m \in MsgIndex |-> ByteXor(StreamByte(rounds[m + 1]), Encrypted[m])]
=============================================================================
