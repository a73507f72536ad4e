--------------------------- MODULE MCDecodeWithKey ---------------------------
(***************************************************************************)
(* The decrypter on a memory of four cells and a message of two bytes. The *)
(* keys differ in the bytes that i % 3 selects; the top byte is 0, as      *)
(* lab4_top wires it.                                                      *)
(***************************************************************************)
EXTENDS DecodeWithKey, Bitwise

MCXor(a, b) == a ^^ b
MCKeys == {[b \in 0 .. 2 |-> <<0, 1, 2>>[b + 1]], [b \in 0 .. 2 |-> <<0, 3, 1>>[b + 1]]}
MCEncrypted == [m \in 0 .. L - 1 |-> (2 * m + 1) % N]
=============================================================================
