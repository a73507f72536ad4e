------------------------------ MODULE RC4Types ------------------------------
(***************************************************************************)
(* What the modules of the Lab 4 decrypter share: the widths of its        *)
(* registers, the key, the message ROM and the request each engine drives  *)
(* towards the working memory.                                             *)
(***************************************************************************)
EXTENDS Integers

CONSTANTS
  N,          \* cells of the working memory: 256 in the code; a byte is 0..N-1
  L,          \* bytes of the message: 32 in the code
  Keys,       \* the values secret_key may take
  Encrypted,  \* the contents of Encryp_Message_ROM
  ByteXor(_, _) \* the ^ of the code, on bytes

Byte == 0 .. N - 1
MsgIndex == 0 .. L - 1

(* secret_key[23:16], [15:8] and [7:0], as the code indexes them: by i % 3. *)
Key == [0 .. 2 -> Byte]

ASSUME SizeAssumption == N \in Nat \ {0} /\ L \in Nat \ {0}
ASSUME KeysAssumption == Keys \subseteq Key /\ Keys # {}
ASSUME MessageAssumption == Encrypted \in [MsgIndex -> Byte]
ASSUME XorAssumption == \A a, b \in Byte : ByteXor(a, b) \in Byte

Identity == [a \in Byte |-> a]

Swap(f, a, b) == [f EXCEPT ![a] = f[b], ![b] = f[a]]

Permutation(f) == \A a, b \in Byte : f[a] = f[b] => a = b

(* One engine's wires towards the working memory. *)
Request == [address : Byte, data : Byte, wren : BOOLEAN]
=============================================================================
