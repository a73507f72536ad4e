--------------------------------- MODULE RC4 ---------------------------------
(***************************************************************************)
(* What the decrypter promises: RC4 over a message, one atomic swap a      *)
(* step, with no memory latency, no registers and no states in between.    *)
(* The key is read at every step of the key schedule, because the          *)
(* decrypter reads it there. Abort is the reset button.                    *)
(***************************************************************************)
EXTENDS RC4Types

VARIABLES
  phase,    \* "idle", "schedule", "swap" (a byte is due), "emit"
  perm,     \* the permutation
  i, j,
  count,    \* bytes of the message decrypted
  plain     \* the decrypted message

vars == <<phase, perm, i, j, count, plain>>

Rest == phase' = "idle" /\ perm' = Identity /\ i' = 0 /\ j' = 0 /\ count' = 0

Init ==
  /\ phase = "idle" /\ perm = Identity
  /\ i = 0 /\ j = 0 /\ count = 0
  /\ plain = [m \in MsgIndex |-> 0]

Begin ==
  /\ phase = "idle" /\ phase' = "schedule"
  /\ UNCHANGED <<perm, i, j, count, plain>>

Schedule(key) ==
  LET next == (j + perm[i] + key[i % 3]) % N IN
  /\ phase = "schedule" /\ i < N
  /\ perm' = Swap(perm, i, next)
  /\ i' = i + 1 /\ j' = next
  /\ UNCHANGED <<phase, count, plain>>

Scheduled ==
  /\ phase = "schedule" /\ i = N
  /\ phase' = "swap" /\ i' = 0 /\ j' = 0
  /\ UNCHANGED <<perm, count, plain>>

SwapNext ==
  LET a == (i + 1) % N
      b == (j + perm[a]) % N
  IN
  /\ phase = "swap" /\ count < L
  /\ phase' = "emit" /\ i' = a /\ j' = b
  /\ perm' = Swap(perm, a, b)
  /\ UNCHANGED <<count, plain>>

Emitted ==
  [plain EXCEPT ![count] = ByteXor(perm[(perm[i] + perm[j]) % N], Encrypted[count])]

Emit ==
  /\ phase = "emit" /\ phase' = "swap"
  /\ plain' = Emitted /\ count' = count + 1
  /\ UNCHANGED <<perm, i, j>>

Finish == phase = "swap" /\ count = L /\ Rest /\ UNCHANGED plain

(* A reset may still let the byte it interrupts reach the message. *)
Abort ==
  /\ Rest
  /\ plain' = plain \/ (phase = "emit" /\ plain' = Emitted)

Next == Begin \/ (\E key \in Keys : Schedule(key)) \/ Scheduled \/ SwapNext
        \/ Emit \/ Finish \/ Abort

Spec == Init /\ [][Next]_vars
=============================================================================
