------------------------------- MODULE OSMem --------------------------------
(***************************************************************************)
(* A memory partition (os_mem.c): blocks of one size, the free ones linked *)
(* through their own first words. Whoever holds a block may write to it.   *)
(***************************************************************************)
EXTENDS Naturals

CONSTANT OSMemNBlks   \* the blocks of the partition; addresses count in blocks

ASSUME MemAssumption == OSMemNBlks \in Nat \ {0}

VARIABLES
  OSMemFreeList,
  OSMemNFree,
  link,       \* the first word of each block
  held        \* history: the blocks that were got and not yet put

memVars == <<OSMemFreeList, OSMemNFree, link, held>>

Blocks == 1..OSMemNBlks
NoBlock == 0   \* a null pointer

(* Each block points to the one behind it, the last to none.               *)
OSMemCreate ==
  /\ OSMemFreeList = 1
  /\ OSMemNFree = OSMemNBlks
  /\ link = [b \in Blocks |-> IF b = OSMemNBlks THEN NoBlock ELSE b + 1]
  /\ held = {}

OSMemGet ==
  /\ OSMemNFree > 0
  /\ OSMemFreeList' = link[OSMemFreeList]
  /\ OSMemNFree' = OSMemNFree - 1
  /\ held' = held \cup {OSMemFreeList}
  /\ UNCHANGED link

OSMemPutUnlinked(b) ==
  /\ b \in held /\ OSMemNFree < OSMemNBlks
  /\ OSMemFreeList' = b
  /\ OSMemNFree' = OSMemNFree + 1
  /\ held' = held \ {b}
  /\ UNCHANGED link

(* A block is put back by whoever got it.                                  *)
OSMemPut(b) ==
  /\ b \in held /\ OSMemNFree < OSMemNBlks
  /\ link' = [link EXCEPT ![b] = OSMemFreeList]
  /\ OSMemFreeList' = b
  /\ OSMemNFree' = OSMemNFree + 1
  /\ held' = held \ {b}

(* The holder of a block writes its first word.                            *)
Write(b, x) ==
  /\ b \in held
  /\ link' = [link EXCEPT ![b] = x]
  /\ UNCHANGED <<OSMemFreeList, OSMemNFree, held>>

-----------------------------------------------------------------------------
(* The pointer behind the first i blocks of path.                          *)
PointerBehind(path, i) == IF i = 0 THEN OSMemFreeList ELSE link[path[i]]

(* The links lead through the blocks of path and come to an end.           *)
Linked(path) ==
  /\ \A i \in 1..OSMemNFree : path[i] = PointerBehind(path, i - 1)
  /\ PointerBehind(path, OSMemNFree) = NoBlock

(* The links lead through OSMemNFree different blocks, all that are not    *)
(* held, and come to an end there, whatever the holders write into theirs: *)
(* no block is lost or handed out twice (os_mem.c).                        *)
MemBlocksConserved ==
  \E path \in [1..OSMemNFree -> Blocks \ held] :
    /\ Linked(path)
    /\ \A b \in Blocks \ held : \E i \in 1..OSMemNFree : path[i] = b
    /\ \A i, k \in 1..OSMemNFree : path[i] = path[k] => i = k
=============================================================================
