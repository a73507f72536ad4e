------------------------------ MODULE AltLock -------------------------------
(***************************************************************************)
(* The locks with which the C library guards its heap and its environment  *)
(* (alt_malloc_lock.c, alt_env_lock.c): a semaphore, a count of how often  *)
(* its owner has locked, and the owner's priority as its name. A task may  *)
(* lock again what it owns. The two differ in how they find that out and   *)
(* in what they protect by a critical section.                             *)
(***************************************************************************)
EXTENDS Naturals, FiniteSets

CONSTANTS
  LockTasks,    \* tasks, each standing for its priority
  Nobody,       \* the lockid -1
  MaxDepth      \* the deepest nesting; how deep a library nests is a parameter of Query

ASSUME LockAssumption == Nobody \notin LockTasks /\ MaxDepth \in Nat \ {0}

VARIABLES
  semCnt, semWaits,   \* the semaphore: its count, and who waits for it
  locks, lockid,
  locker              \* where each task is, and how deep, as history, it has locked

lockVars == <<semCnt, semWaits, locks, lockid, locker>>

LockInit ==
  /\ semCnt = 1 /\ semWaits = {}
  /\ locks = 0 /\ lockid = Nobody
  /\ locker = [t \in LockTasks |-> [pc |-> "out", depth |-> 0, mine |-> FALSE]]

LockGoto(t, pc) == locker' = [locker EXCEPT ![t].pc = pc]
Goes(t, pc, depth) == locker' = [locker EXCEPT ![t] = [locker[t] EXCEPT !.pc = pc, !.depth = depth]]
Inside(t) == Goes(t, "out", locker[t].depth + 1)
LockAt(t, pc) == locker[t].pc = pc

-----------------------------------------------------------------------------
(* OSSemQuery: a copy of the semaphore is looked at. For the heap, that it *)
(* is taken; for the environment, that somebody waits.                     *)
Query(t, kind, depth) ==
  /\ LockAt(t, "out") /\ locker[t].depth < depth
  /\ locker' = [locker EXCEPT ![t] = [locker[t] EXCEPT !.pc = "test",
       !.mine = IF kind = "malloc" THEN semCnt = 0 ELSE semWaits # {}]]
  /\ UNCHANGED <<semCnt, semWaits, locks, lockid>>

Test(t) ==
  /\ LockAt(t, "test")
  /\ IF locker[t].mine /\ lockid = t
     THEN locks' = locks + 1 /\ Inside(t)
     ELSE UNCHANGED locks /\ LockGoto(t, "pend")
  /\ UNCHANGED <<semCnt, semWaits, lockid>>

SemPend(t) ==
  /\ LockAt(t, "pend")
  /\ IF semCnt > 0
     THEN semCnt' = semCnt - 1 /\ LockGoto(t, "claim") /\ UNCHANGED semWaits
     ELSE semWaits' = semWaits \cup {t} /\ LockGoto(t, "wait") /\ UNCHANGED semCnt
  /\ UNCHANGED <<locks, lockid>>

Claim(t) ==
  /\ \/ /\ LockAt(t, "claim")
        /\ locks' = 1 /\ LockGoto(t, "name")
        /\ UNCHANGED lockid
     \/ /\ LockAt(t, "name")
        /\ lockid' = t /\ Inside(t)
        /\ UNCHANGED locks
  /\ UNCHANGED <<semCnt, semWaits>>

-----------------------------------------------------------------------------
(* The library unlocks as often as it locks. For the heap the count and    *)
(* the name change together.                                               *)
UnlockUnnamed(t, kind) ==
  /\ LockAt(t, "out") /\ locker[t].depth > 0 /\ locks > 0
  /\ locks' = locks - 1
  /\ Goes(t, IF locks > 1 THEN "out" ELSE "post", locker[t].depth - 1)
  /\ UNCHANGED <<lockid, semCnt, semWaits>>

UnlockCount(t, kind) ==
  /\ LockAt(t, "out") /\ locker[t].depth > 0 /\ locks > 0
  /\ locks' = locks - 1
  /\ lockid' = IF locks = 1 /\ kind = "malloc" THEN Nobody ELSE lockid
  /\ Goes(t, IF locks > 1 THEN "out" ELSE IF kind = "malloc" THEN "post" ELSE "forget",
             locker[t].depth - 1)
  /\ UNCHANGED <<semCnt, semWaits>>

Forget(t) ==
  /\ LockAt(t, "forget")
  /\ lockid' = Nobody
  /\ LockGoto(t, "post")
  /\ UNCHANGED <<semCnt, semWaits, locks>>

(* OSSemPost: a waiting task has the semaphore.                            *)
SemPost(t) ==
  /\ LockAt(t, "post")
  /\ \/ /\ semWaits = {}
        /\ semCnt' = semCnt + 1 /\ LockGoto(t, "out")
        /\ UNCHANGED semWaits
     \/ \E u \in semWaits :
          /\ semWaits' = semWaits \ {u}
          /\ locker' = [locker EXCEPT ![t].pc = "out", ![u].pc = "claim"]
          /\ UNCHANGED semCnt
  /\ UNCHANGED <<locks, lockid>>

Locking(t, kind, depth) ==
  \/ Query(t, kind, depth) \/ Test(t) \/ SemPend(t) \/ Claim(t)
  \/ UnlockCount(t, kind) \/ Forget(t) \/ SemPost(t)

-----------------------------------------------------------------------------
(* Who has locked is alone and may lock again: it never waits for itself,  *)
(* and its count is the one it unlocks with. The copy of the semaphore,    *)
(* the count and the name are read at three moments between which other    *)
(* tasks lock and unlock (alt_malloc_lock.c).                              *)
LockIsRecursive ==
  \A t \in LockTasks : locker[t].depth > 0 =>
    /\ \A u \in LockTasks \ {t} : locker[u].depth = 0
    /\ locker[t].pc \notin {"pend", "wait"}
    /\ locks = locker[t].depth /\ lockid = t
=============================================================================
