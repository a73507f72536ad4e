------------------------------ MODULE JtagUart ------------------------------
(***************************************************************************)
(* The JTAG UART driver (altera_avalon_jtag_uart_{init,read,write,ioctl}.c *)
(* in the buffered mode of this build, with the kernel running): a ring in *)
(* each direction between the tasks and the interrupt service routine,     *)
(* event flags to wait with, and an alarm that notices a host that is      *)
(* gone. The bytes of a direction are numbered, modulo ByteMod.            *)
(***************************************************************************)
EXTENDS Naturals, Sequences, FiniteSets, FiniteSetsExt

CONSTANTS
  Users,         \* the tasks that use the device
  Watched,       \* the one of them WriteEnds is stated of
  BufLen,        \* ALTERA_AVALON_JTAG_UART_BUF_LEN
  Depth,         \* the depth of the FIFOs in the hardware
  ByteMod,       \* numbers of bytes; more than are ever on their way
  MaxCount,      \* the longest transfer of a call
  JtagTimeouts   \* what TIOCSTIMEOUT sets

ASSUME JtagAssumption ==
  /\ BufLen \in Nat \ {0, 1} /\ Depth \in Nat \ {0} /\ MaxCount \in Nat \ {0}
  /\ ByteMod \in Nat /\ ByteMod > BufLen + Depth
  /\ JtagTimeouts \subseteq Nat \ {0, 1} /\ JtagTimeouts # {}
  /\ \E last \in JtagTimeouts : \A x \in JtagTimeouts : x <= last

ASSUME WatchedAssumption == Watched \in Users

VARIABLES
  rx,             \* rx_in, rx_out, rx_buf, and the number of the next byte to be read
  tx,             \* likewise, with that of the next byte to be written
  irq_enable, host_inactive, timeout,
  events,         \* the flags that are set
  rw_lock,          \* read_lock and write_lock: who holds each
  call,           \* the call of each task
  hw              \* the FIFOs, the activity bit, whether the host is there

jtagVars == <<rx, tx, irq_enable, host_inactive, timeout, events, rw_lock, call, hw>>

Ring == [in |-> 0, out |-> 0, buf |-> [i \in 0..BufLen - 1 |-> 0], next |-> 0]
Idling == [pc |-> "idle", op |-> "read", count |-> 0, nonblock |-> FALSE, moved |-> FALSE,
           in |-> 0, out |-> 0, n |-> 0, chunk |-> <<>>, rdy |-> {}]
InactiveMax == Max(JtagTimeouts)   \* counting further changes nothing

(* altera_avalon_jtag_uart_init.                                           *)
JtagInit ==
  /\ rx = Ring /\ tx = Ring
  /\ irq_enable = {"RE"} /\ host_inactive = 0 /\ timeout \in JtagTimeouts
  /\ events = {}
  /\ rw_lock = [op \in {"read", "write"} |-> {}]
  /\ call = [t \in Users |-> Idling]
  /\ hw = [rx |-> <<>>, tx |-> <<>>, sent |-> 0, got |-> 0, ac |-> FALSE, alive |-> TRUE]

-----------------------------------------------------------------------------
Nth(first, i) == (first + i) % ByteMod
Place(i) == i % BufLen
Filled(r) == Place(r.in + BufLen - r.out)
Content(r) == [i \in 1..Filled(r) |-> r.buf[Place(r.out + i - 1)]]
Least(S) == Min(S)

(* The ring after the bytes of s went in, one by one.                      *)
PutAll(r, s) ==
  [r EXCEPT !.in = Place(@ + Len(s)),
            !.buf = [i \in 0..BufLen - 1 |->
               IF Place(i + BufLen - r.in) < Len(s) THEN s[Place(i + BufLen - r.in) + 1] ELSE @[i]]]

-----------------------------------------------------------------------------
Goto(t, pc) == call' = [call EXCEPT ![t] = IF pc = "idle" THEN Idling ELSE [call[t] EXCEPT !.pc = pc]]
At(t, op, pc) == call[t].pc = pc /\ (call[t].op = op)

(* What a task waits for when it has nothing to move.                      *)
Interest(t) == {IF call[t].op = "read" THEN "READ_RDY" ELSE "WRITE_RDY", "TIMEOUT"}

(* A call of read, write or close.                                         *)
Begin(t, op, count, nonblock) ==
  /\ call[t].pc = "idle"
  /\ call' = [call EXCEPT ![t] = [Idling EXCEPT
       !.pc = IF op = "close" THEN "close" ELSE "lock",
       !.op = op, !.count = count, !.nonblock = nonblock]]
  /\ UNCHANGED <<rx, tx, irq_enable, host_inactive, timeout, events, rw_lock, hw>>

(* read_lock and write_lock are semaphores: a task that waits is handed    *)
(* the lock by whoever lets go of it.                                      *)
Lock(t) ==
  LET op == call[t].op IN
  /\ call[t].pc = "lock"
  /\ \/ rw_lock[op] = {} /\ rw_lock' = [rw_lock EXCEPT ![op] = {t}] /\ Goto(t, "load")
     \/ rw_lock[op] # {} /\ Goto(t, "queue") /\ UNCHANGED rw_lock
  /\ UNCHANGED <<rx, tx, irq_enable, host_inactive, timeout, events, hw>>

(* The pointers are read, one of which the interrupt routine moves, and n  *)
(* bytes in a row will be copied.                                          *)
ReadRun(in, out) == IF in >= out THEN in - out ELSE BufLen - out
WriteRunFull(in, out) == IF in < out THEN (out - 1) - in ELSE BufLen - in
WriteRun(in, out) ==
  IF in < out THEN (out - 1) - in
  ELSE IF out > 0 THEN BufLen - in ELSE (BufLen - 1) - in

(* Nothing to copy: what was read before is returned, else the call waits. *)
LoadRead(t) ==
  LET c == call[t]
      n == Least({ReadRun(rx.in, rx.out), c.count})
  IN /\ At(t, "read", "load")
     /\ call' = [call EXCEPT ![t] = [call[t] EXCEPT
          !.in = rx.in, !.out = rx.out, !.n = n,
          !.pc = IF n > 0 THEN "copy" ELSE IF c.moved \/ c.nonblock THEN "unlock" ELSE "pend"]]
     /\ UNCHANGED <<rx, tx, irq_enable, host_inactive, timeout, events, rw_lock, hw>>

LoadWrite(t) ==
  LET n == Least({WriteRun(tx.in, tx.out), call[t].count}) IN
  /\ At(t, "write", "load")
  /\ call' = [call EXCEPT ![t] = [call[t] EXCEPT
       !.in = tx.in, !.n = n, !.pc = IF n > 0 THEN "copy" ELSE "enable"]]
  /\ UNCHANGED <<rx, tx, irq_enable, host_inactive, timeout, events, rw_lock, hw>>

CopyRead(t) ==
  LET c == call[t] IN
  /\ At(t, "read", "copy")
  /\ call' = [call EXCEPT ![t] = [call[t] EXCEPT
       !.chunk = [i \in 1..c.n |-> rx.buf[c.out + i - 1]], !.pc = "advance"]]
  /\ UNCHANGED <<rx, tx, irq_enable, host_inactive, timeout, events, rw_lock, hw>>

CopyWrite(t) ==
  LET c == call[t] IN
  /\ At(t, "write", "copy")
  /\ tx' = [tx EXCEPT !.buf = [i \in 0..BufLen - 1 |->
       IF i \in c.in..(c.in + c.n - 1) THEN Nth(tx.next, i - c.in) ELSE @[i]]]
  /\ Goto(t, "advance")
  /\ UNCHANGED <<rx, irq_enable, host_inactive, timeout, events, rw_lock, hw>>

(* The pointer of the other end sees the bytes only now.                   *)
AdvanceRead(t) ==
  LET c == call[t] IN
  /\ At(t, "read", "advance")
  /\ rx' = [rx EXCEPT !.out = Place(c.out + c.n), !.next = Nth(@, c.n)]
  /\ call' = [call EXCEPT ![t] = [call[t] EXCEPT
       !.count = @ - c.n, !.moved = TRUE, !.in = 0, !.out = 0, !.n = 0, !.chunk = <<>>,
       !.pc = IF c.count > c.n THEN "load" ELSE "unlock"]]
  /\ UNCHANGED <<tx, irq_enable, host_inactive, timeout, events, rw_lock, hw>>

AdvanceWrite(t) ==
  LET c == call[t] IN
  /\ At(t, "write", "advance")
  /\ tx' = [tx EXCEPT !.in = Place(c.in + c.n), !.next = Nth(@, c.n)]
  /\ call' = [call EXCEPT ![t] = [call[t] EXCEPT
       !.count = @ - c.n, !.in = 0, !.n = 0, !.pc = IF c.count > c.n THEN "load" ELSE "enable"]]
  /\ UNCHANGED <<rx, irq_enable, host_inactive, timeout, events, rw_lock, hw>>

(* Interrupts on: a write before it decides to wait, a read at its end.    *)
EnableWrite(t) ==
  LET c == call[t] IN
  /\ At(t, "write", "enable")
  /\ irq_enable' = irq_enable \cup {"WE"}
  /\ Goto(t, IF c.count > 0 /\ ~c.nonblock THEN "pend" ELSE "unlock")
  /\ UNCHANGED <<rx, tx, host_inactive, timeout, events, rw_lock, hw>>

EnableRead(t) ==
  /\ At(t, "read", "enable")
  /\ irq_enable' = irq_enable \cup {"RE"}
  /\ Goto(t, "idle")
  /\ UNCHANGED <<rx, tx, host_inactive, timeout, events, rw_lock, hw>>

(* OSFlagPend with OS_FLAG_CONSUME: flags that are set are consumed at     *)
(* once, those that end a wait when the task runs again.                   *)
Pend(t) ==
  /\ call[t].pc = "pend"
  /\ events' = events \ Interest(t)
  /\ Goto(t, IF events \cap Interest(t) = {} THEN "wait" ELSE "check")
  /\ UNCHANGED <<rx, tx, irq_enable, host_inactive, timeout, rw_lock, hw>>

Woken(t) ==
  /\ call[t].pc = "woken"
  /\ events' = events \ call[t].rdy
  /\ Goto(t, "check")
  /\ UNCHANGED <<rx, tx, irq_enable, host_inactive, timeout, rw_lock, hw>>

(* OSFlagPost: every task that waits for one of the flags is woken.        *)
WaitFor(flags) == {t \in Users : call[t].pc = "wait" /\ Interest(t) \cap flags # {}}
WokenBy(t, now) == [call[t] EXCEPT !.pc = "woken", !.rdy = now \cap Interest(t)]

FlagPostFirst(flags) ==
  /\ events' = events \cup flags
  /\ \/ WaitFor(flags) = {} /\ UNCHANGED call
     \/ \E t \in WaitFor(flags) :
          call' = [call EXCEPT ![t] = WokenBy(t, events \cup flags)]

FlagPost(flags) ==
  /\ events' = events \cup flags
  /\ call' = [t \in Users |->
       IF t \in WaitFor(flags) THEN WokenBy(t, events \cup flags) ELSE call[t]]

(* Nothing new for a read, or no host for a write: the call gives up.      *)
Check(t) ==
  LET givesUp == IF call[t].op = "read" THEN call[t].in = rx.in ELSE host_inactive > 0 IN
  /\ call[t].pc = "check"
  /\ Goto(t, IF givesUp THEN "unlock" ELSE "load")
  /\ UNCHANGED <<rx, tx, irq_enable, host_inactive, timeout, events, rw_lock, hw>>

Unlock(t) ==
  LET c == call[t]
      queue == {u \in Users : At(u, c.op, "queue")}
      then == IF c.op = "read" /\ c.moved THEN [c EXCEPT !.pc = "enable"] ELSE Idling
  IN /\ c.pc = "unlock"
     /\ \/ /\ queue = {}
           /\ rw_lock' = [rw_lock EXCEPT ![c.op] = {}]
           /\ call' = [call EXCEPT ![t] = then]
        \/ \E u \in queue :
             /\ rw_lock' = [rw_lock EXCEPT ![c.op] = {u}]
             /\ call' = [call EXCEPT ![t] = then, ![u].pc = "load"]
     /\ UNCHANGED <<rx, tx, irq_enable, host_inactive, timeout, events, hw>>

(* close waits for the transmit ring, unless the host is gone.             *)
Close(t) ==
  /\ call[t].pc = "close"
  /\ tx.in = tx.out \/ host_inactive >= timeout \/ call[t].nonblock
  /\ Goto(t, "idle")
  /\ UNCHANGED <<rx, tx, irq_enable, host_inactive, timeout, events, rw_lock, hw>>

(* ioctl TIOCSTIMEOUT.                                                     *)
SetTimeout ==
  /\ timeout' \in JtagTimeouts
  /\ UNCHANGED <<rx, tx, irq_enable, host_inactive, events, rw_lock, call, hw>>

-----------------------------------------------------------------------------
ReadPending == "RE" \in irq_enable /\ hw.rx # <<>>
WritePending == "WE" \in irq_enable /\ Len(hw.tx) < Depth

(* One turn of the loop of altera_avalon_jtag_uart_irq. Bytes are fetched  *)
(* until the ring is full, when the interrupt is turned off until a read,  *)
(* or the FIFO empty; bytes are sent while there is space, and with space  *)
(* left the interrupt is turned off until a write.                         *)
ISR ==
  LET n == IF ReadPending THEN Least({Len(hw.rx), (BufLen - 1) - Filled(rx)}) ELSE 0
      space == Depth - Len(hw.tx)
      m == IF WritePending THEN Least({space, Filled(tx)}) ELSE 0
  IN /\ ReadPending \/ WritePending
     /\ rx' = PutAll(rx, SubSeq(hw.rx, 1, n))
     /\ tx' = [tx EXCEPT !.out = Place(@ + m)]
     /\ hw' = [hw EXCEPT !.rx = SubSeq(@, n + 1, Len(@)),
                         !.tx = @ \o SubSeq(Content(tx), 1, m)]
     /\ irq_enable' = irq_enable \ ({x \in {"RE"} : ReadPending /\ n < Len(hw.rx)}
                                 \cup {x \in {"WE"} : WritePending /\ m < space})
     /\ FlagPost({x \in {"READ_RDY"} : n > 0} \cup {x \in {"WRITE_RDY"} : m > 0})
     /\ UNCHANGED <<host_inactive, timeout, rw_lock>>

(* altera_avalon_jtag_uart_timeout, once a second. The code's INT_MAX is   *)
(* out of reach.                                                           *)
TimeoutAlarm ==
  LET inactive == Least({host_inactive + 1, InactiveMax}) IN
  /\ \/ /\ hw.ac
        /\ hw' = [hw EXCEPT !.ac = FALSE]
        /\ host_inactive' = 0
        /\ UNCHANGED <<events, call>>
     \/ /\ ~hw.ac
        /\ host_inactive' = inactive
        /\ FlagPost({x \in {"TIMEOUT"} : inactive >= timeout})
        /\ UNCHANGED hw
  /\ UNCHANGED <<rx, tx, irq_enable, timeout, rw_lock>>

(* The host, at the other end of the cable.                                *)
HostSends ==
  /\ hw.alive /\ Len(hw.rx) < Depth
  /\ hw' = [hw EXCEPT !.rx = Append(@, hw.sent), !.sent = Nth(@, 1), !.ac = TRUE]
  /\ UNCHANGED <<rx, tx, irq_enable, host_inactive, timeout, events, rw_lock, call>>

HostReads ==
  /\ hw.alive /\ hw.tx # <<>>
  /\ hw' = [hw EXCEPT !.tx = Tail(@), !.got = Nth(@, 1), !.ac = TRUE]
  /\ UNCHANGED <<rx, tx, irq_enable, host_inactive, timeout, events, rw_lock, call>>

HostLeaves ==
  /\ hw.alive
  /\ hw' = [hw EXCEPT !.alive = FALSE]
  /\ UNCHANGED <<rx, tx, irq_enable, host_inactive, timeout, events, rw_lock, call>>

-----------------------------------------------------------------------------
Moves(t) ==
  \/ Lock(t) \/ LoadRead(t) \/ LoadWrite(t) \/ CopyRead(t) \/ CopyWrite(t)
  \/ AdvanceRead(t) \/ AdvanceWrite(t) \/ EnableRead(t) \/ EnableWrite(t)
  \/ Pend(t) \/ Woken(t) \/ Check(t) \/ Unlock(t) \/ Close(t)

-----------------------------------------------------------------------------
Between(first, last) == [i \in 1..((last + ByteMod) - first) % ByteMod |-> Nth(first, i - 1)]

(* What is on its way in a direction is exactly what its one end gave and  *)
(* its other end has not taken, in order, and what a read copied is what   *)
(* it takes: no step of the interrupt routine between two of a task's, and *)
(* no second task, loses, repeats or swaps a byte                          *)
(* (altera_avalon_jtag_uart_{init,read,write}.c).                          *)
BytesInOrder ==
  /\ Content(rx) \o hw.rx = Between(rx.next, hw.sent)
  /\ hw.tx \o Content(tx) = Between(hw.got, tx.next)
  /\ \A t \in Users : At(t, "read", "advance") =>
       call[t].chunk = SubSeq(Content(rx), 1, call[t].n)

(* A write or a close ends: the space it waits for is announced to it, or  *)
(* that the host is gone. A reader beside it consumes the same TIMEOUT,    *)
(* flags of an earlier wait may still be set, and on write_lock another    *)
(* writer may be in front that itself waits for space. (A close, which     *)
(* polls for an empty ring, ends if nobody else goes on writing.) Watched  *)
(* is whichever task one likes (altera_avalon_jtag_uart_{write,init}.c).   *)
WriteEnds ==
  (call[Watched].pc # "idle" /\ call[Watched].op # "read") ~> (call[Watched].pc = "idle")
=============================================================================
