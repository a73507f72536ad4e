-------------------------------- MODULE Lab5 --------------------------------
(***************************************************************************)
(* The software of Lab 5 around the kernel, a part at a time: the driver   *)
(* of the JTAG UART, the locks of the C library, the alarms of the HAL or  *)
(* the two tasks of the application. The parts share no state; app says    *)
(* which one runs and what is asked of it.                                 *)
(***************************************************************************)
EXTENDS JtagUart, AltLock, AltAlarm, Lab5Tasks

CONSTANT Lab5Apps   \* records, see Init and the actions

(* What the parts are asked for: calls of the driver that exist and are no *)
(* longer than the longest, a lock nested once or more, a rate in range.   *)
ASSUME Lab5AppsAssumption ==
  \A x \in Lab5Apps :
    /\ \A t \in Users : \A c \in x.calls[t] :
         c.op \in {"read", "write", "close"} /\ c.count \in 0..MaxCount /\ c.nonblock \in BOOLEAN
    /\ x.depth \in 1..MaxDepth
    /\ x.freqs \subseteq FreqIncrement..FreqMax

VARIABLE app

vars == <<jtagVars, lockVars, alarmVars, lab5Vars, app>>

Init ==
  /\ app \in Lab5Apps
  /\ JtagInit
  /\ LockInit
  /\ IF app.part = "alarm" THEN AlarmInit ELSE AlarmInit /\ alt_nticks = 0
  /\ \E freq \in app.freqs : Lab5Init(freq)

-----------------------------------------------------------------------------
Runs(part) == app.part = part /\ UNCHANGED app

(* app.calls are the calls of each user of the UART.                       *)
Uart ==
  /\ Runs("uart")
  /\ \/ \E t \in Users : Moves(t) \/ \E c \in app.calls[t] : Begin(t, c.op, c.count, c.nonblock)
     \/ ISR
     \/ HostReads
     \/ app.sends /\ HostSends
     \/ app.leaves /\ (TimeoutAlarm \/ HostLeaves \/ SetTimeout)
  /\ UNCHANGED <<lockVars, alarmVars, lab5Vars>>

Library ==
  /\ Runs("lock")
  /\ \E t \in LockTasks : Locking(t, app.kind, app.depth)
  /\ UNCHANGED <<jtagVars, alarmVars, lab5Vars>>

Clock ==
  /\ Runs("alarm")
  /\ \/ \E a \in Alarms : \/ \E n \in 0..TickMod - 2 : alt_alarm_start(a, n)
                          \/ alt_alarm_stop(a)
     \/ \E R \in [Alarms -> {0} \cup Periods] : alt_tick(R)
  /\ UNCHANGED <<jtagVars, lockVars, lab5Vars>>

Application ==
  /\ Runs("tasks")
  /\ Lab5TasksNext
  /\ UNCHANGED <<jtagVars, lockVars, alarmVars>>

Next == Uart \/ Library \/ Clock \/ Application

(* A writer that is not waiting comes to run, and the alarm of the UART    *)
(* rings; where there is none, the interrupt is served and the host reads. *)
(* Of a task that only reads nothing is asked.                             *)
Fairness ==
  LET Part(A) == app.part = "uart" /\ A
  IN /\ WF_jtagVars(Part(app.leaves /\ TimeoutAlarm))
     /\ WF_jtagVars(Part(~app.leaves /\ ISR))
     /\ WF_jtagVars(Part(~app.leaves /\ HostReads))
     /\ \A t \in Users : WF_jtagVars(Part((\E c \in app.calls[t] : c.op # "read") /\ Moves(t)))

Spec == Init /\ [][Next]_vars /\ Fairness

-----------------------------------------------------------------------------
TypeOK ==
  /\ rx.in \in 0..BufLen - 1 /\ rx.out \in 0..BufLen - 1 /\ rx.next \in 0..ByteMod - 1
  /\ tx.in \in 0..BufLen - 1 /\ tx.out \in 0..BufLen - 1 /\ tx.next \in 0..ByteMod - 1
  /\ irq_enable \subseteq {"RE", "WE"} /\ events \subseteq {"READ_RDY", "WRITE_RDY", "TIMEOUT"}
  /\ host_inactive \in 0..InactiveMax /\ timeout \in JtagTimeouts
  /\ Len(hw.rx) <= Depth /\ Len(hw.tx) <= Depth
  /\ \A t \in Users : call[t].count \in 0..MaxCount /\ call[t].n \in 0..BufLen - 1
  /\ semCnt \in 0..1 /\ semWaits \subseteq LockTasks
  /\ locks \in 0..MaxDepth /\ lockid \in LockTasks \cup {Nobody}
  /\ alt_nticks \in 0..TickMod - 1 /\ alt_alarm_list \subseteq Alarms
  /\ \A a \in Alarms : alarm[a].time \in 0..TickMod - 1 /\ alarm[a].rollover \in BOOLEAN
  /\ {play_song, pause_song, stop_song} \subseteq {0, 1}
  /\ address_counter \in 0..SongSize + Batch
  /\ freq_reader \in FreqIncrement..FreqMax
  /\ task1.left \in 0..Batch /\ task1.dly \in 0..Delay1 /\ task2.dly \in 0..Delay2
  /\ fifo \in 0..FifoSize
=============================================================================
