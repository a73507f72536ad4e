------------------------------- MODULE MCLab5 -------------------------------
(***************************************************************************)
(* One application of a part after the other.                              *)
(***************************************************************************)
EXTENDS Lab5, TLC

CONSTANTS u1, u2

Call(op, count, nonblock) == [op |-> op, count |-> count, nonblock |-> nonblock]
Calls(x, y) == (u1 :> x) @@ (u2 :> y)
Idle5 == [part |-> "none", freqs |-> {FreqIncrement}, calls |-> Calls({}, {}),
          sends |-> FALSE, leaves |-> FALSE, kind |-> "malloc", depth |-> MaxDepth]
UartApp(calls, sends, leaves) ==
  [Idle5 EXCEPT !.part = "uart", !.calls = calls, !.sends = sends, !.leaves = leaves]

(* A writer alone, who also closes, and a reader alone; two writers and    *)
(* two readers of whom the second does not wait, without the alarm. Then   *)
(* two users that wait, with an alarm whose flag either may consume and a  *)
(* host that may leave: a writer beside a reader, and two writers of whom  *)
(* one queues on write_lock behind the other.                              *)
WriterApp == UartApp(Calls({Call("write", 2, FALSE), Call("close", 1, FALSE)}, {}), FALSE, TRUE)
ReaderApp == UartApp(Calls({Call("read", 1, FALSE)}, {}), TRUE, TRUE)
WritersApp == UartApp(Calls({Call("write", 2, FALSE), Call("write", 1, TRUE)}, {Call("write", 1, TRUE)}), FALSE, FALSE)
ReadersApp == UartApp(Calls({Call("read", 2, FALSE)}, {Call("read", 1, TRUE)}), TRUE, FALSE)
BothApp == UartApp(Calls({Call("write", 1, FALSE)}, {Call("read", 1, FALSE)}), FALSE, TRUE)
QueueApp == UartApp(Calls({Call("write", 1, FALSE)}, {Call("write", 1, FALSE)}), FALSE, TRUE)

HeapApp == [Idle5 EXCEPT !.part = "lock"]
EnvApp == [Idle5 EXCEPT !.part = "lock", !.kind = "env"]
EnvOnceApp == [EnvApp EXCEPT !.depth = 1]
AlarmApp == [Idle5 EXCEPT !.part = "alarm"]
TasksApp == [Idle5 EXCEPT !.part = "tasks", !.freqs = {FreqMax}]

MCLab5Apps == {WriterApp, ReaderApp, WritersApp, ReadersApp, BothApp, QueueApp,
  HeapApp, EnvOnceApp, AlarmApp, TasksApp}
MCEnvApps == {EnvApp}
=============================================================================
