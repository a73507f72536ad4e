------------------------------ MODULE AltAlarm ------------------------------
(***************************************************************************)
(* The system clock of the HAL and its alarms (alt_tick.c,                 *)
(* alt_alarm_start.c): times are numbers of ticks modulo TickMod, 2^32 in  *)
(* the code, and an alarm beyond the wrap of the clock is marked. The      *)
(* interrupt is off while the list is changed or walked through.           *)
(***************************************************************************)
EXTENDS Naturals

CONSTANTS
  Alarms,
  TickMod

ASSUME TickAssumption == TickMod \in Nat \ {0, 1}

VARIABLES
  alt_nticks,
  alt_alarm_list,   \* the set of the alarms in it
  alarm,            \* time and rollover, and, as history, the ticks to go
  rang, owed        \* history: the alarms the last tick called, and should have

alarmVars == <<alt_nticks, alt_alarm_list, alarm, rang, owed>>

Periods == 1..TickMod - 1
Later(n) == (alt_nticks + n) % TickMod

AlarmInit ==
  /\ alt_nticks \in 0..TickMod - 1
  /\ alt_alarm_list = {}
  /\ alarm = [a \in Alarms |-> [time |-> 0, rollover |-> FALSE, togo |-> 0]]
  /\ rang = {} /\ owed = {}

-----------------------------------------------------------------------------
(* The tick that is under way is not counted: one more. An alarm is not in *)
(* the list twice.                                                         *)
alt_alarm_start(a, nticks) ==
  /\ a \notin alt_alarm_list
  /\ alt_alarm_list' = alt_alarm_list \cup {a}
  /\ alarm' = [alarm EXCEPT ![a] =
       [time |-> Later(nticks + 1), rollover |-> Later(nticks + 1) < alt_nticks,
        togo |-> nticks + 1]]
  /\ rang' = {} /\ owed' = {}
  /\ UNCHANGED alt_nticks

alt_alarm_stop(a) ==
  /\ a \in alt_alarm_list
  /\ alt_alarm_list' = alt_alarm_list \ {a}
  /\ rang' = {} /\ owed' = {}
  /\ UNCHANGED <<alt_nticks, alarm>>

(* An alarm that was called is due again after what its callback returns,  *)
(* or, for 0, never.                                                       *)
RearmedPlain(a, now, period) == [time |-> (alarm[a].time + period) % TickMod,
                                 rollover |-> FALSE, togo |-> period]
Rearmed(a, now, period) ==
  LET time == (alarm[a].time + period) % TickMod
  IN [time |-> time, rollover |-> time < now, togo |-> period]

(* One tick; Returns is what each callback returns.                        *)
alt_tick(Returns) ==
  LET now == Later(1)
      rollover(a) == alarm[a].rollover /\ now # 0
      called == {a \in alt_alarm_list : alarm[a].time <= now /\ ~rollover(a)}
  IN /\ alt_nticks' = now
     /\ alt_alarm_list' = {a \in alt_alarm_list : a \in called => Returns[a] > 0}
     /\ alarm' = [a \in Alarms |->
          IF a \in called THEN Rearmed(a, now, Returns[a])
          ELSE IF a \in alt_alarm_list
          THEN [alarm[a] EXCEPT !.rollover = rollover(a), !.togo = IF @ = 0 THEN 0 ELSE @ - 1]
          ELSE alarm[a]]
     /\ rang' = called
     /\ owed' = {a \in alt_alarm_list : alarm[a].togo = 1}

-----------------------------------------------------------------------------
(* Every alarm is called at the tick it asked for, and at no other, also   *)
(* when the clock wraps before (alt_tick.c, alt_alarm_start.c).            *)
AlarmsOnTime == rang = owed
=============================================================================
