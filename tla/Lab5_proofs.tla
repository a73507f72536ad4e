----------------------------- MODULE Lab5_proofs -----------------------------
(***************************************************************************)
(* What holds of the clock's alarms, the library's locks, the tasks of     *)
(* Lab 5 and the bytes of the UART's driver for every clock, set of        *)
(* alarms, set of tasks, depth of nesting, song, FIFO, ring and delay.     *)
(***************************************************************************)
EXTENDS Lab5, SequenceTheorems, TLAPS

(* An alarm in the list is due at the tick it asked for, within one turn   *)
(* of the clock, and is marked exactly when the clock wraps before.        *)
AlarmDue(a) ==
  /\ alarm[a].togo \in Periods
  /\ alarm[a].time = Later(alarm[a].togo)
  /\ alarm[a].rollover = (alarm[a].time < alt_nticks)

AlarmInv ==
  /\ alt_nticks \in 0..TickMod - 1
  /\ alarm \in [Alarms -> [time : 0..TickMod - 1, rollover : BOOLEAN, togo : 0..TickMod - 1]]
  /\ alt_alarm_list \subseteq Alarms
  /\ \A a \in alt_alarm_list : AlarmDue(a)
  /\ AlarmsOnTime

(* The clock some ticks later, without a remainder.                        *)
LEMMA LaterIs ==
  ASSUME alt_nticks \in 0..TickMod - 1, NEW n \in 0..TickMod - 1
  PROVE  Later(n) = IF alt_nticks + n < TickMod THEN alt_nticks + n
                                                ELSE (alt_nticks + n) - TickMod
BY TickAssumption, SMT DEF Later

(* Before the first alarm is started.                                      *)
LEMMA AlarmInitInv == AlarmInit => AlarmInv
BY TickAssumption DEF AlarmInit, AlarmInv, AlarmsOnTime

(* A started alarm is due after the ticks it asked for and the present one. *)
LEMMA AlarmStartInv ==
  ASSUME AlarmInv, NEW a \in Alarms, NEW n \in 0..TickMod - 2, alt_alarm_start(a, n)
  PROVE  AlarmInv'
<1>1. n + 1 \in Periods /\ n + 1 \in 0..TickMod - 1
  BY TickAssumption DEF Periods
<1>2. Later(n + 1) \in 0..TickMod - 1
  BY <1>1, LaterIs, TickAssumption DEF AlarmInv
<1>3. \A b \in alt_alarm_list' : AlarmDue(b)'
  BY <1>1, <1>2 DEF AlarmInv, alt_alarm_start, AlarmDue, Later
<1> QED
  BY <1>1, <1>2, <1>3 DEF AlarmInv, alt_alarm_start, AlarmsOnTime

(* A tick calls the alarms that are one tick away, and no others.          *)
LEMMA AlarmTickInv ==
  ASSUME AlarmInv, NEW R \in [Alarms -> {0} \cup Periods], alt_tick(R)
  PROVE  AlarmInv'
<1> DEFINE now == Later(1)
           rollover(a) == alarm[a].rollover /\ now # 0
           called == {a \in alt_alarm_list : alarm[a].time <= now /\ ~rollover(a)}
<1>a. alt_nticks' = now
  BY Zenon DEF alt_tick
<1>b. alt_alarm_list' = {a \in alt_alarm_list : a \in called => R[a] > 0}
  BY Zenon DEF alt_tick
<1>c. alarm' = [a \in Alarms |->
        IF a \in called THEN Rearmed(a, now, R[a])
        ELSE IF a \in alt_alarm_list
        THEN [alarm[a] EXCEPT !.rollover = rollover(a),
                              !.togo = IF alarm[a].togo = 0 THEN 0 ELSE alarm[a].togo - 1]
        ELSE alarm[a]]
  BY Zenon DEF alt_tick
<1>d. rang' = called /\ owed' = {a \in alt_alarm_list : alarm[a].togo = 1}
  BY Zenon DEF alt_tick
<1>1. now = IF alt_nticks + 1 < TickMod THEN alt_nticks + 1 ELSE 0
  BY LaterIs, TickAssumption DEF AlarmInv
<1> HIDE DEF now
<1>2. now \in 0..TickMod - 1
  BY <1>1, TickAssumption DEF AlarmInv
<1>3. ASSUME NEW a \in alt_alarm_list
      PROVE  alarm[a].time = IF alt_nticks + alarm[a].togo < TickMod
                             THEN alt_nticks + alarm[a].togo
                             ELSE (alt_nticks + alarm[a].togo) - TickMod
  BY LaterIs DEF AlarmInv, AlarmDue, Periods
<1>4. ASSUME NEW a \in alt_alarm_list
      PROVE  a \in called <=> alarm[a].togo = 1
  BY <1>1, <1>3, TickAssumption DEF AlarmInv, AlarmDue, Periods
<1>5. ASSUME NEW a \in called PROVE alarm[a].time = now
  BY <1>1, <1>3, <1>4, TickAssumption DEF AlarmInv
<1> HIDE DEF called
<1>6. ASSUME NEW a \in alt_alarm_list' PROVE AlarmDue(a)'
  <2>1. a \in alt_alarm_list /\ a \in Alarms /\ (a \in called => R[a] \in Periods)
    BY <1>b DEF AlarmInv
  <2>2. CASE a \in called
    <3>1. alarm'[a] = Rearmed(a, now, R[a])
      BY <1>c, <2>1, <2>2
    <3> QED
      BY <1>a, <1>2, <1>5, <2>1, <2>2, <3>1 DEF Rearmed, AlarmDue, Later
  <2>3. CASE a \notin called
    <3>1. alarm[a].togo \in 2..TickMod - 1
      BY <1>4, <2>1, <2>3, TickAssumption DEF AlarmInv, AlarmDue, Periods
    <3>2. alarm'[a] = [alarm[a] EXCEPT !.rollover = rollover(a),
                         !.togo = IF alarm[a].togo = 0 THEN 0 ELSE alarm[a].togo - 1]
      BY <1>c, <2>1, <2>3
    <3>3. /\ alarm'[a].time = alarm[a].time /\ alarm'[a].rollover = rollover(a)
          /\ alarm'[a].togo = alarm[a].togo - 1
      BY <2>1, <3>1, <3>2 DEF AlarmInv
    <3>4. (now + (alarm[a].togo - 1)) % TickMod = (alt_nticks + alarm[a].togo) % TickMod
      <4>1. /\ \A n \in 0..TickMod - 1 : n % TickMod = n
            /\ \A n \in 0..TickMod - 1 : (n + TickMod) % TickMod = n
        BY TickAssumption, SMT
      <4>2. CASE alt_nticks + 1 < TickMod
        <5>1. now + (alarm[a].togo - 1) = alt_nticks + alarm[a].togo
          BY <1>1, <3>1, <4>2 DEF AlarmInv
        <5> QED
          BY <5>1
      <4>3. CASE ~(alt_nticks + 1 < TickMod)
        <5>1. /\ now + (alarm[a].togo - 1) = alarm[a].togo - 1
              /\ alt_nticks + alarm[a].togo = (alarm[a].togo - 1) + TickMod
              /\ alarm[a].togo - 1 \in 0..TickMod - 1
          BY <1>1, <3>1, <4>3, TickAssumption DEF AlarmInv
        <5> QED
          BY <4>1, <5>1
      <4> QED
        BY <4>2, <4>3
    <3>5. rollover(a) = (alarm[a].time < now)
      BY <1>1, <1>3, <2>1, <3>1, TickAssumption DEF AlarmInv, AlarmDue
    <3> QED
      <4>1. alarm'[a].togo \in Periods
        BY <3>1, <3>3, TickAssumption DEF Periods
      <4>2. alarm'[a].time = (alt_nticks' + alarm'[a].togo) % TickMod
        BY <1>a, <2>1, <3>3, <3>4 DEF AlarmInv, AlarmDue, Later
      <4>3. alarm'[a].rollover = (alarm'[a].time < alt_nticks')
        BY <1>a, <3>3, <3>5
      <4> QED
        BY <4>1, <4>2, <4>3 DEF AlarmDue, Later
  <2> QED
    BY <2>2, <2>3
<1>7. alarm' \in [Alarms -> [time : 0..TickMod - 1, rollover : BOOLEAN, togo : 0..TickMod - 1]]
  <2>1. ASSUME NEW a \in called
        PROVE  Rearmed(a, now, R[a]) \in
                 [time : 0..TickMod - 1, rollover : BOOLEAN, togo : 0..TickMod - 1]
    <3>1. R[a] \in 0..TickMod - 1
      BY TickAssumption DEF AlarmInv, Periods, called
    <3>2. (alarm[a].time + R[a]) % TickMod \in 0..TickMod - 1
      BY <3>1, TickAssumption, SMT DEF AlarmInv, called
    <3> QED
      BY <3>1, <3>2 DEF Rearmed
  <2> QED
    <3>1. ASSUME NEW a \in alt_alarm_list
          PROVE  [alarm[a] EXCEPT !.rollover = rollover(a),
                    !.togo = IF alarm[a].togo = 0 THEN 0 ELSE alarm[a].togo - 1]
                   \in [time : 0..TickMod - 1, rollover : BOOLEAN, togo : 0..TickMod - 1]
      <4>1. alarm[a] \in [time : 0..TickMod - 1, rollover : BOOLEAN, togo : 0..TickMod - 1]
        BY DEF AlarmInv
      <4>2. rollover(a) \in BOOLEAN
        OBVIOUS
      <4>3. (IF alarm[a].togo = 0 THEN 0 ELSE alarm[a].togo - 1) \in 0..TickMod - 1
        BY <4>1, TickAssumption
      <4> HIDE DEF rollover
      <4> QED
        BY <4>1, <4>2, <4>3
    <3> HIDE DEF rollover
    <3> QED
      BY <1>c, <2>1, <3>1 DEF AlarmInv
<1>8. AlarmsOnTime'
  BY <1>d, <1>4 DEF AlarmsOnTime, called
<1> QED
  BY <1>a, <1>b, <1>2, <1>6, <1>7, <1>8 DEF AlarmInv

(* The other parts leave the alarms alone.                                 *)
LEMMA AlarmStepInv == AlarmInv /\ [Next]_vars => AlarmInv'
<1> SUFFICES ASSUME AlarmInv, [Next]_vars PROVE AlarmInv'
  OBVIOUS
<1>1. CASE Clock
  <2>1. CASE \E a \in Alarms, n \in 0..TickMod - 2 : alt_alarm_start(a, n)
    BY <2>1, AlarmStartInv
  <2>2. CASE \E a \in Alarms : alt_alarm_stop(a)
    BY <2>2 DEF alt_alarm_stop, AlarmInv, AlarmDue, AlarmsOnTime, Later
  <2>3. CASE \E R \in [Alarms -> {0} \cup Periods] : alt_tick(R)
    BY <2>3, AlarmTickInv
  <2> QED
    BY <1>1, <2>1, <2>2, <2>3 DEF Clock
<1>2. CASE UNCHANGED alarmVars
  BY <1>2 DEF alarmVars, AlarmInv, AlarmDue, AlarmsOnTime, Later
<1> QED
  BY <1>1, <1>2 DEF Next, vars, Uart, Library, Application

(* Every alarm is called at the tick it asked for and at no other, however *)
(* often the clock wraps: for every width of the clock and any alarms.     *)
THEOREM AlarmsRingOnTime == Spec => []AlarmsOnTime
<1>1. Init => AlarmInv
  BY AlarmInitInv DEF Init
<1>2. AlarmInv => AlarmsOnTime
  BY DEF AlarmInv
<1> QED
  BY <1>1, <1>2, AlarmStepInv, PTL DEF Spec

-----------------------------------------------------------------------------
(* One task at a time has the semaphore, from the moment it takes it to    *)
(* the moment it posts it.                                                 *)
Owning(t) == locker[t].pc \in {"claim", "name", "post", "forget"} \/ locker[t].depth > 0

LockPlaces == {"out", "test", "pend", "wait", "claim", "name", "post", "forget"}

LockTypeOK ==
  /\ locker \in [LockTasks -> [pc : LockPlaces, depth : Nat, mine : BOOLEAN]]
  /\ semCnt \in {0, 1} /\ semWaits \subseteq LockTasks
  /\ locks \in Nat

(* What the owner, and only the owner, finds when it looks whether the     *)
(* lock is its own.                                                        *)
OwnerKnows(t) ==
  /\ locker[t].depth > 0 =>
       /\ locker[t].pc \in {"out", "test"}
       /\ lockid = t /\ locks = locker[t].depth
       /\ locker[t].pc = "test" => locker[t].mine
  /\ locker[t].pc = "name" => locks = 1
  /\ lockid = t => locker[t].depth > 0 \/ locker[t].pc = "forget"

LockInv ==
  /\ LockTypeOK
  /\ \A t, u \in LockTasks : Owning(t) /\ Owning(u) => t = u
  /\ semCnt = 1 => \A t \in LockTasks : ~Owning(t)
  /\ \A t \in semWaits : locker[t].pc = "wait"
  /\ \A t \in LockTasks : OwnerKnows(t)

(* How a library may use the lock: nesting as deep as it likes if it asks  *)
(* whether the semaphore is taken, not at all if it asks who waits.        *)
MayNest(kind, depth) == kind = "malloc" \/ depth = 1

(* A task changes its own place and depth, or place and copy, only.        *)
LEMMA OneMoves ==
  ASSUME LockTypeOK, NEW t \in LockTasks,
         NEW r \in [pc : LockPlaces, depth : Nat, mine : BOOLEAN],
         locker' = [locker EXCEPT ![t] = r]
  PROVE  /\ locker' \in [LockTasks -> [pc : LockPlaces, depth : Nat, mine : BOOLEAN]]
         /\ locker'[t] = r
         /\ \A u \in LockTasks \ {t} : locker'[u] = locker[u]
BY DEF LockTypeOK

(* The same with the place and the depth it gets.                          *)
LEMMA OneGoes ==
  ASSUME LockTypeOK, NEW t \in LockTasks, NEW p \in LockPlaces, NEW d \in Nat,
         Goes(t, p, d)
  PROVE  /\ locker' \in [LockTasks -> [pc : LockPlaces, depth : Nat, mine : BOOLEAN]]
         /\ locker'[t].pc = p /\ locker'[t].depth = d
         /\ \A u \in LockTasks \ {t} : locker'[u] = locker[u]
<1> DEFINE r == [locker[t] EXCEPT !.pc = p, !.depth = d]
<1>1. locker[t] \in [pc : LockPlaces, depth : Nat, mine : BOOLEAN]
  BY DEF LockTypeOK
<1>2. r \in [pc : LockPlaces, depth : Nat, mine : BOOLEAN] /\ r.pc = p /\ r.depth = d
  BY <1>1
<1> HIDE DEF r
<1> QED
  BY <1>2, OneMoves DEF r, Goes

(* Each step of a task keeps the lock its owner's.                         *)
LEMMA LockingInv ==
  ASSUME LockInv, NEW t \in LockTasks, NEW kind, NEW depth, MayNest(kind, depth),
         Locking(t, kind, depth)
  PROVE  LockInv'
<1> USE DEF LockInv, LockTypeOK, LockPlaces, OwnerKnows, Owning, LockAt, LockGoto
<1>1. CASE Query(t, kind, depth)
  <2>1. locker[t].depth > 0 => kind = "malloc" /\ semCnt = 0
    BY <1>1 DEF Query, MayNest
  <2>2. PICK mine \in BOOLEAN :
          /\ locker' = [locker EXCEPT ![t] = [locker[t] EXCEPT !.pc = "test", !.mine = mine]]
          /\ locker[t].depth > 0 => mine
    BY <1>1, <2>1 DEF Query
  <2> DEFINE r == [locker[t] EXCEPT !.pc = "test", !.mine = mine]
  <2>3. locker[t] \in [pc : LockPlaces, depth : Nat, mine : BOOLEAN] /\ "test" \in LockPlaces
    OBVIOUS
  <2>4. /\ r \in [pc : LockPlaces, depth : Nat, mine : BOOLEAN]
        /\ r.pc = "test" /\ r.depth = locker[t].depth /\ r.mine = mine
    <3> HIDE DEF LockPlaces
    <3> QED
      BY <2>3
  <2> HIDE DEF r
  <2>5. locker' = [locker EXCEPT ![t] = r]
    BY <2>2 DEF r
  <2>6. /\ locker' \in [LockTasks -> [pc : LockPlaces, depth : Nat, mine : BOOLEAN]]
        /\ locker'[t] = r
        /\ \A u \in LockTasks \ {t} : locker'[u] = locker[u]
    BY <2>4, <2>5, OneMoves
  <2> QED
    <3>1. LockTypeOK'
      BY <1>1, <2>6 DEF Query
    <3>2. \A u \in LockTasks : Owning(u)' <=> Owning(u)
      BY <1>1, <2>4, <2>6 DEF Query
    <3>3. locker'[t].mine = mine /\ locker'[t].pc = "test" /\ locker'[t].depth = locker[t].depth
      BY <2>4, <2>6
    <3>4. OwnerKnows(t)'
      BY <1>1, <2>2, <3>3 DEF Query
    <3>5. \A u \in LockTasks \ {t} : OwnerKnows(u)'
      BY <1>1, <2>6 DEF Query
    <3> QED
      BY <1>1, <2>6, <3>1, <3>2, <3>4, <3>5 DEF Query
<1>2. CASE Test(t)
  <2>1. CASE locker[t].mine /\ lockid = t
    <3>1. Goes(t, "out", locker[t].depth + 1)
      BY <1>2, <2>1 DEF Test, Inside
    <3>2. locker[t].depth + 1 \in Nat /\ "out" \in LockPlaces
      OBVIOUS
    <3>3. /\ locker' \in [LockTasks -> [pc : LockPlaces, depth : Nat, mine : BOOLEAN]]
          /\ locker'[t].pc = "out" /\ locker'[t].depth = locker[t].depth + 1
          /\ \A u \in LockTasks \ {t} : locker'[u] = locker[u]
      BY <3>1, <3>2, OneGoes
    <3>4. locks = locker[t].depth /\ locker[t].depth > 0 /\ locks' = locks + 1
      BY <1>2, <2>1 DEF Test
    <3> QED
      BY <1>2, <2>1, <3>3, <3>4 DEF Test
  <2>2. CASE ~(locker[t].mine /\ lockid = t)
    <3>1. /\ locker' \in [LockTasks -> [pc : LockPlaces, depth : Nat, mine : BOOLEAN]]
          /\ locker'[t].pc = "pend" /\ locker'[t].depth = locker[t].depth
          /\ \A u \in LockTasks \ {t} : locker'[u] = locker[u]
      BY <1>2, <2>2 DEF Test
    <3> QED
      BY <1>2, <2>2, <3>1 DEF Test
  <2> QED
    BY <2>1, <2>2
<1>3. CASE SemPend(t)
  BY <1>3 DEF SemPend
<1>4. CASE Claim(t)
  <2>1. CASE locker[t].pc = "claim"
    BY <1>4, <2>1 DEF Claim
  <2>2. CASE locker[t].pc = "name"
    <3>1. Goes(t, "out", locker[t].depth + 1)
      BY <1>4, <2>2 DEF Claim, Inside
    <3>2. locker[t].depth + 1 = 1 /\ 1 \in Nat /\ "out" \in LockPlaces
      BY <2>2
    <3>3. /\ locker' \in [LockTasks -> [pc : LockPlaces, depth : Nat, mine : BOOLEAN]]
          /\ locker'[t].pc = "out" /\ locker'[t].depth = 1
          /\ \A u \in LockTasks \ {t} : locker'[u] = locker[u]
      BY <3>1, <3>2, OneGoes
    <3> QED
      BY <1>4, <2>2, <3>3 DEF Claim
  <2> QED
    BY <1>4, <2>1, <2>2 DEF Claim
<1>5. CASE UnlockCount(t, kind)
  <2> DEFINE p == IF locks > 1 THEN "out" ELSE IF kind = "malloc" THEN "post" ELSE "forget"
  <2>1. Goes(t, p, locker[t].depth - 1)
    BY <1>5 DEF UnlockCount
  <2>2. locks = locker[t].depth /\ lockid = t /\ locks \in Nat \ {0} /\ locker[t].pc = "out"
    BY <1>5 DEF UnlockCount
  <2>3. locker[t].depth - 1 \in Nat /\ p \in LockPlaces
    BY <2>2
  <2>4. /\ locker' \in [LockTasks -> [pc : LockPlaces, depth : Nat, mine : BOOLEAN]]
        /\ locker'[t].pc = p /\ locker'[t].depth = locker[t].depth - 1
        /\ \A u \in LockTasks \ {t} : locker'[u] = locker[u]
    <3> HIDE DEF p
    <3> QED
      BY <2>1, <2>3, OneGoes
  <2> QED
    BY <1>5, <2>2, <2>4, LockAssumption DEF UnlockCount
<1>6. CASE Forget(t)
  BY <1>6, LockAssumption DEF Forget
<1>7. CASE SemPost(t)
  BY <1>7 DEF SemPost
<1> QED
  BY <1>1, <1>2, <1>3, <1>4, <1>5, <1>6, <1>7 DEF Locking

(* With libraries that may nest as they do, who has locked is alone and    *)
(* may lock again, whatever the tasks, their number and the nesting.       *)
THEOREM LockStaysRecursive ==
  ASSUME \A x \in Lab5Apps : x.part = "lock" => MayNest(x.kind, x.depth)
  PROVE  Spec => []LockIsRecursive
<1> DEFINE Inv == app \in Lab5Apps /\ LockInv
<1>1. Init => Inv
  BY LockAssumption DEF Init, LockInit, LockInv, LockTypeOK, LockPlaces, OwnerKnows, Owning
<1>2. Inv /\ [Next]_vars => Inv'
  <2> SUFFICES ASSUME Inv, [Next]_vars PROVE Inv'
    OBVIOUS
  <2>1. CASE Library
    BY <2>1, LockingInv DEF Library, Runs
  <2>2. CASE UNCHANGED <<lockVars, app>>
    BY <2>2 DEF lockVars, LockInv, LockTypeOK, OwnerKnows, Owning
  <2> QED
    BY <2>1, <2>2 DEF Next, vars, Uart, Clock, Application, Runs
<1>3. Inv => LockIsRecursive
  BY DEF LockInv, LockTypeOK, LockPlaces, OwnerKnows, Owning, LockIsRecursive
<1> QED
  BY <1>1, <1>2, <1>3, PTL DEF Spec

-----------------------------------------------------------------------------
(* A stop that task1 has yet to see keeps its flags, and task2 its delay,  *)
(* until task1 has seen it.                                                *)
StopSeen ==
  /\ task1 \in [pc : {"start", "loop", "send"}, left : Nat, dly : 0..Delay1]
  /\ task2 \in [pc : {"poll", "act", "pause", "stop"}, button : Buttons, dly : 0..Delay2]
  /\ task1.dly > 0 => task1.pc = "loop"
  /\ task2.pc \in {"pause", "stop"} /\ task2.button = "stop" => play_song = 0
  /\ task2.pc = "stop" /\ task2.button = "stop" => pause_song = 0
  /\ rewinding =>
       \/ address_counter = 0
       \/ /\ task1.pc = "loop" /\ task1.dly <= task2.dly
          /\ play_song = 0 /\ pause_song = 0 /\ stop_song = 1
          /\ task2.pc = "poll"

(* Each step of the two tasks, the clock and the sound hardware keeps it.  *)
LEMMA StopStepInv ==
  ASSUME Delay1 <= Delay2, StopSeen, Lab5TasksNext
  PROVE  StopSeen'
<1>0. /\ Batch \in Nat /\ Delay1 \in Nat \ {0} /\ Delay2 \in Nat
      /\ 0 \in 0..Delay1 /\ Delay1 \in 0..Delay1 /\ 0 \in 0..Delay2 /\ Delay2 \in 0..Delay2
  BY Lab5Assumption
<1> USE <1>0 DEF StopSeen, Task1Runs, Task2Runs, flagVars5
<1>a. \A p \in {"start", "loop", "send"}, n \in Nat, d \in 0..Delay1 :
        /\ [task1 EXCEPT !.pc = p, !.left = n] \in
             [pc : {"start", "loop", "send"}, left : Nat, dly : 0..Delay1]
        /\ [task1 EXCEPT !.pc = p, !.dly = d] \in
             [pc : {"start", "loop", "send"}, left : Nat, dly : 0..Delay1]
  OBVIOUS
<1>b. \A p \in {"poll", "act", "pause", "stop"}, b \in Buttons, d \in 0..Delay2 :
        /\ [task2 EXCEPT !.pc = p, !.button = b] \in
             [pc : {"poll", "act", "pause", "stop"}, button : Buttons, dly : 0..Delay2]
        /\ [task2 EXCEPT !.pc = p, !.button = b, !.dly = d] \in
             [pc : {"poll", "act", "pause", "stop"}, button : Buttons, dly : 0..Delay2]
  OBVIOUS
<1>c. "none" \in Buttons
  BY DEF Buttons
<1>1. CASE Start1
  BY <1>1 DEF Start1
<1>2. CASE Loop1
  <2>1. CASE play_song = 1
    <3>1. task1' = [task1 EXCEPT !.pc = "send", !.left = Batch] /\ address_counter' = address_counter
      BY <1>2, <2>1, SMTT(30) DEF Loop1
    <3>2. task1' \in [pc : {"start", "loop", "send"}, left : Nat, dly : 0..Delay1]
      BY <3>1, <1>a
    <3> QED
      BY <1>2, <2>1, <3>1, <3>2 DEF Loop1
  <2>2. CASE play_song # 1
    <3>1. task1' = [task1 EXCEPT !.dly = Delay1] /\ task1.pc = "loop"
      BY <1>2, <2>2 DEF Loop1
    <3>2. rewinding' => address_counter' = 0
      BY <1>2, <2>2 DEF Loop1
    <3> QED
      BY <1>2, <2>2, <3>1, <3>2 DEF Loop1
  <2> QED
    BY <2>1, <2>2
<1>3. CASE Send1
  BY <1>3 DEF Send1
<1>4. CASE Sent1
  BY <1>4, Zenon DEF Sent1
<1>5. ASSUME NEW key \in BOOLEAN, NEW b \in Buttons, Poll2(key, b) PROVE StopSeen'
  <2>1. CASE key
    <3>1. task2' = [task2 EXCEPT !.pc = "act", !.button = b]
      BY <1>5, <2>1 DEF Poll2
    <3>2. task2' \in [pc : {"poll", "act", "pause", "stop"}, button : Buttons, dly : 0..Delay2]
      BY <3>1, <1>b
    <3> QED
      BY <1>5, <3>1, <3>2 DEF Poll2
  <2>2. CASE ~key
    BY <1>5, <2>2 DEF Poll2
  <2> QED
    BY <2>1, <2>2
<1>6. CASE SetPlay2
  BY <1>6 DEF SetPlay2
<1>7. CASE SetPause2
  BY <1>7 DEF SetPause2
<1>8. CASE SetStop2
  <2>1. task2' = [task2 EXCEPT !.pc = "poll", !.button = "none", !.dly = Delay2]
    BY <1>8, SMTT(30) DEF SetStop2, End2, Delayed2
  <2>2. task2' \in [pc : {"poll", "act", "pause", "stop"}, button : Buttons, dly : 0..Delay2]
    BY <2>1, <1>b, <1>c, ZenonT(40)
  <2>3. task2'.pc = "poll" /\ task2'.dly = Delay2
    BY <2>1
  <2> QED
    <3>1. CASE task2.button = "stop"
      BY <1>8, <2>2, <2>3, <3>1 DEF SetStop2
    <3>2. CASE task2.button # "stop"
      BY <1>8, <2>2, <2>3, <3>2 DEF SetStop2
    <3> QED
      BY <3>1, <3>2
<1>9. CASE SetRate2 \/ Select2 \/ Nowhere2
  <2>1. task2' = [task2 EXCEPT !.pc = "poll", !.button = "none", !.dly = Delay2]
    BY <1>9 DEF SetRate2, Select2, Nowhere2, End2, Delayed2
  <2>2. task2' \in [pc : {"poll", "act", "pause", "stop"}, button : Buttons, dly : 0..Delay2]
    BY <2>1, <1>b, <1>c, ZenonT(30)
  <2>3. task2'.pc = "poll" /\ task2.dly = 0 /\ task1.dly > 0
    BY <1>9, <2>1 DEF SetRate2, Select2, Nowhere2
  <2> QED
    BY <1>9, <2>2, <2>3 DEF SetRate2, Select2, Nowhere2
<1>10. CASE Tick
  BY <1>10 DEF Tick
<1>11. CASE Sound
  BY <1>11 DEF Sound
<1> QED
  BY <1>1, <1>2, <1>3, <1>4, <1>5, <1>6, <1>7, <1>8, <1>9, <1>10, <1>11 DEF Lab5TasksNext

(* If task2's delay is no shorter than task1's, a stop rewinds the song,   *)
(* whatever its size, the FIFO and the times between the keys.             *)
THEOREM StopsRewind ==
  ASSUME Delay1 <= Delay2
  PROVE  Spec => []StopRewinds
<1>1. Init => StopSeen
  BY Lab5Assumption DEF Init, Lab5Init, StopSeen, Buttons
<1>2. StopSeen /\ [Next]_vars => StopSeen'
  <2> SUFFICES ASSUME StopSeen, [Next]_vars PROVE StopSeen'
    OBVIOUS
  <2>1. CASE Application
    BY <2>1, StopStepInv DEF Application
  <2>2. CASE UNCHANGED lab5Vars
    BY <2>2 DEF lab5Vars, StopSeen
  <2> QED
    BY <2>1, <2>2 DEF Next, vars, Uart, Library, Clock
<1>3. StopSeen => StopRewinds
  BY DEF StopSeen, StopRewinds
<1> QED
  BY <1>1, <1>2, <1>3, PTL DEF Spec
-----------------------------------------------------------------------------
(* The UART: what the rings, the FIFOs and the tasks in a call know.       *)
Places == {"idle", "close", "lock", "queue", "load", "copy", "advance", "enable", "pend",
           "wait", "woken", "check", "unlock"}
JtagFlags == {"READ_RDY", "WRITE_RDY", "TIMEOUT"}
Numbers == 0..ByteMod - 1
Rings == [in : 0..BufLen - 1, out : 0..BufLen - 1, buf : [0..BufLen - 1 -> Nat],
          next : Numbers]
Queues == {s \in Seq(Nat) : Len(s) <= Depth}
JtagCalls ==
  [pc : Places, op : {"read", "write", "close"}, count : 0..MaxCount, nonblock : BOOLEAN,
   moved : BOOLEAN, in : 0..BufLen - 1, out : 0..BufLen - 1, n : 0..BufLen - 1,
   chunk : Seq(Nat), rdy : SUBSET JtagFlags]

(* Byte i of a ring, from the oldest; after its bytes those in the FIFO,   *)
(* and on the way out the FIFO comes first.                                *)
Cell(r, i) == r.buf[Place(r.out + i)]
RxInOrder(r, s, sent) ==
  /\ \A i \in 0..Filled(r) - 1 : Cell(r, i) = Nth(r.next, i)
  /\ \A i \in 1..Len(s) : s[i] = Nth(r.next, (Filled(r) + i) - 1)
  /\ sent = Nth(r.next, Filled(r) + Len(s))
TxInOrder(s, got, r) ==
  /\ \A i \in 1..Len(s) : s[i] = Nth(got, i - 1)
  /\ \A i \in 0..Filled(r) - 1 : Cell(r, i) = Nth(got, Len(s) + i)
  /\ r.next = Nth(got, Len(s) + Filled(r))

(* Whoever moves bytes has the lock of the direction.                      *)
Holding(c) ==
  \/ c.pc \in {"load", "copy", "advance", "pend", "wait", "woken", "check", "unlock"}
  \/ c.pc = "enable" /\ c.op = "write"

(* The pointer a task read before it copies is still the ring's, and what  *)
(* the interrupt routine has done since left it at least as many bytes or  *)
(* as much space.                                                          *)
Moving(c, op) == c.op = op /\ c.pc \in {"copy", "advance"}
ReadsRight(c, r) ==
  Moving(c, "read") =>
    /\ c.out = r.out /\ c.n \in 1..Filled(r) /\ r.out + c.n <= BufLen /\ c.n <= c.count
    /\ c.pc = "advance" => c.chunk = [i \in 1..c.n |-> r.buf[r.out + (i - 1)]]
WritesRight(c, r) ==
  Moving(c, "write") =>
    /\ c.in = r.in /\ c.n \in 1..(BufLen - 1) - Filled(r) /\ r.in + c.n <= BufLen
    /\ c.n <= c.count
    /\ c.pc = "advance" => \A i \in 0..c.n - 1 : r.buf[r.in + i] = Nth(r.next, i)

CallRight(c, t, lock, r, w) ==
  /\ c.pc # "close" => c.op # "close"
  /\ Holding(c) => lock[c.op] = {t}
  /\ ReadsRight(c, r) /\ WritesRight(c, w)

BytesInv ==
  /\ rx \in Rings /\ tx \in Rings
  /\ hw \in [rx : Queues, tx : Queues, sent : Numbers, got : Numbers, ac : BOOLEAN, alive : BOOLEAN]
  /\ RxInOrder(rx, hw.rx, hw.sent) /\ TxInOrder(hw.tx, hw.got, tx)

CallsInv ==
  /\ events \subseteq JtagFlags
  /\ rw_lock \in [{"read", "write"} -> SUBSET Users]
  /\ call \in [Users -> JtagCalls]
  /\ \A t \in Users : CallRight(call[t], t, rw_lock, rx, tx)

UartInv == BytesInv /\ CallsInv


-----------------------------------------------------------------------------
(* Remainders, written out.                                                *)
LEMMA ModOnce ==
  ASSUME NEW M \in Nat \ {0}, NEW x \in Nat, x < M + M
  PROVE  x % M = IF x < M THEN x ELSE x - M
<1>1. CASE x < M
  BY <1>1, SMT
<1>2. CASE ~(x < M)
  <2>1. x - M \in 0..M - 1 /\ x = M * 1 + (x - M)
    BY <1>2
  <2> QED BY <2>1, SMT
<1> QED BY <1>1, <1>2

LEMMA PlaceIs ==
  ASSUME NEW i \in Nat, i < BufLen + BufLen
  PROVE  /\ Place(i) = IF i < BufLen THEN i ELSE i - BufLen
         /\ Place(i) \in 0..BufLen - 1
<1>1. BufLen \in Nat \ {0}
  BY JtagAssumption
<1>2. Place(i) = IF i < BufLen THEN i ELSE i - BufLen
  BY <1>1, ModOnce DEF Place
<1> QED BY <1>1, <1>2

LEMMA NthIs ==
  ASSUME NEW a \in 0..ByteMod - 1, NEW i \in Nat, i < ByteMod
  PROVE  /\ Nth(a, i) = IF a + i < ByteMod THEN a + i ELSE (a + i) - ByteMod
         /\ Nth(a, i) \in 0..ByteMod - 1
<1>1. ByteMod \in Nat \ {0}
  BY JtagAssumption
<1>2. a + i \in Nat /\ a + i < ByteMod + ByteMod
  BY <1>1
<1>3. Nth(a, i) = IF a + i < ByteMod THEN a + i ELSE (a + i) - ByteMod
  BY <1>1, <1>2, ModOnce DEF Nth
<1> QED BY <1>1, <1>2, <1>3

LEMMA NthOfNth ==
  ASSUME NEW a \in 0..ByteMod - 1, NEW i \in Nat, NEW j \in Nat, i + j < ByteMod
  PROVE  Nth(Nth(a, i), j) = Nth(a, i + j)
<1>1. ByteMod \in Nat \ {0} /\ i < ByteMod /\ j < ByteMod /\ i + j \in Nat
  BY JtagAssumption
<1>2. PICK b : b = Nth(a, i)
  OBVIOUS
<1>3. b = (IF a + i < ByteMod THEN a + i ELSE (a + i) - ByteMod) /\ b \in 0..ByteMod - 1
  BY <1>1, <1>2, NthIs
<1>4. Nth(b, j) = IF b + j < ByteMod THEN b + j ELSE (b + j) - ByteMod
  BY <1>1, <1>3, NthIs
<1>5. Nth(a, i + j) = IF a + (i + j) < ByteMod THEN a + (i + j) ELSE (a + (i + j)) - ByteMod
  BY <1>1, NthIs
<1> QED BY <1>1, <1>2, <1>3, <1>4, <1>5

LEMMA LeastOfTwo ==
  ASSUME NEW a \in Nat, NEW b \in Nat
  PROVE  Least({a, b}) = IF a <= b THEN a ELSE b
<1>1. PICK c \in {a, b} : \A y \in {a, b} : c <= y
  BY SMT
<1>2. Least({a, b}) \in {a, b} /\ \A y \in {a, b} : Least({a, b}) <= y
  BY <1>1, Zenon DEF Least, Min
<1> QED BY <1>2

(* A ring holds at most one byte less than it has room for.                *)
LEMMA FilledIs ==
  ASSUME NEW r \in Rings
  PROVE  /\ Filled(r) = IF r.in < r.out THEN (r.in + BufLen) - r.out ELSE r.in - r.out
         /\ Filled(r) \in 0..BufLen - 1
<1>1. r.in \in 0..BufLen - 1 /\ r.out \in 0..BufLen - 1 /\ BufLen \in Nat \ {0}
  BY JtagAssumption DEF Rings
<1>2. PICK x : x = (r.in + BufLen) - r.out
  OBVIOUS
<1>3. x \in Nat /\ x < BufLen + BufLen
  BY <1>1, <1>2
<1>4. Place(x) = IF x < BufLen THEN x ELSE x - BufLen
  BY <1>3, PlaceIs
<1> QED BY <1>1, <1>2, <1>4 DEF Filled

(* The cells of a ring from the oldest byte on are different places.       *)
LEMMA CellPlaces ==
  ASSUME NEW r \in Rings, NEW i \in 0..BufLen - 1
  PROVE  /\ Place(r.out + i) = (IF r.out + i < BufLen THEN r.out + i ELSE (r.out + i) - BufLen)
         /\ Place(r.out + i) \in 0..BufLen - 1
<1>1. r.out \in 0..BufLen - 1 /\ BufLen \in Nat \ {0}
  BY JtagAssumption DEF Rings
<1>2. r.out + i \in Nat /\ r.out + i < BufLen + BufLen
  BY <1>1
<1> QED BY <1>2, PlaceIs

-----------------------------------------------------------------------------
(* What happens to a ring.                                                 *)
LEMMA FromIn ==
  ASSUME NEW r \in Rings, NEW i \in 0..BufLen - 1
  PROVE  /\ Place(i + (BufLen - r.in)) = IF i < r.in THEN (i + BufLen) - r.in ELSE i - r.in
         /\ Place(Place(r.out + i) + (BufLen - r.in)) =
              IF i < Filled(r) THEN (BufLen - Filled(r)) + i ELSE i - Filled(r)
<1>0. r.in \in 0..BufLen - 1 /\ r.out \in 0..BufLen - 1 /\ BufLen \in Nat \ {0}
  BY JtagAssumption DEF Rings
<1>1. /\ Filled(r) = IF r.in < r.out THEN (r.in + BufLen) - r.out ELSE r.in - r.out
      /\ Filled(r) \in 0..BufLen - 1
  BY FilledIs
<1>2. ASSUME NEW q \in 0..BufLen - 1
      PROVE  Place(q + (BufLen - r.in)) = IF q < r.in THEN (q + BufLen) - r.in ELSE q - r.in
  <2>1. PICK x : x = q + (BufLen - r.in)
    OBVIOUS
  <2>2. x \in Nat /\ x < BufLen + BufLen
    BY <1>0, <2>1
  <2>3. Place(x) = IF x < BufLen THEN x ELSE x - BufLen
    BY <2>2, PlaceIs
  <2> QED BY <1>0, <2>1, <2>3
<1>3. PICK q : q = Place(r.out + i)
  OBVIOUS
<1>4. q = (IF r.out + i < BufLen THEN r.out + i ELSE (r.out + i) - BufLen) /\ q \in 0..BufLen - 1
  BY <1>3, CellPlaces
<1>5. Place(q + (BufLen - r.in)) = IF q < r.in THEN (q + BufLen) - r.in ELSE q - r.in
  BY <1>2, <1>4
<1>6. Place(q + (BufLen - r.in)) = IF i < Filled(r) THEN (BufLen - Filled(r)) + i ELSE i - Filled(r)
  <2>1. CASE r.in < r.out
    BY <1>0, <1>1, <1>4, <1>5, <2>1, SMTT(40)
  <2>2. CASE ~(r.in < r.out) /\ r.out + i < BufLen
    <3>1. Filled(r) = r.in - r.out /\ q = r.out + i
      BY <1>1, <1>4, <2>2
    <3> QED BY <1>0, <1>5, <2>2, <3>1
  <2>3. CASE ~(r.in < r.out) /\ ~(r.out + i < BufLen)
    <3>1. Filled(r) = r.in - r.out /\ q = (r.out + i) - BufLen
      BY <1>1, <1>4, <2>3
    <3> QED BY <1>0, <1>5, <2>3, <3>1
  <2> QED BY <2>1, <2>2, <2>3
<1>7. Place(i + (BufLen - r.in)) = IF i < r.in THEN (i + BufLen) - r.in ELSE i - r.in
  BY <1>2
<1>8. Place(Place(r.out + i) + (BufLen - r.in)) =
        IF i < Filled(r) THEN (BufLen - Filled(r)) + i ELSE i - Filled(r)
  BY <1>3, <1>6
<1> QED BY <1>7, <1>8, Zenon

PutSeq(p, r, s) == p = PutAll(r, s) /\ s \in Seq(Nat)

LEMMA PutAllIs ==
  ASSUME NEW r \in Rings, NEW s, NEW p, PutSeq(p, r, s), NEW k \in Nat, k = Len(s),
         k <= (BufLen - 1) - Filled(r)
  PROVE  /\ p \in Rings
         /\ p.out = r.out /\ p.next = r.next
         /\ Filled(p) = Filled(r) + k
         /\ \A i \in 0..Filled(r) - 1 : Cell(p, i) = Cell(r, i)
         /\ \A i \in 0..k - 1 : Cell(p, Filled(r) + i) = s[i + 1]
<1>0. r.in \in 0..BufLen - 1 /\ r.out \in 0..BufLen - 1 /\ BufLen \in Nat \ {0}
  BY JtagAssumption DEF Rings
<1>r. /\ r.buf \in [0..BufLen - 1 -> Nat] /\ r.next \in Numbers
      /\ r = [in |-> r.in, out |-> r.out, buf |-> r.buf, next |-> r.next]
  BY DEF Rings
<1>1. /\ Filled(r) = IF r.in < r.out THEN (r.in + BufLen) - r.out ELSE r.in - r.out
      /\ Filled(r) \in 0..BufLen - 1
  BY FilledIs
<1>3. PICK b : b = [i \in 0..BufLen - 1 |->
               IF Place(i + (BufLen - r.in)) < k THEN s[Place(i + (BufLen - r.in)) + 1] ELSE r.buf[i]]
  OBVIOUS
<1>4. p = [r EXCEPT !.in = Place(r.in + k), !.buf = b]
  <2>1. PICK a : a = [i \in 0..BufLen - 1 |->
               IF Place(i + (BufLen - r.in)) < Len(s) THEN s[Place(i + (BufLen - r.in)) + 1] ELSE r.buf[i]]
    OBVIOUS
  <2>2. p = [r EXCEPT !.in = Place(r.in + Len(s)), !.buf = a]
    <3>1. p = [r EXCEPT !.in = Place(@ + Len(s)),
            !.buf = [i \in 0..BufLen - 1 |->
               IF Place(i + (BufLen - r.in)) < Len(s) THEN s[Place(i + (BufLen - r.in)) + 1] ELSE @[i]]]
      BY Zenon DEF PutSeq, PutAll
    <3> QED BY <1>r, <2>1, <3>1
  <2>3. a = b
    BY <1>3, <2>1
  <2> QED BY <2>2, <2>3
<1>5. p.in = Place(r.in + k) /\ p.out = r.out /\ p.next = r.next /\ p.buf = b
  BY <1>r, <1>4
<1>6. /\ Place(r.in + k) = IF r.in + k < BufLen THEN r.in + k ELSE (r.in + k) - BufLen
      /\ Place(r.in + k) \in 0..BufLen - 1
  <2>1. r.in + k \in Nat /\ r.in + k < BufLen + BufLen
    BY <1>0, <1>1
  <2> QED BY <2>1, PlaceIs
<1>8. b \in [0..BufLen - 1 -> Nat]
  <2>1. \A j \in Nat : j < k => s[j + 1] \in Nat
    BY ElementOfSeq DEF PutSeq
  <2>2. \A i \in 0..BufLen - 1 : Place(i + (BufLen - r.in)) \in Nat
    <3> TAKE i \in 0..BufLen - 1
    <3>1. Place(i + (BufLen - r.in)) = IF i < r.in THEN (i + BufLen) - r.in ELSE i - r.in
      BY FromIn
    <3> QED BY <1>0, <3>1
  <2>3. \A i \in 0..BufLen - 1 : r.buf[i] \in Nat
    BY <1>r
  <2>4. \A i \in 0..BufLen - 1 :
          (IF Place(i + (BufLen - r.in)) < k THEN s[Place(i + (BufLen - r.in)) + 1] ELSE r.buf[i]) \in Nat
    BY <2>1, <2>2, <2>3
  <2> QED BY <1>3, <2>4, Zenon
<1>9. p \in Rings
  <2>1. p = [in |-> Place(r.in + k), out |-> r.out, buf |-> b, next |-> r.next]
    BY <1>r, <1>4
  <2> QED BY <1>0, <1>r, <1>6, <1>8, <2>1 DEF Rings
<1>10. Filled(p) = Filled(r) + k
  <2>1. Filled(p) = IF p.in < p.out THEN (p.in + BufLen) - p.out ELSE p.in - p.out
    BY <1>9, FilledIs
  <2>2. PICK m : m = Place(r.in + k)
    OBVIOUS
  <2>3. p.in = m /\ p.out = r.out
    BY <1>5, <2>2
  <2>4. m = IF r.in + k < BufLen THEN r.in + k ELSE (r.in + k) - BufLen
    BY <1>6, <2>2
  <2> QED BY <1>0, <1>1, <2>1, <2>3, <2>4, SMTT(80)
<1>11. \A i \in 0..BufLen - 1 :
         Cell(p, i) = IF i < Filled(r)
                      THEN IF (BufLen - Filled(r)) + i < k THEN s[((BufLen - Filled(r)) + i) + 1] ELSE Cell(r, i)
                      ELSE IF i - Filled(r) < k THEN s[(i - Filled(r)) + 1] ELSE Cell(r, i)
  <2> TAKE i \in 0..BufLen - 1
  <2>1. PICK q : q = Place(r.out + i)
    OBVIOUS
  <2>2. q \in 0..BufLen - 1
    BY <2>1, CellPlaces
  <2>3. PICK d : d = Place(q + (BufLen - r.in))
    OBVIOUS
  <2>4. d = IF i < Filled(r) THEN (BufLen - Filled(r)) + i ELSE i - Filled(r)
    BY <2>1, <2>3, FromIn
  <2>5. Cell(p, i) = b[q] /\ Cell(r, i) = r.buf[q]
    BY <1>5, <2>1 DEF Cell
  <2>6. b[q] = IF d < k THEN s[d + 1] ELSE r.buf[q]
    BY <1>3, <2>2, <2>3, Zenon
  <2>7. CASE i < Filled(r)
    BY <2>4, <2>5, <2>6, <2>7
  <2>8. CASE ~(i < Filled(r))
    BY <2>4, <2>5, <2>6, <2>8
  <2> QED BY <2>7, <2>8
<1>12. \A i \in 0..Filled(r) - 1 : Cell(p, i) = Cell(r, i)
  <2> TAKE i \in 0..Filled(r) - 1
  <2>1. i \in 0..BufLen - 1 /\ i < Filled(r) /\ ~((BufLen - Filled(r)) + i < k)
    BY <1>0, <1>1, SMTT(30)
  <2> QED BY <1>11, <2>1
<1>13. \A i \in 0..k - 1 : Cell(p, Filled(r) + i) = s[i + 1]
  <2> TAKE i \in 0..k - 1
  <2>1. /\ Filled(r) + i \in 0..BufLen - 1 /\ ~(Filled(r) + i < Filled(r))
        /\ (Filled(r) + i) - Filled(r) = i /\ i < k
    BY <1>0, <1>1, SMTT(40)
  <2>2. PICK j : j = Filled(r) + i
    OBVIOUS
  <2>3. Cell(p, j) = IF j - Filled(r) < k THEN s[(j - Filled(r)) + 1] ELSE Cell(r, j)
    BY <1>11, <2>1, <2>2
  <2> QED BY <2>1, <2>2, <2>3
<1> QED BY <1>5, <1>9, <1>10, <1>12, <1>13

TakenOut(p, r, k, next) == p = [r EXCEPT !.out = Place(r.out + k), !.next = next]
PutIn(p, r, k, next) == p = [r EXCEPT !.in = Place(r.in + k), !.next = next]

LEMMA TakeOutIs ==
  ASSUME NEW r \in Rings, NEW k \in 0..Filled(r), NEW next \in Numbers,
         NEW p, TakenOut(p, r, k, next)
  PROVE  /\ p \in Rings /\ p.in = r.in /\ p.buf = r.buf /\ p.next = next
         /\ Filled(p) = Filled(r) - k
         /\ \A i \in 0..(Filled(r) - k) - 1 : Cell(p, i) = Cell(r, k + i)
<1>0. r.in \in 0..BufLen - 1 /\ r.out \in 0..BufLen - 1 /\ BufLen \in Nat \ {0}
  BY JtagAssumption DEF Rings
<1>r. /\ r.buf \in [0..BufLen - 1 -> Nat]
      /\ r = [in |-> r.in, out |-> r.out, buf |-> r.buf, next |-> r.next]
  BY DEF Rings
<1>1. /\ Filled(r) = IF r.in < r.out THEN (r.in + BufLen) - r.out ELSE r.in - r.out
      /\ Filled(r) \in 0..BufLen - 1
  BY FilledIs
<1>2. /\ Place(r.out + k) = IF r.out + k < BufLen THEN r.out + k ELSE (r.out + k) - BufLen
      /\ Place(r.out + k) \in 0..BufLen - 1
  BY <1>0, <1>1, CellPlaces
<1>3. p = [in |-> r.in, out |-> Place(r.out + k), buf |-> r.buf, next |-> next]
  BY <1>r DEF TakenOut
<1>4. p \in Rings /\ p.in = r.in /\ p.out = Place(r.out + k) /\ p.buf = r.buf /\ p.next = next
  BY <1>r, <1>0, <1>2, <1>3 DEF Rings
<1>5. Filled(p) = Filled(r) - k
  <2>1. Filled(p) = IF p.in < p.out THEN (p.in + BufLen) - p.out ELSE p.in - p.out
    BY <1>4, FilledIs
  <2> QED BY <1>0, <1>1, <1>2, <1>4, <2>1
<1>6. \A i \in 0..(Filled(r) - k) - 1 : Cell(p, i) = Cell(r, k + i)
  <2> TAKE i \in 0..(Filled(r) - k) - 1
  <2>1. i \in 0..BufLen - 1 /\ k + i \in 0..BufLen - 1
    BY <1>0, <1>1
  <2>2. Place(p.out + i) = IF p.out + i < BufLen THEN p.out + i ELSE (p.out + i) - BufLen
    BY <1>4, <2>1, CellPlaces
  <2>3. Place(r.out + (k + i)) = IF r.out + (k + i) < BufLen THEN r.out + (k + i)
                                                          ELSE (r.out + (k + i)) - BufLen
    BY <2>1, CellPlaces
  <2>4. Place(p.out + i) = Place(r.out + (k + i))
    BY <1>0, <1>1, <1>2, <1>4, <2>1, <2>2, <2>3
  <2> QED BY <1>4, <2>4 DEF Cell
<1> QED BY <1>4, <1>5, <1>6

LEMMA PutInIs ==
  ASSUME NEW r \in Rings, NEW k \in 0..(BufLen - 1) - Filled(r), NEW next \in Numbers,
         NEW p, PutIn(p, r, k, next)
  PROVE  /\ p \in Rings /\ p.out = r.out /\ p.buf = r.buf /\ p.next = next
         /\ Filled(p) = Filled(r) + k
<1>0. r.in \in 0..BufLen - 1 /\ r.out \in 0..BufLen - 1 /\ BufLen \in Nat \ {0}
  BY JtagAssumption DEF Rings
<1>r. /\ r.buf \in [0..BufLen - 1 -> Nat]
      /\ r = [in |-> r.in, out |-> r.out, buf |-> r.buf, next |-> r.next]
  BY DEF Rings
<1>1. /\ Filled(r) = IF r.in < r.out THEN (r.in + BufLen) - r.out ELSE r.in - r.out
      /\ Filled(r) \in 0..BufLen - 1
  BY FilledIs
<1>2. /\ Place(r.in + k) = IF r.in + k < BufLen THEN r.in + k ELSE (r.in + k) - BufLen
      /\ Place(r.in + k) \in 0..BufLen - 1
  <2>1. r.in + k \in Nat /\ r.in + k < BufLen + BufLen
    BY <1>0, <1>1
  <2> QED BY <2>1, PlaceIs
<1>3. p = [in |-> Place(r.in + k), out |-> r.out, buf |-> r.buf, next |-> next]
  BY <1>r DEF PutIn
<1>4. p \in Rings /\ p.in = Place(r.in + k) /\ p.out = r.out /\ p.buf = r.buf /\ p.next = next
  BY <1>r, <1>0, <1>2, <1>3 DEF Rings
<1>5. Filled(p) = IF p.in < p.out THEN (p.in + BufLen) - p.out ELSE p.in - p.out
  BY <1>4, FilledIs
<1>6. Filled(p) = Filled(r) + k
  BY <1>0, <1>1, <1>2, <1>4, <1>5
<1> QED BY <1>4, <1>6

(* The cells behind the last byte are those from in on.                    *)
LEMMA FreeCells ==
  ASSUME NEW r \in Rings, NEW i \in 0..(BufLen - 1) - Filled(r), r.in + i < BufLen
  PROVE  Place(r.out + (Filled(r) + i)) = r.in + i
<1>0. r.in \in 0..BufLen - 1 /\ r.out \in 0..BufLen - 1 /\ BufLen \in Nat \ {0}
  BY JtagAssumption DEF Rings
<1>1. /\ Filled(r) = IF r.in < r.out THEN (r.in + BufLen) - r.out ELSE r.in - r.out
      /\ Filled(r) \in 0..BufLen - 1
  BY FilledIs
<1>2. Filled(r) + i \in 0..BufLen - 1
  BY <1>0, <1>1
<1>3. Place(r.out + (Filled(r) + i)) = IF r.out + (Filled(r) + i) < BufLen THEN r.out + (Filled(r) + i)
                                                          ELSE (r.out + (Filled(r) + i)) - BufLen
  BY <1>2, CellPlaces
<1> QED BY <1>0, <1>1, <1>3

-----------------------------------------------------------------------------
(* What happens to the bytes of a direction.                               *)
LEMMA RingNumbers ==
  ASSUME NEW r \in Rings
  PROVE  r.next \in Numbers /\ Filled(r) \in 0..BufLen - 1 /\ BufLen \in Nat \ {0}
BY FilledIs, JtagAssumption DEF Rings

LEMMA RxPut ==
  ASSUME NEW r \in Rings, NEW s \in Queues, NEW sent, RxInOrder(r, s, sent),
         NEW n \in 0..Len(s), n <= (BufLen - 1) - Filled(r),
         NEW p, p = PutAll(r, SubSeq(s, 1, n))
  PROVE  /\ SubSeq(s, n + 1, Len(s)) \in Queues
         /\ p \in Rings /\ p.out = r.out /\ Filled(p) = Filled(r) + n
         /\ \A i \in 0..Filled(r) - 1 : Cell(p, i) = Cell(r, i)
         /\ RxInOrder(p, SubSeq(s, n + 1, Len(s)), sent)
<1>1. PICK l \in Nat : l = Len(s)
  BY LenProperties DEF Queues
<1>2. n \in Nat /\ n <= l /\ r.next \in Numbers /\ Filled(r) \in Nat
  BY <1>1, RingNumbers
<1>3. \A i \in 1..l : s[i] \in Nat /\ s[i] = Nth(r.next, (Filled(r) + i) - 1)
  BY <1>1, ElementOfSeq DEF Queues, RxInOrder
<1>4. PICK a : a = SubSeq(s, 1, n)
  OBVIOUS
<1>5. a \in Seq(Nat) /\ Len(a) = n /\ \A i \in 1..n : a[i] = s[i]
  <2>1. \A i \in 1..n : s[i] \in Nat
    BY <1>2, <1>3
  <2>2. /\ SubSeq(s, 1, n) \in Seq(Nat) /\ Len(SubSeq(s, 1, n)) = (IF 1 <= n THEN (n - 1) + 1 ELSE 0)
        /\ \A i \in 1..(n - 1) + 1 : SubSeq(s, 1, n)[i] = s[(1 + i) - 1]
    BY <1>2, <2>1, SubSeqProperties
  <2> QED BY <1>2, <1>4, <2>2
<1>6. PICK b : b = SubSeq(s, n + 1, l)
  OBVIOUS
<1>7. b \in Seq(Nat) /\ Len(b) = l - n /\ \A i \in 1..l - n : b[i] = s[n + i]
  <2>1. PICK m \in Int : m = n + 1
    BY <1>2
  <2>2. \A i \in m..l : s[i] \in Nat
    BY <1>2, <1>3, <2>1
  <2>3. /\ b \in Seq(Nat) /\ Len(b) = (IF m <= l THEN (l - m) + 1 ELSE 0)
        /\ \A i \in 1..(l - m) + 1 : b[i] = s[(m + i) - 1]
    BY <1>1, <1>6, <2>1, <2>2, SubSeqProperties, SMTT(30)
  <2>4. (l - m) + 1 = l - n /\ (m <= l \/ l - n = 0)
    BY <1>1, <1>2, <2>1
  <2>5. \A i \in 1..l - n : (m + i) - 1 = n + i
    BY <1>1, <1>2, <2>1
  <2> QED BY <2>3, <2>4, <2>5
<1>8. /\ p \in Rings /\ p.out = r.out /\ p.next = r.next /\ Filled(p) = Filled(r) + n
      /\ \A i \in 0..Filled(r) - 1 : Cell(p, i) = Cell(r, i)
      /\ \A i \in 0..n - 1 : Cell(p, Filled(r) + i) = a[i + 1]
  <2>1. PutSeq(p, r, a)
    BY <1>4, <1>5 DEF PutSeq
  <2> QED BY <1>2, <1>5, <2>1, PutAllIs
<1>9. \A i \in 0..Filled(p) - 1 : Cell(p, i) = Nth(p.next, i)
  <2> TAKE i \in 0..Filled(p) - 1
  <2>1. CASE i < Filled(r)
    <3>1. i \in 0..Filled(r) - 1
      BY <1>2, <1>8, <2>1
    <3> QED BY <1>8, <3>1 DEF RxInOrder
  <2>2. CASE ~(i < Filled(r))
    <3>1. PICK j \in 0..n - 1 : i = Filled(r) + j /\ j + 1 \in 1..n /\ j + 1 \in 1..l
      <4>1. i - Filled(r) \in 0..n - 1 /\ i = Filled(r) + (i - Filled(r))
        BY <1>2, <1>8, <2>2
      <4> QED BY <1>1, <1>2, <4>1
    <3>2. Cell(p, i) = a[j + 1] /\ a[j + 1] = s[j + 1]
      BY <1>5, <1>8, <3>1
    <3>3. s[j + 1] = Nth(r.next, (Filled(r) + (j + 1)) - 1) /\ (Filled(r) + (j + 1)) - 1 = i
      BY <1>2, <1>3, <3>1
    <3> QED BY <1>8, <3>2, <3>3
  <2> QED BY <2>1, <2>2
<1>10. \A i \in 1..Len(b) : b[i] = Nth(p.next, (Filled(p) + i) - 1)
  <2> TAKE i \in 1..Len(b)
  <2>1. i \in 1..l - n /\ n + i \in 1..l /\ (Filled(r) + (n + i)) - 1 = ((Filled(r) + n) + i) - 1
    BY <1>1, <1>2, <1>7
  <2> QED BY <1>3, <1>7, <1>8, <2>1
<1>11. sent = Nth(p.next, Filled(p) + Len(b))
  <2>0. Filled(p) = Filled(r) + n /\ Len(b) = l - n
    BY <1>7, <1>8
  <2>1. Filled(p) + Len(b) = Filled(r) + l
    BY <1>1, <1>2, <2>0
  <2> QED BY <1>1, <1>8, <2>1 DEF RxInOrder
<1>12. b \in Queues
  <2>1. l <= Depth /\ l - n <= l
    BY <1>1, <1>2 DEF Queues
  <2>2. l - n <= Depth
    BY <1>1, <1>2, <2>1, JtagAssumption
  <2> QED BY <1>7, <2>2 DEF Queues
<1>13. RxInOrder(p, b, sent)
  BY <1>9, <1>10, <1>11 DEF RxInOrder
<1> QED BY <1>1, <1>6, <1>8, <1>12, <1>13

LEMMA RxTake ==
  ASSUME NEW r \in Rings, NEW s \in Queues, NEW sent, RxInOrder(r, s, sent),
         NEW k \in 0..Filled(r), NEW p, TakenOut(p, r, k, Nth(r.next, k))
  PROVE  p \in Rings /\ RxInOrder(p, s, sent)
<1>1. PICK l \in Nat : l = Len(s) /\ l <= Depth
  BY LenProperties DEF Queues
<1>2. /\ r.next \in Numbers /\ Filled(r) \in Nat /\ k \in Nat /\ k <= Filled(r)
      /\ Filled(r) + l < ByteMod /\ ByteMod \in Nat
  BY <1>1, RingNumbers, JtagAssumption
<1>3. Nth(r.next, k) \in Numbers
  <2>1. k < ByteMod
    BY <1>1, <1>2
  <2> QED BY <1>2, <2>1, NthIs DEF Numbers
<1>4. /\ p \in Rings /\ p.next = Nth(r.next, k) /\ Filled(p) = Filled(r) - k
      /\ \A i \in 0..(Filled(r) - k) - 1 : Cell(p, i) = Cell(r, k + i)
  BY <1>3, TakeOutIs
<1>5. \A i \in Nat : i <= (Filled(r) - k) + l => Nth(p.next, i) = Nth(r.next, k + i)
  <2> TAKE i \in Nat
  <2> HAVE i <= (Filled(r) - k) + l
  <2>1. k + i < ByteMod
    BY <1>1, <1>2
  <2> QED BY <1>2, <1>4, <2>1, NthOfNth DEF Numbers
<1>6. \A i \in 0..Filled(p) - 1 : Cell(p, i) = Nth(p.next, i)
  <2> TAKE i \in 0..Filled(p) - 1
  <2>1. i \in Nat /\ i \in 0..(Filled(r) - k) - 1 /\ k + i \in 0..Filled(r) - 1 /\ i <= (Filled(r) - k) + l
    BY <1>1, <1>2, <1>4
  <2> QED BY <1>4, <1>5, <2>1 DEF RxInOrder
<1>7. \A i \in 1..Len(s) : s[i] = Nth(p.next, (Filled(p) + i) - 1)
  <2> TAKE i \in 1..Len(s)
  <2>1. /\ (Filled(p) + i) - 1 \in Nat /\ (Filled(p) + i) - 1 <= (Filled(r) - k) + l
        /\ k + ((Filled(p) + i) - 1) = (Filled(r) + i) - 1
    BY <1>1, <1>2, <1>4
  <2> QED BY <1>5, <2>1 DEF RxInOrder
<1>8. sent = Nth(p.next, Filled(p) + Len(s))
  <2>1. Filled(p) + l \in Nat /\ Filled(p) + l <= (Filled(r) - k) + l /\ k + (Filled(p) + l) = Filled(r) + l
    BY <1>1, <1>2, <1>4
  <2> QED BY <1>1, <1>5, <2>1 DEF RxInOrder
<1> QED BY <1>4, <1>6, <1>7, <1>8 DEF RxInOrder

LEMMA RxSend ==
  ASSUME NEW r \in Rings, NEW s \in Queues, NEW sent \in Numbers, RxInOrder(r, s, sent),
         Len(s) < Depth
  PROVE  /\ Append(s, sent) \in Queues /\ Nth(sent, 1) \in Numbers
         /\ RxInOrder(r, Append(s, sent), Nth(sent, 1))
<1>1. PICK l \in Nat : l = Len(s) /\ l < Depth
  BY LenProperties DEF Queues
<1>2. /\ r.next \in Numbers /\ Filled(r) \in Nat /\ sent \in Nat
      /\ (Filled(r) + l) + 1 < ByteMod /\ ByteMod \in Nat /\ 1 < ByteMod /\ Depth \in Nat
  BY <1>1, RingNumbers, JtagAssumption DEF Numbers
<1>3. PICK b : b = Append(s, sent)
  OBVIOUS
<1>4. b \in Seq(Nat) /\ Len(b) = l + 1 /\ b[l + 1] = sent /\ \A i \in 1..l : b[i] = s[i]
  <2>1. s \in Seq(Nat)
    BY DEF Queues
  <2> QED BY <1>1, <1>2, <1>3, <2>1, AppendProperties
<1>5. \A i \in 1..Len(b) : b[i] = Nth(r.next, (Filled(r) + i) - 1)
  <2> TAKE i \in 1..Len(b)
  <2>1. CASE i = l + 1
    <3>1. (Filled(r) + i) - 1 = Filled(r) + l
      BY <1>1, <1>2, <2>1
    <3> QED BY <1>1, <1>4, <2>1, <3>1 DEF RxInOrder
  <2>2. CASE i # l + 1
    <3>1. i \in 1..l
      BY <1>1, <1>4, <2>2
    <3> QED BY <1>1, <1>4, <3>1 DEF RxInOrder
  <2> QED BY <2>1, <2>2
<1>6. Nth(sent, 1) = Nth(r.next, Filled(r) + Len(b)) /\ Nth(sent, 1) \in Numbers
  <2>1. Filled(r) + l \in Nat /\ (Filled(r) + l) + 1 = Filled(r) + Len(b)
    <3>1. PICK f \in Nat : f = Filled(r)
      BY <1>2
    <3>2. Len(b) = l + 1
      BY <1>4
    <3> QED BY <3>1, <3>2
  <2>2. Nth(Nth(r.next, Filled(r) + l), 1) = Nth(r.next, (Filled(r) + l) + 1)
    <3>1. r.next \in 0..ByteMod - 1 /\ 1 \in Nat /\ (Filled(r) + l) + 1 < ByteMod
      BY <1>2 DEF Numbers
    <3> QED BY <2>1, <3>1, NthOfNth, Zenon
  <2>3. Nth(sent, 1) \in Numbers
    BY <1>2, NthIs DEF Numbers
  <2> QED BY <1>1, <2>1, <2>2, <2>3 DEF RxInOrder
<1>7. b \in Queues
  <2>1. l + 1 <= Depth
    BY <1>1, <1>2
  <2> QED BY <1>4, <2>1 DEF Queues
<1> QED BY <1>3, <1>5, <1>6, <1>7 DEF RxInOrder

LEMMA ContentIs ==
  ASSUME NEW r \in Rings
  PROVE  /\ Content(r) \in Seq(Nat) /\ Len(Content(r)) = Filled(r)
         /\ \A i \in 1..Filled(r) : Content(r)[i] = Cell(r, i - 1) /\ Cell(r, i - 1) \in Nat
<1>1. PICK f \in Nat : f = Filled(r)
  BY RingNumbers
<1>2. f <= BufLen - 1 /\ BufLen \in Nat
  BY <1>1, RingNumbers
<1>3. \A i \in 1..f : r.buf[Place(r.out + (i - 1))] \in Nat
  <2> TAKE i \in 1..f
  <2>1. i - 1 \in 0..BufLen - 1
    BY <1>1, <1>2
  <2>2. Place(r.out + (i - 1)) \in 0..BufLen - 1
    BY <2>1, CellPlaces
  <2> QED BY <2>2 DEF Rings
<1>4. PICK c : c = Content(r)
  OBVIOUS
<1>5. c = [i \in 1..f |-> r.buf[Place(r.out + (i - 1))]]
  BY <1>1, <1>4 DEF Content
<1>6. c \in [1..f -> Nat]
  BY <1>3, <1>5
<1>7. c \in Seq(Nat)
  BY <1>1, <1>6, SeqDef
<1>8. Len(c) = f
  <2>1. Len(c) \in Nat /\ 1..Len(c) = 1..f
    BY <1>6, <1>7, LenProperties
  <2> QED BY <1>1, <2>1
<1> QED BY <1>1, <1>3, <1>4, <1>5, <1>7, <1>8 DEF Cell

SentOn(b, s, r, m) == b = s \o SubSeq(Content(r), 1, m)

LEMMA TxTake ==
  ASSUME NEW r \in Rings, NEW s \in Queues, NEW got, TxInOrder(s, got, r),
         NEW m \in 0..Filled(r), Len(s) + m <= Depth,
         NEW p, TakenOut(p, r, m, r.next), NEW b, SentOn(b, s, r, m)
  PROVE  /\ b \in Queues /\ p \in Rings /\ TxInOrder(b, got, p)
         /\ p.in = r.in /\ p.buf = r.buf /\ p.next = r.next /\ Filled(p) = Filled(r) - m
<1>1. PICK l \in Nat : l = Len(s) /\ l + m <= Depth
  BY LenProperties DEF Queues
<1>2. /\ r.next \in Numbers /\ Filled(r) \in Nat /\ m \in Nat /\ m <= Filled(r)
  BY <1>1, RingNumbers
<1>4. /\ p \in Rings /\ p.in = r.in /\ p.buf = r.buf /\ p.next = r.next /\ Filled(p) = Filled(r) - m
      /\ \A i \in 0..(Filled(r) - m) - 1 : Cell(p, i) = Cell(r, m + i)
  BY <1>2, TakeOutIs
<1>5. PICK a : a = SubSeq(Content(r), 1, m)
  OBVIOUS
<1>6. a \in Seq(Nat) /\ Len(a) = m /\ \A i \in 1..m : a[i] = Cell(r, i - 1)
  <2>1. \A i \in 1..m : Content(r)[i] = Cell(r, i - 1) /\ Content(r)[i] \in Nat
    <3> TAKE i \in 1..m
    <3>1. i \in 1..Filled(r)
      BY <1>2
    <3> QED BY <3>1, ContentIs
  <2>2. /\ a \in Seq(Nat) /\ Len(a) = (IF 1 <= m THEN (m - 1) + 1 ELSE 0)
        /\ \A i \in 1..(m - 1) + 1 : a[i] = Content(r)[(1 + i) - 1]
    BY <1>2, <1>5, <2>1, SubSeqProperties
  <2>3. (m - 1) + 1 = m /\ (1 <= m \/ m = 0)
    BY <1>2
  <2>4. \A i \in 1..m : (1 + i) - 1 = i
    OBVIOUS
  <2> QED BY <2>1, <2>2, <2>3, <2>4
<1>7. /\ b \in Seq(Nat) /\ Len(b) = l + m
      /\ \A i \in 1..l + m : b[i] = IF i <= l THEN s[i] ELSE a[i - l]
  <2>1. s \in Seq(Nat)
    BY DEF Queues
  <2>2. b = s \o a
    BY <1>5 DEF SentOn
  <2> QED BY <1>1, <1>6, <2>1, <2>2, ConcatProperties
<1>8. \A i \in 1..Len(b) : b[i] = Nth(got, i - 1)
  <2> TAKE i \in 1..Len(b)
  <2>1. CASE i <= l
    <3>1. i \in 1..l /\ i \in 1..l + m
      BY <1>2, <1>7, <2>1
    <3> QED BY <1>1, <1>7, <2>1, <3>1 DEF TxInOrder
  <2>2. CASE ~(i <= l)
    <3>1. i \in 1..l + m /\ i - l \in 1..m /\ (i - l) - 1 \in 0..Filled(r) - 1 /\ l + ((i - l) - 1) = i - 1
      BY <1>2, <1>7, <2>2
    <3>2. b[i] = Cell(r, (i - l) - 1)
      BY <1>6, <1>7, <2>2, <3>1
    <3> QED BY <1>1, <3>1, <3>2 DEF TxInOrder
  <2> QED BY <2>1, <2>2
<1>9. \A i \in 0..Filled(p) - 1 : Cell(p, i) = Nth(got, Len(b) + i)
  <2> TAKE i \in 0..Filled(p) - 1
  <2>1. i \in 0..(Filled(r) - m) - 1 /\ m + i \in 0..Filled(r) - 1 /\ l + (m + i) = Len(b) + i
    BY <1>2, <1>4, <1>7
  <2> QED BY <1>1, <1>4, <2>1 DEF TxInOrder
<1>10. p.next = Nth(got, Len(b) + Filled(p))
  <2>0. Len(b) = l + m /\ Filled(p) = Filled(r) - m
    BY <1>4, <1>7
  <2>1. Len(b) + Filled(p) = l + Filled(r)
    BY <1>2, <2>0
  <2> QED BY <1>1, <1>4, <2>1 DEF TxInOrder
<1>11. b \in Queues
  BY <1>1, <1>7 DEF Queues
<1> QED BY <1>4, <1>8, <1>9, <1>10, <1>11 DEF TxInOrder

(* A write has the cells behind the last byte ready.                       *)
LEMMA TxPut ==
  ASSUME NEW r \in Rings, NEW s \in Queues, NEW got \in Numbers, TxInOrder(s, got, r),
         NEW k \in 1..(BufLen - 1) - Filled(r), r.in + k <= BufLen,
         \A i \in 0..k - 1 : r.buf[r.in + i] = Nth(r.next, i),
         NEW p, PutIn(p, r, k, Nth(r.next, k))
  PROVE  p \in Rings /\ p.out = r.out /\ TxInOrder(s, got, p)
<1>1. PICK l \in Nat : l = Len(s) /\ l <= Depth
  BY LenProperties DEF Queues
<1>2. /\ r.next \in Numbers /\ Filled(r) \in Nat /\ k \in Nat /\ Filled(r) + k <= BufLen - 1
      /\ BufLen \in Nat \ {0} /\ r.in \in Nat
  BY <1>1, RingNumbers DEF Rings
<1>3. ByteMod \in Nat /\ k < ByteMod /\ (l + Filled(r)) + k < ByteMod
  BY <1>1, <1>2, JtagAssumption
<1>4. Nth(r.next, k) \in Numbers
  BY <1>2, <1>3, NthIs DEF Numbers
<1>5. /\ p \in Rings /\ p.out = r.out /\ p.buf = r.buf /\ p.next = Nth(r.next, k)
      /\ Filled(p) = Filled(r) + k
  BY <1>2, <1>4, PutInIs
<1>6. \A i \in 0..k : Nth(r.next, i) = Nth(got, (l + Filled(r)) + i)
  <2> TAKE i \in 0..k
  <2>1. i \in Nat /\ l + Filled(r) \in Nat /\ (l + Filled(r)) + i < ByteMod
    BY <1>1, <1>2, <1>3
  <2>2. Nth(Nth(got, l + Filled(r)), i) = Nth(got, (l + Filled(r)) + i)
    BY <2>1, NthOfNth DEF Numbers
  <2> QED BY <1>1, <2>2 DEF TxInOrder
<1>7. \A i \in 0..Filled(p) - 1 : Cell(p, i) = Nth(got, Len(s) + i)
  <2> TAKE i \in 0..Filled(p) - 1
  <2>1. Cell(p, i) = Cell(r, i)
    BY <1>5 DEF Cell
  <2>2. CASE i < Filled(r)
    <3>1. i \in 0..Filled(r) - 1
      BY <1>2, <1>5, <2>2
    <3> QED BY <2>1, <3>1 DEF TxInOrder
  <2>3. CASE ~(i < Filled(r))
    <3>1. PICK j \in 0..k - 1 : i = Filled(r) + j
      <4>1. i - Filled(r) \in 0..k - 1 /\ i = Filled(r) + (i - Filled(r))
        BY <1>2, <1>5, <2>3
      <4> QED BY <4>1
    <3>2. j \in 0..(BufLen - 1) - Filled(r) /\ r.in + j < BufLen /\ j \in 0..k
      BY <1>2, <3>1
    <3>3. Cell(r, i) = r.buf[r.in + j]
      BY <3>1, <3>2, FreeCells DEF Cell
    <3>4. (l + Filled(r)) + j = l + i
      BY <1>1, <1>2, <3>1
    <3> QED BY <1>1, <1>6, <2>1, <3>1, <3>2, <3>3, <3>4
  <2> QED BY <2>2, <2>3
<1>8. p.next = Nth(got, Len(s) + Filled(p))
  <2>1. (l + Filled(r)) + k = l + Filled(p) /\ k \in 0..k
    BY <1>1, <1>2, <1>5
  <2> QED BY <1>1, <1>5, <1>6, <2>1
<1> QED BY <1>5, <1>7, <1>8 DEF TxInOrder

LEMMA TxRead ==
  ASSUME NEW r \in Rings, NEW s \in Queues, NEW got \in Numbers, TxInOrder(s, got, r),
         s # <<>>
  PROVE  /\ Tail(s) \in Queues /\ Nth(got, 1) \in Numbers
         /\ TxInOrder(Tail(s), Nth(got, 1), r)
<1>1. PICK b : b = Tail(s)
  OBVIOUS
<1>2. PICK l \in Nat : l = Len(s) /\ l <= Depth
  BY LenProperties DEF Queues
<1>3. b \in Seq(Nat) /\ Len(b) = l - 1 /\ \A i \in 1..l - 1 : b[i] = s[i + 1]
  BY <1>1, <1>2, HeadTailProperties DEF Queues
<1>4. l - 1 \in Nat
  BY <1>3, LenProperties
<1>5. /\ r.next \in Numbers /\ Filled(r) \in Nat /\ l + Filled(r) < ByteMod /\ ByteMod \in Nat
      /\ 1 < ByteMod /\ Depth \in Nat
  BY <1>2, RingNumbers, JtagAssumption
<1>6. \A i \in Nat : i < l + Filled(r) => Nth(Nth(got, 1), i) = Nth(got, 1 + i)
  <2> TAKE i \in Nat
  <2> HAVE i < l + Filled(r)
  <2>1. 1 + i < ByteMod /\ 1 \in Nat
    BY <1>2, <1>5
  <2> QED BY <2>1, NthOfNth DEF Numbers
<1>7. \A i \in 1..Len(b) : b[i] = Nth(Nth(got, 1), i - 1)
  <2> TAKE i \in 1..Len(b)
  <2>1. i \in 1..l - 1 /\ i + 1 \in 1..l /\ i - 1 \in Nat /\ i - 1 < l + Filled(r)
        /\ (i + 1) - 1 = 1 + (i - 1)
    BY <1>2, <1>3, <1>4, <1>5
  <2> QED BY <1>2, <1>3, <1>6, <2>1 DEF TxInOrder
<1>8. \A i \in 0..Filled(r) - 1 : Cell(r, i) = Nth(Nth(got, 1), Len(b) + i)
  <2> TAKE i \in 0..Filled(r) - 1
  <2>1. Len(b) + i \in Nat /\ Len(b) + i < l + Filled(r) /\ 1 + (Len(b) + i) = l + i
    BY <1>2, <1>3, <1>4, <1>5
  <2> QED BY <1>2, <1>6, <2>1 DEF TxInOrder
<1>9. r.next = Nth(Nth(got, 1), Len(b) + Filled(r))
  <2>1. Len(b) + Filled(r) \in Nat /\ Len(b) + Filled(r) < l + Filled(r) /\ 1 + (Len(b) + Filled(r)) = l + Filled(r)
    BY <1>2, <1>3, <1>4, <1>5
  <2> QED BY <1>2, <1>6, <2>1 DEF TxInOrder
<1>10. b \in Queues
  <2>1. l - 1 <= Depth
    BY <1>2, <1>5
  <2> QED BY <1>3, <2>1 DEF Queues
<1>11. Nth(got, 1) \in Numbers
  BY <1>5, NthIs DEF Numbers
<1> QED BY <1>1, <1>7, <1>8, <1>9, <1>10, <1>11 DEF TxInOrder

-----------------------------------------------------------------------------
(* The steps.                                                              *)
LEMMA JtagInitInv == JtagInit => UartInv
<1> SUFFICES ASSUME JtagInit PROVE UartInv
  OBVIOUS
<1>0. BufLen \in Nat \ {0} /\ ByteMod \in Nat \ {0} /\ Depth \in Nat
  BY JtagAssumption
<1>1. Ring \in Rings /\ Ring.out = 0 /\ Ring.in = 0 /\ Ring.next = 0
  BY <1>0 DEF Ring, Rings, Numbers
<1>2. Filled(Ring) = 0
  BY <1>1, FilledIs
<1>3. <<>> \in Queues /\ Len(<<>>) = 0
  BY <1>0, EmptySeq DEF Queues
<1>4. Nth(0, 0) = 0 /\ 0 \in Numbers
  BY <1>0, NthIs DEF Numbers
<1>5. RxInOrder(Ring, <<>>, 0) /\ TxInOrder(<<>>, 0, Ring)
  BY <1>1, <1>2, <1>3, <1>4 DEF RxInOrder, TxInOrder
<1>6. BytesInv
  BY <1>1, <1>3, <1>4, <1>5 DEF BytesInv, JtagInit
<1>7. Idling \in JtagCalls
  <2>1. 0 \in 0..BufLen - 1 /\ 0 \in 0..MaxCount
    BY JtagAssumption
  <2> QED BY <2>1, EmptySeq DEF Idling, JtagCalls, Places
<1>8. CallsInv
  BY <1>7 DEF CallsInv, JtagInit, CallRight, Idling, Holding, ReadsRight, WritesRight, Moving
<1> QED BY <1>6, <1>8 DEF UartInv

LEMMA IdlingIs ==
  /\ Idling \in JtagCalls /\ Idling.pc = "idle" /\ Idling.op = "read"
  /\ ~Holding(Idling) /\ ~Moving(Idling, "read") /\ ~Moving(Idling, "write")
<1>1. 0 \in 0..BufLen - 1 /\ 0 \in 0..MaxCount
  BY JtagAssumption
<1> QED BY <1>1, EmptySeq DEF Idling, JtagCalls, Places, Holding, Moving

LEMMA CallFields ==
  ASSUME NEW c \in JtagCalls
  PROVE  /\ c.pc \in Places /\ c.op \in {"read", "write", "close"} /\ c.count \in 0..MaxCount
         /\ c.nonblock \in BOOLEAN /\ c.moved \in BOOLEAN
         /\ c.in \in 0..BufLen - 1 /\ c.out \in 0..BufLen - 1 /\ c.n \in 0..BufLen - 1
         /\ c.chunk \in Seq(Nat) /\ c.rdy \in SUBSET JtagFlags
BY DEF JtagCalls

(* A task goes on in its call, with nothing else that bytes depend on.     *)
QuietCall(t, r) ==
  /\ call' = [call EXCEPT ![t] = r]
  /\ UNCHANGED <<rx, tx, rw_lock, hw>> /\ events' \subseteq JtagFlags

LEMMA OneCall ==
  ASSUME UartInv, NEW t \in Users, NEW r \in JtagCalls, QuietCall(t, r),
         CallRight(r, t, rw_lock, rx, tx)
  PROVE  UartInv'
<1>1. call' \in [Users -> JtagCalls] /\ \A u \in Users : call'[u] = IF u = t THEN r ELSE call[u]
  BY Zenon DEF UartInv, CallsInv, QuietCall
<1>2. rx' = rx /\ tx' = tx /\ rw_lock' = rw_lock /\ hw' = hw
  BY DEF QuietCall
<1>3. \A u \in Users : CallRight(call'[u], u, rw_lock', rx', tx')
  BY <1>1, <1>2, Zenon DEF UartInv, CallsInv
<1>4. events' \subseteq JtagFlags /\ rw_lock' \in [{"read", "write"} -> SUBSET Users]
  BY <1>2, Zenon DEF UartInv, CallsInv, QuietCall
<1>5. CallsInv'
  BY <1>1, <1>3, <1>4, Zenon DEF CallsInv
<1>6. BytesInv'
  BY <1>2, Zenon DEF UartInv, BytesInv
<1> QED BY <1>5, <1>6 DEF UartInv

(* Goto to another place of the same kind.                                 *)
LEMMA GotoIs ==
  ASSUME NEW c \in JtagCalls, NEW pc \in Places \ {"idle"}, NEW r, r = [c EXCEPT !.pc = pc]
  PROVE  /\ r \in JtagCalls /\ r.pc = pc /\ r.op = c.op /\ r.n = c.n /\ r.in = c.in /\ r.out = c.out
         /\ r.chunk = c.chunk /\ r.count = c.count
BY DEF JtagCalls

LEMMA GotoRight ==
  ASSUME UartInv, NEW t \in Users, NEW pc \in Places \ {"copy", "advance", "close"},
         Goto(t, pc), pc = "idle" \/ call[t].pc # "close",
         pc = "idle" \/ (Holding([call[t] EXCEPT !.pc = pc]) => Holding(call[t])),
         UNCHANGED <<rx, tx, rw_lock, hw>>, events' \subseteq JtagFlags
  PROVE  UartInv'
<1>0. call[t] \in JtagCalls /\ CallRight(call[t], t, rw_lock, rx, tx)
  BY DEF UartInv, CallsInv
<1>1. CASE pc = "idle"
  <2>1. QuietCall(t, Idling)
    BY <1>1 DEF QuietCall, Goto
  <2>2. CallRight(Idling, t, rw_lock, rx, tx)
    BY IdlingIs DEF CallRight, ReadsRight, WritesRight
  <2> QED BY <2>1, <2>2, IdlingIs, OneCall
<1>2. CASE pc # "idle"
  <2>1. PICK r : r = [call[t] EXCEPT !.pc = pc]
    OBVIOUS
  <2>2. QuietCall(t, r)
    BY <1>2, <2>1 DEF QuietCall, Goto
  <2>3. r \in JtagCalls /\ r.pc = pc /\ r.op = call[t].op
    BY <1>0, <1>2, <2>1, GotoIs
  <2>4. ~Moving(r, "read") /\ ~Moving(r, "write")
    BY <2>3 DEF Moving
  <2>5. CallRight(r, t, rw_lock, rx, tx)
    BY <1>0, <1>2, <2>1, <2>3, <2>4 DEF CallRight, ReadsRight, WritesRight
  <2> QED BY <2>2, <2>3, <2>5, OneCall
<1> QED BY <1>1, <1>2

LEMMA BeginInv ==
  ASSUME UartInv, NEW t \in Users, NEW op \in {"read", "write", "close"}, NEW count \in 0..MaxCount,
         NEW nonblock \in BOOLEAN, Begin(t, op, count, nonblock)
  PROVE  UartInv'
<1>1. PICK pc : pc = IF op = "close" THEN "close" ELSE "lock"
  OBVIOUS
<1>2. PICK r : r = [Idling EXCEPT !.pc = pc, !.op = op, !.count = count, !.nonblock = nonblock]
  OBVIOUS
<1>3. /\ r \in JtagCalls /\ r.pc = pc /\ r.op = op
  BY <1>1, <1>2, IdlingIs DEF JtagCalls, Places
<1>4. CallRight(r, t, rw_lock, rx, tx)
  BY <1>1, <1>3 DEF CallRight, Holding, ReadsRight, WritesRight, Moving
<1>5. QuietCall(t, r)
  <2>1. events' = events /\ events \subseteq JtagFlags
    BY DEF Begin, UartInv, CallsInv
  <2> QED BY <1>1, <1>2, <2>1 DEF QuietCall, Begin
<1> QED BY <1>3, <1>4, <1>5, OneCall

(* Nobody else moves bytes in the direction whose lock a task has.         *)
LEMMA OnlyOneMoves ==
  ASSUME UartInv, NEW t \in Users, Holding(call[t]), NEW u \in Users \ {t}, NEW op,
         op = call[t].op
  PROVE  ~(Holding(call[u]) /\ call[u].op = op)
<1>1. Holding(call[t]) => rw_lock[call[t].op] = {t}
  BY DEF UartInv, CallsInv, CallRight
<1>2. Holding(call[u]) => rw_lock[call[u].op] = {u}
  BY DEF UartInv, CallsInv, CallRight
<1> QED BY <1>1, <1>2

LEMMA MovingHolds ==
  ASSUME NEW c, NEW op, Moving(c, op)
  PROVE  Holding(c) /\ c.op = op
BY DEF Moving, Holding

LEMMA DriverLockInv ==
  ASSUME UartInv, NEW t \in Users, Lock(t)
  PROVE  UartInv'
<1>0. /\ call[t] \in JtagCalls /\ CallRight(call[t], t, rw_lock, rx, tx) /\ call[t].pc = "lock"
      /\ rx' = rx /\ tx' = tx /\ hw' = hw /\ events' \subseteq JtagFlags
      /\ call \in [Users -> JtagCalls]
  BY DEF UartInv, CallsInv, Lock
<1>1. PICK op : op = call[t].op
  OBVIOUS
<1>2. op \in {"read", "write"}
  BY <1>0, <1>1, CallFields DEF CallRight
<1>3. CASE rw_lock[op] # {} /\ Goto(t, "queue") /\ UNCHANGED rw_lock
  <2>1. ~Holding([call[t] EXCEPT !.pc = "queue"]) /\ "queue" \in Places \ {"copy", "advance", "close"}
    <3>1. PICK r : r = [call[t] EXCEPT !.pc = "queue"]
      OBVIOUS
    <3>2. r.pc = "queue"
      BY <1>0, <3>1, GotoIs DEF Places
    <3> QED BY <3>1, <3>2 DEF Holding, Places
  <2> QED BY <1>0, <1>3, <2>1, GotoRight
<1>4. CASE rw_lock[op] = {} /\ rw_lock' = [rw_lock EXCEPT ![op] = {t}] /\ Goto(t, "load")
  <2>1. PICK r : r = [call[t] EXCEPT !.pc = "load"]
    OBVIOUS
  <2>2. r \in JtagCalls /\ r.pc = "load" /\ r.op = op
    BY <1>0, <1>1, <2>1, GotoIs DEF Places
  <2>3. call' \in [Users -> JtagCalls] /\ \A u \in Users : call'[u] = IF u = t THEN r ELSE call[u]
    BY <1>0, <1>4, <2>1, <2>2 DEF Goto
  <2>4. /\ rw_lock' \in [{"read", "write"} -> SUBSET Users]
        /\ \A d \in {"read", "write"} : rw_lock'[d] = IF d = op THEN {t} ELSE rw_lock[d]
    BY <1>2, <1>4 DEF UartInv, CallsInv
  <2>5. \A u \in Users : CallRight(call'[u], u, rw_lock', rx, tx)
    <3> TAKE u \in Users
    <3>1. CASE u = t
      BY <1>2, <2>2, <2>3, <2>4, <3>1 DEF CallRight, ReadsRight, WritesRight, Moving
    <3>2. CASE u # t
      <4>1. call'[u] = call[u] /\ CallRight(call[u], u, rw_lock, rx, tx) /\ call[u] \in JtagCalls
        BY <2>3, <3>2 DEF UartInv, CallsInv
      <4>2. Holding(call[u]) => call[u].op \in {"read", "write"}
        BY <4>1, CallFields DEF CallRight, Holding
      <4>3. Holding(call[u]) => call[u].op # op
        BY <1>4, <4>1 DEF CallRight
      <4>4. Holding(call[u]) => rw_lock'[call[u].op] = {u}
        BY <2>4, <4>1, <4>2, <4>3 DEF CallRight
      <4> QED BY <4>1, <4>4 DEF CallRight
    <3> QED BY <3>1, <3>2
  <2>6. BytesInv'
    BY <1>0 DEF UartInv, BytesInv
  <2> QED BY <1>0, <2>3, <2>4, <2>5, <2>6 DEF UartInv, CallsInv
<1> QED BY <1>1, <1>3, <1>4 DEF Lock

LEMMA LoadReadInv ==
  ASSUME UartInv, NEW t \in Users, LoadRead(t)
  PROVE  UartInv'
<1>0. /\ call[t] \in JtagCalls /\ CallRight(call[t], t, rw_lock, rx, tx)
      /\ call[t].pc = "load" /\ call[t].op = "read" /\ rx \in Rings
  BY DEF UartInv, CallsInv, BytesInv, LoadRead, At
<1>1. PICK c : c = call[t]
  OBVIOUS
<1>2. PICK n : n = Least({ReadRun(rx.in, rx.out), c.count})
  OBVIOUS
<1>3. PICK pc : pc = IF n > 0 THEN "copy" ELSE IF c.moved \/ c.nonblock THEN "unlock" ELSE "pend"
  OBVIOUS
<1>4. PICK r : r = [c EXCEPT !.in = rx.in, !.out = rx.out, !.n = n, !.pc = pc]
  OBVIOUS
<1>5. QuietCall(t, r)
  <2>1. events' = events /\ events \subseteq JtagFlags
    BY DEF LoadRead, UartInv, CallsInv
  <2>2. call' = [call EXCEPT ![t] = r]
    BY <1>1, <1>2, <1>3, <1>4 DEF LoadRead
  <2> QED BY <2>1, <2>2 DEF QuietCall, LoadRead
<1>6. rx.in \in 0..BufLen - 1 /\ rx.out \in 0..BufLen - 1 /\ BufLen \in Nat \ {0} /\ c.count \in Nat
  BY <1>0, <1>1, CallFields, JtagAssumption DEF Rings
<1>7. /\ Filled(rx) = IF rx.in < rx.out THEN (rx.in + BufLen) - rx.out ELSE rx.in - rx.out
      /\ Filled(rx) \in 0..BufLen - 1
  BY <1>0, FilledIs
<1>8. PICK m : m = ReadRun(rx.in, rx.out)
  OBVIOUS
<1>9. m \in 0..Filled(rx) /\ rx.out + m <= BufLen
  BY <1>6, <1>7, <1>8 DEF ReadRun
<1>10. n \in 0..m /\ n <= c.count
  BY <1>2, <1>6, <1>7, <1>8, <1>9, LeastOfTwo
<1>11. /\ r \in JtagCalls /\ r.pc = pc /\ r.op = "read" /\ r.n = n /\ r.out = rx.out
       /\ r.count = c.count
  <2>1. n \in 0..BufLen - 1 /\ pc \in Places
    BY <1>3, <1>6, <1>7, <1>9, <1>10 DEF Places
  <2> QED BY <1>0, <1>1, <1>4, <1>6, <2>1 DEF JtagCalls
<1>12. ReadsRight(r, rx)
  <2>1. pc = "copy" => n \in 1..Filled(rx) /\ rx.out + n <= BufLen
    BY <1>3, <1>6, <1>7, <1>9, <1>10
  <2>2. pc # "advance"
    BY <1>3
  <2> QED BY <1>10, <1>11, <2>1, <2>2 DEF ReadsRight, Moving
<1>13. CallRight(r, t, rw_lock, rx, tx)
  <2>1. Holding(call[t]) /\ rw_lock["read"] = {t}
    BY <1>0 DEF CallRight, Holding
  <2> QED BY <1>3, <1>11, <1>12, <2>1 DEF CallRight, WritesRight, Moving
<1> QED BY <1>5, <1>11, <1>13, OneCall

LEMMA LoadWriteInv ==
  ASSUME UartInv, NEW t \in Users, LoadWrite(t)
  PROVE  UartInv'
<1>0. /\ call[t] \in JtagCalls /\ CallRight(call[t], t, rw_lock, rx, tx)
      /\ call[t].pc = "load" /\ call[t].op = "write" /\ tx \in Rings
  BY DEF UartInv, CallsInv, BytesInv, LoadWrite, At
<1>1. PICK c : c = call[t]
  OBVIOUS
<1>2. PICK n : n = Least({WriteRun(tx.in, tx.out), c.count})
  OBVIOUS
<1>3. PICK pc : pc = IF n > 0 THEN "copy" ELSE "enable"
  OBVIOUS
<1>4. PICK r : r = [c EXCEPT !.in = tx.in, !.n = n, !.pc = pc]
  OBVIOUS
<1>5. QuietCall(t, r)
  <2>1. events' = events /\ events \subseteq JtagFlags
    BY DEF LoadWrite, UartInv, CallsInv
  <2>2. call' = [call EXCEPT ![t] = r]
    BY <1>1, <1>2, <1>3, <1>4 DEF LoadWrite
  <2> QED BY <2>1, <2>2 DEF QuietCall, LoadWrite
<1>6. tx.in \in 0..BufLen - 1 /\ tx.out \in 0..BufLen - 1 /\ BufLen \in Nat \ {0} /\ c.count \in Nat
  BY <1>0, <1>1, CallFields, JtagAssumption DEF Rings
<1>7. /\ Filled(tx) = IF tx.in < tx.out THEN (tx.in + BufLen) - tx.out ELSE tx.in - tx.out
      /\ Filled(tx) \in 0..BufLen - 1
  BY <1>0, FilledIs
<1>8. PICK m : m = WriteRun(tx.in, tx.out)
  OBVIOUS
<1>9. m \in 0..(BufLen - 1) - Filled(tx) /\ tx.in + m <= BufLen
  BY <1>6, <1>7, <1>8 DEF WriteRun
<1>10. n \in 0..m /\ n <= c.count
  BY <1>2, <1>6, <1>7, <1>8, <1>9, LeastOfTwo
<1>11. /\ r \in JtagCalls /\ r.pc = pc /\ r.op = "write" /\ r.n = n /\ r.in = tx.in
       /\ r.count = c.count
  <2>1. n \in 0..BufLen - 1 /\ pc \in Places
    BY <1>3, <1>6, <1>7, <1>9, <1>10 DEF Places
  <2> QED BY <1>0, <1>1, <1>4, <1>6, <2>1 DEF JtagCalls
<1>12. WritesRight(r, tx)
  <2>1. pc = "copy" => n \in 1..(BufLen - 1) - Filled(tx) /\ tx.in + n <= BufLen
    BY <1>3, <1>6, <1>7, <1>9, <1>10
  <2>2. pc # "advance"
    BY <1>3
  <2> QED BY <1>10, <1>11, <2>1, <2>2 DEF WritesRight, Moving
<1>13. CallRight(r, t, rw_lock, rx, tx)
  <2>1. Holding(call[t]) /\ rw_lock["write"] = {t}
    BY <1>0 DEF CallRight, Holding
  <2> QED BY <1>3, <1>11, <1>12, <2>1 DEF CallRight, ReadsRight, Moving
<1> QED BY <1>5, <1>11, <1>13, OneCall

LEMMA CopyReadInv ==
  ASSUME UartInv, NEW t \in Users, CopyRead(t)
  PROVE  UartInv'
<1>0. /\ call[t] \in JtagCalls /\ CallRight(call[t], t, rw_lock, rx, tx)
      /\ call[t].pc = "copy" /\ call[t].op = "read" /\ rx \in Rings
  BY DEF UartInv, CallsInv, BytesInv, CopyRead, At
<1>1. PICK c : c = call[t]
  OBVIOUS
<1>2. PICK chunk : chunk = [i \in 1..c.n |-> rx.buf[c.out + (i - 1)]]
  OBVIOUS
<1>3. PICK r : r = [c EXCEPT !.chunk = chunk, !.pc = "advance"]
  OBVIOUS
<1>4. QuietCall(t, r)
  <2>1. events' = events /\ events \subseteq JtagFlags
    BY DEF CopyRead, UartInv, CallsInv
  <2>2. call' = [call EXCEPT ![t] = r]
    BY <1>1, <1>2, <1>3 DEF CopyRead
  <2> QED BY <2>1, <2>2 DEF QuietCall, CopyRead
<1>5. /\ c.out = rx.out /\ c.n \in 1..Filled(rx) /\ rx.out + c.n <= BufLen /\ c.n <= c.count
      /\ rw_lock["read"] = {t}
  BY <1>0, <1>1 DEF CallRight, ReadsRight, Moving, Holding
<1>6. chunk \in Seq(Nat)
  <2>1. rx.out \in Nat /\ c.n \in Nat /\ BufLen \in Nat
    BY <1>0, <1>5, RingNumbers DEF Rings
  <2>2. \A i \in 1..c.n : c.out + (i - 1) \in 0..BufLen - 1
    BY <1>5, <2>1
  <2>3. \A i \in 1..c.n : rx.buf[c.out + (i - 1)] \in Nat
    BY <1>0, <2>2 DEF Rings
  <2>4. chunk \in [1..c.n -> Nat]
    BY <1>2, <2>3
  <2> QED BY <2>1, <2>4, SeqDef
<1>7. /\ r \in JtagCalls /\ r.pc = "advance" /\ r.op = "read" /\ r.n = c.n /\ r.out = c.out
      /\ r.count = c.count /\ r.chunk = chunk
  BY <1>0, <1>1, <1>3, <1>6 DEF JtagCalls, Places
<1>8. ReadsRight(r, rx)
  BY <1>2, <1>5, <1>7 DEF ReadsRight
<1>9. CallRight(r, t, rw_lock, rx, tx)
  BY <1>5, <1>7, <1>8 DEF CallRight, WritesRight, Moving
<1> QED BY <1>4, <1>7, <1>9, OneCall

LEMMA CopyWriteInv ==
  ASSUME UartInv, NEW t \in Users, CopyWrite(t)
  PROVE  UartInv'
<1>0. /\ call[t] \in JtagCalls /\ CallRight(call[t], t, rw_lock, rx, tx)
      /\ call[t].pc = "copy" /\ call[t].op = "write" /\ tx \in Rings
      /\ call \in [Users -> JtagCalls]
  BY DEF UartInv, CallsInv, BytesInv, CopyWrite, At
<1>u. rx' = rx /\ rw_lock' = rw_lock /\ hw' = hw /\ events' = events
  BY DEF CopyWrite
<1>1. PICK c : c = call[t]
  OBVIOUS
<1>2. PICK r : r = [c EXCEPT !.pc = "advance"]
  OBVIOUS
<1>3. PICK b : b = [i \in 0..BufLen - 1 |->
                      IF i \in c.in..(c.in + c.n - 1) THEN Nth(tx.next, i - c.in) ELSE tx.buf[i]]
  OBVIOUS
<1>4. PICK w : w = [tx EXCEPT !.buf = b]
  OBVIOUS
<1>5. tx' = w
  BY <1>1, <1>3, <1>4, Zenon DEF CopyWrite
<1>6. /\ c.in = tx.in /\ c.n \in 1..(BufLen - 1) - Filled(tx) /\ tx.in + c.n <= BufLen /\ c.n <= c.count
      /\ rw_lock["write"] = {t}
  BY <1>0, <1>1 DEF CallRight, WritesRight, Moving, Holding
<1>7. /\ tx.in \in 0..BufLen - 1 /\ tx.out \in 0..BufLen - 1 /\ BufLen \in Nat \ {0}
      /\ Filled(tx) \in 0..BufLen - 1 /\ c.n \in Nat
  BY <1>0, <1>6, RingNumbers DEF Rings
<1>8. c.n < ByteMod /\ ByteMod \in Nat /\ tx.next \in Numbers
  <2>1. tx.next \in Numbers
    BY <1>0, RingNumbers
  <2> QED BY <1>6, <1>7, <2>1, JtagAssumption
<1>9. b \in [0..BufLen - 1 -> Nat]
  <2>1. \A i \in 0..BufLen - 1 : i \in c.in..(c.in + c.n - 1) => Nth(tx.next, i - c.in) \in Nat
    <3> SUFFICES ASSUME NEW i \in 0..BufLen - 1, i \in c.in..(c.in + c.n - 1)
                 PROVE  Nth(tx.next, i - c.in) \in Nat
      OBVIOUS
    <3>1. i - c.in \in Nat /\ i - c.in < ByteMod
      BY <1>6, <1>7, <1>8
    <3>2. Nth(tx.next, i - c.in) \in 0..ByteMod - 1
      BY <1>8, <3>1, NthIs DEF Numbers
    <3> QED BY <1>8, <3>2
  <2>2. \A i \in 0..BufLen - 1 : tx.buf[i] \in Nat
    BY <1>0 DEF Rings
  <2>3. \A i \in 0..BufLen - 1 :
          (IF i \in c.in..(c.in + c.n - 1) THEN Nth(tx.next, i - c.in) ELSE tx.buf[i]) \in Nat
    BY <2>1, <2>2
  <2> QED BY <1>3, <2>3, Zenon
<1>10. w \in Rings /\ w.in = tx.in /\ w.out = tx.out /\ w.next = tx.next /\ w.buf = b
  BY <1>0, <1>4, <1>9 DEF Rings
<1>11. Filled(w) = Filled(tx)
  BY <1>10 DEF Filled
<1>12. \A i \in 0..Filled(tx) - 1 : Cell(w, i) = Cell(tx, i)
  <2> TAKE i \in 0..Filled(tx) - 1
  <2>1. PICK q : q = Place(tx.out + i)
    OBVIOUS
  <2>2. i \in 0..BufLen - 1 /\ i < Filled(tx)
    BY <1>7
  <2>3. q \in 0..BufLen - 1
    BY <1>0, <2>1, <2>2, CellPlaces
  <2>4. Place(q + (BufLen - tx.in)) = (BufLen - Filled(tx)) + i
    BY <1>0, <2>1, <2>2, FromIn
  <2>5. Place(q + (BufLen - tx.in)) = IF q < tx.in THEN (q + BufLen) - tx.in ELSE q - tx.in
    BY <1>0, <2>3, FromIn
  <2>6. ~(q \in c.in..(c.in + c.n - 1))
    BY <1>6, <1>7, <2>2, <2>3, <2>4, <2>5
  <2>7. b[q] = tx.buf[q]
    BY <1>3, <2>3, <2>6, Zenon
  <2> QED BY <1>10, <2>1, <2>7 DEF Cell
<1>13. TxInOrder(hw.tx, hw.got, w)
  BY <1>10, <1>11, <1>12 DEF UartInv, BytesInv, TxInOrder
<1>14. BytesInv'
  BY <1>u, <1>5, <1>10, <1>13 DEF UartInv, BytesInv
<1>15. /\ r \in JtagCalls /\ r.pc = "advance" /\ r.op = "write" /\ r.n = c.n /\ r.in = c.in
       /\ r.count = c.count
  BY <1>0, <1>1, <1>2, GotoIs DEF Places
<1>16. \A i \in 0..c.n - 1 : b[tx.in + i] = Nth(tx.next, i)
  <2> TAKE i \in 0..c.n - 1
  <2>1. PICK q : q = tx.in + i
    OBVIOUS
  <2>2. q \in 0..BufLen - 1 /\ q \in c.in..(c.in + c.n - 1) /\ q - c.in = i
    BY <1>6, <1>7, <2>1
  <2>3. b[q] = Nth(tx.next, q - c.in)
    BY <1>3, <2>2, Zenon
  <2> QED BY <2>1, <2>2, <2>3
<1>17. WritesRight(r, w)
  BY <1>6, <1>10, <1>11, <1>15, <1>16 DEF WritesRight
<1>18. call' \in [Users -> JtagCalls] /\ \A u \in Users : call'[u] = IF u = t THEN r ELSE call[u]
  BY <1>0, <1>1, <1>2, <1>15 DEF CopyWrite, Goto
<1>19. \A u \in Users : CallRight(call'[u], u, rw_lock, rx, w)
  <2> TAKE u \in Users
  <2>1. CASE u = t
    BY <1>6, <1>15, <1>17, <1>18, <2>1 DEF CallRight, ReadsRight, Moving
  <2>2. CASE u # t
    <3>1. call'[u] = call[u] /\ CallRight(call[u], u, rw_lock, rx, tx)
      BY <1>18, <2>2 DEF UartInv, CallsInv
    <3>2. ~Moving(call[u], "write")
      <4>1. Holding(call[t])
        BY <1>0 DEF Holding
      <4> QED BY <1>0, <2>2, <4>1, OnlyOneMoves, MovingHolds
    <3> QED BY <3>1, <3>2 DEF CallRight, WritesRight
  <2> QED BY <2>1, <2>2
<1>20. CallsInv'
  BY <1>u, <1>5, <1>18, <1>19, Zenon DEF UartInv, CallsInv
<1> QED BY <1>14, <1>20 DEF UartInv

LEMMA AdvanceReadInv ==
  ASSUME UartInv, NEW t \in Users, AdvanceRead(t)
  PROVE  UartInv'
<1>0. /\ call[t] \in JtagCalls /\ CallRight(call[t], t, rw_lock, rx, tx)
      /\ call[t].pc = "advance" /\ call[t].op = "read" /\ rx \in Rings
      /\ call \in [Users -> JtagCalls] /\ RxInOrder(rx, hw.rx, hw.sent) /\ hw.rx \in Queues
  BY DEF UartInv, CallsInv, BytesInv, AdvanceRead, At
<1>u. tx' = tx /\ rw_lock' = rw_lock /\ hw' = hw /\ events' = events
  BY DEF AdvanceRead
<1>1. PICK c : c = call[t]
  OBVIOUS
<1>2. PICK pc : pc = IF c.count > c.n THEN "load" ELSE "unlock"
  OBVIOUS
<1>3. PICK left : left = c.count - c.n
  OBVIOUS
<1>4. PICK r : r = [c EXCEPT !.count = left, !.moved = TRUE, !.in = 0, !.out = 0, !.n = 0,
                             !.chunk = <<>>, !.pc = pc]
  OBVIOUS
<1>5. call' = [call EXCEPT ![t] = r]
  BY <1>1, <1>2, <1>3, <1>4 DEF AdvanceRead
<1>6. /\ c.out = rx.out /\ c.n \in 1..Filled(rx) /\ c.n <= c.count
      /\ rw_lock["read"] = {t}
  BY <1>0, <1>1 DEF CallRight, ReadsRight, Moving, Holding
<1>7. /\ Filled(rx) \in Nat /\ BufLen \in Nat \ {0}
  BY <1>0, RingNumbers
<1>8. PICK p : p = [rx EXCEPT !.out = Place(rx.out + c.n), !.next = Nth(rx.next, c.n)]
  OBVIOUS
<1>9. rx' = p
  BY <1>1, <1>6, <1>8, Zenon DEF AdvanceRead
<1>10. p \in Rings /\ RxInOrder(p, hw.rx, hw.sent)
  <2>1. TakenOut(p, rx, c.n, Nth(rx.next, c.n))
    BY <1>8 DEF TakenOut
  <2>2. c.n \in 0..Filled(rx)
    BY <1>6, <1>7
  <2> QED BY <1>0, <2>1, <2>2, RxTake
<1>11. BytesInv'
  BY <1>u, <1>9, <1>10 DEF UartInv, BytesInv
<1>12. /\ r \in JtagCalls /\ r.pc = pc /\ r.op = "read"
  <2>1. left \in 0..MaxCount /\ pc \in Places
    <3>1. c.count \in 0..MaxCount /\ c.n \in 0..BufLen - 1 /\ MaxCount \in Nat
      BY <1>0, <1>1, CallFields, JtagAssumption
    <3> QED BY <1>2, <1>3, <1>6, <1>7, <3>1 DEF Places
  <2>2. <<>> \in Seq(Nat) /\ 0 \in 0..BufLen - 1
    BY <1>7, EmptySeq
  <2> QED BY <1>0, <1>1, <1>4, <2>1, <2>2 DEF JtagCalls
<1>13. call' \in [Users -> JtagCalls] /\ \A u \in Users : call'[u] = IF u = t THEN r ELSE call[u]
  BY <1>0, <1>5, <1>12
<1>14. \A u \in Users : CallRight(call'[u], u, rw_lock, p, tx)
  <2> TAKE u \in Users
  <2>1. CASE u = t
    BY <1>2, <1>6, <1>12, <1>13, <2>1 DEF CallRight, ReadsRight, WritesRight, Moving
  <2>2. CASE u # t
    <3>1. call'[u] = call[u] /\ CallRight(call[u], u, rw_lock, rx, tx)
      BY <1>13, <2>2 DEF UartInv, CallsInv
    <3>2. ~Moving(call[u], "read")
      <4>1. Holding(call[t])
        BY <1>0 DEF Holding
      <4> QED BY <1>0, <2>2, <4>1, OnlyOneMoves, MovingHolds
    <3> QED BY <3>1, <3>2 DEF CallRight, ReadsRight
  <2> QED BY <2>1, <2>2
<1>15. CallsInv'
  BY <1>u, <1>9, <1>13, <1>14, Zenon DEF UartInv, CallsInv
<1> QED BY <1>11, <1>15 DEF UartInv

LEMMA AdvanceWriteInv ==
  ASSUME UartInv, NEW t \in Users, AdvanceWrite(t)
  PROVE  UartInv'
<1>0. /\ call[t] \in JtagCalls /\ CallRight(call[t], t, rw_lock, rx, tx)
      /\ call[t].pc = "advance" /\ call[t].op = "write" /\ tx \in Rings
      /\ call \in [Users -> JtagCalls] /\ TxInOrder(hw.tx, hw.got, tx) /\ hw.tx \in Queues
      /\ hw.got \in Numbers
  BY DEF UartInv, CallsInv, BytesInv, AdvanceWrite, At
<1>u. rx' = rx /\ rw_lock' = rw_lock /\ hw' = hw /\ events' = events
  BY DEF AdvanceWrite
<1>1. PICK c : c = call[t]
  OBVIOUS
<1>2. PICK pc : pc = IF c.count > c.n THEN "load" ELSE "enable"
  OBVIOUS
<1>3. PICK left : left = c.count - c.n
  OBVIOUS
<1>4. PICK r : r = [c EXCEPT !.count = left, !.in = 0, !.n = 0, !.pc = pc]
  OBVIOUS
<1>5. call' = [call EXCEPT ![t] = r]
  BY <1>1, <1>2, <1>3, <1>4 DEF AdvanceWrite
<1>6. /\ c.in = tx.in /\ c.n \in 1..(BufLen - 1) - Filled(tx) /\ tx.in + c.n <= BufLen /\ c.n <= c.count
      /\ (\A i \in 0..c.n - 1 : tx.buf[tx.in + i] = Nth(tx.next, i)) /\ rw_lock["write"] = {t}
  BY <1>0, <1>1 DEF CallRight, WritesRight, Moving, Holding
<1>7. BufLen \in Nat \ {0}
  BY <1>0, RingNumbers
<1>8. PICK p : p = [tx EXCEPT !.in = Place(tx.in + c.n), !.next = Nth(tx.next, c.n)]
  OBVIOUS
<1>9. tx' = p
  BY <1>1, <1>6, <1>8, Zenon DEF AdvanceWrite
<1>10. p \in Rings /\ TxInOrder(hw.tx, hw.got, p)
  <2>1. PutIn(p, tx, c.n, Nth(tx.next, c.n))
    BY <1>8 DEF PutIn
  <2> QED BY <1>0, <1>6, <2>1, TxPut
<1>11. BytesInv'
  BY <1>u, <1>9, <1>10 DEF UartInv, BytesInv
<1>12. /\ r \in JtagCalls /\ r.pc = pc /\ r.op = "write"
  <2>1. left \in 0..MaxCount /\ pc \in Places
    <3>1. c.count \in 0..MaxCount /\ c.n \in 0..BufLen - 1 /\ MaxCount \in Nat
      BY <1>0, <1>1, CallFields, JtagAssumption
    <3> QED BY <1>2, <1>3, <1>6, <1>7, <3>1 DEF Places
  <2>2. 0 \in 0..BufLen - 1
    BY <1>7
  <2> QED BY <1>0, <1>1, <1>4, <2>1, <2>2 DEF JtagCalls
<1>13. call' \in [Users -> JtagCalls] /\ \A u \in Users : call'[u] = IF u = t THEN r ELSE call[u]
  BY <1>0, <1>5, <1>12
<1>14. \A u \in Users : CallRight(call'[u], u, rw_lock, rx, p)
  <2> TAKE u \in Users
  <2>1. CASE u = t
    BY <1>2, <1>6, <1>12, <1>13, <2>1 DEF CallRight, ReadsRight, WritesRight, Moving
  <2>2. CASE u # t
    <3>1. call'[u] = call[u] /\ CallRight(call[u], u, rw_lock, rx, tx)
      BY <1>13, <2>2 DEF UartInv, CallsInv
    <3>2. ~Moving(call[u], "write")
      <4>1. Holding(call[t])
        BY <1>0 DEF Holding
      <4> QED BY <1>0, <2>2, <4>1, OnlyOneMoves, MovingHolds
    <3> QED BY <3>1, <3>2 DEF CallRight, WritesRight
  <2> QED BY <2>1, <2>2
<1>15. CallsInv'
  BY <1>u, <1>9, <1>13, <1>14, Zenon DEF UartInv, CallsInv
<1> QED BY <1>11, <1>15 DEF UartInv

(* A task waits, wakes up, looks again, or turns the interrupts on.        *)
LEMMA GoesOnInv ==
  ASSUME UartInv, NEW t \in Users,
         EnableRead(t) \/ EnableWrite(t) \/ Pend(t) \/ Woken(t) \/ Check(t) \/ Close(t)
  PROVE  UartInv'
<1>0. /\ call[t] \in JtagCalls /\ CallRight(call[t], t, rw_lock, rx, tx) /\ events \subseteq JtagFlags
  BY DEF UartInv, CallsInv
<1>1. UNCHANGED <<rx, tx, rw_lock, hw>> /\ events' \subseteq JtagFlags
  BY <1>0 DEF EnableRead, EnableWrite, Pend, Woken, Check, Close
<1>2. CASE EnableRead(t) \/ Close(t)
  <2>1. Goto(t, "idle")
    BY <1>2 DEF EnableRead, Close
  <2> QED BY <1>1, <2>1, GotoRight DEF Places
<1>3. CASE EnableWrite(t) \/ Pend(t) \/ Woken(t) \/ Check(t)
  <2>1. PICK pc \in {"pend", "unlock", "wait", "check", "load"} : Goto(t, pc)
    BY <1>3 DEF EnableWrite, Pend, Woken, Check
  <2>2. Holding(call[t]) /\ call[t].pc # "close"
    BY <1>3 DEF EnableWrite, Pend, Woken, Check, At, Holding
  <2> QED BY <1>1, <2>1, <2>2, GotoRight DEF Places
<1> QED BY <1>2, <1>3

(* The lock is handed to a task in the queue, if there is one.             *)
LEMMA UnlockInv ==
  ASSUME UartInv, NEW t \in Users, Unlock(t)
  PROVE  UartInv'
<1>0. /\ call[t] \in JtagCalls /\ CallRight(call[t], t, rw_lock, rx, tx) /\ call[t].pc = "unlock"
      /\ rx' = rx /\ tx' = tx /\ hw' = hw /\ events' \subseteq JtagFlags
      /\ call \in [Users -> JtagCalls] /\ Holding(call[t])
  BY DEF UartInv, CallsInv, Unlock, Holding
<1>1. PICK c : c = call[t]
  OBVIOUS
<1>2. PICK then : then = IF c.op = "read" /\ c.moved THEN [c EXCEPT !.pc = "enable"] ELSE Idling
  OBVIOUS
<1>3. c.op \in {"read", "write"} /\ rw_lock[c.op] = {t}
  BY <1>0, <1>1, CallFields DEF CallRight
<1>4. /\ then \in JtagCalls /\ ~Holding(then) /\ then.op # "close"
      /\ ~Moving(then, "read") /\ ~Moving(then, "write")
  <2>1. CASE c.op = "read" /\ c.moved
    <3>1. then \in JtagCalls /\ then.pc = "enable" /\ then.op = "read"
      BY <1>0, <1>1, <1>2, <2>1, GotoIs DEF Places
    <3> QED BY <3>1 DEF Holding, Moving
  <2>2. CASE ~(c.op = "read" /\ c.moved)
    BY <1>2, <2>2, IdlingIs
  <2> QED BY <2>1, <2>2
<1>5. BytesInv'
  BY <1>0 DEF UartInv, BytesInv
<1>6. ASSUME NEW S \in SUBSET Users, rw_lock' = [rw_lock EXCEPT ![c.op] = S],
             call' \in [Users -> JtagCalls], call'[t] = then,
             \A u \in Users \ {t} :
               call'[u] = call[u] \/ (S = {u} /\ call'[u].pc = "load" /\ call'[u].op = c.op)
      PROVE  UartInv'
  <2>1. /\ rw_lock' \in [{"read", "write"} -> SUBSET Users]
        /\ \A o \in {"read", "write"} : rw_lock'[o] = IF o = c.op THEN S ELSE rw_lock[o]
    BY <1>3, <1>6 DEF UartInv, CallsInv
  <2>2. \A u \in Users : CallRight(call'[u], u, rw_lock', rx, tx)
    <3> TAKE u \in Users
    <3>1. CASE u = t
      <4>1. call'[u] = then
        BY <1>6, <3>1
      <4> QED BY <1>4, <4>1 DEF CallRight, ReadsRight, WritesRight
    <3>2. CASE u # t /\ call'[u] = call[u]
      <4>1. CallRight(call[u], u, rw_lock, rx, tx) /\ call[u] \in JtagCalls
        BY <1>0 DEF UartInv, CallsInv
      <4>2. Holding(call[u]) => call[u].op \in {"read", "write"}
        BY <4>1, CallFields DEF CallRight, Holding
      <4>3. Holding(call[u]) => call[u].op # c.op
        BY <1>0, <1>1, <3>2, OnlyOneMoves
      <4>4. Holding(call[u]) => rw_lock'[call[u].op] = {u}
        BY <2>1, <4>1, <4>2, <4>3 DEF CallRight
      <4> QED BY <3>2, <4>1, <4>4 DEF CallRight
    <3>3. CASE u # t /\ call'[u] # call[u]
      <4>1. S = {u} /\ call'[u].pc = "load" /\ call'[u].op = c.op
        BY <1>6, <3>3
      <4> QED BY <1>3, <2>1, <4>1 DEF CallRight, ReadsRight, WritesRight, Moving
    <3> QED BY <3>1, <3>2, <3>3
  <2>3. CallsInv'
    BY <1>0, <1>6, <2>1, <2>2, Zenon DEF CallsInv
  <2> QED BY <1>5, <2>3 DEF UartInv
<1>7. CASE rw_lock' = [rw_lock EXCEPT ![c.op] = {}] /\ call' = [call EXCEPT ![t] = then]
  <2>1. PICK d : d = [call EXCEPT ![t] = then]
    OBVIOUS
  <2>2. d \in [Users -> JtagCalls] /\ d[t] = then /\ \A u \in Users \ {t} : d[u] = call[u]
    BY <1>0, <1>4, <2>1
  <2>3. {} \in SUBSET Users
    OBVIOUS
  <2> QED BY <1>6, <1>7, <2>1, <2>2, <2>3
<1>8. ASSUME NEW u \in Users, At(u, c.op, "queue"), rw_lock' = [rw_lock EXCEPT ![c.op] = {u}],
             call' = [call EXCEPT ![t] = then, ![u].pc = "load"]
      PROVE  UartInv'
  <2>1. u # t /\ call[u] \in JtagCalls /\ call[u].op = c.op
    BY <1>0, <1>8 DEF At
  <2>2. PICK r : r = [call[u] EXCEPT !.pc = "load"]
    OBVIOUS
  <2>3. r \in JtagCalls /\ r.pc = "load" /\ r.op = c.op
    BY <2>1, <2>2, GotoIs DEF Places
  <2>4. PICK d : d = [[call EXCEPT ![t] = then] EXCEPT ![u] = r]
    OBVIOUS
  <2>5. call' = d
    <3>1. PICK e : e = [call EXCEPT ![t] = then]
      OBVIOUS
    <3>2. e[u] = call[u]
      BY <1>0, <2>1, <3>1
    <3>3. call' = [e EXCEPT ![u] = [e[u] EXCEPT !.pc = "load"]]
      BY <1>8, <3>1, Zenon
    <3> QED BY <2>2, <2>4, <3>1, <3>2, <3>3
  <2>6. /\ d \in [Users -> JtagCalls] /\ d[t] = then /\ d[u] = r
        /\ \A v \in Users \ {t, u} : d[v] = call[v]
    BY <1>0, <1>4, <2>1, <2>3, <2>4
  <2>7. \A v \in Users \ {t} : d[v] = call[v] \/ ({u} = {v} /\ d[v].pc = "load" /\ d[v].op = c.op)
    BY <2>3, <2>6
  <2>8. {u} \in SUBSET Users
    OBVIOUS
  <2> QED BY <1>6, <1>8, <2>5, <2>6, <2>7, <2>8
<1> QED BY <1>1, <1>2, <1>7, <1>8, Zenon DEF Unlock

(* The flags wake those that wait for them.                                *)
LEMMA FlagPostCalls ==
  ASSUME UartInv, NEW F \in SUBSET JtagFlags, FlagPost(F)
  PROVE  /\ events' \subseteq JtagFlags /\ call' \in [Users -> JtagCalls]
         /\ \A t \in Users : \/ call'[t] = call[t]
                             \/ /\ call[t].pc = "wait" /\ call'[t].pc = "woken"
                                /\ call'[t].op = call[t].op
<1>0. events \subseteq JtagFlags /\ call \in [Users -> JtagCalls]
  BY DEF UartInv, CallsInv
<1>1. events' = events \cup F
  BY DEF FlagPost, WaitFor, WokenBy
<1>2. PICK woken : woken = [t \in Users |-> [call[t] EXCEPT !.pc = "woken",
                                               !.rdy = (events \cup F) \cap Interest(t)]]
  OBVIOUS
<1>3. call' = [t \in Users |-> IF call[t].pc = "wait" /\ Interest(t) \cap F # {}
                               THEN woken[t] ELSE call[t]]
  BY <1>2 DEF FlagPost, WaitFor, WokenBy
<1>4. \A t \in Users : woken[t] \in JtagCalls /\ woken[t].pc = "woken" /\ woken[t].op = call[t].op
  <2> TAKE t \in Users
  <2>1. PICK s : s = (events \cup F) \cap Interest(t)
    OBVIOUS
  <2>2. s \in SUBSET JtagFlags
    BY <1>0, <2>1
  <2>3. woken[t] = [call[t] EXCEPT !.pc = "woken", !.rdy = s]
    BY <1>2, <2>1
  <2>4. call[t] \in JtagCalls
    BY <1>0
  <2> QED BY <2>2, <2>3, <2>4 DEF JtagCalls, Places
<1>5. \A t \in Users : call'[t] = IF call[t].pc = "wait" /\ Interest(t) \cap F # {}
                                  THEN woken[t] ELSE call[t]
  BY <1>3
<1> QED BY <1>0, <1>1, <1>3, <1>4, <1>5

LEMMA WakingInv ==
  ASSUME UartInv, BytesInv', rw_lock' = rw_lock, NEW F \in SUBSET JtagFlags, FlagPost(F),
         \A t \in Users : ReadsRight(call[t], rx') /\ WritesRight(call[t], tx')
  PROVE  UartInv'
<1>1. \A t \in Users : CallRight(call'[t], t, rw_lock', rx', tx')
  <2> TAKE t \in Users
  <2>1. CallRight(call[t], t, rw_lock, rx, tx)
    BY DEF UartInv, CallsInv
  <2>2. CASE call'[t] = call[t]
    BY <2>1, <2>2 DEF CallRight
  <2>3. CASE call[t].pc = "wait" /\ call'[t].pc = "woken" /\ call'[t].op = call[t].op
    BY <2>1, <2>3 DEF CallRight, Holding, ReadsRight, WritesRight, Moving
  <2> QED BY <2>2, <2>3, FlagPostCalls
<1>2. CallsInv'
  BY <1>1, FlagPostCalls DEF UartInv, CallsInv
<1> QED BY <1>2 DEF UartInv

LEMMA ISRInv ==
  ASSUME UartInv, ISR
  PROVE  UartInv'
<1>0. /\ rx \in Rings /\ tx \in Rings /\ RxInOrder(rx, hw.rx, hw.sent) /\ TxInOrder(hw.tx, hw.got, tx)
      /\ hw \in [rx : Queues, tx : Queues, sent : Numbers, got : Numbers, ac : BOOLEAN, alive : BOOLEAN]
      /\ hw.rx \in Queues /\ hw.tx \in Queues
  BY DEF UartInv, BytesInv
<1>1. PICK n : n = IF ReadPending THEN Least({Len(hw.rx), (BufLen - 1) - Filled(rx)}) ELSE 0
  OBVIOUS
<1>2. PICK space : space = Depth - Len(hw.tx)
  OBVIOUS
<1>3. PICK m : m = IF WritePending THEN Least({space, Filled(tx)}) ELSE 0
  OBVIOUS
<1>4. /\ rx' = PutAll(rx, SubSeq(hw.rx, 1, n))
      /\ tx' = [tx EXCEPT !.out = Place(tx.out + m)]
      /\ hw' = [hw EXCEPT !.rx = SubSeq(hw.rx, n + 1, Len(hw.rx)),
                          !.tx = hw.tx \o SubSeq(Content(tx), 1, m)]
      /\ FlagPost({x \in {"READ_RDY"} : n > 0} \cup {x \in {"WRITE_RDY"} : m > 0})
      /\ rw_lock' = rw_lock
  BY <1>1, <1>2, <1>3 DEF ISR
<1>5. n \in 0..Len(hw.rx) /\ n <= (BufLen - 1) - Filled(rx)
  <2>1. Len(hw.rx) \in Nat /\ (BufLen - 1) - Filled(rx) \in Nat
    <3>1. Filled(rx) \in 0..BufLen - 1 /\ BufLen \in Nat
      BY <1>0, RingNumbers
    <3>2. Len(hw.rx) \in Nat
      BY <1>0, LenProperties DEF Queues
    <3> QED BY <3>1, <3>2
  <2>2. PICK a \in Nat : a = Len(hw.rx)
    BY <2>1
  <2>3. PICK b \in Nat : b = (BufLen - 1) - Filled(rx)
    BY <2>1
  <2>4. n = IF ReadPending THEN Least({a, b}) ELSE 0
    BY <1>1, <2>2, <2>3
  <2>5. n \in 0..a /\ n <= b
    BY <2>4, LeastOfTwo
  <2> QED BY <2>2, <2>3, <2>5
<1>6. m \in 0..Filled(tx) /\ Len(hw.tx) + m <= Depth
  <2>1. PICK a \in Nat : a = Filled(tx)
    BY <1>0, RingNumbers
  <2>2. PICK l \in Nat : l = Len(hw.tx) /\ l <= Depth
    BY <1>0, LenProperties DEF Queues
  <2>3. Depth \in Nat
    BY JtagAssumption
  <2>4. space \in Nat /\ space = Depth - l
    BY <1>2, <2>2, <2>3
  <2>5. m = IF WritePending THEN Least({space, a}) ELSE 0
    BY <1>3, <2>1
  <2>6. m \in 0..a /\ m <= space
    BY <2>1, <2>4, <2>5, LeastOfTwo
  <2> QED BY <2>1, <2>2, <2>3, <2>4, <2>6
<1>7. PICK s : s = SubSeq(hw.rx, n + 1, Len(hw.rx))
  OBVIOUS
<1>8. PICK b : b = hw.tx \o SubSeq(Content(tx), 1, m)
  OBVIOUS
<1>9. PICK p : p = PutAll(rx, SubSeq(hw.rx, 1, n))
  OBVIOUS
<1>10. /\ s \in Queues /\ p \in Rings /\ p.out = rx.out /\ Filled(p) = Filled(rx) + n
       /\ \A i \in 0..Filled(rx) - 1 : Cell(p, i) = Cell(rx, i)
       /\ RxInOrder(p, s, hw.sent)
  BY <1>0, <1>5, <1>7, <1>9, RxPut
<1>11. PICK q : q = [tx EXCEPT !.out = Place(tx.out + m)]
  OBVIOUS
<1>12. /\ b \in Queues /\ q \in Rings /\ TxInOrder(b, hw.got, q)
       /\ q.in = tx.in /\ q.buf = tx.buf /\ q.next = tx.next /\ Filled(q) = Filled(tx) - m
  <2>1. tx = [in |-> tx.in, out |-> tx.out, buf |-> tx.buf, next |-> tx.next]
    BY <1>0 DEF Rings
  <2>2. TakenOut(q, tx, m, tx.next)
    BY <1>11, <2>1 DEF TakenOut
  <2>3. SentOn(b, hw.tx, tx, m)
    BY <1>8 DEF SentOn
  <2>4. PICK a : a = hw.tx
    OBVIOUS
  <2>5. PICK g : g = hw.got
    OBVIOUS
  <2>6. a \in Queues /\ TxInOrder(a, g, tx) /\ tx \in Rings
    BY <1>0, <2>4, <2>5
  <2>7. Len(a) + m <= Depth /\ SentOn(b, a, tx, m) /\ m \in 0..Filled(tx)
    BY <1>6, <2>3, <2>4
  <2>8. b \in Queues /\ q \in Rings /\ TxInOrder(b, g, q)
        /\ q.in = tx.in /\ q.buf = tx.buf /\ q.next = tx.next /\ Filled(q) = Filled(tx) - m
    BY <2>2, <2>6, <2>7, TxTake
  <2> QED BY <2>5, <2>8
<1>13. rx' = p /\ tx' = q
  BY <1>4, <1>9, <1>11
<1>14. /\ hw' \in [rx : Queues, tx : Queues, sent : Numbers, got : Numbers, ac : BOOLEAN, alive : BOOLEAN]
       /\ hw'.rx = s /\ hw'.tx = b /\ hw'.sent = hw.sent /\ hw'.got = hw.got
  <2>1. hw' = [hw EXCEPT !.rx = s, !.tx = b]
    BY <1>4, <1>7, <1>8
  <2> QED BY <1>0, <1>10, <1>12, <2>1
<1>15. BytesInv'
  BY <1>10, <1>12, <1>13, <1>14 DEF BytesInv
<1>16. \A t \in Users : ReadsRight(call[t], p) /\ WritesRight(call[t], q)
  <2> TAKE t \in Users
  <2>1. PICK c : c = call[t]
    OBVIOUS
  <2>2. ReadsRight(c, rx) /\ WritesRight(c, tx) /\ c \in JtagCalls
    BY <2>1 DEF UartInv, CallsInv, CallRight
  <2>3. ReadsRight(c, p)
    <3> SUFFICES ASSUME Moving(c, "read") PROVE ReadsRight(c, p)
      BY DEF ReadsRight
    <3>1. c.out = rx.out /\ c.n \in 1..Filled(rx) /\ rx.out + c.n <= BufLen /\ c.n <= c.count
      BY <2>2 DEF ReadsRight
    <3>2. rx.out \in Nat /\ c.n \in Nat /\ BufLen \in Nat \ {0} /\ Filled(rx) \in 0..BufLen - 1 /\ n \in Nat
      <4>1. rx.out \in Nat /\ BufLen \in Nat \ {0} /\ Filled(rx) \in 0..BufLen - 1
        BY <1>0, RingNumbers DEF Rings
      <4>2. n \in Nat
        BY <1>5
      <4>3. c.n \in Nat
        BY <3>1, <4>1
      <4> QED BY <4>1, <4>2, <4>3
    <3>3. c.n \in 1..Filled(p)
      <4>1. Filled(p) = Filled(rx) + n
        BY <1>10
      <4> QED BY <3>1, <3>2, <4>1
    <3>4. \A i \in 1..c.n : p.buf[rx.out + (i - 1)] = rx.buf[rx.out + (i - 1)]
      <4> TAKE i \in 1..c.n
      <4>1. i - 1 \in 0..Filled(rx) - 1 /\ i - 1 \in 0..BufLen - 1 /\ rx.out + (i - 1) < BufLen
        BY <3>1, <3>2
      <4>2. Place(rx.out + (i - 1)) = rx.out + (i - 1)
        BY <1>0, <4>1, CellPlaces
      <4> QED BY <1>10, <4>1, <4>2 DEF Cell
    <3>5. c.pc = "advance" => c.chunk = [i \in 1..c.n |-> p.buf[p.out + (i - 1)]]
      <4> SUFFICES ASSUME c.pc = "advance" PROVE c.chunk = [i \in 1..c.n |-> p.buf[p.out + (i - 1)]]
        OBVIOUS
      <4>1. c.chunk = [i \in 1..c.n |-> rx.buf[rx.out + (i - 1)]]
        BY <2>2 DEF ReadsRight
      <4>2. [i \in 1..c.n |-> rx.buf[rx.out + (i - 1)]] = [i \in 1..c.n |-> p.buf[p.out + (i - 1)]]
        BY <1>10, <3>4
      <4> QED BY <4>1, <4>2
    <3> QED BY <1>10, <3>1, <3>3, <3>5 DEF ReadsRight
  <2>4. WritesRight(c, q)
    <3> SUFFICES ASSUME Moving(c, "write") PROVE WritesRight(c, q)
      BY DEF WritesRight
    <3>1. c.in = tx.in /\ c.n \in 1..(BufLen - 1) - Filled(tx) /\ tx.in + c.n <= BufLen /\ c.n <= c.count
      BY <2>2 DEF WritesRight
    <3>2. BufLen \in Nat \ {0} /\ Filled(tx) \in 0..BufLen - 1 /\ m \in Nat /\ m <= Filled(tx)
      BY <1>0, <1>6, RingNumbers
    <3>3. c.n \in 1..(BufLen - 1) - Filled(q)
      <4>1. Filled(q) = Filled(tx) - m
        BY <1>12
      <4> QED BY <3>1, <3>2, <4>1
    <3>4. c.pc = "advance" => \A i \in 0..c.n - 1 : q.buf[q.in + i] = Nth(q.next, i)
      BY <1>12, <2>2 DEF WritesRight
    <3> QED BY <1>12, <3>1, <3>3, <3>4 DEF WritesRight
  <2> QED BY <2>1, <2>3, <2>4
<1>17. {x \in {"READ_RDY"} : n > 0} \cup {x \in {"WRITE_RDY"} : m > 0} \in SUBSET JtagFlags
  BY DEF JtagFlags
<1> QED BY <1>4, <1>13, <1>15, <1>16, <1>17, WakingInv

LEMMA TimeoutAlarmInv ==
  ASSUME UartInv, TimeoutAlarm
  PROVE  UartInv'
<1>0. rx' = rx /\ tx' = tx /\ rw_lock' = rw_lock
  BY DEF TimeoutAlarm
<1>1. CASE hw' = [hw EXCEPT !.ac = FALSE] /\ events' = events /\ call' = call
  <2>1. BytesInv'
    BY <1>0, <1>1 DEF UartInv, BytesInv
  <2>2. CallsInv'
    BY <1>0, <1>1 DEF UartInv, CallsInv
  <2> QED BY <2>1, <2>2 DEF UartInv
<1>2. CASE hw' = hw /\ \E F \in SUBSET JtagFlags : FlagPost(F)
  <2>1. BytesInv'
    BY <1>0, <1>2 DEF UartInv, BytesInv
  <2>2. \A t \in Users : ReadsRight(call[t], rx') /\ WritesRight(call[t], tx')
    BY <1>0 DEF UartInv, CallsInv, CallRight
  <2> QED BY <1>0, <1>2, <2>1, <2>2, WakingInv
<1>3. {x \in {"TIMEOUT"} : Least({host_inactive + 1, InactiveMax}) >= timeout} \in SUBSET JtagFlags
  BY DEF JtagFlags
<1> QED BY <1>1, <1>2, <1>3 DEF TimeoutAlarm

(* The host at the other end.                                              *)
LEMMA HostInv ==
  ASSUME UartInv, HostSends \/ HostReads \/ HostLeaves \/ SetTimeout
  PROVE  UartInv'
<1>0. /\ rx \in Rings /\ tx \in Rings /\ RxInOrder(rx, hw.rx, hw.sent) /\ TxInOrder(hw.tx, hw.got, tx)
      /\ hw \in [rx : Queues, tx : Queues, sent : Numbers, got : Numbers, ac : BOOLEAN, alive : BOOLEAN]
      /\ hw.rx \in Queues /\ hw.tx \in Queues /\ hw.sent \in Numbers /\ hw.got \in Numbers
  BY DEF UartInv, BytesInv
<1>1. rx' = rx /\ tx' = tx /\ rw_lock' = rw_lock /\ events' = events /\ call' = call
  BY DEF HostSends, HostReads, HostLeaves, SetTimeout
<1>2. CallsInv'
  BY <1>1 DEF UartInv, CallsInv
<1>3. CASE HostSends
  <2>1. PICK s : s = Append(hw.rx, hw.sent)
    OBVIOUS
  <2>2. PICK sent : sent = Nth(hw.sent, 1)
    OBVIOUS
  <2>3. s \in Queues /\ sent \in Numbers /\ RxInOrder(rx, s, sent)
    BY <1>0, <1>3, <2>1, <2>2, RxSend DEF HostSends
  <2>4. hw' = [hw EXCEPT !.rx = s, !.sent = sent, !.ac = TRUE]
    BY <1>3, <2>1, <2>2 DEF HostSends
  <2>5. /\ hw' \in [rx : Queues, tx : Queues, sent : Numbers, got : Numbers, ac : BOOLEAN, alive : BOOLEAN]
        /\ hw'.rx = s /\ hw'.sent = sent /\ hw'.tx = hw.tx /\ hw'.got = hw.got
    BY <1>0, <2>3, <2>4
  <2>6. BytesInv'
    BY <1>0, <1>1, <2>3, <2>5 DEF BytesInv
  <2> QED BY <1>2, <2>6 DEF UartInv
<1>4. CASE HostReads
  <2>1. PICK s : s = Tail(hw.tx)
    OBVIOUS
  <2>2. PICK got : got = Nth(hw.got, 1)
    OBVIOUS
  <2>3. s \in Queues /\ got \in Numbers /\ TxInOrder(s, got, tx)
    BY <1>0, <1>4, <2>1, <2>2, TxRead DEF HostReads
  <2>4. hw' = [hw EXCEPT !.tx = s, !.got = got, !.ac = TRUE]
    BY <1>4, <2>1, <2>2 DEF HostReads
  <2>5. /\ hw' \in [rx : Queues, tx : Queues, sent : Numbers, got : Numbers, ac : BOOLEAN, alive : BOOLEAN]
        /\ hw'.tx = s /\ hw'.got = got /\ hw'.rx = hw.rx /\ hw'.sent = hw.sent
    BY <1>0, <2>3, <2>4
  <2>6. BytesInv'
    BY <1>0, <1>1, <2>3, <2>5 DEF BytesInv
  <2> QED BY <1>2, <2>6 DEF UartInv
<1>5. CASE HostLeaves \/ SetTimeout
  <2>1. hw' = [hw EXCEPT !.alive = FALSE] \/ hw' = hw
    BY <1>5 DEF HostLeaves, SetTimeout
  <2>2. /\ hw' \in [rx : Queues, tx : Queues, sent : Numbers, got : Numbers, ac : BOOLEAN, alive : BOOLEAN]
        /\ hw'.tx = hw.tx /\ hw'.got = hw.got /\ hw'.rx = hw.rx /\ hw'.sent = hw.sent
    BY <1>0, <2>1
  <2>3. BytesInv'
    BY <1>0, <1>1, <2>2 DEF BytesInv
  <2> QED BY <1>2, <2>3 DEF UartInv
<1> QED BY <1>3, <1>4, <1>5

LEMMA MovesInv ==
  ASSUME UartInv, NEW t \in Users, Moves(t)
  PROVE  UartInv'
BY DriverLockInv, LoadReadInv, LoadWriteInv, CopyReadInv, CopyWriteInv, AdvanceReadInv,
   AdvanceWriteInv, GoesOnInv, UnlockInv, Zenon DEF Moves

LEMMA UartNext ==
  ASSUME app \in Lab5Apps, UartInv, [Next]_vars
  PROVE  UartInv'
<1>1. CASE Uart
  <2>1. ASSUME NEW t \in Users, Moves(t) PROVE UartInv'
    BY <2>1, MovesInv
  <2>2. ASSUME NEW t \in Users, NEW c \in app.calls[t], Begin(t, c.op, c.count, c.nonblock)
        PROVE  UartInv'
    <3>1. c.op \in {"read", "write", "close"} /\ c.count \in 0..MaxCount /\ c.nonblock \in BOOLEAN
      BY Lab5AppsAssumption
    <3> QED BY <2>2, <3>1, BeginInv
  <2> QED BY <1>1, <2>1, <2>2, ISRInv, TimeoutAlarmInv, HostInv, Zenon DEF Uart
<1>2. CASE Library \/ Clock \/ Application \/ UNCHANGED vars
  <2>1. UNCHANGED jtagVars
    BY <1>2, Zenon DEF Library, Clock, Application, vars
  <2>2. /\ rx' = rx /\ tx' = tx /\ rw_lock' = rw_lock /\ events' = events /\ call' = call
        /\ hw' = hw
    BY <2>1 DEF jtagVars
  <2>3. BytesInv' /\ CallsInv'
    BY <2>2 DEF UartInv, BytesInv, CallsInv
  <2> QED BY <2>3 DEF UartInv
<1> QED BY <1>1, <1>2, Zenon DEF Next

(* The invariant says what is on its way, in order.                        *)
LEMMA BetweenIs ==
  ASSUME NEW first \in Numbers, NEW k \in Nat, k < ByteMod
  PROVE  Between(first, Nth(first, k)) = [i \in 1..k |-> Nth(first, i - 1)]
<1>1. first \in 0..ByteMod - 1 /\ ByteMod \in Nat \ {0}
  BY JtagAssumption DEF Numbers
<1>2. PICK last : last = Nth(first, k)
  OBVIOUS
<1>3. last = IF first + k < ByteMod THEN first + k ELSE (first + k) - ByteMod
  BY <1>1, <1>2, NthIs
<1>4. PICK x : x = (last + ByteMod) - first
  OBVIOUS
<1>5. x \in Nat /\ x < ByteMod + ByteMod
  BY <1>1, <1>3, <1>4
<1>6. x % ByteMod = IF x < ByteMod THEN x ELSE x - ByteMod
  BY <1>1, <1>5, ModOnce
<1>7. x % ByteMod = k
  BY <1>1, <1>3, <1>4, <1>6
<1> QED BY <1>2, <1>4, <1>7 DEF Between

LEMMA SameBytes ==
  ASSUME NEW a \in Seq(Nat), NEW b \in Seq(Nat), NEW first \in Numbers, NEW last,
         last = Nth(first, Len(a) + Len(b)), Len(a) + Len(b) < ByteMod,
         \A i \in 1..Len(a) : a[i] = Nth(first, i - 1),
         \A i \in 1..Len(b) : b[i] = Nth(first, (Len(a) + i) - 1)
  PROVE  a \o b = Between(first, last)
<1>1. PICK k \in Nat : k = Len(a)
  BY LenProperties
<1>2. PICK l \in Nat : l = Len(b)
  BY LenProperties
<1>3. PICK c : c = a \o b
  OBVIOUS
<1>4. /\ c \in Seq(Nat) /\ Len(c) = k + l
      /\ \A i \in 1..k + l : c[i] = IF i <= k THEN a[i] ELSE b[i - k]
  BY <1>1, <1>2, <1>3, ConcatProperties
<1>5. \A i \in 1..k + l : c[i] = Nth(first, i - 1)
  <2> TAKE i \in 1..k + l
  <2>1. CASE i <= k
    <3>1. i \in 1..k
      BY <1>1, <1>2, <2>1
    <3> QED BY <1>1, <1>4, <2>1, <3>1
  <2>2. CASE ~(i <= k)
    <3>1. i - k \in 1..l /\ (k + (i - k)) - 1 = i - 1
      BY <1>1, <1>2, <2>2
    <3> QED BY <1>1, <1>2, <1>4, <2>2, <3>1
  <2> QED BY <2>1, <2>2
<1>6. c = [i \in 1..k + l |-> c[i]]
  <2>1. c \in [1..Len(c) -> Nat]
    BY <1>4, LenProperties
  <2> QED BY <1>4, <2>1
<1>7. c = [i \in 1..k + l |-> Nth(first, i - 1)]
  BY <1>5, <1>6
<1>8. k + l \in Nat /\ k + l < ByteMod /\ last = Nth(first, k + l)
  BY <1>1, <1>2
<1>9. Between(first, Nth(first, k + l)) = [i \in 1..k + l |-> Nth(first, i - 1)]
  BY <1>8, BetweenIs
<1> QED BY <1>3, <1>7, <1>8, <1>9

LEMMA UartInvOrder == UartInv => BytesInOrder
<1> SUFFICES ASSUME UartInv PROVE BytesInOrder
  OBVIOUS
<1>0. /\ rx \in Rings /\ tx \in Rings /\ RxInOrder(rx, hw.rx, hw.sent) /\ TxInOrder(hw.tx, hw.got, tx)
      /\ hw.rx \in Queues /\ hw.tx \in Queues /\ hw.sent \in Numbers /\ hw.got \in Numbers
  BY DEF UartInv, BytesInv
<1>1. ByteMod \in Nat /\ ByteMod > BufLen + Depth /\ BufLen \in Nat /\ Depth \in Nat
  BY JtagAssumption
<1>2. Content(rx) \o hw.rx = Between(rx.next, hw.sent)
  <2>1. PICK a : a = Content(rx)
    OBVIOUS
  <2>2. PICK f \in 0..BufLen - 1 : f = Filled(rx)
    BY <1>0, RingNumbers
  <2>3. a \in Seq(Nat) /\ Len(a) = f /\ \A i \in 1..f : a[i] = Cell(rx, i - 1)
    BY <1>0, <2>1, <2>2, ContentIs
  <2>4. hw.rx \in Seq(Nat) /\ Len(hw.rx) \in Nat /\ Len(hw.rx) <= Depth
    BY <1>0, LenProperties DEF Queues
  <2>5. Len(a) + Len(hw.rx) < ByteMod
    BY <1>1, <2>3, <2>4
  <2>6. \A i \in 1..Len(a) : a[i] = Nth(rx.next, i - 1)
    <3> TAKE i \in 1..Len(a)
    <3>1. i - 1 \in 0..f - 1
      BY <1>1, <2>3
    <3> QED BY <1>0, <2>2, <2>3, <3>1 DEF RxInOrder
  <2>7. rx.next \in Numbers /\ hw.sent = Nth(rx.next, Len(a) + Len(hw.rx))
    BY <1>0, <2>2, <2>3, RingNumbers DEF RxInOrder
  <2>8. \A i \in 1..Len(hw.rx) : hw.rx[i] = Nth(rx.next, (Len(a) + i) - 1)
    BY <1>0, <2>2, <2>3 DEF RxInOrder
  <2> QED BY <2>1, <2>3, <2>4, <2>5, <2>6, <2>7, <2>8, SameBytes, ZenonT(30)
<1>3. hw.tx \o Content(tx) = Between(hw.got, tx.next)
  <2>1. PICK a : a = Content(tx)
    OBVIOUS
  <2>2. PICK f \in 0..BufLen - 1 : f = Filled(tx)
    BY <1>0, RingNumbers
  <2>3. a \in Seq(Nat) /\ Len(a) = f /\ \A i \in 1..f : a[i] = Cell(tx, i - 1)
    BY <1>0, <2>1, <2>2, ContentIs
  <2>4. PICK l \in Nat : l = Len(hw.tx) /\ l <= Depth
    BY <1>0, LenProperties DEF Queues
  <2>5. Len(hw.tx) + Len(a) < ByteMod
    BY <1>1, <2>3, <2>4
  <2>6. \A i \in 1..Len(a) : a[i] = Nth(hw.got, (Len(hw.tx) + i) - 1)
    <3> TAKE i \in 1..Len(a)
    <3>1. i - 1 \in 0..f - 1 /\ l + (i - 1) = (l + i) - 1
      BY <1>1, <2>3
    <3> QED BY <1>0, <2>2, <2>3, <2>4, <3>1 DEF TxInOrder
  <2>7. tx.next = Nth(hw.got, Len(hw.tx) + Len(a))
    BY <1>0, <2>2, <2>3 DEF TxInOrder
  <2>8. \A i \in 1..Len(hw.tx) : hw.tx[i] = Nth(hw.got, i - 1)
    BY <1>0 DEF TxInOrder
  <2>9. hw.tx \in Seq(Nat)
    BY <1>0 DEF Queues
  <2> QED BY <1>0, <2>1, <2>3, <2>5, <2>6, <2>7, <2>8, <2>9, SameBytes, ZenonT(40)
<1>4. ASSUME NEW t \in Users, At(t, "read", "advance")
      PROVE  call[t].chunk = SubSeq(Content(rx), 1, call[t].n)
  <2>1. PICK c : c = call[t]
    OBVIOUS
  <2>2. /\ c.n \in 1..Filled(rx) /\ rx.out + c.n <= BufLen
        /\ c.chunk = [i \in 1..c.n |-> rx.buf[rx.out + (i - 1)]] /\ c.chunk \in Seq(Nat)
    BY <1>4, <2>1, CallFields DEF UartInv, CallsInv, CallRight, ReadsRight, Moving, At
  <2>3. PICK f \in 0..BufLen - 1 : f = Filled(rx)
    BY <1>0, RingNumbers
  <2>4. rx.out \in Nat /\ c.n \in Nat /\ c.n \in 1..f
    BY <1>0, <2>2, <2>3 DEF Rings
  <2>5. PICK s : s = SubSeq(Content(rx), 1, c.n)
    OBVIOUS
  <2>6. \A i \in 1..c.n : /\ Content(rx)[i] = rx.buf[rx.out + (i - 1)]
                          /\ Content(rx)[i] \in Nat
    <3> TAKE i \in 1..c.n
    <3>1. i \in 1..f /\ i - 1 \in 0..BufLen - 1 /\ rx.out + (i - 1) < BufLen
      BY <1>1, <2>2, <2>4
    <3>2. Content(rx)[i] = Cell(rx, i - 1) /\ Content(rx)[i] \in Nat
      BY <1>0, <2>3, <3>1, ContentIs
    <3>3. Place(rx.out + (i - 1)) = rx.out + (i - 1)
      BY <1>0, <3>1, CellPlaces
    <3> QED BY <3>2, <3>3 DEF Cell
  <2>7. s \in Seq(Nat) /\ Len(s) = c.n /\ \A i \in 1..c.n : s[i] = Content(rx)[i]
    <3>1. /\ s \in Seq(Nat) /\ Len(s) = (IF 1 <= c.n THEN (c.n - 1) + 1 ELSE 0)
          /\ \A i \in 1..(c.n - 1) + 1 : s[i] = Content(rx)[(1 + i) - 1]
      BY <2>4, <2>5, <2>6, SubSeqProperties
    <3>2. (c.n - 1) + 1 = c.n /\ 1 <= c.n
      BY <2>4
    <3>3. \A i \in 1..c.n : (1 + i) - 1 = i
      OBVIOUS
    <3> QED BY <3>1, <3>2, <3>3
  <2>8. c.chunk = s
    <3>1. s \in [1..Len(s) -> Nat]
      BY <2>7, LenProperties
    <3>2. s = [i \in 1..c.n |-> s[i]]
      BY <2>7, <3>1
    <3> QED BY <2>2, <2>6, <2>7, <3>2
  <2> QED BY <2>1, <2>5, <2>8
<1> QED BY <1>2, <1>3, <1>4 DEF BytesInOrder

(* No byte on its way through the driver is lost, repeated or swapped with *)
(* another, whatever the sizes of the rings and the FIFOs and however many *)
(* tasks read and write                                                    *)
(* (altera_avalon_jtag_uart_{init,read,write}.c).                          *)
THEOREM BytesArriveInOrder == Spec => []BytesInOrder
<1>1. Init => app \in Lab5Apps /\ UartInv
  BY JtagInitInv DEF Init
<1>2. app \in Lab5Apps /\ UartInv /\ [Next]_vars => (app \in Lab5Apps /\ UartInv)'
  <2> SUFFICES ASSUME app \in Lab5Apps, UartInv, [Next]_vars
               PROVE  app' \in Lab5Apps /\ UartInv'
    OBVIOUS
  <2>1. app' = app
    BY Zenon DEF Next, Uart, Library, Clock, Application, Runs, vars
  <2> QED BY <2>1, UartNext
<1>3. app \in Lab5Apps /\ UartInv => BytesInOrder
  BY UartInvOrder
<1> QED BY <1>1, <1>2, <1>3, PTL DEF Spec
-----------------------------------------------------------------------------
(* What the parts hold: the registers and the alarm of the driver, how     *)
(* deep the lock of a library is, what the two tasks count.                *)
DriverTypes ==
  /\ irq_enable \subseteq {"RE", "WE"}
  /\ host_inactive \in 0..InactiveMax /\ timeout \in JtagTimeouts

LockDepths ==
  /\ \A t \in LockTasks : /\ locker[t].depth <= app.depth
                          /\ locker[t].pc = "test" => locker[t].depth < app.depth
  /\ locks <= app.depth /\ lockid \in LockTasks \cup {Nobody}

Task1Types == [pc : {"start", "loop", "send"}, left : 0..Batch, dly : 0..Delay1]
Task2Types == [pc : {"poll", "act", "pause", "stop"}, button : Buttons, dly : 0..Delay2]
TaskTypes ==
  /\ {play_song, pause_song, stop_song} \subseteq {0, 1}
  /\ address_counter \in 0..SongSize + Batch /\ freq_reader \in FreqIncrement..FreqMax
  /\ task1 \in Task1Types /\ task2 \in Task2Types /\ fifo \in 0..FifoSize

LEMMA InactiveMaxIs == InactiveMax \in Nat
<1>1. PICK last \in JtagTimeouts : \A x \in JtagTimeouts : x <= last
  BY JtagAssumption
<1>2. \A x \in JtagTimeouts : last >= x
  BY <1>1, JtagAssumption
<1>3. InactiveMax \in JtagTimeouts
  BY <1>2, Zenon DEF InactiveMax, Max
<1> QED BY <1>3, JtagAssumption

LEMMA DriverTypesStep ==
  ASSUME DriverTypes, [Next]_vars
  PROVE  DriverTypes'
<1> USE DEF DriverTypes
<1>1. CASE \E t \in Users : Moves(t)
  <2> SUFFICES ASSUME NEW t \in Users, Moves(t) PROVE DriverTypes'
    BY <1>1
  <2>1. irq_enable' \in {irq_enable, irq_enable \cup {"RE"}, irq_enable \cup {"WE"}}
    BY DEF Moves, Lock, LoadRead, LoadWrite, CopyRead, CopyWrite, AdvanceRead, AdvanceWrite,
           EnableRead, EnableWrite, Pend, Woken, Check, Unlock, Close
  <2>2. host_inactive' = host_inactive /\ timeout' = timeout
    BY DEF Moves, Lock, LoadRead, LoadWrite, CopyRead, CopyWrite, AdvanceRead, AdvanceWrite,
           EnableRead, EnableWrite, Pend, Woken, Check, Unlock, Close
  <2> QED BY <2>1, <2>2
<1>2. ASSUME NEW t \in Users, NEW op, NEW count, NEW nonblock, Begin(t, op, count, nonblock)
      PROVE  DriverTypes'
  BY <1>2 DEF Begin
<1>3. CASE ISR
  BY <1>3 DEF ISR
<1>4. CASE HostSends \/ HostReads \/ HostLeaves \/ SetTimeout
  BY <1>4 DEF HostSends, HostReads, HostLeaves, SetTimeout
<1>5. CASE TimeoutAlarm
  <2>1. host_inactive' = 0 \/ host_inactive' = Least({host_inactive + 1, InactiveMax})
    BY <1>5 DEF TimeoutAlarm
  <2>2. irq_enable' = irq_enable /\ timeout' = timeout
    BY <1>5 DEF TimeoutAlarm
  <2>3. host_inactive + 1 \in Nat
    BY InactiveMaxIs
  <2>4. Least({host_inactive + 1, InactiveMax}) \in 0..InactiveMax
    BY <2>3, InactiveMaxIs, LeastOfTwo
  <2> QED BY <2>1, <2>2, <2>4, InactiveMaxIs
<1>6. CASE UNCHANGED jtagVars
  BY <1>6 DEF jtagVars
<1>7. CASE Uart
  BY <1>1, <1>2, <1>3, <1>4, <1>5, <1>7, Zenon DEF Uart
<1>8. CASE Library \/ Clock \/ Application \/ UNCHANGED vars
  <2>1. UNCHANGED jtagVars
    BY <1>8, Zenon DEF Library, Clock, Application, vars
  <2> QED BY <1>6, <2>1
<1> QED BY <1>7, <1>8, Zenon DEF Next

(* Nobody nests deeper than its library does.                              *)
LEMMA LockDepthsStep ==
  ASSUME app \in Lab5Apps, LockInv, LockDepths, [Next]_vars
  PROVE  LockDepths'
<1>0. app.depth \in Nat /\ 1 <= app.depth
  BY Lab5AppsAssumption
<1>1. CASE UNCHANGED <<lockVars, app>>
  BY <1>1 DEF lockVars, LockDepths
<1>2. ASSUME NEW t \in LockTasks, Locking(t, app.kind, app.depth), app' = app
      PROVE  LockDepths'
  <2>1. /\ locker \in [LockTasks -> [pc : LockPlaces, depth : Nat, mine : BOOLEAN]]
        /\ locks \in Nat
    BY DEF LockInv, LockTypeOK
  <2>2. SUFFICES /\ \A u \in LockTasks : /\ locker'[u].depth <= app.depth
                                         /\ locker'[u].pc = "test" => locker'[u].depth < app.depth
                 /\ locks' <= app.depth
    <3>1. lockid' \in LockTasks \cup {Nobody}
      BY <1>2 DEF Locking, Query, Test, SemPend, Claim, UnlockCount, Forget, SemPost, LockDepths
    <3> QED BY <1>2, <3>1 DEF LockDepths
  <2>3. CASE Query(t, app.kind, app.depth)
    BY <2>1, <2>3 DEF Query, LockDepths
  <2>4. CASE Test(t)
    <3>1. CASE locker[t].mine /\ lockid = t
      <4>1. locks = locker[t].depth /\ locks < app.depth
        BY <2>1, <2>4, <3>1 DEF Test, LockAt, LockInv, OwnerKnows, LockDepths
      <4>2. locks' = locks + 1 /\ Goes(t, "out", locker[t].depth + 1)
        BY <2>4, <3>1 DEF Test, Inside
      <4>3. /\ locker'[t].pc = "out" /\ locker'[t].depth = locker[t].depth + 1
            /\ \A u \in LockTasks \ {t} : locker'[u] = locker[u]
        BY <2>1, <4>2 DEF Goes
      <4> QED BY <1>0, <2>1, <4>1, <4>2, <4>3 DEF LockDepths
    <3>2. CASE ~(locker[t].mine /\ lockid = t)
      BY <2>1, <2>4, <3>2 DEF Test, LockGoto, LockDepths
    <3> QED BY <3>1, <3>2
  <2>5. CASE SemPend(t)
    BY <2>1, <2>5 DEF SemPend, LockGoto, LockDepths
  <2>6. CASE Claim(t)
    <3>1. CASE LockAt(t, "claim") /\ locks' = 1 /\ LockGoto(t, "name")
      BY <1>0, <2>1, <3>1 DEF LockGoto, LockDepths
    <3>2. CASE LockAt(t, "name") /\ Inside(t) /\ locks' = locks
      <4>1. locker[t].depth = 0
        BY <2>1, <3>2 DEF LockAt, LockInv, OwnerKnows
      <4>2. /\ locker'[t].pc = "out" /\ locker'[t].depth = 1
            /\ \A u \in LockTasks \ {t} : locker'[u] = locker[u]
        BY <2>1, <3>2, <4>1 DEF Inside, Goes
      <4> QED BY <1>0, <2>1, <3>2, <4>2 DEF LockDepths
    <3> QED BY <2>6, <3>1, <3>2 DEF Claim
  <2>7. CASE UnlockCount(t, app.kind)
    <3>1. PICK p : Goes(t, p, locker[t].depth - 1) /\ p # "test"
      BY <2>7 DEF UnlockCount
    <3>2. locks' = locks - 1 /\ locker[t].depth > 0
      BY <2>7 DEF UnlockCount
    <3>3. /\ locker'[t].pc = p /\ locker'[t].depth = locker[t].depth - 1
          /\ \A u \in LockTasks \ {t} : locker'[u] = locker[u]
      BY <2>1, <3>1 DEF Goes
    <3> QED BY <1>0, <2>1, <3>1, <3>2, <3>3 DEF LockDepths
  <2>8. CASE Forget(t)
    BY <2>1, <2>8 DEF Forget, LockGoto, LockDepths
  <2>9. CASE SemPost(t)
    <3>1. locks' = locks
      BY <2>9 DEF SemPost
    <3>2. \A u \in LockTasks : locker'[u].depth = locker[u].depth
                               /\ locker'[u].pc \in {locker[u].pc, "out", "claim"}
      <4>1. CASE LockGoto(t, "out")
        BY <2>1, <4>1 DEF LockGoto
      <4>2. ASSUME NEW w \in LockTasks, locker' = [locker EXCEPT ![t].pc = "out", ![w].pc = "claim"]
            PROVE  \A u \in LockTasks : locker'[u].depth = locker[u].depth
                                        /\ locker'[u].pc \in {locker[u].pc, "out", "claim"}
        BY <2>1, <4>2
      <4>3. semWaits \subseteq LockTasks
        BY DEF LockInv, LockTypeOK
      <4> QED BY <2>9, <4>1, <4>2, <4>3 DEF SemPost
    <3> QED BY <3>1, <3>2 DEF LockDepths
  <2> QED BY <1>2, <2>3, <2>4, <2>5, <2>6, <2>7, <2>8, <2>9 DEF Locking
<1>3. CASE Library
  BY <1>2, <1>3 DEF Library, Runs
<1> QED BY <1>1, <1>3 DEF Next, vars, Uart, Clock, Application, Runs

(* What the two tasks count stays in range.                                *)
LEMMA TaskTypesStep ==
  ASSUME TaskTypes, [Next]_vars
  PROVE  TaskTypes'
<1>0. /\ SongSize \in Nat \ {0} /\ Batch \in Nat \ {0} /\ FifoSize \in Nat \ {0}
      /\ Delay1 \in Nat \ {0} /\ Delay2 \in Nat
      /\ FreqIncrement \in Nat \ {0} /\ FreqMax \in Nat /\ FreqIncrement <= FreqMax
  BY Lab5Assumption
<1>1. CASE UNCHANGED lab5Vars
  BY <1>1 DEF lab5Vars, TaskTypes
<1>2. CASE Lab5TasksNext
  <2> USE <1>0 DEF flagVars5, TaskTypes
  <2>a. \A n \in 0..Batch, d \in 0..Delay1 :
          /\ [task1 EXCEPT !.pc = "send", !.left = n] \in Task1Types
          /\ [task1 EXCEPT !.pc = "loop", !.dly = d] \in Task1Types
          /\ [task1 EXCEPT !.dly = d] \in Task1Types
    BY DEF Task1Types
  <2>b. \A b \in Buttons, d \in 0..Delay2 :
          /\ [task2 EXCEPT !.pc = "act", !.button = b] \in Task2Types
          /\ [task2 EXCEPT !.dly = d] \in Task2Types
          /\ [task2 EXCEPT !.pc = "poll", !.button = b, !.dly = d] \in Task2Types
    BY DEF Task2Types
  <2>c. Batch \in 0..Batch /\ Delay1 \in 0..Delay1 /\ Delay2 \in 0..Delay2 /\ "none" \in Buttons
    BY DEF Buttons
  <2>d. Delayed2 \in Task2Types
    BY <2>b, <2>c DEF Delayed2
  <2>1. CASE Start1
    BY <2>1 DEF Start1, Task1Types
  <2>2. CASE Loop1
    <3>1. task1' \in Task1Types
      BY <2>2, <2>a, <2>c, Zenon DEF Loop1
    <3>2. address_counter' \in {0, address_counter}
      BY <2>2 DEF Loop1
    <3>3. /\ UNCHANGED <<play_song, pause_song, stop_song>> /\ freq_reader' = freq_reader
          /\ task2' = task2 /\ fifo' = fifo
      BY <2>2 DEF Loop1
    <3> QED BY <3>1, <3>2, <3>3
  <2>3. CASE Send1
    BY <2>3 DEF Send1, Task1Types
  <2>4. CASE Sent1
    <3>1. task1' \in Task1Types
      BY <2>4, <2>a, <2>c, Zenon DEF Sent1
    <3>2. address_counter' \in 0..SongSize + Batch
      BY <2>4 DEF Sent1
    <3>3. /\ UNCHANGED <<play_song, pause_song, stop_song>> /\ freq_reader' = freq_reader
          /\ task2' = task2 /\ fifo' = fifo
      BY <2>4 DEF Sent1
    <3> QED BY <3>1, <3>2, <3>3
  <2>5. ASSUME NEW key \in BOOLEAN, NEW b \in Buttons, Poll2(key, b) PROVE TaskTypes'
    <3>1. task2' \in Task2Types
      BY <2>5, <2>b, <2>c, Zenon DEF Poll2
    <3>2. /\ UNCHANGED <<play_song, pause_song, stop_song>> /\ freq_reader' = freq_reader
          /\ task1' = task1 /\ fifo' = fifo /\ address_counter' = address_counter
      BY <2>5 DEF Poll2
    <3> QED BY <3>1, <3>2
  <2>6. CASE SetPlay2
    BY <2>6 DEF SetPlay2, Task2Types
  <2>7. CASE SetPause2
    BY <2>7 DEF SetPause2, Task2Types
  <2>8. CASE SetStop2
    <3>1. task2' \in Task2Types
      BY <2>8, <2>d DEF SetStop2, End2
    <3>2. stop_song' \in {0, 1}
      BY <2>8 DEF SetStop2
    <3>3. /\ UNCHANGED <<play_song, pause_song>> /\ freq_reader' = freq_reader
          /\ task1' = task1 /\ fifo' = fifo /\ address_counter' = address_counter
      BY <2>8 DEF SetStop2
    <3> QED BY <3>1, <3>2, <3>3
  <2>9. CASE SetRate2 \/ Select2 \/ Nowhere2
    <3>1. task2' \in Task2Types
      BY <2>9, <2>d DEF SetRate2, Select2, Nowhere2, End2
    <3>2. freq_reader' \in FreqIncrement..FreqMax
      BY <2>9 DEF SetRate2, Select2, Nowhere2, Faster, Slower
    <3>3. /\ UNCHANGED <<play_song, pause_song, stop_song>>
          /\ task1' = task1 /\ fifo' = fifo /\ address_counter' = address_counter
      BY <2>9 DEF SetRate2, Select2, Nowhere2
    <3> QED BY <3>1, <3>2, <3>3
  <2>10. CASE Tick
    BY <2>10 DEF Tick, Task1Types, Task2Types
  <2>11. CASE Sound
    BY <2>11 DEF Sound
  <2> QED
    BY <1>2, <2>1, <2>2, <2>3, <2>4, <2>5, <2>6, <2>7, <2>8, <2>9, <2>10, <2>11, Zenon
    DEF Lab5TasksNext
<1>3. CASE Application
  BY <1>2, <1>3 DEF Application
<1> QED BY <1>1, <1>3 DEF Next, vars, Uart, Library, Clock

(* Pointers, counts, flags, ticks, addresses and rates stay in their       *)
(* ranges in every part of the software of Lab 5, with libraries that may  *)
(* nest as they do.                                                        *)
THEOREM Lab5TypesKept ==
  ASSUME \A x \in Lab5Apps : x.part = "lock" => MayNest(x.kind, x.depth)
  PROVE  Spec => []TypeOK
<1> DEFINE Inv == /\ app \in Lab5Apps /\ LockInv /\ UartInv /\ AlarmInv
                  /\ DriverTypes /\ LockDepths /\ TaskTypes
<1>1. Init => Inv
  <2> SUFFICES ASSUME Init PROVE Inv
    OBVIOUS
  <2>1. app \in Lab5Apps /\ UartInv /\ AlarmInv
    BY JtagInitInv, AlarmInitInv DEF Init
  <2>2. LockInv
    BY LockAssumption DEF Init, LockInit, LockInv, LockTypeOK, LockPlaces, OwnerKnows, Owning
  <2>3. DriverTypes
    BY InactiveMaxIs DEF Init, JtagInit, DriverTypes
  <2>4. LockDepths
    BY <2>1, Lab5AppsAssumption DEF Init, LockInit, LockDepths
  <2>5. TaskTypes
    <3>1. PICK freq \in FreqIncrement..FreqMax : Lab5Init(freq)
      BY <2>1, Lab5AppsAssumption DEF Init
    <3> QED BY <3>1, Lab5Assumption DEF Lab5Init, TaskTypes, Task1Types, Task2Types, Buttons
  <2> QED BY <2>1, <2>2, <2>3, <2>4, <2>5
<1>2. Inv /\ [Next]_vars => Inv'
  <2> SUFFICES ASSUME Inv, [Next]_vars PROVE Inv'
    OBVIOUS
  <2>1. app' = app
    BY Zenon DEF Next, Uart, Library, Clock, Application, Runs, vars
  <2>2. LockInv'
    <3>1. CASE Library
      BY <3>1, LockingInv DEF Library, Runs
    <3>2. CASE UNCHANGED <<lockVars, app>>
      BY <3>2 DEF lockVars, LockInv, LockTypeOK, OwnerKnows, Owning
    <3> QED BY <3>1, <3>2 DEF Next, vars, Uart, Clock, Application, Runs
  <2> QED BY <2>1, <2>2, UartNext, AlarmStepInv, DriverTypesStep, LockDepthsStep, TaskTypesStep
<1>3. Inv => TypeOK
  <2> SUFFICES ASSUME Inv PROVE TypeOK
    OBVIOUS
  <2>1. /\ rx.in \in 0..BufLen - 1 /\ rx.out \in 0..BufLen - 1 /\ rx.next \in 0..ByteMod - 1
        /\ tx.in \in 0..BufLen - 1 /\ tx.out \in 0..BufLen - 1 /\ tx.next \in 0..ByteMod - 1
    BY DEF UartInv, BytesInv, Rings, Numbers
  <2>2. Len(hw.rx) <= Depth /\ Len(hw.tx) <= Depth
    BY DEF UartInv, BytesInv, Queues
  <2>3. \A t \in Users : call[t].count \in 0..MaxCount /\ call[t].n \in 0..BufLen - 1
    BY CallFields DEF UartInv, CallsInv
  <2>4. events \subseteq {"READ_RDY", "WRITE_RDY", "TIMEOUT"}
    BY DEF UartInv, CallsInv, JtagFlags
  <2>5. /\ semCnt \in 0..1 /\ semWaits \subseteq LockTasks
        /\ locks \in 0..MaxDepth
    <3>1. app.depth <= MaxDepth /\ app.depth \in Nat /\ MaxDepth \in Nat
      BY Lab5AppsAssumption, LockAssumption
    <3> QED BY <3>1 DEF LockInv, LockTypeOK, LockDepths
  <2>6. lockid \in LockTasks \cup {Nobody}
    BY DEF LockDepths
  <2>7. /\ alt_nticks \in 0..TickMod - 1 /\ alt_alarm_list \subseteq Alarms
        /\ \A a \in Alarms : alarm[a].time \in 0..TickMod - 1 /\ alarm[a].rollover \in BOOLEAN
    BY DEF AlarmInv
  <2>8. /\ {play_song, pause_song, stop_song} \subseteq {0, 1}
        /\ address_counter \in 0..SongSize + Batch
        /\ freq_reader \in FreqIncrement..FreqMax
        /\ task1.left \in 0..Batch /\ task1.dly \in 0..Delay1 /\ task2.dly \in 0..Delay2
        /\ fifo \in 0..FifoSize
    BY DEF TaskTypes, Task1Types, Task2Types
  <2> QED
    BY <2>1, <2>2, <2>3, <2>4, <2>5, <2>6, <2>7, <2>8, Zenon DEF TypeOK, DriverTypes
<1> QED BY <1>1, <1>2, <1>3, PTL DEF Spec
=============================================================================
