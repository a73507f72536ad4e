----------------------------- MODULE Lab5Tasks ------------------------------
(***************************************************************************)
(* The two tasks of Lab 5 (hello_ucosii.c, drivers.c): task1, the more     *)
(* important one, feeds the song to the sound FIFO; task2 looks at the     *)
(* pointer and the space key and acts on the button pressed. They share    *)
(* the three flags of the player. task2 runs only while task1 is delayed.  *)
(***************************************************************************)
EXTENDS Naturals

CONSTANTS
  SongSize,      \* size_song
  Batch,         \* NUMERO_DE_MUESTRAS
  FifoSize,      \* of the sound FIFO, in samples
  Delay1, Delay2,\* 10 ms and 100 ms
  FreqMax, FreqIncrement,
  Selections     \* the modulations, and the signals, of the buttons

ASSUME Lab5Assumption ==
  /\ {SongSize, Batch, FifoSize, Delay1, FreqIncrement} \subseteq Nat \ {0}
  /\ Delay2 \in Nat /\ FreqMax \in Nat /\ FreqIncrement <= FreqMax

VARIABLES
  play_song, pause_song, stop_song,
  address_counter, freq_reader,
  task1, task2,    \* where they are, what is left to send, how long they are delayed
  registers,       \* select_modulation, select_signal and the rate of the sound clock
  fifo,            \* how many samples are in the sound FIFO
  rewinding        \* history: stopped, and nothing sent since

lab5Vars == <<play_song, pause_song, stop_song, address_counter, freq_reader,
              task1, task2, registers, fifo, rewinding>>

PlayerButtons == {"play", "stop", "pause"}
RateButtons == {"back", "ford"}
SelectButtons == {"modulation", "signal"}
Buttons == PlayerButtons \cup RateButtons \cup SelectButtons \cup {"none"}

SoundClock == 50000000
Rate(freq) == SoundClock \div (2 * freq) - 1   \* set_audio_frequency_audio_controller

Lab5Init(freq) ==
  /\ play_song = 0 /\ pause_song = 0 /\ stop_song = 0
  /\ address_counter = 0 /\ freq_reader = freq
  /\ task1 = [pc |-> "start", left |-> 0, dly |-> 0]
  /\ task2 = [pc |-> "poll", button |-> "none", dly |-> 0]
  /\ registers = [modulation |-> 0, signal |-> 3, rate |-> 0]
  /\ fifo = 0
  /\ rewinding = FALSE

flagVars5 == <<play_song, pause_song, stop_song>>

-----------------------------------------------------------------------------
Task1Runs == task1.dly = 0
Task2Runs == ~Task1Runs /\ task2.dly = 0

Start1 ==
  /\ Task1Runs /\ task1.pc = "start"
  /\ registers' = [registers EXCEPT !.rate = Rate(freq_reader)]
  /\ task1' = [task1 EXCEPT !.pc = "loop"]
  /\ UNCHANGED <<flagVars5, address_counter, freq_reader, task2, fifo, rewinding>>

(* The flags are looked at one after the other, in this order.             *)
Loop1 ==
  /\ Task1Runs /\ task1.pc = "loop"
  /\ \/ /\ play_song = 1
        /\ task1' = [task1 EXCEPT !.pc = "send", !.left = Batch]
        /\ UNCHANGED address_counter
     \/ /\ play_song # 1
        /\ address_counter' = IF pause_song # 1 /\ stop_song = 1 THEN 0 ELSE address_counter
        /\ task1' = [task1 EXCEPT !.dly = Delay1]
  /\ UNCHANGED <<flagVars5, freq_reader, task2, registers, fifo, rewinding>>

(* send_audio_fifo: while the FIFO is full task1 spins, and task2 waits.   *)
Send1 ==
  /\ Task1Runs /\ task1.pc = "send" /\ task1.left > 0 /\ fifo < FifoSize
  /\ fifo' = fifo + 1
  /\ task1' = [task1 EXCEPT !.left = @ - 1]
  /\ UNCHANGED <<flagVars5, address_counter, freq_reader, task2, registers, rewinding>>

Sent1 ==
  /\ Task1Runs /\ task1.pc = "send" /\ task1.left = 0
  /\ address_counter' = IF address_counter < SongSize THEN address_counter + Batch ELSE 0
  /\ task1' = [task1 EXCEPT !.pc = "loop", !.dly = Delay1]
  /\ rewinding' = FALSE
  /\ UNCHANGED <<flagVars5, freq_reader, task2, registers, fifo>>

-----------------------------------------------------------------------------
(* mouse_pos: with the space key down, held or not, the button under the   *)
(* pointer is pressed.                                                     *)
Poll2(key, button) ==
  /\ Task2Runs /\ task2.pc = "poll"
  /\ task2' = IF key THEN [task2 EXCEPT !.pc = "act", !.button = button]
                     ELSE [task2 EXCEPT !.dly = Delay2]
  /\ UNCHANGED <<flagVars5, address_counter, freq_reader, task1, registers, fifo, rewinding>>

Undelayed2 == [task2 EXCEPT !.pc = "poll", !.button = "none"]
Delayed2 == [task2 EXCEPT !.pc = "poll", !.button = "none", !.dly = Delay2]
End2 == task2' = Delayed2

(* The three flags are set one after the other; an interrupt between two   *)
(* of them may let task1 run.                                              *)
SetPlay2 ==
  /\ Task2Runs /\ task2.pc = "act" /\ task2.button \in PlayerButtons
  /\ play_song' = IF task2.button = "play" THEN 1 ELSE 0
  /\ task2' = [task2 EXCEPT !.pc = "pause"]
  /\ UNCHANGED <<pause_song, stop_song, address_counter, freq_reader, task1, registers, fifo,
                 rewinding>>

SetPause2 ==
  /\ Task2Runs /\ task2.pc = "pause"
  /\ pause_song' = IF task2.button = "pause" THEN 1 ELSE 0
  /\ task2' = [task2 EXCEPT !.pc = "stop"]
  /\ UNCHANGED <<play_song, stop_song, address_counter, freq_reader, task1, registers, fifo,
                 rewinding>>

SetStop2 ==
  /\ Task2Runs /\ task2.pc = "stop"
  /\ stop_song' = IF task2.button = "stop" THEN 1 ELSE 0
  /\ End2
  /\ rewinding' = (rewinding \/ task2.button = "stop")
  /\ UNCHANGED <<play_song, pause_song, address_counter, freq_reader, task1, registers, fifo>>

FasterAlways(freq) == freq + FreqIncrement
Faster(freq) == IF freq + FreqIncrement > FreqMax THEN FreqMax ELSE freq + FreqIncrement
Slower(freq) == IF freq < 2 * FreqIncrement THEN FreqIncrement ELSE freq - FreqIncrement

(* The rate goes down by one increment, but not below one, and up to the   *)
(* maximum.                                                                *)
SetRate2 ==
  /\ Task2Runs /\ task2.pc = "act" /\ task2.button \in RateButtons
  /\ freq_reader' = IF task2.button = "ford" THEN Faster(freq_reader) ELSE Slower(freq_reader)
  /\ registers' = [registers EXCEPT !.rate = Rate(freq_reader')]
  /\ End2
  /\ UNCHANGED <<flagVars5, address_counter, task1, fifo, rewinding>>

Select2 ==
  /\ Task2Runs /\ task2.pc = "act" /\ task2.button \in SelectButtons
  /\ \E n \in Selections : registers' = [registers EXCEPT ![task2.button] = n]
  /\ End2
  /\ UNCHANGED <<flagVars5, address_counter, freq_reader, task1, fifo, rewinding>>

Nowhere2 ==
  /\ Task2Runs /\ task2.pc = "act" /\ task2.button = "none"
  /\ End2
  /\ UNCHANGED <<flagVars5, address_counter, freq_reader, task1, registers, fifo, rewinding>>

-----------------------------------------------------------------------------
Tick ==
  /\ task1' = [task1 EXCEPT !.dly = IF @ > 0 THEN @ - 1 ELSE 0]
  /\ task2' = [task2 EXCEPT !.dly = IF @ > 0 THEN @ - 1 ELSE 0]
  /\ UNCHANGED <<flagVars5, address_counter, freq_reader, registers, fifo, rewinding>>

(* The sound hardware takes a sample.                                      *)
Sound ==
  /\ fifo > 0
  /\ fifo' = fifo - 1
  /\ UNCHANGED <<flagVars5, address_counter, freq_reader, task1, task2, registers, rewinding>>

Lab5TasksNext ==
  \/ Start1 \/ Loop1 \/ Send1 \/ Sent1
  \/ \E key \in BOOLEAN, b \in Buttons : Poll2(key, b)
  \/ SetPlay2 \/ SetPause2 \/ SetStop2 \/ SetRate2 \/ Select2 \/ Nowhere2
  \/ Tick \/ Sound

-----------------------------------------------------------------------------
(* After a stop the song starts again at its beginning, however quickly    *)
(* play follows, although the stop is only a flag that task1 must see      *)
(* before task2 clears it: while task2 is delayed task1 comes round at     *)
(* least once (hello_ucosii.c).                                            *)
StopRewinds == task1.pc = "send" /\ rewinding => address_counter = 0
=============================================================================
