# TLA+ models of the Digital_System_Design labs

The repository holds the labs and assignments of a digital design course: Verilog
and SystemVerilog for a DE1-SoC board, one assembly program for a picoBlaze soft
processor and, for Lab 5, C for a Nios II with the uC/OS-II kernel, its drivers and
its C library underneath. This directory models the parts with logic of their own as
TLA+ modules, checks them with TLC on small instances, and proves the central
invariants with TLAPS for every value of the constants.

The software of Lab 5 is modelled by **critical sections**: what the code does with
interrupts off is one step, and so is every single read or write of a shared variable
that it does with interrupts on. Between two steps an interrupt may come, and another
task may run.

The hardware modelled here is synchronous. **One step of such a model is one rising
edge of its clock**: every register takes its new value at once, from the old
values of the others, as non-blocking assignments do. What is asynchronous (keys,
switches, reset buttons, the sample clock, the flash, a request of an asker) may
come at any edge, within the assumptions named below.

## 1. Inventory

| Part | State | Operations | Talks to | What is hard |
|---|---|---|---|---|
| **RC4 decrypter** (Lab 4, `code_added/`) | four state machines, i/j/k/si/sj/f registers, counter; RAM of 256 bytes, ROM and RAM of the message | initialise, shuffle, decode, reset | one RAM shared through a multiplexer; start pulses and finish levels | four machines that agree only through wires; a RAM with registered address; reset at any edge keeps registers and memory; live switches |
| **Brute force, message check** (Lab 4, `brute_force_code/`) | core_found, address, counter | verify a message, next key | decrypter (never wired) | verdict of the last message survives |
| **Player** (Labs 2, 3) | mode, address controller, Flash_Read, synchroniser | play, pause, direction, restart | flash (Avalon pipelined reads), keyboard, sample clock | a flash that waits and answers late; pulses longer than a cycle; restart racing the end of a read |
| **Keyboard entry** (Labs 2, 3) | PS/2 shift register, data_ready, LCD state machine, ascii register | receive, convert, clear | player modes | the ready flag and the code it announces change at different times |
| **Sample clock and speed** (Labs 2, 3) | counters | speed up, down, reset; divide | synchroniser | counter without a floor; a comparison moved under a running counter |
| **picoBlaze volume meter** (Lab 3) | sum, count, LEDs | interrupt per sample, blink loop | `volume_sig` of the player | interrupts lost while one is served |
| **Shared access arbiter** (Assignment 3) | state (turn and step), two result registers, two request traps | serve a, serve b | two askers, one target | requests at any time, results to the right side, turns |
| **Lab 5 modulation** | LFSR, edge capture, phase increment | shift, interrupt | Nios II, DDS | an edge between the read and the clear of the capture register |
| **uC/OS-II kernel** (Lab 5, `UCOSII/src/os_*.c`) | ready list, priority table, task and event control blocks, queue rings, flag groups, free blocks | create, delete, suspend, delay; pend, post, accept, abort, flush, delete of six services | applications and interrupts call it; it switches tasks | an interrupt between any two critical sections; a wait that ends twice; lists that name tasks by priorities, which change |
| **JTAG UART driver** (Lab 5, `drivers/src/`) | two rings, interrupt mask, flags, inactivity count, two locks | read, write, close, set timeout; interrupt, alarm | kernel flags and semaphores, HAL alarm, host | task and interrupt move the two ends of a ring; a host that leaves |
| **C library locks** (Lab 5, `alt_*_lock.c`) | semaphore, count, name of the owner | lock, unlock, nested | kernel semaphores | the owner is found from a stale copy |
| **HAL clock and alarms** (Lab 5, `alt_tick.c`) | tick count, list of alarms | start, stop, tick | timer interrupt, callbacks | the count wraps |
| **Lab 5 tasks, graphics, sound** | player flags, song address, rate, sound FIFO, frame | poll the pointer, press a button, send samples; draw | kernel delays, sound hardware, VIP frame reader | a polling loop at the higher priority; flags that the other task must see in time |
| **Lab 5 keyboard and cursor** | scan byte buffer, event flag | read code, emit event | VGA cursor | buffer wraps on unknown codes |
| **Lab 5 display helpers, Lab 1 organ, exercises** | counters, multiplexers | – | – | no protocol of their own |
| **Vendored** | pacoblaze, Qsys, rest of the BSP, `.qxp` netlists | – | – | third party or without source |

What makes each part correct:

- *Decrypter*: the shuffle starts from the identity; a register that takes the
  RAM's output takes the cell that was meant; only the engine that has been
  started is working; swaps are never half done at the moment somebody else looks;
  a run ends, and ends with RC4's plaintext, whatever came before.
- *Player*: a byte put out belongs to the address; a restart is not forgotten; a
  reset ends; a press acts once and as the key that was pressed; the address stays
  in the song; each byte waits for its own sample tick.
- *Arbiter*: no request is lost or served twice; finish comes to the side that
  asked and with the result of its arguments; nobody is overtaken twice; every
  request ends.
- *Kernel*: a task is in the ready list exactly when it can run, and the most
  important one runs; the wait lists hold the tasks that wait and no others; nobody
  waits for what is there; whoever is woken is the most important; units, messages,
  mutexes and blocks are neither lost nor doubled, whatever posts, timeouts, aborts
  and deletions meet before the task runs again; a queue is a double-ended queue.
- *JTAG UART*: bytes come through in order, once; a write ends, whoever else uses the
  driver and if the host goes away.
- *Locks*: the owner is alone, and may lock again without waiting for itself.
- *Alarms*: each rings at its tick, across the wrap of the clock.
- *Lab 5 tasks*: after a stop the song begins at its beginning.
- *Planned parts*: see section 7.

`PROJECT.json` holds the list of hazards, each at its line with the properties
that cover it, or the reason why none does yet.

## 2. Modules

### Lab 4: the RC4 decrypter

| Module | Source | Content |
|---|---|---|
| `RC4Types` | – | bytes, keys, swap, permutation; the record of a memory request |
| `MainControl` | `decode_with_key_main_control.sv` | `MainStep`; outputs as operators of the state |
| `MemoryInit` | `s_memory_init.sv` | `InitStep`; the counter survives a reset, as in the code |
| `MemoryShuffle` | `s_memory_shuffle.sv` | `ShuffleStep`: next state, then i, j, si, sj, each its own operator |
| `Decode` | `decode.sv` | `DecodeStep`, the same way |
| `DecodeWithKey` | `decode_with_key.sv`, `share_access_to_s_memory.sv`, the three memories, `lab4_top.sv` | the composition: `Clock` is one edge of all of it; `Next` is an edge with or without reset |
| `RC4` | (abstract specification) | RC4 with atomic swaps, no latency, and a reset |
| `RC4Reference` | `decode_script.py` and the shape of the hardware | RC4 as a program on an array: its rounds as recursive functions of the key, and the message they give, which `MessageDecrypted` compares with |
| `MCDecodeWithKey` | – | the instances |
| `DecodeWithKey_proofs` | – | the proofs: the invariants, the refinement of `RC4`, the message |

The engines share one RAM. `SharedRequest` is the multiplexer: the request of the
selected engine, or the default (address 0, no write). The RAM registers the
address and shows the cell in the next cycle; a write shows in the next cycle too
(`read_during_write` is NEW_DATA), so `s_memory_q` is `S[s_address]`.

The refinement (`ImplementsRC4`, `Abstract == INSTANCE RC4 WITH ...`) maps four
machines to one: a swap takes effect at the edge that computes j, and between that
edge and the second write the mapping completes the swap in the memory. The
abstract `Schedule` reads the key at each step, because the hardware reads the
switches there; that a message comes out right needs `SteadySpec`, where the
switches rest while a run is on.

### Labs 2 and 3: the player

| Module | Source | Content |
|---|---|---|
| `Sychronizer` | `Sychronizer.v` (spelled so) | four flip-flops, one of them cleared by the last |
| `FlashRead` | `Flash_Read.sv` | the five states of a read, from idle to finished |
| `MemoryAddressControl` | `Memory_Address_Control.sv` | ten states and the address; `out_Data` is the byte register's next value |
| `KeyboardControl` | `Keyboard_Control.sv` | modes; outputs are bits of the state |
| `KeyboardEntry` | `Kbd_ctrl.v`, `Write_Kbd_To_Scope_LCD.v`, `key2ascii.v` | from a complete key to `kbd_data_ready` and `key_pressed` |
| `Player` | `simple_ipod_solution.v` | the composition and the flash |
| `Player_proofs` | – | proofs; the runs instantiate `Player` in their cfg |

An edge is a `PlainEdge`, a `TickEdge` (the sample clock has risen) or a `KeyEdge`
(a key frame is complete). Words are modelled by their address, bytes by word and
half: that is what the properties tell apart. The flash is external: it takes a
read with its address unless it asks to wait, holds at most `MaxPending` reads,
answers in order, at most every other edge, and keeps its data until the next
answer. `restart_owed` is a history variable: R has put the player into a reset
and the address has not moved to the song's end yet.

### Assignment 3: sharing a state machine

| Module | Source | Content |
|---|---|---|
| `TrapEdge` | `trap_edge.sv` | two flip-flops a side: the request sets the first at any time |
| `SharedAccess` | `shared_access_to_one_state_machine.sv` | ten states as turn and step; the two result registers |
| `SharedService` | (askers and target: external) | the composition: `Ask` between edges, `Edge`, `Reset` |
| `MCSharedService`, `SharedService_proofs` | – | instances, proofs |

`overtaken` is a history variable that counts starts of the other side.

### Lab 5: the kernel

| Module | Source | Content |
|---|---|---|
| `OSCore` | `os_core.c`, `ucos_ii.h` | control blocks, ready list, wait lists, scheduler, interrupt brackets, tick; how a pend blocks and ends |
| `OSTime` | `os_time.c` | delays |
| `OSSem`, `OSMbox`, `OSQ` | `os_sem.c`, `os_mbox.c`, `os_q.c` | counting semaphores, mailboxes, message queues as rings |
| `Deque` | (abstract specification) | what a queue promises |
| `OSEventMulti` | `os_core.c` | `OSEventPendMulti`: any of several events |
| `OSFlag` | `os_flag.c` | event flag groups |
| `OSMutex` | `os_mutex.c` | mutexes with a priority inheritance priority |
| `OSTask` | `os_task.c`, `OS_TCBInit` | creation, deletion, suspension, change of priority |
| `OSMem` | `os_mem.c` | a partition, its free blocks linked through themselves |
| `Kernel` | (the composition) | all of it under an application; the properties that span services |
| `MCKernel` | – | the applications |
| `Kernel_proofs` | – | proofs: queues are deques, blocks are conserved |
| `KernelTasks_proofs` | – | proofs: tasks, priorities, wait lists, the scheduler, flags |
| `KernelMutex_proofs` | – | proofs: the same as far as mutexes go, and that owners inherit; on top of the last |
| `KernelEvents_proofs` | – | proofs: waits, wakes, units, messages and types; on top of the first two |

Every call is an action with the name it has in the code. A call that blocks is
three steps: the critical section that enters the wait (`OSSemPend`), the `OS_Sched`
behind it, and the critical section with which the task, running again, leaves the
call (`OSSemPendEnds`). `pc` says which of them a task has before it. In between,
ticks, posts, aborts, suspensions and deletions find the task in the lists or out of
them. An interrupt service routine is what happens between `OSIntEnter` and
`OSIntExit`; it makes calls too, and its `OS_Sched` does nothing.

Every call tests the type of its event before its critical section, with interrupts
on. The model has the test in the section. That is exact if no event is deleted
between the two, and `NobodyOnTheWay` makes sure of it (section 4).

The bit maps (`OSRdyGrp`, `OSRdyTbl`, `OSEventTbl`) are sets of priorities, and the
table lookup for the highest bit is `Min`. The code names tasks by priority, and so
does the model: `OSTCBPrioTbl` is the only way from a list to a task. `OSTCBEventPtr`
is kept where the code keeps it, also when it is stale. The free lists of control
blocks are the sets of what is not in use.

An *application* (a member of `Apps`) is a set of tasks with priorities, the kinds of
its events, and two sets of calls: those its tasks may make and those its interrupts
may make, in any order and with any arguments. The choice is made in `Init`.

History variables: `units` and `copies` count what was given to a service and has
not been returned by a call yet; `deferred` says that a post with
`OS_POST_OPT_NO_SCHED` asked for no schedule; `held` is the set of blocks an
application has.

### Lab 5: the software around it

| Module | Source | Content |
|---|---|---|
| `JtagUart` | `altera_avalon_jtag_uart_{init,read,write,ioctl}.c` | the two rings, `ISR`, `TimeoutAlarm`; a call of read, write or close step by step |
| `AltLock` | `alt_malloc_lock.c`, `alt_env_lock.c` | query, test, pend, claim; unlock; `kind` says which of the two |
| `AltAlarm` | `alt_tick.c`, `alt_alarm_start.c` | the clock modulo `TickMod`, the rollover mark, `alt_tick` |
| `Lab5Tasks` | `hello_ucosii.c`, `drivers.c` | `task1` and `task2` between their delays |
| `Lab5` | (the composition) | the four side by side: they share no state, and `app` says which one runs |
| `MCLab5`, `Lab5_proofs` | – | instances; proofs about the UART's bytes, the locks, the alarms, the tasks |

The driver reads both ring pointers at one moment (`LoadRead`, `LoadWrite`), copies
at a second, and moves its own pointer at a third; the interrupt may move the other
pointer between any two. Bytes are numbered, so that a lost, repeated or swapped one
shows. The locks are read in three places (the copy of the semaphore, the name, the
count). The kernel's semaphores and flags are taken here at the level the kernel's
own module has them: a semaphore hands itself to a waiting task, a post of flags wakes
every task that waits for one of them (`FlagPost`), and a flag that ends a wait is
consumed when the task runs again, so that a reader and a writer take TIMEOUT away from
each other. `Watched` is the user `WriteEnds` is stated of.

`Lab5Tasks` has the two tasks by their priorities: task2 moves only while task1 is
delayed. A tick may come at any moment. `rewinding` is a history variable: a stop was
pressed and nothing has been sent since.

## 3. Runs

| Run | Specification, bounds | Shows |
|---|---|---|
| `rc4_control` | `Spec`: 4 cells, 2 message bytes, 2 keys; reset, start and switches free at every edge (363 thousand states) | `TypeOK`, `EngineOwnsMemory`, `IdentityWhenShuffleStarts`, `ReadsSeeAddressedCell`, `PermutationBetweenSwaps`, the inductive `IInv`, and `ImplementsRC4` |
| `rc4_result` | `SteadySpec`: 4 cells, 4 message bytes, 2 keys (114 thousand states) | `MessageDecrypted`; `EveryRunEnds` |
| `player_control` | `FairSpec`: 2 words, 1 read pending, keys E, B, D, R (216 thousand states) | `TypeOK`, `FlashInStep`, `AnsweredSampleIsOfAddress`, `IInv`, `RestartIsApplied`; `EveryResetEnds` |
| `player_stale_word` | `Spec`, keys with F | **violated**: `SampleIsOfAddress` |
| `player_second_byte` | the same | **violated**: `SecondByteWaits` |
| `player_restart` | the same | **violated**: `RestartOnlyForR` |
| `player_past_the_end` | the same | **violated**: `AddressInSong` |
| `shared_service` | `FairSpec`: two sides, two arguments (3 thousand states) | `TypeOK`, `RequestsAreKept`, `AnswerIsForTheAsker`, `OvertakenOnce`, `IInv`; `EveryRequestEnds` |
| `kernel` | `Kernel!Spec`: 22 applications of at most 3 tasks and 3 events (500 thousand states) | `TypeOK`; `RunnableIsReady`, `HighestReadyRuns`, `PrioTableNamesTasks` (scheduler); `NoGhostWaiter`, `NobodyWaitsForWhatIsThere`, `WakesInPriorityOrder` (wait lists); `SemUnitsConserved`, `MessagesConserved`, `MemBlocksConserved`, `FlagWaitersUnsatisfied`, `MutexOwnerInherits` (services); the refinement `QueueIsADeque` |
| `kernel_change_prio` | the same, one more application: priorities change while tasks wait | **violated**: `NoGhostWaiter` |
| `lab5` | `Lab5!Spec`: 6 applications of the UART, 2 of the locks, the alarms, the tasks (750 thousand states) | `TypeOK`, `BytesInOrder`, `LockIsRecursive`, `AlarmsOnTime`, `StopRewinds`; `WriteEnds` |
| `env_lock` | the same, the environment's lock nested | **violated**: `LockIsRecursive`. A task waits for itself and the system stops, so deadlock is not checked here |

Why the bounds are enough.

- *Four cells instead of 256.* A swap of a cell with itself, of neighbours and of
  distant cells, sums that wrap, and a key index `i % 3` that wraps (cell 3 uses
  byte 0 again) all happen with four. The reset can strike at every edge of every
  state. The proofs below cover every N.
- *Two or four message bytes instead of 32.* k wraps after the last byte; with four
  the decode index i comes round the memory.
- *Two keys* differ in two of the three bytes; the top byte is 0, as `lab4_top.sv`
  wires it.
- *Two words instead of 524288.* Both ends of the song and the steps between them
  occur. The word past the end has an address of its own (`AddressMax + 1`).
- *One pending read* is enough for the late answer that matters; the invariant is
  proved for every `MaxPending`.
- *F* is left out of `player_control` to keep its liveness check short: the two
  transitions it adds mirror those of B. `player_*` violation runs have it. S, and
  the state secret_s it leads to, are modelled in `KeyboardControl` but no run
  presses S: the state drives only the bonus tune.
- *The kernel's applications.* One application with every call would be out of reach,
  and most calls of different services meet only in the ready list, which each
  application has. So every call of a service is in an application with the ticks,
  the posts from interrupts, and, in turn, the suspensions, deletions, aborts and
  locks that can strike between the moments of a pend.
- *Three tasks at priorities 1, 2, 3* are a running one, the one that is woken and the
  one that must not be; two where no order among waiting tasks matters.
  `LowestPrio` is 4, and 0 is free for a mutex or a change.
- *Timeouts 0 (none) and 1, delays of 1*: the tick that ends a wait can come before or
  after anything. A longer one adds ticks at which nothing happens.
- *MaxNesting 1*: the HAL enters the kernel's bracket once for all interrupts, so that
  they do not nest. *MaxLock 1*, *SemMax 1*: full and empty both occur.
- *Deletions.* In the applications that delete an event the other tasks wait, or delay,
  while it goes (`NobodyOnTheWay`), so each of these has `OSTimeDly`: the event is
  deleted with and without waiting tasks, is created again, and is called by tasks that
  come back from a delay or from the wait that the deletion ended.
- *QSize 2, two messages*: the ring wraps at both ends. *Three blocks*: a list with a
  first, a middle and a last.
- *The UART*: rings of 3, so of 2 bytes at most, with FIFOs of 1 and transfers of up
  to 2: full, empty and both kinds of wrap. *ByteMod 6* is more than can be on its
  way. *JtagTimeouts {2}*: one silent alarm is not enough, two are. *Two users*: a writer
  that also closes, alone; a reader alone; two writers and two readers of whom one does
  not wait, without an alarm; and, with an alarm and a host that may leave, a writer
  beside a reader, both waiting in the one flag group (`BothApp`), and two writers that
  wait, of whom one queues on `write_lock` behind the other (`QueueApp`). That a post
  wakes both the reader and the writer shows only in the first of these two: were only
  one of them woken, the reader could have TIMEOUT to itself each time, and a write would
  wait for ever (the mutant `FlagPostFirst`). *Watched = u1*: in `QueueApp` the two are
  alike, in the others with a waiting writer it is u1.
- *The locks*: three tasks, nesting of 2. *The clock*: modulo 5, two alarms, started
  at every moment with every period up to 3 (section 5, item 13 says why no longer).
- *The tasks*: task2's delay (2) is twice task1's (1); in the code it is ten times.
  A song of 5 samples in batches of 2 passes its end. The rates are those of the code
  scaled to a maximum of 250.

## 4. Assumptions and fairness

*Registers without an initial value* start at 0. The FPGA powers its registers up
low, and the RAM is configured with `power_up_uninitialized => "FALSE"`
(`Working_Memory_RAM.vhd:73`).

*Buttons and switches* (`lab4_top.sv`) are read as levels at every edge, with no
synchroniser: any value at any edge. Metastability is not modelled.

*The flash* is a netlist. Its model allows every order of waiting and answering
that a pipelined Avalon slave with variable latency may show, within the limits
above.

*async_trap_and_reset* is a netlist too: each of the two cells passes an edge on
after a delay of its own choice.

*Keys* are milliseconds apart and a clock period is 20 ns: a key comes when the
last one has been dealt with (`EntryQuiet`).

*Sample ticks* come when the synchroniser has settled, six edges after the last
(`SychronizerQuiet`); the nominal divider gives 2274.

*The askers and the target of the arbiter* are external. An asker keeps its
arguments until finish; the target is on the same clock, takes a start unless it
is running and holds its result. A reset reaches them and the traps too.

*The applications of the kernel* keep its written rules: no call that may block from
an interrupt or with the scheduler locked (the code refuses), a block is put back by
whoever got it, once, and a task that owns a mutex waits for nothing else
(`OwnsNone`; `OSMutexPend`'s header, `os_mutex.c:392`). Some of the calls are kept
apart because their combination fails in a way section 5 names: priorities do not
change while tasks wait on events (item 5), owners of mutexes are not delayed in the
application whose waits time out (item 8), tasks are not suspended in those with
several events (item 14), and no flag is waited for both set, with consumption, and
clear (item 11).

An event is deleted only while nobody else is on the way to one (`NobodyOnTheWay`): every
other task waits, is delayed, or is about to come back from a wait or a switch, and none
waits for several events at once. This is the care that the headers of the five deletions
ask for (`os_sem.c:151`, `os_mbox.c:144`, `os_q.c:195`, `os_flag.c:277`,
`os_mutex.c:241`); what happens without it is item 16 and 17 of section 5. With it the
test of a type, made with interrupts on (`os_sem.c:298`, `os_mbox.c:292`, `os_q.c:407`,
`os_flag.c:590`, `os_mutex.c:421` for the pends, and so for the other calls), and the
critical section that follows (`os_sem.c:310` and so on) may be one step. Suppose a task
has made the test and not entered the section. It is then in its own code and not in a
delay. Nothing but a deletion can undo a test that succeeded; another task may not delete
now, an interrupt may not at all, and an interrupt's own calls are over before any task
goes on. A test that fails changes nothing. So the outcome of the test is the same at
the moment of the section. The rule asks more than it must (a task that is in its own
code may be far from any call), which leaves out behaviours that are harmless too.

*A critical section is one step.* An early return that changes nothing is none. The
stacks, the switch itself and the saved registers are not modelled. A task that was
switched out inside `OS_Sched` goes on behind it.

*Everything of Lab 5's library but the kernel* is looked at one part at a time: the
parts share no variable.

*The host* of the JTAG UART sends and reads, or leaves for good. *TIOCSTIMEOUT* may
come at any time. A number of silent alarms beyond the timeout is cut off: the code
counts to INT_MAX and nothing looks at the difference.

Fairness:

- `SteadySpec`: weak fairness of an edge without reset. The clock never stops, and
  a reset button is released now and then.
- `Player!FairSpec`: weak fairness of `Next` (the clock runs) and of a tick (the
  divider always wraps), strong fairness of a flash that accepts and of one that
  answers (a slave may not ask to wait, or hold an answer, for ever). Keys need not
  come, and may come for ever.
- `SharedService!FairSpec`: weak fairness of the clock, strong fairness of a target
  that finishes. Nobody has to ask; resets may come for ever.
- `Lab5!Spec`, for the UART: where the host may leave, weak fairness of the alarm (the
  HAL rings it every second); where it stays, of the interrupt routine (a pending
  interrupt is served) and of a host that reads what is in the FIFO while it is there. In
  both, of the moves inside a call of each task that may write or close (the kernel runs
  every task in the end if the more important ones wait now and then). A task that only
  reads is promised nothing, nor is anything promised of it: it may wait for ever for a
  host that says nothing, and may come back from a wait whenever it likes. Nobody has to
  call, and the host need not send or leave. Where the host may leave, the writes end by
  the alarm alone. A close polls until the ring is empty; it ends because nobody goes on
  writing beside it in the one application that closes.

## 5. What the runs found

1. **One word past the song** (`player_past_the_end`). The increment compares the
   old address with `>`, so address_max is followed by address_max + 1; only then
   comes 0. The comment says "if already reach the top, go back to start".
2. **Two bytes on one tick** (`player_second_byte`). The synchronised pulse is three
   cycles wide; the controller needs two from one wait to the next. The comment says
   "wait until the sychronized clock start to read data again".
3. **A byte of the word before** (`player_stale_word`). wait_read leaves while
   data_Valid is low, that is at once; with a tick close behind, the byte is taken
   before the answer. What does hold is `AnsweredSampleIsOfAddress`: with no read
   unanswered, the byte is right. It is proved.
4. **A restart by another key** (`player_restart`). While playing, R needs
   kbd_data_ready as well; but data_ready rises before the code is converted, so
   after one R the next key finds R still in the register and restarts the song.
5. **A ghost in a wait list** (`kernel_change_prio`). `OSTaskChangePrio` moves the
   priority in the list of the event that `OSTCBEventPtr` points to. A post leaves
   that pointer to be cleared by the task when it runs; changed before that, the
   priority is put into a list the task has left. `ucos_ii.h:395` calls the list that
   of the "tasks waiting for event to occur".
6. **A lock that waits for itself** (`env_lock`). `__env_lock` finds out whether it is
   the owner by asking whether somebody waits for the semaphore; `__malloc_lock` asks
   whether it is taken. Locked again while nobody waits, the environment's lock pends
   on its own semaphore. Comment: "we do; just count the recursion".

What the models showed while they were written, and no run states, because no text of
the repository promises otherwise:

7. `OSMutexPend` moves a raised owner that is not ready in the list of whatever
   `OSTCBEventPtr` points to: with an owner that has been woken, or is only delayed
   with a stale pointer, this is item 5 again.
8. `OSMutexPost` without a waiting task lowers the owner and returns without
   `OS_Sched`: a task between the two priorities waits for the next schedule. It takes
   a waiter that timed out and left while the owner was delayed.
   `OSMutexDel` with `OS_DEL_ALWAYS` makes a raised owner ready even if it is delayed.
9. `OSPrioCur` keeps the priority a task was switched in at. When that priority is
   changed or lowered, the next schedule compares with the old one.
10. Tasks that wait when an event is deleted with `OS_DEL_ALWAYS` return
   `OS_ERR_NONE`, as from a post, from a semaphore that no longer exists.
11. `OSFlagPend` with `OS_FLAG_CONSUME` on cleared flags sets flags and does not look
   at the other waiting tasks; only the next post does.
12. A blocking read of the UART may return -EIO with the host there: READ_RDY and
   TIMEOUT may be left over from before, and a woken read that finds no byte gives up.
13. `alt_alarm_start` with 2^32 - 1 ticks adds one, comes round to the present time
   and rings at the next tick; the model starts alarms with less.
14. `OSTaskResume` makes a task ready when no bit of `OSTCBStat` is left. A task that
   was suspended in `OSEventPendMulti` keeps OS_STAT_MULTI after the post that answered
   it, so the resume does not make it ready: it has its event and never runs.
15. `OSMutexDel` with `OS_DEL_NO_PEND` looks only at the wait list. An owner that is still
   raised, because its waiter timed out while it was delayed, keeps the PIP, whose entry
   in `OSTCBPrioTbl` the deletion sets to null (`os_mutex.c:302`): the table then has no
   task at a priority a task runs at. The application with deletions delays no owner.
16. Between the test of an event's type and the critical section the event may be deleted.
   A task t2 passes the test of `OSMutexPend` (`os_mutex.c:421`); a tick makes the more
   important t1 ready, which deletes the mutex and delays; t2 goes on at line 434, finds
   an `OSEventCnt` of 0 in the block, reads it as a mutex with an owner, and waits in an
   unused block for ever. In the same way a pend waits in, and a post stores its message
   in, a block that is free (`os_sem.c:298`, `os_mbox.c:471`) or has been given to a new
   event; a post to a queue takes the link of the free list for its queue
   (`os_q.c:585`; a deleted block keeps the link in `OSEventPtr`); a pend on flags joins
   a group that is gone (`os_flag.c:590`); and two tasks that delete one event free its
   block twice (`os_mutex.c:280`). The headers of the deletions ask for care and do not say
   what happens without it, so no run states it. `NobodyOnTheWay` is the rule that
   rules it out.
17. A task that waits for several events and is made ready by one that is deleted before
   the task runs returns from `OSEventPendMulti` in the middle (`os_core.c:506`), with
   OSTCBStat, OSTCBEventPtr, OSTCBEventMultiPtr and OSTCBMsg as the post or the deletion
   left them. The second half of `NobodyOnTheWay` rules this out.

## 6. Proofs

| Theorem | Module | For every |
|---|---|---|
| `TypeCorrect`, `InvariantHolds`, `MemoryHasOneOwner`, `ShuffleStartsFromIdentity`, `ReadsAreOfTheAddressedCell`, `SwapsKeepThePermutation` | `DecodeWithKey_proofs` | memory size, message length, key set, ciphertext, xor |
| `DecrypterImplementsRC4`, `MessagesAreDecrypted` | `DecodeWithKey_proofs` | the same; the second under `SteadySpec` |
| `TypeCorrect`, `InvariantHolds`, `FlashKeepsStep`, `AnsweredSamplesAreRight`, `RestartsAreApplied` | `Player_proofs` | song length, pending reads, set of keys |
| `TypeCorrect`, `InvariantHolds`, `NoRequestIsLost`, `AnswersReachTheirAskers`, `NobodyIsOvertakenTwice` | `SharedService_proofs` | arguments and result function |
| `QueuesAreDeques`, `BlocksConserved` | `Kernel_proofs` | queue size, number of blocks, tasks, events, messages, applications |
| `TableNamesTasks`, `WaitersPend`, `HighestRuns`, `ReadyMeansRunnable`, `FlagWaitersWait` | `KernelTasks_proofs` | tasks, priorities, events, flags, times; plain applications |
| `MutexInherits`, `MutexTableNamesTasks`, `MutexWaitersPend`, `NobodyWaitsForFreeMutex`, `HighestRunsWithMutexes`, `RunnableWithMutexes`, `MutexGoesToHighest` | `KernelMutex_proofs` | tasks, priorities, mutexes, times; applications of mutexes (`MutexRules`) |
| `NobodyWaitsInVain`, `HighestWakesFirst`, `UnitsConserved`, `MessagesAreConserved`, `TypesKept` | `KernelEvents_proofs` | the same, and messages and queue sizes |
| `AlarmsRingOnTime` | `Lab5_proofs` | modulus of the clock, alarms |
| `LockStaysRecursive` | `Lab5_proofs` | tasks; any depth for the heap, depth 1 for the environment |
| `StopsRewind` | `Lab5_proofs` | song, batch, FIFO, rates, delays with Delay1 <= Delay2 |
| `BytesArriveInOrder` | `Lab5_proofs` | rings, FIFOs, transfers, timeouts, users |
| `Lab5TypesKept` | `Lab5_proofs` | all of these; any depth for the heap, depth 1 for the environment |

Each follows the same argument: `Init => IInv`, `IInv /\ [Next]_vars => IInv'`,
`IInv => Inv`, joined by PTL. The assumptions are the named ASSUMEs on the
constants, which TLC evaluates in the runs. Two theorems, `QueuesAreDeques` and
`DecrypterImplementsRC4`, are refinements: the initial states map to initial states
and every step to a step or a stutter, from an invariant proved before.

### Lab 4

- *Invariants.* None is inductive. `EngineOwnsMemory` needs
  `Handshake`: which engine may be in which state while the sequencer waits. The
  identity needs `InitPrefix`: the counter survives a reset, and so does the prefix
  it has written, because no other engine writes until it is 0 again. The
  permutation needs `SwapCompletes` (the second write of a swap makes the memory a
  permutation again), which needs `ShuffleKnows` and `DecodeKnows`: si and sj are
  what the cells i and j hold, state by state.
- *`DecrypterImplementsRC4`.* The mapped memory changes at one edge of a swap, where j
  is computed; at the two edges of the writes the mapping has done already what the
  hardware does then. `IdleAtZero`: the counters are 0 wherever the mapping says that
  RC4 has not begun, so that a reset in the middle of anything is RC4's reset.
- *`MessagesAreDecrypted`* goes through the refinement: `Progress` says that the mapped
  state is the program's before the round the counter names (`KeyRounds` during the
  schedule, `StreamRounds` and a prefix of the message during the keystream), with
  the key of the run. It is preserved by each step of the abstract RC4, not by each
  state of the engines. That a recursive function on 0..n exists and obeys its
  equation is shown in `RecursionExists` by the least n for which it would not
  (`WFMin` of the library's well-founded orders), because the library's own theorems
  about recursion take an operator as a parameter, which the provers cannot
  instantiate.

### Labs 2 and 3, Assignment 3

- *Samples.* `WordAsked => LastAsked = address`: the last read the
  flash accepted, answered or not, is of the present address from the moment it is
  taken until the address moves.
- *Restart.* `RestartsAreApplied` follows the key through the entry's chain of states:
  `EntryInStep` (the character is that of the key, and is announced, in the states
  behind the conversion), `ResetsOnlyEarly` (R puts the player into a reset only while
  the address controller is idle or the entry has just begun) and `OwedInStep` (a reset
  that is owed sees the address move, or ends at once and comes again two edges later).
- *Arbiter.* `OvertakenOnce` needs to know that a side that has been overtaken once
  is either served, or its request is visible and the turn comes to it next;
  `AnswerIsForTheAsker` needs the target's arguments through wait, load and finish.

### Lab 5: the kernel

- *Queues.* `QueuesAreDeques`: every step of the whole kernel is, for
  each event, a step of a double-ended queue or none. It needs `RingOK`: `OSQIn` is
  `OSQEntries` places ahead of `OSQOut` around the ring, so that a full and an empty
  ring are told apart, and each entry is a message. Around it stands one lemma for
  each group of calls: a step of the scheduler, of tasks or of another service leaves
  the rings alone and keeps the types of events.
- *Blocks.* The free list is a sequence without repetition that follows the links from
  `OSMemFreeList` to the null pointer, as long as `OSMemNFree` says, through exactly
  the blocks nobody holds.
- *Tasks and wait lists.* `TasksOK` is the invariant of the scheduler: the table and the
  control blocks name each other; a bit of a wait list is set exactly where the
  control block of a pending task says so; and `pc`, `stat`, `statPend`, `dly` and the ready
  table agree in each of the places a task can be in, including those of a task that
  is being deleted. `NodesOK` is the same for the nodes of flag groups.
- *Whom it is proved for.* `Plain` leaves out changes of priority, because
  what is proved is false with them (items 5 and 9), and mutexes, which have an invariant
  of their own (below). It also leaves out
  applications in which a task deletes tasks and either locks the scheduler (one that
  deletes itself would run on, deleted) or resumes tasks from an interrupt (which may
  resume the task in the middle of its deletion). All other calls come in any
  combination, with `Spec`'s own rules for the application: in particular an event is
  deleted only while nobody else is on the way to one (`NobodyOnTheWay`). The theorems say
  nothing of applications that delete without this care; for them `ReadyMeansRunnable`,
  `FlagWaitersWait`, `NobodyWaitsInVain`, `UnitsConserved`, `MessagesAreConserved` and
  `NobodyWaitsForFreeMutex`, among others, can fail (item 16). `ReadyMeansRunnable` also asks for `NoSuspendedMulti`, which is item 14,
  `UnitsConserved` and `TypesKept` for `EventsOutlive` (no event is deleted in an application that
  pends on several at once: which unit a task returns with is told by the kind of the
  event in `OSTCBEventPtr`, and a deleted event has none), and `FlagWaitersWait` for
  `Unmixed`, which is item 11: no application consumes flags of one kind, set or
  cleared, while it waits for the other. `app` never changes, so each of these is a
  condition on the application chosen in `Init`, and each theorem has the form
  `Spec => [](Plain /\ ... => Inv)`. Most applications of the run `kernel` meet all.
- *Events.* `EventsInv` is what the theorems of `KernelEvents_proofs` share: who
  waits in a list waits for that event (`PendsOK`), nothing is in an event that
  somebody waits for and no count passes its largest (`AvailOK`), and the types of units and messages. The units
  need `SemOK` (a semaphore's count and the units on their way add up to what was
  given); the messages `MsgsOK`, which counts each copy in `Cells` (rings),
  `Boxes` (mailboxes) and `Holders` (tasks made ready for it) as finite sets.
  `WakesInPriorityOrder` is an action property, proved step by step from `EventsInv`.
- *Types.* Most of `TypesKept` lies in these invariants already; that a semaphore's units
  are no more than its largest count and one for each task follows from `SemOK`. What
  is left is `TimesInv`: a delay is a time some call may ask for, or less (which time it
  has come down from is nowhere kept, so the clause says "of some time"), and the
  nesting of interrupts and locks stays in its bounds. A lock's bound is `MaxLock` + 1
  because `OSTaskDel` locks without a look at it; `LockOK` says that this happens with
  the scheduler unlocked.
- *Flags.* `FlagsInv`: a node in a list is of a wait the application may make, and
  its flags are not there. A post looks at every node; a consumed flag takes flags
  away from nodes of its own kind only, which leaves them unsatisfied.
- *Mutexes.* With inheritance a task's priority is no longer its own, and the table, the
  wait lists and the ready table all go by priority. `MutexInv` says, part by part: the
  table has a task under its own priority and under the one it runs at, which is the
  PIP of a mutex it owns if not its own (`MutexTable`); the PIP is above every task's own
  priority, its owner is ready, nobody waits for a mutex without an owner, and the owner
  is raised if a waiter is more important, and only while somebody waits
  (`MutexesHeld`); who is in a list pends on this mutex alone, owns none and is not
  ready unless it timed out (`MutexWaits`); a task is ready, delayed or in a list
  (`MutexReady`). That a raised owner has a waiter is what makes a post without a waiting
  task change no ready priority, so that it may return without `OS_Sched`. A post does
  not change `OSPrioCur` (item 9): `StalePrio` says what the old value can be, a PIP
  that is no task's any more, which the next schedule cannot take for the highest.
  `MutexGone` is the time after a deletion, when whoever pended is about to return.
  `MutexGoesToHighest` is an action property, proved step by step from `MutexInv`.
- *`MutexRules`*, the applications of these theorems, says of the tasks: they call nothing
  but the mutex services and `OSTimeDly`, and wait or delay only while they own no mutex
  (`OwnsNone`; items 7, 8 and 15 are about owners that do), and delete under
  `NobodyOnTheWay`. Interrupts only tick. Of the mutexes: each has a PIP above every task's own priority, as the header of
  `OSMutexCreate` assumes (`os_mutex.c:141`); one at most exists from the start, the
  others are created. An application that accepts or deletes mutexes has one: with two, `OSMutexAccept` would let
  an owner become the owner of both, and the invariant gives each task one. One that
  deletes its mutex creates none: a task that is still returning from the old one would be
  taken for one that has the new. Of the applications of the run `kernel`, those with
  timeouts (`MutexApp`) and with deletions (`MutexDelApp`) meet it; TLC found no
  state of them in which `MutexInv` fails.

The assumptions: a priority is less than 255, the mark of a mutex that nobody owns
(`MutexAssumption`; `ucos_ii.h:1653` refuses to compile otherwise); tasks and events
are finite, the marks (`Idle`, `NoTask`, `NoEvent`, ...) are none of them; and
`AppsAssumption`, that an application's tasks, priorities, times, messages, groups and
waits are of the right sets and its priorities distinct.

### Lab 5: the software around it

- *Alarms.* `AlarmDue`: the mark and the time of an alarm say together how many ticks
  it is away, whether or not the clock wraps before.
- *Locks.* One task at most has the semaphore, from the moment it takes it to the
  moment it posts it; and what the owner finds when it looks (`OwnerKnows`) is its own
  name and a copy that says "taken", read at any earlier moment. For the environment
  the second half fails, which is item 6.
- *Stop.* `StopSeen`: from the stop until task1 has come round, task2 is delayed for
  at least as long as task1 is. The theorem's assumption on the delays is what the
  10 and 100 ms of the code give.
- *Bytes.* `UartInv`: the bytes in a FIFO and in the ring beside it are numbered without
  a gap, those of the ring behind (transmitting) or before (receiving) those of the
  FIFO. Whoever moves a ring's pointer in a call holds the lock of that direction.
  What a call has read of the pointers before it copies stays true while the
  interrupt moves the other pointer: bytes it saw are still there, cells it saw free
  still are, and what it has copied into free cells is not touched until it moves its
  own pointer. `ByteMod > BufLen + Depth`, so that two bytes under way never have one
  number.
- *Types.* `Lab5TypesKept` has the hypothesis of `LockStaysRecursive` (`MayNest`): an
  environment's lock that is nested deeper has its count wrong as well.

Only model-checked:

- What the conditions of the kernel's theorems leave out of the run `kernel`: priorities
  that change (`PrioApp`), the types of applications with mutexes, and the
  mutexes of applications whose owners are delayed (`MutexDlyApp`), where an owner may be
  raised while it is delayed, so that who keeps the others waiting is not ready.
- The liveness properties: `EveryRunEnds`, `EveryResetEnds`, `EveryRequestEnds`,
  `WriteEnds`. Liveness under fairness and ENABLED are out of the prover's reach.

No module declares a RECURSIVE operator.

## 7. Not modelled, and the plan

Not modelled, with reasons in `PROJECT.json`: drawing, images, fonts, waveform data
(most of the lines of C in Lab 5 are tables of pixels), the frame reader (one frame,
which nothing swaps while the tasks run), the timers of uC/OS-II (compiled out), the
queries and statistics of the kernel, the LCD's characters, the tone organ, the single-assignment exercises, and everything
vendored or without source. The brute force sequencer is unfinished in the
repository (a copy of the main control with unused states).

Planned, in this order:

1. `VerifyMessage`: the message check of Lab 4 after a decode, and again after the
   next key; verdicts per message. Composed with the decoded memory as input.
2. `SampleClock`: `Speed_Control` and `Clock_Divider` with counters of a small
   width: the counter without a floor, a count_end that jumps below the counter.
3. `VolumeMeter`: the picoBlaze program's service routine and main loop at
   instruction granularity, with the interrupt line from the player's
   read_data_1 and read_data_2.
4. `Modulation`: LFSR, edge capture and the service routine of Lab 5; the bit read
   and the capture cleared as two steps.
5. `ScanCodes`: Lab 5 Keyboard_Controller with its eight-byte buffer; and the PS/2
   frames of `Kbd_ctrl`.
