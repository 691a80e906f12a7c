# Stm32Driver in TLA+

TLA+ specifications of the drivers, services and applications of Stm32Driver and of the FreeRTOS kernel it contains, model-checked with TLC and, where a result should hold for every value of the constants, proved with TLAPS. Paths are relative to the repository's source directory, so that `SERVICE/SCHED/SCHED.c` is `src/SERVICE/SCHED/SCHED.c`.

`PROJECT.json` is the machine-readable companion: it maps every definition to the lines it models and lists the runs, the mutants, the findings, the hazards and the theorems.

## 1. The system

The firmware of an STM32F401CC board, in layers: MCAL (registers), HAL (devices), SERVICE (scheduler), APP (applications), and a vendored FreeRTOS V10.5.1. The repository has no tests of its own (`test/` and `lib/` hold a README each).

There are two ways the applications are run, and no build has both:

- **The cooperative scheduler** `SERVICE/SCHED`: SysTick counts ticks, and an endless loop runs a table of runnables once per tick.
- **FreeRTOS tasks** in `APP/main.c`: three tasks that toggle LEDs.

The present `main.c` is the second. The port defines `xPortSysTickHandler` as `SysTick_Handler`, and for that reason `STK.c:238` has its own handler commented out; with it gone nothing calls the scheduler's `TickCb`. `Sched` models the build in which the handler is there, `LedTasks` the build with tasks.

| Component | State | Operations | Talks to | Modules |
|---|---|---|---|---|
| `SERVICE/SCHED` | `PendingTicks`, a countdown per runnable | `Sched_Init`, `StartSched`, `Sched`, `TickCb` | SysTick by callback, runnables by call | `Sched`, `PeriodicTasks` |
| `MCAL/MUSART` | per channel and direction: busy flag, index, size, pointer, callback; DR, SR, CR1, BRR | four sends, three receives, the interrupt handler, init | foreground by call, handler by interrupt, line | `Usart`; init in `Serial` |
| `HAL/HCLCD` | state of the setup, request slots, current slot, pulse of E | eight API calls, `CLCD_TASK` | users by call, scheduler, display by pins | `Lcd`, `Display` |
| `APP/main` | the tasks' `xLastWakeTime` | start-up, three endless loops | kernel by call, port | `LedTasks`; start-up in `Board` |
| `APP/Reciver.c`, `DisplayMode.c`, `StopWatch.c` | `ReceiveType`, time and date, edit flags and cursor, stopwatch | three runnables | USART by poll, LCD by requests, each other by `ReceiveType` | `Watch`, `Stopwatch` |
| `HAL/HKPD` | a debounce state per key, the key to hand over | scan runnable, `KPD_GetPressedKey` | `APP1`, `APP2`, `Sender` | `Keypad`, `Inputs` |
| `HAL/HSWITCH` | last sample, count and state per switch | scan runnable, status | scheduler, pins | `Switches`, `Inputs` |
| `APP/Traffic_Light` | light, time in it | one runnable | LEDs | `TrafficLight`, `Inputs` |
| `APP1`, `APP2`, `Sender` | – | poll the keypad, pass the key on | keypad, LCD, USART | `Keypad` |
| freeRTOS `tasks.c`, `list.c`, `port.c` | ready, delayed, suspended, event lists; tick count; priorities; notifications | the tick, PendSV, delays, suspension, priorities, notifications, creation, deletion | everything else in freeRTOS | `Kernel`, `TaskCalls`, `LedTasks` |
| freeRTOS `queue.c` | a ring, two locks, a holder per queue | send, receive, peek, take, give, reset; from handlers | kernel's event lists | `Queues`, `Fifo` |
| freeRTOS `event_groups.c` | the bits | set, clear, wait, synchronise | kernel's unordered event list | `EventGroups` |
| freeRTOS `stream_buffer.c` | head, tail, who waits | send, receive, reset, trigger level; from handlers | notifications | `StreamBuffers` |
| freeRTOS `timers.c` | two lists of timers, command queue | commands, the timer task, pended functions | queue, kernel | `Timers` |
| `HAL/HLED`, `MCAL/MGPIO` | port registers | set-up, set, toggle, read | everybody | `Pins`, `Board` |
| `MCAL/SYSTICK` | the timer's registers, a callback | start, busy wait, stop | timer | `SysTimer`, `Board` |
| `MCAL/MRCC` | clock registers | enabling of peripherals and clocks, selection, PLL | oscillators | `Clocks`, `Board` |
| `MCAL/MNVIC` | the registers ISER, ISPR, IPR, the grouping | one register write per call | interrupt controller | `Nvic`, `Board` |
| `MCAL/MDMA`, co-routines, `LED_pb` | – | none | – | not modelled, see section 7 |

What makes it correct, and hard:

- **Scheduler.** Every tick should get one pass, every runnable should run in exactly the passes its entry names. `PendingTicks` is shared with an interrupt, neither volatile nor protected.
- **USART.** The bytes accepted should go out once and in order; received bytes should be stored in order, as many as asked for; a busy channel should become idle. Foreground and handler share index, size, flags and two registers changed by read-modify-write, and the line sets flags at any moment.
- **LCD.** Each request should reach the display whole, once and uninterrupted. A request takes many calls of the task, two of them per pulse of E and twice that in the 4-bit mode, while users keep filling slots.
- **LED tasks.** The tasks should be released on schedule for ever, though the tick count wraps, with no toggle of an LED lost. Wrapped comparisons, two lists that change places, ticks that are counted later, preemption between a load and a store.
- **Watch.** What is shown should be a moment that exists, an edit should change its own field, the stopwatch should be one. Three runnables meet in one enumeration that a serial protocol sets.
- **Inputs.** A bounce should not be a press, and one press one key. One variable hands keys over, and a scan stops at the first key.
- **Kernel.** The lists of the kernel should stay consistent, the highest ready task should run, nobody should wait for what is there, and no wait should be longer or shorter than asked. Each call is several critical sections, and a tick or a handler may come before each of them.
- **Board.** A register should be used only once what it depends on is ready. Flags that a read clears, registers in which a 1 clears and a 0 does nothing, ports that lose writes while their clock is off.

## 2. Modules

| Module | What it is |
|---|---|
| `PeriodicTasks` | abstract: tasks take turns in order, each active in turn `First + 1` and every `Period`-th after it |
| `Sched` | `SCHED.c`; implements `PeriodicTasks` |
| `Usart` | one channel of `USART.c` with its handler and its hardware |
| `UsartProofs` | theorems about `Usart`, for its senders and its receiver |
| `Display` | abstract: accepted requests are shown one after the other, whole |
| `Lcd` | `LCD.c`; implements `Display` |
| `LcdProofs` | theorems about `Lcd`, numbers excepted |
| `LedTasks` | `main.c` on the part of the kernel it uses |
| `LedTasksProofs` | theorems about `LedTasks` |
| `Stopwatch` | abstract: what a stopwatch promises |
| `Watch` | receiver, clock with calendar and editor, stopwatch; implements `Stopwatch` |
| `WatchProofs` | theorems about `Watch` |
| `Keypad`, `Switches`, `TrafficLight` | one runnable each, with its readers |
| `Inputs` | the three as a table of the scheduler puts them together |
| `RunnablesProofs` | theorems about `Sched` and `Inputs` |
| `Kernel` | `tasks.c` on `list.c`: operators from the kernel before a call to the kernel after it |
| `TaskCalls` | the calls of `tasks.c` as steps of tasks and handlers, SysTick and PendSV |
| `Queues`, `EventGroups`, `StreamBuffers` | one per file, each on `TaskCalls` |
| `Timers` | `timers.c`, on `Queues` and `EventGroups` |
| `Fifo` | abstract: bounded sequences |
| `FreeRTOS` | the kernel with everything built on it; its queues implement `Fifo` |
| `KernelProofs` | lemmas: what the operators of `Kernel` do to the lists of the kernel |
| `FreeRTOSProofs` | theorems about `FreeRTOS`: queues, stream and message buffers, the lists of the kernel and the task that runs |
| `Clocks`, `SysTimer`, `Pins`, `Nvic`, `Serial` | one driver of MCAL each, with its hardware |
| `Board` | these five and the start-up of `main.c` |
| `BoardProofs` | theorems about `Board`, for each of the five |
| `MC…` | values of the constants for TLC |

An operator named `X_Fault` stands before the definition `X` and is a faulty variant of it, a mistake one could make in that code. No specification uses it. With it in the place of `X`, TLC finds the property it is listed with violated: this is how each property is known to say something about the code.

### Sched

Two actors. `TickCb` is one step, as an interrupt handler that runs to its end. The loop of `StartSched` is cut where the interrupt can make a difference: the poll of `PendingTicks`, the load and the store of `PendingTicks--`, and each turn of the loop of `Sched()`, its callback included. `PollHoisted` is the build in which the compiler, `PendingTicks` not being volatile, keeps polling a copy; it never leaves `spin`.

`ticks`, `passes` and `last` are histories. `Done(i)` is how many passes slot `i` has been through; the refinement maps the clock of a task of `PeriodicTasks` to it, so that a turn of `Sched()`'s loop is a turn of that task and all else is a stutter.

### Usart

The foreground is cut at every access to state the handler uses too. `CR1` and `SR` change by a load and a store. The handler cannot be interrupted by the foreground, but the line goes on between its steps. The hardware, modelled as the driver uses it, is the data register, the shift register, `TC` and `RXNE`, and what a store to `SR` clears: a flag that was not set in the value loaded. A byte is named by the call whose buffer it is from and its place in it, so that a byte from beyond the end of a buffer has a name, too. `Uses` are the programs the foreground may be: which calls it makes, with which sizes, and which of them only while no send, or no receive, is in progress. There are four: one that only sends, one that only receives, one that mixes all seven calls (`Mixed`), and one that sends and receives by turns (`TakingTurns`).

A received byte is named by the pointer it is stored behind. That is not the buffer: `USART.c:381` hands the handler the address of the descriptor's field `Data`, so the bytes overwrite the descriptor. `ReceivedInOrder` is about the order, the number and the places of these stores, counted from that address, and about none being lost but on the line.

Left out: `NULL` arguments, which return an error and change nothing; callbacks that call the driver themselves, and `USART_RegisterCallBackFunction`. `ReceiveBufferAsynchronous` is taken with an `Index` of 0, and an overrun error is a lost byte. A send of an empty buffer still sends a byte, and a receive of size 0 is one of U8MAX + 1 bytes to the handler; on `USART6` the handler stays armed when it has received, and stores into the old buffer while the next call is being set up. `SendsInOrder` and `ReceivedInOrder` leave these out by name (`OnlySends`, `OnlyReceives`). `CallsReturn` is about programs that begin to send or to receive only while the other direction is at rest, do not poll and do not use USART6 (`TakesTurns`); for others the code does let an interrupt go on for ever (section 4).

### Lcd

A call of the API and a call of `CLCD_TASK` are one step each: both run in the foreground, under a scheduler that does not preempt. All cases of the task are there: the setup state machine, text, numbers with sign, zero and trailing zeros, special characters written and displayed, commands and positions, and the freeing of a slot with the choice of the next. An operation is what the display reads from its pins when E falls; in the 4-bit mode two falls make one operation, and halves of different operations make one that nobody asked for and no refinement accepts.

Left out: numbers of ten digits and more, whose reversal overflows `s32` (`LCD.c:895`); CGRAM block 8, which the bound of `LCD.c:1083` lets pass and which is the command 128; the assignment of the pins. Numbers are written in the 8-bit mode only (`NumberModes`): in the 4-bit mode a digit is taken off with each half, and `ShowsRequests` fails.

### LedTasks

A task is named by its priority; `main.c` makes them distinct. Of the kernel the module has the tick, with the exchange of the delayed lists when the tick count wraps; `xTaskDelayUntil` in the steps an interrupt can fall between (suspend, decide and enlist, resume, count the pended ticks, yield); and the context switch in PendSV. Lists are sets, as the order in a delayed list is that of the wake times. Toggling an LED is the load and the store of `ODR`, with the whole port in the register.

Time is unbounded. The tick count wraps, and instead of a number of ticks since the start each task has `ahead`, the distance to its due tick `start + k * Period`. So the state space is finite though the clock wraps for ever.

Assumptions: a requested PendSV is taken before the next tick, being pended when the tick or the call that requests it ends; no ready task is a whole range of the clock, 2^32 ticks or 49 days, behind its due tick (`InRange`), for then the wrapped times are ambiguous.

The module is apart from `Kernel` because it asks another question: it follows three endless programs for ever and is proved for all constants, where `Kernel` has every call and finite programs.

### Watch

Each run of a runnable is one step: `ReceiveFun`, `DisplayDateTime` and `Stopwatch_Runnable` run to their ends under the scheduler and meet in `ReceiveType`. A command is a byte the receiver knows; other bytes do nothing and are no step. The clock is the six numbers of the code with the carries in the order of the code; the cursor is a row and a column, and the digit under it is what an edit changes. What is asked of the LCD is kept as what is `shown`, for the display itself is the matter of `Lcd`. Where the stopwatch carries are constants, so that a day of it is short.

`IsStopwatch` maps the operation to the phase of `Stopwatch`, the mode to `open`, `Stopwatch_On` to `awake` and the digits to the total. Each press of the button and each sample is in the history `told`, with a bit that changes every time, so that none of them can pass as a stutter: a sample of a running stopwatch must be a `Count`. What `StopWatch.c` does otherwise has an action with a name and a guard of its own: `Revive`, a start before a sample has seen the stop, goes on with the old total, and `Oversleep`, a stopwatch started and left before a sample found it open stands still until it is opened again.

The properties about the calendar leave out what the code itself gets wrong, and say so: `DayFollows` excludes the end of February, which never rolls over, and else the time only during which a field is being edited, so that it covers the midnights after an edit has been confirmed; `ShownValid` excludes the seconds after a stay in the stopwatch mode of more than a minute, and looks at the columns of the date only (section 4).

Assumptions: the step of the stopwatch divides the wrap of its milliseconds, and a start is a date that exists, with any u8 for the seconds.

### Inputs

Each scan, poll and run of the traffic light is one step; the contacts change between any two. `Keypad` keeps the scan's order, its stop at the first pressed key, the debounce state of each key and the single variable that hands the key over; `Take` is one reader that polls. `Switches` keeps the counting of equal samples for every switch, the one with no entry in the configuration included, which sees what the switch before it left. `TrafficLight` goes down to the pin of each LED, so that an active-low lamp is one. `Inputs` composes them by tables: a table is the set of runnables that one build has, as keypad and switches share pins and cannot both be used.

### Kernel, TaskCalls, Queues, EventGroups, StreamBuffers, Timers, FreeRTOS

`Kernel` has the variables of `tasks.c` as one record, and an operator per kernel function from such a record to the next. Ready lists are rings with an end marker, turned as `pxIndex` turns; the others are sequences. `configASSERT` stops the system: the field `halted` names the assertion.

`TaskCalls` makes steps of these. A call has stages, its critical sections and the steps between them; before each an interrupt may come, and wherever the scheduler is not suspended another task may be switched to. `me` is the running task, `call` the locals of each task's call. `Queues` has the locking of a queue between a task's test and its place in the event list: handlers then only count, in `cTxLock` and `cRxLock`, and `prvUnlockQueue` makes up for it. `EventGroups` keeps the bits in the item value of a waiting task; `StreamBuffers` the ring of bytes with the notification each side waits for, and messages with their length; `Timers` the two lists of timers, the commands with the times they were made at, and the timer task with its repeated sample of the time.

`left` counts down the ticks a call asked to wait, apart from everything the kernel computes; `sent` and `received` are the bytes of a stream, `arrived` and `met` the rendezvous, `due` the moments a timer should expire, not wrapped. They are histories.

A *scenario* is an application: the tasks with priorities and programs, and the calls handlers make. It is chosen in the initial state, so that one run has all of them.

Assumptions, which the programs keep. `ScenariosAssumption`: every task has a call to make. `QueuesAssumption`: a queue that items are handed over in is created empty, is used by the calls for queues only, and is overwritten only if it is of one item (`queue.c:846` asserts this). `StreamAssumption`: one writer and one reader for a stream (as `stream_buffer.h` asks), and a buffer that a task reads is reset by no other task, as the reset between the reader's count and its copy would have it copy what is no longer there; nothing in the code prevents that. TLC evaluates the three for every scenario. Besides: a task gives only a mutex it holds; no change of priority while a mutex is held; a queue is reset with one blocked sender. What the build leaves out (`FreeRTOSConfig.h`) and is modelled as built with its option: timers, `xTimerPendFunctionCall`, recursive mutexes, counting semaphores, `xTaskAbortDelay`.

### Board

`Board` instantiates five drivers that share no state but for the enable bits of the ports, which `Pins` reads as `clocked` and `Clocks` sets. `part` chooses in the initial state which driver a behaviour uses, so that the state space is a sum and not a product; the part `pins` begins with the start-up of `main.c`, which enables the port's clock and then initialises the LEDs.

`Clocks`: a call that waits for a clock polls; any other call is one step; oscillators become ready by themselves. The registers are not volatile (`RCC_Reg.h:17`), and `once` is the build that reads the ready bit once. The factors of the PLL are the bits of the register, as a call ORs its argument in unshifted. `SysTimer`: the busy wait step by step against the timer, whose COUNTFLAG every read of CTRL clears; before `MSTK_Init` the clock source is 0. `Pins`: fields of a pin's registers, and writes lost to a port whose clock is off; once initialised, the LCD may write any levels to its pins at any moment (`CLCD_TASK`), of which `Lcd` has the order. `Nvic`: the registers ISER and ISPR word by word, the register and the bit that the driver computes from an interrupt's number, and handlers that preempt one another by group priority; `wanted` and `requested` are histories of what callers asked for, by numbers alone. `Serial`: `USART_Init` with the integer arithmetic of the rate.

Assumptions: the numbers of the timer are natural ones (`TimerAssumption`); interrupts are named by natural numbers (`InterruptsAssumption`); the wiring is that of `LED_cfg.c`, `KYD_Config.c`, `SWITCH_Cfg.c` and `LCD_Config.c` in that every LED has a pin of its own on port A or B and shares it with the LCD at most (`WiringAssumption`). Of an LED that does share its pin, `LedsReady` promises what it shows until the LCD is initialised, and that it stays an output from then on.

## 3. Runs

| Run | Shows | Bounds |
|---|---|---|
| `sched` | `NoUnpaidPass`: passes and pending ticks never exceed the interrupts. `NeverOverdue`: each runnable runs in the pass its entry names. `LossOnlyInDecrement`: a tick is lost only in the store of `PendingTicks--`. `RunsPeriodicTasks`: the refinement. `ServedWhileRead`: a loop that reads the counter works off its backlog | 3 slots (delay longer than the period; period 0; no callback), `u32` up to 4, 9 ticks |
| `sched_lost_tick` | violated: `EveryTickServed` | the same |
| `usart` | On USART1 and USART2, for four programs in one state space. `SendsInOrder`: what the sender hands over goes out once and in order. `ReceivedInOrder`: what comes in for the receiver is stored in order of arrival, none lost but by an overrun, at consecutive places from the address handed over. `SendsComplete`: whatever is mixed, a busy channel becomes idle. `CallsReturn`: no interrupt keeps the calls of a program that takes turns from returning | 3 calls, sizes 1, 2 and 4, `u8` up to 3: size 4 is 256 in the code, which is 0 in a `u8`; up to 5 bytes arriving |
| `usart_garbage` | violated: `WireInOrder`, with a receive after a send | 2 calls, 1 byte |
| `lcd` | `ShowsRequests`: the refinement of `Display`. `LowSlotsServed`: slots 0 and 1 are never passed over for good | 3 slots, a request of every kind, both pin modes, 2 waiting calls of the setup instead of 19 |
| `lcd_starved` | violated: `EveryRequestServed` for slot 2 | 3 slots, texts |
| `led_tasks` | `OnTime`: a task is blocked exactly while its due tick is ahead of the kernel's clock. `HighestRuns`. `LossOnlyByLower`: a toggle is lost only to a preempted task of lower priority. `BlinksForever` | 3 tasks, a clock of 4 ticks, periods 2, 3, 3, one pended tick |
| `watch` | `ShownValid`: the screen shows a moment that exists, at its columns. `FrozenOnlyWhileEdited`, `FieldHeld`: an edit holds its own field and no other, and no longer than it lasts. `DayFollows`: midnight brings the next day, after a confirmed edit too. `IsStopwatch`: the refinement of `Stopwatch`, in which each sample and each press counts | 13 starting moments, each just before a carry; 5 commands, 5 refreshes; a stopwatch day of 16 samples |
| `inputs` | `ReportedAfterTwoReadings`, `EachTakenOnce`, `HeldKeyTaken` of the keypad; `SwitchesSettle`, `NoBounceReported` of the switches; `LampsFollowRound` | 3 keys in 3 columns and 2 readers; 3 switches, one without an entry, and the code's threshold 5; the 7 runs of a round |
| `kernel` | `KernelLists`, `HighestRuns`, `NoLostWakeup`, `TimeoutsExact`, `InheritanceHolds`, `Rendezvous`, `StreamInOrder`, `TimersExact`, and `QueueIsFifo`, the refinement of `Fifo` | the scenarios below |
| `kernel_ready_bit` | violated: `NeverNothingToSelect` | one scenario with a chain of two mutexes |
| `board` | `BusyWaitLasts`, `LedsReady`, `RateHolds`, `RunsFromReady`, `AsAsked`: the controller's registers have exactly the interrupts asked for by their numbers | one part at a time; 2 counts per ms and a timer of 3 bits; time-out 2; 6 pins, one of them of an LED and of the LCD; 4 interrupt numbers, two in one register, two with the same bit in different ones, one past the last; priorities 0 to 2; the rates 1200, 9600, 38400 and 57600 |

The scenarios of `kernel`, 32 in all:

| | |
|---|---|
| queues | `receive`, `send`, `reset`, `peek`, `box` (one item, overwritten) |
| mutexes and semaphores | `inherit`, `two` (held at once), `recursive`, `semaphore`, `tokens` (counting), `refuse` (waits aborted) |
| event groups | `rendezvous` (twice), `missed` (with time-outs), `late`, `bits` |
| buffers | `stream`, `reader` and `writer` (against handlers), `messages`, `handlers` (messages from a handler) |
| notifications | `counting`, `values` |
| tasks | `priorities`, `suspension`, `deletion`, `abortion`, `missing` (ticks caught up), `end` (the idle task frees), `background` (beside the idle task) |
| timers | `running`, `delayed` (the timer task starved), `pended` (calls from handlers) |

Each has two or three tasks and the idle task, at most three interrupts that may come at any moment, a tick count of 4 bits that begins just before its wrap, up to five ticks, one of them pended at most, and a stream buffer of three bytes.

Why the bounds are enough. A u32, a u8 or a tick count enters only by its wrap, so a small maximum brings the wrap within reach, which no long run of the real one would. Nine ticks take each runnable of the scheduler through its first delay and at least two periods, with backlogs up to the maximum. Three USART calls are a call, one that overlaps it, and one that meets what the two left behind. Three LCD slots are one more than the two that starve one. Three LED tasks are the program's own; a period equal to the whole range of the clock puts a wake time on either side of the wrap. Five commands of the watch are mode, edit, move, change and confirm; the starting moments bring every carry of the calendar, of a leap year and of a common one. Three keys are one before, one behind and the pressed one, for a scan that stops; two of them share a name, as five keys of `KPD_ARRAY` do. In the kernel, three tasks are one that has, one that waits and one that comes between; what the locks count is at most the number of tasks. The busy wait's times 1 and 2 load 1 and 3 counts, the time 0 and every time before `MSTK_Init` the largest number, and the time 3 is refused.

`CHECK_DEADLOCK FALSE` stands where a run really ends: `usart` when the calls are used up, `lcd` when every slot is free and no user writes, `kernel` when the programs have suspended themselves and the ticks are used up, or an assertion has stopped the system.

### Fairness

- `Sched`: `WF(Loop)`. The processor never stops executing the main context. Ticks are not fair; nothing depends on another tick.
- `Usart`: `WF` of the line shifting out, of the handler, and of a call in progress, which only goes on while no interrupt is pending: a handler that keeps interrupting starves it, which is what `CallsReturn` is about: it holds of programs that take turns, and of no others. Nobody is bound to call or to send.
- `Lcd`: `WF(CLCD_TASK)`, as the scheduler calls it in every period (`NeverOverdue`). Users are not fair.
- `LedTasks`: `WF` of the tick, of the context switch and of each task. `InRange` stops the ticks for a task that is a whole range of the clock late, so `BlinksForever` reads: as long as that does not happen.
- `Inputs`: `WF` of the scan and of the readers together (`Poll`): the scheduler runs every runnable of its table again and again. Contacts are not fair. `HeldKeyTaken` says what follows: a key that stays down alone is handed over, if to any reader.
- The others have no fairness; their properties are safety.

## 4. Where code and words disagree

Each has a run whose counterexample shows it.

- `sched_lost_tick`: a tick between the load and the store of `PendingTicks--` (`SCHED.c:97`) never gets a pass.
- `usart_garbage`: after a finished send, the first receive interrupt sends a byte from beyond the buffer (`USART.c:492`).
- `lcd_starved`: users that keep writing starve every slot above 1 (`LCD.c:333`).
- `kernel_ready_bit`: when a task gives up waiting for a mutex, the bitmap of ready priorities can keep the bit of a list that has become empty (`tasks.c:4308`), and the next selection fails its assertion.

Seen while modelling, without a run of their own.

Scheduler and LEDs:

- A build that hoists the poll of the non-volatile `PendingTicks` never serves a tick. Stage `spin` is that build.
- The headings of the tasks in `main.c` name other LEDs and periods than the code: "Toggle RED LED every 2 seconds" (line 55) is LED_GREEN every 2000 ms, "GREEN … 4 seconds" (66) LED_YELLOW every 3000, "YELLOW … 6 seconds" (77) LED_RED every 5000.
- `Traffic_Light.c:50`: the light changes when the accumulated time equals a constant exactly, which only the configured period of 2000 guarantees.

USART:

- `USART.c:398-417`: `USART_SendBufferZeroCopy` reports busy and goes on all the same, which spoils the send in progress. The programs call it only while idle (`waitTx`).
- `USART.c:579`: USART6 clears `RXNE` by a read-modify-write that can clear `TC` too; with `IsUSART6 = TRUE`, `SendsComplete` is violated.
- `USART.c:417` cuts a u32 size to a u8: of 257 bytes one goes out and the send completes (in the model, with `sizes |-> {5}` in `Sender`, and `OnlySends` without its last conjunct, `SendsInOrder` fails and `SendsComplete` holds).
- `USART.c:248`: the waiting send writes DR without looking whether it is free; together with `SendByteSynchByTime` a byte is overwritten.
- `USART.c:380`: the busy flag is set before the pointer; with a receive interrupt left enabled, a byte is stored through the old one.
- `USART.c:381`: the pointer is `&ReceiveBuffer->Data`, the address of the descriptor's field and not the one held there. "Receive data into buffer" (`USART.h:181`) does not happen: the bytes overwrite the descriptor, its pointer first, and whatever is behind it. The model keeps that, as `Pointer`.
- A receive interrupt that stays enabled while nobody is going to read DR never ends, and the foreground never runs again (`USART.c:476` disables it for that reason). It comes about in two ways, both of which take a send and a receive at once. `USART.c:418`: a receive completes between the load and the store of CR1 with which a send enables its own interrupt, and the store brings RXNEIE back. And the same line in a receive: it is set up while a send is in progress, the interrupt of that send finds RXNE set, stores the byte and completes the receive, and the store of CR1 then enables RXNEIE for a receive that is over. The next byte interrupts for ever. With `~IsUSART6` alone in the place of `TakesTurns`, TLC finds `CallsReturn` violated by a program that makes `SendByteAsynchronous` and `ReceiveBufferAsynchronous` calls of size 1 whenever it likes, with two bytes arriving.
- `USART.c:508`: `SR &= ~TC` writes 0 to a RXNE that was set after the load, and the byte in DR is never seen.
- `USART.c:221`: which interrupts a transfer enables is one variable for all channels; the last initialisation decides.
- `USART.c:187`: the fraction of the rate is always 0. Of the common rates 300 with 8 samples overflows the mantissa, 56000 is 4.9 % off, 115200 does not fit the u16 it is passed in, and 0 divides by zero. `RateHolds` has those within 2.5 %. Stop bits are checked and never written.
- `APP2.c:18`: a local variable is handed to a send that goes on after the function has returned.

LCD:

- `LCD.c:786`: column 0 is sent as address -1 of its row.
- `LCD.c:959`: with all slots in use a call reports `LBTY_NOK`, and no caller looks at it; a refresh of the watch (`DisplayMode.c:192`) makes about fifteen requests per second into thirty slots.

Watch:

- `DisplayMode.c:223`: the time row goes to column 0, which `LCD.c:786` makes the address -1 of the row, so that the time stands one column left of where the editor looks for its digits; the date row is written from the start of a cleared display (`DisplayMode.c:192`) and is not shifted. `ShownValid` checks the columns of the date.
- `DisplayMode.c:110`: seconds and minutes above 59 are reduced by 59 and not 60, so a minute after a rollover begins with second 1.
- `DisplayMode.c:145, 155`: the rollover of February tests `Month` where the other months test what is edited, so that the month never follows; the comment at 147 says it does.
- `DisplayMode.c:87`: seconds count in both modes, the carry only in the normal one; after a stay in the stopwatch mode a second above 59 is shown.
- `StopWatch.c:49`: the hours go back to 0 at 59.
- `StopWatch.c:57`: the reading is cleared by a sample that sees STOP. A stop and a start between two samples go on with the old reading (`Revive`).
- `StopWatch.c:25`: a stopwatch started and left within one sample is not counted until the mode is entered again (`Oversleep`).

Inputs and pins:

- `KPD_Runnable` is in no table of runnables. Switches and keypad share GPIOA 1 to 4, and `HSWITCH_Init` makes keypad column 0 an input. LEDs and LCD share GPIOB 1 to 5 (`LED_cfg.c:14`, `LCD_Config.c:25`): from `LCD.c:392` on the set-up and every request write the output bits of the LEDs, so that the two cannot be used together.
- `SWITCH_05` has no entry in the configuration: its port is NULL, and it follows `SWITCH_04`. A switch with a pull-up reads as pressed until it has settled once.
- `SWITCH.c:76` and the same test in `LED.c`: the index is compared with `>` and not `>=`, and the error goes on to the access.
- `HLED_Init` ignores the default states. `MGPIO_InitPinAF` takes 8 off the pin in the caller's record.
- `APP1.c` shows C for the key D and 8 for E.

Clocks, timer, interrupts:

- `RCC.c:171`: the control of APB2 copies from AHB1's register. A peripheral is documented as a number and used as a mask; bit 8 of AHB1 can be enabled and not disabled.
- `RCC.c:266`: the waiting loops go on while the clock is not ready *or* the time-out runs, so they never time out, and the check of HSE looks at the PLL's flag. `RunsFromReady` holds because of the former.
- Selecting HSE or the PLL clears the rest of CFGR.
- `RCC.c:476, 518`: P and N are limited as values of the whole register and ORed in unshifted, so that a plain P of 4 changes M instead.
- `STK.c:80`: 0 ms loads 2^32 - 1, and so does every time before `MSTK_Init` (`STK.c:129`), as `Clock_source` is 0. `STK_MAX_TIME_MS` is 2 in the code, as 167777215 * 1000 wraps. The timer's value is never cleared, so that a busy wait after another only lasts what was left: `BusyWaitLasts` is about waits from a timer at rest. A busy wait also ends a periodic interval.
- The queries of elapsed and remaining time always give 1. `MSTK` and FreeRTOS both use SysTick.
- `MNVIC_GetActiveStatus` cuts a u32 to a u8.

FreeRTOS:

- `vPortFree` of `heap_1.c` is an assertion that fails: `vTaskDelete`, `vQueueDelete` and the deletion of a timer stop the system. `KernelLists` allows this one.
- Inheritance of priorities is not transitive.
- A task that waits without end for a notification counts as suspended, and `vTaskResume` wakes it (`prvTaskIsTaskSuspended`).
- `ucDelayAborted` is set when a wait in an event group is aborted, or one that has already ended, and nothing clears it: the next blocking call of the task gives up at once (`tasks.c:2675`, `3320`). `TimeoutsExact` is about waits that were not aborted.
- A wait in a stream buffer may last longer than asked, by the ticks between its look and its wait; a send whose time is up uses the space from before the wait; `xStreamBufferSetTriggerLevel` wakes no reader.
- `xQueueReset` wakes one waiting sender, `vTaskSuspend` of a task that was woken for an item leaves the item and everybody else who waits for it.
- `timers.c:559`: `vTimerSetReloadMode` may be lost to the timer task, which writes the same byte outside a critical section; a reset that the timer task sees after the expiry drops that expiry.

## 5. Proofs

All are for every value of the constants that satisfies the module's `ASSUME`.

**`RunnablesProofs`**, of `Sched` (assumes `SchedAssumption`: a table of at least one slot with values in the range of u32).
`NoUnpaidPass` is not inductive: the store of `PendingTicks--` writes what was loaded before, so one must know that the register is never ahead of the counter (`RegisterBehind`). `NeverOverdue` needs that a pass in progress has been counted (`PassCounted`) and what holds before the scheduler is started (`Booting`). `IInv` is their conjunction with `TypeOK`; `InitIInv` and `NextIInv` prove it inductive, with one step per action. From it follow `TypeCorrect`, `PassesArePaid` and `RunnablesOnTime`; `LossIsLocal`, an action property; and `SchedImplementsTasks`, the refinement, by showing that a turn of the loop is the turn of the right task of `PeriodicTasks` and every other step a stutter.

**`RunnablesProofs`**, of `Inputs` (assumes `InputsAssumption`: any size of the matrix and any names of its keys, any set of readers, any configuration of switches, any positive threshold, any levels of the LEDs).
A key reported was down in its last two readings because the state the driver keeps of a key is its last reading, however many scans stopped before it since (`Remembered`); that a scan which can find keys finds one of them at all is `FirstExists`, from the well-foundedness of the positions. A key is not taken twice because the flag that offers it is only set together with a change (`OfferedByChange`). A switch has settled because the count runs one behind the equal samples (`Counting`), with one exception: at power-on the driver takes the previous sample for 0, so that a first sample of 0 counts already (`PowerOn`), and what was reported stays right as long as the samples stay equal (`Settled`). From `KeypadInv` and `SwitchInv` follow `KeysAreDebounced`, `NoKeyTakenTwice`, `SettledIsReported` and `BouncesAreFiltered`. For the light, `LampInv` says where in its round of seven runs it is: `State` and `Local_Sec` together give the place (`Position`), except that only `Prev_State` tells the yellow after green from the one after red; `Elapses` lists the times a phase can have lasted when the runnable starts. `LampsKeepRound` follows: yellow comes twice in a round, and which way it goes from there is in `Prev_State`.

**`LedTasksProofs`** (assumes `LedTasksAssumption`: any set of positive priorities, periods from 1 to the range of the clock, any width of the clock).
`IInv` ties the wrapped numbers to the true due tick: an item of the delayed list is `xTickCount + Lag`, one of the overflow list the same less the range of the clock, `xNextTaskUnblockTime` is no later than any item of the delayed list (`Listed`); the `xLastWakeTime` of a ready task is its due tick, before or after the wrap (`Timed`); only the running task is inside the call that suspends the scheduler (`Exclusive`); a blocked task does not get past its call (`Parked`). `TickStep` shows what one counted tick, live or replayed, does to these relations, and `DelayDecision` that the comparison of three wrapped numbers decides whether the due tick is ahead. From `IInv` follow `TypeCorrect`, `ReleasesOnTime`, `WrapAssertion`. `Preempts` is an invariant on top of it. `LossesComeFromBelow` rests on `Fresh`: the register of a preempted toggle is stale only in the bits of tasks of higher priority, since only such tasks ran in between.

**`UsartProofs`** (assumes `UsartAssumption`).
Programs that only send and programs that only receive are proved apart, as the two properties ask. For the senders `SendInv` says that the handler is armed exactly while a send that has been set up is not complete, so that a call sets its variables up alone (`SendPhase`); that TC is seen only when the data register is free, and that a write of the data register that does not find the line idle has seen it (`SendLine`); and that what was handed to the line and what is left to send make up what was accepted (`SendQueue`). The last byte of one call may still be in the shift register when the first of the next is written, so these are places in all that was accepted and not in one buffer. `BytesSentInOrder` follows. For the receiver the handler is disarmed while a call sets pointer, index and size up (`ReceivePhase`), so that it stores with what is all of one call (`ReceivePlace`), behind a pointer behind which nothing was stored before (`ReceivePlaces`), and the byte it reads came in after those it has stored, and a byte in DR that is not new has been stored (`ReceiveOrder`): an overrun loses a byte and reorders none, and nothing else loses one. `BytesReceivedInOrder` follows. It speaks of the address of the descriptor, behind which all this happens, and not of the buffer.

**`LcdProofs`** (assumes `LcdAssumption`, and for its theorem `NumberModes = {}`, that the users write no numbers).
E, the part counter and the pins outlive a request, so the proof is about them first: the bus is `Idle`, `Fresh` before the first command, or `Sends(op)`, at one of three places between the two falls of E in the 4-bit mode. `RaiseIs` and `LowerIs` show that a pulse leads from one to the next and that the display takes the operation with the last fall and no other. `LcdInv` says whose operation it is: that of the state of the setup, or of the current slot (`LineHeld`); a slot that waits is as its call left it, for a call fills free slots only and the task works on the current one (`SlotHeld`). `OpIs` cuts the meaning of a request at the operation the next pulse carries, for every type and state; `BeginIs` and `TextEndIs` are the calls without a pulse. With `MapIs`, which computes the refinement mapping in a state of the invariant, each action is one lemma: a call of the API is `Accept`, the first raise of E or the first call is `Begin`, the last fall is `Show`, the freeing of a slot is `Finish`, and all else a stutter. `ImplementsDisplay` follows. What numbers need is what the recursive functions `Digits`, `Reversed` and `Popped` compute for every number, which is an induction over data and stays with TLC.

**`WatchProofs`** (assumes `WatchAssumption` and `StartsAssumption`).
`WatchInv` is `WatchTypes`, `ClockHeld`, `FrozenOnlyWhileEdited` and `ShownValid`. `ClockHeld` bounds how far out of range edits leave a field (`Bounded`): as far as the carries of the next refresh bring back, and no field at all unless one may have been edited; the second may be further out only when a refresh was missed. The five carries are taken one at a time (`CarrySecondIs` and so on), so that no step has to look at six fields at once. From it follow `ScreenValid` and `NoFieldFrozen`, and, with what one refresh does to the clock (`RefreshIs`), `EditedFieldHeld` and `DateFollows`, whose condition is only that no field is being edited: the EDIT_MODE_OK that a confirmed edit leaves behind is not excluded. For `ImplementsStopwatch`, `TimeHeld` keeps every wheel in its range, and `Wheels` shows for a wheel of any size that its carry keeps the count of samples; `PressHeld` ties `Local_Count` to the phase, so that a press does what its phase asks for, and has the reading at zero whenever the stopwatch is not on. Then each command and each sample is one action of `Stopwatch` with its event told.

**`BoardProofs`** (assumes `TimerAssumption`, `InterruptsAssumption` and `WiringAssumption`, and for `RatesHold` that the rates asked for are among `KeptRates`).
Each part has its own invariant, which the other parts leave alone. `BitsAreAsAsked` relates two things that the model computes apart, the words of ISER and ISPR and the histories of the numbers asked for; it rests on `OwnBit`, that two numbers with the same register and the same bit are one, and `OneBit`, that a change of one bit is seen by that interrupt alone (`NvicHeld`). `SystemRunsFromReady` rests on `ClocksHeld`: between the one poll that finds a clock ready and the store that selects it, no other call turns a clock off. `BusyWaitsLast` rests on `TimerHeld`: a wait that found the timer stopped at 0 has the timer go once down from what was loaded, and COUNTFLAG is not set before that, for a `Clock_source` that is set or still 0. For `RatesHold`, `RatesSet` ties each channel's divider to the rate it was last asked for, and `DividerIs` and `BitIs` compute it: the fraction comes out as 0 and the mantissa as the whole quotient, so that the error is what the division leaves; `KeptRates`, 489 to 25000 and the two usual rates 38400 and 57600, are where it stays in the tolerance. `EveryLedReady` rests on `LedsHeld`: the clock of an LED's port, once on, stays on (`PortsHeld`); the caller's record names a pin that is no LED's (`CallerHeld`), which is what `WiringAssumption` is for; and from the start of the scheduler on each pin shows what its LED was last told, unless the LCD writes it (`LedHeld`, `Overwritten`); an LCD once initialised stays so, and an LED that shares its pin with nothing is never overwritten.

**`FreeRTOSProofs`** (assumes `ScenariosAssumption`, `QueuesAssumption` and `StreamAssumption`, and nothing of the number of tasks, of priorities, or of the lengths).
The theorems first need what a step makes of the calls the tasks are in. `CallInv` says that each task is in a call of its program; `NextCalls`, with a lemma for each file of calls, that a step goes on with the call of the running task or enters its next one, and that a call for a stream buffer which has looked at the buffer is touched by the steps of `stream_buffer.c` alone (`CallsGoOn`).

For `QueuesAreFifo`, `QueueInv` has each queue a ring (`IsRing`) whose read position is one behind the first item and whose write position is as many items further, both modulo the length. `SentToBack`, `SentToFront`, `Overwritten`, `ReadNext` and `Emptied` say what `prvCopyDataToQueue`, `prvCopyDataFromQueue` and the reset make of `Contents`; `TxRelocked` and `RxRelocked` that what the locks count makes nothing of it. Then each call is one lemma, for tasks and for handlers: one of its steps is an operation of `Fifo` and all others are stutters. That the code for mutexes and semaphores, which share the calls, leaves the contents alone is where `QueuesAssumption` is needed.

`StreamInOrder` is not inductive: that a write does not overwrite a byte not read is because the space was counted before, by a writer that may have been preempted, waited and been told since; and a message is read by the length that stands at the tail, which is a byte like others. `StreamInv` adds both. `Fits`: what a writer counted as free is still free and what a reader counted is still there, the whole of a message if it is one. This is kept because the other side only adds to it (`OneWriter`). `InBuffer`: from the tail on, the cells are bytes and, in a message buffer, before the bytes of each message their number; `index` counts the bytes before a cell, so that the k-th cell that is no length holds the k-th byte sent and not yet received. `Appended` and `Consumed` prove what a write and a read make of `InBuffer`, on the cells counted from the tail; `Wrote` and `Took` carry this over to the ring with its two wrapping indices. `WriteStep` and `ReadStep` are the steps that use them; of all the other steps of tasks, handlers and the kernel it is shown that they leave the cells alone. `StreamKeepsOrder` follows.

**`KernelProofs`**, and the last third of `FreeRTOSProofs` (assume `KernelAssumption`, `QueuesAssumption` and the three above).
`KernelLists` and `HighestRuns` are false in general, as `kernel_ready_bit` shows. They are proved of every *static* application (`Static`), one whose scenario is such that

- all tasks are created before the scheduler starts and none is deleted, which is what `heap_1.c` is for;
- no call is made on a mutex, whose inheritance is what leaves the wrong bit in the bitmap;
- there is no timer task (the application may still send commands to the queue of the timers);
- a handler resumes only tasks that never wait for a notification, with or without a stream buffer. Of another task the kernel cannot tell whether it is suspended (`prvTaskIsTaskSuspended`): it would put a task that waits for a notification into `xPendingReadyList`, and the next notification from a handler finds it in an event list and fails its assertion. TLC showed this when the invariant without the restriction turned out not to be inductive;
- the arguments are of their types: ticks in the range of the clock, priorities below `configMAX_PRIORITIES`.

The number of tasks, their priorities and programs, the queues, the handlers and when they come, the width of the clock and the ticks are free. Of the 32 scenarios of `kernel`, 21 are static: all but those with mutexes or timers, `deletion`, `end`, `priorities` (which creates a task) and `suspension` (where a handler resumes a task that may wait for a notification).

Neither property is inductive, for reasons that are all over the kernel. `StaticInv` is the strengthening. Of the kernel (`Kernel`): each list is without repetitions and of the right elements, a task is in one state list at most, and in one event list (`Lists`); the bitmap is exact (`Bits`); a task in an event list is neither ready nor pended (`Unready`); the delayed list is empty when the tick count is about to wrap, so that the exchange of the two lists loses nothing (`AtWrap`); no priority is inherited (`Own`). Of tasks and calls: only the task that runs is inside a suspended section, and in no second one (`OneSuspends`); it is ready, or about to leave the processor (`RunsReady`); who is in an event list, or waits for a notification, is inside the call that put it there (`Waiters`); what is pended while the scheduler is suspended is gone when it is resumed, and the running task is in there only once it has blocked (`Pended`); the time a call has left is one it can wait (`CallsFit`); a task whose wait is being aborted is off all state lists between the two halves of the call (`Aborting`). Of the objects: whoever is registered with the stream buffer is inside the call that registered it (`Partners`), so that the assertions about a second reader or writer hold; queues keep their kind (`Kinds`).

The argument is in two layers. `KernelProofs` knows no calls: from what inserting and removing do to a sequence (`InsertedByValue`: the list stays sorted), to each operator of `tasks.c`. The loops of `xTaskIncrementTick`, `xTaskResumeAll`, `prvUnlockQueue` and `xEventGroupSetBits` are recursive functions over a list, and what holds of every step of them is proved by induction on the naturals (`UpTo`), instantiated for a set. An operator `Keeps` what other tasks rely on, `Wakes` some, or puts the running task to sleep (`Suspends`, `Delayed`). `FreeRTOSProofs` then has `StepSchedules`, which is all that a step of the running task has to show, and `HandlerSchedules`, which is all that a handler has to; and one lemma for each action. `ListsHold` and `HighestRun` follow. As `Kernel` includes that `halted` is "no", a static application fails no assertion of the kernel.

The inductive invariants `IInv`, `Fresh`, `KeypadInv`, `SwitchInv`, `SendInv`, `ReceiveInv`, `LcdInv`, `WatchInv`, `StopwatchInv`, `CallInv`, `QueueInv`, of `StreamInv` the part about counts (`Fits`), and those of `BoardProofs`, and `StaticInv`, were checked with TLC on the instances of the runs (`LcdInv` on that of `lcd` without numbers) before they were proved. `InBuffer`, which asks for a function to exist, was not.

Only model-checked: liveness (`ServedWhileRead`, `SendsComplete`, `CallsReturn`, `LowSlotsServed`, `BlinksForever`, `HeldKeyTaken`), which is out of reach of the prover; numbers on the display; and of `FreeRTOS` five properties, and `KernelLists` and `HighestRuns` of the applications that are not static. `NoLostWakeup`, `TimeoutsExact` and `InheritanceHolds` are about who stands in which list and rest on what is proved of the lists; `InheritanceHolds` says something of applications with mutexes only, which are not static. `Rendezvous` needs what the recursive function for bitwise and computes of any two numbers, which is an induction over data. `TimersExact` is about an application with the timer task, which is not static either.

## 6. Plan

1. Proofs about the kernel: `TimeoutsExact` of static applications and waits that are not aborted; the lists of applications with a timer task, and with mutexes that are not held in a chain.
2. Queue sets, which send from within a send to a second queue, and co-routines.
3. Compositions that the properties so far do not need: `APP2` with `Usart`, whose buffer does not outlive the call; the watch's screen with the slots of `Lcd`.

## 7. Not modelled

- `MCAL/MDMA` is a register layout without a function; `LED_pb` a generated header nobody includes; `croutine.c` compiles to nothing in this configuration.
- Of FreeRTOS: queue sets, the registry of queues, static allocation, tickless idle, run-time statistics and trace hooks, the hook functions (all off in `FreeRTOSConfig.h`), and the queries that change nothing. The heap only ever grows: `heap_1.c` appears as what `vPortFree` does. What follows the failing `vPortFree` in a deletion is never reached, so that deletions of queues, groups, buffers and timers end there.
- The assembly of the port beyond what PendSV, SysTick and the masking of interrupts mean to `tasks.c`.
