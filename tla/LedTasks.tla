------------------------------ MODULE LedTasks ------------------------------
(***************************************************************************)
(* The program main.c builds: three tasks on the FreeRTOS kernel under     *)
(* src/freeRTOS, each toggling one LED of the same port in an endless loop *)
(* with vTaskDelayUntil.  Of the kernel the module has what these tasks    *)
(* exercise: the tick, the two delayed lists and their exchange when the   *)
(* tick count wraps, the suspended scheduler with its pended ticks, and    *)
(* preemption.  A tick may come between any two steps of a task.           *)
(*                                                                         *)
(* A task is named by its priority, which main.c makes distinct, and the   *)
(* idle task by its priority 0.  Time is unbounded: only the wrapped tick  *)
(* count and the distance to each task's due tick are kept.                *)
(*                                                                         *)
(* An operator named X_Fault is a faulty variant of the definition X.      *)
(***************************************************************************)
EXTENDS Integers

CONSTANTS configMAX_PRIORITIES,
          Tasks,          \* the priorities of the tasks, all above Idle
          Period,         \* ticks between the releases of a task
          portMAX_DELAY,  \* the largest TickType_t
          MaxPended       \* bound: ticks while the scheduler is suspended

Idle == 0

ASSUME LedTasksAssumption ==
    /\ configMAX_PRIORITIES \in Nat \ {0}
    /\ Tasks \subseteq Idle + 1 .. configMAX_PRIORITIES - 1
    /\ portMAX_DELAY \in Nat \ {0}
    /\ Period \in [Tasks -> 1 .. portMAX_DELAY]
    /\ MaxPended \in 0 .. portMAX_DELAY

VARIABLES xTickCount,            \* the kernel's variables of these names
          xNextTaskUnblockTime,
          xPendedTicks,
          uxSchedulerSuspended,  \* as a Boolean: no call here nests
          xYieldPending,
          delayed,               \* the tasks in pxDelayedTaskList
          overflow,              \* the tasks in pxOverflowDelayedTaskList
          wake,                  \* xItemValue of a task's state list item
          current,               \* pxCurrentTCB
          pendSV,                \* PENDSVSET: a context switch is requested
          pc,                    \* where each task is
          lastWake,              \* xLastWakeTime of each task
          ODR,                   \* the port: the bit of each task's LED, 0 or 1
          reg,                   \* the register of a task's ODR ^= bit
          ahead,                 \* history: ticks until a task's due tick
          toggled                \* history: how often each task toggled, modulo 2

kernel == <<xTickCount, xNextTaskUnblockTime, xPendedTicks, uxSchedulerSuspended,
            xYieldPending, delayed, overflow, wake, current, pendSV>>
app == <<pc, lastWake, ODR, reg, ahead, toggled>>
vars == <<kernel, app>>

Ticks == 0 .. portMAX_DELAY
Stages == {"start", "load", "store", "suspend", "delay", "resume", "replay", "yield"}
Blocked == delayed \cup overflow
Ready == (Tasks \ Blocked) \cup {Idle}

(* taskSELECT_HIGHEST_PRIORITY_TASK *)
Highest(S) == CHOOSE t \in S : \A u \in S : u <= t

(* TickType_t sums wrap. *)
Plus(x, n) == IF x + n <= portMAX_DELAY THEN x + n ELSE x + n - (portMAX_DELAY + 1)

(* main(), HLED_Init and vTaskStartScheduler: all tasks ready, none begun. *)
Init == /\ xTickCount = 0
        /\ xNextTaskUnblockTime = portMAX_DELAY
        /\ xPendedTicks = 0
        /\ uxSchedulerSuspended = FALSE
        /\ xYieldPending = FALSE
        /\ delayed = {}
        /\ overflow = {}
        /\ wake = [t \in Tasks |-> 0]
        /\ current = Highest(Ready)
        /\ pendSV = FALSE
        /\ pc = [t \in Tasks |-> "start"]
        /\ lastWake = [t \in Tasks |-> 0]
        /\ ODR = [t \in Tasks |-> 0]
        /\ reg = [t \in Tasks |-> [u \in Tasks |-> 0]]
        /\ ahead = [t \in Tasks |-> 0]
        /\ toggled = [t \in Tasks |-> 0]

----------------------------------------------------------------------------
(* The tick *)

(* prvResetNextTaskUnblockTime for the delayed list S. *)
Earliest(S) == IF S = {} THEN portMAX_DELAY
               ELSE wake[CHOOSE t \in S : \A u \in S : wake[t] <= wake[u]]

NewTick == Plus(xTickCount, 1)

(* taskSWITCH_DELAYED_LISTS when the tick count wraps. *)
Wraps_Never == FALSE
Wraps == NewTick = 0
List == IF Wraps THEN overflow ELSE delayed
UnblockAt == IF Wraps THEN Earliest(overflow) ELSE xNextTaskUnblockTime

(* The delayed list is in the order of the wake times: the tasks taken off
   it are those whose time has come. *)
Expired(t) == wake[t] <= NewTick
Woken == IF NewTick >= UnblockAt THEN {t \in List : Expired(t)} ELSE {}

SwitchRequired_Never == FALSE
SwitchRequired == xYieldPending \/ \E t \in Woken : t > current

(* xTaskIncrementTick with the scheduler not suspended. *)
IncrementTick ==
    /\ xTickCount' = NewTick
    /\ delayed' = List \ Woken
    /\ overflow' = IF Wraps THEN delayed ELSE overflow
    /\ xNextTaskUnblockTime' =
           IF NewTick >= UnblockAt THEN Earliest(List \ Woken) ELSE UnblockAt

(* The due ticks of blocked tasks are never further back than the range of
   the clock; the bound only matters to a kernel that forgets a task. *)
Nearer == [t \in Tasks |-> IF ahead[t] > -portMAX_DELAY THEN ahead[t] - 1 ELSE ahead[t]]

(* No ready task is behind its due tick by the whole range of TickType_t,
   49 days: then the tick count would be ambiguous. *)
InRange == \A t \in Tasks \ Blocked : ahead[t] > -portMAX_DELAY

(* xTaskResumeAll counts the pended ticks with interrupts masked, and a
   requested context switch is taken before the next tick. *)
TickAllowed == /\ ~pendSV
               /\ \A t \in Tasks : pc[t] # "replay"
               /\ InRange

(* xPortSysTickHandler *)
Tick == /\ TickAllowed
        /\ ~uxSchedulerSuspended
        /\ IncrementTick
        /\ pendSV' = SwitchRequired
        /\ ahead' = Nearer
        /\ UNCHANGED <<xPendedTicks, uxSchedulerSuspended, xYieldPending, wake, current,
                       pc, lastWake, ODR, reg, toggled>>

TickPended == /\ TickAllowed
              /\ uxSchedulerSuspended
              /\ xPendedTicks < MaxPended
              /\ xPendedTicks' = xPendedTicks + 1
              /\ ahead' = Nearer
              /\ UNCHANGED <<xTickCount, xNextTaskUnblockTime, uxSchedulerSuspended, xYieldPending,
                             delayed, overflow, wake, current, pendSV,
                             pc, lastWake, ODR, reg, toggled>>

(* xPortPendSVHandler: vTaskSwitchContext.  PendSV is never pending while
   the scheduler is suspended. *)
SwitchContext == /\ pendSV
                 /\ pendSV' = FALSE
                 /\ xYieldPending' = FALSE
                 /\ current' = Highest(Ready)
                 /\ UNCHANGED <<xTickCount, xNextTaskUnblockTime, xPendedTicks,
                                uxSchedulerSuspended, delayed, overflow, wake, app>>

----------------------------------------------------------------------------
(* The tasks *)

(* Task t runs, at stage s, and goes on at stage n. *)
Runs(t, s) == /\ current = t
              /\ ~pendSV
              /\ pc[t] = s

GoesTo(t, n) == pc' = [pc EXCEPT ![t] = n]

(* xLastWakeTime = xTaskGetTickCount() *)
GetTickCount(t) == /\ Runs(t, "start")
                   /\ GoesTo(t, "load")
                   /\ lastWake' = [lastWake EXCEPT ![t] = xTickCount]
                   /\ ahead' = [ahead EXCEPT ![t] = 0]
                   /\ UNCHANGED <<kernel, ODR, reg, toggled>>

(* HLED_Toggle: MGPIO_TogglePin's ODR ^= 1 << pin, the load ... *)
LoadODR(t) == /\ Runs(t, "load")
              /\ GoesTo(t, "store")
              /\ reg' = [reg EXCEPT ![t] = ODR]
              /\ UNCHANGED <<kernel, lastWake, ODR, ahead, toggled>>

(* ... and the store, after which the register is dead. *)
Flipped_All(bits, t) == [u \in Tasks |-> 1 - bits[u]]
Flipped(bits, t) == [bits EXCEPT ![t] = 1 - @]

StoreODR(t) == /\ Runs(t, "store")
               /\ GoesTo(t, "suspend")
               /\ ODR' = Flipped(reg[t], t)
               /\ reg' = [reg EXCEPT ![t] = [u \in Tasks |-> 0]]
               /\ toggled' = [toggled EXCEPT ![t] = 1 - @]
               /\ UNCHANGED <<kernel, lastWake, ahead>>

(* xTaskDelayUntil: vTaskSuspendAll ... *)
SuspendAll(t) == /\ Runs(t, "suspend")
                 /\ GoesTo(t, "delay")
                 /\ uxSchedulerSuspended' = TRUE
                 /\ UNCHANGED <<xTickCount, xNextTaskUnblockTime, xPendedTicks, xYieldPending,
                                delayed, overflow, wake, current, pendSV,
                                lastWake, ODR, reg, ahead, toggled>>

(* ... whether to delay, which depends on whether the tick count and the
   wake time have wrapped since the last wake time ... *)
ShouldDelay_NoWrap(last, until) == until > xTickCount
ShouldDelay(last, until) == IF xTickCount < last
                            THEN until < last /\ until > xTickCount
                            ELSE until < last \/ until > xTickCount

(* ... prvAddCurrentTaskToDelayedList, where a wake time beyond the wrap
   goes to the overflow list ... *)
Overflows(until) == until < xTickCount

AddToDelayedList(t, until) ==
    /\ wake' = [wake EXCEPT ![t] = until]
    /\ IF Overflows(until)
       THEN /\ overflow' = overflow \cup {t}
            /\ UNCHANGED <<delayed, xNextTaskUnblockTime>>
       ELSE /\ delayed' = delayed \cup {t}
            /\ xNextTaskUnblockTime' = IF until < xNextTaskUnblockTime
                                       THEN until ELSE xNextTaskUnblockTime
            /\ UNCHANGED overflow

DelayUntil(t) == LET until == Plus(lastWake[t], Period[t])
                 IN  /\ Runs(t, "delay")
                     /\ GoesTo(t, "resume")
                     /\ lastWake' = [lastWake EXCEPT ![t] = until]
                     /\ ahead' = [ahead EXCEPT ![t] = @ + Period[t]]
                     /\ IF ShouldDelay(lastWake[t], until)
                        THEN AddToDelayedList(t, until)
                        ELSE UNCHANGED <<delayed, overflow, wake, xNextTaskUnblockTime>>
                     /\ UNCHANGED <<xTickCount, xPendedTicks, uxSchedulerSuspended,
                                    xYieldPending, current, pendSV, ODR, reg, toggled>>

(* ... and xTaskResumeAll: from here to the end of the critical section no
   interrupt comes.  The pended ticks are counted one by one ... *)
ResumeAll(t) == /\ Runs(t, "resume")
                /\ GoesTo(t, "replay")
                /\ uxSchedulerSuspended' = FALSE
                /\ UNCHANGED <<xTickCount, xNextTaskUnblockTime, xPendedTicks, xYieldPending,
                               delayed, overflow, wake, current, pendSV,
                               lastWake, ODR, reg, ahead, toggled>>

Replay(t) == /\ Runs(t, "replay")
             /\ xPendedTicks > 0
             /\ xPendedTicks' = xPendedTicks - 1
             /\ IncrementTick
             /\ xYieldPending' = SwitchRequired
             /\ UNCHANGED <<uxSchedulerSuspended, wake, current, pendSV, app>>

(* ... and if that made the task yield, xTaskDelayUntil does not again. *)
Resumed(t) == /\ Runs(t, "replay")
              /\ xPendedTicks = 0
              /\ pendSV' = xYieldPending
              /\ GoesTo(t, IF xYieldPending THEN "load" ELSE "yield")
              /\ UNCHANGED <<xTickCount, xNextTaskUnblockTime, xPendedTicks,
                             uxSchedulerSuspended, xYieldPending, delayed, overflow,
                             wake, current, lastWake, ODR, reg, ahead, toggled>>

(* portYIELD_WITHIN_API *)
Yield(t) == /\ Runs(t, "yield")
            /\ GoesTo(t, "load")
            /\ pendSV' = TRUE
            /\ UNCHANGED <<xTickCount, xNextTaskUnblockTime, xPendedTicks,
                           uxSchedulerSuspended, xYieldPending, delayed, overflow,
                           wake, current, lastWake, ODR, reg, ahead, toggled>>

TaskStep(t) == \/ GetTickCount(t) \/ LoadODR(t) \/ StoreODR(t)
               \/ SuspendAll(t) \/ DelayUntil(t) \/ ResumeAll(t)
               \/ Replay(t) \/ Resumed(t) \/ Yield(t)

Next == \/ Tick
        \/ TickPended
        \/ SwitchContext
        \/ \E t \in Tasks : TaskStep(t)

(* SysTick goes on, the processor takes its exceptions and executes the
   task it is on. *)
Fairness == /\ WF_vars(Tick)
            /\ WF_vars(SwitchContext)
            /\ \A t \in Tasks : WF_vars(TaskStep(t))

Spec == Init /\ [][Next]_vars
FairSpec == Spec /\ Fairness

----------------------------------------------------------------------------
(* Properties *)

TypeOK == /\ xTickCount \in Ticks
          /\ xNextTaskUnblockTime \in Ticks
          /\ xPendedTicks \in 0 .. MaxPended
          /\ uxSchedulerSuspended \in BOOLEAN
          /\ xYieldPending \in BOOLEAN
          /\ delayed \subseteq Tasks
          /\ overflow \subseteq Tasks
          /\ wake \in [Tasks -> Ticks]
          /\ current \in Tasks \cup {Idle}
          /\ pendSV \in BOOLEAN
          /\ pc \in [Tasks -> Stages]
          /\ lastWake \in [Tasks -> Ticks]
          /\ ODR \in [Tasks -> 0 .. 1]
          /\ reg \in [Tasks -> [Tasks -> 0 .. 1]]
          /\ ahead \in [Tasks -> -portMAX_DELAY .. portMAX_DELAY]
          /\ toggled \in [Tasks -> 0 .. 1]

(* However late the tasks are, and wherever the tick count wraps, a task is
   blocked exactly while its due tick, start + k * Period, is ahead of the
   kernel's clock: it is never released early, never late, never lost, and
   its schedule never drifts.  (xTaskDelayUntil and xTaskIncrementTick,
   tasks.c:1214-1294 and 2720-2879.)  The kernel's clock lags the real one
   by the pended ticks. *)
OnTime == \A t \in Tasks : t \in Blocked <=> ahead[t] + xPendedTicks > 0

(* The assertion of taskSWITCH_DELAYED_LISTS (tasks.c:206): when the tick
   count is about to wrap, no task is left in the list it leaves. *)
NothingDelayedAtWrap == xTickCount = portMAX_DELAY => delayed = {}

(* Outside of the calls that give the processor away, the task that runs is
   the ready task of the highest priority (configUSE_PREEMPTION). *)
HighestRuns == \/ pendSV
               \/ current # Idle /\ pc[current] \in {"resume", "replay", "yield"}
               \/ current = Highest(Ready)

(* A toggle can be lost, GPIO.c:147 being a load and a store, but only in
   one way: the store of a preempted task of lower priority puts back the
   bit it loaded before.  Hence the LED of the lowest task, LED_RED, always
   shows its toggles. *)
LossOnlyByLower ==
    [][\A t \in Tasks :
          ODR[t] = toggled[t] /\ (ODR[t] # toggled[t])'
              => \E u \in Tasks : u < t /\ pc[u] = "store" /\ pc'[u] = "suspend"]_vars

(* As long as no task is 2^32 ticks late, every task comes to toggle its
   LED again and again, main.c's endless loops: no task sleeps for ever in
   a list the tick no longer looks at. *)
BlinksForever == \A t \in Tasks : []<>(pc[t] = "store")
=============================================================================
