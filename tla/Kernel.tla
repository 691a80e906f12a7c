------------------------------- MODULE Kernel -------------------------------
(***************************************************************************)
(* The FreeRTOS kernel of src/freeRTOS (tasks.c on list.c, with the Cortex *)
(* port), as this project's FreeRTOSConfig.h builds it: preemptive, time   *)
(* slicing, mutexes, one notification per task, the ready priorities a     *)
(* bitmap.  The kernel's variables are one record; an operator named after *)
(* a kernel function takes such a record, the kernel before the call, and  *)
(* gives the kernel after it.  Queues, EventGroups and StreamBuffers are   *)
(* built on these operators; TaskCalls has the calls as steps of tasks.    *)
(*                                                                         *)
(* A list is a sequence.  A ready list is a ring: End is its end marker    *)
(* and the last element is the one pxIndex points to, so that the next     *)
(* entry is the first.  The other lists are never walked with pxIndex: it  *)
(* stays at their end marker, which is left out.                           *)
(*                                                                         *)
(* An operator named X_Fault is a faulty variant of the definition X.      *)
(***************************************************************************)
EXTENDS Integers, SequencesExt

CONSTANTS Tasks,                \* the application's tasks
          Idle,                 \* the idle task
          End,                  \* the end marker of a list
          EventLists,           \* the event lists of all objects
          configMAX_PRIORITIES,
          portMAX_DELAY         \* the largest TickType_t

All == Tasks \cup {Idle}

ASSUME KernelAssumption ==
    /\ configMAX_PRIORITIES \in Nat \ {0} /\ portMAX_DELAY \in Nat \ {0}
    /\ Idle \notin Tasks /\ End \notin All

Priorities == 0 .. configMAX_PRIORITIES - 1

Plus(x, n) == (x + n) % (portMAX_DELAY + 1)
Minus(x, n) == (x - n) % (portMAX_DELAY + 1)

(* Bitwise and, by the bits from the lowest on, and bitwise or. *)
x & y ==
    LET And[n \in Nat] ==
            LET a == x \div 2^n
                b == y \div 2^n
            IN IF a = 0 \/ b = 0 THEN 0 ELSE (a % 2) * (b % 2) + 2 * And[n + 1]
    IN And[0]
x | y == x + y - (x & y)

----------------------------------------------------------------------------
(* Lists *)

IsIn(t, list) == t \in ToSet(list)
Without(list, t) == IF IsIn(t, list) THEN RemoveAt(list, CHOOSE i \in DOMAIN list : list[i] = t) ELSE list

(* listINSERT_END puts the item before the one pxIndex points to. *)
InsertEnd(ring, t) == InsertAt(ring, Len(ring), t)

(* listCURRENT_LIST_LENGTH *)
Length(ring) == Len(ring) - 1

Turn(ring) == Tail(ring) \o <<Head(ring)>>

(* listGET_OWNER_OF_NEXT_ENTRY moves pxIndex on, past the end marker. *)
NextEntry(ring) == IF Head(ring) = End THEN Turn(Turn(ring)) ELSE Turn(ring)

(* The place of the first item of a list with a value larger than x, or    *)
(* of its end.                                                             *)
PlaceAfter(list, value, x) ==
    CHOOSE k \in 1 .. Len(list) + 1 : /\ k <= Len(list) => value[list[k]] > x
                                      /\ \A i \in 1 .. k - 1 : value[list[i]] <= x

(* vListInsert: before the first item with a larger value. *)
InsertByValue(list, t, value) == InsertAt(list, PlaceAfter(list, value, value[t]), t)

(* uxListRemove of the item by which t is in a state list, and of the one  *)
(* by which it is in an event list or in xPendingReadyList.                *)
OffStateList(s, t) ==
    [s EXCEPT !.ready = [p \in Priorities |-> Without(s.ready[p], t)],
              !.delayed = Without(@, t),
              !.overflow = Without(@, t),
              !.suspendedTasks = Without(@, t)]

OffEventList(s, t) ==
    [s EXCEPT !.events = [e \in EventLists |-> Without(s.events[e], t)],
              !.pendingReady = Without(@, t)]

InEventList(s, t) == IsIn(t, s.pendingReady) \/ \E e \in EventLists : IsIn(t, s.events[e])

(* configASSERT stops the system with interrupts masked. *)
configASSERT(s, condition, what) == IF condition \/ s.halted # "no" THEN s ELSE [s EXCEPT !.halted = what]

----------------------------------------------------------------------------
(* Ready tasks and the selection of the one that runs *)

taskRESET_READY_PRIORITY(s, p) ==
    IF Length(s.ready[p]) = 0 THEN [s EXCEPT !.uxTopReadyPriority = @ \ {p}] ELSE s

prvAddTaskToReadyList(s, t) ==
    LET p == s.uxPriority[t]
    IN [s EXCEPT !.uxTopReadyPriority = @ \cup {p}, !.ready[p] = InsertEnd(@, t)]

IsReady(s, t) == \E p \in Priorities : IsIn(t, s.ready[p])
InReadyList(s, p, t) == IsIn(t, s.ready[p])

(* A ready task leaves its ready list for another one, when its priority   *)
(* becomes p.  The bit of the list it leaves is cleared with the list.     *)
Requeue(s, t, p) ==
    LET q == s.uxPriority[t]
        off == taskRESET_READY_PRIORITY(OffStateList(s, t), q)
    IN IF InReadyList(s, q, t) THEN prvAddTaskToReadyList([off EXCEPT !.uxPriority[t] = p], t)
       ELSE [s EXCEPT !.uxPriority[t] = p]

(* taskSELECT_HIGHEST_PRIORITY_TASK.  Nothing is selected from an empty    *)
(* list: its configASSERT stops the system.                                *)
SelectHighest(s) ==
    LET p == Max(s.uxTopReadyPriority)
        ring == NextEntry(s.ready[p])
    IN IF Length(s.ready[p]) = 0 THEN configASSERT(s, FALSE, "nothing to select")
       ELSE [s EXCEPT !.ready[p] = ring, !.pxCurrentTCB = Last(ring)]

vTaskSwitchContext(s) ==
    IF s.uxSchedulerSuspended # 0 THEN [s EXCEPT !.xYieldPending = TRUE]
    ELSE SelectHighest([s EXCEPT !.xYieldPending = FALSE])

Yield(s) == [s EXCEPT !.pendSV = TRUE]
YieldIf(s, condition) == IF condition THEN Yield(s) ELSE s
Current(s) == s.uxPriority[s.pxCurrentTCB]

----------------------------------------------------------------------------
(* Time *)

prvResetNextTaskUnblockTime(s) ==
    [s EXCEPT !.xNextTaskUnblockTime =
                  IF s.delayed = <<>> THEN portMAX_DELAY ELSE s.wake[Head(s.delayed)]]

(* xNumOfOverflows is only ever compared with a value it had. *)
taskSWITCH_DELAYED_LISTS(s) ==
    prvResetNextTaskUnblockTime([configASSERT(s, s.delayed = <<>>, "delayed at the wrap")
                                 EXCEPT !.delayed = s.overflow, !.overflow = s.delayed,
                                        !.xNumOfOverflows = @ + 1])

(* A task whose time is up leaves its event list too. *)
MakeReady_StateOnly(s, t) == prvAddTaskToReadyList(OffStateList(s, t), t)
MakeReady(s, t) == prvAddTaskToReadyList(OffEventList(OffStateList(s, t), t), t)

(* Those of a list in turn. *)
MakeAllReady(s, list) ==
    LET After[n \in 0 .. Len(list)] == IF n = 0 THEN s ELSE MakeReady(After[n - 1], list[n])
    IN After[Len(list)]

(* xTaskIncrementTick: the kernel and whether a switch is required.  The   *)
(* delayed list is walked up to the first task whose time is not up.       *)
xTaskIncrementTick(s) ==
    LET tick == Plus(s.xTickCount, 1)
        counted == [s EXCEPT !.xTickCount = tick]
        exchanged == IF tick = 0 THEN taskSWITCH_DELAYED_LISTS(counted) ELSE counted
        unblocks == tick >= exchanged.xNextTaskUnblockTime
        due == IF unblocks THEN SubSeq(exchanged.delayed, 1, PlaceAfter(exchanged.delayed, exchanged.wake, tick) - 1)
               ELSE <<>>
        woken == MakeAllReady(exchanged, due)
        done == IF unblocks THEN prvResetNextTaskUnblockTime(woken) ELSE woken
    IN IF s.uxSchedulerSuspended # 0
       THEN [kernel |-> [s EXCEPT !.xPendedTicks = @ + 1], switch |-> FALSE]
       ELSE [kernel |-> done,
             switch |-> \/ \E t \in ToSet(due) : s.uxPriority[t] > Current(s)
                        \/ Length(done.ready[Current(s)]) > 1
                        \/ s.xYieldPending]

vTaskSuspendAll(s) == [s EXCEPT !.uxSchedulerSuspended = @ + 1]

ReadyPended(s, t) == [MakeReady(s, t) EXCEPT !.xYieldPending = @ \/ s.uxPriority[t] >= Current(s)]

ReadyAllPended(s, list) ==
    LET After[n \in 0 .. Len(list)] == IF n = 0 THEN s ELSE ReadyPended(After[n - 1], list[n])
    IN After[Len(list)]

CountPended_NoSwitch(s) == xTaskIncrementTick(s).kernel
CountPended(s) == LET r == xTaskIncrementTick(s)
                  IN [r.kernel EXCEPT !.xYieldPending = @ \/ r.switch]

CountAllPended(s, ticks) ==
    LET After[n \in 0 .. ticks] == IF n = 0 THEN s ELSE CountPended(After[n - 1])
    IN After[ticks]

(* xTaskResumeAll: the kernel and whether it has already yielded. *)
xTaskResumeAll(s) ==
    LET resumed == [s EXCEPT !.uxSchedulerSuspended = @ - 1]
        readied == ReadyAllPended(resumed, s.pendingReady)
        reset == IF s.pendingReady = <<>> THEN readied ELSE prvResetNextTaskUnblockTime(readied)
        counted == CountAllPended(reset, s.xPendedTicks)
        done == [counted EXCEPT !.xPendedTicks = 0]
    IN IF resumed.uxSchedulerSuspended # 0 THEN [kernel |-> resumed, yielded |-> FALSE]
       ELSE [kernel |-> YieldIf(done, done.xYieldPending), yielded |-> done.xYieldPending]

(* prvAddCurrentTaskToDelayedList *)
prvAddCurrentTaskToDelayedList(s, n, indefinitely) ==
    LET t == s.pxCurrentTCB
        reset == [s EXCEPT !.ucDelayAborted[t] = FALSE]
        off == taskRESET_READY_PRIORITY(OffStateList(reset, t), s.uxPriority[t])
        at == Plus(s.xTickCount, n)
        timed == [off EXCEPT !.wake[t] = at]
    IN IF n = portMAX_DELAY /\ indefinitely
       THEN [off EXCEPT !.suspendedTasks = Append(@, t)]
       ELSE IF at < s.xTickCount
       THEN [timed EXCEPT !.overflow = InsertByValue(@, t, timed.wake)]
       ELSE [timed EXCEPT !.delayed = InsertByValue(@, t, timed.wake),
                          !.xNextTaskUnblockTime = IF at < @ THEN at ELSE @]

(* vTaskInternalSetTimeOutState *)
TimeOutState(s) == [overflows |-> s.xNumOfOverflows, entered |-> s.xTickCount]

(* xTaskCheckForTimeOut with n ticks to wait since the state "since".  A   *)
(* wait that was aborted is not timed out, but has the same result.        *)
Aborted(s) == s.ucDelayAborted[s.pxCurrentTCB]
Checked(s) == [s EXCEPT !.ucDelayAborted[s.pxCurrentTCB] = FALSE]

TimedOut(s, since, n) ==
    /\ n # portMAX_DELAY
    /\ \/ s.xNumOfOverflows # since.overflows /\ s.xTickCount >= since.entered
       \/ Minus(s.xTickCount, since.entered) >= n

TicksLeft_Whole(s, since, n) == n
TicksLeft(s, since, n) == IF n = portMAX_DELAY THEN n
                          ELSE n - Minus(s.xTickCount, since.entered)

----------------------------------------------------------------------------
(* Event lists.  While a task waits in the unordered list of an event      *)
(* group, its item value holds the bits it waits for instead of its rank.  *)

NotInUse == [bits |-> 0, flags |-> {}]
InUse(s, t) == s.item[t] # NotInUse
Rank(p) == configMAX_PRIORITIES - p
SetRank(s, t, p) == IF InUse(s, t) THEN s ELSE [s EXCEPT !.rank[t] = Rank(p)]

vTaskPlaceOnEventList(s, list, n) ==
    prvAddCurrentTaskToDelayedList(
        [s EXCEPT !.events[list] = InsertByValue(@, s.pxCurrentTCB, s.rank)], n, TRUE)

vTaskPlaceOnUnorderedEventList(s, list, bits, flags, n) ==
    prvAddCurrentTaskToDelayedList(
        [s EXCEPT !.events[list] = Append(@, s.pxCurrentTCB),
                  !.item[s.pxCurrentTCB] = [bits |-> bits, flags |-> flags \cup {"in use"}]],
        n, TRUE)

(* A task taken off an event list is readied, or put in xPendingReadyList  *)
(* while the scheduler is suspended.                                       *)
ReadyOrPend(s, t) ==
    IF s.uxSchedulerSuspended = 0 THEN prvAddTaskToReadyList(OffStateList(s, t), t)
    ELSE [s EXCEPT !.pendingReady = Append(@, t)]

xTaskRemoveFromEventList(s, list) ==
    LET t == Head(s.events[list])
        woken == s.uxPriority[t] > Current(s)
        off == [s EXCEPT !.events[list] = Tail(@), !.xYieldPending = @ \/ woken]
    IN [kernel |-> ReadyOrPend(off, t), woken |-> woken]

(* The caller's "if the list is not empty, take the first task off it".    *)
WakeOne(s, list) == IF s.events[list] = <<>> THEN [kernel |-> s, woken |-> FALSE]
                    ELSE xTaskRemoveFromEventList(s, list)

WakeOneAndYield(s, list) == LET w == WakeOne(s, list) IN YieldIf(w.kernel, w.woken)

vTaskRemoveFromUnorderedEventList(s, t, bits, flags) ==
    LET off == OffStateList(OffEventList(s, t), t)
        higher == s.uxPriority[t] > Current(s)
    IN prvAddTaskToReadyList(
           [off EXCEPT !.item[t] = [bits |-> bits, flags |-> flags \cup {"in use"}],
                       !.xYieldPending = @ \/ higher], t)

uxTaskResetEventItemValue(s) ==
    [s EXCEPT !.item[s.pxCurrentTCB] = NotInUse, !.rank[s.pxCurrentTCB] = Rank(Current(s))]

----------------------------------------------------------------------------
(* Priorities and their inheritance *)

vTaskPrioritySet(s, t, p) ==
    LET base == s.uxBasePriority[t]
        yields == \/ p > base /\ t # s.pxCurrentTCB /\ p >= Current(s)
                  \/ p < base /\ t = s.pxCurrentTCB
        set == SetRank([s EXCEPT !.uxBasePriority[t] = p], t, p)
        new == IF base = s.uxPriority[t] THEN p ELSE s.uxPriority[t]
    IN IF p = base THEN s ELSE YieldIf(Requeue(set, t, new), yields)

(* xTaskPriorityInherit: the current task is about to wait for a mutex     *)
(* that "holder" holds.                                                    *)
xTaskPriorityInherit(s, holder) ==
    IF s.uxPriority[holder] < Current(s)
    THEN [kernel |-> Requeue(SetRank(s, holder, Current(s)), holder, Current(s)),
          inherited |-> TRUE]
    ELSE [kernel |-> s, inherited |-> s.uxBasePriority[holder] < Current(s)]

(* xTaskPriorityDisinherit: the current task gives a mutex back. *)
xTaskPriorityDisinherit(s, holder) ==
    LET given == configASSERT([s EXCEPT !.uxMutexesHeld[holder] = @ - 1],
                              holder = s.pxCurrentTCB, "given by another task")
        base == s.uxBasePriority[holder]
        lowers == s.uxPriority[holder] # base /\ given.uxMutexesHeld[holder] = 0
    IN [kernel |-> IF lowers THEN [Requeue(given, holder, base) EXCEPT !.rank[holder] = Rank(base)]
                   ELSE given,
        lowered |-> lowers]

(* vTaskPriorityDisinheritAfterTimeout: a task has given up its wait for a *)
(* mutex, and "highest" is the highest priority that still waits for it.   *)
(* When the holder leaves a ready list that becomes empty, it is the bit   *)
(* of the new priority that is cleared, uxPriority being set by then.      *)
vTaskPriorityDisinheritAfterTimeout(s, holder, highest) ==
    LET old == s.uxPriority[holder]
        new == Max({s.uxBasePriority[holder], highest})
        lowers == old # new /\ s.uxMutexesHeld[holder] = 1
        held == configASSERT(s, s.uxMutexesHeld[holder] > 0 /\ (lowers => holder # s.pxCurrentTCB),
                             "disinherited by its holder")
        lowered == SetRank([held EXCEPT !.uxPriority[holder] = new], holder, new)
        off == OffStateList(lowered, holder)
        cleared == IF Length(off.ready[old]) = 0 THEN [off EXCEPT !.uxTopReadyPriority = @ \ {new}]
                   ELSE off
    IN IF ~lowers THEN held
       ELSE IF InReadyList(s, old, holder) THEN prvAddTaskToReadyList(cleared, holder)
       ELSE lowered

pvTaskIncrementMutexHeldCount(s) == [s EXCEPT !.uxMutexesHeld[s.pxCurrentTCB] = @ + 1]

----------------------------------------------------------------------------
(* Tasks: creation, suspension, deletion *)

(* The TCB of a new task t of priority p. *)
prvInitialiseNewTask(s, t, p) ==
    [configASSERT(s, p < configMAX_PRIORITIES, "priority") EXCEPT
        !.uxPriority[t] = p, !.uxBasePriority[t] = p, !.rank[t] = Rank(p), !.item[t] = NotInUse,
        !.wake[t] = 0, !.uxMutexesHeld[t] = 0, !.ucNotifyState[t] = "none", !.ulNotifiedValue[t] = 0,
        !.ucDelayAborted[t] = FALSE]

prvAddNewTaskToReadyList(s, t) ==
    prvAddTaskToReadyList([s EXCEPT !.uxCurrentNumberOfTasks = @ + 1], t)

vTaskSuspend(s, t) ==
    LET off == OffEventList(taskRESET_READY_PRIORITY(OffStateList(s, t), s.uxPriority[t]), t)
    IN [off EXCEPT !.suspendedTasks = Append(@, t),
                   !.ucNotifyState[t] = IF @ = "waiting" THEN "none" ELSE @]

(* A task that waits without end for a notification is not told from a     *)
(* suspended one: both are in xSuspendedTaskList and in no event list.     *)
prvTaskIsTaskSuspended(s, t) == IsIn(t, s.suspendedTasks) /\ ~InEventList(s, t)

vTaskResume(s, t) ==
    IF t # s.pxCurrentTCB /\ prvTaskIsTaskSuspended(s, t)
    THEN YieldIf(prvAddTaskToReadyList(OffStateList(s, t), t), s.uxPriority[t] >= Current(s))
    ELSE s

xTaskResumeFromISR(s, t) ==
    LET running == s.uxSchedulerSuspended = 0
        woken == running /\ s.uxPriority[t] >= Current(s)
    IN IF prvTaskIsTaskSuspended(s, t)
       THEN [kernel |-> [ReadyOrPend(s, t) EXCEPT !.xYieldPending = @ \/ woken], woken |-> woken]
       ELSE [kernel |-> s, woken |-> FALSE]

(* vTaskDelete up to the end of its critical section. *)
vTaskDelete(s, t) ==
    LET off == OffEventList(taskRESET_READY_PRIORITY(OffStateList(s, t), s.uxPriority[t]), t)
    IN IF t = s.pxCurrentTCB THEN [off EXCEPT !.tasksWaitingTermination = Append(@, t)]
       ELSE prvResetNextTaskUnblockTime([off EXCEPT !.uxCurrentNumberOfTasks = @ - 1])

(* prvDeleteTCB frees the stack and the TCB, which heap_1.c cannot do: the *)
(* configASSERT of its vPortFree stops the system.                         *)
prvDeleteTCB(s) == configASSERT(s, FALSE, "vPortFree")

(* A task in an event list that a handler has pended is blocked as well.   *)
eTaskGetState(s, t) ==
    IF t = s.pxCurrentTCB THEN "eRunning"
    ELSE IF IsIn(t, s.delayed) \/ IsIn(t, s.overflow) THEN "eBlocked"
    ELSE IF IsIn(t, s.suspendedTasks)
    THEN IF InEventList(s, t) \/ s.ucNotifyState[t] = "waiting" THEN "eBlocked" ELSE "eSuspended"
    ELSE IF IsReady(s, t) THEN "eReady" ELSE "eDeleted"

(* xTaskAbortDelay once t is off its state list.  Only a task that waits   *)
(* for an event is told that its wait was aborted.                         *)
xTaskAbortDelay(s, t) ==
    LET told == [s EXCEPT !.ucDelayAborted[t] = @ \/ InEventList(s, t)]
    IN [prvAddTaskToReadyList(OffEventList(told, t), t)
        EXCEPT !.xYieldPending = @ \/ s.uxPriority[t] > Current(s)]

----------------------------------------------------------------------------
(* Notifications *)

Notified(s, t, action, value) ==
    LET was == s.ucNotifyState[t]
        old == s.ulNotifiedValue[t]
        new == CASE action = "eSetBits" -> old | value
                 [] action = "eIncrement" -> old + 1
                 [] action = "eSetValueWithOverwrite" -> value
                 [] action = "eSetValueWithoutOverwrite" -> IF was = "received" THEN old ELSE value
                 [] action = "eNoAction" -> old
    IN [s EXCEPT !.ucNotifyState[t] = "received", !.ulNotifiedValue[t] = new]

xTaskGenericNotify(s, t, action, value) ==
    LET set == Notified(s, t, action, value)
        readied == configASSERT(prvAddTaskToReadyList(OffStateList(set, t), t),
                                ~InEventList(s, t), "notified in an event list")
    IN IF s.ucNotifyState[t] = "waiting" THEN YieldIf(readied, s.uxPriority[t] > Current(s)) ELSE set

xTaskGenericNotifyFromISR(s, t, action, value) ==
    LET set == Notified(s, t, action, value)
        woken == s.ucNotifyState[t] = "waiting" /\ s.uxPriority[t] > Current(s)
        readied == configASSERT(ReadyOrPend(set, t), ~InEventList(s, t), "notified in an event list")
    IN [kernel |-> IF s.ucNotifyState[t] = "waiting" THEN [readied EXCEPT !.xYieldPending = @ \/ woken]
                   ELSE set,
        woken |-> woken]

vTaskGenericNotifyGiveFromISR(s, t) == xTaskGenericNotifyFromISR(s, t, "eIncrement", 0)

xTaskGenericNotifyStateClear(s, t) ==
    [s EXCEPT !.ucNotifyState[t] = IF @ = "received" THEN "none" ELSE @]

ulTaskGenericNotifyValueClear(s, t, bits) == [s EXCEPT !.ulNotifiedValue[t] = @ - (@ & bits)]

(* The two critical sections of xTaskGenericNotifyWait.  The first ends in *)
(* a yield when the task has been put in a delayed list.                   *)
NotifyWaits(s, clearOnEntry, n) ==
    LET t == s.pxCurrentTCB
        waiting == [ulTaskGenericNotifyValueClear(s, t, clearOnEntry) EXCEPT !.ucNotifyState[t] = "waiting"]
    IN IF s.ucNotifyState[t] = "received" THEN s
       ELSE IF n > 0 THEN Yield(prvAddCurrentTaskToDelayedList(waiting, n, TRUE))
       ELSE waiting

NotifyWaited(s, clearOnExit) ==
    LET t == s.pxCurrentTCB
        cleared == IF s.ucNotifyState[t] = "received" THEN ulTaskGenericNotifyValueClear(s, t, clearOnExit)
                   ELSE s
    IN [cleared EXCEPT !.ucNotifyState[t] = "none"]

(* The two critical sections of ulTaskGenericNotifyTake. *)
NotifyTakes(s, n) ==
    LET t == s.pxCurrentTCB
        waiting == [s EXCEPT !.ucNotifyState[t] = "waiting"]
    IN IF s.ulNotifiedValue[t] # 0 THEN s
       ELSE IF n > 0 THEN Yield(prvAddCurrentTaskToDelayedList(waiting, n, TRUE))
       ELSE waiting

NotifyTaken(s, clear) ==
    LET t == s.pxCurrentTCB
    IN [s EXCEPT !.ulNotifiedValue[t] = IF @ = 0 \/ clear THEN 0 ELSE @ - 1,
                 !.ucNotifyState[t] = "none"]

=============================================================================
