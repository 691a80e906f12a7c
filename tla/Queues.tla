------------------------------- MODULE Queues -------------------------------
(***************************************************************************)
(* queue.c: queues, binary semaphores and mutexes with blocking calls, and *)
(* the calls of interrupt handlers.  A queue is a ring of items between    *)
(* pcWriteTo and pcReadFrom; a semaphore and a mutex store nothing.        *)
(*                                                                         *)
(* A task that finds nothing to do in its first critical section goes on   *)
(* with the scheduler suspended and the queue locked: an interrupt handler *)
(* that uses the queue then leaves its event lists alone and only counts   *)
(* in cTxLock and cRxLock, for prvUnlockQueue to make up for.              *)
(*                                                                         *)
(* An operator named X_Fault is a faulty variant of the definition X.      *)
(***************************************************************************)
EXTENDS TaskCalls

CONSTANTS QueueNames,
          NewQueue,     \* the queues after their creation, see Created
          NoTask        \* NULL of xMutexHolder

VARIABLES queue,   \* the Queue_t of each queue
          buffer   \* the last item each task, or an interrupt handler, got

queueVars == <<queue, buffer>>

Handler == "ISR"
queueUNLOCKED == -1

ToSend(q) == <<q, "send">>        \* xTasksWaitingToSend
ToReceive(q) == <<q, "receive">>  \* xTasksWaitingToReceive

(* xQueueGenericCreate, prvInitialiseNewQueue, xQueueGenericReset; and for *)
(* a mutex prvInitialiseMutex, which makes it available by a first give.   *)
Created(kind, length, n, nothing) ==
    [kind |-> kind, uxLength |-> length, uxMessagesWaiting |-> n,
     store |-> [i \in 0 .. length - 1 |-> nothing],
     write |-> 0, read |-> length - 1,
     cTxLock |-> queueUNLOCKED, cRxLock |-> queueUNLOCKED,
     holder |-> NoTask, uxRecursiveCallCount |-> 0]

xQueueCreateCountingSemaphore(uxMaxCount, uxInitialCount) ==
    Created("semaphore", uxMaxCount, uxInitialCount, "nothing")

QueueInit == /\ queue = NewQueue
             /\ buffer = [t \in Tasks \cup {Handler} |-> "nothing"]

----------------------------------------------------------------------------
(* Items in and out *)

Full(Q) == Q.uxMessagesWaiting = Q.uxLength
Empty(Q) == Q.uxMessagesWaiting = 0
Next1(Q, i) == (i + 1) % Q.uxLength
Previous1(Q, i) == (i - 1) % Q.uxLength

(* The items of a queue, the next to be received first. *)
Contents(Q) == [i \in 1 .. Q.uxMessagesWaiting |-> Q.store[(Q.read + i) % Q.uxLength]]

(* prvCopyDataToQueue of an item: at the back, or where it is read next,   *)
(* which for queueOVERWRITE is the one item the queue has.                 *)
Stored_FrontAfterRead(Q, item, position) ==
    IF position = "back"
    THEN [Q EXCEPT !.store[Q.write] = item, !.write = Next1(Q, @), !.uxMessagesWaiting = @ + 1]
    ELSE [Q EXCEPT !.store[Next1(Q, Q.read)] = item, !.read = Previous1(Q, @),
                   !.uxMessagesWaiting = IF position = "overwrite" /\ @ > 0 THEN @ ELSE @ + 1]

Stored(Q, item, position) ==
    IF position = "back"
    THEN [Q EXCEPT !.store[Q.write] = item, !.write = Next1(Q, @), !.uxMessagesWaiting = @ + 1]
    ELSE [Q EXCEPT !.store[Q.read] = item, !.read = Previous1(Q, @),
                   !.uxMessagesWaiting = IF position = "overwrite" /\ @ > 0 THEN @ ELSE @ + 1]

(* prvCopyDataToQueue, which for a mutex gives it back. *)
prvCopyDataToQueue(s, Q, item, position) ==
    LET r == IF Q.kind = "mutex" /\ Q.holder # NoTask THEN xTaskPriorityDisinherit(s, Q.holder)
             ELSE [kernel |-> s, lowered |-> FALSE]
    IN [kernel |-> r.kernel, yields |-> r.lowered,
        queue |-> IF Q.kind = "queue" THEN Stored(Q, item, position)
                  ELSE [Q EXCEPT !.uxMessagesWaiting = @ + 1, !.holder = NoTask]]

(* prvCopyDataFromQueue reads the item after pcReadFrom. *)
NextItem(Q) == Q.store[Next1(Q, Q.read)]

Taken(Q) == [Q EXCEPT !.uxMessagesWaiting = @ - 1,
                      !.read = IF Q.kind = "queue" THEN Next1(Q, @) ELSE @]

----------------------------------------------------------------------------
(* The calls of tasks, by their critical sections *)

SendCalls == {"xQueueSend", "xTimerGenericCommand", "xTimerPendFunctionCall"}
TakeCalls == {"xQueueSemaphoreTake", "xQueueTakeMutexRecursive"}
ReceiveCalls == {"xQueueReceive", "xQueuePeek"} \cup TakeCalls
QueueCalls == SendCalls \cup ReceiveCalls
UnlockCalls == QueueCalls \cup {"prvTimerTask"}

Q == queue[Now.on]
SetQueue(new) == queue' = [queue EXCEPT ![Now.on] = new]
Gets(item) == buffer' = [buffer EXCEPT ![me] = item]

(* The item of a send; the start of a timer bears the time of the call. *)
Stamped(command, tick) == IF command.id \in {"start", "reset"} THEN [command EXCEPT !.value = tick] ELSE command
Item == IF Now.api = "xTimerGenericCommand" THEN Stamped(Now.with[1], call[me].space) ELSE Now.with[1]

(* A recursive mutex is taken again, or given back but not for the last    *)
(* time, by its holder; any other call that gives it fails.                *)
Again == Now.api = "xQueueTakeMutexRecursive" /\ Q.holder = me

CanSend == ~Full(Q) \/ Now.with[2] = "overwrite"
CanProceed == IF Now.api \in SendCalls THEN CanSend ELSE Again \/ ~Empty(Q)

(* xQueueGenericSend with room: a waiting receiver is readied, else the    *)
(* giver of a mutex yields if that has lowered its priority.  xSemaphoreGive *)
(* is this call, without an item and without waiting.                      *)
xQueueGenericSend ==
    /\ \/ InCall(SendCalls, "start") /\ CanSend
       \/ InCall({"xQueueGiveMutexRecursive"}, "start") /\ Q.holder = me /\ Q.uxRecursiveCallCount = 1
    /\ LET c == prvCopyDataToQueue(kernel, Q, Item, Now.with[2])
           waiting == kernel.events[ToReceive(Now.on)] # <<>>
       IN /\ Step(IF waiting THEN WakeOneAndYield(c.kernel, ToReceive(Now.on))
                  ELSE YieldIf(c.kernel, c.yields))
          /\ SetQueue([c.queue EXCEPT !.uxRecursiveCallCount = 0])
    /\ Return
    /\ UNCHANGED <<buffer, left>> /\ Unserved

xQueueGiveMutexRecursive ==
    /\ InCall({"xQueueGiveMutexRecursive"}, "start")
    /\ \/ Q.holder # me /\ UNCHANGED queue
       \/ /\ Q.holder = me /\ Q.uxRecursiveCallCount > 1
          /\ SetQueue([Q EXCEPT !.uxRecursiveCallCount = @ - 1])
    /\ Return
    /\ UNCHANGED <<kernel, buffer, left>> /\ Unserved

xQueueTakeMutexRecursive ==
    /\ InCall({"xQueueTakeMutexRecursive"}, "start") /\ Again
    /\ SetQueue([Q EXCEPT !.uxRecursiveCallCount = @ + 1])
    /\ Return
    /\ UNCHANGED <<kernel, buffer, left>> /\ Unserved

(* xQueueReceive of an item, xQueueSemaphoreTake of a semaphore or mutex. *)
xQueueReceive ==
    /\ InCall({"xQueueReceive"} \cup TakeCalls, "start") /\ ~Empty(Q)
    /\ LET mutex == Q.kind = "mutex"
           taken == IF mutex THEN pvTaskIncrementMutexHeldCount(kernel) ELSE kernel
       IN /\ Step(WakeOneAndYield(taken, ToSend(Now.on)))
          /\ SetQueue([Taken(Q) EXCEPT !.holder = IF mutex THEN me ELSE NoTask,
                                       !.uxRecursiveCallCount =
                                           IF Now.api = "xQueueTakeMutexRecursive" THEN @ + 1 ELSE @])
    /\ IF Now.api = "xQueueReceive" THEN Gets(NextItem(Q)) ELSE UNCHANGED buffer
    /\ Return
    /\ UNCHANGED left /\ Unserved

(* The item stays, so that another task that waits for one can have it. *)
xQueuePeek ==
    /\ InCall({"xQueuePeek"}, "start") /\ ~Empty(Q)
    /\ Step(WakeOneAndYield(kernel, ToReceive(Now.on)))
    /\ Gets(NextItem(Q))
    /\ Return
    /\ UNCHANGED <<queue, left>> /\ Unserved

(* errQUEUE_FULL, errQUEUE_EMPTY.  A task that has not got a mutex does not *)
(* give it back: its program leaves out the call that follows.             *)
Fails == IF Q.kind = "mutex" THEN Set(Enter(Program(me), call[me].pc + 2)) ELSE Return

(* Nothing to do: the call fails, or notes the time it has begun to wait. *)
QueueFails ==
    /\ InCall(QueueCalls, "start") /\ ~CanProceed /\ call[me].ticks = 0
    /\ Fails
    /\ UNCHANGED <<kernel, queue, buffer, left>> /\ Unserved

QueueMustWait ==
    /\ InCall(QueueCalls, "start") /\ ~CanProceed /\ call[me].ticks # 0
    /\ IF call[me].set
       THEN Goto("suspend") /\ UNCHANGED left
       ELSE /\ Set([call[me] EXCEPT !.stage = "suspend", !.set = TRUE, !.since = TimeOutState(kernel)])
            /\ WaitBegins
    /\ UNCHANGED <<kernel, queue, buffer>> /\ Unserved

Lock(n) == IF n = queueUNLOCKED THEN 0 ELSE n

prvLockQueue ==
    /\ \/ InCall(QueueCalls, "body") /\ Goto("check")
       \/ InCall({"prvTimerTask"}, "lock") /\ Goto("test")
    /\ SetQueue([Q EXCEPT !.cRxLock = Lock(@), !.cTxLock = Lock(@)])
    /\ UNCHANGED <<kernel, buffer, left>> /\ Unserved

QueueCheckForTimeOut ==
    /\ InCall(QueueCalls, "check")
    /\ LET c == call[me]
       IN IF Aborted(kernel)
          THEN Set([c EXCEPT !.stage = "unlockTx", !.outcome = "aborted"])
          ELSE IF TimedOut(kernel, c.since, c.ticks)
          THEN Set([c EXCEPT !.stage = "unlockTx", !.outcome = "expired", !.ticks = 0])
          ELSE Set([c EXCEPT !.stage = "test",
                             !.ticks = TicksLeft(kernel, c.since, @),
                             !.since = IF c.ticks = portMAX_DELAY THEN @ ELSE TimeOutState(kernel)])
    /\ Step(Checked(kernel))
    /\ UNCHANGED <<queue, buffer, left>> /\ Unserved

(* prvIsQueueFull, prvIsQueueEmpty *)
StillBlocked == IF Now.api \in SendCalls THEN Full(Q) ELSE Empty(Q)

QueueTest ==
    /\ InCall(QueueCalls, "test")
    /\ IF ~StillBlocked THEN Set([call[me] EXCEPT !.stage = "unlockTx", !.outcome = "retry"])
       ELSE IF Q.kind = "mutex" /\ Now.api \in TakeCalls THEN Goto("inherit")
       ELSE Goto("place")
    /\ UNCHANGED <<kernel, queue, buffer, left>> /\ Unserved

QueueInherit ==
    /\ InCall(QueueCalls, "inherit")
    /\ LET r == xTaskPriorityInherit(kernel, Q.holder)
       IN /\ Step(r.kernel)
          /\ Set([call[me] EXCEPT !.stage = "place", !.inherited = r.inherited])
    /\ UNCHANGED <<queue, buffer, left>> /\ Unserved

QueuePlace ==
    /\ InCall(QueueCalls, "place")
    /\ Step(vTaskPlaceOnEventList(kernel,
                IF Now.api \in SendCalls THEN ToSend(Now.on) ELSE ToReceive(Now.on), call[me].ticks))
    /\ Set([call[me] EXCEPT !.stage = "unlockTx", !.outcome = "blocked"])
    /\ UNCHANGED <<queue, buffer, left>> /\ Unserved

(* prvUnlockQueue readies as many waiting tasks as there were calls from   *)
(* interrupt handlers while the queue was locked; vTaskMissedYield.        *)
WakeMissed(s, list) == LET w == WakeOne(s, list)
                       IN [w.kernel EXCEPT !.xYieldPending = @ \/ w.woken]

MakeUp_Not(s, list, n) == s
MakeUp(s, list, n) ==
    LET After[i \in 0 .. n] == IF i = 0 THEN s ELSE WakeMissed(After[i - 1], list)
    IN IF n > 0 THEN After[n] ELSE s

QueueUnlockTx ==
    /\ InCall(UnlockCalls, "unlockTx")
    /\ Step(MakeUp(kernel, ToReceive(Now.on), Q.cTxLock))
    /\ SetQueue([Q EXCEPT !.cTxLock = queueUNLOCKED])
    /\ Goto("unlockRx")
    /\ UNCHANGED <<buffer, left>> /\ Unserved

QueueUnlockRx ==
    /\ InCall(UnlockCalls, "unlockRx")
    /\ Step(MakeUp(kernel, ToSend(Now.on), Q.cRxLock))
    /\ SetQueue([Q EXCEPT !.cRxLock = queueUNLOCKED])
    /\ Goto("resume")
    /\ UNCHANGED <<buffer, left>> /\ Unserved

(* After xTaskResumeAll: the next round of the loop, or the time is up.  A *)
(* late item is still received, but a send fails at once.                  *)
QueueAfter ==
    /\ InCall(QueueCalls, "after")
    /\ IF call[me].outcome \notin {"expired", "aborted"}
       THEN Set([call[me] EXCEPT !.stage = "start", !.outcome = "none"])
       ELSE IF Now.api \in SendCalls THEN Return
       ELSE IF ~Empty(Q) THEN Set([call[me] EXCEPT !.stage = "start", !.outcome = "none"])
       ELSE IF call[me].inherited THEN Goto("disinherit")
       ELSE Fails
    /\ UNCHANGED <<kernel, queue, buffer, left>> /\ Unserved

(* prvGetDisinheritPriorityAfterTimeout *)
HighestWaiting_None(s, list) == 0
HighestWaiting(s, list) == IF s.events[list] = <<>> THEN 0
                           ELSE configMAX_PRIORITIES - s.rank[Head(s.events[list])]

QueueDisinherit ==
    /\ InCall(QueueCalls, "disinherit")
    /\ Step(IF Q.holder = NoTask THEN kernel
            ELSE vTaskPriorityDisinheritAfterTimeout(kernel, Q.holder,
                     HighestWaiting(kernel, ToReceive(Now.on))))
    /\ Fails
    /\ UNCHANGED <<queue, buffer, left>> /\ Unserved

(* xQueueReset *)
xQueueGenericReset ==
    /\ InCall({"xQueueReset"}, "start")
    /\ SetQueue([Q EXCEPT !.uxMessagesWaiting = 0, !.write = 0, !.read = Q.uxLength - 1,
                          !.cRxLock = queueUNLOCKED, !.cTxLock = queueUNLOCKED])
    /\ Step(WakeOneAndYield(kernel, ToSend(Now.on)))
    /\ Return
    /\ UNCHANGED <<buffer, left>> /\ Unserved

QueueCall == \/ xQueueGenericSend \/ xQueueGiveMutexRecursive \/ xQueueTakeMutexRecursive
             \/ xQueueReceive \/ xQueuePeek \/ QueueFails \/ QueueMustWait
             \/ prvLockQueue \/ QueueCheckForTimeOut \/ QueueTest \/ QueueInherit \/ QueuePlace
             \/ QueueUnlockTx \/ QueueUnlockRx \/ QueueAfter \/ QueueDisinherit \/ xQueueGenericReset

----------------------------------------------------------------------------
(* The calls of interrupt handlers *)

(* prvIncrementQueueTxLock, prvIncrementQueueRxLock: never more than there *)
(* are tasks to ready.                                                     *)
Counted(n) == IF n < kernel.uxCurrentNumberOfTasks THEN n + 1 ELSE n

IsrQ == queue[ISR.on]

xQueueGenericSendFromISR(item, position) ==
    /\ IF Full(IsrQ) /\ position # "overwrite"
       THEN Serve([kernel |-> kernel, woken |-> FALSE]) /\ UNCHANGED queue
       ELSE LET c == prvCopyDataToQueue(kernel, IsrQ, item, position)
                locked == IsrQ.cTxLock # queueUNLOCKED
            IN /\ Serve(IF locked THEN [kernel |-> c.kernel, woken |-> FALSE]
                        ELSE WakeOne(c.kernel, ToReceive(ISR.on)))
               /\ queue' = [queue EXCEPT ![ISR.on] =
                                IF locked THEN [c.queue EXCEPT !.cTxLock = Counted(@)] ELSE c.queue]
    /\ UNCHANGED buffer

xQueueSendFromISR == /\ Interrupt({"xQueueSendFromISR"})
                     /\ xQueueGenericSendFromISR(ISR.with[1], ISR.with[2])

xQueueGiveFromISR ==
    /\ Interrupt({"xQueueGiveFromISR"})
    /\ IF Full(IsrQ) THEN Serve([kernel |-> kernel, woken |-> FALSE]) /\ UNCHANGED queue
       ELSE LET locked == IsrQ.cTxLock # queueUNLOCKED
            IN /\ Serve(IF locked THEN [kernel |-> kernel, woken |-> FALSE]
                        ELSE WakeOne(kernel, ToReceive(ISR.on)))
               /\ queue' = [queue EXCEPT ![ISR.on].uxMessagesWaiting = @ + 1,
                                         ![ISR.on].cTxLock = IF locked THEN Counted(@) ELSE @]
    /\ UNCHANGED buffer

xQueueReceiveFromISR ==
    /\ Interrupt({"xQueueReceiveFromISR"})
    /\ IF Empty(IsrQ)
       THEN Serve([kernel |-> kernel, woken |-> FALSE]) /\ UNCHANGED <<queue, buffer>>
       ELSE LET locked == IsrQ.cRxLock # queueUNLOCKED
            IN /\ Serve(IF locked THEN [kernel |-> kernel, woken |-> FALSE]
                        ELSE WakeOne(kernel, ToSend(ISR.on)))
               /\ queue' = [queue EXCEPT ![ISR.on] =
                                IF locked THEN [Taken(IsrQ) EXCEPT !.cRxLock = Counted(@)] ELSE Taken(IsrQ)]
               /\ buffer' = [buffer EXCEPT ![Handler] = NextItem(IsrQ)]

xQueuePeekFromISR ==
    /\ Interrupt({"xQueuePeekFromISR"})
    /\ Serve([kernel |-> kernel, woken |-> FALSE])
    /\ buffer' = IF Empty(IsrQ) THEN buffer ELSE [buffer EXCEPT ![Handler] = NextItem(IsrQ)]
    /\ UNCHANGED queue

QueueInterrupt == \/ xQueueSendFromISR \/ xQueueGiveFromISR
                  \/ xQueueReceiveFromISR \/ xQueuePeekFromISR

=============================================================================
