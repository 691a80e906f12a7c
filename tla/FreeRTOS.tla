------------------------------ MODULE FreeRTOS ------------------------------
(***************************************************************************)
(* The kernel with everything built on it: tasks and interrupt handlers    *)
(* that use queues, semaphores, mutexes, timers, an event group and a      *)
(* stream buffer, while the SysTick counts and tasks are switched.         *)
(***************************************************************************)
EXTENDS Timers, StreamBuffers

CONSTANTS Items,      \* what the queues can hold
          DataQueues  \* the queues used to hand items over

(* What queue.h asks of an application: the queues used to hand items over *)
(* are queues, not semaphores, items are only received from them, all      *)
(* calls for them are those for queues, and only a queue of one item is    *)
(* overwritten.                                                            *)
QueueRequests == {"xQueueSend", "xQueueReceive", "xQueuePeek", "xQueueReset"}
QueueInterrupts == {"xQueueSendFromISR", "xQueueReceiveFromISR", "xQueuePeekFromISR"}
SendsItem == {"xQueueSend", "xQueueSendFromISR"}
GetsItem == {"xQueueReceive", "xQueuePeek", "xQueueReceiveFromISR", "xQueuePeekFromISR"}

Sendable(q, with) == /\ with[1] \in Items
                     /\ \/ with[2] \in {"back", "front"}
                        \/ with[2] = "overwrite" /\ NewQueue[q].uxLength = 1

Proper(r, apis) == /\ r.api \in GetsItem => r.on \in DataQueues
                   /\ r.on \in DataQueues => r.api \in apis
                   /\ (r.on \in DataQueues /\ r.api \in SendsItem) => Sendable(r.on, r.with)

ASSUME QueuesAssumption ==
    /\ NoTask \notin Tasks /\ Handler \notin Tasks
    /\ DOMAIN NewQueue = QueueNames
    /\ ForBits \in EventLists
    /\ \A q \in QueueNames :
           /\ ToSend(q) \in EventLists /\ ToReceive(q) \in EventLists
           /\ LET new == NewQueue[q]
              IN new = Created(new.kind, new.uxLength, new.uxMessagesWaiting, "nothing")
    /\ \A q \in DataQueues :
           /\ q \in QueueNames
           /\ NewQueue[q].uxLength \in Nat \ {0}
           /\ NewQueue[q] = Created("queue", NewQueue[q].uxLength, 0, "nothing")
    /\ \A name \in DOMAIN Scenarios :
           LET s == Scenarios[name]
           IN /\ \A t \in Tasks : \A i \in DOMAIN s.program[t] : Proper(s.program[t][i], QueueRequests)
              /\ \A i \in DOMAIN s.interrupts : Proper(s.interrupts[i], QueueInterrupts)

(* What stream_buffer.h asks: one writer and one reader, be it a task or a *)
(* handler; and a buffer that a task reads is reset by no other task, who  *)
(* could do it between the reader's look at the buffer and its copy.       *)
Callers(s, apis) == {t \in Tasks : \E i \in DOMAIN s.program[t] : s.program[t][i].api \in apis}
                  \cup {h \in {Handler} : \E i \in DOMAIN s.interrupts : s.interrupts[i].api \in apis}

Writes == {"xStreamBufferSend", "xStreamBufferSendFromISR"}
Reads == {"xStreamBufferReceive", "xStreamBufferReceiveFromISR"}
Fitting(r) == /\ r.api \in Writes => r.with \in Seq(Nat)
              /\ r.api \in Reads => r.with \in Nat

ASSUME StreamAssumption ==
    /\ StreamLength \in Nat \ {0}
    /\ \A name \in DOMAIN Scenarios :
           LET s == Scenarios[name]
           IN /\ s.messages \in BOOLEAN
              /\ \A x, y \in Callers(s, Writes) : x = y
              /\ \A x, y \in Callers(s, Reads) : x = y
              /\ \A x \in Callers(s, Reads) \ {Handler}, y \in Callers(s, {"xStreamBufferReset"}) : x = y
              /\ \A t \in Tasks : \A i \in DOMAIN s.program[t] : Fitting(s.program[t][i])
              /\ \A i \in DOMAIN s.interrupts : Fitting(s.interrupts[i])

vars == <<taskVars, queueVars, groupVars, streamVars, timers>>

Init == TaskInit /\ QueueInit /\ GroupInit /\ StreamInit /\ TimerInit

KernelStep == TaskCall \/ CheckTasksWaitingTermination \/ IdleYield \/ PendSV \/ SysTick \/ TaskInterrupt

Next == \/ KernelStep /\ UNCHANGED <<queueVars, groupVars, streamVars, timers>>
        \/ (QueueCall \/ QueueInterrupt) /\ UNCHANGED <<groupVars, streamVars, timers>>
        \/ GroupCall /\ UNCHANGED <<queueVars, streamVars, timers>>
        \/ (StreamCall \/ StreamInterrupt) /\ UNCHANGED <<queueVars, groupVars, timers>>
        \/ TimerCall /\ UNCHANGED streamVars

Spec == Init /\ [][Next]_vars

----------------------------------------------------------------------------
(* Properties *)

Running == kernel.halted = "no" /\ kernel.uxSchedulerSuspended = 0

StateLists == <<kernel.delayed, kernel.overflow, kernel.suspendedTasks, kernel.tasksWaitingTermination>>
              \o [p \in 1 .. configMAX_PRIORITIES |-> kernel.ready[p - 1]]

InOneList(lists) ==
    \A l, m \in DOMAIN lists : \A i \in DOMAIN lists[l], j \in DOMAIN lists[m] :
        lists[l][i] = lists[m][j] => (l = m /\ i = j) \/ lists[l][i] = End

Sorted(list, value) == \A i, j \in DOMAIN list : i < j => value[list[i]] <= value[list[j]]

(* The lists of the kernel fit together whatever the calls that moved      *)
(* tasks between them: a task is in one state list at most and there once, *)
(* also when a tick, a wake-up and vTaskSuspend end its wait together; one *)
(* in an event list is not ready; the bitmap of ready priorities is that   *)
(* of the lists that are not empty; the delayed lists are in the order of  *)
(* the wake times, and the next unblock time is not behind the first.  No  *)
(* configASSERT fails but that of vPortFree.  (tasks.c, list.c)            *)
KernelLists ==
    /\ InOneList(StateLists)
    /\ \A list \in EventLists : \A t \in ToSet(kernel.events[list]) : ~IsReady(kernel, t)
    /\ kernel.uxTopReadyPriority = {p \in Priorities : Length(kernel.ready[p]) > 0}
    /\ Sorted(kernel.delayed, kernel.wake) /\ Sorted(kernel.overflow, kernel.wake)
    /\ \A t \in ToSet(kernel.delayed) : kernel.wake[t] >= kernel.xNextTaskUnblockTime
    /\ kernel.halted \in {"no", "vPortFree"}

(* taskSELECT_HIGHEST_PRIORITY_TASK finds a task in the list it takes for  *)
(* the highest: the configASSERT in it does not fail.  (tasks.c)           *)
NeverNothingToSelect == kernel.halted # "nothing to select"

(* The highest of the ready tasks runs, unless a switch is on its way or   *)
(* the scheduler is suspended, or the running task has just created        *)
(* another and not yet compared with it.  No wake-up by a task, a handler, *)
(* a tick or a pended tick forgets the switch.  (tasks.c, the yields of    *)
(* queue.c, event_groups.c and stream_buffer.c)                            *)
HighestRuns ==
    (Running /\ ~kernel.pendSV /\ ~kernel.xYieldPending
     /\ (me # Idle => call[me].stage # "created"))
        => \A t \in All : IsReady(kernel, t) => kernel.uxPriority[t] <= Current(kernel)

(* A task on its way to an object it was woken for. *)
Coming(q, apis) == \E t \in Tasks : /\ IsReady(kernel, t)
                                    /\ Request(t).api \in apis /\ Request(t).on = q
Blocked(t) == ~IsReady(kernel, t) /\ ~IsIn(t, kernel.pendingReady)

(* Nobody waits for what is there.  While a task is in the list of those   *)
(* that wait to receive, there is nothing in the queue, or another task is *)
(* on its way to it; in the list of those that wait to send, the queue is  *)
(* full, or so.  It is the counting of the locks that keeps this when a    *)
(* handler sends between the test of a task and its place in the list.     *)
(* (queue.c, prvUnlockQueue)                                               *)
QueueWakes ==
    Running => \A q \in QueueNames :
        /\ kernel.events[ToReceive(q)] # <<>> => Empty(queue[q]) \/ Coming(q, ReceiveCalls)
        /\ kernel.events[ToSend(q)] # <<>> => Full(queue[q]) \/ Coming(q, SendCalls)

(* No task waits in the event group for bits that are set.                 *)
(* (event_groups.c)                                                        *)
GroupWakes ==
    Running => \A t \in ToSet(kernel.events[ForBits]) :
        ~TestWaitCondition(uxEventBits, kernel.item[t].bits, "all" \in kernel.item[t].flags)

(* The reader and the writer of the buffer do not wait for one another: a  *)
(* reader that waits has too little to be told of, a writer that waits has *)
(* too little space, or the other one is about to tell it.  It is the      *)
(* clearing of the notification before the look at the buffer that keeps   *)
(* this when a handler writes between the two.  (stream_buffer.c)          *)
Tells(t) == call[t].stage \in {"written", "complete", "notify"}
Told(t) == kernel.ucNotifyState[t] = "waiting" /\ Blocked(t)
StreamWakes ==
    Running => \A t \in Tasks :
        (Told(t) /\ ~\E u \in Tasks : Tells(u))
            => /\ (Request(t).api \in StreamReceive) =>
                      /\ stream.xTaskWaitingToReceive = t
                      /\ BytesInBuffer < stream.xTriggerLevelBytes
               /\ (Request(t).api \in StreamSend) =>
                      /\ stream.xTaskWaitingToSend = t
                      /\ SpacesAvailable < RequiredSpace(Request(t).with)

NoLostWakeup == QueueWakes /\ GroupWakes /\ StreamWakes

(* A wait lasts as long as it was asked for, also across the wrap of the   *)
(* tick count, ticks that come while the scheduler is suspended and waits  *)
(* that are begun anew: a task that is delayed will be readied when the    *)
(* rest of its time has passed, and a call whose time is up has waited all *)
(* of it.  Only a stream buffer's wait may be longer, by the ticks between *)
(* its look at the buffer and its xTaskNotifyWait; TimersExact has the     *)
(* waits of the timer task.  (xTaskIncrementTick, xTaskCheckForTimeOut)    *)
TimeoutsExact ==
    /\ \A t \in ToSet(kernel.delayed) \cup ToSet(kernel.overflow) :
           LET rest == Minus(kernel.wake[t], kernel.xTickCount)
               asked == left[t] + kernel.xPendedTicks
           IN CASE Request(t).api \in StreamSend \cup StreamReceive -> rest >= asked
                [] Request(t).api = "prvTimerTask" -> TRUE
                [] OTHER -> rest = asked
    /\ \A t \in Tasks : call[t].outcome = "expired" => left[t] <= 0

IsMutex(q) == queue[q].kind = "mutex" /\ queue[q].holder # NoTask

(* A task that holds a mutex runs at least at the priority of all that     *)
(* wait for it, also when one of them gives up, and at its own again when  *)
(* it holds none.  (xTaskPriorityInherit, xTaskPriorityDisinherit,         *)
(* vTaskPriorityDisinheritAfterTimeout)                                    *)
InheritanceHolds ==
    /\ Running => \A q \in QueueNames : IsMutex(q) =>
           \A t \in ToSet(kernel.events[ToReceive(q)]) :
               kernel.uxPriority[queue[q].holder] >= kernel.uxBasePriority[t]
    /\ \A t \in Tasks : kernel.uxMutexesHeld[t] = 0 => kernel.uxPriority[t] = kernel.uxBasePriority[t]

(* Where all tasks meet, none leaves its n-th rendezvous before every task *)
(* has come to it, and none waits once they all have: the last to come     *)
(* sets the bits of the others free and must not wait for them itself.     *)
(* (xEventGroupSync)                                                       *)
AllMeet == \A t \in Tasks : Program(t)[1].api = "xEventGroupSync"
Rendezvous ==
    AllMeet => /\ \A t, u \in Tasks : met[t] <= arrived[u]
               /\ \A t \in ToSet(kernel.events[ForBits]) : \E u \in Tasks : arrived[u] < arrived[t]

(* What was received is what was sent, in that order, and all that is left *)
(* of it is in the buffer: nothing is overwritten before it is read, and a *)
(* full buffer is not taken for an empty one.  (stream_buffer.c)           *)
StreamInOrder == /\ IsPrefix(received, sent)
                 /\ ~IsMessageBuffer => sent = received \o BytesAt(stream.xTail, BytesInBuffer)

(* The callback of a timer is called once for each time it expires, never  *)
(* early, also when its command has waited in the queue for more than its  *)
(* period or across the wrap of the tick count; and when the timer task    *)
(* waits, no expiry is behind, and just the active timers will expire.     *)
(* (prvInsertTimerInActiveList, prvSwitchTimerLists, prvSampleTimeNow)     *)
TimersExact ==
    /\ ~timers.early
    /\ \A t \in Tasks : (Running /\ Request(t).api = "prvTimerTask" /\ Blocked(t)) =>
           \A m \in Timers : /\ timers.active[m] <=> timers.due[m] # 0
                             /\ timers.active[m] => Clock < timers.due[m]

F == INSTANCE Fifo WITH Names <- DataQueues,
                        Items <- Items,
                        Users <- Tasks \cup {Handler},
                        Capacity <- [q \in DataQueues |-> NewQueue[q].uxLength],
                        contents <- [q \in DataQueues |-> Contents(queue[q])]

(* The queues implement bounded sequences. *)
QueueIsFifo == F!Spec

=============================================================================
