------------------------------- MODULE Timers -------------------------------
(***************************************************************************)
(* timers.c, as it is built when configUSE_TIMERS and                      *)
(* INCLUDE_xTimerPendFunctionCall are 1: the timer task, to which calls    *)
(* send commands through a queue, and the two lists it keeps the running   *)
(* timers in, those that expire before the tick count wraps and those that *)
(* expire after.  The calls are sends of Queues with a command for item.   *)
(*                                                                         *)
(* A command is a record of what to do (id), the timer, and a value: the   *)
(* time of the call for a start, the new period for a change, the bits to  *)
(* set for a pended function, which is vEventGroupSetBitsCallback.  What   *)
(* the callback of a timer does is left out.                               *)
(*                                                                         *)
(* An operator named X_Fault is a faulty variant of the definition X.      *)
(***************************************************************************)
EXTENDS Queues, EventGroups

CONSTANTS Timers,
          NewTimer,    \* the period and the reload mode of each new timer
          TimerQueue   \* xTimerQueue

VARIABLE timers  \* the variables of timers.c, and the history of the timers:
                 \* when each is due, not wrapped, 0 if never; and whether a
                 \* callback was called early

(* prvInitialiseNewTimer, prvCheckForValidListAndQueue *)
NewTimers ==
    [period |-> [m \in Timers |-> NewTimer[m].period],
     reload |-> [m \in Timers |-> NewTimer[m].reload],
     active |-> [m \in Timers |-> FALSE],
     value |-> [m \in Timers |-> 0],
     current |-> <<>>, overflow |-> <<>>, xLastTime |-> 0,
     xNextExpireTime |-> 0, xListWasEmpty |-> TRUE, xTimeNow |-> 0, xMessage |-> <<>>,
     due |-> [m \in Timers |-> 0], early |-> FALSE]

TimerInit == timers = NewTimers

(* The time that does not wrap, and when the tick count was last "tick". *)
Clock == scenario.firstTick + ticks - kernel.xPendedTicks
Since(tick) == Clock - Minus(kernel.xTickCount, tick)

----------------------------------------------------------------------------
(* The lists of timers.  The operators take timers and give them after.    *)

(* The callback of m is called n times. *)
Called(s, m, n) ==
    [s EXCEPT !.due[m] = IF s.reload[m] THEN @ + n * s.period[m] ELSE 0,
              !.early = @ \/ (n > 0 /\ (s.due[m] = 0 \/ Clock < s.due[m] + (n - 1) * s.period[m]))]

(* Whether a timer that was commanded at one time to expire at the other   *)
(* has already expired now; either may be after the wrap.                  *)
Expired_NoWrap(s, m, next, now, command) ==
    next <= now /\ Minus(now, command) >= s.period[m]
Expired(s, m, next, now, command) ==
    IF next <= now THEN Minus(now, command) >= s.period[m]
    ELSE now < command /\ next >= command

(* prvInsertTimerInActiveList *)
Inserted(s, m, next, now, command) ==
    LET set == [s EXCEPT !.value[m] = next]
    IN IF Expired(s, m, next, now, command) THEN set
       ELSE IF next <= now THEN [set EXCEPT !.overflow = InsertByValue(@, m, set.value)]
       ELSE [set EXCEPT !.current = InsertByValue(@, m, set.value)]

(* The loop of prvReloadTimer ends after k calls, with the first expiry    *)
(* that is still to come.                                                  *)
prvReloadTimer(s, m, expired, now) ==
    LET At(k) == Plus(expired, k * s.period[m])
        k == Min({j \in 0 .. portMAX_DELAY + 1 : ~Expired(s, m, At(j + 1), now, At(j))})
    IN Inserted(Called(s, m, k), m, At(k + 1), now, At(k))

(* What follows the expiry of a timer that is in no list. *)
ExpireAndCall(s, m, expired, now) ==
    Called(IF s.reload[m] THEN prvReloadTimer(s, m, expired, now) ELSE [s EXCEPT !.active[m] = FALSE], m, 1)

prvProcessExpiredTimer(s, next, now) ==
    ExpireAndCall([s EXCEPT !.current = Tail(@)], Head(s.current), next, now)

(* All that are left in the current list have expired before the wrap. *)
prvSwitchTimerLists(s) ==
    LET Process(u, m) == prvProcessExpiredTimer(u, u.value[m], portMAX_DELAY)
        done == FoldLeft(Process, s, s.current)
    IN [done EXCEPT !.current = done.overflow, !.overflow = done.current]

(* prvSampleTimeNow *)
HasWrapped(s) == kernel.xTickCount < s.xLastTime
Sampled(s) == [(IF HasWrapped(s) THEN prvSwitchTimerLists(s) ELSE s) EXCEPT !.xLastTime = kernel.xTickCount]

(* A command of prvProcessReceivedCommands, done to timers whose time has  *)
(* been sampled and whose timer m is in no list.                           *)
Started(s, m, at) ==
    LET set == [s EXCEPT !.active[m] = TRUE, !.due[m] = Since(at) + s.period[m]]
        next == Plus(at, s.period[m])
        now == kernel.xTickCount
        inserted == Inserted(set, m, next, now, at)
    IN IF Expired(set, m, next, now, at) THEN ExpireAndCall(inserted, m, next, now) ELSE inserted

Changed(s, m, period) ==
    LET now == kernel.xTickCount
    IN Inserted([s EXCEPT !.active[m] = TRUE, !.period[m] = period, !.due[m] = Clock + period],
                m, Plus(now, period), now, now)

Stopped(s, m) == [s EXCEPT !.active[m] = FALSE, !.due[m] = 0]

----------------------------------------------------------------------------
(* The calls of tasks and handlers *)

(* The call of a handler is xTimerPendFunctionCallFromISR. *)
SetBitsLater(bits) == [id |-> "callback", timer |-> "none", value |-> bits]

xTimerGenericCommandFromISR ==
    /\ Interrupt({"xTimerGenericCommandFromISR"})
    /\ xQueueGenericSendFromISR(Stamped(ISR.with[1], kernel.xTickCount), "back")
    /\ UNCHANGED <<groupVars, timers>>

xEventGroupSetBitsFromISR ==
    /\ Interrupt({"xEventGroupSetBitsFromISR"})
    /\ xQueueGenericSendFromISR(SetBitsLater(ISR.with), "back")
    /\ UNCHANGED <<groupVars, timers>>

(* xTimerStart, xTimerReset take the time before they send. *)
xTimerGenericCommand ==
    /\ InCall({"xTimerGenericCommand"}, "command")
    /\ Set([call[me] EXCEPT !.stage = "start", !.space = kernel.xTickCount])
    /\ UNCHANGED <<kernel, queueVars, groupVars, timers, left>> /\ Unserved

(* The timer task changes ucStatus outside a critical section: when it has *)
(* been preempted on its way to write it back, this call has no effect.    *)
WritesStatus(t) ==
    /\ Request(t).api = "prvTimerTask"
    /\ \/ call[t].stage = "process" /\ timers.xMessage.id # "callback"
       \/ call[t].stage = "after" /\ call[t].outcome = "due" /\ ~timers.reload[Head(timers.current)]

vTimerSetReloadMode ==
    /\ InCall({"vTimerSetReloadMode"}, "start")
    /\ \/ timers' = [timers EXCEPT !.reload[Now.on] = Now.with]
       \/ (\E t \in Tasks : WritesStatus(t)) /\ UNCHANGED timers
    /\ Return
    /\ UNCHANGED <<kernel, queueVars, groupVars, left>> /\ Unserved

----------------------------------------------------------------------------
(* prvTimerTask *)

prvGetNextExpireTime ==
    /\ InCall({"prvTimerTask"}, "start")
    /\ LET none == timers.current = <<>>
       IN timers' = [timers EXCEPT !.xListWasEmpty = none,
                                   !.xNextExpireTime = IF none THEN 0 ELSE timers.value[Head(timers.current)]]
    /\ Goto("suspend")
    /\ UNCHANGED <<kernel, queueVars, groupVars, left>> /\ Unserved

(* prvProcessTimerOrBlockTask with the scheduler suspended. *)
SampleTime ==
    /\ InCall({"prvTimerTask"}, "body")
    /\ timers' = [Sampled(timers) EXCEPT !.xTimeNow = kernel.xTickCount]
    /\ IF HasWrapped(timers) THEN Goto("resume")
       ELSE IF ~timers.xListWasEmpty /\ timers.xNextExpireTime <= kernel.xTickCount
       THEN Set([call[me] EXCEPT !.stage = "resume", !.outcome = "due"])
       ELSE Goto("lock")
    /\ UNCHANGED <<kernel, queueVars, groupVars, left>> /\ Unserved

(* vQueueWaitForMessageRestricted; the caller yields in either case. *)
QueueIsEmpty ==
    /\ InCall({"prvTimerTask"}, "test")
    /\ Set([call[me] EXCEPT !.stage = IF Empty(Q) THEN "wait" ELSE "unlockTx", !.outcome = "blocked"])
    /\ UNCHANGED <<kernel, queueVars, groupVars, timers, left>> /\ Unserved

vTaskPlaceOnEventListRestricted ==
    /\ InCall({"prvTimerTask"}, "wait")
    /\ LET forever == timers.xListWasEmpty /\ timers.overflow = <<>>
           n == IF forever THEN portMAX_DELAY ELSE Minus(timers.xNextExpireTime, timers.xTimeNow)
       IN Step(prvAddCurrentTaskToDelayedList([kernel EXCEPT !.events[ToReceive(TimerQueue)] = Append(@, me)],
                                              n, forever))
    /\ Goto("unlockTx")
    /\ UNCHANGED <<queueVars, groupVars, timers, left>> /\ Unserved

ProcessExpired ==
    /\ InCall({"prvTimerTask"}, "after")
    /\ timers' = IF call[me].outcome = "due"
                 THEN prvProcessExpiredTimer(timers, timers.xNextExpireTime, timers.xTimeNow)
                 ELSE timers
    /\ Goto("commands")
    /\ UNCHANGED <<kernel, queueVars, groupVars, left>> /\ Unserved

(* prvProcessReceivedCommands: xQueueReceive without waiting ... *)
ReceiveCommand ==
    /\ InCall({"prvTimerTask"}, "commands")
    /\ IF Empty(Q) THEN Return /\ UNCHANGED <<kernel, queue, timers>>
       ELSE /\ Step(WakeOneAndYield(kernel, ToSend(TimerQueue)))
            /\ SetQueue(Taken(Q))
            /\ timers' = [timers EXCEPT !.xMessage = NextItem(Q)]
            /\ Goto("process")
    /\ UNCHANGED <<buffer, groupVars, left>> /\ Unserved

(* ... and what it asks for.  A deleted timer is freed, which heap_1.c     *)
(* cannot do.                                                              *)
ProcessCommand ==
    /\ InCall({"prvTimerTask"}, "process") /\ timers.xMessage.id # "callback"
    /\ LET c == timers.xMessage
           m == c.timer
           sampled == Sampled([timers EXCEPT !.current = Without(@, m), !.overflow = Without(@, m)])
       IN /\ timers' = CASE c.id \in {"start", "reset"} -> Started(sampled, m, c.value)
                         [] c.id = "changePeriod" -> Changed(sampled, m, c.value)
                         [] c.id \in {"stop", "delete"} -> Stopped(sampled, m)
          /\ Step(configASSERT(kernel, c.id # "delete", "vPortFree"))
    /\ Goto("commands")
    /\ UNCHANGED <<queueVars, groupVars, left>> /\ Unserved

vEventGroupSetBitsCallback(bits) ==
    LET r == SetBits(vTaskSuspendAll(kernel), uxEventBits | bits)
    IN Step(xTaskResumeAll(r.kernel).kernel) /\ uxEventBits' = r.bits

(* A pended function: the xEventGroupSetBits that a handler has asked for, *)
(* here without the interrupts that come while it suspends the scheduler.  *)
CallPended ==
    /\ InCall({"prvTimerTask"}, "process") /\ timers.xMessage.id = "callback"
    /\ vEventGroupSetBitsCallback(timers.xMessage.value)
    /\ Goto("commands")
    /\ UNCHANGED <<queueVars, arrived, met, timers, left>> /\ Unserved

prvTimerTask == \/ prvGetNextExpireTime \/ SampleTime \/ QueueIsEmpty \/ vTaskPlaceOnEventListRestricted
                \/ ProcessExpired \/ ReceiveCommand \/ ProcessCommand \/ CallPended

TimerCall == \/ xTimerGenericCommand \/ vTimerSetReloadMode \/ prvTimerTask
             \/ xTimerGenericCommandFromISR \/ xEventGroupSetBitsFromISR

=============================================================================
