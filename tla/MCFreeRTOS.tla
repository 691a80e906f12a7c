----------------------------- MODULE MCFreeRTOS -----------------------------
(***************************************************************************)
(* FreeRTOS with three tasks and an idle task, by scenarios: each of them  *)
(* brings some of the calls together, near the wrap of the tick count.     *)
(***************************************************************************)
EXTENDS FreeRTOS

MCTasks == {"a", "b", "c"}
MCItems == {"x", "y", "z"}
MCQueueNames == {"q", "box", "sem", "mutex", "mutex2", "tokens", "timers"}
MCDataQueues == {"q", "box"}
MCForBits == <<"group", "bits">>
MCEventLists == {<<q, side>> : q \in MCQueueNames, side \in {"send", "receive"}} \cup {MCForBits}

MCNewQueue == [q \in MCQueueNames |->
                   CASE q = "q" -> Created("queue", 2, 0, "nothing")
                     [] q = "timers" -> Created("queue", 2, 0, "nothing")
                     [] q = "box" -> Created("queue", 1, 0, "nothing")
                     [] q = "sem" -> Created("semaphore", 1, 0, "nothing")
                     [] q = "tokens" -> xQueueCreateCountingSemaphore(2, 1)
                     [] OTHER -> Created("mutex", 1, 1, "nothing")]

Forever == portMAX_DELAY
C(api, on, with, n) == [api |-> api, on |-> on, with |-> with, ticks |-> n]

Send(q, item, n) == C("xQueueSend", q, <<item, "back">>, n)
SendFront(q, item, n) == C("xQueueSend", q, <<item, "front">>, n)
Overwrite(q, item) == C("xQueueSend", q, <<item, "overwrite">>, 0)
Receive(q, n) == C("xQueueReceive", q, 0, n)
PeekAt(q, n) == C("xQueuePeek", q, 0, n)
Take(q, n) == C("xQueueSemaphoreTake", q, 0, n)
Give(q) == C("xQueueSend", q, <<"nothing", "back">>, 0)
TakeAgain(q) == C("xQueueTakeMutexRecursive", q, 0, Forever)
GiveAgain(q) == C("xQueueGiveMutexRecursive", q, <<"nothing", "back">>, 0)
Delay(n) == C("vTaskDelay", "", 0, n)
Abort(t) == C("xTaskAbortDelay", t, 0, 0)
CatchUpWith(n) == C("xTaskCatchUpTicks", "", n, 0)
Suspend(t) == C("vTaskSuspend", t, 0, 0)
Resume(t) == C("vTaskResume", t, 0, 0)
FromISR(api, on, with) == C(api, on, with, 0)

Mixed == [t \in All |-> CASE t = "a" -> 1 [] t = "b" -> 2 [] t = "c" -> 3 [] OTHER -> 0]
Same == [t \in All |-> IF t = "idle" THEN 0 ELSE 1]
Pair == [t \in All |-> CASE t = "a" -> 2 [] t = "idle" -> 0 [] OTHER -> 1]

Programs(a, b, c) == [t \in MCTasks |-> CASE t = "a" -> a [] t = "b" -> b [] t = "c" -> c]
Asleep(t) == <<C("vTaskSuspend", t, 0, 0)>>
None == <<C("none", "", 0, 0)>>

Scenario(started, priority, program, interrupts, first, n) ==
    [started |-> started, priority |-> priority, program |-> program,
     interrupts |-> interrupts, firstTick |-> first, maxTicks |-> n, trigger |-> 1, messages |-> FALSE]

AB == <<"a", "b">>
ABC == <<"a", "b", "c">>

QueueScenarios ==
    [receive |-> Scenario(AB, Pair,
        Programs(<<Receive("q", 2), Suspend("a")>>, <<Send("q", "x", 0), SendFront("q", "y", 0), Suspend("b")>>, None),
        <<FromISR("xQueueSendFromISR", "q", <<"z", "back">>)>>, 14, 3),
     send |-> Scenario(AB, Pair,
        Programs(<<Send("q", "x", 1), Send("q", "y", 1), SendFront("q", "z", 2), Suspend("a")>>,
                 <<Receive("q", 0), Receive("q", Forever), Suspend("b")>>, None),
        <<FromISR("xQueueReceiveFromISR", "q", 0)>>, 14, 3),
     reset |-> Scenario(AB, Pair,
        Programs(<<Send("q", "x", 0), Send("q", "y", 1), Send("q", "z", Forever), Suspend("a")>>,
                 <<C("xQueueReset", "q", 0, 0), Suspend("b")>>, None),
        <<FromISR("xQueueSendFromISR", "q", <<"x", "front">>)>>, 15, 1),
     peek |-> Scenario(ABC, Pair,
        Programs(<<PeekAt("q", 3), Suspend("a")>>,
                 <<Send("q", "x", 0), Suspend("b")>>, <<Receive("q", Forever), Suspend("c")>>),
        <<FromISR("xQueuePeekFromISR", "q", 0)>>, 15, 2),
     box |-> Scenario(AB, Pair,
        Programs(<<Receive("box", Forever), Receive("box", 0), Suspend("a")>>,
                 <<Overwrite("box", "x"), Overwrite("box", "y"), Send("box", "z", 2), Suspend("b")>>, None),
        <<FromISR("xQueueSendFromISR", "box", <<"z", "overwrite">>)>>, 15, 1)]

MutexScenarios ==
    [inherit |-> Scenario(ABC, Mixed,
        Programs(<<Take("mutex", 0), Give("mutex"), Suspend("a")>>,
                 <<Delay(1), Take("mutex", 3), Give("mutex"), Suspend("b")>>,
                 <<Delay(2), Take("mutex", 1), Give("mutex"), Take("mutex", 0), Suspend("c"), Suspend("c")>>),
        <<>>, 14, 5),
     two |-> Scenario(ABC, Mixed,
        Programs(<<Take("mutex", 0), Take("mutex2", 0), Give("mutex"), Give("mutex2"), Suspend("a")>>,
                 <<Delay(1), Take("mutex2", Forever), Give("mutex2"), Suspend("b")>>,
                 <<Delay(1), Take("mutex", 1), Give("mutex"), Suspend("c")>>),
        <<>>, 15, 3),
     recursive |-> Scenario(ABC, Mixed,
        Programs(<<TakeAgain("mutex"), TakeAgain("mutex"), GiveAgain("mutex"), GiveAgain("mutex"), Suspend("a")>>,
                 <<GiveAgain("mutex"), Delay(1), TakeAgain("mutex"), GiveAgain("mutex"), Suspend("b")>>,
                 <<Delay(1), Take("mutex", 1), Give("mutex"), Suspend("c")>>),
        <<>>, 15, 3),
     semaphore |-> Scenario(ABC, Mixed,
        Programs(<<Give("sem"), Suspend("a")>>,
                 <<Take("sem", 2), Suspend("b")>>,
                 <<Take("sem", 1), Suspend("c")>>),
        <<FromISR("xQueueGiveFromISR", "sem", 0)>>, 14, 2),
     tokens |-> Scenario(ABC, Mixed,
        Programs(<<Give("tokens"), Give("tokens"), Give("tokens"), Suspend("a")>>,
                 <<Take("tokens", 2), Take("tokens", 0), Suspend("b")>>,
                 <<Take("tokens", Forever), Take("tokens", 1), Suspend("c")>>),
        <<FromISR("xQueueGiveFromISR", "tokens", 0)>>, 15, 1),
     refuse |-> Scenario(ABC, Mixed,
        Programs(<<Take("mutex", Forever), Delay(1), Abort("c"), Abort("b"), Give("mutex"), Suspend("a")>>,
                 <<Delay(1), Take("mutex", Forever), Give("mutex"), Suspend("b")>>,
                 <<Delay(1), Take("mutex", 2), Give("mutex"), Take("mutex", 3), Suspend("c"), Suspend("c")>>),
        <<>>, 14, 3)]

W(set, bits, all, clear) == [set |-> set, bits |-> bits, all |-> all, clear |-> clear]
Sync(set, n) == C("xEventGroupSync", "", W(set, 7, TRUE, TRUE), n)
WaitBits(bits, all, clear, n) == C("xEventGroupWaitBits", "", W(0, bits, all, clear), n)
SetTo(bits) == C("xEventGroupSetBits", "", bits, 0)
ClearTo(bits) == C("xEventGroupClearBits", "", bits, 0)

GroupScenarios ==
    [rendezvous |-> Scenario(ABC, Same,
        Programs(<<Sync(1, Forever), Sync(1, Forever), Suspend("a")>>,
                 <<Sync(2, Forever), Sync(2, Forever), Suspend("b")>>,
                 <<Sync(4, Forever), Sync(4, Forever), Suspend("c")>>),
        <<>>, 15, 2),
     missed |-> Scenario(ABC, Same,
        Programs(<<Sync(1, 1), Suspend("a")>>, <<Sync(2, 0), Suspend("b")>>, <<Sync(4, 2), Suspend("c")>>),
        <<>>, 14, 3),
     late |-> Scenario(ABC, Mixed,
        Programs(<<WaitBits(1, TRUE, FALSE, 1), Suspend("a")>>, <<Sync(2, 1), Suspend("b")>>,
                 <<Delay(1), SetTo(5), Suspend("c")>>),
        <<>>, 15, 2),
     bits |-> Scenario(ABC, Mixed,
        Programs(<<SetTo(1), SetTo(6), ClearTo(2), SetTo(2), Suspend("a")>>,
                 <<WaitBits(3, TRUE, TRUE, 2), WaitBits(4, TRUE, FALSE, 0), Suspend("b")>>,
                 <<WaitBits(5, FALSE, TRUE, Forever), WaitBits(2, FALSE, TRUE, 1), Suspend("c")>>),
        <<>>, 14, 3)]

Put(bytes, n) == C("xStreamBufferSend", "", bytes, n)
Get(room, n) == C("xStreamBufferReceive", "", room, n)

StreamScenarios ==
    [stream |-> [Scenario(AB, Pair,
        Programs(<<Put(<<1, 2>>, 0), Put(<<3, 4, 5>>, 2), Suspend("a")>>,
                 <<Get(1, 0), Get(3, Forever), Get(2, 1), Suspend("b")>>, None),
        <<>>, 14, 3) EXCEPT !.trigger = 2],
     reader |-> [Scenario(AB, Pair,
        Programs(<<Get(2, 2), Get(2, Forever), Suspend("a")>>,
                 <<C("xStreamBufferSetTriggerLevel", "", 2, 0), Suspend("b")>>, None),
        <<FromISR("xStreamBufferSendFromISR", "", <<1>>), FromISR("xStreamBufferSendFromISR", "", <<2>>),
          FromISR("xStreamBufferSendFromISR", "", <<3, 4>>)>>,
        15, 2) EXCEPT !.trigger = 0],
     writer |-> Scenario(AB, Pair,
        Programs(<<Put(<<1, 2, 3>>, 0), Put(<<4, 5>>, 1), Put(<<6>>, Forever), Suspend("a")>>,
                 <<C("xStreamBufferReset", "", 0, 0), Suspend("b")>>, None),
        <<FromISR("xStreamBufferReceiveFromISR", "", 1), FromISR("xStreamBufferReceiveCompletedFromISR", "", 0),
          FromISR("xStreamBufferReceiveFromISR", "", 3)>>, 15, 2),
     messages |-> [Scenario(AB, Pair,
        Programs(<<Get(1, Forever), Get(3, 1), Suspend("a")>>,
                 <<Put(<<1, 2, 3, 4>>, Forever), Put(<<1>>, 0), Put(<<2, 3>>, 1), Suspend("b")>>, None),
        <<FromISR("xStreamBufferSendCompletedFromISR", "", 0)>>, 14, 3) EXCEPT !.messages = TRUE],
     handlers |-> [Scenario(AB, Pair,
        Programs(<<Get(1, Forever), Get(3, 1), Suspend("a")>>, Asleep("b"), None),
        <<FromISR("xStreamBufferSendFromISR", "", <<1>>), FromISR("xStreamBufferSendFromISR", "", <<2, 3>>),
          FromISR("xStreamBufferSendFromISR", "", <<4>>)>>, 15, 2) EXCEPT !.messages = TRUE]]

NotifyTake(clear, n) == C("ulTaskNotifyTake", "", clear, n)
NotifyWait(entry, exit, n) == C("xTaskNotifyWait", "", <<entry, exit>>, n)
Notify(t, action, value) == C("xTaskNotify", t, <<action, value>>, 0)

NotifyScenarios ==
    [counting |-> Scenario(ABC, Mixed,
        Programs(<<Notify("c", "eIncrement", 0), Suspend("a")>>,
                 <<NotifyTake(TRUE, 2), Suspend("b")>>,
                 <<NotifyTake(FALSE, Forever), NotifyTake(FALSE, 0), Suspend("c")>>),
        <<FromISR("vTaskNotifyGiveFromISR", "b", 0), FromISR("vTaskNotifyGiveFromISR", "c", 0)>>, 15, 2),
     values |-> Scenario(ABC, Mixed,
        Programs(<<Notify("b", "eSetValueWithOverwrite", 5), Notify("c", "eNoAction", 0), Suspend("a")>>,
                 <<NotifyWait(1, 2, 2), C("ulTaskNotifyValueClear", "b", 4, 0),
                   C("xTaskNotifyStateClear", "b", 0, 0), Suspend("b")>>,
                 <<NotifyWait(0, 3, Forever), Suspend("c")>>),
        <<FromISR("xTaskNotifyFromISR", "b", <<"eSetBits", 2>>),
          FromISR("xTaskNotifyFromISR", "c", <<"eSetValueWithoutOverwrite", 3>>)>>, 15, 2)]

SetPriority(t, p) == C("vTaskPrioritySet", t, p, 0)

TaskScenarios ==
    [priorities |-> Scenario(AB, Mixed,
        Programs(<<C("xTaskCreate", "c", 0, 0), SetPriority("b", 0), SetPriority("a", 0), Suspend("a")>>,
                 <<SetPriority("a", 3), Delay(1), Delay(2), SetPriority("c", 1), Suspend("b")>>,
                 <<Delay(0), SetPriority("c", 2), Delay(2), Suspend("c")>>),
        <<>>, 14, 3),
     suspension |-> Scenario(ABC, Mixed,
        Programs(<<Resume("c"), Suspend("b"), Send("q", "x", 0), Resume("b"), Suspend("a")>>,
                 <<Receive("q", 2), NotifyTake(TRUE, Forever), Suspend("b")>>,
                 <<Suspend("c"), Delay(2), Suspend("c")>>),
        <<FromISR("xTaskResumeFromISR", "c", 0), FromISR("xTaskResumeFromISR", "b", 0)>>, 14, 2),
     deletion |-> Scenario(ABC, Mixed,
        Programs(<<C("vTaskDelete", "b", 0, 0), Suspend("a")>>, <<Receive("q", 2), Suspend("b")>>,
                 <<Receive("q", 1), Suspend("c")>>),
        <<>>, 14, 2),
     abortion |-> Scenario(ABC, Mixed,
        Programs(<<Abort("c"), Abort("b"), Abort("c"), Abort("b"), Suspend("a")>>,
                 <<WaitBits(1, TRUE, TRUE, Forever), Delay(2), Suspend("b")>>,
                 <<Receive("q", 2), Receive("q", Forever), NotifyTake(TRUE, 2), Suspend("c")>>),
        <<FromISR("xQueueSendFromISR", "q", <<"z", "back">>), FromISR("vTaskNotifyGiveFromISR", "c", 0)>>, 14, 2),
     missing |-> Scenario(ABC, Mixed,
        Programs(<<CatchUpWith(2), CatchUpWith(1), Send("q", "x", 0), Suspend("a")>>,
                 <<Delay(3), Delay(2), Suspend("b")>>,
                 <<Receive("q", 4), Receive("q", 1), Suspend("c")>>),
        <<>>, 13, 3),
     end |-> Scenario(AB, Mixed,
        Programs(<<Delay(1), Suspend("a")>>, <<C("vTaskDelete", "b", 0, 0), Suspend("b")>>, None),
        <<>>, 14, 2),
     background |-> Scenario(AB, [Mixed EXCEPT !["a"] = 0],
        Programs(<<SetTo(1), Suspend("a")>>, <<Delay(1), Suspend("b")>>, None),
        <<>>, 14, 2)]

Cmd(id, timer, value) == [id |-> id, timer |-> timer, value |-> value]
Command(id, timer, value, n) == C("xTimerGenericCommand", "timers", <<Cmd(id, timer, value), "back">>, n)
CommandFromISR(id, timer, value) ==
    FromISR("xTimerGenericCommandFromISR", "timers", <<Cmd(id, timer, value), "back">>)
Daemon == <<C("prvTimerTask", "timers", 0, 0)>>
MCNewTimer == [tick |-> [period |-> 2, reload |-> TRUE], once |-> [period |-> 3, reload |-> FALSE]]
MCTimers == DOMAIN MCNewTimer
AC == <<"a", "c">>

TimerScenarios ==
    [running |-> Scenario(AC, Mixed,
        Programs(<<Command("start", "tick", 0, 0), Command("start", "once", 0, 0),
                   Delay(3), Command("stop", "tick", 0, 0), Suspend("a")>>,
                 None, Daemon),
        <<CommandFromISR("start", "once", 0)>>, 14, 4),
     delayed |-> Scenario(AC, [Mixed EXCEPT !["a"] = 2, !["c"] = 1],
        Programs(<<Command("start", "tick", 0, 0), Command("start", "once", 0, 1), Command("changePeriod", "once", 1, Forever),
                   C("vTimerSetReloadMode", "tick", FALSE, 0), Command("reset", "tick", 0, 2), Suspend("a")>>,
                 None, Daemon),
        <<>>, 13, 5),
     pended |-> Scenario(ABC, Mixed,
        Programs(<<C("vTimerSetReloadMode", "once", TRUE, 0), Command("start", "once", 0, 0),
                   C("vTimerSetReloadMode", "once", FALSE, 0),
                   C("xTimerPendFunctionCall", "timers", <<SetBitsLater(4), "back">>, 0), Command("delete", "once", 0, 0), Suspend("a")>>,
                 <<WaitBits(3, TRUE, TRUE, 2), Suspend("b")>>, Daemon),
        <<FromISR("xEventGroupSetBitsFromISR", "timers", 1), FromISR("xEventGroupSetBitsFromISR", "timers", 2)>>, 15, 2)]

(* A chain of mutexes: c waits for one that b holds, while b waits, but    *)
(* not as long, for one that a holds.                                      *)
NestedScenarios ==
    [nested |-> Scenario(ABC, Mixed,
        Programs(<<Take("mutex", 0), Suspend("a")>>,
                 <<Delay(1), Take("mutex2", 0), Take("mutex", 2), Suspend("b"), Suspend("b")>>,
                 <<Delay(2), Take("mutex2", Forever), Give("mutex2"), Suspend("c")>>),
        <<>>, 10, 5)]

AllScenarios == QueueScenarios @@ MutexScenarios @@ GroupScenarios @@ StreamScenarios
                @@ NotifyScenarios @@ TaskScenarios @@ TimerScenarios
MCScenarios == AllScenarios
=============================================================================
