----------------------------- MODULE TaskCalls -----------------------------
(***************************************************************************)
(* The kernel at work: tasks that make calls, interrupt handlers that make *)
(* calls of the FromISR kind, the SysTick and the PendSV handler.          *)
(*                                                                         *)
(* A scenario fixes what the application does: started, the tasks created  *)
(* before the scheduler starts, in that order; priority, of each task;     *)
(* program, the calls of each task, the last of which it repeats; and      *)
(* interrupts, the calls interrupt handlers make, in that order but at any *)
(* time.  It also bounds the run: it begins at the tick count firstTick    *)
(* and has maxTicks ticks.  A call is a record of its name (api), the      *)
(* object it is for (on), its argument (with) and its ticks to wait.       *)
(*                                                                         *)
(* The stages of a call are its critical sections and the steps between    *)
(* them: an interrupt may come before each of them, and the scheduler may  *)
(* switch wherever it is not suspended.                                    *)
(***************************************************************************)
EXTENDS Kernel

CONSTANTS Scenarios,   \* the scenarios by name
          MaxPended    \* bound: ticks while the scheduler is suspended

(* A program and the calls of the handlers are sequences; a task has       *)
(* something to do.                                                        *)
ASSUME ScenariosAssumption ==
    \A name \in DOMAIN Scenarios :
        LET s == Scenarios[name]
        IN /\ \A t \in Tasks : s.program[t] \in Seq(ToSet(s.program[t])) /\ s.program[t] # <<>>
           /\ s.interrupts \in Seq(ToSet(s.interrupts))

VARIABLES kernel,    \* the variables of tasks.c, and PENDSVSET
          call,      \* the call each task is in, with its locals
          served,    \* the interrupts that have come
          scenario,  \* what the application does in this run
          ticks,     \* history: ticks of the run
          left       \* history: ticks left of the waiting time of a task's call

history == <<scenario, ticks, left>>
taskVars == <<kernel, call, served, scenario, ticks, left>>

me == kernel.pxCurrentTCB
Program(t) == scenario.program[t]
Request(t) == Program(t)[call[t].pc]
Now == Request(me)

(* Calls that begin with vTaskSuspendAll. *)
SuspendFirst == {"vTaskDelay", "xTaskAbortDelay", "xTaskCatchUpTicks",
                 "xEventGroupWaitBits", "xEventGroupSync", "xEventGroupSetBits"}

(* The n-th call of a program, entered. *)
Enter(program, n) ==
    LET pc == Min({n, Len(program)})
        api == program[pc].api
    IN [pc |-> pc,
        stage |-> IF api = "vTaskDelay" /\ program[pc].ticks = 0 THEN "yield"
                  ELSE IF api = "xTimerGenericCommand" THEN "command"
                  ELSE IF api \in SuspendFirst THEN "suspend" ELSE "start",
        ticks |-> program[pc].ticks,   \* xTicksToWait
        set |-> FALSE,                 \* xEntryTimeSet
        since |-> [overflows |-> 0, entered |-> 0],
        inherited |-> FALSE,           \* xInheritanceOccurred
        outcome |-> "none",
        space |-> 0]                   \* xSpace, xBytesAvailable, xOptionalValue

(* The lists of tasks.c as prvInitialiseTaskLists leaves them, and no task. *)
NoKernel(firstTick) ==
    LET NoTCB(value) == [t \in All |-> value]
    IN [xTickCount |-> firstTick, xNumOfOverflows |-> 0, xNextTaskUnblockTime |-> portMAX_DELAY,
        xPendedTicks |-> 0, uxSchedulerSuspended |-> 0, xYieldPending |-> FALSE, pendSV |-> FALSE,
        uxTopReadyPriority |-> {}, pxCurrentTCB |-> Idle,
        ready |-> [p \in Priorities |-> <<End>>],
        delayed |-> <<>>, overflow |-> <<>>, suspendedTasks |-> <<>>, pendingReady |-> <<>>,
        tasksWaitingTermination |-> <<>>, uxCurrentNumberOfTasks |-> 0,
        events |-> [e \in EventLists |-> <<>>],
        uxPriority |-> NoTCB(0), uxBasePriority |-> NoTCB(0), rank |-> NoTCB(0),
        item |-> NoTCB(NotInUse), wake |-> NoTCB(0), uxMutexesHeld |-> NoTCB(0),
        ucNotifyState |-> NoTCB("none"), ulNotifiedValue |-> NoTCB(0),
        ucDelayAborted |-> NoTCB(FALSE),
        halted |-> "no"]

(* xTaskCreate before the scheduler starts: the last created of the        *)
(* highest tasks will run first.                                           *)
Create(s, t, p) ==
    LET added == prvAddNewTaskToReadyList(prvInitialiseNewTask(s, t, p), t)
    IN [added EXCEPT !.pxCurrentTCB = IF s.uxCurrentNumberOfTasks = 0 \/ Current(s) <= p THEN t ELSE @]

(* main() and vTaskStartScheduler, which creates the idle task. *)
KernelInit(s) ==
    LET started == s.started \o <<Idle>>
        After[n \in 0 .. Len(started)] ==
            IF n = 0 THEN NoKernel(s.firstTick) ELSE Create(After[n - 1], started[n], s.priority[started[n]])
    IN After[Len(started)]

TaskInit == /\ \E name \in DOMAIN Scenarios : scenario = Scenarios[name]
            /\ kernel = KernelInit(scenario)
            /\ call = [t \in Tasks |-> Enter(scenario.program[t], 1)]
            /\ served = 0
            /\ ticks = 0
            /\ left = [t \in Tasks |-> 0]

----------------------------------------------------------------------------
(* Steps of the task that runs.  A requested context switch comes first.   *)

CanRun == kernel.halted = "no" /\ ~kernel.pendSV
InCall(apis, stage) == CanRun /\ me \in Tasks /\ call[me].stage = stage /\ Now.api \in apis

Goto(stage) == call' = [call EXCEPT ![me].stage = stage]
Set(locals) == call' = [call EXCEPT ![me] = locals]
Return == call' = [call EXCEPT ![me] = Enter(Program(me), @.pc + 1)]
WaitBegins == left' = [left EXCEPT ![me] = Now.ticks]

Step(new) == kernel' = new
Unserved == UNCHANGED <<served, scenario, ticks>>

(* vTaskSuspendAll; a call that does not block before it waits from here. *)
CallSuspendAll ==
    /\ CanRun /\ me \in Tasks /\ call[me].stage = "suspend"
    /\ Step(vTaskSuspendAll(kernel))
    /\ Goto("body")
    /\ IF call[me].set THEN UNCHANGED left ELSE WaitBegins
    /\ Unserved

(* xTaskResumeAll; a call that has blocked then yields unless that has. *)
CallResumeAll ==
    /\ CanRun /\ me \in Tasks /\ call[me].stage = "resume"
    /\ LET r == xTaskResumeAll(kernel)
       IN /\ Step(r.kernel)
          /\ Goto(IF call[me].outcome = "blocked" /\ ~r.yielded THEN "yield" ELSE "after")
    /\ UNCHANGED left /\ Unserved

(* portYIELD_WITHIN_API *)
CallYield == /\ CanRun /\ me \in Tasks /\ call[me].stage = "yield"
             /\ Step(Yield(kernel))
             /\ Goto("after")
             /\ UNCHANGED left /\ Unserved

DelayBody == /\ InCall({"vTaskDelay"}, "body")
             /\ Step(prvAddCurrentTaskToDelayedList(kernel, Now.ticks, FALSE))
             /\ Set([call[me] EXCEPT !.stage = "resume", !.outcome = "blocked"])
             /\ UNCHANGED left /\ Unserved

(* xTaskAbortDelay looks at the task, which a handler may pend meanwhile,  *)
(* and takes it off its lists.                                             *)
AbortLook ==
    /\ InCall({"xTaskAbortDelay"}, "body")
    /\ IF eTaskGetState(kernel, Now.on) = "eBlocked"
       THEN Step(OffStateList(kernel, Now.on)) /\ Goto("abort")
       ELSE Goto("resume") /\ UNCHANGED kernel
    /\ UNCHANGED left /\ Unserved

AbortDelay == /\ InCall({"xTaskAbortDelay"}, "abort")
              /\ Step(xTaskAbortDelay(kernel, Now.on))
              /\ Goto("resume")
              /\ UNCHANGED left /\ Unserved

(* xTaskCatchUpTicks: ticks the SysTick has missed, for all that wait. *)
CatchUp == /\ InCall({"xTaskCatchUpTicks"}, "body")
           /\ Step([kernel EXCEPT !.xPendedTicks = @ + Now.with])
           /\ left' = [t \in Tasks |-> IF left[t] = portMAX_DELAY THEN left[t] ELSE left[t] - Now.with]
           /\ Goto("resume")
           /\ Unserved

(* What is left of these calls once they have yielded or resumed all. *)
CallReturns == /\ InCall({"vTaskDelay", "vTaskSuspend", "xTaskAbortDelay", "xTaskCatchUpTicks",
                          "xEventGroupSetBits"}, "after")
               /\ Return
               /\ UNCHANGED <<kernel, left>> /\ Unserved

(* Calls of one critical section. *)
OneSection ==
    /\ \/ /\ InCall({"vTaskPrioritySet"}, "start")
          /\ Step(vTaskPrioritySet(kernel, Now.on, Now.with))
       \/ /\ InCall({"vTaskResume"}, "start")
          /\ Step(vTaskResume(kernel, Now.on))
       \/ /\ InCall({"xTaskNotify"}, "start")
          /\ Step(xTaskGenericNotify(kernel, Now.on, Now.with[1], Now.with[2]))
       \/ /\ InCall({"xTaskNotifyStateClear"}, "start")
          /\ Step(xTaskGenericNotifyStateClear(kernel, Now.on))
       \/ /\ InCall({"ulTaskNotifyValueClear"}, "start")
          /\ Step(ulTaskGenericNotifyValueClear(kernel, Now.on, Now.with))
    /\ Return
    /\ UNCHANGED left /\ Unserved

SuspendStart == /\ InCall({"vTaskSuspend"}, "start")
                /\ Step(vTaskSuspend(kernel, Now.on))
                /\ Goto("reset")
                /\ UNCHANGED left /\ Unserved

SuspendReset == /\ InCall({"vTaskSuspend"}, "reset")
                /\ Step(prvResetNextTaskUnblockTime(kernel))
                /\ IF Now.on = me THEN Goto("yield") ELSE Return
                /\ UNCHANGED left /\ Unserved

DeleteStart == /\ InCall({"vTaskDelete"}, "start")
               /\ Step(vTaskDelete(kernel, Now.on))
               /\ Goto(IF Now.on = me THEN "yield" ELSE "free")
               /\ UNCHANGED left /\ Unserved

DeleteFree == /\ InCall({"vTaskDelete"}, "free")
              /\ Step(prvDeleteTCB(kernel))
              /\ UNCHANGED <<call, left>> /\ Unserved

(* xTaskCreate: nobody else sees the TCB until it is in a ready list.  The *)
(* priorities are looked at again once the new task is there.              *)
CreateStart == /\ InCall({"xTaskCreate"}, "start")
               /\ LET made == prvInitialiseNewTask(kernel, Now.on, scenario.priority[Now.on])
                  IN Step(prvAddNewTaskToReadyList(made, Now.on))
               /\ Goto("created")
               /\ UNCHANGED left /\ Unserved

CreateYield == /\ InCall({"xTaskCreate"}, "created")
               /\ Step(YieldIf(kernel, Current(kernel) < kernel.uxPriority[Now.on]))
               /\ Return
               /\ UNCHANGED left /\ Unserved

NotifyCalls == {"ulTaskNotifyTake", "xTaskNotifyWait"}

NotifyStart == /\ InCall(NotifyCalls, "start")
               /\ Step(IF Now.api = "ulTaskNotifyTake" THEN NotifyTakes(kernel, Now.ticks)
                       ELSE NotifyWaits(kernel, Now.with[1], Now.ticks))
               /\ Goto("woken")
               /\ WaitBegins
               /\ Unserved

NotifyEnd == /\ InCall(NotifyCalls, "woken")
             /\ Step(IF Now.api = "ulTaskNotifyTake" THEN NotifyTaken(kernel, Now.with)
                     ELSE NotifyWaited(kernel, Now.with[2]))
             /\ Return
             /\ UNCHANGED left /\ Unserved

TaskCall == \/ CallSuspendAll \/ CallResumeAll \/ CallYield \/ DelayBody \/ CallReturns
            \/ AbortLook \/ AbortDelay \/ CatchUp
            \/ OneSection \/ SuspendStart \/ SuspendReset \/ DeleteStart \/ DeleteFree
            \/ CreateStart \/ CreateYield \/ NotifyStart \/ NotifyEnd

----------------------------------------------------------------------------
(* The idle task *)

(* prvCheckTasksWaitingTermination *)
CheckTasksWaitingTermination ==
    /\ CanRun /\ me = Idle
    /\ kernel.tasksWaitingTermination # <<>>
    /\ Step(prvDeleteTCB([kernel EXCEPT !.tasksWaitingTermination = Tail(@),
                                        !.uxCurrentNumberOfTasks = @ - 1]))
    /\ UNCHANGED <<call, left>> /\ Unserved

(* configIDLE_SHOULD_YIELD *)
IdleYield == /\ CanRun /\ me = Idle
             /\ kernel.tasksWaitingTermination = <<>>
             /\ Length(kernel.ready[0]) > 1
             /\ Step(Yield(kernel))
             /\ UNCHANGED <<call, left>> /\ Unserved

----------------------------------------------------------------------------
(* The handlers *)

(* xPortPendSVHandler *)
PendSV == /\ kernel.halted = "no" /\ kernel.pendSV
          /\ Step(vTaskSwitchContext([kernel EXCEPT !.pendSV = FALSE]))
          /\ UNCHANGED <<call, left>> /\ Unserved

(* xPortSysTickHandler *)
SysTick == /\ kernel.halted = "no"
           /\ ticks < scenario.maxTicks
           /\ kernel.uxSchedulerSuspended # 0 => kernel.xPendedTicks < MaxPended
           /\ LET r == xTaskIncrementTick(kernel) IN Step(YieldIf(r.kernel, r.switch))
           /\ ticks' = ticks + 1
           /\ left' = [t \in Tasks |-> IF left[t] = portMAX_DELAY \/ left[t] <= -MaxPended
                                       THEN left[t] ELSE left[t] - 1]
           /\ UNCHANGED <<call, served, scenario>>

Interrupts == scenario.interrupts
Interrupt(apis) == /\ kernel.halted = "no"
                   /\ served < Len(Interrupts)
                   /\ Interrupts[served + 1].api \in apis
ISR == Interrupts[served + 1]

(* A handler ends with portYIELD_FROM_ISR, or gives no                     *)
(* pxHigherPriorityTaskWoken and leaves the switch to xYieldPending.       *)
Serve(result) == /\ \E asks \in BOOLEAN : Step(YieldIf(result.kernel, asks /\ result.woken))
                 /\ served' = served + 1
                 /\ UNCHANGED <<call, scenario, ticks, left>>

TaskInterrupt == \/ /\ Interrupt({"xTaskResumeFromISR"})
                    /\ Serve(xTaskResumeFromISR(kernel, ISR.on))
                 \/ /\ Interrupt({"xTaskNotifyFromISR"})
                    /\ Serve(xTaskGenericNotifyFromISR(kernel, ISR.on, ISR.with[1], ISR.with[2]))
                 \/ /\ Interrupt({"vTaskNotifyGiveFromISR"})
                    /\ Serve(vTaskGenericNotifyGiveFromISR(kernel, ISR.on))

=============================================================================
