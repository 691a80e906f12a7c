---------------------------- MODULE KernelProofs ----------------------------
(***************************************************************************)
(* The operators of tasks.c and list.c keep the lists of the kernel        *)
(* consistent: Kernel(s), which is for every state s of the kernel that a  *)
(* static application (Static) reaches. One lemma per operator says that   *)
(* Kernel holds after it, what it leaves ready and waiting, and that the   *)
(* highest ready task runs or a switch is on its way (Highest). The module *)
(* knows nothing of the calls that use the operators: FreeRTOSProofs has   *)
(* those, and StaticInv, the invariant of the whole.                       *)
(***************************************************************************)
EXTENDS FreeRTOS, SequenceTheorems, WellFoundedInduction, TLAPS

(* A list of members of S, each there once.                                *)
Once(list, S) == /\ list \in Seq(S)
                 /\ \A i, j \in DOMAIN list : list[i] = list[j] => i = j

(* The lists of the kernel.                                                *)
(*                                                                         *)
(* They are proved consistent for every static application: its tasks are  *)
(* all created before the scheduler starts and never deleted; it has no    *)
(* mutex, whose inheritance can leave a wrong bit in uxTopReadyPriority    *)
(* (kernel_ready_bit) and no timer task; and no handler resumes a task     *)
(* that waits for notifications, which the kernel takes for suspended.     *)

(* What a request may be in a static application.                          *)
TickType == 0 .. portMAX_DELAY

Dynamic == {"xTaskCreate", "vTaskDelete", "prvTimerTask",
            "xQueueTakeMutexRecursive", "xQueueGiveMutexRecursive"}
OfTask == {"xTaskAbortDelay", "vTaskSuspend", "vTaskResume", "vTaskPrioritySet", "xTaskNotify",
           "xTaskNotifyStateClear", "ulTaskNotifyValueClear",
           "xTaskResumeFromISR", "xTaskNotifyFromISR", "vTaskNotifyGiveFromISR"}
OfQueue == QueueCalls \cup QueueInterrupts
           \cup {"xQueueReset", "xQueueGiveFromISR", "xTimerGenericCommandFromISR", "xEventGroupSetBitsFromISR"}
Notifiable == NotifyCalls \cup StreamSend \cup StreamReceive

StaticCall(r) ==
    /\ r.api \notin Dynamic
    /\ r.ticks \in TickType
    /\ r.api \in OfTask => r.on \in Tasks
    /\ r.api = "vTaskPrioritySet" => r.with \in Priorities
    /\ r.api = "xTaskCatchUpTicks" => r.with \in Nat
    /\ r.api \in OfQueue => r.on \in QueueNames /\ NewQueue[r.on].kind # "mutex"

(* The static applications.                                                *)
Static(s) ==
    /\ s.firstTick \in TickType
    /\ Once(s.started, Tasks)
    /\ s.priority \in [All -> Priorities]
    /\ \A t \in Tasks : \A i \in DOMAIN s.program[t] : StaticCall(s.program[t][i])
    /\ \A i \in DOMAIN s.interrupts :
           /\ StaticCall(s.interrupts[i])
           /\ s.interrupts[i].api = "xTaskResumeFromISR" =>
                  \A j \in DOMAIN s.program[s.interrupts[i].on] :
                      s.program[s.interrupts[i].on][j].api \notin Notifiable

KernelFields ==
    {"xTickCount", "xNumOfOverflows", "xNextTaskUnblockTime", "xPendedTicks", "uxSchedulerSuspended",
     "xYieldPending", "pendSV", "uxTopReadyPriority", "pxCurrentTCB", "ready", "delayed", "overflow",
     "suspendedTasks", "pendingReady", "tasksWaitingTermination", "uxCurrentNumberOfTasks", "events",
     "uxPriority", "uxBasePriority", "rank", "item", "wake", "uxMutexesHeld", "ucNotifyState",
     "ulNotifiedValue", "ucDelayAborted", "halted"}

(* The types of its fields; and no configASSERT has failed.                *)
Typed(s) ==
    /\ s = [f \in KernelFields |-> s[f]]
    /\ s.xTickCount \in TickType /\ s.xNextTaskUnblockTime \in TickType
    /\ s.xPendedTicks \in Nat /\ s.uxSchedulerSuspended \in Nat
    /\ s.pxCurrentTCB \in All
    /\ s.uxPriority \in [All -> Priorities] /\ s.uxBasePriority \in [All -> Priorities]
    /\ s.rank \in [All -> Int] /\ s.wake \in [All -> TickType]
    /\ s.ucNotifyState \in [All -> {"none", "waiting", "received"}]
    /\ s.xYieldPending \in BOOLEAN /\ s.pendSV \in BOOLEAN
    /\ s.halted = "no"

(* The ready tasks, and those in an event list.                            *)
Rdy(s) == {t \in All : IsReady(s, t)}
Evt(s) == {t \in All : \E e \in EventLists : IsIn(t, s.events[e])}

(* A ready list: a ring with the end marker.                               *)
Marked(ring) == Once(ring, All \cup {End}) /\ IsIn(End, ring)

ReadyLists(s) ==
    /\ DOMAIN s.ready = Priorities
    /\ \A p \in Priorities : /\ Marked(s.ready[p])
                             /\ \A t \in All : IsIn(t, s.ready[p]) => s.uxPriority[t] = p
    /\ Idle \in Rdy(s)

(* The other state lists, of which a task is in one at most, or is ready.  *)
WaitLists(s) ==
    /\ Once(s.delayed, Tasks) /\ Once(s.overflow, Tasks) /\ Once(s.suspendedTasks, Tasks)
    /\ s.tasksWaitingTermination = <<>>

Apart(s) ==
    \A t \in Tasks :
        /\ IsIn(t, s.delayed) => t \notin Rdy(s) /\ ~IsIn(t, s.overflow) /\ ~IsIn(t, s.suspendedTasks)
        /\ IsIn(t, s.overflow) => t \notin Rdy(s) /\ ~IsIn(t, s.suspendedTasks)
        /\ IsIn(t, s.suspendedTasks) => t \notin Rdy(s)

(* The event lists and the list of the pended tasks.                       *)
Events(s) ==
    /\ DOMAIN s.events = EventLists
    /\ \A e \in EventLists : Once(s.events[e], Tasks)
    /\ \A e, f \in EventLists : \A t : IsIn(t, s.events[e]) /\ IsIn(t, s.events[f]) => e = f
    /\ Once(s.pendingReady, Tasks)

(* The delayed lists are in the order of the wake times.                   *)
Times(s) ==
    /\ Sorted(s.delayed, s.wake) /\ Sorted(s.overflow, s.wake)
    /\ \A t : IsIn(t, s.delayed) => s.wake[t] >= s.xNextTaskUnblockTime

Lists(s) == Typed(s) /\ ReadyLists(s) /\ WaitLists(s) /\ Apart(s) /\ Events(s) /\ Times(s)

(* The bitmap of the ready priorities; a task in an event list is neither  *)
(* ready nor pended; nothing is left in the delayed list when the tick     *)
(* count is about to wrap; no priority is inherited.                       *)
Bits(s) == s.uxTopReadyPriority = {p \in Priorities : \E t \in All : IsIn(t, s.ready[p])}
Unready(s) == \A t \in Evt(s) : t \notin Rdy(s) /\ ~IsIn(t, s.pendingReady)
AtWrap(s) == s.xTickCount = portMAX_DELAY => s.delayed = <<>>
Own(s) == s.uxBasePriority = s.uxPriority

Kernel(s) == Lists(s) /\ Bits(s) /\ Unready(s) /\ AtWrap(s) /\ Own(s)

(* The highest ready task runs, or a switch is on its way.                 *)
Highest(s) == s.pendSV \/ s.xYieldPending \/ \A t \in Rdy(s) : s.uxPriority[t] <= Current(s)

(* The calls: which of them have the scheduler suspended, and which have   *)
(* just taken their task off the ready list.                               *)
SuspendingIn(c, api) ==
    \/ c.stage \in {"body", "place", "unlockTx", "unlockRx", "resume", "abort", "notify"}
    \/ c.stage \in {"check", "test"} /\ api \in QueueCalls
Suspending(t) == SuspendingIn(call[t], Request(t).api)

BlockedIn(c) == c.stage \in {"unlockTx", "unlockRx", "resume"} /\ c.outcome = "blocked"
LeavingIn(c, r, t) ==
    \/ BlockedIn(c)
    \/ c.stage = "yield"
    \/ c.stage = "reset" /\ r.on = t
Leaving(t) == LeavingIn(call[t], Request(t), t)

(* Only the running task is inside a suspended section, and just once.     *)
OneSuspends ==
    /\ \A t \in Tasks : Suspending(t) => t = me
    /\ kernel.uxSchedulerSuspended = IF me \in Tasks /\ Suspending(me) THEN 1 ELSE 0

(* The running task is ready, or about to leave the processor.             *)
RunsReady == \/ kernel.uxSchedulerSuspended = 0 /\ kernel.pendSV
             \/ me \in Rdy(kernel)
             \/ me \in Tasks /\ Leaving(me)

(* A task in an event list, or that waits for a notification, is inside    *)
(* the call that put it there.                                             *)
WaitsIn(c) == c.stage \in {"unlockTx", "unlockRx", "resume", "yield", "after"} /\ c.outcome = "blocked"
NotifiedIn(c, api) == c.stage \in {"woken", "waited"} /\ api \in Notifiable
Waiters ==
    \A t \in Tasks :
        /\ t \in Evt(kernel) => WaitsIn(call[t])
        /\ kernel.ucNotifyState[t] = "waiting" =>
               NotifiedIn(call[t], Request(t).api) /\ ~IsIn(t, kernel.pendingReady)

(* The tasks pended while the scheduler is suspended are readied when it   *)
(* is resumed; the running one can be among them once it has blocked.      *)
Pended ==
    /\ kernel.uxSchedulerSuspended = 0 => kernel.pendingReady = <<>>
    /\ me \in Tasks /\ IsIn(me, kernel.pendingReady) => BlockedIn(call[me])

(* What the calls remember: the time that is left, the start of the wait.  *)
Untimed == {"suspend", "body", "check", "test", "place"}
CallIn(c, r) ==
    /\ c.ticks \in TickType /\ c.since.entered \in TickType
    /\ c.stage \notin {"inherit", "disinherit"} /\ ~c.inherited
    /\ r.api \in QueueCalls /\ c.stage \in Untimed => c.ticks # 0
    /\ r.api = "vTaskDelay" /\ c.stage \in {"suspend", "body"} => r.ticks # 0
CallsFit == \A t \in Tasks : CallIn(call[t], Request(t))

(* A task in no state list, as between the two halves of xTaskAbortDelay.  *)
OffLists(s, t) == t \notin Rdy(s) /\ ~IsIn(t, s.delayed) /\ ~IsIn(t, s.overflow) /\ ~IsIn(t, s.suspendedTasks)
Aborting ==
    \A t \in Tasks : call[t].stage = "abort" => Request(t).on # t /\ OffLists(kernel, Request(t).on)

(* A task registered with the stream buffer is inside the call that        *)
(* registered it.                                                          *)
InWait == {"wait", "waited", "forget"}
Waiting(w, apis) ==
    w # NoReader => \E t \in Tasks : /\ w = t /\ Request(t).api \in apis
                                    /\ call[t].stage \in InWait
Partners == /\ Waiting(stream.xTaskWaitingToSend, StreamSend)
            /\ Waiting(stream.xTaskWaitingToReceive, StreamReceive)

(* The queues keep the kind they are created with.                         *)
QueueFields == {"kind", "uxLength", "uxMessagesWaiting", "store", "write", "read", "cTxLock", "cRxLock",
                "holder", "uxRecursiveCallCount"}
Kinds ==
    /\ DOMAIN queue = QueueNames
    /\ \A q \in QueueNames : /\ DOMAIN queue[q] = QueueFields
                             /\ queue[q].kind = NewQueue[q].kind
                             /\ queue[q].cTxLock \in Int /\ queue[q].cRxLock \in Int

(* The invariant of a static application.                                  *)
Scheduling ==
    /\ Kernel(kernel) /\ Highest(kernel)
    /\ OneSuspends /\ RunsReady /\ Waiters /\ Pended /\ CallsFit /\ Aborting

StaticInv == Static(scenario) => Scheduling /\ Partners /\ Kinds

----------------------------------------------------------------------------
(* A set of numbers that is not empty has a smallest.                      *)
LEMMA Smallest ==
    ASSUME NEW P \in SUBSET Nat, P # {}
    PROVE  \E m \in P : \A n \in P : m <= n
<1> DEFINE less == {p \in Nat \X Nat : p[1] < p[2]}
<1>1. IsWellFoundedOn(less, Nat)
  BY NatLessThanWellFounded DEF OpToRel
<1> HIDE DEF less
<1>2. PICK m \in P : \A n \in P : ~(<<n, m>> \in less)
  BY <1>1, WFMin
<1>3. \A n \in P : ~(n < m)
  BY <1>2 DEF less
<1> QED BY <1>3

(* Induction up to a number, over the set of the numbers that have the     *)
(* property.                                                               *)
LEMMA UpTo ==
    ASSUME NEW n \in Nat, NEW T, 0 \in T, \A i \in 0 .. n - 1 : i \in T => i + 1 \in T
    PROVE  n \in T
<1> SUFFICES ASSUME n \notin T PROVE FALSE
  OBVIOUS
<1> DEFINE Out == {i \in Nat : i <= n /\ i \notin T}
<1>1. PICK m \in Out : \A k \in Out : m <= k
  <2>1. n \in Out /\ Out \subseteq Nat
    OBVIOUS
  <2> HIDE DEF Out
  <2> QED BY <2>1, Smallest
<1>2. m \in Nat /\ m # 0 /\ m <= n
  OBVIOUS
<1>3. m - 1 \in Nat /\ m - 1 < m /\ m - 1 \in 0 .. n - 1 /\ (m - 1) + 1 = m
  BY <1>2
<1>4. m - 1 \notin Out
  BY <1>1, <1>2, <1>3
<1>5. m - 1 \in T
  BY <1>2, <1>3, <1>4
<1> QED BY <1>1, <1>3, <1>5

(* The elements of a list with one more at a place of it, or one less.     *)
LEMMA InsertedAt ==
    ASSUME NEW S, NEW list \in Seq(S), NEW k \in 1 .. Len(list) + 1, NEW x \in S
    PROVE  /\ InsertAt(list, k, x) \in Seq(S)
           /\ Len(InsertAt(list, k, x)) = Len(list) + 1
           /\ \A i \in 1 .. Len(list) + 1 :
                  InsertAt(list, k, x)[i] = IF i < k THEN list[i] ELSE IF i = k THEN x ELSE list[i - 1]
<1> DEFINE n == Len(list)
           front == SubSeq(list, 1, k - 1)
           back == SubSeq(list, k, n)
<1>1. n \in Nat /\ k \in Int /\ k - 1 \in Int /\ \A i \in 1 .. n : list[i] \in S
  BY LenProperties, ElementOfSeq
<1>2. front \in Seq(S) /\ Len(front) = k - 1 /\ \A i \in 1 .. k - 1 : front[i] = list[i]
  <2>1. \A i \in 1 .. k - 1 : list[i] \in S
    BY <1>1
  <2>2. /\ front \in Seq(S) /\ Len(front) = IF 1 <= k - 1 THEN (k - 1) - 1 + 1 ELSE 0
        /\ \A i \in 1 .. (k - 1) - 1 + 1 : front[i] = list[1 + i - 1]
    BY ONLY <2>1, <1>1, SubSeqProperties
  <2> QED BY <2>2, <1>1
<1>3. back \in Seq(S) /\ Len(back) = n + 1 - k /\ \A i \in 1 .. n + 1 - k : back[i] = list[k + i - 1]
  <2>1. \A i \in k .. n : list[i] \in S
    BY <1>1
  <2>2. /\ back \in Seq(S) /\ Len(back) = IF k <= n THEN n - k + 1 ELSE 0
        /\ \A i \in 1 .. n - k + 1 : back[i] = list[k + i - 1]
    BY ONLY <2>1, <1>1, SubSeqProperties
  <2> QED BY <2>2, <1>1
<1>4. <<x>> \in Seq(S) /\ Len(<<x>>) = 1 /\ <<x>>[1] = x
  OBVIOUS
<1>5. /\ front \o <<x>> \in Seq(S) /\ Len(front \o <<x>>) = k
      /\ \A i \in 1 .. k : (front \o <<x>>)[i] = IF i <= k - 1 THEN front[i] ELSE x
  <2>1. /\ front \o <<x>> \in Seq(S) /\ Len(front \o <<x>>) = Len(front) + Len(<<x>>)
        /\ \A i \in 1 .. Len(front) + Len(<<x>>) :
               (front \o <<x>>)[i] = IF i <= Len(front) THEN front[i] ELSE <<x>>[i - Len(front)]
    BY <1>2, <1>4, ConcatProperties
  <2> HIDE DEF front
  <2> QED BY <2>1, <1>1, <1>2, <1>4
<1>6. InsertAt(list, k, x) = (front \o <<x>>) \o back
  BY DEF InsertAt
<1>7. /\ InsertAt(list, k, x) \in Seq(S)
      /\ Len(InsertAt(list, k, x)) = k + (n + 1 - k)
      /\ \A i \in 1 .. k + (n + 1 - k) :
             InsertAt(list, k, x)[i] = IF i <= k THEN (front \o <<x>>)[i] ELSE back[i - k]
  <2> HIDE DEF front, back, n
  <2>1. PICK begun : begun = front \o <<x>>
    OBVIOUS
  <2>2. /\ begun \o back \in Seq(S) /\ Len(begun \o back) = Len(begun) + Len(back)
        /\ \A i \in 1 .. Len(begun) + Len(back) : (begun \o back)[i] = IF i <= Len(begun) THEN begun[i] ELSE back[i - Len(begun)]
    <3>1. begun \in Seq(S) /\ back \in Seq(S)
      BY ONLY <1>3, <1>5, <2>1
    <3> QED BY ONLY <3>1, ConcatProperties
  <2>3. Len(begun) = k
    BY ONLY <1>5, <2>1
  <2> QED BY ONLY <1>3, <1>6, <2>1, <2>2, <2>3
<1> QED
  <2> HIDE DEF front, back
  <2>1. ASSUME NEW i \in 1 .. n + 1
        PROVE InsertAt(list, k, x)[i] = IF i < k THEN list[i] ELSE IF i = k THEN x ELSE list[i - 1]
    <3>1. CASE i <= k
      BY <3>1, <1>1, <1>2, <1>5, <1>7
    <3>2. CASE i > k
      <4>1. i - k \in 1 .. n + 1 - k /\ k + (i - k) - 1 = i - 1
        BY <3>2, <1>1
      <4> QED BY <4>1, <3>2, <1>1, <1>3, <1>7
    <3> QED BY <3>1, <3>2, <1>1
  <2> QED BY <2>1, <1>1, <1>7

(* RemoveAt leaves out one place and closes the gap.                       *)
LEMMA RemovedAt ==
    ASSUME NEW S, NEW list \in Seq(S), NEW k \in 1 .. Len(list)
    PROVE  /\ RemoveAt(list, k) \in Seq(S)
           /\ Len(RemoveAt(list, k)) = Len(list) - 1
           /\ \A i \in 1 .. Len(list) - 1 : RemoveAt(list, k)[i] = IF i < k THEN list[i] ELSE list[i + 1]
<1> DEFINE n == Len(list)
           front == SubSeq(list, 1, k - 1)
           back == SubSeq(list, k + 1, n)
<1>1. n \in Nat /\ k \in Int /\ k - 1 \in Int /\ k + 1 \in Int /\ \A i \in 1 .. n : list[i] \in S
  BY LenProperties, ElementOfSeq
<1>2. front \in Seq(S) /\ Len(front) = k - 1 /\ \A i \in 1 .. k - 1 : front[i] = list[i]
  <2>1. \A i \in 1 .. k - 1 : list[i] \in S
    BY <1>1
  <2>2. /\ front \in Seq(S) /\ Len(front) = IF 1 <= k - 1 THEN (k - 1) - 1 + 1 ELSE 0
        /\ \A i \in 1 .. (k - 1) - 1 + 1 : front[i] = list[1 + i - 1]
    BY ONLY <2>1, <1>1, SubSeqProperties
  <2> QED BY <2>2, <1>1
<1>3. back \in Seq(S) /\ Len(back) = n - k /\ \A i \in 1 .. n - k : back[i] = list[k + i]
  <2>1. \A i \in k + 1 .. n : list[i] \in S
    BY <1>1
  <2>2. /\ back \in Seq(S) /\ Len(back) = IF k + 1 <= n THEN n - (k + 1) + 1 ELSE 0
        /\ \A i \in 1 .. n - (k + 1) + 1 : back[i] = list[(k + 1) + i - 1]
    BY ONLY <2>1, <1>1, SubSeqProperties
  <2> QED BY <2>2, <1>1
<1>4. /\ RemoveAt(list, k) \in Seq(S)
      /\ Len(RemoveAt(list, k)) = (k - 1) + (n - k)
      /\ \A i \in 1 .. (k - 1) + (n - k) :
             RemoveAt(list, k)[i] = IF i <= k - 1 THEN front[i] ELSE back[i - (k - 1)]
  <2>1. RemoveAt(list, k) = front \o back
    BY DEF RemoveAt
  <2> HIDE DEF front, back, n
  <2>2. /\ front \o back \in Seq(S) /\ Len(front \o back) = Len(front) + Len(back)
        /\ \A i \in 1 .. Len(front) + Len(back) :
               (front \o back)[i] = IF i <= Len(front) THEN front[i] ELSE back[i - Len(front)]
    <3>1. front \in Seq(S) /\ back \in Seq(S)
      BY ONLY <1>2, <1>3
    <3> QED BY ONLY <3>1, ConcatProperties
  <2>3. Len(front) = k - 1 /\ Len(back) = n - k
    BY ONLY <1>2, <1>3
  <2> QED BY ONLY <2>1, <2>2, <2>3
<1>5. n \in Nat /\ k \in 1 .. n
  BY LenProperties
<1>6. (k - 1) + (n - k) = n - 1
  BY ONLY <1>5
<1> QED
  <2> HIDE DEF front, back
  <2>1. ASSUME NEW i \in 1 .. n - 1
        PROVE RemoveAt(list, k)[i] = IF i < k THEN list[i] ELSE list[i + 1]
    <3>0. RemoveAt(list, k)[i] = IF i <= k - 1 THEN front[i] ELSE back[i - (k - 1)]
      BY <1>4, <1>6
    <3>1. CASE i <= k - 1
      BY <3>0, <3>1, <1>1, <1>2
    <3>2. CASE i > k - 1
      <4>1. i - (k - 1) \in 1 .. n - k /\ k + (i - (k - 1)) = i + 1
        BY <3>2, <1>1
      <4> QED BY <4>1, <3>0, <3>2, <1>1, <1>3
    <3> QED BY <3>1, <3>2, <1>1
  <2> QED BY <2>1, <1>4, <1>6

(* A list without repetitions stays one when an item that is not in it is  *)
(* put somewhere.                                                          *)
LEMMA OnceInserted ==
    ASSUME NEW S, NEW list, Once(list, S), NEW k \in 1 .. Len(list) + 1, NEW x \in S, ~IsIn(x, list)
    PROVE  /\ Once(InsertAt(list, k, x), S)
           /\ \A y : IsIn(y, InsertAt(list, k, x)) <=> y = x \/ IsIn(y, list)
<1> PICK n : n = Len(list)
  OBVIOUS
<1> PICK new : new = InsertAt(list, k, x)
  OBVIOUS
<1>1. /\ list \in Seq(S) /\ n \in Nat /\ DOMAIN list = 1 .. n /\ k \in 1 .. n + 1
      /\ \A i, j \in 1 .. n : list[i] = list[j] => i = j
  BY LenProperties DEF Once
<1>2. /\ new \in Seq(S) /\ Len(new) = n + 1
      /\ \A i \in 1 .. n + 1 : new[i] = IF i < k THEN list[i] ELSE IF i = k THEN x ELSE list[i - 1]
  <2>1. /\ InsertAt(list, k, x) \in Seq(S)
        /\ Len(InsertAt(list, k, x)) = Len(list) + 1
        /\ \A i \in 1 .. Len(list) + 1 :
               InsertAt(list, k, x)[i] = IF i < k THEN list[i] ELSE IF i = k THEN x ELSE list[i - 1]
    <3>1. list \in Seq(S) /\ k \in 1 .. Len(list) + 1 /\ x \in S
      BY <1>1
    <3> QED BY ONLY <3>1, InsertedAt
  <2> QED BY ONLY <2>1, n = Len(list), new = InsertAt(list, k, x)
<1>3. DOMAIN new = 1 .. n + 1
  BY <1>2, LenProperties
<1>4. \A i \in 1 .. n : list[i] # x
  BY <1>1 DEF IsIn, ToSet
<1>5. ASSUME NEW i \in 1 .. n + 1, NEW j \in 1 .. n + 1, new[i] = new[j] PROVE i = j
  <2>1. new[i] = IF i < k THEN list[i] ELSE IF i = k THEN x ELSE list[i - 1]
    BY <1>2
  <2>2. new[j] = IF j < k THEN list[j] ELSE IF j = k THEN x ELSE list[j - 1]
    BY <1>2
  <2>3. /\ i < k => i \in 1 .. n
        /\ i > k => i - 1 \in 1 .. n
        /\ j < k => j \in 1 .. n
        /\ j > k => j - 1 \in 1 .. n
    BY <1>1
  <2>4. n \in Nat /\ k \in 1 .. n + 1 /\ i \in 1 .. n + 1 /\ j \in 1 .. n + 1
    BY <1>1
  <2>5. CASE i < k
    <3>1. i \in 1 .. n /\ new[i] = list[i]
      BY ONLY <2>1, <2>3, <2>4, <2>5
    <3>2. CASE j < k
      <4>1. j \in 1 .. n /\ new[j] = list[j]
        BY ONLY <2>2, <2>3, <2>4, <3>2
      <4> QED BY <1>1, <1>5, <3>1, <4>1
    <3>3. CASE j = k
      <4>1. new[j] = x
        BY ONLY <2>2, <3>3, <2>4
      <4> QED BY <1>4, <1>5, <3>1, <4>1
    <3>4. CASE j > k
      <4>1. j - 1 \in 1 .. n /\ new[j] = list[j - 1] /\ j - 1 # i
        BY ONLY <2>2, <2>3, <2>4, <2>5, <3>4
      <4> QED BY <1>1, <1>5, <3>1, <4>1
    <3> QED BY <2>4, <3>2, <3>3, <3>4
  <2>6. CASE i = k
    <3>1. new[i] = x
      BY ONLY <2>1, <2>4, <2>6
    <3>2. CASE j < k
      <4>1. j \in 1 .. n /\ new[j] = list[j]
        BY ONLY <2>2, <2>3, <2>4, <3>2
      <4> QED BY <1>4, <1>5, <3>1, <4>1
    <3>4. CASE j > k
      <4>1. j - 1 \in 1 .. n /\ new[j] = list[j - 1]
        BY ONLY <2>2, <2>3, <2>4, <3>4
      <4> QED BY <1>4, <1>5, <3>1, <4>1
    <3> QED BY <2>4, <2>6, <3>2, <3>4
  <2>7. CASE i > k
    <3>1. i - 1 \in 1 .. n /\ new[i] = list[i - 1]
      BY ONLY <2>1, <2>3, <2>4, <2>7
    <3>2. CASE j < k
      <4>1. j \in 1 .. n /\ new[j] = list[j] /\ i - 1 # j
        BY ONLY <2>2, <2>3, <2>4, <2>7, <3>2
      <4> QED BY <1>1, <1>5, <3>1, <4>1
    <3>3. CASE j = k
      <4>1. new[j] = x
        BY ONLY <2>2, <3>3, <2>4
      <4> QED BY <1>4, <1>5, <3>1, <4>1
    <3>4. CASE j > k
      <4>1. j - 1 \in 1 .. n /\ new[j] = list[j - 1]
        BY ONLY <2>2, <2>3, <2>4, <3>4
      <4>2. i - 1 = j - 1
        BY <1>1, <1>5, <3>1, <4>1
      <4> QED BY ONLY <4>2, <2>4
    <3> QED BY <2>4, <3>2, <3>3, <3>4
  <2> QED BY <2>4, <2>5, <2>6, <2>7
<1>6. ASSUME NEW y PROVE IsIn(y, new) <=> y = x \/ IsIn(y, list)
  <2>1. ASSUME NEW i \in 1 .. n + 1, new[i] = y PROVE y = x \/ \E j \in 1 .. n : list[j] = y
    <3>1. CASE i < k
      <4>1. i \in 1 .. n /\ list[i] = y
        BY <1>1, <1>2, <2>1, <3>1
      <4> QED BY <4>1
    <3>2. CASE i = k
      BY <1>2, <2>1, <3>2
    <3>3. CASE i > k
      <4>1. i - 1 \in 1 .. n /\ list[i - 1] = y
        BY <1>1, <1>2, <2>1, <3>3
      <4> QED BY <4>1
    <3> QED BY <1>1, <3>1, <3>2, <3>3
  <2>2. k \in 1 .. n + 1 /\ new[k] = x
    BY <1>1, <1>2
  <2>3. ASSUME NEW j \in 1 .. n, list[j] = y PROVE \E i \in 1 .. n + 1 : new[i] = y
    <3>1. CASE j < k
      <4>1. j \in 1 .. n + 1 /\ new[j] = y
        BY <1>1, <1>2, <2>3, <3>1
      <4> QED BY <4>1
    <3>2. CASE ~(j < k)
      <4>1. j + 1 \in 1 .. n + 1 /\ ~(j + 1 < k) /\ j + 1 # k /\ (j + 1) - 1 = j
        BY <1>1, <3>2
      <4>2. new[j + 1] = y
        BY <4>1, <1>2, <2>3
      <4> QED BY <4>1, <4>2
    <3> QED BY <3>1, <3>2
  <2>4. IsIn(y, new) <=> \E i \in 1 .. n + 1 : new[i] = y
    BY <1>3 DEF IsIn, ToSet
  <2>5. IsIn(y, list) <=> \E i \in 1 .. n : list[i] = y
    BY <1>1 DEF IsIn, ToSet
  <2> QED BY <2>1, <2>2, <2>3, <2>4, <2>5
<1> QED BY <1>2, <1>3, <1>5, <1>6 DEF Once

(* Without an item a list is the rest of it, in its order.                 *)
InOrderOf(new, list) ==
    \A i, j \in DOMAIN new : i < j => \E a, b \in DOMAIN list : a < b /\ new[i] = list[a] /\ new[j] = list[b]

(* What Without leaves of a list whose items are all different.            *)
LEMMA WithoutOne ==
    ASSUME NEW S, NEW list, Once(list, S), NEW x
    PROVE  /\ Once(Without(list, x), S)
           /\ \A y : IsIn(y, Without(list, x)) <=> y # x /\ IsIn(y, list)
           /\ InOrderOf(Without(list, x), list)
           /\ ~IsIn(x, list) => Without(list, x) = list
<1>1. CASE ~IsIn(x, list)
  <2>1. Without(list, x) = list
    BY <1>1 DEF Without
  <2>2. InOrderOf(list, list)
    BY DEF InOrderOf
  <2> QED BY <1>1, <2>1, <2>2
<1>2. CASE IsIn(x, list)
  <2> PICK n : n = Len(list)
    OBVIOUS
  <2>1. /\ list \in Seq(S) /\ n \in Nat /\ DOMAIN list = 1 .. n
        /\ \A i, j \in 1 .. n : list[i] = list[j] => i = j
    BY LenProperties DEF Once
  <2>2. \E i \in DOMAIN list : list[i] = x
    BY <1>2 DEF IsIn, ToSet
  <2> PICK k : k = CHOOSE i \in DOMAIN list : list[i] = x
    OBVIOUS
  <2>3. k \in 1 .. n /\ list[k] = x
    BY <2>1, <2>2
  <2> PICK new : new = RemoveAt(list, k)
    OBVIOUS
  <2>4. Without(list, x) = new
    BY <1>2 DEF Without
  <2>5. /\ new \in Seq(S) /\ Len(new) = n - 1
        /\ \A i \in 1 .. n - 1 : new[i] = IF i < k THEN list[i] ELSE list[i + 1]
    <3>1. /\ RemoveAt(list, k) \in Seq(S)
          /\ Len(RemoveAt(list, k)) = Len(list) - 1
          /\ \A i \in 1 .. Len(list) - 1 : RemoveAt(list, k)[i] = IF i < k THEN list[i] ELSE list[i + 1]
      <4>1. list \in Seq(S) /\ k \in 1 .. Len(list)
        BY <2>1, <2>3
      <4> QED BY ONLY <4>1, RemovedAt
    <3> QED BY ONLY <3>1, n = Len(list), new = RemoveAt(list, k)
  <2>6. n - 1 \in Nat /\ DOMAIN new = 1 .. n - 1
    BY <2>1, <2>3, <2>5, LenProperties
  <2>7. ASSUME NEW i \in 1 .. n - 1, NEW j \in 1 .. n - 1, i < j
        PROVE \E a, b \in 1 .. n : a < b /\ new[i] = list[a] /\ new[j] = list[b]
    <3>1. i \in 1 .. n /\ j \in 1 .. n /\ i + 1 \in 1 .. n /\ j + 1 \in 1 .. n /\ i < j + 1 /\ i + 1 < j + 1
      BY <2>1, <2>7
    <3>2. CASE j < k
      <4>1. i < k
        BY <2>3, <2>7, <3>2, <2>1
      <4>2. new[i] = list[i] /\ new[j] = list[j]
        BY <2>5, <3>2, <4>1
      <4> QED BY <3>1, <4>2, <2>7
    <3>3. CASE i < k /\ ~(j < k)
      <4>1. new[i] = list[i] /\ new[j] = list[j + 1]
        BY <2>5, <3>3
      <4> QED BY <3>1, <4>1
    <3>4. CASE ~(i < k) /\ ~(j < k)
      <4>1. new[i] = list[i + 1] /\ new[j] = list[j + 1]
        BY <2>5, <3>4
      <4> QED BY <3>1, <4>1
    <3>5. i < k \/ ~(j < k)
      BY <2>1, <2>3, <2>7
    <3> QED BY <3>2, <3>3, <3>4, <3>5
  <2>8. ASSUME NEW i \in 1 .. n - 1, NEW j \in 1 .. n - 1, new[i] = new[j] PROVE i = j
    <3>1. CASE i < j
      <4>1. PICK a, b \in 1 .. n : a < b /\ new[i] = list[a] /\ new[j] = list[b]
        BY <2>7, <3>1
      <4> QED BY <2>1, <2>8, <4>1
    <3>2. CASE j < i
      <4>1. PICK a, b \in 1 .. n : a < b /\ new[j] = list[a] /\ new[i] = list[b]
        BY <2>7, <3>2
      <4> QED BY <2>1, <2>8, <4>1
    <3> QED BY <2>1, <3>1, <3>2
  <2>9. ASSUME NEW y PROVE IsIn(y, new) <=> y # x /\ IsIn(y, list)
    <3>1. ASSUME NEW i \in 1 .. n - 1, new[i] = y PROVE y # x /\ \E j \in 1 .. n : list[j] = y
      <4>1. CASE i < k
        <5>1. i \in 1 .. n /\ list[i] = y /\ i # k
          BY <2>1, <2>3, <2>5, <3>1, <4>1
        <5> QED BY <5>1, <2>1, <2>3
      <4>2. CASE ~(i < k)
        <5>1. i + 1 \in 1 .. n /\ list[i + 1] = y /\ i + 1 # k
          BY <2>1, <2>3, <2>5, <3>1, <4>2
        <5> QED BY <5>1, <2>1, <2>3
      <4> QED BY <4>1, <4>2
    <3>2. ASSUME NEW j \in 1 .. n, list[j] = y, y # x PROVE \E i \in 1 .. n - 1 : new[i] = y
      <4>1. CASE j < k
        <5>1. j \in 1 .. n - 1 /\ new[j] = y
          BY <2>1, <2>3, <2>5, <3>2, <4>1
        <5> QED BY <5>1
      <4>2. CASE j > k
        <5>1. j - 1 \in 1 .. n - 1 /\ ~(j - 1 < k) /\ (j - 1) + 1 = j
          BY <2>1, <2>3, <4>2
        <5>2. new[j - 1] = y
          BY <2>5, <3>2, <5>1
        <5> QED BY <5>1, <5>2
      <4>3. j # k
        BY <2>3, <3>2
      <4>4. j < k \/ j > k
        BY ONLY <2>1, <2>3, <4>3, j \in 1 .. n
      <4> QED BY <4>1, <4>2, <4>4
    <3>3. IsIn(y, new) <=> \E i \in 1 .. n - 1 : new[i] = y
      BY <2>6 DEF IsIn, ToSet
    <3>4. IsIn(y, list) <=> \E i \in 1 .. n : list[i] = y
      BY <2>1 DEF IsIn, ToSet
    <3> QED BY <3>1, <3>2, <3>3, <3>4
  <2>10. Once(new, S)
    <3>1. new \in Seq(S) /\ DOMAIN new = 1 .. n - 1
      BY <2>5, <2>6
    <3>2. \A i, j \in 1 .. n - 1 : new[i] = new[j] => i = j
      BY <2>8
    <3> QED BY ONLY <3>1, <3>2 DEF Once
  <2>11. InOrderOf(new, list)
    <3>1. DOMAIN list = 1 .. n /\ DOMAIN new = 1 .. n - 1
      BY <2>1, <2>6
    <3>2. \A i, j \in 1 .. n - 1 : i < j => \E a, b \in 1 .. n : a < b /\ new[i] = list[a] /\ new[j] = list[b]
      BY <2>7
    <3> QED BY ONLY <3>1, <3>2 DEF InOrderOf
  <2> QED BY <1>2, <2>4, <2>9, <2>10, <2>11
<1> QED BY <1>1, <1>2


(* What an order of values has to do with the items of a list.             *)
LEMMA SortedWithout ==
    ASSUME NEW S, NEW list, Once(list, S), NEW x, NEW value, Sorted(list, value)
    PROVE  Sorted(Without(list, x), value)
BY WithoutOne DEF Sorted, InOrderOf

(* A list stays sorted when the values of its items stay.                  *)
LEMMA SortedAlike ==
    ASSUME NEW list, NEW v, NEW w, Sorted(list, v), \A y : IsIn(y, list) => w[y] = v[y]
    PROVE  Sorted(list, w)
BY DEF Sorted, IsIn, ToSet

(* PlaceAfter is before the first item of a larger value, or at the end.   *)
LEMMA Placed ==
    ASSUME NEW S, NEW list \in Seq(S), NEW value, \A y \in S : value[y] \in Int, NEW x \in Int
    PROVE  /\ PlaceAfter(list, value, x) \in 1 .. Len(list) + 1
           /\ PlaceAfter(list, value, x) <= Len(list) => value[list[PlaceAfter(list, value, x)]] > x
           /\ \A i \in 1 .. PlaceAfter(list, value, x) - 1 : value[list[i]] <= x
<1> DEFINE n == Len(list)
           Place(k) == /\ k <= n => value[list[k]] > x
                       /\ \A i \in 1 .. k - 1 : value[list[i]] <= x
           T == {k \in 1 .. n + 1 : k <= n => value[list[k]] > x}
<1>1. n \in Nat /\ \A i \in 1 .. n : value[list[i]] \in Int
  BY LenProperties, ElementOfSeq
<1>2. T \subseteq Nat /\ T # {}
  <2>1. n + 1 \in T
    BY <1>1
  <2> QED BY <1>1, <2>1
<1>3. PICK k \in T : \A m \in T : k <= m
  <2> HIDE DEF T
  <2> QED BY <1>2, Smallest
<1>4. k \in 1 .. n + 1 /\ Place(k)
  <2>1. ASSUME NEW i \in 1 .. k - 1 PROVE value[list[i]] <= x
    <3>1. i \in 1 .. n /\ i < k
      BY <1>1
    <3>2. i \notin T
      BY <1>1, <1>3, <3>1
    <3> QED BY <1>1, <3>1, <3>2
  <2> QED BY <1>3, <2>1
<1>5. PlaceAfter(list, value, x) = CHOOSE m \in 1 .. n + 1 : Place(m)
  BY DEF PlaceAfter
<1>6. PlaceAfter(list, value, x) \in 1 .. n + 1 /\ Place(PlaceAfter(list, value, x))
  <2> HIDE DEF n, Place
  <2> QED BY <1>4, <1>5
<1> QED BY <1>6

(* vListInsert puts one item in and keeps a sorted list sorted.            *)
LEMMA InsertedByValue ==
    ASSUME NEW S, NEW list, Once(list, S), NEW x \in S, ~IsIn(x, list),
           NEW value, \A y \in S : value[y] \in Int, Sorted(list, value)
    PROVE  /\ Once(InsertByValue(list, x, value), S)
           /\ \A y : IsIn(y, InsertByValue(list, x, value)) <=> y = x \/ IsIn(y, list)
           /\ Sorted(InsertByValue(list, x, value), value)
<1> PICK k : k = PlaceAfter(list, value, value[x])
  OBVIOUS
<1> PICK n : n = Len(list)
  OBVIOUS
<1>1. list \in Seq(S) /\ value[x] \in Int
  BY DEF Once
<1>2. n \in Nat /\ DOMAIN list = 1 .. n /\ \A i \in 1 .. n : value[list[i]] \in Int
  BY <1>1, LenProperties, ElementOfSeq
<1>3. /\ k \in 1 .. n + 1
      /\ k <= n => value[list[k]] > value[x]
      /\ \A i \in 1 .. k - 1 : value[list[i]] <= value[x]
  BY <1>1, Placed
<1>4. InsertByValue(list, x, value) = InsertAt(list, k, x)
  BY DEF InsertByValue
<1> PICK new : new = InsertAt(list, k, x)
  OBVIOUS
<1>5. Once(new, S) /\ \A y : IsIn(y, new) <=> y = x \/ IsIn(y, list)
  <2>1. k \in 1 .. Len(list) + 1
    BY <1>3
  <2> QED BY <2>1, OnceInserted
<1>6. /\ new \in Seq(S) /\ Len(new) = n + 1
      /\ \A i \in 1 .. n + 1 : new[i] = IF i < k THEN list[i] ELSE IF i = k THEN x ELSE list[i - 1]
  <2>1. /\ InsertAt(list, k, x) \in Seq(S)
        /\ Len(InsertAt(list, k, x)) = Len(list) + 1
        /\ \A i \in 1 .. Len(list) + 1 :
               InsertAt(list, k, x)[i] = IF i < k THEN list[i] ELSE IF i = k THEN x ELSE list[i - 1]
    <3>1. list \in Seq(S) /\ k \in 1 .. Len(list) + 1 /\ x \in S
      BY <1>1, <1>3
    <3> QED BY ONLY <3>1, InsertedAt
  <2> QED BY ONLY <2>1, n = Len(list), new = InsertAt(list, k, x)
<1>7. DOMAIN new = 1 .. n + 1
  BY <1>6, LenProperties
<1>8. ASSUME NEW i \in 1 .. n + 1, NEW j \in 1 .. n + 1, i < j PROVE value[new[i]] <= value[new[j]]
  <2>1. \A a, b \in 1 .. n : a < b => value[list[a]] <= value[list[b]]
    BY <1>2 DEF Sorted
  <2>2. \A a \in 1 .. n : a >= k => value[list[a]] > value[x]
    <3>1. ASSUME NEW a \in 1 .. n, a >= k PROVE value[list[a]] > value[x]
      <4>1. k \in 1 .. n /\ value[list[k]] > value[x]
        BY ONLY <1>2, <1>3, <3>1, a \in 1 .. n
      <4>2. a = k \/ k < a
        BY ONLY <3>1, <4>1, a \in 1 .. n
      <4> QED BY <1>1, <1>2, <2>1, <4>1, <4>2
    <3> QED BY <3>1
  <2>3. CASE j < k
    <3>1. i \in 1 .. n /\ j \in 1 .. n /\ new[i] = list[i] /\ new[j] = list[j]
      BY ONLY <1>2, <1>3, <1>6, <1>8, <2>3, i \in 1 .. n + 1, j \in 1 .. n + 1
    <3> QED BY <2>1, <3>1, <1>8
  <2>4. CASE j = k
    <3>1. i \in 1 .. k - 1 /\ new[i] = list[i] /\ new[j] = x
      BY ONLY <1>2, <1>3, <1>6, <1>8, <2>4, i \in 1 .. n + 1, j \in 1 .. n + 1
    <3> QED BY <1>3, <3>1
  <2>5. CASE j > k
    <3>1. j - 1 \in 1 .. n /\ j - 1 >= k /\ new[j] = list[j - 1]
      BY ONLY <1>2, <1>3, <1>6, <2>5, j \in 1 .. n + 1
    <3>2. value[list[j - 1]] > value[x] /\ value[list[j - 1]] \in Int
      BY <1>2, <2>2, <3>1
    <3>3. CASE i < k
      <4>1. i \in 1 .. n /\ i \in 1 .. k - 1 /\ new[i] = list[i]
        BY ONLY <1>2, <1>3, <1>6, <3>3, i \in 1 .. n + 1
      <4>2. value[list[i]] <= value[x] /\ value[list[i]] \in Int
        BY <1>2, <1>3, <4>1
      <4> QED BY ONLY <1>1, <3>1, <3>2, <4>1, <4>2
    <3>4. CASE i = k
      <4>1. new[i] = x
        BY ONLY <1>2, <1>3, <1>6, <3>4, i \in 1 .. n + 1
      <4> QED BY ONLY <1>1, <3>1, <3>2, <4>1
    <3>5. CASE i > k
      <4>1. i - 1 \in 1 .. n /\ i - 1 < j - 1 /\ new[i] = list[i - 1]
        BY ONLY <1>2, <1>3, <1>6, <1>8, <3>5, i \in 1 .. n + 1, j \in 1 .. n + 1
      <4> QED BY <2>1, <3>1, <4>1
    <3> QED BY <1>2, <1>3, <3>3, <3>4, <3>5
  <2> QED BY <1>2, <1>3, <2>3, <2>4, <2>5
<1>9. Sorted(new, value)
  BY <1>7, <1>8 DEF Sorted
<1> QED BY <1>4, <1>5, <1>9

(* The front of a list up to the first item with a larger value.           *)
LEMMA DuePart ==
    ASSUME NEW S, NEW list, Once(list, S), NEW value, \A y \in S : value[y] \in Int,
           NEW x \in Int, Sorted(list, value)
    PROVE  LET due == SubSeq(list, 1, PlaceAfter(list, value, x) - 1)
           IN /\ due \in Seq(S)
              /\ \A y : IsIn(y, due) <=> IsIn(y, list) /\ value[y] <= x
<1> PICK k : k = PlaceAfter(list, value, x)
  OBVIOUS
<1> PICK n : n = Len(list)
  OBVIOUS
<1> PICK due : due = SubSeq(list, 1, k - 1)
  OBVIOUS
<1>1. list \in Seq(S) /\ \A a, b \in DOMAIN list : a < b => value[list[a]] <= value[list[b]]
  BY DEF Once, Sorted
<1>2. n \in Nat /\ DOMAIN list = 1 .. n /\ \A i \in 1 .. n : list[i] \in S /\ value[list[i]] \in Int
  BY <1>1, LenProperties, ElementOfSeq
<1>3. /\ k \in 1 .. n + 1
      /\ k <= n => value[list[k]] > x
      /\ \A i \in 1 .. k - 1 : value[list[i]] <= x
  BY <1>1, Placed
<1>4. due \in Seq(S) /\ Len(due) = k - 1 /\ DOMAIN due = 1 .. k - 1 /\ \A i \in 1 .. k - 1 : due[i] = list[i]
  <2>1. \A i \in 1 .. k - 1 : list[i] \in S
    BY <1>2, <1>3
  <2>2. 1 \in Int /\ k - 1 \in Int
    BY <1>3
  <2>3. /\ SubSeq(list, 1, k - 1) \in Seq(S) /\ Len(SubSeq(list, 1, k - 1)) = IF 1 <= k - 1 THEN (k - 1) - 1 + 1 ELSE 0
        /\ \A i \in 1 .. (k - 1) - 1 + 1 : SubSeq(list, 1, k - 1)[i] = list[1 + i - 1]
    BY ONLY <2>1, <2>2, SubSeqProperties
  <2>4. due \in Seq(S) /\ Len(due) = k - 1 /\ \A i \in 1 .. k - 1 : due[i] = list[i]
    BY ONLY <1>2, <1>3, <2>3, due = SubSeq(list, 1, k - 1)
  <2> QED BY <2>4, LenProperties
<1>5. \A i \in 1 .. n : i >= k => value[list[i]] > x
  <2>1. ASSUME NEW i \in 1 .. n, i >= k PROVE value[list[i]] > x
    <3>1. k \in 1 .. n /\ value[list[k]] > x
      BY ONLY <1>2, <1>3, <2>1, i \in 1 .. n
    <3>2. i = k \/ k < i
      BY ONLY <2>1, <3>1, i \in 1 .. n
    <3> QED BY <1>1, <1>2, <3>1, <3>2
  <2> QED BY <2>1
<1>6. ASSUME NEW y PROVE IsIn(y, due) <=> IsIn(y, list) /\ value[y] <= x
  <2>1. IsIn(y, due) <=> \E i \in 1 .. k - 1 : list[i] = y
    BY <1>4 DEF IsIn, ToSet
  <2>2. IsIn(y, list) <=> \E i \in 1 .. n : list[i] = y
    BY <1>2 DEF IsIn, ToSet
  <2>3. ASSUME NEW i \in 1 .. k - 1, list[i] = y PROVE i \in 1 .. n /\ value[y] <= x
    BY <1>2, <1>3, <2>3
  <2>4. ASSUME NEW i \in 1 .. n, list[i] = y, value[y] <= x PROVE i \in 1 .. k - 1
    <3>1. ~(i >= k)
      BY <1>2, <1>5, <2>4
    <3> QED BY <1>2, <1>3, <3>1
  <2> QED BY <2>1, <2>2, <2>3, <2>4
<1> QED BY <1>4, <1>6


(* A list with one more at its end, and the rest of one.                   *)
LEMMA OnceAppended ==
    ASSUME NEW S, NEW list, Once(list, S), NEW x \in S, ~IsIn(x, list)
    PROVE  /\ Once(Append(list, x), S)
           /\ \A y : IsIn(y, Append(list, x)) <=> y = x \/ IsIn(y, list)
<1> PICK new : new = Append(list, x)
  OBVIOUS
<1> PICK n : n = Len(list)
  OBVIOUS
<1>1. /\ list \in Seq(S) /\ n \in Nat /\ DOMAIN list = 1 .. n
      /\ \A i, j \in 1 .. n : list[i] = list[j] => i = j
  BY LenProperties DEF Once
<1>2. new \in Seq(S) /\ Len(new) = n + 1 /\ \A i \in 1 .. n : new[i] = list[i] /\ new[n + 1] = x
  BY <1>1
<1>3. DOMAIN new = 1 .. n + 1 /\ new[n + 1] = x
  BY <1>1, <1>2, LenProperties
<1>4. \A i \in 1 .. n : list[i] # x
  BY <1>1 DEF IsIn, ToSet
<1>5. \A i \in 1 .. n + 1 : i \in 1 .. n \/ i = n + 1
  BY <1>1
<1>6. \A i, j \in 1 .. n + 1 : new[i] = new[j] => i = j
  BY <1>1, <1>2, <1>3, <1>4, <1>5
<1>7. Once(new, S)
  BY ONLY <1>2, <1>3, <1>6 DEF Once
<1>8. ASSUME NEW y PROVE IsIn(y, new) <=> y = x \/ IsIn(y, list)
  <2>1. IsIn(y, new) <=> \E i \in 1 .. n + 1 : new[i] = y
    BY <1>3 DEF IsIn, ToSet
  <2>2. IsIn(y, list) <=> \E i \in 1 .. n : list[i] = y
    BY <1>1 DEF IsIn, ToSet
  <2>3. n + 1 \in 1 .. n + 1 /\ \A i \in 1 .. n : i \in 1 .. n + 1
    BY <1>1
  <2> QED BY <1>2, <1>3, <1>5, <2>1, <2>2, <2>3
<1> QED BY <1>7, <1>8

(* A list without its head.                                                *)
LEMMA OnceTail ==
    ASSUME NEW S, NEW list, Once(list, S), list # <<>>
    PROVE  /\ Head(list) \in S /\ IsIn(Head(list), list)
           /\ Once(Tail(list), S)
           /\ \A y : IsIn(y, Tail(list)) <=> y # Head(list) /\ IsIn(y, list)
<1> PICK new : new = Tail(list)
  OBVIOUS
<1> PICK n : n = Len(list)
  OBVIOUS
<1>1. /\ list \in Seq(S) /\ n \in Nat \ {0} /\ DOMAIN list = 1 .. n
      /\ \A i, j \in 1 .. n : list[i] = list[j] => i = j
  BY LenProperties, EmptySeq DEF Once
<1>2. Head(list) = list[1] /\ Head(list) \in S
  BY <1>1
<1>3. new \in Seq(S) /\ Len(new) = n - 1 /\ \A i \in 1 .. n - 1 : new[i] = list[i + 1]
  BY <1>1, HeadTailProperties
<1>4. DOMAIN new = 1 .. n - 1
  BY <1>3, LenProperties
<1>5. \A i \in 1 .. n - 1 : i + 1 \in 1 .. n /\ i + 1 # 1
  BY <1>1
<1>6. \A i, j \in 1 .. n - 1 : new[i] = new[j] => i = j
  <2>1. ASSUME NEW i \in 1 .. n - 1, NEW j \in 1 .. n - 1, new[i] = new[j] PROVE i = j
    <3>1. i + 1 = j + 1
      BY <1>1, <1>3, <1>5, <2>1
    <3> QED BY <3>1
  <2> QED BY <2>1
<1>7. Once(new, S)
  BY ONLY <1>3, <1>4, <1>6 DEF Once
<1>8. ASSUME NEW y PROVE IsIn(y, new) <=> y # Head(list) /\ IsIn(y, list)
  <2>1. IsIn(y, new) <=> \E i \in 1 .. n - 1 : new[i] = y
    BY <1>4 DEF IsIn, ToSet
  <2>2. IsIn(y, list) <=> \E i \in 1 .. n : list[i] = y
    BY <1>1 DEF IsIn, ToSet
  <2>3. \A i \in 1 .. n : i # 1 => i - 1 \in 1 .. n - 1 /\ (i - 1) + 1 = i
    BY <1>1
  <2>4. 1 \in 1 .. n
    BY <1>1
  <2>5. ASSUME NEW i \in 1 .. n - 1, new[i] = y PROVE y # Head(list) /\ \E j \in 1 .. n : list[j] = y
    BY <1>1, <1>2, <1>3, <1>5, <2>4, <2>5
  <2>6. ASSUME NEW j \in 1 .. n, list[j] = y, y # Head(list) PROVE \E i \in 1 .. n - 1 : new[i] = y
    <3>1. j # 1
      BY <1>2, <2>6
    <3>2. j - 1 \in 1 .. n - 1 /\ new[j - 1] = list[j]
      BY <1>3, <2>3, <3>1
    <3> QED BY <2>6, <3>2
  <2> QED BY <2>1, <2>2, <2>5, <2>6
<1>9. IsIn(Head(list), list)
  BY <1>1, <1>2 DEF IsIn, ToSet
<1> QED BY <1>2, <1>7, <1>8, <1>9

(* A list turned by one: its items are the same, and its last is the first *)
(* that was.                                                               *)
LEMMA Turned1 ==
    ASSUME NEW S, NEW list, Once(list, S), list # <<>>
    PROVE  /\ Once(Turn(list), S)
           /\ \A y : IsIn(y, Turn(list)) <=> IsIn(y, list)
           /\ Turn(list) # <<>> /\ Len(Turn(list)) = Len(list)
           /\ Last(Turn(list)) = Head(list)
           /\ Len(list) > 1 => Head(Turn(list)) # Head(list)
<1> PICK h, rest : h = Head(list) /\ rest = Tail(list)
  OBVIOUS
<1>1. h \in S /\ IsIn(h, list) /\ Once(rest, S) /\ \A y : IsIn(y, rest) <=> y # h /\ IsIn(y, list)
  BY OnceTail
<1>2. rest \in Seq(S) /\ Len(rest) = Len(list) - 1 /\ Len(list) \in Nat \ {0}
  BY HeadTailProperties, LenProperties, EmptySeq DEF Once
<1>3. Turn(list) = Append(rest, h)
  <2>1. rest \o <<h>> = Append(rest, h)
    BY <1>1, <1>2
  <2> QED BY <2>1 DEF Turn
<1>4. Once(Append(rest, h), S) /\ \A y : IsIn(y, Append(rest, h)) <=> y = h \/ IsIn(y, rest)
  BY <1>1, OnceAppended
<1>5. /\ Append(rest, h) # <<>> /\ Len(Append(rest, h)) = Len(list)
      /\ Append(rest, h)[Len(list)] = h
      /\ Len(list) > 1 => Head(Append(rest, h)) = rest[1] /\ 1 \in 1 .. Len(rest)
  BY <1>1, <1>2
<1>6. Last(Append(rest, h)) = h
  BY <1>5 DEF Last
<1>7. Len(list) > 1 => Head(Append(rest, h)) # h
  <2>1. Len(list) > 1 => IsIn(rest[1], rest)
    BY <1>2, <1>5, LenProperties DEF IsIn, ToSet
  <2> QED BY <1>1, <1>5, <2>1
<1> QED BY <1>1, <1>3, <1>4, <1>5, <1>6, <1>7

(* The next entry of a ready list that is not empty is a task of it.       *)
LEMMA NextOfRing ==
    ASSUME NEW S, NEW ring, Once(ring, S), IsIn(End, ring), Length(ring) # 0
    PROVE  /\ Once(NextEntry(ring), S)
           /\ \A y : IsIn(y, NextEntry(ring)) <=> IsIn(y, ring)
           /\ Last(NextEntry(ring)) # End /\ IsIn(Last(NextEntry(ring)), ring)
<1>1. ring \in Seq(S) /\ Len(ring) \in Nat /\ ring # <<>>
  BY LenProperties DEF Once, IsIn, ToSet
<1>2. Len(ring) > 1
  <2> PICK n : n = Len(ring)
    OBVIOUS
  <2>1. n \in Nat \ {0}
    BY ONLY <1>1, EmptySeq, n = Len(ring)
  <2>2. n - 1 # 0
    BY n = Len(ring) DEF Length
  <2>3. n > 1
    BY ONLY <2>1, <2>2
  <2> QED BY ONLY <2>3, n = Len(ring)
<1>3. /\ Once(Turn(ring), S) /\ \A y : IsIn(y, Turn(ring)) <=> IsIn(y, ring)
      /\ Turn(ring) # <<>> /\ Len(Turn(ring)) = Len(ring)
      /\ Last(Turn(ring)) = Head(ring) /\ Head(Turn(ring)) # Head(ring)
  BY <1>1, <1>2, Turned1
<1>4. IsIn(Head(ring), ring)
  BY <1>1, OnceTail
<1>5. CASE Head(ring) # End
  BY <1>3, <1>4, <1>5 DEF NextEntry
<1>6. CASE Head(ring) = End
  <2> PICK r : r = Turn(ring)
    OBVIOUS
  <2>1. /\ Once(Turn(r), S) /\ \A y : IsIn(y, Turn(r)) <=> IsIn(y, r)
        /\ Last(Turn(r)) = Head(r)
    BY <1>3, Turned1
  <2>2. IsIn(Head(r), r)
    BY <1>3, OnceTail
  <2>3. NextEntry(ring) = Turn(r)
    BY <1>6 DEF NextEntry
  <2> QED BY <1>3, <1>6, <2>1, <2>2, <2>3
<1> QED BY <1>5, <1>6

(* A ready list is empty when it has only its end marker.                  *)
LEMMA LengthOfRing ==
    ASSUME NEW S, NEW ring, Once(ring, S), IsIn(End, ring)
    PROVE  /\ Length(ring) \in Nat
           /\ Length(ring) = 0 <=> \A y : IsIn(y, ring) => y = End
<1> PICK n : n = Len(ring)
  OBVIOUS
<1>1. /\ ring \in Seq(S) /\ n \in Nat /\ DOMAIN ring = 1 .. n
      /\ \A i, j \in 1 .. n : ring[i] = ring[j] => i = j
  BY LenProperties DEF Once
<1>2. \A y : IsIn(y, ring) <=> \E i \in 1 .. n : ring[i] = y
  BY <1>1 DEF IsIn, ToSet
<1>3. PICK e \in 1 .. n : ring[e] = End
  BY <1>2
<1>4. Length(ring) = n - 1 /\ n - 1 \in Nat
  BY <1>1, <1>3 DEF Length
<1>5. ASSUME n = 1, NEW y, IsIn(y, ring) PROVE y = End
  <2>1. \A i \in 1 .. n : i = e
    BY <1>5, <1>3
  <2> QED BY <1>2, <1>3, <1>5, <2>1
<1>6. ASSUME n # 1, \A y : IsIn(y, ring) => y = End PROVE FALSE
  <2>1. PICK i \in 1 .. n : i # e
    <3>1. 1 \in 1 .. n /\ 2 \in 1 .. n
      BY <1>1, <1>3, <1>6
    <3> QED BY <3>1
  <2>2. ring[i] = End
    BY <1>2, <1>6
  <2> QED BY <1>1, <1>3, <2>1, <2>2
<1>7. n - 1 = 0 <=> n = 1
  BY <1>1
<1> QED BY <1>4, <1>5, <1>6, <1>7

(* Nothing is in the empty list.                                           *)
LEMMA EmptyList == \A y : ~IsIn(y, <<>>)
BY DEF IsIn, ToSet

(* Something is in a list that is not empty.                               *)
LEMMA NotEmpty ==
    ASSUME NEW S, NEW list \in Seq(S), list # <<>> PROVE \E y \in S : IsIn(y, list)
<1>1. Len(list) \in Nat \ {0} /\ DOMAIN list = 1 .. Len(list)
  BY LenProperties, EmptySeq
<1>2. 1 \in DOMAIN list /\ list[1] \in S
  BY <1>1, ElementOfSeq
<1> QED BY <1>2 DEF IsIn, ToSet

----------------------------------------------------------------------------
(* The moves of a task between the lists.                                  *)

(* What a move of a task between the lists changes and keeps.              *)
Same(s, n, but) == /\ n = [f \in KernelFields |-> n[f]]
                   /\ \A f \in KernelFields \ but : n[f] = s[f]

StateFields == {"ready", "delayed", "overflow", "suspendedTasks"}
Leaves(s, n, t) ==
    /\ Lists(n) /\ Same(s, n, StateFields)
    /\ \A p \in Priorities : \A u : IsIn(u, n.ready[p]) <=> u # t /\ IsIn(u, s.ready[p])
    /\ \A u : IsIn(u, n.delayed) <=> u # t /\ IsIn(u, s.delayed)
    /\ Rdy(n) = Rdy(s) \ {t} /\ Evt(n) = Evt(s)
    /\ OffLists(n, t)

(* A task of the application is neither the idle task nor a marker.        *)
LEMMA NotIdle == \A t \in Tasks : t \in All /\ t # Idle /\ t # End
BY KernelAssumption DEF All

(* A task taken off its state list is in none.                             *)
LEMMA OffState == ASSUME NEW s, Lists(s), NEW t \in Tasks PROVE Leaves(s, OffStateList(s, t), t)
<1> PICK n : n = OffStateList(s, t)
  OBVIOUS
<1>1. t \in All /\ t # Idle /\ t # End
  BY NotIdle
<1>2. /\ n = [f \in KernelFields |-> n[f]]
      /\ n.ready = [p \in Priorities |-> Without(s.ready[p], t)]
      /\ n.delayed = Without(s.delayed, t)
      /\ n.overflow = Without(s.overflow, t)
      /\ n.suspendedTasks = Without(s.suspendedTasks, t)
  BY Zenon DEF OffStateList, Lists, Typed, KernelFields
<1>3. Same(s, n, StateFields)
  BY <1>2 DEF OffStateList, Lists, Typed, KernelFields, Same, StateFields
<1>4. /\ n.xTickCount = s.xTickCount /\ n.xNextTaskUnblockTime = s.xNextTaskUnblockTime
      /\ n.xPendedTicks = s.xPendedTicks /\ n.uxSchedulerSuspended = s.uxSchedulerSuspended
      /\ n.pxCurrentTCB = s.pxCurrentTCB /\ n.uxPriority = s.uxPriority
      /\ n.uxBasePriority = s.uxBasePriority /\ n.rank = s.rank /\ n.wake = s.wake
      /\ n.ucNotifyState = s.ucNotifyState /\ n.halted = s.halted
      /\ n.xYieldPending = s.xYieldPending /\ n.pendSV = s.pendSV
      /\ n.tasksWaitingTermination = s.tasksWaitingTermination
      /\ n.events = s.events /\ n.pendingReady = s.pendingReady
  BY <1>3 DEF Same, StateFields, KernelFields
<1>5. /\ Typed(s) /\ ReadyLists(s) /\ WaitLists(s) /\ Apart(s) /\ Events(s) /\ Times(s)
  BY DEF Lists
<1>6. \A p \in Priorities : /\ Once(n.ready[p], All \cup {End})
                            /\ \A u : IsIn(u, n.ready[p]) <=> u # t /\ IsIn(u, s.ready[p])
  <2>1. ASSUME NEW p \in Priorities
        PROVE /\ Once(n.ready[p], All \cup {End})
              /\ \A u : IsIn(u, n.ready[p]) <=> u # t /\ IsIn(u, s.ready[p])
    <3>1. Once(s.ready[p], All \cup {End}) /\ n.ready[p] = Without(s.ready[p], t)
      BY <1>2, <1>5 DEF ReadyLists, Marked
    <3> QED BY <3>1, WithoutOne
  <2> QED BY <2>1
<1>7. /\ Once(n.delayed, Tasks) /\ \A u : IsIn(u, n.delayed) <=> u # t /\ IsIn(u, s.delayed)
      /\ Once(n.overflow, Tasks) /\ \A u : IsIn(u, n.overflow) <=> u # t /\ IsIn(u, s.overflow)
      /\ Once(n.suspendedTasks, Tasks)
      /\ \A u : IsIn(u, n.suspendedTasks) <=> u # t /\ IsIn(u, s.suspendedTasks)
  BY <1>2, <1>5, WithoutOne DEF WaitLists
<1>8. Rdy(n) = Rdy(s) \ {t} /\ Evt(n) = Evt(s)
  BY <1>4, <1>6 DEF Rdy, Evt, IsReady
<1>9. Typed(n) /\ Events(n)
  BY <1>2, <1>4, <1>5 DEF Typed, Events
<1>10. ReadyLists(n)
  <2>1. DOMAIN n.ready = Priorities /\ Idle \in Rdy(n)
    BY <1>1, <1>2, <1>5, <1>8 DEF ReadyLists
  <2>2. \A p \in Priorities : Marked(n.ready[p])
    BY <1>1, <1>5, <1>6 DEF ReadyLists, Marked
  <2>3. \A p \in Priorities : \A u \in All : IsIn(u, n.ready[p]) => n.uxPriority[u] = p
    BY <1>4, <1>5, <1>6 DEF ReadyLists
  <2> QED BY <2>1, <2>2, <2>3 DEF ReadyLists
<1>11. WaitLists(n)
  BY <1>4, <1>5, <1>7 DEF WaitLists
<1>12. Apart(n)
  BY <1>5, <1>7, <1>8 DEF Apart
<1>13. Times(n)
  <2>1. Sorted(n.delayed, n.wake) /\ Sorted(n.overflow, n.wake)
    BY <1>2, <1>4, <1>5, SortedWithout DEF Times, WaitLists
  <2> QED BY <1>4, <1>5, <1>7, <2>1 DEF Times
<1>14. OffLists(n, t)
  BY <1>7, <1>8 DEF OffLists
<1> QED BY <1>3, <1>6, <1>7, <1>8, <1>9, <1>10, <1>11, <1>12, <1>13, <1>14 DEF Leaves, Lists


(* Fields in which no list has a part. *)
OtherFields == {"uxTopReadyPriority", "xYieldPending", "pendSV", "xNumOfOverflows", "uxCurrentNumberOfTasks",
                "item", "uxMutexesHeld", "ulNotifiedValue", "ucDelayAborted", "pxCurrentTCB",
                "uxSchedulerSuspended", "xPendedTicks", "ucNotifyState", "rank", "uxBasePriority", "xTickCount"}

(* Other fields do not disturb the lists.                                  *)
LEMMA SameLists ==
    ASSUME NEW s, Lists(s), NEW n, Typed(n), Same(s, n, OtherFields)
    PROVE  Lists(n) /\ Rdy(n) = Rdy(s) /\ Evt(n) = Evt(s)
<1>1. /\ n.ready = s.ready /\ n.delayed = s.delayed /\ n.overflow = s.overflow
      /\ n.suspendedTasks = s.suspendedTasks /\ n.tasksWaitingTermination = s.tasksWaitingTermination
      /\ n.events = s.events /\ n.pendingReady = s.pendingReady /\ n.uxPriority = s.uxPriority
      /\ n.wake = s.wake /\ n.xNextTaskUnblockTime = s.xNextTaskUnblockTime
  BY DEF Same, OtherFields, KernelFields
<1>2. /\ Typed(s) /\ ReadyLists(s) /\ WaitLists(s) /\ Apart(s) /\ Events(s) /\ Times(s)
  BY DEF Lists
<1>3. Rdy(n) = Rdy(s) /\ Evt(n) = Evt(s)
  BY <1>1 DEF Rdy, Evt, IsReady
<1>4. ReadyLists(n)
  BY <1>1, <1>2, <1>3 DEF ReadyLists
<1>5. WaitLists(n) /\ Times(n)
  BY <1>1, <1>2 DEF WaitLists, Times
<1>6. Apart(n)
  BY <1>1, <1>2, <1>3 DEF Apart
<1>7. Events(n)
  BY <1>1, <1>2 DEF Events
<1> QED BY <1>3, <1>4, <1>5, <1>6, <1>7 DEF Lists

EventFields == {"events", "pendingReady"}

(* A task taken off its event list is in none, nor pended.                 *)
LEMMA OffEvent ==
    ASSUME NEW s, Lists(s), NEW t
    PROVE  LET n == OffEventList(s, t)
           IN /\ Lists(n) /\ Same(s, n, EventFields)
              /\ Rdy(n) = Rdy(s) /\ Evt(n) = Evt(s) \ {t}
              /\ \A u : IsIn(u, n.pendingReady) <=> u # t /\ IsIn(u, s.pendingReady)
<1> PICK n : n = OffEventList(s, t)
  OBVIOUS
<1>1. /\ n = [f \in KernelFields |-> n[f]]
      /\ n.events = [e \in EventLists |-> Without(s.events[e], t)]
      /\ n.pendingReady = Without(s.pendingReady, t)
  BY DEF OffEventList, Lists, Typed, KernelFields
<1>2. Same(s, n, EventFields)
  BY <1>1 DEF OffEventList, Lists, Typed, KernelFields, Same, EventFields
<1>3. /\ n.xTickCount = s.xTickCount /\ n.xNextTaskUnblockTime = s.xNextTaskUnblockTime
      /\ n.xPendedTicks = s.xPendedTicks /\ n.uxSchedulerSuspended = s.uxSchedulerSuspended
      /\ n.pxCurrentTCB = s.pxCurrentTCB /\ n.uxPriority = s.uxPriority
      /\ n.uxBasePriority = s.uxBasePriority /\ n.rank = s.rank /\ n.wake = s.wake
      /\ n.ucNotifyState = s.ucNotifyState /\ n.halted = s.halted
      /\ n.xYieldPending = s.xYieldPending /\ n.pendSV = s.pendSV
      /\ n.tasksWaitingTermination = s.tasksWaitingTermination
      /\ n.ready = s.ready /\ n.delayed = s.delayed /\ n.overflow = s.overflow
      /\ n.suspendedTasks = s.suspendedTasks
  BY <1>2 DEF Same, EventFields, KernelFields
<1>4. /\ Typed(s) /\ ReadyLists(s) /\ WaitLists(s) /\ Apart(s) /\ Events(s) /\ Times(s)
  BY DEF Lists
<1>5. Rdy(n) = Rdy(s)
  BY <1>3 DEF Rdy, IsReady
<1>6. \A e \in EventLists : /\ Once(n.events[e], Tasks)
                            /\ \A u : IsIn(u, n.events[e]) <=> u # t /\ IsIn(u, s.events[e])
  <2>1. ASSUME NEW e \in EventLists
        PROVE /\ Once(n.events[e], Tasks)
              /\ \A u : IsIn(u, n.events[e]) <=> u # t /\ IsIn(u, s.events[e])
    <3>1. Once(s.events[e], Tasks) /\ n.events[e] = Without(s.events[e], t)
      BY <1>1, <1>4 DEF Events
    <3> QED BY <3>1, WithoutOne
  <2> QED BY <2>1
<1>7. Once(n.pendingReady, Tasks) /\ \A u : IsIn(u, n.pendingReady) <=> u # t /\ IsIn(u, s.pendingReady)
  BY <1>1, <1>4, WithoutOne DEF Events
<1>8. Evt(n) = Evt(s) \ {t}
  BY <1>6 DEF Evt
<1>9. Events(n)
  <2>1. DOMAIN n.events = EventLists
    BY <1>1
  <2>2. \A e, f \in EventLists : \A u : IsIn(u, n.events[e]) /\ IsIn(u, n.events[f]) => e = f
    BY <1>4, <1>6 DEF Events
  <2> QED BY <1>6, <1>7, <2>1, <2>2 DEF Events
<1>10. Typed(n) /\ WaitLists(n) /\ Times(n)
  BY <1>1, <1>3, <1>4 DEF Typed, WaitLists, Times
<1>11. ReadyLists(n)
  BY <1>3, <1>4, <1>5 DEF ReadyLists
<1>12. Apart(n)
  BY <1>3, <1>4, <1>5 DEF Apart
<1> QED BY <1>2, <1>5, <1>7, <1>8, <1>9, <1>10, <1>11, <1>12 DEF Lists

(* The end of a ready list is one of its places. *)
LEMMA RingEnd ==
    ASSUME NEW ring, Marked(ring), NEW t \in All, ~IsIn(t, ring)
    PROVE  /\ Once(InsertEnd(ring, t), All \cup {End})
           /\ \A u : IsIn(u, InsertEnd(ring, t)) <=> u = t \/ IsIn(u, ring)
<1> PICK k : k = Len(ring)
  OBVIOUS
<1>1. Once(ring, All \cup {End}) /\ ring \in Seq(All \cup {End}) /\ ring # <<>>
  BY EmptyList DEF Marked, Once
<1>2. k \in Nat \ {0}
  BY <1>1, EmptySeq
<1>3. k \in 1 .. Len(ring) + 1
  BY ONLY <1>2, k = Len(ring)
<1>4. InsertEnd(ring, t) = InsertAt(ring, k, t)
  BY DEF InsertEnd
<1> QED BY <1>1, <1>3, <1>4, OnceInserted

ReadyFields == {"ready", "uxTopReadyPriority"}
Joins(s, n, t) ==
    /\ Lists(n) /\ Same(s, n, ReadyFields)
    /\ \A p \in Priorities : \A u : IsIn(u, n.ready[p]) <=> (u = t /\ p = s.uxPriority[t]) \/ IsIn(u, s.ready[p])
    /\ n.uxTopReadyPriority = s.uxTopReadyPriority \cup {s.uxPriority[t]}
    /\ Rdy(n) = Rdy(s) \cup {t} /\ Evt(n) = Evt(s)

(* prvAddTaskToReadyList of a task that is in no state list.               *)
LEMMA AddReady ==
    ASSUME NEW s, Lists(s), NEW t \in Tasks, OffLists(s, t)
    PROVE  Joins(s, prvAddTaskToReadyList(s, t), t)
<1> PICK n : n = prvAddTaskToReadyList(s, t)
  OBVIOUS
<1> PICK p : p = s.uxPriority[t]
  OBVIOUS
<1>1. t \in All /\ t # Idle /\ t # End
  BY NotIdle
<1>2. /\ Typed(s) /\ ReadyLists(s) /\ WaitLists(s) /\ Apart(s) /\ Events(s) /\ Times(s)
  BY DEF Lists
<1>3. p \in Priorities /\ DOMAIN s.ready = Priorities
  BY <1>1, <1>2 DEF Typed, ReadyLists
<1>4. /\ n = [f \in KernelFields |-> n[f]]
      /\ n.ready = [s.ready EXCEPT ![p] = InsertEnd(@, t)]
      /\ n.uxTopReadyPriority = s.uxTopReadyPriority \cup {p}
  BY <1>2 DEF prvAddTaskToReadyList, Typed, KernelFields
<1>5. Same(s, n, ReadyFields)
  BY <1>2, <1>4 DEF prvAddTaskToReadyList, Typed, KernelFields, Same, ReadyFields
<1>6. /\ n.xTickCount = s.xTickCount /\ n.xNextTaskUnblockTime = s.xNextTaskUnblockTime
      /\ n.xPendedTicks = s.xPendedTicks /\ n.uxSchedulerSuspended = s.uxSchedulerSuspended
      /\ n.pxCurrentTCB = s.pxCurrentTCB /\ n.uxPriority = s.uxPriority
      /\ n.uxBasePriority = s.uxBasePriority /\ n.rank = s.rank /\ n.wake = s.wake
      /\ n.ucNotifyState = s.ucNotifyState /\ n.halted = s.halted
      /\ n.xYieldPending = s.xYieldPending /\ n.pendSV = s.pendSV
      /\ n.tasksWaitingTermination = s.tasksWaitingTermination
      /\ n.events = s.events /\ n.pendingReady = s.pendingReady /\ n.delayed = s.delayed
      /\ n.overflow = s.overflow /\ n.suspendedTasks = s.suspendedTasks
  BY <1>5 DEF Same, ReadyFields, KernelFields
<1>7. \A q \in Priorities : ~IsIn(t, s.ready[q])
  BY <1>1 DEF OffLists, Rdy, IsReady
<1>8. /\ Once(n.ready[p], All \cup {End})
      /\ \A u : IsIn(u, n.ready[p]) <=> u = t \/ IsIn(u, s.ready[p])
  <2>1. n.ready[p] = InsertEnd(s.ready[p], t) /\ Marked(s.ready[p]) /\ ~IsIn(t, s.ready[p])
    BY <1>2, <1>3, <1>4, <1>7 DEF ReadyLists
  <2> QED BY <1>1, <2>1, RingEnd
<1>9. \A q \in Priorities \ {p} : n.ready[q] = s.ready[q]
  BY <1>3, <1>4
<1>10. \A q \in Priorities : \A u : IsIn(u, n.ready[q]) <=> (u = t /\ q = p) \/ IsIn(u, s.ready[q])
  BY <1>8, <1>9
<1>11. Rdy(n) = Rdy(s) \cup {t} /\ Evt(n) = Evt(s)
  <2>1. \A u \in All : IsReady(n, u) <=> u = t \/ IsReady(s, u)
    BY <1>3, <1>10 DEF IsReady
  <2> QED BY <1>1, <1>6, <2>1 DEF Rdy, Evt
<1>12. Typed(n) /\ WaitLists(n) /\ Events(n) /\ Times(n)
  BY <1>2, <1>4, <1>6 DEF Typed, WaitLists, Events, Times
<1>13. ReadyLists(n)
  <2>1. DOMAIN n.ready = Priorities /\ Idle \in Rdy(n)
    BY <1>2, <1>3, <1>4, <1>11 DEF ReadyLists
  <2>2. ASSUME NEW q \in Priorities PROVE Marked(n.ready[q])
    BY <1>2, <1>8, <1>9 DEF ReadyLists, Marked
  <2>3. \A q \in Priorities : \A u \in All : IsIn(u, n.ready[q]) => n.uxPriority[u] = q
    BY <1>2, <1>6, <1>10 DEF ReadyLists
  <2> QED BY <2>1, <2>2, <2>3 DEF ReadyLists
<1>14. Apart(n)
  BY <1>2, <1>6, <1>11 DEF Apart, OffLists
<1> QED BY <1>4, <1>5, <1>10, <1>11, <1>12, <1>13, <1>14 DEF Joins, Lists

(* Fewer fields changed are no more changed.                               *)
LEMMA SameMore == ASSUME NEW s, NEW n, NEW A, NEW B, Same(s, n, A), A \subseteq B PROVE Same(s, n, B)
BY DEF Same

(* Two steps change the fields of both.                                    *)
LEMMA SameBoth ==
    ASSUME NEW s, NEW m, NEW n, NEW A, NEW B, NEW C, Same(s, m, A), Same(m, n, B), A \cup B \subseteq C
    PROVE  Same(s, n, C)
BY DEF Same

(* Tasks that are made ready. *)
ListFields == StateFields \cup EventFields \cup ReadyFields
Readied(s, n, T) ==
    /\ Lists(n) /\ Bits(n) /\ Same(s, n, ListFields)
    /\ Rdy(n) = Rdy(s) \cup T /\ Evt(n) = Evt(s) \ T
    /\ \A u : IsIn(u, n.delayed) <=> u \notin T /\ IsIn(u, s.delayed)
    /\ \A u : IsIn(u, n.pendingReady) <=> u \notin T /\ IsIn(u, s.pendingReady)

(* The bitmap gets the bit of the list a task joins.                       *)
LEMMA BitsJoined ==
    ASSUME NEW s, Lists(s), Bits(s), NEW t \in Tasks, NEW n,
           n.uxTopReadyPriority = s.uxTopReadyPriority \cup {s.uxPriority[t]},
           \A p \in Priorities : \A u :
               IsIn(u, n.ready[p]) <=> (u = t /\ p = s.uxPriority[t]) \/ (u # t /\ IsIn(u, s.ready[p]))
    PROVE  Bits(n)
<1> PICK p : p = s.uxPriority[t]
  OBVIOUS
<1>1. t \in All /\ p \in Priorities
  BY NotIdle DEF Lists, Typed
<1>2. \A q \in Priorities : IsIn(t, s.ready[q]) => q = p
  BY <1>1 DEF Lists, ReadyLists
<1>3. ASSUME NEW q \in Priorities
      PROVE (\E u \in All : IsIn(u, n.ready[q])) <=> q = p \/ \E u \in All : IsIn(u, s.ready[q])
  <2>1. ASSUME NEW u \in All, IsIn(u, n.ready[q]) PROVE q = p \/ \E v \in All : IsIn(v, s.ready[q])
    BY <2>1
  <2>2. ASSUME NEW u \in All, IsIn(u, s.ready[q]) PROVE \E v \in All : IsIn(v, n.ready[q])
    <3>1. CASE u = t
      BY <1>1, <1>2, <2>2, <3>1
    <3>2. CASE u # t
      BY <2>2, <3>2
    <3> QED BY <3>1, <3>2
  <2>3. q = p => IsIn(t, n.ready[q])
    OBVIOUS
  <2> QED BY <1>1, <2>1, <2>2, <2>3
<1>4. n.uxTopReadyPriority = {q \in Priorities : \E u \in All : IsIn(u, s.ready[q])} \cup {p}
  BY DEF Bits
<1>5. n.uxTopReadyPriority = {q \in Priorities : \E u \in All : IsIn(u, n.ready[q])}
  BY <1>1, <1>3, <1>4
<1> QED BY <1>5 DEF Bits

(* A task taken off its lists and made ready.                              *)
LEMMA MadeReady ==
    ASSUME NEW s, Lists(s), Bits(s), NEW t \in Tasks
    PROVE  Readied(s, MakeReady(s, t), {t})
<1> PICK m : m = OffStateList(s, t)
  OBVIOUS
<1> PICK k : k = OffEventList(m, t)
  OBVIOUS
<1> PICK n : n = prvAddTaskToReadyList(k, t)
  OBVIOUS
<1>1. MakeReady(s, t) = n
  BY DEF MakeReady
<1>2. Leaves(s, m, t)
  BY OffState
<1>3. /\ Lists(k) /\ Same(m, k, EventFields)
      /\ Rdy(k) = Rdy(m) /\ Evt(k) = Evt(m) \ {t}
      /\ \A u : IsIn(u, k.pendingReady) <=> u # t /\ IsIn(u, m.pendingReady)
  BY <1>2, OffEvent DEF Leaves
<1>4. /\ k.ready = m.ready /\ k.delayed = m.delayed /\ k.overflow = m.overflow
      /\ k.suspendedTasks = m.suspendedTasks /\ k.uxPriority = m.uxPriority
      /\ k.uxTopReadyPriority = m.uxTopReadyPriority
  BY <1>3 DEF Same, EventFields, KernelFields
<1>5. OffLists(k, t)
  BY <1>2, <1>3, <1>4 DEF Leaves, OffLists
<1>6. Joins(k, n, t)
  BY <1>3, <1>5, AddReady
<1>7. Same(s, n, ListFields)
  <2>1. Same(s, m, StateFields) /\ Same(m, k, EventFields) /\ Same(k, n, ReadyFields)
    BY <1>2, <1>3, <1>6 DEF Leaves, Joins
  <2>2. Same(s, k, StateFields \cup EventFields)
    BY <2>1, SameBoth
  <2> QED BY <2>1, <2>2, SameBoth DEF ListFields
<1>8. /\ m.uxPriority = s.uxPriority /\ m.pendingReady = s.pendingReady
      /\ m.uxTopReadyPriority = s.uxTopReadyPriority
  BY <1>2 DEF Leaves, Same, StateFields, KernelFields
<1>9. n.delayed = k.delayed /\ n.pendingReady = k.pendingReady
  BY <1>6 DEF Joins, Same, ReadyFields, KernelFields
<1>10. Rdy(n) = Rdy(s) \cup {t} /\ Evt(n) = Evt(s) \ {t}
  BY <1>2, <1>3, <1>6 DEF Leaves, Joins
<1>11. Bits(n)
  <2>1. n.uxTopReadyPriority = s.uxTopReadyPriority \cup {s.uxPriority[t]}
    BY <1>4, <1>6, <1>8 DEF Joins
  <2>2. \A p \in Priorities : \A u :
            IsIn(u, n.ready[p]) <=> (u = t /\ p = s.uxPriority[t]) \/ (u # t /\ IsIn(u, s.ready[p]))
    BY <1>2, <1>4, <1>6, <1>8 DEF Leaves, Joins
  <2> QED BY <2>1, <2>2, BitsJoined
<1>12. /\ \A u : IsIn(u, n.delayed) <=> u \notin {t} /\ IsIn(u, s.delayed)
       /\ \A u : IsIn(u, n.pendingReady) <=> u \notin {t} /\ IsIn(u, s.pendingReady)
  BY <1>2, <1>3, <1>4, <1>8, <1>9 DEF Leaves
<1> QED BY <1>1, <1>6, <1>7, <1>10, <1>11, <1>12 DEF Readied, Joins

(* Those of a list are made ready one after the other: the kernel after    *)
(* each of them exists.                                                    *)
LEMMA MadeAllReady ==
    ASSUME NEW s, Lists(s), Bits(s), NEW list \in Seq(Tasks)
    PROVE  Readied(s, MakeAllReady(s, list), ToSet(list))
<1> PICK N : N = Len(list)
  OBVIOUS
<1>1. N \in Nat /\ DOMAIN list = 1 .. N /\ \A i \in 1 .. N : list[i] \in Tasks
  BY LenProperties, ElementOfSeq
<1> DEFINE Run(g, k) == g = [n \in 0 .. k |-> IF n = 0 THEN s ELSE MakeReady(g[n - 1], list[n])]
           Runs == {k \in 0 .. N : \E g : Run(g, k)}
           T(i) == {list[j] : j \in 1 .. i}
<1>2. N \in Runs
  <2>1. 0 \in Runs
    <3> DEFINE h == [n \in 0 .. 0 |-> s]
    <3>1. \A n \in 0 .. 0 : h[n] = IF n = 0 THEN s ELSE MakeReady(h[n - 1], list[n])
      OBVIOUS
    <3>2. h = [n \in 0 .. 0 |-> h[n]]
      OBVIOUS
    <3> HIDE DEF h
    <3>3. Run(h, 0)
      BY <3>1, <3>2
    <3> QED BY <1>1, <3>3
  <2>2. ASSUME NEW k \in 0 .. N - 1, k \in Runs PROVE k + 1 \in Runs
    <3>1. PICK g : Run(g, k)
      BY <2>2
    <3> DEFINE h == [n \in 0 .. k + 1 |-> IF n = 0 THEN s ELSE MakeReady(g[n - 1], list[n])]
    <3>2. ASSUME NEW n \in 0 .. k + 1
          PROVE h[n] = IF n = 0 THEN s ELSE MakeReady(h[n - 1], list[n])
      <4>1. CASE n = 0
        BY <4>1
      <4>2. CASE n # 0
        <5>1. n - 1 \in 0 .. k /\ n - 1 \in 0 .. k + 1 /\ k \in Int
          BY <4>2
        <5>2. g[n - 1] = IF n - 1 = 0 THEN s ELSE MakeReady(g[(n - 1) - 1], list[n - 1])
          BY <3>1, <5>1
        <5>3. h[n - 1] = IF n - 1 = 0 THEN s ELSE MakeReady(g[(n - 1) - 1], list[n - 1])
          BY <5>1
        <5>4. h[n] = MakeReady(g[n - 1], list[n])
          BY <4>2
        <5> QED BY <4>2, <5>2, <5>3, <5>4
      <4> QED BY <4>1, <4>2
    <3>3. h = [n \in 0 .. k + 1 |-> h[n]]
      OBVIOUS
    <3> HIDE DEF h
    <3>4. Run(h, k + 1)
      BY <3>2, <3>3
    <3>5. k + 1 \in 0 .. N
      BY <1>1
    <3> QED BY <3>4, <3>5
  <2> HIDE DEF Runs
  <2> QED BY <1>1, <2>1, <2>2, UpTo
<1> DEFINE After == CHOOSE g : Run(g, N)
<1>3. Run(After, N)
  BY <1>2
<1>4. MakeAllReady(s, list) = After[N]
  BY DEF MakeAllReady
<1> HIDE DEF After
<1> DEFINE Done == {i \in 0 .. N : Readied(s, After[i], T(i))}
<1>5. N \in Done
  <2>1. 0 \in Done
    <3>1. After[0] = s /\ T(0) = {}
      BY <1>1, <1>3
    <3>2. Same(s, s, ListFields)
      BY DEF Same, Lists, Typed
    <3>3. Readied(s, s, {})
      BY <3>2 DEF Readied
    <3>4. Readied(s, After[0], T(0))
      BY <3>1, <3>3
    <3> HIDE DEF T
    <3> QED BY <1>1, <3>4
  <2>2. ASSUME NEW k \in 0 .. N - 1, k \in Done PROVE k + 1 \in Done
    <3>1. k + 1 \in 0 .. N /\ k + 1 # 0 /\ (k + 1) - 1 = k /\ k \in 0 .. N /\ k + 1 \in 1 .. N
      BY <1>1
    <3> PICK m, n, t : m = After[k] /\ n = After[k + 1] /\ t = list[k + 1]
      OBVIOUS
    <3>2. n = MakeReady(m, t)
      BY <1>3, <3>1
    <3>3. t \in Tasks /\ Readied(s, m, T(k))
      BY <1>1, <2>2, <3>1
    <3>4. Readied(m, n, {t})
      <4>1. Lists(m) /\ Bits(m) /\ t \in Tasks
        BY <3>3 DEF Readied
      <4> QED BY <3>2, <4>1, MadeReady
    <3>5. T(k + 1) = T(k) \cup {t}
      <4>1. \A j \in 1 .. k + 1 : j \in 1 .. k \/ j = k + 1
        BY <1>1
      <4>2. \A j \in 1 .. k : j \in 1 .. k + 1
        BY <1>1
      <4> QED BY <3>1, <4>1, <4>2
    <3> HIDE DEF T
    <3>6. Same(s, n, ListFields)
      BY <3>3, <3>4, SameBoth DEF Readied
    <3>7. Readied(s, n, T(k + 1))
      BY <3>3, <3>4, <3>5, <3>6 DEF Readied
    <3> QED BY <3>1, <3>7
  <2> HIDE DEF Done
  <2> QED BY <1>1, <2>1, <2>2, UpTo
<1>6. T(N) = ToSet(list)
  BY <1>1 DEF ToSet
<1> QED BY <1>4, <1>5, <1>6

----------------------------------------------------------------------------
(* The tick.                                                               *)

(* The next unblock time is that of the first of the delayed tasks. *)
LEMMA ResetNext ==
    ASSUME NEW s, Typed(s), ReadyLists(s), WaitLists(s), Apart(s), Events(s),
           Sorted(s.delayed, s.wake), Sorted(s.overflow, s.wake)
    PROVE  LET n == prvResetNextTaskUnblockTime(s)
           IN /\ Lists(n) /\ Same(s, n, {"xNextTaskUnblockTime"})
              /\ Rdy(n) = Rdy(s) /\ Evt(n) = Evt(s)
<1> PICK n : n = prvResetNextTaskUnblockTime(s)
  OBVIOUS
<1>1. /\ n = [f \in KernelFields |-> n[f]]
      /\ n.xNextTaskUnblockTime = IF s.delayed = <<>> THEN portMAX_DELAY ELSE s.wake[Head(s.delayed)]
  BY DEF prvResetNextTaskUnblockTime, Typed, KernelFields
<1>2. Same(s, n, {"xNextTaskUnblockTime"})
  BY <1>1 DEF prvResetNextTaskUnblockTime, Typed, KernelFields, Same
<1>3. /\ n.ready = s.ready /\ n.delayed = s.delayed /\ n.overflow = s.overflow
      /\ n.suspendedTasks = s.suspendedTasks /\ n.tasksWaitingTermination = s.tasksWaitingTermination
      /\ n.events = s.events /\ n.pendingReady = s.pendingReady /\ n.uxPriority = s.uxPriority
      /\ n.wake = s.wake /\ n.xTickCount = s.xTickCount
      /\ n.xPendedTicks = s.xPendedTicks /\ n.uxSchedulerSuspended = s.uxSchedulerSuspended
      /\ n.pxCurrentTCB = s.pxCurrentTCB /\ n.uxBasePriority = s.uxBasePriority /\ n.rank = s.rank
      /\ n.ucNotifyState = s.ucNotifyState /\ n.halted = s.halted
      /\ n.xYieldPending = s.xYieldPending /\ n.pendSV = s.pendSV
  BY <1>2 DEF Same, KernelFields
<1>4. Rdy(n) = Rdy(s) /\ Evt(n) = Evt(s)
  BY <1>3 DEF Rdy, Evt, IsReady
<1>5. s.delayed # <<>> => Head(s.delayed) \in Tasks
  BY OnceTail DEF WaitLists
<1>6. n.xNextTaskUnblockTime \in TickType
  BY <1>1, <1>5, NotIdle, KernelAssumption DEF Typed, TickType
<1>7. ASSUME NEW t, IsIn(t, s.delayed) PROVE s.wake[t] >= n.xNextTaskUnblockTime
  <2>1. /\ s.delayed \in Seq(Tasks) /\ DOMAIN s.delayed = 1 .. Len(s.delayed) /\ Len(s.delayed) \in Nat
        /\ \A i \in 1 .. Len(s.delayed) : s.delayed[i] \in Tasks
    BY LenProperties, ElementOfSeq DEF WaitLists, Once
  <2>2. PICK i \in 1 .. Len(s.delayed) : s.delayed[i] = t
    BY <1>7, <2>1 DEF IsIn, ToSet
  <2>3. s.delayed # <<>>
    BY <1>7, EmptyList
  <2>4. Head(s.delayed) = s.delayed[1] /\ 1 \in 1 .. Len(s.delayed)
    BY <2>1, <2>2, <2>3
  <2>5. s.wake[s.delayed[i]] \in Int /\ i \in Int
    BY <2>1, NotIdle, KernelAssumption DEF Typed, TickType
  <2>6. CASE i = 1
    BY <1>1, <2>2, <2>3, <2>4, <2>5, <2>6
  <2>7. CASE 1 < i
    BY <1>1, <2>1, <2>2, <2>3, <2>4, <2>5, <2>7 DEF Sorted
  <2> QED BY <2>2, <2>6, <2>7
<1>8. Typed(n)
  BY <1>1, <1>3, <1>6 DEF Typed
<1>9. ReadyLists(n)
  BY <1>3, <1>4 DEF ReadyLists
<1>10. WaitLists(n) /\ Times(n)
  BY <1>3, <1>7 DEF WaitLists, Times
<1>11. Apart(n)
  BY <1>3, <1>4 DEF Apart
<1>12. Events(n)
  BY <1>3 DEF Events
<1> QED BY <1>2, <1>4, <1>8, <1>9, <1>10, <1>11, <1>12 DEF Lists

(* taskSWITCH_DELAYED_LISTS, while nothing is left to wake before the      *)
(* wrap.                                                                   *)
LEMMA Exchanged ==
    ASSUME NEW s, Lists(s), s.delayed = <<>>
    PROVE  LET n == taskSWITCH_DELAYED_LISTS(s)
           IN /\ Lists(n)
              /\ Same(s, n, {"delayed", "overflow", "xNumOfOverflows", "xNextTaskUnblockTime"})
              /\ Rdy(n) = Rdy(s) /\ Evt(n) = Evt(s)
<1> PICK m : m = [s EXCEPT !.delayed = s.overflow, !.overflow = s.delayed, !.xNumOfOverflows = @ + 1]
  OBVIOUS
<1>1. /\ Typed(s) /\ ReadyLists(s) /\ WaitLists(s) /\ Apart(s) /\ Events(s) /\ Times(s)
  BY DEF Lists
<1>2. taskSWITCH_DELAYED_LISTS(s) = prvResetNextTaskUnblockTime(m)
  BY DEF taskSWITCH_DELAYED_LISTS, configASSERT
<1>3. m = [f \in KernelFields |-> m[f]] /\ m.delayed = s.overflow /\ m.overflow = s.delayed
  BY <1>1 DEF Typed, KernelFields
<1>4. Same(s, m, {"delayed", "overflow", "xNumOfOverflows"})
  BY <1>1, <1>3 DEF Typed, KernelFields, Same
<1>5. /\ m.ready = s.ready /\ m.suspendedTasks = s.suspendedTasks
      /\ m.tasksWaitingTermination = s.tasksWaitingTermination
      /\ m.events = s.events /\ m.pendingReady = s.pendingReady /\ m.uxPriority = s.uxPriority
      /\ m.wake = s.wake /\ m.xTickCount = s.xTickCount /\ m.xNextTaskUnblockTime = s.xNextTaskUnblockTime
      /\ m.xPendedTicks = s.xPendedTicks /\ m.uxSchedulerSuspended = s.uxSchedulerSuspended
      /\ m.pxCurrentTCB = s.pxCurrentTCB /\ m.uxBasePriority = s.uxBasePriority /\ m.rank = s.rank
      /\ m.ucNotifyState = s.ucNotifyState /\ m.halted = s.halted
      /\ m.xYieldPending = s.xYieldPending /\ m.pendSV = s.pendSV
  BY <1>4 DEF Same, KernelFields
<1>6. Rdy(m) = Rdy(s) /\ Evt(m) = Evt(s)
  BY <1>5 DEF Rdy, Evt, IsReady
<1>7. Typed(m) /\ Events(m)
  BY <1>1, <1>3, <1>5 DEF Typed, Events
<1>8. ReadyLists(m)
  BY <1>1, <1>5, <1>6 DEF ReadyLists
<1>9. WaitLists(m) /\ Sorted(m.delayed, m.wake) /\ Sorted(m.overflow, m.wake)
  BY <1>1, <1>3, <1>5 DEF WaitLists, Times
<1>10. Apart(m)
  BY <1>1, <1>3, <1>5, <1>6, EmptyList DEF Apart
<1> PICK n : n = prvResetNextTaskUnblockTime(m)
  OBVIOUS
<1>11. /\ Lists(n) /\ Same(m, n, {"xNextTaskUnblockTime"})
       /\ Rdy(n) = Rdy(m) /\ Evt(n) = Evt(m)
  BY <1>7, <1>8, <1>9, <1>10, ResetNext
<1>12. Same(s, n, {"delayed", "overflow", "xNumOfOverflows", "xNextTaskUnblockTime"})
  BY <1>4, <1>11, SameBoth
<1> QED BY <1>2, <1>6, <1>11, <1>12

TickFields == ListFields \cup {"xTickCount", "xNumOfOverflows", "xNextTaskUnblockTime", "xPendedTicks"}
Ticked(s, n) ==
    /\ Kernel(n) /\ Same(s, n, TickFields)
    /\ Rdy(s) \subseteq Rdy(n) /\ Evt(n) \subseteq Evt(s)
    /\ \A u : IsIn(u, n.pendingReady) => IsIn(u, s.pendingReady)

(* The tick count wraps to 0.                                              *)
LEMMA NextTick ==
    ASSUME NEW x \in TickType
    PROVE  Plus(x, 1) = IF x = portMAX_DELAY THEN 0 ELSE x + 1
<1>1. portMAX_DELAY \in Nat /\ portMAX_DELAY > 0 /\ x \in 0 .. portMAX_DELAY
  BY KernelAssumption DEF TickType
<1>2. (x + 1) % (portMAX_DELAY + 1) = IF x = portMAX_DELAY THEN 0 ELSE x + 1
  BY ONLY <1>1
<1> QED BY <1>2 DEF Plus


(* xTaskIncrementTick wakes all whose time has come, and tells of a        *)
(* switch.                                                                 *)
LEMMA TickStep ==
    ASSUME NEW s, Kernel(s)
    PROVE  LET r == xTaskIncrementTick(s)
           IN /\ Ticked(s, r.kernel)
              /\ s.uxSchedulerSuspended # 0 => Same(s, r.kernel, {"xPendedTicks"}) /\ ~r.switch
              /\ s.uxSchedulerSuspended = 0 =>
                     /\ s.xYieldPending => r.switch
                     /\ ~r.switch => \A t \in Rdy(r.kernel) : t \in Rdy(s) \/ s.uxPriority[t] <= Current(s)
<1> DEFINE r == xTaskIncrementTick(s)
           tick == Plus(s.xTickCount, 1)
           counted == [s EXCEPT !.xTickCount = tick]
           exchanged == IF tick = 0 THEN taskSWITCH_DELAYED_LISTS(counted) ELSE counted
           unblocks == tick >= exchanged.xNextTaskUnblockTime
           due == IF unblocks THEN SubSeq(exchanged.delayed, 1, PlaceAfter(exchanged.delayed, exchanged.wake, tick) - 1)
                  ELSE <<>>
           woken == MakeAllReady(exchanged, due)
           done == IF unblocks THEN prvResetNextTaskUnblockTime(woken) ELSE woken
<1>1. /\ Lists(s) /\ Typed(s) /\ ReadyLists(s) /\ WaitLists(s) /\ Apart(s) /\ Events(s) /\ Times(s)
      /\ Bits(s) /\ Unready(s) /\ AtWrap(s) /\ Own(s)
  BY DEF Kernel, Lists
<1>2. CASE s.uxSchedulerSuspended # 0
  <2> PICK n : n = [s EXCEPT !.xPendedTicks = @ + 1]
    OBVIOUS
  <2>1. r.kernel = n /\ r.switch = FALSE
    BY <1>2 DEF xTaskIncrementTick
  <2>2. Same(s, n, {"xPendedTicks"}) /\ n.xPendedTicks = s.xPendedTicks + 1
    BY <1>1 DEF Typed, KernelFields, Same
  <2>3. /\ n.xTickCount = s.xTickCount /\ n.xNextTaskUnblockTime = s.xNextTaskUnblockTime
        /\ n.uxSchedulerSuspended = s.uxSchedulerSuspended
        /\ n.pxCurrentTCB = s.pxCurrentTCB /\ n.uxPriority = s.uxPriority
        /\ n.uxBasePriority = s.uxBasePriority /\ n.rank = s.rank /\ n.wake = s.wake
        /\ n.ucNotifyState = s.ucNotifyState /\ n.halted = s.halted
        /\ n.xYieldPending = s.xYieldPending /\ n.pendSV = s.pendSV
        /\ n.delayed = s.delayed /\ n.pendingReady = s.pendingReady
        /\ n.ready = s.ready /\ n.uxTopReadyPriority = s.uxTopReadyPriority
    BY <2>2 DEF Same, KernelFields
  <2>4. Typed(n)
    BY <1>1, <2>2, <2>3 DEF Typed, Same
  <2>5. Same(s, n, OtherFields) /\ Same(s, n, TickFields)
    BY <2>2, SameMore DEF OtherFields, TickFields
  <2>6. Lists(n) /\ Rdy(n) = Rdy(s) /\ Evt(n) = Evt(s)
    BY <1>1, <2>4, <2>5, SameLists
  <2>7. Bits(n) /\ Unready(n) /\ AtWrap(n) /\ Own(n)
    BY <1>1, <2>3, <2>6 DEF Bits, Unready, AtWrap, Own
  <2>8. Ticked(s, n)
    BY <2>3, <2>5, <2>6, <2>7 DEF Ticked, Kernel
  <2> QED BY <1>2, <2>1, <2>2, <2>8
<1>3. CASE s.uxSchedulerSuspended = 0
  <2> DEFINE asked == \/ \E t \in ToSet(due) : s.uxPriority[t] > Current(s)
                     \/ Length(done.ready[Current(s)]) > 1
                     \/ s.xYieldPending
  <2>1. r = [kernel |-> done, switch |-> asked]
    <3>1. r = IF s.uxSchedulerSuspended # 0
              THEN [kernel |-> [s EXCEPT !.xPendedTicks = @ + 1], switch |-> FALSE]
              ELSE [kernel |-> done, switch |-> asked]
      BY Zenon DEF xTaskIncrementTick
    <3> HIDE DEF r, done, asked
    <3> PICK z : z = [kernel |-> done, switch |-> asked]
      BY Zenon
    <3> PICK y : y = [kernel |-> [s EXCEPT !.xPendedTicks = @ + 1], switch |-> FALSE]
      BY Zenon
    <3>2. r = IF s.uxSchedulerSuspended # 0 THEN y ELSE z
      BY <3>1, Zenon
    <3>3. s.uxSchedulerSuspended = 0
      BY <1>3
    <3>4. r = z
      BY ONLY <3>2, <3>3
    <3> QED BY <3>4, Zenon
  <2> HIDE DEF asked
  <2> PICK c : c = counted
    OBVIOUS
  <2> PICK x : x = exchanged
    OBVIOUS
  <2> PICK d : d = due
    <3> HIDE DEF due
    <3> QED OBVIOUS
  <2> PICK w : w = woken
    OBVIOUS
  <2> PICK n : n = done
    OBVIOUS
  <2> PICK k : k = tick
    OBVIOUS
  <2>2. k \in TickType /\ (s.xTickCount = portMAX_DELAY <=> k = 0) /\ portMAX_DELAY \in Nat
    BY <1>1, NextTick, KernelAssumption DEF Typed, TickType
  <2>3. Same(s, c, {"xTickCount"}) /\ c.xTickCount = k
    BY <1>1 DEF Typed, KernelFields, Same
  <2>4. /\ c.xNextTaskUnblockTime = s.xNextTaskUnblockTime
        /\ c.xPendedTicks = s.xPendedTicks /\ c.uxSchedulerSuspended = s.uxSchedulerSuspended
        /\ c.pxCurrentTCB = s.pxCurrentTCB /\ c.uxPriority = s.uxPriority
        /\ c.uxBasePriority = s.uxBasePriority /\ c.rank = s.rank /\ c.wake = s.wake
        /\ c.ucNotifyState = s.ucNotifyState /\ c.halted = s.halted
        /\ c.xYieldPending = s.xYieldPending /\ c.pendSV = s.pendSV /\ c.delayed = s.delayed
    BY <2>3 DEF Same, KernelFields
  <2>5. Lists(c) /\ Rdy(c) = Rdy(s) /\ Evt(c) = Evt(s)
    <3>1. Typed(c)
      BY <1>1, <2>2, <2>3, <2>4 DEF Typed, Same
    <3>2. Same(s, c, OtherFields)
      BY <2>3, SameMore DEF OtherFields
    <3> QED BY <1>1, <3>1, <3>2, SameLists
  <2>6. /\ Lists(x) /\ Rdy(x) = Rdy(s) /\ Evt(x) = Evt(s)
        /\ Same(c, x, {"delayed", "overflow", "xNumOfOverflows", "xNextTaskUnblockTime"})
    <3>1. CASE k = 0
      <4>1. c.delayed = <<>> /\ x = taskSWITCH_DELAYED_LISTS(c)
        BY <1>1, <2>2, <2>4, <3>1 DEF AtWrap
      <4> QED BY <2>5, <4>1, Exchanged
    <3>2. CASE k # 0
      <4>1. x = c
        BY <3>2
      <4> QED BY <2>5, <4>1 DEF Same, Lists, Typed
    <3> QED BY <3>1, <3>2
  <2>7. /\ x.xTickCount = k /\ x.ready = s.ready /\ x.uxTopReadyPriority = s.uxTopReadyPriority
        /\ x.pendingReady = s.pendingReady
    BY ONLY <2>3, <2>6 DEF Same, KernelFields
  <2>8. Bits(x)
    BY <1>1, <2>7 DEF Bits
  <2>9. /\ Typed(x) /\ WaitLists(x) /\ Times(x) /\ \A y \in Tasks : x.wake[y] \in Int
        /\ x.xNextTaskUnblockTime \in TickType
    <3>1. Typed(x) /\ WaitLists(x) /\ Times(x)
      BY <2>6 DEF Lists
    <3>2. x.wake \in [All -> TickType] /\ x.xNextTaskUnblockTime \in TickType
      BY <3>1 DEF Typed
    <3>3. TickType \subseteq Int
      BY <2>2 DEF TickType
    <3> HIDE DEF exchanged
    <3> QED BY ONLY <3>1, <3>2, <3>3, NotIdle
  <2> HIDE DEF counted, tick, exchanged
  <2>10. /\ d \in Seq(Tasks)
         /\ k >= x.xNextTaskUnblockTime => \A y : IsIn(y, d) <=> IsIn(y, x.delayed) /\ x.wake[y] <= k
         /\ ~(k >= x.xNextTaskUnblockTime) => d = <<>>
    <3>1. CASE k >= x.xNextTaskUnblockTime
      <4>1. d = SubSeq(x.delayed, 1, PlaceAfter(x.delayed, x.wake, k) - 1)
        BY <3>1
      <4>2. Once(x.delayed, Tasks) /\ Sorted(x.delayed, x.wake) /\ k \in Int
        BY <2>2, <2>9, KernelAssumption DEF WaitLists, Times, TickType
      <4> QED BY ONLY <2>9, <3>1, <4>1, <4>2, DuePart
    <3>2. CASE ~(k >= x.xNextTaskUnblockTime)
      BY <3>2
    <3> QED BY <3>1, <3>2
  <2>11. Readied(x, w, ToSet(d))
    BY <2>6, <2>8, <2>10, MadeAllReady
  <2>12. /\ Lists(n) /\ Same(w, n, {"xNextTaskUnblockTime"}) /\ Rdy(n) = Rdy(w) /\ Evt(n) = Evt(w)
    <3>1. CASE k >= x.xNextTaskUnblockTime
      <4>1. n = prvResetNextTaskUnblockTime(w)
        BY <3>1
      <4>2. /\ Typed(w) /\ ReadyLists(w) /\ WaitLists(w) /\ Apart(w) /\ Events(w)
            /\ Sorted(w.delayed, w.wake) /\ Sorted(w.overflow, w.wake)
        BY <2>11 DEF Readied, Lists, Times
      <4> QED BY <4>1, <4>2, ResetNext
    <3>2. CASE ~(k >= x.xNextTaskUnblockTime)
      <4>1. n = w
        BY <3>2
      <4> QED BY <2>11, <4>1 DEF Same, Lists, Typed, Readied
    <3> QED BY <3>1, <3>2
  <2>13. Same(s, n, TickFields)
    <3>1. Same(s, x, {"xTickCount", "delayed", "overflow", "xNumOfOverflows", "xNextTaskUnblockTime"})
      BY <2>3, <2>6, SameBoth
    <3>2. Same(x, w, ListFields)
      BY <2>11 DEF Readied
    <3>3. Same(s, w, TickFields)
      BY <3>1, <3>2, SameBoth DEF TickFields, ListFields, StateFields
    <3> QED BY <2>12, <3>3, SameBoth DEF TickFields
  <2>14. /\ n.ready = w.ready /\ n.uxTopReadyPriority = w.uxTopReadyPriority /\ n.delayed = w.delayed
         /\ n.pendingReady = w.pendingReady /\ n.xTickCount = w.xTickCount
    BY <2>12 DEF Same, KernelFields
  <2>15. w.xTickCount = k
    BY <2>7, <2>11 DEF Readied, Same, ListFields, StateFields, EventFields, ReadyFields, KernelFields
  <2>16. Bits(n)
    BY <2>11, <2>14 DEF Bits, Readied
  <2>17. Rdy(n) = Rdy(s) \cup ToSet(d) /\ Evt(n) = Evt(s) \ ToSet(d)
    BY <2>6, <2>11, <2>12 DEF Readied
  <2>18. Unready(n)
    <3>1. \A u : IsIn(u, n.pendingReady) => IsIn(u, s.pendingReady)
      BY <2>7, <2>11, <2>14 DEF Readied
    <3> QED BY <1>1, <2>17, <3>1 DEF Unready
  <2>19. AtWrap(n)
    <3> SUFFICES ASSUME k = portMAX_DELAY PROVE n.delayed = <<>>
      BY <2>14, <2>15 DEF AtWrap
    <3>1. k >= x.xNextTaskUnblockTime
      BY <2>2, <2>9 DEF TickType
    <3>2. \A y : IsIn(y, x.delayed) => y \in Tasks
      BY <2>9, LenProperties, ElementOfSeq DEF WaitLists, Once, IsIn, ToSet
    <3>3. \A y \in Tasks : x.wake[y] <= k
      BY <2>2, <2>9, NotIdle DEF Typed, TickType
    <3>4. \A y : ~IsIn(y, w.delayed)
      BY <2>10, <2>11, <3>1, <3>2, <3>3 DEF Readied, IsIn
    <3>5. w.delayed \in Seq(Tasks)
      BY <2>11 DEF Readied, Lists, WaitLists, Once
    <3> QED BY <2>14, <3>4, <3>5, NotEmpty
  <2>20. Own(n)
    <3>1. n.uxBasePriority = s.uxBasePriority /\ n.uxPriority = s.uxPriority
      BY <2>13 DEF Same, TickFields, ListFields, StateFields, EventFields, ReadyFields, KernelFields
    <3> QED BY <1>1, <3>1 DEF Own
  <2>21. Ticked(s, n)
    <3>1. \A u : IsIn(u, n.pendingReady) => IsIn(u, s.pendingReady)
      BY <2>7, <2>11, <2>14 DEF Readied
    <3> QED BY <2>12, <2>13, <2>16, <2>17, <2>18, <2>19, <2>20, <3>1 DEF Ticked, Kernel
  <2>22. r.kernel = n /\ r.switch = (\/ \E t \in ToSet(d) : s.uxPriority[t] > Current(s)
                                     \/ Length(n.ready[Current(s)]) > 1
                                     \/ s.xYieldPending)
    <3>1. asked = (\/ \E t \in ToSet(d) : s.uxPriority[t] > Current(s)
                   \/ Length(n.ready[Current(s)]) > 1
                   \/ s.xYieldPending)
      BY DEF asked
    <3>2. n = done
      OBVIOUS
    <3> HIDE DEF done, r
    <3>3. r.kernel = done /\ r.switch = asked
      BY <2>1
    <3> QED BY <3>1, <3>2, <3>3
  <2> HIDE DEF r
  <2>23. ASSUME ~r.switch, NEW t \in Rdy(n) PROVE t \in Rdy(s) \/ s.uxPriority[t] <= Current(s)
    <3>1. t \in ToSet(d) => ~(s.uxPriority[t] > Current(s))
      BY <2>22, <2>23
    <3>2. t \in All /\ s.uxPriority[t] \in Int /\ Current(s) \in Int
      BY <1>1, KernelAssumption DEF Rdy, Typed, Current, Priorities
    <3> QED BY <2>17, <3>1, <3>2
  <2>24. s.xYieldPending => r.switch
    BY <2>22
  <2>25. ~(s.uxSchedulerSuspended # 0)
    BY <1>3
  <2>26. \A t \in Rdy(r.kernel) : ~r.switch => t \in Rdy(s) \/ s.uxPriority[t] <= Current(s)
    BY <2>22, <2>23
  <2>27. Ticked(s, r.kernel)
    BY <2>21, <2>22
  <2> QED BY ONLY <2>24, <2>25, <2>26, <2>27 DEF r
<1>4. s.uxSchedulerSuspended # 0 \/ s.uxSchedulerSuspended = 0
  OBVIOUS
<1> HIDE DEF r
<1> QED BY <1>2, <1>3, <1>4

----------------------------------------------------------------------------
(* What the steps of a handler, or of another task, keep.                  *)

(* What a call or a handler that wakes tasks leaves: the scheduler as it   *)
(* was, no task less ready, none more in an event list or told to wait;    *)
(* those of P, and those it has taken from event lists, may be pended.     *)
Keeps(s, n, P) ==
    /\ Kernel(n)
    /\ n.pxCurrentTCB = s.pxCurrentTCB /\ n.uxSchedulerSuspended = s.uxSchedulerSuspended
    /\ Rdy(s) \subseteq Rdy(n) /\ Evt(n) \subseteq Evt(s)
    /\ \A u : IsIn(u, n.pendingReady) =>
           IsIn(u, s.pendingReady) \/ (s.uxSchedulerSuspended # 0 /\ (u \in Evt(s) \/ u \in P))
    /\ \A u \in Tasks : n.ucNotifyState[u] = "waiting" => s.ucNotifyState[u] = "waiting" /\ u \notin P
    /\ Highest(s) => Highest(n)

(* A kernel left alone is kept.                                            *)
LEMMA KeepsSelf == ASSUME NEW s, Kernel(s) PROVE Keeps(s, s, {})
BY DEF Keeps

(* Two steps that keep the kernel keep it together.                        *)
LEMMA KeepsBoth ==
    ASSUME NEW s, NEW m, NEW n, NEW P, NEW R, Keeps(s, m, P), Keeps(m, n, R)
    PROVE  Keeps(s, n, P \cup R)
BY DEF Keeps

(* A task goes from its state list, if any, to its ready list. *)
MoveFields == StateFields \cup ReadyFields
Moved(s, n, t) ==
    /\ Lists(n) /\ Bits(n) /\ Same(s, n, MoveFields)
    /\ Rdy(n) = Rdy(s) \cup {t} /\ Evt(n) = Evt(s)
    /\ \A u : IsIn(u, n.delayed) <=> u # t /\ IsIn(u, s.delayed)

(* A task moved from its state list to its ready list.                     *)
LEMMA MovedReady ==
    ASSUME NEW s, Lists(s), Bits(s), NEW t \in Tasks
    PROVE  Moved(s, prvAddTaskToReadyList(OffStateList(s, t), t), t)
<1> PICK m : m = OffStateList(s, t)
  OBVIOUS
<1> PICK n : n = prvAddTaskToReadyList(m, t)
  OBVIOUS
<1>1. Leaves(s, m, t)
  BY OffState
<1>2. Joins(m, n, t)
  BY <1>1, AddReady DEF Leaves
<1>3. Same(s, n, MoveFields)
  BY <1>1, <1>2, SameBoth DEF Leaves, Joins, MoveFields
<1>4. m.uxPriority = s.uxPriority /\ m.uxTopReadyPriority = s.uxTopReadyPriority
  BY <1>1 DEF Leaves, Same, StateFields, KernelFields
<1>5. n.delayed = m.delayed
  BY <1>2 DEF Joins, Same, ReadyFields, KernelFields
<1>6. Bits(n)
  <2>1. n.uxTopReadyPriority = s.uxTopReadyPriority \cup {s.uxPriority[t]}
    BY <1>2, <1>4 DEF Joins
  <2>2. \A p \in Priorities : \A u :
            IsIn(u, n.ready[p]) <=> (u = t /\ p = s.uxPriority[t]) \/ (u # t /\ IsIn(u, s.ready[p]))
    BY <1>1, <1>2, <1>4 DEF Leaves, Joins
  <2> QED BY <2>1, <2>2, BitsJoined
<1>7. Rdy(n) = Rdy(s) \cup {t} /\ Evt(n) = Evt(s) /\ Lists(n)
  BY <1>1, <1>2 DEF Leaves, Joins
<1>8. \A u : IsIn(u, n.delayed) <=> u # t /\ IsIn(u, s.delayed)
  BY <1>1, <1>5 DEF Leaves
<1> QED BY <1>3, <1>6, <1>7, <1>8 DEF Moved

(* Fields that no list, bit or time depends on. *)
YieldFields == {"xYieldPending", "pendSV"}
FreeFields == YieldFields \cup {"item", "uxMutexesHeld", "ulNotifiedValue", "ucDelayAborted", "ucNotifyState",
                                "xPendedTicks", "uxSchedulerSuspended", "uxCurrentNumberOfTasks"}

(* Fields that no list depends on do not disturb the kernel.               *)
LEMMA SameKernel ==
    ASSUME NEW s, Kernel(s), NEW n, Typed(n), Same(s, n, FreeFields)
    PROVE  Kernel(n) /\ Rdy(n) = Rdy(s) /\ Evt(n) = Evt(s)
<1>1. Same(s, n, OtherFields)
  BY SameMore DEF OtherFields, FreeFields, YieldFields
<1>2. Lists(n) /\ Rdy(n) = Rdy(s) /\ Evt(n) = Evt(s)
  BY <1>1, SameLists DEF Kernel
<1>3. /\ n.ready = s.ready /\ n.uxTopReadyPriority = s.uxTopReadyPriority
      /\ n.xTickCount = s.xTickCount /\ n.delayed = s.delayed /\ n.pendingReady = s.pendingReady
      /\ n.uxBasePriority = s.uxBasePriority /\ n.uxPriority = s.uxPriority
  BY DEF Same, FreeFields, YieldFields, KernelFields
<1> QED BY <1>2, <1>3 DEF Kernel, Bits, Unready, AtWrap, Own

(* Tasks are made ready, and a switch is asked for when one of them is     *)
(* higher than the running one.                                            *)
LEMMA WokenKeeps ==
    ASSUME NEW s, Kernel(s), NEW T \in SUBSET Tasks, NEW n, Lists(n), Bits(n),
           Same(s, n, ListFields \cup FreeFields),
           n.uxSchedulerSuspended = s.uxSchedulerSuspended,
           \A u \in Tasks : n.ucNotifyState[u] = "waiting" => s.ucNotifyState[u] = "waiting",
           Rdy(n) = Rdy(s) \cup T, Evt(n) \subseteq Evt(s), \A u \in Evt(n) : u \notin T,
           \A u : IsIn(u, n.delayed) => IsIn(u, s.delayed),
           \A u : IsIn(u, n.pendingReady) => IsIn(u, s.pendingReady),
           s.pendSV => n.pendSV, s.xYieldPending => n.xYieldPending,
           \A t \in T : s.uxPriority[t] > Current(s) => n.pendSV \/ n.xYieldPending
    PROVE  Keeps(s, n, {})
<1>1. /\ n.xTickCount = s.xTickCount /\ n.pxCurrentTCB = s.pxCurrentTCB
      /\ n.uxBasePriority = s.uxBasePriority /\ n.uxPriority = s.uxPriority
  BY DEF Same, FreeFields, YieldFields, ListFields, StateFields, EventFields, ReadyFields, KernelFields
<1>2. Unready(n)
  BY DEF Kernel, Unready
<1>3. AtWrap(n)
  <2>1. s.delayed = <<>> => \A u : ~IsIn(u, n.delayed)
    BY EmptyList
  <2>2. n.delayed \in Seq(Tasks)
    BY DEF Lists, WaitLists, Once
  <2> QED BY <1>1, <2>1, <2>2, NotEmpty DEF Kernel, AtWrap
<1>4. Own(n)
  BY <1>1 DEF Kernel, Own
<1>5. Highest(s) => Highest(n)
  <2> SUFFICES ASSUME Highest(s), ~n.pendSV, ~n.xYieldPending, NEW t \in Rdy(n)
               PROVE  n.uxPriority[t] <= Current(n)
    BY DEF Highest
  <2>1. Current(n) = Current(s) /\ t \in All
    BY <1>1 DEF Current, Rdy
  <2>2. Current(s) \in Int /\ s.uxPriority[t] \in Int
    BY <2>1, KernelAssumption DEF Kernel, Lists, Typed, Current, Priorities
  <2>3. CASE t \in T
    <3>1. ~(s.uxPriority[t] > Current(s))
      BY <2>3
    <3> QED BY <1>1, <2>1, <2>2, <3>1
  <2>4. CASE t \in Rdy(s)
    BY <1>1, <2>1, <2>4 DEF Highest
  <2> QED BY <2>3, <2>4
<1> QED BY <1>1, <1>2, <1>3, <1>4, <1>5 DEF Keeps, Kernel

----------------------------------------------------------------------------
(* xTaskResumeAll.                                                         *)

(* One pended task readied by xTaskResumeAll.                              *)
LEMMA PendedReady ==
    ASSUME NEW s, Kernel(s), NEW t \in Tasks
    PROVE  LET n == ReadyPended(s, t)
           IN Keeps(s, n, {}) /\ \A u : IsIn(u, n.pendingReady) <=> u # t /\ IsIn(u, s.pendingReady)
<1> PICK m : m = MakeReady(s, t)
  OBVIOUS
<1> PICK n : n = ReadyPended(s, t)
  OBVIOUS
<1>1. Readied(s, m, {t})
  BY MadeReady DEF Kernel
<1>2. /\ n = [f \in KernelFields |-> n[f]] /\ Same(m, n, {"xYieldPending"})
      /\ n.xYieldPending = (m.xYieldPending \/ s.uxPriority[t] >= Current(s))
  BY <1>1 DEF ReadyPended, Readied, Same, KernelFields
<1>3. /\ n.xTickCount = m.xTickCount /\ n.xNextTaskUnblockTime = m.xNextTaskUnblockTime
      /\ n.xPendedTicks = m.xPendedTicks /\ n.uxSchedulerSuspended = m.uxSchedulerSuspended
      /\ n.pxCurrentTCB = m.pxCurrentTCB /\ n.uxPriority = m.uxPriority
      /\ n.uxBasePriority = m.uxBasePriority /\ n.rank = m.rank /\ n.wake = m.wake
      /\ n.ucNotifyState = m.ucNotifyState /\ n.halted = m.halted /\ n.pendSV = m.pendSV
      /\ n.delayed = m.delayed /\ n.pendingReady = m.pendingReady
      /\ n.ready = m.ready /\ n.uxTopReadyPriority = m.uxTopReadyPriority
  BY <1>2 DEF Same, KernelFields
<1>4. /\ m.uxSchedulerSuspended = s.uxSchedulerSuspended /\ m.ucNotifyState = s.ucNotifyState
      /\ m.xYieldPending = s.xYieldPending /\ m.pendSV = s.pendSV
  BY <1>1 DEF Readied, Same, ListFields, StateFields, EventFields, ReadyFields, KernelFields
<1>5. Typed(n)
  BY <1>1, <1>2, <1>3, <1>4 DEF Readied, Lists, Typed
<1>6. Lists(n) /\ Rdy(n) = Rdy(m) /\ Evt(n) = Evt(m)
  BY <1>1, <1>2, <1>5, SameMore, SameLists DEF Readied, OtherFields
<1>7. Bits(n)
  BY <1>1, <1>3 DEF Readied, Bits
<1>8. Same(s, n, ListFields \cup FreeFields)
  BY <1>1, <1>2, SameBoth DEF Readied, FreeFields, YieldFields
<1>9. Rdy(n) = Rdy(s) \cup {t} /\ Evt(n) = Evt(s) \ {t}
  BY <1>1, <1>6 DEF Readied
<1>10. /\ \A u : IsIn(u, n.delayed) => IsIn(u, s.delayed)
       /\ \A u : IsIn(u, n.pendingReady) <=> u # t /\ IsIn(u, s.pendingReady)
  BY <1>1, <1>3 DEF Readied
<1>11. s.uxPriority[t] > Current(s) => s.uxPriority[t] >= Current(s)
  <2>1. t \in All
    BY NotIdle
  <2>2. s.uxPriority[t] \in Int /\ Current(s) \in Int
    BY <2>1, KernelAssumption DEF Kernel, Lists, Typed, Current, Priorities
  <2> QED BY <2>2
<1>12. Keeps(s, n, {})
  <2>1. {t} \in SUBSET Tasks /\ Evt(n) \subseteq Evt(s) /\ \A u \in Evt(n) : u \notin {t}
    BY <1>9
  <2>2. \A u \in {t} : s.uxPriority[u] > Current(s) => n.pendSV \/ n.xYieldPending
    BY <1>2, <1>11
  <2>3. \A u \in Tasks : n.ucNotifyState[u] = "waiting" => s.ucNotifyState[u] = "waiting"
    BY <1>3, <1>4
  <2> QED BY Zenon, <1>2, <1>3, <1>4, <1>6, <1>7, <1>8, <1>9, <1>10, <2>1, <2>2, <2>3, WokenKeeps
<1> QED BY <1>10, <1>12

(* All pended tasks readied by xTaskResumeAll.                             *)
LEMMA PendedAllReady ==
    ASSUME NEW s, Kernel(s), NEW list \in Seq(Tasks)
    PROVE  LET n == ReadyAllPended(s, list)
           IN Keeps(s, n, {}) /\ \A u : IsIn(u, n.pendingReady) => u \notin ToSet(list) /\ IsIn(u, s.pendingReady)
<1> PICK N : N = Len(list)
  OBVIOUS
<1>1. N \in Nat /\ DOMAIN list = 1 .. N /\ \A i \in 1 .. N : list[i] \in Tasks
  BY LenProperties, ElementOfSeq
<1> DEFINE Run(g, k) == g = [n \in 0 .. k |-> IF n = 0 THEN s ELSE ReadyPended(g[n - 1], list[n])]
           Runs == {k \in 0 .. N : \E g : Run(g, k)}
           T(i) == {list[j] : j \in 1 .. i}
<1>2. N \in Runs
  <2>1. 0 \in Runs
    <3> DEFINE h == [n \in 0 .. 0 |-> s]
    <3>1. \A n \in 0 .. 0 : h[n] = IF n = 0 THEN s ELSE ReadyPended(h[n - 1], list[n])
      OBVIOUS
    <3>2. h = [n \in 0 .. 0 |-> h[n]]
      OBVIOUS
    <3> HIDE DEF h
    <3>3. Run(h, 0)
      BY <3>1, <3>2
    <3> QED BY <1>1, <3>3
  <2>2. ASSUME NEW k \in 0 .. N - 1, k \in Runs PROVE k + 1 \in Runs
    <3>1. PICK g : Run(g, k)
      BY <2>2
    <3> DEFINE h == [n \in 0 .. k + 1 |-> IF n = 0 THEN s ELSE ReadyPended(g[n - 1], list[n])]
    <3>2. ASSUME NEW n \in 0 .. k + 1
          PROVE h[n] = IF n = 0 THEN s ELSE ReadyPended(h[n - 1], list[n])
      <4>1. CASE n = 0
        BY <4>1
      <4>2. CASE n # 0
        <5>1. n - 1 \in 0 .. k /\ n - 1 \in 0 .. k + 1 /\ k \in Int
          BY <4>2
        <5>2. g[n - 1] = IF n - 1 = 0 THEN s ELSE ReadyPended(g[(n - 1) - 1], list[n - 1])
          BY <3>1, <5>1
        <5>3. h[n - 1] = IF n - 1 = 0 THEN s ELSE ReadyPended(g[(n - 1) - 1], list[n - 1])
          BY <5>1
        <5>4. h[n] = ReadyPended(g[n - 1], list[n])
          BY <4>2
        <5> QED BY <4>2, <5>2, <5>3, <5>4
      <4> QED BY <4>1, <4>2
    <3>3. h = [n \in 0 .. k + 1 |-> h[n]]
      OBVIOUS
    <3> HIDE DEF h
    <3>4. Run(h, k + 1)
      BY <3>2, <3>3
    <3>5. k + 1 \in 0 .. N
      BY <1>1
    <3> QED BY <3>4, <3>5
  <2> HIDE DEF Runs
  <2> QED BY <1>1, <2>1, <2>2, UpTo
<1> DEFINE After == CHOOSE g : Run(g, N)
<1>3. Run(After, N)
  BY <1>2
<1>4. ReadyAllPended(s, list) = After[N]
  BY DEF ReadyAllPended
<1> HIDE DEF After
<1> DEFINE Left(i, n) == \A u : IsIn(u, n.pendingReady) => u \notin T(i) /\ IsIn(u, s.pendingReady)
           Done == {i \in 0 .. N : Keeps(s, After[i], {}) /\ Left(i, After[i])}
<1>5. N \in Done
  <2>1. 0 \in Done
    <3>1. After[0] = s /\ T(0) = {}
      BY <1>1, <1>3
    <3>2. Keeps(s, After[0], {}) /\ Left(0, After[0])
      BY <3>1, KeepsSelf
    <3> HIDE DEF Left
    <3> QED BY <1>1, <3>2
  <2>2. ASSUME NEW k \in 0 .. N - 1, k \in Done PROVE k + 1 \in Done
    <3>1. k + 1 \in 0 .. N /\ k + 1 # 0 /\ (k + 1) - 1 = k /\ k \in 0 .. N /\ k + 1 \in 1 .. N
      BY <1>1
    <3> PICK m, n, t : m = After[k] /\ n = After[k + 1] /\ t = list[k + 1]
      OBVIOUS
    <3>2. n = ReadyPended(m, t)
      BY <1>3, <3>1
    <3>3. t \in Tasks /\ Keeps(s, m, {}) /\ Left(k, m)
      BY <1>1, <2>2, <3>1
    <3>4. Keeps(m, n, {}) /\ \A u : IsIn(u, n.pendingReady) <=> u # t /\ IsIn(u, m.pendingReady)
      <4>1. Kernel(m)
        BY <3>3 DEF Keeps
      <4> QED BY <3>2, <3>3, <4>1, PendedReady
    <3>5. T(k + 1) = T(k) \cup {t}
      <4>1. \A j \in 1 .. k + 1 : j \in 1 .. k \/ j = k + 1
        BY <1>1
      <4>2. \A j \in 1 .. k : j \in 1 .. k + 1
        BY <1>1
      <4> QED BY <3>1, <4>1, <4>2
    <3> HIDE DEF T
    <3>6. Keeps(s, n, {} \cup {})
      BY <3>3, <3>4, KeepsBoth
    <3>7. Left(k + 1, n)
      BY <3>3, <3>4, <3>5
    <3> HIDE DEF Left
    <3> QED BY <3>1, <3>6, <3>7
  <2> HIDE DEF Done
  <2> QED BY <1>1, <2>1, <2>2, UpTo
<1>6. T(N) = ToSet(list)
  BY <1>1 DEF ToSet
<1> QED BY <1>4, <1>5, <1>6

(* A tick that has been pended. *)
LEMMA CountedOne ==
    ASSUME NEW s, Kernel(s), s.uxSchedulerSuspended = 0
    PROVE  LET n == CountPended(s)
           IN Keeps(s, n, {}) /\ \A u : IsIn(u, n.pendingReady) => IsIn(u, s.pendingReady)
<1> PICK r : r = xTaskIncrementTick(s)
  OBVIOUS
<1> PICK m : m = r.kernel
  OBVIOUS
<1> PICK n : n = CountPended(s)
  OBVIOUS
<1>1. /\ Ticked(s, m)
      /\ s.xYieldPending => r.switch
      /\ ~r.switch => \A t \in Rdy(m) : t \in Rdy(s) \/ s.uxPriority[t] <= Current(s)
  BY TickStep
<1>2. /\ n = [f \in KernelFields |-> n[f]] /\ Same(m, n, {"xYieldPending"})
      /\ n.xYieldPending = (m.xYieldPending \/ r.switch)
  BY <1>1 DEF CountPended, Ticked, Same, KernelFields
<1>3. /\ n.xTickCount = m.xTickCount /\ n.xNextTaskUnblockTime = m.xNextTaskUnblockTime
      /\ n.xPendedTicks = m.xPendedTicks /\ n.uxSchedulerSuspended = m.uxSchedulerSuspended
      /\ n.pxCurrentTCB = m.pxCurrentTCB /\ n.uxPriority = m.uxPriority
      /\ n.uxBasePriority = m.uxBasePriority /\ n.rank = m.rank /\ n.wake = m.wake
      /\ n.ucNotifyState = m.ucNotifyState /\ n.halted = m.halted /\ n.pendSV = m.pendSV
      /\ n.pendingReady = m.pendingReady
  BY <1>2 DEF Same, KernelFields
<1>4. /\ m.uxSchedulerSuspended = s.uxSchedulerSuspended /\ m.ucNotifyState = s.ucNotifyState
      /\ m.xYieldPending = s.xYieldPending /\ m.pendSV = s.pendSV
      /\ m.pxCurrentTCB = s.pxCurrentTCB /\ m.uxPriority = s.uxPriority
  BY <1>1 DEF Ticked, Same, TickFields, ListFields, StateFields, EventFields, ReadyFields, KernelFields
<1>5. Typed(n)
  <2>1. Typed(m) /\ n.xYieldPending \in BOOLEAN
    BY <1>1, <1>2 DEF Ticked, Kernel, Lists
  <2> QED BY <1>2, <1>3, <1>4, <2>1 DEF Typed
<1>6. Kernel(n) /\ Rdy(n) = Rdy(m) /\ Evt(n) = Evt(m)
  BY <1>1, <1>2, <1>5, SameMore, SameKernel DEF Ticked, FreeFields, YieldFields
<1>7. Highest(s) => Highest(n)
  <2> SUFFICES ASSUME Highest(s), ~n.pendSV, ~n.xYieldPending, NEW t \in Rdy(n)
               PROVE  n.uxPriority[t] <= Current(n)
    BY DEF Highest
  <2>1. t \in Rdy(s) \/ s.uxPriority[t] <= Current(s)
    BY <1>1, <1>2, <1>6
  <2> QED BY <1>1, <1>2, <1>3, <1>4, <2>1 DEF Highest, Current
<1> QED BY <1>1, <1>3, <1>4, <1>6, <1>7 DEF Keeps, Ticked

(* The pended ticks counted by xTaskResumeAll.                             *)
LEMMA CountedAll ==
    ASSUME NEW s, Kernel(s), s.uxSchedulerSuspended = 0, NEW N \in Nat
    PROVE  LET n == CountAllPended(s, N)
           IN Keeps(s, n, {}) /\ \A u : IsIn(u, n.pendingReady) => IsIn(u, s.pendingReady)
<1>1. N \in Nat
  OBVIOUS
<1> DEFINE Run(g, k) == g = [n \in 0 .. k |-> IF n = 0 THEN s ELSE CountPended(g[n - 1])]
           Runs == {k \in 0 .. N : \E g : Run(g, k)}
<1>2. N \in Runs
  <2>1. 0 \in Runs
    <3> DEFINE h == [n \in 0 .. 0 |-> s]
    <3>1. \A n \in 0 .. 0 : h[n] = IF n = 0 THEN s ELSE CountPended(h[n - 1])
      OBVIOUS
    <3>2. h = [n \in 0 .. 0 |-> h[n]]
      OBVIOUS
    <3> HIDE DEF h
    <3>3. Run(h, 0)
      BY <3>1, <3>2
    <3> QED BY <1>1, <3>3
  <2>2. ASSUME NEW k \in 0 .. N - 1, k \in Runs PROVE k + 1 \in Runs
    <3>1. PICK g : Run(g, k)
      BY <2>2
    <3> DEFINE h == [n \in 0 .. k + 1 |-> IF n = 0 THEN s ELSE CountPended(g[n - 1])]
    <3>2. ASSUME NEW n \in 0 .. k + 1
          PROVE h[n] = IF n = 0 THEN s ELSE CountPended(h[n - 1])
      <4>1. CASE n = 0
        BY <4>1
      <4>2. CASE n # 0
        <5>1. n - 1 \in 0 .. k /\ n - 1 \in 0 .. k + 1 /\ k \in Int
          BY <4>2
        <5>2. g[n - 1] = IF n - 1 = 0 THEN s ELSE CountPended(g[(n - 1) - 1])
          BY <3>1, <5>1
        <5>3. h[n - 1] = IF n - 1 = 0 THEN s ELSE CountPended(g[(n - 1) - 1])
          BY <5>1
        <5>4. h[n] = CountPended(g[n - 1])
          BY <4>2
        <5> QED BY <4>2, <5>2, <5>3, <5>4
      <4> QED BY <4>1, <4>2
    <3>3. h = [n \in 0 .. k + 1 |-> h[n]]
      OBVIOUS
    <3> HIDE DEF h
    <3>4. Run(h, k + 1)
      BY <3>2, <3>3
    <3>5. k + 1 \in 0 .. N
      BY <1>1
    <3> QED BY <3>4, <3>5
  <2> HIDE DEF Runs
  <2> QED BY <1>1, <2>1, <2>2, UpTo
<1> DEFINE After == CHOOSE g : Run(g, N)
<1>3. Run(After, N)
  BY <1>2
<1>4. CountAllPended(s, N) = After[N]
  BY DEF CountAllPended
<1> HIDE DEF After
<1> DEFINE Left(n) == \A u : IsIn(u, n.pendingReady) => IsIn(u, s.pendingReady)
           Done == {i \in 0 .. N : Keeps(s, After[i], {}) /\ Left(After[i])}
<1>5. N \in Done
  <2>1. 0 \in Done
    <3>1. After[0] = s
      BY <1>1, <1>3
    <3> QED BY <1>1, <3>1, KeepsSelf
  <2>2. ASSUME NEW k \in 0 .. N - 1, k \in Done PROVE k + 1 \in Done
    <3>1. k + 1 \in 0 .. N /\ k + 1 # 0 /\ (k + 1) - 1 = k /\ k \in 0 .. N
      BY <1>1
    <3> PICK m, n : m = After[k] /\ n = After[k + 1]
      OBVIOUS
    <3>2. n = CountPended(m)
      BY <1>3, <3>1
    <3>3. Keeps(s, m, {}) /\ Left(m)
      BY <2>2, <3>1
    <3>4. Kernel(m) /\ m.uxSchedulerSuspended = 0
      BY <3>3 DEF Keeps
    <3>5. Keeps(m, n, {}) /\ \A u : IsIn(u, n.pendingReady) => IsIn(u, m.pendingReady)
      BY <3>2, <3>4, CountedOne
    <3>6. Keeps(s, n, {} \cup {})
      BY <3>3, <3>5, KeepsBoth
    <3> QED BY <3>1, <3>3, <3>5, <3>6
  <2> HIDE DEF Done
  <2> QED BY <1>1, <2>1, <2>2, UpTo
<1> QED BY <1>4, <1>5

(* xTaskResumeAll of a scheduler suspended once. *)
LEMMA ResumedAll ==
    ASSUME NEW s, Kernel(s), s.uxSchedulerSuspended = 1
    PROVE  LET r == xTaskResumeAll(s)
           IN /\ Kernel(r.kernel) /\ r.kernel.pxCurrentTCB = s.pxCurrentTCB
              /\ r.kernel.uxSchedulerSuspended = 0 /\ r.kernel.pendingReady = <<>>
              /\ Rdy(s) \subseteq Rdy(r.kernel) /\ Evt(r.kernel) \subseteq Evt(s)
              /\ \A u \in Tasks : r.kernel.ucNotifyState[u] = "waiting" => s.ucNotifyState[u] = "waiting"
              /\ Highest(s) => Highest(r.kernel)
              /\ r.yielded => r.kernel.pendSV
<1> DEFINE resumed == [s EXCEPT !.uxSchedulerSuspended = @ - 1]
           readied == ReadyAllPended(resumed, s.pendingReady)
           reset == IF s.pendingReady = <<>> THEN readied ELSE prvResetNextTaskUnblockTime(readied)
           counted == CountAllPended(reset, s.xPendedTicks)
           done == [counted EXCEPT !.xPendedTicks = 0]
<1> PICK u0 : u0 = resumed
  OBVIOUS
<1>1. /\ u0 = [f \in KernelFields |-> u0[f]] /\ Same(s, u0, {"uxSchedulerSuspended"})
      /\ u0.uxSchedulerSuspended = 0
  BY DEF Kernel, Lists, Typed, Same, KernelFields
<1>2. /\ u0.xTickCount = s.xTickCount /\ u0.xNextTaskUnblockTime = s.xNextTaskUnblockTime
      /\ u0.xPendedTicks = s.xPendedTicks
      /\ u0.pxCurrentTCB = s.pxCurrentTCB /\ u0.uxPriority = s.uxPriority
      /\ u0.uxBasePriority = s.uxBasePriority /\ u0.rank = s.rank /\ u0.wake = s.wake
      /\ u0.ucNotifyState = s.ucNotifyState /\ u0.halted = s.halted /\ u0.pendSV = s.pendSV
      /\ u0.xYieldPending = s.xYieldPending /\ u0.pendingReady = s.pendingReady
  BY <1>1 DEF Same, KernelFields
<1>3. Typed(u0)
  BY <1>1, <1>2 DEF Kernel, Lists, Typed
<1>4. Kernel(u0) /\ Rdy(u0) = Rdy(s) /\ Evt(u0) = Evt(s)
  BY <1>1, <1>3, SameMore, SameKernel DEF FreeFields
<1>5. Highest(s) => Highest(u0)
  BY <1>2, <1>4 DEF Highest, Current
<1> HIDE DEF resumed
<1> PICK d : d = readied
  OBVIOUS
<1>6. Keeps(u0, d, {}) /\ \A u : ~IsIn(u, d.pendingReady)
  <2>1. s.pendingReady \in Seq(Tasks) /\ d = ReadyAllPended(u0, s.pendingReady)
    BY DEF Kernel, Lists, Events, Once
  <2>2. Keeps(u0, d, {}) /\ \A u : IsIn(u, d.pendingReady) => u \notin ToSet(s.pendingReady) /\ IsIn(u, u0.pendingReady)
    BY <1>4, <2>1, PendedAllReady
  <2> QED BY <1>2, <2>2 DEF IsIn
<1> HIDE DEF readied
<1> PICK e : e = reset
  OBVIOUS
<1>7. Keeps(d, e, {}) /\ e.pendingReady = d.pendingReady /\ e.xPendedTicks = d.xPendedTicks
  <2>1. CASE s.pendingReady = <<>>
    BY <1>6, <2>1, KeepsSelf DEF Keeps
  <2>2. CASE s.pendingReady # <<>>
    <3>1. e = prvResetNextTaskUnblockTime(d)
      BY <2>2
    <3>2. /\ Typed(d) /\ ReadyLists(d) /\ WaitLists(d) /\ Apart(d) /\ Events(d)
          /\ Sorted(d.delayed, d.wake) /\ Sorted(d.overflow, d.wake)
      BY <1>6 DEF Keeps, Kernel, Lists, Times
    <3>3. /\ Lists(e) /\ Same(d, e, {"xNextTaskUnblockTime"})
          /\ Rdy(e) = Rdy(d) /\ Evt(e) = Evt(d)
      BY <3>1, <3>2, ResetNext
    <3>4. /\ e.ready = d.ready /\ e.uxTopReadyPriority = d.uxTopReadyPriority
          /\ e.xTickCount = d.xTickCount /\ e.delayed = d.delayed /\ e.pendingReady = d.pendingReady
          /\ e.uxBasePriority = d.uxBasePriority /\ e.uxPriority = d.uxPriority
          /\ e.xPendedTicks = d.xPendedTicks /\ e.pxCurrentTCB = d.pxCurrentTCB
          /\ e.uxSchedulerSuspended = d.uxSchedulerSuspended /\ e.ucNotifyState = d.ucNotifyState
          /\ e.xYieldPending = d.xYieldPending /\ e.pendSV = d.pendSV
      BY <3>3 DEF Same, KernelFields
    <3>5. Bits(e) /\ Unready(e) /\ AtWrap(e) /\ Own(e)
      BY <1>6, <3>3, <3>4 DEF Keeps, Kernel, Bits, Unready, AtWrap, Own
    <3>6. Highest(d) => Highest(e)
      BY <3>3, <3>4 DEF Highest, Current
    <3> QED BY <3>3, <3>4, <3>5, <3>6 DEF Keeps, Kernel
  <2> QED BY <2>1, <2>2
<1>8. Kernel(e) /\ e.uxSchedulerSuspended = 0
  BY <1>1, <1>6, <1>7 DEF Keeps
<1> HIDE DEF reset
<1> PICK c : c = counted
  OBVIOUS
<1>9. Keeps(e, c, {}) /\ \A u : IsIn(u, c.pendingReady) => IsIn(u, e.pendingReady)
  <2>1. s.xPendedTicks \in Nat /\ c = CountAllPended(e, s.xPendedTicks)
    BY DEF Kernel, Lists, Typed
  <2> QED BY <1>8, <2>1, CountedAll
<1>10. Keeps(u0, c, {})
  <2>1. Keeps(u0, e, {} \cup {})
    BY <1>6, <1>7, KeepsBoth
  <2>2. Keeps(u0, c, ({} \cup {}) \cup {})
    BY <1>9, <2>1, KeepsBoth
  <2>3. ({} \cup {}) \cup {} = {}
    OBVIOUS
  <2> QED BY <2>2, <2>3
<1> HIDE DEF counted
<1> PICK n : n = YieldIf(done, done.xYieldPending)
  OBVIOUS
<1>11. /\ n = [f \in KernelFields |-> n[f]] /\ Same(c, n, {"xPendedTicks", "pendSV"})
       /\ n.pendSV = (c.pendSV \/ c.xYieldPending) /\ n.xPendedTicks = 0
       /\ done.xYieldPending = c.xYieldPending
  <2>1. c = [f \in KernelFields |-> c[f]] /\ c.pendSV \in BOOLEAN /\ c.xYieldPending \in BOOLEAN
    BY <1>10 DEF Keeps, Kernel, Lists, Typed
  <2>2. CASE c.xYieldPending = TRUE
    BY <2>1, <2>2 DEF YieldIf, Yield, Same, KernelFields
  <2>3. CASE c.xYieldPending = FALSE
    BY <2>1, <2>3 DEF YieldIf, Yield, Same, KernelFields
  <2> QED BY <2>1, <2>2, <2>3
<1>12. /\ n.xTickCount = c.xTickCount /\ n.xNextTaskUnblockTime = c.xNextTaskUnblockTime
       /\ n.uxSchedulerSuspended = c.uxSchedulerSuspended
       /\ n.pxCurrentTCB = c.pxCurrentTCB /\ n.uxPriority = c.uxPriority
       /\ n.uxBasePriority = c.uxBasePriority /\ n.rank = c.rank /\ n.wake = c.wake
       /\ n.ucNotifyState = c.ucNotifyState /\ n.halted = c.halted
       /\ n.xYieldPending = c.xYieldPending /\ n.pendingReady = c.pendingReady
  BY <1>11 DEF Same, KernelFields
<1>13. Typed(n)
  <2>1. Typed(c) /\ n.pendSV \in BOOLEAN /\ n.xPendedTicks \in Nat
    BY <1>10, <1>11 DEF Keeps, Kernel, Lists, Typed
  <2> QED BY <1>11, <1>12, <2>1 DEF Typed
<1>14. Kernel(n) /\ Rdy(n) = Rdy(c) /\ Evt(n) = Evt(c)
  BY <1>10, <1>11, <1>13, SameMore, SameKernel DEF Keeps, FreeFields, YieldFields
<1>15. n.pendingReady = <<>>
  <2>1. \A u : ~IsIn(u, n.pendingReady)
    BY <1>6, <1>7, <1>9, <1>12
  <2>2. n.pendingReady \in Seq(Tasks)
    BY <1>14 DEF Kernel, Lists, Events, Once
  <2> QED BY <2>1, <2>2, NotEmpty
<1>16. Highest(s) => Highest(n)
  BY <1>5, <1>10, <1>11, <1>12, <1>14 DEF Keeps, Highest, Current
<1> PICK r : r = xTaskResumeAll(s)
  OBVIOUS
<1>17. r.kernel = n /\ (r.yielded => c.xYieldPending)
  <2>1. xTaskResumeAll(s) = IF resumed.uxSchedulerSuspended # 0 THEN [kernel |-> resumed, yielded |-> FALSE]
                            ELSE [kernel |-> YieldIf(done, done.xYieldPending), yielded |-> done.xYieldPending]
    BY Zenon DEF xTaskResumeAll, resumed, readied, reset, counted
  <2> HIDE DEF done
  <2>2. resumed = u0 /\ resumed.uxSchedulerSuspended = 0
    BY <1>1
  <2>3. r = [kernel |-> YieldIf(done, done.xYieldPending), yielded |-> done.xYieldPending]
    BY <2>1, <2>2
  <2>4. r.kernel = YieldIf(done, done.xYieldPending) /\ r.yielded = done.xYieldPending
    BY ONLY <2>3
  <2> QED BY <1>11, <2>4
<1>18. /\ Rdy(s) \subseteq Rdy(n) /\ Evt(n) \subseteq Evt(s)
       /\ \A u \in Tasks : n.ucNotifyState[u] = "waiting" => s.ucNotifyState[u] = "waiting"
       /\ n.pxCurrentTCB = s.pxCurrentTCB /\ n.uxSchedulerSuspended = 0
  BY <1>1, <1>2, <1>4, <1>10, <1>12, <1>14 DEF Keeps
<1> QED BY <1>11, <1>14, <1>15, <1>16, <1>17, <1>18

----------------------------------------------------------------------------
(* Delays and waits of the running task.                                   *)

(* A task leaves its state list, and the bit of its priority with it when  *)
(* the list is empty then.                                                 *)
Removed(s, n, t) ==
    /\ Lists(n) /\ Bits(n) /\ Same(s, n, MoveFields)
    /\ Rdy(n) = Rdy(s) \ {t} /\ Evt(n) = Evt(s) /\ OffLists(n, t)
    /\ \A u : IsIn(u, n.delayed) => IsIn(u, s.delayed)

(* uxListRemove and taskRESET_READY_PRIORITY keep the bitmap right.        *)
LEMMA OffReset ==
    ASSUME NEW s, Lists(s), Bits(s), NEW t \in Tasks
    PROVE  Removed(s, taskRESET_READY_PRIORITY(OffStateList(s, t), s.uxPriority[t]), t)
<1> PICK m : m = OffStateList(s, t)
  OBVIOUS
<1> PICK p : p = s.uxPriority[t]
  OBVIOUS
<1> PICK n : n = taskRESET_READY_PRIORITY(m, p)
  OBVIOUS
<1>1. Leaves(s, m, t)
  BY OffState
<1>2. t \in All /\ p \in Priorities /\ \A q \in Priorities : IsIn(t, s.ready[q]) => q = p
  BY NotIdle DEF Lists, Typed, ReadyLists
<1>3. /\ m.uxPriority = s.uxPriority /\ m.uxTopReadyPriority = s.uxTopReadyPriority
  BY <1>1 DEF Leaves, Same, StateFields, KernelFields
<1>4. Marked(m.ready[p]) /\ m = [f \in KernelFields |-> m[f]]
  BY <1>1, <1>2 DEF Leaves, Lists, ReadyLists, Typed
<1>5. Length(m.ready[p]) = 0 <=> \A u \in All : ~IsIn(u, m.ready[p])
  <2>1. Length(m.ready[p]) = 0 <=> \A u : IsIn(u, m.ready[p]) => u = End
    BY <1>4, LengthOfRing DEF Marked
  <2>2. \A u : IsIn(u, m.ready[p]) => u \in All \cup {End}
    BY <1>4, ElementOfSeq DEF Marked, Once, IsIn, ToSet
  <2>3. End \notin All
    BY KernelAssumption
  <2> QED BY <2>1, <2>2, <2>3
<1>6. /\ n = [f \in KernelFields |-> n[f]] /\ Same(m, n, {"uxTopReadyPriority"})
      /\ n.uxTopReadyPriority = IF Length(m.ready[p]) = 0 THEN s.uxTopReadyPriority \ {p} ELSE s.uxTopReadyPriority
  <2>1. CASE Length(m.ready[p]) = 0
    <3>1. n = [m EXCEPT !.uxTopReadyPriority = @ \ {p}]
      BY <2>1 DEF taskRESET_READY_PRIORITY
    <3> QED BY <1>3, <1>4, <2>1, <3>1 DEF Same, KernelFields
  <2>2. CASE ~(Length(m.ready[p]) = 0)
    <3>1. n = m
      BY <2>2 DEF taskRESET_READY_PRIORITY
    <3> QED BY <1>3, <1>4, <2>2, <3>1 DEF Same
  <2> QED BY <2>1, <2>2
<1>7. /\ n.xTickCount = m.xTickCount /\ n.xNextTaskUnblockTime = m.xNextTaskUnblockTime
      /\ n.xPendedTicks = m.xPendedTicks /\ n.uxSchedulerSuspended = m.uxSchedulerSuspended
      /\ n.pxCurrentTCB = m.pxCurrentTCB /\ n.uxPriority = m.uxPriority
      /\ n.uxBasePriority = m.uxBasePriority /\ n.rank = m.rank /\ n.wake = m.wake
      /\ n.ucNotifyState = m.ucNotifyState /\ n.halted = m.halted /\ n.pendSV = m.pendSV
      /\ n.delayed = m.delayed /\ n.overflow = m.overflow /\ n.suspendedTasks = m.suspendedTasks
      /\ n.ready = m.ready /\ n.xYieldPending = m.xYieldPending
  BY <1>6 DEF Same, KernelFields
<1>8. Typed(n)
  BY Zenon, <1>1, <1>6, <1>7 DEF Leaves, Lists, Typed
<1>9. Lists(n) /\ Rdy(n) = Rdy(m) /\ Evt(n) = Evt(m)
  BY <1>1, <1>6, <1>8, SameMore, SameLists DEF Leaves, OtherFields
<1>10. Same(s, n, MoveFields)
  BY <1>1, <1>6, SameBoth DEF Leaves, MoveFields, ReadyFields
<1>11. Bits(n)
  <2>1. ASSUME NEW q \in Priorities
        PROVE  q \in n.uxTopReadyPriority <=> \E u \in All : IsIn(u, n.ready[q])
    <3>1. q \in s.uxTopReadyPriority <=> \E u \in All : IsIn(u, s.ready[q])
      BY DEF Bits
    <3>2. CASE q = p
      <4>1. (\E u \in All : IsIn(u, m.ready[p])) => \E u \in All : IsIn(u, s.ready[p])
        BY <1>1, <1>2 DEF Leaves
      <4> QED BY <1>5, <1>6, <1>7, <3>1, <3>2, <4>1
    <3>3. CASE q # p
      <4>1. \A u : IsIn(u, m.ready[q]) <=> IsIn(u, s.ready[q])
        BY <1>1, <1>2, <3>3 DEF Leaves
      <4> QED BY <1>6, <1>7, <3>1, <3>3, <4>1
    <3> QED BY <3>2, <3>3
  <2>2. n.uxTopReadyPriority \subseteq Priorities
    BY <1>6 DEF Bits
  <2> QED BY <2>1, <2>2 DEF Bits
<1>12. OffLists(n, t)
  BY <1>1, <1>7, <1>9 DEF Leaves, OffLists
<1>13. Rdy(n) = Rdy(s) \ {t} /\ Evt(n) = Evt(s) /\ \A u : IsIn(u, n.delayed) => IsIn(u, s.delayed)
  BY <1>1, <1>7, <1>9 DEF Leaves
<1> QED BY <1>9, <1>10, <1>11, <1>12, <1>13 DEF Removed

(* The tick count some ticks later. *)
LEMMA LaterTick ==
    ASSUME NEW x \in TickType, NEW n \in TickType, n # 0
    PROVE  Plus(x, n) \in TickType /\ (x = portMAX_DELAY => Plus(x, n) < x)
<1>1. portMAX_DELAY \in Nat /\ portMAX_DELAY > 0 /\ x \in 0 .. portMAX_DELAY /\ n \in 1 .. portMAX_DELAY
  BY KernelAssumption DEF TickType
<1>2. (x + n) % (portMAX_DELAY + 1) \in 0 .. portMAX_DELAY
  BY ONLY <1>1
<1>3. ASSUME x = portMAX_DELAY PROVE (x + n) % (portMAX_DELAY + 1) = n - 1
  BY ONLY <1>1, <1>3
<1>4. x = portMAX_DELAY => (x + n) % (portMAX_DELAY + 1) < x
  BY <1>1, <1>3
<1> QED BY <1>2, <1>4 DEF Plus, TickType

DelayFields == MoveFields \cup {"ucDelayAborted", "wake", "xNextTaskUnblockTime"}
Delayed(s, n, t) ==
    /\ Lists(n) /\ Bits(n) /\ AtWrap(n) /\ Own(n) /\ Same(s, n, DelayFields)
    /\ Rdy(n) = Rdy(s) \ {t} /\ Evt(n) = Evt(s)

(* prvAddCurrentTaskToDelayedList takes the running task off its ready     *)
(* list.                                                                   *)
LEMMA CurrentDelayed ==
    ASSUME NEW s, Lists(s), Bits(s), AtWrap(s), Own(s), s.pxCurrentTCB \in Tasks,
           NEW ticksToWait \in TickType, ticksToWait # 0, NEW indefinitely
    PROVE  Delayed(s, prvAddCurrentTaskToDelayedList(s, ticksToWait, indefinitely), s.pxCurrentTCB)
<1> DEFINE reset == [s EXCEPT !.ucDelayAborted[s.pxCurrentTCB] = FALSE]
           off == taskRESET_READY_PRIORITY(OffStateList(reset, s.pxCurrentTCB), s.uxPriority[s.pxCurrentTCB])
           at == Plus(s.xTickCount, ticksToWait)
           timed == [off EXCEPT !.wake[s.pxCurrentTCB] = at]
<1> PICK t : t = s.pxCurrentTCB
  OBVIOUS
<1> PICK b : b = reset
  OBVIOUS
<1>1. t \in Tasks /\ t \in All
  BY NotIdle
<1>2. b = [f \in KernelFields |-> b[f]] /\ Same(s, b, {"ucDelayAborted"})
  BY DEF Lists, Typed, Same, KernelFields
<1>3. /\ b.xTickCount = s.xTickCount /\ b.xNextTaskUnblockTime = s.xNextTaskUnblockTime
      /\ b.xPendedTicks = s.xPendedTicks /\ b.uxSchedulerSuspended = s.uxSchedulerSuspended
      /\ b.pxCurrentTCB = s.pxCurrentTCB /\ b.uxPriority = s.uxPriority
      /\ b.uxBasePriority = s.uxBasePriority /\ b.rank = s.rank /\ b.wake = s.wake
      /\ b.ucNotifyState = s.ucNotifyState /\ b.halted = s.halted /\ b.pendSV = s.pendSV
      /\ b.delayed = s.delayed /\ b.ready = s.ready /\ b.xYieldPending = s.xYieldPending
      /\ b.uxTopReadyPriority = s.uxTopReadyPriority
  BY <1>2 DEF Same, KernelFields
<1>4. Typed(b)
  BY <1>2, <1>3 DEF Lists, Typed
<1>5. Lists(b) /\ Bits(b) /\ Rdy(b) = Rdy(s) /\ Evt(b) = Evt(s)
  <2>1. Lists(b) /\ Rdy(b) = Rdy(s) /\ Evt(b) = Evt(s)
    BY <1>2, <1>4, SameMore, SameLists DEF OtherFields
  <2> QED BY <1>3, <2>1 DEF Bits
<1> PICK o : o = off
  OBVIOUS
<1>6. Removed(b, o, t)
  BY <1>1, <1>3, <1>5, OffReset
<1> HIDE DEF reset, off
<1>7. Same(s, o, DelayFields) /\ o = [f \in KernelFields |-> o[f]]
  BY <1>2, <1>6, SameBoth DEF Removed, DelayFields, Same
<1>8. /\ o.xTickCount = s.xTickCount /\ o.xNextTaskUnblockTime = s.xNextTaskUnblockTime
      /\ o.uxBasePriority = s.uxBasePriority /\ o.uxPriority = s.uxPriority /\ o.wake = s.wake
      /\ o.pxCurrentTCB = t
  BY <1>3, <1>6 DEF Removed, Same, MoveFields, StateFields, ReadyFields, KernelFields
<1>9. Own(o) /\ AtWrap(o)
  <2>1. s.delayed = <<>> => \A u : ~IsIn(u, o.delayed)
    BY <1>3, <1>6, EmptyList DEF Removed
  <2>2. o.delayed \in Seq(Tasks)
    BY <1>6 DEF Removed, Lists, WaitLists, Once
  <2> QED BY <1>8, <2>1, <2>2, NotEmpty DEF Own, AtWrap
<1>10. /\ Typed(o) /\ ReadyLists(o) /\ WaitLists(o) /\ Apart(o) /\ Events(o) /\ Times(o)
       /\ Bits(o) /\ Rdy(o) = Rdy(s) \ {t} /\ Evt(o) = Evt(s)
       /\ t \notin Rdy(o) /\ ~IsIn(t, o.delayed) /\ ~IsIn(t, o.overflow) /\ ~IsIn(t, o.suspendedTasks)
  BY <1>5, <1>6 DEF Removed, Lists, OffLists
<1> PICK k : k = at
  OBVIOUS
<1>11. k \in TickType /\ (s.xTickCount = portMAX_DELAY => k < s.xTickCount)
  <2>1. s.xTickCount \in TickType
    BY DEF Lists, Typed
  <2> QED BY <2>1, LaterTick
<1> HIDE DEF at
<1> PICK d : d = timed
  OBVIOUS
<1>12. d = [f \in KernelFields |-> d[f]] /\ Same(o, d, {"wake"}) /\ d.wake = [o.wake EXCEPT ![t] = k]
  BY <1>7, <1>10 DEF Typed, Same, KernelFields
<1>13. /\ d.wake \in [All -> TickType] /\ d.wake[t] = k /\ \A u \in Tasks : u # t => d.wake[u] = o.wake[u]
  <2>1. o.wake \in [All -> TickType] /\ Tasks \subseteq All
    BY <1>10, NotIdle DEF Typed
  <2> QED BY <1>1, <1>11, <1>12, <2>1
<1>14. /\ d.delayed = o.delayed /\ d.overflow = o.overflow /\ d.suspendedTasks = o.suspendedTasks
       /\ d.ready = o.ready /\ d.uxTopReadyPriority = o.uxTopReadyPriority
       /\ d.tasksWaitingTermination = o.tasksWaitingTermination
       /\ d.xNextTaskUnblockTime = o.xNextTaskUnblockTime /\ d.xTickCount = o.xTickCount
  BY <1>12 DEF Same, KernelFields
<1>15. /\ Once(o.delayed, Tasks) /\ Once(o.overflow, Tasks) /\ Once(o.suspendedTasks, Tasks)
       /\ \A u : IsIn(u, o.delayed) \/ IsIn(u, o.overflow) => u \in Tasks /\ u # t
  <2>1. Once(o.delayed, Tasks) /\ Once(o.overflow, Tasks) /\ Once(o.suspendedTasks, Tasks)
    BY <1>10 DEF WaitLists
  <2>2. \A u : IsIn(u, o.delayed) \/ IsIn(u, o.overflow) => u \in Tasks
    BY <2>1, ElementOfSeq DEF Once, IsIn, ToSet
  <2> QED BY <1>10, <2>1, <2>2
<1>16. Sorted(o.delayed, d.wake) /\ Sorted(o.overflow, d.wake)
  <2>1. Sorted(o.delayed, o.wake) /\ Sorted(o.overflow, o.wake)
    BY <1>10 DEF Times
  <2>2. \A u : IsIn(u, o.delayed) \/ IsIn(u, o.overflow) => d.wake[u] = o.wake[u]
    BY <1>13, <1>15
  <2>3. Sorted(o.delayed, d.wake)
    BY ONLY <2>1, <2>2, SortedAlike
  <2>4. Sorted(o.overflow, d.wake)
    BY ONLY <2>1, <2>2, SortedAlike
  <2> QED BY <2>3, <2>4
<1>17. \A u \in Tasks : d.wake[u] \in Int
  BY <1>13, NotIdle, KernelAssumption DEF TickType
<1> PICK n : n = prvAddCurrentTaskToDelayedList(s, ticksToWait, indefinitely)
  OBVIOUS
<1>18. n = IF ticksToWait = portMAX_DELAY /\ indefinitely THEN [o EXCEPT !.suspendedTasks = Append(@, t)]
           ELSE IF k < s.xTickCount THEN [d EXCEPT !.overflow = InsertByValue(@, t, d.wake)]
           ELSE [d EXCEPT !.delayed = InsertByValue(@, t, d.wake),
                          !.xNextTaskUnblockTime = IF k < @ THEN k ELSE @]
  BY DEF prvAddCurrentTaskToDelayedList, at, reset, off
<1> HIDE DEF timed
<1> DEFINE Put(x) ==
           /\ x = [f \in KernelFields |-> x[f]] /\ Same(s, x, DelayFields)
           /\ x.ready = o.ready /\ x.uxTopReadyPriority = o.uxTopReadyPriority
           /\ x.wake \in [All -> TickType] /\ x.xNextTaskUnblockTime \in TickType
           /\ WaitLists(x) /\ Times(x) /\ AtWrap(x)
           /\ \A u \in Tasks : u # t => /\ IsIn(u, x.delayed) <=> IsIn(u, o.delayed)
                                        /\ IsIn(u, x.overflow) <=> IsIn(u, o.overflow)
                                        /\ IsIn(u, x.suspendedTasks) <=> IsIn(u, o.suspendedTasks)
           /\ ~(IsIn(t, x.delayed) /\ IsIn(t, x.overflow))
           /\ ~(IsIn(t, x.delayed) /\ IsIn(t, x.suspendedTasks))
           /\ ~(IsIn(t, x.overflow) /\ IsIn(t, x.suspendedTasks))
<1>19. Put(n)
  <2>1. CASE ticksToWait = portMAX_DELAY /\ indefinitely
    <3>1. n = [o EXCEPT !.suspendedTasks = Append(o.suspendedTasks, t)]
      BY <1>18, <2>1
    <3>2. /\ n = [f \in KernelFields |-> n[f]] /\ Same(o, n, {"suspendedTasks"})
          /\ n.suspendedTasks = Append(o.suspendedTasks, t)
      BY <1>7, <3>1 DEF Same, KernelFields
    <3>3. /\ n.delayed = o.delayed /\ n.overflow = o.overflow /\ n.ready = o.ready
          /\ n.uxTopReadyPriority = o.uxTopReadyPriority
          /\ n.tasksWaitingTermination = o.tasksWaitingTermination
          /\ n.xNextTaskUnblockTime = o.xNextTaskUnblockTime /\ n.xTickCount = o.xTickCount
          /\ n.wake = o.wake
      BY <3>2 DEF Same, KernelFields
    <3>4. /\ Once(n.suspendedTasks, Tasks)
          /\ \A u : IsIn(u, n.suspendedTasks) <=> u = t \/ IsIn(u, o.suspendedTasks)
      <4>1. Once(o.suspendedTasks, Tasks) /\ t \in Tasks /\ ~IsIn(t, o.suspendedTasks)
        BY <1>1, <1>10, <1>15
      <4>2. /\ Once(Append(o.suspendedTasks, t), Tasks)
            /\ \A u : IsIn(u, Append(o.suspendedTasks, t)) <=> u = t \/ IsIn(u, o.suspendedTasks)
        BY ONLY <4>1, OnceAppended
      <4>3. n.suspendedTasks = Append(o.suspendedTasks, t)
        BY <3>2
      <4> QED BY ONLY <4>2, <4>3
    <3>5. WaitLists(n) /\ Times(n) /\ AtWrap(n)
      BY <1>9, <1>10, <3>3, <3>4 DEF WaitLists, Times, AtWrap
    <3>6. Same(s, n, DelayFields)
      BY <1>7, <3>2, SameBoth DEF DelayFields, MoveFields, StateFields
    <3>7. n.wake \in [All -> TickType] /\ n.xNextTaskUnblockTime \in TickType
      BY <1>10, <3>3 DEF Typed
    <3> QED BY <1>10, <3>2, <3>3, <3>4, <3>5, <3>6, <3>7
  <2>2. CASE ~(ticksToWait = portMAX_DELAY /\ indefinitely) /\ k < s.xTickCount
    <3>1. n = [d EXCEPT !.overflow = InsertByValue(d.overflow, t, d.wake)]
      BY <1>18, <2>2
    <3>2. /\ n = [f \in KernelFields |-> n[f]] /\ Same(d, n, {"overflow"})
          /\ n.overflow = InsertByValue(d.overflow, t, d.wake)
      BY <1>12, <3>1 DEF Same, KernelFields
    <3>3. /\ n.delayed = o.delayed /\ n.suspendedTasks = o.suspendedTasks /\ n.ready = o.ready
          /\ n.uxTopReadyPriority = o.uxTopReadyPriority
          /\ n.tasksWaitingTermination = o.tasksWaitingTermination
          /\ n.xNextTaskUnblockTime = o.xNextTaskUnblockTime /\ n.xTickCount = o.xTickCount
          /\ n.wake = d.wake
      BY <1>14, <3>2 DEF Same, KernelFields
    <3>4. /\ Once(n.overflow, Tasks) /\ Sorted(n.overflow, n.wake)
          /\ \A u : IsIn(u, n.overflow) <=> u = t \/ IsIn(u, o.overflow)
      BY <1>1, <1>10, <1>14, <1>15, <1>16, <1>17, <3>2, <3>3, InsertedByValue
    <3>5. \A u : IsIn(u, n.delayed) => n.wake[u] >= n.xNextTaskUnblockTime
      BY <1>10, <1>13, <1>15, <3>3 DEF Times
    <3>6. WaitLists(n) /\ Times(n) /\ AtWrap(n)
      BY <1>9, <1>10, <1>16, <3>3, <3>4, <3>5 DEF WaitLists, Times, AtWrap
    <3>7. Same(s, n, DelayFields)
      <4>1. Same(s, d, DelayFields)
        BY <1>7, <1>12, SameBoth DEF DelayFields
      <4> QED BY <3>2, <4>1, SameBoth DEF DelayFields, MoveFields, StateFields
    <3>8. n.wake \in [All -> TickType] /\ n.xNextTaskUnblockTime \in TickType
      BY <1>10, <1>13, <3>3 DEF Typed
    <3> QED BY <1>10, <3>2, <3>3, <3>4, <3>6, <3>7, <3>8
  <2>3. CASE ~(ticksToWait = portMAX_DELAY /\ indefinitely) /\ ~(k < s.xTickCount)
    <3> PICK w : w = IF k < d.xNextTaskUnblockTime THEN k ELSE d.xNextTaskUnblockTime
      OBVIOUS
    <3>1. n = [d EXCEPT !.delayed = InsertByValue(d.delayed, t, d.wake), !.xNextTaskUnblockTime = w]
      BY <1>18, <2>3
    <3>2. /\ n = [f \in KernelFields |-> n[f]] /\ Same(d, n, {"delayed", "xNextTaskUnblockTime"})
          /\ n.delayed = InsertByValue(d.delayed, t, d.wake) /\ n.xNextTaskUnblockTime = w
      BY <1>12, <3>1 DEF Same, KernelFields
    <3>3. /\ n.overflow = o.overflow /\ n.suspendedTasks = o.suspendedTasks /\ n.ready = o.ready
          /\ n.uxTopReadyPriority = o.uxTopReadyPriority
          /\ n.tasksWaitingTermination = o.tasksWaitingTermination
          /\ n.xTickCount = s.xTickCount /\ n.wake = d.wake
      BY <1>8, <1>14, <3>2 DEF Same, KernelFields
    <3>4. /\ Once(n.delayed, Tasks) /\ Sorted(n.delayed, n.wake)
          /\ \A u : IsIn(u, n.delayed) <=> u = t \/ IsIn(u, o.delayed)
      BY <1>1, <1>10, <1>14, <1>15, <1>16, <1>17, <3>2, <3>3, InsertedByValue
    <3>5. k \in Int /\ o.xNextTaskUnblockTime \in TickType /\ o.xNextTaskUnblockTime \in Int
      BY <1>10, <1>11, KernelAssumption DEF Typed, TickType
    <3>6. w <= k /\ w <= o.xNextTaskUnblockTime /\ w \in Int /\ w \in TickType
      BY <1>11, <1>14, <3>5
    <3>7. \A u : IsIn(u, n.delayed) => n.wake[u] >= n.xNextTaskUnblockTime
      <4>1. ASSUME NEW u, IsIn(u, o.delayed) PROVE d.wake[u] >= w
        <5>1. d.wake[u] = o.wake[u] /\ o.wake[u] >= o.xNextTaskUnblockTime /\ d.wake[u] \in Int
          BY <1>10, <1>13, <1>15, <1>17, <4>1 DEF Times
        <5> QED BY <3>5, <3>6, <5>1
      <4>2. d.wake[t] >= w
        BY <1>13, <3>5, <3>6
      <4> QED BY <3>2, <3>3, <3>4, <4>1, <4>2
    <3>8. WaitLists(n) /\ Times(n)
      BY <1>10, <1>16, <3>3, <3>4, <3>7 DEF WaitLists, Times
    <3>9. AtWrap(n)
      BY <1>11, <2>3, <3>3 DEF AtWrap
    <3>10. Same(s, n, DelayFields)
      <4>1. Same(s, d, DelayFields)
        BY <1>7, <1>12, SameBoth DEF DelayFields
      <4> QED BY <3>2, <4>1, SameBoth DEF DelayFields, MoveFields, StateFields
    <3>11. n.wake \in [All -> TickType] /\ n.xNextTaskUnblockTime \in TickType
      BY <1>13, <3>2, <3>3, <3>6
    <3> QED BY <1>10, <3>2, <3>3, <3>4, <3>8, <3>9, <3>10, <3>11
  <2> QED BY <2>1, <2>2, <2>3
<1>20. /\ n.xTickCount = s.xTickCount /\ n.xPendedTicks = s.xPendedTicks
       /\ n.uxSchedulerSuspended = s.uxSchedulerSuspended /\ n.pxCurrentTCB = s.pxCurrentTCB
       /\ n.uxPriority = s.uxPriority /\ n.uxBasePriority = s.uxBasePriority /\ n.rank = s.rank
       /\ n.ucNotifyState = s.ucNotifyState /\ n.halted = s.halted /\ n.pendSV = s.pendSV
       /\ n.xYieldPending = s.xYieldPending /\ n.events = s.events /\ n.pendingReady = s.pendingReady
  BY <1>19 DEF Same, DelayFields, MoveFields, StateFields, ReadyFields, KernelFields
<1>21. Rdy(n) = Rdy(o) /\ Evt(n) = Evt(s)
  BY <1>19, <1>20 DEF Rdy, Evt, IsReady
<1>22. Typed(n)
  BY <1>19, <1>20 DEF Lists, Typed
<1>23. ReadyLists(n) /\ Bits(n) /\ Own(n)
  BY <1>8, <1>10, <1>19, <1>20, <1>21 DEF ReadyLists, Bits, Own
<1>24. Events(n)
  BY <1>20 DEF Lists, Events
<1>25. Apart(n)
  <2> HIDE DEF Put
  <2> SUFFICES ASSUME NEW u \in Tasks
               PROVE  /\ IsIn(u, n.delayed) => u \notin Rdy(n) /\ ~IsIn(u, n.overflow) /\ ~IsIn(u, n.suspendedTasks)
                      /\ IsIn(u, n.overflow) => u \notin Rdy(n) /\ ~IsIn(u, n.suspendedTasks)
                      /\ IsIn(u, n.suspendedTasks) => u \notin Rdy(n)
    BY DEF Apart
  <2>1. CASE u = t
    <3>1. /\ ~(IsIn(t, n.delayed) /\ IsIn(t, n.overflow))
          /\ ~(IsIn(t, n.delayed) /\ IsIn(t, n.suspendedTasks))
          /\ ~(IsIn(t, n.overflow) /\ IsIn(t, n.suspendedTasks))
      BY <1>19 DEF Put
    <3> QED BY <1>10, <1>21, <2>1, <3>1
  <2>2. CASE u # t
    <3>1. /\ IsIn(u, n.delayed) <=> IsIn(u, o.delayed)
          /\ IsIn(u, n.overflow) <=> IsIn(u, o.overflow)
          /\ IsIn(u, n.suspendedTasks) <=> IsIn(u, o.suspendedTasks)
      BY <1>19, <2>2 DEF Put
    <3> QED BY <1>10, <1>21, <3>1 DEF Apart
  <2> QED BY <2>1, <2>2
<1> QED BY <1>10, <1>19, <1>21, <1>22, <1>23, <1>24, <1>25 DEF Delayed, Lists

(* The running task goes to sleep, perhaps in an event list. *)
Sleeps(s, n, t) ==
    /\ Kernel(n)
    /\ n.pxCurrentTCB = s.pxCurrentTCB /\ n.uxSchedulerSuspended = s.uxSchedulerSuspended
    /\ n.pendingReady = s.pendingReady /\ n.ucNotifyState = s.ucNotifyState
    /\ Rdy(n) = Rdy(s) \ {t} /\ Evt(n) \subseteq Evt(s) \cup {t}
    /\ Highest(s) => Highest(n)

(* The highest stays so among fewer ready tasks.                           *)
LEMMA HighestFewer ==
    ASSUME NEW s, NEW n, Highest(s), Rdy(n) \subseteq Rdy(s), n.uxPriority = s.uxPriority,
           n.pxCurrentTCB = s.pxCurrentTCB, n.pendSV = s.pendSV, n.xYieldPending = s.xYieldPending
    PROVE  Highest(n)
BY DEF Highest, Current

(* The running task sleeps until its time.                                 *)
LEMMA DelaySleeps ==
    ASSUME NEW s, Kernel(s), s.pxCurrentTCB \in Tasks, NEW ticksToWait \in TickType, ticksToWait # 0,
           NEW indefinitely
    PROVE  Sleeps(s, prvAddCurrentTaskToDelayedList(s, ticksToWait, indefinitely), s.pxCurrentTCB)
<1> PICK t, n : t = s.pxCurrentTCB /\ n = prvAddCurrentTaskToDelayedList(s, ticksToWait, indefinitely)
  OBVIOUS
<1>1. Delayed(s, n, t)
  BY CurrentDelayed DEF Kernel
<1>2. /\ n.pxCurrentTCB = s.pxCurrentTCB /\ n.uxSchedulerSuspended = s.uxSchedulerSuspended
      /\ n.pendingReady = s.pendingReady /\ n.ucNotifyState = s.ucNotifyState
      /\ n.uxPriority = s.uxPriority /\ n.pendSV = s.pendSV /\ n.xYieldPending = s.xYieldPending
  BY <1>1 DEF Delayed, Same, DelayFields, MoveFields, StateFields, ReadyFields, KernelFields
<1>3. Rdy(n) = Rdy(s) \ {t} /\ Evt(n) = Evt(s)
  BY <1>1 DEF Delayed
<1>4. Unready(n)
  BY <1>2, <1>3 DEF Kernel, Unready
<1>5. Kernel(n)
  BY <1>1, <1>4 DEF Delayed, Kernel
<1>6. Highest(s) => Highest(n)
  BY <1>2, <1>3, HighestFewer
<1> QED BY <1>2, <1>3, <1>5, <1>6 DEF Sleeps

(* A task comes into an event list. *)
LEMMA EventPlaced ==
    ASSUME NEW s, Kernel(s), NEW t \in Tasks, t \notin Evt(s), NEW e \in EventLists, NEW n,
           n = [f \in KernelFields |-> n[f]], Same(s, n, {"events", "item"}),
           DOMAIN n.events = EventLists,
           \A f \in EventLists : f # e => n.events[f] = s.events[f],
           Once(n.events[e], Tasks), \A u : IsIn(u, n.events[e]) <=> u = t \/ IsIn(u, s.events[e])
    PROVE  /\ Lists(n) /\ Bits(n) /\ AtWrap(n) /\ Own(n)
           /\ Rdy(n) = Rdy(s) /\ Evt(n) = Evt(s) \cup {t}
<1>1. /\ n.xTickCount = s.xTickCount /\ n.xNextTaskUnblockTime = s.xNextTaskUnblockTime
      /\ n.xPendedTicks = s.xPendedTicks /\ n.uxSchedulerSuspended = s.uxSchedulerSuspended
      /\ n.pxCurrentTCB = s.pxCurrentTCB /\ n.uxPriority = s.uxPriority
      /\ n.uxBasePriority = s.uxBasePriority /\ n.rank = s.rank /\ n.wake = s.wake
      /\ n.ucNotifyState = s.ucNotifyState /\ n.halted = s.halted /\ n.pendSV = s.pendSV
      /\ n.delayed = s.delayed /\ n.overflow = s.overflow /\ n.suspendedTasks = s.suspendedTasks
      /\ n.ready = s.ready /\ n.xYieldPending = s.xYieldPending /\ n.pendingReady = s.pendingReady
      /\ n.tasksWaitingTermination = s.tasksWaitingTermination
      /\ n.uxTopReadyPriority = s.uxTopReadyPriority
  BY DEF Same, KernelFields
<1>2. /\ Typed(s) /\ ReadyLists(s) /\ WaitLists(s) /\ Apart(s) /\ Events(s) /\ Times(s)
      /\ Bits(s) /\ AtWrap(s) /\ Own(s)
  BY DEF Kernel, Lists
<1>3. Rdy(n) = Rdy(s)
  BY <1>1 DEF Rdy, IsReady
<1>4. t \in All
  BY NotIdle
<1>5. Evt(n) = Evt(s) \cup {t}
  <2>1. ASSUME NEW u \in Evt(n) PROVE u \in Evt(s) \cup {t}
    <3>1. PICK f \in EventLists : IsIn(u, n.events[f])
      BY <2>1 DEF Evt
    <3>2. u \in All
      BY <2>1 DEF Evt
    <3>3. CASE f = e
      BY <3>1, <3>2, <3>3 DEF Evt
    <3>4. CASE f # e
      BY <3>1, <3>2, <3>4 DEF Evt
    <3> QED BY <3>3, <3>4
  <2>2. ASSUME NEW u \in Evt(s) PROVE u \in Evt(n)
    <3>1. PICK f \in EventLists : IsIn(u, s.events[f])
      BY <2>2 DEF Evt
    <3>2. u \in All /\ IsIn(u, n.events[f])
      BY <2>2, <3>1 DEF Evt
    <3> QED BY <3>2 DEF Evt
  <2>3. t \in Evt(n)
    BY <1>4 DEF Evt
  <2> QED BY <2>1, <2>2, <2>3
<1>6. Events(n)
  <2>1. \A f \in EventLists : Once(n.events[f], Tasks)
    BY <1>2 DEF Events
  <2>2. \A f \in EventLists : IsIn(t, n.events[f]) => f = e
    BY <1>4 DEF Evt
  <2>3. \A f \in EventLists : \A u : IsIn(u, n.events[f]) => u = t \/ IsIn(u, s.events[f])
    OBVIOUS
  <2>4. \A f, g \in EventLists : \A u : IsIn(u, n.events[f]) /\ IsIn(u, n.events[g]) => f = g
    <3> SUFFICES ASSUME NEW f \in EventLists, NEW g \in EventLists, NEW u,
                        IsIn(u, n.events[f]), IsIn(u, n.events[g])
                 PROVE  f = g
      OBVIOUS
    <3>1. CASE u = t
      BY <2>2, <3>1
    <3>2. CASE u # t
      <4>1. IsIn(u, s.events[f]) /\ IsIn(u, s.events[g])
        BY <2>3, <3>2
      <4> QED BY <1>2, <4>1 DEF Events
    <3> QED BY <3>1, <3>2
  <2> QED BY <1>1, <1>2, <2>1, <2>4 DEF Events
<1>7. Typed(n) /\ WaitLists(n) /\ Times(n) /\ Bits(n) /\ AtWrap(n) /\ Own(n)
  BY <1>1, <1>2 DEF Typed, WaitLists, Times, Bits, AtWrap, Own
<1>8. ReadyLists(n) /\ Apart(n)
  BY <1>1, <1>2, <1>3 DEF ReadyLists, Apart
<1> QED BY <1>3, <1>5, <1>6, <1>7, <1>8 DEF Lists

(* The running task waits in an event list. *)
LEMMA PlacedSleeps ==
    ASSUME NEW s, Kernel(s), s.pxCurrentTCB \in Tasks,
           s.pxCurrentTCB \notin Evt(s), ~IsIn(s.pxCurrentTCB, s.pendingReady),
           NEW ticksToWait \in TickType, ticksToWait # 0, NEW e \in EventLists, NEW m,
           m = [f \in KernelFields |-> m[f]], Same(s, m, {"events", "item"}),
           DOMAIN m.events = EventLists,
           \A f \in EventLists : f # e => m.events[f] = s.events[f],
           Once(m.events[e], Tasks),
           \A u : IsIn(u, m.events[e]) <=> u = s.pxCurrentTCB \/ IsIn(u, s.events[e])
    PROVE  Sleeps(s, prvAddCurrentTaskToDelayedList(m, ticksToWait, TRUE), s.pxCurrentTCB)
<1> PICK t, n : t = s.pxCurrentTCB /\ n = prvAddCurrentTaskToDelayedList(m, ticksToWait, TRUE)
  OBVIOUS
<1>1. /\ Lists(m) /\ Bits(m) /\ AtWrap(m) /\ Own(m)
      /\ Rdy(m) = Rdy(s) /\ Evt(m) = Evt(s) \cup {t}
  BY EventPlaced
<1>2. /\ m.pxCurrentTCB = s.pxCurrentTCB /\ m.uxSchedulerSuspended = s.uxSchedulerSuspended
      /\ m.pendingReady = s.pendingReady /\ m.ucNotifyState = s.ucNotifyState
      /\ m.uxPriority = s.uxPriority /\ m.pendSV = s.pendSV /\ m.xYieldPending = s.xYieldPending
  BY DEF Same, KernelFields
<1>3. Delayed(m, n, t)
  BY <1>1, <1>2, CurrentDelayed
<1>4. /\ n.pxCurrentTCB = s.pxCurrentTCB /\ n.uxSchedulerSuspended = s.uxSchedulerSuspended
      /\ n.pendingReady = s.pendingReady /\ n.ucNotifyState = s.ucNotifyState
      /\ n.uxPriority = s.uxPriority /\ n.pendSV = s.pendSV /\ n.xYieldPending = s.xYieldPending
  BY <1>2, <1>3 DEF Delayed, Same, DelayFields, MoveFields, StateFields, ReadyFields, KernelFields
<1>5. Rdy(n) = Rdy(s) \ {t} /\ Evt(n) = Evt(s) \cup {t}
  BY <1>1, <1>3 DEF Delayed
<1>6. Unready(n)
  BY <1>4, <1>5 DEF Kernel, Unready
<1>7. Kernel(n)
  BY <1>3, <1>6 DEF Delayed, Kernel
<1>8. Highest(s) => Highest(n)
  BY <1>4, <1>5, HighestFewer
<1> QED BY <1>4, <1>5, <1>7, <1>8 DEF Sleeps

(* vListInsert puts one item in, whatever the order.                       *)
LEMMA InsertedSomewhere ==
    ASSUME NEW S, NEW list, Once(list, S), NEW x \in S, ~IsIn(x, list),
           NEW value, \A y \in S : value[y] \in Int
    PROVE  /\ Once(InsertByValue(list, x, value), S)
           /\ \A y : IsIn(y, InsertByValue(list, x, value)) <=> y = x \/ IsIn(y, list)
<1> PICK k : k = PlaceAfter(list, value, value[x])
  OBVIOUS
<1>1. list \in Seq(S) /\ value[x] \in Int
  BY DEF Once
<1>2. k \in 1 .. Len(list) + 1
  BY <1>1, Placed
<1> QED BY <1>2, OnceInserted DEF InsertByValue

(* vTaskPlaceOnEventList puts the running task to sleep.                   *)
LEMMA PlaceSleeps ==
    ASSUME NEW s, Kernel(s), s.pxCurrentTCB \in Tasks,
           s.pxCurrentTCB \notin Evt(s), ~IsIn(s.pxCurrentTCB, s.pendingReady),
           NEW ticksToWait \in TickType, ticksToWait # 0, NEW e \in EventLists
    PROVE  Sleeps(s, vTaskPlaceOnEventList(s, e, ticksToWait), s.pxCurrentTCB)
<1> PICK t, m : t = s.pxCurrentTCB /\ m = [s EXCEPT !.events[e] = InsertByValue(@, s.pxCurrentTCB, s.rank)]
  OBVIOUS
<1>1. /\ s = [f \in KernelFields |-> s[f]] /\ DOMAIN s.events = EventLists /\ Once(s.events[e], Tasks)
      /\ s.rank \in [All -> Int] /\ \A u \in Tasks : u \in All
  BY NotIdle DEF Kernel, Lists, Typed, Events
<1>2. /\ m = [f \in KernelFields |-> m[f]] /\ Same(s, m, {"events", "item"})
      /\ m.events = [s.events EXCEPT ![e] = InsertByValue(s.events[e], t, s.rank)]
  BY <1>1 DEF Same, KernelFields
<1>3. /\ DOMAIN m.events = EventLists /\ m.events[e] = InsertByValue(s.events[e], t, s.rank)
      /\ \A f \in EventLists : f # e => m.events[f] = s.events[f]
  BY <1>1, <1>2
<1>4. /\ Once(m.events[e], Tasks)
      /\ \A u : IsIn(u, m.events[e]) <=> u = s.pxCurrentTCB \/ IsIn(u, s.events[e])
  <2>1. t \in Tasks /\ ~IsIn(t, s.events[e]) /\ \A u \in Tasks : s.rank[u] \in Int
    BY <1>1 DEF Evt
  <2>2. /\ Once(InsertByValue(s.events[e], t, s.rank), Tasks)
        /\ \A u : IsIn(u, InsertByValue(s.events[e], t, s.rank)) <=> u = t \/ IsIn(u, s.events[e])
    BY <1>1, <2>1, InsertedSomewhere
  <2> QED BY <1>3, <2>2
<1>5. vTaskPlaceOnEventList(s, e, ticksToWait) = prvAddCurrentTaskToDelayedList(m, ticksToWait, TRUE)
  BY DEF vTaskPlaceOnEventList
<1>6. Sleeps(s, prvAddCurrentTaskToDelayedList(m, ticksToWait, TRUE), s.pxCurrentTCB)
  <2>1. /\ Kernel(s) /\ s.pxCurrentTCB \in Tasks
        /\ s.pxCurrentTCB \notin Evt(s) /\ ~IsIn(s.pxCurrentTCB, s.pendingReady)
        /\ ticksToWait \in TickType /\ ticksToWait # 0 /\ e \in EventLists
        /\ m = [f \in KernelFields |-> m[f]] /\ Same(s, m, {"events", "item"})
        /\ DOMAIN m.events = EventLists
        /\ \A f \in EventLists : f # e => m.events[f] = s.events[f]
        /\ Once(m.events[e], Tasks)
        /\ \A u : IsIn(u, m.events[e]) <=> u = s.pxCurrentTCB \/ IsIn(u, s.events[e])
    BY <1>2, <1>3, <1>4
  <2> QED BY ONLY <2>1, PlacedSleeps
<1> QED BY <1>5, <1>6

(* vTaskPlaceOnUnorderedEventList does so too.                             *)
LEMMA PlaceUnorderedSleeps ==
    ASSUME NEW s, Kernel(s), s.pxCurrentTCB \in Tasks,
           s.pxCurrentTCB \notin Evt(s), ~IsIn(s.pxCurrentTCB, s.pendingReady),
           NEW ticksToWait \in TickType, ticksToWait # 0, NEW e \in EventLists, NEW bits, NEW flags
    PROVE  Sleeps(s, vTaskPlaceOnUnorderedEventList(s, e, bits, flags, ticksToWait), s.pxCurrentTCB)
<1> PICK t : t = s.pxCurrentTCB
  OBVIOUS
<1> PICK m : m = [s EXCEPT !.events[e] = Append(@, s.pxCurrentTCB),
                           !.item[s.pxCurrentTCB] = [bits |-> bits, flags |-> flags \cup {"in use"}]]
  OBVIOUS
<1>1. /\ s = [f \in KernelFields |-> s[f]] /\ DOMAIN s.events = EventLists /\ Once(s.events[e], Tasks)
      /\ \A u \in Tasks : u \in All
  BY NotIdle DEF Kernel, Lists, Typed, Events
<1>2. /\ m = [f \in KernelFields |-> m[f]] /\ Same(s, m, {"events", "item"})
      /\ m.events = [s.events EXCEPT ![e] = Append(s.events[e], t)]
  BY <1>1 DEF Same, KernelFields
<1>3. /\ DOMAIN m.events = EventLists /\ m.events[e] = Append(s.events[e], t)
      /\ \A f \in EventLists : f # e => m.events[f] = s.events[f]
  BY <1>1, <1>2
<1>4. /\ Once(m.events[e], Tasks)
      /\ \A u : IsIn(u, m.events[e]) <=> u = s.pxCurrentTCB \/ IsIn(u, s.events[e])
  <2>1. t \in Tasks /\ ~IsIn(t, s.events[e])
    BY <1>1 DEF Evt
  <2>2. /\ Once(Append(s.events[e], t), Tasks)
        /\ \A u : IsIn(u, Append(s.events[e], t)) <=> u = t \/ IsIn(u, s.events[e])
    BY <1>1, <2>1, OnceAppended
  <2> QED BY <1>3, <2>2
<1>5. vTaskPlaceOnUnorderedEventList(s, e, bits, flags, ticksToWait)
          = prvAddCurrentTaskToDelayedList(m, ticksToWait, TRUE)
  BY DEF vTaskPlaceOnUnorderedEventList
<1>6. Sleeps(s, prvAddCurrentTaskToDelayedList(m, ticksToWait, TRUE), s.pxCurrentTCB)
  <2>1. /\ Kernel(s) /\ s.pxCurrentTCB \in Tasks
        /\ s.pxCurrentTCB \notin Evt(s) /\ ~IsIn(s.pxCurrentTCB, s.pendingReady)
        /\ ticksToWait \in TickType /\ ticksToWait # 0 /\ e \in EventLists
        /\ m = [f \in KernelFields |-> m[f]] /\ Same(s, m, {"events", "item"})
        /\ DOMAIN m.events = EventLists
        /\ \A f \in EventLists : f # e => m.events[f] = s.events[f]
        /\ Once(m.events[e], Tasks)
        /\ \A u : IsIn(u, m.events[e]) <=> u = s.pxCurrentTCB \/ IsIn(u, s.events[e])
    BY <1>2, <1>3, <1>4
  <2> QED BY ONLY <2>1, PlacedSleeps
<1> QED BY <1>5, <1>6

----------------------------------------------------------------------------
(* Wake-ups.                                                               *)

(* The states of a notification.                                           *)
States == {"none", "waiting", "received"}

(* The fields that are no lists keep their types.                          *)
LEMMA TypedFrame ==
    ASSUME NEW s, Typed(s), NEW n, Same(s, n, ListFields \cup FreeFields),
           n.xYieldPending \in BOOLEAN, n.pendSV \in BOOLEAN,
           n.xPendedTicks \in Nat, n.uxSchedulerSuspended \in Nat, n.ucNotifyState \in [All -> States]
    PROVE  Typed(n)
<1>1. /\ n.xTickCount = s.xTickCount /\ n.xNextTaskUnblockTime = s.xNextTaskUnblockTime
      /\ n.pxCurrentTCB = s.pxCurrentTCB /\ n.uxPriority = s.uxPriority
      /\ n.uxBasePriority = s.uxBasePriority /\ n.rank = s.rank /\ n.wake = s.wake
      /\ n.halted = s.halted
  BY DEF Same, FreeFields, YieldFields, ListFields, StateFields, EventFields, ReadyFields, KernelFields
<1>2. n = [f \in KernelFields |-> n[f]]
  BY DEF Same
<1> QED BY <1>1, <1>2 DEF Typed, States

(* A task taken off an event list is readied, or pended while the          *)
(* scheduler is suspended, when the state lists stay as they are.          *)
Still(s, n) == /\ n.ready = s.ready /\ n.delayed = s.delayed /\ n.overflow = s.overflow
               /\ n.suspendedTasks = s.suspendedTasks
Pends(s, n, t) ==
    /\ Kernel(n) /\ Same(s, n, MoveFields \cup {"pendingReady"})
    /\ Rdy(s) \subseteq Rdy(n) /\ Rdy(n) \subseteq Rdy(s) \cup {t} /\ Evt(n) = Evt(s)
    /\ \A u : IsIn(u, n.pendingReady) => IsIn(u, s.pendingReady) \/ (s.uxSchedulerSuspended # 0 /\ u = t)
    /\ s.uxSchedulerSuspended # 0 => Still(s, n) /\ Rdy(n) = Rdy(s)

(* A task is readied, or pended while the scheduler is suspended.          *)
LEMMA ReadiedOrPended ==
    ASSUME NEW s, Kernel(s), NEW t \in Tasks, t \notin Evt(s), ~IsIn(t, s.pendingReady)
    PROVE  Pends(s, ReadyOrPend(s, t), t)
<1> PICK n : n = ReadyOrPend(s, t)
  OBVIOUS
<1>1. CASE s.uxSchedulerSuspended = 0
  <2>1. n = prvAddTaskToReadyList(OffStateList(s, t), t)
    BY <1>1 DEF ReadyOrPend
  <2>2. Moved(s, n, t)
    BY <2>1, MovedReady DEF Kernel
  <2>3. /\ n.xTickCount = s.xTickCount /\ n.pendingReady = s.pendingReady
        /\ n.uxBasePriority = s.uxBasePriority /\ n.uxPriority = s.uxPriority
    BY <2>2 DEF Moved, Same, MoveFields, StateFields, ReadyFields, KernelFields
  <2>4. Unready(n) /\ Own(n)
    BY <2>2, <2>3 DEF Moved, Kernel, Unready, Own
  <2>5. AtWrap(n)
    <3>1. s.delayed = <<>> => \A u : ~IsIn(u, n.delayed)
      BY <2>2, EmptyList DEF Moved
    <3>2. n.delayed \in Seq(Tasks)
      BY <2>2 DEF Moved, Lists, WaitLists, Once
    <3> QED BY <2>3, <3>1, <3>2, NotEmpty DEF Kernel, AtWrap
  <2>6. Same(s, n, MoveFields \cup {"pendingReady"})
    BY <2>2, SameMore DEF Moved
  <2> QED BY <1>1, <2>2, <2>3, <2>4, <2>5, <2>6 DEF Moved, Pends, Kernel
<1>2. CASE s.uxSchedulerSuspended # 0
  <2>1. n = [s EXCEPT !.pendingReady = Append(@, t)]
    BY <1>2 DEF ReadyOrPend
  <2>2. Once(s.pendingReady, Tasks) /\ s = [f \in KernelFields |-> s[f]]
    BY DEF Kernel, Lists, Events, Typed
  <2>3. /\ Once(Append(s.pendingReady, t), Tasks)
        /\ \A u : IsIn(u, Append(s.pendingReady, t)) <=> u = t \/ IsIn(u, s.pendingReady)
    BY <2>2, OnceAppended
  <2>4. /\ n = [f \in KernelFields |-> n[f]] /\ Same(s, n, {"pendingReady"})
        /\ n.pendingReady = Append(s.pendingReady, t)
    BY <2>1, <2>2 DEF Same, KernelFields
  <2>5. /\ n.ready = s.ready /\ n.delayed = s.delayed /\ n.overflow = s.overflow
        /\ n.suspendedTasks = s.suspendedTasks /\ n.tasksWaitingTermination = s.tasksWaitingTermination
        /\ n.events = s.events /\ n.uxTopReadyPriority = s.uxTopReadyPriority
        /\ n.xTickCount = s.xTickCount /\ n.xNextTaskUnblockTime = s.xNextTaskUnblockTime
        /\ n.uxBasePriority = s.uxBasePriority /\ n.uxPriority = s.uxPriority /\ n.wake = s.wake
        /\ n.xYieldPending = s.xYieldPending /\ n.pendSV = s.pendSV /\ n.xPendedTicks = s.xPendedTicks
        /\ n.uxSchedulerSuspended = s.uxSchedulerSuspended /\ n.ucNotifyState = s.ucNotifyState
    BY <2>4 DEF Same, KernelFields
  <2>6. Rdy(n) = Rdy(s) /\ Evt(n) = Evt(s)
    BY <2>5 DEF Rdy, Evt, IsReady
  <2>7. Typed(n)
    <3>1. Typed(s)
      BY DEF Kernel, Lists
    <3>2. /\ n.xYieldPending \in BOOLEAN /\ n.pendSV \in BOOLEAN
          /\ n.xPendedTicks \in Nat /\ n.uxSchedulerSuspended \in Nat /\ n.ucNotifyState \in [All -> States]
      BY <2>5, <3>1 DEF Typed, States
    <3>3. Same(s, n, ListFields \cup FreeFields)
      BY <2>4, SameMore DEF ListFields, EventFields
    <3> QED BY <3>1, <3>2, <3>3, TypedFrame
  <2>8. ReadyLists(n) /\ WaitLists(n) /\ Apart(n) /\ Events(n) /\ Times(n)
    <3>1. ReadyLists(s) /\ WaitLists(s) /\ Apart(s) /\ Events(s) /\ Times(s)
      BY DEF Kernel, Lists
    <3>2. ReadyLists(n)
      BY <2>5, <2>6, <3>1 DEF ReadyLists
    <3>3. WaitLists(n)
      BY <2>5, <3>1 DEF WaitLists
    <3>4. Apart(n)
      BY <2>5, <2>6, <3>1 DEF Apart
    <3>5. Events(n)
      BY <2>3, <2>4, <2>5, <3>1 DEF Events
    <3>6. Times(n)
      BY <2>5, <3>1 DEF Times
    <3> QED BY <3>2, <3>3, <3>4, <3>5, <3>6
  <2>9. Bits(n) /\ Unready(n) /\ AtWrap(n) /\ Own(n)
    BY <2>3, <2>4, <2>5, <2>6 DEF Kernel, Bits, Unready, AtWrap, Own
  <2>10. Same(s, n, MoveFields \cup {"pendingReady"})
    BY <2>4, SameMore
  <2>11. \A u : IsIn(u, n.pendingReady) => IsIn(u, s.pendingReady) \/ u = t
    BY <2>3, <2>4
  <2>12. Still(s, n)
    BY <2>5 DEF Still
  <2>13. Kernel(n)
    BY <2>7, <2>8, <2>9 DEF Kernel, Lists
  <2> QED BY <1>2, <2>6, <2>10, <2>11, <2>12, <2>13 DEF Pends
<1> QED BY <1>1, <1>2

(* The head of an event list is taken off it. *)
LEMMA EventTaken ==
    ASSUME NEW s, Kernel(s), NEW e \in EventLists, s.events[e] # <<>>, NEW n,
           Same(s, n, {"events", "xYieldPending"}),
           n.events = [s.events EXCEPT ![e] = Tail(s.events[e])], n.xYieldPending \in BOOLEAN
    PROVE  /\ Head(s.events[e]) \in Tasks /\ Head(s.events[e]) \in Evt(s)
           /\ Kernel(n) /\ Rdy(n) = Rdy(s) /\ Evt(n) = Evt(s) \ {Head(s.events[e])}
<1> DEFINE t == Head(s.events[e])
<1>1. /\ s = [f \in KernelFields |-> s[f]] /\ DOMAIN s.events = EventLists /\ Once(s.events[e], Tasks)
  BY DEF Kernel, Lists, Typed, Events
<1>2. /\ t \in Tasks /\ IsIn(t, s.events[e]) /\ Once(Tail(s.events[e]), Tasks)
      /\ \A u : IsIn(u, Tail(s.events[e])) <=> u # t /\ IsIn(u, s.events[e])
  BY <1>1, OnceTail
<1>3. t \in Evt(s)
  BY <1>2, NotIdle DEF Evt
<1>4. n = [f \in KernelFields |-> n[f]]
  BY DEF Same
<1>5. /\ n.ready = s.ready /\ n.delayed = s.delayed /\ n.overflow = s.overflow
      /\ n.suspendedTasks = s.suspendedTasks /\ n.tasksWaitingTermination = s.tasksWaitingTermination
      /\ n.pendingReady = s.pendingReady /\ n.uxTopReadyPriority = s.uxTopReadyPriority
      /\ n.xTickCount = s.xTickCount /\ n.xNextTaskUnblockTime = s.xNextTaskUnblockTime
      /\ n.uxBasePriority = s.uxBasePriority /\ n.uxPriority = s.uxPriority /\ n.wake = s.wake
      /\ n.pendSV = s.pendSV /\ n.xPendedTicks = s.xPendedTicks
      /\ n.uxSchedulerSuspended = s.uxSchedulerSuspended /\ n.ucNotifyState = s.ucNotifyState
  BY DEF Same, KernelFields
<1>6. /\ DOMAIN n.events = EventLists /\ n.events[e] = Tail(s.events[e])
      /\ \A f \in EventLists : f # e => n.events[f] = s.events[f]
  BY <1>1, <1>4
<1> HIDE DEF t
<1>7. /\ \A f, g \in EventLists : \A u : IsIn(u, s.events[f]) /\ IsIn(u, s.events[g]) => f = g
      /\ \A f \in EventLists : Once(s.events[f], Tasks)
      /\ Once(s.pendingReady, Tasks)
  BY DEF Kernel, Lists, Events
<1>8. \A f \in EventLists : \A u : IsIn(u, n.events[f]) <=> IsIn(u, s.events[f]) /\ u # t
  <2> TAKE f \in EventLists
  <2>1. CASE f = e
    BY <1>2, <1>6, <2>1
  <2>2. CASE f # e
    BY <1>2, <1>6, <1>7, <2>2
  <2> QED BY <2>1, <2>2
<1>9. Rdy(n) = Rdy(s) /\ Evt(n) = Evt(s) \ {t}
  BY <1>5, <1>8 DEF Rdy, Evt, IsReady
<1>10. Events(n)
  <2>1. \A f \in EventLists : Once(n.events[f], Tasks)
    BY <1>2, <1>6, <1>7
  <2>2. \A f, g \in EventLists : \A u : IsIn(u, n.events[f]) /\ IsIn(u, n.events[g]) => f = g
    BY ONLY <1>7, <1>8
  <2> QED BY <1>5, <1>6, <1>7, <2>1, <2>2 DEF Events
<1>11. Typed(n)
  <2>1. Typed(s)
    BY DEF Kernel, Lists
  <2>2. /\ n.xYieldPending \in BOOLEAN /\ n.pendSV \in BOOLEAN
        /\ n.xPendedTicks \in Nat /\ n.uxSchedulerSuspended \in Nat /\ n.ucNotifyState \in [All -> States]
    BY <1>1, <1>4, <1>5, <2>1 DEF Typed, States
  <2>3. Same(s, n, ListFields \cup FreeFields)
    BY <1>4, SameMore DEF ListFields, EventFields, FreeFields, YieldFields
  <2> QED BY <2>1, <2>2, <2>3, TypedFrame
<1>12. ReadyLists(n) /\ WaitLists(n) /\ Apart(n) /\ Times(n)
  BY <1>5, <1>9 DEF Kernel, Lists, ReadyLists, WaitLists, Apart, Times
<1>13. Bits(n) /\ Unready(n) /\ AtWrap(n) /\ Own(n)
  BY <1>5, <1>9 DEF Kernel, Bits, Unready, AtWrap, Own
<1> QED BY <1>2, <1>3, <1>4, <1>9, <1>10, <1>11, <1>12, <1>13 DEF t, Kernel, Lists

(* A wake-up changes no state list while the scheduler is suspended. *)
Wakes(s, n, P) == Keeps(s, n, P) /\ (s.uxSchedulerSuspended # 0 => Still(s, n))

(* A kernel left alone wakes none.                                         *)
LEMMA WakesSelf == ASSUME NEW s, Kernel(s) PROVE Wakes(s, s, {})
BY KeepsSelf DEF Wakes, Still

(* What goes on after some were woken wakes no more.                       *)
LEMMA WakesOn ==
    ASSUME NEW s, NEW m, NEW n, NEW P, Wakes(s, m, P), Wakes(m, n, {})
    PROVE  Wakes(s, n, P)
<1>1. Keeps(s, n, P \cup {})
  BY KeepsBoth DEF Wakes
<1>2. P \cup {} = P
  OBVIOUS
<1>3. m.uxSchedulerSuspended = s.uxSchedulerSuspended
  BY DEF Wakes, Keeps
<1> QED BY <1>1, <1>2, <1>3 DEF Wakes, Still

(* Fields no list depends on. *)
LEMMA FreeKeeps ==
    ASSUME NEW s, Kernel(s), NEW n, Typed(n), Same(s, n, FreeFields \cup {"rank"}),
           n.uxSchedulerSuspended = s.uxSchedulerSuspended,
           \A u \in Tasks : n.ucNotifyState[u] = "waiting" => s.ucNotifyState[u] = "waiting",
           s.pendSV => n.pendSV, s.xYieldPending => n.xYieldPending
    PROVE  Wakes(s, n, {}) /\ Rdy(n) = Rdy(s) /\ Evt(n) = Evt(s)
<1>1. Same(s, n, OtherFields)
  BY SameMore DEF OtherFields, FreeFields, YieldFields
<1>2. Lists(n) /\ Rdy(n) = Rdy(s) /\ Evt(n) = Evt(s)
  BY <1>1, SameLists DEF Kernel
<1>3. /\ n.ready = s.ready /\ n.uxTopReadyPriority = s.uxTopReadyPriority
      /\ n.xTickCount = s.xTickCount /\ n.pendingReady = s.pendingReady
      /\ n.delayed = s.delayed /\ n.overflow = s.overflow /\ n.suspendedTasks = s.suspendedTasks
      /\ n.uxBasePriority = s.uxBasePriority /\ n.uxPriority = s.uxPriority
      /\ n.pxCurrentTCB = s.pxCurrentTCB
  BY DEF Same, FreeFields, YieldFields, KernelFields
<1>4. Kernel(n)
  BY <1>2, <1>3 DEF Kernel, Bits, Unready, AtWrap, Own
<1>5. Highest(s) => Highest(n)
  BY <1>2, <1>3 DEF Highest, Current
<1> QED BY <1>2, <1>3, <1>4, <1>5 DEF Wakes, Keeps, Still

(* A request for a switch. *)
LEMMA AskedKeeps ==
    ASSUME NEW s, Kernel(s), NEW n, Same(s, n, YieldFields), n.pendSV \in BOOLEAN, n.xYieldPending \in BOOLEAN,
           s.pendSV => n.pendSV, s.xYieldPending => n.xYieldPending
    PROVE  Wakes(s, n, {}) /\ Rdy(n) = Rdy(s)
<1>1. n.xPendedTicks = s.xPendedTicks /\ n.uxSchedulerSuspended = s.uxSchedulerSuspended
      /\ n.ucNotifyState = s.ucNotifyState
  BY DEF Same, YieldFields, KernelFields
<1>2. Typed(s)
  BY DEF Kernel, Lists
<1>3. Typed(n)
  <2>1. n.xPendedTicks \in Nat /\ n.uxSchedulerSuspended \in Nat /\ n.ucNotifyState \in [All -> States]
    BY <1>1, <1>2 DEF Typed, States
  <2>2. Same(s, n, ListFields \cup FreeFields)
    BY SameMore DEF FreeFields
  <2> QED BY <1>2, <2>1, <2>2, TypedFrame
<1>4. Same(s, n, FreeFields \cup {"rank"})
  BY SameMore DEF FreeFields
<1> QED BY <1>1, <1>3, <1>4, FreeKeeps

(* To ask for a switch is no harm.                                         *)
LEMMA YieldKeeps ==
    ASSUME NEW s, Kernel(s), NEW condition
    PROVE  Wakes(s, YieldIf(s, condition), {})
<1>1. s = [f \in KernelFields |-> s[f]] /\ s.xYieldPending \in BOOLEAN /\ s.pendSV \in BOOLEAN
  BY DEF Kernel, Lists, Typed
<1>2. CASE condition
  <2> PICK n : n = Yield(s)
    OBVIOUS
  <2>1. Same(s, n, YieldFields) /\ n.pendSV = TRUE /\ n.xYieldPending = s.xYieldPending
    BY <1>1 DEF Yield, Same, YieldFields, KernelFields
  <2>2. Wakes(s, n, {})
    BY <1>1, <2>1, AskedKeeps
  <2> QED BY <1>2, <2>2 DEF YieldIf
<1>3. CASE ~condition
  BY <1>3, WakesSelf DEF YieldIf
<1> QED BY <1>2, <1>3

(* vTaskMissedYield is no harm.                                            *)
LEMMA MissedKeeps ==
    ASSUME NEW s, Kernel(s), NEW yields
    PROVE  Wakes(s, [s EXCEPT !.xYieldPending = @ \/ yields], {})
<1>1. s = [f \in KernelFields |-> s[f]] /\ s.xYieldPending \in BOOLEAN /\ s.pendSV \in BOOLEAN
  BY DEF Kernel, Lists, Typed
<1> PICK n : n = [s EXCEPT !.xYieldPending = @ \/ yields]
  OBVIOUS
<1>2. Same(s, n, YieldFields) /\ n.pendSV = s.pendSV /\ n.xYieldPending = (s.xYieldPending \/ yields)
  BY <1>1 DEF Same, YieldFields, KernelFields
<1>3. Wakes(s, n, {})
  BY <1>1, <1>2, AskedKeeps
<1> QED BY <1>3

(* Priorities are numbers.                                                 *)
LEMMA PrioritiesAre ==
    ASSUME NEW s, Kernel(s)
    PROVE  Current(s) \in Int /\ \A u \in All : s.uxPriority[u] \in Int
BY KernelAssumption DEF Kernel, Lists, Typed, Current, Priorities

(* xTaskRemoveFromEventList. *)
LEMMA RemovedKeeps ==
    ASSUME NEW s, Kernel(s), NEW e \in EventLists, s.events[e] # <<>>
    PROVE  LET r == xTaskRemoveFromEventList(s, e)
           IN Wakes(s, r.kernel, {}) /\ r.kernel.pendSV = s.pendSV
<1> PICK t : t = Head(s.events[e])
  OBVIOUS
<1> DEFINE woken == s.uxPriority[t] > Current(s)
<1> PICK yields \in BOOLEAN : yields = woken
  <2>1. woken \in BOOLEAN
    OBVIOUS
  <2> HIDE DEF woken
  <2> QED BY Zenon, <2>1
<1>a. PICK off : off = [s EXCEPT !.events[e] = Tail(@), !.xYieldPending = @ \/ yields]
  OBVIOUS
<1>b. PICK n : n = ReadyOrPend(off, t)
  OBVIOUS
<1>1. /\ t \in Tasks /\ t \in Evt(s)
      /\ Kernel(off) /\ Same(s, off, {"events", "xYieldPending"})
      /\ off.xYieldPending = (s.xYieldPending \/ yields)
      /\ Rdy(off) = Rdy(s) /\ Evt(off) = Evt(s) \ {t}
  <2>1. s = [f \in KernelFields |-> s[f]] /\ DOMAIN s.events = EventLists /\ s.xYieldPending \in BOOLEAN
    BY Zenon DEF Kernel, Lists, Typed, Events
  <2>2. /\ Same(s, off, {"events", "xYieldPending"})
        /\ off.events = [s.events EXCEPT ![e] = Tail(s.events[e])]
        /\ off.xYieldPending = (s.xYieldPending \/ yields)
    BY Zenon, <1>a, <2>1 DEF Same, KernelFields
  <2>3. off.xYieldPending \in BOOLEAN
    BY <2>1, <2>2
  <2>4. /\ Kernel(s) /\ e \in EventLists /\ s.events[e] # <<>>
        /\ Same(s, off, {"events", "xYieldPending"})
        /\ off.events = [s.events EXCEPT ![e] = Tail(s.events[e])] /\ off.xYieldPending \in BOOLEAN
    BY <2>2, <2>3
  <2>5. /\ Head(s.events[e]) \in Tasks /\ Head(s.events[e]) \in Evt(s)
        /\ Kernel(off) /\ Rdy(off) = Rdy(s) /\ Evt(off) = Evt(s) \ {Head(s.events[e])}
    BY ONLY <2>4, EventTaken
  <2> QED BY <2>2, <2>5
<1>2. /\ off.pendingReady = s.pendingReady /\ off.uxSchedulerSuspended = s.uxSchedulerSuspended
      /\ off.pxCurrentTCB = s.pxCurrentTCB /\ off.uxPriority = s.uxPriority
      /\ off.ucNotifyState = s.ucNotifyState /\ off.pendSV = s.pendSV
      /\ off.ready = s.ready /\ off.delayed = s.delayed /\ off.overflow = s.overflow
      /\ off.suspendedTasks = s.suspendedTasks
  BY ONLY <1>1 DEF Same, KernelFields
<1>3. ~IsIn(t, off.pendingReady) /\ t \notin Evt(off)
  BY <1>1, <1>2 DEF Kernel, Unready
<1>4. Pends(off, n, t)
  BY <1>1, <1>3, <1>b, ReadiedOrPended
<1>5. /\ n.uxSchedulerSuspended = s.uxSchedulerSuspended
      /\ n.pxCurrentTCB = s.pxCurrentTCB /\ n.uxPriority = s.uxPriority
      /\ n.ucNotifyState = s.ucNotifyState /\ n.pendSV = s.pendSV
      /\ n.xYieldPending = off.xYieldPending
  <2>1. Same(off, n, MoveFields \cup {"pendingReady"})
    BY <1>4 DEF Pends
  <2>2. /\ n.uxSchedulerSuspended = off.uxSchedulerSuspended
        /\ n.pxCurrentTCB = off.pxCurrentTCB /\ n.uxPriority = off.uxPriority
        /\ n.ucNotifyState = off.ucNotifyState /\ n.pendSV = off.pendSV
        /\ n.xYieldPending = off.xYieldPending
    BY ONLY <2>1 DEF Same, MoveFields, StateFields, ReadyFields, KernelFields
  <2> QED BY <1>2, <2>2
<1>6. Highest(s) => Highest(n)
  <2> SUFFICES ASSUME Highest(s), ~n.pendSV, ~n.xYieldPending, NEW u \in Rdy(n)
               PROVE  n.uxPriority[u] <= Current(n)
    BY DEF Highest
  <2>1. Current(n) = Current(s) /\ u \in All
    BY <1>5 DEF Current, Rdy
  <2>2. Current(s) \in Int /\ s.uxPriority[u] \in Int
    BY <2>1, PrioritiesAre
  <2>3. ~woken /\ ~s.xYieldPending
    BY <1>1, <1>5
  <2>4. CASE u = t
    <3>1. ~(s.uxPriority[t] > Current(s))
      BY <2>3
    <3>2. s.uxPriority[t] <= Current(s)
      BY <2>2, <2>4, <3>1
    <3> QED BY <1>5, <2>1, <2>4, <3>2
  <2>5. CASE u \in Rdy(s)
    BY <1>5, <2>1, <2>3, <2>5 DEF Highest
  <2> QED BY <1>1, <1>4, <2>4, <2>5 DEF Pends
<1>7. Keeps(s, n, {})
  BY Zenon, <1>1, <1>2, <1>4, <1>5, <1>6 DEF Pends, Keeps
<1>8. s.uxSchedulerSuspended # 0 => Still(s, n)
  BY <1>2, <1>4 DEF Pends, Still
<1> PICK r : r = xTaskRemoveFromEventList(s, e)
  OBVIOUS
<1>9. r = [kernel |-> n, woken |-> yields]
  BY <1>a, <1>b DEF xTaskRemoveFromEventList
<1>10. r.kernel = n 
  BY ONLY <1>9
<1> QED BY <1>5, <1>7, <1>8, <1>10 DEF Wakes

(* xTaskRemoveFromEventList of the first that waits, if any does.          *)
LEMMA WakeOneKeeps ==
    ASSUME NEW s, Kernel(s), NEW e \in EventLists
    PROVE  LET r == WakeOne(s, e) IN Wakes(s, r.kernel, {}) /\ r.kernel.pendSV = s.pendSV
<1> PICK r : r = WakeOne(s, e)
  OBVIOUS
<1>1. CASE s.events[e] = <<>>
  <2>1. r = [kernel |-> s, woken |-> FALSE]
    BY <1>1 DEF WakeOne
  <2>2. r.kernel = s /\ r.woken = FALSE
    BY ONLY <2>1
  <2> QED BY <2>2, WakesSelf
<1>2. CASE s.events[e] # <<>>
  <2>1. r = xTaskRemoveFromEventList(s, e)
    BY <1>2 DEF WakeOne
  <2> QED BY <1>2, <2>1, RemovedKeeps
<1> QED BY <1>1, <1>2

(* The same, followed by a switch when that is the higher.                 *)
LEMMA WakeOneYields ==
    ASSUME NEW s, Kernel(s), NEW e \in EventLists
    PROVE  Wakes(s, WakeOneAndYield(s, e), {})
<1> PICK w : w = WakeOne(s, e)
  OBVIOUS
<1>1. Wakes(s, w.kernel, {})
  BY WakeOneKeeps
<1>2. Wakes(w.kernel, YieldIf(w.kernel, w.woken), {})
  BY <1>1, YieldKeeps DEF Wakes, Keeps
<1>3. WakeOneAndYield(s, e) = YieldIf(w.kernel, w.woken)
  BY DEF WakeOneAndYield
<1> QED BY <1>1, <1>2, <1>3, WakesOn

(* The same for prvUnlockQueue, which notes the switch.                    *)
LEMMA WakeMissedKeeps ==
    ASSUME NEW s, Kernel(s), NEW e \in EventLists
    PROVE  Wakes(s, WakeMissed(s, e), {})
<1> PICK w : w = WakeOne(s, e)
  OBVIOUS
<1>1. Wakes(s, w.kernel, {})
  BY WakeOneKeeps
<1>2. Wakes(w.kernel, [w.kernel EXCEPT !.xYieldPending = @ \/ w.woken], {})
  BY <1>1, MissedKeeps DEF Wakes, Keeps
<1>3. WakeMissed(s, e) = [w.kernel EXCEPT !.xYieldPending = @ \/ w.woken]
  BY DEF WakeMissed
<1> QED BY <1>1, <1>2, <1>3, WakesOn

(* prvUnlockQueue. *)
LEMMA MadeUpSome ==
    ASSUME NEW s, Kernel(s), NEW e \in EventLists, NEW N \in Nat, N > 0
    PROVE  Wakes(s, MakeUp(s, e, N), {})
<1>1. N \in Nat
  OBVIOUS
<1> DEFINE Run(g, k) == g = [n \in 0 .. k |-> IF n = 0 THEN s ELSE WakeMissed(g[n - 1], e)]
           Runs == {k \in 0 .. N : \E g : Run(g, k)}
<1>2. N \in Runs
  <2>1. 0 \in Runs
    <3> DEFINE h == [n \in 0 .. 0 |-> s]
    <3>1. \A n \in 0 .. 0 : h[n] = IF n = 0 THEN s ELSE WakeMissed(h[n - 1], e)
      OBVIOUS
    <3>2. h = [n \in 0 .. 0 |-> h[n]]
      OBVIOUS
    <3> HIDE DEF h
    <3>3. Run(h, 0)
      BY <3>1, <3>2
    <3> QED BY <1>1, <3>3
  <2>2. ASSUME NEW k \in 0 .. N - 1, k \in Runs PROVE k + 1 \in Runs
    <3>1. PICK g : Run(g, k)
      BY <2>2
    <3> DEFINE h == [n \in 0 .. k + 1 |-> IF n = 0 THEN s ELSE WakeMissed(g[n - 1], e)]
    <3>2. ASSUME NEW n \in 0 .. k + 1
          PROVE h[n] = IF n = 0 THEN s ELSE WakeMissed(h[n - 1], e)
      <4>1. CASE n = 0
        BY <4>1
      <4>2. CASE n # 0
        <5>1. n - 1 \in 0 .. k /\ n - 1 \in 0 .. k + 1 /\ k \in Int
          BY <4>2
        <5>2. g[n - 1] = IF n - 1 = 0 THEN s ELSE WakeMissed(g[(n - 1) - 1], e)
          BY <3>1, <5>1
        <5>3. h[n - 1] = IF n - 1 = 0 THEN s ELSE WakeMissed(g[(n - 1) - 1], e)
          BY <5>1
        <5>4. h[n] = WakeMissed(g[n - 1], e)
          BY <4>2
        <5> QED BY <4>2, <5>2, <5>3, <5>4
      <4> QED BY <4>1, <4>2
    <3>3. h = [n \in 0 .. k + 1 |-> h[n]]
      OBVIOUS
    <3> HIDE DEF h
    <3>4. Run(h, k + 1)
      BY <3>2, <3>3
    <3>5. k + 1 \in 0 .. N
      BY <1>1
    <3> QED BY <3>4, <3>5
  <2> HIDE DEF Runs
  <2> QED BY <1>1, <2>1, <2>2, UpTo
<1> DEFINE After == CHOOSE g : Run(g, N)
<1>3. Run(After, N)
  BY <1>2
<1>4. MakeUp(s, e, N) = After[N]
  BY DEF MakeUp
<1> HIDE DEF After
<1> DEFINE Done == {i \in 0 .. N : Wakes(s, After[i], {})}
<1>5. N \in Done
  <2>1. 0 \in Done
    <3>1. After[0] = s
      BY <1>1, <1>3
    <3> QED BY <1>1, <3>1, WakesSelf
  <2>2. ASSUME NEW k \in 0 .. N - 1, k \in Done PROVE k + 1 \in Done
    <3>1. k + 1 \in 0 .. N /\ k + 1 # 0 /\ (k + 1) - 1 = k /\ k \in 0 .. N
      BY <1>1
    <3> PICK m : m = After[k]
      OBVIOUS
    <3>2. After[k + 1] = WakeMissed(m, e)
      BY <1>3, <3>1
    <3>3. Wakes(s, m, {})
      BY <2>2, <3>1
    <3>4. Wakes(m, WakeMissed(m, e), {})
      BY <3>3, WakeMissedKeeps DEF Wakes, Keeps
    <3>5. Wakes(s, WakeMissed(m, e), {})
      BY <3>3, <3>4, WakesOn
    <3> QED BY <3>1, <3>2, <3>5
  <2> HIDE DEF Done
  <2> QED BY <1>1, <2>1, <2>2, UpTo
<1> QED BY <1>4, <1>5

(* prvUnlockQueue readies as many as there were calls of handlers.         *)
LEMMA MadeUp ==
    ASSUME NEW s, Kernel(s), NEW e \in EventLists, NEW N \in Int
    PROVE  Wakes(s, MakeUp(s, e, N), {})
<1>1. CASE N > 0
  BY <1>1, MadeUpSome
<1>2. CASE ~(N > 0)
  <2>1. MakeUp(s, e, N) = s
    BY <1>2 DEF MakeUp
  <2> QED BY <2>1, WakesSelf
<1> QED BY <1>1, <1>2

----------------------------------------------------------------------------
(* Event groups, and the abort of a delay.                                 *)

(* Fields of the tasks and requests to yield only. *)
LEMMA FreeLists ==
    ASSUME NEW s, Lists(s), NEW n, Same(s, n, FreeFields),
           n.xYieldPending \in BOOLEAN, n.pendSV \in BOOLEAN,
           n.xPendedTicks \in Nat, n.uxSchedulerSuspended \in Nat, n.ucNotifyState \in [All -> States]
    PROVE  Lists(n) /\ Rdy(n) = Rdy(s) /\ Evt(n) = Evt(s)
<1>1. Same(s, n, ListFields \cup FreeFields) /\ Same(s, n, OtherFields)
  BY SameMore DEF OtherFields, FreeFields, YieldFields
<1>2. Typed(n)
  BY <1>1, TypedFrame DEF Lists
<1> QED BY <1>1, <1>2, SameLists

(* vTaskRemoveFromUnorderedEventList. *)
LEMMA UnorderedKeeps ==
    ASSUME NEW s, Kernel(s), NEW t \in Tasks, NEW bits, NEW flags
    PROVE  Keeps(s, vTaskRemoveFromUnorderedEventList(s, t, bits, flags), {})
<1> DEFINE woken == s.uxPriority[t] > Current(s)
<1> PICK higher \in BOOLEAN : higher = woken
  <2>1. woken \in BOOLEAN
    OBVIOUS
  <2> HIDE DEF woken
  <2> QED BY Zenon, <2>1
<1> PICK a : a = OffEventList(s, t)
  OBVIOUS
<1> PICK b : b = OffStateList(a, t)
  OBVIOUS
<1> PICK c : c = [b EXCEPT !.item[t] = [bits |-> bits, flags |-> flags \cup {"in use"}],
                           !.xYieldPending = @ \/ higher]
  OBVIOUS
<1> PICK n : n = prvAddTaskToReadyList(c, t)
  OBVIOUS
<1>1. /\ Lists(a) /\ Same(s, a, EventFields)
      /\ Rdy(a) = Rdy(s) /\ Evt(a) = Evt(s) \ {t}
      /\ \A u : IsIn(u, a.pendingReady) <=> u # t /\ IsIn(u, s.pendingReady)
  BY OffEvent DEF Kernel
<1>2. Leaves(a, b, t)
  BY <1>1, OffState
<1>3. /\ b = [f \in KernelFields |-> b[f]] /\ b.xYieldPending \in BOOLEAN /\ b.pendSV \in BOOLEAN
      /\ b.xPendedTicks \in Nat /\ b.uxSchedulerSuspended \in Nat /\ b.ucNotifyState \in [All -> States]
  BY <1>2 DEF Leaves, Lists, Typed, States
<1>4. /\ Same(b, c, FreeFields) /\ c.xYieldPending = (b.xYieldPending \/ higher) /\ c.pendSV = b.pendSV
      /\ c.xPendedTicks = b.xPendedTicks /\ c.uxSchedulerSuspended = b.uxSchedulerSuspended
      /\ c.ucNotifyState = b.ucNotifyState /\ c.ready = b.ready /\ c.delayed = b.delayed
      /\ c.overflow = b.overflow /\ c.suspendedTasks = b.suspendedTasks
      /\ c.pendingReady = b.pendingReady /\ c.uxPriority = b.uxPriority
      /\ c.uxTopReadyPriority = b.uxTopReadyPriority
  BY <1>3 DEF Same, FreeFields, YieldFields, KernelFields
<1>5. Lists(c) /\ Rdy(c) = Rdy(b) /\ Evt(c) = Evt(b)
  <2>1. c.xYieldPending \in BOOLEAN
    BY <1>3, <1>4
  <2>2. /\ Lists(b) /\ Same(b, c, FreeFields) /\ c.xYieldPending \in BOOLEAN /\ c.pendSV \in BOOLEAN
        /\ c.xPendedTicks \in Nat /\ c.uxSchedulerSuspended \in Nat /\ c.ucNotifyState \in [All -> States]
    BY <1>2, <1>3, <1>4, <2>1 DEF Leaves
  <2> QED BY ONLY <2>2, FreeLists
<1>6. OffLists(c, t)
  BY <1>2, <1>4, <1>5 DEF Leaves, OffLists
<1>7. Joins(c, n, t)
  BY <1>5, <1>6, AddReady
<1>8. /\ n.uxSchedulerSuspended = c.uxSchedulerSuspended /\ n.ucNotifyState = c.ucNotifyState
      /\ n.delayed = c.delayed /\ n.pendingReady = c.pendingReady
      /\ n.pendSV = c.pendSV /\ n.xYieldPending = c.xYieldPending
  BY <1>7 DEF Joins, Same, ReadyFields, KernelFields
<1>9. /\ b.uxSchedulerSuspended = a.uxSchedulerSuspended /\ b.ucNotifyState = a.ucNotifyState
      /\ b.pendingReady = a.pendingReady /\ b.uxPriority = a.uxPriority
      /\ b.uxTopReadyPriority = a.uxTopReadyPriority
      /\ b.pendSV = a.pendSV /\ b.xYieldPending = a.xYieldPending
  BY <1>2 DEF Leaves, Same, StateFields, KernelFields
<1>10. /\ a.uxSchedulerSuspended = s.uxSchedulerSuspended /\ a.ucNotifyState = s.ucNotifyState
       /\ a.ready = s.ready /\ a.delayed = s.delayed /\ a.uxPriority = s.uxPriority
       /\ a.uxTopReadyPriority = s.uxTopReadyPriority
       /\ a.pendSV = s.pendSV /\ a.xYieldPending = s.xYieldPending
  BY <1>1 DEF Same, EventFields, KernelFields
<1>11. Same(s, n, ListFields \cup FreeFields)
  <2>1. Same(s, b, ListFields)
    BY <1>1, <1>2, SameBoth DEF Leaves, ListFields
  <2>2. Same(s, c, ListFields \cup FreeFields)
    BY <2>1, <1>4, SameBoth
  <2> QED BY <2>2, <1>7, SameBoth DEF Joins, ListFields
<1>12. Bits(n)
  <2>1. n.uxTopReadyPriority = s.uxTopReadyPriority \cup {s.uxPriority[t]}
    BY <1>4, <1>7, <1>9, <1>10 DEF Joins
  <2>2. \A p \in Priorities : \A u :
            IsIn(u, n.ready[p]) <=> (u = t /\ p = s.uxPriority[t]) \/ (u # t /\ IsIn(u, s.ready[p]))
    BY <1>2, <1>4, <1>7, <1>9, <1>10 DEF Leaves, Joins
  <2> QED BY <2>1, <2>2, BitsJoined DEF Kernel
<1>13. /\ Rdy(n) = Rdy(s) \cup {t} /\ Evt(n) = Evt(s) \ {t} /\ Lists(n)
  BY <1>1, <1>2, <1>5, <1>7 DEF Leaves, Joins
<1>14. n.xYieldPending = (s.xYieldPending \/ higher) /\ n.pendSV = s.pendSV
  BY <1>4, <1>8, <1>9, <1>10
<1>15. /\ n.uxSchedulerSuspended = s.uxSchedulerSuspended /\ n.ucNotifyState = s.ucNotifyState
       /\ \A u : IsIn(u, n.delayed) => IsIn(u, s.delayed)
       /\ \A u : IsIn(u, n.pendingReady) => IsIn(u, s.pendingReady)
  BY <1>1, <1>2, <1>4, <1>8, <1>9, <1>10 DEF Leaves
<1>16. s.uxPriority[t] > Current(s) => n.xYieldPending
  BY <1>14
<1>17. Keeps(s, n, {})
  <2> HIDE DEF woken
  <2>1. /\ {t} \in SUBSET Tasks /\ (\A u \in Evt(n) : u \notin {t})
        /\ \A x \in {t} : s.uxPriority[x] > Current(s) => n.pendSV \/ n.xYieldPending
        /\ (s.pendSV => n.pendSV) /\ (s.xYieldPending => n.xYieldPending)
        /\ \A u \in Tasks : n.ucNotifyState[u] = "waiting" => s.ucNotifyState[u] = "waiting"
        /\ Evt(n) \subseteq Evt(s)
    BY <1>13, <1>14, <1>15, <1>16
  <2>2. /\ Kernel(s) /\ Lists(n) /\ Bits(n) /\ Same(s, n, ListFields \cup FreeFields)
        /\ n.uxSchedulerSuspended = s.uxSchedulerSuspended /\ Rdy(n) = Rdy(s) \cup {t}
        /\ \A u : IsIn(u, n.delayed) => IsIn(u, s.delayed)
        /\ \A u : IsIn(u, n.pendingReady) => IsIn(u, s.pendingReady)
    BY <1>11, <1>12, <1>13, <1>15
  <2> QED BY ONLY <2>1, <2>2, WokenKeeps
<1>18. vTaskRemoveFromUnorderedEventList(s, t, bits, flags) = n
  BY DEF vTaskRemoveFromUnorderedEventList
<1> QED BY <1>17, <1>18

(* xTaskAbortDelay of a task that has been taken off its state list. *)
LEMMA AbortKeeps ==
    ASSUME NEW s, Kernel(s), NEW t \in Tasks, OffLists(s, t)
    PROVE  Keeps(s, xTaskAbortDelay(s, t), {})
<1> DEFINE woken == s.uxPriority[t] > Current(s)
<1> PICK higher \in BOOLEAN : higher = woken
  <2>1. woken \in BOOLEAN
    OBVIOUS
  <2> HIDE DEF woken
  <2> QED BY Zenon, <2>1
<1> PICK a : a = [s EXCEPT !.ucDelayAborted[t] = @ \/ InEventList(s, t)]
  OBVIOUS
<1> PICK b : b = OffEventList(a, t)
  OBVIOUS
<1> PICK c : c = prvAddTaskToReadyList(b, t)
  OBVIOUS
<1> PICK n : n = [c EXCEPT !.xYieldPending = @ \/ higher]
  OBVIOUS
<1>1. /\ s = [f \in KernelFields |-> s[f]] /\ s.xYieldPending \in BOOLEAN /\ s.pendSV \in BOOLEAN
      /\ s.xPendedTicks \in Nat /\ s.uxSchedulerSuspended \in Nat /\ s.ucNotifyState \in [All -> States]
  BY DEF Kernel, Lists, Typed, States
<1>2. /\ Same(s, a, FreeFields) /\ a.xYieldPending = s.xYieldPending /\ a.pendSV = s.pendSV
      /\ a.xPendedTicks = s.xPendedTicks /\ a.uxSchedulerSuspended = s.uxSchedulerSuspended
      /\ a.ucNotifyState = s.ucNotifyState /\ a.ready = s.ready /\ a.delayed = s.delayed
      /\ a.overflow = s.overflow /\ a.suspendedTasks = s.suspendedTasks
      /\ a.pendingReady = s.pendingReady /\ a.uxPriority = s.uxPriority
      /\ a.uxTopReadyPriority = s.uxTopReadyPriority
  BY <1>1 DEF Same, FreeFields, YieldFields, KernelFields
<1>3. Lists(a) /\ Rdy(a) = Rdy(s) /\ Evt(a) = Evt(s)
  BY <1>1, <1>2, FreeLists DEF Kernel
<1>4. /\ Lists(b) /\ Same(a, b, EventFields)
      /\ Rdy(b) = Rdy(s) /\ Evt(b) = Evt(s) \ {t}
      /\ \A u : IsIn(u, b.pendingReady) <=> u # t /\ IsIn(u, s.pendingReady)
  <2>1. /\ Lists(b) /\ Same(a, b, EventFields)
        /\ Rdy(b) = Rdy(a) /\ Evt(b) = Evt(a) \ {t}
        /\ \A u : IsIn(u, b.pendingReady) <=> u # t /\ IsIn(u, a.pendingReady)
    <3>1. Lists(a) /\ b = OffEventList(a, t)
      BY <1>3
    <3> QED BY ONLY <3>1, OffEvent
  <2> QED BY <1>2, <1>3, <2>1
<1>5. /\ b.uxSchedulerSuspended = s.uxSchedulerSuspended /\ b.ucNotifyState = s.ucNotifyState
      /\ b.ready = s.ready /\ b.delayed = s.delayed /\ b.overflow = s.overflow
      /\ b.suspendedTasks = s.suspendedTasks /\ b.uxPriority = s.uxPriority
      /\ b.uxTopReadyPriority = s.uxTopReadyPriority
      /\ b.pendSV = s.pendSV /\ b.xYieldPending = s.xYieldPending
  <2>1. /\ b.uxSchedulerSuspended = a.uxSchedulerSuspended /\ b.ucNotifyState = a.ucNotifyState
        /\ b.ready = a.ready /\ b.delayed = a.delayed /\ b.overflow = a.overflow
        /\ b.suspendedTasks = a.suspendedTasks /\ b.uxPriority = a.uxPriority
        /\ b.uxTopReadyPriority = a.uxTopReadyPriority
        /\ b.pendSV = a.pendSV /\ b.xYieldPending = a.xYieldPending
    BY <1>4 DEF Same, EventFields, KernelFields
  <2> QED BY <1>2, <2>1
<1>6. OffLists(b, t)
  BY <1>4, <1>5 DEF OffLists
<1>7. Joins(b, c, t)
  BY <1>4, <1>6, AddReady
<1>8. /\ c.uxSchedulerSuspended = b.uxSchedulerSuspended /\ c.ucNotifyState = b.ucNotifyState
      /\ c.delayed = b.delayed /\ c.pendingReady = b.pendingReady
      /\ c.pendSV = b.pendSV /\ c.xYieldPending = b.xYieldPending
  BY <1>7 DEF Joins, Same, ReadyFields, KernelFields
<1>9. /\ c = [f \in KernelFields |-> c[f]] /\ c.xYieldPending \in BOOLEAN /\ c.pendSV \in BOOLEAN
      /\ c.xPendedTicks \in Nat /\ c.uxSchedulerSuspended \in Nat /\ c.ucNotifyState \in [All -> States]
  BY <1>7 DEF Joins, Lists, Typed, States
<1>10. /\ Same(c, n, FreeFields) /\ n.xYieldPending = (c.xYieldPending \/ higher) /\ n.pendSV = c.pendSV
       /\ n.xPendedTicks = c.xPendedTicks /\ n.uxSchedulerSuspended = c.uxSchedulerSuspended
       /\ n.ucNotifyState = c.ucNotifyState /\ n.ready = c.ready /\ n.delayed = c.delayed
       /\ n.pendingReady = c.pendingReady /\ n.uxTopReadyPriority = c.uxTopReadyPriority
  BY <1>9 DEF Same, FreeFields, YieldFields, KernelFields
<1>11. Lists(n) /\ Rdy(n) = Rdy(c) /\ Evt(n) = Evt(c)
  <2>1. n.xYieldPending \in BOOLEAN
    BY <1>9, <1>10
  <2>2. /\ Lists(c) /\ Same(c, n, FreeFields) /\ n.xYieldPending \in BOOLEAN /\ n.pendSV \in BOOLEAN
        /\ n.xPendedTicks \in Nat /\ n.uxSchedulerSuspended \in Nat /\ n.ucNotifyState \in [All -> States]
    BY <1>7, <1>9, <1>10, <2>1 DEF Joins
  <2> QED BY ONLY <2>2, FreeLists
<1>12. Same(s, n, ListFields \cup FreeFields)
  <2>1. Same(s, b, ListFields \cup FreeFields)
    BY <1>2, <1>4, SameBoth DEF ListFields
  <2>2. Same(s, c, ListFields \cup FreeFields)
    BY <2>1, <1>7, SameBoth DEF Joins, ListFields
  <2> QED BY <2>2, <1>10, SameBoth
<1>13. Bits(n)
  <2>1. n.uxTopReadyPriority = s.uxTopReadyPriority \cup {s.uxPriority[t]}
    BY <1>5, <1>7, <1>10 DEF Joins
  <2>2. \A p \in Priorities : ~IsIn(t, s.ready[p])
    BY NotIdle DEF OffLists, Rdy, IsReady
  <2>3. \A p \in Priorities : \A u :
            IsIn(u, n.ready[p]) <=> (u = t /\ p = s.uxPriority[t]) \/ (u # t /\ IsIn(u, s.ready[p]))
    BY <1>5, <1>7, <1>10, <2>2 DEF Joins
  <2> QED BY <2>1, <2>3, BitsJoined DEF Kernel
<1>14. /\ Rdy(n) = Rdy(s) \cup {t} /\ Evt(n) = Evt(s) \ {t}
  BY <1>4, <1>7, <1>11 DEF Joins
<1>15. n.xYieldPending = (s.xYieldPending \/ higher) /\ n.pendSV = s.pendSV
  BY <1>5, <1>8, <1>10
<1>16. /\ n.uxSchedulerSuspended = s.uxSchedulerSuspended /\ n.ucNotifyState = s.ucNotifyState
       /\ n.delayed = s.delayed
       /\ \A u : IsIn(u, n.pendingReady) => IsIn(u, s.pendingReady)
  BY <1>4, <1>5, <1>8, <1>10
<1>17. s.uxPriority[t] > Current(s) => n.xYieldPending
  BY <1>15
<1>18. Keeps(s, n, {})
  <2> HIDE DEF woken
  <2>1. /\ {t} \in SUBSET Tasks /\ (\A u \in Evt(n) : u \notin {t})
        /\ \A x \in {t} : s.uxPriority[x] > Current(s) => n.pendSV \/ n.xYieldPending
        /\ (s.pendSV => n.pendSV) /\ (s.xYieldPending => n.xYieldPending)
        /\ \A u \in Tasks : n.ucNotifyState[u] = "waiting" => s.ucNotifyState[u] = "waiting"
        /\ Evt(n) \subseteq Evt(s)
    BY <1>14, <1>15, <1>16, <1>17
  <2>2. /\ Kernel(s) /\ Lists(n) /\ Bits(n) /\ Same(s, n, ListFields \cup FreeFields)
        /\ n.uxSchedulerSuspended = s.uxSchedulerSuspended /\ Rdy(n) = Rdy(s) \cup {t}
        /\ \A u : IsIn(u, n.delayed) => IsIn(u, s.delayed)
        /\ \A u : IsIn(u, n.pendingReady) => IsIn(u, s.pendingReady)
    BY <1>11, <1>12, <1>13, <1>14, <1>16
  <2> QED BY ONLY <2>1, <2>2, WokenKeeps
<1>19. xTaskAbortDelay(s, t) = n
  BY DEF xTaskAbortDelay
<1> QED BY <1>18, <1>19

(* The walk of xEventGroupSetBits. *)
LEMMA BitsSet ==
    ASSUME NEW s, Kernel(s), NEW bits
    PROVE  Keeps(s, SetBits(s, bits).kernel, {})
<1> PICK list : list = s.events[ForBits]
  OBVIOUS
<1> PICK N : N = Len(list)
  OBVIOUS
<1>1. N \in Nat /\ list \in Seq(Tasks)
  BY QueuesAssumption DEF Kernel, Lists, Events, Once
<1> DEFINE Run(g, k) == g = [n \in 0 .. k |-> IF n = 0 THEN [kernel |-> s, clear |-> 0] ELSE SatisfyWait(bits, g[n - 1], list[n])]
           Runs == {k \in 0 .. N : \E g : Run(g, k)}
<1>2. N \in Runs
  <2>1. 0 \in Runs
    <3> DEFINE h == [n \in 0 .. 0 |-> [kernel |-> s, clear |-> 0]]
    <3>1. \A n \in 0 .. 0 : h[n] = IF n = 0 THEN [kernel |-> s, clear |-> 0] ELSE SatisfyWait(bits, h[n - 1], list[n])
      OBVIOUS
    <3>2. h = [n \in 0 .. 0 |-> h[n]]
      OBVIOUS
    <3> HIDE DEF h
    <3>3. Run(h, 0)
      BY <3>1, <3>2
    <3> QED BY <1>1, <3>3
  <2>2. ASSUME NEW k \in 0 .. N - 1, k \in Runs PROVE k + 1 \in Runs
    <3>1. PICK g : Run(g, k)
      BY <2>2
    <3> DEFINE h == [n \in 0 .. k + 1 |-> IF n = 0 THEN [kernel |-> s, clear |-> 0] ELSE SatisfyWait(bits, g[n - 1], list[n])]
    <3>2. ASSUME NEW n \in 0 .. k + 1
          PROVE h[n] = IF n = 0 THEN [kernel |-> s, clear |-> 0] ELSE SatisfyWait(bits, h[n - 1], list[n])
      <4>1. CASE n = 0
        BY <4>1
      <4>2. CASE n # 0
        <5>1. n - 1 \in 0 .. k /\ n - 1 \in 0 .. k + 1 /\ k \in Int
          BY <4>2
        <5>2. g[n - 1] = IF n - 1 = 0 THEN [kernel |-> s, clear |-> 0] ELSE SatisfyWait(bits, g[(n - 1) - 1], list[n - 1])
          BY <3>1, <5>1
        <5>3. h[n - 1] = IF n - 1 = 0 THEN [kernel |-> s, clear |-> 0] ELSE SatisfyWait(bits, g[(n - 1) - 1], list[n - 1])
          BY <5>1
        <5>4. h[n] = SatisfyWait(bits, g[n - 1], list[n])
          BY <4>2
        <5> QED BY <4>2, <5>2, <5>3, <5>4
      <4> QED BY <4>1, <4>2
    <3>3. h = [n \in 0 .. k + 1 |-> h[n]]
      OBVIOUS
    <3> HIDE DEF h
    <3>4. Run(h, k + 1)
      BY <3>2, <3>3
    <3>5. k + 1 \in 0 .. N
      BY <1>1
    <3> QED BY <3>4, <3>5
  <2> HIDE DEF Runs
  <2> QED BY <1>1, <2>1, <2>2, UpTo
<1> DEFINE After == CHOOSE g : Run(g, N)
<1>3. Run(After, N)
  BY <1>2
<1>4. SetBits(s, bits).kernel = After[N].kernel
  BY DEF SetBits
<1> HIDE DEF After
<1> DEFINE Done == {i \in 0 .. N : Keeps(s, After[i].kernel, {})}
<1>5. N \in Done
  <2>1. 0 \in Done
    <3>1. After[0] = [kernel |-> s, clear |-> 0]
      BY <1>1, <1>3
    <3>2. After[0].kernel = s
      BY ONLY <3>1
    <3> QED BY <1>1, <3>2, KeepsSelf
  <2>2. ASSUME NEW k \in 0 .. N - 1, k \in Done PROVE k + 1 \in Done
    <3>1. /\ k + 1 \in 0 .. N /\ k + 1 # 0 /\ (k + 1) - 1 = k /\ k \in 0 .. N
          /\ k + 1 \in 1 .. Len(list)
      BY <1>1
    <3> PICK m, t : m = After[k] /\ t = list[k + 1]
      OBVIOUS
    <3> PICK n : n = After[k + 1]
      OBVIOUS
    <3>2. n = SatisfyWait(bits, m, t)
      BY <1>3, <3>1
    <3>3. Keeps(s, m.kernel, {})
      BY <2>2, <3>1
    <3>4. t \in Tasks
      BY <1>1, <3>1
    <3>5. n.kernel = m.kernel \/ n.kernel = vTaskRemoveFromUnorderedEventList(m.kernel, t, bits, {"set"})
      <4> DEFINE item == m.kernel.item[t]
                 rest == IF "clear" \in item.flags THEN m.clear | item.bits ELSE m.clear
                 woken == vTaskRemoveFromUnorderedEventList(m.kernel, t, bits, {"set"})
      <4>1. CASE TestWaitCondition(bits, item.bits, "all" \in item.flags)
        <5>1. n = [kernel |-> woken, clear |-> rest]
          BY Zenon, <3>2, <4>1 DEF SatisfyWait
        <5>2. n.kernel = woken
          BY ONLY <5>1
        <5> QED BY <5>2
      <4>2. CASE ~TestWaitCondition(bits, item.bits, "all" \in item.flags)
        BY <3>2, <4>2 DEF SatisfyWait
      <4> QED BY <4>1, <4>2
    <3>6. Keeps(m.kernel, n.kernel, {})
      <4>1. Kernel(m.kernel)
        BY <3>3 DEF Keeps
      <4> QED BY <3>4, <3>5, <4>1, UnorderedKeeps, KeepsSelf
    <3>7. Keeps(s, n.kernel, {} \cup {})
      BY <3>3, <3>6, KeepsBoth
    <3> QED BY <3>1, <3>7
  <2> HIDE DEF Done
  <2> QED BY <1>1, <2>1, <2>2, UpTo
<1> QED BY <1>4, <1>5

----------------------------------------------------------------------------
(* Suspension and resumption of tasks.                                     *)

(* A task is suspended. *)
Suspends(s, n, t) ==
    /\ Kernel(n)
    /\ n.pxCurrentTCB = s.pxCurrentTCB /\ n.uxSchedulerSuspended = s.uxSchedulerSuspended
    /\ Rdy(n) = Rdy(s) \ {t} /\ Evt(n) \subseteq Evt(s)
    /\ \A u : IsIn(u, n.pendingReady) => IsIn(u, s.pendingReady)
    /\ \A u \in Tasks : n.ucNotifyState[u] = "waiting" => s.ucNotifyState[u] = "waiting"
    /\ Highest(s) => Highest(n)

(* A task in no state list joins the suspended ones.                       *)
LEMMA SuspendedAdded ==
    ASSUME NEW s, Lists(s), NEW t \in Tasks, OffLists(s, t), NEW n,
           Same(s, n, {"suspendedTasks", "ucNotifyState"}),
           n.suspendedTasks = Append(s.suspendedTasks, t), n.ucNotifyState \in [All -> States]
    PROVE  Lists(n) /\ Rdy(n) = Rdy(s) /\ Evt(n) = Evt(s)
<1>1. /\ n.xTickCount = s.xTickCount /\ n.xNextTaskUnblockTime = s.xNextTaskUnblockTime
      /\ n.xPendedTicks = s.xPendedTicks /\ n.uxSchedulerSuspended = s.uxSchedulerSuspended
      /\ n.uxPriority = s.uxPriority /\ n.wake = s.wake /\ n.pendSV = s.pendSV
      /\ n.delayed = s.delayed /\ n.overflow = s.overflow /\ n.events = s.events
      /\ n.ready = s.ready /\ n.xYieldPending = s.xYieldPending /\ n.pendingReady = s.pendingReady
      /\ n.tasksWaitingTermination = s.tasksWaitingTermination
  BY DEF Same, KernelFields
<1>2. Rdy(n) = Rdy(s) /\ Evt(n) = Evt(s)
  BY <1>1 DEF Rdy, Evt, IsReady
<1>3. Typed(n)
  <2>1. Typed(s) /\ n.xYieldPending \in BOOLEAN /\ n.pendSV \in BOOLEAN
        /\ n.xPendedTicks \in Nat /\ n.uxSchedulerSuspended \in Nat
    BY <1>1 DEF Lists, Typed
  <2>2. Same(s, n, ListFields \cup FreeFields)
    BY SameMore DEF ListFields, StateFields, FreeFields
  <2> QED BY <2>1, <2>2, TypedFrame
<1>4. /\ Once(n.suspendedTasks, Tasks)
      /\ \A y : IsIn(y, n.suspendedTasks) <=> y = t \/ IsIn(y, s.suspendedTasks)
  <2>1. Once(s.suspendedTasks, Tasks) /\ ~IsIn(t, s.suspendedTasks)
    BY DEF Lists, WaitLists, OffLists
  <2> QED BY <2>1, OnceAppended
<1>5. ReadyLists(s) /\ WaitLists(s) /\ Apart(s) /\ Events(s) /\ Times(s)
  BY DEF Lists
<1>6. ReadyLists(n)
  BY <1>1, <1>2, <1>5 DEF ReadyLists
<1>7. WaitLists(n)
  BY <1>1, <1>4, <1>5 DEF WaitLists
<1>8. Apart(n)
  BY <1>1, <1>2, <1>4, <1>5 DEF Apart, OffLists
<1>9. Events(n)
  BY <1>1, <1>5 DEF Events
<1>10. Times(n)
  BY <1>1, <1>5 DEF Times
<1> QED BY <1>2, <1>3, <1>6, <1>7, <1>8, <1>9, <1>10 DEF Lists

(* vTaskSuspend, of the running task or of another.                        *)
LEMMA SuspendKeeps ==
    ASSUME NEW s, Kernel(s), NEW t \in Tasks
    PROVE  Suspends(s, vTaskSuspend(s, t), t)
<1>m. PICK m : m = taskRESET_READY_PRIORITY(OffStateList(s, t), s.uxPriority[t])
  OBVIOUS
<1>b. PICK b : b = OffEventList(m, t)
  OBVIOUS
<1>n. PICK n : n = [b EXCEPT !.suspendedTasks = Append(@, t),
                            !.ucNotifyState[t] = IF @ = "waiting" THEN "none" ELSE @]
  OBVIOUS
<1>1. Removed(s, m, t)
  BY <1>m, OffReset DEF Kernel
<1>2. /\ Lists(b) /\ Same(m, b, EventFields)
      /\ Rdy(b) = Rdy(m) /\ Evt(b) = Evt(m) \ {t}
      /\ \A u : IsIn(u, b.pendingReady) <=> u # t /\ IsIn(u, m.pendingReady)
  <2>1. Lists(m)
    BY <1>1 DEF Removed
  <2> QED BY <1>b, <2>1, OffEvent
<1>3. /\ m.xTickCount = s.xTickCount /\ m.pxCurrentTCB = s.pxCurrentTCB
      /\ m.uxSchedulerSuspended = s.uxSchedulerSuspended /\ m.pendingReady = s.pendingReady
      /\ m.ucNotifyState = s.ucNotifyState /\ m.uxPriority = s.uxPriority
      /\ m.uxBasePriority = s.uxBasePriority /\ m.pendSV = s.pendSV /\ m.xYieldPending = s.xYieldPending
  BY <1>1 DEF Removed, Same, MoveFields, StateFields, ReadyFields, KernelFields
<1>4. /\ b.xTickCount = m.xTickCount /\ b.pxCurrentTCB = m.pxCurrentTCB
      /\ b.uxSchedulerSuspended = m.uxSchedulerSuspended /\ b.suspendedTasks = m.suspendedTasks
      /\ b.ucNotifyState = m.ucNotifyState /\ b.uxPriority = m.uxPriority
      /\ b.uxBasePriority = m.uxBasePriority /\ b.pendSV = m.pendSV /\ b.xYieldPending = m.xYieldPending
      /\ b.ready = m.ready /\ b.delayed = m.delayed /\ b.overflow = m.overflow
      /\ b.uxTopReadyPriority = m.uxTopReadyPriority
  BY <1>2 DEF Same, EventFields, KernelFields
<1>5. OffLists(b, t)
  BY <1>1, <1>2, <1>4 DEF Removed, OffLists
<1>6. b = [f \in KernelFields |-> b[f]] /\ b.ucNotifyState \in [All -> States] /\ t \in All
  BY Zenon, <1>2, NotIdle DEF Lists, Typed, States
<1>7. /\ Same(b, n, {"suspendedTasks", "ucNotifyState"})
      /\ n.suspendedTasks = Append(b.suspendedTasks, t)
      /\ n.ucNotifyState = [b.ucNotifyState EXCEPT ![t] = IF @ = "waiting" THEN "none" ELSE @]
  BY Zenon, <1>6, <1>n DEF Same, KernelFields
<1>8. /\ n.ucNotifyState \in [All -> States]
      /\ \A u \in Tasks : n.ucNotifyState[u] = "waiting" => b.ucNotifyState[u] = "waiting"
  <2>1. \A u \in Tasks : u \in All
    BY NotIdle
  <2> PICK w : w = IF b.ucNotifyState[t] = "waiting" THEN "none" ELSE b.ucNotifyState[t]
    OBVIOUS
  <2>2. w \in States /\ w # "waiting"
    BY <1>6 DEF States
  <2>3. n.ucNotifyState = [b.ucNotifyState EXCEPT ![t] = w]
    BY <1>7
  <2> QED BY ONLY <1>6, <2>1, <2>2, <2>3
<1>9. Lists(n) /\ Rdy(n) = Rdy(b) /\ Evt(n) = Evt(b)
  <2>1. /\ Lists(b) /\ t \in Tasks /\ OffLists(b, t) /\ Same(b, n, {"suspendedTasks", "ucNotifyState"})
        /\ n.suspendedTasks = Append(b.suspendedTasks, t) /\ n.ucNotifyState \in [All -> States]
    BY <1>2, <1>5, <1>7, <1>8
  <2> QED BY ONLY <2>1, SuspendedAdded
<1>10. /\ n.xTickCount = b.xTickCount /\ n.pxCurrentTCB = b.pxCurrentTCB
       /\ n.uxSchedulerSuspended = b.uxSchedulerSuspended /\ n.pendingReady = b.pendingReady
       /\ n.uxPriority = b.uxPriority /\ n.uxBasePriority = b.uxBasePriority
       /\ n.pendSV = b.pendSV /\ n.xYieldPending = b.xYieldPending
       /\ n.ready = b.ready /\ n.delayed = b.delayed
       /\ n.uxTopReadyPriority = b.uxTopReadyPriority
  BY <1>7 DEF Same, KernelFields
<1>11. Rdy(n) = Rdy(s) \ {t} /\ Evt(n) = Evt(s) \ {t}
  BY <1>1, <1>2, <1>9 DEF Removed
<1>12. Bits(n)
  BY <1>1, <1>4, <1>10 DEF Removed, Bits
<1>13. Unready(n)
  BY <1>2, <1>3, <1>10, <1>11 DEF Kernel, Unready
<1>14. AtWrap(n)
  <2>1. s.delayed = <<>> => \A u : ~IsIn(u, n.delayed)
    BY <1>1, <1>4, <1>10, EmptyList DEF Removed
  <2>2. n.delayed \in Seq(Tasks)
    BY <1>9 DEF Lists, WaitLists, Once
  <2> QED BY <1>3, <1>4, <1>10, <2>1, <2>2, NotEmpty DEF Kernel, AtWrap
<1>15. Own(n)
  BY <1>3, <1>4, <1>10 DEF Kernel, Own
<1>16. Kernel(n)
  BY <1>9, <1>12, <1>13, <1>14, <1>15 DEF Kernel
<1>17. Highest(s) => Highest(n)
  <2>1. /\ n.uxPriority = s.uxPriority /\ n.pxCurrentTCB = s.pxCurrentTCB
        /\ n.pendSV = s.pendSV /\ n.xYieldPending = s.xYieldPending /\ Rdy(n) \subseteq Rdy(s)
    BY <1>3, <1>4, <1>10, <1>11
  <2> QED BY ONLY <2>1, HighestFewer
<1>18. vTaskSuspend(s, t) = n
  BY <1>m, <1>b, <1>n DEF vTaskSuspend
<1>19. /\ n.pxCurrentTCB = s.pxCurrentTCB /\ n.uxSchedulerSuspended = s.uxSchedulerSuspended
       /\ Rdy(n) = Rdy(s) \ {t} /\ Evt(n) \subseteq Evt(s)
       /\ \A u : IsIn(u, n.pendingReady) => IsIn(u, s.pendingReady)
       /\ \A u \in Tasks : n.ucNotifyState[u] = "waiting" => s.ucNotifyState[u] = "waiting"
  <2>1. n.pxCurrentTCB = s.pxCurrentTCB /\ n.uxSchedulerSuspended = s.uxSchedulerSuspended
    BY ONLY <1>3, <1>4, <1>10
  <2>2. Rdy(n) = Rdy(s) \ {t} /\ Evt(n) \subseteq Evt(s)
    BY ONLY <1>11
  <2>3. \A u : IsIn(u, n.pendingReady) => IsIn(u, s.pendingReady)
    BY ONLY <1>2, <1>3, <1>10
  <2>4. \A u \in Tasks : n.ucNotifyState[u] = "waiting" => s.ucNotifyState[u] = "waiting"
    BY ONLY <1>3, <1>4, <1>8
  <2> QED BY ONLY <2>1, <2>2, <2>3, <2>4
<1> QED BY ONLY <1>16, <1>17, <1>18, <1>19 DEF Suspends

(* A task is readied, and a switch asked for if it is the higher. *)
LEMMA MovedKeeps ==
    ASSUME NEW s, Kernel(s), NEW t \in Tasks, t \notin Evt(s), NEW m, NEW n,
           m = prvAddTaskToReadyList(OffStateList(s, t), t), n = m \/ n = Yield(m),
           s.uxPriority[t] > Current(s) => n = Yield(m)
    PROVE  Keeps(s, n, {})
<1>1. Moved(s, m, t)
  BY MovedReady DEF Kernel
<1>2. m = [f \in KernelFields |-> m[f]] /\ m.pendSV \in BOOLEAN /\ m.xYieldPending \in BOOLEAN
  BY <1>1 DEF Moved, Lists, Typed
<1>3. /\ Same(m, n, FreeFields) /\ (m.pendSV => n.pendSV) /\ n.pendSV \in BOOLEAN
      /\ n.xYieldPending = m.xYieldPending /\ n.xPendedTicks = m.xPendedTicks
      /\ n.uxSchedulerSuspended = m.uxSchedulerSuspended /\ n.ucNotifyState = m.ucNotifyState
      /\ n.delayed = m.delayed /\ n.pendingReady = m.pendingReady /\ n.ready = m.ready
      /\ n.uxTopReadyPriority = m.uxTopReadyPriority
  <2>1. CASE n = Yield(m)
    BY <1>2, <2>1 DEF Yield, Same, FreeFields, YieldFields, KernelFields
  <2>2. CASE n = m
    BY <1>2, <2>2 DEF Same
  <2> QED BY <2>1, <2>2
<1>4. n = Yield(m) => n.pendSV
  BY <1>2 DEF Yield, KernelFields
<1>5. Lists(n) /\ Rdy(n) = Rdy(m) /\ Evt(n) = Evt(m)
  <2>1. Lists(m)
    BY <1>1 DEF Moved
  <2>2. /\ n.xYieldPending \in BOOLEAN /\ n.pendSV \in BOOLEAN
        /\ n.xPendedTicks \in Nat /\ n.uxSchedulerSuspended \in Nat /\ n.ucNotifyState \in [All -> States]
    BY <1>2, <1>3, <2>1 DEF Lists, Typed, States
  <2> QED BY <1>3, <2>1, <2>2, FreeLists
<1>6. /\ m.pendSV = s.pendSV /\ m.xYieldPending = s.xYieldPending
      /\ m.uxSchedulerSuspended = s.uxSchedulerSuspended /\ m.ucNotifyState = s.ucNotifyState
      /\ m.pendingReady = s.pendingReady
  BY <1>1 DEF Moved, Same, MoveFields, StateFields, ReadyFields, KernelFields
<1>7. Bits(n)
  BY <1>1, <1>3 DEF Moved, Bits
<1>8. Same(s, n, ListFields \cup FreeFields)
  BY <1>1, <1>3, SameBoth DEF Moved, MoveFields, ListFields
<1>9. s.uxPriority[t] > Current(s) => n.pendSV
  BY <1>4
<1>10. /\ {t} \in SUBSET Tasks /\ (\A u \in Evt(n) : u \notin {t})
       /\ \A x \in {t} : s.uxPriority[x] > Current(s) => n.pendSV \/ n.xYieldPending
       /\ (s.pendSV => n.pendSV) /\ (s.xYieldPending => n.xYieldPending)
       /\ \A u \in Tasks : n.ucNotifyState[u] = "waiting" => s.ucNotifyState[u] = "waiting"
       /\ Evt(n) \subseteq Evt(s)
  BY <1>1, <1>3, <1>5, <1>6, <1>9 DEF Moved
<1>11. /\ Kernel(s) /\ Lists(n) /\ Bits(n) /\ Same(s, n, ListFields \cup FreeFields)
       /\ n.uxSchedulerSuspended = s.uxSchedulerSuspended /\ Rdy(n) = Rdy(s) \cup {t}
       /\ \A u : IsIn(u, n.delayed) => IsIn(u, s.delayed)
       /\ \A u : IsIn(u, n.pendingReady) => IsIn(u, s.pendingReady)
  BY <1>1, <1>3, <1>5, <1>6, <1>7, <1>8 DEF Moved
<1> QED BY ONLY <1>10, <1>11, WokenKeeps

(* vTaskResume. *)
LEMMA ResumeKeeps ==
    ASSUME NEW s, Kernel(s), NEW t \in Tasks
    PROVE  Keeps(s, vTaskResume(s, t), {})
<1>1. CASE ~(t # s.pxCurrentTCB /\ prvTaskIsTaskSuspended(s, t))
  BY <1>1, KeepsSelf DEF vTaskResume
<1>2. CASE t # s.pxCurrentTCB /\ prvTaskIsTaskSuspended(s, t)
  <2> PICK m : m = prvAddTaskToReadyList(OffStateList(s, t), t)
    OBVIOUS
  <2> PICK n : n = YieldIf(m, s.uxPriority[t] >= Current(s))
    OBVIOUS
  <2>1. t \notin Evt(s)
    BY <1>2 DEF prvTaskIsTaskSuspended, InEventList, Evt
  <2>2. n = m \/ n = Yield(m)
    BY DEF YieldIf
  <2>3. s.uxPriority[t] > Current(s) => n = Yield(m)
    <3>1. Current(s) \in Int /\ s.uxPriority[t] \in Int
      BY PrioritiesAre, NotIdle
    <3> QED BY <3>1 DEF YieldIf
  <2>4. Keeps(s, n, {})
    BY <2>1, <2>2, <2>3, MovedKeeps
  <2>5. vTaskResume(s, t) = n
    BY <1>2 DEF vTaskResume
  <2> QED BY <2>4, <2>5
<1> QED BY <1>1, <1>2

(* What a handler does to a task it has readied or pended. *)
LEMMA PendedKeeps ==
    ASSUME NEW s, Kernel(s), NEW t \in Tasks, t \notin Evt(s), ~IsIn(t, s.pendingReady),
           s.ucNotifyState[t] # "waiting", NEW m, m = ReadyOrPend(s, t),
           NEW n, Same(m, n, YieldFields), n.pendSV \in BOOLEAN, n.xYieldPending \in BOOLEAN,
           m.pendSV => n.pendSV, m.xYieldPending => n.xYieldPending,
           s.uxSchedulerSuspended = 0 /\ s.uxPriority[t] > Current(s) => n.xYieldPending
    PROVE  Wakes(s, n, {t})
<1>1. Pends(s, m, t)
  BY ReadiedOrPended
<1>2. /\ m.uxSchedulerSuspended = s.uxSchedulerSuspended
      /\ m.pxCurrentTCB = s.pxCurrentTCB /\ m.uxPriority = s.uxPriority
      /\ m.ucNotifyState = s.ucNotifyState /\ m.pendSV = s.pendSV /\ m.xYieldPending = s.xYieldPending
  <2>1. Same(s, m, MoveFields \cup {"pendingReady"})
    BY <1>1 DEF Pends
  <2> QED BY ONLY <2>1 DEF Same, MoveFields, StateFields, ReadyFields, KernelFields
<1>3. Wakes(m, n, {}) /\ Rdy(n) = Rdy(m)
  <2>1. /\ Kernel(m) /\ Same(m, n, YieldFields) /\ n.pendSV \in BOOLEAN /\ n.xYieldPending \in BOOLEAN
        /\ (m.pendSV => n.pendSV) /\ (m.xYieldPending => n.xYieldPending)
    BY <1>1 DEF Pends
  <2> QED BY ONLY <2>1, AskedKeeps
<1>4. /\ n.uxPriority = m.uxPriority /\ n.pxCurrentTCB = m.pxCurrentTCB
      /\ n.uxSchedulerSuspended = m.uxSchedulerSuspended /\ n.ucNotifyState = m.ucNotifyState
      /\ n.ready = m.ready /\ n.delayed = m.delayed /\ n.overflow = m.overflow
      /\ n.suspendedTasks = m.suspendedTasks /\ n.pendingReady = m.pendingReady
  BY DEF Same, YieldFields, KernelFields
<1>5. Highest(s) => Highest(n)
  <2> SUFFICES ASSUME Highest(s), ~n.pendSV, ~n.xYieldPending, NEW u \in Rdy(n)
               PROVE  n.uxPriority[u] <= Current(n)
    BY DEF Highest
  <2>1. Current(n) = Current(s) /\ u \in All
    BY <1>2, <1>4 DEF Current, Rdy
  <2>2. Current(s) \in Int /\ s.uxPriority[u] \in Int
    BY <2>1, PrioritiesAre
  <2>3. CASE u \in Rdy(s)
    BY <1>2, <1>4, <2>1, <2>3 DEF Highest
  <2>4. CASE u \notin Rdy(s)
    <3>1. u = t /\ s.uxSchedulerSuspended = 0
      BY <1>1, <1>3, <2>4 DEF Pends
    <3>2. ~(s.uxPriority[u] > Current(s))
      BY <3>1
    <3>3. s.uxPriority[u] <= Current(s)
      BY <2>2, <3>2
    <3> QED BY <1>2, <1>4, <2>1, <3>3
  <2> QED BY <2>3, <2>4
<1>6. Keeps(s, n, {t})
  <2>1. /\ Kernel(n) /\ Rdy(s) \subseteq Rdy(n) /\ Evt(n) \subseteq Evt(s)
    BY <1>1, <1>3 DEF Wakes, Keeps, Pends
  <2>2. \A u : IsIn(u, n.pendingReady) => IsIn(u, s.pendingReady) \/ (s.uxSchedulerSuspended # 0 /\ u = t)
    BY <1>1, <1>4 DEF Pends
  <2>3. \A u \in Tasks : n.ucNotifyState[u] = "waiting" => s.ucNotifyState[u] = "waiting" /\ u # t
    BY <1>2, <1>4
  <2> QED BY <1>2, <1>4, <1>5, <2>1, <2>2, <2>3 DEF Keeps
<1>7. s.uxSchedulerSuspended # 0 => Still(s, n)
  BY <1>1, <1>4 DEF Pends, Still
<1> QED BY <1>6, <1>7 DEF Wakes

----------------------------------------------------------------------------
(* Notifications.                                                          *)

(* Two steps that wake tasks wake those of both.                           *)
LEMMA WakesBoth ==
    ASSUME NEW s, NEW m, NEW n, NEW P, NEW R, Wakes(s, m, P), Wakes(m, n, R)
    PROVE  Wakes(s, n, P \cup R)
<1>1. Keeps(s, n, P \cup R)
  BY KeepsBoth DEF Wakes
<1>2. m.uxSchedulerSuspended = s.uxSchedulerSuspended
  BY DEF Wakes, Keeps
<1> QED BY <1>1, <1>2 DEF Wakes, Still

(* What the tasks and the objects note in a TCB. *)
TaskFields == {"item", "rank", "ucNotifyState", "ulNotifiedValue", "ucDelayAborted", "uxMutexesHeld"}
Unwaiting(s, n) == \A u \in Tasks : n.ucNotifyState[u] = "waiting" => s.ucNotifyState[u] = "waiting"

(* Fields of tasks that no list depends on.                                *)
LEMMA TaskKeeps ==
    ASSUME NEW s, Kernel(s), NEW n, Same(s, n, TaskFields), n.rank \in [All -> Int],
           n.ucNotifyState \in [All -> States], Unwaiting(s, n)
    PROVE  Wakes(s, n, {}) /\ Rdy(n) = Rdy(s) /\ Evt(n) = Evt(s)
<1>1. Typed(s)
  BY DEF Kernel, Lists
<1>2. /\ n.xTickCount = s.xTickCount /\ n.xNextTaskUnblockTime = s.xNextTaskUnblockTime
      /\ n.pxCurrentTCB = s.pxCurrentTCB /\ n.uxPriority = s.uxPriority
      /\ n.uxBasePriority = s.uxBasePriority /\ n.wake = s.wake
      /\ n.halted = s.halted /\ n.xPendedTicks = s.xPendedTicks
      /\ n.uxSchedulerSuspended = s.uxSchedulerSuspended
      /\ n.xYieldPending = s.xYieldPending /\ n.pendSV = s.pendSV
      /\ n = [f \in KernelFields |-> n[f]]
  BY DEF Same, TaskFields, KernelFields
<1>3. Typed(n)
  BY ONLY <1>1, <1>2, n.rank \in [All -> Int], n.ucNotifyState \in [All -> States] DEF Typed, States
<1>4. Same(s, n, FreeFields \cup {"rank"})
  <2>1. TaskFields \subseteq FreeFields \cup {"rank"}
    BY DEF TaskFields, FreeFields
  <2> QED BY <2>1, SameMore
<1> QED BY <1>2, <1>3, <1>4, FreeKeeps DEF Unwaiting

(* The state of one task's notification. *)
NoteFields == {"ucNotifyState", "ulNotifiedValue"}

Noted(f, g, t, v) == /\ g \in [All -> States] /\ g[t] = v
                     /\ \A u \in All : u # t => g[u] = f[u]

(* The notification state of one task changes.                             *)
LEMMA NotedState ==
    ASSUME NEW f, f \in [All -> States], NEW t \in All, NEW v \in States
    PROVE  Noted(f, [f EXCEPT ![t] = v], t, v)
BY DEF Noted

(* A notification state that does not begin a wait is no harm.             *)
LEMMA NoteKeeps ==
    ASSUME NEW s, Kernel(s), NEW t \in All, NEW v, v # "waiting" \/ s.ucNotifyState[t] = "waiting",
           NEW n, Same(s, n, NoteFields), Noted(s.ucNotifyState, n.ucNotifyState, t, v)
    PROVE  Wakes(s, n, {}) /\ Rdy(n) = Rdy(s) /\ Evt(n) = Evt(s) /\ n.ucNotifyState[t] = v
<1>1. s.rank \in [All -> Int]
  BY DEF Kernel, Lists, Typed, States
<1>2. /\ n.ucNotifyState \in [All -> States] /\ n.ucNotifyState[t] = v
      /\ \A u \in All : u # t => n.ucNotifyState[u] = s.ucNotifyState[u]
  BY DEF Noted
<1>3. Unwaiting(s, n)
  BY <1>2, NotIdle DEF Unwaiting
<1>4. n.rank = s.rank
  BY DEF Same, NoteFields, KernelFields
<1>5. Same(s, n, TaskFields)
  BY SameMore DEF NoteFields, TaskFields
<1> QED BY <1>1, <1>2, <1>3, <1>4, <1>5, TaskKeeps

(* A notification noted in the TCB.                                        *)
LEMMA NotifiedKeeps ==
    ASSUME NEW s, Kernel(s), NEW t \in Tasks, NEW action, NEW value
    PROVE  LET n == Notified(s, t, action, value)
           IN /\ Wakes(s, n, {}) /\ Rdy(n) = Rdy(s) /\ Evt(n) = Evt(s) /\ n.ucNotifyState[t] = "received"
              /\ Same(s, n, NoteFields)
<1> PICK n : n = Notified(s, t, action, value)
  OBVIOUS
<1> DEFINE was == s.ucNotifyState[t]
           old == s.ulNotifiedValue[t]
           new == CASE action = "eSetBits" -> old | value
                    [] action = "eIncrement" -> old + 1
                    [] action = "eSetValueWithOverwrite" -> value
                    [] action = "eSetValueWithoutOverwrite" -> IF was = "received" THEN old ELSE value
                    [] action = "eNoAction" -> old
<1>1. n = [s EXCEPT !.ucNotifyState[t] = "received", !.ulNotifiedValue[t] = new]
  BY DEF Notified
<1> HIDE DEF new
<1>2. s = [f \in KernelFields |-> s[f]]
  BY DEF Kernel, Lists, Typed
<1>3. Same(s, n, NoteFields) /\ n.ucNotifyState = [s.ucNotifyState EXCEPT ![t] = "received"]
  BY ONLY <1>1, <1>2 DEF Same, NoteFields, KernelFields
<1> PICK v : v = "received"
  OBVIOUS
<1>4. t \in All /\ Noted(s.ucNotifyState, n.ucNotifyState, t, v) /\ v # "waiting"
  <2>1. s.ucNotifyState \in [All -> States] /\ t \in All /\ v \in States /\ v # "waiting"
    BY NotIdle DEF Kernel, Lists, Typed, States
  <2> QED BY <1>3, <2>1, NotedState
<1>5. Wakes(s, n, {}) /\ Rdy(n) = Rdy(s) /\ Evt(n) = Evt(s) /\ n.ucNotifyState[t] = v
  BY Zenon, <1>3, <1>4, NoteKeeps
<1> QED BY <1>3, <1>5

(* xTaskNotify. *)
LEMMA NotifyKeeps ==
    ASSUME NEW s, Kernel(s), NEW t \in Tasks, NEW action, NEW value,
           s.ucNotifyState[t] = "waiting" => ~InEventList(s, t)
    PROVE  Keeps(s, xTaskGenericNotify(s, t, action, value), {})
<1> PICK m : m = Notified(s, t, action, value)
  OBVIOUS
<1>1. /\ Wakes(s, m, {}) /\ Evt(m) = Evt(s) /\ m.ucNotifyState[t] = "received"
      /\ Same(s, m, NoteFields)
  BY NotifiedKeeps
<1>2. CASE s.ucNotifyState[t] = "waiting"
  <2> PICK k : k = prvAddTaskToReadyList(OffStateList(m, t), t)
    OBVIOUS
  <2>1. configASSERT(k, ~InEventList(s, t), "notified in an event list") = k
    BY <1>2 DEF configASSERT
  <2>2. xTaskGenericNotify(s, t, action, value) = YieldIf(k, s.uxPriority[t] > Current(s))
    BY <1>2, <2>1 DEF xTaskGenericNotify
  <2> PICK n : n = YieldIf(k, s.uxPriority[t] > Current(s))
    OBVIOUS
  <2>3. t \notin Evt(m)
    BY <1>1, <1>2 DEF Evt, InEventList
  <2>4. m.uxPriority = s.uxPriority /\ Current(m) = Current(s)
    BY <1>1 DEF Same, NoteFields, KernelFields, Current
  <2>5. (n = k \/ n = Yield(k)) /\ (m.uxPriority[t] > Current(m) => n = Yield(k))
    BY <2>4 DEF YieldIf
  <2>6. Kernel(m)
    BY <1>1 DEF Wakes, Keeps
  <2>7. Keeps(m, n, {})
    <3>1. Kernel(m) /\ t \in Tasks /\ t \notin Evt(m) /\ k = prvAddTaskToReadyList(OffStateList(m, t), t)
      BY <2>3, <2>6
    <3> QED BY ONLY <3>1, <2>5, MovedKeeps
  <2>8. Keeps(s, n, {} \cup {})
    BY <1>1, <2>7, KeepsBoth DEF Wakes
  <2> QED BY <2>2, <2>8
<1>3. CASE s.ucNotifyState[t] # "waiting"
  <2>1. xTaskGenericNotify(s, t, action, value) = m
    BY <1>3 DEF xTaskGenericNotify
  <2> QED BY <1>1, <2>1 DEF Wakes
<1> QED BY <1>2, <1>3

(* xTaskNotifyFromISR, also of a stream buffer's handler. *)
LEMMA NotifiedFromISR ==
    ASSUME NEW s, Kernel(s), NEW t \in Tasks, NEW action, NEW value,
           s.ucNotifyState[t] = "waiting" => ~InEventList(s, t)
    PROVE  LET r == xTaskGenericNotifyFromISR(s, t, action, value)
           IN \E P \in SUBSET {t} : Wakes(s, r.kernel, P) /\ (t \in P => s.ucNotifyState[t] = "waiting")
<1> PICK m : m = Notified(s, t, action, value)
  OBVIOUS
<1>1. /\ Wakes(s, m, {}) /\ Evt(m) = Evt(s) /\ m.ucNotifyState[t] = "received"
      /\ Same(s, m, NoteFields)
  BY NotifiedKeeps
<1> DEFINE woken == s.ucNotifyState[t] = "waiting" /\ s.uxPriority[t] > Current(s)
<1> PICK yields \in BOOLEAN : yields = woken
  <2>1. woken \in BOOLEAN
    OBVIOUS
  <2> HIDE DEF woken
  <2> QED BY Zenon, <2>1
<1> PICK r : r = xTaskGenericNotifyFromISR(s, t, action, value)
  OBVIOUS
<1> PICK k : k = ReadyOrPend(m, t)
  OBVIOUS
<1> DEFINE asserted == configASSERT(k, ~InEventList(s, t), "notified in an event list")
           after == IF s.ucNotifyState[t] = "waiting" THEN [asserted EXCEPT !.xYieldPending = @ \/ yields] ELSE m
<1>2. r = [kernel |-> after, woken |-> yields]
  BY DEF xTaskGenericNotifyFromISR
<1> HIDE DEF after
<1>3. r.kernel = after
  BY ONLY <1>2
<1>4. CASE s.ucNotifyState[t] = "waiting"
  <2>1. asserted = k
    BY <1>4 DEF configASSERT
  <2> PICK n : n = [k EXCEPT !.xYieldPending = @ \/ yields]
    OBVIOUS
  <2>2. after = n
    BY <1>4, <2>1 DEF after
  <2>3. /\ m.uxPriority = s.uxPriority /\ Current(m) = Current(s) /\ m.pendingReady = s.pendingReady
        /\ m.uxSchedulerSuspended = s.uxSchedulerSuspended
    BY <1>1 DEF Same, NoteFields, KernelFields, Current
  <2>4. t \notin Evt(m) /\ ~IsIn(t, m.pendingReady) /\ Kernel(m) /\ m.ucNotifyState[t] # "waiting"
    BY <1>1, <1>4, <2>3 DEF Evt, InEventList, Wakes, Keeps
  <2>5. Pends(m, k, t)
    BY <2>4, ReadiedOrPended
  <2>6. k = [f \in KernelFields |-> k[f]] /\ k.xYieldPending \in BOOLEAN /\ k.pendSV \in BOOLEAN
    BY <2>5 DEF Pends, Kernel, Lists, Typed
  <2>7. Same(k, n, YieldFields) /\ n.pendSV = k.pendSV /\ n.xYieldPending = (k.xYieldPending \/ yields)
    BY <2>6 DEF Same, YieldFields, KernelFields
  <2>8. m.uxSchedulerSuspended = 0 /\ m.uxPriority[t] > Current(m) => n.xYieldPending
    BY <1>4, <2>3, <2>6, <2>7
  <2>9. /\ n.pendSV \in BOOLEAN /\ n.xYieldPending \in BOOLEAN
        /\ (k.pendSV => n.pendSV) /\ (k.xYieldPending => n.xYieldPending)
    BY <2>6, <2>7
  <2>10. Wakes(m, n, {t})
    <3>1. t \in Tasks /\ k = ReadyOrPend(m, t) /\ Same(k, n, YieldFields)
      BY <2>7
    <3> QED BY ONLY <2>4, <2>8, <2>9, <3>1, PendedKeeps
  <2>11. Wakes(s, n, {} \cup {t})
    BY <1>1, <2>10, WakesBoth
  <2>12. {} \cup {t} = {t}
    OBVIOUS
  <2>13. Wakes(s, r.kernel, {t}) /\ (t \in {t} => s.ucNotifyState[t] = "waiting")
    BY <1>3, <1>4, <2>2, <2>11, <2>12
  <2> QED BY <2>13
<1>5. CASE s.ucNotifyState[t] # "waiting"
  <2>1. Wakes(s, r.kernel, {})
    BY <1>1, <1>3, <1>5 DEF after
  <2> QED BY <2>1
<1> QED BY <1>4, <1>5

(* xTaskResumeFromISR. *)
LEMMA ResumedFromISR ==
    ASSUME NEW s, Kernel(s), NEW t \in Tasks, s.ucNotifyState[t] # "waiting"
    PROVE  LET r == xTaskResumeFromISR(s, t)
           IN \E P \in SUBSET {t} : Wakes(s, r.kernel, P) /\ (t \in P => IsIn(t, s.suspendedTasks))
<1> DEFINE woken == s.uxSchedulerSuspended = 0 /\ s.uxPriority[t] >= Current(s)
<1> PICK yields \in BOOLEAN : yields = woken
  <2>1. woken \in BOOLEAN
    OBVIOUS
  <2> HIDE DEF woken
  <2> QED BY Zenon, <2>1
<1> PICK r : r = xTaskResumeFromISR(s, t)
  OBVIOUS
<1>1. CASE ~prvTaskIsTaskSuspended(s, t)
  <2>1. r = [kernel |-> s, woken |-> FALSE]
    BY <1>1 DEF xTaskResumeFromISR
  <2>2. r.kernel = s
    BY ONLY <2>1
  <2>3. Wakes(s, r.kernel, {})
    BY <2>2, WakesSelf
  <2> QED BY <2>3
<1>2. CASE prvTaskIsTaskSuspended(s, t)
  <2> PICK k : k = ReadyOrPend(s, t)
    OBVIOUS
  <2> PICK n : n = [k EXCEPT !.xYieldPending = @ \/ yields]
    OBVIOUS
  <2>1. r = [kernel |-> n, woken |-> yields]
    BY <1>2 DEF xTaskResumeFromISR
  <2>2. r.kernel = n
    BY ONLY <2>1
  <2>4. t \notin Evt(s) /\ ~IsIn(t, s.pendingReady)
    BY <1>2 DEF prvTaskIsTaskSuspended, InEventList, Evt
  <2>5. Pends(s, k, t)
    BY <2>4, ReadiedOrPended
  <2>6. k = [f \in KernelFields |-> k[f]] /\ k.xYieldPending \in BOOLEAN /\ k.pendSV \in BOOLEAN
    BY <2>5 DEF Pends, Kernel, Lists, Typed
  <2>7. Same(k, n, YieldFields) /\ n.pendSV = k.pendSV /\ n.xYieldPending = (k.xYieldPending \/ yields)
    BY <2>6 DEF Same, YieldFields, KernelFields
  <2>8. s.uxSchedulerSuspended = 0 /\ s.uxPriority[t] > Current(s) => n.xYieldPending
    <3>1. Current(s) \in Int /\ s.uxPriority[t] \in Int
      BY PrioritiesAre, NotIdle
    <3>2. s.uxPriority[t] > Current(s) => s.uxPriority[t] >= Current(s)
      BY <3>1
    <3>3. s.uxSchedulerSuspended = 0 /\ s.uxPriority[t] > Current(s) => yields
      BY Zenon, <3>2
    <3> HIDE DEF woken
    <3> QED BY <2>6, <2>7, <3>3
  <2>9. /\ n.pendSV \in BOOLEAN /\ n.xYieldPending \in BOOLEAN
        /\ (k.pendSV => n.pendSV) /\ (k.xYieldPending => n.xYieldPending)
    BY <2>6, <2>7
  <2>10. Wakes(s, n, {t})
    <3>1. Kernel(s) /\ t \in Tasks /\ k = ReadyOrPend(s, t) /\ Same(k, n, YieldFields) /\ s.ucNotifyState[t] # "waiting"
      BY <2>7
    <3> QED BY ONLY <2>4, <2>8, <2>9, <3>1, PendedKeeps
  <2>11. Wakes(s, r.kernel, {t}) /\ (t \in {t} => IsIn(t, s.suspendedTasks))
    BY <1>2, <2>2, <2>10 DEF prvTaskIsTaskSuspended
  <2> QED BY <2>11
<1> QED BY <1>1, <1>2

(* prvResetNextTaskUnblockTime. *)
LEMMA ResetKeeps ==
    ASSUME NEW s, Kernel(s)
    PROVE  LET n == prvResetNextTaskUnblockTime(s)
           IN Wakes(s, n, {}) /\ Rdy(n) = Rdy(s) /\ Evt(n) = Evt(s)
<1> PICK n : n = prvResetNextTaskUnblockTime(s)
  OBVIOUS
<1>1. /\ Typed(s) /\ ReadyLists(s) /\ WaitLists(s) /\ Apart(s) /\ Events(s)
      /\ Sorted(s.delayed, s.wake) /\ Sorted(s.overflow, s.wake)
  BY DEF Kernel, Lists, Times
<1>2. /\ Lists(n) /\ Same(s, n, {"xNextTaskUnblockTime"})
      /\ Rdy(n) = Rdy(s) /\ Evt(n) = Evt(s)
  BY <1>1, ResetNext
<1>3. /\ n.ready = s.ready /\ n.uxTopReadyPriority = s.uxTopReadyPriority
      /\ n.xTickCount = s.xTickCount /\ n.delayed = s.delayed /\ n.pendingReady = s.pendingReady
      /\ n.uxBasePriority = s.uxBasePriority /\ n.uxPriority = s.uxPriority
      /\ n.pxCurrentTCB = s.pxCurrentTCB /\ n.overflow = s.overflow /\ n.suspendedTasks = s.suspendedTasks
      /\ n.uxSchedulerSuspended = s.uxSchedulerSuspended /\ n.ucNotifyState = s.ucNotifyState
      /\ n.xYieldPending = s.xYieldPending /\ n.pendSV = s.pendSV
  BY <1>2 DEF Same, NoteFields, KernelFields
<1>4. Bits(n) /\ Unready(n) /\ AtWrap(n) /\ Own(n)
  BY <1>2, <1>3 DEF Kernel, Bits, Unready, AtWrap, Own
<1>5. Highest(s) => Highest(n)
  BY <1>2, <1>3 DEF Highest, Current
<1> QED BY <1>2, <1>3, <1>4, <1>5 DEF Wakes, Keeps, Kernel, Still

(* Steps that touch neither a rank nor the state of a notification. *)
LEMMA NotesKeep ==
    ASSUME NEW s, Kernel(s), NEW n, Same(s, n, {"item", "ulNotifiedValue", "ucDelayAborted", "uxMutexesHeld"})
    PROVE  Wakes(s, n, {}) /\ Rdy(n) = Rdy(s) /\ Evt(n) = Evt(s)
<1>1. n.rank = s.rank /\ n.ucNotifyState = s.ucNotifyState
  BY DEF Same, NoteFields, KernelFields
<1>2. n.rank \in [All -> Int] /\ n.ucNotifyState \in [All -> States] /\ Unwaiting(s, n)
  BY <1>1 DEF Kernel, Lists, Typed, States, Unwaiting
<1>3. Same(s, n, TaskFields)
  BY SameMore DEF TaskFields
<1> QED BY <1>2, <1>3, TaskKeeps

(* xTaskCheckForTimeOut takes back an abort.                               *)
LEMMA CheckedKeeps ==
    ASSUME NEW s, Kernel(s)
    PROVE  Wakes(s, Checked(s), {}) /\ Rdy(Checked(s)) = Rdy(s) /\ Evt(Checked(s)) = Evt(s)
<1> PICK n : n = Checked(s)
  OBVIOUS
<1>1. s = [f \in KernelFields |-> s[f]]
  BY DEF Kernel, Lists, Typed
<1>2. Same(s, n, {"item", "ulNotifiedValue", "ucDelayAborted", "uxMutexesHeld"})
  BY <1>1 DEF Checked, Same, KernelFields
<1> QED BY <1>2, NotesKeep

(* ulTaskNotifyValueClear changes a value only.                            *)
LEMMA ClearedKeeps ==
    ASSUME NEW s, Kernel(s), NEW t, NEW bits
    PROVE  LET n == ulTaskGenericNotifyValueClear(s, t, bits)
           IN /\ Wakes(s, n, {}) /\ Rdy(n) = Rdy(s) /\ Evt(n) = Evt(s)
              /\ Same(s, n, {"ulNotifiedValue"})
<1> PICK n : n = ulTaskGenericNotifyValueClear(s, t, bits)
  OBVIOUS
<1>1. s = [f \in KernelFields |-> s[f]]
  BY DEF Kernel, Lists, Typed
<1> PICK value : value = [s.ulNotifiedValue EXCEPT ![t] = @ - (@ & bits)]
  OBVIOUS
<1>2. n = [s EXCEPT !.ulNotifiedValue = value]
  BY DEF ulTaskGenericNotifyValueClear
<1>3. Same(s, n, {"ulNotifiedValue"})
  BY ONLY <1>1, <1>2 DEF Same, NoteFields, KernelFields
<1>4. Same(s, n, {"item", "ulNotifiedValue", "ucDelayAborted", "uxMutexesHeld"})
  BY <1>3, SameMore
<1> QED BY <1>3, <1>4, NotesKeep

(* xTaskNotifyStateClear ends no wait.                                     *)
LEMMA StateCleared ==
    ASSUME NEW s, Kernel(s), NEW t \in All
    PROVE  LET n == xTaskGenericNotifyStateClear(s, t)
           IN Wakes(s, n, {}) /\ Rdy(n) = Rdy(s) /\ Evt(n) = Evt(s)
<1> PICK n : n = xTaskGenericNotifyStateClear(s, t)
  OBVIOUS
<1> PICK v : v = IF s.ucNotifyState[t] = "received" THEN "none" ELSE s.ucNotifyState[t]
  OBVIOUS
<1>1. s = [f \in KernelFields |-> s[f]] /\ s.ucNotifyState \in [All -> States]
  BY DEF Kernel, Lists, Typed, States
<1>2. n = [s EXCEPT !.ucNotifyState[t] = v]
  BY DEF xTaskGenericNotifyStateClear
<1>3. /\ Same(s, n, NoteFields)
      /\ n.ucNotifyState = [s.ucNotifyState EXCEPT ![t] = v]
  BY ONLY <1>1, <1>2 DEF Same, NoteFields, KernelFields
<1>4. v \in States /\ (v = "waiting" => s.ucNotifyState[t] = "waiting")
  BY <1>1 DEF States
<1>5. Noted(s.ucNotifyState, n.ucNotifyState, t, v)
  BY <1>1, <1>3, <1>4, NotedState
<1> QED BY <1>3, <1>4, <1>5, NoteKeeps

(* The end of a wait for a notification. *)
LEMMA NotifyEnds ==
    ASSUME NEW s, Kernel(s), NEW n, Same(s, n, NoteFields),
           n.ucNotifyState = [s.ucNotifyState EXCEPT ![s.pxCurrentTCB] = "none"]
    PROVE  /\ Wakes(s, n, {}) /\ Rdy(n) = Rdy(s) /\ Evt(n) = Evt(s)
           /\ n.ucNotifyState[s.pxCurrentTCB] # "waiting"
<1> PICK t : t = s.pxCurrentTCB
  OBVIOUS
<1> PICK v : v = "none"
  OBVIOUS
<1>1. t \in All /\ Noted(s.ucNotifyState, n.ucNotifyState, t, v) /\ v # "waiting"
  <2>1. s.ucNotifyState \in [All -> States] /\ t \in All /\ v \in States /\ v # "waiting"
    BY DEF Kernel, Lists, Typed, States
  <2> QED BY <2>1, NotedState
<1>2. Wakes(s, n, {}) /\ Rdy(n) = Rdy(s) /\ Evt(n) = Evt(s) /\ n.ucNotifyState[t] = v
  <2>1. Kernel(s) /\ Same(s, n, NoteFields)
    OBVIOUS
  <2> QED BY ONLY <1>1, <2>1, NoteKeeps
<1> QED BY <1>1, <1>2

(* After xTaskNotifyWait the task waits for no notification.               *)
LEMMA NotifyWaitedKeeps ==
    ASSUME NEW s, Kernel(s), NEW bits
    PROVE  LET n == NotifyWaited(s, bits)
           IN /\ Wakes(s, n, {}) /\ Rdy(n) = Rdy(s) /\ Evt(n) = Evt(s)
              /\ n.ucNotifyState[s.pxCurrentTCB] # "waiting"
<1> PICK n : n = NotifyWaited(s, bits)
  OBVIOUS
<1> PICK t : t = s.pxCurrentTCB
  OBVIOUS
<1> PICK m : m = IF s.ucNotifyState[t] = "received" THEN ulTaskGenericNotifyValueClear(s, t, bits) ELSE s
  OBVIOUS
<1>1. n = [m EXCEPT !.ucNotifyState[t] = "none"]
  BY DEF NotifyWaited
<1>2. s = [f \in KernelFields |-> s[f]]
  BY DEF Kernel, Lists, Typed
<1>3. Same(s, m, {"ulNotifiedValue"})
  <2>1. Same(s, ulTaskGenericNotifyValueClear(s, t, bits), {"ulNotifiedValue"})
    BY ClearedKeeps
  <2>2. Same(s, s, {"ulNotifiedValue"})
    BY <1>2 DEF Same
  <2> QED BY <2>1, <2>2
<1>4. m = [f \in KernelFields |-> m[f]] /\ m.ucNotifyState = s.ucNotifyState
  BY <1>3 DEF Same, NoteFields, KernelFields
<1>5. Same(m, n, {"ucNotifyState"}) /\ n.ucNotifyState = [m.ucNotifyState EXCEPT ![t] = "none"]
  BY ONLY <1>1, <1>4 DEF Same, NoteFields, KernelFields
<1>6. Same(s, n, NoteFields)
  BY <1>3, <1>5, SameBoth DEF NoteFields
<1>7. Kernel(s) /\ n.ucNotifyState = [s.ucNotifyState EXCEPT ![s.pxCurrentTCB] = "none"]
  BY <1>4, <1>5
<1>8. /\ Wakes(s, n, {}) /\ Rdy(n) = Rdy(s) /\ Evt(n) = Evt(s)
      /\ n.ucNotifyState[s.pxCurrentTCB] # "waiting"
  BY ONLY <1>6, <1>7, NotifyEnds
<1> QED BY <1>8

(* After ulTaskNotifyTake the task waits for no notification.              *)
LEMMA NotifyTakenKeeps ==
    ASSUME NEW s, Kernel(s), NEW clear
    PROVE  LET n == NotifyTaken(s, clear)
           IN /\ Wakes(s, n, {}) /\ Rdy(n) = Rdy(s) /\ Evt(n) = Evt(s)
              /\ n.ucNotifyState[s.pxCurrentTCB] # "waiting"
<1> PICK n : n = NotifyTaken(s, clear)
  OBVIOUS
<1> PICK t : t = s.pxCurrentTCB
  OBVIOUS
<1> PICK v : v = IF s.ulNotifiedValue[t] = 0 \/ clear THEN 0 ELSE s.ulNotifiedValue[t] - 1
  OBVIOUS
<1>1. n = [s EXCEPT !.ulNotifiedValue[t] = v, !.ucNotifyState[t] = "none"]
  BY DEF NotifyTaken
<1>2. s = [f \in KernelFields |-> s[f]]
  BY DEF Kernel, Lists, Typed
<1>3. /\ Same(s, n, NoteFields)
      /\ n.ucNotifyState = [s.ucNotifyState EXCEPT ![t] = "none"]
  BY ONLY <1>1, <1>2 DEF Same, NoteFields, KernelFields
<1> QED BY <1>3, NotifyEnds

(* A group's bits have been read off the item of the running task. *)
LEMMA ItemReset ==
    ASSUME NEW s, Kernel(s)
    PROVE  LET n == uxTaskResetEventItemValue(s)
           IN Wakes(s, n, {}) /\ Rdy(n) = Rdy(s) /\ Evt(n) = Evt(s)
<1> PICK n : n = uxTaskResetEventItemValue(s)
  OBVIOUS
<1> PICK t : t = s.pxCurrentTCB
  OBVIOUS
<1>1. /\ s = [f \in KernelFields |-> s[f]] /\ s.rank \in [All -> Int] /\ t \in All
      /\ s.ucNotifyState \in [All -> States]
  BY DEF Kernel, Lists, Typed, States
<1> PICK v : v = Rank(Current(s))
  OBVIOUS
<1>2. v \in Int
  BY PrioritiesAre, KernelAssumption DEF Rank
<1>3. n = [s EXCEPT !.item[t] = NotInUse, !.rank[t] = v]
  BY DEF uxTaskResetEventItemValue
<1>4. Same(s, n, {"item", "rank"}) /\ n.rank = [s.rank EXCEPT ![t] = v] /\ n.ucNotifyState = s.ucNotifyState
  BY ONLY <1>1, <1>3 DEF Same, NoteFields, KernelFields
<1>5. n.rank \in [All -> Int] /\ n.ucNotifyState \in [All -> States] /\ Unwaiting(s, n)
  BY <1>1, <1>2, <1>4 DEF Unwaiting
<1>6. Same(s, n, TaskFields)
  BY <1>4, SameMore DEF TaskFields
<1> QED BY <1>5, <1>6, TaskKeeps

(* A blocked task is taken off its state list by another. *)
LEMMA OffBlocked ==
    ASSUME NEW s, Kernel(s), NEW t \in Tasks, t \notin Rdy(s)
    PROVE  LET n == OffStateList(s, t)
           IN Keeps(s, n, {}) /\ OffLists(n, t)
<1> PICK n : n = OffStateList(s, t)
  OBVIOUS
<1>1. Leaves(s, n, t)
  BY OffState DEF Kernel
<1>2. /\ n.uxTopReadyPriority = s.uxTopReadyPriority
      /\ n.xTickCount = s.xTickCount /\ n.pendingReady = s.pendingReady
      /\ n.uxBasePriority = s.uxBasePriority /\ n.uxPriority = s.uxPriority
      /\ n.pxCurrentTCB = s.pxCurrentTCB
      /\ n.uxSchedulerSuspended = s.uxSchedulerSuspended /\ n.ucNotifyState = s.ucNotifyState
      /\ n.xYieldPending = s.xYieldPending /\ n.pendSV = s.pendSV
  BY <1>1 DEF Leaves, Same, StateFields, KernelFields
<1>3. Rdy(n) = Rdy(s) /\ Evt(n) = Evt(s) /\ Lists(n) /\ OffLists(n, t)
  BY <1>1 DEF Leaves
<1>4. Bits(n)
  <2>1. \A p \in Priorities : \A u \in All : IsIn(u, n.ready[p]) <=> IsIn(u, s.ready[p])
    <3> SUFFICES ASSUME NEW p \in Priorities, NEW u \in All PROVE IsIn(u, n.ready[p]) <=> IsIn(u, s.ready[p])
      OBVIOUS
    <3>1. IsIn(u, n.ready[p]) <=> u # t /\ IsIn(u, s.ready[p])
      BY <1>1 DEF Leaves
    <3>2. u = t => ~IsIn(u, s.ready[p])
      BY DEF Rdy, IsReady
    <3> QED BY <3>1, <3>2
  <2>2. s.uxTopReadyPriority = {p \in Priorities : \E u \in All : IsIn(u, s.ready[p])}
    BY DEF Kernel, Bits
  <2> QED BY <1>2, <2>1, <2>2 DEF Bits
<1>5. Unready(n) /\ Own(n)
  BY <1>2, <1>3 DEF Kernel, Unready, Own
<1>6. AtWrap(n)
  <2>1. s.delayed = <<>> => \A u : ~IsIn(u, n.delayed)
    BY <1>1, EmptyList DEF Leaves
  <2>2. n.delayed \in Seq(Tasks)
    BY <1>3 DEF Lists, WaitLists, Once
  <2> QED BY <1>2, <2>1, <2>2, NotEmpty DEF Kernel, AtWrap
<1>7. Highest(s) => Highest(n)
  BY <1>2, <1>3 DEF Highest, Current
<1> QED BY <1>2, <1>3, <1>4, <1>5, <1>6, <1>7 DEF Keeps, Kernel

(* The running task waits for a notification, if it has to. *)
MaySleep(s, n, t) ==
    /\ Kernel(n)
    /\ n.pxCurrentTCB = s.pxCurrentTCB /\ n.uxSchedulerSuspended = s.uxSchedulerSuspended
    /\ n.pendingReady = s.pendingReady
    /\ Evt(n) = Evt(s)
    /\ n.pendSV \/ Rdy(n) = Rdy(s)
    /\ \A u \in Tasks : u # t /\ n.ucNotifyState[u] = "waiting" => s.ucNotifyState[u] = "waiting"
    /\ Highest(s) => Highest(n)

(* A task begins to wait for a notification.                               *)
LEMMA WaitingIs ==
    ASSUME NEW s, Kernel(s), NEW t \in Tasks, NEW n, Same(s, n, NoteFields),
           Noted(s.ucNotifyState, n.ucNotifyState, t, "waiting")
    PROVE  /\ Kernel(n) /\ Rdy(n) = Rdy(s) /\ Evt(n) = Evt(s)
           /\ n.pxCurrentTCB = s.pxCurrentTCB /\ n.uxSchedulerSuspended = s.uxSchedulerSuspended
           /\ n.pendingReady = s.pendingReady
           /\ \A u \in Tasks : u # t /\ n.ucNotifyState[u] = "waiting" => s.ucNotifyState[u] = "waiting"
           /\ Highest(s) => Highest(n)
<1>1. /\ n.xYieldPending = s.xYieldPending /\ n.pendSV = s.pendSV
      /\ n.xPendedTicks = s.xPendedTicks /\ n.uxSchedulerSuspended = s.uxSchedulerSuspended
      /\ n.pxCurrentTCB = s.pxCurrentTCB /\ n.uxPriority = s.uxPriority
      /\ n.pendingReady = s.pendingReady
  BY DEF Same, NoteFields, KernelFields
<1>2. Typed(n)
  <2>1. Typed(s)
    BY DEF Kernel, Lists
  <2>2. Same(s, n, ListFields \cup FreeFields)
    BY SameMore DEF NoteFields, FreeFields
  <2>3. /\ n.xYieldPending \in BOOLEAN /\ n.pendSV \in BOOLEAN
        /\ n.xPendedTicks \in Nat /\ n.uxSchedulerSuspended \in Nat /\ n.ucNotifyState \in [All -> States]
    BY <1>1, <2>1 DEF Typed, Noted
  <2> QED BY <2>1, <2>2, <2>3, TypedFrame
<1>3. Same(s, n, FreeFields)
  BY SameMore DEF NoteFields, FreeFields
<1>4. Kernel(n) /\ Rdy(n) = Rdy(s) /\ Evt(n) = Evt(s)
  BY <1>2, <1>3, SameKernel
<1>5. \A u \in Tasks : u # t /\ n.ucNotifyState[u] = "waiting" => s.ucNotifyState[u] = "waiting"
  BY NotIdle DEF Noted
<1>6. Highest(s) => Highest(n)
  BY <1>1, <1>4 DEF Highest, Current
<1> QED BY <1>1, <1>4, <1>5, <1>6

(* The running task does so and goes to sleep.                             *)
LEMMA WaitSleeps ==
    ASSUME NEW s, Kernel(s), s.pxCurrentTCB \in Tasks, NEW ticksToWait \in TickType, ticksToWait # 0,
           NEW m, Same(s, m, NoteFields),
           Noted(s.ucNotifyState, m.ucNotifyState, s.pxCurrentTCB, "waiting")
    PROVE  LET n == Yield(prvAddCurrentTaskToDelayedList(m, ticksToWait, TRUE))
           IN MaySleep(s, n, s.pxCurrentTCB)
<1> PICK t : t = s.pxCurrentTCB
  OBVIOUS
<1> PICK k : k = prvAddCurrentTaskToDelayedList(m, ticksToWait, TRUE)
  OBVIOUS
<1> PICK n : n = Yield(k)
  OBVIOUS
<1>1. /\ Kernel(m) /\ Rdy(m) = Rdy(s) /\ Evt(m) = Evt(s)
      /\ m.pxCurrentTCB = s.pxCurrentTCB /\ m.uxSchedulerSuspended = s.uxSchedulerSuspended
      /\ m.pendingReady = s.pendingReady
      /\ \A u \in Tasks : u # t /\ m.ucNotifyState[u] = "waiting" => s.ucNotifyState[u] = "waiting"
      /\ Highest(s) => Highest(m)
  <2>1. /\ Kernel(s) /\ t \in Tasks /\ Same(s, m, NoteFields)
        /\ Noted(s.ucNotifyState, m.ucNotifyState, t, "waiting")
    OBVIOUS
  <2> QED BY ONLY <2>1, WaitingIs
<1>2. Sleeps(m, k, t)
  BY <1>1, DelaySleeps
<1>3. Evt(k) = Evt(m)
  <2>1. Lists(m) /\ Bits(m) /\ AtWrap(m) /\ Own(m) /\ m.pxCurrentTCB \in Tasks
    BY <1>1 DEF Kernel
  <2>2. Delayed(m, k, t)
    BY <1>1, <2>1, CurrentDelayed
  <2> QED BY <2>2 DEF Delayed
<1>4. /\ k = [f \in KernelFields |-> k[f]] /\ k.xYieldPending \in BOOLEAN /\ Kernel(k)
  BY <1>2 DEF Sleeps, Kernel, Lists, Typed
<1>5. Same(k, n, YieldFields) /\ n.pendSV = TRUE /\ n.xYieldPending = k.xYieldPending
  BY <1>4 DEF Yield, Same, YieldFields, KernelFields
<1>6. Wakes(k, n, {}) /\ Rdy(n) = Rdy(k) /\ Evt(n) = Evt(k) /\ n.pendingReady = k.pendingReady
  <2>1. n.pendSV \in BOOLEAN /\ n.xYieldPending \in BOOLEAN /\ (k.pendSV => n.pendSV)
        /\ (k.xYieldPending => n.xYieldPending)
    BY <1>4, <1>5
  <2>2. Wakes(k, n, {}) /\ Rdy(n) = Rdy(k)
    BY <1>4, <1>5, <2>1, AskedKeeps
  <2>3. n.events = k.events /\ n.pendingReady = k.pendingReady
    BY <1>5 DEF Same, YieldFields, KernelFields
  <2> QED BY <2>2, <2>3 DEF Evt
<1>7. /\ k.pxCurrentTCB = s.pxCurrentTCB /\ k.uxSchedulerSuspended = s.uxSchedulerSuspended
      /\ k.pendingReady = s.pendingReady /\ k.ucNotifyState = m.ucNotifyState
      /\ Highest(s) => Highest(k)
  BY <1>1, <1>2 DEF Sleeps
<1>8. /\ Kernel(n) /\ n.pxCurrentTCB = k.pxCurrentTCB /\ n.uxSchedulerSuspended = k.uxSchedulerSuspended
      /\ \A u \in Tasks : n.ucNotifyState[u] = "waiting" => k.ucNotifyState[u] = "waiting"
      /\ Highest(k) => Highest(n)
  BY <1>6 DEF Wakes, Keeps
<1>9. MaySleep(s, n, t)
  BY <1>1, <1>3, <1>5, <1>6, <1>7, <1>8 DEF MaySleep
<1> QED BY <1>9

(* Or it need not sleep, and nothing changes.                              *)
LEMMA SelfWaits == ASSUME NEW s, Kernel(s) PROVE MaySleep(s, s, s.pxCurrentTCB)
BY DEF MaySleep

(* The task is told to wait, and sleeps unless it has no time to wait. *)
LEMMA WaitStarts ==
    ASSUME NEW s, Kernel(s), s.pxCurrentTCB \in Tasks, NEW ticksToWait \in TickType,
           NEW m, Same(s, m, NoteFields),
           m.ucNotifyState = [s.ucNotifyState EXCEPT ![s.pxCurrentTCB] = "waiting"],
           NEW n, n = IF ticksToWait > 0 THEN Yield(prvAddCurrentTaskToDelayedList(m, ticksToWait, TRUE)) ELSE m
    PROVE  MaySleep(s, n, s.pxCurrentTCB)
<1> PICK t : t = s.pxCurrentTCB
  OBVIOUS
<1> PICK v : v = "waiting"
  OBVIOUS
<1>1. Noted(s.ucNotifyState, m.ucNotifyState, t, v)
  <2>1. s.ucNotifyState \in [All -> States] /\ t \in All /\ v \in States
    BY NotIdle DEF Kernel, Lists, Typed, States
  <2>2. m.ucNotifyState = [s.ucNotifyState EXCEPT ![t] = v]
    OBVIOUS
  <2> QED BY <2>1, <2>2, NotedState
<1>2. /\ Kernel(s) /\ t = s.pxCurrentTCB /\ s.pxCurrentTCB \in Tasks /\ t \in Tasks
      /\ Same(s, m, NoteFields) /\ Noted(s.ucNotifyState, m.ucNotifyState, t, "waiting")
  BY <1>1
<1>3. CASE ticksToWait > 0
  <2>1. n = Yield(prvAddCurrentTaskToDelayedList(m, ticksToWait, TRUE))
    BY <1>3
  <2>2. ticksToWait \in TickType /\ ticksToWait # 0
    BY <1>3 DEF TickType
  <2> QED BY ONLY <1>2, <2>1, <2>2, WaitSleeps
<1>4. CASE ~(ticksToWait > 0)
  <2>1. n = m
    BY <1>4
  <2>2. /\ Kernel(m) /\ Rdy(m) = Rdy(s) /\ Evt(m) = Evt(s)
        /\ m.pxCurrentTCB = s.pxCurrentTCB /\ m.uxSchedulerSuspended = s.uxSchedulerSuspended
        /\ m.pendingReady = s.pendingReady
        /\ \A u \in Tasks : u # t /\ m.ucNotifyState[u] = "waiting" => s.ucNotifyState[u] = "waiting"
        /\ Highest(s) => Highest(m)
    BY ONLY <1>2, WaitingIs
  <2> QED BY ONLY <1>2, <2>1, <2>2 DEF MaySleep
<1> QED BY <1>3, <1>4

(* xTaskNotifyWait until the task sleeps, if it must.                      *)
LEMMA NotifyWaitsIs ==
    ASSUME NEW s, Kernel(s), s.pxCurrentTCB \in Tasks, NEW ticksToWait \in TickType, NEW bits
    PROVE  MaySleep(s, NotifyWaits(s, bits, ticksToWait), s.pxCurrentTCB)
<1> PICK t : t = s.pxCurrentTCB
  OBVIOUS
<1> PICK c : c = ulTaskGenericNotifyValueClear(s, t, bits)
  OBVIOUS
<1> PICK m : m = [c EXCEPT !.ucNotifyState[t] = "waiting"]
  OBVIOUS
<1> PICK n : n = IF ticksToWait > 0 THEN Yield(prvAddCurrentTaskToDelayedList(m, ticksToWait, TRUE)) ELSE m
  OBVIOUS
<1>1. NotifyWaits(s, bits, ticksToWait) = IF s.ucNotifyState[t] = "received" THEN s ELSE n
  BY DEF NotifyWaits
<1>2. Same(s, c, {"ulNotifiedValue"})
  BY ClearedKeeps
<1>3. c = [f \in KernelFields |-> c[f]] /\ c.ucNotifyState = s.ucNotifyState
  BY <1>2 DEF Same, KernelFields
<1>4. Same(c, m, {"ucNotifyState"}) /\ m.ucNotifyState = [s.ucNotifyState EXCEPT ![t] = "waiting"]
  BY <1>3 DEF Same, KernelFields
<1>5. Same(s, m, NoteFields)
  BY <1>2, <1>4, SameBoth DEF NoteFields
<1>6. MaySleep(s, n, t)
  <2>1. /\ Kernel(s) /\ s.pxCurrentTCB \in Tasks /\ ticksToWait \in TickType
        /\ m.ucNotifyState = [s.ucNotifyState EXCEPT ![s.pxCurrentTCB] = "waiting"]
        /\ n = IF ticksToWait > 0 THEN Yield(prvAddCurrentTaskToDelayedList(m, ticksToWait, TRUE)) ELSE m
    BY <1>4
  <2>2. MaySleep(s, n, s.pxCurrentTCB)
    BY ONLY <1>5, <2>1, WaitStarts
  <2> QED BY <2>2
<1> QED BY <1>1, <1>6, SelfWaits

(* ulTaskNotifyTake until the task sleeps, if it must.                     *)
LEMMA NotifyTakesIs ==
    ASSUME NEW s, Kernel(s), s.pxCurrentTCB \in Tasks, NEW ticksToWait \in TickType
    PROVE  MaySleep(s, NotifyTakes(s, ticksToWait), s.pxCurrentTCB)
<1> PICK t : t = s.pxCurrentTCB
  OBVIOUS
<1> PICK m : m = [s EXCEPT !.ucNotifyState[t] = "waiting"]
  OBVIOUS
<1> PICK n : n = IF ticksToWait > 0 THEN Yield(prvAddCurrentTaskToDelayedList(m, ticksToWait, TRUE)) ELSE m
  OBVIOUS
<1>1. NotifyTakes(s, ticksToWait) = IF s.ulNotifiedValue[t] # 0 THEN s ELSE n
  BY DEF NotifyTakes
<1>2. s = [f \in KernelFields |-> s[f]]
  BY DEF Kernel, Lists, Typed
<1>3. Same(s, m, NoteFields) /\ m.ucNotifyState = [s.ucNotifyState EXCEPT ![t] = "waiting"]
  BY <1>2 DEF Same, NoteFields, KernelFields
<1>4. MaySleep(s, n, t)
  <2>1. /\ Kernel(s) /\ s.pxCurrentTCB \in Tasks /\ ticksToWait \in TickType
        /\ m.ucNotifyState = [s.ucNotifyState EXCEPT ![s.pxCurrentTCB] = "waiting"]
        /\ n = IF ticksToWait > 0 THEN Yield(prvAddCurrentTaskToDelayedList(m, ticksToWait, TRUE)) ELSE m
    BY <1>3
  <2>2. MaySleep(s, n, s.pxCurrentTCB)
    BY ONLY <1>3, <2>1, WaitStarts
  <2> QED BY <2>2
<1> QED BY <1>1, <1>4, SelfWaits

----------------------------------------------------------------------------
(* Priorities.                                                             *)

(* The priority of a task that is not ready.                               *)
LEMMA PriorityNoted ==
    ASSUME NEW s, Lists(s), Bits(s), NEW t \in Tasks, t \notin Rdy(s), NEW p \in Priorities,
           NEW n, Same(s, n, {"uxPriority"}), n.uxPriority = [s.uxPriority EXCEPT ![t] = p]
    PROVE  Lists(n) /\ Bits(n) /\ Rdy(n) = Rdy(s) /\ Evt(n) = Evt(s)
<1>1. /\ n.ready = s.ready /\ n.delayed = s.delayed /\ n.overflow = s.overflow
      /\ n.suspendedTasks = s.suspendedTasks /\ n.tasksWaitingTermination = s.tasksWaitingTermination
      /\ n.events = s.events /\ n.pendingReady = s.pendingReady /\ n.uxTopReadyPriority = s.uxTopReadyPriority
      /\ n.wake = s.wake /\ n.xNextTaskUnblockTime = s.xNextTaskUnblockTime
      /\ n.xTickCount = s.xTickCount /\ n.xPendedTicks = s.xPendedTicks
      /\ n.uxSchedulerSuspended = s.uxSchedulerSuspended /\ n.pxCurrentTCB = s.pxCurrentTCB
      /\ n.uxBasePriority = s.uxBasePriority /\ n.rank = s.rank /\ n.ucNotifyState = s.ucNotifyState
      /\ n.xYieldPending = s.xYieldPending /\ n.pendSV = s.pendSV /\ n.halted = s.halted
      /\ n = [f \in KernelFields |-> n[f]]
  BY DEF Same, KernelFields
<1>2. /\ Typed(s) /\ ReadyLists(s) /\ WaitLists(s) /\ Apart(s) /\ Events(s) /\ Times(s)
  BY DEF Lists
<1>3. Rdy(n) = Rdy(s) /\ Evt(n) = Evt(s)
  BY <1>1 DEF Rdy, Evt, IsReady
<1>4. n.uxPriority \in [All -> Priorities] /\ \A u : u # t => n.uxPriority[u] = s.uxPriority[u]
  BY <1>2, NotIdle DEF Typed
<1>5. Typed(n)
  BY <1>1, <1>2, <1>4 DEF Typed
<1>6. ReadyLists(n)
  <2>1. \A q \in Priorities : ~IsIn(t, s.ready[q])
    BY NotIdle DEF Rdy, IsReady
  <2> QED BY <1>1, <1>2, <1>3, <1>4, <2>1 DEF ReadyLists
<1>7. WaitLists(n) /\ Times(n)
  BY <1>1, <1>2 DEF WaitLists, Times
<1>8. Apart(n)
  BY <1>1, <1>2, <1>3 DEF Apart
<1>9. Events(n)
  BY <1>1, <1>2 DEF Events
<1>10. Bits(n)
  BY <1>1 DEF Bits
<1> QED BY <1>3, <1>5, <1>6, <1>7, <1>8, <1>9, <1>10 DEF Lists

(* The rank of a task goes with its base priority.                         *)
LEMMA RankSet ==
    ASSUME NEW s, Lists(s), Bits(s), NEW t \in Tasks, NEW p \in Priorities, NEW base,
           base = [s.uxBasePriority EXCEPT ![t] = p]
    PROVE  LET n == SetRank([s EXCEPT !.uxBasePriority = base], t, p)
           IN /\ Lists(n) /\ Bits(n) /\ Same(s, n, {"uxBasePriority", "rank"})
              /\ n.uxBasePriority = base
              /\ Rdy(n) = Rdy(s) /\ Evt(n) = Evt(s)
<1> PICK m : m = [s EXCEPT !.uxBasePriority = base]
  OBVIOUS
<1> PICK n : n = SetRank(m, t, p)
  OBVIOUS
<1>1. Typed(s)
  BY DEF Lists
<1>2. base \in [All -> Priorities]
  BY <1>1, NotIdle DEF Typed
<1>3. /\ m = [f \in KernelFields |-> m[f]] /\ Same(s, m, {"uxBasePriority"}) /\ m.uxBasePriority = base
  BY <1>1 DEF Typed, Same, KernelFields
<1>4. m.rank = s.rank
  BY <1>3 DEF Same, KernelFields
<1>5. Rank(p) \in Int
  BY KernelAssumption DEF Rank, Priorities
<1>6. /\ n = [f \in KernelFields |-> n[f]] /\ Same(m, n, {"rank"}) /\ n.rank \in [All -> Int]
      /\ n.uxBasePriority = base
  <2>1. CASE InUse(m, t)
    <3>1. n = m
      BY <2>1 DEF SetRank
    <3> QED BY <1>1, <1>3, <1>4, <3>1 DEF Same, Typed
  <2>2. CASE ~InUse(m, t)
    <3>1. n = [m EXCEPT !.rank[t] = Rank(p)]
      BY <2>2 DEF SetRank
    <3> PICK r : r = [m.rank EXCEPT ![t] = Rank(p)]
      OBVIOUS
    <3>2. n = [m EXCEPT !.rank = r]
      BY <3>1
    <3>3. Same(m, n, {"rank"}) /\ n.rank = r /\ n.uxBasePriority = m.uxBasePriority
      BY <1>3, <3>2 DEF Same, KernelFields
    <3>4. r \in [All -> Int]
      BY <1>1, <1>4, <1>5 DEF Typed
    <3> QED BY <1>3, <3>3, <3>4 DEF Same
  <2> QED BY <2>1, <2>2
<1>7. Same(s, n, {"uxBasePriority", "rank"})
  BY <1>3, <1>6, SameBoth
<1>8. /\ n.xTickCount = s.xTickCount /\ n.xNextTaskUnblockTime = s.xNextTaskUnblockTime
      /\ n.xPendedTicks = s.xPendedTicks /\ n.uxSchedulerSuspended = s.uxSchedulerSuspended
      /\ n.pxCurrentTCB = s.pxCurrentTCB /\ n.uxPriority = s.uxPriority /\ n.wake = s.wake
      /\ n.ucNotifyState = s.ucNotifyState /\ n.halted = s.halted /\ n.pendSV = s.pendSV
      /\ n.xYieldPending = s.xYieldPending /\ n.uxTopReadyPriority = s.uxTopReadyPriority
      /\ n.ready = s.ready
  BY <1>7 DEF Same, KernelFields
<1>9. Typed(n)
  BY <1>1, <1>2, <1>6, <1>8 DEF Typed
<1>10. Same(s, n, OtherFields)
  BY <1>7, SameMore DEF OtherFields
<1>11. Lists(n) /\ Rdy(n) = Rdy(s) /\ Evt(n) = Evt(s)
  BY <1>9, <1>10, SameLists
<1>12. Bits(n)
  BY <1>8 DEF Bits
<1> QED BY <1>6, <1>7, <1>11, <1>12

(* A task comes to another priority, and into its list if it is ready.     *)
Requeued(s, n, t) ==
    /\ Lists(n) /\ Bits(n) /\ Same(s, n, MoveFields \cup {"uxPriority"})
    /\ Rdy(n) = Rdy(s) /\ Evt(n) = Evt(s)
    /\ \A u : IsIn(u, n.delayed) => IsIn(u, s.delayed)

(* A task of another priority is in the ready list of that.                *)
LEMMA RequeuedTo ==
    ASSUME NEW s, Lists(s), Bits(s), NEW t \in Tasks, NEW p \in Priorities
    PROVE  LET n == Requeue(s, t, p)
           IN Requeued(s, n, t) /\ n.uxPriority = [s.uxPriority EXCEPT ![t] = p]
<1> PICK n : n = Requeue(s, t, p)
  OBVIOUS
<1> PICK q : q = s.uxPriority[t]
  OBVIOUS
<1>1. /\ Typed(s) /\ t \in All /\ q \in Priorities
      /\ \A r \in Priorities : IsIn(t, s.ready[r]) => r = q
  BY NotIdle DEF Lists, Typed, ReadyLists
<1>2. InReadyList(s, q, t) <=> t \in Rdy(s)
  BY <1>1 DEF InReadyList, Rdy, IsReady
<1>3. CASE t \in Rdy(s)
  <2> PICK off : off = taskRESET_READY_PRIORITY(OffStateList(s, t), q)
    OBVIOUS
  <2> PICK m : m = [off EXCEPT !.uxPriority[t] = p]
    OBVIOUS
  <2>1. n = prvAddTaskToReadyList(m, t)
    BY <1>2, <1>3 DEF Requeue
  <2>2. Removed(s, off, t)
    BY OffReset
  <2>3. Typed(off) /\ off.uxPriority = s.uxPriority
    BY <2>2 DEF Removed, Lists, Same, MoveFields, StateFields, ReadyFields, KernelFields
  <2>4. /\ Same(off, m, {"uxPriority"}) /\ m.uxPriority = [off.uxPriority EXCEPT ![t] = p]
        /\ m.delayed = off.delayed /\ m.overflow = off.overflow /\ m.suspendedTasks = off.suspendedTasks
    BY <2>3 DEF Typed, Same, KernelFields
  <2>5. t \notin Rdy(off) /\ Lists(off) /\ Bits(off)
    BY <2>2 DEF Removed
  <2>6. Lists(m) /\ Bits(m) /\ Rdy(m) = Rdy(off) /\ Evt(m) = Evt(off)
    <3>1. /\ Lists(off) /\ Bits(off) /\ t \in Tasks /\ t \notin Rdy(off) /\ p \in Priorities
          /\ Same(off, m, {"uxPriority"}) /\ m.uxPriority = [off.uxPriority EXCEPT ![t] = p]
      BY <2>4, <2>5
    <3> QED BY ONLY <3>1, PriorityNoted
  <2>7. OffLists(m, t)
    BY <2>2, <2>4, <2>6 DEF Removed, OffLists
  <2>8. Joins(m, n, t)
    BY <2>1, <2>6, <2>7, AddReady
  <2>9. /\ n.uxPriority = m.uxPriority /\ n.delayed = m.delayed
    BY <2>8 DEF Joins, Same, ReadyFields, KernelFields
  <2>10. Same(s, n, MoveFields \cup {"uxPriority"})
    <3>1. Same(s, off, MoveFields) /\ Same(off, m, {"uxPriority"}) /\ Same(m, n, ReadyFields)
      BY <2>2, <2>4, <2>8 DEF Removed, Joins
    <3>2. Same(s, m, MoveFields \cup {"uxPriority"})
      BY <3>1, SameBoth
    <3> QED BY <3>1, <3>2, SameBoth DEF MoveFields
  <2>11. Bits(n)
    <3>1. ~\E r \in Priorities : IsIn(t, m.ready[r])
      BY <1>1, <2>7 DEF OffLists, Rdy, IsReady
    <3>2. \A r \in Priorities : \A u :
              IsIn(u, n.ready[r]) <=> (u = t /\ r = m.uxPriority[t]) \/ (u # t /\ IsIn(u, m.ready[r]))
      BY <2>8, <3>1 DEF Joins
    <3>3. n.uxTopReadyPriority = m.uxTopReadyPriority \cup {m.uxPriority[t]}
      BY <2>8 DEF Joins
    <3>4. /\ Lists(m) /\ Bits(m) /\ t \in Tasks /\ n.uxTopReadyPriority = m.uxTopReadyPriority \cup {m.uxPriority[t]}
          /\ \A r \in Priorities : \A u :
                 IsIn(u, n.ready[r]) <=> (u = t /\ r = m.uxPriority[t]) \/ (u # t /\ IsIn(u, m.ready[r]))
      BY <2>6, <3>2, <3>3
    <3> QED BY ONLY <3>4, BitsJoined
  <2>12. Rdy(n) = Rdy(s) /\ Evt(n) = Evt(s)
    BY <1>3, <2>2, <2>6, <2>8 DEF Removed, Joins
  <2>13. \A u : IsIn(u, n.delayed) => IsIn(u, s.delayed)
    BY <2>2, <2>4, <2>9 DEF Removed
  <2>14. Lists(n)
    BY <2>8 DEF Joins
  <2> QED BY <2>3, <2>4, <2>9, <2>10, <2>11, <2>12, <2>13, <2>14 DEF Requeued
<1>4. CASE t \notin Rdy(s)
  <2>1. n = [s EXCEPT !.uxPriority[t] = p]
    BY <1>2, <1>4 DEF Requeue
  <2>2. Same(s, n, {"uxPriority"}) /\ n.uxPriority = [s.uxPriority EXCEPT ![t] = p] /\ n.delayed = s.delayed
    BY <1>1, <2>1 DEF Typed, Same, KernelFields
  <2>3. Lists(n) /\ Bits(n) /\ Rdy(n) = Rdy(s) /\ Evt(n) = Evt(s)
    BY <1>4, <2>2, PriorityNoted
  <2>4. Same(s, n, MoveFields \cup {"uxPriority"})
    BY <2>2, SameMore
  <2> QED BY <2>2, <2>3, <2>4 DEF Requeued
<1> QED BY <1>3, <1>4

(* vTaskPrioritySet.                                                       *)
LEMMA PrioritySetKeeps ==
    ASSUME NEW s, Kernel(s), NEW t \in Tasks, NEW p \in Priorities
    PROVE  Keeps(s, vTaskPrioritySet(s, t, p), {})
<1> PICK base : base = s.uxBasePriority[t]
  OBVIOUS
<1> PICK bases : bases = [s.uxBasePriority EXCEPT ![t] = p]
  OBVIOUS
<1> PICK set : set = SetRank([s EXCEPT !.uxBasePriority = bases], t, p)
  OBVIOUS
<1> PICK m : m = Requeue(set, t, p)
  OBVIOUS
<1> PICK n : n = vTaskPrioritySet(s, t, p)
  OBVIOUS
<1> DEFINE woken == \/ p > base /\ t # s.pxCurrentTCB /\ p >= Current(s)
                    \/ p < base /\ t = s.pxCurrentTCB
<1>1. Lists(s) /\ Bits(s) /\ Unready(s) /\ AtWrap(s) /\ Own(s) /\ Typed(s) /\ t \in All
  BY NotIdle DEF Kernel, Lists
<1>2. base = s.uxPriority[t] /\ base \in Priorities
  BY <1>1 DEF Own, Typed
<1>3. CASE p = base
  <2>1. n = s
    BY <1>3 DEF vTaskPrioritySet
  <2> QED BY <2>1, KeepsSelf
<1>4. CASE p # base
  <2>1. n = YieldIf(m, woken)
    BY <1>2, <1>4 DEF vTaskPrioritySet
  <2>2. /\ Lists(set) /\ Bits(set) /\ Same(s, set, {"uxBasePriority", "rank"})
        /\ set.uxBasePriority = bases /\ Rdy(set) = Rdy(s) /\ Evt(set) = Evt(s)
    BY <1>1, RankSet
  <2>3. Requeued(set, m, t) /\ m.uxPriority = [set.uxPriority EXCEPT ![t] = p]
    BY <2>2, RequeuedTo
  <2>4. /\ set.uxPriority = s.uxPriority /\ set.pxCurrentTCB = s.pxCurrentTCB
        /\ set.uxSchedulerSuspended = s.uxSchedulerSuspended /\ set.pendingReady = s.pendingReady
        /\ set.ucNotifyState = s.ucNotifyState /\ set.pendSV = s.pendSV
        /\ set.xYieldPending = s.xYieldPending /\ set.delayed = s.delayed /\ set.xTickCount = s.xTickCount
    BY <2>2 DEF Same, KernelFields
  <2>5. /\ m.pxCurrentTCB = set.pxCurrentTCB /\ m.uxBasePriority = set.uxBasePriority
        /\ m.uxSchedulerSuspended = set.uxSchedulerSuspended /\ m.pendingReady = set.pendingReady
        /\ m.ucNotifyState = set.ucNotifyState /\ m.pendSV = set.pendSV
        /\ m.xYieldPending = set.xYieldPending /\ m.xTickCount = set.xTickCount
    BY <2>3 DEF Requeued, Same, MoveFields, StateFields, ReadyFields, KernelFields
  <2>6. Lists(m) /\ Bits(m) /\ Rdy(m) = Rdy(s) /\ Evt(m) = Evt(s)
    BY <2>2, <2>3 DEF Requeued
  <2>7. Unready(m)
    BY <1>1, <2>4, <2>5, <2>6 DEF Unready
  <2>8. AtWrap(m)
    <3>1. s.delayed = <<>> => \A u : ~IsIn(u, m.delayed)
      BY <2>3, <2>4, EmptyList DEF Requeued
    <3>2. m.delayed \in Seq(Tasks)
      BY <2>6 DEF Lists, WaitLists, Once
    <3> QED BY <1>1, <2>4, <2>5, <3>1, <3>2, NotEmpty DEF AtWrap
  <2>9. Own(m)
    BY <1>1, <2>2, <2>3, <2>4, <2>5 DEF Own
  <2>10. Kernel(m)
    BY <2>6, <2>7, <2>8, <2>9 DEF Kernel
  <2>11. Wakes(m, n, {})
    BY <2>1, <2>10, YieldKeeps
  <2>12. /\ \A u \in All : u # t => m.uxPriority[u] = s.uxPriority[u]
         /\ m.uxPriority[t] = p
    <3>1. m.uxPriority = [s.uxPriority EXCEPT ![t] = p] /\ s.uxPriority \in [All -> Priorities]
      BY <1>1, <2>3, <2>4 DEF Typed
    <3> QED BY ONLY <1>1, <3>1
  <2>13. Highest(s) => n.pendSV \/ Highest(m)
    <3>1. woken => n.pendSV
      <4> HIDE DEF woken
      <4>1. woken => n = [m EXCEPT !.pendSV = TRUE]
        BY <2>1 DEF YieldIf, Yield
      <4>2. Typed(m)
        BY <2>6 DEF Lists
      <4> QED BY <4>1, <4>2 DEF Typed, KernelFields
    <3>2. SUFFICES ASSUME \A u \in Rdy(s) : s.uxPriority[u] <= Current(s), ~woken
                   PROVE  \A u \in Rdy(m) : m.uxPriority[u] <= Current(m)
      BY <2>4, <2>5, <3>1 DEF Highest
    <3> TAKE u \in Rdy(m)
    <3>3. u \in All /\ u \in Rdy(s) /\ s.uxPriority[u] <= Current(s)
      BY <2>6, <3>2 DEF Rdy
    <3>4. Current(s) \in Int /\ p \in Int /\ base \in Int /\ s.uxPriority[u] \in Int
      BY <1>2, <3>3, PrioritiesAre DEF Priorities
    <3>5. s.pxCurrentTCB \in All /\ Current(s) = s.uxPriority[s.pxCurrentTCB]
          /\ Current(m) = m.uxPriority[s.pxCurrentTCB]
      BY <1>1, <2>4, <2>5 DEF Typed, Current
    <3>6. CASE t = s.pxCurrentTCB
      <4>1. Current(s) = base /\ Current(m) = p /\ ~(p < base)
        BY <1>2, <2>12, <3>2, <3>5, <3>6
      <4>2. CASE u = t
        BY <2>12, <3>4, <4>1, <4>2
      <4>3. CASE u # t
        <5>1. m.uxPriority[u] = s.uxPriority[u]
          BY <2>12, <3>3, <4>3
        <5> QED BY ONLY <3>3, <3>4, <4>1, <5>1
      <4> QED BY <4>2, <4>3
    <3>7. CASE t # s.pxCurrentTCB
      <4>1. Current(m) = Current(s)
        BY <2>12, <3>5, <3>7
      <4>2. CASE u = t
        <5>1. s.uxPriority[u] = base /\ m.uxPriority[u] = p /\ ~(p > base /\ p >= Current(s))
          BY <1>2, <2>12, <3>2, <3>7, <4>2
        <5> QED BY ONLY <3>3, <3>4, <4>1, <5>1
      <4>3. CASE u # t
        BY <2>12, <3>3, <4>1, <4>3
      <4> QED BY <4>2, <4>3
    <3> QED BY <3>6, <3>7
  <2>14. Highest(s) => Highest(n)
    <3>1. n.pendSV => Highest(n)
      BY DEF Highest
    <3> QED BY <2>11, <2>13, <3>1 DEF Wakes, Keeps
  <2>15. /\ n.pxCurrentTCB = m.pxCurrentTCB /\ n.uxSchedulerSuspended = m.uxSchedulerSuspended
         /\ Rdy(m) \subseteq Rdy(n) /\ Evt(n) \subseteq Evt(m) /\ Kernel(n)
         /\ \A u : IsIn(u, n.pendingReady) =>
                IsIn(u, m.pendingReady) \/ (m.uxSchedulerSuspended # 0 /\ (u \in Evt(m) \/ u \in {}))
         /\ \A u \in Tasks : n.ucNotifyState[u] = "waiting" => m.ucNotifyState[u] = "waiting"
    BY <2>11 DEF Wakes, Keeps
  <2> QED BY <2>4, <2>5, <2>6, <2>14, <2>15 DEF Keeps
<1> QED BY <1>3, <1>4

(* SysTick.                                                                *)
LEMMA TickKeeps ==
    ASSUME NEW s, Kernel(s), NEW r, r = xTaskIncrementTick(s)
    PROVE  Wakes(s, YieldIf(r.kernel, r.switch), {})
<1>1. /\ Ticked(s, r.kernel)
      /\ s.uxSchedulerSuspended # 0 => Same(s, r.kernel, {"xPendedTicks"}) /\ ~r.switch
      /\ s.uxSchedulerSuspended = 0 =>
             /\ s.xYieldPending => r.switch
             /\ ~r.switch => \A t \in Rdy(r.kernel) : t \in Rdy(s) \/ s.uxPriority[t] <= Current(s)
  BY TickStep
<1> PICK m : m = r.kernel
  OBVIOUS
<1> PICK switch : switch = r.switch
  OBVIOUS
<1> PICK n : n = YieldIf(m, switch)
  OBVIOUS
<1>2. /\ Kernel(m) /\ Same(s, m, TickFields) /\ Rdy(s) \subseteq Rdy(m) /\ Evt(m) \subseteq Evt(s)
      /\ \A u : IsIn(u, m.pendingReady) => IsIn(u, s.pendingReady)
  BY <1>1 DEF Ticked
<1>3. /\ m.pxCurrentTCB = s.pxCurrentTCB /\ m.uxSchedulerSuspended = s.uxSchedulerSuspended
      /\ m.ucNotifyState = s.ucNotifyState /\ m.uxPriority = s.uxPriority
      /\ m.pendSV = s.pendSV /\ m.xYieldPending = s.xYieldPending
  BY <1>2 DEF Same, TickFields, ListFields, StateFields, EventFields, ReadyFields, KernelFields
<1>4. Wakes(m, n, {})
  BY <1>2, YieldKeeps
<1>5. switch => n.pendSV
  <2>1. switch => n = [m EXCEPT !.pendSV = TRUE]
    BY DEF YieldIf, Yield
  <2>2. Typed(m)
    BY <1>2 DEF Kernel, Lists
  <2> QED BY <2>1, <2>2 DEF Typed, KernelFields
<1>6. s.uxSchedulerSuspended # 0 => Still(s, m) /\ Rdy(m) = Rdy(s)
  <2>1. s.uxSchedulerSuspended # 0 =>
            /\ m.ready = s.ready /\ m.delayed = s.delayed /\ m.overflow = s.overflow
            /\ m.suspendedTasks = s.suspendedTasks
    BY <1>1 DEF Same, KernelFields
  <2> QED BY <2>1 DEF Still, Rdy, IsReady
<1>7. Highest(s) => Highest(m) \/ n.pendSV
  <2>1. CASE s.uxSchedulerSuspended # 0
    BY <1>3, <1>6, <2>1 DEF Highest, Current
  <2>2. CASE s.uxSchedulerSuspended = 0
    BY <1>1, <1>3, <1>5, <2>2 DEF Highest, Current
  <2> QED BY <2>1, <2>2
<1>8. Highest(s) => Highest(n)
  <2>1. n.pendSV => Highest(n)
    BY DEF Highest
  <2> QED BY <1>4, <1>7, <2>1 DEF Wakes, Keeps
<1>9. /\ n.pxCurrentTCB = m.pxCurrentTCB /\ n.uxSchedulerSuspended = m.uxSchedulerSuspended
      /\ Rdy(m) \subseteq Rdy(n) /\ Evt(n) \subseteq Evt(m) /\ Kernel(n)
      /\ \A u : IsIn(u, n.pendingReady) =>
             IsIn(u, m.pendingReady) \/ (m.uxSchedulerSuspended # 0 /\ (u \in Evt(m) \/ u \in {}))
      /\ \A u \in Tasks : n.ucNotifyState[u] = "waiting" => m.ucNotifyState[u] = "waiting"
      /\ m.uxSchedulerSuspended # 0 => Still(m, n)
  BY <1>4 DEF Wakes, Keeps
<1>10. s.uxSchedulerSuspended # 0 => Still(s, n)
  BY <1>3, <1>6, <1>9 DEF Still
<1>11. Keeps(s, n, {})
  BY <1>2, <1>3, <1>8, <1>9 DEF Keeps
<1> QED BY <1>10, <1>11 DEF Wakes

----------------------------------------------------------------------------
(* The switch of context, and the start of the scheduler.                  *)

(* A set of priorities that is not empty has a highest.                    *)
LEMMA HighestOf ==
    ASSUME NEW P \in SUBSET Priorities, P # {}
    PROVE  Max(P) \in P /\ \A p \in P : p <= Max(P)
<1> DEFINE Gap == {configMAX_PRIORITIES - p : p \in P}
<1>1. configMAX_PRIORITIES \in Nat /\ \A p \in P : p \in Nat /\ p < configMAX_PRIORITIES
  BY KernelAssumption DEF Priorities
<1>2. Gap \in SUBSET Nat /\ Gap # {}
  BY <1>1
<1>3. PICK g \in Gap : \A h \in Gap : g <= h
  <2> HIDE DEF Gap
  <2> QED BY <1>2, Smallest
<1>4. PICK x \in P : g = configMAX_PRIORITIES - x
  OBVIOUS
<1>5. \A y \in P : x >= y
  <2> TAKE y \in P
  <2>1. g <= configMAX_PRIORITIES - y
    BY <1>3
  <2> QED BY <1>1, <1>4, <2>1
<1>6. Max(P) \in P /\ \A y \in P : Max(P) >= y
  BY <1>5 DEF Max
<1> QED BY <1>1, <1>6

(* xPortPendSVHandler: the next of the highest ready tasks runs.           *)
Switched(s, n) ==
    /\ Kernel(n) /\ Same(s, n, {"pendSV", "xYieldPending", "ready", "pxCurrentTCB"})
    /\ Rdy(n) = Rdy(s) /\ Evt(n) = Evt(s)
    /\ n.pxCurrentTCB \in Rdy(n) /\ Highest(n)

(* taskSELECT_HIGHEST_PRIORITY_TASK finds a highest ready task.            *)
LEMMA SelectedHighest ==
    ASSUME NEW s, Kernel(s)
    PROVE  LET n == SelectHighest(s)
           IN /\ Kernel(n) /\ Same(s, n, {"ready", "pxCurrentTCB"})
              /\ Rdy(n) = Rdy(s) /\ Evt(n) = Evt(s)
              /\ n.pxCurrentTCB \in Rdy(n)
              /\ \A t \in Rdy(n) : n.uxPriority[t] <= n.uxPriority[n.pxCurrentTCB]
<1> PICK p : p = Max(s.uxTopReadyPriority)
  OBVIOUS
<1> PICK ring : ring = NextEntry(s.ready[p])
  OBVIOUS
<1> PICK n : n = SelectHighest(s)
  OBVIOUS
<1>1. /\ Typed(s) /\ ReadyLists(s) /\ WaitLists(s) /\ Apart(s) /\ Events(s) /\ Times(s)
      /\ Bits(s) /\ Unready(s) /\ AtWrap(s) /\ Own(s)
  BY DEF Kernel, Lists
<1>2. /\ p \in Priorities /\ (\E u \in All : IsIn(u, s.ready[p]))
      /\ \A r \in Priorities : \A u \in All : IsIn(u, s.ready[r]) => r <= p
  <2>1. s.uxTopReadyPriority \in SUBSET Priorities
    BY <1>1 DEF Bits
  <2>2. Idle \in All /\ \E r \in Priorities : IsIn(Idle, s.ready[r])
    BY <1>1 DEF ReadyLists, Rdy, IsReady, All
  <2>3. s.uxTopReadyPriority # {}
    BY <1>1, <2>2 DEF Bits
  <2>4. p \in s.uxTopReadyPriority /\ \A r \in s.uxTopReadyPriority : r <= p
    BY <2>1, <2>3, HighestOf
  <2> QED BY <1>1, <2>4 DEF Bits
<1>3. Marked(s.ready[p]) /\ End \notin All
  BY <1>1, <1>2, KernelAssumption DEF ReadyLists
<1>4. Length(s.ready[p]) # 0
  BY <1>2, <1>3, LengthOfRing DEF Marked
<1>5. /\ Once(ring, All \cup {End}) /\ \A y : IsIn(y, ring) <=> IsIn(y, s.ready[p])
      /\ Last(ring) # End /\ IsIn(Last(ring), ring)
  BY <1>3, <1>4, NextOfRing DEF Marked
<1>6. Last(ring) \in All
  BY <1>5, ElementOfSeq DEF Once, IsIn, ToSet
<1> PICK rings : rings = [s.ready EXCEPT ![p] = ring]
  OBVIOUS
<1> PICK cur : cur = Last(ring)
  OBVIOUS
<1>7. n = [s EXCEPT !.ready = rings, !.pxCurrentTCB = cur]
  BY <1>4 DEF SelectHighest
<1>8. /\ Same(s, n, {"ready", "pxCurrentTCB"}) /\ n.ready = rings /\ n.pxCurrentTCB = cur
  BY <1>1, <1>7 DEF Typed, Same, KernelFields
<1>9. /\ DOMAIN rings = Priorities /\ rings[p] = ring /\ \A r \in Priorities : r # p => rings[r] = s.ready[r]
  BY <1>1, <1>2 DEF ReadyLists
<1>10. \A r \in Priorities : \A y : IsIn(y, rings[r]) <=> IsIn(y, s.ready[r])
  BY <1>5, <1>9
<1>11. /\ n.delayed = s.delayed /\ n.overflow = s.overflow
       /\ n.suspendedTasks = s.suspendedTasks /\ n.tasksWaitingTermination = s.tasksWaitingTermination
       /\ n.events = s.events /\ n.pendingReady = s.pendingReady /\ n.uxTopReadyPriority = s.uxTopReadyPriority
       /\ n.wake = s.wake /\ n.xNextTaskUnblockTime = s.xNextTaskUnblockTime
       /\ n.xTickCount = s.xTickCount /\ n.xPendedTicks = s.xPendedTicks
       /\ n.uxSchedulerSuspended = s.uxSchedulerSuspended /\ n.uxPriority = s.uxPriority
       /\ n.uxBasePriority = s.uxBasePriority /\ n.rank = s.rank /\ n.ucNotifyState = s.ucNotifyState
       /\ n.xYieldPending = s.xYieldPending /\ n.pendSV = s.pendSV /\ n.halted = s.halted
       /\ n = [f \in KernelFields |-> n[f]]
  BY <1>8 DEF Same, KernelFields
<1>12. Rdy(n) = Rdy(s) /\ Evt(n) = Evt(s)
  BY <1>8, <1>10, <1>11 DEF Rdy, Evt, IsReady
<1>13. Typed(n)
  BY <1>1, <1>6, <1>8, <1>11 DEF Typed
<1>14. ReadyLists(n)
  <2>1. \A r \in Priorities : Marked(rings[r])
    BY <1>1, <1>3, <1>5, <1>9 DEF ReadyLists, Marked
  <2> QED BY <1>1, <1>8, <1>9, <1>10, <1>11, <1>12, <2>1 DEF ReadyLists
<1>15. WaitLists(n) /\ Times(n) /\ AtWrap(n) /\ Own(n)
  BY <1>1, <1>11 DEF WaitLists, Times, AtWrap, Own
<1>16. Apart(n) /\ Unready(n)
  BY <1>1, <1>11, <1>12 DEF Apart, Unready
<1>17. Events(n)
  BY <1>1, <1>11 DEF Events
<1>18. Bits(n)
  BY <1>1, <1>8, <1>10, <1>11 DEF Bits
<1>19. Kernel(n)
  BY <1>13, <1>14, <1>15, <1>16, <1>17, <1>18 DEF Kernel, Lists
<1>20. n.pxCurrentTCB \in Rdy(n) /\ s.uxPriority[cur] = p
  BY <1>1, <1>2, <1>5, <1>6, <1>8, <1>12 DEF Rdy, IsReady, ReadyLists
<1>21. \A t \in Rdy(n) : n.uxPriority[t] <= n.uxPriority[n.pxCurrentTCB]
  <2> TAKE t \in Rdy(n)
  <2>1. t \in All /\ \E r \in Priorities : IsIn(t, s.ready[r]) /\ s.uxPriority[t] = r
    BY <1>1, <1>12 DEF Rdy, IsReady, ReadyLists
  <2> QED BY <1>2, <1>8, <1>11, <1>20, <2>1
<1> QED BY <1>8, <1>12, <1>19, <1>20, <1>21

(* vTaskSwitchContext switches, or notes that it could not.                *)
LEMMA SwitchedContext ==
    ASSUME NEW s, Kernel(s), NEW n, n = vTaskSwitchContext([s EXCEPT !.pendSV = FALSE])
    PROVE  /\ s.uxSchedulerSuspended = 0 => Switched(s, n)
           /\ s.uxSchedulerSuspended # 0 =>
                  /\ Kernel(n) /\ Same(s, n, YieldFields) /\ Rdy(n) = Rdy(s) /\ Evt(n) = Evt(s)
                  /\ Highest(n)
<1> PICK off : off = [s EXCEPT !.pendSV = FALSE]
  OBVIOUS
<1>1. Typed(s)
  BY DEF Kernel, Lists
<1>2. CASE s.uxSchedulerSuspended # 0
  <2>1. n = [s EXCEPT !.pendSV = FALSE, !.xYieldPending = TRUE]
    <3>1. off.uxSchedulerSuspended = s.uxSchedulerSuspended
      BY <1>1 DEF Typed, KernelFields
    <3>2. n = [off EXCEPT !.xYieldPending = TRUE]
      BY <1>2, <3>1 DEF vTaskSwitchContext
    <3> QED BY <3>2
  <2>2. Same(s, n, YieldFields) /\ n.xYieldPending = TRUE /\ n.pendSV = FALSE
    BY <1>1, <2>1 DEF Typed, Same, YieldFields, KernelFields
  <2>3. /\ n.xPendedTicks = s.xPendedTicks /\ n.uxSchedulerSuspended = s.uxSchedulerSuspended
        /\ n.ucNotifyState = s.ucNotifyState
    BY <2>2 DEF Same, YieldFields, KernelFields
  <2>4. Typed(n)
    <3>1. Same(s, n, ListFields \cup FreeFields)
      BY <2>2, SameMore DEF FreeFields
    <3>2. /\ n.xYieldPending \in BOOLEAN /\ n.pendSV \in BOOLEAN
          /\ n.xPendedTicks \in Nat /\ n.uxSchedulerSuspended \in Nat /\ n.ucNotifyState \in [All -> States]
      BY <1>1, <2>2, <2>3 DEF Typed, States
    <3> QED BY <1>1, <3>1, <3>2, TypedFrame
  <2>5. Same(s, n, FreeFields)
    BY <2>2, SameMore DEF FreeFields
  <2>6. Kernel(n) /\ Rdy(n) = Rdy(s) /\ Evt(n) = Evt(s)
    BY <2>4, <2>5, SameKernel
  <2> QED BY <1>2, <2>2, <2>6 DEF Highest
<1>3. CASE s.uxSchedulerSuspended = 0
  <2> PICK m : m = [s EXCEPT !.pendSV = FALSE, !.xYieldPending = FALSE]
    OBVIOUS
  <2>1. n = SelectHighest(m)
    <3>1. off.uxSchedulerSuspended = s.uxSchedulerSuspended
      BY <1>1 DEF Typed, KernelFields
    <3>2. m = [off EXCEPT !.xYieldPending = FALSE]
      OBVIOUS
    <3> QED BY <1>3, <3>1, <3>2 DEF vTaskSwitchContext
  <2>2. Same(s, m, YieldFields) /\ m.xYieldPending = FALSE /\ m.pendSV = FALSE
    BY <1>1 DEF Typed, Same, YieldFields, KernelFields
  <2>3. /\ m.xPendedTicks = s.xPendedTicks /\ m.uxSchedulerSuspended = s.uxSchedulerSuspended
        /\ m.ucNotifyState = s.ucNotifyState
    BY <2>2 DEF Same, YieldFields, KernelFields
  <2>4. Typed(m)
    <3>1. Same(s, m, ListFields \cup FreeFields)
      BY <2>2, SameMore DEF FreeFields
    <3>2. /\ m.xYieldPending \in BOOLEAN /\ m.pendSV \in BOOLEAN
          /\ m.xPendedTicks \in Nat /\ m.uxSchedulerSuspended \in Nat /\ m.ucNotifyState \in [All -> States]
      BY <1>1, <2>2, <2>3 DEF Typed, States
    <3> QED BY <1>1, <3>1, <3>2, TypedFrame
  <2>5. Same(s, m, FreeFields)
    BY <2>2, SameMore DEF FreeFields
  <2>6. Kernel(m) /\ Rdy(m) = Rdy(s) /\ Evt(m) = Evt(s)
    BY <2>4, <2>5, SameKernel
  <2>7. /\ Kernel(n) /\ Same(m, n, {"ready", "pxCurrentTCB"})
        /\ Rdy(n) = Rdy(m) /\ Evt(n) = Evt(m)
        /\ n.pxCurrentTCB \in Rdy(n)
        /\ \A t \in Rdy(n) : n.uxPriority[t] <= n.uxPriority[n.pxCurrentTCB]
    BY <2>1, <2>6, SelectedHighest
  <2>8. Same(s, n, {"pendSV", "xYieldPending", "ready", "pxCurrentTCB"})
    BY <2>2, <2>7, SameBoth DEF YieldFields
  <2>9. Highest(n)
    BY <2>7 DEF Highest, Current
  <2> QED BY <1>3, <2>6, <2>7, <2>8, <2>9 DEF Switched
<1> QED BY <1>2, <1>3

(* vTaskSuspendAll.                                                        *)
LEMMA AllSuspended ==
    ASSUME NEW s, Kernel(s)
    PROVE  LET n == vTaskSuspendAll(s)
           IN /\ Kernel(n) /\ Same(s, n, {"uxSchedulerSuspended"})
              /\ n.uxSchedulerSuspended = s.uxSchedulerSuspended + 1
              /\ Rdy(n) = Rdy(s) /\ Evt(n) = Evt(s) /\ (Highest(s) => Highest(n))
<1> PICK n : n = vTaskSuspendAll(s)
  OBVIOUS
<1>1. Typed(s)
  BY DEF Kernel, Lists
<1>2. Same(s, n, {"uxSchedulerSuspended"}) /\ n.uxSchedulerSuspended = s.uxSchedulerSuspended + 1
  BY <1>1 DEF vTaskSuspendAll, Typed, Same, KernelFields
<1>3. /\ n.xPendedTicks = s.xPendedTicks /\ n.xYieldPending = s.xYieldPending /\ n.pendSV = s.pendSV
      /\ n.ucNotifyState = s.ucNotifyState /\ n.uxPriority = s.uxPriority /\ n.pxCurrentTCB = s.pxCurrentTCB
  BY <1>2 DEF Same, KernelFields
<1>4. Typed(n)
  <2>1. Same(s, n, ListFields \cup FreeFields)
    BY <1>2, SameMore DEF FreeFields
  <2>2. /\ n.xYieldPending \in BOOLEAN /\ n.pendSV \in BOOLEAN
        /\ n.xPendedTicks \in Nat /\ n.uxSchedulerSuspended \in Nat /\ n.ucNotifyState \in [All -> States]
    BY <1>1, <1>2, <1>3 DEF Typed, States
  <2> QED BY <1>1, <2>1, <2>2, TypedFrame
<1>5. Same(s, n, FreeFields)
  BY <1>2, SameMore DEF FreeFields
<1>6. Kernel(n) /\ Rdy(n) = Rdy(s) /\ Evt(n) = Evt(s)
  BY <1>4, <1>5, SameKernel
<1>7. Highest(s) => Highest(n)
  BY <1>3, <1>6, HighestFewer
<1> QED BY <1>2, <1>6, <1>7

(* xTaskCatchUpTicks.                                                      *)
LEMMA CatchUpKeeps ==
    ASSUME NEW s, Kernel(s), NEW ticksToCatchUp \in Nat
    PROVE  LET n == [s EXCEPT !.xPendedTicks = @ + ticksToCatchUp]
           IN Wakes(s, n, {}) /\ Rdy(n) = Rdy(s) /\ Evt(n) = Evt(s)
<1> PICK n : n = [s EXCEPT !.xPendedTicks = @ + ticksToCatchUp]
  OBVIOUS
<1>1. Typed(s)
  BY DEF Kernel, Lists
<1>2. Same(s, n, {"xPendedTicks"}) /\ n.xPendedTicks = s.xPendedTicks + ticksToCatchUp
  BY <1>1 DEF Typed, Same, KernelFields
<1>3. /\ n.uxSchedulerSuspended = s.uxSchedulerSuspended /\ n.xYieldPending = s.xYieldPending
      /\ n.pendSV = s.pendSV /\ n.ucNotifyState = s.ucNotifyState
  BY <1>2 DEF Same, KernelFields
<1>4. Typed(n)
  <2>1. Same(s, n, ListFields \cup FreeFields)
    BY <1>2, SameMore DEF FreeFields
  <2>2. /\ n.xYieldPending \in BOOLEAN /\ n.pendSV \in BOOLEAN
        /\ n.xPendedTicks \in Nat /\ n.uxSchedulerSuspended \in Nat /\ n.ucNotifyState \in [All -> States]
    BY <1>1, <1>2, <1>3 DEF Typed, States
  <2> QED BY <1>1, <2>1, <2>2, TypedFrame
<1>5. Same(s, n, FreeFields \cup {"rank"})
  BY <1>2, SameMore DEF FreeFields
<1> QED BY <1>3, <1>4, <1>5, FreeKeeps

(* The kernel while main() creates its tasks: those of R are ready.        *)
Unused(n, firstTick) ==
    /\ n.xTickCount = firstTick /\ n.xNextTaskUnblockTime = portMAX_DELAY
    /\ n.xPendedTicks = 0 /\ n.uxSchedulerSuspended = 0 /\ n.xYieldPending = FALSE /\ n.pendSV = FALSE
    /\ n.delayed = <<>> /\ n.overflow = <<>> /\ n.suspendedTasks = <<>> /\ n.pendingReady = <<>>
    /\ n.tasksWaitingTermination = <<>> /\ n.events = [e \in EventLists |-> <<>>] /\ n.halted = "no"

(* The tasks, and which of them are ready: those of R, all made.           *)
TasksOf(n) ==
    /\ n.uxPriority \in [All -> Priorities] /\ n.uxBasePriority = n.uxPriority
    /\ n.rank \in [All -> Int] /\ n.wake \in [All -> TickType] /\ n.ucNotifyState \in [All -> {"none"}]

ReadyOnly(n, R) ==
    /\ DOMAIN n.ready = Priorities
    /\ \A p \in Priorities : /\ Marked(n.ready[p])
                             /\ \A t \in All : IsIn(t, n.ready[p]) => t \in R /\ n.uxPriority[t] = p
    /\ \A t \in R : IsIn(t, n.ready[n.uxPriority[t]])

(* The highest of them is the first to run.                                *)
Chosen(n, R) ==
    /\ n.pxCurrentTCB \in All
    /\ R = {} => n.uxCurrentNumberOfTasks = 0
    /\ R # {} => n.uxCurrentNumberOfTasks # 0 /\ n.pxCurrentTCB \in R /\ \A t \in R : n.uxPriority[t] <= Current(n)

(* The kernel once the tasks of R are made.                                *)
Made(n, R, firstTick) ==
    /\ n = [f \in KernelFields |-> n[f]] /\ Unused(n, firstTick) /\ TasksOf(n)
    /\ ReadyOnly(n, R) /\ Bits(n) /\ Chosen(n, R) /\ n.uxCurrentNumberOfTasks \in Nat

(* The lists as prvInitialiseTaskLists leaves them.                        *)
LEMMA NoneMade ==
    ASSUME NEW firstTick
    PROVE  Made(NoKernel(firstTick), {}, firstTick)
<1> PICK n : n = NoKernel(firstTick)
  OBVIOUS
<1>1. /\ n = [f \in KernelFields |-> n[f]]
      /\ n.ready = [p \in Priorities |-> <<End>>] /\ n.uxTopReadyPriority = {}
      /\ n.pxCurrentTCB = Idle /\ n.uxCurrentNumberOfTasks = 0
      /\ n.uxPriority = [t \in All |-> 0] /\ n.uxBasePriority = [t \in All |-> 0]
      /\ n.rank = [t \in All |-> 0] /\ n.wake = [t \in All |-> 0]
      /\ n.ucNotifyState = [t \in All |-> "none"]
  BY DEF NoKernel, KernelFields
<1>2. Unused(n, firstTick)
  BY DEF NoKernel, Unused
<1>3. 0 \in Priorities /\ 0 \in TickType /\ Idle \in All /\ End \notin All
  BY KernelAssumption DEF Priorities, TickType, All
<1>4. TasksOf(n)
  BY <1>1, <1>3 DEF TasksOf
<1>5. /\ <<End>> \in Seq(All \cup {End}) /\ \A y : IsIn(y, <<End>>) <=> y = End
      /\ Once(<<End>>, All \cup {End})
  BY DEF IsIn, ToSet, Once
<1>6. ReadyOnly(n, {})
  BY <1>1, <1>3, <1>5 DEF ReadyOnly, Marked
<1>7. Bits(n)
  BY <1>1, <1>3, <1>5 DEF Bits
<1>8. Chosen(n, {})
  BY <1>1, <1>3 DEF Chosen
<1> QED BY <1>1, <1>2, <1>4, <1>6, <1>7, <1>8 DEF Made

(* xTaskCreate before the scheduler starts.                                *)
LEMMA OneMade ==
    ASSUME NEW s, NEW R \in SUBSET All, NEW firstTick, Made(s, R, firstTick),
           NEW t \in All, t \notin R, NEW p \in Priorities
    PROVE  Made(Create(s, t, p), R \cup {t}, firstTick)
<1> PICK n : n = Create(s, t, p)
  OBVIOUS
<1> PICK m : m = prvInitialiseNewTask(s, t, p)
  OBVIOUS
<1> PICK c : c = [m EXCEPT !.uxCurrentNumberOfTasks = @ + 1]
  OBVIOUS
<1> PICK a : a = prvAddTaskToReadyList(c, t)
  OBVIOUS
<1> PICK cur : cur = IF s.uxCurrentNumberOfTasks = 0 \/ Current(s) <= p THEN t ELSE a.pxCurrentTCB
  OBVIOUS
<1>1. n = [a EXCEPT !.pxCurrentTCB = cur]
  BY DEF Create, prvAddNewTaskToReadyList
<1>2. /\ s = [f \in KernelFields |-> s[f]] /\ Unused(s, firstTick) /\ TasksOf(s)
      /\ ReadyOnly(s, R) /\ Bits(s) /\ Chosen(s, R) /\ s.uxCurrentNumberOfTasks \in Nat
  BY DEF Made
<1> PICK pri : pri = [s.uxPriority EXCEPT ![t] = p]
  OBVIOUS
<1> PICK bases : bases = [s.uxBasePriority EXCEPT ![t] = p]
  OBVIOUS
<1> PICK ranks : ranks = [s.rank EXCEPT ![t] = Rank(p)]
  OBVIOUS
<1> PICK items : items = [s.item EXCEPT ![t] = NotInUse]
  OBVIOUS
<1> PICK wakes : wakes = [s.wake EXCEPT ![t] = 0]
  OBVIOUS
<1> PICK held : held = [s.uxMutexesHeld EXCEPT ![t] = 0]
  OBVIOUS
<1> PICK states : states = [s.ucNotifyState EXCEPT ![t] = "none"]
  OBVIOUS
<1> PICK values : values = [s.ulNotifiedValue EXCEPT ![t] = 0]
  OBVIOUS
<1> PICK aborts : aborts = [s.ucDelayAborted EXCEPT ![t] = FALSE]
  OBVIOUS
<1>3. m = [s EXCEPT !.uxPriority = pri, !.uxBasePriority = bases, !.rank = ranks, !.item = items,
                    !.wake = wakes, !.uxMutexesHeld = held, !.ucNotifyState = states,
                    !.ulNotifiedValue = values, !.ucDelayAborted = aborts]
  <2>1. p < configMAX_PRIORITIES
    BY KernelAssumption DEF Priorities
  <2>2. configASSERT(s, p < configMAX_PRIORITIES, "priority") = s
    BY <2>1 DEF configASSERT
  <2> QED BY ZenonT(60), <2>2 DEF prvInitialiseNewTask
<1> DEFINE TCB == {"uxPriority", "uxBasePriority", "rank", "item", "wake", "uxMutexesHeld", "ucNotifyState",
                   "ulNotifiedValue", "ucDelayAborted"}
<1>4. Same(s, m, TCB) /\ m.uxPriority = pri /\ m.uxBasePriority = bases /\ m.rank = ranks
      /\ m.wake = wakes /\ m.ucNotifyState = states
  BY <1>2, <1>3 DEF Same, KernelFields
<1>5. Same(m, c, {"uxCurrentNumberOfTasks"}) /\ c.uxCurrentNumberOfTasks = m.uxCurrentNumberOfTasks + 1
  BY <1>4 DEF Same, KernelFields
<1>6. /\ c.uxPriority = pri /\ c.uxBasePriority = bases /\ c.rank = ranks
      /\ c.wake = wakes /\ c.ucNotifyState = states
      /\ c.uxCurrentNumberOfTasks = s.uxCurrentNumberOfTasks + 1
      /\ c.pxCurrentTCB = s.pxCurrentTCB /\ c.ready = s.ready /\ c.uxTopReadyPriority = s.uxTopReadyPriority
      /\ c = [f \in KernelFields |-> c[f]]
  BY <1>4, <1>5 DEF Same, KernelFields
<1>7. pri \in [All -> Priorities] /\ pri[t] = p /\ \A u \in All : u # t => pri[u] = s.uxPriority[u]
  BY <1>2 DEF TasksOf
<1> PICK rings : rings = [s.ready EXCEPT ![p] = InsertEnd(@, t)]
  OBVIOUS
<1>8. a = [c EXCEPT !.uxTopReadyPriority = s.uxTopReadyPriority \cup {p}, !.ready = rings]
  <2>1. c.uxPriority[t] = p
    BY <1>6, <1>7
  <2>2. a = [c EXCEPT !.uxTopReadyPriority = @ \cup {p}, !.ready[p] = InsertEnd(@, t)]
    BY <2>1 DEF prvAddTaskToReadyList
  <2>3. a = [c EXCEPT !.uxTopReadyPriority = c.uxTopReadyPriority \cup {p}, !.ready = [c.ready EXCEPT ![p] = InsertEnd(@, t)]]
    BY <2>2
  <2>4. [c.ready EXCEPT ![p] = InsertEnd(@, t)] = rings
    BY <1>6
  <2> QED BY ONLY <1>6, <2>3, <2>4
<1>9. /\ Same(c, a, {"uxTopReadyPriority", "ready"}) /\ a.ready = rings
      /\ a.uxTopReadyPriority = s.uxTopReadyPriority \cup {p}
  BY ONLY <1>6, <1>8 DEF Same, KernelFields
<1>10. /\ Same(a, n, {"pxCurrentTCB"}) /\ n.pxCurrentTCB = cur
  BY ONLY <1>1, <1>9 DEF Same, KernelFields
<1>11. /\ n.uxPriority = pri /\ n.uxBasePriority = bases /\ n.rank = ranks
       /\ n.wake = wakes /\ n.ucNotifyState = states
       /\ n.uxCurrentNumberOfTasks = s.uxCurrentNumberOfTasks + 1
       /\ a.pxCurrentTCB = s.pxCurrentTCB /\ n.ready = rings
       /\ n.uxTopReadyPriority = s.uxTopReadyPriority \cup {p}
       /\ n = [f \in KernelFields |-> n[f]]
  <2>1. /\ a.uxPriority = pri /\ a.uxBasePriority = bases /\ a.rank = ranks
        /\ a.wake = wakes /\ a.ucNotifyState = states
        /\ a.uxCurrentNumberOfTasks = s.uxCurrentNumberOfTasks + 1
        /\ a.pxCurrentTCB = s.pxCurrentTCB
    BY ONLY <1>6, <1>9 DEF Same, KernelFields
  <2> QED BY <1>9, <1>10, <2>1 DEF Same, KernelFields
<1>12. Unused(n, firstTick)
  <2>1. Same(s, n, TCB \cup {"uxCurrentNumberOfTasks", "uxTopReadyPriority", "ready", "pxCurrentTCB"})
    <3> HIDE DEF TCB
    <3>1. Same(s, c, TCB \cup {"uxCurrentNumberOfTasks"})
      BY <1>4, <1>5, SameBoth
    <3>2. Same(c, n, {"uxTopReadyPriority", "ready", "pxCurrentTCB"})
      BY <1>9, <1>10, SameBoth
    <3> QED BY <3>1, <3>2, SameBoth
  <2>2. /\ n.xTickCount = s.xTickCount /\ n.xNextTaskUnblockTime = s.xNextTaskUnblockTime
        /\ n.xPendedTicks = s.xPendedTicks /\ n.uxSchedulerSuspended = s.uxSchedulerSuspended
        /\ n.xYieldPending = s.xYieldPending /\ n.pendSV = s.pendSV /\ n.delayed = s.delayed
        /\ n.overflow = s.overflow /\ n.suspendedTasks = s.suspendedTasks /\ n.pendingReady = s.pendingReady
        /\ n.tasksWaitingTermination = s.tasksWaitingTermination /\ n.events = s.events /\ n.halted = s.halted
    BY <2>1 DEF Same, KernelFields
  <2> QED BY <1>2, <2>2 DEF Unused
<1>13. TasksOf(n)
  <2>1. bases = pri
    BY <1>2 DEF TasksOf
  <2>2. Rank(p) \in Int /\ 0 \in TickType
    BY KernelAssumption DEF Rank, Priorities, TickType
  <2>3. ranks \in [All -> Int] /\ wakes \in [All -> TickType] /\ states \in [All -> {"none"}]
    BY <1>2, <2>2 DEF TasksOf
  <2> QED BY <1>7, <1>11, <2>1, <2>3 DEF TasksOf
<1>14. /\ DOMAIN s.ready = Priorities /\ (\A q \in Priorities : Marked(s.ready[q]))
       /\ \A q \in Priorities : \A u \in All : IsIn(u, s.ready[q]) => u \in R /\ s.uxPriority[u] = q
       /\ \A u \in R : IsIn(u, s.ready[s.uxPriority[u]])
  BY <1>2 DEF ReadyOnly
<1>15. /\ Once(rings[p], All \cup {End})
       /\ \A u : IsIn(u, rings[p]) <=> u = t \/ IsIn(u, s.ready[p])
  <2>1. rings[p] = InsertEnd(s.ready[p], t)
    BY <1>14
  <2>2. Marked(s.ready[p]) /\ ~IsIn(t, s.ready[p])
    BY <1>14
  <2>3. Marked(s.ready[p]) /\ t \in All /\ ~IsIn(t, s.ready[p])
    BY <2>2
  <2>4. /\ Once(InsertEnd(s.ready[p], t), All \cup {End})
        /\ \A u : IsIn(u, InsertEnd(s.ready[p], t)) <=> u = t \/ IsIn(u, s.ready[p])
    BY ONLY <2>3, RingEnd
  <2> QED BY ONLY <2>1, <2>4
<1>16. DOMAIN rings = Priorities /\ \A q \in Priorities \ {p} : rings[q] = s.ready[q]
  BY <1>14
<1>17. \A q \in Priorities : \A u : IsIn(u, rings[q]) <=> (u = t /\ q = p) \/ IsIn(u, s.ready[q])
  BY <1>15, <1>16
<1>18. ReadyOnly(n, R \cup {t})
  <2>1. \A q \in Priorities : Marked(rings[q])
    BY <1>14, <1>15, <1>16 DEF Marked
  <2>2. \A q \in Priorities : \A u \in All : IsIn(u, rings[q]) => u \in R \cup {t} /\ pri[u] = q
    <3> TAKE q \in Priorities
    <3> TAKE u \in All
    <3>1. IsIn(u, rings[q]) => (u = t /\ q = p) \/ IsIn(u, s.ready[q])
      BY <1>17
    <3>2. IsIn(u, s.ready[q]) => u \in R /\ u # t /\ s.uxPriority[u] = q
      BY <1>14
    <3> QED BY <1>7, <3>1, <3>2
  <2>3. \A u \in R \cup {t} : IsIn(u, rings[pri[u]])
    <3> TAKE u \in R \cup {t}
    <3>1. CASE u = t
      BY <1>7, <1>17, <3>1
    <3>2. CASE u # t
      <4>1. u \in All /\ pri[u] = s.uxPriority[u] /\ s.uxPriority[u] \in Priorities
        BY <1>2, <1>7, <3>2 DEF TasksOf
      <4> QED BY <1>14, <1>17, <3>2, <4>1
    <3> QED BY <3>1, <3>2
  <2> QED BY <1>11, <1>16, <2>1, <2>2, <2>3 DEF ReadyOnly
<1>19. Bits(n)
  <2>1. s.uxTopReadyPriority = {q \in Priorities : \E u \in All : IsIn(u, s.ready[q])}
    BY <1>2 DEF Bits
  <2>2. \A q \in Priorities : (\E u \in All : IsIn(u, rings[q])) <=> q = p \/ \E u \in All : IsIn(u, s.ready[q])
    BY <1>17
  <2>3. s.uxTopReadyPriority \cup {p} = {q \in Priorities : \E u \in All : IsIn(u, rings[q])}
    BY <2>1, <2>2
  <2> QED BY <1>11, <2>3 DEF Bits
<1>20. n.uxCurrentNumberOfTasks \in Nat /\ n.uxCurrentNumberOfTasks # 0
  BY <1>2, <1>11
<1>21. Chosen(n, R \cup {t})
  <2>1. \A u \in All : s.uxPriority[u] \in Int /\ pri[u] \in Int
    BY <1>2, <1>7, KernelAssumption DEF TasksOf, Priorities
  <2>2. CASE R = {}
    <3>1. cur = t
      BY <1>2, <2>2 DEF Chosen
    <3>2. Current(n) = pri[t] /\ \A u \in R \cup {t} : pri[u] = pri[t]
      BY <1>10, <1>11, <1>20, <2>2, <3>1 DEF Current
    <3> QED BY <1>10, <1>11, <1>20, <2>1, <3>1, <3>2 DEF Chosen
  <2>3. CASE R # {}
    <3>1. /\ s.pxCurrentTCB \in R /\ s.pxCurrentTCB # t /\ Current(s) = s.uxPriority[s.pxCurrentTCB]
          /\ \A u \in R : s.uxPriority[u] <= Current(s)
      BY <1>2, <2>3 DEF Chosen, Current
    <3>2. cur \in R \cup {t} /\ Current(n) = pri[cur]
      BY <1>10, <1>11, <1>20, <3>1 DEF Current
    <3>3. \A u \in R \cup {t} : pri[u] <= pri[cur]
      <4>1. CASE Current(s) <= p
        <5>1. cur = t
          BY <4>1
        <5>2. \A u \in R : pri[u] <= p
          BY <1>7, <2>1, <3>1, <4>1
        <5> QED BY <1>7, <2>1, <5>1, <5>2
      <4>2. CASE ~(Current(s) <= p)
        <5>1. cur = s.pxCurrentTCB \/ cur = t
          BY <1>11
        <5>2. CASE cur = s.pxCurrentTCB
          <6>1. pri[cur] = Current(s) /\ pri[t] = p /\ p \in Int /\ Current(s) \in Int
            BY <1>7, <2>1, <3>1, <5>2
          <6> QED BY <1>7, <2>1, <3>1, <4>2, <6>1
        <5>3. CASE cur = t
          <6>1. s.uxCurrentNumberOfTasks = 0
            BY <1>11, <3>1, <4>2, <5>3
          <6>2. s.uxCurrentNumberOfTasks # 0
            BY <1>2, <2>3 DEF Chosen
          <6> QED BY <6>1, <6>2
        <5> QED BY <5>1, <5>2, <5>3
      <4> QED BY <4>1, <4>2
    <3>4. cur \in All
      BY <3>2
    <3> QED BY <1>10, <1>11, <1>20, <3>2, <3>3, <3>4 DEF Chosen
  <2> QED BY <2>2, <2>3
<1> QED BY <1>11, <1>12, <1>13, <1>18, <1>19, <1>20, <1>21 DEF Made

(* The kernel when the scheduler starts.                                   *)
Fresh(n) ==
    /\ Kernel(n) /\ n.pxCurrentTCB \in Rdy(n) /\ n.uxSchedulerSuspended = 0 /\ n.pendingReady = <<>>
    /\ Evt(n) = {} /\ (\A t \in All : n.ucNotifyState[t] = "none") /\ Highest(n)

(* The kernel as the scheduler starts.                                     *)
LEMMA MadeIsFresh ==
    ASSUME NEW n, NEW R \in SUBSET All, Idle \in R, NEW firstTick \in TickType, Made(n, R, firstTick)
    PROVE  Fresh(n)
<1>1. /\ n = [f \in KernelFields |-> n[f]] /\ Unused(n, firstTick) /\ TasksOf(n)
      /\ ReadyOnly(n, R) /\ Bits(n) /\ Chosen(n, R)
  BY DEF Made
<1>2. portMAX_DELAY \in TickType /\ {"none"} \subseteq States
  BY KernelAssumption DEF TickType, States
<1>3. \A y : ~IsIn(y, <<>>)
  BY EmptyList
<1>4. Rdy(n) = R
  BY <1>1 DEF Rdy, IsReady, ReadyOnly, TasksOf
<1>5. Evt(n) = {}
  BY <1>1, <1>3 DEF Evt, Unused
<1>6. Typed(n)
  <2>1. n.ucNotifyState \in [All -> {"none", "waiting", "received"}]
    BY <1>1 DEF TasksOf
  <2>2. n.pxCurrentTCB \in All
    BY <1>1 DEF Chosen
  <2>3. n.uxBasePriority \in [All -> Priorities] /\ n.uxPriority \in [All -> Priorities] /\ n.rank \in [All -> Int] /\ n.wake \in [All -> TickType]
    BY <1>1 DEF TasksOf
  <2>4. /\ n.xTickCount = firstTick /\ n.xNextTaskUnblockTime = portMAX_DELAY
        /\ n.xPendedTicks = 0 /\ n.uxSchedulerSuspended = 0 /\ n.xYieldPending = FALSE /\ n.pendSV = FALSE
        /\ n.halted = "no"
    BY <1>1 DEF Unused
  <2>5. n = [f \in KernelFields |-> n[f]]
    BY <1>1
  <2>6. n.xTickCount \in TickType /\ n.xNextTaskUnblockTime \in TickType /\ n.xPendedTicks \in Nat
        /\ n.uxSchedulerSuspended \in Nat
    BY <1>2, <2>4
  <2>7. n.xYieldPending \in BOOLEAN /\ n.pendSV \in BOOLEAN
    BY <2>4
  <2> QED BY ONLY <2>1, <2>2, <2>3, <2>4, <2>5, <2>6, <2>7 DEF Typed
<1>7. ReadyLists(n)
  BY <1>1, <1>4 DEF ReadyLists, ReadyOnly
<1>8. Once(<<>>, Tasks)
  BY DEF Once
<1>9. WaitLists(n) /\ Apart(n)
  BY <1>1, <1>3, <1>8 DEF WaitLists, Apart, Unused
<1>10. Events(n)
  BY <1>1, <1>3, <1>8 DEF Events, Unused
<1>11. Times(n)
  <2>1. Sorted(<<>>, n.wake)
    BY DEF Sorted
  <2> QED BY <1>1, <1>3, <2>1 DEF Times, Unused
<1>12. Unready(n) /\ AtWrap(n) /\ Own(n)
  BY <1>1, <1>5 DEF Unready, AtWrap, Own, Unused, TasksOf
<1>13. Kernel(n)
  BY <1>1, <1>6, <1>7, <1>9, <1>10, <1>11, <1>12 DEF Kernel, Lists
<1>14. n.pxCurrentTCB \in R /\ Highest(n)
  BY <1>1, <1>4 DEF Chosen, Highest
<1>15. n.uxSchedulerSuspended = 0 /\ n.pendingReady = <<>> /\ \A t \in All : n.ucNotifyState[t] = "none"
  BY <1>1 DEF Unused, TasksOf
<1> QED BY <1>4, <1>5, <1>13, <1>14, <1>15 DEF Fresh

(* main() and vTaskStartScheduler.                                         *)
LEMMA KernelStarted ==
    ASSUME NEW s, Static(s)
    PROVE  Fresh(KernelInit(s))
<1> PICK list : list = s.started \o <<Idle>>
  OBVIOUS
<1> PICK N : N = Len(list)
  OBVIOUS
<1> PICK firstTick : firstTick = s.firstTick
  OBVIOUS
<1>0. firstTick \in TickType /\ Once(s.started, Tasks) /\ s.priority \in [All -> Priorities]
  BY DEF Static
<1>1. /\ N \in Nat /\ N > 0 /\ list[N] = Idle /\ (\A i \in 1 .. N : list[i] \in All)
      /\ \A i, j \in 1 .. N : list[i] = list[j] => i = j
  <2> PICK a : a = s.started
    OBVIOUS
  <2> PICK k : k = Len(a)
    OBVIOUS
  <2>1. a \in Seq(Tasks) /\ k \in Nat /\ DOMAIN a = 1 .. k /\ (\A i \in 1 .. k : a[i] \in Tasks)
        /\ \A i, j \in 1 .. k : a[i] = a[j] => i = j
    BY <1>0, LenProperties, ElementOfSeq DEF Once
  <2>2. /\ N = k + 1 /\ (\A i \in 1 .. k : list[i] = a[i]) /\ list[k + 1] = Idle
    <3>1. list = a \o <<Idle>> /\ a \in Seq(All) /\ <<Idle>> \in Seq(All) /\ Len(<<Idle>>) = 1 /\ <<Idle>>[1] = Idle
      BY <2>1 DEF All
    <3> QED BY <2>1, <3>1, ConcatProperties
  <2>3. \A i \in 1 .. N : i \in 1 .. k \/ i = k + 1
    BY <2>1, <2>2
  <2>4. Idle \in All /\ Idle \notin Tasks /\ Tasks \subseteq All
    BY KernelAssumption DEF All
  <2>5. \A i \in 1 .. N : list[i] \in All
    BY <2>1, <2>2, <2>3, <2>4
  <2>6. \A i, j \in 1 .. N : list[i] = list[j] => i = j
    BY <2>1, <2>2, <2>3, <2>4
  <2> QED BY ONLY <2>1, <2>2, <2>5, <2>6
<1> DEFINE T(i) == {list[j] : j \in 1 .. i}
<1> DEFINE Run(g, k) == g = [n \in 0 .. k |-> IF n = 0 THEN NoKernel(firstTick) ELSE Create(g[n - 1], list[n], s.priority[list[n]])]
           Runs == {k \in 0 .. N : \E g : Run(g, k)}
<1>2. N \in Runs
  <2>1. 0 \in Runs
    <3> DEFINE h == [n \in 0 .. 0 |-> NoKernel(firstTick)]
    <3>1. \A n \in 0 .. 0 : h[n] = IF n = 0 THEN NoKernel(firstTick) ELSE Create(h[n - 1], list[n], s.priority[list[n]])
      OBVIOUS
    <3>2. h = [n \in 0 .. 0 |-> h[n]]
      OBVIOUS
    <3> HIDE DEF h
    <3>3. Run(h, 0)
      BY <3>1, <3>2
    <3> QED BY <1>1, <3>3
  <2>2. ASSUME NEW k \in 0 .. N - 1, k \in Runs PROVE k + 1 \in Runs
    <3>1. PICK g : Run(g, k)
      BY <2>2
    <3> DEFINE h == [n \in 0 .. k + 1 |-> IF n = 0 THEN NoKernel(firstTick) ELSE Create(g[n - 1], list[n], s.priority[list[n]])]
    <3>2. ASSUME NEW n \in 0 .. k + 1
          PROVE h[n] = IF n = 0 THEN NoKernel(firstTick) ELSE Create(h[n - 1], list[n], s.priority[list[n]])
      <4>1. CASE n = 0
        BY <4>1
      <4>2. CASE n # 0
        <5>1. n - 1 \in 0 .. k /\ n - 1 \in 0 .. k + 1 /\ k \in Int
          BY <4>2
        <5>2. g[n - 1] = IF n - 1 = 0 THEN NoKernel(firstTick) ELSE Create(g[(n - 1) - 1], list[n - 1], s.priority[list[n - 1]])
          BY <3>1, <5>1
        <5>3. h[n - 1] = IF n - 1 = 0 THEN NoKernel(firstTick) ELSE Create(g[(n - 1) - 1], list[n - 1], s.priority[list[n - 1]])
          BY <5>1
        <5>4. h[n] = Create(g[n - 1], list[n], s.priority[list[n]])
          BY <4>2
        <5> QED BY <4>2, <5>2, <5>3, <5>4
      <4> QED BY <4>1, <4>2
    <3>3. h = [n \in 0 .. k + 1 |-> h[n]]
      OBVIOUS
    <3> HIDE DEF h
    <3>4. Run(h, k + 1)
      BY <3>2, <3>3
    <3>5. k + 1 \in 0 .. N
      BY <1>1
    <3> QED BY <3>4, <3>5
  <2> HIDE DEF Runs
  <2> QED BY <1>1, <2>1, <2>2, UpTo
<1> DEFINE After == CHOOSE g : Run(g, N)
<1>3. Run(After, N)
  BY <1>2
<1>4. KernelInit(s) = After[N]
  BY DEF KernelInit
<1> HIDE DEF After
<1> DEFINE Done == {i \in 0 .. N : Made(After[i], T(i), firstTick)}
<1>5. N \in Done
  <2>1. 0 \in Done
    <3>1. After[0] = NoKernel(firstTick) /\ T(0) = {}
      BY <1>1, <1>3
    <3>2. Made(After[0], T(0), firstTick)
      BY <3>1, NoneMade
    <3> HIDE DEF T
    <3> QED BY <1>1, <3>2
  <2>2. ASSUME NEW k \in 0 .. N - 1, k \in Done PROVE k + 1 \in Done
    <3>1. k + 1 \in 0 .. N /\ k + 1 # 0 /\ (k + 1) - 1 = k /\ k \in 0 .. N /\ k + 1 \in 1 .. N
      BY <1>1
    <3> PICK m, n, t : m = After[k] /\ n = After[k + 1] /\ t = list[k + 1]
      OBVIOUS
    <3> PICK p : p = s.priority[t]
      OBVIOUS
    <3>2. n = Create(m, t, p)
      BY <1>3, <3>1
    <3>3. t \in All /\ p \in Priorities /\ Made(m, T(k), firstTick)
      BY <1>0, <1>1, <2>2, <3>1
    <3>4. T(k) \in SUBSET All /\ t \notin T(k)
      <4>1. \A j \in 1 .. k : j \in 1 .. N /\ j # k + 1
        BY <1>1
      <4> QED BY ONLY <1>1, <3>1, <4>1, t = list[k + 1]
    <3>5. T(k + 1) = T(k) \cup {t}
      <4>1. \A j \in 1 .. k + 1 : j \in 1 .. k \/ j = k + 1
        BY <1>1
      <4>2. \A j \in 1 .. k : j \in 1 .. k + 1
        BY <1>1
      <4> QED BY ONLY <3>1, <4>1, <4>2, t = list[k + 1], k \in 0 .. N - 1
    <3> HIDE DEF T
    <3>6. Made(n, T(k + 1), firstTick)
      <4> PICK R : R = T(k)
        OBVIOUS
      <4>1. R \in SUBSET All /\ t \notin R /\ Made(m, R, firstTick) /\ t \in All /\ p \in Priorities
        BY <3>3, <3>4
      <4>2. Made(Create(m, t, p), R \cup {t}, firstTick)
        BY ONLY <4>1, OneMade
      <4> QED BY ONLY <4>2, <3>2, <3>5, R = T(k)
    <3> QED BY <3>1, <3>6
  <2> HIDE DEF Done
  <2> QED BY <1>1, <2>1, <2>2, UpTo
<1>6. Made(KernelInit(s), T(N), firstTick)
  BY <1>4, <1>5
<1>7. T(N) \in SUBSET All /\ Idle \in T(N)
  BY <1>1
<1> HIDE DEF T
<1> QED BY <1>0, <1>6, <1>7, MadeIsFresh

=============================================================================
