------------------------------- MODULE Sched -------------------------------
(***************************************************************************)
(* The cooperative scheduler of SERVICE/SCHED/SCHED.c.                     *)
(*                                                                         *)
(* Two actors share PendingTicks without any protection: the SysTick       *)
(* callback TickCb adds one, and the endless loop of StartSched takes one  *)
(* and runs a pass of Sched() over the table of runnables.  The loop's     *)
(* PendingTicks-- is a load, a subtraction and a store, and the interrupt  *)
(* may come between them; PendingTicks is not volatile, so a build may     *)
(* also keep polling a copy in a register.  The callbacks of the runnables *)
(* are opaque: a pass only records which of them it called.                *)
(*                                                                         *)
(* An operator named X_Fault stands before the definition X it is a faulty *)
(* variant of; no specification uses it.  The variants show that the       *)
(* properties can tell the code from a plausible mistake.                  *)
(***************************************************************************)
EXTENDS Integers

CONSTANTS RUNNABLE_NUM,   \* _RUNNABLE_NUM, the length of the table
          PeriodicityMs,  \* the fields of Runnables[], by slot
          FirstDelayMs,
          CallBack,       \* TRUE for the slots whose callback is not NULL
          U32MAX,         \* the largest u32
          MaxTicks        \* bound: SysTick interrupts explored

Slots == 0 .. RUNNABLE_NUM - 1

ASSUME SchedAssumption ==
    /\ RUNNABLE_NUM \in Nat \ {0}
    /\ U32MAX \in Nat \ {0}
    /\ PeriodicityMs \in [Slots -> 0 .. U32MAX]
    /\ FirstDelayMs \in [Slots -> 0 .. U32MAX]
    /\ CallBack \in [Slots -> BOOLEAN]
    /\ MaxTicks \in Nat

VARIABLES PendingTicks,   \* u32 PendingTicks
          RemainTimeMs,   \* Runnable_array[].RemainTimeMs
          pc,             \* where the main context is
          reg,            \* the register PendingTicks-- works in
          idx,            \* the loop variable of Sched()
          ticks,          \* history: calls of TickCb
          passes,         \* history: calls of Sched()
          last            \* history: the pass of each slot's latest activation

vars == <<PendingTicks, RemainTimeMs, pc, reg, idx, ticks, passes, last>>

Stages == {"boot", "initialised", "poll", "load", "store", "sched", "spin"}

(* Taking one from a u32 of zero wraps. *)
Dec32(x) == IF x = 0 THEN U32MAX ELSE x - 1

Init == /\ PendingTicks = 0
        /\ RemainTimeMs = [i \in Slots |-> 0]
        /\ pc = "boot"
        /\ reg = 0
        /\ idx = 0
        /\ ticks = 0
        /\ passes = 0
        /\ last = [i \in Slots |-> 0]

----------------------------------------------------------------------------
(* The interrupt *)

Incremented_Flag(n) == 1
Incremented(n) == n + 1

(* From StartSched on, SysTick calls TickCb, which runs to its end before
   the main context goes on.  U32MAX bounds the backlog too: 2^32 ticks
   without service are 49 days. *)
TickCb == /\ pc \notin {"boot", "initialised"}
          /\ ticks < MaxTicks
          /\ PendingTicks < U32MAX
          /\ PendingTicks' = Incremented(PendingTicks)
          /\ ticks' = ticks + 1
          /\ UNCHANGED <<RemainTimeMs, pc, reg, idx, passes, last>>

----------------------------------------------------------------------------
(* The main context *)

Sched_Init == /\ pc = "boot"
              /\ RemainTimeMs' = FirstDelayMs
              /\ pc' = "initialised"
              /\ UNCHANGED <<PendingTicks, reg, idx, ticks, passes, last>>

(* StartSched up to its loop: MSTK_StartTimerMSPeriodic. *)
StartSched == /\ pc = "initialised"
              /\ pc' = "poll"
              /\ UNCHANGED <<PendingTicks, RemainTimeMs, reg, idx, ticks, passes, last>>

(* if(PendingTicks) *)
Pending_Unchecked == TRUE
Pending_Backlog == PendingTicks > 1
Pending == PendingTicks # 0

(* The poll with nothing seen pending: around the loop once more. *)
PollEmpty == /\ pc = "spin" \/ (pc = "poll" /\ ~Pending)
             /\ UNCHANGED vars

(* The same poll in a build that hoisted the load out of the empty loop. *)
PollHoisted == /\ pc = "poll"
               /\ ~Pending
               /\ pc' = "spin"
               /\ UNCHANGED <<PendingTicks, RemainTimeMs, reg, idx, ticks, passes, last>>

PollPending == /\ pc = "poll"
               /\ Pending
               /\ pc' = "load"
               /\ UNCHANGED <<PendingTicks, RemainTimeMs, reg, idx, ticks, passes, last>>

(* PendingTicks--, first half. *)
LoadPending == /\ pc = "load"
               /\ reg' = PendingTicks
               /\ pc' = "store"
               /\ UNCHANGED <<PendingTicks, RemainTimeMs, idx, ticks, passes, last>>

(* PendingTicks--, second half, and the call of Sched(). *)
StorePending == /\ pc = "store"
                /\ PendingTicks' = Dec32(reg)
                /\ pc' = "sched"
                /\ idx' = 0
                /\ passes' = passes + 1
                /\ UNCHANGED <<RemainTimeMs, reg, ticks, last>>

Due_Early(i) == CallBack[i] /\ RemainTimeMs[i] <= 1
Due(i) == CallBack[i] /\ RemainTimeMs[i] = 0

Remaining_NoCountdown(i) == IF Due(i) THEN PeriodicityMs[i] ELSE Dec32(RemainTimeMs[i])
Remaining(i) == Dec32(IF Due(i) THEN PeriodicityMs[i] ELSE RemainTimeMs[i])

(* One turn of Sched()'s loop, the callback included. *)
SchedSlot ==
    /\ pc = "sched"
    /\ RemainTimeMs' = [RemainTimeMs EXCEPT ![idx] = Remaining(idx)]
    /\ last' = IF Due(idx) THEN [last EXCEPT ![idx] = passes] ELSE last
    /\ idx' = idx + 1
    /\ pc' = IF idx + 1 = RUNNABLE_NUM THEN "poll" ELSE "sched"
    /\ UNCHANGED <<PendingTicks, reg, ticks, passes>>

Loop == PollPending \/ LoadPending \/ StorePending \/ SchedSlot

Next == \/ TickCb
        \/ Sched_Init
        \/ StartSched
        \/ PollEmpty
        \/ PollHoisted
        \/ Loop

(* The processor never stops executing the main context. *)
Spec == Init /\ [][Next]_vars /\ WF_vars(Loop)

----------------------------------------------------------------------------
(* Correctness *)

TypeOK == /\ PendingTicks \in 0 .. U32MAX
          /\ RemainTimeMs \in [Slots -> 0 .. U32MAX]
          /\ pc \in Stages
          /\ reg \in 0 .. U32MAX
          /\ idx \in 0 .. RUNNABLE_NUM
          /\ (pc = "sched") => idx \in Slots
          /\ ticks \in 0 .. MaxTicks
          /\ passes \in Nat
          /\ last \in [Slots -> Nat]

(* Passes slot i has been through: the pass in progress counts once its
   turn is over. *)
Done(i) == IF pc = "sched" /\ i >= idx THEN passes - 1 ELSE passes

(* A period of 0 wraps: the slot is due again after all of the u32. *)
EffectivePeriod(i) == IF PeriodicityMs[i] = 0 THEN U32MAX + 1 ELSE PeriodicityMs[i]

NextDue(i) == IF last[i] = 0 THEN FirstDelayMs[i] + 1 ELSE last[i] + EffectivePeriod(i)

(* However the interrupt cuts into PendingTicks--, the scheduler never runs
   a pass that no tick paid for: served and pending ticks together never
   exceed the interrupts taken (SCHED.c, TickCb and the loop of StartSched). *)
NoUnpaidPass == passes + PendingTicks <= ticks

(* No runnable with a callback is ever overdue: its next activation lies
   after the passes it has been through, and RemainTimeMs counts down to
   exactly that pass (Sched()). *)
NeverOverdue ==
    pc \notin {"boot"} =>
        \A i \in Slots : CallBack[i] => /\ Done(i) < NextDue(i)
                                        /\ RemainTimeMs[i] = NextDue(i) - 1 - Done(i)

(* A tick can be lost only while PendingTicks-- is half done: no other step
   lets the ticks neither pending nor served grow. *)
Missing == ticks - passes - PendingTicks

LossOnlyInDecrement == [][Missing' > Missing => pc = "store"]_vars

(* The table as PeriodicTasks specifies it, a slot's clock being the passes
   it has been through: the runnables run in table order, each exactly when
   it is due (Sched()). *)
Tasks == INSTANCE PeriodicTasks
           WITH Tasks  <- Slots,
                Active <- {i \in Slots : CallBack[i]},
                First  <- FirstDelayMs,
                Period <- [i \in Slots |-> EffectivePeriod(i)],
                clock  <- [i \in Slots |-> Done(i)]

RunsPeriodicTasks == Tasks!Spec

(* A loop that reads PendingTicks works it off: while a tick is pending the
   next pass comes, even under a load where a pass outlasts a tick and ticks
   are lost to the decrement. *)
ServedWhileRead == \A n \in 0 .. MaxTicks :
    (PendingTicks > 0 /\ passes = n) ~> (passes > n \/ pc = "spin")

(* The comments of SCHED.c and SCHED.h: TickCb counts every occurrence of a
   system tick, and Sched is called when one is detected.  Then, once
   nothing is pending and the loop polls, every tick has had its pass. *)
EveryTickServed == (pc = "poll" /\ PendingTicks = 0) => passes = ticks
=============================================================================
