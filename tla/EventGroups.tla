----------------------------- MODULE EventGroups -----------------------------
(***************************************************************************)
(* event_groups.c: one event group, its waits for any or all of some bits, *)
(* and the rendezvous of xEventGroupSync.  A group is only changed by      *)
(* tasks, with the scheduler suspended or in a critical section.           *)
(*                                                                         *)
(* The bits are the number uxEventBits; the control bits that share the    *)
(* word with them in an event list item are a set of flags here.  A wait   *)
(* is a record of the bits to set first (set), those to wait for (bits),   *)
(* and whether for all of them (all) and to clear them on exit (clear).    *)
(*                                                                         *)
(* An operator named X_Fault is a faulty variant of the definition X.      *)
(***************************************************************************)
EXTENDS TaskCalls

CONSTANT ForBits  \* xTasksWaitingForBits

VARIABLES uxEventBits,
          arrived,  \* history: how often a task has set its bits in a rendezvous
          met       \* history: how often it has left one that was complete

groupVars == <<uxEventBits, arrived, met>>

WaitCalls == {"xEventGroupWaitBits", "xEventGroupSync"}

GroupInit == /\ uxEventBits = 0
             /\ arrived = [t \in Tasks |-> 0]
             /\ met = [t \in Tasks |-> 0]

Clear(bits, mask) == bits - (bits & mask)

(* prvTestWaitCondition *)
TestWaitCondition(bits, mask, all) == IF all THEN bits & mask = mask ELSE bits & mask # 0

(* The walk of xEventGroupSetBits along the list, in its order: a task     *)
(* whose wait is over gets the bits, and what it clears is cleared at the  *)
(* end of the walk.  r is the kernel and the bits to clear so far.         *)
SatisfyWait(bits, r, t) ==
    LET item == r.kernel.item[t]
    IN IF TestWaitCondition(bits, item.bits, "all" \in item.flags)
       THEN [kernel |-> vTaskRemoveFromUnorderedEventList(r.kernel, t, bits, {"set"}),
             clear |-> IF "clear" \in item.flags THEN r.clear | item.bits ELSE r.clear]
       ELSE r

SetBits(s, bits) ==
    LET list == s.events[ForBits]
        After[n \in 0 .. Len(list)] == IF n = 0 THEN [kernel |-> s, clear |-> 0]
                                       ELSE SatisfyWait(bits, After[n - 1], list[n])
        r == After[Len(list)]
    IN [kernel |-> r.kernel, bits |-> Clear(bits, r.clear)]

----------------------------------------------------------------------------
(* xEventGroupSetBits, between vTaskSuspendAll and xTaskResumeAll. *)
GroupSetBits ==
    /\ InCall({"xEventGroupSetBits"}, "body")
    /\ LET r == SetBits(kernel, uxEventBits | Now.with)
       IN Step(r.kernel) /\ uxEventBits' = r.bits
    /\ Goto("resume")
    /\ UNCHANGED <<arrived, met, left>> /\ Unserved

xEventGroupClearBits ==
    /\ InCall({"xEventGroupClearBits"}, "start")
    /\ uxEventBits' = Clear(uxEventBits, Now.with)
    /\ Return
    /\ UNCHANGED <<kernel, arrived, met, left>> /\ Unserved

(* The wait is over, or fails at once, or the task is put in the list. *)
Blocks(s, bits, flags) ==
    /\ Step(vTaskPlaceOnUnorderedEventList(s, ForBits, bits, flags, Now.ticks))
    /\ Set([call[me] EXCEPT !.stage = "resume", !.outcome = "blocked"])

GroupWaitBody ==
    /\ InCall({"xEventGroupWaitBits"}, "body")
    /\ LET w == Now.with
       IN IF TestWaitCondition(uxEventBits, w.bits, w.all)
          THEN /\ uxEventBits' = IF w.clear THEN Clear(uxEventBits, w.bits) ELSE uxEventBits
               /\ Set([call[me] EXCEPT !.stage = "resume", !.outcome = "met"])
               /\ UNCHANGED kernel
          ELSE /\ UNCHANGED uxEventBits
               /\ IF Now.ticks = 0 THEN Goto("resume") /\ UNCHANGED kernel
                  ELSE Blocks(kernel, w.bits, {f \in {"clear", "all"} : w[f]})
    /\ UNCHANGED <<arrived, met, left>> /\ Unserved

(* xEventGroupSync sets its bits first, which may be the last that others  *)
(* wait for: their bits, and with them its own, are then already cleared,  *)
(* so that it looks at the bits as they were before.                       *)
AllSet_BitsNow(before, w) ==
    LET r == SetBits(kernel, before | w.set) IN r.bits & w.bits = w.bits
AllSet(before, w) == ((before | w.set) & w.bits) = w.bits

GroupSyncBody ==
    /\ InCall({"xEventGroupSync"}, "body")
    /\ LET w == Now.with
           r == SetBits(kernel, uxEventBits | w.set)
       IN IF AllSet(uxEventBits, w)
          THEN /\ Step(r.kernel)
               /\ uxEventBits' = Clear(r.bits, w.bits)
               /\ Set([call[me] EXCEPT !.stage = "resume", !.outcome = "met"])
          ELSE /\ uxEventBits' = r.bits
               /\ IF Now.ticks = 0 THEN Step(r.kernel) /\ Goto("resume")
                  ELSE Blocks(r.kernel, w.bits, {"clear", "all"})
    /\ arrived' = [arrived EXCEPT ![me] = @ + 1]
    /\ UNCHANGED <<met, left>> /\ Unserved

Meets == met' = IF Now.api = "xEventGroupSync" THEN [met EXCEPT ![me] = @ + 1] ELSE met

(* A task that has not blocked leaves.  One that has reads off its item    *)
(* whether it was woken by bits, and puts the rank back in the item.       *)
GroupAfter ==
    /\ InCall(WaitCalls, "after")
    /\ LET item == kernel.item[me]
           blocked == call[me].outcome = "blocked"
       IN /\ Step(IF blocked THEN uxTaskResetEventItemValue(kernel) ELSE kernel)
          /\ IF blocked /\ "set" \notin item.flags THEN Goto("late") ELSE Return
          /\ IF call[me].outcome = "met" \/ (blocked /\ "set" \in item.flags) THEN Meets ELSE UNCHANGED met
    /\ UNCHANGED <<uxEventBits, arrived, left>> /\ Unserved

(* The time was up; the bits may have come since. *)
GroupLate ==
    /\ InCall(WaitCalls, "late")
    /\ LET w == Now.with
           came == TestWaitCondition(uxEventBits, w.bits, w.all)
       IN /\ uxEventBits' = IF came /\ w.clear THEN Clear(uxEventBits, w.bits) ELSE uxEventBits
          /\ IF came THEN Meets ELSE UNCHANGED met
    /\ Return
    /\ UNCHANGED <<kernel, arrived, left>> /\ Unserved

GroupCall == \/ GroupSetBits \/ xEventGroupClearBits \/ GroupWaitBody \/ GroupSyncBody
             \/ GroupAfter \/ GroupLate

=============================================================================
