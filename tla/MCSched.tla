------------------------------ MODULE MCSched ------------------------------
(* A table of three runnables for TLC: one with a first delay longer than
   its period, one due in every pass with period 0 left to wrap, one with
   no callback. *)
EXTENDS Sched

MCPeriodicityMs == [i \in Slots |-> CASE i = 0 -> 2 [] i = 1 -> 0 [] OTHER -> 1]
MCFirstDelayMs  == [i \in Slots |-> CASE i = 0 -> 3 [] i = 1 -> 0 [] OTHER -> 1]
MCCallBack      == [i \in Slots |-> i # 2]
=============================================================================
