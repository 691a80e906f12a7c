----------------------------- MODULE MCLedTasks -----------------------------
(* The three tasks of main.c on a clock of four ticks.  The periods keep the
   order and the ratio 2 : 3 of the two shorter ones; a period of 3 is the
   longest TickType_t can name, so its wake time lies on either side of the
   wrap of the tick count. *)
EXTENDS LedTasks

MCPeriod == [t \in Tasks |-> CASE t = 3 -> 2 [] t = 2 -> 3 [] t = 1 -> 3]
=============================================================================
