------------------------------ MODULE MCInputs ------------------------------
(* Inputs for TLC: a keypad of three keys, of which two share a name as the
   five keys 'X' of KPD_ARRAY do, two switches with an entry, one pulled up and
   one down, and one without, and a red LED that is active low. *)
EXTENDS Inputs

MCTables == {{"KPD"}, {"SWITCH", "TRAFFIC"}}
MCKeys == [k \in (0 .. 2) \X {0} |-> IF k[1] = 1 THEN "D" ELSE "X"]
MCSwitch == [s \in 0 .. 2 |-> CASE s = 0 -> "GPIO_MODE_IN_PU" [] s = 1 -> "GPIO_MODE_IN_PD" [] s = 2 -> "none"]
MCLeds == [l \in {"LED_GREEN", "LED_YELLOW", "LED_RED"} |->
             IF l = "LED_RED" THEN "LED_ACTIVE_LOW" ELSE "LED_ACTIVE_HIGH"]
=============================================================================
