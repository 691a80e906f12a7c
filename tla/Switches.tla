------------------------------ MODULE Switches ------------------------------
(***************************************************************************)
(* The debounced switches, HAL/HSWITCH/SWITCH.c.                           *)
(***************************************************************************)
EXTENDS Naturals

CONSTANTS NUM_SWITCH,   \* _NUM_SWITCH
          SWITCH,       \* the configuration: the pull of each pin, or "none" where it has no entry
          THRESHOLD

SwitchesAssumption ==
    /\ NUM_SWITCH \in Nat \ {0}
    /\ SWITCH \in [0 .. NUM_SWITCH - 1 -> {"GPIO_MODE_IN_PU", "GPIO_MODE_IN_PD", "none"}]
    /\ SWITCH[0] # "none"
    /\ THRESHOLD \in Nat \ {0}

VARIABLES closed,        \* the switches that are closed
          SwitchState, Local_Prev, Local_Counts,
          same           \* history: equal samples in a row of each switch, up to THRESHOLD + 1

vars == <<closed, SwitchState, Local_Prev, Local_Counts, same>>

Switches == 0 .. NUM_SWITCH - 1
Wired == {s \in Switches : SWITCH[s] # "none"}

Init == /\ closed \in SUBSET Wired
        /\ SwitchState = [s \in Switches |-> 0]
        /\ Local_Prev = [s \in Switches |-> 0]
        /\ Local_Counts = [s \in Switches |-> 0]
        /\ same = [s \in Switches |-> 0]

Level(s) == IF (s \in closed) = (SWITCH[s] = "GPIO_MODE_IN_PD") THEN 1 ELSE 0

(* A contact closes, opens or bounces. *)
Bounce == \E s \in Wired :
             /\ closed' = (closed \ {s}) \cup ({s} \ closed)
             /\ UNCHANGED <<SwitchState, Local_Prev, Local_Counts, same>>

(* MGPIO_GetPinState refuses a port that is NULL and leaves Local_Current
   what the switch before had. *)
Source(s) == CHOOSE w \in Wired : w <= s /\ \A v \in Wired : v <= s => v <= w
Sample(s) == Level(Source(s))

Restarted_Never(n) == n
Restarted(n) == 0

(* HSWITCH_Runnable: all switches, one after the other. *)
Count(s) == IF Sample(s) = Local_Prev[s] THEN Local_Counts[s] + 1 ELSE Restarted(Local_Counts[s])

Crossed_Late(s) == Count(s) = THRESHOLD + 1
Crossed(s) == Count(s) = THRESHOLD

CountAfter(s) == IF Crossed(s) THEN 0 ELSE Count(s)

HSWITCH_Runnable ==
    /\ SwitchState' = [s \in Switches |-> IF Crossed(s) THEN Sample(s) ELSE SwitchState[s]]
    /\ Local_Counts' = [s \in Switches |-> CountAfter(s)]
    /\ Local_Prev' = [s \in Switches |-> Sample(s)]
    /\ same' = [s \in Switches |-> IF Sample(s) # Local_Prev[s] \/ same[s] = 0 THEN 1
                                   ELSE IF same[s] > THRESHOLD THEN same[s] ELSE same[s] + 1]
    /\ UNCHANGED closed

(* HSWITCH_GetSwitchStatus: !(state ^ (mode >> 4)). *)
Pressed(s) == SwitchState[s] = (IF SWITCH[s] = "GPIO_MODE_IN_PD" THEN 1 ELSE 0)

Next == Bounce \/ HSWITCH_Runnable

----------------------------------------------------------------------------
(* Correctness *)

TypeOK == /\ closed \subseteq Wired
          /\ SwitchState \in [Switches -> {0, 1}]
          /\ Local_Prev \in [Switches -> {0, 1}]
          /\ Local_Counts \in [Switches -> 0 .. THRESHOLD - 1]
          /\ same \in [Switches -> 0 .. THRESHOLD + 1]

(* After THRESHOLD + 1 equal samples a switch is reported as it was sampled,
   pulled up or down, also when the count goes on across the threshold
   (SWITCH.c:43, "If the count reaches a threshold (5), it updates the switch
   state"). *)
SwitchesSettle == \A s \in Wired :
    same[s] > THRESHOLD => (Pressed(s) <=> (Local_Prev[s] = 1) = (SWITCH[s] = "GPIO_MODE_IN_PD"))

(* A report changes after no fewer equal samples: no bounce is reported. *)
NoBounceReported == [][\A s \in Switches : SwitchState'[s] # SwitchState[s] => same'[s] > THRESHOLD]_vars

=============================================================================
