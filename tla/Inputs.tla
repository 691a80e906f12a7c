------------------------------- MODULE Inputs -------------------------------
(***************************************************************************)
(* The runnables on the pins: keypad, switches and traffic light, composed *)
(* as a table of the scheduler (SERVICE/SCHED/SCHED_Config.c) puts them    *)
(* together.  A table holds some of them; those in it run again and again, *)
(* one at a time and in any order, and the contacts change in between.     *)
(***************************************************************************)
EXTENDS Naturals

CONSTANTS Tables,                              \* the tables of runnables
          Columns, Rows, KPD_ARRAY, Readers,   \* see Keypad
          NUM_SWITCH, SWITCH, THRESHOLD,       \* see Switches
          LEDS                                 \* see TrafficLight

Runnables == {"KPD", "SWITCH", "TRAFFIC"}
VARIABLES table,
          contacts, Local_State, KPDPressedKey, NewValueflag, output, readings, changed,
          closed, SwitchState, Local_Prev, Local_Counts, same,
          State, Prev_State, Local_Sec, pins, runs

KeypadRun  == INSTANCE Keypad
SwitchRun  == INSTANCE Switches
TrafficRun == INSTANCE TrafficLight

ASSUME InputsAssumption ==
    /\ Tables \subseteq SUBSET Runnables
    /\ KeypadRun!KeypadAssumption
    /\ SwitchRun!SwitchesAssumption
    /\ TrafficRun!TrafficLightAssumption

keypad  == <<contacts, Local_State, KPDPressedKey, NewValueflag, output, readings, changed>>
switch  == <<closed, SwitchState, Local_Prev, Local_Counts, same>>
traffic == <<State, Prev_State, Local_Sec, pins, runs>>
inputVars == <<table, keypad, switch, traffic>>

InputsInit == /\ table \in Tables
              /\ KeypadRun!Init
              /\ SwitchRun!Init
              /\ TrafficRun!Init

KeypadStep == /\ "KPD" \in table
              /\ KeypadRun!Next
              /\ UNCHANGED <<table, switch, traffic>>

SwitchStep == /\ "SWITCH" \in table
              /\ SwitchRun!Next
              /\ UNCHANGED <<table, keypad, traffic>>

TrafficStep == /\ "TRAFFIC" \in table
               /\ TrafficRun!TrafficLights
               /\ UNCHANGED <<table, keypad, switch>>

InputsNext == KeypadStep \/ SwitchStep \/ TrafficStep

(* The scheduler runs every runnable of the table once per period. *)
Scan == "KPD" \in table /\ KeypadRun!KPD_Runnable /\ UNCHANGED <<table, switch, traffic>>
Poll == /\ "KPD" \in table
        /\ \E r \in Readers : KeypadRun!Take(r)
        /\ UNCHANGED <<table, switch, traffic>>

InputsSpec == InputsInit /\ [][InputsNext]_inputVars /\ WF_inputVars(Scan) /\ WF_inputVars(Poll)

----------------------------------------------------------------------------
(* Correctness *)

InputsTypeOK == KeypadRun!TypeOK /\ SwitchRun!TypeOK /\ TrafficRun!TypeOK

(* What the components promise, in the composition. *)
ReportedAfterTwoReadings == KeypadRun!ReportedAfterTwoReadings
EachTakenOnce == KeypadRun!EachTakenOnce
HeldKeyTaken == "KPD" \in table => KeypadRun!HeldKeyTaken
SwitchesSettle == SwitchRun!SwitchesSettle
NoBounceReported == SwitchRun!NoBounceReported
LampsFollowRound == TrafficRun!LampsFollowRound
=============================================================================
