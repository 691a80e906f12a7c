---------------------------- MODULE TrafficLight ----------------------------
(***************************************************************************)
(* The traffic light, APP/Traffic_Light.c, over the LED driver             *)
(* (HAL/HLED/LED.c) and the pins it sets (MCAL/MGPIO/GPIO.c).              *)
(***************************************************************************)
EXTENDS Naturals

CONSTANTS LEDS       \* the connection of each LED: "LED_ACTIVE_HIGH" or "LED_ACTIVE_LOW"

Lamps == {"LED_GREEN", "LED_YELLOW", "LED_RED"}

TrafficLightAssumption == LEDS \in [Lamps -> {"LED_ACTIVE_HIGH", "LED_ACTIVE_LOW"}]

VARIABLES State, Prev_State, Local_Sec,
          pins,      \* the output pin of each LED
          runs       \* history: runs of TrafficLights, modulo the seven of a round

vars == <<State, Prev_State, Local_Sec, pins, runs>>

PERIODICITY_SEC == 2000

Init == /\ State = "GREEN"
        /\ Prev_State = "GREEN"
        /\ Local_Sec = 0
        /\ pins = [l \in Lamps |-> 0]
        /\ runs = 0

(* HLED_SetStatus puts connection ^ status on the pin. *)
PinFor(lamp, on) == IF on = (LEDS[lamp] = "LED_ACTIVE_HIGH") THEN 1 ELSE 0

OnlyOn(lamp) == [l \in Lamps |-> PinFor(l, l = lamp)]

LampOf == [s \in {"GREEN", "YELLOW", "RED"} |->
             CASE s = "GREEN" -> "LED_GREEN" [] s = "YELLOW" -> "LED_YELLOW" [] s = "RED" -> "LED_RED"]

Elapsed == Local_Sec + PERIODICITY_SEC

Turn(from, after, to) ==
    /\ State = from
    /\ Elapsed = after
    /\ State' = to
    /\ Local_Sec' = 0

AfterYellow_NotTold == "GREEN"
AfterYellow == IF Prev_State = "GREEN" THEN "RED" ELSE "GREEN"

Duration == [s \in {"GREEN", "YELLOW", "RED"} |->
               CASE s = "GREEN" -> 6000 [] s = "YELLOW" -> 2000 [] s = "RED" -> 4000]

TrafficLights ==
    /\ pins' = OnlyOn(LampOf[State])
    /\ \/ Turn("GREEN", Duration["GREEN"], "YELLOW") /\ Prev_State' = "GREEN"
       \/ Turn("YELLOW", Duration["YELLOW"], AfterYellow) /\ UNCHANGED Prev_State
       \/ Turn("RED", Duration["RED"], "YELLOW") /\ Prev_State' = "RED"
       \/ /\ Elapsed # Duration[State]
          /\ Local_Sec' = Elapsed
          /\ UNCHANGED <<State, Prev_State>>
    /\ runs' = (runs + 1) % 7

----------------------------------------------------------------------------
(* Correctness *)

TypeOK == /\ State \in DOMAIN Duration
          /\ Prev_State \in {"GREEN", "RED"}
          /\ Local_Sec \in {0, 2000, 4000}
          /\ pins \in [Lamps -> {0, 1}]
          /\ runs \in 0 .. 6


(* The round of the lamps, one entry per period: six seconds green, two
   yellow, four red, two yellow.  Each run shows the next entry and no other
   lamp, whatever way its LED is connected (Traffic_Light.c:44-86). *)
Round == <<"LED_GREEN", "LED_GREEN", "LED_GREEN", "LED_YELLOW", "LED_RED", "LED_RED", "LED_YELLOW">>
LampsFollowRound ==
    [][runs' # runs => \A l \in Lamps :
          (pins'[l] = IF LEDS[l] = "LED_ACTIVE_HIGH" THEN 1 ELSE 0) <=> l = Round[runs + 1]]_vars
=============================================================================
