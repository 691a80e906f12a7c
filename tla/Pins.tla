-------------------------------- MODULE Pins --------------------------------
(***************************************************************************)
(* GPIO.c, LED.c and what the other drivers of HAL do to the pins when     *)
(* they are initialised.  A pin is a pair of its port and its number.  The *)
(* registers of a port are kept by pin, as a call changes the field of one *)
(* pin.  A port whose clock is off loses what is written to it.  LedTasks  *)
(* has the two steps of a toggle and what comes in between.                *)
(*                                                                         *)
(* An operator named X_Fault is a faulty variant of the definition X.      *)
(***************************************************************************)
EXTENDS Integers, SequencesExt

CONSTANTS AllPins,    \* the pins of the ports
          LEDS,       \* LEDS[l]: pin and connection of an LED
          KPD_Conf,   \* the sequences col and row of the keypad's pins
          SWITCH,     \* SWITCH[s]: pin and mode of a switch
          HLCD,       \* the pins of the LCD: data, RS, RW and E
          AFPin, AF   \* the pin a caller gives an alternate function, and that

VARIABLES clocked,    \* the ports whose clock is enabled
          regs,       \* the fields of every pin
          ODR,        \* the output bit of every pin
          G_CLCD_State,
          PinCfg,     \* the pin in the record of that caller
          status      \* history: what every LED was last asked to show

pinVars == <<regs, ODR, G_CLCD_State, PinCfg, status>>

GPIO_MODE_OP_PP == 1
GPIO_SPEED_HIGH == 2
NotAsked == -1
Port(pin) == pin[1]
Number(pin) == pin[2]

(* After a reset every pin is an input. *)
Init == /\ regs = [pin \in AllPins |-> [MODER |-> 0, OTYPER |-> 0, PUPDR |-> 0, OSPEEDER |-> 0, AFR |-> 0]]
        /\ ODR = [pin \in AllPins |-> 0]
        /\ G_CLCD_State = "CLCD_OFF"
        /\ PinCfg = AFPin
        /\ status = [l \in DOMAIN LEDS |-> NotAsked]

----------------------------------------------------------------------------
(* GPIO.c *)

Refused(pin) == Number(pin) > 15 \/ Port(pin) = "NULL"
Written(pin) == ~Refused(pin) /\ Port(pin) \in clocked

(* The fields of a mode: bits 0 and 1, bit 2, and bits 3 and 4. *)
Moder(mode) == mode % 4
Otyper(mode) == (mode \div 4) % 2
Pupdr(mode) == (mode \div 8) % 4

MGPIO_InitPin(r, pin, mode, speed) ==
    IF Written(pin) THEN [r EXCEPT ![pin] = [@ EXCEPT !.MODER = Moder(mode), !.OTYPER = Otyper(mode),
                                                      !.PUPDR = Pupdr(mode), !.OSPEEDER = speed]]
    ELSE r

(* AFRH has the pins from 8 on, and to find its field there the call takes *)
(* 8 from the number in the caller's record.                               *)
MGPIO_InitPinAF(mode) ==
    /\ ~Refused(PinCfg)
    /\ regs' = IF Written(PinCfg)
               THEN [regs EXCEPT ![PinCfg] = [@ EXCEPT !.MODER = Moder(mode), !.OTYPER = Otyper(mode),
                                                       !.PUPDR = Pupdr(mode), !.AFR = AF]]
               ELSE regs
    /\ PinCfg' = IF Number(PinCfg) > 7 THEN <<Port(PinCfg), Number(PinCfg) - 8>> ELSE PinCfg
    /\ UNCHANGED <<ODR, G_CLCD_State, status>>

MGPIO_SetPin(o, pin, level) == IF Written(pin) THEN [o EXCEPT ![pin] = level] ELSE o
MGPIO_TogglePin(o, pin) == IF Written(pin) THEN [o EXCEPT ![pin] = 1 - @] ELSE o

(* IDR of an output *)
MGPIO_GetPinState(pin) == ODR[pin]

----------------------------------------------------------------------------
(* LED.c *)

Xor_Or(a, b) == IF a = 1 \/ b = 1 THEN 1 ELSE 0
Xor(a, b) == IF a = b THEN 0 ELSE 1

(* One after the other: a call changes the fields of its pin only. *)
InitAll(r, pins, mode) ==
    [pin \in DOMAIN r |-> IF pin \in pins THEN MGPIO_InitPin(r, pin, mode, GPIO_SPEED_HIGH)[pin] ELSE r[pin]]

HLED_Init == /\ regs' = InitAll(regs, {LEDS[l].pin : l \in DOMAIN LEDS}, GPIO_MODE_OP_PP)
             /\ UNCHANGED <<ODR, G_CLCD_State, PinCfg, status>>

HLED_SetStatus(l, s) == /\ ODR' = MGPIO_SetPin(ODR, LEDS[l].pin, Xor(LEDS[l].connection, s))
                        /\ status' = [status EXCEPT ![l] = s]
                        /\ UNCHANGED <<regs, G_CLCD_State, PinCfg>>

HLED_GetStatus(l) == Xor(MGPIO_GetPinState(LEDS[l].pin), LEDS[l].connection)

HLED_Toggle(l) == /\ ODR' = MGPIO_TogglePin(ODR, LEDS[l].pin)
                  /\ status' = [status EXCEPT ![l] = IF @ = NotAsked THEN @ ELSE 1 - @]
                  /\ UNCHANGED <<regs, G_CLCD_State, PinCfg>>

----------------------------------------------------------------------------
(* The other drivers *)

(* The columns become outputs at 1, then the rows inputs. *)
KPD_INIT == /\ regs' = InitAll(InitAll(regs, ToSet(KPD_Conf.col), KPD_Conf.colMode),
                             ToSet(KPD_Conf.row), KPD_Conf.rowMode)
            /\ ODR' = [pin \in AllPins |-> IF pin \in ToSet(KPD_Conf.col) THEN MGPIO_SetPin(ODR, pin, 1)[pin]
                                           ELSE ODR[pin]]
            /\ UNCHANGED <<G_CLCD_State, PinCfg, status>>

(* The last switch on a pin has its mode.                                  *)
SwitchOn(pin) == CHOOSE s \in DOMAIN SWITCH :
    SWITCH[s].pin = pin /\ \A t \in DOMAIN SWITCH : SWITCH[t].pin = pin => t <= s

HSWITCH_Init == /\ regs' = [pin \in AllPins |->
                               IF \E s \in DOMAIN SWITCH : SWITCH[s].pin = pin
                               THEN MGPIO_InitPin(regs, pin, SWITCH[SwitchOn(pin)].mode, GPIO_SPEED_HIGH)[pin]
                               ELSE regs[pin]]
                /\ UNCHANGED <<ODR, G_CLCD_State, PinCfg, status>>

CLCD_InitAsynch == /\ regs' = InitAll(regs, ToSet(HLCD), GPIO_MODE_OP_PP)
                   /\ G_CLCD_State' = "CLCD_Init_state"
                   /\ UNCHANGED <<ODR, PinCfg, status>>

(* Once it has been initialised the task of the LCD writes its pins, in    *)
(* the set-up as for every request: which bits is left open, so that the   *)
(* step that ends the set-up (CLCD_Operatinal) needs no state of its own.  *)
(* Lcd has the order of those writes.                                      *)
CLCD_TASK == /\ G_CLCD_State = "CLCD_Init_state"
             /\ \E level \in [ToSet(HLCD) -> {0, 1}] :
                    ODR' = [pin \in AllPins |-> IF pin \in ToSet(HLCD)
                                               THEN MGPIO_SetPin(ODR, pin, level[pin])[pin] ELSE ODR[pin]]
             /\ UNCHANGED <<regs, G_CLCD_State, PinCfg, status>>

Next == \/ \E l \in DOMAIN LEDS : HLED_Toggle(l) \/ \E s \in {0, 1} : HLED_SetStatus(l, s)
        \/ \E mode \in 0 .. 31 : MGPIO_InitPinAF(mode)
        \/ KPD_INIT \/ HSWITCH_Init \/ CLCD_InitAsynch \/ CLCD_TASK

----------------------------------------------------------------------------
(* Correctness *)

(* The LCD writes the pin of an LED from its initialisation on.            *)
Overwritten(l) == LEDS[l].pin \in ToSet(HLCD) /\ G_CLCD_State # "CLCD_OFF"

(* The pin of an LED is an output that pushes and pulls, whichever other   *)
(* driver has been initialised on the same port or the same pins since.    *)
(* It shows what it was last asked to show, lit by a 1 or by a 0, and says *)
(* so when asked, unless the LCD writes the same pin: with the wiring of   *)
(* the repository, LEDs and LCD cannot be used together.  (LED.c:17,       *)
(* GPIO.c:18, LED_cfg.c:15, LCD_Config.c:21)                               *)
Shows(l) == /\ regs[LEDS[l].pin].MODER = 1 /\ regs[LEDS[l].pin].OTYPER = 0
            /\ (status[l] # NotAsked /\ ~Overwritten(l)) =>
                                       /\ (ODR[LEDS[l].pin] = 1) = (status[l] = 1 - LEDS[l].connection)
                                       /\ HLED_GetStatus(l) = status[l]
=============================================================================
