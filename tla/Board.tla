------------------------------- MODULE Board -------------------------------
(***************************************************************************)
(* The drivers of MCAL below the rest: clocks, pins, system timer,         *)
(* interrupt controller and the initialisation of serial lines, and the    *)
(* start-up of main.c that uses the first two.  The behaviours of a part   *)
(* are those in which only it is used.                                     *)
(***************************************************************************)
EXTENDS Integers

CONSTANTS Parts,                                         \* the parts in use
          TIME_OUT, Masks, Factors,                      \* see Clocks
          Clock, MaxLoad, STK_MAX_TIME_MS, Times, CallBacks,  \* see SysTimer
          AllPins, LEDS, KPD_Conf, SWITCH, HLCD, AFPin, AF,   \* see Pins
          Interrupts, Priorities,                        \* see Nvic
          Channels, Instances, BaudRates                 \* see Serial

ASSUME TimerAssumption ==
    Clock \in Nat \ {0} /\ MaxLoad \in Nat /\ STK_MAX_TIME_MS \in Nat /\ Times \subseteq Nat

ASSUME InterruptsAssumption == Interrupts \subseteq Nat

(* Every LED has a pin of its own on port A or B, which it shares with the
   LCD at most (LED_cfg.c, KYD_Config.c, SWITCH_Cfg.c, LCD_Config.c). *)
ASSUME WiringAssumption ==
    /\ \A l \in DOMAIN LEDS :
          /\ LEDS[l].pin \in AllPins \cap ({"GPIOA", "GPIOB"} \X (0 .. 15))
          /\ LEDS[l].connection \in {0, 1}
          /\ \A k \in DOMAIN LEDS : LEDS[k].pin = LEDS[l].pin => k = l
          /\ \A k \in DOMAIN KPD_Conf.col : KPD_Conf.col[k] # LEDS[l].pin
          /\ \A k \in DOMAIN KPD_Conf.row : KPD_Conf.row[k] # LEDS[l].pin
          /\ \A s \in DOMAIN SWITCH : SWITCH[s].pin # LEDS[l].pin
          /\ LEDS[l].pin \notin {AFPin, <<AFPin[1], AFPin[2] - 8>>}
    /\ AFPin[2] \in Nat

VARIABLES part,
          stage,                                         \* where main is
          CR, ready, CFGR, PLLCFGR, ENR, call,
          CTRL, LOAD, VAL, STK_Periodic, CallBack, Clock_source, wait, counts,
          regs, ODR, G_CLCD_State, PinCfg, status,
          grouped, ISER, ISPR, IPR, active, wanted, requested,
          BRR, CR1, USART_Interrupt, asked

(* The ports are peripherals of the bus AHB1, port A at bit 0, B at bit 1. *)
PortBit(port) == CASE port = "GPIOA" -> 0 [] port = "GPIOB" -> 1

RCC  == INSTANCE Clocks
STK  == INSTANCE SysTimer
NVIC == INSTANCE Nvic
USART == INSTANCE Serial
GPIO == INSTANCE Pins WITH clocked <- {port \in {"GPIOA", "GPIOB"} : PortBit(port) \in ENR["AHB1"]}

clocks == <<CR, ready, CFGR, PLLCFGR, ENR, call>>
timer  == <<CTRL, LOAD, VAL, STK_Periodic, CallBack, Clock_source, wait, counts>>
pins   == <<regs, ODR, G_CLCD_State, PinCfg, status>>
nvic   == <<grouped, ISER, ISPR, IPR, active, wanted, requested>>
serial == <<BRR, CR1, USART_Interrupt, asked>>
vars   == <<part, stage, clocks, timer, pins, nvic, serial>>

Init == /\ part \in Parts
        /\ stage = "GPIOA"
        /\ RCC!Init /\ STK!Init /\ GPIO!Init /\ NVIC!Init /\ USART!Init

(* main up to the start of the scheduler *)
EnablesPort(port, next) ==
    /\ stage = port
    /\ RCC!MRCC_ControlClockPeripheral("AHB1", {PortBit(port)}, TRUE)
    /\ stage' = next
    /\ UNCHANGED <<CR, ready, CFGR, PLLCFGR, call, pins>>

InitsLeds == /\ stage = "HLED_Init"
             /\ GPIO!HLED_Init
             /\ stage' = "scheduler"
             /\ UNCHANGED clocks

AfterGPIOA_Inits == "HLED_Init"
AfterGPIOA == "GPIOB"

main == EnablesPort("GPIOA", AfterGPIOA) \/ EnablesPort("GPIOB", "HLED_Init") \/ InitsLeds

(* The tasks, and what else may use the pins, once it has begun. *)
Runs == /\ stage = "scheduler"
        /\ GPIO!Next
        /\ UNCHANGED <<stage, clocks>>

ClocksUsed == /\ \/ part = "peripherals" /\ RCC!Peripherals
                 \/ part = "oscillators" /\ RCC!OscillatorsUsed
              /\ UNCHANGED <<part, stage, timer, pins, nvic, serial>>
TimerUsed  == part = "timer" /\ STK!Next /\ UNCHANGED <<part, stage, clocks, pins, nvic, serial>>
NvicUsed   == part = "nvic" /\ NVIC!Next /\ UNCHANGED <<part, stage, clocks, timer, pins, serial>>
PinsUsed   == part = "pins" /\ (main \/ Runs) /\ UNCHANGED <<part, timer, nvic, serial>>
SerialUsed == part = "serial" /\ USART!Next /\ UNCHANGED <<part, stage, clocks, timer, pins, nvic>>

Next == ClocksUsed \/ TimerUsed \/ NvicUsed \/ PinsUsed \/ SerialUsed

Spec == Init /\ [][Next]_vars

----------------------------------------------------------------------------
(* Correctness *)

(* What the components promise, in the composition. *)
RunsFromReady == RCC!RunsFromReady
BusyWaitLasts == STK!BusyWaitLasts
AsAsked == NVIC!AsAsked
RateHolds == USART!RateHolds

(* From the start of the scheduler on every LED is ready, and shows what   *)
(* is asked unless the LCD writes the same pin: main has enabled the clock *)
(* of its port before it is initialised, as no driver does that and no     *)
(* call fails for want of it.  (main.c:28)                                 *)
LedsReady == stage = "scheduler" => \A l \in DOMAIN LEDS : GPIO!Shows(l)
=============================================================================
