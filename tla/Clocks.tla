------------------------------- MODULE Clocks -------------------------------
(***************************************************************************)
(* RCC.c: the clock control of the chip, and the oscillators it controls.  *)
(* An enable register is the set of its bits that are 1, CR the set of its *)
(* bits HSION, HSITRIM (of which the driver knows bit 7), HSEON, HSEBYP    *)
(* and PLLON, and ready the set of the clocks whose ready bit is set.  The *)
(* other registers are their fields, and the factors of the PLL in PLLCFGR *)
(* the set of their bits that are 1.  A call that waits for a clock polls  *)
(* its ready bit; every other call is one step.  Calls refused for their   *)
(* arguments change nothing and are left out.                              *)
(*                                                                         *)
(* An operator named X_Fault is a faulty variant of the definition X.      *)
(***************************************************************************)
EXTENDS Integers, FiniteSetsExt

CONSTANTS TIME_OUT,  \* rounds of polling a call makes at least
          Masks,     \* the sets of peripheral bits that callers name
          Factors    \* the factors they ask the PLL to use: calls and values

VARIABLES CR, ready, CFGR, PLLCFGR, ENR, call

clockVars == <<CR, ready, CFGR, PLLCFGR, ENR, call>>

Oscillators == {"HSI", "HSE", "PLL"}
Idle == [api |-> "none", clock |-> "HSI", rounds |-> 0, once |-> FALSE, copy |-> FALSE]

(* The registers after a reset. *)
Init == /\ CR = {"HSION", "HSITRIM"}
        /\ ready = {"HSI"}
        /\ CFGR = [SW |-> "HSI", SWS |-> "HSI"]
        /\ PLLCFGR = [source |-> "HSI", factors |-> {4, 12, 13}]
        /\ ENR = [bus \in {"AHB1", "AHB2", "APB1", "APB2"} |-> {}]
        /\ call = Idle

----------------------------------------------------------------------------
(* Peripherals *)

Value(mask) == MapThenSumSet(LAMBDA bit : 2^bit, mask)

(* The argument PerId is taken for a mask, not for the number of a bit.    *)
MRCC_EnablePeripheralClock(bus, mask) ==
    /\ Value(mask) <= 8
    /\ ENR' = [ENR EXCEPT ![bus] = @ \cup mask]

MRCC_DisablePeripheralClock(bus, mask) ==
    /\ Value(mask) < 8
    /\ ENR' = [ENR EXCEPT ![bus] = @ \ mask]

Accepts(bus, mask) == CASE bus \in {"AHB1", "APB2"} -> Value(mask) <= 2^22
                        [] bus = "APB1" -> Value(mask) <= 2^28
                        [] bus = "AHB2" -> mask = {7}

(* The register that is copied before the change. *)
Copied(bus) == IF bus = "APB2" THEN "AHB1" ELSE bus

(* MRCC_ControlClockAHP1Peripheral and those of the other buses *)
MRCC_ControlClockPeripheral(bus, mask, enable) ==
    /\ Accepts(bus, mask)
    /\ ENR' = [ENR EXCEPT ![bus] = IF enable THEN ENR[Copied(bus)] \cup mask
                                   ELSE ENR[Copied(bus)] \ mask]

Peripherals == /\ call = Idle
               /\ \E bus \in DOMAIN ENR, mask \in Masks :
                      \/ MRCC_EnablePeripheralClock(bus, mask)
                      \/ MRCC_DisablePeripheralClock(bus, mask)
                      \/ \E enable \in BOOLEAN : MRCC_ControlClockPeripheral(bus, mask, enable)
               /\ UNCHANGED <<CR, ready, CFGR, PLLCFGR, call>>

----------------------------------------------------------------------------
(* Oscillators *)

BitsOf(system) == CASE system = "RCC_CLOCK_HSI" -> {"HSION", "HSITRIM"}
                    [] system = "RCC_CLOCK_HSE_CRUSTAL" -> {"HSEON"}
                    [] system = "RCC_CLOCK_HSE_RC" -> {"HSEON", "HSEBYP"}
                    [] system = "RCC_CLOCK_PLL" -> {"PLLON"}

OnBit(clock) == CASE clock = "HSI" -> "HSION" [] clock = "HSE" -> "HSEON" [] clock = "PLL" -> "PLLON"

(* The chip keeps the clocks that the system runs from. *)
InUse == {CFGR.SWS} \cup (IF CFGR.SWS = "PLL" THEN {PLLCFGR.source} ELSE {})
Kept == {OnBit(clock) : clock \in InUse}

Still(bits, clocks) == {clock \in clocks : OnBit(clock) \in bits}

(* A clock that is turned off stops, and the PLL with its source, in less  *)
(* than the time between two calls.                                        *)
MRCC_ControlClock(system, enable) ==
    /\ CR' = IF enable THEN CR \cup BitsOf(system) ELSE (CR \ BitsOf(system)) \cup (CR \cap Kept)
    /\ ready' = LET left == Still(CR', ready)
                IN  IF PLLCFGR.source \in left THEN left ELSE left \ {"PLL"}
    /\ UNCHANGED <<CFGR, PLLCFGR, ENR, call>>

(* What the chip does: a clock that is on becomes ready, and the system    *)
(* changes over to the clock selected.                                     *)
Starts(clock) == /\ OnBit(clock) \in CR /\ clock \notin ready
                 /\ clock = "PLL" => PLLCFGR.source \in ready
                 /\ ready' = ready \cup {clock}
                 /\ UNCHANGED <<CR, CFGR, PLLCFGR, ENR, call>>

ChangesOver == /\ CFGR.SW # CFGR.SWS /\ CFGR.SW \in ready
               /\ CFGR' = [CFGR EXCEPT !.SWS = CFGR.SW]
               /\ UNCHANGED <<CR, ready, PLLCFGR, ENR, call>>

----------------------------------------------------------------------------
(* Calls that wait: MRCC_CheckHSIStatus and those of the other clocks, and *)
(* the selections that begin with one of them.  The loop goes on while the *)
(* clock is not ready OR rounds are left, so that it never gives up.  The  *)
(* registers are not volatile (RCC_Reg.h): a build may read CR once.       *)

Begin(api, clock) ==
    /\ \E once \in BOOLEAN :
           call' = [api |-> api, clock |-> clock, rounds |-> TIME_OUT,
                    once |-> once, copy |-> once /\ clock \in ready]
    /\ UNCHANGED <<CR, ready, CFGR, PLLCFGR, ENR>>

MRCC_CheckStatus(clock) == Begin("CheckStatus", clock)
MRCC_SelectSystemClock(clock) == Begin("SelectSystemClock", clock)
MRCC_SelectPLLInputClock(clock) == clock # "PLL" /\ Begin("SelectPLLInputClock", clock)

SeenReady == IF call.once THEN call.copy ELSE call.clock \in ready
GoesOn_Intended == ~SeenReady /\ call.rounds > 0
GoesOn == ~SeenReady \/ call.rounds > 0

Poll == /\ call # Idle /\ GoesOn
        /\ call' = [call EXCEPT !.rounds = IF @ > 0 THEN @ - 1 ELSE @]
        /\ UNCHANGED <<CR, ready, CFGR, PLLCFGR, ENR>>

(* The status: the check of the HSE looks at the ready bit of the PLL, but *)
(* none looks at it while TIME_OUT is not 0.                               *)
Looked == IF call.clock = "HSE" THEN "PLL" ELSE call.clock
IsReady == ~(TIME_OUT = 0 /\ Looked \notin ready)

PollEnds == /\ call # Idle /\ ~GoesOn
            /\ call' = Idle
            /\ CFGR' = IF call.api = "SelectSystemClock" /\ IsReady
                       THEN [CFGR EXCEPT !.SW = call.clock] ELSE CFGR
            /\ PLLCFGR' = IF call.api = "SelectPLLInputClock" /\ IsReady
                          THEN [PLLCFGR EXCEPT !.source = call.clock] ELSE PLLCFGR
            /\ UNCHANGED <<CR, ready, ENR>>

----------------------------------------------------------------------------
(* The factors of the PLL: refused while the system runs from it, which    *)
(* MRCC_GetSystemClock takes from the status of the switch.                *)

MRCC_GetSystemClock == CFGR.SWS
FactorsLocked_Never == FALSE
FactorsLocked == MRCC_GetSystemClock = "PLL"

Field(factor) == CASE factor = "M" -> 0 .. 5
                   [] factor = "N" -> 6 .. 14
                   [] factor = "P" -> 16 .. 17

InRange(factor, n) == CASE factor = "M" -> n \in 2 .. 63
                        [] factor = "N" -> n \in 192 * 2^6 .. 432 * 2^6
                        [] factor = "P" -> n <= 3 * 2^16

(* The value is the register's: it is not shifted into the field of the    *)
(* factor, and what it has below it is left in the fields there.           *)
MRCC_SelectPLLFactor(factor, mask) ==
    /\ InRange(factor, Value(mask)) /\ ~FactorsLocked
    /\ PLLCFGR' = [PLLCFGR EXCEPT !.factors = (@ \ Field(factor)) \cup mask]
    /\ UNCHANGED <<CR, ready, CFGR, ENR, call>>

----------------------------------------------------------------------------

Call == /\ call = Idle
        /\ \/ \E system \in {"RCC_CLOCK_HSI", "RCC_CLOCK_HSE_CRUSTAL", "RCC_CLOCK_HSE_RC", "RCC_CLOCK_PLL"} :
                  \E enable \in BOOLEAN : MRCC_ControlClock(system, enable)
           \/ \E clock \in Oscillators :
                  MRCC_CheckStatus(clock) \/ MRCC_SelectSystemClock(clock) \/ MRCC_SelectPLLInputClock(clock)
           \/ \E f \in Factors : MRCC_SelectPLLFactor(f[1], f[2])

Chip == ChangesOver \/ \E clock \in Oscillators : Starts(clock)

OscillatorsUsed == Call \/ Poll \/ PollEnds \/ Chip

Next == Peripherals \/ OscillatorsUsed

----------------------------------------------------------------------------
(* Correctness *)

(* The system is switched only to a clock that is ready, whatever callers  *)
(* have turned on and off, and the factors of the PLL stand still while it *)
(* runs from it.  That is why the wait for the clock must not give up:     *)
(* nothing looks at the outcome of the time-out.  (RCC.c:266, 339)         *)
RunsFromReady == [][/\ CFGR'.SW # CFGR.SW => CFGR'.SW \in ready
                    /\ CFGR.SWS = "PLL" => PLLCFGR'.factors = PLLCFGR.factors]_clockVars

=============================================================================
