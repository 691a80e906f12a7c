----------------------------- MODULE BoardProofs -----------------------------
(***************************************************************************)
(* Proofs about the drivers of MCAL and the start-up of main.c, for every  *)
(* wiring, every set of interrupts and channels, and every width of the    *)
(* system timer.  Each part has an invariant of its own, which the other   *)
(* parts leave alone.                                                      *)
(***************************************************************************)
EXTENDS Board, FiniteSetTheorems, TLAPS

(* The interrupt controller *)

(* The registers hold what was asked for.                                  *)
NvicHeld == /\ DOMAIN ISER = NVIC!Registers /\ DOMAIN ISPR = NVIC!Registers
            /\ AsAsked

(* Two interrupts differ in their register or in their bit.                *)
LEMMA OwnBit ==
    ASSUME NEW i \in Nat, NEW j \in Nat, i \div 32 = j \div 32, i % 32 = j % 32
    PROVE  i = j
<1>1. i = 32 * (i \div 32) + (i % 32) /\ j = 32 * (j \div 32) + (j % 32)
  OBVIOUS
<1> QED BY <1>1

(* What the chip's interrupts see of a change of the bit of one of them.   *)
LEMMA OneBit ==
    ASSUME NEW reg, DOMAIN reg = NVIC!Registers, NEW i \in Nat, NEW j \in 0 .. 84
    PROVE  /\ NVIC!IsSet([reg EXCEPT ![i \div 32] = @ \cup {i % 32}], j) <=> (NVIC!IsSet(reg, j) \/ j = i)
           /\ NVIC!IsSet([reg EXCEPT ![i \div 32] = @ \ {i % 32}], j) <=> (NVIC!IsSet(reg, j) /\ j # i)
<1>1. j \div 32 \in DOMAIN reg /\ j \in Nat
  BY DEF NVIC!Registers
<1>2. CASE i \div 32 = j \div 32
  BY <1>1, <1>2, OwnBit DEF NVIC!IsSet, NVIC!Bit, NVIC!Register
<1>3. CASE i \div 32 # j \div 32
  BY <1>1, <1>3 DEF NVIC!IsSet, NVIC!Bit, NVIC!Register
<1> QED BY <1>2, <1>3

(* The registers after a reset.                                            *)
LEMMA InitNvic == Init => NvicHeld
<1> SUFFICES ASSUME Init PROVE NvicHeld
  OBVIOUS
<1>1. /\ ISER = [r \in NVIC!Registers |-> {}] /\ ISPR = [r \in NVIC!Registers |-> {}]
      /\ wanted = {} /\ requested = {}
  BY DEF Init, NVIC!Init
<1>2. ASSUME NEW i \in 0 .. 84 PROVE ~NVIC!IsSet(ISER, i) /\ ~NVIC!IsSet(ISPR, i)
  <2>1. i \div 32 \in 0 .. 7
    OBVIOUS
  <2> QED BY <1>1, <2>1 DEF NVIC!IsSet, NVIC!Register, NVIC!Registers
<1> QED BY <1>1, <1>2 DEF NvicHeld, AsAsked, NVIC!AsAsked, NVIC!NVIC_IRQ_NUM

(* Every step keeps the invariant.                                         *)
LEMMA NextNvic == NvicHeld /\ [Next]_vars => NvicHeld'
<1> SUFFICES ASSUME NvicHeld, [Next]_vars PROVE NvicHeld'
  OBVIOUS
<1>0. /\ DOMAIN ISER = NVIC!Registers /\ DOMAIN ISPR = NVIC!Registers
      /\ \A j \in 0 .. 84 : /\ NVIC!IsSet(ISER, j) <=> (j \in wanted)
                            /\ NVIC!IsSet(ISPR, j) <=> (j \in requested)
  BY DEF NvicHeld, AsAsked, NVIC!AsAsked, NVIC!NVIC_IRQ_NUM
<1>1. SUFFICES /\ DOMAIN ISER' = NVIC!Registers /\ DOMAIN ISPR' = NVIC!Registers
               /\ \A j \in 0 .. 84 : /\ NVIC!IsSet(ISER', j) <=> (j \in wanted')
                                     /\ NVIC!IsSet(ISPR', j) <=> (j \in requested')
  BY DEF NvicHeld, AsAsked, NVIC!AsAsked, NVIC!NVIC_IRQ_NUM, NVIC!IsSet
<1>2. CASE UNCHANGED <<ISER, ISPR, wanted, requested>>
  BY <1>0, <1>2
<1>3. ASSUME NEW i \in Nat, UNCHANGED <<ISPR, requested>>,
             \/ ISER' = [ISER EXCEPT ![i \div 32] = @ \cup {i % 32}] /\ wanted' = wanted \cup {i}
             \/ ISER' = [ISER EXCEPT ![i \div 32] = @ \ {i % 32}] /\ wanted' = wanted \ {i}
      PROVE  /\ DOMAIN ISER' = NVIC!Registers /\ DOMAIN ISPR' = NVIC!Registers
             /\ \A j \in 0 .. 84 : /\ NVIC!IsSet(ISER', j) <=> (j \in wanted')
                                   /\ NVIC!IsSet(ISPR', j) <=> (j \in requested')
  <2> SUFFICES ASSUME NEW j \in 0 .. 84
               PROVE  /\ NVIC!IsSet(ISER', j) <=> (j \in wanted')
                      /\ NVIC!IsSet(ISPR', j) <=> (j \in requested')
    BY <1>0, <1>3
  <2>1. /\ NVIC!IsSet([ISER EXCEPT ![i \div 32] = @ \cup {i % 32}], j) <=> (NVIC!IsSet(ISER, j) \/ j = i)
        /\ NVIC!IsSet([ISER EXCEPT ![i \div 32] = @ \ {i % 32}], j) <=> (NVIC!IsSet(ISER, j) /\ j # i)
    BY <1>0, OneBit
  <2>2. NVIC!IsSet(ISPR', j) <=> (j \in requested')
    BY <1>0, <1>3
  <2>3. CASE ISER' = [ISER EXCEPT ![i \div 32] = @ \cup {i % 32}] /\ wanted' = wanted \cup {i}
    <3>1. NVIC!IsSet(ISER', j) <=> (NVIC!IsSet(ISER, j) \/ j = i)
      BY <2>1, <2>3
    <3> QED BY <1>0, <2>2, <2>3, <3>1
  <2>4. CASE ISER' = [ISER EXCEPT ![i \div 32] = @ \ {i % 32}] /\ wanted' = wanted \ {i}
    <3>1. NVIC!IsSet(ISER', j) <=> (NVIC!IsSet(ISER, j) /\ j # i)
      BY <2>1, <2>4
    <3> QED BY <1>0, <2>2, <2>4, <3>1
  <2> QED BY <1>3, <2>3, <2>4
<1>4. ASSUME NEW i \in Nat, UNCHANGED <<ISER, wanted>>,
             \/ ISPR' = [ISPR EXCEPT ![i \div 32] = @ \cup {i % 32}] /\ requested' = requested \cup {i}
             \/ ISPR' = [ISPR EXCEPT ![i \div 32] = @ \ {i % 32}] /\ requested' = requested \ {i}
      PROVE  /\ DOMAIN ISER' = NVIC!Registers /\ DOMAIN ISPR' = NVIC!Registers
             /\ \A j \in 0 .. 84 : /\ NVIC!IsSet(ISER', j) <=> (j \in wanted')
                                   /\ NVIC!IsSet(ISPR', j) <=> (j \in requested')
  <2> SUFFICES ASSUME NEW j \in 0 .. 84
               PROVE  /\ NVIC!IsSet(ISPR', j) <=> (j \in requested')
                      /\ NVIC!IsSet(ISER', j) <=> (j \in wanted')
    BY <1>0, <1>4
  <2>1. /\ NVIC!IsSet([ISPR EXCEPT ![i \div 32] = @ \cup {i % 32}], j) <=> (NVIC!IsSet(ISPR, j) \/ j = i)
        /\ NVIC!IsSet([ISPR EXCEPT ![i \div 32] = @ \ {i % 32}], j) <=> (NVIC!IsSet(ISPR, j) /\ j # i)
    BY <1>0, OneBit
  <2>2. NVIC!IsSet(ISER', j) <=> (j \in wanted')
    BY <1>0, <1>4
  <2>3. CASE ISPR' = [ISPR EXCEPT ![i \div 32] = @ \cup {i % 32}] /\ requested' = requested \cup {i}
    <3>1. NVIC!IsSet(ISPR', j) <=> (NVIC!IsSet(ISPR, j) \/ j = i)
      BY <2>1, <2>3
    <3> QED BY <1>0, <2>2, <2>3, <3>1
  <2>4. CASE ISPR' = [ISPR EXCEPT ![i \div 32] = @ \ {i % 32}] /\ requested' = requested \ {i}
    <3>1. NVIC!IsSet(ISPR', j) <=> (NVIC!IsSet(ISPR, j) /\ j # i)
      BY <2>1, <2>4
    <3> QED BY <1>0, <2>2, <2>4, <3>1
  <2> QED BY <1>4, <2>3, <2>4
<1>5. CASE NVIC!MNVIC_Init \/ NVIC!Returns
  BY <1>2, <1>5 DEF NVIC!MNVIC_Init, NVIC!Returns
<1>6. ASSUME NEW i \in Interrupts, NVIC!MNVIC_EnableInterrupt(i) \/ NVIC!MNVIC_DisableInterrupt(i)
      PROVE  /\ i \in Nat /\ UNCHANGED <<ISPR, requested>>
             /\ \/ ISER' = [ISER EXCEPT ![i \div 32] = @ \cup {i % 32}] /\ wanted' = wanted \cup {i}
                \/ ISER' = [ISER EXCEPT ![i \div 32] = @ \ {i % 32}] /\ wanted' = wanted \ {i}
  BY <1>6, InterruptsAssumption
     DEF NVIC!MNVIC_EnableInterrupt, NVIC!MNVIC_DisableInterrupt, NVIC!Sets, NVIC!Clears, NVIC!Written,
         NVIC!Register, NVIC!Bit
<1>7. ASSUME NEW i \in Interrupts, NVIC!MNVIC_SetPanding(i) \/ NVIC!MNVIC_Clearpanding(i)
      PROVE  /\ i \in Nat /\ UNCHANGED <<ISER, wanted>>
             /\ \/ ISPR' = [ISPR EXCEPT ![i \div 32] = @ \cup {i % 32}] /\ requested' = requested \cup {i}
                \/ ISPR' = [ISPR EXCEPT ![i \div 32] = @ \ {i % 32}] /\ requested' = requested \ {i}
  BY <1>7, InterruptsAssumption
     DEF NVIC!MNVIC_SetPanding, NVIC!MNVIC_Clearpanding, NVIC!Sets, NVIC!Clears, NVIC!Written,
         NVIC!Register, NVIC!Bit
<1>8. ASSUME NEW i \in Interrupts, NVIC!MNVIC_GenerateSWInterrupt(i) \/ NVIC!Takes(i)
      PROVE  /\ i \in Nat /\ UNCHANGED <<ISER, wanted>>
             /\ \/ ISPR' = [ISPR EXCEPT ![i \div 32] = @ \cup {i % 32}] /\ requested' = requested \cup {i}
                \/ ISPR' = [ISPR EXCEPT ![i \div 32] = @ \ {i % 32}] /\ requested' = requested \ {i}
  BY <1>8, InterruptsAssumption DEF NVIC!MNVIC_GenerateSWInterrupt, NVIC!Pends, NVIC!Takes
<1>9. ASSUME NEW i \in Interrupts, NEW p \in Priorities, NVIC!MNVIC_SetPriority(i, p)
      PROVE  UNCHANGED <<ISER, ISPR, wanted, requested>>
  BY <1>9 DEF NVIC!MNVIC_SetPriority
<1>10. UNCHANGED <<ISER, ISPR, wanted, requested>> \/ NVIC!Next
  BY DEF Next, vars, nvic, ClocksUsed, TimerUsed, NvicUsed, PinsUsed, SerialUsed
<1> QED BY <1>2, <1>3, <1>4, <1>5, <1>6, <1>7, <1>8, <1>9, <1>10 DEF NVIC!Next, NVIC!Call

(* Exactly the interrupts that were asked for by their numbers, and not    *)
(* taken back, are enabled and pending: all the chip's interrupts keep     *)
(* their own bits apart, wherever handlers preempt each other between two  *)
(* calls.  (NVIC.c:82-157)                                                 *)
THEOREM BitsAreAsAsked == Spec => []AsAsked
<1>1. NvicHeld => AsAsked
  BY DEF NvicHeld
<1> QED BY <1>1, InitNvic, NextNvic, PTL DEF Spec

----------------------------------------------------------------------------
(* The clocks *)

(* A call that has read its ready bit once, and found it set, still has a  *)
(* clock that is ready: no other call turns clocks off before it ends.     *)
ClocksHeld ==
    /\ CFGR = [f \in {"SW", "SWS"} |-> CFGR[f]]
    /\ PLLCFGR = [f \in {"source", "factors"} |-> PLLCFGR[f]]
    /\ call = [f \in {"api", "clock", "rounds", "once", "copy"} |-> call[f]]
    /\ call.once /\ call.copy => call.clock \in ready

(* The registers after a reset.                                            *)
LEMMA InitClocks == Init => ClocksHeld
<1> SUFFICES ASSUME Init PROVE ClocksHeld
  OBVIOUS
<1>1. /\ CFGR = [SW |-> "HSI", SWS |-> "HSI"]
      /\ PLLCFGR = [source |-> "HSI", factors |-> {4, 12, 13}]
      /\ call = [api |-> "none", clock |-> "HSI", rounds |-> 0, once |-> FALSE, copy |-> FALSE]
  BY DEF Init, RCC!Init, RCC!Idle
<1>2. CFGR = [f \in {"SW", "SWS"} |-> CFGR[f]]
  BY <1>1
<1>3. PLLCFGR = [f \in {"source", "factors"} |-> PLLCFGR[f]]
  BY <1>1
<1>4. call = [f \in {"api", "clock", "rounds", "once", "copy"} |-> call[f]]
  BY <1>1
<1>5. ~call.once
  BY <1>1
<1> QED BY <1>2, <1>3, <1>4, <1>5 DEF ClocksHeld

(* Who moves the clocks.                                                   *)
LEMMA ClocksLeft ==
    ASSUME [Next]_vars
    PROVE  \/ RCC!Peripherals \/ RCC!OscillatorsUsed
           \/ UNCHANGED <<CR, ready, CFGR, PLLCFGR, call>>
<1>1. CASE ClocksUsed
  BY <1>1 DEF ClocksUsed
<1>2. CASE PinsUsed
  BY <1>2 DEF PinsUsed, main, EnablesPort, InitsLeds, Runs, clocks
<1>3. CASE TimerUsed \/ NvicUsed \/ SerialUsed
  BY <1>3 DEF TimerUsed, NvicUsed, SerialUsed, clocks
<1>4. CASE UNCHANGED vars
  BY <1>4 DEF vars, clocks
<1> QED BY <1>1, <1>2, <1>3, <1>4 DEF Next

(* A call that ends has found its clock ready.                             *)
LEMMA EndsReady ==
    ASSUME ClocksHeld, RCC!PollEnds
    PROVE  call.clock \in ready
<1>1. IF call.once THEN call.copy ELSE call.clock \in ready
  BY DEF RCC!PollEnds, RCC!GoesOn, RCC!SeenReady
<1>2. CASE call.once
  BY <1>1, <1>2 DEF ClocksHeld
<1>3. CASE ~call.once
  BY <1>1, <1>3
<1> QED BY <1>2, <1>3

(* What a step does to the system clock and the PLL.                       *)
RunsReady == /\ CFGR'.SW # CFGR.SW => CFGR'.SW \in ready
             /\ CFGR.SWS = "PLL" => PLLCFGR'.factors = PLLCFGR.factors

(* Every step keeps the invariant, and what it promises.                   *)
LEMMA NextClocks == ClocksHeld /\ [Next]_vars => ClocksHeld' /\ RunsReady
<1> SUFFICES ASSUME ClocksHeld, [Next]_vars PROVE ClocksHeld' /\ RunsReady
  OBVIOUS
<1>0. /\ CFGR = [f \in {"SW", "SWS"} |-> CFGR[f]]
      /\ PLLCFGR = [f \in {"source", "factors"} |-> PLLCFGR[f]]
      /\ call = [f \in {"api", "clock", "rounds", "once", "copy"} |-> call[f]]
      /\ call.once /\ call.copy => call.clock \in ready
  BY DEF ClocksHeld
<1>1. CASE CFGR' = CFGR /\ PLLCFGR' = PLLCFGR /\ call' = call /\ ready \subseteq ready'
  BY <1>0, <1>1 DEF ClocksHeld, RunsReady
<1>2. ASSUME NEW system, NEW enable, call = RCC!Idle, RCC!MRCC_ControlClock(system, enable)
      PROVE  ClocksHeld' /\ RunsReady
  <2>1. CFGR' = CFGR /\ PLLCFGR' = PLLCFGR /\ call' = call
    BY <1>2 DEF RCC!MRCC_ControlClock
  <2>2. ~call.once
    BY <1>2 DEF RCC!Idle
  <2> QED BY <1>0, <2>1, <2>2 DEF ClocksHeld, RunsReady
<1>3. ASSUME NEW api, NEW clock, RCC!Begin(api, clock)
      PROVE  ClocksHeld' /\ RunsReady
  <2>1. PICK once \in BOOLEAN :
            call' = [api |-> api, clock |-> clock, rounds |-> TIME_OUT,
                     once |-> once, copy |-> once /\ clock \in ready]
    BY <1>3 DEF RCC!Begin
  <2>2. ready' = ready /\ CFGR' = CFGR /\ PLLCFGR' = PLLCFGR
    BY <1>3 DEF RCC!Begin
  <2>3. call' = [f \in {"api", "clock", "rounds", "once", "copy"} |-> call'[f]]
    BY <2>1
  <2>4. call'.clock = clock /\ (call'.copy => clock \in ready)
    BY <2>1
  <2> QED BY <1>0, <2>2, <2>3, <2>4 DEF ClocksHeld, RunsReady
<1>4. ASSUME NEW factor, NEW mask, RCC!MRCC_SelectPLLFactor(factor, mask)
      PROVE  ClocksHeld' /\ RunsReady
  <2>1. PLLCFGR' = [PLLCFGR EXCEPT !.factors = (@ \ RCC!Field(factor)) \cup mask] /\ CFGR.SWS # "PLL"
        /\ UNCHANGED <<CR, ready, CFGR, ENR, call>>
    BY <1>4 DEF RCC!MRCC_SelectPLLFactor, RCC!FactorsLocked, RCC!MRCC_GetSystemClock
  <2>2. PLLCFGR' = [f \in {"source", "factors"} |-> PLLCFGR'[f]]
    BY <1>0, <2>1
  <2> QED BY <1>0, <2>1, <2>2 DEF ClocksHeld, RunsReady
<1>5. CASE RCC!Poll
  <2>1. call' = [call EXCEPT !.rounds = IF @ > 0 THEN @ - 1 ELSE @]
        /\ UNCHANGED <<CR, ready, CFGR, PLLCFGR, ENR>>
    BY <1>5 DEF RCC!Poll
  <2>2. call' = [f \in {"api", "clock", "rounds", "once", "copy"} |-> call'[f]]
    BY <1>0, <2>1
  <2>3. call'.once = call.once /\ call'.copy = call.copy /\ call'.clock = call.clock
    BY <1>0, <2>1
  <2> QED BY <1>0, <2>1, <2>2, <2>3 DEF ClocksHeld, RunsReady
<1>6. CASE RCC!PollEnds
  <2>1. call.clock \in ready
    BY <1>6, EndsReady
  <2>2. /\ call' = RCC!Idle
        /\ CFGR' \in {CFGR, [CFGR EXCEPT !.SW = call.clock]}
        /\ PLLCFGR' \in {PLLCFGR, [PLLCFGR EXCEPT !.source = call.clock]}
        /\ ready' = ready
    BY <1>6 DEF RCC!PollEnds
  <2>3. CFGR' = [f \in {"SW", "SWS"} |-> CFGR'[f]] /\ CFGR'.SW \in {CFGR.SW, call.clock}
    BY <1>0, <2>2
  <2>4. /\ PLLCFGR' = [f \in {"source", "factors"} |-> PLLCFGR'[f]]
        /\ PLLCFGR'.factors = PLLCFGR.factors
    BY <1>0, <2>2
  <2>5. call' = [f \in {"api", "clock", "rounds", "once", "copy"} |-> call'[f]] /\ ~call'.once
    BY <2>2 DEF RCC!Idle
  <2> QED BY <2>1, <2>2, <2>3, <2>4, <2>5 DEF ClocksHeld, RunsReady
<1>7. CASE RCC!ChangesOver
  <2>1. CFGR' = [CFGR EXCEPT !.SWS = CFGR.SW] /\ UNCHANGED <<CR, ready, PLLCFGR, ENR, call>>
    BY <1>7 DEF RCC!ChangesOver
  <2>2. CFGR' = [f \in {"SW", "SWS"} |-> CFGR'[f]] /\ CFGR'.SW = CFGR.SW
    BY <1>0, <2>1
  <2> QED BY <1>0, <2>1, <2>2 DEF ClocksHeld, RunsReady
<1>8. ASSUME NEW clock, RCC!Starts(clock) PROVE ClocksHeld' /\ RunsReady
  BY <1>1, <1>8 DEF RCC!Starts
<1>9. CASE RCC!Peripherals
  BY <1>1, <1>9 DEF RCC!Peripherals
<1>10. CASE UNCHANGED <<CR, ready, CFGR, PLLCFGR, call>>
  BY <1>1, <1>10
<1> QED
  BY <1>2, <1>3, <1>4, <1>5, <1>6, <1>7, <1>8, <1>9, <1>10, ClocksLeft
     DEF RCC!OscillatorsUsed, RCC!Call, RCC!Chip, RCC!MRCC_CheckStatus, RCC!MRCC_SelectSystemClock,
         RCC!MRCC_SelectPLLInputClock

(* The system is switched only to a clock that is ready, for every number  *)
(* of rounds and whether a build reads the ready bit once or each time,    *)
(* and the factors of the PLL stand still while it runs from it.           *)
(* (RCC.c:266, 339, 476)                                                   *)
THEOREM SystemRunsFromReady == Spec => RunsFromReady
<1>1. ClocksHeld /\ [Next]_vars => [RunsReady]_(RCC!clockVars)
  BY NextClocks
<1> QED BY <1>1, InitClocks, NextClocks, PTL DEF Spec, RunsFromReady, RCC!RunsFromReady, RunsReady

----------------------------------------------------------------------------
(* The system timer *)

(* A wait that found the timer stopped at 0: it stays there until it is    *)
(* enabled, then goes once down from what was loaded, and its flag is not  *)
(* set before.                                                             *)
WaitHeld ==
    LET L == STK!LoadFor(wait.ms)
    IN  wait.stage # "none" /\ wait.fromZero =>
            /\ LOAD = L
            /\ wait.stage = "enable" => VAL = 0 /\ "ENABLE" \notin CTRL
            /\ wait.stage = "poll" => /\ "COUNTFLAG" \in CTRL => counts > L
                                      /\ counts <= L => IF counts = 0 THEN VAL = 0 ELSE VAL = L + 1 - counts
            /\ wait.stage = "disable" => counts > L

TimerHeld ==
    /\ wait \in [stage : {"none", "enable", "poll", "disable"}, ms : Nat, fromZero : BOOLEAN]
    /\ counts \in Nat /\ counts <= MaxLoad + 1
    /\ Clock_source \in {0, Clock}
    /\ WaitHeld

(* What is loaded fits the register.                                       *)
LEMMA LoadForIs ==
    ASSUME NEW ms \in Nat, Clock_source \in {0, Clock}
    PROVE  STK!LoadFor(ms) \in Nat /\ STK!LoadFor(ms) <= MaxLoad
<1>1. ms * Clock_source - 1 \in Int /\ MaxLoad + 1 \in Nat \ {0}
  BY TimerAssumption
<1> QED BY <1>1, TimerAssumption DEF STK!LoadFor

(* The registers after a reset.                                            *)
LEMMA InitTimer == Init => TimerHeld
  BY TimerAssumption DEF Init, STK!Init, STK!NoWait, TimerHeld, WaitHeld

(* Every step keeps the invariant.                                         *)
LEMMA NextTimer == TimerHeld /\ [Next]_vars => TimerHeld'
<1> SUFFICES ASSUME TimerHeld, [Next]_vars PROVE TimerHeld'
  OBVIOUS
<1> DEFINE L == STK!LoadFor(wait.ms)
<1>0. /\ wait \in [stage : {"none", "enable", "poll", "disable"}, ms : Nat, fromZero : BOOLEAN]
      /\ counts \in Nat /\ counts <= MaxLoad + 1 /\ MaxLoad \in Nat /\ Clock_source \in {0, Clock}
      /\ L \in Nat /\ L <= MaxLoad
      /\ wait.stage # "none" /\ wait.fromZero =>
            /\ LOAD = L
            /\ wait.stage = "enable" => VAL = 0 /\ "ENABLE" \notin CTRL
            /\ wait.stage = "poll" => /\ "COUNTFLAG" \in CTRL => counts > L
                                      /\ counts <= L => IF counts = 0 THEN VAL = 0 ELSE VAL = L + 1 - counts
            /\ wait.stage = "disable" => counts > L
  BY LoadForIs, TimerAssumption DEF TimerHeld, WaitHeld
<1>1. CASE STK!Count
  <2>1. /\ wait' = wait /\ LOAD' = LOAD /\ "ENABLE" \in CTRL /\ Clock_source' = Clock_source
        /\ VAL' = (IF VAL = 0 THEN LOAD ELSE VAL - 1)
        /\ CTRL' = (IF VAL = 1 THEN CTRL \cup {"COUNTFLAG"} ELSE CTRL)
        /\ counts' = (IF counts <= MaxLoad THEN counts + 1 ELSE counts)
    BY <1>1 DEF STK!Count, STK!Counted
  <2>2. L' = L
    BY <2>1 DEF STK!LoadFor
  <2> HIDE DEF L
  <2>3. counts' \in Nat /\ counts' <= MaxLoad + 1 /\ counts' >= counts
    BY <1>0, <2>1
  <2>4. ASSUME wait.stage = "poll", wait.fromZero
        PROVE  /\ "COUNTFLAG" \in CTRL' => counts' > L
               /\ counts' <= L => IF counts' = 0 THEN VAL' = 0 ELSE VAL' = L + 1 - counts'
    <3>1. CASE counts > L
      BY <1>0, <2>1, <2>3, <3>1
    <3>2. CASE counts <= L /\ counts = 0
      <4>1. VAL' = L /\ counts' = 1 /\ CTRL' = CTRL /\ "COUNTFLAG" \notin CTRL
        BY <1>0, <2>1, <2>4, <3>2
      <4> QED BY <1>0, <4>1
    <3>3. CASE counts <= L /\ counts # 0
      <4>1. VAL = L + 1 - counts /\ "COUNTFLAG" \notin CTRL /\ counts' = counts + 1
        BY <1>0, <2>1, <2>4, <3>3
      <4>2. VAL # 0 /\ VAL' = VAL - 1
        BY <1>0, <2>1, <3>3, <4>1
      <4>3. VAL' = L + 1 - counts'
        BY <1>0, <4>1, <4>2
      <4>4. VAL = 1 => counts' > L
        BY <1>0, <4>1
      <4> QED BY <1>0, <2>1, <4>1, <4>3, <4>4
    <3> QED BY <1>0, <3>1, <3>2, <3>3
  <2>5. wait'.stage # "none" /\ wait'.fromZero =>
            /\ LOAD' = L
            /\ wait'.stage = "enable" => VAL' = 0 /\ "ENABLE" \notin CTRL'
            /\ wait'.stage = "poll" => /\ "COUNTFLAG" \in CTRL' => counts' > L
                                       /\ counts' <= L => IF counts' = 0 THEN VAL' = 0
                                                          ELSE VAL' = L + 1 - counts'
            /\ wait'.stage = "disable" => counts' > L
    BY <1>0, <2>1, <2>3, <2>4
  <2> QED BY <1>0, <2>1, <2>2, <2>3, <2>5 DEF TimerHeld, WaitHeld, L
<1>2. CASE STK!Calls
  <2>1. /\ wait = STK!NoWait /\ wait' = wait /\ counts' = counts
        /\ Clock_source' \in {Clock_source, Clock}
    BY <1>2 DEF STK!Calls, STK!MSTK_Init
  <2>2. wait'.stage = "none"
    BY <2>1 DEF STK!NoWait
  <2> QED BY <1>0, <2>1, <2>2 DEF TimerHeld, WaitHeld
<1>3. ASSUME NEW ms \in Times, STK!WaitLoads(ms) PROVE TimerHeld'
  <2>1. /\ LOAD' = STK!LoadFor(ms) /\ VAL' = VAL /\ CTRL' = CTRL /\ counts' = counts
        /\ Clock_source' = Clock_source
        /\ wait' = [stage |-> "enable", ms |-> ms, fromZero |-> VAL = 0 /\ "ENABLE" \notin CTRL]
    BY <1>3 DEF STK!WaitLoads
  <2>2. wait'.stage = "enable" /\ wait'.ms = ms /\ (wait'.fromZero => VAL = 0 /\ "ENABLE" \notin CTRL)
    BY <2>1
  <2>3. ms \in Nat /\ (VAL = 0 /\ "ENABLE" \notin CTRL) \in BOOLEAN
    BY TimerAssumption
  <2>4. wait' \in [stage : {"none", "enable", "poll", "disable"}, ms : Nat, fromZero : BOOLEAN]
    BY <2>1, <2>3
  <2>5. STK!LoadFor(wait.ms)' = LOAD'
    BY <2>1, <2>2 DEF STK!LoadFor
  <2> QED BY <1>0, <2>1, <2>2, <2>4, <2>5 DEF TimerHeld, WaitHeld
<1>4. CASE STK!WaitEnables
  <2>1. /\ wait.stage = "enable" /\ wait' = [wait EXCEPT !.stage = "poll"]
        /\ CTRL' = (CTRL \ {"COUNTFLAG"}) \cup {"ENABLE"}
        /\ counts' = 0 /\ LOAD' = LOAD /\ VAL' = VAL /\ Clock_source' = Clock_source
    BY <1>4 DEF STK!WaitEnables, STK!GoesTo, STK!OrControl, STK!Read
  <2>2. /\ wait' \in [stage : {"none", "enable", "poll", "disable"}, ms : Nat, fromZero : BOOLEAN]
        /\ wait'.stage = "poll" /\ wait'.ms = wait.ms /\ wait'.fromZero = wait.fromZero
    BY <1>0, <2>1
  <2>3. "COUNTFLAG" \notin CTRL'
    BY <2>1
  <2>4. STK!LoadFor(wait.ms)' = STK!LoadFor(wait.ms)
    BY <2>1, <2>2 DEF STK!LoadFor
  <2> QED BY <1>0, <2>1, <2>2, <2>3, <2>4 DEF TimerHeld, WaitHeld
<1>5. CASE STK!WaitPolls
  <2>1. /\ wait.stage = "poll"
        /\ wait' = [wait EXCEPT !.stage = IF "COUNTFLAG" \in CTRL THEN "disable" ELSE "poll"]
        /\ CTRL' = CTRL \ {"COUNTFLAG"}
        /\ counts' = counts /\ LOAD' = LOAD /\ VAL' = VAL /\ Clock_source' = Clock_source
    BY <1>5 DEF STK!WaitPolls, STK!GoesTo, STK!Read
  <2>2. /\ wait' \in [stage : {"none", "enable", "poll", "disable"}, ms : Nat, fromZero : BOOLEAN]
        /\ wait'.stage = (IF "COUNTFLAG" \in CTRL THEN "disable" ELSE "poll")
        /\ wait'.ms = wait.ms /\ wait'.fromZero = wait.fromZero
    BY <1>0, <2>1
  <2>3. "COUNTFLAG" \notin CTRL'
    BY <2>1
  <2>4. STK!LoadFor(wait.ms)' = STK!LoadFor(wait.ms)
    BY <2>1, <2>2 DEF STK!LoadFor
  <2> QED BY <1>0, <2>1, <2>2, <2>3, <2>4 DEF TimerHeld, WaitHeld
<1>6. CASE STK!WaitDisables
  <2>1. wait' = STK!NoWait /\ counts' = counts /\ Clock_source' = Clock_source
    BY <1>6 DEF STK!WaitDisables
  <2>2. /\ wait' \in [stage : {"none", "enable", "poll", "disable"}, ms : Nat, fromZero : BOOLEAN]
        /\ wait'.stage = "none"
    BY <2>1 DEF STK!NoWait
  <2> QED BY <1>0, <2>1, <2>2 DEF TimerHeld, WaitHeld
<1>7. CASE UNCHANGED timer
  BY <1>7 DEF TimerHeld, WaitHeld, timer, STK!LoadFor
<1>8. STK!Next \/ UNCHANGED timer
  BY DEF Next, vars, ClocksUsed, TimerUsed, NvicUsed, PinsUsed, SerialUsed
<1> QED
  BY <1>1, <1>2, <1>3, <1>4, <1>5, <1>6, <1>7, <1>8 DEF STK!Next, STK!MSTK_SetBusyWaitMS

(* A busy wait that finds the timer stopped at 0 lasts as long as asked,   *)
(* for every number of milliseconds and every use of the timer before it,  *)
(* with the clock source as MSTK_Init leaves it or, before it, still 0.    *)
(* (STK.c:121)                                                             *)
THEOREM BusyWaitsLast == Spec => []BusyWaitLasts
<1>1. TimerHeld => BusyWaitLasts
  BY DEF TimerHeld, WaitHeld, BusyWaitLasts, STK!BusyWaitLasts
<1> QED BY <1>1, InitTimer, NextTimer, PTL DEF Spec

----------------------------------------------------------------------------
(* The serial lines *)

(* A rate that the divider meets although it has no fraction: its mantissa *)
(* fits the register, and what the division leaves is 2.5 % at most.       *)
Met(b) ==
    /\ b \in Nat /\ b <= 65535
    /\ 16000000 \div (8 * b) < 4096
    /\ 40 * (16000000 % (8 * b)) <= 16000000
    /\ 40 * (16000000 % (16 * b)) <= 16000000

(* A rate of this range leaves less than a fortieth of the clock.          *)
LEMMA SlowRatesMet ==
    ASSUME NEW b \in Nat, 489 <= b, b <= 25000
    PROVE  Met(b)
<1> DEFINE e == 8 * b
           d == 16 * b
<1>0. e \in Nat /\ e > 0 /\ d \in Nat /\ d > 0
  OBVIOUS
<1>1. /\ 16000000 % e < e /\ 16000000 % e \in Nat
      /\ 16000000 % d < d /\ 16000000 % d \in Nat
      /\ 16000000 \div e \in Nat /\ e * (16000000 \div e) <= 16000000
  <2> HIDE DEF d, e
  <2> QED BY <1>0
<1>2. 16000000 \div (8 * b) < 4096
  <2> DEFINE q == 16000000 \div (8 * b)
  <2>1. q \in Nat /\ 8 * (b * q) <= 16000000
    BY <1>1
  <2> HIDE DEF q
  <2>2. SUFFICES ASSUME q >= 4096 PROVE FALSE
    BY <2>1 DEF q
  <2>3. b * q >= 489 * 4096
    BY <2>1, <2>2
  <2> QED BY <2>1, <2>3
<1> QED BY <1>1, <1>2 DEF Met

(* What is left of a part of the clock in thousandths is below one.        *)
LEMMA ThousandthsLeft ==
    ASSUME NEW r \in Nat, NEW d \in Nat, r < d
    PROVE  (r * 1000) \div d \in 0 .. 999
<1> DEFINE k == (r * 1000) \div d
<1>1. k \in Nat /\ d * k <= r * 1000
  OBVIOUS
<1> HIDE DEF k
<1>2. SUFFICES ASSUME k >= 1000 PROVE FALSE
  BY <1>1 DEF k
<1>3. d * k >= d * 1000
  BY <1>1, <1>2
<1> QED BY <1>1, <1>3

(* The fraction is always 0, as it is divided by 1000 twice, and what      *)
(* remains is the whole part of the quotient.                              *)
LEMMA DividerIs ==
    ASSUME NEW b \in Nat, b > 0, NEW s \in BOOLEAN,
           NEW n, n = (IF s THEN 8 ELSE 16)
    PROVE  USART!Divider(b, s) = ((16000000 \div (b * n)) % 4096) * 16
<1> DEFINE d == b * n
           q == 16000000 \div d
           r == 16000000 % d
           rest == (r * 1000) \div d
           t == USART!Thousandths(b, s)
<1>1. n = USART!Samples(s) /\ n \in {8, 16}
  BY DEF USART!Samples
<1>2. d \in Nat /\ d > 0
  BY <1>1
<1>3. q \in Nat /\ r \in Nat /\ r < d
  BY <1>2
<1>4. t = q * 1000 + rest
  BY <1>1 DEF USART!Thousandths, USART!F_CLK
<1> HIDE DEF q, r, d, t
<1>5. rest \in 0 .. 999
  BY <1>2, <1>3, ThousandthsLeft
<1> HIDE DEF rest
<1>6. t \div 1000 = q /\ t % 1000 = rest
  BY <1>3, <1>4, <1>5
<1>7. USART!Fraction(b, s) = 0
  <2> DEFINE f == rest * n
  <2>1. f \in 0 .. 15984
    BY <1>1, <1>5
  <2>2. USART!Fraction(b, s) = (f \div 1000 + (IF f % 1000 >= 500 THEN 1 ELSE 0)) \div 1000
    BY <1>1, <1>6 DEF USART!Fraction, t
  <2> HIDE DEF f
  <2> QED BY <2>1, <2>2
<1>8. USART!Divider(b, s) = (q % 4096) * 16
  BY <1>1, <1>3, <1>6, <1>7 DEF USART!Divider, t
<1> QED BY <1>8 DEF q, d

(* A bit of so many cycles is at most 2.5 % too short for the rate.        *)
Within(bit, b) ==
    bit \in Nat /\ bit * b <= 16000000 /\ 40 * (16000000 - bit * b) <= 16000000

(* The bit that the divider makes is off by what the division leaves.      *)
LEMMA BitIs ==
    ASSUME NEW b \in Nat, b > 0, Met(b), NEW s \in BOOLEAN
    PROVE  /\ s = TRUE => Within(USART!Divider(b, s) \div 2, b)
           /\ s = FALSE => Within(USART!Divider(b, s), b)
<1> DEFINE n == IF s THEN 8 ELSE 16
           d == b * n
           q == 16000000 \div d
           r == 16000000 % d
<1>1. n \in {8, 16} /\ d \in Nat /\ d > 0
  OBVIOUS
<1>2. q \in Nat /\ r \in Nat /\ 16000000 = d * q + r
  BY <1>1
<1>3. 40 * r <= 16000000
  <2>1. d = 8 * b \/ d = 16 * b
    OBVIOUS
  <2> QED BY <2>1 DEF Met
<1>4. q < 4096
  <2> DEFINE q8 == 16000000 \div (8 * b)
             q16 == 16000000 \div (16 * b)
  <2>1. q8 < 4096 /\ q8 \in Nat /\ q16 \in Nat
    BY DEF Met
  <2>2. q = q8 \/ q = q16
    <3>1. d = 8 * b \/ d = 16 * b
      OBVIOUS
    <3> QED BY <3>1
  <2>3. 16 * b * q16 <= 16000000 /\ 16000000 < 8 * b * (q8 + 1)
    OBVIOUS
  <2> HIDE DEF q8, q16, q
  <2>4. b * q16 <= 1000000 /\ b * (q8 + 1) > 2000000
    BY <2>1, <2>3
  <2>5. q16 <= q8
    <3> SUFFICES ASSUME q16 >= q8 + 1 PROVE FALSE
      BY <2>1
    <3>1. b * q16 >= b * (q8 + 1)
      BY <2>1
    <3> QED BY <2>1, <2>4, <3>1
  <2> QED BY <2>1, <2>2, <2>5
<1>5. USART!Divider(b, s) = q * 16
  <2>1. USART!Divider(b, s) = (q % 4096) * 16
    BY DividerIs
  <2> HIDE DEF q
  <2> QED BY <2>1, <1>2, <1>4
<1>6. Within(q * n, b)
  <2>1. q * n * b = d * q /\ q * n \in Nat
    <3> HIDE DEF q
    <3> QED BY <1>2
  <2> HIDE DEF q, d, r
  <2> DEFINE bit == q * n
  <2>2. bit \in Nat /\ bit * b = d * q
    BY <2>1
  <2> HIDE DEF bit
  <2>3. Within(bit, b)
    BY <1>1, <1>2, <1>3, <2>2 DEF Within
  <2> QED BY <2>3 DEF bit
<1>7. ASSUME s = TRUE PROVE Within(USART!Divider(b, s) \div 2, b)
  <2>1. USART!Divider(b, s) \div 2 = q * n
    <3>1. n = 8
      BY <1>7
    <3> HIDE DEF q, n
    <3> QED BY <1>2, <1>5, <3>1
  <2> HIDE DEF q, n
  <2> QED BY <1>6, <2>1
<1>8. ASSUME s = FALSE PROVE Within(USART!Divider(b, s), b)
  <2>1. USART!Divider(b, s) = q * n
    <3>1. n = 16
      BY <1>8
    <3> HIDE DEF q, n
    <3> QED BY <1>2, <1>5, <3>1
  <2> HIDE DEF q, n
  <2> QED BY <1>6, <2>1
<1> QED BY <1>7, <1>8

(* Two rates above that range which are met as well.                       *)
LEMMA FastRatesMet == Met(38400) /\ Met(57600)
<1>1. /\ 16000000 \div 307200 = 52 /\ 16000000 % 307200 = 25600
      /\ 16000000 % 614400 = 25600
      /\ 16000000 \div 460800 = 34 /\ 16000000 % 460800 = 332800
      /\ 16000000 % 921600 = 332800
  OBVIOUS
<1> QED BY <1>1 DEF Met

(* Every channel has the divider of what it was asked for last, and the    *)
(* samples that it was computed for.                                       *)
Asked(c) == /\ asked[c].baud \in BaudRates /\ asked[c].sampling8 \in BOOLEAN
            /\ BRR[c] = USART!Divider(asked[c].baud, asked[c].sampling8)
            /\ (asked[c].sampling8 = TRUE) <=> ("OVER8" \in CR1[c])

RatesSet == /\ DOMAIN BRR = Channels /\ DOMAIN CR1 = Channels /\ DOMAIN asked = Channels
            /\ \A c \in Channels : asked[c].baud = 0 \/ Asked(c)

(* No channel is asked for anything at first.                              *)
LEMMA InitRates == Init => RatesSet
  BY DEF Init, USART!Init, USART!NotInitialised, RatesSet

(* A channel is given all of its rate at once, and no other one is.        *)
LEMMA NextRates == RatesSet /\ [Next]_vars => RatesSet'
<1> SUFFICES ASSUME RatesSet, [Next]_vars PROVE RatesSet'
  OBVIOUS
<1>1. ASSUME NEW k \in USART!Configurations, USART!USART_Init(k) PROVE RatesSet'
  <2>1. /\ k.instance \in Channels /\ k.baud \in BaudRates /\ "OVER8" \notin k.bits
    BY <1>1 DEF USART!USART_Init, USART!Configurations
  <2>2. k.sampling8 \in BOOLEAN
    BY DEF USART!Configurations
  <2>3. DOMAIN BRR' = Channels /\ DOMAIN CR1' = Channels /\ DOMAIN asked' = Channels
    BY <1>1 DEF RatesSet, USART!USART_Init
  <2>4. ASSUME NEW c \in Channels PROVE asked'[c].baud = 0 \/ Asked(c)'
    <3>1. CASE c # k.instance
      <4>1. asked'[c] = asked[c] /\ BRR'[c] = BRR[c] /\ CR1'[c] = CR1[c]
        BY <1>1, <3>1 DEF RatesSet, USART!USART_Init
      <4> QED BY <4>1 DEF RatesSet, Asked
    <3>2. CASE c = k.instance
      <4>1. asked'[c] = k /\ BRR'[c] = USART!Divider(k.baud, k.sampling8)
        BY <1>1, <2>1, <3>2 DEF RatesSet, USART!USART_Init
      <4>2. CR1'[c] = (IF k.sampling8 THEN {"OVER8"} ELSE {})
                      \cup (IF "PCE" \in k.bits THEN k.bits ELSE k.bits \ {"PS"})
        BY <1>1, <2>1, <3>2 DEF RatesSet, USART!USART_Init
      <4>3. (k.sampling8 = TRUE) <=> ("OVER8" \in CR1'[c])
        BY <2>1, <2>2, <4>2
      <4> QED BY <2>1, <2>2, <4>1, <4>3 DEF Asked
    <3> QED BY <3>1, <3>2
  <2> QED BY <2>3, <2>4 DEF RatesSet
<1>2. CASE UNCHANGED serial
  BY <1>2 DEF RatesSet, Asked, serial
<1>3. (\E k \in USART!Configurations : USART!USART_Init(k)) \/ UNCHANGED serial
  BY DEF Next, vars, serial, ClocksUsed, TimerUsed, NvicUsed, PinsUsed, SerialUsed,
         USART!Next, USART!Refuses, USART!serialVars
<1> QED BY <1>1, <1>2, <1>3

(* The rates from 489 to 25000 and two of the usual ones above.            *)
SlowRates == {b \in Nat : 489 <= b /\ b <= 25000}
KeptRates == SlowRates \cup {38400, 57600}

(* Every channel sends and expects what it was asked for last within       *)
(* 2.5 %, if it is one of these rates, however the others have been        *)
(* initialised since.  (USART.c:177)                                       *)
THEOREM RatesHold ==
    ASSUME BaudRates \subseteq KeptRates
    PROVE  Spec => []RateHolds
<1>1. \A b \in BaudRates : b \in Nat /\ b > 0 /\ Met(b)
  BY SlowRatesMet, FastRatesMet DEF KeptRates, SlowRates
<1>2. RatesSet => RateHolds
  <2> SUFFICES ASSUME RatesSet, NEW c \in Channels, asked[c].baud > 0
               PROVE  LET bit == IF "OVER8" \in CR1[c] THEN BRR[c] \div 2 ELSE BRR[c]
                          cycles == bit * asked[c].baud
                          off == IF cycles > 16000000 THEN cycles - 16000000 ELSE 16000000 - cycles
                      IN  off * 40 <= 16000000
    BY DEF RateHolds, USART!RateHolds, USART!F_CLK
  <2>1. Asked(c)
    BY DEF RatesSet
  <2> DEFINE bit == IF "OVER8" \in CR1[c] THEN BRR[c] \div 2 ELSE BRR[c]
             b == asked[c].baud
             s == asked[c].sampling8
             d == USART!Divider(b, s)
  <2>2. b \in Nat /\ b > 0 /\ Met(b) /\ s \in BOOLEAN
    BY <1>1, <2>1 DEF Asked
  <2>3. (s = TRUE) <=> ("OVER8" \in CR1[c])
    BY <2>1 DEF Asked
  <2>4. bit = (IF "OVER8" \in CR1[c] THEN d \div 2 ELSE d)
    BY <2>1 DEF Asked
  <2>5. (s = TRUE => Within(d \div 2, b)) /\ (s = FALSE => Within(d, b))
    <3> HIDE DEF b, s
    <3> QED BY <2>2, BitIs
  <2>6. Within(bit, b)
    <3> HIDE DEF bit, d, b
    <3>1. CASE s = TRUE
      BY <2>3, <2>4, <2>5, <3>1
    <3>2. CASE s = FALSE
      BY <2>3, <2>4, <2>5, <3>2
    <3> QED BY <2>2, <3>1, <3>2
  <2> HIDE DEF bit, b
  <2> DEFINE cycles == bit * b
  <2>7. cycles \in Nat /\ cycles <= 16000000 /\ 40 * (16000000 - cycles) <= 16000000
    BY <2>2, <2>6 DEF Within
  <2> DEFINE off == IF cycles > 16000000 THEN cycles - 16000000 ELSE 16000000 - cycles
  <2>8. off * 40 <= 16000000
    <3> HIDE DEF cycles
    <3> QED BY <2>7
  <2> QED BY <2>8 DEF bit, b
<1> QED BY <1>2, InitRates, NextRates, PTL DEF Spec

----------------------------------------------------------------------------
(* The start-up and the pins *)

Fields == {"MODER", "OTYPER", "PUPDR", "OSPEEDER", "AFR"}

(* The port of every LED has its clock from the call that enables it on.   *)
PortsHeld ==
    /\ stage \in {"GPIOA", "GPIOB", "HLED_Init", "scheduler"}
    /\ part = "pins" \/ stage = "GPIOA"
    /\ part = "pins" => "AHB1" \in DOMAIN ENR
    /\ stage = "GPIOB" => 0 \in ENR["AHB1"]
    /\ stage \in {"HLED_Init", "scheduler"} => 0 \in ENR["AHB1"] /\ 1 \in ENR["AHB1"]

(* The caller's record is of its pin, or of the one that the call left in  *)
(* it, neither of which is an LED's.                                       *)
CallerHeld == PinCfg = AFPin \/ (AFPin[2] <= 15 /\ PinCfg = <<AFPin[1], AFPin[2] - 8>>)

(* Nothing is asked of an LED before the start of the scheduler.           *)
LedHeld(l) ==
    /\ DOMAIN regs[LEDS[l].pin] = Fields
    /\ ODR[LEDS[l].pin] \in {0, 1}
    /\ status[l] \in {-1, 0, 1}
    /\ stage # "scheduler" => status[l] = -1
    /\ stage = "scheduler" => GPIO!Shows(l)

LedsHeld ==
    /\ PortsHeld /\ CallerHeld
    /\ DOMAIN regs = AllPins /\ DOMAIN ODR = AllPins /\ DOMAIN status = DOMAIN LEDS
    /\ \A l \in DOMAIN LEDS : LedHeld(l)

(* What is written to the pin of an LED is not lost.                       *)
LEMMA LedsWritten ==
    ASSUME NEW l \in DOMAIN LEDS, 0 \in ENR["AHB1"], 1 \in ENR["AHB1"]
    PROVE  GPIO!Written(LEDS[l].pin)
<1> DEFINE p == LEDS[l].pin
<1>1. p \in {"GPIOA", "GPIOB"} \X (0 .. 15)
  BY WiringAssumption
<1> HIDE DEF p
<1>2. p[1] \in {"GPIOA", "GPIOB"} /\ p[2] <= 15 /\ p[2] \in Nat
  BY <1>1
<1>3. PortBit(p[1]) \in ENR["AHB1"]
  BY <1>2 DEF PortBit
<1>4. GPIO!Written(p)
  BY <1>2, <1>3 DEF GPIO!Written, GPIO!Refused, GPIO!Port, GPIO!Number
<1> QED BY <1>4 DEF p

(* A pin that is initialised as an output pushes and pulls.                *)
LEMMA OutputIs ==
    ASSUME NEW r, NEW p \in DOMAIN r, DOMAIN r[p] = Fields, GPIO!Written(p),
           NEW x, x = GPIO!MGPIO_InitPin(r, p, 1, 2)[p]
    PROVE  x.MODER = 1 /\ x.OTYPER = 0 /\ DOMAIN x = Fields
<1> DEFINE rec == r[p]
<1>1. GPIO!Moder(1) = 1 /\ GPIO!Otyper(1) = 0
  BY DEF GPIO!Moder, GPIO!Otyper
<1>2. x = [rec EXCEPT !.MODER = GPIO!Moder(1), !.OTYPER = GPIO!Otyper(1),
                      !.PUPDR = GPIO!Pupdr(1), !.OSPEEDER = 2]
  BY DEF GPIO!MGPIO_InitPin
<1> HIDE DEF rec
<1>3. DOMAIN rec = Fields
  BY DEF rec
<1> QED BY <1>1, <1>2, <1>3 DEF Fields

(* The registers after a reset.                                            *)
LEMMA InitLeds == Init => LedsHeld
<1> SUFFICES ASSUME Init PROVE LedsHeld
  OBVIOUS
<1>1. PortsHeld
  BY DEF Init, RCC!Init, PortsHeld
<1>2. CallerHeld
  BY DEF Init, GPIO!Init, CallerHeld
<1>3. DOMAIN regs = AllPins /\ DOMAIN ODR = AllPins /\ DOMAIN status = DOMAIN LEDS
  BY DEF Init, GPIO!Init
<1>4. ASSUME NEW l \in DOMAIN LEDS PROVE LedHeld(l)
  <2>1. LEDS[l].pin \in AllPins
    BY WiringAssumption
  <2> QED BY <2>1 DEF Init, GPIO!Init, GPIO!NotAsked, LedHeld, Fields
<1> QED BY <1>1, <1>2, <1>3, <1>4 DEF LedsHeld

(* The steps of main: the clocks of the ports, then the pins.              *)
LEMMA MainLeds == LedsHeld /\ part = "pins" /\ part' = part /\ main => LedsHeld'
<1> SUFFICES ASSUME LedsHeld, part = "pins", part' = part, main PROVE LedsHeld'
  OBVIOUS
<1>1. ASSUME NEW port \in {"GPIOA", "GPIOB"}, NEW next \in {"GPIOB", "HLED_Init"},
             (port = "GPIOA") <=> (next = "GPIOB"), EnablesPort(port, next)
      PROVE  LedsHeld'
  <2>1. /\ stage = port /\ stage' = next
        /\ UNCHANGED <<regs, ODR, G_CLCD_State, PinCfg, status>>
        /\ ENR' = [ENR EXCEPT !["AHB1"] = ENR["AHB1"] \cup {PortBit(port)}]
    BY <1>1 DEF EnablesPort, RCC!MRCC_ControlClockPeripheral, RCC!Copied, pins
  <2>2. "AHB1" \in DOMAIN ENR /\ (stage = "GPIOB" => 0 \in ENR["AHB1"])
    BY DEF LedsHeld, PortsHeld
  <2>3. ENR'["AHB1"] = ENR["AHB1"] \cup {PortBit(port)} /\ "AHB1" \in DOMAIN ENR'
    BY <2>1, <2>2
  <2>4. PortsHeld'
    BY <1>1, <2>1, <2>2, <2>3 DEF PortsHeld, PortBit
  <2>5. \A l \in DOMAIN LEDS : LedHeld(l)'
    BY <1>1, <2>1 DEF LedsHeld, LedHeld
  <2> QED BY <2>1, <2>4, <2>5 DEF LedsHeld, CallerHeld
<1>2. CASE InitsLeds
  <2> DEFINE set == {LEDS[l].pin : l \in DOMAIN LEDS}
  <2>1. /\ stage = "HLED_Init" /\ stage' = "scheduler" /\ ENR' = ENR
        /\ ODR' = ODR /\ PinCfg' = PinCfg /\ status' = status
        /\ regs' = GPIO!InitAll(regs, set, 1)
    BY <1>2 DEF InitsLeds, GPIO!HLED_Init, GPIO!GPIO_MODE_OP_PP, clocks
  <2>2. PortsHeld' /\ CallerHeld' /\ DOMAIN regs' = AllPins
    BY <2>1 DEF LedsHeld, PortsHeld, CallerHeld, GPIO!InitAll
  <2>3. ASSUME NEW l \in DOMAIN LEDS PROVE LedHeld(l)'
    <3> DEFINE p == LEDS[l].pin
    <3>1. GPIO!Written(p) /\ p \in DOMAIN regs /\ DOMAIN regs[p] = Fields
      BY <2>1, LedsWritten, WiringAssumption DEF LedsHeld, PortsHeld, LedHeld
    <3>2. regs'[p] = GPIO!MGPIO_InitPin(regs, p, 1, 2)[p]
      BY <2>1, <3>1 DEF GPIO!InitAll, GPIO!GPIO_SPEED_HIGH
    <3>3. regs'[p].MODER = 1 /\ regs'[p].OTYPER = 0 /\ DOMAIN regs'[p] = Fields
      BY <3>1, <3>2, OutputIs
    <3> QED BY <2>1, <3>3 DEF LedsHeld, LedHeld, GPIO!Shows, GPIO!NotAsked
  <2> QED BY <2>1, <2>2, <2>3 DEF LedsHeld
<1> QED BY <1>1, <1>2 DEF main, AfterGPIOA

(* An LED is as it was when its pin and what is asked of it are.           *)
LEMMA LedLeft ==
    ASSUME NEW l \in DOMAIN LEDS, LedHeld(l), stage' = stage, status'[l] = status[l],
           regs'[LEDS[l].pin] = regs[LEDS[l].pin], ODR'[LEDS[l].pin] = ODR[LEDS[l].pin],
           G_CLCD_State = "CLCD_OFF" \/ G_CLCD_State' # "CLCD_OFF"
    PROVE  LedHeld(l)'
<1>1. GPIO!Overwritten(l) => GPIO!Overwritten(l)'
  BY DEF GPIO!Overwritten
<1> QED BY <1>1 DEF LedHeld, GPIO!Shows, GPIO!HLED_GetStatus, GPIO!MGPIO_GetPinState

(* What an LED shows of its output bit.                                    *)
LEMMA BitShows ==
    ASSUME NEW l \in DOMAIN LEDS, LedHeld(l), stage = "scheduler",
           NEW o \in {0, 1}, NEW s \in {-1, 0, 1},
           s # -1 /\ ~GPIO!Overwritten(l) => o = (IF LEDS[l].connection = s THEN 0 ELSE 1),
           stage' = stage, G_CLCD_State' = G_CLCD_State, regs'[LEDS[l].pin] = regs[LEDS[l].pin],
           ODR'[LEDS[l].pin] = o, status'[l] = s
    PROVE  LedHeld(l)'
<1> DEFINE p == LEDS[l].pin
           c == LEDS[l].connection
<1>1. c \in {0, 1}
  BY WiringAssumption
<1>2. regs[p].MODER = 1 /\ regs[p].OTYPER = 0 /\ DOMAIN regs[p] = Fields
  BY DEF LedHeld, GPIO!Shows
<1>3. s # -1 /\ ~GPIO!Overwritten(l) => (o = 1) = (s = 1 - c)
  BY <1>1
<1>4. s # -1 /\ ~GPIO!Overwritten(l) => GPIO!Xor(o, c) = s
  BY <1>1 DEF GPIO!Xor
<1>5. GPIO!Overwritten(l)' = GPIO!Overwritten(l)
  BY DEF GPIO!Overwritten
<1>6. GPIO!Shows(l)'
  BY <1>2, <1>3, <1>4, <1>5 DEF GPIO!Shows, GPIO!NotAsked, GPIO!HLED_GetStatus, GPIO!MGPIO_GetPinState
<1> QED BY <1>2, <1>6 DEF LedHeld

(* What the tasks and the other drivers do to the pins.                    *)
LEMMA RunsLeds == LedsHeld /\ part' = part /\ Runs => LedsHeld'
<1> SUFFICES ASSUME LedsHeld, part' = part, Runs PROVE LedsHeld'
  OBVIOUS
<1>0. /\ stage = "scheduler" /\ stage' = "scheduler" /\ ENR' = ENR
      /\ DOMAIN regs = AllPins /\ DOMAIN ODR = AllPins /\ DOMAIN status = DOMAIN LEDS
      /\ PortsHeld'
  BY DEF Runs, clocks, LedsHeld, PortsHeld
<1>1. ASSUME NEW l \in DOMAIN LEDS
      PROVE  /\ LEDS[l].pin \in AllPins /\ GPIO!Written(LEDS[l].pin) /\ LedHeld(l)
             /\ LEDS[l].connection \in {0, 1} /\ ODR[LEDS[l].pin] \in {0, 1} /\ status[l] \in {-1, 0, 1}
             /\ \A k \in DOMAIN LEDS \ {l} : LEDS[k].pin # LEDS[l].pin
  <2>1. LedHeld(l) /\ 0 \in ENR["AHB1"] /\ 1 \in ENR["AHB1"]
    BY <1>0 DEF LedsHeld, PortsHeld
  <2>2. GPIO!Written(LEDS[l].pin)
    BY <2>1, LedsWritten
  <2>3. /\ LEDS[l].pin \in AllPins /\ LEDS[l].connection \in {0, 1}
        /\ \A k \in DOMAIN LEDS \ {l} : LEDS[k].pin # LEDS[l].pin
    BY WiringAssumption
  <2> QED BY <2>1, <2>2, <2>3 DEF LedHeld
<1>2. ASSUME NEW k \in DOMAIN LEDS, NEW s \in {0, 1}, GPIO!HLED_SetStatus(k, s) PROVE LedsHeld'
  <2> DEFINE p == LEDS[k].pin
             o == GPIO!Xor(LEDS[k].connection, s)
  <2>1. ODR' = [ODR EXCEPT ![p] = o] /\ status' = [status EXCEPT ![k] = s] /\ regs' = regs /\ PinCfg' = PinCfg
        /\ G_CLCD_State' = G_CLCD_State
    BY <1>1, <1>2 DEF GPIO!HLED_SetStatus, GPIO!MGPIO_SetPin
  <2>2. o = (IF LEDS[k].connection = s THEN 0 ELSE 1)
    BY DEF GPIO!Xor
  <2> HIDE DEF o
  <2>3. ASSUME NEW l \in DOMAIN LEDS PROVE LedHeld(l)'
    <3>1. CASE l = k
      <4>1. ODR'[p] = o /\ status'[k] = s /\ o \in {0, 1}
        BY <1>0, <1>1, <2>1, <2>2
      <4> QED BY <1>0, <1>1, <2>1, <2>2, <3>1, <4>1, BitShows
    <3>2. CASE l # k
      <4>1. ODR'[LEDS[l].pin] = ODR[LEDS[l].pin] /\ status'[l] = status[l]
        BY <1>0, <1>1, <2>1, <3>2
      <4> QED BY <1>0, <1>1, <2>1, <4>1, LedLeft
    <3> QED BY <3>1, <3>2
  <2> QED BY <1>0, <2>1, <2>3 DEF LedsHeld, CallerHeld
<1>3. ASSUME NEW k \in DOMAIN LEDS, GPIO!HLED_Toggle(k) PROVE LedsHeld'
  <2> DEFINE p == LEDS[k].pin
             o == 1 - ODR[p]
             s == IF status[k] = -1 THEN -1 ELSE 1 - status[k]
  <2>1. ODR' = [ODR EXCEPT ![p] = 1 - ODR[p]] /\ status' = [status EXCEPT ![k] = s] /\ regs' = regs
        /\ PinCfg' = PinCfg /\ G_CLCD_State' = G_CLCD_State
    BY <1>0, <1>1, <1>3 DEF GPIO!HLED_Toggle, GPIO!MGPIO_TogglePin, GPIO!NotAsked
  <2>2. GPIO!Shows(k)
    BY <1>0, <1>1 DEF LedHeld
  <2>3. /\ o \in {0, 1} /\ s \in {-1, 0, 1}
        /\ s # -1 /\ ~GPIO!Overwritten(k) => o = (IF LEDS[k].connection = s THEN 0 ELSE 1)
    BY <1>1, <2>2 DEF GPIO!Shows, GPIO!NotAsked, GPIO!HLED_GetStatus, GPIO!MGPIO_GetPinState, GPIO!Xor
  <2>4. ASSUME NEW l \in DOMAIN LEDS PROVE LedHeld(l)'
    <3>1. CASE l = k
      <4>1. ODR'[p] = o /\ status'[k] = s
        BY <1>0, <1>1, <2>1
      <4> HIDE DEF o, s
      <4> QED BY <1>0, <1>1, <2>1, <2>3, <3>1, <4>1, BitShows
    <3>2. CASE l # k
      <4>1. ODR'[LEDS[l].pin] = ODR[LEDS[l].pin] /\ status'[l] = status[l]
        BY <1>0, <1>1, <2>1, <3>2
      <4> QED BY <1>0, <1>1, <2>1, <4>1, LedLeft
    <3> QED BY <3>1, <3>2
  <2>5. DOMAIN ODR' = AllPins /\ DOMAIN status' = DOMAIN LEDS /\ DOMAIN regs' = AllPins /\ CallerHeld'
    BY <1>0, <2>1 DEF LedsHeld, CallerHeld
  <2> QED BY <1>0, <2>4, <2>5 DEF LedsHeld
<1>4. ASSUME UNCHANGED <<ODR, PinCfg, status>>, DOMAIN regs' = AllPins,
             G_CLCD_State = "CLCD_OFF" \/ G_CLCD_State' # "CLCD_OFF",
             \A l \in DOMAIN LEDS : LET p == LEDS[l].pin IN
                 regs'[p] = regs[p] \/ regs'[p] = GPIO!MGPIO_InitPin(regs, p, 1, 2)[p]
      PROVE  LedsHeld'
  <2>1. ASSUME NEW l \in DOMAIN LEDS PROVE LedHeld(l)'
    <3> DEFINE p == LEDS[l].pin
    <3>1. regs'[p] = regs[p] \/ regs'[p] = GPIO!MGPIO_InitPin(regs, p, 1, 2)[p]
      BY <1>4
    <3>2. CASE regs'[p] = regs[p]
      BY <1>0, <1>1, <1>4, <3>2, LedLeft
    <3>3. CASE regs'[p] = GPIO!MGPIO_InitPin(regs, p, 1, 2)[p]
      <4>1. p \in DOMAIN regs /\ DOMAIN regs[p] = Fields /\ GPIO!Written(p)
        BY <1>0, <1>1 DEF LedHeld
      <4>2. regs'[p].MODER = 1 /\ regs'[p].OTYPER = 0 /\ DOMAIN regs'[p] = Fields
        BY <3>3, <4>1, OutputIs
      <4>3. GPIO!Overwritten(l) => GPIO!Overwritten(l)'
        BY <1>4 DEF GPIO!Overwritten
      <4> QED BY <1>0, <1>1, <1>4, <4>2, <4>3 DEF LedHeld, GPIO!Shows, GPIO!HLED_GetStatus,
                                          GPIO!MGPIO_GetPinState
    <3> QED BY <3>1, <3>2, <3>3
  <2> QED BY <1>0, <1>4, <2>1 DEF LedsHeld, CallerHeld
<1>5. CASE GPIO!CLCD_InitAsynch
  BY <1>0, <1>1, <1>4, <1>5 DEF GPIO!CLCD_InitAsynch, GPIO!InitAll, GPIO!GPIO_MODE_OP_PP, GPIO!GPIO_SPEED_HIGH
<1>6. CASE GPIO!HSWITCH_Init
  <2>1. ASSUME NEW l \in DOMAIN LEDS PROVE regs'[LEDS[l].pin] = regs[LEDS[l].pin]
    <3>1. LEDS[l].pin \in AllPins /\ \A s \in DOMAIN SWITCH : SWITCH[s].pin # LEDS[l].pin
      BY WiringAssumption
    <3> QED BY <1>6, <3>1 DEF GPIO!HSWITCH_Init
  <2>2. UNCHANGED <<ODR, G_CLCD_State, PinCfg, status>> /\ DOMAIN regs' = AllPins
    BY <1>6 DEF GPIO!HSWITCH_Init
  <2> QED BY <1>4, <2>1, <2>2
<1>7. CASE GPIO!KPD_INIT
  <2> DEFINE cols == GPIO!ToSet(KPD_Conf.col)
             rows == GPIO!ToSet(KPD_Conf.row)
  <2>1. ASSUME NEW l \in DOMAIN LEDS PROVE LEDS[l].pin \notin cols /\ LEDS[l].pin \notin rows
    BY WiringAssumption DEF GPIO!ToSet
  <2> HIDE DEF cols, rows
  <2>2. /\ regs' = GPIO!InitAll(GPIO!InitAll(regs, cols, KPD_Conf.colMode), rows, KPD_Conf.rowMode)
        /\ ODR' = [pin \in AllPins |-> IF pin \in cols THEN GPIO!MGPIO_SetPin(ODR, pin, 1)[pin] ELSE ODR[pin]]
        /\ UNCHANGED <<G_CLCD_State, PinCfg, status>>
    BY <1>7 DEF GPIO!KPD_INIT, cols, rows
  <2>3. ASSUME NEW l \in DOMAIN LEDS
        PROVE  regs'[LEDS[l].pin] = regs[LEDS[l].pin] /\ ODR'[LEDS[l].pin] = ODR[LEDS[l].pin]
    BY <1>0, <1>1, <2>1, <2>2 DEF GPIO!InitAll
  <2>4. \A l \in DOMAIN LEDS : LedHeld(l)'
    BY <1>0, <1>1, <2>2, <2>3, LedLeft
  <2>5. DOMAIN regs' = AllPins /\ DOMAIN ODR' = AllPins
    BY <1>0, <2>2 DEF GPIO!InitAll
  <2> QED BY <1>0, <2>2, <2>4, <2>5 DEF LedsHeld, CallerHeld
<1>8. ASSUME NEW mode \in 0 .. 31, GPIO!MGPIO_InitPinAF(mode) PROVE LedsHeld'
  <2>1. CallerHeld /\ AFPin[2] \in Nat
    BY WiringAssumption DEF LedsHeld
  <2>2. /\ UNCHANGED <<ODR, G_CLCD_State, status>> /\ PinCfg[2] <= 15
        /\ PinCfg' = IF PinCfg[2] > 7 THEN <<PinCfg[1], PinCfg[2] - 8>> ELSE PinCfg
    BY <1>8, <2>1 DEF GPIO!MGPIO_InitPinAF, GPIO!Refused, GPIO!Number, GPIO!Port, CallerHeld
  <2>3. CallerHeld'
    BY <2>1, <2>2 DEF CallerHeld
  <2>4. ASSUME NEW l \in DOMAIN LEDS PROVE regs'[LEDS[l].pin] = regs[LEDS[l].pin]
    <3>1. LEDS[l].pin # PinCfg
      BY <2>1, WiringAssumption DEF CallerHeld
    <3> QED BY <1>0, <1>1, <1>8, <3>1 DEF GPIO!MGPIO_InitPinAF
  <2>5. DOMAIN regs' = AllPins
    BY <1>0, <1>8 DEF GPIO!MGPIO_InitPinAF
  <2>6. \A l \in DOMAIN LEDS : LedHeld(l)'
    BY <1>0, <1>1, <2>2, <2>4, LedLeft
  <2> QED BY <1>0, <2>2, <2>3, <2>5, <2>6 DEF LedsHeld
<1>9. CASE GPIO!CLCD_TASK
  <2> DEFINE lcd == GPIO!ToSet(HLCD)
  <2>1. PICK level \in [lcd -> {0, 1}] :
            ODR' = [pin \in AllPins |-> IF pin \in lcd THEN GPIO!MGPIO_SetPin(ODR, pin, level[pin])[pin]
                                       ELSE ODR[pin]]
    BY <1>9 DEF GPIO!CLCD_TASK
  <2>2. G_CLCD_State # "CLCD_OFF" /\ UNCHANGED <<regs, G_CLCD_State, PinCfg, status>>
    BY <1>9 DEF GPIO!CLCD_TASK
  <2>3. ASSUME NEW l \in DOMAIN LEDS PROVE LedHeld(l)'
    <3> DEFINE p == LEDS[l].pin
    <3>1. CASE p \notin lcd
      BY <1>0, <1>1, <2>1, <2>2, <3>1, LedLeft
    <3>2. CASE p \in lcd
      <4>1. level[p] \in {0, 1} /\ p \in AllPins /\ GPIO!Written(p) /\ p \in DOMAIN ODR
        BY <1>0, <1>1, <2>1, <3>2
      <4> HIDE DEF lcd
      <4>2. ODR'[p] = level[p]
        BY <2>1, <3>2, <4>1 DEF GPIO!MGPIO_SetPin
      <4>3. GPIO!Overwritten(l)
        BY <2>2, <3>2 DEF GPIO!Overwritten, lcd
      <4> QED BY <1>0, <1>1, <2>2, <4>1, <4>2, <4>3, BitShows
    <3> QED BY <3>1, <3>2
  <2> QED BY <1>0, <2>1, <2>2, <2>3 DEF LedsHeld, CallerHeld
<1>10. GPIO!Next
  BY DEF Runs
<1> QED BY <1>2, <1>3, <1>5, <1>6, <1>7, <1>8, <1>9, <1>10 DEF GPIO!Next

(* Every step keeps the invariant; the other parts are used before main    *)
(* begins, which is where it stays then.                                   *)
LEMMA NextLeds == LedsHeld /\ [Next]_vars => LedsHeld'
<1> SUFFICES ASSUME LedsHeld, [Next]_vars PROVE LedsHeld'
  OBVIOUS
<1>1. CASE PinsUsed
  BY <1>1, MainLeds, RunsLeds DEF PinsUsed
<1>2. ASSUME UNCHANGED <<part, stage, regs, ODR, G_CLCD_State, PinCfg, status>>, part # "pins" \/ ENR' = ENR
      PROVE  LedsHeld'
  <2>1. PortsHeld'
    BY <1>2 DEF LedsHeld, PortsHeld
  <2>2. \A l \in DOMAIN LEDS : LedHeld(l)'
    BY <1>2, LedLeft DEF LedsHeld
  <2> QED BY <1>2, <2>1, <2>2 DEF LedsHeld, CallerHeld
<1>3. CASE ClocksUsed
  BY <1>2, <1>3 DEF ClocksUsed, pins
<1>4. CASE TimerUsed \/ NvicUsed \/ SerialUsed
  BY <1>2, <1>4 DEF TimerUsed, NvicUsed, SerialUsed, pins, clocks
<1>5. CASE UNCHANGED vars
  BY <1>2, <1>5 DEF vars, pins, clocks
<1> QED BY <1>1, <1>3, <1>4, <1>5 DEF Next

(* From the start of the scheduler on every LED is ready, whichever other  *)
(* drivers are initialised and whatever the LCD writes, and shows what is  *)
(* asked, for every wiring in which it shares its pin with the LCD at      *)
(* most, as long as the LCD does not write it.  (main.c:28, LCD.c:392)     *)
THEOREM EveryLedReady == Spec => []LedsReady
<1>1. LedsHeld => LedsReady
  BY DEF LedsHeld, LedHeld, LedsReady
<1> QED BY <1>1, InitLeds, NextLeds, PTL DEF Spec
=============================================================================
