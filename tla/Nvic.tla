-------------------------------- MODULE Nvic --------------------------------
(***************************************************************************)
(* NVIC.c: the driver of the interrupt controller, and the controller.     *)
(* ISER and ISPR are arrays of registers, each the set of its bits that    *)
(* are 1.  A 1 written to a bit of ISER or ICER, of ISPR or ICPR, sets or  *)
(* clears the bit of an interrupt, a 0 does nothing; ICER reads as ISER    *)
(* and ICPR as ISPR.  A call for a number past the last does nothing.  The *)
(* grouping of the priorities leaves three of their four bits to decide    *)
(* which interrupt preempts which.                                         *)
(*                                                                         *)
(* An operator named X_Fault is a faulty variant of the definition X.      *)
(***************************************************************************)
EXTENDS Integers, SequencesExt

CONSTANTS Interrupts,  \* the numbers that callers name
          Priorities   \* the priorities they give

VARIABLES grouped, ISER, ISPR, IPR,
          active,      \* the handlers begun, the innermost last
          wanted,      \* history: the interrupts enabled and not disabled since
          requested    \* history: those asked for, and not cleared or taken since

nvicVars == <<grouped, ISER, ISPR, IPR, active, wanted, requested>>

NVIC_IRQ_NUM == 85
Registers == 0 .. 7

Init == /\ grouped = FALSE
        /\ ISER = [r \in Registers |-> {}]
        /\ ISPR = [r \in Registers |-> {}]
        /\ IPR = [i \in Interrupts |-> 0]
        /\ active = <<>>
        /\ wanted = {}
        /\ requested = {}

(* A register has 32 interrupts.  What a call writes to it is 1 << Bit(i). *)
Register(i) == i \div 32
Bit(i) == i % 32
Written_OrRead(i) == {Bit(i)} \cup ISER[Register(i)]
Written(i) == {Bit(i)}

Sets(register, i) == [register EXCEPT ![Register(i)] = @ \cup Written(i)]
Clears(register, i) == [register EXCEPT ![Register(i)] = @ \ Written(i)]
IsSet(register, i) == Bit(i) \in register[Register(i)]

MNVIC_Init == /\ grouped' = TRUE
              /\ UNCHANGED <<ISER, ISPR, IPR, active, wanted, requested>>

MNVIC_EnableInterrupt(i) == /\ i < NVIC_IRQ_NUM
                            /\ ISER' = Sets(ISER, i)
                            /\ wanted' = wanted \cup {i}
                            /\ UNCHANGED <<grouped, ISPR, IPR, active, requested>>

MNVIC_DisableInterrupt(i) == /\ i < NVIC_IRQ_NUM
                             /\ ISER' = Clears(ISER, i)
                             /\ wanted' = wanted \ {i}
                             /\ UNCHANGED <<grouped, ISPR, IPR, active, requested>>

MNVIC_SetPanding(i) == /\ i < NVIC_IRQ_NUM
                       /\ ISPR' = Sets(ISPR, i)
                       /\ requested' = requested \cup {i}
                       /\ UNCHANGED <<grouped, ISER, IPR, active, wanted>>

MNVIC_Clearpanding(i) == /\ i < NVIC_IRQ_NUM
                         /\ ISPR' = Clears(ISPR, i)
                         /\ requested' = requested \ {i}
                         /\ UNCHANGED <<grouped, ISER, IPR, active, wanted>>

(* The mask that is returned is cut to the low 8 of its 32 bits.           *)
MNVIC_GetActiveStatus(i) == IF Contains(active, i) /\ Bit(i) < 8 THEN 2^Bit(i) ELSE 0

(* The priority is shifted into the upper half of a byte.                  *)
MNVIC_SetPriority(i, p) == /\ i < NVIC_IRQ_NUM
                           /\ IPR' = [IPR EXCEPT ![i] = p % 16]
                           /\ UNCHANGED <<grouped, ISER, ISPR, active, wanted, requested>>

----------------------------------------------------------------------------
(* The controller.  A number written to STIR asks for its interrupt, as a  *)
(* device does.  The controller takes an enabled interrupt that is more    *)
(* urgent than all handlers that have begun, and the innermost returns.    *)

Pends(i) == /\ ISPR' = [ISPR EXCEPT ![i \div 32] = @ \cup {i % 32}]
            /\ requested' = requested \cup {i}
            /\ UNCHANGED <<grouped, ISER, IPR, active, wanted>>

MNVIC_GenerateSWInterrupt(i) == i < NVIC_IRQ_NUM /\ Pends(i)

Urgency(i) == IF grouped THEN IPR[i] \div 2 ELSE IPR[i]

Takes(i) == /\ i % 32 \in ISER[i \div 32] \cap ISPR[i \div 32]
            /\ \A j \in ToSet(active) : Urgency(i) < Urgency(j)
            /\ ISPR' = [ISPR EXCEPT ![i \div 32] = @ \ {i % 32}]
            /\ active' = Append(active, i)
            /\ requested' = requested \ {i}
            /\ UNCHANGED <<grouped, ISER, IPR, wanted>>

Returns == /\ active # <<>>
           /\ active' = Front(active)
           /\ UNCHANGED <<grouped, ISER, ISPR, IPR, wanted, requested>>

Call == \/ MNVIC_Init
        \/ \E i \in Interrupts : \/ MNVIC_EnableInterrupt(i) \/ MNVIC_DisableInterrupt(i)
                                 \/ MNVIC_SetPanding(i) \/ MNVIC_Clearpanding(i)
                                 \/ MNVIC_GenerateSWInterrupt(i)
                                 \/ \E p \in Priorities : MNVIC_SetPriority(i, p)

Next == Call \/ Returns \/ \E i \in Interrupts : Takes(i)

----------------------------------------------------------------------------
(* Correctness *)

(* After any number of calls, which handlers that preempt each other make  *)
(* for interrupts that share a register or have the same bit in different  *)
(* ones, exactly those interrupts are enabled, and exactly those pending,  *)
(* that were asked for by their numbers and not taken back: no call hits   *)
(* another interrupt of the chip than the one it names, as one that read   *)
(* ICER before it writes would, and none is taken that was not asked for.  *)
(* (NVIC.c:92, 111, 130, 149)                                              *)
AsAsked == \A i \in 0 .. NVIC_IRQ_NUM - 1 :
               /\ IsSet(ISER, i) <=> i \in wanted
               /\ IsSet(ISPR, i) <=> i \in requested
=============================================================================
