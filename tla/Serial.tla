------------------------------- MODULE Serial -------------------------------
(***************************************************************************)
(* USART_Init of USART.c: the rate and the frame of each channel.  Usart   *)
(* has the transfers of a channel that is initialised.                     *)
(*                                                                         *)
(* An operator named X_Fault is a faulty variant of the definition X.      *)
(***************************************************************************)
EXTENDS Integers

CONSTANTS Channels,   \* the USARTs
          Instances,  \* what callers pass for one
          BaudRates   \* the rates callers ask for, in 1 .. 65535

VARIABLES BRR,              \* the baud rate register of each channel
          CR1,              \* its control register, as the set of its bits
          USART_Interrupt,  \* the interrupts sends and receives enable, of all channels
          asked             \* history: what each channel was last asked for

serialVars == <<BRR, CR1, USART_Interrupt, asked>>

F_CLK == 16000000
NotInitialised == [instance |-> "none", baud |-> 0, sampling8 |-> FALSE, bits |-> {}, interrupts |-> {}]

Init == /\ BRR = [c \in Channels |-> 0]
        /\ CR1 = [c \in Channels |-> {}]
        /\ USART_Interrupt = {}
        /\ asked = [c \in Channels |-> NotInitialised]

(* Samples of a bit *)
Samples_Sixteen(sampling8) == 16
Samples(sampling8) == IF sampling8 THEN 8 ELSE 16

(* The divider in thousandths; the products stay below 2^32.               *)
Thousandths(baud, sampling8) ==
    LET d == baud * Samples(sampling8)
    IN (F_CLK \div d) * 1000 + ((F_CLK % d) * 1000) \div d

(* The fraction in sixteenths or eighths, rounded; but it is divided by    *)
(* 1000 twice.                                                             *)
Fraction(baud, sampling8) ==
    LET f == (Thousandths(baud, sampling8) % 1000) * Samples(sampling8)
    IN (f \div 1000 + (IF f % 1000 >= 500 THEN 1 ELSE 0)) \div 1000

(* The mantissa is a u16, of which the register has the lower 12 bits.  A  *)
(* fraction that rounds up to 1 is carried.                                *)
Divider(baud, sampling8) ==
    LET carry == Fraction(baud, sampling8) >= Samples(sampling8)
        mantissa == (Thousandths(baud, sampling8) \div 1000) + (IF carry THEN 1 ELSE 0)
    IN (mantissa % 4096) * 16 + (IF carry THEN 0 ELSE Fraction(baud, sampling8))

(* A configuration is the bits of CR1 it sets, and the interrupts to be    *)
(* enabled later.  The parity is only chosen when it is enabled; the stop  *)
(* bits are checked but written nowhere.                                   *)
USART_Init(c) ==
    /\ c.instance \in Channels
    /\ BRR' = [BRR EXCEPT ![c.instance] = Divider(c.baud, c.sampling8)]
    /\ CR1' = [CR1 EXCEPT ![c.instance] =
                   (IF c.sampling8 THEN {"OVER8"} ELSE {})
                   \cup (IF "PCE" \in c.bits THEN c.bits ELSE c.bits \ {"PS"})]
    /\ USART_Interrupt' = c.interrupts
    /\ asked' = [asked EXCEPT ![c.instance] = c]

(* USART_UsartSelectError *)
Refuses(c) == c.instance \notin Channels /\ UNCHANGED serialVars

Configurations == [instance : Instances, baud : BaudRates, sampling8 : BOOLEAN,
                   bits : {{"TE", "UE"}, {"TE", "RE", "M", "PCE", "PS", "UE"}, {"RE", "PS", "UE"}},
                   interrupts : {{"TXE", "RXNE"}, {}}]

Next == \E c \in Configurations : USART_Init(c) \/ Refuses(c)

----------------------------------------------------------------------------
(* Correctness *)

(* What a channel sends and expects is what it was asked for last, however *)
(* the others have been initialised since: its bits differ in length from  *)
(* the rate by 2.5 % at most, which is what a receiver allows that samples *)
(* eight times, although the register never has a fraction, and with the   *)
(* samples the divider was computed for.  (USART.c:177)                    *)
RateHolds == \A c \in Channels :
    LET bit == IF "OVER8" \in CR1[c] THEN BRR[c] \div 2 ELSE BRR[c]  \* cycles of the clock
        cycles == bit * asked[c].baud
        off == IF cycles > F_CLK THEN cycles - F_CLK ELSE F_CLK - cycles
    IN asked[c].baud > 0 => off * 40 <= F_CLK
=============================================================================
