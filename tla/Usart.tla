------------------------------- MODULE Usart -------------------------------
(***************************************************************************)
(* One channel of the USART driver, MCAL/MUSART/USART.c: the calls of the  *)
(* foreground, the interrupt handler USARTx_IRQHandler, and the hardware   *)
(* they share.                                                             *)
(*                                                                         *)
(* The foreground is cut at every access to state the handler also uses,   *)
(* so the handler may run between any two of them; the two read-modify-    *)
(* write accesses of CR1 and of SR are a load and a store, because the     *)
(* handler changes CR1 and the line changes SR between them.  A byte is    *)
(* named by where it was read: <<b, k>> is byte k behind the data pointer  *)
(* of call b, whatever the size of its buffer.                             *)
(* X_Fault is a faulty variant of X that no specification uses; with it in *)
(* the place of X a property must fail.                                    *)
(***************************************************************************)
EXTENDS Integers, Sequences, FiniteSets

CONSTANTS Uses,          \* the ways a program may use the channel
          IsUSART6,      \* the handler is USART6_IRQHandler
          U8MAX,         \* the largest u8
          MaxCalls       \* bound: calls of the foreground

SendCalls == {"SendByteAsynchronous", "SendBufferZeroCopy",
              "SendBytesynchronous", "SendByteSynchByTime"}
ReceiveCalls == {"ReceiveBufferAsynchronous", "ReceiveBytesynchronous",
                 "ReceiveByteSynchByTime"}

(* calls: the API functions the foreground uses; sizes: of the buffers it
   passes; waitTx, waitRx: the calls it makes only when no send, no receive is
   in progress; arrivals: bound on the bytes that come in on the line. *)
ASSUME UsartAssumption ==
    /\ \A u \in Uses : /\ u.calls \subseteq SendCalls \cup ReceiveCalls
                       /\ u.sizes \subseteq Nat
                       /\ u.waitTx \subseteq u.calls /\ u.waitRx \subseteq u.calls
                       /\ u.arrivals \in Nat
    /\ IsUSART6 \in BOOLEAN
    /\ U8MAX \in Nat \ {0}
    /\ MaxCalls \in Nat

VARIABLES use,       \* how this program uses the channel
          tx,        \* Uart_prvTX_...: BuzyFlag, BufferIndex, BufferSize, BufferSend
          rx,        \* Uart_prvRx_...: BuzyFlag, BufferIndex, BufferSize, BufferReceive
          hw,        \* DR (tdr, rdr), the shift register, SR.TC and SR.RXNE; seen: SR was read with TC set
          cr1,       \* the interrupt enables of CR1
          pc,        \* the foreground: the step it takes next
          calls,     \* history: its calls, the last one being the one it is in
          reg,       \* the copy of CR1 it works on
          isr,       \* the handler: the step it takes next
          wire,      \* history: bytes that went out
          expected,  \* history: bytes of the sends accepted, in order
          stored,    \* history: where the handler put received bytes
          arrived    \* history: bytes that came in

vars == <<use, tx, rx, hw, cr1, pc, calls, reg, isr, wire, expected, stored, arrived>>

Nothing == <<>>
NULL == [of |-> 0, field |-> "none"]
U8(n) == n % (U8MAX + 1)

Init == /\ use \in Uses
        /\ tx = [busy |-> FALSE, index |-> 0, size |-> 0, send |-> 0]
        /\ rx = [busy |-> FALSE, index |-> 0, size |-> 0, into |-> NULL]
        /\ \E tc \in BOOLEAN :   \* USART_Init clears TC, the idle frame may set it again
             hw = [tdr |-> Nothing, shift |-> Nothing, tc |-> tc, seen |-> FALSE,
                   rxne |-> FALSE, rdr |-> 0]
        /\ cr1 = [tcie |-> FALSE, rxneie |-> FALSE]
        /\ pc = "idle"
        /\ calls = <<>>
        /\ reg = cr1
        /\ isr = "off"
        /\ wire = <<>>
        /\ expected = <<>>
        /\ stored = <<>>
        /\ arrived = 0

----------------------------------------------------------------------------
(* The hardware *)

(* A write of DR: the byte goes to the shift register if that is free, else
   it waits in the data register, over the one waiting there.  TC falls if
   SR was read while it was set. *)
WriteDR(byte, sr) ==
    /\ hw' = IF sr.shift = Nothing
             THEN [sr EXCEPT !.shift = byte, !.tc = @ /\ ~sr.seen, !.seen = FALSE]
             ELSE [sr EXCEPT !.tdr = byte, !.tc = @ /\ ~sr.seen, !.seen = FALSE]
    /\ wire' = IF sr.shift = Nothing THEN Append(wire, byte) ELSE wire

(* A byte has been shifted out: the next follows, or transmission is complete. *)
ShiftOut == /\ hw.shift # Nothing
            /\ hw' = [hw EXCEPT !.shift = hw.tdr, !.tdr = Nothing, !.tc = @ \/ hw.tdr = Nothing]
            /\ wire' = IF hw.tdr = Nothing THEN wire ELSE Append(wire, hw.tdr)
            /\ UNCHANGED <<use, tx, rx, cr1, pc, calls, reg, isr, expected, stored, arrived>>

(* A byte comes in; if the one before was not read yet, it is lost. *)
Arrive == /\ arrived < use.arrivals
          /\ arrived' = arrived + 1
          /\ hw' = IF hw.rxne THEN hw ELSE [hw EXCEPT !.rxne = TRUE, !.rdr = arrived + 1]
          /\ UNCHANGED <<use, tx, rx, cr1, pc, calls, reg, isr, wire, expected, stored>>

Interrupting == (cr1.tcie /\ hw.tc) \/ (cr1.rxneie /\ hw.rxne)

----------------------------------------------------------------------------
(* USARTx_IRQHandler *)

Irq == /\ isr = "off"
       /\ Interrupting
       /\ isr' = "rx"
       /\ UNCHANGED <<use, tx, rx, hw, cr1, pc, calls, reg, wire, expected, stored, arrived>>

(* The buffer is full when its size equals the index already counted up. *)
Full == rx.size = U8(rx.index + 1)

Place_Previous == U8(rx.index + U8MAX)
Place == rx.index

(* The receive branch: the byte goes behind the pointer. *)
IrqReceive ==
    /\ isr = "rx"
    /\ IF rx.busy /\ hw.rxne
       THEN /\ stored' = Append(stored, [at |-> rx.into, index |-> Place, byte |-> hw.rdr])
            /\ rx' = [rx EXCEPT !.index = U8(@ + 1)]
            /\ hw' = [hw EXCEPT !.rxne = FALSE]
            /\ isr' = IF Full THEN "received" ELSE "tx"
       ELSE /\ isr' = "tx"
            /\ UNCHANGED <<stored, rx, hw>>
    /\ UNCHANGED <<use, tx, cr1, pc, calls, reg, wire, expected, arrived>>

RxDisarmed_Kept(c) == c
RxDisarmed(c) == [c EXCEPT !.rxneie = FALSE]

Free(r) == [r EXCEPT !.busy = FALSE, !.size = 0]

(* The buffer is full.  USART1 and USART2 disable the receive interrupt;
   USART6 leaves it enabled and does SR &= ~RXNE instead, a load here ... *)
IrqReceived ==
    /\ isr = "received"
    /\ IF IsUSART6
       THEN /\ hw' = [hw EXCEPT !.seen = @ \/ hw.tc]
            /\ isr' = IF hw.tc THEN "clearRXNE" ELSE "clearAll"
            /\ UNCHANGED cr1
       ELSE /\ cr1' = RxDisarmed(cr1)
            /\ isr' = "freed"
            /\ UNCHANGED hw
    /\ UNCHANGED <<use, tx, rx, pc, calls, reg, wire, expected, stored, arrived>>

(* ... and a store here, under which TC falls too unless it was set at the
   load.  The channel is idle again. *)
IrqFreed ==
    /\ isr \in {"freed", "clearRXNE", "clearAll"}
    /\ hw' = IF isr = "freed" THEN hw
             ELSE [hw EXCEPT !.rxne = FALSE, !.tc = @ /\ isr = "clearRXNE"]
    /\ rx' = Free(rx)
    /\ isr' = "tx"
    /\ UNCHANGED <<use, tx, cr1, pc, calls, reg, wire, expected, stored, arrived>>

AllSent == tx.index = tx.size

Idle_StillBusy(t) == [t EXCEPT !.size = 0]
Idle(t) == [t EXCEPT !.busy = FALSE, !.size = 0]

TxDisarmed(c) == [c EXCEPT !.tcie = FALSE]

(* The transmit branch looks at TC, whichever interrupt it was.  All sent:
   the channel is idle and the callback runs. *)
IrqComplete == /\ isr = "tx"
               /\ hw.tc
               /\ AllSent
               /\ tx' = Idle(tx)
               /\ cr1' = TxDisarmed(cr1)
               /\ hw' = [hw EXCEPT !.seen = TRUE]
               /\ isr' = "off"
               /\ UNCHANGED <<use, rx, pc, calls, reg, wire, expected, stored, arrived>>

IrqNothing == /\ isr = "tx"
              /\ ~hw.tc
              /\ isr' = "off"
              /\ UNCHANGED <<use, tx, rx, hw, cr1, pc, calls, reg, wire, expected, stored, arrived>>

(* SR &= ~TC, the load. *)
IrqLoadSR == /\ isr = "tx"
             /\ hw.tc
             /\ ~AllSent
             /\ hw' = [hw EXCEPT !.seen = TRUE]
             /\ isr' = IF hw.rxne THEN "clearTC" ELSE "clearBoth"
             /\ UNCHANGED <<use, tx, rx, cr1, pc, calls, reg, wire, expected, stored, arrived>>

(* The store: a zero written to a flag clears it, so RXNE falls too unless
   it was already set at the load. *)
IrqStoreSR == /\ isr \in {"clearTC", "clearBoth"}
              /\ hw' = [hw EXCEPT !.tc = FALSE, !.rxne = @ /\ isr = "clearTC"]
              /\ isr' = "send"
              /\ UNCHANGED <<use, tx, rx, cr1, pc, calls, reg, wire, expected, stored, arrived>>

IrqSend == /\ isr = "send"
           /\ WriteDR(<<tx.send, tx.index>>, hw)
           /\ tx' = [tx EXCEPT !.index = U8(@ + 1)]
           /\ isr' = "off"
           /\ UNCHANGED <<use, rx, cr1, pc, calls, reg, expected, stored, arrived>>

Handler == \/ Irq \/ IrqReceive \/ IrqReceived \/ IrqFreed
           \/ IrqComplete \/ IrqNothing \/ IrqLoadSR \/ IrqStoreSR \/ IrqSend

----------------------------------------------------------------------------
(* The calls of the foreground, which runs while no interrupt is pending. *)

This == Len(calls)
Current == calls[This]

At(step) == pc = step /\ isr = "off" /\ ~Interrupting

Call(api, size) ==
    /\ At("idle")
    /\ Len(calls) < MaxCalls
    /\ api \in use.waitTx => ~tx.busy
    /\ api \in use.waitRx => ~rx.busy
    /\ calls' = Append(calls, [api |-> api, size |-> size])
    /\ pc' = "check"
    /\ UNCHANGED <<use, tx, rx, hw, cr1, reg, isr, wire, expected, stored, arrived>>

(* The bytes of a buffer. *)
Bytes(b, n) == [k \in 1 .. n |-> <<b, k - 1>>]

(* USART_SendByteAsynchronous: refused while busy. *)
CheckByte == /\ At("check")
             /\ Current.api = "SendByteAsynchronous"
             /\ IF tx.busy THEN pc' = "idle" /\ UNCHANGED expected
                           ELSE pc' = "data" /\ expected' = expected \o Bytes(This, 1)
             /\ UNCHANGED <<use, tx, rx, hw, cr1, calls, reg, isr, wire, stored, arrived>>

(* USART_SendBufferZeroCopy: while busy it reports LBTY_Busy, keeps the
   pointer of the buffer being sent, and goes on all the same. *)
CheckBuffer == /\ At("check")
               /\ Current.api = "SendBufferZeroCopy"
               /\ IF tx.busy
                  THEN UNCHANGED <<tx, expected>>
                  ELSE /\ tx' = [tx EXCEPT !.send = This]
                       /\ expected' = expected \o Bytes(This, Current.size)
               /\ pc' = "data"
               /\ UNCHANGED <<use, rx, hw, cr1, calls, reg, isr, wire, stored, arrived>>

WriteData == /\ At("data")
             /\ WriteDR(<<This, 0>>, hw)
             /\ pc' = "busy"
             /\ UNCHANGED <<use, tx, rx, cr1, calls, reg, isr, expected, stored, arrived>>

SetBusy == /\ At("busy")
           /\ tx' = [tx EXCEPT !.busy = TRUE]
           /\ pc' = "index"
           /\ UNCHANGED <<use, rx, hw, cr1, calls, reg, isr, wire, expected, stored, arrived>>

FirstUnsent_Again == 0
FirstUnsent == 1

SetIndex == /\ At("index")
            /\ tx' = [tx EXCEPT !.index = FirstUnsent]
            /\ pc' = "size"
            /\ UNCHANGED <<use, rx, hw, cr1, calls, reg, isr, wire, expected, stored, arrived>>

(* The u32 size goes into a u8. *)
SetSize == /\ At("size")
           /\ tx' = [tx EXCEPT !.size = IF Current.api = "SendBufferZeroCopy" THEN U8(Current.size) ELSE 1]
           /\ pc' = "load"
           /\ UNCHANGED <<use, rx, hw, cr1, calls, reg, isr, wire, expected, stored, arrived>>

(* CR1 |= the interrupt enable of the direction. *)
LoadCR1 == /\ At("load")
           /\ reg' = cr1
           /\ pc' = "store"
           /\ UNCHANGED <<use, tx, rx, hw, cr1, calls, isr, wire, expected, stored, arrived>>

StoreCR1 == /\ At("store")
            /\ cr1' = IF Current.api \in SendCalls THEN [reg EXCEPT !.tcie = TRUE]
                                                ELSE [reg EXCEPT !.rxneie = TRUE]
            /\ pc' = "idle"
            /\ UNCHANGED <<use, tx, rx, hw, calls, reg, isr, wire, expected, stored, arrived>>

(* USART_ReceiveBufferAsynchronous: refused while busy.  The pointer it sets
   is the address of the field Data, not the pointer held there. *)
CheckReceive == /\ At("check")
                /\ Current.api = "ReceiveBufferAsynchronous"
                /\ IF rx.busy THEN pc' = "idle" /\ UNCHANGED rx
                              ELSE pc' = "into" /\ rx' = [rx EXCEPT !.busy = TRUE]
                /\ UNCHANGED <<use, tx, hw, cr1, calls, reg, isr, wire, expected, stored, arrived>>

Pointer(b) == [of |-> b, field |-> "&Data"]

SetInto == /\ At("into")
           /\ rx' = [rx EXCEPT !.into = Pointer(This)]
           /\ pc' = "rxindex"
           /\ UNCHANGED <<use, tx, hw, cr1, calls, reg, isr, wire, expected, stored, arrived>>

SetRxIndex == /\ At("rxindex")
              /\ rx' = [rx EXCEPT !.index = 0]
              /\ pc' = "rxsize"
              /\ UNCHANGED <<use, tx, hw, cr1, calls, reg, isr, wire, expected, stored, arrived>>

SetRxSize == /\ At("rxsize")
             /\ rx' = [rx EXCEPT !.size = U8(Current.size)]
             /\ pc' = "load"
             /\ UNCHANGED <<use, tx, hw, cr1, calls, reg, isr, wire, expected, stored, arrived>>

(* USART_SendBytesynchronous writes DR and waits for TC; the byte goes out
   in turn if it overwrote none. *)
SendAndWait == /\ At("check")
               /\ Current.api = "SendBytesynchronous"
               /\ WriteDR(<<This, 0>>, hw)
               /\ expected' = expected \o Bytes(This, 1)
               /\ pc' = "wait"
               /\ UNCHANGED <<use, tx, rx, cr1, calls, reg, isr, stored, arrived>>

WaitTC == /\ At("wait")
          /\ hw.tc
          /\ hw' = [hw EXCEPT !.seen = TRUE]
          /\ pc' = "idle"
          /\ UNCHANGED <<use, tx, rx, cr1, calls, reg, isr, wire, expected, stored, arrived>>

(* USART_SendByteSynchByTime writes DR if it is free and drops the byte if not. *)
SendNow == /\ At("check")
           /\ Current.api = "SendByteSynchByTime"
           /\ LET sr == [hw EXCEPT !.seen = @ \/ hw.tc]
              IN  IF hw.tdr = Nothing
                  THEN /\ WriteDR(<<This, 0>>, sr)
                       /\ expected' = expected \o Bytes(This, 1)
                  ELSE hw' = sr /\ UNCHANGED <<wire, expected>>
           /\ pc' = "idle"
           /\ UNCHANGED <<use, tx, rx, cr1, calls, reg, isr, stored, arrived>>

(* USART_ReceiveBytesynchronous waits for a byte, the ByTime variant takes
   one only if it is there. *)
ReceiveNow == /\ At("check")
              /\ Current.api \in {"ReceiveBytesynchronous", "ReceiveByteSynchByTime"}
              /\ Current.api = "ReceiveBytesynchronous" => hw.rxne
              /\ hw' = [hw EXCEPT !.rxne = FALSE, !.seen = @ \/ hw.tc]
              /\ pc' = "idle"
              /\ UNCHANGED <<use, tx, rx, cr1, calls, reg, isr, wire, expected, stored, arrived>>

Continue == \/ CheckByte \/ CheckBuffer \/ WriteData \/ SetBusy \/ SetIndex \/ SetSize
            \/ LoadCR1 \/ StoreCR1
            \/ CheckReceive \/ SetInto \/ SetRxIndex \/ SetRxSize
            \/ SendAndWait \/ WaitTC \/ SendNow \/ ReceiveNow

Next == \/ ShiftOut
        \/ Arrive
        \/ Handler
        \/ \E api \in use.calls, size \in use.sizes : Call(api, size)
        \/ Continue

(* The line shifts bytes out, a pending interrupt is taken, and the
   foreground runs on when none is.  Nobody is bound to call or to send. *)
Spec == Init /\ [][Next]_vars /\ WF_vars(ShiftOut) /\ WF_vars(Handler) /\ WF_vars(Continue)

----------------------------------------------------------------------------
(* Correctness *)

(* What goes out is what was accepted, in order: no byte is lost before a
   later one, none goes out twice, none is made up ("Send data from buffer",
   USART.h:189; "Send a byte", USART.h:154 and 172). *)
WireInOrder == /\ Len(wire) <= Len(expected)
               /\ \A k \in 1 .. Len(wire) : wire[k] = expected[k]

(* A program that only sends, and waits for a send in progress before it
   starts one that would not be refused, gets its bytes out in order, and all
   of them by the time the channel is idle again: a buffer of U8MAX + 1 bytes
   too, whose size is 0 to the handler (SetSize, IrqComplete).  Of a larger
   one the u8 keeps too little, and an empty one sends a byte all the same. *)
OnlySends == /\ use.calls \subseteq {"SendByteAsynchronous", "SendBufferZeroCopy"}
             /\ "SendBufferZeroCopy" \notin use.calls \ use.waitTx
             /\ use.sizes \subseteq 1 .. U8MAX + 1
Quiet == pc = "idle" /\ isr = "off" /\ hw.shift = Nothing /\ ~tx.busy
SendsInOrder == OnlySends => WireInOrder /\ (Quiet => wire = expected)

(* A program that only receives.  Mixed with sends, both CR1 and the flags of
   SR can be lost (IrqStoreSR, StoreCR1).  USART6, which stays armed when it
   has received, stores into the old buffer while the next call is being set
   up (IrqReceived), and a size of 0 is one of U8MAX + 1 to the handler. *)
OnlyReceives == /\ use.calls = {"ReceiveBufferAsynchronous"}
                /\ 0 \notin use.sizes
                /\ ~IsUSART6

(* Received bytes are stored in the order of arrival, and none is lost but on
   the line, by an overrun.  Those of a call go to consecutive places, as many
   as it asked for and no more, counted from the address that it gave the
   handler.  That address is the one of the field Data and not the one held
   there (USART.c:381): the bytes overwrite the descriptor, and the buffer of
   "Receive data into buffer" (USART.h:181) gets none of them. *)
LastStored == IF stored = <<>> THEN 0 ELSE stored[Len(stored)].byte
ReceivedInOrder == OnlyReceives =>
    /\ \A j, k \in 1 .. Len(stored) : j < k => stored[j].byte < stored[k].byte
    /\ hw.rxne \/ hw.rdr = LastStored
    /\ \A k \in 1 .. Len(stored) :
          stored[k].index = Cardinality({j \in 1 .. k - 1 : stored[j].at = stored[k].at})
    /\ \A k \in 1 .. Len(stored) :
          /\ stored[k].at = Pointer(stored[k].at.of)
          /\ stored[k].index < calls[stored[k].at.of].size

(* Whatever else goes on, a channel busy sending becomes idle again: the
   channel cannot be lost to a race between the handler and the calls. *)
SendsComplete == tx.busy ~> ~tx.busy

(* Calls that do not wait for the line return: no interrupt keeps the
   foreground from running, in a program that begins to send or to receive
   only while nothing is in progress in the other direction.  Without that
   wait a receive can end between the load and the store of CR1 (LoadCR1,
   IrqReceived or IrqReceive, StoreCR1), which leaves it armed with nobody to
   read DR: the next byte interrupts for ever.  On USART6, which is never
   disarmed, a byte behind a finished receive does so. *)
AsynchronousSends == {"SendByteAsynchronous", "SendBufferZeroCopy"}
Polls == {"SendBytesynchronous", "ReceiveBytesynchronous"}
TakesTurns ==
    LET sends == use.calls \cap AsynchronousSends
        receives == use.calls \cap {"ReceiveBufferAsynchronous"}
    IN  /\ use.calls \cap Polls = {}
        /\ sends # {} /\ receives # {} => sends \subseteq use.waitRx /\ receives \subseteq use.waitTx
        /\ ~IsUSART6
CallsReturn == TakesTurns /\ pc # "idle" ~> pc = "idle"
=============================================================================
