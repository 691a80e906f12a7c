----------------------------- MODULE UsartProofs -----------------------------
(***************************************************************************)
(* Proofs about Usart for every width of the unsigned counters, every      *)
(* number of calls and every size of buffer: that a program that only      *)
(* sends has its bytes sent in order, and one that only receives has what  *)
(* comes in stored in order, and no more of it than it asked for.          *)
(*                                                                         *)
(* A send rests on the interrupt enable: the handler is armed exactly      *)
(* while a send that was set up is not complete, so the calls set their    *)
(* variables up alone (SendPhase); TC is only seen when the data register  *)
(* is free, and a write of DR that does not find the line idle has seen it *)
(* (SendLine); and what has been handed to the line and what is left to    *)
(* send make up what was accepted (SendQueue).                             *)
(*                                                                         *)
(* A receive rests on it too: the handler is disarmed while a call sets    *)
(* its pointer, index and size up (ReceivePhase), so what it stores with   *)
(* is all of one call (ReceivePlace), behind a pointer behind which        *)
(* nothing was stored before (ReceivePlaces), and the byte it reads came   *)
(* in after those it has stored (ReceiveOrder).                            *)
(***************************************************************************)
EXTENDS Usart, SequenceTheorems, FiniteSetTheorems, TLAPS

----------------------------------------------------------------------------
(* The counters *)

(* A number that fits is kept.                                             *)
LEMMA U8Small == ASSUME NEW n \in 0 .. U8MAX PROVE U8(n) = n
  BY UsartAssumption DEF U8

(* What is kept of a number fits and is no larger.                         *)
LEMMA U8Type == ASSUME NEW n \in Nat PROVE U8(n) \in 0 .. U8MAX /\ U8(n) <= n
  BY UsartAssumption DEF U8

(* Behind the last value comes 0.                                          *)
LEMMA U8Next == ASSUME NEW n \in 0 .. U8MAX
                PROVE  U8(n + 1) = IF n = U8MAX THEN 0 ELSE n + 1
  BY UsartAssumption DEF U8

----------------------------------------------------------------------------
(* A program that only sends *)

Byte == Nat \X Nat
Registers == [tdr : {Nothing} \cup Byte, shift : {Nothing} \cup Byte, tc : BOOLEAN,
              seen : BOOLEAN, rxne : BOOLEAN, rdr : Nat]
SettingUp == {"data", "busy", "index", "size", "load", "store"}

SendTypes ==
    /\ use \in Uses
    /\ tx \in [busy : BOOLEAN, index : 0 .. U8MAX, size : 0 .. U8MAX, send : Nat]
    /\ hw \in Registers
    /\ calls \in Seq([api : use.calls, size : use.sizes])
    /\ wire \in Seq(Byte)
    /\ expected \in Seq(Byte)
    /\ arrived \in Nat
    /\ pc \in {"idle", "check"} \cup SettingUp
    /\ isr \in {"off", "rx", "tx", "clearTC", "clearBoth", "send"}

(* The handler is armed while a send that has been set up is not complete, *)
(* and runs only then; a call that sets one up finds none.                 *)
SendPhase ==
    /\ cr1 \in [tcie : BOOLEAN, rxneie : {FALSE}]
    /\ ~rx.busy
    /\ cr1.tcie <=> (tx.busy /\ pc \notin SettingUp)
    /\ isr # "off" => cr1.tcie
    /\ pc # "idle" => calls # <<>>
    /\ pc = "check" /\ Current.api = "SendBufferZeroCopy" => ~tx.busy
    /\ pc \in {"data", "busy"} => ~tx.busy
    /\ pc \in {"index", "size", "load", "store"} => tx.busy
    /\ pc = "store" => reg = cr1
    /\ pc \in SettingUp /\ Current.api = "SendBufferZeroCopy" => tx.send = This
    /\ pc \in {"size", "load", "store"} => tx.index = 1
    /\ tx.busy /\ pc \notin {"index", "size"} => tx.index <= tx.size \/ tx.size = 0

(* Bytes of the call in progress, and of those accepted what is still to   *)
(* be written to DR, from which place behind which pointer.                *)
Size == IF Current.api = "SendBufferZeroCopy" THEN Current.size ELSE 1

Remaining ==
    IF pc = "data" THEN Size
    ELSE IF pc \in {"busy", "index", "size"} THEN Size - 1
    ELSE IF ~tx.busy THEN 0
    ELSE IF tx.index <= tx.size THEN tx.size - tx.index
    ELSE tx.size + U8MAX + 1 - tx.index

Source == IF pc = "data" THEN This ELSE tx.send
NextIndex == IF pc = "data" THEN 0
             ELSE IF pc \in {"busy", "index", "size"} THEN 1
             ELSE tx.index

(* The line: a byte waits only behind another, TC means that none waits,   *)
(* and a program that is not sending has seen it, unless nothing was ever  *)
(* on the line.                                                            *)
SendLine ==
    /\ hw.tdr # Nothing => hw.shift # Nothing
    /\ hw.tc => hw.tdr = Nothing
    /\ ~tx.busy /\ pc # "busy" => hw.tdr = Nothing /\ (hw.shift = Nothing \/ hw.seen)
    /\ isr \in {"clearTC", "clearBoth", "send"} => hw.tdr = Nothing /\ hw.seen /\ Remaining > 0

(* Bytes written to DR.                                                    *)
Handed == Len(wire) + (IF hw.tdr = Nothing THEN 0 ELSE 1)

SendQueue ==
    /\ Handed + Remaining = Len(expected)
    /\ \A k \in 1 .. Len(wire) : wire[k] = expected[k]
    /\ hw.tdr # Nothing => hw.tdr = expected[Len(wire) + 1]
    /\ \A k \in 1 .. Remaining : expected[Handed + k] = <<Source, NextIndex + k - 1>>

SendInv == OnlySends => SendTypes /\ SendPhase /\ SendLine /\ SendQueue

(* Initially nothing has been accepted.                                    *)
LEMMA InitSendInv == Init => SendInv
<1> SUFFICES ASSUME Init, OnlySends PROVE SendTypes /\ SendPhase /\ SendLine /\ SendQueue
  BY DEF SendInv
<1> USE UsartAssumption DEF Init, Nothing, Registers
<1>1. SendTypes
  <2>1. hw \in Registers
    OBVIOUS
  <2>2. tx \in [busy : BOOLEAN, index : 0 .. U8MAX, size : 0 .. U8MAX, send : Nat]
    OBVIOUS
  <2> QED BY <2>1, <2>2 DEF SendTypes
<1>2. SendPhase
  BY DEF SendPhase, SettingUp
<1>3. Remaining = 0 /\ Handed = 0 /\ Len(wire) = 0 /\ Len(expected) = 0 /\ hw.tdr = Nothing
  BY DEF Remaining, Handed
<1>4. SendLine
  BY DEF SendLine
<1>5. SendQueue
  BY <1>3 DEF SendQueue
<1> QED BY <1>1, <1>2, <1>4, <1>5

(* The call a program that only sends is in.                               *)
LEMMA SendCurrent ==
    ASSUME OnlySends, SendTypes, SendPhase, pc # "idle"
    PROVE  /\ This \in Nat \ {0} /\ This = Len(calls)
           /\ Current.api \in {"SendByteAsynchronous", "SendBufferZeroCopy"}
           /\ Current.size \in 1 .. U8MAX + 1
           /\ Size \in 1 .. U8MAX + 1
<1>1. This \in Nat \ {0} /\ This = Len(calls)
  BY DEF SendTypes, SendPhase, This
<1>2. Current \in [api : use.calls, size : use.sizes]
  <2> DEFINE Calls == [api : use.calls, size : use.sizes]
  <2>1. calls \in Seq(Calls) /\ This \in 1 .. Len(calls)
    BY <1>1 DEF SendTypes
  <2> HIDE DEF Calls
  <2>2. calls[This] \in Calls
    BY <2>1, ElementOfSeq
  <2> QED BY <2>2 DEF Calls, Current
<1>3. /\ Current.api \in {"SendByteAsynchronous", "SendBufferZeroCopy"}
      /\ Current.size \in 1 .. U8MAX + 1
  BY <1>2 DEF OnlySends
<1> QED BY <1>1, <1>3, UsartAssumption DEF Size

(* What is left to send is a number.                                       *)
LEMMA RemainingType ==
    ASSUME OnlySends, SendTypes, SendPhase PROVE Remaining \in Nat
<1>1. CASE pc \in {"data", "busy", "index", "size"}
  BY <1>1, SendCurrent DEF Remaining
<1>2. CASE pc \notin {"data", "busy", "index", "size"}
  BY <1>2, UsartAssumption DEF Remaining, SendTypes
<1> QED BY <1>1, <1>2

(* A step that hands nothing over and accepts nothing keeps the queue if   *)
(* what is left to send stays the same.                                    *)
LEMMA QueueKept ==
    ASSUME SendQueue, hw'.tdr = hw.tdr, UNCHANGED <<wire, expected>>,
           Remaining \in Nat, Remaining' = Remaining,
           Remaining > 0 => Source' = Source /\ NextIndex' = NextIndex
    PROVE  SendQueue'
<1>1. Handed' = Handed
  BY DEF Handed
<1>2. CASE Remaining > 0
  BY <1>1, <1>2 DEF SendQueue
<1>3. CASE ~(Remaining > 0)
  <2>1. 1 .. Remaining' = {}
    BY <1>3
  <2> QED BY <1>1, <2>1 DEF SendQueue
<1> QED BY <1>2, <1>3

(* A byte written to DR while none waits there: it goes to the line or     *)
(* waits, and TC is not set while it waits.                                *)
LEMMA HandsOver ==
    ASSUME SendTypes, SendQueue, Remaining \in Nat \ {0}, hw.tdr = Nothing,
           hw.shift = Nothing \/ hw.seen,
           NEW byte, byte = <<Source, NextIndex>>, byte \in Byte,
           WriteDR(byte, hw), expected' = expected
    PROVE  /\ hw' \in Registers
           /\ wire' \in Seq(Byte)
           /\ hw'.tdr # Nothing => hw'.shift # Nothing
           /\ hw'.tc => hw'.tdr = Nothing
           /\ Handed' = Handed + 1
           /\ \A k \in 1 .. Len(wire') : wire'[k] = expected'[k]
           /\ hw'.tdr # Nothing => hw'.tdr = expected'[Len(wire') + 1]
<1> USE DEF Registers
<1>1. byte # Nothing
  BY DEF Byte, Nothing
<1>2. byte = expected[Len(wire) + 1] /\ Handed = Len(wire) /\ Len(wire) \in Nat
  <2>1. Handed = Len(wire) /\ Len(wire) \in Nat
    BY DEF Handed, SendTypes
  <2>2. 1 \in 1 .. Remaining
    OBVIOUS
  <2>3. expected[Handed + 1] = <<Source, NextIndex + 1 - 1>>
    BY <2>2 DEF SendQueue
  <2>4. NextIndex \in Nat
    BY DEF Byte
  <2> QED BY <2>1, <2>3, <2>4
<1>3. CASE hw.shift = Nothing
  <2>1. hw' = [[[hw EXCEPT !.shift = byte] EXCEPT !.tc = @ /\ ~hw.seen] EXCEPT !.seen = FALSE]
    BY <1>3 DEF WriteDR
  <2>2. hw' \in Registers
    BY <2>1 DEF SendTypes
  <2>3. hw'.tdr = Nothing /\ hw'.shift = byte
    BY <2>1 DEF SendTypes
  <2>4. wire' = Append(wire, byte)
    BY <1>3 DEF WriteDR
  <2>5. /\ wire' \in Seq(Byte) /\ Len(wire') = Len(wire) + 1
        /\ \A k \in 1 .. Len(wire) : wire'[k] = wire[k]
        /\ wire'[Len(wire) + 1] = byte
    BY <2>4, AppendProperties DEF SendTypes
  <2>6. \A k \in 1 .. Len(wire') : wire'[k] = expected[k]
    BY <2>5, <1>2 DEF SendQueue
  <2>7. Handed' = Handed + 1
    BY <2>3, <2>5, <1>2 DEF Handed
  <2> QED BY <2>2, <2>3, <2>5, <2>6, <2>7
<1>4. CASE hw.shift # Nothing
  <2>1. hw' = [[[hw EXCEPT !.tdr = byte] EXCEPT !.tc = @ /\ ~hw.seen] EXCEPT !.seen = FALSE]
    BY <1>4 DEF WriteDR
  <2>2. hw' \in Registers
    BY <2>1 DEF SendTypes
  <2>3. hw'.tdr = byte /\ hw'.shift = hw.shift
    BY <2>1 DEF SendTypes
  <2>4. ~hw'.tc
    BY <1>4, <2>1 DEF SendTypes
  <2>5. wire' = wire
    BY <1>4 DEF WriteDR
  <2>6. Handed' = Handed + 1
    BY <1>1, <2>3, <2>5, <1>2 DEF Handed
  <2> QED BY <1>2, <1>4, <2>2, <2>3, <2>4, <2>5, <2>6 DEF SendQueue, SendTypes
<1> QED BY <1>3, <1>4

(* The queue after a byte was handed over.                                 *)
LEMMA QueueMoved ==
    ASSUME SendQueue, Handed \in Nat, Remaining \in Nat \ {0}, Remaining' = Remaining - 1,
           expected' = expected, Handed' = Handed + 1,
           \A k \in 1 .. Len(wire') : wire'[k] = expected'[k],
           hw'.tdr # Nothing => hw'.tdr = expected'[Len(wire') + 1],
           NextIndex \in Nat,
           Remaining > 1 => Source' = Source /\ NextIndex' = NextIndex + 1
    PROVE  SendQueue'
<1>1. Handed' + Remaining' = Len(expected')
  BY DEF SendQueue
<1>2. ASSUME NEW k \in 1 .. Remaining'
      PROVE  expected'[Handed' + k] = <<Source', NextIndex' + k - 1>>
  <2>1. k + 1 \in 1 .. Remaining /\ Remaining > 1 /\ Handed' + k = Handed + (k + 1)
    OBVIOUS
  <2>2. expected[Handed + (k + 1)] = <<Source, NextIndex + (k + 1) - 1>>
    BY <2>1 DEF SendQueue
  <2> QED BY <2>1, <2>2
<1> QED BY <1>1, <1>2 DEF SendQueue

(* Every step keeps the invariant: first those of the line, then those of  *)
(* the handler, then those of the calls.                                   *)
LEMMA NextSendInv == SendInv /\ [Next]_vars => SendInv'
<1> SUFFICES ASSUME SendInv, [Next]_vars, OnlySends'
             PROVE  SendTypes' /\ SendPhase' /\ SendLine' /\ SendQueue'
  BY DEF SendInv
<1> USE UsartAssumption DEF Registers
<1>u. use' = use /\ OnlySends
  <2>1. use' = use
    BY DEF Next, vars, ShiftOut, Arrive, Handler, Irq, IrqReceive, IrqReceived, IrqFreed, IrqComplete,
           IrqNothing, IrqLoadSR, IrqStoreSR, IrqSend, Call, Continue, CheckByte, CheckBuffer,
           WriteData, SetBusy, SetIndex, SetSize, LoadCR1, StoreCR1, CheckReceive, SetInto,
           SetRxIndex, SetRxSize, SendAndWait, WaitTC, SendNow, ReceiveNow
  <2> QED BY <2>1 DEF OnlySends
<1>i. SendTypes /\ SendPhase /\ SendLine /\ SendQueue
  BY <1>u DEF SendInv
<1>r. Remaining \in Nat /\ Handed \in Nat
  BY <1>u, <1>i, RemainingType DEF Handed, SendTypes
<1>1. CASE ShiftOut
  <2>1. hw' = [hw EXCEPT !.shift = hw.tdr, !.tdr = Nothing, !.tc = @ \/ hw.tdr = Nothing]
    BY <1>1 DEF ShiftOut
  <2>2. hw' \in Registers
    BY <1>i, <2>1 DEF SendTypes
  <2>3. hw'.tdr = Nothing /\ hw'.shift = hw.tdr /\ hw'.seen = hw.seen
    BY <1>i, <2>1 DEF SendTypes
  <2>4. UNCHANGED <<use, tx, rx, cr1, pc, calls, reg, isr, expected, stored, arrived>>
    BY <1>1 DEF ShiftOut
  <2>5. Remaining' = Remaining /\ Source' = Source /\ NextIndex' = NextIndex /\ Size' = Size
    BY <2>4 DEF Remaining, Source, NextIndex, Size, Current, This
  <2>6. CASE hw.tdr = Nothing
    <3>1. wire' = wire
      BY <1>1, <2>6 DEF ShiftOut
    <3>2. SendTypes' /\ SendPhase'
      BY <1>i, <2>2, <2>4, <3>1 DEF SendTypes, SendPhase, Current, This
    <3>3. SendLine'
      BY <1>i, <2>3, <2>4, <2>5, <2>6 DEF SendLine
    <3>4. SendQueue'
      BY <1>i, <1>r, <2>3, <2>4, <2>5, <2>6, <3>1, QueueKept
    <3> QED BY <3>2, <3>3, <3>4
  <2>7. CASE hw.tdr # Nothing
    <3>1. wire' = Append(wire, hw.tdr)
      BY <1>1, <2>7 DEF ShiftOut
    <3>2. hw.tdr \in Byte
      BY <1>i, <2>7 DEF SendTypes
    <3>3. /\ wire' \in Seq(Byte) /\ Len(wire') = Len(wire) + 1
          /\ \A k \in 1 .. Len(wire) : wire'[k] = wire[k]
          /\ wire'[Len(wire) + 1] = hw.tdr
      BY <1>i, <3>1, <3>2, AppendProperties DEF SendTypes
    <3>4. SendTypes' /\ SendPhase'
      BY <1>i, <2>2, <2>4, <3>3 DEF SendTypes, SendPhase, Current, This
    <3>5. SendLine'
      BY <1>i, <2>3, <2>4, <2>5, <2>7 DEF SendLine
    <3>6. Handed' = Handed
      BY <1>i, <2>3, <2>7, <3>3 DEF Handed, SendTypes
    <3>7. \A k \in 1 .. Len(wire') : wire'[k] = expected'[k]
      BY <1>i, <2>4, <2>7, <3>3 DEF SendQueue, SendTypes
    <3>8. SendQueue'
      BY <1>i, <2>3, <2>4, <2>5, <3>6, <3>7 DEF SendQueue
    <3> QED BY <3>4, <3>5, <3>8
  <2> QED BY <2>6, <2>7
<1>2. CASE Arrive
  <2>1. /\ UNCHANGED <<use, tx, rx, cr1, pc, calls, reg, isr, wire, expected>>
        /\ hw' = IF hw.rxne THEN hw ELSE [hw EXCEPT !.rxne = TRUE, !.rdr = arrived + 1]
        /\ arrived' = arrived + 1
    BY <1>2 DEF Arrive
  <2>2. /\ hw'.tdr = hw.tdr /\ hw'.shift = hw.shift /\ hw'.tc = hw.tc /\ hw'.seen = hw.seen
        /\ hw' \in Registers
    <3>1. CASE hw.rxne
      <4>1. hw' = hw
        BY <2>1, <3>1
      <4> QED BY <1>i, <4>1 DEF SendTypes
    <3>2. CASE ~hw.rxne
      <4>1. hw' = [[hw EXCEPT !.rxne = TRUE] EXCEPT !.rdr = arrived + 1]
        BY <2>1, <3>2
      <4>2. arrived + 1 \in Nat
        BY <1>i DEF SendTypes
      <4> QED BY <1>i, <4>1, <4>2 DEF SendTypes
    <3> QED BY <3>1, <3>2
  <2>3. SendTypes' /\ SendPhase'
    <3>1. arrived' \in Nat
      BY <1>i, <2>1 DEF SendTypes
    <3> QED BY <1>i, <2>1, <2>2, <3>1 DEF SendTypes, SendPhase, Current, This
  <2>4. Remaining' = Remaining /\ Source' = Source /\ NextIndex' = NextIndex
    BY <2>1 DEF Remaining, Source, NextIndex, Size, Current, This
  <2>5. SendLine'
    BY <1>i, <2>1, <2>2, <2>4 DEF SendLine
  <2>6. SendQueue'
    BY <1>i, <1>r, <2>1, <2>2, <2>4, QueueKept
  <2> QED BY <2>3, <2>5, <2>6
<1>3. CASE Irq \/ IrqReceive \/ IrqNothing
  <2>1. UNCHANGED <<use, tx, rx, hw, cr1, pc, calls, reg, wire, expected, arrived>>
    BY <1>i, <1>3 DEF Irq, IrqReceive, IrqNothing, SendPhase
  <2>2. isr' \in {"rx", "tx", "off"} /\ (isr' # "off" => cr1.tcie)
    <3>1. CASE Irq
      BY <3>1, <1>i DEF Irq, Interrupting, SendPhase
    <3>2. CASE IrqReceive \/ IrqNothing
      BY <3>2, <1>i DEF IrqReceive, IrqNothing, SendPhase
    <3> QED BY <1>3, <3>1, <3>2
  <2>3. SendTypes' /\ SendPhase'
    <3>1. SendTypes'
      BY <1>i, <2>1, <2>2 DEF SendTypes
    <3>2. Current' = Current /\ This' = This
      BY <2>1 DEF Current, This
    <3>3. SendPhase'
      BY <1>i, <2>1, <2>2, <3>2 DEF SendPhase
    <3> QED BY <3>1, <3>3
  <2>4. Remaining' = Remaining /\ Source' = Source /\ NextIndex' = NextIndex
    BY <2>1 DEF Remaining, Source, NextIndex, Size, Current, This
  <2>5. SendLine'
    BY <1>i, <2>1, <2>2 DEF SendLine
  <2>6. SendQueue'
    BY <1>i, <1>r, <2>1, <2>4, QueueKept
  <2> QED BY <2>3, <2>5, <2>6
<1>4. CASE IrqReceived \/ IrqFreed
  BY <1>4, <1>i DEF IrqReceived, IrqFreed, SendTypes
<1>5. CASE IrqComplete
  <2>1. /\ isr = "tx" /\ hw.tc /\ tx.index = tx.size
        /\ tx' = [tx EXCEPT !.busy = FALSE, !.size = 0]
        /\ cr1' = [cr1 EXCEPT !.tcie = FALSE]
        /\ hw' = [hw EXCEPT !.seen = TRUE]
        /\ isr' = "off"
        /\ UNCHANGED <<use, rx, pc, calls, reg, wire, expected, arrived>>
    BY <1>5 DEF IrqComplete, Idle, TxDisarmed, AllSent
  <2>2. cr1.tcie /\ tx.busy /\ pc \in {"idle", "check"}
    BY <1>i, <2>1 DEF SendTypes, SendPhase
  <2>3. hw' \in Registers
    BY <1>i, <2>1 DEF SendTypes
  <2>4. hw'.tdr = hw.tdr /\ hw'.tc = hw.tc /\ hw'.seen /\ hw'.shift = hw.shift
    BY <1>i, <2>1 DEF SendTypes
  <2>5. tx' \in [busy : BOOLEAN, index : 0 .. U8MAX, size : 0 .. U8MAX, send : Nat] /\ ~tx'.busy
    <3>1. 0 \in 0 .. U8MAX
      OBVIOUS
    <3> QED BY <1>i, <2>1, <3>1 DEF SendTypes
  <2>6. SendTypes'
    BY <1>i, <2>1, <2>3, <2>5 DEF SendTypes
  <2>7. SendPhase'
    BY <1>i, <2>1, <2>2, <2>5 DEF SendPhase, SettingUp, Current, This
  <2>8. SendLine'
    BY <1>i, <2>1, <2>4 DEF SendLine
  <2>9. Remaining = 0 /\ Remaining' = 0
    BY <1>i, <2>1, <2>2, <2>5 DEF Remaining, SendTypes
  <2>10. SendQueue'
    BY <1>i, <2>1, <2>4, <2>9, QueueKept
  <2> QED BY <2>6, <2>7, <2>8, <2>10
<1>6. CASE IrqLoadSR
  <2>1. /\ isr = "tx" /\ hw.tc /\ tx.index # tx.size
        /\ hw' = [hw EXCEPT !.seen = TRUE]
        /\ isr' \in {"clearTC", "clearBoth"}
        /\ UNCHANGED <<use, tx, rx, cr1, pc, calls, reg, wire, expected, arrived>>
    BY <1>6 DEF IrqLoadSR, AllSent
  <2>2. cr1.tcie /\ tx.busy /\ pc \in {"idle", "check"}
    BY <1>i, <2>1 DEF SendTypes, SendPhase
  <2>3. hw' \in Registers
    BY <1>i, <2>1 DEF SendTypes
  <2>4. hw'.tdr = hw.tdr /\ hw'.tc = hw.tc /\ hw'.seen /\ hw'.shift = hw.shift
    BY <1>i, <2>1 DEF SendTypes
  <2>5. SendTypes' /\ SendPhase'
    BY <1>i, <2>1, <2>2, <2>3 DEF SendTypes, SendPhase, Current, This
  <2>6. Remaining' = Remaining /\ Source' = Source /\ NextIndex' = NextIndex
    BY <2>1 DEF Remaining, Source, NextIndex, Size, Current, This
  <2>7. Remaining > 0
    <3>1. tx.index \in 0 .. U8MAX /\ tx.size \in 0 .. U8MAX /\ tx.index # tx.size
      BY <1>i, <2>1 DEF SendTypes, AllSent
    <3>2. Remaining = IF tx.index <= tx.size THEN tx.size - tx.index
                      ELSE tx.size + U8MAX + 1 - tx.index
      BY <2>1, <2>2 DEF Remaining
    <3> QED BY <3>1, <3>2
  <2>8. SendLine'
    BY <1>i, <2>1, <2>2, <2>4, <2>6, <2>7 DEF SendLine
  <2>9. SendQueue'
    BY <1>i, <1>r, <2>1, <2>4, <2>6, QueueKept
  <2> QED BY <2>5, <2>8, <2>9
<1>7. CASE IrqStoreSR
  <2>1. /\ isr \in {"clearTC", "clearBoth"}
        /\ hw' = [hw EXCEPT !.tc = FALSE, !.rxne = @ /\ isr = "clearTC"]
        /\ isr' = "send"
        /\ UNCHANGED <<use, tx, rx, cr1, pc, calls, reg, wire, expected, arrived>>
    BY <1>7 DEF IrqStoreSR
  <2>2. hw' \in Registers
    BY <1>i, <2>1 DEF SendTypes
  <2>3. hw'.tdr = hw.tdr /\ ~hw'.tc /\ hw'.seen = hw.seen /\ hw'.shift = hw.shift
    BY <1>i, <2>1 DEF SendTypes
  <2>4. SendTypes' /\ SendPhase'
    BY <1>i, <2>1, <2>2 DEF SendTypes, SendPhase, Current, This
  <2>5. Remaining' = Remaining /\ Source' = Source /\ NextIndex' = NextIndex
    BY <2>1 DEF Remaining, Source, NextIndex, Size, Current, This
  <2>6. SendLine'
    BY <1>i, <2>1, <2>3, <2>5 DEF SendLine
  <2>7. SendQueue'
    BY <1>i, <1>r, <2>1, <2>3, <2>5, QueueKept
  <2> QED BY <2>4, <2>6, <2>7
<1>8. CASE IrqSend
  <2>1. /\ isr = "send"
        /\ WriteDR(<<tx.send, tx.index>>, hw)
        /\ tx' = [tx EXCEPT !.index = U8(@ + 1)]
        /\ isr' = "off"
        /\ UNCHANGED <<use, rx, cr1, pc, calls, reg, expected, arrived>>
    BY <1>8 DEF IrqSend
  <2>2. cr1.tcie /\ tx.busy /\ pc \in {"idle", "check"}
    BY <1>i, <2>1 DEF SendTypes, SendPhase
  <2>3. hw.tdr = Nothing /\ hw.seen /\ Remaining > 0
    BY <1>i, <2>1 DEF SendLine
  <2>4. Source = tx.send /\ NextIndex = tx.index /\ tx.send \in Nat /\ tx.index \in 0 .. U8MAX
    BY <1>i, <2>2 DEF Source, NextIndex, SendTypes
  <2>5. /\ hw' \in Registers
        /\ wire' \in Seq(Byte)
        /\ hw'.tdr # Nothing => hw'.shift # Nothing
        /\ hw'.tc => hw'.tdr = Nothing
        /\ Handed' = Handed + 1
        /\ \A k \in 1 .. Len(wire') : wire'[k] = expected'[k]
        /\ hw'.tdr # Nothing => hw'.tdr = expected'[Len(wire') + 1]
    <3>1. <<Source, NextIndex>> \in Byte
      BY <2>4 DEF Byte
    <3> QED BY <1>i, <1>r, <2>1, <2>3, <2>4, <3>1, HandsOver
  <2>6. tx'.index = (IF tx.index = U8MAX THEN 0 ELSE tx.index + 1)
    BY <1>i, <2>1, U8Next DEF SendTypes
  <2>7. tx' \in [busy : BOOLEAN, index : 0 .. U8MAX, size : 0 .. U8MAX, send : Nat]
    <3>1. U8(tx.index + 1) \in 0 .. U8MAX
      BY <2>4, U8Type
    <3> QED BY <1>i, <2>1, <3>1 DEF SendTypes
  <2>8. tx'.busy = tx.busy /\ tx'.send = tx.send /\ tx'.size = tx.size
    BY <1>i, <2>1 DEF SendTypes
  <2>9. SendTypes'
    BY <1>i, <2>1, <2>5, <2>7 DEF SendTypes
  <2>11. SendLine'
    BY <1>i, <2>1, <2>2, <2>5, <2>8 DEF SendLine
  <2>r. /\ Remaining = IF tx.index <= tx.size THEN tx.size - tx.index
                       ELSE tx.size + U8MAX + 1 - tx.index
        /\ Remaining' = IF tx'.index <= tx.size THEN tx.size - tx'.index
                        ELSE tx.size + U8MAX + 1 - tx'.index
        /\ tx.size \in 0 .. U8MAX
        /\ tx.index <= tx.size \/ tx.size = 0
    BY <1>i, <2>1, <2>2, <2>8 DEF Remaining, SendTypes, SendPhase
  <2>10. SendPhase'
    <3>1. tx'.index <= tx'.size \/ tx'.size = 0
      BY <2>3, <2>4, <2>6, <2>8, <2>r
    <3>2. This' = This /\ Current' = Current
      BY <2>1 DEF This, Current
    <3> QED BY <1>i, <2>1, <2>2, <2>8, <3>1, <3>2 DEF SendPhase, SettingUp
  <2>12. Remaining' = Remaining - 1
    BY <2>3, <2>4, <2>6, <2>r
  <2>13. Remaining > 1 => Source' = Source /\ NextIndex' = NextIndex + 1
    <3>1. Source' = Source /\ NextIndex' = tx'.index
      BY <2>1, <2>2, <2>4, <2>8 DEF Source, NextIndex
    <3> QED BY <2>4, <2>6, <2>r, <3>1
  <2>14. SendQueue'
    BY <1>i, <1>r, <2>1, <2>3, <2>4, <2>5, <2>12, <2>13, QueueMoved
  <2> QED BY <2>9, <2>10, <2>11, <2>14
<1>9. CASE \E api \in use.calls, size \in use.sizes : Call(api, size)
  <2>1. PICK api \in use.calls, size \in use.sizes : Call(api, size)
    BY <1>9
  <2>2. /\ pc = "idle" /\ isr = "off"
        /\ calls' = Append(calls, [api |-> api, size |-> size])
        /\ api \in use.waitTx => ~tx.busy
        /\ pc' = "check"
        /\ UNCHANGED <<use, tx, rx, hw, cr1, reg, isr, wire, expected, arrived>>
    BY <2>1 DEF Call, At
  <2>3. /\ calls' \in Seq([api : use.calls, size : use.sizes])
        /\ calls' # <<>> /\ Current'.api = api
    <3> DEFINE Calls == [api : use.calls, size : use.sizes]
    <3>1. calls \in Seq(Calls) /\ [api |-> api, size |-> size] \in Calls
      BY <1>i DEF SendTypes
    <3> HIDE DEF Calls
    <3>2. /\ calls' \in Seq(Calls) /\ calls' # <<>> /\ Len(calls') = Len(calls) + 1
          /\ calls'[Len(calls) + 1] = [api |-> api, size |-> size]
      BY <2>2, <3>1, AppendProperties
    <3> QED BY <3>2 DEF Calls, Current, This
  <2>4. api = "SendBufferZeroCopy" => ~tx.busy
    BY <1>u, <2>2 DEF OnlySends
  <2>5. SendTypes'
    BY <1>i, <2>2, <2>3 DEF SendTypes
  <2>6. SendPhase'
    BY <1>i, <2>2, <2>3, <2>4 DEF SendPhase, SettingUp
  <2>7. Remaining' = Remaining /\ Source' = Source /\ NextIndex' = NextIndex
    BY <2>2 DEF Remaining, Source, NextIndex
  <2>8. SendLine'
    BY <1>i, <2>2, <2>7 DEF SendLine
  <2>9. SendQueue'
    BY <1>i, <1>r, <2>2, <2>7, QueueKept
  <2> QED BY <2>5, <2>6, <2>8, <2>9
<1>10. CASE (CheckByte \/ CheckBuffer) /\ tx.busy
  <2>1. /\ pc = "check" /\ pc' = "idle"
        /\ UNCHANGED <<use, tx, rx, hw, cr1, calls, reg, isr, wire, expected, arrived>>
    BY <1>i, <1>10 DEF CheckByte, CheckBuffer, At, SendPhase
  <2>2. SendTypes' /\ SendPhase'
    BY <1>i, <2>1 DEF SendTypes, SendPhase, SettingUp, Current, This
  <2>3. Remaining' = Remaining /\ Source' = Source /\ NextIndex' = NextIndex
    BY <2>1 DEF Remaining, Source, NextIndex
  <2>4. SendLine'
    BY <1>i, <2>1, <2>3 DEF SendLine
  <2>5. SendQueue'
    BY <1>i, <1>r, <2>1, <2>3, QueueKept
  <2> QED BY <2>2, <2>4, <2>5
<1>11. CASE (CheckByte \/ CheckBuffer) /\ ~tx.busy
  <2>1. /\ pc = "check" /\ pc' = "data" /\ isr = "off"
        /\ expected' = expected \o Bytes(This, Size)
        /\ UNCHANGED <<use, rx, hw, cr1, calls, reg, isr, wire, arrived>>
        /\ tx' = IF Current.api = "SendBufferZeroCopy" THEN [tx EXCEPT !.send = This] ELSE tx
    BY <1>11 DEF CheckByte, CheckBuffer, At, Size
  <2>2. /\ This \in Nat \ {0} /\ calls # <<>>
        /\ Current.api \in {"SendByteAsynchronous", "SendBufferZeroCopy"}
        /\ Size \in 1 .. U8MAX + 1
    BY <1>u, <1>i, <2>1, SendCurrent DEF SendPhase
  <2>3. This' = This /\ Current' = Current /\ Size' = Size
    BY <2>1 DEF This, Current, Size
  <2>4. /\ tx' \in [busy : BOOLEAN, index : 0 .. U8MAX, size : 0 .. U8MAX, send : Nat]
        /\ ~tx'.busy
        /\ Current.api = "SendBufferZeroCopy" => tx'.send = This
    <3>1. CASE Current.api = "SendBufferZeroCopy"
      BY <1>i, <1>11, <2>1, <2>2, <3>1 DEF SendTypes
    <3>2. CASE Current.api # "SendBufferZeroCopy"
      BY <1>i, <1>11, <2>1, <3>2 DEF SendTypes
    <3> QED BY <3>1, <3>2
  <2>5. /\ expected' \in Seq(Byte)
        /\ Len(expected') = Len(expected) + Size
        /\ \A k \in 1 .. Len(expected) : expected'[k] = expected[k]
        /\ \A k \in 1 .. Size : expected'[Len(expected) + k] = <<This, k - 1>>
    <3> DEFINE sent == Bytes(This, Size)
    <3>1. sent \in Seq(Byte)
      BY <2>2 DEF Bytes, Byte
    <3>2. Len(sent) = Size /\ \A k \in 1 .. Size : sent[k] = <<This, k - 1>>
      BY <2>2 DEF Bytes
    <3> HIDE DEF sent
    <3>3. /\ expected \o sent \in Seq(Byte)
          /\ Len(expected \o sent) = Len(expected) + Size
          /\ \A k \in 1 .. Len(expected) + Size :
                 (expected \o sent)[k] = IF k <= Len(expected) THEN expected[k]
                                         ELSE sent[k - Len(expected)]
      <4> HIDE DEF Byte
      <4>1. expected \in Seq(Byte)
        BY <1>i DEF SendTypes
      <4>2. /\ expected \o sent \in Seq(Byte)
            /\ Len(expected \o sent) = Len(expected) + Len(sent)
            /\ \A k \in 1 .. Len(expected) + Len(sent) :
                   (expected \o sent)[k] = IF k <= Len(expected) THEN expected[k]
                                           ELSE sent[k - Len(expected)]
        BY <3>1, <4>1, ConcatProperties
      <4> QED BY <3>2, <4>2
    <3>4. Len(expected) \in Nat
      BY <1>i DEF SendTypes
    <3>5. expected' = expected \o sent
      BY <2>1 DEF sent
    <3>6. \A k \in 1 .. Len(expected) : expected'[k] = expected[k]
      BY <2>2, <3>3, <3>4, <3>5
    <3>7. ASSUME NEW k \in 1 .. Size PROVE expected'[Len(expected) + k] = <<This, k - 1>>
      <4>1. /\ Len(expected) + k \in 1 .. Len(expected) + Size
            /\ ~(Len(expected) + k <= Len(expected))
            /\ Len(expected) + k - Len(expected) = k
        BY <2>2, <3>4
      <4> QED BY <3>2, <3>3, <3>5, <4>1
    <3> QED BY <3>3, <3>5, <3>6, <3>7
  <2>6. SendTypes'
    BY <1>i, <2>1, <2>4, <2>5 DEF SendTypes, SettingUp
  <2>7. SendPhase'
    BY <1>i, <1>11, <2>1, <2>2, <2>3, <2>4 DEF SendPhase, SettingUp
  <2>8. SendLine'
    BY <1>i, <1>11, <2>1 DEF SendLine
  <2>9. Remaining = 0 /\ Remaining' = Size /\ Source' = This /\ NextIndex' = 0 /\ Handed' = Handed
    BY <1>11, <2>1, <2>3 DEF Remaining, Source, NextIndex, Handed
  <2>10. hw.tdr = Nothing /\ Handed = Len(wire) /\ Len(wire) = Len(expected)
    <3>1. hw.tdr = Nothing
      BY <1>i, <1>11, <2>1 DEF SendLine
    <3>2. Handed = Len(wire) /\ Len(wire) \in Nat
      BY <1>i, <3>1 DEF Handed, SendTypes
    <3> QED BY <1>i, <2>9, <3>1, <3>2 DEF SendQueue
  <2>11. SendQueue'
    <3>1. Handed' + Remaining' = Len(expected')
      BY <2>5, <2>9, <2>10
    <3>2. \A k \in 1 .. Len(wire') : wire'[k] = expected'[k]
      BY <1>i, <2>1, <2>5, <2>10 DEF SendQueue
    <3>3. hw'.tdr = Nothing
      BY <2>1, <2>10
    <3>4. ASSUME NEW k \in 1 .. Remaining'
          PROVE  expected'[Handed' + k] = <<Source', NextIndex' + k - 1>>
      <4>1. k \in 1 .. Size /\ Handed' = Len(expected) /\ NextIndex' + k - 1 = k - 1
        BY <2>2, <2>9, <2>10
      <4>2. expected'[Len(expected) + k] = <<This, k - 1>>
        BY <2>5, <4>1
      <4> QED BY <2>9, <4>1, <4>2
    <3> QED BY <3>1, <3>2, <3>3, <3>4 DEF SendQueue
  <2> QED BY <2>6, <2>7, <2>8, <2>11
<1>12. CASE WriteData
  <2>1. /\ pc = "data" /\ pc' = "busy" /\ isr = "off"
        /\ WriteDR(<<This, 0>>, hw)
        /\ UNCHANGED <<use, tx, rx, cr1, calls, reg, isr, expected, arrived>>
    BY <1>12 DEF WriteData, At
  <2>2. /\ This \in Nat \ {0} /\ Size \in 1 .. U8MAX + 1
        /\ Current.api \in {"SendByteAsynchronous", "SendBufferZeroCopy"}
    BY <1>u, <1>i, <2>1, SendCurrent
  <2>3. This' = This /\ Current' = Current /\ Size' = Size
    BY <2>1 DEF This, Current, Size
  <2>4. ~tx.busy /\ ~cr1.tcie /\ calls # <<>>
    BY <1>i, <2>1 DEF SendPhase, SettingUp
  <2>5. hw.tdr = Nothing /\ (hw.shift = Nothing \/ hw.seen)
    BY <1>i, <2>1, <2>4 DEF SendLine
  <2>6. Remaining = Size /\ Remaining' = Size - 1 /\ Source = This /\ NextIndex = 0
    BY <2>1, <2>3 DEF Remaining, Source, NextIndex
  <2>7. /\ hw' \in Registers
        /\ wire' \in Seq(Byte)
        /\ hw'.tdr # Nothing => hw'.shift # Nothing
        /\ hw'.tc => hw'.tdr = Nothing
        /\ Handed' = Handed + 1
        /\ \A k \in 1 .. Len(wire') : wire'[k] = expected'[k]
        /\ hw'.tdr # Nothing => hw'.tdr = expected'[Len(wire') + 1]
    <3>1. <<Source, NextIndex>> \in Byte
      BY <2>2, <2>6 DEF Byte
    <3>2. Remaining \in Nat \ {0}
      BY <2>2, <2>6
    <3> QED BY <1>i, <2>1, <2>5, <2>6, <3>1, <3>2, HandsOver
  <2>8. SendTypes'
    BY <1>i, <2>1, <2>7 DEF SendTypes, SettingUp
  <2>9. SendPhase'
    BY <1>i, <2>1, <2>3, <2>4 DEF SendPhase, SettingUp
  <2>10. SendLine'
    BY <1>i, <2>1, <2>7 DEF SendLine
  <2>11. Remaining > 1 => Source' = Source /\ NextIndex' = NextIndex + 1
    <3>1. Source' = tx.send /\ NextIndex' = 1
      BY <2>1 DEF Source, NextIndex
    <3>2. Size > 1 => Current.api = "SendBufferZeroCopy"
      BY DEF Size
    <3>3. Size > 1 => tx.send = This
      BY <1>i, <2>1, <3>2 DEF SendPhase, SettingUp
    <3> QED BY <2>6, <3>1, <3>3
  <2>12. SendQueue'
    BY <1>i, <1>r, <2>1, <2>2, <2>6, <2>7, <2>11, QueueMoved
  <2> QED BY <2>8, <2>9, <2>10, <2>12
<1>13. CASE SetBusy \/ SetIndex
  <2>1. /\ \/ pc = "busy" /\ tx' = [tx EXCEPT !.busy = TRUE] /\ pc' = "index"
           \/ pc = "index" /\ tx' = [tx EXCEPT !.index = 1] /\ pc' = "size"
        /\ isr = "off"
        /\ UNCHANGED <<use, rx, hw, cr1, calls, reg, isr, wire, expected, arrived>>
    BY <1>13 DEF SetBusy, SetIndex, At, FirstUnsent
  <2>2. ~cr1.tcie /\ calls # <<>> /\ (pc = "index" => tx.busy)
    BY <1>i, <2>1 DEF SendPhase, SettingUp
  <2>3. This' = This /\ Current' = Current /\ Size' = Size
    BY <2>1 DEF This, Current, Size
  <2>4. /\ tx' \in [busy : BOOLEAN, index : 0 .. U8MAX, size : 0 .. U8MAX, send : Nat]
        /\ tx'.busy /\ tx'.send = tx.send
        /\ pc = "index" => tx'.index = 1
    <3>1. 1 \in 0 .. U8MAX
      OBVIOUS
    <3>2. CASE pc = "busy"
      BY <1>i, <2>1, <3>2 DEF SendTypes
    <3>3. CASE pc = "index"
      BY <1>i, <2>1, <2>2, <3>1, <3>3 DEF SendTypes
    <3> QED BY <2>1, <3>2, <3>3
  <2>5. SendTypes'
    BY <1>i, <2>1, <2>4 DEF SendTypes, SettingUp
  <2>6. SendPhase'
    BY <1>i, <2>1, <2>2, <2>3, <2>4 DEF SendPhase, SettingUp
  <2>7. SendLine'
    BY <1>i, <2>1, <2>4 DEF SendLine
  <2>8. Remaining' = Remaining /\ Source' = Source /\ NextIndex' = NextIndex
    BY <2>1, <2>3, <2>4 DEF Remaining, Source, NextIndex
  <2>9. SendQueue'
    BY <1>i, <1>r, <2>1, <2>8, QueueKept
  <2> QED BY <2>5, <2>6, <2>7, <2>9
<1>14. CASE SetSize
  <2>1. /\ pc = "size" /\ pc' = "load" /\ isr = "off"
        /\ tx' = [tx EXCEPT !.size = IF Current.api = "SendBufferZeroCopy"
                                     THEN U8(Current.size) ELSE 1]
        /\ UNCHANGED <<use, rx, hw, cr1, calls, reg, isr, wire, expected, arrived>>
    BY <1>14 DEF SetSize, At
  <2>2. ~cr1.tcie /\ calls # <<>> /\ tx.busy /\ tx.index = 1
    BY <1>i, <2>1 DEF SendPhase, SettingUp
  <2>3. /\ Current.size \in 1 .. U8MAX + 1 /\ Size \in 1 .. U8MAX + 1
    BY <1>u, <1>i, <2>1, SendCurrent
  <2>4. This' = This /\ Current' = Current
    BY <2>1 DEF This, Current
  <2>5. tx'.size = IF Size = U8MAX + 1 THEN 0 ELSE Size
    <3>1. CASE Current.api = "SendBufferZeroCopy"
      <4>1. tx'.size = U8(Size)
        BY <1>i, <2>1, <3>1 DEF Size, SendTypes
      <4>2. Size = (Size - 1) + 1 /\ Size - 1 \in 0 .. U8MAX
        BY <2>3
      <4>3. U8((Size - 1) + 1) = IF Size - 1 = U8MAX THEN 0 ELSE (Size - 1) + 1
        BY <4>2, U8Next
      <4> QED BY <4>1, <4>2, <4>3
    <3>2. CASE Current.api # "SendBufferZeroCopy"
      BY <1>i, <2>1, <3>2 DEF Size, SendTypes
    <3> QED BY <3>1, <3>2
  <2>6. /\ tx' \in [busy : BOOLEAN, index : 0 .. U8MAX, size : 0 .. U8MAX, send : Nat]
        /\ tx'.busy /\ tx'.send = tx.send /\ tx'.index = 1
    <3> DEFINE n == IF Current.api = "SendBufferZeroCopy" THEN U8(Current.size) ELSE 1
    <3>1. n \in 0 .. U8MAX
      BY <2>3, U8Type
    <3>2. tx' = [tx EXCEPT !.size = n]
      BY <2>1
    <3> HIDE DEF n
    <3> QED BY <1>i, <2>2, <3>1, <3>2 DEF SendTypes
  <2>7. SendTypes'
    BY <1>i, <2>1, <2>6 DEF SendTypes, SettingUp
  <2>8. SendPhase'
    <3>1. tx'.index <= tx'.size \/ tx'.size = 0
      BY <2>3, <2>5, <2>6
    <3> QED BY <1>i, <2>1, <2>2, <2>4, <2>6, <3>1 DEF SendPhase, SettingUp
  <2>9. SendLine'
    BY <1>i, <2>1, <2>6 DEF SendLine
  <2>10. Remaining = Size - 1 /\ Remaining' = Remaining
    <3>1. Remaining = Size - 1
      BY <2>1 DEF Remaining
    <3>2. Remaining' = IF 1 <= tx'.size THEN tx'.size - 1 ELSE tx'.size + U8MAX + 1 - 1
      BY <2>1, <2>6 DEF Remaining
    <3> QED BY <2>3, <2>5, <3>1, <3>2
  <2>11. Source' = Source /\ NextIndex' = NextIndex
    BY <2>1, <2>6 DEF Source, NextIndex
  <2>12. SendQueue'
    BY <1>i, <1>r, <2>1, <2>10, <2>11, QueueKept
  <2> QED BY <2>7, <2>8, <2>9, <2>12
<1>15. CASE LoadCR1 \/ StoreCR1
  <2>1. /\ \/ pc = "load" /\ reg' = cr1 /\ pc' = "store" /\ cr1' = cr1
           \/ pc = "store" /\ pc' = "idle" /\ reg' = reg
              /\ cr1' = IF Current.api \in SendCalls THEN [reg EXCEPT !.tcie = TRUE]
                                                   ELSE [reg EXCEPT !.rxneie = TRUE]
        /\ isr = "off"
        /\ UNCHANGED <<use, tx, rx, hw, calls, isr, wire, expected, arrived>>
    BY <1>15 DEF LoadCR1, StoreCR1, At
  <2>2. ~cr1.tcie /\ calls # <<>> /\ tx.busy
    BY <1>i, <2>1 DEF SendPhase, SettingUp
  <2>3. Current.api \in SendCalls
    BY <1>u, <1>i, <2>1, SendCurrent DEF SendCalls
  <2>4. This' = This /\ Current' = Current
    BY <2>1 DEF This, Current
  <2>5. /\ cr1' \in [tcie : BOOLEAN, rxneie : {FALSE}]
        /\ pc = "store" => cr1'.tcie
        /\ pc = "load" => cr1' = cr1
    BY <1>i, <2>1, <2>3 DEF SendPhase
  <2>6. SendTypes'
    BY <1>i, <2>1 DEF SendTypes, SettingUp
  <2>7. SendPhase'
    BY <1>i, <2>1, <2>2, <2>4, <2>5 DEF SendPhase, SettingUp
  <2>8. Remaining' = Remaining /\ Source' = Source /\ NextIndex' = NextIndex
    BY <2>1 DEF Remaining, Source, NextIndex
  <2>9. SendLine'
    BY <1>i, <2>1, <2>2, <2>8 DEF SendLine
  <2>10. SendQueue'
    BY <1>i, <1>r, <2>1, <2>8, QueueKept
  <2> QED BY <2>6, <2>7, <2>9, <2>10
<1>16. CASE \/ CheckReceive \/ SetInto \/ SetRxIndex \/ SetRxSize
            \/ SendAndWait \/ WaitTC \/ SendNow \/ ReceiveNow
  <2>1. pc = "check" => Current.api \in {"SendByteAsynchronous", "SendBufferZeroCopy"}
    BY <1>u, <1>i, SendCurrent
  <2> QED BY <1>i, <1>16, <2>1 DEF CheckReceive, SetInto, SetRxIndex, SetRxSize, SendAndWait, WaitTC,
                                   SendNow, ReceiveNow, At, SendTypes, SettingUp
<1>17. CASE UNCHANGED vars
  <2>1. UNCHANGED <<use, tx, rx, hw, cr1, pc, calls, reg, isr, wire, expected, arrived>>
    BY <1>17 DEF vars
  <2>2. Remaining' = Remaining /\ Source' = Source /\ NextIndex' = NextIndex
    BY <2>1 DEF Remaining, Source, NextIndex, Size, Current, This
  <2>3. SendTypes'
    BY <1>i, <2>1 DEF SendTypes
  <2>4. SendPhase'
    <3>1. Current' = Current /\ This' = This
      BY <2>1 DEF Current, This
    <3> QED BY <1>i, <2>1, <3>1 DEF SendPhase
  <2>5. SendLine'
    BY <1>i, <2>1, <2>2 DEF SendLine
  <2>6. SendQueue'
    BY <1>i, <1>r, <2>1, <2>2, QueueKept
  <2> QED BY <2>3, <2>4, <2>5, <2>6
<1> QED
  BY <1>1, <1>2, <1>3, <1>4, <1>5, <1>6, <1>7, <1>8, <1>9, <1>10, <1>11, <1>12, <1>13, <1>14, <1>15,
     <1>16, <1>17
  DEF Next, Handler, Continue

(* A program that only sends, and waits before it starts a buffer, has its *)
(* bytes sent in order, and all of them by the time the channel is idle,   *)
(* wherever the handler and the line cut into its calls.  (USART.c:337,    *)
(* 403, 492)                                                               *)
THEOREM BytesSentInOrder == Spec => []SendsInOrder
<1>1. SendInv => SendsInOrder
  <2> SUFFICES ASSUME SendInv, OnlySends PROVE WireInOrder /\ (Quiet => wire = expected)
    BY DEF SendsInOrder
  <2>1. SendTypes /\ SendPhase /\ SendLine /\ SendQueue
    BY DEF SendInv
  <2>2. Len(wire) <= Handed /\ Len(wire) \in Nat /\ Handed \in Nat
    BY <2>1 DEF Handed, SendTypes
  <2>3. WireInOrder
    BY <2>1, <2>2, RemainingType DEF WireInOrder, SendQueue
  <2>4. ASSUME Quiet PROVE wire = expected
    <3>1. Remaining = 0
      BY <2>4 DEF Quiet, Remaining
    <3>2. hw.tdr = Nothing
      BY <2>1, <2>4 DEF Quiet, SendLine
    <3>3. Len(wire) = Len(expected)
      BY <2>1, <2>2, <3>1, <3>2 DEF Handed, SendQueue
    <3> QED BY <2>1, <3>3, SeqEqual DEF SendQueue, SendTypes
  <2> QED BY <2>3, <2>4
<1> QED BY <1>1, InitSendInv, NextSendInv, PTL DEF Spec

----------------------------------------------------------------------------
(* A program that only receives *)

(* Bytes among the first n of s that lie behind pointer p.                 *)
Behind(s, n, p) == Cardinality({j \in 1 .. n : s[j].at = p})

(* They can be counted.                                                    *)
LEMMA BehindType ==
    ASSUME NEW s, NEW n \in Nat, NEW p
    PROVE  Behind(s, n, p) \in Nat /\ IsFiniteSet({j \in 1 .. n : s[j].at = p})
<1>1. IsFiniteSet(1 .. n)
  BY FS_Interval
<1>2. IsFiniteSet({j \in 1 .. n : s[j].at = p})
  BY <1>1, FS_Subset
<1> QED BY <1>2, FS_CardinalityType DEF Behind

(* There are none behind a pointer that was not used.                      *)
LEMMA BehindNone ==
    ASSUME NEW s, NEW n \in Nat, NEW p, \A j \in 1 .. n : s[j].at # p
    PROVE  Behind(s, n, p) = 0
<1>1. {j \in 1 .. n : s[j].at = p} = {}
  OBVIOUS
<1> QED BY <1>1, FS_EmptySet DEF Behind

(* They do not depend on what lies further on.                             *)
LEMMA BehindSame ==
    ASSUME NEW s, NEW t, NEW n \in Nat, NEW p, \A j \in 1 .. n : t[j] = s[j]
    PROVE  Behind(t, n, p) = Behind(s, n, p)
<1>1. {j \in 1 .. n : t[j].at = p} = {j \in 1 .. n : s[j].at = p}
  OBVIOUS
<1> QED BY <1>1 DEF Behind

(* One more counts one more.                                               *)
LEMMA BehindNext ==
    ASSUME NEW s, NEW n \in Nat, NEW p, s[n + 1].at = p
    PROVE  Behind(s, n + 1, p) = Behind(s, n, p) + 1
<1> DEFINE before == {j \in 1 .. n : s[j].at = p}
<1>1. {j \in 1 .. n + 1 : s[j].at = p} = before \cup {n + 1}
  OBVIOUS
<1>2. n + 1 \notin before
  OBVIOUS
<1>3. IsFiniteSet(before)
  BY FS_Interval, FS_Subset
<1> HIDE DEF before
<1>4. Cardinality(before \cup {n + 1}) = Cardinality(before) + 1
  BY <1>2, <1>3, FS_AddElement
<1> QED BY <1>1, <1>4 DEF Behind, before

Receiving == {"into", "rxindex", "rxsize", "load", "store"}
Pointers == [of : Nat, field : {"none", "&Data"}]
Stored == [at : Pointers, index : Nat, byte : Nat]

ReceiveTypes ==
    /\ use \in Uses
    /\ tx = [busy |-> FALSE, index |-> 0, size |-> 0, send |-> 0]
    /\ rx \in [busy : BOOLEAN, index : 0 .. U8MAX, size : 0 .. U8MAX, into : Pointers]
    /\ hw \in [tdr : {Nothing}, shift : {Nothing}, tc : BOOLEAN, seen : BOOLEAN,
               rxne : BOOLEAN, rdr : Nat]
    /\ calls \in Seq([api : use.calls, size : use.sizes])
    /\ stored \in Seq(Stored)
    /\ arrived \in Nat
    /\ pc \in {"idle", "check"} \cup Receiving
    /\ isr \in {"off", "rx", "received", "freed", "tx"}

(* The handler is armed while a receive that has been set up is not        *)
(* complete, and stores only then; a call that sets one up finds none.     *)
ReceivePhase ==
    /\ cr1 \in [tcie : {FALSE}, rxneie : BOOLEAN]
    /\ cr1.rxneie => rx.busy /\ pc \notin Receiving
    /\ isr \in {"rx", "received"} => cr1.rxneie
    /\ isr = "rx" => hw.rxne
    /\ isr = "freed" => rx.busy /\ ~cr1.rxneie
    /\ pc \in Receiving => rx.busy /\ isr = "off"
    /\ pc = "store" => reg = cr1
    /\ pc # "idle" => calls # <<>>

(* Armed, the handler has the pointer and the size of a call accepted; the *)
(* index counts the bytes behind the pointer, and is short of the size, or *)
(* the size is 0.                                                          *)
ReceivePlace ==
    /\ pc \in {"rxindex", "rxsize", "load", "store"} => rx.into = Pointer(This)
    /\ pc \in {"rxsize", "load", "store"} => rx.index = 0
    /\ pc \in {"load", "store"} => rx.size = U8(Current.size)
    /\ cr1.rxneie => /\ rx.into = Pointer(rx.into.of) /\ rx.into.of \in 1 .. Len(calls)
                     /\ pc = "check" => rx.into.of < This
                     /\ rx.size = U8(calls[rx.into.of].size)
    /\ cr1.rxneie /\ isr # "received" => /\ rx.index = Behind(stored, Len(stored), rx.into)
                                         /\ rx.size = 0 \/ rx.index < rx.size

(* A byte stored came in before the one in DR, which is the last one stored*)
(* once it has been read; and it lies behind the pointer of a call made    *)
(* before the one being set up.                                            *)
ReceiveOrder ==
    /\ hw.rdr <= arrived
    /\ hw.rxne \/ hw.rdr = LastStored
    /\ \A k \in 1 .. Len(stored) :
          /\ stored[k].byte <= arrived
          /\ hw.rxne => stored[k].byte < hw.rdr
    /\ \A j, k \in 1 .. Len(stored) : j < k => stored[j].byte < stored[k].byte

ReceivePlaces ==
    \A k \in 1 .. Len(stored) :
          /\ stored[k].at.of \in 1 .. Len(calls)
          /\ stored[k].at = Pointer(stored[k].at.of)
          /\ pc # "idle" => stored[k].at.of < This
          /\ stored[k].index < calls[stored[k].at.of].size
          /\ stored[k].index = Behind(stored, k - 1, stored[k].at)

ReceiveInv == OnlyReceives => /\ ReceiveTypes
                              /\ ReceivePhase
                              /\ ReceivePlace
                              /\ ReceiveOrder
                              /\ ReceivePlaces

(* Initially nothing has been stored.                                      *)
LEMMA InitReceiveInv == Init => ReceiveInv
<1> SUFFICES ASSUME Init, OnlyReceives
             PROVE  ReceiveTypes /\ ReceivePhase /\ ReceivePlace /\ ReceiveOrder /\ ReceivePlaces
  BY DEF ReceiveInv
<1> USE UsartAssumption DEF Init, Nothing
<1>1. ReceiveTypes
  <2>1. hw \in [tdr : {<<>>}, shift : {<<>>}, tc : BOOLEAN, seen : BOOLEAN,
                rxne : BOOLEAN, rdr : Nat]
    OBVIOUS
  <2>2. NULL \in Pointers
    BY DEF NULL, Pointers
  <2>3. rx \in [busy : BOOLEAN, index : 0 .. U8MAX, size : 0 .. U8MAX, into : Pointers]
    BY <2>2
  <2> QED BY <2>1, <2>3 DEF ReceiveTypes
<1>2. ReceivePhase
  BY DEF ReceivePhase, Receiving
<1>3. ReceivePlace
  BY DEF ReceivePlace
<1>4. ReceiveOrder
  BY DEF ReceiveOrder, LastStored
<1>5. ReceivePlaces
  BY DEF ReceivePlaces
<1> QED BY <1>1, <1>2, <1>3, <1>4, <1>5

(* The calls of a program that only receives.                              *)
LEMMA ReceiveCall ==
    ASSUME OnlyReceives, ReceiveTypes, NEW b \in 1 .. Len(calls)
    PROVE  /\ calls[b].api = "ReceiveBufferAsynchronous"
           /\ calls[b].size \in Nat \ {0}
<1> DEFINE Calls == [api : use.calls, size : use.sizes]
<1>1. calls \in Seq(Calls)
  BY DEF ReceiveTypes
<1> HIDE DEF Calls
<1>2. calls[b] \in Calls
  BY <1>1, ElementOfSeq
<1>3. calls[b].api \in use.calls /\ calls[b].size \in use.sizes
  BY <1>2 DEF Calls
<1> QED BY <1>3, UsartAssumption DEF OnlyReceives, ReceiveTypes

(* A size of which the u8 keeps 0 is larger than a u8 counts, any other is *)
(* no smaller than what is kept of it.                                     *)
LEMMA SizeKept ==
    ASSUME NEW n \in Nat \ {0}, NEW index \in 0 .. U8MAX,
           U8(n) = 0 \/ index < U8(n)
    PROVE  index < n
<1>1. CASE n <= U8MAX
  BY <1>1, U8Small, UsartAssumption
<1>2. CASE n > U8MAX
  BY <1>2, UsartAssumption
<1> QED BY <1>1, <1>2, UsartAssumption

(* A step that stores nothing and calls nothing keeps what was stored in   *)
(* its place.                                                              *)
LEMMA PlacesKept ==
    ASSUME ReceivePlaces, UNCHANGED <<stored, calls>>, pc' # "idle" => pc # "idle"
    PROVE  ReceivePlaces'
<1>1. This' = This
  BY DEF This
<1> QED BY <1>1 DEF ReceivePlaces

(* One that leaves DR alone keeps the order too.                           *)
LEMMA OrderKept ==
    ASSUME ReceiveOrder, UNCHANGED <<stored, arrived>>, hw'.rdr = hw.rdr, hw'.rxne = hw.rxne
    PROVE  ReceiveOrder'
BY DEF ReceiveOrder, LastStored

(* Every step keeps the invariant.                                         *)
LEMMA NextReceiveInv == ReceiveInv /\ [Next]_vars => ReceiveInv'
<1> SUFFICES ASSUME ReceiveInv, [Next]_vars, OnlyReceives'
             PROVE  /\ ReceiveTypes' /\ ReceivePhase' /\ ReceivePlace'
                    /\ ReceiveOrder' /\ ReceivePlaces'
  BY DEF ReceiveInv
<1> USE UsartAssumption
<1>u. use' = use /\ OnlyReceives
  <2>1. use' = use
    BY DEF Next, vars, ShiftOut, Arrive, Handler, Irq, IrqReceive, IrqReceived, IrqFreed, IrqComplete,
           IrqNothing, IrqLoadSR, IrqStoreSR, IrqSend, Call, Continue, CheckByte, CheckBuffer,
           WriteData, SetBusy, SetIndex, SetSize, LoadCR1, StoreCR1, CheckReceive, SetInto,
           SetRxIndex, SetRxSize, SendAndWait, WaitTC, SendNow, ReceiveNow
  <2> QED BY <2>1 DEF OnlyReceives
<1>i. ReceiveTypes /\ ReceivePhase /\ ReceivePlace /\ ReceiveOrder /\ ReceivePlaces
  BY <1>u DEF ReceiveInv
<1>l. Len(calls) \in Nat /\ Len(stored) \in Nat
  BY <1>i DEF ReceiveTypes
<1>c. pc # "idle" => /\ This \in 1 .. Len(calls)
                     /\ Current.api = "ReceiveBufferAsynchronous"
                     /\ Current.size \in Nat \ {0}
  <2> SUFFICES ASSUME pc # "idle"
               PROVE  /\ This \in 1 .. Len(calls)
                      /\ Current.api = "ReceiveBufferAsynchronous"
                      /\ Current.size \in Nat \ {0}
    OBVIOUS
  <2>1. This \in 1 .. Len(calls)
    BY <1>i, <1>l DEF ReceiveTypes, ReceivePhase, This
  <2> QED BY <1>u, <1>i, <2>1, ReceiveCall DEF Current
<1>1. CASE ShiftOut
  BY <1>i, <1>1 DEF ShiftOut, ReceiveTypes
<1>2. CASE Arrive
  <2>1. /\ UNCHANGED <<use, tx, rx, cr1, pc, calls, reg, isr, stored>>
        /\ hw' = IF hw.rxne THEN hw ELSE [hw EXCEPT !.rxne = TRUE, !.rdr = arrived + 1]
        /\ arrived' = arrived + 1
    BY <1>2 DEF Arrive
  <2>2. arrived \in Nat /\ arrived' \in Nat
    BY <1>i, <2>1 DEF ReceiveTypes
  <2>3. /\ hw' \in [tdr : {Nothing}, shift : {Nothing}, tc : BOOLEAN, seen : BOOLEAN,
                    rxne : BOOLEAN, rdr : Nat]
        /\ hw'.rxne /\ hw'.rdr = (IF hw.rxne THEN hw.rdr ELSE arrived + 1)
    <3>1. CASE hw.rxne
      <4>1. hw' = hw
        BY <2>1, <3>1
      <4> QED BY <1>i, <3>1, <4>1 DEF ReceiveTypes
    <3>2. CASE ~hw.rxne
      <4>1. hw' = [[hw EXCEPT !.rxne = TRUE] EXCEPT !.rdr = arrived + 1]
        BY <2>1, <3>2
      <4> QED BY <1>i, <2>1, <2>2, <3>2, <4>1 DEF ReceiveTypes
    <3> QED BY <3>1, <3>2
  <2>4. ReceiveTypes'
    BY <1>i, <2>1, <2>2, <2>3 DEF ReceiveTypes
  <2>5. ReceivePhase'
    BY <1>i, <2>1, <2>3 DEF ReceivePhase
  <2>6. ReceivePlace'
    BY <1>i, <2>1 DEF ReceivePlace, This, Current
  <2>7. ReceiveOrder'
    <3>1. hw'.rdr <= arrived'
      BY <1>i, <2>1, <2>2, <2>3 DEF ReceiveOrder, ReceiveTypes
    <3>2. ASSUME NEW k \in 1 .. Len(stored)
          PROVE  stored[k].byte <= arrived' /\ stored[k].byte < hw'.rdr
      <4>1. stored[k].byte \in Nat
        <5>1. stored[k] \in Stored
          <6> HIDE DEF Stored
          <6> QED BY <1>i, ElementOfSeq DEF ReceiveTypes
        <5> QED BY <5>1 DEF Stored
      <4> QED BY <1>i, <2>1, <2>2, <2>3, <4>1 DEF ReceiveOrder
    <3> QED BY <1>i, <2>1, <3>1, <3>2 DEF ReceiveOrder
  <2>8. ReceivePlaces'
    BY <1>i, <2>1, PlacesKept
  <2> QED BY <2>4, <2>5, <2>6, <2>7, <2>8
<1>3. CASE Irq
  <2>1. /\ isr = "off" /\ isr' = "rx"
        /\ UNCHANGED <<use, tx, rx, hw, cr1, pc, calls, reg, stored, arrived>>
    BY <1>3 DEF Irq
  <2>2. cr1.rxneie /\ hw.rxne
    BY <1>i, <1>3 DEF Irq, Interrupting, ReceivePhase
  <2>3. ReceiveTypes'
    BY <1>i, <2>1 DEF ReceiveTypes
  <2>4. ReceivePhase'
    BY <1>i, <2>1, <2>2 DEF ReceivePhase
  <2>5. ReceivePlace'
    BY <1>i, <2>1, <2>2 DEF ReceivePlace, This, Current
  <2>6. ReceiveOrder' /\ ReceivePlaces'
    BY <1>i, <2>1, OrderKept, PlacesKept
  <2> QED BY <2>3, <2>4, <2>5, <2>6
<1>4. CASE IrqReceive
  <2> DEFINE e == [at |-> rx.into, index |-> rx.index, byte |-> hw.rdr]
             n == Len(stored)
  <2>1. /\ isr = "rx" /\ cr1.rxneie /\ hw.rxne /\ rx.busy /\ pc \in {"idle", "check"}
    BY <1>i, <1>4 DEF IrqReceive, ReceivePhase, ReceiveTypes
  <2>2. /\ stored' = Append(stored, e)
        /\ rx' = [rx EXCEPT !.index = U8(@ + 1)]
        /\ hw' = [hw EXCEPT !.rxne = FALSE]
        /\ isr' = IF Full THEN "received" ELSE "tx"
        /\ UNCHANGED <<use, tx, cr1, pc, calls, reg, arrived>>
    BY <1>4, <2>1 DEF IrqReceive, Place
  <2>3. e \in Stored
    BY <1>i DEF ReceiveTypes, Stored
  <2>4. /\ e.at = rx.into /\ e.index = rx.index /\ e.byte = hw.rdr
    OBVIOUS
  <2>5. /\ stored' \in Seq(Stored) /\ Len(stored') = n + 1
        /\ \A k \in 1 .. n : stored'[k] = stored[k]
        /\ stored'[n + 1] = e
    <3> HIDE DEF e
    <3>1. stored \in Seq(Stored)
      BY <1>i DEF ReceiveTypes
    <3> QED BY <2>2, <2>3, <3>1, AppendProperties
  <2> HIDE DEF e
  <2>6. rx.index \in 0 .. U8MAX /\ rx.size \in 0 .. U8MAX /\ U8(rx.index + 1) \in 0 .. U8MAX
    <3>1. rx.index \in 0 .. U8MAX /\ rx.size \in 0 .. U8MAX
      BY <1>i DEF ReceiveTypes
    <3> QED BY <3>1, U8Type
  <2>7. rx.index = Behind(stored, n, rx.into) /\ (rx.size = 0 \/ rx.index < rx.size)
    BY <1>i, <2>1 DEF ReceivePlace
  <2>8. /\ rx' \in [busy : BOOLEAN, index : 0 .. U8MAX, size : 0 .. U8MAX, into : Pointers]
        /\ rx'.busy /\ rx'.size = rx.size /\ rx'.into = rx.into
        /\ rx'.index = U8(rx.index + 1)
    BY <1>i, <2>1, <2>2, <2>6 DEF ReceiveTypes
  <2>9. /\ hw' \in [tdr : {Nothing}, shift : {Nothing}, tc : BOOLEAN, seen : BOOLEAN,
                    rxne : BOOLEAN, rdr : Nat]
        /\ ~hw'.rxne /\ hw'.rdr = hw.rdr
    BY <1>i, <2>2 DEF ReceiveTypes
  <2>10. ReceiveTypes'
    BY <1>i, <2>2, <2>5, <2>8, <2>9 DEF ReceiveTypes
  <2>11. ReceivePhase'
    BY <1>i, <2>1, <2>2, <2>8 DEF ReceivePhase, Receiving
  <2>12. ReceivePlace'
    <3>1. /\ rx'.into = Pointer(rx'.into.of) /\ rx'.into.of \in 1 .. Len(calls')
          /\ pc' = "check" => rx'.into.of < This'
          /\ rx'.size = U8(calls'[rx'.into.of].size)
      <4>1. This' = This
        BY <2>2 DEF This
      <4> QED BY <1>i, <2>1, <2>2, <2>8, <4>1 DEF ReceivePlace
    <3>2. ASSUME isr' # "received"
          PROVE  /\ rx'.index = Behind(stored', Len(stored'), rx'.into)
                 /\ rx'.size = 0 \/ rx'.index < rx'.size
      <4>1. rx.size # U8(rx.index + 1)
        BY <2>2, <3>2 DEF Full
      <4>2. U8(rx.index + 1) = IF rx.index = U8MAX THEN 0 ELSE rx.index + 1
        BY <2>6, U8Next
      <4>3. rx'.index = rx.index + 1 /\ (rx'.size = 0 \/ rx'.index < rx'.size)
        BY <2>6, <2>7, <2>8, <4>1, <4>2
      <4>4. Behind(stored', n, rx.into) = rx.index
        BY <1>l, <2>5, <2>7, BehindSame
      <4>5. stored'[n + 1].at = rx.into
        BY <2>4, <2>5
      <4>6. Behind(stored', n + 1, rx.into) = Behind(stored', n, rx.into) + 1
        BY <1>l, <4>5, BehindNext
      <4> QED BY <2>5, <2>8, <4>3, <4>4, <4>6
    <3> QED BY <2>1, <2>2, <3>1, <3>2 DEF ReceivePlace
  <2>13. ReceiveOrder'
    <3>1. hw'.rdr <= arrived' /\ ~hw'.rxne
      BY <1>i, <2>2, <2>9 DEF ReceiveOrder
    <3>2. ASSUME NEW k \in 1 .. Len(stored')
          PROVE  stored'[k].byte <= arrived' /\ (k <= n => stored'[k].byte < hw.rdr)
      <4>1. CASE k \in 1 .. n
        BY <1>i, <1>l, <2>1, <2>2, <2>5, <4>1 DEF ReceiveOrder
      <4>2. CASE k = n + 1
        BY <1>i, <1>l, <2>2, <2>4, <2>5, <4>2 DEF ReceiveOrder
      <4> QED BY <1>l, <2>5, <4>1, <4>2
    <3>3. ASSUME NEW j \in 1 .. Len(stored'), NEW k \in 1 .. Len(stored'), j < k
          PROVE  stored'[j].byte < stored'[k].byte
      <4>1. CASE k \in 1 .. n
        <5>1. j \in 1 .. n
          BY <1>l, <2>5, <3>3, <4>1
        <5> QED BY <1>i, <2>5, <3>3, <4>1, <5>1 DEF ReceiveOrder
      <4>2. CASE k = n + 1
        <5>1. j <= n
          BY <1>l, <2>5, <3>3, <4>2
        <5> QED BY <2>4, <2>5, <3>2, <4>2, <5>1
      <4> QED BY <1>l, <2>5, <4>1, <4>2
    <3>4. hw'.rdr = LastStored'
      <4>1. stored' # <<>> /\ stored'[Len(stored')].byte = hw.rdr
        BY <1>l, <2>4, <2>5
      <4> QED BY <2>9, <4>1 DEF LastStored
    <3> QED BY <3>1, <3>2, <3>3, <3>4 DEF ReceiveOrder
  <2>14. ReceivePlaces'
    <3>1. This' = This
      BY <2>2 DEF This
    <3>2. ASSUME NEW k \in 1 .. n
          PROVE  /\ stored'[k].at.of \in 1 .. Len(calls')
                 /\ stored'[k].at = Pointer(stored'[k].at.of)
                 /\ pc' # "idle" => stored'[k].at.of < This'
                 /\ stored'[k].index < calls'[stored'[k].at.of].size
                 /\ stored'[k].index = Behind(stored', k - 1, stored'[k].at)
      <4>1. stored'[k] = stored[k]
        BY <2>5
      <4>2. k - 1 \in Nat /\ \A j \in 1 .. k - 1 : stored'[j] = stored[j]
        BY <1>l, <2>5
      <4>3. Behind(stored', k - 1, stored[k].at) = Behind(stored, k - 1, stored[k].at)
        BY <4>2, BehindSame
      <4> QED BY <1>i, <2>2, <3>1, <4>1, <4>3 DEF ReceivePlaces
    <3>3. /\ e.at.of \in 1 .. Len(calls')
          /\ e.at = Pointer(e.at.of)
          /\ pc' # "idle" => e.at.of < This'
          /\ e.index < calls'[e.at.of].size
          /\ e.index = Behind(stored', n, e.at)
      <4>1. /\ rx.into = Pointer(rx.into.of) /\ rx.into.of \in 1 .. Len(calls)
            /\ pc = "check" => rx.into.of < This
            /\ rx.size = U8(calls[rx.into.of].size)
        BY <1>i, <2>1 DEF ReceivePlace
      <4>2. calls[rx.into.of].size \in Nat \ {0}
        BY <1>u, <1>i, <4>1, ReceiveCall
      <4>3. rx.index < calls[rx.into.of].size
        BY <2>6, <2>7, <4>1, <4>2, SizeKept
      <4>4. Behind(stored', n, rx.into) = rx.index
        BY <1>l, <2>5, <2>7, BehindSame
      <4> QED BY <2>1, <2>2, <2>4, <3>1, <4>1, <4>3, <4>4
    <3>4. ASSUME NEW k \in 1 .. Len(stored')
          PROVE  /\ stored'[k].at.of \in 1 .. Len(calls')
                 /\ stored'[k].at = Pointer(stored'[k].at.of)
                 /\ pc' # "idle" => stored'[k].at.of < This'
                 /\ stored'[k].index < calls'[stored'[k].at.of].size
                 /\ stored'[k].index = Behind(stored', k - 1, stored'[k].at)
      <4>1. CASE k \in 1 .. n
        BY <3>2, <4>1
      <4>2. CASE k = n + 1
        <5>1. stored'[k] = e /\ k - 1 = n
          BY <1>l, <2>5, <4>2
        <5> QED BY <3>3, <5>1
      <4> QED BY <1>l, <2>5, <4>1, <4>2
    <3> QED BY <3>4 DEF ReceivePlaces
  <2> QED BY <2>10, <2>11, <2>12, <2>13, <2>14
<1>5. CASE IrqReceived
  <2>1. /\ isr = "received" /\ isr' = "freed"
        /\ cr1' = [cr1 EXCEPT !.rxneie = FALSE]
        /\ UNCHANGED <<use, tx, rx, hw, pc, calls, reg, stored, arrived>>
    BY <1>u, <1>5 DEF IrqReceived, OnlyReceives, RxDisarmed
  <2>2. rx.busy /\ pc \notin Receiving /\ cr1' \in [tcie : {FALSE}, rxneie : BOOLEAN] /\ ~cr1'.rxneie
    BY <1>i, <2>1 DEF ReceivePhase
  <2>3. ReceiveTypes'
    BY <1>i, <2>1 DEF ReceiveTypes
  <2>4. ReceivePhase'
    BY <1>i, <2>1, <2>2 DEF ReceivePhase, Receiving
  <2>5. ReceivePlace'
    BY <1>i, <2>1, <2>2 DEF ReceivePlace, Receiving
  <2>6. ReceiveOrder' /\ ReceivePlaces'
    BY <1>i, <2>1, OrderKept, PlacesKept
  <2> QED BY <2>3, <2>4, <2>5, <2>6
<1>6. CASE IrqFreed
  <2>1. /\ isr = "freed" /\ isr' = "tx"
        /\ rx' = [rx EXCEPT !.busy = FALSE, !.size = 0]
        /\ UNCHANGED <<use, tx, hw, cr1, pc, calls, reg, stored, arrived>>
    BY <1>i, <1>6 DEF IrqFreed, Free, ReceiveTypes
  <2>2. ~cr1.rxneie /\ pc \notin Receiving
    BY <1>i, <2>1 DEF ReceivePhase
  <2>3. ReceiveTypes'
    <3>1. 0 \in 0 .. U8MAX /\ rx' = [[rx EXCEPT !.busy = FALSE] EXCEPT !.size = 0]
      BY <2>1
    <3>2. rx' \in [busy : BOOLEAN, index : 0 .. U8MAX, size : 0 .. U8MAX, into : Pointers]
      BY <1>i, <3>1 DEF ReceiveTypes
    <3> QED BY <1>i, <2>1, <3>2 DEF ReceiveTypes
  <2>4. ReceivePhase'
    BY <1>i, <2>1, <2>2 DEF ReceivePhase
  <2>5. ReceivePlace'
    BY <1>i, <2>1, <2>2 DEF ReceivePlace, Receiving
  <2>6. ReceiveOrder' /\ ReceivePlaces'
    BY <1>i, <2>1, OrderKept, PlacesKept
  <2> QED BY <2>3, <2>4, <2>5, <2>6
<1>7. CASE IrqComplete \/ IrqNothing
  <2>1. /\ isr = "tx" /\ isr' = "off"
        /\ tx' = [busy |-> FALSE, index |-> 0, size |-> 0, send |-> 0]
        /\ cr1' = [cr1 EXCEPT !.tcie = FALSE] \/ cr1' = cr1
        /\ hw' = [hw EXCEPT !.seen = TRUE] \/ hw' = hw
        /\ UNCHANGED <<use, rx, pc, calls, reg, stored, arrived>>
    BY <1>i, <1>7 DEF IrqComplete, IrqNothing, Idle, TxDisarmed, ReceiveTypes
  <2>2. cr1' = cr1
    <3>1. cr1 \in [tcie : {FALSE}, rxneie : BOOLEAN]
      BY <1>i DEF ReceivePhase
    <3>2. cr1 = [cr1 EXCEPT !.tcie = FALSE]
      BY <3>1, Zenon
    <3> QED BY <2>1, <3>2
  <2>3. /\ hw' \in [tdr : {Nothing}, shift : {Nothing}, tc : BOOLEAN, seen : BOOLEAN,
                    rxne : BOOLEAN, rdr : Nat]
        /\ hw'.rdr = hw.rdr /\ hw'.rxne = hw.rxne
    <3>1. CASE hw' = hw
      BY <1>i, <3>1 DEF ReceiveTypes
    <3>2. CASE hw' = [hw EXCEPT !.seen = TRUE]
      BY <1>i, <3>2 DEF ReceiveTypes
    <3> QED BY <2>1, <3>1, <3>2
  <2>4. ReceiveTypes'
    BY <1>i, <2>1, <2>3 DEF ReceiveTypes
  <2>5. ReceivePhase'
    BY <1>i, <2>1, <2>2 DEF ReceivePhase
  <2>6. ReceivePlace'
    BY <1>i, <2>1, <2>2 DEF ReceivePlace, This, Current
  <2>7. ReceiveOrder' /\ ReceivePlaces'
    BY <1>i, <2>1, <2>3, OrderKept, PlacesKept
  <2> QED BY <2>4, <2>5, <2>6, <2>7
<1>8. CASE IrqLoadSR \/ IrqStoreSR \/ IrqSend
  BY <1>i, <1>8 DEF IrqLoadSR, IrqStoreSR, IrqSend, AllSent, ReceiveTypes
<1>9. CASE \E api \in use.calls, size \in use.sizes : Call(api, size)
  <2>1. PICK api \in use.calls, size \in use.sizes : Call(api, size)
    BY <1>9
  <2>2. /\ pc = "idle" /\ pc' = "check" /\ isr = "off"
        /\ calls' = Append(calls, [api |-> api, size |-> size])
        /\ UNCHANGED <<use, tx, rx, hw, cr1, reg, isr, stored, arrived>>
    BY <2>1 DEF Call, At
  <2>3. /\ calls' \in Seq([api : use.calls, size : use.sizes])
        /\ calls' # <<>> /\ Len(calls') = Len(calls) + 1
        /\ \A b \in 1 .. Len(calls) : calls'[b] = calls[b]
    <3> DEFINE Calls == [api : use.calls, size : use.sizes]
    <3>1. calls \in Seq(Calls) /\ [api |-> api, size |-> size] \in Calls
      BY <1>i DEF ReceiveTypes
    <3> HIDE DEF Calls
    <3>2. /\ calls' \in Seq(Calls) /\ calls' # <<>> /\ Len(calls') = Len(calls) + 1
          /\ \A b \in 1 .. Len(calls) : calls'[b] = calls[b]
      BY <2>2, <3>1, AppendProperties
    <3> QED BY <3>2 DEF Calls
  <2>4. ReceiveTypes'
    BY <1>i, <2>2, <2>3 DEF ReceiveTypes
  <2>5. ReceivePhase'
    BY <1>i, <2>2, <2>3 DEF ReceivePhase, Receiving
  <2>6. This' = Len(calls) + 1
    BY <2>3 DEF This
  <2>7. ReceivePlace'
    <3>1. ASSUME cr1.rxneie
          PROVE  /\ rx'.into = Pointer(rx'.into.of) /\ rx'.into.of \in 1 .. Len(calls')
                 /\ rx'.into.of < This'
                 /\ rx'.size = U8(calls'[rx'.into.of].size)
      <4>1. /\ rx.into = Pointer(rx.into.of) /\ rx.into.of \in 1 .. Len(calls)
            /\ rx.size = U8(calls[rx.into.of].size)
        BY <1>i, <3>1 DEF ReceivePlace
      <4> QED BY <1>l, <2>2, <2>3, <2>6, <4>1
    <3>2. cr1.rxneie' /\ isr' # "received" => /\ rx'.index = Behind(stored', Len(stored'), rx'.into)
                                              /\ rx'.size = 0 \/ rx'.index < rx'.size
      BY <1>i, <2>2 DEF ReceivePlace
    <3> QED BY <2>2, <3>1, <3>2 DEF ReceivePlace
  <2>8. ReceiveOrder'
    BY <1>i, <2>2, OrderKept
  <2>9. ReceivePlaces'
    <3>1. ASSUME NEW k \in 1 .. Len(stored)
          PROVE  /\ stored[k].at.of \in 1 .. Len(calls') /\ stored[k].at.of < This'
                 /\ calls'[stored[k].at.of] = calls[stored[k].at.of]
      <4>1. stored[k].at.of \in 1 .. Len(calls)
        BY <1>i DEF ReceivePlaces
      <4> QED BY <1>l, <2>3, <2>6, <4>1
    <3> QED BY <1>i, <2>2, <3>1 DEF ReceivePlaces
  <2> QED BY <2>4, <2>5, <2>7, <2>8, <2>9
<1>10. CASE CheckReceive /\ rx.busy
  <2>1. /\ pc = "check" /\ pc' = "idle" /\ isr = "off"
        /\ UNCHANGED <<use, tx, rx, hw, cr1, calls, reg, isr, stored, arrived>>
    BY <1>10 DEF CheckReceive, At
  <2>2. ReceiveTypes'
    BY <1>i, <2>1 DEF ReceiveTypes
  <2>3. ReceivePhase'
    BY <1>i, <2>1 DEF ReceivePhase, Receiving
  <2>4. ReceivePlace'
    BY <1>i, <2>1 DEF ReceivePlace
  <2>5. ReceiveOrder' /\ ReceivePlaces'
    BY <1>i, <2>1, OrderKept, PlacesKept
  <2> QED BY <2>2, <2>3, <2>4, <2>5
<1>11. CASE CheckReceive /\ ~rx.busy
  <2>1. /\ pc = "check" /\ pc' = "into" /\ isr = "off"
        /\ rx' = [rx EXCEPT !.busy = TRUE]
        /\ UNCHANGED <<use, tx, hw, cr1, calls, reg, isr, stored, arrived>>
    BY <1>11 DEF CheckReceive, At
  <2>2. ~cr1.rxneie /\ calls # <<>>
    BY <1>i, <1>11, <2>1 DEF ReceivePhase
  <2>3. /\ rx' \in [busy : BOOLEAN, index : 0 .. U8MAX, size : 0 .. U8MAX, into : Pointers]
        /\ rx'.busy
    BY <1>i, <2>1 DEF ReceiveTypes
  <2>4. ReceiveTypes'
    BY <1>i, <2>1, <2>3 DEF ReceiveTypes, Receiving
  <2>5. ReceivePhase'
    BY <1>i, <2>1, <2>2, <2>3 DEF ReceivePhase
  <2>6. ReceivePlace'
    BY <2>1, <2>2 DEF ReceivePlace
  <2>7. ReceiveOrder' /\ ReceivePlaces'
    BY <1>i, <2>1, OrderKept, PlacesKept
  <2> QED BY <2>4, <2>5, <2>6, <2>7
<1>12. CASE SetInto \/ SetRxIndex \/ SetRxSize
  <2>1. /\ \/ pc = "into" /\ rx' = [rx EXCEPT !.into = Pointer(This)] /\ pc' = "rxindex"
           \/ pc = "rxindex" /\ rx' = [rx EXCEPT !.index = 0] /\ pc' = "rxsize"
           \/ pc = "rxsize" /\ rx' = [rx EXCEPT !.size = U8(Current.size)] /\ pc' = "load"
        /\ isr = "off"
        /\ UNCHANGED <<use, tx, hw, cr1, calls, reg, isr, stored, arrived>>
    BY <1>12 DEF SetInto, SetRxIndex, SetRxSize, At
  <2>2. ~cr1.rxneie /\ calls # <<>> /\ rx.busy
    BY <1>i, <2>1 DEF ReceivePhase, Receiving
  <2>3. This' = This /\ Current' = Current
    BY <2>1 DEF This, Current
  <2>4. /\ rx' \in [busy : BOOLEAN, index : 0 .. U8MAX, size : 0 .. U8MAX, into : Pointers]
        /\ rx'.busy
        /\ rx'.into = IF pc = "into" THEN Pointer(This) ELSE rx.into
        /\ rx'.index = IF pc = "rxindex" THEN 0 ELSE rx.index
        /\ pc = "rxsize" => rx'.size = U8(Current.size)
    <3>1. Pointer(This) \in Pointers
      BY <1>l DEF Pointer, Pointers, This
    <3>2. U8(Current.size) \in 0 .. U8MAX
      BY <1>c, <2>1, U8Type
    <3>3. CASE pc = "into"
      BY <1>i, <2>1, <2>2, <3>1, <3>3 DEF ReceiveTypes
    <3>4. CASE pc = "rxindex"
      <4>1. 0 \in 0 .. U8MAX
        OBVIOUS
      <4> QED BY <1>i, <2>1, <2>2, <3>4, <4>1 DEF ReceiveTypes
    <3>5. CASE pc = "rxsize"
      BY <1>i, <2>1, <2>2, <3>2, <3>5 DEF ReceiveTypes
    <3> QED BY <2>1, <3>3, <3>4, <3>5
  <2>5. ReceiveTypes'
    BY <1>i, <2>1, <2>4 DEF ReceiveTypes, Receiving
  <2>6. ReceivePhase'
    BY <1>i, <2>1, <2>2, <2>4 DEF ReceivePhase
  <2>7. ReceivePlace'
    BY <1>i, <2>1, <2>2, <2>3, <2>4 DEF ReceivePlace
  <2>8. ReceiveOrder' /\ ReceivePlaces'
    BY <1>i, <2>1, OrderKept, PlacesKept
  <2> QED BY <2>5, <2>6, <2>7, <2>8
<1>13. CASE LoadCR1
  <2>1. /\ pc = "load" /\ reg' = cr1 /\ pc' = "store" /\ isr = "off"
        /\ UNCHANGED <<use, tx, rx, hw, cr1, calls, isr, stored, arrived>>
    BY <1>13 DEF LoadCR1, At
  <2>2. This' = This /\ Current' = Current
    BY <2>1 DEF This, Current
  <2>3. ReceiveTypes'
    BY <1>i, <2>1 DEF ReceiveTypes, Receiving
  <2>4. ReceivePhase'
    BY <1>i, <2>1 DEF ReceivePhase, Receiving
  <2>5. ReceivePlace'
    BY <1>i, <2>1, <2>2 DEF ReceivePlace
  <2>6. ReceiveOrder' /\ ReceivePlaces'
    BY <1>i, <2>1, OrderKept, PlacesKept
  <2> QED BY <2>3, <2>4, <2>5, <2>6
<1>14. CASE StoreCR1
  <2>1. /\ pc = "store" /\ pc' = "idle" /\ isr = "off"
        /\ cr1' = [reg EXCEPT !.rxneie = TRUE]
        /\ UNCHANGED <<use, tx, rx, hw, calls, reg, isr, stored, arrived>>
    BY <1>c, <1>14 DEF StoreCR1, At, SendCalls
  <2>2. rx.busy /\ cr1' \in [tcie : {FALSE}, rxneie : BOOLEAN] /\ cr1'.rxneie
    BY <1>i, <2>1 DEF ReceivePhase, Receiving
  <2>3. ReceiveTypes'
    BY <1>i, <2>1 DEF ReceiveTypes
  <2>4. ReceivePhase'
    BY <1>i, <2>1, <2>2 DEF ReceivePhase, Receiving
  <2>5. ReceivePlace'
    <3>1. rx.into = Pointer(This) /\ rx.index = 0 /\ rx.size = U8(calls[This].size)
      BY <1>i, <2>1 DEF ReceivePlace, Current
    <3>2. rx.into.of = This /\ This \in 1 .. Len(calls)
      BY <1>c, <2>1, <3>1 DEF Pointer
    <3>3. \A j \in 1 .. Len(stored) : stored[j].at # rx.into
      <4> SUFFICES ASSUME NEW j \in 1 .. Len(stored) PROVE stored[j].at # rx.into
        OBVIOUS
      <4>1. stored[j].at.of < This
        BY <1>i, <2>1 DEF ReceivePlaces
      <4> QED BY <1>l, <3>2, <4>1
    <3>4. Behind(stored, Len(stored), rx.into) = 0
      BY <1>l, <3>3, BehindNone
    <3>5. rx.size = 0 \/ rx.index < rx.size
      BY <1>i, <3>1 DEF ReceiveTypes
    <3> QED BY <2>1, <3>1, <3>2, <3>4, <3>5 DEF ReceivePlace
  <2>6. ReceiveOrder' /\ ReceivePlaces'
    BY <1>i, <2>1, OrderKept, PlacesKept
  <2> QED BY <2>3, <2>4, <2>5, <2>6
<1>15. CASE \/ CheckByte \/ CheckBuffer \/ WriteData \/ SetBusy \/ SetIndex \/ SetSize
            \/ SendAndWait \/ WaitTC \/ SendNow \/ ReceiveNow
  BY <1>i, <1>c, <1>15 DEF CheckByte, CheckBuffer, WriteData, SetBusy, SetIndex, SetSize, SendAndWait,
                           WaitTC, SendNow, ReceiveNow, At, ReceiveTypes, Receiving
<1>16. CASE UNCHANGED vars
  <2>1. UNCHANGED <<use, tx, rx, hw, cr1, pc, calls, reg, isr, stored, arrived>>
    BY <1>16 DEF vars
  <2>2. This' = This /\ Current' = Current
    BY <2>1 DEF This, Current
  <2>3. ReceiveTypes'
    BY <1>i, <2>1 DEF ReceiveTypes
  <2>4. ReceivePhase'
    BY <1>i, <2>1 DEF ReceivePhase
  <2>5. ReceivePlace'
    BY <1>i, <2>1, <2>2 DEF ReceivePlace
  <2>6. ReceiveOrder' /\ ReceivePlaces'
    BY <1>i, <2>1, OrderKept, PlacesKept
  <2> QED BY <2>3, <2>4, <2>5, <2>6
<1> QED
  BY <1>1, <1>2, <1>3, <1>4, <1>5, <1>6, <1>7, <1>8, <1>9, <1>10, <1>11, <1>12, <1>13, <1>14, <1>15,
     <1>16
  DEF Next, Handler, Continue

(* Of a program that only receives the bytes are stored in the order they  *)
(* came in, none lost but by an overrun, at consecutive places from the    *)
(* address &ReceiveBuffer->Data of a call on and no more than it asked     *)
(* for, wherever the handler and the line cut into its calls: over the     *)
(* descriptors, that is, and not into the buffers.  (USART.c:381, 468)     *)
THEOREM BytesReceivedInOrder == Spec => []ReceivedInOrder
<1>1. ReceiveInv => ReceivedInOrder
  <2> SUFFICES ASSUME ReceiveInv, OnlyReceives
               PROVE  /\ \A j, k \in 1 .. Len(stored) : j < k => stored[j].byte < stored[k].byte
                      /\ \A k \in 1 .. Len(stored) :
                            stored[k].index = Cardinality({j \in 1 .. k - 1 : stored[j].at = stored[k].at})
                      /\ \A k \in 1 .. Len(stored) :
                            /\ stored[k].at = Pointer(stored[k].at.of)
                            /\ stored[k].index < calls[stored[k].at.of].size
                      /\ hw.rxne \/ hw.rdr = LastStored
    BY DEF ReceivedInOrder
  <2>1. ReceiveOrder /\ ReceivePlaces
    BY DEF ReceiveInv
  <2>2. \A k \in 1 .. Len(stored) :
            stored[k].index = Cardinality({j \in 1 .. k - 1 : stored[j].at = stored[k].at})
    BY <2>1 DEF ReceivePlaces, Behind
  <2>3. \A k \in 1 .. Len(stored) :
            /\ stored[k].at = Pointer(stored[k].at.of)
            /\ stored[k].index < calls[stored[k].at.of].size
    BY <2>1 DEF ReceivePlaces
  <2> QED BY <2>1, <2>2, <2>3 DEF ReceiveOrder
<1> QED BY <1>1, InitReceiveInv, NextReceiveInv, PTL DEF Spec
=============================================================================
