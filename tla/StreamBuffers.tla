---------------------------- MODULE StreamBuffers ----------------------------
(***************************************************************************)
(* stream_buffer.c: one stream or message buffer between one writer and    *)
(* one reader, each of them a task or an interrupt handler, which wait for *)
(* one another with their task notifications.                              *)
(*                                                                         *)
(* A cell of the buffer is a byte; the length before a message takes one   *)
(* cell here.  The writer alone moves xHead and the reader xTail, in one   *)
(* store each: a copy into or out of the buffer is one step with it.       *)
(*                                                                         *)
(* An operator named X_Fault is a faulty variant of the definition X.      *)
(***************************************************************************)
EXTENDS TaskCalls

CONSTANTS StreamLength,  \* xLength, one more than the bytes it can hold
          NoReader       \* NULL of xTaskWaitingToReceive and xTaskWaitingToSend

VARIABLES stream,    \* the StreamBuffer_t
          sent,      \* history: the bytes written, without lengths
          received   \* history: the bytes read

streamVars == <<stream, sent, received>>

HeaderBytes == 1  \* sbBYTES_TO_STORE_MESSAGE_LENGTH
IsMessageBuffer == stream.messages
Header == IF IsMessageBuffer THEN HeaderBytes ELSE 0

(* xStreamBufferGenericCreate, prvInitialiseNewStreamBuffer; a trigger     *)
(* level of 0 is taken as 1.                                               *)
NewStream(trigger, messages) ==
    [cells |-> [i \in 0 .. StreamLength - 1 |-> 0], xHead |-> 0, xTail |-> 0,
     xTriggerLevelBytes |-> IF trigger = 0 THEN 1 ELSE trigger, messages |-> messages,
     xTaskWaitingToReceive |-> NoReader, xTaskWaitingToSend |-> NoReader]

StreamInit == /\ stream = NewStream(scenario.trigger, scenario.messages)
              /\ sent = <<>>
              /\ received = <<>>

----------------------------------------------------------------------------
(* The ring of cells *)

(* prvBytesInBuffer, xStreamBufferSpacesAvailable *)
BytesInBuffer == (stream.xHead - stream.xTail) % StreamLength
SpacesAvailable_OffByOne ==
    LET space == StreamLength + stream.xTail - stream.xHead - 1
    IN IF space > StreamLength THEN space - StreamLength ELSE space
SpacesAvailable == (stream.xTail - stream.xHead - 1) % StreamLength

At(i) == i % StreamLength

(* prvWriteBytesToBuffer, prvReadBytesFromBuffer *)
Written(bytes) ==
    [stream EXCEPT !.cells = [i \in DOMAIN stream.cells |->
                        LET n == (i - stream.xHead) % StreamLength
                        IN IF n < Len(bytes) THEN bytes[n + 1] ELSE stream.cells[i]],
                   !.xHead = At(@ + Len(bytes))]
BytesAt(i, n) == [j \in 1 .. n |-> stream.cells[At(i + j - 1)]]

(* prvWriteMessageToBuffer: what of the bytes is written into the space. *)
ToWrite(bytes, space) ==
    IF IsMessageBuffer THEN IF space >= Len(bytes) + Header THEN bytes ELSE <<>>
    ELSE SubSeq(bytes, 1, Min({Len(bytes), space}))

WriteMessage(bytes, space) ==
    LET w == ToWrite(bytes, space)
    IN /\ stream' = IF w = <<>> THEN stream
                    ELSE IF IsMessageBuffer THEN Written(<<Len(w)>> \o w) ELSE Written(w)
       /\ sent' = sent \o w

(* prvReadMessageFromBuffer: how many bytes, out of "available" of which   *)
(* the length is a part, go to a reader with room for n.                   *)
ToRead(n, available) ==
    IF IsMessageBuffer
    THEN LET length == stream.cells[stream.xTail]
         IN IF length > n THEN 0 ELSE Min({length, available - Header})
    ELSE Min({n, available})

ReadMessage(n, available) ==
    LET count == ToRead(n, available)
    IN /\ stream' = IF count = 0 THEN stream ELSE [stream EXCEPT !.xTail = At(@ + Header + count)]
       /\ received' = received \o BytesAt(stream.xTail + Header, count)

----------------------------------------------------------------------------
(* xStreamBufferSend *)

MaxReportedSpace == StreamLength - 1
RequiredSpace(bytes) == IF IsMessageBuffer THEN Len(bytes) + Header
                        ELSE Min({Len(bytes), MaxReportedSpace})

(* A message that can never fit is not waited for. *)
SendTicks == IF RequiredSpace(Now.with) > MaxReportedSpace THEN 0 ELSE Now.ticks

StreamSend == {"xStreamBufferSend"}
StreamReceive == {"xStreamBufferReceive"}

SendStart ==
    /\ InCall(StreamSend, "start")
    /\ IF SendTicks = 0 THEN Goto("write") /\ UNCHANGED left
       ELSE /\ Set([call[me] EXCEPT !.stage = "test", !.since = TimeOutState(kernel)])
            /\ WaitBegins
    /\ UNCHANGED <<kernel, stream, sent, received>> /\ Unserved

SendTest ==
    /\ InCall(StreamSend, "test")
    /\ IF SpacesAvailable < RequiredSpace(Now.with)
       THEN /\ Step(configASSERT(xTaskGenericNotifyStateClear(kernel, me),
                                 stream.xTaskWaitingToSend = NoReader, "two writers"))
            /\ stream' = [stream EXCEPT !.xTaskWaitingToSend = me]
            /\ Set([call[me] EXCEPT !.stage = "wait", !.space = SpacesAvailable])
       ELSE /\ Set([call[me] EXCEPT !.stage = "write", !.space = SpacesAvailable])
            /\ UNCHANGED <<kernel, stream>>
    /\ UNCHANGED <<sent, received, left>> /\ Unserved

(* xTaskNotifyWait, for either side. *)
StreamWait ==
    /\ InCall(StreamSend \cup StreamReceive, "wait")
    /\ Step(NotifyWaits(kernel, 0, call[me].ticks))
    /\ Goto("waited")
    /\ UNCHANGED <<stream, sent, received, left>> /\ Unserved

StreamWaited ==
    /\ InCall(StreamSend \cup StreamReceive, "waited")
    /\ Step(NotifyWaited(kernel, 0))
    /\ Goto("forget")
    /\ UNCHANGED <<stream, sent, received, left>> /\ Unserved

SendForget ==
    /\ InCall(StreamSend, "forget")
    /\ stream' = [stream EXCEPT !.xTaskWaitingToSend = NoReader]
    /\ Goto("check")
    /\ UNCHANGED <<kernel, sent, received, left>> /\ Unserved

(* When the time is up the space is the one before the wait. *)
SendCheckForTimeOut ==
    /\ InCall(StreamSend, "check")
    /\ LET c == call[me]
       IN IF Aborted(kernel)
          THEN Set([c EXCEPT !.stage = "write", !.outcome = "aborted"])
          ELSE IF TimedOut(kernel, c.since, c.ticks)
          THEN Set([c EXCEPT !.stage = "write", !.outcome = "expired", !.ticks = 0])
          ELSE Set([c EXCEPT !.stage = "test", !.ticks = TicksLeft(kernel, c.since, @),
                             !.since = IF c.ticks = portMAX_DELAY THEN @ ELSE TimeOutState(kernel)])
    /\ Step(Checked(kernel))
    /\ UNCHANGED <<stream, sent, received, left>> /\ Unserved

SendWrite ==
    /\ InCall(StreamSend, "write")
    /\ LET space == IF call[me].space = 0 THEN SpacesAvailable ELSE call[me].space
       IN /\ WriteMessage(Now.with, space)
          /\ IF ToWrite(Now.with, space) = <<>> THEN Return ELSE Goto("written")
    /\ UNCHANGED <<kernel, received, left>> /\ Unserved

SendWritten ==
    /\ InCall(StreamSend, "written")
    /\ IF BytesInBuffer >= stream.xTriggerLevelBytes THEN Goto("complete") ELSE Return
    /\ UNCHANGED <<kernel, stream, sent, received, left>> /\ Unserved

(* sbSEND_COMPLETED, sbRECEIVE_COMPLETED: vTaskSuspendAll, then xTaskNotify *)
(* to the task that waits, then xTaskResumeAll, after which the call is    *)
(* over.                                                                   *)
CompleteSuspend ==
    /\ InCall(StreamSend \cup StreamReceive, "complete")
    /\ Step(vTaskSuspendAll(kernel))
    /\ Goto("notify")
    /\ UNCHANGED <<stream, sent, received, left>> /\ Unserved

Partner == IF Now.api \in StreamSend THEN stream.xTaskWaitingToReceive ELSE stream.xTaskWaitingToSend
Forgotten(reader) == IF reader THEN [stream EXCEPT !.xTaskWaitingToReceive = NoReader]
                     ELSE [stream EXCEPT !.xTaskWaitingToSend = NoReader]

CompleteNotify ==
    /\ InCall(StreamSend \cup StreamReceive, "notify")
    /\ IF Partner = NoReader THEN UNCHANGED <<kernel, stream>>
       ELSE /\ Step(xTaskGenericNotify(kernel, Partner, "eNoAction", 0))
            /\ stream' = Forgotten(Now.api \in StreamSend)
    /\ Goto("resume")
    /\ UNCHANGED <<sent, received, left>> /\ Unserved

StreamReturns == /\ InCall(StreamSend \cup StreamReceive, "after")
                 /\ Return
                 /\ UNCHANGED <<kernel, stream, sent, received, left>> /\ Unserved

----------------------------------------------------------------------------
(* xStreamBufferReceive.  A reader only waits while there is nothing to    *)
(* read; the trigger level decides when it is told.                        *)

Waits == BytesInBuffer <= Header

ReceiveStart ==
    /\ InCall(StreamReceive, "start")
    /\ IF Now.ticks # 0 /\ Waits
       THEN /\ Step(configASSERT(xTaskGenericNotifyStateClear(kernel, me),
                                 stream.xTaskWaitingToReceive = NoReader, "two readers"))
            /\ stream' = [stream EXCEPT !.xTaskWaitingToReceive = me]
            /\ Goto("wait")
            /\ WaitBegins
       ELSE /\ Set([call[me] EXCEPT !.stage = "read", !.space = BytesInBuffer])
            /\ UNCHANGED <<kernel, stream, left>>
    /\ UNCHANGED <<sent, received>> /\ Unserved

ReceiveForget ==
    /\ InCall(StreamReceive, "forget")
    /\ stream' = [stream EXCEPT !.xTaskWaitingToReceive = NoReader]
    /\ Goto("count")
    /\ UNCHANGED <<kernel, sent, received, left>> /\ Unserved

ReceiveCount ==
    /\ InCall(StreamReceive, "count")
    /\ Set([call[me] EXCEPT !.stage = "read", !.space = BytesInBuffer])
    /\ UNCHANGED <<kernel, stream, sent, received, left>> /\ Unserved

ReceiveRead ==
    /\ InCall(StreamReceive, "read")
    /\ LET available == call[me].space
       IN IF available <= Header THEN Return /\ UNCHANGED <<stream, received>>
          ELSE /\ ReadMessage(Now.with, available)
               /\ IF ToRead(Now.with, available) = 0 THEN Return ELSE Goto("complete")
    /\ UNCHANGED <<kernel, sent, left>> /\ Unserved

(* xStreamBufferReset: only while no task waits.  What is in the buffer is *)
(* lost.                                                                   *)
xStreamBufferReset ==
    /\ InCall({"xStreamBufferReset"}, "start")
    /\ IF stream.xTaskWaitingToReceive = NoReader /\ stream.xTaskWaitingToSend = NoReader
       THEN /\ stream' = NewStream(stream.xTriggerLevelBytes, stream.messages)
            /\ sent' = received
       ELSE UNCHANGED <<stream, sent>>
    /\ Return
    /\ UNCHANGED <<kernel, received, left>> /\ Unserved

xStreamBufferSetTriggerLevel ==
    /\ InCall({"xStreamBufferSetTriggerLevel"}, "start")
    /\ LET level == IF Now.with = 0 THEN 1 ELSE Now.with
       IN stream' = IF level < StreamLength THEN [stream EXCEPT !.xTriggerLevelBytes = level] ELSE stream
    /\ Return
    /\ UNCHANGED <<kernel, sent, received, left>> /\ Unserved

StreamCall == \/ SendStart \/ SendTest \/ StreamWait \/ StreamWaited \/ SendForget \/ SendCheckForTimeOut
              \/ SendWrite \/ SendWritten \/ CompleteSuspend \/ CompleteNotify \/ StreamReturns
              \/ ReceiveStart \/ ReceiveForget \/ ReceiveCount \/ ReceiveRead
              \/ xStreamBufferReset \/ xStreamBufferSetTriggerLevel

----------------------------------------------------------------------------
(* The calls of interrupt handlers *)

NoOne == [kernel |-> kernel, woken |-> FALSE]

(* prvSEND_COMPLETE_FROM_ISR and prvRECEIVE_COMPLETED_FROM_ISR *)
TellFromISR(task) == IF task = NoReader THEN NoOne
                     ELSE xTaskGenericNotifyFromISR(kernel, task, "eNoAction", 0)

xStreamBufferSendFromISR ==
    /\ Interrupt({"xStreamBufferSendFromISR"})
    /\ LET w == ToWrite(ISR.with, SpacesAvailable)
           cells == IF w = <<>> THEN 0 ELSE Len(w) + Header
           tells == w # <<>> /\ BytesInBuffer + cells >= stream.xTriggerLevelBytes
           new == IF w = <<>> THEN stream ELSE IF IsMessageBuffer THEN Written(<<Len(w)>> \o w) ELSE Written(w)
       IN /\ sent' = sent \o w
          /\ stream' = IF tells THEN [new EXCEPT !.xTaskWaitingToReceive = NoReader] ELSE new
          /\ Serve(IF tells THEN TellFromISR(stream.xTaskWaitingToReceive) ELSE NoOne)
    /\ UNCHANGED received

xStreamBufferReceiveFromISR ==
    /\ Interrupt({"xStreamBufferReceiveFromISR"})
    /\ LET count == IF BytesInBuffer > Header THEN ToRead(ISR.with, BytesInBuffer) ELSE 0
       IN /\ received' = received \o BytesAt(stream.xTail + Header, count)
          /\ stream' = IF count = 0 THEN stream
                       ELSE [stream EXCEPT !.xTail = At(@ + Header + count), !.xTaskWaitingToSend = NoReader]
          /\ Serve(IF count = 0 THEN NoOne ELSE TellFromISR(stream.xTaskWaitingToSend))
    /\ UNCHANGED sent

(* xStreamBufferSendCompletedFromISR, xStreamBufferReceiveCompletedFromISR *)
StreamCompletedFromISR ==
    \/ /\ Interrupt({"xStreamBufferSendCompletedFromISR"})
       /\ Serve(TellFromISR(stream.xTaskWaitingToReceive))
       /\ stream' = Forgotten(TRUE)
       /\ UNCHANGED <<sent, received>>
    \/ /\ Interrupt({"xStreamBufferReceiveCompletedFromISR"})
       /\ Serve(TellFromISR(stream.xTaskWaitingToSend))
       /\ stream' = Forgotten(FALSE)
       /\ UNCHANGED <<sent, received>>

StreamInterrupt == \/ xStreamBufferSendFromISR \/ xStreamBufferReceiveFromISR \/ StreamCompletedFromISR

=============================================================================
