-------------------------------- MODULE Lcd --------------------------------
(***************************************************************************)
(* The asynchronous driver of the character display, HCLCD/LCD.c: the API  *)
(* calls fill slots of G_UserReq, and CLCD_TASK, called by the scheduler,  *)
(* drives one pin change per call.  The scheduler is cooperative, so a     *)
(* call of the API and a call of the task are one step each.               *)
(*                                                                         *)
(* An operation is what the display reads from its pins, the RS pin and a  *)
(* byte; the display takes it when E falls, in the 4-bit mode with the     *)
(* second of two falls.                                                    *)
(*                                                                         *)
(* X_Fault is a faulty variant of X that no specification uses; with it in *)
(* the place of X a property must fail.                                    *)
(***************************************************************************)
EXTENDS Integers, Sequences, FiniteSetsExt

CONSTANTS LCD_BUFFERSIZE,     \* slots
          CGRAM_BYTES,        \* CLCD_NUMBER_OF_CGRAM_BYTES
          INIT_CALLS,         \* calls of the task FunctionalSet lets pass (19)
          Requests,           \* the requests the users make
          Modes,              \* values of HLCD_MODE explored
          NumberModes,        \* those in which the users write numbers
          None

Slots == 0 .. LCD_BUFFERSIZE - 1

Types == {"WriteReq", "WriteNumReq", "WriteSpecialChar", "DisplaySpecialChar",
          "ClearReq", "CommandReq", "SetPositionReq"}

ASSUME LcdAssumption ==
    /\ LCD_BUFFERSIZE \in Nat \ {0}
    /\ CGRAM_BYTES \in Nat
    /\ INIT_CALLS \in Nat
    /\ Requests \subseteq [type : Types, text : Seq(Nat), n : Int, y : Nat]
    /\ \A r \in Requests : /\ r.type = "WriteSpecialChar" => Len(r.text) = CGRAM_BYTES
                           /\ r.type # "WriteNumReq" => r.n >= 0
    /\ Modes \subseteq {4, 8} /\ NumberModes \subseteq Modes
    /\ None \notin Slots /\ None \notin Requests
    /\ None \notin [rs : {"data", "command"}, value : Int]

VARIABLES mode,      \* HLCD_MODE, never changed
          lcd,       \* G_CLCD_State
          init,      \* SLocal_InitState
          counter,   \* Counter of CLCD_InitSM
          slots,     \* G_UserReq and G_UserWriteReq
          current,   \* CLCD_CurrentBuffer
          reversed,  \* Local_Reversed of CLCD_WriteNumProcess
          part,      \* CLCD_PartCount
          enable,    \* CLCD_EnablePin, and the E pin
          pins,      \* RS and data pins: the operation they show
          half,      \* the display: the operation of which it has the first half
          shown      \* the display: the latest operation it took

driver == <<slots, current, reversed>>
bus == <<part, enable, pins, half, shown>>
vars == <<mode, lcd, init, counter, driver, bus>>

Data(c) == [rs |-> "data", value |-> c]
Command(c) == [rs |-> "command", value |-> c]

FunctionSet(m) == Command(IF m = 4 THEN 40 ELSE 56)
DisplayOn == Command(15)
DisplayClear == Command(1)
SetDDRAM == Command(128)

Free == [type |-> "NOReq", state |-> "Start", buffered |-> FALSE, request |-> None,
         pos |-> 0, number |-> 0]

Init == /\ mode \in Modes
        /\ lcd = "off"
        /\ init = "PowerON"
        /\ counter = 0
        /\ slots = [s \in Slots |-> Free]
        /\ current = 0
        /\ reversed = 1
        /\ part = "first"
        /\ enable = FALSE
        /\ pins = None
        /\ half = None
        /\ shown = [op |-> None, flip |-> FALSE]

----------------------------------------------------------------------------
(* The API *)

CLCD_InitAsynch == /\ lcd = "off"
                   /\ lcd' = "init"
                   /\ UNCHANGED <<mode, init, counter, driver, bus>>

FirstFree == Min({s \in Slots : ~slots[s].buffered})

(* Every call takes the first free slot and fills what its type reads; a free
   slot holds nothing else that is read.  With none free, or with arguments
   out of range, it reports an error and changes nothing. *)
Buffer(r, type) ==
    /\ r.type = type
    /\ \E s \in Slots : ~slots[s].buffered
    /\ slots' = [slots EXCEPT ![FirstFree] =
                    [type |-> type, state |-> "Start", buffered |-> TRUE, request |-> r, pos |-> 0,
                     number |-> IF type = "WriteNumReq" THEN r.n ELSE slots[FirstFree].number]]
    /\ UNCHANGED <<mode, lcd, init, counter, current, reversed, bus>>

CLCD_WriteStringAsynch(r) == Buffer(r, "WriteReq")

CLCD_GoToXYAsynch(r) == r.n <= 1 /\ r.y < 16 /\ Buffer(r, "SetPositionReq")

CLCD_ClearScreenAsynch(r) == Buffer(r, "ClearReq")

CLCD_WriteCommandAsynch(r) == Buffer(r, "CommandReq")

CLCD_WriteNumberAsynch(r) == mode \in NumberModes /\ Buffer(r, "WriteNumReq")

CLCD_WriteSpecialCharAsynch(r) == r.n <= CGRAM_BYTES /\ Buffer(r, "WriteSpecialChar")

CLCD_DisplaySpecialCharAsynch(r) == r.n <= CGRAM_BYTES /\ Buffer(r, "DisplaySpecialChar")

Request(r) == \/ CLCD_WriteStringAsynch(r)
              \/ CLCD_GoToXYAsynch(r)
              \/ CLCD_ClearScreenAsynch(r)
              \/ CLCD_WriteCommandAsynch(r)
              \/ CLCD_WriteNumberAsynch(r)
              \/ CLCD_WriteSpecialCharAsynch(r)
              \/ CLCD_DisplaySpecialCharAsynch(r)

----------------------------------------------------------------------------
(* The pins *)

(* CLCD_SendCommandProcess and CLCD_WriteCharProcess, and E high. *)
PartPut(op) == IF mode = 4
               THEN IF part = "first" THEN "firstSent" ELSE "second"
               ELSE IF op.rs = "command" THEN "both" ELSE part

Raise(op) == /\ ~enable
             /\ enable' = TRUE
             /\ pins' = op
             /\ part' = PartPut(op)
             /\ UNCHANGED <<half, shown>>

(* The display takes what the pins show; two halves of different operations
   make one that nobody asked for. *)
Take(whole) ==
    IF whole \/ half # None
    THEN /\ shown' = [op |-> IF whole \/ half = pins THEN pins ELSE <<half, pins>>,
                      flip |-> ~shown.flip]
         /\ half' = None
    ELSE half' = pins /\ UNCHANGED shown

Whole_FirstHalf == part \in {"firstSent", "second", "both"}
Whole == part \in {"second", "both"}

PartTaken == IF part = "second" THEN "first" ELSE part

(* E low: what follows belongs to the next operation if this one is whole. *)
Lower == /\ enable
         /\ enable' = FALSE
         /\ Take(mode = 8)
         /\ part' = PartTaken
         /\ UNCHANGED pins

----------------------------------------------------------------------------
(* CLCD_InitSM *)

After == [PowerON |-> "FunctionalSet", FunctionSet4bitMode |-> "FunctionalSet",
          FunctionalSet |-> "DisplayControl", DisplayControl |-> "DisplayClear",
          DisplayClear |-> "InitEnd"]

SetupOp == [FunctionalSet |-> FunctionSet(mode), DisplayControl |-> DisplayOn,
            DisplayClear |-> DisplayClear]

InitPowerOn == /\ init = "PowerON"
               /\ init' = IF mode = 4 THEN "FunctionSet4bitMode" ELSE "FunctionalSet"
               /\ UNCHANGED <<lcd, counter, bus>>

(* One nibble, which the display, still in its 8-bit mode, takes whole. *)
InitFourBit == /\ init = "FunctionSet4bitMode"
               /\ IF ~enable
                  THEN /\ enable' = TRUE
                       /\ pins' = Command(32)
                       /\ UNCHANGED <<init, part, half, shown>>
                  ELSE /\ enable' = FALSE
                       /\ Take(TRUE)
                       /\ init' = After[init]
                       /\ UNCHANGED <<part, pins>>
               /\ UNCHANGED <<lcd, counter>>

InitWait == /\ init = "FunctionalSet"
            /\ counter < INIT_CALLS
            /\ counter' = counter + 1
            /\ UNCHANGED <<lcd, init, bus>>

(* The counter goes on while the function set is sent; nothing reads it
   again, so it is left where it is. *)
InitCommand == /\ init \in DOMAIN SetupOp
               /\ init = "FunctionalSet" => counter >= INIT_CALLS
               /\ \/ Raise(SetupOp[init]) /\ UNCHANGED init
                  \/ Lower /\ init' = IF Whole THEN After[init] ELSE init
               /\ UNCHANGED <<lcd, counter>>

InitEnd == /\ init = "InitEnd"
           /\ lcd' = "operational"
           /\ UNCHANGED <<init, counter, bus>>

CLCD_InitSM == /\ lcd = "init"
               /\ InitPowerOn \/ InitFourBit \/ InitWait \/ InitCommand \/ InitEnd
               /\ UNCHANGED <<mode, driver>>

----------------------------------------------------------------------------
(* The requests, one call of CLCD_TASK at a time *)

Here == slots[current]
Serving(type, state) == Here.type = type /\ Here.state = state

Becomes(slot) == slots' = [slots EXCEPT ![current] = slot]
Enters(state) == [Here EXCEPT !.state = state]
Done == [Here EXCEPT !.type = "ReqDone", !.state = "Done"]

(* A pulse of E with an operation; when the operation is whole the slot
   moves on. *)
Pulse(op, next) == /\ \/ Raise(op) /\ UNCHANGED slots
                      \/ Lower /\ IF Whole THEN Becomes(next) ELSE UNCHANGED slots
                   /\ UNCHANGED <<current, reversed>>

Begin(type) == /\ Serving(type, "Start")
               /\ Becomes(Enters("Inprogress"))
               /\ UNCHANGED <<current, reversed, bus>>

NextPos == Here.pos + 1

(* One character of the text, or past its end. *)
WriteText(next) ==
    IF Here.pos < Len(Here.request.text)
    THEN Pulse(Data(Here.request.text[Here.pos + 1]), [Here EXCEPT !.pos = NextPos])
    ELSE Becomes(next) /\ UNCHANGED <<current, reversed, bus>>

CLCD_WriteProcess == \/ Begin("WriteReq")
                     \/ Serving("WriteReq", "Inprogress") /\ WriteText(Done)

CgramCommand(r) == Command(r.n * CGRAM_BYTES + 64)

CLCD_WriteSpecialCharProcess ==
    \/ Serving("WriteSpecialChar", "Start") /\ Pulse(CgramCommand(Here.request), Enters("Inprogress"))
    \/ Serving("WriteSpecialChar", "Inprogress") /\ WriteText(Enters("SetDDRAM"))
    \/ Serving("WriteSpecialChar", "SetDDRAM") /\ Pulse(SetDDRAM, Done)

CLCD_DisplaySpecialChar ==
    Here.type = "DisplaySpecialChar" /\ Pulse(Data(Here.request.n), Done)

(* CLCD_GoToXYProcess counts columns from one. *)
PositionCommand(r) == Command((r.y - 1) + (IF r.n = 0 THEN 128 ELSE 192))

CommandOf(r) == CASE r.type = "ClearReq" -> DisplayClear
                  [] r.type = "CommandReq" -> Command(r.n)
                  [] r.type = "SetPositionReq" -> PositionCommand(r)

CLCD_SendCommand == \E type \in {"ClearReq", "CommandReq", "SetPositionReq"} :
    \/ Begin(type)
    \/ Serving(type, "Inprogress") /\ Pulse(CommandOf(Here.request), Done)

(* The digits of a number are pushed into Local_Reversed, last digit first,
   on top of a leading 1 that keeps the zeros. *)
Reversed[r \in Nat, n \in Nat] ==
    IF n = 0 THEN r ELSE Reversed[10 * r + (n % 10), n \div 10]

WriteZero == /\ Serving("WriteNumReq", "Start")
             /\ Here.number = 0
             /\ Pulse(Data(48), Done)

(* The sign.  The number is positive from here on, so E stays high until the
   first call of the digits. *)
WriteSign == /\ Serving("WriteNumReq", "Start")
             /\ Here.number < 0
             /\ Raise(Data(45))
             /\ Becomes([Here EXCEPT !.number = -Here.number])
             /\ UNCHANGED <<current, reversed>>

BeginDigits == /\ Here.number > 0
               /\ Begin("WriteNumReq")

(* One digit of what is left, or the end, with E low in any case. *)
WriteDigits ==
    /\ Serving("WriteNumReq", "Inprogress")
    /\ LET digits == Reversed[<<reversed, Here.number>>]
           spent == [Here EXCEPT !.number = 0]
       IN  IF digits # 1
           THEN /\ Becomes(spent)
                /\ \/ Raise(Data((digits % 10) + 48)) /\ reversed' = digits \div 10
                   \/ Lower /\ reversed' = digits
           ELSE /\ Becomes(Done)
                /\ reversed' = digits
                /\ IF enable THEN enable' = FALSE /\ Take(mode = 8) /\ UNCHANGED <<part, pins>>
                             ELSE UNCHANGED bus
    /\ UNCHANGED current

CLCD_WriteNumProcess == WriteZero \/ WriteSign \/ BeginDigits \/ WriteDigits

Freed == [slots EXCEPT ![current] = [@ EXCEPT !.buffered = FALSE, !.request = None,
                                              !.pos = 0, !.number = 0]]

NextSlot_Last(waiting) == Max(waiting)
NextSlot(waiting) == Min(waiting)

(* The slot is freed, and the first buffered slot is the next.  What a free
   slot still holds of its request is never read. *)
CLCD_ReqDone ==
    /\ Here.type = "ReqDone"
    /\ LET freed == Freed
           waiting == {s \in Slots : freed[s].buffered}
       IN  IF waiting = {}
           THEN /\ slots' = [freed EXCEPT ![current].type = "NOReq"]
                /\ current' = 0
           ELSE /\ slots' = [freed EXCEPT ![NextSlot(waiting)].state = "Start"]
                /\ current' = NextSlot(waiting)
    /\ UNCHANGED <<reversed, bus>>

Operate == /\ lcd = "operational"
           /\ \/ CLCD_WriteProcess
              \/ CLCD_WriteNumProcess
              \/ CLCD_WriteSpecialCharProcess
              \/ CLCD_DisplaySpecialChar
              \/ CLCD_SendCommand
              \/ CLCD_ReqDone
           /\ UNCHANGED <<mode, lcd, init, counter>>

CLCD_TASK == CLCD_InitSM \/ Operate

Next == \/ CLCD_InitAsynch
        \/ \E r \in Requests : Request(r)
        \/ CLCD_TASK

(* The scheduler calls the task again and again. *)
Spec == Init /\ [][Next]_vars /\ WF_vars(CLCD_TASK)

----------------------------------------------------------------------------
(* Correctness *)

(* What the operations of a request are, whatever the pins do. *)
Text(r) == [k \in 1 .. Len(r.text) |-> Data(r.text[k])]

Digits[n \in Nat] == IF n < 10 THEN <<Data(48 + n)>> ELSE Append(Digits[n \div 10], Data(48 + (n % 10)))

Number(n) == IF n < 0 THEN <<Data(45)>> \o Digits[-n] ELSE Digits[n]

Meaning(r) == CASE r.type = "WriteReq" -> Text(r)
                [] r.type = "WriteNumReq" -> Number(r.n)
                [] r.type = "WriteSpecialChar" -> <<CgramCommand(r)>> \o Text(r) \o <<SetDDRAM>>
                [] r.type = "DisplaySpecialChar" -> <<Data(r.n)>>
                [] OTHER -> <<CommandOf(r)>>

Setup(m) == (IF m = 4 THEN <<Command(32)>> ELSE <<>>) \o <<FunctionSet(m), DisplayOn, DisplayClear>>
Setups == {Setup(m) : m \in Modes}

(* An operation is on its way to the display. *)
InFlight == enable \/ half # None

From(seq, k) == SubSeq(seq, k, Len(seq))

SetupLeft ==
    LET done == CASE init \in {"PowerON", "FunctionSet4bitMode"} -> 0
                  [] init = "FunctionalSet" -> Len(Setup(mode)) - 3
                  [] init = "DisplayControl" -> Len(Setup(mode)) - 2
                  [] init = "DisplayClear" -> Len(Setup(mode)) - 1
                  [] init = "InitEnd" -> Len(Setup(mode))
    IN  From(Setup(mode), done + 1)

(* The request being shown has had its first call. *)
Started == /\ lcd = "operational"
           /\ Here.buffered
           /\ Here.type = "ReqDone" \/ Here.state # "Start" \/ InFlight

(* The digits left in Local_Reversed. *)
Popped[r \in Nat] == IF r <= 1 THEN <<>> ELSE <<Data(48 + (r % 10))>> \o Popped[r \div 10]

TextLeft == From(Text(Here.request), Here.pos + (IF InFlight THEN 2 ELSE 1))

(* What is left of it, what is in flight not counted. *)
Rest ==
    CASE Here.type = "WriteReq" -> TextLeft
      [] Here.type = "WriteNumReq" ->
            IF Here.number > 0 THEN Digits[Here.number] ELSE Popped[reversed]
      [] Serving("WriteSpecialChar", "Start") -> Text(Here.request) \o <<SetDDRAM>>
      [] Serving("WriteSpecialChar", "Inprogress") -> TextLeft \o <<SetDDRAM>>
      [] Serving("WriteSpecialChar", "SetDDRAM") -> IF InFlight THEN <<>> ELSE <<SetDDRAM>>
      [] Here.type = "ReqDone" -> <<>>
      [] OTHER -> IF InFlight THEN <<>> ELSE <<CommandOf(Here.request)>>

Left == IF lcd # "operational" THEN SetupLeft
        ELSE IF Started THEN (IF InFlight THEN <<pins>> ELSE <<>>) \o Rest
        ELSE <<>>

D == INSTANCE Display
       WITH buffered <- [s \in Slots |-> IF slots[s].buffered THEN slots[s].request ELSE None],
            serving  <- IF Started THEN current ELSE None,
            left     <- Left

(* The display is set up, and then every request accepted is shown whole and
   once, uninterrupted by any other, with every pulse of E in its place
   (CLCD_TASK and all it calls; "processes various user requests
   asynchronously", LCD.c:263). *)
ShowsRequests == D!Spec

(* Once initialised, the first two slots are never passed over for good, however many requests
   keep coming (CLCD_ReqDone). *)
LowSlotsServed == \A s \in Slots \cap {0, 1} :
    (lcd # "off" /\ slots[s].buffered) ~> ~slots[s].buffered

(* Every request buffered is processed ("It buffers the set position request
   for asynchronous processing", LCD.h:100). *)
EveryRequestServed == \A s \in Slots :
    (lcd # "off" /\ slots[s].buffered) ~> ~slots[s].buffered
=============================================================================
