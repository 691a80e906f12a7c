----------------------------- MODULE LcdProofs -----------------------------
(***************************************************************************)
(* Proofs about Lcd, for any number of slots, in both modes, and for any   *)
(* requests but numbers, whose digits Lcd defines by recursion.            *)
(*                                                                         *)
(* An operation needs one pulse of E or two, and E, the part counter and   *)
(* the pins outlive the request: the bus is idle, or an operation is on    *)
(* its way, at one of three places in the 4-bit mode.  The invariant says  *)
(* whose it is: that of the state of the setup, or of the current slot,    *)
(* which no call of the API can have touched since.  A slot that waits is  *)
(* as its call left it, so that a request that begins has all of itself    *)
(* left.                                                                   *)
(***************************************************************************)
EXTENDS Lcd, SequenceTheorems, WellFoundedInduction, TLAPS

(* What can be on the bus.                                                 *)
Ops == [rs : {"data", "command"}, value : Int]

SlotTypes == [type : Types \cup {"NOReq", "ReqDone"},
              state : {"Start", "Inprogress", "SetDDRAM", "Done"},
              buffered : BOOLEAN, request : Requests \cup {None}, pos : Nat, number : Int]

(* The rest of a sequence is its first element and the rest behind it.     *)
LEMMA FromNext ==
    ASSUME NEW seq \in Seq(Ops), NEW k \in 1 .. Len(seq)
    PROVE  From(seq, k) = <<seq[k]>> \o From(seq, k + 1)
<1>1. Len(seq) \in Nat /\ Len(seq) \in k .. Len(seq)
  BY LenProperties
<1> QED BY <1>1, SubSeqRecursiveFirst DEF From

(* Behind the last element there is none.                                  *)
LEMMA FromEnd ==
    ASSUME NEW seq \in Seq(Ops), NEW k \in Nat, k > Len(seq)
    PROVE  From(seq, k) = <<>>
  BY SubSeqEmpty, LenProperties DEF From

(* What is left of a sequence of operations is one.                        *)
LEMMA FromType ==
    ASSUME NEW seq \in Seq(Ops), NEW k \in Nat \ {0}
    PROVE  From(seq, k) \in Seq(Ops)
<1>1. Len(seq) \in Nat /\ \A i \in k .. Len(seq) : seq[i] \in Ops
  BY ElementOfSeq, LenProperties
<1> QED BY <1>1, SubSeqProperties DEF From

(* The first element of a sequence put together, and what is behind it.    *)
LEMMA HeadOf ==
    ASSUME NEW op \in Ops, NEW seq \in Seq(Ops)
    PROVE  LET s == <<op>> \o seq IN s # <<>> /\ Head(s) = op /\ Tail(s) = seq
<1> DEFINE s == <<op>> \o seq
<1>1. <<op>> \in Seq(Ops) /\ Len(<<op>>) = 1 /\ <<op>>[1] = op
  OBVIOUS
<1>2. /\ s \in Seq(Ops) /\ Len(s) = 1 + Len(seq)
      /\ \A i \in 1 .. 1 + Len(seq) : s[i] = IF i <= 1 THEN <<op>>[i] ELSE seq[i - 1]
  BY <1>1, ConcatProperties
<1>3. Len(seq) \in Nat
  BY LenProperties
<1> HIDE DEF s
<1>4. s # <<>>
  BY <1>2, <1>3, EmptySeq
<1>5. Head(s) = op
  BY <1>1, <1>2, <1>3, <1>4, HeadTailProperties
<1>6. Tail(s) = seq
  <2>1. Tail(s) \in Seq(Ops) /\ Len(Tail(s)) = Len(seq) /\ \A i \in 1 .. Len(Tail(s)) : Tail(s)[i] = s[i + 1]
    BY <1>2, <1>3, <1>4, HeadTailProperties
  <2>2. \A i \in 1 .. Len(Tail(s)) : Tail(s)[i] = seq[i]
    BY <1>2, <1>3, <2>1
  <2> QED BY <2>1, <2>2, SeqEqual
<1> QED BY <1>4, <1>5, <1>6 DEF s

(* A byte is an operation, with RS high or low.                            *)
LEMMA CommandType ==
    ASSUME NEW n \in Int
    PROVE  Data(n) \in Ops /\ Command(n) \in Ops
  BY DEF Data, Command, Ops

(* The text of a request is a sequence of them.                            *)
LEMMA TextType ==
    ASSUME NEW r \in Requests
    PROVE  /\ Text(r) \in Seq(Ops) /\ Len(Text(r)) = Len(r.text) /\ Len(r.text) \in Nat
           /\ \A k \in 1 .. Len(r.text) : Text(r)[k] = Data(r.text[k]) /\ Data(r.text[k]) \in Ops
<1>1. r.text \in Seq(Nat) /\ Len(r.text) \in Nat
  BY LcdAssumption, LenProperties
<1>2. \A k \in 1 .. Len(r.text) : Data(r.text[k]) \in Ops
  <2> TAKE k \in 1 .. Len(r.text)
  <2>1. r.text[k] \in Nat
    BY <1>1, ElementOfSeq
  <2> QED BY <2>1, CommandType
<1>3. Text(r) \in Seq(Ops)
  BY <1>1, <1>2, IsASeq DEF Text
<1> QED BY <1>1, <1>2, <1>3 DEF Text

(* So are the commands and characters of the other requests.               *)
LEMMA OpTypes ==
    ASSUME NEW r \in Requests
    PROVE  /\ CgramCommand(r) \in Ops /\ Data(r.n) \in Ops /\ SetDDRAM \in Ops
           /\ r.type \in {"ClearReq", "CommandReq", "SetPositionReq"} => CommandOf(r) \in Ops
<1>1. r.n \in Int /\ r.y \in Nat /\ CGRAM_BYTES \in Nat
  BY LcdAssumption
<1>2. r.n * CGRAM_BYTES + 64 \in Int /\ r.y - 1 + 128 \in Int /\ r.y - 1 + 192 \in Int
  BY <1>1
<1> HIDE DEF Ops
<1>3. CgramCommand(r) \in Ops /\ Data(r.n) \in Ops /\ SetDDRAM \in Ops /\ Command(r.n) \in Ops
      /\ PositionCommand(r) \in Ops /\ DisplayClear \in Ops
  BY <1>1, <1>2, CommandType DEF CgramCommand, SetDDRAM, PositionCommand, DisplayClear
<1> QED BY <1>3 DEF CommandOf

----------------------------------------------------------------------------
(* The setup *)

(* What is left of the setup in a state of it.                             *)
SetupFrom(m, i) ==
    LET n == Len(Setup(m))
    IN  From(Setup(m), CASE i \in {"PowerON", "FunctionSet4bitMode"} -> 1
                         [] i = "FunctionalSet" -> n - 2
                         [] i = "DisplayControl" -> n - 1
                         [] i = "DisplayClear" -> n
                         [] i = "InitEnd" -> n + 1)

(* CLCD_InitStates_tenu.                                                   *)
InitStates == {"PowerON", "FunctionSet4bitMode", "FunctionalSet", "DisplayControl", "DisplayClear", "InitEnd"}

(* State by state, the setup is its next operation and the rest of it.     *)
LEMMA SetupIs ==
    ASSUME NEW m \in {4, 8}
    PROVE  /\ SetupFrom(m, "PowerON") = Setup(m)
           /\ m = 8 => SetupFrom(m, "PowerON") = SetupFrom(m, "FunctionalSet")
           /\ SetupFrom(m, "PowerON") = SetupFrom(m, "FunctionSet4bitMode")
           /\ m = 4 => SetupFrom(m, "FunctionSet4bitMode") = <<Command(32)>> \o SetupFrom(m, "FunctionalSet")
           /\ SetupFrom(m, "FunctionalSet") = <<FunctionSet(m)>> \o SetupFrom(m, "DisplayControl")
           /\ SetupFrom(m, "DisplayControl") = <<DisplayOn>> \o SetupFrom(m, "DisplayClear")
           /\ SetupFrom(m, "DisplayClear") = <<DisplayClear>> \o SetupFrom(m, "InitEnd")
           /\ SetupFrom(m, "InitEnd") = <<>>
           /\ \A i \in InitStates : SetupFrom(m, i) \in Seq(Ops)
           /\ {Command(32), FunctionSet(m), DisplayOn, DisplayClear} \subseteq Ops
<1> DEFINE a == IF m = 4 THEN <<Command(32)>> ELSE <<>>
           b == <<FunctionSet(m), DisplayOn, DisplayClear>>
           S == Setup(m)
           n == Len(S)
<1>1. {Command(32), FunctionSet(m), DisplayOn, DisplayClear} \subseteq Ops
  BY CommandType DEF FunctionSet, DisplayOn, DisplayClear
<1>2. a \in Seq(Ops) /\ Len(a) = (IF m = 4 THEN 1 ELSE 0) /\ (m = 4 => a[1] = Command(32))
  BY <1>1
<1>3. b \in Seq(Ops) /\ Len(b) = 3 /\ b[1] = FunctionSet(m) /\ b[2] = DisplayOn /\ b[3] = DisplayClear
  BY <1>1
<1>4. /\ S \in Seq(Ops) /\ n = Len(a) + 3
      /\ \A i \in 1 .. n : S[i] = IF i <= Len(a) THEN a[i] ELSE b[i - Len(a)]
  <2>1. S = a \o b
    BY DEF Setup
  <2> HIDE DEF a, b, S
  <2>2. /\ a \o b \in Seq(Ops) /\ Len(a \o b) = Len(a) + Len(b)
        /\ \A i \in 1 .. Len(a) + Len(b) : (a \o b)[i] = IF i <= Len(a) THEN a[i] ELSE b[i - Len(a)]
    <3>1. a \in Seq(Ops) /\ b \in Seq(Ops)
      BY <1>2, <1>3
    <3> QED BY <3>1, ConcatProperties
  <2> QED BY <2>1, <2>2, <1>3 DEF S
<1> HIDE DEF a, b, S
<1>5. n \in {3, 4} /\ (m = 4 <=> n = 4) /\ Len(a) = n - 3
  BY <1>2, <1>4
<1>6. S[n - 2] = FunctionSet(m) /\ S[n - 1] = DisplayOn /\ S[n] = DisplayClear /\ (m = 4 => S[1] = Command(32))
  BY <1>2, <1>3, <1>4, <1>5
<1>7. /\ From(S, 1) = S
      /\ m = 4 => From(S, 1) = <<Command(32)>> \o From(S, n - 2)
      /\ From(S, n - 2) = <<FunctionSet(m)>> \o From(S, n - 1)
      /\ From(S, n - 1) = <<DisplayOn>> \o From(S, n)
      /\ From(S, n) = <<DisplayClear>> \o From(S, n + 1)
      /\ From(S, n + 1) = <<>>
  <2>0. {1, n - 2, n - 1, n} \subseteq 1 .. n
    BY <1>5
  <2>1. From(S, 1) = S
    BY <1>4, SubSeqFull DEF From
  <2>2. m = 4 => From(S, 1) = <<Command(32)>> \o From(S, n - 2)
    <3>1. From(S, 1) = <<S[1]>> \o From(S, 1 + 1)
      BY <1>4, <2>0, FromNext
    <3>2. m = 4 => n - 2 = 1 + 1
      BY <1>5
    <3> QED BY <1>6, <3>1, <3>2
  <2>3. From(S, n - 2) = <<S[n - 2]>> \o From(S, (n - 2) + 1)
    BY <1>4, <2>0, FromNext
  <2>4. From(S, n - 1) = <<S[n - 1]>> \o From(S, (n - 1) + 1)
    BY <1>4, <2>0, FromNext
  <2>5. From(S, n) = <<S[n]>> \o From(S, n + 1)
    BY <1>4, <2>0, FromNext
  <2>6. From(S, n + 1) = <<>>
    BY <1>4, <1>5, FromEnd
  <2>7. (n - 2) + 1 = n - 1 /\ (n - 1) + 1 = n
    BY <1>5
  <2> QED BY <1>6, <2>1, <2>2, <2>3, <2>4, <2>5, <2>6, <2>7
<1>8. \A k \in {1, n - 2, n - 1, n, n + 1} : From(S, k) \in Seq(Ops)
  <2>1. \A k \in {1, n - 2, n - 1, n, n + 1} : k \in Nat \ {0}
    BY <1>5
  <2> QED BY <1>4, <2>1, FromType
<1>9. /\ SetupFrom(m, "PowerON") = From(S, 1) /\ SetupFrom(m, "FunctionSet4bitMode") = From(S, 1)
      /\ SetupFrom(m, "FunctionalSet") = From(S, n - 2) /\ SetupFrom(m, "DisplayControl") = From(S, n - 1)
      /\ SetupFrom(m, "DisplayClear") = From(S, n) /\ SetupFrom(m, "InitEnd") = From(S, n + 1)
  BY DEF SetupFrom, S
<1>10. m = 8 => From(S, 1) = From(S, n - 2)
  <2>1. m = 8 => n - 2 = 1
    BY <1>5
  <2> QED BY <2>1
<1> QED BY <1>1, <1>7, <1>8, <1>9, <1>10 DEF InitStates, S

----------------------------------------------------------------------------
(* A slot *)

(* The types of the requests with a text, and of those of one command.     *)
Texts == {"WriteReq", "WriteSpecialChar"}
Commands == {"ClearReq", "CommandReq", "SetPositionReq"}

(* A slot whose request is being served, or begins to be.                  *)
Served == {h \in SlotTypes :
    /\ h.buffered = TRUE /\ h.request \in Requests
    /\ h.type = "ReqDone" \/ (h.type = h.request.type /\ h.type # "WriteNumReq")
    /\ h.state = "Start" => h.pos = 0
    /\ h.type = "WriteReq" => h.state \in {"Start", "Inprogress"}
    /\ h.type = "WriteSpecialChar" => h.state \in {"Start", "Inprogress", "SetDDRAM"}
    /\ h.type = "DisplaySpecialChar" => h.state = "Start"
    /\ h.type \in Commands => h.state \in {"Start", "Inprogress"}}

(* The next call of the task drives the pins for it.                       *)
HasOp(h) == \/ h.type \in Texts /\ h.state = "Inprogress" /\ h.pos < Len(h.request.text)
            \/ h.type = "WriteSpecialChar" /\ h.state \in {"Start", "SetDDRAM"}
            \/ h.type = "DisplaySpecialChar"
            \/ h.type \in Commands /\ h.state = "Inprogress"

(* The operation it drives them with, the slot behind it, and what is then *)
(* left of the request.                                                    *)
OpOf(h) == IF h.type \in Texts /\ h.state = "Inprogress" THEN Data(h.request.text[h.pos + 1])
           ELSE IF h.type = "WriteSpecialChar"
                THEN IF h.state = "Start" THEN CgramCommand(h.request) ELSE SetDDRAM
           ELSE IF h.type = "DisplaySpecialChar" THEN Data(h.request.n)
           ELSE CommandOf(h.request)

Behind(h) == IF h.type \in Texts /\ h.state = "Inprogress" THEN [h EXCEPT !.pos = h.pos + 1]
             ELSE IF h.type = "WriteSpecialChar" /\ h.state = "Start" THEN [h EXCEPT !.state = "Inprogress"]
             ELSE [h EXCEPT !.type = "ReqDone", !.state = "Done"]

TextFrom(h, k) == From(Text(h.request), h.pos + k)

LeftBehind(h) == IF h.type = "WriteReq" THEN TextFrom(h, 2)
                 ELSE IF h.type = "WriteSpecialChar" /\ h.state = "Start" THEN Text(h.request) \o <<SetDDRAM>>
                 ELSE IF h.type = "WriteSpecialChar" /\ h.state = "Inprogress" THEN TextFrom(h, 2) \o <<SetDDRAM>>
                 ELSE <<>>

(* What is left while it drives them, and while it does not.               *)
RestOf(h, flying) ==
    IF h.type = "WriteReq" THEN TextFrom(h, IF flying THEN 2 ELSE 1)
    ELSE IF h.type = "WriteSpecialChar" /\ h.state = "Start" THEN Text(h.request) \o <<SetDDRAM>>
    ELSE IF h.type = "WriteSpecialChar" /\ h.state = "Inprogress"
         THEN TextFrom(h, IF flying THEN 2 ELSE 1) \o <<SetDDRAM>>
    ELSE IF h.type = "ReqDone" \/ flying THEN <<>>
    ELSE IF h.type = "WriteSpecialChar" /\ h.state = "SetDDRAM" THEN <<SetDDRAM>>
    ELSE <<CommandOf(h.request)>>

(* The slot when the end of its text is found.                             *)
TextEnd(h) == IF h.type = "WriteReq" THEN [h EXCEPT !.type = "ReqDone", !.state = "Done"]
              ELSE [h EXCEPT !.state = "SetDDRAM"]

(* A call of the task has moved it on.                                     *)
Begun(h) == h.type = "ReqDone" \/ h.state # "Start"

(* What a slot has to do is an operation, and the slot behind it is served *)
(* on.                                                                     *)
LEMMA ServedTypes ==
    ASSUME NEW h \in Served
    PROVE  /\ h \in SlotTypes /\ h.request \in Requests /\ h.pos \in Nat
           /\ HasOp(h) => /\ OpOf(h) \in Ops /\ LeftBehind(h) \in Seq(Ops) /\ Behind(h) \in Served
                          /\ Begun(Behind(h)) /\ Behind(h).request = h.request
<1>1. h \in SlotTypes /\ h.request \in Requests /\ h.pos \in Nat /\ h.type # "WriteNumReq"
  BY LcdAssumption DEF Served, SlotTypes
<1>2. /\ Text(h.request) \in Seq(Ops) /\ Len(Text(h.request)) = Len(h.request.text) /\ Len(h.request.text) \in Nat
      /\ \A k \in 1 .. Len(h.request.text) : Data(h.request.text[k]) \in Ops
  BY <1>1, TextType
<1>3. ASSUME HasOp(h) PROVE OpOf(h) \in Ops
  <2>1. CASE h.type \in Texts /\ h.state = "Inprogress"
    <3>1. h.pos + 1 \in 1 .. Len(h.request.text)
      BY <1>1, <1>2, <1>3, <2>1 DEF HasOp, Texts, Commands
    <3> QED BY <1>2, <2>1, <3>1 DEF OpOf
  <2>2. CASE ~(h.type \in Texts /\ h.state = "Inprogress")
    BY <1>1, <1>3, <2>2, OpTypes DEF OpOf, HasOp, Commands, Served, Texts
  <2> QED BY <2>1, <2>2
<1>4. LeftBehind(h) \in Seq(Ops)
  <2>1. TextFrom(h, 2) \in Seq(Ops)
    BY <1>1, <1>2, FromType DEF TextFrom
  <2>2. <<SetDDRAM>> \in Seq(Ops) /\ <<>> \in Seq(Ops)
    BY <1>1, OpTypes
  <2>3. TextFrom(h, 2) \o <<SetDDRAM>> \in Seq(Ops) /\ Text(h.request) \o <<SetDDRAM>> \in Seq(Ops)
    BY <1>2, <2>1, <2>2, ConcatProperties
  <2> QED BY <2>1, <2>2, <2>3 DEF LeftBehind
<1>5. ASSUME HasOp(h) PROVE Behind(h) \in Served /\ Begun(Behind(h)) /\ Behind(h).request = h.request
  <2>1. CASE h.type \in Texts /\ h.state = "Inprogress"
    <3>1. Behind(h) = [h EXCEPT !.pos = h.pos + 1] /\ h.pos + 1 \in Nat
      BY <1>1, <2>1 DEF Behind
    <3> QED BY <1>1, <2>1, <3>1 DEF Served, SlotTypes, Begun, Texts, Commands
  <2>2. CASE h.type = "WriteSpecialChar" /\ h.state = "Start"
    <3>1. Behind(h) = [h EXCEPT !.state = "Inprogress"]
      BY <2>2 DEF Behind
    <3> QED BY <1>1, <2>2, <3>1 DEF Served, SlotTypes, Begun, Texts, Commands
  <2>3. CASE ~(h.type \in Texts /\ h.state = "Inprogress") /\ ~(h.type = "WriteSpecialChar" /\ h.state = "Start")
    <3>1. Behind(h) = [[h EXCEPT !.type = "ReqDone"] EXCEPT !.state = "Done"]
      BY <2>3 DEF Behind
    <3> QED BY <1>1, <3>1 DEF Served, SlotTypes, Begun, Texts, Commands
  <2> QED BY <2>1, <2>2, <2>3
<1> QED BY <1>1, <1>3, <1>4, <1>5

(* An operation and what is behind it are what is left, or all of the      *)
(* request when it begins with it.                                         *)
LEMMA OpIs ==
    ASSUME NEW h \in Served, HasOp(h)
    PROVE  /\ RestOf(h, TRUE) = LeftBehind(h)
           /\ Begun(h) => RestOf(h, FALSE) = <<OpOf(h)>> \o LeftBehind(h)
           /\ ~Begun(h) => Meaning(h.request) = <<OpOf(h)>> \o LeftBehind(h)
           /\ RestOf(Behind(h), FALSE) = LeftBehind(h)
<1> DEFINE t == Text(h.request)
           k == h.pos + 1
<1>0. /\ h \in SlotTypes /\ h.request \in Requests /\ h.pos \in Nat /\ h.type # "WriteNumReq"
      /\ h.type = "ReqDone" \/ h.type = h.request.type
  BY LcdAssumption DEF Served, SlotTypes
<1>1. t \in Seq(Ops) /\ Len(t) = Len(h.request.text) /\ Len(t) \in Nat
      /\ \A j \in 1 .. Len(t) : t[j] = Data(h.request.text[j])
  BY <1>0, TextType
<1>2. <<SetDDRAM>> \in Seq(Ops) /\ SetDDRAM \in Ops /\ CgramCommand(h.request) \in Ops
      /\ Data(h.request.n) \in Ops /\ (h.type \in Commands => CommandOf(h.request) \in Ops)
  BY <1>0, OpTypes DEF Commands, HasOp
<1>3. CASE h.type \in Texts /\ h.state = "Inprogress"
  <2>0. k \in 1 .. Len(t)
    BY <1>0, <1>1, <1>3 DEF HasOp, Texts, Commands
  <2>1. k \in 1 .. Len(t) /\ OpOf(h) = t[k] /\ t[k] \in Ops
    <3>1. t[k] = Data(h.request.text[k]) /\ OpOf(h) = Data(h.request.text[k])
      BY <1>1, <1>3, <2>0 DEF OpOf
    <3> HIDE DEF t, k
    <3> QED BY <1>1, <2>0, <3>1, ElementOfSeq
  <2>2. From(t, k) = <<t[k]>> \o From(t, k + 1) /\ From(t, k + 1) \in Seq(Ops) /\ k + 1 = h.pos + 2
    <3>1. k \in Nat /\ k + 1 \in Nat \ {0} /\ k + 1 = h.pos + 2
      BY <1>0
    <3> HIDE DEF t, k
    <3>2. From(t, k) = <<t[k]>> \o From(t, k + 1)
      BY <1>1, <2>1, FromNext
    <3>3. From(t, k + 1) \in Seq(Ops)
      BY <1>1, <3>1, FromType
    <3> QED BY <3>1, <3>2, <3>3
  <2>3. Begun(h)
    BY <1>3 DEF Begun
  <2>4. Behind(h) = [h EXCEPT !.pos = k]
    BY <1>3 DEF Behind
  <2> DEFINE b == Behind(h)
  <2>5. b.type = h.type /\ b.state = "Inprogress" /\ b.request = h.request /\ b.pos = k
    BY <1>0, <1>3, <2>4 DEF SlotTypes
  <2> HIDE DEF t, k, b
  <2>6. TextFrom(h, 1) = From(t, k) /\ TextFrom(h, 2) = From(t, k + 1) /\ TextFrom(b, 1) = From(t, k + 1)
    BY <2>2, <2>5 DEF TextFrom, t, k
  <2>7. CASE h.type = "WriteReq"
    BY <2>1, <2>2, <2>3, <2>5, <2>6, <2>7 DEF RestOf, LeftBehind, b
  <2>8. CASE h.type = "WriteSpecialChar"
    <3>1. <<t[k]>> \in Seq(Ops)
      BY <2>1
    <3>2. (<<t[k]>> \o From(t, k + 1)) \o <<SetDDRAM>> = <<t[k]>> \o (From(t, k + 1) \o <<SetDDRAM>>)
      BY <1>2, <2>2, <3>1, ConcatAssociative
    <3>3. RestOf(h, TRUE) = From(t, k + 1) \o <<SetDDRAM>> /\ RestOf(h, FALSE) = From(t, k) \o <<SetDDRAM>>
          /\ LeftBehind(h) = From(t, k + 1) \o <<SetDDRAM>> /\ RestOf(b, FALSE) = From(t, k + 1) \o <<SetDDRAM>>
      BY <1>3, <2>5, <2>6, <2>8 DEF RestOf, LeftBehind
    <3> QED BY <2>1, <2>2, <2>3, <3>2, <3>3 DEF b
  <2> QED BY <1>3, <2>7, <2>8 DEF Texts
<1>4. CASE h.type = "WriteSpecialChar" /\ h.state = "Start"
  <2> DEFINE b == Behind(h)
             c == CgramCommand(h.request)
  <2>1. b.type = h.type /\ b.state = "Inprogress" /\ b.request = h.request /\ b.pos = 0 /\ h.pos = 0
    BY <1>0, <1>4 DEF Behind, SlotTypes, Served, Texts
  <2>2. ~Begun(h) /\ OpOf(h) = c /\ LeftBehind(h) = t \o <<SetDDRAM>> /\ RestOf(h, TRUE) = t \o <<SetDDRAM>>
    BY <1>4 DEF Begun, OpOf, LeftBehind, RestOf, Texts
  <2>3. From(t, 0 + 1) = t
    BY <1>1, SubSeqFull DEF From
  <2>4. RestOf(b, FALSE) = t \o <<SetDDRAM>>
    <3> HIDE DEF b, t
    <3>1. TextFrom(b, 1) = t
      BY <2>1, <2>3 DEF TextFrom, t
    <3> QED BY <1>4, <2>1, <3>1 DEF RestOf
  <2>5. Meaning(h.request) = (<<c>> \o t) \o <<SetDDRAM>>
    BY <1>0, <1>4 DEF Meaning
  <2>6. (<<c>> \o t) \o <<SetDDRAM>> = <<c>> \o (t \o <<SetDDRAM>>)
    <3>1. <<c>> \in Seq(Ops)
      BY <1>2
    <3> HIDE DEF c, t
    <3> QED BY <1>1, <1>2, <3>1, ConcatAssociative
  <2> QED BY <2>2, <2>4, <2>5, <2>6
<1>5. CASE ~(h.type \in Texts /\ h.state = "Inprogress") /\ ~(h.type = "WriteSpecialChar" /\ h.state = "Start")
  <2>1. Behind(h).type = "ReqDone" /\ LeftBehind(h) = <<>>
    BY <1>0, <1>5 DEF Behind, SlotTypes, LeftBehind, Texts, HasOp, Commands
  <2>2. RestOf(Behind(h), FALSE) = <<>> /\ RestOf(h, TRUE) = <<>>
    BY <1>0, <1>5, <2>1 DEF RestOf, HasOp, Commands, Texts
  <2>3. OpOf(h) \in Ops /\ <<OpOf(h)>> \in Seq(Ops)
    BY ServedTypes
  <2>4. <<OpOf(h)>> \o <<>> = <<OpOf(h)>>
    BY <2>3, ConcatEmptySeq
  <2>5. CASE h.type = "DisplaySpecialChar"
    <3>1. ~Begun(h) /\ OpOf(h) = Data(h.request.n) /\ Meaning(h.request) = <<Data(h.request.n)>>
      BY <1>0, <2>5 DEF Served, Begun, OpOf, Meaning, Texts, Commands
    <3> QED BY <2>1, <2>2, <2>4, <3>1
  <2>6. CASE h.type \in Commands /\ h.state = "Inprogress"
    <3>1. Begun(h) /\ OpOf(h) = CommandOf(h.request) /\ RestOf(h, FALSE) = <<CommandOf(h.request)>>
      BY <1>0, <2>6 DEF Begun, OpOf, RestOf, Texts, Commands
    <3> QED BY <2>1, <2>2, <2>4, <3>1
  <2>7. CASE h.type = "WriteSpecialChar" /\ h.state = "SetDDRAM"
    <3>1. Begun(h) /\ OpOf(h) = SetDDRAM /\ RestOf(h, FALSE) = <<SetDDRAM>>
      BY <1>0, <2>7 DEF Begun, OpOf, RestOf, Texts, Commands
    <3> QED BY <2>1, <2>2, <2>4, <3>1
  <2> QED BY <1>5, <2>5, <2>6, <2>7 DEF HasOp
<1> QED BY <1>3, <1>4, <1>5

(* A request that begins with no operation has all of it left.             *)
LEMMA BeginIs ==
    ASSUME NEW h \in Served, h.type = "WriteReq" \/ h.type \in Commands, h.state = "Start",
           NEW b, b = [h EXCEPT !.state = "Inprogress"]
    PROVE  b \in Served /\ Begun(b) /\ b.request = h.request /\ RestOf(b, FALSE) = Meaning(h.request)
<1>0. /\ h \in SlotTypes /\ h.request \in Requests /\ h.pos = 0 /\ h.type = h.request.type
  BY DEF Served, Commands
<1>1. b \in Served /\ Begun(b) /\ b.request = h.request /\ b.type = h.type /\ b.pos = 0
  BY <1>0 DEF Served, SlotTypes, Begun, Commands
<1>2. CASE h.type = "WriteReq"
  <2>1. Text(h.request) \in Seq(Ops) /\ From(Text(h.request), 0 + 1) = Text(h.request)
    BY <1>0, TextType, SubSeqFull DEF From
  <2> QED BY <1>0, <1>1, <1>2, <2>1 DEF RestOf, TextFrom, Meaning
<1>3. CASE h.type \in Commands
  BY <1>0, <1>1, <1>3 DEF RestOf, Meaning, Commands
<1> QED BY <1>1, <1>2, <1>3

(* The end of a text leaves what was left behind it.                       *)
LEMMA TextEndIs ==
    ASSUME NEW h \in Served, h.type \in Texts, h.state = "Inprogress", ~(h.pos < Len(h.request.text)),
           NEW b, b = TextEnd(h)
    PROVE  b \in Served /\ Begun(b) /\ b.request = h.request /\ RestOf(b, FALSE) = RestOf(h, FALSE)
<1> DEFINE t == Text(h.request)
<1>0. /\ h \in SlotTypes /\ h.request \in Requests /\ h.pos \in Nat /\ h.type = h.request.type
  BY DEF Served, SlotTypes, Texts
<1>1. t \in Seq(Ops) /\ Len(t) = Len(h.request.text) /\ Len(t) \in Nat
  BY <1>0, TextType
<1>2. From(t, h.pos + 1) = <<>>
  BY <1>0, <1>1, FromEnd
<1>3. CASE h.type = "WriteReq"
  <2>1. b = [[h EXCEPT !.type = "ReqDone"] EXCEPT !.state = "Done"]
    BY <1>3 DEF TextEnd
  <2>2. b \in Served /\ Begun(b) /\ b.request = h.request /\ b.type = "ReqDone"
    BY <1>0, <2>1 DEF Served, SlotTypes, Begun, Texts, Commands
  <2> QED BY <1>2, <1>3, <2>2 DEF RestOf, TextFrom
<1>4. CASE h.type = "WriteSpecialChar"
  <2>1. b = [h EXCEPT !.state = "SetDDRAM"]
    BY <1>4 DEF TextEnd
  <2>2. b \in Served /\ Begun(b) /\ b.request = h.request /\ b.type = h.type /\ b.state = "SetDDRAM"
    BY <1>0, <1>4, <2>1 DEF Served, SlotTypes, Begun, Texts, Commands
  <2>3. <<SetDDRAM>> \in Seq(Ops)
    BY <1>0, OpTypes
  <2>4. <<>> \o <<SetDDRAM>> = <<SetDDRAM>>
    BY <2>3, ConcatEmptySeq
  <2> QED BY <1>2, <1>4, <2>2, <2>4 DEF RestOf, TextFrom
<1> QED BY <1>3, <1>4 DEF Texts

(* What is left of a request that has begun is a sequence of operations.   *)
LEMMA RestType ==
    ASSUME NEW h \in Served, Begun(h)
    PROVE  RestOf(h, FALSE) \in Seq(Ops)
<1>1. h.request \in Requests /\ h.pos \in Nat /\ (h.type = "ReqDone" \/ h.type = h.request.type)
  BY DEF Served, SlotTypes
<1>2. TextFrom(h, 1) \in Seq(Ops)
  BY <1>1, TextType, FromType DEF TextFrom
<1>3. <<SetDDRAM>> \in Seq(Ops) /\ <<>> \in Seq(Ops)
  BY <1>1, OpTypes
<1>4. TextFrom(h, 1) \o <<SetDDRAM>> \in Seq(Ops) /\ Text(h.request) \o <<SetDDRAM>> \in Seq(Ops)
  BY <1>1, <1>2, <1>3, TextType, ConcatProperties
<1>5. h.type \in Commands => <<CommandOf(h.request)>> \in Seq(Ops)
  BY <1>1, OpTypes DEF Commands
<1>6. h.type \in {"WriteReq", "WriteSpecialChar", "ReqDone"} \cup Commands
  BY LcdAssumption DEF Served, Begun, Commands, SlotTypes, Types
<1> QED BY <1>2, <1>3, <1>4, <1>5, <1>6 DEF RestOf, Begun, Served, Commands

----------------------------------------------------------------------------
(* The bus *)

(* Nothing is on its way to the display, at first and once it is set up.   *)
Fresh == ~enable /\ half = None /\ part = "first"
Idle == ~enable /\ half = None /\ part = (IF mode = 4 THEN "first" ELSE "both")

(* An operation is: in the 4-bit mode there are two falls of E, between    *)
(* which the display has its first half.                                   *)
Sends(op) ==
    /\ op \in Ops /\ pins = op
    /\ IF mode = 4 THEN \/ part = "firstSent" /\ enable /\ half = None
                        \/ part = "firstSent" /\ ~enable /\ half = op
                        \/ part = "second" /\ enable /\ half = op
                   ELSE part = "both" /\ enable /\ half = None

(* No half of an operation is not an operation.                            *)
LEMMA NoneIsNoOp == None \notin Ops
  BY LcdAssumption DEF Ops

(* Lcd calls an operation in flight when it is on its way.                 *)
LEMMA FlightIs == /\ Fresh \/ Idle => ~InFlight
                  /\ \A op : Sends(op) => InFlight
  BY NoneIsNoOp DEF Fresh, Idle, Sends, InFlight

(* E goes up with an operation: it is on its way.                          *)
LEMMA RaiseIs ==
    ASSUME NEW op \in Ops, mode \in {4, 8}, mode' = mode, Raise(op),
           Idle \/ Sends(op) \/ (Fresh /\ op.rs = "command")
    PROVE  Sends(op)' /\ shown' = shown
<1>1. /\ ~enable /\ enable' = TRUE /\ pins' = op /\ half' = half /\ shown' = shown
      /\ part' = (IF mode = 4 THEN IF part = "first" THEN "firstSent" ELSE "second"
                  ELSE IF op.rs = "command" THEN "both" ELSE part)
  BY DEF Raise, PartPut
<1>2. CASE mode = 4
  BY <1>1, <1>2 DEF Idle, Fresh, Sends
<1>3. CASE mode = 8
  BY <1>1, <1>3 DEF Idle, Fresh, Sends
<1> QED BY <1>1, <1>2, <1>3

(* E goes down: the display has the operation, or its first half.          *)
LEMMA LowerIs ==
    ASSUME NEW op, mode \in {4, 8}, mode' = mode, Lower, Sends(op)
    PROVE  \/ Whole /\ Idle' /\ shown' = [op |-> op, flip |-> ~shown.flip]
           \/ ~Whole /\ Sends(op)' /\ shown' = shown
<1>1. /\ enable /\ enable' = FALSE /\ pins' = pins /\ Take(mode = 8)
      /\ part' = (IF part = "second" THEN "first" ELSE part)
  BY DEF Lower, PartTaken
<1>2. op # None /\ op \in Ops /\ pins = op
  BY NoneIsNoOp DEF Sends
<1>3. CASE mode = 8
  <2>1. part = "both" /\ part' = "both"
    BY <1>1, <1>3 DEF Sends
  <2>2. shown' = [op |-> op, flip |-> ~shown.flip] /\ half' = None
    BY <1>1, <1>2, <1>3 DEF Take
  <2> QED BY <1>1, <1>3, <2>1, <2>2 DEF Idle, Whole
<1>4. CASE mode = 4 /\ half = None
  <2>1. half' = pins /\ shown' = shown /\ part = "firstSent" /\ part' = part
    BY <1>1, <1>2, <1>4 DEF Take, Sends
  <2> QED BY <1>1, <1>2, <1>4, <2>1 DEF Sends, Whole
<1>5. CASE mode = 4 /\ half # None
  <2>1. half = pins /\ part = "second" /\ part' = "first"
    BY <1>1, <1>2, <1>5 DEF Sends
  <2>2. shown' = [op |-> op, flip |-> ~shown.flip] /\ half' = None
    BY <1>1, <1>2, <1>5, <2>1 DEF Take
  <2> QED BY <1>1, <1>5, <2>1, <2>2 DEF Idle, Whole
<1> QED BY <1>3, <1>4, <1>5

----------------------------------------------------------------------------
(* The invariant *)

(* A slot that is buffered is as its call left it until it is the current  *)
(* one of a display that is set up.                                        *)
SlotHeld(s) ==
    /\ slots[s] \in SlotTypes
    /\ slots[s].buffered = TRUE => slots[s] \in Served
    /\ slots[s].buffered = TRUE /\ (s # current \/ lcd # "operational") => ~Begun(slots[s])
    /\ slots[s].buffered = FALSE => slots[s].type \in {"NOReq", "ReqDone"}

(* What is on its way is the operation of the state of the setup, or of    *)
(* the current slot.                                                       *)
LineHeld ==
    /\ lcd = "off" => init = "PowerON"
    /\ lcd = "operational" => init = "InitEnd"
    /\ init = "PowerON" => Fresh
    /\ init = "FunctionSet4bitMode" => mode = 4 /\ half = None /\ part = "first" /\ (enable => pins = Command(32))
    /\ init = "FunctionalSet" => Fresh \/ Sends(FunctionSet(mode))
    /\ init = "DisplayControl" => Idle \/ Sends(DisplayOn)
    /\ init = "DisplayClear" => Idle \/ Sends(DisplayClear)
    /\ init = "InitEnd" => Idle \/ (lcd = "operational" /\ Here \in Served /\ HasOp(Here) /\ Sends(OpOf(Here)))

LcdInv ==
    /\ mode \in Modes /\ mode \in {4, 8}
    /\ lcd \in {"off", "init", "operational"}
    /\ init \in InitStates
    /\ enable \in BOOLEAN
    /\ current \in Slots
    /\ DOMAIN slots = Slots
    /\ \A s \in Slots : SlotHeld(s)
    /\ LineHeld

(* What the refinement maps to.                                            *)
Kept == [s \in Slots |-> IF slots[s].buffered THEN slots[s].request ELSE None]
Turn == IF Started THEN current ELSE None
Mapped ==
    /\ lcd # "operational" => ~Started /\ Left = SetupFrom(mode, init)
    /\ lcd = "operational" => (Started <=> Here.buffered = TRUE /\ (Begun(Here) \/ InFlight))
    /\ Started => /\ Here \in Served
                  /\ InFlight => HasOp(Here) /\ Sends(OpOf(Here))
                  /\ InFlight => Left = <<OpOf(Here)>> \o LeftBehind(Here)
                  /\ ~InFlight => Left = RestOf(Here, FALSE)
    /\ lcd = "operational" /\ ~Started => Left = <<>>

(* Before the setup is through nothing of a slot is read, and a slot that  *)
(* has begun tells what is left.                                           *)
LEMMA MapIs == LcdInv => Mapped
<1> SUFFICES ASSUME LcdInv PROVE Mapped
  OBVIOUS
<1>1. ASSUME lcd # "operational" PROVE ~Started /\ Left = SetupFrom(mode, init)
  <2> DEFINE n == Len(Setup(mode))
  <2>1. n \in Nat
    BY SetupIs, LenProperties DEF LcdInv, SetupFrom
  <2>2. SetupLeft = SetupFrom(mode, init)
    BY <2>1 DEF SetupLeft, SetupFrom, LcdInv, InitStates
  <2> QED BY <1>1, <2>2 DEF Started, Left
<1>2. ASSUME lcd = "operational"
      PROVE  Started <=> Here.buffered = TRUE /\ (Begun(Here) \/ InFlight)
  <2>1. Here.buffered \in BOOLEAN
    BY DEF LcdInv, SlotHeld, SlotTypes, Here
  <2> QED BY <1>2, <2>1 DEF Started, Begun
<1>3. ASSUME Started
      PROVE  /\ Here \in Served
             /\ InFlight => HasOp(Here) /\ Sends(OpOf(Here))
             /\ InFlight => Left = <<OpOf(Here)>> \o LeftBehind(Here)
             /\ ~InFlight => Left = RestOf(Here, FALSE)
  <2>1. lcd = "operational" /\ Here \in Served
    <3>1. lcd = "operational" /\ Here.buffered = TRUE
      BY <1>2, <1>3 DEF Started
    <3> QED BY <3>1 DEF LcdInv, SlotHeld, Here
  <2>2. InFlight => HasOp(Here) /\ Sends(OpOf(Here))
    BY <2>1, FlightIs DEF LcdInv, LineHeld
  <2>3. CASE InFlight
    <3>1. Rest = RestOf(Here, TRUE)
      <4>1. TextLeft = TextFrom(Here, 2)
        BY <2>3 DEF TextLeft, TextFrom
      <4>2. CASE Here.type \in {"WriteReq", "WriteSpecialChar"}
        BY <2>1, <2>3, <4>1, <4>2 DEF Rest, RestOf, Serving, Served
      <4>3. CASE Here.type \notin {"WriteReq", "WriteSpecialChar"}
        <5>1. Here.type # "WriteNumReq"
          BY <2>1 DEF Served
        <5> QED BY <2>3, <4>3, <5>1 DEF Rest, RestOf, Serving
      <4> QED BY <4>2, <4>3
    <3>2. Left = <<pins>> \o Rest
      BY <1>3, <2>1, <2>3 DEF Left
    <3> QED BY <2>1, <2>2, <2>3, <3>1, <3>2, OpIs DEF Sends
  <2>4. CASE ~InFlight
    <3>1. Rest = RestOf(Here, FALSE)
      BY <2>1, <2>4 DEF Rest, RestOf, TextLeft, TextFrom, Serving, Served
    <3>2. Left = <<>> \o Rest
      BY <1>3, <2>1, <2>4 DEF Left
    <3>3. RestOf(Here, FALSE) \in Seq(Ops)
      BY <1>2, <1>3, <2>1, <2>4, RestType
    <3>4. <<>> \o RestOf(Here, FALSE) = RestOf(Here, FALSE)
      BY <3>3, ConcatEmptySeq
    <3> QED BY <2>1, <2>4, <3>1, <3>2, <3>4
  <2> QED BY <2>1, <2>2, <2>3, <2>4
<1>4. ASSUME lcd = "operational", ~Started PROVE Left = <<>>
  BY <1>4 DEF Left
<1> QED BY <1>1, <1>2, <1>3, <1>4 DEF Mapped

(* At power-on every slot is free and all of the setup is left.            *)
LEMMA InitLcdInv == Init => LcdInv /\ D!Init
<1> SUFFICES ASSUME Init PROVE LcdInv /\ D!Init
  OBVIOUS
<1>1. mode \in Modes /\ mode \in {4, 8}
  BY LcdAssumption DEF Init
<1>2. 0 \in Slots
  BY LcdAssumption DEF Slots
<1>3. \A s \in Slots : slots[s] = Free
  BY DEF Init
<1>4. Free \in SlotTypes /\ Free.buffered = FALSE /\ Free.type = "NOReq" /\ Free.state = "Start"
  BY DEF Free, SlotTypes
<1>5. LcdInv
  <2>1. \A s \in Slots : SlotHeld(s)
    BY <1>3, <1>4 DEF SlotHeld
  <2>2. LineHeld
    BY DEF Init, LineHeld, Fresh
  <2> QED BY <1>1, <1>2, <2>1, <2>2 DEF LcdInv, Init, InitStates
<1>6. Mapped
  BY <1>5, MapIs
<1>7. Left \in Setups
  <2>1. Left = Setup(mode)
    BY <1>1, <1>6, SetupIs DEF Mapped, Init
  <2> QED BY <1>1, <2>1 DEF Setups
<1>8. Turn = None
  BY <1>6 DEF Mapped, Init, Turn
<1>9. Kept = [s \in Slots |-> None]
  BY <1>3, <1>4 DEF Kept
<1> QED BY <1>5, <1>7, <1>8, <1>9 DEF D!Init, Kept, Turn, Init

(* A step that changes nothing the users are promised.                     *)
Stays == UNCHANGED <<Kept, Turn, Left, shown>>

(* The display takes the next operation.                                   *)
Shows == /\ Left # <<>>
         /\ shown' = [op |-> Head(Left), flip |-> ~shown.flip]
         /\ Left' = Tail(Left)
         /\ UNCHANGED <<Kept, Turn>>

(* The invariant and the mapping, after a step.                            *)
LEMMA MapNext == LcdInv' => Mapped'
  BY MapIs, PTL

(* The call that starts the setup: the task does nothing before it.        *)
LEMMA InitAsynchStep ==
    ASSUME LcdInv, CLCD_InitAsynch
    PROVE  LcdInv' /\ Stays
<1> USE DEF CLCD_InitAsynch, driver, bus
<1>1. LcdInv'
  BY DEF LcdInv, SlotHeld, LineHeld, Fresh, Idle, Sends, Here
<1>2. Mapped /\ Mapped'
  BY <1>1, MapIs, MapNext
<1>3. Left' = Left /\ Turn' = Turn /\ Kept' = Kept
  BY <1>2 DEF Mapped, Turn, Kept, LcdInv
<1> QED BY <1>1, <1>3 DEF Stays

----------------------------------------------------------------------------
(* The slots *)

(* A set of slots that is not empty has a first one.                       *)
LEMMA FirstSlot ==
    ASSUME NEW S, S \subseteq Slots, S # {}
    PROVE  Min(S) \in S
<1> DEFINE less == {p \in Nat \X Nat : p[1] < p[2]}
<1>1. IsWellFoundedOn(less, Nat)
  BY NatLessThanWellFounded DEF OpToRel
<1>2. S \subseteq Nat
  BY LcdAssumption DEF Slots
<1> HIDE DEF less
<1>3. PICK m \in S : \A n \in S : ~(<<n, m>> \in less)
  BY <1>1, <1>2, WFMin
<1>4. \A n \in S : ~(n < m)
  BY <1>2, <1>3 DEF less
<1>5. \A n \in S : m <= n
  BY <1>2, <1>4
<1> QED BY <1>5 DEF Min

(* A call of the API takes a free slot.                                    *)
LEMMA BufferStep ==
    ASSUME LcdInv, NEW r \in Requests, NEW type, type # "WriteNumReq", Buffer(r, type)
    PROVE  LcdInv' /\ \E s \in Slots : D!Accept(s, r)
<1> DEFINE f == FirstFree
           h == slots[f]
           b == [type |-> type, state |-> "Start", buffered |-> TRUE, request |-> r, pos |-> 0,
                 number |-> IF type = "WriteNumReq" THEN r.n ELSE h.number]
<1>1. f \in Slots /\ ~slots[f].buffered
  <2> DEFINE S == {s \in Slots : ~slots[s].buffered}
  <2>1. S # {} /\ S \subseteq Slots
    BY DEF Buffer
  <2>2. Min(S) \in S
    BY <2>1, FirstSlot
  <2> QED BY <2>2 DEF FirstFree
<1>2. slots' = [slots EXCEPT ![f] = b] /\ r.type = type
  BY DEF Buffer
<1>3. UNCHANGED <<mode, lcd, init, counter, current, reversed, part, enable, pins, half, shown>>
  BY DEF Buffer, bus
<1>4. h \in SlotTypes /\ h.buffered = FALSE /\ h.type \in {"NOReq", "ReqDone"}
  BY <1>1 DEF LcdInv, SlotHeld, SlotTypes
<1>5. r.type \in Types /\ r # None
  BY LcdAssumption
<1>6. b \in SlotTypes /\ b.type = type /\ b.state = "Start" /\ b.buffered = TRUE /\ b.request = r /\ b.pos = 0
  BY <1>2, <1>4, <1>5 DEF SlotTypes
<1>7. b \in Served /\ ~Begun(b)
  BY <1>2, <1>5, <1>6 DEF Served, Begun, Types, Commands
<1> HIDE DEF f, h, b
<1>8. slots'[f] = b /\ (\A s \in Slots : s # f => slots'[s] = slots[s]) /\ DOMAIN slots' = Slots
  BY <1>1, <1>2 DEF LcdInv
<1>9. Idle \/ Fresh \/ lcd # "operational" \/ f # current
  BY <1>1, <1>4 DEF LcdInv, LineHeld, Served, Here, h
<1>10. LcdInv'
  <2>1. \A s \in Slots : SlotHeld(s)'
    <3> TAKE s \in Slots
    <3>1. CASE s = f
      BY <1>6, <1>7, <1>8, <3>1 DEF SlotHeld
    <3>2. CASE s # f
      BY <1>3, <1>8, <3>2 DEF SlotHeld, LcdInv
    <3> QED BY <3>1, <3>2
  <2>2. LineHeld'
    <3>1. Sends(OpOf(Here)) /\ Here \in Served => Here' = Here
      <4>1. ASSUME Here \in Served PROVE f # current
        BY <1>4, <4>1 DEF Served, Here, h
      <4> QED BY <1>3, <1>8, <4>1 DEF Here, LcdInv
    <3> QED BY <1>3, <3>1 DEF LineHeld, LcdInv, Fresh, Idle, Sends
  <2> QED BY <1>3, <1>8, <2>1, <2>2 DEF LcdInv
<1>11. Mapped /\ Mapped'
  BY <1>10, MapIs, MapNext
<1>12. InFlight' = InFlight
  BY <1>3 DEF InFlight
<1>13. (Started' <=> Started) /\ Left' = Left
  <2>1. CASE lcd # "operational"
    <3>1. ~Started /\ Left = SetupFrom(mode, init)
      BY <1>11, <2>1 DEF Mapped
    <3>2. ~Started' /\ Left' = SetupFrom(mode', init')
      BY <1>3, <1>11, <2>1 DEF Mapped
    <3> QED BY <1>3, <3>1, <3>2
  <2>2. CASE lcd = "operational" /\ f # current
    <3>1. Here' = Here
      BY <1>3, <1>8, <2>2 DEF Here, LcdInv
    <3>2. Started' = Started
      BY <1>3, <3>1 DEF Started, InFlight
    <3>3. Left' = Left
      BY <1>3, <3>1, <3>2, <2>2 DEF Left, Rest, TextLeft, Serving, InFlight
    <3> QED BY <3>2, <3>3
  <2>3. CASE lcd = "operational" /\ f = current
    <3>1. ~InFlight
      BY <1>9, <2>3, FlightIs
    <3>2. Here = h /\ Here' = b
      BY <1>3, <1>8, <2>3 DEF Here, h
    <3>3. ~Started /\ ~Started'
      BY <1>3, <1>4, <1>7, <1>11, <1>12, <2>3, <3>1, <3>2 DEF Mapped
    <3>4. Left = <<>> /\ Left' = <<>>
      BY <1>3, <1>11, <2>3, <3>3 DEF Mapped
    <3> QED BY <3>3, <3>4
  <2> QED BY <2>1, <2>2, <2>3
<1>14. Turn' = Turn
  BY <1>3, <1>13 DEF Turn
<1>15. Kept[f] = None /\ Kept' = [Kept EXCEPT ![f] = r]
  <2>1. ~h.buffered /\ b.buffered
    BY <1>4, <1>6
  <2> QED BY <1>1, <1>6, <1>8, <2>1 DEF Kept, h
<1>16. D!Accept(f, r)
  BY <1>3, <1>13, <1>14, <1>15 DEF D!Accept, Kept, Turn
<1> QED BY <1>1, <1>10, <1>16

(* A request is accepted.                                                  *)
LEMMA RequestStep ==
    ASSUME LcdInv, NumberModes = {}, NEW r \in Requests, Request(r)
    PROVE  LcdInv' /\ \E s \in Slots : D!Accept(s, r)
<1>1. PICK type \in Types \ {"WriteNumReq"} : Buffer(r, type)
  BY DEF Request, CLCD_WriteStringAsynch, CLCD_GoToXYAsynch, CLCD_ClearScreenAsynch,
         CLCD_WriteCommandAsynch, CLCD_WriteNumberAsynch, CLCD_WriteSpecialCharAsynch,
         CLCD_DisplaySpecialCharAsynch, Types
<1> QED BY <1>1, BufferStep
----------------------------------------------------------------------------
(* The setup *)

(* What is left during the setup is told by its state.                     *)
LEMMA SetupSteps ==
    ASSUME LcdInv, LcdInv', lcd = "init", lcd' = "init", mode' = mode, slots' = slots
    PROVE  /\ Kept' = Kept /\ Turn' = Turn
           /\ Left = SetupFrom(mode, init) /\ Left' = SetupFrom(mode, init')
<1>1. Mapped /\ Mapped'
  BY MapIs, MapNext
<1>2. ~Started /\ ~Started'
  BY <1>1 DEF Mapped
<1>3. Left = SetupFrom(mode, init) /\ Left' = SetupFrom(mode', init')
  BY <1>1 DEF Mapped
<1> QED BY <1>2, <1>3 DEF Kept, Turn

(* A call of the task during the setup.                                    *)
LEMMA InitSMStep ==
    ASSUME LcdInv, CLCD_InitSM
    PROVE  LcdInv' /\ (Stays \/ Shows)
<1>1. lcd = "init" /\ mode' = mode /\ slots' = slots /\ current' = current
  BY DEF CLCD_InitSM, driver
<1>2. mode \in Modes /\ mode \in {4, 8} /\ init \in InitStates /\ LineHeld
  BY DEF LcdInv
<1>3. /\ mode = 8 => SetupFrom(mode, "PowerON") = SetupFrom(mode, "FunctionalSet")
      /\ SetupFrom(mode, "PowerON") = SetupFrom(mode, "FunctionSet4bitMode")
      /\ mode = 4 => SetupFrom(mode, "FunctionSet4bitMode") = <<Command(32)>> \o SetupFrom(mode, "FunctionalSet")
      /\ SetupFrom(mode, "InitEnd") = <<>>
  BY <1>2, SetupIs
<1>4. ASSUME lcd' \in {"init", "operational"}, init' \in InitStates, enable' \in BOOLEAN, LineHeld'
      PROVE  LcdInv'
  <2>1. \A s \in Slots : SlotHeld(s)'
    BY <1>1, <1>4 DEF LcdInv, SlotHeld
  <2> QED BY <1>1, <1>4, <2>1 DEF LcdInv
<1>5. CASE InitPowerOn
  <2>1. /\ lcd' = lcd /\ init = "PowerON" /\ init' = (IF mode = 4 THEN "FunctionSet4bitMode" ELSE "FunctionalSet")
        /\ UNCHANGED <<part, enable, pins, half, shown>>
    BY <1>5 DEF InitPowerOn, bus
  <2>2. LineHeld'
    BY <1>1, <1>2, <2>1 DEF LineHeld, Fresh
  <2>3. LcdInv'
    BY <1>1, <1>2, <1>4, <2>1, <2>2 DEF InitStates, LcdInv
  <2>4. Stays
    BY <1>1, <1>2, <1>3, <2>1, <2>3, SetupSteps DEF Stays
  <2> QED BY <2>3, <2>4
<1>6. CASE InitFourBit
  <2>1. init = "FunctionSet4bitMode" /\ lcd' = lcd /\ mode = 4 /\ half = None /\ part = "first" /\ part' = part
    BY <1>2, <1>6 DEF InitFourBit, LineHeld
  <2>2. CASE ~enable
    <3>1. enable' = TRUE /\ pins' = Command(32) /\ init' = init /\ half' = half /\ shown' = shown
      BY <1>6, <2>2 DEF InitFourBit
    <3>2. LineHeld'
      BY <1>1, <1>2, <2>1, <3>1 DEF LineHeld
    <3>3. LcdInv'
      BY <1>1, <1>2, <1>4, <2>1, <3>1, <3>2
    <3>4. Stays
      BY <1>1, <2>1, <3>1, <3>3, SetupSteps DEF Stays
    <3> QED BY <3>3, <3>4
  <2>3. CASE enable
    <3>1. enable' = FALSE /\ Take(TRUE) /\ init' = "FunctionalSet" /\ pins = Command(32)
      <4>1. enable' = FALSE /\ Take(TRUE) /\ init' = After[init]
        BY <1>6, <2>3 DEF InitFourBit, Take
      <4>2. After["FunctionSet4bitMode"] = "FunctionalSet"
        BY DEF After
      <4>3. pins = Command(32)
        BY <1>2, <2>1, <2>3 DEF LineHeld
      <4> QED BY <2>1, <4>1, <4>2, <4>3
    <3>2. half' = None /\ shown' = [op |-> Command(32), flip |-> ~shown.flip]
      BY <3>1 DEF Take
    <3>3. LineHeld'
      BY <1>1, <1>2, <2>1, <3>1, <3>2 DEF LineHeld, Fresh
    <3>4. LcdInv'
      BY <1>1, <1>2, <1>4, <2>1, <3>1, <3>3 DEF InitStates
    <3>5. Left = <<Command(32)>> \o SetupFrom(mode, "FunctionalSet") /\ Left' = SetupFrom(mode, "FunctionalSet")
      BY <1>1, <1>3, <2>1, <3>1, <3>4, SetupSteps
    <3>6. Command(32) \in Ops /\ SetupFrom(mode, "FunctionalSet") \in Seq(Ops)
      BY <1>2, SetupIs DEF InitStates
    <3>7. Left # <<>> /\ Head(Left) = Command(32) /\ Tail(Left) = Left'
      BY <3>5, <3>6, HeadOf
    <3>8. Shows
      BY <1>1, <2>1, <3>2, <3>4, <3>7, SetupSteps DEF Shows
    <3> QED BY <3>4, <3>8
  <2> QED BY <2>2, <2>3
<1>7. CASE InitWait
  <2>1. UNCHANGED <<lcd, init, part, enable, pins, half, shown>> /\ init = "FunctionalSet"
    BY <1>7 DEF InitWait, bus
  <2>2. LineHeld'
    BY <1>1, <1>2, <2>1 DEF LineHeld, Fresh, Sends
  <2>3. LcdInv'
    BY <1>1, <1>2, <1>4, <2>1, <2>2 DEF LcdInv
  <2>4. Stays
    BY <1>1, <2>1, <2>3, SetupSteps DEF Stays
  <2> QED BY <2>3, <2>4
<1>8. CASE InitCommand
  <2>1. PICK op : op = SetupOp[init]
    OBVIOUS
  <2>2. PICK next : next = After[init]
    OBVIOUS
  <2>3. /\ lcd' = lcd /\ init \in {"FunctionalSet", "DisplayControl", "DisplayClear"}
        /\ \/ Raise(op) /\ init' = init
           \/ Lower /\ init' = IF Whole THEN next ELSE init
    BY <1>8, <2>1, <2>2 DEF InitCommand, SetupOp, Raise
  <2>4. /\ op \in Ops /\ next \in {"DisplayControl", "DisplayClear", "InitEnd"}
        /\ SetupFrom(mode, init) = <<op>> \o SetupFrom(mode, next) /\ SetupFrom(mode, next) \in Seq(Ops)
        /\ init = "FunctionalSet" => op.rs = "command"
    <3>1. CASE init = "FunctionalSet"
      BY <1>2, <2>1, <2>2, <3>1, SetupIs DEF SetupOp, After, InitStates, FunctionSet, Command
    <3>2. CASE init = "DisplayControl"
      BY <1>2, <2>1, <2>2, <3>2, SetupIs DEF SetupOp, After, InitStates
    <3>3. CASE init = "DisplayClear"
      BY <1>2, <2>1, <2>2, <3>3, SetupIs DEF SetupOp, After, InitStates
    <3> QED BY <2>3, <3>1, <3>2, <3>3
  <2>5. Idle \/ Sends(op) \/ (Fresh /\ init = "FunctionalSet")
    BY <1>2, <2>1, <2>3 DEF LineHeld, SetupOp
  <2>6. CASE Raise(op) /\ init' = init
    <3>1. Sends(op)' /\ shown' = shown /\ enable' = TRUE
      BY <1>1, <1>2, <2>4, <2>5, <2>6, RaiseIs DEF Raise
    <3>2. LineHeld'
      BY <1>1, <1>2, <2>1, <2>3, <2>6, <3>1 DEF LineHeld, SetupOp
    <3>3. LcdInv'
      BY <1>1, <1>2, <1>4, <2>3, <2>6, <3>1, <3>2
    <3>4. Stays
      BY <1>1, <2>3, <2>6, <3>1, <3>3, SetupSteps DEF Stays
    <3> QED BY <3>3, <3>4
  <2>7. CASE Lower /\ init' = IF Whole THEN next ELSE init
    <3>1. Sends(op) /\ enable' = FALSE
      BY <2>5, <2>7 DEF Lower, Idle, Fresh
    <3>2. CASE ~Whole
      <4>1. Sends(op)' /\ shown' = shown /\ init' = init
        BY <1>1, <1>2, <2>7, <3>1, <3>2, LowerIs
      <4>2. LineHeld'
        BY <1>1, <1>2, <2>1, <2>3, <4>1 DEF LineHeld, SetupOp
      <4>3. LcdInv'
        BY <1>1, <1>2, <1>4, <2>3, <3>1, <4>1, <4>2
      <4>4. Stays
        BY <1>1, <2>3, <4>1, <4>3, SetupSteps DEF Stays
      <4> QED BY <4>3, <4>4
    <3>3. CASE Whole
      <4>1. Idle' /\ shown' = [op |-> op, flip |-> ~shown.flip] /\ init' = next
        BY <1>1, <1>2, <2>7, <3>1, <3>3, LowerIs
      <4>2. LineHeld'
        BY <1>1, <1>2, <2>3, <2>4, <4>1 DEF LineHeld
      <4>3. LcdInv'
        BY <1>1, <1>2, <1>4, <2>3, <2>4, <3>1, <4>1, <4>2 DEF InitStates
      <4>4. Left = <<op>> \o SetupFrom(mode, next) /\ Left' = SetupFrom(mode, next)
        BY <1>1, <2>3, <2>4, <4>1, <4>3, SetupSteps
      <4>5. Left # <<>> /\ Head(Left) = op /\ Tail(Left) = Left'
        BY <2>4, <4>4, HeadOf
      <4>6. Shows
        BY <1>1, <2>3, <4>1, <4>3, <4>5, SetupSteps DEF Shows
      <4> QED BY <4>3, <4>6
    <3> QED BY <3>2, <3>3
  <2> QED BY <2>3, <2>6, <2>7
<1>9. CASE InitEnd
  <2>1. init = "InitEnd" /\ init' = init /\ lcd' = "operational" /\ UNCHANGED <<part, enable, pins, half, shown>>
    BY <1>9 DEF InitEnd, bus
  <2>2. Idle /\ Idle'
    BY <1>1, <1>2, <2>1 DEF LineHeld, Idle
  <2>3. LineHeld'
    BY <2>1, <2>2 DEF LineHeld
  <2>4. LcdInv'
    BY <1>1, <1>2, <1>4, <2>1, <2>3 DEF LcdInv
  <2>5. Mapped /\ Mapped'
    BY <2>4, MapIs, MapNext
  <2>6. ~InFlight'
    BY <2>2 DEF Idle, InFlight
  <2>7. Here' = Here /\ (Here.buffered = TRUE => ~Begun(Here))
    BY <1>1 DEF LcdInv, SlotHeld, Here
  <2>8. ~Started /\ ~Started' /\ Left = SetupFrom(mode, "InitEnd") /\ Left' = <<>>
    BY <1>1, <2>1, <2>5, <2>6, <2>7 DEF Mapped
  <2>9. Stays
    BY <1>1, <1>3, <2>1, <2>8 DEF Stays, Kept, Turn
  <2> QED BY <2>4, <2>9
<1> QED BY <1>5, <1>6, <1>7, <1>8, <1>9 DEF CLCD_InitSM

----------------------------------------------------------------------------
(* The requests *)

(* The current slot is served or free, and the bus is idle if it has       *)
(* nothing to do.                                                          *)
LEMMA ServedHere ==
    ASSUME LcdInv, lcd = "operational"
    PROVE  /\ Here \in Served \/ (Here.buffered = FALSE /\ Here.type \in {"NOReq", "ReqDone"})
           /\ Idle \/ (Here \in Served /\ HasOp(Here) /\ Sends(OpOf(Here)))
<1>1. SlotHeld(current) /\ Here = slots[current] /\ LineHeld /\ init = "InitEnd"
  BY DEF LcdInv, Here, LineHeld
<1>2. Here.buffered \in BOOLEAN /\ Here \in SlotTypes
  BY <1>1 DEF SlotHeld, SlotTypes
<1>3. Idle \/ (Here \in Served /\ HasOp(Here) /\ Sends(OpOf(Here)))
  BY <1>1 DEF LineHeld
<1> QED BY <1>1, <1>2, <1>3 DEF SlotHeld

(* What a call of the task can be: a pulse, the beginning of a request     *)
(* that is not a pulse, the end of a text, or the end of a request.        *)
LEMMA OperateIs ==
    ASSUME LcdInv, Operate
    PROVE  /\ lcd = "operational" /\ UNCHANGED <<mode, lcd, init>>
           /\ \/ Here \in Served /\ HasOp(Here) /\ Pulse(OpOf(Here), Behind(Here))
              \/ /\ Here \in Served
                 /\ Here.type = "WriteReq" \/ Here.type \in Commands
                 /\ Here.state = "Start"
                 /\ Becomes([Here EXCEPT !.state = "Inprogress"])
                 /\ UNCHANGED <<current, part, enable, pins, half, shown>>
              \/ /\ Here \in Served /\ Here.type \in Texts /\ Here.state = "Inprogress"
                 /\ ~(Here.pos < Len(Here.request.text))
                 /\ Becomes(TextEnd(Here))
                 /\ UNCHANGED <<current, part, enable, pins, half, shown>>
              \/ CLCD_ReqDone
<1>1. lcd = "operational" /\ UNCHANGED <<mode, lcd, init>>
  BY DEF Operate
<1>2. Here \in Served \/ Here.type \in {"NOReq", "ReqDone"}
  BY <1>1, ServedHere
<1>3. Here.type # "WriteNumReq"
  BY <1>2 DEF Served
<1>4. ASSUME WriteText(Done), Serving("WriteReq", "Inprogress"), Here.pos < Len(Here.request.text)
      PROVE  HasOp(Here) /\ Pulse(OpOf(Here), Behind(Here))
  BY <1>4 DEF WriteText, NextPos, OpOf, Behind, HasOp, Serving, Texts, Pulse, Raise, Becomes
<1>5. ASSUME WriteText(Enters("SetDDRAM")), Serving("WriteSpecialChar", "Inprogress"),
             Here.pos < Len(Here.request.text)
      PROVE  HasOp(Here) /\ Pulse(OpOf(Here), Behind(Here))
  BY <1>5 DEF WriteText, NextPos, OpOf, Behind, HasOp, Serving, Texts, Pulse, Raise, Becomes
<1>6. ASSUME Serving("WriteSpecialChar", "Start"), Pulse(CgramCommand(Here.request), Enters("Inprogress"))
      PROVE  HasOp(Here) /\ Pulse(OpOf(Here), Behind(Here))
  BY <1>6 DEF OpOf, Behind, HasOp, Serving, Texts, Pulse, Raise, Becomes, Enters
<1>7. ASSUME Serving("WriteSpecialChar", "SetDDRAM"), Pulse(SetDDRAM, Done)
      PROVE  HasOp(Here) /\ Pulse(OpOf(Here), Behind(Here))
  BY <1>7 DEF OpOf, Behind, HasOp, Serving, Texts, Pulse, Raise, Becomes, Done
<1>8. ASSUME Here.type = "DisplaySpecialChar", Pulse(Data(Here.request.n), Done)
      PROVE  HasOp(Here) /\ Pulse(OpOf(Here), Behind(Here))
  BY <1>8 DEF OpOf, Behind, HasOp, Serving, Texts, Pulse, Raise, Becomes, Done
<1>9. ASSUME NEW type \in Commands, Serving(type, "Inprogress"), Pulse(CommandOf(Here.request), Done)
      PROVE  HasOp(Here) /\ Pulse(OpOf(Here), Behind(Here))
  BY <1>9 DEF OpOf, Behind, HasOp, Serving, Texts, Commands, Pulse, Raise, Becomes, Done
<1>10. CASE CLCD_WriteProcess
  <2>1. Here \in Served
    BY <1>2, <1>10 DEF CLCD_WriteProcess, Begin, Serving
  <2>2. CASE Begin("WriteReq")
    BY <1>1, <2>1, <2>2 DEF Begin, Serving, Enters, bus
  <2>3. CASE Serving("WriteReq", "Inprogress") /\ WriteText(Done) /\ Here.pos < Len(Here.request.text)
    BY <1>1, <1>4, <2>1, <2>3
  <2>4. CASE Serving("WriteReq", "Inprogress") /\ WriteText(Done) /\ ~(Here.pos < Len(Here.request.text))
    BY <1>1, <2>1, <2>4 DEF WriteText, Serving, Done, bus, Texts, Becomes, TextEnd
  <2> QED BY <1>10, <2>2, <2>3, <2>4 DEF CLCD_WriteProcess
<1>11. CASE CLCD_WriteNumProcess
  <2>1. \A state : ~Serving("WriteNumReq", state)
    BY <1>3 DEF Serving
  <2>2. ~WriteZero /\ ~WriteSign /\ ~BeginDigits
    BY <2>1 DEF WriteZero, WriteSign, BeginDigits, Begin
  <2>3. ~WriteDigits
    BY <2>1 DEF WriteDigits
  <2> QED BY <1>11, <2>2, <2>3 DEF CLCD_WriteNumProcess
<1>12. CASE CLCD_WriteSpecialCharProcess
  <2>1. Here \in Served
    BY <1>2, <1>12 DEF CLCD_WriteSpecialCharProcess, Serving
  <2>2. CASE Serving("WriteSpecialChar", "Start") /\ Pulse(CgramCommand(Here.request), Enters("Inprogress"))
    BY <1>1, <1>6, <2>1, <2>2
  <2>3. CASE /\ Serving("WriteSpecialChar", "Inprogress") /\ WriteText(Enters("SetDDRAM"))
             /\ Here.pos < Len(Here.request.text)
    BY <1>1, <1>5, <2>1, <2>3
  <2>4. CASE /\ Serving("WriteSpecialChar", "Inprogress") /\ WriteText(Enters("SetDDRAM"))
             /\ ~(Here.pos < Len(Here.request.text))
    BY <1>1, <2>1, <2>4 DEF WriteText, Serving, Enters, bus, Texts, Becomes, TextEnd
  <2>5. CASE Serving("WriteSpecialChar", "SetDDRAM") /\ Pulse(SetDDRAM, Done)
    BY <1>1, <1>7, <2>1, <2>5
  <2> QED BY <1>12, <2>2, <2>3, <2>4, <2>5 DEF CLCD_WriteSpecialCharProcess
<1>13. CASE CLCD_DisplaySpecialChar
  <2>1. Here \in Served
    BY <1>2, <1>13 DEF CLCD_DisplaySpecialChar
  <2> QED BY <1>1, <1>8, <1>13, <2>1 DEF CLCD_DisplaySpecialChar
<1>14. CASE CLCD_SendCommand
  <2>1. PICK type \in Commands : Begin(type) \/ (Serving(type, "Inprogress") /\ Pulse(CommandOf(Here.request), Done))
    BY <1>14 DEF CLCD_SendCommand, Commands
  <2>2. Here \in Served /\ Here.type = type
    BY <1>2, <2>1 DEF Begin, Serving, Commands
  <2>3. CASE Begin(type)
    BY <1>1, <2>2, <2>3 DEF Begin, Serving, Enters, bus
  <2>4. CASE Serving(type, "Inprogress") /\ Pulse(CommandOf(Here.request), Done)
    BY <1>1, <1>9, <2>2, <2>4
  <2> QED BY <2>1, <2>3, <2>4
<1>15. CASE CLCD_ReqDone
  BY <1>1, <1>15
<1> QED BY <1>10, <1>11, <1>12, <1>13, <1>14, <1>15 DEF Operate

(* The current slot moves on.                                              *)
LEMMA SlotMoves ==
    ASSUME LcdInv, lcd = "operational", UNCHANGED <<lcd, current>>, Here \in Served,
           NEW b \in Served, b.request = Here.request, Becomes(b)
    PROVE  (\A s \in Slots : SlotHeld(s)') /\ DOMAIN slots' = Slots /\ Here' = b /\ Kept' = Kept
<1>1. slots' = [slots EXCEPT ![current] = b] /\ current \in Slots /\ DOMAIN slots = Slots
  BY DEF Becomes, LcdInv
<1>2. slots'[current] = b /\ (\A s \in Slots : s # current => slots'[s] = slots[s]) /\ DOMAIN slots' = Slots
  BY <1>1
<1>3. b \in SlotTypes /\ b.buffered = TRUE /\ Here.buffered = TRUE
  BY DEF Served
<1>4. \A s \in Slots : SlotHeld(s)'
  <2> TAKE s \in Slots
  <2>1. CASE s = current
    BY <1>2, <1>3, <2>1 DEF SlotHeld
  <2>2. CASE s # current
    BY <1>2, <2>2 DEF SlotHeld, LcdInv
  <2> QED BY <2>1, <2>2
<1>5. Here' = b
  BY <1>2 DEF Here
<1>6. Kept' = Kept
  <2>1. \A s \in Slots : /\ (slots'[s].buffered <=> slots[s].buffered)
                         /\ slots[s].buffered => slots'[s].request = slots[s].request
    BY <1>2, <1>3 DEF Here
  <2> QED BY <2>1 DEF Kept
<1> QED BY <1>2, <1>4, <1>5, <1>6

(* The invariant, of a step of a display that is set up.                   *)
LEMMA OperateInv ==
    ASSUME LcdInv, lcd = "operational", UNCHANGED <<mode, lcd, init>>,
           \A s \in Slots : SlotHeld(s)', DOMAIN slots' = Slots, current' \in Slots, enable' \in BOOLEAN,
           Idle' \/ (Here \in Served /\ HasOp(Here) /\ Sends(OpOf(Here)))'
    PROVE  LcdInv'
<1>1. init = "InitEnd"
  BY DEF LcdInv, LineHeld
<1>2. LineHeld'
  BY <1>1 DEF LineHeld
<1> QED BY <1>2 DEF LcdInv

(* A pulse of E: it begins a request, brings it on, or neither.            *)
LEMMA PulseStep ==
    ASSUME LcdInv, lcd = "operational", UNCHANGED <<mode, lcd, init>>,
           Here \in Served, HasOp(Here), Pulse(OpOf(Here), Behind(Here))
    PROVE  LcdInv' /\ (Stays \/ Shows \/ \E s \in Slots : D!Begin(s))
<1>1. PICK h \in Served : h = Here
  OBVIOUS
<1>2. PICK op : op = OpOf(h)
  OBVIOUS
<1>3. /\ HasOp(h) /\ op \in Ops /\ LeftBehind(h) \in Seq(Ops)
      /\ Behind(h) \in Served /\ Begun(Behind(h)) /\ Behind(h).request = h.request
      /\ h.buffered = TRUE /\ h.request \in Requests
  BY <1>1, <1>2, ServedTypes DEF Served
<1>4. /\ RestOf(h, TRUE) = LeftBehind(h)
      /\ Begun(h) => RestOf(h, FALSE) = <<op>> \o LeftBehind(h)
      /\ ~Begun(h) => Meaning(h.request) = <<op>> \o LeftBehind(h)
      /\ RestOf(Behind(h), FALSE) = LeftBehind(h)
  BY <1>1, <1>2, <1>3, OpIs
<1>5. Idle \/ Sends(op)
  BY <1>1, <1>2, ServedHere
<1>6. mode \in {4, 8} /\ Mapped /\ current \in Slots /\ DOMAIN slots = Slots /\ (\A s \in Slots : SlotHeld(s))
  BY MapIs DEF LcdInv
<1>7. /\ UNCHANGED current
      /\ \/ Raise(op) /\ UNCHANGED slots
         \/ Lower /\ IF Whole THEN Becomes(Behind(h)) ELSE UNCHANGED slots
  BY <1>1, <1>2 DEF Pulse, Raise, Becomes
<1>8. ASSUME Sends(op)', shown' = shown, UNCHANGED slots, enable' \in BOOLEAN
      PROVE  LcdInv' /\ (Stays \/ \E s \in Slots : D!Begin(s))
  <2>1. Here' = h
    BY <1>1, <1>7, <1>8 DEF Here
  <2>2. \A s \in Slots : SlotHeld(s)'
    BY <1>6, <1>7, <1>8 DEF SlotHeld
  <2>3. LcdInv'
    BY <1>2, <1>3, <1>6, <1>7, <1>8, <2>1, <2>2, OperateInv
  <2>4. InFlight'
    BY <1>8, NoneIsNoOp DEF Sends, InFlight
  <2>5. Mapped'
    BY <2>3, MapNext
  <2>6. Started' /\ Left' = <<op>> \o LeftBehind(h)
    BY <1>2, <1>3, <2>1, <2>4, <2>5 DEF Mapped
  <2>7. Kept' = Kept
    BY <1>8 DEF Kept
  <2>8. CASE Started
    <3>1. Left = <<op>> \o LeftBehind(h)
      BY <1>1, <1>2, <1>4, <1>6, <2>8 DEF Mapped
    <3>2. Stays
      BY <1>7, <1>8, <2>6, <2>7, <2>8, <3>1 DEF Stays, Turn
    <3> QED BY <2>3, <3>2
  <2>9. CASE ~Started
    <3>1. Left = <<>> /\ ~Begun(h)
      BY <1>1, <1>3, <1>6, <2>9 DEF Mapped
    <3>2. Left' = Meaning(h.request)
      BY <1>4, <2>6, <3>1
    <3>3. Kept[current] = h.request /\ h.request # None
      BY <1>1, <1>3, <1>6, LcdAssumption DEF Kept, Here
    <3>4. Turn = None /\ Turn' = current
      BY <1>7, <2>6, <2>9 DEF Turn
    <3>5. D!Begin(current)
      BY <1>8, <2>7, <3>1, <3>2, <3>3, <3>4 DEF D!Begin, Kept, Turn
    <3> QED BY <1>6, <2>3, <3>5
  <2> QED BY <2>8, <2>9
<1>9. CASE Raise(op) /\ UNCHANGED slots
  <2>1. Sends(op)' /\ shown' = shown /\ enable' = TRUE
    BY <1>3, <1>5, <1>6, <1>9, RaiseIs DEF Raise
  <2> QED BY <1>8, <1>9, <2>1
<1>10. CASE Lower /\ IF Whole THEN Becomes(Behind(h)) ELSE UNCHANGED slots
  <2>1. Sends(op) /\ enable' = FALSE
    BY <1>5, <1>10 DEF Lower, Idle
  <2>2. CASE ~Whole
    <3>1. Sends(op)' /\ shown' = shown
      BY <1>6, <1>10, <2>1, <2>2, LowerIs
    <3> QED BY <1>8, <1>10, <2>1, <2>2, <3>1
  <2>3. CASE Whole
    <3>1. Idle' /\ shown' = [op |-> op, flip |-> ~shown.flip]
      BY <1>6, <1>10, <2>1, <2>3, LowerIs
    <3>2. (\A s \in Slots : SlotHeld(s)') /\ DOMAIN slots' = Slots /\ Here' = Behind(h) /\ Kept' = Kept
      BY <1>1, <1>3, <1>7, <1>10, <2>3, SlotMoves
    <3>3. LcdInv'
      BY <1>6, <1>7, <2>1, <3>1, <3>2, OperateInv
    <3>4. Mapped'
      BY <3>3, MapNext
    <3>5. InFlight /\ ~InFlight'
      <4>1. InFlight
        BY <2>1, FlightIs
      <4>2. ~InFlight'
        BY <3>1 DEF Idle, InFlight
      <4> QED BY <4>1, <4>2
    <3>6. Started /\ Left = <<op>> \o LeftBehind(h)
      BY <1>1, <1>2, <1>3, <1>6, <3>5 DEF Mapped
    <3>7. Behind(h).buffered = TRUE
      BY <1>3 DEF Served
    <3>8. Started' /\ Left' = LeftBehind(h)
      BY <1>3, <1>4, <3>2, <3>4, <3>5, <3>7 DEF Mapped
    <3>9. Left # <<>> /\ Head(Left) = op /\ Tail(Left) = Left'
      BY <1>3, <3>6, <3>8, HeadOf
    <3>10. Shows
      BY <1>7, <3>1, <3>2, <3>6, <3>8, <3>9 DEF Shows, Turn
    <3> QED BY <3>3, <3>10
  <2> QED BY <2>2, <2>3
<1> QED BY <1>7, <1>8, <1>9, <1>10

(* A request begins without a pulse.                                       *)
LEMMA BeginStep ==
    ASSUME LcdInv, lcd = "operational", UNCHANGED <<mode, lcd, init>>,
           Here \in Served, Here.type = "WriteReq" \/ Here.type \in Commands, Here.state = "Start",
           Becomes([Here EXCEPT !.state = "Inprogress"]),
           UNCHANGED <<current, part, enable, pins, half, shown>>
    PROVE  LcdInv' /\ \E s \in Slots : D!Begin(s)
<1>1. PICK h \in Served : h = Here
  OBVIOUS
<1>2. PICK b : b = [h EXCEPT !.state = "Inprogress"]
  OBVIOUS
<1>3. /\ b \in Served /\ Begun(b) /\ b.request = h.request /\ RestOf(b, FALSE) = Meaning(h.request)
      /\ ~Begun(h) /\ ~HasOp(h) /\ b.buffered = TRUE /\ h.buffered = TRUE /\ h.request \in Requests
  BY <1>1, <1>2, BeginIs DEF Served, Begun, HasOp, Commands, Texts
<1>4. Idle /\ Idle' /\ ~InFlight /\ ~InFlight'
  BY <1>1, <1>3, ServedHere DEF Idle, InFlight
<1>5. (\A s \in Slots : SlotHeld(s)') /\ DOMAIN slots' = Slots /\ Here' = b /\ Kept' = Kept
  BY <1>1, <1>2, <1>3, SlotMoves DEF Becomes
<1>6. LcdInv'
  BY <1>4, <1>5, OperateInv DEF LcdInv
<1>7. Mapped /\ Mapped' /\ current \in Slots
  BY <1>6, MapIs, MapNext DEF LcdInv
<1>8. ~Started /\ Left = <<>> /\ Started' /\ Left' = Meaning(h.request)
  BY <1>1, <1>3, <1>4, <1>5, <1>7 DEF Mapped
<1>9. Kept[current] = h.request /\ h.request # None
  BY <1>1, <1>3, <1>7, LcdAssumption DEF Kept, Here
<1>10. Turn = None /\ Turn' = current
  BY <1>8 DEF Turn
<1>11. D!Begin(current)
  BY <1>5, <1>8, <1>9, <1>10 DEF D!Begin, Kept, Turn
<1> QED BY <1>6, <1>7, <1>11

(* The end of a text is found.                                             *)
LEMMA TextEndStep ==
    ASSUME LcdInv, lcd = "operational", UNCHANGED <<mode, lcd, init>>,
           Here \in Served, Here.type \in Texts, Here.state = "Inprogress",
           ~(Here.pos < Len(Here.request.text)),
           Becomes(TextEnd(Here)),
           UNCHANGED <<current, part, enable, pins, half, shown>>
    PROVE  LcdInv' /\ Stays
<1>1. PICK h \in Served : h = Here
  OBVIOUS
<1>2. PICK b : b = TextEnd(h)
  OBVIOUS
<1>3. /\ b \in Served /\ Begun(b) /\ b.request = h.request /\ RestOf(b, FALSE) = RestOf(h, FALSE)
      /\ Begun(h) /\ ~HasOp(h) /\ b.buffered = TRUE /\ h.buffered = TRUE
  <2>1. b \in Served /\ Begun(b) /\ b.request = h.request /\ RestOf(b, FALSE) = RestOf(h, FALSE)
    <3>1. h.type \in Texts /\ h.state = "Inprogress" /\ ~(h.pos < Len(h.request.text))
      BY <1>1
    <3> QED BY <1>2, <3>1, TextEndIs
  <2> QED BY <1>1, <2>1 DEF Served, Begun, HasOp, Commands, Texts
<1>4. Idle /\ Idle' /\ ~InFlight /\ ~InFlight'
  BY <1>1, <1>3, ServedHere DEF Idle, InFlight
<1>5. (\A s \in Slots : SlotHeld(s)') /\ DOMAIN slots' = Slots /\ Here' = b /\ Kept' = Kept
  BY <1>1, <1>2, <1>3, SlotMoves DEF Becomes
<1>6. LcdInv'
  BY <1>4, <1>5, OperateInv DEF LcdInv
<1>7. Mapped /\ Mapped'
  BY <1>6, MapIs, MapNext
<1>8. Started /\ Started' /\ Left' = Left
  BY <1>1, <1>3, <1>4, <1>5, <1>7 DEF Mapped
<1>9. Stays
  BY <1>5, <1>8 DEF Stays, Turn
<1> QED BY <1>6, <1>9

(* The end of a request frees its slot, if it was not freed before.        *)
LEMMA ReqDoneStep ==
    ASSUME LcdInv, lcd = "operational", UNCHANGED <<mode, lcd, init>>, CLCD_ReqDone
    PROVE  LcdInv' /\ (Stays \/ D!Finish)
<1> DEFINE W == {s \in Slots : Freed[s].buffered}
<1>1. PICK c : c = current
  OBVIOUS
<1>2. PICK h : h = Here
  OBVIOUS
<1>3. /\ c \in Slots /\ DOMAIN slots = Slots /\ (\A s \in Slots : SlotHeld(s)) /\ Mapped
      /\ h = slots[c] /\ h.type = "ReqDone" /\ h \in SlotTypes
  BY <1>1, <1>2, MapIs DEF LcdInv, Here, CLCD_ReqDone, SlotHeld
<1>4. UNCHANGED <<part, enable, pins, half, shown>>
  BY DEF CLCD_ReqDone, bus
<1>5. Idle /\ Idle' /\ ~InFlight /\ ~InFlight'
  <2>1. ~HasOp(h)
    BY <1>3 DEF HasOp, Texts, Commands
  <2>2. Idle
    BY <1>2, <2>1, ServedHere
  <2> QED BY <1>4, <2>2 DEF Idle, InFlight
<1>6. PICK e : e = [[[[h EXCEPT !.buffered = FALSE] EXCEPT !.request = None] EXCEPT !.pos = 0] EXCEPT !.number = 0]
  OBVIOUS
<1>7. e \in SlotTypes /\ e.buffered = FALSE /\ e.type = "ReqDone"
  <2>1. PICK e1 : e1 = [h EXCEPT !.buffered = FALSE]
    OBVIOUS
  <2>2. e1 \in SlotTypes /\ e1.buffered = FALSE /\ e1.type = "ReqDone"
    BY <1>3, <2>1 DEF SlotTypes
  <2>3. PICK e2 : e2 = [e1 EXCEPT !.request = None]
    OBVIOUS
  <2>4. e2 \in SlotTypes /\ e2.buffered = FALSE /\ e2.type = "ReqDone"
    BY <2>2, <2>3 DEF SlotTypes
  <2>5. PICK e3 : e3 = [e2 EXCEPT !.pos = 0]
    OBVIOUS
  <2>6. e3 \in SlotTypes /\ e3.buffered = FALSE /\ e3.type = "ReqDone"
    BY <2>4, <2>5 DEF SlotTypes
  <2>7. e = [e3 EXCEPT !.number = 0]
    BY <1>6, <2>1, <2>3, <2>5
  <2> QED BY <2>6, <2>7 DEF SlotTypes
<1>8. Freed = [slots EXCEPT ![c] = e]
  BY <1>1, <1>2, <1>6 DEF Freed, Here
<1>9. Freed[c] = e /\ (\A s \in Slots : s # c => Freed[s] = slots[s]) /\ DOMAIN Freed = Slots
  BY <1>3, <1>8
<1>10. /\ DOMAIN slots' = Slots /\ current' \in Slots
       /\ \A s \in Slots : s # c => slots'[s] = slots[s]
       /\ slots'[c] \in SlotTypes /\ slots'[c].buffered = FALSE /\ slots'[c].type \in {"NOReq", "ReqDone"}
       /\ current' = c => Here'.buffered = FALSE
  <2>1. CASE W = {}
    <3>1. slots' = [Freed EXCEPT ![c] = [Freed[c] EXCEPT !.type = "NOReq"]] /\ current' = 0
      BY <1>1, <2>1 DEF CLCD_ReqDone
    <3>2. PICK e2 : e2 = [e EXCEPT !.type = "NOReq"]
      OBVIOUS
    <3>3. e2 \in SlotTypes /\ e2.buffered = FALSE /\ e2.type = "NOReq"
      BY <1>7, <3>2 DEF SlotTypes
    <3>4. slots'[c] = e2 /\ (\A s \in Slots : s # c => slots'[s] = slots[s]) /\ DOMAIN slots' = Slots
      BY <1>3, <1>9, <3>1, <3>2
    <3>5. 0 \in Slots
      BY LcdAssumption DEF Slots
    <3> QED BY <3>1, <3>3, <3>4, <3>5 DEF Here
  <2>2. CASE W # {}
    <3>1. PICK n : n = NextSlot(W)
      OBVIOUS
    <3>2. slots' = [Freed EXCEPT ![n] = [Freed[n] EXCEPT !.state = "Start"]] /\ current' = n
      BY <2>2, <3>1 DEF CLCD_ReqDone
    <3>3. n \in W
      BY <2>2, <3>1, FirstSlot DEF NextSlot
    <3>4. n \in Slots /\ n # c /\ slots[n].buffered
      BY <1>7, <1>9, <3>3
    <3>5. slots[n] \in SlotTypes /\ slots[n].state = "Start"
      BY <1>1, <1>3, <3>4 DEF SlotHeld, Begun, SlotTypes
    <3>6. [slots[n] EXCEPT !.state = "Start"] = slots[n]
      BY <3>5 DEF SlotTypes
    <3>7. slots' = Freed
      BY <1>9, <1>8, <3>2, <3>4, <3>6
    <3> QED BY <1>7, <1>9, <3>2, <3>4, <3>7
  <2> QED BY <2>1, <2>2
<1> HIDE DEF W
<1>11. \A s \in Slots : SlotHeld(s)'
  <2> TAKE s \in Slots
  <2>1. CASE s = c
    BY <1>10, <2>1 DEF SlotHeld
  <2>2. CASE s # c
    BY <1>1, <1>3, <1>10, <2>2 DEF SlotHeld
  <2> QED BY <2>1, <2>2
<1>12. LcdInv'
  BY <1>4, <1>5, <1>10, <1>11, OperateInv DEF LcdInv
<1>13. Mapped'
  BY <1>12, MapNext
<1>14. Here'.buffered = FALSE \/ ~Begun(Here')
  <2>1. CASE current' = c
    BY <1>10, <2>1
  <2>2. CASE current' # c
    <3>1. Here' = slots[current']
      BY <1>10, <2>2 DEF Here
    <3>2. slots[current'].buffered \in BOOLEAN /\ SlotHeld(current')
      BY <1>3, <1>10 DEF SlotHeld, SlotTypes
    <3> QED BY <1>1, <1>3, <1>10, <2>2, <3>1 DEF SlotHeld, SlotTypes
  <2> QED BY <2>1, <2>2
<1>15. ~Started' /\ Left' = <<>> /\ Turn' = None
  <2>1. ~Started'
    BY <1>5, <1>13, <1>14 DEF Mapped
  <2> QED BY <1>13, <2>1 DEF Mapped, Turn
<1>16. Left = <<>> /\ (Started <=> h.buffered = TRUE)
  BY <1>2, <1>3, <1>5 DEF Mapped, Begun, RestOf
<1>17. CASE h.buffered = TRUE
  <2>1. Turn = c /\ c # None
    BY <1>1, <1>3, <1>16, <1>17, LcdAssumption DEF Turn
  <2>2. Kept' = [Kept EXCEPT ![c] = None]
    BY <1>3, <1>10 DEF Kept
  <2>3. D!Finish
    BY <1>4, <1>15, <1>16, <2>1, <2>2 DEF D!Finish, Kept, Turn
  <2> QED BY <1>12, <2>3
<1>18. CASE h.buffered = FALSE
  <2>1. Turn = None
    BY <1>16, <1>18 DEF Turn
  <2>2. Kept' = Kept
    BY <1>3, <1>10, <1>18 DEF Kept
  <2>3. Stays
    BY <1>4, <1>15, <1>16, <2>1, <2>2 DEF Stays
  <2> QED BY <1>12, <2>3
<1> QED BY <1>3, <1>17, <1>18 DEF SlotTypes

----------------------------------------------------------------------------
(* What the users are promised                                             *)

(* Every step keeps the invariant, and is one of the display or none.      *)
LEMMA StepIs ==
    ASSUME LcdInv, NumberModes = {}, [Next]_vars
    PROVE  LcdInv' /\ (D!Next \/ Stays)
<1>1. CASE CLCD_InitAsynch
  BY <1>1, InitAsynchStep
<1>2. ASSUME NEW r \in Requests, Request(r) PROVE LcdInv' /\ D!Next
  BY <1>2, RequestStep DEF D!Next
<1>3. Shows => D!Next
  BY DEF Shows, D!Next, D!Show, Kept, Turn
<1>4. CASE CLCD_InitSM
  BY <1>3, <1>4, InitSMStep
<1>5. CASE Operate
  <2>1. lcd = "operational" /\ UNCHANGED <<mode, lcd, init>>
    BY <1>5, OperateIs
  <2>2. (\E s \in Slots : D!Begin(s)) \/ D!Finish => D!Next
    BY DEF D!Next
  <2>3. CASE Here \in Served /\ HasOp(Here) /\ Pulse(OpOf(Here), Behind(Here))
    BY <1>3, <2>1, <2>2, <2>3, PulseStep
  <2>4. CASE /\ Here \in Served
             /\ Here.type = "WriteReq" \/ Here.type \in Commands
             /\ Here.state = "Start"
             /\ Becomes([Here EXCEPT !.state = "Inprogress"])
             /\ UNCHANGED <<current, part, enable, pins, half, shown>>
    BY <2>1, <2>2, <2>4, BeginStep
  <2>5. CASE /\ Here \in Served /\ Here.type \in Texts /\ Here.state = "Inprogress"
             /\ ~(Here.pos < Len(Here.request.text))
             /\ Becomes(TextEnd(Here))
             /\ UNCHANGED <<current, part, enable, pins, half, shown>>
    BY <2>1, <2>5, TextEndStep
  <2>6. CASE CLCD_ReqDone
    BY <2>1, <2>2, <2>6, ReqDoneStep
  <2> QED BY <1>5, <2>3, <2>4, <2>5, <2>6, OperateIs
<1>6. CASE UNCHANGED vars
  <2>1. UNCHANGED <<mode, lcd, init, slots, current, reversed, part, enable, pins, half, shown>>
    BY <1>6 DEF vars, driver, bus
  <2>2. Here' = Here
    BY <2>1 DEF Here
  <2>3. LcdInv'
    BY <2>1, <2>2 DEF LcdInv, SlotHeld, LineHeld, Fresh, Idle, Sends
  <2>4. Started' <=> Started
    BY <2>1, <2>2 DEF Started, InFlight
  <2>5. Left' = Left
    <3>1. SetupLeft' = SetupLeft
      BY <2>1 DEF SetupLeft
    <3>2. Rest' = Rest
      BY <2>1, <2>2 DEF Rest, TextLeft, Serving, InFlight
    <3> QED BY <2>1, <2>4, <3>1, <3>2 DEF Left, InFlight
  <2>6. Stays
    BY <2>1, <2>4, <2>5 DEF Stays, Kept, Turn
  <2> QED BY <2>3, <2>6
<1> QED BY <1>1, <1>2, <1>4, <1>5, <1>6 DEF Next, CLCD_TASK

(* The display is set up, and then every request accepted is shown whole   *)
(* and once, uninterrupted by any other, with every pulse of E in its      *)
(* place, in both modes, with any number of slots, and whatever requests   *)
(* the users make but numbers (CLCD_TASK and all it calls).                *)
THEOREM ImplementsDisplay == ASSUME NumberModes = {} PROVE Spec => ShowsRequests
<1>1. Init => LcdInv /\ D!Init
  BY InitLcdInv
<1>2. LcdInv /\ [Next]_vars => LcdInv' /\ (D!Next \/ Stays)
  BY StepIs
<1>3. Stays <=> UNCHANGED <<[s \in Slots |-> IF slots[s].buffered THEN slots[s].request ELSE None],
                            IF Started THEN current ELSE None, Left, shown>>
  BY DEF Stays, Kept, Turn
<1> QED BY <1>1, <1>2, <1>3, PTL DEF Spec, ShowsRequests, D!Spec
=============================================================================
