------------------------------- MODULE MCLcd -------------------------------
(* Requests for TLC.  SomeRequests has one for every call of the API, the
   number negative with a zero at its end, and the number zero. *)
EXTENDS Lcd

R(type, text, n, y) == [type |-> type, text |-> text, n |-> n, y |-> y]

Text2 == R("WriteReq", <<65, 66>>, 0, 0)
Text1 == R("WriteReq", <<65>>, 0, 0)
Minus10 == R("WriteNumReq", <<>>, -10, 0)
Zero == R("WriteNumReq", <<>>, 0, 0)
Pattern == R("WriteSpecialChar", <<1>>, 0, 0)
Special == R("DisplaySpecialChar", <<>>, 0, 0)
Position == R("SetPositionReq", <<>>, 1, 5)
Clear == R("ClearReq", <<>>, 0, 0)
Shift == R("CommandReq", <<>>, 24, 0)

SomeRequests == {Text2, Minus10, Zero, Pattern, Special, Position, Clear, Shift}
Texts == {Text1}
=============================================================================
