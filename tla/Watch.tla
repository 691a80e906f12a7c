------------------------------- MODULE Watch -------------------------------
(***************************************************************************)
(* The watch: the receiver of commands (APP/Reciver.c), the clock with its *)
(* calendar and editor (APP/DisplayMode.c) and the stopwatch               *)
(* (APP/StopWatch.c).  They are runnables of one scheduler: each run is a  *)
(* step, nothing interrupts it, and they meet in ReceiveType.  A byte the  *)
(* receiver ignores is no step.                                            *)
(* X_Fault is a faulty variant of X that no specification uses; with it in *)
(* the place of X a property must fail.                                    *)
(***************************************************************************)
EXTENDS Integers, Sequences, FiniteSets

CONSTANTS Starts,        \* states to start from: the static initial values and states they lead to
          MaxCommands,   \* bound: commands received
          MaxRefreshes,  \* bound: runs of DisplayDateTime
          Step,          \* milliseconds between two runs of Stopwatch_Runnable
          MsWrap, SecsWrap, MinsWrap, HrsWrap   \* where the stopwatch carries

ASSUME WatchAssumption ==
    /\ MaxCommands \in Nat /\ MaxRefreshes \in Nat
    /\ Step \in Nat \ {0}
    /\ {MsWrap, SecsWrap, MinsWrap, HrsWrap} \subseteq Nat \ {0}
    /\ MsWrap % Step = 0

VARIABLES ReceiveType,   \* Mode, NormalModeOperation, StopWatchOperation, NormalModeEdit
          Local_Count,   \* the receiver's count of starts and pauses
          clock,         \* Date and Time
          editing,       \* the fields whose Editing flag is EDIT
          cursor,        \* the editor's <<row, column>>
          screen,        \* what the last refresh asked the LCD to show
          Stopwatch_On, SW_Time,
          allowed,       \* the commands this user sends
          received, refreshes,
          missed,        \* history: a minute passed that was not carried
          told           \* history: the stopwatch's last event, and the parity of all of them

vars == <<ReceiveType, Local_Count, clock, editing, cursor, screen,
          Stopwatch_On, SW_Time, allowed, received, refreshes, missed, told>>

U8(n) == n % 256
U16(n) == n % 65536
Wrapped(f, n) == IF f = "Year" THEN U16(n) ELSE U8(n)
Leap(year) == year % 4 = 0 /\ (year % 100 # 0 \/ year % 400 = 0)
DaysIn(year, month) ==
    IF month = 2 THEN (IF Leap(year) THEN 29 ELSE 28) ELSE IF month \in {4, 6, 9, 11} THEN 30 ELSE 31

(* A start is a moment of a day that exists; the second, counted on in the
   stopwatch mode, may be any u8. *)
Exists(c) == /\ c.Month \in 1 .. 12 /\ c.Day \in 1 .. DaysIn(c.Year, c.Month)
             /\ c.Hour <= 23 /\ c.Minuts <= 59

ASSUME StartsAssumption == \A s \in Starts :
    /\ s.mode \in {"NORMAL_MODE", "STOP_WATCH_MODE"}
    /\ s.cursor \in (0 .. 1) \X (0 .. 15)
    /\ s.clock \in [Year : Nat, Month : Nat, Day : Nat, Hour : Nat, Minuts : Nat, Second : Nat]
    /\ Exists(s.clock) /\ s.clock.Year <= 65535 /\ s.clock.Second <= 255

NO_EDIT == 0
Zero == [Hrs |-> 0, Mins |-> 0, Secs |-> 0, Ms |-> 0]

Init == \E s \in Starts :
    /\ ReceiveType = [Mode |-> s.mode, NormalModeOperation |-> "NO_ACTION",
                      StopWatchOperation |-> "NO_ACTION", NormalModeEdit |-> "NO_ACTION"]
    /\ Local_Count = 1
    /\ clock = s.clock
    /\ editing = {}
    /\ cursor = s.cursor
    /\ screen = [of |-> "nothing"]
    /\ Stopwatch_On = FALSE
    /\ SW_Time = Zero
    /\ allowed = s.commands
    /\ received = 0
    /\ refreshes = 0
    /\ missed = (s.clock.Second > 59)
    /\ told = [event |-> "nothing", odd |-> FALSE]

----------------------------------------------------------------------------
(* Receive_RunnableFunc: one command. *)

Normal == ReceiveType.Mode = "NORMAL_MODE"
Editable == Normal /\ ReceiveType.NormalModeEdit = "NORMAL_MODE_EDIT"

Command(c) == /\ c \in allowed
              /\ received < MaxCommands
              /\ received' = received + 1
              /\ UNCHANGED <<clock, editing, cursor, screen, Stopwatch_On, SW_Time,
                             allowed, refreshes, missed>>

Toggle == /\ Command("M")
          /\ ReceiveType' = [ReceiveType EXCEPT
                                 !.Mode = IF Normal THEN "STOP_WATCH_MODE" ELSE "NORMAL_MODE"]
          /\ UNCHANGED <<Local_Count, told>>

Edit == /\ Command("E")
        /\ Normal
        /\ ReceiveType' = [ReceiveType EXCEPT !.NormalModeEdit = "NORMAL_MODE_EDIT"]
        /\ UNCHANGED <<Local_Count, told>>

Confirmed_NotTold(r) == [r EXCEPT !.NormalModeEdit = "NO_ACTION"]
Confirmed(r) == [r EXCEPT !.NormalModeOperation = "EDIT_MODE_OK", !.NormalModeEdit = "NO_ACTION"]

Confirm == /\ Command("K")
           /\ Editable
           /\ ReceiveType' = Confirmed(ReceiveType)
           /\ UNCHANGED <<Local_Count, told>>

Operations == [c \in {"+", "-", "U", "D", "R", "L"} |->
                 CASE c = "+" -> "INCREASE" [] c = "-" -> "DECREASE"
                   [] c = "U" -> "UP"       [] c = "D" -> "DOWN"
                   [] c = "R" -> "RIGHT"    [] c = "L" -> "LEFT"]

(* The last operation before a refresh is the one it sees. *)
Operate(c) == /\ Command(c)
              /\ Editable
              /\ ReceiveType' = [ReceiveType EXCEPT !.NormalModeOperation = Operations[c]]
              /\ UNCHANGED <<Local_Count, told>>

Tell(event) == told' = [event |-> event, odd |-> ~told.odd]

(* The count has been taken modulo 3; the branch of 0 counts once more. *)
CountAfter_Once(n) == n + 1
CountAfter(n) == IF n = 0 THEN 2 ELSE n + 1

StartOrPause ==
    /\ Command("S")
    /\ ~Normal
    /\ LET n == Local_Count % 3
       IN  /\ ReceiveType' = [ReceiveType EXCEPT !.StopWatchOperation =
                                CASE n = 1 -> "START" [] n = 2 -> "PAUSE" [] n = 0 -> "CONTINUE"]
           /\ Local_Count' = CountAfter(n)
    /\ Tell("S")

Stop == /\ Command("C")
        /\ ~Normal
        /\ ReceiveType' = [ReceiveType EXCEPT !.StopWatchOperation = "STOP"]
        /\ Local_Count' = 1
        /\ Tell("C")

Receive == \/ Toggle \/ Edit \/ Confirm
           \/ \E c \in DOMAIN Operations : Operate(c)
           \/ StartOrPause \/ Stop

----------------------------------------------------------------------------
(* DisplayDateTime: count a second, carry, show, edit. *)

(* A carry does not reach a field that is being edited. *)
Bump_Always(c, f, flags) == [c EXCEPT ![f] = Wrapped(f, @ + 1)]
Bump(c, f, flags) == IF f \in flags THEN c ELSE [c EXCEPT ![f] = Wrapped(f, @ + 1)]

(* 59 is taken away from 60. *)
CarrySecond(c, flags) ==
    IF c.Second > 59 THEN Bump([c EXCEPT !.Second = @ - 59], "Minuts", flags) ELSE c
CarryMinute(c, flags) ==
    IF c.Minuts > 59 THEN Bump([c EXCEPT !.Minuts = @ - 59], "Hour", flags) ELSE c
CarryHour(c, flags) ==
    IF c.Hour > 23 THEN Bump([c EXCEPT !.Hour = 0], "Day", flags) ELSE c

(* At the end of February the code asks whether Month itself is NO_EDIT. *)
CarryFebruary(c) ==
    IF c.Day > (IF Leap(c.Year) THEN 29 ELSE 28)
    THEN [c EXCEPT !.Day = 1, !.Month = IF @ = NO_EDIT THEN @ + 1 ELSE @]
    ELSE c

CarryDay(c, flags) ==
    IF c.Month = 2 THEN CarryFebruary(c)
    ELSE IF c.Day > (IF c.Month \in {4, 6, 9, 11} THEN 30 ELSE 31)
         THEN Bump([c EXCEPT !.Day = 1], "Month", flags)
         ELSE c
CarryMonth(c, flags) ==
    IF c.Month > 12 THEN Bump([c EXCEPT !.Month = 1], "Year", flags) ELSE c

Carried_MonthFirst(c, flags) ==
    CarryDay(CarryMonth(CarryHour(CarryMinute(CarrySecond(c, flags), flags), flags), flags), flags)
Carried(c, flags) ==
    CarryMonth(CarryDay(CarryHour(CarryMinute(CarrySecond(c, flags), flags), flags), flags), flags)

Counted == IF "Second" \in editing THEN clock ELSE [clock EXCEPT !.Second = U8(@ + 1)]

(* The flags an accepted edit leaves. *)
Flags == IF ReceiveType.NormalModeOperation = "EDIT_MODE_OK" THEN {} ELSE editing

(* The date as requests to the LCD, each with the columns it takes: the text
   "DATE:", zeros before a short number, the number, the text "/". *)
Width(n) == IF n < 10 THEN 1 ELSE IF n < 100 THEN 2 ELSE IF n < 1000 THEN 3 ELSE IF n < 10000 THEN 4 ELSE 5
YearZeros(year) == IF year < 1000 /\ year >= 100 THEN 1
                   ELSE IF year < 100 /\ year >= 10 THEN 2
                   ELSE IF year < 10 THEN 3 ELSE 0
Zeros(n) == IF n < 10 THEN 1 ELSE 0

DateLine(c) ==
    LET year  == 5 + YearZeros(c.Year) + Width(c.Year)
        month == year + 1 + Zeros(c.Month) + Width(c.Month)
        day   == month + 1 + Zeros(c.Day) + Width(c.Day)
    IN  [Year |-> year, Month |-> month, Day |-> day]   \* the column behind each number

Shown(c) == [of |-> "clock", value |-> c, ends |-> DateLine(c)]

(* The digits the editor knows, by <<row, column>>. *)
Digit == [p \in ({0} \X {6, 7, 8, 9, 11, 12, 14, 15}) \cup ({1} \X {6, 7, 9, 10, 12, 13}) |->
    IF p[1] = 0
    THEN IF p[2] <= 9 THEN [field |-> "Year", weight |-> CASE p[2] = 6 -> 1000 [] p[2] = 7 -> 100
                                                             [] p[2] = 8 -> 10   [] p[2] = 9 -> 1]
         ELSE [field |-> IF p[2] <= 12 THEN "Month" ELSE "Day", weight |-> IF p[2] \in {11, 14} THEN 10 ELSE 1]
    ELSE [field |-> IF p[2] <= 7 THEN "Hour" ELSE IF p[2] <= 10 THEN "Minuts" ELSE "Second",
          weight |-> IF p[2] \in {6, 9, 12} THEN 10 ELSE 1]]

FieldAt(p) == IF p \in DOMAIN Digit THEN {Digit[p].field} ELSE {}

OtherRow(p) == <<1 - p[1], p[2]>>
Moved(p, op) ==
    CASE op \in {"UP", "DOWN"} -> OtherRow(p)
      [] op = "RIGHT" -> IF p[2] = 15 THEN OtherRow(<<p[1], 0>>) ELSE <<p[1], p[2] + 1>>
      [] op = "LEFT"  -> IF p[2] = 0 THEN OtherRow(<<p[1], 15>>) ELSE <<p[1], p[2] - 1>>
      [] OTHER        -> p

(* Years, months and days stay above zero, hours, minutes and seconds may
   become zero. *)
MayDecrease_ToZero(f, value, weight) == value >= weight
MayDecrease(f, value, weight) ==
    IF f \in {"Year", "Month", "Day"} THEN value > weight ELSE value >= weight

Changed(c, p, op) ==
    IF p \notin DOMAIN Digit \/ op \notin {"INCREASE", "DECREASE"} THEN c
    ELSE LET f == Digit[p].field
             w == Digit[p].weight
         IN  IF op = "INCREASE" THEN [c EXCEPT ![f] = Wrapped(f, @ + w)]
             ELSE IF MayDecrease(f, c[f], w) THEN [c EXCEPT ![f] = @ - w]
             ELSE c

Refresh == /\ refreshes < MaxRefreshes
           /\ refreshes' = refreshes + 1
           /\ UNCHANGED <<Local_Count, Stopwatch_On, SW_Time, allowed, received, told>>

(* In the stopwatch mode only the second is counted. *)
CountOnly == /\ Refresh
             /\ ~Normal
             /\ clock' = Counted
             /\ missed' = (missed \/ clock'.Second > 59)
             /\ UNCHANGED <<ReceiveType, editing, cursor, screen>>

Show == /\ Refresh
        /\ Normal
        /\ ReceiveType.NormalModeEdit # "NORMAL_MODE_EDIT"
        /\ clock' = Carried(Counted, Flags)
        /\ editing' = Flags
        /\ screen' = Shown(clock')
        /\ UNCHANGED <<ReceiveType, cursor, missed>>

(* Diplay_EditHlp works on what was shown; the flag goes to the field the
   cursor is on afterwards, unless the edit is over. *)
Marked(p, op) == IF op = "EDIT_MODE_OK" THEN Flags ELSE FieldAt(p)

ShowAndEdit ==
    /\ Refresh
    /\ Normal
    /\ ReceiveType.NormalModeEdit = "NORMAL_MODE_EDIT"
    /\ LET now == Carried(Counted, Flags)
           op  == ReceiveType.NormalModeOperation
       IN  /\ screen' = Shown(now)
           /\ cursor' = Moved(cursor, op)
           /\ clock' = Changed(now, cursor, op)
           /\ editing' = Marked(cursor', op)
    /\ ReceiveType' = [ReceiveType EXCEPT !.NormalModeOperation = "NO_ACTION"]
    /\ UNCHANGED missed

DisplayDateTime == CountOnly \/ Show \/ ShowAndEdit

----------------------------------------------------------------------------
(* Stopwatch_Runnable *)

Running == ReceiveType.StopWatchOperation \in {"START", "CONTINUE"}

On == Stopwatch_On \/ ~Normal

CarryHrs(t) == IF t.Hrs = HrsWrap THEN [t EXCEPT !.Hrs = 0] ELSE t
CarryMins(t) == IF t.Mins = MinsWrap THEN CarryHrs([t EXCEPT !.Mins = 0, !.Hrs = @ + 1]) ELSE t
CarrySecs(t) == IF t.Secs = SecsWrap THEN CarryMins([t EXCEPT !.Secs = 0, !.Mins = @ + 1]) ELSE t
Advanced(t) == LET u == [t EXCEPT !.Ms = @ + Step]
               IN  IF u.Ms = MsWrap THEN CarrySecs([u EXCEPT !.Ms = 0, !.Secs = @ + 1]) ELSE u

StopSeen == ReceiveType.StopWatchOperation = "STOP"

Stopwatch_Runnable ==
    /\ SW_Time' = IF On /\ Running THEN Advanced(SW_Time)
                  ELSE IF On /\ StopSeen THEN Zero
                  ELSE SW_Time
    /\ Tell("sample")
    /\ Stopwatch_On' = (On /\ ~(StopSeen /\ ~Running))
    /\ screen' = IF Normal THEN screen ELSE [of |-> "stopwatch", value |-> SW_Time']
    /\ UNCHANGED <<ReceiveType, Local_Count, clock, editing, cursor, allowed,
                   received, refreshes, missed>>

Next == Receive \/ DisplayDateTime \/ Stopwatch_Runnable

Spec == Init /\ [][Next]_vars

----------------------------------------------------------------------------
(* Correctness *)

Fields == {"Year", "Month", "Day", "Hour", "Minuts", "Second"}

(* The screen shows a day that exists and a time of day, whatever is edited
   into the fields and whichever field holds back a carry; the second is in
   range as long as no minute passed in the stopwatch mode (DisplayMode.c:87).
   The digits of the date stand where the editor's columns say, for years of
   up to four digits: the columns of CLCD_GoToXYAsynch count from 1, so the
   last digit of a field is in the column that its text ends before. *)
ShownValid == screen.of = "clock" =>
    /\ screen.value.Month \in 1 .. 12
    /\ screen.value.Day \in 1 .. DaysIn(screen.value.Year, screen.value.Month)
    /\ screen.value.Hour \in 0 .. 23
    /\ screen.value.Minuts \in 0 .. 59
    /\ ~missed => screen.value.Second \in 0 .. 59
    /\ screen.value.Year < 10000 => \A f \in {"Year", "Month", "Day"} :
           Digit[<<0, screen.ends[f]>>] = [field |-> f, weight |-> 1]

(* A field stands still only while it is edited: a flag is set only on the
   field under the cursor, and only while the edit goes on or its end has not
   been seen by a refresh yet.  No order of M, E, K and operations between
   two refreshes leaves a field frozen for good (DisplayMode.c:97, 526). *)
FrozenOnlyWhileEdited == editing # {} =>
    /\ editing = FieldAt(cursor)
    /\ \/ ReceiveType.NormalModeEdit = "NORMAL_MODE_EDIT"
       \/ ReceiveType.NormalModeOperation = "EDIT_MODE_OK"

(* In range, a field that is being edited changes by an operation only: no
   carry out of the six levels of the clock reaches it. *)
InRange(c, f) == CASE f = "Second" -> c.Second <= 59 [] f = "Minuts" -> c.Minuts <= 59
                   [] f = "Hour" -> c.Hour <= 23     [] f = "Month" -> c.Month <= 12
                   [] f = "Day" -> c.Day <= DaysIn(c.Year, c.Month) [] f = "Year" -> TRUE
Untouched == ReceiveType.NormalModeOperation \notin {"INCREASE", "DECREASE", "EDIT_MODE_OK"}
FieldHeld == [][\A f \in editing : Untouched /\ InRange(clock, f) => clock'[f] = clock[f]]_vars

(* While no field is being edited, be it that no edit was begun or that the
   last one has been confirmed (its EDIT_MODE_OK stays until the next edit),
   midnight brings the next day of the calendar and nothing else changes the
   date, at the end of every month but February (DisplayMode.c:145 and 155,
   where the month stays). *)
Unedited == editing = {} /\ ReceiveType.NormalModeOperation \notin {"INCREASE", "DECREASE"}
NextDate(c) ==
    IF c.Day < DaysIn(c.Year, c.Month) THEN <<c.Year, c.Month, c.Day + 1>>
    ELSE IF c.Month < 12 THEN <<c.Year, c.Month + 1, 1>>
    ELSE <<U16(c.Year + 1), 1, 1>>
Date(c) == <<c.Year, c.Month, c.Day>>
FebruaryEnds(c) == c.Month = 2 /\ c.Day = DaysIn(c.Year, 2)
DayFollows == [][Unedited /\ ~FebruaryEnds(clock) =>
                   Date(clock') = IF clock.Hour = 23 /\ clock'.Hour = 0 THEN NextDate(clock) ELSE Date(clock)]_vars

(* The stopwatch is one: each press of S starts it, pauses it or goes on,
   whatever was pressed before and however the modes were toggled meanwhile;
   each sample of a running one counts once through four fields, those taken
   while the clock is on the screen included; and it is cleared by the first
   sample after a stop and only then.  The two exceptions of Stopwatch, a
   restart that no sample has seen the stop before and a start that no sample
   has seen open, are what StopWatch.c:25-57 does. *)
Samples(t) == t.Ms \div Step + (MsWrap \div Step) * (t.Secs + SecsWrap * (t.Mins + MinsWrap * t.Hrs))
Phase == IF Running THEN "running"
         ELSE IF ReceiveType.StopWatchOperation = "PAUSE" THEN "paused" ELSE "stopped"
AbstractStopwatch == INSTANCE Stopwatch WITH
    Cycle <- (MsWrap \div Step) * SecsWrap * MinsWrap * HrsWrap,
    phase <- Phase, open <- ~Normal, awake <- Stopwatch_On, total <- Samples(SW_Time)
IsStopwatch == AbstractStopwatch!Spec
=============================================================================
