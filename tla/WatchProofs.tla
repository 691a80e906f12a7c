----------------------------- MODULE WatchProofs -----------------------------
(***************************************************************************)
(* Proofs about the watch, for every start that is a moment of a day that  *)
(* exists and every set of commands.  WatchInv says how far out of range an *)
(* edit leaves the fields, which is what the five carries of the next      *)
(* refresh can bring back; with it the screen is valid.  The stopwatch     *)
(* keeps a reading of four wheels, each in its range (TimeHeld), and the   *)
(* count of presses says what is pressed next (PressHeld).                 *)
(* A u16 is a set without an interval (the SMT backend lists an interval   *)
(* of constants element by element).                                       *)
(***************************************************************************)
EXTENDS Watch, TLAPS

(* Any record of six numbers of the clock.                                 *)
U16s == {n \in Nat : n <= 65535}
Clocks == [Year : U16s, Month : U16s, Day : U16s, Hour : U16s, Minuts : U16s, Second : U16s]

(* What a u16 holds.                                                       *)
LEMMA U16Is == \A n : n \in U16s <=> n \in Nat /\ n <= 65535
  BY DEF U16s

(* A number below the largest is counted on.                               *)
LEMMA U8Next == ASSUME NEW n \in U16s, n < 255 PROVE U8(n + 1) = n + 1
  BY DEF U8, U16s

(* What is kept of a number fits.                                          *)
LEMMA U16Type == ASSUME NEW n \in Nat PROVE U16(n) \in U16s /\ U8(n) \in U16s
  BY DEF U16, U8, U16s

(* The year is a u16, every other field a u8.                              *)
LEMMA WrappedIs == \A f, n : Wrapped(f, n) = IF f = "Year" THEN U16(n) ELSE U8(n)
  BY DEF Wrapped

(* A carry adds one to its neighbour, unless that is being edited, and     *)
(* leaves the rest.                                                        *)
LEMMA BumpIs ==
    ASSUME NEW c \in Clocks, NEW flags, NEW f \in Fields
    PROVE  /\ Bump(c, f, flags) \in Clocks
           /\ Bump(c, f, flags)[f] = IF f \in flags THEN c[f] ELSE Wrapped(f, c[f] + 1)
           /\ \A g \in Fields \ {f} : Bump(c, f, flags)[g] = c[g]
<1>1. c[f] \in Nat /\ Wrapped(f, c[f] + 1) \in U16s
  <2>1. c[f] \in U16s
    <3>1. f \in {"Year", "Month", "Day", "Hour", "Minuts", "Second"}
      BY DEF Fields
    <3> QED BY <3>1 DEF Clocks
  <2>2. c[f] \in Nat
    BY <2>1, U16Is
  <2> QED BY <2>2, U16Type, WrappedIs
<1>2. CASE f \in flags
  BY <1>2 DEF Bump
<1>3. CASE f \notin flags
  <2>1. Bump(c, f, flags) = [c EXCEPT ![f] = Wrapped(f, c[f] + 1)]
    BY <1>3 DEF Bump
  <2> QED BY <1>1, <1>3, <2>1 DEF Clocks, Fields
<1> QED BY <1>2, <1>3

(* A minute is carried out of the seconds.                                 *)
LEMMA CarrySecondIs ==
    ASSUME NEW c \in Clocks, NEW flags
    PROVE  LET n == CarrySecond(c, flags)
           IN  /\ n \in Clocks
               /\ n.Second = IF c.Second > 59 THEN c.Second - 59 ELSE c.Second
               /\ n.Minuts = IF c.Second > 59 /\ "Minuts" \notin flags THEN U8(c.Minuts + 1) ELSE c.Minuts
               /\ n.Hour = c.Hour /\ n.Day = c.Day /\ n.Month = c.Month /\ n.Year = c.Year
<1>1. CASE c.Second > 59
  <2> DEFINE d == [c EXCEPT !.Second = @ - 59]
  <2>1. CarrySecond(c, flags) = Bump(d, "Minuts", flags)
    BY <1>1 DEF CarrySecond
  <2>2. /\ d \in Clocks
        /\ d.Second = c.Second - 59 /\ d.Minuts = c.Minuts
        /\ d.Hour = c.Hour /\ d.Day = c.Day /\ d.Month = c.Month /\ d.Year = c.Year
    <3>1. c.Second \in U16s
      BY DEF Clocks
    <3>2. c.Second - 59 \in U16s
      BY <1>1, <3>1, U16Is
    <3> QED BY <3>2 DEF Clocks
  <2> HIDE DEF d
  <2> QED BY <1>1, <2>1, <2>2, BumpIs, WrappedIs DEF Fields
<1>2. CASE ~(c.Second > 59)
  BY <1>2 DEF CarrySecond
<1> QED BY <1>1, <1>2

(* An hour is carried out of the minutes.                                  *)
LEMMA CarryMinuteIs ==
    ASSUME NEW c \in Clocks, NEW flags
    PROVE  LET n == CarryMinute(c, flags)
           IN  /\ n \in Clocks
               /\ n.Minuts = IF c.Minuts > 59 THEN c.Minuts - 59 ELSE c.Minuts
               /\ n.Hour = IF c.Minuts > 59 /\ "Hour" \notin flags THEN U8(c.Hour + 1) ELSE c.Hour
               /\ n.Second = c.Second /\ n.Day = c.Day /\ n.Month = c.Month /\ n.Year = c.Year
<1>1. CASE c.Minuts > 59
  <2> DEFINE d == [c EXCEPT !.Minuts = @ - 59]
  <2>1. CarryMinute(c, flags) = Bump(d, "Hour", flags)
    BY <1>1 DEF CarryMinute
  <2>2. /\ d \in Clocks
        /\ d.Minuts = c.Minuts - 59 /\ d.Hour = c.Hour
        /\ d.Second = c.Second /\ d.Day = c.Day /\ d.Month = c.Month /\ d.Year = c.Year
    <3>1. c.Minuts \in U16s
      BY DEF Clocks
    <3>2. c.Minuts - 59 \in U16s
      BY <1>1, <3>1, U16Is
    <3> QED BY <3>2 DEF Clocks
  <2> HIDE DEF d
  <2> QED BY <1>1, <2>1, <2>2, BumpIs, WrappedIs DEF Fields
<1>2. CASE ~(c.Minuts > 59)
  BY <1>2 DEF CarryMinute
<1> QED BY <1>1, <1>2

(* A day is carried out of the hours.                                      *)
LEMMA CarryHourIs ==
    ASSUME NEW c \in Clocks, NEW flags
    PROVE  LET n == CarryHour(c, flags)
           IN  /\ n \in Clocks
               /\ n.Hour = IF c.Hour > 23 THEN 0 ELSE c.Hour
               /\ n.Day = IF c.Hour > 23 /\ "Day" \notin flags THEN U8(c.Day + 1) ELSE c.Day
               /\ n.Second = c.Second /\ n.Minuts = c.Minuts /\ n.Month = c.Month /\ n.Year = c.Year
<1>1. CASE c.Hour > 23
  <2> DEFINE d == [c EXCEPT !.Hour = 0]
  <2>1. CarryHour(c, flags) = Bump(d, "Day", flags)
    BY <1>1 DEF CarryHour
  <2>2. /\ d \in Clocks
        /\ d.Hour = 0 /\ d.Day = c.Day
        /\ d.Second = c.Second /\ d.Minuts = c.Minuts /\ d.Month = c.Month /\ d.Year = c.Year
    <3>1. 0 \in U16s
      BY U16Is
    <3> QED BY <3>1 DEF Clocks
  <2> HIDE DEF d
  <2> QED BY <1>1, <2>1, <2>2, BumpIs, WrappedIs DEF Fields
<1>2. CASE ~(c.Hour > 23)
  BY <1>2 DEF CarryHour
<1> QED BY <1>1, <1>2

(* A month is carried out of the days, but not out of February: its month  *)
(* is compared with NO_EDIT, and stays (DisplayMode.c:145, 155).           *)
LEMMA CarryDayIs ==
    ASSUME NEW c \in Clocks, NEW flags
    PROVE  LET n == CarryDay(c, flags)
               over == c.Day > DaysIn(c.Year, c.Month)
           IN  /\ n \in Clocks
               /\ n.Day = IF over THEN 1 ELSE c.Day
               /\ n.Month = IF over /\ c.Month # 2 /\ "Month" \notin flags THEN U8(c.Month + 1)
                            ELSE c.Month
               /\ n.Second = c.Second /\ n.Minuts = c.Minuts /\ n.Hour = c.Hour /\ n.Year = c.Year
<1> DEFINE d == [c EXCEPT !.Day = 1]
<1>1. /\ d \in Clocks
      /\ d.Day = 1 /\ d.Month = c.Month
      /\ d.Second = c.Second /\ d.Minuts = c.Minuts /\ d.Hour = c.Hour /\ d.Year = c.Year
  <2>1. 1 \in U16s
    BY U16Is
  <2> QED BY <2>1 DEF Clocks
<1>2. CASE ~(c.Day > DaysIn(c.Year, c.Month))
  BY <1>2 DEF CarryDay, CarryFebruary, DaysIn
<1>3. CASE c.Day > DaysIn(c.Year, c.Month) /\ c.Month = 2
  <2>1. CarryDay(c, flags) = d
    <3>1. CarryDay(c, flags) = [[c EXCEPT !.Day = 1] EXCEPT !.Month = c.Month]
      BY <1>3 DEF CarryDay, CarryFebruary, DaysIn, NO_EDIT
    <3>2. [d EXCEPT !.Month = c.Month] = d
      BY <1>1 DEF Clocks
    <3> QED BY <3>1, <3>2
  <2> HIDE DEF d
  <2> QED BY <1>1, <1>3, <2>1
<1>4. CASE c.Day > DaysIn(c.Year, c.Month) /\ c.Month # 2
  <2>1. CarryDay(c, flags) = Bump(d, "Month", flags)
    BY <1>4 DEF CarryDay, DaysIn
  <2> HIDE DEF d
  <2> QED BY <1>1, <1>4, <2>1, BumpIs, WrappedIs DEF Fields
<1> QED BY <1>2, <1>3, <1>4

(* A year is carried out of the months.                                    *)
LEMMA CarryMonthIs ==
    ASSUME NEW c \in Clocks, NEW flags
    PROVE  LET n == CarryMonth(c, flags)
           IN  /\ n \in Clocks
               /\ n.Month = IF c.Month > 12 THEN 1 ELSE c.Month
               /\ n.Year = IF c.Month > 12 /\ "Year" \notin flags THEN U16(c.Year + 1) ELSE c.Year
               /\ n.Second = c.Second /\ n.Minuts = c.Minuts /\ n.Hour = c.Hour /\ n.Day = c.Day
<1>1. CASE c.Month > 12
  <2> DEFINE d == [c EXCEPT !.Month = 1]
  <2>1. CarryMonth(c, flags) = Bump(d, "Year", flags)
    BY <1>1 DEF CarryMonth
  <2>2. /\ d \in Clocks
        /\ d.Month = 1 /\ d.Year = c.Year
        /\ d.Second = c.Second /\ d.Minuts = c.Minuts /\ d.Hour = c.Hour /\ d.Day = c.Day
    <3>1. 1 \in U16s
      BY U16Is
    <3> QED BY <3>1 DEF Clocks
  <2> HIDE DEF d
  <2> QED BY <1>1, <2>1, <2>2, BumpIs, WrappedIs DEF Fields
<1>2. CASE ~(c.Month > 12)
  BY <1>2 DEF CarryMonth
<1> QED BY <1>1, <1>2

(* What any number of fields can be edited to, and be counted up by one.   *)
Bounded(c) == /\ c.Month \in 1 .. 22 /\ c.Day \in 1 .. 41
              /\ c.Hour <= 33 /\ c.Minuts <= 69

(* The length of a month.                                                  *)
LEMMA DaysInType ==
    ASSUME NEW y, NEW m PROVE DaysIn(y, m) \in {28, 29, 30, 31} /\ (m > 12 => DaysIn(y, m) = 31)
  BY DEF DaysIn

(* The five carries, each from what the one before it left.                *)
Carries(c, c1, c2, c3, c4, n, flags) ==
    /\ {c1, c2, c3, c4, n} \subseteq Clocks
    /\ c1.Second = IF c.Second > 59 THEN c.Second - 59 ELSE c.Second
    /\ c1.Minuts = IF c.Second > 59 /\ "Minuts" \notin flags THEN U8(c.Minuts + 1) ELSE c.Minuts
    /\ c1.Hour = c.Hour /\ c1.Day = c.Day /\ c1.Month = c.Month /\ c1.Year = c.Year
    /\ c2.Minuts = IF c1.Minuts > 59 THEN c1.Minuts - 59 ELSE c1.Minuts
    /\ c2.Hour = IF c1.Minuts > 59 /\ "Hour" \notin flags THEN U8(c1.Hour + 1) ELSE c1.Hour
    /\ c2.Second = c1.Second /\ c2.Day = c1.Day /\ c2.Month = c1.Month /\ c2.Year = c1.Year
    /\ c3.Hour = IF c2.Hour > 23 THEN 0 ELSE c2.Hour
    /\ c3.Day = IF c2.Hour > 23 /\ "Day" \notin flags THEN U8(c2.Day + 1) ELSE c2.Day
    /\ c3.Second = c2.Second /\ c3.Minuts = c2.Minuts /\ c3.Month = c2.Month /\ c3.Year = c2.Year
    /\ c4.Day = IF c3.Day > DaysIn(c3.Year, c3.Month) THEN 1 ELSE c3.Day
    /\ c4.Month = IF c3.Day > DaysIn(c3.Year, c3.Month) /\ c3.Month # 2 /\ "Month" \notin flags
                  THEN U8(c3.Month + 1) ELSE c3.Month
    /\ c4.Second = c3.Second /\ c4.Minuts = c3.Minuts /\ c4.Hour = c3.Hour /\ c4.Year = c3.Year
    /\ n.Month = IF c4.Month > 12 THEN 1 ELSE c4.Month
    /\ n.Year = IF c4.Month > 12 /\ "Year" \notin flags THEN U16(c4.Year + 1) ELSE c4.Year
    /\ n.Second = c4.Second /\ n.Minuts = c4.Minuts /\ n.Hour = c4.Hour /\ n.Day = c4.Day

(* Carried is those five.                                                  *)
LEMMA CarriedIs ==
    ASSUME NEW c \in Clocks, NEW flags
    PROVE  \E c1, c2, c3, c4 \in Clocks : Carries(c, c1, c2, c3, c4, Carried(c, flags), flags)
<1> DEFINE c1 == CarrySecond(c, flags)
           c2 == CarryMinute(c1, flags)
           c3 == CarryHour(c2, flags)
           c4 == CarryDay(c3, flags)
           c5 == CarryMonth(c4, flags)
<1>0. Carried(c, flags) = c5
  BY DEF Carried
<1>1. /\ c1 \in Clocks
      /\ c1.Second = IF c.Second > 59 THEN c.Second - 59 ELSE c.Second
      /\ c1.Minuts = IF c.Second > 59 /\ "Minuts" \notin flags THEN U8(c.Minuts + 1) ELSE c.Minuts
      /\ c1.Hour = c.Hour /\ c1.Day = c.Day /\ c1.Month = c.Month /\ c1.Year = c.Year
  BY CarrySecondIs
<1> HIDE DEF c1
<1>2. /\ c2 \in Clocks
      /\ c2.Minuts = IF c1.Minuts > 59 THEN c1.Minuts - 59 ELSE c1.Minuts
      /\ c2.Hour = IF c1.Minuts > 59 /\ "Hour" \notin flags THEN U8(c1.Hour + 1) ELSE c1.Hour
      /\ c2.Second = c1.Second /\ c2.Day = c1.Day /\ c2.Month = c1.Month /\ c2.Year = c1.Year
  BY <1>1, CarryMinuteIs
<1> HIDE DEF c2
<1>3. /\ c3 \in Clocks
      /\ c3.Hour = IF c2.Hour > 23 THEN 0 ELSE c2.Hour
      /\ c3.Day = IF c2.Hour > 23 /\ "Day" \notin flags THEN U8(c2.Day + 1) ELSE c2.Day
      /\ c3.Second = c2.Second /\ c3.Minuts = c2.Minuts /\ c3.Month = c2.Month /\ c3.Year = c2.Year
  BY <1>2, CarryHourIs
<1> HIDE DEF c3
<1>4. /\ c4 \in Clocks
      /\ c4.Day = IF c3.Day > DaysIn(c3.Year, c3.Month) THEN 1 ELSE c3.Day
      /\ c4.Month = IF c3.Day > DaysIn(c3.Year, c3.Month) /\ c3.Month # 2 /\ "Month" \notin flags
                    THEN U8(c3.Month + 1) ELSE c3.Month
      /\ c4.Second = c3.Second /\ c4.Minuts = c3.Minuts /\ c4.Hour = c3.Hour /\ c4.Year = c3.Year
  BY <1>3, CarryDayIs
<1> HIDE DEF c4
<1>5. /\ c5 \in Clocks
      /\ c5.Month = IF c4.Month > 12 THEN 1 ELSE c4.Month
      /\ c5.Year = IF c4.Month > 12 /\ "Year" \notin flags THEN U16(c4.Year + 1) ELSE c4.Year
      /\ c5.Second = c4.Second /\ c5.Minuts = c4.Minuts /\ c5.Hour = c4.Hour /\ c5.Day = c4.Day
  BY <1>4, CarryMonthIs
<1> HIDE DEF c5
<1>6. Carries(c, c1, c2, c3, c4, c5, flags)
  BY <1>1, <1>2, <1>3, <1>4, <1>5 DEF Carries
<1> QED BY <1>0, <1>1, <1>2, <1>3, <1>4, <1>6

(* The carries leave a moment that exists, whatever was edited into the    *)
(* fields and whichever of them hold back a carry.                         *)
LEMMA CarriedExists ==
    ASSUME NEW c \in Clocks, NEW flags, Bounded(c)
    PROVE  LET n == Carried(c, flags)
           IN  /\ n \in Clocks /\ Exists(n)
               /\ n.Second = IF c.Second > 59 THEN c.Second - 59 ELSE c.Second
<1> DEFINE n == Carried(c, flags)
<1>1. PICK c1, c2, c3, c4 \in Clocks : Carries(c, c1, c2, c3, c4, n, flags)
  BY CarriedIs
<1> HIDE DEF n
<1>2. \A d \in {c, c1, c2, c3, c4, n} : /\ d.Second \in Nat /\ d.Minuts \in Nat /\ d.Hour \in Nat
                                        /\ d.Day \in Nat /\ d.Month \in Nat /\ d.Year \in Nat
  BY <1>1, U16Is DEF Carries, Clocks
<1>3. /\ U8(c.Minuts + 1) = c.Minuts + 1
  BY <1>2, U16Is, U8Next DEF Bounded
<1>4. c2.Minuts <= 59
  BY <1>1, <1>2, <1>3 DEF Bounded, Carries
<1>5. c1.Hour <= 33 /\ U8(c1.Hour + 1) = c1.Hour + 1
  BY <1>1, <1>2, U16Is, U8Next DEF Bounded, Carries
<1>6. c3.Hour <= 23
  BY <1>1, <1>2, <1>5 DEF Carries
<1>7. c2.Day \in 1 .. 41 /\ U8(c2.Day + 1) = c2.Day + 1
  BY <1>1, <1>2, U16Is, U8Next DEF Bounded, Carries
<1>8. c3.Day \in 1 .. 42
  BY <1>1, <1>2, <1>7 DEF Carries
<1>9. c3.Month \in 1 .. 22 /\ U8(c3.Month + 1) = c3.Month + 1
  BY <1>1, <1>2, U16Is, U8Next DEF Bounded, Carries
<1>10. n.Month \in 1 .. 12
  BY <1>1, <1>2, <1>9 DEF Carries
<1>11. n.Day \in 1 .. DaysIn(n.Year, n.Month)
  <2>1. c4.Day \in 1 .. DaysIn(c3.Year, c3.Month)
    BY <1>1, <1>2, <1>8, DaysInType DEF Carries
  <2>2. CASE c4.Month > 12
    <3>1. n.Month = 1 /\ DaysIn(n.Year, 1) = 31
      BY <1>1, <2>2 DEF Carries, DaysIn
    <3> QED BY <1>1, <1>2, <2>1, <3>1, DaysInType DEF Carries
  <2>3. CASE ~(c4.Month > 12)
    <3>1. n.Month = c4.Month /\ n.Year = c3.Year
      BY <1>1, <2>3 DEF Carries
    <3>2. CASE c4.Month = c3.Month
      BY <1>1, <2>1, <3>1, <3>2 DEF Carries
    <3>3. CASE c4.Month # c3.Month
      <4>1. n.Day = 1
        BY <1>1, <3>3 DEF Carries
      <4> QED BY <4>1, DaysInType
    <3> QED BY <3>2, <3>3
  <2> QED BY <2>2, <2>3
<1>12. n.Hour <= 23 /\ n.Minuts <= 59 /\ n.Second = IF c.Second > 59 THEN c.Second - 59 ELSE c.Second
  BY <1>1, <1>4, <1>6 DEF Carries
<1>13. n \in Clocks
  BY <1>1 DEF Carries
<1> QED BY <1>10, <1>11, <1>12, <1>13 DEF Exists, n

(* A field in range that is being edited is left alone.                    *)
LEMMA CarriedHeld ==
    ASSUME NEW c \in Clocks, NEW flags, NEW f \in flags, f \in Fields, InRange(c, f)
    PROVE  Carried(c, flags)[f] = c[f]
<1> DEFINE n == Carried(c, flags)
<1>1. PICK c1, c2, c3, c4 \in Clocks : Carries(c, c1, c2, c3, c4, n, flags)
  BY CarriedIs
<1> HIDE DEF n
<1>2. /\ c.Second \in Nat /\ c.Minuts \in Nat /\ c.Hour \in Nat
      /\ c.Day \in Nat /\ c.Month \in Nat /\ c.Year \in Nat
  BY U16Is DEF Clocks
<1>3. CASE f = "Second"
  BY <1>1, <1>2, <1>3 DEF Carries, InRange, n
<1>4. CASE f = "Minuts"
  BY <1>1, <1>2, <1>4 DEF Carries, InRange, n
<1>5. CASE f = "Hour"
  BY <1>1, <1>2, <1>5 DEF Carries, InRange, n
<1>6. CASE f = "Day"
  <2>1. c.Day <= DaysIn(c.Year, c.Month)
    BY <1>6 DEF InRange
  <2>2. c3.Day = c.Day /\ c3.Year = c.Year /\ c3.Month = c.Month
    BY <1>1, <1>6 DEF Carries
  <2>3. n.Day = c.Day
    BY <1>1, <1>2, <2>1, <2>2, DaysInType DEF Carries
  <2> QED BY <1>6, <2>3 DEF n
<1>7. CASE f = "Month"
  <2>1. c.Month <= 12
    BY <1>7 DEF InRange
  <2> QED BY <1>1, <1>2, <1>7, <2>1 DEF Carries, n
<1>8. CASE f = "Year"
  BY <1>1, <1>8 DEF Carries, n
<1> QED BY <1>3, <1>4, <1>5, <1>6, <1>7, <1>8 DEF Fields, n

(* With nothing edited, the date follows the calendar, but at the end of   *)
(* February.                                                               *)
LEMMA CarriedFollows ==
    ASSUME NEW c \in Clocks, Exists(c), ~FebruaryEnds(c)
    PROVE  LET n == Carried(c, {})
           IN  Date(n) = IF c.Hour = 23 /\ n.Hour = 0 THEN NextDate(c) ELSE Date(c)
<1> DEFINE n == Carried(c, {})
<1>1. PICK c1, c2, c3, c4 \in Clocks : Carries(c, c1, c2, c3, c4, n, {})
  BY CarriedIs
<1> HIDE DEF n
<1>2. \A d \in {c, c1, c2, c3, c4, n} : /\ d.Second \in Nat /\ d.Minuts \in Nat /\ d.Hour \in Nat
                                        /\ d.Day \in Nat /\ d.Month \in Nat /\ d.Year \in Nat
  BY <1>1, U16Is DEF Carries, Clocks
<1>3. c1.Hour <= 23 /\ U8(c1.Hour + 1) = c1.Hour + 1
  BY <1>1, <1>2, U16Is, U8Next DEF Exists, Carries
<1>4. c2.Hour > 23 <=> c.Hour = 23 /\ n.Hour = 0
  BY <1>1, <1>2, <1>3 DEF Carries
<1>5. /\ c2.Day = c.Day /\ c.Day \in 1 .. 31 /\ U8(c2.Day + 1) = c.Day + 1
      /\ c.Day <= DaysIn(c.Year, c.Month)
      /\ c3.Year = c.Year /\ c3.Month = c.Month /\ c4.Year = c.Year
      /\ c.Month \in 1 .. 12 /\ U8(c.Month + 1) = c.Month + 1
  <2>1. /\ c2.Day = c.Day /\ c3.Year = c.Year /\ c3.Month = c.Month /\ c4.Year = c.Year
    BY <1>1 DEF Carries
  <2>2. c.Day \in 1 .. 31 /\ c.Day <= DaysIn(c.Year, c.Month) /\ c.Month \in 1 .. 12
    BY DaysInType DEF Exists
  <2>3. U8(c.Day + 1) = c.Day + 1 /\ U8(c.Month + 1) = c.Month + 1
    BY <2>2, U16Is, U8Next
  <2> QED BY <2>1, <2>2, <2>3
<1>6. CASE ~(c2.Hour > 23)
  <2>1. n.Day = c.Day /\ n.Month = c.Month /\ n.Year = c.Year
    BY <1>1, <1>2, <1>5, <1>6, DaysInType DEF Carries
  <2> QED BY <1>4, <1>6, <2>1 DEF Date, n
<1>7. CASE c2.Hour > 23
  <2>1. c3.Day = c.Day + 1
    BY <1>1, <1>5, <1>7 DEF Carries
  <2>2. CASE c.Day < DaysIn(c.Year, c.Month)
    <3>1. n.Day = c.Day + 1 /\ n.Month = c.Month /\ n.Year = c.Year
      BY <1>1, <1>2, <1>5, <2>1, <2>2, DaysInType DEF Carries
    <3> QED BY <1>4, <1>7, <2>2, <3>1 DEF Date, NextDate, n
  <2>3. CASE ~(c.Day < DaysIn(c.Year, c.Month))
    <3>1. c.Day = DaysIn(c.Year, c.Month)
      BY <1>5, <2>3, DaysInType
    <3>2. c.Month # 2
      BY <3>1 DEF FebruaryEnds
    <3>3. c4.Day = 1 /\ c4.Month = c.Month + 1
      BY <1>1, <1>2, <1>5, <2>1, <3>1, <3>2, DaysInType DEF Carries
    <3>4. CASE c.Month < 12
      <4>1. n.Day = 1 /\ n.Month = c.Month + 1 /\ n.Year = c.Year
        BY <1>1, <1>2, <1>5, <3>3, <3>4 DEF Carries
      <4> QED BY <1>4, <1>7, <2>3, <3>4, <4>1 DEF Date, NextDate, n
    <3>5. CASE ~(c.Month < 12)
      <4>1. n.Day = 1 /\ n.Month = 1 /\ n.Year = U16(c.Year + 1)
        BY <1>1, <1>2, <1>5, <3>3, <3>5 DEF Carries
      <4> QED BY <1>4, <1>7, <2>3, <3>5, <4>1 DEF Date, NextDate, n
    <3> QED BY <3>4, <3>5
  <2> QED BY <2>2, <2>3
<1> QED BY <1>6, <1>7 DEF n

----------------------------------------------------------------------------
(* The editor *)

Cursors == (0 .. 1) \X (0 .. 15)

(* A digit is one of a field, and only years have hundreds.                *)
LEMMA DigitIs ==
    /\ \A p \in DOMAIN Digit : /\ Digit[p].field \in Fields
                               /\ Digit[p].weight \in {1, 10, 100, 1000}
                               /\ Digit[p].field # "Year" => Digit[p].weight \in {1, 10}
    /\ Digit[<<0, 9>>] = [field |-> "Year", weight |-> 1]
    /\ Digit[<<0, 12>>] = [field |-> "Month", weight |-> 1]
    /\ Digit[<<0, 15>>] = [field |-> "Day", weight |-> 1]
<1>1. ASSUME NEW p \in DOMAIN Digit
      PROVE  /\ Digit[p].field \in Fields
             /\ Digit[p].weight \in {1, 10, 100, 1000}
             /\ Digit[p].field # "Year" => Digit[p].weight \in {1, 10}
  <2>1. CASE p[1] = 0
    BY <2>1 DEF Digit, Fields
  <2>2. CASE p[1] # 0
    BY <2>2 DEF Digit, Fields
  <2> QED BY <2>1, <2>2
<1>2. Digit[<<0, 9>>] = [field |-> "Year", weight |-> 1]
  BY DEF Digit
<1>3. Digit[<<0, 12>>] = [field |-> "Month", weight |-> 1]
  BY DEF Digit
<1>4. Digit[<<0, 15>>] = [field |-> "Day", weight |-> 1]
  BY DEF Digit
<1> QED BY <1>1, <1>2, <1>3, <1>4

(* The field under the cursor is a field.                                  *)
LEMMA FieldAtIs == \A p : FieldAt(p) \subseteq Fields
  BY DigitIs DEF FieldAt

(* The cursor stays on the display, and an operation on a digit leaves it. *)
LEMMA MovedIs ==
    ASSUME NEW p \in Cursors, NEW op
    PROVE  /\ Moved(p, op) \in Cursors
           /\ op \in {"INCREASE", "DECREASE", "NO_ACTION", "EDIT_MODE_OK"} => Moved(p, op) = p
<1>1. CASE op \in {"UP", "DOWN"}
  BY <1>1 DEF Moved, OtherRow, Cursors
<1>2. CASE op = "RIGHT"
  BY <1>2 DEF Moved, OtherRow, Cursors
<1>3. CASE op = "LEFT"
  BY <1>3 DEF Moved, OtherRow, Cursors
<1>4. CASE op \notin {"UP", "DOWN", "RIGHT", "LEFT"}
  BY <1>4 DEF Moved
<1> QED BY <1>1, <1>2, <1>3, <1>4

(* What a field holds after it was edited: by no more than the weight of   *)
(* its tens it is off.                                                     *)
Edited(f, v, second) ==
    /\ v \in Nat /\ v <= 65535
    /\ f = "Month" => v >= 1 /\ v <= 22
    /\ f = "Day" => v >= 1 /\ v <= 41
    /\ f = "Hour" => v <= 33
    /\ f = "Minuts" => v <= 69
    /\ f = "Second" => v <= 255 /\ (second <= 59 => v <= 69)

(* One edited field of a moment that exists.                               *)
LEMMA EditedIs ==
    ASSUME NEW c \in Clocks, Exists(c), c.Second <= 255,
           NEW f \in Fields, NEW v, Edited(f, v, c.Second),
           NEW n, n = [c EXCEPT ![f] = v]
    PROVE  /\ n \in Clocks /\ Bounded(n)
           /\ n.Second <= 255 /\ (c.Second <= 59 => n.Second <= 69)
<1>1. n \in Clocks
  <2>1. v \in U16s
    BY U16Is DEF Edited
  <2> QED BY <2>1 DEF Clocks
<1>2. \A g \in Fields : n[g] = IF g = f THEN v ELSE c[g]
  BY DEF Clocks, Fields
<1>3. /\ n.Second = (IF f = "Second" THEN v ELSE c.Second)
      /\ n.Minuts = (IF f = "Minuts" THEN v ELSE c.Minuts)
      /\ n.Hour = (IF f = "Hour" THEN v ELSE c.Hour)
      /\ n.Day = (IF f = "Day" THEN v ELSE c.Day)
      /\ n.Month = (IF f = "Month" THEN v ELSE c.Month)
  BY <1>2 DEF Fields
<1>4. /\ c.Second \in Nat /\ c.Minuts \in Nat /\ c.Hour \in Nat
      /\ c.Day \in 1 .. 31 /\ c.Month \in 1 .. 12 /\ v \in Nat
  BY DaysInType, U16Is DEF Clocks, Exists, Edited
<1>5. n.Month \in 1 .. 22
  BY <1>3, <1>4 DEF Edited
<1>6. n.Day \in 1 .. 41
  BY <1>3, <1>4 DEF Edited
<1>7. n.Hour <= 33
  BY <1>3, <1>4 DEF Edited, Exists
<1>8. n.Minuts <= 69
  BY <1>3, <1>4 DEF Edited, Exists
<1>9. n.Second <= 255 /\ (c.Second <= 59 => n.Second <= 69)
  BY <1>3, <1>4 DEF Edited
<1> QED BY <1>1, <1>5, <1>6, <1>7, <1>8, <1>9 DEF Bounded

(* An operation changes the field under the cursor, and that by no more    *)
(* than it weighs.                                                         *)
LEMMA ChangedIs ==
    ASSUME NEW c \in Clocks, Exists(c), c.Second <= 255, NEW p, NEW op,
           NEW n, n = Changed(c, p, op)
    PROVE  /\ n \in Clocks /\ Bounded(n)
           /\ n.Second <= 255 /\ (c.Second <= 59 => n.Second <= 69)
           /\ op \notin {"INCREASE", "DECREASE"} \/ FieldAt(p) = {} => n = c
<1>1. /\ c.Second \in Nat /\ c.Minuts \in Nat /\ c.Hour \in Nat /\ c.Year \in Nat /\ c.Year <= 65535
      /\ c.Day \in 1 .. 31 /\ c.Month \in 1 .. 12 /\ c.Hour <= 23 /\ c.Minuts <= 59
  BY DaysInType, U16Is DEF Clocks, Exists
<1>2. ASSUME n = c
      PROVE  /\ n \in Clocks /\ Bounded(n)
             /\ n.Second <= 255 /\ (c.Second <= 59 => n.Second <= 69)
  BY <1>1, <1>2 DEF Bounded
<1>3. CASE p \notin DOMAIN Digit \/ op \notin {"INCREASE", "DECREASE"}
  <2>1. n = c
    BY <1>3 DEF Changed
  <2> QED BY <1>2, <2>1
<1>4. CASE p \in DOMAIN Digit /\ op \in {"INCREASE", "DECREASE"}
  <2> DEFINE f == Digit[p].field
             w == Digit[p].weight
  <2>1. f \in Fields /\ w \in {1, 10, 100, 1000} /\ (f # "Year" => w \in {1, 10})
    BY <1>4, DigitIs
  <2>2. FieldAt(p) # {}
    BY <1>4 DEF FieldAt
  <2>3. n = IF op = "INCREASE" THEN [c EXCEPT ![f] = Wrapped(f, @ + w)]
            ELSE IF MayDecrease(f, c[f], w) THEN [c EXCEPT ![f] = @ - w]
            ELSE c
    BY <1>4 DEF Changed
  <2> HIDE DEF f, w
  <2>4. c[f] \in Nat /\ c[f] <= 65535
    BY <2>1, U16Is DEF Fields, Clocks
  <2>5. SUFFICES ASSUME n # c
                 PROVE  \E v : n = [c EXCEPT ![f] = v] /\ Edited(f, v, c.Second)
    BY <1>2, <1>4, <2>1, <2>2, EditedIs
  <2>6. CASE op = "INCREASE"
    <3> DEFINE v == Wrapped(f, c[f] + w)
    <3>1. n = [c EXCEPT ![f] = v]
      BY <2>3, <2>6
    <3>2. Edited(f, v, c.Second)
      <4>1. CASE f = "Year"
        <5>1. v = U16(c[f] + w) /\ c[f] + w \in Nat
          BY <2>1, <2>4, <4>1 DEF Wrapped
        <5>2. v \in Nat /\ v <= 65535
          BY <5>1, U16Type, U16Is
        <5> QED BY <4>1, <5>2 DEF Edited
      <4>2. CASE f # "Year"
        <5>1. v = U8(c[f] + w) /\ w \in {1, 10}
          BY <2>1, <4>2 DEF Wrapped
        <5>2. v \in Nat /\ v <= c[f] + w /\ v <= 255 /\ (c[f] + w <= 255 => v = c[f] + w)
          BY <2>4, <5>1 DEF U8
        <5> HIDE DEF v
        <5>3. CASE f = "Second"
          BY <1>1, <5>1, <5>2, <5>3 DEF Edited
        <5>4. CASE f \in {"Minuts", "Hour"}
          BY <1>1, <5>1, <5>2, <5>4 DEF Edited
        <5>5. CASE f \in {"Day", "Month"}
          BY <1>1, <5>1, <5>2, <5>5 DEF Edited
        <5> QED BY <2>1, <4>2, <5>3, <5>4, <5>5 DEF Fields
      <4> QED BY <4>1, <4>2
    <3> QED BY <3>1, <3>2
  <2>7. CASE op # "INCREASE"
    <3> DEFINE v == c[f] - w
    <3>1. n = [c EXCEPT ![f] = v] /\ MayDecrease(f, c[f], w)
      BY <2>3, <2>5, <2>7
    <3>2. v \in Nat /\ v <= c[f] /\ (f \in {"Month", "Day"} => v >= 1)
      BY <2>1, <2>4, <3>1 DEF MayDecrease
    <3> HIDE DEF v
    <3>3. Edited(f, v, c.Second)
      <4>1. CASE f = "Second"
        BY <1>1, <2>4, <3>2, <4>1 DEF Edited
      <4>2. CASE f \in {"Minuts", "Hour"}
        BY <1>1, <2>4, <3>2, <4>2 DEF Edited
      <4>3. CASE f \in {"Day", "Month"}
        BY <1>1, <2>4, <3>2, <4>3 DEF Edited
      <4>4. CASE f = "Year"
        BY <2>4, <3>2, <4>4 DEF Edited
      <4> QED BY <2>1, <4>1, <4>2, <4>3, <4>4 DEF Fields
    <3> QED BY <3>1, <3>3
  <2> QED BY <2>6, <2>7
<1> QED BY <1>3, <1>4

----------------------------------------------------------------------------
(* The clock, its editor and the screen *)

Requests == [Mode : {"NORMAL_MODE", "STOP_WATCH_MODE"},
             NormalModeOperation : {"NO_ACTION", "INCREASE", "DECREASE", "UP", "DOWN", "RIGHT", "LEFT",
                                    "EDIT_MODE_OK"},
             StopWatchOperation : {"NO_ACTION", "START", "PAUSE", "CONTINUE", "STOP"},
             NormalModeEdit : {"NO_ACTION", "NORMAL_MODE_EDIT"}]

(* Fields are out of range only while one of them may have been edited, and *)
(* a second beyond what editing reaches has been missed.                    *)
ClockHeld == /\ clock \in Clocks
             /\ Bounded(clock)
             /\ clock.Second <= 255
             /\ ~missed => clock.Second <= 69
             /\ editing = {} => Exists(clock)

WatchTypes == /\ ReceiveType \in Requests
              /\ Local_Count \in Nat
              /\ missed \in BOOLEAN
              /\ editing \subseteq Fields
              /\ cursor \in Cursors

WatchInv == WatchTypes /\ ClockHeld /\ FrozenOnlyWhileEdited /\ ShownValid

(* The state holds initially.                                               *)
LEMMA InitWatchInv == Init => WatchInv
<1> SUFFICES ASSUME Init PROVE WatchInv
  OBVIOUS
<1>1. PICK s \in Starts :
          /\ ReceiveType = [Mode |-> s.mode, NormalModeOperation |-> "NO_ACTION",
                            StopWatchOperation |-> "NO_ACTION", NormalModeEdit |-> "NO_ACTION"]
          /\ clock = s.clock
          /\ cursor = s.cursor
          /\ missed = (s.clock.Second > 59)
  BY DEF Init
<1>2. editing = {} /\ screen.of = "nothing" /\ Local_Count = 1
  BY DEF Init
<1>3. /\ s.mode \in {"NORMAL_MODE", "STOP_WATCH_MODE"}
      /\ cursor \in Cursors
      /\ clock \in [Year : Nat, Month : Nat, Day : Nat, Hour : Nat, Minuts : Nat, Second : Nat]
      /\ Exists(clock) /\ clock.Year <= 65535 /\ clock.Second <= 255
  BY <1>1, StartsAssumption DEF Cursors
<1>4. WatchTypes
  BY <1>1, <1>2, <1>3 DEF WatchTypes, Requests
<1>5. clock.Day \in 1 .. 31 /\ clock.Month \in 1 .. 12 /\ clock.Hour <= 23 /\ clock.Minuts <= 59
  BY <1>3, DaysInType DEF Exists
<1>6. clock \in Clocks
  <2>1. /\ clock.Year \in U16s /\ clock.Month \in U16s /\ clock.Day \in U16s
        /\ clock.Hour \in U16s /\ clock.Minuts \in U16s /\ clock.Second \in U16s
    BY <1>3, <1>5, U16Is
  <2> QED BY <1>3, <2>1 DEF Clocks
<1>7. ~missed => clock.Second <= 69
  <2>1. clock.Second \in Nat /\ (~(clock.Second > 59) => clock.Second <= 69)
    BY <1>3
  <2>2. ~missed => ~(clock.Second > 59)
    BY <1>1, Zenon
  <2> QED BY <2>1, <2>2
<1>8. ClockHeld
  BY <1>3, <1>5, <1>6, <1>7 DEF ClockHeld, Bounded
<1> QED BY <1>2, <1>4, <1>8 DEF WatchInv, FrozenOnlyWhileEdited, ShownValid

(* What is shown of a moment that exists is valid, and its digits stand     *)
(* where the editor looks for them.                                         *)
LEMMA ShownIs ==
    ASSUME NEW c \in Clocks, Exists(c)
    PROVE  /\ Shown(c).value = c
           /\ c.Month \in 1 .. 12
           /\ c.Day \in 1 .. DaysIn(c.Year, c.Month)
           /\ c.Hour \in 0 .. 23
           /\ c.Minuts \in 0 .. 59
           /\ c.Second \in Nat
           /\ c.Year < 10000 => \A f \in {"Year", "Month", "Day"} :
                  Digit[<<0, Shown(c).ends[f]>>] = [field |-> f, weight |-> 1]
<1>1. /\ c.Second \in Nat /\ c.Minuts \in Nat /\ c.Hour \in Nat /\ c.Year \in Nat
      /\ c.Day \in 1 .. 31 /\ c.Month \in 1 .. 12
  BY DaysInType, U16Is DEF Clocks, Exists
<1>2. ASSUME c.Year < 10000
      PROVE  Shown(c).ends = [Year |-> 9, Month |-> 12, Day |-> 15]
  <2>1. YearZeros(c.Year) + Width(c.Year) = 4
    BY <1>1, <1>2 DEF YearZeros, Width
  <2>2. Zeros(c.Month) + Width(c.Month) = 2 /\ Zeros(c.Day) + Width(c.Day) = 2
    BY <1>1 DEF Zeros, Width
  <2>3. /\ YearZeros(c.Year) \in Nat /\ Width(c.Year) \in Nat
        /\ Zeros(c.Month) \in Nat /\ Width(c.Month) \in Nat
        /\ Zeros(c.Day) \in Nat /\ Width(c.Day) \in Nat
    BY DEF YearZeros, Zeros, Width
  <2>4. 5 + YearZeros(c.Year) + Width(c.Year) = 9
    BY <2>1, <2>3
  <2>5. 9 + 1 + Zeros(c.Month) + Width(c.Month) = 12 /\ 12 + 1 + Zeros(c.Day) + Width(c.Day) = 15
    BY <2>2, <2>3
  <2>6. DateLine(c) = [Year |-> 9, Month |-> 12, Day |-> 15]
    BY <2>4, <2>5 DEF DateLine
  <2> QED BY <2>6 DEF Shown
<1>3. ASSUME c.Year < 10000, NEW f \in {"Year", "Month", "Day"}
      PROVE  Digit[<<0, Shown(c).ends[f]>>] = [field |-> f, weight |-> 1]
  BY <1>2, <1>3, DigitIs
<1>4. Shown(c).value = c
  BY DEF Shown
<1> QED BY <1>1, <1>3, <1>4 DEF Exists

(* A second is counted, and nothing else.                                   *)
LEMMA CountedIs ==
    ASSUME WatchTypes, ClockHeld
    PROVE  /\ Counted \in Clocks /\ Bounded(Counted) /\ Counted.Second <= 255
           /\ Counted.Year = clock.Year /\ Counted.Month = clock.Month /\ Counted.Day = clock.Day
           /\ Counted.Hour = clock.Hour /\ Counted.Minuts = clock.Minuts
           /\ Counted.Second = (IF "Second" \in editing THEN clock.Second ELSE U8(clock.Second + 1))
           /\ ~missed => Counted.Second <= 70
<1>1. clock \in Clocks /\ clock.Second \in Nat
  BY U16Is DEF ClockHeld, Clocks
<1>2. CASE "Second" \in editing
  <2>1. Counted = clock
    BY <1>2 DEF Counted
  <2> QED BY <1>1, <1>2, <2>1 DEF ClockHeld
<1>3. CASE "Second" \notin editing
  <2> DEFINE s == U8(clock.Second + 1)
  <2>1. Counted = [clock EXCEPT !.Second = s]
    BY <1>3 DEF Counted
  <2>2. s \in Nat /\ s <= 255 /\ s <= clock.Second + 1
    BY <1>1 DEF U8
  <2>3. s \in U16s
    BY <2>2, U16Is
  <2> HIDE DEF s
  <2>4. /\ Counted \in Clocks /\ Counted.Second = s
        /\ Counted.Year = clock.Year /\ Counted.Month = clock.Month /\ Counted.Day = clock.Day
        /\ Counted.Hour = clock.Hour /\ Counted.Minuts = clock.Minuts
    BY <1>1, <2>1, <2>3 DEF Clocks
  <2>5. Bounded(Counted)
    BY <2>4 DEF Bounded, ClockHeld
  <2>6. ~missed => s <= 70
    BY <1>1, <2>2 DEF ClockHeld
  <2>7. s = U8(clock.Second + 1)
    BY DEF s
  <2> QED BY <1>3, <2>2, <2>4, <2>5, <2>6, <2>7
<1> QED BY <1>2, <1>3

(* The moment a refresh shows.                                              *)
LEMMA NowIs ==
    ASSUME WatchTypes, ClockHeld, NEW now, now = Carried(Counted, Flags)
    PROVE  /\ now \in Clocks /\ Exists(now) /\ Bounded(now) /\ now.Second <= 255
           /\ ~missed => now.Second <= 59
<1>1. Counted \in Clocks /\ Bounded(Counted) /\ Counted.Second <= 255 /\ (~missed => Counted.Second <= 70)
  BY CountedIs
<1>2. Counted.Second \in Nat
  BY <1>1, U16Is DEF Clocks
<1>3. /\ now \in Clocks /\ Exists(now)
      /\ now.Second = IF Counted.Second > 59 THEN Counted.Second - 59 ELSE Counted.Second
  BY <1>1, CarriedExists
<1>4. Bounded(now)
  <2>1. /\ now.Hour \in Nat /\ now.Minuts \in Nat /\ now.Hour <= 23 /\ now.Minuts <= 59
        /\ now.Month \in 1 .. 12 /\ now.Day \in 1 .. 31
    BY <1>3, U16Is, DaysInType DEF Clocks, Exists
  <2> QED BY <2>1 DEF Bounded
<1>5. now.Second <= 255 /\ (~missed => now.Second <= 59)
  BY <1>1, <1>2, <1>3
<1> QED BY <1>3, <1>4, <1>5

(* A valid screen.                                                          *)
LEMMA ScreenIs ==
    ASSUME NEW c \in Clocks, Exists(c), ~missed' => c.Second <= 59, screen' = Shown(c)
    PROVE  ShownValid'
<1>1. screen'.value = c /\ screen'.ends = Shown(c).ends
  BY DEF Shown
<1>2. c.Second \in Nat
  BY U16Is DEF Clocks
<1>3. ~missed' => c.Second \in 0 .. 59
  BY <1>2
<1> QED BY <1>1, <1>3, ShownIs DEF ShownValid

(* Every step keeps the invariant.                                          *)
LEMMA NextWatchInv == WatchInv /\ [Next]_vars => WatchInv'
<1> SUFFICES ASSUME WatchInv, [Next]_vars PROVE WatchInv'
  OBVIOUS
<1>0. WatchTypes /\ ClockHeld /\ FrozenOnlyWhileEdited /\ ShownValid
  BY DEF WatchInv
<1>a. ASSUME UNCHANGED <<clock, editing, cursor, screen, missed>>, ReceiveType' \in Requests,
             Local_Count' \in Nat,
             \/ ReceiveType'.NormalModeEdit = ReceiveType.NormalModeEdit
                   /\ ReceiveType'.NormalModeOperation = ReceiveType.NormalModeOperation
             \/ ReceiveType'.NormalModeEdit = "NORMAL_MODE_EDIT"
             \/ ReceiveType'.NormalModeOperation = "EDIT_MODE_OK"
      PROVE  WatchInv'
  <2>1. WatchTypes' /\ ClockHeld' /\ ShownValid'
    BY <1>0, <1>a DEF WatchTypes, ClockHeld, ShownValid
  <2>2. FrozenOnlyWhileEdited'
    BY <1>0, <1>a DEF FrozenOnlyWhileEdited
  <2> QED BY <2>1, <2>2 DEF WatchInv
<1>1. CASE Toggle
  <2>1. ReceiveType' = [ReceiveType EXCEPT !.Mode = IF Normal THEN "STOP_WATCH_MODE" ELSE "NORMAL_MODE"]
    BY <1>1 DEF Toggle
  <2>2. /\ ReceiveType' \in Requests
        /\ ReceiveType'.NormalModeEdit = ReceiveType.NormalModeEdit
        /\ ReceiveType'.NormalModeOperation = ReceiveType.NormalModeOperation
    BY <1>0, <2>1 DEF WatchTypes, Requests
  <2> QED BY <1>0, <1>1, <1>a, <2>2 DEF Toggle, Command, WatchTypes
<1>2. CASE Edit
  <2>1. ReceiveType' \in Requests /\ ReceiveType'.NormalModeEdit = "NORMAL_MODE_EDIT"
    BY <1>0, <1>2 DEF Edit, WatchTypes, Requests
  <2> QED BY <1>0, <1>2, <1>a, <2>1 DEF Edit, Command, WatchTypes
<1>3. CASE Confirm
  <2>1. ReceiveType' \in Requests /\ ReceiveType'.NormalModeOperation = "EDIT_MODE_OK"
    BY <1>0, <1>3 DEF Confirm, Confirmed, WatchTypes, Requests
  <2> QED BY <1>0, <1>3, <1>a, <2>1 DEF Confirm, Command, WatchTypes
<1>4. ASSUME NEW c \in DOMAIN Operations, Operate(c) PROVE WatchInv'
  <2>1. Operations[c] \in {"INCREASE", "DECREASE", "UP", "DOWN", "RIGHT", "LEFT"}
    BY DEF Operations
  <2>2. ReceiveType.NormalModeEdit = "NORMAL_MODE_EDIT"
    BY <1>4 DEF Operate, Editable
  <2>3. ReceiveType' = [ReceiveType EXCEPT !.NormalModeOperation = Operations[c]]
    BY <1>4 DEF Operate
  <2>4. ReceiveType' \in Requests /\ ReceiveType'.NormalModeEdit = "NORMAL_MODE_EDIT"
    BY <1>0, <2>1, <2>2, <2>3 DEF WatchTypes, Requests
  <2> QED BY <1>0, <1>4, <1>a, <2>4 DEF Operate, Command, WatchTypes
<1>5. ASSUME NEW o \in {"START", "PAUSE", "CONTINUE", "STOP"},
             ReceiveType' = [ReceiveType EXCEPT !.StopWatchOperation = o],
             UNCHANGED <<clock, editing, cursor, screen, missed>>, Local_Count' \in Nat
      PROVE  WatchInv'
  <2>1. /\ ReceiveType' \in Requests
        /\ ReceiveType'.NormalModeEdit = ReceiveType.NormalModeEdit
        /\ ReceiveType'.NormalModeOperation = ReceiveType.NormalModeOperation
    BY <1>0, <1>5 DEF WatchTypes, Requests
  <2> QED BY <1>5, <1>a, <2>1
<1>6. CASE StartOrPause
  <2> DEFINE o == CASE Local_Count % 3 = 1 -> "START" [] Local_Count % 3 = 2 -> "PAUSE"
                    [] Local_Count % 3 = 0 -> "CONTINUE"
  <2>1. Local_Count % 3 \in 0 .. 2
    BY <1>0 DEF WatchTypes
  <2>2. o \in {"START", "PAUSE", "CONTINUE", "STOP"}
    BY <2>1
  <2>3. Local_Count' \in Nat
    BY <1>6, <2>1 DEF StartOrPause, CountAfter
  <2>4. ReceiveType' = [ReceiveType EXCEPT !.StopWatchOperation = o]
    BY <1>6 DEF StartOrPause
  <2>5. UNCHANGED <<clock, editing, cursor, screen, missed>>
    BY <1>6 DEF StartOrPause, Command
  <2> HIDE DEF o
  <2> QED BY <1>5, <2>2, <2>3, <2>4, <2>5
<1>7. CASE Stop
  <2>1. ReceiveType' = [ReceiveType EXCEPT !.StopWatchOperation = "STOP"] /\ Local_Count' = 1
    BY <1>7 DEF Stop
  <2>2. UNCHANGED <<clock, editing, cursor, screen, missed>>
    BY <1>7 DEF Stop, Command
  <2> QED BY <1>5, <2>1, <2>2
<1>8. CASE CountOnly
  <2>1. clock' = Counted /\ missed' = (missed \/ Counted.Second > 59)
        /\ UNCHANGED <<ReceiveType, Local_Count, editing, cursor, screen>>
    BY <1>8 DEF CountOnly, Refresh
  <2>3. Counted.Second \in Nat /\ (~(Counted.Second > 59) => Counted.Second <= 69)
    <3>1. Counted \in Clocks
      BY <1>0, CountedIs
    <3>2. Counted.Second \in Nat
      BY <3>1, U16Is DEF Clocks
    <3> QED BY <3>2
  <2>a. (~missed' => ~missed /\ ~(Counted.Second > 59)) /\ missed' \in BOOLEAN
    BY <1>0, <2>1, Zenon DEF WatchTypes
  <2>2. WatchTypes'
    BY <1>0, <2>1, <2>a DEF WatchTypes
  <2>4. editing = {} => Exists(Counted)
    BY <1>0, CountedIs DEF ClockHeld, Exists
  <2>5. ClockHeld'
    BY <1>0, <2>1, <2>3, <2>4, <2>a, CountedIs DEF ClockHeld
  <2>6. FrozenOnlyWhileEdited' /\ ShownValid'
    BY <1>0, <2>1, <2>a DEF FrozenOnlyWhileEdited, ShownValid
  <2> QED BY <2>2, <2>5, <2>6 DEF WatchInv
<1>9. CASE Show
  <2>1. /\ clock' = Carried(Counted, Flags) /\ editing' = Flags /\ screen' = Shown(clock')
        /\ UNCHANGED <<ReceiveType, Local_Count, cursor, missed>>
    BY <1>9 DEF Show, Refresh
  <2>2. /\ clock' \in Clocks /\ Exists(clock') /\ Bounded(clock') /\ clock'.Second <= 255
        /\ ~missed => clock'.Second <= 59
    BY <1>0, <2>1, NowIs
  <2>3. clock'.Second \in Nat
    BY <2>2, U16Is DEF Clocks
  <2>4. Flags = {}
    BY <1>0, <1>9 DEF Show, Flags, FrozenOnlyWhileEdited
  <2>5. WatchTypes'
    BY <1>0, <2>1, <2>4 DEF WatchTypes
  <2>6. ClockHeld'
    BY <2>1, <2>2, <2>3 DEF ClockHeld
  <2>7. ShownValid'
    BY <2>1, <2>2, ScreenIs
  <2>8. FrozenOnlyWhileEdited'
    BY <2>1, <2>4 DEF FrozenOnlyWhileEdited
  <2> QED BY <2>5, <2>6, <2>7, <2>8 DEF WatchInv
<1>10. CASE ShowAndEdit
  <2> DEFINE now == Carried(Counted, Flags)
             op == ReceiveType.NormalModeOperation
  <2>1. /\ screen' = Shown(now) /\ cursor' = Moved(cursor, op)
        /\ clock' = Changed(now, cursor, op) /\ editing' = Marked(cursor', op)
        /\ ReceiveType' = [ReceiveType EXCEPT !.NormalModeOperation = "NO_ACTION"]
        /\ ReceiveType.NormalModeEdit = "NORMAL_MODE_EDIT"
        /\ missed' = missed /\ Local_Count' = Local_Count
    BY <1>10 DEF ShowAndEdit, Refresh
  <2>2. /\ now \in Clocks /\ Exists(now) /\ Bounded(now) /\ now.Second <= 255
        /\ ~missed => now.Second <= 59
    BY <1>0, NowIs
  <2>3. now.Second \in Nat
    BY <2>2, U16Is DEF Clocks
  <2>4. editing' = IF op = "EDIT_MODE_OK" THEN {} ELSE FieldAt(cursor')
    BY <2>1 DEF Marked, Flags
  <2> HIDE DEF now
  <2>5. /\ clock' \in Clocks /\ Bounded(clock')
        /\ clock'.Second <= 255 /\ (now.Second <= 59 => clock'.Second <= 69)
        /\ op \notin {"INCREASE", "DECREASE"} \/ FieldAt(cursor) = {} => clock' = now
    BY <2>1, <2>2, ChangedIs
  <2>6. cursor' \in Cursors /\ (op \in {"INCREASE", "DECREASE"} => cursor' = cursor)
    BY <1>0, <2>1, MovedIs DEF WatchTypes
  <2>7. editing' = {} => clock' = now
    BY <2>4, <2>5, <2>6
  <2>8. WatchTypes'
    <3>1. ReceiveType' \in Requests /\ ReceiveType'.NormalModeEdit = "NORMAL_MODE_EDIT"
      BY <1>0, <2>1 DEF WatchTypes, Requests
    <3>2. editing' \subseteq Fields
      BY <2>4, FieldAtIs
    <3> QED BY <1>0, <2>1, <2>6, <3>1, <3>2 DEF WatchTypes
  <2>9. ClockHeld'
    BY <2>1, <2>2, <2>5, <2>7 DEF ClockHeld
  <2>10. FrozenOnlyWhileEdited'
    <3>1. ReceiveType'.NormalModeEdit = "NORMAL_MODE_EDIT"
      BY <1>0, <2>1 DEF WatchTypes, Requests
    <3> QED BY <2>4, <3>1 DEF FrozenOnlyWhileEdited
  <2>11. ShownValid'
    BY <2>1, <2>2, ScreenIs
  <2> QED BY <2>8, <2>9, <2>10, <2>11 DEF WatchInv
<1>11. CASE Stopwatch_Runnable
  <2>1. UNCHANGED <<ReceiveType, Local_Count, clock, editing, cursor, missed>>
    BY <1>11 DEF Stopwatch_Runnable
  <2>2. WatchTypes' /\ ClockHeld' /\ FrozenOnlyWhileEdited'
    BY <1>0, <2>1 DEF WatchTypes, ClockHeld, FrozenOnlyWhileEdited
  <2>3. screen' = screen \/ screen'.of = "stopwatch"
    BY <1>11 DEF Stopwatch_Runnable
  <2>4. ShownValid'
    BY <1>0, <2>1, <2>3 DEF ShownValid
  <2> QED BY <2>2, <2>4 DEF WatchInv
<1>12. CASE UNCHANGED vars
  <2>1. UNCHANGED <<ReceiveType, Local_Count, clock, editing, cursor, screen, missed>>
    BY <1>12 DEF vars
  <2>2. ReceiveType' \in Requests /\ Local_Count' \in Nat
    BY <1>0, <2>1 DEF WatchTypes
  <2> QED BY <1>a, <2>1, <2>2
<1> QED
  BY <1>1, <1>2, <1>3, <1>4, <1>6, <1>7, <1>8, <1>9, <1>10, <1>11, <1>12
     DEF Next, Receive, DisplayDateTime

(* Every behaviour of the watch keeps the invariant.                        *)
LEMMA WatchHeld == Spec => []WatchInv
  BY InitWatchInv, NextWatchInv, PTL DEF Spec

(* The screen shows a day that exists and a time of day, with the digits    *)
(* where the editor looks for them, whatever is edited and whichever field  *)
(* holds back a carry (DisplayMode.c:97-230).                               *)
THEOREM ScreenValid == Spec => []ShownValid
<1>1. WatchInv => ShownValid
  BY DEF WatchInv
<1> QED BY <1>1, WatchHeld, PTL

(* A field stands still only while the cursor is on it and its edit goes on *)
(* or has ended since the last refresh: no order of commands freezes it for *)
(* good (DisplayMode.c:97, 526).                                            *)
THEOREM NoFieldFrozen == Spec => []FrozenOnlyWhileEdited
<1>1. WatchInv => FrozenOnlyWhileEdited
  BY DEF WatchInv
<1> QED BY <1>1, WatchHeld, PTL

(* Steps that are no refresh leave the clock alone.                         *)
LEMMA ClockLeft ==
    ASSUME [Next]_vars, ~CountOnly, ~Show, ~ShowAndEdit
    PROVE  clock' = clock
<1>1. CASE Receive
  BY <1>1 DEF Receive, Toggle, Edit, Confirm, Operate, StartOrPause, Stop, Command
<1>2. CASE Stopwatch_Runnable
  BY <1>2 DEF Stopwatch_Runnable
<1>3. CASE UNCHANGED vars
  BY <1>3 DEF vars
<1> QED BY <1>1, <1>2, <1>3 DEF Next, DisplayDateTime

(* Without an operation on a digit, a refresh only counts and, in the       *)
(* normal mode, carries.                                                    *)
LEMMA RefreshIs ==
    ASSUME [Next]_vars, ReceiveType.NormalModeOperation \notin {"INCREASE", "DECREASE"}
    PROVE  \/ clock' = clock
           \/ clock' = Counted
           \/ clock' = Carried(Counted, Flags)
<1>1. CASE CountOnly
  BY <1>1 DEF CountOnly
<1>2. CASE Show
  BY <1>2 DEF Show
<1>3. CASE ShowAndEdit
  <2>1. clock' = Changed(Carried(Counted, Flags), cursor, ReceiveType.NormalModeOperation)
    BY <1>3 DEF ShowAndEdit
  <2> QED BY <2>1 DEF Changed
<1> QED BY <1>1, <1>2, <1>3, ClockLeft

(* While a field is edited no carry reaches it: it changes by an operation  *)
(* only, as long as it is in range (DisplayMode.c:97-230).                  *)
THEOREM EditedFieldHeld == Spec => FieldHeld
<1>1. WatchInv /\ [Next]_vars =>
          [\A f \in editing : Untouched /\ InRange(clock, f) => clock'[f] = clock[f]]_vars
  <2> SUFFICES ASSUME WatchInv, [Next]_vars, NEW f \in editing, Untouched, InRange(clock, f)
               PROVE  clock'[f] = clock[f]
    OBVIOUS
  <2>1. WatchTypes /\ ClockHeld /\ f \in Fields
    BY DEF WatchInv, WatchTypes
  <2>2. Counted[f] = clock[f] /\ InRange(Counted, f)
    <3>1. f = "Second" => Counted = clock
      BY DEF Counted
    <3>2. f # "Second" => Counted[f] = clock[f]
      BY <2>1, CountedIs DEF Fields
    <3>3. f # "Second" => InRange(Counted, f)
      BY <2>1, CountedIs DEF InRange, Fields
    <3> QED BY <3>1, <3>2, <3>3
  <2>3. Carried(Counted, editing)[f] = clock[f]
    BY <2>1, <2>2, CountedIs, CarriedHeld
  <2>4. Flags = editing /\ ReceiveType.NormalModeOperation \notin {"INCREASE", "DECREASE"}
    BY DEF Untouched, Flags
  <2> QED BY <2>2, <2>3, <2>4, RefreshIs
<1> QED BY <1>1, WatchHeld, PTL DEF Spec, FieldHeld

(* While no field is being edited, before the first edit and after each     *)
(* that was confirmed, midnight brings the next day of the calendar and     *)
(* nothing else changes the date, but at the end of February, where the     *)
(* month stays (DisplayMode.c:145, 155).                                    *)
THEOREM DateFollows == Spec => DayFollows
<1>1. WatchInv /\ [Next]_vars =>
          [Unedited /\ ~FebruaryEnds(clock) =>
             Date(clock') = IF clock.Hour = 23 /\ clock'.Hour = 0 THEN NextDate(clock) ELSE Date(clock)]_vars
  <2> SUFFICES ASSUME WatchInv, [Next]_vars, Unedited, ~FebruaryEnds(clock)
               PROVE  Date(clock') = IF clock.Hour = 23 /\ clock'.Hour = 0 THEN NextDate(clock)
                                     ELSE Date(clock)
    OBVIOUS
  <2>0. editing = {} /\ ReceiveType.NormalModeOperation \notin {"INCREASE", "DECREASE"}
    BY DEF Unedited
  <2>1. WatchTypes /\ ClockHeld /\ Exists(clock) /\ Flags = {}
    BY <2>0 DEF WatchInv, ClockHeld, Flags
  <2> DEFINE c == Counted
  <2>2. /\ c \in Clocks
        /\ c.Year = clock.Year /\ c.Month = clock.Month /\ c.Day = clock.Day
        /\ c.Hour = clock.Hour /\ c.Minuts = clock.Minuts
    BY <2>1, CountedIs
  <2>3. \/ clock' = clock
        \/ clock' = c
        \/ clock' = Carried(c, {})
    BY <2>0, <2>1, RefreshIs
  <2> HIDE DEF c
  <2>4. Exists(c) /\ ~FebruaryEnds(c)
    BY <2>1, <2>2 DEF Exists, FebruaryEnds
  <2>5. Date(c) = Date(clock) /\ NextDate(c) = NextDate(clock)
    BY <2>2 DEF Date, NextDate
  <2>6. CASE clock' = Carried(c, {})
    BY <2>2, <2>4, <2>5, <2>6, CarriedFollows
  <2>7. CASE clock' = clock \/ clock' = c
    <3>1. clock'.Hour = clock.Hour /\ Date(clock') = Date(clock)
      BY <2>2, <2>5, <2>7
    <3> QED BY <3>1
  <2> QED BY <2>3, <2>6, <2>7
<1> QED BY <1>1, WatchHeld, PTL DEF Spec, DayFollows

----------------------------------------------------------------------------
(* The stopwatch *)

(* A number of whole steps.                                                 *)
LEMMA DivTimes ==
    ASSUME NEW m \in Nat \ {0}, NEW j \in Nat
    PROVE  (m * j) \div m = j
  OBVIOUS

(* A multiple of a step is a number of steps.                               *)
LEMMA DivExact ==
    ASSUME NEW m \in Nat \ {0}, NEW n \in Nat \ {0}, n % m = 0
    PROVE  n \div m \in Nat \ {0} /\ n = m * (n \div m)
  OBVIOUS

(* A wheel of A teeth that turns a wheel of B teeth counts to A times B.    *)
LEMMA Wheels ==
    ASSUME NEW A \in Nat \ {0}, NEW B \in Nat \ {0},
           NEW a \in Nat, a < A, NEW b \in Nat, b < B
    PROVE  /\ a + A * b \in Nat /\ a + A * b < A * B
           /\ a + 1 < A => (a + 1) + A * b = (a + A * b + 1) % (A * B)
           /\ a + 1 = A => A * ((b + 1) % B) = (a + A * b + 1) % (A * B)
<1>1. A * b \in Nat /\ A * B \in Nat \ {0}
  OBVIOUS
<1>2. A * b + A <= A * B
  <2>1. B = b + 1 + (B - b - 1) /\ B - b - 1 \in Nat
    OBVIOUS
  <2>2. A * B = A * b + A + A * (B - b - 1) /\ A * (B - b - 1) \in Nat
    BY <2>1
  <2> QED BY <1>1, <2>2
<1>3. \A x \in Nat : x < A * B => x % (A * B) = x
  BY <1>1
<1>4. ASSUME a + 1 = A PROVE A * ((b + 1) % B) = (a + A * b + 1) % (A * B)
  <2>1. a + A * b + 1 = A * b + A
    BY <1>1, <1>4
  <2>2. CASE b + 1 < B
    <3>1. (b + 1) % B = b + 1 /\ A * (b + 1) = A * b + A
      BY <2>2
    <3>2. A * b + A < A * B
      <4>1. B - b - 1 \in Nat \ {0}
        BY <2>2
      <4>2. A * (B - b - 1) \in Nat \ {0} /\ A * B = A * b + A + A * (B - b - 1)
        BY <4>1
      <4> QED BY <1>1, <4>2
    <3> QED BY <1>1, <1>3, <2>1, <3>1, <3>2
  <2>3. CASE b + 1 = B
    <3>1. (b + 1) % B = 0
      BY <2>3
    <3>2. A * b + A = A * B
      BY <2>3
    <3>3. (A * B) % (A * B) = 0
      BY <1>1
    <3> QED BY <2>1, <3>1, <3>2, <3>3
  <2> QED BY <2>2, <2>3
<1> QED BY <1>1, <1>2, <1>3, <1>4

Readings == [Hrs : Nat, Mins : Nat, Secs : Nat, Ms : Nat]

(* Every wheel is in its range, and the milliseconds are whole steps.       *)
TimeHeld == /\ SW_Time \in Readings
            /\ SW_Time.Hrs < HrsWrap /\ SW_Time.Mins < MinsWrap /\ SW_Time.Secs < SecsWrap
            /\ SW_Time.Ms < MsWrap /\ SW_Time.Ms % Step = 0

MinsCount(t) == t.Mins + MinsWrap * t.Hrs
SecsCount(t) == t.Secs + SecsWrap * MinsCount(t)

(* The hour was counted on.                                                 *)
LEMMA CarryHrsIs ==
    ASSUME NEW t \in Readings, NEW h \in Nat, h < HrsWrap, t.Hrs = h + 1, NEW n, n = CarryHrs(t)
    PROVE  /\ n \in Readings /\ n.Hrs = (h + 1) % HrsWrap /\ n.Hrs < HrsWrap
           /\ n.Mins = t.Mins /\ n.Secs = t.Secs /\ n.Ms = t.Ms
<1>0. HrsWrap \in Nat \ {0}
  BY WatchAssumption
<1>1. CASE t.Hrs = HrsWrap
  <2>1. n = [t EXCEPT !.Hrs = 0]
    BY <1>1 DEF CarryHrs
  <2>2. (h + 1) % HrsWrap = 0
    BY <1>0, <1>1
  <2> QED BY <1>0, <2>1, <2>2 DEF Readings
<1>2. CASE t.Hrs # HrsWrap
  <2>1. n = t
    BY <1>2 DEF CarryHrs
  <2>2. (h + 1) % HrsWrap = h + 1 /\ h + 1 < HrsWrap
    BY <1>0, <1>2
  <2> QED BY <2>1, <2>2 DEF Readings
<1> QED BY <1>1, <1>2

(* The count of minutes stays below its cycle.                              *)
LEMMA MinsCountIs ==
    ASSUME NEW t \in Readings, t.Hrs < HrsWrap, t.Mins < MinsWrap
    PROVE  /\ MinsCount(t) \in Nat /\ MinsCount(t) < MinsWrap * HrsWrap
           /\ MinsWrap * HrsWrap \in Nat \ {0}
<1> DEFINE m == t.Mins
           h == t.Hrs
<1>1. m \in Nat /\ h \in Nat /\ m < MinsWrap /\ h < HrsWrap
  BY DEF Readings
<1> HIDE DEF m, h
<1>2. HrsWrap \in Nat \ {0} /\ MinsWrap \in Nat \ {0}
  BY WatchAssumption
<1>3. m + MinsWrap * h \in Nat /\ m + MinsWrap * h < MinsWrap * HrsWrap
  BY <1>1, <1>2, Wheels
<1>4. MinsWrap * HrsWrap \in Nat \ {0}
  BY <1>2
<1> QED BY <1>3, <1>4 DEF MinsCount, m, h

(* The minute was counted on.                                               *)
LEMMA CarryMinsIs ==
    ASSUME NEW t \in Readings, t.Hrs < HrsWrap, NEW m \in Nat, m < MinsWrap, t.Mins = m + 1,
           NEW n, n = CarryMins(t)
    PROVE  /\ n \in Readings /\ n.Hrs < HrsWrap /\ n.Mins < MinsWrap
           /\ MinsCount(n) = (m + MinsWrap * t.Hrs + 1) % (MinsWrap * HrsWrap)
           /\ n.Secs = t.Secs /\ n.Ms = t.Ms
<1>0. HrsWrap \in Nat \ {0} /\ MinsWrap \in Nat \ {0} /\ t.Hrs \in Nat
  BY WatchAssumption DEF Readings
<1>3. /\ m + 1 < MinsWrap =>
             (m + 1) + MinsWrap * t.Hrs = (m + MinsWrap * t.Hrs + 1) % (MinsWrap * HrsWrap)
      /\ m + 1 = MinsWrap =>
             MinsWrap * ((t.Hrs + 1) % HrsWrap) = (m + MinsWrap * t.Hrs + 1) % (MinsWrap * HrsWrap)
  <2> DEFINE h == t.Hrs
  <2>1. h \in Nat /\ h < HrsWrap
    BY <1>0
  <2> HIDE DEF h
  <2>2. /\ m + 1 < MinsWrap => (m + 1) + MinsWrap * h = (m + MinsWrap * h + 1) % (MinsWrap * HrsWrap)
        /\ m + 1 = MinsWrap => MinsWrap * ((h + 1) % HrsWrap) = (m + MinsWrap * h + 1) % (MinsWrap * HrsWrap)
    BY <1>0, <2>1, Wheels
  <2> QED BY <2>2 DEF h
<1>1. CASE t.Mins = MinsWrap
  <2> DEFINE u == [t EXCEPT !.Mins = 0, !.Hrs = @ + 1]
  <2>1. n = CarryHrs(u)
    BY <1>1 DEF CarryMins
  <2>2. u \in Readings /\ u.Hrs = t.Hrs + 1 /\ u.Mins = 0 /\ u.Secs = t.Secs /\ u.Ms = t.Ms
    <3> DEFINE w == [t EXCEPT !.Mins = 0]
    <3>1. w \in Readings /\ w.Hrs = t.Hrs /\ w.Mins = 0 /\ w.Secs = t.Secs /\ w.Ms = t.Ms
      BY DEF Readings
    <3>2. u = [w EXCEPT !.Hrs = t.Hrs + 1]
      OBVIOUS
    <3>3. t.Hrs + 1 \in Nat
      BY <1>0
    <3> HIDE DEF w, u
    <3> QED BY <3>1, <3>2, <3>3 DEF Readings
  <2> HIDE DEF u
  <2>3. /\ n \in Readings /\ n.Hrs = (t.Hrs + 1) % HrsWrap /\ n.Hrs < HrsWrap
        /\ n.Mins = 0 /\ n.Secs = t.Secs /\ n.Ms = t.Ms
    BY <1>0, <2>1, <2>2, CarryHrsIs
  <2>4. MinsWrap * ((t.Hrs + 1) % HrsWrap) = (m + MinsWrap * t.Hrs + 1) % (MinsWrap * HrsWrap)
    BY <1>1, <1>3
  <2>5. MinsCount(n) = MinsWrap * n.Hrs
    <3>1. n.Hrs \in Nat
      BY <2>3 DEF Readings
    <3>2. MinsWrap * n.Hrs \in Nat
      BY <1>0, <3>1
    <3> QED BY <2>3, <3>2 DEF MinsCount
  <2> QED BY <1>0, <2>3, <2>4, <2>5
<1>2. CASE t.Mins # MinsWrap
  <2>1. n = t
    BY <1>2 DEF CarryMins
  <2>2. m + 1 < MinsWrap
    BY <1>0, <1>2
  <2>3. (m + 1) + MinsWrap * t.Hrs = (m + MinsWrap * t.Hrs + 1) % (MinsWrap * HrsWrap)
    BY <2>2, <1>3
  <2> QED BY <2>1, <2>2, <2>3 DEF MinsCount
<1> QED BY <1>1, <1>2

(* The second was counted on.                                               *)
LEMMA CarrySecsIs ==
    ASSUME NEW t \in Readings, t.Hrs < HrsWrap, t.Mins < MinsWrap,
           NEW s \in Nat, s < SecsWrap, t.Secs = s + 1, NEW n, n = CarrySecs(t)
    PROVE  /\ n \in Readings /\ n.Hrs < HrsWrap /\ n.Mins < MinsWrap /\ n.Secs < SecsWrap
           /\ SecsCount(n) = (s + SecsWrap * MinsCount(t) + 1) % (SecsWrap * (MinsWrap * HrsWrap))
           /\ n.Ms = t.Ms
<1> DEFINE y == MinsCount(t)
           Y == MinsWrap * HrsWrap
<1>0. HrsWrap \in Nat \ {0} /\ MinsWrap \in Nat \ {0} /\ SecsWrap \in Nat \ {0}
      /\ t.Hrs \in Nat /\ t.Mins \in Nat
  BY WatchAssumption DEF Readings
<1>a. y \in Nat /\ y < Y /\ Y \in Nat \ {0}
  BY MinsCountIs
<1>1. CASE t.Secs = SecsWrap
  <2> DEFINE u == [t EXCEPT !.Secs = 0, !.Mins = @ + 1]
  <2>1. n = CarryMins(u)
    BY <1>1 DEF CarrySecs
  <2>2. u \in Readings /\ u.Mins = t.Mins + 1 /\ u.Secs = 0 /\ u.Hrs = t.Hrs /\ u.Ms = t.Ms
    <3> DEFINE w == [t EXCEPT !.Secs = 0]
    <3>1. w \in Readings /\ w.Mins = t.Mins /\ w.Secs = 0 /\ w.Hrs = t.Hrs /\ w.Ms = t.Ms
      BY DEF Readings
    <3>2. u = [w EXCEPT !.Mins = t.Mins + 1]
      OBVIOUS
    <3>3. t.Mins + 1 \in Nat
      BY <1>0
    <3> HIDE DEF w, u
    <3> QED BY <3>1, <3>2, <3>3 DEF Readings
  <2> HIDE DEF u
  <2>3. /\ n \in Readings /\ n.Hrs < HrsWrap /\ n.Mins < MinsWrap
        /\ MinsCount(n) = (t.Mins + MinsWrap * t.Hrs + 1) % (MinsWrap * HrsWrap)
        /\ n.Secs = 0 /\ n.Ms = t.Ms
    BY <1>0, <2>1, <2>2, CarryMinsIs
  <2>4. MinsCount(n) = (y + 1) % Y
    BY <2>3 DEF MinsCount
  <2> HIDE DEF y, Y
  <2>5. SecsWrap * ((y + 1) % Y) = (s + SecsWrap * y + 1) % (SecsWrap * Y)
    BY <1>0, <1>1, <1>a, Wheels
  <2>6. (y + 1) % Y \in Nat
    BY <1>a
  <2>7. SecsCount(n) = SecsWrap * ((y + 1) % Y)
    BY <1>0, <2>3, <2>4, <2>6 DEF SecsCount
  <2>8. SecsCount(n) = (s + SecsWrap * y + 1) % (SecsWrap * Y)
    BY <2>5, <2>7
  <2> QED BY <1>0, <2>3, <2>8 DEF y, Y
<1>2. CASE t.Secs # SecsWrap
  <2>1. n = t
    BY <1>2 DEF CarrySecs
  <2>2. s + 1 < SecsWrap
    BY <1>0, <1>2
  <2> HIDE DEF y, Y
  <2>3. (s + 1) + SecsWrap * y = (s + SecsWrap * y + 1) % (SecsWrap * Y)
    BY <1>0, <1>a, <2>2, Wheels
  <2>4. SecsCount(n) = (s + 1) + SecsWrap * y
    BY <2>1 DEF SecsCount, y
  <2> QED BY <2>1, <2>2, <2>3, <2>4 DEF y, Y
<1> QED BY <1>1, <1>2

K == MsWrap \div Step

(* Whole steps make up the wrap of the milliseconds.                        *)
LEMMA StepsIs == K \in Nat \ {0} /\ MsWrap = Step * K
  BY WatchAssumption, DivExact DEF K

(* The number of samples a reading stands for, wheel by wheel.              *)
LEMMA SamplesIs == \A t : Samples(t) = t.Ms \div Step + K * SecsCount(t)
  BY DEF Samples, SecsCount, MinsCount, K

(* A sample is counted on, over all four wheels.                            *)
LEMMA AdvancedIs ==
    ASSUME TimeHeld, NEW n, n = Advanced(SW_Time)
    PROVE  /\ n \in Readings
           /\ n.Hrs < HrsWrap /\ n.Mins < MinsWrap /\ n.Secs < SecsWrap
           /\ n.Ms < MsWrap /\ n.Ms % Step = 0
           /\ Samples(n) = (Samples(SW_Time) + 1) % (K * SecsWrap * MinsWrap * HrsWrap)
<1> DEFINE t == SW_Time
           a == t.Ms \div Step
           x == SecsCount(t)
           X == SecsWrap * (MinsWrap * HrsWrap)
           u == [t EXCEPT !.Ms = @ + Step]
<1>0. HrsWrap \in Nat \ {0} /\ MinsWrap \in Nat \ {0} /\ SecsWrap \in Nat \ {0}
      /\ Step \in Nat \ {0} /\ MsWrap \in Nat \ {0} /\ MsWrap = Step * K /\ K \in Nat \ {0}
  BY WatchAssumption, StepsIs
<1>1. /\ t \in Readings /\ t.Hrs < HrsWrap /\ t.Mins < MinsWrap /\ t.Secs < SecsWrap
      /\ t.Ms < MsWrap /\ t.Ms % Step = 0
      /\ t.Hrs \in Nat /\ t.Mins \in Nat /\ t.Secs \in Nat /\ t.Ms \in Nat
  BY DEF TimeHeld, Readings
<1>2. a \in Nat /\ t.Ms = Step * a /\ a < K
  <2>1. a \in Nat /\ t.Ms = Step * a
    BY <1>0, <1>1
  <2> HIDE DEF a
  <2>2. ASSUME a >= K PROVE FALSE
    <3>1. a - K \in Nat /\ Step * a = Step * K + Step * (a - K) /\ Step * (a - K) \in Nat
      BY <1>0, <2>1, <2>2
    <3> QED BY <1>0, <1>1, <2>1, <3>1
  <2> QED BY <1>0, <2>1, <2>2
<1>3. x \in Nat /\ x < X /\ X \in Nat \ {0}
  <2> DEFINE s == t.Secs
             y == MinsCount(t)
             Y == MinsWrap * HrsWrap
  <2>1. y \in Nat /\ y < Y /\ Y \in Nat \ {0}
    BY <1>1, MinsCountIs
  <2>2. s \in Nat /\ s < SecsWrap /\ x = s + SecsWrap * y /\ X = SecsWrap * Y
    BY <1>1 DEF SecsCount
  <2> HIDE DEF s, y, Y, x, X
  <2>3. SecsWrap * Y \in Nat \ {0}
    BY <1>0, <2>1
  <2> QED BY <1>0, <2>1, <2>2, <2>3, Wheels
<1>4. u \in Readings /\ u.Ms = t.Ms + Step /\ u.Secs = t.Secs /\ u.Mins = t.Mins /\ u.Hrs = t.Hrs
  BY <1>0, <1>1 DEF Readings
<1>5. n = IF u.Ms = MsWrap THEN CarrySecs([u EXCEPT !.Ms = 0, !.Secs = @ + 1]) ELSE u
  BY DEF Advanced
<1>6. Samples(t) = a + K * x
  BY SamplesIs
<1>7. Step * (a + 1) = Step * a + Step
  BY <1>0, <1>2
<1>8. K * X = K * SecsWrap * MinsWrap * HrsWrap
  BY <1>0
<1> HIDE DEF t, a, x, X, u
<1>9. CASE u.Ms = MsWrap
  <2> DEFINE v == [u EXCEPT !.Ms = 0, !.Secs = @ + 1]
  <2>1. v \in Readings /\ v.Ms = 0 /\ v.Secs = t.Secs + 1 /\ v.Mins = t.Mins /\ v.Hrs = t.Hrs
    <3> DEFINE w == [u EXCEPT !.Ms = 0]
    <3>1. w \in Readings /\ w.Ms = 0 /\ w.Secs = t.Secs /\ w.Mins = t.Mins /\ w.Hrs = t.Hrs
      BY <1>4 DEF Readings
    <3>2. v = [w EXCEPT !.Secs = t.Secs + 1]
      BY <1>4
    <3>3. t.Secs + 1 \in Nat
      BY <1>1
    <3> HIDE DEF w, v
    <3> QED BY <3>1, <3>2, <3>3 DEF Readings
  <2>2. n = CarrySecs(v)
    BY <1>5, <1>9
  <2> HIDE DEF v
  <2>3. /\ n \in Readings /\ n.Hrs < HrsWrap /\ n.Mins < MinsWrap /\ n.Secs < SecsWrap
        /\ SecsCount(n) = (t.Secs + SecsWrap * MinsCount(v) + 1) % (SecsWrap * (MinsWrap * HrsWrap))
        /\ n.Ms = 0
    BY <1>1, <2>1, <2>2, CarrySecsIs
  <2>4. MinsCount(v) = MinsCount(t)
    BY <2>1 DEF MinsCount
  <2>5. SecsCount(n) = (x + 1) % X
    BY <2>3, <2>4 DEF SecsCount, x, X
  <2>6. a + 1 = K
    <3>1. Step * (a + 1) = Step * K
      BY <1>0, <1>2, <1>4, <1>7, <1>9
    <3>2. (Step * (a + 1)) \div Step = a + 1 /\ (Step * K) \div Step = K
      BY <1>0, <1>2, DivTimes
    <3> QED BY <3>1, <3>2
  <2>7. K * ((x + 1) % X) = (a + K * x + 1) % (K * X)
    BY <1>0, <1>2, <1>3, <2>6, Wheels
  <2>8. Samples(n) = K * ((x + 1) % X)
    <3>1. 0 \div Step = 0 /\ K * ((x + 1) % X) \in Nat
      BY <1>0, <1>3
    <3> QED BY <2>3, <2>5, <3>1, SamplesIs
  <2>9. 0 < MsWrap /\ 0 % Step = 0
    BY <1>0
  <2>10. Samples(n) = (Samples(t) + 1) % (K * X)
    BY <1>6, <2>7, <2>8
  <2> QED BY <1>8, <2>3, <2>9, <2>10 DEF t
<1>10. CASE u.Ms # MsWrap
  <2>1. n = u
    BY <1>5, <1>10
  <2>2. a + 1 < K
    BY <1>0, <1>2, <1>4, <1>7, <1>10
  <2>3. (a + 1) + K * x = (a + K * x + 1) % (K * X)
    BY <1>0, <1>2, <1>3, <2>2, Wheels
  <2>4. n.Ms = Step * (a + 1)
    BY <1>2, <1>4, <1>7, <2>1
  <2>5. n.Ms \div Step = a + 1 /\ n.Ms % Step = 0
    BY <1>0, <1>2, <2>4
  <2>6. n.Ms < MsWrap
    <3>1. K - a - 1 \in Nat \ {0}
      BY <1>0, <1>2, <2>2
    <3>2. Step * K = Step * (a + 1) + Step * (K - a - 1) /\ Step * (K - a - 1) \in Nat \ {0}
      BY <1>0, <1>2, <3>1
    <3> QED BY <1>0, <1>2, <2>4, <3>2
  <2>7. SecsCount(n) = x
    BY <1>4, <2>1 DEF SecsCount, MinsCount, x, t
  <2>8. Samples(n) = (a + 1) + K * x
    BY <2>5, <2>7, SamplesIs
  <2>9. Samples(n) = (Samples(t) + 1) % (K * X)
    BY <1>6, <2>3, <2>8
  <2> QED BY <1>1, <1>4, <1>8, <2>1, <2>5, <2>6, <2>9 DEF t
<1> QED BY <1>9, <1>10

(* The count tells the next press of S; a stopwatch that is off shows zero, *)
(* and so does one that nobody ever started.                                *)
PressHeld == /\ ReceiveType \in Requests
             /\ Stopwatch_On \in BOOLEAN
             /\ ReceiveType.StopWatchOperation \in {"NO_ACTION", "STOP"} => Local_Count = 1
             /\ Running => Local_Count = 2
             /\ ReceiveType.StopWatchOperation = "PAUSE" => Local_Count = 3
             /\ ~Stopwatch_On \/ ReceiveType.StopWatchOperation = "NO_ACTION" => SW_Time = Zero

StopwatchInv == TimeHeld /\ PressHeld

Rounds == K * SecsWrap * MinsWrap * HrsWrap

(* Zero is a reading, of no samples.                                        *)
LEMMA ZeroIs ==
    /\ Zero \in Readings /\ Zero.Hrs = 0 /\ Zero.Mins = 0 /\ Zero.Secs = 0 /\ Zero.Ms = 0
    /\ 0 % Step = 0 /\ Samples(Zero) = 0 /\ Rounds \in Nat \ {0}
<1>1. /\ HrsWrap \in Nat \ {0} /\ MinsWrap \in Nat \ {0} /\ SecsWrap \in Nat \ {0}
      /\ Step \in Nat \ {0} /\ K \in Nat \ {0}
  BY WatchAssumption, StepsIs
<1>2. Zero \in Readings /\ Zero.Hrs = 0 /\ Zero.Mins = 0 /\ Zero.Secs = 0 /\ Zero.Ms = 0
  BY DEF Zero, Readings
<1>3. 0 % Step = 0 /\ 0 \div Step = 0
  BY <1>1
<1>4. Samples(Zero) = 0
  BY <1>1, <1>2, <1>3, SamplesIs DEF SecsCount, MinsCount
<1>5. Rounds \in Nat \ {0}
  <2>1. K * SecsWrap \in Nat \ {0}
    BY <1>1
  <2>2. K * SecsWrap * MinsWrap \in Nat \ {0}
    BY <1>1, <2>1
  <2> QED BY <1>1, <2>2 DEF Rounds
<1> QED BY <1>2, <1>3, <1>4, <1>5

(* At power-up the stopwatch stands at zero.                                *)
LEMMA InitStopwatch == Init => StopwatchInv /\ AbstractStopwatch!Init
<1> SUFFICES ASSUME Init PROVE StopwatchInv /\ AbstractStopwatch!Init
  OBVIOUS
<1>1. /\ SW_Time = Zero /\ ReceiveType.StopWatchOperation = "NO_ACTION"
      /\ Local_Count = 1 /\ Stopwatch_On = FALSE
      /\ told = [event |-> "nothing", odd |-> FALSE]
  BY DEF Init
<1>2. TimeHeld
  BY <1>1, ZeroIs, WatchAssumption DEF TimeHeld
<1>3. ReceiveType \in Requests
  BY InitWatchInv DEF WatchInv, WatchTypes
<1>4. Phase = "stopped" /\ ~Running
  BY <1>1 DEF Phase, Running
<1>5. PressHeld
  BY <1>1, <1>3, <1>4 DEF PressHeld
<1>6. Samples(SW_Time) = 0 /\ (~Normal) \in BOOLEAN
  BY <1>1, ZeroIs DEF Normal
<1> QED BY <1>1, <1>2, <1>4, <1>5, <1>6 DEF StopwatchInv, AbstractStopwatch!Init

(* What the abstract stopwatch is made of.                                  *)
Mapped == <<Phase, ~Normal, Stopwatch_On, Samples(SW_Time), told>>

(* A step that leaves the stopwatch and what it is told alone is a stutter. *)
LEMMA StopwatchLeft ==
    ASSUME StopwatchInv, ReceiveType' \in Requests,
           UNCHANGED <<Local_Count, Stopwatch_On, SW_Time, told>>,
           ReceiveType'.StopWatchOperation = ReceiveType.StopWatchOperation
    PROVE  /\ StopwatchInv'
           /\ Phase' = Phase /\ Samples(SW_Time)' = Samples(SW_Time)
           /\ ReceiveType'.Mode = ReceiveType.Mode => Mapped' = Mapped
<1>1. Running' = Running /\ Phase' = Phase /\ Samples(SW_Time)' = Samples(SW_Time)
  BY DEF Running, Phase, Samples
<1>2. TimeHeld' /\ PressHeld'
  BY <1>1 DEF StopwatchInv, TimeHeld, PressHeld
<1> QED BY <1>1, <1>2 DEF StopwatchInv, Mapped, Normal

(* A press of S starts, pauses or goes on, by what was pressed before.      *)
LEMMA PressIs ==
    ASSUME StopwatchInv, StartOrPause
    PROVE  StopwatchInv' /\ AbstractStopwatch!Next
<1>1. /\ ~Normal /\ UNCHANGED <<Stopwatch_On, SW_Time>>
      /\ told' = [event |-> "S", odd |-> ~told.odd]
      /\ ReceiveType' = [ReceiveType EXCEPT !.StopWatchOperation =
                            CASE Local_Count % 3 = 1 -> "START" [] Local_Count % 3 = 2 -> "PAUSE"
                              [] Local_Count % 3 = 0 -> "CONTINUE"]
      /\ Local_Count' = CountAfter(Local_Count % 3)
  BY DEF StartOrPause, Command, Tell
<1>2. ReceiveType \in Requests /\ TimeHeld /\ PressHeld
  BY DEF StopwatchInv, PressHeld
<1>3. TimeHeld' /\ Samples(SW_Time)' = Samples(SW_Time)
  BY <1>1, <1>2 DEF TimeHeld, Samples
<1>5. ASSUME NEW op \in {"START", "PAUSE", "CONTINUE"},
             ReceiveType' = [ReceiveType EXCEPT !.StopWatchOperation = op]
      PROVE  /\ ReceiveType' \in Requests /\ (~Normal)' = ~Normal
             /\ ReceiveType'.StopWatchOperation = op
             /\ Running' = (op # "PAUSE")
             /\ Phase' = IF op = "PAUSE" THEN "paused" ELSE "running"
  BY <1>2, <1>5 DEF Requests, Normal, Running, Phase
<1>6. CASE ReceiveType.StopWatchOperation \in {"NO_ACTION", "STOP"}
  <2>1. Local_Count = 1 /\ Phase = "stopped"
    BY <1>2, <1>6 DEF PressHeld, Phase, Running
  <2>2. ReceiveType' = [ReceiveType EXCEPT !.StopWatchOperation = "START"] /\ Local_Count' = 2
    BY <1>1, <2>1 DEF CountAfter
  <2>3. Phase' = "running" /\ (~Normal)' = ~Normal /\ PressHeld'
    BY <1>1, <1>2, <1>5, <2>2 DEF PressHeld
  <2>4. AbstractStopwatch!Press("stopped", "running")
    BY <1>1, <1>3, <2>1, <2>3 DEF AbstractStopwatch!Press, AbstractStopwatch!Tell
  <2> QED BY <1>3, <2>3, <2>4 DEF StopwatchInv, AbstractStopwatch!Next, AbstractStopwatch!Start,
                                 AbstractStopwatch!Revive
<1>7. CASE Running
  <2>1. Local_Count = 2 /\ Phase = "running"
    BY <1>2, <1>7 DEF PressHeld, Phase
  <2>2. ReceiveType' = [ReceiveType EXCEPT !.StopWatchOperation = "PAUSE"] /\ Local_Count' = 3
    BY <1>1, <2>1 DEF CountAfter
  <2>3. Phase' = "paused" /\ (~Normal)' = ~Normal /\ PressHeld'
    BY <1>1, <1>2, <1>5, <1>7, <2>2 DEF PressHeld, Running
  <2>4. AbstractStopwatch!Pause
    BY <1>1, <1>3, <2>1, <2>3 DEF AbstractStopwatch!Pause, AbstractStopwatch!Press,
                                  AbstractStopwatch!Tell
  <2> QED BY <1>3, <2>3, <2>4 DEF StopwatchInv, AbstractStopwatch!Next
<1>8. CASE ReceiveType.StopWatchOperation = "PAUSE"
  <2>1. Local_Count = 3 /\ Phase = "paused"
    BY <1>2, <1>8 DEF PressHeld, Phase, Running
  <2>2. ReceiveType' = [ReceiveType EXCEPT !.StopWatchOperation = "CONTINUE"] /\ Local_Count' = 2
    BY <1>1, <2>1 DEF CountAfter
  <2>3. Phase' = "running" /\ (~Normal)' = ~Normal /\ PressHeld'
    BY <1>1, <1>2, <1>5, <1>8, <2>2 DEF PressHeld
  <2>4. AbstractStopwatch!Continue
    BY <1>1, <1>3, <2>1, <2>3 DEF AbstractStopwatch!Continue, AbstractStopwatch!Press,
                                  AbstractStopwatch!Tell
  <2> QED BY <1>3, <2>3, <2>4 DEF StopwatchInv, AbstractStopwatch!Next
<1> QED BY <1>2, <1>6, <1>7, <1>8 DEF Requests, Running

(* C stops it.                                                              *)
LEMMA StopIs ==
    ASSUME StopwatchInv, Stop
    PROVE  StopwatchInv' /\ AbstractStopwatch!Next
<1>1. /\ ~Normal /\ UNCHANGED <<Stopwatch_On, SW_Time>>
      /\ told' = [event |-> "C", odd |-> ~told.odd]
      /\ ReceiveType' = [ReceiveType EXCEPT !.StopWatchOperation = "STOP"]
      /\ Local_Count' = 1
  BY DEF Stop, Command, Tell
<1>2. ReceiveType \in Requests /\ TimeHeld /\ PressHeld
  BY DEF StopwatchInv, PressHeld
<1>3. TimeHeld' /\ Samples(SW_Time)' = Samples(SW_Time)
  BY <1>1, <1>2 DEF TimeHeld, Samples
<1>4. /\ ReceiveType' \in Requests /\ (~Normal)' = ~Normal
      /\ ReceiveType'.StopWatchOperation = "STOP" /\ ~Running' /\ Phase' = "stopped"
  BY <1>1, <1>2 DEF Requests, Normal, Running, Phase
<1>5. PressHeld'
  BY <1>1, <1>2, <1>4 DEF PressHeld
<1>6. AbstractStopwatch!Stop
  BY <1>1, <1>3, <1>4 DEF AbstractStopwatch!Stop, AbstractStopwatch!Tell
<1> QED BY <1>3, <1>5, <1>6 DEF StopwatchInv, AbstractStopwatch!Next

(* A sample counts, rests, clears, or finds a stopwatch that nobody opened. *)
LEMMA SampleIs ==
    ASSUME StopwatchInv, Stopwatch_Runnable
    PROVE  StopwatchInv' /\ AbstractStopwatch!Next
<1>1. /\ SW_Time' = IF On /\ Running THEN Advanced(SW_Time)
                    ELSE IF On /\ StopSeen THEN Zero ELSE SW_Time
      /\ Stopwatch_On' = (On /\ ~(StopSeen /\ ~Running))
      /\ told' = [event |-> "sample", odd |-> ~told.odd]
      /\ UNCHANGED <<ReceiveType, Local_Count>>
  BY DEF Stopwatch_Runnable, Tell
<1>2. ReceiveType \in Requests /\ TimeHeld /\ PressHeld /\ Stopwatch_On \in BOOLEAN
  BY DEF StopwatchInv, PressHeld
<1>3. /\ Phase' = Phase /\ Running' = Running /\ (~Normal)' = ~Normal
      /\ AbstractStopwatch!Sample
  <2>1. Phase' = Phase /\ Running' = Running /\ (~Normal)' = ~Normal
    BY <1>1 DEF Phase, Running, Normal
  <2> QED BY <1>1, <2>1 DEF AbstractStopwatch!Sample, AbstractStopwatch!Tell
<1>4. On = (~Normal \/ Stopwatch_On)
  BY DEF On
<1>5. CASE On /\ Running
  <2> DEFINE n == Advanced(SW_Time)
  <2>1. SW_Time' = n /\ Stopwatch_On' = TRUE /\ Phase = "running"
    BY <1>1, <1>5 DEF Phase
  <2>2. /\ n \in Readings
        /\ n.Hrs < HrsWrap /\ n.Mins < MinsWrap /\ n.Secs < SecsWrap
        /\ n.Ms < MsWrap /\ n.Ms % Step = 0
        /\ Samples(n) = (Samples(SW_Time) + 1) % (K * SecsWrap * MinsWrap * HrsWrap)
    BY <1>2, AdvancedIs
  <2> HIDE DEF n
  <2>3. TimeHeld'
    BY <2>1, <2>2 DEF TimeHeld
  <2>4. Samples(SW_Time)' = (Samples(SW_Time) + 1) % (K * SecsWrap * MinsWrap * HrsWrap)
    BY <2>1, <2>2 DEF Samples
  <2>5. PressHeld'
    BY <1>1, <1>2, <1>3, <1>5, <2>1 DEF PressHeld, Running
  <2>6. AbstractStopwatch!Count
    BY <1>3, <1>4, <1>5, <2>1, <2>4 DEF AbstractStopwatch!Count, K
  <2> QED BY <2>3, <2>5, <2>6 DEF StopwatchInv, AbstractStopwatch!Next
<1>6. CASE ~(On /\ Running) /\ On /\ StopSeen
  <2>1. SW_Time' = Zero /\ Stopwatch_On' = FALSE /\ ~Running
    BY <1>1, <1>6
  <2>2. TimeHeld'
    BY <2>1, ZeroIs, WatchAssumption DEF TimeHeld
  <2>3. Samples(SW_Time)' = 0
    BY <2>1, ZeroIs DEF Samples
  <2>4. Phase = "stopped"
    BY <1>6, <2>1 DEF Phase, StopSeen
  <2>5. PressHeld'
    BY <1>1, <1>2, <1>3, <2>1 DEF PressHeld
  <2>6. AbstractStopwatch!Reset
    BY <1>3, <2>1, <2>3, <2>4 DEF AbstractStopwatch!Reset
  <2> QED BY <2>2, <2>5, <2>6 DEF StopwatchInv, AbstractStopwatch!Next
<1>7. CASE ~(On /\ Running) /\ ~(On /\ StopSeen)
  <2>1. SW_Time' = SW_Time /\ Stopwatch_On' = On
    <3>1. (On /\ ~(StopSeen /\ ~Running)) = On
      BY <1>7, Zenon DEF On
    <3>2. SW_Time' = SW_Time
      BY <1>1, <1>7
    <3> QED BY <1>1, <3>1, <3>2, Zenon
  <2>2. TimeHeld' /\ Samples(SW_Time)' = Samples(SW_Time)
    BY <1>2, <2>1 DEF TimeHeld, Samples
  <2>3. On \in BOOLEAN /\ (Stopwatch_On => On)
    BY <1>2 DEF On
  <2>4. PressHeld'
    BY <1>1, <1>2, <1>3, <2>1, <2>3 DEF PressHeld
  <2>5. CASE Running
    <3>1. ~On /\ ~Stopwatch_On /\ Stopwatch_On' = Stopwatch_On /\ Normal /\ Phase = "running"
      BY <1>2, <1>7, <2>1, <2>3, <2>5 DEF On, Phase
    <3>2. AbstractStopwatch!Oversleep
      BY <1>3, <2>2, <3>1 DEF AbstractStopwatch!Oversleep
    <3> QED BY <2>2, <2>4, <3>2 DEF StopwatchInv, AbstractStopwatch!Next
  <2>6. CASE ReceiveType.StopWatchOperation = "PAUSE"
    <3>1. Phase = "paused"
      BY <2>6 DEF Phase, Running
    <3>2. AbstractStopwatch!Rest
      BY <1>3, <1>4, <2>1, <2>2, <3>1 DEF AbstractStopwatch!Rest
    <3> QED BY <2>2, <2>4, <3>2 DEF StopwatchInv, AbstractStopwatch!Next
  <2>7. CASE ReceiveType.StopWatchOperation \in {"NO_ACTION", "STOP"}
    <3>1. Phase = "stopped"
      BY <2>7 DEF Phase, Running
    <3>2. SW_Time = Zero
      BY <1>2, <1>7, <2>3, <2>7 DEF PressHeld, StopSeen
    <3>3. Samples(SW_Time)' = 0
      BY <2>1, <3>2, ZeroIs DEF Samples
    <3>4. AbstractStopwatch!Reset
      BY <1>3, <1>4, <2>1, <3>1, <3>3 DEF AbstractStopwatch!Reset
    <3> QED BY <2>2, <2>4, <3>4 DEF StopwatchInv, AbstractStopwatch!Next
  <2> QED BY <1>2, <2>5, <2>6, <2>7 DEF Requests, Running
<1> QED BY <1>5, <1>6, <1>7

(* Every step is one of these, a look at the other mode, or a stutter.      *)
LEMMA NextStopwatch ==
    StopwatchInv /\ WatchInv' /\ [Next]_vars => StopwatchInv' /\ [AbstractStopwatch!Next]_Mapped
<1> SUFFICES ASSUME StopwatchInv, WatchInv', [Next]_vars
             PROVE  StopwatchInv' /\ (AbstractStopwatch!Next \/ Mapped' = Mapped)
  OBVIOUS
<1>0. ReceiveType \in Requests /\ ReceiveType' \in Requests
  BY DEF StopwatchInv, PressHeld, WatchInv, WatchTypes
<1>1. CASE Toggle
  <2>1. /\ UNCHANGED <<Local_Count, Stopwatch_On, SW_Time, told>>
        /\ ReceiveType' = [ReceiveType EXCEPT !.Mode = IF Normal THEN "STOP_WATCH_MODE" ELSE "NORMAL_MODE"]
    BY <1>1 DEF Toggle, Command
  <2>2. /\ ReceiveType'.StopWatchOperation = ReceiveType.StopWatchOperation
        /\ (~Normal)' = Normal
    BY <1>0, <2>1 DEF Requests, Normal
  <2>3. StopwatchInv' /\ Phase' = Phase /\ Samples(SW_Time)' = Samples(SW_Time)
    BY <1>0, <2>1, <2>2, StopwatchLeft
  <2>4. AbstractStopwatch!Look
    BY <2>1, <2>2, <2>3 DEF AbstractStopwatch!Look, Normal
  <2> QED BY <2>3, <2>4 DEF AbstractStopwatch!Next
<1>2. CASE Edit \/ Confirm \/ \E c \in DOMAIN Operations : Operate(c)
  <2>1. UNCHANGED <<Local_Count, Stopwatch_On, SW_Time, told>>
    BY <1>2 DEF Edit, Confirm, Operate, Command
  <2>2. /\ ReceiveType'.StopWatchOperation = ReceiveType.StopWatchOperation
        /\ ReceiveType'.Mode = ReceiveType.Mode
    BY <1>0, <1>2 DEF Edit, Confirm, Confirmed, Operate, Requests
  <2> QED BY <1>0, <2>1, <2>2, StopwatchLeft
<1>3. CASE StartOrPause
  BY <1>3, PressIs
<1>4. CASE Stop
  BY <1>4, StopIs
<1>5. CASE DisplayDateTime
  <2>1. UNCHANGED <<Local_Count, Stopwatch_On, SW_Time, told>>
    BY <1>5 DEF DisplayDateTime, CountOnly, Show, ShowAndEdit, Refresh
  <2>2. /\ ReceiveType'.StopWatchOperation = ReceiveType.StopWatchOperation
        /\ ReceiveType'.Mode = ReceiveType.Mode
    BY <1>0, <1>5 DEF DisplayDateTime, CountOnly, Show, ShowAndEdit, Requests
  <2> QED BY <1>0, <2>1, <2>2, StopwatchLeft
<1>6. CASE Stopwatch_Runnable
  BY <1>6, SampleIs
<1>7. CASE UNCHANGED vars
  <2>1. UNCHANGED <<Local_Count, Stopwatch_On, SW_Time, told, ReceiveType>>
    BY <1>7 DEF vars
  <2> QED BY <1>0, <2>1, StopwatchLeft
<1> QED BY <1>1, <1>2, <1>3, <1>4, <1>5, <1>6, <1>7 DEF Next, Receive

(* The watch implements a stopwatch: each press of S starts, pauses or goes *)
(* on in turn, each sample of a running one counts once through the four    *)
(* fields, and the first one after a stop clears it; but a restart that no  *)
(* sample saw the stop before keeps the total, and a start that no sample   *)
(* saw open sleeps (Reciver.c:105, StopWatch.c:25-63).                      *)
THEOREM ImplementsStopwatch == Spec => IsStopwatch
<1>1. Init => StopwatchInv /\ AbstractStopwatch!Init
  BY InitStopwatch
<1>2. StopwatchInv /\ WatchInv' /\ [Next]_vars => StopwatchInv'
  BY NextStopwatch
<1>3. StopwatchInv /\ WatchInv' /\ [Next]_vars
        => [AbstractStopwatch!Next]_<<Phase, ~Normal, Stopwatch_On, Samples(SW_Time), told>>
  BY NextStopwatch DEF Mapped
<1> QED BY <1>1, <1>2, <1>3, WatchHeld, PTL DEF Spec, IsStopwatch, AbstractStopwatch!Spec
=============================================================================
