--------------------------- MODULE RunnablesProofs ---------------------------
(***************************************************************************)
(* Proofs about the scheduler and about the runnables on the pins.         *)
(*                                                                         *)
(* Inputs: for every size of the matrix, every assignment of names to      *)
(* keys, every set of readers, every configuration of switches and every   *)
(* threshold.  What a scan found was down in its last two readings because *)
(* the memory of a key is its last reading, however long ago that was; a   *)
(* key is not taken twice because the flag that offers it is only set with *)
(* a change.  A switch settles because the count runs one behind the       *)
(* samples, but for the first samples, whose previous one the driver takes *)
(* for 0.  The lamps keep their round because State, Prev_State and        *)
(* Local_Sec, each of which tells too little, say together where in it     *)
(* they are.                                                               *)
(*                                                                         *)
(* Sched: for every table of runnables, every width of the unsigned        *)
(* counters and every number of ticks.  NoUnpaidPass and NeverOverdue are  *)
(* not inductive: the first needs to know that the register                *)
(* PendingTicks-- works in never holds more than the counter, the second   *)
(* that a pass in progress was counted.  IInv adds both.                   *)
(***************************************************************************)
EXTENDS Inputs, Sched, WellFoundedInduction, TLAPS

----------------------------------------------------------------------------
(* The keypad *)

(* What the driver remembers of a key is its last reading, and a flag that *)
(* is set has been set by a change.                                        *)
Remembered == \A k \in KeypadRun!Keys : Local_State[k] = "PRESSED" => readings[k][2]
OfferedByChange == NewValueflag => changed

KeypadInv == /\ KeypadRun!TypeOK
             /\ Remembered
             /\ OfferedByChange
             /\ ReportedAfterTwoReadings

(* The positions by which a scan orders the keys are natural numbers.      *)
LEMMA PositionType == ASSUME NEW k \in KeypadRun!Keys PROVE KeypadRun!Position(k) \in Nat
<1>1. /\ k[1] \in Nat /\ k[2] \in Nat /\ Rows \in Nat
  BY InputsAssumption DEF KeypadRun!Keys, KeypadRun!KeypadAssumption
<1>2. k[1] * Rows \in Nat
  BY <1>1
<1> QED BY <1>1, <1>2 DEF KeypadRun!Position

(* A set of positions that is not empty has a first one.                   *)
LEMMA FirstPosition ==
    ASSUME NEW P \in SUBSET Nat, P # {}
    PROVE  \E m \in P : \A n \in P : m <= n
<1> DEFINE less == {p \in Nat \X Nat : p[1] < p[2]}
<1>1. IsWellFoundedOn(less, Nat)
  BY NatLessThanWellFounded DEF OpToRel
<1> HIDE DEF less
<1>2. PICK m \in P : \A n \in P : ~(<<n, m>> \in less)
  BY <1>1, WFMin
<1>3. \A n \in P : ~(n < m)
  BY <1>2 DEF less
<1> QED BY <1>3

(* A scan that can find keys finds the first of them.                      *)
LEMMA FirstExists == KeypadRun!Hits # {} => \E k \in KeypadRun!Keys : KeypadRun!IsFirst(k)
<1> SUFFICES ASSUME KeypadRun!Hits # {} PROVE \E k \in KeypadRun!Keys : KeypadRun!IsFirst(k)
  OBVIOUS
<1> DEFINE P == {KeypadRun!Position(h) : h \in KeypadRun!Hits}
<1>1. PICK h \in KeypadRun!Hits : TRUE
  OBVIOUS
<1>2. P \in SUBSET Nat /\ KeypadRun!Position(h) \in P
  BY <1>1, PositionType DEF KeypadRun!Hits
<1>3. PICK m \in P : \A n \in P : m <= n
  BY <1>2, FirstPosition
<1>4. PICK k \in KeypadRun!Hits : m = KeypadRun!Position(k)
  BY <1>3
<1>5. k \in KeypadRun!Keys /\ KeypadRun!IsFirst(k)
  BY <1>3, <1>4 DEF KeypadRun!Hits, KeypadRun!IsFirst
<1> QED BY <1>5

(* The key a scan finds is down and was down before, and the scan reads it.*)
LEMMA WhatIsFound ==
    ASSUME KeypadInv, KeypadRun!KeyFound # KeypadRun!NOT_SW_PRESSED
    PROVE  \E k \in KeypadRun!Keys : /\ KPD_ARRAY[k] = KeypadRun!KeyFound
                                     /\ k \in KeypadRun!Scanned
                                     /\ k \in contacts
                                     /\ readings[k][2]
<1>1. KeypadRun!Hits # {}
  BY DEF KeypadRun!KeyFound
<1> DEFINE first == CHOOSE k \in KeypadRun!Keys : KeypadRun!IsFirst(k)
<1>2. first \in KeypadRun!Keys /\ KeypadRun!IsFirst(first)
  BY <1>1, FirstExists
<1>3. KeypadRun!KeyFound = KPD_ARRAY[first]
  BY <1>1 DEF KeypadRun!KeyFound
<1> HIDE DEF first
<1>4. first \in KeypadRun!Scanned /\ first \in contacts /\ Local_State[first] = "PRESSED"
  BY <1>2 DEF KeypadRun!IsFirst, KeypadRun!Scanned, KeypadRun!Hits, KeypadRun!Found
<1> QED BY <1>2, <1>3, <1>4 DEF KeypadInv, Remembered

(* A scan names a key of the matrix or none.                               *)
LEMMA KeyFoundType == KeypadRun!KeyFound \in KeypadRun!Names
<1>1. CASE KeypadRun!Hits = {}
  BY <1>1 DEF KeypadRun!KeyFound, KeypadRun!Names
<1>2. CASE KeypadRun!Hits # {}
  <2> DEFINE first == CHOOSE k \in KeypadRun!Keys : KeypadRun!IsFirst(k)
  <2>1. first \in KeypadRun!Keys
    BY <1>2, FirstExists
  <2>2. KeypadRun!KeyFound = KPD_ARRAY[first]
    BY <1>2 DEF KeypadRun!KeyFound
  <2> QED BY <2>1, <2>2 DEF KeypadRun!Names
<1> QED BY <1>1, <1>2

(* At power-on nothing is remembered, offered or reported.                 *)
LEMMA InitKeypadInv == InputsInit => KeypadInv
<1> SUFFICES ASSUME InputsInit PROVE KeypadInv
  OBVIOUS
<1> USE DEF InputsInit, KeypadRun!Init
<1>1. <<FALSE, FALSE>> \in BOOLEAN \X BOOLEAN
  OBVIOUS
<1>2. readings \in [KeypadRun!Keys -> BOOLEAN \X BOOLEAN]
  BY <1>1
<1>3. KeypadRun!TypeOK
  BY <1>2 DEF KeypadRun!TypeOK, KeypadRun!Names
<1>4. Remembered
  BY DEF Remembered
<1> QED BY <1>3, <1>4 DEF KeypadInv, OfferedByChange, ReportedAfterTwoReadings,
                          KeypadRun!ReportedAfterTwoReadings

(* No contact, scan or read of a key ends the invariant.                   *)
LEMMA NextKeypadInv == KeypadInv /\ [InputsNext]_inputVars => KeypadInv'
<1> SUFFICES ASSUME KeypadInv, [InputsNext]_inputVars PROVE KeypadInv'
  OBVIOUS
<1> USE DEF KeypadInv
<1>1. CASE KeypadRun!Press
  <2>1. KeypadRun!TypeOK'
    <3>1. PICK k \in KeypadRun!Keys : contacts' = (contacts \ {k}) \cup ({k} \ contacts)
      BY <1>1 DEF KeypadRun!Press
    <3>2. contacts' \subseteq KeypadRun!Keys
      BY <3>1 DEF KeypadRun!TypeOK
    <3>3. UNCHANGED <<Local_State, KPDPressedKey, NewValueflag, readings, changed>>
      BY <1>1 DEF KeypadRun!Press
    <3> QED BY <3>2, <3>3 DEF KeypadRun!TypeOK
  <2>2. UNCHANGED <<Local_State, KPDPressedKey, NewValueflag, readings, changed>>
    BY <1>1 DEF KeypadRun!Press
  <2>3. Remembered'
    BY <2>2 DEF Remembered
  <2>4. OfferedByChange'
    BY <2>2, Zenon DEF OfferedByChange
  <2>5. ReportedAfterTwoReadings'
    BY <2>2 DEF ReportedAfterTwoReadings, KeypadRun!ReportedAfterTwoReadings
  <2> QED BY <2>1, <2>3, <2>4, <2>5
<1>2. CASE KeypadRun!KPD_Runnable
  <2>1. KeypadRun!TypeOK'
    <3>1. KPDPressedKey' \in KeypadRun!Names
      BY <1>2, KeyFoundType DEF KeypadRun!KPD_Runnable
    <3>2. Local_State' \in [KeypadRun!Keys -> {"INIT", "PRESSED", "NOT_PRESSED"}]
      BY <1>2 DEF KeypadRun!KPD_Runnable, KeypadRun!TypeOK, KeypadRun!StateAfter
    <3>3. readings' \in [KeypadRun!Keys -> BOOLEAN \X BOOLEAN]
      <4> DEFINE pair(k) == <<readings[k][2], k \in contacts>>
      <4>1. ASSUME NEW k \in KeypadRun!Keys PROVE pair(k) \in BOOLEAN \X BOOLEAN
        <5>1. readings[k][2] \in BOOLEAN
          BY DEF KeypadRun!TypeOK
        <5>2. (k \in contacts) \in BOOLEAN
          OBVIOUS
        <5> DEFINE down == k \in contacts
        <5> HIDE DEF down
        <5>3. <<readings[k][2], down>> \in BOOLEAN \X BOOLEAN
          BY <5>1, <5>2, Zenon DEF down
        <5> QED BY <5>3 DEF down
      <4>2. readings' = [k \in KeypadRun!Keys |-> IF k \in KeypadRun!Scanned THEN pair(k) ELSE readings[k]]
        BY <1>2 DEF KeypadRun!KPD_Runnable
      <4> HIDE DEF pair
      <4> QED BY <4>1, <4>2 DEF KeypadRun!TypeOK
    <3> QED BY <1>2, <3>1, <3>2, <3>3 DEF KeypadRun!KPD_Runnable, KeypadRun!TypeOK, KeypadRun!IsNew
  <2>2. Remembered'
    BY <1>2 DEF KeypadRun!KPD_Runnable, KeypadRun!StateAfter, Remembered, KeypadRun!TypeOK
  <2>3. OfferedByChange'
    BY <1>2 DEF KeypadRun!KPD_Runnable, KeypadRun!IsNew, OfferedByChange
  <2>4. ReportedAfterTwoReadings'
    <3> SUFFICES ASSUME KPDPressedKey' # KeypadRun!NOT_SW_PRESSED
                 PROVE  \E k \in KeypadRun!Keys : KPD_ARRAY[k] = KPDPressedKey' /\ readings'[k] = <<TRUE, TRUE>>
      BY DEF ReportedAfterTwoReadings, KeypadRun!ReportedAfterTwoReadings
    <3>1. KPDPressedKey' = KeypadRun!KeyFound
      BY <1>2 DEF KeypadRun!KPD_Runnable
    <3>2. PICK k \in KeypadRun!Keys : /\ KPD_ARRAY[k] = KeypadRun!KeyFound
                                      /\ k \in KeypadRun!Scanned
                                      /\ k \in contacts
                                      /\ readings[k][2]
      BY <3>1, WhatIsFound
    <3>3. readings'[k] = <<readings[k][2], k \in contacts>>
      BY <1>2, <3>2 DEF KeypadRun!KPD_Runnable
    <3>4. readings[k][2] = TRUE /\ (k \in contacts) = TRUE
      BY <3>2 DEF KeypadRun!TypeOK
    <3> QED BY <3>1, <3>2, <3>3, <3>4
  <2> QED BY <2>1, <2>2, <2>3, <2>4
<1>3. ASSUME NEW r \in Readers, KeypadRun!Take(r) PROVE KeypadInv'
  <2>1. KeypadRun!TypeOK'
    BY <1>3 DEF KeypadRun!Take, KeypadRun!ReadFlag, KeypadRun!TypeOK
  <2> QED BY <1>3, <2>1 DEF KeypadRun!Take, KeypadRun!ReadFlag, Remembered, OfferedByChange,
                            ReportedAfterTwoReadings, KeypadRun!ReportedAfterTwoReadings
<1>4. CASE UNCHANGED keypad
  BY <1>4 DEF keypad, KeypadRun!TypeOK, Remembered, OfferedByChange, ReportedAfterTwoReadings,
              KeypadRun!ReportedAfterTwoReadings
<1> QED BY <1>1, <1>2, <1>3, <1>4
        DEF InputsNext, inputVars, KeypadStep, SwitchStep, TrafficStep, KeypadRun!Next

(* A key is reported only if it was down in its last two readings, however *)
(* many other keys cut the scans short in between.  (KYD.c:66)             *)
THEOREM KeysAreDebounced == InputsSpec => []ReportedAfterTwoReadings
<1>1. InputsInit => KeypadInv
  BY InitKeypadInv
<1>2. KeypadInv /\ [InputsNext]_inputVars => KeypadInv'
  BY NextKeypadInv
<1>3. KeypadInv => ReportedAfterTwoReadings
  BY DEF KeypadInv
<1> QED BY <1>1, <1>2, <1>3, PTL DEF InputsSpec

(* Whichever readers poll the keypad, no press is given to two of them or  *)
(* twice to one.  (KYD.c:123)                                              *)
THEOREM NoKeyTakenTwice == InputsSpec => EachTakenOnce
<1>1. KeypadInv /\ [InputsNext]_inputVars => [(\E r \in Readers : KeypadRun!Take(r)) => changed]_(KeypadRun!vars)
  BY DEF KeypadInv, OfferedByChange, KeypadRun!Take, KeypadRun!Available
<1> QED BY <1>1, InitKeypadInv, NextKeypadInv, PTL
        DEF InputsSpec, EachTakenOnce, KeypadRun!EachTakenOnce

----------------------------------------------------------------------------
(* The switches *)

(* Of as many equal samples as "same" says, the count is one behind, as it *)
(* starts with the second; but at power-on the sample before the first     *)
(* counts as 0, and the count of as many 0s is not behind.  A switch that  *)
(* has settled is reported as it was sampled.                              *)
Unsettled(s) == same[s] = 0 => Local_Counts[s] = 0 /\ Local_Prev[s] = 0 /\ SwitchState[s] = 0
PowerOn(s) == /\ Local_Prev[s] = 0 /\ SwitchState[s] = 0
              /\ Local_Counts[s] = same[s] \/ (same[s] = THRESHOLD /\ Local_Counts[s] = 0)
Counting(s) == same[s] \in 1 .. THRESHOLD => Local_Counts[s] = same[s] - 1 \/ PowerOn(s)
Settled(s) == same[s] > THRESHOLD => SwitchState[s] = Local_Prev[s]

CountBehind == \A s \in SwitchRun!Switches : Unsettled(s) /\ Counting(s) /\ Settled(s)

SwitchInv == SwitchRun!TypeOK /\ CountBehind

(* At power-on no switch has been sampled.                                 *)
LEMMA InitSwitchInv == InputsInit => SwitchInv
  BY InputsAssumption
     DEF InputsInit, SwitchRun!Init, SwitchInv, SwitchRun!TypeOK, SwitchRun!SwitchesAssumption,
         CountBehind, Unsettled, Counting, Settled

(* One switch in one run of the debouncer: its type, its count, and that   *)
(* its report only changes when it has settled.                            *)
LEMMA SwitchStepOfOne ==
    ASSUME SwitchInv, SwitchRun!HSWITCH_Runnable, NEW s \in SwitchRun!Switches
    PROVE  /\ SwitchState'[s] \in {0, 1} /\ Local_Prev'[s] \in {0, 1}
           /\ Local_Counts'[s] \in 0 .. THRESHOLD - 1 /\ same'[s] \in 0 .. THRESHOLD + 1
           /\ Unsettled(s)' /\ Counting(s)' /\ Settled(s)'
           /\ SwitchState'[s] # SwitchState[s] => same'[s] > THRESHOLD
<1> DEFINE sample == SwitchRun!Sample(s)
           count == IF sample = Local_Prev[s] THEN Local_Counts[s] + 1 ELSE 0
<1>1. sample \in {0, 1}
  BY DEF SwitchRun!Sample, SwitchRun!Level
<1>2. /\ SwitchState'[s] = (IF count = THRESHOLD THEN sample ELSE SwitchState[s])
      /\ Local_Counts'[s] = (IF count = THRESHOLD THEN 0 ELSE count)
      /\ Local_Prev'[s] = sample
      /\ same'[s] = (IF sample # Local_Prev[s] \/ same[s] = 0 THEN 1
                     ELSE IF same[s] > THRESHOLD THEN same[s] ELSE same[s] + 1)
  BY DEF SwitchRun!HSWITCH_Runnable, SwitchRun!Crossed, SwitchRun!Count, SwitchRun!CountAfter,
         SwitchRun!Restarted
<1>3. /\ SwitchState[s] \in {0, 1} /\ Local_Prev[s] \in {0, 1}
      /\ Local_Counts[s] \in 0 .. THRESHOLD - 1 /\ same[s] \in 0 .. THRESHOLD + 1
      /\ THRESHOLD \in Nat \ {0}
      /\ Unsettled(s) /\ Counting(s) /\ Settled(s)
  BY InputsAssumption DEF SwitchInv, SwitchRun!TypeOK, CountBehind, SwitchRun!SwitchesAssumption
<1> HIDE DEF sample
<1>4. CASE sample # Local_Prev[s]
  BY <1>1, <1>2, <1>3, <1>4 DEF Unsettled, Counting, Settled, PowerOn
<1>5. CASE sample = Local_Prev[s] /\ same[s] = 0
  BY <1>1, <1>2, <1>3, <1>5 DEF Unsettled, Counting, Settled, PowerOn
<1>6. CASE sample = Local_Prev[s] /\ same[s] \in 1 .. THRESHOLD /\ PowerOn(s)
  BY <1>1, <1>2, <1>3, <1>6 DEF Unsettled, Counting, Settled, PowerOn
<1>7. CASE sample = Local_Prev[s] /\ same[s] \in 1 .. THRESHOLD /\ Local_Counts[s] = same[s] - 1
  BY <1>1, <1>2, <1>3, <1>7 DEF Unsettled, Counting, Settled, PowerOn
<1>8. CASE sample = Local_Prev[s] /\ same[s] > THRESHOLD
  BY <1>1, <1>2, <1>3, <1>8 DEF Unsettled, Counting, Settled, PowerOn
<1> QED BY <1>3, <1>4, <1>5, <1>6, <1>7, <1>8 DEF Counting

(* No bounce and no run of the debouncer ends the invariant.               *)
LEMMA NextSwitchInv == SwitchInv /\ [InputsNext]_inputVars => SwitchInv'
<1> SUFFICES ASSUME SwitchInv, [InputsNext]_inputVars PROVE SwitchInv'
  OBVIOUS
<1>1. CASE SwitchRun!Bounce
  <2>1. closed' \subseteq SwitchRun!Wired
    BY <1>1 DEF SwitchInv, SwitchRun!TypeOK, SwitchRun!Bounce
  <2>2. UNCHANGED <<SwitchState, Local_Prev, Local_Counts, same>>
    BY <1>1 DEF SwitchRun!Bounce
  <2> QED BY <2>1, <2>2 DEF SwitchInv, SwitchRun!TypeOK, CountBehind, Unsettled, Counting, Settled, PowerOn
<1>2. CASE SwitchRun!HSWITCH_Runnable
  <2>1. SwitchRun!TypeOK'
    BY <1>2, SwitchStepOfOne DEF SwitchRun!TypeOK, SwitchInv, SwitchRun!HSWITCH_Runnable
  <2>2. CountBehind'
    BY <1>2, SwitchStepOfOne DEF CountBehind
  <2> QED BY <2>1, <2>2 DEF SwitchInv
<1>3. CASE UNCHANGED switch
  BY <1>3 DEF switch, SwitchInv, SwitchRun!TypeOK, CountBehind, Unsettled, Counting, Settled, PowerOn
<1> QED BY <1>1, <1>2, <1>3 DEF InputsNext, inputVars, KeypadStep, SwitchStep, TrafficStep, SwitchRun!Next

(* A switch that was sampled alike once more than the threshold is         *)
(* reported as it was sampled, pulled up or down.  (SWITCH.c:63)           *)
THEOREM SettledIsReported == InputsSpec => []SwitchesSettle
<1>1. SwitchInv => SwitchesSettle
  <2> SUFFICES ASSUME SwitchInv, NEW s \in SwitchRun!Wired, same[s] > THRESHOLD
               PROVE  SwitchRun!Pressed(s) <=> (Local_Prev[s] = 1) = (SWITCH[s] = "GPIO_MODE_IN_PD")
    BY DEF SwitchesSettle, SwitchRun!SwitchesSettle
  <2>1. SwitchState[s] = Local_Prev[s] /\ Local_Prev[s] \in {0, 1}
    BY DEF SwitchInv, SwitchRun!TypeOK, CountBehind, Settled, SwitchRun!Wired
  <2> QED BY <2>1 DEF SwitchRun!Pressed
<1> QED BY <1>1, InitSwitchInv, NextSwitchInv, PTL DEF InputsSpec

(* A report never changes before as many equal samples: no bounce is       *)
(* reported.  (SWITCH.c:63)                                                *)
THEOREM BouncesAreFiltered == InputsSpec => NoBounceReported
<1>1. SwitchInv /\ [InputsNext]_inputVars =>
        [\A s \in SwitchRun!Switches : SwitchState'[s] # SwitchState[s] => same'[s] > THRESHOLD]_(SwitchRun!vars)
  <2> SUFFICES ASSUME SwitchInv, [InputsNext]_inputVars, NEW s \in SwitchRun!Switches,
                      SwitchState'[s] # SwitchState[s]
               PROVE  same'[s] > THRESHOLD
    OBVIOUS
  <2>1. SwitchRun!HSWITCH_Runnable
    BY DEF InputsNext, inputVars, keypad, switch, traffic, KeypadStep, SwitchStep, TrafficStep, SwitchRun!Next,
           SwitchRun!Bounce
  <2> QED BY <2>1, SwitchStepOfOne
<1> QED BY <1>1, InitSwitchInv, NextSwitchInv, PTL
        DEF InputsSpec, NoBounceReported, SwitchRun!NoBounceReported

----------------------------------------------------------------------------
(* The traffic light *)

(* Where a round is, of its seven runs, by what the code keeps: yellow     *)
(* comes after the three runs of green and after the two of red, and only  *)
(* Prev_State tells the one from the other.                                *)
Position(state, before, elapsed) ==
    CASE state = "GREEN" -> elapsed \div TrafficRun!PERIODICITY_SEC
      [] state = "RED" -> 4 + elapsed \div TrafficRun!PERIODICITY_SEC
      [] state = "YELLOW" -> IF before = "GREEN" THEN 3 ELSE 6

Elapses == [GREEN |-> {0, 2000, 4000}, YELLOW |-> {0}, RED |-> {0, 2000}]

LampInv == /\ State \in DOMAIN Elapses
           /\ Prev_State \in {"GREEN", "RED"}
           /\ Local_Sec \in Elapses[State]
           /\ runs = Position(State, Prev_State, Local_Sec)

(* At power-on a round begins.                                             *)
LEMMA InitLamps == InputsInit => LampInv
  BY DEF InputsInit, TrafficRun!Init, LampInv, Position, Elapses, TrafficRun!PERIODICITY_SEC

(* A run lights the lamp that is due and goes on in the round.             *)
LEMMA NextLamp ==
    ASSUME LampInv, TrafficRun!TrafficLights
    PROVE  LampInv' /\ TrafficRun!LampOf[State] = TrafficRun!Round[runs + 1]
<1> USE DEF LampInv, Position, Elapses, TrafficRun!PERIODICITY_SEC, TrafficRun!TrafficLights,
            TrafficRun!Turn, TrafficRun!Elapsed, TrafficRun!Duration, TrafficRun!AfterYellow,
            TrafficRun!LampOf, TrafficRun!Round
<1>1. CASE State = "GREEN" /\ Local_Sec = 0
  BY <1>1
<1>2. CASE State = "GREEN" /\ Local_Sec = 2000
  BY <1>2
<1>3. CASE State = "GREEN" /\ Local_Sec = 4000
  BY <1>3
<1>4. CASE State = "YELLOW" /\ Prev_State = "GREEN"
  BY <1>4
<1>5. CASE State = "YELLOW" /\ Prev_State = "RED"
  BY <1>5
<1>6. CASE State = "RED" /\ Local_Sec = 0
  BY <1>6
<1>7. CASE State = "RED" /\ Local_Sec = 2000
  BY <1>7
<1> QED BY <1>1, <1>2, <1>3, <1>4, <1>5, <1>6, <1>7

(* The light, and nothing else, moves the round on.                        *)
LEMMA NextLamps == LampInv /\ [InputsNext]_inputVars => LampInv'
<1> SUFFICES ASSUME LampInv, [InputsNext]_inputVars PROVE LampInv'
  OBVIOUS
<1>1. CASE TrafficRun!TrafficLights
  BY <1>1, NextLamp
<1>2. CASE UNCHANGED traffic
  BY <1>2 DEF traffic, LampInv
<1> QED BY <1>1, <1>2 DEF InputsNext, inputVars, KeypadStep, SwitchStep, TrafficStep

(* The pin a lamp is put on by is high exactly for the lamp that is on and *)
(* active high, or off and active low.                                     *)
LEMMA PinShows ==
    ASSUME NEW lamp \in TrafficRun!Lamps, NEW l \in TrafficRun!Lamps
    PROVE  (TrafficRun!OnlyOn(lamp)[l] = IF LEDS[l] = "LED_ACTIVE_HIGH" THEN 1 ELSE 0) <=> l = lamp
<1>1. TrafficRun!OnlyOn(lamp)[l] = TrafficRun!PinFor(l, l = lamp)
  BY DEF TrafficRun!OnlyOn
<1>2. CASE l = lamp
  BY <1>1, <1>2 DEF TrafficRun!PinFor
<1>3. CASE l # lamp
  BY <1>1, <1>3 DEF TrafficRun!PinFor
<1> QED BY <1>2, <1>3

(* Each run of the light shows the lamp whose turn it is and no other,     *)
(* however the LEDs are connected.  (Traffic_Light.c:44)                   *)
THEOREM LampsKeepRound == InputsSpec => LampsFollowRound
<1>1. LampInv /\ [InputsNext]_inputVars =>
        [runs' # runs => \A l \in TrafficRun!Lamps :
            (pins'[l] = IF LEDS[l] = "LED_ACTIVE_HIGH" THEN 1 ELSE 0)
                <=> l = TrafficRun!Round[runs + 1]]_(TrafficRun!vars)
  <2> SUFFICES ASSUME LampInv, [InputsNext]_inputVars, runs' # runs, NEW l \in TrafficRun!Lamps
               PROVE  (pins'[l] = IF LEDS[l] = "LED_ACTIVE_HIGH" THEN 1 ELSE 0)
                          <=> l = TrafficRun!Round[runs + 1]
    OBVIOUS
  <2>1. TrafficRun!TrafficLights
    BY DEF InputsNext, inputVars, traffic, KeypadStep, SwitchStep, TrafficStep
  <2>2. pins' = TrafficRun!OnlyOn(TrafficRun!Round[runs + 1])
    BY <2>1, NextLamp DEF TrafficRun!TrafficLights
  <2>3. TrafficRun!LampOf[State] \in TrafficRun!Lamps
    BY DEF LampInv, Elapses, TrafficRun!LampOf, TrafficRun!Lamps
  <2> QED BY <2>1, <2>2, <2>3, NextLamp, PinShows
<1> QED BY <1>1, InitLamps, NextLamps, PTL
        DEF InputsSpec, LampsFollowRound, TrafficRun!LampsFollowRound

----------------------------------------------------------------------------
(* The scheduler *)

Booting == pc = "boot" => /\ PendingTicks = 0
                          /\ passes = 0
                          /\ last = [i \in Slots |-> 0]

(* The copy in the register is behind the counter, never ahead of it. *)
RegisterBehind == /\ (pc = "load") => PendingTicks > 0
                  /\ (pc = "store") => (0 < reg /\ reg <= PendingTicks)

PassCounted == pc = "sched" => passes > 0

IInv == /\ TypeOK
        /\ Booting
        /\ RegisterBehind
        /\ PassCounted
        /\ NoUnpaidPass
        /\ NeverOverdue

(* Initially the strengthened invariant holds. *)
LEMMA InitIInv == Init => IInv
  BY SchedAssumption
     DEF Init, IInv, TypeOK, Stages, Booting, RegisterBehind, PassCounted, NoUnpaidPass, NeverOverdue

(* Every step of the interrupt and of the main context keeps it. *)
LEMMA NextIInv == IInv /\ [Next]_vars => IInv'
<1> USE SchedAssumption
<1> SUFFICES ASSUME IInv, [Next]_vars PROVE IInv'
  OBVIOUS
<1>1. CASE TickCb
  BY <1>1 DEF IInv, TickCb, Incremented, TypeOK, Stages, Booting, RegisterBehind, PassCounted,
              NoUnpaidPass, NeverOverdue, Done, NextDue
<1>2. CASE Sched_Init
  <2>1. TypeOK' /\ Booting' /\ RegisterBehind' /\ PassCounted' /\ NoUnpaidPass'
    BY <1>2 DEF IInv, Sched_Init, TypeOK, Stages, Booting, RegisterBehind, PassCounted, NoUnpaidPass
  <2>2. NeverOverdue'
    BY <1>2 DEF IInv, Sched_Init, TypeOK, Booting, NeverOverdue, Done, NextDue
  <2> QED BY <2>1, <2>2 DEF IInv
<1>3. CASE StartSched
  BY <1>3 DEF IInv, StartSched, TypeOK, Stages, Booting, RegisterBehind, PassCounted,
              NoUnpaidPass, NeverOverdue, Done, NextDue
<1>4. CASE PollHoisted
  BY <1>4 DEF IInv, PollHoisted, TypeOK, Stages, Booting, RegisterBehind, PassCounted,
              NoUnpaidPass, NeverOverdue, Done, NextDue
<1>5. CASE PollPending
  BY <1>5 DEF IInv, PollPending, Pending, TypeOK, Stages, Booting, RegisterBehind, PassCounted,
              NoUnpaidPass, NeverOverdue, Done, NextDue
<1>6. CASE LoadPending
  BY <1>6 DEF IInv, LoadPending, TypeOK, Stages, Booting, RegisterBehind, PassCounted,
              NoUnpaidPass, NeverOverdue, Done, NextDue
<1>7. CASE StorePending
  <2>1. Dec32(reg) = reg - 1 /\ reg \in Nat \ {0} /\ reg <= PendingTicks
    BY <1>7 DEF IInv, TypeOK, StorePending, Dec32, RegisterBehind
  <2>2. TypeOK'
    BY <1>7, <2>1 DEF IInv, StorePending, TypeOK, Stages, Slots
  <2>3. Booting' /\ RegisterBehind' /\ PassCounted' /\ NoUnpaidPass'
    BY <1>7, <2>1 DEF IInv, StorePending, TypeOK, Booting, RegisterBehind, PassCounted,
                      NoUnpaidPass
  <2>4. \A i \in Slots : Done(i)' = Done(i) /\ NextDue(i)' = NextDue(i)
    BY <1>7 DEF IInv, StorePending, TypeOK, Done, NextDue, Slots
  <2>5. NeverOverdue'
    BY <1>7, <2>4 DEF IInv, StorePending, NeverOverdue
  <2> QED BY <2>2, <2>3, <2>5 DEF IInv
<1>8. CASE SchedSlot
  <2>1. TypeOK'
    <3>1. idx \in Slots /\ (idx + 1 = RUNNABLE_NUM \/ idx + 1 \in Slots)
      BY <1>8 DEF IInv, TypeOK, SchedSlot, Slots
    <3>2. Remaining(idx) \in 0 .. U32MAX
      BY <3>1 DEF IInv, TypeOK, Remaining, Dec32
    <3>3. RemainTimeMs' \in [Slots -> 0 .. U32MAX] /\ last' \in [Slots -> Nat]
      BY <1>8, <3>2 DEF IInv, TypeOK, SchedSlot
    <3>4. pc' \in Stages /\ idx' \in 0 .. RUNNABLE_NUM /\ (pc' = "sched" => idx' \in Slots)
      BY <1>8, <3>1 DEF SchedSlot, Stages, Slots
    <3> QED BY <1>8, <3>3, <3>4 DEF IInv, TypeOK, SchedSlot
  <2>2. Booting' /\ RegisterBehind' /\ PassCounted' /\ NoUnpaidPass'
    BY <1>8 DEF IInv, SchedSlot, TypeOK, Stages, Booting, RegisterBehind, PassCounted, NoUnpaidPass
  <2>3. ASSUME NEW i \in Slots, CallBack[i]
        PROVE  Done(i)' < NextDue(i)' /\ RemainTimeMs'[i] = NextDue(i)' - 1 - Done(i)'
    <3>1. Done(i) < NextDue(i) /\ RemainTimeMs[i] = NextDue(i) - 1 - Done(i)
      BY <1>8, <2>3 DEF IInv, SchedSlot, NeverOverdue
    <3>2. CASE i = idx
      <4>1. Done(i) = passes - 1 /\ Done(i)' = passes
        BY <1>8, <3>2 DEF IInv, SchedSlot, TypeOK, Done, Slots
      <4>2. CASE Due(i)
        <5>1. NextDue(i)' = passes + EffectivePeriod(i)
          BY <1>8, <3>2, <4>2 DEF IInv, PassCounted, SchedSlot, TypeOK, NextDue, EffectivePeriod
        <5>2. RemainTimeMs'[i] = EffectivePeriod(i) - 1 /\ EffectivePeriod(i) \in Nat \ {0}
          BY <1>8, <3>2, <4>2 DEF IInv, SchedSlot, TypeOK, Remaining, Dec32, EffectivePeriod
        <5> QED BY <4>1, <5>1, <5>2 DEF IInv, TypeOK
      <4>3. CASE ~Due(i)
        <5>1. NextDue(i)' = NextDue(i)
          BY <1>8, <3>2, <4>3 DEF SchedSlot, NextDue
        <5>2. RemainTimeMs[i] # 0
          BY <2>3, <4>3 DEF Due
        <5>3. RemainTimeMs'[i] = RemainTimeMs[i] - 1 /\ RemainTimeMs[i] \in Nat
          BY <1>8, <3>2, <4>3, <5>2 DEF IInv, SchedSlot, TypeOK, Remaining, Dec32
        <5> QED BY <3>1, <4>1, <5>1, <5>2, <5>3
                DEF IInv, TypeOK, NextDue, EffectivePeriod
      <4> QED BY <4>2, <4>3
    <3>3. CASE i # idx
      <4>1. Done(i)' = Done(i)
        BY <1>8, <3>3 DEF IInv, SchedSlot, TypeOK, Done, Slots
      <4>2. NextDue(i)' = NextDue(i) /\ RemainTimeMs'[i] = RemainTimeMs[i]
        BY <1>8, <3>3 DEF IInv, SchedSlot, TypeOK, NextDue
      <4> QED BY <3>1, <4>1, <4>2
    <3> QED BY <3>2, <3>3
  <2> QED BY <2>1, <2>2, <2>3 DEF IInv, NeverOverdue
<1>9. CASE UNCHANGED vars
  BY <1>9 DEF IInv, vars, TypeOK, Booting, RegisterBehind, PassCounted, NoUnpaidPass,
              NeverOverdue, Done, NextDue
<1> QED
  BY <1>1, <1>2, <1>3, <1>4, <1>5, <1>6, <1>7, <1>8, <1>9 DEF Next, Loop, PollEmpty

(* The strengthened invariant holds in every reachable state. *)
THEOREM Invariance == Spec => []IInv
  BY InitIInv, NextIInv, PTL DEF Spec

(* The variables stay in their C types' ranges and idx within the table. *)
THEOREM TypeCorrect == Spec => []TypeOK
<1>1. IInv => TypeOK BY DEF IInv
<1> QED BY Invariance, <1>1, PTL

(* No interleaving of TickCb with PendingTicks-- buys an extra pass. *)
THEOREM PassesArePaid == Spec => []NoUnpaidPass
<1>1. IInv => NoUnpaidPass BY DEF IInv
<1> QED BY Invariance, <1>1, PTL

(* Every runnable with a callback runs by the pass its table entry names. *)
THEOREM RunnablesOnTime == Spec => []NeverOverdue
<1>1. IInv => NeverOverdue BY DEF IInv
<1> QED BY Invariance, <1>1, PTL

(* A tick is lost only in the window of PendingTicks--. *)
THEOREM LossIsLocal == Spec => LossOnlyInDecrement
<1>1. IInv /\ [Next]_vars => [Missing' > Missing => pc = "store"]_vars
  <2> SUFFICES ASSUME IInv, Next, pc # "store" PROVE ~(Missing' > Missing)
    BY DEF vars
  <2>1. ~StorePending BY DEF StorePending
  <2>2. CASE TickCb
    BY <2>2 DEF IInv, TypeOK, TickCb, Incremented, Missing
  <2>3. CASE ~TickCb
    <3>1. UNCHANGED <<PendingTicks, ticks, passes>>
      BY <2>1, <2>3 DEF Next, Loop, Sched_Init, StartSched, PollEmpty, PollHoisted, PollPending,
                        LoadPending, SchedSlot, vars
    <3> QED BY <3>1 DEF IInv, TypeOK, Missing
  <2> QED BY <2>2, <2>3
<1> QED BY Invariance, <1>1, PTL DEF Spec, LossOnlyInDecrement

----------------------------------------------------------------------------
(* The refinement *)

Live == {i \in Slots : CallBack[i]}

(* At power-up every slot has been through no pass. *)
LEMMA InitTasks == Init => Tasks!Init
  BY DEF Init, Tasks!Init, Done

(* A step of the scheduler is one slot's turn or leaves the clocks alone. *)
LEMMA NextTasks ==
    IInv /\ [Next]_vars => [Tasks!Next]_<<[i \in Slots |-> Done(i)], last>>
<1> USE SchedAssumption
<1> SUFFICES ASSUME IInv, Next
             PROVE  \/ Tasks!Next
                    \/ UNCHANGED <<[i \in Slots |-> Done(i)], last>>
  BY DEF vars, Done
<1> DEFINE Clock == [i \in Slots |-> Done(i)]
<1>1. CASE SchedSlot
  <2>1. idx \in Slots /\ passes \in Nat \ {0}
    BY <1>1 DEF IInv, TypeOK, SchedSlot, PassCounted
  <2>2. \A j \in Slots : Clock[j] = IF j < idx THEN passes ELSE passes - 1
    BY <1>1, <2>1 DEF SchedSlot, Done, Slots
  <2>3. \A j \in Slots : Clock'[j] = IF j <= idx THEN passes ELSE passes - 1
    BY <1>1, <2>1 DEF SchedSlot, Done, Slots
  <2>4. Clock[idx] + 1 = passes
    BY <2>1, <2>2 DEF Slots
  <2>5. Tasks!Turn(idx)
    BY <2>1, <2>2 DEF Tasks!Turn, Slots
  <2>6. Clock' = [Clock EXCEPT ![idx] = @ + 1]
    <3> HIDE DEF Clock
    <3>1. Clock = [j \in Slots |-> Clock[j]] /\ Clock' = [j \in Slots |-> Clock'[j]]
      BY DEF Clock
    <3>2. \A j \in Slots : Clock'[j] = IF j = idx THEN Clock[j] + 1 ELSE Clock[j]
      BY <2>1, <2>2, <2>3, <2>4 DEF Slots
    <3> QED BY <3>1, <3>2
  <2>7. Due(idx) <=> (idx \in Live /\ Clock[idx] + 1 = Tasks!NextDue(idx))
    <3>1. Tasks!NextDue(idx) = NextDue(idx)
      BY <2>1 DEF Tasks!NextDue, NextDue
    <3>2. Done(idx) = passes - 1
      BY <1>1, <2>1 DEF SchedSlot, Done, Slots
    <3>3. NextDue(idx) \in Nat
      BY <2>1 DEF IInv, TypeOK, NextDue, EffectivePeriod
    <3>4. CallBack[idx] => RemainTimeMs[idx] = NextDue(idx) - passes
      BY <1>1, <2>1, <3>2, <3>3 DEF IInv, NeverOverdue, SchedSlot
    <3> QED BY <2>1, <2>4, <3>1, <3>3, <3>4 DEF Due, Live
  <2>8. last' = IF Due(idx) THEN [last EXCEPT ![idx] = Clock[idx] + 1] ELSE last
    <3> HIDE DEF Clock
    <3> QED BY <1>1, <2>4 DEF SchedSlot
  <2>9. Tasks!Take(idx)
    BY <2>5, <2>6, <2>7, <2>8 DEF Tasks!Take, Live
  <2> QED BY <2>1, <2>9 DEF Tasks!Next
<1>2. CASE StorePending
  <2>1. \A i \in Slots : Done(i)' = Done(i)
    BY <1>2 DEF IInv, TypeOK, StorePending, Done, Slots
  <2> QED BY <1>2, <2>1 DEF StorePending
<1>3. CASE Next /\ ~SchedSlot /\ ~StorePending
  <2>1. \/ UNCHANGED <<passes, last, idx>> /\ pc # "sched" /\ pc' # "sched"
        \/ UNCHANGED <<passes, last, idx, pc>>
    BY <1>3 DEF Next, Loop, TickCb, Sched_Init, StartSched, PollEmpty, PollHoisted, PollPending,
                LoadPending, vars
  <2> QED BY <2>1 DEF Done
<1> QED BY <1>1, <1>2, <1>3

(* Sched implements PeriodicTasks: the runnables run in table order, each in
   the passes its first delay and its period name and in no other. *)
THEOREM SchedImplementsTasks == Spec => RunsPeriodicTasks
  BY InitTasks, NextTasks, Invariance, PTL DEF Spec, RunsPeriodicTasks, Tasks!Spec
=============================================================================
