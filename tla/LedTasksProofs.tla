--------------------------- MODULE LedTasksProofs ---------------------------
(***************************************************************************)
(* What LedTasks promises for every set of tasks, every period and every   *)
(* width of the tick counter.  IInv relates each list item and each        *)
(* xLastWakeTime to the task's true due tick through the wrap.             *)
(***************************************************************************)
EXTENDS LedTasks, WellFoundedInduction, TLAPS

(* Ticks of the kernel's clock until the due tick of t. *)
Lag(t) == ahead[t] + xPendedTicks

W == portMAX_DELAY + 1

(* The list a task is in, and its item's value, are its due tick. *)
Listed == /\ \A t \in delayed : /\ Lag(t) > 0
                                /\ wake[t] = xTickCount + Lag(t)
                                /\ xNextTaskUnblockTime <= wake[t]
          /\ \A t \in overflow : /\ Lag(t) > 0
                                 /\ wake[t] + W = xTickCount + Lag(t)
          /\ \A t \in Blocked : lastWake[t] = wake[t]

(* A ready task's xLastWakeTime is its due tick, which may lie before the
   wrap, and xTaskDelayUntil can tell. *)
Timed == \A t \in Tasks \ Blocked :
            /\ Lag(t) <= 0
            /\ pc[t] # "start" =>
                   lastWake[t] = IF xTickCount + Lag(t) >= 0
                                 THEN xTickCount + Lag(t)
                                 ELSE xTickCount + Lag(t) + W

InCall == {"delay", "resume", "replay"}

(* Only the running task is inside the suspended part of xTaskDelayUntil,
   and only then are ticks pended. *)
Exclusive == /\ \A t \in Tasks : pc[t] \in InCall => t = current /\ ~pendSV
             /\ uxSchedulerSuspended <=> \E t \in Tasks : pc[t] \in {"delay", "resume"}
             /\ xPendedTicks > 0 => \E t \in Tasks : pc[t] \in InCall

(* A blocked task does not get past its call. *)
Parked == \A t \in Blocked : /\ pc[t] \in {"resume", "replay", "yield", "load"}
                             /\ pc[t] = "load" /\ t = current => pendSV

IInv == TypeOK /\ Listed /\ Timed /\ Exclusive /\ Parked

(* The register of a preempted toggle is stale only in the bits of tasks of
   higher priority. *)
Fresh == \A t \in Tasks : pc[t] = "store" =>
            \A u \in Tasks : u <= t => reg[t][u] = ODR[u]

----------------------------------------------------------------------------
(* A set of natural numbers has a least element. *)
LEMMA LeastNat == ASSUME NEW S \in SUBSET Nat, S # {}
                  PROVE  \E x \in S : \A y \in S : x <= y
<1> DEFINE R == {ss \in Nat \X Nat : ss[1] < ss[2]}
<1>1. IsWellFoundedOn(R, Nat)
  BY NatLessThanWellFounded DEF OpToRel
<1> HIDE DEF R
<1>2. PICK x \in S : \A y \in S : <<y, x>> \notin R
  BY <1>1, WFMin
<1>3. ASSUME NEW y \in S, y < x PROVE FALSE
  <2>1. <<y, x>> \in R
    BY <1>3 DEF R
  <2> QED BY <2>1, <1>2
<1> QED BY <1>3

(* Highest picks the highest of a set of priorities. *)
LEMMA HighestMember == ASSUME NEW S, S # {}, S \subseteq Tasks \cup {Idle}
                       PROVE  Highest(S) \in S /\ \A u \in S : u <= Highest(S)
<1> USE LedTasksAssumption
<1> DEFINE Room == {configMAX_PRIORITIES - t : t \in S}
<1>1. \A t \in S : t \in Nat /\ t <= configMAX_PRIORITIES
  BY DEF Idle
<1>2. Room \in SUBSET Nat /\ Room # {}
  <2>1. \A t \in S : configMAX_PRIORITIES - t \in Nat
    BY <1>1
  <2> QED BY <2>1
<1>3. PICK r \in Room : \A q \in Room : r <= q
  BY <1>2, LeastNat
<1>4. PICK t \in S : r = configMAX_PRIORITIES - t
  OBVIOUS
<1>5. ASSUME NEW u \in S PROVE u <= t
  <2>1. configMAX_PRIORITIES - u \in Room
    OBVIOUS
  <2>2. r <= configMAX_PRIORITIES - u
    BY <2>1, <1>3
  <2> HIDE DEF Room
  <2> QED BY <2>2, <1>1, <1>4
<1> QED BY <1>5 DEF Highest

(* Earliest is no later than any wake time of the list. *)
LEMMA EarliestBound == ASSUME NEW S, S \subseteq Tasks, wake \in [Tasks -> Ticks]
                       PROVE  /\ Earliest(S) \in Ticks
                              /\ \A t \in S : Earliest(S) <= wake[t]
<1> USE LedTasksAssumption
<1>1. CASE S = {}
  BY <1>1 DEF Earliest, Ticks
<1>2. CASE S # {}
  <2> DEFINE Times == {wake[t] : t \in S}
  <2>1. Times \in SUBSET Nat /\ Times # {}
    <3>1. \A t \in S : wake[t] \in Nat
      BY DEF Ticks
    <3> QED BY <1>2, <3>1
  <2>2. PICK w \in Times : \A v \in Times : w <= v
    BY <2>1, LeastNat
  <2>3. PICK t \in S : w = wake[t]
    OBVIOUS
  <2>4. \A u \in S : wake[t] <= wake[u]
    BY <2>2, <2>3
  <2>5. /\ (CHOOSE x \in S : \A u \in S : wake[x] <= wake[u]) \in S
        /\ \A u \in S : wake[CHOOSE x \in S : \A v \in S : wake[x] <= wake[v]] <= wake[u]
    BY <2>4
  <2> QED BY <1>2, <2>5 DEF Earliest
<1> QED BY <1>1, <1>2

(* The clock goes on by one tick: a task of the list in use is woken at its
   due tick and not before, and at the wrap the list left behind is empty
   and the other one takes its place with the same due ticks. *)
LEMMA TickStep ==
    ASSUME TypeOK, Listed, Timed, IncrementTick,
           wake' = wake, lastWake' = lastWake, pc' = pc,
           \A t \in Tasks : Lag(t)' = Lag(t) - 1,
           \A t \in Tasks \ Blocked : Lag(t) > -portMAX_DELAY
    PROVE  /\ xTickCount' \in Ticks
           /\ xNextTaskUnblockTime' \in Ticks
           /\ Blocked' \subseteq Blocked
           /\ Woken = Blocked \ Blocked'
           /\ delayed' \subseteq Tasks /\ overflow' \subseteq Tasks
           /\ Listed'
           /\ Timed'
<1> USE LedTasksAssumption
<1> DEFINE Left(t) == Lag(t) - 1
<1>0. /\ xTickCount \in Ticks /\ wake \in [Tasks -> Ticks] /\ Blocked \subseteq Tasks
      /\ xNextTaskUnblockTime \in Ticks
      /\ \A t \in Tasks : Lag(t) \in Int
  BY DEF TypeOK, Blocked, Lag
<1>1. /\ NewTick \in Ticks
      /\ Wraps => xTickCount = portMAX_DELAY
      /\ ~Wraps => NewTick = xTickCount + 1
  BY <1>0 DEF NewTick, Wraps, Plus, Ticks
<1>d. ASSUME NEW t \in delayed
      PROVE  /\ t \in Tasks /\ wake[t] \in Ticks /\ Lag(t) \in Int
             /\ Lag(t) > 0 /\ wake[t] = xTickCount + Lag(t)
  BY <1>0 DEF Listed, Blocked
<1>o. ASSUME NEW t \in overflow
      PROVE  /\ t \in Tasks /\ wake[t] \in Ticks /\ Lag(t) \in Int
             /\ Lag(t) > 0 /\ wake[t] + (portMAX_DELAY + 1) = xTickCount + Lag(t)
  BY <1>0 DEF Listed, Blocked, W, Ticks
<1>2. ASSUME Wraps, NEW t \in delayed PROVE FALSE
  BY <1>0, <1>1, <1>2, <1>d DEF Ticks
<1>3. ASSUME NEW t \in List
      PROVE  t \in Tasks /\ Left(t) >= 0 /\ wake[t] = NewTick + Left(t)
  <2>1. CASE Wraps
    <3>1. t \in overflow /\ NewTick = 0 /\ xTickCount = portMAX_DELAY
      BY <2>1, <1>1 DEF List, Wraps
    <3> QED BY <3>1, <1>o DEF Ticks
  <2>2. CASE ~Wraps
    <3>1. t \in delayed /\ NewTick = xTickCount + 1
      BY <2>2, <1>1 DEF List
    <3> QED BY <3>1, <1>0, <1>d DEF Ticks
  <2> QED BY <2>1, <2>2
<1>4. UnblockAt \in Ticks /\ \A t \in List : UnblockAt <= wake[t]
  <2>1. CASE Wraps
    BY <2>1, <1>0, EarliestBound DEF UnblockAt, List, Blocked
  <2>2. CASE ~Wraps
    BY <2>2, <1>0 DEF UnblockAt, List, Listed
  <2> QED BY <2>1, <2>2
<1>5. Woken = {t \in List : Left(t) = 0}
  <2>1. ASSUME NEW t \in List
        PROVE  Left(t) = 0 <=> NewTick >= UnblockAt /\ Expired(t)
    <3>0. t \in Tasks /\ Lag(t) \in Int
      BY <1>0, <1>3
    <3>1. /\ Left(t) \in Int /\ Left(t) >= 0 /\ wake[t] = NewTick + Left(t)
          /\ UnblockAt <= wake[t]
      BY <3>0, <1>3, <1>4
    <3> HIDE DEF Left
    <3> QED BY <3>1, <1>1, <1>4 DEF Expired, Ticks
  <2> HIDE DEF Left
  <2> QED BY <2>1 DEF Woken
<1>6. /\ xTickCount' = NewTick
      /\ delayed' = List \ Woken
      /\ overflow' = IF Wraps THEN {} ELSE overflow
      /\ Blocked' = Blocked \ Woken
      /\ Woken \subseteq Blocked
  <2>1. CASE Wraps
    BY <2>1, <1>2, <1>5 DEF IncrementTick, List, Blocked
  <2>2. CASE ~Wraps
    <3>1. delayed \cap overflow = {}
      BY <1>0, <1>d, <1>o DEF Ticks
    <3>2. Woken \subseteq delayed
      BY <2>2, <1>5 DEF List
    <3> QED BY <2>2, <3>1, <3>2 DEF IncrementTick, List, Blocked
  <2> QED BY <2>1, <2>2
<1>7. /\ xNextTaskUnblockTime' \in Ticks
      /\ \A t \in delayed' : xNextTaskUnblockTime' <= wake[t]
  <2>1. CASE NewTick >= UnblockAt
    <3>1. List \ Woken \subseteq Tasks
      BY <1>3
    <3> QED BY <2>1, <1>0, <1>6, <3>1, EarliestBound DEF IncrementTick
  <2>2. CASE ~(NewTick >= UnblockAt)
    BY <2>2, <1>4, <1>6 DEF IncrementTick
  <2> QED BY <2>1, <2>2
<1>8. Listed'
  <2>1. ASSUME NEW t \in delayed'
        PROVE  Lag(t)' > 0 /\ wake'[t] = xTickCount' + Lag(t)'
    BY <1>0, <1>3, <1>5, <1>6
  <2>2. ASSUME NEW t \in overflow'
        PROVE  Lag(t)' > 0 /\ wake'[t] + W = xTickCount' + Lag(t)'
    <3>1. t \in overflow /\ xTickCount' = xTickCount + 1 /\ xTickCount' <= portMAX_DELAY
      BY <1>1, <1>6 DEF Ticks
    <3>2. Lag(t)' = Lag(t) - 1
      BY <3>1, <1>o
    <3> QED BY <3>1, <3>2, <1>0, <1>o DEF W, Ticks
  <2>3. \A t \in Blocked' : lastWake'[t] = wake'[t]
    BY <1>6 DEF Listed
  <2> QED BY <2>1, <2>2, <2>3, <1>7 DEF Listed
<1>9. Timed'
  <2> SUFFICES ASSUME NEW t \in Tasks, t \notin Blocked'
               PROVE  /\ Lag(t)' <= 0
                      /\ pc[t] # "start" =>
                            lastWake[t] = IF xTickCount' + Lag(t)' >= 0
                                          THEN xTickCount' + Lag(t)'
                                          ELSE xTickCount' + Lag(t)' + W
    BY DEF Timed, W
  <2>1. CASE t \in Woken
    <3>1. Lag(t)' = 0 /\ wake[t] = NewTick
      BY <2>1, <1>0, <1>1, <1>3, <1>5 DEF Ticks
    <3>2. lastWake[t] = NewTick
      BY <2>1, <3>1, <1>6 DEF Listed
    <3> QED BY <3>1, <3>2, <1>1, <1>6 DEF Ticks
  <2>2. CASE t \notin Blocked
    <3>1. CASE Wraps
      BY <2>2, <3>1, <1>0, <1>1, <1>6 DEF Timed, Wraps, W, Ticks
    <3>2. CASE ~Wraps
      BY <2>2, <3>2, <1>0, <1>1, <1>6 DEF Timed, W, Ticks
    <3> QED BY <3>1, <3>2
  <2> QED BY <2>1, <2>2, <1>6
<1> QED
  <2>1. delayed' \subseteq Tasks /\ overflow' \subseteq Tasks
    BY <1>0, <1>6 DEF Blocked
  <2>2. Woken = Blocked \ Blocked'
    BY <1>6
  <2> QED BY <2>1, <2>2, <1>1, <1>6, <1>7, <1>8, <1>9

----------------------------------------------------------------------------
(* A step that leaves the clock and the lists alone keeps every due tick. *)
LEMMA ClockStands ==
    ASSUME TypeOK, Listed, Timed,
           UNCHANGED <<xTickCount, xNextTaskUnblockTime, delayed, overflow, wake, lastWake>>,
           \A t \in Tasks : Lag(t)' = Lag(t) /\ (pc'[t] # "start" => pc[t] # "start")
    PROVE  Listed' /\ Timed'
<1>1. \A t \in delayed \cup overflow : t \in Tasks
  BY DEF TypeOK
<1>2. Listed'
  BY <1>1 DEF Listed, Blocked, W
<1>3. Timed'
  BY DEF Timed, Blocked, W
<1> QED BY <1>2, <1>3

(* Initially all tasks are ready and due. *)
LEMMA InitIInv == Init => IInv
<1> USE LedTasksAssumption
<1> SUFFICES ASSUME Init PROVE IInv
  OBVIOUS
<1>1. current \in Tasks \cup {Idle}
  <2>1. Ready # {} /\ Ready \subseteq Tasks \cup {Idle}
    BY DEF Ready
  <2> QED BY <2>1, HighestMember DEF Init
<1>2. TypeOK
  <2>1. /\ wake \in [Tasks -> Ticks] /\ lastWake \in [Tasks -> Ticks]
        /\ pc \in [Tasks -> Stages]
        /\ ODR \in [Tasks -> 0 .. 1] /\ toggled \in [Tasks -> 0 .. 1]
        /\ ahead \in [Tasks -> -portMAX_DELAY .. portMAX_DELAY]
    BY DEF Init, Ticks, Stages
  <2>2. reg \in [Tasks -> [Tasks -> 0 .. 1]]
    BY DEF Init
  <2>3. /\ xTickCount \in Ticks /\ xNextTaskUnblockTime \in Ticks
        /\ xPendedTicks \in 0 .. MaxPended
    BY DEF Init, Ticks
  <2> QED BY <1>1, <2>1, <2>2, <2>3 DEF Init, TypeOK
<1>3. Listed /\ Timed /\ Exclusive /\ Parked
  BY DEF Init, Listed, Timed, Exclusive, Parked, Blocked, InCall, Lag
<1> QED BY <1>2, <1>3 DEF IInv

(* A tick that is counted at once. *)
LEMMA TickIInv == IInv /\ Tick => IInv'
<1> USE LedTasksAssumption
<1> SUFFICES ASSUME IInv, Tick PROVE IInv'
  OBVIOUS
<1>0. TypeOK /\ Listed /\ Timed /\ Exclusive /\ Parked
  BY DEF IInv
<1>1. xPendedTicks = 0 /\ ~pendSV /\ \A t \in Tasks : pc[t] \notin InCall
  BY <1>0 DEF Tick, TickAllowed, TypeOK, Exclusive, InCall
<1>2. \A t \in Tasks : ahead[t] \in Int /\ ahead[t] > -portMAX_DELAY
  <2>1. \A t \in Tasks : ahead[t] \in -portMAX_DELAY .. portMAX_DELAY
    BY <1>0 DEF TypeOK
  <2>2. \A t \in Blocked : ahead[t] > 0
    BY <1>0, <1>1, <2>1 DEF Listed, Blocked, Lag, TypeOK
  <2> QED BY <2>1, <2>2 DEF Tick, TickAllowed, InRange, Blocked
<1>3. \A t \in Tasks : ahead'[t] = ahead[t] - 1
  BY <1>2 DEF Tick, Nearer
<1>4. /\ \A t \in Tasks : Lag(t)' = Lag(t) - 1
      /\ \A t \in Tasks \ Blocked : Lag(t) > -portMAX_DELAY
  BY <1>1, <1>2, <1>3 DEF Lag, Tick
<1>5. /\ xTickCount' \in Ticks /\ xNextTaskUnblockTime' \in Ticks
      /\ Blocked' \subseteq Blocked
      /\ delayed' \subseteq Tasks /\ overflow' \subseteq Tasks
      /\ Listed' /\ Timed'
  BY <1>0, <1>4, TickStep DEF Tick
<1>6. ahead' \in [Tasks -> -portMAX_DELAY .. portMAX_DELAY]
  BY <1>0, <1>2 DEF Tick, Nearer, TypeOK
<1>7. pendSV' \in BOOLEAN
  BY DEF Tick, SwitchRequired
<1>8. TypeOK'
  BY <1>0, <1>5, <1>6, <1>7 DEF TypeOK, Tick
<1>9. Exclusive'
  BY <1>0, <1>1 DEF Exclusive, Tick, InCall
<1>10. Parked'
  BY <1>0, <1>1, <1>5 DEF Parked, Tick
<1> QED BY <1>5, <1>8, <1>9, <1>10 DEF IInv

(* A tick that is pended. *)
LEMMA TickPendedIInv == IInv /\ TickPended => IInv'
<1> USE LedTasksAssumption
<1> SUFFICES ASSUME IInv, TickPended PROVE IInv'
  OBVIOUS
<1>0. TypeOK /\ Listed /\ Timed /\ Exclusive /\ Parked
  BY DEF IInv
<1>1. \A t \in Tasks : ahead[t] \in Int /\ ahead[t] > -portMAX_DELAY /\ ahead[t] <= portMAX_DELAY
  <2>1. \A t \in Tasks : ahead[t] \in -portMAX_DELAY .. portMAX_DELAY
    BY <1>0 DEF TypeOK
  <2>2. \A t \in Blocked : ahead[t] > -xPendedTicks
    BY <1>0, <2>1 DEF Listed, Blocked, Lag, TypeOK
  <2>3. xPendedTicks \in Nat /\ xPendedTicks <= portMAX_DELAY
    BY <1>0 DEF TypeOK
  <2> QED BY <2>1, <2>2, <2>3 DEF TickPended, TickAllowed, InRange, Blocked
<1>2. \A t \in Tasks : ahead'[t] = ahead[t] - 1
  BY <1>1 DEF TickPended, Nearer
<1>3. \A t \in Tasks : Lag(t)' = Lag(t)
  BY <1>0, <1>1, <1>2 DEF Lag, TickPended, TypeOK
<1>4. Listed' /\ Timed'
  BY <1>0, <1>3, ClockStands DEF TickPended
<1>5. ahead' \in [Tasks -> -portMAX_DELAY .. portMAX_DELAY]
  BY <1>0, <1>1 DEF TickPended, Nearer, TypeOK
<1>6. xPendedTicks' \in 0 .. MaxPended
  BY <1>0 DEF TickPended, TypeOK
<1>7. TypeOK'
  BY <1>0, <1>5, <1>6 DEF TypeOK, TickPended
<1>8. Exclusive' /\ Parked'
  BY <1>0 DEF Exclusive, Parked, Blocked, TickPended, InCall
<1> QED BY <1>4, <1>7, <1>8 DEF IInv

(* The context switch. *)
LEMMA SwitchContextIInv == IInv /\ SwitchContext => IInv'
<1> USE LedTasksAssumption
<1> SUFFICES ASSUME IInv, SwitchContext PROVE IInv'
  OBVIOUS
<1>0. TypeOK /\ Listed /\ Timed /\ Exclusive /\ Parked
  BY DEF IInv
<1>1. current' \in Ready
  <2>1. Ready # {} /\ Ready \subseteq Tasks \cup {Idle}
    BY DEF Ready
  <2> QED BY <2>1, HighestMember DEF SwitchContext
<1>2. \A t \in Tasks : Lag(t)' = Lag(t)
  BY DEF Lag, SwitchContext, app
<1>3. Listed' /\ Timed'
  BY <1>0, <1>2, ClockStands DEF SwitchContext, app
<1>4. TypeOK'
  BY <1>0, <1>1 DEF TypeOK, SwitchContext, app, Ready
<1>5. Exclusive'
  BY <1>0 DEF Exclusive, SwitchContext, app
<1>6. Parked'
  <2>1. \A t \in Blocked : t # current'
    BY <1>0, <1>1 DEF Ready, Idle, Blocked, TypeOK
  <2> QED BY <1>0, <2>1 DEF Parked, SwitchContext, app, Blocked
<1> QED BY <1>3, <1>4, <1>5, <1>6 DEF IInv

(* The steps of a task outside of xTaskDelayUntil. *)
LEMMA GetTickCountIInv == \A t \in Tasks : IInv /\ GetTickCount(t) => IInv'
<1> USE LedTasksAssumption
<1> SUFFICES ASSUME NEW t \in Tasks, IInv, GetTickCount(t) PROVE IInv'
  OBVIOUS
<1>0. TypeOK /\ Listed /\ Timed /\ Exclusive /\ Parked
  BY DEF IInv
<1>1. t = current /\ pc[t] = "start" /\ ~pendSV
  BY DEF GetTickCount, Runs
<1>2. xPendedTicks = 0 /\ t \notin Blocked
  BY <1>0, <1>1 DEF Exclusive, Parked, InCall, TypeOK
<1>3. /\ Lag(t)' = 0
      /\ lastWake'[t] = xTickCount
      /\ \A u \in Tasks \ {t} : Lag(u)' = Lag(u) /\ lastWake'[u] = lastWake[u] /\ pc'[u] = pc[u]
  BY <1>0, <1>2 DEF Lag, GetTickCount, GoesTo, TypeOK, kernel
<1>4. TypeOK'
  BY <1>0 DEF TypeOK, GetTickCount, GoesTo, kernel, Ticks, Stages
<1>5. Listed'
  <2>1. \A u \in Blocked : u \in Tasks \ {t}
    BY <1>0, <1>2 DEF TypeOK, Blocked
  <2> QED BY <1>0, <1>3, <2>1 DEF Listed, Blocked, W, GetTickCount, kernel
<1>6. Timed'
  <2>1. ASSUME NEW u \in Tasks \ Blocked, u # t
        PROVE  /\ Lag(u)' <= 0
               /\ pc'[u] # "start" => lastWake'[u] = IF xTickCount' + Lag(u)' >= 0
                                                    THEN xTickCount' + Lag(u)'
                                                    ELSE xTickCount' + Lag(u)' + W
    BY <1>0, <1>3, <2>1 DEF Timed, W, GetTickCount, kernel
  <2>2. /\ Lag(t)' <= 0
        /\ lastWake'[t] = IF xTickCount' + Lag(t)' >= 0
                          THEN xTickCount' + Lag(t)' ELSE xTickCount' + Lag(t)' + W
    BY <1>0, <1>3 DEF TypeOK, GetTickCount, kernel, Ticks
  <2>3. Blocked' = Blocked
    BY DEF Blocked, GetTickCount, kernel
  <2>4. ASSUME NEW u \in Tasks \ Blocked'
        PROVE  /\ Lag(u)' <= 0
               /\ pc'[u] # "start" => lastWake'[u] = IF xTickCount' + Lag(u)' >= 0
                                                    THEN xTickCount' + Lag(u)'
                                                    ELSE xTickCount' + Lag(u)' + W
    BY <2>1, <2>2, <2>3
  <2> QED BY <2>4 DEF Timed, W
<1>7. Exclusive' /\ Parked'
  BY <1>0, <1>1, <1>2 DEF Exclusive, Parked, Blocked, GetTickCount, GoesTo, kernel, InCall, TypeOK
<1> QED BY <1>4, <1>5, <1>6, <1>7 DEF IInv

LEMMA LoadIInv == \A t \in Tasks : IInv /\ LoadODR(t) => IInv'
<1> SUFFICES ASSUME NEW t \in Tasks, IInv, LoadODR(t) PROVE IInv'
  OBVIOUS
<1>0. TypeOK /\ Listed /\ Timed /\ Exclusive /\ Parked
  BY DEF IInv
<1>1. t = current /\ pc[t] = "load" /\ ~pendSV
  BY DEF LoadODR, Runs
<1>2. t \notin Blocked
  BY <1>0, <1>1 DEF Parked
<1>3. \A u \in Tasks : Lag(u)' = Lag(u) /\ (pc'[u] # "start" => pc[u] # "start")
  BY <1>0, <1>1 DEF Lag, LoadODR, GoesTo, kernel, TypeOK
<1>4. Listed' /\ Timed'
  BY <1>0, <1>3, ClockStands DEF LoadODR, kernel
<1>5. TypeOK'
  BY <1>0 DEF TypeOK, LoadODR, GoesTo, kernel, Stages
<1>6. Exclusive' /\ Parked'
  BY <1>0, <1>1, <1>2 DEF Exclusive, Parked, Blocked, LoadODR, GoesTo, kernel, InCall, TypeOK
<1> QED BY <1>4, <1>5, <1>6 DEF IInv

LEMMA StoreIInv == \A t \in Tasks : IInv /\ StoreODR(t) => IInv'
<1> SUFFICES ASSUME NEW t \in Tasks, IInv, StoreODR(t) PROVE IInv'
  OBVIOUS
<1>0. TypeOK /\ Listed /\ Timed /\ Exclusive /\ Parked
  BY DEF IInv
<1>1. t = current /\ pc[t] = "store" /\ ~pendSV
  BY DEF StoreODR, Runs
<1>2. t \notin Blocked
  BY <1>0, <1>1 DEF Parked
<1>3. \A u \in Tasks : Lag(u)' = Lag(u) /\ (pc'[u] # "start" => pc[u] # "start")
  BY <1>0, <1>1 DEF Lag, StoreODR, GoesTo, kernel, TypeOK
<1>4. Listed' /\ Timed'
  BY <1>0, <1>3, ClockStands DEF StoreODR, kernel
<1>5. TypeOK'
  <2>1. ODR' \in [Tasks -> 0 .. 1] /\ toggled' \in [Tasks -> 0 .. 1]
    BY <1>0 DEF TypeOK, StoreODR, Flipped
  <2>2. reg' \in [Tasks -> [Tasks -> 0 .. 1]]
    BY <1>0 DEF TypeOK, StoreODR
  <2>3. pc' \in [Tasks -> Stages]
    BY <1>0 DEF TypeOK, StoreODR, GoesTo, Stages
  <2> QED BY <1>0, <2>1, <2>2, <2>3 DEF TypeOK, StoreODR, kernel
<1>6. Exclusive' /\ Parked'
  BY <1>0, <1>1, <1>2 DEF Exclusive, Parked, Blocked, StoreODR, GoesTo, kernel, InCall, TypeOK
<1> QED BY <1>4, <1>5, <1>6 DEF IInv

(* vTaskSuspendAll *)
LEMMA SuspendAllIInv == \A t \in Tasks : IInv /\ SuspendAll(t) => IInv'
<1> SUFFICES ASSUME NEW t \in Tasks, IInv, SuspendAll(t) PROVE IInv'
  OBVIOUS
<1>0. TypeOK /\ Listed /\ Timed /\ Exclusive /\ Parked
  BY DEF IInv
<1>1. t = current /\ pc[t] = "suspend" /\ ~pendSV
  BY DEF SuspendAll, Runs
<1>2. t \notin Blocked
  BY <1>0, <1>1 DEF Parked
<1>3. \A u \in Tasks : Lag(u)' = Lag(u) /\ (pc'[u] # "start" => pc[u] # "start")
  BY <1>0, <1>1 DEF Lag, SuspendAll, GoesTo, TypeOK
<1>4. Listed' /\ Timed'
  BY <1>0, <1>3, ClockStands DEF SuspendAll
<1>5. TypeOK'
  BY <1>0 DEF TypeOK, SuspendAll, GoesTo, Stages
<1>6. Exclusive'
  <2>1. pc'[t] = "delay" /\ \A u \in Tasks \ {t} : pc'[u] = pc[u]
    BY <1>0 DEF SuspendAll, GoesTo, TypeOK
  <2> QED BY <1>0, <1>1, <2>1 DEF Exclusive, SuspendAll, InCall, TypeOK
<1>7. Parked'
  BY <1>0, <1>2 DEF Parked, Blocked, SuspendAll, GoesTo, TypeOK
<1> QED BY <1>4, <1>5, <1>6, <1>7 DEF IInv

(* xTaskDelayUntil sees through the wrap: it delays exactly when the next
   due tick is ahead, and files the task in the list of that due tick. *)
LEMMA DelayDecision ==
    ASSUME NEW T \in Ticks,                      \* the tick count
           NEW L \in -portMAX_DELAY .. 0,        \* ticks until the last due tick
           NEW P \in 1 .. portMAX_DELAY,
           NEW last \in Ticks,
           last = IF T + L >= 0 THEN T + L ELSE T + L + W,
           NEW until, until = Plus(last, P)
    PROVE  /\ until \in Ticks
           /\ (IF T < last THEN until < last /\ until > T ELSE until < last \/ until > T)
                  <=> L + P > 0
           /\ L + P > 0 => IF until < T THEN until + W = T + (L + P) ELSE until = T + (L + P)
           /\ L + P <= 0 => until = IF T + (L + P) >= 0 THEN T + (L + P) ELSE T + (L + P) + W
<1> USE LedTasksAssumption
<1>1. CASE T + L >= 0 /\ last + P <= portMAX_DELAY
  BY <1>1 DEF Ticks, Plus, W
<1>2. CASE T + L >= 0 /\ last + P > portMAX_DELAY
  BY <1>2 DEF Ticks, Plus, W
<1>3. CASE T + L < 0 /\ last + P <= portMAX_DELAY
  BY <1>3 DEF Ticks, Plus, W
<1>4. CASE T + L < 0 /\ last + P > portMAX_DELAY
  BY <1>4 DEF Ticks, Plus, W
<1> QED BY <1>1, <1>2, <1>3, <1>4 DEF Ticks

LEMMA DelayUntilIInv == \A t \in Tasks : IInv /\ DelayUntil(t) => IInv'
<1> USE LedTasksAssumption
<1> SUFFICES ASSUME NEW t \in Tasks, IInv, DelayUntil(t) PROVE IInv'
  OBVIOUS
<1> DEFINE until == Plus(lastWake[t], Period[t])
           later == Lag(t) + Period[t]
<1>0. TypeOK /\ Listed /\ Timed /\ Exclusive /\ Parked
  BY DEF IInv
<1>1. t = current /\ pc[t] = "delay" /\ ~pendSV
  BY DEF DelayUntil, Runs
<1>2. t \notin Blocked
  BY <1>0, <1>1 DEF Parked
<1>3. /\ xTickCount \in Ticks /\ lastWake[t] \in Ticks /\ Period[t] \in 1 .. portMAX_DELAY
      /\ Lag(t) \in -portMAX_DELAY .. 0
      /\ lastWake[t] = IF xTickCount + Lag(t) >= 0
                       THEN xTickCount + Lag(t) ELSE xTickCount + Lag(t) + W
  BY <1>0, <1>1, <1>2 DEF TypeOK, Timed, Lag
<1>4. /\ until \in Ticks
      /\ ShouldDelay(lastWake[t], until) <=> later > 0
      /\ later > 0 => IF Overflows(until) THEN until + W = xTickCount + later
                                         ELSE until = xTickCount + later
      /\ later <= 0 => until = IF xTickCount + later >= 0
                              THEN xTickCount + later ELSE xTickCount + later + W
  BY <1>3, DelayDecision DEF ShouldDelay, Overflows
<1>5. /\ Lag(t)' = later /\ lastWake'[t] = until /\ pc'[t] = "resume"
      /\ ahead'[t] = ahead[t] + Period[t]
      /\ \A u \in Tasks \ {t} : Lag(u)' = Lag(u) /\ lastWake'[u] = lastWake[u] /\ pc'[u] = pc[u]
  BY <1>0, <1>3 DEF Lag, DelayUntil, GoesTo, TypeOK
<1> HIDE DEF until, later
<1>6. \A u \in Blocked : u \in Tasks \ {t}
  BY <1>0, <1>2 DEF TypeOK, Blocked
<1>7. later \in Int
  BY <1>3 DEF later
<1>8. CASE later > 0
  <2>1. AddToDelayedList(t, until)
    BY <1>4, <1>8 DEF DelayUntil, until
  <2>2. wake'[t] = until /\ \A u \in Tasks \ {t} : wake'[u] = wake[u]
    BY <2>1, <1>0 DEF AddToDelayedList, TypeOK
  <2>3. /\ Blocked' = Blocked \cup {t}
        /\ delayed' \subseteq Tasks /\ overflow' \subseteq Tasks
        /\ xTickCount' = xTickCount
    BY <2>1, <1>0 DEF AddToDelayedList, Blocked, TypeOK, DelayUntil
  <2>4. Listed'
    <3>1. CASE Overflows(until)
      <4>1. delayed' = delayed /\ overflow' = overflow \cup {t} /\ xNextTaskUnblockTime' = xNextTaskUnblockTime
        BY <3>1, <2>1 DEF AddToDelayedList
      <4>2. \A u \in delayed : u \in Blocked
        BY DEF Blocked
      <4>3. \A u \in overflow : u \in Blocked
        BY DEF Blocked
      <4>4. ASSUME NEW u \in delayed'
            PROVE  Lag(u)' > 0 /\ wake'[u] = xTickCount' + Lag(u)' /\ xNextTaskUnblockTime' <= wake'[u]
        BY <4>1, <4>2, <1>0, <1>5, <1>6, <2>2, <2>3 DEF Listed
      <4>5. ASSUME NEW u \in overflow'
            PROVE  Lag(u)' > 0 /\ wake'[u] + W = xTickCount' + Lag(u)'
        <5>1. CASE u = t
          BY <5>1, <3>1, <1>4, <1>5, <1>8, <2>2, <2>3
        <5>2. CASE u # t
          BY <5>2, <4>1, <4>3, <1>0, <1>5, <1>6, <2>2, <2>3 DEF Listed, W
        <5> QED BY <5>1, <5>2
      <4>6. ASSUME NEW u \in Blocked' PROVE lastWake'[u] = wake'[u]
        BY <1>0, <1>5, <1>6, <2>2, <2>3 DEF Listed
      <4> QED BY <4>4, <4>5, <4>6 DEF Listed, W
    <3>2. CASE ~Overflows(until)
      <4>1. /\ delayed' = delayed \cup {t} /\ overflow' = overflow
            /\ xNextTaskUnblockTime' <= until /\ xNextTaskUnblockTime' <= xNextTaskUnblockTime
            /\ xNextTaskUnblockTime' \in Ticks
        BY <3>2, <2>1, <1>0, <1>4 DEF AddToDelayedList, TypeOK, Ticks
      <4>2. \A u \in delayed : u \in Blocked
        BY DEF Blocked
      <4>3. \A u \in overflow : u \in Blocked
        BY DEF Blocked
      <4>4. ASSUME NEW u \in delayed'
            PROVE  Lag(u)' > 0 /\ wake'[u] = xTickCount' + Lag(u)' /\ xNextTaskUnblockTime' <= wake'[u]
        <5>1. CASE u = t
          BY <5>1, <3>2, <4>1, <1>4, <1>5, <1>8, <2>2, <2>3
        <5>2. CASE u # t
          <6>1. /\ u \in delayed /\ u \in Tasks \ {t} /\ wake[u] \in Ticks
                /\ xNextTaskUnblockTime \in Ticks
            BY <5>2, <4>1, <4>2, <1>0, <1>6 DEF TypeOK
          <6>2. xNextTaskUnblockTime <= wake[u]
            BY <6>1, <1>0 DEF Listed
          <6>3. xNextTaskUnblockTime' <= wake[u]
            BY <6>1, <6>2, <4>1 DEF Ticks
          <6> QED BY <6>1, <6>3, <1>0, <1>5, <2>2, <2>3 DEF Listed
        <5> QED BY <5>1, <5>2
      <4>5. ASSUME NEW u \in overflow'
            PROVE  Lag(u)' > 0 /\ wake'[u] + W = xTickCount' + Lag(u)'
        BY <4>1, <4>3, <1>0, <1>5, <1>6, <2>2, <2>3 DEF Listed, W
      <4>6. ASSUME NEW u \in Blocked' PROVE lastWake'[u] = wake'[u]
        BY <1>0, <1>5, <1>6, <2>2, <2>3 DEF Listed
      <4> QED BY <4>4, <4>5, <4>6 DEF Listed, W
    <3> QED BY <3>1, <3>2
  <2>5. Timed'
    BY <1>0, <1>5, <2>3 DEF Timed, W
  <2>6. TypeOK'
    <3>1. wake' \in [Tasks -> Ticks] /\ xNextTaskUnblockTime' \in Ticks
      BY <2>1, <1>0, <1>4 DEF AddToDelayedList, TypeOK
    <3>2. lastWake' \in [Tasks -> Ticks] /\ pc' \in [Tasks -> Stages]
      BY <1>0, <1>4 DEF DelayUntil, GoesTo, TypeOK, until, Stages
    <3>3. ahead' \in [Tasks -> -portMAX_DELAY .. portMAX_DELAY]
      BY <1>0, <1>3 DEF DelayUntil, TypeOK, Lag
    <3> QED BY <3>1, <3>2, <3>3, <2>3, <1>0 DEF TypeOK, DelayUntil
  <2>7. Exclusive' /\ Parked'
    BY <1>0, <1>1, <1>5, <1>6, <2>3 DEF Exclusive, Parked, DelayUntil, InCall, TypeOK
  <2> QED BY <2>4, <2>5, <2>6, <2>7 DEF IInv
<1>9. CASE later <= 0
  <2>1. UNCHANGED <<delayed, overflow, wake, xNextTaskUnblockTime, xTickCount>>
    BY <1>4, <1>7, <1>9 DEF DelayUntil, until
  <2>2. Blocked' = Blocked
    BY <2>1 DEF Blocked
  <2>3. Listed'
    <3>1. \A u \in Blocked : Lag(u)' = Lag(u) /\ lastWake'[u] = lastWake[u]
      BY <1>5, <1>6
    <3> QED BY <3>1, <2>1, <1>0 DEF Listed, Blocked, W
  <2>4. Timed'
    <3>1. ASSUME NEW u \in Tasks \ Blocked'
          PROVE  /\ Lag(u)' <= 0
                 /\ pc'[u] # "start" => lastWake'[u] = IF xTickCount' + Lag(u)' >= 0
                                                      THEN xTickCount' + Lag(u)'
                                                      ELSE xTickCount' + Lag(u)' + W
      <4>1. CASE u = t
        BY <4>1, <1>4, <1>5, <1>9, <2>1
      <4>2. CASE u # t
        BY <4>2, <1>0, <1>5, <2>1, <2>2 DEF Timed, W
      <4> QED BY <4>1, <4>2
    <3> QED BY <3>1 DEF Timed, W
  <2>5. TypeOK'
    <3>1. lastWake' \in [Tasks -> Ticks] /\ pc' \in [Tasks -> Stages]
      BY <1>0, <1>4 DEF DelayUntil, GoesTo, TypeOK, until, Stages
    <3>2. ahead' \in [Tasks -> -portMAX_DELAY .. portMAX_DELAY]
      BY <1>0, <1>3 DEF DelayUntil, TypeOK, Lag
    <3> QED BY <3>1, <3>2, <2>1, <1>0 DEF TypeOK, DelayUntil
  <2>6. Exclusive' /\ Parked'
    BY <1>0, <1>1, <1>5, <1>6, <2>2 DEF Exclusive, Parked, DelayUntil, InCall, TypeOK
  <2> QED BY <2>3, <2>4, <2>5, <2>6 DEF IInv
<1> QED BY <1>7, <1>8, <1>9

(* xTaskResumeAll and the yield. *)
LEMMA ResumeAllIInv == \A t \in Tasks : IInv /\ ResumeAll(t) => IInv'
<1> SUFFICES ASSUME NEW t \in Tasks, IInv, ResumeAll(t) PROVE IInv'
  OBVIOUS
<1>0. TypeOK /\ Listed /\ Timed /\ Exclusive /\ Parked
  BY DEF IInv
<1>1. t = current /\ pc[t] = "resume" /\ ~pendSV
  BY DEF ResumeAll, Runs
<1>2. pc'[t] = "replay" /\ \A u \in Tasks \ {t} : pc'[u] = pc[u] /\ pc[u] \notin InCall
  BY <1>0, <1>1 DEF ResumeAll, GoesTo, TypeOK, Exclusive
<1>3. \A u \in Tasks : Lag(u)' = Lag(u) /\ (pc'[u] # "start" => pc[u] # "start")
  BY <1>1, <1>2 DEF Lag, ResumeAll
<1>4. Listed' /\ Timed'
  BY <1>0, <1>3, ClockStands DEF ResumeAll
<1>5. TypeOK'
  BY <1>0 DEF TypeOK, ResumeAll, GoesTo, Stages
<1>6. Exclusive'
  BY <1>1, <1>2 DEF Exclusive, ResumeAll, InCall
<1>7. Parked'
  BY <1>0, <1>2 DEF Parked, Blocked, ResumeAll, TypeOK
<1> QED BY <1>4, <1>5, <1>6, <1>7 DEF IInv

LEMMA ReplayIInv == \A t \in Tasks : IInv /\ Replay(t) => IInv'
<1> USE LedTasksAssumption
<1> SUFFICES ASSUME NEW t \in Tasks, IInv, Replay(t) PROVE IInv'
  OBVIOUS
<1>0. TypeOK /\ Listed /\ Timed /\ Exclusive /\ Parked
  BY DEF IInv
<1>1. t = current /\ pc[t] = "replay" /\ ~pendSV
  BY DEF Replay, Runs
<1>2. /\ xPendedTicks \in 1 .. MaxPended
      /\ xPendedTicks' = xPendedTicks - 1
      /\ \A u \in Tasks : ahead[u] \in Int /\ ahead[u] >= -portMAX_DELAY /\ ahead'[u] = ahead[u]
  BY <1>0 DEF Replay, TypeOK, app
<1>3. /\ \A u \in Tasks : Lag(u)' = Lag(u) - 1
      /\ \A u \in Tasks \ Blocked : Lag(u) > -portMAX_DELAY
  BY <1>2 DEF Lag
<1>4. /\ xTickCount' \in Ticks /\ xNextTaskUnblockTime' \in Ticks
      /\ Blocked' \subseteq Blocked
      /\ delayed' \subseteq Tasks /\ overflow' \subseteq Tasks
      /\ Listed' /\ Timed'
  BY <1>0, <1>3, TickStep DEF Replay, app
<1>5. xYieldPending' \in BOOLEAN
  BY DEF Replay, SwitchRequired
<1>6. TypeOK'
  BY <1>0, <1>2, <1>4, <1>5 DEF TypeOK, Replay, app
<1>7. Exclusive'
  BY <1>0, <1>1 DEF Exclusive, Replay, app, InCall
<1>8. Parked'
  BY <1>0, <1>4 DEF Parked, Replay, app
<1> QED BY <1>4, <1>6, <1>7, <1>8 DEF IInv

LEMMA ResumedIInv == \A t \in Tasks : IInv /\ Resumed(t) => IInv'
<1> SUFFICES ASSUME NEW t \in Tasks, IInv, Resumed(t) PROVE IInv'
  OBVIOUS
<1>0. TypeOK /\ Listed /\ Timed /\ Exclusive /\ Parked
  BY DEF IInv
<1>1. t = current /\ pc[t] = "replay" /\ ~pendSV /\ xPendedTicks = 0
  BY DEF Resumed, Runs
<1>2. /\ pc'[t] = IF xYieldPending THEN "load" ELSE "yield"
      /\ \A u \in Tasks \ {t} : pc'[u] = pc[u] /\ pc[u] \notin InCall
  BY <1>0, <1>1 DEF Resumed, GoesTo, TypeOK, Exclusive
<1>3. \A u \in Tasks : Lag(u)' = Lag(u) /\ (pc'[u] # "start" => pc[u] # "start")
  BY <1>1, <1>2 DEF Lag, Resumed
<1>4. Listed' /\ Timed'
  BY <1>0, <1>3, ClockStands DEF Resumed
<1>5. TypeOK'
  BY <1>0 DEF TypeOK, Resumed, GoesTo, Stages
<1>6. Exclusive'
  BY <1>0, <1>1, <1>2 DEF Exclusive, Resumed, InCall
<1>7. Parked'
  <2>1. \A u \in Blocked : u \in Tasks
    BY <1>0 DEF TypeOK, Blocked
  <2>2. xYieldPending => pendSV'
    BY DEF Resumed
  <2> QED BY <1>0, <1>1, <1>2, <2>1, <2>2 DEF Parked, Blocked, Resumed
<1> QED BY <1>4, <1>5, <1>6, <1>7 DEF IInv

LEMMA YieldIInv == \A t \in Tasks : IInv /\ Yield(t) => IInv'
<1> SUFFICES ASSUME NEW t \in Tasks, IInv, Yield(t) PROVE IInv'
  OBVIOUS
<1>0. TypeOK /\ Listed /\ Timed /\ Exclusive /\ Parked
  BY DEF IInv
<1>1. t = current /\ pc[t] = "yield" /\ ~pendSV
  BY DEF Yield, Runs
<1>2. /\ pc'[t] = "load"
      /\ \A u \in Tasks : pc[u] \notin InCall
      /\ \A u \in Tasks \ {t} : pc'[u] = pc[u]
  BY <1>0, <1>1 DEF Yield, GoesTo, TypeOK, Exclusive, InCall
<1>3. \A u \in Tasks : Lag(u)' = Lag(u) /\ (pc'[u] # "start" => pc[u] # "start")
  BY <1>1, <1>2 DEF Lag, Yield
<1>4. Listed' /\ Timed'
  BY <1>0, <1>3, ClockStands DEF Yield
<1>5. TypeOK'
  BY <1>0 DEF TypeOK, Yield, GoesTo, Stages
<1>6. Exclusive'
  BY <1>0, <1>1, <1>2 DEF Exclusive, Yield, InCall
<1>7. Parked'
  <2>1. \A u \in Blocked : u \in Tasks
    BY <1>0 DEF TypeOK, Blocked
  <2> QED BY <1>0, <1>1, <1>2, <2>1 DEF Parked, Blocked, Yield
<1> QED BY <1>4, <1>5, <1>6, <1>7 DEF IInv

LEMMA NextIInv == IInv /\ [Next]_vars => IInv'
<1> SUFFICES ASSUME IInv, [Next]_vars PROVE IInv'
  OBVIOUS
<1>1. CASE Tick
  BY <1>1, TickIInv
<1>2. CASE TickPended
  BY <1>2, TickPendedIInv
<1>3. CASE SwitchContext
  BY <1>3, SwitchContextIInv
<1>4. ASSUME NEW t \in Tasks, TaskStep(t) PROVE IInv'
  BY <1>4, GetTickCountIInv, LoadIInv, StoreIInv, SuspendAllIInv, DelayUntilIInv,
     ResumeAllIInv, ReplayIInv, ResumedIInv, YieldIInv DEF TaskStep
<1>5. CASE UNCHANGED vars
  <2>1. /\ UNCHANGED <<xTickCount, xNextTaskUnblockTime, xPendedTicks, uxSchedulerSuspended>>
        /\ UNCHANGED <<xYieldPending, delayed, overflow, wake, current, pendSV>>
        /\ UNCHANGED <<pc, lastWake, ODR, reg, ahead, toggled>>
    BY <1>5 DEF vars, kernel, app
  <2> QED BY <2>1 DEF IInv, TypeOK, Listed, Timed, Exclusive, Parked, Blocked, Lag, W
<1> QED BY <1>1, <1>2, <1>3, <1>4, <1>5 DEF Next

(* The strengthened invariant holds always. *)
THEOREM Invariance == Spec => []IInv
<1>1. IInv /\ [Next]_vars => IInv'
  BY NextIInv
<1> QED BY InitIInv, <1>1, PTL DEF Spec

(* The state of the kernel and of the tasks is well-typed. *)
THEOREM TypeCorrect == Spec => []TypeOK
<1>1. IInv => TypeOK
  BY DEF IInv
<1> QED BY Invariance, <1>1, PTL

(* For every set of tasks, all periods and every width of TickType_t, a task
   is blocked exactly while its due tick is ahead. *)
THEOREM ReleasesOnTime == Spec => []OnTime
<1>1. IInv => OnTime
  BY DEF IInv, OnTime, Listed, Timed, Blocked, Lag, TypeOK
<1> QED BY Invariance, <1>1, PTL

(* The assertion of taskSWITCH_DELAYED_LISTS never fails. *)
THEOREM WrapAssertion == Spec => []NothingDelayedAtWrap
<1>1. IInv => NothingDelayedAtWrap
  <2> SUFFICES ASSUME IInv, xTickCount = portMAX_DELAY, NEW t \in delayed PROVE FALSE
    BY DEF NothingDelayedAtWrap
  <2>1. /\ t \in Tasks /\ wake[t] \in Ticks /\ Lag(t) \in Int
        /\ Lag(t) > 0 /\ wake[t] = portMAX_DELAY + Lag(t)
    BY DEF IInv, TypeOK, Listed, Lag
  <2> QED BY <2>1, LedTasksAssumption DEF Ticks
<1> QED BY Invariance, <1>1, PTL

----------------------------------------------------------------------------
(* Preemption, and what it does to the port *)

LEMMA HighestIs == ASSUME NEW S, S \subseteq Tasks \cup {Idle}, NEW c \in S, \A u \in S : u <= c
                   PROVE  Highest(S) = c
<1>1. Highest(S) \in S /\ c <= Highest(S)
  BY HighestMember
<1>2. \A u \in S : u \in Int
  BY LedTasksAssumption DEF Idle
<1> QED BY <1>1, <1>2

(* Ticks wake tasks, and a woken task of higher priority asks for a switch. *)
LEMMA WokenHighest ==
    ASSUME TypeOK, IncrementTick, ~SwitchRequired, current = Highest(Ready)
    PROVE  current = Highest(Ready')
<1>1. Ready' \subseteq Ready \cup Woken /\ Ready \subseteq Ready' /\ Woken \subseteq Tasks
  <2>1. Woken \subseteq List
    BY DEF Woken
  <2>2. CASE Wraps
    BY <2>1, <2>2 DEF Ready, Blocked, List, IncrementTick, TypeOK
  <2>3. CASE ~Wraps
    BY <2>1, <2>3 DEF Ready, Blocked, List, IncrementTick, TypeOK
  <2> QED BY <2>2, <2>3
<1>2. Ready' \subseteq Tasks \cup {Idle} /\ Ready \subseteq Tasks \cup {Idle} /\ Ready # {}
  BY DEF Ready
<1>3. current \in Ready /\ \A u \in Ready : u <= current
  BY <1>2, HighestMember
<1>4. \A u \in Woken : u <= current
  <2>1. \A u \in Woken : ~(u > current) /\ u \in Int
    BY <1>1, LedTasksAssumption DEF SwitchRequired, Idle
  <2>2. current \in Int
    BY LedTasksAssumption DEF TypeOK, Idle
  <2> QED BY <2>1, <2>2
<1>5. current \in Ready' /\ \A u \in Ready' : u <= current
  BY <1>1, <1>3, <1>4
<1> QED BY <1>2, <1>5, HighestIs

LEMMA NextHighestRuns == IInv /\ HighestRuns /\ [Next]_vars => HighestRuns'
<1> SUFFICES ASSUME IInv, HighestRuns, [Next]_vars PROVE HighestRuns'
  OBVIOUS
<1>0. TypeOK /\ Exclusive
  BY DEF IInv
<1> DEFINE Giving == current # Idle /\ pc[current] \in {"resume", "replay", "yield"}
<1>1. CASE Tick
  <2>1. CASE Giving
    BY <1>1, <2>1 DEF Tick, HighestRuns
  <2>2. CASE SwitchRequired
    BY <1>1, <2>2 DEF Tick, HighestRuns
  <2>3. CASE ~Giving /\ ~SwitchRequired
    <3>1. current = Highest(Ready)
      BY <1>1, <2>3 DEF HighestRuns, Tick, TickAllowed
    <3>2. current = Highest(Ready')
      BY <1>0, <1>1, <2>3, <3>1, WokenHighest DEF Tick
    <3>3. current' = current
      BY <1>1 DEF Tick
    <3>4. Highest(Ready') = Highest(Ready)'
      BY DEF Highest
    <3> QED BY <3>2, <3>3, <3>4 DEF HighestRuns
  <2> QED BY <2>1, <2>2, <2>3
<1>2. CASE TickPended
  BY <1>2 DEF TickPended, HighestRuns, Ready, Blocked, Highest
<1>3. CASE SwitchContext
  BY <1>3 DEF SwitchContext, HighestRuns, Ready, Blocked, Highest
<1>4. ASSUME NEW t \in Tasks, TaskStep(t) PROVE HighestRuns'
  <2>0. t # Idle
    BY LedTasksAssumption DEF Idle
  <2>1. CASE GetTickCount(t)
    BY <2>1, <1>0 DEF GetTickCount, Runs, GoesTo, kernel, HighestRuns, Ready, Blocked, Highest
  <2>2. CASE LoadODR(t)
    BY <2>2, <1>0 DEF LoadODR, Runs, GoesTo, kernel, HighestRuns, Ready, Blocked, Highest
  <2>3. CASE StoreODR(t)
    BY <2>3, <1>0 DEF StoreODR, Runs, GoesTo, kernel, HighestRuns, Ready, Blocked, Highest
  <2>4. CASE SuspendAll(t)
    BY <2>4, <1>0 DEF SuspendAll, Runs, GoesTo, HighestRuns, Ready, Blocked, Highest
  <2>5. CASE DelayUntil(t)
    BY <2>0, <2>5, <1>0 DEF DelayUntil, Runs, GoesTo, HighestRuns, TypeOK
  <2>6. CASE ResumeAll(t)
    BY <2>0, <2>6, <1>0 DEF ResumeAll, Runs, GoesTo, HighestRuns, TypeOK
  <2>7. CASE Replay(t)
    BY <2>0, <2>7, <1>0 DEF Replay, Runs, app, HighestRuns, TypeOK
  <2>8. CASE Resumed(t)
    <3>1. xYieldPending => pendSV'
      BY <2>8 DEF Resumed
    <3>2. ~xYieldPending => pc'[t] = "yield" /\ current' = t
      BY <2>8, <1>0 DEF Resumed, Runs, GoesTo, TypeOK
    <3> QED BY <2>0, <3>1, <3>2 DEF HighestRuns
  <2>9. CASE Yield(t)
    BY <2>9 DEF Yield, HighestRuns
  <2> QED BY <1>4, <2>1, <2>2, <2>3, <2>4, <2>5, <2>6, <2>7, <2>8, <2>9 DEF TaskStep
<1>5. CASE UNCHANGED vars
  BY <1>5 DEF vars, kernel, app, HighestRuns, Ready, Blocked, Highest
<1> QED BY <1>1, <1>2, <1>3, <1>4, <1>5 DEF Next

(* Outside of its call the running task is the highest that is ready. *)
THEOREM Preempts == Spec => []HighestRuns
<1>1. Init => HighestRuns
  BY DEF Init, HighestRuns
<1>2. IInv /\ HighestRuns /\ [Next]_vars => HighestRuns'
  BY NextHighestRuns
<1> QED BY <1>1, <1>2, Invariance, PTL DEF Spec

(* While a toggle is preempted only tasks of higher priority store. *)
LEMMA NextFresh == IInv /\ HighestRuns /\ Fresh /\ [Next]_vars => Fresh'
<1> SUFFICES ASSUME IInv, HighestRuns, Fresh, [Next]_vars PROVE Fresh'
  OBVIOUS
<1>0. TypeOK /\ Parked
  BY DEF IInv
<1>1. CASE \E u \in Tasks : StoreODR(u)
  <2>1. PICK u \in Tasks : StoreODR(u)
    BY <1>1
  <2>2. /\ u = current /\ ~pendSV /\ pc[u] = "store" /\ u # Idle
        /\ ODR' = Flipped(reg[u], u)
        /\ pc'[u] = "suspend"
        /\ \A t \in Tasks \ {u} : pc'[t] = pc[t] /\ reg'[t] = reg[t]
    BY <2>1, <1>0, LedTasksAssumption DEF StoreODR, Runs, GoesTo, TypeOK, Idle
  <2>3. u = Highest(Ready)
    BY <2>2 DEF HighestRuns
  <2>4. ASSUME NEW t \in Tasks, pc'[t] = "store", NEW b \in Tasks, b <= t
        PROVE  reg'[t][b] = ODR'[b]
    <3>1. t # u /\ pc[t] = "store"
      BY <2>2, <2>4
    <3>2. t \in Ready
      BY <3>1, <1>0 DEF Parked, Ready
    <3>3. t <= u
      <4>1. Ready # {} /\ Ready \subseteq Tasks \cup {Idle}
        BY DEF Ready
      <4> QED BY <3>2, <4>1, <2>3, HighestMember
    <3>4. b <= u /\ b # u
      BY <2>4, <3>1, <3>3, LedTasksAssumption DEF Idle
    <3>5. reg[t][b] = ODR[b] /\ reg[u][b] = ODR[b]
      BY <2>2, <2>4, <3>1, <3>4 DEF Fresh
    <3>6. ODR'[b] = reg[u][b]
      BY <2>2, <3>4, <1>0 DEF Flipped, TypeOK
    <3> QED BY <3>1, <3>5, <3>6, <2>2
  <2> QED BY <2>4 DEF Fresh
<1>2. CASE \E t \in Tasks : LoadODR(t)
  BY <1>2, <1>0 DEF LoadODR, GoesTo, Fresh, TypeOK
<1>3. CASE ~(\E t \in Tasks : StoreODR(t) \/ LoadODR(t))
  <2>1. UNCHANGED <<ODR, reg>> /\ \A t \in Tasks : pc'[t] = "store" => pc[t] = "store"
    <3>1. CASE Tick \/ TickPended \/ SwitchContext \/ UNCHANGED vars
      BY <3>1 DEF Tick, TickPended, SwitchContext, vars, app
    <3>2. ASSUME NEW t \in Tasks, TaskStep(t)
          PROVE  UNCHANGED <<ODR, reg>> /\ \A u \in Tasks : pc'[u] = "store" => pc[u] = "store"
      <4>1. UNCHANGED <<ODR, reg>>
        BY <1>3, <3>2 DEF TaskStep, GetTickCount, SuspendAll, DelayUntil, ResumeAll,
                          Replay, Resumed, Yield, app
      <4>2. CASE Replay(t)
        BY <4>1, <4>2 DEF Replay, app
      <4>3. CASE ~Replay(t)
        <5>1. \E n \in Stages \ {"store"} : GoesTo(t, n)
          BY <1>3, <3>2, <4>3 DEF TaskStep, GetTickCount, SuspendAll, DelayUntil, ResumeAll,
                                  Resumed, Yield, Stages
        <5> QED BY <4>1, <5>1, <1>0 DEF GoesTo, TypeOK
      <4> QED BY <4>2, <4>3
    <3> QED BY <3>1, <3>2 DEF Next
  <2> QED BY <2>1 DEF Fresh
<1> QED BY <1>1, <1>2, <1>3

(* A toggle is lost only to the store of a preempted task of lower priority. *)
THEOREM LossesComeFromBelow == Spec => LossOnlyByLower
<1> DEFINE Loss == \A t \in Tasks :
               ODR[t] = toggled[t] /\ (ODR[t] # toggled[t])'
                  => \E u \in Tasks : u < t /\ pc[u] = "store" /\ pc'[u] = "suspend"
<1>1. Init => Fresh
  BY DEF Init, Fresh
<1>2. IInv /\ HighestRuns /\ Fresh /\ [Next]_vars => Fresh'
  BY NextFresh
<1>3. IInv /\ Fresh /\ [Next]_vars => [Loss]_vars
  <2> SUFFICES ASSUME IInv, Fresh, Next, NEW t \in Tasks,
                      ODR[t] = toggled[t], ODR'[t] # toggled'[t]
               PROVE  \E u \in Tasks : u < t /\ pc[u] = "store" /\ pc'[u] = "suspend"
    BY DEF vars
  <2>0. TypeOK
    BY DEF IInv
  <2>1. PICK u \in Tasks : StoreODR(u)
    BY DEF Next, Tick, TickPended, SwitchContext, TaskStep, GetTickCount, LoadODR, SuspendAll,
           DelayUntil, ResumeAll, Replay, Resumed, Yield, app
  <2>2. /\ pc[u] = "store" /\ pc'[u] = "suspend"
        /\ ODR' = Flipped(reg[u], u)
        /\ toggled' = [toggled EXCEPT ![u] = 1 - @]
    BY <2>0, <2>1 DEF StoreODR, Runs, GoesTo, TypeOK
  <2>3. ASSUME t <= u PROVE FALSE
    <3>1. reg[u][t] = ODR[t]
      BY <2>2, <2>3 DEF Fresh
    <3>2. CASE t = u
      BY <3>1, <3>2, <2>0, <2>2 DEF Flipped, TypeOK
    <3>3. CASE t # u
      BY <3>1, <3>3, <2>0, <2>2 DEF Flipped, TypeOK
    <3> QED BY <3>2, <3>3
  <2>4. u < t
    BY <2>3, LedTasksAssumption DEF Idle
  <2> QED BY <2>2, <2>4
<1>4. [][Loss]_vars => LossOnlyByLower
  BY PTL DEF LossOnlyByLower
<1> HIDE DEF Loss
<1> QED BY <1>1, <1>2, <1>3, <1>4, Invariance, Preempts, PTL DEF Spec
=============================================================================
