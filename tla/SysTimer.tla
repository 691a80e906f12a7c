------------------------------ MODULE SysTimer ------------------------------
(***************************************************************************)
(* STK.c: the driver of the system timer, and the timer.  CTRL is the set  *)
(* of its bits that are 1; COUNTFLAG is cleared by every read of CTRL, so  *)
(* by every |= and &= of the driver, and writes leave it alone.  A count   *)
(* may come between any two steps of the busy wait.  The handler of the    *)
(* driver is commented out (STK.c:238), so that no count calls CallBack.   *)
(*                                                                         *)
(* An operator named X_Fault is a faulty variant of the definition X.      *)
(***************************************************************************)
EXTENDS Integers

CONSTANTS Clock,            \* counts in a millisecond
          MaxLoad,          \* the largest value of the 24 bits of LOAD
          STK_MAX_TIME_MS,
          Times,            \* the times in ms that callers ask for
          CallBacks         \* the functions they hand over, NULL among them

VARIABLES CTRL, LOAD, VAL, STK_Periodic, CallBack,
          Clock_source,     \* in counts in a millisecond
          wait,             \* the busy wait in progress
          counts            \* history: counts since it enabled the timer

vars == <<CTRL, LOAD, VAL, STK_Periodic, CallBack, Clock_source, wait, counts>>

NULL == "NULL"
NoWait == [stage |-> "none", ms |-> 0, fromZero |-> FALSE]

(* The registers after a reset. *)
Init == /\ CTRL = {}
        /\ LOAD = 0
        /\ VAL = 0
        /\ STK_Periodic = 0
        /\ CallBack = NULL
        /\ Clock_source = 0
        /\ wait = NoWait
        /\ counts = 0

----------------------------------------------------------------------------
(* The timer *)

Counted == IF VAL = 0 THEN LOAD ELSE VAL - 1

(* One count: from 0 the timer starts over from LOAD, and a count that     *)
(* brings it to 0 sets the flag.  With LOAD 0 it stays at 0.               *)
Count == /\ "ENABLE" \in CTRL
         /\ VAL' = Counted
         /\ CTRL' = IF VAL = 1 THEN CTRL \cup {"COUNTFLAG"} ELSE CTRL
         /\ counts' = IF counts <= MaxLoad THEN counts + 1 ELSE counts
         /\ UNCHANGED <<LOAD, STK_Periodic, CallBack, Clock_source, wait>>

----------------------------------------------------------------------------
(* The driver *)

Read == CTRL \ {"COUNTFLAG"}
OrControl_Kept(bits) == CTRL' = CTRL \cup bits
OrControl(bits)  == CTRL' = Read \cup bits
AndControl(bits) == CTRL' = Read \ bits

(* The u32 that is written keeps its low 24 bits: 0 ms give the largest,   *)
(* and so does every time before MSTK_Init, when Clock_source is 0.        *)
LoadFor(ms) == (ms * Clock_source - 1) % (MaxLoad + 1)

MSTK_Init == /\ CTRL' = CTRL \cap {"COUNTFLAG"}
             /\ Clock_source' = Clock
             /\ UNCHANGED <<LOAD, VAL, STK_Periodic, CallBack>>

MSTK_SetTimerMS(ms) == /\ ms <= STK_MAX_TIME_MS
                       /\ LOAD' = LoadFor(ms)
                       /\ UNCHANGED <<CTRL, VAL, STK_Periodic, CallBack>>

Start(periodic) == /\ STK_Periodic' = periodic
                   /\ OrControl({"ENABLE", "TICKINT"})

(* MSTK_StartTimerMSSingle and MSTK_StartTimerMSPeriodic *)
MSTK_StartTimerMS(periodic) == Start(periodic) /\ UNCHANGED <<LOAD, VAL, CallBack>>

MSTK_SetSTKCallBack(f) == /\ f # NULL
                          /\ CallBack' = f
                          /\ UNCHANGED <<CTRL, LOAD, VAL, STK_Periodic>>

(* MSTK_SetIntervalSingleMS and MSTK_SetIntervalPeriodicMS *)
MSTK_SetIntervalMS(ms, f, periodic) == /\ f # NULL /\ ms <= STK_MAX_TIME_MS
                                       /\ LOAD' = LoadFor(ms)
                                       /\ CallBack' = f
                                       /\ Start(periodic)
                                       /\ UNCHANGED VAL

MSTK_StopInterval == AndControl({"ENABLE"}) /\ UNCHANGED <<LOAD, VAL, STK_Periodic, CallBack>>

Calls == /\ wait = NoWait
         /\ \/ MSTK_Init
            \/ /\ \/ MSTK_StopInterval
                  \/ \E ms \in Times : MSTK_SetTimerMS(ms)
                  \/ \E f \in CallBacks : MSTK_SetSTKCallBack(f)
                  \/ \E periodic \in {0, 1} : \/ MSTK_StartTimerMS(periodic)
                                              \/ \E ms \in Times, f \in CallBacks :
                                                     MSTK_SetIntervalMS(ms, f, periodic)
               /\ UNCHANGED Clock_source
         /\ UNCHANGED <<wait, counts>>

----------------------------------------------------------------------------
(* MSTK_SetBusyWaitMS, step by step *)

GoesTo(stage) == wait' = [wait EXCEPT !.stage = stage]

WaitLoads(ms) == /\ wait = NoWait /\ ms <= STK_MAX_TIME_MS
                 /\ LOAD' = LoadFor(ms)
                 /\ wait' = [stage |-> "enable", ms |-> ms,
                             fromZero |-> VAL = 0 /\ "ENABLE" \notin CTRL]
                 /\ UNCHANGED <<CTRL, VAL, STK_Periodic, CallBack, Clock_source, counts>>

WaitEnables == /\ wait.stage = "enable"
               /\ OrControl({"ENABLE"})
               /\ counts' = 0
               /\ GoesTo("poll")
               /\ UNCHANGED <<LOAD, VAL, STK_Periodic, CallBack, Clock_source>>

WaitPolls == /\ wait.stage = "poll"
             /\ CTRL' = Read
             /\ GoesTo(IF "COUNTFLAG" \in CTRL THEN "disable" ELSE "poll")
             /\ UNCHANGED <<LOAD, VAL, STK_Periodic, CallBack, Clock_source, counts>>

WaitDisables == /\ wait.stage = "disable"
                /\ AndControl({"ENABLE"})
                /\ wait' = NoWait
                /\ UNCHANGED <<LOAD, VAL, STK_Periodic, CallBack, Clock_source, counts>>

MSTK_SetBusyWaitMS == \/ \E ms \in Times : WaitLoads(ms)
                      \/ WaitEnables \/ WaitPolls \/ WaitDisables

Next == Count \/ Calls \/ MSTK_SetBusyWaitMS

----------------------------------------------------------------------------
(* Correctness *)

(* A busy wait that finds the timer stopped at 0 lasts as long as asked,   *)
(* whatever the timer was used for before and whether or not its flag is   *)
(* still set: it rests on the |= of line 130 clearing the flag.  0 ms last *)
(* the whole range, and so does every time before MSTK_Init.  From any     *)
(* other value the wait lasts only as long as that value has left.         *)
(* (STK.c:121)                                                             *)
BusyWaitLasts == wait.stage = "disable" /\ wait.fromZero => counts > LoadFor(wait.ms)

=============================================================================
