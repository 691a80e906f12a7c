----------------------------- MODULE Stopwatch -----------------------------
(***************************************************************************)
(* What a stopwatch promises its user.  One button starts, pauses and goes *)
(* on, another stops; they work while the stopwatch is open.  It is        *)
(* sampled: every sample counts once while it runs, none while it pauses,  *)
(* and one after a stop clears it.  The user may look away meanwhile.      *)
(*                                                                         *)
(* Two things are not what one would ask of a stopwatch, and are named:    *)
(* Revive, a start before a sample has seen the stop, goes on with the old *)
(* total; and Oversleep, a stopwatch started and left before any sample    *)
(* found it open stands still until it is opened again.                    *)
(***************************************************************************)
EXTENDS Naturals

CONSTANT Cycle     \* the number of samples after which the total starts again

VARIABLES phase,   \* "stopped", "running" or "paused"
          open,    \* the user has it open
          awake,   \* a sample found it open, and none has seen a stop since
          total,   \* samples counted
          told     \* the last button or sample, so that none can pass unseen

Tell(event) == told' = [event |-> event, odd |-> ~told.odd]

Init == /\ phase = "stopped"
        /\ open \in BOOLEAN
        /\ ~awake
        /\ total = 0
        /\ told = [event |-> "nothing", odd |-> FALSE]

Look == open' = ~open /\ UNCHANGED <<phase, awake, total, told>>

Press(from, to) == /\ open
                   /\ Tell("S")
                   /\ phase = from
                   /\ phase' = to
                   /\ UNCHANGED <<open, awake, total>>

Start    == total = 0 /\ Press("stopped", "running")
Revive   == total # 0 /\ Press("stopped", "running")
Pause    == Press("running", "paused")
Continue == Press("paused", "running")

Stop == /\ open
        /\ Tell("C")
        /\ phase' = "stopped"
        /\ UNCHANGED <<open, awake, total>>

Sample == Tell("sample") /\ UNCHANGED <<phase, open>>

Count == /\ Sample
         /\ phase = "running"
         /\ open \/ awake
         /\ total' = (total + 1) % Cycle
         /\ awake'

Oversleep == /\ Sample
             /\ phase = "running"
             /\ ~open /\ ~awake
             /\ UNCHANGED <<total, awake>>

Rest == /\ Sample
        /\ phase = "paused"
        /\ awake' = (open \/ awake)
        /\ UNCHANGED total

Reset == /\ Sample
         /\ phase = "stopped"
         /\ total' = 0
         /\ awake' \in {FALSE, open \/ awake}

Next == \/ Look \/ Start \/ Revive \/ Pause \/ Continue \/ Stop
        \/ Count \/ Oversleep \/ Rest \/ Reset
Spec == Init /\ [][Next]_<<phase, open, awake, total, told>>
=============================================================================
