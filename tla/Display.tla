------------------------------ MODULE Display ------------------------------
(***************************************************************************)
(* What the users of HCLCD/LCD.h are promised: a request is buffered in a  *)
(* free slot, and one request after the other reaches the display, whole,  *)
(* once, and with nothing of another request in between.  Which buffered   *)
(* request comes next is left open.                                        *)
(***************************************************************************)
EXTENDS Sequences

CONSTANTS Slots, Requests,
          None,       \* no request, no slot
          Meaning(_), \* the bus operations a request stands for
          Setups      \* the sequences of those that may set up the display

VARIABLES buffered,   \* by slot, the request it holds
          serving,    \* the slot whose request is being shown
          left,       \* operations to go
          shown       \* the latest operation, with a bit that tells it from the one before

Init == /\ buffered = [s \in Slots |-> None]
        /\ serving = None
        /\ left \in Setups
        /\ shown = [op |-> None, flip |-> FALSE]

Accept(s, r) == /\ buffered[s] = None
                /\ buffered' = [buffered EXCEPT ![s] = r]
                /\ UNCHANGED <<serving, left, shown>>

Begin(s) == /\ serving = None
            /\ left = <<>>
            /\ buffered[s] # None
            /\ serving' = s
            /\ left' = Meaning(buffered[s])
            /\ UNCHANGED <<buffered, shown>>

Show == /\ left # <<>>
        /\ shown' = [op |-> Head(left), flip |-> ~shown.flip]
        /\ left' = Tail(left)
        /\ UNCHANGED <<buffered, serving>>

Finish == /\ serving # None
          /\ left = <<>>
          /\ buffered' = [buffered EXCEPT ![serving] = None]
          /\ serving' = None
          /\ UNCHANGED <<left, shown>>

Next == \/ \E s \in Slots, r \in Requests : Accept(s, r)
        \/ \E s \in Slots : Begin(s)
        \/ Show
        \/ Finish

Spec == Init /\ [][Next]_<<buffered, serving, left, shown>>
=============================================================================
