--------------------------- MODULE PeriodicTasks ---------------------------
(***************************************************************************)
(* What the scheduler promises to its table of runnables (SCHED.h): the    *)
(* tasks take turns in the order of the table, and a task with a callback  *)
(* runs in turn First + 1 of its own and in every Period-th turn after     *)
(* that, none early and none late.  A task without a callback takes its    *)
(* turns and does nothing.                                                 *)
(***************************************************************************)
EXTENDS Integers

CONSTANTS Tasks,    \* the slots of the table, a set of integers
          Active,   \* the tasks with a callback
          First,    \* [Tasks -> Nat]: turns before the first activation
          Period    \* [Tasks -> Nat]: turns from one activation to the next

VARIABLES clock,    \* [Tasks -> Nat]: turns a task has had
          last      \* [Tasks -> Nat]: the turn of its latest activation, or 0

NextDue(i) == IF last[i] = 0 THEN First[i] + 1 ELSE last[i] + Period[i]

Init == /\ clock = [i \in Tasks |-> 0]
        /\ last = [i \in Tasks |-> 0]

(* It is i's turn when those before it had theirs and those after did not. *)
Turn(i) == \A j \in Tasks : clock[j] = IF j < i THEN clock[i] + 1 ELSE clock[i]

Take(i) == /\ Turn(i)
           /\ clock' = [clock EXCEPT ![i] = @ + 1]
           /\ last' = IF i \in Active /\ clock[i] + 1 = NextDue(i)
                      THEN [last EXCEPT ![i] = clock[i] + 1]
                      ELSE last

Next == \E i \in Tasks : Take(i)

Spec == Init /\ [][Next]_<<clock, last>>
=============================================================================
