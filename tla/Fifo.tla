-------------------------------- MODULE Fifo --------------------------------
(***************************************************************************)
(* What the queues of queue.c promise: each is a bounded sequence, changed *)
(* in one step by whoever uses it, however its rings, locks, event lists   *)
(* and retries work.  An item is received once, in the order of the queue, *)
(* or looked at and left there.                                            *)
(***************************************************************************)
EXTENDS Sequences, Naturals

CONSTANTS Names, Items, Users,
          Capacity  \* of each queue

VARIABLES contents,  \* of each queue, the next to be received first
          buffer     \* the last item each user got

vars == <<contents, buffer>>

Init == /\ contents = [n \in Names |-> <<>>]
        /\ buffer = [u \in Users |-> "nothing"]

HasRoom(n) == Len(contents[n]) < Capacity[n]
Become(n, items) == contents' = [contents EXCEPT ![n] = items]

Send(n, item) == /\ \/ Become(n, Append(contents[n], item))
                    \/ Become(n, <<item>> \o contents[n])
                 /\ HasRoom(n)
                 /\ UNCHANGED buffer

Overwrite(n, item) == /\ Become(n, <<item>>)
                      /\ Capacity[n] = 1
                      /\ UNCHANGED buffer

Peek(n, u) == /\ contents[n] # <<>>
              /\ buffer' = [buffer EXCEPT ![u] = Head(contents[n])]
              /\ UNCHANGED contents

Receive(n, u) == /\ contents[n] # <<>>
                 /\ buffer' = [buffer EXCEPT ![u] = Head(contents[n])]
                 /\ Become(n, Tail(contents[n]))

Reset(n) == Become(n, <<>>) /\ UNCHANGED buffer

Next == \E n \in Names :
            \/ \E item \in Items : Send(n, item) \/ Overwrite(n, item)
            \/ \E u \in Users : Peek(n, u) \/ Receive(n, u)
            \/ Reset(n)

Spec == Init /\ [][Next]_vars

=============================================================================
