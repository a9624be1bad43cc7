--------------------------- MODULE InterruptQueue ---------------------------
(***************************************************************************)
(* What the boot ROM promises a program that calls wait_for_interrupt():   *)
(* the interrupts the processor accepted are handed out one by one, in the *)
(* order in which they were accepted, and the only way to lose any is to   *)
(* leave Capacity of them outstanding, which loses them all.               *)
(***************************************************************************)
EXTENDS Naturals, Sequences

CONSTANTS Id, Capacity

VARIABLES
    queue,     \* the interrupts accepted and not yet handed out
    returned   \* what the last wait_for_interrupt() returned, or "none"

Init == queue = <<>> /\ returned = "none"

Accept(id) == queue' = Append(queue, id) /\ UNCHANGED returned

Deliver ==
    /\ queue # <<>>
    /\ returned' = Head(queue)
    /\ queue' = Tail(queue)

Overflow ==
    /\ Len(queue) = Capacity
    /\ queue' = <<>>
    /\ UNCHANGED returned

Next == (\E id \in Id : Accept(id)) \/ Deliver \/ Overflow

Spec == Init /\ [][Next]_<<queue, returned>>
=============================================================================
