-------------------------------- MODULE Fifo --------------------------------
(***************************************************************************)
(* What the machine expects of a branch queue (internal/demux/queue.go): a *)
(* first-in first-out sequence of messages with the sum of their charges.  *)
(* `out` is what the last pop or reset returned.                           *)
(***************************************************************************)
EXTENDS Integers, Sequences

CONSTANTS
    Entry,      \* the messages with their charges
    NoEntry,    \* nothing was returned yet
    Released(_) \* the return of a reset that gives back so many bytes

VARIABLES items, charge, out

fifoVars == <<items, charge, out>>

Init == items = <<>> /\ charge = 0 /\ out = NoEntry

Push(e) ==
    /\ items' = Append(items, e)
    /\ charge' = charge + e.size
    /\ UNCHANGED out

Pop ==
    /\ items # <<>>
    /\ out' = Head(items)
    /\ items' = Tail(items)
    /\ charge' = charge - Head(items).size

Reset ==
    /\ out' = Released(charge)
    /\ items' = <<>>
    /\ charge' = 0

Next == Pop \/ Reset \/ \E e \in Entry : Push(e)

Spec == Init /\ [][Next]_fifoVars
=============================================================================
