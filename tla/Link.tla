-------------------------------- MODULE Link --------------------------------
(***************************************************************************)
(* What the framing layer promises the session about a write (the error    *)
(* contract of conn.go): its disposition alone tells whether bytes of the  *)
(* action may have reached the transport, and whether the connection lives *)
(* on.  Module Session takes its writes from the same outcomes.            *)
(***************************************************************************)
EXTENDS Outcomes

VARIABLES
    closed,     \* the connection is closed
    writing,    \* the write in progress: "no", "yes", or "poisoning"
    sent,       \* how much of the action the transport has: "none", "some", "all"
    disp        \* how the last write ended; "none" before its end

linkVars == <<closed, writing, sent, disp>>

\* A disposition says no less than what has been sent.
Truthful(d) ==
    /\ d \in Unsent => sent = "none"
    /\ d = "complete" => sent = "all"
    /\ d \in Ambiguous => sent # "none"

Init == closed = FALSE /\ writing = "no" /\ sent = "none" /\ disp = "none"

Refuse ==
    /\ writing = "no"
    /\ sent' = "none" /\ disp' \in EnterOutcomes(closed)
    /\ UNCHANGED <<closed, writing>>

Begin ==
    /\ writing = "no" /\ ~closed
    /\ writing' = "yes" /\ sent' = "none" /\ disp' = "none"
    /\ UNCHANGED closed

Transfer ==
    /\ writing = "yes" /\ ~closed
    /\ sent' \in {"some", "all"}
    /\ UNCHANGED <<closed, writing, disp>>

Return ==
    /\ writing = "yes"
    /\ disp' \in WriteOutcomes(closed) /\ Truthful(disp')
    /\ writing' = IF disp' \in Poisonous THEN "poisoning" ELSE "no"
    /\ UNCHANGED <<closed, sent>>

Poison ==
    /\ writing = "poisoning" /\ writing' = "no" /\ closed' = TRUE
    /\ UNCHANGED <<sent, disp>>

\* Another party closes the connection.
CloseElsewhere == closed' = TRUE /\ UNCHANGED <<writing, sent, disp>>

Next == Refuse \/ Begin \/ Transfer \/ Return \/ Poison \/ CloseElsewhere

Spec == Init /\ [][Next]_linkVars
=============================================================================
