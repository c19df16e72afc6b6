------------------------------- MODULE Branch -------------------------------
(***************************************************************************)
(* What the machine promises the holder of one branch, be it a             *)
(* subscription, an adopted follow or an adopted list (branch.go): a queue *)
(* that only grows at its tail and only shrinks at its head until it ends, *)
(* once.  A clean end keeps what is queued, any other end discards it, and *)
(* nothing but Close follows an end.                                       *)
(***************************************************************************)
EXTENDS Sequences

CONSTANTS Messages, Reasons    \* what is queued; why a branch may end

VARIABLES phase, reason, q

branch == <<phase, reason, q>>

NoBranch == phase = "none" /\ reason = "None" /\ q = <<>>

\* A branch that is handed over may have received messages, and have ended.
Handed ==
    /\ q \in Seq(Messages)
    /\ \/ phase \in {"active", "draining"} /\ reason = "None"
       \/ phase = "dead" /\ reason \in Reasons /\ q = <<>>

Opens == phase = "none" /\ Handed'

Appends(m) ==
    phase = "active" /\ q' = Append(q, m) /\ UNCHANGED <<phase, reason>>

\* The completion event of a follow is queued with the end it announces.
AppendsLast(m) ==
    phase = "active" /\ q' = Append(q, m) /\ phase' = "draining" /\ UNCHANGED reason

EndsCleanly == phase = "active" /\ phase' = "draining" /\ UNCHANGED <<reason, q>>

EndsBy(why) == phase = "active" /\ phase' = "dead" /\ reason' = why /\ q' = <<>>

\* Fault: the head is handed out and not removed.
TakenAgain == phase \in {"active", "draining"} /\ q # <<>> /\ UNCHANGED branch

Taken ==
    /\ phase \in {"active", "draining"} /\ q # <<>>
    /\ q' = Tail(q) /\ UNCHANGED <<phase, reason>>

Closes == phase # "none" /\ phase' = "none" /\ reason' = "None" /\ q' = <<>>

Next ==
    \/ Opens \/ EndsCleanly \/ Taken \/ Closes
    \/ \E m \in Messages : Appends(m) \/ AppendsLast(m)
    \/ \E why \in Reasons : EndsBy(why)

Spec == NoBranch /\ [][Next]_branch
=============================================================================
