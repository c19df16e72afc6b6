------------------------------ MODULE Classify ------------------------------
(***************************************************************************)
(* What a message is (classify.go).  A message keeps the values of the     *)
(* four fields that say so, each in the order of the wire; values that     *)
(* differ by case only are one value, but for ActionIDs, whose case        *)
(* counts.  An id of a client is <<client, number>>.                       *)
(***************************************************************************)
EXTENDS Naturals, Sequences

CONSTANT Empty   \* the empty value

\* Two repeats of a field disagree.
Conflicting(values) == \E i \in DOMAIN values : values[i] # values[1]

\* The value that counts: the first.
Get(values) == IF values = <<>> THEN Empty ELSE values[1]

\* An Event field beats a Response; what repeats leave open is invalid, and so
\* is a message with neither.
Class(m) ==
    IF Conflicting(m.ids) THEN "invalid"
    ELSE IF m.events # <<>>
         THEN IF Get(m.events) = Empty \/ Conflicting(m.events) \/ Conflicting(m.lists)
              THEN "invalid" ELSE "event"
         ELSE IF m.responses = <<>> \/ Conflicting(m.responses)
              THEN "invalid" ELSE "response"

\* parseActionID.
Own(client, id) == id # Empty /\ id[1] = client
=============================================================================
