------------------------------ MODULE Outcomes ------------------------------
(***************************************************************************)
(* How a write of an action ends (writeDisposition, conn.go): what the     *)
(* framing layer (module Framer) reports and the session (module Session)  *)
(* acts on.  "partial" is writeOutcomeUnknown with the transport's error,  *)
(* "partialClosed" the same with ErrClosed.                                *)
(***************************************************************************)

\* Fault: the error is trusted, so ErrClosed means that nothing was sent.
UnsentByError == {"rejected", "canceled", "closed", "notSent", "partialClosed"}

\* No byte of the action has reached the transport.
Unsent == {"rejected", "canceled", "closed", "notSent"}

\* Some may have.
Ambiguous == {"partial", "partialClosed"}

\* How writeAction may end before its first byte, by whether the connection
\* has been closed.
EnterOutcomes(closed) == IF closed THEN {"canceled", "closed"} ELSE {"canceled", "rejected"}

\* How it may end after its Write.
WriteOutcomes(closed) ==
    {"complete"} \cup (IF closed THEN {"closed", "partialClosed"}
                                 ELSE {"canceled", "notSent", "partial"})

\* The outcomes that close the connection.
Poisonous == {"notSent", "partial"}
=============================================================================
