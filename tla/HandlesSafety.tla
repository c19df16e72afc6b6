--------------------------- MODULE HandlesSafety ---------------------------
(***************************************************************************)
(* Properties of a handle (module Handles).                                *)
(***************************************************************************)
EXTENDS Handles

Inside(c) == pc[c] # "idle"
Iterating(c) == mode[c] = "All" /\ pc[c] \in {"taking", "waiting", "yielding", "closing"}

----------------------------------------------------------------------------
(* Safety                                                                  *)

\* The token is never lost: a consumer that waits without one waits on a
\* branch that is active and empty, whatever was queued, ended or closed
\* between its look under the lock and its wait.
NoLostToken ==
    \A c \in Consumers :
        pc[c] = "waiting" => notify \/ (phase = "active" /\ q = <<>> /\ ~terminal)

\* At most one goroutine is inside the handle, loop body included, and the
\* handle can be consumed again once it has left.
OneConsumer ==
    /\ \A c, d \in Consumers : Inside(c) /\ Inside(d) => c = d
    /\ busy <=> \E c \in Consumers : Inside(c)

\* Consumers get the messages in the order they were queued, none twice.
InOrder == IsPrefix(got, sent)

\* Done closes in the critical section that ends the branch: no open handle
\* shows an end without its result, and no closed handle has none.
ResultPublished ==
    /\ opened => (terminal <=> Terminal)
    /\ opened /\ terminal => err = reason
    /\ ~opened => terminal

\* The end of the stream is reported only for a clean end, and unless Close
\* has discarded something, only after everything was handed out.
EofHonest ==
    \A c \in Consumers :
        result[c] = "EOF" => terminal /\ err = "None" /\ (got = sent \/ dropped)

\* The completion of a list that ended cleanly stays available, through Close
\* and through client death.
CompletionKept ==
    isList /\ terminal /\ err = "None" => kept \/ (opened /\ HasCompletion)

\* An iteration that has begun leaves a closed handle, however it was left.
IterationCloses ==
    adapted /\ (\A c \in Consumers : ~Iterating(c)) => ~opened

----------------------------------------------------------------------------
(* The inductive invariant of module HandlesProofs                         *)

\* The types of the handle's state; only an iteration is ever about to adapt.
HandlesTypeOK ==
    /\ opened \in BOOLEAN /\ notify \in BOOLEAN /\ terminal \in BOOLEAN /\ busy \in BOOLEAN
    /\ kept \in BOOLEAN /\ adapted \in BOOLEAN /\ isList \in BOOLEAN
    /\ pc \in [Consumers -> {"idle", "adapting", "taking", "waiting", "yielding",
                             "closing", "leaving"}]
    /\ mode \in [Consumers -> {"Next", "All"}]
    /\ \A c \in Consumers : pc[c] = "adapting" => mode[c] = "All"

\* A branch has a reason exactly if it is dead, and a handle exactly if it exists.
PhasePart ==
    /\ phase \in {"none", "active", "draining", "dead"}
    /\ reason \in Reasons \cup {"None"}
    /\ phase = "dead" <=> reason # "None"
    /\ opened <=> phase # "none"

\* NoLostToken needs the single consumer, who alone can take the token, and the
\* published result, without which an end might leave no token.
ControlPart ==
    /\ HandlesTypeOK /\ PhasePart
    /\ OneConsumer /\ ResultPublished /\ NoLostToken
    /\ CompletionKept /\ IterationCloses

\* What was handed out and what is queued make up what was sent, until an end or
\* Close discards the queue; a clean end that was closed has discarded only what
\* dropped records.
StreamPart ==
    /\ q \in Seq(Messages) /\ sent \in Seq(Messages) /\ got \in Seq(Messages)
    /\ result \in [Consumers -> {"none", "item", "EOF", "error", "context", "busy", "used"}]
    /\ phase \in {"active", "draining"} => got \o q = sent
    /\ InOrder
    /\ ~opened /\ err = "None" => got = sent \/ dropped
    /\ EofHonest

HandlesInductive == ControlPart /\ StreamPart

----------------------------------------------------------------------------
(* Action properties and liveness                                          *)

\* The first terminal result is never replaced.
StableResult == [][terminal => terminal' /\ err' = err]_handleVars

\* A consumer that waits goes on once there is something to take or the branch
\* has ended, in whatever way.
WaitersReturn ==
    \A c \in Consumers :
        (pc[c] = "waiting" /\ (terminal \/ q # <<>>)) ~> pc[c] # "waiting"
=============================================================================
