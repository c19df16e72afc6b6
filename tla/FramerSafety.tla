---------------------------- MODULE FramerSafety ----------------------------
(***************************************************************************)
(* Properties of the framing layer (module Framer).                        *)
(***************************************************************************)
EXTENDS Framer

----------------------------------------------------------------------------
(* Safety                                                                  *)

\* No poke outlives its operation, whatever the race between the end of its
\* context and its own end.
InterruptsEnd ==
    /\ rstage \in {"idle", "judging", "poisoning"} => rwatch = "off" /\ ~rdPoked
    /\ rstage = "idle" /\ ~closed => rdl = "none"
    /\ wstage \in {"idle", "judging", "poisoning"} => wwatch = "off" /\ wdl = "none"

\* A cancelled read that is still in progress cannot go back to waiting: no
\* hook replaces the poked deadline.
PokeStands == rwatch = "done" => rdl = "past"

\* A connection that stays open between two operations is as good as new: it
\* has no deadline and no watcher, and its reader is at a message boundary. A
\* cancelled read that dropped any byte has closed it.
OpenIsUsable == InterruptsEnd /\ (~closed /\ rstage = "idle" => ~torn /\ ~dirty)

\* While a read waits, its clock runs exactly if part of a frame has been
\* consumed, unless a poke has replaced it for good: neither an idle connection
\* nor padding can expire, and a frame that has begun can.
DeadlineExact ==
    /\ PokeStands
    /\ Waits /\ ~closed /\ rwatch # "done" => (rdl \in {"age", "aged"} <=> dirty)

\* The age of a frame is blamed only for a frame cut off by it, and for every
\* one that no cancellation met.
AgeBlamedRightly ==
    /\ rresult = "partialAge" => rdl = "aged" /\ dirty /\ closed
    /\ rresult = "Timeout" => rdl = "none" /\ dirty /\ closed

----------------------------------------------------------------------------
(* The promise to the session                                              *)

LinkWriting ==
    IF wstage \in {"writing", "returned", "judging"} THEN "yes"
    ELSE IF wstage = "poisoning" THEN "poisoning" ELSE "no"

Promise == INSTANCE Link WITH writing <- LinkWriting
\* The framer keeps its promise to the session (module Link): a disposition
\* tells the truth about what was sent, whatever error the transport gives and
\* whoever else closes the connection.
LinkSpec == Promise!Spec

----------------------------------------------------------------------------
(* The inductive invariant of module FramerProofs                          *)

Armed == rdl \in {"age", "aged"}
ReadOpen == rstage = "reading" /\ rwatch # "done" /\ ~closed

\* The parser and its call: what is buffered behind a clean boundary, and how a
\* call that has ended left the reader.
ParserPart ==
    /\ dirty \in BOOLEAN /\ torn \in BOOLEAN
    /\ place \in {"idle", "banner", "start", "fields", "headers", "payload", "closing"}
    /\ hook \in {"none", "start", "padding"}
    /\ err # "partialAge"
    /\ place # "idle" <=> rstage = "reading" /\ err = "none"
    /\ hook # "none" => place # "idle"
    /\ hook = "start" => dirty
    /\ hook = "padding" => ~dirty /\ Between
    /\ place # "idle" => ~torn
    /\ place # "idle" /\ hook # "padding" /\ ~dirty => Between /\ ~Buffered

\* The watcher of a read and the deadline it may poke.
WatchPart ==
    /\ closed \in BOOLEAN /\ rdPoked \in BOOLEAN /\ interrupted \in BOOLEAN
    /\ rdl \in {"none", "past", "age", "aged"}
    /\ rstage \in {"idle", "reading", "judging", "poisoning"}
    /\ rwatch \in {"off", "armed", "firing", "done"}
    /\ rwatch # "off" <=> rstage = "reading"
    /\ rdPoked <=> rwatch = "done"
    /\ rdl = "past" <=> rwatch = "done"

\* The partial-frame clock, from the call to the judgement of its result.
ClockPart ==
    /\ ReadOpen /\ hook = "none" /\ err # "ok" => (Armed <=> dirty)
    /\ rstage = "reading" /\ err = "Timeout" => Expired(rdl)
    /\ rstage # "idle" /\ err = "ok" => ~dirty /\ ~torn
    /\ rstage # "idle" /\ err = "Timeout" /\ ~dirty => ~torn
    /\ rstage \in {"judging", "poisoning"} =>
          /\ interrupted => rdl = "none"
          /\ ~interrupted /\ err = "Timeout" => rdl = "aged"
    /\ rstage = "judging" /\ ~interrupted /\ ~closed /\ err # "ok" => (Armed <=> dirty)
    /\ rstage = "poisoning" => err # "ok" /\ ~CleanTimeout /\ (err = "Timeout" => dirty)

\* What a read that has returned leaves behind.
ResultPart ==
    /\ rstage # "idle" => rresult = "none"
    /\ rstage = "idle" /\ ~closed => rdl = "none" /\ ~dirty /\ ~torn
    /\ AgeBlamedRightly

WriterPart ==
    /\ wstage \in {"idle", "writing", "returned", "judging", "poisoning"}
    /\ wwatch \in {"off", "armed", "firing", "done"}
    /\ wwatch # "off" <=> wstage \in {"writing", "returned"}
    /\ wdl \in {"none", "past"} /\ (wdl = "past" <=> wwatch = "done")
    /\ sent \in {"none", "some", "all"}
    /\ wstage \in {"returned", "judging"} /\ werr = "none" => sent = "all"

FramerInductive == ParserPart /\ WatchPart /\ ClockPart /\ ResultPart /\ WriterPart

----------------------------------------------------------------------------
(* Liveness                                                                *)

\* Every operation ends once its context has ended or the connection has been
\* closed, and a frame that has begun is completed, found to be padding, or
\* cut off.
OperationsEnd ==
    /\ rwatch = "firing" ~> rstage = "idle"
    /\ wwatch = "firing" ~> wstage = "idle"
    /\ closed ~> rstage = "idle" /\ wstage = "idle"
    /\ dirty ~> ~dirty \/ rstage = "idle"
=============================================================================
