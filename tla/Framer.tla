------------------------------- MODULE Framer -------------------------------
(***************************************************************************)
(* The framing layer (conn.go) over the parser (module Wire) and one       *)
(* connection: a reading goroutine, a writing goroutine, a caller of       *)
(* close, and for each operation a watcher, which pokes a deadline in the  *)
(* past into the connection when the context of the operation ends.        *)
(*                                                                         *)
(* A critical section of the framer is one step, and so is what a          *)
(* goroutine does alone.  An expired deadline fails every read or write    *)
(* until it is replaced; a closed connection fails them for good.          *)
(***************************************************************************)
EXTENDS Wire, Outcomes

VARIABLES
    \* framer
    closed,     \* framer.closed
    rdPoked,
    \* the connection
    rdl,        \* read deadline: "none", "past" (poked), "age" (armed), "aged" (expired)
    wdl,        \* write deadline: "none" or "past"
    \* read
    rstage,     \* "idle", "reading", "judging" or "poisoning"
    rwatch,     \* watcher: "off", "armed", "firing" or "done" (poked)
    interrupted,
    rresult,    \* how the last read ended; "none" during a read
    \* writeAction
    wstage,     \* "idle", "writing", "returned", "judging" or "poisoning"
    wwatch, winterrupted,
    sent,       \* bytes written: "none", "some" or "all"
    werr,       \* the error of conn.Write: "none", "Timeout", "Short" or "Failed"
    disp

readVars == <<rdPoked, rdl, rstage, rwatch, interrupted, rresult>>
writeVars == <<wdl, wstage, wwatch, winterrupted, sent, werr, disp>>
framerVars == <<wireVars, closed, readVars, writeVars>>

FramerInit ==
    /\ Init
    /\ closed = FALSE /\ rdPoked = FALSE /\ rdl = "none" /\ wdl = "none"
    /\ rstage = "idle" /\ rwatch = "off" /\ interrupted = FALSE /\ rresult = "none"
    /\ wstage = "idle" /\ wwatch = "off" /\ winterrupted = FALSE
    /\ sent = "none" /\ werr = "none" /\ disp = "none"

----------------------------------------------------------------------------
(* The read deadline                                                       *)

\* Fault: the poke is announced only.
PokeWithoutDeadline == rdPoked' = TRUE /\ UNCHANGED rdl

\* readPoke.
Poke == rdPoked' = TRUE /\ rdl' = "past"

\* readClear.
ReadClear == rdPoked' = FALSE /\ rdl' = "none"

\* Fault: the hooks of the reader do not look for a poke.
ArmAlways(deadline) == rdl' = deadline

\* frameStarted and framePadded: a poke wins, and so does a close.
Arm(deadline) == rdl' = IF rdPoked \/ closed THEN rdl ELSE deadline

FrameStarted == Arm("age")
FramePadded == Arm("none")

\* A line that is read leaves the clock of its frame running; a hook moves it.
RunHook ==
    /\ \/ StartHook /\ FrameStarted
       \/ PaddingHook /\ FramePadded
    /\ UNCHANGED <<buf, part, afterMessage, pad, place, msg, err, historyVars>>
    /\ UNCHANGED <<closed, rdPoked, rstage, rwatch, interrupted, rresult, writeVars>>

AgePasses ==
    /\ rdl = "age" /\ rdl' = "aged"
    /\ UNCHANGED <<wireVars, closed, rdPoked, rstage, rwatch, interrupted, rresult, writeVars>>

----------------------------------------------------------------------------
(* read                                                                    *)

\* enter: the context has ended, or the connection is closed.
ReadRefused ==
    /\ rstage = "idle"
    /\ \/ rresult' = "canceled"
       \/ closed /\ rresult' = "Closed"
    /\ UNCHANGED <<wireVars, closed, rdPoked, rdl, rstage, rwatch, interrupted, writeVars>>

ReadCall ==
    /\ rstage = "idle" /\ ~closed
    /\ \E p \in {"banner", "start"} : (p = "banner" => frame = <<>>) /\ Call(p)
    /\ rstage' = "reading" /\ rwatch' = "armed" /\ rresult' = "none"
    /\ UNCHANGED <<closed, rdPoked, rdl, interrupted, writeVars>>

Expired(deadline) == deadline \in {"past", "aged"}

\* The transport brings bytes, or fails.
ReadReceives ==
    /\ ~closed /\ ~Expired(rdl)
    /\ \E new \in Chunks, tail \in {"none", "short", "long"} : Receive(new, tail)
    /\ UNCHANGED <<closed, readVars, writeVars>>

ReadBreaks ==
    /\ \E why \in {"EOF", "Failed"} : ~closed /\ ReadFails(why)
    /\ UNCHANGED <<closed, readVars, writeVars>>

ReadStops ==
    /\ \/ Expired(rdl) /\ ReadFails("Timeout")
       \/ closed /\ ReadFails("Closed")
    /\ UNCHANGED <<closed, readVars, writeVars>>

ReadLine ==
    /\ Overlong \/ TakeLine
    /\ UNCHANGED <<closed, readVars, writeVars>>

\* The context of the read ends; its watcher pokes, under the lock.
ReadContextEnds ==
    /\ rwatch = "armed" /\ rwatch' = "firing"
    /\ UNCHANGED <<wireVars, closed, rdPoked, rdl, rstage, interrupted, rresult, writeVars>>

ReadPoke ==
    /\ rwatch = "firing" /\ rwatch' = "done"
    /\ Poke
    /\ UNCHANGED <<wireVars, closed, rstage, interrupted, rresult, writeVars>>

\* Fault: a watcher that has started is not waited for.
ReleaseAtOnce ==
    /\ rstage = "reading" /\ place = "idle"
    /\ \/ /\ rwatch = "armed" /\ rwatch' = "off"
          /\ interrupted' = FALSE /\ UNCHANGED <<rdPoked, rdl>>
       \/ /\ rwatch # "armed" /\ UNCHANGED rwatch
          /\ interrupted' = TRUE /\ ReadClear
    /\ rstage' = "judging"
    /\ UNCHANGED <<wireVars, closed, rresult, writeVars>>

\* release: the watcher is stopped, or its poke is awaited and cleared.
Release ==
    /\ rstage = "reading" /\ place = "idle"
    /\ \/ /\ rwatch = "armed"
          /\ interrupted' = FALSE /\ UNCHANGED <<rdPoked, rdl>>
       \/ /\ rwatch = "done"
          /\ interrupted' = TRUE /\ ReadClear
    /\ rwatch' = "off" /\ rstage' = "judging"
    /\ UNCHANGED <<wireVars, closed, rresult, writeVars>>

\* Nothing of a frame has been consumed.
CleanTimeout == interrupted /\ ~dirty /\ err = "Timeout"

Judge ==
    /\ rstage = "judging"
    /\ \/ err = "ok" /\ rresult' = "ok" /\ rstage' = "idle" /\ ReadClear
       \/ /\ err # "ok"
          /\ UNCHANGED <<rdPoked, rdl>>
          /\ \/ closed /\ rresult' = "Closed" /\ rstage' = "idle"
             \/ ~closed /\ CleanTimeout /\ rresult' = "canceled" /\ rstage' = "idle"
             \/ ~closed /\ ~CleanTimeout /\ rstage' = "poisoning" /\ UNCHANGED rresult
    /\ interrupted' = (interrupted /\ rstage' = "poisoning")
    /\ UNCHANGED <<wireVars, closed, rwatch, writeVars>>

\* Fault: whatever interrupted the frame, its age is blamed.
FailureAlwaysAge == IF dirty /\ err = "Timeout" THEN "partialAge" ELSE err

\* The only deadline that expires inside a frame without a poke is its age.
Failure == IF ~interrupted /\ dirty /\ err = "Timeout" THEN "partialAge" ELSE err

PoisonRead ==
    /\ rstage = "poisoning" /\ rstage' = "idle"
    /\ closed' = TRUE /\ rresult' = Failure /\ interrupted' = FALSE
    /\ UNCHANGED <<wireVars, rdPoked, rdl, rwatch, writeVars>>

----------------------------------------------------------------------------
(* writeAction                                                             *)

reader == <<wireVars, readVars>>

\* enter, validation and encoding.
WriteRefused ==
    /\ wstage = "idle"
    /\ disp' \in EnterOutcomes(closed) /\ sent' = "none"
    /\ UNCHANGED <<reader, closed, wdl, wstage, wwatch, winterrupted, werr>>

WriteCall ==
    /\ wstage = "idle" /\ ~closed
    /\ wstage' = "writing" /\ wwatch' = "armed"
    /\ sent' = "none" /\ disp' = "none"
    /\ UNCHANGED <<reader, closed, wdl, winterrupted, werr>>

\* The transport takes bytes.
WriteBytes ==
    /\ wstage = "writing" /\ ~closed /\ ~Expired(wdl)
    /\ sent' \in {"some", "all"}
    /\ UNCHANGED <<reader, closed, wdl, wstage, wwatch, winterrupted, werr, disp>>

\* conn.Write returns.  A transport may return an error whatever it has taken.
WriteEnds ==
    /\ wstage = "writing"
    /\ \/ sent = "all" /\ werr' = "none"
       \/ sent # "all" /\ werr' = "Short"
       \/ werr' = "Failed"
       \/ Expired(wdl) /\ werr' = "Timeout"
    /\ wstage' = "returned"
    /\ UNCHANGED <<reader, closed, wdl, wwatch, winterrupted, sent, disp>>

WriteContextEnds ==
    /\ wwatch = "armed" /\ wwatch' = "firing"
    /\ UNCHANGED <<reader, closed, wdl, wstage, winterrupted, sent, werr, disp>>

WritePoke ==
    /\ wwatch = "firing" /\ wwatch' = "done" /\ wdl' = "past"
    /\ UNCHANGED <<reader, closed, wstage, winterrupted, sent, werr, disp>>

\* release, with writeClear.
WriteRelease ==
    /\ wstage = "returned"
    /\ \/ wwatch = "armed" /\ winterrupted' = FALSE /\ UNCHANGED wdl
       \/ wwatch = "done" /\ winterrupted' = TRUE /\ wdl' = "none"
    /\ wwatch' = "off" /\ wstage' = "judging"
    /\ UNCHANGED <<reader, closed, sent, werr, disp>>

\* Fault: the error decides whether a write was cancelled.
DispositionByError ==
    IF werr = "none" THEN "complete"
    ELSE IF closed THEN IF sent = "none" THEN "closed" ELSE "partialClosed"
    ELSE IF werr = "Timeout" THEN "canceled"
    ELSE IF sent = "none" THEN "notSent" ELSE "partial"

Disposition ==
    IF werr = "none" THEN "complete"
    ELSE IF closed THEN IF sent = "none" THEN "closed" ELSE "partialClosed"
    ELSE IF winterrupted /\ sent = "none" /\ werr = "Timeout" THEN "canceled"
    ELSE IF sent = "none" THEN "notSent" ELSE "partial"

WriteJudge ==
    /\ wstage = "judging"
    /\ disp' = Disposition
    /\ wstage' = IF disp' \in Poisonous THEN "poisoning" ELSE "idle"
    /\ winterrupted' = FALSE /\ werr' = "none"
    /\ UNCHANGED <<reader, closed, wdl, wwatch, sent>>

PoisonWrite ==
    /\ wstage = "poisoning" /\ wstage' = "idle" /\ closed' = TRUE
    /\ UNCHANGED <<reader, wdl, wwatch, winterrupted, sent, werr, disp>>

----------------------------------------------------------------------------

Close == closed' = TRUE /\ UNCHANGED <<reader, writeVars>>

Read ==
    \/ ReadRefused \/ ReadCall \/ ReadReceives \/ ReadBreaks \/ ReadStops \/ ReadLine
    \/ RunHook \/ Release \/ Judge \/ PoisonRead

Write ==
    \/ WriteRefused \/ WriteCall \/ WriteBytes \/ WriteEnds \/ WriteRelease
    \/ WriteJudge \/ PoisonWrite

Watchers ==
    \/ ReadContextEnds \/ ReadPoke \/ WriteContextEnds \/ WritePoke \/ AgePasses

FramerNext == Read \/ Write \/ Watchers \/ Close

FramerSpec == FramerInit /\ [][FramerNext]_framerVars

\* A watcher that has started runs, a read or write past its deadline or on a
\* closed connection returns, and the goroutine of an operation goes on.
Fairness ==
    /\ WF_framerVars(ReadPoke) /\ WF_framerVars(WritePoke) /\ WF_framerVars(AgePasses)
    /\ WF_framerVars(ReadStops) /\ WF_framerVars(ReadLine) /\ WF_framerVars(RunHook)
    /\ WF_framerVars(Release) /\ WF_framerVars(Judge) /\ WF_framerVars(PoisonRead)
    /\ WF_framerVars((closed \/ Expired(wdl)) /\ WriteEnds)
    /\ WF_framerVars(WriteRelease) /\ WF_framerVars(WriteJudge) /\ WF_framerVars(PoisonWrite)

FairSpec == FramerSpec /\ Fairness
=============================================================================
