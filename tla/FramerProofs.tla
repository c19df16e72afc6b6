---------------------------- MODULE FramerProofs ----------------------------
(***************************************************************************)
(* Proofs about the framing layer and the parser under it: for every set   *)
(* of lines, every limit and any grouping into reads of the transport, the *)
(* invariants of module FramerSafety hold and the framer keeps the promise *)
(* of module Link.                                                         *)
(***************************************************************************)
EXTENDS FramerSafety, WireSafety, SumProofs, TLAPS

----------------------------------------------------------------------------
(* What a step of the parser does to what the framer sees of it            *)

Started == {"fields", "headers", "payload", "closing"}

\* The four ways a line is taken.
LineContinues ==
    /\ place' \in Started
    /\ UNCHANGED <<dirty, torn, hook, err>>
LineCompletes ==
    /\ place' = "idle" /\ err' = "ok" /\ dirty' = FALSE
    /\ UNCHANGED <<torn, hook>>
LineRefused ==
    /\ place' = "idle" /\ err' \notin {"ok", "none", "Timeout", "partialAge"} /\ torn' = TRUE
    /\ UNCHANGED <<dirty, hook>>
LinePads ==
    /\ place = "start" /\ place' = "start" /\ hook' = "padding" /\ dirty' = FALSE
    /\ UNCHANGED <<torn, err>>

LEMMA ExceedsErrors ==
    ASSUME NEW m
    PROVE  Exceeds(m) = "none" \/ Exceeds(m) \notin {"ok", "none", "Timeout", "partialAge"}
  BY DEF Exceeds

LEMMA ChargeTakes ==
    ASSUME NEW m, NEW line, NEW next \in Started, Charge(m, line, next)
    PROVE  LineContinues \/ LineRefused
  BY ExceedsErrors DEF Charge, LineContinues, LineRefused, Started

LEMMA CompleteTakes ==
    ASSUME NEW line, Complete(line)
    PROVE  LineCompletes \/ LineRefused
  BY ExceedsErrors DEF Complete, LineCompletes, LineRefused

LEMMA RefuseTakes ==
    ASSUME NEW e, e \notin {"ok", "none", "Timeout", "partialAge"}, Refuse(e)
    PROVE  LineRefused
  BY DEF Refuse, LineRefused

LEMMA TakeLineTakes ==
    ASSUME TakeLine
    PROVE  /\ place # "idle" /\ hook = "none" /\ buf # <<>>
           /\ part' = part /\ buf' = Tail(buf)
           /\ LineContinues \/ LineCompletes \/ LineRefused \/ LinePads
<1> DEFINE line == Head(buf)
<1> SUFFICES LineContinues \/ LineCompletes \/ LineRefused \/ LinePads
  BY DEF TakeLine, lineFrame
<1>0. \/ BannerLine(line) \/ Padding(line) \/ EmptyStart(line) \/ FirstLine(line)
      \/ FieldLine(line) \/ TrailerLine(line) \/ OutputLine(line)
      \/ ClosingLine(line) \/ LongLine(line)
  BY DEF TakeLine
<1> HIDE DEF line
<1>1. CASE BannerLine(line)
  BY <1>1 DEF BannerLine, LineCompletes
<1>2. CASE Padding(line)
  BY <1>2 DEF Padding, LineRefused, LinePads
<1>3. CASE EmptyStart(line)
  BY <1>3, RefuseTakes DEF EmptyStart
<1>4. CASE FirstLine(line)
  <2> DEFINE m == Field(NewMsg, line)
  <2>1. /\ place = "start" /\ UNCHANGED <<dirty, hook>>
        /\ \/ err' = "MalformedLine" /\ place' = "idle" /\ torn' = TRUE
           \/ Exceeds(m) = "none" /\ place' \in {"headers", "fields"} /\ UNCHANGED <<err, torn>>
           \/ Exceeds(m) # "none" /\ place' = "idle" /\ err' = Exceeds(m) /\ torn' = TRUE
    BY <1>4 DEF FirstLine
  <2> QED BY <2>1, ExceedsErrors DEF LineContinues, LineRefused, Started
<1>5. CASE FieldLine(line)
  <2>1. place = "fields" /\ "fields" \in Started
    BY <1>5 DEF FieldLine, Started
  <2> QED BY <1>5, <2>1, ChargeTakes, CompleteTakes, RefuseTakes DEF FieldLine
<1>6. CASE TrailerLine(line)
  BY <1>6, ChargeTakes DEF TrailerLine, Started
<1>7. CASE OutputLine(line)
  BY <1>7, ChargeTakes DEF OutputLine, Started
<1>8. CASE ClosingLine(line)
  BY <1>8, CompleteTakes, RefuseTakes DEF ClosingLine
<1>9. CASE LongLine(line)
  BY <1>9, RefuseTakes DEF LongLine
<1> QED BY <1>0, <1>1, <1>2, <1>3, <1>4, <1>5, <1>6, <1>7, <1>8, <1>9

\* A call that ends for want of bytes has torn the stream unless it was clean.
LEMMA FailKeeps ==
    ASSUME NEW e, Fail(e), Waits, UNCHANGED <<dirty, buf>>, e \notin {"ok", "none", "partialAge"}
    PROVE  /\ place # "idle" /\ hook = "none" /\ buf = <<>>
           /\ place' = "idle" /\ hook' = "none" /\ err' = e
           /\ UNCHANGED dirty
           /\ torn' = (torn \/ ~Between \/ part # "none")
  BY DEF Fail, Waits

----------------------------------------------------------------------------
(* The reading side                                                        *)

ReadPart == ParserPart /\ WatchPart /\ ClockPart /\ ResultPart

LEMMA FramerStarts == FramerInit => FramerInductive
  BY DEF FramerInit, Init, FramerInductive, ParserPart, WatchPart, ClockPart, ResultPart,
         WriterPart, AgeBlamedRightly, ReadOpen, Armed, Between

\* A step that leaves the reading side alone, but may close the connection.
LEMMA ReadFrame ==
    ASSUME ReadPart, UNCHANGED <<wireVars, readVars>>, closed' \in {closed, TRUE}
    PROVE  ReadPart'
<1> USE DEF wireVars, readerVars, historyVars, readVars
<1>1. ParserPart'
  BY DEF ReadPart, ParserPart, Between, Buffered
<1>2. WatchPart'
  BY DEF ReadPart, WatchPart
<1>3. ClockPart'
  BY DEF ReadPart, WatchPart, ClockPart, ReadOpen, Armed, CleanTimeout, Expired
<1>4. ResultPart'
  BY DEF ReadPart, WatchPart, ResultPart, AgeBlamedRightly
<1> QED BY <1>1, <1>2, <1>3, <1>4 DEF ReadPart

LEMMA RefusedKeeps == ASSUME ReadPart, ReadRefused PROVE ReadPart'
<1> USE DEF wireVars, readerVars, historyVars, ReadRefused
<1>1. ParserPart'
  BY DEF ReadPart, ParserPart, Between, Buffered
<1>2. WatchPart'
  BY DEF ReadPart, WatchPart
<1>3. ClockPart'
  BY DEF ReadPart, ClockPart, ReadOpen, Armed, CleanTimeout, Expired
<1>4. ResultPart'
  BY DEF ReadPart, ResultPart, AgeBlamedRightly
<1> QED BY <1>1, <1>2, <1>3, <1>4 DEF ReadPart

LEMMA CallKeeps == ASSUME ReadPart, ReadCall PROVE ReadPart'
<1>1. /\ rstage = "idle" /\ ~closed /\ rstage' = "reading" /\ rwatch' = "armed"
      /\ rresult' = "none" /\ err' = "none" /\ place' \in {"banner", "start"}
      /\ UNCHANGED <<closed, rdPoked, rdl, interrupted, buf, part, torn>>
      /\ dirty' = Buffered /\ hook' = IF Buffered THEN "start" ELSE "none"
  BY DEF ReadCall, Call, EnterLine, historyVars
<1>2. ~Buffered <=> ~Buffered'
  BY <1>1 DEF Buffered
<1>3. Buffered \in BOOLEAN
  BY DEF Buffered
<1>4. ParserPart'
  BY <1>1, <1>2, <1>3 DEF ReadPart, ParserPart, ResultPart, Between
<1>5. WatchPart'
  BY <1>1 DEF ReadPart, WatchPart, ResultPart
<1>6. ClockPart'
  BY <1>1, <1>3 DEF ReadPart, ClockPart, ResultPart, ReadOpen, Armed
<1>7. ResultPart'
  BY <1>1 DEF ReadPart, ResultPart, AgeBlamedRightly
<1> QED BY <1>4, <1>5, <1>6, <1>7 DEF ReadPart

LEMMA ReceiveKeeps == ASSUME ReadPart, ReadReceives PROVE ReadPart'
<1>1. /\ Waits /\ dirty' = TRUE /\ hook' = IF dirty THEN "none" ELSE "start"
      /\ UNCHANGED <<closed, readVars, place, err, torn>>
  BY DEF ReadReceives, Receive, FrameStart
<1>2. ParserPart'
  BY <1>1 DEF ReadPart, ParserPart, Waits, readVars
<1>3. WatchPart'
  BY <1>1 DEF ReadPart, WatchPart, readVars
<1>4. ClockPart'
  BY <1>1 DEF ReadPart, ParserPart, ClockPart, Waits, ReadOpen, Armed, readVars
<1>5. ResultPart'
  BY <1>1 DEF ReadPart, ParserPart, ResultPart, AgeBlamedRightly, Waits, readVars
<1> QED BY <1>2, <1>3, <1>4, <1>5 DEF ReadPart

\* A call that ends with the error e; a deadline only if one has expired.
LEMMA FailureKeeps ==
    ASSUME ReadPart, NEW e, e \notin {"ok", "none", "partialAge"}, Waits, Fail(e),
           e = "Timeout" => Expired(rdl), UNCHANGED <<dirty, buf, closed, readVars>>
    PROVE  ReadPart'
<1>1. /\ place # "idle" /\ hook = "none" /\ buf = <<>>
      /\ place' = "idle" /\ hook' = "none" /\ err' = e
      /\ UNCHANGED <<dirty, closed, readVars>>
      /\ torn' = (torn \/ ~Between \/ part # "none")
  BY FailKeeps
<1>2. (~dirty => ~torn') /\ torn' \in BOOLEAN
  BY <1>1 DEF ReadPart, ParserPart, Buffered
<1>3. ParserPart'
  BY <1>1, <1>2 DEF ReadPart, ParserPart, readVars
<1>4. WatchPart'
  BY <1>1 DEF ReadPart, WatchPart, readVars
<1>5. ClockPart'
  BY <1>1, <1>2 DEF ReadPart, ParserPart, ClockPart, ReadOpen, Armed, Expired, readVars
<1>6. ResultPart'
  BY <1>1 DEF ReadPart, ParserPart, ResultPart, AgeBlamedRightly, readVars
<1> QED BY <1>3, <1>4, <1>5, <1>6 DEF ReadPart

LEMMA EndsKeep ==
    ASSUME ReadPart, ReadBreaks \/ ReadStops \/ (ReadLine /\ Overlong)
    PROVE  ReadPart'
<1>1. CASE ReadBreaks \/ ReadStops
  <2>1. PICK why \in {"EOF", "Failed", "Timeout", "Closed"} :
            /\ ReadFails(why) /\ UNCHANGED <<closed, readVars>>
            /\ why = "Timeout" => Expired(rdl)
    BY <1>1 DEF ReadBreaks, ReadStops
  <2> DEFINE e == IF why = "EOF" THEN Ended ELSE why
  <2>2. e \notin {"ok", "none", "partialAge"} /\ (e = "Timeout" => Expired(rdl))
    BY <2>1 DEF Ended
  <2>3. Waits /\ Fail(e) /\ UNCHANGED <<dirty, buf>>
    BY <2>1 DEF ReadFails
  <2> QED BY <2>1, <2>2, <2>3, FailureKeeps
<1>2. CASE ReadLine /\ Overlong
  <2> DEFINE e == IF place = "banner" THEN "BannerTooLong" ELSE "LineTooLong"
  <2>1. Waits /\ Fail(e) /\ UNCHANGED <<dirty, buf, closed, readVars>>
    BY <1>2 DEF ReadLine, Overlong
  <2>2. e \notin {"ok", "none", "Timeout", "partialAge"}
    OBVIOUS
  <2> QED BY <2>1, <2>2, FailureKeeps
<1> QED BY <1>1, <1>2

LEMMA LineKeeps == ASSUME ReadPart, ReadLine, TakeLine PROVE ReadPart'
<1>1. /\ place # "idle" /\ hook = "none" /\ buf # <<>>
      /\ LineContinues \/ LineCompletes \/ LineRefused \/ LinePads
      /\ UNCHANGED <<closed, readVars>>
  BY TakeLineTakes DEF ReadLine
<1>2. dirty /\ ~torn /\ err = "none" /\ rstage = "reading"
  BY <1>1 DEF ReadPart, ParserPart, Buffered
<1>3. ParserPart'
  <2>1. CASE LineContinues
    BY <1>1, <1>2, <2>1 DEF ReadPart, ParserPart, LineContinues, Started, readVars
  <2>2. CASE LineCompletes
    BY <1>1, <1>2, <2>2 DEF ReadPart, ParserPart, LineCompletes, readVars
  <2>3. CASE LineRefused
    BY <1>1, <1>2, <2>3 DEF ReadPart, ParserPart, LineRefused, readVars
  <2>4. CASE LinePads
    BY <1>1, <1>2, <2>4 DEF ReadPart, ParserPart, LinePads, Between, readVars
  <2> QED BY <1>1, <2>1, <2>2, <2>3, <2>4
<1>4. WatchPart'
  BY <1>1 DEF ReadPart, WatchPart, readVars
<1>5. ClockPart'
  <2>1. CASE LineContinues
    BY <1>1, <1>2, <2>1 DEF ReadPart, ClockPart, LineContinues, ReadOpen, Armed, readVars
  <2>2. CASE LineCompletes
    BY <1>1, <1>2, <2>2 DEF ReadPart, ClockPart, LineCompletes, ReadOpen, Armed, readVars
  <2>3. CASE LineRefused
    BY <1>1, <1>2, <2>3 DEF ReadPart, ClockPart, LineRefused, ReadOpen, Armed, readVars
  <2>4. CASE LinePads
    BY <1>1, <1>2, <2>4 DEF ReadPart, ClockPart, LinePads, ReadOpen, Armed, readVars
  <2> QED BY <1>1, <2>1, <2>2, <2>3, <2>4
<1>6. ResultPart'
  BY <1>1, <1>2 DEF ReadPart, ResultPart, AgeBlamedRightly, readVars
<1> QED BY <1>3, <1>4, <1>5, <1>6 DEF ReadPart

LEMMA HookKeeps == ASSUME ReadPart, RunHook PROVE ReadPart'
<1>1. /\ UNCHANGED <<buf, part, place, err, torn, closed, rdPoked, rstage, rwatch,
                      interrupted, rresult>>
      /\ \/ /\ hook = "start" /\ hook' = "none" /\ dirty' = dirty
            /\ rdl' = IF rdPoked \/ closed THEN rdl ELSE "age"
         \/ /\ hook = "padding" /\ dirty' = Buffered
            /\ hook' = IF Buffered THEN "start" ELSE "none"
            /\ rdl' = IF rdPoked \/ closed THEN rdl ELSE "none"
  BY DEF RunHook, StartHook, PaddingHook, FrameStarted, FramePadded, Arm, EnterLine, historyVars
<1>2. (Buffered <=> Buffered') /\ Buffered \in BOOLEAN
  BY <1>1 DEF Buffered
<1>3. place # "idle" /\ err = "none" /\ rstage = "reading" /\ ~torn
  BY <1>1 DEF ReadPart, ParserPart
<1>4. ParserPart'
  BY <1>1, <1>2, <1>3 DEF ReadPart, ParserPart, Between
<1>5. WatchPart'
  BY <1>1 DEF ReadPart, WatchPart
<1>6. ClockPart'
  BY <1>1, <1>2, <1>3 DEF ReadPart, ParserPart, WatchPart, ClockPart, ReadOpen, Armed
<1>7. ResultPart'
  BY <1>1, <1>3 DEF ReadPart, ResultPart, AgeBlamedRightly
<1> QED BY <1>4, <1>5, <1>6, <1>7 DEF ReadPart

\* Steps of the framer alone: the parser is not called.
LEMMA ParserFrame ==
    ASSUME ParserPart, UNCHANGED wireVars,
           rstage' = rstage \/ (err # "none" /\ rstage' # "reading")
                            \/ (rstage # "reading" /\ rstage' # "reading")
    PROVE  ParserPart'
  BY DEF ParserPart, Between, Buffered, wireVars, readerVars, historyVars

LEMMA WatcherKeeps ==
    ASSUME ReadPart, ReadContextEnds \/ ReadPoke \/ AgePasses
    PROVE  ReadPart'
<1> USE DEF wireVars, readerVars, historyVars, ReadContextEnds, ReadPoke, Poke, AgePasses
<1>1. ParserPart'
  BY ParserFrame DEF ReadPart
<1>2. WatchPart'
  <2>1. CASE ReadContextEnds
    BY <2>1 DEF ReadPart, WatchPart
  <2>2. CASE ReadPoke
    <3>1. /\ rdPoked' = TRUE /\ rdl' = "past" /\ rwatch' = "done"
          /\ rwatch = "firing" /\ UNCHANGED <<closed, interrupted, rstage>>
      BY <2>2
    <3>2. rdPoked' \in BOOLEAN /\ (rdPoked' <=> rwatch' = "done")
      BY <3>1, Zenon
    <3> QED BY <3>1, <3>2 DEF ReadPart, WatchPart
  <2>3. CASE AgePasses
    BY <2>3 DEF ReadPart, WatchPart
  <2> QED BY <2>1, <2>2, <2>3
<1>3. ClockPart'
  BY DEF ReadPart, WatchPart, ClockPart, ReadOpen, Armed, Expired, CleanTimeout
<1>4. ResultPart'
  BY DEF ReadPart, WatchPart, ResultPart, AgeBlamedRightly
<1> QED BY <1>1, <1>2, <1>3, <1>4 DEF ReadPart

LEMMA ReleaseKeeps == ASSUME ReadPart, Release PROVE ReadPart'
<1> USE DEF wireVars, readerVars, historyVars, Release, ReadClear
<1>1. err # "none"
  BY DEF ReadPart, ParserPart
<1>2. ParserPart'
  BY <1>1, ParserFrame DEF ReadPart
<1>3. WatchPart'
  <2>1. /\ rwatch' = "off" /\ rstage' = "judging" /\ UNCHANGED closed
        /\ interrupted' \in BOOLEAN
        /\ \/ rwatch = "armed" /\ UNCHANGED <<rdPoked, rdl>>
           \/ rdPoked' = FALSE /\ rdl' = "none"
    OBVIOUS
  <2>2. rdPoked' \in BOOLEAN /\ rdPoked' = FALSE /\ rdl' \in {"none", "age", "aged"}
    BY <2>1 DEF ReadPart, WatchPart
  <2> QED BY <2>1, <2>2 DEF ReadPart, WatchPart
<1>4. ClockPart'
  BY DEF ReadPart, ParserPart, WatchPart, ClockPart, ReadOpen, Armed, Expired
<1>5. ResultPart'
  BY DEF ReadPart, ResultPart, AgeBlamedRightly
<1> QED BY <1>2, <1>3, <1>4, <1>5 DEF ReadPart

LEMMA JudgeKeeps == ASSUME ReadPart, Judge PROVE ReadPart'
<1> USE DEF wireVars, readerVars, historyVars, Judge, ReadClear
<1>1. ParserPart'
  BY ParserFrame DEF ReadPart
<1>2. WatchPart'
  <2>1. /\ rstage' # "reading" /\ rstage' \in {"idle", "poisoning"}
        /\ UNCHANGED <<closed, rwatch>>
        /\ UNCHANGED <<rdPoked, rdl>> \/ (rdPoked' = FALSE /\ rdl' = "none")
    OBVIOUS
  <2>2. interrupted' \in BOOLEAN
    OBVIOUS
  <2>3. rwatch = "off" /\ rdPoked = FALSE /\ rdl # "past"
    BY DEF ReadPart, WatchPart
  <2>4. rdPoked' = FALSE /\ rdl' \in {"none", "age", "aged"}
    BY <2>1, <2>3 DEF ReadPart, WatchPart
  <2> QED BY <2>1, <2>2, <2>3, <2>4 DEF ReadPart, WatchPart
<1>3. ClockPart'
  BY DEF ReadPart, WatchPart, ClockPart, ReadOpen, Armed, CleanTimeout
<1>4. ResultPart'
  BY DEF ReadPart, WatchPart, ClockPart, ResultPart, AgeBlamedRightly, CleanTimeout
<1> QED BY <1>1, <1>2, <1>3, <1>4 DEF ReadPart

LEMMA PoisonKeeps == ASSUME ReadPart, PoisonRead PROVE ReadPart'
<1> USE DEF wireVars, readerVars, historyVars, PoisonRead
<1>1. ParserPart'
  BY ParserFrame DEF ReadPart
<1>2. WatchPart'
  BY DEF ReadPart, WatchPart
<1>3. ClockPart'
  BY DEF ReadPart, ClockPart, ReadOpen
<1>4. ResultPart'
  <2>1. /\ rstage = "poisoning" /\ rstage' = "idle" /\ closed' /\ rresult' = Failure
        /\ UNCHANGED <<rdl, dirty>>
    OBVIOUS
  <2>2. Failure = "partialAge" => rdl = "aged" /\ dirty
    BY <2>1 DEF ReadPart, ParserPart, ClockPart, Failure
  <2>3. Failure = "Timeout" => rdl = "none" /\ dirty
    BY <2>1 DEF ReadPart, ParserPart, WatchPart, ClockPart, Failure
  <2> QED BY <2>1, <2>2, <2>3 DEF ResultPart, AgeBlamedRightly
<1> QED BY <1>1, <1>2, <1>3, <1>4 DEF ReadPart

LEMMA ReadKeeps == ASSUME ReadPart, Read PROVE ReadPart'
  BY RefusedKeeps, CallKeeps, ReceiveKeeps, EndsKeep, LineKeeps, HookKeeps, ReleaseKeeps,
     JudgeKeeps, PoisonKeeps DEF Read, ReadLine

\* The steps of a write, of its watcher and of Close leave the reader alone.
LEMMA OthersKeepRead ==
    ASSUME ReadPart, Write \/ WriteContextEnds \/ WritePoke \/ Close
    PROVE  ReadPart'
<1>1. UNCHANGED <<wireVars, readVars>> /\ closed' \in {closed, TRUE}
  BY DEF Write, WriteRefused, WriteCall, WriteBytes, WriteEnds, WriteRelease, WriteJudge,
         PoisonWrite, WriteContextEnds, WritePoke, Close, reader
<1> QED BY <1>1, ReadFrame

----------------------------------------------------------------------------
(* The writing side                                                        *)

\* The steps of a read, of its watcher and of Close leave the writer alone.
LEMMA OthersKeepWrite ==
    ASSUME WriterPart, Read \/ ReadContextEnds \/ ReadPoke \/ AgePasses \/ Close
    PROVE  WriterPart' /\ UNCHANGED writeVars
<1>1. UNCHANGED writeVars
  BY DEF Read, ReadRefused, ReadCall, ReadReceives, ReadBreaks, ReadStops, ReadLine, RunHook,
         Release, Judge, PoisonRead, ReadContextEnds, ReadPoke, AgePasses, Close
<1>2. WriterPart'
  BY <1>1 DEF WriterPart, writeVars
<1> QED BY <1>1, <1>2

LEMMA WriteKeeps ==
    ASSUME WriterPart, Write \/ WriteContextEnds \/ WritePoke
    PROVE  WriterPart'
<1>1. CASE WriteRefused
  BY <1>1 DEF WriterPart, WriteRefused
<1>2. CASE WriteCall
  BY <1>2 DEF WriterPart, WriteCall
<1>3. CASE WriteBytes
  BY <1>3 DEF WriterPart, WriteBytes
<1>4. CASE WriteEnds
  BY <1>4 DEF WriterPart, WriteEnds
<1>5. CASE WriteRelease
  BY <1>5 DEF WriterPart, WriteRelease
<1>6. CASE WriteJudge
  <2>1. wstage = "judging" /\ wstage' \in {"poisoning", "idle"} /\ UNCHANGED <<wdl, wwatch, sent>>
    BY <1>6 DEF WriteJudge
  <2> QED BY <2>1 DEF WriterPart
<1>7. CASE PoisonWrite
  BY <1>7 DEF WriterPart, PoisonWrite
<1>8. CASE WriteContextEnds
  BY <1>8 DEF WriterPart, WriteContextEnds
<1>9. CASE WritePoke
  BY <1>9 DEF WriterPart, WritePoke
<1> QED BY <1>1, <1>2, <1>3, <1>4, <1>5, <1>6, <1>7, <1>8, <1>9 DEF Write

----------------------------------------------------------------------------
(* The invariant                                                           *)

LEMMA FramerStep == FramerInductive /\ [FramerNext]_framerVars => FramerInductive'
<1> SUFFICES ASSUME ReadPart, WriterPart, [FramerNext]_framerVars
             PROVE  ReadPart' /\ WriterPart'
  BY DEF FramerInductive, ReadPart
<1>1. CASE Read
  BY <1>1, ReadKeeps, OthersKeepWrite
<1>2. CASE Write \/ WriteContextEnds \/ WritePoke
  BY <1>2, OthersKeepRead, WriteKeeps
<1>3. CASE ReadContextEnds \/ ReadPoke \/ AgePasses
  BY <1>3, WatcherKeeps, OthersKeepWrite
<1>4. CASE Close
  BY <1>4, OthersKeepRead, OthersKeepWrite
<1>5. CASE UNCHANGED framerVars
  <2>1. UNCHANGED <<wireVars, readVars, writeVars, closed>>
    BY <1>5 DEF framerVars
  <2>2. ReadPart'
    BY <2>1, ReadFrame
  <2>3. WriterPart'
    BY <2>1 DEF WriterPart, writeVars
  <2> QED BY <2>2, <2>3
<1> QED BY <1>1, <1>2, <1>3, <1>4, <1>5 DEF FramerNext, Watchers

\* Whatever the peer sends, however the transport groups, delays or breaks it,
\* and whenever the contexts of the operations end, the parser, its clock, the
\* watchers and the results agree (conn.go, internal/wire/reader.go).
THEOREM FramerInvariant == FramerSpec => []FramerInductive
<1>1. FramerInit => FramerInductive
  BY FramerStarts
<1>2. FramerInductive /\ [FramerNext]_framerVars => FramerInductive'
  BY FramerStep
<1> QED BY <1>1, <1>2, PTL DEF FramerSpec

\* Between two operations an open connection has no deadline, no watcher and a
\* reader at a message boundary (framer.release, framer.read, wire.Reader.Dirty).
THEOREM OpenStaysUsable == FramerSpec => []OpenIsUsable
<1>1. FramerInductive => OpenIsUsable
  <2> SUFFICES ASSUME FramerInductive PROVE OpenIsUsable
    OBVIOUS
  <2>1. InterruptsEnd
    BY DEF FramerInductive, WatchPart, ResultPart, WriterPart, InterruptsEnd
  <2>2. ~closed /\ rstage = "idle" => ~torn /\ ~dirty
    BY DEF FramerInductive, ResultPart
  <2> QED BY <2>1, <2>2 DEF OpenIsUsable
<1> QED BY <1>1, FramerInvariant, PTL

\* While a read waits, its deadline is armed exactly if part of a frame has been
\* consumed, and a poke stands (framer.frameStarted, framer.framePadded).
THEOREM DeadlinesAreExact == FramerSpec => []DeadlineExact
<1>1. FramerInductive => DeadlineExact
  <2> SUFFICES ASSUME FramerInductive PROVE DeadlineExact
    OBVIOUS
  <2>1. PokeStands
    BY DEF FramerInductive, WatchPart, PokeStands
  <2>2. ASSUME Waits, ~closed, rwatch # "done"
        PROVE  rdl \in {"age", "aged"} <=> dirty
    <3>1. rstage = "reading" /\ err = "none" /\ hook = "none"
      BY <2>2 DEF Waits, FramerInductive, ParserPart
    <3> QED BY <2>2, <3>1 DEF FramerInductive, ClockPart, ReadOpen, Armed
  <2> QED BY <2>1, <2>2 DEF DeadlineExact
<1> QED BY <1>1, FramerInvariant, PTL

\* The partial-frame age is the result of a read exactly when it cut the frame
\* off and no cancellation met it (framer.read).
THEOREM AgeIsBlamedRightly == FramerSpec => []AgeBlamedRightly
<1>1. FramerInductive => AgeBlamedRightly
  BY DEF FramerInductive, ResultPart
<1> QED BY <1>1, FramerInvariant, PTL

----------------------------------------------------------------------------
(* The promise to the session                                              *)

\* A step of the framer after which the session sees what it saw before.
LEMMA LinkStutters ==
    ASSUME UNCHANGED <<closed, wstage, sent, disp>>
    PROVE  UNCHANGED Promise!linkVars
  BY DEF Promise!linkVars, LinkWriting

\* The judgement of a write tells the truth about what was sent.
LEMMA JudgementIsTrue ==
    ASSUME WriterPart, wstage = "judging"
    PROVE  Disposition \in Promise!WriteOutcomes(closed) /\ Promise!Truthful(Disposition)
<1>1. CASE werr = "none"
  <2>1. Disposition = "complete" /\ sent = "all"
    BY <1>1 DEF Disposition, WriterPart
  <2> QED BY <2>1 DEF Promise!WriteOutcomes, Promise!Truthful, Promise!Unsent, Promise!Ambiguous
<1>2. CASE werr # "none" /\ closed
  <2>1. Disposition = IF sent = "none" THEN "closed" ELSE "partialClosed"
    BY <1>2 DEF Disposition
  <2> QED BY <1>2, <2>1 DEF Promise!WriteOutcomes, Promise!Truthful, Promise!Unsent, Promise!Ambiguous
<1>3. CASE werr # "none" /\ ~closed
  <2>1. \/ Disposition \in {"canceled", "notSent"} /\ sent = "none"
        \/ Disposition = "partial" /\ sent # "none"
    BY <1>3 DEF Disposition
  <2> QED BY <1>3, <2>1 DEF Promise!WriteOutcomes, Promise!Truthful, Promise!Unsent, Promise!Ambiguous
<1> QED BY <1>1, <1>2, <1>3

LEMMA WriteImplements ==
    ASSUME WriterPart, Write \/ WriteContextEnds \/ WritePoke
    PROVE  [Promise!Next]_(Promise!linkVars)
<1> USE DEF LinkWriting, Promise!Next
<1>1. CASE WriteRefused
  BY <1>1 DEF WriteRefused, EnterOutcomes, Promise!EnterOutcomes, Promise!Refuse
<1>2. CASE WriteCall
  BY <1>2 DEF WriteCall, Promise!Begin
<1>3. CASE WriteBytes
  BY <1>3 DEF WriteBytes, Promise!Transfer
<1>4. CASE WriteEnds \/ WriteRelease
  <2>1. /\ wstage \in {"writing", "returned"} /\ wstage' \in {"returned", "judging"}
        /\ UNCHANGED <<closed, sent, disp>>
    BY <1>4 DEF WriteEnds, WriteRelease
  <2> QED BY <2>1 DEF Promise!linkVars
<1>5. CASE WriteJudge
  <2>1. /\ wstage = "judging" /\ disp' = Disposition /\ UNCHANGED <<closed, sent>>
        /\ wstage' = IF disp' \in Poisonous THEN "poisoning" ELSE "idle"
    BY <1>5 DEF WriteJudge
  <2>2. disp' \in Promise!WriteOutcomes(closed) /\ Promise!Truthful(disp')
    BY <2>1, JudgementIsTrue
  <2> QED BY <2>1, <2>2 DEF Poisonous, Promise!Poisonous, Promise!Return
<1>6. CASE PoisonWrite
  BY <1>6 DEF PoisonWrite, Promise!Poison
<1>7. CASE WriteContextEnds \/ WritePoke
  BY <1>7, LinkStutters DEF WriteContextEnds, WritePoke
<1> QED BY <1>1, <1>2, <1>3, <1>4, <1>5, <1>6, <1>7 DEF Write

LEMMA CloseImplements ==
    ASSUME WriterPart, Read \/ ReadContextEnds \/ ReadPoke \/ AgePasses \/ Close,
           closed' \in {closed, TRUE}
    PROVE  [Promise!Next]_(Promise!linkVars)
<1>1. UNCHANGED <<wstage, sent, disp>>
  BY OthersKeepWrite DEF writeVars
<1>2. CASE closed' = closed
  BY <1>1, <1>2, LinkStutters
<1>3. CASE closed' = TRUE
  BY <1>1, <1>3 DEF LinkWriting, Promise!Next, Promise!CloseElsewhere
<1> QED BY <1>2, <1>3

\* The framer implements the promise that the session builds on: its disposition
\* alone tells what may have been sent (framer.writeAction and its error contract).
THEOREM FramerKeepsPromise == FramerSpec => LinkSpec
<1>1. FramerInit => Promise!Init
  BY DEF FramerInit, Promise!Init, LinkWriting
<1>2. FramerInductive /\ [FramerNext]_framerVars => [Promise!Next]_(Promise!linkVars)
  <2> SUFFICES ASSUME FramerInductive, [FramerNext]_framerVars
               PROVE  [Promise!Next]_(Promise!linkVars)
    OBVIOUS
  <2> WriterPart
    BY DEF FramerInductive
  <2>1. CASE Write \/ WriteContextEnds \/ WritePoke
    BY <2>1, WriteImplements
  <2>2. CASE Read \/ ReadContextEnds \/ ReadPoke \/ AgePasses \/ Close
    <3>1. closed' \in {closed, TRUE}
      BY <2>2 DEF Read, ReadRefused, ReadCall, ReadReceives, ReadBreaks, ReadStops, ReadLine,
         RunHook, Release, Judge, PoisonRead, ReadContextEnds, ReadPoke, AgePasses, Close
    <3> QED BY <2>2, <3>1, CloseImplements
  <2>3. CASE UNCHANGED framerVars
    BY <2>3, LinkStutters DEF framerVars, writeVars
  <2> QED BY <2>1, <2>2, <2>3 DEF FramerNext, Watchers
<1> QED BY <1>1, <1>2, FramerInvariant, PTL DEF FramerSpec, LinkSpec, Promise!Spec

----------------------------------------------------------------------------
(* The measures of a message                                               *)

MsgType == [nFields : Nat, msgBytes : Nat, nOutput : Nat, outBytes : Nat]

LEMMA Limits ==
    ASSUME NEW m \in MsgType
    PROVE  /\ Exceeds(m) \in LimitErrors \cup {"none"}
           /\ Exceeds(m) = "none" <=>
                 /\ m.nFields <= MaxFields /\ m.nOutput <= MaxCommandOutputLines
                 /\ m.msgBytes <= MaxMessageBytes /\ m.outBytes <= MaxCommandOutputBytes
<1>1. /\ m.nFields \in Nat /\ m.nOutput \in Nat /\ m.msgBytes \in Nat /\ m.outBytes \in Nat
  BY DEF MsgType
<1> QED BY <1>1, WireAssumption DEF Exceeds, LimitErrors

\* A message within its budgets is one whose measures are.
LEMMA MeasuresDecide ==
    ASSUME NEW m \in MsgType, NEW f, Measures(m, f)
    PROVE  Exceeds(m) = "none" <=> WithinBudgets(f)
  BY Limits DEF Measures, WithinBudgets

\* g is f with one line more.
Extends(g, f, line) ==
    /\ f \in Seq(Lines) /\ line \in Lines /\ g = Append(f, line)
    /\ \A i \in 1..Len(f) : (IsOutput(g, i) <=> IsOutput(f, i)) /\ (IsHeader(g, i) <=> IsHeader(f, i))

\* How one more line is measured.
Measured(m, g, line) ==
    IF IsOutput(g, Len(g)) THEN Output(m, line)
    ELSE IF IsHeader(g, Len(g)) THEN Header(m, line) ELSE Framing(m, line)

LEMMA AppendedLines ==
    ASSUME NEW f, NEW g, NEW line, Extends(g, f, line)
    PROVE  /\ g \in Seq(Lines) /\ Len(f) \in Nat /\ Len(g) = Len(f) + 1 /\ g[Len(g)] = line
           /\ \A i \in 1..Len(f) : g[i] = f[i]
           /\ 1..Len(g) = (1..Len(f)) \cup {Len(g)} /\ Len(g) \notin 1..Len(f)
  BY DEF Extends

LEMMA FiniteLines ==
    \A n \in Nat : \A S \in SUBSET (1..n) : IsFiniteSet(S)
<1> SUFFICES ASSUME NEW n \in Nat, NEW S \in SUBSET (1..n) PROVE IsFiniteSet(S)
  OBVIOUS
<1>1. 1 \in Int /\ n \in Int
  OBVIOUS
<1>2. IsFiniteSet(1..n)
  BY <1>1, FS_Interval
<1> QED BY <1>2, FS_Subset

\* The raw bytes of some lines of f, in f and in what extends it.
LEMMA RawKept ==
    ASSUME NEW f, NEW g, NEW line, Extends(g, f, line), NEW S \in SUBSET (1..Len(f))
    PROVE  Raw(g, S) = Raw(f, S)
<1> DEFINE rf == [i \in 1..Len(f) |-> f[i].raw]
           rg == [i \in 1..Len(g) |-> g[i].raw]
<1>1. /\ Len(f) \in Nat /\ \A i \in 1..Len(f) : g[i] = f[i] /\ i \in 1..Len(g) /\ f[i] \in Lines
  BY AppendedLines DEF Extends
<1>2. \A l \in Lines : l.raw \in Int
  BY WireAssumption
<1>3. IsFiniteSet(S)
  BY <1>1, FiniteLines
<1>4. \A i \in S : rg[i] \in Int /\ rg[i] = rf[i]
  BY <1>1, <1>2
<1> HIDE DEF rf, rg
<1>5. SumFunctionOnSet(rg, S) = SumFunctionOnSet(rf, S)
  BY <1>3, <1>4, SumEqual
<1> QED BY <1>5 DEF Raw, rf, rg

LEMMA RawAdded ==
    ASSUME NEW f, NEW g, NEW line, Extends(g, f, line), NEW S \in SUBSET (1..Len(f))
    PROVE  Raw(g, S \cup {Len(g)}) = Raw(f, S) + line.raw
<1> DEFINE rg == [i \in 1..Len(g) |-> g[i].raw]
           n == Len(g)
<1>1. /\ Len(f) \in Nat /\ g \in Seq(Lines) /\ n \in 1..n /\ g[n] = line /\ n \notin S
      /\ S \subseteq 1..n /\ n \in Nat
  BY AppendedLines
<1>2. \A l \in Lines : l.raw \in Int
  BY WireAssumption
<1>3. IsFiniteSet(S)
  BY <1>1, FiniteLines
<1>4. \A i \in 1..n : rg[i] \in Int
  <2>1. \A i \in 1..n : g[i] \in Lines
    BY <1>1
  <2> QED BY <1>2, <2>1
<1>5. rg[n] = line.raw /\ \A i \in S \cup {n} : rg[i] \in Int
  BY <1>1, <1>4
<1> HIDE DEF rg, n
<1>6. SumFunctionOnSet(rg, S \cup {n}) = rg[n] + SumFunctionOnSet(rg, S)
  BY <1>1, <1>3, <1>5, SumAdd
<1>7. Raw(g, S) = Raw(f, S)
  BY RawKept
<1>8. SumFunctionOnSet(rg, S) \in Int
  BY <1>3, <1>5, SumPick
<1>9. rg[n] \in Int
  BY <1>5
<1>10. rg[n] + SumFunctionOnSet(rg, S) = SumFunctionOnSet(rg, S) + rg[n]
  BY <1>8, <1>9
<1> QED BY <1>5, <1>6, <1>7, <1>10 DEF Raw, rg, n

\* What one more line adds to the budgets.
LEMMA BudgetFields ==
    ASSUME NEW m \in MsgType, NEW line \in Lines
    PROVE  /\ Output(m, line) = [nFields |-> m.nFields, msgBytes |-> m.msgBytes,
                                nOutput |-> m.nOutput + 1, outBytes |-> m.outBytes + line.raw]
           /\ Header(m, line) = [nFields |-> m.nFields + 1, msgBytes |-> m.msgBytes + line.raw,
                                nOutput |-> m.nOutput, outBytes |-> m.outBytes]
           /\ Framing(m, line) = [nFields |-> m.nFields, msgBytes |-> m.msgBytes + line.raw,
                                 nOutput |-> m.nOutput, outBytes |-> m.outBytes]
           /\ line.raw \in Nat /\ m.nFields \in Nat /\ m.msgBytes \in Nat
           /\ m.nOutput \in Nat /\ m.outBytes \in Nat
<1>1. Output(m, line) = [nFields |-> m.nFields, msgBytes |-> m.msgBytes,
                         nOutput |-> m.nOutput + 1, outBytes |-> m.outBytes + line.raw]
  <2>1. Output(m, line) =
          [[m EXCEPT !.nOutput = m.nOutput + 1] EXCEPT !.outBytes = m.outBytes + line.raw]
    BY DEF Output, MsgType
  <2>2. [m EXCEPT !.nOutput = m.nOutput + 1] =
          [nFields |-> m.nFields, msgBytes |-> m.msgBytes,
           nOutput |-> m.nOutput + 1, outBytes |-> m.outBytes]
    BY DEF MsgType
  <2> QED BY <2>1, <2>2
<1>2. Header(m, line) = [nFields |-> m.nFields + 1, msgBytes |-> m.msgBytes + line.raw,
                         nOutput |-> m.nOutput, outBytes |-> m.outBytes]
  <2>1. Header(m, line) =
          [[m EXCEPT !.nFields = m.nFields + 1] EXCEPT !.msgBytes = m.msgBytes + line.raw]
    BY DEF Header, MsgType
  <2>2. [m EXCEPT !.nFields = m.nFields + 1] =
          [nFields |-> m.nFields + 1, msgBytes |-> m.msgBytes,
           nOutput |-> m.nOutput, outBytes |-> m.outBytes]
    BY DEF MsgType
  <2> QED BY <2>1, <2>2
<1>3. Framing(m, line) = [nFields |-> m.nFields, msgBytes |-> m.msgBytes + line.raw,
                          nOutput |-> m.nOutput, outBytes |-> m.outBytes]
  BY DEF Framing, MsgType
<1>4. line.raw \in Nat
  BY WireAssumption
<1>5. /\ m.nFields \in Nat /\ m.msgBytes \in Nat /\ m.nOutput \in Nat /\ m.outBytes \in Nat
  BY DEF MsgType
<1> QED BY <1>1, <1>2, <1>3, <1>4, <1>5

LEMMA CountAdded ==
    ASSUME NEW n \in Nat, NEW S \in SUBSET (1..n), NEW x, x \notin 1..n
    PROVE  Cardinality(S \cup {x}) = Cardinality(S) + 1
<1>1. IsFiniteSet(S) /\ x \notin S
  BY FiniteLines
<1>2. Cardinality(S) \in Nat
  BY <1>1, FS_CardinalityType
<1> QED BY <1>1, <1>2, FS_AddElement

\* One more line adds to exactly one of the three measures.
LEMMA AppendMeasures ==
    ASSUME NEW f, NEW g, NEW line, NEW m \in MsgType, Extends(g, f, line), Measures(m, f)
    PROVE  Measures(Measured(m, g, line), g) /\ Measured(m, g, line) \in MsgType
<1> DEFINE n == Len(g)
<1>1. /\ Len(f) \in Nat /\ n \in Nat /\ 1..n = (1..Len(f)) \cup {n} /\ n \notin 1..Len(f)
  BY AppendedLines
<1>2. line \in Lines
  BY DEF Extends
<1>3. /\ line.raw \in Nat /\ m.nFields \in Nat /\ m.nOutput \in Nat
      /\ m.msgBytes \in Nat /\ m.outBytes \in Nat
  BY <1>2, BudgetFields
<1>4. /\ Outputs(f) \subseteq 1..Len(f) /\ Headers(f) \subseteq 1..Len(f)
      /\ (1..Len(f)) \ Outputs(f) \subseteq 1..Len(f)
  BY DEF Outputs, Headers
<1>5. /\ Outputs(g) = IF IsOutput(g, n) THEN Outputs(f) \cup {n} ELSE Outputs(f)
      /\ Headers(g) = IF IsHeader(g, n) THEN Headers(f) \cup {n} ELSE Headers(f)
  BY <1>1 DEF Outputs, Headers, Extends
<1> HIDE DEF n
<1>6. (1..n) \ Outputs(g) = IF IsOutput(g, n) THEN (1..Len(f)) \ Outputs(f)
                            ELSE ((1..Len(f)) \ Outputs(f)) \cup {n}
  BY <1>1, <1>4, <1>5
<1>7. /\ Raw(g, Outputs(f)) = m.outBytes /\ Raw(g, (1..Len(f)) \ Outputs(f)) = m.msgBytes
      /\ Raw(g, Outputs(f) \cup {n}) = m.outBytes + line.raw
      /\ Raw(g, ((1..Len(f)) \ Outputs(f)) \cup {n}) = m.msgBytes + line.raw
  BY <1>4, RawKept, RawAdded DEF Measures, n
<1>8. /\ Cardinality(Outputs(f)) = m.nOutput /\ Cardinality(Headers(f)) = m.nFields
      /\ Cardinality(Outputs(f) \cup {n}) = m.nOutput + 1
      /\ Cardinality(Headers(f) \cup {n}) = m.nFields + 1
  BY <1>1, <1>4, CountAdded DEF Measures
<1>9. CASE IsOutput(g, n)
  <2>1. Measured(m, g, line) = Output(m, line)
    BY <1>9 DEF Measured, n
  <2>2. Measured(m, g, line) =
          [nFields |-> m.nFields, msgBytes |-> m.msgBytes,
           nOutput |-> m.nOutput + 1, outBytes |-> m.outBytes + line.raw]
    BY <2>1, BudgetFields, <1>2
  <2>3. Measured(m, g, line) \in MsgType
    BY <1>3, <2>2 DEF MsgType
  <2>4. ~IsHeader(g, n)
    BY <1>9 DEF IsHeader
  <2>5. Measures(Measured(m, g, line), g)
    <3>1. /\ Outputs(g) = Outputs(f) \cup {n} /\ Headers(g) = Headers(f)
          /\ (1..n) \ Outputs(g) = (1..Len(f)) \ Outputs(f)
      BY <1>5, <1>6, <1>9, <2>4
    <3>2. /\ m.nFields = Cardinality(Headers(g)) /\ m.nOutput + 1 = Cardinality(Outputs(g))
          /\ m.msgBytes = Raw(g, (1..n) \ Outputs(g)) /\ m.outBytes + line.raw = Raw(g, Outputs(g))
      BY <1>7, <1>8, <3>1
    <3> QED BY <2>2, <3>2 DEF Measures, n
  <2> QED BY <2>3, <2>5
<1>10. CASE ~IsOutput(g, n) /\ IsHeader(g, n)
  <2>1. Measured(m, g, line) = Header(m, line)
    BY <1>10 DEF Measured, n
  <2>2. Measured(m, g, line) =
          [nFields |-> m.nFields + 1, msgBytes |-> m.msgBytes + line.raw,
           nOutput |-> m.nOutput, outBytes |-> m.outBytes]
    BY <2>1, BudgetFields, <1>2
  <2>3. Measured(m, g, line) \in MsgType
    BY <1>3, <2>2 DEF MsgType
  <2>5. Measures(Measured(m, g, line), g)
    <3>1. /\ Outputs(g) = Outputs(f) /\ Headers(g) = Headers(f) \cup {n}
          /\ (1..n) \ Outputs(g) = ((1..Len(f)) \ Outputs(f)) \cup {n}
      BY <1>5, <1>6, <1>10
    <3>2. /\ m.nFields + 1 = Cardinality(Headers(g)) /\ m.nOutput = Cardinality(Outputs(g))
          /\ m.msgBytes + line.raw = Raw(g, (1..n) \ Outputs(g)) /\ m.outBytes = Raw(g, Outputs(g))
      BY <1>7, <1>8, <3>1
    <3> QED BY <2>2, <3>2 DEF Measures, n
  <2> QED BY <2>3, <2>5
<1>11. CASE ~IsOutput(g, n) /\ ~IsHeader(g, n)
  <2>1. Measured(m, g, line) = Framing(m, line)
    BY <1>11 DEF Measured, n
  <2>2. Measured(m, g, line) =
          [nFields |-> m.nFields, msgBytes |-> m.msgBytes + line.raw,
           nOutput |-> m.nOutput, outBytes |-> m.outBytes]
    BY <2>1, BudgetFields, <1>2
  <2>3. Measured(m, g, line) \in MsgType
    BY <1>3, <2>2 DEF MsgType
  <2>5. Measures(Measured(m, g, line), g)
    <3>1. /\ Outputs(g) = Outputs(f) /\ Headers(g) = Headers(f)
          /\ (1..n) \ Outputs(g) = ((1..Len(f)) \ Outputs(f)) \cup {n}
      BY <1>5, <1>6, <1>11
    <3>2. /\ m.nFields = Cardinality(Headers(g)) /\ m.nOutput = Cardinality(Outputs(g))
          /\ m.msgBytes + line.raw = Raw(g, (1..n) \ Outputs(g)) /\ m.outBytes = Raw(g, Outputs(g))
      BY <1>7, <1>8, <3>1
    <3> QED BY <2>2, <3>2 DEF Measures, n
  <2> QED BY <2>3, <2>5
<1> QED BY <1>9, <1>10, <1>11

----------------------------------------------------------------------------
(* The shape of a message                                                  *)

\* A line behind a message does not change what the lines before it are.
LEMMA AppendExtends ==
    ASSUME NEW f \in Seq(Lines), NEW line \in Lines, f # <<>>
    PROVE  /\ Extends(Append(f, line), f, line)
           /\ Legacy(Append(f, line)) <=> Legacy(f)
           /\ \A i \in 1..Len(f) : /\ OutputBegins(Append(f, line), i) <=> OutputBegins(f, i)
                                   /\ Terminates(Append(f, line), i) <=> Terminates(f, i)
<1> DEFINE g == Append(f, line)
<1>1. /\ Len(f) \in Nat /\ Len(f) # 0 /\ Len(g) = Len(f) + 1 /\ g[Len(g)] = line
      /\ \A i \in 1..Len(f) : g[i] = f[i]
      /\ g # <<>> /\ g[1] = f[1]
  OBVIOUS
<1> HIDE DEF g
<1>2. Legacy(g) <=> Legacy(f)
  BY <1>1 DEF Legacy
<1>3. \A i \in 1..Len(f) : OutputBegins(g, i) <=> OutputBegins(f, i)
  <2> SUFFICES ASSUME NEW i \in 1..Len(f) PROVE OutputBegins(g, i) <=> OutputBegins(f, i)
    OBVIOUS
  <2>1. (i \in 2..Len(g) <=> i \in 2..Len(f)) /\ g[i] = f[i]
    BY <1>1
  <2>2. \A j \in 2..(i - 1) : g[j] = f[j]
    BY <1>1
  <2> QED BY <2>1, <2>2 DEF OutputBegins
<1>4. \A i \in 1..Len(f) : Terminates(g, i) <=> Terminates(f, i)
  <2> SUFFICES ASSUME NEW i \in 1..Len(f) PROVE Terminates(g, i) <=> Terminates(f, i)
    OBVIOUS
  <2>1. (i \in 2..Len(g) <=> i \in 2..Len(f)) /\ g[i] = f[i]
    BY <1>1
  <2>2. \A j \in 2..(i - 1) : g[j] = f[j]
    BY <1>1
  <2>3. \A b \in 2..i : OutputBegins(g, b) <=> OutputBegins(f, b)
    BY <1>1, <1>3
  <2> QED BY <2>1, <2>2, <2>3 DEF Terminates
<1>5. ASSUME NEW i \in 1..Len(f)
      PROVE  (IsOutput(g, i) <=> IsOutput(f, i)) /\ (IsHeader(g, i) <=> IsHeader(f, i))
  <2>1. g[i] = f[i]
    BY <1>1
  <2>2. \A j \in 2..i : g[j] = f[j] /\ (OutputBegins(g, j) <=> OutputBegins(f, j))
                        /\ (Terminates(g, j) <=> Terminates(f, j))
    BY <1>1, <1>3, <1>4
  <2>3. 2..(i - 1) \subseteq 2..i
    BY <1>1
  <2>4. IsOutput(g, i) <=> IsOutput(f, i)
    BY <1>2, <2>1, <2>2, <2>3 DEF IsOutput
  <2> QED BY <1>2, <2>1, <2>2, <2>4 DEF IsHeader
<1> QED BY <1>2, <1>3, <1>4, <1>5 DEF Extends, g

----------------------------------------------------------------------------
(* How a line is measured where it is taken                                *)

\* In a message of fields.
LEMMA FieldsMeasured ==
    ASSUME NEW f \in Seq(Lines), NEW line \in Lines, NEW m, f # <<>>, ~Legacy(f)
    PROVE  /\ line.kind = "blank" => Measured(m, Append(f, line), line) = Framing(m, line)
           /\ line.kind # "blank" => Measured(m, Append(f, line), line) = Field(m, line)
<1> DEFINE g == Append(f, line)
<1>1. g[Len(g)] = line
  OBVIOUS
<1>2. ~Legacy(g)
  BY AppendExtends
<1> HIDE DEF g
<1> QED BY <1>1, <1>2 DEF Measured, IsOutput, IsHeader, Field, g

\* Behind a legacy response, before its output.
LEMMA TrailersMeasured ==
    ASSUME NEW f \in Seq(Lines), NEW line \in Lines, NEW m, Shape("headers", f), line.kind = "trailer"
    PROVE  Measured(m, Append(f, line), line) = Header(m, line) /\ Shape("headers", Append(f, line))
<1> DEFINE g == Append(f, line)
<1>0. Legacy(f) /\ f # <<>> /\ \A i \in 2..Len(f) : f[i].kind = "trailer"
  BY DEF Shape, Legacy
<1>1. g[Len(g)] = line /\ Len(g) = Len(f) + 1 /\ Len(f) \in Nat /\ \A i \in 1..Len(f) : g[i] = f[i]
  OBVIOUS
<1>2. Legacy(g)
  BY <1>0, AppendExtends
<1> HIDE DEF g
<1>3. \A i \in 2..Len(g) : g[i].kind = "trailer"
  BY <1>0, <1>1
<1>4. ~IsOutput(g, Len(g)) /\ IsHeader(g, Len(g))
  BY <1>2, <1>3 DEF IsOutput, IsHeader, OutputBegins
<1>5. Shape("headers", g)
  BY <1>2, <1>3 DEF Shape
<1> QED BY <1>4, <1>5 DEF Measured, g

\* In the output of a legacy command, its first line and its terminator included.
LEMMA OutputMeasured ==
    ASSUME NEW f \in Seq(Lines), NEW line \in Lines, NEW m,
           Shape("payload", f) \/ (Shape("headers", f) /\ line.kind # "trailer")
    PROVE  /\ line.kind = "end" => Measured(m, Append(f, line), line) = Framing(m, line)
           /\ line.kind # "end" => Measured(m, Append(f, line), line) = Output(m, line)
           /\ line.kind \in {"end", "glued"} => Shape("closing", Append(f, line))
           /\ line.kind \notin {"end", "glued"} => Shape("payload", Append(f, line))
<1> DEFINE g == Append(f, line)
<1>0. Legacy(f) /\ f # <<>>
  BY DEF Shape, Legacy
<1>1. g[Len(g)] = line /\ Len(g) = Len(f) + 1 /\ Len(f) \in Nat /\ Len(f) # 0
      /\ \A i \in 1..Len(f) : g[i] = f[i]
  BY <1>0
<1>2. Legacy(g) /\ \A i \in 1..Len(f) : OutputBegins(g, i) <=> OutputBegins(f, i)
  BY <1>0, AppendExtends
<1> HIDE DEF g
<1>3. \A i \in 2..(Len(g) - 1) : i \in 2..Len(f) /\ g[i] = f[i]
  BY <1>1
<1>4. PICK b \in 2..Len(g) : OutputBegins(g, b)
  <2>1. CASE Shape("payload", f)
    <3>1. PICK b \in 2..Len(f) : OutputBegins(f, b)
      BY <2>1 DEF Shape
    <3>2. b \in 1..Len(f) /\ b \in 2..Len(g)
      BY <1>1
    <3> QED BY <1>2, <3>1, <3>2
  <2>2. CASE Shape("headers", f) /\ line.kind # "trailer"
    <3>1. \A i \in 2..Len(f) : f[i].kind = "trailer"
      BY <2>2 DEF Shape
    <3>2. \A i \in 2..(Len(g) - 1) : g[i].kind = "trailer"
      BY <1>3, <3>1
    <3>3. Len(g) \in 2..Len(g) /\ g[Len(g)].kind # "trailer"
      BY <1>1, <2>2
    <3> QED BY <3>2, <3>3 DEF OutputBegins
  <2> QED BY <2>1, <2>2
<1>5. \A i \in 2..(Len(g) - 1) : g[i].kind \notin {"end", "glued"}
  <2>1. \A i \in 2..Len(f) : f[i].kind \notin {"end", "glued"}
    BY DEF Shape
  <2> QED BY <1>3, <2>1
<1>6. Len(g) \in 2..Len(g)
  BY <1>1
<1>7. \A t \in 2..(Len(g) - 1) : ~Terminates(g, t)
  BY <1>5 DEF Terminates
<1>8. IsOutput(g, Len(g)) <=> line.kind # "end"
  BY <1>1, <1>2, <1>4, <1>7 DEF IsOutput
<1>9. ~IsHeader(g, Len(g))
  BY <1>2, <1>4 DEF IsHeader, OutputBegins
<1>10. line.kind \in {"end", "glued"} => Terminates(g, Len(g))
  BY <1>1, <1>4, <1>5, <1>6 DEF Terminates
<1>11. line.kind \in {"end", "glued"} => Shape("closing", g)
  BY <1>2, <1>10 DEF Shape
<1>12. line.kind \notin {"end", "glued"} => Shape("payload", g)
  <2> SUFFICES ASSUME line.kind \notin {"end", "glued"} PROVE Shape("payload", g)
    OBVIOUS
  <2>1. \A i \in 2..Len(g) : i \in 2..(Len(g) - 1) \/ i = Len(g)
    BY <1>1
  <2>2. \A i \in 2..Len(g) : g[i].kind \notin {"end", "glued"}
    BY <1>1, <1>5, <2>1
  <2> QED BY <1>2, <1>4, <2>2 DEF Shape
<1> QED BY <1>8, <1>9, <1>11, <1>12 DEF Measured, g

\* The blank line that ends a message belongs to its framing, and makes it whole.
LEMMA BlankMeasured ==
    ASSUME NEW f \in Seq(Lines), NEW line \in Lines, NEW m, line.kind = "blank",
           NEW p, p \in {"fields", "closing"}, Shape(p, f)
    PROVE  Measured(m, Append(f, line), line) = Framing(m, line) /\ IsMessage(Append(f, line))
<1> DEFINE g == Append(f, line)
<1>0. f # <<>> /\ (p = "fields" => ~Legacy(f)) /\ (p = "closing" => Legacy(f) /\ Terminates(f, Len(f)))
  BY DEF Shape, Legacy
<1>1. g[Len(g)] = line /\ Len(g) = Len(f) + 1 /\ Len(f) \in Nat /\ Len(f) # 0
      /\ Len(f) \in 1..Len(f) /\ \A i \in 1..Len(f) : g[i] = f[i]
  BY <1>0
<1>2. (Legacy(g) <=> Legacy(f)) /\ (Terminates(g, Len(f)) <=> Terminates(f, Len(f)))
  BY <1>0, <1>1, AppendExtends
<1>3. CASE p = "fields"
  <2>1. Measured(m, g, line) = Framing(m, line)
    BY <1>0, <1>3, FieldsMeasured
  <2>2. \A i \in 1..(Len(g) - 1) : IsField(g[i])
    <3>1. \A i \in 1..Len(f) : IsField(f[i])
      BY <1>3 DEF Shape
    <3> QED BY <1>1, <3>1
  <2> HIDE DEF g
  <2>3. IsMessage(g)
    BY <1>0, <1>1, <1>2, <1>3, <2>2 DEF IsMessage
  <2> QED BY <2>1, <2>3 DEF g
<1>4. CASE p = "closing"
  <2> HIDE DEF g
  <2>1. Legacy(g) /\ Terminates(g, Len(g) - 1) /\ Len(g) - 1 = Len(f)
    BY <1>0, <1>1, <1>2, <1>4
  <2>2. Len(f) \in 2..Len(f) /\ g[Len(f)].kind # "trailer"
    BY <1>1, <2>1 DEF Terminates
  <2>3. Len(f) \in 2..(Len(g) - 1) /\ Len(f) \in 2..Len(g)
    BY <1>1, <2>2
  <2>4. ~IsOutput(g, Len(g)) /\ ~IsHeader(g, Len(g))
    BY <2>1, <2>2, <2>3 DEF IsOutput, IsHeader
  <2>5. IsMessage(g)
    BY <1>1, <2>1, <2>2 DEF IsMessage
  <2> QED BY <2>4, <2>5 DEF Measured, g
<1> QED BY <1>3, <1>4

\* The first line of a message.
LEMMA FirstMeasured ==
    ASSUME NEW line \in Lines, IsField(line)
    PROVE  /\ Measures(Field(NewMsg, line), <<line>>) /\ Field(NewMsg, line) \in MsgType
           /\ Shape(IF line.kind = "follows" THEN "headers" ELSE "fields", <<line>>)
<1> DEFINE g == <<line>>
<1>1. /\ g \in Seq(Lines) /\ Len(g) = 1 /\ g[1] = line /\ g = Append(<<>>, line)
      /\ <<>> \in Seq(Lines) /\ Len(<<>>) = 0 /\ g # <<>>
  OBVIOUS
<1> HIDE DEF g
<1>2. Extends(g, <<>>, line)
  BY <1>1 DEF Extends
<1>3. NewMsg \in MsgType /\ Measures(NewMsg, <<>>)
  <2>1. Headers(<<>>) = {} /\ Outputs(<<>>) = {} /\ (1..Len(<<>>)) \ Outputs(<<>>) = {}
    BY <1>1 DEF Headers, Outputs
  <2>2. Raw(<<>>, {}) = 0
    <3>1. IsFiniteSet({})
      BY FS_EmptySet
    <3> DEFINE r == [i \in 1..Len(<<>>) |-> <<>>[i].raw]
    <3> HIDE DEF r
    <3>2. SumFunctionOnSet(r, {}) = 0
      BY <3>1, SumPick
    <3> QED BY <3>2 DEF Raw, r
  <2>3. Cardinality({}) = 0
    BY FS_EmptySet
  <2>4. NewMsg \in MsgType
    BY DEF NewMsg, MsgType
  <2> QED BY <2>1, <2>2, <2>3, <2>4 DEF Measures, NewMsg
<1>4. /\ Measures(Measured(NewMsg, g, line), g) /\ Measured(NewMsg, g, line) \in MsgType
  BY <1>2, <1>3, AppendMeasures
<1>5. Legacy(g) <=> line.kind = "follows"
  BY <1>1 DEF Legacy
<1>6. IsOutput(g, 1) <=> line.kind = "output"
  BY <1>1, <1>5 DEF IsOutput
<1>7. line.kind # "output" => IsHeader(g, 1)
  BY <1>1, <1>5, <1>6 DEF IsHeader, IsField
<1>8. Measured(NewMsg, g, line) = Field(NewMsg, line)
  BY <1>1, <1>6, <1>7 DEF Measured, Field
<1>9. Shape(IF line.kind = "follows" THEN "headers" ELSE "fields", g)
  BY <1>1, <1>5 DEF Shape
<1> QED BY <1>4, <1>8, <1>9 DEF g

----------------------------------------------------------------------------
(* Steps of the parser that take no line                                   *)

LEMMA WireInit == Init => WireInductive
<1> SUFFICES ASSUME Init PROVE WireInductive
  OBVIOUS
<1>1. <<>> \in Seq(Lines) /\ NewMsg \in MsgType
  BY DEF NewMsg, MsgType
<1>2. WireTypeOK
  BY <1>1 DEF WireTypeOK, Init, MsgType
<1>3. BoundaryPart
  BY DEF BoundaryPart, Init, NothingTorn, LimitErrors
<1>4. ShapePart
  BY DEF ShapePart, Shape, FramesWhole, Init
<1>5. BudgetPart
  BY WireAssumption DEF BudgetPart, BudgetsExact, Init, LimitErrors
<1> QED BY <1>2, <1>3, <1>4, <1>5 DEF WireInductive

\* A call begins where the stream is whole.
LEMMA ParserCallKeeps ==
    ASSUME WireInductive, NEW p \in {"banner", "start"}, p = "banner" => frame = <<>>,
           ~torn, Call(p)
    PROVE  WireInductive'
<1>0. /\ place = "idle" /\ place' = p /\ err' = "none" /\ frame' = frame /\ run' = run
      /\ torn' = torn /\ msg' = msg /\ pad' = pad /\ buf' = buf /\ part' = part
      /\ dirty' = Buffered /\ hook' = IF Buffered THEN "start" ELSE "none"
  BY DEF Call, EnterLine, historyVars
<1>1. WireTypeOK'
  BY <1>0 DEF WireInductive, WireTypeOK, Buffered
<1>2. BoundaryPart'
  BY <1>0 DEF BoundaryPart, NothingTorn, LimitErrors, Between, Buffered
<1>3. ShapePart'
  BY <1>0 DEF ShapePart, Shape, FramesWhole
<1>4. BudgetPart'
  <2>1. run <= MaxMessageBytes
    BY DEF WireInductive, BoundaryPart, BudgetPart, BudgetsExact, LimitErrors
  <2> QED BY <1>0, <2>1 DEF BudgetPart, BudgetsExact, LimitErrors
<1> QED BY <1>1, <1>2, <1>3, <1>4 DEF WireInductive

\* A step that leaves the call, its message and its padding alone.
Beside == UNCHANGED <<place, msg, err, frame, run, torn, pad>>

LEMMA BesideKeeps ==
    ASSUME WireInductive, Beside, buf' \in Seq(Lines), dirty' \in BOOLEAN,
           place # "idle" /\ hook' # "padding" => (dirty' <=> ~Between \/ Buffered'),
           hook' = "padding" => place = "start" /\ ~dirty',
           place = "idle" => dirty' = dirty
    PROVE  WireInductive'
<1>0. /\ place' = place /\ msg' = msg /\ err' = err /\ frame' = frame /\ run' = run
      /\ torn' = torn /\ pad' = pad
  BY DEF Beside
<1>1. WireTypeOK'
  BY <1>0 DEF WireInductive, WireTypeOK
<1>2. BoundaryPart'
  <2>1. NothingTorn'
    BY <1>0 DEF WireInductive, BoundaryPart, NothingTorn
  <2>2. Between' <=> Between
    BY <1>0 DEF Between
  <2> QED BY <1>0, <2>1, <2>2 DEF WireInductive, BoundaryPart
<1>3. ShapePart'
  BY <1>0 DEF WireInductive, ShapePart, FramesWhole
<1>4. BudgetPart'
  BY <1>0 DEF WireInductive, BudgetPart, BudgetsExact
<1> QED BY <1>1, <1>2, <1>3, <1>4 DEF WireInductive

LEMMA ParserReceiveKeeps ==
    ASSUME WireInductive, NEW new \in Chunks, NEW tail \in {"none", "short", "long"},
           Receive(new, tail)
    PROVE  WireInductive'
<1>1. new \in Seq(Lines)
  BY WireAssumption DEF Chunks
<1>2. Beside /\ buf' = new /\ dirty' = TRUE /\ hook' \in {"none", "start"} /\ place # "idle"
      /\ Buffered'
  BY DEF Receive, FrameStart, Beside, Waits, Buffered
<1> QED BY <1>1, <1>2, BesideKeeps

LEMMA ParserHookKeeps ==
    ASSUME WireInductive, StartHook \/ PaddingHook,
           UNCHANGED <<buf, part, afterMessage, pad, place, msg, err, historyVars>>
    PROVE  WireInductive'
<1>1. Beside /\ buf' = buf /\ (Buffered' <=> Buffered)
  BY DEF Beside, historyVars, Buffered
<1>2. CASE StartHook
  <2>1. hook = "start" /\ hook' = "none" /\ dirty' = dirty
    BY <1>2 DEF StartHook
  <2> QED BY <1>1, <2>1, BesideKeeps DEF WireInductive, WireTypeOK, BoundaryPart
<1>3. CASE PaddingHook
  <2>1. /\ hook = "padding" /\ hook' \in {"start", "none"} /\ dirty' = Buffered
        /\ dirty' \in BOOLEAN
    BY <1>3 DEF PaddingHook, EnterLine, Buffered
  <2>2. place = "start"
    BY <2>1 DEF WireInductive, BoundaryPart
  <2> QED BY <1>1, <2>1, <2>2, BesideKeeps DEF WireInductive, WireTypeOK, Between
<1> QED BY <1>2, <1>3

\* A call that ends without a line leaves its message as it is.
LEMMA ParserFailKeeps ==
    ASSUME WireInductive, NEW e, Waits, Fail(e),
           UNCHANGED <<buf, dirty, afterMessage, pad, msg, received, frame, run>>,
           e \notin LimitErrors \cup {"none", "ok"},
           e = "EOF" => part = "none" /\ Between,
           e = "UnexpectedEOF" => part # "none" \/ ~Between
    PROVE  WireInductive'
<1>0. /\ place' = "idle" /\ err' = e /\ part' = "none" /\ hook' = hook /\ buf' = buf
      /\ dirty' = dirty /\ pad' = pad /\ msg' = msg /\ frame' = frame /\ run' = run
      /\ torn' = (torn \/ ~Between \/ part # "none")
  BY DEF Fail
<1>1. WireTypeOK'
  BY <1>0 DEF WireInductive, WireTypeOK
<1>2. ~torn /\ hook = "none" /\ buf = <<>> /\ (dirty <=> ~Between \/ part # "none")
  BY DEF Waits, WireInductive, BoundaryPart, Buffered
<1>3. torn' <=> ~Between \/ part # "none"
  <2>1. torn' = (torn \/ ~Between \/ part # "none")
    BY <1>0
  <2> QED BY <1>2, <2>1, Zenon
<1>6. dirty' <=> torn'
  <2>1. dirty' <=> dirty
    BY <1>0
  <2>2. dirty <=> ~Between \/ part # "none"
    BY <1>2
  <2> QED BY <1>3, <2>1, <2>2
<1>7. NothingTorn'
  BY <1>0, <1>3, <1>6 DEF NothingTorn
<1>8. BoundaryPart'
  <2>1. place' = "idle" /\ hook' # "padding" /\ err' \notin {"none", "ok"} \cup LimitErrors
    BY <1>0, <1>2
  <2> QED BY <1>7, <2>1 DEF BoundaryPart
<1>4. ShapePart'
  BY <1>0 DEF ShapePart, Shape, FramesWhole
<1>5. BudgetPart'
  <2>1. run <= MaxMessageBytes
    BY DEF Waits, WireInductive, BoundaryPart, BudgetPart, BudgetsExact
  <2> QED BY <1>0, <2>1 DEF BudgetPart, BudgetsExact
<1> QED BY <1>1, <1>4, <1>5, <1>8 DEF WireInductive

LEMMA ReadFailsKeeps ==
    ASSUME WireInductive, NEW why \in {"EOF", "Timeout", "Failed", "Closed"}, ReadFails(why)
    PROVE  WireInductive'
<1> DEFINE e == IF why = "EOF" THEN Ended ELSE why
<1>1. /\ Waits /\ Fail(e)
      /\ UNCHANGED <<buf, dirty, afterMessage, pad, msg, received, frame, run>>
  BY DEF ReadFails
<1>2. /\ e \notin LimitErrors \cup {"none", "ok"}
      /\ e = "EOF" => part = "none" /\ Between
      /\ e = "UnexpectedEOF" => part # "none" \/ ~Between
  BY DEF Ended, LimitErrors
<1> HIDE DEF e
<1> QED BY <1>1, <1>2, ParserFailKeeps

LEMMA OverlongKeeps ==
    ASSUME WireInductive, Overlong
    PROVE  WireInductive'
<1> DEFINE e == IF place = "banner" THEN "BannerTooLong" ELSE "LineTooLong"
<1>1. /\ Waits /\ Fail(e)
      /\ UNCHANGED <<buf, dirty, afterMessage, pad, msg, received, frame, run>>
  BY DEF Overlong
<1>2. e \notin LimitErrors \cup {"none", "ok", "EOF", "UnexpectedEOF"}
  BY DEF LimitErrors
<1> HIDE DEF e
<1> QED BY <1>1, <1>2, ParserFailKeeps

----------------------------------------------------------------------------
(* Steps of the parser that take a line                                    *)

\* A line is at the head of the buffer of a call that has begun its frame.
Taking ==
    /\ place # "idle" /\ hook = "none" /\ buf # <<>> /\ buf' = Tail(buf)
    /\ part' = part

LEMMA TakingFacts ==
    ASSUME WireInductive, Taking
    PROVE  /\ Head(buf) \in Lines /\ buf' \in Seq(Lines)
           /\ err = "none" /\ ~torn /\ dirty /\ pad = run /\ run <= MaxMessageBytes
           /\ frame \in Seq(Lines) /\ msg \in MsgType /\ pad \in Nat /\ Shape(place, frame)
           /\ place \notin {"banner", "start"} => Measures(msg, frame)
  BY DEF Taking, WireInductive, WireTypeOK, BoundaryPart, Buffered, ShapePart, BudgetPart,
         BudgetsExact, MsgType

\* The line is measured, and it may exceed a budget.
LEMMA ChargedKeeps ==
    ASSUME WireInductive, Taking, NEW line \in Lines, NEW m, NEW next,
           place \in {"fields", "headers", "payload", "closing"},
           next \in {"fields", "headers", "payload", "closing"},
           m = Measured(msg, Append(frame, line), line), Shape(next, Append(frame, line)),
           Charge(m, line, next)
    PROVE  WireInductive'
<1>0. /\ buf' \in Seq(Lines) /\ err = "none" /\ ~torn /\ dirty /\ pad = run
      /\ run <= MaxMessageBytes /\ pad \in Nat /\ frame \in Seq(Lines) /\ msg \in MsgType
      /\ Measures(msg, frame) /\ frame # <<>>
  <2>1. frame # <<>>
    BY TakingFacts DEF Shape, Legacy
  <2> QED BY <2>1, TakingFacts
<1>1. Append(frame, line) \in Seq(Lines) /\ Append(frame, line) # <<>>
  BY <1>0
<1>2. Measures(m, Append(frame, line)) /\ m \in MsgType
  BY <1>0, AppendExtends, AppendMeasures
<1>3. /\ msg' = m /\ frame' = Append(frame, line) /\ dirty' = dirty /\ hook' = "none"
      /\ pad' = pad /\ run' = run
      /\ \/ Exceeds(m) = "none" /\ place' = next /\ err' = err /\ torn' = torn
         \/ Exceeds(m) # "none" /\ place' = "idle" /\ err' = Exceeds(m) /\ torn' = TRUE
  BY DEF Charge, Taking
<1>4. Exceeds(m) \in LimitErrors \cup {"none"} /\ (Exceeds(m) = "none" <=> WithinBudgets(frame'))
  BY <1>2, <1>3, Limits, MeasuresDecide
<1>5. WireTypeOK'
  BY <1>0, <1>1, <1>2, <1>3 DEF WireInductive, WireTypeOK, MsgType
<1>6. BoundaryPart'
  BY <1>0, <1>3, <1>4 DEF BoundaryPart, NothingTorn, LimitErrors, Between
<1>7. ShapePart'
  BY <1>0, <1>3, <1>4 DEF ShapePart, Shape, FramesWhole, LimitErrors
<1>8. BudgetPart'
  BY <1>0, <1>2, <1>3, <1>4 DEF BudgetPart, BudgetsExact, LimitErrors
<1> QED BY <1>5, <1>6, <1>7, <1>8 DEF WireInductive

\* The blank line that completes a message.
LEMMA CompletedKeeps ==
    ASSUME WireInductive, Taking, NEW line \in Lines, line.kind = "blank",
           place \in {"fields", "closing"}, Complete(line)
    PROVE  WireInductive'
<1> DEFINE m == Framing(msg, line)
<1>0. /\ buf' \in Seq(Lines) /\ err = "none" /\ ~torn /\ dirty /\ pad = run
      /\ run <= MaxMessageBytes /\ pad \in Nat /\ frame \in Seq(Lines) /\ msg \in MsgType
      /\ Measures(msg, frame) /\ frame # <<>> /\ Shape(place, frame)
  <2>1. frame # <<>>
    BY TakingFacts DEF Shape, Legacy
  <2> QED BY <2>1, TakingFacts
<1>1. Append(frame, line) \in Seq(Lines) /\ Append(frame, line) # <<>>
  BY <1>0
<1>2. m = Measured(msg, Append(frame, line), line) /\ IsMessage(Append(frame, line))
  BY <1>0, BlankMeasured
<1>3. /\ msg' = m /\ frame' = Append(frame, line) /\ hook' = "none" /\ place' = "idle"
      /\ pad' = pad /\ run' = run
      /\ \/ Exceeds(m) = "none" /\ err' = "ok" /\ dirty' = FALSE /\ torn' = torn
         \/ Exceeds(m) # "none" /\ err' = Exceeds(m) /\ torn' = TRUE /\ dirty' = dirty
  BY DEF Complete, Taking
<1> HIDE DEF m
<1>4. Measures(m, Append(frame, line)) /\ m \in MsgType
  BY <1>0, <1>2, AppendExtends, AppendMeasures
<1>5. Exceeds(m) \in LimitErrors \cup {"none"} /\ (Exceeds(m) = "none" <=> WithinBudgets(frame'))
  BY <1>3, <1>4, Limits, MeasuresDecide
<1>6. WireTypeOK'
  BY <1>0, <1>1, <1>3, <1>4 DEF WireInductive, WireTypeOK, MsgType
<1>7. BoundaryPart'
  <2>1. CASE Exceeds(m) = "none"
    BY <1>0, <1>3, <2>1 DEF BoundaryPart, NothingTorn, LimitErrors
  <2>2. CASE Exceeds(m) # "none"
    BY <1>0, <1>3, <1>5, <2>2 DEF BoundaryPart, NothingTorn, LimitErrors
  <2> QED BY <2>1, <2>2
<1>8. ShapePart'
  BY <1>2, <1>3, <1>5 DEF ShapePart, Shape, FramesWhole, LimitErrors
<1>9. BudgetPart'
  BY <1>0, <1>3, <1>5 DEF BudgetPart, BudgetsExact, LimitErrors
<1> QED BY <1>6, <1>7, <1>8, <1>9 DEF WireInductive

\* A line that is refused tears the stream.
LEMMA ParserRefusalKeeps ==
    ASSUME WireInductive, Taking, NEW e, Refuse(e),
           e \notin LimitErrors \cup {"none", "ok", "Timeout", "EOF", "UnexpectedEOF"}
    PROVE  WireInductive'
<1>0. /\ buf' \in Seq(Lines) /\ err' = e /\ place' = "idle" /\ torn' = TRUE /\ hook' = "none"
      /\ dirty' = dirty /\ pad' = pad /\ msg' = msg /\ frame' = frame /\ run' = run
      /\ run <= MaxMessageBytes
  BY TakingFacts DEF Refuse, Taking
<1>1. WireTypeOK'
  BY <1>0 DEF WireInductive, WireTypeOK
<1>2. BoundaryPart'
  BY <1>0 DEF BoundaryPart, NothingTorn
<1>3. ShapePart'
  BY <1>0 DEF ShapePart, Shape, FramesWhole
<1>4. BudgetPart'
  BY <1>0 DEF BudgetPart, BudgetsExact
<1> QED BY <1>1, <1>2, <1>3, <1>4 DEF WireInductive

LEMMA BannerKeeps ==
    ASSUME WireInductive, Taking, NEW line, BannerLine(line)
    PROVE  WireInductive'
<1>0. /\ buf' \in Seq(Lines) /\ err' = "ok" /\ place' = "idle" /\ torn' = torn /\ hook' = "none"
      /\ dirty' = FALSE /\ pad' = pad /\ msg' = msg /\ frame' = frame /\ run' = run
      /\ run <= MaxMessageBytes /\ ~torn /\ frame = <<>>
  BY TakingFacts DEF BannerLine, Taking, Shape
<1>1. WireTypeOK'
  BY <1>0 DEF WireInductive, WireTypeOK
<1>2. BoundaryPart'
  BY <1>0 DEF BoundaryPart, NothingTorn, LimitErrors
<1>3. ShapePart'
  BY <1>0 DEF ShapePart, Shape, FramesWhole
<1>4. BudgetPart'
  BY <1>0 DEF BudgetPart, BudgetsExact, LimitErrors
<1> QED BY <1>1, <1>2, <1>3, <1>4 DEF WireInductive

\* Padding is charged to its run.
LEMMA PaddingKeeps ==
    ASSUME WireInductive, Taking, NEW line \in Lines, Padding(line)
    PROVE  WireInductive'
<1>0. /\ buf' \in Seq(Lines) /\ ~torn /\ pad = run /\ pad \in Nat /\ err = "none"
      /\ place = "start" /\ msg' = msg /\ frame' = frame /\ line.raw \in Nat
  BY TakingFacts, WireAssumption DEF Padding
<1>1. /\ pad' = pad + line.raw /\ run' = pad + line.raw
      /\ \/ pad' > MaxMessageBytes /\ err' = "MessageTooLarge" /\ place' = "idle"
            /\ torn' = TRUE /\ dirty' = dirty /\ hook' = "none"
         \/ ~(pad' > MaxMessageBytes) /\ dirty' = FALSE /\ hook' = "padding" /\ err' = err
            /\ place' = place /\ torn' = torn
  BY <1>0 DEF Padding, Taking
<1>2. \A x \in Nat, y \in Nat : x + y \in Nat /\ (x + y > MaxMessageBytes \/ x + y <= MaxMessageBytes)
  BY WireAssumption
<1>3. pad' \in Nat /\ run' = pad' /\ (pad' > MaxMessageBytes \/ pad' <= MaxMessageBytes)
  BY <1>0, <1>1, <1>2
<1>4. WireTypeOK'
  BY <1>0, <1>1, <1>3 DEF WireInductive, WireTypeOK
<1>5. BoundaryPart'
  BY <1>0, <1>1 DEF BoundaryPart, NothingTorn, LimitErrors
<1>6. ShapePart'
  BY <1>0, <1>1 DEF ShapePart, Shape, FramesWhole
<1>7. BudgetPart'
  BY <1>0, <1>1, <1>3 DEF BudgetPart, BudgetsExact, LimitErrors
<1> QED BY <1>4, <1>5, <1>6, <1>7 DEF WireInductive

LEMMA FirstKeeps ==
    ASSUME WireInductive, Taking, NEW line \in Lines, FirstLine(line)
    PROVE  WireInductive'
<1> DEFINE m == Field(NewMsg, line)
           next == IF line.kind = "follows" THEN "headers" ELSE "fields"
<1>0. /\ buf' \in Seq(Lines) /\ err = "none" /\ ~torn /\ dirty /\ hook = "none"
      /\ <<line>> \in Seq(Lines) /\ <<line>> # <<>> /\ NewMsg \in MsgType /\ 0 <= MaxMessageBytes
  BY TakingFacts, WireAssumption DEF Taking, NewMsg, MsgType
<1>1. /\ pad' = 0 /\ run' = 0 /\ frame' = <<line>> /\ dirty' = dirty /\ hook' = "none"
  BY <1>0 DEF FirstLine
<1>2. CASE ~IsField(line)
  <2>1. err' = "MalformedLine" /\ place' = "idle" /\ torn' = TRUE /\ msg' = NewMsg
    BY <1>2 DEF FirstLine
  <2>2. WireTypeOK'
    BY <1>0, <1>1, <2>1 DEF WireInductive, WireTypeOK, MsgType
  <2>3. BoundaryPart'
    BY <1>1, <2>1 DEF BoundaryPart, NothingTorn, LimitErrors
  <2>4. ShapePart'
    BY <2>1 DEF ShapePart, Shape, FramesWhole
  <2>5. BudgetPart'
    BY <1>0, <1>1, <2>1 DEF BudgetPart, BudgetsExact, LimitErrors
  <2> QED BY <2>2, <2>3, <2>4, <2>5 DEF WireInductive
<1>3. CASE IsField(line)
  <2>1. /\ msg' = m
        /\ \/ Exceeds(m) = "none" /\ place' = next /\ err' = err /\ torn' = torn
           \/ Exceeds(m) # "none" /\ place' = "idle" /\ err' = Exceeds(m) /\ torn' = TRUE
    BY <1>3 DEF FirstLine
  <2>2. Measures(m, <<line>>) /\ m \in MsgType /\ Shape(next, <<line>>)
    BY <1>3, FirstMeasured
  <2>3. next \in {"headers", "fields"}
    OBVIOUS
  <2> HIDE DEF m, next
  <2>4. Exceeds(m) \in LimitErrors \cup {"none"} /\ (Exceeds(m) = "none" <=> WithinBudgets(frame'))
    BY <1>1, <2>2, Limits, MeasuresDecide
  <2>5. WireTypeOK'
    BY <1>0, <1>1, <2>1, <2>2, <2>3 DEF WireInductive, WireTypeOK, MsgType
  <2>6. BoundaryPart'
    BY <1>0, <1>1, <2>1, <2>3, <2>4 DEF BoundaryPart, NothingTorn, LimitErrors, Between
  <2>7. ShapePart'
    <3>1. err' # "ok"
      BY <1>0, <2>1, <2>4 DEF LimitErrors
    <3>2. Shape(place', frame')
      BY <1>1, <2>1, <2>2 DEF Shape
    <3> QED BY <3>1, <3>2 DEF ShapePart, FramesWhole
  <2>8. BudgetPart'
    BY <1>0, <1>1, <2>1, <2>2, <2>3, <2>4 DEF BudgetPart, BudgetsExact, LimitErrors
  <2> QED BY <2>5, <2>6, <2>7, <2>8 DEF WireInductive
<1> QED BY <1>2, <1>3

LEMMA TakeLineKeeps ==
    ASSUME WireInductive, TakeLine
    PROVE  WireInductive'
<1> DEFINE line == Head(buf)
<1>0. /\ Taking
      /\ \/ BannerLine(line) \/ Padding(line) \/ EmptyStart(line) \/ FirstLine(line)
         \/ FieldLine(line) \/ TrailerLine(line) \/ OutputLine(line)
         \/ ClosingLine(line) \/ LongLine(line)
  BY DEF TakeLine, Taking, lineFrame
<1>1. line \in Lines /\ msg \in MsgType /\ frame \in Seq(Lines) /\ Shape(place, frame)
  BY <1>0, TakingFacts
<1> HIDE DEF line
<1>2. CASE BannerLine(line)
  BY <1>0, <1>2, BannerKeeps
<1>3. CASE Padding(line)
  BY <1>0, <1>1, <1>3, PaddingKeeps
<1>4. CASE EmptyStart(line)
  BY <1>0, <1>4, ParserRefusalKeeps DEF EmptyStart, LimitErrors
<1>5. CASE FirstLine(line)
  BY <1>0, <1>1, <1>5, FirstKeeps
<1>6. CASE FieldLine(line)
  <2>1. place = "fields" /\ frame # <<>> /\ ~Legacy(frame) /\ \A i \in 1..Len(frame) : IsField(frame[i])
    BY <1>1, <1>6 DEF FieldLine, Shape
  <2>2. CASE line.kind = "blank" /\ Complete(line)
    BY <1>0, <1>1, <2>1, <2>2, CompletedKeeps
  <2>3. CASE IsField(line) /\ Charge(Field(msg, line), line, "fields")
    <3>1. Field(msg, line) = Measured(msg, Append(frame, line), line)
      BY <1>1, <2>1, <2>3, FieldsMeasured DEF IsField
    <3>2. Shape("fields", Append(frame, line))
      <4> DEFINE g == Append(frame, line)
      <4>1. /\ Len(frame) \in Nat /\ Len(g) = Len(frame) + 1 /\ g[Len(g)] = line /\ g # <<>>
            /\ \A i \in 1..Len(frame) : g[i] = frame[i]
        BY <1>1
      <4>2. ~Legacy(g)
        BY <1>1, <2>1, AppendExtends
      <4> HIDE DEF g
      <4>3. \A i \in 1..Len(g) : IsField(g[i])
        <5>1. \A i \in 1..Len(g) : i \in 1..Len(frame) \/ i = Len(g)
          BY <4>1
        <5> QED BY <2>1, <2>3, <4>1, <5>1
      <4> QED BY <4>1, <4>2, <4>3 DEF Shape, g
    <3> QED BY <1>0, <1>1, <2>1, <2>3, <3>1, <3>2, ChargedKeeps
  <2>4. CASE line.kind # "blank" /\ ~IsField(line) /\ Refuse("MalformedLine")
    BY <1>0, <2>4, ParserRefusalKeeps DEF LimitErrors
  <2> QED BY <1>6, <2>2, <2>3, <2>4 DEF FieldLine
<1>7. CASE TrailerLine(line)
  <2>1. place = "headers" /\ line.kind = "trailer" /\ Charge(Header(msg, line), line, "headers")
    BY <1>7 DEF TrailerLine
  <2>2. /\ Header(msg, line) = Measured(msg, Append(frame, line), line)
        /\ Shape("headers", Append(frame, line))
    BY <1>1, <2>1, TrailersMeasured
  <2> QED BY <1>0, <1>1, <2>1, <2>2, ChargedKeeps
<1>8. CASE OutputLine(line)
  <2>1. /\ place \in {"payload", "headers"}
        /\ Shape("payload", frame) \/ (Shape("headers", frame) /\ line.kind # "trailer")
    BY <1>1, <1>8 DEF OutputLine
  <2> DEFINE g == Append(frame, line)
  <2>2. /\ line.kind = "end" => Measured(msg, g, line) = Framing(msg, line)
        /\ line.kind # "end" => Measured(msg, g, line) = Output(msg, line)
        /\ line.kind \in {"end", "glued"} => Shape("closing", g)
        /\ line.kind \notin {"end", "glued"} => Shape("payload", g)
    BY <1>1, <2>1, OutputMeasured
  <2>3. \/ line.kind = "end" /\ Charge(Framing(msg, line), line, "closing")
        \/ line.kind = "glued" /\ Charge(Output(msg, line), line, "closing")
        \/ line.kind \notin {"end", "glued"} /\ Charge(Output(msg, line), line, "payload")
    BY <1>8 DEF OutputLine
  <2>4. CASE line.kind = "end"
    BY <1>0, <1>1, <2>1, <2>2, <2>3, <2>4, ChargedKeeps
  <2>5. CASE line.kind = "glued"
    BY <1>0, <1>1, <2>1, <2>2, <2>3, <2>5, ChargedKeeps
  <2>6. CASE line.kind \notin {"end", "glued"}
    BY <1>0, <1>1, <2>1, <2>2, <2>3, <2>6, ChargedKeeps
  <2> QED BY <2>4, <2>5, <2>6
<1>9. CASE ClosingLine(line)
  <2>1. /\ place = "closing"
        /\ \/ line.kind = "blank" /\ Complete(line)
           \/ Refuse("CommandFraming")
    BY <1>9 DEF ClosingLine
  <2> QED BY <1>0, <1>1, <2>1, CompletedKeeps, ParserRefusalKeeps DEF LimitErrors
<1>10. CASE LongLine(line)
  <2> DEFINE e == IF place = "banner" THEN "BannerTooLong" ELSE "LineTooLong"
  <2>1. Refuse(e) /\ e \notin LimitErrors \cup {"none", "ok", "Timeout", "EOF", "UnexpectedEOF"}
    BY <1>10 DEF LongLine, LimitErrors
  <2> HIDE DEF e
  <2> QED BY <1>0, <2>1, ParserRefusalKeeps
<1> QED BY <1>0, <1>2, <1>3, <1>4, <1>5, <1>6, <1>7, <1>8, <1>9, <1>10

----------------------------------------------------------------------------
(* The parser alone                                                        *)

LEMMA WireUnchanged ==
    ASSUME WireInductive, UNCHANGED wireVars
    PROVE  WireInductive'
<1>1. Beside /\ buf' = buf /\ dirty' = dirty /\ hook' = hook /\ (Buffered' <=> Buffered)
  BY DEF wireVars, readerVars, historyVars, Beside, Buffered
<1> QED BY <1>1, BesideKeeps DEF WireInductive, WireTypeOK, BoundaryPart

LEMMA WireNext ==
    ASSUME WireInductive, [Next]_wireVars
    PROVE  WireInductive'
<1>1. ASSUME NEW p \in {"banner", "start"}, MayCall(p), Call(p) PROVE WireInductive'
  <2>1. ~torn
    BY <1>1 DEF MayCall, WireInductive, BoundaryPart, NothingTorn
  <2> QED BY <1>1, <2>1, ParserCallKeeps DEF MayCall
<1>2. ASSUME NEW new \in Chunks, NEW tail \in {"none", "short", "long"}, Receive(new, tail)
      PROVE  WireInductive'
  BY <1>2, ParserReceiveKeeps
<1>3. ASSUME NEW why \in {"EOF", "Timeout", "Failed"}, ReadFails(why) PROVE WireInductive'
  BY <1>3, ReadFailsKeeps
<1>4. CASE Overlong
  BY <1>4, OverlongKeeps
<1>5. CASE TakeLine
  BY <1>5, TakeLineKeeps
<1>6. CASE Hooks
  BY <1>6, ParserHookKeeps DEF Hooks
<1>7. CASE UNCHANGED wireVars
  BY <1>7, WireUnchanged
<1> QED BY <1>1, <1>2, <1>3, <1>4, <1>5, <1>6, <1>7 DEF Next

\* The inductive invariant of the parser (ReadBanner and ReadMessage of
\* internal/wire/reader.go), for every set of lines, every limit and any
\* grouping of the stream into reads.
THEOREM WireInvariant == Spec => []WireInductive
<1>1. Init => WireInductive
  BY WireInit
<1>2. WireInductive /\ [Next]_wireVars => WireInductive'
  BY WireNext
<1> QED BY <1>1, <1>2, PTL DEF Spec

\* The budgets of a message are exact (msg.add and its callers).
THEOREM BudgetsAreExact == Spec => []BudgetsExact
<1>1. WireInductive => BudgetsExact
  BY DEF WireInductive, BudgetPart
<1> QED BY <1>1, WireInvariant, PTL

\* A message that is returned is whole, raw output and framing told apart
\* (ReadMessage and readLegacyCommand).
THEOREM FramesAreWhole == Spec => []FramesWhole
<1>1. WireInductive => FramesWhole
  BY DEF WireInductive, ShapePart
<1> QED BY <1>1, WireInvariant, PTL

\* A deadline that finds the reader clean has dropped nothing, and the end of
\* the stream is clean exactly if nothing was cut off (readLine and noEOF).
THEOREM NothingIsTorn == Spec => []NothingTorn
<1>1. WireInductive => NothingTorn
  BY DEF WireInductive, BoundaryPart
<1> QED BY <1>1, WireInvariant, PTL

----------------------------------------------------------------------------
(* The parser under the framer                                             *)

LEMMA FramerReads ==
    ASSUME WireInductive, FramerInductive, Read
    PROVE  WireInductive'
<1>1. CASE UNCHANGED wireVars
  BY <1>1, WireUnchanged
<1>2. CASE ReadCall
  <2>1. ~torn /\ \E p \in {"banner", "start"} : (p = "banner" => frame = <<>>) /\ Call(p)
    BY <1>2 DEF ReadCall, FramerInductive, ResultPart
  <2> QED BY <2>1, ParserCallKeeps
<1>3. CASE ReadReceives
  BY <1>3, ParserReceiveKeeps DEF ReadReceives
<1>4. CASE ReadBreaks
  BY <1>4, ReadFailsKeeps DEF ReadBreaks
<1>5. CASE ReadStops
  BY <1>5, ReadFailsKeeps DEF ReadStops
<1>6. CASE ReadLine
  BY <1>6, OverlongKeeps, TakeLineKeeps DEF ReadLine
<1>7. CASE RunHook
  BY <1>7, ParserHookKeeps DEF RunHook
<1>8. CASE ReadRefused \/ Release \/ Judge \/ PoisonRead
  BY <1>1, <1>8 DEF ReadRefused, Release, Judge, PoisonRead
<1> QED BY <1>2, <1>3, <1>4, <1>5, <1>6, <1>7, <1>8 DEF Read

\* The framer calls the parser only where the stream is whole, and so the parser
\* keeps its invariant whatever watchers, closers and writers do meanwhile
\* (framer.read over wire.Reader).
THEOREM ParserInvariant == FramerSpec => []WireInductive
<1>1. FramerInit => WireInductive
  BY WireInit DEF FramerInit
<1>2. FramerInductive /\ WireInductive /\ [FramerNext]_framerVars => WireInductive'
  <2> SUFFICES ASSUME FramerInductive, WireInductive, [FramerNext]_framerVars
               PROVE  WireInductive'
    OBVIOUS
  <2>1. CASE Read
    BY <2>1, FramerReads
  <2>2. CASE UNCHANGED wireVars
    BY <2>2, WireUnchanged
  <2>3. CASE Write
    BY <2>2, <2>3 DEF Write, WriteRefused, WriteCall, WriteBytes, WriteEnds, WriteRelease,
                      WriteJudge, PoisonWrite, reader
  <2>4. CASE Watchers \/ Close
    BY <2>2, <2>4 DEF Watchers, ReadContextEnds, ReadPoke, WriteContextEnds, WritePoke, AgePasses,
                      Close, reader
  <2>5. CASE UNCHANGED framerVars
    BY <2>2, <2>5 DEF framerVars
  <2> QED BY <2>1, <2>3, <2>4, <2>5 DEF FramerNext
<1> QED BY <1>1, <1>2, FramerInvariant, PTL DEF FramerSpec
=============================================================================
