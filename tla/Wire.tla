-------------------------------- MODULE Wire --------------------------------
(***************************************************************************)
(* The parser of the inbound stream (internal/wire/reader.go): one call of *)
(* ReadBanner or ReadMessage at a time, on the reading goroutine.          *)
(*                                                                         *)
(* The peer sends lines; a read of the transport brings some whole lines   *)
(* and perhaps the beginning of another.  Of a line only its kind and its  *)
(* raw length matter here.  The hooks of the reader are places of their    *)
(* own, because the framing layer runs code of its own in them.            *)
(***************************************************************************)
EXTENDS Integers, Sequences, SequencesExt, FiniteSetsExt

CONSTANTS
    Lines,      \* the lines the peer may send: [kind, raw]
    MaxChunk,   \* bound: whole lines brought by one read of the transport
    MaxReceived,\* bound: whole lines received in all
    MaxFields, MaxMessageBytes, MaxCommandOutputLines, MaxCommandOutputBytes

\* What the parser tells apart: the blank line, a field, a Privilege or ActionID
\* field, an Output field, "Response: Follows", text that is no field, the exact
\* end of command output, text that ends with it, and a line over its limit.
Kinds == {"blank", "field", "trailer", "output", "follows", "text", "end", "glued", "long"}

ASSUME WireAssumption ==
    /\ Lines \subseteq [kind : Kinds, raw : Nat \ {0}]
    /\ MaxChunk \in Nat /\ MaxReceived \in Nat
    /\ MaxFields \in Nat /\ MaxMessageBytes \in Nat
    /\ MaxCommandOutputLines \in Nat /\ MaxCommandOutputBytes \in Nat

VARIABLES
    \* Reader
    buf,        \* the whole lines in the buffered reader
    part,       \* the unfinished line behind them: "none", "short" or "long"
    dirty, afterMessage, pad,
    place,      \* where the call in progress is; "idle" if there is none
    hook,       \* the hook it is about to run: "none", "start" or "padding"
    msg,        \* the budgets of the message in progress
    err,        \* how the last call ended; "none" during a call
    \* history
    received,   \* whole lines received
    frame,      \* the lines of the message in progress or last returned
    run,        \* bytes of padding since the last line that was none
    torn        \* a failed call has dropped bytes of the stream

readerVars == <<buf, part, dirty, afterMessage, pad, place, hook, msg, err>>
historyVars == <<received, frame, run, torn>>
wireVars == <<readerVars, historyVars>>

NewMsg == [nFields |-> 0, msgBytes |-> 0, nOutput |-> 0, outBytes |-> 0]

Init ==
    /\ buf = <<>> /\ part = "none" /\ dirty = FALSE
    /\ afterMessage = FALSE /\ pad = 0
    /\ place = "idle" /\ hook = "none" /\ msg = NewMsg /\ err = "none"
    /\ received = 0 /\ frame = <<>> /\ run = 0 /\ torn = FALSE

Buffered == buf # <<>> \/ part # "none"
Between == place \in {"banner", "start"}

----------------------------------------------------------------------------
(* The frame clock                                                         *)

\* The check at the entry of readLine, with the reader clean: bytes that an
\* earlier read has brought start the frame now.
EnterLine ==
    /\ dirty' = Buffered
    /\ hook' = IF Buffered THEN "start" ELSE "none"

\* frameStartReader: bytes from the transport start the frame, once.
FrameStart ==
    /\ dirty' = TRUE
    /\ hook' = IF dirty THEN "none" ELSE "start"

\* The frame-start hook returns.
StartHook == hook = "start" /\ hook' = "none" /\ UNCHANGED dirty

\* The padding hook returns, and readStart goes on to the next line.
PaddingHook == hook = "padding" /\ EnterLine

----------------------------------------------------------------------------
(* Calls and reads of the transport                                        *)

\* Fault: a call forgets the padding before it.
CallAfresh(p) ==
    /\ place = "idle"
    /\ place' = p /\ err' = "none" /\ pad' = 0
    /\ EnterLine
    /\ UNCHANGED <<buf, part, afterMessage, msg, historyVars>>

Call(p) ==
    /\ place = "idle"
    /\ place' = p /\ err' = "none"
    /\ EnterLine
    /\ UNCHANGED <<buf, part, afterMessage, pad, msg, historyVars>>

\* The call needs a line that has not wholly arrived.
Waits == place # "idle" /\ hook = "none" /\ buf = <<>>

\* A line whose beginning is too long is too long.
Continues(new) ==
    part = "long" /\ new # <<>> => new[1].kind = "long"

Receive(new, tail) ==
    /\ Waits
    /\ new # <<>> \/ tail # "none"
    /\ Continues(new)
    /\ received + Len(new) <= MaxReceived
    /\ received' = received + Len(new)
    /\ buf' = new
    /\ part' = IF new = <<>> /\ part = "long" THEN "long" ELSE tail
    /\ FrameStart
    /\ UNCHANGED <<afterMessage, pad, place, msg, err, frame, run, torn>>

\* The call returns an error.  The reader has drained what was unfinished.
Fail(e) ==
    /\ err' = e /\ place' = "idle" /\ part' = "none"
    /\ torn' = (torn \/ ~Between \/ part # "none")
    /\ UNCHANGED hook

\* Fault: the end of the stream inside a message passes for a clean one.
EndedAnywhere == IF part = "none" THEN "EOF" ELSE "UnexpectedEOF"

\* readLine and noEOF.
Ended == IF part = "none" /\ Between THEN "EOF" ELSE "UnexpectedEOF"

\* The read of the transport fails: the stream has ended, a deadline has
\* passed, or anything else.
ReadFails(why) ==
    /\ Waits
    /\ Fail(IF why = "EOF" THEN Ended ELSE why)
    /\ UNCHANGED <<buf, dirty, afterMessage, pad, msg, received, frame, run>>

\* The reader need not wait for the end of a line that is too long already.
Overlong ==
    /\ Waits /\ part = "long"
    /\ Fail(IF place = "banner" THEN "BannerTooLong" ELSE "LineTooLong")
    /\ UNCHANGED <<buf, dirty, afterMessage, pad, msg, received, frame, run>>

----------------------------------------------------------------------------
(* Budgets                                                                 *)

\* A total of exactly the limit is within it.
Exceeds(m) ==
    CASE m.nFields > MaxFields -> "TooManyFields"
      [] m.nOutput > MaxCommandOutputLines -> "TooManyOutputLines"
      [] m.msgBytes > MaxMessageBytes -> "MessageTooLarge"
      [] m.outBytes > MaxCommandOutputBytes -> "OutputTooLarge"
      [] OTHER -> "none"

Header(m, line) == [m EXCEPT !.nFields = @ + 1, !.msgBytes = @ + line.raw]
Framing(m, line) == [m EXCEPT !.msgBytes = @ + line.raw]
Output(m, line) == [m EXCEPT !.nOutput = @ + 1, !.outBytes = @ + line.raw]

\* msg.add: the key selects the budget.
Field(m, line) == IF line.kind = "output" THEN Output(m, line) ELSE Header(m, line)

----------------------------------------------------------------------------
(* One line                                                                *)

lineFrame == <<part, received>>

\* The line is charged; within the budgets the call goes on.
Charge(m, line, next) ==
    /\ msg' = m
    /\ frame' = Append(frame, line)
    /\ IF Exceeds(m) = "none"
       THEN place' = next /\ UNCHANGED <<err, torn>>
       ELSE place' = "idle" /\ err' = Exceeds(m) /\ torn' = TRUE
    /\ UNCHANGED <<dirty, hook, afterMessage, pad, run>>

\* The blank line that ends a message.
Complete(line) ==
    LET m == Framing(msg, line)
    IN  /\ msg' = m /\ frame' = Append(frame, line)
        /\ place' = "idle"
        /\ IF Exceeds(m) = "none"
           THEN err' = "ok" /\ dirty' = FALSE /\ afterMessage' = TRUE /\ UNCHANGED torn
           ELSE err' = Exceeds(m) /\ torn' = TRUE /\ UNCHANGED <<dirty, afterMessage>>
        /\ UNCHANGED <<hook, pad, run>>

Refuse(e) ==
    /\ err' = e /\ place' = "idle" /\ torn' = TRUE
    /\ UNCHANGED <<dirty, hook, afterMessage, pad, msg, frame, run>>

\* ReadBanner.
BannerLine(line) ==
    /\ place = "banner" /\ line.kind # "long"
    /\ err' = "ok" /\ place' = "idle" /\ dirty' = FALSE
    /\ UNCHANGED <<hook, afterMessage, pad, msg, frame, run, torn>>

\* readStart: a blank line before a message is padding.
Padding(line) ==
    /\ place = "start" /\ line.kind = "blank" /\ afterMessage
    /\ pad' = pad + line.raw /\ run' = run + line.raw
    /\ IF pad' > MaxMessageBytes
       THEN err' = "MessageTooLarge" /\ place' = "idle" /\ torn' = TRUE
            /\ UNCHANGED <<dirty, hook>>
       ELSE dirty' = FALSE /\ hook' = "padding" /\ UNCHANGED <<err, place, torn>>
    /\ UNCHANGED <<afterMessage, msg, frame>>

EmptyStart(line) ==
    /\ place = "start" /\ line.kind = "blank" /\ ~afterMessage
    /\ Refuse("EmptyMessage")

IsField(line) == line.kind \in {"field", "trailer", "output", "follows"}

\* The first line of a message selects its framing.
FirstLine(line) ==
    LET m == Field(NewMsg, line)
    IN  /\ place = "start" /\ line.kind \notin {"blank", "long"}
        /\ pad' = 0 /\ run' = 0
        /\ frame' = <<line>>
        /\ IF ~IsField(line)
           THEN /\ err' = "MalformedLine" /\ place' = "idle" /\ torn' = TRUE
                /\ msg' = NewMsg
           ELSE /\ msg' = m
                /\ IF Exceeds(m) = "none"
                   THEN /\ place' = IF line.kind = "follows" THEN "headers" ELSE "fields"
                        /\ UNCHANGED <<err, torn>>
                   ELSE place' = "idle" /\ err' = Exceeds(m) /\ torn' = TRUE
        /\ UNCHANGED <<dirty, hook, afterMessage>>

\* ReadMessage: the fields up to the blank line.
FieldLine(line) ==
    /\ place = "fields" /\ line.kind # "long"
    /\ \/ line.kind = "blank" /\ Complete(line)
       \/ IsField(line) /\ Charge(Field(msg, line), line, "fields")
       \/ line.kind # "blank" /\ ~IsField(line) /\ Refuse("MalformedLine")

\* readLegacyCommand: trailer headers first.
TrailerLine(line) ==
    /\ place = "headers" /\ line.kind = "trailer"
    /\ Charge(Header(msg, line), line, "headers")

\* Fault: a blank line ends the output of a command.
EndsOutputAtBlank(line) ==
    /\ line.kind # "long"
    /\ place = "payload" \/ (place = "headers" /\ line.kind # "trailer")
    /\ \/ line.kind = "end" /\ Charge(Framing(msg, line), line, "closing")
       \/ line.kind = "glued" /\ Charge(Output(msg, line), line, "closing")
       \/ line.kind = "blank" /\ Complete(line)
       \/ line.kind \notin {"end", "glued", "blank"}
             /\ Charge(Output(msg, line), line, "payload")

\* Then raw output, whatever it looks like, up to its terminator, which may be
\* glued to the last line.
OutputLine(line) ==
    /\ line.kind # "long"
    /\ place = "payload" \/ (place = "headers" /\ line.kind # "trailer")
    /\ \/ line.kind = "end" /\ Charge(Framing(msg, line), line, "closing")
       \/ line.kind = "glued" /\ Charge(Output(msg, line), line, "closing")
       \/ line.kind \notin {"end", "glued"} /\ Charge(Output(msg, line), line, "payload")

\* Then the blank line.
ClosingLine(line) ==
    /\ place = "closing" /\ line.kind # "long"
    /\ IF line.kind = "blank" THEN Complete(line) ELSE Refuse("CommandFraming")

LongLine(line) ==
    /\ line.kind = "long"
    /\ Refuse(IF place = "banner" THEN "BannerTooLong" ELSE "LineTooLong")

TakeLine ==
    /\ place # "idle" /\ hook = "none" /\ buf # <<>>
    /\ buf' = Tail(buf)
    /\ LET line == Head(buf)
       IN  \/ BannerLine(line) \/ Padding(line) \/ EmptyStart(line) \/ FirstLine(line)
           \/ FieldLine(line) \/ TrailerLine(line) \/ OutputLine(line)
           \/ ClosingLine(line) \/ LongLine(line)
    /\ UNCHANGED lineFrame

----------------------------------------------------------------------------
(* The reader alone: the banner comes first, and its owner calls again     *)
(* after a success, and after a deadline that found the reader clean.      *)

MayCall(p) ==
    /\ p = "banner" => frame = <<>>
    /\ err \in {"none", "ok"} \/ (err = "Timeout" /\ ~dirty)

Chunks == UNION {[1..k -> Lines] : k \in 0..MaxChunk}

Hooks ==
    /\ StartHook \/ PaddingHook
    /\ UNCHANGED <<buf, part, afterMessage, pad, place, msg, err, historyVars>>

Next ==
    \/ \E p \in {"banner", "start"} : MayCall(p) /\ Call(p)
    \/ \E new \in Chunks, tail \in {"none", "short", "long"} : Receive(new, tail)
    \/ \E why \in {"EOF", "Timeout", "Failed"} : ReadFails(why)
    \/ Overlong \/ TakeLine \/ Hooks

Spec == Init /\ [][Next]_wireVars
=============================================================================
