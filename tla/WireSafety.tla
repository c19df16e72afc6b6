----------------------------- MODULE WireSafety -----------------------------
(***************************************************************************)
(* Properties of the parser (module Wire), against a declarative reading   *)
(* of a message as a sequence of lines.                                    *)
(***************************************************************************)
EXTENDS Wire

----------------------------------------------------------------------------
(* What the lines of a message are                                         *)

Legacy(f) == f # <<>> /\ f[1].kind = "follows"

\* Where the raw output of a legacy command begins and where it ends.
OutputBegins(f, i) ==
    /\ i \in 2..Len(f) /\ f[i].kind # "trailer"
    /\ \A j \in 2..(i - 1) : f[j].kind = "trailer"
Terminates(f, i) ==
    /\ i \in 2..Len(f) /\ f[i].kind \in {"end", "glued"}
    /\ \E b \in 2..i : OutputBegins(f, b)
    /\ \A j \in 2..(i - 1) : f[j].kind \notin {"end", "glued"}

IsOutput(f, i) ==
    IF Legacy(f)
    THEN /\ \E b \in 2..i : OutputBegins(f, b)
         /\ ~\E t \in 2..(i - 1) : Terminates(f, t)
         /\ f[i].kind # "end"
    ELSE f[i].kind = "output"

\* The lines that carry a field of the message rather than its framing.
IsHeader(f, i) ==
    /\ ~IsOutput(f, i)
    /\ IF Legacy(f) THEN \A j \in 2..i : f[j].kind = "trailer" ELSE f[i].kind # "blank"

Outputs(f) == {i \in 1..Len(f) : IsOutput(f, i)}
Headers(f) == {i \in 1..Len(f) : IsHeader(f, i)}
Raw(f, lines) == SumFunctionOnSet([i \in 1..Len(f) |-> f[i].raw], lines)

WithinBudgets(f) ==
    /\ Cardinality(Headers(f)) <= MaxFields
    /\ Cardinality(Outputs(f)) <= MaxCommandOutputLines
    /\ Raw(f, Outputs(f)) <= MaxCommandOutputBytes
    /\ Raw(f, (1..Len(f)) \ Outputs(f)) <= MaxMessageBytes

\* A whole message: fields and a blank line, or a legacy command, whose output
\* ends at its first terminator.
IsMessage(f) ==
    /\ Len(f) >= 2 /\ f[Len(f)].kind = "blank"
    /\ IF Legacy(f)
       THEN Terminates(f, Len(f) - 1)
       ELSE \A i \in 1..(Len(f) - 1) : IsField(f[i])

----------------------------------------------------------------------------
(* Properties                                                              *)

LimitErrors == {"TooManyFields", "TooManyOutputLines", "MessageTooLarge", "OutputTooLarge"}

\* A call that refuses a message for its size is right, a message that keeps
\* every limit exactly is not refused, and none that exceeds one goes on:
\* command output has its own budget, and padding is charged to no message,
\* but a run of it is bounded however many calls were cancelled behind it.
BudgetsExact ==
    /\ place \notin {"idle", "banner", "start"} => WithinBudgets(frame)
    /\ err = "ok" => frame = <<>> \/ WithinBudgets(frame)
    /\ err \in LimitErrors => ~WithinBudgets(frame) \/ run > MaxMessageBytes
    /\ err # "MessageTooLarge" => run <= MaxMessageBytes

\* A message that is returned has the shape of one: no line of raw output is
\* taken for framing, and no framing for output.
FramesWhole == err = "ok" => frame = <<>> \/ IsMessage(frame)

\* A deadline that finds the reader clean has dropped nothing, so that the next
\* call resumes at a message boundary; and the end of the stream is clean
\* exactly if nothing was cut off.
NothingTorn ==
    /\ err = "Timeout" => (torn <=> dirty)
    /\ err = "EOF" => ~torn
    /\ err = "UnexpectedEOF" => torn

----------------------------------------------------------------------------
(* The inductive invariant of module FramerProofs                          *)

WireTypeOK ==
    /\ buf \in Seq(Lines) /\ frame \in Seq(Lines)
    /\ msg \in [nFields : Nat, msgBytes : Nat, nOutput : Nat, outBytes : Nat]
    /\ pad \in Nat /\ run = pad
    /\ dirty \in BOOLEAN /\ torn \in BOOLEAN
    /\ place \in {"idle", "banner", "start", "fields", "headers", "payload", "closing"}

\* During a call nothing is torn, and the reader is clean exactly at a boundary
\* with nothing behind it; a call that has failed has torn the stream, or has
\* read nothing.
BoundaryPart ==
    /\ place # "idle" => err = "none" /\ ~torn
    /\ place # "idle" /\ hook # "padding" => (dirty <=> ~Between \/ Buffered)
    /\ hook = "padding" => place = "start" /\ ~dirty
    /\ err \in {"none", "ok"} => ~torn
    /\ err \in LimitErrors => torn
    /\ NothingTorn

\* What the place of the parser says of the lines it has taken.
Shape(p, f) ==
    /\ p = "banner" => f = <<>>
    /\ p = "fields" => f # <<>> /\ ~Legacy(f) /\ \A i \in 1..Len(f) : IsField(f[i])
    /\ p = "headers" => Legacy(f) /\ \A i \in 2..Len(f) : f[i].kind = "trailer"
    /\ p = "payload" =>
          /\ Legacy(f) /\ \E b \in 2..Len(f) : OutputBegins(f, b)
          /\ \A i \in 2..Len(f) : f[i].kind \notin {"end", "glued"}
    /\ p = "closing" => Legacy(f) /\ Terminates(f, Len(f))

ShapePart == Shape(place, frame) /\ FramesWhole

\* The budgets of the message are the measures of its lines.
Measures(m, f) ==
    /\ m.nFields = Cardinality(Headers(f)) /\ m.nOutput = Cardinality(Outputs(f))
    /\ m.msgBytes = Raw(f, (1..Len(f)) \ Outputs(f))
    /\ m.outBytes = Raw(f, Outputs(f))

BudgetPart ==
    /\ place \notin {"idle", "banner", "start"} => Measures(msg, frame)
    /\ BudgetsExact

WireInductive == WireTypeOK /\ BoundaryPart /\ ShapePart /\ BudgetPart
=============================================================================
