--------------------------- MODULE HandlesProofs ---------------------------
(***************************************************************************)
(* Proofs of the properties of a handle, for any number of consumers.      *)
(***************************************************************************)
EXTENDS HandlesSafety, SequenceTheorems, TLAPS

LEMMA ControlStart == HandlesInit => ControlPart
<1> SUFFICES ASSUME HandlesInit PROVE ControlPart
  OBVIOUS
<1>1. HandlesTypeOK
  <2>1. Terminal \in BOOLEAN
    BY DEF Terminal
  <2> QED BY <2>1 DEF HandlesInit, HandlesTypeOK
<1>2. PhasePart /\ ResultPublished
  BY HandlesAssumption DEF HandlesInit, PhasePart, ResultPublished, Terminal
<1>3. OneConsumer /\ NoLostToken
  BY DEF HandlesInit, OneConsumer, NoLostToken, Inside
<1>4. CompletionKept
  BY HandlesAssumption DEF HandlesInit, CompletionKept, Terminal, HasCompletion
<1>5. IterationCloses
  BY DEF HandlesInit, IterationCloses
<1> QED BY <1>1, <1>2, <1>3, <1>4, <1>5 DEF ControlPart

\* The reader and the closers.
LEMMA ControlOutside ==
    ASSUME ControlPart,
           \/ \E m \in Messages : RouteItem(m)
           \/ RouteEnd \/ ClientDies \/ AppCloses
    PROVE  ControlPart'
<1>1. CASE \E m \in Messages : RouteItem(m)
  <2> PICK m \in Messages : RouteItem(m)
    BY <1>1
  <2>1. CASE Appends(m) /\ notify' = TRUE /\ UNCHANGED <<terminal, err>>
    BY <2>1, HandlesAssumption DEF RouteItem, Appends, readerFrame,
        ControlPart, HandlesTypeOK, PhasePart, OneConsumer, ResultPublished, NoLostToken,
        CompletionKept, IterationCloses, Inside, Iterating, Terminal, HasCompletion,
        branch, handle, flags, world, consumers, histories
  <2>2. CASE ~isList /\ AppendsLast(m) /\ Commit("None")
    BY <2>2, HandlesAssumption DEF RouteItem, AppendsLast, Commit, readerFrame,
        ControlPart, HandlesTypeOK, PhasePart, OneConsumer, ResultPublished, NoLostToken,
        CompletionKept, IterationCloses, Inside, Iterating, Terminal, HasCompletion,
        branch, handle, flags, world, consumers, histories
  <2> QED BY <2>1, <2>2 DEF RouteItem
<1>2. CASE RouteEnd
  BY <1>2, HandlesAssumption DEF RouteEnd, EndsCleanly, EndsBy, Commit, readerFrame,
     ControlPart, HandlesTypeOK, PhasePart, OneConsumer, ResultPublished, NoLostToken,
     CompletionKept, IterationCloses, Inside, Iterating, Terminal, HasCompletion,
     branch, handle, flags, world, consumers, histories
<1>3. CASE ClientDies
  BY <1>3, HandlesAssumption DEF ClientDies, EndsBy, Commit, readerFrame,
     ControlPart, HandlesTypeOK, PhasePart, OneConsumer, ResultPublished, NoLostToken,
     CompletionKept, IterationCloses, Inside, Iterating, Terminal, HasCompletion,
     branch, handle, flags, world, consumers, histories
<1>4. CASE AppCloses
  BY <1>4, HandlesAssumption DEF AppCloses, CloseBranch, KeepCompletion, HasCompletion,
     Closes, Commit, ControlPart, HandlesTypeOK, PhasePart, OneConsumer,
     ResultPublished, NoLostToken, CompletionKept, IterationCloses, Inside, Iterating,
     Terminal, branch, handle, flags, world, consumers, histories
<1> QED BY <1>1, <1>2, <1>3, <1>4

\* A consumer.
LEMMA ControlConsumer ==
    ASSUME ControlPart, NEW c \in Consumers,
           \/ \E m \in {"Next", "All"} : Call(c, m)
           \/ Consume(c) \/ ContextEnds(c) \/ LoopBody(c)
    PROVE  ControlPart'
<1>1. CASE \E m \in {"Next", "All"} : Call(c, m)
  <2> PICK m \in {"Next", "All"} : Call(c, m)
    BY <1>1
  <2>1. CASE Claim /\ Goto(c, IF m = "Next" THEN "taking" ELSE "adapting")
    BY <2>1, HandlesAssumption DEF Call, Claim, Goto,
        ControlPart, HandlesTypeOK, PhasePart, OneConsumer, ResultPublished, NoLostToken,
        CompletionKept, IterationCloses, Inside, Iterating, Terminal, HasCompletion,
        branch, handle, flags, world, consumers, histories
  <2>2. CASE busy /\ UNCHANGED <<pc, busy>>
    BY <2>2, HandlesAssumption DEF Call,
        ControlPart, HandlesTypeOK, PhasePart, OneConsumer, ResultPublished, NoLostToken,
        CompletionKept, IterationCloses, Inside, Iterating, Terminal, HasCompletion,
        branch, handle, flags, world, consumers, histories
  <2> QED BY <2>1, <2>2 DEF Call
<1>2. CASE Adapt(c)
  BY <1>2, HandlesAssumption DEF Adapt, Goto, Result, ControlPart, HandlesTypeOK,
     PhasePart, OneConsumer, ResultPublished, NoLostToken, CompletionKept,
     IterationCloses, Inside, Iterating, Terminal, HasCompletion, branch, handle, flags,
     world, consumers, histories
<1>3. CASE TakeClosed(c)
  BY <1>3, HandlesAssumption DEF TakeClosed, Returns, ClosedResult, Goto, Result,
     ControlPart, HandlesTypeOK, PhasePart, OneConsumer, ResultPublished, NoLostToken,
     CompletionKept, IterationCloses, Inside, Iterating, Terminal, HasCompletion,
     branch, handle, flags, world, consumers, histories
<1>4. CASE TakeItem(c)
  BY <1>4, HandlesAssumption DEF TakeItem, Taken, Returns, Goto, Result,
     ControlPart, HandlesTypeOK, PhasePart, OneConsumer, ResultPublished, NoLostToken,
     CompletionKept, IterationCloses, Inside, Iterating, Terminal, HasCompletion,
     branch, handle, flags, world, consumers, histories
<1>5. CASE TakeEnd(c)
  BY <1>5, HandlesAssumption DEF TakeEnd, Commit, Returns, Goto, Result,
     ControlPart, HandlesTypeOK, PhasePart, OneConsumer, ResultPublished, NoLostToken,
     CompletionKept, IterationCloses, Inside, Iterating, Terminal, HasCompletion,
     branch, handle, flags, world, consumers, histories
<1>6. CASE TakeEmpty(c)
  BY <1>6, HandlesAssumption DEF TakeEmpty, Goto, ControlPart, HandlesTypeOK,
     PhasePart, OneConsumer, ResultPublished, NoLostToken, CompletionKept,
     IterationCloses, Inside, Iterating, Terminal, HasCompletion, branch, handle, flags,
     world, consumers, histories
<1>7. CASE Wake(c)
  BY <1>7, HandlesAssumption DEF Wake, Goto, ControlPart, HandlesTypeOK, PhasePart,
     OneConsumer, ResultPublished, NoLostToken, CompletionKept, IterationCloses, Inside,
     Iterating, Terminal, HasCompletion, branch, handle, flags, world, consumers,
     histories
<1>8. CASE ContextEnds(c)
  BY <1>8, HandlesAssumption DEF ContextEnds, Returns, Goto, Result, ControlPart,
     HandlesTypeOK, PhasePart, OneConsumer, ResultPublished, NoLostToken, CompletionKept,
     IterationCloses, Inside, Iterating, Terminal, HasCompletion, branch, handle, flags,
     world, consumers, histories
<1>9. CASE LoopBody(c)
  BY <1>9, HandlesAssumption DEF LoopBody, Goto, ControlPart, HandlesTypeOK,
     PhasePart, OneConsumer, ResultPublished, NoLostToken, CompletionKept,
     IterationCloses, Inside, Iterating, Terminal, HasCompletion, branch, handle, flags,
     world, consumers, histories
<1>10. CASE Closing(c)
  BY <1>10, HandlesAssumption DEF Closing, AdapterCloses, CloseBranch, KeepCompletion,
     HasCompletion, Closes, Commit, Goto, ControlPart, HandlesTypeOK, PhasePart,
     OneConsumer, ResultPublished, NoLostToken, CompletionKept, IterationCloses, Inside,
     Iterating, Terminal, branch, handle, flags, world, consumers, histories
<1>11. CASE Leave(c)
  BY <1>11, HandlesAssumption DEF Leave, Goto, ControlPart, HandlesTypeOK, PhasePart,
     OneConsumer, ResultPublished, NoLostToken, CompletionKept, IterationCloses, Inside,
     Iterating, Terminal, HasCompletion, branch, handle, flags, world, consumers,
     histories
<1> QED BY <1>1, <1>2, <1>3, <1>4, <1>5, <1>6, <1>7, <1>8, <1>9, <1>10, <1>11 DEF
   Consume, Take

\* No step of the handle's users leaves it in disorder.
LEMMA ControlStep ==
    ControlPart /\ [HandlesNext]_handleVars => ControlPart'
<1> SUFFICES ASSUME ControlPart, [HandlesNext]_handleVars PROVE ControlPart'
  OBVIOUS
<1>1. CASE UNCHANGED handleVars
  BY <1>1 DEF handleVars,
     ControlPart, HandlesTypeOK, PhasePart, OneConsumer, ResultPublished, NoLostToken,
     CompletionKept, IterationCloses, Inside, Iterating, Terminal, HasCompletion,
     branch, handle, flags, world, consumers, histories
<1>2. CASE HandlesNext
  BY <1>2, ControlOutside, ControlConsumer DEF HandlesNext
<1> QED BY <1>1, <1>2

\* The inductive invariant holds in every reachable state of a handle.
THEOREM HandlesControl == HandlesSpec => []ControlPart
  BY ControlStart, ControlStep, PTL DEF HandlesSpec

\* No wake-up is lost, although the token is set under the session lock and
\* awaited outside it, and any number of goroutines use the handle.
THEOREM NoTokenIsLost == HandlesSpec => []NoLostToken
<1>1. ControlPart => NoLostToken
  BY DEF ControlPart
<1> QED BY <1>1, HandlesControl, PTL

\* The consumer slot excludes every second consumer, loop body included.
THEOREM ConsumersExclude == HandlesSpec => []OneConsumer
<1>1. ControlPart => OneConsumer
  BY DEF ControlPart
<1> QED BY <1>1, HandlesControl, PTL

\* A list that completed keeps its completion through Close and client death.
THEOREM CompletionStays == HandlesSpec => []CompletionKept
<1>1. ControlPart => CompletionKept
  BY DEF ControlPart
<1> QED BY <1>1, HandlesControl, PTL

\* An open handle shows an end exactly when its branch has ended, by its reason.
THEOREM ResultIsPublished == HandlesSpec => []ResultPublished
<1>1. ControlPart => ResultPublished
  BY DEF ControlPart
<1> QED BY <1>1, HandlesControl, PTL

\* Whatever way a loop body takes out of an iteration, the handle is closed.
THEOREM IterationsClose == HandlesSpec => []IterationCloses
<1>1. ControlPart => IterationCloses
  BY DEF ControlPart
<1> QED BY <1>1, HandlesControl, PTL

----------------------------------------------------------------------------
(* The stream                                                              *)

\* Queueing at the tail.
LEMMA AppendMoves ==
    ASSUME NEW S, NEW s \in Seq(S), NEW t \in Seq(S), NEW m \in S
    PROVE  s \o Append(t, m) = Append(s \o t, m)
<1> DEFINE u == s \o Append(t, m)
           v == Append(s \o t, m)
<1>1. /\ u \in Seq(S) /\ Len(u) = Len(s) + Len(t) + 1
      /\ v \in Seq(S) /\ Len(v) = Len(s) + Len(t) + 1
  BY AppendProperties, ConcatProperties, LenProperties
<1>2. /\ Len(s) \in Nat /\ Len(t) \in Nat
      /\ s \o t \in Seq(S) /\ Len(s \o t) = Len(s) + Len(t)
  BY ConcatProperties, LenProperties
<1>3. ASSUME NEW i \in 1 .. Len(s) + Len(t) PROVE u[i] = v[i]
  <2>1. v[i] = (s \o t)[i]
    BY <1>2, AppendProperties
  <2>2. u[i] = IF i <= Len(s) THEN s[i] ELSE Append(t, m)[i - Len(s)]
    BY <1>2, AppendProperties, ConcatProperties
  <2>3. i > Len(s) => Append(t, m)[i - Len(s)] = t[i - Len(s)]
    BY <1>2, AppendProperties
  <2> QED BY <1>2, <2>1, <2>2, <2>3, ConcatProperties
<1>4. u[Len(s) + Len(t) + 1] = m /\ v[Len(s) + Len(t) + 1] = m
  BY <1>2, AppendProperties, ConcatProperties
<1>5. \A i \in 1 .. Len(u) : u[i] = v[i]
  BY <1>1, <1>2, <1>3, <1>4
<1> QED BY <1>1, <1>5, SeqEqual

\* Taking from the head.
LEMMA HeadMoves ==
    ASSUME NEW S, NEW s \in Seq(S), NEW t \in Seq(S), t # <<>>
    PROVE  Append(s, Head(t)) \o Tail(t) = s \o t
<1> DEFINE u == Append(s, Head(t)) \o Tail(t)
           v == s \o t
<1>1. /\ u \in Seq(S) /\ Len(u) = Len(s) + Len(t)
      /\ v \in Seq(S) /\ Len(v) = Len(s) + Len(t)
  BY AppendProperties, ConcatProperties, LenProperties, HeadTailProperties
<1>2. \A i \in 1 .. Len(u) : u[i] = v[i]
  BY <1>1, AppendProperties, ConcatProperties, LenProperties, HeadTailProperties
<1> QED BY <1>1, <1>2, SeqEqual

LEMMA PrefixByElements ==
    ASSUME NEW S, NEW s \in Seq(S), NEW t \in Seq(S), Len(s) <= Len(t)
    PROVE  IsPrefix(s, t) <=> \A i \in 1 .. Len(s) : s[i] = t[i]
<1>1. Len(s) \in Nat /\ Len(t) \in Nat
  BY LenProperties
<1>2. /\ SubSeq(t, 1, Len(s)) \in Seq(S) /\ Len(SubSeq(t, 1, Len(s))) = Len(s)
      /\ \A i \in 1 .. Len(s) : SubSeq(t, 1, Len(s))[i] = t[i]
  BY <1>1, ElementOfSeq, SubSeqProperties
<1>3. SubSeq(s, 1, Len(s)) = s
  BY SubSeqFull
<1> QED BY <1>1, <1>2, <1>3, SeqEqual DEF IsPrefix

LEMMA PrefixOfConcat ==
    ASSUME NEW S, NEW s \in Seq(S), NEW t \in Seq(S)
    PROVE  IsPrefix(s, s \o t)
<1>1. s \o t \in Seq(S) /\ Len(s) <= Len(s \o t)
  BY ConcatProperties, LenProperties
<1>2. \A i \in 1 .. Len(s) : s[i] = (s \o t)[i]
  BY ConcatProperties, LenProperties
<1> QED BY <1>1, <1>2, PrefixByElements

LEMMA PrefixOfAppend ==
    ASSUME NEW S, NEW s \in Seq(S), NEW t \in Seq(S), NEW m \in S, IsPrefix(s, t)
    PROVE  IsPrefix(s, Append(t, m))
<1>1. Len(s) \in Nat /\ Len(t) \in Nat /\ Len(s) <= Len(t)
  BY LenProperties DEF IsPrefix
<1>2. \A i \in 1 .. Len(s) : s[i] = t[i]
  BY <1>1, PrefixByElements
<1>3. /\ Append(t, m) \in Seq(S) /\ Len(s) <= Len(Append(t, m))
      /\ \A i \in 1 .. Len(s) : s[i] = Append(t, m)[i]
  BY <1>1, <1>2, AppendProperties
<1> QED BY <1>3, PrefixByElements

LEMMA StreamStart == HandlesInit => StreamPart
<1> SUFFICES ASSUME HandlesInit PROVE StreamPart
  OBVIOUS
<1>1. q \in Seq(Messages) /\ sent = q /\ got = <<>>
  <2>1. \A m \in Messages : <<m>> \in Seq(Messages)
    OBVIOUS
  <2> QED BY <2>1, EmptySeq DEF HandlesInit
<1>2. got \o q = sent /\ InOrder
  <2>1. <<>> \in Seq(Messages) /\ <<>> \o q = q
    BY <1>1, ConcatEmptySeq, EmptySeq
  <2>2. IsPrefix(<<>>, <<>> \o q)
    BY <1>1, <2>1, PrefixOfConcat
  <2> QED BY <1>1, <2>1, <2>2 DEF InOrder
<1>3. opened /\ \A c \in Consumers : result[c] # "EOF"
  BY DEF HandlesInit
<1>4. result \in [Consumers -> {"none", "item", "EOF", "error", "context", "busy", "used"}]
  BY DEF HandlesInit
<1> QED BY <1>1, <1>2, <1>3, <1>4, EmptySeq DEF StreamPart, EofHonest

\* A step that neither queues nor takes anything.
LEMMA StreamStill ==
    ASSUME ControlPart, ControlPart', StreamPart, UNCHANGED <<sent, got>>,
           q' \in Seq(Messages),
           phase' \in {"active", "draining"} => q' = q /\ phase \in {"active", "draining"},
           ~opened' /\ err' = "None" => got = sent \/ dropped',
           result' \in [Consumers -> {"none", "item", "EOF", "error", "context", "busy", "used"}],
           \A c \in Consumers : result'[c] = "EOF" =>
               terminal' /\ err' = "None" /\ (got = sent \/ dropped')
    PROVE  StreamPart'
  BY DEF StreamPart, EofHonest, InOrder

\* Close discards the queue and says so.
LEMMA StreamClose ==
    ASSUME ControlPart, ControlPart', StreamPart, CloseBranch, UNCHANGED <<sent, got>>,
           result' = result
    PROVE  StreamPart'
<1> USE DEF ControlPart, HandlesTypeOK, PhasePart, ResultPublished, Terminal
<1>1. CASE ~opened
  BY <1>1, StreamStill DEF CloseBranch, branch, handle, StreamPart, EofHonest
<1>2. CASE opened
  <2>1. /\ phase' = "none" /\ q' = <<>> /\ dropped' = (dropped \/ q # <<>>)
        /\ IF terminal THEN UNCHANGED <<terminal, err>> ELSE terminal' = TRUE /\ err' = "Closed"
    BY <1>2 DEF CloseBranch, Closes, Commit
  <2>2. terminal /\ err = "None" /\ q = <<>> => got = sent
    BY <1>2, ConcatEmptySeq DEF StreamPart
  <2> QED BY <1>2, <2>1, <2>2, StreamStill, EmptySeq DEF StreamPart, EofHonest
<1> QED BY <1>1, <1>2

LEMMA StreamOutside ==
    ASSUME ControlPart, ControlPart', StreamPart,
           \/ \E m \in Messages : RouteItem(m)
           \/ RouteEnd \/ ClientDies \/ AppCloses
    PROVE  StreamPart'
<1> USE DEF ControlPart, HandlesTypeOK, PhasePart, ResultPublished, Terminal
<1>1. CASE \E m \in Messages : RouteItem(m)
  <2> PICK m \in Messages : RouteItem(m)
    BY <1>1
  <2>1. /\ phase = "active" /\ q' = Append(q, m) /\ sent' = Append(sent, m)
        /\ UNCHANGED <<opened, got, result>> /\ phase' \in {"active", "draining"}
    BY DEF RouteItem, Appends, AppendsLast, readerFrame, consumers
  <2>2. q' \in Seq(Messages) /\ sent' \in Seq(Messages)
    BY <2>1, AppendProperties DEF StreamPart
  <2>3. got \o q' = sent'
    BY <2>1, AppendMoves DEF StreamPart
  <2>4. InOrder'
    BY <2>1, PrefixOfAppend DEF StreamPart, InOrder
  <2>5. \A c \in Consumers : result[c] # "EOF"
    BY <2>1 DEF StreamPart, EofHonest
  <2> QED BY <2>1, <2>2, <2>3, <2>4, <2>5 DEF StreamPart, EofHonest
<1>2. CASE RouteEnd
  <2>1. q' \in Seq(Messages)
    BY <1>2, EmptySeq DEF RouteEnd, EndsCleanly, EndsBy, StreamPart
  <2> QED BY <1>2, <2>1, StreamStill
      DEF RouteEnd, EndsCleanly, EndsBy, Commit, readerFrame, consumers, StreamPart, EofHonest
<1>3. CASE ClientDies
  <2>1. q' \in Seq(Messages)
    BY <1>3, EmptySeq DEF ClientDies, EndsBy, branch, StreamPart
  <2> QED BY <1>3, <2>1, StreamStill, HandlesAssumption
      DEF ClientDies, EndsBy, Commit, branch, readerFrame, consumers, StreamPart, EofHonest
<1>4. CASE AppCloses
  <2>1. CloseBranch /\ UNCHANGED <<result, sent, got>>
    BY <1>4 DEF AppCloses, consumers
  <2> QED BY <2>1, StreamClose DEF StreamPart, EofHonest
<1> QED BY <1>1, <1>2, <1>3, <1>4

LEMMA StreamConsumer ==
    ASSUME ControlPart, ControlPart', StreamPart, NEW c \in Consumers,
           \/ \E m \in {"Next", "All"} : Call(c, m)
           \/ Consume(c) \/ ContextEnds(c) \/ LoopBody(c)
    PROVE  StreamPart'
<1> USE DEF ControlPart, HandlesTypeOK, PhasePart, ResultPublished, Terminal
<1>1. CASE \/ \E m \in {"Next", "All"} : Call(c, m)
           \/ Adapt(c) \/ ContextEnds(c)
  <2>1. PICK r \in {"none", "busy", "used", "context", result[c]} :
            result' = [result EXCEPT ![c] = r]
    <3>1. result = [result EXCEPT ![c] = result[c]]
      BY DEF StreamPart
    <3>2. CASE \E m \in {"Next", "All"} : Call(c, m)
      BY <3>1, <3>2 DEF Call, Result, consumers
    <3>3. CASE Adapt(c) \/ ContextEnds(c)
      BY <3>1, <3>3 DEF Adapt, ContextEnds, Returns, Result, consumers
    <3> QED BY <1>1, <3>2, <3>3
  <2>2. UNCHANGED <<branch, handle, histories>>
    BY <1>1 DEF Call, Adapt, ContextEnds
  <2>3. /\ result' \in [Consumers -> {"none", "item", "EOF", "error", "context", "busy", "used"}]
        /\ \A d \in Consumers : result'[d] = "EOF" => result[d] = "EOF"
    BY <2>1 DEF StreamPart
  <2> QED BY <2>2, <2>3, StreamStill DEF branch, handle, histories, StreamPart, EofHonest
<1>2. CASE TakeEmpty(c) \/ Wake(c) \/ LoopBody(c) \/ Leave(c)
  <2>1. UNCHANGED <<branch, opened, terminal, err, result, histories>>
    BY <1>2 DEF TakeEmpty, Wake, LoopBody, Leave, handle
  <2> QED BY <2>1, StreamStill DEF branch, histories, StreamPart, EofHonest
<1>3. CASE Closing(c)
  <2>1. CloseBranch /\ UNCHANGED <<sent, got, result>>
    BY <1>3 DEF Closing, AdapterCloses
  <2> QED BY <2>1, StreamClose DEF StreamPart, EofHonest
<1>4. CASE TakeClosed(c)
  <2>1. /\ ~opened /\ UNCHANGED <<branch, handle, histories>>
        /\ result' = [result EXCEPT ![c] = IF err = "None" THEN "EOF" ELSE "error"]
    BY <1>4 DEF TakeClosed, Returns, Result, ClosedResult
  <2> QED BY <2>1, StreamStill DEF branch, handle, histories, StreamPart, EofHonest
<1>5. CASE TakeEnd(c)
  <2>1. /\ opened /\ terminal /\ UNCHANGED <<branch, opened, terminal, err, histories>>
        /\ \/ result' = [result EXCEPT ![c] = "error"]
           \/ phase = "draining" /\ q = <<>> /\ result' = [result EXCEPT ![c] = "EOF"]
    BY <1>5 DEF TakeEnd, Returns, Result, Commit
  <2>2. phase = "draining" /\ q = <<>> => got = sent
    BY ConcatEmptySeq DEF StreamPart
  <2> QED BY <2>1, <2>2, StreamStill DEF branch, histories, StreamPart, EofHonest
<1>6. CASE TakeItem(c)
  <2>1. /\ opened /\ phase \in {"active", "draining"} /\ q # <<>> /\ q' = Tail(q)
        /\ got' = Append(got, Head(q))
        /\ UNCHANGED <<phase, opened, terminal, err, sent, dropped>>
        /\ result' = [result EXCEPT ![c] = "item"]
    BY <1>6 DEF TakeItem, Taken, Returns, Result, handle
  <2>2. q' \in Seq(Messages) /\ got' \in Seq(Messages)
    BY <2>1, HeadTailProperties, AppendProperties DEF StreamPart
  <2>3. got' \o q' = sent'
    BY <2>1, HeadMoves DEF StreamPart
  <2>4. InOrder'
    BY <2>2, <2>3, PrefixOfConcat DEF InOrder
  <2>5. \A d \in Consumers : result[d] = "EOF" => dropped
    BY <2>1, ConcatEqualIffEmpty DEF StreamPart, EofHonest
  <2> QED BY <2>1, <2>2, <2>3, <2>4, <2>5 DEF StreamPart, EofHonest
<1> QED BY <1>1, <1>2, <1>3, <1>4, <1>5, <1>6 DEF Consume, Take

\* The inductive invariant holds in every reachable state of a handle.
THEOREM HandlesInvariant == HandlesSpec => []HandlesInductive
<1>1. HandlesInit => StreamPart
  BY StreamStart
<1>2. ControlPart /\ ControlPart' /\ StreamPart /\ [HandlesNext]_handleVars => StreamPart'
  <2> SUFFICES ASSUME ControlPart, ControlPart', StreamPart, [HandlesNext]_handleVars
               PROVE  StreamPart'
    OBVIOUS
  <2>1. CASE UNCHANGED handleVars
    BY <2>1 DEF handleVars, branch, handle, consumers, histories,
                StreamPart, EofHonest, InOrder
  <2>2. CASE HandlesNext
    BY <2>2, StreamOutside, StreamConsumer DEF HandlesNext
  <2> QED BY <2>1, <2>2
<1>3. HandlesInductive <=> ControlPart /\ StreamPart
  BY DEF HandlesInductive
<1> QED BY <1>1, <1>2, <1>3, HandlesControl, PTL DEF HandlesSpec

\* Messages are handed out in the order they were queued, and none twice.
THEOREM StreamInOrder == HandlesSpec => []InOrder
<1>1. HandlesInductive => InOrder
  BY DEF HandlesInductive, StreamPart
<1> QED BY <1>1, HandlesInvariant, PTL

\* An end of the stream never hides a failure, and without a Close that
\* discarded something it comes after the last message.
THEOREM EofIsHonest == HandlesSpec => []EofHonest
<1>1. HandlesInductive => EofHonest
  BY DEF HandlesInductive, StreamPart
<1> QED BY <1>1, HandlesInvariant, PTL

\* The first terminal result is what Err reports for ever.
THEOREM ResultIsStable == HandlesSpec => StableResult
<1> DEFINE Kept == terminal => terminal' /\ err' = err
<1>1. ASSUME ControlPart, [HandlesNext]_handleVars PROVE Kept \/ UNCHANGED handleVars
  <2>1. CASE UNCHANGED handleVars
    BY <2>1
  <2>2. CASE \E m \in Messages : RouteItem(m)
    BY <2>2 DEF RouteItem, Commit
  <2>3. CASE RouteEnd \/ ClientDies
    BY <2>3 DEF RouteEnd, ClientDies, Commit
  <2>4. CASE AppCloses
    BY <2>4 DEF AppCloses, CloseBranch, Commit, handle
  <2>5. ASSUME NEW c \in Consumers,
               \/ \E m \in {"Next", "All"} : Call(c, m)
               \/ Consume(c) \/ ContextEnds(c) \/ LoopBody(c)
        PROVE  Kept
    <3>1. CASE \/ \E m \in {"Next", "All"} : Call(c, m)
               \/ Adapt(c) \/ ContextEnds(c) \/ LoopBody(c) \/ Leave(c) \/ Wake(c)
      BY <3>1 DEF Call, Adapt, ContextEnds, LoopBody, Leave, Wake, handle
    <3>2. CASE Take(c)
      BY <3>2 DEF Take, TakeClosed, TakeItem, TakeEnd, TakeEmpty, Commit, handle
    <3>3. CASE Closing(c)
      BY <3>3 DEF Closing, AdapterCloses, CloseBranch, Commit, handle
    <3> QED BY <2>5, <3>1, <3>2, <3>3 DEF Consume
  <2> QED BY <1>1, <2>1, <2>2, <2>3, <2>4, <2>5 DEF HandlesNext
<1> QED BY <1>1, HandlesControl, PTL DEF HandlesSpec, StableResult
=============================================================================
