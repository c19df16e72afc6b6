----------------------------- MODULE DialProofs -----------------------------
(***************************************************************************)
(* Proofs about the test server and its clients: for every set of          *)
(* connections and callers, every script and every room on the             *)
(* connections, the invariants of module DialSafety hold.                  *)
(***************************************************************************)
EXTENDS DialSafety, FiniteSetTheorems, TLAPS

----------------------------------------------------------------------------
(* Sequences                                                               *)

\* What has arrived is cut short.
LEMMA CutSeq ==
    ASSUME NEW S, NEW s \in Seq(S), NEW n \in 0..Len(s)
    PROVE  /\ SubSeq(s, 1, n) \in Seq(S) /\ Len(SubSeq(s, 1, n)) = n
           /\ \A i \in 1..n : SubSeq(s, 1, n)[i] = s[i]
  OBVIOUS

\* A read takes the head.
LEMMA TailSeq ==
    ASSUME NEW S, NEW s \in Seq(S), s # <<>>
    PROVE  /\ Head(s) \in S /\ Head(s) = s[1] /\ Len(s) \in Nat \ {0}
           /\ Tail(s) \in Seq(S) /\ Len(Tail(s)) = Len(s) - 1
           /\ \A i \in 1..Len(Tail(s)) : i + 1 \in 1..Len(s) /\ Tail(s)[i] = s[i + 1]
           /\ ToSet(Tail(s)) \subseteq ToSet(s)
<1>1. /\ Head(s) \in S /\ Head(s) = s[1] /\ Len(s) \in Nat \ {0}
      /\ Tail(s) \in Seq(S) /\ Len(Tail(s)) = Len(s) - 1
      /\ \A i \in 1..Len(Tail(s)) : i + 1 \in 1..Len(s) /\ Tail(s)[i] = s[i + 1]
  OBVIOUS
<1>2. ToSet(Tail(s)) \subseteq ToSet(s)
  <2>1. DOMAIN Tail(s) = 1..Len(Tail(s)) /\ DOMAIN s = 1..Len(s)
    BY <1>1
  <2> QED BY <1>1, <2>1 DEF ToSet
<1> QED BY <1>1, <1>2

\* A write appends.
LEMMA AppendSeq ==
    ASSUME NEW S, NEW s \in Seq(S), NEW x \in S
    PROVE  /\ Append(s, x) \in Seq(S) /\ Len(Append(s, x)) = Len(s) + 1
           /\ Append(s, x)[Len(s) + 1] = x
           /\ \A i \in 1..Len(s) : Append(s, x)[i] = s[i]
  OBVIOUS

\* A snapshot of sessions names sessions only.
LEMMA SnapshotSeq ==
    ASSUME NEW S \in SUBSET Conns, NEW live \in SetToSeqs(S)
    PROVE  live \in Seq(Conns) /\ ToSet(live) \subseteq S
<1>1. IsFiniteSet(S)
  BY FS_Subset, TestServerAssumption
<1>2. Cardinality(S) \in Nat
  BY <1>1, FS_CardinalityType
<1>3. live \in [1..Cardinality(S) -> S]
  BY DEF SetToSeqs
<1>4. live \in Seq(Conns)
  BY <1>2, <1>3
<1> QED BY <1>3, <1>4 DEF ToSet
----------------------------------------------------------------------------
(* What a session does with a frame                                        *)

\* The lists of steps and of frames the code writes out.
LEMMA ShortSeqs ==
    ASSUME NEW S
    PROVE  /\ <<>> \in Seq(S)
           /\ \A x \in S : <<x>> \in Seq(S)
           /\ \A x, y \in S : <<x, y>> \in Seq(S)
           /\ \A x, y, z \in S : <<x, y, z>> \in Seq(S)
<1>1. <<>> \in Seq(S)
  OBVIOUS
<1>2. \A x \in S : <<x>> \in Seq(S)
  OBVIOUS
<1>3. \A x, y \in S : <<x, y>> \in Seq(S)
  OBVIOUS
<1>4. \A x, y, z \in S : <<x, y, z>> \in Seq(S)
  OBVIOUS
<1> QED BY <1>1, <1>2, <1>3, <1>4

\* The frames the server builds are messages.
LEMMA MessageTypes ==
    /\ Banner \in Messages
    /\ \A id \in Ids, d \in Values : Response(d, id) \in Messages /\ Response(d, id).ids = <<id>>
    /\ \A id \in Ids : Event(<<id>>, Nobody) \in Messages
    /\ \A t \in Callers : Event(<<>>, t) \in Messages
<1>0. /\ <<>> \in Seq(Values) /\ <<>> \in Seq(Ids) /\ "banner" \in Values /\ "event" \in Values
      /\ \A x \in Values : <<x>> \in Seq(Values)
      /\ \A id \in Ids : <<id>> \in Seq(Ids)
  BY ShortSeqs DEF Values
<1>1. \A e, l, r \in Seq(Values), i \in Seq(Ids), t \in Callers \cup {Nobody} :
         [events |-> e, lists |-> l, responses |-> r, ids |-> i, from |-> t] \in Messages
  BY DEF Messages
<1> HIDE DEF Messages, Values
<1>2. Banner \in Messages
  BY <1>0, <1>1 DEF Banner
<1>3. \A id \in Ids, d \in Values : Response(d, id) \in Messages /\ Response(d, id).ids = <<id>>
  <2> TAKE id \in Ids, d \in Values
  <2>1. Response(d, id) = [events |-> <<>>, lists |-> <<>>, responses |-> <<d>>, ids |-> <<id>>,
                           from |-> Nobody]
    BY TestServerAssumption DEF Response
  <2>2. [events |-> <<>>, lists |-> <<>>, responses |-> <<d>>, ids |-> <<id>>, from |-> Nobody] \in Messages
    BY <1>0, <1>1
  <2> QED BY <2>1, <2>2
<1>4. \A id \in Ids : Event(<<id>>, Nobody) \in Messages
  BY <1>0, <1>1 DEF Event
<1>5. \A t \in Callers : Event(<<>>, t) \in Messages
  BY <1>0, <1>1 DEF Event
<1> QED BY <1>2, <1>3, <1>4, <1>5

\* The things a session may have to do.
LEMMA StepTypes ==
    /\ \A m \in Messages : Write(m) \in Steps
    /\ \A b \in BOOLEAN : [do |-> "mark", on |-> b] \in Steps /\ [do |-> "mask", on |-> b] \in Steps
    /\ \A id \in Ids : Violate(id) \in Steps /\ [do |-> "hold", id |-> id] \in Steps
    /\ Do("end") \in Steps /\ Do("hangup") \in Steps
  BY DEF Steps, Write, Violate, Do

\* A step is known by what it does.
LEMMA StepFields ==
    ASSUME NEW step \in Steps
    PROVE  /\ step.do \in {"write", "mark", "mask", "violate", "hold", "end", "hangup"}
           /\ step.do = "write" => step.frame \in Messages
           /\ step.do \in {"mark", "mask"} => step.on \in BOOLEAN
           /\ step.do \in {"violate", "hold"} => step.id \in Ids
  BY DEF Steps

\* The cases of a handler, by its name.
LEMMA HandlerCases ==
    ASSUME NEW f
    PROVE  /\ f.name \in {"ping", "custom"} => Handler(f) = <<Write(Response("success", f.id))>>
           /\ f.name = "logoff" => Handler(f) = <<Write(Response("goodbye", f.id)), Do("hangup")>>
           /\ f.name = "events" =>
                 Handler(f) = <<[do |-> "mask", on |-> EventMaskEnabled(f.mask)],
                                Write(Response("success", f.id))>>
           /\ f.name = "status" =>
                 Handler(f) = <<Write(Response("success", f.id)), Write(Event(<<f.id>>, Nobody))>>
           /\ f.name = "hold" => Handler(f) = <<[do |-> "hold", id |-> f.id]>>
  BY DEF Handler

\* What dispatch and authenticate ask for are steps.
LEMMA DispatchTypes ==
    ASSUME NEW f \in Requests, handlers \subseteq HandlerNames, NEW issued
    PROVE  Dispatch(f) \in Seq(Steps) /\ Authenticate(f, issued) \in Seq(Steps)
<1>1. f.id \in Ids
  BY DEF Requests
<1>2. /\ Response("success", f.id) \in Messages /\ Response("error", f.id) \in Messages
      /\ Response("goodbye", f.id) \in Messages /\ Event(<<f.id>>, Nobody) \in Messages
  BY <1>1, MessageTypes DEF Values
<1>3. EventMaskEnabled(f.mask) \in BOOLEAN
  BY DEF EventMaskEnabled
<1>4. /\ Write(Response("success", f.id)) \in Steps /\ Write(Response("error", f.id)) \in Steps
      /\ Write(Response("goodbye", f.id)) \in Steps /\ Write(Event(<<f.id>>, Nobody)) \in Steps
      /\ [do |-> "mark", on |-> EventMaskEnabled(f.mask)] \in Steps
      /\ [do |-> "mask", on |-> EventMaskEnabled(f.mask)] \in Steps
      /\ Violate(f.id) \in Steps /\ [do |-> "hold", id |-> f.id] \in Steps
      /\ Do("end") \in Steps /\ Do("hangup") \in Steps
  BY <1>1, <1>2, <1>3, StepTypes
<1>5. f.name \in HandlerNames => Handler(f) \in Seq(Steps)
  <2>1. f.name \in {"ping", "custom"} => Handler(f) \in Seq(Steps)
    BY <1>4, ShortSeqs, HandlerCases
  <2>2. f.name = "logoff" => Handler(f) \in Seq(Steps)
    BY <1>4, ShortSeqs, HandlerCases
  <2>3. f.name = "events" => Handler(f) \in Seq(Steps)
    <3>1. <<[do |-> "mask", on |-> EventMaskEnabled(f.mask)], Write(Response("success", f.id))>>
             \in Seq(Steps)
      BY <1>4, ShortSeqs
    <3> QED BY <3>1, HandlerCases
  <2>4. f.name = "status" => Handler(f) \in Seq(Steps)
    <3>1. <<Write(Response("success", f.id)), Write(Event(<<f.id>>, Nobody))>> \in Seq(Steps)
      BY <1>4, ShortSeqs
    <3> QED BY <3>1, HandlerCases
  <2>5. f.name = "hold" => Handler(f) \in Seq(Steps)
    BY <1>4, ShortSeqs, HandlerCases
  <2> QED BY <2>1, <2>2, <2>3, <2>4, <2>5 DEF HandlerNames
<1>6. Unexpected(f) \in Seq(Steps)
  BY <1>4, ShortSeqs DEF Unexpected, Refuse
<1>7. Dispatch(f) \in Seq(Steps)
  BY <1>5, <1>6 DEF Dispatch
<1>8. Authenticate(f, issued) \in Seq(Steps)
  <2>1. CASE f.name = "challenge"
    BY <1>4, ShortSeqs, <2>1 DEF Authenticate
  <2>2. CASE f.name = "login"
    BY <1>4, ShortSeqs, <2>2 DEF Authenticate, AcceptLogin, Refuse
  <2>3. CASE f.name \notin {"challenge", "login"}
    BY <1>4, ShortSeqs, <2>3 DEF Authenticate, Refuse
  <2> QED BY <2>1, <2>2, <2>3
<1> QED BY <1>7, <1>8
----------------------------------------------------------------------------
(* Types                                                                   *)

\* A conn.Close, and a write, keep the types of the connections.
LEMMA HangTypes ==
    ASSUME DialTypeOK, NEW c \in Conns, Hang(c)
    PROVE  up' \in [Conns -> Seq(Requests)] /\ hung' \in [Conns -> BOOLEAN]
<1>1. up \in [Conns -> Seq(Requests)] /\ hung \in [Conns -> BOOLEAN]
  BY DEF DialTypeOK
<1>2. CASE hung[c]
  BY <1>1, <1>2 DEF Hang
<1>3. CASE ~hung[c]
  <2>1. hung' = [hung EXCEPT ![c] = TRUE]
    BY <1>3 DEF Hang
  <2>0. \E kept \in 0..Len(up[c]) :
           /\ up' = [up EXCEPT ![c] = SubSeq(@, 1, kept)]
           /\ reset' = [reset EXCEPT ![c] = @ \/ kept < Len(up[c])]
    <3>1. Len(up[c]) \in Nat
      BY <1>1
    <3> QED BY <3>1, <1>3 DEF Hang
  <2>2. PICK kept \in 0..Len(up[c]) : up' = [up EXCEPT ![c] = SubSeq(@, 1, kept)]
    BY <2>0
  <2>3. SubSeq(up[c], 1, kept) \in Seq(Requests)
    BY <1>1, <2>2, CutSeq
  <2> QED BY <1>1, <2>1, <2>2, <2>3
<1> QED BY <1>2, <1>3

\* A write leaves messages on the way.
LEMMA DeliverTypes ==
    ASSUME DialTypeOK, NEW c \in Conns, NEW frame \in Messages, Deliver(c, frame)
    PROVE  down' \in [Conns -> Seq(Messages)]
<1>1. down \in [Conns -> Seq(Messages)] /\ Append(down[c], frame) \in Seq(Messages)
  BY AppendSeq DEF DialTypeOK
<1> QED BY <1>1 DEF Deliver

\* Each step of the accept loop, of a session, of a caller and of a client keeps
\* the types.
LEMMA AcceptTypes ==
    ASSUME DialTypeOK, SessionPart, AcceptLoop, UNCHANGED client
    PROVE  DialTypeOK'
<1>1. ASSUME NEW c \in Conns, Accept(c) PROVE DialTypeOK'
  BY <1>1 DEF Accept, DialTypeOK
<1>2. CASE AcceptFails
  BY <1>2 DEF AcceptFails, DialTypeOK, connVars, Breaches
<1>3. CASE Register
  <2>1. loop.conn \in Conns
    BY <1>3 DEF Register, SessionPart, LoopPlaced
  <2>2. CASE closed
    <3>1. Hang(loop.conn) /\ UNCHANGED sessions
      BY <1>3, <2>2 DEF Register, RegisterConn
    <3>2. loop' = [at |-> "stopped", conn |-> Nobody]
      BY <1>3, <2>2 DEF Register, RegisterConn
    <3>3. up' \in [Conns -> Seq(Requests)] /\ hung' \in [Conns -> BOOLEAN]
      BY <2>1, <3>1, HangTypes
    <3> QED BY <1>3, <3>1, <3>2, <3>3 DEF Register, DialTypeOK
  <2>3. CASE ~closed
    BY <1>3, <2>1, <2>3 DEF Register, RegisterConn, DialTypeOK
  <2> QED BY <2>2, <2>3
<1>4. CASE Start
  <2>1. loop.conn \in Conns
    BY <1>4 DEF Start, SessionPart, LoopPlaced
  <2>2. <<[do |-> "write", frame |-> Banner]>> \in Seq(Steps)
    BY MessageTypes, StepTypes, ShortSeqs DEF Write
  <2>3. sess' \in [Conns -> Sessions]
    <3> DEFINE c == loop.conn
               todo == <<[do |-> "write", frame |-> Banner]>>
    <3>1. sess' = [sess EXCEPT ![c].at = "serving", ![c].todo = todo]
      BY <1>4 DEF Start
    <3>2. c \in Conns /\ todo \in Seq(Steps) /\ sess \in [Conns -> Sessions]
      BY <2>1, <2>2 DEF DialTypeOK
    <3> HIDE DEF c, todo
    <3> QED BY <3>1, <3>2 DEF Sessions
  <2>4. loop' = [at |-> "accept", conn |-> Nobody]
    BY <1>4 DEF Start
  <2> QED BY <1>4, <2>3, <2>4 DEF Start, connVars, DialTypeOK
<1> QED BY <1>1, <1>2, <1>3, <1>4 DEF AcceptLoop

\* The first step of a session.
LEMMA ToDoTypes ==
    ASSUME DialTypeOK, NEW c \in Conns, sess[c].todo # <<>>
    PROVE  /\ ToDo(c) \in Steps /\ Tail(sess[c].todo) \in Seq(Steps)
           /\ [sess EXCEPT ![c].todo = Tail(@)] \in [Conns -> Sessions]
<1>1. sess \in [Conns -> Sessions] /\ sess[c].todo \in Seq(Steps)
  BY DEF DialTypeOK, Sessions
<1>2. ToDo(c) \in Steps /\ Tail(sess[c].todo) \in Seq(Steps)
  BY <1>1, TailSeq DEF ToDo
<1> QED BY <1>1, <1>2 DEF Sessions

LEMMA ServeTypes ==
    ASSUME DialTypeOK, NEW c \in Conns, Serve(c), UNCHANGED client
    PROVE  DialTypeOK'
<1>0. /\ up \in [Conns -> Seq(Requests)] /\ sess \in [Conns -> Sessions]
      /\ hung \in [Conns -> BOOLEAN] /\ handlers \subseteq HandlerNames
      /\ violations \subseteq Breaches
  BY DEF DialTypeOK
<1>1. CASE ReadCall(c)
  <2> DEFINE f == Head(up[c])
  <2>1. /\ f \in Requests /\ f.id \in Ids /\ Tail(up[c]) \in Seq(Requests)
    BY <1>0, <1>1, TailSeq DEF ReadCall, Requests
  <2>2. up' = [up EXCEPT ![c] = Tail(@)]
    BY <1>1 DEF ReadCall
  <2>3. up' \in [Conns -> Seq(Requests)]
    BY <1>0, <2>1, <2>2
  <2>4. violations' \subseteq Breaches
    BY <1>0, <1>1, <2>1 DEF ReadCall, Breaches
  <2>5. sess' \in [Conns -> Sessions]
    <3> DEFINE todo == IF f.name \in {"malformed", "nameless"} THEN <<Do("end")>>
                       ELSE IF sess[c].authed THEN Dispatch(f)
                       ELSE Authenticate(f, sess[c].issued)
               issued == sess[c].issued \/ (f.name = "challenge" /\ f.auth = "md5" /\ ~sess[c].authed)
    <3>1. todo \in Seq(Steps)
      BY <1>0, <2>1, DispatchTypes, StepTypes, ShortSeqs
    <3>2. issued \in BOOLEAN
      BY <1>0 DEF Sessions
    <3>3. sess' = [sess EXCEPT ![c].todo = todo, ![c].issued = issued]
      BY <1>1 DEF ReadCall
    <3> HIDE DEF todo, issued
    <3> QED BY <1>0, <3>1, <3>2, <3>3 DEF Sessions
  <2> QED BY <1>1, <2>3, <2>4, <2>5 DEF ReadCall, DialTypeOK
<1>2. CASE ReadEnd(c)
  <2>1. <<Do("end")>> \in Seq(Steps)
    BY StepTypes, ShortSeqs
  <2>2. sess' \in [Conns -> Sessions]
    BY <1>0, <1>2, <2>1 DEF ReadEnd, Sessions
  <2> QED BY <1>2, <2>2 DEF ReadEnd, DialTypeOK, connVars
<1>3. CASE RecordViolation(c)
  <2>1. ToDo(c).id \in Ids /\ sess' \in [Conns -> Sessions]
    BY <1>3, ToDoTypes, StepFields DEF RecordViolation, Doing, Done
  <2> QED BY <1>0, <1>3, <2>1 DEF RecordViolation, DialTypeOK, connVars, Breaches
<1>4. CASE MarkAuthed(c)
  <2>1. ToDo(c).on \in BOOLEAN /\ Tail(sess[c].todo) \in Seq(Steps)
    BY <1>4, ToDoTypes, StepFields DEF MarkAuthed, Doing
  <2> DEFINE rest == Tail(sess[c].todo)
             on == ToDo(c).on
  <2>3. sess' = [sess EXCEPT ![c].todo = rest, ![c].authed = TRUE, ![c].events = on]
    BY <1>4 DEF MarkAuthed
  <2> HIDE DEF rest, on
  <2>4. rest \in Seq(Steps) /\ on \in BOOLEAN
    BY <2>1 DEF rest, on
  <2>5. sess[c] \in Sessions
    BY <1>0
  <2>6. [sess[c] EXCEPT !.todo = rest, !.authed = TRUE, !.events = on] \in Sessions
    BY <2>4, <2>5 DEF Sessions
  <2>7. sess' = [sess EXCEPT ![c] = [sess[c] EXCEPT !.todo = rest, !.authed = TRUE, !.events = on]]
    BY <1>0, <2>3
  <2>2. sess' \in [Conns -> Sessions]
    BY <1>0, <2>6, <2>7
  <2> QED BY <1>4, <2>2 DEF MarkAuthed, DialTypeOK, connVars
<1>5. CASE SetEventMask(c)
  <2>1. ToDo(c).on \in BOOLEAN /\ Tail(sess[c].todo) \in Seq(Steps)
    BY <1>5, ToDoTypes, StepFields DEF SetEventMask, Doing
  <2>2. sess' \in [Conns -> Sessions]
    BY <1>0, <1>5, <2>1 DEF SetEventMask, Sessions
  <2> QED BY <1>5, <2>2 DEF SetEventMask, DialTypeOK, connVars
<1>6. CASE Hold(c)
  <2>1. ToDo(c).id \in Ids /\ sess' \in [Conns -> Sessions]
    BY <1>6, ToDoTypes, StepFields DEF Hold, Doing, Done
  <2> QED BY <1>6, <2>1 DEF Hold, DialTypeOK, connVars
<1>7. CASE HangupSelf(c)
  <2>1. sess' \in [Conns -> Sessions]
    BY <1>7, ToDoTypes DEF HangupSelf, Doing, Done
  <2>2. up' \in [Conns -> Seq(Requests)] /\ hung' \in [Conns -> BOOLEAN]
    BY <1>7, HangTypes DEF HangupSelf
  <2> QED BY <1>7, <2>1, <2>2 DEF HangupSelf, DialTypeOK
<1>8. CASE EndSession(c)
  <2>1. <<>> \in Seq(Steps) /\ <<>> \in Seq(Requests)
    BY ShortSeqs
  <2>2. sess' \in [Conns -> Sessions]
    BY <1>0, <1>8, <2>1 DEF EndSession, Sessions
  <2>3. up' \in [Conns -> Seq(Requests)] /\ hung' \in [Conns -> BOOLEAN]
    BY <1>0, <1>8, <2>1 DEF EndSession
  <2> QED BY <1>8, <2>2, <2>3 DEF EndSession, DialTypeOK
<1>9. CASE Unregister(c)
  <2>1. <<>> \in Seq(Steps)
    BY ShortSeqs
  <2>2. [NoSession EXCEPT !.at = "over"] \in Sessions
    BY <2>1 DEF NoSession, Sessions
  <2>3. sess' \in [Conns -> Sessions]
    BY <1>0, <1>9, <2>2 DEF Unregister
  <2> QED BY <1>9, <2>3 DEF Unregister, DialTypeOK, connVars
<1>10. CASE SessionWrite(c)
  <2>1. ToDo(c).frame \in Messages /\ sess' \in [Conns -> Sessions]
    BY <1>10, ToDoTypes, StepFields DEF SessionWrite, Doing, Done
  <2>2. down' \in [Conns -> Seq(Messages)]
    BY <1>10, <2>1, DeliverTypes DEF SessionWrite
  <2> QED BY <1>10, <2>1, <2>2 DEF SessionWrite, DialTypeOK
<1> QED BY <1>1, <1>2, <1>3, <1>4, <1>5, <1>6, <1>7, <1>8, <1>9, <1>10 DEF Serve

\* Broadcasts go to connections.
LEMMA AudienceTypes ==
    ASSUME DialTypeOK, NEW masked
    PROVE  Audience(masked) \in SUBSET Conns
  BY DEF DialTypeOK, Audience

\* What Raw writes is a message.
LEMMA RawTypes ==
    ASSUME NEW frame \in RawFrames, NEW t \in Callers
    PROVE  [frame EXCEPT !.from = t] \in Messages /\ frame.ids = <<>>
<1>1. frame \in [events : Seq(Values), lists : Seq(Values), responses : Seq(Values),
                 ids : {<<>>}, from : {Empty}]
  BY TestServerAssumption
<1>2. <<>> \in Seq(Ids)
  BY ShortSeqs
<1> QED BY <1>1, <1>2 DEF Messages

\* A call that enters is a call.
LEMMA EnterTypes ==
    ASSUME DialTypeOK, NEW t \in Callers, NEW live \in Seq(Conns), NEW frame \in Messages \cup {Empty},
           NEW op \in {"event", "raw", "hangup", "close", "reply", "handle"},
           NEW at \in {"writing", "closing", "hanging", "waiting", "returned"},
           Enter(t, op, at, live, frame)
    PROVE  call' \in [Callers -> Calls]
<1>1. call \in [Callers -> Calls]
  BY DEF DialTypeOK
<1>2. ToSet(live) \subseteq Conns
  BY DEF ToSet
<1>3. [op |-> op, at |-> at, live |-> live, frame |-> frame, among |-> ToSet(live), err |-> {}] \in Calls
  BY <1>2 DEF Calls
<1> QED BY <1>1, <1>3 DEF Enter

LEMMA BeginTypes ==
    ASSUME DialTypeOK, NEW t \in Callers, Begin(t), UNCHANGED client
    PROVE  DialTypeOK'
<1>0. <<>> \in Seq(Conns)
  BY ShortSeqs
<1>1. CASE Broadcast(t)
  <2>1. PICK live \in SetToSeqs(Audience(TRUE)) : Enter(t, "event", "writing", live, Event(<<>>, t))
    BY <1>1 DEF Broadcast
  <2>2. live \in Seq(Conns) /\ Event(<<>>, t) \in Messages
    BY <2>1, AudienceTypes, SnapshotSeq, MessageTypes
  <2>3. call' \in [Callers -> Calls]
    BY <2>1, <2>2, EnterTypes
  <2> QED BY <1>1, <2>3 DEF Broadcast, DialTypeOK, connVars
<1>2. CASE Raw(t)
  <2>1. PICK frame \in RawFrames, live \in SetToSeqs(Audience(FALSE)) :
           Enter(t, "raw", "writing", live, [frame EXCEPT !.from = t])
    BY <1>2 DEF Raw
  <2>2. live \in Seq(Conns) /\ [frame EXCEPT !.from = t] \in Messages
    BY <2>1, AudienceTypes, SnapshotSeq, RawTypes
  <2>3. call' \in [Callers -> Calls]
    BY <2>1, <2>2, EnterTypes
  <2> QED BY <1>2, <2>3 DEF Raw, DialTypeOK, connVars
<1>3. CASE Reply(t)
  <2>1. PICK id \in held : /\ Enter(t, "reply", "writing", <<id[1]>>, Response("success", id))
                           /\ held' = held \ {id}
    BY <1>3 DEF Reply
  <2>2. id \in Ids /\ id[1] \in Conns
    BY <2>1 DEF DialTypeOK, Ids
  <2>3. <<id[1]>> \in Seq(Conns) /\ Response("success", id) \in Messages
    BY <2>2, ShortSeqs, MessageTypes DEF Values
  <2>4. call' \in [Callers -> Calls]
    BY <2>1, <2>3, EnterTypes
  <2> QED BY <1>3, <2>1, <2>4 DEF Reply, DialTypeOK, connVars
<1>4. CASE HandleAction(t)
  <2>1. call' \in [Callers -> Calls]
    BY <1>0, <1>4, EnterTypes DEF HandleAction
  <2>2. handlers' \subseteq HandlerNames
    BY <1>4 DEF HandleAction, DialTypeOK, HandlerNames
  <2> QED BY <1>4, <2>1, <2>2 DEF HandleAction, DialTypeOK, connVars
<1>5. CASE Hangup(t)
  <2>1. PICK live \in SetToSeqs(sessions) : Enter(t, "hangup", "hanging", live, Empty)
    BY <1>5 DEF Hangup
  <2>2. live \in Seq(Conns)
    BY <2>1, SnapshotSeq DEF DialTypeOK
  <2>3. call' \in [Callers -> Calls]
    BY <2>1, <2>2, EnterTypes
  <2> QED BY <1>5, <2>3 DEF Hangup, DialTypeOK, connVars
<1>6. CASE Close(t)
  <2>1. call' \in [Callers -> Calls]
    <3>1. CASE closed
      BY <1>0, <1>6, <3>1, EnterTypes DEF Close
    <3>2. CASE ~closed
      <4>1. PICK live \in SetToSeqs(sessions) : Enter(t, "close", "closing", live, Empty)
        BY <1>6, <3>2 DEF Close
      <4>2. live \in Seq(Conns)
        BY <4>1, SnapshotSeq DEF DialTypeOK
      <4> QED BY <4>1, <4>2, EnterTypes
    <3> QED BY <3>1, <3>2
  <2> QED BY <1>6, <2>1 DEF Close, DialTypeOK, connVars
<1> QED BY <1>1, <1>2, <1>3, <1>4, <1>5, <1>6 DEF Begin

LEMMA ContinueTypes ==
    ASSUME DialTypeOK, CallPart, NEW t \in Callers, Continue(t), UNCHANGED client
    PROVE  DialTypeOK'
<1>0. /\ call \in [Callers -> Calls] /\ call[t].live \in Seq(Conns)
      /\ hung \in [Conns -> BOOLEAN] /\ violations \subseteq Breaches
  BY DEF DialTypeOK, Calls
<1>1. call[t].live # <<>> =>
         /\ Head(call[t].live) \in Conns /\ Tail(call[t].live) \in Seq(Conns)
         /\ [call EXCEPT ![t].live = Tail(@)] \in [Callers -> Calls]
  <2>1. call[t].live # <<>> => Head(call[t].live) \in Conns /\ Tail(call[t].live) \in Seq(Conns)
    BY <1>0, TailSeq
  <2> QED BY <1>0, <2>1 DEF Calls
<1>2. CASE CallerWrite(t)
  <2>1. call[t].frame \in Messages
    BY <1>0, <1>2 DEF CallerWrite, CallPart, Calls, Called
  <2>2. down' \in [Conns -> Seq(Messages)]
    BY <1>1, <1>2, <2>1, DeliverTypes DEF CallerWrite
  <2> QED BY <1>1, <1>2, <2>2 DEF CallerWrite, DialTypeOK
<1>3. CASE CloseListener(t)
  <2>1. call' \in [Callers -> Calls] /\ hung' \in [Conns -> BOOLEAN]
    BY <1>0, <1>3 DEF CloseListener, Calls
  <2> QED BY <1>3, <2>1 DEF CloseListener, DialTypeOK
<1>4. CASE HangNext(t)
  <2>1. up' \in [Conns -> Seq(Requests)] /\ hung' \in [Conns -> BOOLEAN]
    BY <1>1, <1>4, HangTypes DEF HangNext
  <2> QED BY <1>1, <1>4, <2>1 DEF HangNext, DialTypeOK
<1>5. CASE Wait(t)
  <2>1. call' \in [Callers -> Calls]
    BY <1>0, <1>5 DEF Wait, Calls
  <2> QED BY <1>5, <2>1 DEF Wait, DialTypeOK, connVars
<1>6. CASE Return(t)
  <2> DEFINE err == IF call[t].op = "close" THEN violations ELSE {}
  <2>1. call' = [call EXCEPT ![t] = [call[t] EXCEPT !.at = "returned", !.frame = Empty, !.err = err]]
    BY <1>0, <1>6 DEF Return
  <2>2. err \in SUBSET Breaches
    BY <1>0
  <2> HIDE DEF err
  <2>3. [call[t] EXCEPT !.at = "returned", !.frame = Empty, !.err = err] \in Calls
    BY <1>0, <2>2 DEF Calls
  <2>4. call' \in [Callers -> Calls]
    BY <1>0, <2>1, <2>3
  <2> QED BY <1>6, <2>4 DEF Return, DialTypeOK, connVars
<1> QED BY <1>2, <1>3, <1>4, <1>5, <1>6 DEF Continue

\* What a client sends, and what its end leaves.
LEMMA SendTypes ==
    ASSUME DialTypeOK, NEW c \in Conns, NEW f \in Frames, Send(c, Frame(c, f))
    PROVE  /\ NewId(c) \in Ids /\ Frame(c, f) \in Requests /\ Frame(c, f).id = NewId(c)
           /\ up' \in [Conns -> Seq(Requests)]
<1>1. /\ client[c].seq \in Nat /\ up \in [Conns -> Seq(Requests)]
  BY DEF DialTypeOK, Clients
<1>2. NewId(c) \in Ids
  BY <1>1 DEF NewId, Ids
<1>3. Frame(c, f) \in Requests /\ Frame(c, f).id = NewId(c)
  BY <1>2 DEF Frame, Frames, Requests
<1>4. Append(up[c], Frame(c, f)) \in Seq(Requests)
  BY <1>1, <1>3, AppendSeq
<1> QED BY <1>1, <1>2, <1>3, <1>4 DEF Send

\* A client that ends.
LEMMA EndTypes ==
    ASSUME DialTypeOK, NEW c \in Conns, NEW at \in {"failed", "over"},
           NEW why \in {"rejected", "correlation", "context", "protocol", "transport", "closed"},
           End(c, at, why)
    PROVE  DialTypeOK'
<1>1. /\ client \in [Conns -> Clients] /\ down \in [Conns -> Seq(Messages)]
      /\ left \in [Conns -> BOOLEAN]
  BY DEF DialTypeOK
<1>2. [NoClient EXCEPT !.at = at, !.why = why] \in Clients
  BY DEF NoClient, Clients
<1>3. client' \in [Conns -> Clients]
  BY <1>1, <1>2 DEF End
<1>4. <<>> \in Seq(Messages)
  BY ShortSeqs
<1>5. down' \in [Conns -> Seq(Messages)] /\ left' \in [Conns -> BOOLEAN]
  BY <1>1, <1>4 DEF End
<1> QED BY <1>3, <1>5 DEF End, DialTypeOK, serverVars

\* The configurations and the frames of a script.
LEMMA ScriptTypes ==
    ASSUME DialTypeOK, NEW c \in Conns
    PROVE  /\ Config(c) \in Logins /\ LoginMask(c) \in Masks
           /\ ChallengeMD5 \in Frames /\ Login(c) \in Frames
           /\ Scripted(c) => Sending(c) \in Frames
<1>1. script.login \in [Conns -> Logins] /\ script.sends \in [Conns -> Seq(Frames)]
  BY TestServerAssumption DEF DialTypeOK
<1>2. Config(c) \in Logins
  BY <1>1 DEF Config
<1>3. LoginMask(c) \in Masks
  BY <1>2 DEF LoginMask, Logins, Masks
<1>4. ChallengeMD5 \in Frames
  BY DEF ChallengeMD5, Frames, Names, Masks
<1>5. Login(c) \in Frames
  BY <1>2, <1>3 DEF Login, Frames, Names, Logins
<1>6. Scripted(c) => Sending(c) \in Frames
  <2>1. script.sends[c] \in Seq(Frames) /\ client[c].sent \in Nat
    BY <1>1 DEF DialTypeOK, Clients
  <2>2. Scripted(c) => client[c].sent + 1 \in 1..Len(script.sends[c])
    BY <2>1 DEF Scripted
  <2> QED BY <2>1, <2>2 DEF Sending
<1> QED BY <1>2, <1>3, <1>4, <1>5, <1>6

\* A login exchange writes a request.
LEMMA ExchangeTypes ==
    ASSUME DialTypeOK, NEW c \in Conns, NEW at \in {"challenge", "login"}, NEW f \in Frames,
           Exchange(c, at, f)
    PROVE  up' \in [Conns -> Seq(Requests)] /\ client' \in [Conns -> Clients]
<1>1. client \in [Conns -> Clients] /\ client[c] \in Clients /\ client[c].seq + 1 \in Nat
  BY DEF DialTypeOK, Clients
<1>2. [client[c] EXCEPT !.at = at, !.seq = client[c].seq + 1] \in Clients
  BY <1>1 DEF Clients
<1>3. client' = [client EXCEPT ![c] = [client[c] EXCEPT !.at = at, !.seq = client[c].seq + 1]]
  BY <1>1 DEF Exchange
<1>4. client' \in [Conns -> Clients]
  BY <1>1, <1>2, <1>3
<1>5. up' \in [Conns -> Seq(Requests)]
  BY SendTypes DEF Exchange
<1> QED BY <1>4, <1>5

LEMMA ClientTypes ==
    ASSUME DialTypeOK, NEW c \in Conns, Client(c)
    PROVE  DialTypeOK'
<1>0. /\ client \in [Conns -> Clients] /\ client[c] \in Clients
      /\ down \in [Conns -> Seq(Messages)]
  BY DEF DialTypeOK
<1>1. Arrived(c) => Message(c) \in Messages /\ Tail(down[c]) \in Seq(Messages)
  BY <1>0, TailSeq DEF Arrived, Message
<1>2. Arrived(c) /\ Consume(c) => down' \in [Conns -> Seq(Messages)]
  BY <1>0, <1>1 DEF Consume
<1>3. CASE ReadBanner(c)
  <2>1. up' \in [Conns -> Seq(Requests)] /\ client' \in [Conns -> Clients]
    BY <1>3, ExchangeTypes, ScriptTypes DEF ReadBanner
  <2> QED BY <1>2, <1>3, <2>1 DEF ReadBanner, serverVars, DialTypeOK
<1>4. CASE ReadLogin(c)
  <2>1. up' \in [Conns -> Seq(Requests)] /\ client' \in [Conns -> Clients]
    <3>1. CASE client[c].at = "challenge"
      BY <1>4, <3>1, ExchangeTypes, ScriptTypes DEF ReadLogin
    <3>2. CASE client[c].at # "challenge"
      <4>1. LoginMask(c) \in Masks
        BY ScriptTypes
      <4>2. [client[c] EXCEPT !.at = "ready", !.mask = LoginMask(c)] \in Clients
        BY <1>0, <4>1 DEF Clients
      <4>3. client' = [client EXCEPT ![c] = [client[c] EXCEPT !.at = "ready", !.mask = LoginMask(c)]]
        BY <1>0, <1>4, <3>2 DEF ReadLogin
      <4>4. client' \in [Conns -> Clients]
        BY <1>0, <4>2, <4>3
      <4> QED BY <1>4, <3>2, <4>4 DEF ReadLogin, DialTypeOK
    <3> QED BY <3>1, <3>2
  <2> QED BY <1>2, <1>4, <2>1 DEF ReadLogin, serverVars, DialTypeOK
<1>5. ASSUME NEW at \in {"failed", "over"},
             NEW why \in {"rejected", "correlation", "context", "protocol", "transport", "closed"},
             End(c, at, why)
      PROVE  DialTypeOK'
  BY <1>5, EndTypes
<1>6. CASE LoginFails(c) \/ ContextEnds(c) \/ ReadFatal(c) \/ ReadFails(c) \/ GiveUp(c)
  BY <1>5, <1>6 DEF LoginFails, ContextEnds, ReadFatal, ReadFails, GiveUp
<1>7. CASE ReadResponse(c)
  <2>1. PICK p \in Waiting(c) :
          client' = [client EXCEPT ![c].pending = @ \ {p},
              ![c].mask = IF p.name = "events" /\ Get(Message(c).responses) = "success"
                          THEN p.mask ELSE @]
    BY <1>7 DEF ReadResponse
  <2> DEFINE mask == IF p.name = "events" /\ Get(Message(c).responses) = "success"
                     THEN p.mask ELSE client[c].mask
             pending == client[c].pending \ {p}
  <2>2. mask \in Masks \cup {Empty} /\ pending \in SUBSET Actions
    BY <1>0, <2>1 DEF Clients, Actions, Waiting
  <2>3. client' = [client EXCEPT ![c] = [client[c] EXCEPT !.pending = pending, !.mask = mask]]
    BY <1>0, <2>1
  <2> HIDE DEF mask, pending
  <2>4. [client[c] EXCEPT !.pending = pending, !.mask = mask] \in Clients
    BY <1>0, <2>2 DEF Clients
  <2>5. client' \in [Conns -> Clients]
    BY <1>0, <2>3, <2>4
  <2> QED BY <1>2, <1>7, <2>5 DEF ReadResponse, serverVars, DialTypeOK
<1>8. CASE ReadEvent(c)
  <2>1. Message(c).from \in Callers \cup {Nobody}
    BY <1>1, <1>8 DEF ReadEvent, Messages
  <2>2. client' \in [Conns -> Clients]
    BY <1>0, <1>8, <2>1 DEF ReadEvent, Clients
  <2> QED BY <1>2, <1>8, <2>2 DEF ReadEvent, serverVars, DialTypeOK
<1>9. CASE RawRead(c)
  BY <1>2, <1>9 DEF RawRead, serverVars, DialTypeOK
<1>10. CASE Connect(c)
  <2>1. client' \in [Conns -> Clients]
    <3>1. [client[c] EXCEPT !.at = "raw"] \in Clients /\ [client[c] EXCEPT !.at = "banner"] \in Clients
      BY <1>0 DEF Clients
    <3>2. [client[c] EXCEPT !.at = "failed", !.why = "dial"] \in Clients
      BY <1>0 DEF Clients
    <3>3. \/ client' = [client EXCEPT ![c] = [client[c] EXCEPT !.at = "raw"]]
          \/ client' = [client EXCEPT ![c] = [client[c] EXCEPT !.at = "banner"]]
          \/ client' = [client EXCEPT ![c] = [client[c] EXCEPT !.at = "failed", !.why = "dial"]]
      BY <1>0, <1>10 DEF Connect
    <3> QED BY <1>0, <3>1, <3>2, <3>3
  <2> QED BY <1>10, <2>1 DEF Connect, serverVars, DialTypeOK
<1>11. CASE RawSend(c)
  <2>1. up' \in [Conns -> Seq(Requests)]
    BY <1>11, ScriptTypes, SendTypes DEF RawSend
  <2>2. client[c].seq + 1 \in Nat /\ client[c].sent + 1 \in Nat
    BY <1>0 DEF Clients
  <2>3. [client[c] EXCEPT !.seq = client[c].seq + 1, !.sent = client[c].sent + 1] \in Clients
    BY <1>0, <2>2 DEF Clients
  <2>4. client' = [client EXCEPT ![c] = [client[c] EXCEPT !.seq = client[c].seq + 1,
                                                          !.sent = client[c].sent + 1]]
    BY <1>0, <1>11 DEF RawSend
  <2>5. client' \in [Conns -> Clients]
    BY <1>0, <2>3, <2>4
  <2> QED BY <1>11, <2>1, <2>5 DEF RawSend, serverVars, DialTypeOK
<1>12. CASE Act(c)
  <2> DEFINE action == [id |-> NewId(c), name |-> Sending(c).name, mask |-> Sending(c).mask,
                        owed |-> Owed(c)]
             pending == client[c].pending \cup {action}
             seq == client[c].seq + 1
             sent == client[c].sent + 1
  <2>1. Sending(c) \in Frames
    BY <1>12, ScriptTypes DEF Act
  <2>2. up' \in [Conns -> Seq(Requests)] /\ NewId(c) \in Ids
    BY <1>12, <2>1, SendTypes DEF Act
  <2>3. seq \in Nat /\ sent \in Nat
    BY <1>0 DEF Clients
  <2>4. action \in Actions
    BY <2>1, <2>2 DEF Actions, Frames, Owed
  <2>5. client' = [client EXCEPT ![c] = [client[c] EXCEPT !.seq = seq, !.sent = sent, !.pending = pending]]
    BY <1>0, <1>12 DEF Act
  <2> HIDE DEF action, seq, sent
  <2>6. pending \in SUBSET Actions
    BY <1>0, <2>4 DEF Clients
  <2> HIDE DEF pending
  <2>7. [client[c] EXCEPT !.seq = seq, !.sent = sent, !.pending = pending] \in Clients
    BY <1>0, <2>3, <2>6 DEF Clients
  <2>8. client' \in [Conns -> Clients]
    BY <1>0, <2>5, <2>7
  <2> QED BY <1>12, <2>2, <2>8 DEF Act, serverVars, DialTypeOK
<1> QED BY <1>3, <1>4, <1>6, <1>7, <1>8, <1>9, <1>10, <1>11, <1>12 DEF Client, Read
----------------------------------------------------------------------------
(* Where a connection is                                                   *)

\* What an action does not touch stays where it is.
LEMMA PlacedStays ==
    ASSUME NEW c \in Conns, Placed(c), LoopPlaced,
           sess[c]' = sess[c], client[c].at' = client[c].at, hung[c] => hung'[c],
           c \in backlog' <=> c \in backlog, c \in sessions' <=> c \in sessions,
           Accepting(c)' <=> Accepting(c),
           loop'.at = "start" /\ loop'.conn = c <=> loop.at = "start" /\ loop.conn = c,
           sess[c].at = "none" => down'[c] = <<>>
    PROVE  Placed(c)'
  BY DEF Placed, Accounted

\* A connection that is closed stays closed.
LEMMA HangPlaces ==
    ASSUME DialTypeOK, NEW c \in Conns, Hang(c), NEW d \in Conns
    PROVE  hung'[c] = TRUE /\ (hung[d] => hung'[d]) /\ (d # c => hung'[d] = hung[d] /\ up'[d] = up[d])
<1>1. up \in [Conns -> Seq(Requests)] /\ hung \in [Conns -> BOOLEAN]
  BY DEF DialTypeOK
<1> QED BY <1>1 DEF Hang

\* The accept loop hands a connection on, or closes it.
LEMMA AcceptPlaces ==
    ASSUME DialTypeOK, SessionPart, AcceptLoop, UNCHANGED client
    PROVE  SessionPart'
<1>0. LoopPlaced /\ \A d \in Conns : Placed(d)
  BY DEF SessionPart
<1>1. ASSUME NEW c \in Conns, Accept(c), NEW d \in Conns PROVE LoopPlaced' /\ Placed(d)'
  BY <1>0, <1>1 DEF Accept, LoopPlaced, Placed, Accounted, Accepting
<1>2. ASSUME AcceptFails, NEW d \in Conns PROVE LoopPlaced' /\ Placed(d)'
  BY <1>0, <1>2 DEF AcceptFails, LoopPlaced, Placed, Accounted, Accepting, connVars
<1>3. ASSUME Register, NEW d \in Conns PROVE LoopPlaced' /\ Placed(d)'
  <2>1. loop.conn \in Conns /\ loop.at = "register"
    BY <1>0, <1>3 DEF Register, LoopPlaced
  <2>2. CASE closed
    <3>1. Hang(loop.conn) /\ UNCHANGED sessions /\ loop' = [at |-> "stopped", conn |-> Nobody]
      BY <1>3, <2>2 DEF Register, RegisterConn
    <3>2. hung'[loop.conn] /\ (hung[d] => hung'[d])
      BY <2>1, <3>1, HangPlaces
    <3> QED BY <1>0, <1>3, <2>1, <3>1, <3>2 DEF Register, LoopPlaced, Placed, Accounted, Accepting
  <2>3. CASE ~closed
    <3>1. loop'.at = "start" /\ loop'.conn = loop.conn
      BY <1>3, <2>3 DEF Register, RegisterConn, DialTypeOK
    <3> QED BY <1>0, <1>3, <2>1, <2>3, <3>1
        DEF Register, RegisterConn, LoopPlaced, Placed, Accounted, Accepting
  <2> QED BY <2>2, <2>3
<1>4. ASSUME Start, NEW d \in Conns PROVE LoopPlaced' /\ Placed(d)'
  <2>1. loop.conn \in Conns /\ loop.at = "start" /\ loop'.at = "accept"
    BY <1>0, <1>4 DEF Start, LoopPlaced
  <2>2. /\ sess'[loop.conn].at = "serving"
        /\ d # loop.conn => sess'[d] = sess[d]
    BY <1>4, <2>1 DEF Start, DialTypeOK, Sessions
  <2> QED BY <1>0, <1>4, <2>1, <2>2 DEF Start, LoopPlaced, Placed, Accounted, Accepting, connVars
<1>5. LoopPlaced'
  <2>1. CASE Conns = {}
    BY <1>0, <2>1 DEF AcceptLoop, AcceptFails, Register, RegisterConn, Start, LoopPlaced
  <2> QED BY <1>1, <1>2, <1>3, <1>4, <2>1 DEF AcceptLoop
<1>6. \A d \in Conns : Placed(d)'
  BY <1>1, <1>2, <1>3, <1>4 DEF AcceptLoop
<1> QED BY <1>5, <1>6 DEF SessionPart

\* The steps of a session that leave it being served.
LEMMA ServingPlaces ==
    ASSUME DialTypeOK, SessionPart, NEW c \in Conns, UNCHANGED <<loop, backlog, client, sessions>>,
           sess[c].at = "serving", sess'[c].at = "serving",
           \A d \in Conns : hung[d] => hung'[d],
           \A d \in Conns \ {c} : sess'[d] = sess[d] /\ down'[d] = down[d]
    PROVE  SessionPart'
<1>0. LoopPlaced /\ \A d \in Conns : Placed(d)
  BY DEF SessionPart
<1>1. LoopPlaced'
  BY <1>0 DEF LoopPlaced
<1>2. \A d \in Conns : Placed(d)'
  BY <1>0 DEF Placed, Accounted, Accepting
<1> QED BY <1>1, <1>2 DEF SessionPart

\* A session ends after its connection.
LEMMA ServePlaces ==
    ASSUME DialTypeOK, SessionPart, NEW c \in Conns, Serve(c), UNCHANGED client
    PROVE  SessionPart'
<1>0. LoopPlaced /\ \A d \in Conns : Placed(d)
  BY DEF SessionPart
<1>1. /\ sess \in [Conns -> Sessions] /\ hung \in [Conns -> BOOLEAN]
      /\ down \in [Conns -> Seq(Messages)]
      /\ sess[c].todo # <<>> => sess[c].at = "serving"
  BY <1>0 DEF DialTypeOK, Placed
<1>2. CASE ReadCall(c)
  BY <1>1, <1>2, ServingPlaces DEF ReadCall, Sessions
<1>3. CASE ReadEnd(c)
  BY <1>1, <1>3, ServingPlaces DEF ReadEnd, connVars, Sessions
<1>4. CASE RecordViolation(c)
  BY <1>1, <1>4, ServingPlaces DEF RecordViolation, Doing, Done, connVars, Sessions
<1>5. CASE MarkAuthed(c)
  BY <1>1, <1>5, ServingPlaces DEF MarkAuthed, Doing, connVars, Sessions
<1>6. CASE SetEventMask(c)
  BY <1>1, <1>6, ServingPlaces DEF SetEventMask, Doing, connVars, Sessions
<1>7. CASE Hold(c)
  BY <1>1, <1>7, ServingPlaces DEF Hold, Doing, Done, connVars, Sessions
<1>8. CASE HangupSelf(c)
  BY <1>1, <1>8, ServingPlaces, HangPlaces DEF HangupSelf, Doing, Done, Sessions
<1>9. CASE EndSession(c)
  <2>1. /\ sess[c].at = "serving" /\ sess'[c].at = "ending" /\ sess'[c].todo = <<>> /\ hung'[c]
        /\ \A d \in Conns : (hung[d] => hung'[d]) /\ (d # c => sess'[d] = sess[d])
    BY <1>1, <1>9 DEF EndSession, Doing, Sessions
  <2>2. \A d \in Conns : Placed(d)'
    <3>0. /\ c \notin backlog /\ ~Accepting(c) /\ client[c].at # "idle"
          /\ UNCHANGED <<backlog, loop, client, sessions>>
      BY <1>0, <1>9, <2>1 DEF EndSession, Placed
    <3>1. Placed(c)'
      BY <2>1, <3>0 DEF Placed, Accounted, Accepting
    <3>2. UNCHANGED down
      BY <1>9 DEF EndSession
    <3>3. \A d \in Conns \ {c} : Placed(d)'
      BY <1>0, <2>1, <3>0, <3>2 DEF Placed, Accounted, Accepting
    <3> QED BY <3>1, <3>3
  <2>3. LoopPlaced'
    BY <1>0, <1>9 DEF EndSession, LoopPlaced
  <2> QED BY <2>2, <2>3 DEF SessionPart
<1>10. CASE Unregister(c)
  <2>1. /\ sess'[c].at = "over" /\ sess'[c].todo = <<>> /\ ~sess'[c].authed
        /\ sess[c].at = "ending" /\ \A d \in Conns : d # c => sess'[d] = sess[d]
    BY <1>1, <1>10 DEF Unregister, NoSession
  <2>2. \A d \in Conns : Placed(d)'
    BY <1>0, <1>10, <2>1 DEF Unregister, Placed, Accounted, Accepting, connVars
  <2>3. LoopPlaced'
    BY <1>0, <1>10 DEF Unregister, LoopPlaced
  <2> QED BY <2>2, <2>3 DEF SessionPart
<1>11. CASE SessionWrite(c)
  <2>1. \A d \in Conns \ {c} : down'[d] = down[d]
    BY <1>1, <1>11 DEF SessionWrite, Deliver
  <2> QED BY <1>1, <1>11, <2>1, ServingPlaces DEF SessionWrite, Doing, Done, Sessions
<1> QED BY <1>2, <1>3, <1>4, <1>5, <1>6, <1>7, <1>8, <1>9, <1>10, <1>11 DEF Serve

\* The callers.
LEMMA CallerPlaces ==
    ASSUME DialTypeOK, SessionPart, CallPart, NEW t \in Callers, Begin(t) \/ Continue(t), UNCHANGED client
    PROVE  SessionPart'
<1>0. LoopPlaced /\ \A d \in Conns : Placed(d)
  BY DEF SessionPart
<1>1. /\ hung \in [Conns -> BOOLEAN] /\ down \in [Conns -> Seq(Messages)]
      /\ call[t].live \in Seq(Conns)
      /\ call[t].live # <<>> => Head(call[t].live) \in Conns /\ Head(call[t].live) \in ToSet(call[t].live)
  <2>1. call[t].live \in Seq(Conns)
    BY DEF DialTypeOK, Calls
  <2>2. call[t].live # <<>> => Head(call[t].live) = call[t].live[1] /\ 1 \in DOMAIN call[t].live
    BY <2>1
  <2> QED BY <2>1, <2>2 DEF DialTypeOK, ToSet
<1>2. CASE UNCHANGED <<loop, sess, backlog, sessions, hung, down>>
  BY <1>2 DEF SessionPart, Accounted, Accepting, LoopPlaced, Placed
<1>3. CASE Begin(t)
  BY <1>2, <1>3 DEF Begin, Broadcast, Raw, Reply, HandleAction, Hangup, Close, connVars
<1>4. CASE Wait(t) \/ Return(t)
  BY <1>2, <1>4 DEF Wait, Return, connVars
<1>5. CASE CallerWrite(t)
  <2> DEFINE c == Head(call[t].live)
  <2>1. /\ c \in Conns /\ sess[c].at # "none" /\ \A d \in Conns \ {c} : down'[d] = down[d]
    BY <1>1, <1>5 DEF CallerWrite, Deliver, CallPart, Called
  <2> HIDE DEF c
  <2>2. \A d \in Conns : Placed(d)'
    BY <1>0, <1>5, <2>1 DEF CallerWrite, Placed, Accounted, Accepting
  <2>3. LoopPlaced'
    BY <1>0, <1>5 DEF CallerWrite, LoopPlaced
  <2> QED BY <2>2, <2>3 DEF SessionPart
<1>6. CASE CloseListener(t)
  <2>1. \A d \in Conns : hung'[d] <=> hung[d] \/ d \in backlog
    BY <1>1, <1>6 DEF CloseListener
  <2>2. \A d \in Conns : Placed(d)'
    BY <1>0, <1>6, <2>1 DEF CloseListener, Placed, Accounted, Accepting
  <2>3. LoopPlaced'
    BY <1>0, <1>6 DEF CloseListener, LoopPlaced
  <2> QED BY <2>2, <2>3 DEF SessionPart
<1>7. CASE HangNext(t)
  <2>1. \A d \in Conns : hung[d] => hung'[d]
    BY <1>1, <1>7, HangPlaces DEF HangNext
  <2>2. \A d \in Conns : Placed(d)'
    BY <1>0, <1>7, <2>1 DEF HangNext, Placed, Accounted, Accepting
  <2>3. LoopPlaced'
    BY <1>0, <1>7 DEF HangNext, LoopPlaced
  <2> QED BY <2>2, <2>3 DEF SessionPart
<1> QED BY <1>3, <1>4, <1>5, <1>6, <1>7 DEF Continue

\* The clients.
LEMMA ClientPlaces ==
    ASSUME DialTypeOK, SessionPart, NEW c \in Conns, Client(c)
    PROVE  SessionPart'
<1>0. LoopPlaced /\ \A d \in Conns : Placed(d)
  BY DEF SessionPart
<1>1. /\ client \in [Conns -> Clients] /\ client[c] \in Clients /\ down \in [Conns -> Seq(Messages)]
  BY DEF DialTypeOK
<1>2. ASSUME UNCHANGED <<loop, sess, sessions, backlog, hung>>, client[c].at # "idle",
             client'[c].at # "idle", client[c].at # "failed",
             down'[c] = <<>> \/ down[c] # <<>> \/ down'[c] = down[c],
             \A d \in Conns \ {c} : client'[d] = client[d] /\ down'[d] = down[d]
      PROVE  SessionPart'
  <2>1. LoopPlaced'
    BY <1>0, <1>2 DEF LoopPlaced
  <2>2. \A d \in Conns : Placed(d)'
    BY <1>0, <1>2 DEF Placed, Accounted, Accepting
  <2> QED BY <2>1, <2>2 DEF SessionPart
<1>3. ASSUME NEW at \in {"failed", "over"}, NEW why, End(c, at, why), client[c].at \notin {"idle", "failed"}
      PROVE  SessionPart'
  <2>1. client'[c].at = at
    BY <1>1, <1>3 DEF End, NoClient
  <2> QED BY <1>1, <1>2, <1>3, <2>1 DEF End, serverVars
<1>4. CASE LoginFails(c) \/ ContextEnds(c) \/ ReadFatal(c) \/ ReadFails(c) \/ GiveUp(c)
  BY <1>3, <1>4 DEF LoginFails, ContextEnds, ReadFatal, ReadFails, GiveUp, Dialing
<1>5. CASE ReadBanner(c)
  <2>1. client'[c].at \in {"challenge", "login"}
    BY <1>1, <1>5 DEF ReadBanner, Exchange, Clients
  <2> QED BY <1>1, <1>2, <1>5, <2>1 DEF ReadBanner, Exchange, Consume, Arrived, serverVars
<1>6. CASE ReadLogin(c)
  <2>1. client'[c].at \in {"ready", "login"}
    BY <1>1, <1>6 DEF ReadLogin, Exchange, Clients
  <2> QED BY <1>1, <1>2, <1>6, <2>1 DEF ReadLogin, Exchange, Consume, Arrived, serverVars
<1>7. CASE ReadResponse(c)
  <2>1. client'[c].at = "ready" /\ \A d \in Conns \ {c} : client'[d] = client[d]
    BY <1>1, <1>7 DEF ReadResponse, Clients
  <2> QED BY <1>1, <1>2, <1>7, <2>1 DEF ReadResponse, Consume, Arrived, serverVars
<1>8. CASE ReadEvent(c)
  <2>1. client'[c].at = "ready"
    BY <1>1, <1>8 DEF ReadEvent, Clients
  <2> QED BY <1>1, <1>2, <1>8, <2>1 DEF ReadEvent, Consume, Arrived, serverVars
<1>9. CASE RawRead(c)
  BY <1>1, <1>2, <1>9 DEF RawRead, Consume, Arrived, serverVars
<1>10. CASE RawSend(c)
  <2>1. client'[c].at = "raw"
    BY <1>1, <1>10 DEF RawSend, Clients
  <2> QED BY <1>1, <1>2, <1>10, <2>1 DEF RawSend, serverVars
<1>11. CASE Act(c)
  <2>1. client'[c].at = "ready"
    BY <1>1, <1>11 DEF Act, Clients
  <2> QED BY <1>1, <1>2, <1>11, <2>1 DEF Act, serverVars
<1>12. CASE Connect(c)
  <2>1. /\ client[c].at = "idle" /\ client'[c].at # "idle"
        /\ \A d \in Conns \ {c} : client'[d] = client[d]
        /\ \/ client'[c].at = "failed" /\ backlog' = backlog
           \/ backlog' = backlog \cup {c}
    BY <1>1, <1>12 DEF Connect, Clients
  <2>2. LoopPlaced'
    BY <1>0, <1>12 DEF Connect, LoopPlaced, serverVars
  <2>3. \A d \in Conns : Placed(d)'
    BY <1>0, <1>12, <2>1 DEF Connect, Placed, Accounted, Accepting, serverVars
  <2> QED BY <2>2, <2>3 DEF SessionPart
<1> QED BY <1>4, <1>5, <1>6, <1>7, <1>8, <1>9, <1>10, <1>11, <1>12 DEF Client, Read
----------------------------------------------------------------------------
(* Close                                                                   *)

\* When the goroutines of the wait group are over, nothing is registered,
\* recorded or started any more.
LEMMA GroupStaysDone ==
    ASSUME DialTypeOK, SessionPart, DialNext, GroupDone
    PROVE  GroupDone' /\ violations' = violations
<1>1. /\ loop.at = "stopped"
      /\ \A c \in Conns : sess[c].at \notin {"serving", "ending"} /\ sess[c].todo = <<>>
  BY DEF GroupDone, Running, SessionPart, Placed
<1>2. CASE UNCHANGED <<loop, sess, violations>>
  BY <1>2 DEF GroupDone, Running
<1>3. ~AcceptLoop
  BY <1>1 DEF AcceptLoop, Accept, AcceptFails, Register, Start
<1>4. \A c \in Conns : ~Serve(c)
  BY <1>1 DEF Serve, ReadCall, ReadEnd, RecordViolation, MarkAuthed, SetEventMask, Hold, HangupSelf,
              EndSession, Unregister, SessionWrite, Doing
<1>5. ASSUME NEW t \in Callers, Begin(t) \/ Continue(t) PROVE UNCHANGED <<loop, sess, violations>>
  BY <1>5 DEF Begin, Broadcast, Raw, Reply, HandleAction, Hangup, Close, Continue, CallerWrite,
              CloseListener, HangNext, Wait, Return
<1>6. ASSUME NEW c \in Conns, Client(c) PROVE UNCHANGED <<loop, sess, violations>>
  BY <1>6 DEF Client, Read, ReadBanner, ReadLogin, LoginFails, ReadResponse, ReadEvent, ReadFatal,
              ReadFails, RawRead, Connect, ContextEnds, Act, GiveUp, RawSend, End, serverVars
<1> QED BY <1>2, <1>3, <1>4, <1>5, <1>6 DEF DialNext, ServerStep

\* A call of Close returns when the group is done, with what has been recorded.
LEMMA CloseReturned ==
    ASSUME DialTypeOK, CallPart, DialNext, NEW t \in Callers,
           call'[t].op = "close", call'[t].at = "returned"
    PROVE  \/ call'[t] = call[t]
           \/ GroupDone /\ call'[t].err = violations /\ violations' = violations
<1>0. call \in [Callers -> Calls]
  BY DEF DialTypeOK
<1>1. CASE UNCHANGED call
  BY <1>1
<1>2. ASSUME AcceptLoop \/ \E c \in Conns : Serve(c) PROVE UNCHANGED call
  BY <1>2 DEF AcceptLoop, Accept, AcceptFails, Register, Start, Serve, ReadCall, ReadEnd,
              RecordViolation, MarkAuthed, SetEventMask, Hold, HangupSelf, EndSession, Unregister,
              SessionWrite
<1>3. ASSUME NEW c \in Conns, Client(c) PROVE UNCHANGED call
  BY <1>3 DEF Client, Read, ReadBanner, ReadLogin, LoginFails, ReadResponse, ReadEvent, ReadFatal,
              ReadFails, RawRead, Connect, ContextEnds, Act, GiveUp, RawSend, End, serverVars
<1>4. ASSUME NEW u \in Callers, NEW op, NEW at, NEW live, NEW frame, Enter(u, op, at, live, frame),
             ~(op = "close" /\ at = "returned")
      PROVE  call'[t] = call[t]
  BY <1>0, <1>4 DEF Enter
<1>5. ASSUME NEW u \in Callers, Begin(u) PROVE call'[t] = call[t]
  BY <1>4, <1>5 DEF Begin, Broadcast, Raw, Reply, HandleAction, Hangup, Close
<1>6. ASSUME NEW u \in Callers, CallerWrite(u) \/ HangNext(u) PROVE call'[t] = call[t] \/ (t = u /\ call[t].at # "returned")
  BY <1>0, <1>6 DEF CallerWrite, HangNext
<1>7. ASSUME NEW u \in Callers, CallerWrite(u) \/ HangNext(u) PROVE call'[t].at = call[t].at
  BY <1>0, <1>7 DEF CallerWrite, HangNext, Calls
<1>8. ASSUME NEW u \in Callers, CloseListener(u) \/ Wait(u) PROVE call'[t] = call[t]
  <2>1. call'[u].at \in {"hanging", "waiting"} /\ (t # u => call'[t] = call[t])
    BY <1>0, <1>8 DEF CloseListener, Wait, Calls
  <2> QED BY <2>1
<1>9. ASSUME NEW u \in Callers, Return(u)
      PROVE  \/ call'[t] = call[t]
             \/ GroupDone /\ call'[t].err = violations /\ violations' = violations
  <2>1. CASE t # u
    BY <1>0, <1>9, <2>1 DEF Return
  <2>2. CASE t = u
    <3>1. call'[t].op = call[t].op /\ call'[t].err = IF call[t].op = "close" THEN violations ELSE {}
      BY <1>0, <1>9, <2>2 DEF Return, Calls
    <3>2. violations' = violations /\ (call[t].at = "waiting" => GroupDone)
      BY <1>9, <2>2 DEF Return
    <3>3. CASE call[t].at = "waiting"
      BY <3>1, <3>2, <3>3
    <3>4. CASE call[t].at # "waiting"
      BY <1>9, <2>2, <3>1, <3>4 DEF Return, CallPart, Called, Replying, Broadcasting
    <3> QED BY <3>3, <3>4
  <2> QED BY <2>1, <2>2
<1> QED BY <1>1, <1>2, <1>3, <1>5, <1>6, <1>7, <1>8, <1>9 DEF DialNext, ServerStep, Continue

\* What Close has returned stays true.
LEMMA CloseKeeps ==
    ASSUME DialTypeOK, SessionPart, ClosePart, CallPart, DialNext
    PROVE  ClosePart'
  BY GroupStaysDone, CloseReturned DEF ClosePart
----------------------------------------------------------------------------
(* What a step does to one connection                                      *)

SessionIs(c, at, authed, events, todo) ==
    /\ sess'[c].at = at /\ sess'[c].authed = authed /\ sess'[c].events = events
    /\ sess'[c].todo = todo
ClientIs(c, at, seq, pending, mask, seen) ==
    /\ client'[c].at = at /\ client'[c].seq = seq /\ client'[c].pending = pending
    /\ client'[c].mask = mask /\ client'[c].seen = seen

\* Of what has arrived for the server some is lost; the client writes a frame;
\* of what has arrived for the client nothing is new, or the first is read.
Kept(c) == Len(up'[c]) <= Len(up[c]) /\ \A i \in 1..Len(up'[c]) : up'[c][i] = up[c][i]
Sent(c, f) == up'[c] = Append(up[c], f) \/ (hung[c] /\ up'[c] = up[c])
Fewer(c) == \A i \in DOMAIN down'[c] : \E j \in DOMAIN down[c] : down'[c][i] = down[c][j]
Consumed(c) == down[c] # <<>> /\ down'[c] = Tail(down[c])
Delivered(c, m) ==
    down'[c] = IF hung[c] \/ left[c] THEN down[c] ELSE Append(down[c], m)

ClientStays(c) == client'[c] = client[c] /\ left'[c] = left[c]
SessionStays(c) == sess'[c] = sess[c]

\* The steps of the server.
Quiet(c) == ClientStays(c) /\ SessionStays(c) /\ Kept(c) /\ down'[c] = down[c]
Started(c) ==
    /\ ClientStays(c) /\ up'[c] = up[c] /\ down'[c] = down[c] /\ sess[c].at = "none"
    /\ SessionIs(c, "serving", sess[c].authed, sess[c].events, <<Write(Banner)>>)
Took(c) ==
    /\ ClientStays(c) /\ down'[c] = down[c]
    /\ sess[c].at = "serving" /\ sess[c].todo = <<>> /\ up[c] # <<>> /\ up'[c] = Tail(up[c])
    /\ \E todo \in {<<Do("end")>>}
                   \cup (IF sess[c].authed THEN {Dispatch(Head(up[c]))}
                         ELSE {Authenticate(Head(up[c]), sess[c].issued)}) :
          SessionIs(c, "serving", sess[c].authed, sess[c].events, todo)
ReadDone(c) ==
    /\ ClientStays(c) /\ up'[c] = up[c] /\ down'[c] = down[c]
    /\ sess[c].at = "serving" /\ sess[c].todo = <<>>
    /\ SessionIs(c, "serving", sess[c].authed, sess[c].events, <<Do("end")>>)
Did(c, step) == sess[c].at = "serving" /\ sess[c].todo # <<>> /\ sess[c].todo[1].do = step
Skipped(c) ==
    /\ ClientStays(c) /\ Kept(c) /\ down'[c] = down[c]
    /\ Did(c, "violate") \/ Did(c, "hold") \/ Did(c, "hangup")
    /\ SessionIs(c, "serving", sess[c].authed, sess[c].events, Tail(sess[c].todo))
Marked(c) ==
    /\ ClientStays(c) /\ up'[c] = up[c] /\ down'[c] = down[c] /\ Did(c, "mark")
    /\ SessionIs(c, "serving", TRUE, sess[c].todo[1].on, Tail(sess[c].todo))
Remasked(c) ==
    /\ ClientStays(c) /\ up'[c] = up[c] /\ down'[c] = down[c] /\ Did(c, "mask")
    /\ SessionIs(c, "serving", sess[c].authed, sess[c].todo[1].on, Tail(sess[c].todo))
Wrote(c) ==
    /\ ClientStays(c) /\ up'[c] = up[c] /\ Did(c, "write") /\ Delivered(c, sess[c].todo[1].frame)
    /\ SessionIs(c, "serving", sess[c].authed, sess[c].events, Tail(sess[c].todo))
Finished(c) ==
    /\ ClientStays(c) /\ up'[c] = <<>> /\ down'[c] = down[c] /\ hung'[c]
    /\ sess[c].at = "serving" /\ SessionIs(c, "ending", sess[c].authed, sess[c].events, <<>>)
Forgotten(c) ==
    /\ ClientStays(c) /\ up'[c] = up[c] /\ down'[c] = down[c]
    /\ sess[c].at = "ending" /\ SessionIs(c, "over", FALSE, FALSE, <<>>)

\* The steps of the callers.
Received(c, t) ==
    /\ ClientStays(c) /\ SessionStays(c) /\ up'[c] = up[c]
    /\ call[t].at = "writing" /\ call[t].live # <<>> /\ Head(call[t].live) = c
    /\ Delivered(c, call[t].frame)

\* The steps of the client.
Gone(c) ==
    /\ SessionStays(c) /\ ~Live(c)' /\ Fewer(c)
    /\ up'[c] = up[c] \/ \E f \in Requests : f.id[1] = c /\ up'[c] = Append(up[c], f)
Dialled(c) ==
    /\ SessionStays(c) /\ up'[c] = up[c] /\ down'[c] = down[c] /\ left'[c] = left[c]
    /\ client[c].at = "idle"
    /\ ClientIs(c, "banner", client[c].seq, client[c].pending, client[c].mask, client[c].seen)
Exchanged(c) ==
    /\ SessionStays(c) /\ Consumed(c) /\ left'[c] = left[c]
    /\ \E f \in Requests, at \in {"challenge", "login"} :
          /\ Sent(c, f) /\ f.id = <<c, client[c].seq + 1>>
          /\ ClientIs(c, at, client[c].seq + 1, client[c].pending, client[c].mask, client[c].seen)
          /\ at = "challenge" => f.name = "challenge" /\ client[c].at = "banner" /\ LoginNumber(c) = 2
          /\ at = "login" => /\ f.name = "login" /\ f.mask = LoginMask(c)
                             /\ \/ client[c].at = "banner" /\ LoginNumber(c) = 1
                                \/ client[c].at = "challenge"
LoggedOn(c) ==
    /\ SessionStays(c) /\ up'[c] = up[c] /\ Consumed(c) /\ left'[c] = left[c]
    /\ client[c].at = "login" /\ Get(down[c][1].ids) = <<c, client[c].seq>> /\ Success(down[c][1])
    /\ ClientIs(c, "ready", client[c].seq, client[c].pending, LoginMask(c), client[c].seen)
Acted(c) ==
    /\ SessionStays(c) /\ down'[c] = down[c] /\ left'[c] = left[c] /\ client[c].at = "ready"
    /\ \E p \in Actions, f \in Requests :
          /\ Sent(c, f) /\ f.id = <<c, client[c].seq + 1>>
          /\ p.id = f.id /\ p.name = f.name /\ p.mask = f.mask /\ p.owed = Owed(c)
          /\ ClientIs(c, "ready", client[c].seq + 1, client[c].pending \cup {p}, client[c].mask,
                      client[c].seen)
Responded(c) ==
    /\ SessionStays(c) /\ up'[c] = up[c] /\ Consumed(c) /\ left'[c] = left[c]
    /\ client[c].at = "ready" /\ Class(down[c][1]) = "response"
    /\ \E p \in client[c].pending :
          /\ p.id = Get(down[c][1].ids)
          /\ ClientIs(c, "ready", client[c].seq, client[c].pending \ {p},
                      IF p.name = "events" /\ Success(down[c][1]) THEN p.mask ELSE client[c].mask,
                      client[c].seen)
Saw(c) ==
    /\ SessionStays(c) /\ up'[c] = up[c] /\ Consumed(c) /\ left'[c] = left[c]
    /\ client[c].at = "ready" /\ Class(down[c][1]) = "event"
    /\ ClientIs(c, "ready", client[c].seq, client[c].pending, client[c].mask,
                client[c].seen \cup ({down[c][1].from} \ {Nobody}))

ServerEffect(c) ==
    \/ Quiet(c) \/ Started(c) \/ Took(c) \/ ReadDone(c) \/ Skipped(c) \/ Marked(c) \/ Remasked(c)
    \/ Wrote(c) \/ Finished(c) \/ Forgotten(c) \/ \E t \in Callers : Received(c, t)
ClientEffect(c) ==
    Gone(c) \/ Dialled(c) \/ Exchanged(c) \/ LoggedOn(c) \/ Acted(c) \/ Responded(c) \/ Saw(c)

\* What has arrived is kept whole, or is cut short by a close.
LEMMA KeptSame ==
    ASSUME DialTypeOK, NEW c \in Conns, up'[c] = up[c]
    PROVE  Kept(c)
<1>1. up[c] \in Seq(Requests)
  BY DEF DialTypeOK
<1>2. Len(up[c]) \in Nat
  BY <1>1
<1> QED BY <1>2 DEF Kept

LEMMA HangKeeps ==
    ASSUME DialTypeOK, NEW c \in Conns, Hang(c), NEW d \in Conns
    PROVE  Kept(d) /\ (hung[d] => hung'[d])
<1>1. up \in [Conns -> Seq(Requests)] /\ up[c] \in Seq(Requests) /\ Len(up[c]) \in Nat
  BY DEF DialTypeOK
<1>2. CASE d # c
  BY <1>2, HangPlaces, KeptSame
<1>3. CASE d = c /\ hung[c]
  BY <1>3, KeptSame DEF Hang
<1>4. CASE d = c /\ ~hung[c]
  <2>1. \E kept \in 0..Len(up[c]) :
           /\ up' = [up EXCEPT ![c] = SubSeq(@, 1, kept)]
           /\ reset' = [reset EXCEPT ![c] = @ \/ kept < Len(up[c])]
    BY <1>1, <1>4 DEF Hang
  <2>2. PICK kept \in 0..Len(up[c]) : up' = [up EXCEPT ![c] = SubSeq(@, 1, kept)]
    BY <2>1
  <2>3. up'[c] = SubSeq(up[c], 1, kept)
    BY <1>1, <2>2
  <2>4. Kept(c)
    BY <1>1, <2>2, <2>3, CutSeq DEF Kept
  <2> QED BY <1>4, <2>4, HangPlaces
<1> QED BY <1>2, <1>3, <1>4

\* A write appends to what is on its way, or drops the frame.
LEMMA DeliverKeeps ==
    ASSUME DialTypeOK, NEW c \in Conns, NEW m, Deliver(c, m), NEW d \in Conns
    PROVE  Delivered(c, m) /\ (d # c => down'[d] = down[d])
<1>1. down \in [Conns -> Seq(Messages)]
  BY DEF DialTypeOK
<1> QED BY <1>1 DEF Deliver, Delivered

\* Each step, as one connection sees it.
LEMMA AcceptEffect ==
    ASSUME DialTypeOK, SessionPart, AcceptLoop, UNCHANGED client, NEW d \in Conns
    PROVE  ServerEffect(d) /\ (hung[d] => hung'[d]) /\ script' = script
<1>1. CASE UNCHANGED <<sess, down, left, up, hung, script>>
  BY <1>1, KeptSame DEF ServerEffect, Quiet, ClientStays, SessionStays
<1>2. ASSUME NEW c \in Conns, Accept(c) PROVE UNCHANGED <<sess, down, left, up, hung, script>>
  BY <1>2 DEF Accept
<1>3. CASE AcceptFails
  BY <1>1, <1>3 DEF AcceptFails, connVars
<1>4. CASE Register
  <2>1. loop.conn \in Conns
    BY <1>4 DEF Register, SessionPart, LoopPlaced
  <2>2. CASE closed
    <3>1. Hang(loop.conn)
      BY <1>4, <2>2 DEF Register, RegisterConn
    <3>2. Kept(d) /\ (hung[d] => hung'[d])
      BY <2>1, <3>1, HangKeeps
    <3> QED BY <1>4, <3>2 DEF Register, ServerEffect, Quiet, ClientStays, SessionStays
  <2>3. CASE ~closed
    BY <1>1, <1>4, <2>3 DEF Register, RegisterConn
  <2> QED BY <2>2, <2>3
<1>5. CASE Start
  <2>1. loop.conn \in Conns /\ loop.at = "start"
    BY <1>5 DEF Start, SessionPart, LoopPlaced
  <2>2. UNCHANGED <<down, left, up, hung, script>>
    BY <1>5 DEF Start, connVars
  <2>3. sess \in [Conns -> Sessions]
    BY DEF DialTypeOK
  <2>4. CASE d # loop.conn
    <3>1. sess'[d] = sess[d]
      BY <1>5, <2>1, <2>3, <2>4 DEF Start
    <3> QED BY <2>2, <3>1, KeptSame DEF ServerEffect, Quiet, ClientStays, SessionStays
  <2>5. CASE d = loop.conn
    <3>1. sess[d].at = "none"
      BY <2>1, <2>5 DEF SessionPart, Placed, Accepting
    <3>2. SessionIs(d, "serving", sess[d].authed, sess[d].events, <<Write(Banner)>>)
      BY <1>5, <2>1, <2>3, <2>5 DEF Start, Sessions, SessionIs, Write
    <3> QED BY <2>2, <3>1, <3>2 DEF ServerEffect, Started, ClientStays
  <2> QED BY <2>4, <2>5
<1> QED BY <1>1, <1>2, <1>3, <1>4, <1>5 DEF AcceptLoop

LEMMA ServeEffect ==
    ASSUME DialTypeOK, SessionPart, NEW c \in Conns, Serve(c), UNCHANGED client, NEW d \in Conns
    PROVE  ServerEffect(d) /\ (hung[d] => hung'[d]) /\ script' = script
<1>0. /\ sess \in [Conns -> Sessions] /\ hung \in [Conns -> BOOLEAN]
      /\ down \in [Conns -> Seq(Messages)] /\ up \in [Conns -> Seq(Requests)]
      /\ sess[c].todo \in Seq(Steps)
      /\ sess[c].todo # <<>> => ToDo(c) = sess[c].todo[1] /\ sess[c].at = "serving"
  BY TailSeq DEF DialTypeOK, SessionPart, Placed, Sessions, ToDo
<1>1. /\ script' = script /\ UNCHANGED left
      /\ d # c => sess'[d] = sess[d]
    BY <1>0 DEF Serve, ReadCall, ReadEnd, RecordViolation, MarkAuthed, SetEventMask, Hold,
                HangupSelf, EndSession, Unregister, SessionWrite, Done, connVars
<1>2. CASE ReadCall(c)
  <2>1. d # c => up'[d] = up[d]
    BY <1>0, <1>2 DEF ReadCall
  <2>2. UNCHANGED <<down, hung>>
    BY <1>2 DEF ReadCall
  <2>3. d = c => Took(c)
    <3> DEFINE f == Head(up[c])
               todo == IF f.name \in {"malformed", "nameless"} THEN <<Do("end")>>
                       ELSE IF sess[c].authed THEN Dispatch(f)
                       ELSE Authenticate(f, sess[c].issued)
               issued == sess[c].issued \/ (f.name = "challenge" /\ f.auth = "md5" /\ ~sess[c].authed)
    <3>1. sess' = [sess EXCEPT ![c].todo = todo, ![c].issued = issued]
      BY <1>2 DEF ReadCall
    <3>2. todo \in {<<Do("end")>>}
                   \cup (IF sess[c].authed THEN {Dispatch(Head(up[c]))}
                         ELSE {Authenticate(Head(up[c]), sess[c].issued)})
      OBVIOUS
    <3>3. sess[c].at = "serving" /\ sess[c].todo = <<>> /\ up[c] # <<>> /\ up'[c] = Tail(up[c])
      BY <1>0, <1>2 DEF ReadCall
    <3> HIDE DEF todo, issued
    <3>4. SessionIs(c, "serving", sess[c].authed, sess[c].events, todo)
      BY <1>0, <3>1, <3>3 DEF Sessions, SessionIs
    <3> QED BY <1>1, <2>2, <3>2, <3>3, <3>4 DEF Took, ClientStays
  <2> QED BY <1>1, <2>1, <2>2, <2>3, KeptSame DEF ServerEffect, Quiet, ClientStays, SessionStays
<1>3. ASSUME UNCHANGED <<up, down, hung>>, ServerEffect(c)
      PROVE  ServerEffect(d) /\ (hung[d] => hung'[d]) /\ script' = script
  <2>1. d # c => Quiet(d)
    BY <1>1, <1>3, KeptSame DEF Quiet, ClientStays, SessionStays
  <2> QED BY <1>1, <1>3, <2>1 DEF ServerEffect
<1>4. CASE ReadEnd(c)
  <2>1. ReadDone(c)
    BY <1>0, <1>1, <1>4 DEF ReadEnd, ReadDone, ClientStays, connVars, Sessions, SessionIs
  <2> QED BY <1>3, <1>4, <2>1 DEF ReadEnd, connVars, ServerEffect
<1>5. ASSUME NEW step, Doing(c, step) PROVE Did(c, step)
  BY <1>0, <1>5 DEF Doing, Did
<1>6. Done(c) /\ sess[c].todo # <<>> =>
         SessionIs(c, "serving", sess[c].authed, sess[c].events, Tail(sess[c].todo))
  BY <1>0 DEF Done, Sessions, SessionIs
<1>7. CASE RecordViolation(c)
  <2>1. Skipped(c)
    <3>1. Did(c, "violate") /\ up'[c] = up[c] /\ down'[c] = down[c] /\ Done(c) /\ sess[c].todo # <<>>
      BY <1>5, <1>7 DEF RecordViolation, connVars, Doing
    <3> QED BY <1>1, <1>6, <3>1, KeptSame DEF Skipped, ClientStays
  <2> QED BY <1>3, <1>7, <2>1 DEF RecordViolation, connVars, ServerEffect
<1>8. CASE Hold(c)
  <2>1. Skipped(c)
    <3>1. Did(c, "hold") /\ up'[c] = up[c] /\ down'[c] = down[c] /\ Done(c) /\ sess[c].todo # <<>>
      BY <1>5, <1>8 DEF Hold, connVars, Doing
    <3> QED BY <1>1, <1>6, <3>1, KeptSame DEF Skipped, ClientStays
  <2> QED BY <1>3, <1>8, <2>1 DEF Hold, connVars, ServerEffect
<1>9. CASE HangupSelf(c)
  <2>1. Did(c, "hangup") /\ down' = down /\ Done(c) /\ sess[c].todo # <<>> /\ Hang(c)
    BY <1>5, <1>9 DEF HangupSelf, Doing
  <2>2. Kept(d) /\ Kept(c) /\ (hung[d] => hung'[d])
    BY <2>1, HangKeeps
  <2>3. Skipped(c)
    BY <1>1, <1>6, <2>1, <2>2 DEF Skipped, ClientStays
  <2> QED BY <1>1, <2>1, <2>2, <2>3 DEF ServerEffect, Quiet, ClientStays, SessionStays
<1>10. CASE MarkAuthed(c)
  <2>1. Did(c, "mark") /\ UNCHANGED <<up, down, hung>> /\ sess[c].todo # <<>>
    BY <1>5, <1>10 DEF MarkAuthed, connVars, Doing
  <2> DEFINE rest == Tail(sess[c].todo)
             on == ToDo(c).on
  <2>2. sess' = [sess EXCEPT ![c].todo = rest, ![c].authed = TRUE, ![c].events = on]
    BY <1>10 DEF MarkAuthed
  <2> HIDE DEF rest, on
  <2>3. SessionIs(c, "serving", TRUE, on, rest)
    BY <1>0, <2>1, <2>2 DEF Sessions, SessionIs
  <2>4. Marked(c)
    BY <1>0, <1>1, <2>1, <2>3 DEF Marked, ClientStays, rest, on
  <2> QED BY <1>3, <2>1, <2>4 DEF ServerEffect
<1>11. CASE SetEventMask(c)
  <2>1. Did(c, "mask") /\ UNCHANGED <<up, down, hung>> /\ sess[c].todo # <<>>
    BY <1>5, <1>11 DEF SetEventMask, connVars, Doing
  <2> DEFINE rest == Tail(sess[c].todo)
             on == ToDo(c).on
  <2>2. sess' = [sess EXCEPT ![c].todo = rest, ![c].events = on]
    BY <1>11 DEF SetEventMask
  <2> HIDE DEF rest, on
  <2>3. SessionIs(c, "serving", sess[c].authed, on, rest)
    BY <1>0, <2>1, <2>2 DEF Sessions, SessionIs
  <2>4. Remasked(c)
    BY <1>0, <1>1, <2>1, <2>3 DEF Remasked, ClientStays, rest, on
  <2> QED BY <1>3, <2>1, <2>4 DEF ServerEffect
<1>12. CASE EndSession(c)
  <2>1. /\ up'[c] = <<>> /\ UNCHANGED down /\ hung'[c] /\ (hung[d] => hung'[d])
        /\ d # c => up'[d] = up[d]
    BY <1>0, <1>12 DEF EndSession
  <2>2. sess[c].at = "serving" /\ SessionIs(c, "ending", sess[c].authed, sess[c].events, <<>>)
    BY <1>0, <1>12 DEF EndSession, Doing, Sessions, SessionIs
  <2>3. Finished(c)
    BY <1>1, <2>1, <2>2 DEF Finished, ClientStays
  <2> QED BY <1>1, <2>1, <2>3, KeptSame DEF ServerEffect, Quiet, ClientStays, SessionStays
<1>13. CASE Unregister(c)
  <2>1. UNCHANGED <<up, down, hung>> /\ sess[c].at = "ending"
    BY <1>13 DEF Unregister, connVars
  <2>2. SessionIs(c, "over", FALSE, FALSE, <<>>)
    BY <1>0, <1>13 DEF Unregister, NoSession, SessionIs
  <2>3. Forgotten(c)
    BY <1>1, <2>1, <2>2 DEF Forgotten, ClientStays
  <2> QED BY <1>3, <2>1, <2>3 DEF ServerEffect
<1>14. CASE SessionWrite(c)
  <2>1. /\ Did(c, "write") /\ UNCHANGED <<up, hung>> /\ sess[c].todo # <<>> /\ Done(c)
        /\ Deliver(c, sess[c].todo[1].frame)
    BY <1>0, <1>5, <1>14 DEF SessionWrite, Doing
  <2>2. Delivered(c, sess[c].todo[1].frame) /\ (d # c => down'[d] = down[d])
    BY <2>1, DeliverKeeps
  <2>3. Wrote(c)
    BY <1>1, <1>6, <2>1, <2>2 DEF Wrote, ClientStays
  <2> QED BY <1>1, <2>1, <2>2, <2>3, KeptSame DEF ServerEffect, Quiet, ClientStays, SessionStays
<1> QED BY <1>2, <1>4, <1>7, <1>8, <1>9, <1>10, <1>11, <1>12, <1>13, <1>14 DEF Serve

LEMMA CallerEffect ==
    ASSUME DialTypeOK, NEW t \in Callers, Begin(t) \/ Continue(t), UNCHANGED client, NEW d \in Conns
    PROVE  /\ ServerEffect(d) /\ (hung[d] => hung'[d]) /\ script' = script
           /\ SessionStays(d) /\ ClientStays(d)
<1>0. /\ hung \in [Conns -> BOOLEAN] /\ call[t].live \in Seq(Conns)
      /\ call[t].live # <<>> => Head(call[t].live) \in Conns
  BY TailSeq DEF DialTypeOK, Calls
<1>1. script' = script /\ SessionStays(d) /\ ClientStays(d)
  BY DEF Begin, Broadcast, Raw, Reply, HandleAction, Hangup, Close, Continue, CallerWrite,
         CloseListener, HangNext, Wait, Return, connVars, SessionStays, ClientStays
<1>2. CASE UNCHANGED <<up, down, hung>>
  BY <1>1, <1>2, KeptSame DEF ServerEffect, Quiet
<1>3. CASE Begin(t) \/ Wait(t) \/ Return(t)
  BY <1>2, <1>3 DEF Begin, Broadcast, Raw, Reply, HandleAction, Hangup, Close, Wait, Return, connVars
<1>4. CASE CallerWrite(t)
  <2> DEFINE c == Head(call[t].live)
  <2>1. c \in Conns /\ Deliver(c, call[t].frame) /\ UNCHANGED <<up, hung>>
        /\ call[t].at = "writing" /\ call[t].live # <<>>
    BY <1>0, <1>4 DEF CallerWrite
  <2>2. Delivered(c, call[t].frame) /\ (d # c => down'[d] = down[d])
    BY <2>1, DeliverKeeps
  <2>3. d # c => Quiet(d)
    BY <1>1, <2>1, <2>2, KeptSame DEF Quiet
  <2>4. d = c => Received(d, t)
    BY <1>1, <2>1, <2>2 DEF Received
  <2> QED BY <1>1, <2>1, <2>3, <2>4 DEF ServerEffect
<1>5. CASE CloseListener(t)
  <2>1. UNCHANGED <<up, down>> /\ (hung[d] => hung'[d])
    BY <1>0, <1>5 DEF CloseListener
  <2> QED BY <1>1, <2>1, KeptSame DEF ServerEffect, Quiet
<1>6. CASE HangNext(t)
  <2>1. UNCHANGED down /\ Kept(d) /\ (hung[d] => hung'[d])
    BY <1>0, <1>6, HangKeeps DEF HangNext
  <2> QED BY <1>1, <2>1 DEF ServerEffect, Quiet
<1> QED BY <1>3, <1>4, <1>5, <1>6 DEF Continue

\* A client writes.
LEMMA SendEffect ==
    ASSUME DialTypeOK, NEW c \in Conns, NEW f \in Frames, Send(c, Frame(c, f))
    PROVE  /\ Frame(c, f) \in Requests /\ Frame(c, f).id = <<c, client[c].seq + 1>>
           /\ Frame(c, f).name = f.name /\ Frame(c, f).mask = f.mask
           /\ Sent(c, Frame(c, f)) /\ \A d \in Conns \ {c} : up'[d] = up[d]
<1>1. /\ Frame(c, f) \in Requests /\ Frame(c, f).id = <<c, client[c].seq + 1>>
  BY SendTypes DEF NewId
<1>2. Frame(c, f).name = f.name /\ Frame(c, f).mask = f.mask
  BY DEF Frame, Frames
<1>3. up \in [Conns -> Seq(Requests)] /\ hung \in [Conns -> BOOLEAN]
  BY DEF DialTypeOK
<1>4. Sent(c, Frame(c, f)) /\ \A d \in Conns \ {c} : up'[d] = up[d]
  BY <1>3 DEF Send, Sent
<1> QED BY <1>1, <1>2, <1>4

LEMMA ClientEffects ==
    ASSUME DialTypeOK, NEW c \in Conns, Client(c), NEW d \in Conns
    PROVE  /\ ServerEffect(d) \/ ClientEffect(d)
           /\ hung' = hung /\ script' = script /\ call' = call /\ held' = held
<1>0. /\ client \in [Conns -> Clients] /\ client[c] \in Clients /\ left \in [Conns -> BOOLEAN]
      /\ down \in [Conns -> Seq(Messages)] /\ up \in [Conns -> Seq(Requests)]
  BY DEF DialTypeOK
<1>1. /\ UNCHANGED <<hung, script, call, held, sess>>
  BY DEF Client, Read, ReadBanner, ReadLogin, LoginFails, ReadResponse, ReadEvent, ReadFatal,
         ReadFails, RawRead, Connect, ContextEnds, Act, GiveUp, RawSend, End, serverVars
<1>2. Arrived(c) /\ Consume(c) =>
         /\ Consumed(c) /\ Message(c) = down[c][1] /\ \A e \in Conns \ {c} : down'[e] = down[e]
  BY <1>0, TailSeq DEF Arrived, Consume, Consumed, Message
<1>3. ASSUME ClientEffect(c),
             \A e \in Conns \ {c} : /\ client'[e] = client[e] /\ up'[e] = up[e]
                                    /\ down'[e] = down[e] /\ left'[e] = left[e]
      PROVE  ServerEffect(d) \/ ClientEffect(d)
  <2>1. d # c => Quiet(d)
    BY <1>1, <1>3, KeptSame DEF Quiet, ClientStays, SessionStays
  <2> QED BY <1>3, <2>1 DEF ServerEffect
<1>4. ASSUME NEW at \in {"failed", "over"}, NEW why, End(c, at, why)
      PROVE  ServerEffect(d) \/ ClientEffect(d)
  <2>1. client'[c].at = at /\ \A e \in Conns \ {c} : client'[e] = client[e]
    BY <1>0, <1>4 DEF End, NoClient
  <2>2. /\ \A e \in Conns \ {c} : down'[e] = down[e] /\ left'[e] = left[e]
        /\ UNCHANGED up /\ down'[c] = <<>>
    BY <1>0, <1>4 DEF End
  <2>3. Gone(c)
    BY <1>1, <2>1, <2>2 DEF Gone, Live, Fewer, SessionStays
  <2> QED BY <1>3, <2>1, <2>2, <2>3 DEF ClientEffect
<1>5. CASE LoginFails(c) \/ ContextEnds(c) \/ ReadFatal(c) \/ ReadFails(c) \/ GiveUp(c)
  BY <1>1, <1>4, <1>5 DEF LoginFails, ContextEnds, ReadFatal, ReadFails, GiveUp
<1>6. ASSUME NEW at \in {"challenge", "login"}, NEW f \in Frames, Exchange(c, at, f)
      PROVE  /\ Frame(c, f) \in Requests /\ Sent(c, Frame(c, f))
             /\ Frame(c, f).id = <<c, client[c].seq + 1>>
             /\ Frame(c, f).name = f.name /\ Frame(c, f).mask = f.mask
             /\ ClientIs(c, at, client[c].seq + 1, client[c].pending, client[c].mask, client[c].seen)
             /\ \A e \in Conns \ {c} : client'[e] = client[e] /\ up'[e] = up[e]
  <2>1. client' = [client EXCEPT ![c].at = at, ![c].seq = @ + 1]
    BY <1>6 DEF Exchange
  <2>2. ClientIs(c, at, client[c].seq + 1, client[c].pending, client[c].mask, client[c].seen)
    BY <1>0, <2>1 DEF Clients, ClientIs
  <2>3. \A e \in Conns \ {c} : client'[e] = client[e]
    BY <1>0, <2>1
  <2> QED BY <1>6, <2>2, <2>3, SendEffect DEF Exchange
<1>7. ChallengeMD5 \in Frames /\ Login(c) \in Frames
  BY ScriptTypes
<1>8. /\ ChallengeMD5.name = "challenge" /\ Login(c).name = "login" /\ Login(c).mask = LoginMask(c)
  BY DEF ChallengeMD5, Login
<1>9. CASE ReadBanner(c)
  <2>1. Consumed(c) /\ UNCHANGED left /\ client[c].at = "banner" /\ \A e \in Conns \ {c} : down'[e] = down[e]
    BY <1>2, <1>9 DEF ReadBanner
  <2>2. CASE Config(c).auth = "md5"
    <3>1. Exchange(c, "challenge", ChallengeMD5) /\ LoginNumber(c) = 2
      BY <1>9, <2>2 DEF ReadBanner, LoginNumber
    <3> DEFINE f == Frame(c, ChallengeMD5)
    <3>2. /\ f \in Requests /\ Sent(c, f) /\ f.id = <<c, client[c].seq + 1>> /\ f.name = "challenge"
          /\ ClientIs(c, "challenge", client[c].seq + 1, client[c].pending, client[c].mask, client[c].seen)
          /\ \A e \in Conns \ {c} : client'[e] = client[e] /\ up'[e] = up[e]
      BY <1>6, <1>7, <1>8, <3>1
    <3> HIDE DEF f
    <3>3. Exchanged(c)
      BY <1>1, <2>1, <3>1, <3>2 DEF Exchanged, SessionStays
    <3> QED BY <1>1, <1>3, <2>1, <3>2, <3>3 DEF ClientEffect
  <2>3. CASE Config(c).auth # "md5"
    <3>1. Exchange(c, "login", Login(c)) /\ LoginNumber(c) = 1
      BY <1>9, <2>3 DEF ReadBanner, LoginNumber
    <3> DEFINE f == Frame(c, Login(c))
    <3>2. /\ f \in Requests /\ Sent(c, f) /\ f.id = <<c, client[c].seq + 1>> /\ f.name = "login"
          /\ f.mask = LoginMask(c)
          /\ ClientIs(c, "login", client[c].seq + 1, client[c].pending, client[c].mask, client[c].seen)
          /\ \A e \in Conns \ {c} : client'[e] = client[e] /\ up'[e] = up[e]
      BY <1>6, <1>7, <1>8, <3>1
    <3> HIDE DEF f
    <3>3. Exchanged(c)
      BY <1>1, <2>1, <3>1, <3>2 DEF Exchanged, SessionStays
    <3> QED BY <1>1, <1>3, <2>1, <3>2, <3>3 DEF ClientEffect
  <2> QED BY <2>2, <2>3
<1>10. CASE ReadLogin(c)
  <2>1. /\ Consumed(c) /\ UNCHANGED left /\ \A e \in Conns \ {c} : down'[e] = down[e]
        /\ client[c].at \in {"challenge", "login"}
    BY <1>2, <1>10 DEF ReadLogin
  <2>2. CASE client[c].at = "challenge"
    <3>1. Exchange(c, "login", Login(c))
      BY <1>10, <2>2 DEF ReadLogin
    <3> DEFINE f == Frame(c, Login(c))
    <3>2. /\ f \in Requests /\ Sent(c, f) /\ f.id = <<c, client[c].seq + 1>> /\ f.name = "login"
          /\ f.mask = LoginMask(c)
          /\ ClientIs(c, "login", client[c].seq + 1, client[c].pending, client[c].mask, client[c].seen)
          /\ \A e \in Conns \ {c} : client'[e] = client[e] /\ up'[e] = up[e]
      BY <1>6, <1>7, <1>8, <3>1
    <3> HIDE DEF f
    <3>3. Exchanged(c)
      BY <1>1, <2>1, <2>2, <3>1, <3>2 DEF Exchanged, SessionStays
    <3> QED BY <1>1, <1>3, <2>1, <3>2, <3>3 DEF ClientEffect
  <2>3. CASE client[c].at = "login"
    <3>1. client' = [client EXCEPT ![c].at = "ready", ![c].mask = LoginMask(c)] /\ UNCHANGED up
      BY <1>10, <2>3 DEF ReadLogin
    <3>2. /\ ClientIs(c, "ready", client[c].seq, client[c].pending, LoginMask(c), client[c].seen)
          /\ \A e \in Conns \ {c} : client'[e] = client[e]
      BY <1>0, <3>1 DEF Clients, ClientIs
    <3>3. Get(down[c][1].ids) = <<c, client[c].seq>> /\ Success(down[c][1])
      BY <1>2, <1>10, <2>1 DEF ReadLogin, Answers, LoginSuccess, Success
    <3>4. LoggedOn(c)
      BY <1>1, <2>1, <2>3, <3>1, <3>2, <3>3 DEF LoggedOn, SessionStays
    <3> QED BY <1>1, <1>3, <2>1, <3>1, <3>2, <3>4 DEF ClientEffect
  <2> QED BY <2>1, <2>2, <2>3
<1>11. CASE ReadResponse(c)
  <2>1. /\ Consumed(c) /\ UNCHANGED <<left, up>> /\ \A e \in Conns \ {c} : down'[e] = down[e]
        /\ client[c].at = "ready" /\ Class(down[c][1]) = "response" /\ Message(c) = down[c][1]
    BY <1>2, <1>11 DEF ReadResponse
  <2>2. PICK p \in Waiting(c) :
          client' = [client EXCEPT ![c].pending = @ \ {p},
              ![c].mask = IF p.name = "events" /\ Get(Message(c).responses) = "success"
                          THEN p.mask ELSE @]
    BY <1>11 DEF ReadResponse
  <2> DEFINE mask == IF p.name = "events" /\ Get(Message(c).responses) = "success"
                     THEN p.mask ELSE client[c].mask
             pending == client[c].pending \ {p}
  <2>3. client' = [client EXCEPT ![c] = [client[c] EXCEPT !.pending = pending, !.mask = mask]]
    BY <1>0, <2>2
  <2>4. mask = IF p.name = "events" /\ Success(down[c][1]) THEN p.mask ELSE client[c].mask
    BY <2>1 DEF Success
  <2> HIDE DEF mask, pending
  <2>5. /\ ClientIs(c, "ready", client[c].seq, pending, mask, client[c].seen)
        /\ \A e \in Conns \ {c} : client'[e] = client[e]
    BY <1>0, <2>1, <2>3 DEF Clients, ClientIs
  <2>6. p \in client[c].pending /\ p.id = Get(down[c][1].ids)
    BY <2>1, <2>2 DEF Waiting
  <2>7. Responded(c)
    BY <1>1, <2>1, <2>4, <2>5, <2>6 DEF Responded, SessionStays, pending
  <2> QED BY <1>1, <1>3, <2>1, <2>5, <2>7 DEF ClientEffect
<1>12. CASE ReadEvent(c)
  <2>1. /\ Consumed(c) /\ UNCHANGED <<left, up>> /\ \A e \in Conns \ {c} : down'[e] = down[e]
        /\ client[c].at = "ready" /\ Class(down[c][1]) = "event" /\ Message(c) = down[c][1]
    BY <1>2, <1>12 DEF ReadEvent
  <2>2. /\ ClientIs(c, "ready", client[c].seq, client[c].pending, client[c].mask,
                    client[c].seen \cup ({down[c][1].from} \ {Nobody}))
        /\ \A e \in Conns \ {c} : client'[e] = client[e]
    BY <1>0, <1>12, <2>1 DEF ReadEvent, Clients, ClientIs
  <2>3. Saw(c)
    BY <1>1, <2>1, <2>2 DEF Saw, SessionStays
  <2> QED BY <1>1, <1>3, <2>1, <2>2, <2>3 DEF ClientEffect
<1>13. CASE RawRead(c)
  <2>1. /\ Consumed(c) /\ UNCHANGED <<left, up, client>> /\ \A e \in Conns \ {c} : down'[e] = down[e]
        /\ client[c].at = "raw"
    BY <1>2, <1>13 DEF RawRead
  <2>2. Fewer(c)
    <3>1. down[c] \in Seq(Messages) /\ down[c] # <<>>
      BY <1>0, <2>1 DEF Consumed
    <3>2. /\ DOMAIN Tail(down[c]) = 1..Len(Tail(down[c])) /\ DOMAIN down[c] = 1..Len(down[c])
          /\ \A i \in 1..Len(Tail(down[c])) : i + 1 \in 1..Len(down[c]) /\ Tail(down[c])[i] = down[c][i + 1]
      BY <3>1, TailSeq
    <3> QED BY <2>1, <3>2 DEF Fewer, Consumed
  <2>3. Gone(c)
    BY <1>1, <2>1, <2>2 DEF Gone, Live, SessionStays
  <2> QED BY <1>1, <1>3, <2>1, <2>3 DEF ClientEffect
<1>14. CASE Connect(c)
  <2>1. UNCHANGED <<up, down, left>> /\ client[c].at = "idle"
    BY <1>14 DEF Connect
  <2>2. /\ \/ client'[c].at \in {"raw", "failed"}
           \/ ClientIs(c, "banner", client[c].seq, client[c].pending, client[c].mask, client[c].seen)
        /\ \A e \in Conns \ {c} : client'[e] = client[e]
    BY <1>0, <1>14 DEF Connect, Clients, ClientIs
  <2>3. Dialled(c) \/ Gone(c)
    BY <1>1, <2>1, <2>2 DEF Dialled, Gone, Live, Fewer, SessionStays
  <2> QED BY <1>1, <1>3, <2>1, <2>2, <2>3 DEF ClientEffect
<1>15. CASE RawSend(c)
  <2>1. UNCHANGED <<down, left>> /\ client[c].at = "raw" /\ Send(c, Frame(c, Sending(c)))
    BY <1>15 DEF RawSend
  <2>2. Sending(c) \in Frames
    BY <1>15, ScriptTypes DEF RawSend
  <2> DEFINE f == Frame(c, Sending(c))
  <2>3. /\ f \in Requests /\ f.id = <<c, client[c].seq + 1>> /\ Sent(c, f)
        /\ \A e \in Conns \ {c} : up'[e] = up[e]
    BY <2>1, <2>2, SendEffect
  <2>4. client'[c].at = "raw" /\ \A e \in Conns \ {c} : client'[e] = client[e]
    BY <1>0, <1>15 DEF RawSend, Clients
  <2> HIDE DEF f
  <2>5. f.id[1] = c
    BY <2>3
  <2>6. Gone(c)
    BY <1>1, <2>1, <2>3, <2>4, <2>5 DEF Gone, Live, Fewer, Sent, SessionStays
  <2> QED BY <1>1, <1>3, <2>1, <2>3, <2>4, <2>6 DEF ClientEffect
<1>16. CASE Act(c)
  <2>1. UNCHANGED <<down, left>> /\ client[c].at = "ready" /\ Send(c, Frame(c, Sending(c)))
    BY <1>16 DEF Act
  <2>2. Sending(c) \in Frames
    BY <1>16, ScriptTypes DEF Act
  <2> DEFINE f == Frame(c, Sending(c))
             p == [id |-> NewId(c), name |-> Sending(c).name, mask |-> Sending(c).mask,
                   owed |-> Owed(c)]
             pending == client[c].pending \cup {p}
  <2>3. /\ f \in Requests /\ f.id = <<c, client[c].seq + 1>> /\ Sent(c, f)
        /\ f.name = Sending(c).name /\ f.mask = Sending(c).mask
        /\ \A e \in Conns \ {c} : up'[e] = up[e]
    BY <2>1, <2>2, SendEffect
  <2>4. /\ p \in Actions /\ p.id = f.id /\ p.name = f.name /\ p.mask = f.mask /\ p.owed = Owed(c)
    BY <2>2, <2>3, SendTypes, <2>1 DEF Actions, Frames, Owed
  <2>5. client' = [client EXCEPT ![c].seq = @ + 1, ![c].sent = @ + 1, ![c].pending = pending]
    BY <1>16 DEF Act
  <2> HIDE DEF f, p
  <2>6. /\ ClientIs(c, "ready", client[c].seq + 1, pending, client[c].mask, client[c].seen)
        /\ \A e \in Conns \ {c} : client'[e] = client[e]
    BY <1>0, <2>1, <2>5 DEF Clients, ClientIs
  <2>7. Acted(c)
    BY <1>1, <2>1, <2>3, <2>4, <2>6 DEF Acted, SessionStays
  <2> QED BY <1>1, <1>3, <2>1, <2>3, <2>6, <2>7 DEF ClientEffect
<1> QED BY <1>1, <1>5, <1>9, <1>10, <1>11, <1>12, <1>13, <1>14, <1>15, <1>16 DEF Client, Read

LEMMA StepEffects ==
    ASSUME DialTypeOK, SessionPart, DialNext, NEW d \in Conns
    PROVE  (ServerEffect(d) \/ ClientEffect(d)) /\ (hung[d] => hung'[d]) /\ script' = script
  BY AcceptEffect, ServeEffect, CallerEffect, ClientEffects DEF DialNext, ServerStep

\* What no step changes: the frames, the ids and the captured calls of a client stay its own.
LEMMA ServerKeepsClient ==
    ASSUME NEW c \in Conns, ServerEffect(c)
    PROVE  client'[c] = client[c] /\ left'[c] = left[c] /\ (sess[c].at # "none" => sess'[c].at # "none")
  BY DEF ServerEffect, Quiet, Started, Took, ReadDone, Skipped, Marked, Remasked, Wrote, Finished,
         Forgotten, Received, ClientStays, SessionStays, SessionIs

\* A client that lives has lived, and uses a new id for each action.
LEMMA ClientMoves ==
    ASSUME DialTypeOK, NEW c \in Conns, ClientEffect(c)
    PROVE  /\ sess'[c] = sess[c] /\ (Live(c)' => Live(c))
           /\ Live(c)' => /\ client[c].seq \in Nat /\ client'[c].seq \in {client[c].seq, client[c].seq + 1}
                          /\ \A p \in client'[c].pending :
                                \/ p \in client[c].pending
                                \/ p.id = <<c, client[c].seq + 1>> /\ client[c].at = "ready"
                          /\ client[c].at \in {"login", "ready"} => client'[c].at = "ready"
<1>1. client[c].seq \in Nat
  BY DEF DialTypeOK, Clients
<1>2. CASE Gone(c)
  BY <1>2 DEF Gone, SessionStays
<1>3. CASE Dialled(c)
  BY <1>1, <1>3 DEF Dialled, SessionStays, ClientIs, Live
<1>4. CASE Exchanged(c)
  BY <1>1, <1>4 DEF Exchanged, SessionStays, ClientIs, Live
<1>5. CASE LoggedOn(c)
  BY <1>1, <1>5 DEF LoggedOn, SessionStays, ClientIs, Live
<1>6. CASE Acted(c)
  BY <1>1, <1>6 DEF Acted, SessionStays, ClientIs, Live
<1>7. CASE Responded(c)
  BY <1>1, <1>7 DEF Responded, SessionStays, ClientIs, Live
<1>8. CASE Saw(c)
  BY <1>1, <1>8 DEF Saw, SessionStays, ClientIs, Live
<1> QED BY <1>2, <1>3, <1>4, <1>5, <1>6, <1>7, <1>8 DEF ClientEffect

\* An id that was used stays used.
LEMMA IssuedKept ==
    ASSUME DialTypeOK, NEW c \in Conns, ServerEffect(c) \/ ClientEffect(c)
    PROVE  \A id \in Ids : Issued(c, id) => Issued(c, id)'
<1>1. ASSUME ServerEffect(c) PROVE \A id \in Ids : Issued(c, id) => Issued(c, id)'
  BY <1>1, ServerKeepsClient DEF Issued, Live
<1>2. ASSUME ClientEffect(c), Live(c)', NEW id \in Ids, Issued(c, id)
      PROVE  Issued(c, id)'
  <2>1. /\ Live(c) /\ client[c].seq \in Nat /\ client'[c].seq \in {client[c].seq, client[c].seq + 1}
    BY <1>2, ClientMoves
  <2>2. id[1] = c /\ id[2] \in 1..client[c].seq
    BY <1>2, <2>1 DEF Issued
  <2>3. id[2] \in 1..client'[c].seq
    BY <2>1, <2>2
  <2> QED BY <2>2, <2>3 DEF Issued
<1>3. ASSUME ClientEffect(c), ~Live(c)' PROVE \A id \in Ids : Issued(c, id) => Issued(c, id)'
  BY <1>3 DEF Issued
<1> QED BY <1>1, <1>2, <1>3

\* A captured call stays one.
LEMMA HeldKept ==
    ASSUME DialTypeOK, SessionPart, DialNext, NEW id \in Ids, HeldId(id)
    PROVE  HeldId(id)'
<1> DEFINE c == id[1]
<1>0. c \in Conns
  BY DEF Ids
<1>1. ServerEffect(c) \/ ClientEffect(c)
  BY <1>0, StepEffects
<1>2. script' = script
  BY <1>0, StepEffects
<1> HIDE DEF c
<1>3. CASE ServerEffect(c)
  BY <1>0, <1>2, <1>3, ServerKeepsClient DEF HeldId, Live, LoginNumber, Config, c
<1>4. CASE ClientEffect(c) /\ ~Live(c)'
  <2>1. sess'[c] = sess[c]
    BY <1>0, <1>4, ClientMoves
  <2> QED BY <1>4, <2>1 DEF HeldId, c
<1>5. CASE ClientEffect(c) /\ Live(c)'
  <2>1. /\ sess'[c] = sess[c] /\ Live(c)
        /\ client[c].seq \in Nat /\ client'[c].seq \in {client[c].seq, client[c].seq + 1}
        /\ \A p \in client'[c].pending :
              p \in client[c].pending \/ p.id = <<c, client[c].seq + 1>>
    BY <1>0, <1>5, ClientMoves
  <2>2. /\ id[2] \in (LoginNumber(c) + 1)..client[c].seq /\ sess[c].at # "none"
        /\ \A p \in client[c].pending : p.id = id => p.name = "hold"
    BY <2>1 DEF HeldId, c
  <2>3. LoginNumber(c)' = LoginNumber(c) /\ LoginNumber(c) \in Nat
    BY <1>2 DEF LoginNumber, Config
  <2>4. id[2] \in (LoginNumber(c) + 1)..client'[c].seq
    BY <2>1, <2>2, <2>3
  <2>5. id # <<c, client[c].seq + 1>>
    BY <2>1, <2>2, <2>3
  <2>6. \A p \in client'[c].pending : p.id = id => p.name = "hold"
    BY <2>1, <2>2, <2>5
  <2> QED BY <2>1, <2>2, <2>3, <2>4, <2>6 DEF HeldId, c
<1> QED BY <1>1, <1>3, <1>4, <1>5

\* Who has logged in has.
LEMMA LoggedInKept ==
    ASSUME DialTypeOK, SessionPart, DialNext, NEW c \in Conns, LoggedIn(c)
    PROVE  LoggedIn(c)'
<1>1. CASE ServerEffect(c)
  BY <1>1, ServerKeepsClient DEF LoggedIn, Live
<1>2. CASE ClientEffect(c)
  BY <1>2, ClientMoves DEF LoggedIn
<1> QED BY <1>1, <1>2, StepEffects
----------------------------------------------------------------------------
(* The calls of the test                                                   *)

\* A session that was served is not forgotten to have been.
LEMMA ReachedKept ==
    ASSUME DialTypeOK, SessionPart, DialNext, NEW c \in Conns, sess[c].at # "none"
    PROVE  sess'[c].at # "none"
  BY StepEffects, ServerKeepsClient, ClientMoves

\* A call that goes on, over no more sessions.
LEMMA CalledKept ==
    ASSUME DialTypeOK, SessionPart, DialNext, NEW t \in Callers, Called(t),
           call'[t].op = call[t].op, call'[t].at = call[t].at, call'[t].frame = call[t].frame,
           call'[t].among = call[t].among, ToSet(call'[t].live) \subseteq ToSet(call[t].live),
           call[t].at = "returned" => call'[t].live = call[t].live
    PROVE  Called(t)'
<1>1. /\ call[t].live \in Seq(Conns) /\ call[t].frame \in Messages \cup {Empty}
      /\ call[t].among \in SUBSET Conns
  BY DEF DialTypeOK, Calls
<1>2. ToSet(call[t].live) \subseteq Conns
  BY <1>1 DEF ToSet
<1>3. call[t].at = "writing" => \A c \in ToSet(call'[t].live) : sess'[c].at # "none"
  BY <1>2, ReachedKept DEF Called
<1>4. call[t].at = "writing" => (Replying(t) \/ Broadcasting(t))'
  <2>1. CASE Broadcasting(t)
    BY <2>1 DEF Broadcasting
  <2>2. CASE call[t].at = "writing" /\ Replying(t)
    <3>1. call[t].frame.ids[1] \in Ids
      <4>1. call[t].frame.ids \in Seq(Ids) /\ call[t].frame.ids = <<call[t].frame.ids[1]>>
        BY <1>1, <2>2 DEF Called, Replying, Messages
      <4> QED BY <4>1
    <3>2. HeldId(call[t].frame.ids[1])'
      <4> DEFINE id == call[t].frame.ids[1]
      <4>1. id \in Ids /\ HeldId(id)
        BY <2>2, <3>1 DEF Replying
      <4>2. \A x \in Ids : HeldId(x) => HeldId(x)'
        BY HeldKept
      <4>3. call'[t].frame.ids[1] = id
        OBVIOUS
      <4> HIDE DEF id
      <4> QED BY <4>1, <4>2, <4>3
    <3> QED BY <2>2, <3>2 DEF Replying
  <2> QED BY <2>1, <2>2 DEF Called
<1>5. call[t].op \in {"event", "raw"} => \A c \in call[t].among : LoggedIn(c)'
  BY <1>1, LoggedInKept DEF Called
<1> QED BY <1>3, <1>4, <1>5 DEF Called

LEMMA EnterCalls ==
    ASSUME DialTypeOK, NEW t \in Callers, NEW op, NEW at, NEW live, NEW frame,
           Enter(t, op, at, live, frame)
    PROVE  /\ call'[t].op = op /\ call'[t].at = at /\ call'[t].live = live
           /\ call'[t].frame = frame /\ call'[t].among = ToSet(live)
           /\ \A u \in Callers \ {t} : call'[u] = call[u]
<1>1. call \in [Callers -> Calls]
  BY DEF DialTypeOK
<1> QED BY <1>1 DEF Enter

\* The calls of the test go over sessions that are served.
LEMMA BeginCalls ==
    ASSUME DialTypeOK, SessionPart, ClientPart, CallPart, DialNext,
           NEW t \in Callers, Begin(t), UNCHANGED client
    PROVE  Called(t)' /\ \A u \in Callers \ {t} : call'[u] = call[u]
<1>0. ASSUME NEW masked, NEW c \in Audience(masked) PROVE c \in Conns /\ sess[c].at # "none" /\ LoggedIn(c)
  <2>1. c \in Conns /\ sess[c].authed
    BY <1>0 DEF Audience, DialTypeOK
  <2> QED BY <2>1 DEF SessionPart, Placed, ClientPart, Known, LoggedIn
<1>00. ASSUME NEW op \in {"event", "raw"}, NEW masked, NEW live \in SetToSeqs(Audience(masked)),
              NEW frame \in Messages, frame.ids = <<>>, frame.from = t,
              Enter(t, op, "writing", live, frame)
       PROVE  Called(t)'
  <2>1. ToSet(live) \subseteq Audience(masked)
    BY AudienceTypes, SnapshotSeq
  <2>2. \A c \in ToSet(live) : sess'[c].at # "none" /\ LoggedIn(c)'
    BY <1>0, <2>1, ReachedKept, LoggedInKept
  <2>4. /\ call'[t].op = op /\ call'[t].at = "writing" /\ call'[t].live = live
        /\ call'[t].frame = frame /\ call'[t].among = ToSet(live)
    BY <1>00, EnterCalls
  <2> QED BY <1>00, <2>2, <2>4 DEF Called, Broadcasting
<1>1. CASE Broadcast(t)
  <2>1. PICK live \in SetToSeqs(Audience(TRUE)) : Enter(t, "event", "writing", live, Event(<<>>, t))
    BY <1>1 DEF Broadcast
  <2>2. Event(<<>>, t) \in Messages /\ Event(<<>>, t).ids = <<>> /\ Event(<<>>, t).from = t
    BY MessageTypes DEF Event
  <2> QED BY <1>00, <2>1, <2>2, EnterCalls
<1>2. CASE Raw(t)
  <2>1. PICK frame \in RawFrames, live \in SetToSeqs(Audience(FALSE)) :
           Enter(t, "raw", "writing", live, [frame EXCEPT !.from = t])
    BY <1>2 DEF Raw
  <2> DEFINE m == [frame EXCEPT !.from = t]
  <2>2. m \in Messages /\ m.ids = <<>> /\ m.from = t
    <3>1. frame \in [events : Seq(Values), lists : Seq(Values), responses : Seq(Values),
                     ids : {<<>>}, from : {Empty}]
      BY TestServerAssumption
    <3> QED BY <3>1, RawTypes
  <2> HIDE DEF m
  <2>3. Enter(t, "raw", "writing", live, m)
    BY <2>1 DEF m
  <2> QED BY <1>00, <2>2, <2>3, EnterCalls
<1>3. CASE Reply(t)
  <2>1. PICK id \in held : /\ Enter(t, "reply", "writing", <<id[1]>>, Response("success", id))
                           /\ held' = held \ {id}
    BY <1>3 DEF Reply
  <2>2. id \in Ids /\ HeldId(id)
    BY <2>1 DEF DialTypeOK, CallPart
  <2>3. HeldId(id)' /\ id[1] \in Conns /\ sess[id[1]].at # "none"
    BY <2>2, HeldKept DEF HeldId, Ids
  <2>4. sess'[id[1]].at # "none"
    BY <2>3, ReachedKept
  <2> DEFINE m == Response("success", id)
  <2>5. /\ m \in Messages /\ m.ids = <<id>> /\ m.from = Nobody
    BY <2>2, MessageTypes DEF Values, Response
  <2>7. ToSet(<<id[1]>>) = {id[1]}
    BY DEF ToSet
  <2> HIDE DEF m
  <2>8. /\ call'[t].op = "reply" /\ call'[t].at = "writing" /\ call'[t].live = <<id[1]>>
        /\ call'[t].frame = m /\ \A u \in Callers \ {t} : call'[u] = call[u]
    BY <2>1, EnterCalls DEF m
  <2>9. m.ids = <<m.ids[1]>> /\ m.ids[1] = id
    BY <2>5
  <2>10. Replying(t)'
    <3>1. ToSet(call'[t].live) \subseteq {id[1]}
      BY <2>7, <2>8
    <3>2. /\ call'[t].frame.ids[1] = id /\ call'[t].frame.ids = <<call'[t].frame.ids[1]>>
          /\ call'[t].frame.from = Nobody
      BY <2>5, <2>8, <2>9
    <3> QED BY <2>3, <2>8, <3>1, <3>2 DEF Replying
  <2> QED BY <2>4, <2>5, <2>7, <2>8, <2>10 DEF Called
<1>4. CASE HandleAction(t)
  <2>1. Enter(t, "handle", "returned", <<>>, Empty)
    BY <1>4 DEF HandleAction
  <2> QED BY <2>1, EnterCalls DEF Called
<1>5. CASE Hangup(t)
  <2>1. PICK live \in SetToSeqs(sessions) : Enter(t, "hangup", "hanging", live, Empty)
    BY <1>5 DEF Hangup
  <2> QED BY <2>1, EnterCalls DEF Called
<1>6. CASE Close(t)
  <2>1. \E at \in {"waiting", "closing"} : \E live : Enter(t, "close", at, live, Empty)
    BY <1>6 DEF Close
  <2> QED BY <2>1, EnterCalls DEF Called
<1> QED BY <1>1, <1>2, <1>3, <1>4, <1>5, <1>6 DEF Begin

LEMMA ContinueCalls ==
    ASSUME DialTypeOK, SessionPart, CallPart, DialNext,
           NEW t \in Callers, Continue(t), UNCHANGED client
    PROVE  Called(t)' /\ \A u \in Callers \ {t} : call'[u] = call[u]
<1>0. /\ call \in [Callers -> Calls] /\ call[t].live \in Seq(Conns) /\ Called(t)
      /\ call[t].live # <<>> => ToSet(Tail(call[t].live)) \subseteq ToSet(call[t].live)
      /\ call[t].among \in SUBSET Conns
  <2>1. call \in [Callers -> Calls] /\ call[t].live \in Seq(Conns) /\ Called(t) /\ call[t].among \in SUBSET Conns
    BY DEF DialTypeOK, Calls, CallPart
  <2> QED BY <2>1, TailSeq
<1>1. CASE CallerWrite(t)
  <2>1. /\ call' = [call EXCEPT ![t].live = Tail(@)] /\ call[t].at = "writing" /\ call[t].live # <<>>
    BY <1>1 DEF CallerWrite
  <2>2. /\ call'[t].op = call[t].op /\ call'[t].at = call[t].at /\ call'[t].frame = call[t].frame
        /\ call'[t].among = call[t].among /\ call'[t].live = Tail(call[t].live)
        /\ \A u \in Callers \ {t} : call'[u] = call[u]
    BY <1>0, <2>1 DEF Calls
  <2> QED BY <1>0, <2>1, <2>2, CalledKept
<1>2. CASE HangNext(t)
  <2>1. /\ call' = [call EXCEPT ![t].live = Tail(@)] /\ call[t].at = "hanging" /\ call[t].live # <<>>
    BY <1>2 DEF HangNext
  <2>2. /\ call'[t].op = call[t].op /\ call'[t].at = call[t].at
        /\ \A u \in Callers \ {t} : call'[u] = call[u]
    BY <1>0, <2>1 DEF Calls
  <2> QED BY <1>0, <2>1, <2>2 DEF Called
<1>3. CASE CloseListener(t) \/ Wait(t)
  <2>1. /\ call'[t].op = call[t].op /\ call'[t].at \in {"hanging", "waiting"}
        /\ call[t].at \in {"closing", "hanging"}
        /\ \A u \in Callers \ {t} : call'[u] = call[u]
    BY <1>0, <1>3 DEF CloseListener, Wait, Calls
  <2> QED BY <1>0, <2>1 DEF Called
<1>4. CASE Return(t)
  <2> DEFINE err == IF call[t].op = "close" THEN violations ELSE {}
  <2>1. call' = [call EXCEPT ![t] = [call[t] EXCEPT !.at = "returned", !.frame = Empty, !.err = err]]
    BY <1>0, <1>4 DEF Return
  <2> HIDE DEF err
  <2>2. /\ call'[t].op = call[t].op /\ call'[t].at = "returned" /\ call'[t].live = call[t].live
        /\ call'[t].among = call[t].among /\ \A u \in Callers \ {t} : call'[u] = call[u]
    BY <1>0, <2>1 DEF Calls
  <2>3. call[t].live = <<>>
    BY <1>4 DEF Return
  <2>4. call[t].op \in {"event", "raw"} => \A c \in call[t].among : LoggedIn(c)'
    BY <1>0, LoggedInKept DEF Called
  <2> QED BY <2>2, <2>3, <2>4 DEF Called
<1> QED BY <1>1, <1>2, <1>3, <1>4 DEF Continue

\* Each step keeps the calls and the captured calls right.
LEMMA CallStep ==
    ASSUME DialTypeOK, SessionPart, ClientPart, TodoPart, CallPart, DialNext
    PROVE  CallPart'
<1>0. /\ held \subseteq Ids /\ \A id \in held : HeldId(id)
      /\ \A t \in Callers : Called(t)
  BY DEF DialTypeOK, CallPart
<1>1. CASE UNCHANGED call /\ held' \subseteq held
  <2>1. \A id \in held' : HeldId(id)'
    BY <1>0, <1>1, HeldKept
  <2>2. \A t \in Callers : Called(t)'
    BY <1>0, <1>1, CalledKept
  <2> QED BY <2>1, <2>2 DEF CallPart
<1>2. ASSUME NEW c \in Conns, Client(c) PROVE UNCHANGED <<call, held>>
  BY <1>2, ClientEffects
<1>3. ASSUME AcceptLoop \/ \E c \in Conns : Serve(c) /\ ~Hold(c) PROVE UNCHANGED <<call, held>>
  BY <1>3 DEF AcceptLoop, Accept, AcceptFails, Register, Start, Serve, ReadCall, ReadEnd,
              RecordViolation, MarkAuthed, SetEventMask, HangupSelf, EndSession, Unregister,
              SessionWrite
<1>4. ASSUME NEW c \in Conns, Hold(c) PROVE CallPart'
  <2>1. sess[c].todo \in Seq(Steps) /\ sess[c].todo # <<>>
    BY <1>4 DEF Hold, Doing, DialTypeOK, Sessions
  <2>2. ToDo(c) = sess[c].todo[1] /\ 1 \in DOMAIN sess[c].todo /\ ToDo(c) \in Steps
    BY <2>1, TailSeq DEF ToDo
  <2>3. ToDo(c).do = "hold" /\ UNCHANGED call /\ held' = held \cup {ToDo(c).id}
    BY <1>4 DEF Hold, Doing
  <2>4. ToDo(c).id \in Ids
    BY <2>2, <2>3, StepFields
  <2>5. HeldId(ToDo(c).id)
    BY <2>2, <2>3 DEF TodoPart, Due
  <2>6. \A id \in held' : HeldId(id)'
    <3>1. \A id \in held' : id \in Ids /\ HeldId(id)
      BY <1>0, <2>3, <2>4, <2>5
    <3> QED BY <3>1, HeldKept
  <2>7. \A t \in Callers : Called(t)'
    BY <1>0, <2>3, CalledKept
  <2> QED BY <2>6, <2>7 DEF CallPart
<1>5. ASSUME NEW t \in Callers, Begin(t) \/ Continue(t), UNCHANGED client PROVE CallPart'
  <2>1. Called(t)' /\ \A u \in Callers \ {t} : call'[u] = call[u]
    BY <1>5, BeginCalls, ContinueCalls
  <2>2. \A u \in Callers \ {t} : Called(u)'
    BY <1>0, <2>1, CalledKept
  <2>3. held' \subseteq held
    BY <1>5 DEF Begin, Broadcast, Raw, Reply, HandleAction, Hangup, Close, Continue, CallerWrite,
                CloseListener, HangNext, Wait, Return
  <2>4. \A id \in held' : HeldId(id)'
    BY <1>0, <2>3, HeldKept
  <2> QED BY <2>1, <2>2, <2>4 DEF CallPart
<1> QED BY <1>1, <1>2, <1>3, <1>4, <1>5 DEF DialNext, ServerStep
----------------------------------------------------------------------------
(* What a client is, and what its server knows of it                       *)

\* A message that answers an id of c bears that id, and no other.
LEMMA AnswerId ==
    ASSUME DialTypeOK, NEW c \in Conns, NEW m \in Messages, Answer(c, m),
           NEW id \in Ids, Get(m.ids) = id
    PROVE  m.ids = <<id>>
<1>1. m.ids # <<>>
  BY TestServerAssumption DEF Get
<1> QED BY <1>1 DEF Answer, Get

\* What a client knows survives the steps of the server, and its own.
LEMMA ServerKeepsKnown ==
    ASSUME DialTypeOK, SessionPart, ClientPart, TodoPart, NEW c \in Conns, ServerEffect(c),
           script' = script, Live(c)'
    PROVE  Known(c)'
<1>1. client'[c] = client[c] /\ left'[c] = left[c] /\ (sess[c].at # "none" => sess'[c].at # "none")
  BY ServerKeepsClient
<1>2. Live(c) /\ Known(c) /\ LoginNumber(c)' = LoginNumber(c)
  BY <1>1 DEF Live, ClientPart, LoginNumber, Config
<1>3. sess'[c].authed => client[c].at \in {"login", "ready"}
  <2>1. CASE Marked(c)
    <3>1. sess[c].todo \in Seq(Steps) /\ sess[c].todo # <<>> /\ sess[c].todo[1].do = "mark"
      BY <2>1 DEF Marked, Did, DialTypeOK, Sessions
    <3>2. 1 \in DOMAIN sess[c].todo
      BY <3>1
    <3>3. client[c].at = "login"
      BY <1>2, <3>1, <3>2 DEF TodoPart, Due, MarkDue
    <3> QED BY <3>3
  <2>2. CASE ~Marked(c)
    <3>1. sess'[c].authed => sess[c].authed
      BY <2>2 DEF ServerEffect, Quiet, Started, Took, ReadDone, Skipped, Remasked, Wrote, Finished,
                  Forgotten, Received, SessionStays, SessionIs
    <3> QED BY <1>2, <3>1 DEF Known
  <2> QED BY <2>1, <2>2
<1>4. client[c].at = "ready" /\ sess'[c].at \in {"serving", "ending"} => sess'[c].authed
  <2>1. client[c].at = "ready" => sess[c].at # "none"
    BY <1>2 DEF Known
  <2>2. client[c].at = "ready" /\ sess[c].at \in {"serving", "ending"} => sess[c].authed
    BY <1>2 DEF Known
  <2> QED BY <2>1, <2>2 DEF ServerEffect, Quiet, Started, Took, ReadDone, Skipped, Marked, Remasked,
                            Wrote, Finished, Forgotten, Received, SessionStays, SessionIs, Did
<1> QED BY <1>1, <1>2, <1>3, <1>4 DEF Known

LEMMA ClientKeepsKnown ==
    ASSUME DialTypeOK, SessionPart, ClientPart, DownPart, NEW c \in Conns, ClientEffect(c),
           script' = script, Live(c)'
    PROVE  Known(c)'
<1>0. /\ Live(c) /\ Known(c) /\ sess'[c] = sess[c] /\ client[c].seq \in Nat
  BY ClientMoves DEF ClientPart
<1>1. /\ LoginNumber(c)' = LoginNumber(c) /\ LoginNumber(c) \in {1, 2}
  BY DEF LoginNumber, Config
<1>2. down[c] # <<>> => sess[c].at # "none"
  BY DEF SessionPart, Placed
<1>3. CASE Dialled(c)
  BY <1>0, <1>1, <1>3 DEF Dialled, ClientIs, Known
<1>4. CASE Exchanged(c)
  <2>1. PICK f \in Requests, at \in {"challenge", "login"} :
          /\ Sent(c, f) /\ f.id = <<c, client[c].seq + 1>>
          /\ ClientIs(c, at, client[c].seq + 1, client[c].pending, client[c].mask, client[c].seen)
          /\ at = "challenge" => f.name = "challenge" /\ client[c].at = "banner" /\ LoginNumber(c) = 2
          /\ at = "login" => /\ f.name = "login" /\ f.mask = LoginMask(c)
                             /\ \/ client[c].at = "banner" /\ LoginNumber(c) = 1
                                \/ client[c].at = "challenge"
    BY <1>4 DEF Exchanged
  <2>2. down[c] # <<>> /\ left'[c] = left[c]
    BY <1>4 DEF Exchanged, Consumed
  <2>3. client[c].at \in {"banner", "challenge"} /\ client[c].pending = {} /\ ~sess[c].authed
    BY <1>0, <2>1 DEF Known
  <2> QED BY <1>0, <1>1, <1>2, <2>1, <2>2, <2>3 DEF Known, ClientIs
<1>5. CASE LoggedOn(c)
  <2>1. /\ client[c].at = "login" /\ client[c].seq = LoginNumber(c) /\ client[c].pending = {}
    BY <1>0, <1>5 DEF LoggedOn, Known
  <2>2. sess[c].at \in {"serving", "ending"} => sess[c].authed
    <3>1. down[c] \in Seq(Messages) /\ down[c] # <<>>
      BY <1>5 DEF LoggedOn, Consumed, DialTypeOK
    <3>2. down[c][1] \in Messages /\ 1 \in DOMAIN down[c]
      BY <3>1
    <3>3. Arriving(c, down[c][1])
      BY <3>2 DEF DownPart
    <3>4. down[c][1].ids = << <<c, LoginNumber(c)>> >>
      <4>1. <<c, LoginNumber(c)>> \in Ids
        BY <1>1 DEF Ids
      <4> QED BY <1>5, <2>1, <3>2, <3>3, <4>1, AnswerId DEF LoggedOn, Arriving
    <3> QED BY <1>5, <2>1, <3>3, <3>4 DEF LoggedOn, Arriving, GrantsLogin
  <2> QED BY <1>0, <1>1, <1>5, <2>1, <2>2 DEF LoggedOn, ClientIs, Known
<1>6. CASE Acted(c)
  <2>1. PICK p \in Actions, f \in Requests :
          /\ Sent(c, f) /\ f.id = <<c, client[c].seq + 1>>
          /\ p.id = f.id /\ p.name = f.name /\ p.mask = f.mask /\ p.owed = Owed(c)
          /\ ClientIs(c, "ready", client[c].seq + 1, client[c].pending \cup {p}, client[c].mask,
                      client[c].seen)
    BY <1>6 DEF Acted
  <2>2. client[c].at = "ready" /\ left'[c] = left[c]
    BY <1>6 DEF Acted
  <2>3. ASSUME NEW q \in client'[c].pending
        PROVE  /\ q.id[1] = c /\ q.id[2] \in (LoginNumber(c) + 1)..client'[c].seq
               /\ \A r \in client'[c].pending : r.id = q.id => r = q
    <3>1. client'[c].seq = client[c].seq + 1 /\ client'[c].pending = client[c].pending \cup {p}
      BY <2>1 DEF ClientIs
    <3>2. p.id = <<c, client[c].seq + 1>> /\ client[c].seq >= LoginNumber(c)
      BY <1>0, <2>1, <2>2 DEF Known
    <3>3. \A r \in client[c].pending : r.id[1] = c /\ r.id[2] \in (LoginNumber(c) + 1)..client[c].seq
      BY <1>0 DEF Known
    <3>4. \A r \in client[c].pending : r.id # p.id
      BY <1>0, <1>1, <3>2, <3>3
    <3>5. CASE q = p
      BY <1>0, <1>1, <3>1, <3>2, <3>4, <3>5
    <3>6. CASE q \in client[c].pending
      <4>1. q.id[1] = c /\ q.id[2] \in (LoginNumber(c) + 1)..client'[c].seq
        BY <1>0, <1>1, <3>1, <3>3, <3>6
      <4>2. \A r \in client[c].pending : r.id = q.id => r = q
        BY <1>0, <3>6 DEF Known
      <4> QED BY <3>1, <3>4, <3>6, <4>1, <4>2
    <3> QED BY <3>1, <3>5, <3>6
  <2>4. client'[c].at = "ready" /\ client'[c].seq >= LoginNumber(c)
    BY <1>0, <1>1, <2>1, <2>2 DEF Known, ClientIs
  <2> QED BY <1>0, <1>1, <2>2, <2>3, <2>4 DEF Known
<1>7. CASE Responded(c)
  <2>1. /\ client[c].at = "ready" /\ client'[c].at = "ready" /\ client'[c].seq = client[c].seq
        /\ client'[c].pending \subseteq client[c].pending /\ left'[c] = left[c]
    BY <1>7 DEF Responded, ClientIs
  <2> QED BY <1>0, <1>1, <2>1 DEF Known
<1>8. CASE Saw(c)
  <2>1. /\ client[c].at = "ready" /\ client'[c].at = "ready" /\ client'[c].seq = client[c].seq
        /\ client'[c].pending = client[c].pending /\ left'[c] = left[c]
    BY <1>8 DEF Saw, ClientIs
  <2> QED BY <1>0, <1>1, <2>1 DEF Known
<1> QED BY <1>3, <1>4, <1>5, <1>6, <1>7, <1>8 DEF ClientEffect, Gone

LEMMA ClientStep ==
    ASSUME DialTypeOK, SessionPart, ClientPart, TodoPart, DownPart, DialNext
    PROVE  ClientPart'
<1>1. ASSUME NEW c \in Conns PROVE Live(c)' => Known(c)'
  BY <1>1, StepEffects, ServerKeepsKnown, ClientKeepsKnown
<1> QED BY <1>1 DEF ClientPart
----------------------------------------------------------------------------
(* The frames of a client                                                  *)

\* A frame that the client no longer writes stays what it was.
LEMMA RequestKept ==
    ASSUME DialTypeOK, ClientPart, NEW c \in Conns, ServerEffect(c) \/ ClientEffect(c),
           script' = script, NEW f \in Requests, Requested(c, f),
           Live(c)' => \A p \in client[c].pending \ client'[c].pending : p.name = "events" => p.id # f.id
    PROVE  Requested(c, f)'
<1>0. f.id \in Ids
  BY DEF Requests
<1>1. /\ LoginNumber(c)' = LoginNumber(c) /\ LoginNumber(c) \in {1, 2} /\ LoginMask(c)' = LoginMask(c)
  BY DEF LoginNumber, LoginMask, Config
<1>2. Issued(c, f.id)'
  BY <1>0, IssuedKept DEF Requested
<1>3. CASE ServerEffect(c)
  BY <1>1, <1>2, <1>3, ServerKeepsClient DEF Requested, Live
<1>4. CASE ~Live(c)'
  BY <1>2, <1>4 DEF Requested
<1>5. CASE ClientEffect(c) /\ Live(c)'
  <2>1. /\ Live(c) /\ client[c].seq \in Nat
        /\ \A p \in client'[c].pending :
              p \in client[c].pending \/ p.id = <<c, client[c].seq + 1>>
    BY <1>5, ClientMoves
  <2>2. f.id[2] \in 1..client[c].seq
    BY <2>1 DEF Requested, Issued
  <2>3. f.id # <<c, client[c].seq + 1>>
    BY <2>1, <2>2
  <2>4. \A p \in client'[c].pending : p.id = f.id => p.name = f.name /\ p.mask = f.mask
    BY <2>1, <2>3 DEF Requested
  <2>5. f.id[2] > LoginNumber(c) /\ f.name = "events" => \E p \in client'[c].pending : p.id = f.id
    <3>1. f.id[2] > LoginNumber(c) /\ f.name = "events" =>
             \E p \in client[c].pending : p.id = f.id /\ p.name = "events"
      BY <2>1 DEF Requested
    <3>2. \A p \in client[c].pending : p.id = f.id /\ p.name = "events" => p \in client'[c].pending
      BY <1>5
    <3> QED BY <3>1, <3>2
  <2> QED BY <1>1, <1>2, <2>1, <2>4, <2>5 DEF Requested
<1> QED BY <1>3, <1>4, <1>5

\* The frame that the client writes.
LEMMA RequestWritten ==
    ASSUME DialTypeOK, ClientPart, NEW c \in Conns, ClientEffect(c), script' = script,
           NEW f \in Requests, up'[c] = Append(up[c], f), up'[c] # up[c]
    PROVE  Requested(c, f)'
<1>0. /\ sess'[c] = sess[c] /\ (Live(c)' => Live(c)) /\ client[c].seq \in Nat
      /\ LoginNumber(c)' = LoginNumber(c) /\ LoginNumber(c) \in {1, 2} /\ LoginMask(c)' = LoginMask(c)
      /\ up[c] \in Seq(Requests)
  BY ClientMoves DEF LoginNumber, LoginMask, Config, DialTypeOK, Clients
<1>00. \A g \in Requests : Append(up[c], g) = Append(up[c], f) => g = f
  <2> TAKE g \in Requests
  <2>1. Append(up[c], g)[Len(up[c]) + 1] = g /\ Append(up[c], f)[Len(up[c]) + 1] = f
    BY <1>0, AppendSeq
  <2> QED BY <2>1
<1>1. CASE Gone(c)
  <2>1. f.id[1] = c
    BY <1>00, <1>1 DEF Gone
  <2> QED BY <1>1, <2>1 DEF Requested, Issued, Gone
<1>2. CASE Exchanged(c)
  <2>1. PICK g \in Requests, at \in {"challenge", "login"} :
          /\ Sent(c, g) /\ g.id = <<c, client[c].seq + 1>>
          /\ ClientIs(c, at, client[c].seq + 1, client[c].pending, client[c].mask, client[c].seen)
          /\ at = "challenge" => g.name = "challenge" /\ client[c].at = "banner" /\ LoginNumber(c) = 2
          /\ at = "login" => /\ g.name = "login" /\ g.mask = LoginMask(c)
                             /\ \/ client[c].at = "banner" /\ LoginNumber(c) = 1
                                \/ client[c].at = "challenge"
    BY <1>2 DEF Exchanged
  <2>2. g = f
    BY <1>00, <2>1 DEF Sent
  <2>3. client[c].at \in {"banner", "challenge"} /\ Live(c)
    BY <2>1 DEF Live
  <2>4. /\ client[c].pending = {} /\ (client[c].at = "banner" => client[c].seq = 0)
        /\ client[c].at = "challenge" => client[c].seq = 1 /\ LoginNumber(c) = 2
    BY <2>3 DEF ClientPart, Known
  <2>5. f.id[1] = c /\ f.id[2] = client[c].seq + 1
    BY <2>1, <2>2
  <2>6. /\ client'[c].seq = client[c].seq + 1 /\ client'[c].pending = {}
    BY <2>1, <2>4 DEF ClientIs
  <2>7. Issued(c, f.id)'
    BY <1>0, <2>5, <2>6 DEF Issued
  <2>8. CASE at = "challenge"
    BY <1>0, <2>1, <2>2, <2>4, <2>5, <2>6, <2>7, <2>8 DEF Requested
  <2>9. CASE at = "login"
    BY <1>0, <2>1, <2>2, <2>4, <2>5, <2>6, <2>7, <2>9 DEF Requested
  <2> QED BY <2>8, <2>9
<1>3. CASE Acted(c)
  <2>1. PICK p \in Actions, g \in Requests :
          /\ Sent(c, g) /\ g.id = <<c, client[c].seq + 1>>
          /\ p.id = g.id /\ p.name = g.name /\ p.mask = g.mask /\ p.owed = Owed(c)
          /\ ClientIs(c, "ready", client[c].seq + 1, client[c].pending \cup {p}, client[c].mask,
                      client[c].seen)
    BY <1>3 DEF Acted
  <2>2. g = f
    BY <1>00, <2>1 DEF Sent
  <2>3. client[c].at = "ready" /\ Live(c)
    BY <1>3 DEF Acted, Live
  <2>4. client[c].seq >= LoginNumber(c) /\ \A q \in client[c].pending : q.id[2] \in (LoginNumber(c) + 1)..client[c].seq
    BY <2>3 DEF ClientPart, Known
  <2>5. f.id[1] = c /\ f.id[2] = client[c].seq + 1
    BY <2>1, <2>2
  <2>6. /\ client'[c].seq = client[c].seq + 1 /\ client'[c].pending = client[c].pending \cup {p}
    BY <2>1 DEF ClientIs
  <2>7. Issued(c, f.id)'
    BY <1>0, <2>5, <2>6 DEF Issued
  <2>8. \A q \in client'[c].pending : q.id = f.id => q = p
    BY <1>0, <2>4, <2>5, <2>6
  <2>9. f.id[2] > LoginNumber(c)
    BY <1>0, <2>4, <2>5
  <2>10. ~(f.id[2] < LoginNumber(c)) /\ ~(f.id[2] = LoginNumber(c))
    BY <1>0, <2>4, <2>5
  <2> QED BY <1>0, <2>1, <2>2, <2>6, <2>7, <2>8, <2>9, <2>10 DEF Requested
<1>4. CASE Dialled(c) \/ LoggedOn(c) \/ Responded(c) \/ Saw(c)
  BY <1>4 DEF Dialled, LoggedOn, Responded, Saw
<1> QED BY <1>1, <1>2, <1>3, <1>4 DEF ClientEffect

\* What is on its way to the server was so before, or was written.
LEMMA UpMoves ==
    ASSUME DialTypeOK, DialTypeOK', NEW c \in Conns, ServerEffect(c) \/ ClientEffect(c), NEW i \in DOMAIN up'[c]
    PROVE  \/ \E j \in DOMAIN up[c] : up'[c][i] = up[c][j]
           \/ /\ ClientEffect(c) /\ up'[c] # up[c]
              /\ \E f \in Requests : up'[c] = Append(up[c], f) /\ up'[c][i] = f
<1>0. /\ up[c] \in Seq(Requests) /\ DOMAIN up[c] = 1..Len(up[c]) /\ Len(up[c]) \in Nat
  BY DEF DialTypeOK
<1>1. CASE up'[c] = up[c]
  BY <1>1
<1>2. CASE up'[c] = <<>>
  BY <1>2
<1>3. CASE Took(c)
  <2>1. up[c] # <<>> /\ up'[c] = Tail(up[c])
    BY <1>3 DEF Took
  <2>2. /\ DOMAIN Tail(up[c]) = 1..Len(Tail(up[c]))
        /\ \A k \in 1..Len(Tail(up[c])) : k + 1 \in 1..Len(up[c]) /\ Tail(up[c])[k] = up[c][k + 1]
    BY <1>0, <2>1, TailSeq
  <2> QED BY <1>0, <2>1, <2>2
<1>4. CASE Kept(c) /\ ServerEffect(c)
  <2>1. up'[c] \in Seq(Requests)
    BY DEF DialTypeOK
  <2>2. DOMAIN up'[c] = 1..Len(up'[c]) /\ Len(up'[c]) \in Nat
    BY <2>1
  <2>3. i \in 1..Len(up[c]) /\ up'[c][i] = up[c][i]
    BY <1>0, <1>4, <2>2 DEF Kept
  <2> QED BY <1>0, <2>3
<1>5. CASE ClientEffect(c) /\ up'[c] # up[c]
  <2>1. PICK f \in Requests : up'[c] = Append(up[c], f)
    BY <1>5 DEF ClientEffect, Gone, Dialled, Exchanged, LoggedOn, Acted, Responded, Saw, Sent
  <2>2. /\ DOMAIN up'[c] = 1..(Len(up[c]) + 1) /\ up'[c][Len(up[c]) + 1] = f
        /\ \A k \in 1..Len(up[c]) : up'[c][k] = up[c][k]
    BY <1>0, <2>1, AppendSeq
  <2>3. CASE i = Len(up[c]) + 1
    BY <1>5, <2>1, <2>2, <2>3
  <2>4. CASE i # Len(up[c]) + 1
    <3>1. i \in 1..Len(up[c])
      BY <1>0, <2>2, <2>4
    <3> QED BY <1>0, <2>2, <3>1
  <2> QED BY <2>3, <2>4
<1> QED BY <1>1, <1>2, <1>3, <1>4, <1>5
    DEF ServerEffect, Quiet, Started, ReadDone, Skipped, Marked, Remasked, Wrote, Finished,
        Forgotten, Received

\* The answer that a client takes for one of its actions bears its id only.
LEMMA ResponseId ==
    ASSUME DialTypeOK, DownPart, NEW c \in Conns, NEW p \in client[c].pending,
           down[c] # <<>>, p.id = Get(down[c][1].ids)
    PROVE  Bears(down[c][1], p) /\ 1 \in Answered(c, p)
<1>1. down[c] \in Seq(Messages) /\ p.id \in Ids
  BY DEF DialTypeOK, Clients, Actions
<1>2. down[c][1] \in Messages /\ 1 \in DOMAIN down[c]
  BY <1>1
<1>3. down[c][1].ids = <<p.id>>
  BY <1>1, <1>2, AnswerId DEF DownPart, Arriving
<1> QED BY <1>2, <1>3 DEF Bears, Answered

\* Each step keeps the requests on their way right.
LEMMA RequestStep ==
    ASSUME DialTypeOK, DialTypeOK', SessionPart, ClientPart, RequestPart, OncePart, DownPart, DialNext
    PROVE  RequestPart'
<1> SUFFICES ASSUME NEW c \in Conns, NEW f, NEW i, i \in DOMAIN up'[c], f = up'[c][i]
             PROVE  Requested(c, f)'
  BY DEF RequestPart
<1>0. (ServerEffect(c) \/ ClientEffect(c)) /\ script' = script /\ up[c] \in Seq(Requests)
  BY StepEffects DEF DialTypeOK
<1>1. CASE /\ ClientEffect(c) /\ up'[c] # up[c]
           /\ \E g \in Requests : up'[c] = Append(up[c], g) /\ up'[c][i] = g
  BY <1>0, <1>1, RequestWritten
<1>2. CASE \E j \in DOMAIN up[c] : up'[c][i] = up[c][j]
  <2>1. PICK j \in DOMAIN up[c] : up'[c][i] = up[c][j]
    BY <1>2
  <2>2. f \in Requests /\ Requested(c, f)
    BY <1>0, <2>1 DEF RequestPart
  <2>3. Live(c)' => \A p \in client[c].pending \ client'[c].pending : p.name = "events" => p.id # f.id
    <3>1. CASE ServerEffect(c) \/ (ClientEffect(c) /\ ~Responded(c) /\ ~Gone(c))
      BY <3>1, ServerKeepsClient DEF ClientEffect, Dialled, Exchanged, LoggedOn, Acted, Saw, ClientIs
    <3>2. CASE Responded(c)
      <4>1. PICK q \in client[c].pending :
               q.id = Get(down[c][1].ids) /\ client'[c].pending = client[c].pending \ {q}
        BY <3>2 DEF Responded, ClientIs
      <4>2. Answered(c, q) # {}
        BY <3>2, <4>1, ResponseId DEF Responded, Consumed
      <4>3. q.name = "events" => Queued(c, q) = {}
        BY <3>2, <4>2 DEF OncePart, Once, Responded
      <4>4. q.name = "events" => q.id # f.id
        BY <2>1, <4>3 DEF Queued
      <4> QED BY <4>1, <4>4
    <3>3. CASE Gone(c)
      BY <3>3 DEF Gone
    <3> QED BY <1>0, <3>1, <3>2, <3>3
  <2> QED BY <1>0, <2>2, <2>3, RequestKept
<1> QED BY <1>0, <1>1, <1>2, UpMoves
----------------------------------------------------------------------------
(* What a frame is answered with                                           *)

Reply1(f, disposition) == Write(Response(disposition, f.id))

\* What a session does with a frame, one case for each list of steps.
LEMMA DispatchCases ==
    ASSUME NEW f, handlers \subseteq HandlerNames
    PROVE  \/ f.name \in {"ping", "custom"} /\ Dispatch(f) = <<Reply1(f, "success")>>
           \/ f.name = "logoff" /\ Dispatch(f) = <<Reply1(f, "goodbye"), Do("hangup")>>
           \/ /\ f.name = "events"
              /\ Dispatch(f) = <<[do |-> "mask", on |-> EventMaskEnabled(f.mask)], Reply1(f, "success")>>
           \/ /\ f.name = "status"
              /\ Dispatch(f) = <<Reply1(f, "success"), Write(Event(<<f.id>>, Nobody))>>
           \/ f.name = "hold" /\ Dispatch(f) = <<[do |-> "hold", id |-> f.id]>>
           \/ Dispatch(f) = <<Violate(f.id), Reply1(f, "error")>>
<1>1. CASE f.name \notin handlers
  BY <1>1 DEF Dispatch, Unexpected, Refuse, Reply1
<1>2. CASE f.name \in handlers
  <2>1. Dispatch(f) = Handler(f) /\ f.name \in HandlerNames
    BY <1>2 DEF Dispatch
  <2>2. f.name \in {"ping", "logoff", "events", "status", "custom", "hold"}
    BY <2>1 DEF HandlerNames
  <2>3. CASE f.name \in {"ping", "custom"}
    BY <2>1, <2>3, HandlerCases DEF Reply1
  <2>4. CASE f.name = "logoff"
    BY <2>1, <2>4, HandlerCases DEF Reply1
  <2>5. CASE f.name = "events"
    BY <2>1, <2>5, HandlerCases DEF Reply1
  <2>6. CASE f.name = "status"
    BY <2>1, <2>6, HandlerCases DEF Reply1
  <2>7. CASE f.name = "hold"
    BY <2>1, <2>7, HandlerCases
  <2> QED BY <2>2, <2>3, <2>4, <2>5, <2>6, <2>7
<1> QED BY <1>1, <1>2

LEMMA AuthenticateCases ==
    ASSUME NEW f, NEW issued
    PROVE  \/ /\ f.name = "challenge"
              /\ \E disposition \in {"success", "error"} :
                    Authenticate(f, issued) = <<Reply1(f, disposition)>>
           \/ /\ f.name = "login"
              /\ Authenticate(f, issued) =
                    <<[do |-> "mark", on |-> EventMaskEnabled(f.mask)], Reply1(f, "success")>>
           \/ f.name = "login" /\ Authenticate(f, issued) = <<Reply1(f, "error"), Do("end")>>
           \/ Authenticate(f, issued) = <<Violate(f.id), Reply1(f, "error"), Do("end")>>
<1>1. CASE f.name = "challenge"
  BY <1>1 DEF Authenticate, Reply1
<1>2. CASE f.name = "login"
  BY <1>2 DEF Authenticate, AcceptLogin, Refuse, Reply1
<1>3. CASE f.name \notin {"challenge", "login"}
  BY <1>3 DEF Authenticate, Refuse, Reply1
<1> QED BY <1>1, <1>2, <1>3

\* Every write of an answer bears the id of the frame; all but the status handler
\* write one.
LEMMA AnswersOnce ==
    ASSUME NEW f \in Requests, handlers \subseteq HandlerNames, NEW issued,
           NEW todo \in {<<Do("end")>>, Dispatch(f), Authenticate(f, issued)}
    PROVE  /\ \A i \in DOMAIN todo : todo[i].do = "write" =>
                 todo[i].frame.ids = <<f.id>> /\ todo[i].frame.from = Nobody
           /\ f.name \in {"events", "ping"} =>
                 \A i, j \in DOMAIN todo : todo[i].do = "write" /\ todo[j].do = "write" => i = j
<1>1. f.id # Empty
  BY TestServerAssumption DEF Requests
<1>2. \A d : Reply1(f, d).do = "write" /\ Reply1(f, d).frame.ids = <<f.id>> /\ Reply1(f, d).frame.from = Nobody
  BY <1>1 DEF Reply1, Write, Response
<1>3. /\ Write(Event(<<f.id>>, Nobody)).do = "write" /\ Write(Event(<<f.id>>, Nobody)).frame.ids = <<f.id>>
      /\ Write(Event(<<f.id>>, Nobody)).frame.from = Nobody
      /\ Do("end").do = "end" /\ Do("hangup").do = "hangup" /\ Violate(f.id).do = "violate"
  BY DEF Write, Event, Do, Violate
<1> DEFINE mask == [do |-> "mask", on |-> EventMaskEnabled(f.mask)]
           mark == [do |-> "mark", on |-> EventMaskEnabled(f.mask)]
           hold == [do |-> "hold", id |-> f.id]
           event == Write(Event(<<f.id>>, Nobody))
<1>4. mask.do = "mask" /\ mark.do = "mark" /\ hold.do = "hold"
  OBVIOUS
<1> HIDE DEF mask, mark, hold, event
<1>5. CASE todo = <<Do("end")>>
  BY <1>3, <1>5
<1>6. CASE todo = Dispatch(f)
  <2>1. \/ f.name \in {"ping", "custom"} /\ todo = <<Reply1(f, "success")>>
        \/ f.name = "logoff" /\ todo = <<Reply1(f, "goodbye"), Do("hangup")>>
        \/ f.name = "events" /\ todo = <<mask, Reply1(f, "success")>>
        \/ f.name = "status" /\ todo = <<Reply1(f, "success"), event>>
        \/ f.name = "hold" /\ todo = <<hold>>
        \/ todo = <<Violate(f.id), Reply1(f, "error")>>
    BY <1>6, DispatchCases DEF mask, hold, event
  <2>2. CASE todo = <<Reply1(f, "success")>>
    BY <1>2, <2>2
  <2>3. CASE todo = <<Reply1(f, "goodbye"), Do("hangup")>>
    BY <1>2, <1>3, <2>3
  <2>4. CASE todo = <<mask, Reply1(f, "success")>>
    BY <1>2, <1>4, <2>4
  <2>5. CASE f.name = "status" /\ todo = <<Reply1(f, "success"), event>>
    BY <1>2, <1>3, <2>5 DEF event
  <2>6. CASE todo = <<hold>>
    BY <1>4, <2>6
  <2>7. CASE todo = <<Violate(f.id), Reply1(f, "error")>>
    BY <1>2, <1>3, <2>7
  <2> QED BY <2>1, <2>2, <2>3, <2>4, <2>5, <2>6, <2>7
<1>7. CASE todo = Authenticate(f, issued)
  <2>1. \/ \E disposition \in {"success", "error"} : todo = <<Reply1(f, disposition)>>
        \/ todo = <<mark, Reply1(f, "success")>>
        \/ todo = <<Reply1(f, "error"), Do("end")>>
        \/ todo = <<Violate(f.id), Reply1(f, "error"), Do("end")>>
    BY <1>7, AuthenticateCases DEF mark
  <2>2. CASE \E disposition \in {"success", "error"} : todo = <<Reply1(f, disposition)>>
    BY <1>2, <2>2
  <2>3. CASE todo = <<mark, Reply1(f, "success")>>
    BY <1>2, <1>4, <2>3
  <2>4. CASE todo = <<Reply1(f, "error"), Do("end")>>
    BY <1>2, <1>3, <2>4
  <2>5. CASE todo = <<Violate(f.id), Reply1(f, "error"), Do("end")>>
    BY <1>2, <1>3, <2>5
  <2> QED BY <2>1, <2>2, <2>3, <2>4, <2>5
<1> QED BY <1>5, <1>6, <1>7
----------------------------------------------------------------------------
(* An action is in one place at a time                                     *)

\* Places that are left, or move up by one.
Shrinks(R, Q) == R \subseteq Q \/ \A i \in R : i \in Nat /\ i + 1 \in Q

\* What loses members keeps having at most one.
LEMMA ShrinksOnce ==
    ASSUME NEW Q, NEW R, Shrinks(R, Q)
    PROVE  (AtMostOne(Q) => AtMostOne(R)) /\ (Q = {} => R = {})
<1>1. Q = {} => R = {}
  BY DEF Shrinks
<1>2. ASSUME AtMostOne(Q), NEW i \in R, NEW j \in R PROVE i = j
  <2>1. CASE R \subseteq Q
    BY <1>2, <2>1 DEF AtMostOne
  <2>2. CASE \A k \in R : k \in Nat /\ k + 1 \in Q
    <3>1. i + 1 = j + 1 /\ i \in Nat /\ j \in Nat
      BY <1>2, <2>2 DEF AtMostOne
    <3> QED BY <3>1
  <2> QED BY <2>1, <2>2 DEF Shrinks
<1> QED BY <1>1, <1>2 DEF AtMostOne

LEMMA OnceShrinks ==
    ASSUME NEW c, NEW p, Once(c, p), Shrinks(Queued(c, p)', Queued(c, p)),
           Shrinks(Served(c, p)', Served(c, p)), Shrinks(Answered(c, p)', Answered(c, p))
    PROVE  Once(c, p)'
BY ShrinksOnce DEF Once

\* Requests, steps and answers that are not new were there before.
LEMMA QueuedShrinks ==
    ASSUME DialTypeOK, DialTypeOK', NEW c \in Conns, NEW p,
           \/ Kept(c) \/ up'[c] = <<>> \/ (up[c] # <<>> /\ up'[c] = Tail(up[c]))
           \/ \E f \in Requests : f.id # p.id /\ up'[c] = Append(up[c], f)
    PROVE  Shrinks(Queued(c, p)', Queued(c, p))
<1>0. /\ up[c] \in Seq(Requests) /\ DOMAIN up[c] = 1..Len(up[c]) /\ Len(up[c]) \in Nat
      /\ up'[c] \in Seq(Requests) /\ DOMAIN up'[c] = 1..Len(up'[c]) /\ Len(up'[c]) \in Nat
  <2>1. up[c] \in Seq(Requests) /\ up'[c] \in Seq(Requests)
    BY DEF DialTypeOK
  <2> QED BY <2>1
<1>1. CASE Kept(c)
  <2>1. \A i \in DOMAIN up'[c] : i \in DOMAIN up[c] /\ up'[c][i] = up[c][i]
    BY <1>0, <1>1 DEF Kept
  <2> QED BY <2>1 DEF Shrinks, Queued
<1>2. CASE up'[c] = <<>>
  BY <1>2 DEF Shrinks, Queued
<1>3. CASE up[c] # <<>> /\ up'[c] = Tail(up[c])
  <2>1. /\ DOMAIN Tail(up[c]) = 1..Len(Tail(up[c]))
        /\ \A k \in 1..Len(Tail(up[c])) : k + 1 \in 1..Len(up[c]) /\ Tail(up[c])[k] = up[c][k + 1]
    BY <1>0, <1>3, TailSeq
  <2>2. \A i \in DOMAIN up'[c] : i \in Nat /\ i + 1 \in DOMAIN up[c] /\ up'[c][i] = up[c][i + 1]
    BY <1>0, <1>3, <2>1
  <2> QED BY <2>2 DEF Shrinks, Queued
<1>4. CASE \E f \in Requests : f.id # p.id /\ up'[c] = Append(up[c], f)
  <2>1. PICK f \in Requests : f.id # p.id /\ up'[c] = Append(up[c], f)
    BY <1>4
  <2>2. /\ DOMAIN up'[c] = 1..(Len(up[c]) + 1) /\ up'[c][Len(up[c]) + 1] = f
        /\ \A k \in 1..Len(up[c]) : up'[c][k] = up[c][k]
    BY <1>0, <2>1, AppendSeq
  <2>3. ASSUME NEW i \in Queued(c, p)' PROVE i \in Queued(c, p)
    <3>1. i \in DOMAIN up'[c] /\ up'[c][i].id = p.id
      BY <2>3 DEF Queued
    <3>2. i # Len(up[c]) + 1
      BY <2>1, <2>2, <3>1
    <3>3. i \in 1..Len(up[c])
      BY <1>0, <2>2, <3>1, <3>2
    <3> QED BY <1>0, <2>2, <3>1, <3>3 DEF Queued
  <2> QED BY <2>3 DEF Shrinks
<1> QED BY <1>1, <1>2, <1>3, <1>4

LEMMA ServedShrinks ==
    ASSUME DialTypeOK, NEW c \in Conns, NEW p,
           \/ sess'[c].todo = sess[c].todo \/ sess'[c].todo = <<>>
           \/ sess[c].todo # <<>> /\ sess'[c].todo = Tail(sess[c].todo)
    PROVE  Shrinks(Served(c, p)', Served(c, p))
<1>0. sess[c].todo \in Seq(Steps)
  BY DEF DialTypeOK, Sessions
<1>1. CASE sess'[c].todo = sess[c].todo
  BY <1>1 DEF Shrinks, Served, Bears
<1>2. CASE sess'[c].todo = <<>>
  BY <1>2 DEF Shrinks, Served
<1>3. CASE sess[c].todo # <<>> /\ sess'[c].todo = Tail(sess[c].todo)
  <2> DEFINE todo == sess[c].todo
  <2>0. Len(todo) \in Nat /\ DOMAIN todo = 1..Len(todo) /\ todo \in Seq(Steps) /\ todo # <<>>
    BY <1>0, <1>3
  <2> HIDE DEF todo
  <2>1. /\ DOMAIN Tail(todo) = 1..Len(Tail(todo))
        /\ \A k \in 1..Len(Tail(todo)) : k + 1 \in 1..Len(todo) /\ Tail(todo)[k] = todo[k + 1]
    BY <2>0, TailSeq
  <2>2. \A i \in DOMAIN Tail(todo) : i \in Nat /\ i + 1 \in DOMAIN todo /\ Tail(todo)[i] = todo[i + 1]
    BY <2>0, <2>1
  <2>3. \A i \in DOMAIN sess'[c].todo : i \in Nat /\ i + 1 \in DOMAIN sess[c].todo
                                        /\ sess'[c].todo[i] = sess[c].todo[i + 1]
    BY <1>3, <2>2 DEF todo
  <2> QED BY <2>3 DEF Shrinks, Served, Bears
<1> QED BY <1>1, <1>2, <1>3

LEMMA AnsweredShrinks ==
    ASSUME DialTypeOK, NEW c \in Conns, NEW p,
           down'[c] = down[c] \/ Consumed(c) \/ \E m : Delivered(c, m) /\ ~Bears(m, p)
    PROVE  Shrinks(Answered(c, p)', Answered(c, p))
<1>0. down[c] \in Seq(Messages) /\ DOMAIN down[c] = 1..Len(down[c]) /\ Len(down[c]) \in Nat
  <2>1. down[c] \in Seq(Messages)
    BY DEF DialTypeOK
  <2> QED BY <2>1
<1>1. CASE down'[c] = down[c]
  BY <1>1 DEF Shrinks, Answered, Bears
<1>2. CASE Consumed(c)
  <2>0. down[c] # <<>> /\ down'[c] = Tail(down[c])
    BY <1>2 DEF Consumed
  <2>1. /\ DOMAIN Tail(down[c]) = 1..Len(Tail(down[c]))
        /\ \A k \in 1..Len(Tail(down[c])) : k + 1 \in 1..Len(down[c]) /\ Tail(down[c])[k] = down[c][k + 1]
    BY <1>0, <2>0, TailSeq
  <2>2. \A i \in DOMAIN Tail(down[c]) :
           i \in Nat /\ i + 1 \in DOMAIN down[c] /\ Tail(down[c])[i] = down[c][i + 1]
    BY <1>0, <2>1
  <2>3. \A i \in DOMAIN down'[c] : i \in Nat /\ i + 1 \in DOMAIN down[c] /\ down'[c][i] = down[c][i + 1]
    BY <2>0, <2>2
  <2> QED BY <2>3 DEF Shrinks, Answered, Bears
<1>3. CASE \E m : down'[c] = Append(down[c], m) /\ ~Bears(m, p)
  <2>1. PICK m : down'[c] = Append(down[c], m) /\ ~Bears(m, p)
    BY <1>3
  <2>2. /\ DOMAIN Append(down[c], m) = 1..(Len(down[c]) + 1) /\ Append(down[c], m)[Len(down[c]) + 1] = m
        /\ \A k \in 1..Len(down[c]) : Append(down[c], m)[k] = down[c][k]
    BY <1>0, AppendSeq
  <2>3. ASSUME NEW i \in Answered(c, p)' PROVE i \in Answered(c, p)
    <3>1. i \in DOMAIN down'[c] /\ Bears(down'[c][i], p)
      BY <2>3 DEF Answered, Bears
    <3>2. i # Len(down[c]) + 1
      BY <2>1, <2>2, <3>1
    <3>3. i \in 1..Len(down[c])
      BY <1>0, <2>1, <2>2, <3>1, <3>2
    <3> QED BY <1>0, <2>1, <2>2, <3>1, <3>3 DEF Answered
  <2> QED BY <2>3 DEF Shrinks
<1> QED BY <1>1, <1>2, <1>3 DEF Delivered

\* A frame in hand is answered by what its session is then about to do.
LEMMA TookOnce ==
    ASSUME DialTypeOK, DialTypeOK', ClientPart, RequestPart, NEW c \in Conns, Took(c),
           client[c].at = "ready", NEW p \in client[c].pending, p.name \in {"events", "ping"}, Once(c, p)
    PROVE  Once(c, p)'
<1>0. /\ up[c] \in Seq(Requests) /\ up[c] # <<>> /\ up'[c] = Tail(up[c]) /\ down'[c] = down[c]
      /\ handlers \subseteq HandlerNames
  BY DEF Took, DialTypeOK
<1> DEFINE f == up[c][1]
           todo == sess'[c].todo
<1>1. f \in Requests /\ 1 \in DOMAIN up[c] /\ Head(up[c]) = f
  BY <1>0, TailSeq
<1>2. todo \in {<<Do("end")>>, Dispatch(f), Authenticate(f, sess[c].issued)}
  BY <1>1 DEF Took, SessionIs
<1>3. Requested(c, f) /\ Live(c)
  BY <1>1 DEF RequestPart, Live
<1>4. p.id = f.id => f.name = p.name
  BY <1>3 DEF Requested
<1>5. Shrinks(Queued(c, p)', Queued(c, p)) /\ Shrinks(Answered(c, p)', Answered(c, p))
  BY <1>0, QueuedShrinks, AnsweredShrinks
<1> HIDE DEF f, todo
<1>6. /\ \A i \in DOMAIN todo : todo[i].do = "write" => todo[i].frame.ids = <<f.id>>
      /\ f.name \in {"events", "ping"} =>
            \A i, j \in DOMAIN todo : todo[i].do = "write" /\ todo[j].do = "write" => i = j
  <2> DEFINE issued == sess[c].issued
             answer == todo
  <2>1. f \in Requests /\ handlers \subseteq HandlerNames
        /\ answer \in {<<Do("end")>>, Dispatch(f), Authenticate(f, issued)}
    BY <1>0, <1>1, <1>2
  <2> HIDE DEF issued, answer
  <2>2. /\ \A i \in DOMAIN answer : answer[i].do = "write" => answer[i].frame.ids = <<f.id>>
        /\ f.name \in {"events", "ping"} =>
              \A i, j \in DOMAIN answer : answer[i].do = "write" /\ answer[j].do = "write" => i = j
    BY <2>1, AnswersOnce
  <2> QED BY <2>2 DEF answer
<1>7. CASE p.id # f.id
  <2>1. Served(c, p)' = {}
    BY <1>6, <1>7 DEF Served, Bears, todo
  <2>2. Shrinks(Served(c, p)', Served(c, p))
    BY <2>1 DEF Shrinks
  <2> QED BY <1>5, <2>2, OnceShrinks
<1>8. CASE p.id = f.id
  <2>1. 1 \in Queued(c, p)
    BY <1>1, <1>8 DEF Queued, f
  <2>2. Answered(c, p) = {} /\ \A i \in Queued(c, p) : i = 1
    BY <2>1 DEF Once, AtMostOne
  <2>3. Answered(c, p)' = {}
    BY <1>5, <2>2, ShrinksOnce
  <2>4. Queued(c, p)' = {}
    <3>1. /\ DOMAIN up'[c] = 1..Len(Tail(up[c])) /\ Len(Tail(up[c])) \in Nat
          /\ \A k \in 1..Len(Tail(up[c])) : k + 1 \in 1..Len(up[c]) /\ up'[c][k] = up[c][k + 1]
      BY <1>0, TailSeq
    <3>2. DOMAIN up[c] = 1..Len(up[c])
      BY <1>0
    <3>3. ASSUME NEW i \in Queued(c, p)' PROVE FALSE
      <4>1. i \in 1..Len(Tail(up[c])) /\ i + 1 \in Queued(c, p)
        BY <3>1, <3>2, <3>3 DEF Queued
      <4>2. i + 1 = 1
        BY <2>2, <4>1
      <4> QED BY <3>1, <4>1, <4>2
    <3> QED BY <3>3
  <2>5. \A i, j \in DOMAIN todo : todo[i].do = "write" /\ todo[j].do = "write" => i = j
    BY <1>4, <1>6, <1>8
  <2>6. AtMostOne(Served(c, p)')
    BY <2>5 DEF AtMostOne, Served, todo
  <2>7. AtMostOne(Queued(c, p)') /\ AtMostOne(Answered(c, p)')
    BY <2>3, <2>4 DEF AtMostOne
  <2> QED BY <2>3, <2>4, <2>6, <2>7 DEF Once
<1> QED BY <1>7, <1>8

\* A session that writes an answer moves the action on.
LEMMA WroteOnce ==
    ASSUME DialTypeOK, DialTypeOK', NEW c \in Conns, Wrote(c), NEW p, Once(c, p)
    PROVE  Once(c, p)'
<1>0. /\ up'[c] = up[c] /\ sess[c].todo # <<>> /\ sess[c].todo[1].do = "write"
      /\ sess'[c].todo = Tail(sess[c].todo) /\ Delivered(c, sess[c].todo[1].frame)
      /\ sess[c].todo \in Seq(Steps) /\ down[c] \in Seq(Messages)
  BY DEF Wrote, Did, SessionIs, DialTypeOK, Sessions
<1> DEFINE m == sess[c].todo[1].frame
<1>1. Shrinks(Queued(c, p)', Queued(c, p)) /\ Shrinks(Served(c, p)', Served(c, p))
  <2>1. Kept(c)
    BY <1>0, KeptSame
  <2>2. Shrinks(Queued(c, p)', Queued(c, p))
    BY <2>1, QueuedShrinks
  <2>3. Shrinks(Served(c, p)', Served(c, p))
    BY <1>0, ServedShrinks
  <2> QED BY <2>2, <2>3
<1>2. CASE ~Bears(m, p) \/ down'[c] = down[c]
  <2>1. Shrinks(Answered(c, p)', Answered(c, p))
    BY <1>0, <1>2, AnsweredShrinks
  <2> QED BY <1>1, <2>1, OnceShrinks
<1>3. CASE Bears(m, p) /\ down'[c] # down[c]
  <2>1. 1 \in Served(c, p)
    BY <1>0, <1>3 DEF Served
  <2>2. Queued(c, p) = {} /\ Answered(c, p) = {} /\ \A i \in Served(c, p) : i = 1
    BY <2>1 DEF Once, AtMostOne
  <2>3. Queued(c, p)' = {}
    BY <1>1, <2>2, ShrinksOnce
  <2>4. Served(c, p)' = {}
    <3> DEFINE todo == sess[c].todo
    <3>0. todo \in Seq(Steps) /\ todo # <<>> /\ sess'[c].todo = Tail(todo)
      BY <1>0
    <3>1. /\ DOMAIN todo = 1..Len(todo) /\ DOMAIN Tail(todo) = 1..Len(Tail(todo)) /\ Len(Tail(todo)) \in Nat
          /\ \A k \in 1..Len(Tail(todo)) : k + 1 \in 1..Len(todo) /\ Tail(todo)[k] = todo[k + 1]
      <4> HIDE DEF todo
      <4> QED BY <3>0, TailSeq
    <3>2. ASSUME NEW i \in Served(c, p)' PROVE FALSE
      <4>1. i \in DOMAIN Tail(todo) /\ Tail(todo)[i].do = "write" /\ Bears(Tail(todo)[i].frame, p)
        BY <3>0, <3>2 DEF Served, Bears
      <4>2. i + 1 \in DOMAIN todo /\ todo[i + 1] = Tail(todo)[i] /\ i \in Nat /\ i # 0
        <5> HIDE DEF todo
        <5> QED BY <3>1, <4>1
      <4>3. i + 1 \in Served(c, p)
        BY <4>1, <4>2 DEF Served
      <4> QED BY <2>2, <4>2, <4>3
    <3> QED BY <3>2
  <2>5. AtMostOne(Answered(c, p)')
    <3>1. down'[c] = Append(down[c], m)
      BY <1>0, <1>3 DEF Delivered
    <3>2. /\ DOMAIN down[c] = 1..Len(down[c]) /\ DOMAIN down'[c] = 1..(Len(down[c]) + 1)
          /\ Len(down[c]) \in Nat
          /\ \A k \in 1..Len(down[c]) : down'[c][k] = down[c][k]
      <4> HIDE DEF m
      <4> QED BY <1>0, <3>1, AppendSeq
    <3>3. ASSUME NEW i \in Answered(c, p)' PROVE i = Len(down[c]) + 1
      <4>1. i \in DOMAIN down'[c] /\ Bears(down'[c][i], p)
        BY <3>3 DEF Answered, Bears
      <4>2. i \notin 1..Len(down[c])
        BY <2>2, <3>2, <4>1 DEF Answered
      <4> QED BY <3>2, <4>1, <4>2
    <3> QED BY <3>3 DEF AtMostOne
  <2>6. AtMostOne(Queued(c, p)') /\ AtMostOne(Served(c, p)')
    BY <2>3, <2>4 DEF AtMostOne
  <2> QED BY <2>3, <2>4, <2>5, <2>6 DEF Once
<1> QED BY <1>2, <1>3

\* What a caller writes is the answer to no Ping and no change of mask.
LEMMA ReceivedBears ==
    ASSUME ClientPart, CallPart, NEW c \in Conns, NEW t \in Callers, Received(c, t),
           client[c].at = "ready", NEW p \in client[c].pending, p.name \in {"events", "ping"}
    PROVE  ~Bears(call[t].frame, p)
<1>1. Replying(t) \/ Broadcasting(t)
  BY DEF Received, CallPart, Called
<1>2. CASE Broadcasting(t)
  BY <1>2 DEF Broadcasting, Bears
<1>3. CASE Replying(t) /\ Bears(call[t].frame, p)
  <2>1. HeldId(p.id)
    BY <1>3 DEF Replying, Bears
  <2>2. p.id[1] = c
    BY DEF ClientPart, Known, Live
  <2> QED BY <2>1, <2>2 DEF HeldId, Live
<1> QED BY <1>1, <1>2, <1>3

\* Each step keeps an action in one place.
LEMMA ServerOnce ==
    ASSUME DialTypeOK, DialTypeOK', ClientPart, RequestPart, OncePart, CallPart,
           NEW c \in Conns, ServerEffect(c), client[c].at = "ready",
           NEW p \in client[c].pending, p.name \in {"events", "ping"}
    PROVE  Once(c, p)'
<1>0. Once(c, p) /\ (up'[c] = up[c] => Kept(c)) /\ Live(c)
  BY KeptSame DEF OncePart, Live
<1>1. ASSUME Kept(c) \/ up'[c] = <<>>, down'[c] = down[c],
             Shrinks(Served(c, p)', Served(c, p))
      PROVE  Once(c, p)'
  <2>1. Shrinks(Queued(c, p)', Queued(c, p))
    BY <1>1, QueuedShrinks
  <2>2. Shrinks(Answered(c, p)', Answered(c, p))
    BY <1>1, AnsweredShrinks
  <2> QED BY <1>0, <1>1, <2>1, <2>2, OnceShrinks
<1>2. CASE Quiet(c)
  BY <1>1, <1>2, ServedShrinks DEF Quiet, SessionStays
<1>3. CASE Started(c)
  <2>1. Served(c, p)' = {}
    <3>1. sess'[c].todo = <<Write(Banner)>>
      BY <1>3 DEF Started, SessionIs
    <3>2. \A i \in DOMAIN sess'[c].todo : sess'[c].todo[i].frame.ids = <<>>
      BY <3>1 DEF Write, Banner
    <3>3. <<>> # <<p.id>>
      OBVIOUS
    <3> QED BY <3>2, <3>3 DEF Served, Bears
  <2>2. Shrinks(Served(c, p)', Served(c, p))
    BY <2>1 DEF Shrinks
  <2> QED BY <1>0, <1>1, <1>3, <2>2 DEF Started
<1>4. CASE ReadDone(c)
  <2>1. Served(c, p)' = {}
    <3>1. sess'[c].todo = <<Do("end")>>
      BY <1>4 DEF ReadDone, SessionIs
    <3>2. \A i \in DOMAIN sess'[c].todo : sess'[c].todo[i].do = "end"
      BY <3>1 DEF Do
    <3> QED BY <3>2 DEF Served
  <2>2. Shrinks(Served(c, p)', Served(c, p))
    BY <2>1 DEF Shrinks
  <2> QED BY <1>0, <1>1, <1>4, <2>2 DEF ReadDone
<1>5. CASE Skipped(c) \/ Marked(c) \/ Remasked(c)
  BY <1>0, <1>1, <1>5, ServedShrinks DEF Skipped, Marked, Remasked, Did, SessionIs
<1>6. CASE Finished(c) \/ Forgotten(c)
  BY <1>0, <1>1, <1>6, ServedShrinks DEF Finished, Forgotten, SessionIs
<1>7. ASSUME NEW t \in Callers, Received(c, t) PROVE Once(c, p)'
  <2>1. Delivered(c, call[t].frame) /\ up'[c] = up[c] /\ sess'[c] = sess[c]
    BY <1>7 DEF Received, SessionStays
  <2>2. ~Bears(call[t].frame, p)
    BY <1>7, ReceivedBears
  <2>3. Shrinks(Queued(c, p)', Queued(c, p))
    BY <1>0, <2>1, QueuedShrinks
  <2>4. Shrinks(Served(c, p)', Served(c, p))
    BY <2>1, ServedShrinks
  <2>5. Shrinks(Answered(c, p)', Answered(c, p))
    BY <2>1, <2>2, AnsweredShrinks
  <2> QED BY <1>0, <2>3, <2>4, <2>5, OnceShrinks
<1> QED BY <1>0, <1>2, <1>3, <1>4, <1>5, <1>6, <1>7, TookOnce, WroteOnce DEF ServerEffect

\* An action that is sent is nowhere yet.
LEMMA FreshAction ==
    ASSUME DialTypeOK, ClientPart, RequestPart, TodoPart, DownPart, NEW c \in Conns,
           client[c].at = "ready", NEW p, p.id = <<c, client[c].seq + 1>>
    PROVE  /\ Queued(c, p) = {} /\ Served(c, p) = {} /\ Answered(c, p) = {}
           /\ \A q \in client[c].pending : q.id # p.id
<1>0. Live(c) /\ client[c].seq \in Nat /\ Known(c) /\ LoginNumber(c) \in Nat
  BY DEF Live, ClientPart, DialTypeOK, Clients, LoginNumber
<1>1. p.id[2] \notin 1..client[c].seq
  BY <1>0
<1>2. Queued(c, p) = {}
  BY <1>0, <1>1 DEF Queued, RequestPart, Requested, Issued
<1>3. \A m : Answer(c, m) => ~Bears(m, p)
  <2>1. ASSUME NEW m, Answer(c, m), Bears(m, p) PROVE FALSE
    <3>1. m.ids = <<p.id>> /\ m.ids # <<>> /\ m.ids[1] = p.id
      BY <2>1 DEF Bears
    <3>2. Issued(c, p.id)
      BY <2>1, <3>1 DEF Answer
    <3> QED BY <1>0, <1>1, <3>2 DEF Issued
  <2> QED BY <2>1
<1>4. Served(c, p) = {}
  BY <1>3 DEF Served, TodoPart, Due, WriteDue
<1>5. Answered(c, p) = {}
  BY <1>3 DEF Answered, DownPart, Arriving
<1>6. \A q \in client[c].pending : q.id # p.id
  <2>1. \A q \in client[c].pending : q.id[2] \in 1..client[c].seq
    BY <1>0 DEF Known
  <2> QED BY <1>1, <2>1
<1> QED BY <1>2, <1>4, <1>5, <1>6

LEMMA ClientOnce ==
    ASSUME DialTypeOK, DialTypeOK', ClientPart, RequestPart, OncePart, TodoPart, DownPart,
           NEW c \in Conns, ClientEffect(c), client'[c].at = "ready",
           NEW p \in client'[c].pending, p.name \in {"events", "ping"}
    PROVE  Once(c, p)'
<1>1. sess'[c] = sess[c]
  BY ClientMoves
<1>2. Shrinks(Served(c, p)', Served(c, p))
  BY <1>1, ServedShrinks
<1>3. CASE LoggedOn(c)
  BY <1>3 DEF LoggedOn, ClientIs, ClientPart, Known, Live
<1>4. CASE Responded(c) \/ Saw(c)
  <2>1. /\ client[c].at = "ready" /\ p \in client[c].pending /\ up'[c] = up[c] /\ Consumed(c)
    BY <1>4 DEF Responded, Saw, ClientIs
  <2>2. Once(c, p)
    BY <2>1 DEF OncePart
  <2>3. Shrinks(Queued(c, p)', Queued(c, p))
    BY <2>1, KeptSame, QueuedShrinks
  <2>4. Shrinks(Answered(c, p)', Answered(c, p))
    BY <2>1, AnsweredShrinks
  <2> QED BY <1>2, <2>2, <2>3, <2>4, OnceShrinks
<1>5. CASE Acted(c)
  <2>1. PICK q \in Actions, f \in Requests :
          /\ Sent(c, f) /\ f.id = <<c, client[c].seq + 1>> /\ q.id = f.id
          /\ ClientIs(c, "ready", client[c].seq + 1, client[c].pending \cup {q}, client[c].mask,
                      client[c].seen)
    BY <1>5 DEF Acted
  <2>2. client[c].at = "ready" /\ down'[c] = down[c]
    BY <1>5 DEF Acted
  <2>3. /\ Queued(c, q) = {} /\ Served(c, q) = {} /\ Answered(c, q) = {}
        /\ \A r \in client[c].pending : r.id # q.id
    BY <2>1, <2>2, FreshAction
  <2>4. Shrinks(Answered(c, p)', Answered(c, p))
    BY <2>2, AnsweredShrinks
  <2>5. CASE p # q
    <3>1. p \in client[c].pending
      BY <2>1, <2>5 DEF ClientIs
    <3>2. Once(c, p) /\ f.id # p.id
      BY <2>1, <2>2, <2>3, <3>1 DEF OncePart
    <3>3. Shrinks(Queued(c, p)', Queued(c, p))
      <4>1. Kept(c) \/ up'[c] = Append(up[c], f)
        BY <2>1, KeptSame DEF Sent
      <4>2. f.id # p.id /\ f \in Requests
        BY <3>2
      <4> HIDE DEF Kept
      <4> QED BY <4>1, <4>2, QueuedShrinks
    <3> QED BY <1>2, <2>4, <3>2, <3>3, OnceShrinks
  <2>6. CASE p = q
    <3>1. Served(c, p)' = {} /\ Answered(c, p)' = {}
      BY <1>2, <2>3, <2>4, <2>6, ShrinksOnce
    <3>2. AtMostOne(Queued(c, p)')
      <4>1. CASE up'[c] = up[c]
        BY <2>3, <2>6, <4>1 DEF AtMostOne, Queued
      <4>2. CASE up'[c] = Append(up[c], f)
        <5>1. /\ DOMAIN up[c] = 1..Len(up[c]) /\ DOMAIN up'[c] = 1..(Len(up[c]) + 1)
              /\ Len(up[c]) \in Nat /\ \A k \in 1..Len(up[c]) : up'[c][k] = up[c][k]
          <6>1. up[c] \in Seq(Requests)
            BY DEF DialTypeOK
          <6> QED BY <4>2, <6>1, AppendSeq
        <5>2. ASSUME NEW i \in Queued(c, p)' PROVE i = Len(up[c]) + 1
          <6>1. i \in DOMAIN up'[c] /\ up'[c][i].id = p.id
            BY <5>2 DEF Queued
          <6>2. i \notin 1..Len(up[c])
            BY <2>3, <2>6, <5>1, <6>1 DEF Queued
          <6> QED BY <5>1, <6>1, <6>2
        <5> QED BY <5>2 DEF AtMostOne
      <4> QED BY <2>1, <4>1, <4>2 DEF Sent
    <3> QED BY <3>1, <3>2 DEF Once, AtMostOne
  <2> QED BY <2>5, <2>6
<1> QED BY <1>3, <1>4, <1>5 DEF ClientEffect, Gone, Dialled, Exchanged, ClientIs, Live

LEMMA OnceStep ==
    ASSUME DialTypeOK, DialTypeOK', SessionPart, ClientPart, RequestPart, OncePart, TodoPart,
           DownPart, CallPart, DialNext
    PROVE  OncePart'
<1>1. ASSUME NEW c \in Conns, client'[c].at = "ready", NEW p \in client'[c].pending,
             p.name \in {"events", "ping"}
      PROVE  Once(c, p)'
  BY <1>1, StepEffects, ServerKeepsClient, ServerOnce, ClientOnce
<1> QED BY <1>1 DEF OncePart
----------------------------------------------------------------------------
(* What a session is about to do                                           *)

\* A frame that bears an issued id keeps bearing one.
LEMMA AnswerKept ==
    ASSUME DialTypeOK, NEW c \in Conns, ServerEffect(c) \/ ClientEffect(c), NEW m \in Messages,
           Answer(c, m)
    PROVE  Answer(c, m)'
<1>1. CASE m.ids = <<>>
  BY <1>1 DEF Answer
<1>2. CASE m.ids # <<>>
  <2>1. m.ids[1] \in Ids
    BY <1>2 DEF Messages
  <2>2. m.ids = <<m.ids[1]>> /\ Issued(c, m.ids[1]) /\ m.from = Nobody
    BY <1>2 DEF Answer
  <2>3. Issued(c, m.ids[1])'
    <3> DEFINE id == m.ids[1]
    <3>1. id \in Ids /\ Issued(c, id)
      BY <2>1, <2>2
    <3> HIDE DEF id
    <3>2. Issued(c, id)'
      BY <3>1, IssuedKept
    <3> QED BY <3>2 DEF id
  <2> QED BY <2>2, <2>3 DEF Answer
<1> QED BY <1>1, <1>2

\* The numbers of the login are the script's.
LEMMA ScriptKept ==
    ASSUME NEW c \in Conns, script' = script
    PROVE  /\ LoginNumber(c)' = LoginNumber(c) /\ LoginMask(c)' = LoginMask(c)
           /\ LoginNumber(c) \in Nat
           /\ \A m : GrantsLogin(c, m)' = GrantsLogin(c, m)
BY DEF LoginNumber, LoginMask, Config, GrantsLogin

\* A session that goes on with what it does, for a client that waits.
LEMMA DueStays ==
    ASSUME DialTypeOK, SessionPart, TodoPart, DialNext, NEW c \in Conns, ClientStays(c),
           SessionStays(c), ServerEffect(c), script' = script, NEW i \in DOMAIN sess'[c].todo,
           NEW step, step = sess'[c].todo[i]
    PROVE  Due(c, i)'
<1>0. /\ sess'[c] = sess[c] /\ client'[c] = client[c] /\ i \in DOMAIN sess[c].todo
      /\ sess[c].todo \in Seq(Steps)
  BY DEF ClientStays, SessionStays, DialTypeOK, Sessions
<1>1. step \in Steps /\ step = sess[c].todo[i]
  BY <1>0
<1>2. Due(c, i)
  BY <1>0 DEF TodoPart
<1>3. /\ step.do = "write" => WriteDue(c, i, step.frame)
      /\ step.do = "mark" => MarkDue(c, i, step.on)
      /\ step.do = "mask" => MaskDue(c, i, step.on)
      /\ step.do = "hold" => step.id[1] = c /\ HeldId(step.id)
  BY <1>1, <1>2 DEF Due
<1>4. ASSUME step.do = "write" PROVE WriteDue(c, i, step.frame)'
  <2>1. step.frame \in Messages
    BY <1>1, <1>4, StepFields
  <2>2. WriteDue(c, i, step.frame)
    BY <1>3, <1>4
  <2>3. Answer(c, step.frame)'
    BY <2>1, <2>2, AnswerKept DEF WriteDue
  <2>4. Pending(c)' = Pending(c) /\ \A mask : Masked(c, mask)' = Masked(c, mask)
    BY <1>0 DEF Pending, Masked
  <2> QED BY <1>0, <2>2, <2>3, <2>4, ScriptKept DEF WriteDue
<1>5. ASSUME step.do = "mark" PROVE MarkDue(c, i, step.on)'
  BY <1>0, <1>3, <1>5, ScriptKept DEF MarkDue, Live
<1>6. ASSUME step.do = "mask" PROVE MaskDue(c, i, step.on)'
  BY <1>0, <1>3, <1>6 DEF MaskDue, Live, Pending
<1>7. ASSUME step.do = "hold" PROVE step.id[1] = c /\ HeldId(step.id)'
  <2>1. step.id \in Ids
    BY <1>1, <1>7, StepFields
  <2> QED BY <1>3, <1>7, <2>1, HeldKept
<1> QED BY <1>4, <1>5, <1>6, <1>7 DEF Due

\* A session that has done the first thing it was about to do.
LEMMA DueShifts ==
    ASSUME DialTypeOK, SessionPart, ClientPart, TodoPart, DialNext, NEW c \in Conns, ClientStays(c),
           ServerEffect(c), script' = script, NEW head, head = sess[c].todo[1],
           sess[c].todo # <<>>, sess'[c].todo = Tail(sess[c].todo),
           \/ /\ head.do \notin {"mark", "mask"}
              /\ sess'[c].authed = sess[c].authed /\ sess'[c].events = sess[c].events
           \/ head.do = "mark" /\ sess'[c].authed /\ sess'[c].events = head.on
           \/ /\ head.do = "mask"
              /\ sess'[c].authed = sess[c].authed /\ sess'[c].events = head.on,
           NEW i \in DOMAIN sess'[c].todo, NEW step, step = sess'[c].todo[i]
    PROVE  Due(c, i)'
<1> DEFINE todo == sess[c].todo
<1>0. client'[c] = client[c] /\ todo \in Seq(Steps) /\ todo # <<>> /\ sess'[c].todo = Tail(todo)
  BY DEF ClientStays, DialTypeOK, Sessions
<1> HIDE DEF todo
<1>1. /\ i \in Nat \ {0} /\ i + 1 \in DOMAIN todo /\ 1 \in DOMAIN todo /\ step = todo[i + 1]
      /\ Len(Tail(todo)) = Len(todo) - 1 /\ Len(todo) \in Nat
  <2>1. /\ DOMAIN todo = 1..Len(todo) /\ DOMAIN Tail(todo) = 1..Len(Tail(todo)) /\ Len(Tail(todo)) \in Nat
        /\ \A k \in 1..Len(Tail(todo)) : k + 1 \in 1..Len(todo) /\ Tail(todo)[k] = todo[k + 1]
        /\ Len(Tail(todo)) = Len(todo) - 1 /\ Len(todo) \in Nat
    BY <1>0, TailSeq
  <2>2. i \in 1..Len(Tail(todo))
    BY <1>0, <2>1
  <2>3. i \in Nat \ {0} /\ i + 1 \in DOMAIN todo /\ 1 \in DOMAIN todo
    BY <2>1, <2>2
  <2>4. step = Tail(todo)[i]
    BY <1>0
  <2>5. step = todo[i + 1]
    BY <2>1, <2>2, <2>4
  <2> QED BY <2>1, <2>3, <2>5
<1>2. step \in Steps /\ Due(c, i + 1) /\ Due(c, 1)
  BY <1>0, <1>1 DEF TodoPart, todo
<1>3. /\ step.do = "write" => WriteDue(c, i + 1, step.frame)
      /\ step.do = "mark" => MarkDue(c, i + 1, step.on)
      /\ step.do = "mask" => MaskDue(c, i + 1, step.on)
      /\ step.do = "hold" => step.id[1] = c /\ HeldId(step.id)
  BY <1>1, <1>2 DEF Due, todo
<1>4. /\ head.do = "mark" => MarkDue(c, 1, head.on)
      /\ head.do = "mask" => MaskDue(c, 1, head.on)
  BY <1>2 DEF Due, todo
<1>5. step.do # "mark"
  BY <1>1, <1>3 DEF MarkDue
<1>6. ASSUME step.do = "mask" PROVE MaskDue(c, i, step.on)'
  BY <1>0, <1>1, <1>3, <1>6 DEF MaskDue, Live
<1>7. ASSUME step.do = "hold" PROVE step.id[1] = c /\ HeldId(step.id)'
  <2>1. step.id \in Ids
    BY <1>2, <1>7, StepFields
  <2> QED BY <1>3, <1>7, <2>1, HeldKept
<1>8. ASSUME step.do = "write" PROVE WriteDue(c, i, step.frame)'
  <2> DEFINE m == step.frame
  <2>1. m \in Messages
    BY <1>2, <1>8, StepFields
  <2>2. WriteDue(c, i + 1, m)
    BY <1>3, <1>8
  <2> HIDE DEF m
  <2>3. Answer(c, m)' /\ m.from = Nobody
    BY <2>1, <2>2, AnswerKept DEF WriteDue
  <2>4. ASSUME client[c].at = "login", GrantsLogin(c, m)
        PROVE  sess'[c].authed /\ Masked(c, LoginMask(c))'
    <3>1. Live(c) /\ Pending(c) = {}
      BY <2>4 DEF Live, ClientPart, Known, Pending
    <3>2. head.do # "mask"
      BY <1>4, <3>1 DEF MaskDue
    <3>3. CASE head.do = "mark"
      <4>1. head.on = EventMaskEnabled(LoginMask(c))
        BY <1>4, <3>1, <3>3 DEF MarkDue
      <4> QED BY <3>3, <4>1, ScriptKept DEF Masked
    <3>4. CASE head.do \notin {"mark", "mask"}
      <4>1. sess[c].authed /\ Masked(c, LoginMask(c))
        BY <1>1, <2>2, <2>4, <3>4 DEF WriteDue, todo
      <4> QED BY <3>4, <4>1, ScriptKept DEF Masked
    <3> QED BY <3>2, <3>3, <3>4
  <2>5. ASSUME client[c].at = "ready", NEW p \in Pending(c), Grants(m, p)
        PROVE  i = 1 /\ Len(Tail(todo)) = 1 /\ Masked(c, p.mask)'
    <3>1. Live(c)
      BY <2>5 DEF Live
    <3>2. i + 1 = 2 /\ Len(todo) = 2 /\ head.do = "mask" /\ head.on = EventMaskEnabled(p.mask)
      BY <1>1, <2>2, <2>5 DEF WriteDue, todo
    <3>3. sess'[c].events = head.on
      BY <3>2
    <3> QED BY <1>1, <3>2, <3>3 DEF Masked
  <2>6. Pending(c)' = Pending(c)
    BY <1>0 DEF Pending
  <2>7. WriteDue(c, i, m)'
    BY <1>0, <2>3, <2>4, <2>5, <2>6, ScriptKept DEF WriteDue
  <2> QED BY <2>7 DEF m
<1> QED BY <1>5, <1>6, <1>7, <1>8 DEF Due

\* What a response grants.
LEMMA ReplyFacts ==
    ASSUME NEW f \in Requests, NEW d, NEW m, m = Response(d, f.id)
    PROVE  /\ m.ids = <<f.id>> /\ m.ids # <<>> /\ m.ids[1] = f.id /\ m.from = Nobody
           /\ Success(m) <=> d = "success"
<1>1. f.id # Empty
  BY TestServerAssumption DEF Requests
<1>2. m.ids = <<f.id>> /\ m.from = Nobody /\ m.events = <<>> /\ m.responses = <<d>>
  BY <1>1 DEF Response
<1>3. m.ids # <<>> /\ m.ids[1] = f.id /\ ~Conflicting(m.ids)
  BY <1>2 DEF Conflicting
<1>4. m.responses # <<>> /\ ~Conflicting(m.responses) /\ Get(m.responses) = d
  BY <1>2 DEF Conflicting, Get
<1> QED BY <1>2, <1>3, <1>4 DEF Success, Class

\* What the answer to a frame says to its client.
LEMMA ReplyDue ==
    ASSUME NEW c \in Conns, NEW f \in Requests, Requested(c, f), client'[c] = client[c],
           script' = script, NEW d, NEW m, m = Response(d, f.id), NEW i
    PROVE  /\ Answer(c, m)' /\ m.from = Nobody /\ m.ids = <<f.id>>
           /\ client[c].at = "login" /\ GrantsLogin(c, m) => f.name = "login" /\ d = "success"
           /\ client[c].at = "ready" => \A p \in Pending(c) :
                 Grants(m, p) => f.name = "events" /\ p.mask = f.mask /\ d = "success"
           /\ f.name \notin {"login", "events"} \/ d # "success" => WriteDue(c, i, m)'
<1>1. /\ m.ids = <<f.id>> /\ m.ids # <<>> /\ m.ids[1] = f.id /\ m.from = Nobody
      /\ Success(m) <=> d = "success"
  BY ReplyFacts
<1>2. Answer(c, m)'
  BY <1>1 DEF Answer, Requested, Issued, Live
<1>3. ASSUME client[c].at = "login", GrantsLogin(c, m) PROVE f.name = "login" /\ d = "success"
  <2>1. f.id = <<c, LoginNumber(c)>> /\ d = "success"
    BY <1>1, <1>3 DEF GrantsLogin
  <2> QED BY <1>3, <2>1 DEF Requested, Live
<1>4. ASSUME client[c].at = "ready", NEW p \in Pending(c), Grants(m, p)
      PROVE  f.name = "events" /\ p.mask = f.mask /\ d = "success"
  <2>1. f.id = p.id /\ d = "success" /\ p.name = "events" /\ p \in client[c].pending
    BY <1>1, <1>4 DEF Grants, Bears, Pending
  <2> QED BY <1>4, <2>1 DEF Requested, Live
<1>5. ASSUME f.name \notin {"login", "events"} \/ d # "success" PROVE WriteDue(c, i, m)'
  <2>1. Pending(c)' = Pending(c)
    BY DEF Pending
  <2> QED BY <1>1, <1>2, <1>3, <1>4, <1>5, <2>1, ScriptKept DEF WriteDue
<1> QED BY <1>1, <1>2, <1>3, <1>4, <1>5

\* The answer to the action that changes the mask, behind the change.
LEMMA MaskReplyDue ==
    ASSUME NEW c \in Conns, NEW f \in Requests, Requested(c, f), client'[c] = client[c],
           script' = script, f.name = "events", NEW m, m = Response("success", f.id),
           Len(sess'[c].todo) = 2, sess'[c].todo[1].do = "mask",
           sess'[c].todo[1].on = EventMaskEnabled(f.mask)
    PROVE  WriteDue(c, 2, m)'
<1>1. /\ Answer(c, m)' /\ m.from = Nobody
      /\ ~(client[c].at = "login" /\ GrantsLogin(c, m))
      /\ client[c].at = "ready" => \A p \in Pending(c) : Grants(m, p) => p.mask = f.mask
  <2>1. ASSUME NEW d, d = "success" PROVE m = Response(d, f.id)
    BY <2>1
  <2>2. Answer(c, m)' /\ m.from = Nobody
    <3>1. m.ids = <<f.id>> /\ m.ids # <<>> /\ m.ids[1] = f.id /\ m.from = Nobody
      BY ReplyFacts
    <3> QED BY <3>1 DEF Answer, Requested, Issued, Live
  <2>3. ASSUME NEW d, d = "success", client[c].at = "login", GrantsLogin(c, m) PROVE f.name = "login"
    BY <2>1, <2>3, ReplyDue
  <2>4. ASSUME NEW d, d = "success", client[c].at = "ready", NEW p \in Pending(c), Grants(m, p) PROVE p.mask = f.mask
    BY <2>1, <2>4, ReplyDue
  <2> QED BY <2>2, <2>3, <2>4
<1>2. Pending(c)' = Pending(c)
  BY DEF Pending
<1> QED BY <1>1, <1>2, ScriptKept DEF WriteDue

\* Lists of steps that promise nothing.
LEMMA FewDue ==
    ASSUME NEW c \in Conns, NEW i, NEW step, step = sess'[c].todo[i],
           \/ step.do \in {"violate", "end", "hangup"}
           \/ step.do = "write" /\ WriteDue(c, i, step.frame)'
    PROVE  Due(c, i)'
BY DEF Due

LEMMA EventDue ==
    ASSUME NEW c \in Conns, NEW f \in Requests, Requested(c, f), client'[c] = client[c],
           script' = script, NEW m, m = Event(<<f.id>>, Nobody), NEW i
    PROVE  WriteDue(c, i, m)'
<1>1. m.ids = <<f.id>> /\ m.ids # <<>> /\ m.ids[1] = f.id /\ m.from = Nobody /\ m.events = <<"event">>
  BY DEF Event
<1>2. ~Success(m)
  BY <1>1 DEF Success, Class
<1>3. Answer(c, m)'
  BY <1>1 DEF Answer, Requested, Issued, Live
<1> QED BY <1>1, <1>2, <1>3 DEF WriteDue, GrantsLogin, Grants

\* What dispatch and authenticate have a session do is due.
LEMMA DispatchDue ==
    ASSUME DialTypeOK, NEW c \in Conns, NEW f \in Requests, Requested(c, f),
           client'[c] = client[c], script' = script, sess'[c].at = "serving",
           NEW todo, todo = sess'[c].todo, todo = Dispatch(f),
           NEW i \in DOMAIN todo, NEW step, step = todo[i]
    PROVE  Due(c, i)'
<1> DEFINE mask == [do |-> "mask", on |-> EventMaskEnabled(f.mask)]
           hold == [do |-> "hold", id |-> f.id]
           event == Event(<<f.id>>, Nobody)
<1>1. /\ \A d : Reply1(f, d).do = "write" /\ Reply1(f, d).frame = Response(d, f.id)
      /\ Write(event).do = "write" /\ Write(event).frame = event
      /\ Do("hangup").do = "hangup" /\ Violate(f.id).do = "violate"
      /\ mask.do = "mask" /\ mask.on = EventMaskEnabled(f.mask)
      /\ hold.do = "hold" /\ hold.id = f.id
  BY DEF Reply1, Write, Do, Violate
<1>2. ASSUME NEW d, f.name \notin {"login", "events"} \/ d # "success", step = Reply1(f, d)
      PROVE  Due(c, i)'
  <2> DEFINE m == step.frame
  <2>1. m = Response(d, f.id) /\ step.do = "write"
    BY <1>1, <1>2
  <2> HIDE DEF m
  <2>2. WriteDue(c, i, m)'
    BY <1>2, <2>1, ReplyDue
  <2> QED BY <2>1, <2>2, FewDue DEF m
<1>3. \/ f.name \in {"ping", "custom"} /\ todo = <<Reply1(f, "success")>>
      \/ f.name = "logoff" /\ todo = <<Reply1(f, "goodbye"), Do("hangup")>>
      \/ f.name = "events" /\ todo = <<mask, Reply1(f, "success")>>
      \/ f.name = "status" /\ todo = <<Reply1(f, "success"), Write(event)>>
      \/ f.name = "hold" /\ todo = <<hold>>
      \/ todo = <<Violate(f.id), Reply1(f, "error")>>
  BY DispatchCases DEF DialTypeOK
<1>4. sess'[c].todo[i] = step
  OBVIOUS
<1> HIDE DEF mask, hold, event
<1>5. CASE f.name \in {"ping", "custom"} /\ todo = <<Reply1(f, "success")>>
  BY <1>2, <1>5
<1>6. CASE f.name = "logoff" /\ todo = <<Reply1(f, "goodbye"), Do("hangup")>>
  <2>1. step = Reply1(f, "goodbye") \/ step.do = "hangup"
    BY <1>1, <1>6
  <2> QED BY <1>2, <2>1, FewDue
<1>7. CASE todo = <<Violate(f.id), Reply1(f, "error")>>
  <2>1. step = Reply1(f, "error") \/ step.do = "violate"
    BY <1>1, <1>7
  <2> QED BY <1>2, <2>1, FewDue
<1>8. CASE f.name = "status" /\ todo = <<Reply1(f, "success"), Write(event)>>
  <2>1. \A m : m = event => WriteDue(c, i, m)'
    BY EventDue DEF event
  <2>2. step = Reply1(f, "success") \/ step = Write(event)
    BY <1>8
  <2> QED BY <1>1, <1>2, <1>8, <2>1, <2>2, FewDue
<1>9. CASE f.name = "hold" /\ todo = <<hold>>
  <2>1. step = hold
    BY <1>9
  <2>2. f.id[1] = c /\ HeldId(f.id)'
    <3>1. f.id \in Ids /\ f.id[1] = c
      BY DEF Requests, Requested, Issued
    <3>2. ASSUME Live(c) PROVE f.id[2] \in (LoginNumber(c) + 1)..client[c].seq
      <4>1. /\ f.id[2] \in 1..client[c].seq /\ client[c].seq \in Nat /\ LoginNumber(c) \in Nat
            /\ ~(f.id[2] < LoginNumber(c)) /\ f.id[2] # LoginNumber(c)
        BY <1>9, <3>2 DEF Requested, Issued, DialTypeOK, Clients, LoginNumber
      <4> QED BY <4>1
    <3>3. ASSUME Live(c), NEW p \in client[c].pending, p.id = f.id PROVE p.name = "hold"
      BY <1>9, <3>3 DEF Requested
    <3> QED BY <3>1, <3>2, <3>3, ScriptKept DEF HeldId, Live
  <2> QED BY <1>1, <2>1, <2>2 DEF Due
<1>10. CASE f.name = "events" /\ todo = <<mask, Reply1(f, "success")>>
  <2> DEFINE m == Response("success", f.id)
             reply == Reply1(f, "success")
  <2>0. /\ Len(todo) = 2 /\ todo[1] = mask /\ todo[2] = reply /\ i \in {1, 2}
        /\ reply.do = "write" /\ reply.frame = m
    BY <1>1, <1>10
  <2>1. CASE i = 1
    <3>1. step = mask
      BY <2>0, <2>1
    <3>2. ASSUME Live(c)
          PROVE  \E p \in Pending(c) : Grants(m, p) /\ EventMaskEnabled(f.mask) = EventMaskEnabled(p.mask)
      <4>1. f.id[2] > LoginNumber(c)
        <5>1. /\ f.id[2] \in Nat /\ LoginNumber(c) \in Nat
              /\ ~(f.id[2] < LoginNumber(c)) /\ f.id[2] # LoginNumber(c)
          BY <1>10, <3>2 DEF Requested, Requests, Ids, LoginNumber
        <5> QED BY <5>1
      <4>2. PICK p \in client[c].pending : p.id = f.id
        BY <1>10, <3>2, <4>1 DEF Requested
      <4>3. p.name = "events" /\ p.mask = f.mask
        BY <1>10, <3>2, <4>2 DEF Requested
      <4>4. Grants(m, p)
        <5>1. m.ids = <<f.id>> /\ Success(m)
          BY ReplyFacts
        <5> QED BY <4>2, <4>3, <5>1 DEF Grants, Bears
      <4> QED BY <4>2, <4>3, <4>4 DEF Pending
    <3>3. MaskDue(c, i, step.on)'
      <4>1. Pending(c)' = Pending(c) /\ Live(c)' = Live(c)
        BY DEF Pending, Live
      <4>2. sess'[c].todo[2].frame = m /\ sess'[c].todo[2].do = "write" /\ Len(sess'[c].todo) = 2
        BY <2>0
      <4> HIDE DEF m
      <4>3. step.on = EventMaskEnabled(f.mask)
        BY <1>1, <3>1
      <4> QED BY <2>1, <3>2, <4>1, <4>2, <4>3 DEF MaskDue
    <3> QED BY <1>1, <3>1, <3>3 DEF Due
  <2>2. CASE i = 2
    <3>1. step.do = "write" /\ step.frame = m
      BY <2>0, <2>2
    <3>2. \A x : x = m => WriteDue(c, i, x)'
      <4>1. ASSUME NEW x, x = m PROVE WriteDue(c, i, x)'
        <5>1. /\ Len(sess'[c].todo) = 2 /\ sess'[c].todo[1].do = "mask"
              /\ sess'[c].todo[1].on = EventMaskEnabled(f.mask)
          BY <1>1, <2>0
        <5>2. WriteDue(c, 2, x)'
          BY <1>10, <4>1, <5>1, MaskReplyDue
        <5> QED BY <2>2, <5>2
      <4> QED BY <4>1
    <3>3. WriteDue(c, i, step.frame)'
      BY <3>1, <3>2
    <3> QED BY <1>4, <3>1, <3>3, FewDue
  <2> QED BY <2>0, <2>1, <2>2
<1> QED BY <1>3, <1>5, <1>6, <1>7, <1>8, <1>9, <1>10

LEMMA AuthenticateDue ==
    ASSUME DialTypeOK, ClientPart, NEW c \in Conns, NEW f \in Requests, Requested(c, f),
           client'[c] = client[c], script' = script, sess[c].at = "serving", ~sess[c].authed,
           ~sess'[c].authed, NEW issued,
           NEW todo, todo = sess'[c].todo, todo = Authenticate(f, issued),
           NEW i \in DOMAIN todo, NEW step, step = todo[i]
    PROVE  Due(c, i)'
<1> DEFINE mark == [do |-> "mark", on |-> EventMaskEnabled(f.mask)]
<1>1. /\ \A d : Reply1(f, d).do = "write" /\ Reply1(f, d).frame = Response(d, f.id)
      /\ Do("end").do = "end" /\ Violate(f.id).do = "violate"
      /\ mark.do = "mark" /\ mark.on = EventMaskEnabled(f.mask)
  BY DEF Reply1, Write, Do, Violate
<1>2. ASSUME NEW d, f.name \notin {"login", "events"} \/ d # "success", step = Reply1(f, d)
      PROVE  Due(c, i)'
  <2> DEFINE m == step.frame
  <2>1. m = Response(d, f.id) /\ step.do = "write"
    BY <1>1, <1>2
  <2> HIDE DEF m
  <2>2. WriteDue(c, i, m)'
    BY <1>2, <2>1, ReplyDue
  <2> QED BY <2>1, <2>2, FewDue DEF m
<1>3. \/ f.name = "challenge" /\ \E d \in {"success", "error"} : todo = <<Reply1(f, d)>>
      \/ f.name = "login" /\ todo = <<mark, Reply1(f, "success")>>
      \/ todo = <<Reply1(f, "error"), Do("end")>>
      \/ todo = <<Violate(f.id), Reply1(f, "error"), Do("end")>>
  BY AuthenticateCases
<1> HIDE DEF mark
<1>4. CASE f.name = "challenge" /\ \E d \in {"success", "error"} : todo = <<Reply1(f, d)>>
  <2>1. PICK d \in {"success", "error"} : todo = <<Reply1(f, d)>>
    BY <1>4
  <2>2. step = Reply1(f, d)
    BY <2>1
  <2> QED BY <1>2, <1>4, <2>2
<1>5. CASE todo = <<Reply1(f, "error"), Do("end")>>
  <2>1. step = Reply1(f, "error") \/ step.do = "end"
    BY <1>1, <1>5
  <2> QED BY <1>2, <2>1, FewDue
<1>6. CASE todo = <<Violate(f.id), Reply1(f, "error"), Do("end")>>
  <2>1. step = Reply1(f, "error") \/ step.do \in {"end", "violate"}
    <3>1. i \in {1, 2, 3}
      BY <1>6
    <3> QED BY <1>1, <1>6, <3>1
  <2> QED BY <1>2, <2>1, FewDue
<1>7. CASE f.name = "login" /\ todo = <<mark, Reply1(f, "success")>>
  <2>0. /\ todo[1] = mark /\ todo[2] = Reply1(f, "success") /\ i \in {1, 2}
        /\ sess'[c].todo[1].do = "mark"
    BY <1>1, <1>7
  <2>1. client[c].at # "ready" \/ ~Live(c)
    BY DEF ClientPart, Known
  <2>2. CASE i = 1
    <3>1. ASSUME Live(c) PROVE client[c].at = "login" /\ f.mask = LoginMask(c)
      <4>1. /\ f.id[2] \in 1..client[c].seq /\ client[c].seq \in Nat /\ LoginNumber(c) \in {1, 2}
            /\ ~(f.id[2] < LoginNumber(c)) /\ Known(c)
        BY <1>7, <3>1 DEF Requested, Issued, DialTypeOK, Clients, LoginNumber, ClientPart
      <4>2. client[c].at = "login" /\ client[c].seq = LoginNumber(c)
        BY <2>1, <3>1, <4>1 DEF Live, Known
      <4>3. f.id[2] = LoginNumber(c)
        BY <4>1, <4>2
      <4> QED BY <3>1, <4>2, <4>3 DEF Requested
    <3>2. MarkDue(c, i, step.on)'
      BY <1>1, <2>0, <2>2, <3>1, ScriptKept DEF MarkDue, Live
    <3> QED BY <1>1, <2>0, <2>2, <3>2 DEF Due
  <2>3. CASE i = 2
    <3> DEFINE m == step.frame
    <3>1. m = Response("success", f.id) /\ step.do = "write"
      BY <1>1, <2>0, <2>3
    <3> HIDE DEF m
    <3>2. Answer(c, m)' /\ m.from = Nobody
      <4>1. m.ids = <<f.id>> /\ m.ids # <<>> /\ m.ids[1] = f.id /\ m.from = Nobody
        BY <3>1, ReplyFacts
      <4> QED BY <4>1 DEF Answer, Requested, Issued, Live
    <3>3. client[c].at # "ready"
      BY <2>1 DEF Live
    <3>4. WriteDue(c, i, m)'
      BY <2>0, <2>3, <3>2, <3>3 DEF WriteDue
    <3> QED BY <3>1, <3>4, FewDue DEF m
  <2> QED BY <2>0, <2>2, <2>3
<1> QED BY <1>3, <1>4, <1>5, <1>6, <1>7

\* Each step keeps what is to be done due.
LEMMA TookDue ==
    ASSUME DialTypeOK, ClientPart, RequestPart, NEW c \in Conns, Took(c), script' = script,
           NEW i \in DOMAIN sess'[c].todo
    PROVE  Due(c, i)'
<1>0. /\ up[c] \in Seq(Requests) /\ up[c] # <<>> /\ client'[c] = client[c]
      /\ sess[c].at = "serving" /\ sess'[c].at = "serving" /\ sess'[c].authed = sess[c].authed
  BY DEF Took, ClientStays, SessionIs, DialTypeOK
<1>1. PICK f \in Requests : f = Head(up[c]) /\ Requested(c, f)
  <2>1. up[c][1] \in Requests /\ 1 \in DOMAIN up[c] /\ Head(up[c]) = up[c][1]
    BY <1>0, TailSeq
  <2>2. Requested(c, up[c][1])
    BY <2>1 DEF RequestPart
  <2> QED BY <2>1, <2>2
<1>2. PICK todo : todo = sess'[c].todo
  OBVIOUS
<1>3. PICK step : step = todo[i]
  OBVIOUS
<1>4. \/ todo = <<Do("end")>>
      \/ sess[c].authed /\ todo = Dispatch(f)
      \/ ~sess[c].authed /\ todo = Authenticate(f, sess[c].issued)
  BY <1>1, <1>2 DEF Took, SessionIs
<1>5. i \in DOMAIN todo /\ step = sess'[c].todo[i]
  BY <1>2, <1>3
<1>6. CASE todo = <<Do("end")>>
  <2> DEFINE end == Do("end")
  <2>0. todo = <<end>> /\ i \in DOMAIN todo
    BY <1>5, <1>6
  <2> HIDE DEF end
  <2>1. i = 1
    BY <2>0
  <2>2. step = end
    BY <1>3, <2>0, <2>1
  <2>3. step.do = "end"
    BY <2>2 DEF Do, end
  <2> QED BY <1>5, <2>3, FewDue
<1>7. CASE sess[c].authed /\ todo = Dispatch(f)
  BY <1>0, <1>1, <1>2, <1>3, <1>5, <1>7, DispatchDue
<1>8. CASE ~sess[c].authed /\ todo = Authenticate(f, sess[c].issued)
  <2>1. PICK issued : issued = sess[c].issued
    OBVIOUS
  <2> QED BY <1>0, <1>1, <1>2, <1>3, <1>5, <1>8, <2>1, AuthenticateDue
<1> QED BY <1>4, <1>6, <1>7, <1>8

LEMMA ServerDue ==
    ASSUME DialTypeOK, SessionPart, ClientPart, RequestPart, TodoPart, DialNext, NEW c \in Conns,
           ServerEffect(c), script' = script, NEW i \in DOMAIN sess'[c].todo
    PROVE  Due(c, i)'
<1>1. PICK step : step = sess'[c].todo[i]
  OBVIOUS
<1>2. PICK head : head = sess[c].todo[1]
  OBVIOUS
<1>3. CASE Quiet(c) \/ \E t \in Callers : Received(c, t)
  <2>1. ClientStays(c) /\ SessionStays(c)
    BY <1>3 DEF Quiet, Received
  <2> QED BY <1>1, <2>1, DueStays
<1>4. CASE Started(c)
  <2>0. sess'[c].todo = <<Write(Banner)>>
    BY <1>4 DEF Started, SessionIs
  <2> DEFINE m == step.frame
  <2>1. step.do = "write" /\ m.ids = <<>> /\ m.from = Nobody
    BY <1>1, <2>0 DEF Write, Banner
  <2> HIDE DEF m
  <2>2. \A id : <<id>> # m.ids
    BY <2>1
  <2>3. WriteDue(c, i, m)'
    BY <2>1, <2>2 DEF WriteDue, Answer, GrantsLogin, Grants, Bears
  <2> QED BY <1>1, <2>1, <2>3, FewDue DEF m
<1>5. CASE ReadDone(c)
  <2>0. sess'[c].todo = <<Do("end")>>
    BY <1>5 DEF ReadDone, SessionIs
  <2>1. step.do = "end"
    BY <1>1, <2>0 DEF Do
  <2> QED BY <1>1, <2>1, FewDue
<1>6. CASE Skipped(c) \/ Wrote(c)
  <2>1. /\ ClientStays(c) /\ sess[c].todo # <<>> /\ head.do \notin {"mark", "mask"}
        /\ sess'[c].todo = Tail(sess[c].todo)
        /\ sess'[c].authed = sess[c].authed /\ sess'[c].events = sess[c].events
    BY <1>2, <1>6 DEF Skipped, Wrote, Did, SessionIs
  <2> QED BY <1>1, <1>2, <2>1, DueShifts
<1>7. CASE Marked(c)
  <2>1. /\ ClientStays(c) /\ sess[c].todo # <<>> /\ head.do = "mark"
        /\ sess'[c].todo = Tail(sess[c].todo) /\ sess'[c].authed /\ sess'[c].events = head.on
    BY <1>2, <1>7 DEF Marked, Did, SessionIs
  <2> QED BY <1>1, <1>2, <2>1, DueShifts
<1>8. CASE Remasked(c)
  <2>1. /\ ClientStays(c) /\ sess[c].todo # <<>> /\ head.do = "mask"
        /\ sess'[c].todo = Tail(sess[c].todo)
        /\ sess'[c].authed = sess[c].authed /\ sess'[c].events = head.on
    BY <1>2, <1>8 DEF Remasked, Did, SessionIs
  <2> QED BY <1>1, <1>2, <2>1, DueShifts
<1>9. CASE Finished(c) \/ Forgotten(c)
  <2>1. sess'[c].todo = <<>>
    BY <1>9 DEF Finished, Forgotten, SessionIs
  <2> QED BY <2>1
<1> QED BY <1>3, <1>4, <1>5, <1>6, <1>7, <1>8, <1>9, TookDue DEF ServerEffect

\* The client of a session that goes on with what it does.
LEMMA ClientDue ==
    ASSUME DialTypeOK, SessionPart, ClientPart, RequestPart, OncePart, TodoPart, DownPart, DialNext,
           NEW c \in Conns, ClientEffect(c), script' = script, NEW i \in DOMAIN sess'[c].todo
    PROVE  Due(c, i)'
<1>0. /\ sess'[c] = sess[c] /\ i \in DOMAIN sess[c].todo /\ sess[c].todo \in Seq(Steps)
      /\ (Live(c)' => Live(c))
  BY ClientMoves DEF DialTypeOK, Sessions
<1>1. PICK step : step = sess[c].todo[i]
  OBVIOUS
<1>2. step \in Steps /\ step = sess'[c].todo[i] /\ Due(c, i)
  BY <1>0, <1>1 DEF TodoPart
<1>3. /\ step.do = "write" => WriteDue(c, i, step.frame)
      /\ step.do = "mark" => MarkDue(c, i, step.on)
      /\ step.do = "mask" => MaskDue(c, i, step.on)
      /\ step.do = "hold" => step.id[1] = c /\ HeldId(step.id)
  BY <1>1, <1>2 DEF Due
<1>4. ASSUME step.do = "hold" PROVE step.id[1] = c /\ HeldId(step.id)'
  <2>1. step.id \in Ids
    BY <1>2, <1>4, StepFields
  <2> QED BY <1>3, <1>4, <2>1, HeldKept
<1>5. step.do = "write" => step.frame \in Messages
  BY <1>2, StepFields
<1>6. step.do = "write" => Answer(c, step.frame)' /\ step.frame.from = Nobody
  BY <1>3, <1>5, AnswerKept DEF WriteDue
<1>7. sess[c].todo # <<>> /\ sess[c].at = "serving"
  BY <1>0 DEF SessionPart, Placed
<1>8. ASSUME step.do = "write" => WriteDue(c, i, step.frame)',
             step.do = "mark" => MarkDue(c, i, step.on)',
             step.do = "mask" => MaskDue(c, i, step.on)'
      PROVE  Due(c, i)'
  BY <1>2, <1>4, <1>8 DEF Due
<1>9. CASE Gone(c)
  BY <1>0, <1>3, <1>6, <1>8, <1>9 DEF Gone, Live, WriteDue, MarkDue, MaskDue
<1>10. CASE Dialled(c)
  BY <1>7, <1>10 DEF Dialled, SessionPart, Placed
<1>11. CASE Exchanged(c)
  <2>1. /\ client[c].at \in {"banner", "challenge"} /\ client'[c].at # "ready"
        /\ client[c].seq < LoginNumber(c) \/ client'[c].at # "login"
        /\ client[c].seq \in Nat /\ LoginNumber(c) \in Nat /\ Live(c)
    BY <1>11 DEF Exchanged, ClientIs, ClientPart, Known, Live, LoginNumber, DialTypeOK, Clients
  <2>2. step.do # "mark" /\ step.do # "mask"
    BY <1>3, <2>1 DEF MarkDue, MaskDue, ClientPart, Known, Pending
  <2>3. ASSUME step.do = "write", GrantsLogin(c, step.frame) PROVE client'[c].at # "login"
    <3>1. Issued(c, <<c, LoginNumber(c)>>)
      BY <1>3, <2>3 DEF WriteDue, GrantsLogin, Answer
    <3> QED BY <2>1, <3>1 DEF Issued
  <2>4. step.do = "write" => WriteDue(c, i, step.frame)'
    BY <1>6, <2>1, <2>3, ScriptKept DEF WriteDue
  <2> QED BY <1>8, <2>2, <2>4
<1>12. CASE LoggedOn(c)
  <2>1. /\ Live(c) /\ client[c].at = "login" /\ client'[c].at = "ready" /\ client'[c].pending = client[c].pending
        /\ client[c].pending = {} /\ client[c].seq = LoginNumber(c)
    BY <1>12 DEF LoggedOn, ClientIs, ClientPart, Known, Live
  <2>2. Pending(c) = {} /\ Pending(c)' = {}
    BY <2>1 DEF Pending
  <2>3. sess[c].authed
    <3>1. down[c][1] \in Messages /\ Arriving(c, down[c][1])
      <4>1. down[c] \in Seq(Messages) /\ down[c] # <<>>
        BY <1>12 DEF LoggedOn, Consumed, DialTypeOK
      <4> QED BY <4>1 DEF DownPart
    <3>2. <<c, LoginNumber(c)>> \in Ids
      BY DEF Ids, LoginNumber
    <3>3. down[c][1].ids = << <<c, LoginNumber(c)>> >>
      BY <1>12, <2>1, <3>1, <3>2, AnswerId DEF LoggedOn, Arriving
    <3> QED BY <1>7, <1>12, <2>1, <3>1, <3>3 DEF LoggedOn, Arriving, GrantsLogin
  <2>4. step.do # "mark" /\ step.do # "mask"
    BY <1>3, <2>1, <2>2, <2>3 DEF MarkDue, MaskDue
  <2>5. step.do = "write" => WriteDue(c, i, step.frame)'
    BY <1>6, <2>1, <2>2 DEF WriteDue
  <2> QED BY <1>8, <2>4, <2>5
<1>13. CASE Acted(c)
  <2>1. PICK p \in Actions, f \in Requests :
          /\ f.id = <<c, client[c].seq + 1>> /\ p.id = f.id
          /\ ClientIs(c, "ready", client[c].seq + 1, client[c].pending \cup {p}, client[c].mask,
                      client[c].seen)
    BY <1>13 DEF Acted
  <2>2. Live(c) /\ client[c].at = "ready" /\ client'[c].at = "ready"
        /\ client'[c].pending = client[c].pending \cup {p}
    BY <1>13, <2>1 DEF Acted, Live, ClientIs
  <2>3. Served(c, p) = {}
    BY <2>1, <2>2, FreshAction
  <2>4. step.do # "mark"
    BY <1>3, <2>2 DEF MarkDue
  <2>5. Pending(c) \subseteq Pending(c)' /\ Pending(c)' \subseteq Pending(c) \cup {p}
    BY <2>2 DEF Pending
  <2>6. step.do = "mask" => MaskDue(c, i, step.on)'
    BY <1>0, <1>3, <2>2, <2>5 DEF MaskDue
  <2>7. ASSUME step.do = "write" PROVE WriteDue(c, i, step.frame)'
    <3>1. ~Grants(step.frame, p)
      BY <1>0, <1>1, <2>3, <2>7 DEF Served, Grants
    <3>2. \A mask : Masked(c, mask)' = Masked(c, mask)
      BY <1>0 DEF Masked
    <3> QED BY <1>0, <1>3, <1>6, <2>2, <2>5, <2>7, <3>1, <3>2 DEF WriteDue
  <2> QED BY <1>8, <2>4, <2>6, <2>7
<1>14. CASE Responded(c) \/ Saw(c)
  <2>1. /\ Live(c) /\ client[c].at = "ready" /\ client'[c].at = "ready"
        /\ client'[c].pending \subseteq client[c].pending
    BY <1>14 DEF Responded, Saw, ClientIs, Live
  <2>2. ASSUME NEW p \in Pending(c), Served(c, p) # {} PROVE p \in Pending(c)'
    <3>1. p \in client[c].pending /\ p.name = "events"
      BY <2>2 DEF Pending
    <3>2. CASE Saw(c)
      BY <3>1, <3>2 DEF Saw, ClientIs, Pending
    <3>3. CASE Responded(c)
      <4>1. PICK q \in client[c].pending :
               q.id = Get(down[c][1].ids) /\ client'[c].pending = client[c].pending \ {q}
        BY <3>3 DEF Responded, ClientIs
      <4>2. Answered(c, q) # {}
        BY <3>3, <4>1, ResponseId DEF Responded, Consumed
      <4>3. Answered(c, p) = {}
        BY <2>1, <2>2, <3>1 DEF OncePart, Once
      <4> QED BY <3>1, <4>1, <4>2, <4>3 DEF Pending
    <3> QED BY <1>14, <3>2, <3>3
  <2>3. Pending(c)' \subseteq Pending(c)
    BY <2>1 DEF Pending
  <2>4. step.do # "mark"
    BY <1>3, <2>1 DEF MarkDue
  <2>5. ASSUME step.do = "mask" PROVE MaskDue(c, i, step.on)'
    <3>1. /\ i = 1 /\ Len(sess[c].todo) = 2 /\ sess[c].todo[2].do = "write"
          /\ \E p \in Pending(c) :
                Grants(sess[c].todo[2].frame, p) /\ step.on = EventMaskEnabled(p.mask)
      BY <1>3, <2>1, <2>5 DEF MaskDue
    <3>2. PICK p \in Pending(c) : Grants(sess[c].todo[2].frame, p) /\ step.on = EventMaskEnabled(p.mask)
      BY <3>1
    <3>3. 2 \in Served(c, p)
      <4>1. 2 \in DOMAIN sess[c].todo
        BY <1>0, <3>1
      <4> QED BY <3>1, <3>2, <4>1 DEF Served, Grants
    <3>4. p \in Pending(c)'
      BY <2>2, <3>3
    <3> QED BY <1>0, <3>1, <3>2, <3>4 DEF MaskDue
  <2>6. ASSUME step.do = "write" PROVE WriteDue(c, i, step.frame)'
    <3>1. \A mask : Masked(c, mask)' = Masked(c, mask)
      BY <1>0 DEF Masked
    <3> QED BY <1>0, <1>3, <1>6, <2>1, <2>3, <2>6, <3>1 DEF WriteDue
  <2> QED BY <1>8, <2>4, <2>5, <2>6
<1> QED BY <1>9, <1>10, <1>11, <1>12, <1>13, <1>14 DEF ClientEffect

LEMMA TodoStep ==
    ASSUME DialTypeOK, SessionPart, ClientPart, RequestPart, OncePart, TodoPart, DownPart, DialNext
    PROVE  TodoPart'
<1>1. ASSUME NEW c \in Conns, NEW i \in DOMAIN sess'[c].todo PROVE Due(c, i)'
  BY StepEffects, ServerDue, ClientDue
<1> QED BY <1>1 DEF TodoPart
----------------------------------------------------------------------------
(* What arrives at a client                                                *)

\* What is on its way to the client was so before, or was written.
LEMMA DownMoves ==
    ASSUME DialTypeOK, DialTypeOK', NEW c \in Conns, ServerEffect(c) \/ ClientEffect(c),
           NEW i \in DOMAIN down'[c]
    PROVE  \/ \E j \in DOMAIN down[c] : down'[c][i] = down[c][j]
           \/ /\ Wrote(c) \/ \E t \in Callers : Received(c, t)
              /\ down'[c] # down[c]
<1>0. /\ down[c] \in Seq(Messages) /\ DOMAIN down[c] = 1..Len(down[c]) /\ Len(down[c]) \in Nat
      /\ down'[c] \in Seq(Messages)
  <2>1. down[c] \in Seq(Messages) /\ down'[c] \in Seq(Messages)
    BY DEF DialTypeOK
  <2> QED BY <2>1
<1>1. CASE down'[c] = down[c]
  BY <1>1
<1>2. CASE Consumed(c)
  <2>1. down[c] # <<>> /\ down'[c] = Tail(down[c])
    BY <1>2 DEF Consumed
  <2>2. /\ DOMAIN Tail(down[c]) = 1..Len(Tail(down[c]))
        /\ \A k \in 1..Len(Tail(down[c])) : k + 1 \in 1..Len(down[c]) /\ Tail(down[c])[k] = down[c][k + 1]
    BY <1>0, <2>1, TailSeq
  <2> QED BY <1>0, <2>1, <2>2
<1>3. CASE Fewer(c)
  BY <1>3 DEF Fewer
<1> QED BY <1>1, <1>2, <1>3
    DEF ServerEffect, Quiet, Started, Took, ReadDone, Skipped, Marked, Remasked, Finished, Forgotten,
        ClientEffect, Gone, Dialled, Exchanged, LoggedOn, Acted, Responded, Saw

\* What was on its way stays true.
LEMMA ArrivingKept ==
    ASSUME DialTypeOK, SessionPart, ClientPart, TodoPart, NEW c \in Conns,
           ServerEffect(c) \/ ClientEffect(c), script' = script, NEW m \in Messages, Arriving(c, m)
    PROVE  Arriving(c, m)'
<1>1. Answer(c, m)'
  BY AnswerKept DEF Arriving
<1>2. ASSUME ServerEffect(c), client'[c].at = "login", GrantsLogin(c, m), sess'[c].at # "over"
      PROVE  sess'[c].authed /\ Masked(c, LoginMask(c))'
  <2>1. client'[c] = client[c] /\ client[c].at = "login" /\ Live(c)
    BY <1>2, ServerKeepsClient DEF Live
  <2>2. CASE Marked(c)
    <3>1. sess'[c].authed /\ sess'[c].events = sess[c].todo[1].on
          /\ sess[c].todo # <<>> /\ sess[c].todo[1].do = "mark"
      BY <2>2 DEF Marked, Did, SessionIs
    <3>2. 1 \in DOMAIN sess[c].todo
      <4>1. sess[c].todo \in Seq(Steps)
        BY DEF DialTypeOK, Sessions
      <4> QED BY <3>1, <4>1
    <3>3. sess[c].todo[1].on = EventMaskEnabled(LoginMask(c))
      BY <2>1, <3>1, <3>2 DEF TodoPart, Due, MarkDue
    <3> QED BY <3>1, <3>3, ScriptKept DEF Masked
  <2>3. ~Remasked(c)
    <3>1. SUFFICES ASSUME Remasked(c) PROVE FALSE
      OBVIOUS
    <3>2. sess[c].todo # <<>> /\ sess[c].todo[1].do = "mask"
      BY <3>1 DEF Remasked, Did
    <3>3. 1 \in DOMAIN sess[c].todo
      <4>1. sess[c].todo \in Seq(Steps)
        BY DEF DialTypeOK, Sessions
      <4> QED BY <3>2, <4>1
    <3>4. Pending(c) # {}
      BY <2>1, <3>2, <3>3 DEF TodoPart, Due, MaskDue
    <3> QED BY <2>1, <3>4 DEF ClientPart, Known, Pending
  <2>4. CASE ~Marked(c)
    <3>1. sess'[c].authed = sess[c].authed /\ sess'[c].events = sess[c].events /\ sess[c].at # "over"
      BY <1>2, <2>3, <2>4
         DEF ServerEffect, Quiet, Started, Took, ReadDone, Skipped, Wrote, Finished, Forgotten,
             Received, SessionStays, SessionIs, Did
    <3> QED BY <1>2, <2>1, <3>1, ScriptKept DEF Arriving, Masked
  <2> QED BY <2>2, <2>4
<1>3. ASSUME ClientEffect(c), client'[c].at = "login", GrantsLogin(c, m) PROVE FALSE
  <2>1. Exchanged(c)
    BY <1>3 DEF ClientEffect, Gone, Live, Dialled, LoggedOn, Acted, Responded, Saw, ClientIs
  <2>2. /\ client[c].seq < LoginNumber(c) /\ client[c].seq \in Nat /\ LoginNumber(c) \in Nat /\ Live(c)
    BY <1>3, <2>1 DEF Exchanged, ClientIs, ClientPart, Known, Live, LoginNumber, DialTypeOK, Clients
  <2>3. Issued(c, <<c, LoginNumber(c)>>)
    BY <1>3 DEF Arriving, GrantsLogin, Answer
  <2> QED BY <2>2, <2>3 DEF Issued
<1>4. client'[c].at = "login" /\ GrantsLogin(c, m) /\ sess'[c].at # "over" =>
         sess'[c].authed /\ Masked(c, LoginMask(c))'
  BY <1>2, <1>3
<1> QED BY <1>1, <1>4, ScriptKept DEF Arriving

\* What has been sent to it.
LEMMA SentArrives ==
    ASSUME DialTypeOK, SessionPart, ClientPart, TodoPart, CallPart, NEW c \in Conns,
           Wrote(c) \/ \E t \in Callers : Received(c, t), down'[c] # down[c]
    PROVE  \E m \in Messages : down'[c] = Append(down[c], m) /\ Arriving(c, m)
<1>1. CASE Wrote(c)
  <2>1. sess[c].todo # <<>> /\ sess[c].todo[1].do = "write" /\ Delivered(c, sess[c].todo[1].frame)
    BY <1>1 DEF Wrote, Did
  <2>2. 1 \in DOMAIN sess[c].todo /\ sess[c].todo[1].frame \in Messages
    <3>1. sess[c].todo \in Seq(Steps)
      BY DEF DialTypeOK, Sessions
    <3>2. 1 \in DOMAIN sess[c].todo /\ sess[c].todo[1] \in Steps
      BY <2>1, <3>1
    <3> QED BY <2>1, <3>2, StepFields
  <2>3. WriteDue(c, 1, sess[c].todo[1].frame)
    BY <2>1, <2>2 DEF TodoPart, Due
  <2>4. Arriving(c, sess[c].todo[1].frame)
    BY <2>3 DEF WriteDue, Arriving
  <2> QED BY <2>1, <2>2, <2>4 DEF Delivered
<1>2. ASSUME NEW t \in Callers, Received(c, t)
      PROVE  \E m \in Messages : down'[c] = Append(down[c], m) /\ Arriving(c, m)
  <2> DEFINE m == call[t].frame
  <2>1. /\ Delivered(c, m) /\ m \in Messages /\ (Replying(t) \/ Broadcasting(t))
        /\ c \in ToSet(call[t].live)
    <3>1. call[t].live \in Seq(Conns) /\ call[t].live # <<>> /\ Head(call[t].live) = c
          /\ call[t].at = "writing" /\ Delivered(c, m)
      BY <1>2 DEF Received, DialTypeOK, Calls
    <3>2. c \in ToSet(call[t].live)
      <4>1. 1 \in DOMAIN call[t].live /\ call[t].live[1] = c
        BY <3>1
      <4> QED BY <4>1 DEF ToSet
    <3> QED BY <3>1, <3>2 DEF CallPart, Called
  <2>2. CASE Broadcasting(t)
    <3>1. m.ids = <<>>
      BY <2>2 DEF Broadcasting
    <3>2. \A id : <<id>> # <<>>
      OBVIOUS
    <3> QED BY <1>2, <2>1, <3>1, <3>2 DEF Arriving, Answer, GrantsLogin, Delivered
  <2>3. CASE Replying(t)
    <3>1. /\ m.from = Nobody /\ m.ids = <<m.ids[1]>> /\ HeldId(m.ids[1]) /\ m.ids[1][1] = c
      BY <2>1, <2>3 DEF Replying
    <3>2. m.ids[1] \in Ids
      <4>1. m.ids \in Seq(Ids) /\ m.ids # <<>>
        BY <2>1, <3>1 DEF Messages
      <4> QED BY <4>1
    <3>3. PICK id \in Ids : id = m.ids[1]
      BY <3>2
    <3>4. Live(c) => id[2] \in (LoginNumber(c) + 1)..client[c].seq
      BY <3>1, <3>3 DEF HeldId
    <3>5. LoginNumber(c) \in {1, 2} /\ client[c].seq \in Nat /\ id[2] \in Nat
      BY <3>3 DEF LoginNumber, DialTypeOK, Clients, Ids
    <3>6. Issued(c, id)
      BY <3>1, <3>3, <3>4, <3>5 DEF Issued
    <3>7. ~(client[c].at = "login" /\ GrantsLogin(c, m))
      <4>1. SUFFICES ASSUME client[c].at = "login", GrantsLogin(c, m) PROVE FALSE
        OBVIOUS
      <4>2. id = <<c, LoginNumber(c)>>
        BY <3>3, <4>1 DEF GrantsLogin
      <4> QED BY <3>4, <3>5, <4>1, <4>2 DEF Live
    <3>8. Arriving(c, m)
      BY <3>1, <3>3, <3>6, <3>7 DEF Arriving, Answer
    <3> QED BY <1>2, <2>1, <3>8 DEF Delivered
  <2> QED BY <2>1, <2>2, <2>3
<1> QED BY <1>1, <1>2

\* Each step keeps what is on its way to a client right.
LEMMA DownStep ==
    ASSUME DialTypeOK, DialTypeOK', SessionPart, ClientPart, TodoPart, DownPart, CallPart, DialNext
    PROVE  DownPart'
<1> SUFFICES ASSUME NEW c \in Conns, NEW i \in DOMAIN down'[c], NEW m, m = down'[c][i]
             PROVE  Arriving(c, m)'
  BY DEF DownPart
<1>1. /\ ServerEffect(c) \/ ClientEffect(c)
      /\ script' = script /\ down[c] \in Seq(Messages)
  BY StepEffects DEF DialTypeOK
<1>2. \/ \E j \in DOMAIN down[c] : m = down[c][j]
      \/ \E x \in Messages : down'[c] = Append(down[c], x) /\ Arriving(c, x)
  BY <1>1, DownMoves, SentArrives
<1>3. m \in Messages /\ Arriving(c, m)
  <2>1. CASE \E j \in DOMAIN down[c] : m = down[c][j]
    BY <1>1, <2>1 DEF DownPart
  <2>2. ASSUME NEW x \in Messages, down'[c] = Append(down[c], x), Arriving(c, x)
        PROVE  m \in Messages /\ Arriving(c, m)
    <3>1. /\ DOMAIN Append(down[c], x) = 1..(Len(down[c]) + 1) /\ Append(down[c], x)[Len(down[c]) + 1] = x
          /\ \A k \in 1..Len(down[c]) : Append(down[c], x)[k] = down[c][k]
          /\ DOMAIN down[c] = 1..Len(down[c]) /\ Len(down[c]) \in Nat
      BY <1>1, AppendSeq
    <3>2. CASE i = Len(down[c]) + 1
      BY <2>2, <3>1, <3>2
    <3>3. CASE i \in DOMAIN down[c]
      <4>1. m = down[c][i]
        BY <2>2, <3>1, <3>3
      <4> QED BY <1>1, <3>3, <4>1 DEF DownPart
    <3> QED BY <2>2, <3>1, <3>2, <3>3
  <2> QED BY <1>2, <2>1, <2>2
<1> QED BY <1>1, <1>3, ArrivingKept
----------------------------------------------------------------------------
(* The mask that a client knows of                                         *)

\* An action that is nowhere stays so.
LEMMA NowhereKept ==
    ASSUME DialTypeOK, DialTypeOK', ClientPart, RequestPart, CallPart, NEW c \in Conns, ServerEffect(c),
           client[c].at = "ready", NEW p \in client[c].pending, p.name \in {"events", "ping"},
           Nowhere(c, p)
    PROVE  Nowhere(c, p)'
<1>0. /\ Queued(c, p) = {} /\ Served(c, p) = {} /\ Answered(c, p) = {}
      /\ sess[c].todo \in Seq(Steps) /\ up[c] \in Seq(Requests)
  BY DEF Nowhere, DialTypeOK, Sessions
<1>1. Queued(c, p)' = {}
  <2>1. \/ Kept(c) \/ up'[c] = <<>> \/ (up[c] # <<>> /\ up'[c] = Tail(up[c]))
    BY KeptSame DEF ServerEffect, Quiet, Started, Took, ReadDone, Skipped, Marked, Remasked, Wrote,
                    Finished, Forgotten, Received
  <2>2. Shrinks(Queued(c, p)', Queued(c, p))
    BY <2>1, QueuedShrinks
  <2> QED BY <1>0, <2>2, ShrinksOnce
<1>2. Answered(c, p)' = {}
  <2>1. \/ down'[c] = down[c] \/ Wrote(c) \/ \E t \in Callers : Received(c, t)
    BY DEF ServerEffect, Quiet, Started, Took, ReadDone, Skipped, Marked, Remasked, Finished, Forgotten
  <2>2. CASE Wrote(c)
    <3>1. /\ sess[c].todo # <<>> /\ sess[c].todo[1].do = "write"
          /\ Delivered(c, sess[c].todo[1].frame)
      BY <2>2 DEF Wrote, Did
    <3>2. 1 \in DOMAIN sess[c].todo
      BY <1>0, <3>1
    <3>3. ~Bears(sess[c].todo[1].frame, p)
      BY <1>0, <3>1, <3>2 DEF Served
    <3> QED BY <1>0, <3>1, <3>3, AnsweredShrinks, ShrinksOnce
  <2>3. ASSUME NEW t \in Callers, Received(c, t) PROVE Answered(c, p)' = {}
    <3>1. Delivered(c, call[t].frame) /\ ~Bears(call[t].frame, p)
      BY <2>3, ReceivedBears DEF Received
    <3> QED BY <1>0, <3>1, AnsweredShrinks, ShrinksOnce
  <2>4. CASE down'[c] = down[c]
    BY <1>0, <2>4, AnsweredShrinks, ShrinksOnce
  <2> QED BY <2>1, <2>2, <2>3, <2>4
<1>3. Served(c, p)' = {}
  <2>1. CASE Started(c)
    <3>1. sess'[c].todo = <<Write(Banner)>>
      BY <2>1 DEF Started, SessionIs
    <3>2. \A i \in DOMAIN sess'[c].todo : sess'[c].todo[i].frame.ids = <<>>
      BY <3>1 DEF Write, Banner
    <3>3. <<>> # <<p.id>>
      OBVIOUS
    <3> QED BY <3>2, <3>3 DEF Served, Bears
  <2>2. CASE ReadDone(c)
    <3>1. sess'[c].todo = <<Do("end")>>
      BY <2>2 DEF ReadDone, SessionIs
    <3>2. \A i \in DOMAIN sess'[c].todo : sess'[c].todo[i].do = "end"
      BY <3>1 DEF Do
    <3> QED BY <3>2 DEF Served
  <2>3. CASE Took(c)
    <3>1. PICK f \in Requests : f = Head(up[c]) /\ f.id # p.id
      <4>1. up[c] # <<>>
        BY <2>3 DEF Took
      <4>2. up[c][1] \in Requests /\ 1 \in DOMAIN up[c] /\ Head(up[c]) = up[c][1]
        BY <1>0, <4>1, TailSeq
      <4> QED BY <1>0, <4>2 DEF Queued
    <3>2. PICK issued : issued = sess[c].issued
      OBVIOUS
    <3>3. PICK todo : todo = sess'[c].todo
      OBVIOUS
    <3>4. todo \in {<<Do("end")>>, Dispatch(f), Authenticate(f, issued)} /\ handlers \subseteq HandlerNames
      BY <2>3, <3>1, <3>2, <3>3 DEF Took, SessionIs, DialTypeOK
    <3>5. \A i \in DOMAIN todo : todo[i].do = "write" => todo[i].frame.ids = <<f.id>>
      BY <3>4, AnswersOnce
    <3> QED BY <3>1, <3>3, <3>5 DEF Served, Bears
  <2>4. CASE ~Started(c) /\ ~ReadDone(c) /\ ~Took(c)
    <3>1. \/ sess'[c].todo = sess[c].todo \/ sess'[c].todo = <<>>
          \/ sess[c].todo # <<>> /\ sess'[c].todo = Tail(sess[c].todo)
      BY <2>4 DEF ServerEffect, Quiet, Skipped, Marked, Remasked, Wrote, Finished, Forgotten, Received,
                  SessionStays, SessionIs, Did
    <3>2. Shrinks(Served(c, p)', Served(c, p))
      BY <3>1, ServedShrinks
    <3> QED BY <1>0, <3>2, ShrinksOnce
  <2> QED BY <2>1, <2>2, <2>3, <2>4
<1> QED BY <1>1, <1>2, <1>3 DEF Nowhere

\* An answer that was lost stays lost.
LEMMA LostKept ==
    ASSUME DialTypeOK, DialTypeOK', ClientPart, RequestPart, CallPart, NEW c \in Conns, ServerEffect(c),
           client[c].at = "ready", hung[c] => hung'[c], Lost(c)
    PROVE  Lost(c)'
<1>1. PICK p \in Pending(c) : Nowhere(c, p)
  BY DEF Lost
<1>2. p \in client[c].pending /\ p.name = "events"
  BY DEF Pending
<1>3. Nowhere(c, p)'
  BY <1>1, <1>2, NowhereKept
<1>4. p \in Pending(c)' /\ hung'[c]
  BY <1>2, ServerKeepsClient DEF Pending, Lost
<1> QED BY <1>3, <1>4 DEF Lost

\* An answer that goes nowhere any more was nowhere else.
LEMMA ServedAlone ==
    ASSUME OncePart, NEW c \in Conns, client[c].at = "ready", NEW p \in Pending(c), Served(c, p) # {}
    PROVE  Queued(c, p) = {} /\ Answered(c, p) = {} /\ AtMostOne(Served(c, p))
BY DEF OncePart, Once, Pending

\* The client knows what it did before: no grant is lost or new, and the mask stays.
LEMMA FaithfulKept ==
    ASSUME DialTypeOK, NEW c \in Conns, client'[c] = client[c], sess'[c].events = sess[c].events,
           Faithful(c), Lost(c) => Lost(c)', Granting(c) => Granting(c)',
           down'[c] = down[c] \/ \E m \in Messages : /\ down'[c] = Append(down[c], m)
                                                     /\ \A p \in Pending(c) : ~Grants(m, p)
    PROVE  Faithful(c)'
<1>0. /\ down[c] \in Seq(Messages) /\ Len(down[c]) \in Nat /\ DOMAIN down[c] = 1..Len(down[c])
      /\ Pending(c)' = Pending(c) /\ client'[c].mask = client[c].mask
      /\ \A mask : Masked(c, mask)' = Masked(c, mask)
  <2>1. down[c] \in Seq(Messages)
    BY DEF DialTypeOK
  <2> QED BY <2>1 DEF Pending, Masked
<1>1. /\ \A j \in DOMAIN down[c] : j \in DOMAIN down'[c] /\ down'[c][j] = down[c][j]
      /\ \A j \in DOMAIN down'[c] : j \in DOMAIN down[c] \/ \A q \in Pending(c) : ~Grants(down'[c][j], q)
  <2>1. CASE down'[c] = down[c]
    BY <2>1
  <2>2. ASSUME NEW m \in Messages, down'[c] = Append(down[c], m), \A p \in Pending(c) : ~Grants(m, p)
        PROVE  /\ \A j \in DOMAIN down[c] : j \in DOMAIN down'[c] /\ down'[c][j] = down[c][j]
               /\ \A j \in DOMAIN down'[c] :
                     j \in DOMAIN down[c] \/ \A q \in Pending(c) : ~Grants(down'[c][j], q)
    <3>1. /\ DOMAIN down'[c] = 1..(Len(down[c]) + 1) /\ down'[c][Len(down[c]) + 1] = m
          /\ \A k \in 1..Len(down[c]) : down'[c][k] = down[c][k]
      BY <1>0, <2>2, AppendSeq
    <3>2. \A j \in DOMAIN down'[c] : j \in DOMAIN down[c] \/ j = Len(down[c]) + 1
      BY <1>0, <3>1
    <3>3. \A j \in DOMAIN down[c] : j \in DOMAIN down'[c]
      BY <1>0, <3>1
    <3> QED BY <1>0, <2>2, <3>1, <3>2, <3>3
  <2> QED BY <2>1, <2>2
<1>2. CASE LastGrant(c)
  <2>1. PICK i \in DOMAIN down[c], p \in Pending(c) :
           /\ Grants(down[c][i], p) /\ Masked(c, p.mask)
           /\ \A j \in DOMAIN down[c] : j > i => ~\E q \in Pending(c) : Grants(down[c][j], q)
    BY <1>2 DEF LastGrant
  <2>2. i \in DOMAIN down'[c] /\ Grants(down'[c][i], p)
    BY <1>1, <2>1
  <2>3. \A j \in DOMAIN down'[c] : j > i => \A q \in Pending(c) : ~Grants(down'[c][j], q)
    BY <1>1, <2>1
  <2>4. LastGrant(c)'
    BY <1>0, <2>1, <2>2, <2>3 DEF LastGrant, Grants, Bears, Success
  <2> QED BY <2>4 DEF Faithful
<1>3. CASE NoGrant(c)
  <2>1. \A j \in DOMAIN down'[c] : \A q \in Pending(c) : ~Grants(down'[c][j], q)
    BY <1>1, <1>3 DEF NoGrant
  <2>2. NoGrant(c)'
    BY <1>0, <1>3, <2>1 DEF NoGrant, Grants, Bears, Success
  <2> QED BY <2>2 DEF Faithful
<1> QED BY <1>2, <1>3 DEF Faithful

\* An answer that is still to be written stays so.
LEMMA GrantingShifts ==
    ASSUME DialTypeOK, NEW c \in Conns, client'[c] = client[c], sess[c].todo # <<>>,
           sess'[c].todo = Tail(sess[c].todo), Granting(c),
           sess[c].todo[1].do # "write" \/ \A p \in Pending(c) : ~Grants(sess[c].todo[1].frame, p)
    PROVE  Granting(c)'
<1> DEFINE todo == sess[c].todo
<1>0. todo \in Seq(Steps) /\ todo # <<>> /\ sess'[c].todo = Tail(todo) /\ Pending(c)' = Pending(c)
  BY DEF DialTypeOK, Sessions, Pending
<1>1. PICK i \in DOMAIN todo : todo[i].do = "write" /\ \E p \in Pending(c) : Grants(todo[i].frame, p)
  BY DEF Granting
<1>2. i # 1
  BY <1>1
<1> HIDE DEF todo
<1>3. PICK k \in DOMAIN Tail(todo) : Tail(todo)[k] = todo[i]
  <2>1. /\ DOMAIN todo = 1..Len(todo) /\ DOMAIN Tail(todo) = 1..Len(Tail(todo))
        /\ \A k \in 1..Len(Tail(todo)) : k + 1 \in 1..Len(todo) /\ Tail(todo)[k] = todo[k + 1]
        /\ Len(Tail(todo)) = Len(todo) - 1 /\ Len(todo) \in Nat
    BY <1>0, TailSeq
  <2>2. i - 1 \in 1..Len(Tail(todo)) /\ (i - 1) + 1 = i
    BY <1>1, <1>2, <2>1
  <2> QED BY <2>1, <2>2
<1>4. sess'[c].todo[k].do = "write" /\ \E p \in Pending(c) : Grants(sess'[c].todo[k].frame, p)
  BY <1>0, <1>1, <1>3
<1> QED BY <1>0, <1>3, <1>4 DEF Granting, Grants, Bears, Success

\* A grant is written once the mask is what it says; what is dropped is lost.
LEMMA WroteFaithful ==
    ASSUME DialTypeOK, DialTypeOK', ClientPart, OncePart, TodoPart, NEW c \in Conns, Wrote(c),
           client[c].at = "ready", hung[c] => hung'[c], NEW p \in Pending(c),
           Grants(sess[c].todo[1].frame, p)
    PROVE  Faithful(c)'
<1> DEFINE m == sess[c].todo[1].frame
<1>0. /\ sess[c].todo \in Seq(Steps) /\ sess[c].todo # <<>> /\ sess[c].todo[1].do = "write"
      /\ sess'[c].todo = Tail(sess[c].todo) /\ sess'[c].events = sess[c].events
      /\ up'[c] = up[c] /\ client'[c] = client[c] /\ Delivered(c, m) /\ ~left[c]
      /\ down[c] \in Seq(Messages)
  BY DEF Wrote, Did, SessionIs, ClientStays, DialTypeOK, Sessions, ClientPart, Known, Live
<1>1. 1 \in DOMAIN sess[c].todo /\ 1 \in Served(c, p)
  <2>1. 1 \in DOMAIN sess[c].todo
    BY <1>0
  <2> QED BY <1>0, <2>1 DEF Served, Grants
<1>2. Masked(c, p.mask)
  BY <1>0, <1>1 DEF TodoPart, Due, WriteDue
<1>3. Pending(c)' = Pending(c) /\ Masked(c, p.mask)'
  BY <1>0, <1>2 DEF Pending, Masked
<1>4. CASE down'[c] = Append(down[c], m)
  <2> HIDE DEF m
  <2>1. /\ DOMAIN down'[c] = 1..(Len(down[c]) + 1) /\ down'[c][Len(down[c]) + 1] = m
        /\ Len(down[c]) \in Nat
    BY <1>0, <1>4, AppendSeq
  <2>2. /\ Len(down[c]) + 1 \in DOMAIN down'[c]
        /\ \A j \in DOMAIN down'[c] : ~(j > Len(down[c]) + 1)
    BY <2>1
  <2>3. Grants(down'[c][Len(down[c]) + 1], p)
    BY <2>1 DEF m
  <2>4. LastGrant(c)'
    BY <1>3, <2>2, <2>3 DEF LastGrant, Grants, Bears, Success
  <2> QED BY <2>4 DEF Faithful
<1>5. CASE down'[c] = down[c] /\ hung[c]
  <2>1. /\ Queued(c, p) = {} /\ Answered(c, p) = {} /\ \A i \in Served(c, p) : i = 1
    BY <1>1, ServedAlone DEF AtMostOne
  <2>2. Queued(c, p)' = {} /\ Answered(c, p)' = {}
    BY <1>0, <1>5, <2>1 DEF Queued, Answered, Bears
  <2>3. Once(c, p)'
    BY WroteOnce DEF OncePart, Pending
  <2>4. Served(c, p)' = {}
    <3>1. ASSUME NEW i \in Served(c, p)' PROVE FALSE
      <4> DEFINE todo == sess[c].todo
      <4>0. todo \in Seq(Steps) /\ todo # <<>> /\ sess'[c].todo = Tail(todo)
        BY <1>0
      <4>1. i \in DOMAIN Tail(todo) /\ Tail(todo)[i].do = "write" /\ Bears(Tail(todo)[i].frame, p)
        BY <3>1, <4>0 DEF Served, Bears
      <4>2. i + 1 \in DOMAIN todo /\ todo[i + 1] = Tail(todo)[i] /\ i \in Nat /\ i # 0
        <5> HIDE DEF todo
        <5>1. /\ DOMAIN todo = 1..Len(todo) /\ DOMAIN Tail(todo) = 1..Len(Tail(todo)) /\ Len(Tail(todo)) \in Nat
              /\ \A k \in 1..Len(Tail(todo)) : k + 1 \in 1..Len(todo) /\ Tail(todo)[k] = todo[k + 1]
          BY <4>0, TailSeq
        <5> QED BY <4>1, <5>1
      <4>3. i + 1 \in Served(c, p)
        BY <4>1, <4>2 DEF Served
      <4> QED BY <2>1, <4>2, <4>3
    <3> QED BY <3>1
  <2>5. Nowhere(c, p)'
    BY <2>2, <2>4 DEF Nowhere
  <2>6. Lost(c)'
    BY <1>3, <1>5, <2>5 DEF Lost
  <2> QED BY <2>6 DEF Faithful
<1> QED BY <1>0, <1>4, <1>5 DEF Delivered

\* Each step keeps the mask that the client will know of.
LEMMA ServerFaithful ==
    ASSUME DialTypeOK, DialTypeOK', SessionPart, ClientPart, RequestPart, OncePart, TodoPart, CallPart,
           NEW c \in Conns, ServerEffect(c), client[c].at = "ready", sess'[c].authed,
           hung[c] => hung'[c], sess[c].authed => Faithful(c)
    PROVE  Faithful(c)'
<1>0. /\ client'[c] = client[c] /\ Live(c) /\ sess[c].todo \in Seq(Steps)
      /\ sess[c].todo # <<>> => 1 \in DOMAIN sess[c].todo
  <2>1. sess[c].todo \in Seq(Steps)
    BY DEF DialTypeOK, Sessions
  <2> QED BY <2>1, ServerKeepsClient DEF Live
<1>1. ~Marked(c)
  BY <1>0 DEF Marked, Did, TodoPart, Due, MarkDue
<1>2. sess[c].authed
  BY <1>1 DEF ServerEffect, Quiet, Started, Took, ReadDone, Skipped, Remasked, Wrote, Finished,
              Forgotten, Received, SessionStays, SessionIs
<1>3. Faithful(c) /\ (Lost(c) => Lost(c)')
  BY <1>2, LostKept
<1>4. CASE Quiet(c)
  <2>1. sess'[c] = sess[c] /\ down'[c] = down[c]
    BY <1>4 DEF Quiet, SessionStays
  <2>2. Granting(c) => Granting(c)'
    BY <1>0, <2>1 DEF Granting, Pending, Grants, Bears, Success
  <2> QED BY <1>0, <1>3, <2>1, <2>2, FaithfulKept
<1>5. CASE Started(c)
  BY <1>2, <1>5 DEF Started, SessionPart, Placed
<1>6. CASE Took(c) \/ ReadDone(c)
  <2>1. sess[c].todo = <<>> /\ sess'[c].events = sess[c].events /\ down'[c] = down[c]
    BY <1>6 DEF Took, ReadDone, SessionIs
  <2>2. ~Granting(c)
    BY <2>1 DEF Granting
  <2> QED BY <1>0, <1>3, <2>1, <2>2, FaithfulKept
<1>7. CASE Skipped(c)
  <2>1. /\ sess'[c].events = sess[c].events /\ down'[c] = down[c] /\ sess[c].todo # <<>>
        /\ sess'[c].todo = Tail(sess[c].todo) /\ sess[c].todo[1].do # "write"
    BY <1>7 DEF Skipped, SessionIs, Did
  <2>2. Granting(c) => Granting(c)'
    BY <1>0, <2>1, GrantingShifts
  <2> QED BY <1>0, <1>3, <2>1, <2>2, FaithfulKept
<1>8. CASE Remasked(c)
  <2>1. /\ sess[c].todo # <<>> /\ sess[c].todo[1].do = "mask" /\ sess'[c].todo = Tail(sess[c].todo)
    BY <1>8 DEF Remasked, SessionIs, Did
  <2>2. MaskDue(c, 1, sess[c].todo[1].on)
    BY <1>0, <2>1 DEF TodoPart, Due
  <2>3. /\ Len(sess[c].todo) = 2 /\ sess[c].todo[2].do = "write"
        /\ \E p \in Pending(c) : Grants(sess[c].todo[2].frame, p)
    BY <1>0, <2>2 DEF MaskDue
  <2>4. 2 \in DOMAIN sess[c].todo
    BY <1>0, <2>3
  <2>5. Granting(c)
    BY <2>3, <2>4 DEF Granting
  <2>6. Granting(c)'
    BY <1>0, <2>1, <2>5, GrantingShifts
  <2> QED BY <2>6 DEF Faithful
<1>9. CASE Wrote(c)
  <2> DEFINE m == sess[c].todo[1].frame
  <2>1. /\ sess[c].todo # <<>> /\ sess[c].todo[1].do = "write" /\ sess'[c].todo = Tail(sess[c].todo)
        /\ sess'[c].events = sess[c].events /\ Delivered(c, m)
    BY <1>9 DEF Wrote, Did, SessionIs
  <2>2. CASE \E p \in Pending(c) : Grants(m, p)
    BY <1>9, <2>2, WroteFaithful
  <2>3. CASE \A p \in Pending(c) : ~Grants(m, p)
    <3>1. Granting(c) => Granting(c)'
      BY <1>0, <2>1, <2>3, GrantingShifts
    <3>2. m \in Messages
      <4>1. sess[c].todo[1] \in Steps
        BY <1>0, <2>1
      <4> QED BY <2>1, <4>1, StepFields
    <3> QED BY <1>0, <1>3, <2>1, <2>3, <3>1, <3>2, FaithfulKept DEF Delivered
  <2> QED BY <2>2, <2>3
<1>10. CASE Finished(c)
  <2>1. /\ sess'[c].todo = <<>> /\ up'[c] = <<>> /\ down'[c] = down[c] /\ hung'[c]
        /\ sess'[c].events = sess[c].events
    BY <1>10 DEF Finished, SessionIs
  <2>2. CASE Granting(c)
    <3>1. PICK i \in DOMAIN sess[c].todo :
             sess[c].todo[i].do = "write" /\ \E p \in Pending(c) : Grants(sess[c].todo[i].frame, p)
      BY <2>2 DEF Granting
    <3>2. PICK p \in Pending(c) : Grants(sess[c].todo[i].frame, p)
      BY <3>1
    <3>3. i \in Served(c, p)
      BY <3>1, <3>2 DEF Served, Grants
    <3>4. Queued(c, p) = {} /\ Answered(c, p) = {}
      BY <3>3, ServedAlone
    <3>5. Nowhere(c, p)'
      BY <2>1, <3>4 DEF Nowhere, Queued, Served, Answered, Bears
    <3>6. p \in Pending(c)'
      BY <1>0 DEF Pending
    <3>7. Lost(c)'
      BY <2>1, <3>5, <3>6 DEF Lost
    <3> QED BY <3>7 DEF Faithful
  <2>3. CASE ~Granting(c)
    BY <1>0, <1>3, <2>1, <2>3, FaithfulKept
  <2> QED BY <2>2, <2>3
<1>11. CASE Forgotten(c)
  BY <1>11 DEF Forgotten, SessionIs
<1>12. ASSUME NEW t \in Callers, Received(c, t) PROVE Faithful(c)'
  <2>1. sess'[c] = sess[c] /\ Delivered(c, call[t].frame) /\ call[t].frame \in Messages
    BY <1>12 DEF Received, SessionStays, CallPart, Called
  <2>2. \A p \in Pending(c) : ~Grants(call[t].frame, p)
    BY <1>12, ReceivedBears DEF Pending, Grants
  <2>3. Granting(c) => Granting(c)'
    BY <1>0, <2>1 DEF Granting, Pending, Grants, Bears, Success
  <2> QED BY <1>0, <1>3, <2>1, <2>2, <2>3, FaithfulKept DEF Delivered
<1> QED BY <1>1, <1>4, <1>5, <1>6, <1>7, <1>8, <1>9, <1>10, <1>11, <1>12 DEF ServerEffect

\* A client that has read the first message: what is behind it has moved up.
LEMMA ReadFirst ==
    ASSUME DialTypeOK, NEW c \in Conns, Consumed(c)
    PROVE  /\ 1 \in DOMAIN down[c] /\ down[c][1] \in Messages
           /\ \A i \in DOMAIN down'[c] :
                 i \in Nat \ {0} /\ i + 1 \in DOMAIN down[c] /\ down'[c][i] = down[c][i + 1]
           /\ \A i \in DOMAIN down[c] : i # 1 => /\ i - 1 \in DOMAIN down'[c]
                                                 /\ down'[c][i - 1] = down[c][i]
           /\ \A i \in DOMAIN down[c] : i \in Nat
<1>0. down[c] \in Seq(Messages) /\ down[c] # <<>> /\ down'[c] = Tail(down[c])
  BY DEF Consumed, DialTypeOK
<1>1. /\ DOMAIN down[c] = 1..Len(down[c]) /\ DOMAIN down'[c] = 1..Len(down'[c])
      /\ Len(down'[c]) = Len(down[c]) - 1 /\ Len(down[c]) \in Nat \ {0}
      /\ \A k \in 1..Len(down'[c]) : k + 1 \in 1..Len(down[c]) /\ down'[c][k] = down[c][k + 1]
  BY <1>0, TailSeq
<1>2. 1 \in DOMAIN down[c] /\ down[c][1] \in Messages
  BY <1>0, <1>1
<1>3. \A i \in DOMAIN down'[c] :
         i \in Nat \ {0} /\ i + 1 \in DOMAIN down[c] /\ down'[c][i] = down[c][i + 1]
  BY <1>1
<1>4. ASSUME NEW i \in DOMAIN down[c], i # 1
      PROVE  i - 1 \in DOMAIN down'[c] /\ down'[c][i - 1] = down[c][i]
  <2>1. i - 1 \in 1..Len(down'[c]) /\ (i - 1) + 1 = i
    BY <1>1, <1>4
  <2> QED BY <1>1, <2>1
<1>5. \A i \in DOMAIN down[c] : i \in Nat
  BY <1>1
<1> QED BY <1>2, <1>3, <1>4, <1>5

\* A client takes an answer, or sees an event, and some of its actions wait no more:
\* none of those whose answer is not the one it took.
LEMMA ReadFaithful ==
    ASSUME DialTypeOK, DialTypeOK', OncePart, NEW c \in Conns, Consumed(c),
           client[c].at = "ready", sess'[c] = sess[c], up'[c] = up[c], hung[c] => hung'[c],
           client'[c].pending \subseteq client[c].pending,
           \A p \in client[c].pending \ client'[c].pending : Bears(down[c][1], p),
           \/ /\ client'[c].mask = client[c].mask
              /\ \A p \in Pending(c) : ~Grants(down[c][1], p)
           \/ \E p \in Pending(c) :
                 /\ client'[c].mask = p.mask /\ Grants(down[c][1], p) /\ p \notin client'[c].pending
                 /\ \A q \in Pending(c) : Bears(down[c][1], q) => q = p,
           Faithful(c)
    PROVE  Faithful(c)'
<1>0. /\ Pending(c)' \subseteq Pending(c) /\ \A mask : Masked(c, mask)' = Masked(c, mask)
      /\ \A p \in Pending(c) : ~Bears(down[c][1], p) => p \in Pending(c)'
  BY DEF Pending, Masked
<1>1. /\ 1 \in DOMAIN down[c] /\ down[c][1] \in Messages
      /\ \A i \in DOMAIN down'[c] :
            i \in Nat \ {0} /\ i + 1 \in DOMAIN down[c] /\ down'[c][i] = down[c][i + 1]
      /\ \A i \in DOMAIN down[c] : i # 1 => i - 1 \in DOMAIN down'[c] /\ down'[c][i - 1] = down[c][i]
      /\ \A i \in DOMAIN down[c] : i \in Nat
  BY ReadFirst
<1>2. \A p \in Pending(c) : Answered(c, p) = {} => p \in Pending(c)'
  BY <1>0, <1>1 DEF Answered
<1>3. \A p \in Pending(c) : Bears(down[c][1], p) => \A i \in Answered(c, p) : i = 1
  BY <1>1 DEF OncePart, Once, AtMostOne, Answered, Pending
<1>4. CASE Lost(c)
  <2>1. PICK p \in Pending(c) : Nowhere(c, p)
    BY <1>4 DEF Lost
  <2>2. p \in Pending(c)'
    BY <1>2, <2>1 DEF Nowhere
  <2>3. Kept(c)
    BY KeptSame
  <2>4. /\ Shrinks(Queued(c, p)', Queued(c, p)) /\ Shrinks(Served(c, p)', Served(c, p))
        /\ Shrinks(Answered(c, p)', Answered(c, p))
    <3>1. Shrinks(Queued(c, p)', Queued(c, p))
      BY <2>3, QueuedShrinks
    <3>2. Shrinks(Served(c, p)', Served(c, p))
      BY ServedShrinks
    <3>3. Shrinks(Answered(c, p)', Answered(c, p))
      BY AnsweredShrinks
    <3> QED BY <3>1, <3>2, <3>3
  <2>5. Nowhere(c, p)'
    BY <2>1, <2>4, ShrinksOnce DEF Nowhere
  <2>6. Lost(c)'
    BY <1>4, <2>2, <2>5 DEF Lost
  <2> QED BY <2>6 DEF Faithful
<1>5. CASE Granting(c)
  <2>1. PICK i \in DOMAIN sess[c].todo :
           sess[c].todo[i].do = "write" /\ \E p \in Pending(c) : Grants(sess[c].todo[i].frame, p)
    BY <1>5 DEF Granting
  <2>2. PICK p \in Pending(c) : Grants(sess[c].todo[i].frame, p)
    BY <2>1
  <2>3. Served(c, p) # {}
    BY <2>1, <2>2 DEF Served, Grants
  <2>4. p \in Pending(c)'
    BY <1>2, <2>3, ServedAlone
  <2>5. Granting(c)'
    BY <2>1, <2>2, <2>4 DEF Granting, Grants, Bears, Success
  <2> QED BY <2>5 DEF Faithful
<1>6. CASE LastGrant(c)
  <2>1. PICK i \in DOMAIN down[c], p \in Pending(c) :
           /\ Grants(down[c][i], p) /\ Masked(c, p.mask)
           /\ \A j \in DOMAIN down[c] : j > i => ~\E q \in Pending(c) : Grants(down[c][j], q)
    BY <1>6 DEF LastGrant
  <2>2. i \in Answered(c, p)
    BY <2>1 DEF Answered, Grants
  <2>3. CASE i # 1
    <3>1. p \in Pending(c)'
      BY <1>0, <1>3, <2>2, <2>3
    <3>2. /\ i - 1 \in DOMAIN down'[c] /\ Grants(down'[c][i - 1], p)
      BY <1>1, <2>1, <2>3
    <3>3. ASSUME NEW j \in DOMAIN down'[c], j > i - 1, NEW q \in Pending(c) PROVE ~Grants(down'[c][j], q)
      <4>1. j + 1 \in DOMAIN down[c] /\ down'[c][j] = down[c][j + 1] /\ j + 1 > i
        BY <1>1, <3>3
      <4> QED BY <2>1, <4>1
    <3>4. LastGrant(c)'
      BY <1>0, <2>1, <3>1, <3>2, <3>3 DEF LastGrant, Grants, Bears, Success
    <3> QED BY <3>4 DEF Faithful
  <2>4. CASE i = 1
    <3>1. PICK g \in Pending(c) :
             /\ client'[c].mask = g.mask /\ Grants(down[c][1], g)
             /\ \A q \in Pending(c) : Bears(down[c][1], q) => q = g
      BY <2>1, <2>4
    <3>2. client'[c].mask = p.mask
      BY <2>1, <2>4, <3>1 DEF Grants
    <3>3. ASSUME NEW j \in DOMAIN down'[c], NEW q \in Pending(c) PROVE ~Grants(down'[c][j], q)
      <4>1. j + 1 \in DOMAIN down[c] /\ down'[c][j] = down[c][j + 1] /\ j + 1 > 1
        BY <1>1, <3>3
      <4> QED BY <2>1, <2>4, <4>1
    <3>4. NoGrant(c)'
      BY <1>0, <2>1, <3>2, <3>3 DEF NoGrant, Grants, Bears, Success
    <3> QED BY <3>4 DEF Faithful
  <2> QED BY <2>3, <2>4
<1>7. CASE NoGrant(c)
  <2>1. client'[c].mask = client[c].mask
    BY <1>1, <1>7 DEF NoGrant
  <2>2. ASSUME NEW j \in DOMAIN down'[c], NEW q \in Pending(c) PROVE ~Grants(down'[c][j], q)
    BY <1>1, <1>7, <2>2 DEF NoGrant
  <2>3. NoGrant(c)'
    BY <1>0, <1>7, <2>1, <2>2 DEF NoGrant, Grants, Bears, Success
  <2> QED BY <2>3 DEF Faithful
<1> QED BY <1>4, <1>5, <1>6, <1>7 DEF Faithful

LEMMA ClientFaithful ==
    ASSUME DialTypeOK, DialTypeOK', SessionPart, ClientPart, RequestPart, OncePart, TodoPart, DownPart,
           NEW c \in Conns, ClientEffect(c), client'[c].at = "ready", sess'[c].authed, script' = script,
           hung[c] => hung'[c], client[c].at = "ready" /\ sess[c].authed => Faithful(c)
    PROVE  Faithful(c)'
<1>0. sess'[c] = sess[c]
  BY ClientMoves
<1>1. CASE LoggedOn(c)
  <2>1. /\ Live(c) /\ client[c].at = "login" /\ client[c].pending = {} /\ client'[c].pending = {}
        /\ client[c].seq = LoginNumber(c) /\ client'[c].mask = LoginMask(c)
    BY <1>1 DEF LoggedOn, ClientIs, ClientPart, Known, Live
  <2>2. sess[c].at # "over"
    BY <1>0 DEF SessionPart, Placed
  <2>3. Masked(c, LoginMask(c))
    <3>1. down[c][1] \in Messages /\ Arriving(c, down[c][1])
      <4>1. down[c] \in Seq(Messages) /\ down[c] # <<>>
        BY <1>1 DEF LoggedOn, Consumed, DialTypeOK
      <4> QED BY <4>1 DEF DownPart
    <3>2. <<c, LoginNumber(c)>> \in Ids
      BY DEF Ids, LoginNumber
    <3>3. down[c][1].ids = << <<c, LoginNumber(c)>> >>
      BY <1>1, <2>1, <3>1, <3>2, AnswerId DEF LoggedOn, Arriving
    <3> QED BY <1>1, <2>1, <2>2, <3>1, <3>3 DEF LoggedOn, Arriving, GrantsLogin
  <2>4. Pending(c)' = {} /\ Masked(c, client[c].mask)'
    BY <1>0, <2>1, <2>3 DEF Pending, Masked
  <2> QED BY <2>4 DEF Faithful, NoGrant
<1>2. CASE Responded(c)
  <2>0. /\ client[c].at = "ready" /\ Consumed(c) /\ up'[c] = up[c] /\ Class(down[c][1]) = "response"
        /\ Faithful(c) /\ Live(c)
    BY <1>0, <1>2 DEF Responded, Live
  <2>1. PICK p \in client[c].pending :
          /\ p.id = Get(down[c][1].ids) /\ client'[c].pending = client[c].pending \ {p}
          /\ client'[c].mask = IF p.name = "events" /\ Success(down[c][1]) THEN p.mask ELSE client[c].mask
    BY <1>2 DEF Responded, ClientIs
  <2>2. Bears(down[c][1], p)
    BY <2>0, <2>1, ResponseId DEF Consumed
  <2>3. \A q \in client[c].pending : Bears(down[c][1], q) => q = p
    <3>1. \A q \in client[c].pending : Bears(down[c][1], q) => q.id = p.id
      BY <2>2 DEF Bears
    <3> QED BY <2>0, <3>1 DEF ClientPart, Known
  <2>4. CASE p.name = "events" /\ Success(down[c][1])
    <3>1. p \in Pending(c) /\ Grants(down[c][1], p) /\ client'[c].mask = p.mask
      BY <2>1, <2>2, <2>4 DEF Pending, Grants
    <3>2. \A q \in Pending(c) : Bears(down[c][1], q) => q = p
      BY <2>3 DEF Pending
    <3> QED BY <1>0, <2>0, <2>1, <2>2, <3>1, <3>2, ReadFaithful
  <2>5. CASE ~(p.name = "events" /\ Success(down[c][1]))
    <3>1. client'[c].mask = client[c].mask /\ \A q \in Pending(c) : ~Grants(down[c][1], q)
      BY <2>1, <2>3, <2>5 DEF Pending, Grants
    <3> QED BY <1>0, <2>0, <2>1, <2>2, <3>1, ReadFaithful
  <2> QED BY <2>4, <2>5
<1>3. CASE Saw(c)
  <2>1. /\ client[c].at = "ready" /\ Consumed(c) /\ up'[c] = up[c] /\ Class(down[c][1]) = "event"
        /\ client'[c].pending = client[c].pending /\ client'[c].mask = client[c].mask /\ Faithful(c)
    BY <1>0, <1>3 DEF Saw, ClientIs
  <2>2. \A q \in Pending(c) : ~Grants(down[c][1], q)
    BY <2>1 DEF Grants, Success
  <2> QED BY <1>0, <2>1, <2>2, ReadFaithful
<1>4. CASE Acted(c)
  <2>1. PICK p \in Actions, f \in Requests :
          /\ Sent(c, f) /\ f.id = <<c, client[c].seq + 1>> /\ p.id = f.id
          /\ ClientIs(c, "ready", client[c].seq + 1, client[c].pending \cup {p}, client[c].mask,
                      client[c].seen)
    BY <1>4 DEF Acted
  <2>2. /\ client[c].at = "ready" /\ down'[c] = down[c] /\ Faithful(c)
        /\ client'[c].pending = client[c].pending \cup {p} /\ client'[c].mask = client[c].mask
    BY <1>0, <1>4, <2>1 DEF Acted, ClientIs
  <2>3. /\ Queued(c, p) = {} /\ Served(c, p) = {} /\ Answered(c, p) = {}
        /\ \A q \in client[c].pending : q.id # p.id
    BY <2>1, <2>2, FreshAction
  <2>4. /\ Pending(c) \subseteq Pending(c)' /\ Pending(c)' \subseteq Pending(c) \cup {p}
        /\ \A mask : Masked(c, mask)' = Masked(c, mask)
    BY <1>0, <2>2 DEF Pending, Masked
  <2>5. \A i \in DOMAIN down[c] : ~Grants(down[c][i], p)
    BY <2>3 DEF Answered, Grants
  <2>6. CASE Lost(c)
    <3>1. PICK q \in Pending(c) : Nowhere(c, q)
      BY <2>6 DEF Lost
    <3>2. q.id # f.id
      BY <2>1, <2>3 DEF Pending
    <3>3. Shrinks(Queued(c, q)', Queued(c, q))
      <4>1. Kept(c) \/ up'[c] = Append(up[c], f)
        BY <2>1, KeptSame DEF Sent
      <4> QED BY <3>2, <4>1, QueuedShrinks
    <3>4. Shrinks(Served(c, q)', Served(c, q)) /\ Shrinks(Answered(c, q)', Answered(c, q))
      <4>1. Shrinks(Served(c, q)', Served(c, q))
        BY <1>0, ServedShrinks
      <4>2. Shrinks(Answered(c, q)', Answered(c, q))
        BY <2>2, AnsweredShrinks
      <4> QED BY <4>1, <4>2
    <3>5. Nowhere(c, q)' /\ q \in Pending(c)'
      BY <2>4, <3>1, <3>3, <3>4, ShrinksOnce DEF Nowhere
    <3>6. Lost(c)'
      BY <2>6, <3>5 DEF Lost
    <3> QED BY <3>6 DEF Faithful
  <2>7. CASE Granting(c)
    <3>1. Granting(c)'
      BY <1>0, <2>4, <2>7 DEF Granting, Grants, Bears, Success
    <3> QED BY <3>1 DEF Faithful
  <2>8. CASE LastGrant(c)
    <3>1. LastGrant(c)'
      BY <2>2, <2>4, <2>5, <2>8 DEF LastGrant, Grants, Bears, Success
    <3> QED BY <3>1 DEF Faithful
  <2>9. CASE NoGrant(c)
    <3>1. NoGrant(c)'
      BY <2>2, <2>4, <2>5, <2>9 DEF NoGrant, Grants, Bears, Success
    <3> QED BY <3>1 DEF Faithful
  <2> QED BY <2>2, <2>6, <2>7, <2>8, <2>9 DEF Faithful
<1> QED BY <1>1, <1>2, <1>3, <1>4 DEF ClientEffect, Gone, Dialled, Exchanged, ClientIs, Live

LEMMA MaskStep ==
    ASSUME DialTypeOK, DialTypeOK', SessionPart, ClientPart, RequestPart, OncePart, TodoPart, DownPart,
           CallPart, MaskPart, DialNext
    PROVE  MaskPart'
<1> SUFFICES ASSUME NEW c \in Conns, client'[c].at = "ready", sess'[c].authed
             PROVE  Faithful(c)'
  BY DEF MaskPart
<1>1. /\ ServerEffect(c) \/ ClientEffect(c)
      /\ script' = script /\ (hung[c] => hung'[c])
  BY StepEffects
<1>2. client[c].at = "ready" /\ sess[c].authed => Faithful(c)
  BY DEF MaskPart
<1> QED BY <1>1, <1>2, ServerKeepsClient, ServerFaithful, ClientFaithful
----------------------------------------------------------------------------
(* What a Ping proves                                                      *)

\* A broadcast goes past a client by writing to it.
LEMMA PassedMoves ==
    ASSUME DialTypeOK, CallPart, DialNext, NEW c \in Conns, NEW t \in Callers, Passed(c, t)'
    PROVE  Passed(c, t) \/ (Received(c, t) /\ call[t].frame.from = t)
<1>0. /\ call \in [Callers -> Calls] /\ call[t].live \in Seq(Conns) /\ Called(t)
      /\ down \in [Conns -> Seq(Messages)]
  BY DEF DialTypeOK, Calls, CallPart
<1>1. CASE call'[t] = call[t]
  BY <1>1 DEF Passed
<1>2. ASSUME NEW u \in Callers, u # t, Begin(u) \/ Continue(u) PROVE call'[t] = call[t]
  BY <1>0, <1>2 DEF Begin, Broadcast, Raw, Reply, HandleAction, Hangup, Close, Enter, Continue,
                    CallerWrite, CloseListener, HangNext, Wait, Return
<1>3. CASE Begin(t)
  <2>1. PICK op, at, live, frame : Enter(t, op, at, live, frame)
    BY <1>3 DEF Begin, Broadcast, Raw, Reply, HandleAction, Hangup, Close
  <2>2. call'[t].among = ToSet(call'[t].live)
    BY <2>1, EnterCalls
  <2> QED BY <2>2 DEF Passed
<1>4. CASE CallerWrite(t) /\ UNCHANGED client
  <2>1. /\ call' = [call EXCEPT ![t].live = Tail(@)] /\ call[t].at = "writing" /\ call[t].live # <<>>
        /\ Deliver(Head(call[t].live), call[t].frame) /\ UNCHANGED <<sess, up, left>>
    BY <1>4 DEF CallerWrite
  <2>2. call'[t].op = call[t].op /\ call'[t].among = call[t].among /\ call'[t].live = Tail(call[t].live)
    BY <1>0, <2>1 DEF Calls
  <2>3. CASE Head(call[t].live) = c
    <3>1. Broadcasting(t)
      BY <1>0, <2>1, <2>2 DEF Passed, Called, Replying
    <3>2. Received(c, t)
      BY <1>4, <2>1, <2>3, DeliverKeeps DEF Received, ClientStays, SessionStays
    <3> QED BY <3>1, <3>2 DEF Broadcasting
  <2>4. CASE Head(call[t].live) # c
    <3>1. ASSUME c \in ToSet(call[t].live) PROVE c \in ToSet(call'[t].live)
      <4> DEFINE live == call[t].live
      <4>1. live \in Seq(Conns) /\ live # <<>> /\ c \in ToSet(live) /\ Head(live) # c
        BY <1>0, <2>1, <2>4, <3>1
      <4> HIDE DEF live
      <4>2. PICK i \in DOMAIN live : live[i] = c
        BY <4>1 DEF ToSet
      <4>3. /\ DOMAIN live = 1..Len(live) /\ DOMAIN Tail(live) = 1..Len(Tail(live)) /\ Head(live) = live[1]
            /\ \A k \in 1..Len(Tail(live)) : k + 1 \in 1..Len(live) /\ Tail(live)[k] = live[k + 1]
            /\ Len(Tail(live)) = Len(live) - 1 /\ Len(live) \in Nat
        BY <4>1, TailSeq
      <4>4. i - 1 \in 1..Len(Tail(live)) /\ (i - 1) + 1 = i
        BY <4>1, <4>2, <4>3
      <4>5. c \in ToSet(Tail(live))
        BY <4>2, <4>3, <4>4 DEF ToSet
      <4> QED BY <2>2, <4>5 DEF live
    <3> QED BY <2>2, <3>1 DEF Passed
  <2> QED BY <2>3, <2>4
<1>5. CASE CloseListener(t) \/ HangNext(t) \/ Wait(t)
  <2>1. call[t].at \in {"closing", "hanging"} /\ call'[t].op = call[t].op
    BY <1>0, <1>5 DEF CloseListener, HangNext, Wait, Calls
  <2> QED BY <1>0, <2>1 DEF Passed, Called
<1>6. CASE Return(t)
  <2> DEFINE err == IF call[t].op = "close" THEN violations ELSE {}
  <2>1. call' = [call EXCEPT ![t] = [call[t] EXCEPT !.at = "returned", !.frame = Empty, !.err = err]]
    BY <1>0, <1>6 DEF Return
  <2> HIDE DEF err
  <2>2. /\ call'[t].op = call[t].op /\ call'[t].live = call[t].live /\ call'[t].among = call[t].among
    BY <1>0, <2>1 DEF Calls
  <2> QED BY <2>2 DEF Passed
<1>7. ASSUME NEW u \in Callers, ServerStep(Begin(u) \/ Continue(u))
      PROVE  Passed(c, t) \/ (Received(c, t) /\ call[t].frame.from = t)
  <2>1. (Begin(u) \/ Continue(u)) /\ UNCHANGED client
    BY <1>7 DEF ServerStep
  <2>2. CASE u # t
    BY <1>1, <1>2, <2>1, <2>2
  <2>3. CASE u = t
    BY <1>3, <1>4, <1>5, <1>6, <2>1, <2>3 DEF Continue
  <2> QED BY <2>2, <2>3
<1>8. ASSUME NEW d \in Conns, Client(d) PROVE call' = call
  BY <1>8, ClientEffects
<1>9. ASSUME ServerStep(AcceptLoop) \/ \E d \in Conns : ServerStep(Serve(d)) PROVE call' = call
  BY <1>9 DEF ServerStep, AcceptLoop, Accept, AcceptFails, Register, Start, Serve, ReadCall, ReadEnd,
              RecordViolation, MarkAuthed, SetEventMask, Hold, HangupSelf, EndSession, Unregister,
              SessionWrite
<1> QED BY <1>1, <1>7, <1>8, <1>9 DEF DialNext

\* What was coming to a client, and came first, still does, or it has been seen.
LEMMA ComingKept ==
    ASSUME DialTypeOK, DialTypeOK', ClientPart, DownPart, NEW c \in Conns, ServerEffect(c) \/ ClientEffect(c),
           client[c].at \in {"login", "ready"}, client'[c].at \in {"login", "ready"},
           NEW t \in Callers, NEW i \in Coming(c, t), NEW p
    PROVE  \/ t \in client'[c].seen
           \/ \E k \in Coming(c, t)' :
                 (\A j \in Answered(c, p) : i < j) => \A j \in Answered(c, p)' : k < j
<1>0. /\ down[c] \in Seq(Messages) /\ DOMAIN down[c] = 1..Len(down[c]) /\ Len(down[c]) \in Nat
      /\ i \in DOMAIN down[c] /\ down[c][i].from = t /\ t # Nobody /\ i \in Nat
  <2>1. down[c] \in Seq(Messages)
    BY DEF DialTypeOK
  <2>2. DOMAIN down[c] = 1..Len(down[c]) /\ Len(down[c]) \in Nat
    BY <2>1
  <2>3. i \in DOMAIN down[c] /\ down[c][i].from = t
    BY DEF Coming
  <2>4. i \in Nat
    BY <2>2, <2>3
  <2>5. t # Nobody
    BY TestServerAssumption DEF Nobody
  <2> QED BY <2>1, <2>2, <2>3, <2>4, <2>5
<1>1. CASE down'[c] = down[c]
  BY <1>1 DEF Coming, Answered, Bears
<1>2. ASSUME NEW m, down'[c] = Append(down[c], m)
      PROVE  \E k \in Coming(c, t)' : (\A j \in Answered(c, p) : i < j) => \A j \in Answered(c, p)' : k < j
  <2>1. /\ DOMAIN down'[c] = 1..(Len(down[c]) + 1)
        /\ \A k \in 1..Len(down[c]) : down'[c][k] = down[c][k]
    BY <1>0, <1>2, AppendSeq
  <2>2. i \in Coming(c, t)'
    BY <1>0, <2>1 DEF Coming
  <2>3. ASSUME \A j \in Answered(c, p) : i < j, NEW j \in Answered(c, p)' PROVE i < j
    <3>1. j \in DOMAIN down'[c] /\ Bears(down'[c][j], p)
      BY <2>3 DEF Answered, Bears
    <3>2. CASE j \in DOMAIN down[c]
      <4>1. j \in Answered(c, p)
        BY <1>0, <2>1, <3>1, <3>2 DEF Answered
      <4> QED BY <2>3, <4>1
    <3>3. CASE j \notin DOMAIN down[c]
      <4>1. j = Len(down[c]) + 1
        BY <1>0, <2>1, <3>1, <3>3
      <4> QED BY <1>0, <4>1
    <3> QED BY <3>2, <3>3
  <2> QED BY <2>2, <2>3
<1>3. CASE Consumed(c) /\ i # 1
  <2>1. /\ \A k \in DOMAIN down'[c] :
              k \in Nat \ {0} /\ k + 1 \in DOMAIN down[c] /\ down'[c][k] = down[c][k + 1]
        /\ i - 1 \in DOMAIN down'[c] /\ down'[c][i - 1] = down[c][i]
    BY <1>0, <1>3, ReadFirst
  <2>2. i - 1 \in Coming(c, t)'
    BY <1>0, <2>1 DEF Coming
  <2>3. ASSUME \A j \in Answered(c, p) : i < j, NEW j \in Answered(c, p)' PROVE i - 1 < j
    <3>1. j \in DOMAIN down'[c] /\ Bears(down'[c][j], p)
      BY <2>3 DEF Answered, Bears
    <3>2. j + 1 \in Answered(c, p) /\ j \in Nat
      BY <2>1, <3>1 DEF Answered
    <3>3. i < j + 1
      BY <2>3, <3>2
    <3> QED BY <1>0, <3>2, <3>3
  <2> QED BY <2>2, <2>3
<1>4. CASE Saw(c) /\ i = 1
  BY <1>0, <1>4 DEF Saw, ClientIs
<1>5. CASE LoggedOn(c) \/ Responded(c)
  <2>1. Answer(c, down[c][i])
    BY <1>0 DEF DownPart, Arriving
  <2>2. i # 1
    <3>1. SUFFICES ASSUME i = 1 PROVE FALSE
      OBVIOUS
    <3>2. down[c][1].ids = <<>>
      BY <1>0, <2>1, <3>1 DEF Answer
    <3>3. Get(down[c][1].ids) = Empty
      BY <3>2 DEF Get
    <3>4. CASE LoggedOn(c)
      <4>1. client[c].seq \in Nat /\ <<c, client[c].seq>> = Empty
        BY <3>3, <3>4 DEF LoggedOn, DialTypeOK, Clients
      <4> QED BY <4>1, TestServerAssumption DEF Ids
    <3>5. CASE Responded(c)
      <4>1. PICK q \in client[c].pending : q.id = Empty
        BY <3>3, <3>5 DEF Responded
      <4>2. q.id \in Ids
        BY <4>1 DEF DialTypeOK, Clients, Actions
      <4> QED BY <4>1, <4>2, TestServerAssumption
    <3> QED BY <1>5, <3>4, <3>5
  <2>3. Consumed(c)
    BY <1>5 DEF LoggedOn, Responded
  <2> QED BY <1>3, <2>2, <2>3
<1>6. ASSUME ServerEffect(c)
      PROVE  down'[c] = down[c] \/ \E m : down'[c] = Append(down[c], m)
  BY <1>6 DEF ServerEffect, Quiet, Started, Took, ReadDone, Skipped, Marked, Remasked, Wrote, Finished,
              Forgotten, Received, Delivered
<1>7. CASE ServerEffect(c)
  BY <1>1, <1>2, <1>6, <1>7
<1>8. CASE Acted(c)
  BY <1>1, <1>8 DEF Acted
<1>9. CASE Saw(c) /\ i # 1
  BY <1>3, <1>9 DEF Saw
<1>10. ~Gone(c) /\ ~Dialled(c) /\ ~Exchanged(c)
  <2>1. Live(c)'
    BY DEF Live
  <2> QED BY <2>1 DEF Gone, Dialled, Exchanged, ClientIs, ClientPart, LoginNumber
<1> QED BY <1>4, <1>5, <1>7, <1>8, <1>9, <1>10 DEF ClientEffect

\* What was seen stays seen.
LEMMA SeenKept ==
    ASSUME NEW c \in Conns, ServerEffect(c) \/ ClientEffect(c), Live(c)'
    PROVE  client[c].seen \subseteq client'[c].seen
BY ServerKeepsClient DEF ClientEffect, Gone, Dialled, Exchanged, LoggedOn, Acted, Responded, Saw, ClientIs

\* A client that logs in has missed nothing.
LEMMA ReachesKept ==
    ASSUME DialTypeOK, DialTypeOK', SessionPart, ClientPart, DownPart, CallPart, OwedPart, DialNext,
           NEW c \in Conns, client'[c].at \in {"login", "ready"}, NEW t \in Callers
    PROVE  Reaches(c, t)'
<1> SUFFICES ASSUME Passed(c, t)'
             PROVE  t \in client'[c].seen \/ Coming(c, t)' # {} \/ hung'[c]
  BY DEF Reaches
<1>0. /\ ServerEffect(c) \/ ClientEffect(c)
      /\ hung[c] => hung'[c]
      /\ Live(c)' /\ down[c] \in Seq(Messages)
  BY StepEffects DEF DialTypeOK, Live
<1>1. Live(c)
  BY <1>0, ServerKeepsClient, ClientMoves DEF Live
<1>2. CASE Received(c, t) /\ call[t].frame.from = t
  <2>1. Delivered(c, call[t].frame) /\ ~left[c]
    BY <1>1, <1>2 DEF Received, ClientPart, Known
  <2>2. CASE hung[c]
    BY <1>0, <2>2
  <2>3. CASE down'[c] = Append(down[c], call[t].frame)
    <3>1. call[t].frame \in Messages
      BY <1>2 DEF Received, CallPart, Called
    <3>2. /\ DOMAIN down'[c] = 1..(Len(down[c]) + 1) /\ down'[c][Len(down[c]) + 1] = call[t].frame
          /\ Len(down[c]) \in Nat
      BY <1>0, <2>3, <3>1, AppendSeq
    <3>3. Len(down[c]) + 1 \in Coming(c, t)'
      BY <1>2, <3>2 DEF Coming
    <3> QED BY <3>3
  <2> QED BY <2>1, <2>2, <2>3 DEF Delivered
<1>3. CASE Passed(c, t)
  <2>1. client[c].at \in {"login", "ready"}
    BY <1>1, <1>3 DEF Passed, CallPart, Called, LoggedIn
  <2>2. t \in client[c].seen \/ Coming(c, t) # {} \/ hung[c]
    BY <1>3, <2>1 DEF OwedPart, Reaches
  <2>3. CASE Coming(c, t) # {}
    <3>1. PICK i \in Coming(c, t) : TRUE
      BY <2>3
    <3>2. PICK p : p = client[c]
      OBVIOUS
    <3>3. t \in client'[c].seen \/ \E k \in Coming(c, t)' : TRUE
      BY <1>0, <2>1, <3>1, ComingKept
    <3> QED BY <3>3
  <2> QED BY <1>0, <2>2, <2>3, SeenKept
<1> QED BY <1>2, <1>3, PassedMoves

\* Each step keeps what a Ping waits behind.
LEMMA PrecedesKept ==
    ASSUME DialTypeOK, DialTypeOK', SessionPart, ClientPart, DownPart, CallPart, OwedPart, DialNext,
           NEW c \in Conns, client[c].at = "ready", client'[c].at = "ready",
           NEW p \in client[c].pending, NEW t \in Callers, Precedes(c, p, t)
    PROVE  Precedes(c, p, t)'
<1>0. /\ ServerEffect(c) \/ ClientEffect(c)
      /\ hung[c] => hung'[c]
      /\ Live(c)'
  BY StepEffects DEF Live
<1>1. CASE t \in client[c].seen
  BY <1>0, <1>1, SeenKept DEF Precedes
<1>2. CASE \E i \in Coming(c, t) : \A j \in Answered(c, p) : i < j
  <2>1. PICK i \in Coming(c, t) : \A j \in Answered(c, p) : i < j
    BY <1>2
  <2>2. \/ t \in client'[c].seen
        \/ \E k \in Coming(c, t)' :
              (\A j \in Answered(c, p) : i < j) => \A j \in Answered(c, p)' : k < j
    BY <1>0, ComingKept
  <2>3. t \in client'[c].seen \/ \E k \in Coming(c, t)' : \A j \in Answered(c, p)' : k < j
    BY <2>1, <2>2
  <2> QED BY <2>3 DEF Precedes
<1>3. CASE hung[c] /\ Answered(c, p) = {}
  <2>1. down'[c] = down[c] \/ Consumed(c)
    BY <1>0, <1>3
       DEF ServerEffect, Quiet, Started, Took, ReadDone, Skipped, Marked, Remasked, Wrote, Finished,
           Forgotten, Received, Delivered, ClientEffect, Gone, Dialled, Exchanged, LoggedOn, Acted,
           Responded, Saw
  <2>2. Answered(c, p)' = {}
    BY <1>3, <2>1, AnsweredShrinks, ShrinksOnce
  <2> QED BY <1>0, <1>3, <2>2 DEF Precedes
<1> QED BY <1>1, <1>2, <1>3 DEF Precedes

LEMMA OwedStep ==
    ASSUME DialTypeOK, DialTypeOK', SessionPart, ClientPart, RequestPart, TodoPart, DownPart, CallPart,
           OwedPart, DialNext
    PROVE  OwedPart'
<1> SUFFICES ASSUME NEW c \in Conns, client'[c].at \in {"login", "ready"},
                    NEW p \in client'[c].pending, p.name = "ping", NEW t \in p.owed
             PROVE  Precedes(c, p, t)'
  BY ReachesKept DEF OwedPart
<1>0. /\ ServerEffect(c) \/ ClientEffect(c)
      /\ Live(c)' /\ t \in Callers
  <2>1. p.owed \subseteq Callers
    BY DEF DialTypeOK, Clients, Actions
  <2> QED BY <2>1, StepEffects DEF Live
<1>1. CASE p \in client[c].pending
  <2>1. Live(c)
    BY <1>0, ServerKeepsClient, ClientMoves DEF Live
  <2>2. client[c].at = "ready"
    BY <1>1, <2>1 DEF ClientPart, Known
  <2>3. client'[c].at = "ready"
    BY <1>0, <2>2, ServerKeepsClient, ClientMoves
  <2>4. Precedes(c, p, t)
    BY <1>1, <2>2 DEF OwedPart
  <2> QED BY <1>0, <1>1, <2>2, <2>3, <2>4, PrecedesKept
<1>2. CASE p \notin client[c].pending
  <2>1. Acted(c)
    BY <1>0, <1>2, ServerKeepsClient
       DEF ClientEffect, Gone, Dialled, Exchanged, LoggedOn, Responded, Saw, ClientIs
  <2>2. PICK q \in Actions, f \in Requests :
          /\ f.id = <<c, client[c].seq + 1>> /\ q.id = f.id /\ q.owed = Owed(c)
          /\ ClientIs(c, "ready", client[c].seq + 1, client[c].pending \cup {q}, client[c].mask,
                      client[c].seen)
    BY <2>1 DEF Acted
  <2>3. p = q /\ client[c].at = "ready" /\ down'[c] = down[c] /\ client'[c].seen = client[c].seen
    BY <1>2, <2>1, <2>2 DEF Acted, ClientIs
  <2>4. Answered(c, p) = {}
    BY <2>2, <2>3, FreshAction
  <2>5. Passed(c, t)
    <3>1. call[t].op \in {"event", "raw"} /\ call[t].at = "returned" /\ c \in call[t].among
      BY <2>2, <2>3 DEF Owed
    <3>2. call[t].live = <<>>
      BY <1>0, <3>1 DEF CallPart, Called
    <3>3. c \notin ToSet(call[t].live)
      BY <3>2 DEF ToSet
    <3> QED BY <3>1, <3>3 DEF Passed
  <2>6. t \in client[c].seen \/ Coming(c, t) # {} \/ hung[c]
    BY <1>0, <2>3, <2>5 DEF OwedPart, Reaches
  <2>7. Answered(c, p)' = {} /\ Coming(c, t)' = Coming(c, t)
    BY <2>3, <2>4 DEF Answered, Coming, Bears
  <2>8. hung[c] => hung'[c]
    BY StepEffects
  <2> QED BY <2>3, <2>6, <2>7, <2>8 DEF Precedes
<1> QED BY <1>1, <1>2
----------------------------------------------------------------------------
(* The invariant, and what it gives                                        *)

\* A step of the accept loop, of a session, of a caller or of a client keeps
\* everything it should.
LEMMA TypeStep ==
    ASSUME DialTypeOK, SessionPart, CallPart, DialNext
    PROVE  DialTypeOK'
<1>1. ASSUME NEW t \in Callers, ServerStep(Begin(t) \/ Continue(t)) PROVE DialTypeOK'
  <2>1. CASE Begin(t)
    BY <1>1, <2>1, BeginTypes DEF ServerStep
  <2>2. CASE Continue(t)
    BY <1>1, <2>2, ContinueTypes DEF ServerStep
  <2> QED BY <1>1, <2>1, <2>2 DEF ServerStep
<1>2. ASSUME NEW c \in Conns, ServerStep(Serve(c)) PROVE DialTypeOK'
  BY <1>2, ServeTypes DEF ServerStep
<1>3. CASE ServerStep(AcceptLoop)
  BY <1>3, AcceptTypes DEF ServerStep
<1>4. ASSUME NEW c \in Conns, Client(c) PROVE DialTypeOK'
  BY <1>4, ClientTypes
<1> QED BY <1>1, <1>2, <1>3, <1>4 DEF DialNext

\* Each step leaves every connection somewhere.
LEMMA SessionStep ==
    ASSUME DialTypeOK, SessionPart, CallPart, DialNext
    PROVE  SessionPart'
<1>1. ASSUME NEW t \in Callers, ServerStep(Begin(t) \/ Continue(t)) PROVE SessionPart'
  BY <1>1, CallerPlaces DEF ServerStep
<1>2. ASSUME NEW c \in Conns, ServerStep(Serve(c)) PROVE SessionPart'
  BY <1>2, ServePlaces DEF ServerStep
<1>3. CASE ServerStep(AcceptLoop)
  BY <1>3, AcceptPlaces DEF ServerStep
<1>4. ASSUME NEW c \in Conns, Client(c) PROVE SessionPart'
  BY <1>4, ClientPlaces
<1> QED BY <1>1, <1>2, <1>3, <1>4 DEF DialNext

\* At first nobody is connected.
LEMMA InitTypes == ASSUME DialInit PROVE DialTypeOK
<1> USE DEF DialInit, ServerInit
<1>1. <<>> \in Seq(Requests) /\ <<>> \in Seq(Messages) /\ <<>> \in Seq(Conns) /\ <<>> \in Seq(Steps)
  OBVIOUS
<1>2. NoSession \in Sessions
  BY <1>1 DEF NoSession, Sessions
<1>3. NoCall \in Calls
  BY <1>1 DEF NoCall, Calls, Nobody
<1>4. NoClient \in Clients
  BY DEF NoClient, Clients
<1>5. /\ sess \in [Conns -> Sessions] /\ call \in [Callers -> Calls] /\ client \in [Conns -> Clients]
      /\ up \in [Conns -> Seq(Requests)] /\ down \in [Conns -> Seq(Messages)]
  BY <1>1, <1>2, <1>3, <1>4
<1>6. /\ script \in Scripts /\ handlers \subseteq HandlerNames
      /\ violations \subseteq Breaches /\ held \subseteq Ids /\ sessions \subseteq Conns
      /\ hung \in [Conns -> BOOLEAN] /\ left \in [Conns -> BOOLEAN]
  BY DEF HandlerNames
<1>7. loop \in [at : {"accept", "register", "start", "stopped"}, conn : Conns \cup {Nobody}]
  OBVIOUS
<1> QED BY <1>5, <1>6, <1>7 DEF DialTypeOK

LEMMA InitParts == ASSUME DialInit PROVE DialInductive
<1>0. DialTypeOK
  BY InitTypes
<1>1. /\ \A c \in Conns : /\ client[c].at = "idle" /\ client[c].seq = 0 /\ client[c].pending = {}
                          /\ sess[c].at = "none" /\ ~sess[c].authed /\ sess[c].todo = <<>>
                          /\ up[c] = <<>> /\ down[c] = <<>> /\ ~hung[c] /\ ~left[c]
      /\ \A t \in Callers : call[t].op = "none" /\ call[t].at = "idle"
      /\ loop.at = "accept" /\ backlog = {} /\ sessions = {} /\ held = {}
  BY DEF DialInit, ServerInit, NoSession, NoCall, NoClient
<1>2. SessionPart
  BY <1>1 DEF SessionPart, LoopPlaced, Placed, Accounted, Accepting
<1>3. ClosePart /\ CallPart
  BY <1>1 DEF ClosePart, CallPart, Called
<1>4. ClientPart
  BY <1>1 DEF ClientPart, Known
<1>5. RequestPart /\ OncePart /\ TodoPart /\ DownPart
  BY <1>1 DEF RequestPart, OncePart, TodoPart, DownPart
<1>6. MaskPart /\ OwedPart
  BY <1>1 DEF MaskPart, OwedPart
<1> QED BY <1>0, <1>2, <1>3, <1>4, <1>5, <1>6 DEF DialInductive

\* A stutter keeps each part.
LEMMA StutterKeeps == ASSUME DialInductive, UNCHANGED dialVars PROVE DialInductive'
<1> USE DEF dialVars, connVars, serverVars
<1>1. DialTypeOK'
  BY DEF DialInductive, DialTypeOK
<1>2. SessionPart'
  BY DEF DialInductive, SessionPart, LoopPlaced, Placed, Accounted, Accepting
<1>3. ClosePart'
  BY DEF DialInductive, ClosePart, GroupDone, Running
<1>4. ClientPart'
  BY DEF DialInductive, ClientPart, Known, Live, LoginNumber, Config
<1>5. RequestPart'
  BY DEF DialInductive, RequestPart, Requested, Issued, Live, LoginNumber, LoginMask, Config
<1>6. OncePart'
  <2>1. ASSUME NEW c \in Conns, NEW p PROVE Once(c, p)' <=> Once(c, p)
    <3>1. /\ Queued(c, p)' = Queued(c, p) /\ Served(c, p)' = Served(c, p)
          /\ Answered(c, p)' = Answered(c, p)
      BY DEF Queued, Served, Answered, Bears
    <3> QED BY <3>1 DEF Once, AtMostOne
  <2> QED BY <2>1 DEF DialInductive, OncePart
<1>7. TodoPart'
  <2>1. ASSUME NEW c \in Conns, NEW i PROVE Due(c, i)' <=> Due(c, i)
    <3>1. ASSUME NEW m PROVE WriteDue(c, i, m)' <=> WriteDue(c, i, m)
      BY DEF WriteDue, Answer, Issued, Masked, Pending, Live, LoginNumber, LoginMask, Config, GrantsLogin
    <3>2. ASSUME NEW on PROVE MarkDue(c, i, on)' <=> MarkDue(c, i, on)
      BY DEF MarkDue, Live, LoginMask, Config
    <3>3. ASSUME NEW on PROVE MaskDue(c, i, on)' <=> MaskDue(c, i, on)
      BY DEF MaskDue, Live, Pending
    <3>4. ASSUME NEW id PROVE HeldId(id)' <=> HeldId(id)
      BY DEF HeldId, Live, LoginNumber, Config
    <3> QED BY <3>1, <3>2, <3>3, <3>4 DEF Due
  <2> QED BY <2>1 DEF DialInductive, TodoPart
<1>8. DownPart'
  BY DEF DialInductive, DownPart, Arriving, Answer, Issued, Masked, Live, LoginNumber, LoginMask, Config,
         GrantsLogin
<1>9. MaskPart'
  BY DEF DialInductive, MaskPart, Faithful, Lost, Nowhere, Granting, LastGrant, NoGrant, Pending, Masked,
         Queued, Served, Answered
<1>10. CallPart'
  <2>1. ASSUME NEW id PROVE HeldId(id)' <=> HeldId(id)
    BY DEF HeldId, Live, LoginNumber, Config
  <2>2. ASSUME NEW t \in Callers PROVE Called(t)' <=> Called(t)
    <3>1. \A c : LoggedIn(c)' <=> LoggedIn(c)
      BY DEF LoggedIn, Live
    <3>2. (Replying(t)' <=> Replying(t)) /\ (Broadcasting(t)' <=> Broadcasting(t))
      BY <2>1 DEF Replying, Broadcasting
    <3> QED BY <3>1, <3>2 DEF Called
  <2> QED BY <2>1, <2>2 DEF DialInductive, CallPart
<1>11. OwedPart'
  BY DEF DialInductive, OwedPart, Reaches, Precedes, Passed, Coming, Answered
<1> QED BY <1>1, <1>2, <1>3, <1>4, <1>5, <1>6, <1>7, <1>8, <1>9, <1>10, <1>11 DEF DialInductive

\* Each step keeps the whole invariant.
LEMMA InductiveStep == ASSUME DialInductive, [DialNext]_dialVars PROVE DialInductive'
<1>1. CASE UNCHANGED dialVars
  BY <1>1, StutterKeeps
<1>2. CASE DialNext
  <2>0. /\ DialTypeOK /\ SessionPart /\ ClosePart /\ ClientPart /\ RequestPart /\ OncePart
        /\ TodoPart /\ DownPart /\ MaskPart /\ CallPart /\ OwedPart
    BY DEF DialInductive
  <2>1. DialTypeOK'
    BY <1>2, <2>0, TypeStep
  <2>2. SessionPart'
    BY <1>2, <2>0, SessionStep
  <2>3. ClosePart'
    BY <1>2, <2>0, CloseKeeps
  <2>4. ClientPart'
    BY <1>2, <2>0, ClientStep
  <2>5. RequestPart'
    BY <1>2, <2>0, <2>1, RequestStep
  <2>6. OncePart'
    BY <1>2, <2>0, <2>1, OnceStep
  <2>7. TodoPart'
    BY <1>2, <2>0, TodoStep
  <2>8. DownPart'
    BY <1>2, <2>0, <2>1, DownStep
  <2>9. MaskPart'
    BY <1>2, <2>0, <2>1, MaskStep
  <2>10. CallPart'
    BY <1>2, <2>0, CallStep
  <2>11. OwedPart'
    BY <1>2, <2>0, <2>1, OwedStep
  <2> QED
    BY <2>1, <2>2, <2>3, <2>4, <2>5, <2>6, <2>7, <2>8, <2>9, <2>10, <2>11 DEF DialInductive
<1> QED BY <1>1, <1>2

\* The strengthening under which the promises of the test server are kept, from
\* the sockets to the masks: every part of it is disturbed by some step.
THEOREM DialInvariant == DialSpec => []DialInductive
<1> QED BY InitParts, InductiveStep, PTL DEF DialSpec

\* Every record of the server, its sessions, its callers and its clients keeps
\* its shape, and a write appends a frame that some method made.
THEOREM DialTypeCorrect == DialSpec => []DialTypeOK
<1>1. DialInductive => DialTypeOK
  BY DEF DialInductive
<1> QED BY <1>1, DialInvariant, PTL

\* Close waits for everything (amitest.go:303): once one has returned, nothing
\* runs, no accepted connection is open, and its errors are all there are.
THEOREM CloseWaits == DialSpec => []CloseIsFinal
<1>1. ASSUME DialInductive PROVE CloseIsFinal
  <2> SUFFICES ASSUME NEW t \in Callers, call[t].op = "close", call[t].at = "returned"
               PROVE  /\ sessions = {} /\ GroupDone /\ call[t].err = violations
                      /\ \A c \in Conns :
                            hung[c] \/ c \in backlog \/ client[c].at \in {"idle", "failed"}
    BY DEF CloseIsFinal
  <2>1. GroupDone /\ call[t].err = violations
    BY <1>1 DEF DialInductive, ClosePart
  <2>2. loop.at = "stopped" /\ \A c \in Conns : sess[c].at \notin {"serving", "ending"}
    BY <2>1 DEF GroupDone, Running
  <2>3. \A c \in Conns : Placed(c)
    BY <1>1 DEF DialInductive, SessionPart
  <2>4. sessions = {}
    BY <1>1, <2>2, <2>3 DEF Placed, DialInductive, DialTypeOK
  <2>5. \A c \in Conns : hung[c] \/ c \in backlog \/ client[c].at \in {"idle", "failed"}
    BY <2>2, <2>3 DEF Placed, Accounted, Accepting
  <2> QED BY <2>1, <2>4, <2>5
<1> QED BY <1>1, DialInvariant, PTL

\* A client that Dial has returned is in the audience of the next broadcast, by
\* the mask it was last granted (session.go:108), as long as it is registered.
THEOREM BroadcastsSeeClients == DialSpec => []SeenByBroadcasts
<1>1. ASSUME DialInductive PROVE SeenByBroadcasts
  <2> SUFFICES ASSUME NEW c \in sessions, client[c].at = "ready"
               PROVE  /\ sess[c].authed
                      /\ MaskPending(c) \/ sess[c].events = EventMaskEnabled(client[c].mask)
    BY DEF SeenByBroadcasts
  <2>0. c \in Conns
    BY <1>1 DEF DialInductive, DialTypeOK
  <2>1. Placed(c) /\ Known(c)
    BY <1>1, <2>0 DEF DialInductive, SessionPart, ClientPart, Live
  <2>2. sess[c].at \in {"serving", "ending"}
    BY <2>1 DEF Placed, Known, Accepting
  <2>3. sess[c].authed
    BY <2>1, <2>2 DEF Known
  <2>4. Faithful(c)
    BY <1>1, <2>0, <2>3 DEF DialInductive, MaskPart
  <2>5. ASSUME ~MaskPending(c) PROVE sess[c].events = EventMaskEnabled(client[c].mask)
    <3>1. Pending(c) = {}
      BY <2>5 DEF MaskPending, Pending
    <3>2. NoGrant(c)
      BY <2>4, <3>1 DEF Faithful, Lost, Granting, LastGrant
    <3> QED BY <3>2 DEF NoGrant, Masked
  <2> QED BY <2>3, <2>5
<1> QED BY <1>1, DialInvariant, PTL

\* The answer to a Ping comes after every broadcast that had returned when the
\* Ping was sent (amitest.go:56).
THEOREM PingBarrier == DialSpec => PingIsBarrier
<1> DEFINE Barrier ==
      \A c \in Conns : \A p \in client[c].pending \ client'[c].pending :
          p.name = "ping" /\ client'[c].at = "ready" => p.owed \subseteq client[c].seen
<1>1. ASSUME DialInductive, [DialNext]_dialVars PROVE Barrier \/ UNCHANGED dialVars
  <2> SUFFICES ASSUME DialNext, NEW c \in Conns, NEW p \in client[c].pending, p \notin client'[c].pending,
                      p.name = "ping", client'[c].at = "ready", NEW t \in p.owed
               PROVE  t \in client[c].seen
    BY <1>1
  <2>0. DialTypeOK /\ SessionPart /\ ClientPart /\ DownPart /\ OwedPart
    BY <1>1 DEF DialInductive
  <2>1. ServerEffect(c) \/ ClientEffect(c)
    BY <2>0, StepEffects
  <2>2. ClientEffect(c)
    BY <2>1, ServerKeepsClient
  <2>3. client[c].at = "ready"
    <3>1. Live(c)
      BY <2>0, <2>2, ClientMoves DEF Live
    <3> QED BY <2>0, <3>1 DEF ClientPart, Known
  <2>4. Responded(c)
    BY <2>2, <2>3 DEF ClientEffect, Gone, Live, Dialled, Exchanged, LoggedOn, Acted, Saw, ClientIs
  <2>5. down[c] # <<>> /\ p.id = Get(down[c][1].ids)
    BY <2>4 DEF Responded, ClientIs, Consumed
  <2>6. 1 \in Answered(c, p)
    BY <2>0, <2>5, ResponseId
  <2>7. t \in Callers
    BY <2>0 DEF DialTypeOK, Clients, Actions
  <2>8. Precedes(c, p, t)
    BY <2>0, <2>3, <2>7 DEF OwedPart
  <2>9. \A i \in Coming(c, t) : i \in Nat \ {0}
    <3>1. down[c] \in Seq(Messages)
      BY <2>0 DEF DialTypeOK
    <3> QED BY <3>1 DEF Coming
  <2> QED BY <2>6, <2>8, <2>9 DEF Precedes
<1> QED BY <1>1, DialInvariant, PTL DEF DialSpec, PingIsBarrier
=============================================================================
