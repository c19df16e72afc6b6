----------------------------- MODULE DialSafety -----------------------------
(***************************************************************************)
(* What the test server promises the tests written with it.                *)
(***************************************************************************)
EXTENDS Dial

\* The action of client c that changes its mask has not been answered.
MaskPending(c) == \E p \in client[c].pending : p.name = "events"

\* "Once the client holds the success response, broadcasts must already see this
\* session" (session.go:108), with the mask the client has last been granted: a
\* client that Dial has returned is in the audience of the next Event if and only
\* if that mask is on, and in that of the next Raw, for as long as its session is
\* registered.
SeenByBroadcasts ==
    \A c \in sessions :
        client[c].at = "ready" =>
            /\ sess[c].authed
            /\ MaskPending(c) \/ sess[c].events = EventMaskEnabled(client[c].mask)

\* Close has waited (amitest.go:303): once any of its calls has returned, nothing
\* runs, every connection that was accepted has been closed, and what it has returned
\* is what Err will ever say.  (A second Close may return before the first has closed
\* the listener, when the accept loop has stopped of itself.)
CloseIsFinal ==
    \A t \in Callers :
        call[t].op = "close" /\ call[t].at = "returned" =>
            /\ sessions = {} /\ GroupDone /\ call[t].err = violations
            /\ \A c \in Conns : hung[c] \/ c \in backlog \/ client[c].at \in {"idle", "failed"}

\* "A Ping round-trip after scripted traffic proves the client routed everything
\* sent earlier on that session" (amitest.go:56): the answer to a Ping comes after
\* every broadcast that had returned when the Ping was sent.
PingIsBarrier ==
    [][\A c \in Conns : \A p \in client[c].pending \ client'[c].pending :
          p.name = "ping" /\ client'[c].at = "ready" => p.owed \subseteq client[c].seen]_dialVars

\* "Background traffic can never interleave with a login exchange" (amitest.go:251):
\* no Dial fails because of a message that is not its response.  It is violated: the
\* session is marked before its response is written, and an Event in between comes
\* first.
LoginUndisturbed == \A c \in Conns : client[c].why # "correlation"

----------------------------------------------------------------------------
(* The inductive invariant of module DialProofs                            *)

Requests == {f \in Frames : f.id \in Ids}
Messages == [events : Seq(Values), lists : Seq(Values), responses : Seq(Values),
             ids : Seq(Ids), from : Callers \cup {Nobody}]
Steps == [do : {"write"}, frame : Messages] \cup [do : {"mark", "mask"}, on : BOOLEAN]
         \cup [do : {"violate", "hold"}, id : Ids] \cup [do : {"end", "hangup"}]
HandlerNames == {"ping", "logoff", "events", "status", "custom", "hold"}
Breaches == Ids \cup {AcceptFailed}
Sessions == [at : {"none", "serving", "ending", "over"}, issued : BOOLEAN,
             authed : BOOLEAN, events : BOOLEAN, todo : Seq(Steps)]
Calls == [op : {"none", "event", "raw", "hangup", "close", "reply", "handle"},
          at : {"idle", "writing", "closing", "hanging", "waiting", "returned"},
          live : Seq(Conns), frame : Messages \cup {Empty}, among : SUBSET Conns,
          err : SUBSET Breaches]
Actions == [id : Ids, name : Names, mask : Masks, owed : SUBSET Callers]
Clients == [at : {"idle", "raw", "banner", "challenge", "login", "ready", "failed", "over"},
            seq : Nat, sent : Nat, pending : SUBSET Actions, mask : Masks \cup {Empty},
            seen : SUBSET Callers,
            why : {"none", "dial", "rejected", "correlation", "context", "protocol",
                   "transport", "closed"}]

DialTypeOK ==
    /\ script \in Scripts /\ handlers \subseteq HandlerNames
    /\ violations \subseteq Breaches /\ held \subseteq Ids /\ sessions \subseteq Conns
    /\ sess \in [Conns -> Sessions] /\ call \in [Callers -> Calls]
    /\ up \in [Conns -> Seq(Requests)] /\ down \in [Conns -> Seq(Messages)]
    /\ hung \in [Conns -> BOOLEAN] /\ left \in [Conns -> BOOLEAN]
    /\ client \in [Conns -> Clients]
    /\ loop \in [at : {"accept", "register", "start", "stopped"}, conn : Conns \cup {Nobody}]

\* Where a connection is, from the client's dial to its end.
Accepting(c) == loop.at \in {"register", "start"} /\ loop.conn = c
Accounted(c) ==
    \/ client[c].at \in {"idle", "failed"} \/ c \in backlog \/ Accepting(c)
    \/ sess[c].at = "serving" \/ hung[c]

Placed(c) ==
    /\ Accounted(c)
    /\ c \in backlog \/ Accepting(c) => sess[c].at = "none" /\ client[c].at # "idle"
    /\ c \in backlog => ~Accepting(c)
    /\ c \in sessions => sess[c].at \in {"serving", "ending"} \/ (loop.at = "start" /\ loop.conn = c)
    /\ client[c].at = "idle" => sess[c].at = "none"
    /\ sess[c].at \in {"none", "over"} => ~sess[c].authed
    /\ sess[c].at # "serving" => sess[c].todo = <<>>
    /\ sess[c].at \in {"ending", "over"} => hung[c]
    /\ sess[c].at = "none" => down[c] = <<>>

LoopPlaced == loop.at \in {"register", "start"} => loop.conn \in Conns
SessionPart == LoopPlaced /\ \A c \in Conns : Placed(c)

ClosePart ==
    \A t \in Callers :
        call[t].op = "close" /\ call[t].at = "returned" => GroupDone /\ call[t].err = violations

\* A client of the library that has not ended, and the number of its login.
Live(c) == client[c].at \in {"idle", "banner", "challenge", "login", "ready"}
LoginNumber(c) == IF Config(c).auth = "md5" THEN 2 ELSE 1

Known(c) ==
    /\ ~left[c]
    /\ client[c].at \in {"idle", "banner"} => client[c].seq = 0
    /\ client[c].at = "challenge" => client[c].seq = 1 /\ LoginNumber(c) = 2
    /\ client[c].at = "login" => client[c].seq = LoginNumber(c)
    /\ client[c].at = "ready" => client[c].seq >= LoginNumber(c)
    /\ client[c].at # "ready" => client[c].pending = {}
    /\ client[c].at \in {"challenge", "login", "ready"} => sess[c].at # "none"
    /\ sess[c].authed => client[c].at \in {"login", "ready"}
    /\ client[c].at = "ready" /\ sess[c].at \in {"serving", "ending"} => sess[c].authed
    /\ \A p \in client[c].pending :
          /\ p.id[1] = c /\ p.id[2] \in (LoginNumber(c) + 1)..client[c].seq
          /\ \A q \in client[c].pending : q.id = p.id => q = p

ClientPart == \A c \in Conns : Live(c) => Known(c)

\* The ids on a connection are those of the frames its client has sent.
Issued(c, id) == id[1] = c /\ (Live(c) => id[2] \in 1..client[c].seq)

Requested(c, f) ==
    /\ Issued(c, f.id)
    /\ Live(c) =>
          /\ f.id[2] < LoginNumber(c) => f.name = "challenge"
          /\ f.id[2] = LoginNumber(c) => f.name = "login" /\ f.mask = LoginMask(c)
          /\ \A p \in client[c].pending : p.id = f.id => p.name = f.name /\ p.mask = f.mask
          /\ f.id[2] > LoginNumber(c) /\ f.name = "events" =>
                \E p \in client[c].pending : p.id = f.id

RequestPart == \A c \in Conns : \A i \in DOMAIN up[c] : Requested(c, up[c][i])

\* An action of the client of c that changes its mask, or is a Ping, is in one
\* place at a time: it waits, or is being served, or its answer is under way.
Bears(m, p) == m.ids = <<p.id>>
Queued(c, p) == {i \in DOMAIN up[c] : up[c][i].id = p.id}
Served(c, p) == {i \in DOMAIN sess[c].todo : sess[c].todo[i].do = "write" /\ Bears(sess[c].todo[i].frame, p)}
Answered(c, p) == {i \in DOMAIN down[c] : Bears(down[c][i], p)}

AtMostOne(S) == \A i, j \in S : i = j

Once(c, p) ==
    /\ AtMostOne(Queued(c, p)) /\ AtMostOne(Served(c, p)) /\ AtMostOne(Answered(c, p))
    /\ Queued(c, p) # {} => Served(c, p) = {} /\ Answered(c, p) = {}
    /\ Served(c, p) # {} => Answered(c, p) = {}

OncePart ==
    \A c \in Conns : client[c].at = "ready" =>
        \A p \in client[c].pending : p.name \in {"events", "ping"} => Once(c, p)

\* An answer that changes what the client knows of its mask.
Success(m) == Class(m) = "response" /\ Get(m.responses) = "success"
Grants(m, p) == p.name = "events" /\ Bears(m, p) /\ Success(m)
GrantsLogin(c, m) == m.ids = << <<c, LoginNumber(c)>> >> /\ Success(m)

\* A captured call is one that changes no mask.
HeldId(id) ==
    LET c == id[1] IN
    /\ sess[c].at # "none"
    /\ Live(c) => /\ id[2] \in (LoginNumber(c) + 1)..client[c].seq
                  /\ \A p \in client[c].pending : p.id = id => p.name = "hold"

\* What the session is about to do, for each kind of step.
Pending(c) == {p \in client[c].pending : p.name = "events"}

Answer(c, m) == m.ids # <<>> => m.ids = <<m.ids[1]>> /\ Issued(c, m.ids[1]) /\ m.from = Nobody

\* A success is written once the session is what the client will take it to be.
Masked(c, mask) == sess[c].events = EventMaskEnabled(mask)

WriteDue(c, i, m) ==
    /\ m.from = Nobody /\ Answer(c, m)
    /\ client[c].at = "login" /\ GrantsLogin(c, m) =>
          \/ sess[c].authed /\ Masked(c, LoginMask(c))
          \/ i = 2 /\ sess[c].todo[1].do = "mark"
    /\ client[c].at = "ready" => \A p \in Pending(c) : Grants(m, p) =>
          \/ i = 1 /\ Len(sess[c].todo) = 1 /\ Masked(c, p.mask)
          \/ /\ i = 2 /\ Len(sess[c].todo) = 2
             /\ sess[c].todo[1].do = "mask" /\ sess[c].todo[1].on = EventMaskEnabled(p.mask)

MarkDue(c, i, on) ==
    /\ i = 1 /\ ~sess[c].authed
    /\ Live(c) => client[c].at = "login" /\ on = EventMaskEnabled(LoginMask(c))

MaskDue(c, i, on) ==
    Live(c) => /\ i = 1 /\ Len(sess[c].todo) = 2 /\ sess[c].todo[2].do = "write"
               /\ \E p \in Pending(c) :
                     Grants(sess[c].todo[2].frame, p) /\ on = EventMaskEnabled(p.mask)

Due(c, i) ==
    LET step == sess[c].todo[i] IN
    /\ step.do = "write" => WriteDue(c, i, step.frame)
    /\ step.do = "mark" => MarkDue(c, i, step.on)
    /\ step.do = "mask" => MaskDue(c, i, step.on)
    /\ step.do = "hold" => step.id[1] = c /\ HeldId(step.id)

TodoPart == \A c \in Conns : \A i \in DOMAIN sess[c].todo : Due(c, i)

Arriving(c, m) ==
    /\ Answer(c, m)
    /\ client[c].at = "login" /\ GrantsLogin(c, m) /\ sess[c].at # "over" =>
          sess[c].authed /\ Masked(c, LoginMask(c))

DownPart == \A c \in Conns : \A i \in DOMAIN down[c] : Arriving(c, down[c][i])

\* The mask of the session is the one that the client will know of when it has
\* read all there is, unless it waits for an answer that was lost.
Nowhere(c, p) == Queued(c, p) = {} /\ Served(c, p) = {} /\ Answered(c, p) = {}
Lost(c) == hung[c] /\ \E p \in Pending(c) : Nowhere(c, p)
Granting(c) == \E i \in DOMAIN sess[c].todo :
    sess[c].todo[i].do = "write" /\ \E p \in Pending(c) : Grants(sess[c].todo[i].frame, p)
LastGrant(c) == \E i \in DOMAIN down[c], p \in Pending(c) :
    /\ Grants(down[c][i], p) /\ Masked(c, p.mask)
    /\ \A j \in DOMAIN down[c] : j > i => ~\E q \in Pending(c) : Grants(down[c][j], q)
NoGrant(c) ==
    /\ \A i \in DOMAIN down[c] : ~\E p \in Pending(c) : Grants(down[c][i], p)
    /\ Masked(c, client[c].mask)

Faithful(c) == Lost(c) \/ Granting(c) \/ LastGrant(c) \/ NoGrant(c)

MaskPart == \A c \in Conns : client[c].at = "ready" /\ sess[c].authed => Faithful(c)

\* A broadcast that has gone past a client is behind it, on its way to it, or
\* was dropped.
Passed(c, t) == call[t].op \in {"event", "raw"} /\ c \in call[t].among /\ c \notin ToSet(call[t].live)
Coming(c, t) == {i \in DOMAIN down[c] : down[c][i].from = t}

\* A client that has logged in, or is none of the library's any more.
LoggedIn(c) == Live(c) => client[c].at \in {"login", "ready"}

\* A late reply goes to the session of its call; a broadcast bears no id.
Replying(t) ==
    /\ call[t].op = "reply" /\ call[t].frame.from = Nobody
    /\ call[t].frame.ids = <<call[t].frame.ids[1]>> /\ HeldId(call[t].frame.ids[1])
    /\ ToSet(call[t].live) \subseteq {call[t].frame.ids[1][1]}
Broadcasting(t) ==
    call[t].op \in {"event", "raw"} /\ call[t].frame.ids = <<>> /\ call[t].frame.from = t

Called(t) ==
    /\ call[t].at = "idle" => call[t].op = "none"
    /\ call[t].at = "writing" =>
          /\ call[t].frame \in Messages
          /\ Replying(t) \/ Broadcasting(t)
          /\ \A c \in ToSet(call[t].live) : sess[c].at # "none"
    /\ call[t].op \in {"event", "raw"} =>
          /\ call[t].at \in {"writing", "returned"}
          /\ call[t].at = "returned" => call[t].live = <<>>
          /\ \A c \in call[t].among : LoggedIn(c)

CallPart == (\A id \in held : HeldId(id)) /\ \A t \in Callers : Called(t)

\* What a client has not missed, and what the answer to its Ping comes after.
Reaches(c, t) == Passed(c, t) => t \in client[c].seen \/ Coming(c, t) # {} \/ hung[c]
Precedes(c, p, t) ==
    \/ t \in client[c].seen
    \/ \E i \in Coming(c, t) : \A j \in Answered(c, p) : i < j
    \/ hung[c] /\ Answered(c, p) = {}

OwedPart ==
    \A c \in Conns : client[c].at \in {"login", "ready"} =>
        /\ \A t \in Callers : Reaches(c, t)
        /\ \A p \in client[c].pending : p.name = "ping" => \A t \in p.owed : Precedes(c, p, t)

DialInductive ==
    /\ DialTypeOK /\ SessionPart /\ ClosePart /\ ClientPart /\ RequestPart /\ OncePart
    /\ TodoPart /\ DownPart /\ MaskPart /\ CallPart /\ OwedPart

----------------------------------------------------------------------------
\* The goroutines of the server and of the test go on, and so do the clients in
\* Readers; the others may stop reading.
CONSTANTS Readers, MaxIds   \* bound: the ids of a client

FairDialSpec ==
    /\ DialSpec
    /\ WF_dialVars(ServerStep(AcceptLoop))
    /\ \A c \in Conns : WF_dialVars(ServerStep(Serve(c)))
    /\ \A t \in Callers : WF_dialVars(ServerStep(Continue(t)))
    /\ \A c \in Readers : WF_dialVars(Read(c))

\* Close returns, whatever the clients do.
CloseReturns(t) == call[t].op = "close" ~> call[t].at = "returned"

\* Action n of client c waits for its answer; a handler may have kept it.
Waits(c, n) == \E p \in client[c].pending : p.id = <<c, n>> /\ p.name # "hold"

\* Nobody waits for ever: Close returns, and every action, expected or not, is
\* answered or its client ends.  A client that does not read delays its own
\* session only.
NobodyWaits ==
    /\ \A t \in Callers : CloseReturns(t)
    /\ \A c \in Readers : \A n \in 1..MaxIds : Waits(c, n) ~> ~Waits(c, n)
=============================================================================
