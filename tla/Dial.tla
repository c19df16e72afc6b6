-------------------------------- MODULE Dial --------------------------------
(***************************************************************************)
(* Clients of the test server (module TestServer): Dial and the login of   *)
(* client.go, then a session that sends actions and reads messages in the  *)
(* order of the wire.  What a session does with them is module Session's   *)
(* subject; here it takes a response for an action that waits, fans an     *)
(* event out, and dies of anything else.  A raw client is a test's own     *)
(* connection, which sends whatever it likes.                              *)
(*                                                                         *)
(* A read sees what has arrived before the end of the stream, unless the   *)
(* connection has been reset.                                              *)
(***************************************************************************)
EXTENDS TestServer

VARIABLES
    client      \* per connection; pending are the actions that wait

dialVars == <<connVars, serverVars, client>>

NoClient == [at |-> "idle", seq |-> 0, sent |-> 0, pending |-> {}, mask |-> Empty, seen |-> {},
             why |-> "none"]

\* The configuration Dial is given; a raw client is not dialled, and auth "none" is
\* no client.
Config(c) == script.login[c]

DialInit ==
    /\ ServerInit
    /\ client = [c \in Conns |-> NoClient]

----------------------------------------------------------------------------
(* The client's end of the connection                                      *)

Arrived(c) == down[c] # <<>>
Message(c) == Head(down[c])
Consume(c) == down' = [down EXCEPT ![c] = Tail(@)]

\* The client ends, and closes its connection: framer.close.
End(c, at, why) ==
    /\ client' = [client EXCEPT ![c] = [NoClient EXCEPT !.at = at, !.why = why]]
    /\ left' = [left EXCEPT ![c] = TRUE]
    /\ reset' = [reset EXCEPT ![c] = @ \/ down[c] # <<>>]
    /\ down' = [down EXCEPT ![c] = <<>>]
    /\ UNCHANGED <<serverVars, backlog, up, hung>>

\* writeAction: what is sent on a connection the server has closed resets it.
Send(c, f) ==
    IF hung[c] THEN /\ reset' = [reset EXCEPT ![c] = TRUE] /\ UNCHANGED up
    ELSE /\ up' = [up EXCEPT ![c] = Append(@, f)] /\ UNCHANGED reset

\* newActionID.
NewId(c) == <<c, client[c].seq + 1>>
Frame(c, f) == [f EXCEPT !.id = NewId(c)]

----------------------------------------------------------------------------
(* Dial                                                                    *)

Connect(c) ==
    /\ client[c].at = "idle" /\ Config(c).auth # "none"
    /\ IF listening
       THEN /\ client' = [client EXCEPT ![c].at = IF Config(c).auth = "raw" THEN "raw" ELSE "banner"]
            /\ backlog' = backlog \cup {c}
       ELSE /\ client' = [client EXCEPT ![c].at = "failed", ![c].why = "dial"]
            /\ UNCHANGED backlog
    /\ UNCHANGED <<serverVars, up, down, hung, left, reset>>

\* Dial asks for no events unless the configuration says which.
LoginMask(c) == IF Config(c).mask = "empty" THEN "off" ELSE Config(c).mask

ChallengeMD5 ==
    [name |-> "challenge", id |-> Empty, auth |-> "md5", key |-> "none", mask |-> "empty",
     repeats |-> FALSE]

Login(c) ==
    [name |-> "login", id |-> Empty, auth |-> Config(c).auth,
     key |-> Config(c).key, mask |-> LoginMask(c), repeats |-> FALSE]

\* loginExchange writes.
Exchange(c, at, f) ==
    /\ Send(c, Frame(c, f))
    /\ client' = [client EXCEPT ![c].at = at, ![c].seq = @ + 1]

ReadBanner(c) ==
    /\ client[c].at = "banner" /\ Arrived(c)
    /\ IF Config(c).auth = "md5" THEN Exchange(c, "challenge", ChallengeMD5)
                                       ELSE Exchange(c, "login", Login(c))
    /\ Consume(c)
    /\ UNCHANGED <<serverVars, backlog, hung, left>>

\* The response of a login exchange: a response class message under its own id.
Answers(c) == Class(Message(c)) = "response" /\ Get(Message(c).ids) = <<c, client[c].seq>>
LoginSuccess(c) == Get(Message(c).responses) = "success"

\* loginExchange reads its answer.
ReadLogin(c) ==
    /\ client[c].at \in {"challenge", "login"} /\ Arrived(c) /\ Answers(c) /\ LoginSuccess(c)
    /\ Consume(c)
    /\ IF client[c].at = "challenge" THEN Exchange(c, "login", Login(c))
       ELSE /\ client' = [client EXCEPT ![c].at = "ready", ![c].mask = LoginMask(c)]
            /\ UNCHANGED <<up, reset>>
    /\ UNCHANGED <<serverVars, backlog, hung, left>>

\* It reads another one.
LoginFails(c) ==
    /\ client[c].at \in {"challenge", "login"} /\ Arrived(c)
    /\ ~Answers(c) \/ ~LoginSuccess(c)
    /\ End(c, "failed", IF Answers(c) THEN "rejected" ELSE "correlation")

Dialing(c) == client[c].at \in {"banner", "challenge", "login"}

\* The context of Dial ends.
ContextEnds(c) == c \in script.fails /\ Dialing(c) /\ End(c, "failed", "context")

----------------------------------------------------------------------------
(* The session                                                             *)

\* The broadcasts and replies to this client that have returned, of those that
\* it was among; a Ping sent now proves that they have arrived.
Owed(c) == {t \in Callers : call[t].op \in {"event", "raw"} /\ call[t].at = "returned" /\ c \in call[t].among}

\* What the script has the client send next.
Scripted(c) == client[c].sent < Len(script.sends[c])
Sending(c) == script.sends[c][client[c].sent + 1]

Act(c) ==
    /\ client[c].at = "ready" /\ Scripted(c)
    /\ Send(c, Frame(c, Sending(c)))
    /\ client' = [client EXCEPT ![c].seq = @ + 1, ![c].sent = @ + 1, ![c].pending = @ \cup
          {[id |-> NewId(c), name |-> Sending(c).name, mask |-> Sending(c).mask, owed |-> Owed(c)]}]
    /\ UNCHANGED <<serverVars, backlog, down, hung, left>>

\* A response under the id of a pending action is its answer; an event fans out.
Waiting(c) == {p \in client[c].pending : p.id = Get(Message(c).ids)}
Fatal(c) == \/ Class(Message(c)) = "invalid"
            \/ /\ Class(Message(c)) = "response"
              /\ (~Own(c, Get(Message(c).ids)) \/ Waiting(c) = {})

ReadResponse(c) ==
    /\ client[c].at = "ready" /\ Arrived(c) /\ ~Fatal(c) /\ Class(Message(c)) = "response"
    /\ \E p \in Waiting(c) :
          client' = [client EXCEPT ![c].pending = @ \ {p},
              ![c].mask = IF p.name = "events" /\ Get(Message(c).responses) = "success"
                          THEN p.mask ELSE @]
    /\ Consume(c)
    /\ UNCHANGED <<serverVars, backlog, up, hung, left, reset>>

ReadEvent(c) ==
    /\ client[c].at = "ready" /\ Arrived(c) /\ Class(Message(c)) = "event"
    /\ client' = [client EXCEPT ![c].seen = @ \cup ({Message(c).from} \ {Nobody})]
    /\ Consume(c)
    /\ UNCHANGED <<serverVars, backlog, up, hung, left, reset>>

ReadFatal(c) ==
    /\ client[c].at = "ready" /\ Arrived(c) /\ Fatal(c)
    /\ End(c, "over", "protocol")

\* A read fails: the server has closed the connection.
ReadFails(c) ==
    /\ Dialing(c) \/ client[c].at \in {"ready", "raw"}
    /\ hung[c] /\ (down[c] = <<>> \/ reset[c])
    /\ End(c, IF Dialing(c) THEN "failed" ELSE "over", "transport")

\* The client is closed.
GiveUp(c) ==
    c \in script.fails /\ client[c].at \in {"ready", "raw"} /\ End(c, "over", "closed")

\* A raw client sends, and discards what it reads.
RawSend(c) ==
    /\ client[c].at = "raw" /\ Scripted(c)
    /\ Send(c, Frame(c, Sending(c)))
    /\ client' = [client EXCEPT ![c].seq = @ + 1, ![c].sent = @ + 1]
    /\ UNCHANGED <<serverVars, backlog, down, hung, left>>

RawRead(c) ==
    /\ client[c].at = "raw" /\ Arrived(c) /\ Consume(c)
    /\ UNCHANGED <<serverVars, backlog, up, hung, left, reset, client>>

----------------------------------------------------------------------------
Read(c) == \/ ReadBanner(c) \/ ReadLogin(c) \/ LoginFails(c) \/ ReadResponse(c)
           \/ ReadEvent(c) \/ ReadFatal(c) \/ ReadFails(c) \/ RawRead(c)

Client(c) == Read(c) \/ Connect(c) \/ ContextEnds(c) \/ Act(c) \/ GiveUp(c) \/ RawSend(c)

ServerStep(A) == A /\ UNCHANGED client

DialNext ==
    \/ \E c \in Conns : Client(c)
    \/ ServerStep(AcceptLoop)
    \/ \E c \in Conns : ServerStep(Serve(c))
    \/ \E t \in Callers : ServerStep(Begin(t) \/ Continue(t))

DialSpec == DialInit /\ [][DialNext]_dialVars
=============================================================================
