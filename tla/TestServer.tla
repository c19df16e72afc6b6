----------------------------- MODULE TestServer -----------------------------
(***************************************************************************)
(* The scriptable server of package amitest: the accept loop, a goroutine  *)
(* for each session, and the goroutines of the test that calls it, over    *)
(* TCP connections that may be reset.                                      *)
(*                                                                         *)
(* The test is the environment, and its script says what it does: Conns    *)
(* are the connections it opens, Callers the goroutines that call the      *)
(* server, each once.                                                      *)
(* A critical section under Server.mu is one step, and so is the writing   *)
(* of a frame.                                                             *)
(***************************************************************************)
EXTENDS Classify, SequencesExt

CONSTANTS
    Conns, Callers,
    Window,     \* bound: frames on their way to a client; a Write waits for room
    RawFrames,  \* what Server.Raw may write
    Scripts     \* bound: the tests; per connection its login and the frames sent
                \* after it, per caller the method it calls, and what may fail: the
                \* listener, and the connections whose clients may give up

\* A frame of a client.  Masks and keys are told apart by what they say, and so are
\* the values of a message: "other" is one that nobody asks about.
Ids == Conns \X Nat
Names == {"challenge", "login", "ping", "logoff", "events", "status", "custom", "hold",
          "malformed", "nameless"}
Masks == {"empty", "off", "on", "class", "nonZero"}
Logins == [auth : {"plain", "md5", "raw", "none"}, key : {"right", "wrong", "none"}, mask : Masks]
Frames == [name : Names, id : Ids \cup {Empty}, auth : {"plain", "md5", "raw", "none"},
           key : {"right", "wrong", "none"}, mask : Masks, repeats : BOOLEAN]
Values == {Empty, "banner", "event", "success", "error", "goodbye", "start", "complete", "other"}

\* A test does not know the ActionIDs of its clients, whose prefix is random.
ASSUME TestServerAssumption ==
    /\ Window \in Nat \ {0}
    /\ IsFiniteSet(Conns) /\ Empty \notin Callers /\ Empty \notin Ids
    /\ RawFrames \subseteq [events : Seq(Values), lists : Seq(Values), responses : Seq(Values),
                            ids : {<<>>}, from : {Empty}]
    /\ \A s \in Scripts :
          /\ s.login \in [Conns -> Logins] /\ s.sends \in [Conns -> Seq(Frames)]
          /\ \A t \in Callers :
                s.calls[t] \in {"none", "event", "raw", "hangup", "close", "reply", "handle"}

VARIABLES
    script,
    \* Server
    closed, listening,
    handlers,   \* the names that have a handler
    sessions,   \* the registered sessions
    violations, \* the ids of the frames that broke the rules, and AcceptFailed
    loop,       \* acceptLoop: at "accept", "register", "start" or "stopped"
    \* session
    sess,       \* per connection; todo is what its goroutine is about to do
    held,       \* calls that handlers have captured, to be answered later
    call,       \* per caller: its call, the sessions it was to go over (among), those it
                \* has left (live), and what Close returned
    \* the connections
    backlog,    \* established, not accepted
    up, down,   \* what is on its way to the server and to the client
    hung, left, \* closed by the server, by the client
    reset       \* data has met a closed end: reads may fail before what is on its way

connVars == <<backlog, up, down, hung, left, reset>>
serverVars == <<script, closed, listening, handlers, sessions, violations, loop, sess,
                held, call>>

Nobody == Empty
AcceptFailed == <<Nobody, 0>>
NoSession == [at |-> "none", issued |-> FALSE, authed |-> FALSE, events |-> FALSE,
              todo |-> <<>>]
NoCall == [op |-> "none", at |-> "idle", live |-> <<>>, frame |-> Empty, among |-> {},
           err |-> {}]

ServerInit ==
    /\ script \in Scripts
    /\ closed = FALSE /\ listening = TRUE
    /\ handlers = {"ping", "logoff", "events", "status", "hold"}
    /\ sessions = {} /\ violations = {}
    /\ loop = [at |-> "accept", conn |-> Nobody]
    /\ sess = [c \in Conns |-> NoSession]
    /\ held = {}
    /\ call = [t \in Callers |-> NoCall]
    /\ backlog = {}
    /\ up = [c \in Conns |-> <<>>] /\ down = [c \in Conns |-> <<>>]
    /\ hung = [c \in Conns |-> FALSE] /\ left = [c \in Conns |-> FALSE]
    /\ reset = [c \in Conns |-> FALSE]

----------------------------------------------------------------------------
(* Frames                                                                  *)

Banner == [events |-> <<>>, lists |-> <<>>, responses |-> <<"banner">>, ids |-> <<>>,
           from |-> Nobody]

\* Call.Respond echoes the id there is.
Response(disposition, id) ==
    [events |-> <<>>, lists |-> <<>>, responses |-> <<disposition>>,
     ids |-> IF id = Empty THEN <<>> ELSE <<id>>, from |-> Nobody]

\* Call.Event and Server.Event; from is the caller, for the history only.
Event(ids, t) ==
    [events |-> <<"event">>, lists |-> <<>>, responses |-> <<>>, ids |-> ids, from |-> t]

\* eventMaskEnabled, by what a mask says.
EventMaskEnabled(mask) == mask \in {"empty", "nonZero", "on", "class"}

----------------------------------------------------------------------------
(* The connections                                                         *)

\* conn.Close: of what has arrived, the parser keeps what it has buffered.
\* Unread data resets the connection.
Hang(c) ==
    IF hung[c] THEN UNCHANGED <<up, hung, reset>>
    ELSE /\ hung' = [hung EXCEPT ![c] = TRUE]
         /\ \E kept \in IF sess[c].at = "serving" THEN 0..Len(up[c]) ELSE {0} :
               /\ up' = [up EXCEPT ![c] = SubSeq(@, 1, kept)]
               /\ reset' = [reset EXCEPT ![c] = @ \/ kept < Len(up[c])]

----------------------------------------------------------------------------
(* acceptLoop                                                              *)

Accept(c) ==
    /\ loop.at = "accept" /\ listening /\ c \in backlog
    /\ backlog' = backlog \ {c}
    /\ loop' = [at |-> "register", conn |-> c]
    /\ UNCHANGED <<script, closed, listening, handlers, sessions, violations, sess, held,
                   call, up, down, hung, left, reset>>

\* Accept fails: the listener has been closed, or has broken.
AcceptFails ==
    /\ loop.at = "accept" /\ (listening => Nobody \in script.fails)
    /\ violations' = IF listening THEN violations \cup {AcceptFailed} ELSE violations
    /\ loop' = [at |-> "stopped", conn |-> Nobody]
    /\ UNCHANGED <<script, closed, listening, handlers, sessions, sess, held, call, connVars>>

\* Fault: the loop does not look for a Close.
RegisterAlways(c) ==
    /\ sessions' = sessions \cup {c} /\ loop' = [loop EXCEPT !.at = "start"]
    /\ UNCHANGED <<up, hung, reset>>

RegisterConn(c) ==
    IF closed THEN /\ Hang(c) /\ loop' = [at |-> "stopped", conn |-> Nobody]
                   /\ UNCHANGED sessions
    ELSE /\ sessions' = sessions \cup {c} /\ loop' = [loop EXCEPT !.at = "start"]
         /\ UNCHANGED <<up, hung, reset>>

Register ==
    /\ loop.at = "register" /\ RegisterConn(loop.conn)
    /\ UNCHANGED <<script, closed, listening, handlers, violations, sess, held, call,
                   backlog, down, left>>

\* The session's goroutine starts; it first sends the banner.
Start ==
    /\ loop.at = "start"
    /\ sess' = [sess EXCEPT ![loop.conn].at = "serving",
                            ![loop.conn].todo = <<[do |-> "write", frame |-> Banner]>>]
    /\ loop' = [at |-> "accept", conn |-> Nobody]
    /\ UNCHANGED <<script, closed, listening, handlers, sessions, violations, held, call,
                   connVars>>

----------------------------------------------------------------------------
(* What a session does with a frame, in the order it does it               *)

Write(frame) == [do |-> "write", frame |-> frame]
Do(step) == [do |-> step]
Violate(id) == [do |-> "violate", id |-> id]
Refuse(f) == Write(Response("error", f.id))

\* checkLogin: the key of an MD5 login answers a challenge of this session.
CheckLogin(f, issued) ==
    IF f.auth = "md5" THEN issued /\ f.key = "right" ELSE f.key = "right"

\* Fault: the session is marked once the client has its answer.
AcceptAfterReply(f) ==
    <<Write(Response("success", f.id)), [do |-> "mark", on |-> EventMaskEnabled(f.mask)]>>

AcceptLogin(f) ==
    <<[do |-> "mark", on |-> EventMaskEnabled(f.mask)], Write(Response("success", f.id))>>

\* authenticate, for one frame.
Authenticate(f, issued) ==
    IF f.name = "challenge" THEN
        <<Write(Response(IF f.auth = "md5" THEN "success" ELSE "error", f.id))>>
    ELSE IF f.name = "login" THEN
        IF CheckLogin(f, issued) THEN AcceptLogin(f) ELSE <<Refuse(f), Do("end")>>
    ELSE <<Violate(f.id), Refuse(f), Do("end")>>

\* Fault: an unexpected action is recorded only.
RecordOnly(f) == <<Violate(f.id)>>

\* dispatch, without a handler.
Unexpected(f) == <<Violate(f.id), Refuse(f)>>

\* The handlers: the built-in ones, one that sends an event of its own, and one
\* that keeps its call.
Handler(f) ==
    [ping |-> <<Write(Response("success", f.id))>>,
     logoff |-> <<Write(Response("goodbye", f.id)), Do("hangup")>>,
     events |-> <<[do |-> "mask", on |-> EventMaskEnabled(f.mask)],
                  Write(Response("success", f.id))>>,
     status |-> <<Write(Response("success", f.id)), Write(Event(<<f.id>>, Nobody))>>,
     custom |-> <<Write(Response("success", f.id))>>,
     hold |-> <<[do |-> "hold", id |-> f.id]>>][f.name]

\* dispatch.
Dispatch(f) == IF f.name \in handlers THEN Handler(f) ELSE Unexpected(f)

\* readCall and what follows.  A frame that breaks the protocol or carries no
\* Action ends the session; a repeated envelope field is recorded.
ReadCall(c) ==
    LET f == Head(up[c]) IN
    /\ sess[c].at = "serving" /\ sess[c].todo = <<>> /\ up[c] # <<>>
    /\ up' = [up EXCEPT ![c] = Tail(@)]
    /\ violations' = IF f.name \in {"malformed", "nameless"} \/ f.repeats
                     THEN violations \cup {f.id} ELSE violations
    /\ sess' = [sess EXCEPT ![c].todo =
                   IF f.name \in {"malformed", "nameless"} THEN <<Do("end")>>
                   ELSE IF sess[c].authed THEN Dispatch(f)
                   ELSE Authenticate(f, sess[c].issued),
                ![c].issued = @ \/ (f.name = "challenge" /\ f.auth = "md5" /\ ~sess[c].authed)]
    /\ UNCHANGED <<script, closed, listening, handlers, sessions, loop, held, call,
                   backlog, down, hung, left, reset>>

\* reportReadEnd, of a stream that ended or a connection that failed.
ReadEnd(c) ==
    /\ sess[c].at = "serving" /\ sess[c].todo = <<>>
    /\ hung[c] \/ left[c]
    /\ up[c] = <<>> \/ (left[c] /\ reset[c])
    /\ sess' = [sess EXCEPT ![c].todo = <<Do("end")>>]
    /\ UNCHANGED <<script, closed, listening, handlers, sessions, violations, loop, held,
                   call, connVars>>

----------------------------------------------------------------------------
(* The steps of a session                                                  *)

ToDo(c) == Head(sess[c].todo)
Doing(c, step) == sess[c].todo # <<>> /\ ToDo(c).do = step

\* The first thing to do has been done.
Done(c) == sess' = [sess EXCEPT ![c].todo = Tail(@)]

\* Server.violate.
RecordViolation(c) ==
    /\ Doing(c, "violate")
    /\ violations' = violations \cup {ToDo(c).id}
    /\ Done(c)
    /\ UNCHANGED <<script, closed, listening, handlers, sessions, loop, held, call, connVars>>

\* Login is accepted: broadcasts see the session from here on.
MarkAuthed(c) ==
    /\ Doing(c, "mark")
    /\ sess' = [sess EXCEPT ![c].todo = Tail(@), ![c].authed = TRUE,
                            ![c].events = ToDo(c).on]
    /\ UNCHANGED <<script, closed, listening, handlers, sessions, violations, loop, held,
                   call, connVars>>

SetEventMask(c) ==
    /\ Doing(c, "mask")
    /\ sess' = [sess EXCEPT ![c].todo = Tail(@), ![c].events = ToDo(c).on]
    /\ UNCHANGED <<script, closed, listening, handlers, sessions, violations, loop, held,
                   call, connVars>>

\* A handler captures its call.
Hold(c) ==
    /\ Doing(c, "hold") /\ held' = held \cup {ToDo(c).id} /\ Done(c)
    /\ UNCHANGED <<script, closed, listening, handlers, sessions, violations, loop, call,
                   connVars>>

\* Call.Hangup.
HangupSelf(c) ==
    /\ Doing(c, "hangup") /\ Hang(c) /\ Done(c)
    /\ UNCHANGED <<script, closed, listening, handlers, sessions, violations, loop, held,
                   call, backlog, down, left>>

\* serve returns: the connection is closed, then the session forgotten.
EndSession(c) ==
    /\ Doing(c, "end")
    /\ hung' = [hung EXCEPT ![c] = TRUE]
    /\ reset' = [reset EXCEPT ![c] = @ \/ up[c] # <<>>]
    /\ up' = [up EXCEPT ![c] = <<>>]
    /\ sess' = [sess EXCEPT ![c].todo = <<>>, ![c].at = "ending"]
    /\ UNCHANGED <<script, closed, listening, handlers, sessions, violations, loop, held,
                   call, backlog, down, left>>

Unregister(c) ==
    /\ sess[c].at = "ending"
    /\ sess' = [sess EXCEPT ![c] = [NoSession EXCEPT !.at = "over"]]
    /\ sessions' = sessions \ {c}
    /\ UNCHANGED <<script, closed, listening, handlers, violations, loop, held, call,
                   connVars>>

----------------------------------------------------------------------------
(* writeRaw: the frame is sent whole, under wmu.  It waits for room; on a     *)
(* connection that is closed it is dropped.  Its errors are discarded.        *)

\* Fault: a frame is dropped when there is no room.
DeliverOrDrop(c, frame) ==
    IF hung[c] \/ left[c] \/ Len(down[c]) = Window THEN UNCHANGED <<down, reset>>
    ELSE down' = [down EXCEPT ![c] = Append(@, frame)] /\ UNCHANGED reset

Deliver(c, frame) ==
    IF hung[c] THEN UNCHANGED <<down, reset>>
    ELSE IF left[c] THEN reset' = [reset EXCEPT ![c] = TRUE] /\ UNCHANGED down
    ELSE /\ Len(down[c]) < Window
         /\ down' = [down EXCEPT ![c] = Append(@, frame)]
         /\ UNCHANGED reset

SessionWrite(c) ==
    /\ Doing(c, "write") /\ Deliver(c, ToDo(c).frame) /\ Done(c)
    /\ UNCHANGED <<script, closed, listening, handlers, sessions, violations, loop, held, call,
                   backlog, up, hung, left>>

\* A caller writes to the session it has come to.
CallerWrite(t) ==
    /\ call[t].at = "writing" /\ call[t].live # <<>>
    /\ Deliver(Head(call[t].live), call[t].frame)
    /\ call' = [call EXCEPT ![t].live = Tail(@)]
    /\ UNCHANGED <<script, closed, listening, handlers, sessions, violations, loop, sess, held,
                   backlog, up, hung, left>>

----------------------------------------------------------------------------
(* The methods of Server, called by the test                               *)

Idle(t, op) == script.calls[t] = op /\ call[t].at = "idle"

\* The call enters: what it does under mu, and the sessions it goes over.
Enter(t, op, at, live, frame) ==
    call' = [call EXCEPT ![t] = [op |-> op, at |-> at, live |-> live, frame |-> frame,
                                 among |-> ToSet(live), err |-> {}]]

\* broadcast: the sessions that have logged in, whose mask is on if it counts.
Audience(masked) == {c \in sessions : sess[c].authed /\ (masked => sess[c].events)}

\* Server.Event.
Broadcast(t) ==
    /\ Idle(t, "event")
    /\ \E live \in SetToSeqs(Audience(TRUE)) :
          Enter(t, "event", "writing", live, Event(<<>>, t))
    /\ UNCHANGED <<script, closed, listening, handlers, sessions, violations, loop, sess,
                   held, connVars>>

\* Server.Raw.
Raw(t) ==
    /\ Idle(t, "raw")
    /\ \E frame \in RawFrames, live \in SetToSeqs(Audience(FALSE)) :
          Enter(t, "raw", "writing", live, [frame EXCEPT !.from = t])
    /\ UNCHANGED <<script, closed, listening, handlers, sessions, violations, loop, sess,
                   held, connVars>>

\* Call.Respond, on a captured call.
Reply(t) ==
    /\ Idle(t, "reply")
    /\ \E id \in held :
          /\ Enter(t, "reply", "writing", <<id[1]>>, Response("success", id))
          /\ held' = held \ {id}
    /\ UNCHANGED <<script, closed, listening, handlers, sessions, violations, loop, sess,
                   connVars>>

\* HandleAction.
HandleAction(t) ==
    /\ Idle(t, "handle")
    /\ \E name \in handlers \cup {"custom"} :
          handlers' = IF name \in handlers THEN handlers \ {name} ELSE handlers \cup {name}
    /\ Enter(t, "handle", "returned", <<>>, Empty)
    /\ UNCHANGED <<script, closed, listening, sessions, violations, loop, sess, held,
                   connVars>>

\* Hangup, and Close: the snapshot.
Hangup(t) ==
    /\ Idle(t, "hangup")
    /\ \E live \in SetToSeqs(sessions) : Enter(t, "hangup", "hanging", live, Empty)
    /\ UNCHANGED <<script, closed, listening, handlers, sessions, violations, loop, sess,
                   held, connVars>>

Close(t) ==
    /\ Idle(t, "close")
    /\ closed' = TRUE
    /\ IF closed THEN Enter(t, "close", "waiting", <<>>, Empty)
       ELSE \E live \in SetToSeqs(sessions) : Enter(t, "close", "closing", live, Empty)
    /\ UNCHANGED <<script, listening, handlers, sessions, violations, loop, sess, held,
                   connVars>>

\* Close closes the listener, which resets the connections nobody has accepted.
CloseListener(t) ==
    /\ call[t].at = "closing"
    /\ listening' = FALSE
    /\ call' = [call EXCEPT ![t].at = "hanging"]
    /\ hung' = [c \in Conns |-> hung[c] \/ c \in backlog]
    /\ reset' = [c \in Conns |-> reset[c] \/ c \in backlog]
    /\ backlog' = {}
    /\ UNCHANGED <<script, closed, handlers, sessions, violations, loop, sess, held, up,
                   down, left>>

\* Hangup and Close close the connections of the snapshot in turn.
HangNext(t) ==
    /\ call[t].at = "hanging" /\ call[t].live # <<>>
    /\ Hang(Head(call[t].live))
    /\ call' = [call EXCEPT ![t].live = Tail(@)]
    /\ UNCHANGED <<script, closed, listening, handlers, sessions, violations, loop, sess,
                   held, backlog, down, left>>

\* The goroutines of the wait group.
Running == {c \in Conns : sess[c].at \in {"serving", "ending"}}

\* Fault: the accept loop is not in the group.
SessionsOver == Running = {}

GroupDone == Running = {} /\ loop.at = "stopped"

\* A call has gone over all its sessions; Close has waited for the group as well.
Return(t) ==
    /\ call[t].live = <<>>
    /\ \/ call[t].at = "writing"
       \/ call[t].at = "hanging" /\ call[t].op = "hangup"
       \/ call[t].at = "waiting" /\ GroupDone
    /\ call' = [call EXCEPT ![t].at = "returned", ![t].frame = Empty,
                            ![t].err = IF call[t].op = "close" THEN violations ELSE {}]
    /\ UNCHANGED <<script, closed, listening, handlers, sessions, violations, loop, sess,
                   held, connVars>>

\* Close has hung up and waits.
Wait(t) ==
    /\ call[t].at = "hanging" /\ call[t].op = "close" /\ call[t].live = <<>>
    /\ call' = [call EXCEPT ![t].at = "waiting"]
    /\ UNCHANGED <<script, closed, listening, handlers, sessions, violations, loop, sess,
                   held, connVars>>

----------------------------------------------------------------------------
AcceptLoop == AcceptFails \/ Register \/ Start \/ \E c \in Conns : Accept(c)

Serve(c) ==
    \/ ReadCall(c) \/ ReadEnd(c) \/ RecordViolation(c) \/ MarkAuthed(c)
    \/ SetEventMask(c) \/ Hold(c) \/ HangupSelf(c) \/ EndSession(c) \/ Unregister(c)
    \/ SessionWrite(c)

Begin(t) == Broadcast(t) \/ Raw(t) \/ Reply(t) \/ HandleAction(t) \/ Hangup(t) \/ Close(t)
Continue(t) == CallerWrite(t) \/ CloseListener(t) \/ HangNext(t) \/ Wait(t) \/ Return(t)
=============================================================================
