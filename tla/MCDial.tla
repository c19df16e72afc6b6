------------------------------- MODULE MCDial -------------------------------
(***************************************************************************)
(* Instances of module DialSafety: the tests that are checked.             *)
(***************************************************************************)
EXTENDS DialSafety

CONSTANTS c1, c2, t1, t2

\* Frames.
Auth(auth, key, mask) == [auth |-> auth, key |-> key, mask |-> mask]
Bare(name) == [name |-> name, id |-> Empty, auth |-> "plain", key |-> "right",
               mask |-> "empty", repeats |-> FALSE]
Mask(mask) == [Bare("events") EXCEPT !.mask = mask]

Off == Auth("plain", "right", "empty")
On == Auth("plain", "right", "on")
Md5 == Auth("md5", "right", "class")
Wrong == Auth("md5", "wrong", "off")
RawClient == Auth("raw", "none", "empty")
Unused == Auth("none", "none", "empty")

Test(login1, sends1, login2, sends2, call1, call2, fails) ==
    [login |-> c1 :> login1 @@ c2 :> login2, sends |-> c1 :> sends1 @@ c2 :> sends2,
     calls |-> t1 :> call1 @@ t2 :> call2, fails |-> fails]

MCScripts == {
    \* broadcasts among actions, beside a client that may not read
    Test(Off, <<Mask("on")>>, On, <<>>, "event", "event", {}),
    \* broadcasts before a ping
    Test(On, <<Bare("ping"), Mask("off")>>, Unused, <<>>, "event", "event", {c1}),
    \* a close while a second connection comes in
    Test(On, <<Bare("ping")>>, RawClient, <<>>, "close", "none", {c2}),
    \* actions without a handler
    Test(Md5, <<Bare("custom"), Bare("status")>>, Unused, <<>>, "handle", "raw", {}),
    \* late replies
    Test(On, <<Bare("hold"), Bare("ping")>>, Unused, <<>>, "reply", "hangup", {}),
    \* the end of sessions
    Test(Off, <<Bare("logoff"), Bare("custom")>>, Unused, <<>>, "close", "close", {Nobody}),
    Test(Wrong, <<>>, RawClient, <<Bare("nameless")>>, "close", "none", {}),
    \* frames no client of the library sends
    Test(Unused, <<>>, RawClient, <<[Bare("login") EXCEPT !.repeats = TRUE], Bare("malformed")>>,
         "raw", "close", {c2}),
    Test(Unused, <<>>, RawClient, <<Bare("challenge"), [Bare("login") EXCEPT !.auth = "md5"]>>,
         "hangup", "close", {}) }

\* A login, and a broadcast.
MCLoginScripts == {Test(On, <<>>, Unused, <<>>, "event", "none", {})}

\* An event, an event that says two things, a response nobody waits for.
MCRawFrames ==
    LET event == Event(<<>>, Nobody) IN
    {event, [event EXCEPT !.responses = <<"success">>, !.lists = <<"start", "complete">>],
     Response("success", Empty)}
=============================================================================
