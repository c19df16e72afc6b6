------------------------------ MODULE Handles ------------------------------
(***************************************************************************)
(* The handle of one branch (subscription.go, list.go, branchState of      *)
(* client.go): goroutines of the application that call Next, All or        *)
(* Consume on it, others that close it, and the reader, which fills and    *)
(* ends the branch in the machine.  Module Branch is the machine's part;   *)
(* module Demux implements it for every branch.                            *)
(*                                                                         *)
(* A critical section of the session lock is one step.  busy and adapted   *)
(* are atomics of the handle, used outside the lock.  Consume and All have *)
(* the same control, with a handler for the loop body: "All" stands for    *)
(* both.  A consumer goroutine may call again after it returned.           *)
(***************************************************************************)
EXTENDS Branch, Naturals, FiniteSets, SequencesExt

CONSTANTS
    Consumers,    \* goroutines that consume the handle
    MaxSent       \* messages routed to the branch, a bound of the model

ASSUME HandlesAssumption ==
    /\ MaxSent \in Nat
    /\ "ClientDead" \in Reasons /\ Reasons \cap {"None", "Closed"} = {}

VARIABLES
    opened,         \* the branch is in Client.branches
    notify,         \* branchState.notify holds a token
    terminal, err,  \* branchState; Done is closed with terminal
    kept,           \* List.hasCompletion
    busy, adapted,
    died,           \* the client has terminated
    isList,         \* the handle is a List, or a Subscription; never changes
    pc, mode, result,  \* of a consumer: place, call, what the last call returned
    sent, got,      \* history: messages queued, messages handed to consumers
    dropped         \* history: Close has discarded queued messages

handle == <<opened, notify, terminal, err, kept>>
flags == <<busy, adapted>>
world == <<died, isList>>
consumers == <<pc, mode, result>>
histories == <<sent, got, dropped>>
handleVars == <<branch, handle, flags, world, consumers, histories>>

\* Machine.Terminal, and Machine.ListCompletion.
Terminal == phase \in {"draining", "dead"}
HasCompletion == isList /\ phase = "draining"

\* The handle of a branch just registered; the machine may have ended it.
HandlesInit ==
    /\ q \in {<<>>} \cup {<<m>> : m \in Messages}
    /\ \/ phase \in {"active", "draining"} /\ reason = "None"
       \/ phase = "dead" /\ reason \in Reasons /\ q = <<>>
    /\ isList \in BOOLEAN /\ opened = TRUE /\ died = FALSE
    /\ notify = Terminal /\ terminal = Terminal /\ err = reason
    /\ kept = FALSE /\ busy = FALSE /\ adapted = FALSE
    /\ pc = [c \in Consumers |-> "idle"]
    /\ mode = [c \in Consumers |-> "Next"]
    /\ result = [c \in Consumers |-> "none"]
    /\ sent = q /\ got = <<>> /\ dropped = FALSE

----------------------------------------------------------------------------
(* Terminal results (commitTerminalLocked)                                 *)

\* Fault: a parked consumer is not told.
CommitSilently(why) ==
    IF terminal THEN UNCHANGED <<terminal, err, notify>>
    ELSE terminal' = TRUE /\ err' = why /\ UNCHANGED notify

\* The first result wins, closes Done and signals whoever is parked.
Commit(why) ==
    IF terminal THEN UNCHANGED <<terminal, err, notify>>
    ELSE terminal' = TRUE /\ err' = why /\ notify' = TRUE

----------------------------------------------------------------------------
(* The reader: Effects.Wake of one message, or of client death             *)

readerFrame == <<isList, opened, kept, flags, consumers, got, dropped>>

\* A message is queued, with or without the clean end it announces.
RouteItem(m) ==
    /\ ~died /\ Len(sent) < MaxSent
    /\ \/ Appends(m) /\ notify' = TRUE /\ UNCHANGED <<terminal, err>>
       \/ ~isList /\ AppendsLast(m) /\ Commit("None")
    /\ sent' = Append(sent, m)
    /\ UNCHANGED <<readerFrame, died>>

\* A clean completion, or an end by a reason; the wake set holds the branch.
RouteEnd ==
    /\ ~died
    /\ \/ isList /\ EndsCleanly /\ Commit("None")
       \/ \E why \in Reasons \ {"ClientDead"} : EndsBy(why) /\ Commit(why)
    /\ UNCHANGED <<readerFrame, died, sent>>

\* The death cascade and the sweep: every open handle becomes terminal.
ClientDies ==
    /\ ~died /\ died' = TRUE
    /\ IF phase = "active" THEN EndsBy("ClientDead") ELSE UNCHANGED branch
    /\ IF opened THEN Commit("ClientDead") ELSE UNCHANGED <<terminal, err, notify>>
    /\ UNCHANGED <<readerFrame, sent>>

----------------------------------------------------------------------------
(* Close                                                                   *)

\* Fault: the stored completion goes with the machine branch.
KeepNothing == UNCHANGED kept

\* The completion of a clean list moves to the handle.
KeepCompletion == kept' = (kept \/ HasCompletion)

CloseBranch ==
    IF ~opened THEN UNCHANGED <<branch, handle, dropped>>
    ELSE /\ opened' = FALSE
         /\ KeepCompletion
         /\ Closes
         /\ Commit("Closed")
         /\ dropped' = (dropped \/ q # <<>>)

\* Any goroutine of the application, the loop body of All included.
AppCloses ==
    /\ opened
    /\ CloseBranch
    /\ UNCHANGED <<flags, world, consumers, sent, got>>

----------------------------------------------------------------------------
(* Consumers (Next, All and Consume)                                       *)

Goto(c, place) == pc' = [pc EXCEPT ![c] = place]
Result(c, r) == result' = [result EXCEPT ![c] = r]

\* Fault: the flag is read and then written.
ClaimUnchecked == busy' = TRUE

\* busy.CompareAndSwap(false, true)
Claim == ~busy /\ busy' = TRUE

Call(c, m) ==
    /\ pc[c] = "idle"
    /\ mode' = [mode EXCEPT ![c] = m]
    /\ \/ Claim /\ Goto(c, IF m = "Next" THEN "taking" ELSE "adapting")
          /\ Result(c, "none")
       \/ busy /\ Result(c, "busy") /\ UNCHANGED <<pc, busy>>
    /\ UNCHANGED <<branch, handle, adapted, world, histories>>

\* adapted.CompareAndSwap(false, true); a second iteration is refused.
Adapt(c) ==
    /\ pc[c] = "adapting"
    /\ IF adapted
       THEN Goto(c, "idle") /\ Result(c, "used") /\ busy' = FALSE /\ UNCHANGED adapted
       ELSE Goto(c, "taking") /\ adapted' = TRUE /\ UNCHANGED <<result, busy>>
    /\ UNCHANGED <<branch, handle, mode, world, histories>>

\* takeBranch returns r.  Next hands it on; All goes on to its loop body with
\* an item, and to its deferred Close with anything else.
Returns(c, r) ==
    /\ Result(c, r)
    /\ Goto(c, IF mode[c] = "Next" THEN "leaving"
               ELSE IF r = "item" THEN "yielding" ELSE "closing")

\* Fault: a handle that was closed reads as the end of its stream.
ClosedResultAlways == "EOF"

ClosedResult == IF err = "None" THEN "EOF" ELSE "error"

\* The critical section of takeBranch.
TakeClosed(c) ==
    /\ pc[c] = "taking" /\ ~opened
    /\ Returns(c, ClosedResult)
    /\ UNCHANGED <<branch, handle, flags, mode, world, histories>>

TakeItem(c) ==
    /\ pc[c] = "taking" /\ opened /\ phase # "dead" /\ q # <<>>
    /\ Taken
    /\ got' = Append(got, Head(q))
    /\ Returns(c, "item")
    /\ UNCHANGED <<handle, flags, mode, world, sent, dropped>>

TakeEnd(c) ==
    /\ pc[c] = "taking" /\ opened
    /\ \/ phase = "dead" /\ Commit(reason) /\ Returns(c, "error")
       \/ phase = "draining" /\ q = <<>> /\ Returns(c, "EOF")
          /\ UNCHANGED <<terminal, err, notify>>
    /\ UNCHANGED <<branch, opened, kept, flags, mode, world, histories>>

TakeEmpty(c) ==
    /\ pc[c] = "taking" /\ opened /\ phase = "active" /\ q = <<>>
    /\ Goto(c, "waiting")
    /\ UNCHANGED <<branch, handle, flags, mode, result, world, histories>>

Take(c) == TakeClosed(c) \/ TakeItem(c) \/ TakeEnd(c) \/ TakeEmpty(c)

Wake(c) ==
    /\ pc[c] = "waiting" /\ notify
    /\ notify' = FALSE /\ Goto(c, "taking")
    /\ UNCHANGED <<branch, opened, terminal, err, kept, flags, mode, result, world,
                   histories>>

\* The caller's context ends only this wait.
ContextEnds(c) ==
    /\ pc[c] = "waiting"
    /\ Returns(c, "context")
    /\ UNCHANGED <<branch, handle, flags, mode, world, histories>>

\* The loop body goes on, or breaks, fails or panics.
LoopBody(c) ==
    /\ pc[c] = "yielding"
    /\ Goto(c, "taking") \/ Goto(c, "closing")
    /\ UNCHANGED <<branch, handle, flags, mode, result, world, histories>>

AdapterCloses(c) == CloseBranch

\* The deferred Close of All; busy is given back after it.
Closing(c) ==
    /\ pc[c] = "closing"
    /\ AdapterCloses(c)
    /\ Goto(c, "leaving")
    /\ UNCHANGED <<flags, mode, result, world, sent, got>>

Leave(c) ==
    /\ pc[c] = "leaving"
    /\ busy' = FALSE /\ Goto(c, "idle")
    /\ UNCHANGED <<branch, handle, adapted, mode, result, world, histories>>

Consume(c) == Adapt(c) \/ Take(c) \/ Wake(c) \/ Closing(c) \/ Leave(c)

HandlesNext ==
    \/ \E m \in Messages : RouteItem(m)
    \/ RouteEnd \/ ClientDies \/ AppCloses
    \/ \E c \in Consumers :
          \/ \E m \in {"Next", "All"} : Call(c, m)
          \/ Consume(c) \/ ContextEnds(c) \/ LoopBody(c)

HandlesSpec == HandlesInit /\ [][HandlesNext]_handleVars

\* A consumer that can go on does; nobody has to call, to end a context, to
\* return from a loop body, to send or to close.
FairHandlesSpec == HandlesSpec /\ \A c \in Consumers : WF_handleVars(Consume(c))
=============================================================================
