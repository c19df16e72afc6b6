------------------------------ MODULE Session ------------------------------
(***************************************************************************)
(* The session (client.go, dispatch.go, keepalive.go) around the machine:  *)
(* one goroutine per call of Do, DoFollow or StartList, the reader, the    *)
(* expiry loop, the keepalive worker and a caller of Close, which share    *)
(* the machine under the session lock and the connection.                  *)
(*                                                                         *)
(* The call that uses ActionID a is the process a; the keepalive worker    *)
(* runs as the process of the Ping it has in progress.  A critical section *)
(* that makes one machine call is one step, taken while the lock is free;  *)
(* one that makes several holds `lock` between them.  What a goroutine     *)
(* does alone after unlocking (a poke, the return of the write slot) is    *)
(* part of the step before.  A context or a timer may end at any moment.   *)
(***************************************************************************)
EXTENDS Demux, Outcomes

CONSTANT Nobody    \* no process

ASSUME NobodyAssumption == Nobody \notin Own

VARIABLES
    \* Client
    root,          \* Client.cause; "None" until Client.terminated
    lock,          \* who holds Client.mu between two machine calls
    writeSem,      \* the holder of the write slot
    semQueue,      \* the senders parked on writeSem
    waiters, chan, \* Client.waiters, and what a waiter's channel holds
    poke,          \* Client.retirePoke holds a token
    inflight,      \* the dispatches Client.inflight counts
    ctxDone,       \* Client.ctx is cancelled
    connClosed,    \* framer.closed
    done,          \* Client.done is closed
    \* processes
    pc, disp, result,      \* of a dispatch or Ping: place, writeDisposition, result
    keepalive,     \* the Ping in progress, or "looping", "stopped"
    reader, closer,
    expiry, wakeAt

workers == <<reader, closer, expiry, wakeAt, done>>
callVars == <<pc, result, inflight, keepalive>>
slotVar == <<writeSem, semQueue>>
connVars == <<ctxDone, connClosed>>
effectVars == <<root, waiters, chan>>

sessionVars == <<effectVars, lock, slotVar, poke, connVars, callVars, disp, workers>>
allVars == <<vars, sessionVars>>

Terminated == root # "None"
LockFree == lock = Nobody

Unlock == lock' = Nobody

SessionInit ==
    /\ Init
    /\ root = "None" /\ lock = Nobody
    /\ writeSem = Nobody /\ semQueue = <<>>
    /\ waiters = {} /\ chan = [a \in Own |-> "empty"]
    /\ poke = FALSE /\ inflight = {}
    /\ ctxDone = FALSE /\ connClosed = FALSE /\ done = FALSE
    /\ pc = [a \in Own |-> "idle"]
    /\ disp = [a \in Own |-> "none"]
    /\ result = [a \in Own |-> "none"]
    /\ keepalive = "looping" /\ reader = "reading" /\ closer = "open"
    /\ expiry = "looking" /\ wakeAt = 0

----------------------------------------------------------------------------
(* What the machine accepts.  Any other call panics.                       *)

AcceptsCommit(a) == pstate[a] \in {"reserved", "completed"} /\ a \notin committed
AcceptsAbort(a) ==
    /\ a \notin committed
    /\ pstate[a] = "reserved" \/ (pstate[a] = "completed" /\ outcome[a] = "dead")
AcceptsAbandon(a) == pstate[a] = "inFlight"
AcceptsCloseFollow(a) == a \in folOpen /\ a \in committed /\ pstate[a] = "completed"
AcceptsCloseList(a) ==
    a \in lstOpen /\ a \in committed /\ dead /\ list[a].phase = "dead"
AcceptsAdopt(a) ==
    a \in folOpen \cup lstOpen /\ a \in committed /\ outcome[a] = "success"

\* resolveDeadLocked: a call the machine does not accept is swallowed.
Tolerated(accepts, Call) == IF accepts THEN Call ELSE UNCHANGED vars

----------------------------------------------------------------------------
(* Effects of a machine call (client.go)                                   *)

\* The pendings the call completed.
Completions == {a \in Own : outcome'[a] # outcome[a]
                            /\ outcome'[a] \in {"success", "error", "dead"}}

\* Fault: a waiter that completed stays in the map.
DeliverTwice ==
    /\ chan' = [a \in Own |->
                  IF a \in waiters \cap Completions THEN outcome'[a]
                  ELSE IF a \in waiters /\ Terminated' THEN "dead" ELSE chan[a]]
    /\ waiters' = IF Terminated' THEN {} ELSE waiters

\* deliverLocked, and sweepLocked once the client has terminated: a waiter
\* that completes leaves the map and finds its completion in its channel.
Deliver ==
    /\ chan' = [a \in Own |->
                  IF a \in waiters \cap Completions THEN outcome'[a]
                  ELSE IF a \in waiters /\ Terminated' THEN "dead" ELSE chan[a]]
    /\ waiters' = IF Terminated' THEN {} ELSE waiters \ Completions

\* applyLockedFx: the first fatality commits the root cause.
ApplyEffects ==
    /\ root' = IF dead' /\ ~Terminated THEN cause' ELSE root
    /\ Deliver

\* The critical section of die: the first cause wins.
DieLocked(why) ==
    IF Terminated
    THEN UNCHANGED <<vars, effectVars>>
    ELSE /\ root' = why
         /\ IF dead THEN UNCHANGED vars ELSE Kill("Killed")
         /\ Deliver

\* Fault: the connection is closed and the context forgotten.
CloseOnly == connClosed' = TRUE /\ UNCHANGED ctxDone

\* finishTeardown.  The context ends before the connection closes, so a
\* connection closed here never has a live context: one step.
FinishTeardown == ctxDone' = TRUE /\ connClosed' = TRUE

----------------------------------------------------------------------------
(* The write slot.  A receive from the full channel admits the first of    *)
(* the parked senders.                                                     *)

\* The sends on writeSem of admitWriter and of ping.
Enqueue(a) ==
    IF writeSem = Nobody
    THEN writeSem' = a /\ UNCHANGED semQueue
    ELSE semQueue' = Append(semQueue, a) /\ UNCHANGED writeSem

\* releaseWriter; a sender that is still parked leaves the queue.
LeaveSlot(a) ==
    IF writeSem # a
    THEN semQueue' = Without(semQueue, {a}) /\ UNCHANGED writeSem
    ELSE /\ writeSem' = IF semQueue = <<>> THEN Nobody ELSE Head(semQueue)
         /\ semQueue' = IF semQueue = <<>> THEN <<>> ELSE Tail(semQueue)

\* Fault: a call that returns keeps the write slot.
ReturnHoldingSlot(a, r) ==
    /\ pc' = [pc EXCEPT ![a] = "returned"]
    /\ result' = [result EXCEPT ![a] = r]
    /\ inflight' = inflight \ {a}
    /\ keepalive' = IF a \notin Pings THEN keepalive
                    ELSE IF r = "failed" THEN "stopped" ELSE "looping"
    /\ UNCHANGED slotVar

\* The call returns r: it drops its in-flight hold, and the write slot if it
\* still has it.  After a Ping that fails the keepalive worker stops.
Return(a, r) ==
    /\ pc' = [pc EXCEPT ![a] = "returned"]
    /\ result' = [result EXCEPT ![a] = r]
    /\ inflight' = inflight \ {a}
    /\ keepalive' = IF a \notin Pings THEN keepalive
                    ELSE IF r = "failed" THEN "stopped" ELSE "looping"
    /\ LeaveSlot(a)

Goto(a, place) ==
    /\ pc' = [pc EXCEPT ![a] = place]
    /\ UNCHANGED <<result, inflight, keepalive>>

\* A step of a that touches neither the machine nor what others share.
Alone == UNCHANGED <<vars, effectVars, lock, poke, connVars, disp, workers>>

----------------------------------------------------------------------------
(* Admission (dispatch and admitWriter; ping)                              *)

\* An ended context, of the caller or of the client, or the timer.
Refused(a) ==
    IF a \in Pings
    THEN \/ ctxDone /\ Return(a, "nil")
         \/ ~ctxDone /\ Goto(a, "dying") /\ LeaveSlot(a)
    ELSE \/ Return(a, "notSent")
         \/ ctxDone /\ Return(a, "closed")

\* A call starts, or the keepalive timer fires.
Begin(a) ==
    /\ pc[a] = "idle"
    /\ \/ a \in Public /\ Refused(a)
       \/ /\ a \in Pings => keepalive = "looping"
          /\ pc' = [pc EXCEPT ![a] = "queued"]
          /\ keepalive' = IF a \in Pings THEN "pinging" ELSE keepalive
          /\ Enqueue(a)
          /\ UNCHANGED <<result, inflight>>
    /\ Alone

Unqueue(a) == pc[a] = "queued" /\ writeSem # a /\ Refused(a) /\ Alone

\* The critical section of the admission: liveness check, Admit, in-flight
\* hold and waiter.
Register(a) ==
    /\ pc[a] = "queued" /\ writeSem = a /\ LockFree
    /\ \/ /\ Terminated
          /\ Return(a, IF a \in Pings THEN "nil" ELSE "closed")
          /\ UNCHANGED <<vars, waiters, chan>>
       \/ /\ ~Terminated /\ ~HasCapacity(a)
          /\ IF a \in Pings THEN Goto(a, "dying") /\ LeaveSlot(a)
             ELSE Return(a, "notSent")
          /\ UNCHANGED <<vars, waiters, chan>>
       \/ /\ ~Terminated /\ Admit(a)
          /\ pc' = [pc EXCEPT ![a] = "entering"]
          /\ inflight' = inflight \cup ({a} \cap Public)
          /\ waiters' = waiters \cup {a}
          /\ chan' = [chan EXCEPT ![a] = "empty"]
          /\ UNCHANGED <<result, keepalive, slotVar>>
    /\ UNCHANGED <<root, lock, poke, connVars, disp, workers>>

----------------------------------------------------------------------------
(* The write (framer.writeAction)                                          *)

\* Checks and validation before the first byte.
EnterWrite(a) ==
    /\ pc[a] = "entering"
    /\ \/ \E d \in EnterOutcomes(connClosed) :
             /\ d = "rejected" => a \in Public
             /\ disp' = [disp EXCEPT ![a] = d]
             /\ Goto(a, "wrote")
       \/ ~connClosed /\ Goto(a, "writing") /\ UNCHANGED disp
    /\ UNCHANGED <<vars, effectVars, lock, slotVar, poke, connVars, workers>>

\* conn.Write returns.  A failure on a connection still open goes on to
\* poison it; on a closed one it is reported as ErrClosed.
WriteReturns(a) ==
    /\ pc[a] = "writing"
    /\ \E d \in WriteOutcomes(connClosed) :
          /\ disp' = [disp EXCEPT ![a] = d]
          /\ Goto(a, IF d \in Poisonous THEN "poisoning" ELSE "wrote")
    /\ UNCHANGED <<vars, effectVars, lock, slotVar, poke, connVars, workers>>

Poison(a) ==
    /\ pc[a] = "poisoning"
    /\ connClosed' = TRUE
    /\ Goto(a, "wrote")
    /\ UNCHANGED <<vars, effectVars, lock, slotVar, poke, ctxDone, disp, workers>>

----------------------------------------------------------------------------
(* Resolution of the write (writeAdmitted, resolveNotSent; ping)           *)

WriteCommitted(a) ==
    /\ pc[a] = "wrote" /\ disp[a] = "complete" /\ LockFree
    /\ CommitWrite(a)
    /\ Goto(a, "awaiting") /\ LeaveSlot(a)
    /\ UNCHANGED <<effectVars, lock, poke, connVars, disp, workers>>

\* A transport failure owns client death.  A Ping that could not be sent in
\* time does too, but one that met a closed connection waits for its owner.
AfterNotSent(a) ==
    IF a \in Pings /\ disp[a] = "closed"
    THEN Goto(a, "draining") /\ UNCHANGED slotVar
    ELSE IF a \in Pings /\ disp[a] = "canceled" /\ ctxDone THEN Return(a, "nil")
    ELSE IF a \in Pings \/ disp[a] = "notSent"
         THEN Goto(a, "dying") /\ UNCHANGED slotVar
    ELSE Return(a, "notSent")

\* resolveNotSent, when no response has been delivered.
AbortUnsent(a) ==
    /\ pc[a] = "wrote" /\ disp[a] \in Unsent /\ LockFree
    /\ chan[a] \in {"empty", "dead"}
    /\ IF chan[a] = "dead" THEN Tolerated(AcceptsAbort(a), AbortNotSent(a))
       ELSE AbortNotSent(a)
    /\ waiters' = waiters \ {a}
    /\ AfterNotSent(a)
    /\ UNCHANGED <<root, chan, lock, poke, connVars, disp, workers>>

\* resolveNotSent, when an unsent action has been answered: the ticket and
\* its branch are resolved and the client dies, in one critical section.
Contradicted(a) ==
    /\ pc[a] = "wrote" /\ disp[a] \in Unsent /\ LockFree
    /\ chan[a] \in {"success", "error"}
    /\ CommitWrite(a)
    /\ lock' = a
    /\ Goto(a, "contradicted")
    /\ UNCHANGED <<effectVars, slotVar, poke, connVars, disp, workers>>

ContradictedBranch(a) ==
    /\ lock = a
    /\ \/ pc[a] = "contradicted" /\ a \in Follows
          /\ CloseFollow(a) /\ Goto(a, "contradiction")
       \/ pc[a] = "contradicted" /\ a \in Lists /\ chan[a] = "success"
          /\ AdoptList(a) /\ Goto(a, "contradictedList")
       \/ pc[a] = "contradictedList" /\ a \in Lists
          /\ CloseListBranch(a) /\ Goto(a, "contradiction")
    /\ UNCHANGED <<effectVars, lock, slotVar, poke, connVars, disp, workers>>

ContradictionCause == IF Terminated THEN root ELSE "ResponseUnmatched"

ContradictionKill(a) ==
    /\ lock = a
    /\ \/ pc[a] = "contradiction"
       \/ pc[a] = "contradicted" /\ a \notin Follows
          /\ ~(a \in Lists /\ chan[a] = "success")
    /\ IF dead THEN UNCHANGED vars ELSE Kill("ResponseUnmatched")
    /\ root' = ContradictionCause
    /\ Deliver
    /\ Unlock
    /\ Goto(a, "teardown")
    /\ UNCHANGED <<slotVar, poke, connVars, disp, workers>>

----------------------------------------------------------------------------
(* Death caused by a dispatch or a Ping                                    *)

\* The write that failed, the Ping that got no answer.  A write that sent
\* some bytes dies with the error it was given.
CallCause(a) ==
    CASE disp[a] = "partialClosed" -> "Closed"
      [] disp[a] \in {"notSent", "partial"} -> "Write"
      [] OTHER -> "Keepalive"

\* An ambiguous write enters die at once, the others after their resolution.
CallDies(a) ==
    /\ \/ pc[a] = "dying"
       \/ pc[a] = "wrote" /\ disp[a] \in Ambiguous
    /\ LockFree
    /\ DieLocked(CallCause(a))
    /\ Goto(a, "teardown")
    /\ UNCHANGED <<lock, slotVar, poke, connVars, disp, workers>>

CallTeardown(a) ==
    /\ pc[a] = "teardown"
    /\ FinishTeardown
    /\ IF disp[a] \in Ambiguous
       THEN Goto(a, "settling") /\ UNCHANGED slotVar
       ELSE Return(a, IF a \in Pings THEN "failed" ELSE "notSent")
    /\ UNCHANGED <<vars, effectVars, lock, poke, disp, workers>>

\* The ticket of an ambiguous write is resolved after death, panics swallowed.
SettleWrite(a) ==
    /\ pc[a] = "settling" /\ LockFree
    /\ Tolerated(AcceptsCommit(a), CommitWrite(a))
    /\ waiters' = waiters \ {a}
    /\ IF a \in Follows \cup Lists
       THEN lock' = a /\ Goto(a, "settlingBranch") /\ UNCHANGED slotVar
       ELSE Return(a, IF a \in Pings THEN "failed" ELSE "unknown") /\ UNCHANGED lock
    /\ UNCHANGED <<root, chan, poke, connVars, disp, workers>>

ReleaseAfterDeath(a) ==
    IF a \in Follows THEN Tolerated(AcceptsCloseFollow(a), CloseFollow(a))
    ELSE IF a \in Lists THEN Tolerated(AcceptsCloseList(a), CloseList(a))
    ELSE UNCHANGED vars

SettleBranch(a) ==
    /\ pc[a] = "settlingBranch" /\ lock = a
    /\ ReleaseAfterDeath(a)
    /\ Unlock
    /\ Return(a, "unknown")
    /\ UNCHANGED <<effectVars, poke, connVars, disp, workers>>

----------------------------------------------------------------------------
(* The answer (await, do, StartList; ping)                                 *)

\* Fault: the follow of a rejected request is left in the machine.
ReleaseNothing(a) == UNCHANGED vars

\* The machine itself released the branch of a rejected list.
ReleaseRejected(a) == IF a \in Follows THEN CloseFollow(a) ELSE UNCHANGED vars

\* A completion has been received: adoption, or release of the branch.
Answered(a) ==
    /\ pc[a] = "awaiting" /\ a \in Public /\ chan[a] # "empty" /\ LockFree
    /\ \/ chan[a] = "dead" /\ ReleaseAfterDeath(a) /\ Return(a, "unknown")
       \/ chan[a] = "error" /\ ReleaseRejected(a) /\ Return(a, "responded")
       \/ chan[a] = "success" /\ Return(a, "ok")
          /\ IF a \in Follows THEN AdoptFollow(a)
             ELSE IF a \in Lists THEN AdoptList(a) ELSE UNCHANGED vars
    /\ UNCHANGED <<effectVars, lock, poke, connVars, disp, workers>>

PingAnswered(a) ==
    /\ pc[a] = "awaiting" /\ a \in Pings /\ chan[a] # "empty"
    /\ IF chan[a] = "error" THEN Goto(a, "dying") /\ UNCHANGED slotVar
       ELSE Return(a, "nil")
    /\ Alone

\* Fault: the channel is not looked at again under the lock.
NothingDelivered(a) == TRUE

NoCompletionYet(a) == chan[a] = "empty"

\* Fault: the expiry loop is not told of the record.
AbandonQuietly(a) == Abandon(a) /\ UNCHANGED poke

AbandonWaiting(a) == Abandon(a) /\ poke' = TRUE

\* The caller's context or the Ping's timer ends the wait; under the lock a
\* completion that came first has won.
GiveUp(a) ==
    /\ pc[a] = "awaiting" /\ LockFree
    /\ NoCompletionYet(a)
    /\ waiters' = waiters \ {a}
    /\ IF Terminated THEN UNCHANGED <<vars, poke>> ELSE AbandonWaiting(a)
    /\ IF a \in Public THEN Return(a, "unknown")
       ELSE IF Terminated THEN Return(a, "nil")
       ELSE Goto(a, "dying") /\ UNCHANGED slotVar
    /\ UNCHANGED <<root, chan, lock, connVars, disp, workers>>

\* A Ping that met a closed connection holds the write slot until the cause
\* of the closing has committed.
PingDrained(a) ==
    /\ pc[a] = "draining" /\ ctxDone
    /\ Return(a, "nil")
    /\ Alone

\* The steps that the goroutine of a call takes by itself, the ends of the
\* timeouts of its admission and of its write among them.
Proceed(a) ==
    \/ Unqueue(a) \/ Register(a)
    \/ EnterWrite(a) \/ WriteReturns(a) \/ Poison(a)
    \/ WriteCommitted(a) \/ AbortUnsent(a)
    \/ Contradicted(a) \/ ContradictedBranch(a) \/ ContradictionKill(a)
    \/ CallDies(a) \/ CallTeardown(a) \/ SettleWrite(a) \/ SettleBranch(a)
    \/ Answered(a) \/ PingAnswered(a) \/ PingDrained(a)

Dispatch(a) == Proceed(a) \/ GiveUp(a)

KeepaliveStops ==
    /\ keepalive = "looping" /\ ctxDone
    /\ keepalive' = "stopped"
    /\ UNCHANGED <<vars, effectVars, lock, slotVar, poke, connVars, pc, result,
                   inflight, disp, workers>>

----------------------------------------------------------------------------
(* The reader (readLoop, routeOne; framer.read)                            *)

callers == <<callVars, disp, slotVar>>
readerFrame == <<callers, closer, expiry, wakeAt, done>>

\* A message has been read, the read has failed, or the context ended it.
ReadReturns ==
    /\ reader = "reading"
    /\ \/ ~connClosed /\ reader' \in {"routing", "poisoning"}
       \/ connClosed /\ ~ctxDone /\ reader' = "waiting"
       \/ ctxDone /\ reader' = "stopped"
    /\ UNCHANGED <<vars, effectVars, lock, poke, connVars, readerFrame>>

\* Fault: the reader takes a closed connection for its own failure.
ReaderYieldsNot == reader = "waiting" /\ DieLocked("Closed") /\ reader' = "teardown"

\* Another path closed the connection: wait for it to commit its cause.
ReaderYields ==
    reader = "waiting" /\ ctxDone /\ reader' = "stopped" /\ UNCHANGED <<vars, effectVars>>

RouteOne ==
    /\ reader = "routing" /\ LockFree
    /\ IF Terminated
       THEN UNCHANGED <<vars, effectVars>> /\ reader' = "reading"
       ELSE /\ RouteResponse \/ RouteEvent
            /\ ApplyEffects
            /\ reader' = IF dead' THEN "teardown" ELSE "reading"
    /\ poke' = TRUE
    /\ UNCHANGED <<lock, connVars, readerFrame>>

ReaderFails ==
    \/ /\ reader = "poisoning"
       /\ connClosed' = TRUE
       /\ reader' = IF ctxDone THEN "stopped" ELSE "dying"
       /\ UNCHANGED <<vars, effectVars, ctxDone, lock, poke, readerFrame>>
    \/ /\ reader = "dying" /\ LockFree
       /\ DieLocked("Read")
       /\ reader' = "teardown"
       /\ UNCHANGED <<connVars, lock, poke, readerFrame>>
    \/ /\ LockFree /\ ReaderYields
       /\ UNCHANGED <<connVars, lock, poke, readerFrame>>
    \/ /\ reader = "teardown"
       /\ FinishTeardown
       /\ reader' = "stopped"
       /\ UNCHANGED <<vars, effectVars, lock, poke, readerFrame>>

----------------------------------------------------------------------------
(* The expiry loop                                                         *)

expiryFrame == <<callers, reader, closer, done>>

EarliestDeadline == Min({rec[a].deadline : a \in LiveRecords})

\* One locked look at the machine decides how long to sleep.
ExpiryLooks ==
    /\ expiry = "looking" /\ LockFree
    /\ IF Terminated THEN expiry' = "stopped" /\ UNCHANGED wakeAt
       ELSE IF LiveRecords = {} THEN expiry' = "idle" /\ UNCHANGED wakeAt
       ELSE IF EarliestDeadline > time
       THEN expiry' = "sleeping" /\ wakeAt' = EarliestDeadline
       ELSE expiry' = "firing" /\ UNCHANGED wakeAt
    /\ UNCHANGED <<vars, effectVars, lock, poke, connVars, expiryFrame>>

ExpiryWakes ==
    /\ expiry \in {"idle", "sleeping"}
    /\ \/ ctxDone /\ expiry' = "stopped" /\ UNCHANGED poke
       \/ poke /\ expiry' = "looking" /\ poke' = FALSE
       \/ expiry = "sleeping" /\ wakeAt <= time /\ expiry' = "firing" /\ UNCHANGED poke
    /\ UNCHANGED <<vars, effectVars, lock, connVars, wakeAt, expiryFrame>>

ExpiryFires ==
    /\ expiry = "firing" /\ LockFree
    /\ IF Terminated
       THEN UNCHANGED <<vars, effectVars>> /\ expiry' = "looking"
       ELSE /\ Expire /\ ApplyEffects
            /\ expiry' = IF dead' THEN "teardown" ELSE "looking"
    /\ UNCHANGED <<lock, poke, connVars, wakeAt, expiryFrame>>

ExpiryTearsDown ==
    /\ expiry = "teardown"
    /\ FinishTeardown
    /\ expiry' = "stopped"
    /\ UNCHANGED <<vars, effectVars, lock, poke, wakeAt, expiryFrame>>

ExpiryLoop == ExpiryLooks \/ ExpiryWakes \/ ExpiryFires \/ ExpiryTearsDown

----------------------------------------------------------------------------
(* The application's Close, of the client and of an adopted handle; Done   *)

closerFrame == <<callers, reader, expiry, wakeAt, done>>

CloseClient ==
    /\ closer = "open" /\ LockFree
    /\ DieLocked("Closed")
    /\ closer' = "teardown"
    /\ UNCHANGED <<lock, poke, connVars, closerFrame>>

CloserTearsDown ==
    /\ closer = "teardown"
    /\ FinishTeardown
    /\ closer' = "returned"
    /\ UNCHANGED <<vars, effectVars, lock, poke, closerFrame>>

\* Fault: the expiry loop is not told of the drain record.
CloseHandleQuietly(b) ==
    /\ LockFree /\ b \in Public /\ result[b] = "ok"
    /\ Close(b)
    /\ UNCHANGED <<effectVars, lock, poke, connVars, callers, workers>>

\* closeBranch: the drain record of a list it leaves needs the expiry loop.
CloseHandle(b) ==
    /\ LockFree /\ b \in Public /\ result[b] = "ok"
    /\ Close(b)
    /\ poke' = TRUE
    /\ UNCHANGED <<effectVars, lock, connVars, callers, workers>>

\* The workers stop first; then no new in-flight hold can start.
CloseDone ==
    /\ reader = "stopped" /\ expiry = "stopped" /\ keepalive = "stopped"
    /\ inflight = {}
    /\ ~done /\ done' = TRUE
    /\ UNCHANGED <<vars, effectVars, lock, poke, connVars, callers, reader,
                   closer, expiry, wakeAt>>

----------------------------------------------------------------------------
\* Bound of the model: past the horizon of new records the clock only moves
\* while a record waits for its deadline.
Clock ==
    /\ Tick
    /\ time + 1 + RetirementLifetime <= MaxTime \/ LiveRecords # {}
    /\ UNCHANGED sessionVars

SessionNext ==
    \/ \E a \in Own : Begin(a) \/ Dispatch(a)
    \/ \E b \in Branches : CloseHandle(b)
    \/ ReadReturns \/ RouteOne \/ ReaderFails
    \/ ExpiryLoop \/ KeepaliveStops
    \/ CloseClient \/ CloserTearsDown \/ CloseDone \/ Clock

SessionSpec == SessionInit /\ [][SessionNext]_allVars

\* Every goroutine runs, time passes, and the timers that bound an admission, a
\* write and a Ping end.  Nothing obliges the peer to send, a call to begin or
\* its context to end, a read to fail or the application to close: a call may
\* wait for its response for ever.
SessionFairness ==
    /\ \A a \in Own : WF_allVars(Proceed(a))
    /\ \A a \in Pings : WF_allVars(GiveUp(a))
    /\ WF_allVars(ReaderFails)
    /\ WF_allVars(ReadReturns /\ connClosed)
    /\ WF_allVars(RouteOne)
    /\ WF_allVars(ExpiryLoop)
    /\ WF_allVars(KeepaliveStops)
    /\ WF_allVars(CloserTearsDown)
    /\ WF_allVars(CloseDone)
    /\ WF_allVars(Clock)

FairSessionSpec == SessionSpec /\ SessionFairness
=============================================================================
