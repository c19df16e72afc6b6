--------------------------- MODULE SessionSafety ---------------------------
(***************************************************************************)
(* Properties of the session (module Session).                             *)
(***************************************************************************)
EXTENDS Session, DemuxSafety

Places == {"idle", "queued", "entering", "writing", "poisoning", "wrote",
           "awaiting", "contradicted", "contradictedList", "contradiction",
           "dying", "teardown", "settling", "settlingBranch", "draining", "returned"}
Dispositions == {"none", "complete"} \cup Unsent \cup Ambiguous
Results == {"none", "closed", "notSent", "unknown", "responded", "ok", "nil", "failed"}

----------------------------------------------------------------------------
(* Safety                                                                  *)

\* Outside resolveDeadLocked the session never makes a call that the machine
\* answers with a panic, whatever happened to the ticket since its admission:
\* on a caller's goroutine that panic would end the application.
MachineAccepts ==
    \A a \in Own :
        /\ pc[a] = "wrote" /\ (disp[a] = "complete" \/
              (disp[a] \in Unsent /\ chan[a] \in {"success", "error"})) => AcceptsCommit(a)
        /\ pc[a] = "wrote" /\ disp[a] \in Unsent /\ chan[a] = "empty" => AcceptsAbort(a)
        /\ pc[a] = "awaiting" /\ NoCompletionYet(a) /\ ~Terminated => AcceptsAbandon(a)
        /\ pc[a] \in {"awaiting", "contradicted"} =>
              /\ a \in Follows /\ chan[a] = "error" => AcceptsCloseFollow(a)
              /\ a \in Lists \cup Follows /\ chan[a] = "success" => AcceptsAdopt(a)
        /\ pc[a] = "contradictedList" => list[a].adopted

\* Between critical sections a waiter is registered exactly for the pendings
\* that have no outcome, and no caller waits on after the client has died: a
\* waiter that is missing never returns, one that is left receives twice and
\* blocks the sender under the session lock.
WaiterIffPending ==
    LockFree =>
        /\ waiters = {a \in Own : pstate[a] \in {"reserved", "inFlight"}}
        /\ Terminated <=> dead
        /\ \A a \in Own : pc[a] = "awaiting" /\ Terminated => chan[a] # "empty"

\* A response that was committed is what the caller gets: neither the end of
\* its context nor the death of the client replaces it.
CompletionWins ==
    \A a \in Public :
        pc[a] = "returned" /\ disp[a] = "complete" =>
            /\ outcome[a] = "success" <=> result[a] = "ok"
            /\ outcome[a] = "error" <=> result[a] = "responded"

\* A call that reports that its action was not sent may be repeated: no byte
\* of it has reached the transport.
RetrySafe ==
    \A a \in Public :
        result[a] \in {"notSent", "closed"} => disp[a] \notin Ambiguous \cup {"complete"}

\* A call that has returned has given back the write slot, on whichever of its
\* ways out, or every later writer waits for its admission timeout; and while the
\* client lives it leaves no ticket behind, and no branch unless the caller received
\* its handle.
NothingLeftBehind ==
    /\ \A a \in Own : pc[a] = "returned" => writeSem # a
    /\ LockFree /\ ~Terminated =>
        \A a \in Public :
            pc[a] = "returned" =>
                /\ pstate[a] \in {"none", "released"}
                /\ result[a] # "ok" =>
                      /\ a \in Follows => fol[a] = NoFollow
                      /\ a \in Lists => list[a] = NoList

\* No record is forgotten: unless the expiry loop is about to look at the
\* machine, it sleeps no longer than until the earliest deadline.
DeadlineWatched ==
    LockFree /\ ~Terminated /\ LiveRecords # {} =>
        \/ poke \/ expiry \in {"looking", "firing"}
        \/ expiry = "sleeping" /\ wakeAt <= EarliestDeadline

\* The root cause is the local Close only if the application closed, or if a
\* write that had sent some bytes met a closed connection: the reader and the
\* keepalive worker never commit the ErrClosed of somebody else's failure.
CauseHonest ==
    root = "Closed" => closer # "open" \/ \E a \in Own : disp[a] = "partialClosed"

\* Doc claim, refuted: a connection found already closed leaves the root cause
\* to the path that closed it, so that ErrClosed is the cause of Close alone.
CauseNotStolen == root = "Closed" => closer # "open"

----------------------------------------------------------------------------
(* The inductive invariant behind RetrySafe and CauseHonest                *)

\* What the place of a call says of its write and of its result.
PlacePart(a) ==
    /\ pc[a] \in {"idle", "queued", "entering", "writing"} => disp[a] = "none"
    /\ pc[a] = "poisoning" => disp[a] \in {"notSent", "partial"}
    /\ pc[a] = "wrote" => disp[a] \in Dispositions \ {"none"}
    /\ pc[a] = "awaiting" => disp[a] = "complete"
    /\ pc[a] \in {"contradicted", "contradictedList", "contradiction", "draining"} =>
          disp[a] \in Unsent
    /\ pc[a] \in {"settling", "settlingBranch"} => disp[a] \in Ambiguous
    /\ pc[a] = "dying" /\ a \in Public => disp[a] = "notSent"
    /\ pc[a] = "teardown" /\ a \in Public => disp[a] \in Unsent \cup Ambiguous
    /\ pc[a] # "returned" => result[a] = "none"

\* RetrySafe and CauseHonest with what makes them inductive: a disposition is
\* set once, on the way of a call through its places, and the machine never
\* gives the cause of a local close.
SessionInductive ==
    /\ pc \in [Own -> Places] /\ disp \in [Own -> Dispositions]
    /\ result \in [Own -> Results]
    /\ cause \in Causes \cup {"None"}
    /\ \A a \in Own : PlacePart(a)
    /\ RetrySafe
    /\ CauseHonest

----------------------------------------------------------------------------
(* The inductive invariant behind the other properties                     *)

\* Between two machine calls of one critical section.
LockedPlaces == {"contradicted", "contradictedList", "contradiction", "settlingBranch"}

\* Where a call may hold the write slot.
SlotPlaces == Places \ {"idle", "awaiting", "returned"}

\* The branch of the call is still the dispatcher's to adopt or to release; that
\* of a rejected list is gone.
Provisional(a) ==
    /\ a \in Follows => a \in folOpen
    /\ a \in Lists /\ outcome[a] # "error" => a \in lstOpen

AdoptedBranch(a) ==
    \/ a \in Follows /\ fol[a].adopted
    \/ a \in Lists /\ list[a].adopted

\* What the place of a call says of its ticket.
TicketAt(a) ==
    /\ pc[a] \in {"idle", "queued"} => ~Admitted(a)
    /\ pc[a] \in {"entering", "writing", "poisoning", "wrote"} => a \notin committed
    /\ pc[a] \in {"awaiting", "contradicted"} => a \in committed
    /\ pc[a] \in {"entering", "writing", "poisoning", "wrote", "awaiting", "contradicted"} =>
          Admitted(a) /\ outcome[a] \notin GivenUp /\ Provisional(a)
    /\ pc[a] = "contradictedList" => a \in Lists /\ list[a].adopted
    /\ pc[a] \in {"dying", "draining", "returned"} =>
          pstate[a] \in {"none", "released"} \/ Terminated
    /\ pc[a] \in {"teardown", "settling", "settlingBranch"} => Terminated
    /\ AdoptedBranch(a) => result[a] = "ok" \/ pc[a] = "contradictedList"

\* What a call that has written its whole action returns.
ResultPart(a) ==
    a \in Public /\ pc[a] = "returned" /\ disp[a] = "complete" =>
        /\ outcome[a] # "none"
        /\ outcome[a] = "success" <=> result[a] = "ok"
        /\ outcome[a] = "error" <=> result[a] = "responded"

\* A waiter is registered until its completion is in its channel.
WaiterPart ==
    /\ waiters = {a \in Own : Waiting(a)}
    /\ Terminated <=> dead
    /\ DOMAIN chan = Own
    /\ \A a \in Own : chan[a] = IF outcome[a] \in {"success", "error", "dead"}
                                THEN outcome[a] ELSE "empty"

\* The senders parked on the write slot are queued once and do not hold it.
WriteSlotPart ==
    /\ writeSem \in Own \cup {Nobody}
    /\ semQueue \in Seq(Own) /\ IsInjective(semQueue)
    /\ \A a \in ToSet(semQueue) : pc[a] = "queued" /\ writeSem # a
    /\ \A a \in Own : writeSem = a => pc[a] \in SlotPlaces

\* A context ends, a worker stops and Close goes on only after client death.
EndPart ==
    /\ ctxDone => Terminated
    /\ reader = "teardown" => Terminated
    /\ expiry \in {"teardown", "stopped"} => Terminated
    /\ closer # "open" => Terminated

CallInductive ==
    /\ \A a \in Own : /\ pc[a] \in LockedPlaces <=> lock = a
                      /\ TicketAt(a) /\ ResultPart(a)
    /\ WaiterPart /\ WriteSlotPart /\ EndPart
    /\ expiry \in {"looking", "idle", "sleeping", "firing", "teardown", "stopped"}
    /\ DeadlineWatched

----------------------------------------------------------------------------
(* Action properties                                                       *)

\* The first root cause is never replaced.
StableCause == [][root # "None" => root' = root]_allVars

----------------------------------------------------------------------------
(* Liveness                                                                *)

\* However the client dies, Done closes.
DoneCloses == (root # "None") ~> done

\* With the poke channel and the timer of the expiry loop, every record is
\* resolved in the end, by its evidence or with the client.
RecordsExpire == \A a \in Own : Live(a) ~> ~Live(a)
=============================================================================
