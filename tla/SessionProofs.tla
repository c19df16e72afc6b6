--------------------------- MODULE SessionProofs ---------------------------
(***************************************************************************)
(* The session implements the machine: however its goroutines interleave,  *)
(* every step of one of them is a machine call that module Demux allows,   *)
(* the passing of time, or nothing the machine sees.  What is proved of    *)
(* the machine alone therefore holds of the machine inside the session.    *)
(***************************************************************************)
EXTENDS SessionSafety, DemuxProofs

\* The calls with which the session resolves the ticket a.
OwnCall(a) ==
    \/ Admit(a) \/ CommitWrite(a) \/ AbortNotSent(a) \/ Abandon(a)
    \/ a \in Follows /\ (AdoptFollow(a) \/ CloseFollow(a))
    \/ a \in Lists /\ (AdoptList(a) \/ CloseList(a))

\* All other calls: no ticket of theirs is resolved by its own goroutine.
SharedCall ==
    RouteResponse \/ RouteEvent \/ ConsumerStep \/ Expire \/ Tick
        \/ (\E reason \in KillReasons : Kill(reason)) \/ UNCHANGED vars

LEMMA CallKinds == [Next]_vars <=> SharedCall \/ \E a \in Own : OwnCall(a)
<1>1. Follows \subseteq Own /\ Lists \subseteq Own
  BY DEF Own
<1>2. ASSUME NEW a \in Own, OwnCall(a) PROVE PendingStep
  BY <1>2 DEF PendingStep, OwnCall
<1>3. PendingStep => \E a \in Own : OwnCall(a)
  BY <1>1 DEF PendingStep, OwnCall
<1>4. [Next]_vars <=> PendingStep \/ SharedCall
  BY DEF Next, SharedCall
<1> QED BY <1>2, <1>3, <1>4

LEMMA DieCall ==
    ASSUME NEW why, DieLocked(why) PROVE SharedCall
<1>1. "Killed" \in KillReasons
  BY DEF KillReasons
<1> QED BY <1>1 DEF DieLocked, SharedCall

LEMMA ReleaseCall ==
    ASSUME NEW a \in Own, ReleaseAfterDeath(a) PROVE OwnCall(a) \/ UNCHANGED vars
  BY DEF ReleaseAfterDeath, Tolerated, OwnCall

\* Every step of a call's goroutine resolves its own ticket, or none.
LEMMA DispatchKinds ==
    ASSUME NEW a \in Own, Begin(a) \/ Dispatch(a) PROVE OwnCall(a) \/ SharedCall
<1>0. UNCHANGED vars => SharedCall
  BY DEF SharedCall
<1>1. CASE \/ Begin(a) \/ Unqueue(a) \/ EnterWrite(a) \/ WriteReturns(a)
           \/ Poison(a) \/ CallTeardown(a) \/ PingAnswered(a) \/ PingDrained(a)
  BY <1>0, <1>1 DEF Begin, Unqueue, EnterWrite, WriteReturns, Poison, CallTeardown,
                    PingAnswered, PingDrained, Alone
<1>2. CASE Register(a)
  BY <1>0, <1>2 DEF Register, OwnCall
<1>3. CASE WriteCommitted(a) \/ Contradicted(a)
  BY <1>3 DEF WriteCommitted, Contradicted, OwnCall
<1>4. CASE AbortUnsent(a)
  BY <1>0, <1>4 DEF AbortUnsent, Tolerated, OwnCall
<1>5. CASE ContradictionKill(a)
  <2>1. "ResponseUnmatched" \in KillReasons
    BY DEF KillReasons
  <2> QED BY <1>5, <2>1 DEF ContradictionKill, SharedCall
<1>6. CASE CallDies(a)
  BY <1>6, DieCall DEF CallDies
<1>7. CASE SettleWrite(a)
  BY <1>0, <1>7 DEF SettleWrite, Tolerated, OwnCall
<1>8. CASE SettleBranch(a)
  BY <1>0, <1>8, ReleaseCall DEF SettleBranch
<1>9. CASE Answered(a)
  BY <1>0, <1>9, ReleaseCall DEF Answered, ReleaseRejected, OwnCall
<1>10. CASE GiveUp(a)
  BY <1>0, <1>10 DEF GiveUp, AbandonWaiting, OwnCall
<1>11. CASE ContradictedBranch(a)
  <2>1. CASE a \in Lists /\ CloseListBranch(a)
    BY <2>1 DEF SharedCall, ConsumerStep, Branches, Close
  <2> QED BY <1>11, <2>1 DEF ContradictedBranch, OwnCall
<1> QED BY <1>1, <1>2, <1>3, <1>4, <1>5, <1>6, <1>7, <1>8, <1>9, <1>10, <1>11
        DEF Dispatch, Proceed

LEMMA DispatchCalls ==
    ASSUME NEW a \in Own, Begin(a) \/ Dispatch(a) PROVE [Next]_vars
  BY DispatchKinds, CallKinds

\* The steps of the goroutines that are not calls.
WorkerMoves ==
    \/ \E b \in Branches : CloseHandle(b)
    \/ ReadReturns \/ RouteOne \/ ReaderFails \/ ExpiryLoop
    \/ KeepaliveStops \/ CloseClient \/ CloserTearsDown \/ CloseDone \/ Clock

LEMMA WorkerKinds == ASSUME WorkerMoves PROVE SharedCall
<1>1. CASE \E b \in Branches : CloseHandle(b)
  BY <1>1 DEF CloseHandle, SharedCall, ConsumerStep
<1>2. CASE \/ ReadReturns \/ KeepaliveStops \/ CloserTearsDown \/ CloseDone
  BY <1>2 DEF ReadReturns, KeepaliveStops, CloserTearsDown, CloseDone, SharedCall
<1>3. CASE RouteOne
  BY <1>3 DEF RouteOne, SharedCall
<1>4. CASE ReaderFails
  BY <1>4, DieCall DEF ReaderFails, ReaderYields, SharedCall
<1>5. CASE ExpiryLoop
  BY <1>5 DEF ExpiryLoop, ExpiryLooks, ExpiryWakes, ExpiryFires, ExpiryTearsDown, SharedCall
<1>6. CASE CloseClient
  BY <1>6, DieCall DEF CloseClient
<1>7. CASE Clock
  BY <1>7 DEF Clock, SharedCall
<1> QED BY <1>1, <1>2, <1>3, <1>4, <1>5, <1>6, <1>7 DEF WorkerMoves

LEMMA WorkerCalls == ASSUME WorkerMoves PROVE [Next]_vars
  BY WorkerKinds, CallKinds

\* Every step of the session is one of a call, of a worker, or none.
LEMMA SessionMoves ==
    [SessionNext]_allVars =>
        \/ \E a \in Own : Begin(a) \/ Dispatch(a)
        \/ WorkerMoves
        \/ UNCHANGED allVars
  BY DEF SessionNext, WorkerMoves

LEMMA SessionCalls == [SessionNext]_allVars => [Next]_vars
  BY SessionMoves, DispatchCalls, WorkerCalls DEF allVars

\* Every behaviour of the session is a behaviour of the machine.
THEOREM SessionImplementsMachine == SessionSpec => Spec
<1>1. SessionInit => Init
  BY DEF SessionInit
<1> QED BY <1>1, SessionCalls, PTL DEF SessionSpec, Spec

\* Inside the session, too, an action occupies a retirement slot exactly as
\* long as the server owes something for it.
THEOREM SessionSlotsAreExact == SessionSpec => []SlotIffOutstanding
  BY SessionImplementsMachine, SlotsAreExact, PTL

\* No late response closes a session: it always finds its pending or a record.
THEOREM SessionNoLateResponseIsFatal == SessionSpec => []LateResponseHasHome
  BY SessionImplementsMachine, NoLateResponseIsFatal, PTL

----------------------------------------------------------------------------
(* Root causes and results                                                 *)

LEMMA PlaceTypes ==
    /\ Public \subseteq Own
    /\ Unsent \subseteq Dispositions /\ Ambiguous \subseteq Dispositions
    /\ "complete" \in Dispositions /\ "none" \in Dispositions
    /\ Unsent \cap Ambiguous = {} /\ "complete" \notin Unsent \cup Ambiguous
    /\ "none" \notin Unsent \cup Ambiguous
    /\ "Closed" \notin Causes \cup {"None"}
  BY DEF Public, Own, Dispositions, Unsent, Ambiguous, Causes, FatalReasons

\* A machine call leaves the life of the machine alone, or ends it.
LEMMA LifeStep == ASSUME [Next]_vars PROVE UNCHANGED lifeVars \/ (dead' /\ cause' \in Causes)
<1> DEFINE Goal == UNCHANGED lifeVars \/ (dead' /\ cause' \in Causes)
<1> HIDE DEF Goal
<1> SUFFICES Goal
  BY DEF Goal
<1>1. ASSUME NEW why \in Causes, Die(why) PROVE Goal
  BY <1>1 DEF Die, Goal
<1>2. CASE UNCHANGED lifeVars
  BY <1>2 DEF Goal
<1>3. CASE RouteResponse
  <2>1. ASSUME NEW reason \in FatalReasons, RouteFatal(reason) PROVE Goal
    BY <2>1, <1>1 DEF RouteFatal, Causes
  <2>2. ASSUME NEW a \in Own, RouteUnmatched(a) PROVE Goal
    BY <2>2, <1>1 DEF RouteUnmatched, Causes
  <2>3. ASSUME NEW a \in Own, NEW success \in BOOLEAN,
               RoutePendingResponse(a, success) \/ RouteRecordResponse(a, success)
        PROVE  Goal
    BY <2>3, <1>2 DEF RoutePendingResponse, RouteRecordResponse
  <2> QED BY <1>3, <2>1, <2>2, <2>3 DEF RouteResponse
<1>4. CASE RouteEvent
  <2>1. ASSUME NEW a, NEW e, RouteListEvent(a, e) \/ RouteListDrain(a, e)
        PROVE  UNCHANGED lifeVars
    BY <2>1 DEF RouteListEvent, RouteListDrain
  <2>2. ASSUME NEW f, NEW e, RouteFollowEvent(f, e) PROVE UNCHANGED lifeVars
    BY <2>2 DEF RouteFollowEvent
  <2>3. ASSUME NEW e, RouteOrdinaryEvent(e) PROVE UNCHANGED lifeVars
    BY <2>3 DEF RouteOrdinaryEvent
  <2>4. ASSUME NEW a, RouteListLate(a) \/ RouteQuarantined(a) PROVE UNCHANGED lifeVars
    BY <2>4 DEF RouteListLate, RouteQuarantined
  <2> QED BY <1>4, <1>2, <2>1, <2>2, <2>3, <2>4 DEF RouteEvent
<1>5. CASE PendingStep
  BY <1>5, <1>2 DEF PendingStep, Admit, CommitWrite, AbortNotSent, Abandon,
                    AdoptFollow, CloseFollow, AdoptList, CloseList
<1>6. CASE ConsumerStep
  BY <1>6, <1>2 DEF ConsumerStep, Subscribe, Close, CloseSub, CloseFollowBranch,
                    CloseListBranch, TakeItem, TakeEmpty
<1>7. ASSUME NEW reason \in KillReasons, Kill(reason) PROVE Goal
  BY <1>7, <1>1 DEF Kill, KillReasons, Causes
<1>8. CASE Expire
  BY <1>8, <1>1, <1>2 DEF Expire, Causes
<1>9. CASE Tick
  BY <1>9, <1>2 DEF Tick
<1>10. CASE UNCHANGED vars
  BY <1>10, <1>2 DEF vars
<1> QED BY <1>3, <1>4, <1>5, <1>6, <1>7, <1>8, <1>9, <1>10 DEF Next

\* The machine's own cause is never the application's Close.
LEMMA CauseStep ==
    ASSUME cause \in Causes \cup {"None"}, [Next]_vars
    PROVE  cause' \in Causes \cup {"None"}
  BY LifeStep DEF lifeVars

LEMMA DeathOnce ==
    ASSUME [Next]_vars PROVE (dead => dead') /\ (~dead /\ dead' => cause' \in Causes)
  BY LifeStep DEF lifeVars

\* A step of a alone, to place, with disposition d and result r.
LEMMA PlaceStep ==
    ASSUME SessionInductive, [Next]_vars, NEW a \in Own,
           NEW place \in Places, NEW d \in Dispositions, NEW r \in Results,
           pc' = [pc EXCEPT ![a] = place],
           disp' = [disp EXCEPT ![a] = d], disp[a] \in {"none", d},
           result' = [result EXCEPT ![a] = r],
           PlacePart(a)',
           r \in {"notSent", "closed"} /\ a \in Public => d \notin Ambiguous \cup {"complete"},
           closer' = closer,
           root' = "Closed" => root = "Closed" \/ d = "partialClosed"
    PROVE  SessionInductive'
<1> USE DEF SessionInductive
<1>1. /\ pc' \in [Own -> Places] /\ disp' \in [Own -> Dispositions]
      /\ result' \in [Own -> Results]
  OBVIOUS
<1>2. cause' \in Causes \cup {"None"}
  BY CauseStep
<1>3. \A b \in Own : PlacePart(b)'
  BY DEF PlacePart
<1>4. RetrySafe'
  BY PlaceTypes DEF RetrySafe
<1>5. CauseHonest'
  <2>1. CASE root = "Closed" /\ closer = "open"
    <3>1. PICK b \in Own : disp[b] = "partialClosed"
      BY <2>1 DEF CauseHonest
    <3>2. disp'[b] = "partialClosed"
      BY <3>1
    <3> QED BY <3>2 DEF CauseHonest
  <2>2. CASE root = "Closed" /\ closer # "open"
    BY <2>2 DEF CauseHonest
  <2>3. CASE root # "Closed"
    BY <2>3 DEF CauseHonest
  <2> QED BY <2>1, <2>2, <2>3
<1> QED BY <1>1, <1>2, <1>3, <1>4, <1>5

\* A step of a to place that leaves its disposition and its result.
LEMMA GotoStep ==
    ASSUME SessionInductive, [Next]_vars, NEW a \in Own, NEW place \in Places,
           Goto(a, place), pc[a] # "returned", UNCHANGED disp,
           PlacePart(a)', closer' = closer,
           root' = "Closed" => root = "Closed" \/ disp[a] = "partialClosed"
    PROVE  SessionInductive'
<1>1. disp[a] \in Dispositions /\ result[a] \in Results /\ result[a] = "none"
  BY DEF SessionInductive, PlacePart
<1>2. disp' = [disp EXCEPT ![a] = disp[a]] /\ result' = [result EXCEPT ![a] = result[a]]
  BY DEF SessionInductive, Goto
<1> QED BY <1>1, <1>2, PlaceStep DEF Goto

\* A step in which the call a returns r.
LEMMA ReturnStep ==
    ASSUME SessionInductive, [Next]_vars, NEW a \in Own, NEW r \in Results,
           Return(a, r), UNCHANGED disp, closer' = closer,
           r \in {"notSent", "closed"} /\ a \in Public =>
               disp[a] \notin Ambiguous \cup {"complete"},
           root' = "Closed" => root = "Closed" \/ disp[a] = "partialClosed"
    PROVE  SessionInductive'
<1>1. disp[a] \in Dispositions /\ pc \in [Own -> Places]
  BY DEF SessionInductive
<1>2. disp' = [disp EXCEPT ![a] = disp[a]]
  BY DEF SessionInductive
<1>3. pc'[a] = "returned" /\ "returned" \in Places
  BY <1>1 DEF Return, Places
<1>4. PlacePart(a)'
  BY <1>3 DEF PlacePart
<1> QED BY <1>1, <1>2, <1>3, <1>4, PlaceStep DEF Return

\* A step of another goroutine: it leaves the calls alone.
LEMMA WorkerStep ==
    ASSUME SessionInductive, [Next]_vars, UNCHANGED <<pc, disp, result>>,
           closer # "open" => closer' # "open",
           root' = "Closed" => root = "Closed" \/ closer' # "open"
    PROVE  SessionInductive'
<1>1. cause' \in Causes \cup {"None"}
  BY CauseStep DEF SessionInductive
<1>2. CauseHonest' /\ RetrySafe'
  BY DEF SessionInductive, CauseHonest, RetrySafe
<1>3. \A a \in Own : PlacePart(a)'
  BY DEF SessionInductive, PlacePart
<1> QED BY <1>1, <1>2, <1>3 DEF SessionInductive

LEMMA SessionStart == SessionInit => SessionInductive
  BY PlaceTypes DEF SessionInit, Init, SessionInductive, PlacePart, RetrySafe, CauseHonest,
     Places, Results

\* Every step of a call's goroutine preserves the invariant.
LEMMA DispatchStep ==
    ASSUME SessionInductive, NEW a \in Own, Begin(a) \/ Dispatch(a)
    PROVE  SessionInductive'
<1>1. [Next]_vars
  BY DispatchCalls
<1>2. PlacePart(a) /\ pc[a] \in Places /\ disp[a] \in Dispositions /\ result[a] \in Results
  BY DEF SessionInductive
<1>3. /\ {"closed", "notSent", "unknown", "responded", "ok", "nil", "failed"} \subseteq Results
      /\ {"queued", "entering", "writing", "poisoning", "wrote", "awaiting",
          "contradicted", "contradictedList", "contradiction", "dying", "teardown",
          "settling", "settlingBranch", "draining"} \subseteq Places
  BY DEF Results, Places
<1>4. /\ pc \in [Own -> Places] /\ disp \in [Own -> Dispositions]
  BY DEF SessionInductive
<1>5. ASSUME NEW place \in Places \ {"idle", "returned"}, Goto(a, place)
      PROVE  pc'[a] = place /\ result'[a] = result[a]
  BY <1>4, <1>5 DEF Goto
<1>6. CASE Begin(a)
  <2>1. pc[a] = "idle" /\ Alone /\ disp[a] = "none"
    BY <1>6, <1>2 DEF Begin, PlacePart
  <2>2. CASE Refused(a) /\ a \in Public
    BY <2>1, <2>2, <1>1, <1>3, PlaceTypes, ReturnStep DEF Refused, Alone, workers,
       effectVars, Public
  <2>3. CASE pc' = [pc EXCEPT ![a] = "queued"] /\ UNCHANGED result
    <3>1. pc'[a] = "queued" /\ result' = [result EXCEPT ![a] = result[a]]
          /\ disp' = [disp EXCEPT ![a] = disp[a]] /\ UNCHANGED <<closer, root>>
      BY <1>4, <2>1, <2>3 DEF SessionInductive, Alone, workers, effectVars
    <3>2. PlacePart(a)' /\ result[a] = "none"
      BY <3>1, <2>1, <2>3, <1>2 DEF PlacePart, Alone
    <3> QED BY <3>1, <3>2, <2>1, <2>3, <1>1, <1>2, <1>3, PlaceStep
  <2> QED BY <1>6, <2>2, <2>3 DEF Begin
<1>7. CASE Unqueue(a)
  <2>1. pc[a] = "queued" /\ Alone /\ disp[a] = "none" /\ result[a] = "none"
        /\ UNCHANGED <<closer, root, disp>>
    BY <1>7, <1>2 DEF Unqueue, PlacePart, Alone, workers, effectVars
  <2>2. CASE a \in Pings /\ Goto(a, "dying")
    <3>1. PlacePart(a)'
      BY <2>1, <2>2, <1>3, <1>5 DEF PlacePart, Public
    <3> QED BY <2>1, <2>2, <3>1, <1>1, <1>3, GotoStep
  <2>3. ASSUME NEW r \in Results, Return(a, r) PROVE SessionInductive'
    BY <2>1, <2>3, <1>1, PlaceTypes, ReturnStep
  <2> QED BY <1>7, <2>2, <2>3, <1>3 DEF Unqueue, Refused
<1>8. CASE Register(a)
  <2>1. pc[a] = "queued" /\ disp[a] = "none" /\ result[a] = "none"
        /\ UNCHANGED <<closer, root, disp>>
    BY <1>8, <1>2 DEF Register, PlacePart, workers
  <2>2. CASE a \in Pings /\ Goto(a, "dying")
    <3>1. PlacePart(a)'
      BY <2>1, <2>2, <1>3, <1>5 DEF PlacePart, Public
    <3> QED BY <2>1, <2>2, <3>1, <1>1, <1>3, GotoStep
  <2>3. ASSUME NEW r \in Results, Return(a, r) PROVE SessionInductive'
    BY <2>1, <2>3, <1>1, PlaceTypes, ReturnStep
  <2>4. CASE pc' = [pc EXCEPT ![a] = "entering"] /\ UNCHANGED result
    <3>1. pc'[a] = "entering" /\ result' = [result EXCEPT ![a] = result[a]]
          /\ disp' = [disp EXCEPT ![a] = disp[a]]
      BY <1>4, <2>1, <2>4 DEF SessionInductive
    <3>2. PlacePart(a)'
      BY <3>1, <2>1, <2>4 DEF PlacePart
    <3> QED BY <3>1, <3>2, <2>1, <2>4, <1>1, <1>2, <1>3, PlaceStep
  <2> QED BY <1>8, <2>2, <2>3, <2>4, <1>3 DEF Register
<1>9. CASE EnterWrite(a) \/ WriteReturns(a)
  <2>1. pc[a] \in {"entering", "writing"} /\ disp[a] = "none" /\ result[a] = "none"
        /\ UNCHANGED <<closer, root>>
    BY <1>9, <1>2 DEF EnterWrite, WriteReturns, PlacePart, workers, effectVars
  <2>2. ASSUME NEW d \in Dispositions \ {"none"}, disp' = [disp EXCEPT ![a] = d],
               NEW place \in {"wrote", "poisoning"}, Goto(a, place),
               place = "poisoning" => d \in {"notSent", "partial"}
        PROVE  SessionInductive'
    <3>1. disp'[a] = d /\ pc'[a] = place /\ result'[a] = "none"
      BY <2>1, <2>2, <1>3, <1>4, <1>5
    <3>2. PlacePart(a)'
      BY <2>2, <3>1 DEF PlacePart
    <3>3. result' = [result EXCEPT ![a] = "none"] /\ "none" \in Results
      BY <2>1, <2>2 DEF Goto, SessionInductive, Results
    <3> QED BY <2>1, <2>2, <3>2, <3>3, <1>1, <1>3, PlaceStep DEF Goto
  <2>3. CASE Goto(a, "writing") /\ UNCHANGED disp
    <3>1. PlacePart(a)'
      BY <2>1, <2>3, <1>3, <1>5 DEF PlacePart
    <3> QED BY <2>1, <2>3, <3>1, <1>1, <1>3, GotoStep
  <2>4. EnterOutcomes(connClosed) \subseteq Dispositions \ {"none"}
    BY PlaceTypes DEF EnterOutcomes, Unsent
  <2>5. WriteOutcomes(connClosed) \subseteq Dispositions \ {"none"}
    BY PlaceTypes DEF WriteOutcomes, Unsent, Ambiguous
  <2>6. CASE EnterWrite(a)
    BY <2>6, <2>2, <2>3, <2>4 DEF EnterWrite
  <2>7. CASE WriteReturns(a)
    BY <2>7, <2>2, <2>5 DEF WriteReturns, Poisonous
  <2> QED BY <1>9, <2>6, <2>7
<1>10. CASE Poison(a)
  <2>1. pc[a] = "poisoning" /\ Goto(a, "wrote") /\ UNCHANGED <<closer, root, disp>>
        /\ disp[a] \in Dispositions \ {"none"} /\ result[a] = "none"
    BY <1>10, <1>2, PlaceTypes DEF Poison, PlacePart, workers, effectVars, Unsent, Ambiguous
  <2>2. PlacePart(a)'
    BY <2>1, <1>3, <1>5 DEF PlacePart
  <2> QED BY <2>1, <2>2, <1>1, <1>3, GotoStep
<1>11. CASE WriteCommitted(a)
  <2>1. pc[a] = "wrote" /\ disp[a] = "complete" /\ Goto(a, "awaiting")
        /\ UNCHANGED <<closer, root, disp>> /\ result[a] = "none"
    BY <1>11, <1>2 DEF WriteCommitted, PlacePart, workers, effectVars
  <2>2. PlacePart(a)'
    BY <2>1, <1>3, <1>5 DEF PlacePart
  <2> QED BY <2>1, <2>2, <1>1, <1>3, GotoStep
<1>12. CASE AbortUnsent(a)
  <2>1. pc[a] = "wrote" /\ disp[a] \in Unsent /\ AfterNotSent(a)
        /\ UNCHANGED <<closer, root, disp>> /\ result[a] = "none"
    BY <1>12, <1>2 DEF AbortUnsent, PlacePart, workers
  <2>2. CASE a \in Pings /\ Goto(a, "draining")
    <3>1. PlacePart(a)'
      BY <2>1, <2>2, <1>3, <1>5 DEF PlacePart, Public
    <3> QED BY <2>1, <2>2, <3>1, <1>1, <1>3, GotoStep
  <2>3. CASE (a \in Pings \/ disp[a] = "notSent") /\ Goto(a, "dying")
    <3>1. PlacePart(a)'
      BY <2>1, <2>3, <1>3, <1>5 DEF PlacePart, Public
    <3> QED BY <2>1, <2>3, <3>1, <1>1, <1>3, GotoStep
  <2>4. ASSUME NEW r \in Results, Return(a, r) PROVE SessionInductive'
    BY <2>1, <2>4, <1>1, PlaceTypes, ReturnStep
  <2> QED BY <2>1, <2>2, <2>3, <2>4, <1>3 DEF AfterNotSent
<1>13. CASE Contradicted(a) \/ ContradictedBranch(a)
  <2>1. pc[a] \in {"wrote", "contradicted", "contradictedList"} /\ disp[a] \in Unsent
        /\ UNCHANGED <<closer, root, disp>> /\ result[a] = "none"
    BY <1>13, <1>2 DEF Contradicted, ContradictedBranch, PlacePart, workers, effectVars
  <2>2. ASSUME NEW place \in {"contradicted", "contradictedList", "contradiction"},
               Goto(a, place)
        PROVE  SessionInductive'
    <3>1. PlacePart(a)'
      BY <2>1, <2>2, <1>3, <1>5 DEF PlacePart
    <3> QED BY <2>1, <2>2, <3>1, <1>1, <1>3, GotoStep
  <2> QED BY <1>13, <2>2 DEF Contradicted, ContradictedBranch
<1>14. CASE ContradictionKill(a)
  <2>1. pc[a] \in {"contradicted", "contradiction"} /\ disp[a] \in Unsent
        /\ Goto(a, "teardown") /\ UNCHANGED <<closer, disp>> /\ result[a] = "none"
        /\ (root' = "Closed" => root = "Closed")
    BY <1>14, <1>2 DEF ContradictionKill, ContradictionCause, PlacePart, workers
  <2>2. PlacePart(a)'
    BY <2>1, <1>3, <1>5, PlaceTypes DEF PlacePart
  <2> QED BY <2>1, <2>2, <1>1, <1>3, GotoStep
<1>15. CASE CallDies(a)
  <2>1. /\ pc[a] \in {"dying", "wrote"} /\ Goto(a, "teardown") /\ UNCHANGED <<closer, disp>>
        /\ result[a] = "none" /\ (a \in Public => disp[a] \in Unsent \cup Ambiguous)
    BY <1>15, <1>2 DEF CallDies, PlacePart, workers, Unsent
  <2>2. root' = "Closed" => root = "Closed" \/ disp[a] = "partialClosed"
    BY <1>15 DEF CallDies, DieLocked, CallCause, effectVars
  <2>3. PlacePart(a)'
    BY <2>1, <1>3, <1>5 DEF PlacePart
  <2> QED BY <2>1, <2>2, <2>3, <1>1, <1>3, GotoStep
<1>16. CASE CallTeardown(a)
  <2>1. pc[a] = "teardown" /\ UNCHANGED <<closer, root, disp>> /\ result[a] = "none"
    BY <1>16, <1>2 DEF CallTeardown, PlacePart, workers, effectVars
  <2>2. CASE disp[a] \in Ambiguous /\ Goto(a, "settling")
    <3>1. PlacePart(a)'
      BY <2>1, <2>2, <1>3, <1>5 DEF PlacePart
    <3> QED BY <2>1, <2>2, <3>1, <1>1, <1>3, GotoStep
  <2>3. CASE disp[a] \notin Ambiguous /\ Return(a, IF a \in Pings THEN "failed" ELSE "notSent")
    <3>1. a \in Public => disp[a] \in Unsent
      BY <2>1, <2>3, <1>2 DEF PlacePart
    <3> QED BY <2>1, <2>3, <3>1, <1>1, <1>3, PlaceTypes, ReturnStep
  <2> QED BY <1>16, <2>2, <2>3 DEF CallTeardown
<1>17. CASE SettleWrite(a)
  <2>1. pc[a] = "settling" /\ disp[a] \in Ambiguous
        /\ UNCHANGED <<closer, root, disp>> /\ result[a] = "none"
    BY <1>17, <1>2 DEF SettleWrite, PlacePart, workers
  <2>2. CASE Goto(a, "settlingBranch")
    <3>1. PlacePart(a)'
      BY <2>1, <2>2, <1>3, <1>5 DEF PlacePart
    <3> QED BY <2>1, <2>2, <3>1, <1>1, <1>3, GotoStep
  <2>3. ASSUME NEW r \in {"failed", "unknown"}, Return(a, r) PROVE SessionInductive'
    BY <2>1, <2>3, <1>1, <1>3, ReturnStep
  <2> QED BY <1>17, <2>2, <2>3 DEF SettleWrite
<1>18. CASE SettleBranch(a) \/ Answered(a)
  <2>1. UNCHANGED <<closer, root, disp>>
    BY <1>18 DEF SettleBranch, Answered, workers, effectVars
  <2>2. ASSUME NEW r \in {"unknown", "responded", "ok"}, Return(a, r)
        PROVE  SessionInductive'
    BY <2>1, <2>2, <1>1, <1>3, ReturnStep
  <2> QED BY <1>18, <2>2 DEF SettleBranch, Answered
<1>19. CASE PingAnswered(a) \/ GiveUp(a)
  <2>1. pc[a] = "awaiting" /\ UNCHANGED <<closer, root, disp>> /\ result[a] = "none"
    BY <1>19, <1>2 DEF PingAnswered, GiveUp, Alone, PlacePart, workers, effectVars
  <2>2. CASE a \notin Public /\ Goto(a, "dying")
    <3>1. PlacePart(a)'
      BY <2>1, <2>2, <1>3, <1>5 DEF PlacePart
    <3> QED BY <2>1, <2>2, <3>1, <1>1, <1>3, GotoStep
  <2>3. ASSUME NEW r \in {"unknown", "nil"}, Return(a, r) PROVE SessionInductive'
    BY <2>1, <2>3, <1>1, <1>3, ReturnStep
  <2>4. CASE PingAnswered(a)
    <3>1. a \notin Public
      BY <2>4, KindsAssumption DEF PingAnswered, Public
    <3> QED BY <2>4, <3>1, <2>2, <2>3 DEF PingAnswered
  <2>5. CASE GiveUp(a)
    BY <2>5, <2>2, <2>3 DEF GiveUp
  <2> QED BY <1>19, <2>4, <2>5
<1>20. CASE PingDrained(a)
  <2>1. UNCHANGED <<closer, root, disp>> /\ Return(a, "nil")
    BY <1>20 DEF PingDrained, Alone, workers, effectVars
  <2> QED BY <2>1, <1>1, <1>3, ReturnStep
<1> QED BY <1>6, <1>7, <1>8, <1>9, <1>10, <1>11, <1>12, <1>13, <1>14, <1>15, <1>16,
           <1>17, <1>18, <1>19, <1>20 DEF Dispatch, Proceed

\* The application's Close and the paths that find somebody else's failure
\* are told apart: only the former commits the cause of a local close.
LEMMA WorkerSteps ==
    ASSUME SessionInductive, WorkerMoves PROVE SessionInductive'
<1>1. [Next]_vars
  BY WorkerCalls
<1>2. cause' \in Causes \cup {"None"}
  BY <1>1, CauseStep DEF SessionInductive
<1>3. ASSUME ApplyEffects PROVE root' = "Closed" => root = "Closed"
  <2>1. CASE dead' /\ ~Terminated
    BY <1>3, <1>2, <2>1, PlaceTypes DEF ApplyEffects
  <2>2. CASE ~(dead' /\ ~Terminated)
    BY <1>3, <2>2 DEF ApplyEffects
  <2> QED BY <2>1, <2>2
<1>4. CASE \E b \in Branches : CloseHandle(b)
  BY <1>4, <1>1, WorkerStep DEF CloseHandle, callers, callVars, workers, effectVars
<1>5. CASE ReadReturns
  BY <1>5, <1>1, WorkerStep DEF ReadReturns, readerFrame, callers, callVars, effectVars
<1>6. CASE RouteOne
  <2>1. root' = "Closed" => root = "Closed"
    BY <1>6, <1>3 DEF RouteOne, effectVars
  <2> QED BY <1>6, <2>1, <1>1, WorkerStep DEF RouteOne, readerFrame, callers, callVars
<1>7. CASE ReaderFails
  <2>1. root' = "Closed" => root = "Closed"
    BY <1>7 DEF ReaderFails, ReaderYields, DieLocked, effectVars
  <2>2. UNCHANGED readerFrame
    BY <1>7 DEF ReaderFails
  <2> QED BY <2>1, <2>2, <1>1, WorkerStep DEF readerFrame, callers, callVars
<1>8. CASE ExpiryLoop
  <2>1. root' = "Closed" => root = "Closed"
    BY <1>8, <1>3 DEF ExpiryLoop, ExpiryLooks, ExpiryWakes, ExpiryFires,
                      ExpiryTearsDown, effectVars
  <2>2. UNCHANGED expiryFrame
    BY <1>8 DEF ExpiryLoop, ExpiryLooks, ExpiryWakes, ExpiryFires, ExpiryTearsDown
  <2> QED BY <2>1, <2>2, <1>1, WorkerStep DEF expiryFrame, callers, callVars
<1>9. CASE KeepaliveStops
  BY <1>9, <1>1, WorkerStep DEF KeepaliveStops, effectVars, workers
<1>10. CASE CloseClient \/ CloserTearsDown
  <2>1. closer' # "open" /\ UNCHANGED closerFrame
    BY <1>10 DEF CloseClient, CloserTearsDown
  <2> QED BY <2>1, <1>1, WorkerStep DEF closerFrame, callers, callVars
<1>11. CASE CloseDone
  BY <1>11, <1>1, WorkerStep DEF CloseDone, callers, callVars, effectVars
<1>12. CASE Clock
  BY <1>12, <1>1, WorkerStep DEF Clock, sessionVars, callVars, effectVars, workers
<1> QED BY <1>4, <1>5, <1>6, <1>7, <1>8, <1>9, <1>10, <1>11, <1>12 DEF WorkerMoves

LEMMA SessionStep ==
    ASSUME SessionInductive, [SessionNext]_allVars PROVE SessionInductive'
<1>1. CASE UNCHANGED allVars
  <2>1. [Next]_vars /\ UNCHANGED <<pc, disp, result, closer, root>>
    BY <1>1 DEF allVars, sessionVars, callVars, workers, effectVars
  <2> QED BY <2>1, WorkerStep
<1> QED BY <1>1, SessionMoves, DispatchStep, WorkerSteps

\* However the goroutines of a session interleave, the disposition of a write,
\* the place of its call and the root cause stay consistent.
THEOREM SessionInvariant == SessionSpec => []SessionInductive
  BY SessionStart, SessionStep, PTL DEF SessionSpec

\* A caller that is told that its action was not sent may repeat it.
THEOREM RetryIsSafe == SessionSpec => []RetrySafe
<1>1. SessionInductive => RetrySafe
  BY DEF SessionInductive
<1> QED BY <1>1, SessionInvariant, PTL

\* ErrClosed is the root cause of a session that failed only through a write
\* of some bytes that met a connection already closed.
THEOREM CauseIsHonest == SessionSpec => []CauseHonest
<1>1. SessionInductive => CauseHonest
  BY DEF SessionInductive
<1> QED BY <1>1, SessionInvariant, PTL

LEMMA CauseKept ==
    ASSUME root # "None", [SessionNext]_allVars PROVE root' = root
<1>1. ASSUME ApplyEffects PROVE root' = root
  BY <1>1 DEF ApplyEffects, Terminated
<1>2. ASSUME NEW why, DieLocked(why) PROVE root' = root
  BY <1>2 DEF DieLocked, Terminated, effectVars
<1>3. ASSUME NEW a \in Own, Begin(a) \/ Dispatch(a) PROVE root' = root
  <2>1. CASE Begin(a) \/ Unqueue(a) \/ PingAnswered(a) \/ PingDrained(a)
    BY <2>1 DEF Begin, Unqueue, PingAnswered, PingDrained, Alone, effectVars
  <2>2. CASE Register(a) \/ AbortUnsent(a) \/ SettleWrite(a) \/ GiveUp(a)
    BY <2>2 DEF Register, AbortUnsent, SettleWrite, GiveUp
  <2>3. CASE EnterWrite(a) \/ WriteReturns(a) \/ Poison(a) \/ WriteCommitted(a)
    BY <2>3 DEF EnterWrite, WriteReturns, Poison, WriteCommitted, effectVars
  <2>4. CASE \/ Contradicted(a) \/ ContradictedBranch(a) \/ CallTeardown(a)
             \/ SettleBranch(a) \/ Answered(a)
    BY <2>4 DEF Contradicted, ContradictedBranch, CallTeardown, SettleBranch,
                Answered, effectVars
  <2>5. CASE ContradictionKill(a) \/ CallDies(a)
    BY <2>5, <1>2 DEF ContradictionKill, ContradictionCause, CallDies, Terminated
  <2> QED BY <1>3, <2>1, <2>2, <2>3, <2>4, <2>5 DEF Dispatch, Proceed
<1>4. ASSUME NEW b \in Branches, CloseHandle(b) PROVE root' = root
  BY <1>4 DEF CloseHandle, effectVars
<1>5. CASE RouteOne \/ ExpiryLoop
  BY <1>5, <1>1 DEF RouteOne, ExpiryLoop, ExpiryLooks, ExpiryWakes, ExpiryFires,
                    ExpiryTearsDown, effectVars
<1>6. CASE ReaderFails \/ CloseClient
  BY <1>6, <1>2 DEF ReaderFails, ReaderYields, CloseClient, effectVars
<1>7. CASE ReadReturns \/ KeepaliveStops \/ CloserTearsDown \/ CloseDone
  BY <1>7 DEF ReadReturns, KeepaliveStops, CloserTearsDown, CloseDone, effectVars
<1>8. CASE Clock \/ UNCHANGED allVars
  BY <1>8 DEF Clock, allVars, sessionVars, effectVars
<1> QED BY <1>3, <1>4, <1>5, <1>6, <1>7, <1>8 DEF SessionNext

\* Of the paths that race to end a session the first decides its root cause.
THEOREM CauseIsStable == SessionSpec => StableCause
<1>1. [SessionNext]_allVars => (root # "None" => root' = root)
  BY CauseKept
<1>2. [SessionNext]_allVars => [root # "None" => root' = root]_allVars
  BY <1>1
<1> QED BY <1>2, PTL DEF SessionSpec, StableCause

----------------------------------------------------------------------------
(* What a machine call does to the tickets                                 *)

SameOpen(a) ==
    /\ a \in committed' <=> a \in committed
    /\ a \in folOpen' <=> a \in folOpen
    /\ a \in lstOpen' <=> a \in lstOpen

TicketSame(a) ==
    pstate'[a] = pstate[a] /\ outcome'[a] = outcome[a] /\ SameOpen(a)

\* The end of a wait that the ticket's own call does not choose.
TicketEnds(a) ==
    /\ Waiting(a) /\ pstate'[a] = Completed(a)
    /\ outcome'[a] \in {"success", "error", "dead"}
    /\ a \in committed' <=> a \in committed
    /\ a \in folOpen' <=> a \in folOpen
    /\ a \in lstOpen' => a \in lstOpen
    /\ IF outcome'[a] = "error" THEN a \notin lstOpen'
       ELSE a \in lstOpen => a \in lstOpen'

\* A ticket that has an outcome and waits no more.
TicketSettles(a) ==
    /\ pstate'[a] = Completed(a) /\ outcome'[a] # "none"
    /\ outcome'[a] \in GivenUp => a \in committed' /\ a \notin folOpen' \cup lstOpen'
    /\ outcome'[a] = "error" => a \notin lstOpen'

TicketTypes(p, o) ==
    /\ p \in [Own -> {"none", "reserved", "inFlight", "completed", "released"}]
    /\ o \in [Own -> {"none", "success", "error", "dead", "aborted", "abandoned"}]

LEMMA TicketTyped ==
    BranchInductive => /\ TicketTypes(pstate, outcome) /\ folOpen \subseteq Follows
                       /\ lstOpen \subseteq Lists /\ list \in [Lists -> ListType]
                       /\ fol \in [Follows -> FollowType]
  BY DEF BranchInductive, BranchTypeOK, SlotInductive, SlotTypeOK, TicketTypes

LEMMA SettlesKeeps ==
    ASSUME NEW a \in Own, TicketSettles(a)
    PROVE  TicketPart(a)'
<1>1. /\ pstate'[a] = "released" <=> a \in committed' /\ a \notin folOpen' \cup lstOpen'
      /\ pstate'[a] \in {"completed", "released"}
  BY DEF TicketSettles, Completed
<1> QED BY <1>1 DEF TicketSettles, TicketPart, Waiting, Admitted

LEMMA SameKeeps ==
    ASSUME NEW a \in Own, TicketPart(a), TicketSame(a)
    PROVE  TicketPart(a)'
  BY DEF TicketSame, SameOpen, TicketPart, Waiting, Admitted

LEMMA EndsSettles ==
    ASSUME NEW a, TicketEnds(a) PROVE TicketSettles(a)
  BY DEF TicketEnds, TicketSettles, GivenUp

\* A ticket that waits no more has one of the outcomes, and keeps it.
LEMMA OutcomeFacts ==
    ASSUME TicketInductive, NEW a \in Own
    PROVE  /\ outcome[a] = "none" <=> ~Admitted(a) \/ Waiting(a)
           /\ Waiting(a) => Admitted(a) /\ ~dead
           /\ outcome[a] \in {"none", "success", "error", "dead", "aborted", "abandoned"}
           /\ pstate[a] \in {"none", "reserved", "inFlight", "completed", "released"}
  BY TicketTyped
     DEF TicketInductive, TicketPart, BranchInductive, SlotInductive, PendingPart, Admitted,
         Waiting, TicketTypes

----------------------------------------------------------------------------
(* The calls that resolve one ticket                                       *)

\* One ticket changes its state, and at most its own outcome and branch.
LEMMA OthersSame ==
    ASSUME TicketInductive, NEW a \in Own, NEW p, NEW o,
           pstate' = [pstate EXCEPT ![a] = p], outcome' = [outcome EXCEPT ![a] = o],
           \A x \in Own \ {a} : SameOpen(x)
    PROVE  /\ \A x \in Own \ {a} : TicketSame(x)
           /\ pstate'[a] = p /\ outcome'[a] = o
  BY TicketTyped DEF TicketInductive, TicketTypes, TicketSame

LEMMA OwnCallTicket ==
    ASSUME TicketInductive, NEW a \in Own, OwnCall(a)
    PROVE  TicketPart(a)' /\ \A x \in Own \ {a} : TicketSame(x)
<1> DEFINE Goal == TicketPart(a)' /\ \A x \in Own \ {a} : TicketSame(x)
<1>0. /\ TicketPart(a) /\ TicketTypes(pstate, outcome) /\ PendingPart(a)
      /\ folOpen \subseteq Follows /\ lstOpen \subseteq Lists
      /\ a \in Follows => FollowPart(a)
      /\ a \in Lists => HeldListPart(a) /\ ListPart(a)
  BY TicketTyped DEF TicketInductive, BranchInductive, SlotInductive
<1>1. outcome = [outcome EXCEPT ![a] = outcome[a]]
  BY <1>0 DEF TicketTypes
<1> HIDE DEF Goal
<1>2. CASE Admit(a)
  <2>1. pstate' = [pstate EXCEPT ![a] = "reserved"] /\ UNCHANGED <<outcome, committed>>
        /\ ~Admitted(a) /\ folOpen' = folOpen \cup ({a} \cap Follows)
        /\ lstOpen' = lstOpen \cup ({a} \cap Lists)
    BY <1>2 DEF Admit, Admitted
  <2>2. \A x \in Own \ {a} : SameOpen(x)
    BY <2>1 DEF SameOpen
  <2>3. (\A x \in Own \ {a} : TicketSame(x)) /\ pstate'[a] = "reserved" /\ outcome'[a] = outcome[a]
    BY <1>1, <2>1, <2>2, OthersSame
  <2>4. TicketPart(a)'
    BY <1>0, <2>1, <2>3 DEF TicketPart, PendingPart, Waiting, Admitted, GivenUp
  <2> QED BY <2>3, <2>4 DEF Goal
<1>3. CASE CommitWrite(a)
  <2> DEFINE p == IF pstate[a] = "reserved" THEN "inFlight" ELSE Completed(a)
  <2>1. /\ pstate' = [pstate EXCEPT ![a] = p] /\ UNCHANGED <<outcome, folOpen, lstOpen>>
        /\ committed' = committed \cup {a} /\ pstate[a] \in {"reserved", "completed"}
    BY <1>3 DEF CommitWrite
  <2>2. \A x \in Own \ {a} : SameOpen(x)
    BY <2>1 DEF SameOpen
  <2>3. (\A x \in Own \ {a} : TicketSame(x)) /\ pstate'[a] = p /\ outcome'[a] = outcome[a]
    <3> HIDE DEF p
    <3> QED BY <1>1, <2>1, <2>2, OthersSame
  <2>4. CASE pstate[a] = "reserved"
    BY <1>0, <2>1, <2>3, <2>4 DEF Goal, TicketPart, PendingPart, Waiting, Admitted, GivenUp
  <2>5. CASE pstate[a] = "completed"
    <3>1. outcome[a] # "none" /\ outcome[a] \notin GivenUp
          /\ (outcome[a] = "error" => a \notin lstOpen)
      BY <1>0, <2>5 DEF TicketPart, Waiting, Admitted
    <3>2. TicketSettles(a)
      BY <2>1, <2>3, <2>5, <3>1 DEF TicketSettles
    <3> QED BY <2>3, <3>2, SettlesKeeps DEF Goal
  <2> QED BY <2>1, <2>4, <2>5
<1>4. CASE AbortNotSent(a) \/ Abandon(a)
  <2>0. committed \subseteq committed' /\ a \in committed'
    BY <1>0, <1>4 DEF AbortNotSent, Abandon, TicketPart
  <2>1. /\ pstate' = [pstate EXCEPT ![a] = Completed(a)]
        /\ ReleaseFollow(a) /\ lstOpen' = lstOpen \ {a} /\ committed' \subseteq committed \cup {a}
    BY <1>4 DEF AbortNotSent, Abandon
  <2>2. \E o : outcome' = [outcome EXCEPT ![a] = o] /\ o # "none"
    <3>1. CASE pstate[a] = "reserved" \/ Abandon(a)
      BY <1>4, <3>1 DEF AbortNotSent, Abandon
    <3>2. CASE AbortNotSent(a) /\ pstate[a] # "reserved"
      <4>1. UNCHANGED outcome /\ outcome[a] # "none"
        BY <3>2 DEF AbortNotSent
      <4> QED BY <1>1, <4>1
    <3> QED BY <1>4, <3>1, <3>2
  <2>3. a \notin folOpen' /\ folOpen' \subseteq folOpen /\ folOpen \subseteq folOpen' \cup {a}
    BY <2>1 DEF ReleaseFollow, folVars
  <2>4. \A x \in Own \ {a} : SameOpen(x)
    BY <2>0, <2>1, <2>3 DEF SameOpen
  <2>5. PICK o : outcome' = [outcome EXCEPT ![a] = o] /\ o # "none"
    BY <2>2
  <2>6. (\A x \in Own \ {a} : TicketSame(x)) /\ pstate'[a] = Completed(a) /\ outcome'[a] = o
    BY <2>1, <2>4, <2>5, OthersSame
  <2>7. TicketSettles(a)
    BY <2>0, <2>1, <2>3, <2>5, <2>6 DEF TicketSettles
  <2> QED BY <2>6, <2>7, SettlesKeeps DEF Goal
<1>5. CASE \/ a \in Follows /\ (AdoptFollow(a) \/ CloseFollow(a))
           \/ a \in Lists /\ (AdoptList(a) \/ CloseList(a))
  <2>1. /\ pstate' = [pstate EXCEPT ![a] = Completed(a)] /\ UNCHANGED <<outcome, committed>>
    BY <1>5 DEF AdoptFollow, CloseFollow, AdoptList, CloseList
  <2>2. Admitted(a) /\ ~Waiting(a) /\ pstate[a] # "released"
    <3>1. a \in folOpen \cup lstOpen
      BY <1>5 DEF AdoptFollow, CloseFollow, AdoptList, CloseList
    <3>2. Admitted(a) /\ (Waiting(a) \/ pstate[a] # "released")
      BY <1>0, <3>1 DEF FollowPart, HeldListPart, TicketPart
    <3>3. ~Waiting(a)
      <4>1. a \in Lists /\ CloseList(a) => dead
        BY DEF CloseList
      <4>2. AdoptFollow(a) \/ AdoptList(a) => outcome[a] = "success"
        BY DEF AdoptFollow, AdoptList
      <4>3. CloseFollow(a) => pstate[a] = "completed"
        BY DEF CloseFollow
      <4> QED BY <1>0, <1>5, <4>1, <4>2, <4>3 DEF PendingPart, Waiting
    <3> QED BY <3>2, <3>3
  <2>3. \A x \in Own \ {a} : SameOpen(x)
    BY <1>5 DEF AdoptFollow, CloseFollow, AdoptList, CloseList, ReleaseFollow, SameOpen
  <2>4. /\ \A x \in Own \ {a} : TicketSame(x)
        /\ pstate'[a] = Completed(a) /\ outcome'[a] = outcome[a]
    BY <1>1, <2>1, <2>3, OthersSame
  <2>5. TicketSettles(a)
    <3>1. outcome[a] # "none" /\ outcome[a] \notin GivenUp
          /\ (outcome[a] = "error" => a \notin lstOpen)
      BY <1>0, <2>2 DEF TicketPart
    <3>2. lstOpen' \subseteq lstOpen
      BY <1>5 DEF AdoptFollow, CloseFollow, AdoptList, CloseList
    <3> QED BY <2>4, <3>1, <3>2 DEF TicketSettles
  <2> QED BY <2>4, <2>5, SettlesKeeps DEF Goal
<1> QED BY <1>2, <1>3, <1>4, <1>5 DEF OwnCall, Goal
----------------------------------------------------------------------------
(* The calls that resolve no ticket of their caller                        *)

\* A ticket stays as it is or its wait ends; a list leaves its caller only when
\* it is rejected.
Shared(x) ==
    /\ TicketSame(x) \/ TicketEnds(x)
    /\ x \in lstOpen /\ x \notin lstOpen' => list'[x] = NoList

LEMMA SharedSame ==
    ASSUME UNCHANGED <<pstate, outcome, committed, folOpen, lstOpen>>
    PROVE  \A x \in Own : Shared(x)
  BY DEF Shared, TicketSame, SameOpen

LEMMA DieTickets ==
    ASSUME TicketInductive, NEW why, Die(why) PROVE \A x \in Own : Shared(x)
<1> SUFFICES ASSUME NEW x \in Own PROVE Shared(x)
  OBVIOUS
<1>1. /\ UNCHANGED <<committed, folOpen, lstOpen>>
      /\ pstate'[x] = IF Waiting(x) THEN Completed(x) ELSE pstate[x]
      /\ outcome'[x] = IF Waiting(x) THEN "dead" ELSE outcome[x]
  BY DEF Die, KilledPendings, Waiting
<1>2. TicketSame(x) \/ TicketEnds(x)
  BY <1>1 DEF TicketSame, TicketEnds, SameOpen
<1> QED BY <1>1, <1>2 DEF Shared

LEMMA RespondTickets ==
    ASSUME TicketInductive, NEW a \in Own, NEW success \in BOOLEAN,
           RoutePendingResponse(a, success)
    PROVE  \A x \in Own : Shared(x)
<1> DEFINE o == IF success THEN "success" ELSE "error"
<1>1. /\ outcome' = [outcome EXCEPT ![a] = o] /\ UNCHANGED <<committed, folOpen>>
      /\ pstate' = [pstate EXCEPT ![a] = Completed(a)] /\ a \in pendByAction
      /\ a \in Lists => /\ lstOpen' = IF success THEN lstOpen ELSE lstOpen \ {a}
                        /\ SetList(a, Responded(list[a], success))
      /\ a \notin Lists => lstOpen' = lstOpen
  BY DEF RoutePendingResponse
<1>2. Waiting(a) /\ list \in [Lists -> ListType] /\ lstOpen \subseteq Lists
  BY <1>1, TicketTyped DEF TicketInductive, BranchInductive, SlotInductive, PendingPart
<1> HIDE DEF o
<1>3. /\ \A x \in Own \ {a} : TicketSame(x)
      /\ pstate'[a] = Completed(a) /\ outcome'[a] = o
  <2>1. \A x \in Own \ {a} : SameOpen(x)
    BY <1>1 DEF SameOpen
  <2> QED BY <1>1, <2>1, OthersSame
<1>4. TicketEnds(a)
  BY <1>1, <1>2, <1>3 DEF TicketEnds, o
<1>5. \A x \in Own : x \in lstOpen /\ x \notin lstOpen' => x = a /\ a \in Lists /\ ~success
  BY <1>1, <1>2
<1>6. a \in Lists /\ ~success => list'[a] = NoList
  <2> SUFFICES ASSUME a \in Lists, ~success PROVE list'[a] = NoList
    OBVIOUS
  <2>1. list' = [list EXCEPT ![a] = Responded(list[a], success)]
    BY <1>1 DEF SetList
  <2>2. Responded(list[a], success) = NoList
    BY DEF Responded
  <2> QED BY <1>2, <2>1, <2>2
<1> QED BY <1>3, <1>4, <1>5, <1>6 DEF Shared

\* Only routing, expiry and a kill end the wait of a ticket.
LEMMA ConsumerTickets ==
    ASSUME ConsumerStep \/ Tick \/ UNCHANGED vars
    PROVE  UNCHANGED <<pstate, outcome, committed, folOpen, lstOpen>>
<1>1. CASE ConsumerStep
  BY <1>1 DEF ConsumerStep, Subscribe, Close, CloseSub, CloseFollowBranch, CloseListBranch,
              TakeItem, TakeEmpty, pendVars
<1> QED BY <1>1 DEF Tick, vars, pendVars

LEMMA SharedCalls ==
    ASSUME TicketInductive, SharedCall PROVE \A x \in Own : Shared(x)
<1>0. ASSUME UNCHANGED pendVars PROVE \A x \in Own : Shared(x)
  BY <1>0, SharedSame DEF pendVars
<1> DEFINE Goal == \A x \in Own : Shared(x)
<1> HIDE DEF Goal
<1> SUFFICES Goal
  BY DEF Goal
<1>1. CASE RouteResponse
  <2>1. ASSUME NEW reason \in FatalReasons, RouteFatal(reason) PROVE Goal
    BY <2>1, DieTickets DEF RouteFatal, Goal
  <2>2. ASSUME NEW a \in Own, RouteUnmatched(a) PROVE Goal
    BY <2>2, DieTickets DEF RouteUnmatched, Goal
  <2>3. ASSUME NEW a \in Own, NEW success \in BOOLEAN, RoutePendingResponse(a, success)
        PROVE  Goal
    BY <2>3, RespondTickets DEF Goal
  <2>4. ASSUME NEW a \in Own, NEW success \in BOOLEAN, RouteRecordResponse(a, success)
        PROVE  Goal
    BY <2>4, <1>0 DEF RouteRecordResponse, Goal
  <2> QED BY <1>1, <2>1, <2>2, <2>3, <2>4 DEF RouteResponse
<1>2. CASE RouteEvent
  <2>1. ASSUME NEW a, NEW e, RouteListEvent(a, e) \/ RouteListDrain(a, e) PROVE Goal
    BY <2>1, <1>0 DEF RouteListEvent, RouteListDrain, Goal
  <2>2. ASSUME NEW f, NEW e, RouteFollowEvent(f, e) PROVE Goal
    BY <2>2, <1>0 DEF RouteFollowEvent, Goal
  <2>3. ASSUME NEW e, RouteOrdinaryEvent(e) PROVE Goal
    BY <2>3, <1>0 DEF RouteOrdinaryEvent, Goal
  <2>4. ASSUME NEW a, RouteListLate(a) \/ RouteQuarantined(a) PROVE Goal
    BY <2>4, <1>0 DEF RouteListLate, RouteQuarantined, Goal
  <2> QED BY <1>2, <2>1, <2>2, <2>3, <2>4 DEF RouteEvent
<1>3. CASE ConsumerStep \/ Tick \/ UNCHANGED vars
  BY <1>3, ConsumerTickets, SharedSame DEF Goal
<1>4. CASE Expire
  <2>1. CASE Die("RetirementExpired")
    BY <2>1, DieTickets DEF Goal
  <2> QED BY <1>4, <2>1, <1>0 DEF Expire, Goal
<1>5. ASSUME NEW reason, Kill(reason) PROVE Goal
  BY <1>5, DieTickets DEF Kill, Goal
<1> QED BY <1>1, <1>2, <1>3, <1>4, <1>5 DEF SharedCall

----------------------------------------------------------------------------
(* What becomes of the branches                                            *)

\* A list that is gone stays so until it is admitted.
GoneStays(l) == list[l].phase = "none" => list'[l] = list[l] \/ l \in lstOpen'

\* A list leaves its caller's hands by being adopted or by going.
LeavesWell(l) == l \in lstOpen => l \in lstOpen' \/ list'[l] = NoList \/ list'[l].adopted

ListFate(l) == GoneStays(l) /\ LeavesWell(l)

LEMMA FateSame ==
    ASSUME UNCHANGED <<list, lstOpen>> PROVE \A l \in Lists : ListFate(l)
  BY DEF ListFate, GoneStays, LeavesWell

\* One list that is not gone changes, and the caller keeps all others.
LEMMA FateOne ==
    ASSUME list \in [Lists -> ListType], NEW a \in Lists, NEW v,
           list' = [list EXCEPT ![a] = v],
           \A l \in Lists \ {a} : l \in lstOpen => l \in lstOpen',
           list[a].phase = "none" => a \in lstOpen',
           a \in lstOpen => a \in lstOpen' \/ v = NoList \/ v.adopted
    PROVE  \A l \in Lists : ListFate(l)
  BY DEF ListFate, GoneStays, LeavesWell

LEMMA FateCalls ==
    ASSUME TicketInductive, [Next]_vars PROVE \A l \in Lists : ListFate(l)
<1> DEFINE Goal == \A l \in Lists : ListFate(l)
<1>0. ASSUME UNCHANGED <<list, lstOpen>> PROVE Goal
  BY <1>0, FateSame
<1>1. /\ list \in [Lists -> ListType] /\ lstOpen \subseteq Lists
      /\ \A l \in Lists : HeldListPart(l) /\ ListPart(l) /\ PendingPart(l)
  BY TicketTyped, Kinds DEF TicketInductive, BranchInductive, SlotInductive
<1>2. /\ ~NoList.adopted /\ NoList.phase = "none" /\ "none" \notin RoutingPhases
      /\ EarlyPhases \subseteq RoutingPhases
  BY DEF NoList, RoutingPhases, EarlyPhases
\* A list that changes is not gone.
<1>3. \A l \in Lists :
          /\ list[l].adopted \/ l \in lstOpen \/ Waiting(l) => list[l].phase # "none"
          /\ list[l].phase \in RoutingPhases => list[l].phase # "none"
  BY <1>1, <1>2 DEF HeldListPart, ListPart
<1> HIDE DEF Goal
<1> SUFFICES Goal
  BY DEF Goal
<1> DEFINE Sets(a) == \E v : /\ list' = [list EXCEPT ![a] = v]
                             /\ lstOpen' = lstOpen \/ (v = NoList /\ lstOpen' = lstOpen \ {a})
<1>4. ASSUME NEW a \in Lists, Sets(a), list[a].phase # "none" PROVE Goal
  <2>1. PICK v : /\ list' = [list EXCEPT ![a] = v]
                 /\ lstOpen' = lstOpen \/ (v = NoList /\ lstOpen' = lstOpen \ {a})
    BY <1>4
  <2>2. a \in lstOpen => a \in lstOpen' \/ v = NoList \/ v.adopted
    BY <2>1
  <2>3. \A l \in Lists \ {a} : l \in lstOpen => l \in lstOpen'
    BY <2>1
  <2> QED BY <1>1, <1>4, <2>1, <2>2, <2>3, FateOne DEF Goal
<1> HIDE DEF Sets
<1>5. ASSUME NEW why, Die(why) PROVE Goal
  <2>1. /\ lstOpen' = lstOpen
        /\ \A l \in Lists : list[l].phase = "none" => list'[l] = list[l]
    BY <1>5 DEF Die, KilledLists
  <2> QED BY <2>1 DEF Goal, ListFate, GoneStays, LeavesWell
<1>6. CASE RouteResponse
  <2>1. ASSUME NEW reason \in FatalReasons, RouteFatal(reason) PROVE Goal
    BY <2>1, <1>5 DEF RouteFatal
  <2>2. ASSUME NEW a \in Own, RouteUnmatched(a) PROVE Goal
    BY <2>2, <1>5 DEF RouteUnmatched
  <2>3. ASSUME NEW a \in Own, NEW success \in BOOLEAN, RoutePendingResponse(a, success)
        PROVE  Goal
    <3>1. CASE a \in Lists
      <4>1. /\ list' = [list EXCEPT ![a] = Responded(list[a], success)]
            /\ lstOpen' = IF success THEN lstOpen ELSE lstOpen \ {a}
        BY <2>3, <3>1 DEF RoutePendingResponse, SetList
      <4>2. ~success => Responded(list[a], success) = NoList
        BY DEF Responded
      <4>3. Waiting(a)
        BY <1>1, <2>3, <3>1 DEF RoutePendingResponse, PendingPart
      <4>4. Sets(a)
        BY <4>1, <4>2 DEF Sets
      <4> QED BY <1>3, <1>4, <3>1, <4>3, <4>4
    <3>2. CASE a \notin Lists
      BY <2>3, <3>2, <1>0 DEF RoutePendingResponse, listVars
    <3> QED BY <3>1, <3>2
  <2>4. ASSUME NEW a \in Own, NEW success \in BOOLEAN, RouteRecordResponse(a, success)
        PROVE  Goal
    BY <2>4, <1>0 DEF RouteRecordResponse, listVars, pendVars
  <2> QED BY <1>6, <2>1, <2>2, <2>3, <2>4 DEF RouteResponse
<1>7. CASE RouteEvent
  <2>1. ASSUME NEW a \in Lists, NEW e, RouteListEvent(a, e) PROVE Goal
    <3>1. (\E v : list' = [list EXCEPT ![a] = v]) /\ a \in listByAction /\ lstOpen' = lstOpen
      BY <2>1 DEF RouteListEvent, ListStep, SetList, pendVars
    <3>2. Sets(a)
      BY <3>1 DEF Sets
    <3>3. list[a].phase # "none"
      BY <1>1, <1>3, <3>1 DEF ListPart
    <3> QED BY <1>4, <3>2, <3>3
  <2>2. ASSUME NEW a, NEW e, RouteListDrain(a, e) PROVE Goal
    BY <2>2, <1>0 DEF RouteListDrain, listVars, pendVars
  <2>3. ASSUME NEW f, NEW e, RouteFollowEvent(f, e) PROVE Goal
    BY <2>3, <1>0 DEF RouteFollowEvent, listVars, pendVars
  <2>4. ASSUME NEW e, RouteOrdinaryEvent(e) PROVE Goal
    BY <2>4, <1>0 DEF RouteOrdinaryEvent, listVars, pendVars
  <2>5. ASSUME NEW a, RouteListLate(a) \/ RouteQuarantined(a) PROVE Goal
    BY <2>5, <1>0 DEF RouteListLate, RouteQuarantined, listVars, pendVars
  <2> QED BY <1>7, <2>1, <2>2, <2>3, <2>4, <2>5 DEF RouteEvent
<1>8. CASE PendingStep
  <2>1. ASSUME NEW a \in Own, Admit(a) PROVE Goal
    <3>1. CASE a \in Lists
      BY <2>1, <3>1, <1>1, FateOne DEF Admit, Goal
    <3>2. CASE a \notin Lists
      BY <2>1, <3>2, <1>0 DEF Admit
    <3> QED BY <3>1, <3>2
  <2>2. ASSUME NEW a \in Own, CommitWrite(a) PROVE Goal
    BY <2>2, <1>0 DEF CommitWrite, listVars
  <2>3. ASSUME NEW a \in Own, AbortNotSent(a) PROVE Goal
    <3>1. CASE a \in lstOpen
      <4>1. list' = [list EXCEPT ![a] = NoList] /\ lstOpen' = lstOpen \ {a} /\ a \in Lists
        BY <2>3, <3>1, <1>1 DEF AbortNotSent, SetList
      <4>2. Sets(a)
        BY <4>1 DEF Sets
      <4> QED BY <3>1, <4>1, <4>2, <1>3, <1>4
    <3>2. CASE a \notin lstOpen
      BY <2>3, <3>2, <1>0 DEF AbortNotSent, listVars
    <3> QED BY <3>1, <3>2
  <2>4. ASSUME NEW a \in Own, Abandon(a) PROVE Goal
    <3>1. CASE a \in Lists
      <4>1. list' = [list EXCEPT ![a] = NoList] /\ lstOpen' = lstOpen \ {a} /\ Waiting(a)
        BY <2>4, <3>1 DEF Abandon, SetList, Waiting
      <4>2. Sets(a)
        BY <4>1 DEF Sets
      <4> QED BY <3>1, <4>1, <4>2, <1>3, <1>4
    <3>2. CASE a \notin Lists
      BY <2>4, <3>2, <1>0, <1>1 DEF Abandon, listVars
    <3> QED BY <3>1, <3>2
  <2>5. ASSUME NEW f \in Follows, AdoptFollow(f) \/ CloseFollow(f) PROVE Goal
    BY <2>5, <1>0 DEF AdoptFollow, CloseFollow, listVars
  <2>6. ASSUME NEW l \in Lists, AdoptList(l) PROVE Goal
    <3>1. /\ list' = [list EXCEPT ![l].adopted = TRUE] /\ l \in lstOpen
          /\ lstOpen' = lstOpen \ {l}
      BY <2>6 DEF AdoptList
    <3> DEFINE v == [list[l] EXCEPT !.adopted = TRUE]
    <3>2. list' = [list EXCEPT ![l] = v] /\ v.adopted
      BY <3>1, <1>1 DEF ListType
    <3> HIDE DEF v
    <3> QED BY <3>1, <3>2, <1>1, <1>3, FateOne DEF Goal
  <2>7. ASSUME NEW l \in Lists, CloseList(l) PROVE Goal
    <3>1. list' = [list EXCEPT ![l] = NoList] /\ lstOpen' = lstOpen \ {l} /\ l \in lstOpen
      BY <2>7 DEF CloseList, SetList
    <3>2. Sets(l)
      BY <3>1 DEF Sets
    <3> QED BY <3>1, <3>2, <1>1, <1>3, <1>4
  <2> QED BY <1>8, <2>1, <2>2, <2>3, <2>4, <2>5, <2>6, <2>7 DEF PendingStep
<1>9. CASE ConsumerStep
  <2>1. ASSUME NEW s \in Subs, Subscribe(s) \/ CloseSub(s) PROVE Goal
    BY <2>1, <1>0 DEF Subscribe, CloseSub, listVars, pendVars
  <2>2. ASSUME NEW f \in Follows, CloseFollowBranch(f) PROVE Goal
    BY <2>2, <1>0 DEF CloseFollowBranch, listVars, pendVars
  <2>3. ASSUME NEW l \in Lists, CloseListBranch(l) PROVE Goal
    <3>1. list' = [list EXCEPT ![l] = NoList] /\ list[l].adopted /\ lstOpen' = lstOpen
      BY <2>3 DEF CloseListBranch, SetList, pendVars
    <3>2. Sets(l)
      BY <3>1 DEF Sets
    <3> QED BY <3>1, <3>2, <1>1, <1>3, <1>4
  <2>4. ASSUME NEW b \in Branches, TakeItem(b) PROVE Goal
    <3>1. CASE b \in Lists
      <4>1. list' = [list EXCEPT ![b].q = Tail(@)] /\ list[b].adopted /\ lstOpen' = lstOpen
        BY <2>4, <3>1, Kinds DEF TakeItem, Open, pendVars
      <4>2. Sets(b)
        BY <4>1 DEF Sets
      <4> QED BY <3>1, <4>1, <4>2, <1>3, <1>4
    <3>2. CASE b \notin Lists
      BY <2>4, <3>2, <1>0 DEF TakeItem, pendVars
    <3> QED BY <3>1, <3>2
  <2>5. ASSUME NEW b \in Branches, TakeEmpty(b) PROVE Goal
    BY <2>5, <1>0 DEF TakeEmpty, listVars, pendVars
  <2> QED BY <1>9, <2>1, <2>2, <2>3, <2>4, <2>5 DEF ConsumerStep, Close
<1>10. CASE Expire
  BY <1>10, <1>0, <1>5 DEF Expire, listVars, pendVars
<1>11. ASSUME NEW reason, Kill(reason) PROVE Goal
  BY <1>11, <1>5 DEF Kill
<1>12. CASE Tick \/ UNCHANGED vars
  BY <1>12, <1>0 DEF Tick, vars, listVars, pendVars
<1> QED BY <1>6, <1>7, <1>8, <1>9, <1>10, <1>11, <1>12 DEF Next

----------------------------------------------------------------------------
(* The invariant of the tickets                                            *)

LEMMA HeldNext ==
    ASSUME TicketInductive, [Next]_vars PROVE HeldPart'
<1>0. BranchesMove /\ \A l \in Lists : ListFate(l)
  BY MovesNext, FateCalls DEF TicketInductive
<1>1. ASSUME NEW f \in Follows
      PROVE  f \in folOpen' \/ fol'[f].adopted \/ fol'[f] = NoFollow
  <2>1. FollowMoves(f) /\ FollowPart(f) /\ fol[f] \in FollowType
    BY <1>0, TicketTyped DEF TicketInductive, BranchInductive, BranchesMove, FollowsMove
  <2>2. f \in folOpen \/ fol[f].adopted \/ fol[f] = NoFollow
    BY DEF TicketInductive, HeldPart
  <2>3. fol[f] = NoFollow => fol[f].phase = "none"
    BY BranchConstants
  <2>4. f \in folByAction => fol[f].phase = "active"
    BY <2>1 DEF FollowPart
  <2>5. CASE FollowStays(f) \/ FollowAdmitted(f) \/ FollowAdopted(f) \/ FollowGone(f)
    BY <2>1, <2>2, <2>5 DEF FollowStays, FollowKept, FollowAdmitted, FollowAdopted, FollowGone,
                            FollowType
  <2>6. CASE FollowReceives(f) \/ FollowReceivesLast(f) \/ FollowEnds(f)
    <3>1. f \in folOpen \/ fol[f].adopted
      BY <2>2, <2>3, <2>4, <2>6 DEF FollowReceives, FollowReceivesLast, FollowEnds
    <3>2. fol'[f].adopted = fol[f].adopted /\ (f \in folOpen' <=> f \in folOpen)
      BY <2>1, <2>6 DEF FollowReceives, FollowReceivesLast, FollowEnds, FollowKept, FollowType,
                        Ended
    <3> QED BY <3>1, <3>2
  <2>7. CASE FollowTakes(f)
    BY <2>1, <2>7 DEF FollowTakes, FollowType
  <2> QED BY <2>1, <2>5, <2>6, <2>7 DEF FollowMoves
<1>2. ASSUME NEW l \in Lists
      PROVE  l \in lstOpen' \/ list'[l].adopted \/ list'[l] = NoList
  <2>1. ListMoves(l) /\ HeldListPart(l) /\ ListFate(l)
    BY <1>0 DEF TicketInductive, BranchInductive, BranchesMove, ListsMove
  <2>2. CASE l \in lstOpen
    BY <2>1, <2>2 DEF ListFate, LeavesWell
  <2>3. CASE list[l] = NoList
    BY <2>1, <2>3 DEF ListFate, GoneStays, NoList
  <2>4. CASE list[l].adopted
    BY <2>1, <2>4 DEF ListMoves, ListStays, ListAdmitted, ListAdopted, ListGone, ListCancelsEarly,
       ListCompletes, ListReceives, ListEnds, ListResponds, ListTakes, ListKept, HeldListPart
  <2> QED BY <2>2, <2>3, <2>4 DEF TicketInductive, HeldPart
<1> QED BY <1>1, <1>2 DEF HeldPart

LEMMA TicketInit == Init => TicketInductive
<1> SUFFICES ASSUME Init PROVE TicketInductive
  OBVIOUS
<1>1. BranchInductive
  BY BranchInit
<1> QED BY <1>1, Kinds DEF Init, TicketInductive, TicketPart, HeldPart, Admitted, Waiting, GivenUp

LEMMA TicketNext == TicketInductive /\ [Next]_vars => TicketInductive'
<1> SUFFICES ASSUME TicketInductive, [Next]_vars PROVE TicketInductive'
  OBVIOUS
<1>1. BranchInductive'
  BY BranchNext DEF TicketInductive
<1>2. \A x \in Own : TicketPart(x)'
  <2> SUFFICES ASSUME NEW x \in Own PROVE TicketPart(x)'
    OBVIOUS
  <2>1. TicketPart(x)
    BY DEF TicketInductive
  <2>2. TicketSame(x) => TicketPart(x)'
    BY <2>1, SameKeeps
  <2>3. CASE SharedCall
    <3>1. TicketSame(x) \/ TicketEnds(x)
      BY <2>3, SharedCalls DEF Shared
    <3> QED BY <2>2, <3>1, EndsSettles, SettlesKeeps
  <2>4. ASSUME NEW a \in Own, OwnCall(a) PROVE TicketPart(x)'
    BY <2>2, <2>4, OwnCallTicket
  <2> QED BY <2>3, <2>4, CallKinds
<1> QED BY <1>1, <1>2, HeldNext DEF TicketInductive

\* In every reachable state each ticket is waiting or has its outcome, and is
\* released exactly when its write is resolved and its branch has found an
\* owner or is gone.
THEOREM TicketInvariant == Spec => []TicketInductive
  BY TicketInit, TicketNext, PTL DEF Spec

----------------------------------------------------------------------------
(* What a step of one goroutine does to the calls of the others            *)

\* A branch is adopted by the call that its ticket belongs to.
LEMMA AdoptedOnce ==
    ASSUME TicketInductive, [Next]_vars, NEW x \in Own, Shared(x), AdoptedBranch(x)'
    PROVE  AdoptedBranch(x)
<1>1. BranchesMove
  BY MovesNext DEF TicketInductive
<1>2. ~NoFollow.adopted /\ ~NewFollow.adopted /\ ~NoList.adopted /\ ~NewList.adopted
  BY DEF NoFollow, NewFollow, NoList, NewList
<1>3. ASSUME x \in Follows, fol'[x].adopted PROVE fol[x].adopted
  <2>1. FollowMoves(x) /\ fol[x] \in FollowType /\ (x \in folOpen' <=> x \in folOpen)
    BY <1>1, <1>3, TicketTyped DEF TicketInductive, BranchesMove, FollowsMove, Shared, TicketSame,
       TicketEnds, SameOpen
  <2>2. ~FollowAdmitted(x) /\ ~FollowAdopted(x) /\ ~FollowGone(x)
    BY <1>2, <1>3, <2>1 DEF FollowAdmitted, FollowAdopted, FollowGone
  <2> QED BY <1>3, <2>1, <2>2 DEF FollowMoves, FollowStays, FollowReceives, FollowReceivesLast,
             FollowEnds, FollowTakes, FollowType, Ended
<1>4. ASSUME x \in Lists, list'[x].adopted PROVE list[x].adopted
  <2>1. ListMoves(x)
    BY <1>1, <1>4 DEF BranchesMove, ListsMove
  <2>2. ~ListAdmitted(x) /\ ~ListAdopted(x) /\ ~ListGone(x)
    BY <1>2, <1>4 DEF ListAdmitted, ListAdopted, ListGone, Shared
  <2> QED BY <1>4, <2>1, <2>2 DEF ListMoves, ListStays, ListCancelsEarly,
             ListCompletes, ListReceives, ListEnds, ListResponds, ListTakes, ListKept
<1> QED BY <1>3, <1>4 DEF AdoptedBranch

\* What the invariants say together.
SessionState == SessionInductive /\ TicketInductive /\ CallInductive

\* The place and the result of x are left alone.
CallSame(x) == pc'[x] = pc[x] /\ disp'[x] = disp[x] /\ result'[x] = result[x]

\* A call keeps what is known of it when another goroutine takes a step.
LEMMA OtherCallKept ==
    ASSUME SessionState, [Next]_vars, NEW x \in Own, Shared(x), CallSame(x),
           Terminated => Terminated',
           lock = x => UNCHANGED list
    PROVE  TicketAt(x)' /\ ResultPart(x)'
<1>1. TicketAt(x) /\ ResultPart(x) /\ (pc[x] \in LockedPlaces <=> lock = x) /\ WaiterPart
  BY DEF SessionState, CallInductive
<1>2. /\ outcome[x] = "none" <=> ~Admitted(x) \/ Waiting(x)
      /\ Waiting(x) => Admitted(x) /\ ~dead
  BY OutcomeFacts DEF SessionState
<1>3. AdoptedBranch(x)' => AdoptedBranch(x)
  BY AdoptedOnce DEF SessionState
<1>4. CASE TicketSame(x)
  <2>1. pc[x] = "contradictedList" => list' = list
    BY <1>1 DEF LockedPlaces
  <2>2. Provisional(x) => Provisional(x)'
    BY <1>4 DEF Provisional, TicketSame, SameOpen
  <2>3. TicketAt(x)'
    BY <1>1, <1>3, <1>4, <2>1, <2>2 DEF TicketAt, TicketSame, SameOpen, CallSame, Admitted
  <2> QED BY <1>1, <1>4, <2>3 DEF ResultPart, TicketSame, CallSame
<1>5. CASE TicketEnds(x)
  <2>0. /\ Waiting(x) /\ pstate'[x] \in {"completed", "released"}
        /\ outcome'[x] \in {"success", "error", "dead"} /\ (x \in committed' <=> x \in committed)
    BY <1>5 DEF TicketEnds, Completed
  <2>1. pc[x] = "contradictedList" => list' = list
    BY <1>1 DEF LockedPlaces
  <2>2. Provisional(x) => Provisional(x)'
    BY <1>2, <1>5 DEF Provisional, TicketEnds
  <2>3. TicketAt(x)'
    BY <1>1, <1>2, <1>3, <2>0, <2>1, <2>2 DEF TicketAt, CallSame, Admitted, Waiting, GivenUp
  <2>4. ~(x \in Public /\ pc[x] = "returned" /\ disp[x] = "complete")
    BY <1>1, <1>2, <2>0 DEF ResultPart
  <2> QED BY <2>3, <2>4 DEF ResultPart, CallSame
<1> QED BY <1>4, <1>5 DEF Shared

----------------------------------------------------------------------------
(* What a step of a call does to itself                                    *)

\* Only an adoption hands a branch to the caller.
LEMMA NotAdopted ==
    ASSUME TicketInductive, NEW a \in Own,
           \/ Admit(a) \/ CommitWrite(a) \/ AbortNotSent(a) \/ Abandon(a)
           \/ a \in Follows /\ CloseFollow(a)
           \/ a \in Lists /\ (CloseList(a) \/ CloseListBranch(a))
           \/ UNCHANGED <<fol, list>>,
           AdoptedBranch(a)'
    PROVE  AdoptedBranch(a)
<1>1. ~NoFollow.adopted /\ ~NewFollow.adopted /\ ~NoList.adopted /\ ~NewList.adopted
  BY DEF NoFollow, NewFollow, NoList, NewList
<1>2. ASSUME a \in Follows, fol'[a] # fol[a] PROVE ~fol'[a].adopted
  <2>1. fol' = [fol EXCEPT ![a] = NewFollow] \/ fol' = [fol EXCEPT ![a] = NoFollow]
    BY <1>2, Kinds DEF Admit, CommitWrite, AbortNotSent, Abandon, CloseFollow, CloseList,
       CloseListBranch, ReleaseFollow, folVars
  <2> QED BY <1>1, <1>2, <2>1, TicketTyped DEF TicketInductive
<1>3. ASSUME a \in Lists, list'[a] # list[a] PROVE ~list'[a].adopted
  <2>1. list' = [list EXCEPT ![a] = NewList] \/ list' = [list EXCEPT ![a] = NoList]
    BY <1>3, Kinds DEF Admit, CommitWrite, AbortNotSent, Abandon, CloseFollow, CloseList,
       CloseListBranch, SetList, listVars
  <2> QED BY <1>1, <1>3, <2>1, TicketTyped DEF TicketInductive
<1> QED BY <1>2, <1>3 DEF AdoptedBranch

\* The facts about a that the proofs of its steps start from.
KnownOf(a) ==
    /\ TicketAt(a) /\ ResultPart(a) /\ PlacePart(a) /\ TicketPart(a)
    /\ outcome[a] = "none" <=> ~Admitted(a) \/ Waiting(a)
    /\ outcome[a] \in {"none", "success", "error", "dead", "aborted", "abandoned"}
    /\ pstate[a] \in {"none", "reserved", "inFlight", "completed", "released"}
    /\ outcome[a] = "dead" => dead
    /\ Waiting(a) => ~dead
    /\ Terminated <=> dead
    /\ chan[a] = IF outcome[a] \in {"success", "error", "dead"} THEN outcome[a] ELSE "empty"
    /\ pc[a] \notin {"returned", "contradictedList"} => ~AdoptedBranch(a)

LEMMA Known == ASSUME SessionState, NEW a \in Own PROVE KnownOf(a)
<1>1. PlacePart(a) /\ TicketAt(a) /\ ResultPart(a) /\ WaiterPart /\ TicketPart(a) /\ PendingPart(a)
  BY DEF SessionState, SessionInductive, CallInductive, TicketInductive, BranchInductive,
         SlotInductive
<1>2. /\ outcome[a] = "none" <=> ~Admitted(a) \/ Waiting(a)
      /\ outcome[a] \in {"none", "success", "error", "dead", "aborted", "abandoned"}
      /\ pstate[a] \in {"none", "reserved", "inFlight", "completed", "released"}
  BY OutcomeFacts DEF SessionState
<1>3. /\ Terminated <=> dead
      /\ chan[a] = IF outcome[a] \in {"success", "error", "dead"} THEN outcome[a] ELSE "empty"
  BY <1>1 DEF WaiterPart
<1>4. pc[a] \notin {"returned", "contradictedList"} => ~AdoptedBranch(a)
  BY <1>1 DEF PlacePart, TicketAt
<1>5. (outcome[a] = "dead" => dead) /\ (Waiting(a) => ~dead)
  BY <1>1 DEF PendingPart
<1> QED BY <1>1, <1>2, <1>3, <1>4, <1>5 DEF KnownOf

\* The call goes on to place, or returns with r.
LEMMA GoneTo ==
    ASSUME SessionState, NEW a \in Own, NEW place, Goto(a, place)
    PROVE  pc'[a] = place /\ result'[a] = result[a]
  BY DEF SessionState, SessionInductive, Goto

LEMMA Returned ==
    ASSUME SessionState, NEW a \in Own, NEW r, Return(a, r)
    PROVE  pc'[a] = "returned" /\ result'[a] = r
  BY DEF SessionState, SessionInductive, Return

\* A call that leaves with its ticket released, or after death.
LEMMA LeavesClean ==
    ASSUME NEW a \in Own, pc'[a] \in {"dying", "draining", "returned"},
           pstate'[a] \in {"none", "released"} \/ Terminated',
           AdoptedBranch(a)' => result'[a] = "ok"
    PROVE  TicketAt(a)'
  BY DEF TicketAt

\* A call that has seen the client die.
LEMMA LeavesDead ==
    ASSUME NEW a \in Own, pc'[a] \in {"contradiction", "teardown", "settling", "settlingBranch"},
           Terminated' \/ pc'[a] = "contradiction", ~AdoptedBranch(a)'
    PROVE  TicketAt(a)'
<1>1. pc'[a] \notin {"idle", "queued", "entering", "writing", "poisoning", "wrote", "awaiting",
                    "contradicted", "contradictedList", "dying", "draining", "returned"}
  OBVIOUS
<1> QED BY <1>1 DEF TicketAt

\* A ticket given up is released by the next state at the latest.
LEMMA GivenUpReleased ==
    ASSUME SessionState, TicketInductive', NEW a \in Own, outcome' = [outcome EXCEPT ![a] = "aborted"]
                                 \/ outcome' = [outcome EXCEPT ![a] = "abandoned"]
    PROVE  outcome'[a] \in GivenUp /\ pstate'[a] = "released"
<1>1. outcome'[a] \in GivenUp
  BY TicketTyped DEF SessionState, TicketInductive, TicketTypes, GivenUp
<1> QED BY <1>1 DEF TicketInductive, TicketPart

LEMMA StillTicket ==
    ASSUME NEW a \in Own, UNCHANGED vars
    PROVE  /\ pstate' = pstate /\ outcome' = outcome /\ committed' = committed
           /\ (Provisional(a)' <=> Provisional(a)) /\ (AdoptedBranch(a)' <=> AdoptedBranch(a))
  BY DEF vars, pendVars, folVars, listVars, Provisional, AdoptedBranch

\* Before its write is resolved a call goes on, or leaves as it came.
LEMMA EarlySteps ==
    ASSUME SessionState, NEW a \in Own,
           \/ Begin(a) \/ Unqueue(a) \/ EnterWrite(a) \/ WriteReturns(a) \/ Poison(a)
           \/ CallTeardown(a) \/ PingAnswered(a) \/ PingDrained(a)
    PROVE  TicketAt(a)' /\ ResultPart(a)'
<1>0. KnownOf(a)
  BY Known
<1>1. /\ UNCHANGED vars /\ root' = root
      /\ pstate' = pstate /\ outcome' = outcome /\ committed' = committed
      /\ (Provisional(a)' <=> Provisional(a)) /\ (AdoptedBranch(a)' <=> AdoptedBranch(a))
      /\ pc[a] \notin {"returned", "contradictedList"}
  <2>1. UNCHANGED vars /\ root' = root /\ pc[a] \notin {"returned", "contradictedList"}
    BY DEF Begin, Unqueue, EnterWrite, WriteReturns, Poison, CallTeardown, PingAnswered,
           PingDrained, Alone, effectVars
  <2> QED BY <2>1, StillTicket
<1>2. Terminated' <=> Terminated
  BY <1>1 DEF Terminated
<1>3. Admitted(a)' <=> Admitted(a)
  BY <1>1 DEF Admitted
<1>4. ~AdoptedBranch(a)'
  BY <1>0, <1>1 DEF KnownOf
<1>5. ASSUME disp'[a] # "complete" \/ pc'[a] # "returned" PROVE ResultPart(a)'
  BY <1>5 DEF ResultPart
<1>6. ASSUME pc'[a] \in {"dying", "draining", "returned"},
             pstate[a] \in {"none", "released"} \/ Terminated
      PROVE  TicketAt(a)'
  BY <1>1, <1>2, <1>4, <1>6, LeavesClean
<1>7. CASE Begin(a) \/ Unqueue(a)
  <2>1. ~Admitted(a) /\ pstate[a] = "none" /\ disp'[a] # "complete"
    BY <1>0, <1>7 DEF KnownOf, TicketAt, PlacePart, Admitted, Begin, Unqueue, Alone
  <2>2. pc'[a] \in {"queued", "dying", "returned"}
    <3>1. CASE Refused(a)
      BY <3>1, GoneTo, Returned DEF Refused
    <3>2. CASE ~Refused(a)
      BY <3>2, <1>7 DEF Begin, Unqueue, SessionState, SessionInductive
    <3> QED BY <3>1, <3>2
  <2>3. CASE pc'[a] = "queued"
    BY <1>3, <1>4, <2>1, <2>3 DEF TicketAt, ResultPart
  <2> QED BY <1>5, <1>6, <2>1, <2>2, <2>3
<1>8. CASE EnterWrite(a) \/ WriteReturns(a) \/ Poison(a)
  <2>1. pc[a] \in {"entering", "writing", "poisoning"}
    BY <1>8 DEF EnterWrite, WriteReturns, Poison
  <2>2. pc'[a] \in {"writing", "poisoning", "wrote"}
    BY <1>8, GoneTo DEF EnterWrite, WriteReturns, Poison
  <2>3. /\ Admitted(a) /\ a \notin committed /\ outcome[a] \notin GivenUp /\ Provisional(a)
    BY <1>0, <2>1 DEF KnownOf, TicketAt
  <2> QED BY <1>1, <1>3, <1>4, <2>2, <2>3 DEF TicketAt, ResultPart
<1>9. CASE CallTeardown(a)
  <2>1. Terminated
    BY <1>0, <1>9 DEF KnownOf, TicketAt, CallTeardown
  <2>2. pc'[a] \in {"settling", "returned"}
    BY <1>9, GoneTo, Returned DEF CallTeardown
  <2>3. disp'[a] # "complete" \/ a \notin Public
    BY <1>0, <1>9, PlaceTypes DEF KnownOf, PlacePart, CallTeardown
  <2>4. ResultPart(a)'
    BY <2>3 DEF ResultPart
  <2>5. CASE pc'[a] = "settling"
    <3>1. Terminated'
      BY <1>2, <2>1
    <3> QED BY <1>4, <2>4, <2>5, <3>1, LeavesDead
  <2> QED BY <1>6, <2>1, <2>2, <2>4, <2>5
<1>10. CASE PingAnswered(a)
  <2>1. a \notin Public /\ a \notin Follows /\ a \notin Lists
    BY <1>10, KindsAssumption DEF PingAnswered, Public
  <2>2. ResultPart(a)'
    BY <2>1 DEF ResultPart
  <2>3. a \in committed /\ Admitted(a) /\ outcome[a] # "none"
    BY <1>0, <1>10 DEF KnownOf, TicketAt, PingAnswered
  <2>4. pstate[a] = "released"
    <3>1. ~Waiting(a)
      BY <1>0, <2>3 DEF KnownOf
    <3>2. a \notin folOpen \cup lstOpen
      BY <2>1, TicketTyped DEF SessionState, TicketInductive
    <3> QED BY <1>0, <2>3, <3>1, <3>2 DEF KnownOf, TicketPart
  <2>5. pc'[a] \in {"dying", "returned"}
    BY <1>10, GoneTo, Returned DEF PingAnswered
  <2> QED BY <1>6, <2>2, <2>4, <2>5
<1>11. CASE PingDrained(a)
  <2>1. a \notin Public \/ disp'[a] # "complete"
    BY <1>0, <1>11, PlaceTypes DEF KnownOf, PlacePart, PingDrained, Alone
  <2>2. pstate[a] \in {"none", "released"} \/ Terminated
    BY <1>0, <1>11 DEF KnownOf, TicketAt, PingDrained
  <2>3. pc'[a] = "returned"
    BY <1>11, Returned DEF PingDrained
  <2> QED BY <1>6, <2>1, <2>2, <2>3 DEF ResultPart
<1> QED BY <1>7, <1>8, <1>9, <1>10, <1>11

\* The call is admitted, or turned away.
LEMMA RegisterTicket ==
    ASSUME SessionState, NEW a \in Own, Register(a)
    PROVE  TicketAt(a)' /\ ResultPart(a)'
<1>0. KnownOf(a)
  BY Known
<1>1. pc[a] = "queued" /\ root' = root /\ disp' = disp
  BY DEF Register
<1>2. ~Admitted(a) /\ pstate[a] = "none" /\ a \notin committed /\ disp[a] = "none"
      /\ outcome[a] = "none" /\ ~AdoptedBranch(a)
  BY <1>0, <1>1 DEF KnownOf, TicketAt, TicketPart, PlacePart, Admitted
<1>3. ResultPart(a)'
  BY <1>1, <1>2 DEF ResultPart
<1>4. CASE UNCHANGED vars /\ pc'[a] \in {"dying", "returned"}
  <2>1. pstate'[a] = "none" /\ ~AdoptedBranch(a)'
    BY <1>2, <1>4, StillTicket
  <2> QED BY <1>3, <1>4, <2>1, LeavesClean
<1>5. CASE Admit(a) /\ pc' = [pc EXCEPT ![a] = "entering"]
  <2>1. pc'[a] = "entering"
    BY <1>5 DEF SessionState, SessionInductive
  <2>2. Admitted(a)' /\ outcome' = outcome /\ committed' = committed
    BY <1>5, TicketTyped DEF SessionState, TicketInductive, TicketTypes, Admit, Admitted
  <2>3. Provisional(a)'
    BY <1>5 DEF Admit, Provisional
  <2>4. ~AdoptedBranch(a)'
    BY <1>2, <1>5, NotAdopted DEF SessionState
  <2>5. outcome'[a] \notin GivenUp
    BY <1>2, <2>2 DEF GivenUp
  <2>6. TicketAt(a)'
    BY <1>2, <2>1, <2>2, <2>3, <2>4, <2>5 DEF TicketAt
  <2> QED BY <1>3, <2>6
<1> QED BY <1>4, <1>5, GoneTo, Returned DEF Register

\* A resolved write leaves the outcome and the branch to the completion.
LEMMA CommittedTicket ==
    ASSUME SessionState, NEW a \in Own, CommitWrite(a), pc[a] = "wrote",
           pc'[a] \in {"awaiting", "contradicted"}
    PROVE  TicketAt(a)' /\ ResultPart(a)'
<1>0. KnownOf(a)
  BY Known
<1>1. Admitted(a) /\ outcome[a] \notin GivenUp /\ Provisional(a) /\ ~AdoptedBranch(a)
  BY <1>0 DEF KnownOf, TicketAt
<1>2. /\ outcome' = outcome /\ a \in committed' /\ UNCHANGED <<folOpen, lstOpen>>
      /\ pstate'[a] # "none"
  BY TicketTyped DEF CommitWrite, SessionState, TicketInductive, TicketTypes, Completed
<1>3. Admitted(a)' /\ Provisional(a)' /\ outcome'[a] \notin GivenUp
  BY <1>1, <1>2 DEF Admitted, Provisional
<1>4. ~AdoptedBranch(a)'
  BY <1>1, NotAdopted DEF SessionState
<1> QED BY <1>2, <1>3, <1>4 DEF TicketAt, ResultPart

\* An unsent action gives its ticket back, unless death has taken it.
LEMMA AbortTicket ==
    ASSUME SessionState, TicketInductive', NEW a \in Own, AbortUnsent(a)
    PROVE  TicketAt(a)' /\ ResultPart(a)'
<1>0. KnownOf(a)
  BY Known
<1>1. /\ pc[a] = "wrote" /\ disp[a] \in Unsent /\ UNCHANGED <<root, disp>>
      /\ AbortNotSent(a) \/ (UNCHANGED vars /\ chan[a] = "dead")
  BY DEF AbortUnsent, Tolerated
<1>2. ~AdoptedBranch(a)'
  <2>1. ~AdoptedBranch(a)
    BY <1>0, <1>1 DEF KnownOf
  <2> QED BY <1>1, <2>1, NotAdopted, StillTicket DEF SessionState
<1>3. chan[a] = "dead" => Terminated'
  <2>1. chan[a] = "dead" => Terminated
    BY <1>0 DEF KnownOf
  <2> QED BY <1>1, <2>1 DEF Terminated
<1>4. pstate'[a] = "released" \/ Terminated'
  <2>1. CASE pstate[a] = "reserved" /\ AbortNotSent(a)
    <3>1. outcome' = [outcome EXCEPT ![a] = "aborted"]
      BY <2>1 DEF AbortNotSent
    <3> QED BY <3>1, GivenUpReleased
  <2>2. CASE outcome[a] = "dead"
    BY <1>0, <1>3, <2>2 DEF KnownOf
  <2> QED BY <1>1, <1>3, <2>1, <2>2 DEF AbortNotSent
<1>5. pc'[a] \in {"draining", "dying", "returned"}
  BY GoneTo, Returned DEF AbortUnsent, AfterNotSent
<1>6. TicketAt(a)'
  BY <1>2, <1>4, <1>5, LeavesClean
<1>7. disp'[a] # "complete"
  BY <1>1, PlaceTypes
<1> QED BY <1>6, <1>7 DEF ResultPart

\* The branch of a contradicted call is adopted to be closed, or closed.
LEMMA ContradictedTicket ==
    ASSUME SessionState, NEW a \in Own, ContradictedBranch(a) \/ ContradictionKill(a)
    PROVE  TicketAt(a)' /\ ResultPart(a)'
<1>0. KnownOf(a)
  BY Known
<1>1. CASE ContradictedBranch(a) /\ ~(a \in Lists /\ AdoptList(a))
  <2>1. /\ (a \in Follows /\ CloseFollow(a)) \/ (a \in Lists /\ CloseListBranch(a))
        /\ pc'[a] = "contradiction"
    BY <1>1, GoneTo DEF ContradictedBranch
  <2>2. ~AdoptedBranch(a)'
    <3>1. CASE a \in Follows /\ CloseFollow(a)
      <4>1. a \in folOpen /\ fol' = [fol EXCEPT ![a] = NoFollow] /\ a \notin Lists
        BY <3>1, Kinds DEF CloseFollow, ReleaseFollow
      <4> QED BY <4>1, TicketTyped DEF AdoptedBranch, NoFollow, SessionState, TicketInductive
    <3>2. CASE a \in Lists /\ CloseListBranch(a)
      <4>1. list' = [list EXCEPT ![a] = NoList] /\ a \notin Follows
        BY <3>2, Kinds DEF CloseListBranch, SetList
      <4> QED BY <3>2, <4>1, TicketTyped DEF AdoptedBranch, NoList, SessionState, TicketInductive
    <3> QED BY <2>1, <3>1, <3>2
  <2>3. TicketAt(a)'
    BY <2>1, <2>2, LeavesDead
  <2> QED BY <2>1, <2>3 DEF ResultPart
<1>2. CASE ContradictedBranch(a) /\ a \in Lists /\ AdoptList(a)
  <2>1. pc'[a] \in {"contradictedList", "contradiction"}
    BY <1>2, GoneTo DEF ContradictedBranch
  <2>2. pc[a] = "contradicted" => pc'[a] = "contradictedList"
    BY <1>2, Kinds, GoneTo DEF ContradictedBranch
  <2>3. pc[a] = "contradicted"
    <3>1. list[a].adopted => a \notin lstOpen
      BY <1>2 DEF SessionState, TicketInductive, BranchInductive, HeldListPart
    <3>2. pc[a] = "contradictedList" => list[a].adopted
      BY <1>0 DEF KnownOf, TicketAt
    <3> QED BY <1>2, <3>1, <3>2 DEF ContradictedBranch, AdoptList
  <2>4. list'[a].adopted
    BY <1>2, TicketTyped DEF AdoptList, SessionState, TicketInductive, ListType
  <2>5. TicketAt(a)'
    BY <1>2, <2>2, <2>3, <2>4 DEF TicketAt
  <2> QED BY <2>1, <2>5 DEF ResultPart
<1>3. CASE ContradictionKill(a)
  <2>1. pc'[a] = "teardown" /\ root' = ContradictionCause /\ pc[a] \in {"contradicted", "contradiction"}
    BY <1>3, GoneTo DEF ContradictionKill
  <2>2. Terminated'
    BY <2>1 DEF ContradictionCause, Terminated
  <2>3. ~AdoptedBranch(a)'
    <3>1. ~AdoptedBranch(a)
      BY <1>0, <2>1 DEF KnownOf
    <3>2. [Next]_vars /\ SharedCall
      <4>1. "ResponseUnmatched" \in KillReasons
        BY DEF KillReasons
      <4>2. SharedCall
        BY <1>3, <4>1 DEF ContradictionKill, SharedCall
      <4> QED BY <4>2, CallKinds
    <3> QED BY <3>1, <3>2, SharedCalls, AdoptedOnce DEF SessionState
  <2>4. TicketAt(a)'
    BY <2>1, <2>2, <2>3, LeavesDead
  <2> QED BY <2>1, <2>4 DEF ResultPart
<1> QED BY <1>1, <1>2, <1>3

\* Once the client has died a call only gives back what it holds.
LEMMA DeadTicket ==
    ASSUME SessionState, NEW a \in Own, CallDies(a) \/ SettleWrite(a) \/ SettleBranch(a)
    PROVE  TicketAt(a)' /\ ResultPart(a)'
<1>0. KnownOf(a)
  BY Known
<1>1. pc[a] \in {"dying", "wrote", "settling", "settlingBranch"} /\ disp' = disp
  BY DEF CallDies, SettleWrite, SettleBranch
<1>2. ~AdoptedBranch(a)
  BY <1>0, <1>1 DEF KnownOf
<1>3. ~AdoptedBranch(a)'
  <2>1. CASE CallDies(a)
    <3>1. SharedCall
      BY <2>1, DieCall DEF CallDies
    <3> QED BY <1>2, <3>1, CallKinds, SharedCalls, AdoptedOnce DEF SessionState
  <2>2. CASE SettleWrite(a)
    <3>1. CommitWrite(a) \/ UNCHANGED vars
      BY <2>2 DEF SettleWrite, Tolerated
    <3> QED BY <1>2, <3>1, NotAdopted, StillTicket DEF SessionState
  <2>3. CASE SettleBranch(a)
    <3>1. (a \in Follows /\ CloseFollow(a)) \/ (a \in Lists /\ CloseList(a)) \/ UNCHANGED vars
      BY <2>3 DEF SettleBranch, ReleaseAfterDeath, Tolerated
    <3> QED BY <1>2, <3>1, NotAdopted, StillTicket DEF SessionState
  <2> QED BY <2>1, <2>2, <2>3
<1>4. Terminated'
  <2>1. CASE CallDies(a)
    <3>1. root' = CallCause(a) \/ (Terminated /\ root' = root)
      BY <2>1 DEF CallDies, DieLocked, effectVars
    <3>2. CallCause(a) # "None"
      BY DEF CallCause
    <3> QED BY <3>1, <3>2 DEF Terminated
  <2>2. CASE SettleWrite(a) \/ SettleBranch(a)
    <3>1. Terminated
      BY <1>0, <2>2 DEF KnownOf, TicketAt, SettleWrite, SettleBranch
    <3>2. root' = root
      BY <2>2 DEF SettleWrite, SettleBranch, effectVars
    <3> QED BY <3>1, <3>2 DEF Terminated
  <2> QED BY <2>1, <2>2
<1>5. pc'[a] \in {"teardown", "settlingBranch", "returned"}
  BY GoneTo, Returned DEF CallDies, SettleWrite, SettleBranch
<1>6. TicketAt(a)'
  BY <1>3, <1>4, <1>5, LeavesClean, LeavesDead
<1>7. pc'[a] = "returned" => disp'[a] # "complete"
  <2>1. CallDies(a) => pc'[a] = "teardown"
    BY GoneTo DEF CallDies
  <2>2. SettleWrite(a) \/ SettleBranch(a) => disp[a] \in Ambiguous
    BY <1>0 DEF KnownOf, PlacePart, SettleWrite, SettleBranch
  <2>3. SettleWrite(a) \/ SettleBranch(a) => disp[a] # "complete"
    BY <2>2, PlaceTypes
  <2> QED BY <1>1, <2>1, <2>3
<1> QED BY <1>6, <1>7 DEF ResultPart

\* A call in which the branch of a is closed or handed to its caller.
LEMMA ClosedTicket ==
    ASSUME SessionState, NEW a \in Own,
           \/ a \in Follows /\ (AdoptFollow(a) \/ CloseFollow(a))
           \/ a \in Lists /\ (AdoptList(a) \/ CloseList(a))
           \/ UNCHANGED vars
    PROVE  /\ outcome' = outcome /\ committed' = committed
           /\ folOpen' \subseteq folOpen /\ lstOpen' \subseteq lstOpen
  BY DEF AdoptFollow, CloseFollow, AdoptList, CloseList, ReleaseFollow, vars, pendVars

LEMMA OutcomeRule ==
    TicketInductive => \A x \in Own : outcome[x] = "none" <=> ~Admitted(x) \/ Waiting(x)
  BY OutcomeFacts

\* The completion decides what the caller gets and who has the branch.
LEMMA AnsweredTicket ==
    ASSUME SessionState, TicketInductive', NEW a \in Own, Answered(a)
    PROVE  TicketAt(a)' /\ ResultPart(a)'
<1>0. KnownOf(a)
  BY Known
<1>1. /\ pc[a] = "awaiting" /\ chan[a] # "empty" /\ root' = root /\ disp' = disp
  BY DEF Answered, effectVars
<1>2. /\ a \in committed /\ Admitted(a) /\ outcome[a] = chan[a] /\ Provisional(a)
      /\ ~AdoptedBranch(a) /\ outcome[a] \in {"success", "error", "dead"} /\ ~Waiting(a)
  BY <1>0, <1>1 DEF KnownOf, TicketAt, Admitted, Waiting
<1>3. /\ \/ a \in Follows /\ (AdoptFollow(a) \/ CloseFollow(a))
         \/ a \in Lists /\ (AdoptList(a) \/ CloseList(a))
         \/ UNCHANGED vars
      /\ pc'[a] = "returned"
      /\ result'[a] = IF outcome[a] = "success" THEN "ok"
                      ELSE IF outcome[a] = "error" THEN "responded" ELSE "unknown"
  <2>1. CASE chan[a] = "dead"
    <3>1. ReleaseAfterDeath(a) /\ Return(a, "unknown")
      BY <2>1 DEF Answered
    <3>2. (a \in Follows /\ CloseFollow(a)) \/ (a \in Lists /\ CloseList(a)) \/ UNCHANGED vars
      BY <3>1 DEF ReleaseAfterDeath, Tolerated
    <3> QED BY <1>2, <2>1, <3>1, <3>2, Returned
  <2>2. CASE chan[a] = "error"
    <3>1. ReleaseRejected(a) /\ Return(a, "responded")
      BY <2>2 DEF Answered
    <3>2. (a \in Follows /\ CloseFollow(a)) \/ UNCHANGED vars
      BY <3>1 DEF ReleaseRejected
    <3> QED BY <1>2, <2>2, <3>1, <3>2, Returned
  <2>3. CASE chan[a] = "success"
    <3>1. /\ (a \in Follows /\ AdoptFollow(a)) \/ (a \in Lists /\ AdoptList(a)) \/ UNCHANGED vars
          /\ Return(a, "ok")
      BY <2>3 DEF Answered
    <3> QED BY <1>2, <2>3, <3>1, Returned
  <2> QED BY <1>2, <2>1, <2>2, <2>3
<1>4. outcome' = outcome /\ committed' = committed /\ folOpen' \subseteq folOpen
      /\ lstOpen' \subseteq lstOpen
  BY <1>3, ClosedTicket
<1>5. ResultPart(a)'
  BY <1>2, <1>3, <1>4 DEF ResultPart
<1>6. CASE outcome[a] = "dead"
  <2>1. Terminated'
    BY <1>0, <1>1, <1>6 DEF KnownOf, Terminated
  <2>2. ~AdoptedBranch(a)'
    <3>1. (a \in Follows /\ CloseFollow(a)) \/ (a \in Lists /\ CloseList(a)) \/ UNCHANGED vars
      BY <1>2, <1>6 DEF Answered, ReleaseAfterDeath, Tolerated
    <3> QED BY <1>2, <3>1, NotAdopted, StillTicket DEF SessionState
  <2> QED BY <1>3, <1>5, <2>1, <2>2, LeavesClean
<1>7. CASE outcome[a] # "dead"
  <2>1. a \notin folOpen' /\ a \notin lstOpen'
    <3>1. CASE a \in Follows
      <4>1. AdoptFollow(a) \/ CloseFollow(a)
        BY <1>2, <1>7, <3>1 DEF Answered, ReleaseRejected
      <4>2. a \notin folOpen'
        BY <4>1 DEF AdoptFollow, CloseFollow, ReleaseFollow
      <4>3. a \notin lstOpen
        BY <3>1, Kinds, TicketTyped DEF SessionState, TicketInductive
      <4> QED BY <1>4, <4>2, <4>3
    <3>2. CASE a \in Lists
      <4>1. a \notin folOpen
        BY <3>2, Kinds, TicketTyped DEF SessionState, TicketInductive
      <4>2. CASE outcome[a] = "success"
        <5>1. AdoptList(a)
          BY <1>2, <3>2, <4>2, Kinds DEF Answered
        <5> QED BY <1>4, <4>1, <5>1 DEF AdoptList
      <4>3. CASE outcome[a] = "error"
        <5>1. a \notin lstOpen
          BY <1>0, <4>3 DEF KnownOf, TicketPart
        <5> QED BY <1>4, <4>1, <5>1
      <4> QED BY <1>2, <1>7, <4>2, <4>3
    <3>3. CASE a \notin Follows \cup Lists
      BY <1>4, <3>3, TicketTyped DEF SessionState, TicketInductive
    <3> QED BY <3>1, <3>2, <3>3
  <2>2. pstate'[a] = "released"
    <3>1. TicketPart(a)' /\ outcome'[a] # "none" /\ a \in committed'
      BY <1>2, <1>4 DEF TicketInductive
    <3>2. Admitted(a)' /\ ~Waiting(a)'
      <4>1. outcome'[a] = "none" <=> ~Admitted(a)' \/ Waiting(a)'
        <5>1. (TicketInductive =>
                  \A x \in Own : outcome[x] = "none" <=> ~Admitted(x) \/ Waiting(x))'
          BY OutcomeRule, PTL
        <5> QED BY <5>1
      <4> QED BY <3>1, <4>1
    <3> QED BY <2>1, <3>1, <3>2 DEF TicketPart
  <2>3. AdoptedBranch(a)' => result'[a] = "ok"
    <3>1. outcome[a] = "error" => ~AdoptedBranch(a)'
      <4>1. outcome[a] = "error" => (a \in Follows /\ CloseFollow(a)) \/ UNCHANGED vars
        BY <1>2 DEF Answered, ReleaseRejected
      <4> QED BY <1>2, <4>1, NotAdopted, StillTicket DEF SessionState
    <3> QED BY <1>2, <1>3, <1>7, <3>1
  <2> QED BY <1>3, <1>5, <2>2, <2>3, LeavesClean
<1> QED BY <1>6, <1>7

\* A call gives up only while there is no completion, so the client lives.
LEMMA GiveUpTicket ==
    ASSUME SessionState, TicketInductive', NEW a \in Own, GiveUp(a)
    PROVE  ~Terminated /\ Abandon(a) /\ TicketAt(a)' /\ ResultPart(a)'
<1>0. KnownOf(a)
  BY Known
<1>1. pc[a] = "awaiting" /\ chan[a] = "empty"
  BY DEF GiveUp, NoCompletionYet
<1>2. outcome[a] = "none"
  BY <1>0, <1>1 DEF KnownOf, TicketAt, GivenUp
<1>3. Waiting(a) /\ ~Terminated /\ ~AdoptedBranch(a)
  BY <1>0, <1>1, <1>2 DEF KnownOf, TicketAt
<1>4. Abandon(a)
  BY <1>3 DEF GiveUp, AbandonWaiting
<1>5. pstate'[a] = "released" /\ outcome'[a] \in GivenUp
  <2>1. outcome' = [outcome EXCEPT ![a] = "abandoned"]
    BY <1>4 DEF Abandon
  <2> QED BY <2>1, GivenUpReleased
<1>6. ~AdoptedBranch(a)'
  BY <1>3, <1>4, NotAdopted DEF SessionState
<1>7. pc'[a] \in {"dying", "returned"} /\ (result'[a] \in {"unknown", "nil"} \/ pc'[a] = "dying")
  BY <1>3, GoneTo, Returned DEF GiveUp
<1>8. TicketAt(a)'
  BY <1>5, <1>6, <1>7, LeavesClean
<1> QED BY <1>3, <1>4, <1>5, <1>7, <1>8 DEF ResultPart, GivenUp

----------------------------------------------------------------------------
(* The session lock                                                        *)

\* A call takes the lock, passes it on to its next place, or unlocks.
LockMoves(a) ==
    \/ lock' = lock /\ (pc'[a] \in LockedPlaces <=> pc[a] \in LockedPlaces)
    \/ LockFree /\ lock' = a /\ pc'[a] \in LockedPlaces
    \/ lock = a /\ lock' = Nobody /\ pc'[a] \notin LockedPlaces

LEMMA DispatchLock ==
    ASSUME SessionState, NEW a \in Own, Begin(a) \/ Dispatch(a)
    PROVE  LockMoves(a) /\ (LockFree \/ lock = a \/ UNCHANGED vars)
<1> DEFINE Goal == LockMoves(a) /\ (LockFree \/ lock = a \/ UNCHANGED vars)
<1> HIDE DEF Goal
<1> SUFFICES Goal
  BY DEF Goal
<1>1. ASSUME NEW place, Goto(a, place) PROVE pc'[a] = place
  BY <1>1, GoneTo
<1>2. ASSUME NEW r, Return(a, r) PROVE pc'[a] = "returned"
  BY <1>2, Returned
<1>3. pc[a] \in LockedPlaces <=> lock = a
  BY DEF SessionState, CallInductive
<1>4. /\ "contradicted" \in LockedPlaces /\ "settlingBranch" \in LockedPlaces
      /\ "contradictedList" \in LockedPlaces /\ "contradiction" \in LockedPlaces
      /\ \A p \in Places \ {"contradicted", "contradictedList", "contradiction", "settlingBranch"} :
            p \notin LockedPlaces
  BY DEF LockedPlaces, Places
<1>5. CASE Begin(a) \/ Unqueue(a)
  <2>1. pc'[a] \in {"queued", "dying", "returned"}
    <3>1. CASE Refused(a)
      BY <3>1, GoneTo, Returned DEF Refused
    <3>2. CASE ~Refused(a)
      BY <3>2, <1>5 DEF Begin, Unqueue, SessionState, SessionInductive
    <3> QED BY <3>1, <3>2
  <2>2. lock' = lock /\ pc[a] \in {"idle", "queued"} /\ UNCHANGED vars
    BY <1>5 DEF Begin, Unqueue, Alone
  <2> QED BY <2>1, <2>2 DEF Goal, LockMoves, LockedPlaces
<1>6. CASE Register(a)
  <2>1. pc'[a] \in {"entering", "dying", "returned"}
    <3>1. CASE pc' = [pc EXCEPT ![a] = "entering"]
      BY <3>1 DEF SessionState, SessionInductive
    <3> QED BY <3>1, <1>1, <1>2, <1>6 DEF Register
  <2> QED BY <1>6, <2>1 DEF Goal, LockMoves, LockedPlaces, Register
<1>7. CASE EnterWrite(a) \/ WriteReturns(a) \/ Poison(a)
  <2>1. pc'[a] \in {"writing", "poisoning", "wrote"} /\ lock' = lock /\ UNCHANGED vars
        /\ pc[a] \in {"entering", "writing", "poisoning"}
    BY <1>1, <1>7 DEF EnterWrite, WriteReturns, Poison
  <2> QED BY <2>1 DEF Goal, LockMoves, LockedPlaces
<1>8. CASE WriteCommitted(a) \/ AbortUnsent(a)
  <2>1. pc'[a] \in {"awaiting", "draining", "dying", "returned"} /\ pc[a] = "wrote"
        /\ lock' = lock /\ LockFree
    BY <1>1, <1>2, <1>8 DEF WriteCommitted, AbortUnsent, AfterNotSent
  <2> QED BY <2>1 DEF Goal, LockMoves, LockedPlaces
<1>9. CASE Contradicted(a) \/ ContradictedBranch(a)
  <2>1. pc'[a] \in LockedPlaces
    BY <1>1, <1>4, <1>9 DEF Contradicted, ContradictedBranch
  <2> QED BY <1>3, <1>9, <2>1 DEF Goal, LockMoves, Contradicted, ContradictedBranch
<1>10. CASE ContradictionKill(a) \/ SettleBranch(a)
  <2>1. pc'[a] \in {"teardown", "returned"} /\ lock = a /\ lock' = Nobody
    BY <1>1, <1>2, <1>10 DEF ContradictionKill, SettleBranch, Unlock
  <2> QED BY <2>1 DEF Goal, LockMoves, LockedPlaces
<1>11. CASE CallDies(a) \/ CallTeardown(a)
  <2>1. pc'[a] \in {"teardown", "settling", "returned"} /\ lock' = lock
        /\ pc[a] \in {"dying", "wrote", "teardown"} /\ (LockFree \/ UNCHANGED vars)
    BY <1>1, <1>2, <1>11 DEF CallDies, CallTeardown
  <2> QED BY <2>1 DEF Goal, LockMoves, LockedPlaces
<1>12. CASE SettleWrite(a)
  <2>1. LockFree /\ pc[a] = "settling"
    BY <1>12 DEF SettleWrite
  <2>2. \/ lock' = a /\ pc'[a] = "settlingBranch"
        \/ lock' = lock /\ pc'[a] = "returned"
    BY <1>1, <1>2, <1>12 DEF SettleWrite
  <2> QED BY <2>1, <2>2 DEF Goal, LockMoves, LockedPlaces
<1>13. CASE Answered(a) \/ PingAnswered(a) \/ GiveUp(a) \/ PingDrained(a)
  <2>1. pc'[a] \in {"dying", "returned"} /\ lock' = lock /\ pc[a] \in {"awaiting", "draining"}
        /\ (LockFree \/ UNCHANGED vars)
    BY <1>1, <1>2, <1>13 DEF Answered, PingAnswered, GiveUp, PingDrained, Alone
  <2> QED BY <2>1 DEF Goal, LockMoves, LockedPlaces
<1> QED BY <1>5, <1>6, <1>7, <1>8, <1>9, <1>10, <1>11, <1>12, <1>13 DEF Dispatch, Proceed

\* A step of a call leaves the other calls where they are.
LEMMA DispatchOthers ==
    ASSUME SessionState, NEW a \in Own, Begin(a) \/ Dispatch(a)
    PROVE  \A x \in Own \ {a} : CallSame(x)
<1> DEFINE Goal == \A x \in Own \ {a} : CallSame(x)
<1>0. pc \in [Own -> Places] /\ disp \in [Own -> Dispositions] /\ result \in [Own -> Results]
  BY DEF SessionState, SessionInductive
<1>1. ASSUME (\E p : Goto(a, p)) \/ (\E r : Return(a, r)),
             disp' = disp \/ (\E d : disp' = [disp EXCEPT ![a] = d])
      PROVE  Goal
  BY <1>0, <1>1 DEF Goto, Return, CallSame
<1> HIDE DEF Goal
<1> SUFFICES Goal
  BY DEF Goal
<1>2. CASE Begin(a) \/ Unqueue(a)
  <2>1. CASE Refused(a)
    BY <1>1, <1>2, <2>1 DEF Refused, Begin, Unqueue, Alone
  <2>2. CASE ~Refused(a)
    BY <1>0, <1>2, <2>2 DEF Begin, Unqueue, Alone, Goal, CallSame
  <2> QED BY <2>1, <2>2
<1>3. CASE Register(a)
  <2>1. CASE pc' = [pc EXCEPT ![a] = "entering"] /\ UNCHANGED result
    BY <1>0, <1>3, <2>1 DEF Register, Goal, CallSame
  <2> QED BY <1>1, <1>3, <2>1 DEF Register
<1>4. CASE EnterWrite(a) \/ WriteReturns(a) \/ Poison(a)
  BY <1>1, <1>4 DEF EnterWrite, WriteReturns, Poison
<1>5. CASE WriteCommitted(a) \/ AbortUnsent(a) \/ Contradicted(a) \/ ContradictedBranch(a)
  BY <1>1, <1>5 DEF WriteCommitted, AbortUnsent, AfterNotSent, Contradicted, ContradictedBranch
<1>6. CASE ContradictionKill(a) \/ SettleBranch(a) \/ CallDies(a) \/ CallTeardown(a)
  BY <1>1, <1>6 DEF ContradictionKill, SettleBranch, CallDies, CallTeardown
<1>7. CASE SettleWrite(a) \/ Answered(a) \/ PingAnswered(a)
  BY <1>1, <1>7 DEF SettleWrite, Answered, PingAnswered, Alone
<1>8. CASE GiveUp(a) \/ PingDrained(a)
  BY <1>1, <1>8 DEF GiveUp, PingDrained, Alone
<1> QED BY <1>2, <1>3, <1>4, <1>5, <1>6, <1>7, <1>8 DEF Dispatch, Proceed

\* The workers make their calls while nobody holds the lock, and touch no call.
LEMMA WorkerFrame ==
    ASSUME WorkerMoves
    PROVE  /\ UNCHANGED <<lock, pc, disp, result, slotVar>>
           /\ LockFree \/ UNCHANGED list
<1> USE DEF effectVars, callVars, callers, workers, readerFrame, expiryFrame, closerFrame, connVars
<1>1. CASE \E b \in Branches : CloseHandle(b)
  BY <1>1 DEF CloseHandle
<1>2. CASE ReadReturns \/ RouteOne
  BY <1>2 DEF ReadReturns, RouteOne, vars, listVars
<1>3. CASE ReaderFails
  BY <1>3 DEF ReaderFails, vars, listVars
<1>4. CASE ExpiryLoop
  BY <1>4 DEF ExpiryLoop, ExpiryLooks, ExpiryWakes, ExpiryFires, ExpiryTearsDown, vars, listVars
<1>5. CASE KeepaliveStops \/ CloseClient \/ CloserTearsDown \/ CloseDone
  BY <1>5 DEF KeepaliveStops, CloseClient, CloserTearsDown, CloseDone, vars, listVars
<1>6. CASE Clock
  BY <1>6 DEF Clock, sessionVars, Tick, listVars, slotVar
<1> QED BY <1>1, <1>2, <1>3, <1>4, <1>5, <1>6 DEF WorkerMoves

\* The places, the results and the tickets of all calls stay consistent.
LEMMA CallsKept ==
    ASSUME SessionState, TicketInductive', [SessionNext]_allVars
    PROVE  \A x \in Own : /\ (pc[x] \in LockedPlaces <=> lock = x)'
                          /\ TicketAt(x)' /\ ResultPart(x)'
<1>1. [Next]_vars /\ (Terminated => Terminated')
  BY SessionCalls, CauseKept DEF Terminated
<1>2. \A x \in Own : pc[x] \in LockedPlaces <=> lock = x
  BY DEF SessionState, CallInductive
<1>3. ASSUME NEW a \in Own, Begin(a) \/ Dispatch(a), NEW x \in Own
      PROVE  /\ (pc[x] \in LockedPlaces <=> lock = x)'
             /\ TicketAt(x)' /\ ResultPart(x)'
  <2>1. LockMoves(a) /\ (LockFree \/ lock = a \/ UNCHANGED vars)
    BY <1>3, DispatchLock
  <2>2. CASE x = a
    <3>1. (pc[a] \in LockedPlaces <=> lock = a)'
      BY <1>2, <2>1, NobodyAssumption DEF LockMoves
    <3>2. TicketAt(a)' /\ ResultPart(a)'
      <4>1. CASE \/ Begin(a) \/ Unqueue(a) \/ EnterWrite(a) \/ WriteReturns(a) \/ Poison(a)
                 \/ CallTeardown(a) \/ PingAnswered(a) \/ PingDrained(a)
        BY <4>1, EarlySteps
      <4>2. CASE WriteCommitted(a) \/ Contradicted(a)
        <5>1. CommitWrite(a) /\ pc[a] = "wrote" /\ pc'[a] \in {"awaiting", "contradicted"}
          BY <4>2, GoneTo DEF WriteCommitted, Contradicted
        <5> QED BY <5>1, CommittedTicket
      <4>3. CASE Register(a) \/ AbortUnsent(a)
        BY <4>3, RegisterTicket, AbortTicket
      <4>4. CASE ContradictedBranch(a) \/ ContradictionKill(a)
        BY <4>4, ContradictedTicket
      <4>5. CASE CallDies(a) \/ SettleWrite(a) \/ SettleBranch(a)
        BY <4>5, DeadTicket
      <4>6. CASE Answered(a) \/ GiveUp(a)
        BY <4>6, AnsweredTicket, GiveUpTicket
      <4> QED BY <1>3, <4>1, <4>2, <4>3, <4>4, <4>5, <4>6 DEF Dispatch, Proceed
    <3> QED BY <2>2, <3>1, <3>2
  <2>3. CASE x # a
    <3>1. CallSame(x)
      BY <1>3, <2>3, DispatchOthers
    <3>2. Shared(x)
      <4>1. SharedCall => Shared(x)
        BY SharedCalls DEF SessionState
      <4>2. ASSUME OwnCall(a) PROVE Shared(x)
        <5>1. TicketSame(x)
          BY <2>3, <4>2, OwnCallTicket DEF SessionState
        <5> QED BY <5>1 DEF Shared, TicketSame, SameOpen
      <4> QED BY <1>3, <4>1, <4>2, DispatchKinds
    <3>3. lock = x => UNCHANGED list
      BY <2>1, <2>3, NobodyAssumption DEF LockFree, vars, listVars
    <3>4. (pc[x] \in LockedPlaces <=> lock = x)'
      BY <1>2, <2>1, <2>3, <3>1, NobodyAssumption DEF LockMoves, LockFree, CallSame
    <3> QED BY <1>1, <3>1, <3>2, <3>3, <3>4, OtherCallKept
  <2> QED BY <2>2, <2>3
<1>4. ASSUME WorkerMoves \/ UNCHANGED allVars, NEW x \in Own
      PROVE  /\ (pc[x] \in LockedPlaces <=> lock = x)'
             /\ TicketAt(x)' /\ ResultPart(x)'
  <2>1. /\ UNCHANGED <<lock, pc, disp, result>>
        /\ LockFree \/ UNCHANGED list
    BY <1>4, WorkerFrame DEF allVars, sessionVars, callVars, vars, listVars
  <2>2. Shared(x)
    <3>1. SharedCall
      BY <1>4, WorkerKinds DEF SharedCall, allVars
    <3> QED BY <3>1, SharedCalls DEF SessionState
  <2>3. CallSame(x) /\ (lock = x => UNCHANGED list)
    BY <2>1, NobodyAssumption DEF CallSame, LockFree
  <2>4. (pc[x] \in LockedPlaces <=> lock = x)'
    BY <1>2, <2>1
  <2> QED BY <1>1, <2>2, <2>3, <2>4, OtherCallKept
<1> QED BY <1>3, <1>4, SessionMoves

----------------------------------------------------------------------------
(* The waiters                                                             *)

Settled == {"success", "error", "dead"}

WaiterFact(x) ==
    /\ x \in waiters <=> Waiting(x)
    /\ chan[x] = IF outcome[x] \in Settled THEN outcome[x] ELSE "empty"

LEMMA WaiterFacts ==
    WaiterPart <=> /\ waiters \subseteq Own /\ (Terminated <=> dead) /\ DOMAIN chan = Own
                   /\ \A x \in Own : WaiterFact(x)
  BY DEF WaiterPart, WaiterFact, Settled

\* No ticket starts or stops waiting.
LEMMA WaitersSame ==
    ASSUME WaiterPart, UNCHANGED <<root, waiters, chan, dead>>,
           \A x \in Own : (Waiting(x)' <=> Waiting(x)) /\ outcome'[x] = outcome[x]
    PROVE  WaiterPart'
<1>1. waiters \subseteq Own /\ (Terminated <=> dead) /\ DOMAIN chan = Own /\ \A x \in Own : WaiterFact(x)
  BY WaiterFacts
<1>2. \A x \in Own : WaiterFact(x)'
  BY <1>1 DEF WaiterFact
<1>3. waiters' \subseteq Own /\ (Terminated' <=> dead') /\ DOMAIN chan' = Own
  BY <1>1 DEF Terminated
<1>4. (WaiterPart <=> /\ waiters \subseteq Own /\ (Terminated <=> dead) /\ DOMAIN chan = Own
                      /\ \A x \in Own : WaiterFact(x))'
  BY WaiterFacts, PTL
<1> QED BY <1>2, <1>3, <1>4

\* The call a stops waiting without a completion.
LEMMA WaiterLeaves ==
    ASSUME WaiterPart, NEW a \in Own, waiters' = waiters \ {a}, UNCHANGED <<root, chan, dead>>,
           \A x \in Own \ {a} : TicketSame(x),
           ~Waiting(a)', outcome'[a] = outcome[a] \/ (outcome'[a] \in GivenUp /\ chan[a] = "empty")
    PROVE  WaiterPart'
<1>1. waiters \subseteq Own /\ (Terminated <=> dead) /\ DOMAIN chan = Own /\ \A x \in Own : WaiterFact(x)
  BY WaiterFacts
<1>2. \A x \in Own \ {a} : WaiterFact(x)'
  BY <1>1 DEF WaiterFact, TicketSame, Waiting
<1>3. WaiterFact(a)'
  BY <1>1 DEF WaiterFact, GivenUp, Settled
<1>4. waiters' \subseteq Own /\ (Terminated' <=> dead') /\ DOMAIN chan' = Own
  BY <1>1 DEF Terminated
<1>5. (WaiterPart <=> /\ waiters \subseteq Own /\ (Terminated <=> dead) /\ DOMAIN chan = Own
                      /\ \A x \in Own : WaiterFact(x))'
  BY WaiterFacts, PTL
<1> QED BY <1>2, <1>3, <1>4, <1>5

\* Every completion of the call goes to its waiter, and death ends every wait.
LEMMA Delivered ==
    ASSUME WaiterPart, TicketInductive, TicketInductive', Deliver,
           \A x \in Own : Shared(x), Terminated' <=> dead'
    PROVE  WaiterPart'
<1>1. waiters \subseteq Own /\ (Terminated <=> dead) /\ DOMAIN chan = Own /\ \A x \in Own : WaiterFact(x)
  BY WaiterFacts
<1>2. ASSUME NEW x \in Own PROVE WaiterFact(x)'
  <2>1. /\ outcome[x] = "none" <=> ~Admitted(x) \/ Waiting(x)
        /\ Waiting(x) => Admitted(x)
    BY OutcomeFacts
  <2>2. Waiting(x)' => ~dead'
    BY DEF TicketInductive, BranchInductive, SlotInductive, PendingPart
  <2>3. /\ x \in Completions <=> outcome'[x] # outcome[x] /\ outcome'[x] \in Settled
        /\ chan'[x] = IF x \in waiters \cap Completions THEN outcome'[x]
                      ELSE IF x \in waiters /\ Terminated' THEN "dead" ELSE chan[x]
        /\ waiters' = IF Terminated' THEN {} ELSE waiters \ Completions
    BY DEF Deliver, Completions, Settled
  <2>4. CASE TicketSame(x)
    <3>1. outcome'[x] = outcome[x] /\ (Waiting(x)' <=> Waiting(x)) /\ x \notin Completions
      BY <2>3, <2>4 DEF TicketSame, Waiting
    <3>2. x \in waiters => ~Terminated'
      BY <1>1, <2>2, <3>1 DEF WaiterFact
    <3>3. Terminated' => ~Waiting(x)'
      BY <2>2
    <3> QED BY <1>1, <2>3, <3>1, <3>2, <3>3 DEF WaiterFact
  <2>5. CASE TicketEnds(x)
    <3>1. /\ Waiting(x) /\ ~Waiting(x)' /\ outcome'[x] \in Settled /\ outcome[x] = "none"
      BY <2>1, <2>5 DEF TicketEnds, Waiting, Completed, Settled
    <3>2. x \in waiters /\ x \in Completions
      BY <1>1, <2>3, <3>1 DEF WaiterFact, Settled
    <3>3. chan'[x] = outcome'[x] /\ x \notin waiters'
      BY <2>3, <3>2
    <3> QED BY <3>1, <3>3 DEF WaiterFact
  <2> QED BY <2>4, <2>5 DEF Shared
<1>3. waiters' \subseteq Own /\ DOMAIN chan' = Own
  BY <1>1 DEF Deliver
<1>4. (WaiterPart <=> /\ waiters \subseteq Own /\ (Terminated <=> dead) /\ DOMAIN chan = Own
                      /\ \A x \in Own : WaiterFact(x))'
  BY WaiterFacts, PTL
<1> QED BY <1>2, <1>3, <1>4

\* These calls end no wait.
LEMMA NoWaitEnds ==
    ASSUME TicketInductive, NEW a \in Own,
           \/ CommitWrite(a)
           \/ a \in Follows /\ (AdoptFollow(a) \/ CloseFollow(a))
           \/ a \in Lists /\ (AdoptList(a) \/ CloseList(a) \/ CloseListBranch(a))
           \/ ConsumerStep \/ Tick \/ UNCHANGED vars
    PROVE  /\ dead' = dead
           /\ \A x \in Own : (Waiting(x)' <=> Waiting(x)) /\ outcome'[x] = outcome[x]
<1>1. CASE (a \in Lists /\ CloseListBranch(a)) \/ ConsumerStep \/ Tick \/ UNCHANGED vars
  <2>1. ConsumerStep \/ Tick \/ UNCHANGED vars
    BY <1>1 DEF ConsumerStep, Branches, Close
  <2>2. UNCHANGED <<pstate, outcome>>
    BY <2>1, ConsumerTickets
  <2>3. dead' = dead
    BY <2>1 DEF ConsumerStep, Subscribe, Close, CloseSub, CloseFollowBranch, CloseListBranch,
                TakeItem, TakeEmpty, Tick, vars, lifeVars
  <2> QED BY <2>2, <2>3 DEF Waiting
<1>2. CASE ~((a \in Lists /\ CloseListBranch(a)) \/ ConsumerStep \/ Tick \/ UNCHANGED vars)
  <2>1. OwnCall(a) /\ dead' = dead /\ outcome' = outcome
    BY <1>2 DEF OwnCall, CommitWrite, AdoptFollow, CloseFollow, AdoptList, CloseList, lifeVars
  <2>2. \A x \in Own \ {a} : Waiting(x)' <=> Waiting(x)
    BY <2>1, OwnCallTicket DEF TicketSame, Waiting
  <2>3. pstate \in [Own -> {"none", "reserved", "inFlight", "completed", "released"}]
    BY TicketTyped DEF TicketInductive, TicketTypes
  <2>4. CASE CommitWrite(a)
    <3>1. Waiting(a)' <=> Waiting(a)
      <4>1. pstate[a] = "reserved" \/ pstate[a] = "completed"
        BY <2>4 DEF CommitWrite
      <4>2. pstate'[a] = IF pstate[a] = "reserved" THEN "inFlight" ELSE Completed(a)
        BY <2>3, <2>4 DEF CommitWrite
      <4>3. Completed(a) \in {"released", "completed"}
        BY DEF Completed
      <4> QED BY <4>1, <4>2, <4>3 DEF Waiting
    <3> QED BY <2>1, <2>2, <3>1
  <2>5. CASE ~CommitWrite(a)
    <3>1. pstate' = [pstate EXCEPT ![a] = Completed(a)]
      BY <1>2, <2>5 DEF AdoptFollow, CloseFollow, AdoptList, CloseList
    <3>2. ~Waiting(a)'
      BY <2>3, <3>1 DEF Waiting, Completed
    <3>3. ~Waiting(a)
      <4>1. outcome[a] = "success" \/ pstate[a] = "completed" \/ dead
        BY <1>2, <2>5 DEF AdoptFollow, CloseFollow, AdoptList, CloseList
      <4> QED BY <4>1, OutcomeFacts DEF Waiting
    <3> QED BY <2>1, <2>2, <3>2, <3>3
  <2> QED BY <2>4, <2>5
<1> QED BY <1>1, <1>2

\* The root cause is committed with the death of the machine.
LEMMA EffectsDie ==
    ASSUME SessionState, [Next]_vars, ApplyEffects PROVE Terminated' <=> dead'
<1>1. Terminated <=> dead
  BY DEF SessionState, CallInductive, WaiterPart
<1>2. (dead => dead') /\ (~dead /\ dead' => cause' \in Causes)
  BY DeathOnce
<1>3. "None" \notin Causes
  BY DEF Causes, FatalReasons
<1> QED BY <1>1, <1>2, <1>3 DEF ApplyEffects, Terminated

LEMMA DieLockedWaiters ==
    ASSUME SessionState, TicketInductive', NEW why, why # "None", DieLocked(why)
    PROVE  WaiterPart' /\ Terminated'
<1>1. WaiterPart /\ TicketInductive /\ (Terminated <=> dead)
  BY DEF SessionState, CallInductive, WaiterPart
<1>2. CASE Terminated
  <2>1. UNCHANGED vars /\ UNCHANGED <<root, waiters, chan, dead>> /\ [Next]_vars
    BY <1>2 DEF DieLocked, effectVars, vars, lifeVars
  <2>2. \A x \in Own : (Waiting(x)' <=> Waiting(x)) /\ outcome'[x] = outcome[x]
    BY <2>1 DEF vars, pendVars, Waiting
  <2>3. WaiterPart'
    BY <1>1, <2>1, <2>2, WaitersSame
  <2> QED BY <1>2, <2>1, <2>3 DEF Terminated
<1>3. CASE ~Terminated
  <2>1. SharedCall
    BY DieCall
  <2>2. dead' /\ Terminated' /\ Deliver
    BY <1>1, <1>3 DEF DieLocked, Kill, Die, Terminated
  <2>3. WaiterPart'
    BY <1>1, <2>1, <2>2, SharedCalls, Delivered
  <2> QED BY <2>2, <2>3
<1> QED BY <1>2, <1>3

\* A call that has its ticket stops waiting for it.
LEMMA LeftWaiting ==
    ASSUME SessionState, NEW a \in Own, OwnCall(a) \/ UNCHANGED vars,
           outcome' = outcome \/ outcome' = [outcome EXCEPT ![a] = "aborted"]
                              \/ outcome' = [outcome EXCEPT ![a] = "abandoned"],
           outcome' # outcome => Waiting(a),
           waiters' = waiters \ {a}, UNCHANGED <<root, chan, dead>>, ~Waiting(a)'
    PROVE  WaiterPart'
<1>1. \A x \in Own \ {a} : TicketSame(x)
  BY OwnCallTicket DEF SessionState, vars, pendVars, TicketSame, SameOpen
<1>2. outcome'[a] = outcome[a] \/ (outcome'[a] \in GivenUp /\ chan[a] = "empty")
  <2>1. Waiting(a) => outcome[a] = "none"
    BY OutcomeFacts DEF SessionState
  <2>2. outcome[a] = "none" => chan[a] = "empty"
    BY Known DEF KnownOf
  <2>3. outcome' # outcome => outcome'[a] \in GivenUp
    BY TicketTyped DEF SessionState, TicketInductive, TicketTypes, GivenUp
  <2> QED BY <2>1, <2>2, <2>3
<1>3. WaiterPart
  BY DEF SessionState, CallInductive
<1> QED BY <1>1, <1>2, <1>3, WaiterLeaves

LEMMA WaitersKeptByCalls ==
    ASSUME SessionState, TicketInductive', NEW a \in Own, Begin(a) \/ Dispatch(a)
    PROVE  WaiterPart'
<1>1. WaiterPart /\ TicketInductive /\ KnownOf(a)
  BY Known DEF SessionState, CallInductive
<1>2. ASSUME UNCHANGED effectVars,
             \/ CommitWrite(a)
             \/ a \in Follows /\ (AdoptFollow(a) \/ CloseFollow(a))
             \/ a \in Lists /\ (AdoptList(a) \/ CloseList(a) \/ CloseListBranch(a))
             \/ UNCHANGED vars
      PROVE  WaiterPart'
  <2>1. UNCHANGED <<root, waiters, chan>>
    BY <1>2 DEF effectVars
  <2> QED BY <1>1, <1>2, <2>1, NoWaitEnds, WaitersSame
<1>3. CASE \/ Begin(a) \/ Unqueue(a) \/ EnterWrite(a) \/ WriteReturns(a) \/ Poison(a)
           \/ CallTeardown(a) \/ PingAnswered(a) \/ PingDrained(a)
  BY <1>2, <1>3 DEF Begin, Unqueue, EnterWrite, WriteReturns, Poison, CallTeardown,
                    PingAnswered, PingDrained, Alone
<1>4. CASE Register(a)
  <2>1. CASE UNCHANGED vars /\ UNCHANGED effectVars
    BY <1>2, <2>1
  <2>2. CASE Admit(a) /\ waiters' = waiters \cup {a} /\ chan' = [chan EXCEPT ![a] = "empty"]
    <3>1. waiters \subseteq Own /\ (Terminated <=> dead) /\ DOMAIN chan = Own
          /\ \A x \in Own : WaiterFact(x)
      BY <1>1, WaiterFacts
    <3>2. root' = root /\ dead' = dead /\ outcome' = outcome /\ OwnCall(a)
      BY <1>4, <2>2 DEF Register, Admit, lifeVars, OwnCall
    <3>3. \A x \in Own \ {a} : TicketSame(x)
      BY <1>1, <3>2, OwnCallTicket
    <3>4. \A x \in Own \ {a} : WaiterFact(x)'
      BY <2>2, <3>1, <3>3 DEF WaiterFact, TicketSame, Waiting
    <3>5. WaiterFact(a)'
      <4>1. pstate'[a] = "reserved" /\ pstate[a] = "none"
        BY <1>1, <2>2, TicketTyped DEF Admit, TicketInductive, TicketTypes
      <4>2. outcome[a] = "none"
        BY <1>1, <4>1 DEF KnownOf, Admitted, Waiting
      <4> QED BY <2>2, <3>1, <3>2, <4>1, <4>2 DEF WaiterFact, Waiting, Settled
    <3>6. waiters' \subseteq Own /\ (Terminated' <=> dead') /\ DOMAIN chan' = Own
      BY <2>2, <3>1, <3>2 DEF Terminated
    <3>7. (WaiterPart <=> /\ waiters \subseteq Own /\ (Terminated <=> dead) /\ DOMAIN chan = Own
                          /\ \A x \in Own : WaiterFact(x))'
      BY WaiterFacts, PTL
    <3> QED BY <3>4, <3>5, <3>6, <3>7
  <2> QED BY <1>4, <2>1, <2>2 DEF Register, effectVars
<1>5. CASE WriteCommitted(a) \/ Contradicted(a)
  BY <1>2, <1>5 DEF WriteCommitted, Contradicted
<1>6. CASE ContradictedBranch(a)
  BY <1>2, <1>6 DEF ContradictedBranch
<1>7. CASE SettleBranch(a) \/ Answered(a)
  BY <1>2, <1>7 DEF SettleBranch, Answered, ReleaseAfterDeath, ReleaseRejected, Tolerated
<1>8. CASE AbortUnsent(a)
  <2>1. UNCHANGED <<root, chan>> /\ waiters' = waiters \ {a} /\ pc[a] = "wrote"
    BY <1>8 DEF AbortUnsent
  <2>2. CASE AbortNotSent(a)
    <3>1. dead' = dead /\ OwnCall(a)
      BY <2>2 DEF AbortNotSent, lifeVars, OwnCall
    <3>2. ~Waiting(a)'
      <4>1. pstate' = [pstate EXCEPT ![a] = Completed(a)]
        BY <2>2 DEF AbortNotSent
      <4>2. Completed(a) \in {"released", "completed"}
        BY DEF Completed
      <4> QED BY <1>1, <4>1, <4>2, TicketTyped DEF TicketInductive, TicketTypes, Waiting
    <3>3. outcome' = outcome \/ (outcome' = [outcome EXCEPT ![a] = "aborted"] /\ Waiting(a))
      BY <2>2 DEF AbortNotSent, Waiting
    <3> QED BY <2>1, <3>1, <3>2, <3>3, LeftWaiting
  <2>3. CASE UNCHANGED vars /\ chan[a] = "dead"
    <3>1. dead' = dead /\ outcome' = outcome /\ (Waiting(a)' <=> Waiting(a))
      BY <2>3 DEF vars, lifeVars, pendVars, Waiting
    <3>2. outcome[a] = "dead"
      BY <1>1, <2>3 DEF KnownOf
    <3>3. ~Waiting(a)
      BY <1>1, <3>2 DEF KnownOf
    <3> QED BY <2>1, <2>3, <3>1, <3>3, LeftWaiting
  <2> QED BY <1>8, <2>2, <2>3 DEF AbortUnsent, Tolerated
<1>9. CASE ContradictionKill(a)
  <2>1. SharedCall /\ Deliver
    BY <1>9 DEF ContradictionKill, SharedCall, KillReasons
  <2>2. Terminated' <=> dead'
    <3>1. Terminated'
      BY <1>9 DEF ContradictionKill, ContradictionCause, Terminated
    <3>2. dead'
      BY <1>9 DEF ContradictionKill, Kill, Die, vars, lifeVars
    <3> QED BY <3>1, <3>2
  <2> QED BY <1>1, <2>1, <2>2, SharedCalls, Delivered
<1>10. CASE CallDies(a)
  <2>1. CallCause(a) # "None"
    BY DEF CallCause
  <2> QED BY <1>10, <2>1, DieLockedWaiters DEF CallDies
<1>11. CASE SettleWrite(a)
  <2>1. UNCHANGED <<root, chan>> /\ waiters' = waiters \ {a} /\ pc[a] = "settling"
    BY <1>11 DEF SettleWrite
  <2>2. ~Waiting(a)
    BY <1>1, <2>1 DEF KnownOf, TicketAt
  <2>3. CommitWrite(a) \/ UNCHANGED vars
    BY <1>11 DEF SettleWrite, Tolerated
  <2>4. OwnCall(a) \/ UNCHANGED vars
    BY <2>3 DEF OwnCall
  <2>5. dead' = dead /\ outcome' = outcome /\ ~Waiting(a)'
    <3>1. outcome' = outcome
      BY <2>3 DEF CommitWrite, vars, pendVars
    <3>2. dead' = dead /\ (Waiting(a)' <=> Waiting(a))
      BY <1>1, <2>3, NoWaitEnds
    <3> QED BY <2>2, <3>1, <3>2
  <2> QED BY <2>1, <2>4, <2>5, LeftWaiting
<1>12. CASE GiveUp(a)
  <2>1. ~Terminated /\ Abandon(a)
    BY <1>12, GiveUpTicket
  <2>2. UNCHANGED <<root, chan>> /\ waiters' = waiters \ {a}
    BY <1>12 DEF GiveUp
  <2>3. dead' = dead /\ OwnCall(a) /\ Waiting(a)
        /\ outcome' = [outcome EXCEPT ![a] = "abandoned"]
    BY <2>1 DEF Abandon, lifeVars, OwnCall, Waiting
  <2>4. ~Waiting(a)'
    BY <2>3, GivenUpReleased DEF Waiting
  <2> QED BY <2>2, <2>3, <2>4, LeftWaiting
<1> QED BY <1>3, <1>4, <1>5, <1>6, <1>7, <1>8, <1>9, <1>10, <1>11, <1>12 DEF Dispatch, Proceed

LEMMA WaitersKeptByWorkers ==
    ASSUME SessionState, TicketInductive', WorkerMoves \/ UNCHANGED allVars
    PROVE  WaiterPart'
<1>1. WaiterPart /\ TicketInductive
  BY DEF SessionState, CallInductive
<1>2. ASSUME UNCHANGED effectVars, ConsumerStep \/ Tick \/ UNCHANGED vars
      PROVE  WaiterPart'
  <2>1. UNCHANGED <<root, waiters, chan>>
    BY <1>2 DEF effectVars
  <2>2. /\ dead' = dead
        /\ \A x \in Own : (Waiting(x)' <=> Waiting(x)) /\ outcome'[x] = outcome[x]
    <3>1. UNCHANGED <<pstate, outcome>>
      BY <1>2, ConsumerTickets
    <3>2. dead' = dead
      BY <1>2 DEF ConsumerStep, Subscribe, Close, CloseSub, CloseFollowBranch, CloseListBranch,
                  TakeItem, TakeEmpty, Tick, vars, lifeVars
    <3> QED BY <3>1, <3>2 DEF Waiting
  <2> QED BY <1>1, <2>1, <2>2, WaitersSame
<1>3. ASSUME RouteResponse \/ RouteEvent \/ Expire, ApplyEffects PROVE WaiterPart'
  <2>1. [Next]_vars /\ SharedCall /\ Deliver
    BY <1>3 DEF Next, SharedCall, ApplyEffects
  <2>2. Terminated' <=> dead'
    BY <1>3, <2>1, EffectsDie
  <2> QED BY <1>1, <2>1, <2>2, SharedCalls, Delivered
<1>4. CASE \E b \in Branches : CloseHandle(b)
  <2>1. ConsumerStep
    BY <1>4 DEF CloseHandle, ConsumerStep
  <2> QED BY <1>2, <1>4, <2>1 DEF CloseHandle
<1>5. CASE ReadReturns \/ KeepaliveStops \/ CloserTearsDown \/ CloseDone
  BY <1>2, <1>5 DEF ReadReturns, KeepaliveStops, CloserTearsDown, CloseDone
<1>6. CASE RouteOne
  BY <1>2, <1>3, <1>6 DEF RouteOne
<1>7. CASE ReaderFails
  BY <1>2, <1>7, DieLockedWaiters DEF ReaderFails, ReaderYields
<1>8. CASE ExpiryLoop
  BY <1>2, <1>3, <1>8 DEF ExpiryLoop, ExpiryLooks, ExpiryWakes, ExpiryFires, ExpiryTearsDown
<1>9. CASE CloseClient
  BY <1>9, DieLockedWaiters DEF CloseClient
<1>10. CASE Clock
  BY <1>2, <1>10 DEF Clock, sessionVars
<1>11. CASE UNCHANGED allVars
  BY <1>2, <1>11 DEF allVars, sessionVars
<1> QED BY <1>4, <1>5, <1>6, <1>7, <1>8, <1>9, <1>10, <1>11 DEF WorkerMoves

----------------------------------------------------------------------------
(* The write slot                                                          *)

LEMMA SlotKept ==
    ASSUME WriteSlotPart, UNCHANGED slotVar, NEW a \in Own,
           \A x \in Own \ {a} : pc'[x] = pc[x],
           pc[a] # "queued" \/ writeSem = a, pc'[a] \in SlotPlaces
    PROVE  WriteSlotPart'
<1>1. writeSem' = writeSem /\ semQueue' = semQueue
  BY DEF slotVar
<1>2. a \notin ToSet(semQueue)
  BY DEF WriteSlotPart
<1>3. ToSet(semQueue) \subseteq Own
  BY DEF WriteSlotPart, ToSet
<1>4. \A x \in ToSet(semQueue) : pc'[x] = "queued" /\ writeSem # x
  BY <1>2, <1>3 DEF WriteSlotPart
<1>5. \A x \in Own : writeSem = x => pc'[x] \in SlotPlaces
  BY DEF WriteSlotPart
<1> QED BY <1>1, <1>4, <1>5 DEF WriteSlotPart

\* What the step of a call does to the write slot.
SlotMove(a) ==
    \/ Enqueue(a) /\ pc[a] = "idle" /\ pc'[a] = "queued"
    \/ LeaveSlot(a)
    \/ UNCHANGED slotVar /\ (pc[a] # "queued" \/ writeSem = a) /\ pc'[a] \in SlotPlaces

LEMMA SlotEntered ==
    ASSUME WriteSlotPart, NEW a \in Own, Enqueue(a), pc[a] = "idle", pc'[a] = "queued",
           \A x \in Own \ {a} : pc'[x] = pc[x]
    PROVE  WriteSlotPart'
<1>1. a \notin ToSet(semQueue) /\ writeSem # a
  BY DEF WriteSlotPart, SlotPlaces
<1>2. "queued" \in SlotPlaces
  BY DEF SlotPlaces, Places
<1>3. ToSet(semQueue) \subseteq Own
  BY DEF WriteSlotPart, ToSet
<1>4. CASE writeSem = Nobody
  <2>1. writeSem' = a /\ semQueue' = semQueue
    BY <1>4 DEF Enqueue
  <2> QED BY <1>1, <1>2, <1>3, <2>1 DEF WriteSlotPart
<1>5. CASE writeSem # Nobody
  <2>1. writeSem' = writeSem /\ semQueue' = Append(semQueue, a)
    BY <1>5 DEF Enqueue
  <2>2. semQueue \in Seq(Own) /\ IsInjective(semQueue)
    BY DEF WriteSlotPart
  <2>3. ToSet(semQueue') = ToSet(semQueue) \cup {a} /\ IsInjective(semQueue')
        /\ semQueue' \in Seq(Own)
    BY <1>1, <2>1, <2>2, AppendSet, AppendDistinct
  <2> QED BY <1>1, <1>3, <2>1, <2>3 DEF WriteSlotPart
<1> QED BY <1>4, <1>5

\* The tail of a queue without repetitions has lost its head alone.
LEMMA TailSet ==
    ASSUME NEW S, NEW q \in Seq(S), q # <<>>, IsInjective(q)
    PROVE  /\ Tail(q) \in Seq(S) /\ IsInjective(Tail(q)) /\ Head(q) \in ToSet(q)
           /\ ToSet(Tail(q)) = ToSet(q) \ {Head(q)}
<1>1. /\ Len(q) \in Nat /\ Len(q) # 0 /\ DOMAIN q = 1..Len(q) /\ Head(q) = q[1]
      /\ Tail(q) \in Seq(S) /\ DOMAIN Tail(q) = 1..(Len(q) - 1)
      /\ \A i \in 1..(Len(q) - 1) : Tail(q)[i] = q[i + 1]
  OBVIOUS
<1>2. \A i, j \in 1..Len(q) : q[i] = q[j] => i = j
  BY <1>1 DEF IsInjective
<1>3. IsInjective(Tail(q))
  <2>1. SUFFICES ASSUME NEW i \in 1..(Len(q) - 1), NEW j \in 1..(Len(q) - 1),
                        Tail(q)[i] = Tail(q)[j]
                 PROVE  i = j
    BY <1>1 DEF IsInjective
  <2>2. i + 1 \in 1..Len(q) /\ j + 1 \in 1..Len(q) /\ q[i + 1] = q[j + 1]
    BY <1>1, <2>1
  <2>3. i + 1 = j + 1
    BY <1>2, <2>2
  <2> QED BY <2>3
<1>4. Head(q) \in ToSet(q)
  BY <1>1 DEF ToSet
<1>5. ASSUME NEW x \in ToSet(Tail(q)) PROVE x \in ToSet(q) \ {Head(q)}
  <2>1. PICK i \in 1..(Len(q) - 1) : x = Tail(q)[i]
    BY <1>1, <1>5 DEF ToSet
  <2>2. i + 1 \in 1..Len(q) /\ 1 \in 1..Len(q) /\ i + 1 # 1 /\ x = q[i + 1]
    BY <1>1, <2>1
  <2>3. x # q[1] /\ x \in ToSet(q)
    BY <1>1, <1>2, <2>2 DEF ToSet
  <2> QED BY <1>1, <2>3
<1>6. ASSUME NEW x \in ToSet(q) \ {Head(q)} PROVE x \in ToSet(Tail(q))
  <2>1. PICK i \in 1..Len(q) : x = q[i]
    BY <1>1, <1>6 DEF ToSet
  <2>2. i # 1
    BY <1>1, <1>6, <2>1
  <2>3. i - 1 \in 1..(Len(q) - 1) /\ (i - 1) + 1 = i
    BY <1>1, <2>2
  <2>4. Tail(q)[i - 1] = x
    BY <1>1, <2>1, <2>3
  <2> QED BY <1>1, <2>3, <2>4 DEF ToSet
<1> QED BY <1>1, <1>3, <1>4, <1>5, <1>6

LEMMA SlotLeft ==
    ASSUME WriteSlotPart, NEW a \in Own, LeaveSlot(a), \A x \in Own \ {a} : pc'[x] = pc[x]
    PROVE  WriteSlotPart'
<1>1. /\ semQueue \in Seq(Own) /\ IsInjective(semQueue) /\ ToSet(semQueue) \subseteq Own
      /\ writeSem \in Own \cup {Nobody}
  BY DEF WriteSlotPart, ToSet
<1>2. CASE writeSem # a
  <2>1. writeSem' = writeSem /\ semQueue' = Without(semQueue, {a})
    BY <1>2 DEF LeaveSlot
  <2>2. semQueue' \in Seq(Own) /\ IsInjective(semQueue') /\ ToSet(semQueue') = ToSet(semQueue) \ {a}
    BY <1>1, <2>1, WithoutEffect
  <2> QED BY <1>1, <1>2, <2>1, <2>2 DEF WriteSlotPart
<1>3. CASE writeSem = a /\ semQueue = <<>>
  <2>1. writeSem' = Nobody /\ semQueue' = <<>>
    BY <1>3 DEF LeaveSlot
  <2>2. ToSet(<<>>) = {}
    BY DEF ToSet
  <2> QED BY <1>1, <1>3, <2>1, <2>2, NobodyAssumption DEF WriteSlotPart
<1>4. CASE writeSem = a /\ semQueue # <<>>
  <2>1. writeSem' = Head(semQueue) /\ semQueue' = Tail(semQueue)
    BY <1>4 DEF LeaveSlot
  <2>2. /\ semQueue' \in Seq(Own) /\ IsInjective(semQueue') /\ writeSem' \in ToSet(semQueue)
        /\ ToSet(semQueue') = ToSet(semQueue) \ {writeSem'}
    BY <1>1, <1>4, <2>1, TailSet
  <2>3. \A x \in ToSet(semQueue) : pc'[x] = "queued"
    BY <1>1, <1>4 DEF WriteSlotPart
  <2>4. "queued" \in SlotPlaces
    BY DEF SlotPlaces, Places
  <2> QED BY <1>1, <2>2, <2>3, <2>4 DEF WriteSlotPart
<1> QED BY <1>2, <1>3, <1>4

LEMMA SlotMoves ==
    ASSUME SessionState, NEW a \in Own, Begin(a) \/ Dispatch(a)
    PROVE  SlotMove(a)
<1> DEFINE Goal == SlotMove(a)
<1> HIDE DEF Goal
<1> SUFFICES Goal
  BY DEF Goal
<1>1. ASSUME LeaveSlot(a) PROVE Goal
  BY <1>1 DEF Goal, SlotMove
<1>2. ASSUME NEW r, Return(a, r) PROVE Goal
  BY <1>1, <1>2 DEF Return
<1>3. ASSUME NEW place \in SlotPlaces, Goto(a, place), UNCHANGED slotVar, pc[a] # "queued"
      PROVE  Goal
  BY <1>3, GoneTo DEF Goal, SlotMove
<1>4. \A p \in Places \ {"idle", "awaiting", "returned"} : p \in SlotPlaces
  BY DEF SlotPlaces
<1>5. CASE Begin(a) \/ Unqueue(a)
  <2>1. CASE Refused(a)
    BY <1>1, <1>2, <2>1 DEF Refused
  <2>2. CASE ~Refused(a)
    <3>1. Enqueue(a) /\ pc[a] = "idle" /\ pc' = [pc EXCEPT ![a] = "queued"]
      BY <1>5, <2>2 DEF Begin, Unqueue
    <3> QED BY <3>1 DEF Goal, SlotMove, SessionState, SessionInductive
  <2> QED BY <2>1, <2>2
<1>6. CASE Register(a)
  <2>1. CASE Goto(a, "dying") /\ LeaveSlot(a)
    BY <1>1, <2>1
  <2>2. CASE pc' = [pc EXCEPT ![a] = "entering"] /\ UNCHANGED slotVar
    <3>1. pc'[a] = "entering" /\ "entering" \in SlotPlaces
      BY <2>2 DEF SessionState, SessionInductive, SlotPlaces, Places
    <3> QED BY <1>6, <2>2, <3>1 DEF Goal, SlotMove, Register
  <2> QED BY <1>2, <1>6, <2>1, <2>2 DEF Register
<1>7. CASE EnterWrite(a) \/ WriteReturns(a) \/ Poison(a)
  <2>1. "wrote" \in SlotPlaces /\ "writing" \in SlotPlaces /\ "poisoning" \in SlotPlaces
    BY DEF SlotPlaces, Places
  <2> QED BY <1>3, <1>7, <2>1 DEF EnterWrite, WriteReturns, Poison
<1>8. CASE WriteCommitted(a) \/ AbortUnsent(a)
  <2>1. "draining" \in SlotPlaces /\ "dying" \in SlotPlaces
    BY DEF SlotPlaces, Places
  <2> QED BY <1>1, <1>2, <1>3, <1>8, <2>1 DEF WriteCommitted, AbortUnsent, AfterNotSent
<1>9. CASE Contradicted(a) \/ ContradictedBranch(a) \/ ContradictionKill(a)
  <2>1. /\ "contradicted" \in SlotPlaces /\ "contradiction" \in SlotPlaces
        /\ "contradictedList" \in SlotPlaces /\ "teardown" \in SlotPlaces
    BY DEF SlotPlaces, Places
  <2> QED BY <1>3, <1>9, <2>1 DEF Contradicted, ContradictedBranch, ContradictionKill
<1>10. CASE CallDies(a) \/ CallTeardown(a)
  <2>1. "settling" \in SlotPlaces /\ "teardown" \in SlotPlaces
    BY DEF SlotPlaces, Places
  <2> QED BY <1>2, <1>3, <1>10, <2>1 DEF CallDies, CallTeardown
<1>11. CASE SettleWrite(a) \/ SettleBranch(a)
  <2>1. "settlingBranch" \in SlotPlaces
    BY DEF SlotPlaces, Places
  <2> QED BY <1>2, <1>3, <1>11, <2>1 DEF SettleWrite, SettleBranch
<1>12. CASE Answered(a) \/ PingAnswered(a) \/ GiveUp(a) \/ PingDrained(a)
  <2>1. "dying" \in SlotPlaces
    BY DEF SlotPlaces, Places
  <2> QED BY <1>2, <1>3, <1>12, <2>1 DEF Answered, PingAnswered, GiveUp, PingDrained
<1> QED BY <1>5, <1>6, <1>7, <1>8, <1>9, <1>10, <1>11, <1>12 DEF Dispatch, Proceed

LEMMA WriteSlotKept ==
    ASSUME SessionState, [SessionNext]_allVars PROVE WriteSlotPart'
<1>1. WriteSlotPart
  BY DEF SessionState, CallInductive
<1>2. ASSUME NEW a \in Own, Begin(a) \/ Dispatch(a) PROVE WriteSlotPart'
  <2>1. \A x \in Own \ {a} : pc'[x] = pc[x]
    BY <1>2, DispatchOthers DEF CallSame
  <2> QED BY <1>1, <1>2, <2>1, SlotMoves, SlotEntered, SlotLeft, SlotKept DEF SlotMove
<1>3. CASE WorkerMoves \/ UNCHANGED allVars
  <2>1. UNCHANGED <<pc, slotVar>>
    BY <1>3, WorkerFrame DEF allVars, sessionVars, callVars
  <2> QED BY <1>1, <2>1 DEF WriteSlotPart, slotVar
<1> QED BY <1>2, <1>3, SessionMoves

----------------------------------------------------------------------------
(* Contexts and workers                                                    *)

ExpiryPlaces == {"looking", "idle", "sleeping", "firing", "teardown", "stopped"}

LEMMA CallsLeaveWorkers ==
    ASSUME SessionState, NEW a \in Own, Begin(a) \/ Dispatch(a)
    PROVE  UNCHANGED workers /\ (ctxDone' # ctxDone => Terminated)
<1> DEFINE Goal == UNCHANGED workers /\ (ctxDone' # ctxDone => Terminated)
<1> HIDE DEF Goal
<1> SUFFICES Goal
  BY DEF Goal
<1>1. CASE \/ Begin(a) \/ Unqueue(a) \/ PingAnswered(a) \/ PingDrained(a)
  BY <1>1 DEF Goal, Begin, Unqueue, PingAnswered, PingDrained, Alone, connVars
<1>2. CASE Register(a) \/ EnterWrite(a) \/ WriteReturns(a) \/ Poison(a)
  BY <1>2 DEF Goal, Register, EnterWrite, WriteReturns, Poison, connVars
<1>3. CASE WriteCommitted(a) \/ AbortUnsent(a) \/ Contradicted(a) \/ ContradictedBranch(a)
  BY <1>3 DEF Goal, WriteCommitted, AbortUnsent, Contradicted, ContradictedBranch, connVars
<1>4. CASE ContradictionKill(a) \/ CallDies(a) \/ SettleWrite(a) \/ SettleBranch(a)
  BY <1>4 DEF Goal, ContradictionKill, CallDies, SettleWrite, SettleBranch, connVars
<1>5. CASE CallTeardown(a)
  <2>1. Terminated
    BY <1>5, Known DEF KnownOf, TicketAt, CallTeardown
  <2> QED BY <1>5, <2>1 DEF Goal, CallTeardown
<1>6. CASE Answered(a) \/ GiveUp(a)
  BY <1>6 DEF Goal, Answered, GiveUp, connVars
<1> QED BY <1>1, <1>2, <1>3, <1>4, <1>5, <1>6 DEF Dispatch, Proceed

LEMMA EndKept ==
    ASSUME SessionState, WaiterPart', [SessionNext]_allVars
    PROVE  EndPart' /\ expiry' \in ExpiryPlaces
<1> DEFINE Goal == EndPart' /\ expiry' \in ExpiryPlaces
<1> HIDE DEF Goal
<1> SUFFICES Goal
  BY DEF Goal
<1>1. EndPart /\ expiry \in ExpiryPlaces
  BY DEF SessionState, CallInductive, ExpiryPlaces
<1>2. (Terminated => Terminated') /\ (dead' => Terminated')
  BY CauseKept DEF Terminated, WaiterPart
<1>3. ASSUME UNCHANGED <<reader, expiry, closer>>, ctxDone' # ctxDone => Terminated PROVE Goal
  BY <1>1, <1>2, <1>3 DEF Goal, EndPart
<1>4. ASSUME NEW a \in Own, Begin(a) \/ Dispatch(a) PROVE Goal
  BY <1>3, <1>4, CallsLeaveWorkers DEF workers
<1>5. ASSUME NEW why, why # "None", DieLocked(why) PROVE Terminated'
  BY <1>2, <1>5 DEF DieLocked, Terminated
<1>6. CASE \/ \E b \in Branches : CloseHandle(b)
           \/ KeepaliveStops \/ CloseDone \/ Clock \/ UNCHANGED allVars
  BY <1>3, <1>6 DEF CloseHandle, KeepaliveStops, CloseDone, Clock, sessionVars, allVars,
                    workers, connVars
<1>7. CASE ReadReturns
  BY <1>1, <1>2, <1>7 DEF Goal, EndPart, ReadReturns, readerFrame, connVars
<1>8. CASE RouteOne
  <2>1. /\ expiry' = expiry /\ closer' = closer /\ ctxDone' = ctxDone
        /\ reader' = "reading" \/ (reader' = "teardown" /\ dead')
    BY <1>8 DEF RouteOne, readerFrame, connVars
  <2> QED BY <1>1, <1>2, <2>1 DEF Goal, EndPart
<1>9. CASE ReaderFails
  <2>1. expiry' = expiry /\ closer' = closer
    BY <1>9 DEF ReaderFails, readerFrame
  <2>2. \/ ctxDone' = ctxDone /\ reader' \in {"stopped", "dying"}
        \/ ctxDone' = ctxDone /\ reader' = "teardown" /\ Terminated'
        \/ Terminated' /\ reader' = "stopped"
    BY <1>1, <1>2, <1>5, <1>9 DEF ReaderFails, ReaderYields, connVars, EndPart
  <2> QED BY <1>1, <1>2, <2>1, <2>2 DEF Goal, EndPart
<1>10. CASE ExpiryLoop
  <2>1. reader' = reader /\ closer' = closer
    BY <1>10 DEF ExpiryLoop, ExpiryLooks, ExpiryWakes, ExpiryFires, ExpiryTearsDown, expiryFrame
  <2>2. CASE ExpiryLooks
    BY <1>1, <1>2, <2>1, <2>2 DEF Goal, EndPart, ExpiryLooks, connVars, ExpiryPlaces
  <2>3. CASE ExpiryWakes
    BY <1>1, <1>2, <2>1, <2>3 DEF Goal, EndPart, ExpiryWakes, connVars, ExpiryPlaces
  <2>4. CASE ExpiryFires
    <3>1. ctxDone' = ctxDone /\ (expiry' = "looking" \/ (expiry' = "teardown" /\ dead'))
      BY <2>4 DEF ExpiryFires, connVars
    <3> QED BY <1>1, <1>2, <2>1, <3>1 DEF Goal, EndPart, ExpiryPlaces
  <2>5. CASE ExpiryTearsDown
    BY <1>1, <1>2, <2>1, <2>5 DEF Goal, EndPart, ExpiryTearsDown, ExpiryPlaces
  <2> QED BY <1>10, <2>2, <2>3, <2>4, <2>5 DEF ExpiryLoop
<1>11. CASE CloseClient
  <2>1. Terminated'
    BY <1>5, <1>11 DEF CloseClient
  <2>2. reader' = reader /\ expiry' = expiry
    BY <1>11 DEF CloseClient, closerFrame
  <2> QED BY <1>1, <2>1, <2>2 DEF Goal, EndPart
<1>12. CASE CloserTearsDown
  <2>1. Terminated' /\ reader' = reader /\ expiry' = expiry
    BY <1>1, <1>2, <1>12 DEF CloserTearsDown, closerFrame, EndPart
  <2> QED BY <1>1, <2>1 DEF Goal, EndPart
<1> QED BY <1>4, <1>6, <1>7, <1>8, <1>9, <1>10, <1>11, <1>12, SessionMoves DEF WorkerMoves

----------------------------------------------------------------------------
(* The deadlines                                                           *)

\* A set of numbers that is not empty has a least member.
LEMMA MinNat ==
    ASSUME NEW S \in SUBSET Nat, S # {} PROVE Min(S) \in S
<1> DEFINE B == {n \in Nat : \A k \in S : n =< k}
<1>1. SUFFICES ASSUME \A x \in S : ~\A y \in S : x =< y PROVE FALSE
  BY DEF Min
<1>2. 0 \in B
  OBVIOUS
<1>3. ASSUME NEW n \in Nat, n \in B PROVE n + 1 \in B
  <2>1. n \notin S
    BY <1>1, <1>3
  <2>2. \A k \in S : n + 1 =< k
    BY <1>3, <2>1
  <2> QED BY <2>2
<1>4. B = Nat
  <2>1. B \in SUBSET Nat
    OBVIOUS
  <2> HIDE DEF B
  <2> QED BY <1>2, <1>3, <2>1, NatInductionOnSets
<1>5. PICK k \in S : TRUE
  OBVIOUS
<1>6. k \in Nat /\ k + 1 \in Nat
  OBVIOUS
<1>7. k + 1 \in B
  BY <1>4, <1>6 DEF B
<1>8. k + 1 =< k
  BY <1>7
<1> QED BY <1>6, <1>8

LEMMA EarliestIsDated ==
    ASSUME TicketInductive, LiveRecords # {} PROVE EarliestDeadline \in Nat
<1>1. rec \in [Own -> RecordType]
  BY DEF TicketInductive, BranchInductive, SlotInductive, SlotTypeOK
<1>2. {rec[a].deadline : a \in LiveRecords} \subseteq Nat
  BY <1>1 DEF LiveRecords, RecordType
<1> QED BY <1>2, MinNat DEF EarliestDeadline

\* Nothing that the expiry loop looks at changes, or it is told.
Watched ==
    \/ Terminated'
    \/ lock' # Nobody
    \/ LockFree /\ poke'
    \/ LockFree /\ UNCHANGED <<rec, poke, expiry, wakeAt>>

LEMMA StillWatched ==
    ASSUME DeadlineWatched, Terminated => Terminated', Watched PROVE DeadlineWatched'
<1>1. CASE LockFree /\ UNCHANGED <<rec, poke, expiry, wakeAt>> /\ ~Terminated'
  <2>1. LiveRecords' = LiveRecords /\ EarliestDeadline' = EarliestDeadline
    BY <1>1 DEF LiveRecords, Live, EarliestDeadline
  <2> QED BY <1>1, <2>1 DEF DeadlineWatched
<1>2. CASE Terminated' \/ lock' # Nobody \/ poke'
  BY <1>2 DEF DeadlineWatched, LockFree
<1> QED BY <1>1, <1>2 DEF Watched

LEMMA CallsWatched ==
    ASSUME SessionState, NEW a \in Own, Begin(a) \/ Dispatch(a), Terminated => Terminated'
    PROVE  Watched
<1> DEFINE Goal == Watched
<1> HIDE DEF Goal
<1> SUFFICES Goal
  BY DEF Goal
<1>0. expiry' = expiry /\ wakeAt' = wakeAt
  BY CallsLeaveWorkers DEF workers
<1>1. ASSUME UNCHANGED rec, UNCHANGED <<lock, poke>> PROVE Goal
  BY <1>0, <1>1 DEF Goal, Watched, LockFree
<1>2. ASSUME Terminated PROVE Goal
  BY <1>2 DEF Goal, Watched
<1>3. UNCHANGED vars => UNCHANGED rec
  BY DEF vars, recVars
<1>4. CASE \/ Begin(a) \/ Unqueue(a) \/ PingAnswered(a) \/ PingDrained(a)
  BY <1>1, <1>3, <1>4 DEF Begin, Unqueue, PingAnswered, PingDrained, Alone
<1>5. CASE Register(a) \/ EnterWrite(a) \/ WriteReturns(a) \/ Poison(a)
  BY <1>1, <1>3, <1>5 DEF Register, EnterWrite, WriteReturns, Poison, Admit
<1>6. CASE WriteCommitted(a) \/ AbortUnsent(a)
  BY <1>1, <1>3, <1>6 DEF WriteCommitted, AbortUnsent, AbortNotSent, CommitWrite, recVars, Tolerated
<1>7. CASE Contradicted(a) \/ ContradictedBranch(a)
  <2>1. lock' = a
    BY <1>7 DEF Contradicted, ContradictedBranch
  <2> QED BY <2>1, NobodyAssumption DEF Goal, Watched
<1>8. CASE ContradictionKill(a)
  <2>1. Terminated'
    BY <1>8 DEF ContradictionKill, ContradictionCause, Terminated
  <2> QED BY <2>1 DEF Goal, Watched
<1>9. CASE CallDies(a)
  <2>1. Terminated'
    BY <1>9 DEF CallDies, DieLocked, CallCause, Terminated
  <2> QED BY <2>1 DEF Goal, Watched
<1>10. CASE CallTeardown(a) \/ SettleWrite(a) \/ SettleBranch(a)
  <2>1. Terminated
    BY <1>10, Known DEF KnownOf, TicketAt, CallTeardown, SettleWrite, SettleBranch
  <2> QED BY <1>2, <2>1
<1>11. CASE Answered(a)
  <2>1. CASE chan[a] = "dead"
    <3>1. Terminated
      BY <2>1, Known DEF KnownOf
    <3> QED BY <1>2, <3>1
  <2>2. CASE chan[a] # "dead"
    BY <1>1, <1>3, <1>11, <2>2 DEF Answered, ReleaseRejected, CloseFollow, AdoptFollow, AdoptList,
                                   recVars
  <2> QED BY <2>1, <2>2
<1>12. CASE GiveUp(a)
  <2>1. CASE Terminated
    BY <1>2, <2>1
  <2>2. CASE ~Terminated
    <3>1. LockFree /\ poke'
      BY <1>12, <2>2 DEF GiveUp, AbandonWaiting
    <3> QED BY <3>1 DEF Goal, Watched
  <2> QED BY <2>1, <2>2
<1> QED BY <1>4, <1>5, <1>6, <1>7, <1>8, <1>9, <1>10, <1>11, <1>12 DEF Dispatch, Proceed

LEMMA DeadlinesKept ==
    ASSUME SessionState, WaiterPart', [SessionNext]_allVars PROVE DeadlineWatched'
<1> DEFINE Goal == DeadlineWatched'
<1> HIDE DEF Goal
<1> SUFFICES Goal
  BY DEF Goal
<1>0. DeadlineWatched /\ EndPart /\ (Terminated => Terminated') /\ (dead' => Terminated')
  BY CauseKept DEF SessionState, CallInductive, Terminated, WaiterPart
<1>1. ASSUME Watched PROVE Goal
  BY <1>0, <1>1, StillWatched DEF Goal
<1>2. ASSUME NEW a \in Own, Begin(a) \/ Dispatch(a) PROVE Goal
  BY <1>0, <1>1, <1>2, CallsWatched
<1>3. ASSUME UNCHANGED vars, UNCHANGED <<lock, poke, expiry, wakeAt>> PROVE Goal
  <2>1. lock' # Nobody \/ (LockFree /\ UNCHANGED <<rec, poke, expiry, wakeAt>>)
    BY <1>3 DEF vars, recVars, LockFree
  <2> QED BY <1>1, <2>1 DEF Watched
<1>4. ASSUME Terminated' PROVE Goal
  BY <1>1, <1>4 DEF Watched
<1>5. CASE \E b \in Branches : CloseHandle(b)
  BY <1>1, <1>5 DEF CloseHandle, Watched
<1>6. CASE RouteOne
  BY <1>1, <1>6 DEF RouteOne, Watched
<1>7. CASE \/ ReadReturns \/ KeepaliveStops \/ CloserTearsDown \/ CloseDone \/ UNCHANGED allVars
  BY <1>3, <1>7 DEF ReadReturns, KeepaliveStops, CloserTearsDown, CloseDone, allVars, sessionVars,
                    readerFrame, closerFrame, workers
<1>8. ASSUME NEW why, why # "None", DieLocked(why) PROVE Goal
  BY <1>0, <1>4, <1>8 DEF DieLocked, Terminated
<1>9. CASE ReaderFails
  BY <1>3, <1>8, <1>9 DEF ReaderFails, ReaderYields, readerFrame
<1>10. CASE CloseClient
  BY <1>8, <1>10 DEF CloseClient
<1>11. CASE Clock
  <2>1. UNCHANGED <<rec, lock, poke, expiry, wakeAt>>
    BY <1>11 DEF Clock, Tick, sessionVars, workers, recVars
  <2>2. lock' # Nobody \/ LockFree
    BY <2>1 DEF LockFree
  <2> QED BY <1>1, <2>1, <2>2 DEF Watched
<1>12. CASE ExpiryLooks
  <2>1. CASE Terminated
    BY <1>0, <1>4, <2>1
  <2>2. CASE ~Terminated /\ LiveRecords = {}
    <3>1. UNCHANGED rec
      BY <1>12 DEF ExpiryLooks, vars, recVars
    <3>2. LiveRecords' = {}
      BY <2>2, <3>1 DEF LiveRecords, Live
    <3> QED BY <3>2 DEF Goal, DeadlineWatched
  <2>3. CASE ~Terminated /\ LiveRecords # {}
    <3>1. UNCHANGED rec
      BY <1>12 DEF ExpiryLooks, vars, recVars
    <3>2. EarliestDeadline' = EarliestDeadline
      BY <3>1 DEF EarliestDeadline, LiveRecords, Live
    <3>3. EarliestDeadline \in Nat
      BY <2>3, EarliestIsDated DEF SessionState
    <3>4. \/ expiry' = "sleeping" /\ wakeAt' = EarliestDeadline
          \/ expiry' = "firing"
      BY <1>12, <2>3 DEF ExpiryLooks
    <3>5. EarliestDeadline <= EarliestDeadline
      BY <3>3
    <3> QED BY <3>2, <3>4, <3>5 DEF Goal, DeadlineWatched
  <2> QED BY <2>1, <2>2, <2>3
<1>13. CASE ExpiryWakes
  <2>1. CASE ctxDone
    BY <1>0, <1>4, <2>1 DEF EndPart
  <2>2. CASE ~ctxDone
    BY <1>13, <2>2 DEF ExpiryWakes, Goal, DeadlineWatched
  <2> QED BY <2>1, <2>2
<1>14. CASE ExpiryFires
  <2>1. expiry' = "looking" \/ dead'
    BY <1>14 DEF ExpiryFires
  <2> QED BY <1>0, <1>4, <2>1 DEF Goal, DeadlineWatched
<1>15. CASE ExpiryTearsDown
  BY <1>0, <1>4, <1>15 DEF ExpiryTearsDown, EndPart
<1> QED BY <1>2, <1>5, <1>6, <1>7, <1>9, <1>10, <1>11, <1>12, <1>13, <1>14, <1>15, SessionMoves
        DEF WorkerMoves, ExpiryLoop

----------------------------------------------------------------------------
(* Tickets, waiters, slots and deadlines of the session                    *)

LEMMA CallInit == SessionInit => CallInductive
<1> SUFFICES ASSUME SessionInit PROVE CallInductive
  OBVIOUS
<1>1. Init
  BY DEF SessionInit
<1>2. ASSUME NEW a \in Own
      PROVE  /\ pc[a] = "idle" /\ result[a] = "none" /\ lock = Nobody /\ ~Waiting(a)
             /\ ~Admitted(a) /\ outcome[a] = "none" /\ ~AdoptedBranch(a) /\ chan[a] = "empty"
  <2>1. ~NoFollow.adopted /\ ~NoList.adopted
    BY DEF NoFollow, NoList
  <2> QED BY <1>1, <2>1 DEF SessionInit, Init, Waiting, Admitted, AdoptedBranch
<1>3. ASSUME NEW a \in Own
      PROVE  (pc[a] \in LockedPlaces <=> lock = a) /\ TicketAt(a) /\ ResultPart(a)
  BY <1>2, NobodyAssumption DEF LockedPlaces, TicketAt, ResultPart
<1>4. WaiterPart
  BY <1>1, <1>2 DEF WaiterPart, SessionInit, Init, Terminated
<1>5. WriteSlotPart
  <2>1. <<>> \in Seq(Own) /\ ToSet(<<>>) = {} /\ IsInjective(<<>>)
    BY DEF ToSet, IsInjective
  <2> QED BY <2>1, NobodyAssumption DEF WriteSlotPart, SessionInit
<1>6. EndPart /\ DeadlineWatched
      /\ expiry \in {"looking", "idle", "sleeping", "firing", "teardown", "stopped"}
  BY DEF EndPart, DeadlineWatched, SessionInit
<1> QED BY <1>3, <1>4, <1>5, <1>6 DEF CallInductive

LEMMA CallStep ==
    ASSUME SessionState, TicketInductive', [SessionNext]_allVars PROVE CallInductive'
<1>1. WaiterPart'
  BY SessionMoves, WaitersKeptByCalls, WaitersKeptByWorkers
<1>2. EndPart' /\ expiry' \in ExpiryPlaces /\ DeadlineWatched'
  BY <1>1, EndKept, DeadlinesKept
<1>3. WriteSlotPart'
  BY WriteSlotKept
<1>4. \A a \in Own : /\ (pc[a] \in LockedPlaces <=> lock = a)'
                     /\ TicketAt(a)' /\ ResultPart(a)'
  BY CallsKept
<1> QED BY <1>1, <1>2, <1>3, <1>4 DEF CallInductive, ExpiryPlaces

\* At every step of every goroutine the place of each call agrees with the
\* lock, with the state of its ticket and its branch in the machine, with its
\* waiter, its channel and the write slot.
THEOREM CallInvariant == SessionSpec => []CallInductive
<1>1. SessionInductive /\ TicketInductive /\ TicketInductive' /\ CallInductive
         /\ [SessionNext]_allVars => CallInductive'
  BY CallStep DEF SessionState
<1>2. SessionSpec => []TicketInductive
  BY SessionImplementsMachine, TicketInvariant, PTL
<1> QED BY CallInit, <1>1, <1>2, SessionInvariant, PTL DEF SessionSpec

LEMMA SessionHolds == SessionSpec => []SessionState
<1>1. SessionInductive /\ TicketInductive /\ CallInductive => SessionState
  BY DEF SessionState
<1>2. SessionSpec => []TicketInductive
  BY SessionImplementsMachine, TicketInvariant, PTL
<1> QED BY <1>1, <1>2, SessionInvariant, CallInvariant, PTL

\* No interleaving of a call with the reader, the expiry loop, Close and the
\* other calls drives the machine into one of its panics on a caller's
\* goroutine: CommitWrite, AbortNotSent, Abandon, CloseFollow and the adoptions
\* find the ticket in a state that they accept.
THEOREM MachineAcceptsCalls == SessionSpec => []MachineAccepts
<1>1. ASSUME SessionState, NEW a \in Own
      PROVE  /\ pc[a] = "wrote" /\ (disp[a] = "complete" \/
                   (disp[a] \in Unsent /\ chan[a] \in {"success", "error"})) => AcceptsCommit(a)
             /\ pc[a] = "wrote" /\ disp[a] \in Unsent /\ chan[a] = "empty" => AcceptsAbort(a)
             /\ pc[a] = "awaiting" /\ NoCompletionYet(a) /\ ~Terminated => AcceptsAbandon(a)
             /\ pc[a] \in {"awaiting", "contradicted"} =>
                   /\ a \in Follows /\ chan[a] = "error" => AcceptsCloseFollow(a)
                   /\ a \in Lists \cup Follows /\ chan[a] = "success" => AcceptsAdopt(a)
             /\ pc[a] = "contradictedList" => list[a].adopted
  <2>1. KnownOf(a) /\ TicketPart(a) /\ TicketAt(a)
    BY <1>1, Known DEF KnownOf
  <2>2. chan[a] = "empty" /\ outcome[a] \notin GivenUp => outcome[a] = "none"
    BY <2>1 DEF KnownOf, GivenUp
  <2>3. pc[a] = "wrote" => pstate[a] \in {"reserved", "completed"} /\ a \notin committed
    BY <2>1 DEF KnownOf, TicketAt, TicketPart, Admitted, Waiting
  <2>4. pc[a] = "wrote" /\ chan[a] = "empty" => pstate[a] = "reserved"
    BY <2>1, <2>2, <2>3 DEF KnownOf, TicketAt, Waiting
  <2>5. pc[a] = "awaiting" /\ chan[a] = "empty" => pstate[a] = "inFlight"
    BY <2>1, <2>2 DEF KnownOf, TicketAt, TicketPart, Waiting
  <2>6. ASSUME pc[a] \in {"awaiting", "contradicted"}
        PROVE  /\ a \in Follows /\ chan[a] = "error" => AcceptsCloseFollow(a)
               /\ a \in Lists \cup Follows /\ chan[a] = "success" => AcceptsAdopt(a)
    <3>1. a \in committed /\ Admitted(a) /\ Provisional(a)
      BY <2>1, <2>6 DEF TicketAt
    <3>2. chan[a] \in {"success", "error"} => outcome[a] = chan[a] /\ ~Waiting(a)
      BY <2>1, <3>1 DEF KnownOf
    <3>3. a \in folOpen \cup lstOpen /\ ~Waiting(a) => pstate[a] = "completed"
      BY <2>1, <3>1 DEF KnownOf, TicketPart, Admitted, Waiting
    <3> QED BY <3>1, <3>2, <3>3 DEF Provisional, AcceptsCloseFollow, AcceptsAdopt
  <2> QED BY <2>1, <2>3, <2>4, <2>5, <2>6 DEF AcceptsCommit, AcceptsAbort, AcceptsAbandon,
             NoCompletionYet, TicketAt
<1>2. SessionState => MachineAccepts
  BY <1>1 DEF MachineAccepts
<1> QED BY <1>2, SessionHolds, PTL

\* A waiter is registered exactly as long as its completion is owed, and the
\* death of the client leaves no caller without one.
THEOREM WaitersAreExact == SessionSpec => []WaiterIffPending
<1>1. ASSUME SessionState, NEW a \in Own, pc[a] = "awaiting", Terminated PROVE chan[a] # "empty"
  <2>1. KnownOf(a)
    BY <1>1, Known
  <2> QED BY <1>1, <2>1 DEF KnownOf, TicketAt, GivenUp
<1>2. SessionState => WaiterIffPending
  BY <1>1 DEF WaiterIffPending, SessionState, CallInductive, WaiterPart, Waiting
<1> QED BY <1>2, SessionHolds, PTL

\* Neither a context nor the death of the client takes the place of a response
\* that was committed.
THEOREM CompletionIsReturned == SessionSpec => []CompletionWins
<1>1. SessionState => CompletionWins
  BY DEF CompletionWins, SessionState, CallInductive, ResultPart, Public
<1> QED BY <1>1, SessionHolds, PTL

\* A call gives back the write slot on each of its ways out, and while the
\* client lives it leaves no ticket and no branch that nobody can release.
THEOREM NothingIsLeft == SessionSpec => []NothingLeftBehind
<1>1. ASSUME SessionState, NEW a \in Own, pc[a] = "returned" PROVE writeSem # a
  BY <1>1 DEF SessionState, CallInductive, WriteSlotPart, SlotPlaces
<1>2. ASSUME SessionState, NEW a \in Own, pc[a] = "returned", ~Terminated
      PROVE  /\ pstate[a] \in {"none", "released"}
             /\ result[a] # "ok" => /\ a \in Follows => fol[a] = NoFollow
                                    /\ a \in Lists => list[a] = NoList
  <2>1. TicketAt(a) /\ TicketPart(a) /\ HeldPart
    BY <1>2, Known DEF KnownOf, SessionState, TicketInductive
  <2>2. pstate[a] \in {"none", "released"}
    BY <1>2, <2>1 DEF TicketAt
  <2>3. /\ a \in Follows /\ ~Admitted(a) => a \notin folOpen
        /\ a \in Lists /\ ~Admitted(a) => a \notin lstOpen
    BY <1>2 DEF SessionState, TicketInductive, BranchInductive, FollowPart, HeldListPart
  <2>4. Admitted(a) => a \notin folOpen \cup lstOpen
    BY <2>1, <2>2 DEF TicketPart, Admitted, Waiting
  <2>5. result[a] # "ok" => ~AdoptedBranch(a)
    BY <1>2, <2>1 DEF TicketAt
  <2> QED BY <2>1, <2>2, <2>3, <2>4, <2>5 DEF HeldPart, AdoptedBranch
<1>3. SessionState => NothingLeftBehind
  BY <1>1, <1>2 DEF NothingLeftBehind, Public
<1> QED BY <1>3, SessionHolds, PTL

\* With the poke that every call that adds a record sends, the expiry loop
\* never sleeps past the earliest deadline.
THEOREM DeadlinesAreWatched == SessionSpec => []DeadlineWatched
<1>1. CallInductive => DeadlineWatched
  BY DEF CallInductive
<1> QED BY <1>1, CallInvariant, PTL
=============================================================================
