------------------------------- MODULE Demux -------------------------------
(***************************************************************************)
(* The demultiplexer of the AMI client (internal/demux): a synchronous     *)
(* state machine that the session drives under its lock.  One machine call *)
(* is one action.  The machine correlates every inbound message with the   *)
(* action it answers, feeds bounded queues, and keeps one retirement slot  *)
(* per public action until everything the server may still send for that   *)
(* action has arrived.                                                     *)
(*                                                                         *)
(* ActionIDs are unique (session prefix and counter), so an ActionID also  *)
(* stands for the ticket of its admission and for the branch admitted with *)
(* it.  What a caller asks for at admission is a property of the ActionID: *)
(* plain requests, requests with a follow branch, lists, and the keepalive *)
(* Pings that use the internal slot.  Boolean fields of the Go structs     *)
(* (retHeld, folOpen, ...) are the sets of the ActionIDs that have them.   *)
(* Discard counters and payloads are left out; a queued message is its     *)
(* correlation key and its size.                                           *)
(*                                                                         *)
(* An operator whose comment starts with "Fault" is a faulty form of the   *)
(* definition that follows it.  The specification does not use it; the     *)
(* properties of module DemuxSafety are tested against it.                 *)
(***************************************************************************)
EXTENDS Integers, FiniteSets, SequencesExt

CONSTANTS
    Requests, Follows, Lists, Pings,  \* the ActionIDs, by what is admitted
    Subs,                             \* ordinary subscriptions
    NoID,                             \* a foreign or absent ActionID
    Names,                            \* folded event names
    FollowEvents,                     \* nonterminal names a follow selects
    FollowCompletions,                \* terminal names a follow declares
    ListCompletions,                  \* terminal names a list declares
    CountedLists,                     \* lists with a declared count field
    SubNames,                         \* names a subscription matches
    MaxPending, MaxRetirement, MaxSubscriptions, MaxLists,
    MaxSubscriptionBytes, MaxListBytes,
    SubCaps, FollowCaps, ListCaps,    \* [Items, Bytes] of one branch
    ObservedBytes,                    \* wire bytes one list may stream
    RetirementLifetime,
    Sizes,                            \* message sizes, the inputs explored
    Counts,                           \* counts a completion event declares
    MaxTime                           \* bound on the clock, of the model only

Own == Requests \cup Follows \cup Lists \cup Pings
Public == Own \ Pings
RequestKind == Own \ Lists
Branches == Subs \cup Follows \cup Lists

\* CountVerdict: CountDeclared is any natural number, the other two are not.
CountAbsent == -1
CountMalformed == -2

CapsType == [Items : Nat \ {0}, Bytes : Nat \ {0}]

\* The four kinds of ActionIDs are disjoint finite sets.
ASSUME KindsAssumption ==
    /\ IsFiniteSet(Requests) /\ IsFiniteSet(Follows)
    /\ IsFiniteSet(Lists) /\ IsFiniteSet(Pings)
    /\ Requests \cap Follows = {} /\ Requests \cap Lists = {}
    /\ Requests \cap Pings = {} /\ Follows \cap Lists = {}
    /\ Follows \cap Pings = {} /\ Lists \cap Pings = {}

\* Limits.Validate and Caps.valid: every limit is positive.
ASSUME LimitsAssumption ==
    /\ MaxPending \in Nat \ {0} /\ MaxRetirement \in Nat \ {0}
    /\ MaxSubscriptions \in Nat \ {0} /\ MaxLists \in Nat \ {0}
    /\ MaxSubscriptionBytes \in Nat \ {0} /\ MaxListBytes \in Nat \ {0}
    /\ SubCaps \in CapsType /\ FollowCaps \in CapsType /\ ListCaps \in CapsType
    /\ ObservedBytes \in Nat \ {0} /\ RetirementLifetime \in Nat \ {0}

ASSUME InputsAssumption ==
    /\ IsFiniteSet(Subs) /\ Subs \cap Own = {} /\ NoID \notin Own
    /\ Sizes \subseteq Nat \ {0} /\ Counts \subseteq Nat \cup {CountAbsent, CountMalformed}
    /\ MaxTime \in Nat
    /\ FollowEvents \in [Follows -> SUBSET Names]
    /\ FollowCompletions \in [Follows -> SUBSET Names]
    /\ ListCompletions \in [Lists -> SUBSET Names]
    /\ CountedLists \subseteq Lists
    /\ SubNames \in [Subs -> SUBSET Names]

\* MarkStart never changes routing: it is "none".
Marks == {"none", "complete", "cancelled"}

Message == [src : Own \cup {NoID}, size : Sizes]
Queued(e) == [src |-> e.id, size |-> e.size]

FatalReasons == {"EnvelopeInvalid", "ResponseNoID", "ResponseForeign"}
Causes == FatalReasons \cup {"ResponseUnmatched", "RetirementExpired", "Killed"}

----------------------------------------------------------------------------
VARIABLES
    time,            \* the monotonic clock the session reads
    now,             \* Machine.now, the largest timestamp supplied so far
    dead, cause,     \* Machine.dead and Machine.deadReason
    \* pending actions
    pstate,          \* pending.state; "none" never admitted, "released" gone
    outcome,         \* the outcome a completed pending committed
    committed,       \* CommitWrite or AbortNotSent resolved the write
    pendHold,        \* pendings with retHeld
    folOpen, lstOpen,\* provisional branches awaiting adoption or release
    pendByAction,    \* the routing index of pendings
    publicPending, internalActive, internalRetHeld,
    \* branches
    sub, subOrder,
    fol, folByAction,
    list, listByAction,
    listHold,        \* lists with retHeld
    \* retirement records and aggregates
    rec, retHeld, subBytes, listBytes,
    \* the session's side
    parked,          \* branches whose consumer waits to be woken
    \* history: what the server has sent for an ActionID
    answered, rejected, marked

clockVars == <<time, now>>
lifeVars == <<dead, cause>>
pendVars == <<pstate, outcome, committed, pendHold, folOpen, lstOpen,
              pendByAction, publicPending, internalActive>>
subVars == <<sub, subOrder>>
folVars == <<fol, folByAction>>
listVars == <<list, listByAction, listBytes>>
slotVars == <<listHold, retHeld>>
recVars == <<rec, internalRetHeld>>
history == <<answered, rejected, marked>>

vars == <<clockVars, lifeVars, pendVars, subVars, folVars, listVars, slotVars,
          recVars, subBytes, parked, history>>

----------------------------------------------------------------------------
(* Queues, branches and records                                            *)

Bytes(q) == SumFunction([i \in DOMAIN q |-> q[i].size])

\* Fault: one item too many.
FitsOneMore(q, caps, size, b) ==
    /\ Len(q) <= caps.Items
    /\ Bytes(q) + size <= caps.Bytes
    /\ b + size <= MaxSubscriptionBytes

\* reserveSubFamily, with b the subscription-family aggregate.
Fits(q, caps, size, b) ==
    /\ Len(q) < caps.Items
    /\ Bytes(q) + size <= caps.Bytes
    /\ b + size <= MaxSubscriptionBytes

NoSub == [phase |-> "none", reason |-> "None", q |-> <<>>]
NoFollow == [phase |-> "none", reason |-> "None", adopted |-> FALSE, q |-> <<>>]
NoMessage == [size |-> 0, count |-> CountAbsent]
NoList == [phase |-> "none", reason |-> "None", adopted |-> FALSE, q |-> <<>>,
           observed |-> 0, items |-> 0, completion |-> NoMessage,
           responseSeen |-> FALSE, markSeen |-> FALSE]

NewSub == [NoSub EXCEPT !.phase = "active"]
NewFollow == [NoFollow EXCEPT !.phase = "active"]
NewList == [NoList EXCEPT !.phase = "buffering"]

\* A terminal with a reason discards what the branch retained.
Ended(b, reason) == [b EXCEPT !.phase = "dead", !.reason = reason, !.q = <<>>]
EndedList(l, reason) == [Ended(l, reason) EXCEPT !.completion = NoMessage]

\* The bytes a list retains: queued items and the stored completion event.
Retained(l) == Bytes(l.q) + l.completion.size

\* What each branch is charged for.
SubCharges == [s \in Subs |-> Bytes(sub[s].q)]
FollowCharges == [f \in Follows |-> Bytes(fol[f].q)]
ListCharges == [l \in Lists |-> Retained(list[l])]

\* Fault: ended subscriptions stay in the registration order.
WithoutNone(order, gone) == order

\* dropFromOrder and compactOrder: kept[i] is what stays of the first i.
Without(order, gone) ==
    LET kept[i \in 0..Len(order)] ==
            IF i = 0 THEN <<>>
            ELSE IF order[i] \in gone THEN kept[i - 1]
                 ELSE Append(kept[i - 1], order[i])
    IN  kept[Len(order)]

RoutingPhases == {"buffering", "bufferedComplete", "bufferedCancelled", "streaming"}

\* A record is live while it waits for evidence; NoRecord stands for none.
NoRecord == [needResponse |-> FALSE, needMark |-> FALSE, deadline |-> 0]
Live(a) == rec[a] # NoRecord
LiveRecords == {a \in Own : Live(a)}
PublicRecords == LiveRecords \ Pings

\* Fault: an Error response does not resolve the mark.
EvidenceResponseOnly(r, response, mark) ==
    LET left == [r EXCEPT !.needResponse = @ /\ ~response,
                          !.needMark = @ /\ (response \/ ~mark)]
    IN  IF left.needResponse \/ left.needMark THEN left ELSE NoRecord

\* Fault: either fact releases the record.
EvidenceEither(r, response, mark) ==
    LET left == [r EXCEPT !.needResponse = @ /\ ~response,
                          !.needMark = @ /\ ~mark]
    IN  IF left.needResponse /\ left.needMark THEN left ELSE NoRecord

\* responseEvidence or markEvidence followed by maybeDropRecord.
Evidence(r, response, mark) ==
    LET left == [r EXCEPT !.needResponse = @ /\ ~response,
                          !.needMark = @ /\ ~mark]
    IN  IF left.needResponse \/ left.needMark THEN left ELSE NoRecord

\* addRecord, dated by the clock the call has advanced.
NewRecord(needResponse, needMark) ==
    [needResponse |-> needResponse, needMark |-> needMark,
     deadline |-> now' + RetirementLifetime]

\* maybeReleaseTicket, for a pending whose outcome has committed.
Completed(a) ==
    IF a \in committed' /\ a \notin folOpen' /\ a \notin lstOpen'
    THEN "released" ELSE "completed"

\* fx.Wake: the session signals the consumers of these branches.
Wake(bs) == parked' = parked \ bs

\* clock(): the stamp was read at some moment up to now, and an older stamp
\* never moves the machine's clock back.
Stamped == now' \in now..time

\* Fault: Close and Abandon do not advance the clock first.
StampedStale == now' = now

\* Calls that read the clock under the session lock.
StampedNow == now' = time

\* Bound of the model: a record created now can still expire.
InHorizon == time + RetirementLifetime <= MaxTime

----------------------------------------------------------------------------
(* Admission, write resolution, abandonment (pending.go)                   *)

Init ==
    /\ time = 0 /\ now = 0
    /\ dead = FALSE /\ cause = "None"
    /\ pstate = [a \in Own |-> "none"]
    /\ outcome = [a \in Own |-> "none"]
    /\ committed = {} /\ pendHold = {} /\ folOpen = {} /\ lstOpen = {}
    /\ pendByAction = {} /\ publicPending = 0
    /\ internalActive = FALSE /\ internalRetHeld = FALSE
    /\ sub = [s \in Subs |-> NoSub] /\ subOrder = <<>>
    /\ fol = [f \in Follows |-> NoFollow] /\ folByAction = {}
    /\ list = [l \in Lists |-> NoList] /\ listByAction = {} /\ listHold = {}
    /\ rec = [a \in Own |-> NoRecord]
    /\ retHeld = 0 /\ subBytes = 0 /\ listBytes = 0
    /\ parked = {}
    /\ answered = {} /\ rejected = {} /\ marked = {}

\* Fault: live records are not charged against the pool.
HasCapacityPastRecords(a) ==
    IF a \in Pings
    THEN ~internalActive /\ ~internalRetHeld
    ELSE publicPending < MaxPending /\ retHeld < MaxRetirement

\* The capacity Admit checks before it reserves anything.
HasCapacity(a) ==
    IF a \in Pings
    THEN ~internalActive /\ ~internalRetHeld
    ELSE /\ publicPending < MaxPending
         /\ retHeld + Cardinality(PublicRecords) < MaxRetirement
         /\ a \in Lists => Cardinality(listByAction) < MaxLists

\* A rejected admission changes nothing, so it is no step.
Admit(a) ==
    /\ ~dead
    /\ pstate[a] = "none"
    /\ HasCapacity(a)
    /\ pstate' = [pstate EXCEPT ![a] = "reserved"]
    /\ pendByAction' = pendByAction \cup {a}
    /\ pendHold' = pendHold \cup ({a} \cap RequestKind)
    /\ listHold' = listHold \cup ({a} \cap Lists)
    /\ IF a \in Pings
       THEN /\ internalActive' = TRUE /\ internalRetHeld' = TRUE
            /\ UNCHANGED <<publicPending, retHeld>>
       ELSE /\ publicPending' = publicPending + 1 /\ retHeld' = retHeld + 1
            /\ UNCHANGED <<internalActive, internalRetHeld>>
    /\ folOpen' = folOpen \cup ({a} \cap Follows)
    /\ folByAction' = folByAction \cup ({a} \cap Follows)
    /\ fol' = IF a \in Follows THEN [fol EXCEPT ![a] = NewFollow] ELSE fol
    /\ lstOpen' = lstOpen \cup ({a} \cap Lists)
    /\ listByAction' = listByAction \cup ({a} \cap Lists)
    /\ list' = IF a \in Lists THEN [list EXCEPT ![a] = NewList] ELSE list
    /\ UNCHANGED <<clockVars, lifeVars, outcome, committed, subVars, listBytes,
                   rec, subBytes, parked, history>>

\* A response or client death may already have completed the pending.
CommitWrite(a) ==
    /\ pstate[a] \in {"reserved", "completed"} /\ a \notin committed
    /\ committed' = committed \cup {a}
    /\ UNCHANGED <<folOpen, lstOpen>>
    /\ pstate' = [pstate EXCEPT ![a] =
                     IF @ = "reserved" THEN "inFlight" ELSE Completed(a)]
    /\ UNCHANGED <<clockVars, lifeVars, outcome, pendHold, pendByAction,
                   publicPending, internalActive, subVars, folVars, listVars,
                   slotVars, recVars, subBytes, parked, history>>

\* The pending leaves the routing index and its slot count.
Unpend(a) ==
    /\ pendByAction' = pendByAction \ {a}
    /\ IF a \in Pings
       THEN internalActive' = FALSE /\ UNCHANGED publicPending
       ELSE publicPending' = publicPending - 1 /\ UNCHANGED internalActive

\* releaseFollowEntry, of a follow that a may have.
ReleaseFollow(a) ==
    IF a \in folOpen
    THEN /\ folOpen' = folOpen \ {a} /\ folByAction' = folByAction \ {a}
         /\ fol' = [fol EXCEPT ![a] = NoFollow]
         /\ subBytes' = subBytes - Bytes(fol[a].q)
    ELSE UNCHANGED <<folOpen, folVars, subBytes>>

\* The list branch becomes l.  One that leaves the routing phases leaves the
\* routing index and gives its slot back; SlotRecord says what takes the slot.
SetList(a, l) ==
    /\ list' = [list EXCEPT ![a] = l]
    /\ listBytes' = listBytes - Retained(list[a]) + Retained(l)
    /\ IF l.phase \in RoutingPhases
       THEN UNCHANGED <<listByAction, slotVars>>
       ELSE /\ listByAction' = listByAction \ {a}
            /\ listHold' = listHold \ {a}
            /\ retHeld' = IF a \in listHold THEN retHeld - 1 ELSE retHeld

\* Fault: only the mark is waited for.
SlotRecordMarkOnly(a, responseSeen, markSeen) ==
    IF a \in listHold /\ ~markSeen THEN NewRecord(FALSE, TRUE) ELSE rec[a]

\* finishListSlot: a slot still held becomes a drain record unless both
\* facts have been seen.
SlotRecord(a, responseSeen, markSeen) ==
    IF a \in listHold /\ ~(responseSeen /\ markSeen)
    THEN NewRecord(~responseSeen, ~markSeen)
    ELSE rec[a]

\* Zero bytes reached the wire.
AbortNotSent(a) ==
    /\ a \notin committed
    /\ \/ pstate[a] = "reserved"
       \/ pstate[a] = "completed" /\ outcome[a] = "dead"
    /\ committed' = committed \cup {a}
    /\ IF pstate[a] = "reserved"
       THEN /\ Unpend(a)
            /\ pendHold' = pendHold \ {a}
            /\ outcome' = [outcome EXCEPT ![a] = "aborted"]
            /\ internalRetHeld' = (internalRetHeld /\ a \notin Pings)
       ELSE UNCHANGED <<pendByAction, publicPending, internalActive, pendHold,
                        outcome, internalRetHeld>>
    /\ ReleaseFollow(a)
    /\ lstOpen' = lstOpen \ {a}
    /\ IF a \in lstOpen
       THEN SetList(a, NoList)
       ELSE /\ UNCHANGED <<listVars, listHold>>
            /\ retHeld' = IF a \in pendHold \cap Public THEN retHeld - 1 ELSE retHeld
    /\ pstate' = [pstate EXCEPT ![a] = Completed(a)]
    /\ UNCHANGED <<clockVars, lifeVars, subVars, rec, parked, history>>

\* The request context ended first: the slot becomes a live record.  A list
\* that overflowed before its response already has one.
Abandon(a) ==
    /\ pstate[a] = "inFlight"
    /\ InHorizon /\ StampedNow /\ UNCHANGED <<time, committed>>
    /\ Unpend(a)
    /\ outcome' = [outcome EXCEPT ![a] = "abandoned"]
    /\ pendHold' = pendHold \ {a}
    /\ ReleaseFollow(a)
    /\ lstOpen' = lstOpen \ {a}
    /\ IF a \in Lists
       THEN /\ SetList(a, NoList)
            /\ rec' = [rec EXCEPT ![a] = SlotRecord(a, list[a].responseSeen,
                                                    list[a].markSeen)]
       ELSE /\ rec' = [rec EXCEPT ![a] = NewRecord(TRUE, FALSE)]
            /\ retHeld' = IF a \in Public THEN retHeld - 1 ELSE retHeld
            /\ UNCHANGED <<listVars, listHold>>
    /\ pstate' = [pstate EXCEPT ![a] = Completed(a)]
    /\ UNCHANGED <<lifeVars, subVars, internalRetHeld, parked, history>>

\* Do returned nil.
AdoptFollow(f) ==
    /\ f \in folOpen /\ f \in committed /\ outcome[f] = "success"
    /\ folOpen' = folOpen \ {f}
    /\ fol' = [fol EXCEPT ![f].adopted = TRUE]
    /\ UNCHANGED <<committed, lstOpen>>
    /\ pstate' = [pstate EXCEPT ![f] = Completed(f)]
    /\ UNCHANGED <<clockVars, lifeVars, outcome, pendHold, pendByAction,
                   publicPending, internalActive, subVars, folByAction,
                   listVars, slotVars, recVars, subBytes, parked, history>>

\* Do returned an error: an AMI error, a failure after the response, death.
CloseFollow(f) ==
    /\ f \in folOpen /\ f \in committed /\ pstate[f] = "completed"
    /\ ReleaseFollow(f)
    /\ UNCHANGED <<committed, lstOpen>>
    /\ pstate' = [pstate EXCEPT ![f] = Completed(f)]
    /\ UNCHANGED <<clockVars, lifeVars, outcome, pendHold, pendByAction,
                   publicPending, internalActive, subVars, listVars, slotVars,
                   recVars, parked, history>>

\* StartList returned nil.
AdoptList(l) ==
    /\ l \in lstOpen /\ l \in committed /\ outcome[l] = "success"
    /\ lstOpen' = lstOpen \ {l}
    /\ list' = [list EXCEPT ![l].adopted = TRUE]
    /\ UNCHANGED <<committed, folOpen>>
    /\ pstate' = [pstate EXCEPT ![l] = Completed(l)]
    /\ UNCHANGED <<clockVars, lifeVars, outcome, pendHold, pendByAction,
                   publicPending, internalActive, subVars, folVars,
                   listByAction, listBytes, slotVars, recVars, subBytes,
                   parked, history>>

\* After client death; the machine insists on a discarded branch.
CloseList(l) ==
    /\ l \in lstOpen /\ l \in committed /\ dead
    /\ list[l].phase = "dead"
    /\ lstOpen' = lstOpen \ {l}
    /\ SetList(l, NoList)
    /\ UNCHANGED <<committed, folOpen>>
    /\ pstate' = [pstate EXCEPT ![l] = Completed(l)]
    /\ UNCHANGED <<clockVars, lifeVars, outcome, pendHold, pendByAction,
                   publicPending, internalActive, subVars, folVars, recVars,
                   subBytes, parked, history>>

----------------------------------------------------------------------------
(* Client death (demux.go)                                                 *)

KilledPendings == {a \in Own : pstate[a] \in {"reserved", "inFlight"}}

\* Fault: a clean end that still drains is discarded.
KilledListsDraining == {l \in Lists : list[l].phase \notin {"none", "dead"}}

KilledLists == {l \in Lists : list[l].phase \notin {"none", "draining", "dead"}}

\* The death cascade: every waiter completes, every active branch ends, every
\* record goes.  A branch in clean drain keeps its queue.
Die(why) ==
    LET waiting == KilledPendings
        subs == ToSet(subOrder)
        fols == {f \in Follows : fol[f].phase = "active"}
        lsts == KilledLists
    IN  /\ dead' = TRUE /\ cause' = why
        /\ UNCHANGED <<committed, folOpen, lstOpen>>
        /\ pstate' = [a \in Own |-> IF a \in waiting THEN Completed(a) ELSE pstate[a]]
        /\ outcome' = [a \in Own |-> IF a \in waiting THEN "dead" ELSE outcome[a]]
        /\ pendHold' = pendHold \ waiting
        /\ pendByAction' = pendByAction \ waiting
        /\ publicPending' = publicPending - Cardinality(waiting \ Pings)
        /\ internalActive' = (internalActive /\ waiting \cap Pings = {})
        /\ internalRetHeld' = FALSE
        /\ sub' = [s \in Subs |-> IF s \in subs THEN Ended(sub[s], "ClientDead")
                                  ELSE sub[s]]
        /\ subOrder' = <<>>
        /\ fol' = [f \in Follows |-> IF f \in fols THEN Ended(fol[f], "ClientDead")
                                     ELSE fol[f]]
        /\ folByAction' = folByAction \ fols
        /\ subBytes' = subBytes - SumFunctionOnSet(SubCharges, subs)
                                - SumFunctionOnSet(FollowCharges, fols)
        /\ list' = [l \in Lists |-> IF l \in lsts THEN EndedList(list[l], "ClientDead")
                                    ELSE list[l]]
        /\ listByAction' = listByAction \ lsts
        /\ listBytes' = listBytes - SumFunctionOnSet(ListCharges, lsts)
        /\ listHold' = listHold \ lsts
        /\ retHeld' = retHeld - Cardinality(pendHold \cap waiting \cap Public)
                              - Cardinality(listHold \cap lsts)
        /\ rec' = [a \in Own |-> NoRecord]
        /\ Wake(subs \cup fols \cup lsts)
        /\ UNCHANGED history

\* The session commits a cause of its own, or the contradiction of a response
\* to an action that was never sent.
Kill(reason) == ~dead /\ Die(reason) /\ UNCHANGED clockVars

KillReasons == {"Killed", "ResponseUnmatched"}

----------------------------------------------------------------------------
(* Routing responses (route.go)                                            *)

Routing == ~dead /\ InHorizon /\ Stamped /\ UNCHANGED time

\* An invalid envelope, and a response that carries no own ActionID.
RouteFatal(reason) == Routing /\ Die(reason)

\* Unknown or duplicate: neither a pending nor a record is waiting for it.
RouteUnmatched(a) ==
    /\ Routing
    /\ a \notin pendByAction /\ ~Live(a)
    /\ Die("ResponseUnmatched")

\* What listResponse makes of a list branch.
Responded(l, success) ==
    LET seen == [l EXCEPT !.responseSeen = TRUE]
    IN  CASE ~success -> NoList
          [] success /\ l.phase = "buffering" -> [seen EXCEPT !.phase = "streaming"]
          [] success /\ l.phase = "bufferedComplete" -> [seen EXCEPT !.phase = "draining"]
          [] success /\ l.phase = "bufferedCancelled" -> EndedList(seen, "Cancelled")
          [] success /\ l.phase = "dead" -> seen

\* The server's one answer to a; it is also evidence for the record that a
\* list which failed before its response left behind.
Answer(a, success) ==
    /\ answered' = answered \cup {a}
    /\ rejected' = IF success THEN rejected ELSE rejected \cup {a}
    /\ UNCHANGED marked

RoutePendingResponse(a, success) ==
    /\ Routing
    /\ a \in pendByAction
    /\ Unpend(a)
    /\ outcome' = [outcome EXCEPT ![a] = IF success THEN "success" ELSE "error"]
    /\ pendHold' = pendHold \ {a}
    /\ UNCHANGED <<committed, folOpen>>
    /\ IF a \in Lists
       THEN LET l == Responded(list[a], success)
            IN  /\ SetList(a, l)
                /\ lstOpen' = IF success THEN lstOpen ELSE lstOpen \ {a}
                /\ rec' = [rec EXCEPT ![a] =
                      Evidence(IF l.phase \in RoutingPhases THEN @
                               ELSE SlotRecord(a, TRUE, ~success \/ l.markSeen),
                               TRUE, ~success)]
                /\ Wake(IF l.phase \in {"draining", "dead"} /\ a \in listByAction
                        THEN {a} ELSE {})
                /\ UNCHANGED internalRetHeld
       ELSE /\ retHeld' = IF a \in pendHold \cap Public THEN retHeld - 1 ELSE retHeld
            /\ internalRetHeld' = (internalRetHeld /\ a \notin Pings)
            /\ rec' = [rec EXCEPT ![a] = Evidence(@, TRUE, ~success)]
            /\ UNCHANGED <<listVars, listHold, lstOpen, parked>>
    /\ pstate' = [pstate EXCEPT ![a] = Completed(a)]
    /\ Answer(a, success)
    /\ UNCHANGED <<lifeVars, subVars, folVars, subBytes>>

\* A live record absorbs the response.
RouteRecordResponse(a, success) ==
    /\ Routing
    /\ a \notin pendByAction /\ Live(a)
    /\ rec' = [rec EXCEPT ![a] = Evidence(@, TRUE, ~success)]
    /\ internalRetHeld' = (internalRetHeld /\ (a \in Pings => Live(a)'))
    /\ Answer(a, success)
    /\ UNCHANGED <<lifeVars, pendVars, subVars, folVars, listVars, slotVars,
                   subBytes, parked>>

----------------------------------------------------------------------------
(* Routing events to a list (routeListEvent)                               *)

Completes(a, e) ==
    \/ e.mark = "complete"
    \/ e.mark = "none" /\ e.name \in ListCompletions[a]

IsTerminalMark(a, e) == e.mark = "cancelled" \/ Completes(a, e)

\* Every correlated event is charged to the observed budget, and the mark is
\* noted even when the event that carries it overflows that budget.
Observed(a, e) ==
    [list[a] EXCEPT !.observed = @ + e.size,
                    !.markSeen = @ \/ IsTerminalMark(a, e)]

\* reserveList.
ListFits(l, size, item) ==
    /\ item => Len(l.q) < ListCaps.Items
    /\ Retained(l) + size <= ListCaps.Bytes
    /\ listBytes + size <= MaxListBytes

\* Fault: a malformed count is taken for an absent one.
CountReasonLenient(a, l, e) ==
    IF a \in CountedLists /\ e.count \in Nat /\ e.count # l.items
    THEN "CountMismatch" ELSE "None"

\* A present count that is malformed or wrong fails the list.
CountReason(a, l, e) ==
    CASE a \notin CountedLists \/ e.count = CountAbsent -> "None"
      [] a \in CountedLists /\ e.count = CountMalformed -> "CountMalformed"
      [] a \in CountedLists /\ e.count \in Nat ->
            IF e.count = l.items THEN "None" ELSE "CountMismatch"

\* Fault: the end of a list wakes nobody.
ListStepSilentEnd(a, l, wake) ==
    /\ SetList(a, l)
    /\ rec' = IF l.phase \in RoutingPhases THEN rec
              ELSE [rec EXCEPT ![a] = SlotRecord(a, l.responseSeen, l.markSeen)]
    /\ Wake(IF l.phase \in RoutingPhases THEN wake ELSE {})

\* The step that leaves the branch as l, and settles its slot when it ended.
ListStep(a, l, wake) ==
    /\ SetList(a, l)
    /\ rec' = IF l.phase \in RoutingPhases THEN rec
              ELSE [rec EXCEPT ![a] = SlotRecord(a, l.responseSeen, l.markSeen)]
    /\ Wake(wake)

RouteListEvent(a, e) ==
    LET l == Observed(a, e)
        over == l.observed > ObservedBytes
        early == l.phase = "buffering"
        open == ~over /\ l.phase \in {"buffering", "streaming"}
        cancel == e.mark = "cancelled"
        complete == ~cancel /\ Completes(a, e)
        bad == CountReason(a, l, e)
    IN
    /\ Routing
    /\ a \in listByAction
    /\ \/ over /\ ListStep(a, EndedList(l, "Overflow"), {a})
       \/ /\ ~over /\ l.phase \in {"bufferedComplete", "bufferedCancelled"}
          /\ ListStep(a, l, {})
       \/ /\ open /\ cancel /\ early
          /\ ListStep(a, [l EXCEPT !.phase = "bufferedCancelled"], {})
       \/ /\ open /\ cancel /\ ~early
          /\ ListStep(a, EndedList(l, "Cancelled"), {a})
       \/ /\ open /\ complete /\ bad # "None"
          /\ ListStep(a, EndedList(l, bad), {a})
       \/ /\ open /\ complete /\ bad = "None" /\ ~ListFits(l, e.size, FALSE)
          /\ ListStep(a, EndedList(l, "Overflow"), {a})
       \/ /\ open /\ complete /\ bad = "None" /\ ListFits(l, e.size, FALSE)
          /\ ListStep(a, [l EXCEPT !.phase = IF early THEN "bufferedComplete"
                                             ELSE "draining",
                                   !.completion = [size |-> e.size, count |-> e.count]],
                      IF early THEN {} ELSE {a})
       \/ /\ open /\ ~cancel /\ ~complete /\ ListFits(l, e.size, TRUE)
          /\ ListStep(a, [l EXCEPT !.q = Append(@, Queued(e)), !.items = @ + 1], {a})
       \/ /\ open /\ ~cancel /\ ~complete /\ ~ListFits(l, e.size, TRUE)
          /\ ListStep(a, EndedList(l, "Overflow"), {a})
    /\ marked' = IF IsTerminalMark(a, e) THEN marked \cup {a} ELSE marked
    /\ UNCHANGED <<lifeVars, pendVars, subVars, folVars, internalRetHeld,
                   subBytes, answered, rejected>>

\* A live record absorbs the event; a terminal mark is evidence.
RouteListDrain(a, e) ==
    /\ Routing
    /\ a \notin listByAction /\ Live(a)
    /\ rec' = [rec EXCEPT ![a] = Evidence(@, FALSE, IsTerminalMark(a, e))]
    /\ marked' = IF IsTerminalMark(a, e) THEN marked \cup {a} ELSE marked
    /\ UNCHANGED <<lifeVars, pendVars, subVars, folVars, listVars, slotVars,
                   internalRetHeld, subBytes, parked, answered, rejected>>

\* No state remains for the list: the event is dropped, forever.
RouteListLate(a) ==
    /\ Routing
    /\ a \notin listByAction /\ ~Live(a)
    /\ UNCHANGED <<lifeVars, pendVars, subVars, folVars, listVars, slotVars,
                   recVars, subBytes, parked, history>>

----------------------------------------------------------------------------
(* Routing events to follows and subscriptions                             *)

\* The subscription-family aggregate after the first i subscriptions of the
\* registration order have been served, from aggregate b: a recipient that
\* does not fit ends and frees its queue before the next one is tried.
Served(e, b) ==
    LET after[i \in 0..Len(subOrder)] ==
            IF i = 0 THEN b
            ELSE LET s == subOrder[i]
                 IN  IF e.name \notin SubNames[s] THEN after[i - 1]
                     ELSE IF Fits(sub[s].q, SubCaps, e.size, after[i - 1])
                          THEN after[i - 1] + e.size
                          ELSE after[i - 1] - Bytes(sub[s].q)
    IN  after

\* The recipients, and those of them that cannot take the event.
Matched(e) == {s \in ToSet(subOrder) : e.name \in SubNames[s]}
Lagging(e, b) ==
    {subOrder[i] : i \in {j \in 1..Len(subOrder) :
        /\ subOrder[j] \in Matched(e)
        /\ ~Fits(sub[subOrder[j]].q, SubCaps, e.size, Served(e, b)[j - 1])}}

\* fanout and compactOrder, from aggregate b.
Fanout(e, b) ==
    LET lagging == Lagging(e, b)
    IN  /\ sub' = [s \in Subs |->
                     IF s \in lagging THEN Ended(sub[s], "Lagged")
                     ELSE IF s \in Matched(e)
                          THEN [sub[s] EXCEPT !.q = Append(@, Queued(e))]
                          ELSE sub[s]]
        /\ subOrder' = Without(subOrder, lagging)
        /\ subBytes' = Served(e, b)[Len(subOrder)]

\* Fault: late list traffic is not told from other traffic.
OrdinaryWithLists(e) == e.id \in Own => ~Live(e.id)

\* Fault: a record does not quarantine its ActionID.
OrdinaryUnquarantined(e) == e.id \notin Lists

\* The events that are eligible for ordinary delivery.
Ordinary(e) == e.id \notin Lists /\ (e.id \in Own => ~Live(e.id))

\* A selected event of an active follow.  A completion is queued before the
\* clean end commits; when it does not fit, Lagged wins.
Followed(f, e) ==
    f \in folByAction /\ e.name \in FollowCompletions[f] \cup FollowEvents[f]

RouteFollowEvent(f, e) ==
    LET fits == Fits(fol[f].q, FollowCaps, e.size, subBytes)
        after == IF fits THEN [fol[f] EXCEPT !.q = Append(@, Queued(e))]
                 ELSE Ended(fol[f], "Lagged")
    IN
    /\ Routing
    /\ e.id = f /\ Ordinary(e) /\ Followed(f, e)
    /\ fol' = [fol EXCEPT ![f] =
                 IF fits /\ e.name \in FollowCompletions[f]
                 THEN [after EXCEPT !.phase = "draining"] ELSE after]
    /\ folByAction' = IF fits /\ e.name \notin FollowCompletions[f]
                      THEN folByAction ELSE folByAction \ {f}
    /\ Fanout(e, IF fits THEN subBytes + e.size ELSE subBytes - Bytes(fol[f].q))
    /\ Wake({f} \cup Matched(e))
    /\ UNCHANGED <<lifeVars, pendVars, listVars, slotVars, recVars, history>>

\* Foreign events, and own ones of no live record and no interested follow.
RouteOrdinaryEvent(e) ==
    /\ Routing
    /\ Ordinary(e)
    /\ e.id \in Follows => ~Followed(e.id, e)
    /\ Fanout(e, subBytes)
    /\ Wake(Matched(e))
    /\ UNCHANGED <<lifeVars, pendVars, folVars, listVars, slotVars, recVars,
                   history>>

\* The event of a quarantined request is absorbed and is no evidence.
RouteQuarantined(a) ==
    /\ Routing
    /\ a \in RequestKind /\ Live(a)
    /\ UNCHANGED <<lifeVars, pendVars, subVars, folVars, listVars, slotVars,
                   recVars, subBytes, parked, history>>

----------------------------------------------------------------------------
(* Branches of the consumers (branch.go)                                   *)

Subscribe(s) ==
    /\ ~dead
    /\ sub[s].phase = "none"
    /\ Len(subOrder) < MaxSubscriptions
    /\ sub' = [sub EXCEPT ![s] = NewSub]
    /\ subOrder' = Append(subOrder, s)
    /\ UNCHANGED <<clockVars, lifeVars, pendVars, folVars, listVars, slotVars,
                   recVars, subBytes, parked, history>>

\* Close ends an active branch and removes an ended one: both drop the queue.
CloseSub(s) ==
    /\ sub[s].phase # "none"
    /\ StampedNow
    /\ sub' = [sub EXCEPT ![s] = NoSub]
    /\ subOrder' = Without(subOrder, {s})
    /\ subBytes' = subBytes - Bytes(sub[s].q)
    /\ Wake({s})
    /\ UNCHANGED <<time, lifeVars, pendVars, folVars, listVars, slotVars,
                   recVars, history>>

CloseFollowBranch(f) ==
    /\ fol[f].adopted
    /\ StampedNow
    /\ fol' = [fol EXCEPT ![f] = NoFollow]
    /\ folByAction' = folByAction \ {f}
    /\ subBytes' = subBytes - Bytes(fol[f].q)
    /\ Wake({f})
    /\ UNCHANGED <<time, lifeVars, pendVars, subVars, listVars, slotVars,
                   recVars, history>>

\* A streaming list may still be streamed to: its slot becomes a drain record,
\* dated at this call.
CloseListBranch(l) ==
    /\ list[l].adopted
    /\ list[l].phase = "streaming" => InHorizon
    /\ StampedNow
    /\ SetList(l, NoList)
    /\ rec' = IF list[l].phase = "streaming"
              THEN [rec EXCEPT ![l] = SlotRecord(l, list[l].responseSeen,
                                                 list[l].markSeen)]
              ELSE rec
    /\ Wake({l})
    /\ UNCHANGED <<time, lifeVars, pendVars, subVars, folVars, internalRetHeld,
                   subBytes, history>>

Close(b) ==
    \/ b \in Subs /\ CloseSub(b)
    \/ b \in Follows /\ CloseFollowBranch(b)
    \/ b \in Lists /\ CloseListBranch(b)

\* The branches a consumer can take from, and what it would find queued.
Open(b) == \/ b \in Subs /\ sub[b].phase # "none"
           \/ b \in Follows /\ fol[b].adopted
           \/ b \in Lists /\ list[b].adopted

Queue(b) == IF b \in Subs THEN sub[b].q
            ELSE IF b \in Follows THEN fol[b].q ELSE list[b].q

Phase(b) == IF b \in Subs THEN sub[b].phase
            ELSE IF b \in Follows THEN fol[b].phase ELSE list[b].phase

TakeItem(b) ==
    /\ Open(b) /\ b \notin parked
    /\ Phase(b) # "dead" /\ Queue(b) # <<>>
    /\ sub' = IF b \in Subs THEN [sub EXCEPT ![b].q = Tail(@)] ELSE sub
    /\ fol' = IF b \in Follows THEN [fol EXCEPT ![b].q = Tail(@)] ELSE fol
    /\ list' = IF b \in Lists THEN [list EXCEPT ![b].q = Tail(@)] ELSE list
    /\ subBytes' = IF b \in Lists THEN subBytes
                   ELSE subBytes - Head(Queue(b)).size
    /\ listBytes' = IF b \in Lists THEN listBytes - Head(Queue(b)).size
                    ELSE listBytes
    /\ UNCHANGED <<clockVars, lifeVars, pendVars, subOrder, folByAction,
                   listByAction, slotVars, recVars, parked, history>>

\* TakeEmpty: the session parks the consumer until the branch is in a wake
\* set.  TakeEOF and TakeTerminal change nothing.
TakeEmpty(b) ==
    /\ Open(b) /\ Phase(b) \in {"active", "streaming"} /\ Queue(b) = <<>>
    /\ parked' = parked \cup {b}
    /\ UNCHANGED <<clockVars, lifeVars, pendVars, subVars, folVars, listVars,
                   slotVars, recVars, subBytes, history>>

----------------------------------------------------------------------------
(* Expiry (retire.go)                                                      *)

Expired == {a \in LiveRecords : rec[a].deadline <= time}

\* With nothing expired the call only advances the machine's clock.
Expire ==
    /\ ~dead
    /\ StampedNow /\ UNCHANGED time
    /\ \/ Expired # {} /\ Die("RetirementExpired")
       \/ /\ Expired = {}
          /\ UNCHANGED <<lifeVars, pendVars, subVars, folVars, listVars,
                         slotVars, recVars, subBytes, parked, history>>

Tick ==
    /\ time < MaxTime
    /\ time' = time + 1
    /\ UNCHANGED <<now, lifeVars, pendVars, subVars, folVars, listVars, slotVars,
                   recVars, subBytes, parked, history>>

----------------------------------------------------------------------------
RouteResponse ==
    \/ \E reason \in FatalReasons : RouteFatal(reason)
    \/ \E a \in Own : RouteUnmatched(a)
    \/ \E a \in Own, success \in BOOLEAN :
          RoutePendingResponse(a, success) \/ RouteRecordResponse(a, success)

\* What Route reads of an event; only for list traffic marks and counts matter.
PlainEvent == [id : Own \cup {NoID}, name : Names, mark : {"none"},
               count : {CountAbsent}, size : Sizes]
ListEvent(a) == [id : {a}, name : Names, mark : Marks, count : Counts, size : Sizes]

RouteEvent ==
    \/ \E a \in Lists : \E e \in ListEvent(a) :
          RouteListEvent(a, e) \/ RouteListDrain(a, e)
    \/ \E a \in Lists : RouteListLate(a)
    \/ \E e \in PlainEvent :
          RouteOrdinaryEvent(e) \/ \E f \in Follows : RouteFollowEvent(f, e)
    \/ \E a \in RequestKind : RouteQuarantined(a)

PendingStep ==
    \/ \E a \in Own : Admit(a) \/ CommitWrite(a) \/ AbortNotSent(a) \/ Abandon(a)
    \/ \E f \in Follows : AdoptFollow(f) \/ CloseFollow(f)
    \/ \E l \in Lists : AdoptList(l) \/ CloseList(l)

ConsumerStep ==
    \/ \E s \in Subs : Subscribe(s)
    \/ \E b \in Branches : Close(b) \/ TakeItem(b) \/ TakeEmpty(b)

Next == RouteResponse \/ RouteEvent \/ PendingStep \/ ConsumerStep
        \/ Expire \/ Tick \/ \E reason \in KillReasons : Kill(reason)

Spec == Init /\ [][Next]_vars

=============================================================================
