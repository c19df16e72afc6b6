---------------------------- MODULE DemuxSafety ----------------------------
(***************************************************************************)
(* What the demultiplexer must guarantee, stated over the machine of       *)
(* module Demux.                                                           *)
(***************************************************************************)
EXTENDS Demux

----------------------------------------------------------------------------
(* Types                                                                   *)

Reasons == {"None", "Lagged", "Overflow", "Cancelled", "CountMismatch",
            "CountMalformed", "ClientDead"}

RecordType == [needResponse : BOOLEAN, needMark : BOOLEAN, deadline : Nat]

ListType ==
    [phase : RoutingPhases \cup {"none", "draining", "dead"}, reason : Reasons,
     adopted : BOOLEAN, q : Seq(Message), observed : Nat, items : Nat,
     completion : [size : Nat, count : Int],
     responseSeen : BOOLEAN, markSeen : BOOLEAN]

\* The part of the state that the retirement discipline is about.
SlotTypeOK ==
    /\ time \in Nat /\ now \in Nat
    /\ dead \in BOOLEAN /\ cause \in Causes \cup {"None"}
    /\ pstate \in [Own -> {"none", "reserved", "inFlight", "completed", "released"}]
    /\ outcome \in [Own -> {"none", "success", "error", "dead", "aborted",
                            "abandoned"}]
    /\ committed \subseteq Own /\ pendHold \subseteq RequestKind
    /\ folOpen \subseteq Follows /\ lstOpen \subseteq Lists
    /\ pendByAction \subseteq Own
    /\ publicPending \in Int
    /\ internalActive \in BOOLEAN /\ internalRetHeld \in BOOLEAN
    /\ list \in [Lists -> ListType]
    /\ listByAction \subseteq Lists /\ listHold \subseteq Lists
    /\ rec \in [Own -> RecordType]
    /\ retHeld \in Int
    /\ answered \subseteq Own /\ rejected \subseteq Own /\ marked \subseteq Lists

----------------------------------------------------------------------------
(* The retirement discipline                                               *)

Admitted(a) == pstate[a] # "none"

\* The server may still send something for a that the machine must recognise:
\* its response, or the terminal mark of a list that it did not reject.
Outstanding(a) ==
    \/ a \notin answered
    \/ a \in Lists /\ a \notin marked /\ a \notin rejected

HoldsSlot(a) == a \in pendHold \cup listHold \/ Live(a)

\* While the client lives, an action occupies a retirement slot (reserved at
\* its admission, or turned into a record) exactly as long as traffic of it is
\* outstanding: none is given back early, so nothing the server still sends is
\* unexpected, and none leaks.  AbortNotSent is exempt: nothing was sent.
SlotIffOutstanding ==
    ~dead => \A a \in Own :
        Admitted(a) /\ outcome[a] # "aborted" => (HoldsSlot(a) <=> Outstanding(a))

\* A response the server has not yet given always finds its pending or a
\* record, in every interleaving of writes, overflow, abandonment and close:
\* routing it is never the fatal "unmatched response".
LateResponseHasHome ==
    ~dead => \A a \in Own :
        Admitted(a) /\ outcome[a] # "aborted" /\ a \notin answered =>
            a \in pendByAction \/ rec[a].needResponse

\* A record waits for exactly the evidence that has not arrived.
RecordsWaitForTheMissing ==
    \A a \in LiveRecords :
        /\ rec[a].needResponse <=> a \notin answered
        /\ rec[a].needMark <=> a \in Lists /\ a \notin marked /\ a \notin rejected

\* Close and Abandon date the record they create at the call, however long the
\* session has been idle: it lives for the full lifetime.
FullLifetime ==
    [][\A a \in Own :
        ~Live(a) /\ Live(a)' /\ (\/ outcome'[a] = "abandoned"
                                 \/ a \in Lists /\ list'[a] = NoList) =>
            rec'[a].deadline = time + RetirementLifetime]_vars

----------------------------------------------------------------------------
(* Accounting and routing indexes                                          *)

\* Each aggregate is the sum of the live charges and within its cap, and every
\* branch is within its own caps: what Machine.check panics about.
Aggregates ==
    /\ subBytes = SumFunction(SubCharges) + SumFunction(FollowCharges)
    /\ listBytes = SumFunction(ListCharges)
    /\ subBytes <= MaxSubscriptionBytes /\ listBytes <= MaxListBytes
    /\ \A s \in Subs : Len(sub[s].q) <= SubCaps.Items /\ Bytes(sub[s].q) <= SubCaps.Bytes
    /\ \A f \in Follows :
          Len(fol[f].q) <= FollowCaps.Items /\ Bytes(fol[f].q) <= FollowCaps.Bytes
    /\ \A l \in Lists :
          Len(list[l].q) <= ListCaps.Items /\ Retained(list[l]) <= ListCaps.Bytes

\* The routing indexes hold exactly the pendings and branches that may still
\* be routed to, and the registration order lists each active subscription once.
RoutingIndexes ==
    /\ pendByAction = {a \in Own : pstate[a] \in {"reserved", "inFlight"}}
    /\ publicPending = Cardinality(pendByAction \ Pings)
    /\ publicPending <= MaxPending
    /\ folByAction = {f \in Follows : fol[f].phase = "active"}
    /\ listByAction = {l \in Lists : list[l].phase \in RoutingPhases}
    /\ Cardinality(listByAction) <= MaxLists
    /\ ToSet(subOrder) = {s \in Subs : sub[s].phase = "active"}
    /\ Len(subOrder) = Cardinality(ToSet(subOrder))
    /\ Len(subOrder) <= MaxSubscriptions

----------------------------------------------------------------------------
(* Outcomes and deliveries                                                 *)

\* Correlation: a list's items reach only that list, a follow receives only
\* its own events, and no subscription sees list traffic.
Correlation ==
    /\ \A s \in Subs : \A m \in ToSet(sub[s].q) : m.src \notin Lists
    /\ \A f \in Follows : \A m \in ToSet(fol[f].q) : m.src = f
    /\ \A l \in Lists : \A m \in ToSet(list[l].q) : m.src = l

\* Nothing is delivered for a quarantined action.
QuarantineHolds ==
    [][\A s \in Subs :
        Len(sub'[s].q) > Len(sub[s].q) => LET m == Last(sub'[s].q)
                                          IN  m.src \in Own => ~Live(m.src)]_vars

\* A list ends cleanly only after its response and its mark, with the
\* completion event it exposes, whose declared count is the number of items
\* that were queued; a list cancelled, failed or closed exposes none.
CompletionHonest ==
    \A l \in Lists :
        LET clean == list[l].phase \in {"bufferedComplete", "draining"}
        IN  /\ list[l].completion # NoMessage <=> clean
            /\ clean /\ l \in CountedLists =>
                  list[l].completion.count \in {CountAbsent, list[l].items}
            /\ list[l].phase = "draining" => l \in answered /\ l \in marked

\* A parked consumer has nothing to take: each item and each terminal that a
\* machine call commits is in the wake set of that call.
NoLostWakeup ==
    \A b \in parked : Phase(b) \in {"active", "streaming"} /\ Queue(b) = <<>>

----------------------------------------------------------------------------
(* Why the retirement discipline holds                                     *)

Waiting(a) == pstate[a] \in {"reserved", "inFlight"}
EarlyPhases == RoutingPhases \ {"streaming"}

\* An action is waiting exactly while it is indexed for its response; a
\* waiting request holds its slot, and an action never admitted has no trace.
PendingPart(a) ==
    /\ a \in pendByAction <=> Waiting(a)
    /\ a \in pendHold <=> Waiting(a) /\ a \notin Lists
    /\ Waiting(a) => ~dead /\ outcome[a] = "none" /\ a \notin answered
    /\ outcome[a] = "dead" => dead
    /\ ~Admitted(a) => /\ outcome[a] = "none" /\ rec[a] = NoRecord
                       /\ a \notin answered \cup rejected \cup marked

\* A record waits for something, for exactly what is missing, in a slot that
\* nothing else uses.
RecordPart(a) ==
    /\ rec[a] # NoRecord =>
          /\ ~dead /\ a \notin pendHold \cup listHold
          /\ rec[a].needResponse \/ rec[a].needMark
          /\ rec[a].needResponse <=> a \notin answered
          /\ rec[a].needMark <=> a \in Lists /\ a \notin marked \cup rejected

\* A list holds its slot while it is routed to, and its phase says which of the
\* two facts it has seen.
ListPart(l) ==
    /\ l \in listByAction <=> list[l].phase \in RoutingPhases
    /\ l \in listHold <=> list[l].phase \in RoutingPhases
    /\ list[l].phase \in RoutingPhases =>
          /\ ~dead /\ Admitted(l) /\ l \notin rejected
          /\ list[l].responseSeen <=> l \in answered
          /\ list[l].markSeen <=> l \in marked
          /\ list[l].responseSeen <=> list[l].phase = "streaming"
          /\ list[l].markSeen <=> list[l].phase \in {"bufferedComplete", "bufferedCancelled"}
    /\ list[l].phase \in EarlyPhases => Waiting(l)
    /\ Waiting(l) => /\ list[l].phase \in EarlyPhases \cup {"dead"}
                     /\ ~list[l].adopted /\ l \in lstOpen

\* The inductive invariant behind SlotIffOutstanding and LateResponseHasHome.
SlotInductive ==
    /\ SlotTypeOK
    /\ \A a \in Own : PendingPart(a) /\ RecordPart(a)
    /\ \A l \in Lists : ListPart(l)
    /\ ~dead => \A a \in Own :
          Admitted(a) /\ outcome[a] # "aborted" /\ Outstanding(a) => HoldsSlot(a)

----------------------------------------------------------------------------
(* Why the branches are sound                                              *)

EndReasons == {"Lagged", "Overflow", "Cancelled", "CountMismatch", "CountMalformed",
               "ClientDead"}

GivenUp == {"abandoned", "aborted"}

\* What may be queued for whom.
Unlisted == {m \in Message : m.src \notin Lists}
From(a) == {m \in Message : m.src = a}

SubType == [phase : {"none", "active", "dead"}, reason : Reasons, q : Seq(Unlisted)]
FollowType == [phase : {"none", "active", "draining", "dead"}, reason : Reasons,
               adopted : BOOLEAN, q : Seq(Message)]

BranchTypeOK ==
    /\ sub \in [Subs -> SubType] /\ subOrder \in Seq(Subs)
    /\ fol \in [Follows -> FollowType] /\ folByAction \subseteq Follows
    /\ parked \subseteq Branches

\* The reason says how a branch ended, and an ended branch is empty.
PhasePart(b) ==
    /\ b.phase = "dead" => b.reason \in EndReasons /\ b.q = <<>>
    /\ b.phase # "dead" => b.reason = "None"
    /\ b.phase = "none" => b.q = <<>>

SubPart(s) ==
    /\ PhasePart(sub[s])
    /\ s \in ToSet(subOrder) <=> sub[s].phase = "active"

\* A follow that no admission or adoption stands for is none.
FollowPart(f) ==
    /\ PhasePart(fol[f]) /\ fol[f].q \in Seq(From(f))
    /\ f \in folByAction <=> fol[f].phase = "active"
    /\ f \in folOpen => fol[f].phase # "none" /\ ~fol[f].adopted
    /\ fol[f].phase = "none" => ~fol[f].adopted
    /\ ~Admitted(f) => fol[f] = NoFollow /\ f \notin folOpen

\* An early list is not adopted, a clean one stores its completion event, and
\* one whose caller gave it up is gone.  Only an admission starts a list.
HeldListPart(l) ==
    /\ PhasePart(list[l]) /\ list[l].q \in Seq(From(l))
    /\ list[l].adopted => list[l].phase \in {"streaming", "draining", "dead"}
    /\ l \in lstOpen => list[l].phase # "none" /\ ~list[l].adopted
    /\ list[l].completion # NoMessage <=> list[l].phase \in {"bufferedComplete", "draining"}
    /\ list[l].phase \in {"bufferedComplete", "draining"} /\ l \in CountedLists =>
          list[l].completion.count \in {CountAbsent, list[l].items}
    /\ list[l].phase = "draining" => l \in answered /\ l \in marked
    /\ outcome[l] \in GivenUp => list[l].phase \notin RoutingPhases
    /\ ~Admitted(l) => list[l].phase = "none" /\ ~list[l].adopted /\ l \notin lstOpen

ParkedPart(b) ==
    /\ Phase(b) \in {"active", "streaming"} /\ Queue(b) = <<>>
    /\ b \in Follows => fol[b].adopted
    /\ b \in Lists => list[b].adopted

\* The inductive invariant behind the properties of branches.
BranchInductive ==
    /\ SlotInductive
    /\ BranchTypeOK
    /\ \A s \in Subs : SubPart(s)
    /\ \A f \in Follows : FollowPart(f)
    /\ \A l \in Lists : HeldListPart(l)
    /\ \A b \in parked : ParkedPart(b)

----------------------------------------------------------------------------
(* Why every ticket can be resolved                                        *)

\* A write is resolved once.  A ticket that waits no more has an outcome, and
\* is released as soon as its write is resolved and its branch has an owner;
\* a rejected list has none.
TicketPart(a) ==
    /\ a \in committed => pstate[a] \notin {"none", "reserved"}
    /\ pstate[a] = "inFlight" => a \in committed
    /\ Admitted(a) /\ ~Waiting(a) =>
          /\ outcome[a] # "none"
          /\ pstate[a] = "released" <=> a \in committed /\ a \notin folOpen \cup lstOpen
    /\ a \in Follows /\ Waiting(a) => a \in folOpen
    /\ outcome[a] \in GivenUp => pstate[a] = "released"
    /\ outcome[a] = "error" => a \notin lstOpen

\* A branch that is neither provisional nor adopted is gone.
HeldPart ==
    /\ \A f \in Follows : f \in folOpen \/ fol[f].adopted \/ fol[f] = NoFollow
    /\ \A l \in Lists : l \in lstOpen \/ list[l].adopted \/ list[l] = NoList

\* What the session relies on when it resolves its tickets.
TicketInductive ==
    /\ BranchInductive
    /\ \A a \in Own : TicketPart(a)
    /\ HeldPart

----------------------------------------------------------------------------
(* Why the counters and the indexes are right                              *)

\* The public actions that hold a slot of their own, and those that occupy one
\* of the pool in either way.
Holders == (pendHold \cup listHold) \ Pings
Occupants == Holders \cup PublicRecords

HeldPings == {p \in Pings : p \in pendHold \/ Live(p)}

PendingCounts ==
    /\ publicPending = Cardinality(pendByAction \ Pings)
    /\ publicPending <= MaxPending
    /\ Cardinality(listByAction) <= MaxLists

SlotCounts ==
    /\ retHeld = Cardinality(Holders)
    /\ Cardinality(Occupants) <= MaxRetirement
    /\ HeldPings # {} => internalRetHeld
    /\ \A p, q \in HeldPings : p = q

OrderCounts ==
    /\ IsInjective(subOrder)
    /\ Len(subOrder) <= MaxSubscriptions

\* The inductive invariant behind RoutingIndexes and AccountSpec.
CountInductive ==
    /\ BranchInductive
    /\ PendingCounts /\ SlotCounts /\ OrderCounts

----------------------------------------------------------------------------
(* The abstract account of what is owed                                    *)

\* Where the machine keeps it: in the pending, in the list branch, or in a
\* record.  Turning one into another leaves it unchanged.
Owed(a) ==
    {f \in {"response", "mark"} :
        \/ a \in pendHold /\ f = "response"
        \/ a \in listHold /\ f = "response" /\ ~list[a].responseSeen
        \/ a \in listHold /\ f = "mark" /\ ~list[a].markSeen
        \/ f = "response" /\ rec[a].needResponse
        \/ f = "mark" /\ rec[a].needMark}

\* What the server has sent: a rejection stands for both facts.
Heard(a) ==
    {f \in {"response", "mark"} :
        \/ f = "response" /\ a \in answered
        \/ f = "mark" /\ a \in marked \cup rejected}

Account == INSTANCE Obligations
    WITH owed <- [a \in Own |-> Owed(a)], heard <- [a \in Own |-> Heard(a)],
         live <- ~dead

\* The machine implements the account: a slot moves between pending, branch and
\* record without anything owed being forgotten, invented or overbooked.
AccountSpec == Account!Spec

----------------------------------------------------------------------------
(* What the holder of a branch sees                                        *)

BranchPhase(b) == IF ~Open(b) THEN "none"
                  ELSE IF Phase(b) = "streaming" THEN "active" ELSE Phase(b)
BranchReason(b) == IF ~Open(b) THEN "None"
                   ELSE IF b \in Subs THEN sub[b].reason
                   ELSE IF b \in Follows THEN fol[b].reason ELSE list[b].reason

Held(b) == INSTANCE Branch
    WITH Messages <- Message, Reasons <- EndReasons, phase <- BranchPhase(b),
         reason <- BranchReason(b), q <- IF Open(b) THEN Queue(b) ELSE <<>>

\* The machine implements module Branch for every branch at once: whichever of
\* them one message or the death of the client reaches, each keeps its order,
\* ends once, and a clean end keeps its queue even through client death.
BranchSpec ==
    /\ \A b \in Branches : Held(b)!NoBranch
    /\ [][\A b \in Branches : [Held(b)!Next]_(Held(b)!branch)]_vars
=============================================================================
