---------------------------- MODULE DemuxProofs ----------------------------
(***************************************************************************)
(* Proofs about the machine, for every value of the constants: first its   *)
(* retirement discipline, then its branches.                               *)
(***************************************************************************)
EXTENDS DemuxSafety, SumProofs, FiniteSetTheorems, TLAPS

----------------------------------------------------------------------------
(* What the helpers return                                                 *)

\* The initial and the closed branch are list branches.
LEMMA ListConstants ==
    /\ NoList \in ListType /\ NewList \in ListType
    /\ NoList.phase = "none" /\ ~NoList.adopted
    /\ NewList.phase = "buffering" /\ ~NewList.adopted
    /\ ~NewList.responseSeen /\ ~NewList.markSeen
<1>1. NoList \in ListType
  <2>1. NoMessage \in [size : Nat, count : Int]
    BY DEF NoMessage, CountAbsent
  <2>2. <<>> \in Seq(Message)
    OBVIOUS
  <2> QED BY <2>1, <2>2 DEF NoList, ListType, Reasons
<1>2. NewList \in ListType
  BY <1>1 DEF NewList, ListType, RoutingPhases
<1> QED BY <1>1, <1>2 DEF NoList, NewList

\* A terminal of a list keeps all but its phase, reason and contents.
LEMMA EndedListType ==
    ASSUME NEW l \in ListType, NEW reason \in Reasons
    PROVE  /\ EndedList(l, reason) \in ListType
           /\ EndedList(l, reason).phase = "dead"
           /\ EndedList(l, reason).adopted = l.adopted
           /\ EndedList(l, reason).responseSeen = l.responseSeen
           /\ EndedList(l, reason).markSeen = l.markSeen
<1>1. NoMessage \in [size : Nat, count : Int] /\ <<>> \in Seq(Message)
  BY DEF NoMessage, CountAbsent
<1>2. Ended(l, reason) \in ListType
  BY <1>1 DEF Ended, ListType
<1>3. EndedList(l, reason) \in ListType
  BY <1>1, <1>2 DEF EndedList, ListType
<1> QED BY <1>3 DEF EndedList, Ended, ListType

\* Evidence leaves a record that waits for less, or no record.
LEMMA EvidenceType ==
    ASSUME NEW r \in RecordType, NEW response \in BOOLEAN, NEW mark \in BOOLEAN
    PROVE  /\ Evidence(r, response, mark) \in RecordType
           /\ Evidence(r, response, mark).needResponse <=> r.needResponse /\ ~response
           /\ Evidence(r, response, mark).needMark <=> r.needMark /\ ~mark
           /\ Evidence(r, response, mark) # NoRecord =>
                  Evidence(r, response, mark).needResponse \/ Evidence(r, response, mark).needMark
  BY DEF Evidence, RecordType, NoRecord

\* A new record waits for what it is told to.
LEMMA NewRecordType ==
    ASSUME NEW needResponse \in BOOLEAN, NEW needMark \in BOOLEAN, now' \in Nat
    PROVE  /\ NewRecord(needResponse, needMark) \in RecordType
           /\ NewRecord(needResponse, needMark).needResponse = needResponse
           /\ NewRecord(needResponse, needMark).needMark = needMark
<1>1. \A n \in Nat : n + RetirementLifetime \in Nat
  BY LimitsAssumption
<1>2. now' + RetirementLifetime \in Nat
  BY <1>1
<1> QED BY <1>2, Zenon DEF NewRecord, RecordType

\* The settled slot is a record of what is missing, if a list holds the slot.
LEMMA SlotRecordType ==
    ASSUME NEW a \in Own, NEW responseSeen \in BOOLEAN, NEW markSeen \in BOOLEAN,
           rec \in [Own -> RecordType], now' \in Nat
    PROVE  /\ SlotRecord(a, responseSeen, markSeen) \in RecordType
           /\ a \notin listHold => SlotRecord(a, responseSeen, markSeen) = rec[a]
           /\ responseSeen /\ markSeen => SlotRecord(a, responseSeen, markSeen) = rec[a]
           /\ a \in listHold /\ ~(responseSeen /\ markSeen) =>
                /\ SlotRecord(a, responseSeen, markSeen).needResponse = ~responseSeen
                /\ SlotRecord(a, responseSeen, markSeen).needMark = ~markSeen
  BY NewRecordType DEF SlotRecord

\* The response moves a list out of the phases before it.
LEMMA RespondedType ==
    ASSUME NEW l \in ListType, l.phase \in EarlyPhases \cup {"dead"}
    PROVE  /\ Responded(l, FALSE) = NoList
           /\ Responded(l, TRUE) \in ListType
           /\ Responded(l, TRUE).adopted = l.adopted
           /\ Responded(l, TRUE).responseSeen
           /\ Responded(l, TRUE).markSeen = l.markSeen
           /\ Responded(l, TRUE).phase \in {"streaming", "draining", "dead"}
           /\ Responded(l, TRUE).phase = "streaming" <=> l.phase = "buffering"
<1> DEFINE seen == [l EXCEPT !.responseSeen = TRUE]
<1>1. /\ seen \in ListType /\ seen.responseSeen /\ seen.adopted = l.adopted
      /\ seen.markSeen = l.markSeen /\ seen.phase = l.phase
  BY DEF ListType
<1>2. EndedList(seen, "Cancelled") \in ListType
      /\ EndedList(seen, "Cancelled").phase = "dead"
      /\ EndedList(seen, "Cancelled").adopted = l.adopted
      /\ EndedList(seen, "Cancelled").responseSeen
      /\ EndedList(seen, "Cancelled").markSeen = l.markSeen
  BY <1>1, EndedListType DEF Reasons
<1>3. Responded(l, FALSE) = NoList
  BY DEF Responded
<1>4. l.phase \in {"buffering", "bufferedComplete", "bufferedCancelled", "dead"}
  BY DEF EarlyPhases, RoutingPhases
<1>5. CASE l.phase = "buffering"
  <2>1. Responded(l, TRUE) = [seen EXCEPT !.phase = "streaming"]
    BY <1>5 DEF Responded
  <2> QED BY <2>1, <1>1, <1>3, <1>5 DEF ListType, RoutingPhases
<1>6. CASE l.phase = "bufferedComplete"
  <2>1. Responded(l, TRUE) = [seen EXCEPT !.phase = "draining"]
    BY <1>6 DEF Responded
  <2> QED BY <2>1, <1>1, <1>3, <1>6 DEF ListType, RoutingPhases
<1>7. CASE l.phase = "bufferedCancelled"
  <2>1. Responded(l, TRUE) = EndedList(seen, "Cancelled")
    BY <1>7 DEF Responded
  <2> QED BY <2>1, <1>2, <1>3, <1>7
<1>8. CASE l.phase = "dead"
  <2>1. Responded(l, TRUE) = seen
    BY <1>8 DEF Responded
  <2> QED BY <2>1, <1>1, <1>3, <1>8
<1> QED BY <1>4, <1>5, <1>6, <1>7, <1>8

\* Observing an event notes its mark and changes nothing else of the progress.
LEMMA ObservedType ==
    ASSUME NEW a \in Lists, list[a] \in ListType, NEW e \in ListEvent(a)
    PROVE  /\ Observed(a, e) \in ListType
           /\ Observed(a, e).phase = list[a].phase
           /\ Observed(a, e).adopted = list[a].adopted
           /\ Observed(a, e).responseSeen = list[a].responseSeen
           /\ Observed(a, e).markSeen <=> list[a].markSeen \/ IsTerminalMark(a, e)
<1>1. list[a].observed + e.size \in Nat
  <2>1. list[a].observed \in Nat
    BY DEF ListType
  <2>2. e.size \in Nat
    BY InputsAssumption DEF ListEvent
  <2> HIDE DEF ListEvent
  <2>3. \A m, n \in Nat : m + n \in Nat
    OBVIOUS
  <2> QED BY <2>1, <2>2, <2>3
<1>2. (list[a].markSeen \/ IsTerminalMark(a, e)) \in BOOLEAN
  BY DEF ListType, IsTerminalMark, Completes
<1> QED BY <1>1, <1>2 DEF Observed, ListType

\* SetList replaces one branch and gives its slot back when routing ends.
LEMMA SetListEffect ==
    ASSUME NEW a \in Lists, NEW l \in ListType, SetList(a, l), SlotTypeOK
    PROVE  /\ list' \in [Lists -> ListType]
           /\ list'[a] = l
           /\ \A b \in Lists \ {a} : list'[b] = list[b]
           /\ l.phase \in RoutingPhases =>
                listByAction' = listByAction /\ listHold' = listHold
           /\ l.phase \notin RoutingPhases =>
                /\ listByAction' = listByAction \ {a}
                /\ listHold' = listHold \ {a}
           /\ retHeld' \in Int
  BY DEF SetList, SlotTypeOK, slotVars

----------------------------------------------------------------------------
(* The initial state, and the steps that do not touch a slot               *)

\* Nothing is admitted at the start.
LEMMA SlotInit == Init => SlotInductive
<1> SUFFICES ASSUME Init PROVE SlotInductive
  OBVIOUS
<1> USE DEF Init
<1>1. SlotTypeOK
  <2>1. rec \in [Own -> RecordType]
    BY DEF RecordType, NoRecord
  <2>2. list \in [Lists -> ListType]
    BY ListConstants
  <2>3. pstate \in [Own -> {"none", "reserved", "inFlight", "completed", "released"}]
    OBVIOUS
  <2>4. outcome \in [Own -> {"none", "success", "error", "dead", "aborted", "abandoned"}]
    OBVIOUS
  <2>5. time \in Nat /\ now \in Nat /\ publicPending \in Int /\ retHeld \in Int
    OBVIOUS
  <2> QED BY <2>1, <2>2, <2>3, <2>4, <2>5, Zenon DEF SlotTypeOK
<1>2. \A a \in Own : PendingPart(a) /\ RecordPart(a)
  BY DEF PendingPart, RecordPart, Waiting, Admitted
<1>3. \A l \in Lists : ListPart(l)
  BY ListConstants DEF ListPart, Waiting, EarlyPhases, RoutingPhases, Own
<1> QED BY <1>1, <1>2, <1>3 DEF SlotInductive, Admitted

\* A step after which the same actions wait, the same slots are held and the
\* lists are as far as before preserves the invariant.
LEMMA SlotFrame ==
    ASSUME SlotInductive, SlotTypeOK',
           UNCHANGED <<dead, outcome, pendHold, pendByAction, listByAction,
                       listHold, rec, answered, rejected, marked>>,
           \A a \in Own : (Waiting(a)' <=> Waiting(a)) /\ (Admitted(a)' <=> Admitted(a)),
           \A l \in Lists :
              /\ list'[l].phase = list[l].phase
              /\ list'[l].responseSeen = list[l].responseSeen
              /\ list'[l].markSeen = list[l].markSeen
              /\ Waiting(l) => /\ list'[l].adopted = list[l].adopted
                               /\ l \in lstOpen => l \in lstOpen'
    PROVE  SlotInductive'
<1>1. ASSUME NEW a \in Own PROVE PendingPart(a)' /\ RecordPart(a)'
  BY <1>1 DEF SlotInductive, PendingPart, RecordPart
<1>2. ASSUME NEW l \in Lists PROVE ListPart(l)'
  <2>1. l \in Own
    BY DEF Own
  <2> QED BY <2>1 DEF SlotInductive, ListPart
<1>3. (~dead => \A a \in Own :
          Admitted(a) /\ outcome[a] # "aborted" /\ Outstanding(a) => HoldsSlot(a))'
  BY DEF SlotInductive, Outstanding, HoldsSlot, Live
<1> QED BY <1>1, <1>2, <1>3 DEF SlotInductive

\* The clocks stay natural numbers, however a call is stamped.
LEMMA ClockType ==
    ASSUME time \in Nat, now \in Nat
    PROVE  (Stamped \/ StampedNow) => now' \in Nat
<1>1. \A n \in now..time : n \in Nat
  OBVIOUS
<1> QED BY <1>1 DEF Stamped, StampedNow

\* A step that leaves pendings, lists, slots and records alone.
LEMMA SlotQuiet ==
    ASSUME SlotInductive, time' \in Nat, now' \in Nat,
           UNCHANGED <<lifeVars, pendVars, listVars, slotVars, recVars, history>>
    PROVE  SlotInductive'
<1> USE DEF lifeVars, pendVars, listVars, slotVars, recVars, history
<1>1. SlotTypeOK'
  BY Zenon DEF SlotInductive, SlotTypeOK
<1>2. /\ \A a \in Own : (Waiting(a)' <=> Waiting(a)) /\ (Admitted(a)' <=> Admitted(a))
      /\ UNCHANGED <<dead, outcome, pendHold, pendByAction, list, listByAction,
                     listHold, rec, answered, rejected, marked, lstOpen>>
  BY Zenon DEF Waiting, Admitted
<1> QED BY <1>1, <1>2, SlotFrame

\* A ticket that only completes its bookkeeping does not start or stop waiting.
LEMMA CompletedState ==
    ASSUME NEW a
    PROVE  Completed(a) \in {"completed", "released"}
  BY DEF Completed

LEMMA CommitWriteStep ==
    ASSUME SlotInductive, NEW a \in Own, CommitWrite(a)
    PROVE  SlotInductive'
<1> USE DEF CommitWrite, clockVars, lifeVars, listVars, slotVars, recVars, history
<1>1. pstate' \in [Own -> {"none", "reserved", "inFlight", "completed", "released"}]
  BY CompletedState DEF SlotInductive, SlotTypeOK
<1>2. SlotTypeOK'
  BY <1>1 DEF SlotInductive, SlotTypeOK
<1>3. \A b \in Own : (Waiting(b)' <=> Waiting(b)) /\ (Admitted(b)' <=> Admitted(b))
  BY CompletedState DEF SlotInductive, SlotTypeOK, Waiting, Admitted
<1> QED BY <1>2, <1>3, SlotFrame

LEMMA AdoptFollowStep ==
    ASSUME SlotInductive, NEW f \in Follows, AdoptFollow(f) \/ CloseFollow(f)
    PROVE  SlotInductive'
<1> USE DEF AdoptFollow, CloseFollow, ReleaseFollow, clockVars, lifeVars, folVars,
            listVars, slotVars, recVars, history
<1>0. f \in Own
  BY DEF Own
<1>1. ~Waiting(f) /\ Admitted(f)
  BY <1>0 DEF SlotInductive, SlotTypeOK, PendingPart, Waiting, Admitted
<1>2. pstate' \in [Own -> {"none", "reserved", "inFlight", "completed", "released"}]
  BY CompletedState DEF SlotInductive, SlotTypeOK
<1>3. SlotTypeOK'
  BY <1>2 DEF SlotInductive, SlotTypeOK
<1>4. \A b \in Own : (Waiting(b)' <=> Waiting(b)) /\ (Admitted(b)' <=> Admitted(b))
  BY <1>0, <1>1, CompletedState DEF SlotInductive, SlotTypeOK, Waiting, Admitted
<1> QED BY <1>3, <1>4, SlotFrame

LEMMA AdoptListStep ==
    ASSUME SlotInductive, NEW l \in Lists, AdoptList(l)
    PROVE  SlotInductive'
<1> USE DEF AdoptList, clockVars, lifeVars, listVars, slotVars, recVars, history
<1>0. l \in Own
  BY DEF Own
<1>1. ~Waiting(l) /\ Admitted(l)
  BY <1>0 DEF SlotInductive, SlotTypeOK, PendingPart, Waiting, Admitted
<1>2. pstate' \in [Own -> {"none", "reserved", "inFlight", "completed", "released"}]
  BY CompletedState DEF SlotInductive, SlotTypeOK
<1>3. list' \in [Lists -> ListType]
  <2>1. list \in [Lists -> ListType]
    BY DEF SlotInductive, SlotTypeOK
  <2>2. [list[l] EXCEPT !.adopted = TRUE] \in ListType
    BY <2>1 DEF ListType
  <2> QED BY <2>1, <2>2
<1>4. SlotTypeOK'
  BY <1>2, <1>3 DEF SlotInductive, SlotTypeOK
<1>5. \A b \in Own : (Waiting(b)' <=> Waiting(b)) /\ (Admitted(b)' <=> Admitted(b))
  BY <1>0, <1>1, CompletedState DEF SlotInductive, SlotTypeOK, Waiting, Admitted
<1>6. \A k \in Lists :
          /\ list'[k].phase = list[k].phase
          /\ list'[k].responseSeen = list[k].responseSeen
          /\ list'[k].markSeen = list[k].markSeen
          /\ Waiting(k) => /\ list'[k].adopted = list[k].adopted
                           /\ k \in lstOpen => k \in lstOpen'
  BY <1>1 DEF SlotInductive, SlotTypeOK, ListType
<1> QED BY <1>4, <1>5, <1>6, SlotFrame

LEMMA TakeItemStep ==
    ASSUME SlotInductive, NEW b \in Branches, TakeItem(b)
    PROVE  SlotInductive'
<1> USE DEF TakeItem, clockVars, lifeVars, pendVars, slotVars, recVars, history
<1>1. list' \in [Lists -> ListType] /\ \A k \in Lists :
          /\ list'[k].phase = list[k].phase
          /\ list'[k].responseSeen = list[k].responseSeen
          /\ list'[k].markSeen = list[k].markSeen
          /\ list'[k].adopted = list[k].adopted
  <2>0. list \in [Lists -> ListType]
    BY DEF SlotInductive, SlotTypeOK
  <2>1. CASE b \notin Lists
    BY <2>0, <2>1
  <2>2. CASE b \in Lists
    <3>1. Queue(b) = list[b].q
      BY <2>2, InputsAssumption, KindsAssumption DEF Queue, Own
    <3>2. list[b].q \in Seq(Message) /\ list[b].q # <<>>
      BY <2>0, <2>2, <3>1 DEF ListType
    <3>3. Tail(list[b].q) \in Seq(Message)
      BY <3>2
    <3> QED BY <2>0, <2>2, <3>3 DEF ListType
  <2> QED BY <2>1, <2>2
<1>2. SlotTypeOK'
  BY <1>1 DEF SlotInductive, SlotTypeOK
<1>3. \A a \in Own : (Waiting(a)' <=> Waiting(a)) /\ (Admitted(a)' <=> Admitted(a))
  BY DEF Waiting, Admitted
<1> QED BY <1>1, <1>2, <1>3, SlotFrame

----------------------------------------------------------------------------
(* The steps that reserve, move or give back a slot                        *)

LEMMA AdmitStep ==
    ASSUME SlotInductive, NEW a \in Own, Admit(a)
    PROVE  SlotInductive'
<1> USE DEF Admit, clockVars, lifeVars, history
<1>1. SlotTypeOK'
  <2>1. list' \in [Lists -> ListType]
    BY ListConstants DEF SlotInductive, SlotTypeOK
  <2>2. pstate' \in [Own -> {"none", "reserved", "inFlight", "completed", "released"}]
    BY DEF SlotInductive, SlotTypeOK
  <2>3. publicPending' \in Int /\ retHeld' \in Int
    BY DEF SlotInductive, SlotTypeOK
  <2>4. internalActive' \in BOOLEAN /\ internalRetHeld' \in BOOLEAN
    BY DEF SlotInductive, SlotTypeOK
  <2>5. /\ pendHold' \subseteq RequestKind /\ folOpen' \subseteq Follows
        /\ lstOpen' \subseteq Lists /\ pendByAction' \subseteq Own
        /\ listByAction' \subseteq Lists /\ listHold' \subseteq Lists
    BY DEF SlotInductive, SlotTypeOK
  <2> QED BY <2>1, <2>2, <2>3, <2>4, <2>5 DEF SlotInductive, SlotTypeOK
<1>2. /\ \A b \in Own : Waiting(b)' <=> (Waiting(b) \/ b = a)
      /\ \A b \in Own : Admitted(b)' <=> (Admitted(b) \/ b = a)
      /\ ~Waiting(a) /\ ~Admitted(a)
  BY DEF SlotInductive, SlotTypeOK, Waiting, Admitted
<1>3. ASSUME NEW b \in Own PROVE PendingPart(b)' /\ RecordPart(b)'
  <2>1. PendingPart(b) /\ RecordPart(b) /\ PendingPart(a)
    BY DEF SlotInductive
  <2>2. PendingPart(b)'
    BY <1>2, <2>1 DEF PendingPart, RequestKind
  <2>3. RecordPart(b)'
    BY <1>2, <2>1 DEF RecordPart, PendingPart
  <2> QED BY <2>2, <2>3
<1>4. ASSUME NEW l \in Lists PROVE ListPart(l)'
  <2>1. l \in Own /\ ListPart(l) /\ PendingPart(a)
    BY DEF SlotInductive, Own
  <2>2. CASE l = a
    <3>1. /\ list'[l] = NewList /\ l \in listByAction' /\ l \in listHold'
          /\ l \in lstOpen'
      BY <2>2 DEF SlotInductive, SlotTypeOK
    <3>2. list'[l].phase = "buffering" /\ ~list'[l].adopted
          /\ ~list'[l].responseSeen /\ ~list'[l].markSeen
      BY <3>1, ListConstants
    <3>3. ~dead' /\ l \notin answered' /\ l \notin marked' /\ l \notin rejected'
      BY <1>2, <2>1, <2>2 DEF PendingPart
    <3>4. Waiting(l)' /\ Admitted(l)'
      BY <1>2, <2>1, <2>2
    <3> QED BY <3>1, <3>2, <3>3, <3>4 DEF ListPart, EarlyPhases, RoutingPhases
  <2>3. CASE l # a
    <3>1. /\ list'[l] = list[l] /\ (l \in listByAction' <=> l \in listByAction)
          /\ (l \in listHold' <=> l \in listHold) /\ (l \in lstOpen' <=> l \in lstOpen)
          /\ (l \in lstOpen' <=> l \in lstOpen)
      BY <2>3 DEF SlotInductive, SlotTypeOK
    <3> QED BY <1>2, <2>1, <2>3, <3>1 DEF ListPart
  <2> QED BY <2>2, <2>3
<1>5. ASSUME NEW b \in Own, Admitted(b)', outcome'[b] # "aborted", Outstanding(b)'
      PROVE  HoldsSlot(b)'
  <2>1. CASE b = a
    BY <2>1 DEF HoldsSlot, RequestKind
  <2>2. CASE b # a
    BY <1>2, <1>5, <2>2 DEF SlotInductive, HoldsSlot, Live, Outstanding
  <2> QED BY <2>1, <2>2
<1> QED BY <1>1, <1>3, <1>4, <1>5 DEF SlotInductive

\* What the invariant says of one action.
SlotPart(a) ==
    /\ PendingPart(a) /\ RecordPart(a)
    /\ a \in Lists => ListPart(a)
    /\ ~dead /\ Admitted(a) /\ outcome[a] # "aborted" /\ Outstanding(a) => HoldsSlot(a)

\* The step leaves everything that concerns b as it is.
SameSlot(b) ==
    /\ pstate'[b] = pstate[b] /\ outcome'[b] = outcome[b] /\ rec'[b] = rec[b]
    /\ b \in pendHold' <=> b \in pendHold
    /\ b \in pendByAction' <=> b \in pendByAction
    /\ b \in answered' <=> b \in answered
    /\ b \in rejected' <=> b \in rejected
    /\ b \in marked' <=> b \in marked
    /\ b \in listHold' <=> b \in listHold
    /\ b \in Lists => /\ list'[b] = list[b]
                      /\ b \in listByAction' <=> b \in listByAction
                      /\ b \in lstOpen' <=> b \in lstOpen

\* A step that concerns one action need only restore that action's part.
LEMMA SlotLocal ==
    ASSUME SlotInductive, SlotTypeOK', UNCHANGED dead, NEW a \in Own,
           \A b \in Own \ {a} : SameSlot(b), SlotPart(a)'
    PROVE  SlotInductive'
<1>1. ASSUME NEW b \in Own PROVE SlotPart(b)'
  <2>1. CASE b = a
    BY <2>1
  <2>2. CASE b # a
    <3>1. SameSlot(b)
      BY <2>2
    <3>2. SlotPart(b)
      BY DEF SlotInductive, SlotPart
    <3>3. PendingPart(b)' /\ RecordPart(b)'
      BY <3>1, <3>2 DEF SameSlot, SlotPart, PendingPart, RecordPart, Waiting, Admitted
    <3>4. b \in Lists => ListPart(b)'
      BY <3>1, <3>2 DEF SameSlot, SlotPart, ListPart, Waiting, Admitted
    <3>5. (~dead /\ Admitted(b) /\ outcome[b] # "aborted" /\ Outstanding(b) => HoldsSlot(b))'
      BY <3>1, <3>2 DEF SameSlot, SlotPart, Admitted, Outstanding, HoldsSlot, Live
    <3> QED BY <3>3, <3>4, <3>5 DEF SlotPart
  <2> QED BY <2>1, <2>2
<1>2. \A l \in Lists : l \in Own
  BY DEF Own
<1> QED BY <1>1, <1>2 DEF SlotInductive, SlotPart

LEMMA AbortNotSentStep ==
    ASSUME SlotInductive, NEW a \in Own, AbortNotSent(a)
    PROVE  SlotInductive'
<1> USE DEF AbortNotSent, Unpend, ReleaseFollow, clockVars, lifeVars, folVars,
            listVars, slotVars, history
<1>1. /\ SlotPart(a) /\ SlotTypeOK
      /\ a \in Lists => a \in Own
  BY DEF SlotInductive, SlotPart
<1>2. /\ pstate' \in [Own -> {"none", "reserved", "inFlight", "completed", "released"}]
      /\ pstate'[a] \in {"completed", "released"}
      /\ \A b \in Own \ {a} : pstate'[b] = pstate[b]
  BY <1>1, CompletedState DEF SlotTypeOK
<1>5. /\ publicPending' \in Int /\ internalActive' \in BOOLEAN
      /\ internalRetHeld' \in BOOLEAN
  <2>1. publicPending' \in Int
    BY <1>1 DEF SlotTypeOK
  <2>2. internalActive' \in BOOLEAN
    BY <1>1 DEF SlotTypeOK
  <2>3. (internalRetHeld /\ a \notin Pings) \in BOOLEAN
    OBVIOUS
  <2>4. internalRetHeld' \in BOOLEAN
    BY <1>1, <2>3 DEF SlotTypeOK
  <2> QED BY <2>1, <2>2, <2>4
<1>6. /\ outcome' \in [Own -> {"none", "success", "error", "dead", "aborted", "abandoned"}]
      /\ committed' \subseteq Own /\ pendHold' \subseteq RequestKind
      /\ folOpen' \subseteq Follows /\ lstOpen' \subseteq Lists
      /\ pendByAction' \subseteq Own
  BY <1>1 DEF SlotTypeOK
<1>3. CASE a \in lstOpen
  <2>1. a \in Lists /\ NoList \in ListType /\ NoList.phase = "none"
    BY <1>1, <1>3, ListConstants DEF SlotTypeOK
  <2>2. /\ list' \in [Lists -> ListType] /\ list'[a] = NoList
        /\ \A b \in Lists \ {a} : list'[b] = list[b]
        /\ listByAction' = listByAction \ {a} /\ listHold' = listHold \ {a}
        /\ retHeld' \in Int
    <3>1. SetList(a, NoList)
      BY <1>3
    <3>2. "none" \notin RoutingPhases
      BY DEF RoutingPhases
    <3> QED BY <3>1, <3>2, <2>1, <1>1, SetListEffect
  <2>3. SlotTypeOK'
    BY <1>1, <1>2, <1>5, <1>6, <2>2, Zenon DEF SlotTypeOK
  <2>4. \A b \in Own \ {a} : SameSlot(b)
    BY <1>1, <1>2, <2>2 DEF SameSlot, SlotTypeOK
  <2>5. SlotPart(a)'
    <3>1. PendingPart(a)' /\ RecordPart(a)'
      BY <1>1, <1>2, <2>1, <2>2 DEF SlotPart, PendingPart, RecordPart, Waiting,
         Admitted, SlotTypeOK, RequestKind
    <3>2. ListPart(a)'
      BY <1>1, <1>2, <2>1, <2>2 DEF SlotPart, ListPart, Waiting, RoutingPhases, EarlyPhases
    <3>3. outcome'[a] = "aborted" \/ dead
      BY <1>1 DEF SlotPart, PendingPart, SlotTypeOK
    <3> QED BY <3>1, <3>2, <3>3 DEF SlotPart
  <2> QED BY <2>3, <2>4, <2>5, SlotLocal
<1>4. CASE a \notin lstOpen
  <2>1. /\ UNCHANGED <<list, listByAction, listHold>> /\ retHeld' \in Int
        /\ Waiting(a) => a \notin Lists
    BY <1>1, <1>4 DEF SlotPart, ListPart, SlotTypeOK
  <2>3. SlotTypeOK'
    BY <1>1, <1>2, <1>4, <1>5, <1>6, <2>1, Zenon DEF SlotTypeOK
  <2>4. \A b \in Own \ {a} : SameSlot(b)
    BY <1>1, <1>2, <2>1 DEF SameSlot, SlotTypeOK
  <2>5. SlotPart(a)'
    <3>1. PendingPart(a)' /\ RecordPart(a)'
      BY <1>1, <1>2, <2>1 DEF SlotPart, PendingPart, RecordPart, Waiting,
         Admitted, SlotTypeOK, RequestKind
    <3>2. a \in Lists => ListPart(a)'
      BY <1>1, <1>2, <2>1 DEF SlotPart, ListPart, Waiting, Admitted
    <3>3. outcome'[a] = "aborted" \/ dead
      BY <1>1 DEF SlotPart, PendingPart, SlotTypeOK
    <3> QED BY <3>1, <3>2, <3>3 DEF SlotPart
  <2> QED BY <2>3, <2>4, <2>5, SlotLocal
<1> QED BY <1>3, <1>4

LEMMA AbandonStep ==
    ASSUME SlotInductive, NEW a \in Own, Abandon(a)
    PROVE  SlotInductive'
<1> USE DEF Abandon, Unpend, ReleaseFollow, lifeVars, folVars, listVars, history
<1>1. SlotPart(a) /\ SlotTypeOK /\ now' \in Nat
  BY ClockType DEF SlotInductive, SlotPart, SlotTypeOK
<1>2. /\ pstate' \in [Own -> {"none", "reserved", "inFlight", "completed", "released"}]
      /\ pstate'[a] \in {"completed", "released"}
      /\ \A b \in Own \ {a} : pstate'[b] = pstate[b]
  BY <1>1, CompletedState DEF SlotTypeOK
<1>3. /\ outcome' \in [Own -> {"none", "success", "error", "dead", "aborted", "abandoned"}]
      /\ pendHold' \subseteq RequestKind /\ folOpen' \subseteq Follows
      /\ lstOpen' \subseteq Lists /\ pendByAction' \subseteq Own
  BY <1>1 DEF SlotTypeOK
<1>7. publicPending' \in Int /\ internalActive' \in BOOLEAN
  <2>1. publicPending' \in Int
    BY <1>1 DEF SlotTypeOK
  <2>2. internalActive' \in BOOLEAN
    BY <1>1 DEF SlotTypeOK
  <2> QED BY <2>1, <2>2
<1>4. /\ ~dead /\ Waiting(a) /\ Admitted(a) /\ a \notin answered
      /\ outcome[a] = "none"
  BY <1>1 DEF SlotPart, PendingPart, Waiting, Admitted
<1>5. CASE a \in Lists
  <2>1. SetList(a, NoList) /\ NoList \in ListType /\ NoList.phase = "none"
    BY <1>5, ListConstants
  <2>2. /\ list' \in [Lists -> ListType] /\ list'[a] = NoList
        /\ \A b \in Lists \ {a} : list'[b] = list[b]
        /\ listByAction' = listByAction \ {a} /\ listHold' = listHold \ {a}
        /\ retHeld' \in Int
    BY <1>1, <1>5, <2>1, SetListEffect DEF RoutingPhases
  <2>3. /\ ~list[a].responseSeen \/ a \notin listHold
        /\ list[a].markSeen \in BOOLEAN /\ list[a].responseSeen \in BOOLEAN
        /\ a \in listHold => (list[a].markSeen <=> a \in marked) /\ a \notin rejected
                             /\ list[a].responseSeen = FALSE
    BY <1>1, <1>4, <1>5 DEF SlotPart, ListPart, SlotTypeOK, ListType, EarlyPhases, RoutingPhases
  <2> DEFINE r == SlotRecord(a, list[a].responseSeen, list[a].markSeen)
  <2>4. /\ r \in RecordType
        /\ a \notin listHold => r = rec[a]
        /\ a \in listHold => r.needResponse /\ r.needMark = ~list[a].markSeen
    <3>1. rec \in [Own -> RecordType]
      BY <1>1 DEF SlotTypeOK
    <3> QED BY <1>1, <2>3, <3>1, SlotRecordType
  <2> HIDE DEF r
  <2>5. rec' \in [Own -> RecordType] /\ rec'[a] = r
        /\ \A b \in Own \ {a} : rec'[b] = rec[b]
    BY <1>1, <1>5, <2>4 DEF SlotTypeOK, r
  <2>6. SlotTypeOK'
    BY <1>1, <1>2, <1>3, <1>7, <2>2, <2>5, Zenon DEF SlotTypeOK
  <2>7. \A b \in Own \ {a} : SameSlot(b)
    BY <1>1, <1>2, <1>5, <2>2, <2>5 DEF SameSlot, SlotTypeOK
  <2>8. RecordPart(a)'
    <3>1. CASE a \in listHold
      BY <1>1, <1>4, <1>5, <2>2, <2>3, <2>4, <2>5, <3>1 DEF RecordPart, RequestKind, SlotTypeOK
    <3>2. CASE a \notin listHold
      BY <1>1, <1>4, <1>5, <2>2, <2>4, <2>5, <3>2 DEF SlotPart, RecordPart
    <3> QED BY <3>1, <3>2
  <2>9. PendingPart(a)' /\ ListPart(a)'
    <3>1. outcome'[a] = "abandoned" /\ a \notin pendHold' /\ a \notin pendByAction'
      BY <1>1 DEF SlotTypeOK
    <3>2. PendingPart(a)'
      BY <1>2, <1>5, <3>1 DEF PendingPart, Waiting, Admitted
    <3>3. ListPart(a)'
      BY <1>2, <2>1, <2>2 DEF ListPart, Waiting, RoutingPhases, EarlyPhases
    <3> QED BY <3>2, <3>3
  <2>10. HoldsSlot(a)'
    <3>1. a \in listHold \/ rec[a] # NoRecord
      BY <1>1, <1>4, <1>5 DEF SlotPart, Outstanding, HoldsSlot, Live, PendingPart
    <3>2. a \in listHold => r # NoRecord
      BY <2>4 DEF NoRecord
    <3> QED BY <2>4, <2>5, <3>1, <3>2 DEF HoldsSlot, Live
  <2> QED BY <2>6, <2>7, <2>8, <2>9, <2>10, SlotLocal DEF SlotPart
<1>6. CASE a \notin Lists
  <2>1. rec' \in [Own -> RecordType] /\ rec'[a] = NewRecord(TRUE, FALSE)
        /\ \A b \in Own \ {a} : rec'[b] = rec[b]
    BY <1>1, <1>6, NewRecordType DEF SlotTypeOK
  <2>2. rec'[a].needResponse /\ ~rec'[a].needMark
    BY <1>1, <2>1, NewRecordType
  <2>3. /\ UNCHANGED <<list, listByAction, listHold>> /\ retHeld' \in Int
        /\ a \notin listHold
    BY <1>1, <1>6 DEF SlotTypeOK
  <2>4. SlotTypeOK'
    BY <1>1, <1>2, <1>3, <1>7, <2>1, <2>3, Zenon DEF SlotTypeOK
  <2>5. \A b \in Own \ {a} : SameSlot(b)
    BY <1>1, <1>2, <1>6, <2>1, <2>3 DEF SameSlot, SlotTypeOK
  <2>6. PendingPart(a)'
    BY <1>1, <1>2 DEF PendingPart, Waiting, Admitted, SlotTypeOK
  <2>7. RecordPart(a)'
    BY <1>4, <1>6, <2>2, <2>3 DEF RecordPart
  <2>8. HoldsSlot(a)'
    BY <2>2 DEF HoldsSlot, Live, NoRecord
  <2> QED BY <1>6, <2>4, <2>5, <2>6, <2>7, <2>8, SlotLocal DEF SlotPart
<1> QED BY <1>5, <1>6

LEMMA CloseListStep ==
    ASSUME SlotInductive, NEW l \in Lists, CloseList(l)
    PROVE  SlotInductive'
<1> USE DEF CloseList, clockVars, lifeVars, recVars, history
<1>0. l \in Own
  BY DEF Own
<1>1. SlotPart(l) /\ SlotTypeOK
  BY <1>0 DEF SlotInductive, SlotPart
<1>2. /\ list' \in [Lists -> ListType] /\ list'[l] = NoList
      /\ \A b \in Lists \ {l} : list'[b] = list[b]
      /\ listByAction' = listByAction \ {l} /\ listHold' = listHold \ {l}
      /\ retHeld' \in Int
  BY <1>1, SetListEffect, ListConstants DEF RoutingPhases
<1>3. /\ pstate' \in [Own -> {"none", "reserved", "inFlight", "completed", "released"}]
      /\ pstate'[l] \in {"completed", "released"}
      /\ \A b \in Own \ {l} : pstate'[b] = pstate[b]
      /\ ~Waiting(l)
  BY <1>0, <1>1, CompletedState DEF SlotTypeOK, SlotPart, PendingPart
<1>4. SlotTypeOK'
  BY <1>1, <1>2, <1>3 DEF SlotTypeOK
<1>5. \A b \in Own \ {l} : SameSlot(b)
  BY <1>1, <1>2, <1>3 DEF SameSlot, SlotTypeOK
<1>6. PendingPart(l)' /\ RecordPart(l)'
  BY <1>0, <1>1, <1>2, <1>3 DEF SlotPart, PendingPart, RecordPart, Waiting, Admitted
<1>7. ListPart(l)'
  BY <1>2, <1>3, ListConstants DEF ListPart, Waiting, RoutingPhases, EarlyPhases
<1> QED BY <1>0, <1>4, <1>5, <1>6, <1>7, SlotLocal DEF SlotPart

LEMMA DieStep ==
    ASSUME SlotInductive, time' \in Nat, now' \in Nat, NEW why \in Causes, Die(why)
    PROVE  SlotInductive'
<1> USE DEF Die, KilledPendings, KilledLists, history
<1>1. SlotTypeOK /\ \A a \in Own : SlotPart(a)
  BY DEF SlotInductive, SlotPart
<1>2. /\ pstate' \in [Own -> {"none", "reserved", "inFlight", "completed", "released"}]
      /\ \A a \in Own : ~Waiting(a)' /\ (Admitted(a)' <=> Admitted(a))
  BY <1>1, CompletedState DEF SlotTypeOK, Waiting, Admitted
<1>3. /\ outcome' \in [Own -> {"none", "success", "error", "dead", "aborted", "abandoned"}]
      /\ rec' \in [Own -> RecordType] /\ \A a \in Own : rec'[a] = NoRecord
  BY <1>1 DEF SlotTypeOK, NoRecord, RecordType
<1>4. /\ list' \in [Lists -> ListType]
      /\ \A l \in Lists : list'[l].phase \notin RoutingPhases
  <2>1. ASSUME NEW l \in Lists
        PROVE  list'[l] \in ListType /\ list'[l].phase \notin RoutingPhases
    <3>1. list[l] \in ListType /\ "ClientDead" \in Reasons
      BY <1>1 DEF SlotTypeOK, Reasons
    <3>2. CASE list[l].phase \in {"none", "draining", "dead"}
      BY <3>1, <3>2 DEF RoutingPhases
    <3>3. CASE list[l].phase \notin {"none", "draining", "dead"}
      BY <3>1, <3>3, EndedListType DEF RoutingPhases
    <3> QED BY <3>2, <3>3
  <2> QED BY <2>1
<1>5. /\ publicPending' \in Int /\ retHeld' \in Int
  <2>1. IsFiniteSet(Own)
    BY KindsAssumption, FS_Union DEF Own
  <2>2. /\ IsFiniteSet(KilledPendings \ Pings)
        /\ IsFiniteSet(pendHold \cap KilledPendings \cap Public)
        /\ IsFiniteSet(listHold \cap KilledLists)
    BY <2>1, KindsAssumption, FS_Subset DEF Own
  <2>3. /\ Cardinality(KilledPendings \ Pings) \in Nat
        /\ Cardinality(pendHold \cap KilledPendings \cap Public) \in Nat
        /\ Cardinality(listHold \cap KilledLists) \in Nat
    BY <2>2, FS_CardinalityType
  <2> HIDE DEF KilledPendings, KilledLists
  <2>4. \A i \in Int, m, n \in Nat : i - m \in Int /\ i - m - n \in Int
    OBVIOUS
  <2>5. publicPending \in Int /\ retHeld \in Int
    BY <1>1 DEF SlotTypeOK
  <2> QED BY <2>3, <2>4, <2>5
<1>6. /\ internalActive' \in BOOLEAN /\ internalRetHeld' \in BOOLEAN
      /\ dead' \in BOOLEAN /\ cause' \in Causes
  <2>1. (internalActive /\ KilledPendings \cap Pings = {}) \in BOOLEAN
    OBVIOUS
  <2> QED BY <2>1
<1>7. SlotTypeOK'
  BY <1>1, <1>2, <1>3, <1>4, <1>5, <1>6 DEF SlotTypeOK
<1>8. ASSUME NEW a \in Own PROVE PendingPart(a)' /\ RecordPart(a)'
  <2>1. /\ a \in pendByAction' <=> a \in pendByAction /\ ~Waiting(a)
        /\ a \in pendHold' <=> a \in pendHold /\ ~Waiting(a)
        /\ ~Admitted(a) => outcome'[a] = outcome[a]
    BY <1>1 DEF Waiting, Admitted, SlotTypeOK
  <2>2. PendingPart(a)'
    BY <1>1, <1>2, <1>3, <2>1 DEF SlotPart, PendingPart
  <2> QED BY <1>3, <2>2 DEF RecordPart
<1>9. ASSUME NEW l \in Lists PROVE ListPart(l)'
  <2>1. l \in Own /\ ~Waiting(l)'
    BY <1>2 DEF Own
  <2>2. l \notin listByAction' /\ l \notin listHold'
    BY <1>1, <2>1 DEF SlotPart, ListPart, RoutingPhases
  <2> QED BY <1>4, <2>1, <2>2 DEF ListPart, EarlyPhases
<1> QED BY <1>7, <1>8, <1>9 DEF SlotInductive

\* What an action waits for, once its record is live, is what is missing; the
\* evidence of a response resolves the response, an error the mark too.
LEMMA AnsweredRecord ==
    ASSUME SlotTypeOK, NEW a \in Own, NEW success \in BOOLEAN,
           NEW r \in RecordType,
           rec'[a] = Evidence(r, TRUE, ~success),
           r # NoRecord => (r.needMark <=> a \in Lists /\ a \notin marked \cup rejected)
                           /\ a \notin pendHold' \cup listHold' /\ ~dead',
           Answer(a, success)
    PROVE  /\ RecordPart(a)'
           /\ rec'[a] \in RecordType
           /\ rec'[a] # NoRecord <=> r.needMark /\ success
<1> USE DEF Answer
<1>1. /\ rec'[a] \in RecordType /\ ~rec'[a].needResponse
      /\ rec'[a].needMark <=> r.needMark /\ success
      /\ rec'[a] # NoRecord => rec'[a].needResponse \/ rec'[a].needMark
  <2>1. (~success) \in BOOLEAN /\ TRUE \in BOOLEAN
    OBVIOUS
  <2>2. /\ Evidence(r, TRUE, ~success) \in RecordType
        /\ Evidence(r, TRUE, ~success).needResponse <=> r.needResponse /\ ~TRUE
        /\ Evidence(r, TRUE, ~success).needMark <=> r.needMark /\ ~~success
        /\ Evidence(r, TRUE, ~success) # NoRecord =>
              Evidence(r, TRUE, ~success).needResponse \/ Evidence(r, TRUE, ~success).needMark
    BY <2>1, EvidenceType
  <2> QED BY <2>2
<1>2. rec'[a] # NoRecord <=> r.needMark /\ success
  <2>1. ~NoRecord.needMark
    BY DEF NoRecord
  <2> QED BY <1>1, <2>1
<1>3. r.needMark => r # NoRecord
  BY DEF NoRecord
<1>4. RecordPart(a)'
  BY <1>1, <1>2, <1>3 DEF RecordPart
<1> QED BY <1>1, <1>2, <1>4

LEMMA RouteRecordResponseStep ==
    ASSUME SlotInductive, NEW a \in Own, NEW success \in BOOLEAN,
           RouteRecordResponse(a, success)
    PROVE  SlotInductive'
<1> USE DEF RouteRecordResponse, Routing, lifeVars, pendVars, listVars, slotVars
<1>1. /\ SlotPart(a) /\ SlotTypeOK /\ now' \in Nat
      /\ rec[a] \in RecordType /\ rec[a] # NoRecord
  BY ClockType DEF SlotInductive, SlotPart, SlotTypeOK, Live
<1>2. rec'[a] = Evidence(rec[a], TRUE, ~success) /\ \A b \in Own \ {a} : rec'[b] = rec[b]
  BY <1>1 DEF SlotTypeOK
<1>3. /\ RecordPart(a)' /\ rec'[a] \in RecordType
      /\ rec'[a] # NoRecord <=> rec[a].needMark /\ success
  <2>1. (rec[a].needMark <=> a \in Lists /\ a \notin marked \cup rejected)
         /\ a \notin pendHold' \cup listHold' /\ ~dead'
    BY <1>1 DEF SlotPart, RecordPart
  <2> QED BY <1>1, <1>2, <2>1, AnsweredRecord
<1>4. SlotTypeOK'
  <2>1. rec' \in [Own -> RecordType]
    BY <1>1, <1>3 DEF SlotTypeOK
  <2>2. (internalRetHeld /\ (a \in Pings => Live(a)')) \in BOOLEAN
    OBVIOUS
  <2>3. internalRetHeld' \in BOOLEAN
    BY <2>2
  <2>4. /\ answered' \subseteq Own /\ rejected' \subseteq Own /\ marked' \subseteq Lists
    BY <1>1 DEF SlotTypeOK, Answer
  <2> QED BY <1>1, <2>1, <2>3, <2>4, Zenon DEF SlotTypeOK
<1>5. \A b \in Own \ {a} : SameSlot(b)
  BY <1>2 DEF SameSlot, Answer
<1>6. PendingPart(a)' /\ (a \in Lists => ListPart(a)')
  <2>1. ~Waiting(a) /\ Admitted(a) /\ (a \in Lists => list[a].phase \notin RoutingPhases)
    BY <1>1 DEF SlotPart, PendingPart, RecordPart, ListPart, Waiting, Admitted
  <2> QED BY <1>1, <2>1 DEF SlotPart, PendingPart, ListPart, Waiting, Admitted, EarlyPhases
<1>7. Outstanding(a)' => HoldsSlot(a)'
  <2>1. rec[a].needMark <=> a \in Lists /\ a \notin marked \cup rejected
    BY <1>1 DEF SlotPart, RecordPart
  <2> QED BY <1>3, <2>1 DEF Outstanding, HoldsSlot, Live, Answer
<1> QED BY <1>3, <1>4, <1>5, <1>6, <1>7, SlotLocal DEF SlotPart

LEMMA RoutePendingResponseStep ==
    ASSUME SlotInductive, NEW a \in Own, NEW success \in BOOLEAN,
           RoutePendingResponse(a, success)
    PROVE  SlotInductive'
<1> USE DEF RoutePendingResponse, Routing, Unpend, lifeVars, listVars
<1>1. SlotPart(a) /\ SlotTypeOK /\ now' \in Nat /\ rec \in [Own -> RecordType]
  BY ClockType DEF SlotInductive, SlotPart, SlotTypeOK
<1>2. /\ pstate' \in [Own -> {"none", "reserved", "inFlight", "completed", "released"}]
      /\ pstate'[a] \in {"completed", "released"}
      /\ \A b \in Own \ {a} : pstate'[b] = pstate[b]
  BY <1>1, CompletedState DEF SlotTypeOK
<1>3. /\ outcome' \in [Own -> {"none", "success", "error", "dead", "aborted", "abandoned"}]
      /\ outcome'[a] \in {"success", "error"}
      /\ pendHold' \subseteq RequestKind /\ lstOpen' \subseteq Lists
      /\ pendByAction' \subseteq Own
      /\ answered' \subseteq Own /\ rejected' \subseteq Own /\ marked' \subseteq Lists
  BY <1>1 DEF SlotTypeOK, Answer
<1>4. publicPending' \in Int /\ internalActive' \in BOOLEAN
  <2>1. publicPending' \in Int
    BY <1>1 DEF SlotTypeOK
  <2>2. internalActive' \in BOOLEAN
    BY <1>1 DEF SlotTypeOK
  <2> QED BY <2>1, <2>2
<1>5. /\ ~dead /\ Waiting(a) /\ Admitted(a) /\ a \notin answered
      /\ outcome[a] = "none"
  BY <1>1 DEF SlotPart, PendingPart, Waiting, Admitted
<1>6. PendingPart(a)'
  <2>1. a \notin pendHold' /\ a \notin pendByAction'
    OBVIOUS
  <2> QED BY <1>2, <1>3, <2>1 DEF PendingPart, Waiting, Admitted
<1>7. CASE a \notin Lists
  <2>1. /\ rec'[a] = Evidence(rec[a], TRUE, ~success)
        /\ \A b \in Own \ {a} : rec'[b] = rec[b]
        /\ UNCHANGED <<list, listByAction, listHold>>
        /\ a \notin listHold
    BY <1>1, <1>7 DEF SlotTypeOK
  <2>2. rec[a] = NoRecord
    BY <1>1, <1>5, <1>7 DEF SlotPart, PendingPart, RecordPart
  <2>3. RecordPart(a)' /\ rec'[a] \in RecordType
    BY <1>1, <2>1, <2>2, AnsweredRecord
  <2>4. rec' \in [Own -> RecordType]
    BY <1>1, <1>7, <2>3 DEF SlotTypeOK
  <2>5. retHeld' \in Int
    BY <1>1, <1>7 DEF SlotTypeOK
  <2>6. internalRetHeld' \in BOOLEAN
    <3>1. (internalRetHeld /\ a \notin Pings) \in BOOLEAN
      OBVIOUS
    <3> QED BY <1>7, <3>1
  <2>7. SlotTypeOK'
    BY <1>1, <1>2, <1>3, <1>4, <2>1, <2>4, <2>5, <2>6, Zenon DEF SlotTypeOK
  <2>8. \A b \in Own \ {a} : SameSlot(b)
    BY <1>1, <1>2, <1>7, <2>1 DEF SameSlot, SlotTypeOK, Answer
  <2>9. ~Outstanding(a)'
    BY <1>7 DEF Outstanding, Answer
  <2> QED BY <1>6, <1>7, <2>3, <2>7, <2>8, <2>9, SlotLocal DEF SlotPart
<1>8. CASE a \in Lists
  <2> DEFINE l == Responded(list[a], success)
             r == IF l.phase \in RoutingPhases THEN rec[a]
                  ELSE SlotRecord(a, TRUE, ~success \/ l.markSeen)
  <2>1. SetList(a, l) /\ rec'[a] = Evidence(r, TRUE, ~success)
        /\ \A b \in Own \ {a} : rec'[b] = rec[b]
    BY <1>1, <1>8 DEF SlotTypeOK
  <2>2. /\ list[a] \in ListType /\ list[a].phase \in EarlyPhases \cup {"dead"}
        /\ ~list[a].adopted
    BY <1>1, <1>5, <1>8 DEF SlotPart, ListPart, SlotTypeOK
  <2>3. /\ l \in ListType /\ ~l.adopted
        /\ l.phase \in {"none", "streaming", "draining", "dead"}
        /\ success => /\ l.phase \in {"streaming", "draining", "dead"}
                      /\ l.responseSeen /\ l.markSeen = list[a].markSeen
                      /\ l.phase = "streaming" <=> list[a].phase = "buffering"
        /\ ~success => l.phase = "none"
    <3>1. CASE success
      <4>1. success = TRUE
        BY <3>1
      <4>2. /\ Responded(list[a], TRUE) \in ListType
            /\ Responded(list[a], TRUE).adopted = list[a].adopted
            /\ Responded(list[a], TRUE).responseSeen
            /\ Responded(list[a], TRUE).markSeen = list[a].markSeen
            /\ Responded(list[a], TRUE).phase \in {"streaming", "draining", "dead"}
            /\ Responded(list[a], TRUE).phase = "streaming" <=> list[a].phase = "buffering"
        BY <2>2, RespondedType
      <4>3. l = Responded(list[a], TRUE)
        BY <4>1
      <4> HIDE DEF l
      <4> QED BY <2>2, <3>1, <4>2, <4>3
    <3>2. CASE ~success
      <4>1. success = FALSE
        BY <3>2
      <4>2. l = NoList
        BY <2>2, <4>1, RespondedType
      <4> HIDE DEF l
      <4> QED BY <3>2, <4>2, ListConstants
    <3> QED BY <3>1, <3>2
  <2> HIDE DEF l
  <2>4. /\ list' \in [Lists -> ListType] /\ list'[a] = l
        /\ \A b \in Lists \ {a} : list'[b] = list[b]
        /\ l.phase \in RoutingPhases <=> l.phase = "streaming"
        /\ l.phase = "streaming" => listByAction' = listByAction /\ listHold' = listHold
        /\ l.phase # "streaming" => listByAction' = listByAction \ {a}
                                    /\ listHold' = listHold \ {a}
        /\ retHeld' \in Int
    BY <1>1, <1>8, <2>1, <2>3, SetListEffect DEF RoutingPhases
  <2>5. /\ l.phase = "streaming" => a \in listHold /\ rec[a] = NoRecord /\ ~l.markSeen
                                    /\ list[a].phase = "buffering"
        /\ a \in listHold => a \notin rejected /\ (list[a].markSeen <=> a \in marked)
                             /\ rec[a] = NoRecord
    BY <1>1, <1>8, <2>3 DEF SlotPart, ListPart, RecordPart, RoutingPhases
  <2>6. /\ r \in RecordType
        /\ r # NoRecord => (r.needMark <=> a \in Lists /\ a \notin marked \cup rejected)
                           /\ a \notin pendHold' \cup listHold' /\ ~dead'
    <3>1. (~success \/ l.markSeen) \in BOOLEAN
      OBVIOUS
    <3> DEFINE t == SlotRecord(a, TRUE, ~success \/ l.markSeen)
    <3>2. /\ t \in RecordType
          /\ a \notin listHold => t = rec[a]
          /\ ~success \/ l.markSeen => t = rec[a]
          /\ a \in listHold /\ success /\ ~l.markSeen => t.needMark
      BY <1>1, <3>1, SlotRecordType
    <3>3. r = IF l.phase \in RoutingPhases THEN rec[a] ELSE t
      OBVIOUS
    <3> HIDE DEF r, t
    <3>4. CASE l.phase = "streaming"
      BY <1>1, <2>4, <2>5, <3>3, <3>4
    <3>5. CASE l.phase # "streaming" /\ t = rec[a]
      BY <1>1, <1>8, <2>4, <3>2, <3>3, <3>5 DEF SlotPart, RecordPart
    <3>6. CASE l.phase # "streaming" /\ t # rec[a]
      BY <1>1, <1>5, <1>8, <2>3, <2>4, <2>5, <3>2, <3>3, <3>6
    <3> QED BY <3>4, <3>5, <3>6
  <2>7. /\ RecordPart(a)' /\ rec'[a] \in RecordType
        /\ rec'[a] # NoRecord <=> r.needMark /\ success
    BY <1>1, <2>1, <2>6, AnsweredRecord
  <2>8. SlotTypeOK'
    <3>1. rec' \in [Own -> RecordType]
      BY <1>1, <1>8, <2>7 DEF SlotTypeOK
    <3> QED BY <1>1, <1>2, <1>3, <1>4, <1>8, <2>4, <3>1, Zenon DEF SlotTypeOK
  <2>9. \A b \in Own \ {a} : SameSlot(b)
    BY <1>1, <1>2, <1>8, <2>1, <2>4 DEF SameSlot, SlotTypeOK, Answer
  <2>10. ListPart(a)'
    BY <1>1, <1>2, <1>5, <1>8, <2>3, <2>4, <2>5 DEF SlotPart, ListPart, Waiting,
       Admitted, RoutingPhases, EarlyPhases, Answer
  <2>11. Outstanding(a)' => HoldsSlot(a)'
    <3>1. Outstanding(a)' => success /\ a \notin marked /\ a \notin rejected
      BY DEF Outstanding, Answer
    <3>2. a \in listHold \/ rec[a] # NoRecord
      BY <1>1, <1>5, <1>8 DEF SlotPart, PendingPart, Outstanding, HoldsSlot, Live
    <3>3. CASE l.phase = "streaming"
      BY <2>4, <2>5, <3>3 DEF HoldsSlot
    <3>4. CASE l.phase # "streaming"
      <4>1. ASSUME success, a \notin marked, a \notin rejected PROVE r # NoRecord
        <5>1. a \in listHold => ~l.markSeen
          BY <2>3, <2>5, <4>1
        <5>2. a \in listHold => SlotRecord(a, TRUE, ~success \/ l.markSeen).needMark
          BY <1>1, <4>1, <5>1, NewRecordType DEF SlotRecord
        <5>3. a \notin listHold => SlotRecord(a, TRUE, ~success \/ l.markSeen) = rec[a]
          BY DEF SlotRecord
        <5>4. r = SlotRecord(a, TRUE, ~success \/ l.markSeen)
          BY <2>4, <3>4
        <5>5. ~NoRecord.needMark
          BY DEF NoRecord
        <5> HIDE DEF r
        <5> QED BY <3>2, <5>2, <5>3, <5>4, <5>5
      <4> QED BY <1>8, <2>6, <2>7, <3>1, <4>1 DEF HoldsSlot, Live
    <3> QED BY <3>3, <3>4
  <2> QED BY <1>6, <2>7, <2>8, <2>9, <2>10, <2>11, SlotLocal DEF SlotPart
<1> QED BY <1>7, <1>8

\* A list that is routed to moves on, or ends and leaves a record of what is
\* still missing.
LEMMA ListStepStep ==
    ASSUME SlotInductive, NEW a \in Lists, a \in listByAction, NEW l \in ListType, NEW wake,
           ListStep(a, l, wake), now' \in Nat,
           l.adopted = list[a].adopted, l.responseSeen = list[a].responseSeen,
           l.markSeen <=> a \in marked',
           marked' \in {marked, marked \cup {a}},
           l.phase \in RoutingPhases =>
              /\ l.phase = "streaming" <=> list[a].phase = "streaming"
              /\ l.markSeen <=> l.phase \in {"bufferedComplete", "bufferedCancelled"},
           l.phase \notin RoutingPhases =>
              l.phase = "dead" \/ (l.phase = "draining" /\ list[a].phase = "streaming"),
           UNCHANGED <<time, lifeVars, pendVars, internalRetHeld, answered, rejected>>
    PROVE  SlotInductive'
<1> USE DEF ListStep, lifeVars, pendVars
<1>0. a \in Own
  BY DEF Own
<1>1. SlotPart(a) /\ SlotTypeOK /\ rec \in [Own -> RecordType]
  BY <1>0 DEF SlotInductive, SlotPart, SlotTypeOK
<1>2. /\ list[a] \in ListType /\ list[a].phase \in RoutingPhases
      /\ a \in listHold /\ rec[a] = NoRecord /\ ~dead /\ Admitted(a) /\ a \notin rejected
      /\ list[a].responseSeen <=> a \in answered
      /\ list[a].responseSeen <=> list[a].phase = "streaming"
  BY <1>1 DEF SlotPart, ListPart, RecordPart, SlotTypeOK
<1>3. /\ list' \in [Lists -> ListType] /\ list'[a] = l
      /\ \A b \in Lists \ {a} : list'[b] = list[b]
      /\ l.phase \in RoutingPhases =>
            listByAction' = listByAction /\ listHold' = listHold
      /\ l.phase \notin RoutingPhases =>
            listByAction' = listByAction \ {a} /\ listHold' = listHold \ {a}
      /\ retHeld' \in Int
  BY <1>1, SetListEffect
<1>4. /\ rec' \in [Own -> RecordType] /\ \A b \in Own \ {a} : rec'[b] = rec[b]
      /\ l.phase \in RoutingPhases => rec'[a] = rec[a]
      /\ l.phase \notin RoutingPhases =>
            rec'[a] = SlotRecord(a, l.responseSeen, l.markSeen)
  <2>1. l.responseSeen \in BOOLEAN /\ l.markSeen \in BOOLEAN
    BY DEF ListType
  <2>2. SlotRecord(a, l.responseSeen, l.markSeen) \in RecordType
    BY <1>0, <1>1, <2>1, SlotRecordType
  <2> QED BY <1>0, <1>1, <2>2
<1>5. SlotTypeOK'
  <2>1. marked' \subseteq Lists
    BY <1>1 DEF SlotTypeOK
  <2> QED BY <1>1, <1>3, <1>4, <2>1, Zenon DEF SlotTypeOK
<1>6. \A b \in Own \ {a} : SameSlot(b)
  BY <1>3, <1>4 DEF SameSlot
<1>7. PendingPart(a)'
  BY <1>0, <1>1, <1>2 DEF SlotPart, PendingPart, Waiting, Admitted
<1>8. CASE l.phase \in RoutingPhases
  <2>1. RecordPart(a)' /\ HoldsSlot(a)'
    BY <1>2, <1>3, <1>4, <1>8 DEF RecordPart, HoldsSlot
  <2>2. ListPart(a)'
    BY <1>1, <1>2, <1>3, <1>8 DEF SlotPart, ListPart, Waiting, Admitted, EarlyPhases
  <2> QED BY <1>0, <1>5, <1>6, <1>7, <2>1, <2>2, SlotLocal DEF SlotPart
<1>9. CASE l.phase \notin RoutingPhases
  <2>1. /\ l.responseSeen <=> a \in answered'
        /\ l.markSeen <=> a \in marked'
        /\ a \notin rejected' /\ a \notin pendHold' \cup listHold'
    BY <1>0, <1>1, <1>2, <1>3, <1>9 DEF SlotPart, PendingPart
  <2>2. CASE l.responseSeen /\ l.markSeen
    <3>1. rec'[a] = NoRecord
      BY <1>2, <1>4, <1>9, <2>2 DEF SlotRecord
    <3> QED BY <1>0, <1>1, <1>2, <1>3, <1>5, <1>6, <1>7, <1>9, <2>1, <2>2, <3>1, SlotLocal
            DEF SlotPart, RecordPart, ListPart, Outstanding, Waiting, EarlyPhases
  <2>3. CASE ~(l.responseSeen /\ l.markSeen)
    <3>1. rec'[a] = NewRecord(~l.responseSeen, ~l.markSeen)
      BY <1>2, <1>4, <1>9, <2>3 DEF SlotRecord
    <3>2. (~l.responseSeen) \in BOOLEAN /\ (~l.markSeen) \in BOOLEAN
      OBVIOUS
    <3>3. /\ rec'[a].needResponse <=> ~l.responseSeen
          /\ rec'[a].needMark <=> ~l.markSeen
      BY <3>1, <3>2, NewRecordType
    <3>4. rec'[a] # NoRecord
      BY <2>3, <3>3 DEF NoRecord
    <3>5. RecordPart(a)' /\ HoldsSlot(a)'
      BY <1>2, <2>1, <2>3, <3>3, <3>4 DEF RecordPart, HoldsSlot, Live
    <3>6. ListPart(a)'
      BY <1>1, <1>2, <1>3, <1>9 DEF SlotPart, ListPart, Waiting, EarlyPhases
    <3> QED BY <1>0, <1>5, <1>6, <1>7, <3>5, <3>6, SlotLocal DEF SlotPart
  <2> QED BY <2>2, <2>3
<1> QED BY <1>8, <1>9

LEMMA RouteListEventStep ==
    ASSUME SlotInductive, NEW a \in Lists, NEW e \in ListEvent(a), RouteListEvent(a, e)
    PROVE  SlotInductive'
<1> DEFINE l == Observed(a, e)
<1>0. a \in Own
  BY DEF Own
<1>1. SlotPart(a) /\ SlotTypeOK /\ now' \in Nat /\ list[a] \in ListType
  BY <1>0, ClockType DEF SlotInductive, SlotPart, SlotTypeOK, RouteListEvent, Routing
<1>2. /\ a \in listByAction /\ list[a].phase \in RoutingPhases
      /\ UNCHANGED <<time, lifeVars, pendVars, internalRetHeld, answered, rejected>>
      /\ marked' = IF IsTerminalMark(a, e) THEN marked \cup {a} ELSE marked
  BY <1>1 DEF RouteListEvent, Routing, SlotPart, ListPart
<1>3. /\ l \in ListType /\ l.phase = list[a].phase /\ l.adopted = list[a].adopted
      /\ l.responseSeen = list[a].responseSeen
      /\ l.markSeen <=> a \in marked'
      /\ l.markSeen <=> list[a].markSeen \/ IsTerminalMark(a, e)
      /\ list[a].markSeen <=> list[a].phase \in {"bufferedComplete", "bufferedCancelled"}
  <2>1. /\ l \in ListType /\ l.phase = list[a].phase /\ l.adopted = list[a].adopted
        /\ l.responseSeen = list[a].responseSeen
        /\ l.markSeen <=> list[a].markSeen \/ IsTerminalMark(a, e)
    BY <1>1, ObservedType
  <2>2. /\ list[a].markSeen <=> a \in marked
        /\ list[a].markSeen <=> list[a].phase \in {"bufferedComplete", "bufferedCancelled"}
    BY <1>1, <1>2 DEF SlotPart, ListPart
  <2> HIDE DEF l
  <2> QED BY <1>2, <2>1, <2>2
<1> DEFINE Moved(k) ==
      /\ k \in ListType /\ k.adopted = l.adopted
      /\ k.responseSeen = l.responseSeen /\ k.markSeen = l.markSeen
      /\ k.phase \in RoutingPhases =>
            /\ k.phase = "streaming" <=> l.phase = "streaming"
            /\ k.markSeen <=> k.phase \in {"bufferedComplete", "bufferedCancelled"}
      /\ k.phase \notin RoutingPhases =>
            k.phase = "dead" \/ (k.phase = "draining" /\ l.phase = "streaming")
<1>4. \E k, wake : Moved(k) /\ ListStep(a, k, wake)
  <2>1. \A reason \in Reasons : Moved(EndedList(l, reason))
    BY <1>3, EndedListType DEF RoutingPhases
  <2>2. CASE \E reason \in Reasons : ListStep(a, EndedList(l, reason), {a})
    BY <2>1, <2>2
  <2>3. CASE ListStep(a, l, {}) /\ l.phase \in {"bufferedComplete", "bufferedCancelled"}
    <3>1. Moved(l)
      BY <1>3, <2>3 DEF RoutingPhases
    <3> QED BY <2>3, <3>1
  <2>4. CASE /\ ListStep(a, [l EXCEPT !.phase = "bufferedCancelled"], {})
             /\ l.phase = "buffering" /\ e.mark = "cancelled"
    <3> DEFINE k == [l EXCEPT !.phase = "bufferedCancelled"]
    <3>1. /\ k \in ListType /\ k.adopted = l.adopted /\ k.phase = "bufferedCancelled"
          /\ k.responseSeen = l.responseSeen /\ k.markSeen = l.markSeen
      BY <1>3 DEF ListType, RoutingPhases
    <3>2. l.markSeen
      BY <1>3, <2>4 DEF IsTerminalMark
    <3>3. Moved(k)
      BY <2>4, <3>1, <3>2 DEF RoutingPhases
    <3> QED BY <2>4, <3>3
  <2>5. ASSUME NEW wake, NEW phase \in {"bufferedComplete", "draining"},
               phase = IF l.phase = "buffering" THEN "bufferedComplete" ELSE "draining",
               ListStep(a, [l EXCEPT !.phase = phase,
                                     !.completion = [size |-> e.size, count |-> e.count]], wake),
               l.phase \in {"buffering", "streaming"}, Completes(a, e)
        PROVE  \E k, w : Moved(k) /\ ListStep(a, k, w)
    <3> DEFINE k == [l EXCEPT !.phase = phase,
                              !.completion = [size |-> e.size, count |-> e.count]]
    <3>1. e.size \in Nat /\ e.count \in Int
      <4>1. e.size \in Sizes /\ e.count \in Counts
        BY DEF ListEvent
      <4>2. Sizes \subseteq Nat /\ Counts \subseteq Nat \cup {CountAbsent, CountMalformed}
        BY InputsAssumption
      <4>3. CountAbsent \in Int /\ CountMalformed \in Int
        BY DEF CountAbsent, CountMalformed
      <4>4. e.size \in Nat
        BY <4>1, <4>2
      <4>5. e.count \in Nat \/ e.count = CountAbsent \/ e.count = CountMalformed
        BY <4>1, <4>2
      <4> HIDE DEF ListEvent
      <4>6. e.count \in Int
        BY <4>3, <4>5
      <4> QED BY <4>4, <4>6
    <3>2. /\ k \in ListType /\ k.adopted = l.adopted /\ k.phase = phase
          /\ k.responseSeen = l.responseSeen /\ k.markSeen = l.markSeen
      BY <1>3, <3>1 DEF ListType, RoutingPhases
    <3>3. l.markSeen
      BY <1>3, <2>5 DEF IsTerminalMark
    <3> HIDE DEF k
    <3>4. Moved(k)
      BY <2>5, <3>2, <3>3 DEF RoutingPhases
    <3> QED BY <2>5, <3>4 DEF k
  <2>6. CASE /\ ListStep(a, [l EXCEPT !.q = Append(@, Queued(e)), !.items = @ + 1], {a})
             /\ l.phase \in {"buffering", "streaming"} /\ ~IsTerminalMark(a, e)
    <3> DEFINE k == [l EXCEPT !.q = Append(@, Queued(e)), !.items = @ + 1]
    <3>1. Queued(e) \in Message
      BY <1>0 DEF Queued, Message, ListEvent
    <3>2. Append(l.q, Queued(e)) \in Seq(Message) /\ l.items + 1 \in Nat
      BY <1>3, <3>1 DEF ListType
    <3>3. /\ k \in ListType /\ k.adopted = l.adopted /\ k.phase = l.phase
          /\ k.responseSeen = l.responseSeen /\ k.markSeen = l.markSeen
      BY <1>3, <3>2 DEF ListType
    <3>4. ~l.markSeen
      BY <1>3, <2>6
    <3> HIDE DEF k
    <3>5. Moved(k)
      BY <2>6, <3>3, <3>4 DEF RoutingPhases
    <3> QED BY <2>6, <3>5 DEF k
  <2> QED
    <3>1. "Overflow" \in Reasons /\ "Cancelled" \in Reasons
      BY DEF Reasons
    <3>2. CountReason(a, l, e) # "None" => CountReason(a, l, e) \in Reasons
      <4>1. e.count \in Nat \cup {CountAbsent, CountMalformed}
        BY InputsAssumption DEF ListEvent
      <4> HIDE DEF l
      <4> QED BY <4>1 DEF CountReason, Reasons
    <3> HIDE DEF l, Moved
    <3>3. RouteListEvent(a, e)
      OBVIOUS
    <3> QED BY <2>2, <2>3, <2>4, <2>5, <2>6, <3>1, <3>2, <3>3
            DEF RouteListEvent, IsTerminalMark, l
<1>5. PICK k, wake : Moved(k) /\ ListStep(a, k, wake)
  BY <1>4
<1> HIDE DEF l
<1>6. marked' \in {marked, marked \cup {a}}
  BY <1>2
<1> QED BY <1>1, <1>2, <1>3, <1>5, <1>6, ListStepStep

LEMMA RouteListDrainStep ==
    ASSUME SlotInductive, NEW a \in Lists, NEW e \in ListEvent(a), RouteListDrain(a, e)
    PROVE  SlotInductive'
<1> USE DEF RouteListDrain, Routing, lifeVars, pendVars, listVars, slotVars
<1>0. a \in Own
  BY DEF Own
<1>1. /\ SlotPart(a) /\ SlotTypeOK /\ now' \in Nat
      /\ rec[a] \in RecordType /\ rec[a] # NoRecord
  BY <1>0, ClockType DEF SlotInductive, SlotPart, SlotTypeOK, Live
<1> DEFINE mark == IsTerminalMark(a, e)
<1>2. rec'[a] = Evidence(rec[a], FALSE, mark) /\ \A b \in Own \ {a} : rec'[b] = rec[b]
  BY <1>0, <1>1 DEF SlotTypeOK
<1>3. mark \in BOOLEAN
  BY DEF IsTerminalMark, Completes
<1>4. marked' = IF mark THEN marked \cup {a} ELSE marked
  OBVIOUS
<1> HIDE DEF mark
<1>5. /\ rec'[a] \in RecordType
      /\ rec'[a].needResponse <=> rec[a].needResponse
      /\ rec'[a].needMark <=> rec[a].needMark /\ ~mark
      /\ rec'[a] # NoRecord => rec'[a].needResponse \/ rec'[a].needMark
  <2>1. FALSE \in BOOLEAN
    OBVIOUS
  <2>2. /\ Evidence(rec[a], FALSE, mark) \in RecordType
        /\ Evidence(rec[a], FALSE, mark).needResponse <=> rec[a].needResponse /\ ~FALSE
        /\ Evidence(rec[a], FALSE, mark).needMark <=> rec[a].needMark /\ ~mark
        /\ Evidence(rec[a], FALSE, mark) # NoRecord =>
              Evidence(rec[a], FALSE, mark).needResponse \/ Evidence(rec[a], FALSE, mark).needMark
    BY <1>1, <1>3, <2>1, EvidenceType
  <2> QED BY <1>2, <2>2
<1>6. SlotTypeOK'
  <2>1. rec' \in [Own -> RecordType] /\ marked' \subseteq Lists
    BY <1>0, <1>1, <1>4, <1>5 DEF SlotTypeOK
  <2> QED BY <1>1, <2>1, Zenon DEF SlotTypeOK
<1>7. \A b \in Own \ {a} : SameSlot(b)
  BY <1>2, <1>4 DEF SameSlot
<1>8. /\ list[a].phase \notin RoutingPhases /\ Admitted(a)
      /\ rec[a].needResponse <=> a \notin answered
      /\ rec[a].needMark <=> a \notin marked \cup rejected
  BY <1>0, <1>1 DEF SlotPart, PendingPart, RecordPart, ListPart
<1>9. PendingPart(a)' /\ ListPart(a)' /\ RecordPart(a)'
  <2>1. PendingPart(a)'
    BY <1>1, <1>8 DEF SlotPart, PendingPart, Waiting, Admitted
  <2>2. ListPart(a)'
    BY <1>1, <1>8 DEF SlotPart, ListPart, Waiting, EarlyPhases
  <2>3. RecordPart(a)'
    BY <1>1, <1>4, <1>5, <1>8 DEF SlotPart, RecordPart
  <2> QED BY <2>1, <2>2, <2>3
<1>10. Outstanding(a)' => HoldsSlot(a)'
  <2>1. Outstanding(a)' => rec'[a].needResponse \/ rec'[a].needMark
    BY <1>4, <1>5, <1>8 DEF Outstanding
  <2>2. ~NoRecord.needResponse /\ ~NoRecord.needMark
    BY DEF NoRecord
  <2> QED BY <2>1, <2>2 DEF HoldsSlot, Live
<1> QED BY <1>0, <1>6, <1>7, <1>9, <1>10, SlotLocal DEF SlotPart

LEMMA CloseListBranchStep ==
    ASSUME SlotInductive, NEW a \in Lists, CloseListBranch(a)
    PROVE  SlotInductive'
<1> USE DEF CloseListBranch, lifeVars, pendVars, history
<1>0. a \in Own
  BY DEF Own
<1>1. SlotPart(a) /\ SlotTypeOK /\ now' \in Nat /\ rec \in [Own -> RecordType]
  BY <1>0, ClockType DEF SlotInductive, SlotPart, SlotTypeOK
<1>2. /\ list[a].adopted /\ ~Waiting(a)
      /\ list[a].phase \in RoutingPhases => list[a].phase = "streaming"
  BY <1>1 DEF SlotPart, ListPart, EarlyPhases
<1>3. /\ list' \in [Lists -> ListType] /\ list'[a] = NoList
      /\ \A b \in Lists \ {a} : list'[b] = list[b]
      /\ listByAction' = listByAction \ {a} /\ listHold' = listHold \ {a}
      /\ retHeld' \in Int
  BY <1>1, SetListEffect, ListConstants DEF RoutingPhases
<1>4. CASE list[a].phase = "streaming"
  <2>1. /\ ~dead /\ Admitted(a) /\ a \notin rejected /\ a \in answered /\ a \in listHold
        /\ list[a].responseSeen = TRUE /\ list[a].markSeen = FALSE /\ a \notin marked
        /\ a \notin pendHold
    BY <1>0, <1>1, <1>4 DEF SlotPart, PendingPart, ListPart, RoutingPhases, SlotTypeOK, ListType
  <2>2. SlotRecord(a, list[a].responseSeen, list[a].markSeen) = NewRecord(FALSE, TRUE)
    BY <2>1 DEF SlotRecord
  <2>3. NewRecord(FALSE, TRUE) \in RecordType /\ ~NewRecord(FALSE, TRUE).needResponse
        /\ NewRecord(FALSE, TRUE).needMark
    BY <1>1, NewRecordType
  <2>4. rec' \in [Own -> RecordType] /\ rec'[a] = NewRecord(FALSE, TRUE)
        /\ \A b \in Own \ {a} : rec'[b] = rec[b]
    BY <1>0, <1>1, <1>4, <2>2, <2>3
  <2>5. SlotTypeOK'
    BY <1>1, <1>3, <2>4, Zenon DEF SlotTypeOK
  <2>6. \A b \in Own \ {a} : SameSlot(b)
    BY <1>3, <2>4 DEF SameSlot
  <2>7. PendingPart(a)' /\ ListPart(a)' /\ RecordPart(a)' /\ HoldsSlot(a)'
    <3>1. PendingPart(a)'
      BY <1>1, <2>1 DEF SlotPart, PendingPart, Waiting, Admitted
    <3>2. ListPart(a)'
      BY <1>2, <1>3, ListConstants DEF ListPart, Waiting, EarlyPhases, RoutingPhases
    <3>3. RecordPart(a)'
      BY <1>3, <2>1, <2>3, <2>4 DEF RecordPart
    <3>4. HoldsSlot(a)'
      <4>1. ~NoRecord.needMark
        BY DEF NoRecord
      <4> QED BY <2>3, <2>4, <4>1 DEF HoldsSlot, Live
    <3> QED BY <3>1, <3>2, <3>3, <3>4
  <2> QED BY <1>0, <2>5, <2>6, <2>7, SlotLocal DEF SlotPart
<1>5. CASE list[a].phase # "streaming"
  <2>1. a \notin listHold /\ a \notin listByAction
    BY <1>1, <1>2, <1>5 DEF SlotPart, ListPart
  <2>2. UNCHANGED rec
    BY <1>5
  <2>3. SlotTypeOK'
    BY <1>1, <1>3, <2>2, Zenon DEF SlotTypeOK
  <2>4. \A b \in Own \ {a} : SameSlot(b)
    BY <1>3, <2>2 DEF SameSlot
  <2>5. PendingPart(a)' /\ RecordPart(a)'
    BY <1>1, <1>3, <2>1, <2>2 DEF SlotPart, PendingPart, RecordPart, Waiting, Admitted
  <2>6. ListPart(a)'
    BY <1>2, <1>3, ListConstants DEF ListPart, Waiting, EarlyPhases, RoutingPhases
  <2>7. (~dead /\ Admitted(a) /\ outcome[a] # "aborted" /\ Outstanding(a) => HoldsSlot(a))'
    BY <1>1, <2>1, <2>2 DEF SlotPart, Admitted, Outstanding, HoldsSlot, Live
  <2> QED BY <1>0, <2>3, <2>4, <2>5, <2>6, <2>7, SlotLocal DEF SlotPart
<1> QED BY <1>4, <1>5

----------------------------------------------------------------------------
(* The theorems                                                            *)

\* Every step of the machine preserves the inductive invariant.
LEMMA SlotNext == SlotInductive /\ [Next]_vars => SlotInductive'
<1> SUFFICES ASSUME SlotInductive, [Next]_vars PROVE SlotInductive'
  OBVIOUS
<1>0. time \in Nat /\ now \in Nat /\ "Killed" \in Causes /\ "ResponseUnmatched" \in Causes
      /\ "RetirementExpired" \in Causes /\ FatalReasons \subseteq Causes
  BY DEF SlotInductive, SlotTypeOK, Causes, FatalReasons
<1>1. CASE RouteResponse
  <2>1. ASSUME NEW reason \in FatalReasons, RouteFatal(reason) PROVE SlotInductive'
    BY <1>0, <2>1, ClockType, DieStep DEF RouteFatal, Routing
  <2>2. ASSUME NEW a \in Own, RouteUnmatched(a) PROVE SlotInductive'
    BY <1>0, <2>2, ClockType, DieStep DEF RouteUnmatched, Routing
  <2> QED BY <1>1, <2>1, <2>2, RoutePendingResponseStep, RouteRecordResponseStep
          DEF RouteResponse
<1>2. CASE RouteEvent
  <2>1. ASSUME NEW a \in Lists, RouteListLate(a) PROVE SlotInductive'
    BY <1>0, <2>1, ClockType, SlotQuiet DEF RouteListLate, Routing
  <2>2. ASSUME NEW e \in PlainEvent, RouteOrdinaryEvent(e) PROVE SlotInductive'
    BY <1>0, <2>2, ClockType, SlotQuiet DEF RouteOrdinaryEvent, Routing
  <2>3. ASSUME NEW e \in PlainEvent, NEW f \in Follows, RouteFollowEvent(f, e)
        PROVE SlotInductive'
    BY <1>0, <2>3, ClockType, SlotQuiet DEF RouteFollowEvent, Routing
  <2>4. ASSUME NEW a \in RequestKind, RouteQuarantined(a) PROVE SlotInductive'
    BY <1>0, <2>4, ClockType, SlotQuiet DEF RouteQuarantined, Routing
  <2> QED BY <1>2, <2>1, <2>2, <2>3, <2>4, RouteListEventStep, RouteListDrainStep
          DEF RouteEvent
<1>3. CASE PendingStep
  BY <1>3, AdmitStep, CommitWriteStep, AbortNotSentStep, AbandonStep, AdoptFollowStep,
     AdoptListStep, CloseListStep DEF PendingStep
<1>4. CASE ConsumerStep
  <2>1. ASSUME NEW s \in Subs, Subscribe(s) PROVE SlotInductive'
    BY <1>0, <2>1, SlotQuiet DEF Subscribe, clockVars
  <2>2. ASSUME NEW s \in Subs, CloseSub(s) PROVE SlotInductive'
    BY <1>0, <2>2, ClockType, SlotQuiet DEF CloseSub
  <2>3. ASSUME NEW f \in Follows, CloseFollowBranch(f) PROVE SlotInductive'
    BY <1>0, <2>3, ClockType, SlotQuiet DEF CloseFollowBranch
  <2>4. ASSUME NEW b \in Branches, TakeEmpty(b) PROVE SlotInductive'
    BY <1>0, <2>4, SlotQuiet DEF TakeEmpty, clockVars
  <2> QED BY <1>4, <2>1, <2>2, <2>3, <2>4, CloseListBranchStep, TakeItemStep
          DEF ConsumerStep, Close
<1>5. ASSUME NEW reason \in KillReasons, Kill(reason) PROVE SlotInductive'
  BY <1>0, <1>5, DieStep DEF Kill, KillReasons, Causes, clockVars
<1>6. CASE Expire
  BY <1>0, <1>6, ClockType, DieStep, SlotQuiet DEF Expire
<1>7. CASE Tick
  <2>1. \A n \in Nat : n + 1 \in Nat
    OBVIOUS
  <2> QED BY <1>0, <1>7, <2>1, SlotQuiet DEF Tick
<1>8. CASE UNCHANGED vars
  BY <1>0, <1>8, SlotQuiet DEF vars, clockVars
<1> QED BY <1>1, <1>2, <1>3, <1>4, <1>5, <1>6, <1>7, <1>8 DEF Next

\* In every reachable state, pendings, list branches and records account for
\* exactly the traffic that is outstanding: the invariant of module
\* DemuxSafety that all the following theorems rest on.
THEOREM SlotInvariant == Spec => []SlotInductive
  BY SlotInit, SlotNext, PTL DEF Spec

\* What holds a slot is outstanding, and the reverse.
LEMMA SlotsExact == SlotInductive => SlotIffOutstanding
<1> SUFFICES ASSUME SlotInductive, ~dead, NEW a \in Own, Admitted(a),
                    outcome[a] # "aborted"
             PROVE  HoldsSlot(a) <=> Outstanding(a)
  BY DEF SlotIffOutstanding
<1>1. Outstanding(a) => HoldsSlot(a)
  BY DEF SlotInductive
<1>2. a \in pendHold => Outstanding(a)
  BY DEF SlotInductive, PendingPart, Outstanding
<1>3. a \in listHold => Outstanding(a)
  BY DEF SlotInductive, SlotTypeOK, ListPart, Outstanding
<1>4. Live(a) => Outstanding(a)
  BY DEF SlotInductive, RecordPart, Outstanding, Live
<1> QED BY <1>1, <1>2, <1>3, <1>4 DEF HoldsSlot

\* An action occupies a retirement slot exactly as long as the server owes
\* something for it (finishListSlot, addRecord, maybeDropRecord).
THEOREM SlotsAreExact == Spec => []SlotIffOutstanding
  BY SlotsExact, SlotInvariant, PTL

\* No late response is fatal: until the server has answered, the pending or a
\* record that waits for the response is there (routeResponse).
THEOREM NoLateResponseIsFatal == Spec => []LateResponseHasHome
<1>1. SlotInductive => LateResponseHasHome
  <2> SUFFICES ASSUME SlotInductive, ~dead, NEW a \in Own, Admitted(a),
                      outcome[a] # "aborted", a \notin answered
               PROVE  a \in pendByAction \/ rec[a].needResponse
    BY DEF LateResponseHasHome
  <2>1. a \in pendHold \cup listHold \/ Live(a)
    BY DEF SlotInductive, Outstanding, HoldsSlot
  <2>2. a \in pendHold => a \in pendByAction
    BY DEF SlotInductive, PendingPart
  <2>3. a \in listHold => a \in pendByAction
    BY DEF SlotInductive, SlotTypeOK, PendingPart, ListPart, EarlyPhases
  <2>4. Live(a) => rec[a].needResponse
    BY DEF SlotInductive, RecordPart, Live
  <2> QED BY <2>1, <2>2, <2>3, <2>4
<1> QED BY <1>1, SlotInvariant, PTL

\* A record waits for what is missing and for nothing else, so the evidence
\* that releases it can still come (retire.go).
THEOREM RecordsAreExact == Spec => []RecordsWaitForTheMissing
<1>1. SlotInductive => RecordsWaitForTheMissing
  BY DEF SlotInductive, RecordPart, RecordsWaitForTheMissing, LiveRecords, Live
<1> QED BY <1>1, SlotInvariant, PTL

----------------------------------------------------------------------------
(* The registration order                                                  *)

\* kept[i] is what stays of the first i members of the order.
Keeps(kept, S, order, gone) ==
    /\ kept \in [0..Len(order) -> Seq(S)]
    /\ kept[0] = <<>>
    /\ \A i \in 1..Len(order) :
          kept[i] = IF order[i] \in gone THEN kept[i - 1]
                    ELSE Append(kept[i - 1], order[i])
    /\ Without(order, gone) = kept[Len(order)]

\* The recursion of Without has a solution, and Without is its last value.
LEMMA KeptEquation ==
    ASSUME NEW S, NEW order \in Seq(S), NEW gone
    PROVE  \E kept : Keeps(kept, S, order, gone)
<1> DEFINE n == Len(order)
           step == [i \in 1..n |-> [k \in Seq(S) |->
                       IF order[i] \in gone THEN k ELSE Append(k, order[i])]]
           Body(g) == [i \in 0..n |-> IF i = 0 THEN <<>>
                          ELSE IF order[i] \in gone THEN g[i - 1]
                               ELSE Append(g[i - 1], order[i])]
           kept == CHOOSE g : g = Body(g)
<1>1. step \in [1..n -> [Seq(S) -> Seq(S)]] /\ n \in Nat /\ <<>> \in Seq(S)
  OBVIOUS
<1>2. PICK h : Iterates(h, Seq(S), <<>>, n, step)
  <2> HIDE DEF step, n
  <2> QED BY <1>1, Iterate
<1>3. h = Body(h)
  <2>1. h \in [0..n -> Seq(S)] /\ h[0] = <<>>
    BY <1>2 DEF Iterates
  <2>2. ASSUME NEW i \in 1..n
        PROVE  h[i] = IF order[i] \in gone THEN h[i - 1] ELSE Append(h[i - 1], order[i])
    <3>0. i - 1 \in 0..n
      BY <1>1
    <3>1. h[i - 1] \in Seq(S) /\ h[i] = step[i][h[i - 1]]
      <4> HIDE DEF n, step
      <4> QED BY <1>2, <2>1, <3>0 DEF Iterates
    <3> QED BY <3>1
  <2> HIDE DEF step
  <2>3. \A i \in 0..n : h[i] = IF i = 0 THEN <<>> ELSE IF order[i] \in gone THEN h[i - 1]
                               ELSE Append(h[i - 1], order[i])
    <3>1. \A i \in 0..n : i # 0 => i \in 1..n
      BY <1>1
    <3> HIDE DEF n
    <3> QED BY <2>1, <2>2, <3>1, Zenon
  <2> HIDE DEF n
  <2> QED BY <2>1, <2>3
<1>4. kept = Body(kept)
  <2> HIDE DEF Body
  <2> QED BY <1>3
<1>5. Without(order, gone) = kept[n]
  BY Zenon DEF Without
<1> HIDE DEF kept
<1>6. /\ kept[0] = <<>>
      /\ \A i \in 1..n :
            kept[i] = IF order[i] \in gone THEN kept[i - 1] ELSE Append(kept[i - 1], order[i])
  <2>1. \A i \in 0..n : kept[i] = Body(kept)[i]
    <3> HIDE DEF Body
    <3> QED BY <1>4
  <2>2. 0 \in 0..n /\ \A i \in 1..n : i # 0 /\ i \in 0..n
    BY <1>1
  <2> HIDE DEF n, step
  <2> QED BY <2>1, <2>2
<1>7. kept \in [0..n -> Seq(S)]
  <2> DEFINE T == {i \in Nat : i <= n => kept[i] \in Seq(S)}
  <2>1. 0 \in T
    BY <1>1, <1>6
  <2>2. ASSUME NEW i \in Nat, i \in T PROVE i + 1 \in T
    <3> SUFFICES ASSUME i + 1 <= n PROVE kept[i + 1] \in Seq(S)
      OBVIOUS
    <3>1. kept[i] \in Seq(S)
      BY <2>2
    <3>2. i + 1 \in 1..n /\ (i + 1) - 1 = i
      OBVIOUS
    <3>3. order[i + 1] \in S
      BY <3>2
    <3>4. kept[i + 1] = IF order[i + 1] \in gone THEN kept[i] ELSE Append(kept[i], order[i + 1])
      BY <1>6, <3>2
    <3> QED BY <3>1, <3>3, <3>4
  <2>3. T = Nat
    <3> HIDE DEF T
    <3>1. T \in SUBSET Nat
      BY DEF T
    <3> QED BY <2>1, <2>2, <3>1, NatInductionOnSets
  <2>4. \A i \in 0..n : kept[i] \in Seq(S)
    BY <2>3
  <2> QED BY <1>4, <2>4
<1> QED BY <1>5, <1>6, <1>7 DEF Keeps

LEMMA AppendSet ==
    ASSUME NEW S, NEW k \in Seq(S), NEW o \in S
    PROVE  ToSet(Append(k, o)) = ToSet(k) \cup {o} /\ Len(Append(k, o)) = Len(k) + 1
<1> DEFINE n == Len(k)
           a == Append(k, o)
<1>1. n \in Nat /\ DOMAIN k = 1..n /\ DOMAIN a = 1..(n + 1) /\ a[n + 1] = o /\ Len(a) = n + 1
      /\ \A i \in 1..n : a[i] = k[i]
  OBVIOUS
<1>2. ToSet(k) = {k[i] : i \in 1..n} /\ ToSet(a) = {a[i] : i \in 1..(n + 1)}
  BY <1>1 DEF ToSet
<1> HIDE DEF n, a
<1>3. \A i : i \in 1..(n + 1) <=> i \in 1..n \/ i = n + 1
  BY <1>1
<1>4. {a[i] : i \in 1..(n + 1)} = {k[i] : i \in 1..n} \cup {o}
  BY <1>1, <1>3
<1> QED BY <1>1, <1>2, <1>4 DEF a, n

LEMMA AppendDistinct ==
    ASSUME NEW S, NEW k \in Seq(S), NEW o \in S, IsInjective(k), o \notin ToSet(k)
    PROVE  IsInjective(Append(k, o))
<1> DEFINE n == Len(k)
           a == Append(k, o)
<1>1. n \in Nat /\ DOMAIN k = 1..n /\ DOMAIN a = 1..(n + 1) /\ a[n + 1] = o
      /\ \A i \in 1..n : a[i] = k[i]
  OBVIOUS
<1>2. \A i \in 1..n : k[i] # o
  BY <1>1 DEF ToSet
<1>3. \A i, j \in 1..n : k[i] = k[j] => i = j
  BY <1>1 DEF IsInjective
<1> HIDE DEF n, a
<1>4. \A i \in 1..(n + 1) : i \in 1..n \/ i = n + 1
  BY <1>1
<1>5. \A i, j \in 1..(n + 1) : a[i] = a[j] => i = j
  BY <1>1, <1>2, <1>3, <1>4
<1> QED BY <1>1, <1>5 DEF IsInjective, a

\* Taking members out of the order leaves the others, once each.
LEMMA WithoutEffect ==
    ASSUME NEW S, NEW order \in Seq(S), NEW gone
    PROVE  /\ Without(order, gone) \in Seq(S)
           /\ ToSet(Without(order, gone)) = ToSet(order) \ gone
           /\ Len(Without(order, gone)) <= Len(order)
           /\ IsInjective(order) => IsInjective(Without(order, gone))
<1> DEFINE n == Len(order)
<1>0. PICK kept : Keeps(kept, S, order, gone)
  BY KeptEquation
<1>1. /\ kept \in [0..n -> Seq(S)] /\ kept[0] = <<>>
      /\ \A i \in 1..n :
            kept[i] = IF order[i] \in gone THEN kept[i - 1]
                      ELSE Append(kept[i - 1], order[i])
      /\ Without(order, gone) = kept[n]
  BY <1>0 DEF Keeps
<1> DEFINE Good(i) ==
              /\ ToSet(kept[i]) = {order[j] : j \in 1..i} \ gone
              /\ Len(kept[i]) <= i
              /\ IsInjective(order) => IsInjective(kept[i])
           T == {i \in Nat : i <= n => Good(i)}
<1>2. n \in Nat /\ order \in [1..n -> S] /\ DOMAIN order = 1..n
  OBVIOUS
<1> HIDE DEF n
<1>3. 0 \in T
  <2>1. 1..0 = {} /\ Len(<<>>) = 0 /\ ToSet(<<>>) = {} /\ IsInjective(<<>>)
    BY DEF ToSet, IsInjective
  <2>2. {order[j] : j \in {}} = {}
    OBVIOUS
  <2>3. 0 <= n => Good(0)
    <3>1. kept[0] = <<>>
      BY <1>1
    <3>2. ToSet(kept[0]) = {} \ gone /\ Len(kept[0]) <= 0 /\ IsInjective(kept[0])
      BY <2>1, <3>1
    <3> QED BY <2>1, <2>2, <3>2, Zenon
  <2> HIDE DEF Good
  <2> QED BY <2>3
<1>4. ASSUME NEW i \in Nat, i \in T PROVE i + 1 \in T
  <2> SUFFICES ASSUME i + 1 <= n PROVE Good(i + 1)
    OBVIOUS
  <2>1. Good(i)
    <3> HIDE DEF Good
    <3> QED BY <1>2, <1>4
  <2>2. i \in 0..n /\ i + 1 \in 1..n /\ (i + 1) - 1 = i /\ kept[i] \in Seq(S) /\ order[i + 1] \in S
    <3>1. i \in 0..n /\ i + 1 \in 1..n /\ (i + 1) - 1 = i
      BY <1>2
    <3> QED BY <1>1, <1>2, <3>1
  <2>3. {order[j] : j \in 1..(i + 1)} = {order[j] : j \in 1..i} \cup {order[i + 1]}
    OBVIOUS
  <2>4. CASE order[i + 1] \in gone
    <3>1. kept[i + 1] = kept[i]
      BY <1>1, <2>2, <2>4
    <3>2. Len(kept[i]) \in Nat
      BY <2>2
    <3>3. Len(kept[i]) <= i + 1
      BY <2>1, <3>2
    <3>4. {order[j] : j \in 1..(i + 1)} \ gone = {order[j] : j \in 1..i} \ gone
      BY <2>3, <2>4, Zenon
    <3> QED BY <2>1, <3>1, <3>3, <3>4, Zenon
  <2>5. CASE order[i + 1] \notin gone
    <3> DEFINE k == kept[i]
               o == order[i + 1]
    <3>1. kept[i + 1] = Append(k, o) /\ k \in Seq(S) /\ o \in S
      BY <1>1, <2>2, <2>5
    <3>2. ToSet(Append(k, o)) = ToSet(k) \cup {o} /\ Len(Append(k, o)) = Len(k) + 1
      <4> HIDE DEF k, o
      <4>1. k \in Seq(S) /\ o \in S
        BY <3>1
      <4> QED BY <4>1, AppendSet
    <3>3. Len(k) \in Nat /\ Len(k) <= i
      BY <2>1, <3>1
    <3>4. ASSUME IsInjective(order) PROVE IsInjective(Append(k, o))
      <4>1. o \notin ToSet(k)
        <5>1. \A j \in 1..i : order[j] # o
          BY <1>2, <2>2, <3>4 DEF IsInjective
        <5>2. o \notin {order[j] : j \in 1..i}
          BY <5>1
        <5> QED BY <2>1, <5>2
      <4>2. IsInjective(k)
        BY <2>1, <3>4
      <4> HIDE DEF k, o
      <4>3. k \in Seq(S) /\ o \in S
        BY <3>1
      <4> QED BY <4>1, <4>2, <4>3, AppendDistinct
    <3>5. ToSet(kept[i + 1]) = {order[j] : j \in 1..(i + 1)} \ gone
      <4>1. ToSet(k) = {order[j] : j \in 1..i} \ gone
        BY <2>1
      <4>2. ({order[j] : j \in 1..i} \ gone) \cup {o} = ({order[j] : j \in 1..i} \cup {o}) \ gone
        BY <2>5
      <4> QED BY <2>3, <3>1, <3>2, <4>1, <4>2, Zenon
    <3>6. Len(kept[i + 1]) <= i + 1
      <4>1. kept[i + 1] = Append(k, o)
        BY <3>1
      <4> HIDE DEF k, o
      <4> QED BY <4>1, <3>2, <3>3
    <3>7. IsInjective(order) => IsInjective(kept[i + 1])
      BY <3>1, <3>4
    <3> QED BY <3>5, <3>6, <3>7
  <2> QED BY <2>4, <2>5
<1>5. T = Nat
  <2> HIDE DEF T
  <2>1. T \in SUBSET Nat
    BY DEF T
  <2> QED BY <1>3, <1>4, <2>1, NatInductionOnSets
<1>6. Good(n)
  <2> HIDE DEF Good
  <2>1. n <= n
    BY <1>2
  <2> QED BY <1>2, <1>5, <2>1
<1>7. ToSet(order) = {order[j] : j \in 1..n}
  BY <1>2 DEF ToSet
<1>8. kept[n] \in Seq(S)
  <2>1. n \in 0..n
    BY <1>2
  <2> QED BY <1>1, <2>1
<1>9. Without(order, gone) = kept[n]
  BY <1>1
<1>10. /\ kept[n] \in Seq(S) /\ ToSet(kept[n]) = ToSet(order) \ gone /\ Len(kept[n]) <= n
       /\ IsInjective(order) => IsInjective(kept[n])
  BY <1>6, <1>7, <1>8, Zenon
<1>11. n = Len(order)
  BY DEF n
<1> HIDE DEF Good
<1> QED BY <1>9, <1>10, <1>11, Zenon

----------------------------------------------------------------------------
(* What one step may do to a branch                                        *)

\* A consumer that starts to wait has found its branch open and empty.
MayWait(b) ==
    b \in parked' => \/ b \in parked
                     \/ Open(b) /\ Phase(b) \in {"active", "streaming"} /\ Queue(b) = <<>>

SubStays(s) ==
    /\ sub'[s] = sub[s] /\ (s \in ToSet(subOrder') <=> s \in ToSet(subOrder))
    /\ MayWait(s)
SubOpens(s) ==
    /\ sub[s].phase = "none" /\ sub'[s] = NewSub
    /\ s \in ToSet(subOrder') /\ s \notin parked'
SubReceives(s) ==
    /\ s \in ToSet(subOrder) /\ s \in ToSet(subOrder') /\ s \notin parked'
    /\ \E m \in Unlisted : /\ m.src \in Own => ~Live(m.src)
                           /\ sub'[s] = [sub[s] EXCEPT !.q = Append(@, m)]
SubEnds(s) ==
    /\ s \in ToSet(subOrder) /\ s \notin ToSet(subOrder') /\ s \notin parked'
    /\ \E why \in {"Lagged", "ClientDead"} : sub'[s] = Ended(sub[s], why)
SubTakes(s) ==
    /\ sub[s].phase \notin {"none", "dead"} /\ sub[s].q # <<>>
    /\ sub'[s] = [sub[s] EXCEPT !.q = Tail(@)]
    /\ (s \in ToSet(subOrder') <=> s \in ToSet(subOrder)) /\ s \notin parked'
SubCloses(s) ==
    /\ sub[s].phase # "none" /\ sub'[s] = NoSub
    /\ s \notin ToSet(subOrder') /\ s \notin parked'

SubMoves(s) ==
    \/ SubStays(s) \/ SubOpens(s) \/ SubReceives(s)
    \/ SubEnds(s) \/ SubTakes(s) \/ SubCloses(s)

SubsMove ==
    /\ sub' = [s \in Subs |-> sub'[s]] /\ subOrder' \in Seq(Subs)
    /\ IsInjective(subOrder) => IsInjective(subOrder')
    /\ Len(subOrder) <= MaxSubscriptions => Len(subOrder') <= MaxSubscriptions
    /\ \A s \in Subs : SubMoves(s)

FollowKept(f) ==
    (f \in folByAction' <=> f \in folByAction) /\ (f \in folOpen' <=> f \in folOpen)

FollowStays(f) == fol'[f] = fol[f] /\ FollowKept(f) /\ MayWait(f)
FollowAdmitted(f) ==
    /\ ~Admitted(f) /\ Admitted(f)' /\ fol'[f] = NewFollow
    /\ f \in folByAction' /\ f \in folOpen' /\ f \notin parked'
FollowAdopted(f) ==
    /\ f \in folOpen /\ f \notin folOpen' /\ (f \in folByAction' <=> f \in folByAction)
    /\ fol'[f] = [fol[f] EXCEPT !.adopted = TRUE] /\ f \notin parked'
FollowGone(f) ==
    /\ f \in folOpen \/ fol[f].adopted
    /\ fol'[f] = NoFollow /\ f \notin folByAction' /\ f \notin folOpen' /\ f \notin parked'
FollowReceives(f) ==
    /\ f \in folByAction /\ FollowKept(f) /\ f \notin parked'
    /\ \E m \in From(f) : fol'[f] = [fol[f] EXCEPT !.q = Append(@, m)]
FollowReceivesLast(f) ==
    /\ f \in folByAction /\ f \notin folByAction' /\ f \notin parked'
    /\ f \in folOpen' <=> f \in folOpen
    /\ \E m \in From(f) : fol'[f] = [fol[f] EXCEPT !.q = Append(@, m), !.phase = "draining"]
FollowEnds(f) ==
    /\ f \in folByAction /\ f \notin folByAction' /\ f \notin parked'
    /\ f \in folOpen' <=> f \in folOpen
    /\ \E why \in {"Lagged", "ClientDead"} : fol'[f] = Ended(fol[f], why)
FollowTakes(f) ==
    /\ fol[f].adopted /\ fol[f].phase # "dead" /\ fol[f].q # <<>>
    /\ fol'[f] = [fol[f] EXCEPT !.q = Tail(@)] /\ FollowKept(f) /\ f \notin parked'

FollowMoves(f) ==
    \/ FollowStays(f) \/ FollowAdmitted(f) \/ FollowAdopted(f) \/ FollowGone(f)
    \/ FollowReceives(f) \/ FollowReceivesLast(f) \/ FollowEnds(f) \/ FollowTakes(f)

FollowsMove ==
    /\ fol' = [f \in Follows |-> fol'[f]] /\ folByAction' \subseteq Follows
    /\ \A f \in Follows : FollowMoves(f)

\* The progress of a list that its holder or its completion depends on.
SameProgress(l) ==
    /\ list'[l].phase = list[l].phase /\ list'[l].reason = list[l].reason
    /\ list'[l].q = list[l].q /\ list'[l].items = list[l].items
    /\ list'[l].completion = list[l].completion

ListKept(l) ==
    (l \in lstOpen' => l \in lstOpen) /\ list'[l].adopted = list[l].adopted

ListStays(l) == SameProgress(l) /\ ListKept(l) /\ MayWait(l)
ListAdmitted(l) ==
    ~Admitted(l) /\ Admitted(l)' /\ list'[l] = NewList /\ l \notin parked'
ListAdopted(l) ==
    /\ l \in lstOpen /\ l \notin lstOpen' /\ list[l].phase \in {"streaming", "draining", "dead"}
    /\ SameProgress(l) /\ list'[l].adopted /\ l \notin parked'
ListGone(l) ==
    /\ l \in lstOpen \/ list[l].adopted
    /\ list'[l] = NoList /\ l \notin lstOpen' /\ l \notin parked'
ListCancelsEarly(l) ==
    /\ list[l].phase = "buffering" /\ list'[l].phase = "bufferedCancelled"
    /\ list'[l].reason = list[l].reason /\ list'[l].q = list[l].q
    /\ list'[l].completion = list[l].completion
    /\ ListKept(l) /\ l \notin parked'
ListCompletes(l) ==
    /\ \/ list[l].phase = "buffering" /\ list'[l].phase = "bufferedComplete"
       \/ list[l].phase = "streaming" /\ list'[l].phase = "draining"
    /\ list'[l].reason = list[l].reason /\ list'[l].q = list[l].q
    /\ list'[l].completion # NoMessage
    /\ l \in CountedLists => list'[l].completion.count \in {CountAbsent, list'[l].items}
    /\ l \in marked' /\ ListKept(l) /\ l \notin parked'
ListReceives(l) ==
    /\ list[l].phase \in {"buffering", "streaming"} /\ list'[l].phase = list[l].phase
    /\ list'[l].reason = list[l].reason /\ list'[l].completion = list[l].completion
    /\ \E m \in From(l) : list'[l].q = Append(list[l].q, m)
    /\ ListKept(l) /\ l \notin parked'
ListEnds(l) ==
    /\ list[l].phase \in RoutingPhases /\ list'[l].phase = "dead"
    /\ list'[l].reason \in EndReasons /\ list'[l].q = <<>> /\ list'[l].completion = NoMessage
    /\ ListKept(l) /\ l \notin parked'
ListResponds(l) ==
    /\ l \in lstOpen /\ l \in answered'
    /\ \/ list[l].phase = "buffering" /\ list'[l].phase = "streaming"
       \/ list[l].phase = "bufferedComplete" /\ list'[l].phase = "draining"
    /\ list'[l].reason = list[l].reason /\ list'[l].q = list[l].q
    /\ list'[l].items = list[l].items /\ list'[l].completion = list[l].completion
    /\ ListKept(l) /\ l \notin parked'
ListTakes(l) ==
    /\ list[l].adopted /\ list[l].phase # "dead" /\ list[l].q # <<>>
    /\ list'[l].phase = list[l].phase /\ list'[l].reason = list[l].reason
    /\ list'[l].q = Tail(list[l].q) /\ list'[l].items = list[l].items
    /\ list'[l].completion = list[l].completion
    /\ ListKept(l) /\ l \notin parked'

ListMoves(l) ==
    \/ ListStays(l) \/ ListAdmitted(l) \/ ListAdopted(l) \/ ListGone(l)
    \/ ListCancelsEarly(l) \/ ListCompletes(l) \/ ListReceives(l) \/ ListEnds(l)
    \/ ListResponds(l) \/ ListTakes(l)

ListsMove == \A l \in Lists : ListMoves(l)

\* What has happened stays so, and an abandoned list goes.
HistoryMoves ==
    /\ answered \subseteq answered' /\ marked \subseteq marked'
    /\ \A a \in Own : Admitted(a) => Admitted(a)'
    /\ \A l \in Lists : outcome'[l] \in GivenUp =>
                           outcome[l] \in GivenUp \/ list'[l] = NoList
    /\ parked' \subseteq Branches

BranchesMove == SubsMove /\ FollowsMove /\ ListsMove /\ HistoryMoves

----------------------------------------------------------------------------
(* The moves preserve the inductive invariant                              *)

\* Subscriptions, follows and lists are told apart.
LEMMA Kinds ==
    /\ \A s \in Subs : s \notin Follows /\ s \notin Lists /\ s \notin Own
    /\ \A f \in Follows : f \in Own /\ f \notin Lists /\ f \notin Subs
    /\ \A l \in Lists : l \in Own /\ l \notin Follows /\ l \notin Subs
  BY KindsAssumption, InputsAssumption DEF Own

\* What holds of a waiting consumer, by the kind of its branch.
LEMMA ParkedKinds ==
    /\ \A s \in Subs : ParkedPart(s) <=> sub[s].phase \in {"active", "streaming"}
                                         /\ sub[s].q = <<>>
    /\ \A f \in Follows : ParkedPart(f) <=> fol[f].phase \in {"active", "streaming"}
                                            /\ fol[f].q = <<>> /\ fol[f].adopted
    /\ \A l \in Lists : ParkedPart(l) <=> list[l].phase \in {"active", "streaming"}
                                          /\ list[l].q = <<>> /\ list[l].adopted
  BY Kinds DEF ParkedPart, Phase, Queue

LEMMA MayWaitKinds ==
    /\ \A s \in Subs : MayWait(s) /\ s \in parked' /\ s \notin parked =>
          sub[s].phase \in {"active", "streaming"} /\ sub[s].q = <<>>
    /\ \A f \in Follows : MayWait(f) /\ f \in parked' /\ f \notin parked =>
          fol[f].phase \in {"active", "streaming"} /\ fol[f].q = <<>> /\ fol[f].adopted
    /\ \A l \in Lists : MayWait(l) /\ l \in parked' /\ l \notin parked =>
          list[l].phase \in {"active", "streaming"} /\ list[l].q = <<>> /\ list[l].adopted
  BY Kinds DEF MayWait, Open, Phase, Queue

\* The branches that a step starts with or leaves.
LEMMA BranchConstants ==
    /\ NoSub \in SubType /\ NewSub \in SubType
    /\ NoSub.phase = "none" /\ NoSub.reason = "None" /\ NoSub.q = <<>>
    /\ NewSub.phase = "active" /\ NewSub.reason = "None" /\ NewSub.q = <<>>
    /\ NoFollow \in FollowType /\ NewFollow \in FollowType
    /\ NoFollow.phase = "none" /\ NoFollow.reason = "None" /\ ~NoFollow.adopted
    /\ NoFollow.q = <<>>
    /\ NewFollow.phase = "active" /\ NewFollow.reason = "None" /\ ~NewFollow.adopted
    /\ NewFollow.q = <<>>
<1>1. \A S : <<>> \in Seq(S)
  OBVIOUS
<1> QED BY <1>1 DEF NoSub, NewSub, NoFollow, NewFollow, SubType, FollowType, Reasons

LEMMA EndedSubType ==
    ASSUME NEW r \in SubType, NEW why \in Reasons
    PROVE  /\ Ended(r, why) \in SubType
           /\ Ended(r, why).phase = "dead" /\ Ended(r, why).reason = why
           /\ Ended(r, why).q = <<>>
<1>1. <<>> \in Seq(Unlisted)
  OBVIOUS
<1> QED BY <1>1 DEF Ended, SubType

LEMMA EndedFollowType ==
    ASSUME NEW r \in FollowType, NEW why \in Reasons
    PROVE  /\ Ended(r, why) \in FollowType
           /\ Ended(r, why).phase = "dead" /\ Ended(r, why).reason = why
           /\ Ended(r, why).q = <<>> /\ Ended(r, why).adopted = r.adopted
<1>1. <<>> \in Seq(Message)
  OBVIOUS
<1> QED BY <1>1 DEF Ended, FollowType

LEMMA SubMovesKeep ==
    ASSUME BranchInductive, NEW s \in Subs, SubMoves(s)
    PROVE  sub'[s] \in SubType /\ SubPart(s)' /\ (s \in parked' => ParkedPart(s)')
<1>0. /\ sub[s] \in SubType /\ SubPart(s)
      /\ s \in parked => sub[s].phase \in {"active", "streaming"} /\ sub[s].q = <<>>
  BY ParkedKinds DEF BranchInductive, BranchTypeOK
<1>1. ParkedPart(s)' <=> sub'[s].phase \in {"active", "streaming"} /\ sub'[s].q = <<>>
  BY Kinds DEF ParkedPart, Phase, Queue
<1>2. CASE SubStays(s)
  <2>1. s \in parked' => ParkedPart(s)'
    BY <1>0, <1>1, <1>2, MayWaitKinds DEF SubStays
  <2>2. SubPart(s)'
    BY <1>0, <1>2 DEF SubStays, SubPart, PhasePart
  <2> QED BY <1>0, <1>2, <2>1, <2>2 DEF SubStays
<1>3. CASE SubOpens(s)
  BY <1>3, BranchConstants DEF SubOpens, SubPart, PhasePart
<1>4. CASE SubReceives(s)
  <2>1. PICK m \in Unlisted : sub'[s] = [sub[s] EXCEPT !.q = Append(@, m)]
    BY <1>4 DEF SubReceives
  <2>2. Append(sub[s].q, m) \in Seq(Unlisted)
    BY <1>0 DEF SubType
  <2>3. sub'[s] \in SubType
    BY <1>0, <2>1, <2>2 DEF SubType
  <2>4. SubPart(s)'
    BY <1>0, <1>4, <2>1 DEF SubReceives, SubPart, PhasePart, SubType
  <2> QED BY <1>4, <2>3, <2>4 DEF SubReceives
<1>5. CASE SubEnds(s)
  <2>1. PICK why \in {"Lagged", "ClientDead"} : sub'[s] = Ended(sub[s], why)
    BY <1>5 DEF SubEnds
  <2>2. /\ sub'[s] \in SubType /\ sub'[s].phase = "dead" /\ sub'[s].reason = why
        /\ sub'[s].q = <<>>
    BY <1>0, <2>1, EndedSubType DEF Reasons
  <2>3. SubPart(s)'
    BY <1>5, <2>2 DEF SubEnds, SubPart, PhasePart, EndReasons
  <2> QED BY <1>5, <2>2, <2>3 DEF SubEnds
<1>6. CASE SubTakes(s)
  <2>1. Tail(sub[s].q) \in Seq(Unlisted) /\ sub'[s] = [sub[s] EXCEPT !.q = Tail(@)]
    BY <1>0, <1>6 DEF SubType, SubTakes
  <2>2. sub'[s] \in SubType
    BY <1>0, <2>1 DEF SubType
  <2>3. SubPart(s)'
    BY <1>0, <1>6, <2>1 DEF SubTakes, SubPart, PhasePart, SubType
  <2> QED BY <1>6, <2>2, <2>3 DEF SubTakes
<1>7. CASE SubCloses(s)
  BY <1>7, BranchConstants DEF SubCloses, SubPart, PhasePart
<1> QED BY <1>2, <1>3, <1>4, <1>5, <1>6, <1>7 DEF SubMoves

LEMMA FollowMovesKeep ==
    ASSUME BranchInductive, NEW f \in Follows, FollowMoves(f), Admitted(f) => Admitted(f)'
    PROVE  fol'[f] \in FollowType /\ FollowPart(f)' /\ (f \in parked' => ParkedPart(f)')
<1>0. /\ fol[f] \in FollowType /\ FollowPart(f)
      /\ f \in parked => fol[f].phase \in {"active", "streaming"} /\ fol[f].q = <<>>
                         /\ fol[f].adopted
  BY ParkedKinds DEF BranchInductive, BranchTypeOK
<1>1. ParkedPart(f)' <=> fol'[f].phase \in {"active", "streaming"} /\ fol'[f].q = <<>>
                         /\ fol'[f].adopted
  BY Kinds DEF ParkedPart, Phase, Queue
<1>2. CASE FollowStays(f)
  <2>1. f \in parked' => ParkedPart(f)'
    BY <1>0, <1>1, <1>2, MayWaitKinds DEF FollowStays
  <2>2. FollowPart(f)'
    BY <1>0, <1>2 DEF FollowStays, FollowKept, FollowPart, PhasePart
  <2> QED BY <1>0, <1>2, <2>1, <2>2 DEF FollowStays
<1>3. CASE FollowAdmitted(f)
  <2>1. <<>> \in Seq(From(f))
    OBVIOUS
  <2> QED BY <1>3, <2>1, BranchConstants DEF FollowAdmitted, FollowPart, PhasePart
<1>4. CASE FollowAdopted(f)
  <2>1. fol'[f] = [fol[f] EXCEPT !.adopted = TRUE] /\ Admitted(f)'
    BY <1>0, <1>4 DEF FollowAdopted, FollowPart
  <2>2. fol'[f] \in FollowType
    BY <1>0, <2>1 DEF FollowType
  <2>3. FollowPart(f)'
    BY <1>0, <1>4, <2>1 DEF FollowAdopted, FollowPart, PhasePart, FollowType
  <2> QED BY <1>4, <2>2, <2>3 DEF FollowAdopted
<1>5. CASE FollowGone(f)
  <2>1. fol'[f] = NoFollow /\ f \notin folByAction' /\ f \notin folOpen' /\ f \notin parked'
    BY <1>5 DEF FollowGone
  <2>2. <<>> \in Seq(From(f))
    OBVIOUS
  <2> QED BY <2>1, <2>2, BranchConstants DEF FollowPart, PhasePart
<1>6. ASSUME NEW m \in From(f), NEW phase \in {"active", "draining"},
             fol'[f] = [fol[f] EXCEPT !.q = Append(@, m), !.phase = phase],
             f \in folByAction' <=> phase = "active", f \in folByAction,
             f \in folOpen' <=> f \in folOpen
      PROVE  fol'[f] \in FollowType /\ FollowPart(f)'
  <2>0. Append(fol[f].q, m) \in Seq(From(f)) /\ From(f) \subseteq Message
    BY <1>0 DEF FollowPart, From
  <2>1. Append(fol[f].q, m) \in Seq(Message)
    BY <1>0, <2>0 DEF FollowType
  <2>2. fol'[f] \in FollowType /\ fol'[f].q = Append(fol[f].q, m) /\ fol'[f].phase = phase
        /\ fol'[f].adopted = fol[f].adopted /\ fol'[f].reason = fol[f].reason
    BY <1>0, <1>6, <2>1 DEF FollowType
  <2>3. Admitted(f)'
    BY <1>0, <1>6, BranchConstants DEF FollowPart
  <2>4. FollowPart(f)'
    BY <1>0, <1>6, <2>0, <2>2, <2>3 DEF FollowPart, PhasePart
  <2> QED BY <2>2, <2>4
<1>7. CASE FollowReceives(f)
  <2>1. PICK m \in From(f) : fol'[f] = [fol[f] EXCEPT !.q = Append(@, m)]
    BY <1>7 DEF FollowReceives
  <2>2. fol'[f] = [fol[f] EXCEPT !.q = Append(@, m), !.phase = "active"]
    BY <1>0, <1>7, <2>1 DEF FollowReceives, FollowPart, FollowType
  <2> QED BY <1>6, <1>7, <2>2 DEF FollowReceives, FollowKept
<1>8. CASE FollowReceivesLast(f)
  <2>1. PICK m \in From(f) : fol'[f] = [fol[f] EXCEPT !.q = Append(@, m), !.phase = "draining"]
    BY <1>8 DEF FollowReceivesLast
  <2> QED BY <1>6, <1>8, <2>1 DEF FollowReceivesLast
<1>9. CASE FollowEnds(f)
  <2>1. PICK why \in {"Lagged", "ClientDead"} : fol'[f] = Ended(fol[f], why)
    BY <1>9 DEF FollowEnds
  <2>2. /\ fol'[f] \in FollowType /\ fol'[f].phase = "dead" /\ fol'[f].reason = why
        /\ fol'[f].q = <<>> /\ fol'[f].adopted = fol[f].adopted
    BY <1>0, <2>1, EndedFollowType DEF Reasons
  <2>3. Admitted(f)'
    BY <1>0, <1>9, BranchConstants DEF FollowEnds, FollowPart
  <2>4. fol'[f].q \in Seq(From(f))
    BY <2>2
  <2>5. FollowPart(f)'
    BY <1>0, <1>9, <2>2, <2>3, <2>4 DEF FollowEnds, FollowPart, PhasePart, EndReasons
  <2> QED BY <1>9, <2>2, <2>5 DEF FollowEnds
<1>10. CASE FollowTakes(f)
  <2>1. Tail(fol[f].q) \in Seq(From(f)) /\ Tail(fol[f].q) \in Seq(Message)
        /\ fol'[f] = [fol[f] EXCEPT !.q = Tail(@)]
    BY <1>0, <1>10 DEF FollowPart, FollowType, FollowTakes
  <2>2. fol'[f] \in FollowType /\ fol'[f].q = Tail(fol[f].q) /\ fol'[f].phase = fol[f].phase
        /\ fol'[f].adopted = fol[f].adopted /\ fol'[f].reason = fol[f].reason
    BY <1>0, <2>1 DEF FollowType
  <2>3. Admitted(f)'
    BY <1>0, <1>10, BranchConstants DEF FollowTakes, FollowPart
  <2>4. FollowPart(f)'
    BY <1>0, <1>10, <2>1, <2>2, <2>3 DEF FollowTakes, FollowKept, FollowPart, PhasePart
  <2> QED BY <1>10, <2>2, <2>4 DEF FollowTakes
<1> QED BY <1>2, <1>3, <1>4, <1>5, <1>7, <1>8, <1>9, <1>10 
       DEF FollowMoves, FollowReceives, FollowReceivesLast

LEMMA ListMovesKeep ==
    ASSUME BranchInductive, SlotInductive', HistoryMoves, NEW l \in Lists, ListMoves(l)
    PROVE  HeldListPart(l)' /\ (l \in parked' => ParkedPart(l)')
<1>0. /\ list[l] \in ListType /\ HeldListPart(l) /\ list'[l] \in ListType
      /\ l \in parked => list[l].phase \in {"active", "streaming"} /\ list[l].q = <<>>
                         /\ list[l].adopted
      /\ answered \subseteq answered' /\ marked \subseteq marked'
      /\ outcome'[l] \in GivenUp => outcome[l] \in GivenUp \/ list'[l] = NoList
  BY ParkedKinds DEF BranchInductive, SlotInductive, SlotTypeOK, HistoryMoves
<1>1. ParkedPart(l)' <=> list'[l].phase \in {"active", "streaming"} /\ list'[l].q = <<>>
                         /\ list'[l].adopted
  BY Kinds DEF ParkedPart, Phase, Queue
<1>2. list'[l].q \in Seq(From(l)) /\ PhasePart(list'[l]) /\ (l \in parked' => ParkedPart(l)')
  <2>1. list[l].q \in Seq(From(l)) /\ PhasePart(list[l]) /\ <<>> \in Seq(From(l))
    BY <1>0 DEF HeldListPart
  <2>2. CASE ListStays(l)
    <3>1. l \in parked' => ParkedPart(l)'
      BY <1>0, <1>1, <2>2, MayWaitKinds DEF ListStays, ListKept, SameProgress
    <3> QED BY <2>1, <2>2, <3>1 DEF ListStays, SameProgress, PhasePart
  <2>3. CASE ListAdmitted(l)
    <3>1. NewList.phase = "buffering" /\ NewList.reason = "None" /\ NewList.q = <<>>
      BY DEF NewList, NoList
    <3> QED BY <2>1, <2>3, <3>1 DEF ListAdmitted, PhasePart
  <2>4. CASE ListGone(l)
    <3>1. NoList.phase = "none" /\ NoList.reason = "None" /\ NoList.q = <<>>
      BY DEF NoList
    <3> QED BY <2>1, <2>4, <3>1 DEF ListGone, PhasePart
  <2>5. CASE ListReceives(l)
    <3>1. PICK m \in From(l) : list'[l].q = Append(list[l].q, m)
      BY <2>5 DEF ListReceives
    <3>2. list'[l].q \in Seq(From(l))
      BY <2>1, <3>1
    <3> QED BY <2>1, <2>5, <3>2 DEF ListReceives, PhasePart
  <2>6. CASE ListTakes(l)
    <3>1. list'[l].q = Tail(list[l].q) /\ list[l].q # <<>>
      BY <2>6 DEF ListTakes
    <3>2. list'[l].q \in Seq(From(l))
      BY <2>1, <3>1
    <3> QED BY <2>1, <2>6, <3>2 DEF ListTakes, PhasePart
  <2>7. CASE ListAdopted(l) \/ ListCancelsEarly(l) \/ ListCompletes(l) \/ ListResponds(l)
    BY <2>1, <2>7 DEF ListAdopted, ListCancelsEarly, ListCompletes, ListResponds,
                      SameProgress, PhasePart
  <2>8. CASE ListEnds(l)
    BY <2>1, <2>8 DEF ListEnds, PhasePart
  <2> QED BY <2>2, <2>3, <2>4, <2>5, <2>6, <2>7, <2>8, Zenon DEF ListMoves
<1>3. /\ list'[l].adopted => list'[l].phase \in {"streaming", "draining", "dead"}
      /\ l \in lstOpen' => list'[l].phase # "none" /\ ~list'[l].adopted
  <2>1. /\ list[l].adopted => list[l].phase \in {"streaming", "draining", "dead"}
        /\ l \in lstOpen => list[l].phase # "none" /\ ~list[l].adopted
    BY <1>0 DEF HeldListPart
  <2>2. CASE ListStays(l) \/ ListCancelsEarly(l) \/ ListCompletes(l) \/ ListReceives(l)
             \/ ListEnds(l) \/ ListTakes(l) \/ ListResponds(l)
    BY <2>1, <2>2 DEF ListStays, ListCancelsEarly, ListCompletes, ListReceives, ListEnds,
                      ListTakes, ListResponds, ListKept, SameProgress, RoutingPhases
  <2>3. CASE ListAdopted(l)
    BY <2>3 DEF ListAdopted, SameProgress
  <2>4. CASE ListAdmitted(l)
    BY <2>4, ListConstants DEF ListAdmitted
  <2>5. CASE ListGone(l)
    BY <2>5, ListConstants DEF ListGone
  <2> QED BY <2>2, <2>3, <2>4, <2>5, Zenon DEF ListMoves
<1>4. /\ list'[l].completion # NoMessage <=> list'[l].phase \in {"bufferedComplete", "draining"}
      /\ list'[l].phase \in {"bufferedComplete", "draining"} /\ l \in CountedLists =>
            list'[l].completion.count \in {CountAbsent, list'[l].items}
      /\ list'[l].phase = "draining" => l \in answered' /\ l \in marked'
  <2>1. /\ list[l].completion # NoMessage <=> list[l].phase \in {"bufferedComplete", "draining"}
        /\ list[l].phase \in {"bufferedComplete", "draining"} /\ l \in CountedLists =>
              list[l].completion.count \in {CountAbsent, list[l].items}
        /\ list[l].phase = "draining" => l \in answered /\ l \in marked
        /\ list[l].phase = "streaming" => l \in answered
        /\ list[l].phase = "bufferedComplete" => l \in marked
    BY <1>0 DEF HeldListPart, BranchInductive, SlotInductive, ListPart, RoutingPhases
  <2>2. CASE ListStays(l) \/ ListAdopted(l) \/ ListTakes(l)
    BY <1>0, <2>1, <2>2 DEF ListStays, ListAdopted, ListTakes, SameProgress
  <2>3. CASE ListAdmitted(l) \/ ListGone(l)
    <3>1. /\ NewList.completion = NoMessage /\ NewList.phase = "buffering"
          /\ NoList.completion = NoMessage /\ NoList.phase = "none"
      BY DEF NewList, NoList
    <3> QED BY <2>3, <3>1 DEF ListAdmitted, ListGone
  <2>4. CASE ListCancelsEarly(l) \/ ListReceives(l)
    BY <2>1, <2>4 DEF ListCancelsEarly, ListReceives
  <2>5. CASE ListCompletes(l)
    BY <1>0, <2>1, <2>5 DEF ListCompletes
  <2>6. CASE ListEnds(l)
    BY <2>6 DEF ListEnds
  <2>7. CASE ListResponds(l)
    BY <1>0, <2>1, <2>7 DEF ListResponds
  <2> QED BY <2>2, <2>3, <2>4, <2>5, <2>6, <2>7, Zenon DEF ListMoves
<1>5. outcome'[l] \in GivenUp => list'[l].phase \notin RoutingPhases
  <2> SUFFICES ASSUME outcome'[l] \in GivenUp, list'[l].phase \in RoutingPhases PROVE FALSE
    OBVIOUS
  <2>1. list'[l] # NoList /\ outcome[l] \in GivenUp
    BY <1>0, ListConstants DEF RoutingPhases
  <2>2. list[l].phase \notin RoutingPhases
    BY <1>0, <2>1 DEF HeldListPart
  <2>3. ~ListAdmitted(l)
    <3>1. Admitted(l)
      BY <2>1, Kinds DEF BranchInductive, SlotInductive, PendingPart, GivenUp
    <3> QED BY <3>1 DEF ListAdmitted
  <2>4. ~ListGone(l)
    BY <2>1 DEF ListGone
  <2>5. list[l].phase \in RoutingPhases
    BY <2>3, <2>4 DEF ListMoves, ListStays, ListAdopted, ListCancelsEarly, ListCompletes,
       ListReceives, ListEnds, ListResponds, ListTakes, SameProgress, RoutingPhases
  <2> QED BY <2>2, <2>5
<1>6. ~Admitted(l)' => list'[l].phase = "none" /\ ~list'[l].adopted /\ l \notin lstOpen'
  <2> SUFFICES ASSUME ~Admitted(l)'
               PROVE  list'[l].phase = "none" /\ ~list'[l].adopted /\ l \notin lstOpen'
    BY Zenon
  <2>1. ~Admitted(l)
    BY Kinds DEF HistoryMoves
  <2>2. list[l].phase = "none" /\ ~list[l].adopted /\ l \notin lstOpen
    BY <1>0, <2>1 DEF HeldListPart
  <2>3. ListStays(l)
    BY <2>2 DEF ListMoves, ListAdmitted, ListAdopted, ListGone, ListCancelsEarly,
       ListCompletes, ListReceives, ListEnds, ListResponds, ListTakes, RoutingPhases
  <2> QED BY <2>2, <2>3 DEF ListStays, ListKept, SameProgress
<1> QED BY <1>2, <1>3, <1>4, <1>5, <1>6 DEF HeldListPart

\* Moves of all branches preserve the invariant.
LEMMA MovesKeep ==
    ASSUME BranchInductive, SlotInductive', BranchesMove
    PROVE  BranchInductive'
<1>1. \A s \in Subs : sub'[s] \in SubType /\ SubPart(s)' /\ (s \in parked' => ParkedPart(s)')
  BY SubMovesKeep DEF BranchesMove, SubsMove
<1>2. \A f \in Follows : fol'[f] \in FollowType /\ FollowPart(f)'
                         /\ (f \in parked' => ParkedPart(f)')
  BY FollowMovesKeep, Kinds DEF BranchesMove, FollowsMove, HistoryMoves
<1>3. \A l \in Lists : HeldListPart(l)' /\ (l \in parked' => ParkedPart(l)')
  BY ListMovesKeep DEF BranchesMove, ListsMove
<1>4. BranchTypeOK'
  BY <1>1, <1>2 DEF BranchTypeOK, BranchesMove, SubsMove, FollowsMove, HistoryMoves
<1>5. (\A b \in parked : ParkedPart(b))'
  BY <1>1, <1>2, <1>3, <1>4 DEF BranchTypeOK, Branches
<1> QED BY <1>1, <1>2, <1>3, <1>4, <1>5 DEF BranchInductive

----------------------------------------------------------------------------
(* The moves are steps of module Branch                                    *)

Shown(b) == IF Open(b) THEN Queue(b) ELSE <<>>

LEMMA SubMovesHeld ==
    ASSUME BranchInductive, BranchInductive', NEW s \in Subs, SubMoves(s)
    PROVE  [Held(s)!Next]_(Held(s)!branch)
<1>1. /\ sub[s] \in SubType /\ SubPart(s)
      /\ BranchPhase(s) = sub[s].phase /\ BranchReason(s) = sub[s].reason
      /\ Shown(s) = sub[s].q
  BY Kinds DEF BranchInductive, BranchTypeOK, SubPart, PhasePart, SubType,
               BranchPhase, BranchReason, Shown, Open, Phase, Queue
<1>2. /\ sub'[s] \in SubType /\ SubPart(s)'
      /\ BranchPhase(s)' = sub'[s].phase /\ BranchReason(s)' = sub'[s].reason
      /\ Shown(s)' = sub'[s].q
  BY Kinds DEF BranchInductive, BranchTypeOK, SubPart, PhasePart, SubType,
               BranchPhase, BranchReason, Shown, Open, Phase, Queue
<1>3. CASE SubStays(s)
  <2>1. UNCHANGED <<BranchPhase(s), BranchReason(s), Shown(s)>>
    BY <1>1, <1>2, <1>3 DEF SubStays
  <2> QED BY <2>1 DEF Held!branch, Shown
<1>4. CASE SubOpens(s)
  <2>1. Held(s)!Opens
    <3>1. <<>> \in Seq(Message) /\ "active" \in {"active", "draining"}
      OBVIOUS
    <3>2. /\ BranchPhase(s) = "none" /\ BranchPhase(s)' = "active"
          /\ BranchReason(s)' = "None" /\ Shown(s)' = <<>>
      BY <1>1, <1>2, <1>4, BranchConstants DEF SubOpens
    <3> QED BY <3>1, <3>2 DEF Held!Opens, Held!Handed, Shown
  <2> QED BY <2>1 DEF Held!Next
<1>5. CASE SubReceives(s)
  <2>1. PICK m \in Unlisted : sub'[s] = [sub[s] EXCEPT !.q = Append(@, m)]
    BY <1>5 DEF SubReceives
  <2>2. sub'[s].q = Append(sub[s].q, m) /\ sub'[s].phase = sub[s].phase
        /\ sub'[s].reason = sub[s].reason /\ sub[s].phase = "active"
    BY <1>1, <1>5, <2>1 DEF SubReceives, SubPart, SubType
  <2>3. Held(s)!Appends(m) /\ m \in Message
    BY <1>1, <1>2, <2>2 DEF Held!Appends, Shown, Unlisted
  <2> QED BY <2>3 DEF Held!Next
<1>6. CASE SubEnds(s)
  <2>1. PICK why \in {"Lagged", "ClientDead"} : sub'[s] = Ended(sub[s], why)
    BY <1>6 DEF SubEnds
  <2>2. sub'[s].phase = "dead" /\ sub'[s].reason = why /\ sub'[s].q = <<>>
    BY <1>1, <2>1, EndedSubType DEF Reasons
  <2>3. Held(s)!EndsBy(why) /\ why \in EndReasons
    BY <1>1, <1>2, <1>6, <2>2 DEF SubEnds, SubPart, Held!EndsBy, Shown, EndReasons
  <2> QED BY <2>3 DEF Held!Next
<1>7. CASE SubTakes(s)
  <2>1. sub'[s].q = Tail(sub[s].q) /\ sub'[s].phase = sub[s].phase
        /\ sub'[s].reason = sub[s].reason /\ sub[s].phase = "active"
    BY <1>1, <1>7 DEF SubTakes, SubType
  <2>2. Held(s)!Taken
    BY <1>1, <1>2, <1>7, <2>1 DEF SubTakes, Held!Taken, Shown
  <2> QED BY <2>2 DEF Held!Next
<1>8. CASE SubCloses(s)
  <2>1. Held(s)!Closes
    BY <1>1, <1>2, <1>8, BranchConstants DEF SubCloses, Held!Closes, Shown
  <2> QED BY <2>1 DEF Held!Next
<1> QED BY <1>3, <1>4, <1>5, <1>6, <1>7, <1>8 DEF SubMoves

LEMMA FollowMovesHeld ==
    ASSUME BranchInductive, BranchInductive', NEW f \in Follows, FollowMoves(f)
    PROVE  [Held(f)!Next]_(Held(f)!branch)
<1>1. /\ fol[f] \in FollowType /\ FollowPart(f)
      /\ fol[f].adopted => /\ BranchPhase(f) = fol[f].phase
                           /\ BranchReason(f) = fol[f].reason /\ Shown(f) = fol[f].q
      /\ ~fol[f].adopted => /\ BranchPhase(f) = "none"
                            /\ BranchReason(f) = "None" /\ Shown(f) = <<>>
  BY Kinds DEF BranchInductive, BranchTypeOK, FollowPart, PhasePart, FollowType,
               BranchPhase, BranchReason, Shown, Open, Phase, Queue
<1>2. /\ fol'[f] \in FollowType /\ FollowPart(f)'
      /\ fol'[f].adopted => /\ BranchPhase(f)' = fol'[f].phase
                            /\ BranchReason(f)' = fol'[f].reason /\ Shown(f)' = fol'[f].q
      /\ ~fol'[f].adopted => /\ BranchPhase(f)' = "none"
                             /\ BranchReason(f)' = "None" /\ Shown(f)' = <<>>
  BY Kinds DEF BranchInductive, BranchTypeOK, FollowPart, PhasePart, FollowType,
               BranchPhase, BranchReason, Shown, Open, Phase, Queue
<1>3. ASSUME ~fol[f].adopted, ~fol'[f].adopted
      PROVE  [Held(f)!Next]_(Held(f)!branch)
  <2>1. UNCHANGED <<BranchPhase(f), BranchReason(f), Shown(f)>>
    BY <1>1, <1>2, <1>3
  <2> QED BY <2>1 DEF Held!branch, Shown
<1>4. CASE FollowStays(f)
  <2>1. UNCHANGED <<BranchPhase(f), BranchReason(f), Shown(f)>>
    BY <1>1, <1>2, <1>4 DEF FollowStays
  <2> QED BY <2>1 DEF Held!branch, Shown
<1>5. CASE FollowAdmitted(f)
  <2>1. ~fol[f].adopted /\ ~fol'[f].adopted
    BY <1>1, <1>5, BranchConstants DEF FollowAdmitted, FollowPart
  <2> QED BY <1>3, <2>1
<1>6. CASE FollowAdopted(f)
  <2>1. /\ ~fol[f].adopted /\ fol'[f].adopted /\ fol[f].phase # "none"
        /\ fol'[f].phase = fol[f].phase /\ fol'[f].reason = fol[f].reason
        /\ fol'[f].q = fol[f].q
    BY <1>1, <1>6 DEF FollowAdopted, FollowPart, FollowType
  <2>2. Held(f)!Opens
    <3>1. fol'[f].q \in Seq(Message)
      BY <1>2 DEF FollowType
    <3>2. \/ fol'[f].phase \in {"active", "draining"} /\ fol'[f].reason = "None"
          \/ fol'[f].phase = "dead" /\ fol'[f].reason \in EndReasons /\ fol'[f].q = <<>>
      BY <1>2, <2>1 DEF FollowPart, PhasePart, FollowType
    <3> QED BY <1>1, <1>2, <2>1, <3>1, <3>2 DEF Held!Opens, Held!Handed, Shown
  <2> QED BY <2>2 DEF Held!Next
<1>7. CASE FollowGone(f)
  <2>1. CASE ~fol[f].adopted
    <3>1. ~fol'[f].adopted
      BY <1>7, BranchConstants DEF FollowGone
    <3> QED BY <1>3, <2>1, <3>1
  <2>2. CASE fol[f].adopted
    <3>1. fol[f].phase # "none" /\ ~fol'[f].adopted
      BY <1>1, <1>7, <2>2, BranchConstants DEF FollowPart, FollowGone
    <3>2. Held(f)!Closes
      BY <1>1, <1>2, <2>2, <3>1 DEF Held!Closes, Shown
    <3> QED BY <3>2 DEF Held!Next
  <2> QED BY <2>1, <2>2
<1>8. CASE FollowReceives(f)
  <2>1. PICK m \in From(f) : fol'[f] = [fol[f] EXCEPT !.q = Append(@, m)]
    BY <1>8 DEF FollowReceives
  <2>2. /\ fol'[f].q = Append(fol[f].q, m) /\ fol'[f].phase = fol[f].phase
        /\ fol'[f].reason = fol[f].reason /\ fol[f].phase = "active"
        /\ fol'[f].adopted = fol[f].adopted /\ m \in Message
    BY <1>1, <1>8, <2>1 DEF FollowReceives, FollowPart, FollowType, From
  <2>3. CASE fol[f].adopted
    <3>1. Held(f)!Appends(m)
      BY <1>1, <1>2, <2>2, <2>3 DEF Held!Appends, Shown
    <3> QED BY <2>2, <3>1 DEF Held!Next
  <2> QED BY <1>3, <2>2, <2>3
<1>9. CASE FollowReceivesLast(f)
  <2>1. PICK m \in From(f) : fol'[f] = [fol[f] EXCEPT !.q = Append(@, m), !.phase = "draining"]
    BY <1>9 DEF FollowReceivesLast
  <2>2. /\ fol'[f].q = Append(fol[f].q, m) /\ fol'[f].phase = "draining"
        /\ fol'[f].reason = fol[f].reason /\ fol[f].phase = "active"
        /\ fol'[f].adopted = fol[f].adopted /\ m \in Message
    BY <1>1, <1>9, <2>1 DEF FollowReceivesLast, FollowPart, FollowType, From
  <2>3. CASE fol[f].adopted
    <3>1. Held(f)!AppendsLast(m)
      BY <1>1, <1>2, <2>2, <2>3 DEF Held!AppendsLast, Shown
    <3> QED BY <2>2, <3>1 DEF Held!Next
  <2> QED BY <1>3, <2>2, <2>3
<1>10. CASE FollowEnds(f)
  <2>1. PICK why \in {"Lagged", "ClientDead"} : fol'[f] = Ended(fol[f], why)
    BY <1>10 DEF FollowEnds
  <2>2. /\ fol'[f].phase = "dead" /\ fol'[f].reason = why /\ fol'[f].q = <<>>
        /\ fol'[f].adopted = fol[f].adopted /\ fol[f].phase = "active" /\ why \in EndReasons
    BY <1>1, <1>10, <2>1, EndedFollowType DEF FollowEnds, FollowPart, Reasons, EndReasons
  <2>3. CASE fol[f].adopted
    <3>1. Held(f)!EndsBy(why)
      BY <1>1, <1>2, <2>2, <2>3 DEF Held!EndsBy, Shown
    <3> QED BY <2>2, <3>1 DEF Held!Next
  <2> QED BY <1>3, <2>2, <2>3
<1>11. CASE FollowTakes(f)
  <2>1. /\ fol'[f].q = Tail(fol[f].q) /\ fol'[f].phase = fol[f].phase
        /\ fol'[f].reason = fol[f].reason /\ fol[f].phase \in {"active", "draining"}
        /\ fol'[f].adopted = fol[f].adopted
    BY <1>1, <1>11 DEF FollowTakes, FollowType, FollowPart, PhasePart
  <2>2. Held(f)!Taken
    BY <1>1, <1>2, <1>11, <2>1 DEF FollowTakes, Held!Taken, Shown
  <2> QED BY <2>2 DEF Held!Next
<1> QED BY <1>4, <1>5, <1>6, <1>7, <1>8, <1>9, <1>10, <1>11 DEF FollowMoves

LEMMA ListMovesHeld ==
    ASSUME BranchInductive, BranchInductive', NEW l \in Lists, ListMoves(l)
    PROVE  [Held(l)!Next]_(Held(l)!branch)
<1> DEFINE outside(phase) == IF phase = "streaming" THEN "active" ELSE phase
<1>1. /\ list[l] \in ListType /\ HeldListPart(l)
      /\ list[l].adopted => /\ BranchPhase(l) = outside(list[l].phase)
                            /\ BranchReason(l) = list[l].reason /\ Shown(l) = list[l].q
      /\ ~list[l].adopted => /\ BranchPhase(l) = "none"
                             /\ BranchReason(l) = "None" /\ Shown(l) = <<>>
  BY Kinds DEF BranchInductive, SlotInductive, SlotTypeOK,
               BranchPhase, BranchReason, Shown, Open, Phase, Queue
<1>2. /\ list'[l] \in ListType /\ HeldListPart(l)'
      /\ list'[l].adopted => /\ BranchPhase(l)' = outside(list'[l].phase)
                             /\ BranchReason(l)' = list'[l].reason /\ Shown(l)' = list'[l].q
      /\ ~list'[l].adopted => /\ BranchPhase(l)' = "none"
                              /\ BranchReason(l)' = "None" /\ Shown(l)' = <<>>
  BY Kinds DEF BranchInductive, SlotInductive, SlotTypeOK,
               BranchPhase, BranchReason, Shown, Open, Phase, Queue
<1>3. ASSUME ~list[l].adopted, ~list'[l].adopted
      PROVE  [Held(l)!Next]_(Held(l)!branch)
  <2>1. UNCHANGED <<BranchPhase(l), BranchReason(l), Shown(l)>>
    BY <1>1, <1>2, <1>3
  <2> QED BY <2>1 DEF Held!branch, Shown
<1>4. list[l].adopted => list[l].phase \in {"streaming", "draining", "dead"}
  BY <1>1 DEF HeldListPart
<1>5. CASE ListStays(l)
  <2>1. UNCHANGED <<BranchPhase(l), BranchReason(l), Shown(l)>>
    BY <1>1, <1>2, <1>5 DEF ListStays, ListKept, SameProgress
  <2> QED BY <2>1 DEF Held!branch, Shown
<1>6. CASE ListAdmitted(l) \/ ListCancelsEarly(l) \/ ListResponds(l)
  <2>1. ~list[l].adopted /\ ~list'[l].adopted
    <3>1. CASE ListAdmitted(l)
      <4>1. ~list[l].adopted
        BY <1>1, <3>1 DEF ListAdmitted, HeldListPart
      <4> QED BY <3>1, <4>1, ListConstants DEF ListAdmitted
    <3>2. CASE ListCancelsEarly(l)
      BY <1>4, <3>2 DEF ListCancelsEarly, ListKept
    <3>3. CASE ListResponds(l)
      BY <1>4, <3>3 DEF ListResponds, ListKept
    <3> QED BY <1>6, <3>1, <3>2, <3>3
  <2> QED BY <1>3, <2>1
<1>7. CASE ListAdopted(l)
  <2>1. /\ ~list[l].adopted /\ list'[l].adopted
        /\ list'[l].phase \in {"streaming", "draining", "dead"}
    BY <1>1, <1>7 DEF ListAdopted, HeldListPart, SameProgress
  <2>2. Held(l)!Opens
    <3>1. list'[l].q \in Seq(Message)
      BY <1>2 DEF ListType
    <3>2. \/ outside(list'[l].phase) \in {"active", "draining"} /\ list'[l].reason = "None"
          \/ list'[l].phase = "dead" /\ list'[l].reason \in EndReasons /\ list'[l].q = <<>>
      BY <1>2, <2>1 DEF HeldListPart, PhasePart
    <3> QED BY <1>1, <1>2, <2>1, <3>1, <3>2 DEF Held!Opens, Held!Handed, Shown
  <2> QED BY <2>2 DEF Held!Next
<1>8. CASE ListGone(l)
  <2>1. ~list'[l].adopted
    BY <1>8, ListConstants DEF ListGone
  <2>2. CASE list[l].adopted
    <3>1. Held(l)!Closes
      BY <1>1, <1>2, <1>4, <2>1, <2>2 DEF Held!Closes, Shown
    <3> QED BY <3>1 DEF Held!Next
  <2> QED BY <1>3, <2>1, <2>2
<1>9. CASE ListCompletes(l)
  <2>1. list'[l].adopted = list[l].adopted
    BY <1>9 DEF ListCompletes, ListKept
  <2>2. CASE list[l].adopted
    <3>1. Held(l)!EndsCleanly
      BY <1>1, <1>2, <1>4, <1>9, <2>1, <2>2 DEF ListCompletes, Held!EndsCleanly, Shown
    <3> QED BY <3>1 DEF Held!Next
  <2> QED BY <1>3, <2>1, <2>2
<1>10. CASE ListReceives(l)
  <2>1. PICK m \in From(l) : list'[l].q = Append(list[l].q, m)
    BY <1>10 DEF ListReceives
  <2>2. list'[l].adopted = list[l].adopted /\ m \in Message
    BY <1>10 DEF ListReceives, ListKept, From
  <2>3. CASE list[l].adopted
    <3>1. Held(l)!Appends(m)
      BY <1>1, <1>2, <1>4, <1>10, <2>1, <2>2, <2>3 DEF ListReceives, Held!Appends, Shown
    <3> QED BY <2>2, <3>1 DEF Held!Next
  <2> QED BY <1>3, <2>2, <2>3
<1>11. CASE ListEnds(l)
  <2>1. list'[l].adopted = list[l].adopted
    BY <1>11 DEF ListEnds, ListKept
  <2>2. CASE list[l].adopted
    <3>1. list[l].phase = "streaming"
      BY <1>4, <1>11, <2>2 DEF ListEnds, RoutingPhases
    <3>2. Held(l)!EndsBy(list'[l].reason)
      BY <1>1, <1>2, <1>11, <2>1, <2>2, <3>1 DEF ListEnds, Held!EndsBy, Shown
    <3> QED BY <1>11, <3>2 DEF Held!Next, ListEnds
  <2> QED BY <1>3, <2>1, <2>2
<1>12. CASE ListTakes(l)
  <2>1. list'[l].adopted /\ list[l].adopted
    BY <1>12 DEF ListTakes, ListKept
  <2>2. Held(l)!Taken
    BY <1>1, <1>2, <1>4, <1>12, <2>1 DEF ListTakes, Held!Taken, Shown
  <2> QED BY <2>2 DEF Held!Next
<1> QED BY <1>5, <1>6, <1>7, <1>8, <1>9, <1>10, <1>11, <1>12 DEF ListMoves

\* A step of all branches is a step of module Branch for each of them.
LEMMA MovesHeld ==
    ASSUME BranchInductive, BranchInductive', BranchesMove
    PROVE  \A b \in Branches : [Held(b)!Next]_(Held(b)!branch)
  BY SubMovesHeld, FollowMovesHeld, ListMovesHeld
     DEF BranchesMove, SubsMove, FollowsMove, ListsMove, Branches

----------------------------------------------------------------------------
(* What each action does to the branches                                   *)

\* Only TakeEmpty adds a waiting consumer.
LEMMA WakeOnly ==
    ASSUME BranchInductive, UNCHANGED parked \/ \E bs : Wake(bs)
    PROVE  parked' \subseteq Branches /\ \A b : MayWait(b)
  BY DEF Wake, MayWait, BranchInductive, BranchTypeOK

LEMMA SubsStay ==
    ASSUME BranchInductive, UNCHANGED subVars, \A b : MayWait(b)
    PROVE  SubsMove
  BY DEF BranchInductive, BranchTypeOK, subVars, SubsMove, SubMoves, SubStays

LEMMA FollowsStay ==
    ASSUME BranchInductive, UNCHANGED <<folVars, folOpen>>, \A b : MayWait(b)
    PROVE  FollowsMove
  BY DEF BranchInductive, BranchTypeOK, folVars, FollowsMove, FollowMoves, FollowStays,
         FollowKept

LEMMA ListsStay ==
    ASSUME BranchInductive, UNCHANGED list, lstOpen' \subseteq lstOpen, \A b : MayWait(b)
    PROVE  ListsMove
  BY DEF ListsMove, ListMoves, ListStays, ListKept, SameProgress

LEMMA OneSub ==
    ASSUME BranchInductive, NEW s \in Subs, NEW r, sub' = [sub EXCEPT ![s] = r],
           SubMoves(s), subOrder' \in Seq(Subs), \A b : MayWait(b),
           ToSet(subOrder') \ {s} = ToSet(subOrder) \ {s},
           IsInjective(subOrder) => IsInjective(subOrder'),
           Len(subOrder) <= MaxSubscriptions => Len(subOrder') <= MaxSubscriptions
    PROVE  SubsMove
<1>1. sub \in [Subs -> SubType]
  BY DEF BranchInductive, BranchTypeOK
<1>2. sub' = [x \in Subs |-> sub'[x]] /\ \A x \in Subs \ {s} : sub'[x] = sub[x]
  BY <1>1
<1>3. \A x \in Subs \ {s} : SubStays(x)
  BY <1>2 DEF SubStays
<1>4. \A x \in Subs : SubMoves(x)
  BY <1>3 DEF SubMoves
<1> QED BY <1>2, <1>4 DEF SubsMove

LEMMA OneFollow ==
    ASSUME BranchInductive, NEW f \in Follows, NEW r, fol' = [fol EXCEPT ![f] = r],
           FollowMoves(f), folByAction' \subseteq Follows, \A b : MayWait(b),
           \A x \in Follows \ {f} : FollowKept(x)
    PROVE  FollowsMove
<1>1. fol \in [Follows -> FollowType]
  BY DEF BranchInductive, BranchTypeOK
<1>2. fol' = [x \in Follows |-> fol'[x]] /\ \A x \in Follows \ {f} : fol'[x] = fol[x]
  BY <1>1
<1>3. \A x \in Follows \ {f} : FollowStays(x)
  BY <1>2 DEF FollowStays
<1>4. \A x \in Follows : FollowMoves(x)
  BY <1>3 DEF FollowMoves
<1> QED BY <1>2, <1>4 DEF FollowsMove

LEMMA OneList ==
    ASSUME BranchInductive, NEW l \in Lists, NEW r, list' = [list EXCEPT ![l] = r],
           ListMoves(l), \A b : MayWait(b), lstOpen' \ {l} \subseteq lstOpen
    PROVE  ListsMove
<1>1. list \in [Lists -> ListType]
  BY DEF BranchInductive, SlotInductive, SlotTypeOK
<1>2. \A x \in Lists \ {l} : list'[x] = list[x]
  BY <1>1
<1>3. \A x \in Lists \ {l} : ListStays(x)
  BY <1>2 DEF ListStays, ListKept, SameProgress
<1> QED BY <1>3 DEF ListsMove, ListMoves

\* An entry that is released was provisional, so no consumer waits for it.
LEMMA ReleaseFollowMoves ==
    ASSUME BranchInductive, NEW a \in Own, ReleaseFollow(a), UNCHANGED parked
    PROVE  FollowsMove
<1>0. \A b : MayWait(b)
  BY WakeOnly
<1>1. CASE a \notin folOpen
  BY <1>0, <1>1, FollowsStay DEF ReleaseFollow
<1>2. CASE a \in folOpen
  <2>1. a \in Follows /\ a \notin parked /\ folByAction \subseteq Follows
    <3>1. a \in Follows /\ FollowPart(a)
      BY <1>2 DEF BranchInductive, SlotInductive, SlotTypeOK
    <3> QED BY <1>2, <3>1, ParkedKinds DEF BranchInductive, BranchTypeOK, FollowPart
  <2>2. /\ fol' = [fol EXCEPT ![a] = NoFollow]
        /\ folOpen' = folOpen \ {a} /\ folByAction' = folByAction \ {a}
    BY <1>2 DEF ReleaseFollow
  <2>3. FollowGone(a)
    BY <1>2, <2>1, <2>2 DEF FollowGone, BranchInductive, BranchTypeOK
  <2>4. \A x \in Follows \ {a} : FollowKept(x)
    BY <2>2 DEF FollowKept
  <2> QED BY <1>0, <2>1, <2>2, <2>3, <2>4, OneFollow DEF FollowMoves
<1> QED BY <1>1, <1>2

\* One event, at the subscriptions: the recipients that it does not fit end,
\* the others receive it.
LEMMA FanoutMoves ==
    ASSUME BranchInductive, NEW e, NEW b, Fanout(e, b), Queued(e) \in Unlisted,
           e.id \in Own => ~Live(e.id),
           \A x : MayWait(x), \A s \in Matched(e) : s \notin parked'
    PROVE  SubsMove
<1> DEFINE lagging == Lagging(e, b)
<1>1. subOrder \in Seq(Subs) /\ sub \in [Subs -> SubType]
  BY DEF BranchInductive, BranchTypeOK
<1>2. lagging \subseteq Matched(e) /\ Matched(e) \subseteq ToSet(subOrder)
  BY DEF Lagging, Matched
<1>3. /\ sub' = [s \in Subs |->
                   IF s \in lagging THEN Ended(sub[s], "Lagged")
                   ELSE IF s \in Matched(e)
                        THEN [sub[s] EXCEPT !.q = Append(@, Queued(e))]
                        ELSE sub[s]]
      /\ subOrder' = Without(subOrder, lagging)
  BY DEF Fanout
<1>4. /\ subOrder' \in Seq(Subs) /\ ToSet(subOrder') = ToSet(subOrder) \ lagging
      /\ Len(subOrder') <= Len(subOrder) /\ (IsInjective(subOrder) => IsInjective(subOrder'))
  <2> HIDE DEF lagging
  <2> QED BY <1>1, <1>3, WithoutEffect
<1> HIDE DEF lagging
<1>5. ASSUME NEW s \in Subs PROVE SubMoves(s)
  <2>1. CASE s \in lagging
    BY <1>2, <1>3, <1>4, <2>1 DEF SubMoves, SubEnds
  <2>2. CASE s \in Matched(e) \ lagging
    <3>1. sub'[s] = [sub[s] EXCEPT !.q = Append(@, Queued(e))]
      BY <1>3, <2>2
    <3>2. Queued(e).src \in Own => ~Live(Queued(e).src)
      BY DEF Queued
    <3> QED BY <1>2, <1>4, <2>2, <3>1, <3>2 DEF SubMoves, SubReceives
  <2>3. CASE s \notin Matched(e)
    BY <1>2, <1>3, <1>4, <2>3 DEF SubMoves, SubStays
  <2> QED BY <2>1, <2>2, <2>3
<1>6. Len(subOrder) <= MaxSubscriptions => Len(subOrder') <= MaxSubscriptions
  <2>1. Len(subOrder) \in Nat /\ Len(subOrder') \in Nat /\ MaxSubscriptions \in Nat
    BY <1>1, <1>4, LimitsAssumption
  <2>2. \A m, n, k \in Nat : m <= n /\ n <= k => m <= k
    OBVIOUS
  <2> QED BY <1>4, <2>1, <2>2
<1>7. sub' = [s \in Subs |-> sub'[s]]
  BY <1>3
<1> QED BY <1>4, <1>5, <1>6, <1>7 DEF SubsMove

LEMMA EndedListFields ==
    ASSUME NEW l \in ListType, NEW why \in Reasons
    PROVE  /\ EndedList(l, why).phase = "dead" /\ EndedList(l, why).reason = why
           /\ EndedList(l, why).q = <<>> /\ EndedList(l, why).completion = NoMessage
           /\ EndedList(l, why).adopted = l.adopted
  BY DEF EndedList, Ended, ListType

\* The death of the client ends every branch that is not in clean drain.
LEMMA DieMoves ==
    ASSUME BranchInductive, NEW why, Die(why)
    PROVE  BranchesMove
<1>0. /\ sub \in [Subs -> SubType] /\ subOrder \in Seq(Subs)
      /\ fol \in [Follows -> FollowType] /\ folByAction \subseteq Follows
      /\ list \in [Lists -> ListType]
      /\ outcome \in [Own -> {"none", "success", "error", "dead", "aborted", "abandoned"}]
      /\ pstate \in [Own -> {"none", "reserved", "inFlight", "completed", "released"}]
  BY DEF BranchInductive, BranchTypeOK, SlotInductive, SlotTypeOK
<1> DEFINE fols == {f \in Follows : fol[f].phase = "active"}
<1>1. /\ UNCHANGED <<folOpen, lstOpen, history>>
      /\ sub' = [s \in Subs |-> IF s \in ToSet(subOrder) THEN Ended(sub[s], "ClientDead")
                                ELSE sub[s]]
      /\ subOrder' = <<>>
      /\ fol' = [f \in Follows |-> IF f \in fols THEN Ended(fol[f], "ClientDead")
                                   ELSE fol[f]]
      /\ folByAction' = folByAction \ fols
      /\ list' = [l \in Lists |-> IF l \in KilledLists THEN EndedList(list[l], "ClientDead")
                                  ELSE list[l]]
      /\ parked' = parked \ (ToSet(subOrder) \cup fols \cup KilledLists)
      /\ outcome' = [a \in Own |-> IF a \in KilledPendings THEN "dead" ELSE outcome[a]]
      /\ pstate' = [a \in Own |-> IF a \in KilledPendings THEN Completed(a) ELSE pstate[a]]
  BY DEF Die, Wake
<1>2. parked' \subseteq Branches /\ \A b : MayWait(b)
  <2>1. \E bs : Wake(bs)
    BY <1>1 DEF Wake
  <2> QED BY <2>1, WakeOnly
<1>3. SubsMove
  <2>1. <<>> \in Seq(Subs) /\ ToSet(<<>>) = {} /\ IsInjective(<<>>) /\ Len(<<>>) = 0
    BY DEF ToSet, IsInjective
  <2>2. ASSUME NEW s \in Subs PROVE SubMoves(s)
    <3>1. CASE s \in ToSet(subOrder)
      <4>1. sub'[s] = Ended(sub[s], "ClientDead") /\ s \notin parked'
        BY <1>1, <3>1
      <4> QED BY <1>1, <2>1, <3>1, <4>1 DEF SubMoves, SubEnds
    <3>2. CASE s \notin ToSet(subOrder)
      <4>1. sub'[s] = sub[s]
        BY <1>1, <3>2
      <4> QED BY <1>1, <1>2, <2>1, <3>2, <4>1 DEF SubMoves, SubStays
    <3> QED BY <3>1, <3>2
  <2>3. Len(subOrder') <= MaxSubscriptions
    BY <1>1, <2>1, LimitsAssumption
  <2>4. sub' = [s \in Subs |-> sub'[s]]
    BY <1>1
  <2> QED BY <1>1, <2>1, <2>2, <2>3, <2>4 DEF SubsMove
<1>4. FollowsMove
  <2>1. ASSUME NEW f \in Follows PROVE FollowMoves(f)
    <3>1. FollowPart(f)
      BY DEF BranchInductive
    <3>2. CASE f \in fols
      <4>1. fol'[f] = Ended(fol[f], "ClientDead") /\ f \notin parked' /\ f \notin folByAction'
        BY <1>1, <3>2
      <4>2. f \in folByAction
        BY <3>1, <3>2 DEF FollowPart
      <4> QED BY <1>1, <4>1, <4>2 DEF FollowMoves, FollowEnds
    <3>3. CASE f \notin fols
      <4>1. fol'[f] = fol[f]
        BY <1>1, <3>3
      <4>2. f \in folByAction' <=> f \in folByAction
        BY <1>1, <3>3
      <4> QED BY <1>1, <1>2, <4>1, <4>2 DEF FollowMoves, FollowStays, FollowKept
    <3> QED BY <3>2, <3>3
  <2>2. fol' = [f \in Follows |-> fol'[f]] /\ folByAction' \subseteq Follows
    BY <1>0, <1>1
  <2> QED BY <2>1, <2>2 DEF FollowsMove
<1>5. ListsMove
  <2>1. ASSUME NEW l \in Lists PROVE ListMoves(l)
    <3>1. list[l] \in ListType
      BY <1>0
    <3>2. CASE l \in KilledLists
      <4>1. list'[l] = EndedList(list[l], "ClientDead") /\ l \notin parked'
        BY <1>1, <3>2
      <4>2. list[l].phase \in RoutingPhases
        BY <3>1, <3>2 DEF KilledLists, ListType
      <4>3. /\ list'[l].phase = "dead" /\ list'[l].adopted = list[l].adopted
            /\ list'[l].reason = "ClientDead" /\ list'[l].q = <<>>
            /\ list'[l].completion = NoMessage
        BY <3>1, <4>1, EndedListFields DEF Reasons
      <4> QED BY <1>1, <4>1, <4>2, <4>3 DEF ListMoves, ListEnds, ListKept, EndReasons
    <3>3. CASE l \notin KilledLists
      <4>1. list'[l] = list[l]
        BY <1>1, <3>3
      <4> QED BY <1>1, <1>2, <4>1 DEF ListMoves, ListStays, ListKept, SameProgress
    <3> QED BY <3>2, <3>3
  <2> QED BY <2>1 DEF ListsMove
<1>6. HistoryMoves
  <2>1. UNCHANGED <<answered, marked>>
    BY <1>1 DEF history
  <2>2. ASSUME NEW a \in Own, Admitted(a) PROVE Admitted(a)'
    BY <1>0, <1>1, <2>2, CompletedState DEF Admitted
  <2>3. \A l \in Lists : outcome'[l] \in GivenUp => outcome[l] \in GivenUp
    BY <1>0, <1>1, Kinds DEF GivenUp
  <2> QED BY <1>2, <2>1, <2>2, <2>3 DEF HistoryMoves
<1> QED BY <1>3, <1>4, <1>5, <1>6 DEF BranchesMove

LEMMA HistoryStays ==
    ASSUME BranchInductive, UNCHANGED <<pstate, outcome>>,
           answered \subseteq answered', marked \subseteq marked', parked' \subseteq Branches
    PROVE  HistoryMoves
  BY DEF HistoryMoves, Admitted

LEMMA HistoryOne ==
    ASSUME BranchInductive, NEW a \in Own, NEW p, p # "none",
           pstate' = [pstate EXCEPT ![a] = p],
           \/ UNCHANGED outcome
           \/ \E o : /\ outcome' = [outcome EXCEPT ![a] = o]
                     /\ o \in GivenUp /\ a \in Lists => list'[a] = NoList,
           answered \subseteq answered', marked \subseteq marked', parked' \subseteq Branches
    PROVE  HistoryMoves
<1>1. /\ pstate \in [Own -> {"none", "reserved", "inFlight", "completed", "released"}]
      /\ outcome \in [Own -> {"none", "success", "error", "dead", "aborted", "abandoned"}]
  BY DEF BranchInductive, SlotInductive, SlotTypeOK
<1>2. \A x \in Own : Admitted(x) => Admitted(x)'
  BY <1>1 DEF Admitted
<1>3. \A l \in Lists : outcome'[l] \in GivenUp => outcome[l] \in GivenUp \/ list'[l] = NoList
  BY <1>1, Kinds
<1> QED BY <1>2, <1>3 DEF HistoryMoves

\* A step that leaves branches, pendings and consumers alone.
LEMMA QuietMoves ==
    ASSUME BranchInductive,
           UNCHANGED <<subVars, folVars, folOpen, list, lstOpen, parked, pstate, outcome>>,
           answered \subseteq answered', marked \subseteq marked'
    PROVE  BranchesMove
<1>1. parked' \subseteq Branches /\ \A b : MayWait(b)
  BY WakeOnly
<1>2. SubsMove
  BY <1>1, SubsStay
<1>3. FollowsMove
  BY <1>1, FollowsStay
<1>4. ListsMove
  BY <1>1, ListsStay
<1>5. HistoryMoves
  BY <1>1, HistoryStays
<1> QED BY <1>2, <1>3, <1>4, <1>5 DEF BranchesMove

LEMMA AdmitMoves ==
    ASSUME BranchInductive, NEW a \in Own, Admit(a)
    PROVE  BranchesMove
<1>0. \A b : MayWait(b)
  BY WakeOnly DEF Admit
<1>1. ~Admitted(a) /\ Admitted(a)' /\ UNCHANGED <<subVars, parked, history, outcome>>
  BY DEF Admit, Admitted, BranchInductive, SlotInductive, SlotTypeOK
<1>2. SubsMove
  BY <1>0, <1>1, SubsStay
<1>3. FollowsMove
  <2>1. CASE a \notin Follows
    BY <1>0, <2>1, FollowsStay DEF Admit, folVars
  <2>2. CASE a \in Follows
    <3>1. /\ fol' = [fol EXCEPT ![a] = NewFollow]
          /\ folOpen' = folOpen \cup {a} /\ folByAction' = folByAction \cup {a}
          /\ folByAction \subseteq Follows /\ fol \in [Follows -> FollowType]
      BY <2>2 DEF Admit, BranchInductive, BranchTypeOK
    <3>2. a \notin parked'
      BY <1>1, <2>2, ParkedKinds, BranchConstants DEF BranchInductive, FollowPart
    <3>3. FollowAdmitted(a)
      BY <1>1, <2>2, <3>1, <3>2 DEF FollowAdmitted
    <3>4. \A x \in Follows \ {a} : FollowKept(x)
      BY <3>1 DEF FollowKept
    <3>5. folByAction' \subseteq Follows
      BY <2>2, <3>1
    <3> QED BY <1>0, <2>2, <3>1, <3>3, <3>4, <3>5, OneFollow DEF FollowMoves
  <2> QED BY <2>1, <2>2
<1>4. ListsMove
  <2>1. CASE a \notin Lists
    BY <1>0, <2>1, ListsStay DEF Admit
  <2>2. CASE a \in Lists
    <3>1. /\ list' = [list EXCEPT ![a] = NewList] /\ lstOpen' = lstOpen \cup {a}
          /\ list \in [Lists -> ListType]
      BY <2>2 DEF Admit, BranchInductive, SlotInductive, SlotTypeOK
    <3>2. a \notin parked'
      BY <1>1, <2>2, ParkedKinds DEF BranchInductive, HeldListPart
    <3>3. ListAdmitted(a)
      BY <1>1, <2>2, <3>1, <3>2 DEF ListAdmitted
    <3> QED BY <1>0, <2>2, <3>1, <3>3, OneList DEF ListMoves
  <2> QED BY <2>1, <2>2
<1>5. HistoryMoves
  <2>1. parked' \subseteq Branches
    BY <1>1, WakeOnly
  <2>2. pstate' = [pstate EXCEPT ![a] = "reserved"] /\ UNCHANGED <<answered, marked>>
    BY DEF Admit, history
  <2> QED BY <1>1, <2>1, <2>2, HistoryOne
<1> QED BY <1>2, <1>3, <1>4, <1>5 DEF BranchesMove

LEMMA CommitWriteMoves ==
    ASSUME BranchInductive, NEW a \in Own, CommitWrite(a)
    PROVE  BranchesMove
<1> USE DEF CommitWrite
<1>0. parked' \subseteq Branches /\ \A b : MayWait(b)
  BY WakeOnly
<1>1. SubsMove
  BY <1>0, SubsStay
<1>2. FollowsMove
  BY <1>0, FollowsStay
<1>3. ListsMove
  BY <1>0, ListsStay DEF listVars
<1>4. HistoryMoves
  <2> DEFINE p == IF pstate[a] = "reserved" THEN "inFlight" ELSE Completed(a)
  <2>1. p # "none" /\ pstate' = [pstate EXCEPT ![a] = p]
    BY CompletedState
  <2>2. UNCHANGED <<outcome, answered, marked>>
    BY DEF history
  <2> HIDE DEF p
  <2> QED BY <1>0, <2>1, <2>2, HistoryOne
<1> QED BY <1>1, <1>2, <1>3, <1>4 DEF BranchesMove

\* A list that leaves with its pending was provisional.
LEMMA ProvisionalListGone ==
    ASSUME BranchInductive, NEW a \in Lists, a \in lstOpen, UNCHANGED parked,
           SetList(a, NoList), lstOpen' = lstOpen \ {a}
    PROVE  ListsMove
<1>0. \A b : MayWait(b)
  BY WakeOnly
<1>1. list' = [list EXCEPT ![a] = NoList] /\ list \in [Lists -> ListType]
  BY DEF SetList, BranchInductive, SlotInductive, SlotTypeOK
<1>2. a \notin parked'
  <2>1. ~list[a].adopted
    BY DEF BranchInductive, HeldListPart
  <2> QED BY <2>1, ParkedKinds DEF BranchInductive
<1>3. ListGone(a)
  BY <1>1, <1>2 DEF ListGone
<1> QED BY <1>0, <1>1, <1>3, OneList DEF ListMoves

LEMMA AbortNotSentMoves ==
    ASSUME BranchInductive, NEW a \in Own, AbortNotSent(a)
    PROVE  BranchesMove
<1>0. /\ UNCHANGED <<subVars, parked, history>> /\ ReleaseFollow(a)
      /\ lstOpen' = lstOpen \ {a}
      /\ a \in lstOpen => SetList(a, NoList)
      /\ a \notin lstOpen => UNCHANGED list
      /\ pstate' = [pstate EXCEPT ![a] = Completed(a)]
      /\ \/ UNCHANGED outcome
         \/ pstate[a] = "reserved" /\ outcome' = [outcome EXCEPT ![a] = "aborted"]
  BY DEF AbortNotSent, listVars
<1>1. parked' \subseteq Branches /\ \A b : MayWait(b)
  BY <1>0, WakeOnly
<1>2. SubsMove
  BY <1>0, <1>1, SubsStay
<1>3. FollowsMove
  BY <1>0, ReleaseFollowMoves
<1>4. ListsMove
  <2>1. CASE a \in lstOpen
    <3>1. a \in Lists
      BY <2>1 DEF BranchInductive, SlotInductive, SlotTypeOK
    <3> QED BY <1>0, <2>1, <3>1, ProvisionalListGone
  <2>2. CASE a \notin lstOpen
    <3>1. lstOpen' \subseteq lstOpen
      BY <1>0
    <3> QED BY <1>0, <1>1, <2>2, <3>1, ListsStay
  <2> QED BY <2>1, <2>2
<1>5. HistoryMoves
  <2>1. Completed(a) # "none" /\ UNCHANGED <<answered, marked>>
    BY <1>0, CompletedState DEF history
  <2>2. a \in Lists /\ pstate[a] = "reserved" => list'[a] = NoList
    <3> SUFFICES ASSUME a \in Lists, Waiting(a) PROVE list'[a] = NoList
      BY DEF Waiting
    <3>1. a \in lstOpen /\ SlotTypeOK
      BY DEF BranchInductive, SlotInductive, ListPart
    <3> QED BY <1>0, <3>1, ListConstants, SetListEffect
  <2> QED BY <1>0, <1>1, <2>1, <2>2, HistoryOne
<1> QED BY <1>2, <1>3, <1>4, <1>5 DEF BranchesMove

LEMMA AbandonMoves ==
    ASSUME BranchInductive, NEW a \in Own, Abandon(a)
    PROVE  BranchesMove
<1>0. /\ UNCHANGED <<subVars, parked, history>> /\ ReleaseFollow(a)
      /\ lstOpen' = lstOpen \ {a}
      /\ a \in Lists => SetList(a, NoList)
      /\ a \notin Lists => UNCHANGED list
      /\ pstate' = [pstate EXCEPT ![a] = Completed(a)]
      /\ outcome' = [outcome EXCEPT ![a] = "abandoned"]
      /\ pstate[a] = "inFlight"
  BY DEF Abandon, listVars
<1>1. parked' \subseteq Branches /\ \A b : MayWait(b)
  BY <1>0, WakeOnly
<1>2. SubsMove
  BY <1>0, <1>1, SubsStay
<1>3. FollowsMove
  BY <1>0, ReleaseFollowMoves
<1>4. ListsMove
  <2>1. CASE a \in Lists
    <3>1. a \in lstOpen
      BY <1>0, <2>1 DEF BranchInductive, SlotInductive, ListPart, Waiting
    <3> QED BY <1>0, <2>1, <3>1, ProvisionalListGone
  <2>2. CASE a \notin Lists
    <3>1. lstOpen' \subseteq lstOpen
      BY <1>0
    <3> QED BY <1>0, <1>1, <2>2, <3>1, ListsStay
  <2> QED BY <2>1, <2>2
<1>5. HistoryMoves
  <2>1. Completed(a) # "none" /\ UNCHANGED <<answered, marked>>
    BY <1>0, CompletedState DEF history
  <2>2. a \in Lists => list'[a] = NoList
    BY <1>0 DEF SetList, BranchInductive, SlotInductive, SlotTypeOK
  <2> QED BY <1>0, <1>1, <2>1, <2>2, HistoryOne
<1> QED BY <1>2, <1>3, <1>4, <1>5 DEF BranchesMove

LEMMA AdoptFollowMoves ==
    ASSUME BranchInductive, NEW f \in Follows, AdoptFollow(f)
    PROVE  BranchesMove
<1> USE DEF AdoptFollow
<1>0. parked' \subseteq Branches /\ \A b : MayWait(b)
  BY WakeOnly
<1>1. SubsMove
  BY <1>0, SubsStay
<1>2. FollowsMove
  <2>0. fol \in [Follows -> FollowType] /\ folByAction \subseteq Follows /\ FollowPart(f)
    BY DEF BranchInductive, BranchTypeOK
  <2>1. /\ fol' = [fol EXCEPT ![f] = [fol[f] EXCEPT !.adopted = TRUE]]
        /\ folOpen' = folOpen \ {f} /\ folByAction' = folByAction
    BY <2>0
  <2>2. f \notin parked'
    BY <2>0, ParkedKinds DEF BranchInductive, FollowPart
  <2>3. FollowAdopted(f)
    BY <2>0, <2>1, <2>2 DEF FollowAdopted
  <2>4. \A x \in Follows \ {f} : FollowKept(x)
    BY <2>1 DEF FollowKept
  <2> QED BY <1>0, <2>0, <2>1, <2>3, <2>4, OneFollow DEF FollowMoves
<1>3. ListsMove
  BY <1>0, ListsStay DEF listVars
<1>4. HistoryMoves
  <2>1. Completed(f) # "none" /\ pstate' = [pstate EXCEPT ![f] = Completed(f)]
    BY CompletedState
  <2>2. UNCHANGED <<outcome, answered, marked>>
    BY DEF history
  <2> QED BY <1>0, <2>1, <2>2, Kinds, HistoryOne
<1> QED BY <1>1, <1>2, <1>3, <1>4 DEF BranchesMove

LEMMA CloseFollowMoves ==
    ASSUME BranchInductive, NEW f \in Follows, CloseFollow(f)
    PROVE  BranchesMove
<1> USE DEF CloseFollow
<1>0. parked' \subseteq Branches /\ \A b : MayWait(b)
  BY WakeOnly
<1>1. SubsMove
  BY <1>0, SubsStay
<1>2. FollowsMove
  BY Kinds, ReleaseFollowMoves
<1>3. ListsMove
  BY <1>0, ListsStay DEF listVars
<1>4. HistoryMoves
  <2>1. Completed(f) # "none" /\ pstate' = [pstate EXCEPT ![f] = Completed(f)]
    BY CompletedState
  <2>2. UNCHANGED <<outcome, answered, marked>>
    BY DEF history
  <2> QED BY <1>0, <2>1, <2>2, Kinds, HistoryOne
<1> QED BY <1>1, <1>2, <1>3, <1>4 DEF BranchesMove

LEMMA AdoptListMoves ==
    ASSUME BranchInductive, NEW l \in Lists, AdoptList(l)
    PROVE  BranchesMove
<1> USE DEF AdoptList
<1>0. parked' \subseteq Branches /\ \A b : MayWait(b)
  BY WakeOnly
<1>1. SubsMove
  BY <1>0, SubsStay
<1>2. FollowsMove
  BY <1>0, FollowsStay
<1>3. ListsMove
  <2>0. list \in [Lists -> ListType] /\ HeldListPart(l) /\ ListPart(l) /\ PendingPart(l)
    BY Kinds DEF BranchInductive, SlotInductive, SlotTypeOK
  <2>1. /\ list' = [list EXCEPT ![l] = [list[l] EXCEPT !.adopted = TRUE]]
        /\ lstOpen' = lstOpen \ {l}
    BY <2>0
  <2>2. l \notin parked' /\ ~list[l].adopted
    BY <2>0, ParkedKinds DEF BranchInductive, HeldListPart
  <2>3. list[l].phase \in {"streaming", "draining", "dead"}
    <3>1. ~Waiting(l) /\ list[l].phase # "none"
      BY <2>0 DEF PendingPart, HeldListPart
    <3>2. list[l].phase \in RoutingPhases \cup {"none", "draining", "dead"}
      BY <2>0 DEF ListType
    <3> QED BY <2>0, <3>1, <3>2 DEF ListPart, EarlyPhases
  <2>4. SameProgress(l) /\ list'[l].adopted
    BY <2>0, <2>1 DEF SameProgress, ListType
  <2>5. ListAdopted(l)
    BY <2>1, <2>2, <2>3, <2>4 DEF ListAdopted
  <2> QED BY <1>0, <2>1, <2>5, OneList DEF ListMoves
<1>4. HistoryMoves
  <2>1. Completed(l) # "none" /\ pstate' = [pstate EXCEPT ![l] = Completed(l)]
    BY CompletedState
  <2>2. UNCHANGED <<outcome, answered, marked>>
    BY DEF history
  <2> QED BY <1>0, <2>1, <2>2, Kinds, HistoryOne
<1> QED BY <1>1, <1>2, <1>3, <1>4 DEF BranchesMove

LEMMA CloseListMoves ==
    ASSUME BranchInductive, NEW l \in Lists, CloseList(l)
    PROVE  BranchesMove
<1> USE DEF CloseList
<1>0. parked' \subseteq Branches /\ \A b : MayWait(b)
  BY WakeOnly
<1>1. SubsMove
  BY <1>0, SubsStay
<1>2. FollowsMove
  BY <1>0, FollowsStay
<1>3. ListsMove
  BY ProvisionalListGone
<1>4. HistoryMoves
  <2>1. Completed(l) # "none" /\ pstate' = [pstate EXCEPT ![l] = Completed(l)]
    BY CompletedState
  <2>2. UNCHANGED <<outcome, answered, marked>>
    BY DEF history
  <2> QED BY <1>0, <2>1, <2>2, Kinds, HistoryOne
<1> QED BY <1>1, <1>2, <1>3, <1>4 DEF BranchesMove

\* What the response makes of a list, in the terms of its holder.
LEMMA RespondedFields ==
    ASSUME NEW l \in ListType, l.phase \in EarlyPhases \cup {"dead"}
    PROVE  LET k == Responded(l, TRUE)
           IN  /\ k.adopted = l.adopted
               /\ l.phase # "bufferedCancelled" =>
                     /\ k.reason = l.reason /\ k.q = l.q /\ k.items = l.items
                     /\ k.completion = l.completion
               /\ l.phase = "buffering" => k.phase = "streaming"
               /\ l.phase = "bufferedComplete" => k.phase = "draining"
               /\ l.phase = "dead" => k.phase = "dead"
               /\ l.phase = "bufferedCancelled" =>
                     /\ k.phase = "dead" /\ k.reason = "Cancelled" /\ k.q = <<>>
                     /\ k.completion = NoMessage
<1> DEFINE seen == [l EXCEPT !.responseSeen = TRUE]
<1>1. /\ seen \in ListType /\ seen.adopted = l.adopted /\ seen.reason = l.reason
      /\ seen.q = l.q /\ seen.items = l.items /\ seen.completion = l.completion
      /\ seen.phase = l.phase
  BY DEF ListType
<1>2. l.phase \in {"buffering", "bufferedComplete", "bufferedCancelled", "dead"}
  BY DEF EarlyPhases, RoutingPhases
<1>3. CASE l.phase = "buffering"
  <2>1. Responded(l, TRUE) = [seen EXCEPT !.phase = "streaming"]
    BY <1>3 DEF Responded
  <2> HIDE DEF seen
  <2> QED BY <1>1, <1>3, <2>1 DEF ListType
<1>4. CASE l.phase = "bufferedComplete"
  <2>1. Responded(l, TRUE) = [seen EXCEPT !.phase = "draining"]
    BY <1>4 DEF Responded
  <2> HIDE DEF seen
  <2> QED BY <1>1, <1>4, <2>1 DEF ListType
<1>5. CASE l.phase = "bufferedCancelled"
  <2>1. Responded(l, TRUE) = EndedList(seen, "Cancelled")
    BY <1>5 DEF Responded
  <2> HIDE DEF seen
  <2> QED BY <1>1, <1>5, <2>1, EndedListFields DEF Reasons
<1>6. CASE l.phase = "dead"
  <2>1. Responded(l, TRUE) = seen
    BY <1>6 DEF Responded
  <2> HIDE DEF seen
  <2> QED BY <1>1, <1>6, <2>1
<1> QED BY <1>2, <1>3, <1>4, <1>5, <1>6

LEMMA RoutePendingResponseMoves ==
    ASSUME BranchInductive, NEW a \in Own, NEW success \in BOOLEAN,
           RoutePendingResponse(a, success)
    PROVE  BranchesMove
<1>0. /\ UNCHANGED <<subVars, folVars, folOpen, marked>> /\ answered' = answered \cup {a}
      /\ a \in pendByAction
      /\ pstate' = [pstate EXCEPT ![a] = Completed(a)]
      /\ outcome' = [outcome EXCEPT ![a] = IF success THEN "success" ELSE "error"]
  BY DEF RoutePendingResponse, Answer
<1>1. parked' \subseteq Branches /\ \A b : MayWait(b)
  <2>1. UNCHANGED parked \/ \E bs : Wake(bs)
    <3>1. CASE a \in Lists
      BY <3>1 DEF RoutePendingResponse
    <3>2. CASE a \notin Lists
      BY <3>2 DEF RoutePendingResponse
    <3> QED BY <3>1, <3>2
  <2> QED BY <2>1, WakeOnly
<1>2. SubsMove
  BY <1>0, <1>1, SubsStay
<1>3. FollowsMove
  BY <1>0, <1>1, FollowsStay
<1>4. ListsMove
  <2>1. CASE a \notin Lists
    <3>1. UNCHANGED <<list, lstOpen>>
      BY <2>1 DEF RoutePendingResponse, listVars
    <3> QED BY <1>1, <3>1, ListsStay
  <2>2. CASE a \in Lists
    <3>0. /\ list \in [Lists -> ListType] /\ list[a] \in ListType
          /\ list[a].phase \in EarlyPhases \cup {"dead"}
          /\ ~list[a].adopted /\ a \in lstOpen /\ a \notin parked
      <4>1. Waiting(a)
        BY <1>0 DEF BranchInductive, SlotInductive, PendingPart
      <4>2. /\ list[a].phase \in EarlyPhases \cup {"dead"} /\ ~list[a].adopted
            /\ a \in lstOpen
        BY <2>2, <4>1 DEF BranchInductive, SlotInductive, ListPart
      <4> QED BY <2>2, <4>2, ParkedKinds DEF BranchInductive, SlotInductive, SlotTypeOK
    <3> DEFINE k == Responded(list[a], success)
    <3>1. /\ list' = [list EXCEPT ![a] = k]
          /\ lstOpen' = IF success THEN lstOpen ELSE lstOpen \ {a}
      BY <2>2 DEF RoutePendingResponse, SetList
    <3>2. list'[a] = k /\ a \notin parked' /\ lstOpen' \subseteq lstOpen
      <4>1. parked' \subseteq parked
        BY <2>2 DEF RoutePendingResponse, Wake
      <4> HIDE DEF k
      <4> QED BY <2>2, <3>0, <3>1, <4>1
    <3>3. CASE ~success
      <4>1. k = NoList
        BY <3>0, <3>3, RespondedType
      <4>2. ListGone(a)
        BY <3>0, <3>1, <3>2, <3>3, <4>1 DEF ListGone
      <4> HIDE DEF k
      <4> QED BY <1>1, <2>2, <3>1, <3>2, <4>2, OneList DEF ListMoves
    <3>4. CASE success
      <4>1. /\ k.adopted = list[a].adopted
            /\ list[a].phase # "bufferedCancelled" =>
                  /\ k.reason = list[a].reason /\ k.q = list[a].q
                  /\ k.items = list[a].items /\ k.completion = list[a].completion
            /\ list[a].phase = "buffering" => k.phase = "streaming"
            /\ list[a].phase = "bufferedComplete" => k.phase = "draining"
            /\ list[a].phase = "dead" => k.phase = "dead"
            /\ list[a].phase = "bufferedCancelled" =>
                  /\ k.phase = "dead" /\ k.reason = "Cancelled" /\ k.q = <<>>
                  /\ k.completion = NoMessage
        BY <3>0, <3>4, RespondedFields
      <4>2. ListKept(a) /\ a \in answered'
        BY <1>0, <3>2, <4>1 DEF ListKept
      <4>3. list[a].phase \in {"buffering", "bufferedComplete", "bufferedCancelled", "dead"}
        BY <3>0 DEF EarlyPhases, RoutingPhases
      <4> HIDE DEF k
      <4>4. CASE list[a].phase \in {"buffering", "bufferedComplete"}
        <5>1. ListResponds(a)
          BY <3>0, <3>2, <4>1, <4>2, <4>4 DEF ListResponds
        <5> QED BY <1>1, <2>2, <3>1, <3>2, <5>1, OneList DEF ListMoves
      <4>5. CASE list[a].phase = "bufferedCancelled"
        <5>1. ListEnds(a)
          BY <3>0, <3>2, <4>1, <4>2, <4>5 DEF ListEnds, RoutingPhases, EndReasons
        <5> QED BY <1>1, <2>2, <3>1, <3>2, <5>1, OneList DEF ListMoves
      <4>6. CASE list[a].phase = "dead"
        <5>1. SameProgress(a)
          BY <3>2, <4>1, <4>6 DEF SameProgress
        <5>2. ListStays(a)
          BY <1>1, <4>2, <5>1 DEF ListStays
        <5> QED BY <1>1, <2>2, <3>1, <3>2, <5>2, OneList DEF ListMoves
      <4> QED BY <4>3, <4>4, <4>5, <4>6
    <3> QED BY <3>3, <3>4
  <2> QED BY <2>1, <2>2
<1>5. HistoryMoves
  <2>1. Completed(a) # "none" /\ UNCHANGED marked /\ answered \subseteq answered'
    BY <1>0, CompletedState
  <2> DEFINE o == IF success THEN "success" ELSE "error"
  <2>2. outcome' = [outcome EXCEPT ![a] = o] /\ o \notin GivenUp
    BY <1>0 DEF GivenUp
  <2> HIDE DEF o
  <2> QED BY <1>0, <1>1, <2>1, <2>2, HistoryOne
<1> QED BY <1>2, <1>3, <1>4, <1>5 DEF BranchesMove

\* Observing an event does not change what a holder or a completion sees.
LEMMA ObservedFields ==
    ASSUME NEW a \in Lists, list[a] \in ListType, NEW e \in ListEvent(a)
    PROVE  LET l == Observed(a, e)
           IN  /\ l \in ListType /\ l.phase = list[a].phase /\ l.reason = list[a].reason
               /\ l.adopted = list[a].adopted /\ l.q = list[a].q
               /\ l.items = list[a].items /\ l.completion = list[a].completion
<1>1. Observed(a, e) \in ListType /\ Observed(a, e).phase = list[a].phase
      /\ Observed(a, e).adopted = list[a].adopted
  BY ObservedType
<1>2. Observed(a, e).reason = list[a].reason /\ Observed(a, e).q = list[a].q
      /\ Observed(a, e).items = list[a].items
      /\ Observed(a, e).completion = list[a].completion
  BY DEF Observed, ListType
<1> QED BY <1>1, <1>2

LEMMA RouteListEventMoves ==
    ASSUME BranchInductive, NEW a \in Lists, NEW e \in ListEvent(a), RouteListEvent(a, e)
    PROVE  BranchesMove /\ list'[a].phase # "none"
<1> DEFINE l == Observed(a, e)
<1>0. /\ list \in [Lists -> ListType] /\ list[a].phase \in RoutingPhases
      /\ UNCHANGED <<subVars, folVars, folOpen, lstOpen, pstate, outcome, answered>>
      /\ marked \subseteq marked' /\ (IsTerminalMark(a, e) => a \in marked')
  BY DEF RouteListEvent, pendVars, BranchInductive, SlotInductive, SlotTypeOK, ListPart
<1>1. /\ l \in ListType /\ l.phase = list[a].phase /\ l.reason = list[a].reason
      /\ l.adopted = list[a].adopted /\ l.q = list[a].q
      /\ l.items = list[a].items /\ l.completion = list[a].completion
  BY <1>0, ObservedFields
<1> DEFINE Moved(k, wake) ==
              /\ ListStep(a, k, wake)
              /\ \/ k = l /\ wake = {}
                 \/ \E why \in EndReasons : k = EndedList(l, why) /\ wake = {a}
                 \/ /\ l.phase = "buffering" /\ wake = {}
                    /\ k = [l EXCEPT !.phase = "bufferedCancelled"]
                 \/ /\ \/ l.phase = "buffering" /\ wake = {} /\ k.phase = "bufferedComplete"
                       \/ l.phase = "streaming" /\ wake = {a} /\ k.phase = "draining"
                    /\ Completes(a, e)
                    /\ CountReason(a, l, e) = "None"
                    /\ k = [l EXCEPT !.phase = k.phase,
                                     !.completion = [size |-> e.size, count |-> e.count]]
                 \/ /\ l.phase \in {"buffering", "streaming"} /\ wake = {a}
                    /\ k = [l EXCEPT !.q = Append(@, Queued(e)), !.items = @ + 1]
<1>2. \E k, wake : Moved(k, wake)
  <2>1. ASSUME NEW why \in EndReasons, ListStep(a, EndedList(l, why), {a})
        PROVE  \E k, wake : Moved(k, wake)
    <3> HIDE DEF l
    <3> QED BY <2>1
  <2>2. CASE ListStep(a, l, {})
    <3> HIDE DEF l
    <3> QED BY <2>2
  <2>3. CASE ListStep(a, [l EXCEPT !.phase = "bufferedCancelled"], {}) /\ l.phase = "buffering"
    <3> HIDE DEF l
    <3> QED BY <2>3
  <2>4. ASSUME NEW wake, NEW phase,
               \/ l.phase = "buffering" /\ wake = {} /\ phase = "bufferedComplete"
               \/ l.phase = "streaming" /\ wake = {a} /\ phase = "draining",
               ListStep(a, [l EXCEPT !.phase = phase,
                                     !.completion = [size |-> e.size, count |-> e.count]], wake),
               Completes(a, e), CountReason(a, l, e) = "None"
        PROVE  \E k, w : Moved(k, w)
    <3> DEFINE k == [l EXCEPT !.phase = phase,
                              !.completion = [size |-> e.size, count |-> e.count]]
    <3>1. k.phase = phase
      BY <1>1 DEF ListType
    <3>2. Moved(k, wake)
      <4> HIDE DEF l
      <4> QED BY <2>4, <3>1
    <3> HIDE DEF Moved
    <3> QED BY <3>2
  <2>5. CASE /\ ListStep(a, [l EXCEPT !.q = Append(@, Queued(e)), !.items = @ + 1], {a})
             /\ l.phase \in {"buffering", "streaming"}
    <3> HIDE DEF l
    <3> QED BY <2>5
  <2> QED
    <3>1. "Overflow" \in EndReasons /\ "Cancelled" \in EndReasons
      BY DEF EndReasons
    <3>2. CountReason(a, l, e) # "None" => CountReason(a, l, e) \in EndReasons
      <4>1. e.count \in Nat \cup {CountAbsent, CountMalformed}
        BY InputsAssumption DEF ListEvent
      <4> HIDE DEF l
      <4> QED BY <4>1 DEF CountReason, EndReasons
    <3> HIDE DEF l, Moved
    <3>3. RouteListEvent(a, e)
      OBVIOUS
    <3> QED BY <2>1, <2>2, <2>3, <2>4, <2>5, <3>1, <3>2, <3>3 DEF RouteListEvent, l
<1>3. PICK k, wake : Moved(k, wake)
  BY <1>2
<1> HIDE DEF l
<1>4. /\ list' = [list EXCEPT ![a] = k] /\ list'[a] = k /\ parked' = parked \ wake
  BY <1>0, <1>3 DEF ListStep, SetList, Wake
<1>5. parked' \subseteq Branches /\ \A b : MayWait(b)
  BY <1>4, WakeOnly DEF Wake
<1>6. ListMoves(a) /\ k.phase # "none"
  <2>1. a \in parked => list[a].phase = "streaming"
    BY <1>0, ParkedKinds DEF BranchInductive, RoutingPhases
  <2>2. CASE k = l
    <3>1. SameProgress(a) /\ ListKept(a)
      BY <1>0, <1>1, <1>4, <2>2 DEF SameProgress, ListKept
    <3>2. k.phase # "none"
      BY <1>0, <1>1, <2>2 DEF RoutingPhases
    <3> QED BY <1>5, <3>1, <3>2 DEF ListMoves, ListStays
  <2>3. CASE \E why \in EndReasons : k = EndedList(l, why) /\ wake = {a}
    <3>1. PICK why \in EndReasons : k = EndedList(l, why) /\ wake = {a}
      BY <2>3
    <3>2. /\ k.phase = "dead" /\ k.reason = why /\ k.q = <<>> /\ k.completion = NoMessage
          /\ k.adopted = list[a].adopted
      BY <1>1, <3>1, EndedListFields DEF EndReasons, Reasons
    <3> QED BY <1>0, <1>4, <3>1, <3>2 DEF ListMoves, ListEnds, ListKept
  <2>4. CASE l.phase = "buffering" /\ wake = {} /\ k = [l EXCEPT !.phase = "bufferedCancelled"]
    <3>1. /\ k.phase = "bufferedCancelled" /\ k.reason = list[a].reason /\ k.q = list[a].q
          /\ k.completion = list[a].completion /\ k.adopted = list[a].adopted
      BY <1>1, <2>4 DEF ListType
    <3>2. a \notin parked'
      BY <1>1, <1>4, <2>1, <2>4
    <3> QED BY <1>0, <1>1, <1>4, <2>4, <3>1, <3>2 DEF ListMoves, ListCancelsEarly, ListKept
  <2>5. CASE /\ \/ l.phase = "buffering" /\ wake = {} /\ k.phase = "bufferedComplete"
                \/ l.phase = "streaming" /\ wake = {a} /\ k.phase = "draining"
             /\ Completes(a, e)
             /\ CountReason(a, l, e) = "None"
             /\ k = [l EXCEPT !.phase = k.phase,
                              !.completion = [size |-> e.size, count |-> e.count]]
    <3>1. /\ k.completion = [size |-> e.size, count |-> e.count]
          /\ k.reason = list[a].reason /\ k.q = list[a].q /\ k.items = l.items
          /\ k.adopted = list[a].adopted
      BY <1>1, <2>5 DEF ListType
    <3>2. k.completion.size # 0 /\ k.completion.count = e.count
      BY <3>1, InputsAssumption DEF ListEvent
    <3>3. k.completion # NoMessage
      BY <3>2 DEF NoMessage
    <3>4. a \in CountedLists => k.completion.count \in {CountAbsent, k.items}
      <4>1. e.count \in Nat \cup {CountAbsent, CountMalformed}
        BY InputsAssumption DEF ListEvent
      <4>2. a \in CountedLists => e.count \in {CountAbsent, l.items}
        BY <2>5, <4>1 DEF CountReason
      <4> QED BY <3>1, <3>2, <4>2
    <3>5. a \in marked' /\ a \notin parked'
      <4>1. IsTerminalMark(a, e)
        BY <2>5 DEF IsTerminalMark
      <4> QED BY <1>0, <1>1, <1>4, <2>1, <2>5, <4>1
    <3>6. ListKept(a)
      BY <1>0, <1>4, <3>1 DEF ListKept
    <3> QED BY <1>1, <1>4, <2>5, <3>1, <3>3, <3>4, <3>5, <3>6 DEF ListMoves, ListCompletes
  <2>6. CASE /\ l.phase \in {"buffering", "streaming"} /\ wake = {a}
             /\ k = [l EXCEPT !.q = Append(@, Queued(e)), !.items = @ + 1]
    <3>1. /\ k.phase = list[a].phase /\ k.reason = list[a].reason
          /\ k.completion = list[a].completion /\ k.q = Append(list[a].q, Queued(e))
          /\ k.adopted = list[a].adopted
      BY <1>1, <2>6 DEF ListType
    <3>2. Queued(e) \in From(a)
      BY Kinds DEF Queued, From, Message, ListEvent
    <3>3. ListKept(a) /\ a \notin parked'
      BY <1>0, <1>4, <2>6, <3>1 DEF ListKept
    <3> QED BY <1>1, <1>4, <2>6, <3>1, <3>2, <3>3 DEF ListMoves, ListReceives
  <2> QED BY <1>3, <2>2, <2>3, <2>4, <2>5, <2>6
<1>7. SubsMove
  BY <1>0, <1>5, SubsStay
<1>8. FollowsMove
  BY <1>0, <1>5, FollowsStay
<1>9. ListsMove
  BY <1>0, <1>4, <1>5, <1>6, OneList
<1>10. HistoryMoves
  BY <1>0, <1>5, HistoryStays
<1> QED BY <1>4, <1>6, <1>7, <1>8, <1>9, <1>10 DEF BranchesMove

\* What an ordinary event queues is no list traffic.
LEMMA OrdinaryMessage ==
    ASSUME NEW e \in PlainEvent, Ordinary(e)
    PROVE  Queued(e) \in Unlisted /\ Queued(e) \in Message /\ Queued(e).src = e.id
           /\ (e.id \in Own => ~Live(e.id))
  BY DEF PlainEvent, Ordinary, Queued, Unlisted, Message

LEMMA RouteOrdinaryEventMoves ==
    ASSUME BranchInductive, NEW e \in PlainEvent, RouteOrdinaryEvent(e)
    PROVE  BranchesMove
<1>0. /\ UNCHANGED <<folVars, folOpen, list, lstOpen, pstate, outcome, answered, marked>>
      /\ Ordinary(e) /\ Fanout(e, subBytes) /\ parked' = parked \ Matched(e)
  BY DEF RouteOrdinaryEvent, pendVars, listVars, history, Wake
<1>1. parked' \subseteq Branches /\ \A b : MayWait(b)
  BY <1>0, WakeOnly DEF Wake
<1>2. SubsMove
  BY <1>0, <1>1, OrdinaryMessage, FanoutMoves
<1>3. FollowsMove
  BY <1>0, <1>1, FollowsStay
<1>4. ListsMove
  BY <1>0, <1>1, ListsStay
<1>5. HistoryMoves
  BY <1>0, <1>1, HistoryStays
<1> QED BY <1>2, <1>3, <1>4, <1>5 DEF BranchesMove

LEMMA RouteFollowEventMoves ==
    ASSUME BranchInductive, NEW e \in PlainEvent, NEW f \in Follows, RouteFollowEvent(f, e)
    PROVE  BranchesMove
<1> DEFINE fits == Fits(fol[f].q, FollowCaps, e.size, subBytes)
           last == e.name \in FollowCompletions[f]
           got == [fol[f] EXCEPT !.q = Append(@, Queued(e))]
           r == IF fits /\ last THEN [got EXCEPT !.phase = "draining"]
                ELSE IF fits THEN got ELSE Ended(fol[f], "Lagged")
           b == IF fits THEN subBytes + e.size ELSE subBytes - Bytes(fol[f].q)
<1>0. /\ UNCHANGED <<folOpen, list, lstOpen, pstate, outcome, answered, marked>>
      /\ Ordinary(e) /\ e.id = f /\ f \in folByAction
      /\ parked' = parked \ ({f} \cup Matched(e))
  BY DEF RouteFollowEvent, Followed, pendVars, listVars, history, Wake
<1>1. /\ fol' = [fol EXCEPT ![f] = r] /\ Fanout(e, b)
      /\ folByAction' = IF fits /\ ~last THEN folByAction ELSE folByAction \ {f}
  BY DEF RouteFollowEvent
<1>2. parked' \subseteq Branches /\ \A x : MayWait(x)
  BY <1>0, WakeOnly DEF Wake
<1>3. SubsMove
  <2> HIDE DEF b
  <2> QED BY <1>0, <1>1, <1>2, OrdinaryMessage, FanoutMoves
<1>4. FollowsMove
  <2> HIDE DEF fits, last, b
  <2>0. /\ fol \in [Follows -> FollowType] /\ folByAction \subseteq Follows
        /\ fol[f] \in FollowType /\ f \notin parked'
    BY <1>0 DEF BranchInductive, BranchTypeOK
  <2>1. Queued(e) \in From(f)
    BY <1>0, OrdinaryMessage DEF From
  <2>2. fol'[f] = r
    BY <1>1, <2>0
  <2>3. FollowMoves(f)
    <3>1. CASE fits /\ ~last
      <4>1. fol'[f] = [fol[f] EXCEPT !.q = Append(@, Queued(e))]
        BY <2>2, <3>1
      <4> QED BY <1>0, <1>1, <2>0, <2>1, <3>1, <4>1
              DEF FollowMoves, FollowReceives, FollowKept
    <3>2. CASE fits /\ last
      <4>1. fol'[f] = [fol[f] EXCEPT !.q = Append(@, Queued(e)), !.phase = "draining"]
        BY <2>2, <3>2
      <4>2. f \notin folByAction'
        BY <1>1, <3>2
      <4> QED BY <1>0, <2>0, <2>1, <4>1, <4>2 DEF FollowMoves, FollowReceivesLast
    <3>3. CASE ~fits
      <4>1. fol'[f] = Ended(fol[f], "Lagged")
        BY <2>2, <3>3
      <4>2. f \notin folByAction'
        BY <1>1, <3>3
      <4> QED BY <1>0, <2>0, <4>1, <4>2 DEF FollowMoves, FollowEnds
    <3> QED BY <3>1, <3>2, <3>3
  <2>4. folByAction' \subseteq Follows /\ \A x \in Follows \ {f} : FollowKept(x)
    BY <1>0, <1>1, <2>0 DEF FollowKept
  <2> HIDE DEF r
  <2> QED BY <1>1, <1>2, <2>3, <2>4, OneFollow
<1>5. ListsMove
  BY <1>0, <1>2, ListsStay
<1>6. HistoryMoves
  BY <1>0, <1>2, HistoryStays
<1> QED BY <1>3, <1>4, <1>5, <1>6 DEF BranchesMove

LEMMA SubscribeMoves ==
    ASSUME BranchInductive, NEW s \in Subs, Subscribe(s)
    PROVE  BranchesMove
<1>0. /\ sub' = [sub EXCEPT ![s] = NewSub] /\ subOrder' = Append(subOrder, s)
      /\ sub[s].phase = "none" /\ Len(subOrder) < MaxSubscriptions
      /\ UNCHANGED <<folVars, folOpen, list, lstOpen, pstate, outcome, answered, marked, parked>>
  BY DEF Subscribe, pendVars, listVars, history
<1>1. parked' \subseteq Branches /\ \A b : MayWait(b)
  BY <1>0, WakeOnly
<1>2. subOrder \in Seq(Subs) /\ s \notin ToSet(subOrder) /\ s \notin parked
      /\ sub \in [Subs -> SubType]
  BY <1>0, ParkedKinds DEF BranchInductive, BranchTypeOK, SubPart
<1>3. /\ subOrder' \in Seq(Subs) /\ ToSet(subOrder') = ToSet(subOrder) \cup {s}
      /\ Len(subOrder') = Len(subOrder) + 1
      /\ IsInjective(subOrder) => IsInjective(subOrder')
  BY <1>0, <1>2, AppendSet, AppendDistinct
<1>4. SubOpens(s)
  BY <1>0, <1>2, <1>3 DEF SubOpens
<1>5. Len(subOrder') <= MaxSubscriptions
  <2>1. \A n, m \in Nat : n < m => n + 1 <= m
    OBVIOUS
  <2>2. Len(subOrder) \in Nat /\ MaxSubscriptions \in Nat
    BY <1>2, LimitsAssumption
  <2> QED BY <1>0, <1>3, <2>1, <2>2
<1>6. SubsMove
  BY <1>0, <1>1, <1>3, <1>4, <1>5, OneSub DEF SubMoves
<1>7. FollowsMove
  BY <1>0, <1>1, FollowsStay
<1>8. ListsMove
  BY <1>0, <1>1, ListsStay
<1>9. HistoryMoves
  BY <1>0, <1>1, HistoryStays
<1> QED BY <1>6, <1>7, <1>8, <1>9 DEF BranchesMove

LEMMA CloseSubMoves ==
    ASSUME BranchInductive, NEW s \in Subs, CloseSub(s)
    PROVE  BranchesMove
<1>0. /\ sub' = [sub EXCEPT ![s] = NoSub] /\ subOrder' = Without(subOrder, {s})
      /\ sub[s].phase # "none" /\ parked' = parked \ {s}
      /\ UNCHANGED <<folVars, folOpen, list, lstOpen, pstate, outcome, answered, marked>>
  BY DEF CloseSub, pendVars, listVars, history, Wake
<1>1. parked' \subseteq Branches /\ \A b : MayWait(b)
  BY <1>0, WakeOnly DEF Wake
<1>2. subOrder \in Seq(Subs) /\ sub \in [Subs -> SubType]
  BY DEF BranchInductive, BranchTypeOK
<1>3. /\ subOrder' \in Seq(Subs) /\ ToSet(subOrder') = ToSet(subOrder) \ {s}
      /\ Len(subOrder') <= Len(subOrder)
      /\ IsInjective(subOrder) => IsInjective(subOrder')
  BY <1>0, <1>2, WithoutEffect
<1>4. SubCloses(s)
  BY <1>0, <1>2, <1>3 DEF SubCloses
<1>5. Len(subOrder) <= MaxSubscriptions => Len(subOrder') <= MaxSubscriptions
  <2>1. Len(subOrder) \in Nat /\ Len(subOrder') \in Nat /\ MaxSubscriptions \in Nat
    BY <1>2, <1>3, LimitsAssumption
  <2>2. \A m, n, k \in Nat : m <= n /\ n <= k => m <= k
    OBVIOUS
  <2> QED BY <1>3, <2>1, <2>2
<1>6. SubsMove
  BY <1>0, <1>1, <1>3, <1>4, <1>5, OneSub DEF SubMoves
<1>7. FollowsMove
  BY <1>0, <1>1, FollowsStay
<1>8. ListsMove
  BY <1>0, <1>1, ListsStay
<1>9. HistoryMoves
  BY <1>0, <1>1, HistoryStays
<1> QED BY <1>6, <1>7, <1>8, <1>9 DEF BranchesMove

LEMMA CloseFollowBranchMoves ==
    ASSUME BranchInductive, NEW f \in Follows, CloseFollowBranch(f)
    PROVE  BranchesMove
<1>0. /\ fol' = [fol EXCEPT ![f] = NoFollow] /\ folByAction' = folByAction \ {f}
      /\ fol[f].adopted /\ parked' = parked \ {f}
      /\ UNCHANGED <<subVars, folOpen, list, lstOpen, pstate, outcome, answered, marked>>
  BY DEF CloseFollowBranch, pendVars, listVars, history, Wake
<1>1. parked' \subseteq Branches /\ \A b : MayWait(b)
  BY <1>0, WakeOnly DEF Wake
<1>2. /\ fol \in [Follows -> FollowType] /\ folByAction \subseteq Follows
      /\ f \notin folOpen
  BY <1>0 DEF BranchInductive, BranchTypeOK, FollowPart
<1>3. FollowGone(f)
  BY <1>0, <1>2 DEF FollowGone
<1>4. folByAction' \subseteq Follows /\ \A x \in Follows \ {f} : FollowKept(x)
  BY <1>0, <1>2 DEF FollowKept
<1>5. FollowsMove
  BY <1>0, <1>1, <1>3, <1>4, OneFollow DEF FollowMoves
<1>6. SubsMove
  BY <1>0, <1>1, SubsStay
<1>7. ListsMove
  BY <1>0, <1>1, ListsStay
<1>8. HistoryMoves
  BY <1>0, <1>1, HistoryStays
<1> QED BY <1>5, <1>6, <1>7, <1>8 DEF BranchesMove

LEMMA CloseListBranchMoves ==
    ASSUME BranchInductive, NEW l \in Lists, CloseListBranch(l)
    PROVE  BranchesMove
<1>0. /\ list' = [list EXCEPT ![l] = NoList] /\ list[l].adopted /\ parked' = parked \ {l}
      /\ UNCHANGED <<subVars, folVars, folOpen, lstOpen, pstate, outcome, answered, marked>>
  BY DEF CloseListBranch, SetList, pendVars, history, Wake
<1>1. parked' \subseteq Branches /\ \A b : MayWait(b)
  BY <1>0, WakeOnly DEF Wake
<1>2. list \in [Lists -> ListType] /\ l \notin lstOpen
  BY <1>0 DEF BranchInductive, SlotInductive, SlotTypeOK, HeldListPart
<1>3. ListGone(l)
  BY <1>0, <1>2 DEF ListGone
<1>4. ListsMove
  BY <1>0, <1>1, <1>3, OneList DEF ListMoves
<1>5. SubsMove
  BY <1>0, <1>1, SubsStay
<1>6. FollowsMove
  BY <1>0, <1>1, FollowsStay
<1>7. HistoryMoves
  BY <1>0, <1>1, HistoryStays
<1> QED BY <1>4, <1>5, <1>6, <1>7 DEF BranchesMove

LEMMA TakeItemMoves ==
    ASSUME BranchInductive, NEW b \in Branches, TakeItem(b)
    PROVE  BranchesMove
<1>0. /\ Open(b) /\ b \notin parked /\ Phase(b) # "dead" /\ Queue(b) # <<>>
      /\ UNCHANGED <<subOrder, folByAction, folOpen, lstOpen, pstate, outcome,
                     answered, marked, parked>>
  BY DEF TakeItem, pendVars, history
<1>1. parked' \subseteq Branches /\ \A x : MayWait(x)
  BY <1>0, WakeOnly
<1>2. /\ sub \in [Subs -> SubType] /\ subOrder \in Seq(Subs)
      /\ fol \in [Follows -> FollowType] /\ folByAction \subseteq Follows
      /\ list \in [Lists -> ListType]
  BY DEF BranchInductive, BranchTypeOK, SlotInductive, SlotTypeOK
<1>3. SubsMove
  <2>1. CASE b \notin Subs
    <3>1. UNCHANGED subVars
      BY <1>0, <2>1 DEF TakeItem, subVars
    <3> QED BY <1>1, <3>1, SubsStay
  <2>2. CASE b \in Subs
    <3>1. sub' = [sub EXCEPT ![b] = [sub[b] EXCEPT !.q = Tail(@)]]
      BY <1>2, <2>2 DEF TakeItem
    <3>2. sub[b].phase \notin {"none", "dead"} /\ sub[b].q # <<>>
      BY <1>0, <2>2, Kinds DEF Open, Phase, Queue
    <3>3. SubTakes(b)
      BY <1>0, <1>2, <2>2, <3>1, <3>2 DEF SubTakes
    <3> QED BY <1>0, <1>1, <1>2, <2>2, <3>1, <3>3, OneSub DEF SubMoves
  <2> QED BY <2>1, <2>2
<1>4. FollowsMove
  <2>1. CASE b \notin Follows
    <3>1. UNCHANGED <<folVars, folOpen>>
      BY <1>0, <2>1 DEF TakeItem, folVars
    <3> QED BY <1>1, <3>1, FollowsStay
  <2>2. CASE b \in Follows
    <3>1. fol' = [fol EXCEPT ![b] = [fol[b] EXCEPT !.q = Tail(@)]]
      BY <1>2, <2>2 DEF TakeItem
    <3>2. fol[b].adopted /\ fol[b].phase # "dead" /\ fol[b].q # <<>>
      BY <1>0, <2>2, Kinds DEF Open, Phase, Queue
    <3>3. FollowTakes(b)
      BY <1>0, <1>2, <2>2, <3>1, <3>2 DEF FollowTakes, FollowKept
    <3>4. \A x \in Follows \ {b} : FollowKept(x)
      BY <1>0 DEF FollowKept
    <3> QED BY <1>0, <1>1, <1>2, <2>2, <3>1, <3>3, <3>4, OneFollow DEF FollowMoves
  <2> QED BY <2>1, <2>2
<1>5. ListsMove
  <2>1. CASE b \notin Lists
    <3>1. UNCHANGED list
      BY <2>1 DEF TakeItem
    <3> QED BY <1>0, <1>1, <3>1, ListsStay
  <2>2. CASE b \in Lists
    <3>1. list' = [list EXCEPT ![b] = [list[b] EXCEPT !.q = Tail(@)]]
      BY <1>2, <2>2 DEF TakeItem
    <3>2. list[b].adopted /\ list[b].phase # "dead" /\ list[b].q # <<>>
      BY <1>0, <2>2, Kinds DEF Open, Phase, Queue
    <3>3. ListTakes(b)
      BY <1>0, <1>2, <2>2, <3>1, <3>2 DEF ListTakes, ListKept, ListType
    <3> QED BY <1>0, <1>1, <2>2, <3>1, <3>3, OneList DEF ListMoves
  <2> QED BY <2>1, <2>2
<1>6. HistoryMoves
  BY <1>0, <1>1, HistoryStays
<1> QED BY <1>3, <1>4, <1>5, <1>6 DEF BranchesMove

LEMMA TakeEmptyMoves ==
    ASSUME BranchInductive, NEW b \in Branches, TakeEmpty(b)
    PROVE  BranchesMove
<1>0. /\ Open(b) /\ Phase(b) \in {"active", "streaming"} /\ Queue(b) = <<>>
      /\ parked' = parked \cup {b}
      /\ UNCHANGED <<subVars, folVars, folOpen, list, lstOpen, pstate, outcome,
                     answered, marked>>
  BY DEF TakeEmpty, pendVars, listVars, history
<1>1. parked' \subseteq Branches /\ \A x : MayWait(x)
  BY <1>0 DEF MayWait, BranchInductive, BranchTypeOK
<1>2. SubsMove
  BY <1>0, <1>1, SubsStay
<1>3. FollowsMove
  BY <1>0, <1>1, FollowsStay
<1>4. ListsMove
  BY <1>0, <1>1, ListsStay
<1>5. HistoryMoves
  BY <1>0, <1>1, HistoryStays
<1> QED BY <1>2, <1>3, <1>4, <1>5 DEF BranchesMove

\* Every step of the machine moves the branches so.
LEMMA MovesNext == BranchInductive /\ [Next]_vars => BranchesMove
<1> SUFFICES ASSUME BranchInductive, [Next]_vars PROVE BranchesMove
  OBVIOUS
<1> USE DEF lifeVars, pendVars, listVars, history
<1>1. CASE RouteResponse
  <2>1. ASSUME NEW reason \in FatalReasons, RouteFatal(reason) PROVE BranchesMove
    BY <2>1, DieMoves DEF RouteFatal
  <2>2. ASSUME NEW a \in Own, RouteUnmatched(a) PROVE BranchesMove
    BY <2>2, DieMoves DEF RouteUnmatched
  <2>3. ASSUME NEW a \in Own, NEW success \in BOOLEAN, RouteRecordResponse(a, success)
        PROVE BranchesMove
    BY <2>3, QuietMoves DEF RouteRecordResponse, Answer
  <2> QED BY <1>1, <2>1, <2>2, <2>3, RoutePendingResponseMoves DEF RouteResponse
<1>2. CASE RouteEvent
  <2>1. ASSUME NEW a \in Lists, NEW e \in ListEvent(a), RouteListDrain(a, e) PROVE BranchesMove
    BY <2>1, QuietMoves DEF RouteListDrain
  <2>2. ASSUME NEW a \in Lists, RouteListLate(a) PROVE BranchesMove
    BY <2>2, QuietMoves DEF RouteListLate
  <2>3. ASSUME NEW a \in RequestKind, RouteQuarantined(a) PROVE BranchesMove
    BY <2>3, QuietMoves DEF RouteQuarantined
  <2> QED BY <1>2, <2>1, <2>2, <2>3, RouteListEventMoves, RouteOrdinaryEventMoves,
             RouteFollowEventMoves DEF RouteEvent
<1>3. CASE PendingStep
  BY <1>3, AdmitMoves, CommitWriteMoves, AbortNotSentMoves, AbandonMoves, AdoptFollowMoves,
     CloseFollowMoves, AdoptListMoves, CloseListMoves DEF PendingStep
<1>4. CASE ConsumerStep
  BY <1>4, SubscribeMoves, CloseSubMoves, CloseFollowBranchMoves, CloseListBranchMoves,
     TakeItemMoves, TakeEmptyMoves DEF ConsumerStep, Close
<1>5. ASSUME NEW reason \in KillReasons, Kill(reason) PROVE BranchesMove
  BY <1>5, DieMoves DEF Kill
<1>6. CASE Expire
  BY <1>6, DieMoves, QuietMoves DEF Expire
<1>7. CASE Tick
  BY <1>7, QuietMoves DEF Tick
<1>8. CASE UNCHANGED vars
  BY <1>8, QuietMoves DEF vars
<1> QED BY <1>1, <1>2, <1>3, <1>4, <1>5, <1>6, <1>7, <1>8 DEF Next

----------------------------------------------------------------------------
(* The theorems                                                            *)

\* Nobody has asked for a branch yet.
LEMMA BranchInit == Init => BranchInductive
<1> SUFFICES ASSUME Init PROVE BranchInductive
  OBVIOUS
<1>0. SlotInductive
  BY SlotInit
<1> USE DEF Init
<1>1. <<>> \in Seq(Subs) /\ ToSet(<<>>) = {} /\ \A S : <<>> \in Seq(S)
  BY DEF ToSet
<1>2. BranchTypeOK
  <2>1. sub \in [Subs -> SubType] /\ fol \in [Follows -> FollowType]
    BY BranchConstants
  <2> QED BY <1>1, <2>1 DEF BranchTypeOK
<1>3. \A s \in Subs : SubPart(s)
  BY <1>1, BranchConstants DEF SubPart, PhasePart
<1>4. \A f \in Follows : FollowPart(f)
  BY <1>1, BranchConstants DEF FollowPart, PhasePart
<1>5. \A l \in Lists : HeldListPart(l)
  <2>1. /\ NoList.phase = "none" /\ NoList.reason = "None" /\ NoList.q = <<>>
        /\ ~NoList.adopted /\ NoList.completion = NoMessage
    BY DEF NoList
  <2> QED BY <1>1, <2>1, Kinds DEF HeldListPart, PhasePart, RoutingPhases
<1> QED BY <1>0, <1>2, <1>3, <1>4, <1>5 DEF BranchInductive

LEMMA BranchNext == BranchInductive /\ [Next]_vars => BranchInductive'
<1> SUFFICES ASSUME BranchInductive, [Next]_vars PROVE BranchInductive'
  OBVIOUS
<1>1. SlotInductive'
  BY SlotNext DEF BranchInductive
<1>2. BranchesMove
  BY MovesNext
<1> QED BY <1>1, <1>2, MovesKeep

\* In every reachable state, queues hold what was meant for them, ended
\* branches are empty, and consumers wait only where nothing is to be had.
THEOREM BranchInvariant == Spec => []BranchInductive
  BY BranchInit, BranchNext, PTL DEF Spec

\* No event reaches the consumer of another action, and no subscription sees
\* list traffic, whatever the order of the events (routeEvent, fanout).
THEOREM EventsReachTheirBranch == Spec => []Correlation
<1>1. BranchInductive => Correlation
  <2> SUFFICES ASSUME BranchInductive PROVE Correlation
    OBVIOUS
  <2>1. ASSUME NEW s \in Subs, NEW m \in ToSet(sub[s].q) PROVE m.src \notin Lists
    <3>1. sub[s].q \in Seq(Unlisted)
      BY DEF BranchInductive, BranchTypeOK, SubType
    <3> QED BY <2>1, <3>1 DEF ToSet, Unlisted
  <2>2. ASSUME NEW f \in Follows, NEW m \in ToSet(fol[f].q) PROVE m.src = f
    <3>1. fol[f].q \in Seq(From(f))
      BY DEF BranchInductive, FollowPart
    <3> QED BY <2>2, <3>1 DEF ToSet, From
  <2>3. ASSUME NEW l \in Lists, NEW m \in ToSet(list[l].q) PROVE m.src = l
    <3>1. list[l].q \in Seq(From(l))
      BY DEF BranchInductive, HeldListPart
    <3> QED BY <2>3, <3>1 DEF ToSet, From
  <2> QED BY <2>1, <2>2, <2>3 DEF Correlation
<1> QED BY <1>1, BranchInvariant, PTL

\* A list never ends cleanly on a completion event that it did not receive, or
\* whose declared count is not the number of items (completionEvent).
THEOREM CleanListsAreComplete == Spec => []CompletionHonest
<1>1. BranchInductive => CompletionHonest
  BY DEF BranchInductive, HeldListPart, CompletionHonest
<1> QED BY <1>1, BranchInvariant, PTL

\* No consumer sleeps through an item or an end: what a machine call commits
\* for a branch is in the wake set of that call (effects.go).
THEOREM NoWakeupIsLost == Spec => []NoLostWakeup
<1>1. BranchInductive => NoLostWakeup
  BY DEF BranchInductive, ParkedPart, NoLostWakeup
<1> QED BY <1>1, BranchInvariant, PTL

\* What a subscription receives is never of a quarantined action: the record
\* of an abandoned request absorbs its late events (routeOrdinaryEvent).
THEOREM QuarantineIsKept == Spec => QuarantineHolds
<1>1. BranchInductive /\ [Next]_vars =>
        [\A s \in Subs :
            Len(sub'[s].q) > Len(sub[s].q) =>
                LET m == Last(sub'[s].q) IN m.src \in Own => ~Live(m.src)]_vars
  <2> SUFFICES ASSUME BranchInductive, [Next]_vars, NEW s \in Subs,
                      Len(sub'[s].q) > Len(sub[s].q)
               PROVE  Last(sub'[s].q).src \in Own => ~Live(Last(sub'[s].q).src)
    OBVIOUS
  <2>1. SubMoves(s)
    BY MovesNext DEF BranchesMove, SubsMove
  <2>2. sub[s].q \in Seq(Unlisted) /\ sub[s] \in SubType
    BY DEF BranchInductive, BranchTypeOK, SubType
  <2> DEFINE q == sub[s].q
             r == sub'[s].q
  <2>3. Len(q) \in Nat /\ Len(<<>>) = 0 /\ Len(r) > Len(q)
    BY <2>2
  <2>4. r # q /\ r # <<>>
    <3> HIDE DEF q, r
    <3>1. \A n \in Nat : ~(n > n) /\ ~(0 > n)
      OBVIOUS
    <3> QED BY <2>3, <3>1
  <2>5. ~SubTakes(s)
    <3> SUFFICES ASSUME SubTakes(s) PROVE FALSE
      OBVIOUS
    <3>1. r = Tail(q) /\ q # <<>>
      BY <2>2 DEF SubTakes, SubType
    <3>2. Len(Tail(q)) = Len(q) - 1
      <4>1. q \in Seq(Unlisted)
        BY <2>2
      <4> HIDE DEF q
      <4> QED BY <3>1, <4>1
    <3>3. \A n \in Nat : ~(n - 1 > n)
      OBVIOUS
    <3> HIDE DEF q, r
    <3> QED BY <2>3, <3>1, <3>2, <3>3
  <2>6. ~SubOpens(s) /\ ~SubCloses(s) /\ ~SubStays(s) /\ ~SubEnds(s)
    <3>1. ~SubOpens(s) /\ ~SubCloses(s) /\ ~SubStays(s)
      BY <2>4, BranchConstants DEF SubOpens, SubCloses, SubStays
    <3>2. ~SubEnds(s)
      BY <2>2, <2>4, EndedSubType DEF SubEnds, Reasons
    <3> QED BY <3>1, <3>2
  <2>7. PICK m \in Unlisted : /\ m.src \in Own => ~Live(m.src)
                              /\ sub'[s] = [sub[s] EXCEPT !.q = Append(@, m)]
    BY <2>1, <2>5, <2>6 DEF SubMoves, SubReceives
  <2>8. r = Append(q, m)
    BY <2>2, <2>7 DEF SubType
  <2>9. Last(Append(q, m)) = m
    <3>1. q \in Seq(Unlisted)
      BY <2>2
    <3> HIDE DEF q
    <3> QED BY <3>1 DEF Last
  <2> QED BY <2>7, <2>8, <2>9
<1> QED BY <1>1, BranchInvariant, PTL DEF Spec, QuarantineHolds

\* The machine implements module Branch for all branches at once: the queue of
\* a holder only grows at its tail and shrinks at its head until it ends, once
\* (branch.go).
THEOREM BranchesAreHeld == Spec => BranchSpec
<1>1. Init => \A b \in Branches : Held(b)!NoBranch
  <2> SUFFICES ASSUME Init, NEW b \in Branches PROVE Held(b)!NoBranch
    OBVIOUS
  <2>1. ~Open(b)
    BY BranchConstants, ListConstants, Kinds DEF Init, Open
  <2> QED BY <2>1 DEF Held!NoBranch, BranchPhase, BranchReason
<1>2. BranchInductive /\ BranchInductive' /\ [Next]_vars =>
         \A b \in Branches : [Held(b)!Next]_(Held(b)!branch)
  BY MovesNext, MovesHeld
<1>3. BranchInductive /\ BranchInductive' /\ [Next]_vars =>
         [\A b \in Branches : [Held(b)!Next]_(Held(b)!branch)]_vars
  BY <1>2
<1> QED BY <1>1, <1>3, BranchInvariant, PTL DEF Spec, BranchSpec

\* Nothing is left of a record that waits for nothing.
LEMMA NoEvidence ==
    ASSUME NEW response, NEW mark
    PROVE  Evidence(NoRecord, response, mark) = NoRecord
  BY DEF Evidence, NoRecord

\* Close and Abandon read the clock before they date the record they create:
\* it lives for the full lifetime from the call (retire.go).
THEOREM RecordsLiveLong == Spec => FullLifetime
<1> DEFINE Full(a) ==
              ~Live(a) /\ Live(a)' /\ (\/ outcome'[a] = "abandoned"
                                       \/ a \in Lists /\ list'[a] = NoList) =>
                  rec'[a].deadline = time + RetirementLifetime
<1>1. BranchInductive /\ [Next]_vars => \A a \in Own : Full(a)
  <2> SUFFICES ASSUME BranchInductive, [Next]_vars, NEW a \in Own,
                      rec[a] = NoRecord, rec'[a] # NoRecord,
                      outcome'[a] = "abandoned" \/ (a \in Lists /\ list'[a] = NoList)
               PROVE  rec'[a].deadline = time + RetirementLifetime
    BY DEF Live
  <2>0. /\ rec \in [Own -> RecordType] /\ list \in [Lists -> ListType]
        /\ outcome \in [Own -> {"none", "success", "error", "dead", "aborted", "abandoned"}]
    BY DEF BranchInductive, SlotInductive, SlotTypeOK
  <2>1. ~UNCHANGED rec
    OBVIOUS
  <2>2. ASSUME NEW why, Die(why) PROVE FALSE
    BY <2>2 DEF Die
  <2>3. ASSUME NEW b \in Own, NEW success \in BOOLEAN, RouteRecordResponse(b, success)
        PROVE  FALSE
    BY <2>0, <2>3, NoEvidence DEF RouteRecordResponse
  <2>4. ASSUME NEW b \in Lists, NEW e \in ListEvent(b), RouteListDrain(b, e) PROVE FALSE
    BY <2>0, <2>4, NoEvidence DEF RouteListDrain
  <2>5. ASSUME NEW b \in Own, NEW success \in BOOLEAN, RoutePendingResponse(b, success)
        PROVE  FALSE
    <3>1. CASE b # a
      BY <2>0, <2>5, <3>1 DEF RoutePendingResponse
    <3>2. CASE b = a /\ a \notin Lists
      BY <2>0, <2>5, <3>2, NoEvidence DEF RoutePendingResponse
    <3>3. CASE b = a /\ a \in Lists
      <4> DEFINE l == Responded(list[a], success)
                 r == IF l.phase \in RoutingPhases THEN rec[a]
                      ELSE SlotRecord(a, TRUE, ~success \/ l.markSeen)
      <4>1. rec'[a] = Evidence(r, TRUE, ~success) /\ list' = [list EXCEPT ![a] = l]
            /\ outcome'[a] = IF success THEN "success" ELSE "error"
        BY <2>0, <2>5, <3>3 DEF RoutePendingResponse, SetList
      <4>2. CASE ~success
        <5>1. SlotRecord(a, TRUE, TRUE) = rec[a]
          BY DEF SlotRecord
        <5>2. r = NoRecord
          BY <4>2, <5>1
        <5> HIDE DEF r, l
        <5> QED BY <4>1, <5>2, NoEvidence
      <4>3. CASE success
        <5>1. list[a].phase \in EarlyPhases \cup {"dead"}
          <6>1. Waiting(a)
            BY <2>5, <3>3 DEF RoutePendingResponse, BranchInductive, SlotInductive, PendingPart
          <6> QED BY <3>3, <6>1 DEF BranchInductive, SlotInductive, ListPart
        <5>2. l.phase # "none"
          BY <2>0, <3>3, <4>3, <5>1, RespondedType
        <5>3. list'[a] = l
          BY <2>0, <3>3, <4>1
        <5> HIDE DEF r, l
        <5> QED BY <4>1, <4>3, <5>2, <5>3, ListConstants
      <4> QED BY <4>2, <4>3
    <3> QED BY <3>1, <3>2, <3>3
  <2>6. ASSUME NEW b \in Lists, NEW e \in ListEvent(b), RouteListEvent(b, e) PROVE FALSE
    <3>1. CASE b # a
      BY <2>0, <2>6, <3>1 DEF RouteListEvent, ListStep
    <3>2. CASE b = a
      <4>1. outcome'[a] = outcome[a] /\ list[a].phase \in RoutingPhases
        BY <2>6, <3>2 DEF RouteListEvent, pendVars, BranchInductive, SlotInductive, ListPart
      <4>2. outcome'[a] \notin GivenUp
        BY <3>2, <4>1 DEF BranchInductive, HeldListPart
      <4>3. list'[a] # NoList
        BY <2>6, <3>2, RouteListEventMoves, ListConstants
      <4> QED BY <4>2, <4>3 DEF GivenUp
    <3> QED BY <3>1, <3>2
  <2>7. ASSUME NEW d \in BOOLEAN, NEW m \in BOOLEAN, StampedNow,
               rec'[a] = NewRecord(d, m) \/ rec'[a] = rec[a]
        PROVE  rec'[a].deadline = time + RetirementLifetime
    BY <2>7 DEF NewRecord, StampedNow
  <2>8. ASSUME NEW seen \in BOOLEAN, NEW mark \in BOOLEAN, StampedNow,
               rec'[a] = SlotRecord(a, seen, mark) \/ rec'[a] = rec[a]
        PROVE  rec'[a].deadline = time + RetirementLifetime
    BY <2>7, <2>8 DEF SlotRecord
  <2>9. ASSUME NEW b \in Own, Abandon(b) PROVE rec'[a].deadline = time + RetirementLifetime
    <3>1. CASE a \in Lists
      <4>1. list[a].responseSeen \in BOOLEAN /\ list[a].markSeen \in BOOLEAN
        BY <2>0, <3>1 DEF ListType
      <4>2. rec'[a] = SlotRecord(a, list[a].responseSeen, list[a].markSeen)
            \/ rec'[a] = rec[a]
        BY <2>0, <2>9, <3>1 DEF Abandon
      <4> QED BY <2>8, <2>9, <4>1, <4>2 DEF Abandon
    <3>2. CASE a \notin Lists
      <4>1. rec'[a] = NewRecord(TRUE, FALSE) \/ rec'[a] = rec[a]
        BY <2>0, <2>9, <3>2 DEF Abandon
      <4> QED BY <2>7, <2>9, <4>1 DEF Abandon
    <3> QED BY <3>1, <3>2
  <2>10. ASSUME NEW b \in Lists, CloseListBranch(b)
         PROVE  rec'[a].deadline = time + RetirementLifetime
    <3>1. list[b].responseSeen \in BOOLEAN /\ list[b].markSeen \in BOOLEAN
      BY <2>0 DEF ListType
    <3>2. rec' = rec \/ rec' = [rec EXCEPT ![b] = SlotRecord(b, list[b].responseSeen,
                                                               list[b].markSeen)]
      BY <2>10 DEF CloseListBranch
    <3>3. rec'[a] = rec[a] \/ (b = a /\ rec'[a] = SlotRecord(a, list[b].responseSeen,
                                                               list[b].markSeen))
      BY <2>0, <3>2
    <3> QED BY <2>8, <2>10, <3>1, <3>3 DEF CloseListBranch
  <2>11. CASE RouteResponse
    BY <2>2, <2>3, <2>5, <2>11 DEF RouteResponse, RouteFatal, RouteUnmatched
  <2>12. CASE RouteEvent
    BY <2>1, <2>4, <2>6, <2>12 DEF RouteEvent, RouteListLate, RouteOrdinaryEvent,
       RouteFollowEvent, RouteQuarantined, recVars
  <2>13. CASE PendingStep
    BY <2>1, <2>9, <2>13 DEF PendingStep, Admit, CommitWrite, AbortNotSent, AdoptFollow,
       CloseFollow, AdoptList, CloseList, recVars
  <2>14. CASE ConsumerStep
    BY <2>1, <2>10, <2>14 DEF ConsumerStep, Close, Subscribe, CloseSub, CloseFollowBranch,
       TakeItem, TakeEmpty, recVars
  <2>15. CASE Expire \/ Tick \/ UNCHANGED vars \/ \E reason \in KillReasons : Kill(reason)
    BY <2>1, <2>2, <2>15 DEF Expire, Tick, Kill, vars, recVars
  <2> QED BY <2>11, <2>12, <2>13, <2>14, <2>15 DEF Next
<1>2. BranchInductive /\ [Next]_vars => [\A a \in Own : Full(a)]_vars
  BY <1>1
<1>3. Spec => [][\A a \in Own : Full(a)]_vars
  <2> HIDE DEF Full
  <2> QED BY <1>2, BranchInvariant, PTL DEF Spec
<1> QED BY <1>3 DEF FullLifetime
=============================================================================
