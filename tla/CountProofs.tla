---------------------------- MODULE CountProofs ----------------------------
(***************************************************************************)
(* Proofs about the counters and the byte aggregates of module Demux, and  *)
(* of the account of what is owed that its retirement discipline keeps     *)
(* (module Obligations).                                                   *)
(***************************************************************************)
EXTENDS DemuxProofs

----------------------------------------------------------------------------
(* What one step may do to the account and to the counters                 *)

\* The traffic of x stays as it is.
SameTraffic(x) ==
    /\ Admitted(x)' <=> Admitted(x)
    /\ x \in answered' <=> x \in answered
    /\ x \in rejected' <=> x \in rejected
    /\ x \in marked' <=> x \in marked
    /\ outcome'[x] = "aborted" <=> outcome[x] = "aborted"
    /\ outcome[x] = "aborted" => (Live(x)' <=> Live(x))

TrafficStarts(a) ==
    /\ ~dead /\ ~Admitted(a) /\ Admitted(a)' /\ HasCapacity(a)
    /\ outcome'[a] # "aborted" /\ a \notin answered' \cup rejected' \cup marked'

TrafficWithdrawn(a) ==
    /\ Waiting(a) /\ Admitted(a)' /\ outcome'[a] = "aborted" /\ (Live(a)' <=> Live(a))
    /\ a \in answered' <=> a \in answered
    /\ a \in rejected' <=> a \in rejected
    /\ a \in marked' <=> a \in marked

TrafficHeard(a) ==
    /\ ~dead /\ (Admitted(a)' <=> Admitted(a))
    /\ a \in answered => a \in answered'
    /\ a \in rejected => a \in rejected'
    /\ a \in marked => a \in marked'
    /\ outcome'[a] = "aborted" <=> outcome[a] = "aborted"
    /\ outcome[a] = "aborted" => (Live(a)' <=> Live(a) /\ Outstanding(a)')

AccountMoves ==
    \/ ~dead /\ dead' /\ UNCHANGED history
    \/ UNCHANGED dead /\ \A x \in Own : SameTraffic(x)
    \/ /\ UNCHANGED dead
       /\ \E a \in Own : /\ TrafficStarts(a) \/ TrafficWithdrawn(a) \/ TrafficHeard(a)
                         /\ \A x \in Own \ {a} : SameTraffic(x)

----------------------------------------------------------------------------
(* The machine implements the account                                      *)

\* While it holds its slot an action owes what has not been heard.
LEMMA OwedIs ==
    SlotInductive => \A a \in Own :
        Owed(a) = IF HoldsSlot(a) THEN Account!Facts(a) \ Heard(a) ELSE {}
<1> SUFFICES ASSUME SlotInductive, NEW a \in Own
             PROVE  Owed(a) = IF HoldsSlot(a) THEN Account!Facts(a) \ Heard(a) ELSE {}
  OBVIOUS
<1>0. /\ PendingPart(a) /\ RecordPart(a) /\ (a \in Lists => ListPart(a))
      /\ listHold \subseteq Lists /\ rec \in [Own -> RecordType]
  BY DEF SlotInductive, SlotTypeOK
<1>1. ~NoRecord.needResponse /\ ~NoRecord.needMark
  BY DEF NoRecord
<1>2. CASE a \in pendHold
  <2>1. a \notin Lists /\ a \notin answered /\ rec[a] = NoRecord /\ a \notin listHold
    BY <1>0, <1>2 DEF PendingPart, RecordPart
  <2> QED BY <1>1, <1>2, <2>1 DEF Owed, HoldsSlot, Account!Facts, Heard
<1>3. CASE a \in listHold
  <2>1. /\ a \in Lists /\ rec[a] = NoRecord /\ a \notin pendHold /\ a \notin rejected
        /\ list[a].responseSeen <=> a \in answered
        /\ list[a].markSeen <=> a \in marked
    BY <1>0, <1>3 DEF PendingPart, RecordPart, ListPart
  <2> QED BY <1>1, <1>3, <2>1 DEF Owed, HoldsSlot, Account!Facts, Heard
<1>4. CASE a \notin pendHold \cup listHold /\ Live(a)
  <2>1. /\ rec[a].needResponse <=> a \notin answered
        /\ rec[a].needMark <=> a \in Lists /\ a \notin marked \cup rejected
    BY <1>0, <1>4 DEF RecordPart, Live
  <2> QED BY <1>4, <2>1 DEF Owed, HoldsSlot, Account!Facts, Heard
<1>5. CASE ~HoldsSlot(a)
  BY <1>1, <1>5 DEF Owed, HoldsSlot, Live
<1> QED BY <1>2, <1>3, <1>4, <1>5 DEF HoldsSlot

LEMMA OutstandingIs ==
    \A a \in Own : Outstanding(a) <=> Account!Facts(a) \ Heard(a) # {}
  BY DEF Outstanding, Account!Facts, Heard

\* An action that the caller withdrew holds its slot as long as its record does.
LEMMA HoldsWhen ==
    BranchInductive => \A a \in Own :
        /\ HoldsSlot(a) <=> /\ ~dead /\ Admitted(a)
                            /\ IF outcome[a] = "aborted" THEN Live(a) ELSE Outstanding(a)
        /\ Live(a) => Outstanding(a)
<1> SUFFICES ASSUME BranchInductive, NEW a \in Own
             PROVE  /\ HoldsSlot(a) <=>
                          /\ ~dead /\ Admitted(a)
                          /\ IF outcome[a] = "aborted" THEN Live(a) ELSE Outstanding(a)
                    /\ Live(a) => Outstanding(a)
  OBVIOUS
<1>0. /\ PendingPart(a) /\ RecordPart(a) /\ (a \in Lists => ListPart(a) /\ HeldListPart(a))
      /\ listHold \subseteq Lists /\ SlotIffOutstanding /\ SlotInductive
  BY SlotsExact DEF BranchInductive, SlotInductive, SlotTypeOK
<1>1. HoldsSlot(a) => ~dead /\ Admitted(a)
  <2>1. a \in pendHold => ~dead /\ Admitted(a)
    BY <1>0 DEF PendingPart, Waiting, Admitted
  <2>2. a \in listHold => ~dead /\ Admitted(a)
    BY <1>0 DEF ListPart
  <2>3. Live(a) => ~dead /\ Admitted(a)
    BY <1>0 DEF Live, RecordPart, PendingPart
  <2> QED BY <2>1, <2>2, <2>3 DEF HoldsSlot
<1>2. outcome[a] = "aborted" => a \notin pendHold \cup listHold
  BY <1>0 DEF PendingPart, ListPart, HeldListPart, GivenUp
<1>3. Live(a) => Outstanding(a)
  BY <1>0 DEF RecordPart, Outstanding, Live
<1> QED BY <1>0, <1>1, <1>2, <1>3 DEF HoldsSlot, SlotIffOutstanding

LEMMA OwingIs ==
    ASSUME BranchInductive
    PROVE  /\ Account!Owing = {a \in Own : HoldsSlot(a)}
           /\ Account!Owing \ Pings = Occupants
           /\ Account!Owing \cap Pings = HeldPings
<1>1. SlotInductive
  BY DEF BranchInductive
<1>2. ASSUME NEW a \in Own PROVE Owed(a) # {} <=> HoldsSlot(a)
  <2>1. HoldsSlot(a) => Outstanding(a)
    <3>1. ASSUME HoldsSlot(a), outcome[a] = "aborted" PROVE Outstanding(a)
      BY <3>1, HoldsWhen
    <3> QED BY <3>1, HoldsWhen
  <2> QED BY <1>1, <2>1, OwedIs, OutstandingIs
<1>3. Account!Actions = Own
  BY DEF Account!Actions, Public, Own
<1>4. Account!Owing = {a \in Own : HoldsSlot(a)}
  BY <1>2, <1>3 DEF Account!Owing
<1>5. pendHold \subseteq Own /\ listHold \subseteq Own /\ listHold \cap Pings = {}
      /\ Pings \subseteq Own
  BY <1>1, KindsAssumption DEF SlotInductive, SlotTypeOK, RequestKind, Own
<1> QED BY <1>4, <1>5 DEF Occupants, Holders, HeldPings, PublicRecords, LiveRecords, HoldsSlot

\* Each move of the account is a step of module Obligations.
LEMMA MovesAccount ==
    ASSUME BranchInductive, SlotCounts, BranchInductive', AccountMoves
    PROVE  [Account!Next]_Account!vars
<1> DEFINE owed == [a \in Own |-> Owed(a)]
           heard == [a \in Own |-> Heard(a)]
           owed1 == [a \in Own |-> Owed(a)']
           heard1 == [a \in Own |-> Heard(a)']
           Facts(a) == Account!Facts(a)
<1>0. Account!Actions = Own /\ Pings \subseteq Own /\ Public = Own \ Pings
  BY DEF Account!Actions, Public, Own
<1>9. \A x \in Own : Outstanding(x)' <=> Facts(x) \ Heard(x)' # {}
  <2>1. (\A a \in Own : Outstanding(a) <=> Account!Facts(a) \ Heard(a) # {})'
    BY OutstandingIs, PTL
  <2> QED BY <2>1 DEF Account!Facts
<1>10. \A S : Account!Cardinality(S) = Cardinality(S)
  BY Zenon DEF Cardinality, Account!Cardinality
<1>1. ASSUME NEW x \in Own
      PROVE  /\ Owed(x) = IF HoldsSlot(x) THEN Facts(x) \ Heard(x) ELSE {}
             /\ Owed(x)' = IF HoldsSlot(x)' THEN Facts(x) \ Heard(x)' ELSE {}
  <2>1. SlotInductive /\ SlotInductive'
    BY DEF BranchInductive
  <2>2. Owed(x) = IF HoldsSlot(x) THEN Facts(x) \ Heard(x) ELSE {}
    BY <2>1, OwedIs
  <2>3. (SlotInductive => \A a \in Own :
           Owed(a) = IF HoldsSlot(a) THEN Account!Facts(a) \ Heard(a) ELSE {})'
    BY OwedIs, PTL
  <2> QED BY <2>1, <2>2, <2>3 DEF Account!Facts
<1>2. ASSUME NEW x \in Own
      PROVE  /\ HoldsSlot(x) <=> /\ ~dead /\ Admitted(x)
                                 /\ IF outcome[x] = "aborted" THEN Live(x) ELSE Outstanding(x)
             /\ HoldsSlot(x)' <=> /\ ~dead' /\ Admitted(x)'
                                  /\ IF outcome'[x] = "aborted" THEN Live(x)'
                                     ELSE Outstanding(x)'
             /\ Live(x) => Outstanding(x)
             /\ Live(x)' => Outstanding(x)'
  <2>1. (BranchInductive => \A a \in Own :
           /\ HoldsSlot(a) <=> /\ ~dead /\ Admitted(a)
                               /\ IF outcome[a] = "aborted" THEN Live(a) ELSE Outstanding(a)
           /\ Live(a) => Outstanding(a))'
    BY HoldsWhen, PTL
  <2> QED BY <2>1, HoldsWhen
<1>3. ASSUME NEW x \in Own, SameTraffic(x), UNCHANGED dead
      PROVE  Owed(x)' = Owed(x) /\ Heard(x)' = Heard(x)
  <2>1. Heard(x)' = Heard(x) /\ (Outstanding(x)' <=> Outstanding(x))
    BY <1>3 DEF SameTraffic, Heard, Outstanding
  <2>2. HoldsSlot(x)' <=> HoldsSlot(x)
    BY <1>2, <1>3, <2>1 DEF SameTraffic
  <2> QED BY <1>1, <2>1, <2>2
<1>4. ASSUME \A x \in Own : Owed(x)' = Owed(x) /\ Heard(x)' = Heard(x), UNCHANGED dead
      PROVE  UNCHANGED Account!vars
  BY <1>4 DEF Account!vars
<1>5. ASSUME NEW a \in Own, \A x \in Own \ {a} : Owed(x)' = Owed(x) /\ Heard(x)' = Heard(x)
      PROVE  /\ owed1 = [owed EXCEPT ![a] = Owed(a)']
             /\ heard1 = [heard EXCEPT ![a] = Heard(a)']
             /\ Heard(a)' = Heard(a) => heard1 = heard
  BY <1>5
<1>6. CASE ~dead /\ dead' /\ UNCHANGED history
  <2>1. \A x \in Own : ~HoldsSlot(x)'
    BY <1>2, <1>6
  <2>2. \A x \in Own : Owed(x)' = {}
    BY <1>1, <2>1
  <2>3. \A x \in Own : Heard(x)' = Heard(x)
    BY <1>6 DEF history, Heard
  <2>4. Account!Die
    BY <1>0, <1>6, <2>2, <2>3 DEF Account!Die
  <2> QED BY <2>4 DEF Account!Next
<1>7. CASE UNCHANGED dead /\ \A x \in Own : SameTraffic(x)
  BY <1>3, <1>4, <1>7
<1>8. ASSUME UNCHANGED dead, NEW a \in Own, \A x \in Own \ {a} : SameTraffic(x),
             TrafficStarts(a) \/ TrafficWithdrawn(a) \/ TrafficHeard(a)
      PROVE  [Account!Next]_Account!vars
  <2>0. \A x \in Own \ {a} : Owed(x)' = Owed(x) /\ Heard(x)' = Heard(x)
    BY <1>3, <1>8
  <2>1. /\ owed1 = [owed EXCEPT ![a] = Owed(a)']
        /\ heard1 = [heard EXCEPT ![a] = Heard(a)']
        /\ Heard(a)' = Heard(a) => heard1 = heard
    BY <1>5, <2>0
  <2>2. CASE TrafficStarts(a)
    <3>1. ~HoldsSlot(a) /\ Heard(a) = {} /\ Heard(a)' = {}
      <4>1. a \notin answered \cup rejected \cup marked
        BY <2>2 DEF TrafficStarts, BranchInductive, SlotInductive, PendingPart
      <4> QED BY <1>2, <2>2, <4>1 DEF TrafficStarts, Heard
    <3>2. HoldsSlot(a)'
      <4>1. Outstanding(a)'
        BY <2>2 DEF TrafficStarts, Outstanding
      <4> QED BY <1>2, <1>8, <2>2, <4>1 DEF TrafficStarts
    <3>3. owed[a] = {} /\ Owed(a)' = Facts(a) /\ heard1 = heard
      BY <1>1, <2>1, <3>1, <3>2
    <3>4. IF a \in Pings THEN Account!Owing \cap Pings = {}
          ELSE Cardinality(Account!Owing \ Pings) < MaxRetirement
      <4>1. CASE a \in Pings
        <5>1. HeldPings = {}
          BY <2>2, <4>1 DEF TrafficStarts, HasCapacity, SlotCounts
        <5> QED BY <4>1, <5>1, OwingIs
      <4>2. CASE a \notin Pings
        <5>1. retHeld + Cardinality(PublicRecords) < MaxRetirement
          BY <2>2, <4>2 DEF TrafficStarts, HasCapacity
        <5>2. Cardinality(Occupants) <= retHeld + Cardinality(PublicRecords)
          <6>1. IsFiniteSet(Own) /\ PublicRecords \subseteq Own /\ Holders \subseteq Own
            <7>1. IsFiniteSet(Own)
              BY KindsAssumption, FS_Union DEF Own
            <7> QED BY <7>1 DEF PublicRecords, LiveRecords, Holders, BranchInductive,
                    SlotInductive, SlotTypeOK, RequestKind, Own
          <6>2. IsFiniteSet(Holders) /\ IsFiniteSet(PublicRecords)
                /\ IsFiniteSet(Holders \cap PublicRecords)
            <7>1. Holders \cap PublicRecords \subseteq Own
              BY <6>1
            <7> QED BY <6>1, <7>1, FS_Subset
          <6>3. /\ Cardinality(Holders) \in Nat /\ Cardinality(PublicRecords) \in Nat
                /\ Cardinality(Holders \cap PublicRecords) \in Nat
            BY <6>2, FS_CardinalityType
          <6>4. Cardinality(Holders \cup PublicRecords) =
                   Cardinality(Holders) + Cardinality(PublicRecords)
                     - Cardinality(Holders \cap PublicRecords)
            BY <6>2, FS_Union
          <6> QED BY <6>3, <6>4 DEF SlotCounts, Occupants
        <5>3. /\ Cardinality(Occupants) \in Nat /\ retHeld \in Int
              /\ Cardinality(PublicRecords) \in Nat
          <6>1. IsFiniteSet(Own) /\ PublicRecords \subseteq Own /\ Occupants \subseteq Own
            <7>1. IsFiniteSet(Own)
              BY KindsAssumption, FS_Union DEF Own
            <7> QED BY <7>1 DEF Occupants, PublicRecords, LiveRecords, Holders, BranchInductive,
                    SlotInductive, SlotTypeOK, RequestKind, Own
          <6> QED BY <6>1, FS_Subset, FS_CardinalityType DEF BranchInductive, SlotInductive,
                  SlotTypeOK
        <5>4. Cardinality(Occupants) < MaxRetirement
          BY <5>1, <5>2, <5>3, LimitsAssumption
        <5> QED BY <4>2, <5>4, OwingIs
      <4> QED BY <4>1, <4>2
    <3>5. Account!Admit(a)
      BY <1>8, <1>10, <2>1, <2>2, <3>3, <3>4 DEF Account!Admit, TrafficStarts
    <3> QED BY <1>0, <3>5 DEF Account!Next
  <2>3. CASE TrafficWithdrawn(a)
    <3>1. Heard(a)' = Heard(a) /\ ~dead /\ "response" \in Facts(a) \ Heard(a)
          /\ outcome[a] # "aborted" /\ Admitted(a)
      BY <2>3 DEF TrafficWithdrawn, BranchInductive, SlotInductive, PendingPart, Heard,
         Account!Facts, Waiting, Admitted
    <3>2. HoldsSlot(a) /\ (HoldsSlot(a)' <=> Live(a))
      BY <1>2, <1>8, <2>3, <3>1, OutstandingIs DEF TrafficWithdrawn
    <3>3. CASE Live(a)
      <4>1. Owed(a)' = Owed(a)
        BY <1>1, <3>1, <3>2, <3>3
      <4>2. \A x \in Own : Owed(x)' = Owed(x) /\ Heard(x)' = Heard(x)
        BY <2>0, <3>1, <4>1
      <4> QED BY <1>4, <1>8, <4>2
    <3>4. CASE ~Live(a)
      <4>1. Owed(a)' = {} /\ "response" \in owed[a] /\ heard1 = heard
        BY <1>1, <2>1, <3>1, <3>2, <3>4
      <4>2. Account!Withdraw(a)
        BY <1>8, <2>1, <3>1, <4>1 DEF Account!Withdraw
      <4> QED BY <1>0, <4>2 DEF Account!Next
    <3> QED BY <3>3, <3>4
  <2>4. CASE TrafficHeard(a)
    <3> DEFINE facts == Heard(a)'
    <3>1. Heard(a) \subseteq facts /\ facts \in SUBSET {"response", "mark"}
      BY <2>4 DEF TrafficHeard, Heard
    <3>2. HoldsSlot(a)' <=> HoldsSlot(a) /\ Outstanding(a)'
      <4>1. Outstanding(a)' => Outstanding(a)
        BY <2>4 DEF TrafficHeard, Outstanding
      <4> QED BY <1>2, <1>8, <2>4, <4>1 DEF TrafficHeard
    <3>3. Outstanding(a)' <=> Facts(a) \ Heard(a)' # {}
      BY <1>9
    <3>4. Owed(a)' = owed[a] \ facts /\ Heard(a)' = heard[a] \cup facts
      <4> DEFINE f == Facts(a)
                 h == Heard(a)
      <4>1. /\ owed[a] = IF HoldsSlot(a) THEN f \ h ELSE {}
            /\ Owed(a)' = IF HoldsSlot(a)' THEN f \ facts ELSE {}
            /\ heard[a] = h
        BY <1>1
      <4>2. f \ facts = (f \ h) \ facts
        BY <3>1
      <4> HIDE DEF f, h, owed, heard, facts
      <4>3. Owed(a)' = owed[a] \ facts
        BY <3>2, <3>3, <4>1, <4>2 DEF f, facts
      <4>4. heard[a] \cup facts = facts
        BY <3>1, <4>1 DEF h
      <4> QED BY <4>3, <4>4 DEF facts
    <3> HIDE DEF facts
    <3>5. Account!Hear(a, facts)
      BY <1>8, <2>1, <2>4, <3>4 DEF Account!Hear, TrafficHeard
    <3> QED BY <1>0, <3>1, <3>5 DEF Account!Next
  <2> QED BY <1>8, <2>2, <2>3, <2>4
<1> QED BY <1>6, <1>7, <1>8 DEF AccountMoves
----------------------------------------------------------------------------
(* What one step may do to the counters                                    *)

\* A pending enters the index, leaves it, or all of them leave.
PendingMoves ==
    \/ UNCHANGED <<pendByAction, publicPending>>
    \/ \E a \in Own \ pendByAction :
          /\ pendByAction' = pendByAction \cup {a}
          /\ IF a \in Pings THEN UNCHANGED publicPending
             ELSE publicPending < MaxPending /\ publicPending' = publicPending + 1
    \/ \E a \in pendByAction :
          /\ pendByAction' = pendByAction \ {a}
          /\ IF a \in Pings THEN UNCHANGED publicPending
             ELSE publicPending' = publicPending - 1
    \/ /\ pendByAction' = {}
       /\ publicPending' = publicPending - Cardinality(pendByAction \ Pings)

ListIndexMoves ==
    \/ listByAction' \subseteq listByAction
    \/ /\ Cardinality(listByAction) < MaxLists
       /\ \E l : listByAction' = listByAction \cup {l}

HolderMoves ==
    \/ Holders' = Holders /\ retHeld' = retHeld
    \/ \E a \in Public \ Holders : Holders' = Holders \cup {a} /\ retHeld' = retHeld + 1
    \/ \E a \in Holders : Holders' = Holders \ {a} /\ retHeld' = retHeld - 1
    \/ Holders' = {} /\ retHeld' = retHeld - Cardinality(Holders)

PingsHeld == HeldPings' # {} => internalRetHeld'

CountersMove == PendingMoves /\ ListIndexMoves /\ HolderMoves /\ PingsHeld

LEMMA OwnFinite ==
    /\ IsFiniteSet(Own) /\ IsFiniteSet(Lists)
    /\ \A S \in SUBSET Own : IsFiniteSet(S) /\ Cardinality(S) \in Nat
<1>1. IsFiniteSet(Own)
  BY KindsAssumption, FS_Union DEF Own
<1> QED BY <1>1, KindsAssumption, FS_Subset, FS_CardinalityType

\* The moves keep the counters equal to what they count.
LEMMA CountersKeep ==
    ASSUME SlotTypeOK, SlotTypeOK', PendingCounts, SlotCounts, CountersMove
    PROVE  /\ PendingCounts'
           /\ (retHeld = Cardinality(Holders) /\ (HeldPings # {} => internalRetHeld))'
<1>0. /\ pendByAction \subseteq Own /\ Holders \subseteq Own /\ listByAction \subseteq Lists
      /\ Public = Own \ Pings
  BY DEF SlotTypeOK, Holders, RequestKind, Own, Public
<1>1. publicPending' = Cardinality((pendByAction \ Pings)') /\ publicPending' <= MaxPending
  <2> DEFINE S == pendByAction \ Pings
             n == Cardinality(S)
  <2>0. /\ IsFiniteSet(S) /\ n \in Nat /\ publicPending = n /\ n <= MaxPending
        /\ MaxPending \in Nat \ {0} /\ Cardinality({}) = 0
    <3>1. S \in SUBSET Own
      BY <1>0
    <3>2. Cardinality(S) \in Nat /\ IsFiniteSet(S)
      BY <3>1, OwnFinite
    <3> QED BY <3>2, LimitsAssumption, FS_EmptySet DEF PendingCounts
  <2>1. CASE UNCHANGED <<pendByAction, publicPending>>
    BY <2>0, <2>1
  <2>2. ASSUME NEW a \in Own \ pendByAction, pendByAction' = pendByAction \cup {a},
               IF a \in Pings THEN UNCHANGED publicPending
               ELSE publicPending < MaxPending /\ publicPending' = publicPending + 1
        PROVE  publicPending' = Cardinality((pendByAction \ Pings)') /\ publicPending' <= MaxPending
    <3>1. CASE a \in Pings
      <4>1. (pendByAction \ Pings)' = S
        BY <2>2, <3>1
      <4> QED BY <2>0, <2>2, <3>1, <4>1
    <3>2. CASE a \notin Pings
      <4>1. (pendByAction \ Pings)' = S \cup {a} /\ a \notin S
        BY <2>2, <3>2
      <4>2. Cardinality(S \cup {a}) = n + 1
        <5> HIDE DEF S
        <5> QED BY <2>0, <4>1, FS_AddElement
      <4>3. n + 1 <= MaxPending /\ publicPending' = n + 1
        <5>1. n < MaxPending /\ publicPending' = n + 1
          BY <2>0, <2>2, <3>2
        <5> HIDE DEF n
        <5> QED BY <2>0, <5>1
      <4> HIDE DEF n, S
      <4> QED BY <4>1, <4>2, <4>3
    <3> QED BY <3>1, <3>2
  <2>3. ASSUME NEW a \in pendByAction, pendByAction' = pendByAction \ {a},
               IF a \in Pings THEN UNCHANGED publicPending
               ELSE publicPending' = publicPending - 1
        PROVE  publicPending' = Cardinality((pendByAction \ Pings)') /\ publicPending' <= MaxPending
    <3>1. CASE a \in Pings
      <4>1. (pendByAction \ Pings)' = S
        BY <2>3, <3>1
      <4> QED BY <2>0, <2>3, <3>1, <4>1
    <3>2. CASE a \notin Pings
      <4>1. (pendByAction \ Pings)' = S \ {a} /\ a \in S
        BY <2>3, <3>2
      <4>2. Cardinality(S \ {a}) = n - 1
        <5> HIDE DEF S
        <5> QED BY <2>0, <4>1, FS_RemoveElement
      <4>3. n - 1 <= MaxPending /\ publicPending' = n - 1
        <5>1. publicPending' = n - 1
          BY <2>0, <2>3, <3>2
        <5> HIDE DEF n
        <5> QED BY <2>0, <5>1
      <4> HIDE DEF n, S
      <4> QED BY <4>1, <4>2, <4>3
    <3> QED BY <3>1, <3>2
  <2>4. CASE pendByAction' = {} /\ publicPending' = publicPending - Cardinality(pendByAction \ Pings)
    <3>1. (pendByAction \ Pings)' = {} /\ publicPending' = n - n
      BY <2>0, <2>4
    <3> HIDE DEF n
    <3> QED BY <2>0, <3>1
  <2> QED BY <2>1, <2>2, <2>3, <2>4 DEF CountersMove, PendingMoves
<1>2. Cardinality(listByAction') <= MaxLists
  <2>0. /\ IsFiniteSet(listByAction) /\ Cardinality(listByAction) \in Nat
        /\ Cardinality(listByAction) <= MaxLists /\ MaxLists \in Nat
    BY <1>0, OwnFinite, FS_Subset, FS_CardinalityType, LimitsAssumption DEF PendingCounts
  <2>1. CASE listByAction' \subseteq listByAction
    <3>1. Cardinality(listByAction') <= Cardinality(listByAction)
          /\ Cardinality(listByAction') \in Nat
      BY <2>0, <2>1, FS_Subset, FS_CardinalityType
    <3> QED BY <2>0, <3>1
  <2>2. ASSUME Cardinality(listByAction) < MaxLists, NEW l,
               listByAction' = listByAction \cup {l}
        PROVE  Cardinality(listByAction') <= MaxLists
    <3>1. Cardinality(listByAction \cup {l}) =
             IF l \in listByAction THEN Cardinality(listByAction)
             ELSE Cardinality(listByAction) + 1
      BY <2>0, FS_AddElement
    <3> QED BY <2>0, <2>2, <3>1
  <2> QED BY <2>1, <2>2 DEF CountersMove, ListIndexMoves
<1>3. retHeld' = Cardinality(Holders')
  <2>0. /\ IsFiniteSet(Holders) /\ Cardinality(Holders) \in Nat
        /\ retHeld = Cardinality(Holders) /\ Cardinality({}) = 0
    BY <1>0, OwnFinite, FS_EmptySet DEF SlotCounts
  <2>1. CASE Holders' = Holders /\ retHeld' = retHeld
    BY <2>0, <2>1
  <2>2. ASSUME NEW a \in Public \ Holders, Holders' = Holders \cup {a}, retHeld' = retHeld + 1
        PROVE  retHeld' = Cardinality(Holders')
    BY <2>0, <2>2, FS_AddElement
  <2>3. ASSUME NEW a \in Holders, Holders' = Holders \ {a}, retHeld' = retHeld - 1
        PROVE  retHeld' = Cardinality(Holders')
    BY <2>0, <2>3, FS_RemoveElement
  <2>4. CASE Holders' = {} /\ retHeld' = retHeld - Cardinality(Holders)
    <3>1. \A n \in Nat : n - n = 0
      OBVIOUS
    <3> QED BY <2>0, <2>4, <3>1
  <2> QED BY <2>1, <2>2, <2>3, <2>4 DEF CountersMove, HolderMoves
<1> QED BY <1>1, <1>2, <1>3 DEF PendingCounts, CountersMove, PingsHeld

----------------------------------------------------------------------------
(* The moves of each action                                                *)

\* A step that leaves the slots and the counters alone.
LEMMA QuietCounts ==
    ASSUME SlotCounts, BranchInductive,
           UNCHANGED <<dead, history, pendHold, listHold, retHeld, internalRetHeld, rec,
                       pendByAction, publicPending, listByAction>>,
           \A x \in Own : /\ Admitted(x)' <=> Admitted(x)
                          /\ outcome'[x] = "aborted" <=> outcome[x] = "aborted"
    PROVE  CountersMove /\ AccountMoves
<1>1. \A x \in Own : SameTraffic(x)
  BY DEF SameTraffic, Live, history
<1>2. Holders' = Holders /\ HeldPings' = HeldPings
  BY DEF Holders, HeldPings, Live
<1> QED BY <1>1, <1>2 DEF CountersMove, PendingMoves, ListIndexMoves, HolderMoves, PingsHeld,
        AccountMoves, SlotCounts

\* Taking one ticket further does not change what has been admitted.
LEMMA SameAdmissions ==
    ASSUME BranchInductive, NEW a \in Own, Admitted(a), NEW p, p # "none",
           pstate' = [pstate EXCEPT ![a] = p], UNCHANGED outcome
    PROVE  \A x \in Own : /\ Admitted(x)' <=> Admitted(x)
                          /\ outcome'[x] = "aborted" <=> outcome[x] = "aborted"
  BY DEF BranchInductive, SlotInductive, SlotTypeOK, Admitted

LEMMA AdmitCounts ==
    ASSUME SlotCounts, BranchInductive, NEW a \in Own, Admit(a)
    PROVE  CountersMove /\ AccountMoves
<1> USE DEF Admit, history
<1>0. /\ SlotTypeOK /\ PendingPart(a) /\ (a \in Lists => ListPart(a))
      /\ ~Admitted(a) /\ ~Waiting(a)
  BY DEF BranchInductive, SlotInductive, Waiting, Admitted
<1>1. /\ a \notin pendByAction /\ a \notin pendHold /\ rec[a] = NoRecord
      /\ a \notin answered \cup rejected \cup marked /\ outcome[a] = "none"
      /\ a \notin listHold
  BY <1>0 DEF PendingPart, ListPart, SlotTypeOK
<1>2. /\ Admitted(a)' /\ \A x \in Own \ {a} : Admitted(x)' <=> Admitted(x)
  BY <1>0 DEF SlotTypeOK, Admitted
<1>3. AccountMoves
  <2>1. TrafficStarts(a)
    BY <1>0, <1>1, <1>2 DEF TrafficStarts
  <2>2. \A x \in Own \ {a} : SameTraffic(x)
    BY <1>2 DEF SameTraffic, Live
  <2> QED BY <2>1, <2>2 DEF AccountMoves, lifeVars
<1>4. PendingMoves
  BY <1>1 DEF PendingMoves, HasCapacity
<1>5. ListIndexMoves
  <2>1. CASE a \in Lists
    BY <2>1, KindsAssumption DEF ListIndexMoves, HasCapacity
  <2>2. CASE a \notin Lists
    BY <2>2 DEF ListIndexMoves
  <2> QED BY <2>1, <2>2
<1>6. HolderMoves
  <2>1. pendHold' \cup listHold' = pendHold \cup listHold \cup {a}
    BY DEF RequestKind
  <2> QED BY <1>1, <2>1 DEF HolderMoves, Holders, Public
<1>7. PingsHeld
  <2>1. CASE a \in Pings
    BY <2>1 DEF PingsHeld
  <2>2. CASE a \notin Pings
    <3>1. HeldPings' = HeldPings
      BY <2>2 DEF HeldPings, Live
    <3> QED BY <2>2, <3>1 DEF PingsHeld, SlotCounts
  <2> QED BY <2>1, <2>2
<1> QED BY <1>3, <1>4, <1>5, <1>6, <1>7 DEF CountersMove

\* Unpend takes one waiting action out of the index and the count.
LEMMA UnpendCounts ==
    ASSUME NEW a \in pendByAction, Unpend(a)
    PROVE  PendingMoves
  BY DEF Unpend, PendingMoves

\* A slot that one action gives back is counted once.
LEMMA HolderGone ==
    ASSUME NEW a \in Own,
           pendHold' \cup listHold' = (pendHold \cup listHold) \ {a},
           retHeld' = IF a \in Holders THEN retHeld - 1 ELSE retHeld
    PROVE  HolderMoves
<1>1. Holders' = Holders \ {a}
  BY DEF Holders
<1> QED BY <1>1 DEF HolderMoves

LEMMA AbortNotSentCounts ==
    ASSUME SlotCounts, BranchInductive, NEW a \in Own, AbortNotSent(a)
    PROVE  CountersMove /\ AccountMoves
<1> USE DEF history, listVars
<1>0. /\ SlotTypeOK /\ PendingPart(a) /\ (a \in Lists => ListPart(a) /\ HeldListPart(a))
      /\ Admitted(a) /\ (a \in Lists => NoList.phase \notin RoutingPhases)
  BY ListConstants DEF BranchInductive, SlotInductive, AbortNotSent, Admitted, RoutingPhases
<1>1. Completed(a) # "none"
  BY CompletedState
<1>2. \A x \in Own : Admitted(x)' <=> Admitted(x)
  BY <1>0, <1>1 DEF SlotTypeOK, Admitted, AbortNotSent
<1>3. UNCHANGED <<dead, history, rec>>
  BY DEF AbortNotSent, lifeVars
<1>4. listByAction' \subseteq listByAction /\ listHold' = listHold \ ({a} \cap lstOpen)
      /\ retHeld' = IF a \in lstOpen THEN (IF a \in listHold THEN retHeld - 1 ELSE retHeld)
                    ELSE IF a \in pendHold \cap Public THEN retHeld - 1 ELSE retHeld
  <2>1. CASE a \in lstOpen
    <3>1. a \in Lists
      BY <1>0, <2>1 DEF SlotTypeOK
    <3>2. SetList(a, NoList) /\ NoList.phase \notin RoutingPhases
      BY <1>0, <2>1, <3>1 DEF AbortNotSent
    <3> QED BY <2>1, <3>2 DEF SetList
  <2>2. CASE a \notin lstOpen
    BY <2>2 DEF AbortNotSent
  <2> QED BY <2>1, <2>2
<1>5. CASE pstate[a] = "reserved"
  <2>1. /\ Waiting(a) /\ a \in pendByAction /\ Unpend(a) /\ pendHold' = pendHold \ {a}
        /\ outcome' = [outcome EXCEPT ![a] = "aborted"]
        /\ internalRetHeld' = (internalRetHeld /\ a \notin Pings)
    BY <1>0, <1>5 DEF AbortNotSent, PendingPart, Waiting
  <2>2. /\ a \in pendHold <=> a \notin Lists
        /\ a \in Lists => a \in lstOpen /\ a \notin pendHold
        /\ a \in listHold => a \in Lists
        /\ a \notin Lists => a \notin lstOpen /\ a \notin listHold
    BY <1>0, <2>1 DEF PendingPart, ListPart, SlotTypeOK
  <2>3. HolderMoves
    <3>1. pendHold' \cup listHold' = (pendHold \cup listHold) \ {a}
      BY <1>4, <2>1, <2>2
    <3>2. retHeld' = IF a \in Holders THEN retHeld - 1 ELSE retHeld
      BY <1>4, <2>2, KindsAssumption DEF Holders, Public
    <3> QED BY <3>1, <3>2, HolderGone
  <2>4. PingsHeld
    <3>1. CASE a \in Pings
      <4>1. a \notin Lists /\ rec[a] = NoRecord /\ a \in HeldPings
        BY <1>0, <2>2, <3>1, KindsAssumption DEF BranchInductive, SlotInductive, RecordPart,
           HeldPings
      <4>2. HeldPings' \subseteq HeldPings /\ a \notin HeldPings'
        BY <1>3, <2>1, <4>1 DEF HeldPings, Live
      <4>3. HeldPings' = {}
        BY <4>1, <4>2 DEF SlotCounts
      <4> QED BY <4>3 DEF PingsHeld
    <3>2. CASE a \notin Pings
      <4>1. HeldPings' = HeldPings
        BY <1>3, <2>1, <3>2 DEF HeldPings, Live
      <4> QED BY <2>1, <3>2, <4>1 DEF PingsHeld, SlotCounts
    <3> QED BY <3>1, <3>2
  <2>5. AccountMoves
    <3>1. TrafficWithdrawn(a)
      BY <1>0, <1>2, <1>3, <2>1 DEF TrafficWithdrawn, SlotTypeOK, Live
    <3>2. \A x \in Own \ {a} : SameTraffic(x)
      BY <1>0, <1>2, <1>3, <2>1 DEF SameTraffic, SlotTypeOK, Live
    <3> QED BY <1>3, <3>1, <3>2 DEF AccountMoves
  <2>6. PendingMoves
    BY <2>1, UnpendCounts
  <2> QED BY <1>4, <2>3, <2>4, <2>5, <2>6 DEF CountersMove, ListIndexMoves
<1>6. CASE pstate[a] # "reserved"
  <2>1. /\ pstate[a] = "completed" /\ ~Waiting(a) /\ outcome[a] = "dead" /\ dead
        /\ UNCHANGED <<pendByAction, publicPending, pendHold, outcome, internalRetHeld>>
    BY <1>0, <1>6 DEF AbortNotSent, PendingPart, Waiting, BranchInductive, SlotInductive
  <2>2. a \notin pendHold /\ a \notin listHold
    BY <1>0, <2>1 DEF PendingPart, ListPart, SlotTypeOK
  <2>3. UNCHANGED <<listHold, retHeld>>
    BY <1>4, <2>2
  <2>4. Holders' = Holders /\ HeldPings' = HeldPings
    BY <1>3, <2>1, <2>3 DEF Holders, HeldPings, Live
  <2>5. AccountMoves
    <3>1. \A x \in Own : SameTraffic(x)
      BY <1>2, <1>3, <2>1 DEF SameTraffic, Live
    <3> QED BY <1>3, <3>1 DEF AccountMoves
  <2> QED BY <1>4, <2>1, <2>3, <2>4, <2>5 DEF CountersMove, PendingMoves, ListIndexMoves,
          HolderMoves, PingsHeld, SlotCounts
<1> QED BY <1>5, <1>6

\* SetList gives the slot back when routing ends, and never takes one.
LEMMA SetListCounts ==
    ASSUME NEW a \in Lists, NEW l, SetList(a, l), SlotTypeOK, a \notin pendHold
    PROVE  /\ listByAction' \subseteq listByAction
           /\ listHold' = listHold \/ listHold' = listHold \ {a}
           /\ pendHold' = pendHold => HolderMoves
<1>1. CASE l.phase \in RoutingPhases
  <2>1. UNCHANGED <<listByAction, listHold, retHeld>>
    BY <1>1 DEF SetList, slotVars
  <2> QED BY <2>1 DEF HolderMoves, Holders
<1>2. CASE l.phase \notin RoutingPhases
  <2>1. /\ listByAction' = listByAction \ {a} /\ listHold' = listHold \ {a}
        /\ retHeld' = IF a \in listHold THEN retHeld - 1 ELSE retHeld
    BY <1>2 DEF SetList
  <2>2. a \notin Pings /\ a \in Own
    BY KindsAssumption DEF Own
  <2>3. ASSUME pendHold' = pendHold PROVE HolderMoves
    <3>1. pendHold' \cup listHold' = (pendHold \cup listHold) \ {a}
      BY <2>1, <2>3
    <3>2. retHeld' = IF a \in Holders THEN retHeld - 1 ELSE retHeld
      BY <2>1, <2>2 DEF Holders
    <3> QED BY <2>2, <3>1, <3>2, HolderGone
  <2> QED BY <2>1, <2>3
<1> QED BY <1>1, <1>2

\* What a waiting action holds, and that only a waiting list is provisional.
LEMMA WaitingHolds ==
    ASSUME BranchInductive, NEW a \in Own, Waiting(a)
    PROVE  /\ ~dead /\ Admitted(a) /\ outcome[a] = "none" /\ a \notin answered
           /\ a \in pendByAction /\ (a \in pendHold <=> a \notin Lists)
           /\ a \in listHold => a \in Lists
           /\ a \in Pings => a \notin Lists /\ a \in HeldPings /\ HeldPings \subseteq Pings
  BY KindsAssumption DEF BranchInductive, SlotInductive, SlotTypeOK, PendingPart, Waiting,
     Admitted, HeldPings

LEMMA AbandonCounts ==
    ASSUME SlotCounts, BranchInductive, NEW a \in Own, Abandon(a)
    PROVE  CountersMove /\ AccountMoves
<1> USE DEF history, listVars
<1>0. /\ SlotTypeOK /\ Waiting(a)
      /\ pstate' = [pstate EXCEPT ![a] = Completed(a)] /\ Completed(a) # "none"
      /\ outcome' = [outcome EXCEPT ![a] = "abandoned"] /\ pendHold' = pendHold \ {a}
      /\ UNCHANGED <<dead, history, internalRetHeld>> /\ Unpend(a)
      /\ \A x \in Own \ {a} : rec'[x] = rec[x]
  BY CompletedState DEF BranchInductive, SlotInductive, SlotTypeOK, Abandon, Waiting, lifeVars
<1>1. /\ ~dead /\ Admitted(a) /\ outcome[a] = "none" /\ a \notin answered
      /\ a \in pendByAction /\ (a \in pendHold <=> a \notin Lists)
      /\ a \in listHold => a \in Lists
      /\ a \in Pings => a \in HeldPings
  BY <1>0, WaitingHolds
<1>2. AccountMoves
  <2>1. \A x \in Own : SameTraffic(x)
    BY <1>0, <1>1 DEF SlotTypeOK, SameTraffic, Admitted, Live
  <2> QED BY <1>0, <2>1 DEF AccountMoves
<1>3. PendingMoves
  BY <1>0, <1>1, UnpendCounts
<1>4. PingsHeld
  <2>1. HeldPings' \subseteq HeldPings
    BY <1>0, <1>1 DEF HeldPings, Live, Own
  <2> QED BY <1>0, <2>1 DEF PingsHeld, SlotCounts
<1>5. CASE a \in Lists
  <2>1. SetList(a, NoList) /\ pendHold' = pendHold
    BY <1>0, <1>1, <1>5 DEF Abandon
  <2> QED BY <1>0, <1>1, <1>2, <1>3, <1>4, <1>5, <2>1, SetListCounts
          DEF CountersMove, ListIndexMoves
<1>6. CASE a \notin Lists
  <2>1. /\ retHeld' = IF a \in Public THEN retHeld - 1 ELSE retHeld
        /\ UNCHANGED <<listByAction, listHold>>
    BY <1>6 DEF Abandon
  <2>2. HolderMoves
    <3>1. pendHold' \cup listHold' = (pendHold \cup listHold) \ {a}
      BY <1>0, <1>1, <1>6, <2>1
    <3>2. a \in Holders <=> a \in Public
      BY <1>1, <1>6 DEF Holders, Public
    <3> QED BY <2>1, <3>1, <3>2, HolderGone
  <2> QED BY <1>2, <1>3, <1>4, <2>1, <2>2 DEF CountersMove, ListIndexMoves
<1> QED BY <1>5, <1>6

LEMMA CloseListCounts ==
    ASSUME SlotCounts, BranchInductive, NEW l \in Lists, CloseList(l)
    PROVE  CountersMove /\ AccountMoves
<1>0. /\ SlotTypeOK /\ l \in Own /\ l \notin pendHold /\ SetList(l, NoList)
      /\ UNCHANGED <<dead, outcome, history, pendHold, internalRetHeld, rec, pendByAction,
                     publicPending>>
      /\ pstate' = [pstate EXCEPT ![l] = Completed(l)] /\ Completed(l) # "none"
  BY Kinds, CompletedState DEF BranchInductive, SlotInductive, PendingPart, CloseList, lifeVars,
     recVars, history
<1>1. Admitted(l)
  BY DEF BranchInductive, HeldListPart, CloseList
<1>2. \A x \in Own : SameTraffic(x)
  BY <1>0, <1>1, SameAdmissions DEF SameTraffic, Live, history
<1>3. PingsHeld
  BY <1>0 DEF PingsHeld, HeldPings, Live, SlotCounts
<1> QED BY <1>0, <1>2, <1>3, SetListCounts DEF CountersMove, PendingMoves, ListIndexMoves,
        AccountMoves

LEMMA DieCounts ==
    ASSUME SlotCounts, BranchInductive, ~dead, NEW why, Die(why)
    PROVE  CountersMove /\ AccountMoves
<1>0. /\ SlotTypeOK /\ \A a \in Own : PendingPart(a)
      /\ \A l \in Lists : ListPart(l)
  BY DEF BranchInductive, SlotInductive
<1>1. KilledPendings = pendByAction
  BY <1>0 DEF KilledPendings, PendingPart, Waiting, SlotTypeOK
<1>2. pendHold \subseteq pendByAction /\ listHold \subseteq KilledLists
  <2>1. pendHold \subseteq Own
    BY <1>0 DEF SlotTypeOK, RequestKind
  <2> QED BY <1>0, <2>1 DEF SlotTypeOK, PendingPart, ListPart, KilledLists, RoutingPhases
<1>3. /\ dead' /\ UNCHANGED history
      /\ pendHold' = pendHold \ pendByAction /\ pendByAction' = {}
      /\ publicPending' = publicPending - Cardinality(pendByAction \ Pings)
      /\ listByAction' = listByAction \ KilledLists /\ listHold' = listHold \ KilledLists
      /\ retHeld' = retHeld - Cardinality(pendHold \cap pendByAction \cap Public)
                            - Cardinality(listHold \cap KilledLists)
      /\ rec' = [a \in Own |-> NoRecord]
  BY <1>1 DEF Die
<1>4. Holders' = {} /\ HeldPings' = {}
  BY <1>2, <1>3 DEF Holders, HeldPings, Live, Own
<1>5. retHeld' = retHeld - Cardinality(Holders)
  <2> DEFINE S == pendHold \ Pings
  <2>1. /\ pendHold \cap pendByAction \cap Public = S /\ listHold \cap KilledLists = listHold
        /\ Holders = S \cup listHold /\ S \cap listHold = {}
    <3>1. pendHold \subseteq Own /\ listHold \subseteq Lists /\ Lists \cap Pings = {}
          /\ pendHold \cap Lists = {}
      BY <1>0, KindsAssumption DEF SlotTypeOK, RequestKind
    <3> QED BY <1>2, <3>1 DEF Holders, Public
  <2>2. /\ IsFiniteSet(S) /\ IsFiniteSet(listHold) /\ Cardinality(S) \in Nat
        /\ Cardinality(listHold) \in Nat /\ retHeld \in Int
    <3>1. S \in SUBSET Own /\ listHold \in SUBSET Own /\ retHeld \in Int
      BY <1>0 DEF SlotTypeOK, RequestKind, Own
    <3> QED BY <3>1, OwnFinite
  <2>3. Cardinality(Holders) = Cardinality(S) + Cardinality(listHold)
    <3>1. Cardinality(S \cup listHold) =
             Cardinality(S) + Cardinality(listHold) - Cardinality(S \cap listHold)
      <4> HIDE DEF S
      <4> QED BY <2>2, FS_Union
    <3>2. Cardinality(S \cap listHold) = 0
      BY <2>1, FS_EmptySet
    <3>3. \A m, n \in Nat : m + n - 0 = m + n
      OBVIOUS
    <3> HIDE DEF S
    <3> QED BY <2>1, <2>2, <3>1, <3>2, <3>3
  <2>4. retHeld' = retHeld - Cardinality(S) - Cardinality(listHold)
    BY <1>3, <2>1
  <2> HIDE DEF S
  <2> QED BY <2>2, <2>3, <2>4
<1>6. AccountMoves
  BY <1>3 DEF AccountMoves
<1> QED BY <1>3, <1>4, <1>5, <1>6 DEF CountersMove, PendingMoves, ListIndexMoves, HolderMoves,
        PingsHeld

\* The server's answer is heard by one action.
LEMMA AnswerHeard ==
    ASSUME BranchInductive, ~dead, UNCHANGED dead, NEW a \in Own, NEW success, Answer(a, success),
           \A x \in Own : /\ Admitted(x)' <=> Admitted(x)
                          /\ outcome'[x] = "aborted" <=> outcome[x] = "aborted",
           \A x \in Own \ {a} : rec'[x] = rec[x],
           outcome[a] = "aborted" => (Live(a)' <=> Live(a) /\ Outstanding(a)')
    PROVE  AccountMoves
<1>1. TrafficHeard(a)
  BY DEF TrafficHeard, Answer
<1>2. \A x \in Own \ {a} : SameTraffic(x)
  BY DEF SameTraffic, Answer, Live
<1> QED BY <1>1, <1>2 DEF AccountMoves

LEMMA RoutePendingResponseCounts ==
    ASSUME SlotCounts, BranchInductive, NEW a \in Own, NEW success \in BOOLEAN,
           RoutePendingResponse(a, success)
    PROVE  CountersMove /\ AccountMoves
<1> USE DEF listVars
<1>0. /\ SlotTypeOK /\ Waiting(a)
      /\ pstate' = [pstate EXCEPT ![a] = Completed(a)] /\ Completed(a) # "none"
      /\ outcome' = [outcome EXCEPT ![a] = IF success THEN "success" ELSE "error"]
      /\ pendHold' = pendHold \ {a} /\ ~dead
      /\ UNCHANGED dead /\ Unpend(a) /\ Answer(a, success)
      /\ \A x \in Own \ {a} : rec'[x] = rec[x]
  BY CompletedState DEF BranchInductive, SlotInductive, SlotTypeOK, PendingPart,
     RoutePendingResponse, Routing, lifeVars
<1>1. /\ Admitted(a) /\ outcome[a] = "none" /\ a \notin answered
      /\ a \in pendByAction /\ (a \in pendHold <=> a \notin Lists)
      /\ a \in listHold => a \in Lists
      /\ a \in Pings => a \notin Lists /\ a \in HeldPings /\ HeldPings \subseteq Pings
  BY <1>0, WaitingHolds
<1>2. AccountMoves
  <2>1. \A x \in Own : /\ Admitted(x)' <=> Admitted(x)
                       /\ outcome'[x] = "aborted" <=> outcome[x] = "aborted"
    BY <1>0, <1>1 DEF SlotTypeOK, Admitted
  <2> QED BY <1>0, <1>1, <2>1, AnswerHeard
<1>3. PendingMoves
  BY <1>0, <1>1, UnpendCounts
<1>4. CASE a \in Lists
  <2>1. SetList(a, Responded(list[a], success)) /\ pendHold' = pendHold
        /\ UNCHANGED internalRetHeld
    BY <1>0, <1>1, <1>4 DEF RoutePendingResponse
  <2>2. PingsHeld
    <3>1. a \notin Pings
      BY <1>4, KindsAssumption
    <3>2. HeldPings' = HeldPings
      BY <1>0, <2>1, <3>1, KindsAssumption DEF HeldPings, Live, Own
    <3> QED BY <2>1, <3>2 DEF PingsHeld, SlotCounts
  <2> QED BY <1>0, <1>1, <1>2, <1>3, <1>4, <2>1, <2>2, SetListCounts
          DEF CountersMove, ListIndexMoves
<1>5. CASE a \notin Lists
  <2>1. /\ retHeld' = IF a \in pendHold \cap Public THEN retHeld - 1 ELSE retHeld
        /\ internalRetHeld' = (internalRetHeld /\ a \notin Pings)
        /\ rec' = [rec EXCEPT ![a] = Evidence(@, TRUE, ~success)]
        /\ UNCHANGED <<listByAction, listHold>>
    BY <1>5 DEF RoutePendingResponse
  <2>2. HolderMoves
    <3>1. pendHold' \cup listHold' = (pendHold \cup listHold) \ {a}
      BY <1>0, <1>1, <1>5, <2>1
    <3>2. a \in Holders <=> a \in pendHold \cap Public
      BY <1>1, <1>5 DEF Holders, Public
    <3> QED BY <2>1, <3>1, <3>2, HolderGone
  <2>3. PingsHeld
    <3>1. CASE a \in Pings
      <4>1. rec[a] = NoRecord
        BY <1>1, <1>5 DEF BranchInductive, SlotInductive, RecordPart
      <4>2. rec'[a] = NoRecord
        BY <1>0, <2>1, <4>1, NoEvidence DEF SlotTypeOK
      <4>3. HeldPings' \subseteq HeldPings /\ a \notin HeldPings'
        BY <1>0, <4>1, <4>2 DEF HeldPings, Live, Own
      <4>4. HeldPings' = {}
        BY <1>1, <3>1, <4>3 DEF SlotCounts
      <4> QED BY <4>4 DEF PingsHeld
    <3>2. CASE a \notin Pings
      <4>1. HeldPings' = HeldPings
        BY <1>0, <3>2 DEF HeldPings, Live, Own
      <4> QED BY <2>1, <3>2, <4>1 DEF PingsHeld, SlotCounts
    <3> QED BY <3>1, <3>2
  <2> QED BY <1>2, <1>3, <2>1, <2>2, <2>3 DEF CountersMove, ListIndexMoves
<1> QED BY <1>4, <1>5

\* Evidence releases the record when nothing is missing any more.
LEMMA EvidenceOutstanding ==
    ASSUME BranchInductive, NEW a \in Own, Live(a), NEW response \in BOOLEAN, NEW mark \in BOOLEAN,
           rec' = [rec EXCEPT ![a] = Evidence(@, response, mark)],
           a \in answered' <=> a \in answered \/ response,
           a \in Lists => (a \in marked' \cup rejected' <=> a \in marked \cup rejected \/ mark)
    PROVE  Live(a)' <=> Outstanding(a)'
<1>1. /\ rec[a] \in RecordType /\ rec'[a] = Evidence(rec[a], response, mark)
      /\ rec[a].needResponse <=> a \notin answered
      /\ rec[a].needMark <=> a \in Lists /\ a \notin marked \cup rejected
  BY DEF BranchInductive, SlotInductive, SlotTypeOK, RecordPart, Live
<1>2. /\ rec'[a].needResponse <=> rec[a].needResponse /\ ~response
      /\ rec'[a].needMark <=> rec[a].needMark /\ ~mark
      /\ rec'[a] # NoRecord => rec'[a].needResponse \/ rec'[a].needMark
  BY <1>1, EvidenceType
<1>3. ~NoRecord.needResponse /\ ~NoRecord.needMark
  BY DEF NoRecord
<1> QED BY <1>1, <1>2, <1>3 DEF Live, Outstanding

LEMMA RouteRecordResponseCounts ==
    ASSUME SlotCounts, BranchInductive, NEW a \in Own, NEW success \in BOOLEAN,
           RouteRecordResponse(a, success)
    PROVE  CountersMove /\ AccountMoves
<1> USE DEF listVars
<1>0. /\ ~dead /\ Live(a) /\ Answer(a, success)
      /\ rec' = [rec EXCEPT ![a] = Evidence(@, TRUE, ~success)]
      /\ internalRetHeld' = (internalRetHeld /\ (a \in Pings => Live(a)'))
      /\ UNCHANGED <<dead, pstate, outcome, pendHold, pendByAction, publicPending,
                     listByAction, listHold, retHeld>>
      /\ SlotTypeOK
  BY DEF RouteRecordResponse, Routing, pendVars, slotVars, lifeVars, BranchInductive, SlotInductive
<1>1. \A x \in Own \ {a} : rec'[x] = rec[x]
  BY <1>0 DEF SlotTypeOK
<1>2. AccountMoves
  <2>1. (~success) \in BOOLEAN /\ TRUE \in BOOLEAN
    OBVIOUS
  <2>2. Live(a)' <=> Outstanding(a)'
    BY <1>0, <2>1, EvidenceOutstanding DEF Answer
  <2>3. \A x \in Own : /\ Admitted(x)' <=> Admitted(x)
                       /\ outcome'[x] = "aborted" <=> outcome[x] = "aborted"
    BY <1>0 DEF Admitted
  <2> QED BY <1>0, <1>1, <2>2, <2>3, AnswerHeard
<1>3. PingsHeld
  <2>1. HeldPings' \subseteq HeldPings
    BY <1>0, <1>1 DEF HeldPings, Live, Own
  <2>2. CASE a \in Pings /\ ~Live(a)'
    <3>1. a \in HeldPings /\ a \notin pendHold
      BY <1>0, <2>2 DEF HeldPings, BranchInductive, SlotInductive, RecordPart, Live
    <3>2. a \notin HeldPings'
      BY <1>0, <2>2, <3>1 DEF HeldPings
    <3>3. HeldPings' = {}
      BY <2>1, <3>1, <3>2 DEF SlotCounts
    <3> QED BY <3>3 DEF PingsHeld
  <2>3. CASE ~(a \in Pings /\ ~Live(a)')
    BY <1>0, <2>1, <2>3 DEF PingsHeld, SlotCounts
  <2> QED BY <2>2, <2>3
<1>4. Holders' = Holders
  BY <1>0 DEF Holders
<1> QED BY <1>0, <1>2, <1>3, <1>4 DEF CountersMove, PendingMoves, ListIndexMoves, HolderMoves

\* An event of a list is heard by that list alone.
LEMMA MarkHeard ==
    ASSUME BranchInductive, ~dead, NEW a \in Lists, NEW mark \in BOOLEAN,
           UNCHANGED <<dead, pstate, outcome, answered, rejected>>,
           marked' = IF mark THEN marked \cup {a} ELSE marked,
           \A x \in Own \ {a} : rec'[x] = rec[x],
           outcome[a] = "aborted" => (Live(a)' <=> Live(a) /\ Outstanding(a)')
    PROVE  AccountMoves
<1>0. a \in Own
  BY DEF Own
<1>1. TrafficHeard(a)
  BY DEF TrafficHeard, Admitted
<1>2. \A x \in Own \ {a} : SameTraffic(x)
  BY DEF SameTraffic, Live, Admitted
<1> QED BY <1>0, <1>1, <1>2 DEF AccountMoves

LEMMA RouteListEventCounts ==
    ASSUME SlotCounts, BranchInductive, NEW a \in Lists, NEW e \in ListEvent(a),
           RouteListEvent(a, e)
    PROVE  CountersMove /\ AccountMoves
<1>0. PICK l, wake : ListStep(a, l, wake)
  BY Zenon DEF RouteListEvent
<1>1. /\ ~dead /\ a \in listByAction
      /\ marked' = IF IsTerminalMark(a, e) THEN marked \cup {a} ELSE marked
      /\ UNCHANGED <<dead, pstate, outcome, pendHold, pendByAction, publicPending,
                     internalRetHeld, answered, rejected>>
      /\ SlotTypeOK /\ ListPart(a) /\ HeldListPart(a) /\ PendingPart(a) /\ a \in Own
  BY Kinds DEF RouteListEvent, Routing, lifeVars, pendVars, BranchInductive, SlotInductive
<1>2. \A x \in Own \ {a} : rec'[x] = rec[x]
  BY <1>0, <1>1 DEF ListStep, SlotTypeOK
<1>3. outcome[a] # "aborted" /\ a \notin pendHold
  BY <1>1 DEF ListPart, HeldListPart, PendingPart, GivenUp
<1>4. AccountMoves
  <2>1. IsTerminalMark(a, e) \in BOOLEAN
    BY DEF IsTerminalMark, Completes
  <2> QED BY <1>1, <1>2, <1>3, <2>1, MarkHeard
<1>5. HeldPings' = HeldPings
  BY <1>1, <1>2, KindsAssumption DEF HeldPings, Live, Own
<1>6. PingsHeld
  BY <1>1, <1>5 DEF PingsHeld, SlotCounts
<1>7. SetList(a, l)
  BY <1>0 DEF ListStep
<1> QED BY <1>1, <1>3, <1>4, <1>6, <1>7, SetListCounts
        DEF CountersMove, PendingMoves, ListIndexMoves

LEMMA RouteListDrainCounts ==
    ASSUME SlotCounts, BranchInductive, NEW a \in Lists, NEW e \in ListEvent(a),
           RouteListDrain(a, e)
    PROVE  CountersMove /\ AccountMoves
<1> DEFINE mark == IsTerminalMark(a, e)
<1>1. /\ ~dead /\ Live(a) /\ rec' = [rec EXCEPT ![a] = Evidence(@, FALSE, mark)]
      /\ marked' = IF mark THEN marked \cup {a} ELSE marked
      /\ UNCHANGED <<dead, pstate, outcome, pendHold, pendByAction, publicPending,
                     internalRetHeld, answered, rejected, listByAction, listHold, retHeld>>
      /\ SlotTypeOK /\ a \in Own
  BY Kinds DEF RouteListDrain, Routing, lifeVars, pendVars, listVars, slotVars,
     BranchInductive, SlotInductive
<1>2. mark \in BOOLEAN
  BY DEF IsTerminalMark, Completes
<1> HIDE DEF mark
<1>3. \A x \in Own \ {a} : rec'[x] = rec[x]
  BY <1>1 DEF SlotTypeOK
<1>4. Live(a)' <=> Outstanding(a)'
  BY <1>1, <1>2, EvidenceOutstanding
<1>5. AccountMoves
  BY <1>1, <1>2, <1>3, <1>4, MarkHeard
<1>6. HeldPings' = HeldPings /\ Holders' = Holders
  BY <1>1, <1>3, KindsAssumption DEF HeldPings, Holders, Live, Own
<1> QED BY <1>1, <1>5, <1>6 DEF CountersMove, PendingMoves, ListIndexMoves, HolderMoves,
        PingsHeld, SlotCounts

LEMMA CloseListBranchCounts ==
    ASSUME SlotCounts, BranchInductive, NEW l \in Lists, CloseListBranch(l)
    PROVE  CountersMove /\ AccountMoves
<1>0. /\ SlotTypeOK /\ l \in Own /\ PendingPart(l) /\ ListPart(l) /\ HeldListPart(l)
      /\ SetList(l, NoList)
      /\ UNCHANGED <<dead, pstate, outcome, history, pendHold, internalRetHeld, pendByAction,
                     publicPending>>
  BY Kinds DEF BranchInductive, SlotInductive, CloseListBranch, lifeVars, pendVars
<1>1. l \notin pendHold
  BY <1>0 DEF PendingPart
<1>2. \A x \in Own \ {l} : rec'[x] = rec[x]
  BY <1>0 DEF SlotTypeOK, CloseListBranch
<1>3. outcome[l] = "aborted" => rec'[l] = rec[l]
  <2>1. outcome[l] = "aborted" => list[l].phase # "streaming"
    BY <1>0 DEF HeldListPart, GivenUp, RoutingPhases
  <2> QED BY <2>1 DEF CloseListBranch
<1>4. \A x \in Own : SameTraffic(x)
  BY <1>0, <1>2, <1>3 DEF SameTraffic, Live, history, Admitted
<1>5. HeldPings' = HeldPings
  BY <1>0, <1>2, KindsAssumption DEF HeldPings, Live, Own
<1> QED BY <1>0, <1>1, <1>4, <1>5, SetListCounts DEF CountersMove, PendingMoves, ListIndexMoves,
        AccountMoves, PingsHeld, SlotCounts

\* A step that leaves all but the consumers' branches alone.
LEMMA BranchCounts ==
    ASSUME SlotCounts, BranchInductive,
           UNCHANGED <<lifeVars, pstate, outcome, history, pendHold, slotVars, recVars,
                       pendByAction, publicPending, listByAction>>
    PROVE  CountersMove /\ AccountMoves
<1>1. \A x \in Own : /\ Admitted(x)' <=> Admitted(x)
                     /\ outcome'[x] = "aborted" <=> outcome[x] = "aborted"
  BY DEF Admitted
<1> QED BY <1>1, QuietCounts DEF lifeVars, slotVars, recVars

\* A ticket whose caller's call returns.
LEMMA TicketCounts ==
    ASSUME SlotCounts, BranchInductive, NEW a \in Own,
           CommitWrite(a) \/ (a \in Follows /\ (AdoptFollow(a) \/ CloseFollow(a)))
           \/ (a \in Lists /\ AdoptList(a))
    PROVE  CountersMove /\ AccountMoves
<1>1. /\ UNCHANGED <<dead, history, pendHold, listHold, retHeld, internalRetHeld, rec,
                     pendByAction, publicPending, listByAction, outcome>>
      /\ \E p : p # "none" /\ pstate' = [pstate EXCEPT ![a] = p]
  <2>1. UNCHANGED <<dead, history, pendHold, listHold, retHeld, internalRetHeld, rec,
                    pendByAction, publicPending, listByAction, outcome>>
    BY DEF CommitWrite, AdoptFollow, CloseFollow, AdoptList, lifeVars, listVars, slotVars,
       recVars, history
  <2>2. ASSUME CommitWrite(a) PROVE \E p : p # "none" /\ pstate' = [pstate EXCEPT ![a] = p]
    <3>1. pstate' = [pstate EXCEPT ![a] = IF pstate[a] = "reserved" THEN "inFlight"
                                          ELSE Completed(a)]
      BY <2>2 DEF CommitWrite
    <3>2. (IF pstate[a] = "reserved" THEN "inFlight" ELSE Completed(a)) # "none"
      BY CompletedState
    <3> QED BY <3>1, <3>2
  <2>3. ASSUME ~CommitWrite(a) PROVE \E p : p # "none" /\ pstate' = [pstate EXCEPT ![a] = p]
    <3>1. pstate' = [pstate EXCEPT ![a] = Completed(a)]
      BY <2>3 DEF AdoptFollow, CloseFollow, AdoptList
    <3> QED BY <3>1, CompletedState
  <2> QED BY <2>1, <2>2, <2>3
<1>2. Admitted(a)
  <2>1. CASE CommitWrite(a)
    BY <2>1 DEF CommitWrite, Admitted
  <2>2. CASE a \in Follows /\ (AdoptFollow(a) \/ CloseFollow(a))
    BY <2>2 DEF AdoptFollow, CloseFollow, BranchInductive, FollowPart
  <2>3. CASE a \in Lists /\ AdoptList(a)
    BY <2>3 DEF AdoptList, BranchInductive, HeldListPart
  <2> QED BY <2>1, <2>2, <2>3
<1> QED BY <1>1, <1>2, SameAdmissions, QuietCounts

\* Every step of the machine moves the counters and the account so.
LEMMA CountsNext ==
    ASSUME SlotCounts, BranchInductive, [Next]_vars
    PROVE  CountersMove /\ AccountMoves
<1> DEFINE Goal == CountersMove /\ AccountMoves
<1> HIDE DEF Goal
<1> SUFFICES Goal
  BY DEF Goal
<1>1. CASE RouteResponse
  <2>1. ASSUME NEW reason \in FatalReasons, RouteFatal(reason) PROVE Goal
    BY <2>1, DieCounts DEF RouteFatal, Routing, Goal
  <2>2. ASSUME NEW a \in Own, RouteUnmatched(a) PROVE Goal
    BY <2>2, DieCounts DEF RouteUnmatched, Routing, Goal
  <2> QED BY <1>1, <2>1, <2>2, RoutePendingResponseCounts, RouteRecordResponseCounts
          DEF RouteResponse, Goal
<1>2. CASE RouteEvent
  <2>1. ASSUME NEW a \in Lists, RouteListLate(a) PROVE Goal
    BY <2>1, BranchCounts DEF RouteListLate, pendVars, listVars, Goal
  <2>2. ASSUME NEW e \in PlainEvent, RouteOrdinaryEvent(e) PROVE Goal
    BY <2>2, BranchCounts DEF RouteOrdinaryEvent, pendVars, listVars, Goal
  <2>3. ASSUME NEW e \in PlainEvent, NEW f \in Follows, RouteFollowEvent(f, e) PROVE Goal
    BY <2>3, BranchCounts DEF RouteFollowEvent, pendVars, listVars, Goal
  <2>4. ASSUME NEW a \in RequestKind, RouteQuarantined(a) PROVE Goal
    BY <2>4, BranchCounts DEF RouteQuarantined, pendVars, listVars, Goal
  <2> QED BY <1>2, <2>1, <2>2, <2>3, <2>4, RouteListEventCounts, RouteListDrainCounts
          DEF RouteEvent, Goal
<1>3. CASE PendingStep
  <2>1. Follows \subseteq Own /\ Lists \subseteq Own
    BY DEF Own
  <2> QED BY <1>3, <2>1, AdmitCounts, AbortNotSentCounts, AbandonCounts, CloseListCounts,
             TicketCounts DEF PendingStep, Goal
<1>4. CASE ConsumerStep
  <2>1. ASSUME NEW s \in Subs, Subscribe(s) \/ CloseSub(s) PROVE Goal
    BY <2>1, BranchCounts DEF Subscribe, CloseSub, pendVars, listVars, Goal
  <2>2. ASSUME NEW f \in Follows, CloseFollowBranch(f) PROVE Goal
    BY <2>2, BranchCounts DEF CloseFollowBranch, pendVars, listVars, Goal
  <2>3. ASSUME NEW b \in Branches, TakeItem(b) \/ TakeEmpty(b) PROVE Goal
    BY <2>3, BranchCounts DEF TakeItem, TakeEmpty, pendVars, listVars, Goal
  <2> QED BY <1>4, <2>1, <2>2, <2>3, CloseListBranchCounts DEF ConsumerStep, Close, Goal
<1>5. ASSUME NEW reason \in KillReasons, Kill(reason) PROVE Goal
  BY <1>5, DieCounts DEF Kill, Goal
<1>6. CASE Expire
  BY <1>6, DieCounts, BranchCounts DEF Expire, pendVars, listVars, Goal
<1>7. CASE Tick \/ UNCHANGED vars
  BY <1>7, BranchCounts DEF Tick, vars, pendVars, listVars, Goal
<1> QED BY <1>1, <1>2, <1>3, <1>4, <1>5, <1>6, <1>7 DEF Next

----------------------------------------------------------------------------
(* The theorems about the counters                                         *)

LEMMA CountInit == Init => CountInductive /\ Account!Init
<1> SUFFICES ASSUME Init PROVE CountInductive /\ Account!Init
  OBVIOUS
<1> USE DEF Init
<1>1. BranchInductive
  BY BranchInit
<1>2. Cardinality({}) = 0 /\ MaxPending > 0 /\ MaxLists > 0 /\ MaxRetirement > 0
      /\ MaxSubscriptions > 0 /\ Len(<<>>) = 0 /\ MaxPending \in Nat /\ MaxLists \in Nat
      /\ MaxRetirement \in Nat /\ MaxSubscriptions \in Nat
  BY LimitsAssumption, FS_EmptySet
<1>3. PendingCounts
  BY <1>2 DEF PendingCounts
<1>4. Holders = {} /\ PublicRecords = {} /\ HeldPings = {}
  BY DEF Holders, PublicRecords, LiveRecords, HeldPings, Live, Own
<1>5. SlotCounts
  BY <1>2, <1>4 DEF SlotCounts, Occupants
<1>6. OrderCounts
  BY <1>2 DEF OrderCounts, IsInjective
<1>7. Account!Init
  <2>1. \A a \in Own : Owed(a) = {} /\ Heard(a) = {}
    BY DEF Owed, Heard, NoRecord
  <2>2. Account!Actions = Own
    BY DEF Account!Actions, Public, Own
  <2> QED BY <2>1, <2>2 DEF Account!Init
<1> QED BY <1>1, <1>3, <1>5, <1>6, <1>7 DEF CountInductive

LEMMA CountNext ==
    CountInductive /\ [Next]_vars => CountInductive' /\ [Account!Next]_Account!vars
<1> SUFFICES ASSUME CountInductive, [Next]_vars
             PROVE  CountInductive' /\ [Account!Next]_Account!vars
  OBVIOUS
<1>1. /\ BranchInductive /\ SlotCounts /\ PendingCounts /\ OrderCounts
      /\ BranchInductive' /\ SlotTypeOK /\ SlotTypeOK'
  BY BranchNext DEF CountInductive, BranchInductive, SlotInductive
<1>2. CountersMove /\ AccountMoves
  BY <1>1, CountsNext
<1>3. [Account!Next]_Account!vars
  BY <1>1, <1>2, MovesAccount
<1>4. PendingCounts' /\ (retHeld = Cardinality(Holders) /\ (HeldPings # {} => internalRetHeld))'
  BY <1>1, <1>2, CountersKeep
<1>5. OrderCounts'
  BY <1>1, MovesNext DEF OrderCounts, BranchesMove, SubsMove
<1>6. Cardinality(Occupants') <= MaxRetirement /\ \A p, q \in HeldPings' : p = q
  <2> DEFINE O == Account!Owing
             P == (Account!Owing)'
  <2>1. /\ O \ Pings = Occupants /\ O \cap Pings = HeldPings
        /\ P \ Pings = Occupants' /\ P \cap Pings = HeldPings'
    <3>1. (BranchInductive => /\ Account!Owing = {a \in Own : HoldsSlot(a)}
                              /\ Account!Owing \ Pings = Occupants
                              /\ Account!Owing \cap Pings = HeldPings)'
      BY OwingIs, PTL
    <3> QED BY <1>1, <3>1, OwingIs
  <2>2. \/ P \subseteq O
        \/ \E a \in Own : /\ P \subseteq O \cup {a}
                          /\ IF a \in Pings THEN O \cap Pings = {}
                             ELSE Cardinality(O \ Pings) < MaxRetirement
    <3> DEFINE w == [a \in Own |-> Owed(a)]
               x == (w)'
    <3>1. /\ Account!Actions = Own
          /\ O = {a \in Own : w[a] # {}} /\ P = {a \in Own : x[a] # {}}
      BY DEF Account!Owing, Account!Actions, Own, Public
    <3>2. CASE UNCHANGED Account!vars
      <4>1. x = w
        BY <3>2 DEF Account!vars
      <4> QED BY <3>1, <4>1
    <3>3. ASSUME NEW a \in Own, Account!Admit(a)
          PROVE  /\ P \subseteq O \cup {a}
                 /\ IF a \in Pings THEN O \cap Pings = {}
                    ELSE Account!Cardinality(O \ Pings) < MaxRetirement
      <4>1. x = [w EXCEPT ![a] = Account!Facts(a)]
        BY <3>3 DEF Account!Admit
      <4> HIDE DEF w, x
      <4>2. P \subseteq O \cup {a}
        BY <3>1, <4>1
      <4> QED BY <3>3, <4>2 DEF Account!Admit
    <3>4. ASSUME NEW a \in Own, NEW facts \in SUBSET {"response", "mark"},
                 Account!Hear(a, facts) \/ Account!Withdraw(a)
          PROVE  P \subseteq O
      <4>1. x = [w EXCEPT ![a] = w[a] \ facts] \/ x = [w EXCEPT ![a] = {}]
        BY <3>4 DEF Account!Hear, Account!Withdraw
      <4>2. w \in [Own -> {w[b] : b \in Own}]
        OBVIOUS
      <4> HIDE DEF w, x
      <4> QED BY <3>1, <4>1, <4>2
    <3>5. CASE Account!Die
      <4>1. x = [b \in Own |-> {}]
        BY <3>1, <3>5 DEF Account!Die
      <4> HIDE DEF w, x
      <4> QED BY <3>1, <4>1
    <3>6. \A S : Account!Cardinality(S) = Cardinality(S)
      BY Zenon DEF Cardinality, Account!Cardinality
    <3> HIDE DEF O, P
    <3> QED BY <1>3, <3>1, <3>2, <3>3, <3>4, <3>5, <3>6 DEF Account!Next
  <2>3. /\ O \subseteq Own /\ P \subseteq Own
        /\ Cardinality(O \ Pings) <= MaxRetirement /\ \A p, q \in O \cap Pings : p = q
    BY <1>1, <2>1 DEF SlotCounts, Account!Owing, Account!Actions, Own, Public
  <2> HIDE DEF O, P
  <2>4. /\ Cardinality(O \ Pings) \in Nat /\ Cardinality(P \ Pings) \in Nat
        /\ IsFiniteSet(O \ Pings) /\ IsFiniteSet(P \ Pings)
    BY <2>3, OwnFinite
  <2>5. ASSUME P \ Pings \subseteq O \ Pings
        PROVE  Cardinality(P \ Pings) <= MaxRetirement
    <3>1. Cardinality(P \ Pings) <= Cardinality(O \ Pings)
      BY <2>4, <2>5, FS_Subset
    <3> QED BY <2>3, <2>4, <3>1, LimitsAssumption
  <2>6. ASSUME NEW a \in Own, P \ Pings \subseteq (O \ Pings) \cup {a},
               Cardinality(O \ Pings) < MaxRetirement
        PROVE  Cardinality(P \ Pings) <= MaxRetirement
    <3>1. /\ IsFiniteSet((O \ Pings) \cup {a})
          /\ \/ Cardinality((O \ Pings) \cup {a}) = Cardinality(O \ Pings)
             \/ Cardinality((O \ Pings) \cup {a}) = Cardinality(O \ Pings) + 1
      BY <2>4, FS_AddElement
    <3>2. Cardinality(P \ Pings) <= Cardinality((O \ Pings) \cup {a})
      BY <2>6, <3>1, FS_Subset
    <3> QED BY <2>4, <2>6, <3>1, <3>2, LimitsAssumption
  <2>7. Cardinality(P \ Pings) <= MaxRetirement /\ \A p, q \in P \cap Pings : p = q
    <3>1. CASE P \subseteq O
      BY <2>3, <2>5, <3>1
    <3>2. ASSUME NEW a \in Own, P \subseteq O \cup {a}, a \in Pings, O \cap Pings = {}
          PROVE  /\ Cardinality(P \ Pings) <= MaxRetirement
                 /\ \A p, q \in P \cap Pings : p = q
      BY <2>3, <2>5, <3>2
    <3>3. ASSUME NEW a \in Own, P \subseteq O \cup {a}, a \notin Pings,
                 Cardinality(O \ Pings) < MaxRetirement
          PROVE  /\ Cardinality(P \ Pings) <= MaxRetirement
                 /\ \A p, q \in P \cap Pings : p = q
      BY <2>3, <2>6, <3>3
    <3> QED BY <2>2, <3>1, <3>2, <3>3
  <2> QED BY <2>1, <2>7
<1> QED BY <1>1, <1>3, <1>4, <1>5, <1>6 DEF CountInductive, SlotCounts

\* A sequence without repetition is as long as the set it lists.
LEMMA InjectiveLength ==
    ASSUME NEW S, NEW s \in Seq(S), IsInjective(s)
    PROVE  IsFiniteSet(ToSet(s)) /\ Len(s) = Cardinality(ToSet(s))
<1>1. /\ Len(s) \in Nat /\ DOMAIN s = 1..Len(s)
      /\ s \in [1..Len(s) -> ToSet(s)] /\ \A t \in ToSet(s) : \E i \in 1..Len(s) : s[i] = t
  BY DEF ToSet
<1>2. \A i, j \in 1..Len(s) : s[i] = s[j] => i = j
  BY <1>1 DEF IsInjective
<1>3. s \in Bijection(1..Len(s), ToSet(s))
  BY <1>1, <1>2, Zenon DEF Bijection, Injection, Surjection
<1>4. ExistsBijection(1..Len(s), ToSet(s))
  BY <1>3 DEF ExistsBijection
<1>5. Cardinality(ToSet(s)) = Len(s)
  BY <1>1, <1>4, FS_CountingElements
<1>6. IsFiniteSet(ToSet(s))
  BY <1>1, <1>4, FS_NatBijection
<1> QED BY <1>5, <1>6

\* The counters of the machine hold in every reachable state.
THEOREM CountInvariant == Spec => []CountInductive
<1>1. Init => CountInductive
  BY CountInit
<1>2. CountInductive /\ [Next]_vars => CountInductive'
  BY CountNext
<1> QED BY <1>1, <1>2, PTL DEF Spec

\* The indexes a message is routed by hold exactly what can still be routed to,
\* the counters that admission compares with the limits are their sizes, and
\* no limit is exceeded (check, demux.go).
THEOREM IndexesAreRight == Spec => []RoutingIndexes
<1>1. CountInductive => RoutingIndexes
  <2> SUFFICES ASSUME CountInductive PROVE RoutingIndexes
    OBVIOUS
  <2>1. /\ BranchInductive /\ SlotInductive /\ SlotTypeOK /\ BranchTypeOK
        /\ PendingCounts /\ OrderCounts
    BY DEF CountInductive, BranchInductive, SlotInductive
  <2>2. pendByAction = {a \in Own : pstate[a] \in {"reserved", "inFlight"}}
    BY <2>1 DEF SlotInductive, SlotTypeOK, PendingPart, Waiting
  <2>3. folByAction = {f \in Follows : fol[f].phase = "active"}
    BY <2>1 DEF BranchInductive, BranchTypeOK, FollowPart
  <2>4. listByAction = {l \in Lists : list[l].phase \in RoutingPhases}
    BY <2>1 DEF SlotInductive, SlotTypeOK, ListPart
  <2>5. ToSet(subOrder) = {s \in Subs : sub[s].phase = "active"}
    <3>1. ToSet(subOrder) \subseteq Subs
      BY <2>1 DEF BranchTypeOK, ToSet
    <3> QED BY <2>1, <3>1 DEF BranchInductive, SubPart
  <2>6. Len(subOrder) = Cardinality(ToSet(subOrder))
    BY <2>1, InjectiveLength DEF BranchTypeOK, OrderCounts
  <2> QED BY <2>1, <2>2, <2>3, <2>4, <2>5, <2>6
          DEF RoutingIndexes, PendingCounts, OrderCounts
<1> QED BY <1>1, CountInvariant, PTL

\* The machine implements the account of module Obligations: nothing owed is
\* forgotten, invented or admitted beyond the pool while its slot moves between
\* pending, branch and record (machine.go, retirement.go).
THEOREM AccountIsKept == Spec => AccountSpec
<1>1. Init => CountInductive /\ Account!Init
  BY CountInit
<1>2. CountInductive /\ [Next]_vars => CountInductive' /\ [Account!Next]_Account!vars
  BY CountNext
<1> QED BY <1>1, <1>2, PTL DEF Spec, AccountSpec, Account!Spec

----------------------------------------------------------------------------
(* What a queue and a family of branches are charged for                   *)

\* The sizes that a queue adds up.
SizesOf(q) == [i \in DOMAIN q |-> q[i].size]

LEMMA SizesType ==
    ASSUME NEW q \in Seq(Message)
    PROVE  /\ DOMAIN q = 1..Len(q) /\ Len(q) \in Nat
           /\ IsFiniteSet(1..Len(q)) /\ DOMAIN SizesOf(q) = 1..Len(q)
           /\ \A i \in 1..Len(q) : SizesOf(q)[i] = q[i].size /\ q[i].size \in Nat
           /\ Bytes(q) = SumFunctionOnSet(SizesOf(q), 1..Len(q))
<1>1. DOMAIN q = 1..Len(q) /\ Len(q) \in Nat /\ \A i \in 1..Len(q) : q[i] \in Message
  OBVIOUS
<1>2. \A m \in Message : m.size \in Nat
  BY InputsAssumption DEF Message
<1>3. IsFiniteSet(1..Len(q))
  BY <1>1, FS_Interval
<1>4. Bytes(q) = SumFunctionOnSet(SizesOf(q), 1..Len(q))
  BY <1>1, Zenon DEF Bytes, SumFunction, SizesOf
<1> QED BY <1>1, <1>2, <1>3, <1>4 DEF SizesOf

\* A queue retains a natural number of bytes, and an empty one none.
LEMMA BytesNat ==
    /\ \A q \in Seq(Message) : Bytes(q) \in Nat
    /\ <<>> \in Seq(Message) /\ Bytes(<<>>) = 0
<1>1. ASSUME NEW q \in Seq(Message) PROVE Bytes(q) \in Nat
  BY SizesType, SumNat
<1>2. <<>> \in Seq(Message)
  OBVIOUS
<1>3. Bytes(<<>>) = SumFunctionOnSet(SizesOf(<<>>), {})
  <2>1. Len(<<>>) = 0 /\ 1..0 = {}
    OBVIOUS
  <2>2. Bytes(<<>>) = SumFunctionOnSet(SizesOf(<<>>), 1..Len(<<>>))
    BY <1>2, SizesType, Zenon
  <2> QED BY <2>1, <2>2
<1>4. SumFunctionOnSet(SizesOf(<<>>), {}) = 0
  <2>1. IsFiniteSet({})
    BY FS_EmptySet
  <2> QED BY <2>1, SumPick, Zenon
<1> QED BY <1>1, <1>2, <1>3, <1>4

\* A queued message adds its size.
LEMMA BytesAppend ==
    ASSUME NEW q \in Seq(Message), NEW m \in Message
    PROVE  /\ Append(q, m) \in Seq(Message) /\ Len(Append(q, m)) = Len(q) + 1
           /\ m.size \in Nat
           /\ Bytes(Append(q, m)) = Bytes(q) + m.size
<1> DEFINE n == Len(q)
           a == Append(q, m)
<1>1. a \in Seq(Message) /\ Len(a) = n + 1 /\ a[n + 1] = m /\ \A i \in 1..n : a[i] = q[i]
  OBVIOUS
<1>2. m.size \in Nat
  BY InputsAssumption DEF Message
<1>3. n \in Nat /\ n + 1 \notin 1..n /\ 1..(n + 1) = (1..n) \cup {n + 1}
  OBVIOUS
<1> HIDE DEF a, n
<1>4. Bytes(a) = SumFunctionOnSet(SizesOf(a), (1..n) \cup {n + 1})
  BY <1>1, <1>3, SizesType
<1>5. /\ IsFiniteSet(1..n) /\ \A i \in (1..n) \cup {n + 1} : SizesOf(a)[i] \in Int
      /\ SizesOf(a)[n + 1] = m.size
  <2>1. IsFiniteSet(1..n)
    BY <1>3, FS_Interval
  <2>2. n + 1 \in (1..n) \cup {n + 1}
    OBVIOUS
  <2>3. \A i \in (1..n) \cup {n + 1} : SizesOf(a)[i] = a[i].size /\ a[i].size \in Nat
    BY <1>1, <1>3, SizesType
  <2> QED BY <1>1, <2>1, <2>2, <2>3
<1>6. Bytes(a) = m.size + SumFunctionOnSet(SizesOf(a), 1..n)
  <2>1. SumFunctionOnSet(SizesOf(a), (1..n) \cup {n + 1})
            = SizesOf(a)[n + 1] + SumFunctionOnSet(SizesOf(a), 1..n)
    BY <1>3, <1>5, SumAdd, Zenon
  <2> QED BY <1>4, <1>5, <2>1
<1>7. \A i \in 1..n : SizesOf(a)[i] \in Int /\ SizesOf(a)[i] = SizesOf(q)[i]
  <2>1. \A i \in 1..n : i \in 1..(n + 1) /\ i \in 1..Len(q)
    BY <1>3 DEF n
  <2>2. \A i \in 1..n : SizesOf(a)[i] = a[i].size /\ SizesOf(a)[i] \in Nat
    BY <1>1, <2>1, SizesType
  <2>3. \A i \in 1..n : SizesOf(q)[i] = q[i].size
    BY <2>1, SizesType
  <2> QED BY <1>1, <2>2, <2>3
<1>8. SumFunctionOnSet(SizesOf(a), 1..n) = SumFunctionOnSet(SizesOf(q), 1..n)
  BY <1>5, <1>7, SumEqual
<1>9. Bytes(q) = SumFunctionOnSet(SizesOf(q), 1..n) /\ Bytes(q) \in Nat
  BY SizesType, BytesNat DEF n
<1> QED BY <1>1, <1>2, <1>6, <1>8, <1>9 DEF a, n

\* Taking the head removes its size.
LEMMA BytesTail ==
    ASSUME NEW q \in Seq(Message), q # <<>>
    PROVE  /\ Tail(q) \in Seq(Message) /\ Len(Tail(q)) = Len(q) - 1
           /\ Head(q) \in Message /\ Head(q).size \in Nat
           /\ Bytes(Tail(q)) = Bytes(q) - Head(q).size
<1> DEFINE n == Len(q) - 1
           t == Tail(q)
           f == SizesOf(q)
           g == SizesOf(t)
           T == {k \in Nat : k <= n =>
                    SumFunctionOnSet(f, 1..(k + 1)) = f[1] + SumFunctionOnSet(g, 1..k)}
<1>1. /\ t \in Seq(Message) /\ Len(t) = n /\ n \in Nat /\ Len(q) = n + 1
      /\ \A i \in 1..n : t[i] = q[i + 1]
      /\ Head(q) = q[1] /\ q[1] \in Message
  OBVIOUS
<1> HIDE DEF n, t
<1>2. /\ \A i \in 1..(n + 1) : f[i] \in Int /\ f[i] = q[i].size
      /\ \A i \in 1..n : g[i] \in Int /\ g[i] = t[i].size
  <2>1. \A i \in 1..(n + 1) : f[i] = q[i].size /\ q[i].size \in Nat
    BY <1>1, SizesType DEF f
  <2>2. \A i \in 1..n : g[i] = t[i].size /\ t[i].size \in Nat
    BY <1>1, SizesType DEF g
  <2> QED BY <2>1, <2>2
<1> HIDE DEF f, g
<1>3. \A i \in 1..n : g[i] = f[i + 1]
  BY <1>1, <1>2
<1>4. 0 \in T
  <2>1. 1..(0 + 1) = {} \cup {1} /\ 1..0 = {} /\ 1 \in 1..(n + 1)
    BY <1>1
  <2>2. SumFunctionOnSet(f, {} \cup {1}) = f[1] + SumFunctionOnSet(f, {})
    BY <1>2, <2>1, SumAdd, FS_EmptySet
  <2>3. SumFunctionOnSet(f, {}) = 0 /\ SumFunctionOnSet(g, {}) = 0
    <3>1. IsFiniteSet({})
      BY FS_EmptySet
    <3> QED BY <3>1, SumPick, Zenon
  <2> QED BY <2>1, <2>2, <2>3
<1>5. ASSUME NEW k \in Nat, k \in T PROVE k + 1 \in T
  <2> SUFFICES ASSUME k + 1 <= n
               PROVE  SumFunctionOnSet(f, 1..((k + 1) + 1)) = f[1] + SumFunctionOnSet(g, 1..(k + 1))
    OBVIOUS
  <2>1. /\ k <= n /\ 1..((k + 1) + 1) = (1..(k + 1)) \cup {k + 2}
        /\ 1..(k + 1) = (1..k) \cup {k + 1} /\ k + 2 \notin 1..(k + 1) /\ k + 1 \notin 1..k
        /\ (1..(k + 1)) \cup {k + 2} \subseteq 1..(n + 1)
        /\ (1..k) \cup {k + 1} \subseteq 1..n /\ k + 1 \in 1..n /\ (k + 1) + 1 = k + 2
        /\ 1 \in 1..(n + 1)
    BY <1>1
  <2>2. IsFiniteSet(1..(k + 1)) /\ IsFiniteSet(1..k)
    BY FS_Interval
  <2>3. SumFunctionOnSet(f, (1..(k + 1)) \cup {k + 2})
            = f[k + 2] + SumFunctionOnSet(f, 1..(k + 1))
    BY <1>2, <2>1, <2>2, SumAdd
  <2>4. SumFunctionOnSet(g, (1..k) \cup {k + 1}) = g[k + 1] + SumFunctionOnSet(g, 1..k)
    BY <1>2, <2>1, <2>2, SumAdd
  <2>5. SumFunctionOnSet(f, 1..(k + 1)) = f[1] + SumFunctionOnSet(g, 1..k)
    BY <1>5, <2>1
  <2>6. g[k + 1] = f[k + 2] /\ f[k + 2] \in Int /\ f[1] \in Int
    BY <1>2, <1>3, <2>1
  <2>7. SumFunctionOnSet(g, 1..k) \in Int
    <3>1. \A i \in 1..k : g[i] \in Int
      BY <1>2, <2>1
    <3> QED BY <2>2, <3>1, SumPick, Zenon
  <2>8. /\ SumFunctionOnSet(f, 1..((k + 1) + 1)) = f[k + 2] + SumFunctionOnSet(f, 1..(k + 1))
        /\ SumFunctionOnSet(g, 1..(k + 1)) = g[k + 1] + SumFunctionOnSet(g, 1..k)
    BY <2>1, <2>3, <2>4, Zenon
  <2> QED BY <2>5, <2>6, <2>7, <2>8
<1>6. T = Nat
  <2> HIDE DEF T
  <2>1. T \in SUBSET Nat
    BY DEF T
  <2> QED BY <1>4, <1>5, <2>1, NatInductionOnSets
<1>7. SumFunctionOnSet(f, 1..(n + 1)) = f[1] + SumFunctionOnSet(g, 1..n)
  BY <1>1, <1>6
<1>8. Bytes(q) = SumFunctionOnSet(f, 1..(n + 1)) /\ Bytes(t) = SumFunctionOnSet(g, 1..n)
      /\ Bytes(t) \in Nat
  BY <1>1, SizesType, BytesNat DEF f, g
<1>9. f[1] = Head(q).size /\ Head(q).size \in Nat
  BY <1>1, <1>2, InputsAssumption DEF Message
<1> QED BY <1>1, <1>7, <1>8, <1>9 DEF t, n

\* What the branches of a family are charged.
Charges(f, S) == DOMAIN f = S /\ \A y \in S : f[y] \in Nat

DifferAt(x, f, g, S) ==
    /\ Charges(f, S) /\ Charges(g, S) /\ x \in S
    /\ \A y \in S \ {x} : g[y] = f[y]

ClearedOn(A, f, g, S) ==
    /\ Charges(f, S) /\ Charges(g, S) /\ A \in SUBSET S
    /\ \A y \in A : g[y] = 0
    /\ \A y \in S \ A : g[y] = f[y]

\* A change of one charge changes the total by as much.
LEMMA ChargeOne ==
    ASSUME NEW S, IsFiniteSet(S), NEW x, NEW f, NEW g, DifferAt(x, f, g, S)
    PROVE  /\ SumFunction(f) \in Nat /\ SumFunction(g) \in Nat
           /\ SumFunction(g) = SumFunction(f) - f[x] + g[x]
<1>1. /\ DOMAIN f = S /\ DOMAIN g = S /\ x \in S
      /\ \A y \in S : f[y] \in Nat /\ g[y] \in Nat
      /\ \A y \in S \ {x} : g[y] = f[y]
      /\ \A y \in S : f[y] \in Int /\ g[y] \in Int
  BY DEF DifferAt, Charges
<1>2. SumFunctionOnSet(f, S) \in Nat /\ SumFunctionOnSet(g, S) \in Nat
  BY <1>1, SumNat, Zenon
<1>3. SumFunctionOnSet(g, S) = SumFunctionOnSet(f, S) - f[x] + g[x]
  BY <1>1, SumChange, SMTT(30)
<1> QED BY <1>1, <1>2, <1>3, Zenon DEF SumFunction

\* Clearing some charges takes their sum from the total.
LEMMA ChargeClear ==
    ASSUME NEW S, IsFiniteSet(S), NEW A, NEW f, NEW g, ClearedOn(A, f, g, S)
    PROVE  /\ SumFunctionOnSet(f, A) \in Nat
           /\ SumFunction(f) \in Nat /\ SumFunction(g) \in Nat
           /\ SumFunction(g) = SumFunction(f) - SumFunctionOnSet(f, A)
<1>1. /\ DOMAIN f = S /\ DOMAIN g = S /\ A \in SUBSET S
      /\ \A y \in S : f[y] \in Nat /\ g[y] \in Nat /\ f[y] \in Int
      /\ \A y \in A : g[y] = 0 /\ f[y] \in Nat
      /\ \A y \in S \ A : g[y] = f[y]
  BY DEF ClearedOn, Charges
<1>2. IsFiniteSet(A)
  BY <1>1, FS_Subset
<1>3. SumFunctionOnSet(f, S) \in Nat /\ SumFunctionOnSet(g, S) \in Nat
  BY <1>1, SumNat, Zenon
<1>4. SumFunctionOnSet(f, A) \in Nat
  BY <1>1, <1>2, SumNat, Zenon
<1>5. SumFunctionOnSet(g, S) = SumFunctionOnSet(f, S) - SumFunctionOnSet(f, A)
  BY <1>1, SumClear, SMTT(30)
<1> QED BY <1>1, <1>3, <1>4, <1>5, Zenon DEF SumFunction

SubTotal == SumFunction(SubCharges)
FollowTotal == SumFunction(FollowCharges)
ListTotal == SumFunction(ListCharges)

WithinCaps(q, size, caps) == Len(q) <= caps.Items /\ size <= caps.Bytes

SubsWithin == \A s \in Subs : WithinCaps(sub[s].q, Bytes(sub[s].q), SubCaps)
FollowsWithin == \A f \in Follows : WithinCaps(fol[f].q, Bytes(fol[f].q), FollowCaps)
ListsWithin == \A l \in Lists : WithinCaps(list[l].q, Retained(list[l]), ListCaps)

\* The charges of a family change by d in all, and its caps are kept.
SubsCharged(d) == d \in Int /\ SubTotal' = SubTotal + d /\ SubsWithin'
FollowsCharged(d) == d \in Int /\ FollowTotal' = FollowTotal + d /\ FollowsWithin'
ListsCharged(d) == d \in Int /\ ListTotal' = ListTotal + d /\ ListsWithin'

QueuesOK ==
    /\ \A s \in Subs : sub[s].q \in Seq(Message)
    /\ \A f \in Follows : fol[f].q \in Seq(Message)
    /\ \A l \in Lists : list[l].q \in Seq(Message) /\ list[l].completion.size \in Nat

\* What branches are charged is a natural number.
LEMMA ChargesType ==
    ASSUME QueuesOK
    PROVE  /\ SubCharges \in [Subs -> Nat] /\ FollowCharges \in [Follows -> Nat]
           /\ ListCharges \in [Lists -> Nat]
           /\ SubTotal \in Nat /\ FollowTotal \in Nat /\ ListTotal \in Nat
<1>1. \A s \in Subs : Bytes(sub[s].q) \in Nat
  BY BytesNat DEF QueuesOK
<1>2. \A f \in Follows : Bytes(fol[f].q) \in Nat
  BY BytesNat DEF QueuesOK
<1>3. \A l \in Lists : Retained(list[l]) \in Nat
  <2> SUFFICES ASSUME NEW l \in Lists PROVE Retained(list[l]) \in Nat
    OBVIOUS
  <2>1. Bytes(list[l].q) \in Nat /\ list[l].completion.size \in Nat
    BY BytesNat DEF QueuesOK
  <2> QED BY <2>1 DEF Retained
<1>4. /\ SubCharges \in [Subs -> Nat] /\ FollowCharges \in [Follows -> Nat]
      /\ ListCharges \in [Lists -> Nat]
  BY <1>1, <1>2, <1>3 DEF SubCharges, FollowCharges, ListCharges
<1>5. /\ DOMAIN SubCharges = Subs /\ DOMAIN FollowCharges = Follows
      /\ DOMAIN ListCharges = Lists
  BY DEF SubCharges, FollowCharges, ListCharges
<1>6. /\ \A s \in Subs : SubCharges[s] \in Nat
      /\ \A f \in Follows : FollowCharges[f] \in Nat
      /\ \A l \in Lists : ListCharges[l] \in Nat
  BY <1>4
<1>7. IsFiniteSet(Subs) /\ IsFiniteSet(Follows) /\ IsFiniteSet(Lists)
  BY KindsAssumption, InputsAssumption
<1>8. SubTotal \in Nat
  BY <1>5, <1>6, <1>7, SumNat, Zenon DEF SubTotal, SumFunction
<1>9. FollowTotal \in Nat
  BY <1>5, <1>6, <1>7, SumNat, Zenon DEF FollowTotal, SumFunction
<1>10. ListTotal \in Nat
  BY <1>5, <1>6, <1>7, SumNat, Zenon DEF ListTotal, SumFunction
<1> QED BY <1>4, <1>8, <1>9, <1>10

LEMMA ChargesSame ==
    ASSUME QueuesOK
    PROVE  /\ SubsWithin /\ sub' = sub => SubsCharged(0)
           /\ FollowsWithin /\ fol' = fol => FollowsCharged(0)
           /\ ListsWithin /\ list' = list => ListsCharged(0)
<1>1. SubTotal \in Nat /\ FollowTotal \in Nat /\ ListTotal \in Nat
  BY ChargesType
<1>2. ASSUME SubsWithin, sub' = sub PROVE SubsCharged(0)
  <2>1. SubTotal' = SubTotal /\ SubsWithin'
    BY <1>2 DEF SubTotal, SubCharges, SubsWithin
  <2>2. \A n \in Nat : n = n + 0
    OBVIOUS
  <2> QED BY <1>1, <2>1, <2>2 DEF SubsCharged
<1>3. ASSUME FollowsWithin, fol' = fol PROVE FollowsCharged(0)
  <2>1. FollowTotal' = FollowTotal /\ FollowsWithin'
    BY <1>3 DEF FollowTotal, FollowCharges, FollowsWithin
  <2>2. \A n \in Nat : n = n + 0
    OBVIOUS
  <2> QED BY <1>1, <2>1, <2>2 DEF FollowsCharged
<1>4. ASSUME ListsWithin, list' = list PROVE ListsCharged(0)
  <2>1. ListTotal' = ListTotal /\ ListsWithin'
    BY <1>4 DEF ListTotal, ListCharges, ListsWithin
  <2>2. \A n \in Nat : n = n + 0
    OBVIOUS
  <2> QED BY <1>1, <2>1, <2>2 DEF ListsCharged
<1> QED BY <1>2, <1>3, <1>4

\* One branch becomes b.
LEMMA SubCharged ==
    ASSUME QueuesOK, SubsWithin, sub \in [Subs -> SubType], NEW s \in Subs, NEW b,
           sub' = [sub EXCEPT ![s] = b], b.q \in Seq(Message),
           WithinCaps(b.q, Bytes(b.q), SubCaps)
    PROVE  SubsCharged(Bytes(b.q) - Bytes(sub[s].q))
<1>1. Bytes(b.q) \in Nat /\ Bytes(sub[s].q) \in Nat /\ SubCharges \in [Subs -> Nat]
  BY BytesNat, ChargesType DEF QueuesOK
<1>2. SubCharges' = [SubCharges EXCEPT ![s] = Bytes(b.q)] /\ SubCharges[s] = Bytes(sub[s].q)
  BY DEF SubCharges
<1>3. SubTotal' = SubTotal - Bytes(sub[s].q) + Bytes(b.q) /\ SubTotal \in Nat
  <2> DEFINE h == SubCharges
             g == (SubCharges)'
  <2>1. SubTotal = SumFunction(h) /\ SubTotal' = SumFunction(g) /\ IsFiniteSet(Subs)
    BY InputsAssumption DEF SubTotal
  <2>2. /\ h[s] = Bytes(sub[s].q) /\ g[s] = Bytes(b.q)
        /\ DifferAt(s, h, g, Subs)
    BY <1>1, <1>2 DEF DifferAt, Charges
  <2> HIDE DEF g, h
  <2>3. SumFunction(h) \in Nat /\ SumFunction(g) = SumFunction(h) - h[s] + g[s]
    BY <2>1, <2>2, ChargeOne
  <2> QED BY <2>1, <2>2, <2>3
<1>4. SubsWithin'
  BY DEF SubsWithin
<1>5. \A m, n, k \in Nat : m - n + k = m + (k - n) /\ k - n \in Int
  OBVIOUS
<1> QED BY <1>1, <1>3, <1>4, <1>5 DEF SubsCharged

LEMMA FollowCharged ==
    ASSUME QueuesOK, FollowsWithin, fol \in [Follows -> FollowType], NEW f \in Follows, NEW b,
           fol' = [fol EXCEPT ![f] = b], b.q \in Seq(Message),
           WithinCaps(b.q, Bytes(b.q), FollowCaps)
    PROVE  FollowsCharged(Bytes(b.q) - Bytes(fol[f].q))
<1>1. Bytes(b.q) \in Nat /\ Bytes(fol[f].q) \in Nat /\ FollowCharges \in [Follows -> Nat]
  BY BytesNat, ChargesType DEF QueuesOK
<1>2. FollowCharges' = [FollowCharges EXCEPT ![f] = Bytes(b.q)]
      /\ FollowCharges[f] = Bytes(fol[f].q)
  BY DEF FollowCharges
<1>3. FollowTotal' = FollowTotal - Bytes(fol[f].q) + Bytes(b.q) /\ FollowTotal \in Nat
  <2> DEFINE h == FollowCharges
             g == (FollowCharges)'
  <2>1. FollowTotal = SumFunction(h) /\ FollowTotal' = SumFunction(g) /\ IsFiniteSet(Follows)
    BY KindsAssumption DEF FollowTotal
  <2>2. /\ h[f] = Bytes(fol[f].q) /\ g[f] = Bytes(b.q)
        /\ DifferAt(f, h, g, Follows)
    BY <1>1, <1>2 DEF DifferAt, Charges
  <2> HIDE DEF g, h
  <2>3. SumFunction(h) \in Nat /\ SumFunction(g) = SumFunction(h) - h[f] + g[f]
    BY <2>1, <2>2, ChargeOne
  <2> QED BY <2>1, <2>2, <2>3
<1>4. FollowsWithin'
  BY DEF FollowsWithin
<1>5. \A m, n, k \in Nat : m - n + k = m + (k - n) /\ k - n \in Int
  OBVIOUS
<1> QED BY <1>1, <1>3, <1>4, <1>5 DEF FollowsCharged

LEMMA ListCharged ==
    ASSUME QueuesOK, ListsWithin, list \in [Lists -> ListType], NEW l \in Lists, NEW b,
           list' = [list EXCEPT ![l] = b], Retained(b) \in Nat,
           WithinCaps(b.q, Retained(b), ListCaps)
    PROVE  ListsCharged(Retained(b) - Retained(list[l]))
<1>1. Retained(list[l]) \in Nat /\ ListCharges \in [Lists -> Nat]
  BY ChargesType DEF ListCharges
<1>2. ListCharges' = [ListCharges EXCEPT ![l] = Retained(b)]
      /\ ListCharges[l] = Retained(list[l])
  BY DEF ListCharges
<1>3. ListTotal' = ListTotal - Retained(list[l]) + Retained(b) /\ ListTotal \in Nat
  <2> DEFINE h == ListCharges
             g == (ListCharges)'
  <2>1. ListTotal = SumFunction(h) /\ ListTotal' = SumFunction(g) /\ IsFiniteSet(Lists)
    BY KindsAssumption DEF ListTotal
  <2>2. /\ h[l] = Retained(list[l]) /\ g[l] = Retained(b)
        /\ DifferAt(l, h, g, Lists)
    BY <1>1, <1>2 DEF DifferAt, Charges
  <2> HIDE DEF g, h
  <2>3. SumFunction(h) \in Nat /\ SumFunction(g) = SumFunction(h) - h[l] + g[l]
    BY <2>1, <2>2, ChargeOne
  <2> QED BY <2>1, <2>2, <2>3
<1>4. ListsWithin'
  BY DEF ListsWithin
<1>5. \A m, n, k \in Nat : m - n + k = m + (k - n) /\ k - n \in Int
  OBVIOUS
<1> QED BY <1>1, <1>3, <1>4, <1>5 DEF ListsCharged

----------------------------------------------------------------------------
(* The aggregate of the lists                                              *)

\* What the step of an action may use.
AggregateOK ==
    /\ BranchInductive
    /\ SubsWithin /\ FollowsWithin /\ ListsWithin
    /\ subBytes = SubTotal + FollowTotal /\ subBytes <= MaxSubscriptionBytes
    /\ listBytes = ListTotal /\ listBytes <= MaxListBytes

LEMMA AggregateTypes ==
    ASSUME AggregateOK
    PROVE  /\ QueuesOK
           /\ sub \in [Subs -> SubType] /\ subOrder \in Seq(Subs)
           /\ fol \in [Follows -> FollowType]
           /\ list \in [Lists -> ListType] /\ \A l \in Lists : ListPart(l) /\ HeldListPart(l)
           /\ subBytes \in Nat /\ listBytes \in Nat
           /\ MaxListBytes \in Nat /\ MaxSubscriptionBytes \in Nat
           /\ SubCaps \in CapsType /\ FollowCaps \in CapsType /\ ListCaps \in CapsType
<1>1. /\ sub \in [Subs -> SubType] /\ subOrder \in Seq(Subs)
      /\ fol \in [Follows -> FollowType]
      /\ list \in [Lists -> ListType] /\ \A l \in Lists : ListPart(l) /\ HeldListPart(l)
  BY DEF AggregateOK, BranchInductive, BranchTypeOK, SlotInductive, SlotTypeOK
<1>2. QueuesOK
  <2>1. \A q \in Seq(Unlisted) : q \in Seq(Message)
    BY DEF Unlisted
  <2>2. \A s \in Subs : sub[s].q \in Seq(Message)
    BY <1>1, <2>1 DEF SubType
  <2>3. \A f \in Follows : fol[f].q \in Seq(Message)
    BY <1>1 DEF FollowType
  <2>4. \A l \in Lists : list[l].q \in Seq(Message) /\ list[l].completion.size \in Nat
    BY <1>1 DEF ListType
  <2> QED BY <2>2, <2>3, <2>4 DEF QueuesOK
<1>3. subBytes \in Nat /\ listBytes \in Nat
  BY <1>2, ChargesType DEF AggregateOK
<1> QED BY <1>1, <1>2, <1>3, LimitsAssumption

ListAggregate ==
    \E d : /\ ListsCharged(d) /\ listBytes' = listBytes + d
           /\ d <= 0 \/ listBytes' <= MaxListBytes

LEMMA ListQuiet ==
    ASSUME AggregateOK, UNCHANGED <<list, listBytes>>
    PROVE  ListAggregate
<1>1. ListsCharged(0)
  BY AggregateTypes, ChargesSame DEF AggregateOK
<1>2. listBytes = listBytes + 0
  BY AggregateTypes
<1> QED BY <1>1, <1>2 DEF ListAggregate

\* What an empty and what an unchanged list branch retain.
LEMMA RetainedIs ==
    ASSUME AggregateOK
    PROVE  /\ \A l : l.q = <<>> /\ l.completion = NoMessage =>
                  Retained(l) = 0 /\ WithinCaps(l.q, Retained(l), ListCaps)
           /\ \A a \in Lists : \A l :
                  l.q = list[a].q /\ l.completion = list[a].completion =>
                     /\ Retained(l) = Retained(list[a])
                     /\ WithinCaps(l.q, Retained(l), ListCaps)
           /\ \A a \in Lists : Retained(list[a]) \in Nat
<1>1. ASSUME NEW l, l.q = <<>>, l.completion = NoMessage
      PROVE  Retained(l) = 0 /\ WithinCaps(l.q, Retained(l), ListCaps)
  <2>1. NoMessage.size = 0 /\ Bytes(<<>>) = 0 /\ Len(<<>>) = 0
    BY BytesNat DEF NoMessage
  <2>2. Retained(l) = 0
    BY <1>1, <2>1 DEF Retained
  <2> QED BY <1>1, <2>1, <2>2, AggregateTypes DEF WithinCaps, CapsType
<1>2. ASSUME NEW a \in Lists, NEW l, l.q = list[a].q, l.completion = list[a].completion
      PROVE  Retained(l) = Retained(list[a]) /\ WithinCaps(l.q, Retained(l), ListCaps)
  BY <1>2 DEF Retained, AggregateOK, ListsWithin
<1>3. ASSUME NEW a \in Lists PROVE Retained(list[a]) \in Nat
  <2>1. Bytes(list[a].q) \in Nat /\ list[a].completion.size \in Nat
    BY BytesNat, AggregateTypes DEF QueuesOK
  <2> QED BY <2>1 DEF Retained
<1> QED BY <1>1, <1>2, <1>3

\* A list branch that retains no more, or that the limits have room for.
LEMMA SetListAggregate ==
    ASSUME AggregateOK, NEW a \in Lists, NEW l, Retained(l) \in Nat,
           WithinCaps(l.q, Retained(l), ListCaps),
           list' = [list EXCEPT ![a] = l],
           listBytes' = listBytes - Retained(list[a]) + Retained(l),
           \/ Retained(l) <= Retained(list[a])
           \/ listBytes - Retained(list[a]) + Retained(l) <= MaxListBytes
    PROVE  ListAggregate
<1> DEFINE d == Retained(l) - Retained(list[a])
<1>1. QueuesOK /\ ListsWithin /\ list \in [Lists -> ListType]
  BY AggregateTypes DEF AggregateOK
<1>2. ListsCharged(d)
  BY <1>1, ListCharged
<1>3. listBytes \in Nat /\ Retained(list[a]) \in Nat /\ MaxListBytes \in Nat
  BY RetainedIs, AggregateTypes
<1>4. /\ listBytes - Retained(list[a]) + Retained(l) = listBytes + d
      /\ Retained(l) <= Retained(list[a]) => d <= 0
  BY <1>3
<1> HIDE DEF d
<1> QED BY <1>2, <1>4 DEF ListAggregate

LEMMA AdmitList ==
    ASSUME AggregateOK, NEW a \in Own, Admit(a)
    PROVE  ListAggregate
<1>1. CASE a \notin Lists
  BY <1>1, ListQuiet DEF Admit
<1>2. CASE a \in Lists
  <2>1. list[a].q = <<>> /\ list[a].completion = NoMessage
    BY <1>2, AggregateTypes DEF Admit, HeldListPart, PhasePart, Admitted
  <2>2. NewList.q = <<>> /\ NewList.completion = NoMessage
    BY DEF NewList, NoList
  <2>3. Retained(list[a]) = 0 /\ Retained(NewList) = 0
        /\ WithinCaps(NewList.q, Retained(NewList), ListCaps)
    BY <2>1, <2>2, RetainedIs
  <2>4. list' = [list EXCEPT ![a] = NewList] /\ listBytes' = listBytes
    BY <1>2 DEF Admit
  <2>5. listBytes' = listBytes - Retained(list[a]) + Retained(NewList)
    BY <2>3, <2>4, AggregateTypes
  <2>6. Retained(NewList) \in Nat /\ Retained(NewList) <= Retained(list[a])
    BY <2>3
  <2> QED BY <1>2, <2>3, <2>4, <2>5, <2>6, SetListAggregate
<1> QED BY <1>1, <1>2

\* SetList with a branch that is empty or retains what it did.
Shrinks(l, k) ==
    \/ l.q = <<>> /\ l.completion = NoMessage
    \/ l.q = k.q /\ l.completion = k.completion

LEMMA SetListShrinks ==
    ASSUME AggregateOK, NEW a \in Lists, NEW l, SetList(a, l), Shrinks(l, list[a])
    PROVE  ListAggregate
<1>1. /\ Retained(l) \in Nat /\ Retained(l) <= Retained(list[a])
      /\ WithinCaps(l.q, Retained(l), ListCaps)
  <2>1. CASE l.q = <<>> /\ l.completion = NoMessage
    <3>1. Retained(l) = 0 /\ Retained(list[a]) \in Nat
      BY <2>1, RetainedIs
    <3> QED BY <2>1, <3>1, RetainedIs
  <2>2. CASE l.q = list[a].q /\ l.completion = list[a].completion
    <3>1. Retained(l) = Retained(list[a]) /\ Retained(list[a]) \in Nat
      BY <2>2, RetainedIs
    <3> QED BY <2>2, <3>1, RetainedIs
  <2> QED BY <2>1, <2>2 DEF Shrinks
<1> QED BY <1>1, SetListAggregate DEF SetList

LEMMA NoListShrinks == \A k : Shrinks(NoList, k)
  BY DEF Shrinks, NoList

LEMMA RespondedShrinks ==
    ASSUME NEW l \in ListType, l.phase \in EarlyPhases \cup {"dead"}, NEW success \in BOOLEAN
    PROVE  Shrinks(Responded(l, success), l)
<1>1. CASE ~success
  <2>1. Responded(l, success) = NoList
    BY <1>1 DEF Responded
  <2> QED BY <2>1, NoListShrinks
<1>2. CASE success
  <2>1. Responded(l, success) = Responded(l, TRUE)
    BY <1>2
  <2> QED BY <2>1, RespondedFields DEF Shrinks
<1> QED BY <1>1, <1>2

LEMMA ListDead ==
    ASSUME AggregateOK, NEW why, Die(why)
    PROVE  ListAggregate
<1> DEFINE h == ListCharges
           g == (ListCharges)'
           d == 0 - SumFunctionOnSet(h, KilledLists)
<1>0. /\ list' = [l \in Lists |-> IF l \in KilledLists THEN EndedList(list[l], "ClientDead")
                                  ELSE list[l]]
      /\ listBytes' = listBytes - SumFunctionOnSet(h, KilledLists)
      /\ KilledLists \subseteq Lists
  BY DEF Die, KilledLists
<1>1. ASSUME NEW l \in Lists
      PROVE  /\ l \in KilledLists => Retained(list'[l]) = 0
             /\ l \notin KilledLists => list'[l] = list[l]
             /\ Retained(list'[l]) \in Nat
             /\ WithinCaps(list'[l].q, Retained(list'[l]), ListCaps)
  <2>1. CASE l \in KilledLists
    <3>1. list'[l] = EndedList(list[l], "ClientDead")
      BY <1>0, <2>1
    <3>2. list'[l].q = <<>> /\ list'[l].completion = NoMessage
      BY <3>1, EndedListFields, AggregateTypes DEF Reasons
    <3>3. /\ Retained(list'[l]) = 0
          /\ WithinCaps(list'[l].q, Retained(list'[l]), ListCaps)
      BY <3>2, RetainedIs
    <3> QED BY <2>1, <3>3
  <2>2. CASE l \notin KilledLists
    <3>1. list'[l] = list[l]
      BY <1>0, <2>2
    <3> QED BY <2>2, <3>1, RetainedIs
  <2> QED BY <2>1, <2>2
<1>2. ClearedOn(KilledLists, h, g, Lists)
  <2>1. DOMAIN h = Lists /\ DOMAIN g = Lists
    BY DEF ListCharges
  <2>2. \A l \in Lists : h[l] = Retained(list[l]) /\ g[l] = Retained(list'[l])
    BY DEF ListCharges
  <2>3. \A l \in Lists : Retained(list[l]) \in Nat
    BY RetainedIs
  <2> HIDE DEF h, g
  <2> QED BY <1>0, <1>1, <2>1, <2>2, <2>3 DEF ClearedOn, Charges
<1>3. ListTotal = SumFunction(h) /\ ListTotal' = SumFunction(g)
  BY DEF ListTotal
<1>4. ListsWithin'
  BY <1>1 DEF ListsWithin
<1> HIDE DEF h, g
<1>5. /\ SumFunctionOnSet(h, KilledLists) \in Nat /\ SumFunction(h) \in Nat
      /\ SumFunction(g) = SumFunction(h) - SumFunctionOnSet(h, KilledLists)
  BY <1>2, ChargeClear, KindsAssumption
<1>6. \A m, n \in Nat : m - n = m + (0 - n) /\ 0 - n \in Int /\ 0 - n <= 0
  OBVIOUS
<1>7. d \in Int /\ d <= 0 /\ ListTotal' = ListTotal + d /\ listBytes' = listBytes + d
  <2>1. listBytes \in Nat
    BY AggregateTypes
  <2> QED BY <1>0, <1>3, <1>5, <1>6, <2>1
<1> HIDE DEF d
<1> QED BY <1>4, <1>7 DEF ListAggregate, ListsCharged

LEMMA TakeItemList ==
    ASSUME AggregateOK, NEW b \in Branches, TakeItem(b)
    PROVE  ListAggregate
<1>1. CASE b \notin Lists
  BY <1>1, ListQuiet DEF TakeItem
<1>2. CASE b \in Lists
  <2> DEFINE q == list[b].q
             l == [list[b] EXCEPT !.q = Tail(q)]
  <2>1. b \notin Subs /\ b \notin Follows
    BY <1>2, Kinds
  <2>2. /\ q # <<>> /\ list' = [list EXCEPT ![b].q = Tail(@)]
        /\ listBytes' = listBytes - Head(q).size
    BY <1>2, <2>1 DEF TakeItem, Queue
  <2>3. list \in [Lists -> ListType] /\ q \in Seq(Message)
    BY <1>2, AggregateTypes DEF QueuesOK
  <2>4. list' = [list EXCEPT ![b] = l]
    BY <2>2, <2>3
  <2>5. l.q = Tail(q) /\ l.completion = list[b].completion
    BY <1>2, <2>3 DEF ListType
  <2>6. /\ Bytes(Tail(q)) = Bytes(q) - Head(q).size /\ Head(q).size \in Nat
        /\ Len(Tail(q)) = Len(q) - 1 /\ Tail(q) \in Seq(Message)
    BY <2>2, <2>3, BytesTail
  <2>7. /\ Bytes(Tail(q)) \in Nat /\ Bytes(q) \in Nat /\ Len(q) \in Nat
        /\ list[b].completion.size \in Nat
    <3>1. list[b].completion.size \in Nat
      BY <1>2, AggregateTypes DEF QueuesOK
    <3>2. Len(q) \in Nat
      BY <2>3
    <3> HIDE DEF q
    <3> QED BY <2>3, <2>6, <3>1, <3>2, BytesNat
  <2>8. Len(q) <= ListCaps.Items /\ Retained(list[b]) <= ListCaps.Bytes
        /\ ListCaps.Items \in Nat /\ ListCaps.Bytes \in Nat
    BY <1>2, AggregateTypes DEF AggregateOK, ListsWithin, WithinCaps, CapsType
  <2>9. Retained(list[b]) = Bytes(q) + list[b].completion.size
    BY DEF Retained
  <2>10. Retained(l) = Bytes(Tail(q)) + list[b].completion.size
    BY <2>5 DEF Retained
  <2>11. /\ Retained(l) \in Nat /\ Retained(l) <= Retained(list[b])
         /\ WithinCaps(l.q, Retained(l), ListCaps)
         /\ listBytes' = listBytes - Retained(list[b]) + Retained(l)
    <3>1. listBytes \in Nat
      BY AggregateTypes
    <3> HIDE DEF l, q
    <3> DEFINE all == Bytes(q)
               rest == Bytes(Tail(q))
               head == Head(q).size
               done == list[b].completion.size
    <3>2. /\ all \in Nat /\ rest \in Nat /\ head \in Nat /\ done \in Nat /\ rest = all - head
          /\ Retained(list[b]) = all + done /\ Retained(l) = rest + done
          /\ Len(q) \in Nat /\ Len(l.q) = Len(q) - 1
      BY <2>5, <2>6, <2>7, <2>9, <2>10
    <3> HIDE DEF all, rest, head, done
    <3>3. /\ listBytes - head = listBytes - Retained(list[b]) + Retained(l)
          /\ Retained(l) \in Nat /\ Retained(l) <= Retained(list[b])
      BY <3>1, <3>2
    <3>4. Len(l.q) <= ListCaps.Items /\ Retained(l) <= ListCaps.Bytes
      BY <2>8, <3>2
    <3>5. listBytes' = listBytes - head
      BY <2>2 DEF head
    <3> QED BY <3>3, <3>4, <3>5 DEF WithinCaps
  <2> HIDE DEF l, q
  <2> QED BY <1>2, <2>4, <2>11, SetListAggregate
<1> QED BY <1>1, <1>2

LEMMA EndedShrinks ==
    ASSUME NEW l \in ListType, NEW why, NEW k
    PROVE  Shrinks(EndedList(l, why), k)
<1>1. EndedList(l, why).q = <<>> /\ EndedList(l, why).completion = NoMessage
  BY DEF EndedList, Ended, ListType
<1> QED BY <1>1 DEF Shrinks

\* An event is queued, or stored as the completion, if it fits.
LEMMA RouteListEventList ==
    ASSUME AggregateOK, NEW a \in Lists, NEW e \in ListEvent(a), RouteListEvent(a, e)
    PROVE  ListAggregate
<1> DEFINE l == Observed(a, e)
           stored == [l EXCEPT !.phase = IF l.phase = "buffering" THEN "bufferedComplete"
                                         ELSE "draining",
                               !.completion = [size |-> e.size, count |-> e.count]]
           queued == [l EXCEPT !.q = Append(@, Queued(e)), !.items = @ + 1]
<1>1. /\ l \in ListType /\ l.phase = list[a].phase
      /\ l.q = list[a].q /\ l.completion = list[a].completion
  BY AggregateTypes, ObservedFields
<1>2. e.size \in Nat /\ Queued(e) \in Message /\ Queued(e).size = e.size
  BY InputsAssumption, Kinds DEF ListEvent, Queued, Message
<1>3. /\ list \in [Lists -> ListType] /\ list[a].q \in Seq(Message)
      /\ list[a].completion.size \in Nat /\ Bytes(list[a].q) \in Nat /\ listBytes \in Nat
      /\ Len(list[a].q) \in Nat
  BY AggregateTypes, BytesNat DEF QueuesOK
<1>4. \/ \E k, wake : SetList(a, k) /\ Shrinks(k, list[a])
      \/ /\ SetList(a, stored) /\ ListFits(l, e.size, FALSE)
         /\ l.phase \in {"buffering", "streaming"}
      \/ SetList(a, queued) /\ ListFits(l, e.size, TRUE)
  <2>1. Shrinks(l, list[a])
    BY <1>1 DEF Shrinks
  <2>2. Shrinks([l EXCEPT !.phase = "bufferedCancelled"], list[a])
    BY <1>1 DEF Shrinks, ListType
  <2>3. \A why : Shrinks(EndedList(l, why), list[a])
    BY <1>1, EndedShrinks
  <2> HIDE DEF l
  <2> QED BY <2>1, <2>2, <2>3, Zenon DEF RouteListEvent, ListStep, l
<1>5. CASE \E k, wake : SetList(a, k) /\ Shrinks(k, list[a])
  BY <1>5, SetListShrinks
<1>6. Retained(l) = Retained(list[a])
      /\ Retained(list[a]) = Bytes(list[a].q) + list[a].completion.size
  BY <1>1 DEF Retained
<1>7. CASE /\ SetList(a, stored) /\ ListFits(l, e.size, FALSE)
           /\ l.phase \in {"buffering", "streaming"}
  <2>1. stored.q = list[a].q /\ stored.completion.size = e.size
    BY <1>1 DEF ListType
  <2>2. list[a].completion.size = 0
    <3>1. list[a].completion = NoMessage
      BY <1>1, <1>7, AggregateTypes DEF HeldListPart
    <3> QED BY <3>1 DEF NoMessage
  <2>3. Retained(stored) = Bytes(list[a].q) + e.size
    BY <2>1 DEF Retained
  <2> HIDE DEF stored
  <2>4. /\ Retained(list[a]) + e.size <= ListCaps.Bytes
        /\ listBytes + e.size <= MaxListBytes
    BY <1>6, <1>7 DEF ListFits
  <2>5. Retained(stored) = Retained(list[a]) + e.size /\ Retained(stored) \in Nat
        /\ Retained(list[a]) \in Nat
    BY <1>2, <1>3, <1>6, <2>2, <2>3
  <2>6. Len(list[a].q) <= ListCaps.Items
    BY AggregateTypes DEF AggregateOK, ListsWithin, WithinCaps
  <2>7. WithinCaps(stored.q, Retained(stored), ListCaps)
    BY <2>1, <2>4, <2>5, <2>6 DEF WithinCaps
  <2>8. listBytes - Retained(list[a]) + Retained(stored) = listBytes + e.size
    BY <1>2, <1>3, <2>5
  <2> QED BY <1>7, <2>4, <2>5, <2>7, <2>8, SetListAggregate DEF SetList
<1>8. CASE SetList(a, queued) /\ ListFits(l, e.size, TRUE)
  <2>1. queued.q = Append(list[a].q, Queued(e)) /\ queued.completion = list[a].completion
    BY <1>1 DEF ListType
  <2> HIDE DEF queued
  <2>2. /\ Bytes(Append(list[a].q, Queued(e))) = Bytes(list[a].q) + e.size
        /\ Len(Append(list[a].q, Queued(e))) = Len(list[a].q) + 1
    BY <1>2, <1>3, BytesAppend
  <2>3. Retained(queued) = Bytes(list[a].q) + e.size + list[a].completion.size
    BY <2>1, <2>2 DEF Retained
  <2>4. /\ Retained(list[a]) + e.size <= ListCaps.Bytes
        /\ listBytes + e.size <= MaxListBytes /\ Len(list[a].q) < ListCaps.Items
    BY <1>1, <1>6, <1>8 DEF ListFits
  <2>5. Retained(queued) = Retained(list[a]) + e.size /\ Retained(queued) \in Nat
        /\ Retained(list[a]) \in Nat
    BY <1>2, <1>3, <1>6, <2>3
  <2>6. ListCaps.Items \in Nat
    BY AggregateTypes DEF CapsType
  <2>7. WithinCaps(queued.q, Retained(queued), ListCaps)
    BY <1>3, <2>1, <2>2, <2>4, <2>5, <2>6 DEF WithinCaps
  <2>8. listBytes - Retained(list[a]) + Retained(queued) = listBytes + e.size
    BY <1>2, <1>3, <2>5
  <2> QED BY <1>8, <2>4, <2>5, <2>7, <2>8, SetListAggregate DEF SetList
<1> QED BY <1>4, <1>5, <1>7, <1>8

\* The other actions that set a list branch.
LEMMA OtherLists ==
    ASSUME AggregateOK
    PROVE  /\ \A a \in Own : AbortNotSent(a) \/ Abandon(a) => ListAggregate
           /\ \A l \in Lists : CloseList(l) \/ CloseListBranch(l) \/ AdoptList(l) => ListAggregate
           /\ \A a \in Own : \A success \in BOOLEAN :
                 RoutePendingResponse(a, success) => ListAggregate
<1>1. ASSUME NEW a \in Own, AbortNotSent(a) PROVE ListAggregate
  <2>1. CASE a \in lstOpen
    <3>1. a \in Lists /\ SetList(a, NoList)
      BY <1>1, <2>1, AggregateTypes
         DEF AbortNotSent, AggregateOK, BranchInductive, SlotInductive, SlotTypeOK
    <3> QED BY <3>1, NoListShrinks, SetListShrinks
  <2>2. CASE a \notin lstOpen
    BY <1>1, <2>2, ListQuiet DEF AbortNotSent, listVars
  <2> QED BY <2>1, <2>2
<1>2. ASSUME NEW a \in Own, Abandon(a) PROVE ListAggregate
  <2>1. CASE a \in Lists
    BY <1>2, <2>1, NoListShrinks, SetListShrinks DEF Abandon
  <2>2. CASE a \notin Lists
    BY <1>2, <2>2, ListQuiet DEF Abandon, listVars
  <2> QED BY <2>1, <2>2
<1>3. ASSUME NEW l \in Lists, CloseList(l) \/ CloseListBranch(l) PROVE ListAggregate
  BY <1>3, NoListShrinks, SetListShrinks DEF CloseList, CloseListBranch
<1>4. ASSUME NEW l \in Lists, AdoptList(l) PROVE ListAggregate
  <2> DEFINE k == [list[l] EXCEPT !.adopted = TRUE]
  <2>1. k.q = list[l].q /\ k.completion = list[l].completion
    BY AggregateTypes DEF ListType
  <2>2. list' = [list EXCEPT ![l] = k] /\ listBytes' = listBytes
    BY <1>4 DEF AdoptList
  <2> HIDE DEF k
  <2>3. /\ Retained(k) = Retained(list[l]) /\ Retained(list[l]) \in Nat
        /\ WithinCaps(k.q, Retained(k), ListCaps) /\ listBytes \in Nat
    BY <2>1, RetainedIs, AggregateTypes
  <2>4. listBytes - Retained(list[l]) + Retained(k) = listBytes
        /\ Retained(k) \in Nat /\ Retained(k) <= Retained(list[l])
    BY <2>3
  <2> QED BY <2>2, <2>3, <2>4, SetListAggregate
<1>5. ASSUME NEW a \in Own, NEW success \in BOOLEAN, RoutePendingResponse(a, success)
      PROVE  ListAggregate
  <2>1. CASE a \in Lists
    <3>1. SetList(a, Responded(list[a], success)) /\ a \in pendByAction
      BY <1>5, <2>1 DEF RoutePendingResponse
    <3>2. list[a] \in ListType /\ list[a].phase \in EarlyPhases \cup {"dead"}
      BY <2>1, <3>1, AggregateTypes
         DEF AggregateOK, BranchInductive, SlotInductive, PendingPart, ListPart
    <3> QED BY <2>1, <3>1, <3>2, RespondedShrinks, SetListShrinks
  <2>2. CASE a \notin Lists
    BY <1>5, <2>2, ListQuiet DEF RoutePendingResponse, listVars
  <2> QED BY <2>1, <2>2
<1> QED BY <1>1, <1>2, <1>3, <1>4, <1>5

----------------------------------------------------------------------------
(* The aggregate of subscriptions and follows                              *)

SubAggregate ==
    \E ds, df : /\ SubsCharged(ds) /\ FollowsCharged(df)
                /\ subBytes' = subBytes + (ds + df)
                /\ ds + df <= 0 \/ subBytes' <= MaxSubscriptionBytes

LEMMA SubQuiet ==
    ASSUME AggregateOK, UNCHANGED <<sub, fol, subBytes>>
    PROVE  SubAggregate
<1>1. SubsCharged(0) /\ FollowsCharged(0)
  BY AggregateTypes, ChargesSame DEF AggregateOK
<1>2. subBytes = subBytes + (0 + 0) /\ 0 + 0 <= 0
  BY AggregateTypes
<1> QED BY <1>1, <1>2 DEF SubAggregate

\* What an empty branch is charged.
LEMMA EmptyCharge ==
    ASSUME AggregateOK
    PROVE  /\ WithinCaps(<<>>, Bytes(<<>>), SubCaps)
           /\ WithinCaps(<<>>, Bytes(<<>>), FollowCaps)
           /\ Bytes(<<>>) = 0 /\ <<>> \in Seq(Message)
<1>1. Bytes(<<>>) = 0 /\ Len(<<>>) = 0 /\ <<>> \in Seq(Message)
  BY BytesNat
<1> QED BY <1>1, AggregateTypes DEF WithinCaps, CapsType

\* A queue without its head is charged less, and within the caps.
LEMMA TailCharge ==
    ASSUME NEW q \in Seq(Message), q # <<>>, NEW caps \in CapsType, WithinCaps(q, Bytes(q), caps)
    PROVE  /\ Tail(q) \in Seq(Message) /\ WithinCaps(Tail(q), Bytes(Tail(q)), caps)
           /\ Bytes(q) \in Nat /\ Bytes(Tail(q)) \in Nat /\ Head(q).size \in Nat
           /\ Bytes(Tail(q)) = Bytes(q) - Head(q).size
<1>1. /\ Bytes(Tail(q)) = Bytes(q) - Head(q).size /\ Head(q).size \in Nat
      /\ Len(Tail(q)) = Len(q) - 1 /\ Tail(q) \in Seq(Message)
  BY BytesTail
<1>2. Bytes(q) \in Nat /\ Bytes(Tail(q)) \in Nat
  BY <1>1, BytesNat
<1>3. Len(q) \in Nat
  OBVIOUS
<1>4. Len(q) <= caps.Items /\ Bytes(q) <= caps.Bytes /\ caps.Items \in Nat /\ caps.Bytes \in Nat
  BY DEF WithinCaps, CapsType
<1>5. Len(Tail(q)) <= caps.Items
  BY <1>1, <1>3, <1>4
<1>6. Bytes(Tail(q)) <= caps.Bytes
  <2> DEFINE all == Bytes(q)
             rest == Bytes(Tail(q))
             head == Head(q).size
  <2>1. rest = all - head /\ head \in Nat /\ all \in Nat /\ all <= caps.Bytes
    BY <1>1, <1>2, <1>4
  <2> HIDE DEF all, rest, head
  <2> QED BY <1>4, <2>1 DEF rest
<1> QED BY <1>1, <1>2, <1>5, <1>6 DEF WithinCaps

\* One follow or one subscription changes, to a branch charged no more.
LEMMA FollowAggregate ==
    ASSUME AggregateOK, NEW f \in Follows, NEW b, sub' = sub,
           fol' = [fol EXCEPT ![f] = b], b.q \in Seq(Message),
           WithinCaps(b.q, Bytes(b.q), FollowCaps), Bytes(b.q) <= Bytes(fol[f].q),
           subBytes' = subBytes - (Bytes(fol[f].q) - Bytes(b.q))
    PROVE  SubAggregate
<1> DEFINE d == Bytes(b.q) - Bytes(fol[f].q)
<1>1. QueuesOK /\ FollowsWithin /\ SubsWithin /\ fol \in [Follows -> FollowType] /\ subBytes \in Nat
  BY AggregateTypes DEF AggregateOK
<1>2. FollowsCharged(d) /\ SubsCharged(0)
  BY <1>1, FollowCharged, ChargesSame
<1>3. Bytes(b.q) \in Nat /\ Bytes(fol[f].q) \in Nat
  BY <1>1, BytesNat DEF QueuesOK
<1>4. subBytes - (Bytes(fol[f].q) - Bytes(b.q)) = subBytes + (0 + d) /\ 0 + d <= 0
  BY <1>1, <1>3
<1> HIDE DEF d
<1> QED BY <1>2, <1>4 DEF SubAggregate

LEMMA SubscriptionAggregate ==
    ASSUME AggregateOK, NEW s \in Subs, NEW b, fol' = fol,
           sub' = [sub EXCEPT ![s] = b], b.q \in Seq(Message),
           WithinCaps(b.q, Bytes(b.q), SubCaps), Bytes(b.q) <= Bytes(sub[s].q),
           subBytes' = subBytes - (Bytes(sub[s].q) - Bytes(b.q))
    PROVE  SubAggregate
<1> DEFINE d == Bytes(b.q) - Bytes(sub[s].q)
<1>1. QueuesOK /\ FollowsWithin /\ SubsWithin /\ sub \in [Subs -> SubType] /\ subBytes \in Nat
  BY AggregateTypes DEF AggregateOK
<1>2. SubsCharged(d) /\ FollowsCharged(0)
  BY <1>1, SubCharged, ChargesSame
<1>3. Bytes(b.q) \in Nat /\ Bytes(sub[s].q) \in Nat
  BY <1>1, BytesNat DEF QueuesOK
<1>4. subBytes - (Bytes(sub[s].q) - Bytes(b.q)) = subBytes + (d + 0) /\ d + 0 <= 0
  BY <1>1, <1>3
<1> HIDE DEF d
<1> QED BY <1>2, <1>4 DEF SubAggregate

\* A branch that is emptied.
LEMMA EmptiedAggregate ==
    ASSUME AggregateOK
    PROVE  /\ \A f \in Follows : \A b :
                 /\ sub' = sub /\ fol' = [fol EXCEPT ![f] = b] /\ b.q = <<>>
                 /\ subBytes' = subBytes - Bytes(fol[f].q)
                 => SubAggregate
           /\ \A s \in Subs : \A b :
                 /\ fol' = fol /\ sub' = [sub EXCEPT ![s] = b] /\ b.q = <<>>
                 /\ subBytes' = subBytes - Bytes(sub[s].q)
                 => SubAggregate
<1>1. ASSUME NEW f \in Follows, NEW b, sub' = sub, fol' = [fol EXCEPT ![f] = b], b.q = <<>>,
             subBytes' = subBytes - Bytes(fol[f].q)
      PROVE  SubAggregate
  <2>1. Bytes(fol[f].q) \in Nat /\ subBytes \in Nat
    BY AggregateTypes, BytesNat DEF QueuesOK
  <2>2. Bytes(b.q) = 0
    BY <1>1, EmptyCharge
  <2>3. subBytes - Bytes(fol[f].q) = subBytes - (Bytes(fol[f].q) - Bytes(b.q))
        /\ Bytes(b.q) <= Bytes(fol[f].q)
    BY <2>1, <2>2
  <2>4. b.q \in Seq(Message) /\ WithinCaps(b.q, Bytes(b.q), FollowCaps)
    BY <1>1, EmptyCharge
  <2> QED BY <1>1, <2>3, <2>4, FollowAggregate
<1>2. ASSUME NEW s \in Subs, NEW b, fol' = fol, sub' = [sub EXCEPT ![s] = b], b.q = <<>>,
             subBytes' = subBytes - Bytes(sub[s].q)
      PROVE  SubAggregate
  <2>1. Bytes(sub[s].q) \in Nat /\ subBytes \in Nat
    BY AggregateTypes, BytesNat DEF QueuesOK
  <2>2. Bytes(b.q) = 0
    BY <1>2, EmptyCharge
  <2>3. subBytes - Bytes(sub[s].q) = subBytes - (Bytes(sub[s].q) - Bytes(b.q))
        /\ Bytes(b.q) <= Bytes(sub[s].q)
    BY <2>1, <2>2
  <2>4. b.q \in Seq(Message) /\ WithinCaps(b.q, Bytes(b.q), SubCaps)
    BY <1>2, EmptyCharge
  <2> QED BY <1>2, <2>3, <2>4, SubscriptionAggregate
<1> QED BY <1>1, <1>2

LEMMA ReleaseFollowAggregate ==
    ASSUME AggregateOK, NEW a, ReleaseFollow(a), sub' = sub
    PROVE  SubAggregate
<1>1. CASE a \in folOpen
  <2>1. a \in Follows
    BY <1>1 DEF AggregateOK, BranchInductive, SlotInductive, SlotTypeOK
  <2>2. fol' = [fol EXCEPT ![a] = NoFollow] /\ subBytes' = subBytes - Bytes(fol[a].q)
    BY <1>1 DEF ReleaseFollow
  <2> QED BY <2>1, <2>2, EmptiedAggregate, BranchConstants
<1>2. CASE a \notin folOpen
  BY <1>2, SubQuiet DEF ReleaseFollow, folVars
<1> QED BY <1>1, <1>2

\* The actions on one branch.
LEMMA OneBranchAggregate ==
    ASSUME AggregateOK
    PROVE  /\ \A a \in Own : Admit(a) \/ AbortNotSent(a) \/ Abandon(a) => SubAggregate
           /\ \A f \in Follows :
                 AdoptFollow(f) \/ CloseFollow(f) \/ CloseFollowBranch(f) => SubAggregate
           /\ \A s \in Subs : Subscribe(s) \/ CloseSub(s) => SubAggregate
           /\ \A b \in Branches : TakeItem(b) => SubAggregate
<1>1. ASSUME NEW a \in Own, AbortNotSent(a) \/ Abandon(a) PROVE SubAggregate
  BY <1>1, ReleaseFollowAggregate DEF AbortNotSent, Abandon, subVars
<1>2. ASSUME NEW a \in Own, Admit(a) PROVE SubAggregate
  <2>1. CASE a \notin Follows
    BY <1>2, <2>1, SubQuiet DEF Admit, subVars
  <2>2. CASE a \in Follows
    <3>1. /\ sub' = sub /\ subBytes' = subBytes /\ fol' = [fol EXCEPT ![a] = NewFollow]
          /\ ~Admitted(a)
      BY <1>2, <2>2 DEF Admit, subVars, Admitted
    <3>2. fol[a].q = <<>>
      BY <2>2, <3>1, BranchConstants DEF AggregateOK, BranchInductive, FollowPart
    <3>3. Bytes(fol[a].q) = 0 /\ subBytes \in Nat /\ subBytes = subBytes - 0
      BY <3>2, EmptyCharge, AggregateTypes
    <3>4. subBytes' = subBytes - Bytes(fol[a].q)
      BY <3>1, <3>3
    <3> QED BY <2>2, <3>1, <3>4, EmptiedAggregate, BranchConstants
  <2> QED BY <2>1, <2>2
<1>3. ASSUME NEW f \in Follows, AdoptFollow(f) PROVE SubAggregate
  <2> DEFINE b == [fol[f] EXCEPT !.adopted = TRUE]
  <2>1. fol \in [Follows -> FollowType] /\ fol[f].q \in Seq(Message) /\ subBytes \in Nat
    BY AggregateTypes DEF QueuesOK
  <2>2. b.q = fol[f].q
    BY <2>1 DEF FollowType
  <2>3. fol' = [fol EXCEPT ![f] = b] /\ sub' = sub /\ subBytes' = subBytes
    BY <1>3 DEF AdoptFollow, subVars
  <2> HIDE DEF b
  <2>4. WithinCaps(b.q, Bytes(b.q), FollowCaps) /\ Bytes(b.q) \in Nat
    BY <2>1, <2>2, BytesNat DEF AggregateOK, FollowsWithin
  <2>5. subBytes = subBytes - (Bytes(fol[f].q) - Bytes(b.q)) /\ Bytes(b.q) <= Bytes(fol[f].q)
    BY <2>1, <2>2, <2>4
  <2> QED BY <2>1, <2>2, <2>3, <2>4, <2>5, FollowAggregate
<1>4. ASSUME NEW f \in Follows, CloseFollow(f) PROVE SubAggregate
  BY <1>4, ReleaseFollowAggregate DEF CloseFollow, subVars
<1>5. ASSUME NEW f \in Follows, CloseFollowBranch(f) PROVE SubAggregate
  <2>1. /\ fol' = [fol EXCEPT ![f] = NoFollow] /\ subBytes' = subBytes - Bytes(fol[f].q)
        /\ sub' = sub
    BY <1>5 DEF CloseFollowBranch, subVars
  <2> QED BY <2>1, EmptiedAggregate, BranchConstants
<1>6. ASSUME NEW s \in Subs, CloseSub(s) PROVE SubAggregate
  <2>1. /\ sub' = [sub EXCEPT ![s] = NoSub] /\ subBytes' = subBytes - Bytes(sub[s].q)
        /\ fol' = fol
    BY <1>6 DEF CloseSub, folVars
  <2> QED BY <2>1, EmptiedAggregate, BranchConstants
<1>7. ASSUME NEW s \in Subs, Subscribe(s) PROVE SubAggregate
  <2>1. /\ sub' = [sub EXCEPT ![s] = NewSub] /\ subBytes' = subBytes /\ fol' = fol
        /\ sub[s].phase = "none"
    BY <1>7 DEF Subscribe, folVars
  <2>2. sub[s].q = <<>>
    BY <2>1 DEF AggregateOK, BranchInductive, SubPart, PhasePart
  <2>3. Bytes(sub[s].q) = 0 /\ subBytes \in Nat /\ subBytes = subBytes - 0
    BY <2>2, EmptyCharge, AggregateTypes
  <2>4. subBytes' = subBytes - Bytes(sub[s].q)
    BY <2>1, <2>3
  <2> QED BY <2>1, <2>4, EmptiedAggregate, BranchConstants
<1>8. ASSUME NEW b \in Branches, TakeItem(b) PROVE SubAggregate
  <2>0. subBytes \in Nat /\ SubCaps \in CapsType /\ FollowCaps \in CapsType
    BY AggregateTypes
  <2>1. CASE b \in Lists
    <3>1. b \notin Subs /\ b \notin Follows
      BY <2>1, Kinds
    <3> QED BY <1>8, <2>1, <3>1, SubQuiet DEF TakeItem
  <2>2. CASE b \in Follows
    <3> DEFINE q == fol[b].q
               k == [fol[b] EXCEPT !.q = Tail(q)]
    <3>1. b \notin Subs /\ b \notin Lists
      BY <2>2, Kinds
    <3>2. fol \in [Follows -> FollowType] /\ q \in Seq(Message)
          /\ WithinCaps(q, Bytes(q), FollowCaps)
      BY <2>2, AggregateTypes DEF QueuesOK, AggregateOK, FollowsWithin
    <3>3. /\ q # <<>> /\ fol' = [fol EXCEPT ![b] = k] /\ sub' = sub
          /\ subBytes' = subBytes - Head(q).size
      BY <1>8, <2>2, <3>1, <3>2 DEF TakeItem, Queue
    <3>4. k.q = Tail(q)
      BY <2>2, <3>2 DEF FollowType
    <3> HIDE DEF q, k
    <3>5. /\ Tail(q) \in Seq(Message) /\ WithinCaps(Tail(q), Bytes(Tail(q)), FollowCaps)
          /\ Bytes(q) \in Nat /\ Bytes(Tail(q)) \in Nat /\ Head(q).size \in Nat
          /\ Bytes(Tail(q)) = Bytes(q) - Head(q).size
      BY <2>0, <3>2, <3>3, TailCharge
    <3>6. \A n, m, h, r \in Nat : r = m - h => n - h = n - (m - r) /\ r <= m
      OBVIOUS
    <3>7. subBytes' = subBytes - (Bytes(q) - Bytes(k.q)) /\ Bytes(k.q) <= Bytes(q)
      BY <2>0, <3>3, <3>4, <3>5, <3>6
    <3> QED BY <2>2, <3>3, <3>4, <3>5, <3>7, FollowAggregate DEF q
  <2>3. CASE b \in Subs
    <3> DEFINE q == sub[b].q
               k == [sub[b] EXCEPT !.q = Tail(q)]
    <3>1. b \notin Follows /\ b \notin Lists
      BY <2>3, Kinds
    <3>2. sub \in [Subs -> SubType] /\ q \in Seq(Message)
          /\ WithinCaps(q, Bytes(q), SubCaps)
      BY <2>3, AggregateTypes DEF QueuesOK, AggregateOK, SubsWithin
    <3>3. /\ q # <<>> /\ sub' = [sub EXCEPT ![b] = k] /\ fol' = fol
          /\ subBytes' = subBytes - Head(q).size
      BY <1>8, <2>3, <3>1, <3>2 DEF TakeItem, Queue
    <3>4. k.q = Tail(q)
      BY <2>3, <3>2 DEF SubType
    <3> HIDE DEF q, k
    <3>5. /\ Tail(q) \in Seq(Message) /\ WithinCaps(Tail(q), Bytes(Tail(q)), SubCaps)
          /\ Bytes(q) \in Nat /\ Bytes(Tail(q)) \in Nat /\ Head(q).size \in Nat
          /\ Bytes(Tail(q)) = Bytes(q) - Head(q).size
      BY <2>0, <3>2, <3>3, TailCharge
    <3>6. \A n, m, h, r \in Nat : r = m - h => n - h = n - (m - r) /\ r <= m
      OBVIOUS
    <3>7. subBytes' = subBytes - (Bytes(q) - Bytes(k.q)) /\ Bytes(k.q) <= Bytes(q)
      BY <2>0, <3>3, <3>4, <3>5, <3>6
    <3> QED BY <2>3, <3>3, <3>4, <3>5, <3>7, SubscriptionAggregate DEF q
  <2> QED BY <2>1, <2>2, <2>3 DEF Branches
<1> QED BY <1>1, <1>2, <1>3, <1>4, <1>5, <1>6, <1>7, <1>8

----------------------------------------------------------------------------
(* Fanout keeps the aggregate                                              *)

\* What the next subscription of the order makes of aggregate v.
ServedNext(e, s, v) ==
    IF e.name \notin SubNames[s] THEN v
    ELSE IF Fits(sub[s].q, SubCaps, e.size, v) THEN v + e.size
         ELSE v - Bytes(sub[s].q)

\* The recursion of Served has a solution.
LEMMA ServedIs ==
    ASSUME subOrder \in Seq(Subs), \A s \in Subs : Bytes(sub[s].q) \in Nat,
           NEW e, e.size \in Nat, NEW b \in Int
    PROVE  /\ Served(e, b)[0] = b
           /\ \A i \in 0..Len(subOrder) : Served(e, b)[i] \in Int
           /\ \A i \in 1..Len(subOrder) :
                 Served(e, b)[i] = ServedNext(e, subOrder[i], Served(e, b)[i - 1])
<1> DEFINE n == Len(subOrder)
           step == [i \in 1..n |-> [v \in Int |-> ServedNext(e, subOrder[i], v)]]
           Body(g) == [i \in 0..n |-> IF i = 0 THEN b
                                      ELSE ServedNext(e, subOrder[i], g[i - 1])]
           after == CHOOSE g : g = Body(g)
<1>1. n \in Nat /\ \A i \in 1..n : subOrder[i] \in Subs
  OBVIOUS
<1>2. ASSUME NEW s \in Subs, NEW v \in Int PROVE ServedNext(e, s, v) \in Int
  BY <1>2 DEF ServedNext
<1>3. step \in [1..n -> [Int -> Int]]
  BY <1>1, <1>2
<1>4. PICK h : Iterates(h, Int, b, n, step)
  <2> HIDE DEF step, n
  <2> QED BY <1>1, <1>3, Iterate
<1>5. h = Body(h)
  <2>1. h \in [0..n -> Int] /\ h[0] = b
    BY <1>4 DEF Iterates
  <2>2. ASSUME NEW i \in 1..n PROVE h[i] = ServedNext(e, subOrder[i], h[i - 1])
    <3>1. i - 1 \in 0..n
      BY <1>1
    <3>2. h[i - 1] \in Int /\ h[i] = step[i][h[i - 1]]
      <4> HIDE DEF n, step
      <4> QED BY <1>4, <2>1, <3>1 DEF Iterates
    <3> QED BY <3>2
  <2>3. \A i \in 0..n : i # 0 => i \in 1..n
    BY <1>1
  <2> HIDE DEF step, n
  <2>4. \A i \in 0..n : h[i] = IF i = 0 THEN b ELSE ServedNext(e, subOrder[i], h[i - 1])
    BY <2>1, <2>2, <2>3, Zenon
  <2> QED BY <2>1, <2>4
<1>6. after = Body(after)
  <2> HIDE DEF Body
  <2> QED BY <1>5
<1>7. Served(e, b) = after
  BY Zenon DEF Served, ServedNext
<1> HIDE DEF after
<1>8. /\ after[0] = b
      /\ \A i \in 1..n : after[i] = ServedNext(e, subOrder[i], after[i - 1])
  <2>1. \A i \in 0..n : after[i] = Body(after)[i]
    <3> HIDE DEF Body
    <3> QED BY <1>6
  <2>2. 0 \in 0..n /\ \A i \in 1..n : i # 0 /\ i \in 0..n
    BY <1>1
  <2> HIDE DEF n, step
  <2> QED BY <2>1, <2>2
<1>9. \A i \in 0..n : after[i] \in Int
  <2> DEFINE T == {i \in Nat : i <= n => after[i] \in Int}
  <2>1. 0 \in T
    BY <1>8
  <2>2. ASSUME NEW i \in Nat, i \in T PROVE i + 1 \in T
    <3> SUFFICES ASSUME i + 1 <= n PROVE after[i + 1] \in Int
      OBVIOUS
    <3>0. i + 1 \in 1..n /\ (i + 1) - 1 = i /\ i <= n
      <4>1. n \in Nat
        BY <1>1
      <4> HIDE DEF n
      <4> QED BY <4>1
    <3>1. after[i] \in Int /\ i + 1 \in 1..n /\ (i + 1) - 1 = i
      BY <2>2, <3>0
    <3>2. after[i + 1] = ServedNext(e, subOrder[i + 1], after[i])
      BY <1>8, <3>1
    <3>3. subOrder[i + 1] \in Subs
      BY <1>1, <3>1
    <3> HIDE DEF n
    <3> QED BY <1>2, <3>1, <3>2, <3>3
  <2>3. T = Nat
    <3> HIDE DEF T
    <3>1. T \in SUBSET Nat
      BY DEF T
    <3> QED BY <2>1, <2>2, <3>1, NatInductionOnSets
  <2> QED BY <1>1, <2>3
<1> QED BY <1>7, <1>8, <1>9

\* Each subscription of the order is charged what Served adds for it, and no
\* other subscription changes.
LEMMA FanoutAt ==
    ASSUME AggregateOK, IsInjective(subOrder), NEW e, e.size \in Nat, Queued(e) \in Message,
           Queued(e).size = e.size, NEW b \in Int, Fanout(e, b)
    PROVE  /\ \A i \in 1..Len(subOrder) :
                 LET s == subOrder[i]
                     v == Served(e, b)[i - 1]
                     w == Served(e, b)[i]
                 IN  /\ Bytes(sub'[s].q) \in Nat /\ v \in Int
                     /\ WithinCaps(sub'[s].q, Bytes(sub'[s].q), SubCaps)
                     /\ w = v + (Bytes(sub'[s].q) - Bytes(sub[s].q))
                     /\ v <= MaxSubscriptionBytes => w <= MaxSubscriptionBytes
           /\ \A s \in Subs : s \notin ToSet(subOrder) => sub'[s] = sub[s]
<1> DEFINE n == Len(subOrder)
           lagging == Lagging(e, b)
<1>1. /\ subOrder \in Seq(Subs) /\ sub \in [Subs -> SubType]
      /\ \A s \in Subs : sub[s].q \in Seq(Message) /\ Bytes(sub[s].q) \in Nat
      /\ SubCaps \in CapsType /\ MaxSubscriptionBytes \in Nat
  BY AggregateTypes, BytesNat DEF QueuesOK
<1>2. /\ n \in Nat /\ \A i \in 1..n : subOrder[i] \in Subs /\ subOrder[i] \in ToSet(subOrder)
      /\ \A i, j \in 1..n : subOrder[i] = subOrder[j] => i = j
  <2>1. n \in Nat /\ DOMAIN subOrder = 1..n /\ \A i \in 1..n : subOrder[i] \in Subs
    BY <1>1
  <2> QED BY <2>1 DEF ToSet, IsInjective
<1>3. lagging \subseteq Matched(e) /\ Matched(e) \subseteq ToSet(subOrder)
  BY DEF Lagging, Matched
<1>4. sub' = [s \in Subs |->
                 IF s \in lagging THEN Ended(sub[s], "Lagged")
                 ELSE IF s \in Matched(e)
                      THEN [sub[s] EXCEPT !.q = Append(@, Queued(e))]
                      ELSE sub[s]]
  BY DEF Fanout
<1>5. ASSUME NEW i \in 1..n
      PROVE  /\ subOrder[i] \in Matched(e) <=> e.name \in SubNames[subOrder[i]]
             /\ subOrder[i] \in lagging <=>
                   /\ subOrder[i] \in Matched(e)
                   /\ ~Fits(sub[subOrder[i]].q, SubCaps, e.size, Served(e, b)[i - 1])
  BY <1>2, Zenon DEF Lagging, Matched
<1> HIDE DEF lagging
<1>6. ASSUME NEW i \in 1..n
      PROVE  LET s == subOrder[i]
                 v == Served(e, b)[i - 1]
                 w == Served(e, b)[i]
             IN  /\ Bytes(sub'[s].q) \in Nat /\ v \in Int
                 /\ WithinCaps(sub'[s].q, Bytes(sub'[s].q), SubCaps)
                 /\ w = v + (Bytes(sub'[s].q) - Bytes(sub[s].q))
                 /\ v <= MaxSubscriptionBytes => w <= MaxSubscriptionBytes
  <2> DEFINE s == subOrder[i]
             v == Served(e, b)[i - 1]
             w == Served(e, b)[i]
             q == sub[s].q
             r == sub'[s].q
  <2>1. s \in Subs /\ q \in Seq(Message) /\ Bytes(q) \in Nat /\ i - 1 \in 0..n
    BY <1>1, <1>2
  <2>2. v \in Int /\ w = ServedNext(e, s, v)
    BY <1>1, <2>1, ServedIs
  <2>3. Len(q) <= SubCaps.Items /\ Bytes(q) <= SubCaps.Bytes /\ Len(q) \in Nat
        /\ SubCaps.Items \in Nat /\ SubCaps.Bytes \in Nat
    BY <1>1, <2>1 DEF AggregateOK, SubsWithin, WithinCaps, CapsType
  <2> SUFFICES /\ Bytes(r) \in Nat /\ v \in Int
               /\ WithinCaps(r, Bytes(r), SubCaps)
               /\ w = v + (Bytes(r) - Bytes(q))
               /\ v <= MaxSubscriptionBytes => w <= MaxSubscriptionBytes
    OBVIOUS
  <2> HIDE DEF v, w, q
  <2>4. CASE s \notin Matched(e)
    <3>1. r = q
      BY <1>3, <1>4, <2>1, <2>4 DEF q
    <3>2. w = v
      BY <1>5, <2>2, <2>4 DEF ServedNext
    <3>3. w = v + (Bytes(q) - Bytes(q))
      BY <2>1, <2>2, <3>2
    <3> QED BY <2>1, <2>2, <2>3, <3>1, <3>2, <3>3 DEF WithinCaps
  <2>5. CASE s \in Matched(e) /\ s \notin lagging
    <3>1. Fits(q, SubCaps, e.size, v) /\ e.name \in SubNames[s]
      BY <1>5, <2>5 DEF q, v
    <3>2. w = v + e.size
      BY <2>2, <3>1 DEF ServedNext, q
    <3>3. r = Append(q, Queued(e))
      <4>1. sub'[s] = [sub[s] EXCEPT !.q = Append(@, Queued(e))]
        BY <1>4, <2>1, <2>5
      <4> QED BY <1>1, <2>1, <4>1 DEF SubType, q
    <3>4. Bytes(r) = Bytes(q) + e.size /\ Len(r) = Len(q) + 1
      BY <2>1, <3>3, BytesAppend
    <3> HIDE DEF r
    <3>5. /\ Len(q) < SubCaps.Items /\ Bytes(q) + e.size <= SubCaps.Bytes
          /\ v + e.size <= MaxSubscriptionBytes
      BY <3>1 DEF Fits
    <3>6. Len(r) <= SubCaps.Items /\ Bytes(r) <= SubCaps.Bytes /\ Bytes(r) \in Nat
      BY <2>1, <2>3, <3>4, <3>5
    <3>7. w = v + (Bytes(r) - Bytes(q))
      BY <2>1, <2>2, <3>2, <3>4
    <3> QED BY <2>2, <3>2, <3>5, <3>6, <3>7 DEF WithinCaps
  <2>6. CASE s \in lagging
    <3>1. ~Fits(q, SubCaps, e.size, v) /\ e.name \in SubNames[s]
      BY <1>5, <2>6 DEF q, v
    <3>2. w = v - Bytes(q)
      BY <2>2, <3>1 DEF ServedNext, q
    <3>3. r = <<>>
      BY <1>1, <1>4, <2>1, <2>6, EndedSubType DEF Reasons
    <3>4. Bytes(r) = 0 /\ WithinCaps(r, Bytes(r), SubCaps)
      BY <3>3, EmptyCharge
    <3> HIDE DEF r
    <3>5. \A x \in Int : \A m, top \in Nat :
             x - m = x + (0 - m) /\ (x <= top => x - m <= top)
      OBVIOUS
    <3>6. w = v + (Bytes(r) - Bytes(q)) /\ (v <= MaxSubscriptionBytes => w <= MaxSubscriptionBytes)
      BY <1>1, <2>1, <2>2, <3>2, <3>4, <3>5
    <3> QED BY <2>2, <3>4, <3>6
  <2> QED BY <1>3, <2>4, <2>5, <2>6
<1>7. ASSUME NEW s \in Subs, s \notin ToSet(subOrder) PROVE sub'[s] = sub[s]
  BY <1>3, <1>4, <1>7
<1> QED BY <1>6, <1>7

\* In all, a fanout changes the charges of the subscriptions by what it
\* changes the aggregate, which it keeps within its cap.
LEMMA FanoutCharged ==
    ASSUME AggregateOK, IsInjective(subOrder), NEW e, e.size \in Nat, Queued(e) \in Message,
           Queued(e).size = e.size, NEW b \in Int, b <= MaxSubscriptionBytes, Fanout(e, b)
    PROVE  \E d : /\ SubsCharged(d) /\ subBytes' = b + d
                  /\ subBytes' <= MaxSubscriptionBytes
<1> DEFINE n == Len(subOrder)
           f == SubCharges
           g == (SubCharges)'
           h == Served(e, b)
           first(i) == {subOrder[j] : j \in 1..i}
           c(i) == [s \in Subs |-> IF s \in first(i) THEN g[s] ELSE f[s]]
           T == {i \in Nat : i <= n =>
                    /\ SumFunction(c(i)) = SumFunction(f) + (h[i] - b)
                    /\ h[i] <= MaxSubscriptionBytes}
<1>1. /\ subOrder \in Seq(Subs) /\ sub \in [Subs -> SubType]
      /\ \A s \in Subs : sub[s].q \in Seq(Message) /\ Bytes(sub[s].q) \in Nat
      /\ SubCharges \in [Subs -> Nat] /\ SubTotal \in Nat
      /\ MaxSubscriptionBytes \in Nat /\ IsFiniteSet(Subs)
  BY AggregateTypes, ChargesType, BytesNat, InputsAssumption DEF QueuesOK
<1>2. /\ n \in Nat /\ DOMAIN subOrder = 1..n /\ \A i \in 1..n : subOrder[i] \in Subs
      /\ \A i, j \in 1..n : subOrder[i] = subOrder[j] => i = j
  <2>1. n \in Nat /\ DOMAIN subOrder = 1..n /\ \A i \in 1..n : subOrder[i] \in Subs
    BY <1>1
  <2> QED BY <2>1 DEF IsInjective
<1>3. /\ h[0] = b /\ \A i \in 0..n : h[i] \in Int
  BY <1>1, ServedIs
<1>4. /\ SubTotal = SumFunction(f) /\ SubTotal' = SumFunction(g)
      /\ DOMAIN f = Subs /\ DOMAIN g = Subs
      /\ \A s \in Subs : f[s] = Bytes(sub[s].q) /\ g[s] = Bytes(sub'[s].q)
  BY DEF SubTotal, SubCharges
<1> HIDE DEF f, g
<1>5. ASSUME NEW i \in 1..n
      PROVE  /\ g[subOrder[i]] \in Nat
             /\ WithinCaps(sub'[subOrder[i]].q, g[subOrder[i]], SubCaps)
             /\ h[i] = h[i - 1] + (g[subOrder[i]] - f[subOrder[i]])
             /\ h[i - 1] <= MaxSubscriptionBytes => h[i] <= MaxSubscriptionBytes
  BY <1>2, <1>4, FanoutAt
<1>6. \A s \in Subs : s \notin ToSet(subOrder) => sub'[s] = sub[s]
  BY FanoutAt
<1> HIDE DEF h
<1>7. \A s \in Subs : f[s] \in Nat /\ g[s] \in Nat
  <2> SUFFICES ASSUME NEW s \in Subs PROVE f[s] \in Nat /\ g[s] \in Nat
    OBVIOUS
  <2>1. f[s] \in Nat
    BY <1>1, <1>4
  <2>2. CASE s \in ToSet(subOrder)
    BY <1>2, <1>5, <2>1, <2>2 DEF ToSet
  <2>3. CASE s \notin ToSet(subOrder)
    BY <1>4, <1>6, <2>1, <2>3
  <2> QED BY <2>2, <2>3, <2>1
<1>8. SubsWithin'
  <2> SUFFICES ASSUME NEW s \in Subs
               PROVE  WithinCaps(sub'[s].q, Bytes(sub'[s].q), SubCaps)
    BY DEF SubsWithin
  <2>1. CASE s \in ToSet(subOrder)
    BY <1>2, <1>4, <1>5, <2>1 DEF ToSet
  <2>2. CASE s \notin ToSet(subOrder)
    BY <1>6, <2>2 DEF AggregateOK, SubsWithin
  <2> QED BY <2>1, <2>2
<1>9. 0 \in T
  <2>1. first(0) = {}
    OBVIOUS
  <2>2. c(0) = f
    <3>1. f = [s \in Subs |-> f[s]]
      BY <1>1 DEF f
    <3> QED BY <2>1, <3>1
  <2>3. SumFunction(f) = SumFunction(f) + (b - b)
    BY <1>1, <1>4
  <2> QED BY <1>3, <2>2, <2>3
<1>10. ASSUME NEW i \in Nat, i \in T PROVE i + 1 \in T
  <2> SUFFICES ASSUME i + 1 <= n
               PROVE  /\ SumFunction(c(i + 1)) = SumFunction(f) + (h[i + 1] - b)
                      /\ h[i + 1] <= MaxSubscriptionBytes
    OBVIOUS
  <2> DEFINE s == subOrder[i + 1]
  <2>1. /\ i + 1 \in 1..n /\ (i + 1) - 1 = i /\ i <= n /\ i \in 0..n /\ i + 1 \in 0..n
        /\ 1..(i + 1) = (1..i) \cup {i + 1} /\ i + 1 \notin 1..i /\ 1..i \subseteq 1..n
    BY <1>2
  <2>2. s \in Subs /\ s \notin first(i) /\ first(i + 1) = first(i) \cup {s}
    BY <1>2, <2>1
  <2>3. /\ SumFunction(c(i)) = SumFunction(f) + (h[i] - b)
        /\ h[i] <= MaxSubscriptionBytes
    BY <1>10, <2>1
  <2>4. /\ h[i + 1] = h[i] + (g[s] - f[s]) /\ h[i + 1] <= MaxSubscriptionBytes
        /\ h[i] \in Int
    BY <1>3, <1>5, <2>1, <2>3
  <2>5. DifferAt(s, c(i), c(i + 1), Subs) /\ c(i)[s] = f[s] /\ c(i + 1)[s] = g[s]
    <3> HIDE DEF s, first
    <3> QED BY <1>7, <2>2 DEF DifferAt, Charges
  <2> HIDE DEF s, c
  <2>6. SumFunction(c(i + 1)) = SumFunction(c(i)) - f[s] + g[s]
    BY <1>1, <2>5, ChargeOne
  <2>7. SumFunction(f) \in Nat /\ f[s] \in Nat /\ g[s] \in Nat
    BY <1>1, <1>4, <1>7, <2>2
  <2>8. SumFunction(c(i + 1)) = SumFunction(f) + (h[i + 1] - b)
    <3> DEFINE t == SumFunction(f)
               old == f[s]
               new == g[s]
               v == h[i]
    <3>1. t \in Nat /\ old \in Nat /\ new \in Nat /\ v \in Int
      BY <2>4, <2>7
    <3>2. SumFunction(c(i + 1)) = (t + (v - b)) - old + new /\ h[i + 1] = v + (new - old)
      BY <2>3, <2>4, <2>6
    <3> HIDE DEF t, old, new, v
    <3>3. (t + (v - b)) - old + new = t + ((v + (new - old)) - b)
      BY <3>1
    <3>4. SumFunction(c(i + 1)) = t + (h[i + 1] - b)
      BY <3>2, <3>3
    <3> QED BY <3>4 DEF t
  <2> QED BY <2>4, <2>8
<1>11. T = Nat
  <2> HIDE DEF T
  <2>1. T \in SUBSET Nat
    BY DEF T
  <2> QED BY <1>9, <1>10, <2>1, NatInductionOnSets
<1>12. SumFunction(c(n)) = SumFunction(f) + (h[n] - b) /\ h[n] <= MaxSubscriptionBytes
  <2>1. n \in T
    BY <1>2, <1>11
  <2> QED BY <1>2, <2>1
<1>13. c(n) = g
  <2>1. ASSUME NEW s \in Subs PROVE c(n)[s] = g[s]
    <3>1. CASE s \in ToSet(subOrder)
      <4>1. s \in first(n)
        BY <1>2, <3>1 DEF ToSet
      <4> QED BY <4>1
    <3>2. CASE s \notin ToSet(subOrder)
      <4>1. f[s] = g[s]
        BY <1>4, <1>6, <3>2
      <4> QED BY <4>1
    <3> QED BY <3>1, <3>2
  <2>2. g = [s \in Subs |-> g[s]]
    BY DEF g, SubCharges
  <2>3. c(n) = [s \in Subs |-> c(n)[s]]
    OBVIOUS
  <2> HIDE DEF c
  <2> QED BY <2>1, <2>2, <2>3
<1> DEFINE d == h[n] - b
<1>14. d \in Int /\ SubTotal' = SubTotal + d /\ h[n] = b + d
  <2>1. h[n] \in Int
    BY <1>2, <1>3
  <2>2. \A x, y \in Int : x - y \in Int /\ x = y + (x - y)
    OBVIOUS
  <2>3. SubTotal' = SubTotal + d
    BY <1>4, <1>12, <1>13, Zenon
  <2> QED BY <2>1, <2>2, <2>3
<1>15. subBytes' = h[n]
  BY DEF Fanout, h
<1> HIDE DEF d, c, T, first
<1> QED BY <1>8, <1>12, <1>14, <1>15 DEF SubsCharged

\* Client death takes the charges of every branch it discards.
LEMMA SubDead ==
    ASSUME AggregateOK, NEW why, Die(why)
    PROVE  SubAggregate
<1> DEFINE subs == ToSet(subOrder)
           fols == {f \in Follows : fol[f].phase = "active"}
           h == SubCharges
           g == (SubCharges)'
           u == FollowCharges
           v == (FollowCharges)'
           ds == 0 - SumFunctionOnSet(h, subs)
           df == 0 - SumFunctionOnSet(u, fols)
<1>0. /\ sub' = [s \in Subs |-> IF s \in subs THEN Ended(sub[s], "ClientDead") ELSE sub[s]]
      /\ fol' = [f \in Follows |-> IF f \in fols THEN Ended(fol[f], "ClientDead") ELSE fol[f]]
      /\ subBytes' = subBytes - SumFunctionOnSet(h, subs) - SumFunctionOnSet(u, fols)
  BY DEF Die
<1>1. /\ sub \in [Subs -> SubType] /\ fol \in [Follows -> FollowType]
      /\ subOrder \in Seq(Subs) /\ subBytes \in Nat /\ QueuesOK
      /\ IsFiniteSet(Subs) /\ IsFiniteSet(Follows)
      /\ SubCharges \in [Subs -> Nat] /\ FollowCharges \in [Follows -> Nat]
      /\ SubsWithin /\ FollowsWithin
  BY AggregateTypes, ChargesType, InputsAssumption, KindsAssumption DEF AggregateOK
<1>2. subs \subseteq Subs /\ fols \subseteq Follows
  BY <1>1 DEF ToSet
<1>3. ASSUME NEW s \in Subs
      PROVE  /\ s \in subs => Bytes(sub'[s].q) = 0
             /\ s \notin subs => sub'[s] = sub[s]
             /\ Bytes(sub[s].q) \in Nat /\ Bytes(sub'[s].q) \in Nat
             /\ WithinCaps(sub'[s].q, Bytes(sub'[s].q), SubCaps)
  <2>0. Bytes(sub[s].q) \in Nat
    BY <1>1, BytesNat DEF QueuesOK
  <2>1. CASE s \in subs
    <3>1. sub'[s] = Ended(sub[s], "ClientDead") /\ sub[s] \in SubType
      BY <1>0, <1>1, <2>1
    <3>2. sub'[s].q = <<>>
      BY <3>1, EndedSubType DEF Reasons
    <3> QED BY <2>0, <2>1, <3>2, EmptyCharge
  <2>2. CASE s \notin subs
    <3>1. sub'[s] = sub[s]
      BY <1>0, <2>2
    <3> QED BY <1>1, <2>0, <2>2, <3>1 DEF SubsWithin
  <2> QED BY <2>1, <2>2
<1>4. ASSUME NEW f \in Follows
      PROVE  /\ f \in fols => Bytes(fol'[f].q) = 0
             /\ f \notin fols => fol'[f] = fol[f]
             /\ Bytes(fol[f].q) \in Nat /\ Bytes(fol'[f].q) \in Nat
             /\ WithinCaps(fol'[f].q, Bytes(fol'[f].q), FollowCaps)
  <2>0. Bytes(fol[f].q) \in Nat
    BY <1>1, BytesNat DEF QueuesOK
  <2>1. CASE f \in fols
    <3>1. fol'[f] = Ended(fol[f], "ClientDead") /\ fol[f] \in FollowType
      BY <1>0, <1>1, <2>1
    <3>2. fol'[f].q = <<>>
      BY <3>1, EndedFollowType DEF Reasons
    <3> QED BY <2>0, <2>1, <3>2, EmptyCharge
  <2>2. CASE f \notin fols
    <3>1. fol'[f] = fol[f]
      BY <1>0, <2>2
    <3> QED BY <1>1, <2>0, <2>2, <3>1 DEF FollowsWithin
  <2> QED BY <2>1, <2>2
<1> HIDE DEF subs, fols
<1>5. ClearedOn(subs, h, g, Subs)
  <2>1. DOMAIN h = Subs /\ DOMAIN g = Subs
    BY DEF SubCharges
  <2>2. \A s \in Subs : h[s] = Bytes(sub[s].q) /\ g[s] = Bytes(sub'[s].q)
    BY DEF SubCharges
  <2> HIDE DEF h, g
  <2> QED BY <1>2, <1>3, <2>1, <2>2 DEF ClearedOn, Charges
<1>6. ClearedOn(fols, u, v, Follows)
  <2>1. DOMAIN u = Follows /\ DOMAIN v = Follows
    BY DEF FollowCharges
  <2>2. \A f \in Follows : u[f] = Bytes(fol[f].q) /\ v[f] = Bytes(fol'[f].q)
    BY DEF FollowCharges
  <2> HIDE DEF u, v
  <2> QED BY <1>2, <1>4, <2>1, <2>2 DEF ClearedOn, Charges
<1>7. /\ SubTotal = SumFunction(h) /\ SubTotal' = SumFunction(g)
      /\ FollowTotal = SumFunction(u) /\ FollowTotal' = SumFunction(v)
  BY DEF SubTotal, FollowTotal
<1>8. SubsWithin' /\ FollowsWithin'
  BY <1>3, <1>4 DEF SubsWithin, FollowsWithin
<1> HIDE DEF h, g, u, v
<1>9. /\ SumFunctionOnSet(h, subs) \in Nat /\ SumFunction(h) \in Nat
      /\ SumFunction(g) = SumFunction(h) - SumFunctionOnSet(h, subs)
      /\ SumFunctionOnSet(u, fols) \in Nat /\ SumFunction(u) \in Nat
      /\ SumFunction(v) = SumFunction(u) - SumFunctionOnSet(u, fols)
  BY <1>1, <1>5, <1>6, ChargeClear
<1>10. \A m, n, k \in Nat : /\ m - n = m + (0 - n) /\ 0 - n \in Int
                            /\ (0 - n) + (0 - k) <= 0
                            /\ m - n - k = m + ((0 - n) + (0 - k))
  OBVIOUS
<1>11. /\ ds \in Int /\ df \in Int /\ ds + df <= 0
       /\ SubTotal' = SubTotal + ds /\ FollowTotal' = FollowTotal + df
       /\ subBytes' = subBytes + (ds + df)
  BY <1>0, <1>1, <1>7, <1>9, <1>10
<1> HIDE DEF ds, df
<1> QED BY <1>8, <1>11 DEF SubAggregate, SubsCharged, FollowsCharged

\* An event that no follow takes.
LEMMA RouteOrdinaryEventSubs ==
    ASSUME AggregateOK, IsInjective(subOrder), NEW e \in PlainEvent, RouteOrdinaryEvent(e)
    PROVE  SubAggregate
<1>1. /\ e.size \in Nat /\ Queued(e) \in Message /\ Queued(e).size = e.size
      /\ Fanout(e, subBytes) /\ fol' = fol
  <2>1. Ordinary(e) /\ Fanout(e, subBytes) /\ fol' = fol
    BY DEF RouteOrdinaryEvent, folVars
  <2>2. Queued(e) \in Message
    BY <2>1, OrdinaryMessage
  <2> QED BY <2>1, <2>2, InputsAssumption DEF PlainEvent, Queued
<1>2. subBytes \in Int /\ subBytes \in Nat /\ subBytes <= MaxSubscriptionBytes /\ FollowsWithin
  BY AggregateTypes DEF AggregateOK
<1>3. PICK d : /\ SubsCharged(d) /\ subBytes' = subBytes + d
               /\ subBytes' <= MaxSubscriptionBytes
  BY <1>1, <1>2, FanoutCharged
<1>4. FollowsCharged(0)
  BY <1>1, <1>2, AggregateTypes, ChargesSame
<1>5. d \in Int /\ d + 0 = d
  BY <1>3 DEF SubsCharged
<1> QED BY <1>3, <1>4, <1>5 DEF SubAggregate

\* An event that a follow takes, or overflows at, and that is then fanned out.
LEMMA RouteFollowEventSubs ==
    ASSUME AggregateOK, IsInjective(subOrder), NEW e \in PlainEvent, NEW f \in Follows,
           RouteFollowEvent(f, e)
    PROVE  SubAggregate
<1> DEFINE q == fol[f].q
           fits == Fits(q, FollowCaps, e.size, subBytes)
           r == fol'[f]
           b == IF fits THEN subBytes + e.size ELSE subBytes - Bytes(q)
<1>1. /\ e.size \in Nat /\ Queued(e) \in Message /\ Queued(e).size = e.size
  <2>1. Ordinary(e)
    BY DEF RouteFollowEvent
  <2>2. Queued(e) \in Message
    BY <2>1, OrdinaryMessage
  <2> QED BY <2>1, <2>2, InputsAssumption DEF PlainEvent, Queued
<1>2. /\ subBytes \in Nat /\ subBytes <= MaxSubscriptionBytes /\ MaxSubscriptionBytes \in Nat
      /\ FollowsWithin /\ QueuesOK /\ fol \in [Follows -> FollowType]
      /\ q \in Seq(Message) /\ Bytes(q) \in Nat /\ Len(q) \in Nat
      /\ FollowCaps.Items \in Nat /\ FollowCaps.Bytes \in Nat
      /\ WithinCaps(q, Bytes(q), FollowCaps)
  BY AggregateTypes, BytesNat DEF QueuesOK, AggregateOK, CapsType, FollowsWithin
<1>3. /\ fits => r.q = Append(q, Queued(e))
      /\ ~fits => r.q = <<>>
      /\ fol' = [fol EXCEPT ![f] = r] /\ Fanout(e, b)
  <2> DEFINE got == [fol[f] EXCEPT !.q = Append(@, Queued(e))]
             after == IF fits THEN got ELSE Ended(fol[f], "Lagged")
             new == IF fits /\ e.name \in FollowCompletions[f]
                    THEN [after EXCEPT !.phase = "draining"] ELSE after
  <2>1. fol' = [fol EXCEPT ![f] = new] /\ Fanout(e, b)
    BY DEF RouteFollowEvent
  <2>2. fol[f] \in FollowType
    BY <1>2
  <2>3. fits => new.q = Append(q, Queued(e))
    <3> HIDE DEF fits
    <3> QED BY <2>2 DEF FollowType
  <2>4. ~fits => new.q = <<>>
    <3> HIDE DEF fits
    <3> QED BY <2>2, EndedFollowType DEF Reasons
  <2> HIDE DEF new
  <2>5. fol'[f] = new
    BY <1>2, <2>1
  <2> QED BY <2>1, <2>3, <2>4, <2>5
<1>4. /\ r.q \in Seq(Message) /\ WithinCaps(r.q, Bytes(r.q), FollowCaps)
      /\ Bytes(r.q) \in Nat /\ b = subBytes + (Bytes(r.q) - Bytes(q))
      /\ b <= MaxSubscriptionBytes
  <2> HIDE DEF q, r
  <2>1. CASE fits
    <3>1. /\ Len(q) < FollowCaps.Items /\ Bytes(q) + e.size <= FollowCaps.Bytes
          /\ subBytes + e.size <= MaxSubscriptionBytes
      BY <2>1 DEF Fits
    <3>2. /\ r.q \in Seq(Message) /\ Bytes(r.q) = Bytes(q) + e.size /\ Len(r.q) = Len(q) + 1
      BY <1>1, <1>2, <1>3, <2>1, BytesAppend
    <3>3. b = subBytes + e.size
      BY <2>1
    <3> HIDE DEF b, fits
    <3>4. Len(r.q) <= FollowCaps.Items /\ Bytes(r.q) <= FollowCaps.Bytes /\ Bytes(r.q) \in Nat
      BY <1>1, <1>2, <3>1, <3>2
    <3>5. b = subBytes + (Bytes(r.q) - Bytes(q)) /\ b <= MaxSubscriptionBytes
      BY <1>1, <1>2, <3>1, <3>2, <3>3
    <3> QED BY <3>2, <3>4, <3>5 DEF WithinCaps
  <2>2. CASE ~fits
    <3>1. r.q = <<>> /\ b = subBytes - Bytes(q)
      BY <1>3, <2>2
    <3>2. /\ Bytes(r.q) = 0 /\ r.q \in Seq(Message)
          /\ WithinCaps(r.q, Bytes(r.q), FollowCaps)
      BY <3>1, EmptyCharge
    <3> HIDE DEF b, fits
    <3>3. \A x, m, top \in Nat : /\ x - m = x + (0 - m) /\ (x <= top => x - m <= top)
      OBVIOUS
    <3>4. b = subBytes + (Bytes(r.q) - Bytes(q)) /\ b <= MaxSubscriptionBytes
      BY <1>2, <3>1, <3>2, <3>3
    <3> QED BY <3>2, <3>4
  <2> QED BY <2>1, <2>2
<1>5. FollowsCharged(Bytes(r.q) - Bytes(q))
  <2> HIDE DEF r
  <2> QED BY <1>2, <1>3, <1>4, FollowCharged
<1> DEFINE df == Bytes(r.q) - Bytes(q)
<1> HIDE DEF q, r, fits, b
<1>6. df \in Int /\ b = subBytes + df /\ b \in Int
  BY <1>2, <1>4
<1>7. PICK ds : /\ SubsCharged(ds) /\ subBytes' = b + ds
                /\ subBytes' <= MaxSubscriptionBytes
  BY <1>1, <1>3, <1>4, <1>6, FanoutCharged
<1>8. ds \in Int /\ (subBytes + df) + ds = subBytes + (ds + df)
  <2>1. ds \in Int
    BY <1>7 DEF SubsCharged
  <2> HIDE DEF df
  <2> QED BY <1>2, <1>6, <2>1
<1> HIDE DEF df
<1>9. subBytes' = subBytes + (ds + df)
  BY <1>6, <1>7, <1>8
<1> QED BY <1>5, <1>7, <1>9 DEF SubAggregate, df

----------------------------------------------------------------------------
(* The theorem about the aggregates                                        *)

\* Every step moves the aggregates with the charges, and within the caps.
LEMMA AggregateStep ==
    ASSUME AggregateOK, IsInjective(subOrder), [Next]_vars
    PROVE  SubAggregate /\ ListAggregate
<1> DEFINE Goal == SubAggregate /\ ListAggregate
           Quiet == UNCHANGED <<sub, fol, subBytes, list, listBytes>>
<1> HIDE DEF Goal
<1> SUFFICES Goal
  BY DEF Goal
<1>1. Quiet => Goal
  BY SubQuiet, ListQuiet DEF Goal
<1>2. \A why : Die(why) => Goal
  BY SubDead, ListDead DEF Goal
<1>3. UNCHANGED <<sub, fol, subBytes>> /\ ListAggregate => Goal
  BY SubQuiet DEF Goal
<1>4. UNCHANGED <<list, listBytes>> /\ SubAggregate => Goal
  BY ListQuiet DEF Goal
<1>5. CASE RouteResponse
  <2>1. ASSUME NEW reason \in FatalReasons, RouteFatal(reason) PROVE Goal
    BY <1>2, <2>1 DEF RouteFatal
  <2>2. ASSUME NEW a \in Own, RouteUnmatched(a) PROVE Goal
    BY <1>2, <2>2 DEF RouteUnmatched
  <2>3. ASSUME NEW a \in Own, NEW success \in BOOLEAN, RoutePendingResponse(a, success) PROVE Goal
    <3>1. UNCHANGED <<sub, fol, subBytes>>
      BY <2>3 DEF RoutePendingResponse, subVars, folVars
    <3> QED BY <1>3, <2>3, <3>1, OtherLists
  <2>4. ASSUME NEW a \in Own, NEW success \in BOOLEAN, RouteRecordResponse(a, success) PROVE Goal
    BY <1>1, <2>4 DEF RouteRecordResponse, subVars, folVars, listVars
  <2> QED BY <1>5, <2>1, <2>2, <2>3, <2>4 DEF RouteResponse
<1>6. CASE RouteEvent
  <2>1. ASSUME NEW a \in Lists, NEW e \in ListEvent(a), RouteListEvent(a, e) PROVE Goal
    <3>1. UNCHANGED <<sub, fol, subBytes>>
      BY <2>1 DEF RouteListEvent, subVars, folVars
    <3> QED BY <1>3, <2>1, <3>1, RouteListEventList
  <2>2. ASSUME NEW a \in Lists, NEW e \in ListEvent(a), RouteListDrain(a, e) PROVE Goal
    BY <1>1, <2>2 DEF RouteListDrain, subVars, folVars, listVars
  <2>3. ASSUME NEW a \in Lists, RouteListLate(a) PROVE Goal
    BY <1>1, <2>3 DEF RouteListLate, subVars, folVars, listVars
  <2>4. ASSUME NEW e \in PlainEvent, RouteOrdinaryEvent(e) PROVE Goal
    BY <1>4, <2>4, RouteOrdinaryEventSubs DEF RouteOrdinaryEvent, listVars
  <2>5. ASSUME NEW e \in PlainEvent, NEW f \in Follows, RouteFollowEvent(f, e) PROVE Goal
    BY <1>4, <2>5, RouteFollowEventSubs DEF RouteFollowEvent, listVars
  <2>6. ASSUME NEW a \in RequestKind, RouteQuarantined(a) PROVE Goal
    BY <1>1, <2>6 DEF RouteQuarantined, subVars, folVars, listVars
  <2> QED BY <1>6, <2>1, <2>2, <2>3, <2>4, <2>5, <2>6 DEF RouteEvent
<1>7. CASE PendingStep
  <2>1. ASSUME NEW a \in Own, Admit(a) PROVE Goal
    <3>1. SubAggregate
      BY <2>1, OneBranchAggregate
    <3>2. ListAggregate
      BY <2>1, AdmitList
    <3> QED BY <3>1, <3>2 DEF Goal
  <2>2. ASSUME NEW a \in Own, CommitWrite(a) PROVE Goal
    BY <1>1, <2>2 DEF CommitWrite, subVars, folVars, listVars
  <2>3. ASSUME NEW a \in Own, AbortNotSent(a) \/ Abandon(a) PROVE Goal
    BY <2>3, OneBranchAggregate, OtherLists DEF Goal
  <2>4. ASSUME NEW f \in Follows, AdoptFollow(f) \/ CloseFollow(f) PROVE Goal
    <3>1. UNCHANGED <<list, listBytes>>
      BY <2>4 DEF AdoptFollow, CloseFollow, listVars
    <3> QED BY <1>4, <2>4, <3>1, OneBranchAggregate
  <2>5. ASSUME NEW l \in Lists, AdoptList(l) \/ CloseList(l) PROVE Goal
    <3>1. UNCHANGED <<sub, fol, subBytes>>
      BY <2>5 DEF AdoptList, CloseList, subVars, folVars
    <3> QED BY <1>3, <2>5, <3>1, OtherLists
  <2> QED BY <1>7, <2>1, <2>2, <2>3, <2>4, <2>5 DEF PendingStep
<1>8. CASE ConsumerStep
  <2>1. ASSUME NEW s \in Subs, Subscribe(s) \/ CloseSub(s) PROVE Goal
    <3>1. UNCHANGED <<list, listBytes>>
      BY <2>1 DEF Subscribe, CloseSub, listVars
    <3> QED BY <1>4, <2>1, <3>1, OneBranchAggregate
  <2>2. ASSUME NEW f \in Follows, CloseFollowBranch(f) PROVE Goal
    <3>1. UNCHANGED <<list, listBytes>>
      BY <2>2 DEF CloseFollowBranch, listVars
    <3> QED BY <1>4, <2>2, <3>1, OneBranchAggregate
  <2>3. ASSUME NEW l \in Lists, CloseListBranch(l) PROVE Goal
    <3>1. UNCHANGED <<sub, fol, subBytes>>
      BY <2>3 DEF CloseListBranch, subVars, folVars
    <3> QED BY <1>3, <2>3, <3>1, OtherLists
  <2>4. ASSUME NEW b \in Branches, TakeItem(b) PROVE Goal
    BY <2>4, OneBranchAggregate, TakeItemList DEF Goal
  <2>5. ASSUME NEW b \in Branches, TakeEmpty(b) PROVE Goal
    BY <1>1, <2>5 DEF TakeEmpty, subVars, folVars, listVars
  <2> QED BY <1>8, <2>1, <2>2, <2>3, <2>4, <2>5 DEF ConsumerStep, Close
<1>9. ASSUME NEW reason \in KillReasons, Kill(reason) PROVE Goal
  BY <1>2, <1>9 DEF Kill
<1>10. CASE Expire
  BY <1>1, <1>2, <1>10 DEF Expire, subVars, folVars, listVars
<1>11. CASE Tick \/ UNCHANGED vars
  BY <1>1, <1>11 DEF Tick, vars, subVars, folVars, listVars
<1> QED BY <1>5, <1>6, <1>7, <1>8, <1>9, <1>10, <1>11 DEF Next

\* What the run checks is what the steps keep.
LEMMA AggregatesAre ==
    AggregateOK => Aggregates
BY DEF AggregateOK, Aggregates, SubsWithin, FollowsWithin, ListsWithin, WithinCaps, SubTotal,
       FollowTotal, ListTotal

\* A family whose branches are charged nothing adds up to nothing.
LEMMA NoCharges ==
    ASSUME NEW S, IsFiniteSet(S), NEW f, DOMAIN f = S, \A x \in S : f[x] = 0
    PROVE  SumFunction(f) = 0
<1>1. ClearedOn(S, f, f, S)
  BY DEF ClearedOn, Charges
<1>2. /\ SumFunction(f) \in Nat
      /\ SumFunction(f) = SumFunction(f) - SumFunctionOnSet(f, S)
  BY <1>1, ChargeClear
<1>3. SumFunction(f) = SumFunctionOnSet(f, S)
  BY Zenon DEF SumFunction
<1>4. \A n \in Nat : n = n - n => n = 0
  OBVIOUS
<1> QED BY <1>2, <1>3, <1>4, Zenon

LEMMA AggregateInit == Init => AggregateOK
<1> SUFFICES ASSUME Init PROVE AggregateOK
  OBVIOUS
<1>1. BranchInductive
  BY BranchInit
<1>2. /\ \A s \in Subs : sub[s].q = <<>>
      /\ \A f \in Follows : fol[f].q = <<>>
      /\ \A l \in Lists : list[l].q = <<>> /\ list[l].completion.size = 0
      /\ subBytes = 0 /\ listBytes = 0
  BY DEF Init, NoSub, NoFollow, NoList, NoMessage
<1>3. Bytes(<<>>) = 0 /\ Len(<<>>) = 0
  BY BytesNat
<1>4. /\ MaxListBytes \in Nat /\ MaxSubscriptionBytes \in Nat
      /\ SubCaps \in CapsType /\ FollowCaps \in CapsType /\ ListCaps \in CapsType
      /\ IsFiniteSet(Subs) /\ IsFiniteSet(Follows) /\ IsFiniteSet(Lists)
  BY LimitsAssumption, KindsAssumption, InputsAssumption
<1>5. \A l \in Lists : Retained(list[l]) = 0
  BY <1>2, <1>3 DEF Retained
<1>6. SubTotal = 0
  <2>1. DOMAIN SubCharges = Subs /\ \A s \in Subs : SubCharges[s] = 0
    BY <1>2, <1>3 DEF SubCharges
  <2> QED BY <1>4, <2>1, NoCharges DEF SubTotal
<1>7. FollowTotal = 0
  <2>1. DOMAIN FollowCharges = Follows /\ \A f \in Follows : FollowCharges[f] = 0
    BY <1>2, <1>3 DEF FollowCharges
  <2> QED BY <1>4, <2>1, NoCharges DEF FollowTotal
<1>8. ListTotal = 0
  <2>1. DOMAIN ListCharges = Lists /\ \A l \in Lists : ListCharges[l] = 0
    BY <1>5 DEF ListCharges
  <2> QED BY <1>4, <2>1, NoCharges DEF ListTotal
<1>9. SubsWithin /\ FollowsWithin /\ ListsWithin
  BY <1>2, <1>3, <1>4, <1>5 DEF SubsWithin, FollowsWithin, ListsWithin, WithinCaps, CapsType
<1> QED BY <1>1, <1>2, <1>4, <1>6, <1>7, <1>8, <1>9 DEF AggregateOK

LEMMA AggregateNext ==
    CountInductive /\ AggregateOK /\ CountInductive' /\ [Next]_vars => AggregateOK'
<1> SUFFICES ASSUME CountInductive, AggregateOK, CountInductive', [Next]_vars
             PROVE  AggregateOK'
  OBVIOUS
<1>1. BranchInductive' /\ IsInjective(subOrder)
  BY DEF CountInductive, OrderCounts
<1>2. /\ subBytes \in Nat /\ listBytes \in Nat /\ QueuesOK
      /\ MaxListBytes \in Nat /\ MaxSubscriptionBytes \in Nat
      /\ SubTotal \in Nat /\ FollowTotal \in Nat /\ ListTotal \in Nat
      /\ subBytes = SubTotal + FollowTotal /\ subBytes <= MaxSubscriptionBytes
      /\ listBytes = ListTotal /\ listBytes <= MaxListBytes
  BY AggregateTypes, ChargesType DEF AggregateOK
<1>3. SubAggregate /\ ListAggregate
  BY <1>1, AggregateStep
<1>4. /\ ListsWithin' /\ listBytes' = ListTotal' /\ listBytes' <= MaxListBytes
  <2>1. PICK d : /\ ListsCharged(d) /\ listBytes' = listBytes + d
                 /\ d <= 0 \/ listBytes' <= MaxListBytes
    BY <1>3 DEF ListAggregate
  <2>2. d \in Int /\ ListTotal' = ListTotal + d /\ ListsWithin'
    BY <2>1 DEF ListsCharged
  <2>3. d <= 0 => listBytes + d <= MaxListBytes
    BY <1>2, <2>2
  <2> QED BY <1>2, <2>1, <2>2, <2>3
<1>5. /\ SubsWithin' /\ FollowsWithin' /\ subBytes' = SubTotal' + FollowTotal'
      /\ subBytes' <= MaxSubscriptionBytes
  <2>1. PICK ds, df : /\ SubsCharged(ds) /\ FollowsCharged(df)
                      /\ subBytes' = subBytes + (ds + df)
                      /\ ds + df <= 0 \/ subBytes' <= MaxSubscriptionBytes
    BY <1>3 DEF SubAggregate
  <2>2. /\ ds \in Int /\ SubTotal' = SubTotal + ds /\ SubsWithin'
        /\ df \in Int /\ FollowTotal' = FollowTotal + df /\ FollowsWithin'
    BY <2>1 DEF SubsCharged, FollowsCharged
  <2>3. /\ ds + df <= 0 => subBytes + (ds + df) <= MaxSubscriptionBytes
        /\ (SubTotal + ds) + (FollowTotal + df) = subBytes + (ds + df)
    BY <1>2, <2>2
  <2> QED BY <2>1, <2>2, <2>3
<1> QED BY <1>1, <1>4, <1>5 DEF AggregateOK

\* The two aggregates that bound the memory of the machine are exactly what the
\* queued events are charged, whatever is delivered, taken, overflowed,
\* abandoned, closed or discarded, and neither they nor any queue exceeds its
\* cap (reserveSubFamily, route.go; check, demux.go).
THEOREM AggregatesAreExact == Spec => []Aggregates
<1>1. Init => AggregateOK
  BY AggregateInit
<1>2. CountInductive /\ AggregateOK /\ CountInductive' /\ [Next]_vars => AggregateOK'
  BY AggregateNext
<1>3. AggregateOK => Aggregates
  BY AggregatesAre
<1> QED BY <1>1, <1>2, <1>3, CountInvariant, PTL DEF Spec
=============================================================================
