---------------------------- MODULE QueueProofs -----------------------------
(***************************************************************************)
(* The queue of a branch implements the sequence it stands for, for every  *)
(* threshold, cap and charge.                                              *)
(***************************************************************************)
EXTENDS Queue, SequenceTheorems, TLAPS

Slots == Entry \cup {Zero}

LEMMA QueueStarts == Init => QueueInductive
<1> SUFFICES ASSUME Init PROVE QueueInductive
  OBVIOUS
<1>1. arr \in Seq(Slots) /\ Len(arr) = 0
  BY EmptySeq DEF Init
<1> QED
  BY <1>1, QueueAssumption DEF Init, QueueInductive, Shape, NothingRetained,
     BackingBounded, Length, Slots

\* What is written where by a push.
LEMMA PushWrites ==
    ASSUME Shape, NEW e \in Entry, Push(e)
    PROVE  /\ arr' \in Seq(Slots)
           /\ Len(arr') = IF n < Len(arr) THEN Len(arr) ELSE n + 1
           /\ \A i \in 1..Len(arr') : arr'[i] = IF i = n + 1 THEN e ELSE arr[i]
<1>1. arr \in Seq(Slots) /\ Len(arr) \in Nat /\ n \in Nat /\ n <= Len(arr) /\ e \in Slots
  BY LenProperties DEF Shape, Slots
<1>2. CASE n < Len(arr)
  <2>1. arr' = [arr EXCEPT ![n + 1] = e] /\ n + 1 \in 1..Len(arr)
    BY <1>1, <1>2 DEF Push
  <2> QED
    BY <1>1, <1>2, <2>1, ExceptSeq DEF Push
<1>3. CASE ~(n < Len(arr))
  <2>1. arr' = Append(arr, e) /\ n = Len(arr)
    BY <1>1, <1>3 DEF Push
  <2> QED
    BY <1>1, <1>3, <2>1, AppendProperties
<1> QED BY <1>2, <1>3

\* Clearing the popped slot.
LEMMA PopClears ==
    ASSUME Shape, Length > 0
    PROVE  LET a == Cleared(arr, head + 1)
           IN  /\ a \in Seq(Slots) /\ Len(a) = Len(arr)
               /\ \A i \in 1..Len(arr) : a[i] = IF i = head + 1 THEN Zero ELSE arr[i]
               /\ arr[head + 1] \in Entry
<1>1. arr \in Seq(Slots) /\ Len(arr) \in Nat /\ head + 1 \in 1..Len(arr)
  BY LenProperties DEF Shape, Slots, Length
<1>2. Zero \in Slots /\ head + 1 \in (head + 1)..n
  BY DEF Slots, Shape, Length
<1> QED BY <1>1, <1>2, ExceptSeq DEF Cleared, Shape

\* Sliding the live tail to the front.
LEMMA SlideMoves ==
    ASSUME NEW a \in Seq(Slots), n \in Nat, n <= Len(a), NEW h \in Nat, h < n
    PROVE  /\ Slid(a, h) \in Seq(Slots) /\ Len(Slid(a, h)) = Len(a)
           /\ \A i \in 1..Len(a) :
                 Slid(a, h)[i] = IF i <= n - h THEN a[i + h]
                                 ELSE IF i <= n THEN Zero ELSE a[i]
<1> DEFINE s == Slid(a, h)
<1>1. Len(a) \in Nat /\ \A i \in 1..Len(a) : a[i] \in Slots
  BY LenProperties, ElementOfSeq
<1>2. \A i \in 1..Len(a) : s[i] = IF i <= n - h THEN a[i + h]
                                  ELSE IF i <= n THEN Zero ELSE a[i]
  BY DEF Slid
<1>3. \A i \in 1..Len(a) : s[i] \in Slots
  <2> TAKE i \in 1..Len(a)
  <2>1. i <= n - h => i + h \in 1..Len(a)
    BY <1>1
  <2> QED BY <1>1, <1>2, <2>1 DEF Slots
<1>4. s \in [1..Len(a) -> Slots]
  BY <1>3 DEF Slid
<1>5. s \in Seq(Slots)
  BY <1>1, <1>4, SeqDef
<1>6. Len(s) = Len(a)
  BY <1>1, <1>4, <1>5, LenProperties
<1> QED BY <1>2, <1>5, <1>6

\* The live part of a slice as a sequence.
LEMMA LiveOf ==
    ASSUME NEW a, NEW h \in Nat, NEW m \in Nat, h <= m,
           \A i \in (h + 1)..m : a[i] \in Entry
    PROVE  /\ SubSeq(a, h + 1, m) \in Seq(Entry)
           /\ Len(SubSeq(a, h + 1, m)) = m - h
           /\ \A i \in 1..(m - h) : SubSeq(a, h + 1, m)[i] = a[h + i]
<1>1. h + 1 \in Int /\ m \in Int
  OBVIOUS
<1>2. /\ SubSeq(a, h + 1, m) \in Seq(Entry)
      /\ Len(SubSeq(a, h + 1, m)) = IF h + 1 <= m THEN m - (h + 1) + 1 ELSE 0
      /\ \A i \in 1..(m - (h + 1) + 1) : SubSeq(a, h + 1, m)[i] = a[(h + 1) + i - 1]
  BY <1>1, SubSeqProperties
<1> QED BY <1>2

----------------------------------------------------------------------------
(* The shape of the slice                                                  *)

LEMMA PushKeeps ==
    ASSUME QueueInductive, NEW e \in Entry, Push(e)
    PROVE  QueueInductive'
<1>1. /\ arr' \in Seq(Slots)
      /\ Len(arr') = IF n < Len(arr) THEN Len(arr) ELSE n + 1
      /\ \A i \in 1..Len(arr') : arr'[i] = IF i = n + 1 THEN e ELSE arr[i]
  BY PushWrites DEF QueueInductive
<1>2. n' = n + 1 /\ head' = head /\ n - head < MaxLive
  BY DEF Push, Length
<1>3. arr \in Seq(Slots) /\ Len(arr) \in Nat /\ n \in Nat /\ n <= Len(arr)
      /\ head \in Nat /\ head <= n /\ (head = n => n = 0)
      /\ \A i \in (head + 1)..n : arr[i] \in Entry
  BY LenProperties DEF QueueInductive, Shape, Slots
<1>4. Shape'
  BY <1>1, <1>2, <1>3 DEF Shape, Slots
<1>5. NothingRetained'
  BY <1>1, <1>2, <1>3 DEF QueueInductive, NothingRetained
<1>6. BackingBounded'
  BY <1>1, <1>2, <1>3, QueueAssumption DEF QueueInductive, BackingBounded, Length
<1> QED BY <1>4, <1>5, <1>6 DEF QueueInductive

LEMMA PopKeeps ==
    ASSUME QueueInductive, Pop
    PROVE  QueueInductive'
<1> DEFINE h == head + 1
           a == Cleared(arr, h)
<1>1. /\ a \in Seq(Slots) /\ Len(a) = Len(arr)
      /\ \A i \in 1..Len(arr) : a[i] = IF i = h THEN Zero ELSE arr[i]
  BY PopClears DEF QueueInductive, Pop
<1>2. arr \in Seq(Slots) /\ Len(arr) \in Nat /\ n \in Nat /\ n <= Len(arr)
      /\ head \in Nat /\ head < n
      /\ \A i \in h..n : arr[i] \in Entry
  BY LenProperties DEF QueueInductive, Shape, Slots, Pop, Length
<1>3. \A i \in 1..Len(arr) : i \notin h..n => arr[i] = Zero
  BY DEF QueueInductive, NothingRetained
<1>4. Threshold \in Nat /\ MaxLive \in Nat
      /\ Len(arr) <= MaxLive + (IF Threshold < MaxLive THEN MaxLive ELSE Threshold)
      /\ (head <= Threshold \/ head < n - head)
  BY QueueAssumption DEF QueueInductive, BackingBounded, Length
<1> HIDE DEF a
<1>5. CASE h = n /\ arr' = a /\ n' = 0 /\ head' = 0
  <2>1. Shape'
    BY <1>1, <1>2, <1>5 DEF Shape, Slots
  <2>2. NothingRetained'
    BY <1>1, <1>2, <1>3, <1>5 DEF NothingRetained
  <2>3. BackingBounded'
    BY <1>1, <1>2, <1>4, <1>5 DEF BackingBounded, Length
  <2> QED BY <2>1, <2>2, <2>3 DEF QueueInductive
<1>6. CASE h # n /\ SlideDue(h) /\ arr' = Slid(a, h) /\ n' = n - h /\ head' = 0
  <2>0. h \in Nat /\ h < n
    BY <1>2, <1>6
  <2>1. /\ arr' \in Seq(Slots) /\ Len(arr') = Len(arr)
        /\ \A i \in 1..Len(arr) :
              arr'[i] = IF i <= n - h THEN a[i + h] ELSE IF i <= n THEN Zero ELSE a[i]
    BY <1>1, <1>2, <1>6, <2>0, SlideMoves
  <2>2. \A i \in 1..(n - h) : arr'[i] = arr[i + h] /\ arr'[i] \in Entry
    <3> TAKE i \in 1..(n - h)
    <3>1. i \in 1..Len(arr) /\ i + h \in 1..Len(arr) /\ i + h \in h..n /\ i + h # h
      BY <1>2, <2>0
    <3> QED BY <1>1, <1>2, <2>1, <3>1
  <2>3. Shape'
    BY <1>2, <1>6, <2>0, <2>1, <2>2 DEF Shape, Slots
  <2>4. NothingRetained'
    BY <1>1, <1>2, <1>3, <1>6, <2>0, <2>1 DEF NothingRetained
  <2>5. BackingBounded'
    BY <1>2, <1>4, <1>6, <2>0, <2>1 DEF BackingBounded, Length
  <2> QED BY <2>3, <2>4, <2>5 DEF QueueInductive
<1>7. CASE h # n /\ ~SlideDue(h) /\ arr' = a /\ head' = h /\ n' = n
  <2>1. Shape'
    BY <1>1, <1>2, <1>7 DEF Shape, Slots
  <2>2. NothingRetained'
    BY <1>1, <1>2, <1>3, <1>7 DEF NothingRetained
  <2>3. BackingBounded'
    BY <1>1, <1>2, <1>4, <1>7 DEF BackingBounded, Length, SlideDue
  <2> QED BY <2>1, <2>2, <2>3 DEF QueueInductive
<1> QED BY <1>5, <1>6, <1>7 DEF Pop, a

LEMMA ResetKeeps ==
    ASSUME QueueInductive, Reset
    PROVE  QueueInductive'
<1>1. arr' \in Seq(Slots) /\ Len(arr') = 0
  BY EmptySeq DEF Reset
<1> QED
  BY <1>1, QueueAssumption DEF Reset, QueueInductive, Shape, NothingRetained,
     BackingBounded, Length, Slots

LEMMA QueueStep == QueueInductive /\ [Next]_queueVars => QueueInductive'
<1> SUFFICES ASSUME QueueInductive, [Next]_queueVars PROVE QueueInductive'
  OBVIOUS
<1>1. CASE UNCHANGED queueVars
  BY <1>1 DEF queueVars, QueueInductive, Shape, NothingRetained, BackingBounded, Length
<1>2. CASE Next
  BY <1>2, PushKeeps, PopKeeps, ResetKeeps DEF Next
<1> QED BY <1>1, <1>2

\* The head index and the live part are always in order, whatever the mix of
\* pushes, pops, compactions and resets.
THEOREM QueueInvariant == Spec => []QueueInductive
  BY QueueStarts, QueueStep, PTL DEF Spec

\* No message that was popped, discarded or moved stays reachable, and the
\* dead prefix and the backing array stay bounded, for every cap and threshold.
THEOREM MemoryIsBounded == Spec => []MemoryBounded
<1>1. QueueInductive => MemoryBounded
  BY DEF QueueInductive, MemoryBounded
<1> QED BY <1>1, QueueInvariant, PTL

----------------------------------------------------------------------------
(* The slice implements the sequence                                       *)

LEMMA PushMaps ==
    ASSUME QueueInductive, NEW e \in Entry, Push(e)
    PROVE  Abstract!Push(e)
<1>1. /\ Len(arr') = IF n < Len(arr) THEN Len(arr) ELSE n + 1
      /\ \A i \in 1..Len(arr') : arr'[i] = IF i = n + 1 THEN e ELSE arr[i]
  BY PushWrites DEF QueueInductive
<1>2. Len(arr) \in Nat /\ n \in Nat /\ n <= Len(arr) /\ head \in Nat /\ head <= n
      /\ \A i \in (head + 1)..n : arr[i] \in Entry
  BY LenProperties DEF QueueInductive, Shape
<1>3. n' = n + 1 /\ head' = head
  BY DEF Push
<1>4. /\ Live \in Seq(Entry) /\ Len(Live) = n - head
      /\ \A i \in 1..(n - head) : Live[i] = arr[head + i]
  BY <1>2, LiveOf DEF Live
<1>5. /\ SubSeq(arr', head + 1, n + 1) \in Seq(Entry)
      /\ Len(SubSeq(arr', head + 1, n + 1)) = n + 1 - head
      /\ \A i \in 1..(n + 1 - head) : SubSeq(arr', head + 1, n + 1)[i] = arr'[head + i]
  <2>1. \A i \in (head + 1)..(n + 1) : arr'[i] \in Entry
    BY <1>1, <1>2
  <2>2. n + 1 \in Nat /\ head <= n + 1
    BY <1>2
  <2> QED BY <1>2, <2>1, <2>2, LiveOf
<1>6. Append(Live, e) = SubSeq(arr', head + 1, n + 1)
  <2>1. /\ Append(Live, e) \in Seq(Entry) /\ Len(Append(Live, e)) = n - head + 1
        /\ \A i \in 1..(n - head) : Append(Live, e)[i] = Live[i]
        /\ Append(Live, e)[n - head + 1] = e
    BY <1>4, AppendProperties
  <2>2. \A i \in 1..(n - head + 1) :
           Append(Live, e)[i] = SubSeq(arr', head + 1, n + 1)[i]
    <3> TAKE i \in 1..(n - head + 1)
    <3>1. head + i \in 1..Len(arr') /\ i \in 1..(n + 1 - head)
      BY <1>1, <1>2
    <3>2. CASE i = n - head + 1
      BY <1>1, <1>2, <1>5, <2>1, <3>1, <3>2
    <3>3. CASE i \in 1..(n - head)
      BY <1>1, <1>2, <1>4, <1>5, <2>1, <3>1, <3>3
    <3>4. i = n - head + 1 \/ i \in 1..(n - head)
      BY <1>2
    <3> QED BY <3>2, <3>3, <3>4
  <2>3. n - head + 1 = n + 1 - head
    BY <1>2
  <2>4. Len(Append(Live, e)) = Len(SubSeq(arr', head + 1, n + 1))
    BY <1>5, <2>1, <2>3
  <2>5. \A i \in 1..Len(Append(Live, e)) :
           Append(Live, e)[i] = SubSeq(arr', head + 1, n + 1)[i]
    BY <2>1, <2>2
  <2> QED BY <1>5, <2>1, <2>4, <2>5, SeqEqual
<1>7. Live' = Append(Live, e)
  BY <1>3, <1>6 DEF Live
<1> QED BY <1>7 DEF Push, Abstract!Push

LEMMA PopMaps ==
    ASSUME QueueInductive, Pop
    PROVE  Abstract!Pop
<1> DEFINE h == head + 1
           a == Cleared(arr, h)
<1>1. /\ a \in Seq(Slots) /\ Len(a) = Len(arr)
      /\ \A i \in 1..Len(arr) : a[i] = IF i = h THEN Zero ELSE arr[i]
  BY PopClears DEF QueueInductive, Pop
<1>2. arr \in Seq(Slots) /\ Len(arr) \in Nat /\ n \in Nat /\ n <= Len(arr)
      /\ head \in Nat /\ head < n
      /\ \A i \in h..n : arr[i] \in Entry
  BY LenProperties DEF QueueInductive, Shape, Slots, Pop, Length
<1>3. /\ Live \in Seq(Entry) /\ Len(Live) = n - head
      /\ \A i \in 1..(n - head) : Live[i] = arr[head + i]
  BY <1>2, LiveOf DEF Live
<1> HIDE DEF a
<1>4. Live # <<>> /\ Head(Live) = arr[h]
  <2>0. Len(Live) # 0
    BY <1>2, <1>3
  <2>1. Live # <<>>
    BY <2>0
  <2>2. Head(Live) = Live[1]
    OBVIOUS
  <2>3. 1 \in 1..(n - head) /\ head + 1 = h
    BY <1>2
  <2> QED BY <1>3, <2>1, <2>2, <2>3
<1>5. /\ Tail(Live) \in Seq(Entry) /\ Len(Tail(Live)) = n - h
      /\ \A i \in 1..(n - h) : Tail(Live)[i] = arr[h + i]
  <2>1. /\ Tail(Live) \in Seq(Entry) /\ Len(Tail(Live)) = n - head - 1
        /\ \A i \in 1..Len(Tail(Live)) : Tail(Live)[i] = Live[i + 1]
    BY <1>3, <1>4, HeadTailProperties
  <2>2. Len(Tail(Live)) = n - h
    BY <1>2, <2>1
  <2>3. \A i \in 1..(n - h) : Tail(Live)[i] = arr[h + i]
    <3> TAKE i \in 1..(n - h)
    <3>1. i \in 1..Len(Tail(Live)) /\ i + 1 \in 1..(n - head) /\ head + (i + 1) = h + i
      BY <1>2, <2>2
    <3> QED BY <1>3, <2>1, <3>1
  <2> QED BY <2>1, <2>2, <2>3
<1>6. \A i \in 1..(n - h) : h + i \in 1..Len(arr) /\ arr[h + i] \in Entry
                            /\ a[h + i] = arr[h + i]
  <2> TAKE i \in 1..(n - h)
  <2>1. h + i \in 1..Len(arr) /\ h + i \in h..n /\ h + i # h
    BY <1>2
  <2> QED BY <1>1, <1>2, <2>1
<1>7. Live' = Tail(Live)
  <2>1. CASE h = n /\ arr' = a /\ n' = 0 /\ head' = 0
    <3>1. Live' = <<>>
      BY <2>1, SubSeqEmpty DEF Live
    <3>2. Tail(Live) = <<>>
      BY <1>2, <1>5, <2>1, EmptySeq
    <3> QED BY <3>1, <3>2
  <2>2. CASE h # n /\ SlideDue(h) /\ arr' = Slid(a, h) /\ n' = n - h /\ head' = 0
    <3>0. h \in Nat /\ h < n /\ n - h \in Nat
      BY <1>2, <2>2
    <3>1. \A i \in 1..Len(arr) :
             arr'[i] = IF i <= n - h THEN a[i + h] ELSE IF i <= n THEN Zero ELSE a[i]
      BY <1>1, <1>2, <2>2, <3>0, SlideMoves
    <3>2. \A i \in 1..(n - h) : arr'[i] = arr[h + i]
      <4> TAKE i \in 1..(n - h)
      <4>1. i \in 1..Len(arr) /\ i <= n - h /\ i + h = h + i
        BY <1>2, <3>0
      <4> QED BY <1>6, <3>1, <4>1
    <3>3. \A i \in 1..(n - h) : arr'[i] \in Entry
      BY <1>6, <3>2
    <3>4. /\ SubSeq(arr', 0 + 1, n - h) \in Seq(Entry)
          /\ Len(SubSeq(arr', 0 + 1, n - h)) = (n - h) - 0
          /\ \A i \in 1..((n - h) - 0) : SubSeq(arr', 0 + 1, n - h)[i] = arr'[0 + i]
      <4>1. \A i \in (0 + 1)..(n - h) : arr'[i] \in Entry
        BY <3>3
      <4> QED BY <3>0, <4>1, LiveOf
    <3>5. Live' = SubSeq(arr', 0 + 1, n - h)
      BY <2>2 DEF Live
    <3>6. \A i \in 1..(n - h) : SubSeq(arr', 0 + 1, n - h)[i] = Tail(Live)[i]
      <4> TAKE i \in 1..(n - h)
      <4>1. SubSeq(arr', 0 + 1, n - h)[i] = arr'[i]
        BY <3>0, <3>4
      <4> QED BY <1>5, <3>2, <4>1
    <3>7. Len(SubSeq(arr', 0 + 1, n - h)) = n - h
      BY <3>0, <3>4
    <3> QED BY <1>5, <3>4, <3>5, <3>6, <3>7, SeqEqual
  <2>3. CASE h # n /\ ~SlideDue(h) /\ arr' = a /\ head' = h /\ n' = n
    <3>0. h \in Nat /\ h < n
      BY <1>2, <2>3
    <3>1. \A i \in (h + 1)..n : a[i] \in Entry
      <4> TAKE i \in (h + 1)..n
      <4>1. i - h \in 1..(n - h) /\ h + (i - h) = i
        BY <1>2, <3>0
      <4> QED BY <1>6, <4>1
    <3>2. /\ SubSeq(a, h + 1, n) \in Seq(Entry)
          /\ Len(SubSeq(a, h + 1, n)) = n - h
          /\ \A i \in 1..(n - h) : SubSeq(a, h + 1, n)[i] = a[h + i]
      BY <1>2, <3>0, <3>1, LiveOf
    <3>3. Live' = SubSeq(a, h + 1, n)
      BY <2>3 DEF Live
    <3> QED BY <1>5, <1>6, <3>2, <3>3, SeqEqual
  <2> QED BY <2>1, <2>2, <2>3 DEF Pop, a
<1> QED BY <1>4, <1>7 DEF Pop, Abstract!Pop

LEMMA ResetMaps ==
    ASSUME Reset
    PROVE  Abstract!Reset
<1>1. Live' = <<>>
  BY SubSeqEmpty DEF Reset, Live
<1> QED BY <1>1 DEF Reset, Abstract!Reset

\* The queue implements the sequence: each push, pop and reset of the slice is
\* the same operation on what is queued, for every threshold.
THEOREM QueueImplementsFifo == Spec => FifoSpec
<1>1. Init => Abstract!Init
  BY SubSeqEmpty DEF Init, Abstract!Init, Live
<1>2. QueueInductive /\ [Next]_queueVars => [Abstract!Next]_(Abstract!fifoVars)
  <2> SUFFICES ASSUME QueueInductive, [Next]_queueVars
               PROVE  [Abstract!Next]_(Abstract!fifoVars)
    OBVIOUS
  <2>1. CASE UNCHANGED queueVars
    BY <2>1 DEF queueVars, Abstract!fifoVars, Live
  <2>2. CASE Next
    BY <2>2, PushMaps, PopMaps, ResetMaps DEF Next, Abstract!Next
  <2> QED BY <2>1, <2>2
<1> QED BY <1>1, <1>2, QueueInvariant, PTL DEF Spec, FifoSpec, Abstract!Spec
=============================================================================
