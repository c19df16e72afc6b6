-------------------------------- MODULE Queue -------------------------------
(***************************************************************************)
(* The queue of a branch (internal/demux/queue.go): a slice that is popped *)
(* by advancing a head index, and whose live tail is slid to the front     *)
(* once the dead prefix is large enough.                                   *)
(*                                                                         *)
(* `arr` is the backing array as far as it was ever written; a slot beyond *)
(* it is zero.  Go's append writes in place while there is capacity and    *)
(* moves to a larger array otherwise, which in `arr` is the same.  The     *)
(* machine checks the cap of the branch before every push.                 *)
(***************************************************************************)
EXTENDS Integers, Sequences, SequencesExt

CONSTANTS
    Payloads, NoPayload,    \* messages, and a cleared reference
    Sizes,                  \* charges
    Threshold,              \* a dead prefix up to this length is kept: 32
    MaxLive                 \* the item cap of the branch

ASSUME QueueAssumption ==
    /\ NoPayload \notin Payloads
    /\ Sizes \subseteq Nat
    /\ Threshold \in Nat /\ MaxLive \in Nat

VARIABLES
    arr,    \* the backing array
    n,      \* len(entries)
    head, bytes,
    out     \* what the last pop or reset returned

queueVars == <<arr, n, head, bytes, out>>

Entry == [msg : Payloads, size : Sizes]
Zero == [msg |-> NoPayload, size |-> 0]
Released(total) == [msg |-> NoPayload, size |-> total]

Length == n - head
Live == SubSeq(arr, head + 1, n)

Init ==
    /\ arr = <<>> /\ n = 0 /\ head = 0 /\ bytes = 0
    /\ out = Zero

Push(e) ==
    /\ Length < MaxLive
    /\ arr' = IF n < Len(arr) THEN [arr EXCEPT ![n + 1] = e] ELSE Append(arr, e)
    /\ n' = n + 1
    /\ bytes' = bytes + e.size
    /\ UNCHANGED <<head, out>>

Cleared(a, i) == [a EXCEPT ![i] = Zero]

\* Fault: the tail that was copied from stays behind the new end.
SlidOnly(a, h) ==
    [i \in 1..Len(a) |-> IF i <= n - h THEN a[i + h] ELSE a[i]]

\* Fault: the copy starts one slot early.
SlidEarly(a, h) ==
    [i \in 1..Len(a) |->
        IF i <= n - h THEN a[i + h - 1] ELSE IF i <= n THEN Zero ELSE a[i]]

\* copy and clear: the live tail moves to the front, what is behind it is zero.
Slid(a, h) ==
    [i \in 1..Len(a) |->
        IF i <= n - h THEN a[i + h] ELSE IF i <= n THEN Zero ELSE a[i]]

SlideDue(h) == h > Threshold /\ h >= n - h

Pop ==
    /\ Length > 0
    /\ out' = arr[head + 1]
    /\ bytes' = bytes - arr[head + 1].size
    /\ LET h == head + 1
           a == Cleared(arr, h)
       IN  \/ /\ h = n
              /\ arr' = a /\ n' = 0 /\ head' = 0
           \/ /\ h # n /\ SlideDue(h)
              /\ arr' = Slid(a, h) /\ n' = n - h /\ head' = 0
           \/ /\ h # n /\ ~SlideDue(h)
              /\ arr' = a /\ head' = h /\ UNCHANGED n

Reset ==
    /\ out' = Released(bytes)
    /\ arr' = <<>> /\ n' = 0 /\ head' = 0 /\ bytes' = 0

Next == Pop \/ Reset \/ \E e \in Entry : Push(e)

Spec == Init /\ [][Next]_queueVars

----------------------------------------------------------------------------
(* Properties                                                              *)

\* The slice with its head index behaves as a plain sequence: whatever the mix
\* of pushes, pops and compactions, no message is lost, doubled or reordered.
Abstract == INSTANCE Fifo
    WITH items <- Live, charge <- bytes, NoEntry <- Zero

FifoSpec == Abstract!Spec

\* A delivered message is not kept alive by the backing array: every slot
\* outside the live part is cleared, also those a compaction has vacated.
NothingRetained ==
    \A i \in 1..Len(arr) : i \notin (head + 1)..n => arr[i] = Zero

\* Under any churn the dead prefix is short or shorter than the live tail, so
\* that the backing array stays within twice the cap or the threshold.
BackingBounded ==
    /\ head <= Threshold \/ head < Length
    /\ Len(arr) <= MaxLive + (IF Threshold < MaxLive THEN MaxLive ELSE Threshold)

\* The memory of a queue is what it holds, up to its slack.
MemoryBounded == NothingRetained /\ BackingBounded

----------------------------------------------------------------------------
(* The inductive invariant of module QueueProofs                           *)

\* The head stays inside the slice, and an empty queue starts at the front.
Shape ==
    /\ arr \in Seq(Entry \cup {Zero})
    /\ n \in Nat /\ n <= Len(arr)
    /\ head \in Nat /\ head <= n
    /\ head = n => n = 0
    /\ \A i \in (head + 1)..n : arr[i] \in Entry

QueueInductive == Shape /\ NothingRetained /\ BackingBounded
=============================================================================
