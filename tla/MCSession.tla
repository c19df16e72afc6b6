----------------------------- MODULE MCSession -----------------------------
(***************************************************************************)
(* Values for model checking module Session: one event name, no ordinary   *)
(* subscriptions (module Demux checks those), messages of one size.        *)
(***************************************************************************)
EXTENDS SessionSafety

MCNames == {"evt"}
MCFollowEvents == [f \in Follows |-> {}]
MCFollowCompletions == [f \in Follows |-> {}]
MCListCompletions == [l \in Lists |-> {}]
MCSubNames == [s \in Subs |-> {}]
MCCaps == [Items |-> 1, Bytes |-> 2]
MCCounts == {CountAbsent}
=============================================================================
