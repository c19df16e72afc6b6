------------------------------ MODULE MCDemux ------------------------------
(***************************************************************************)
(* Values for model checking module Demux: two event names, of which       *)
(* "done" is the completion that follows and lists declare.                *)
(***************************************************************************)
EXTENDS DemuxSafety

CONSTANTS s1, s2

MCNames == {"evt", "done"}
MCFollowEvents == [f \in Follows |-> {"evt"}]
MCFollowCompletions == [f \in Follows |-> {"done"}]
MCListCompletions == [l \in Lists |-> {"done"}]

\* The first subscription matches every event, the second only completions.
MCSubNames == [s \in Subs |-> IF s = s1 THEN MCNames ELSE {"done"}]

MCCaps == [Items |-> 2, Bytes |-> 3]
MCSmallCaps == [Items |-> 1, Bytes |-> 2]
MCCounts == {CountAbsent, CountMalformed, 0, 1}
MCAbsent == {CountAbsent}

\* Nothing tells one Ping from another.
MCPings == Permutations(Pings)
=============================================================================
