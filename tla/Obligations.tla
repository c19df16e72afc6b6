---------------------------- MODULE Obligations ----------------------------
(***************************************************************************)
(* What the retirement discipline of docs/demux.md promises, without the   *)
(* pendings, branches and records that carry it: an admitted action owes   *)
(* its response, and a list its terminal mark too, until the client has    *)
(* heard them.  At most MaxRetirement public actions owe anything, and     *)
(* nothing that is owed is forgotten while the client lives.               *)
(***************************************************************************)
EXTENDS Naturals, FiniteSets

CONSTANTS Public, Lists, Pings, MaxRetirement

Facts(a) == IF a \in Lists THEN {"response", "mark"} ELSE {"response"}

Actions == Public \cup Pings

VARIABLES owed, heard, live

vars == <<owed, heard, live>>

Owing == {a \in Actions : owed[a] # {}}

Init ==
    /\ live = TRUE
    /\ owed = [a \in Actions |-> {}]
    /\ heard = [a \in Actions |-> {}]

Admit(a) ==
    /\ live /\ owed[a] = {}
    /\ IF a \in Pings THEN Owing \cap Pings = {}
       ELSE Cardinality(Owing \ Pings) < MaxRetirement
    /\ owed' = [owed EXCEPT ![a] = Facts(a)]
    /\ UNCHANGED <<heard, live>>

\* The client hears the response, the mark, or both at once (a rejection); only
\* this reduces what an action owes.
Hear(a, facts) ==
    /\ live
    /\ owed' = [owed EXCEPT ![a] = @ \ facts]
    /\ heard' = [heard EXCEPT ![a] = @ \cup facts]
    /\ UNCHANGED live

\* The action was never sent, so nothing will come.
Withdraw(a) ==
    /\ live /\ "response" \in owed[a]
    /\ owed' = [owed EXCEPT ![a] = {}]
    /\ UNCHANGED <<heard, live>>

\* The death of the client settles every account.
Die ==
    /\ live /\ live' = FALSE
    /\ owed' = [a \in Actions |-> {}]
    /\ UNCHANGED heard

Next ==
    \/ \E a \in Actions :
          Admit(a) \/ Withdraw(a)
          \/ \E facts \in SUBSET {"response", "mark"} : Hear(a, facts)
    \/ Die

Spec == Init /\ [][Next]_vars
=============================================================================
