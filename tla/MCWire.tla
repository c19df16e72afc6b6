------------------------------- MODULE MCWire -------------------------------
(***************************************************************************)
(* Values for model checking module Wire: every kind of line, and lengths  *)
(* that fill each budget exactly and exceed it by one.                     *)
(***************************************************************************)
EXTENDS WireSafety

Line(kind, raw) == [kind |-> kind, raw |-> raw]

MCLines == {Line(k, 1) : k \in Kinds} \cup {Line(k, 2) : k \in {"blank", "output"}}
=============================================================================
