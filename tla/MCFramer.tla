------------------------------ MODULE MCFramer ------------------------------
(***************************************************************************)
(* Values for model checking module Framer: the two lines that decide      *)
(* where a frame begins and ends.                                          *)
(***************************************************************************)
EXTENDS FramerSafety

MCLines == {[kind |-> k, raw |-> 1] : k \in {"blank", "field"}}
=============================================================================
