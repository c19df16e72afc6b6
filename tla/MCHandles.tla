----------------------------- MODULE MCHandles -----------------------------
(***************************************************************************)
(* Values for model checking module Handles.                               *)
(***************************************************************************)
EXTENDS HandlesSafety

MCReasons == {"Lagged", "ClientDead"}
=============================================================================
