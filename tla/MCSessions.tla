----------------------------- MODULE MCSessions -----------------------------
(***************************************************************************)
(* Two requests and a viewer whose channel holds two events.               *)
(***************************************************************************)
EXTENDS Sessions
=============================================================================
