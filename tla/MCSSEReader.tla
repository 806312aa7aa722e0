---------------------------- MODULE MCSSEReader ----------------------------
(***************************************************************************)
(* A buffer of three cells.  A line of two and its end just fits; a line   *)
(* of three does not.                                                      *)
(***************************************************************************)
EXTENDS SSEReader
=============================================================================
