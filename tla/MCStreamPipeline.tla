-------------------------- MODULE MCStreamPipeline --------------------------
(***************************************************************************)
(* Small instances of StreamPipeline: events of none, one or two segments, *)
(* text of two kinds, a control segment and the usage.                     *)
(***************************************************************************)
EXTENDS StreamPipeline

MCFragments == 1 .. MaxFragments
MCKeys == {"reasoning", "content", "usage"}
MCCoalesceable == {"reasoning", "content"}
MCOverhead == [k \in MCKeys |-> 1]

Shape(key, size) == [key |-> key, calls |-> {}, size |-> size]

MCEvents ==
  {<<>>, <<Shape("content", 1)>>, <<Shape("reasoning", 1)>>,
   <<Shape("content", 1), Shape("usage", 0)>>}
=============================================================================
