-------------------------- MODULE MCBufferClients --------------------------
(***************************************************************************)
(* Small instances of BufferClients.  Sizes are scaled down: a segment has *)
(* one byte of overhead and at most one of payload, and the watermarks are *)
(* reached after two of them.                                              *)
(***************************************************************************)
EXTENDS BufferClients

CONSTANTS p1, p2

MCProducers == {p1, p2}

MCFragments == Producers \X (1 .. 3)
MCKeys == {"content", "tool", "finish"}
MCCoalesceable == {"content", "tool"}
MCOverhead == [k \in MCKeys |-> 1]

Content == [key |-> "content", calls |-> {}, size |-> 1]
Finish == [key |-> "finish", calls |-> {}, size |-> 0]
ToolCall(id) ==
  [key |-> "tool", calls |-> {[index |-> 0, id |-> id]}, size |-> 1]

\* One producer appends text or a control segment; the other up to three
\* deltas of one tool-call index, each with one of two ids or with none.
MCShapes == [p \in {p1, p2} |->
               IF p = p1 THEN {Content, Finish}
                         ELSE {ToolCall("a"), ToolCall("b"), ToolCall("")}]
MCMaxAppends == [p \in {p1, p2} |-> IF p = p1 THEN 1 ELSE 3]
=============================================================================
