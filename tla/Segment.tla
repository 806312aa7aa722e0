------------------------------ MODULE Segment ------------------------------
(***************************************************************************)
(* Semantic segments (pkg/semantic/segments.go) as the pending buffer      *)
(* sees them: something that may be merged with its successor and that has *)
(* a size.  The text of a segment is abstracted to the sequence of         *)
(* upstream fragments it was built from, so that loss, duplication and     *)
(* reordering stay visible; its bytes are kept as a number.                *)
(***************************************************************************)
EXTENDS Naturals, Sequences

CONSTANTS
  Fragments,     \* identities of the fragments parsed from upstream events
  Keys,          \* what CanMerge compares: the Go type and its index fields
  Coalesceable,  \* the keys of reasoning, content and tool-call segments
  CallIndex,     \* tool-call indices
  CallId,        \* tool-call ids
  NoId,          \* the empty tool-call id
  Overhead       \* the constant part of BytesLen, per key

ASSUME SegmentAssumption ==
  /\ Coalesceable \subseteq Keys
  /\ NoId \notin CallId
  /\ Overhead \in [Keys -> Nat]

Call == [index : CallIndex, id : CallId \cup {NoId}]

SegmentType ==
  [key : Keys, calls : SUBSET Call, text : Seq(Fragments), size : Nat]

BytesLen(s) == s.size + Overhead[s.key]

\* Two calls with one index and two different ids are different tool calls.
Conflict(c, d) ==
  c.index = d.index /\ c.id # NoId /\ d.id # NoId /\ c.id # d.id

\* RoleSegment.CanMerge holds for an equal role next to it, which the parser
\* never emits (RolesExact in ChatParser); no other control segment merges.
CanMerge(s, n) ==
  /\ s.key = n.key
  /\ s.key \in Coalesceable
  /\ \A c \in s.calls, d \in n.calls : ~Conflict(c, d)

\* A call that had no id takes the id that arrives later.
MergeCalls(a, b) ==
  {c \in a \cup b : \/ c.id # NoId
                    \/ \A d \in a \cup b : d.index = c.index => d.id = NoId}

\* Mutant: the new text goes in front.
MergeInFront(s, n) ==
  [key   |-> s.key,
   calls |-> MergeCalls(s.calls, n.calls),
   text  |-> n.text \o s.text,
   size  |-> s.size + n.size]

\* The receiver is extended.  An id or a name both have is counted once in
\* the code, so the size here is the largest the merge can give.
Merge(s, n) ==
  [key   |-> s.key,
   calls |-> MergeCalls(s.calls, n.calls),
   text  |-> s.text \o n.text,
   size  |-> s.size + n.size]

=============================================================================
