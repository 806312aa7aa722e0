---------------------------- MODULE MCChatParser ----------------------------
(***************************************************************************)
(* Small streams for ChatParser.                                           *)
(***************************************************************************)
EXTENDS ChatParser

Nothing(c) ==
  [choice |-> c, role |-> None, reasoning |-> None, content |-> FALSE,
   tools |-> <<>>, extraDelta |-> FALSE, finish |-> FALSE]

One(choice) ==
  [form |-> "chunk", extra |-> FALSE, choices |-> <<choice>>, usage |-> FALSE]

Other(form) ==
  [form |-> form, extra |-> FALSE, choices |-> <<>>, usage |-> FALSE]

RoleChunk(role) == One([Nothing(0) EXCEPT !.role = role])
Content(c) == One([Nothing(c) EXCEPT !.content = TRUE])
Tool(index, id) ==
  One([Nothing(0) EXCEPT !.tools = <<[index |-> index, id |-> id]>>])

\* Deltas of two choices, each with its role; unknown fields of the root and
\* of a delta; a reasoning chunk that becomes content and ends; tool calls
\* alone, together, with an id, with another one and with none, and twice in
\* a chunk; an error that has choices too.
MCChunks ==
  {RoleChunk("assistant"),
   One([Nothing(0) EXCEPT !.role = "assistant", !.content = TRUE]),
   One([Nothing(0) EXCEPT !.role = "tool", !.reasoning = "reasoning"]),
   Content(1),
   [Content(0) EXCEPT !.extra = TRUE],
   [One([Nothing(0) EXCEPT !.reasoning = "reasoning", !.content = TRUE])
      EXCEPT !.choices = Append(@, [Nothing(1) EXCEPT !.content = TRUE])],
   One([Nothing(0) EXCEPT !.extraDelta = TRUE]),
   Tool(0, "a"), Tool(0, "b"), Tool(0, None),
   One([Nothing(0) EXCEPT
          !.tools = <<[index |-> 1, id |-> "c"], [index |-> 0, id |-> None]>>]),
   One([Nothing(0) EXCEPT
          !.tools = <<[index |-> 0, id |-> "a"], [index |-> 0, id |-> None]>>]),
   [One([Nothing(0) EXCEPT !.finish = TRUE]) EXCEPT !.usage = TRUE],
   Other("done"), [Content(0) EXCEPT !.form = "error"], Other("malformed")}

\* Content and a role that comes again.
MCRoleChunks == {RoleChunk("assistant"), Content(0)}

\* Content with an unknown root field.
MCExtraChunks == {[Content(0) EXCEPT !.extra = TRUE]}
=============================================================================
