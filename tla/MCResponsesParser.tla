-------------------------- MODULE MCResponsesParser --------------------------
(***************************************************************************)
(* Small streams for ResponsesParser.                                      *)
(***************************************************************************)
EXTENDS ResponsesParser

Base(type) ==
  [form |-> "json", type |-> type, error |-> FALSE, item |-> "i1",
   output |-> 0, content |-> None, summary |-> None, call |-> None,
   response |-> FALSE, id |-> FALSE, logprobs |-> FALSE, extra |-> FALSE,
   text |-> TRUE]

Text0 == [Base("output_text") EXCEPT !.content = 0]
Arguments == Base("arguments")

\* Text with and without a content index, with logprobs and ids, and of
\* another content part; reasoning by content and by summary; arguments with
\* a call id that comes late, and of another item; what is not a delta, and a
\* delta with an error.
MCEvents ==
  {Base("output_text"),
   [Text0 EXCEPT !.logprobs = TRUE, !.id = TRUE, !.response = TRUE,
                 !.extra = TRUE],
   [Text0 EXCEPT !.content = 1],
   [Base("reasoning") EXCEPT !.content = 0],
   [Base("reasoning") EXCEPT !.summary = 0],
   Arguments, [Arguments EXCEPT !.call = "c1"],
   [Arguments EXCEPT !.item = "i2", !.call = "c2"],
   [Text0 EXCEPT !.error = TRUE],
   [Base("completed") EXCEPT !.form = "done"],
   [Text0 EXCEPT !.form = "empty"]}

\* They are events the theorems speak of.
ASSUME MCEventsAreOrdinary == DeltasAreStrings /\ CallsAreItems

=============================================================================
