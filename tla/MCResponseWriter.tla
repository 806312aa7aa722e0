-------------------------- MODULE MCResponseWriter --------------------------
(***************************************************************************)
(* Small instances of ResponseWriter.                                      *)
(***************************************************************************)
EXTENDS ResponseWriter, TLC

CONSTANTS r1, r2

MCResponses == {r1, r2}
MCEncoderIds == {1, 2}

Accept(coding, q) == [coding |-> coding, q |-> q]
Ask(accept) == [accept |-> accept, range |-> FALSE]

\* Clients that take zstd, prefer gzip, refuse zstd of all, take nothing
\* encoded, or ask for a range.
MCRequests ==
  {Ask(<<Accept("zstd", 10)>>), Ask(<<Accept("zstd", 4), Accept("gzip", 5)>>),
   Ask(<<Accept("*", 10), Accept("zstd", 0)>>), Ask(<<>>),
   [accept |-> <<Accept("gzip", 10)>>, range |-> TRUE]}

Ok == [body |-> TRUE, coding |-> None]
MCAnswers ==
  {Ok, [body |-> TRUE, coding |-> "gzip"], [body |-> FALSE, coding |-> None]}
=============================================================================
