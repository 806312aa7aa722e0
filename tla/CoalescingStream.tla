-------------------------- MODULE CoalescingStream --------------------------
(***************************************************************************)
(* What the proxy promises for one stream: the client receives the pieces  *)
(* of the upstream stream in their order, none lost and none twice, each   *)
(* delivered segment being a run of consecutive pieces of one kind.  How   *)
(* long the runs are is left open.  A stream that completes has delivered  *)
(* everything; one that aborts has delivered a prefix.                     *)
(***************************************************************************)
EXTENDS Naturals, Sequences

CONSTANT Pieces   \* [key, frag]: one fragment and the kind of its segment

VARIABLES
  up,       \* the pieces taken from upstream
  client,   \* the runs delivered: sequences of pieces
  sent,     \* how many pieces of up were delivered
  status    \* "open", "complete" or "aborted"

streamVars == <<up, client, sent, status>>

Init == up = <<>> /\ client = <<>> /\ sent = 0 /\ status = "open"

\* After an abort the reader may still take pieces nobody will see.
Accept ==
  \E piece \in Pieces :
    /\ status # "complete"
    /\ up' = Append(up, piece)
    /\ UNCHANGED <<client, sent, status>>

Deliver ==
  \E last \in sent + 1 .. Len(up) :
    /\ status = "open"
    /\ \A i \in sent + 1 .. last : up[i].key = up[last].key
    /\ client' = Append(client, SubSeq(up, sent + 1, last))
    /\ sent' = last
    /\ UNCHANGED <<up, status>>

Complete ==
  /\ status = "open" /\ sent = Len(up)
  /\ status' = "complete"
  /\ UNCHANGED <<up, client, sent>>

Abort ==
  /\ status = "open"
  /\ status' = "aborted"
  /\ UNCHANGED <<up, client, sent>>

Next == Accept \/ Deliver \/ Complete \/ Abort

Safety == Init /\ [][Next]_streamVars

\* What was taken does not stay in the proxy: it is delivered or the stream
\* aborts.
Delivery == WF_streamVars(Deliver)

Spec == Safety /\ Delivery

=============================================================================
