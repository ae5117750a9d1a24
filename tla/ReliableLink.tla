---------------------------- MODULE ReliableLink ----------------------------
(***************************************************************************)
(* What a connection promises for tracked packets, without sequence        *)
(* numbers, acknowledgements and retries: two streams, each received in    *)
(* the order in which it was sent, nothing skipped and nothing twice.      *)
(***************************************************************************)
EXTENDS Naturals, Sequences

CONSTANTS ClientIds, ServerIds

VARIABLES sent, got   \* per end: what it sent and what it received so far

Ids == ClientIds \cup ServerIds
Ends == {"client", "server"}
Peer(e) == CHOOSE p \in Ends : p # e
Nothing == [e \in Ends |-> <<>>]

Init == sent = Nothing /\ got = Nothing

Send(e, id) ==
    /\ sent' = [sent EXCEPT ![e] = Append(@, id)]
    /\ got' = got

\* The next packet of the peer's stream.
Receive(e) ==
    /\ Len(got[e]) < Len(sent[Peer(e)])
    /\ got' = [got EXCEPT ![e] = Append(@, sent[Peer(e)][Len(@) + 1])]
    /\ sent' = sent

\* A new connection: both streams start again.
Reset == sent' = Nothing /\ got' = Nothing

Next ==
    \/ \E e \in Ends, id \in Ids : Send(e, id)
    \/ \E e \in Ends : Receive(e)
    \/ Reset

Spec == Init /\ [][Next]_<<sent, got>>
=============================================================================
