-------------------------- MODULE TrackedTransport --------------------------
(***************************************************************************)
(* Tracked packets between one client program and its connections to the   *)
(* server: sequence numbers, acknowledgements, duplicate detection and     *)
(* retries of Client/networkclient.cpp with Client/networktransportstate   *)
(* .cpp at one end and Server/connection.cpp at the other.                 *)
(*                                                                         *)
(* The client keeps one transport state for as long as it runs; every TCP  *)
(* connection gets a new Connection object, with a fresh state, at the     *)
(* server.  TCP is a FIFO in each direction that a disconnection empties.  *)
(* Every tracked packet carries an id.  Packets are whole frames here, and *)
(* pings, pongs and plain packets, which carry no seq, are left out.       *)
(***************************************************************************)
EXTENDS Naturals, Sequences, SequencesExt, FiniteSets

CONSTANTS
    ClientIds,      \* ids of the client's packets: fresh UUIDs
    ServerIds,      \* ids of the packets the server sends to this client
    MaxRetries,     \* 5 in the code
    MaxSeq,         \* bound: sequence numbers used at one end
    MaxConnections, \* bound: TCP connections
    Corruption,     \* TRUE: a frame may arrive with a wrong CRC
    AutoReconnect   \* TRUE: the client's reconnect timer fires

ASSUME TransportAssumption ==
    /\ MaxRetries \in Nat
    /\ MaxSeq \in Nat
    /\ MaxConnections \in Nat
    /\ Corruption \in BOOLEAN
    /\ AutoReconnect \in BOOLEAN

VARIABLES
    up,           \* the TCP connection is established
    connections,  \* connections made so far
    reconnects,   \* canReconnect, from the first connectToServer on
    nextSeq,      \* m_nextOutgoingSeq of each end
    lastSeq,      \* m_lastIncomingSeq of each end
    tracked,      \* m_trackedPackets and m_trackedMessages
    wire,         \* frames on their way into each end
    sent,         \* history: ids each end wrote for the first time in this connection
    got,          \* history: ids each end dispatched in this connection
    offered,      \* history: ids each end ever sent
    dispatched,   \* history: ids each end ever dispatched
    acked,        \* history: ids each end saw acknowledged since connectToServer
    clean         \* history: since connectToServer no frame was corrupted and the
                  \* client did not reconnect by itself

link  == <<up, connections, reconnects>>
state == <<nextSeq, lastSeq, tracked>>
vars  == <<link, state, wire, sent, got, offered, dispatched, acked, clean>>

-----------------------------------------------------------------------------
Ends == {"client", "server"}
Peer(e) == CHOOSE p \in Ends : p # e
Ids == ClientIds \cup ServerIds

Frame(kind, id, seq) == [kind |-> kind, id |-> id, seq |-> seq]
Frames  == [kind : {"data", "ack"}, id : Ids, seq : Nat \ {0}]
Entries == [id : Ids, seq : Nat \ {0}, retries : 0 .. MaxRetries]

TypeOK ==
    /\ up \in BOOLEAN
    /\ connections \in Nat
    /\ reconnects \in BOOLEAN
    /\ nextSeq \in [Ends -> Nat]
    /\ lastSeq \in [Ends -> Nat]
    /\ tracked \in [Ends -> SUBSET Entries]
    /\ wire \in [Ends -> Seq(Frames)]
    /\ sent \in [Ends -> Seq(Ids)]
    /\ got \in [Ends -> Seq(Ids)]
    /\ offered \in [Ends -> SUBSET Ids]
    /\ dispatched \in [Ends -> SUBSET Ids]
    /\ acked \in [Ends -> SUBSET Ids]
    /\ clean \in BOOLEAN

Init ==
    /\ up = FALSE
    /\ connections = 0
    /\ reconnects = FALSE
    /\ nextSeq = [e \in Ends |-> 0]
    /\ lastSeq = [e \in Ends |-> 0]
    /\ tracked = [e \in Ends |-> {}]
    /\ wire = [e \in Ends |-> <<>>]
    /\ sent = [e \in Ends |-> <<>>]
    /\ got = [e \in Ends |-> <<>>]
    /\ offered = [e \in Ends |-> {}]
    /\ dispatched = [e \in Ends |-> {}]
    /\ acked = [e \in Ends |-> {}]
    /\ clean = TRUE

-----------------------------------------------------------------------------
(* Connections. *)

\* A new TCP connection: a new Connection object at the server, whose counters
\* start at zero; nothing is on the wire yet.
Establish ==
    /\ connections < MaxConnections
    /\ connections' = connections + 1
    /\ up' = TRUE
    /\ wire' = [e \in Ends |-> <<>>]
    /\ sent' = [e \in Ends |-> <<>>]
    /\ got' = [e \in Ends |-> <<>>]

\* Faulty: startConnection does not reset m_lastIncomingSeq.
ConnectKeepsLastSeq ==
    /\ Establish
    /\ reconnects' = TRUE
    /\ nextSeq' = [e \in Ends |-> 0]
    /\ lastSeq' = [lastSeq EXCEPT !["server"] = 0]
    /\ tracked' = [e \in Ends |-> {}]
    /\ acked' = [e \in Ends |-> {}]
    /\ clean' = TRUE
    /\ UNCHANGED <<offered, dispatched>>

\* connectToServer: startConnection clears the client's state, an open socket is
\* aborted.
ConnectToServer ==
    /\ Establish
    /\ reconnects' = TRUE
    /\ nextSeq' = [e \in Ends |-> 0]
    /\ lastSeq' = [e \in Ends |-> 0]
    /\ tracked' = [e \in Ends |-> {}]
    /\ acked' = [e \in Ends |-> {}]
    /\ clean' = TRUE
    /\ UNCHANGED <<offered, dispatched>>

\* reconnectIfNeeded: the client's counters and tracked packets are kept.
Reconnect ==
    /\ AutoReconnect
    /\ ~up
    /\ reconnects
    /\ Establish
    /\ clean' = FALSE
    /\ UNCHANGED <<reconnects, state, offered, dispatched, acked>>

\* The connection breaks, or either end aborts it: frames on the way are lost, and
\* with the Connection object the server's state.
LinkLost ==
    /\ up
    /\ up' = FALSE
    /\ wire' = [e \in Ends |-> <<>>]
    /\ nextSeq' = [nextSeq EXCEPT !["server"] = 0]
    /\ lastSeq' = [lastSeq EXCEPT !["server"] = 0]

\* onDisconnected.
Disconnected ==
    /\ LinkLost
    /\ tracked' = [tracked EXCEPT !["server"] = {}]
    /\ UNCHANGED <<connections, reconnects, sent, got, offered, dispatched, acked, clean>>

\* disconnectFromServer: prepareDisconnect gives up what was tracked.
DisconnectFromServer ==
    /\ LinkLost
    /\ reconnects' = FALSE
    /\ tracked' = [e \in Ends |-> {}]
    /\ UNCHANGED <<connections, sent, got, offered, dispatched, acked, clean>>

-----------------------------------------------------------------------------
(* Sending. *)

Write(e, frames) == wire' = [wire EXCEPT ![Peer(e)] = @ \o frames]

\* trackTrackedPacket: an entry of the same id is replaced.
Track(e, id, seq) ==
    tracked' = [tracked EXCEPT ![e] = {m \in @ : m.id # id}
                                        \cup {[id |-> id, seq |-> seq, retries |-> 0]}]

\* nextOutgoingSequence, then the packet is tracked and written.
NumberAndWrite(e, id) ==
    LET seq == nextSeq[e] + 1
    IN  /\ up
        /\ seq <= MaxSeq
        /\ nextSeq' = [nextSeq EXCEPT ![e] = seq]
        /\ Track(e, id, seq)
        /\ Write(e, <<Frame("data", id, seq)>>)
        /\ sent' = [sent EXCEPT ![e] = Append(@, id)]
        /\ offered' = [offered EXCEPT ![e] = @ \cup {id}]
        /\ UNCHANGED <<link, lastSeq, got, dispatched, acked, clean>>

\* NetworkClient::sendTracked: a fresh id.  The chat window composes messages in an
\* online session only (ChatWindow::sendMessage).
ClientSendTracked(id) ==
    /\ id \in ClientIds \ offered["client"]
    /\ NumberAndWrite("client", id)

\* Connection::sendTracked: the server may send a message again, by the same id.
ServerSendTracked(id) ==
    /\ id \in ServerIds
    /\ NumberAndWrite("server", id)

-----------------------------------------------------------------------------
(* The retry timer: it runs while the connection is up. *)

\* Faulty: off by one.
MayRetryOnceMore(m) == m.retries <= MaxRetries

\* A packet that is due is sent again, or given up after MaxRetries.
MayRetry(m) == m.retries < MaxRetries

\* Faulty: a packet without attempts left stays in the table.
AfterScanKeepsAll(table, hit) ==
    LET again == {h \in hit : MayRetry(h)}
    IN  (table \ again) \cup {[m EXCEPT !.retries = @ + 1] : m \in again}

\* The table after a scan that hit the packets in hit.
AfterScan(table, hit) ==
    (table \ hit) \cup {[m EXCEPT !.retries = @ + 1] : m \in {h \in hit : MayRetry(h)}}

\* collectTrackedRetryActions and checkPendingMessages: one scan of the table, in
\* which the entries with an id in due have reached retryAt.
RetryScan(e, due) ==
    LET hit    == {m \in tracked[e] : m.id \in due}
        resent == {m \in hit : MayRetry(m)}
    IN  /\ up
        /\ tracked' = [tracked EXCEPT ![e] = AfterScan(@, hit)]
        /\ \E order \in SetToSeqs(resent) :
               Write(e, [i \in DOMAIN order |-> Frame("data", order[i].id, order[i].seq)])
        /\ UNCHANGED <<link, nextSeq, lastSeq, sent, got, offered, dispatched, acked, clean>>

\* The ids of e's tracked packets.
Pending(e) == {m.id : m \in tracked[e]}

RetryPendingMessages(due) ==     \* the client's
    due \in (SUBSET Pending("client")) \ {{}} /\ RetryScan("client", due)

CheckPendingMessages(due) ==     \* the server's
    due \in (SUBSET Pending("server")) \ {{}} /\ RetryScan("server", due)

-----------------------------------------------------------------------------
(* Receiving. *)

Arrives(e, kind) == up /\ wire[e] # <<>> /\ Head(wire[e]).kind = kind

\* An acknowledgement forgets the packet, whatever seq it names.
TakeAck(e) ==
    /\ Arrives(e, "ack")
    /\ LET id == Head(wire[e]).id
       IN  /\ tracked' = [tracked EXCEPT ![e] = {m \in @ : m.id # id}]
           /\ acked' = [acked EXCEPT ![e] = @ \cup ({id} \cap Pending(e))]
    /\ wire' = [wire EXCEPT ![e] = Tail(@)]
    /\ UNCHANGED <<link, nextSeq, lastSeq, sent, got, offered, dispatched, clean>>

\* Faulty: off by one; no check at all.
IsDuplicateOrNext(e, seq) == seq <= lastSeq[e] + 1
IsNeverDuplicate(e, seq) == FALSE

\* isDuplicateIncomingSequence.
IsDuplicate(e, seq) == seq <= lastSeq[e]

\* A packet is acknowledged whether it is new or not; a new one is dispatched.
TakeData(e) ==
    /\ Arrives(e, "data")
    /\ LET p == Head(wire[e])
       IN  /\ wire' = [wire EXCEPT ![e] = Tail(@),
                                   ![Peer(e)] = Append(@, Frame("ack", p.id, p.seq))]
           /\ IF IsDuplicate(e, p.seq)
              THEN UNCHANGED <<lastSeq, got, dispatched>>
              ELSE /\ lastSeq' = [lastSeq EXCEPT ![e] = p.seq]
                   /\ got' = [got EXCEPT ![e] = Append(@, p.id)]
                   /\ dispatched' = [dispatched EXCEPT ![e] = @ \cup {p.id}]
    /\ UNCHANGED <<link, nextSeq, tracked, sent, offered, acked, clean>>

ProcessPacket == TakeAck("client") \/ TakeData("client")            \* the client's
ProcessIncomingPacket == TakeAck("server") \/ TakeData("server")    \* the server's

\* onReadyRead: a frame whose CRC does not match is skipped.
CrcMismatch(e) ==
    /\ Corruption
    /\ up
    /\ wire[e] # <<>>
    /\ wire' = [wire EXCEPT ![e] = Tail(@)]
    /\ clean' = FALSE
    /\ UNCHANGED <<link, state, sent, got, offered, dispatched, acked>>

-----------------------------------------------------------------------------
Next ==
    \/ ConnectToServer
    \/ Reconnect
    \/ Disconnected
    \/ DisconnectFromServer
    \/ \E id \in ClientIds : ClientSendTracked(id)
    \/ \E id \in ServerIds : ServerSendTracked(id)
    \/ \E due \in SUBSET ClientIds : RetryPendingMessages(due)
    \/ \E due \in SUBSET ServerIds : CheckPendingMessages(due)
    \/ ProcessPacket
    \/ ProcessIncomingPacket
    \/ \E e \in Ends : CrcMismatch(e)

Spec == Init /\ [][Next]_vars

\* The event loops read what has arrived; the retry timers tick, and an entry that
\* stays in the table becomes due.
Fairness ==
    /\ WF_vars(ProcessPacket)
    /\ WF_vars(ProcessIncomingPacket)
    /\ \A id \in ClientIds :
         WF_vars(\E due \in SUBSET ClientIds : id \in due /\ RetryPendingMessages(due))
    /\ \A id \in ServerIds :
         WF_vars(\E due \in SUBSET ServerIds : id \in due /\ CheckPendingMessages(due))

FairSpec == Spec /\ Fairness
-----------------------------------------------------------------------------
(* Properties. *)

\* An acknowledged packet was dispatched by the other end.  The server marks a
\* private message delivered, and the client forgets a packet, on the strength of it
\* (onTrackedPacketAcknowledged, acknowledgeTrackedPacket).
ServerAckMeansDelivered == acked["server"] \subseteq dispatched["client"]
ClientAckMeansDelivered == acked["client"] \subseteq dispatched["server"]

\* Both hold on a connection opened by connectToServer that corrupts nothing, whatever
\* earlier connections left behind.
AckMeansDelivered == clean => ServerAckMeansDelivered /\ ClientAckMeansDelivered

\* The sequence numbers that wait for end e on the wire.
SeqsFor(e) == {f.seq : f \in {g \in Range(wire[e]) : g.kind = "data"}}

\* On a connection as above, whatever is retried, given up or sent again
\* by the same id: an end has seen no number the other has not used, and those it still
\* waits for are all on the wire.  So the duplicate check never takes a packet that is
\* new for an old one.
NothingSkipped ==
    \A e \in Ends : up /\ clean =>
        /\ lastSeq[e] <= nextSeq[Peer(e)]
        /\ {n \in SeqsFor(e) : ~IsDuplicate(e, n)} = lastSeq[e] + 1 .. nextSeq[Peer(e)]

\* Every tracked packet is settled while the connection stays up, however many
\* frames are corrupted: it is acknowledged or given up after MaxRetries.
Settles ==
    \A e \in Ends, id \in Ids : id \in Pending(e) ~> id \notin Pending(e) \/ ~up

\* Within such a connection each end dispatches what the other sent, in that order and
\* once per send, however often frames are repeated; on any other nothing is promised.
Stream(ids) == [e \in Ends |-> IF clean THEN ids[e] ELSE <<>>]
Link == INSTANCE ReliableLink WITH sent <- Stream(sent), got <- Stream(got)
ImplementsReliableLink == Link!Spec
=============================================================================
