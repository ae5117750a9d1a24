--------------------------- MODULE PrivateDelivery ---------------------------
(***************************************************************************)
(* The way of a private message from the sender's window into the table    *)
(* messages, to the recipient's client, and of its status back: the        *)
(* message handlers of Server/server.cpp, the messages table of             *)
(* Server/serverstorage.cpp, and what Client/networkclient.cpp,            *)
(* Client/chatwindow.cpp and Client/chatstate.cpp do with the packets.     *)
(*                                                                         *)
(* Two users, one of whom writes to the other.  A user has one TCP         *)
(* connection at a time; connections are numbered.  The recipient opens each*)
(* of his by hand, so his tracked packets travel as ReliableLink promises  *)
(* and carry no seq here (TrackedTransport has his automatic reconnection);*)
(* the sender's do, since his client may keep them over a reconnection.    *)
(***************************************************************************)
EXTENDS Naturals, Sequences, SequencesExt, FiniteSets

CONSTANTS
    Msgs,              \* ids of private messages
    Sender, Receiver,  \* the two users
    NoMsg,             \* the message of a frame that names none
    MaxConns,          \* bound: per user the number of his connections
    MaxUnderWay,       \* bound: a client repeats nothing while this much is under way
    AutoReconnect,     \* TRUE: the sender's client reconnects by itself
    DbFaults,          \* TRUE: a query of SQLite may fail
    Restarts           \* TRUE: the server may be killed and started again

ASSUME DeliveryAssumption ==
    /\ Sender # Receiver
    /\ NoMsg \notin Msgs
    /\ MaxConns \in [{Sender, Receiver} -> Nat]
    /\ MaxUnderWay \in Nat
    /\ AutoReconnect \in BOOLEAN
    /\ DbFaults \in BOOLEAN
    /\ Restarts \in BOOLEAN

VARIABLES
    conn,       \* per user: the number of his newest connection, 0 before the first
    link,       \* per user: that connection is established
    unnoticed,  \* connections that ended and whose end the server has not noticed
    session,    \* per user: what his client takes its session to be
    up,         \* per user: frames on their way to his Connection
    down,       \* per user: calls posted to his Connection and frames to his client
    inbox,      \* main thread's event queue
    registry,   \* m_onlineUsers: per user the connection he is signed in on, 0 if none
    row,        \* table messages: the marks of each row
    tracked,    \* m_trackedMessages of the receiver's Connection
    lastSeq,    \* m_lastIncomingSeq of the sender's Connection
    nextSeq,    \* the sender's m_nextOutgoingSeq
    unacked,    \* the sender's m_trackedPackets: sets of [msg, seq]
    window,     \* per user: the status of each message in his window
    acked,      \* history: messages the sender's client saw acknowledged
    refused,    \* history: messages the server answered with an error
    givenUp     \* history: messages whose retries to the receiver ran out

network == <<conn, link, unnoticed, up, down>>
server  == <<inbox, registry, row, tracked, lastSeq>>
client  == <<session, nextSeq, unacked, window, acked>>
history == <<refused, givenUp>>
vars    == <<network, server, client, history>>

-----------------------------------------------------------------------------
Users == {Sender, Receiver}

Frame(kind, m) == [kind |-> kind, msg |-> m]
Signal(kind)   == Frame(kind, NoMsg)
Private(m, n)  == [kind |-> "private", msg |-> m, seq |-> n]
History(rows)  == [kind |-> "history", rows |-> rows]
Event(u, f)    == [user |-> u, conn |-> conn[u], frame |-> f]

ClientFrames == [kind : {"ack", "read"}, msg : Msgs]
                  \cup [kind : {"resume_session", "history", "closed"}, msg : {NoMsg}]
                  \cup [kind : {"private"}, msg : Msgs, seq : Nat]
RowStates    == {"none", "pending", "delivered", "read"}
ServerFrames == [kind : {"private", "ack", "queued", "delivered", "read"}, msg : Msgs]
                  \cup [kind : {"auth_ok", "auth_error", "error"}, msg : {NoMsg}]
                  \cup [kind : {"history"}, rows : [Msgs -> RowStates]]

TypeOK ==
    /\ conn \in [Users -> Nat]
    /\ link \in [Users -> BOOLEAN]
    /\ unnoticed \subseteq [user : Users, conn : Nat]
    /\ session \in [Users -> {"none", "asked", "on"}]
    /\ up \in [Users -> Seq(ClientFrames)]
    /\ down \in [Users -> Seq(ServerFrames)]
    /\ inbox \in Seq([user : Users, conn : Nat, frame : ClientFrames])
    /\ registry \in [Users -> Nat]
    /\ row \in [Msgs -> RowStates]
    /\ tracked \subseteq Msgs
    /\ lastSeq \in Nat
    /\ nextSeq \in Nat
    /\ unacked \subseteq [msg : Msgs, seq : Nat]
    /\ window \in [Users -> [Msgs -> {"unknown", "sending", "delivered", "read"}]]
    /\ acked \subseteq Msgs
    /\ refused \subseteq Msgs
    /\ givenUp \subseteq Msgs

Init ==
    /\ conn = [u \in Users |-> 0]
    /\ link = [u \in Users |-> FALSE]
    /\ unnoticed = {}
    /\ session = [u \in Users |-> "none"]
    /\ up = [u \in Users |-> <<>>]
    /\ down = [u \in Users |-> <<>>]
    /\ inbox = <<>>
    /\ registry = [u \in Users |-> 0]
    /\ row = [m \in Msgs |-> "none"]
    /\ tracked = {}
    /\ lastSeq = 0
    /\ nextSeq = 0
    /\ unacked = {}
    /\ window = [u \in Users |-> [m \in Msgs |-> "unknown"]]
    /\ acked = {}
    /\ refused = {}
    /\ givenUp = {}

-----------------------------------------------------------------------------
(* Connections. *)

NewConnection(u) ==
    /\ ~link[u]
    /\ conn[u] < MaxConns[u]
    /\ conn' = [conn EXCEPT ![u] = @ + 1]
    /\ link' = [link EXCEPT ![u] = TRUE]
    /\ tracked' = IF u = Receiver THEN {} ELSE tracked
    /\ lastSeq' = IF u = Sender THEN 0 ELSE lastSeq
    /\ UNCHANGED <<unnoticed, down, inbox, registry, row, window, acked, history>>

\* connectToServer forgets what the client tracked.
Connect(u) ==
    /\ NewConnection(u)
    /\ nextSeq' = IF u = Sender THEN 0 ELSE nextSeq
    /\ unacked' = IF u = Sender THEN {} ELSE unacked
    /\ UNCHANGED <<session, up>>

\* reconnectIfNeeded keeps it, and onSocketConnected resumes the session at once.
Reconnect ==
    /\ AutoReconnect
    /\ conn[Sender] > 0
    /\ NewConnection(Sender)
    /\ session' = [session EXCEPT ![Sender] = "asked"]
    /\ up' = [up EXCEPT ![Sender] = <<Signal("resume_session")>>]
    /\ UNCHANGED <<nextSeq, unacked>>

\* The connection breaks: what is on the way is lost, the client's window goes offline.
LinkLost(u) ==
    /\ link[u]
    /\ link' = [link EXCEPT ![u] = FALSE]
    /\ unnoticed' = unnoticed \cup {[user |-> u, conn |-> conn[u]]}
    /\ up' = [up EXCEPT ![u] = <<>>]
    /\ down' = [down EXCEPT ![u] = <<>>]
    /\ session' = [session EXCEPT ![u] = "none"]
    /\ UNCHANGED <<conn, server, nextSeq, unacked, window, acked, history>>

\* The socket's end or the heartbeat reaches the Connection: closed is posted.
NoticeEnd(e) ==
    /\ e \in unnoticed
    /\ unnoticed' = unnoticed \ {e}
    /\ inbox' = Append(inbox, [user |-> e.user, conn |-> e.conn, frame |-> Signal("closed")])
    /\ UNCHANGED <<conn, link, up, down, registry, row, tracked, lastSeq, client, history>>

\* The server's process ends and another is started: the tables are left.
Restart ==
    /\ Restarts
    /\ \E u \in Users : link[u] \/ registry[u] # 0
    /\ link' = [u \in Users |-> FALSE]
    /\ unnoticed' = {}
    /\ up' = [u \in Users |-> <<>>]
    /\ down' = [u \in Users |-> <<>>]
    /\ session' = [u \in Users |-> "none"]
    /\ inbox' = <<>>
    /\ registry' = [u \in Users |-> 0]
    /\ tracked' = {}
    /\ UNCHANGED <<conn, row, lastSeq, nextSeq, unacked, window, acked, history>>

-----------------------------------------------------------------------------
(* The clients. *)

\* Bound: what a user or a timer may repeat at will is repeated only while the queues
\* are short.
Quiet == Len(inbox) + Len(up[Sender]) + Len(up[Receiver])
           + Len(down[Sender]) + Len(down[Receiver]) < MaxUnderWay

\* upsertMessage and updateMessageStatus: the new status replaces the old one, whatever
\* it was; the second does not add a message.
Upsert(u, m, status)       == window' = [window EXCEPT ![u][m] = status]
UpdateStatus(u, m, status) ==
    window' = [window EXCEPT ![u][m] = IF @ = "unknown" THEN @ ELSE status]

Upload(u, frames) == up' = [up EXCEPT ![u] = @ \o frames]

\* resumeSession, or login by hand if there is no session to resume; after an error
\* the user tries again.
AskToSignIn(u) ==
    /\ link[u]
    /\ session[u] = "none"
    /\ Quiet
    /\ session' = [session EXCEPT ![u] = "asked"]
    /\ Upload(u, <<Signal("resume_session")>>)
    /\ UNCHANGED <<conn, link, unnoticed, down, server, nextSeq, unacked, window, acked, history>>

\* ChatWindow::sendMessage and NetworkClient::sendTracked.
SendMessage(m) ==
    /\ session[Sender] = "on"
    /\ window[Sender][m] = "unknown"
    /\ nextSeq' = nextSeq + 1
    /\ unacked' = unacked \cup {[msg |-> m, seq |-> nextSeq + 1]}
    /\ Upload(Sender, <<Private(m, nextSeq + 1)>>)
    /\ Upsert(Sender, m, "sending")
    /\ UNCHANGED <<conn, link, unnoticed, down, server, session, acked, history>>

\* retryPendingMessages: its timer starts with the socket, not with the session.  A
\* copy of a packet still on its way is dropped as a duplicate (TrackedTransport).
Retry(p) ==
    /\ link[Sender]
    /\ p \in unacked
    /\ Quiet
    /\ ~Contains(up[Sender], Private(p.msg, p.seq))
    /\ Upload(Sender, <<Private(p.msg, p.seq)>>)
    /\ UNCHANGED <<conn, link, unnoticed, down, server, client, history>>

\* requestCurrentHistory, when the session is activated or a dialog is opened.
RequestHistory(u) ==
    /\ session[u] = "on"
    /\ Quiet
    /\ Upload(u, <<Signal("history")>>)
    /\ UNCHANGED <<conn, link, unnoticed, down, server, client, history>>

\* markIncomingMessagesRead: what it changes.
Unread == {m \in Msgs : window[Receiver][m] \in {"sending", "delivered"}}

\* markCurrentPrivateMessagesRead: the receiver looks at the dialog.
MarkRead ==
    /\ session[Receiver] = "on"
    /\ Unread # {}
    /\ Quiet
    /\ window' = [window EXCEPT ![Receiver] =
                      [m \in Msgs |-> IF m \in Unread THEN "read" ELSE @[m]]]
    /\ \E order \in SetToSeqs(Unread) :
           Upload(Receiver, [i \in DOMAIN order |-> Frame("read", order[i])])
    /\ UNCHANGED <<conn, link, unnoticed, down, server, session, nextSeq, unacked,
                   acked, history>>

Arrives(u, kind) ==
    /\ down[u] # <<>>
    /\ Head(down[u]).kind = kind
    /\ down' = [down EXCEPT ![u] = Tail(@)]

\* onAuthSucceeded; onAuthFailed: the login window asks again.
TakeAuth(u) ==
    /\ \/ Arrives(u, "auth_ok") /\ session' = [session EXCEPT ![u] = "on"]
       \/ Arrives(u, "auth_error") /\ session' = [session EXCEPT ![u] = "none"]
    /\ UNCHANGED <<conn, link, unnoticed, up, server, nextSeq, unacked, window, acked, history>>

\* processPacket of an acknowledgement.
TakeAck ==
    /\ Arrives(Sender, "ack")
    /\ LET m == Head(down[Sender]).msg
       IN  /\ unacked' = {p \in unacked : p.msg # m}
           /\ acked' = acked \cup {m}
    /\ UNCHANGED <<conn, link, unnoticed, up, server, session, nextSeq, window, history>>

\* The handlers of queued, delivered and read.
StatusOf(kind) == IF kind = "queued" THEN "sending" ELSE kind

TakeStatus ==
    /\ \E kind \in {"queued", "delivered", "read"} : Arrives(Sender, kind)
    /\ LET f == Head(down[Sender])
       IN  UpdateStatus(Sender, f.msg, StatusOf(f.kind))
    /\ UNCHANGED <<conn, link, unnoticed, up, server, session, nextSeq, unacked, acked, history>>

\* An error names its message, but the dispatcher passes on the text only.
TakeError ==
    /\ Arrives(Sender, "error")
    /\ UNCHANGED <<conn, link, unnoticed, up, server, client, history>>

\* onHistoryReceived: every item is upserted with the status it has in the table.
\* Faulty: the table's word for the status is shown as it is.
InWindowRaw(old, mark) == IF mark = "none" THEN old ELSE mark

\* Faulty: only the read mark is looked at.
InWindowIfRead(old, mark) ==
    CASE mark = "none" -> old
      [] mark = "read" -> mark
      [] OTHER         -> "sending"

InWindow(old, mark) ==
    CASE mark = "none"    -> old
      [] mark = "pending" -> "sending"
      [] OTHER            -> mark

TakeHistory(u) ==
    /\ Arrives(u, "history")
    /\ LET rows == Head(down[u]).rows
       IN  window' = [window EXCEPT ![u] = [m \in Msgs |-> InWindow(@[m], rows[m])]]
    /\ UNCHANGED <<conn, link, unnoticed, up, server, session, nextSeq, unacked, acked, history>>

\* processPacket of a private packet, then onPrivateMessage.
TakePrivate ==
    /\ Arrives(Receiver, "private")
    /\ LET m == Head(down[Receiver]).msg
       IN  /\ Upload(Receiver, <<Frame("ack", m)>>)
           /\ Upsert(Receiver, m, "delivered")
    /\ UNCHANGED <<conn, link, unnoticed, server, session, nextSeq, unacked, acked, history>>

-----------------------------------------------------------------------------
(* A Connection on its worker thread. *)

FromPeer(u) ==
    /\ up[u] # <<>>
    /\ up' = [up EXCEPT ![u] = Tail(@)]

Post(u) == inbox' = Append(inbox, Event(u, Head(up[u])))

\* processIncomingPacket: a private message is acknowledged before the main thread has
\* seen it; a duplicate is acknowledged only.
ReceivePrivate ==
    /\ FromPeer(Sender)
    /\ LET f == Head(up[Sender])
       IN  /\ f.kind = "private"
           /\ down' = [down EXCEPT ![Sender] = Append(@, Frame("ack", f.msg))]
           /\ IF f.seq <= lastSeq
              THEN UNCHANGED <<lastSeq, inbox>>
              ELSE lastSeq' = f.seq /\ Post(Sender)
    /\ UNCHANGED <<conn, link, unnoticed, registry, row, tracked, client, history>>

\* Faulty: the entry is erased before its packet is passed on.
ReceiveAckQuietly ==
    /\ FromPeer(Receiver)
    /\ Head(up[Receiver]).kind = "ack"
    /\ tracked' = tracked \ {Head(up[Receiver]).msg}
    /\ UNCHANGED <<conn, link, unnoticed, down, inbox, registry, row, lastSeq, client, history>>

\* processIncomingPacket of an acknowledgement: that of a message given up is ignored.
ReceiveAck ==
    /\ FromPeer(Receiver)
    /\ LET f == Head(up[Receiver])
       IN  /\ f.kind = "ack"
           /\ tracked' = tracked \ {f.msg}
           /\ IF f.msg \in tracked THEN Post(Receiver) ELSE inbox' = inbox
    /\ UNCHANGED <<conn, link, unnoticed, down, registry, row, lastSeq, client, history>>

\* processIncomingPacket of a packet without seq.
ReceivePlain(u) ==
    /\ FromPeer(u)
    /\ Head(up[u]).kind \in {"resume_session", "history", "read"}
    /\ Post(u)
    /\ UNCHANGED <<conn, link, unnoticed, down, registry, row, tracked, lastSeq, client, history>>

\* checkPendingMessages: the receiver has acknowledged none of the attempts.
GiveUp(m) ==
    /\ link[Receiver]
    /\ m \in tracked
    /\ tracked' = tracked \ {m}
    /\ givenUp' = givenUp \cup {m}
    /\ UNCHANGED <<network, inbox, registry, row, lastSeq, client, refused>>

-----------------------------------------------------------------------------
(* The main thread: one action per handler of the event at the head. *)

Handle(u, kind) ==
    /\ inbox # <<>>
    /\ Head(inbox).user = u
    /\ Head(inbox).frame.kind = kind
    /\ inbox' = Tail(inbox)

Current    == Head(inbox)
IsSignedIn == registry[Current.user] = Current.conn

\* sendTo connection c of user u: lost if that connection has ended.
Reaches(u, c) == link[u] /\ conn[u] = c
Send(u, c, frames) ==
    down' = IF Reaches(u, c) THEN [down EXCEPT ![u] = @ \o frames] ELSE down
Answer(frame) == Send(Current.user, Current.conn, <<frame>>)

\* sendTo the connection a user is signed in on, if he is online.
Tell(u, frame) == Send(u, registry[u], <<frame>>)

\* sendTracked on connection c of the receiver.
TrackAll(c, msgs) ==
    /\ tracked' = IF Reaches(Receiver, c) THEN tracked \cup msgs ELSE tracked
    /\ givenUp' = givenUp \ msgs

\* onPacketReceived on a connection that is not signed in.
HandleStranger(u, kind) ==
    /\ Handle(u, kind)
    /\ ~IsSignedIn
    /\ Answer(Signal("auth_error"))
    /\ UNCHANGED <<conn, link, unnoticed, up, registry, row, tracked, lastSeq, client, history>>

Pending == {m \in Msgs : row[m] = "pending"}

\* Faulty: the query's first row is skipped.
LoadPendingButFirst ==
    {IF list = <<>> THEN list ELSE Tail(list) : list \in SetToSeqs(Pending)}

\* loadPendingPrivateMessages: the rows not marked delivered, in the order of their
\* created_at; an empty list if the query fails.
LoadPending == SetToSeqs(Pending) \cup (IF DbFaults THEN {<<>>} ELSE {})

\* A sign-in, as far as messages go: refused while another connection holds the
\* name, otherwise followed by sendPendingPrivateMessages.
HandleSignIn(u) ==
    /\ Handle(u, "resume_session")
    /\ LET c == Current.conn
       IN  \/ /\ registry[u] \notin {0, c}
              /\ Answer(Signal("auth_error"))
              /\ UNCHANGED <<registry, tracked, givenUp>>
           \/ /\ registry[u] \in {0, c}
              /\ registry' = [registry EXCEPT ![u] = c]
              /\ \E list \in IF u = Receiver THEN LoadPending ELSE {<<>>} :
                   /\ Send(u, c, <<Signal("auth_ok")>>
                                   \o [i \in DOMAIN list |-> Frame("private", list[i])])
                   /\ TrackAll(c, ToSet(list))
    /\ UNCHANGED <<conn, link, unnoticed, up, row, lastSeq, client, refused>>

\* Faulty: the row is replaced.
StoredAnew(m) == [row EXCEPT ![m] = "pending"]

\* Faulty: a message to a recipient who is online is stored as delivered.
StoredAsSent(m) ==
    [row EXCEPT ![m] = IF @ # "none" THEN @
                       ELSE IF registry[Receiver] = 0 THEN "pending" ELSE "delivered"]

\* storePrivateMessage: a row that exists keeps its marks.
Stored(m) == [row EXCEPT ![m] = IF @ = "none" THEN "pending" ELSE @]

\* handlePrivatePacket: refused (rate limit, text, recipient, database), or stored and
\* then sent on or reported as queued.
HandlePrivate ==
    /\ Handle(Sender, "private")
    /\ IsSignedIn
    /\ LET m == Current.frame.msg
           target == registry[Receiver]
       IN  \/ /\ refused' = refused \cup {m}
              /\ Answer(Signal("error"))
              /\ UNCHANGED <<row, tracked, givenUp>>
           \/ /\ row' = Stored(m)
              /\ refused' = refused
              /\ IF target = 0
                 THEN Answer(Frame("queued", m)) /\ UNCHANGED <<tracked, givenUp>>
                 ELSE Tell(Receiver, Frame("private", m)) /\ TrackAll(target, {m})
    /\ UNCHANGED <<conn, link, unnoticed, up, registry, lastSeq, client>>

\* markMessageDelivered and markMessageRead: a mark is never taken back.
Delivered(m) == [row EXCEPT ![m] = IF @ = "pending" THEN "delivered" ELSE @]
Read(m)      == [row EXCEPT ![m] = IF @ = "none" THEN @ ELSE "read"]

\* onTrackedPacketAcknowledged.
HandleAcknowledged ==
    /\ Handle(Receiver, "ack")
    /\ LET m == Current.frame.msg
       IN  \/ row' = Delivered(m) /\ Tell(Sender, Frame("delivered", m))
           \/ DbFaults /\ UNCHANGED <<row, down>>
    /\ UNCHANGED <<conn, link, unnoticed, up, registry, tracked, lastSeq, client, history>>

\* handleReadPacket: dropped by the rate limit; the database's result is not looked at.
HandleRead ==
    /\ Handle(Receiver, "read")
    /\ IsSignedIn
    /\ LET m == Current.frame.msg
       IN  \/ UNCHANGED <<row, down>>
           \/ /\ row' \in {Read(m)} \cup (IF DbFaults THEN {row} ELSE {})
              /\ Tell(Sender, Frame("read", m))
    /\ UNCHANGED <<conn, link, unnoticed, up, registry, tracked, lastSeq, client, history>>

\* handleHistoryPacket: the table as it is now.
HandleHistory(u) ==
    /\ Handle(u, "history")
    /\ IsSignedIn
    /\ Answer(History(row))
    /\ UNCHANGED <<conn, link, unnoticed, up, registry, row, tracked, lastSeq, client, history>>

\* onConnectionClosed.
HandleClosed(u) ==
    /\ Handle(u, "closed")
    /\ registry' = [registry EXCEPT ![u] = IF IsSignedIn THEN 0 ELSE @]
    /\ UNCHANGED <<network, row, tracked, lastSeq, client, history>>

-----------------------------------------------------------------------------
ServerStep ==
    \/ HandlePrivate
    \/ HandleAcknowledged
    \/ HandleRead
    \/ \E u \in Users : HandleSignIn(u) \/ HandleHistory(u) \/ HandleClosed(u)
    \/ HandleStranger(Sender, "private")

WorkerStep(u) ==
    \/ u = Sender /\ ReceivePrivate
    \/ u = Receiver /\ ReceiveAck
    \/ ReceivePlain(u)

ClientStep(u) ==
    \/ TakeAuth(u)
    \/ TakeHistory(u)
    \/ u = Sender /\ (TakeAck \/ TakeStatus \/ TakeError)
    \/ u = Receiver /\ TakePrivate

UserStep ==
    \/ \E u \in Users : Connect(u) \/ LinkLost(u) \/ AskToSignIn(u) \/ RequestHistory(u)
    \/ \E m \in Msgs : SendMessage(m) \/ GiveUp(m)
    \/ \E p \in unacked : Retry(p)
    \/ Reconnect
    \/ MarkRead
    \/ Restart

Next ==
    \/ ServerStep
    \/ \E u \in Users : WorkerStep(u) \/ ClientStep(u)
    \/ \E e \in unnoticed : NoticeEnd(e)
    \/ UserStep

Spec == Init /\ [][Next]_vars

\* Every event loop runs and TCP carries what was written.
FairSpec ==
    /\ Spec
    /\ WF_vars(ServerStep)
    /\ \A u \in Users : WF_vars(WorkerStep(u)) /\ WF_vars(ClientStep(u))

-----------------------------------------------------------------------------
(* Properties. *)

\* A message that waits in the table for a recipient who is online is on its way to
\* him, or was given up after all its retries: storing it and looking the recipient up,
\* his sign-in and the loading of what waits, and the acknowledgements leave no gap.
NotStranded ==
    \A m \in Pending :
        Reaches(Receiver, registry[Receiver]) =>
            \/ m \in givenUp
            \/ Contains(down[Receiver], Frame("private", m))
            \/ Contains(up[Receiver], Frame("ack", m))
            \/ \E i \in DOMAIN inbox : inbox[i].frame = Frame("ack", m)

\* What the table and the sender's window say of a message is true: marked delivered
\* or read, it is in the recipient's window.  His connections are opened by
\* connectToServer here; an automatic reconnection of his breaks this.
StatusIsEarned ==
    \A m \in Msgs :
        row[m] \in {"delivered", "read"} \/ window[Sender][m] \in {"delivered", "read"}
            => window[Receiver][m] # "unknown"

\* What the sender was told to be delivered is so in the table, and no restart, repeated
\* store or failed query takes it back: a later history cannot contradict it.
TableKnowsFirst ==
    \A m \in Msgs : window[Sender][m] = "delivered" => row[m] \in {"delivered", "read"}

\* A message shown as delivered or read is never shown as being sent again, although
\* statuses, history and the queued notice reach the window as separate packets.
DeliveredStays ==
    [][\A m \in Msgs : window[Sender][m] \in {"delivered", "read"}
            => window'[Sender][m] \in {"delivered", "read"}]_vars

\* A message that waits for a recipient who is signed in reaches him, or his connection
\* is lost, or its retries run out.
PendingIsDelivered ==
    \A m \in Msgs :
        (m \in Pending /\ Reaches(Receiver, registry[Receiver]))
            ~> (m \notin Pending \/ ~link[Receiver] \/ m \in givenUp)

\* README.md:17 promises confirmation of delivery by seq, ack and retry: a message whose
\* acknowledgement the sender has seen is stored or refused, or about to be.
AckedIsStored ==
    \A m \in acked :
        \/ row[m] # "none"
        \/ m \in refused
        \/ \E i \in DOMAIN inbox : inbox[i].frame.kind = "private" /\ inbox[i].frame.msg = m
=============================================================================
