--------------------------- MODULE ServerSessions ---------------------------
(***************************************************************************)
(* The server's session core: Server/server.cpp (the main thread),         *)
(* Server/connection.cpp and Server/worker.cpp (the life of a Connection   *)
(* on its worker thread) and the users and sessions tables of              *)
(* Server/serverstorage.cpp.                                               *)
(*                                                                         *)
(* Threads talk through Qt event queues.  inbox is the main thread's: what *)
(* the connections' signals post to it (Qt::QueuedConnection).  calls[c]   *)
(* is what QMetaObject::invokeMethod and deleteLater post to connection c. *)
(* One action is one event-loop callback.                                  *)
(***************************************************************************)
EXTENDS Naturals, Sequences, FiniteSets

CONSTANTS
    Users,        \* normalised user names
    Conns,        \* TCP connections, each served by one Connection object
    NoUser,       \* QHash::value of a missing key: the empty name
    NoConn,       \* QHash::value of a missing key: nullptr
    MaxTokens,    \* bound: sessions issued in one behaviour
    QueueBound,   \* bound: events waiting for the main thread
    CallBound,    \* bound: calls waiting for a connection that still receives
    DbFaults      \* TRUE: a write of SQLite may fail

ASSUME SessionsAssumption ==
    /\ NoUser \notin Users
    /\ NoConn \notin Conns
    /\ MaxTokens \in Nat
    /\ QueueBound \in Nat
    /\ CallBound \in Nat
    /\ DbFaults \in BOOLEAN

VARIABLES
    onlineUsers,      \* Server::m_onlineUsers
    connectionUsers,  \* Server::m_connectionUsers
    registered,       \* table users
    sessions,         \* table sessions: the live token of a user, 0 if none
    lastToken,        \* the newest token generateSessionToken has made
    inbox,            \* main thread's event queue
    calls,            \* per connection: the events posted to it
    phase,            \* life of the Connection object
    sock,             \* Connection::m_socket
    closedNotified,   \* Connection::m_closedNotified
    told              \* per connection: the token and the users list sent last

registry == <<onlineUsers, connectionUsers>>
storage  == <<registered, sessions, lastToken>>
object   == <<phase, sock, closedNotified>>
vars == <<registry, storage, inbox, calls, object, told>>

-----------------------------------------------------------------------------
Tokens == 0 .. MaxTokens

SignUpPackets == [type : {"register", "login"}, user : Users, good : BOOLEAN]
ResumePackets == [type : {"resume_session"}, user : Users, token : Tokens]
OtherPackets  == [type : {"logout", "request"}]
Packets == SignUpPackets \cup ResumePackets \cup OtherPackets

PacketEvent(c, p) == [kind |-> "packet", conn |-> c, packet |-> p]
ReadyEvent(c)     == [kind |-> "ready",  conn |-> c]
ClosedEvent(c)    == [kind |-> "closed", conn |-> c]

Events == [kind : {"packet"}, conn : Conns, packet : Packets]
            \cup [kind : {"ready", "closed"}, conn : Conns]

\* What the server queues on a connection: packets to write, and two requests.
SendKinds == {"auth_ok", "auth_error", "session_invalid", "users", "dialogs", "answer"}
Calls == SendKinds \cup {"closeAndNotify", "deleteLater"}

TypeOK ==
    /\ onlineUsers \in [Users -> Conns \cup {NoConn}]
    /\ connectionUsers \in [Conns -> Users \cup {NoUser}]
    /\ registered \subseteq Users
    /\ sessions \in [Users -> Nat]
    /\ lastToken \in Nat
    /\ inbox \in Seq(Events)
    /\ calls \in [Conns -> Seq(Calls)]
    /\ phase \in [Conns -> {"unused", "posted", "announced", "hooked",
                            "started", "deleted"}]
    /\ sock \in [Conns -> {"none", "open", "gone", "unconnected", "released"}]
    /\ closedNotified \in [Conns -> BOOLEAN]
    /\ told \in [Conns -> [token : Nat, list : SUBSET Users]]

NothingTold == [token |-> 0, list |-> {}]

Init ==
    /\ onlineUsers = [u \in Users |-> NoConn]
    /\ connectionUsers = [c \in Conns |-> NoUser]
    /\ registered \in SUBSET Users
    /\ sessions = [u \in Users |-> 0]
    /\ lastToken = 0
    /\ inbox = <<>>
    /\ calls = [c \in Conns |-> <<>>]
    /\ phase = [c \in Conns |-> "unused"]
    /\ sock = [c \in Conns |-> "none"]
    /\ closedNotified = [c \in Conns |-> FALSE]
    /\ told = [c \in Conns |-> NothingTold]

-----------------------------------------------------------------------------
(* The connection on its worker thread. *)

OnlineSet(online) == {u \in Users : online[u] # NoConn}

\* sendTo and the other invokeMethod calls: queued on the connection's thread.
Post(q, c, x) == [q EXCEPT ![c] = Append(@, x)]

\* broadcastUsers: the list of all online users, to every online connection.
Reached(online) == {online[u] : u \in Users} \ {NoConn}

BroadcastUsers(q, online) ==
    [c \in Conns |-> IF c \in Reached(online) THEN Append(q[c], "users") ELSE q[c]]

\* Faulty: the list is built before the registry is changed.
TellUsersTooEarly(t, online) ==
    [c \in Conns |-> IF c \in Reached(online)
                     THEN [t[c] EXCEPT !.list = OnlineSet(onlineUsers)] ELSE t[c]]

TellUsers(t, online) ==
    [c \in Conns |-> IF c \in Reached(online)
                     THEN [t[c] EXCEPT !.list = OnlineSet(online)] ELSE t[c]]

\* onNewConnection: the socket goes to a worker, its attach is queued there.
Accept(c) ==
    /\ phase[c] = "unused"
    /\ phase' = [phase EXCEPT ![c] = "posted"]
    /\ sock' = [sock EXCEPT ![c] = "open"]
    /\ UNCHANGED <<registry, storage, inbox, calls, closedNotified, told>>

\* attachSocket up to connectionReady: the worker blocks until the main thread
\* has run onConnectionReady.
AttachSocket(c) ==
    /\ phase[c] = "posted"
    /\ phase' = [phase EXCEPT ![c] = "announced"]
    /\ inbox' = Append(inbox, ReadyEvent(c))
    /\ UNCHANGED <<registry, storage, calls, sock, closedNotified, told>>

\* attachSocket goes on: Connection::start connects the socket's signals.
StartConnection(c) ==
    /\ phase[c] = "hooked"
    /\ phase' = [phase EXCEPT ![c] = "started"]
    /\ UNCHANGED <<registry, storage, inbox, calls, sock, closedNotified, told>>

\* Faulty: m_closedNotified is not looked at.
NotifyClosedAgain(c) ==
    /\ closedNotified' = [closedNotified EXCEPT ![c] = TRUE]
    /\ inbox' = Append(inbox, ClosedEvent(c))

\* notifyClosedOnce.
NotifyClosedOnce(c) ==
    /\ closedNotified' = [closedNotified EXCEPT ![c] = TRUE]
    /\ inbox' = IF closedNotified[c] THEN inbox ELSE Append(inbox, ClosedEvent(c))

\* Faulty: the end is notified, the socket stays connected.
NotifyWithoutClose(c) == NotifyClosedOnce(c) /\ sock' = sock

\* closeAndNotify: the socket's signals are disconnected, the socket is released.
CloseAndNotify(c) ==
    /\ sock' = [sock EXCEPT ![c] = "released"]
    /\ NotifyClosedOnce(c)

IsAuth(e) == e.kind = "packet" /\ e.packet.type \in {"register", "login", "resume_session"}

\* Bounds on what the peers send; a token a peer names was issued before.
Receivable(p) ==
    /\ Len(inbox) < QueueBound
    /\ \A d \in Conns : Len(calls[d]) < CallBound
    /\ p.type \in {"register", "login", "resume_session"} =>
         lastToken + Cardinality({i \in DOMAIN inbox : IsAuth(inbox[i])}) < MaxTokens
    /\ p.type = "resume_session" => p.token <= lastToken

\* onReadyRead and processIncomingPacket: a packet for the server.
ReceivePacket(c, p) ==
    /\ phase[c] = "started"
    /\ sock[c] \in {"open", "gone"}
    /\ Receivable(p)
    /\ inbox' = Append(inbox, PacketEvent(c, p))
    /\ UNCHANGED <<registry, storage, calls, object, told>>

\* onReadyRead: a frame with an impossible length.
ReceiveInvalidPacket(c) ==
    /\ phase[c] = "started"
    /\ sock[c] \in {"open", "gone"}
    /\ CloseAndNotify(c)
    /\ UNCHANGED <<registry, storage, calls, phase, told>>

\* The peer closes its socket or its host vanishes.
PeerLeaves(c) ==
    /\ sock[c] = "open"
    /\ sock' = [sock EXCEPT ![c] = "gone"]
    /\ UNCHANGED <<registry, storage, inbox, calls, phase, closedNotified, told>>

\* onSocketDisconnected: the timers go on until the object is deleted.
SocketDisconnected(c) ==
    /\ phase[c] = "started"
    /\ sock[c] = "gone"
    /\ sock' = [sock EXCEPT ![c] = "unconnected"]
    /\ NotifyClosedOnce(c)
    /\ UNCHANGED <<registry, storage, calls, phase, told>>

\* Faulty: the silent connection is closed with closeConnection.
HeartbeatClosesOnly(c) ==
    /\ phase[c] = "started"
    /\ sock[c] # "released"
    /\ sock' = [sock EXCEPT ![c] = "released"]
    /\ UNCHANGED <<registry, storage, inbox, calls, phase, closedNotified, told>>

\* checkPendingMessages: no pong for 15 seconds.
HeartbeatTimeout(c) ==
    /\ phase[c] = "started"
    /\ sock[c] # "released"
    /\ CloseAndNotify(c)
    /\ UNCHANGED <<registry, storage, calls, phase, told>>

\* The worker runs the next event posted to the connection.  sendPlain writes to
\* a connected socket and drops the packet otherwise.
RunSend(c) ==
    /\ phase[c] = "started"
    /\ calls[c] # <<>>
    /\ Head(calls[c]) \in SendKinds
    /\ calls' = [calls EXCEPT ![c] = Tail(@)]
    /\ UNCHANGED <<registry, storage, inbox, object, told>>

RunClose(c) ==
    /\ phase[c] = "started"
    /\ calls[c] # <<>>
    /\ Head(calls[c]) = "closeAndNotify"
    /\ CloseAndNotify(c)
    /\ calls' = [calls EXCEPT ![c] = Tail(@)]
    /\ UNCHANGED <<registry, storage, phase, told>>

\* ~Connection: events still posted to the object go with it.
RunDelete(c) ==
    /\ phase[c] = "started"
    /\ calls[c] # <<>>
    /\ Head(calls[c]) = "deleteLater"
    /\ phase' = [phase EXCEPT ![c] = "deleted"]
    /\ sock' = [sock EXCEPT ![c] = "released"]
    /\ calls' = [calls EXCEPT ![c] = <<>>]
    /\ told' = [told EXCEPT ![c] = NothingTold]
    /\ UNCHANGED <<registry, storage, inbox, closedNotified>>

-----------------------------------------------------------------------------
(* The main thread: one action per handler of the event at the head. *)

Take(e) ==
    /\ inbox # <<>>
    /\ Head(inbox) = e
    /\ inbox' = Tail(inbox)

\* onConnectionReady: the signals are connected, the worker is released.
ConnectionReady(c) ==
    /\ Take(ReadyEvent(c))
    /\ phase' = [phase EXCEPT ![c] = "hooked"]
    /\ UNCHANGED <<registry, storage, calls, sock, closedNotified, told>>

\* One packet to c.
Reply(c, kind) ==
    /\ calls' = Post(calls, c, kind)
    /\ told' = told

\* A request that is turned down, or answered, without any other effect.
Decline(c, kind) == Reply(c, kind) /\ UNCHANGED <<registry, storage>>

\* Faulty: only attachAuthenticatedSession looks whether the user is online.
CanAlwaysStart(c, u) == TRUE

\* canStartAuthenticatedSession.
CanStart(c, u) == connectionUsers[c] = u \/ onlineUsers[u] \in {NoConn, c}

\* issueSession: a fresh token replaces the user's row.
Issue(u) == [sessions EXCEPT ![u] = lastToken + 1]

\* Faulty: the row is marked instead of deleted.
MarkInvalid(s, u) == {[s EXCEPT ![u] = 0 - 1]}

\* invalidateSession: deletes the row; nobody looks at its result.
Invalidate(s, u) == {[s EXCEPT ![u] = 0]} \cup (IF DbFaults THEN {s} ELSE {})

\* Faulty: an account switch leaves the earlier user in m_onlineUsers.
SwitchKeepsName(c, u) == onlineUsers

\* The registry once the connection's earlier user, if another, is signed out.
SwitchedOff(c, u) ==
    IF connectionUsers[c] \in {NoUser, u} THEN onlineUsers
    ELSE [onlineUsers EXCEPT ![connectionUsers[c]] = NoConn]

\* attachAuthenticatedSession and finalizeAuthenticatedSession, after a session
\* was issued: the connection's earlier user, if another, is signed out first.
SignIn(c, u) ==
    LET old == connectionUsers[c]
        switching == old \notin {NoUser, u}
        online == SwitchedOff(c, u)
        owner  == IF switching THEN [connectionUsers EXCEPT ![c] = NoUser] ELSE connectionUsers
        rows   == IF switching THEN Invalidate(Issue(u), old) ELSE {Issue(u)}
    IN  /\ lastToken' = lastToken + 1
        /\ IF online[u] \in {NoConn, c}
           THEN /\ onlineUsers' = [online EXCEPT ![u] = c]
                /\ connectionUsers' = [owner EXCEPT ![c] = u]
                /\ sessions' \in rows
                /\ calls' = Post(BroadcastUsers(Post(calls, c, "auth_ok"), onlineUsers'),
                                 c, "dialogs")
                /\ told' = TellUsers([told EXCEPT ![c].token = lastToken + 1], onlineUsers')
           ELSE /\ onlineUsers' = online
                /\ connectionUsers' = owner
                /\ sessions' \in UNION {Invalidate(s, u) : s \in rows}
                /\ Reply(c, "auth_error")

\* handleRegisterPacket.
HandleRegister(c, u, good) ==
    /\ Take(PacketEvent(c, [type |-> "register", user |-> u, good |-> good]))
    /\ \/ Decline(c, "auth_error")
       \/ ~CanStart(c, u) /\ Decline(c, "auth_error")
       \/ /\ CanStart(c, u)
          /\ ~good \/ u \in registered \/ DbFaults
          /\ Decline(c, "auth_error")
       \/ /\ CanStart(c, u) /\ good /\ u \notin registered
          /\ registered' = registered \cup {u}
          /\ SignIn(c, u)
       \/ /\ DbFaults /\ CanStart(c, u) /\ good /\ u \notin registered
          /\ registered' = registered \cup {u}
          /\ Reply(c, "auth_error")
          /\ UNCHANGED <<registry, sessions, lastToken>>
    /\ UNCHANGED object

\* handleLoginPacket.
HandleLogin(c, u, good) ==
    /\ Take(PacketEvent(c, [type |-> "login", user |-> u, good |-> good]))
    /\ \/ Decline(c, "auth_error")
       \/ ~CanStart(c, u) /\ Decline(c, "auth_error")
       \/ /\ CanStart(c, u)
          /\ ~good \/ u \notin registered \/ DbFaults
          /\ Decline(c, "auth_error")
       \/ /\ CanStart(c, u) /\ good /\ u \in registered
          /\ registered' = registered
          /\ SignIn(c, u)
    /\ UNCHANGED object

\* handleResumeSessionPacket.
HandleResume(c, u, t) ==
    /\ Take(PacketEvent(c, [type |-> "resume_session", user |-> u, token |-> t]))
    /\ \/ Decline(c, "session_invalid")
       \/ ~CanStart(c, u) /\ Decline(c, "auth_error")
       \/ /\ CanStart(c, u)
          /\ t = 0 \/ sessions[u] # t \/ DbFaults
          /\ Decline(c, "session_invalid")
       \/ /\ CanStart(c, u) /\ t # 0 /\ sessions[u] = t
          /\ registered' = registered
          /\ SignIn(c, u)
    /\ UNCHANGED object

\* A session's expires_at passes: resumeSession, the only reader of the row,
\* deletes such a row before it looks at the token.
ExpireSession(u) ==
    /\ sessions[u] # 0
    /\ sessions' = [sessions EXCEPT ![u] = 0]
    /\ UNCHANGED <<registry, registered, lastToken, inbox, calls, object, told>>

\* Faulty: the name stays in m_onlineUsers.
UnregisterKeepsName(c) ==
    /\ connectionUsers' = [connectionUsers EXCEPT ![c] = NoUser]
    /\ onlineUsers' = onlineUsers

\* unregisterConnection.
Unregister(c) ==
    /\ connectionUsers' = [connectionUsers EXCEPT ![c] = NoUser]
    /\ onlineUsers' = IF connectionUsers[c] = NoUser THEN onlineUsers
                      ELSE [onlineUsers EXCEPT ![connectionUsers[c]] = NoConn]

\* onPacketReceived: a packet that needs a user, on a connection that has none.
HandleStranger(c, p) ==
    /\ Take(PacketEvent(c, p))
    /\ connectionUsers[c] = NoUser
    /\ Decline(c, "auth_error")
    /\ UNCHANGED object

\* handleLogoutPacket.
HandleLogout(c) ==
    /\ Take(PacketEvent(c, [type |-> "logout"]))
    /\ connectionUsers[c] # NoUser
    /\ sessions' \in Invalidate(sessions, connectionUsers[c])
    /\ Unregister(c)
    /\ calls' = Post(BroadcastUsers(calls, onlineUsers'), c, "closeAndNotify")
    /\ told' = TellUsers(told, onlineUsers')
    /\ UNCHANGED <<registered, lastToken, object>>

\* handleCheckUserPacket, handleDialogsPacket and handleHistoryPacket: one answer.
HandleRequest(c) ==
    /\ Take(PacketEvent(c, [type |-> "request"]))
    /\ connectionUsers[c] # NoUser
    /\ Decline(c, "answer")
    /\ UNCHANGED object

\* Faulty: the object is never deleted.
ConnectionClosedLeaks(c) ==
    /\ Take(ClosedEvent(c))
    /\ Unregister(c)
    /\ calls' = BroadcastUsers(calls, onlineUsers')
    /\ told' = TellUsers(told, onlineUsers')
    /\ UNCHANGED <<storage, object>>

\* onConnectionClosed.
ConnectionClosed(c) ==
    /\ Take(ClosedEvent(c))
    /\ Unregister(c)
    /\ calls' = Post(BroadcastUsers(calls, onlineUsers'), c, "deleteLater")
    /\ told' = TellUsers(told, onlineUsers')
    /\ UNCHANGED <<storage, object>>

\* The process dies and is started again: only the database is left.
Restart ==
    /\ \E c \in Conns : phase[c] \notin {"unused", "deleted"}
    /\ onlineUsers' = [u \in Users |-> NoConn]
    /\ connectionUsers' = [c \in Conns |-> NoUser]
    /\ inbox' = <<>>
    /\ calls' = [c \in Conns |-> <<>>]
    /\ phase' = [c \in Conns |-> IF phase[c] = "unused" THEN "unused" ELSE "deleted"]
    /\ sock' = [c \in Conns |-> IF phase[c] = "unused" THEN "none" ELSE "released"]
    /\ told' = [c \in Conns |-> NothingTold]
    /\ UNCHANGED <<storage, closedNotified>>

-----------------------------------------------------------------------------
ServerStep ==
    \E c \in Conns :
        \/ ConnectionReady(c)
        \/ \E u \in Users, good \in BOOLEAN : HandleRegister(c, u, good)
        \/ \E u \in Users, good \in BOOLEAN : HandleLogin(c, u, good)
        \/ \E u \in Users, t \in Tokens : HandleResume(c, u, t)
        \/ \E p \in OtherPackets : HandleStranger(c, p)
        \/ HandleLogout(c)
        \/ HandleRequest(c)
        \/ ConnectionClosed(c)

\* What the connection's thread does of itself, whatever the peer sends.
WorkerStep(c) ==
    \/ AttachSocket(c)
    \/ StartConnection(c)
    \/ RunSend(c)
    \/ RunClose(c)
    \/ RunDelete(c)

PeerStep(c) ==
    \/ Accept(c)
    \/ PeerLeaves(c)
    \/ ReceiveInvalidPacket(c)
    \/ \E p \in Packets : ReceivePacket(c, p)

Next ==
    \/ ServerStep
    \/ \E c \in Conns : \/ WorkerStep(c)
                        \/ PeerStep(c)
                        \/ SocketDisconnected(c)
                        \/ HeartbeatTimeout(c)
    \/ \E u \in Users : ExpireSession(u)
    \/ Restart

Spec == Init /\ [][Next]_vars

\* The event loops run, and the heartbeat timer of a connection whose peer is
\* gone expires: no pong renews it.
Fairness ==
    /\ WF_vars(ServerStep)
    /\ \A c \in Conns : WF_vars(WorkerStep(c))
    /\ \A c \in Conns : WF_vars(sock[c] = "gone" /\ HeartbeatTimeout(c))

FairSpec == Spec /\ Fairness
-----------------------------------------------------------------------------
(* Properties. *)

\* The two hash maps stay inverse to each other through sign-in, account switch
\* on a live connection, logout, close and restart (attachAuthenticatedSession,
\* unregisterConnection): a name never points at a connection of someone else.
RegistryBijection ==
    \A u \in Users, c \in Conns : onlineUsers[u] = c <=> connectionUsers[c] = u

\* The main thread keeps raw Connection pointers in the maps and in queued
\* events; onConnectionClosed has the object deleted.  No pointer to a deleted
\* object is left anywhere the main thread will look.
NoUseAfterFree ==
    \A c \in Conns : phase[c] = "deleted" =>
        /\ connectionUsers[c] = NoUser
        /\ \A u \in Users : onlineUsers[u] # c
        /\ \A i \in DOMAIN inbox : inbox[i].conn # c

\* deleteLater is among the calls posted to c.
DoomedIn(q, c) == \E i \in DOMAIN q[c] : q[c][i] = "deleteLater"

\* A connection has a user, and posts packets and its end, only while it runs.
RunningOnly ==
    /\ \A c \in Conns : connectionUsers[c] # NoUser => phase[c] = "started"
    /\ \A i \in DOMAIN inbox : phase[inbox[i].conn] =
           IF inbox[i].kind = "ready" THEN "announced" ELSE "started"

\* A connection's announcement and its end are the last it has in the queue.
LastWord ==
    \A i, j \in DOMAIN inbox : i < j /\ inbox[i].kind # "packet" =>
        inbox[j].conn # inbox[i].conn

\* Once its end was notified a connection reads no more packets.
EndIsQuiet ==
    /\ \A c \in Conns : closedNotified[c] =>
         \/ phase[c] = "deleted"
         \/ phase[c] = "started" /\ sock[c] \in {"unconnected", "released"}
    /\ \A i \in DOMAIN inbox : inbox[i].kind = "closed" => closedNotified[inbox[i].conn]

\* Nothing on the main thread names a connection that is about to be deleted.
DoomedIsForgotten ==
    \A c \in Conns : DoomedIn(calls, c) =>
        /\ closedNotified[c]
        /\ connectionUsers[c] = NoUser
        /\ \A i \in DOMAIN inbox : inbox[i].conn # c

\* Why no pointer dangles: what holds between the life of a connection object, the
\* events that name it and the call that deletes it (notifyClosedOnce,
\* onConnectionClosed).  NoUseAfterFree follows.
Lifecycle == RunningOnly /\ LastWord /\ EndIsQuiet /\ DoomedIsForgotten

\* Every signed-in client that is still connected is shown, once what was posted
\* to it has been written, exactly the users that are online (broadcastUsers).
UsersListCurrent ==
    \A c \in Conns : connectionUsers[c] # NoUser /\ sock[c] = "open" =>
        told[c].list = OnlineSet(onlineUsers)

\* The token a signed-in client was given last is the one the database accepts,
\* until it expires: no refused or failed attempt of another connection to sign
\* in as the same user rotates or deletes it (canStartAuthenticatedSession runs
\* before loginUser and resumeSession write).
HolderCanResume ==
    \A c \in Conns, u \in Users :
        connectionUsers[c] = u /\ sock[c] = "open" =>
            sessions[u] \in {0, told[c].token}

\* A user whose peer is gone does not stay online: the closed socket or the
\* heartbeat removes him from the registry, and frees his name.
GhostLeaves ==
    \A c \in Conns, u \in Users :
        onlineUsers[u] = c /\ sock[c] = "gone" ~> onlineUsers[u] # c

\* Every Connection whose end was notified is deleted in the end: the closed
\* event reaches onConnectionClosed once and its deleteLater is carried out.
ClosedIsFreed ==
    \A c \in Conns : closedNotified[c] ~> phase[c] = "deleted"

\* The registry, read as a directory of who is online where, is one in which
\* names are taken and given back atomically and never taken over, whatever the
\* order in which the threads' events arrive.
Directory == INSTANCE SessionDirectory WITH holder <- onlineUsers
ImplementsDirectory == Directory!Spec
=============================================================================
