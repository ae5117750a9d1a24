------------------------------ MODULE ClientFlow ------------------------------
(***************************************************************************)
(* The session flow of the client: Client/clientflowcontroller.cpp with    *)
(* Client/clientflowstate.cpp and the table last_session, and underneath   *)
(* the connection control of ClientConnection, whose signals it handles.   *)
(* What the chat window does with the messages is in ChatHistory.          *)
(*                                                                         *)
(* Signals are direct calls, so one action is one event with everything it *)
(* sets off: a step of ClientConnection and the handlers of its signals,   *)
(* which run inside disconnectFromServer and connectToServer as well.      *)
(*                                                                         *)
(* The servers are reduced to the answers they may give, to whether the    *)
(* one token that the client stores is accepted where it was issued, and   *)
(* to the end of a connection, which a server may see before the client    *)
(* does; ServerSessions has the detail.                                    *)
(***************************************************************************)
EXTENDS Naturals, Sequences, FiniteSets, SequencesExt

CONSTANTS
    Users,
    NoUser,
    Servers,     \* endpoints
    Home,        \* the endpoint given on the command line (setInitialEndpoint)
    Steps,       \* entries of kReconnectScheduleMs
    QueueBound   \* bound: sign-ins on their way before the user tries once more

ASSUME FlowAssumption ==
    /\ NoUser \notin Users
    /\ Home \in Servers
    /\ Steps \in Nat \ {0}
    /\ QueueBound \in Nat

VARIABLES
    sock, manual, enabled, attempt, timer, ticking, partial, aligned, again, asked,
    session,    \* m_lastSession; token: whether it has one
    disk,       \* the row of last_session
    expired,    \* the stored token's sessionExpiresAt is in the past
    current,    \* m_currentHost and m_currentPort
    active,     \* m_activeUsername
    blocked,    \* m_sessionResumeBlocked
    window,     \* the window shown; "closed" while the program does not run
    busy,       \* the login window waits for an answer
    button,     \* the connection window offers the offline mode
    chatUser,   \* the chat window's m_state.username()
    chatMode,   \* m_onlineSession and m_offlineMode
    good,       \* session.server accepts the stored token for session.user
    signed,     \* the user the server knows this connection by
    served,     \* the server has the connection still (until onConnectionClosed)
    up, down,   \* requests to sign in and answers on their way
    missed      \* history: a packet was lost on this connection

net     == <<sock, manual, enabled, attempt, timer, ticking, partial, aligned, again, asked>>
account == <<session, disk, expired, current, active, blocked>>
chat    == <<chatUser, chatMode>>
queues  == <<signed, served, up, down, missed>>
vars    == <<net, account, window, busy, button, chat, good, queues>>

Connection == INSTANCE ClientConnection

-----------------------------------------------------------------------------
NoSession == [user |-> NoUser, server |-> Home, token |-> FALSE]
Sessions  == {NoSession} \cup [user : Users, server : Servers, token : BOOLEAN]
HasStored == session.user # NoUser

Packet(type, user) == [type |-> type, user |-> user]
Packets(types) == [type : types, user : Users \cup {NoUser}]

TypeOK ==
    /\ Connection!TypeOK
    /\ session \in Sessions
    /\ disk \in Sessions
    /\ expired \in BOOLEAN
    /\ current \in Servers
    /\ active \in Users \cup {NoUser}
    /\ blocked \in BOOLEAN
    /\ window \in {"closed", "connection", "login", "chat"}
    /\ busy \in BOOLEAN
    /\ button \in BOOLEAN
    /\ chatUser \in Users \cup {NoUser}
    /\ chatMode \in {"none", "offline", "online"}
    /\ good \in BOOLEAN
    /\ signed \in Users \cup {NoUser}
    /\ served \in BOOLEAN
    /\ up \in Seq(Packets({"login", "resume_session"}))
    /\ down \in Seq(Packets({"auth_ok", "auth_error", "session_invalid"}))
    /\ missed \in BOOLEAN

Init ==
    /\ Connection!Init
    /\ session = NoSession
    /\ disk = NoSession
    /\ expired = FALSE
    /\ current = Home
    /\ active = NoUser
    /\ blocked = FALSE
    /\ window = "closed"
    /\ busy = FALSE
    /\ button = FALSE
    /\ chatUser = NoUser
    /\ chatMode = "none"
    /\ good = FALSE
    /\ signed = NoUser
    /\ served = FALSE
    /\ up = <<>>
    /\ down = <<>>
    /\ missed = FALSE

-----------------------------------------------------------------------------
(* Parts of the handlers. *)

\* ChatWindow::activateSession.
Activate(user, mode) == chatUser' = user /\ chatMode' = mode

\* Faulty: the chat window is left as it is.
OnSocketDisconnectedInChat ==
    IF window = "chat" /\ active # NoUser
    THEN UNCHANGED <<chat, window, button>>
    ELSE button' = HasStored /\ window' = "connection" /\ UNCHANGED chat

\* onSocketDisconnected.
OnSocketDisconnected ==
    IF window = "chat" /\ active # NoUser
    THEN Activate(active, "offline") /\ UNCHANGED <<window, button>>
    ELSE button' = HasStored /\ window' = "connection" /\ UNCHANGED chat

\* Faulty: the row of last_session keeps the token.
ForgetTokenUnsaved ==
    /\ session' = [session EXCEPT !.token = FALSE]
    /\ expired' = FALSE
    /\ good' = FALSE
    /\ disk' = disk

\* clearStoredSessionToken and persistStoredSessionState.
ForgetToken ==
    /\ session' = [session EXCEPT !.token = FALSE]
    /\ expired' = FALSE
    /\ good' = FALSE
    /\ disk' = session'

\* onTransportError of a socket that is connected.
NoLongerBusy == busy' = (busy /\ window # "login")

\* What was on its way is lost with the connection.
Cut ==
    /\ signed' = NoUser
    /\ served' = FALSE
    /\ up' = <<>>
    /\ down' = <<>>
    /\ missed' = FALSE

-----------------------------------------------------------------------------
(* The program starts and ends. *)

\* start.
Start ==
    /\ window = "closed"
    /\ Connection!ConnectToServer
    /\ session' = disk
    /\ current' = IF disk.user = NoUser THEN Home ELSE disk.server
    /\ window' = "connection"
    /\ UNCHANGED <<disk, expired, active, blocked, busy, button, chat, good, queues>>

\* Only the two tables outlive the program.
Forget ==
    /\ window # "closed"
    /\ window' = "closed"
    /\ session' = NoSession
    /\ current' = Home
    /\ active' = NoUser
    /\ blocked' = FALSE
    /\ busy' = FALSE
    /\ button' = FALSE
    /\ chatUser' = NoUser
    /\ chatMode' = "none"
    /\ Cut
    /\ UNCHANGED <<disk, expired, good>>

\* aboutToQuit disconnects; a program that is killed does not.
Quit == Connection!DisconnectFromServer /\ Forget
Kill == Connection!ProgramEnds /\ Forget

-----------------------------------------------------------------------------
(* Signals of NetworkClient. *)

\* onSocketConnected: a token that expired is dropped; with a token the session is
\* resumed, without one, or after a change of server, the user is asked.
SocketConnected ==
    /\ Connection!Connected
    /\ button' = FALSE
    /\ IF expired /\ session.token
       THEN ForgetToken
       ELSE UNCHANGED <<session, disk, expired, good>>
    /\ IF session'.token /\ ~blocked
       THEN /\ up' = <<Packet("resume_session", session.user)>>
            /\ UNCHANGED <<window, busy>>
       ELSE up' = <<>> /\ window' = "login" /\ busy' = FALSE
    /\ served' = TRUE
    /\ UNCHANGED <<current, active, blocked, chat, signed, down, missed>>

\* The peer closed the connection; onSocketError emits transportError before.
ConnectionLost ==
    /\ Connection!ConnectionLost
    /\ NoLongerBusy
    /\ OnSocketDisconnected
    /\ Cut
    /\ UNCHANGED <<account, good>>

HeartbeatExpired ==
    /\ Connection!HeartbeatExpired
    /\ OnSocketDisconnected
    /\ Cut
    /\ UNCHANGED <<account, busy, good>>

\* onTransportError, then onSocketDisconnected inside abort().  Only bytes that are out
\* of step with the frames look like this.
InvalidPacket ==
    /\ ~aligned
    /\ Connection!ReceiveInvalidPacket
    /\ NoLongerBusy
    /\ OnSocketDisconnected
    /\ Cut
    /\ UNCHANGED <<account, good>>

\* Faulty: onTransportError leaves the button.
ConnectFailsQuietly ==
    /\ Connection!ConnectFails
    /\ UNCHANGED <<account, window, busy, button, chat, good, queues>>

\* onTransportError of a socket that is not connected.
ConnectFails ==
    /\ Connection!ConnectFails
    /\ button' = HasStored
    /\ NoLongerBusy
    /\ UNCHANGED <<account, window, chat, good, queues>>

ReconnectIfNeeded ==
    /\ Connection!ReconnectIfNeeded
    /\ UNCHANGED <<account, window, busy, button, chat, good, queues>>

\* A part of a frame arrives.
ReceivePart ==
    /\ aligned
    /\ Connection!ReceiveBytes
    /\ UNCHANGED <<account, window, busy, button, chat, good, queues>>

\* Out of step, packets are lost and may be reported as errors.
ReceiveGarbage ==
    /\ ~aligned
    /\ Connection!ReceiveBytes
    /\ NoLongerBusy
    /\ down' \in {down, IF down = <<>> THEN down ELSE Tail(down)}
    /\ missed' = (missed \/ down' # down)
    /\ UNCHANGED <<account, window, button, chat, good, signed, served, up>>

\* An error packet, or one that is dropped after its retries: transportError.
TransportError ==
    /\ sock = "connected"
    /\ busy
    /\ NoLongerBusy
    /\ UNCHANGED <<net, account, window, button, chat, good, queues>>

-----------------------------------------------------------------------------
(* Packets of the server. *)

\* The next packet is complete.
Arrives(type) ==
    /\ aligned
    /\ down # <<>>
    /\ Head(down).type = type
    /\ down' = Tail(down)
    /\ Connection!ReceiveBytes
    /\ UNCHANGED <<signed, served, up, missed>>

\* Another token is on its way, which makes the one before it worthless.
Issued(answers) == \E k \in DOMAIN answers : answers[k].type = "auth_ok"

\* onAuthSucceeded.  The token may have expired or been replaced on its way.
AuthSucceeded ==
    /\ Arrives("auth_ok")
    /\ LET p == Head(down)
       IN  /\ session' = [user |-> p.user, server |-> current, token |-> TRUE]
           /\ good' \in {FALSE, ~Issued(down')}
           /\ active' = p.user
           /\ Activate(p.user, "online")
    /\ disk' = session'
    /\ expired' = FALSE
    /\ blocked' = FALSE
    /\ busy' = FALSE
    /\ window' = "chat"
    /\ UNCHANGED <<current, button>>

\* Faulty: the login window is not shown.
AuthFailedQuietly ==
    /\ Arrives("auth_error")
    /\ busy' = FALSE
    /\ UNCHANGED <<account, window, button, chat, good>>

\* onAuthFailed.
AuthFailed ==
    /\ Arrives("auth_error")
    /\ busy' = FALSE
    /\ window' = "login"
    /\ UNCHANGED <<account, button, chat, good>>

\* onSessionInvalid.
SessionInvalid ==
    /\ Arrives("session_invalid")
    /\ blocked' = TRUE
    /\ ForgetToken
    /\ busy' = FALSE
    /\ window' = "login"
    /\ UNCHANGED <<current, active, button, chat>>

-----------------------------------------------------------------------------
(* The user. *)

\* onLoginRequested and onRegisterRequested.  A server that dropped the connection reads
\* nothing more.
CredentialsEntered(u) ==
    /\ window = "login"
    /\ ~busy
    /\ Len(up) + Len(down) < QueueBound
    /\ blocked' = FALSE
    /\ busy' = TRUE
    /\ up' = IF served THEN Append(up, Packet("login", u)) ELSE up
    /\ UNCHANGED <<net, session, disk, expired, current, active, window, button, chat,
                   good, signed, served, down, missed>>

\* onOfflineModeRequested.
OfflineModeRequested ==
    /\ window = "connection"
    /\ button
    /\ HasStored
    /\ active' = IF active = NoUser THEN session.user ELSE active
    /\ Activate(active', "offline")
    /\ window' = "chat"
    /\ UNCHANGED <<net, session, disk, expired, current, blocked, busy, button, good,
                   queues>>

\* onChangeServerRequested: the chat window is hidden before connectToServer aborts the
\* connection, so onSocketDisconnected only sets the button.
ChangeServerRequested(s) ==
    /\ window # "closed"
    /\ Connection!ConnectToServer
    /\ blocked' = (s # current)
    /\ current' = s
    /\ window' = "connection"
    /\ button' = (sock = "connected" /\ HasStored)
    /\ Cut
    /\ UNCHANGED <<session, disk, expired, active, busy, chat, good>>

\* Faulty: only the user's name is cleared.
SessionAfterLogoutKeepsToken == [session EXCEPT !.user = NoUser]

\* handleLogout.
SessionAfterLogout == NoSession

\* onLogoutRequested.  deactivateSession clears the chat window, but the disconnection of
\* a socket that is connected activates it again, before handleLogout.
LogoutRequested ==
    /\ window = "chat"
    /\ chatUser # NoUser
    /\ IF sock = "connected" /\ active # NoUser THEN Activate(active, "offline")
       ELSE Activate(NoUser, "none")
    /\ Connection!Redial
    /\ good' = FALSE
    /\ session' = SessionAfterLogout
    /\ disk' = session'
    /\ expired' = FALSE
    /\ active' = NoUser
    /\ blocked' = FALSE
    /\ button' = FALSE
    /\ window' = "connection"
    /\ Cut
    /\ UNCHANGED <<current, busy>>

-----------------------------------------------------------------------------
(* The servers, and time. *)

Answer(type, user) == down' = Append(down, Packet(type, user))

\* issueSession: a fresh token makes the stored one worthless, also that of another user
\* who was signed in on this connection; the new one is the client's when it is told.
SignIn(u) ==
    /\ Answer("auth_ok", u)
    /\ signed' = u
    /\ good' = (good /\ (session.server # current \/ session.user \notin {u, signed}))

\* The token of a resume_session is the one that was issued for its user here.
Accepted(p) == good /\ session.server = current /\ p.user = session.user

\* The next request is answered: a login as the password and the registry have it, a
\* resume_session by the token and the registry; a rate limit turns down either.
ServerAnswers ==
    /\ served
    /\ up # <<>>
    /\ up' = Tail(up)
    /\ LET p == Head(up)
       IN  \/ /\ p.type = "login" \/ Accepted(p)
              /\ SignIn(p.user)
           \/ /\ p.type = "login" \/ Accepted(p)
              /\ Answer("auth_error", NoUser)
              /\ UNCHANGED <<good, signed>>
           \/ /\ p.type = "resume_session"
              /\ Answer("session_invalid", NoUser)
              /\ UNCHANGED <<good, signed>>
    /\ UNCHANGED <<net, account, window, busy, button, chat, served, missed>>

\* The token expires, also while its user is online with it (expires_at is set once, by
\* issueSession), or a sign-in on another connection replaces it.
ServerForgets ==
    /\ good
    /\ good' = FALSE
    /\ UNCHANGED <<net, account, window, busy, button, chat, queues>>

\* onConnectionClosed: the server's heartbeat ran out, its socket failed or it stopped,
\* and the client has yet to notice.  Answers that were sent before may arrive still;
\* requests are lost, and the user may sign in elsewhere.
ServerDrops ==
    /\ served
    /\ served' = FALSE
    /\ signed' = NoUser
    /\ up' = <<>>
    /\ UNCHANGED <<net, account, window, busy, button, chat, good, down, missed>>

\* The client's clock passes the stored token's time.
TokenExpires ==
    /\ disk.token
    /\ ~expired
    /\ expired' = TRUE
    /\ UNCHANGED <<net, session, disk, current, active, blocked, window, busy, button,
                   chat, good, queues>>

-----------------------------------------------------------------------------
ReceivePacket == AuthSucceeded \/ AuthFailed \/ SessionInvalid

Next ==
    \/ Start
    \/ Quit
    \/ Kill
    \/ SocketConnected
    \/ ConnectionLost
    \/ HeartbeatExpired
    \/ InvalidPacket
    \/ ConnectFails
    \/ ReconnectIfNeeded
    \/ ReceivePart
    \/ ReceiveGarbage
    \/ TransportError
    \/ ReceivePacket
    \/ \E u \in Users : CredentialsEntered(u)
    \/ OfflineModeRequested
    \/ \E s \in Servers : ChangeServerRequested(s)
    \/ LogoutRequested
    \/ ServerAnswers
    \/ ServerForgets
    \/ ServerDrops
    \/ TokenExpires

Spec == Init /\ [][Next]_vars

\* The server answers, the event loop reads and its timers fire; no pong comes from a
\* server that dropped the connection, nor is one found in bytes out of step; and of the
\* attempts to connect some succeeds.
Fairness ==
    /\ WF_vars(ServerAnswers)
    /\ WF_vars(ReceivePacket)
    /\ WF_vars(~(aligned /\ served) /\ HeartbeatExpired)
    /\ WF_vars(ReconnectIfNeeded)
    /\ SF_vars(SocketConnected)

FairSpec == Spec /\ Fairness

-----------------------------------------------------------------------------
(* Properties. *)

\* A chat window that lets its user compose is that of the stored session, which is one
\* of the endpoint the client is connected to; and as long as the server has the
\* connection, and no newer sign-in is on its way, the server knows it by that user: not
\* by an earlier user, at an earlier server or on a connection that is gone, in whatever
\* order answers, errors, changes of server and disconnections came (activateSession).
\* Whether the token can still be resumed is not the window's to know.
ChatIsSignedIn ==
    /\ window = "chat" => chatUser = active /\ session.user = active
    /\ window = "chat" /\ chatMode = "online" =>
        /\ sock = "connected"
        /\ session = [user |-> active, server |-> current, token |-> TRUE]
        /\ served /\ ~Issued(down) => signed = active

\* The row of last_session is the session in memory, so a program that is killed between
\* any two events starts again with what it had; and after a logout with nothing
\* (persistStoredSessionState).
RestartKeepsSession == window # "closed" => disk = session

\* The login window is shown only while its credentials reach a server, and the
\* connection window offers the offline mode exactly to a user with a stored session
\* whose connection failed (updateOfflineAvailability).
WindowFitsConnection ==
    /\ window = "login" => sock = "connected"
    /\ window = "connection" =>
        /\ button => HasStored /\ sock # "connected"
        /\ HasStored /\ sock = "unconnected" => button

\* The connection is there, but its user can neither sign in nor chat.
Waiting ==
    /\ sock = "connected"
    /\ ~(window = "login" /\ ~busy)
    /\ ~(window = "chat" /\ chatMode = "online")

\* A user is not kept waiting: a connected client comes to the login window or to the
\* chat, or loses its connection, unless the very answer was lost among bytes that are
\* out of step (onSocketConnected, onAuthSucceeded, onAuthFailed, onSessionInvalid).
Settles == Waiting ~> ~Waiting \/ missed

\* A client that runs gets connected, whatever failed before and whatever its user does
\* in the meantime (reconnectIfNeeded).
GetsConnected == window # "closed" ~> sock = "connected" \/ window = "closed"

\* The properties of the connection control hold under the flow that drives it.
FollowsIntent == Connection!FollowsIntent
FramesInStep  == Connection!FramesInStep
=============================================================================
