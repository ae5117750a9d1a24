-------------------------- MODULE ClientFlow_proofs --------------------------
(* Theorems about ClientFlow, for any users, servers and bounds. *)
EXTENDS ClientFlow, TLAPS

Net == INSTANCE ClientConnection_proofs

-----------------------------------------------------------------------------
(* The flow drives the connection control only through its operations. *)

\* Every step of the session flow is one of the connection control or none.
LEMMA StepOfConnection ==
    ASSUME Next
    PROVE  [Connection!Next]_(Connection!vars)
<1> USE DEF Connection!Next
<1>1. CASE Start
  BY <1>1 DEF Start
<1>2. CASE Quit
  BY <1>2 DEF Quit
<1>3. CASE Kill
  BY <1>3 DEF Kill
<1>4. CASE SocketConnected
  BY <1>4 DEF SocketConnected
<1>5. CASE ConnectionLost
  BY <1>5 DEF ConnectionLost
<1>6. CASE HeartbeatExpired
  BY <1>6 DEF HeartbeatExpired
<1>7. CASE InvalidPacket
  BY <1>7 DEF InvalidPacket
<1>8. CASE ConnectFails
  BY <1>8 DEF ConnectFails
<1>9. CASE ReconnectIfNeeded
  BY <1>9 DEF ReconnectIfNeeded
<1>10. CASE ReceivePart
  BY <1>10 DEF ReceivePart
<1>11. CASE ReceiveGarbage
  BY <1>11 DEF ReceiveGarbage
<1>12. CASE ReceivePacket
  BY <1>12 DEF ReceivePacket, AuthSucceeded, AuthFailed, SessionInvalid, Arrives
<1>13. ASSUME NEW s \in Servers, ChangeServerRequested(s) PROVE Connection!Next
  BY <1>13 DEF ChangeServerRequested
<1>14. CASE LogoutRequested
  BY <1>14 DEF LogoutRequested
<1>15. ASSUME UNCHANGED net PROVE UNCHANGED Connection!vars
  BY <1>15 DEF net, Connection!vars, Connection!control, Connection!input
<1>16. CASE TransportError \/ OfflineModeRequested \/ ServerAnswers \/ ServerForgets
              \/ ServerDrops \/ TokenExpires
  BY <1>15, <1>16 DEF TransportError, OfflineModeRequested, ServerAnswers, ServerForgets,
                      ServerDrops, TokenExpires
<1>17. ASSUME NEW u \in Users, CredentialsEntered(u) PROVE UNCHANGED net
  BY <1>17 DEF CredentialsEntered
<1> QED BY <1>1, <1>2, <1>3, <1>4, <1>5, <1>6, <1>7, <1>8, <1>9, <1>10, <1>11, <1>12,
           <1>13, <1>14, <1>15, <1>16, <1>17 DEF Next

\* The same operations, as the theorems about them name them.
LEMMA SameConnection ==
    ASSUME [Connection!Next]_(Connection!vars)
    PROVE  [Net!Next]_(Net!vars)
<1> USE DEF Net!Next
<1>1. CASE Connection!ConnectToServer
  BY <1>1 DEF Connection!ConnectToServer, Net!ConnectToServer, Connection!StartConnection,
              Net!StartConnection, Connection!Arm, Net!Arm
<1>2. CASE Connection!DisconnectFromServer
  BY <1>2 DEF Connection!DisconnectFromServer, Net!DisconnectFromServer
<1>3. CASE Connection!Redial
  BY <1>3 DEF Connection!Redial, Net!Redial, Connection!StartConnection, Net!StartConnection
<1>4. CASE Connection!ProgramEnds
  BY <1>4 DEF Connection!ProgramEnds, Net!ProgramEnds
<1>5. CASE Connection!Connected
  BY <1>5 DEF Connection!Connected, Net!Connected
<1>6. CASE Connection!ConnectFails
  BY <1>6 DEF Connection!ConnectFails, Net!ConnectFails, Connection!CanReconnect,
              Net!CanReconnect, Connection!Arm, Net!Arm, Connection!input, Net!input
<1>7. CASE Connection!ReconnectIfNeeded
  BY <1>7 DEF Connection!ReconnectIfNeeded, Net!ReconnectIfNeeded, Connection!CanReconnect,
              Net!CanReconnect, Connection!input, Net!input
<1>8. ASSUME Connection!Drop PROVE Net!Drop
  BY <1>8 DEF Connection!Drop, Net!Drop, Connection!OnDisconnected, Net!OnDisconnected,
              Connection!CanReconnect, Net!CanReconnect, Connection!Arm, Net!Arm
<1>9. CASE Connection!ConnectionLost \/ Connection!HeartbeatExpired
             \/ Connection!ReceiveInvalidPacket
  BY <1>8, <1>9 DEF Connection!ConnectionLost, Net!ConnectionLost,
              Connection!HeartbeatExpired, Net!HeartbeatExpired,
              Connection!ReceiveInvalidPacket, Net!ReceiveInvalidPacket
<1>10. CASE Connection!ReceiveBytes
  BY <1>10 DEF Connection!ReceiveBytes, Net!ReceiveBytes, Connection!control, Net!control
<1>11. CASE UNCHANGED Connection!vars
  BY <1>11 DEF Connection!vars, Connection!control, Connection!input, Net!vars,
               Net!control, Net!input
<1> QED BY <1>1, <1>2, <1>3, <1>4, <1>5, <1>6, <1>7, <1>9, <1>10, <1>11
       DEF Connection!Next

-----------------------------------------------------------------------------
(* The invariant of the connection control, carried over. *)

\* The connection control starts as it does on its own.
LEMMA NetInit ==
    ASSUME Init
    PROVE  Net!IInv
<1>1. Net!Init
  BY DEF Init, Connection!Init, Net!Init
<1> QED BY <1>1, FlowAssumption, Net!InitIInv

\* Hence what it keeps on its own it keeps under the session flow.
LEMMA NetNext ==
    ASSUME Net!IInv, [Next]_vars
    PROVE  Net!IInv'
<1>1. [Connection!Next]_(Connection!vars)
  <2>1. CASE Next
    BY <2>1, StepOfConnection
  <2>2. CASE UNCHANGED vars
    BY <2>2 DEF vars, net, Connection!vars, Connection!control, Connection!input
  <2> QED BY <2>1, <2>2
<1> QED BY <1>1, SameConnection, FlowAssumption, Net!NextIInv

\* Under the whole session flow the client is never without a connection it wants and
\* without a timer that will try again, nor with either once it was told to close
\* (scheduleReconnect, disconnectFromServer).
THEOREM IntentFollowed == Spec => []FollowsIntent
<1>1. Init => Net!IInv
  BY NetInit
<1>2. Net!IInv /\ [Next]_vars => Net!IInv'
  BY NetNext
<1>3. Net!IInv => FollowsIntent
  BY DEF Net!IInv, Net!FollowsIntent, FollowsIntent, Connection!FollowsIntent,
         Net!CanReconnect, Connection!CanReconnect
<1> QED BY <1>1, <1>2, <1>3, PTL DEF Spec

\* Under the whole session flow the buffer is in step with the frames as long as no
\* connection was lost since connectToServer (onReadyRead).
THEOREM FramesStayInStep == Spec => []FramesInStep
<1>1. Init => Net!IInv
  BY NetInit
<1>2. Net!IInv /\ [Next]_vars => Net!IInv'
  BY NetNext
<1>3. Net!IInv => FramesInStep
  BY DEF Net!IInv, Net!FramesInStep, FramesInStep, Connection!FramesInStep
<1> QED BY <1>1, <1>2, <1>3, PTL DEF Spec

-----------------------------------------------------------------------------
(* The session flow's own invariant. *)

FlowTypeOK ==
    /\ session \in Sessions
    /\ disk \in Sessions
    /\ expired \in BOOLEAN
    /\ current \in Servers
    /\ active \in Users \cup {NoUser}
    /\ blocked \in BOOLEAN
    /\ window \in {"closed", "connection", "login", "chat"}
    /\ busy \in BOOLEAN
    /\ button \in BOOLEAN
    /\ chatUser \in Users \cup {NoUser}
    /\ chatMode \in {"none", "offline", "online"}
    /\ good \in BOOLEAN
    /\ signed \in Users \cup {NoUser}
    /\ served \in BOOLEAN
    /\ up \in Seq(Packets({"login", "resume_session"}))
    /\ down \in Seq(Packets({"auth_ok", "auth_error", "session_invalid"}))
    /\ missed \in BOOLEAN

\* Requests to sign in, and their acceptance, name a user.
Named ==
    /\ \A k \in DOMAIN up : up[k].user \in Users
    /\ \A k \in DOMAIN down : down[k].type = "auth_ok" => down[k].user \in Users

Requests == Packets({"login", "resume_session"})
Answers  == Packets({"auth_ok", "auth_error", "session_invalid"})

\* What Tail leaves.
LEMMA TailOf ==
    ASSUME NEW S, NEW q \in Seq(S), q # <<>>
    PROVE  /\ Tail(q) \in Seq(S) /\ Head(q) \in S
           /\ DOMAIN Tail(q) = 1 .. (Len(q) - 1) /\ DOMAIN q = 1 .. Len(q) /\ Len(q) \in Nat \ {0}
           /\ Head(q) = q[1]
           /\ \A k \in 1 .. (Len(q) - 1) : Tail(q)[k] = q[k + 1]
OBVIOUS

\* What Append adds.
LEMMA AppendOf ==
    ASSUME NEW S, NEW q \in Seq(S), NEW e \in S
    PROVE  /\ Append(q, e) \in Seq(S)
           /\ DOMAIN Append(q, e) = 1 .. (Len(q) + 1) /\ DOMAIN q = 1 .. Len(q) /\ Len(q) \in Nat
           /\ Append(q, e)[Len(q) + 1] = e
           /\ \A k \in 1 .. Len(q) : Append(q, e)[k] = q[k]
OBVIOUS

\* A token belongs to a user.
LEMMA TokenHasUser ==
    ASSUME NEW x \in Sessions, x.token
    PROVE  x.user \in Users
BY DEF Sessions, NoSession

\* Without its token a session is one still.
LEMMA TokenDropped ==
    ASSUME NEW x \in Sessions
    PROVE  /\ [x EXCEPT !.token = FALSE] \in Sessions
           /\ [x EXCEPT !.token = FALSE].user = x.user
           /\ [x EXCEPT !.token = FALSE].token = FALSE
<1>1. CASE x = NoSession
  <2>1. x \in [user : {NoUser}, server : Servers, token : BOOLEAN] /\ x.token = FALSE
    BY <1>1, FlowAssumption DEF NoSession
  <2>2. [x EXCEPT !.token = FALSE] = x
    BY <2>1
  <2> QED BY <2>1, <2>2
<1>2. CASE x \in [user : Users, server : Servers, token : BOOLEAN]
  BY <1>2 DEF Sessions
<1> QED BY <1>1, <1>2 DEF Sessions

\* clearStoredSessionToken keeps whose session it is.
LEMMA ForgetTokenPreserves ==
    ASSUME FlowTypeOK, ForgetToken
    PROVE  /\ session' \in Sessions /\ disk' = session' /\ expired' = FALSE /\ good' = FALSE
           /\ session'.user = session.user /\ session'.token = FALSE
BY TokenDropped DEF FlowTypeOK, ForgetToken

\* onSocketDisconnected either takes the chat window offline or shows the connection window.
LEMMA OnSocketDisconnectedPreserves ==
    ASSUME FlowTypeOK, OnSocketDisconnected
    PROVE  /\ window' \in {"chat", "connection"} /\ button' \in BOOLEAN
           /\ chatUser' \in Users \cup {NoUser} /\ chatMode' \in {"none", "offline", "online"}
           /\ window' = "connection" => button' = HasStored /\ UNCHANGED <<chatUser, chatMode>>
           /\ window' = "chat" => /\ chatUser' = active /\ chatMode' = "offline"
                                  /\ active # NoUser /\ window = "chat"
<1>1. CASE window = "chat" /\ active # NoUser
  BY <1>1 DEF FlowTypeOK, OnSocketDisconnected, Activate
<1>2. CASE ~(window = "chat" /\ active # NoUser)
  <2>1. button' = HasStored /\ window' = "connection" /\ UNCHANGED chat
    BY <1>2 DEF OnSocketDisconnected
  <2> QED BY <2>1 DEF FlowTypeOK, chat, HasStored
<1> QED BY <1>1, <1>2

\* The next answer is taken off.
LEMMA ArrivesPreserves ==
    ASSUME FlowTypeOK, Named, NEW t, Arrives(t)
    PROVE  /\ down' \in Seq(Answers) /\ Head(down) \in Answers /\ Head(down).type = t
           /\ t = "auth_ok" => Head(down).user \in Users
           /\ Named'
           /\ UNCHANGED <<up, signed, served, missed>>
<1>1. down \in Seq(Answers) /\ down # <<>> /\ down' = Tail(down) /\ Head(down).type = t
  BY DEF FlowTypeOK, Answers, Arrives
<1>2. /\ down' \in Seq(Answers) /\ Head(down) \in Answers
      /\ DOMAIN down' = 1 .. (Len(down) - 1) /\ DOMAIN down = 1 .. Len(down)
      /\ Len(down) \in Nat \ {0} /\ Head(down) = down[1]
      /\ \A k \in 1 .. (Len(down) - 1) : down'[k] = down[k + 1]
  BY <1>1, TailOf
<1>3. UNCHANGED <<up, signed, served, missed>>
  BY DEF Arrives
<1>4. t = "auth_ok" => Head(down).user \in Users
  BY <1>1, <1>2 DEF Named
<1>5. \A k \in DOMAIN down' : down'[k].type = "auth_ok" => down'[k].user \in Users
  <2> SUFFICES ASSUME NEW k \in DOMAIN down', down'[k].type = "auth_ok"
               PROVE  down'[k].user \in Users
    OBVIOUS
  <2>1. k + 1 \in DOMAIN down /\ down'[k] = down[k + 1]
    BY <1>2
  <2> QED BY <2>1 DEF Named
<1> QED BY <1>1, <1>2, <1>3, <1>4, <1>5 DEF Named

\* The empty sequence is one of anything.
LEMMA EmptySequence ==
    ASSUME NEW S
    PROVE  /\ <<>> \in Seq(S)
           /\ DOMAIN <<>> = {}
OBVIOUS

\* start keeps the types.
LEMMA StartTypes ==
    ASSUME FlowTypeOK, Named, Start
    PROVE  FlowTypeOK' /\ Named'
<1>1. current' \in Servers /\ session' \in Sessions
  <2>1. disk.user # NoUser => disk.server \in Servers
    BY DEF FlowTypeOK, Sessions, NoSession
  <2> QED BY <2>1, FlowAssumption DEF FlowTypeOK, Start
<1> QED BY <1>1 DEF FlowTypeOK, Named, Start, chat, queues

\* The reset of restoreLastSession keeps the types.
LEMMA ForgetTypes ==
    ASSUME FlowTypeOK, Forget
    PROVE  FlowTypeOK' /\ Named'
<1>1. session' \in Sessions /\ current' \in Servers
  BY FlowAssumption DEF Forget, Sessions
<1>2. up' = <<>> /\ down' = <<>> /\ signed' = NoUser /\ served' = FALSE /\ missed' = FALSE
  BY DEF Forget, Cut
<1>3. /\ up' \in Seq(Packets({"login", "resume_session"}))
      /\ down' \in Seq(Packets({"auth_ok", "auth_error", "session_invalid"}))
  BY <1>2, EmptySequence
<1>4. Named'
  BY <1>2, EmptySequence DEF Named
<1>5. /\ window' = "closed" /\ active' = NoUser /\ blocked' = FALSE /\ busy' = FALSE
      /\ button' = FALSE /\ chatUser' = NoUser /\ chatMode' = "none"
      /\ UNCHANGED <<disk, expired, good>>
  BY DEF Forget
<1> QED BY <1>1, <1>2, <1>3, <1>4, <1>5 DEF FlowTypeOK

\* onSocketConnected keeps the types.
LEMMA SocketConnectedTypes ==
    ASSUME FlowTypeOK, Named, SocketConnected
    PROVE  FlowTypeOK' /\ Named'
<1>1. /\ session' \in Sessions /\ disk' \in Sessions /\ expired' \in BOOLEAN
      /\ good' \in BOOLEAN /\ session'.user = session.user
  <2>1. CASE expired /\ session.token
    BY <2>1, ForgetTokenPreserves DEF SocketConnected
  <2>2. CASE ~(expired /\ session.token)
    BY <2>2 DEF SocketConnected, FlowTypeOK
  <2> QED BY <2>1, <2>2
<1>2. /\ up' \in Seq(Requests) /\ \A k \in DOMAIN up' : up'[k].user \in Users
      /\ window' \in {"closed", "connection", "login", "chat"} /\ busy' \in BOOLEAN
  <2>1. CASE session'.token /\ ~blocked
    <3>1. session.user \in Users
      BY <1>1, <2>1, TokenHasUser
    <3>2. Packet("resume_session", session.user) \in Requests
      BY <3>1 DEF Packet, Packets, Requests
    <3>3. up' = <<Packet("resume_session", session.user)>> /\ UNCHANGED <<window, busy>>
      BY <2>1 DEF SocketConnected
    <3> QED BY <3>1, <3>2, <3>3 DEF FlowTypeOK, Packet
  <2>2. CASE ~(session'.token /\ ~blocked)
    <3>1. up' = <<>> /\ window' = "login" /\ busy' = FALSE
      BY <2>2 DEF SocketConnected
    <3> QED BY <3>1, EmptySequence
  <2> QED BY <2>1, <2>2
<1>3. /\ button' = FALSE /\ served' = TRUE
      /\ UNCHANGED <<current, active, blocked, chat, signed, down, missed>>
  BY DEF SocketConnected
<1> QED BY <1>1, <1>2, <1>3 DEF FlowTypeOK, Named, chat, Requests

\* The connection is gone and onSocketDisconnected has run.
LEMMA DisconnectedTypes ==
    ASSUME FlowTypeOK, OnSocketDisconnected, Cut, UNCHANGED <<account, good>>,
           busy' \in BOOLEAN
    PROVE  FlowTypeOK' /\ Named'
<1>1. up' = <<>> /\ down' = <<>> /\ signed' = NoUser /\ served' = FALSE /\ missed' = FALSE
  BY DEF Cut
<1>2. /\ up' \in Seq(Packets({"login", "resume_session"}))
      /\ down' \in Seq(Packets({"auth_ok", "auth_error", "session_invalid"}))
  BY <1>1, EmptySequence
<1>3. Named'
  BY <1>1, EmptySequence DEF Named
<1>4. /\ window' \in {"chat", "connection"} /\ button' \in BOOLEAN
      /\ chatUser' \in Users \cup {NoUser} /\ chatMode' \in {"none", "offline", "online"}
  BY OnSocketDisconnectedPreserves
<1> QED BY <1>1, <1>2, <1>3, <1>4 DEF FlowTypeOK, account

\* onAuthSucceeded keeps the types.
LEMMA AuthSucceededTypes ==
    ASSUME FlowTypeOK, Named, AuthSucceeded
    PROVE  FlowTypeOK' /\ Named'
<1>1. /\ down' \in Seq(Answers) /\ Head(down).user \in Users /\ Named'
      /\ UNCHANGED <<up, signed, served, missed>>
  BY ArrivesPreserves DEF AuthSucceeded
<1>2. session' \in Sessions /\ disk' = session'
  BY <1>1 DEF AuthSucceeded, Sessions, FlowTypeOK
<1>3. good' \in BOOLEAN /\ active' = Head(down).user /\ chatUser' = Head(down).user
      /\ chatMode' = "online"
  BY DEF AuthSucceeded, Activate, Issued
<1>4. /\ expired' = FALSE /\ blocked' = FALSE /\ busy' = FALSE /\ window' = "chat"
      /\ UNCHANGED <<current, button>>
  BY DEF AuthSucceeded
<1> QED BY <1>1, <1>2, <1>3, <1>4 DEF FlowTypeOK, Answers

\* onAuthFailed keeps the types.
LEMMA AuthFailedTypes ==
    ASSUME FlowTypeOK, Named, AuthFailed
    PROVE  FlowTypeOK' /\ Named'
<1>1. down' \in Seq(Answers) /\ Named' /\ UNCHANGED <<up, signed, served, missed>>
  BY ArrivesPreserves DEF AuthFailed
<1>2. /\ busy' = FALSE /\ window' = "login"
      /\ UNCHANGED <<session, disk, expired, current, active, blocked, button, chatUser,
                     chatMode, good>>
  BY DEF AuthFailed, account, chat
<1>3. /\ up' \in Seq(Packets({"login", "resume_session"}))
      /\ down' \in Seq(Packets({"auth_ok", "auth_error", "session_invalid"}))
  BY <1>1 DEF FlowTypeOK, Answers
<1>4. /\ session' \in Sessions /\ disk' \in Sessions /\ expired' \in BOOLEAN
      /\ current' \in Servers /\ active' \in Users \cup {NoUser} /\ blocked' \in BOOLEAN
      /\ window' \in {"closed", "connection", "login", "chat"} /\ busy' \in BOOLEAN
  BY <1>2 DEF FlowTypeOK
<1>5. /\ button' \in BOOLEAN /\ chatUser' \in Users \cup {NoUser}
      /\ chatMode' \in {"none", "offline", "online"} /\ good' \in BOOLEAN
  BY <1>2 DEF FlowTypeOK
<1>6. signed' \in Users \cup {NoUser} /\ served' \in BOOLEAN /\ missed' \in BOOLEAN
  BY <1>1 DEF FlowTypeOK
<1>7. FlowTypeOK'
  BY <1>3, <1>4, <1>5, <1>6 DEF FlowTypeOK
<1> QED BY <1>1, <1>7

\* onSessionInvalid keeps the types.
LEMMA SessionInvalidTypes ==
    ASSUME FlowTypeOK, Named, SessionInvalid
    PROVE  FlowTypeOK' /\ Named'
<1>1. down' \in Seq(Answers) /\ Named' /\ UNCHANGED <<up, signed, served, missed>>
  BY ArrivesPreserves DEF SessionInvalid
<1>2. session' \in Sessions /\ disk' = session' /\ expired' = FALSE /\ good' = FALSE
  BY ForgetTokenPreserves DEF SessionInvalid
<1>3. /\ blocked' = TRUE /\ busy' = FALSE /\ window' = "login"
      /\ UNCHANGED <<current, active, button, chat>>
  BY DEF SessionInvalid
<1> QED BY <1>1, <1>2, <1>3 DEF FlowTypeOK, Answers, chat

\* Steps that leave sessions, users and queues alone.
LEMMA QuietTypes ==
    ASSUME FlowTypeOK, Named, busy' \in BOOLEAN, button' \in BOOLEAN,
           UNCHANGED <<session, disk, current, active, blocked, window, chat, signed,
                       served, up, down, missed>>,
           expired' \in BOOLEAN, good' \in BOOLEAN
    PROVE  FlowTypeOK' /\ Named'
BY DEF FlowTypeOK, Named, chat

\* Bytes that make no packet keep the types.
LEMMA ReceiveGarbageTypes ==
    ASSUME FlowTypeOK, Named, ReceiveGarbage
    PROVE  FlowTypeOK' /\ Named'
<1>1. /\ down' \in Seq(Answers)
      /\ \A k \in DOMAIN down' : down'[k].type = "auth_ok" => down'[k].user \in Users
  <2>1. CASE down' = down
    BY <2>1 DEF FlowTypeOK, Named, Answers
  <2>2. CASE down # <<>> /\ down' = Tail(down)
    <3>1. /\ down' \in Seq(Answers)
          /\ DOMAIN down' = 1 .. (Len(down) - 1) /\ DOMAIN down = 1 .. Len(down)
          /\ Len(down) \in Nat
          /\ \A k \in 1 .. (Len(down) - 1) : down'[k] = down[k + 1]
      BY <2>2, TailOf DEF FlowTypeOK, Answers
    <3> SUFFICES ASSUME NEW k \in DOMAIN down', down'[k].type = "auth_ok"
                 PROVE  down'[k].user \in Users
      BY <3>1
    <3>2. k + 1 \in DOMAIN down /\ down'[k] = down[k + 1]
      BY <3>1
    <3> QED BY <3>2 DEF Named
  <2> QED BY <2>1, <2>2 DEF ReceiveGarbage
<1>2. busy' \in BOOLEAN /\ missed' \in BOOLEAN
  BY DEF ReceiveGarbage, NoLongerBusy
<1>3. UNCHANGED <<account, window, button, chat, good, signed, served, up>>
  BY DEF ReceiveGarbage
<1> QED BY <1>1, <1>2, <1>3 DEF FlowTypeOK, Named, Answers, account, chat

\* onCredentialsEntered keeps the types.
LEMMA CredentialsTypes ==
    ASSUME FlowTypeOK, Named, NEW u \in Users, CredentialsEntered(u)
    PROVE  FlowTypeOK' /\ Named'
<1>1. Packet("login", u) \in Requests /\ Packet("login", u).user = u
  BY DEF Packet, Packets, Requests
<1>2. up \in Seq(Requests) /\ up' = IF served THEN Append(up, Packet("login", u)) ELSE up
  BY DEF FlowTypeOK, Requests, CredentialsEntered
<1>3. ASSUME served
      PROVE  up' \in Seq(Requests) /\ \A k \in DOMAIN up' : up'[k].user \in Users
  <2>1. /\ up' \in Seq(Requests) /\ DOMAIN up' = 1 .. (Len(up) + 1)
        /\ DOMAIN up = 1 .. Len(up) /\ Len(up) \in Nat
        /\ up'[Len(up) + 1] = Packet("login", u)
        /\ \A k \in 1 .. Len(up) : up'[k] = up[k]
    BY <1>1, <1>2, <1>3, AppendOf
  <2> SUFFICES ASSUME NEW k \in DOMAIN up'
               PROVE  up'[k].user \in Users
    BY <2>1
  <2>2. CASE k = Len(up) + 1
    BY <1>1, <2>1, <2>2
  <2>3. CASE k \in 1 .. Len(up)
    BY <2>1, <2>3 DEF Named
  <2> QED BY <2>1, <2>2, <2>3
<1>4. up' \in Seq(Requests) /\ \A k \in DOMAIN up' : up'[k].user \in Users
  BY <1>2, <1>3 DEF Named
<1>5. /\ blocked' = FALSE /\ busy' = TRUE
      /\ UNCHANGED <<session, disk, expired, current, active, window, button, chat, good,
                     signed, served, down, missed>>
  BY DEF CredentialsEntered
<1>6. FlowTypeOK'
  <2>1. up' \in Seq(Packets({"login", "resume_session"}))
    BY <1>4 DEF Requests
  <2>2. down' \in Seq(Packets({"auth_ok", "auth_error", "session_invalid"}))
    BY <1>5 DEF FlowTypeOK
  <2>3. /\ UNCHANGED <<session, disk, expired, current, active, window, button>>
        /\ UNCHANGED <<chatUser, chatMode, good, signed, served, missed>>
    BY <1>5 DEF chat
  <2>4. blocked' \in BOOLEAN /\ busy' \in BOOLEAN
    BY <1>5
  <2> QED BY <2>1, <2>2, <2>3, <2>4 DEF FlowTypeOK
<1>7. Named'
  BY <1>4, <1>5 DEF Named
<1> QED BY <1>6, <1>7

\* onOfflineModeRequested keeps the types.
LEMMA OfflineTypes ==
    ASSUME FlowTypeOK, Named, OfflineModeRequested
    PROVE  FlowTypeOK' /\ Named'
<1>1. active' \in Users \cup {NoUser} /\ chatUser' = active' /\ chatMode' = "offline"
  BY DEF OfflineModeRequested, FlowTypeOK, Activate, Sessions, NoSession
<1>2. /\ window' = "chat"
      /\ UNCHANGED <<session, disk, expired, current, blocked, busy, button, good, signed,
                     served, up, down, missed>>
  BY DEF OfflineModeRequested, queues
<1> QED BY <1>1, <1>2 DEF FlowTypeOK, Named

\* A new connection was asked for: nothing is on its way.
LEMMA RedialTypes ==
    ASSUME FlowTypeOK, Cut,
           session' \in Sessions, disk' \in Sessions, expired' \in BOOLEAN,
           current' \in Servers, active' \in Users \cup {NoUser}, blocked' \in BOOLEAN,
           window' = "connection", button' \in BOOLEAN, busy' = busy,
           chatUser' \in Users \cup {NoUser},
           chatMode' \in {"none", "offline", "online"}, good' \in BOOLEAN
    PROVE  FlowTypeOK' /\ Named'
<1>1. up' = <<>> /\ down' = <<>> /\ signed' = NoUser /\ served' = FALSE /\ missed' = FALSE
  BY DEF Cut
<1>2. /\ up' \in Seq(Packets({"login", "resume_session"}))
      /\ down' \in Seq(Packets({"auth_ok", "auth_error", "session_invalid"}))
  BY <1>1, EmptySequence
<1>3. Named'
  BY <1>1, EmptySequence DEF Named
<1> QED BY <1>1, <1>2, <1>3 DEF FlowTypeOK

\* onChangeServerRequested keeps the types.
LEMMA ChangeServerTypes ==
    ASSUME FlowTypeOK, NEW s \in Servers, ChangeServerRequested(s)
    PROVE  FlowTypeOK' /\ Named'
<1>1. /\ Cut /\ blocked' = (s # current) /\ current' = s /\ window' = "connection"
      /\ button' = (sock = "connected" /\ HasStored)
      /\ UNCHANGED <<session, disk, expired, active, busy, chat, good>>
  BY DEF ChangeServerRequested
<1>2. blocked' \in BOOLEAN /\ button' \in BOOLEAN
  BY <1>1
<1>3. /\ session' \in Sessions /\ disk' \in Sessions /\ expired' \in BOOLEAN
      /\ current' \in Servers /\ active' \in Users \cup {NoUser}
      /\ chatUser' \in Users \cup {NoUser}
      /\ chatMode' \in {"none", "offline", "online"} /\ good' \in BOOLEAN
  BY <1>1 DEF FlowTypeOK, chat
<1> QED BY <1>1, <1>2, <1>3, RedialTypes

\* onLogoutRequested keeps the types.
LEMMA LogoutTypes ==
    ASSUME FlowTypeOK, LogoutRequested
    PROVE  FlowTypeOK' /\ Named'
<1>1. chatUser' \in Users \cup {NoUser} /\ chatMode' \in {"none", "offline", "online"}
  BY DEF LogoutRequested, Activate, FlowTypeOK
<1>2. session' \in Sessions /\ disk' = session'
  BY DEF LogoutRequested, SessionAfterLogout, Sessions
<1>3. /\ Cut /\ expired' = FALSE /\ active' = NoUser /\ blocked' = FALSE
      /\ button' = FALSE /\ window' = "connection" /\ good' = FALSE
      /\ UNCHANGED <<current, busy>>
  BY DEF LogoutRequested
<1>4. current' \in Servers
  BY <1>3 DEF FlowTypeOK
<1> QED BY <1>1, <1>2, <1>3, <1>4, RedialTypes

\* The server adds one answer behind those on their way.
LEMMA AnswerAppended ==
    ASSUME FlowTypeOK, Named,
           NEW t \in {"auth_ok", "auth_error", "session_invalid"},
           NEW u \in Users \cup {NoUser}, t = "auth_ok" => u \in Users,
           Answer(t, u)
    PROVE  /\ down' \in Seq(Answers)
           /\ DOMAIN down' = 1 .. (Len(down) + 1) /\ DOMAIN down = 1 .. Len(down)
           /\ Len(down) \in Nat
           /\ down'[Len(down) + 1].type = t /\ down'[Len(down) + 1].user = u
           /\ \A k \in 1 .. Len(down) : down'[k] = down[k]
           /\ \A k \in DOMAIN down' : down'[k].type = "auth_ok" => down'[k].user \in Users
<1>1. Packet(t, u) \in Answers /\ Packet(t, u).type = t /\ Packet(t, u).user = u
  BY DEF Packet, Packets, Answers
<1>2. down \in Seq(Answers) /\ down' = Append(down, Packet(t, u))
  BY DEF FlowTypeOK, Answers, Answer
<1>3. /\ down' \in Seq(Answers)
      /\ DOMAIN down' = 1 .. (Len(down) + 1) /\ DOMAIN down = 1 .. Len(down)
      /\ Len(down) \in Nat
      /\ down'[Len(down) + 1] = Packet(t, u)
      /\ \A k \in 1 .. Len(down) : down'[k] = down[k]
  BY <1>1, <1>2, AppendOf
<1>4. ASSUME NEW k \in DOMAIN down', down'[k].type = "auth_ok"
      PROVE  down'[k].user \in Users
  <2>1. CASE k = Len(down) + 1
    BY <1>1, <1>3, <1>4, <2>1
  <2>2. CASE k \in 1 .. Len(down)
    BY <1>3, <1>4, <2>2 DEF Named
  <2> QED BY <1>3, <2>1, <2>2
<1> QED BY <1>1, <1>3, <1>4

\* What an answer to a request is: a sign-in of the user it names, or a refusal that
\* changes nothing else.
LEMMA ServerAnswersCases ==
    ASSUME FlowTypeOK, Named, ServerAnswers
    PROVE  /\ up' \in Seq(Requests) /\ \A k \in DOMAIN up' : up'[k].user \in Users
           /\ UNCHANGED <<net, account, window, busy, button, chat, served, missed>>
           /\ \/ \E u \in Users : SignIn(u)
              \/ \E t \in {"auth_error", "session_invalid"} :
                     Answer(t, NoUser) /\ UNCHANGED <<good, signed>>
<1>1. up \in Seq(Requests) /\ up # <<>> /\ up' = Tail(up)
  BY DEF FlowTypeOK, Requests, ServerAnswers
<1>2. /\ up' \in Seq(Requests)
      /\ DOMAIN up' = 1 .. (Len(up) - 1) /\ DOMAIN up = 1 .. Len(up)
      /\ Len(up) \in Nat \ {0} /\ Head(up) = up[1]
      /\ \A k \in 1 .. (Len(up) - 1) : up'[k] = up[k + 1]
  BY <1>1, TailOf
<1>3. Head(up).user \in Users
  BY <1>2 DEF Named
<1>4. ASSUME NEW k \in DOMAIN up' PROVE up'[k].user \in Users
  <2>1. k + 1 \in DOMAIN up /\ up'[k] = up[k + 1]
    BY <1>2
  <2> QED BY <2>1 DEF Named
<1>5. /\ UNCHANGED <<net, account, window, busy, button, chat, served, missed>>
      /\ \/ SignIn(Head(up).user)
         \/ Answer("auth_error", NoUser) /\ UNCHANGED <<good, signed>>
         \/ Answer("session_invalid", NoUser) /\ UNCHANGED <<good, signed>>
  BY DEF ServerAnswers
<1> QED BY <1>2, <1>3, <1>4, <1>5

\* An answer keeps the types.
LEMMA ServerAnswersTypes ==
    ASSUME FlowTypeOK, Named, ServerAnswers
    PROVE  FlowTypeOK' /\ Named'
<1>1. /\ up' \in Seq(Requests) /\ \A k \in DOMAIN up' : up'[k].user \in Users
      /\ UNCHANGED <<net, account, window, busy, button, chat, served, missed>>
  BY ServerAnswersCases
<1>2. /\ down' \in Seq(Answers)
      /\ \A k \in DOMAIN down' : down'[k].type = "auth_ok" => down'[k].user \in Users
      /\ good' \in BOOLEAN /\ signed' \in Users \cup {NoUser}
  <2>1. ASSUME NEW u \in Users, SignIn(u) PROVE <1>2!:
    <3>1. Answer("auth_ok", u) /\ signed' = u /\ good' \in BOOLEAN
      BY <2>1 DEF SignIn, FlowTypeOK
    <3> QED BY <3>1, AnswerAppended
  <2>2. ASSUME NEW t \in {"auth_error", "session_invalid"},
               Answer(t, NoUser), UNCHANGED <<good, signed>>
        PROVE  <1>2!:
    BY <2>2, AnswerAppended DEF FlowTypeOK
  <2> QED BY <2>1, <2>2, ServerAnswersCases
<1> QED BY <1>1, <1>2 DEF FlowTypeOK, Named, Requests, Answers, account, chat

\* The server's end of a connection keeps the types.
LEMMA ServerDropsTypes ==
    ASSUME FlowTypeOK, Named, ServerDrops
    PROVE  FlowTypeOK' /\ Named'
<1>1. up' = <<>> /\ signed' = NoUser /\ served' = FALSE
  BY DEF ServerDrops
<1>2. up' \in Seq(Packets({"login", "resume_session"})) /\ DOMAIN up' = {}
  BY <1>1, EmptySequence
<1>3. UNCHANGED <<session, disk, expired, current, active, blocked, window, busy, button,
                  chatUser, chatMode, good, down, missed>>
  BY DEF ServerDrops, account, chat
<1>4. Named'
  <2>1. \A k \in DOMAIN down' : down'[k].type = "auth_ok" => down'[k].user \in Users
    BY <1>3 DEF Named
  <2> QED BY <1>2, <2>1 DEF Named
<1>5. FlowTypeOK'
  <2>1. down' \in Seq(Packets({"auth_ok", "auth_error", "session_invalid"}))
    BY <1>3 DEF FlowTypeOK
  <2>2. signed' \in Users \cup {NoUser} /\ served' \in BOOLEAN
    BY <1>1
  <2> QED BY <1>2, <1>3, <2>1, <2>2 DEF FlowTypeOK
<1> QED BY <1>4, <1>5

\* Every step keeps the types.
LEMMA TypesNext ==
    ASSUME FlowTypeOK, Named, [Next]_vars
    PROVE  FlowTypeOK' /\ Named'
<1>1. CASE Start
  BY <1>1, StartTypes
<1>2. CASE Quit \/ Kill
  BY <1>2, ForgetTypes DEF Quit, Kill
<1>3. CASE SocketConnected
  BY <1>3, SocketConnectedTypes
<1>4. CASE ConnectionLost \/ HeartbeatExpired \/ InvalidPacket
  <2>1. /\ OnSocketDisconnected /\ Cut /\ UNCHANGED <<account, good>> /\ busy' \in BOOLEAN
    BY <1>4 DEF ConnectionLost, HeartbeatExpired, InvalidPacket, NoLongerBusy, FlowTypeOK
  <2> QED BY <2>1, DisconnectedTypes
<1>5. CASE ConnectFails \/ ReconnectIfNeeded \/ ReceivePart \/ TransportError
  <2>1. busy' \in BOOLEAN /\ button' \in BOOLEAN
    BY <1>5 DEF ConnectFails, ReconnectIfNeeded, ReceivePart, TransportError,
                NoLongerBusy, HasStored, FlowTypeOK
  <2>2. UNCHANGED <<account, window, chat, good, queues>>
    BY <1>5 DEF ConnectFails, ReconnectIfNeeded, ReceivePart, TransportError
  <2> QED BY <2>1, <2>2, QuietTypes DEF account, queues, FlowTypeOK
<1>6. CASE ReceiveGarbage
  BY <1>6, ReceiveGarbageTypes
<1>7. CASE ReceivePacket
  BY <1>7, AuthSucceededTypes, AuthFailedTypes, SessionInvalidTypes DEF ReceivePacket
<1>8. ASSUME NEW u \in Users, CredentialsEntered(u) PROVE FlowTypeOK' /\ Named'
  BY <1>8, CredentialsTypes
<1>9. CASE OfflineModeRequested
  BY <1>9, OfflineTypes
<1>10. ASSUME NEW s \in Servers, ChangeServerRequested(s) PROVE FlowTypeOK' /\ Named'
  BY <1>10, ChangeServerTypes
<1>11. CASE LogoutRequested
  BY <1>11, LogoutTypes
<1>12. CASE ServerAnswers
  BY <1>12, ServerAnswersTypes
<1>13. CASE ServerForgets \/ TokenExpires
  <2>1. /\ UNCHANGED <<session, disk, current, active, blocked, window, busy, button, chat,
                       queues>>
        /\ expired' \in BOOLEAN /\ good' \in BOOLEAN
    BY <1>13 DEF ServerForgets, TokenExpires, account, FlowTypeOK
  <2> QED BY <2>1, QuietTypes DEF queues, FlowTypeOK
<1>14. CASE ServerDrops
  BY <1>14, ServerDropsTypes
<1>15. CASE UNCHANGED vars
  BY <1>15 DEF vars, account, chat, queues, FlowTypeOK, Named
<1> QED BY <1>1, <1>2, <1>3, <1>4, <1>5, <1>6, <1>7, <1>8, <1>9, <1>10, <1>11, <1>12,
           <1>13, <1>14, <1>15 DEF Next

\* The types hold at the start.
LEMMA InitTypes ==
    ASSUME Init
    PROVE  FlowTypeOK /\ Named
<1>1. session \in Sessions /\ disk \in Sessions /\ current \in Servers
  BY FlowAssumption DEF Init, Sessions
<1>2. /\ up \in Seq(Packets({"login", "resume_session"}))
      /\ down \in Seq(Packets({"auth_ok", "auth_error", "session_invalid"}))
  BY EmptySequence DEF Init
<1>3. Named
  BY EmptySequence DEF Init, Named
<1> QED BY <1>1, <1>2, <1>3 DEF Init, FlowTypeOK

\* Type correctness of the client under its whole session flow.
THEOREM TypeCorrect == Spec => []TypeOK
<1>1. Init => Net!IInv /\ FlowTypeOK /\ Named
  BY NetInit, InitTypes
<1>2. Net!IInv /\ FlowTypeOK /\ Named /\ [Next]_vars => (Net!IInv /\ FlowTypeOK /\ Named)'
  BY NetNext, TypesNext
<1>3. Net!IInv /\ FlowTypeOK => TypeOK
  BY DEF Net!IInv, Net!TypeOK, Connection!TypeOK, FlowTypeOK, TypeOK
<1> QED BY <1>1, <1>2, <1>3, PTL DEF Spec

-----------------------------------------------------------------------------
(* The account in memory, on disk and in the windows. *)

\* A program that does not run has neither a connection nor an account.
NothingRuns == window = "closed" =>
    sock = "unconnected" /\ timer = 0 /\ active = NoUser /\ ~button

\* What makes RestartKeepsSession and WindowFitsConnection inductive.
AccountInv ==
    /\ NothingRuns
    /\ active # NoUser => session.user = active
    /\ RestartKeepsSession
    /\ WindowFitsConnection

\* A step that changes neither the account nor what is shown.
LEMMA QuietAccount ==
    ASSUME AccountInv, UNCHANGED <<session, disk, active, window, button>>,
           sock' = sock, window = "closed" => timer' = 0
    PROVE  AccountInv'
BY DEF AccountInv, NothingRuns, RestartKeepsSession, WindowFitsConnection, HasStored

\* A connection is asked for and the connection window shown.
LEMMA DialAccount ==
    ASSUME sock' = "connecting", window' = "connection", disk' = session',
           active' # NoUser => session'.user = active',
           button' => HasStored'
    PROVE  AccountInv'
BY DEF AccountInv, NothingRuns, RestartKeepsSession, WindowFitsConnection, HasStored

\* The connection is gone and onSocketDisconnected has run.
LEMMA DisconnectedAccount ==
    ASSUME FlowTypeOK, AccountInv, sock = "connected", sock' = "unconnected",
           OnSocketDisconnected, UNCHANGED account
    PROVE  AccountInv'
<1>1. UNCHANGED <<session, disk, active>> /\ window # "closed"
  BY DEF account, AccountInv, NothingRuns
<1>2. /\ window' \in {"chat", "connection"}
      /\ window' = "connection" => button' = HasStored
  BY OnSocketDisconnectedPreserves
<1> QED BY <1>1, <1>2 DEF AccountInv, NothingRuns, RestartKeepsSession,
           WindowFitsConnection, HasStored

\* onSocketConnected drops an expired token from the disk as well.
LEMMA SocketConnectedAccount ==
    ASSUME FlowTypeOK, AccountInv, SocketConnected
    PROVE  AccountInv'
<1>1. sock = "connecting" /\ sock' = "connected" /\ window # "closed"
  BY DEF SocketConnected, Connection!Connected, AccountInv, NothingRuns
<1>2. disk' = session' /\ session'.user = session.user
  <2>1. CASE expired /\ session.token
    BY <2>1, ForgetTokenPreserves DEF SocketConnected
  <2>2. CASE ~(expired /\ session.token)
    BY <1>1, <2>2 DEF SocketConnected, AccountInv, RestartKeepsSession
  <2> QED BY <2>1, <2>2
<1>3. window' # "closed" /\ ~button' /\ active' = active
  BY <1>1 DEF SocketConnected
<1> QED BY <1>1, <1>2, <1>3 DEF AccountInv, NothingRuns, RestartKeepsSession,
           WindowFitsConnection

\* A packet of the server sets the account and shows the login or the chat window.
LEMMA PacketAccount ==
    ASSUME sock' = "connected", window' \in {"login", "chat"}, disk' = session',
           active' # NoUser => session'.user = active'
    PROVE  AccountInv'
BY DEF AccountInv, NothingRuns, RestartKeepsSession, WindowFitsConnection

\* An answer sets the account in memory and on the disk alike.
LEMMA ReceivePacketAccount ==
    ASSUME FlowTypeOK, Named, AccountInv, ReceivePacket
    PROVE  AccountInv'
<1>1. sock = "connected" /\ sock' = "connected" /\ window # "closed"
  BY DEF ReceivePacket, AuthSucceeded, AuthFailed, SessionInvalid, Arrives,
         Connection!ReceiveBytes, Connection!control, AccountInv, NothingRuns
<1>2. CASE AuthSucceeded
  <2>1. window' = "chat" /\ disk' = session' /\ session'.user = active'
    BY <1>2 DEF AuthSucceeded
  <2> QED BY <1>1, <2>1, PacketAccount
<1>3. CASE AuthFailed
  <2>1. window' = "login" /\ UNCHANGED <<session, disk, active>>
    BY <1>3 DEF AuthFailed, account
  <2> QED BY <1>1, <2>1, PacketAccount DEF AccountInv, RestartKeepsSession
<1>4. CASE SessionInvalid
  <2>1. window' = "login" /\ active' = active /\ disk' = session'
        /\ session'.user = session.user
    BY <1>4, ForgetTokenPreserves DEF SessionInvalid
  <2> QED BY <1>1, <2>1, PacketAccount DEF AccountInv
<1> QED BY <1>2, <1>3, <1>4 DEF ReceivePacket

\* Every step keeps the account and the windows together.
LEMMA AccountNext ==
    ASSUME FlowTypeOK, Named, AccountInv, [Next]_vars
    PROVE  AccountInv'
<1>1. CASE Start
  <2>1. /\ sock' = "connecting" /\ window' = "connection" /\ session' = disk
        /\ UNCHANGED <<disk, active, button>> /\ window = "closed"
    BY <1>1 DEF Start, Connection!ConnectToServer
  <2> QED BY <2>1, DialAccount DEF AccountInv, NothingRuns
<1>2. CASE Quit \/ Kill
  <2>1. sock' = "unconnected" /\ timer' = 0 /\ Forget
    BY <1>2 DEF Quit, Kill, Connection!DisconnectFromServer, Connection!ProgramEnds
  <2> QED BY <2>1 DEF Forget, AccountInv, NothingRuns, RestartKeepsSession,
             WindowFitsConnection
<1>3. CASE SocketConnected
  BY <1>3, SocketConnectedAccount
<1>4. CASE ConnectionLost \/ HeartbeatExpired \/ InvalidPacket
  <2>1. /\ sock = "connected" /\ sock' = "unconnected"
        /\ OnSocketDisconnected /\ UNCHANGED account
    BY <1>4 DEF ConnectionLost, HeartbeatExpired, InvalidPacket, Connection!ConnectionLost,
                Connection!HeartbeatExpired, Connection!ReceiveInvalidPacket,
                Connection!Drop
  <2> QED BY <2>1, DisconnectedAccount
<1>5. CASE ConnectFails
  <2>1. /\ sock = "connecting" /\ sock' = "unconnected" /\ button' = HasStored
        /\ UNCHANGED <<session, disk, active, window>>
    BY <1>5 DEF ConnectFails, Connection!ConnectFails, account
  <2> QED BY <2>1 DEF AccountInv, NothingRuns, RestartKeepsSession,
             WindowFitsConnection, HasStored
<1>6. CASE ReconnectIfNeeded
  <2>1. /\ UNCHANGED <<session, disk, active, window, button>>
        /\ timer # 0
        /\ \/ sock' = sock
           \/ sock = "unconnected" /\ sock' = "connecting"
    BY <1>6 DEF ReconnectIfNeeded, Connection!ReconnectIfNeeded, account
  <2> QED BY <2>1 DEF AccountInv, NothingRuns, RestartKeepsSession,
             WindowFitsConnection, HasStored
<1>7. CASE ReceivePart \/ ReceiveGarbage
  <2>1. UNCHANGED <<session, disk, active, window, button, sock, timer>>
    BY <1>7 DEF ReceivePart, ReceiveGarbage, Connection!ReceiveBytes, Connection!control,
                account
  <2> QED BY <2>1, QuietAccount DEF AccountInv, NothingRuns
<1>8. CASE ReceivePacket
  BY <1>8, ReceivePacketAccount
<1>9. CASE OfflineModeRequested
  <2>1. /\ window = "connection" /\ window' = "chat" /\ UNCHANGED <<session, disk>>
        /\ active' = IF active = NoUser THEN session.user ELSE active
    BY <1>9 DEF OfflineModeRequested
  <2> QED BY <2>1 DEF AccountInv, NothingRuns, RestartKeepsSession, WindowFitsConnection
<1>10. ASSUME NEW s \in Servers, ChangeServerRequested(s) PROVE AccountInv'
  <2>1. /\ window # "closed" /\ sock' = "connecting" /\ window' = "connection"
        /\ UNCHANGED <<session, disk, active>>
        /\ button' = (sock = "connected" /\ HasStored)
    BY <1>10 DEF ChangeServerRequested, Connection!ConnectToServer
  <2> QED BY <2>1, DialAccount DEF AccountInv, RestartKeepsSession, HasStored
<1>11. CASE LogoutRequested
  <2>1. /\ sock' = "connecting" /\ window' = "connection" /\ disk' = session'
        /\ active' = NoUser /\ ~button'
    BY <1>11 DEF LogoutRequested, Connection!Redial
  <2> QED BY <2>1, DialAccount
<1>12. CASE TransportError \/ ServerAnswers \/ ServerForgets \/ ServerDrops \/ TokenExpires
              \/ (\E u \in Users : CredentialsEntered(u)) \/ UNCHANGED vars
  <2>1. UNCHANGED <<session, disk, active, window, button, sock, timer>>
    BY <1>12 DEF TransportError, ServerAnswers, ServerForgets, ServerDrops, TokenExpires,
                 CredentialsEntered, vars, net, account
  <2> QED BY <2>1, QuietAccount DEF AccountInv, NothingRuns
<1> QED BY <1>1, <1>2, <1>3, <1>4, <1>5, <1>6, <1>7, <1>8, <1>9, <1>10, <1>11, <1>12
       DEF Next

\* There is no account at the start.
LEMMA InitAccount ==
    ASSUME Init
    PROVE  AccountInv
BY DEF Init, Connection!Init, NoSession, AccountInv, NothingRuns, RestartKeepsSession,
       WindowFitsConnection

\* The row of last_session is the session in memory after every handler, for any users,
\* servers and schedule (persistStoredSessionState).
THEOREM RestartIsSafe == Spec => []RestartKeepsSession
<1>1. Init => FlowTypeOK /\ Named /\ AccountInv
  BY InitTypes, InitAccount
<1>2. FlowTypeOK /\ Named /\ AccountInv /\ [Next]_vars => (FlowTypeOK /\ Named /\ AccountInv)'
  BY TypesNext, AccountNext
<1>3. AccountInv => RestartKeepsSession
  BY DEF AccountInv
<1> QED BY <1>1, <1>2, <1>3, PTL DEF Spec

\* The login window is shown on a connection only, and the connection window offers the
\* offline mode to whom it is due (updateOfflineAvailability).
THEOREM WindowIsFitting == Spec => []WindowFitsConnection
<1>1. Init => FlowTypeOK /\ Named /\ AccountInv
  BY InitTypes, InitAccount
<1>2. FlowTypeOK /\ Named /\ AccountInv /\ [Next]_vars => (FlowTypeOK /\ Named /\ AccountInv)'
  BY TypesNext, AccountNext
<1>3. AccountInv => WindowFitsConnection
  BY DEF AccountInv
<1> QED BY <1>1, <1>2, <1>3, PTL DEF Spec

-----------------------------------------------------------------------------
(* The chat window's user. *)

\* While the server has the connection, the last sign-in that is on its way is that of the
\* user it knows the connection by.
Told == served => \A k \in DOMAIN down :
    down[k].type = "auth_ok" /\ (\A j \in DOMAIN down : j > k => down[j].type # "auth_ok")
    => signed = down[k].user

\* An online chat window belongs to the session of its connection, in step with the
\* frames, and unless a newer sign-in is on its way the server agrees.
OnlineIsSignedIn == window = "chat" /\ chatMode = "online" =>
    /\ sock = "connected"
    /\ aligned
    /\ session = [user |-> active, server |-> current, token |-> TRUE]
    /\ served /\ ~Issued(down) => signed = active

\* Without a connection no server has it, and no answer is on its way.
Linked == sock # "connected" => ~served /\ down = <<>>

\* What makes ChatIsSignedIn inductive.
ChatInv ==
    /\ Linked
    /\ Told
    /\ window = "chat" => chatUser = active /\ session.user = active
    /\ OnlineIsSignedIn

\* What is left after the first answers say of the sign-ins what all of them say.
LEMMA ToldOfRest ==
    ASSUME FlowTypeOK, Told, down # <<>>, down' = Tail(down), UNCHANGED <<signed, served>>
    PROVE  /\ Told'
           /\ served /\ Head(down).type = "auth_ok" /\ ~Issued(down')
              => signed = Head(down).user
           /\ Head(down).type # "auth_ok" => (Issued(down) => Issued(down'))
<1>1. down \in Seq(Answers)
  BY DEF FlowTypeOK, Answers
<1>2. /\ DOMAIN down' = 1 .. (Len(down) - 1) /\ DOMAIN down = 1 .. Len(down)
      /\ Len(down) \in Nat \ {0} /\ Head(down) = down[1]
      /\ \A k \in 1 .. (Len(down) - 1) : down'[k] = down[k + 1]
  BY <1>1, TailOf
<1>3. ASSUME served, NEW k \in DOMAIN down', down'[k].type = "auth_ok",
             \A j \in DOMAIN down' : j > k => down'[j].type # "auth_ok"
      PROVE  signed' = down'[k].user
  <2>1. k + 1 \in DOMAIN down /\ down'[k] = down[k + 1]
    BY <1>2
  <2>2. ASSUME NEW j \in DOMAIN down, j > k + 1
        PROVE  down[j].type # "auth_ok"
    <3>1. j - 1 \in DOMAIN down' /\ j - 1 > k /\ down'[j - 1] = down[j]
      BY <1>2, <2>2
    <3> QED BY <1>3, <3>1
  <2> QED BY <1>3, <2>1, <2>2 DEF Told
<1>4. ASSUME served, Head(down).type = "auth_ok", ~Issued(down')
      PROVE  signed = Head(down).user
  <2>1. ASSUME NEW j \in DOMAIN down, j > 1
        PROVE  down[j].type # "auth_ok"
    <3>1. j - 1 \in DOMAIN down' /\ down'[j - 1] = down[j]
      BY <1>2, <2>1
    <3> QED BY <1>4, <3>1 DEF Issued
  <2>2. 1 \in DOMAIN down
    BY <1>2
  <2> QED BY <1>2, <1>4, <2>1, <2>2 DEF Told
<1>5. ASSUME Head(down).type # "auth_ok", Issued(down)
      PROVE  Issued(down')
  <2>1. PICK j \in DOMAIN down : down[j].type = "auth_ok"
    BY <1>5 DEF Issued
  <2>2. j - 1 \in DOMAIN down' /\ down'[j - 1] = down[j]
    BY <1>2, <1>5, <2>1
  <2> QED BY <2>1, <2>2 DEF Issued
<1> QED BY <1>3, <1>4, <1>5 DEF Told

\* Nothing is on its way.
LEMMA ToldOfNothing ==
    ASSUME Cut
    PROVE  Linked' /\ Told'
BY DEF Cut, Linked, Told

\* A new answer says what the server did.
LEMMA ToldOfAnswer ==
    ASSUME FlowTypeOK, Named, Told, ServerAnswers
    PROVE  /\ Told'
           /\ \/ Issued(down')
              \/ (~Issued(down) /\ UNCHANGED signed)
           /\ UNCHANGED served
<1>0. UNCHANGED served
  BY ServerAnswersCases
<1>1. ASSUME NEW u \in Users, SignIn(u)
      PROVE  Told' /\ Issued(down')
  <2>1. Answer("auth_ok", u) /\ signed' = u
    BY <1>1 DEF SignIn
  <2>2. /\ DOMAIN down' = 1 .. (Len(down) + 1) /\ DOMAIN down = 1 .. Len(down)
        /\ Len(down) \in Nat
        /\ down'[Len(down) + 1].type = "auth_ok" /\ down'[Len(down) + 1].user = u
    BY <2>1, AnswerAppended
  <2>3. Len(down) + 1 \in DOMAIN down'
    BY <2>2
  <2>4. ASSUME NEW k \in DOMAIN down', \A j \in DOMAIN down' : j > k => down'[j].type # "auth_ok"
        PROVE  k = Len(down) + 1
    BY <2>2, <2>3, <2>4
  <2> QED BY <2>1, <2>2, <2>3, <2>4 DEF Told, Issued
<1>2. ASSUME NEW t \in {"auth_error", "session_invalid"},
             Answer(t, NoUser), UNCHANGED signed
      PROVE  Told' /\ (Issued(down) => Issued(down'))
  <2>1. /\ DOMAIN down' = 1 .. (Len(down) + 1) /\ DOMAIN down = 1 .. Len(down)
        /\ Len(down) \in Nat /\ down'[Len(down) + 1].type # "auth_ok"
        /\ \A k \in 1 .. Len(down) : down'[k] = down[k]
    BY <1>2, AnswerAppended
  <2>2. ASSUME served, NEW k \in DOMAIN down', down'[k].type = "auth_ok",
               \A j \in DOMAIN down' : j > k => down'[j].type # "auth_ok"
        PROVE  signed = down'[k].user
    <3>1. k \in DOMAIN down /\ down'[k] = down[k]
      BY <2>1, <2>2
    <3>2. ASSUME NEW j \in DOMAIN down, j > k
          PROVE  down[j].type # "auth_ok"
      BY <2>1, <2>2, <3>2
    <3> QED BY <2>2, <3>1, <3>2 DEF Told
  <2>3. Issued(down) => Issued(down')
    BY <2>1 DEF Issued
  <2> QED BY <1>0, <1>2, <2>2, <2>3 DEF Told
<1> QED BY <1>0, <1>1, <1>2, ServerAnswersCases

\* No chat window is shown, or its user is cut off from the connection.
LEMMA OffLineChat ==
    ASSUME Linked', Told',
           window' = "chat" => /\ chatUser' = active' /\ session'.user = active'
                               /\ chatMode' # "online"
    PROVE  ChatInv'
BY DEF ChatInv, OnlineIsSignedIn

\* A step that leaves the chat window and all it depends on as they are.
LEMMA QuietChat ==
    ASSUME ChatInv,
           UNCHANGED <<session, current, active, window, chatUser, chatMode, down, signed,
                       served>>,
           sock' = sock, aligned => aligned'
    PROVE  ChatInv'
BY DEF ChatInv, Linked, Told, OnlineIsSignedIn, Issued

\* A step of the socket before it is connected.
LEMMA UnconnectedChat ==
    ASSUME ChatInv, sock # "connected",
           UNCHANGED <<session, active, window, chatUser, chatMode, down, served>>
    PROVE  ChatInv'
<1>1. Linked' /\ Told'
  BY DEF ChatInv, Linked, Told
<1> QED BY <1>1, OffLineChat DEF ChatInv, OnlineIsSignedIn

\* A new connection finds no online chat window and no answers.
LEMMA SocketConnectedChat ==
    ASSUME FlowTypeOK, ChatInv, SocketConnected
    PROVE  ChatInv'
<1>1. /\ sock = "connecting" /\ sock' = "connected" /\ window' \in {window, "login"}
      /\ UNCHANGED <<active, chatUser, chatMode, down>>
  BY DEF SocketConnected, Connection!Connected, chat
<1>2. session'.user = session.user
  BY ForgetTokenPreserves DEF SocketConnected
<1>3. down' = <<>>
  BY <1>1 DEF ChatInv, Linked
<1>4. Linked' /\ Told'
  BY <1>1, <1>3, EmptySequence DEF Linked, Told
<1> QED BY <1>1, <1>2, <1>4, OffLineChat DEF ChatInv, OnlineIsSignedIn

\* The connection is gone and onSocketDisconnected has run.
LEMMA DisconnectedChat ==
    ASSUME FlowTypeOK, ChatInv, OnSocketDisconnected, Cut, UNCHANGED account
    PROVE  ChatInv'
<1>1. Linked' /\ Told'
  BY ToldOfNothing
<1>2. UNCHANGED <<session, active>>
  BY DEF account
<1>3. window' = "chat" => /\ chatUser' = active /\ chatMode' = "offline"
                          /\ window = "chat"
  BY OnSocketDisconnectedPreserves
<1> QED BY <1>1, <1>2, <1>3, OffLineChat DEF ChatInv

\* A sign-in shows the chat window of the user it names.
LEMMA AuthSucceededChat ==
    ASSUME FlowTypeOK, Named, ChatInv, AuthSucceeded
    PROVE  ChatInv'
<1>1. /\ aligned /\ sock' = "connected" /\ down # <<>> /\ down' = Tail(down)
      /\ Head(down).type = "auth_ok" /\ UNCHANGED <<signed, served>>
  BY DEF AuthSucceeded, Arrives, Connection!ReceiveBytes, Connection!control
<1>2. aligned' = TRUE
  BY DEF AuthSucceeded, Arrives, Connection!ReceiveBytes
<1>3. Told' /\ (served /\ ~Issued(down') => signed = Head(down).user)
  BY <1>1, ToldOfRest DEF ChatInv
<1>4. /\ session' = [user |-> Head(down).user, server |-> current, token |-> TRUE]
      /\ active' = Head(down).user /\ chatUser' = Head(down).user /\ current' = current
  BY DEF AuthSucceeded, Activate
<1>5. Linked'
  BY <1>1 DEF Linked
<1> QED BY <1>1, <1>2, <1>3, <1>4, <1>5 DEF ChatInv, OnlineIsSignedIn

\* A refusal shows the login window.
LEMMA RefusedChat ==
    ASSUME FlowTypeOK, ChatInv, AuthFailed \/ SessionInvalid
    PROVE  ChatInv'
<1>1. /\ window' = "login" /\ down # <<>> /\ down' = Tail(down)
      /\ UNCHANGED <<signed, served>> /\ sock' = "connected"
  BY DEF AuthFailed, SessionInvalid, Arrives, Connection!ReceiveBytes, Connection!control
<1>2. Linked' /\ Told'
  BY <1>1, ToldOfRest DEF ChatInv, Linked
<1> QED BY <1>1, <1>2, OffLineChat

\* Bytes out of step: the chat window is not online.
LEMMA GarbageChat ==
    ASSUME FlowTypeOK, ChatInv, ReceiveGarbage
    PROVE  ChatInv'
<1>1. /\ ~aligned
      /\ UNCHANGED <<session, active, window, chatUser, chatMode, signed, served>>
      /\ down' = down \/ (down # <<>> /\ down' = Tail(down))
      /\ sock' = "connected"
  BY DEF ReceiveGarbage, account, chat, Connection!ReceiveBytes, Connection!control
<1>2. Linked' /\ Told'
  BY <1>1, ToldOfRest DEF ChatInv, Linked, Told
<1> QED BY <1>1, <1>2, OffLineChat DEF ChatInv, OnlineIsSignedIn

\* Of a connection that the server dropped nothing more is said than what the client knows.
LEMMA ServerDropsChat ==
    ASSUME ChatInv, ServerDrops
    PROVE  ChatInv'
<1>1. /\ ~served'
      /\ UNCHANGED <<session, current, active, window, chatUser, chatMode, down, sock,
                     aligned>>
  BY DEF ServerDrops, net, account, chat
<1> QED BY <1>1 DEF ChatInv, Linked, Told, OnlineIsSignedIn

\* Every step keeps the chat window with its user.
LEMMA ChatNext ==
    ASSUME FlowTypeOK, Named, AccountInv, ChatInv, [Next]_vars
    PROVE  ChatInv'
<1>1. CASE Start
  <2>1. window' = "connection" /\ sock # "connected" /\ UNCHANGED <<down, served>>
    BY <1>1 DEF Start, queues, AccountInv, NothingRuns
  <2>2. Linked' /\ Told'
    BY <2>1 DEF ChatInv, Linked, Told
  <2> QED BY <2>1, <2>2, OffLineChat
<1>2. CASE Quit \/ Kill
  <2>1. window' = "closed" /\ Cut
    BY <1>2 DEF Quit, Kill, Forget
  <2> QED BY <2>1, ToldOfNothing, OffLineChat
<1>3. CASE SocketConnected
  BY <1>3, SocketConnectedChat
<1>4. CASE ConnectionLost \/ HeartbeatExpired \/ InvalidPacket
  <2>1. OnSocketDisconnected /\ Cut /\ UNCHANGED account
    BY <1>4 DEF ConnectionLost, HeartbeatExpired, InvalidPacket
  <2> QED BY <2>1, DisconnectedChat
<1>5. CASE ConnectFails \/ ReconnectIfNeeded
  <2>1. /\ sock # "connected" \/ (sock' = sock /\ aligned' = aligned)
        /\ UNCHANGED <<session, current, active, window, chatUser, chatMode, down, signed,
                       served>>
    BY <1>5 DEF ConnectFails, ReconnectIfNeeded, Connection!ConnectFails,
                Connection!ReconnectIfNeeded, Connection!input, account, chat, queues
  <2> QED BY <2>1, UnconnectedChat, QuietChat
<1>6. CASE ReceivePart
  <2>1. sock' = sock /\ aligned' = TRUE
    BY <1>6 DEF ReceivePart, Connection!ReceiveBytes, Connection!control
  <2>2. UNCHANGED <<session, current, active, window, chatUser, chatMode, down, signed,
                    served>>
    BY <1>6 DEF ReceivePart, account, chat, queues
  <2> QED BY <2>1, <2>2, QuietChat
<1>7. CASE ReceiveGarbage
  BY <1>7, GarbageChat
<1>8. CASE ReceivePacket
  BY <1>8, AuthSucceededChat, RefusedChat DEF ReceivePacket
<1>9. CASE OfflineModeRequested
  <2>1. /\ active' = IF active = NoUser THEN session.user ELSE active
        /\ chatUser' = active' /\ chatMode' = "offline"
        /\ UNCHANGED <<session, down, signed, served, sock>>
    BY <1>9 DEF OfflineModeRequested, Activate, queues, net
  <2>2. session'.user = active'
    BY <2>1 DEF AccountInv
  <2>3. Linked' /\ Told'
    BY <2>1 DEF ChatInv, Linked, Told
  <2> QED BY <2>1, <2>2, <2>3, OffLineChat
<1>10. CASE (\E s \in Servers : ChangeServerRequested(s)) \/ LogoutRequested
  <2>1. window' = "connection" /\ Cut
    BY <1>10 DEF ChangeServerRequested, LogoutRequested
  <2> QED BY <2>1, ToldOfNothing, OffLineChat
<1>11. CASE ServerAnswers
  <2>1. /\ served
        /\ UNCHANGED <<sock, aligned, session, current, active, window, chatUser, chatMode>>
    BY <1>11 DEF ServerAnswers, net, account, chat
  <2>2. /\ Told' /\ UNCHANGED served
        /\ Issued(down') \/ (~Issued(down) /\ UNCHANGED signed)
    BY <1>11, ToldOfAnswer DEF ChatInv
  <2>3. Linked'
    BY <2>1, <2>2 DEF ChatInv, Linked
  <2> QED BY <2>1, <2>2, <2>3 DEF ChatInv, OnlineIsSignedIn
<1>12. CASE ServerDrops
  BY <1>12, ServerDropsChat
<1>13. CASE TransportError \/ TokenExpires \/ ServerForgets
              \/ (\E u \in Users : CredentialsEntered(u)) \/ UNCHANGED vars
  <2>1. UNCHANGED <<session, current, active, window, chatUser, chatMode, down, signed,
                    served, sock, aligned>>
    BY <1>13 DEF TransportError, TokenExpires, ServerForgets, CredentialsEntered, vars, net,
                 account, chat, queues
  <2> QED BY <2>1, QuietChat
<1> QED BY <1>1, <1>2, <1>3, <1>4, <1>5, <1>6, <1>7, <1>8, <1>9, <1>10, <1>11, <1>12,
           <1>13 DEF Next

\* There is no chat window at the start.
LEMMA InitChat ==
    ASSUME Init
    PROVE  ChatInv
BY DEF Init, ChatInv, Linked, Told, OnlineIsSignedIn

\* A chat window that lets its user compose is that of the stored session at the endpoint
\* the client is connected to, and of the user whom the server, as long as it has the
\* connection, has signed in on it, for any users, servers, schedule and number of answers
\* on their way, whatever becomes of the token (activateSession, onAuthSucceeded).
THEOREM ChatStaysSignedIn == Spec => []ChatIsSignedIn
<1> DEFINE Inv == FlowTypeOK /\ Named /\ AccountInv /\ ChatInv
<1>1. Init => Inv
  BY InitTypes, InitAccount, InitChat
<1>2. Inv /\ [Next]_vars => Inv'
  BY TypesNext, AccountNext, ChatNext
<1>3. Inv => ChatIsSignedIn
  BY DEF ChatInv, OnlineIsSignedIn, ChatIsSignedIn
<1> QED BY <1>1, <1>2, <1>3, PTL DEF Spec
=============================================================================
