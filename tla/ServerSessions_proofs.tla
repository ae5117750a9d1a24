----------------------- MODULE ServerSessions_proofs ------------------------
(***************************************************************************)
(* Theorems about ServerSessions, for any sets of users and connections,   *)
(* any bounds, and with or without failing writes of the database.         *)
(***************************************************************************)
EXTENDS ServerSessions, TLAPS

-----------------------------------------------------------------------------
(* Types. *)

\* Whatever is posted to one connection leaves the queues well formed.
LEMMA PostType ==
    ASSUME NEW q \in [Conns -> Seq(Calls)], NEW c \in Conns, NEW x \in Calls
    PROVE  Post(q, c, x) \in [Conns -> Seq(Calls)]
  BY DEF Post

\* So does the list of users posted to all that are online.
LEMMA BroadcastType ==
    ASSUME NEW q \in [Conns -> Seq(Calls)], NEW online
    PROVE  BroadcastUsers(q, online) \in [Conns -> Seq(Calls)]
  <1>1. "users" \in Calls
    BY DEF Calls, SendKinds
  <1>2. QED
    BY <1>1 DEF BroadcastUsers

\* The record of what was sent last keeps its shape.
LEMMA TellType ==
    ASSUME NEW t \in [Conns -> [token : Nat, list : SUBSET Users]], NEW online
    PROVE  TellUsers(t, online) \in [Conns -> [token : Nat, list : SUBSET Users]]
  BY DEF TellUsers, OnlineSet

\* So does a new token in it.
LEMMA TokenType ==
    ASSUME NEW t \in [Conns -> [token : Nat, list : SUBSET Users]],
           NEW c \in Conns, NEW n \in Nat
    PROVE  [t EXCEPT ![c].token = n] \in [Conns -> [token : Nat, list : SUBSET Users]]
  OBVIOUS

\* Deleting a row of the sessions table, or failing to, leaves a table of tokens.
LEMMA InvalidateType ==
    ASSUME NEW s \in [Users -> Nat], NEW v
    PROVE  Invalidate(s, v) \subseteq [Users -> Nat]
  <1>1. [s EXCEPT ![v] = 0] \in [Users -> Nat]
    OBVIOUS
  <1>2. QED
    BY <1>1 DEF Invalidate

\* A sign-in writes rows and registry entries of the right types.
LEMMA SignInType ==
    ASSUME TypeOK, NEW c \in Conns, NEW u \in Users, SignIn(c, u)
    PROVE  /\ onlineUsers' \in [Users -> Conns \cup {NoConn}]
           /\ connectionUsers' \in [Conns -> Users \cup {NoUser}]
           /\ sessions' \in [Users -> Nat]
           /\ lastToken' \in Nat
           /\ calls' \in [Conns -> Seq(Calls)]
           /\ told' \in [Conns -> [token : Nat, list : SUBSET Users]]
  <1> DEFINE old == connectionUsers[c]
             switching == old \notin {NoUser, u}
             online == SwitchedOff(c, u)
             owner == IF switching THEN [connectionUsers EXCEPT ![c] = NoUser]
                      ELSE connectionUsers
             rows == IF switching THEN Invalidate(Issue(u), old) ELSE {Issue(u)}
  <1>1. online \in [Users -> Conns \cup {NoConn}]
    BY DEF TypeOK, SwitchedOff
  <1>2. owner \in [Conns -> Users \cup {NoUser}]
    BY DEF TypeOK
  <1>3. rows \subseteq [Users -> Nat]
    <2>1. Issue(u) \in [Users -> Nat]
      BY DEF TypeOK, Issue
    <2>2. Invalidate(Issue(u), old) \subseteq [Users -> Nat]
      BY <2>1, InvalidateType
    <2>3. QED
      BY <2>1, <2>2
  <1>4. \A s \in rows : Invalidate(s, u) \subseteq [Users -> Nat]
    BY <1>3, InvalidateType
  <1>5. lastToken' \in Nat
    BY DEF TypeOK, SignIn
  <1>6. {"auth_ok", "auth_error", "dialogs"} \subseteq Calls
    BY DEF Calls, SendKinds
  <1>7. CASE online[u] \in {NoConn, c}
    <2>1. /\ onlineUsers' = [online EXCEPT ![u] = c]
          /\ connectionUsers' = [owner EXCEPT ![c] = u]
          /\ sessions' \in rows
          /\ calls' = Post(BroadcastUsers(Post(calls, c, "auth_ok"), onlineUsers'),
                           c, "dialogs")
          /\ told' = TellUsers([told EXCEPT ![c].token = lastToken + 1], onlineUsers')
      BY <1>7 DEF SignIn
    <2>2. calls' \in [Conns -> Seq(Calls)]
      BY <1>6, <2>1, PostType, BroadcastType DEF TypeOK
    <2>3. [told EXCEPT ![c].token = lastToken + 1]
            \in [Conns -> [token : Nat, list : SUBSET Users]]
      BY <1>5, TokenType DEF TypeOK, SignIn
    <2>4. told' \in [Conns -> [token : Nat, list : SUBSET Users]]
      BY <2>1, <2>3, TellType
    <2>5. QED
      BY <1>1, <1>2, <1>3, <1>5, <2>1, <2>2, <2>4
  <1>8. CASE online[u] \notin {NoConn, c}
    <2>1. /\ onlineUsers' = online
          /\ connectionUsers' = owner
          /\ sessions' \in UNION {Invalidate(s, u) : s \in rows}
          /\ calls' = Post(calls, c, "auth_error")
          /\ told' = told
      BY <1>8 DEF SignIn, Reply
    <2>2. sessions' \in [Users -> Nat]
      BY <1>4, <2>1
    <2>3. calls' \in [Conns -> Seq(Calls)]
      BY <1>6, <2>1, PostType DEF TypeOK
    <2>4. QED
      BY <1>1, <1>2, <1>5, <2>1, <2>2, <2>3 DEF TypeOK
  <1>9. QED
    BY <1>7, <1>8

\* The events the connections post are events.
LEMMA EventType ==
    /\ \A c \in Conns : ReadyEvent(c) \in Events /\ ClosedEvent(c) \in Events
    /\ \A c \in Conns, p \in Packets : PacketEvent(c, p) \in Events
  BY DEF Events, ReadyEvent, ClosedEvent, PacketEvent

\* A closing connection posts at most one event.
LEMMA CloseType ==
    ASSUME TypeOK, NEW c \in Conns, CloseAndNotify(c)
    PROVE  /\ inbox' \in Seq(Events)
           /\ sock' \in [Conns -> {"none", "open", "gone", "unconnected", "released"}]
           /\ closedNotified' \in [Conns -> BOOLEAN]
  <1>1. inbox' \in Seq(Events) /\ closedNotified' \in [Conns -> BOOLEAN]
    BY EventType DEF TypeOK, CloseAndNotify, NotifyClosedOnce
  <1>2. sock' \in [Conns -> {"none", "open", "gone", "unconnected", "released"}]
    BY DEF TypeOK, CloseAndNotify
  <1>3. QED
    BY <1>1, <1>2

\* Taking the next event leaves a queue of events.
LEMMA TakeType ==
    ASSUME TypeOK, NEW e, Take(e)
    PROVE  inbox' \in Seq(Events)
  BY DEF TypeOK, Take

\* unregisterConnection keeps both maps maps.
LEMMA UnregisterType ==
    ASSUME TypeOK, NEW c \in Conns, Unregister(c)
    PROVE  /\ onlineUsers' \in [Users -> Conns \cup {NoConn}]
           /\ connectionUsers' \in [Conns -> Users \cup {NoUser}]
  BY DEF TypeOK, Unregister

\* A reply queues one packet and sends no token and no list.
LEMMA ReplyType ==
    ASSUME TypeOK, NEW c \in Conns, NEW x \in Calls, Reply(c, x)
    PROVE  /\ calls' \in [Conns -> Seq(Calls)]
           /\ told' \in [Conns -> [token : Nat, list : SUBSET Users]]
  BY PostType DEF TypeOK, Reply

\* A handler that only declines or answers keeps the types.
LEMMA DeclineType ==
    ASSUME TypeOK, NEW c \in Conns, NEW x \in Calls, Decline(c, x),
           inbox' \in Seq(Events), UNCHANGED object
    PROVE  TypeOK'
  <1>1. /\ calls' \in [Conns -> Seq(Calls)]
        /\ told' \in [Conns -> [token : Nat, list : SUBSET Users]]
        /\ UNCHANGED <<registry, storage>>
    BY ReplyType DEF Decline
  <1>2. QED
    BY <1>1 DEF TypeOK, object, registry, storage


\* What the connections' threads do keeps the types.
LEMMA WorkerType ==
    ASSUME TypeOK, NEW c \in Conns, WorkerStep(c)
    PROVE  TypeOK'
  <1>1. CASE AttachSocket(c)
    BY <1>1, EventType DEF TypeOK, AttachSocket, registry, storage
  <1>2. CASE StartConnection(c)
    BY <1>2 DEF TypeOK, StartConnection, registry, storage
  <1>3. CASE RunSend(c)
    <2>1. calls' \in [Conns -> Seq(Calls)]
      BY <1>3 DEF TypeOK, RunSend
    <2>2. QED
      BY <1>3, <2>1 DEF TypeOK, RunSend, registry, storage, object
  <1>4. CASE RunClose(c)
    <2>1. calls' \in [Conns -> Seq(Calls)]
      BY <1>4 DEF TypeOK, RunClose
    <2>2. QED
      BY <1>4, <2>1, CloseType DEF TypeOK, RunClose, registry, storage
  <1>5. CASE RunDelete(c)
    <2>1. calls' \in [Conns -> Seq(Calls)]
      BY <1>5 DEF TypeOK, RunDelete
    <2>2. told' \in [Conns -> [token : Nat, list : SUBSET Users]]
      BY <1>5 DEF TypeOK, RunDelete, NothingTold
    <2>3. QED
      BY <1>5, <2>1, <2>2 DEF TypeOK, RunDelete, registry, storage
  <1>6. QED
    BY <1>1, <1>2, <1>3, <1>4, <1>5 DEF WorkerStep

\* So does what their peers and timers make them do.
LEMMA PeerType ==
    ASSUME TypeOK, NEW c \in Conns,
           PeerStep(c) \/ SocketDisconnected(c) \/ HeartbeatTimeout(c)
    PROVE  TypeOK'
  <1>1. CASE Accept(c)
    BY <1>1 DEF TypeOK, Accept, registry, storage
  <1>2. CASE PeerLeaves(c)
    BY <1>2 DEF TypeOK, PeerLeaves, registry, storage
  <1>3. CASE ReceiveInvalidPacket(c)
    BY <1>3, CloseType DEF TypeOK, ReceiveInvalidPacket, registry, storage
  <1>4. ASSUME NEW p \in Packets, ReceivePacket(c, p)
        PROVE  TypeOK'
    <2>1. inbox' \in Seq(Events)
      BY <1>4, EventType DEF TypeOK, ReceivePacket
    <2>2. QED
      BY <1>4, <2>1 DEF TypeOK, ReceivePacket, registry, storage, object
  <1>5. CASE SocketDisconnected(c)
    <2>1. inbox' \in Seq(Events) /\ closedNotified' \in [Conns -> BOOLEAN]
      BY <1>5, EventType DEF TypeOK, SocketDisconnected, NotifyClosedOnce
    <2>2. QED
      BY <1>5, <2>1 DEF TypeOK, SocketDisconnected, registry, storage
  <1>6. CASE HeartbeatTimeout(c)
    BY <1>6, CloseType DEF TypeOK, HeartbeatTimeout, registry, storage
  <1>7. QED
    BY <1>1, <1>2, <1>3, <1>4, <1>5, <1>6 DEF PeerStep

\* And so do the main thread's handlers.
LEMMA ServerType ==
    ASSUME TypeOK, ServerStep
    PROVE  TypeOK'
  <1>1. PICK c \in Conns :
          \/ ConnectionReady(c)
          \/ \E u \in Users, good \in BOOLEAN : HandleRegister(c, u, good)
          \/ \E u \in Users, good \in BOOLEAN : HandleLogin(c, u, good)
          \/ \E u \in Users, t \in Tokens : HandleResume(c, u, t)
          \/ \E p \in OtherPackets : HandleStranger(c, p)
          \/ HandleLogout(c)
          \/ HandleRequest(c)
          \/ ConnectionClosed(c)
    BY DEF ServerStep
  <1>2. SendKinds \subseteq Calls /\ {"closeAndNotify", "deleteLater"} \subseteq Calls
    BY DEF Calls
  <1>3. {"auth_error", "session_invalid", "answer"} \subseteq SendKinds
    BY DEF SendKinds
  <1>4. CASE ConnectionReady(c)
    BY <1>4, TakeType DEF TypeOK, ConnectionReady, registry, storage
  <1>5. ASSUME NEW u \in Users, NEW good \in BOOLEAN, HandleRegister(c, u, good)
        PROVE  TypeOK'
    <2>1. inbox' \in Seq(Events) /\ UNCHANGED object
      BY <1>5, TakeType DEF HandleRegister
    <2>2. CASE Decline(c, "auth_error")
      BY <1>2, <1>3, <2>1, <2>2, DeclineType
    <2>3. CASE registered' = registered \cup {u} /\ SignIn(c, u)
      BY <2>1, <2>3, SignInType DEF TypeOK, object
    <2>4. CASE /\ registered' = registered \cup {u}
               /\ Reply(c, "auth_error")
               /\ UNCHANGED <<registry, sessions, lastToken>>
      <3>1. /\ calls' \in [Conns -> Seq(Calls)]
            /\ told' \in [Conns -> [token : Nat, list : SUBSET Users]]
        BY <1>2, <1>3, <2>4, ReplyType
      <3>2. QED
        BY <2>1, <2>4, <3>1 DEF TypeOK, object, registry
    <2>5. QED
      BY <1>5, <2>2, <2>3, <2>4 DEF HandleRegister
  <1>6. ASSUME NEW u \in Users, NEW good \in BOOLEAN, HandleLogin(c, u, good)
        PROVE  TypeOK'
    <2>1. inbox' \in Seq(Events) /\ UNCHANGED object
      BY <1>6, TakeType DEF HandleLogin
    <2>2. CASE Decline(c, "auth_error")
      BY <1>2, <1>3, <2>1, <2>2, DeclineType
    <2>3. CASE registered' = registered /\ SignIn(c, u)
      BY <2>1, <2>3, SignInType DEF TypeOK, object
    <2>4. QED
      BY <1>6, <2>2, <2>3 DEF HandleLogin
  <1>7. ASSUME NEW u \in Users, NEW t \in Tokens, HandleResume(c, u, t)
        PROVE  TypeOK'
    <2>1. inbox' \in Seq(Events) /\ UNCHANGED object
      BY <1>7, TakeType DEF HandleResume
    <2>2. CASE Decline(c, "auth_error") \/ Decline(c, "session_invalid")
      BY <1>2, <1>3, <2>1, <2>2, DeclineType
    <2>3. CASE registered' = registered /\ SignIn(c, u)
      BY <2>1, <2>3, SignInType DEF TypeOK, object
    <2>4. QED
      BY <1>7, <2>2, <2>3 DEF HandleResume
  <1>8. ASSUME NEW p \in OtherPackets, HandleStranger(c, p)
        PROVE  TypeOK'
    BY <1>2, <1>3, <1>8, TakeType, DeclineType DEF HandleStranger
  <1>9. CASE HandleRequest(c)
    BY <1>2, <1>3, <1>9, TakeType, DeclineType DEF HandleRequest
  <1>10. CASE HandleLogout(c)
    <2>1. sessions' \in [Users -> Nat]
      BY <1>10, InvalidateType DEF TypeOK, HandleLogout
    <2>2. calls' \in [Conns -> Seq(Calls)]
      BY <1>2, <1>10, PostType, BroadcastType DEF TypeOK, HandleLogout
    <2>3. told' \in [Conns -> [token : Nat, list : SUBSET Users]]
      BY <1>10, TellType DEF TypeOK, HandleLogout
    <2>4. inbox' \in Seq(Events)
      BY <1>10, TakeType DEF HandleLogout
    <2>5. QED
      BY <1>10, <2>1, <2>2, <2>3, <2>4, UnregisterType DEF TypeOK, HandleLogout, object
  <1>11. CASE ConnectionClosed(c)
    <2>1. calls' \in [Conns -> Seq(Calls)]
      BY <1>2, <1>11, PostType, BroadcastType DEF TypeOK, ConnectionClosed
    <2>2. told' \in [Conns -> [token : Nat, list : SUBSET Users]]
      BY <1>11, TellType DEF TypeOK, ConnectionClosed
    <2>3. inbox' \in Seq(Events)
      BY <1>11, TakeType DEF ConnectionClosed
    <2>4. QED
      BY <1>11, <2>1, <2>2, <2>3, UnregisterType
      DEF TypeOK, ConnectionClosed, object, storage
  <1>12. QED
    BY <1>1, <1>4, <1>5, <1>6, <1>7, <1>8, <1>9, <1>10, <1>11

\* Every variable keeps its type: the maps stay total, the queues hold events and
\* calls, the objects move through the phases of a Connection's life.
THEOREM TypeCorrect == Spec => []TypeOK
  <1>1. Init => TypeOK
    BY DEF Init, TypeOK, NothingTold
  <1>2. TypeOK /\ [Next]_vars => TypeOK'
    <2> SUFFICES ASSUME TypeOK, [Next]_vars PROVE TypeOK'
      OBVIOUS
    <2>1. CASE ServerStep
      BY <2>1, ServerType
    <2>2. ASSUME NEW c \in Conns, WorkerStep(c) PROVE TypeOK'
      BY <2>2, WorkerType
    <2>3. ASSUME NEW c \in Conns,
                 PeerStep(c) \/ SocketDisconnected(c) \/ HeartbeatTimeout(c)
          PROVE  TypeOK'
      BY <2>3, PeerType
    <2>4. ASSUME NEW u \in Users, ExpireSession(u) PROVE TypeOK'
      BY <2>4 DEF TypeOK, ExpireSession, registry, object
    <2>5. CASE Restart
      <3>1. /\ inbox' \in Seq(Events)
            /\ calls' \in [Conns -> Seq(Calls)]
            /\ told' \in [Conns -> [token : Nat, list : SUBSET Users]]
        BY <2>5 DEF Restart, NothingTold
      <3>2. QED
        BY <2>5, <3>1 DEF TypeOK, Restart, storage
    <2>6. CASE UNCHANGED vars
      BY <2>6 DEF TypeOK, vars, registry, storage, object
    <2>7. QED
      BY <2>1, <2>2, <2>3, <2>4, <2>5, <2>6 DEF Next
  <1>3. QED
    BY <1>1, <1>2, PTL DEF Spec


-----------------------------------------------------------------------------
(* The registry. *)

\* The registry once u is signed in on c and c's earlier user is signed out.
SignedIn(c, u) ==
    /\ Directory!SignIn(u, c)
    /\ connectionUsers' = [connectionUsers EXCEPT ![c] = u]

\* The registry once c has no user.
SignedOut(c) ==
    /\ Directory!SignOut(c)
    /\ connectionUsers' = [connectionUsers EXCEPT ![c] = NoUser]

\* The second "already logged in" check, in attachAuthenticatedSession, never
\* fails: canStartAuthenticatedSession has just passed and, while the maps are
\* inverse, signing out c's earlier user frees nothing but his own name.
LEMMA AttachSucceeds ==
    ASSUME TypeOK, RegistryBijection, NEW c \in Conns, NEW u \in Users,
           CanStart(c, u), SignIn(c, u)
    PROVE  /\ SignedIn(c, u)
           /\ calls' = Post(BroadcastUsers(Post(calls, c, "auth_ok"), onlineUsers'),
                            c, "dialogs")
           /\ told' = TellUsers([told EXCEPT ![c].token = lastToken + 1], onlineUsers')
           /\ sessions' \in IF connectionUsers[c] \in {NoUser, u} THEN {Issue(u)}
                            ELSE Invalidate(Issue(u), connectionUsers[c])
  <1> DEFINE old == connectionUsers[c]
             switching == old \notin {NoUser, u}
             online == SwitchedOff(c, u)
             owner == IF switching THEN [connectionUsers EXCEPT ![c] = NoUser]
                      ELSE connectionUsers
             rows == IF switching THEN Invalidate(Issue(u), old) ELSE {Issue(u)}
  <1>1. NoConn \notin Conns /\ NoUser \notin Users
    BY SessionsAssumption
  <1>2. onlineUsers[u] \in {NoConn, c}
    BY DEF CanStart, RegistryBijection
  <1>3. old \in Users \cup {NoUser}
    BY DEF TypeOK
  <1>4. online[u] \in {NoConn, c}
    BY <1>2, <1>3 DEF TypeOK, SwitchedOff
  <1>5. /\ onlineUsers' = [online EXCEPT ![u] = c]
        /\ connectionUsers' = [owner EXCEPT ![c] = u]
        /\ sessions' \in rows
        /\ calls' = Post(BroadcastUsers(Post(calls, c, "auth_ok"), onlineUsers'),
                         c, "dialogs")
        /\ told' = TellUsers([told EXCEPT ![c].token = lastToken + 1], onlineUsers')
    BY <1>4 DEF SignIn
  <1>6. \A v \in Users : onlineUsers[v] = c <=> old = v
    BY DEF RegistryBijection
  <1>7. onlineUsers' = [v \in Users |-> IF v = u THEN c
                                        ELSE IF onlineUsers[v] = c THEN NoConn
                                        ELSE onlineUsers[v]]
    <2>1. /\ online \in [Users -> Conns \cup {NoConn}]
          /\ \A v \in Users \ {u} :
               online[v] = IF onlineUsers[v] = c THEN NoConn ELSE onlineUsers[v]
      BY <1>1, <1>3, <1>6 DEF TypeOK, SwitchedOff
    <2> HIDE DEF online
    <2>2. onlineUsers' = [online EXCEPT ![u] = c]
      BY <1>5
    <2> QED BY <2>1, <2>2
  <1>8. connectionUsers' = [connectionUsers EXCEPT ![c] = u]
    BY <1>5 DEF TypeOK
  <1>9. QED
    BY <1>2, <1>5, <1>7, <1>8 DEF SignedIn, Directory!SignIn

\* unregisterConnection signs out exactly the user of that connection.
LEMMA UnregisterSignsOut ==
    ASSUME TypeOK, RegistryBijection, NEW c \in Conns, Unregister(c)
    PROVE  SignedOut(c)
  <1>1. NoConn \notin Conns /\ NoUser \notin Users
    BY SessionsAssumption
  <1>2. \A v \in Users : onlineUsers[v] = c <=> connectionUsers[c] = v
    BY DEF RegistryBijection
  <1>3. connectionUsers[c] \in Users \cup {NoUser}
    BY DEF TypeOK
  <1>4. onlineUsers' = [v \in Users |-> IF onlineUsers[v] = c THEN NoConn
                                        ELSE onlineUsers[v]]
    <2>1. onlineUsers \in [Users -> Conns \cup {NoConn}]
      BY DEF TypeOK
    <2>2. onlineUsers' = IF connectionUsers[c] = NoUser THEN onlineUsers
                         ELSE [onlineUsers EXCEPT ![connectionUsers[c]] = NoConn]
      BY DEF Unregister
    <2> QED BY <1>1, <1>2, <1>3, <2>1, <2>2
  <1>5. QED
    BY <1>4 DEF SignedOut, Directory!SignOut, Unregister

\* The registry, the sessions and what clients were told stand as they are, but
\* for a session that expires and an object that is deleted.
Untouched ==
    /\ UNCHANGED registry
    /\ \A u \in Users : sessions'[u] \in {0, sessions[u]}
    /\ UNCHANGED told \/ \E c \in Conns : RunDelete(c)

\* What any step of the server does to the registry.
LEMMA RegistryStep ==
    ASSUME TypeOK, [Next]_vars
    PROVE  \/ \E c \in Conns, u \in Users : CanStart(c, u) /\ SignIn(c, u)
           \/ \E c \in Conns : HandleLogout(c) \/ ConnectionClosed(c)
           \/ Restart
           \/ Untouched
  <1>1. CASE ServerStep
    <2>1. PICK c \in Conns :
            \/ ConnectionReady(c)
            \/ \E u \in Users, good \in BOOLEAN : HandleRegister(c, u, good)
            \/ \E u \in Users, good \in BOOLEAN : HandleLogin(c, u, good)
            \/ \E u \in Users, t \in Tokens : HandleResume(c, u, t)
            \/ \E p \in OtherPackets : HandleStranger(c, p)
            \/ HandleLogout(c)
            \/ HandleRequest(c)
            \/ ConnectionClosed(c)
      BY <1>1 DEF ServerStep
    <2>2. CASE ConnectionReady(c)
      BY <2>2 DEF ConnectionReady, storage, Untouched
    <2>3. ASSUME NEW u \in Users, NEW good \in BOOLEAN, HandleRegister(c, u, good)
          PROVE  (CanStart(c, u) /\ SignIn(c, u)) \/ Untouched
      BY <2>3 DEF HandleRegister, Decline, Reply, storage, Untouched
    <2>4. ASSUME NEW u \in Users, NEW good \in BOOLEAN, HandleLogin(c, u, good)
          PROVE  (CanStart(c, u) /\ SignIn(c, u)) \/ Untouched
      BY <2>4 DEF HandleLogin, Decline, Reply, storage, Untouched
    <2>5. ASSUME NEW u \in Users, NEW t \in Tokens, HandleResume(c, u, t)
          PROVE  (CanStart(c, u) /\ SignIn(c, u)) \/ Untouched
      BY <2>5 DEF HandleResume, Decline, Reply, storage, Untouched
    <2>6. CASE HandleRequest(c) \/ \E p \in OtherPackets : HandleStranger(c, p)
      BY <2>6 DEF HandleRequest, HandleStranger, Decline, Reply, storage, Untouched
    <2>7. QED
      BY <2>1, <2>2, <2>3, <2>4, <2>5, <2>6
  <1>2. ASSUME NEW c \in Conns, WorkerStep(c) PROVE Untouched
    BY <1>2 DEF WorkerStep, AttachSocket, StartConnection, RunSend, RunClose, RunDelete,
                storage, Untouched
  <1>3. ASSUME NEW c \in Conns,
               PeerStep(c) \/ SocketDisconnected(c) \/ HeartbeatTimeout(c)
        PROVE  Untouched
    BY <1>3 DEF PeerStep, Accept, PeerLeaves, ReceiveInvalidPacket, ReceivePacket,
                SocketDisconnected, HeartbeatTimeout, storage, Untouched
  <1>4. ASSUME NEW u \in Users, ExpireSession(u) PROVE Untouched
    BY <1>4 DEF TypeOK, ExpireSession, Untouched
  <1>5. CASE UNCHANGED vars
    BY <1>5 DEF vars, storage, Untouched
  <1>6. QED
    BY <1>1, <1>2, <1>3, <1>4, <1>5 DEF Next

\* A step of the registry is a step of the directory, or none, and it keeps the
\* two maps inverse.
LEMMA BijectionStep ==
    ASSUME TypeOK, RegistryBijection, [Next]_vars
    PROVE  RegistryBijection' /\ [Directory!Next]_onlineUsers
  <1>1. NoConn \notin Conns /\ NoUser \notin Users
    BY SessionsAssumption
  <1>2. ASSUME NEW c \in Conns, NEW u \in Users, SignedIn(c, u)
        PROVE  RegistryBijection' /\ Directory!Next
    <2>1. \A v \in Users, d \in Conns : onlineUsers'[v] = d <=> connectionUsers'[d] = v
      BY <1>1, <1>2 DEF TypeOK, RegistryBijection, SignedIn, Directory!SignIn
    <2>2. QED
      BY <1>2, <2>1 DEF RegistryBijection, SignedIn, Directory!Next
  <1>3. ASSUME NEW c \in Conns, SignedOut(c)
        PROVE  RegistryBijection' /\ Directory!Next
    <2>1. \A v \in Users, d \in Conns : onlineUsers'[v] = d <=> connectionUsers'[d] = v
      BY <1>1, <1>3 DEF TypeOK, RegistryBijection, SignedOut, Directory!SignOut
    <2>2. QED
      BY <1>3, <2>1 DEF RegistryBijection, SignedOut, Directory!Next
  <1>4. ASSUME NEW c \in Conns, HandleLogout(c) \/ ConnectionClosed(c)
        PROVE  RegistryBijection' /\ Directory!Next
    BY <1>3, <1>4, UnregisterSignsOut DEF HandleLogout, ConnectionClosed
  <1>5. CASE Restart
    BY <1>1, <1>5 DEF Restart, RegistryBijection, Directory!Next, Directory!Reset
  <1>6. CASE Untouched
    BY <1>6 DEF RegistryBijection, registry, Untouched
  <1>7. QED
    BY <1>2, <1>4, <1>5, <1>6, RegistryStep, AttachSucceeds

\* The names of users and the connections they are signed in on stay in one-to-one
\* correspondence in the two hash maps of the server.
THEOREM RegistryCorrect == Spec => []RegistryBijection
  <1>1. Init => RegistryBijection
    BY SessionsAssumption DEF Init, RegistryBijection
  <1>2. TypeOK /\ RegistryBijection /\ [Next]_vars => RegistryBijection'
    BY BijectionStep
  <1>3. QED
    BY <1>1, <1>2, TypeCorrect, PTL DEF Spec

\* The server implements the directory: no interleaving of its threads lets a
\* connection take a name that another one holds.
THEOREM DirectoryImplemented == Spec => ImplementsDirectory
  <1>1. Init => Directory!Init
    BY DEF Init, Directory!Init
  <1>2. TypeOK /\ RegistryBijection /\ [Next]_vars => [Directory!Next]_onlineUsers
    BY BijectionStep
  <1>3. QED
    BY <1>1, <1>2, TypeCorrect, RegistryCorrect, PTL
    DEF Spec, ImplementsDirectory, Directory!Spec


-----------------------------------------------------------------------------
(* The life of a connection object, and the events that name it. *)

\* What the main thread's queue holds after an event was posted to it.
LEMMA Appended ==
    ASSUME TypeOK, NEW e \in Events, inbox' = Append(inbox, e)
    PROVE  \A i \in DOMAIN inbox' :
             \/ i \in DOMAIN inbox /\ inbox'[i] = inbox[i] /\ i < Len(inbox) + 1
             \/ i = Len(inbox) + 1 /\ inbox'[i] = e
  BY DEF TypeOK

\* What it holds after its first event was taken.
LEMMA Taken ==
    ASSUME TypeOK, NEW e, Take(e)
    PROVE  /\ 1 \in DOMAIN inbox /\ inbox[1] = e
           /\ \A i \in DOMAIN inbox' : /\ i + 1 \in DOMAIN inbox
                                       /\ 1 < i + 1
                                       /\ inbox'[i] = inbox[i + 1]
           /\ \A i, j \in DOMAIN inbox' : i < j => i + 1 < j + 1
  BY DEF TypeOK, Take

\* Only a posted deleteLater dooms a connection.
LEMMA PostDoom ==
    ASSUME NEW q \in [Conns -> Seq(Calls)], NEW c \in Conns, NEW x \in Calls,
           NEW d \in Conns, DoomedIn(Post(q, c, x), d)
    PROVE  DoomedIn(q, d) \/ (d = c /\ x = "deleteLater")
  BY DEF DoomedIn, Post

\* The list of users dooms nobody.
LEMMA BroadcastDoom ==
    ASSUME NEW q \in [Conns -> Seq(Calls)], NEW online, NEW d \in Conns,
           DoomedIn(BroadcastUsers(q, online), d)
    PROVE  DoomedIn(q, d)
  <1>1. PICK i \in DOMAIN BroadcastUsers(q, online)[d] :
          BroadcastUsers(q, online)[d][i] = "deleteLater"
    BY DEF DoomedIn
  <1>2. CASE BroadcastUsers(q, online)[d] = q[d]
    BY <1>1, <1>2 DEF DoomedIn
  <1>3. CASE BroadcastUsers(q, online)[d] = Append(q[d], "users")
    <2>1. q[d] \in Seq(Calls)
      OBVIOUS
    <2>2. i \in DOMAIN q[d] /\ q[d][i] = "deleteLater"
      BY <1>1, <1>3, <2>1
    <2>3. QED
      BY <2>2 DEF DoomedIn
  <1>4. QED
    BY <1>2, <1>3 DEF BroadcastUsers

\* A call that was run, or a queue that was dropped, dooms nobody.
LEMMA TailDoom ==
    ASSUME TypeOK, NEW c \in Conns, calls[c] # <<>>, NEW d \in Conns,
           calls' \in {[calls EXCEPT ![c] = Tail(@)], [calls EXCEPT ![c] = <<>>]},
           DoomedIn(calls', d)
    PROVE  DoomedIn(calls, d)
  <1>1. calls[d] \in Seq(Calls)
    BY DEF TypeOK
  <1>2. PICK i \in DOMAIN calls'[d] : calls'[d][i] = "deleteLater"
    BY DEF DoomedIn
  <1>3. calls'[d] \in {calls[d], Tail(calls[d]), <<>>} /\ (calls'[d] # calls[d] => d = c)
    BY DEF TypeOK
  <1>4. CASE calls'[d] = calls[d]
    BY <1>2, <1>4 DEF DoomedIn
  <1>5. CASE d = c /\ calls'[d] = Tail(calls[d])
    <2>1. i + 1 \in DOMAIN calls[d] /\ calls[d][i + 1] = "deleteLater"
      BY <1>1, <1>2, <1>5
    <2>2. QED
      BY <2>1 DEF DoomedIn
  <1>6. CASE calls'[d] = <<>>
    BY <1>2, <1>6
  <1>7. QED
    BY <1>3, <1>4, <1>5, <1>6

-----------------------------------------------------------------------------
(* Every step keeps Lifecycle. *)

\* A connection that runs and has not notified its end posts an event, its last
\* one if it notifies the end with it.
LEMMA CloseKeepsLife ==
    ASSUME TypeOK, Lifecycle, NEW c \in Conns, phase[c] = "started",
           NotifyClosedOnce(c), sock' \in {[sock EXCEPT ![c] = "unconnected"],
                                           [sock EXCEPT ![c] = "released"]},
           UNCHANGED <<connectionUsers, phase>>,
           \A d \in Conns : DoomedIn(calls', d) => DoomedIn(calls, d)
    PROVE  Lifecycle'
  <1>1. sock'[c] \in {"unconnected", "released"} /\ \A d \in Conns \ {c} : sock'[d] = sock[d]
    BY DEF TypeOK
  <1>2. \A d \in Conns : closedNotified'[d] <=> closedNotified[d] \/ d = c
    BY DEF TypeOK, NotifyClosedOnce
  <1>0. \A i \in DOMAIN inbox : inbox[i].conn \in Conns
    BY DEF TypeOK, Events
  <1>3. CASE closedNotified[c]
    <2>1. inbox' = inbox
      BY <1>3 DEF NotifyClosedOnce
    <2>2. QED
      BY <1>1, <1>2, <1>3, <1>0, <2>1
      DEF Lifecycle, RunningOnly, LastWord, EndIsQuiet, DoomedIsForgotten
  <1>4. CASE ~closedNotified[c]
    <2>1. inbox' = Append(inbox, ClosedEvent(c))
      BY <1>4 DEF NotifyClosedOnce
    <2>2. \A i \in DOMAIN inbox' :
             \/ i \in DOMAIN inbox /\ inbox'[i] = inbox[i] /\ i < Len(inbox) + 1
             \/ i = Len(inbox) + 1 /\ inbox'[i] = ClosedEvent(c)
      BY <2>1, Appended, EventType
    <2>3. ClosedEvent(c).conn = c /\ ClosedEvent(c).kind = "closed"
      BY DEF ClosedEvent
    <2>4. \A i \in DOMAIN inbox : inbox[i].kind \in {"ready", "closed"} => inbox[i].conn # c
      BY <1>4 DEF Lifecycle, RunningOnly, EndIsQuiet
    <2>5. \A i \in DOMAIN inbox : inbox[i].kind \in {"ready", "closed", "packet"}
      BY DEF TypeOK, Events
    <2>6. RunningOnly'
      BY <2>2, <2>3 DEF Lifecycle, RunningOnly
    <2>7. LastWord'
      BY <2>2, <2>3, <2>4, <2>5 DEF Lifecycle, LastWord
    <2>8. EndIsQuiet'
      BY <1>1, <1>2, <1>0, <2>2, <2>3 DEF Lifecycle, EndIsQuiet
    <2>9. DoomedIsForgotten'
      BY <1>2, <1>4, <2>2, <2>3 DEF Lifecycle, DoomedIsForgotten
    <2>10. QED
      BY <2>6, <2>7, <2>8, <2>9 DEF Lifecycle
  <1>5. QED
    BY <1>3, <1>4


\* The connections' own callbacks.
LEMMA WorkerKeepsLife ==
    ASSUME TypeOK, Lifecycle, NEW c \in Conns, WorkerStep(c)
    PROVE  Lifecycle'
  <1>0. \A i \in DOMAIN inbox : inbox[i].conn \in Conns
    BY DEF TypeOK, Events
  <1>1. CASE AttachSocket(c)
    <2>1. inbox' = Append(inbox, ReadyEvent(c)) /\ phase' = [phase EXCEPT ![c] = "announced"]
          /\ UNCHANGED <<connectionUsers, calls, sock, closedNotified>>
      BY <1>1 DEF AttachSocket, registry
    <2>2. \A i \in DOMAIN inbox' :
             \/ i \in DOMAIN inbox /\ inbox'[i] = inbox[i] /\ i < Len(inbox) + 1
             \/ i = Len(inbox) + 1 /\ inbox'[i] = ReadyEvent(c)
      BY <2>1, Appended, EventType
    <2>3. ReadyEvent(c).conn = c /\ ReadyEvent(c).kind = "ready"
      BY DEF ReadyEvent
    <2>4. \A i \in DOMAIN inbox : inbox[i].conn # c
      BY <1>1 DEF Lifecycle, RunningOnly, AttachSocket
    <2>5. ~closedNotified[c] /\ connectionUsers[c] = NoUser
      BY <1>1 DEF Lifecycle, RunningOnly, EndIsQuiet, AttachSocket
    <2>6. \A d \in Conns \ {c} : phase'[d] = phase[d]
      BY <2>1 DEF TypeOK
    <2>7. phase'[c] = "announced"
      BY <2>1 DEF TypeOK
    <2>8. RunningOnly'
      BY <1>0, <2>1, <2>2, <2>3, <2>4, <2>5, <2>6, <2>7 DEF Lifecycle, RunningOnly
    <2>9. LastWord'
      BY <2>2, <2>3, <2>4 DEF Lifecycle, LastWord
    <2>10. EndIsQuiet'
      BY <1>0, <2>1, <2>2, <2>3, <2>5, <2>6 DEF Lifecycle, EndIsQuiet
    <2>11. DoomedIsForgotten'
      BY <2>1, <2>2, <2>3, <2>5 DEF Lifecycle, DoomedIsForgotten
    <2>12. QED
      BY <2>8, <2>9, <2>10, <2>11 DEF Lifecycle
  <1>2. CASE StartConnection(c)
    <2>1. \A i \in DOMAIN inbox : inbox[i].conn # c
      BY <1>2 DEF Lifecycle, RunningOnly, StartConnection
    <2>2. ~closedNotified[c]
      BY <1>2 DEF Lifecycle, EndIsQuiet, StartConnection
    <2>3. phase'[c] = "started" /\ \A d \in Conns \ {c} : phase'[d] = phase[d]
      BY <1>2 DEF TypeOK, StartConnection
    <2>4. UNCHANGED <<connectionUsers, inbox, calls, sock, closedNotified>>
      BY <1>2 DEF StartConnection, registry
    <2>5. QED
      BY <1>0, <2>1, <2>2, <2>3, <2>4
      DEF Lifecycle, RunningOnly, LastWord, EndIsQuiet, DoomedIsForgotten
  <1>3. CASE RunSend(c)
    <2>1. \A d \in Conns : DoomedIn(calls', d) => DoomedIn(calls, d)
      BY <1>3, TailDoom DEF RunSend
    <2>2. UNCHANGED <<connectionUsers, inbox, phase, sock, closedNotified>>
      BY <1>3 DEF RunSend, registry, object
    <2>3. QED
      BY <2>1, <2>2
      DEF Lifecycle, RunningOnly, LastWord, EndIsQuiet, DoomedIsForgotten
  <1>4. CASE RunClose(c)
    <2>1. \A d \in Conns : DoomedIn(calls', d) => DoomedIn(calls, d)
      BY <1>4, TailDoom DEF RunClose
    <2>2. QED
      BY <1>4, <2>1, CloseKeepsLife DEF RunClose, CloseAndNotify, registry
  <1>5. CASE RunDelete(c)
    <2>1. \A d \in Conns : DoomedIn(calls', d) => DoomedIn(calls, d)
      BY <1>5, TailDoom DEF RunDelete
    <2>2. DoomedIn(calls, c)
      BY <1>5 DEF TypeOK, RunDelete, DoomedIn
    <2>3. connectionUsers[c] = NoUser /\ \A i \in DOMAIN inbox : inbox[i].conn # c
      BY <2>2 DEF Lifecycle, DoomedIsForgotten
    <2>4. /\ phase'[c] = "deleted"
          /\ \A d \in Conns \ {c} : phase'[d] = phase[d] /\ sock'[d] = sock[d]
          /\ UNCHANGED <<connectionUsers, inbox, closedNotified>>
      BY <1>5 DEF TypeOK, RunDelete, registry
    <2>5. QED
      BY <1>0, <2>1, <2>3, <2>4
      DEF Lifecycle, RunningOnly, LastWord, EndIsQuiet, DoomedIsForgotten
  <1>6. QED
    BY <1>1, <1>2, <1>3, <1>4, <1>5 DEF WorkerStep

\* What comes from the socket and the timers.
LEMMA PeerKeepsLife ==
    ASSUME TypeOK, Lifecycle, NEW c \in Conns,
           PeerStep(c) \/ SocketDisconnected(c) \/ HeartbeatTimeout(c)
    PROVE  Lifecycle'
  <1>0. \A i \in DOMAIN inbox : inbox[i].conn \in Conns
    BY DEF TypeOK, Events
  <1>1. CASE Accept(c)
    <2>1. \A i \in DOMAIN inbox : inbox[i].conn # c
      BY <1>1 DEF Lifecycle, RunningOnly, Accept
    <2>2. ~closedNotified[c] /\ connectionUsers[c] = NoUser
      BY <1>1 DEF Lifecycle, RunningOnly, EndIsQuiet, Accept
    <2>3. /\ \A d \in Conns \ {c} : phase'[d] = phase[d] /\ sock'[d] = sock[d]
          /\ UNCHANGED <<connectionUsers, inbox, calls, closedNotified>>
      BY <1>1 DEF TypeOK, Accept, registry
    <2>4. QED
      BY <1>0, <2>1, <2>2, <2>3
      DEF Lifecycle, RunningOnly, LastWord, EndIsQuiet, DoomedIsForgotten
  <1>2. CASE PeerLeaves(c)
    <2>1. ~closedNotified[c] \/ phase[c] = "deleted"
      BY <1>2 DEF Lifecycle, EndIsQuiet, PeerLeaves
    <2>2. /\ \A d \in Conns \ {c} : sock'[d] = sock[d]
          /\ UNCHANGED <<connectionUsers, inbox, calls, phase, closedNotified>>
      BY <1>2 DEF TypeOK, PeerLeaves, registry
    <2>3. QED
      BY <2>1, <2>2
      DEF Lifecycle, RunningOnly, LastWord, EndIsQuiet, DoomedIsForgotten
  <1>3. CASE ReceiveInvalidPacket(c)
    BY <1>3, CloseKeepsLife DEF ReceiveInvalidPacket, CloseAndNotify, registry
  <1>4. ASSUME NEW p \in Packets, ReceivePacket(c, p)
        PROVE  Lifecycle'
    <2>1. /\ inbox' = Append(inbox, PacketEvent(c, p))
          /\ UNCHANGED <<connectionUsers, calls, phase, sock, closedNotified>>
      BY <1>4 DEF ReceivePacket, registry, object
    <2>2. \A i \in DOMAIN inbox' :
             \/ i \in DOMAIN inbox /\ inbox'[i] = inbox[i] /\ i < Len(inbox) + 1
             \/ i = Len(inbox) + 1 /\ inbox'[i] = PacketEvent(c, p)
      BY <2>1, Appended, EventType
    <2>3. PacketEvent(c, p).conn = c /\ PacketEvent(c, p).kind = "packet"
      BY DEF PacketEvent
    <2>4. ~closedNotified[c] /\ phase[c] = "started"
      BY <1>4 DEF Lifecycle, EndIsQuiet, ReceivePacket
    <2>5. \A i \in DOMAIN inbox : inbox[i].kind # "packet" => inbox[i].conn # c
      <3>1. \A i \in DOMAIN inbox : inbox[i].kind \in {"ready", "closed", "packet"}
        BY DEF TypeOK, Events
      <3>2. QED
        BY <2>4, <3>1 DEF Lifecycle, RunningOnly, EndIsQuiet
    <2>6. RunningOnly'
      BY <2>1, <2>2, <2>3, <2>4 DEF Lifecycle, RunningOnly
    <2>7. LastWord'
      BY <2>2, <2>3, <2>5 DEF TypeOK, Lifecycle, LastWord
    <2>8. EndIsQuiet'
      BY <2>1, <2>2, <2>3 DEF Lifecycle, EndIsQuiet
    <2>9. DoomedIsForgotten'
      BY <2>1, <2>2, <2>3, <2>4 DEF Lifecycle, DoomedIsForgotten
    <2>10. QED
      BY <2>6, <2>7, <2>8, <2>9 DEF Lifecycle
  <1>5. CASE SocketDisconnected(c)
    BY <1>5, CloseKeepsLife DEF SocketDisconnected, registry
  <1>6. CASE HeartbeatTimeout(c)
    BY <1>6, CloseKeepsLife DEF HeartbeatTimeout, CloseAndNotify, registry
  <1>7. QED
    BY <1>1, <1>2, <1>3, <1>4, <1>5, <1>6 DEF PeerStep


\* A handler of a packet gives nobody but the packet's connection a user, and has
\* nothing deleted.
LEMMA HandlerKeepsLife ==
    ASSUME TypeOK, Lifecycle, NEW c \in Conns, NEW p,
           Take(PacketEvent(c, p)), UNCHANGED object,
           \A d \in Conns : connectionUsers'[d] # NoUser =>
               d = c \/ connectionUsers[d] # NoUser,
           \A d \in Conns : DoomedIn(calls', d) => DoomedIn(calls, d)
    PROVE  Lifecycle'
  <1>1. PacketEvent(c, p).conn = c /\ PacketEvent(c, p).kind = "packet"
    BY DEF PacketEvent
  <1>2. /\ 1 \in DOMAIN inbox /\ inbox[1].conn = c /\ inbox[1].kind = "packet"
        /\ \A i \in DOMAIN inbox' : i + 1 \in DOMAIN inbox /\ inbox'[i] = inbox[i + 1]
        /\ \A i, j \in DOMAIN inbox' : i < j => i + 1 < j + 1
    BY <1>1, Taken
  <1>3. phase[c] = "started" /\ ~DoomedIn(calls, c)
    BY <1>2 DEF Lifecycle, RunningOnly, DoomedIsForgotten
  <1>4. UNCHANGED <<phase, sock, closedNotified>>
    BY DEF object
  <1>5. RunningOnly'
    BY <1>2, <1>3, <1>4 DEF Lifecycle, RunningOnly
  <1>6. LastWord'
    BY <1>2 DEF Lifecycle, LastWord
  <1>7. EndIsQuiet'
    BY <1>2, <1>4 DEF Lifecycle, EndIsQuiet
  <1>8. DoomedIsForgotten'
    BY <1>2, <1>3, <1>4 DEF Lifecycle, DoomedIsForgotten
  <1>9. QED
    BY <1>5, <1>6, <1>7, <1>8 DEF Lifecycle

\* A sign-in is such a handler's work.
LEMMA SignInKeepsLife ==
    ASSUME TypeOK, RegistryBijection, NEW c \in Conns, NEW u \in Users,
           CanStart(c, u), SignIn(c, u)
    PROVE  /\ \A d \in Conns : connectionUsers'[d] # NoUser =>
                 d = c \/ connectionUsers[d] # NoUser
           /\ \A d \in Conns : DoomedIn(calls', d) => DoomedIn(calls, d)
  <1>1. /\ connectionUsers' = [connectionUsers EXCEPT ![c] = u]
        /\ calls' = Post(BroadcastUsers(Post(calls, c, "auth_ok"), onlineUsers'),
                         c, "dialogs")
    BY AttachSucceeds DEF SignedIn
  <1>2. {"auth_ok", "dialogs"} \subseteq Calls
    BY DEF Calls, SendKinds
  <1>3. /\ Post(calls, c, "auth_ok") \in [Conns -> Seq(Calls)]
        /\ BroadcastUsers(Post(calls, c, "auth_ok"), onlineUsers') \in [Conns -> Seq(Calls)]
    BY <1>2, PostType, BroadcastType DEF TypeOK
  <1>4. \A d \in Conns : DoomedIn(calls', d) => DoomedIn(calls, d)
    <2> SUFFICES ASSUME NEW d \in Conns, DoomedIn(calls', d) PROVE DoomedIn(calls, d)
      OBVIOUS
    <2>1. DoomedIn(BroadcastUsers(Post(calls, c, "auth_ok"), onlineUsers'), d)
      BY <1>1, <1>2, <1>3, PostDoom
    <2>2. DoomedIn(Post(calls, c, "auth_ok"), d)
      BY <1>3, <2>1, BroadcastDoom
    <2>3. QED
      BY <1>2, <2>2, PostDoom DEF TypeOK
  <1>5. QED
    BY <1>1, <1>4 DEF TypeOK

\* So are a reply and a refusal.
LEMMA ReplyKeepsLife ==
    ASSUME TypeOK, NEW c \in Conns, NEW x \in SendKinds, Reply(c, x)
    PROVE  \A d \in Conns : DoomedIn(calls', d) => DoomedIn(calls, d)
  <1>1. x \in Calls /\ x # "deleteLater"
    BY DEF Calls, SendKinds
  <1>2. QED
    BY <1>1, PostDoom DEF TypeOK, Reply

\* The main thread's handlers.
LEMMA ServerKeepsLife ==
    ASSUME TypeOK, RegistryBijection, Lifecycle, ServerStep
    PROVE  Lifecycle'
  <1>1. PICK c \in Conns :
          \/ ConnectionReady(c)
          \/ \E u \in Users, good \in BOOLEAN : HandleRegister(c, u, good)
          \/ \E u \in Users, good \in BOOLEAN : HandleLogin(c, u, good)
          \/ \E u \in Users, t \in Tokens : HandleResume(c, u, t)
          \/ \E p \in OtherPackets : HandleStranger(c, p)
          \/ HandleLogout(c)
          \/ HandleRequest(c)
          \/ ConnectionClosed(c)
    BY DEF ServerStep
  <1>2. {"auth_error", "session_invalid", "answer"} \subseteq SendKinds
    BY DEF SendKinds
  <1>3. ASSUME NEW p, Take(PacketEvent(c, p)), UNCHANGED object,
               NEW x \in SendKinds, Reply(c, x), UNCHANGED connectionUsers
        PROVE  Lifecycle'
    BY <1>3, ReplyKeepsLife, HandlerKeepsLife
  <1>4. ASSUME NEW p, Take(PacketEvent(c, p)), UNCHANGED object,
               NEW u \in Users, CanStart(c, u), SignIn(c, u)
        PROVE  Lifecycle'
    BY <1>4, SignInKeepsLife, HandlerKeepsLife
  <1>5. ASSUME NEW u \in Users, NEW good \in BOOLEAN, HandleRegister(c, u, good)
        PROVE  Lifecycle'
    BY <1>2, <1>3, <1>4, <1>5 DEF HandleRegister, Decline, registry
  <1>6. ASSUME NEW u \in Users, NEW good \in BOOLEAN, HandleLogin(c, u, good)
        PROVE  Lifecycle'
    BY <1>2, <1>3, <1>4, <1>6 DEF HandleLogin, Decline, registry
  <1>7. ASSUME NEW u \in Users, NEW t \in Tokens, HandleResume(c, u, t)
        PROVE  Lifecycle'
    BY <1>2, <1>3, <1>4, <1>7 DEF HandleResume, Decline, registry
  <1>8. ASSUME NEW p \in OtherPackets, HandleStranger(c, p)
        PROVE  Lifecycle'
    BY <1>2, <1>3, <1>8 DEF HandleStranger, Decline, registry
  <1>9. CASE HandleRequest(c)
    BY <1>2, <1>3, <1>9 DEF HandleRequest, Decline, registry
  <1>10. CASE HandleLogout(c)
    <2>1. \A d \in Conns : DoomedIn(calls', d) => DoomedIn(calls, d)
      <3>1. BroadcastUsers(calls, onlineUsers') \in [Conns -> Seq(Calls)]
        BY BroadcastType DEF TypeOK
      <3>2. "closeAndNotify" \in Calls
        BY DEF Calls
      <3>3. QED
        BY <1>10, <3>1, <3>2, PostDoom, BroadcastDoom DEF TypeOK, HandleLogout
    <2>2. \A d \in Conns : connectionUsers'[d] # NoUser => connectionUsers[d] # NoUser
      BY <1>10 DEF TypeOK, HandleLogout, Unregister
    <2>3. QED
      BY <1>10, <2>1, <2>2, HandlerKeepsLife DEF HandleLogout
  <1>11. CASE ConnectionReady(c)
    <2>1. ReadyEvent(c).conn = c /\ ReadyEvent(c).kind = "ready"
      BY DEF ReadyEvent
    <2>2. /\ 1 \in DOMAIN inbox /\ inbox[1].conn = c /\ inbox[1].kind = "ready"
          /\ \A i \in DOMAIN inbox' : /\ i + 1 \in DOMAIN inbox /\ 1 < i + 1
                                      /\ inbox'[i] = inbox[i + 1]
          /\ \A i, j \in DOMAIN inbox' : i < j => i + 1 < j + 1
      BY <1>11, <2>1, Taken DEF ConnectionReady
    <2>3. \A i \in DOMAIN inbox' : inbox'[i].conn # c
      BY <2>2 DEF Lifecycle, LastWord
    <2>4. phase[c] = "announced"
      BY <2>2 DEF Lifecycle, RunningOnly
    <2>5. /\ \A d \in Conns \ {c} : phase'[d] = phase[d]
          /\ UNCHANGED <<connectionUsers, calls, sock, closedNotified>>
      BY <1>11 DEF TypeOK, ConnectionReady, registry
    <2>6. \A i \in DOMAIN inbox : inbox[i].conn \in Conns
      BY DEF TypeOK, Events
    <2>7. RunningOnly'
      BY <2>2, <2>3, <2>4, <2>5, <2>6 DEF Lifecycle, RunningOnly
    <2>8. LastWord'
      BY <2>2 DEF Lifecycle, LastWord
    <2>9. EndIsQuiet'
      BY <2>2, <2>3, <2>4, <2>5, <2>6 DEF Lifecycle, EndIsQuiet
    <2>10. DoomedIsForgotten'
      BY <2>2, <2>5 DEF Lifecycle, DoomedIsForgotten
    <2>11. QED
      BY <2>7, <2>8, <2>9, <2>10 DEF Lifecycle
  <1>12. CASE ConnectionClosed(c)
    <2>1. ClosedEvent(c).conn = c /\ ClosedEvent(c).kind = "closed"
      BY DEF ClosedEvent
    <2>2. /\ 1 \in DOMAIN inbox /\ inbox[1].conn = c /\ inbox[1].kind = "closed"
          /\ \A i \in DOMAIN inbox' : /\ i + 1 \in DOMAIN inbox /\ 1 < i + 1
                                      /\ inbox'[i] = inbox[i + 1]
          /\ \A i, j \in DOMAIN inbox' : i < j => i + 1 < j + 1
      BY <1>12, <2>1, Taken DEF ConnectionClosed
    <2>3. \A i \in DOMAIN inbox' : inbox'[i].conn # c
      BY <2>2 DEF Lifecycle, LastWord
    <2>4. closedNotified[c]
      BY <2>2 DEF Lifecycle, EndIsQuiet
    <2>5. /\ connectionUsers'[c] = NoUser
          /\ \A d \in Conns : connectionUsers'[d] # NoUser => connectionUsers[d] # NoUser
          /\ UNCHANGED <<phase, sock, closedNotified>>
      BY <1>12 DEF TypeOK, ConnectionClosed, Unregister, object
    <2>6. \A d \in Conns : DoomedIn(calls', d) => d = c \/ DoomedIn(calls, d)
      <3>1. BroadcastUsers(calls, onlineUsers') \in [Conns -> Seq(Calls)]
        BY BroadcastType DEF TypeOK
      <3>2. "deleteLater" \in Calls
        BY DEF Calls
      <3>3. QED
        BY <1>12, <3>1, <3>2, PostDoom, BroadcastDoom DEF TypeOK, ConnectionClosed
    <2>7. RunningOnly'
      BY <2>2, <2>5 DEF Lifecycle, RunningOnly
    <2>8. LastWord'
      BY <2>2 DEF Lifecycle, LastWord
    <2>9. EndIsQuiet'
      BY <2>2, <2>5 DEF Lifecycle, EndIsQuiet
    <2>10. DoomedIsForgotten'
      BY <2>2, <2>3, <2>4, <2>5, <2>6 DEF Lifecycle, DoomedIsForgotten
    <2>11. QED
      BY <2>7, <2>8, <2>9, <2>10 DEF Lifecycle
  <1>13. QED
    BY <1>1, <1>5, <1>6, <1>7, <1>8, <1>9, <1>10, <1>11, <1>12

\* What the life of a connection object, the events that name it and the call that
\* deletes it have to do with each other, in every reachable state.
THEOREM LifecycleCorrect == Spec => []Lifecycle
  <1>1. Init => Lifecycle
    BY DEF Init, Lifecycle, RunningOnly, LastWord, EndIsQuiet, DoomedIsForgotten, DoomedIn
  <1>2. TypeOK /\ RegistryBijection /\ Lifecycle /\ [Next]_vars => Lifecycle'
    <2> SUFFICES ASSUME TypeOK, RegistryBijection, Lifecycle, [Next]_vars
                 PROVE  Lifecycle'
      OBVIOUS
    <2>1. CASE ServerStep
      BY <2>1, ServerKeepsLife
    <2>2. ASSUME NEW c \in Conns, WorkerStep(c) PROVE Lifecycle'
      BY <2>2, WorkerKeepsLife
    <2>3. ASSUME NEW c \in Conns,
                 PeerStep(c) \/ SocketDisconnected(c) \/ HeartbeatTimeout(c)
          PROVE  Lifecycle'
      BY <2>3, PeerKeepsLife
    <2>4. ASSUME NEW u \in Users, ExpireSession(u) PROVE Lifecycle'
      BY <2>4 DEF ExpireSession, registry, object, Lifecycle, RunningOnly, LastWord,
                  EndIsQuiet, DoomedIsForgotten
    <2>5. CASE Restart
      <3>1. DOMAIN inbox' = {} /\ \A d \in Conns : ~DoomedIn(calls', d)
        BY <2>5 DEF Restart, DoomedIn
      <3>2. /\ \A d \in Conns : connectionUsers'[d] = NoUser
            /\ \A d \in Conns : phase'[d] = IF phase[d] = "unused" THEN "unused"
                                            ELSE "deleted"
            /\ UNCHANGED closedNotified
        BY <2>5 DEF Restart
      <3>3. QED
        BY <3>1, <3>2
        DEF Lifecycle, RunningOnly, LastWord, EndIsQuiet, DoomedIsForgotten
    <2>6. CASE UNCHANGED vars
      BY <2>6 DEF vars, registry, object, Lifecycle, RunningOnly, LastWord, EndIsQuiet,
                  DoomedIsForgotten
    <2>7. QED
      BY <2>1, <2>2, <2>3, <2>4, <2>5, <2>6 DEF Next
  <1>3. QED
    BY <1>1, <1>2, TypeCorrect, RegistryCorrect, PTL DEF Spec

\* The main thread never keeps a pointer to a Connection that was deleted, in its
\* maps or in an event it has still to handle.
THEOREM NoDanglingConnection == Spec => []NoUseAfterFree
  <1>1. RegistryBijection /\ Lifecycle => NoUseAfterFree
    <2> SUFFICES ASSUME RegistryBijection, Lifecycle, NEW c \in Conns,
                        phase[c] = "deleted"
                 PROVE  /\ connectionUsers[c] = NoUser
                        /\ \A u \in Users : onlineUsers[u] # c
                        /\ \A i \in DOMAIN inbox : inbox[i].conn # c
      BY DEF NoUseAfterFree
    <2>1. connectionUsers[c] = NoUser /\ \A i \in DOMAIN inbox : inbox[i].conn # c
      BY DEF Lifecycle, RunningOnly
    <2>2. QED
      BY <2>1, SessionsAssumption DEF RegistryBijection
  <1>2. QED
    BY <1>1, RegistryCorrect, LifecycleCorrect, PTL


-----------------------------------------------------------------------------
(* What a signed-in client knows. *)

\* The list of users and the token sent last to every signed-in connection.
ToldTruth ==
    \A c \in Conns : connectionUsers[c] # NoUser =>
        /\ told[c].list = OnlineSet(onlineUsers)
        /\ sessions[connectionUsers[c]] \in {0, told[c].token}

\* After broadcastUsers every signed-in connection has the list of the new registry,
\* and the token it had.
LEMMA ToldAfterBroadcast ==
    ASSUME NEW t \in [Conns -> [token : Nat, list : SUBSET Users]],
           RegistryBijection', TypeOK',
           NEW c \in Conns, connectionUsers'[c] # NoUser
    PROVE  /\ TellUsers(t, onlineUsers')[c].list = OnlineSet(onlineUsers')
           /\ TellUsers(t, onlineUsers')[c].token = t[c].token
  <1>1. PICK u \in Users : connectionUsers'[c] = u
    BY DEF TypeOK
  <1>2. onlineUsers'[u] = c
    BY <1>1 DEF RegistryBijection
  <1>3. c \in Reached(onlineUsers')
    BY <1>2, SessionsAssumption DEF Reached
  <1>4. QED
    BY <1>3 DEF TellUsers

\* Every step leaves the signed-in clients with the truth.
LEMMA ToldStep ==
    ASSUME TypeOK, TypeOK', RegistryBijection, Lifecycle, ToldTruth, [Next]_vars
    PROVE  ToldTruth'
  <1>1. RegistryBijection'
    BY BijectionStep
  <1>2. \A d \in Conns : connectionUsers[d] \in Users \cup {NoUser}
    BY DEF TypeOK
  <1>3. ASSUME NEW c \in Conns, NEW u \in Users, CanStart(c, u), SignIn(c, u)
        PROVE  ToldTruth'
    <2> DEFINE t == [told EXCEPT ![c].token = lastToken + 1]
               old == connectionUsers[c]
    <2>1. /\ SignedIn(c, u)
          /\ told' = TellUsers(t, onlineUsers')
          /\ sessions' \in IF old \in {NoUser, u} THEN {Issue(u)}
                           ELSE Invalidate(Issue(u), old)
      BY <1>3, AttachSucceeds
    <2>2. t \in [Conns -> [token : Nat, list : SUBSET Users]]
      <3>1. lastToken + 1 \in Nat /\ told \in [Conns -> [token : Nat, list : SUBSET Users]]
        BY DEF TypeOK
      <3>2. QED
        BY <3>1, TokenType
    <2>3. t[c].token = lastToken + 1 /\ \A d \in Conns \ {c} : t[d].token = told[d].token
      BY DEF TypeOK
    <2>4. /\ sessions'[u] = lastToken + 1
          /\ \A v \in Users \ {u} : sessions'[v] \in {0, sessions[v]}
      BY <2>1 DEF TypeOK, Issue, Invalidate
    <2>5. /\ connectionUsers'[c] = u
          /\ \A d \in Conns \ {c} : connectionUsers'[d] = connectionUsers[d]
      BY <2>1 DEF TypeOK, SignedIn
    <2>6. \A d \in Conns \ {c} : connectionUsers[d] # u
      BY <2>1, SessionsAssumption DEF RegistryBijection, SignedIn, Directory!SignIn
    <2>7. \A d \in Conns : connectionUsers'[d] # NoUser =>
              sessions'[connectionUsers'[d]] \in {0, t[d].token}
      BY <1>2, <2>3, <2>4, <2>5, <2>6 DEF ToldTruth
    <2>8. QED
      BY <1>1, <2>1, <2>2, <2>7, ToldAfterBroadcast DEF ToldTruth
  <1>4. ASSUME NEW c \in Conns, Unregister(c), told' = TellUsers(told, onlineUsers'),
               \A u \in Users : sessions'[u] \in {0, sessions[u]}
        PROVE  ToldTruth'
    <2>1. \A d \in Conns : connectionUsers'[d] # NoUser =>
              connectionUsers'[d] = connectionUsers[d]
      BY <1>4 DEF TypeOK, Unregister
    <2>2. \A d \in Conns : connectionUsers'[d] # NoUser =>
              sessions'[connectionUsers'[d]] \in {0, told[d].token}
      BY <1>2, <1>4, <2>1 DEF ToldTruth
    <2>3. told \in [Conns -> [token : Nat, list : SUBSET Users]]
      BY DEF TypeOK
    <2>4. QED
      BY <1>1, <1>4, <2>2, <2>3, ToldAfterBroadcast DEF ToldTruth
  <1>5. ASSUME NEW c \in Conns, HandleLogout(c) \/ ConnectionClosed(c)
        PROVE  ToldTruth'
    <2>1. \A u \in Users : sessions'[u] \in {0, sessions[u]}
      BY <1>5 DEF TypeOK, HandleLogout, Invalidate, ConnectionClosed, storage
    <2>2. QED
      BY <1>4, <1>5, <2>1 DEF HandleLogout, ConnectionClosed
  <1>6. CASE Restart
    BY <1>6 DEF Restart, ToldTruth
  <1>7. CASE Untouched
    <2>1. ASSUME NEW c \in Conns, connectionUsers[c] # NoUser
          PROVE  told'[c] = told[c]
      <3>1. CASE UNCHANGED told
        BY <3>1
      <3>2. ASSUME NEW d \in Conns, RunDelete(d)
            PROVE  told'[c] = told[c]
        <4>1. DoomedIn(calls, d)
          BY <3>2 DEF TypeOK, RunDelete, DoomedIn
        <4>2. d # c
          BY <2>1, <4>1 DEF Lifecycle, DoomedIsForgotten
        <4>3. QED
          BY <3>2, <4>2 DEF TypeOK, RunDelete
      <3>3. QED
        BY <1>7, <3>1, <3>2 DEF Untouched
    <2>2. QED
      BY <1>2, <1>7, <2>1 DEF Untouched, registry, ToldTruth
  <1>8. QED
    BY <1>3, <1>5, <1>6, <1>7, RegistryStep

\* ToldTruth holds in every reachable state.
LEMMA ToldCorrect == Spec => []ToldTruth
  <1>1. Init => ToldTruth
    BY DEF Init, ToldTruth
  <1>2. TypeOK /\ TypeOK' /\ RegistryBijection /\ Lifecycle /\ ToldTruth /\ [Next]_vars
          => ToldTruth'
    BY ToldStep
  <1>3. QED
    BY <1>1, <1>2, TypeCorrect, RegistryCorrect, LifecycleCorrect, PTL DEF Spec

\* The list of users a signed-in client was sent last is the list of users online.
THEOREM UsersListCorrect == Spec => []UsersListCurrent
  <1>1. ToldTruth => UsersListCurrent
    BY DEF ToldTruth, UsersListCurrent
  <1>2. QED
    BY <1>1, ToldCorrect, PTL

\* The token a signed-in client was given last is the one that resumes his session,
\* whatever others try in his name and whichever writes of the database fail.
THEOREM HolderKeepsSession == Spec => []HolderCanResume
  <1>1. TypeOK /\ ToldTruth => HolderCanResume
    BY SessionsAssumption DEF ToldTruth, HolderCanResume
  <1>2. QED
    BY <1>1, TypeCorrect, ToldCorrect, PTL

=============================================================================
