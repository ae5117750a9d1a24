----------------------- MODULE ClientConnection_proofs -----------------------
(* Theorems about ClientConnection, for a schedule of any length. *)
EXTENDS ClientConnection, TLAPS

\* What makes FollowsIntent and FramesInStep inductive: the mark of a manual
\* disconnection is consumed or taken back before a connection is wanted again, and as
\* long as no connection was lost nothing is left in the buffer between connections.
IInv ==
    /\ TypeOK
    /\ FollowsIntent
    /\ FramesInStep
    /\ enabled => ~manual
    /\ ~again /\ sock # "connected" => ~partial

\* scheduleReconnect leaves the timer running, with a delay of the schedule.
LEMMA ArmArms ==
    ASSUME Steps \in Nat \ {0},
           NEW running \in 0 .. Steps, NEW count \in 0 .. Steps,
           Arm(running, count)
    PROVE  timer' \in 1 .. Steps /\ attempt' \in 0 .. Steps
<1>1. CASE running # 0
  BY <1>1 DEF Arm
<1>2. CASE running = 0
  <2>1. timer' = attempt' /\ attempt' = IF count < Steps THEN count + 1 ELSE Steps
    BY <1>2 DEF Arm
  <2> QED BY <2>1
<1> QED BY <1>1, <1>2

\* The handlers of a lost connection keep the types and, if the client wants a
\* connection, leave the timer running.
LEMMA OnDisconnectedArms ==
    ASSUME Steps \in Nat \ {0}, TypeOK, enabled => ~manual, OnDisconnected
    PROVE  /\ timer' \in 0 .. Steps /\ attempt' \in 0 .. Steps
           /\ manual' = FALSE /\ ticking' = FALSE
           /\ enabled => timer' # 0
           /\ ~enabled => timer' = timer
<1>1. manual' = FALSE /\ ticking' = FALSE
  BY DEF OnDisconnected
<1>2. CASE enabled
  <2>1. Arm(timer, attempt)
    BY <1>2 DEF OnDisconnected, CanReconnect
  <2>2. timer' \in 1 .. Steps /\ attempt' \in 0 .. Steps
    BY <2>1, ArmArms DEF TypeOK
  <2> QED BY <1>1, <1>2, <2>2
<1>3. CASE ~enabled
  BY <1>1, <1>3 DEF OnDisconnected, CanReconnect, TypeOK
<1> QED BY <1>2, <1>3

\* A connection that is lost, whatever becomes of the buffer.
LEMMA DropPreserves ==
    ASSUME Steps \in Nat \ {0}, IInv, Drop, partial' \in BOOLEAN
    PROVE  IInv'
<1>1. /\ timer' \in 0 .. Steps /\ attempt' \in 0 .. Steps
      /\ manual' = FALSE /\ ticking' = FALSE
      /\ enabled => timer' # 0
      /\ ~enabled => timer' = timer
  BY OnDisconnectedArms DEF IInv, Drop
<1>2. /\ sock' = "unconnected" /\ aligned' = TRUE /\ again' = TRUE
      /\ enabled' = enabled /\ asked' = asked
  BY DEF Drop
<1>3. TypeOK'
  BY <1>1, <1>2 DEF IInv, TypeOK
<1>4. FollowsIntent'
  BY <1>1, <1>2 DEF IInv, FollowsIntent, CanReconnect
<1> QED BY <1>1, <1>2, <1>3, <1>4 DEF IInv, FramesInStep

\* The client starts disconnected and wants nothing.
LEMMA InitIInv ==
    ASSUME Steps \in Nat \ {0}, Init
    PROVE  IInv
<1>1. TypeOK
  <2>1. attempt \in 0 .. Steps /\ timer \in 0 .. Steps
    BY DEF Init
  <2> QED BY <2>1 DEF Init, TypeOK
<1>2. FollowsIntent /\ FramesInStep
  BY DEF Init, FollowsIntent, FramesInStep
<1> QED BY <1>1, <1>2 DEF Init, IInv

\* connectToServer clears the buffer and wants a connection from here on.
LEMMA ConnectToServerPreserves ==
    ASSUME Steps \in Nat \ {0}, IInv, ConnectToServer
    PROVE  IInv'
<1>1. timer' \in 0 .. Steps /\ attempt' \in 0 .. Steps
  <2>1. CASE sock = "connected"
    BY <2>1, ArmArms DEF ConnectToServer
  <2>2. CASE sock # "connected"
    BY <2>2 DEF ConnectToServer
  <2> QED BY <2>1, <2>2
<1>2. /\ sock' = "connecting" /\ manual' = FALSE /\ enabled' = TRUE /\ ticking' = FALSE
      /\ partial' = FALSE /\ aligned' = TRUE /\ again' = FALSE /\ asked' = TRUE
  BY DEF ConnectToServer, StartConnection
<1> QED BY <1>1, <1>2 DEF IInv, TypeOK, FollowsIntent, FramesInStep, CanReconnect

\* A connection attempt that fails arms the timer.
LEMMA ConnectFailsPreserves ==
    ASSUME Steps \in Nat \ {0}, IInv, ConnectFails
    PROVE  IInv'
<1>1. /\ timer' \in 0 .. Steps /\ attempt' \in 0 .. Steps
      /\ enabled => timer' # 0
      /\ ~enabled => timer' = timer
  <2>1. CASE enabled
    <3>1. Arm(timer, attempt)
      BY <2>1 DEF ConnectFails, CanReconnect, IInv
    <3>2. timer' \in 1 .. Steps /\ attempt' \in 0 .. Steps
      BY <3>1, ArmArms DEF IInv, TypeOK
    <3> QED BY <2>1, <3>2
  <2>2. CASE ~enabled
    BY <2>2 DEF ConnectFails, CanReconnect, IInv, TypeOK
  <2> QED BY <2>1, <2>2
<1>2. /\ sock = "connecting" /\ sock' = "unconnected"
      /\ UNCHANGED <<manual, enabled, ticking, partial, aligned, again, asked>>
  BY DEF ConnectFails, input
<1> QED BY <1>1, <1>2 DEF IInv, TypeOK, FollowsIntent, FramesInStep, CanReconnect

\* Every step preserves the invariant.
LEMMA NextIInv ==
    ASSUME Steps \in Nat \ {0}, IInv, [Next]_vars
    PROVE  IInv'
<1> USE DEF IInv, TypeOK, FollowsIntent, FramesInStep, CanReconnect
<1>1. CASE ConnectToServer
  BY <1>1, ConnectToServerPreserves
<1>2. CASE DisconnectFromServer
  <2>1. timer' \in 0 .. Steps /\ attempt' \in 0 .. Steps
    BY <1>2 DEF DisconnectFromServer
  <2> QED BY <1>2, <2>1 DEF DisconnectFromServer
<1>3. CASE Redial
  <2>1. timer' \in 0 .. Steps /\ attempt' \in 0 .. Steps
    BY <1>3 DEF Redial, StartConnection
  <2> QED BY <1>3, <2>1 DEF Redial, StartConnection
<1>4. CASE ProgramEnds
  <2>1. timer' \in 0 .. Steps /\ attempt' \in 0 .. Steps
    BY <1>4 DEF ProgramEnds
  <2> QED BY <1>4, <2>1 DEF ProgramEnds
<1>5. CASE Connected
  BY <1>5 DEF Connected
<1>6. CASE ConnectFails
  BY <1>6, ConnectFailsPreserves
<1>7. CASE ReconnectIfNeeded
  BY <1>7 DEF ReconnectIfNeeded, input
<1>8. CASE ConnectionLost
  BY <1>8, DropPreserves DEF ConnectionLost
<1>9. CASE HeartbeatExpired
  BY <1>9, DropPreserves DEF HeartbeatExpired
<1>10. CASE ReceiveBytes
  <2>1. timer' \in 0 .. Steps /\ attempt' \in 0 .. Steps
    BY <1>10 DEF ReceiveBytes, control
  <2>2. aligned' \in BOOLEAN /\ (aligned => aligned')
    <3>1. aligned' = TRUE \/ aligned' = aligned
      BY <1>10, Zenon DEF ReceiveBytes
    <3>2. CASE aligned' = TRUE
      BY <3>2
    <3>3. CASE aligned' = aligned
      BY <3>3
    <3> QED BY <3>1, <3>2, <3>3
  <2>3. /\ sock = "connected" /\ partial' \in BOOLEAN
        /\ UNCHANGED <<sock, manual, enabled, attempt, timer, ticking, again, asked>>
    BY <1>10 DEF ReceiveBytes, control
  <2> QED BY <2>1, <2>2, <2>3
<1>11. CASE ReceiveInvalidPacket
  BY <1>11, DropPreserves DEF ReceiveInvalidPacket
<1>12. CASE UNCHANGED vars
  BY <1>12 DEF vars, control, input
<1> QED BY <1>1, <1>2, <1>3, <1>4, <1>5, <1>6, <1>7, <1>8, <1>9, <1>10, <1>11, <1>12
       DEF Next

\* The connection control on its own: a client that wants a connection has one, is getting
\* one or has its timer running, and the buffer is in step with the frames until a
\* connection was lost (scheduleReconnect, disconnectFromServer, onReadyRead).
THEOREM Invariance ==
    ASSUME Steps \in Nat \ {0}
    PROVE  Spec => []IInv
<1>1. Init => IInv
  BY InitIInv
<1>2. IInv /\ [Next]_vars => IInv'
  BY NextIInv
<1> QED BY <1>1, <1>2, PTL DEF Spec
=============================================================================
