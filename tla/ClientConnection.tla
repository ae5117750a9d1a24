--------------------------- MODULE ClientConnection ---------------------------
(***************************************************************************)
(* The connection control of Client/networkclient.cpp with the connection  *)
(* part of Client/networktransportstate.cpp: the socket, the reconnect     *)
(* timer with its back-off, manual disconnection, the heartbeat and the    *)
(* buffer in which incoming frames are put together.                       *)
(*                                                                         *)
(* Everything runs on the client's one thread, and its signals are direct  *)
(* calls: abort() on a connected socket runs onDisconnected before it      *)
(* returns, on one that is connecting it emits nothing.                    *)
(*                                                                         *)
(* The buffer is abstracted to whether it holds the beginning of a frame,  *)
(* and whether the bytes that come next continue what it holds; tryDecode  *)
(* of Shared/transportprotocol.h finds the frames as long as they do.      *)
(***************************************************************************)
EXTENDS Naturals

CONSTANT Steps   \* entries of kReconnectScheduleMs: 6 in the code

VARIABLES
    sock,      \* state of m_socket
    manual,    \* m_manualDisconnect
    enabled,   \* m_reconnectEnabled
    attempt,   \* m_reconnectAttempt; beyond Steps it makes no difference
    timer,     \* m_reconnectTimer: 0, or the number of the delay it is armed with
    ticking,   \* m_pingTimer and m_retryTimer run
    partial,   \* m_buffer holds the beginning of a frame
    aligned,   \* history: what the socket delivers next continues m_buffer
    again,     \* history: a connection was lost since connectToServer
    asked      \* history: connectToServer was called

control == <<sock, manual, enabled, attempt, timer, ticking>>
input   == <<partial, aligned, again, asked>>
vars    == <<control, input>>

TypeOK ==
    /\ sock \in {"unconnected", "connecting", "connected"}
    /\ manual \in BOOLEAN
    /\ enabled \in BOOLEAN
    /\ attempt \in 0 .. Steps
    /\ timer \in 0 .. Steps
    /\ ticking \in BOOLEAN
    /\ partial \in BOOLEAN
    /\ aligned \in BOOLEAN
    /\ again \in BOOLEAN
    /\ asked \in BOOLEAN

Init ==
    /\ sock = "unconnected"
    /\ manual = FALSE
    /\ enabled = TRUE
    /\ attempt = 0
    /\ timer = 0
    /\ ticking = FALSE
    /\ partial = FALSE
    /\ aligned = TRUE
    /\ again = FALSE
    /\ asked = FALSE

-----------------------------------------------------------------------------
(* Reconnection. *)

CanReconnect == enabled /\ ~manual

\* Faulty: the last delay of the schedule is the last attempt.
ArmUntilLast(running, count) ==
    IF running # 0 \/ count = Steps
    THEN timer' = running /\ attempt' = count
    ELSE timer' = count + 1 /\ attempt' = count + 1

\* scheduleReconnect of a client that may reconnect: a timer that runs is left alone,
\* otherwise it is armed with the delay of the attempt, or the last one.
Arm(running, count) ==
    IF running # 0
    THEN timer' = running /\ attempt' = count
    ELSE LET next == IF count < Steps THEN count + 1 ELSE Steps
         IN  timer' = next /\ attempt' = next

\* onDisconnected.
OnDisconnected ==
    /\ ticking' = FALSE
    /\ manual' = FALSE
    /\ IF CanReconnect THEN Arm(timer, attempt) ELSE UNCHANGED <<timer, attempt>>

\* The socket goes from connected to unconnected, by the peer, an error or abort().
Drop ==
    /\ sock = "connected"
    /\ sock' = "unconnected"
    /\ OnDisconnected
    /\ aligned' = TRUE
    /\ again' = TRUE
    /\ UNCHANGED <<enabled, asked>>

\* Faulty: startConnection leaves the buffer.
StartConnectionKeepsBuffer ==
    /\ manual' = FALSE
    /\ enabled' = TRUE
    /\ ticking' = FALSE
    /\ again' = FALSE
    /\ asked' = TRUE
    /\ UNCHANGED <<partial, aligned>>

\* startConnection, and the timers stop.
StartConnection ==
    /\ manual' = FALSE
    /\ enabled' = TRUE
    /\ ticking' = FALSE
    /\ partial' = FALSE
    /\ aligned' = TRUE
    /\ again' = FALSE
    /\ asked' = TRUE

\* connectToServer: abort() of a connected socket runs onDisconnected in the new state,
\* which arms the reconnect timer for the connection just asked for.
ConnectToServer ==
    /\ StartConnection
    /\ IF sock = "connected" THEN Arm(0, 0) ELSE timer' = 0 /\ attempt' = 0
    /\ sock' = "connecting"

\* disconnectFromServer: only a connected socket emits disconnected, on which
\* onDisconnected consumes the mark of a manual disconnection.
DisconnectFromServer ==
    /\ enabled' = FALSE
    /\ manual' = (sock # "connected")
    /\ timer' = 0
    /\ ticking' = FALSE
    /\ partial' = FALSE
    /\ aligned' = TRUE
    /\ sock' = "unconnected"
    /\ UNCHANGED <<attempt, again, asked>>

\* disconnectFromServer and connectToServer in one handler, as at logout.
Redial ==
    /\ StartConnection
    /\ timer' = 0
    /\ attempt' = 0
    /\ sock' = "connecting"

\* The program ends; the next run starts from nothing.
ProgramEnds ==
    /\ sock' = "unconnected"
    /\ manual' = FALSE
    /\ enabled' = TRUE
    /\ attempt' = 0
    /\ timer' = 0
    /\ ticking' = FALSE
    /\ partial' = FALSE
    /\ aligned' = TRUE
    /\ again' = FALSE
    /\ asked' = FALSE

\* onConnected.  Bytes of the last connection are still in the buffer.
Connected ==
    /\ sock = "connecting"
    /\ sock' = "connected"
    /\ timer' = 0
    /\ attempt' = 0
    /\ ticking' = TRUE
    /\ aligned' = ~partial
    /\ UNCHANGED <<manual, enabled, partial, again, asked>>

\* onSocketError of an attempt that failed: the socket is unconnected already.
ConnectFails ==
    /\ sock = "connecting"
    /\ sock' = "unconnected"
    /\ IF CanReconnect THEN Arm(timer, attempt) ELSE UNCHANGED <<timer, attempt>>
    /\ UNCHANGED <<manual, enabled, ticking, input>>

\* Faulty: an attempt is made only if none was made before.
ReconnectOnlyFirst ==
    /\ timer # 0
    /\ timer' = 0
    /\ sock' = IF CanReconnect /\ sock = "unconnected" /\ attempt <= 1
               THEN "connecting" ELSE sock
    /\ UNCHANGED <<manual, enabled, attempt, ticking, input>>

\* reconnectIfNeeded, when the timer fires.
ReconnectIfNeeded ==
    /\ timer # 0
    /\ timer' = 0
    /\ sock' = IF CanReconnect /\ sock = "unconnected" THEN "connecting" ELSE sock
    /\ UNCHANGED <<manual, enabled, attempt, ticking, input>>

\* The peer closes the connection or it breaks.  The error comes while the socket is
\* still connected, so onSocketError leaves reconnecting to onDisconnected.
ConnectionLost == Drop /\ partial' = partial

\* retryPendingMessages finds no pong for kHeartbeatTimeoutMs: abort().
HeartbeatExpired == ticking /\ Drop /\ partial' = partial

-----------------------------------------------------------------------------
(* onReadyRead. *)

\* Bytes arrive: whole frames are taken out.  Out of step with the frames, the buffer
\* waits for the length some bytes happen to give and drops what fails the CRC, until
\* by chance it ends where a frame ends.
ReceiveBytes ==
    /\ sock = "connected"
    /\ partial' \in BOOLEAN
    /\ aligned' \in {TRUE, aligned}
    /\ UNCHANGED <<control, again, asked>>

\* A length above kMaxPayloadSize: tryDecode clears the buffer, and abort().
ReceiveInvalidPacket ==
    /\ Drop
    /\ partial' = FALSE

-----------------------------------------------------------------------------
Next ==
    \/ ConnectToServer
    \/ DisconnectFromServer
    \/ Redial
    \/ ProgramEnds
    \/ Connected
    \/ ConnectFails
    \/ ReconnectIfNeeded
    \/ ConnectionLost
    \/ HeartbeatExpired
    \/ ReceiveBytes
    \/ ReceiveInvalidPacket

Spec == Init /\ [][Next]_vars

-----------------------------------------------------------------------------
(* Properties. *)

\* A client that wants a connection is never left without one and without a timer that
\* will try again, and one that was told to close has neither connection nor timer,
\* whichever of its signals, errors and timers came first, in whatever state it was told
\* and whatever aborted the last connection (scheduleReconnect; README.md:61 promises the
\* second part).
FollowsIntent ==
    /\ asked /\ CanReconnect /\ sock = "unconnected" => timer # 0
    /\ ~enabled => sock = "unconnected" /\ timer = 0 /\ ~ticking

\* As long as no connection was lost since connectToServer, what arrives is put together
\* from the beginning of a frame, whatever an earlier connection left in the buffer.
\* After an automatic reconnection it is not: the buffer is kept.
FramesInStep == sock = "connected" /\ ~again => aligned
=============================================================================
