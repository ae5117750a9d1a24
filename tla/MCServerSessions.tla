-------------------------- MODULE MCServerSessions --------------------------
(* Instances of ServerSessions for TLC. *)
EXTENDS ServerSessions

-----------------------------------------------------------------------------
(* One client program: it leaves once it is signed in and answered, and opens  *)
(* a connection only after it closed the last.                                 *)

OneSocket == \A c, d \in Conns : sock[c] = "open" /\ sock[d] = "open" => c = d

SignedInFirst ==
    \A c \in Conns : sock[c] = "open" /\ sock'[c] = "gone" =>
        connectionUsers[c] # NoUser /\ calls[c] = <<>>

OneClientSpec == Init /\ [][Next /\ OneSocket' /\ SignedInFirst]_vars

\* A client that closed its connection and opened another is let in with the
\* token it holds: its resume_session is not refused because its own earlier
\* connection is still in the registry (canStartAuthenticatedSession), as
\* registerResumeAndLogoutFlow expects.
ReconnectNotLockedOut ==
    \A c \in Conns, u \in Users :
        /\ inbox # <<>>
        /\ Head(inbox) = PacketEvent(c, [type |-> "resume_session", user |-> u,
                                         token |-> sessions[u]])
        /\ sessions[u] # 0
        /\ sock[c] = "open"
        => CanStart(c, u)
=============================================================================
