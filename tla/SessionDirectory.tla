-------------------------- MODULE SessionDirectory --------------------------
(***************************************************************************)
(* What the server promises about who is online, without its threads,      *)
(* queues and tables: a name is held by one connection at a time, it is     *)
(* never taken away from the connection that holds it, and a connection     *)
(* holds one name.                                                         *)
(***************************************************************************)
CONSTANTS Users, Conns, NoConn

VARIABLE holder   \* the connection a user is signed in on

Init == holder = [u \in Users |-> NoConn]

\* A free name is taken, or taken again by its holder; another name held on the
\* same connection is given back in the same step.
SignIn(u, c) ==
    /\ holder[u] \in {NoConn, c}
    /\ holder' = [v \in Users |-> IF v = u THEN c
                                  ELSE IF holder[v] = c THEN NoConn ELSE holder[v]]

\* The connection gives its name back: logout, or its end.
SignOut(c) ==
    holder' = [v \in Users |-> IF holder[v] = c THEN NoConn ELSE holder[v]]

\* The server is started again.
Reset == holder' = [u \in Users |-> NoConn]

Next ==
    \/ \E u \in Users, c \in Conns : SignIn(u, c)
    \/ \E c \in Conns : SignOut(c)
    \/ Reset

Spec == Init /\ [][Next]_holder
=============================================================================
