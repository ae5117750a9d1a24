----------------------------- MODULE RateLimiter -----------------------------
(***************************************************************************)
(* The fixed-window rate limiter of Server/ratelimiter.cpp: every login,   *)
(* registration, message and lookup passes allow() with a key and the rule *)
(* of its kind.  The table forgets entries nobody has used for a while,    *)
(* but only when it has grown to a threshold.  Time is the clock's; it     *)
(* does not go back.                                                       *)
(***************************************************************************)
EXTENDS Integers, Sequences, FiniteSets

CONSTANTS
    Keys,            \* a peer or a user, and the kind of action
    NoEntry,         \* a key the table does not hold
    MaxHits,         \* Rule::maxHits
    Window,          \* Rule::windowMs
    PruneAge,        \* 10 minutes in the code, longer than every rule's window
    PruneThreshold,  \* kPruneThreshold, 512 in the code
    MaxTime          \* bound: the clock

ASSUME RateLimiterAssumption ==
    /\ MaxHits \in Nat \ {0}
    /\ Window \in Nat \ {0}
    /\ PruneAge \in Nat
    /\ PruneAge >= Window
    /\ PruneThreshold \in Nat
    /\ MaxTime \in Nat
    /\ NoEntry \notin [hits : Nat, windowStartedAt : Nat, lastSeenAt : Nat]

VARIABLES
    now,      \* currentMSecsSinceEpoch
    entries,  \* m_entries
    allowed,  \* history, per key: when actions were let through
    retryAt   \* history, per key: when a caller turned down may come back, or 0

vars == <<now, entries, allowed, retryAt>>

Entry == [hits : 1 .. MaxHits, windowStartedAt : Nat \ {0}, lastSeenAt : Nat \ {0}]

TypeOK ==
    /\ now \in Nat \ {0}
    /\ entries \in [Keys -> Entry \cup {NoEntry}]
    /\ allowed \in [Keys -> Seq(Nat)]
    /\ retryAt \in [Keys -> Nat]

Init ==
    /\ now = 1
    /\ entries = [k \in Keys |-> NoEntry]
    /\ allowed = [k \in Keys |-> <<>>]
    /\ retryAt = [k \in Keys |-> 0]

-----------------------------------------------------------------------------
Held == {k \in Keys : entries[k] # NoEntry}

\* Faulty: the age is taken in the wrong unit.
PruneTooSoon ==
    [k \in Keys |-> IF k \in Held /\ now > entries[k].lastSeenAt
                    THEN NoEntry ELSE entries[k]]

\* pruneExpiredEntries.
PruneExpired ==
    [k \in Keys |-> IF k \in Held /\ now - entries[k].lastSeenAt > PruneAge
                    THEN NoEntry ELSE entries[k]]

\* The table allow works on.
Table == IF Cardinality(Held) >= PruneThreshold THEN PruneExpired ELSE entries

\* Faulty: off by one; a window that every attempt prolongs.
WindowIsOverLate(e) == e # NoEntry => now - e.windowStartedAt > Window
WindowIsProlonged(e) == e # NoEntry => now - e.lastSeenAt >= Window

WindowIsOver(e) == e # NoEntry => now - e.windowStartedAt >= Window

\* Faulty: off by one.
HasHitsLeftOrFull(e) == e.hits <= MaxHits

HasHitsLeft(e) == e.hits < MaxHits

\* Decision::retryAfterMs of an action that is turned down.
RetryAfter(e) ==
    LET rest == Window - (now - e.windowStartedAt) IN IF rest < 1 THEN 1 ELSE rest

LetThrough(k) ==
    /\ allowed' = [allowed EXCEPT ![k] = Append(@, now)]
    /\ retryAt' = [retryAt EXCEPT ![k] = 0]

\* allow.
Allow(k) ==
    LET e == Table[k]
        set(f) == entries' = [Table EXCEPT ![k] = f]
    IN  /\ \/ /\ WindowIsOver(e)
              /\ set([hits |-> 1, windowStartedAt |-> now, lastSeenAt |-> now])
              /\ LetThrough(k)
           \/ /\ ~WindowIsOver(e) /\ HasHitsLeft(e)
              /\ set([e EXCEPT !.hits = @ + 1, !.lastSeenAt = now])
              /\ LetThrough(k)
           \/ /\ ~WindowIsOver(e) /\ ~HasHitsLeft(e)
              /\ set([e EXCEPT !.lastSeenAt = now])
              /\ retryAt' = [retryAt EXCEPT ![k] = now + RetryAfter(e)]
              /\ allowed' = allowed
        /\ now' = now

Tick ==
    /\ now < MaxTime
    /\ now' = now + 1
    /\ UNCHANGED <<entries, allowed, retryAt>>

Next == Tick \/ \E k \in Keys : Allow(k)

Spec == Init /\ [][Next]_vars
-----------------------------------------------------------------------------
(* Properties. *)

\* The actions on k let through in the Window time units that end at t.
LetThroughUntil(k, t) ==
    {i \in DOMAIN allowed[k] : t - Window < allowed[k][i] /\ allowed[k][i] <= t}

\* Across a window's end, and although entries are pruned, a key never gets as much
\* as twice its limit through within the length of a window.
BurstBounded ==
    \A k \in Keys : Cardinality(LetThroughUntil(k, now)) < 2 * MaxHits

\* Nobody is turned down who has not used up the limit: a key that is waiting has had
\* MaxHits actions let through in the window it is told to wait for.
DenialJustified ==
    \A k \in Keys : retryAt[k] > now =>
        Cardinality(LetThroughUntil(k, retryAt[k] - 1)) >= MaxHits

\* A caller that was turned down and comes back at the time it was told
\* (retryAfterMs) is let through, pruned in between or not.
RetryAfterHonoured ==
    \A k \in Keys : retryAt[k] > 0 /\ retryAt[k] <= now => WindowIsOver(Table[k])
=============================================================================
