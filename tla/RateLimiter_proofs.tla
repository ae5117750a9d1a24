-------------------------- MODULE RateLimiter_proofs --------------------------
(* Theorems about RateLimiter, for any keys, limit, window and thresholds. *)
EXTENDS RateLimiter, FiniteSetTheorems, TLAPS

-----------------------------------------------------------------------------
(* One key. *)

\* The actions let through at the times a: none in the future, in order, and never as
\* many as twice the limit within a window's length.
Spaced(a, t) ==
    /\ \A i \in DOMAIN a : a[i] <= t
    /\ \A i, j \in DOMAIN a : i <= j => a[i] <= a[j]
    /\ \A i, j \in DOMAIN a : j = i + 2 * MaxHits - 1 => a[i] + Window <= a[j]

\* A key that is held: its window began with one of its hits, which are the last actions
\* let through, and all but MaxHits - 1 of the others came a window's length before.
Counted(e, a, t) ==
    /\ e.hits <= Len(a)
    /\ e.windowStartedAt <= e.lastSeenAt
    /\ e.lastSeenAt <= t
    /\ \A i \in DOMAIN a : a[i] <= e.lastSeenAt
    /\ a[Len(a) - e.hits + 1] = e.windowStartedAt
    /\ \A i \in DOMAIN a : i + e.hits + MaxHits - 1 <= Len(a) => a[i] + Window <= e.windowStartedAt

\* What holds of a key with entry e, actions let through at a, and told to come back at r.
KeyOK(e, a, r, t) ==
    /\ Spaced(a, t)
    /\ e = NoEntry => /\ \A i \in DOMAIN a : a[i] + Window <= t
                      /\ r <= t
    /\ e # NoEntry => /\ Counted(e, a, t)
                      /\ r > 0 => r = e.windowStartedAt + Window /\ e.hits = MaxHits

IInv == TypeOK /\ \A k \in Keys : KeyOK(entries[k], allowed[k], retryAt[k], now)

\* What an entry of the table is.
LEMMA EntryIs ==
    /\ NoEntry \notin Entry
    /\ \A e \in Entry : /\ e.hits \in Nat /\ e.hits >= 1 /\ e.hits <= MaxHits
                        /\ e.windowStartedAt \in Nat \ {0} /\ e.lastSeenAt \in Nat \ {0}
BY RateLimiterAssumption DEF Entry

\* The limit and the windows are numbers.
LEMMA Numbers ==
    /\ MaxHits \in Nat /\ MaxHits >= 1 /\ Window \in Nat /\ Window >= 1
    /\ PruneAge \in Nat /\ PruneAge >= Window
    /\ 2 * MaxHits \in Nat /\ 2 * MaxHits = MaxHits + MaxHits
BY RateLimiterAssumption

\* What Append adds.
LEMMA AppendOf ==
    ASSUME NEW q \in Seq(Nat), NEW x \in Nat
    PROVE  /\ Append(q, x) \in Seq(Nat)
           /\ DOMAIN Append(q, x) = 1 .. (Len(q) + 1) /\ DOMAIN q = 1 .. Len(q)
           /\ Len(q) \in Nat /\ Len(Append(q, x)) = Len(q) + 1
           /\ Append(q, x)[Len(q) + 1] = x
           /\ \A k \in 1 .. Len(q) : Append(q, x)[k] = q[k] /\ q[k] \in Nat
OBVIOUS

\* The places and elements of a sequence of times.
LEMMA TimesAreNumbers ==
    ASSUME NEW q \in Seq(Nat)
    PROVE  DOMAIN q = 1 .. Len(q) /\ Len(q) \in Nat /\ \A i \in DOMAIN q : q[i] \in Nat
OBVIOUS

\* Places in the sequence of what was let through, h of them in the window.
LEMMA Places ==
    ASSUME NEW i \in Nat, NEW h \in Nat, NEW l \in Nat, NEW m \in Nat, h >= 1, m >= 1
    PROVE  /\ h <= l => l - h + 1 \in 1 .. l
           /\ h <= m /\ i + m - 1 <= l => i <= l - h + 1
           /\ i + (h + 1) + m - 1 <= l + 1 => i + h + m - 1 <= l /\ i <= l
<1>1. h <= l => l - h + 1 \in 1 .. l
  OBVIOUS
<1>2. h <= m /\ i + m - 1 <= l => i <= l - h + 1
  OBVIOUS
<1>3. i + (h + 1) + m - 1 <= l + 1 => i + h + m - 1 <= l /\ i <= l
  OBVIOUS
<1> QED BY <1>1, <1>2, <1>3

\* The place where a window began does not move when a hit is added.
LEMMA SamePlace ==
    ASSUME NEW h \in Nat, NEW l \in Nat
    PROVE  (l + 1) - (h + 1) + 1 = l - h + 1
OBVIOUS

\* Places as far apart as twice the limit.
LEMMA Apart ==
    ASSUME NEW i \in Nat, NEW h \in Nat, NEW l \in Nat,
           i + 2 * MaxHits - 1 = l + 1
    PROVE  /\ i <= l
           /\ i + MaxHits - 1 <= l
           /\ h < MaxHits => i + h + MaxHits - 1 <= l
BY Numbers

\* Times at least a window apart.
LEMMA Later ==
    ASSUME NEW x \in Nat, NEW y \in Nat, NEW t \in Nat
    PROVE  /\ t - y >= Window => y + Window <= t
           /\ x <= y /\ y + Window <= t => x + Window <= t
           /\ x + Window <= y /\ y <= t => x + Window <= t
BY Numbers

\* Time goes on.
LEMMA KeyLater ==
    ASSUME NEW e \in Entry \cup {NoEntry}, NEW a \in Seq(Nat), NEW r \in Nat, NEW t \in Nat,
           KeyOK(e, a, r, t)
    PROVE  KeyOK(e, a, r, t + 1)
<1>1. Spaced(a, t + 1) /\ \A i \in DOMAIN a : a[i] \in Nat
  <2>1. \A i \in DOMAIN a : a[i] \in Nat
    BY TimesAreNumbers
  <2>2. \A i \in DOMAIN a : a[i] <= t
    BY DEF KeyOK, Spaced
  <2>3. \A i \in DOMAIN a : a[i] <= t + 1
    BY <2>1, <2>2
  <2> QED BY <2>1, <2>3 DEF KeyOK, Spaced
<1>2. CASE e = NoEntry
  <2>1. (\A i \in DOMAIN a : a[i] + Window <= t + 1) /\ r <= t + 1
    BY <1>1, <1>2, Numbers DEF KeyOK
  <2> QED BY <1>1, <1>2, <2>1 DEF KeyOK
<1>3. CASE e # NoEntry
  <2>1. e \in Entry /\ Counted(e, a, t) /\ (r > 0 => r = e.windowStartedAt + Window /\ e.hits = MaxHits)
    BY <1>3 DEF KeyOK
  <2>2. e.lastSeenAt <= t + 1
    BY <2>1, EntryIs DEF Counted
  <2>3. Counted(e, a, t + 1)
    BY <2>1, <2>2 DEF Counted
  <2> QED BY <1>1, <1>3, <2>1, <2>3 DEF KeyOK
<1> QED BY <1>2, <1>3

\* The key is forgotten.
LEMMA KeyPruned ==
    ASSUME NEW e \in Entry, NEW a \in Seq(Nat), NEW r \in Nat, NEW t \in Nat,
           KeyOK(e, a, r, t), t - e.lastSeenAt > PruneAge
    PROVE  KeyOK(NoEntry, a, r, t)
<1>1. e # NoEntry /\ Counted(e, a, t) /\ Spaced(a, t)
  BY EntryIs, Numbers DEF KeyOK
<1>2. r <= t
  <2>1. e.windowStartedAt \in Nat /\ e.lastSeenAt \in Nat
    BY EntryIs
  <2>2. (r > 0 => r = e.windowStartedAt + Window) /\ e.windowStartedAt <= e.lastSeenAt
    BY <1>1 DEF KeyOK, Counted
  <2> QED BY <2>1, <2>2, Numbers
<1>3. \A i \in DOMAIN a : a[i] + Window <= t
  <2> SUFFICES ASSUME NEW i \in DOMAIN a PROVE a[i] + Window <= t
    OBVIOUS
  <2>1. a[i] \in Nat /\ e.lastSeenAt \in Nat
    BY TimesAreNumbers, EntryIs
  <2>2. a[i] <= e.lastSeenAt
    BY <1>1 DEF Counted
  <2> QED BY <2>1, <2>2, Numbers
<1> QED BY <1>1, <1>2, <1>3 DEF KeyOK

\* A window begins.
LEMMA KeyNewWindow ==
    ASSUME NEW e \in Entry \cup {NoEntry}, NEW a \in Seq(Nat), NEW r \in Nat,
           NEW t \in Nat \ {0}, KeyOK(e, a, r, t),
           e # NoEntry => t - e.windowStartedAt >= Window
    PROVE  KeyOK([hits |-> 1, windowStartedAt |-> t, lastSeenAt |-> t], Append(a, t), 0, t)
<1> DEFINE b == Append(a, t)
           f == [hits |-> 1, windowStartedAt |-> t, lastSeenAt |-> t]
<1>1. /\ DOMAIN b = 1 .. (Len(a) + 1) /\ DOMAIN a = 1 .. Len(a)
      /\ Len(a) \in Nat /\ Len(b) = Len(a) + 1 /\ b[Len(a) + 1] = t
      /\ \A k \in 1 .. Len(a) : b[k] = a[k] /\ a[k] \in Nat
  BY AppendOf
<1>2. f \in Entry /\ f # NoEntry /\ f.hits = 1 /\ f.windowStartedAt = t /\ f.lastSeenAt = t
  BY EntryIs, Numbers DEF Entry
<1> HIDE DEF b, f
<1>3. Spaced(a, t)
  BY DEF KeyOK
<1>4. \A i \in DOMAIN a : i + MaxHits - 1 <= Len(a) => a[i] + Window <= t
  <2> SUFFICES ASSUME NEW i \in DOMAIN a, i + MaxHits - 1 <= Len(a)
               PROVE  a[i] + Window <= t
    OBVIOUS
  <2>1. CASE e = NoEntry
    BY <2>1 DEF KeyOK
  <2>2. CASE e # NoEntry
    <3>1. /\ e \in Entry /\ Counted(e, a, t) /\ t - e.windowStartedAt >= Window
          /\ e.hits \in Nat /\ e.hits >= 1 /\ e.hits <= MaxHits /\ e.windowStartedAt \in Nat
      BY <2>2, EntryIs, Numbers DEF KeyOK
    <3> DEFINE j == Len(a) - e.hits + 1
    <3>2. j \in DOMAIN a /\ i <= j /\ a[j] = e.windowStartedAt
      <4>1. e.hits <= Len(a) /\ a[Len(a) - e.hits + 1] = e.windowStartedAt
        BY <3>1 DEF Counted
      <4>2. i \in Nat /\ Len(a) \in Nat /\ i + MaxHits - 1 <= Len(a)
        BY <1>1
      <4>3. Len(a) - e.hits + 1 \in 1 .. Len(a) /\ i <= Len(a) - e.hits + 1
        BY <3>1, <4>1, <4>2, Numbers, Places
      <4> QED BY <1>1, <4>1, <4>3
    <3>3. a[i] <= a[j] /\ a[i] \in Nat
      BY <1>1, <1>3, <3>2 DEF Spaced
    <3>4. a[i] <= e.windowStartedAt
      BY <3>2, <3>3
    <3>5. e.windowStartedAt \in Nat /\ t - e.windowStartedAt >= Window /\ a[i] \in Nat
      BY <3>1, <3>3
    <3> HIDE DEF j
    <3> QED BY <3>4, <3>5, Later
  <2> QED BY <2>1, <2>2
<1>5. Spaced(b, t)
  <2>1. \A i \in DOMAIN b : b[i] <= t /\ b[i] \in Nat
    BY <1>1, <1>3 DEF Spaced
  <2>2. \A i, j \in DOMAIN b : i <= j => b[i] <= b[j]
    <3> SUFFICES ASSUME NEW i \in DOMAIN b, NEW j \in DOMAIN b, i <= j
                 PROVE  b[i] <= b[j]
      OBVIOUS
    <3>1. CASE j = Len(a) + 1
      BY <1>1, <2>1, <3>1
    <3>2. CASE j # Len(a) + 1
      <4>1. i \in DOMAIN a /\ j \in DOMAIN a
        BY <1>1, <3>2
      <4>2. b[i] = a[i] /\ b[j] = a[j]
        BY <1>1, <4>1
      <4> QED BY <1>3, <4>1, <4>2 DEF Spaced
    <3> QED BY <3>1, <3>2
  <2>3. \A i, j \in DOMAIN b : j = i + 2 * MaxHits - 1 => b[i] + Window <= b[j]
    <3> SUFFICES ASSUME NEW i \in DOMAIN b, NEW j \in DOMAIN b, j = i + 2 * MaxHits - 1
                 PROVE  b[i] + Window <= b[j]
      OBVIOUS
    <3>1. i \in DOMAIN a
      <4>1. i \in Nat /\ i >= 1 /\ j \in Nat /\ j <= Len(a) + 1
        BY <1>1
      <4>2. i <= Len(a)
        BY <1>1, <4>1, Numbers
      <4> QED BY <1>1, <4>1, <4>2
    <3>2. CASE j = Len(a) + 1
      <4>1. i + MaxHits - 1 <= Len(a)
        BY <1>1, <3>1, <3>2, Apart
      <4> QED BY <1>1, <1>4, <3>1, <3>2, <4>1
    <3>3. CASE j # Len(a) + 1
      <4>1. j \in DOMAIN a
        BY <1>1, <3>3
      <4>2. b[i] = a[i] /\ b[j] = a[j]
        BY <1>1, <3>1, <4>1
      <4>3. a[i] + Window <= a[j]
        BY <1>3, <3>1, <4>1 DEF Spaced
      <4> QED BY <4>2, <4>3
    <3> QED BY <3>2, <3>3
  <2> QED BY <2>1, <2>2, <2>3 DEF Spaced
<1>6. Counted(f, b, t)
  <2>1. \A i \in DOMAIN b : b[i] <= t
    BY <1>5 DEF Spaced
  <2>2. \A i \in DOMAIN b : i + 1 + MaxHits - 1 <= Len(b) => b[i] + Window <= t
    <3> SUFFICES ASSUME NEW i \in DOMAIN b, i + 1 + MaxHits - 1 <= Len(b)
                 PROVE  b[i] + Window <= t
      OBVIOUS
    <3>1. i \in Nat /\ i >= 1 /\ i + 1 + MaxHits - 1 <= Len(a) + 1
      BY <1>1
    <3>2. i <= Len(a) /\ i + MaxHits - 1 <= Len(a)
      BY <1>1, <3>1, Numbers
    <3>3. i \in DOMAIN a /\ b[i] = a[i]
      BY <1>1, <3>1, <3>2
    <3> QED BY <1>4, <3>2, <3>3
  <2>3. b[Len(b) - 1 + 1] = t /\ 1 <= Len(b)
    BY <1>1
  <2> QED BY <1>2, <2>1, <2>2, <2>3 DEF Counted
<1>7. KeyOK(f, b, 0, t)
  BY <1>2, <1>5, <1>6 DEF KeyOK
<1> QED BY <1>7 DEF b, f

\* Another hit in the window.
LEMMA KeyHit ==
    ASSUME NEW e \in Entry, NEW a \in Seq(Nat), NEW r \in Nat, NEW t \in Nat \ {0},
           KeyOK(e, a, r, t), e.hits < MaxHits
    PROVE  /\ [e EXCEPT !.hits = @ + 1, !.lastSeenAt = t] \in Entry
           /\ KeyOK([e EXCEPT !.hits = @ + 1, !.lastSeenAt = t], Append(a, t), 0, t)
<1> DEFINE b == Append(a, t)
           f == [e EXCEPT !.hits = @ + 1, !.lastSeenAt = t]
<1>1. /\ DOMAIN b = 1 .. (Len(a) + 1) /\ DOMAIN a = 1 .. Len(a)
      /\ Len(a) \in Nat /\ Len(b) = Len(a) + 1 /\ b[Len(a) + 1] = t
      /\ \A k \in 1 .. Len(a) : b[k] = a[k] /\ a[k] \in Nat
  BY AppendOf
<1>2. /\ f \in Entry /\ f.hits = e.hits + 1
      /\ f.windowStartedAt = e.windowStartedAt /\ f.lastSeenAt = t
  <2>1. /\ e = [hits |-> e.hits, windowStartedAt |-> e.windowStartedAt,
               lastSeenAt |-> e.lastSeenAt]
        /\ e.windowStartedAt \in Nat \ {0}
    BY DEF Entry
  <2>2. e.hits + 1 \in 1 .. MaxHits
    BY EntryIs, Numbers
  <2>3. f = [hits |-> e.hits + 1, windowStartedAt |-> e.windowStartedAt, lastSeenAt |-> t]
    <3> DEFINE h == e.hits + 1
               g == [e EXCEPT !.hits = h]
    <3>1. f = [g EXCEPT !.lastSeenAt = t]
      OBVIOUS
    <3> HIDE DEF h, f
    <3>2. g = [hits |-> h, windowStartedAt |-> e.windowStartedAt, lastSeenAt |-> e.lastSeenAt]
      BY DEF Entry
    <3> HIDE DEF g
    <3>3. f = [hits |-> h, windowStartedAt |-> e.windowStartedAt, lastSeenAt |-> t]
      BY <3>1, <3>2
    <3> QED BY <3>3 DEF h
  <2> QED BY <2>1, <2>2, <2>3 DEF Entry
<1> HIDE DEF b, f
<1>3. Spaced(a, t) /\ Counted(e, a, t) /\ f # NoEntry
  BY <1>2, EntryIs, Numbers DEF KeyOK
<1>4. /\ e.hits \in Nat /\ e.hits >= 1 /\ e.windowStartedAt \in Nat
      /\ e.windowStartedAt <= t
  BY <1>3, EntryIs, Numbers DEF Counted
<1>5. Spaced(b, t)
  <2>1. \A i \in DOMAIN b : b[i] <= t /\ b[i] \in Nat
    BY <1>1, <1>3 DEF Spaced
  <2>2. \A i, j \in DOMAIN b : i <= j => b[i] <= b[j]
    <3> SUFFICES ASSUME NEW i \in DOMAIN b, NEW j \in DOMAIN b, i <= j
                 PROVE  b[i] <= b[j]
      OBVIOUS
    <3>1. CASE j = Len(a) + 1
      BY <1>1, <2>1, <3>1
    <3>2. CASE j # Len(a) + 1
      <4>1. i \in DOMAIN a /\ j \in DOMAIN a
        BY <1>1, <3>2
      <4>2. b[i] = a[i] /\ b[j] = a[j]
        BY <1>1, <4>1
      <4> QED BY <1>3, <4>1, <4>2 DEF Spaced
    <3> QED BY <3>1, <3>2
  <2>3. \A i, j \in DOMAIN b : j = i + 2 * MaxHits - 1 => b[i] + Window <= b[j]
    <3> SUFFICES ASSUME NEW i \in DOMAIN b, NEW j \in DOMAIN b, j = i + 2 * MaxHits - 1
                 PROVE  b[i] + Window <= b[j]
      OBVIOUS
    <3>1. i \in DOMAIN a
      <4>1. i \in Nat /\ i >= 1 /\ j \in Nat /\ j <= Len(a) + 1
        BY <1>1
      <4>2. i <= Len(a)
        BY <1>1, <4>1, Numbers
      <4> QED BY <1>1, <4>1, <4>2
    <3>2. CASE j = Len(a) + 1
      <4>1. i + e.hits + MaxHits - 1 <= Len(a)
        BY <1>1, <1>4, <3>1, <3>2, Apart
      <4>2. a[i] + Window <= e.windowStartedAt /\ a[i] \in Nat
        BY <1>1, <1>3, <3>1, <4>1 DEF Counted
      <4>3. b[i] = a[i] /\ b[j] = t
        BY <1>1, <3>1, <3>2
      <4>4. e.windowStartedAt \in Nat /\ e.windowStartedAt <= t
        BY <1>4
      <4>5. a[i] + Window <= t
        BY <4>2, <4>4, Later
      <4> QED BY <4>3, <4>5
    <3>3. CASE j # Len(a) + 1
      <4>1. j \in DOMAIN a
        BY <1>1, <3>3
      <4>2. b[i] = a[i] /\ b[j] = a[j]
        BY <1>1, <3>1, <4>1
      <4>3. a[i] + Window <= a[j]
        BY <1>3, <3>1, <4>1 DEF Spaced
      <4> QED BY <4>2, <4>3
    <3> QED BY <3>2, <3>3
  <2> QED BY <2>1, <2>2, <2>3 DEF Spaced
<1>6. Counted(f, b, t)
  <2>1. \A i \in DOMAIN b : b[i] <= t
    BY <1>5 DEF Spaced
  <2>2. f.hits <= Len(b) /\ b[Len(b) - f.hits + 1] = f.windowStartedAt
    <3>1. e.hits <= Len(a) /\ a[Len(a) - e.hits + 1] = e.windowStartedAt
      BY <1>3 DEF Counted
    <3>2. Len(b) - f.hits + 1 = Len(a) - e.hits + 1
      <4>1. Len(b) = Len(a) + 1 /\ f.hits = e.hits + 1 /\ Len(a) \in Nat /\ e.hits \in Nat
        BY <1>1, <1>2, <1>4
      <4>2. (Len(a) + 1) - (e.hits + 1) + 1 = Len(a) - e.hits + 1
        BY <4>1, SamePlace, Zenon
      <4> QED BY <4>1, <4>2, Zenon
    <3>3. Len(a) - e.hits + 1 \in 1 .. Len(a)
      BY <1>1, <1>4, <3>1, Places
    <3>4. b[Len(b) - f.hits + 1] = a[Len(a) - e.hits + 1]
      BY <1>1, <3>2, <3>3
    <3>5. f.hits <= Len(b)
      BY <1>1, <1>2, <1>4, <3>1
    <3> QED BY <1>2, <3>1, <3>4, <3>5
  <2>3. ASSUME NEW i \in DOMAIN b, i + f.hits + MaxHits - 1 <= Len(b)
        PROVE  b[i] + Window <= f.windowStartedAt
    <3>1. i \in DOMAIN a /\ i + e.hits + MaxHits - 1 <= Len(a)
      <4>1. i \in Nat /\ i >= 1 /\ i + (e.hits + 1) + MaxHits - 1 <= Len(a) + 1
        BY <1>1, <1>2, <2>3
      <4>2. i + e.hits + MaxHits - 1 <= Len(a) /\ i <= Len(a)
        BY <1>1, <1>4, <4>1, Numbers, Places
      <4> QED BY <1>1, <4>1, <4>2
    <3> QED BY <1>1, <1>2, <1>3, <3>1 DEF Counted
  <2> QED BY <1>2, <1>4, <2>1, <2>2, <2>3 DEF Counted
<1>7. KeyOK(f, b, 0, t)
  BY <1>3, <1>5, <1>6 DEF KeyOK
<1> QED BY <1>2, <1>7 DEF b, f

\* The action is turned down.
LEMMA KeyDenied ==
    ASSUME NEW e \in Entry, NEW a \in Seq(Nat), NEW r \in Nat, NEW t \in Nat \ {0},
           KeyOK(e, a, r, t), ~(e.hits < MaxHits), ~(t - e.windowStartedAt >= Window)
    PROVE  /\ [e EXCEPT !.lastSeenAt = t] \in Entry
           /\ KeyOK([e EXCEPT !.lastSeenAt = t], a, e.windowStartedAt + Window, t)
<1> DEFINE f == [e EXCEPT !.lastSeenAt = t]
<1>1. /\ f \in Entry /\ f.hits = e.hits
      /\ f.windowStartedAt = e.windowStartedAt /\ f.lastSeenAt = t
  BY EntryIs, Numbers DEF Entry
<1> HIDE DEF f
<1>2. Spaced(a, t) /\ Counted(e, a, t) /\ f # NoEntry
  BY <1>1, EntryIs, Numbers DEF KeyOK
<1>3. Counted(f, a, t)
  BY <1>1, <1>2, EntryIs, Numbers, TimesAreNumbers DEF Counted, Spaced
<1>4. f.hits = MaxHits
  BY <1>1, EntryIs, Numbers
<1>5. KeyOK(f, a, e.windowStartedAt + Window, t)
  BY <1>1, <1>2, <1>3, <1>4 DEF KeyOK
<1> QED BY <1>1, <1>5 DEF f

-----------------------------------------------------------------------------
(* All keys. *)

\* The table allow works on is as good as the one it finds.
LEMMA TableOK ==
    ASSUME IInv
    PROVE  /\ Table \in [Keys -> Entry \cup {NoEntry}]
           /\ \A k \in Keys : Table[k] \in {entries[k], NoEntry}
           /\ \A k \in Keys : KeyOK(Table[k], allowed[k], retryAt[k], now)
<1>1. PruneExpired \in [Keys -> Entry \cup {NoEntry}]
  BY DEF IInv, TypeOK, PruneExpired
<1>2. \A k \in Keys : PruneExpired[k] \in {entries[k], NoEntry}
  BY DEF PruneExpired
<1>3. ASSUME NEW k \in Keys
      PROVE  KeyOK(PruneExpired[k], allowed[k], retryAt[k], now)
  <2>1. KeyOK(entries[k], allowed[k], retryAt[k], now)
    BY DEF IInv
  <2>2. CASE k \in Held /\ now - entries[k].lastSeenAt > PruneAge
    <3>1. PruneExpired[k] = NoEntry /\ entries[k] \in Entry
      BY <2>2 DEF PruneExpired, Held, IInv, TypeOK
    <3>2. allowed[k] \in Seq(Nat) /\ retryAt[k] \in Nat /\ now \in Nat
      BY DEF IInv, TypeOK
    <3> QED BY <2>1, <2>2, <3>1, <3>2, KeyPruned
  <2>3. CASE ~(k \in Held /\ now - entries[k].lastSeenAt > PruneAge)
    BY <2>1, <2>3 DEF PruneExpired
  <2> QED BY <2>2, <2>3
<1>4. Table = PruneExpired \/ Table = entries
  BY DEF Table
<1> QED BY <1>1, <1>2, <1>3, <1>4 DEF IInv, TypeOK

\* allow sets the key it is asked for; the others keep what the table has.
LEMMA AllowSets ==
    ASSUME IInv, NEW k \in Keys,
           NEW f \in Entry, NEW b \in Seq(Nat), NEW r \in Nat,
           entries' = [Table EXCEPT ![k] = f],
           allowed' = [allowed EXCEPT ![k] = b],
           retryAt' = [retryAt EXCEPT ![k] = r],
           now' = now, KeyOK(f, b, r, now)
    PROVE  IInv'
<1>1. TypeOK'
  BY TableOK DEF IInv, TypeOK
<1>2. ASSUME NEW j \in Keys
      PROVE  KeyOK(entries'[j], allowed'[j], retryAt'[j], now')
  <2>1. CASE j = k
    <3>1. entries'[j] = f /\ allowed'[j] = b /\ retryAt'[j] = r
      BY <2>1, TableOK DEF IInv, TypeOK
    <3> QED BY <3>1
  <2>2. CASE j # k
    <3>1. entries'[j] = Table[j] /\ allowed'[j] = allowed[j] /\ retryAt'[j] = retryAt[j]
      BY <2>2, TableOK DEF IInv, TypeOK
    <3> QED BY <3>1, TableOK
  <2> QED BY <2>1, <2>2
<1> QED BY <1>1, <1>2 DEF IInv

\* allow keeps the invariant.
LEMMA AllowPreserves ==
    ASSUME IInv, NEW k \in Keys, Allow(k)
    PROVE  IInv'
<1> DEFINE e == Table[k]
           a == allowed[k]
<1>1. /\ e \in Entry \cup {NoEntry} /\ KeyOK(e, a, retryAt[k], now)
      /\ a \in Seq(Nat) /\ retryAt[k] \in Nat /\ now \in Nat \ {0}
  BY TableOK DEF IInv, TypeOK
<1>2. Append(a, now) \in Seq(Nat) /\ 0 \in Nat
  BY <1>1, AppendOf
<1>3. CASE WindowIsOver(e)
  <2> DEFINE f == [hits |-> 1, windowStartedAt |-> now, lastSeenAt |-> now]
  <2>1. /\ entries' = [Table EXCEPT ![k] = f]
        /\ allowed' = [allowed EXCEPT ![k] = Append(a, now)]
        /\ retryAt' = [retryAt EXCEPT ![k] = 0]
        /\ now' = now
    BY <1>3 DEF Allow, LetThrough
  <2>2. f \in Entry
    BY <1>1, EntryIs, Numbers DEF Entry
  <2>3. KeyOK(f, Append(a, now), 0, now)
    BY <1>1, <1>3, KeyNewWindow DEF WindowIsOver
  <2> HIDE DEF f, e
  <2> QED BY <1>2, <2>1, <2>2, <2>3, AllowSets
<1>4. CASE ~WindowIsOver(e) /\ HasHitsLeft(e)
  <2> DEFINE f == [e EXCEPT !.hits = @ + 1, !.lastSeenAt = now]
  <2>1. /\ entries' = [Table EXCEPT ![k] = f]
        /\ allowed' = [allowed EXCEPT ![k] = Append(a, now)]
        /\ retryAt' = [retryAt EXCEPT ![k] = 0]
        /\ now' = now
    BY <1>4 DEF Allow, LetThrough
  <2>2. e \in Entry
    BY <1>1, <1>4 DEF WindowIsOver
  <2>3. f \in Entry /\ KeyOK(f, Append(a, now), 0, now)
    BY <1>1, <1>4, <2>2, KeyHit DEF HasHitsLeft
  <2> HIDE DEF f, e
  <2> QED BY <1>2, <2>1, <2>3, AllowSets
<1>5. CASE ~WindowIsOver(e) /\ ~HasHitsLeft(e)
  <2> DEFINE f == [e EXCEPT !.lastSeenAt = now]
  <2>1. /\ entries' = [Table EXCEPT ![k] = f]
        /\ allowed' = allowed
        /\ retryAt' = [retryAt EXCEPT ![k] = now + RetryAfter(e)]
        /\ now' = now
    BY <1>5 DEF Allow
  <2>2. e \in Entry /\ ~(now - e.windowStartedAt >= Window)
    BY <1>1, <1>5 DEF WindowIsOver
  <2>3. now + RetryAfter(e) = e.windowStartedAt + Window /\ e.windowStartedAt + Window \in Nat
    BY <1>1, <2>2, EntryIs, Numbers DEF RetryAfter
  <2>4. f \in Entry /\ KeyOK(f, a, e.windowStartedAt + Window, now)
    BY <1>1, <1>5, <2>2, KeyDenied DEF HasHitsLeft
  <2>5. allowed' = [allowed EXCEPT ![k] = a]
    BY <2>1 DEF IInv, TypeOK
  <2> HIDE DEF f, e
  <2> QED BY <1>1, <2>1, <2>3, <2>4, <2>5, AllowSets
<1> QED BY <1>3, <1>4, <1>5 DEF Allow

\* The table is empty at the start.
LEMMA InitIInv ==
    ASSUME Init
    PROVE  IInv
<1>1. <<>> \in Seq(Nat) /\ DOMAIN <<>> = {}
  OBVIOUS
<1>2. TypeOK
  BY <1>1 DEF Init, TypeOK
<1>3. \A k \in Keys : KeyOK(entries[k], allowed[k], retryAt[k], now)
  BY <1>1 DEF Init, KeyOK, Spaced
<1> QED BY <1>2, <1>3 DEF IInv

\* Every step preserves the invariant.
LEMMA NextIInv ==
    ASSUME IInv, [Next]_vars
    PROVE  IInv'
<1>1. CASE Tick
  <2>1. now' = now + 1 /\ UNCHANGED <<entries, allowed, retryAt>> /\ now \in Nat \ {0}
    BY <1>1 DEF Tick, IInv, TypeOK
  <2>2. ASSUME NEW k \in Keys PROVE KeyOK(entries[k], allowed[k], retryAt[k], now + 1)
    BY <2>1, KeyLater DEF IInv, TypeOK
  <2>3. TypeOK'
    BY <2>1 DEF IInv, TypeOK
  <2> QED BY <2>1, <2>2, <2>3 DEF IInv
<1>2. ASSUME NEW k \in Keys, Allow(k) PROVE IInv'
  BY <1>2, AllowPreserves
<1>3. CASE UNCHANGED vars
  BY <1>3 DEF vars, IInv, TypeOK
<1> QED BY <1>1, <1>2, <1>3 DEF Next

-----------------------------------------------------------------------------
\* Type correctness of the rate limiter.
THEOREM TypeCorrect == Spec => []TypeOK
<1>1. IInv => TypeOK
  BY DEF IInv
<1> QED BY <1>1, InitIInv, NextIInv, PTL DEF Spec

\* A caller that was turned down and comes back when it was told to is let through,
\* whether its entry was pruned in between or not (allow, pruneExpiredEntries).
THEOREM RetryAfterIsHonoured == Spec => []RetryAfterHonoured
<1>1. ASSUME IInv PROVE RetryAfterHonoured
  <2> SUFFICES ASSUME NEW k \in Keys, retryAt[k] > 0, retryAt[k] <= now
               PROVE  WindowIsOver(Table[k])
    BY DEF RetryAfterHonoured
  <2>1. /\ Table[k] \in Entry \cup {NoEntry} /\ KeyOK(Table[k], allowed[k], retryAt[k], now)
        /\ retryAt[k] \in Nat /\ now \in Nat
    BY <1>1, TableOK DEF IInv, TypeOK
  <2> QED BY <2>1, EntryIs, Numbers DEF KeyOK, WindowIsOver
<1> QED BY <1>1, InitIInv, NextIInv, PTL DEF Spec

\* Nobody is turned down who has not used up the limit in the window to wait for (allow).
THEOREM DenialIsJustified == Spec => []DenialJustified
<1>1. ASSUME IInv PROVE DenialJustified
  <2> SUFFICES ASSUME NEW k \in Keys, retryAt[k] > now
               PROVE  Cardinality(LetThroughUntil(k, retryAt[k] - 1)) >= MaxHits
    BY DEF DenialJustified
  <2> DEFINE a == allowed[k]
             e == entries[k]
             S == LetThroughUntil(k, retryAt[k] - 1)
             T == (Len(a) - MaxHits + 1) .. Len(a)
  <2>1. /\ KeyOK(e, a, retryAt[k], now) /\ a \in Seq(Nat) /\ retryAt[k] \in Nat /\ now \in Nat
        /\ e \in Entry \cup {NoEntry}
    BY <1>1 DEF IInv, TypeOK
  <2>2. /\ e \in Entry /\ Counted(e, a, now) /\ Spaced(a, now)
        /\ retryAt[k] = e.windowStartedAt + Window /\ e.hits = MaxHits
    BY <2>1 DEF KeyOK
  <2>3. DOMAIN a = 1 .. Len(a) /\ Len(a) \in Nat /\ \A i \in DOMAIN a : a[i] \in Nat
    BY <2>1, TimesAreNumbers
  <2>4. MaxHits <= Len(a) /\ a[Len(a) - MaxHits + 1] = e.windowStartedAt
    BY <2>2 DEF Counted
  <2>5. ASSUME NEW i \in T PROVE i \in S
    <3>1. i \in DOMAIN a /\ Len(a) - MaxHits + 1 \in DOMAIN a
      BY <2>3, <2>4, EntryIs, Numbers
    <3>2. e.windowStartedAt <= a[i] /\ a[i] <= now
      BY <2>2, <2>4, <3>1 DEF Spaced
    <3>3. retryAt[k] - 1 - Window < a[i] /\ a[i] <= retryAt[k] - 1
      <4>1. a[i] \in Nat /\ e.windowStartedAt \in Nat
        BY <2>2, <2>3, <3>1, EntryIs
      <4>2. now <= retryAt[k] - 1
        BY <2>1
      <4> HIDE DEF a, e
      <4>3. retryAt[k] - 1 - Window = e.windowStartedAt - 1
        BY <2>2, <4>1, Numbers
      <4> QED BY <2>1, <3>2, <4>1, <4>2, <4>3
    <3> QED BY <3>1, <3>3 DEF LetThroughUntil
  <2>6. IsFiniteSet(T) /\ Cardinality(T) = MaxHits
    <3>1. Len(a) - MaxHits + 1 \in Int /\ Len(a) \in Int
      BY <2>3, EntryIs, Numbers
    <3> HIDE DEF a
    <3>2. /\ IsFiniteSet(T)
          /\ Cardinality(T) = IF Len(a) - MaxHits + 1 > Len(a) THEN 0
                              ELSE Len(a) - (Len(a) - MaxHits + 1) + 1
      BY <3>1, FS_Interval
    <3> QED BY <2>3, <3>2, EntryIs, Numbers
  <2>7. IsFiniteSet(S) /\ T \in SUBSET S
    <3>1. IsFiniteSet(DOMAIN a)
      BY <2>3, FS_Interval
    <3>2. S \in SUBSET DOMAIN a
      BY DEF LetThroughUntil
    <3> QED BY <2>5, <3>1, <3>2, FS_Subset
  <2>8. Cardinality(T) <= Cardinality(S)
    BY <2>7, FS_Subset
  <2> QED BY <2>6, <2>7, <2>8, FS_CardinalityType, EntryIs, Numbers
<1> QED BY <1>1, InitIInv, NextIInv, PTL DEF Spec

\* Across a window's end and whatever is pruned, a key gets less than twice its limit
\* through within the length of a window (allow, pruneExpiredEntries).
THEOREM BurstIsBounded == Spec => []BurstBounded
<1>1. ASSUME IInv PROVE BurstBounded
  <2> SUFFICES ASSUME NEW k \in Keys
               PROVE  Cardinality(LetThroughUntil(k, now)) < 2 * MaxHits
    BY DEF BurstBounded
  <2> DEFINE a == allowed[k]
             S == LetThroughUntil(k, now)
             T == (Len(a) - 2 * MaxHits + 2) .. Len(a)
  <2>1. Spaced(a, now) /\ a \in Seq(Nat) /\ now \in Nat
    BY <1>1 DEF IInv, TypeOK, KeyOK
  <2>2. DOMAIN a = 1 .. Len(a) /\ Len(a) \in Nat /\ \A i \in DOMAIN a : a[i] \in Nat
    BY <2>1, TimesAreNumbers
  <2>3. ASSUME NEW i \in S PROVE i \in T
    <3>1. i \in DOMAIN a /\ now - Window < a[i]
      BY DEF LetThroughUntil
    <3>2. ~(i + 2 * MaxHits - 1 <= Len(a))
      <4> SUFFICES ASSUME i + 2 * MaxHits - 1 <= Len(a) PROVE FALSE
        OBVIOUS
      <4>1. i + 2 * MaxHits - 1 \in DOMAIN a
        BY <2>2, <3>1, EntryIs, Numbers
      <4>2. a[i] + Window <= a[i + 2 * MaxHits - 1] /\ a[i + 2 * MaxHits - 1] <= now
        BY <2>1, <3>1, <4>1 DEF Spaced
      <4>3. a[i] \in Nat /\ a[i + 2 * MaxHits - 1] \in Nat
        BY <2>2, <3>1, <4>1
      <4> HIDE DEF a
      <4>4. a[i] + Window <= now
        BY <2>1, <4>2, <4>3, Numbers
      <4> QED BY <2>1, <3>1, <4>3, <4>4, Numbers
    <3> HIDE DEF a
    <3>3. i \in Nat /\ i <= Len(a)
      BY <2>2, <3>1
    <3>4. Len(a) - 2 * MaxHits + 2 <= i
      BY <2>2, <3>2, <3>3, Numbers
    <3> QED BY <2>2, <3>3, <3>4, Numbers
  <2>4. IsFiniteSet(T) /\ Cardinality(T) <= 2 * MaxHits - 1
    <3>1. Len(a) - 2 * MaxHits + 2 \in Int /\ Len(a) \in Int
      BY <2>2, EntryIs, Numbers
    <3> HIDE DEF a
    <3>2. /\ IsFiniteSet(T)
          /\ Cardinality(T) = IF Len(a) - 2 * MaxHits + 2 > Len(a) THEN 0
                              ELSE Len(a) - (Len(a) - 2 * MaxHits + 2) + 1
      BY <3>1, FS_Interval
    <3> QED BY <2>2, <3>2, EntryIs, Numbers
  <2>5. Cardinality(S) <= Cardinality(T) /\ IsFiniteSet(S)
    BY <2>3, <2>4, FS_Subset
  <2>6. Cardinality(S) \in Nat /\ Cardinality(T) \in Nat
    BY <2>4, <2>5, FS_CardinalityType
  <2> HIDE DEF S, T, a
  <2>7. Cardinality(S) < 2 * MaxHits
    BY <2>4, <2>5, <2>6, Numbers
  <2> QED BY <2>7 DEF S
<1> QED BY <1>1, InitIInv, NextIInv, PTL DEF Spec
=============================================================================
