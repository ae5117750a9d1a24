------------------------- MODULE ChatHistory_proofs -------------------------
(***************************************************************************)
(* Proofs about ChatHistory: what is kept of the messages, in memory and   *)
(* in the database, for any users, ids and times.                          *)
(*                                                                         *)
(* The operators of ChatSessionState sort and load by loops.  What a loop  *)
(* computes is proved by looking at the least round that goes wrong        *)
(* (Least): OrderExists for the sorting, UpsertAllIs for the loading.      *)
(***************************************************************************)
EXTENDS ChatHistory, FiniteSetTheorems, FunctionTheorems, WellFoundedInduction, TLAPS

-----------------------------------------------------------------------------
(* Numbers and sequences. *)

\* A set of numbers that is not empty has a least one.
LEMMA Least ==
    ASSUME NEW T \in SUBSET Nat, T # {}
    PROVE  \E n \in T : \A m \in T : n <= m
<1> DEFINE R == {ss \in Nat \X Nat : ss[1] < ss[2]}
<1>1. IsWellFoundedOn(R, Nat)
  BY NatLessThanWellFounded DEF OpToRel
<1> HIDE DEF R
<1>2. \E n \in T : \A m \in T : ~(<<m, n>> \in R)
  BY <1>1, WFMin
<1>3. PICK n \in T : \A m \in T : ~(<<m, n>> \in R)
  BY <1>2
<1>4. \A m \in T : n <= m
  <2> SUFFICES ASSUME NEW m \in T PROVE n <= m
    OBVIOUS
  <2>1. n \in Nat /\ m \in Nat
    OBVIOUS
  <2>2. <<m, n>> \notin R
    BY <1>3
  <2>3. ~(m < n)
    BY <2>1, <2>2 DEF R
  <2> QED BY <2>1, <2>3
<1> QED BY <1>4

LEMMA SeqIs ==
    ASSUME NEW S, NEW s \in Seq(S)
    PROVE  /\ Len(s) \in Nat
           /\ DOMAIN s = 1 .. Len(s)
           /\ \A k \in DOMAIN s : s[k] \in S
OBVIOUS

LEMMA FunctionIsSeq ==
    ASSUME NEW S, NEW n \in Nat, NEW s \in [1 .. n -> S]
    PROVE  s \in Seq(S) /\ Len(s) = n
OBVIOUS

\* No element twice.
Different(s) == \A j, k \in DOMAIN s : j < k => s[j] # s[k]

-----------------------------------------------------------------------------
(* Sorting. *)

\* A permutation of n places in the order of less.
Orders(p, n, less) ==
    /\ p \in Bijection(1 .. n, 1 .. n)
    /\ \A j, k \in 1 .. n : j < k => <<p[k], p[j]>> \notin less

\* One more place is put in where it belongs.
LEMMA OrderOneMore ==
    ASSUME NEW m \in Nat \ {0}, NEW less, NEW p, Orders(p, m - 1, less),
           \A a, b \in 1 .. m : <<a, b>> \in less => <<b, a>> \notin less,
           \A a, b, c \in 1 .. m :
               <<a, b>> \in less /\ <<c, b>> \notin less => <<c, a>> \notin less
    PROVE  \E q : Orders(q, m, less)
<1> DEFINE T == {k \in 1 .. m - 1 : <<m, p[k]>> \in less} \cup {m}
<1>1. PICK s \in T : \A k \in T : s <= k
  <2>1. T \in SUBSET Nat /\ T # {}
    OBVIOUS
  <2> QED BY <2>1, Least
<1>2. /\ s \in 1 .. m
      /\ s < m => <<m, p[s]>> \in less
      /\ \A k \in 1 .. m - 1 : k < s => <<m, p[k]>> \notin less
  BY <1>1
<1> HIDE DEF T
<1> DEFINE q == [k \in 1 .. m |-> IF k < s THEN p[k] ELSE IF k = s THEN m ELSE p[k - 1]]
<1>3. /\ p \in [1 .. m - 1 -> 1 .. m - 1]
      /\ \A j, k \in 1 .. m - 1 : p[j] = p[k] => j = k
      /\ \A t \in 1 .. m - 1 : \E k \in 1 .. m - 1 : p[k] = t
      /\ \A j, k \in 1 .. m - 1 : j < k => <<p[k], p[j]>> \notin less
  BY DEF Orders, Bijection, Injection, Surjection, IsInjective
<1>4. \A k \in 1 .. m :
          /\ k < s => k \in 1 .. m - 1 /\ q[k] = p[k] /\ p[k] \in 1 .. m - 1
          /\ k = s => q[k] = m
          /\ k > s => k - 1 \in 1 .. m - 1 /\ q[k] = p[k - 1] /\ p[k - 1] \in 1 .. m - 1
  <2> SUFFICES ASSUME NEW k \in 1 .. m
               PROVE  /\ k < s => k \in 1 .. m - 1 /\ q[k] = p[k] /\ p[k] \in 1 .. m - 1
                      /\ k = s => q[k] = m
                      /\ k > s => k - 1 \in 1 .. m - 1 /\ q[k] = p[k - 1] /\ p[k - 1] \in 1 .. m - 1
    OBVIOUS
  <2>1. k < s => k \in 1 .. m - 1 /\ q[k] = p[k]
    BY <1>2
  <2>2. k = s => q[k] = m
    BY <1>2
  <2>3. k > s => k - 1 \in 1 .. m - 1 /\ q[k] = p[k - 1]
    BY <1>2
  <2>4. \A j \in 1 .. m - 1 : p[j] \in 1 .. m - 1
    BY <1>3
  <2> HIDE DEF q
  <2> QED BY <2>1, <2>2, <2>3, <2>4
<1>5. q \in [1 .. m -> 1 .. m]
  <2>1. \A k \in 1 .. m : q[k] \in 1 .. m
    <3> SUFFICES ASSUME NEW k \in 1 .. m PROVE q[k] \in 1 .. m
      OBVIOUS
    <3>1. k < s \/ k = s \/ k > s
      BY <1>2
    <3> HIDE DEF q
    <3>2. CASE k = s
      <4>1. q[k] = m
        BY <3>2, <1>4
      <4>2. m \in 1 .. m
        OBVIOUS
      <4> QED BY <4>1, <4>2
    <3>3. CASE k # s
      <4>1. q[k] \in 1 .. m - 1
        BY <3>1, <3>3, <1>4
      <4> QED BY <4>1
    <3> QED BY <3>2, <3>3
  <2>2. q = [k \in 1 .. m |-> q[k]]
    OBVIOUS
  <2> HIDE DEF q
  <2> QED BY <2>1, <2>2
<1> HIDE DEF q
<1>6. \A j, k \in 1 .. m : q[j] = q[k] => j = k
  <2> SUFFICES ASSUME NEW j \in 1 .. m, NEW k \in 1 .. m, j < k
               PROVE  q[j] # q[k]
    OBVIOUS
  <2>1. CASE k < s
    BY <2>1, <1>2, <1>3, <1>4
  <2>2. CASE k = s
    <3>1. q[k] = m /\ q[j] \in 1 .. m - 1
      BY <2>2, <1>2, <1>4
    <3> QED BY <3>1
  <2>3. CASE j = s
    <3>1. q[j] = m /\ q[k] \in 1 .. m - 1
      BY <2>3, <1>2, <1>4
    <3> QED BY <3>1
  <2>4. CASE j > s
    <3>1. j - 1 \in 1 .. m - 1 /\ k - 1 \in 1 .. m - 1 /\ j - 1 # k - 1
      BY <2>4, <1>2
    <3>2. q[j] = p[j - 1] /\ q[k] = p[k - 1]
      BY <2>4, <1>2, <1>4
    <3> QED BY <3>1, <3>2, <1>3
  <2>5. CASE j < s /\ k > s
    <3>1. j \in 1 .. m - 1 /\ k - 1 \in 1 .. m - 1 /\ j # k - 1
      BY <2>5, <1>2
    <3>2. q[j] = p[j] /\ q[k] = p[k - 1]
      BY <2>5, <1>4
    <3> QED BY <3>1, <3>2, <1>3
  <2> QED BY <2>1, <2>2, <2>3, <2>4, <2>5, <1>2
<1>7. \A t \in 1 .. m : \E k \in 1 .. m : q[k] = t
  <2> SUFFICES ASSUME NEW t \in 1 .. m PROVE \E k \in 1 .. m : q[k] = t
    OBVIOUS
  <2>1. CASE t = m
    BY <2>1, <1>2, <1>4
  <2>2. CASE t # m
    <3>1. t \in 1 .. m - 1
      BY <2>2
    <3>2. PICK k \in 1 .. m - 1 : p[k] = t
      BY <3>1, <1>3
    <3>3. CASE k < s
      BY <3>2, <3>3, <1>4
    <3>4. CASE k >= s
      <4>1. k + 1 \in 1 .. m /\ k + 1 > s /\ (k + 1) - 1 = k
        BY <3>4, <1>2
      <4>2. q[k + 1] = p[k]
        BY <4>1, <1>4
      <4> QED BY <3>2, <4>1, <4>2
    <3> QED BY <3>3, <3>4, <1>2
  <2> QED BY <2>1, <2>2
<1>8. ASSUME NEW j \in 1 .. m, NEW k \in 1 .. m, j < k
      PROVE  <<q[k], q[j]>> \notin less
  <2>1. CASE k < s
    <3>1. j \in 1 .. m - 1 /\ k \in 1 .. m - 1 /\ q[j] = p[j] /\ q[k] = p[k]
      BY <2>1, <1>8, <1>2, <1>4
    <3> QED BY <3>1, <1>3, <1>8
  <2>2. CASE k = s
    <3>1. j \in 1 .. m - 1 /\ j < s /\ q[j] = p[j] /\ q[k] = m
      BY <2>2, <1>8, <1>2, <1>4
    <3> QED BY <3>1, <1>2
  <2>3. CASE j > s
    <3>1. /\ j - 1 \in 1 .. m - 1 /\ k - 1 \in 1 .. m - 1 /\ j - 1 < k - 1
          /\ q[j] = p[j - 1] /\ q[k] = p[k - 1]
      BY <2>3, <1>8, <1>2, <1>4
    <3> QED BY <3>1, <1>3
  <2>4. CASE j < s /\ k > s
    <3>1. /\ j \in 1 .. m - 1 /\ k - 1 \in 1 .. m - 1 /\ j < k - 1
          /\ q[j] = p[j] /\ q[k] = p[k - 1]
      BY <2>4, <1>8, <1>2, <1>4
    <3> QED BY <3>1, <1>3
  <2>5. CASE j = s
    <3>1. /\ s \in 1 .. m - 1 /\ k - 1 \in 1 .. m - 1 /\ s <= k - 1
          /\ q[j] = m /\ q[k] = p[k - 1]
      BY <2>5, <1>8, <1>2, <1>4
    <3>2. <<m, p[s]>> \in less
      BY <3>1, <1>2
    <3>3. p[s] \in 1 .. m /\ p[k - 1] \in 1 .. m /\ m \in 1 .. m
      <4>1. \A i \in 1 .. m - 1 : p[i] \in 1 .. m - 1
        BY <1>3
      <4>2. p[s] \in 1 .. m - 1 /\ p[k - 1] \in 1 .. m - 1
        BY <3>1, <4>1
      <4> QED BY <4>2
    <3>4. CASE s = k - 1
      BY <3>1, <3>2, <3>3, <3>4
    <3>5. CASE s < k - 1
      <4>1. <<p[k - 1], p[s]>> \notin less
        BY <3>1, <3>5, <1>3
      <4> QED BY <4>1, <3>1, <3>2, <3>3
    <3> QED BY <3>1, <3>4, <3>5
  <2> QED BY <2>1, <2>2, <2>3, <2>4, <2>5, <1>2
<1>9. q \in Bijection(1 .. m, 1 .. m)
  BY <1>5, <1>6, <1>7 DEF Bijection, Injection, Surjection, IsInjective
<1> QED BY <1>8, <1>9 DEF Orders

\* Every finite number of places can be put in order.
LEMMA OrderExists ==
    ASSUME NEW n \in Nat, NEW less,
           \A a, b \in 1 .. n : <<a, b>> \in less => <<b, a>> \notin less,
           \A a, b, c \in 1 .. n :
               <<a, b>> \in less /\ <<c, b>> \notin less => <<c, a>> \notin less
    PROVE  \E p : Orders(p, n, less)
<1> DEFINE T == {m \in 0 .. n : ~\E p : Orders(p, m, less)}
<1> SUFFICES ASSUME T # {} PROVE FALSE
  <2>1. n \in 0 .. n
    OBVIOUS
  <2> QED BY <2>1
<1>1. PICK m \in T : \A k \in T : m <= k
  <2>1. T \in SUBSET Nat
    OBVIOUS
  <2> QED BY <2>1, Least
<1>2. CASE m = 0
  <2> DEFINE p == [k \in 1 .. 0 |-> k]
  <2>1. p \in Bijection(1 .. 0, 1 .. 0)
    BY DEF Bijection, Injection, Surjection, IsInjective
  <2>2. \A j, k \in 1 .. 0 : j < k => <<p[k], p[j]>> \notin less
    OBVIOUS
  <2> HIDE DEF p
  <2>3. Orders(p, 0, less)
    BY <2>1, <2>2 DEF Orders
  <2> QED BY <1>1, <1>2, <2>3
<1>3. CASE m # 0
  <2>1. m \in Nat \ {0} /\ m \in 1 .. n /\ m - 1 \in 0 .. n /\ ~(m <= m - 1)
    BY <1>1, <1>3
  <2>2. PICK p : Orders(p, m - 1, less)
    BY <2>1, <1>1
  <2>3. /\ \A a, b \in 1 .. m : <<a, b>> \in less => <<b, a>> \notin less
        /\ \A a, b, c \in 1 .. m :
               <<a, b>> \in less /\ <<c, b>> \notin less => <<c, a>> \notin less
    <3>1. \A a \in 1 .. m : a \in 1 .. n
      BY <2>1
    <3> QED BY <3>1
  <2>4. \E q : Orders(q, m, less)
    BY <2>1, <2>2, <2>3, OrderOneMore
  <2> QED BY <2>4, <1>1
<1> QED BY <1>2, <1>3

\* Ids in the order of messageComesBefore.
Ordered(msgs, ids) == \A j, k \in DOMAIN ids : j < k => Before(msgs, ids[j], ids[k])

LEMMA OrderedIsDifferent ==
    ASSUME NEW msgs, NEW ids \in Seq(Ids), Ordered(msgs, ids),
           \A i \in ToSet(ids) : msgs[i].at \in Nat
    PROVE  Different(ids)
<1> SUFFICES ASSUME NEW j \in DOMAIN ids, NEW k \in DOMAIN ids, j < k, ids[j] = ids[k]
             PROVE  FALSE
  BY DEF Different
<1>1. Before(msgs, ids[j], ids[j])
  BY DEF Ordered
<1>2. msgs[ids[j]].at \in Nat /\ ids[j] \in Nat
  <2>1. ids[j] \in ToSet(ids)
    BY DEF ToSet
  <2>2. ids[j] \in Ids
    BY SeqIs
  <2>3. ids[j] \in Nat
    BY <2>2 DEF Ids
  <2> QED BY <2>1, <2>3
<1> QED BY <1>1, <1>2 DEF Before

\* The order of two ids: one comes before the other, and what comes before the first of
\* two that are in order comes before the second.
LEMMA BeforeIsOrder ==
    ASSUME NEW msgs, NEW S \in SUBSET Ids, \A i \in S : msgs[i].at \in Nat
    PROVE  /\ \A i, j \in S : Before(msgs, i, j) => ~Before(msgs, j, i)
           /\ \A i, j \in S : i # j => Before(msgs, i, j) \/ Before(msgs, j, i)
           /\ \A i, j, k \in S : Before(msgs, i, j) /\ ~Before(msgs, k, j) => ~Before(msgs, k, i)
<1>1. \A i \in S : i \in Nat /\ msgs[i].at \in Nat
  BY DEF Ids
<1> QED BY <1>1 DEF Before

\* A sorted list of different ids.
LEMMA SortedIs ==
    ASSUME NEW msgs, NEW ids \in Seq(Ids), Different(ids),
           \A i \in ToSet(ids) : msgs[i].at \in Nat
    PROVE  /\ Sorted(msgs, ids) \in Seq(Ids)
           /\ ToSet(Sorted(msgs, ids)) = ToSet(ids)
           /\ Len(Sorted(msgs, ids)) = Len(ids)
           /\ Ordered(msgs, Sorted(msgs, ids))
<1> DEFINE n == Len(ids)
           less == {ss \in (1 .. n) \X (1 .. n) : Before(msgs, ids[ss[1]], ids[ss[2]])}
           Fits(p) == /\ p \in Bijection(DOMAIN ids, DOMAIN ids)
                      /\ \A j, k \in DOMAIN ids : j < k => ~Before(msgs, ids[p[k]], ids[p[j]])
<1>1. n \in Nat /\ DOMAIN ids = 1 .. n /\ \A k \in 1 .. n : ids[k] \in Ids
  BY SeqIs
<1>2. /\ ToSet(ids) \in SUBSET Ids
      /\ \A k \in 1 .. n : ids[k] \in ToSet(ids)
  BY <1>1 DEF ToSet
<1> HIDE DEF n
<1>3. \A a, b \in 1 .. n : <<a, b>> \in less <=> Before(msgs, ids[a], ids[b])
  OBVIOUS
<1> HIDE DEF less
<1>4. /\ \A i, j \in ToSet(ids) : Before(msgs, i, j) => ~Before(msgs, j, i)
      /\ \A i, j \in ToSet(ids) : i # j => Before(msgs, i, j) \/ Before(msgs, j, i)
      /\ \A i, j, k \in ToSet(ids) :
             Before(msgs, i, j) /\ ~Before(msgs, k, j) => ~Before(msgs, k, i)
  <2>1. \A i \in ToSet(ids) : msgs[i].at \in Nat
    OBVIOUS
  <2> QED BY <1>2, <2>1, BeforeIsOrder
<1>5. PICK q : Orders(q, n, less)
  <2>1. \A a, b \in 1 .. n : <<a, b>> \in less => <<b, a>> \notin less
    BY <1>2, <1>3, <1>4
  <2>2. \A a, b, c \in 1 .. n :
            <<a, b>> \in less /\ <<c, b>> \notin less => <<c, a>> \notin less
    BY <1>2, <1>3, <1>4
  <2> QED BY <1>1, <2>1, <2>2, OrderExists
<1>6. Fits(q)
  <2>1. /\ q \in Bijection(1 .. n, 1 .. n)
        /\ \A j, k \in 1 .. n : j < k => <<q[k], q[j]>> \notin less
    BY <1>5 DEF Orders
  <2>2. \A j \in 1 .. n : q[j] \in 1 .. n
    BY <2>1 DEF Bijection, Injection
  <2> QED BY <2>1, <2>2, <1>1, <1>3
<1> DEFINE p == CHOOSE p \in Bijection(DOMAIN ids, DOMAIN ids) :
                    \A j, k \in DOMAIN ids : j < k => ~Before(msgs, ids[p[k]], ids[p[j]])
<1>7. Fits(p)
  BY <1>6
<1>8. Sorted(msgs, ids) = [k \in 1 .. n |-> ids[p[k]]]
  BY <1>1 DEF Sorted
<1> HIDE DEF p
<1>9. /\ \A k \in 1 .. n : p[k] \in 1 .. n
      /\ \A j, k \in 1 .. n : p[j] = p[k] => j = k
      /\ \A t \in 1 .. n : \E k \in 1 .. n : p[k] = t
      /\ \A j, k \in 1 .. n : j < k => ~Before(msgs, ids[p[k]], ids[p[j]])
  BY <1>1, <1>7 DEF Bijection, Injection, Surjection, IsInjective
<1> DEFINE s == [k \in 1 .. n |-> ids[p[k]]]
<1>10. s \in [1 .. n -> Ids]
  BY <1>1, <1>9
<1>11. s \in Seq(Ids) /\ Len(s) = n
  BY <1>1, <1>10, FunctionIsSeq
<1>12. \A i : i \in ToSet(s) <=> i \in ToSet(ids)
  <2>1. \A k \in 1 .. n : s[k] = ids[p[k]]
    OBVIOUS
  <2>2. DOMAIN s = 1 .. n
    OBVIOUS
  <2> HIDE DEF s
  <2>3. ASSUME NEW i \in ToSet(s) PROVE i \in ToSet(ids)
    <3>1. PICK k \in 1 .. n : s[k] = i
      BY <2>2 DEF ToSet
    <3>2. i = ids[p[k]] /\ p[k] \in 1 .. n
      BY <2>1, <3>1, <1>9
    <3> QED BY <3>2, <1>2
  <2>4. ASSUME NEW i \in ToSet(ids) PROVE i \in ToSet(s)
    <3>1. PICK t \in 1 .. n : ids[t] = i
      BY <1>1 DEF ToSet
    <3>2. PICK k \in 1 .. n : p[k] = t
      BY <1>9
    <3> QED BY <2>1, <2>2, <3>1, <3>2 DEF ToSet
  <2> QED BY <2>3, <2>4
<1>13. Ordered(msgs, s)
  <2>1. DOMAIN s = 1 .. n /\ \A k \in 1 .. n : s[k] = ids[p[k]]
    OBVIOUS
  <2> HIDE DEF s
  <2> SUFFICES ASSUME NEW j \in 1 .. n, NEW k \in 1 .. n, j < k
               PROVE  Before(msgs, s[j], s[k])
    BY <2>1 DEF Ordered
  <2>2. p[j] \in 1 .. n /\ p[k] \in 1 .. n /\ p[j] # p[k]
    <3>1. \A x \in 1 .. n : p[x] \in 1 .. n
      BY <1>9
    <3>2. \A x, y \in 1 .. n : p[x] = p[y] => x = y
      BY <1>9
    <3>3. j # k
      BY <1>1
    <3> QED BY <3>1, <3>2, <3>3
  <2>3. ids[p[j]] # ids[p[k]]
    <3>1. p[j] < p[k] \/ p[k] < p[j]
      BY <2>2, <1>1
    <3> QED BY <2>2, <3>1, <1>1 DEF Different
  <2>4. ~Before(msgs, ids[p[k]], ids[p[j]])
    BY <1>9
  <2> QED BY <2>1, <2>2, <2>3, <2>4, <1>2, <1>4
<1> HIDE DEF s
<1>14. Sorted(msgs, ids) = s
  BY <1>8 DEF s
<1>15. ToSet(s) = ToSet(ids)
  BY <1>12
<1>16. Len(s) = Len(ids)
  BY <1>11 DEF n
<1> QED BY <1>11, <1>13, <1>14, <1>15, <1>16

\* A set of ids as a list of different ones.
LEMMA SetToSeqIs ==
    ASSUME NEW S \in SUBSET Ids
    PROVE  /\ SetToSeq(S) \in Seq(Ids)
           /\ ToSet(SetToSeq(S)) = S
           /\ Different(SetToSeq(S))
<1>1. IsFiniteSet(S)
  <2>1. IsFiniteSet(Ids)
    BY HistoryAssumption, FS_Interval DEF HistoryAssumption, Ids
  <2> QED BY <2>1, FS_Subset
<1> DEFINE n == Cardinality(S)
           f == CHOOSE f \in [1 .. n -> S] : IsInjective(f)
<1>2. n \in Nat /\ Bijection(1 .. n, S) # {}
  BY <1>1, FS_CardinalityType DEF ExistsBijection
<1>3. PICK g : g \in [1 .. n -> S] /\ IsInjective(g)
  BY <1>2 DEF Bijection, Injection
<1>4. f \in [1 .. n -> S] /\ IsInjective(f)
  BY <1>3
<1>5. SetToSeq(S) = f
  BY DEF SetToSeq
<1> HIDE DEF f
<1>6. f \in Surjection(1 .. n, S)
  <2>1. f \in Injection(1 .. n, S)
    BY <1>4 DEF Injection
  <2>2. Cardinality(1 .. n) = Cardinality(S)
    BY <1>2, FS_Interval
  <2> QED BY <1>1, <2>1, <2>2, FS_Injection
<1> HIDE DEF n
<1>7. f \in [1 .. n -> Ids]
  BY <1>4
<1>8. f \in Seq(Ids)
  BY <1>2, <1>7, FunctionIsSeq
<1>9. DOMAIN f = 1 .. n
  BY <1>4
<1>10. \A i : i \in ToSet(f) <=> i \in S
  <2>1. \A i \in S : \E k \in 1 .. n : f[k] = i
    BY <1>6 DEF Surjection
  <2> QED BY <2>1, <1>4, <1>9 DEF ToSet
<1>11. Different(f)
  <2> SUFFICES ASSUME NEW j \in 1 .. n, NEW k \in 1 .. n, j < k PROVE f[j] # f[k]
    BY <1>9 DEF Different
  <2>1. j # k
    BY <1>2
  <2> QED BY <2>1, <1>4, <1>9 DEF IsInjective
<1> QED BY <1>5, <1>8, <1>10, <1>11

-----------------------------------------------------------------------------
(* Books. *)

Books == [msgs : Partial(Ids, Messages), lists : [Chats -> Seq(Ids)]]

InChat(msgs, c) == {i \in DOMAIN msgs : msgs[i].chat = c}

\* Each chat is whole and in order.
Arranged(b) == \A c \in Chats : /\ ToSet(b.lists[c]) = InChat(b.msgs, c)
                               /\ Ordered(b.msgs, b.lists[c])

IsBook(b) == b \in Books /\ Arranged(b)

LEMMA PartialIs ==
    ASSUME NEW S, NEW T
    PROVE  \A f : f \in Partial(S, T) <=> /\ f = [x \in DOMAIN f |-> f[x]]
                                          /\ DOMAIN f \subseteq S
                                          /\ \A x \in DOMAIN f : f[x] \in T
<1>1. ASSUME NEW f \in Partial(S, T)
      PROVE  /\ f = [x \in DOMAIN f |-> f[x]]
             /\ DOMAIN f \subseteq S
             /\ \A x \in DOMAIN f : f[x] \in T
  <2>1. PICK D \in SUBSET S : f \in [D -> T]
    BY DEF Partial
  <2> QED BY <2>1
<1>2. ASSUME NEW f, f = [x \in DOMAIN f |-> f[x]], DOMAIN f \subseteq S,
             \A x \in DOMAIN f : f[x] \in T
      PROVE  f \in Partial(S, T)
  <2>1. f \in [DOMAIN f -> T]
    BY <1>2
  <2> QED BY <2>1, <1>2 DEF Partial
<1> QED BY <1>1, <1>2

LEMMA BookIs ==
    ASSUME NEW b \in Books
    PROVE  /\ b.msgs \in Partial(Ids, Messages)
           /\ b.lists \in [Chats -> Seq(Ids)]
           /\ b = [msgs |-> b.msgs, lists |-> b.lists]
           /\ DOMAIN b.msgs \subseteq Ids
           /\ \A i \in DOMAIN b.msgs : b.msgs[i] \in Messages
           /\ \A c \in Chats : b.lists[c] \in Seq(Ids)
<1>1. /\ b.msgs \in Partial(Ids, Messages)
      /\ b.lists \in [Chats -> Seq(Ids)]
      /\ b = [msgs |-> b.msgs, lists |-> b.lists]
  BY DEF Books
<1>2. DOMAIN b.msgs \subseteq Ids /\ \A i \in DOMAIN b.msgs : b.msgs[i] \in Messages
  BY <1>1, PartialIs
<1> QED BY <1>1, <1>2

LEMMA MessageIs ==
    ASSUME NEW m \in Messages
    PROVE  m.chat \in Chats /\ m.status \in Statuses /\ m.at \in Nat /\ m.at \in Times
BY DEF Messages, Times

LEMMA PutIs ==
    ASSUME NEW msgs \in Partial(Ids, Messages), NEW i \in Ids, NEW m \in Messages
    PROVE  /\ Put(msgs, i, m) \in Partial(Ids, Messages)
           /\ DOMAIN Put(msgs, i, m) = DOMAIN msgs \cup {i}
           /\ Put(msgs, i, m)[i] = m
           /\ \A j \in DOMAIN msgs : j # i => Put(msgs, i, m)[j] = msgs[j]
<1>1. /\ DOMAIN msgs \subseteq Ids
      /\ \A x \in DOMAIN msgs : msgs[x] \in Messages
  BY PartialIs
<1>2. /\ DOMAIN Put(msgs, i, m) = DOMAIN msgs \cup {i}
      /\ Put(msgs, i, m)[i] = m
      /\ \A j \in DOMAIN msgs : j # i => Put(msgs, i, m)[j] = msgs[j]
  BY DEF Put
<1>3. Put(msgs, i, m) \in [DOMAIN msgs \cup {i} -> Messages]
  BY <1>1 DEF Put
<1>4. DOMAIN msgs \cup {i} \in SUBSET Ids
  BY <1>1
<1>5. Put(msgs, i, m) \in Partial(Ids, Messages)
  BY <1>3, <1>4 DEF Partial
<1> QED BY <1>2, <1>5

LEMMA AppendIs ==
    ASSUME NEW ids \in Seq(Ids), NEW i \in Ids, i \notin ToSet(ids), Different(ids)
    PROVE  /\ Append(ids, i) \in Seq(Ids)
           /\ \A j : j \in ToSet(Append(ids, i)) <=> j = i \/ j \in ToSet(ids)
           /\ Different(Append(ids, i))
<1> DEFINE n == Len(ids)
           s == Append(ids, i)
<1>1. /\ n \in Nat /\ DOMAIN ids = 1 .. n
      /\ s \in Seq(Ids) /\ DOMAIN s = 1 .. n + 1
      /\ \A k \in 1 .. n : s[k] = ids[k]
      /\ s[n + 1] = i
  OBVIOUS
<1> HIDE DEF n, s
<1>2. \A k \in 1 .. n + 1 : k \in 1 .. n \/ k = n + 1
  BY <1>1
<1>3. \A j : j \in ToSet(s) <=> j = i \/ j \in ToSet(ids)
  <2>1. ASSUME NEW j \in ToSet(s) PROVE j = i \/ j \in ToSet(ids)
    <3>1. PICK k \in 1 .. n + 1 : s[k] = j
      BY <1>1 DEF ToSet
    <3> QED BY <3>1, <1>1, <1>2 DEF ToSet
  <2>2. i \in ToSet(s)
    <3>1. n + 1 \in 1 .. n + 1
      BY <1>1
    <3> QED BY <3>1, <1>1 DEF ToSet
  <2>3. ASSUME NEW j \in ToSet(ids) PROVE j \in ToSet(s)
    <3>1. PICK k \in 1 .. n : ids[k] = j
      BY <1>1 DEF ToSet
    <3>2. k \in 1 .. n + 1 /\ s[k] = j
      BY <3>1, <1>1
    <3> QED BY <3>2, <1>1 DEF ToSet
  <2> QED BY <2>1, <2>2, <2>3
<1>4. Different(s)
  <2> SUFFICES ASSUME NEW j \in 1 .. n + 1, NEW k \in 1 .. n + 1, j < k
               PROVE  s[j] # s[k]
    BY <1>1 DEF Different
  <2>1. j \in 1 .. n
    BY <1>1
  <2>2. s[j] = ids[j] /\ s[j] \in ToSet(ids)
    BY <2>1, <1>1 DEF ToSet
  <2>3. CASE k = n + 1
    BY <2>2, <2>3, <1>1
  <2>4. CASE k \in 1 .. n
    BY <2>1, <2>2, <2>4, <1>1 DEF Different
  <2> QED BY <2>3, <2>4, <1>2
<1> QED BY <1>1, <1>3, <1>4 DEF s

\* Messages that did not change, in order as before.
LEMMA OrderedStays ==
    ASSUME NEW msgs, NEW msgs2, NEW ids, Ordered(msgs, ids),
           \A i \in ToSet(ids) : msgs2[i].at = msgs[i].at
    PROVE  Ordered(msgs2, ids)
BY DEF Ordered, Before, ToSet

\* upsertMessage of a message that does not change its chat.
LEMMA UpsertIs ==
    ASSUME NEW b, IsBook(b), NEW i \in Ids, NEW m \in Messages,
           i \in DOMAIN b.msgs => b.msgs[i].chat = m.chat
    PROVE  /\ IsBook(Upsert(b, i, m))
           /\ Upsert(b, i, m).msgs = Put(b.msgs, i, m)
<1> DEFINE msgs == Put(b.msgs, i, m)
           c0 == m.chat
           old == b.lists[c0]
           new == Filed(old, i)
           lists == [b.lists EXCEPT ![c0] = Sorted(msgs, new)]
<1>1. /\ b \in Books
      /\ \A c \in Chats : ToSet(b.lists[c]) = InChat(b.msgs, c) /\ Ordered(b.msgs, b.lists[c])
  BY DEF IsBook, Arranged
<1>2. /\ b.msgs \in Partial(Ids, Messages)
      /\ b.lists \in [Chats -> Seq(Ids)]
      /\ DOMAIN b.msgs \subseteq Ids
      /\ \A j \in DOMAIN b.msgs : b.msgs[j] \in Messages
      /\ \A c \in Chats : b.lists[c] \in Seq(Ids)
  BY <1>1, BookIs
<1>3. c0 \in Chats /\ old \in Seq(Ids)
  BY <1>2, MessageIs
<1>4. /\ msgs \in Partial(Ids, Messages)
      /\ DOMAIN msgs = DOMAIN b.msgs \cup {i}
      /\ msgs[i] = m
      /\ \A j \in DOMAIN b.msgs : j # i => msgs[j] = b.msgs[j]
  BY <1>2, PutIs
<1>5. Upsert(b, i, m) = [msgs |-> msgs, lists |-> lists]
  <2>1. [c \in Chats |-> IF c # m.chat /\ i \in DOMAIN b.msgs /\ c = b.msgs[i].chat
                         THEN Remove(b.lists[c], i) ELSE b.lists[c]] = b.lists
    BY <1>2
  <2> QED BY <2>1 DEF Upsert
<1> HIDE DEF msgs
<1>6. /\ new \in Seq(Ids) /\ Different(new)
      /\ \A j : j \in ToSet(new) <=> j = i \/ j \in ToSet(old)
  <2>1. \A j \in ToSet(old) : b.msgs[j].at \in Nat
    BY <1>1, <1>2, <1>3, MessageIs DEF InChat
  <2>2. Different(old)
    BY <2>1, <1>1, <1>3, OrderedIsDifferent
  <2>3. CASE i \in ToSet(old)
    BY <2>2, <2>3, <1>3 DEF Filed
  <2>4. CASE i \notin ToSet(old)
    BY <2>2, <2>4, <1>3, AppendIs DEF Filed
  <2> QED BY <2>3, <2>4
<1>7. \A j \in DOMAIN msgs : msgs[j] \in Messages
  BY <1>4, <1>2
<1>8. \A j : j \in ToSet(new) <=> j \in InChat(msgs, c0)
  BY <1>1, <1>3, <1>4, <1>6 DEF InChat
<1> HIDE DEF new
<1>9. /\ Sorted(msgs, new) \in Seq(Ids)
      /\ ToSet(Sorted(msgs, new)) = ToSet(new)
      /\ Ordered(msgs, Sorted(msgs, new))
  <2>1. \A j \in ToSet(new) : msgs[j].at \in Nat
    BY <1>7, <1>8, MessageIs DEF InChat
  <2> QED BY <2>1, <1>6, SortedIs
<1>10. lists \in [Chats -> Seq(Ids)]
  BY <1>2, <1>9
<1>11. ASSUME NEW c \in Chats
       PROVE  ToSet(lists[c]) = InChat(msgs, c) /\ Ordered(msgs, lists[c])
  <2>1. CASE c = c0
    <3>1. lists[c] = Sorted(msgs, new)
      BY <2>1, <1>2, <1>3
    <3>2. ToSet(new) = InChat(msgs, c0)
      BY <1>8
    <3> QED BY <3>1, <3>2, <2>1, <1>9
  <2>2. CASE c # c0
    <3>1. lists[c] = b.lists[c]
      BY <2>2, <1>2
    <3>2. \A j : j \in InChat(msgs, c) <=> j \in InChat(b.msgs, c)
      BY <2>2, <1>4 DEF InChat
    <3>3. InChat(msgs, c) = InChat(b.msgs, c)
      BY <3>2
    <3>4. \A j \in ToSet(b.lists[c]) : msgs[j].at = b.msgs[j].at
      <4>1. \A j \in InChat(msgs, c) : j # i /\ j \in DOMAIN b.msgs
        BY <2>2, <1>4 DEF InChat
      <4>2. ToSet(b.lists[c]) = InChat(msgs, c)
        BY <3>3, <1>1
      <4> QED BY <4>1, <4>2, <1>4
    <3>5. Ordered(msgs, b.lists[c])
      BY <3>4, <1>1, OrderedStays
    <3> QED BY <3>1, <3>3, <3>5, <1>1
  <2> QED BY <2>1, <2>2
<1> HIDE DEF lists
<1>12. IsBook([msgs |-> msgs, lists |-> lists])
  BY <1>4, <1>10, <1>11 DEF IsBook, Books, Arranged
<1> QED BY <1>5, <1>12 DEF msgs

\* What the loop makes of b after each of its rounds.
Rounds(books, b, items, msg, n) ==
    books = [k \in 0 .. n |->
                IF k = 0 THEN b ELSE Upsert(books[k - 1], items[k], msg[items[k]])]

LEMMA RoundsExist ==
    ASSUME NEW b, NEW items, NEW msg, NEW n \in Nat
    PROVE  \E books : Rounds(books, b, items, msg, n)
<1> DEFINE T == {m \in 0 .. n : ~\E f : Rounds(f, b, items, msg, m)}
<1> SUFFICES ASSUME T # {} PROVE FALSE
  <2>1. n \in 0 .. n
    OBVIOUS
  <2> QED BY <2>1
<1>1. PICK m \in T : \A k \in T : m <= k
  <2>1. T \in SUBSET Nat
    OBVIOUS
  <2> QED BY <2>1, Least
<1>2. CASE m = 0
  <2> DEFINE f == [k \in 0 .. 0 |-> b]
  <2>1. f = [k \in 0 .. 0 |-> IF k = 0 THEN b ELSE Upsert(f[k - 1], items[k], msg[items[k]])]
    OBVIOUS
  <2> HIDE DEF f
  <2>2. Rounds(f, b, items, msg, 0)
    BY <2>1 DEF Rounds
  <2> QED BY <1>1, <1>2, <2>2
<1>3. CASE m # 0
  <2>1. m \in Nat \ {0} /\ m - 1 \in 0 .. n /\ ~(m <= m - 1)
    BY <1>1, <1>3
  <2>2. PICK g : Rounds(g, b, items, msg, m - 1)
    BY <2>1, <1>1
  <2>3. \A k \in 0 .. m - 1 :
            g[k] = IF k = 0 THEN b ELSE Upsert(g[k - 1], items[k], msg[items[k]])
    BY <2>2 DEF Rounds
  <2> DEFINE f == [k \in 0 .. m |->
                      IF k < m THEN g[k] ELSE Upsert(g[m - 1], items[m], msg[items[m]])]
  <2>4. /\ \A k \in 0 .. m : k # m => f[k] = g[k]
        /\ f[m] = Upsert(g[m - 1], items[m], msg[items[m]])
        /\ f = [k \in 0 .. m |-> f[k]]
    BY <2>1
  <2> HIDE DEF f
  <2>5. ASSUME NEW k \in 0 .. m
        PROVE  f[k] = IF k = 0 THEN b ELSE Upsert(f[k - 1], items[k], msg[items[k]])
    <3>1. CASE k = m
      <4>1. m - 1 \in 0 .. m /\ m - 1 # m /\ m # 0
        BY <2>1
      <4>2. f[m - 1] = g[m - 1]
        BY <4>1, <2>4
      <4> QED BY <3>1, <4>1, <4>2, <2>4
    <3>2. CASE k # m
      <4>1. k \in 0 .. m - 1 /\ f[k] = g[k]
        BY <3>2, <2>1, <2>4
      <4>2. CASE k = 0
        BY <4>1, <4>2, <2>3
      <4>3. CASE k # 0
        <5>1. k - 1 \in 0 .. m /\ k - 1 # m
          BY <4>1, <4>3, <2>1
        <5>2. f[k - 1] = g[k - 1]
          BY <5>1, <2>4
        <5> QED BY <4>1, <4>3, <5>2, <2>3
      <4> QED BY <4>2, <4>3
    <3> QED BY <3>1, <3>2
  <2>6. Rounds(f, b, items, msg, m)
    BY <2>4, <2>5 DEF Rounds
  <2> QED BY <2>6, <1>1
<1> QED BY <1>2, <1>3

LEMMA UpsertAllRounds ==
    ASSUME NEW b, NEW items, NEW msg, Len(items) \in Nat
    PROVE  \E books : /\ Rounds(books, b, items, msg, Len(items))
                      /\ UpsertAll(b, items, msg) = books[Len(items)]
<1> DEFINE books[k \in 0 .. Len(items)] ==
               IF k = 0 THEN b ELSE Upsert(books[k - 1], items[k], msg[items[k]])
<1>1. \E f : Rounds(f, b, items, msg, Len(items))
  BY RoundsExist
<1>2. Rounds(books, b, items, msg, Len(items))
  BY <1>1 DEF Rounds
<1>3. UpsertAll(b, items, msg) = books[Len(items)]
  BY DEF UpsertAll
<1> QED BY <1>2, <1>3

\* The messages of b after upsertMessage of the first k items.
MsgsAfter(old, b, items, msg, k) ==
    /\ \A i : i \in DOMAIN b.msgs <=>
              i \in DOMAIN old.msgs \/ \E j \in 1 .. k : items[j] = i
    /\ \A i \in DOMAIN b.msgs :
           b.msgs[i] = IF \E j \in 1 .. k : items[j] = i THEN msg[i] ELSE old.msgs[i]

\* upsertMessage of several messages, each filed where it is already if it is known.
LEMMA UpsertAllIs ==
    ASSUME NEW b, IsBook(b), NEW items \in Seq(Ids), NEW msg,
           \A i \in ToSet(items) : /\ msg[i] \in Messages
                                   /\ i \in DOMAIN b.msgs => b.msgs[i].chat = msg[i].chat
    PROVE  /\ IsBook(UpsertAll(b, items, msg))
           /\ \A i : i \in DOMAIN UpsertAll(b, items, msg).msgs <=>
                     i \in DOMAIN b.msgs \/ i \in ToSet(items)
           /\ \A i \in DOMAIN UpsertAll(b, items, msg).msgs :
                  UpsertAll(b, items, msg).msgs[i] =
                      IF i \in ToSet(items) THEN msg[i] ELSE b.msgs[i]
<1> DEFINE n == Len(items)
<1>1. n \in Nat /\ DOMAIN items = 1 .. n
  BY SeqIs
<1>2. \A i : i \in ToSet(items) <=> \E j \in 1 .. n : items[j] = i
  BY <1>1 DEF ToSet
<1>3. PICK f : Rounds(f, b, items, msg, n) /\ UpsertAll(b, items, msg) = f[n]
  BY <1>1, UpsertAllRounds
<1>a. \A j \in 1 .. n : items[j] \in Ids /\ items[j] \in ToSet(items)
  BY <1>1, <1>2, SeqIs
<1> HIDE DEF n
<1>4. \A k \in 0 .. n : f[k] = IF k = 0 THEN b ELSE Upsert(f[k - 1], items[k], msg[items[k]])
  BY <1>3 DEF Rounds
<1> DEFINE Good(k) == IsBook(f[k]) /\ MsgsAfter(b, f[k], items, msg, k)
           T == {k \in 0 .. n : ~Good(k)}
<1>5. Good(0)
  <2>1. f[0] = b
    BY <1>1, <1>4
  <2>2. ~\E j \in 1 .. 0 : TRUE
    OBVIOUS
  <2>3. MsgsAfter(b, b, items, msg, 0)
    BY <2>2 DEF MsgsAfter
  <2> QED BY <2>1, <2>3
<1>6. ASSUME NEW k \in 1 .. n, Good(k - 1) PROVE Good(k)
  <2> DEFINE i == items[k]
             m == msg[i]
             a == f[k - 1]
  <2>1. i \in Ids /\ i \in ToSet(items)
    BY <1>a
  <2>2. m \in Messages /\ (i \in DOMAIN b.msgs => b.msgs[i].chat = m.chat)
    BY <2>1
  <2>3. IsBook(a) /\ MsgsAfter(b, a, items, msg, k - 1)
    BY <1>6
  <2>4. f[k] = Upsert(a, i, m)
    <3>1. k \in 0 .. n /\ k # 0
      BY <1>1
    <3> QED BY <3>1, <1>4
  <2> HIDE DEF i, m, a
  <2>5. i \in DOMAIN a.msgs => a.msgs[i].chat = m.chat
    <3> SUFFICES ASSUME i \in DOMAIN a.msgs PROVE a.msgs[i].chat = m.chat
      OBVIOUS
    <3>1. CASE \E j \in 1 .. k - 1 : items[j] = i
      BY <3>1, <2>3 DEF MsgsAfter, m
    <3>2. CASE ~\E j \in 1 .. k - 1 : items[j] = i
      <4>1. i \in DOMAIN b.msgs /\ a.msgs[i] = b.msgs[i]
        BY <3>2, <2>3 DEF MsgsAfter
      <4> QED BY <4>1, <2>2
    <3> QED BY <3>1, <3>2
  <2>6. IsBook(f[k]) /\ f[k].msgs = Put(a.msgs, i, m)
    BY <2>1, <2>2, <2>3, <2>4, <2>5, UpsertIs
  <2>7. /\ DOMAIN f[k].msgs = DOMAIN a.msgs \cup {i}
        /\ f[k].msgs[i] = m
        /\ \A j \in DOMAIN a.msgs : j # i => f[k].msgs[j] = a.msgs[j]
    <3>1. a.msgs \in Partial(Ids, Messages)
      BY <2>3, BookIs DEF IsBook
    <3>2. /\ DOMAIN Put(a.msgs, i, m) = DOMAIN a.msgs \cup {i}
          /\ Put(a.msgs, i, m)[i] = m
          /\ \A j \in DOMAIN a.msgs : j # i => Put(a.msgs, i, m)[j] = a.msgs[j]
      <4> DEFINE was == a.msgs
      <4>1. was \in Partial(Ids, Messages) /\ i \in Ids /\ m \in Messages
        BY <3>1, <2>1, <2>2
      <4> HIDE DEF was
      <4>2. /\ DOMAIN Put(was, i, m) = DOMAIN was \cup {i}
            /\ Put(was, i, m)[i] = m
            /\ \A j \in DOMAIN was : j # i => Put(was, i, m)[j] = was[j]
        BY <4>1, PutIs
      <4> QED BY <4>2 DEF was
    <3>3. f[k].msgs = Put(a.msgs, i, m)
      BY <2>6
    <3> QED BY <3>2, <3>3
  <2>8. \A x : (\E j \in 1 .. k : items[j] = x) <=> x = i \/ \E j \in 1 .. k - 1 : items[j] = x
    <3>1. \A j \in 1 .. k : j = k \/ j \in 1 .. k - 1
      BY <1>1
    <3>2. k \in 1 .. k /\ \A j \in 1 .. k - 1 : j \in 1 .. k
      BY <1>1
    <3> QED BY <3>1, <3>2 DEF i
  <2>9. \A x : x \in DOMAIN f[k].msgs <=> x \in DOMAIN b.msgs \/ \E j \in 1 .. k : items[j] = x
    <3>1. \A x : x \in DOMAIN a.msgs <=> x \in DOMAIN b.msgs \/ \E j \in 1 .. k - 1 : items[j] = x
      BY <2>3 DEF MsgsAfter
    <3> QED BY <3>1, <2>7, <2>8
  <2>10. ASSUME NEW x \in DOMAIN f[k].msgs
         PROVE  f[k].msgs[x] = IF \E j \in 1 .. k : items[j] = x THEN msg[x] ELSE b.msgs[x]
    <3>1. CASE x = i
      BY <3>1, <2>7, <2>8 DEF m
    <3>2. CASE x # i
      <4>1. x \in DOMAIN a.msgs /\ f[k].msgs[x] = a.msgs[x]
        BY <3>2, <2>7
      <4>2. a.msgs[x] = IF \E j \in 1 .. k - 1 : items[j] = x THEN msg[x] ELSE b.msgs[x]
        BY <4>1, <2>3 DEF MsgsAfter
      <4> QED BY <4>1, <4>2, <3>2, <2>8
    <3> QED BY <3>1, <3>2
  <2>11. MsgsAfter(b, f[k], items, msg, k)
    BY <2>9, <2>10 DEF MsgsAfter
  <2> QED BY <2>6, <2>11
<1> HIDE DEF Good
<1>7. T = {}
  <2> SUFFICES ASSUME T # {} PROVE FALSE
    OBVIOUS
  <2>1. PICK k \in T : \A j \in T : k <= j
    <3>1. T \in SUBSET Nat
      BY <1>1
    <3> QED BY <3>1, Least
  <2>2. k # 0
    BY <2>1, <1>5
  <2>3. k \in 1 .. n /\ k - 1 \in 0 .. n /\ ~(k <= k - 1)
    BY <2>1, <2>2, <1>1
  <2>4. Good(k - 1)
    BY <2>1, <2>3
  <2> QED BY <2>1, <2>3, <2>4, <1>6
<1>8. Good(n)
  <2>1. n \in 0 .. n
    BY <1>1
  <2> QED BY <2>1, <1>7
<1>9. IsBook(f[n]) /\ MsgsAfter(b, f[n], items, msg, n)
  BY <1>8 DEF Good
<1>10. /\ \A i : i \in DOMAIN f[n].msgs <=> i \in DOMAIN b.msgs \/ i \in ToSet(items)
       /\ \A i \in DOMAIN f[n].msgs :
              f[n].msgs[i] = IF i \in ToSet(items) THEN msg[i] ELSE b.msgs[i]
  BY <1>2, <1>9 DEF MsgsAfter
<1> QED BY <1>3, <1>9, <1>10

LEMMA EmptyBookIs ==
    /\ IsBook(EmptyBook)
    /\ DOMAIN EmptyBook.msgs = {}
    /\ \A b : IsBook(b) /\ DOMAIN b.msgs = {} => b = EmptyBook
<1>1. DOMAIN EmptyBook.msgs = {} /\ EmptyBook.lists = [c \in Chats |-> <<>>]
  BY DEF EmptyBook, NoMessages
<1>2. EmptyBook \in Books
  <2>1. NoMessages \in Partial(Ids, Messages)
    <3>1. NoMessages \in [{} -> Messages]
      BY DEF NoMessages
    <3> QED BY <3>1 DEF Partial
  <2> QED BY <2>1 DEF EmptyBook, Books
<1>3. Arranged(EmptyBook)
  BY <1>1 DEF Arranged, InChat, Ordered, ToSet
<1>4. ASSUME NEW b, IsBook(b), DOMAIN b.msgs = {} PROVE b = EmptyBook
  <2>1. /\ b = [msgs |-> b.msgs, lists |-> b.lists]
        /\ b.msgs \in Partial(Ids, Messages)
        /\ b.lists \in [Chats -> Seq(Ids)]
    BY <1>4, BookIs DEF IsBook
  <2>2. b.msgs = NoMessages
    <3>1. PICK D \in SUBSET Ids : b.msgs \in [D -> Messages]
      BY <2>1 DEF Partial
    <3>2. b.msgs \in [{} -> Messages]
      BY <3>1, <1>4
    <3>3. NoMessages \in [{} -> Messages]
      BY DEF NoMessages
    <3> QED BY <3>2, <3>3
  <2>3. ASSUME NEW c \in Chats PROVE b.lists[c] = <<>>
    <3>1. ToSet(b.lists[c]) = {}
      BY <1>4 DEF IsBook, Arranged, InChat
    <3>2. b.lists[c] \in Seq(Ids)
      BY <2>1
    <3>3. DOMAIN b.lists[c] = {}
      <4>1. \A k \in DOMAIN b.lists[c] : b.lists[c][k] \in ToSet(b.lists[c])
        BY DEF ToSet
      <4> QED BY <3>1, <4>1
    <3> DEFINE s == b.lists[c]
    <3>4. s \in Seq(Ids) /\ DOMAIN s = {}
      BY <3>2, <3>3
    <3> HIDE DEF s
    <3>5. Len(s) = 0
      <4>1. Len(s) \in Nat /\ DOMAIN s = 1 .. Len(s)
        BY <3>4, SeqIs
      <4>2. 1 \notin 1 .. Len(s)
        BY <3>4, <4>1
      <4> QED BY <4>1, <4>2
    <3>6. s = <<>>
      BY <3>4, <3>5
    <3> QED BY <3>6 DEF s
  <2>4. b.lists = [c \in Chats |-> <<>>]
    BY <2>1, <2>3
  <2> QED BY <2>1, <2>2, <2>4 DEF EmptyBook
<1> QED BY <1>1, <1>2, <1>3, <1>4 DEF IsBook

\* loadMessages and upsertMessage make the book of the user's rows.
LEMMA LoadIs ==
    ASSUME NEW t \in Partial(Ids, Rows), NEW u \in Users
    PROVE  /\ IsBook(Load(t, u))
           /\ \A i : i \in DOMAIN Load(t, u).msgs <=> i \in RowsOf(t, u)
           /\ \A i \in RowsOf(t, u) : Load(t, u).msgs[i] =
                  [chat |-> t[i].chat, status |-> t[i].status, at |-> t[i].at]
<1> DEFINE S == RowsOf(t, u)
           rows == Sorted(t, SetToSeq(S))
           msg == [i \in S |-> [chat |-> t[i].chat, status |-> t[i].status, at |-> t[i].at]]
<1>1. /\ DOMAIN t \subseteq Ids
      /\ \A i \in DOMAIN t : t[i] \in Rows
  BY PartialIs
<1>2. S \in SUBSET Ids /\ \A i \in S : t[i] \in Rows
  BY <1>1 DEF RowsOf
<1>3. Load(t, u) = UpsertAll(EmptyBook, rows, msg)
  BY DEF Load
<1>4. \A i \in S : /\ msg[i] = [chat |-> t[i].chat, status |-> t[i].status, at |-> t[i].at]
                   /\ t[i].at \in Nat
                   /\ msg[i] \in Messages
  BY <1>2 DEF Rows, Messages, Times
<1> HIDE DEF S, msg
<1>5. SetToSeq(S) \in Seq(Ids) /\ ToSet(SetToSeq(S)) = S /\ Different(SetToSeq(S))
  BY <1>2, SetToSeqIs
<1>6. rows \in Seq(Ids) /\ ToSet(rows) = S
  <2>1. \A i \in ToSet(SetToSeq(S)) : t[i].at \in Nat
    BY <1>4, <1>5
  <2> QED BY <1>5, <2>1, SortedIs
<1> HIDE DEF rows
<1>7. \A i \in ToSet(rows) : /\ msg[i] \in Messages
                             /\ i \in DOMAIN EmptyBook.msgs => EmptyBook.msgs[i].chat = msg[i].chat
  BY <1>4, <1>6, EmptyBookIs
<1> DEFINE b == UpsertAll(EmptyBook, rows, msg)
<1>8. /\ IsBook(b)
      /\ \A i : i \in DOMAIN b.msgs <=> i \in DOMAIN EmptyBook.msgs \/ i \in ToSet(rows)
      /\ \A i \in DOMAIN b.msgs :
             b.msgs[i] = IF i \in ToSet(rows) THEN msg[i] ELSE EmptyBook.msgs[i]
  BY <1>6, <1>7, EmptyBookIs, UpsertAllIs
<1> HIDE DEF b
<1>9. \A i : i \in DOMAIN b.msgs <=> i \in S
  BY <1>6, <1>8, EmptyBookIs
<1>10. \A i \in S : b.msgs[i] = msg[i]
  BY <1>6, <1>8, <1>9
<1>11. Load(t, u) = b
  BY <1>3 DEF b
<1>12. RowsOf(t, u) = S
  BY DEF S
<1> QED BY <1>4, <1>8, <1>9, <1>10, <1>11, <1>12

\* A change of statuses that leaves the messages where they are and when they were.
LEMMA StatusesChange ==
    ASSUME NEW b, IsBook(b), NEW msgs \in Partial(Ids, Messages), DOMAIN msgs = DOMAIN b.msgs,
           \A i \in DOMAIN msgs : msgs[i].chat = b.msgs[i].chat /\ msgs[i].at = b.msgs[i].at
    PROVE  IsBook([msgs |-> msgs, lists |-> b.lists])
<1>1. /\ b.lists \in [Chats -> Seq(Ids)]
      /\ \A c \in Chats : ToSet(b.lists[c]) = InChat(b.msgs, c) /\ Ordered(b.msgs, b.lists[c])
  BY BookIs DEF IsBook, Arranged
<1>2. ASSUME NEW c \in Chats
      PROVE  ToSet(b.lists[c]) = InChat(msgs, c) /\ Ordered(msgs, b.lists[c])
  <2>1. \A i : i \in InChat(msgs, c) <=> i \in InChat(b.msgs, c)
    BY DEF InChat
  <2>2. InChat(msgs, c) = InChat(b.msgs, c)
    BY <2>1
  <2>3. \A i \in ToSet(b.lists[c]) : msgs[i].at = b.msgs[i].at
    <3>1. \A i \in InChat(b.msgs, c) : i \in DOMAIN msgs
      BY DEF InChat
    <3>2. ToSet(b.lists[c]) = InChat(b.msgs, c)
      BY <1>1
    <3> QED BY <3>1, <3>2
  <2>4. Ordered(msgs, b.lists[c])
    BY <1>1, <2>3, OrderedStays
  <2> QED BY <1>1, <2>2, <2>4
<1>3. [msgs |-> msgs, lists |-> b.lists] \in Books
  BY <1>1 DEF Books
<1> QED BY <1>2, <1>3 DEF IsBook, Arranged

\* markIncomingMessagesRead.
LEMMA MarkIs ==
    ASSUME NEW b, IsBook(b), NEW chat \in Chats
    PROVE  /\ IsBook(MarkIncomingRead(b, chat))
           /\ DOMAIN MarkIncomingRead(b, chat).msgs = DOMAIN b.msgs
           /\ Unread(b, chat) \subseteq DOMAIN b.msgs
           /\ \A i \in DOMAIN b.msgs :
                  /\ MarkIncomingRead(b, chat).msgs[i].chat = b.msgs[i].chat
                  /\ i \notin Unread(b, chat) => MarkIncomingRead(b, chat).msgs[i] = b.msgs[i]
<1> DEFINE msgs == [i \in DOMAIN b.msgs |->
               IF i \in Unread(b, chat) THEN [b.msgs[i] EXCEPT !.status = "read"] ELSE b.msgs[i]]
<1>1. /\ b = [msgs |-> b.msgs, lists |-> b.lists]
      /\ DOMAIN b.msgs \subseteq Ids
      /\ \A i \in DOMAIN b.msgs : b.msgs[i] \in Messages
  BY BookIs DEF IsBook
<1>2. MarkIncomingRead(b, chat) = [msgs |-> msgs, lists |-> b.lists]
  <2>1. MarkIncomingRead(b, chat) = [b EXCEPT !.msgs = msgs]
    BY DEF MarkIncomingRead
  <2> HIDE DEF msgs
  <2> QED BY <1>1, <2>1
<1>3. ASSUME NEW i \in DOMAIN b.msgs
      PROVE  /\ msgs[i] \in Messages
             /\ msgs[i].chat = b.msgs[i].chat
             /\ msgs[i].at = b.msgs[i].at
             /\ i \notin Unread(b, chat) => msgs[i] = b.msgs[i]
  BY <1>1 DEF Messages, Statuses
<1>4. DOMAIN msgs = DOMAIN b.msgs
  OBVIOUS
<1>5. msgs \in Partial(Ids, Messages)
  <2>1. msgs \in [DOMAIN b.msgs -> Messages]
    BY <1>3
  <2> HIDE DEF msgs
  <2> QED BY <1>1, <2>1 DEF Partial
<1> HIDE DEF msgs
<1>6. IsBook([msgs |-> msgs, lists |-> b.lists])
  BY <1>3, <1>4, <1>5, StatusesChange
<1>7. Unread(b, chat) \subseteq DOMAIN b.msgs
  <2>1. ToSet(b.lists[chat]) = InChat(b.msgs, chat)
    BY DEF IsBook, Arranged
  <2> QED BY <2>1 DEF Unread, InChat
<1> QED BY <1>2, <1>3, <1>4, <1>6, <1>7

\* updateMessageStatus, with a time of the server or without.
LEMMA UpdateIs ==
    ASSUME NEW b, IsBook(b), NEW i \in DOMAIN b.msgs, NEW s \in Statuses,
           NEW at \in Times \cup {0}
    PROVE  /\ IsBook(UpdateStatus(b, i, s, at))
           /\ DOMAIN UpdateStatus(b, i, s, at).msgs = DOMAIN b.msgs
           /\ UpdateStatus(b, i, s, at).msgs[i].chat = b.msgs[i].chat
           /\ \A j \in DOMAIN b.msgs : j # i => UpdateStatus(b, i, s, at).msgs[j] = b.msgs[j]
<1> DEFINE msgs == [b.msgs EXCEPT ![i].status = s, ![i].at = IF at > 0 THEN at ELSE @]
           chat == msgs[i].chat
           old == b.lists[chat]
           lists == IF at > 0 THEN [b.lists EXCEPT ![chat] = Sorted(msgs, @)] ELSE b.lists
<1>1. /\ b.lists \in [Chats -> Seq(Ids)]
      /\ b.msgs \in Partial(Ids, Messages)
      /\ DOMAIN b.msgs \subseteq Ids
      /\ \A j \in DOMAIN b.msgs : b.msgs[j] \in Messages
      /\ \A c \in Chats : b.lists[c] \in Seq(Ids)
      /\ \A c \in Chats : ToSet(b.lists[c]) = InChat(b.msgs, c) /\ Ordered(b.msgs, b.lists[c])
  BY BookIs DEF IsBook, Arranged
<1>2. UpdateStatus(b, i, s, at) = [msgs |-> msgs, lists |-> lists]
  BY DEF UpdateStatus
<1>3. at \in Nat /\ (at > 0 => at \in Times)
  BY HistoryAssumption DEF HistoryAssumption, Times
<1>4. /\ DOMAIN msgs = DOMAIN b.msgs
      /\ \A j \in DOMAIN b.msgs : j # i => msgs[j] = b.msgs[j]
      /\ msgs[i].chat = b.msgs[i].chat
      /\ at = 0 => msgs[i].at = b.msgs[i].at
      /\ msgs[i] \in Messages
  <2>1. b.msgs = [x \in DOMAIN b.msgs |-> b.msgs[x]]
    BY <1>1, PartialIs
  <2>2. b.msgs[i] \in [chat : Chats, status : Statuses, at : Times]
    BY <1>1 DEF Messages
  <2> QED BY <2>1, <2>2, <1>3 DEF Messages
<1>5. msgs = [x \in DOMAIN msgs |-> msgs[x]]
  BY <1>1, PartialIs
<1> HIDE DEF msgs
<1>6. msgs \in Partial(Ids, Messages) /\ \A j \in DOMAIN msgs : msgs[j] \in Messages
  <2>1. \A j \in DOMAIN msgs : msgs[j] \in Messages
    BY <1>1, <1>4
  <2> QED BY <2>1, <1>1, <1>4, <1>5, PartialIs
<1>7. chat \in Chats /\ chat = b.msgs[i].chat
  BY <1>4, MessageIs
<1>8. CASE at = 0
  <2>1. lists = b.lists
    BY <1>8
  <2>2. \A j \in DOMAIN msgs : msgs[j].chat = b.msgs[j].chat /\ msgs[j].at = b.msgs[j].at
    BY <1>4, <1>8
  <2>3. IsBook([msgs |-> msgs, lists |-> b.lists])
    BY <1>4, <1>6, <2>2, StatusesChange
  <2> QED BY <1>2, <1>4, <2>1, <2>3
<1>9. CASE at > 0
  <2>1. lists = [b.lists EXCEPT ![chat] = Sorted(msgs, old)]
    BY <1>9
  <2>2. old \in Seq(Ids) /\ ToSet(old) = InChat(b.msgs, chat) /\ Different(old)
    <3>1. /\ old \in Seq(Ids) /\ ToSet(old) = InChat(b.msgs, chat)
          /\ Ordered(b.msgs, old)
      BY <1>1, <1>7
    <3>2. \A j \in ToSet(old) : b.msgs[j].at \in Nat
      BY <3>1, <1>1, MessageIs DEF InChat
    <3> QED BY <3>1, <3>2, OrderedIsDifferent
  <2>3. ASSUME NEW c \in Chats PROVE InChat(msgs, c) = InChat(b.msgs, c)
    <3>1. \A j \in DOMAIN msgs : msgs[j].chat = b.msgs[j].chat
      BY <1>4
    <3>2. \A j : j \in InChat(msgs, c) <=> j \in InChat(b.msgs, c)
      BY <3>1, <1>4 DEF InChat
    <3> QED BY <3>2
  <2> HIDE DEF old, chat
  <2>4. /\ Sorted(msgs, old) \in Seq(Ids)
        /\ ToSet(Sorted(msgs, old)) = ToSet(old)
        /\ Ordered(msgs, Sorted(msgs, old))
    <3>1. \A j \in ToSet(old) : j \in DOMAIN msgs
      BY <2>2, <1>4 DEF InChat
    <3>2. \A j \in ToSet(old) : msgs[j].at \in Nat
      BY <3>1, <1>6, MessageIs
    <3> QED BY <3>2, <2>2, SortedIs
  <2>5. ASSUME NEW c \in Chats
        PROVE  ToSet(lists[c]) = InChat(msgs, c) /\ Ordered(msgs, lists[c])
    <3>1. CASE c = chat
      <4>1. lists[c] = Sorted(msgs, old)
        BY <2>1, <3>1, <1>1
      <4> QED BY <4>1, <3>1, <2>2, <2>3, <2>4
    <3>2. CASE c # chat
      <4>1. lists[c] = b.lists[c]
        BY <2>1, <3>2, <1>1
      <4>2. \A j \in ToSet(b.lists[c]) : msgs[j].at = b.msgs[j].at
        <5>1. ToSet(b.lists[c]) = InChat(b.msgs, c)
          BY <1>1
        <5>2. i \notin InChat(b.msgs, c)
          BY <3>2, <1>7 DEF InChat
        <5>3. \A j \in InChat(b.msgs, c) : j \in DOMAIN b.msgs
          BY DEF InChat
        <5> QED BY <5>1, <5>2, <5>3, <1>4
      <4>3. Ordered(msgs, b.lists[c])
        BY <4>2, <1>1, OrderedStays
      <4> QED BY <4>1, <4>3, <2>3, <1>1
    <3> QED BY <3>1, <3>2
  <2>6. lists \in [Chats -> Seq(Ids)]
    BY <2>1, <2>4, <1>1
  <2> HIDE DEF lists
  <2>7. IsBook([msgs |-> msgs, lists |-> lists])
    BY <1>6, <2>5, <2>6 DEF IsBook, Books, Arranged
  <2> QED BY <1>2, <1>4, <2>7
<1> QED BY <1>3, <1>8, <1>9

-----------------------------------------------------------------------------
(* The invariant. *)

\* Mail has a sender and another addressee.
MailsTrue ==
    \A i \in Ids : mail[i] # NoMail =>
        /\ mail[i].from \in Users
        /\ mail[i].to \in Chats
        /\ mail[i].from # mail[i].to

\* Nobody's window is empty; an online session is that of the stored user.
SessionTrue ==
    /\ user = NoUser => mode = "none" /\ book = EmptyBook
    /\ mode = "online" => user = stored /\ user # NoUser
    /\ user \notin dialogs

DialogsTrue ==
    /\ selected \in dialogs \cup {Broadcast}
    /\ \A i \in DOMAIN book.msgs : book.msgs[i].chat \in dialogs \cup {Broadcast}

IInv == /\ TypeOK
        /\ IsBook(book)
        /\ MailsTrue
        /\ SessionTrue
        /\ DialogsTrue
        /\ WindowIsTable
        /\ MailStaysPrivate
        /\ LogoutForgets

\* A message of a user's chat, by the mail ml.
Belongs(ml, u, i, chat) ==
    \/ chat = Broadcast /\ ml[i].to = Broadcast
    \/ chat # Broadcast /\ {u, chat} = {ml[i].from, ml[i].to}

\* The book b is that of the rows of u.
BookOf(b, t, u) ==
    /\ DOMAIN b.msgs = RowsOf(t, u)
    /\ \A i \in DOMAIN b.msgs :
           b.msgs[i] = [chat |-> t[i].chat, status |-> t[i].status, at |-> t[i].at]

LEMMA PrivateIs ==
    MailStaysPrivate <=>
        /\ \A i \in DOMAIN book.msgs : Belongs(mail, user, i, book.msgs[i].chat)
        /\ \A i \in DOMAIN table : Belongs(mail, table[i].owner, i, table[i].chat)
BY DEF MailStaysPrivate, Belongs

LEMMA PrivateIsNext ==
    MailStaysPrivate' <=>
        /\ \A i \in DOMAIN book'.msgs : Belongs(mail', user', i, book'.msgs[i].chat)
        /\ \A i \in DOMAIN table' : Belongs(mail', table'[i].owner, i, table'[i].chat)
BY DEF MailStaysPrivate, Belongs

\* Mail keeps its sender and addressee.
MailKept == \A i \in Ids : mail[i] # NoMail => mail'[i].from = mail[i].from /\ mail'[i].to = mail[i].to

LEMMA BelongsStays ==
    ASSUME MailKept, NEW i \in Ids, NEW u \in Users, NEW c, Belongs(mail, u, i, c)
    PROVE  mail[i] # NoMail /\ Belongs(mail', u, i, c)
<1>1. mail[i] # NoMail
  BY HistoryAssumption DEF HistoryAssumption, Belongs, NoMail
<1>2. mail'[i].from = mail[i].from /\ mail'[i].to = mail[i].to
  BY <1>1 DEF MailKept
<1> QED BY <1>1, <1>2 DEF Belongs

LEMMA UsersAre ==
    /\ NoUser \notin Users /\ Broadcast \notin Users /\ Broadcast # NoUser
    /\ Broadcast \in Chats
    /\ \A u \in Users : u \in Chats
    /\ \A c \in Chats : c # Broadcast => c \in Users
BY HistoryAssumption DEF HistoryAssumption, Chats

LEMMA RowIs ==
    ASSUME NEW t \in Partial(Ids, Rows)
    PROVE  \A i \in DOMAIN t : i \in Ids /\ t[i].owner \in Users /\ t[i].chat \in Chats
<1>1. \A i \in DOMAIN t : i \in Ids /\ t[i] \in Rows
  BY PartialIs
<1>2. \A r \in Rows : r.owner \in Users /\ r.chat \in Chats
  BY DEF Rows
<1> QED BY <1>1, <1>2

\* A row's chat is one of the dialogs that are loaded with it.
LEMMA LoadedDialogs ==
    ASSUME NEW t \in Partial(Ids, Rows), NEW u \in Users, MailsTrue,
           \A i \in DOMAIN t : Belongs(mail, t[i].owner, i, t[i].chat)
    PROVE  /\ \A i \in RowsOf(t, u) : t[i].chat \in LoadDialogs(t, u) \cup {Broadcast}
           /\ LoadDialogs(t, u) \subseteq Users
           /\ u \notin LoadDialogs(t, u)
           /\ RowsOf(t, u) = {} => LoadDialogs(t, u) = {}
<1>1. \A i \in DOMAIN t : i \in Ids /\ t[i].chat \in Chats
  BY RowIs
<1>2. ASSUME NEW i \in RowsOf(t, u) PROVE t[i].chat # u
  <2>1. i \in Ids /\ Belongs(mail, u, i, t[i].chat)
    BY <1>1, <1>2 DEF RowsOf
  <2>2. mail[i] # NoMail
    BY <2>1, UsersAre DEF Belongs, NoMail
  <2>3. mail[i].from # mail[i].to
    BY <2>1, <2>2 DEF MailsTrue
  <2> QED BY <2>1, <2>3, UsersAre DEF Belongs
<1>3. \A i \in RowsOf(t, u) : i \in DOMAIN t
  BY DEF RowsOf
<1> QED BY <1>1, <1>2, <1>3, UsersAre DEF LoadDialogs

\* What saveMessage makes of the table.
LEMMA SavedRows ==
    ASSUME NEW b, IsBook(b), NEW ids \in SUBSET DOMAIN b.msgs, table \in Partial(Ids, Rows),
           user \in Users, Save(b, ids)
    PROVE  /\ table' \in Partial(Ids, Rows)
           /\ DOMAIN table' = DOMAIN table \cup ids
           /\ \A i \in ids : /\ table'[i].owner = user
                             /\ b.msgs[i] = [chat |-> table'[i].chat, status |-> table'[i].status,
                                             at |-> table'[i].at]
           /\ \A i \in DOMAIN table : i \notin ids => table'[i] = table[i]
<1>1. DOMAIN b.msgs \subseteq Ids /\ \A i \in DOMAIN b.msgs : b.msgs[i] \in Messages
  BY BookIs DEF IsBook
<1>2. DOMAIN table \subseteq Ids /\ \A i \in DOMAIN table : table[i] \in Rows
  BY PartialIs
<1> DEFINE row(i) == [owner |-> user, chat |-> b.msgs[i].chat,
                      status |-> b.msgs[i].status, at |-> b.msgs[i].at]
<1>3. /\ table' = [i \in DOMAIN table \cup ids |-> IF i \in ids THEN row(i) ELSE table[i]]
      /\ DOMAIN table' = DOMAIN table \cup ids
      /\ \A i \in ids : table'[i] = row(i)
      /\ \A i \in DOMAIN table : i \notin ids => table'[i] = table[i]
  BY DEF Save
<1>4. \A i \in ids : row(i) \in Rows
  BY <1>1 DEF Rows, Messages
<1>5. \A i \in ids : b.msgs[i] = [chat |-> row(i).chat, status |-> row(i).status, at |-> row(i).at]
  BY <1>1 DEF Messages
<1>6. \A i \in ids : row(i).owner = user
  OBVIOUS
<1> HIDE DEF row
<1>7. table' \in Partial(Ids, Rows)
  <2>1. \A i \in DOMAIN table' : table'[i] \in Rows
    BY <1>2, <1>3, <1>4
  <2>2. DOMAIN table' \subseteq Ids
    BY <1>1, <1>2, <1>3
  <2>3. table' = [i \in DOMAIN table' |-> table'[i]]
    BY <1>3
  <2> QED BY <2>1, <2>2, <2>3, PartialIs
<1> QED BY <1>3, <1>5, <1>6, <1>7

\* The handlers of an online session: the book changes, and what changed is saved.
LEMMA SavedStep ==
    ASSUME IInv, mode = "online", UNCHANGED <<user, mode, stored, loggedOut>>,
           NEW ids \in SUBSET DOMAIN book'.msgs, IsBook(book'), Save(book', ids),
           DOMAIN book'.msgs = DOMAIN book.msgs \cup ids,
           \A i \in DOMAIN book.msgs : i \notin ids => book'.msgs[i] = book.msgs[i],
           \A i \in ids : /\ Belongs(mail', user, i, book'.msgs[i].chat)
                          /\ book'.msgs[i].chat \in dialogs' \cup {Broadcast},
           mail' \in [Ids -> Mails], MailKept, MailsTrue',
           dialogs \subseteq dialogs', dialogs' \subseteq Users, user \notin dialogs',
           selected' \in dialogs' \cup {Broadcast}
    PROVE  IInv'
<1>1. /\ user \in Users /\ user = stored
      /\ table \in Partial(Ids, Rows)
      /\ TypeOK
      /\ SessionTrue
      /\ BookOf(book, table, user)
      /\ DOMAIN book.msgs \subseteq Ids
  <2>1. IsBook(book)
    BY DEF IInv
  <2>2. DOMAIN book.msgs \subseteq Ids
    BY <2>1, BookIs DEF IsBook
  <2> QED BY <2>2 DEF IInv, SessionTrue, TypeOK, WindowIsTable, BookOf
<1>2. /\ table' \in Partial(Ids, Rows)
      /\ DOMAIN table' = DOMAIN table \cup ids
      /\ \A i \in ids : /\ table'[i].owner = user
                        /\ book'.msgs[i] = [chat |-> table'[i].chat, status |-> table'[i].status,
                                            at |-> table'[i].at]
      /\ \A i \in DOMAIN table : i \notin ids => table'[i] = table[i]
  <2> DEFINE b == book'
  <2>1. IsBook(b) /\ ids \in SUBSET DOMAIN b.msgs /\ Save(b, ids)
    OBVIOUS
  <2> HIDE DEF b
  <2>2. /\ table' \in Partial(Ids, Rows)
        /\ DOMAIN table' = DOMAIN table \cup ids
        /\ \A i \in ids : /\ table'[i].owner = user
                          /\ b.msgs[i] = [chat |-> table'[i].chat, status |-> table'[i].status,
                                          at |-> table'[i].at]
        /\ \A i \in DOMAIN table : i \notin ids => table'[i] = table[i]
    BY <2>1, <1>1, SavedRows
  <2> QED BY <2>2 DEF b
<1>3. ids \subseteq Ids
  BY BookIs DEF IsBook
<1>4. TypeOK'
  <2>1. book' \in Books
    BY DEF IsBook
  <2>2. book'.msgs \in Partial(Ids, Messages) /\ book'.lists \in [Chats -> Seq(Ids)]
    BY <2>1, BookIs
  <2>3. selected' \in Chats
    BY UsersAre
  <2> QED BY <1>1, <1>2, <2>2, <2>3 DEF TypeOK
<1>5. \A i : i \in RowsOf(table', user) <=> i \in ids \/ i \in RowsOf(table, user)
  BY <1>2 DEF RowsOf
<1>6. WindowIsTable'
  <2>1. DOMAIN book'.msgs = RowsOf(table', user)
    BY <1>1, <1>5 DEF BookOf
  <2>2. ASSUME NEW i \in DOMAIN book'.msgs
        PROVE  book'.msgs[i] = [chat |-> table'[i].chat, status |-> table'[i].status,
                                at |-> table'[i].at]
    <3>1. CASE i \in ids
      BY <3>1, <1>2
    <3>2. CASE i \notin ids
      <4>1. i \in DOMAIN book.msgs /\ i \in DOMAIN table
        BY <3>2, <1>1 DEF BookOf, RowsOf
      <4> QED BY <4>1, <3>2, <1>1, <1>2 DEF BookOf
    <3> QED BY <3>1, <3>2
  <2> QED BY <2>1, <2>2 DEF WindowIsTable
<1>7. MailStaysPrivate'
  <2>1. /\ \A i \in DOMAIN book.msgs : Belongs(mail, user, i, book.msgs[i].chat)
        /\ \A i \in DOMAIN table : Belongs(mail, table[i].owner, i, table[i].chat)
    BY PrivateIs DEF IInv
  <2>2. ASSUME NEW i \in DOMAIN book'.msgs
        PROVE  Belongs(mail', user, i, book'.msgs[i].chat)
    <3>1. CASE i \in ids
      BY <3>1
    <3>2. CASE i \notin ids
      BY <3>2, <2>1, <1>1, BelongsStays
    <3> QED BY <3>1, <3>2
  <2>3. ASSUME NEW i \in DOMAIN table'
        PROVE  Belongs(mail', table'[i].owner, i, table'[i].chat)
    <3>1. CASE i \in ids
      <4>0. /\ table'[i].owner = user
            /\ book'.msgs[i] = [chat |-> table'[i].chat, status |-> table'[i].status,
                                at |-> table'[i].at]
        BY <3>1, <1>2
      <4>1. table'[i].owner = user /\ table'[i].chat = book'.msgs[i].chat
        BY <4>0
      <4> QED BY <3>1, <4>1
    <3>2. CASE i \notin ids
      <4>1. i \in DOMAIN table /\ table'[i] = table[i]
        BY <3>2, <1>2
      <4>2. i \in Ids /\ table[i].owner \in Users
        BY <4>1, <1>1, RowIs
      <4> QED BY <4>1, <4>2, <2>1, BelongsStays
    <3> QED BY <3>1, <3>2
  <2> QED BY <2>2, <2>3, PrivateIsNext
<1>8. LogoutForgets'
  <2>1. ASSUME NEW u \in loggedOut
        PROVE  RowsOf(table', u) = {} /\ stored # u /\ user # u
    <3>1. RowsOf(table, u) = {} /\ stored # u
      BY <2>1 DEF IInv, LogoutForgets
    <3>2. u # user
      BY <3>1, <1>1
    <3>3. \A i : i \notin RowsOf(table', u)
      BY <3>1, <3>2, <1>2 DEF RowsOf
    <3> QED BY <3>1, <3>2, <3>3
  <2> QED BY <2>1 DEF LogoutForgets
<1>9. SessionTrue'
  BY <1>1, UsersAre DEF SessionTrue
<1>10. DialogsTrue'
  <2>1. \A i \in DOMAIN book.msgs : book.msgs[i].chat \in dialogs' \cup {Broadcast}
    BY DEF IInv, DialogsTrue
  <2> QED BY <2>1 DEF DialogsTrue
<1>11. IsBook(book)'
  BY DEF IsBook, Books, Arranged, InChat, Ordered, Before
<1> QED BY <1>4, <1>6, <1>7, <1>8, <1>9, <1>10, <1>11 DEF IInv

\* A user's data is loaded.
LEMMA LoadedStep ==
    ASSUME TypeOK, MailsTrue, UNCHANGED mail, NEW u \in Users,
           table' \in Partial(Ids, Rows),
           \A i \in DOMAIN table' : Belongs(mail, table'[i].owner, i, table'[i].chat),
           user' = u, book' = Load(table', u), dialogs' = LoadDialogs(table', u),
           selected' = Broadcast, mode' \in {"offline", "online"},
           stored' \in Users \cup {NoUser}, mode' = "online" => stored' = u,
           loggedOut' \subseteq Users,
           \A v \in loggedOut' : RowsOf(table', v) = {} /\ stored' # v
    PROVE  IInv'
<1> DEFINE b == Load(table', u)
<1>1. /\ IsBook(b)
      /\ \A i : i \in DOMAIN b.msgs <=> i \in RowsOf(table', u)
      /\ \A i \in RowsOf(table', u) : b.msgs[i] =
             [chat |-> table'[i].chat, status |-> table'[i].status, at |-> table'[i].at]
  <2> DEFINE t == table'
  <2>1. t \in Partial(Ids, Rows)
    OBVIOUS
  <2> HIDE DEF t
  <2>2. /\ IsBook(Load(t, u))
        /\ \A i : i \in DOMAIN Load(t, u).msgs <=> i \in RowsOf(t, u)
        /\ \A i \in RowsOf(t, u) : Load(t, u).msgs[i] =
               [chat |-> t[i].chat, status |-> t[i].status, at |-> t[i].at]
    BY <2>1, LoadIs
  <2> QED BY <2>2 DEF t
<1>2. /\ \A i \in RowsOf(table', u) : table'[i].chat \in LoadDialogs(table', u) \cup {Broadcast}
      /\ LoadDialogs(table', u) \subseteq Users
      /\ u \notin LoadDialogs(table', u)
      /\ RowsOf(table', u) = {} => LoadDialogs(table', u) = {}
  <2> DEFINE t == table'
  <2>1. t \in Partial(Ids, Rows) /\ \A i \in DOMAIN t : Belongs(mail, t[i].owner, i, t[i].chat)
    OBVIOUS
  <2> HIDE DEF t
  <2>2. /\ \A i \in RowsOf(t, u) : t[i].chat \in LoadDialogs(t, u) \cup {Broadcast}
        /\ LoadDialogs(t, u) \subseteq Users
        /\ u \notin LoadDialogs(t, u)
        /\ RowsOf(t, u) = {} => LoadDialogs(t, u) = {}
    BY <2>1, LoadedDialogs
  <2> QED BY <2>2 DEF t
<1>3. book' = b
  OBVIOUS
<1> HIDE DEF b
<1>4. TypeOK'
  <2>1. b.msgs \in Partial(Ids, Messages) /\ b.lists \in [Chats -> Seq(Ids)]
    BY <1>1, BookIs DEF IsBook
  <2> QED BY <2>1, <1>2, <1>3, UsersAre DEF TypeOK
<1>5. IsBook(book)'
  <2>1. IsBook(book')
    BY <1>1, <1>3
  <2> QED BY <2>1 DEF IsBook, Books, Arranged, InChat, Ordered, Before
<1>6. MailsTrue'
  BY DEF MailsTrue
<1>7. SessionTrue'
  BY <1>2, UsersAre DEF SessionTrue
<1>8. ASSUME NEW i \in DOMAIN b.msgs
      PROVE  b.msgs[i].chat = table'[i].chat /\ i \in RowsOf(table', u)
  <2>1. i \in RowsOf(table', u)
    BY <1>1
  <2>2. b.msgs[i] = [chat |-> table'[i].chat, status |-> table'[i].status, at |-> table'[i].at]
    BY <1>1, <2>1
  <2>3. b.msgs[i].chat = table'[i].chat
    BY <2>2
  <2> QED BY <2>1, <2>3
<1>9. DialogsTrue'
  BY <1>2, <1>3, <1>8 DEF DialogsTrue
<1>10. WindowIsTable'
  <2>1. DOMAIN b.msgs = RowsOf(table', u)
    BY <1>1
  <2> QED BY <2>1, <1>1, <1>3 DEF WindowIsTable
<1>11. MailStaysPrivate'
  <2>1. \A i \in DOMAIN b.msgs : Belongs(mail, u, i, b.msgs[i].chat)
    BY <1>8 DEF RowsOf
  <2> QED BY <2>1, <1>3, PrivateIsNext
<1>12. LogoutForgets'
  <2>1. ASSUME NEW v \in loggedOut', v = u PROVE b = EmptyBook /\ dialogs' = {}
    <3>1. RowsOf(table', u) = {}
      BY <2>1
    <3>2. DOMAIN b.msgs = {}
      BY <3>1, <1>1
    <3> QED BY <3>1, <3>2, <1>1, <1>2, EmptyBookIs
  <2>2. \A v \in loggedOut' : user' = v => book' = EmptyBook /\ dialogs' = {}
    BY <2>1, <1>3
  <2> QED BY <2>2 DEF LogoutForgets
<1> QED BY <1>4, <1>5, <1>6, <1>7, <1>9, <1>10, <1>11, <1>12 DEF IInv

\* Nobody's window.
LEMMA EmptiedStep ==
    ASSUME TypeOK, MailsTrue, UNCHANGED mail,
           table' \in Partial(Ids, Rows),
           \A i \in DOMAIN table' : Belongs(mail, table'[i].owner, i, table'[i].chat),
           user' = NoUser, book' = EmptyBook, dialogs' = {},
           selected' = Broadcast, mode' = "none",
           stored' \in Users \cup {NoUser}, loggedOut' \subseteq Users,
           \A v \in loggedOut' : RowsOf(table', v) = {} /\ stored' # v
    PROVE  IInv'
<1>1. TypeOK'
  <2>1. EmptyBook.msgs \in Partial(Ids, Messages) /\ EmptyBook.lists \in [Chats -> Seq(Ids)]
    BY EmptyBookIs, BookIs DEF IsBook
  <2> QED BY <2>1, UsersAre DEF TypeOK
<1>2. IsBook(book)'
  <2> DEFINE b == EmptyBook
  <2>1. IsBook(b) /\ book' = b
    BY EmptyBookIs
  <2> HIDE DEF b
  <2> QED BY <2>1 DEF IsBook, Books, Arranged, InChat, Ordered, Before
<1>3. MailsTrue' /\ SessionTrue' /\ WindowIsTable'
  BY DEF MailsTrue, SessionTrue, WindowIsTable
<1>4. DialogsTrue'
  BY EmptyBookIs DEF DialogsTrue
<1>5. MailStaysPrivate'
  BY EmptyBookIs, PrivateIsNext
<1>6. LogoutForgets'
  BY DEF LogoutForgets
<1> QED BY <1>1, <1>2, <1>3, <1>4, <1>5, <1>6 DEF IInv

\* What a window without an online session may do: the list and the mail change.
LEMMA IdleStep ==
    ASSUME IInv, UNCHANGED <<user, mode, stored, book, table, loggedOut>>,
           mail' \in [Ids -> Mails], MailKept, MailsTrue',
           dialogs \subseteq dialogs', dialogs' \subseteq Users, user \notin dialogs',
           mode # "online" => dialogs' = dialogs,
           selected' \in dialogs' \cup {Broadcast}
    PROVE  IInv'
<1>1. TypeOK'
  <2>1. selected' \in Chats
    BY UsersAre
  <2> QED BY <2>1 DEF IInv, TypeOK
<1>2. IsBook(book)' /\ WindowIsTable'
  <2>1. IsBook(book)'
    BY DEF IInv, IsBook, Books, Arranged, InChat, Ordered, Before
  <2>2. WindowIsTable'
    BY DEF IInv, WindowIsTable, RowsOf
  <2> QED BY <2>1, <2>2
<1>3. SessionTrue' /\ DialogsTrue'
  BY DEF IInv, SessionTrue, DialogsTrue
<1>4. MailStaysPrivate'
  <2>1. /\ \A i \in DOMAIN book.msgs : Belongs(mail, user, i, book.msgs[i].chat)
        /\ \A i \in DOMAIN table : Belongs(mail, table[i].owner, i, table[i].chat)
    BY PrivateIs DEF IInv
  <2>2. \A i \in DOMAIN table : i \in Ids /\ table[i].owner \in Users
    BY RowIs DEF IInv, TypeOK
  <2>3. \A i \in DOMAIN book.msgs : i \in Ids /\ user \in Users
    <3>1. \A i \in DOMAIN book.msgs : i \in Ids
      BY BookIs DEF IInv, IsBook
    <3>2. user = NoUser => DOMAIN book.msgs = {}
      BY EmptyBookIs DEF IInv, SessionTrue
    <3> QED BY <3>1, <3>2 DEF IInv, TypeOK
  <2>4. \A i \in DOMAIN book.msgs : Belongs(mail', user, i, book.msgs[i].chat)
    BY <2>1, <2>3, BelongsStays
  <2>5. \A i \in DOMAIN table : Belongs(mail', table[i].owner, i, table[i].chat)
    BY <2>1, <2>2, BelongsStays
  <2> QED BY <2>4, <2>5, PrivateIsNext
<1>5. LogoutForgets'
  <2>1. ASSUME NEW u \in loggedOut
        PROVE  RowsOf(table, u) = {} /\ stored # u /\ (user = u => book = EmptyBook /\ dialogs' = {})
    <3>1. RowsOf(table, u) = {} /\ stored # u /\ (user = u => book = EmptyBook /\ dialogs = {})
      BY DEF IInv, LogoutForgets
    <3>2. user = u => mode # "online"
      BY <3>1 DEF IInv, SessionTrue
    <3> QED BY <3>1, <3>2
  <2> QED BY <2>1 DEF LogoutForgets, RowsOf
<1> QED BY <1>1, <1>2, <1>3, <1>4, <1>5 DEF IInv

LEMMA InitIInv == Init => IInv
<1> SUFFICES ASSUME Init PROVE IInv
  OBVIOUS
<1>1. TypeOK
  <2>1. EmptyBook.msgs \in Partial(Ids, Messages) /\ EmptyBook.lists \in [Chats -> Seq(Ids)]
    BY EmptyBookIs, BookIs DEF IsBook
  <2>2. NoMessages \in Partial(Ids, Rows)
    <3>1. NoMessages \in [{} -> Rows]
      BY DEF NoMessages
    <3> QED BY <3>1 DEF Partial
  <2> QED BY <2>1, <2>2, UsersAre DEF Init, TypeOK, Mails
<1>2. IsBook(book)
  BY EmptyBookIs DEF Init
<1>3. MailsTrue /\ SessionTrue /\ WindowIsTable
  BY DEF Init, MailsTrue, SessionTrue, WindowIsTable
<1>4. DialogsTrue /\ LogoutForgets
  BY EmptyBookIs DEF Init, DialogsTrue, LogoutForgets
<1>5. MailStaysPrivate
  <2>1. DOMAIN table = {}
    BY DEF Init, NoMessages
  <2>2. DOMAIN book.msgs = {}
    BY EmptyBookIs DEF Init
  <2> QED BY <2>1, <2>2, PrivateIs
<1> QED BY <1>1, <1>2, <1>3, <1>4, <1>5 DEF IInv

-----------------------------------------------------------------------------
(* The steps: sessions. *)

\* The user who is there comes back online, or goes offline.
LEMMA SameUserStep ==
    ASSUME IInv, UNCHANGED <<user, book, dialogs, selected, table, mail>>, user \in Users,
           mode' \in {"offline", "online"}, mode' = "online" => stored' = user,
           stored' \in Users \cup {NoUser}, loggedOut' \subseteq loggedOut,
           stored' \notin loggedOut'
    PROVE  IInv'
<1>1. TypeOK'
  BY DEF IInv, TypeOK
<1>2. IsBook(book)'
  BY DEF IInv, IsBook, Books, Arranged, InChat, Ordered, Before
<1>3. WindowIsTable'
  BY DEF IInv, WindowIsTable, RowsOf
<1>4. MailsTrue' /\ SessionTrue' /\ DialogsTrue'
  BY UsersAre DEF IInv, MailsTrue, SessionTrue, DialogsTrue
<1>5. MailStaysPrivate'
  BY PrivateIs, PrivateIsNext DEF IInv
<1>6. LogoutForgets'
  BY DEF IInv, LogoutForgets, RowsOf
<1> QED BY <1>1, <1>2, <1>3, <1>4, <1>5, <1>6 DEF IInv

LEMMA PartsOf ==
    ASSUME IInv
    PROVE  /\ TypeOK /\ MailsTrue
           /\ table \in Partial(Ids, Rows)
           /\ \A i \in DOMAIN table : Belongs(mail, table[i].owner, i, table[i].chat)
           /\ \A u \in loggedOut : RowsOf(table, u) = {} /\ stored # u
           /\ loggedOut \subseteq Users
           /\ stored \in Users \cup {NoUser}
BY PrivateIs DEF IInv, TypeOK, LogoutForgets

LEMMA SignedInKeeps ==
    ASSUME IInv, NEW u \in Users, SignedIn(u)
    PROVE  IInv'
<1>1. CASE u = user
  BY <1>1, SameUserStep, PartsOf DEF SignedIn, Activate
<1>2. CASE u # user
  <2>1. /\ UNCHANGED <<mail, table>> /\ user' = u /\ mode' = "online" /\ stored' = u
        /\ loggedOut' = loggedOut \ {u}
        /\ book' = Load(table, u) /\ dialogs' = LoadDialogs(table, u) /\ selected' = Broadcast
    BY <1>2 DEF SignedIn, Activate
  <2>2. \A v \in loggedOut' : RowsOf(table', v) = {} /\ stored' # v
    BY <2>1, PartsOf
  <2>3. /\ table' \in Partial(Ids, Rows)
        /\ \A i \in DOMAIN table' : Belongs(mail, table'[i].owner, i, table'[i].chat)
        /\ loggedOut' \subseteq Users
    BY <2>1, PartsOf
  <2>4. book' = Load(table', u) /\ dialogs' = LoadDialogs(table', u)
    BY <2>1
  <2>5. TypeOK /\ MailsTrue
    BY PartsOf
  <2> QED BY <2>1, <2>2, <2>3, <2>4, <2>5, LoadedStep
<1> QED BY <1>1, <1>2

LEMMA GoesOfflineKeeps ==
    ASSUME IInv, GoesOffline
    PROVE  IInv'
<1>1. /\ stored \in Users /\ stored \notin loggedOut
      /\ UNCHANGED <<stored, table, mail, loggedOut>> /\ user' = stored /\ mode' = "offline"
  BY PartsOf DEF GoesOffline, Activate
<1>2. CASE stored = user
  BY <1>1, <1>2, SameUserStep DEF GoesOffline, Activate
<1>3. CASE stored # user
  <2>1. book' = Load(table', stored) /\ dialogs' = LoadDialogs(table', stored)
        /\ selected' = Broadcast
    BY <1>1, <1>3 DEF GoesOffline, Activate
  <2>2. \A v \in loggedOut' : RowsOf(table', v) = {} /\ stored' # v
    BY <1>1, PartsOf
  <2>3. /\ table' \in Partial(Ids, Rows)
        /\ \A i \in DOMAIN table' : Belongs(mail, table'[i].owner, i, table'[i].chat)
        /\ loggedOut' \subseteq Users
    BY <1>1, PartsOf
  <2>4. TypeOK /\ MailsTrue
    BY PartsOf
  <2> QED BY <1>1, <2>1, <2>2, <2>3, <2>4, LoadedStep
<1> QED BY <1>2, <1>3

\* clearUserData takes the user's rows and no others.
LEMMA ClearedIs ==
    ASSUME NEW t \in Partial(Ids, Rows), NEW u
    PROVE  /\ Cleared(t, u) \in Partial(Ids, Rows)
           /\ \A i \in DOMAIN Cleared(t, u) : i \in DOMAIN t /\ Cleared(t, u)[i] = t[i]
           /\ RowsOf(Cleared(t, u), u) = {}
           /\ \A v : RowsOf(t, v) = {} => RowsOf(Cleared(t, u), v) = {}
<1> DEFINE c == Cleared(t, u)
           D == DOMAIN t \ RowsOf(t, u)
<1>1. DOMAIN t \subseteq Ids /\ \A i \in DOMAIN t : t[i] \in Rows
  BY PartialIs
<1>2. c = [i \in D |-> t[i]]
  BY DEF Cleared, Restrict
<1>3. \A i \in DOMAIN c : i \in DOMAIN t /\ i \notin RowsOf(t, u) /\ c[i] = t[i]
  BY <1>2
<1>4. c \in Partial(Ids, Rows)
  <2>1. c \in [D -> Rows] /\ D \in SUBSET Ids
    BY <1>1, <1>2
  <2> HIDE DEF c, D
  <2> QED BY <2>1 DEF Partial
<1> HIDE DEF c
<1>5. RowsOf(c, u) = {} /\ \A v : RowsOf(t, v) = {} => RowsOf(c, v) = {}
  BY <1>3 DEF RowsOf
<1> QED BY <1>3, <1>4, <1>5 DEF c

LEMMA LogoutRequestedKeeps ==
    ASSUME IInv, NEW connected \in BOOLEAN, LogoutRequested(connected)
    PROVE  IInv'
<1>1. /\ user \in Users /\ UNCHANGED mail /\ stored' = NoUser
      /\ table' = Cleared(table, user) /\ loggedOut' = loggedOut \cup {user}
  BY DEF LogoutRequested, IInv, TypeOK
<1>2. /\ table' \in Partial(Ids, Rows)
      /\ \A i \in DOMAIN table' : i \in DOMAIN table /\ table'[i] = table[i]
      /\ RowsOf(table', user) = {}
      /\ \A v : RowsOf(table, v) = {} => RowsOf(table', v) = {}
  <2>1. table \in Partial(Ids, Rows)
    BY PartsOf
  <2>2. /\ Cleared(table, user) \in Partial(Ids, Rows)
        /\ \A i \in DOMAIN Cleared(table, user) :
               i \in DOMAIN table /\ Cleared(table, user)[i] = table[i]
        /\ RowsOf(Cleared(table, user), user) = {}
        /\ \A v : RowsOf(table, v) = {} => RowsOf(Cleared(table, user), v) = {}
    BY <2>1, ClearedIs
  <2> QED BY <1>1, <2>2
<1>3. \A i \in DOMAIN table' : Belongs(mail, table'[i].owner, i, table'[i].chat)
  BY <1>2, PartsOf
<1>4. \A v \in loggedOut' : RowsOf(table', v) = {} /\ stored' # v
  BY <1>1, <1>2, PartsOf, UsersAre
<1>5. loggedOut' \subseteq Users /\ TypeOK /\ MailsTrue
  BY <1>1, PartsOf
<1>6. CASE connected
  <2>1. Activate(user, "offline", NoUser, table')
    BY <1>6 DEF LogoutRequested
  <2>2. user' = user /\ mode' = "offline" /\ book' = Load(table', user)
        /\ dialogs' = LoadDialogs(table', user) /\ selected' = Broadcast
    BY <2>1, <1>1, UsersAre DEF Activate
  <2> QED BY <1>1, <1>2, <1>3, <1>4, <1>5, <2>2, LoadedStep
<1>7. CASE ~connected
  <2>1. user' = NoUser /\ mode' = "none" /\ book' = EmptyBook /\ dialogs' = {}
        /\ selected' = Broadcast
    BY <1>7 DEF LogoutRequested
  <2> QED BY <1>1, <1>2, <1>3, <1>4, <1>5, <2>1, EmptiedStep
<1> QED BY <1>6, <1>7

LEMMA RestartKeeps ==
    ASSUME IInv, Restart
    PROVE  IInv'
<1>1. /\ UNCHANGED <<stored, table, mail, loggedOut>>
      /\ user' = NoUser /\ mode' = "none" /\ book' = EmptyBook /\ dialogs' = {}
      /\ selected' = Broadcast
  BY DEF Restart
<1>2. /\ table' \in Partial(Ids, Rows)
      /\ \A i \in DOMAIN table' : Belongs(mail, table'[i].owner, i, table'[i].chat)
      /\ \A v \in loggedOut' : RowsOf(table', v) = {} /\ stored' # v
      /\ loggedOut' \subseteq Users /\ stored' \in Users \cup {NoUser}
      /\ TypeOK /\ MailsTrue
  BY <1>1, PartsOf
<1> QED BY <1>1, <1>2, EmptiedStep

-----------------------------------------------------------------------------
(* The steps: the window and the mail. *)

LEMMA MailIs ==
    ASSUME IInv
    PROVE  /\ mail \in [Ids -> Mails]
           /\ \A i \in Ids : mail[i] # NoMail =>
                  /\ mail[i] \in [from : Users, to : Chats, at : Times \cup {0}]
                  /\ mail[i].from # mail[i].to
BY DEF IInv, TypeOK, Mails, MailsTrue

\* New mail, from one user to another chat.
LEMMA NewMail ==
    ASSUME IInv, NEW i \in Ids, NEW from \in Users, NEW to \in Chats, from # to,
           NEW at \in Times \cup {0}, mail[i] = NoMail,
           mail' = [mail EXCEPT ![i] = [from |-> from, to |-> to, at |-> at]]
    PROVE  mail' \in [Ids -> Mails] /\ MailKept /\ MailsTrue'
<1>1. /\ \A j \in Ids : j # i => mail'[j] = mail[j]
      /\ mail'[i] = [from |-> from, to |-> to, at |-> at]
  BY MailIs
<1>2. mail'[i].from = from /\ mail'[i].to = to
  BY <1>1
<1>3. mail' \in [Ids -> Mails]
  BY MailIs DEF Mails
<1>4. MailKept
  BY <1>1 DEF MailKept
<1>5. MailsTrue'
  BY <1>1, <1>2 DEF IInv, MailsTrue
<1> QED BY <1>3, <1>4, <1>5

LEMMA OthersSendKeeps ==
    ASSUME IInv, NEW i \in Ids, NEW from \in Users, NEW to \in Chats, NEW at \in Times,
           OthersSend(i, from, to, at)
    PROVE  IInv'
<1>1. UNCHANGED <<user, mode, stored, book, dialogs, selected, table, loggedOut>>
  BY DEF OthersSend, view
<1>2. mail' \in [Ids -> Mails] /\ MailKept /\ MailsTrue'
  BY NewMail DEF OthersSend
<1> QED BY <1>1, <1>2, IdleStep DEF IInv, TypeOK, SessionTrue, DialogsTrue

LEMMA ServerStoresKeeps ==
    ASSUME IInv, NEW i \in Ids, NEW at \in Times, ServerStores(i, at)
    PROVE  IInv'
<1>1. UNCHANGED <<user, mode, stored, book, dialogs, selected, table, loggedOut>>
  BY DEF ServerStores, view
<1>2. /\ mail[i] \in [from : Users, to : Chats, at : Times \cup {0}]
      /\ mail' = [mail EXCEPT ![i].at = at]
      /\ mail \in [Ids -> Mails]
  BY MailIs DEF ServerStores
<1>3. [mail[i] EXCEPT !.at = at] \in [from : Users, to : Chats, at : Times \cup {0}]
  BY <1>2
<1>4. /\ \A j \in Ids : j # i => mail'[j] = mail[j]
      /\ mail'[i] = [mail[i] EXCEPT !.at = at]
  BY <1>2
<1>5. mail'[i].from = mail[i].from /\ mail'[i].to = mail[i].to
  BY <1>2, <1>4
<1>6. mail' \in [Ids -> Mails]
  BY <1>2, <1>3 DEF Mails
<1>7. MailKept
  BY <1>4, <1>5 DEF MailKept
<1>8. MailsTrue'
  <2>1. mail[i] # NoMail
    BY DEF ServerStores
  <2>2. \A j \in Ids : mail[j] # NoMail =>
            mail[j].from \in Users /\ mail[j].to \in Chats /\ mail[j].from # mail[j].to
    BY DEF IInv, MailsTrue
  <2>3. \A j \in Ids : mail'[j] # NoMail =>
            mail'[j].from \in Users /\ mail'[j].to \in Chats /\ mail'[j].from # mail'[j].to
    <3>1. ASSUME NEW j \in Ids, j # i, mail'[j] # NoMail
          PROVE  mail'[j].from \in Users /\ mail'[j].to \in Chats /\ mail'[j].from # mail'[j].to
      BY <3>1, <2>2, <1>4
    <3>2. mail'[i].from \in Users /\ mail'[i].to \in Chats /\ mail'[i].from # mail'[i].to
      BY <2>1, <2>2, <1>5
    <3> QED BY <3>1, <3>2
  <2> QED BY <2>3 DEF MailsTrue
<1> QED BY <1>1, <1>6, <1>7, <1>8, IdleStep DEF IInv, TypeOK, SessionTrue, DialogsTrue

LEMMA MailStays ==
    ASSUME IInv, UNCHANGED mail
    PROVE  mail' \in [Ids -> Mails] /\ MailKept /\ MailsTrue'
BY MailIs DEF IInv, MailKept, MailsTrue

LEMMA NewDialogKeeps ==
    ASSUME IInv, NEW peer \in Users, NewDialog(peer)
    PROVE  IInv'
<1>1. /\ UNCHANGED <<user, mode, stored, book, table, mail, loggedOut>>
      /\ mode = "online" /\ peer # user /\ dialogs' = dialogs \cup {peer} /\ selected' = peer
  BY DEF NewDialog
<1>2. dialogs' \subseteq Users /\ user \notin dialogs'
  BY <1>1 DEF IInv, TypeOK, SessionTrue
<1> QED BY <1>1, <1>2, MailStays, IdleStep

LEMMA DialogsReceivedKeeps ==
    ASSUME IInv, DialogsReceived
    PROVE  IInv'
<1>1. /\ UNCHANGED <<user, mode, stored, book, selected, table, mail, loggedOut>>
      /\ mode = "online" /\ dialogs \subseteq dialogs'
      /\ \A u \in dialogs' : u \in dialogs \/ u \in Users \ {user}
  BY DEF DialogsReceived
<1>2. dialogs' \subseteq Users /\ user \notin dialogs' /\ selected' \in dialogs' \cup {Broadcast}
  BY <1>1 DEF IInv, TypeOK, SessionTrue, DialogsTrue
<1> QED BY <1>1, <1>2, MailStays, IdleStep

\* Message i belongs to one chat of a user.
LEMMA OneChat ==
    ASSUME NEW ml, NEW u \in Users, NEW i, NEW c, NEW d,
           Belongs(ml, u, i, c), Belongs(ml, u, i, d)
    PROVE  c = d
<1>1. CASE c = Broadcast /\ d # Broadcast
  <2>1. ml[i].to = Broadcast /\ {u, d} = {ml[i].from, ml[i].to}
    BY <1>1 DEF Belongs
  <2> QED BY <2>1, <1>1, UsersAre
<1>2. CASE c # Broadcast /\ d = Broadcast
  <2>1. ml[i].to = Broadcast /\ {u, c} = {ml[i].from, ml[i].to}
    BY <1>2 DEF Belongs
  <2> QED BY <2>1, <1>2, UsersAre
<1>3. CASE c # Broadcast /\ d # Broadcast
  <2>1. {u, c} = {u, d}
    BY <1>3 DEF Belongs
  <2> QED BY <2>1
<1> QED BY <1>1, <1>2, <1>3

\* What an online window has of a message is filed where its mail belongs.
LEMMA FiledAsBefore ==
    ASSUME IInv, mode = "online", MailKept, NEW i \in DOMAIN book.msgs, NEW c,
           Belongs(mail', user, i, c)
    PROVE  book.msgs[i].chat = c
<1>1. user \in Users /\ i \in Ids
  BY BookIs DEF IInv, TypeOK, SessionTrue, IsBook
<1>2. Belongs(mail, user, i, book.msgs[i].chat)
  BY PrivateIs DEF IInv
<1>3. Belongs(mail', user, i, book.msgs[i].chat)
  BY <1>1, <1>2, BelongsStays
<1> DEFINE ml == mail'
<1>4. Belongs(ml, user, i, book.msgs[i].chat) /\ Belongs(ml, user, i, c)
  BY <1>3
<1> HIDE DEF ml
<1> QED BY <1>1, <1>4, OneChat

\* upsertMessage in an online window.
LEMMA UpsertedBook ==
    ASSUME IInv, mode = "online", MailKept, NEW i \in Ids, NEW m \in Messages,
           Belongs(mail', user, i, m.chat), NEW b, b = Upsert(book, i, m)
    PROVE  /\ IsBook(b)
           /\ DOMAIN b.msgs = DOMAIN book.msgs \cup {i}
           /\ b.msgs[i] = m
           /\ \A j \in DOMAIN book.msgs : j # i => b.msgs[j] = book.msgs[j]
<1>1. IsBook(book) /\ book.msgs \in Partial(Ids, Messages)
  BY DEF IInv, TypeOK
<1>2. i \in DOMAIN book.msgs => book.msgs[i].chat = m.chat
  BY FiledAsBefore
<1>3. IsBook(b) /\ b.msgs = Put(book.msgs, i, m)
  BY <1>1, <1>2, UpsertIs
<1>4. /\ DOMAIN Put(book.msgs, i, m) = DOMAIN book.msgs \cup {i}
      /\ Put(book.msgs, i, m)[i] = m
      /\ \A j \in DOMAIN book.msgs : j # i => Put(book.msgs, i, m)[j] = book.msgs[j]
  <2> DEFINE was == book.msgs
  <2>1. was \in Partial(Ids, Messages)
    BY <1>1
  <2> HIDE DEF was
  <2>2. /\ DOMAIN Put(was, i, m) = DOMAIN was \cup {i}
        /\ Put(was, i, m)[i] = m
        /\ \A j \in DOMAIN was : j # i => Put(was, i, m)[j] = was[j]
    BY <2>1, PutIs
  <2> QED BY <2>2 DEF was
<1> QED BY <1>3, <1>4

LEMMA OnlineIs ==
    ASSUME IInv, mode = "online"
    PROVE  /\ user \in Users
           /\ dialogs \subseteq Users /\ user \notin dialogs
           /\ selected \in dialogs \cup {Broadcast} /\ selected \in Chats /\ selected # user
           /\ \A i \in DOMAIN book.msgs : /\ i \in Ids
                                          /\ book.msgs[i].chat \in dialogs \cup {Broadcast}
                                          /\ Belongs(mail, user, i, book.msgs[i].chat)
<1>1. user \in Users /\ dialogs \subseteq Users /\ user \notin dialogs
  BY DEF IInv, TypeOK, SessionTrue
<1>2. /\ selected \in dialogs \cup {Broadcast}
      /\ \A i \in DOMAIN book.msgs : book.msgs[i].chat \in dialogs \cup {Broadcast}
  BY DEF IInv, DialogsTrue
<1>3. \A i \in DOMAIN book.msgs : i \in Ids
  BY BookIs DEF IInv, IsBook
<1>4. \A i \in DOMAIN book.msgs : Belongs(mail, user, i, book.msgs[i].chat)
  BY PrivateIs DEF IInv
<1> QED BY <1>1, <1>2, <1>3, <1>4, UsersAre

\* One message is upserted and saved.
LEMMA UpsertedStep ==
    ASSUME IInv, mode = "online", UNCHANGED <<user, mode, stored, loggedOut>>,
           NEW i \in Ids, NEW m \in Messages, book' = Upsert(book, i, m), Save(book', {i}),
           Belongs(mail', user, i, m.chat), m.chat \in dialogs' \cup {Broadcast},
           mail' \in [Ids -> Mails], MailKept, MailsTrue',
           dialogs \subseteq dialogs', dialogs' \subseteq Users, user \notin dialogs',
           selected' \in dialogs' \cup {Broadcast}
    PROVE  IInv'
<1>1. /\ IsBook(book')
      /\ DOMAIN book'.msgs = DOMAIN book.msgs \cup {i}
      /\ book'.msgs[i] = m
      /\ \A j \in DOMAIN book.msgs : j # i => book'.msgs[j] = book.msgs[j]
  <2> DEFINE b == book'
  <2>1. b = Upsert(book, i, m)
    OBVIOUS
  <2> HIDE DEF b
  <2>2. /\ IsBook(b)
        /\ DOMAIN b.msgs = DOMAIN book.msgs \cup {i}
        /\ b.msgs[i] = m
        /\ \A j \in DOMAIN book.msgs : j # i => b.msgs[j] = book.msgs[j]
    BY <2>1, UpsertedBook
  <2> QED BY <2>2 DEF b
<1> DEFINE ids == {i}
<1>2. /\ ids \in SUBSET DOMAIN book'.msgs
      /\ DOMAIN book'.msgs = DOMAIN book.msgs \cup ids
      /\ \A j \in DOMAIN book.msgs : j \notin ids => book'.msgs[j] = book.msgs[j]
      /\ \A j \in ids : /\ Belongs(mail', user, j, book'.msgs[j].chat)
                        /\ book'.msgs[j].chat \in dialogs' \cup {Broadcast}
      /\ Save(book', ids)
  BY <1>1
<1> HIDE DEF ids
<1> QED BY <1>1, <1>2, SavedStep

LEMMA SendMessageKeeps ==
    ASSUME IInv, NEW i \in Ids, NEW at \in Times, SendMessage(i, at)
    PROVE  IInv'
<1> DEFINE m == Message(selected, "sending", at)
<1>1. /\ mode = "online" /\ mail[i] = NoMail
      /\ UNCHANGED <<user, mode, stored, dialogs, selected, loggedOut>>
      /\ mail' = [mail EXCEPT ![i] = [from |-> user, to |-> selected, at |-> 0]]
      /\ book' = Upsert(book, i, m) /\ Save(book', {i})
  BY DEF SendMessage
<1>2. m \in Messages /\ m.chat = selected
  BY <1>1, OnlineIs DEF Message, Messages, Statuses
<1> HIDE DEF m
<1>3. mail' \in [Ids -> Mails] /\ MailKept /\ MailsTrue'
  BY <1>1, OnlineIs, NewMail
<1>4. Belongs(mail', user, i, selected)
  <2>1. mail'[i] = [from |-> user, to |-> selected, at |-> 0]
    BY <1>1, MailIs
  <2>2. mail'[i].from = user /\ mail'[i].to = selected
    BY <2>1
  <2> QED BY <2>2 DEF Belongs
<1>5. /\ dialogs \subseteq dialogs' /\ dialogs' \subseteq Users /\ user \notin dialogs'
      /\ selected' \in dialogs' \cup {Broadcast} /\ m.chat \in dialogs' \cup {Broadcast}
  BY <1>1, <1>2, OnlineIs
<1> QED BY <1>1, <1>2, <1>3, <1>4, <1>5, UpsertedStep

\* A message the server has.
LEMMA StoredIs ==
    ASSUME IInv, NEW i \in Ids, Stored(i)
    PROVE  /\ mail[i].from \in Users /\ mail[i].to \in Chats /\ mail[i].at \in Times
           /\ mail[i].from # mail[i].to
BY MailIs DEF Stored, Times

LEMMA PublicArrivesKeeps ==
    ASSUME IInv, NEW i \in Ids, PublicArrives(i)
    PROVE  IInv'
<1> DEFINE m == Message(Broadcast, "delivered", mail[i].at)
<1>1. /\ mode = "online" /\ Stored(i) /\ mail[i].to = Broadcast
      /\ UNCHANGED <<user, mode, stored, dialogs, selected, mail, loggedOut>>
      /\ book' = Upsert(book, i, m) /\ Save(book', {i})
  BY DEF PublicArrives
<1>2. m \in Messages /\ m.chat = Broadcast
  BY <1>1, StoredIs, UsersAre DEF Message, Messages, Statuses
<1> HIDE DEF m
<1>3. mail' \in [Ids -> Mails] /\ MailKept /\ MailsTrue'
  BY <1>1, MailStays
<1>4. Belongs(mail', user, i, m.chat)
  BY <1>1, <1>2 DEF Belongs
<1>5. /\ dialogs \subseteq dialogs' /\ dialogs' \subseteq Users /\ user \notin dialogs'
      /\ selected' \in dialogs' \cup {Broadcast} /\ m.chat \in dialogs' \cup {Broadcast}
  BY <1>1, <1>2, OnlineIs
<1> QED BY <1>1, <1>2, <1>3, <1>4, <1>5, UpsertedStep

LEMMA PrivateArrivesKeeps ==
    ASSUME IInv, NEW i \in Ids, PrivateArrives(i)
    PROVE  IInv'
<1> DEFINE from == mail[i].from
           m == Message(from, "delivered", mail[i].at)
           b == Upsert(book, i, m)
<1>1. /\ mode = "online" /\ Stored(i) /\ mail[i].to = user
      /\ UNCHANGED <<user, mode, stored, selected, mail, loggedOut>>
      /\ dialogs' = dialogs \cup {from}
      /\ selected = from => book' = MarkIncomingRead(b, from) /\ Save(book', {i} \cup Unread(b, from))
      /\ selected # from => book' = b /\ Save(b, {i})
  BY DEF PrivateArrives
<1>2. from \in Users /\ from # user /\ m \in Messages /\ m.chat = from
  BY <1>1, StoredIs, UsersAre DEF Message, Messages, Statuses
<1>3. mail' \in [Ids -> Mails] /\ MailKept /\ MailsTrue'
  BY <1>1, MailStays
<1>4. Belongs(mail', user, i, m.chat)
  BY <1>1, <1>2, UsersAre DEF Belongs
<1>5. /\ dialogs \subseteq dialogs' /\ dialogs' \subseteq Users /\ user \notin dialogs'
      /\ selected' \in dialogs' \cup {Broadcast} /\ m.chat \in dialogs' \cup {Broadcast}
  BY <1>1, <1>2, OnlineIs
<1> HIDE DEF m, from
<1>6. CASE selected # from
  <2>1. book' = Upsert(book, i, m) /\ Save(book', {i})
    BY <1>1, <1>6
  <2> QED BY <1>1, <1>2, <1>3, <1>4, <1>5, <2>1, UpsertedStep
<1>7. CASE selected = from
  <2>1. /\ IsBook(b)
        /\ DOMAIN b.msgs = DOMAIN book.msgs \cup {i}
        /\ b.msgs[i] = m
        /\ \A j \in DOMAIN book.msgs : j # i => b.msgs[j] = book.msgs[j]
    BY <1>1, <1>2, <1>3, <1>4, UpsertedBook
  <2> DEFINE ids == {i} \cup Unread(b, from)
             c == MarkIncomingRead(b, from)
  <2>2. from \in Chats
    BY <1>2, UsersAre
  <2> HIDE DEF b
  <2>3. /\ IsBook(c)
        /\ DOMAIN c.msgs = DOMAIN b.msgs
        /\ Unread(b, from) \subseteq DOMAIN b.msgs
        /\ \A j \in DOMAIN b.msgs : /\ c.msgs[j].chat = b.msgs[j].chat
                                    /\ j \notin Unread(b, from) => c.msgs[j] = b.msgs[j]
    BY <2>1, <2>2, MarkIs
  <2>4. book' = c /\ Save(book', ids)
    BY <1>1, <1>7 DEF b
  <2>5. i \in ids /\ \A j : j \notin ids => j # i /\ j \notin Unread(b, from)
    OBVIOUS
  <2>6. \A j \in ids : j \in DOMAIN b.msgs
    BY <2>1, <2>3
  <2> HIDE DEF c, ids
  <2>7. \A j \in DOMAIN book.msgs : j \notin ids => c.msgs[j] = book.msgs[j]
    BY <2>1, <2>3, <2>5
  <2>8. ids \in SUBSET DOMAIN c.msgs /\ DOMAIN c.msgs = DOMAIN book.msgs \cup ids
    BY <2>1, <2>3, <2>5, <2>6
  <2>9. ASSUME NEW j \in ids
        PROVE  /\ Belongs(mail', user, j, c.msgs[j].chat)
               /\ c.msgs[j].chat \in dialogs' \cup {Broadcast}
    <3>1. c.msgs[j].chat = b.msgs[j].chat /\ j \in DOMAIN b.msgs
      BY <2>3, <2>6
    <3>2. CASE j = i
      BY <3>1, <3>2, <2>1, <1>4, <1>5
    <3>3. CASE j # i
      <4>1. j \in DOMAIN book.msgs /\ b.msgs[j] = book.msgs[j]
        BY <3>1, <3>3, <2>1
      <4>2. Belongs(mail, user, j, book.msgs[j].chat) /\ book.msgs[j].chat \in dialogs \cup {Broadcast}
        BY <4>1, <1>1, OnlineIs
      <4> QED BY <3>1, <4>1, <4>2, <1>1, <1>5
    <3> QED BY <3>2, <3>3
  <2> QED BY <1>1, <1>3, <1>5, <2>3, <2>4, <2>7, <2>8, <2>9, SavedStep
<1> QED BY <1>6, <1>7

LEMMA SelectDialogKeeps ==
    ASSUME IInv, NEW chat \in Chats, SelectDialog(chat)
    PROVE  IInv'
<1>1. /\ user # NoUser /\ chat \in dialogs \cup {Broadcast} /\ selected' = chat
      /\ UNCHANGED <<user, mode, stored, dialogs, mail, loggedOut>>
      /\ mode = "online" /\ chat # Broadcast => MarkCurrentRead(book, chat)
      /\ ~(mode = "online" /\ chat # Broadcast) => UNCHANGED <<book, table>>
  BY DEF SelectDialog
<1>2. mail' \in [Ids -> Mails] /\ MailKept /\ MailsTrue'
  BY <1>1, MailStays
<1>3. /\ dialogs \subseteq dialogs' /\ dialogs' \subseteq Users /\ user \notin dialogs'
      /\ selected' \in dialogs' \cup {Broadcast} /\ dialogs' = dialogs
  BY <1>1 DEF IInv, TypeOK, SessionTrue
<1>4. CASE ~(mode = "online" /\ chat # Broadcast)
  BY <1>1, <1>2, <1>3, <1>4, IdleStep
<1>5. CASE mode = "online" /\ chat # Broadcast
  <2> DEFINE ids == Unread(book, chat)
             c == MarkIncomingRead(book, chat)
  <2>1. book' = c /\ Save(book', ids)
    BY <1>1, <1>5 DEF MarkCurrentRead
  <2>2. /\ IsBook(c)
        /\ DOMAIN c.msgs = DOMAIN book.msgs
        /\ ids \subseteq DOMAIN book.msgs
        /\ \A j \in DOMAIN book.msgs : /\ c.msgs[j].chat = book.msgs[j].chat
                                       /\ j \notin ids => c.msgs[j] = book.msgs[j]
    BY MarkIs DEF IInv
  <2> HIDE DEF c, ids
  <2>3. ids \in SUBSET DOMAIN c.msgs /\ DOMAIN c.msgs = DOMAIN book.msgs \cup ids
    BY <2>2
  <2>4. ASSUME NEW j \in ids
        PROVE  /\ Belongs(mail', user, j, c.msgs[j].chat)
               /\ c.msgs[j].chat \in dialogs' \cup {Broadcast}
    <3>1. j \in DOMAIN book.msgs /\ c.msgs[j].chat = book.msgs[j].chat
      BY <2>2
    <3>2. Belongs(mail, user, j, book.msgs[j].chat) /\ book.msgs[j].chat \in dialogs \cup {Broadcast}
      BY <3>1, <1>5, OnlineIs
    <3> QED BY <3>1, <3>2, <1>1
  <2> QED BY <1>1, <1>2, <1>3, <1>5, <2>1, <2>2, <2>3, <2>4, SavedStep
<1> QED BY <1>4, <1>5

LEMMA StatusArrivesKeeps ==
    ASSUME IInv, NEW i \in Ids, NEW status \in Statuses, StatusArrives(i, status)
    PROVE  IInv'
<1> DEFINE at == IF status = "read" THEN 0 ELSE mail[i].at
           ids == {i}
           c == UpdateStatus(book, i, status, at)
<1>1. /\ mode = "online" /\ Stored(i) /\ i \in DOMAIN book.msgs
      /\ UNCHANGED <<user, mode, stored, dialogs, selected, mail, loggedOut>>
      /\ book' = c /\ Save(book', ids)
  BY DEF StatusArrives
<1>2. mail' \in [Ids -> Mails] /\ MailKept /\ MailsTrue'
  BY <1>1, MailStays
<1>3. /\ dialogs \subseteq dialogs' /\ dialogs' \subseteq Users /\ user \notin dialogs'
      /\ selected' \in dialogs' \cup {Broadcast}
  BY <1>1, OnlineIs
<1>4. at \in Times \cup {0}
  BY <1>1, StoredIs
<1> HIDE DEF at
<1>5. /\ IsBook(c)
      /\ DOMAIN c.msgs = DOMAIN book.msgs
      /\ c.msgs[i].chat = book.msgs[i].chat
      /\ \A j \in DOMAIN book.msgs : j # i => c.msgs[j] = book.msgs[j]
  BY <1>1, <1>4, UpdateIs DEF IInv
<1> HIDE DEF c
<1>6. /\ ids \in SUBSET DOMAIN c.msgs /\ DOMAIN c.msgs = DOMAIN book.msgs \cup ids
      /\ \A j \in DOMAIN book.msgs : j \notin ids => c.msgs[j] = book.msgs[j]
  BY <1>1, <1>5
<1>7. \A j \in ids : /\ Belongs(mail', user, j, c.msgs[j].chat)
                     /\ c.msgs[j].chat \in dialogs' \cup {Broadcast}
  BY <1>1, <1>5, OnlineIs
<1> HIDE DEF ids
<1> QED BY <1>1, <1>2, <1>3, <1>5, <1>6, <1>7, SavedStep

LEMMA HistoryArrivesKeeps ==
    ASSUME IInv, NEW chat \in Chats, NEW found \in SUBSET Known(chat),
           NEW status \in [found -> Statuses], HistoryArrives(chat, found, status)
    PROVE  IInv'
<1> DEFINE items == Sorted(mail, SetToSeq(found))
           msg == [i \in found |-> Message(chat, status[i], mail[i].at)]
           c == UpsertAll(book, items, msg)
<1>1. /\ mode = "online" /\ chat \in dialogs \cup {Broadcast}
      /\ UNCHANGED <<user, mode, stored, dialogs, selected, mail, loggedOut>>
      /\ book' = c /\ Save(book', found)
  BY DEF HistoryArrives
<1>2. mail' \in [Ids -> Mails] /\ MailKept /\ MailsTrue'
  BY <1>1, MailStays
<1>3. /\ dialogs \subseteq dialogs' /\ dialogs' \subseteq Users /\ user \notin dialogs'
      /\ selected' \in dialogs' \cup {Broadcast}
  BY <1>1, OnlineIs
<1>4. \A i \in found : i \in Ids /\ Stored(i) /\ Belongs(mail, user, i, chat)
  <2>1. ASSUME NEW i \in found PROVE i \in Ids /\ Stored(i) /\ Belongs(mail, user, i, chat)
    <3>1. i \in Ids /\ Stored(i)
      BY DEF Known
    <3>2. CASE chat = Broadcast
      BY <3>2 DEF Known, Belongs
    <3>3. CASE chat # Broadcast
      BY <3>3 DEF Known, Belongs
    <3> QED BY <3>1, <3>2, <3>3
  <2> QED BY <2>1
<1>5. \A i \in found : msg[i] \in Messages /\ msg[i].chat = chat /\ mail[i].at \in Nat
  BY <1>4, StoredIs DEF Message, Messages, Times
<1> HIDE DEF msg
<1>6. SetToSeq(found) \in Seq(Ids) /\ ToSet(SetToSeq(found)) = found /\ Different(SetToSeq(found))
  <2>1. found \in SUBSET Ids
    BY <1>4
  <2> QED BY <2>1, SetToSeqIs
<1>7. items \in Seq(Ids) /\ ToSet(items) = found
  <2>1. \A i \in ToSet(SetToSeq(found)) : mail[i].at \in Nat
    BY <1>5, <1>6
  <2> QED BY <2>1, <1>6, SortedIs
<1> HIDE DEF items
<1>8. \A i \in ToSet(items) : /\ msg[i] \in Messages
                              /\ i \in DOMAIN book.msgs => book.msgs[i].chat = msg[i].chat
  <2>1. ASSUME NEW i \in found, i \in DOMAIN book.msgs PROVE book.msgs[i].chat = chat
    <3>1. Belongs(mail', user, i, chat)
      BY <1>1, <1>4
    <3> QED BY <2>1, <3>1, <1>1, <1>2, FiledAsBefore
  <2> QED BY <2>1, <1>5, <1>7
<1>9. IsBook(book)
  BY DEF IInv
<1>10. /\ IsBook(c)
       /\ \A i : i \in DOMAIN c.msgs <=> i \in DOMAIN book.msgs \/ i \in ToSet(items)
       /\ \A i \in DOMAIN c.msgs :
              c.msgs[i] = IF i \in ToSet(items) THEN msg[i] ELSE book.msgs[i]
  BY <1>7, <1>8, <1>9, UpsertAllIs
<1> HIDE DEF c
<1>11. found \in SUBSET DOMAIN c.msgs /\ DOMAIN c.msgs = DOMAIN book.msgs \cup found
  BY <1>7, <1>10
<1>12. \A j \in DOMAIN book.msgs : j \notin found => c.msgs[j] = book.msgs[j]
  BY <1>7, <1>10, <1>11
<1>13. ASSUME NEW j \in found
       PROVE  /\ Belongs(mail', user, j, c.msgs[j].chat)
              /\ c.msgs[j].chat \in dialogs' \cup {Broadcast}
  <2>1. c.msgs[j] = msg[j]
    BY <1>7, <1>10, <1>11
  <2>2. c.msgs[j].chat = chat
    BY <2>1, <1>5
  <2>3. Belongs(mail', user, j, chat)
    BY <1>1, <1>4
  <2> QED BY <2>2, <2>3, <1>1
<1> QED BY <1>1, <1>2, <1>3, <1>10, <1>11, <1>12, <1>13, SavedStep

-----------------------------------------------------------------------------
(* The theorems. *)

LEMMA StutterKeeps ==
    ASSUME IInv, UNCHANGED vars
    PROVE  IInv'
<1>1. UNCHANGED <<user, mode, stored, book, dialogs, selected, table, mail, loggedOut>>
  BY DEF vars, view
<1>2. mail' \in [Ids -> Mails] /\ MailKept /\ MailsTrue'
  BY <1>1, MailStays
<1>3. /\ dialogs \subseteq dialogs' /\ dialogs' \subseteq Users /\ user \notin dialogs'
      /\ selected' \in dialogs' \cup {Broadcast}
  BY <1>1 DEF IInv, TypeOK, SessionTrue, DialogsTrue
<1> QED BY <1>1, <1>2, <1>3, IdleStep

LEMMA NextIInv == IInv /\ [Next]_vars => IInv'
<1> SUFFICES ASSUME IInv, [Next]_vars PROVE IInv'
  OBVIOUS
<1>1. CASE \E u \in Users : SignedIn(u)
  BY <1>1, SignedInKeeps
<1>2. CASE GoesOffline
  BY <1>2, GoesOfflineKeeps
<1>3. CASE \E connected \in BOOLEAN : LogoutRequested(connected)
  BY <1>3, LogoutRequestedKeeps
<1>4. CASE Restart
  BY <1>4, RestartKeeps
<1>5. CASE \E i \in Ids, at \in Times : SendMessage(i, at)
  BY <1>5, SendMessageKeeps
<1>6. CASE \E chat \in Chats : SelectDialog(chat)
  BY <1>6, SelectDialogKeeps
<1>7. CASE \E peer \in Users : NewDialog(peer)
  BY <1>7, NewDialogKeeps
<1>8. CASE \E i \in Ids, at \in Times : ServerStores(i, at)
  BY <1>8, ServerStoresKeeps
<1>9. CASE \E i \in Ids, from \in Users, to \in Chats, at \in Times : OthersSend(i, from, to, at)
  BY <1>9, OthersSendKeeps
<1>10. CASE \E i \in Ids : PublicArrives(i)
  BY <1>10, PublicArrivesKeeps
<1>11. CASE \E i \in Ids : PrivateArrives(i)
  BY <1>11, PrivateArrivesKeeps
<1>12. CASE \E i \in Ids, status \in Statuses : StatusArrives(i, status)
  BY <1>12, StatusArrivesKeeps
<1>13. CASE \E chat \in Chats : \E found \in SUBSET Known(chat) :
               \E status \in [found -> Statuses] : HistoryArrives(chat, found, status)
  <2>1. PICK chat \in Chats : \E found \in SUBSET Known(chat) :
               \E status \in [found -> Statuses] : HistoryArrives(chat, found, status)
    BY <1>13
  <2>2. PICK found \in SUBSET Known(chat) :
               \E status \in [found -> Statuses] : HistoryArrives(chat, found, status)
    BY <2>1
  <2> QED BY <2>2, HistoryArrivesKeeps
<1>14. CASE DialogsReceived
  BY <1>14, DialogsReceivedKeeps
<1>15. CASE UNCHANGED vars
  BY <1>15, StutterKeeps
<1> QED BY <1>1, <1>2, <1>3, <1>4, <1>5, <1>6, <1>7, <1>8, <1>9, <1>10, <1>11, <1>12, <1>13,
           <1>14, <1>15 DEF Next

\* What every handler keeps.
THEOREM Invariance == Spec => []IInv
BY InitIInv, NextIInv, PTL DEF Spec

\* Memory, database and mail keep their types: sorting and loading end with lists of ids
\* (sortChatMessages, loadMessages).
THEOREM TypeCorrect == Spec => []TypeOK
<1>1. IInv => TypeOK
  BY DEF IInv
<1> QED BY <1>1, Invariance, PTL

\* Each chat is shown whole, once and in order, and can be opened, for any number of
\* messages and however they come (upsertMessage, updateMessageStatus, sortChatMessages).
THEOREM ListsAreWhole == Spec => []ListsShowMemory
<1>1. ASSUME IInv PROVE ListsShowMemory
  <2>1. DialogsTrue /\ IsBook(book)
    BY <1>1 DEF IInv
  <2>2. ASSUME NEW c \in Chats
        PROVE  LET ids == book.lists[c]
               IN  /\ ToSet(ids) = {i \in DOMAIN book.msgs : book.msgs[i].chat = c}
                   /\ \A k \in 1 .. Len(ids) - 1 : Before(book.msgs, ids[k], ids[k + 1])
    <3>1. /\ ToSet(book.lists[c]) = InChat(book.msgs, c)
          /\ Ordered(book.msgs, book.lists[c])
          /\ book.lists[c] \in Seq(Ids)
      BY <2>1, BookIs DEF IsBook, Arranged
    <3>2. ASSUME NEW k \in 1 .. Len(book.lists[c]) - 1
          PROVE  Before(book.msgs, book.lists[c][k], book.lists[c][k + 1])
      <4> DEFINE ids == book.lists[c]
      <4>1. Len(ids) \in Nat /\ DOMAIN ids = 1 .. Len(ids)
        BY <3>1, SeqIs
      <4>2. k \in DOMAIN ids /\ k + 1 \in DOMAIN ids /\ k < k + 1
        BY <4>1
      <4> QED BY <4>2, <3>1 DEF Ordered
    <3> QED BY <3>1, <3>2 DEF InChat
  <2> QED BY <2>1, <2>2 DEF ListsShowMemory, DialogsTrue
<1> QED BY <1>1, Invariance, PTL

\* The window shows what the table has of its user, so that a restart shows the same
\* (saveMessage, loadMessages).
THEOREM WindowFollowsTable == Spec => []WindowIsTable
<1>1. IInv => WindowIsTable
  BY DEF IInv
<1> QED BY <1>1, Invariance, PTL

\* Nobody is shown, and nothing is kept under his name of, what is not his, whoever used
\* the client before him (activateSession, saveMessage).
THEOREM PrivateStaysPrivate == Spec => []MailStaysPrivate
<1>1. IInv => MailStaysPrivate
  BY DEF IInv
<1> QED BY <1>1, Invariance, PTL

\* Nothing of a user is left once he has logged out (onLogoutRequested, clearUserData).
THEOREM LogoutIsFinal == Spec => []LogoutForgets
<1>1. IInv => LogoutForgets
  BY DEF IInv
<1> QED BY <1>1, Invariance, PTL
=============================================================================
