----------------------- MODULE TrackedTransport_proofs -----------------------
(* Theorems about TrackedTransport, for any ids, retry limit and number of *)
(* connections, with or without corruption and automatic reconnection.     *)
EXTENDS TrackedTransport, FiniteSetTheorems, TLAPS

-----------------------------------------------------------------------------
(* The two ends, and sequences. *)

\* There are two ends.
LEMMA PeerIs ==
    ASSUME NEW e \in Ends
    PROVE  /\ Peer(e) \in Ends /\ Peer(e) # e /\ Peer(Peer(e)) = e
           /\ \A d \in Ends : d = e \/ d = Peer(e)
<1>1. ASSUME NEW d \in Ends PROVE Peer(d) \in Ends /\ Peer(d) # d
  <2>1. \E p \in Ends : p # d
    BY DEF Ends
  <2> QED BY <2>1 DEF Peer
<1> QED BY <1>1 DEF Ends

\* What Tail leaves.
LEMMA TailOf ==
    ASSUME NEW S, NEW q \in Seq(S), q # <<>>
    PROVE  /\ Tail(q) \in Seq(S) /\ Head(q) \in S
           /\ DOMAIN Tail(q) = 1 .. (Len(q) - 1) /\ DOMAIN q = 1 .. Len(q)
           /\ Len(q) \in Nat \ {0} /\ Len(Tail(q)) = Len(q) - 1
           /\ Head(q) = q[1]
           /\ \A k \in 1 .. (Len(q) - 1) : Tail(q)[k] = q[k + 1]
OBVIOUS

\* What Append adds.
LEMMA AppendOf ==
    ASSUME NEW S, NEW q \in Seq(S), NEW x \in S
    PROVE  /\ Append(q, x) \in Seq(S) /\ q \o <<x>> = Append(q, x)
           /\ DOMAIN Append(q, x) = 1 .. (Len(q) + 1) /\ DOMAIN q = 1 .. Len(q)
           /\ Len(q) \in Nat /\ Len(Append(q, x)) = Len(q) + 1
           /\ Append(q, x)[Len(q) + 1] = x
           /\ \A k \in 1 .. Len(q) : Append(q, x)[k] = q[k]
OBVIOUS

\* What concatenation adds.
LEMMA ConcatOf ==
    ASSUME NEW S, NEW q \in Seq(S), NEW r \in Seq(S)
    PROVE  /\ q \o r \in Seq(S)
           /\ DOMAIN (q \o r) = 1 .. (Len(q) + Len(r))
           /\ DOMAIN q = 1 .. Len(q) /\ DOMAIN r = 1 .. Len(r)
           /\ Len(q) \in Nat /\ Len(r) \in Nat
           /\ \A k \in 1 .. Len(q) : (q \o r)[k] = q[k]
           /\ \A k \in (Len(q) + 1) .. (Len(q) + Len(r)) : (q \o r)[k] = r[k - Len(q)]
OBVIOUS

\* The empty sequence is one of anything.
LEMMA EmptySequence ==
    ASSUME NEW S
    PROVE  <<>> \in Seq(S) /\ DOMAIN <<>> = {} /\ Len(<<>>) = 0
OBVIOUS

\* Elements of a sequence and their places.
LEMMA ElementOf ==
    ASSUME NEW S, NEW q \in Seq(S), NEW i \in DOMAIN q
    PROVE  q[i] \in S /\ i \in Nat \ {0} /\ i <= Len(q) /\ Len(q) \in Nat
OBVIOUS

\* Frames are numbered from 1.
LEMMA FrameSeq ==
    ASSUME NEW q \in Seq(Frames)
    PROVE  \A i \in DOMAIN q : q[i].seq \in Nat \ {0} /\ i \in Nat \ {0}
<1> SUFFICES ASSUME NEW i \in DOMAIN q PROVE q[i].seq \in Nat \ {0} /\ i \in Nat \ {0}
  OBVIOUS
<1>1. q[i] \in Frames /\ i \in Nat \ {0}
  BY ElementOf
<1> QED BY <1>1 DEF Frames

\* A frame is what it was made of.
LEMMA FrameIs ==
    ASSUME NEW kind \in {"data", "ack"}, NEW id \in Ids, NEW seq \in Nat \ {0}
    PROVE  /\ Frame(kind, id, seq) \in Frames
           /\ Frame(kind, id, seq).kind = kind /\ Frame(kind, id, seq).id = id
           /\ Frame(kind, id, seq).seq = seq
BY DEF Frame, Frames

-----------------------------------------------------------------------------
(* What is on the wire. *)

\* The wire q into an end that has seen number last of the stream s, whose sender has
\* dispatched the ids in done: every packet is one of the stream; those not seen yet are
\* all on the wire, and none of them before the one that precedes it; acknowledgements
\* are of packets that were dispatched.
Carries(q, last, s, done) ==
    /\ \A i \in DOMAIN q : q[i].kind = "data" =>
         /\ q[i].seq <= Len(s)
         /\ s[q[i].seq] = q[i].id
         /\ q[i].seq > last + 1 =>
              \E j \in DOMAIN q : j < i /\ q[j].kind = "data" /\ q[j].seq = q[i].seq - 1
    /\ \A i \in DOMAIN q : q[i].kind = "ack" => q[i].id \in done
    /\ \A n \in (last + 1) .. Len(s) : \E i \in DOMAIN q : q[i].kind = "data" /\ q[i].seq = n

\* An empty wire carries nothing.
LEMMA CarriesNothing ==
    ASSUME NEW done
    PROVE  Carries(<<>>, 0, <<>>, done)
<1>1. DOMAIN <<>> = {} /\ 1 .. Len(<<>>) = {}
  OBVIOUS
<1> QED BY <1>1 DEF Carries

\* Packets of the stream that are sent again are behind the ones before them.
LEMMA CarriesRepeated ==
    ASSUME NEW q \in Seq(Frames), NEW last \in Nat, NEW s \in Seq(Ids), NEW done,
           Carries(q, last, s, done),
           NEW r \in Seq(Frames),
           \A i \in DOMAIN r : r[i].kind = "data" /\ r[i].seq <= Len(s) /\ s[r[i].seq] = r[i].id
    PROVE  Carries(q \o r, last, s, done)
<1> DEFINE w == q \o r
<1>1. /\ w \in Seq(Frames) /\ DOMAIN w = 1 .. (Len(q) + Len(r))
      /\ DOMAIN q = 1 .. Len(q) /\ DOMAIN r = 1 .. Len(r)
      /\ Len(q) \in Nat /\ Len(r) \in Nat
      /\ \A k \in 1 .. Len(q) : w[k] = q[k]
      /\ \A k \in (Len(q) + 1) .. (Len(q) + Len(r)) : w[k] = r[k - Len(q)]
  BY ConcatOf
<1> HIDE DEF w
<1>2. ASSUME NEW i \in DOMAIN w, w[i].kind = "data"
      PROVE  /\ w[i].seq <= Len(s)
             /\ s[w[i].seq] = w[i].id
             /\ w[i].seq > last + 1 =>
                  \E j \in DOMAIN w : j < i /\ w[j].kind = "data" /\ w[j].seq = w[i].seq - 1
  <2>1. CASE i <= Len(q)
    <3>1. i \in DOMAIN q /\ w[i] = q[i] /\ \A j \in DOMAIN q : j \in DOMAIN w /\ w[j] = q[j]
      BY <1>1, <2>1
    <3>2. /\ q[i].seq <= Len(s) /\ s[q[i].seq] = q[i].id
          /\ q[i].seq > last + 1 =>
               \E j \in DOMAIN q : j < i /\ q[j].kind = "data" /\ q[j].seq = q[i].seq - 1
      BY <1>2, <3>1 DEF Carries
    <3> QED BY <3>1, <3>2
  <2>2. CASE i > Len(q)
    <3>1. i - Len(q) \in DOMAIN r /\ w[i] = r[i - Len(q)]
      <4>1. i \in (Len(q) + 1) .. (Len(q) + Len(r))
        BY <1>1, <2>2
      <4> QED BY <1>1, <4>1
    <3>2. w[i].seq <= Len(s) /\ s[w[i].seq] = w[i].id
      BY <3>1
    <3>3. ASSUME w[i].seq > last + 1
          PROVE  \E j \in DOMAIN w : j < i /\ w[j].kind = "data" /\ w[j].seq = w[i].seq - 1
      <4>1. w[i].seq \in Nat /\ Len(s) \in Nat
        BY <1>1, FrameSeq
      <4>2. w[i].seq - 1 \in (last + 1) .. Len(s)
        BY <3>2, <3>3, <4>1
      <4>3. PICK j \in DOMAIN q : q[j].kind = "data" /\ q[j].seq = w[i].seq - 1
        BY <4>2 DEF Carries
      <4>4. j \in DOMAIN w /\ w[j] = q[j] /\ j < i
        BY <1>1, <2>2
      <4> QED BY <4>3, <4>4
    <3> QED BY <3>2, <3>3
  <2> QED BY <1>1, <2>1, <2>2
<1>3. ASSUME NEW i \in DOMAIN w, w[i].kind = "ack"
      PROVE  w[i].id \in done
  <2>1. i <= Len(q)
    <3> SUFFICES ASSUME i > Len(q) PROVE FALSE
      BY <1>1
    <3>1. i - Len(q) \in DOMAIN r /\ w[i] = r[i - Len(q)]
      BY <1>1
    <3> QED BY <1>3, <3>1
  <2>2. i \in DOMAIN q /\ w[i] = q[i]
    BY <1>1, <2>1
  <2> QED BY <1>3, <2>2 DEF Carries
<1>4. ASSUME NEW n \in (last + 1) .. Len(s)
      PROVE  \E i \in DOMAIN w : w[i].kind = "data" /\ w[i].seq = n
  <2>1. PICK i \in DOMAIN q : q[i].kind = "data" /\ q[i].seq = n
    BY DEF Carries
  <2>2. i \in DOMAIN w /\ w[i] = q[i]
    BY <1>1
  <2> QED BY <2>1, <2>2
<1>5. Carries(w, last, s, done)
  BY <1>2, <1>3, <1>4 DEF Carries
<1> QED BY <1>5 DEF w

\* A packet is sent for the first time.
LEMMA CarriesNew ==
    ASSUME NEW q \in Seq(Frames), NEW last \in Nat, NEW s \in Seq(Ids), NEW done,
           Carries(q, last, s, done), last <= Len(s), NEW id \in Ids
    PROVE  Carries(Append(q, Frame("data", id, Len(s) + 1)), last, Append(s, id), done)
<1> DEFINE f == Frame("data", id, Len(s) + 1)
           w == Append(q, f)
           t == Append(s, id)
<1>1. f \in Frames /\ f.kind = "data" /\ f.seq = Len(s) + 1 /\ f.id = id
  BY FrameIs
<1> HIDE DEF f
<1>2. /\ DOMAIN w = 1 .. (Len(q) + 1) /\ DOMAIN q = 1 .. Len(q)
      /\ Len(q) \in Nat /\ w[Len(q) + 1] = f
      /\ \A k \in 1 .. Len(q) : w[k] = q[k]
  BY <1>1, AppendOf
<1>3. /\ Len(s) \in Nat /\ Len(t) = Len(s) + 1 /\ t[Len(s) + 1] = id
      /\ \A k \in 1 .. Len(s) : t[k] = s[k]
  BY AppendOf
<1> HIDE DEF w, t
<1>4. \A i \in DOMAIN q : i \in DOMAIN w /\ w[i] = q[i] /\ q[i].seq \in Nat \ {0}
  BY <1>2, FrameSeq
<1>5. ASSUME NEW i \in DOMAIN w, w[i].kind = "data"
      PROVE  /\ w[i].seq <= Len(t)
             /\ t[w[i].seq] = w[i].id
             /\ w[i].seq > last + 1 =>
                  \E j \in DOMAIN w : j < i /\ w[j].kind = "data" /\ w[j].seq = w[i].seq - 1
  <2>1. CASE i \in DOMAIN q
    <3>1. /\ q[i].seq <= Len(s) /\ s[q[i].seq] = q[i].id /\ w[i] = q[i]
          /\ q[i].seq > last + 1 =>
               \E j \in DOMAIN q : j < i /\ q[j].kind = "data" /\ q[j].seq = q[i].seq - 1
      BY <1>4, <1>5, <2>1 DEF Carries
    <3>2. q[i].seq \in 1 .. Len(s)
      BY <1>3, <1>4, <2>1, <3>1
    <3> QED BY <1>3, <1>4, <3>1, <3>2
  <2>2. CASE i = Len(q) + 1
    <3>1. w[i].seq = Len(s) + 1 /\ w[i].id = id
      BY <1>1, <1>2, <2>2
    <3>2. ASSUME Len(s) + 1 > last + 1
          PROVE  \E j \in DOMAIN w : j < i /\ w[j].kind = "data" /\ w[j].seq = Len(s)
      <4>1. Len(s) \in (last + 1) .. Len(s)
        BY <1>3, <3>2
      <4>2. PICK j \in DOMAIN q : q[j].kind = "data" /\ q[j].seq = Len(s)
        BY <4>1 DEF Carries
      <4> QED BY <1>2, <1>4, <2>2, <4>2
    <3>3. w[i].seq - 1 = Len(s)
      BY <1>3, <3>1
    <3> QED BY <1>3, <3>1, <3>2, <3>3
  <2> QED BY <1>2, <2>1, <2>2
<1>6. ASSUME NEW i \in DOMAIN w, w[i].kind = "ack"
      PROVE  w[i].id \in done
  <2>1. i \in DOMAIN q
    BY <1>1, <1>2, <1>6
  <2> QED BY <1>4, <1>6, <2>1 DEF Carries
<1>7. ASSUME NEW n \in (last + 1) .. Len(t)
      PROVE  \E i \in DOMAIN w : w[i].kind = "data" /\ w[i].seq = n
  <2>1. CASE n = Len(s) + 1
    BY <1>1, <1>2, <2>1
  <2>2. CASE n # Len(s) + 1
    <3>1. n \in (last + 1) .. Len(s)
      BY <1>3, <2>2
    <3>2. PICK i \in DOMAIN q : q[i].kind = "data" /\ q[i].seq = n
      BY <3>1 DEF Carries
    <3> QED BY <1>4, <3>2
  <2> QED BY <2>1, <2>2
<1>8. Carries(w, last, t, done)
  BY <1>5, <1>6, <1>7 DEF Carries
<1> QED BY <1>8 DEF w, t, f

\* A packet that was dispatched is acknowledged.
LEMMA CarriesAck ==
    ASSUME NEW q \in Seq(Frames), NEW last \in Nat, NEW s, NEW done,
           Carries(q, last, s, done), NEW f \in Frames, f.kind = "ack", f.id \in done
    PROVE  Carries(Append(q, f), last, s, done)
<1> DEFINE w == Append(q, f)
<1>1. /\ DOMAIN w = 1 .. (Len(q) + 1) /\ DOMAIN q = 1 .. Len(q)
      /\ Len(q) \in Nat /\ w[Len(q) + 1] = f
      /\ \A k \in 1 .. Len(q) : w[k] = q[k]
  BY AppendOf
<1> HIDE DEF w
<1>2. \A i \in DOMAIN q : i \in DOMAIN w /\ w[i] = q[i]
  BY <1>1
<1>3. \A i \in DOMAIN w : i \notin DOMAIN q => w[i] = f
  BY <1>1
<1>4. Carries(w, last, s, done)
  BY <1>2, <1>3 DEF Carries
<1> QED BY <1>4 DEF w

\* More packets have been dispatched.
LEMMA CarriesMore ==
    ASSUME NEW q, NEW last, NEW s, NEW done, NEW more,
           Carries(q, last, s, done), done \subseteq more
    PROVE  Carries(q, last, s, more)
BY DEF Carries

\* The first frame is taken from the wire: an acknowledgement, a packet seen before, or
\* the very next one.
LEMMA CarriesRest ==
    ASSUME NEW q \in Seq(Frames), NEW last \in Nat, NEW s \in Seq(Ids), NEW done,
           Carries(q, last, s, done), last <= Len(s), q # <<>>
    PROVE  /\ Head(q).kind = "ack" => /\ Head(q).id \in done
                                      /\ Carries(Tail(q), last, s, done)
           /\ Head(q).kind = "data" => Head(q).seq <= Len(s) /\ s[Head(q).seq] = Head(q).id
           /\ Head(q).kind = "data" /\ Head(q).seq <= last => Carries(Tail(q), last, s, done)
           /\ Head(q).kind = "data" /\ ~(Head(q).seq <= last) =>
                /\ Head(q).seq = last + 1
                /\ Carries(Tail(q), last + 1, s, done)
<1> DEFINE w == Tail(q)
           h == Head(q)
<1>1. /\ w \in Seq(Frames) /\ h \in Frames
      /\ DOMAIN w = 1 .. (Len(q) - 1) /\ DOMAIN q = 1 .. Len(q)
      /\ Len(q) \in Nat \ {0} /\ h = q[1]
      /\ \A k \in 1 .. (Len(q) - 1) : w[k] = q[k + 1]
  BY TailOf
<1> HIDE DEF w, h
<1>2. 1 \in DOMAIN q /\ h.seq \in Nat \ {0} /\ Len(s) \in Nat
  BY <1>1 DEF Frames
<1>3. \A i \in DOMAIN w : i + 1 \in DOMAIN q /\ w[i] = q[i + 1] /\ i \in Nat \ {0}
  BY <1>1
<1>4. \A i \in DOMAIN q : i # 1 => i - 1 \in DOMAIN w /\ w[i - 1] = q[i] /\ i \in Nat \ {0}
  BY <1>1
<1>5. h.kind = "ack" => h.id \in done
  BY <1>1, <1>2 DEF Carries
<1>6. h.kind = "data" => h.seq <= Len(s) /\ s[h.seq] = h.id
  BY <1>1, <1>2 DEF Carries
<1>7. ASSUME h.kind = "data", ~(h.seq <= last)
      PROVE  h.seq = last + 1
  <2>1. ~\E j \in DOMAIN q : j < 1
    BY <1>1
  <2>2. ~(h.seq > last + 1)
    BY <1>1, <1>2, <1>7, <2>1 DEF Carries
  <2> QED BY <1>2, <1>7, <2>2
<1>8. ASSUME NEW l \in {last, last + 1},
             (h.kind = "ack" /\ l = last) \/ (h.kind = "data" /\ h.seq <= l)
      PROVE  Carries(w, l, s, done)
  <2>1. l \in Nat /\ last <= l
    OBVIOUS
  <2>2. ASSUME NEW i \in DOMAIN w, w[i].kind = "data"
        PROVE  /\ w[i].seq <= Len(s)
               /\ s[w[i].seq] = w[i].id
               /\ w[i].seq > l + 1 =>
                    \E j \in DOMAIN w : j < i /\ w[j].kind = "data" /\ w[j].seq = w[i].seq - 1
    <3>1. i + 1 \in DOMAIN q /\ w[i] = q[i + 1] /\ i \in Nat \ {0} /\ q[i + 1].seq \in Nat
      BY <1>3, FrameSeq
    <3>2. q[i + 1].seq <= Len(s) /\ s[q[i + 1].seq] = q[i + 1].id
      BY <2>2, <3>1 DEF Carries
    <3>3. ASSUME w[i].seq > l + 1
          PROVE  \E j \in DOMAIN w : j < i /\ w[j].kind = "data" /\ w[j].seq = w[i].seq - 1
      <4>1. q[i + 1].seq > last + 1
        BY <2>1, <3>1, <3>3
      <4>2. PICK j \in DOMAIN q : /\ j < i + 1 /\ q[j].kind = "data"
                                  /\ q[j].seq = q[i + 1].seq - 1
        BY <2>2, <3>1, <4>1 DEF Carries
      <4>3. j # 1
        <5>1. q[j].seq > l
          BY <2>1, <3>1, <3>3, <4>2
        <5>2. ~(h.seq > l) \/ h.kind = "ack"
          BY <1>2, <1>8, <2>1
        <5> QED BY <1>1, <4>2, <5>1, <5>2
      <4>4. j - 1 \in DOMAIN w /\ w[j - 1] = q[j] /\ j - 1 < i
        BY <1>4, <3>1, <4>2, <4>3
      <4> QED BY <3>1, <4>2, <4>4
    <3> QED BY <3>1, <3>2, <3>3
  <2>3. ASSUME NEW i \in DOMAIN w, w[i].kind = "ack"
        PROVE  w[i].id \in done
    BY <1>3, <2>3 DEF Carries
  <2>4. ASSUME NEW n \in (l + 1) .. Len(s)
        PROVE  \E i \in DOMAIN w : w[i].kind = "data" /\ w[i].seq = n
    <3>1. n \in (last + 1) .. Len(s)
      BY <1>2, <2>1
    <3>2. PICK i \in DOMAIN q : q[i].kind = "data" /\ q[i].seq = n
      BY <3>1 DEF Carries
    <3>3. i # 1
      BY <1>1, <1>2, <1>8, <2>1, <3>2
    <3> QED BY <1>4, <3>2, <3>3
  <2> QED BY <2>2, <2>3, <2>4 DEF Carries
<1>9. ASSUME h.kind = "ack" PROVE Carries(w, last, s, done)
  BY <1>8, <1>9
<1>10. ASSUME h.kind = "data", h.seq <= last PROVE Carries(w, last, s, done)
  BY <1>8, <1>10
<1>11. ASSUME h.kind = "data", h.seq = last + 1 PROVE Carries(w, last + 1, s, done)
  BY <1>2, <1>8, <1>11
<1> QED BY <1>5, <1>6, <1>7, <1>9, <1>10, <1>11 DEF w, h

-----------------------------------------------------------------------------
(* Types. *)

TypeInv == TypeOK /\ \A e \in Ends : IsFiniteSet(tracked[e])

\* An entry whose retries are counted is an entry of the same packet.
LEMMA RetryCounted ==
    ASSUME NEW m \in Entries, MayRetry(m)
    PROVE  /\ [m EXCEPT !.retries = @ + 1] \in Entries
           /\ [m EXCEPT !.retries = @ + 1].id = m.id
           /\ [m EXCEPT !.retries = @ + 1].seq = m.seq
BY TransportAssumption DEF MayRetry, Entries

\* What a scan leaves in the table.
LEMMA AfterScanIs ==
    ASSUME NEW table \in SUBSET Entries, NEW hit \in SUBSET table, IsFiniteSet(table)
    PROVE  /\ AfterScan(table, hit) \in SUBSET Entries
           /\ IsFiniteSet(AfterScan(table, hit))
           /\ \A m \in AfterScan(table, hit) : \E n \in table : m.id = n.id /\ m.seq = n.seq
<1> DEFINE again == {h \in hit : MayRetry(h)}
           counted == {[m EXCEPT !.retries = @ + 1] : m \in again}
           f == [m \in again |-> [m EXCEPT !.retries = @ + 1]]
<1>1. AfterScan(table, hit) = (table \ hit) \cup counted
  BY DEF AfterScan
<1>2. \A m \in again : m \in Entries /\ m \in table /\ MayRetry(m)
  OBVIOUS
<1>3. \A m \in counted : m \in Entries /\ \E n \in table : m.id = n.id /\ m.seq = n.seq
  <2> SUFFICES ASSUME NEW n \in again
               PROVE  /\ [n EXCEPT !.retries = @ + 1] \in Entries
                      /\ [n EXCEPT !.retries = @ + 1].id = n.id
                      /\ [n EXCEPT !.retries = @ + 1].seq = n.seq
    OBVIOUS
  <2> QED BY <1>2, RetryCounted
<1>4. IsFiniteSet(counted)
  <2>1. IsFiniteSet(again) /\ IsFiniteSet(table \ hit)
    <3>1. again \in SUBSET table /\ (table \ hit) \in SUBSET table
      OBVIOUS
    <3> QED BY <3>1, FS_Subset
  <2>2. f \in Surjection(again, counted)
    BY DEF Surjection
  <2> QED BY <2>1, <2>2, FS_Surjection
<1>5. IsFiniteSet(table \ hit)
  <2>1. (table \ hit) \in SUBSET table
    OBVIOUS
  <2> QED BY <2>1, FS_Subset
<1>6. IsFiniteSet((table \ hit) \cup counted)
  BY <1>4, <1>5, FS_Union
<1> QED BY <1>1, <1>3, <1>6

\* What a scan writes: frames of the packets it found due.
LEMMA ResentIs ==
    ASSUME NEW hit \in SUBSET Entries, IsFiniteSet(hit),
           NEW resent \in SUBSET hit,
           NEW order \in SetToSeqs(resent)
    PROVE  LET r == [i \in DOMAIN order |-> Frame("data", order[i].id, order[i].seq)]
           IN  /\ r \in Seq(Frames)
               /\ \A i \in DOMAIN r : \E m \in hit :
                    r[i].kind = "data" /\ r[i].id = m.id /\ r[i].seq = m.seq
<1> DEFINE r == [i \in DOMAIN order |-> Frame("data", order[i].id, order[i].seq)]
<1>1. Cardinality(resent) \in Nat
  BY FS_Subset, FS_CardinalityType
<1>2. order \in [1 .. Cardinality(resent) -> resent]
  BY DEF SetToSeqs
<1>3. \A i \in DOMAIN order : order[i] \in hit /\ order[i].id \in Ids /\ order[i].seq \in Nat \ {0}
  BY <1>2 DEF Entries
<1>4. \A i \in DOMAIN order : /\ r[i] \in Frames /\ r[i].kind = "data"
                              /\ r[i].id = order[i].id /\ r[i].seq = order[i].seq
  <2> SUFFICES ASSUME NEW i \in DOMAIN order
               PROVE  /\ r[i] \in Frames /\ r[i].kind = "data"
                      /\ r[i].id = order[i].id /\ r[i].seq = order[i].seq
    OBVIOUS
  <2>1. r[i] = Frame("data", order[i].id, order[i].seq)
    OBVIOUS
  <2> QED BY <1>3, <2>1, FrameIs
<1>5. r \in [1 .. Cardinality(resent) -> Frames]
  BY <1>2, <1>4
<1>6. r \in Seq(Frames)
  BY <1>1, <1>5
<1> QED BY <1>3, <1>4, <1>6

\* The types hold at the start.
LEMMA InitTypes ==
    ASSUME Init
    PROVE  TypeInv
<1>1. IsFiniteSet({})
  BY FS_EmptySet
<1>2. <<>> \in Seq(Frames) /\ <<>> \in Seq(Ids)
  BY EmptySequence
<1> QED BY <1>1, <1>2 DEF Init, TypeInv, TypeOK

\* A new connection.
LEMMA EstablishTypes ==
    ASSUME TypeInv, Establish,
           nextSeq' \in [Ends -> Nat], lastSeq' \in [Ends -> Nat], reconnects' \in BOOLEAN,
           tracked' = tracked \/ tracked' = [e \in Ends |-> {}],
           acked' \in [Ends -> SUBSET Ids], clean' \in BOOLEAN,
           UNCHANGED <<offered, dispatched>>
    PROVE  TypeInv'
<1>1. tracked' \in [Ends -> SUBSET Entries] /\ \A e \in Ends : IsFiniteSet(tracked'[e])
  BY FS_EmptySet DEF TypeInv, TypeOK
<1>2. <<>> \in Seq(Frames) /\ <<>> \in Seq(Ids)
  BY EmptySequence
<1>3. connections' \in Nat /\ up' \in BOOLEAN
  BY DEF Establish, TypeInv, TypeOK
<1> QED BY <1>1, <1>2, <1>3 DEF Establish, TypeInv, TypeOK

\* What a lost connection drops keeps the types.
LEMMA LinkLostTypes ==
    ASSUME TypeInv, LinkLost, reconnects' \in BOOLEAN,
           tracked' = [tracked EXCEPT !["server"] = {}] \/ tracked' = [e \in Ends |-> {}],
           UNCHANGED <<connections, sent, got, offered, dispatched, acked, clean>>
    PROVE  TypeInv'
<1>1. tracked' \in [Ends -> SUBSET Entries] /\ \A e \in Ends : IsFiniteSet(tracked'[e])
  BY FS_EmptySet DEF TypeInv, TypeOK, Ends
<1>2. <<>> \in Seq(Frames)
  BY EmptySequence
<1> QED BY <1>1, <1>2 DEF LinkLost, TypeInv, TypeOK

\* A packet is given the next number and written last.
LEMMA NumberAndWriteTypes ==
    ASSUME TypeInv, NEW e \in Ends, NEW id \in Ids, NumberAndWrite(e, id)
    PROVE  /\ TypeInv'
           /\ wire' = [wire EXCEPT ![Peer(e)] = Append(@, Frame("data", id, nextSeq[e] + 1))]
           /\ \A m \in tracked'[e] : m \in tracked[e] \/ (m.id = id /\ m.seq = nextSeq[e] + 1)
           /\ \A d \in Ends : d # e => tracked'[d] = tracked[d]
<1> DEFINE seq == nextSeq[e] + 1
           new == [id |-> id, seq |-> seq, retries |-> 0]
           kept == {m \in tracked[e] : m.id # id}
<1>1. /\ nextSeq' = [nextSeq EXCEPT ![e] = seq]
      /\ tracked' = [tracked EXCEPT ![e] = kept \cup {new}]
      /\ wire' = [wire EXCEPT ![Peer(e)] = @ \o <<Frame("data", id, seq)>>]
      /\ sent' = [sent EXCEPT ![e] = Append(@, id)]
      /\ offered' = [offered EXCEPT ![e] = @ \cup {id}]
      /\ UNCHANGED <<link, lastSeq, got, dispatched, acked, clean>>
  BY DEF NumberAndWrite, Track, Write
<1>2. seq \in Nat \ {0} /\ nextSeq[e] \in Nat
  BY DEF TypeInv, TypeOK
<1>3. new \in Entries /\ new.id = id /\ new.seq = seq
  BY <1>2, TransportAssumption DEF Entries
<1>4. /\ tracked'[e] = kept \cup {new} /\ \A d \in Ends : d # e => tracked'[d] = tracked[d]
      /\ kept \cup {new} \in SUBSET Entries
  BY <1>1, <1>3 DEF TypeInv, TypeOK
<1>5. IsFiniteSet(kept \cup {new})
  <2>1. kept \in SUBSET tracked[e] /\ IsFiniteSet(tracked[e])
    BY DEF TypeInv
  <2>2. IsFiniteSet(kept)
    BY <2>1, FS_Subset
  <2> QED BY <2>2, FS_AddElement
<1>6. tracked' \in [Ends -> SUBSET Entries] /\ \A d \in Ends : IsFiniteSet(tracked'[d])
  BY <1>1, <1>4, <1>5 DEF TypeInv, TypeOK
<1>7. /\ wire' = [wire EXCEPT ![Peer(e)] = Append(@, Frame("data", id, seq))]
      /\ wire' \in [Ends -> Seq(Frames)]
  <2>1. Peer(e) \in Ends /\ wire[Peer(e)] \in Seq(Frames)
    BY PeerIs DEF TypeInv, TypeOK
  <2>2. Frame("data", id, seq) \in Frames
    BY <1>2, FrameIs
  <2>3. /\ wire[Peer(e)] \o <<Frame("data", id, seq)>> = Append(wire[Peer(e)], Frame("data", id, seq))
        /\ Append(wire[Peer(e)], Frame("data", id, seq)) \in Seq(Frames)
    BY <2>1, <2>2, AppendOf
  <2> QED BY <1>1, <2>1, <2>3 DEF TypeInv, TypeOK
<1>8. sent' \in [Ends -> Seq(Ids)]
  <2>1. Append(sent[e], id) \in Seq(Ids)
    BY AppendOf DEF TypeInv, TypeOK
  <2> QED BY <1>1, <2>1 DEF TypeInv, TypeOK
<1>9. nextSeq' \in [Ends -> Nat] /\ offered' \in [Ends -> SUBSET Ids]
  BY <1>1, <1>2 DEF TypeInv, TypeOK
<1>10. TypeInv'
  BY <1>1, <1>6, <1>7, <1>8, <1>9 DEF TypeInv, TypeOK, link
<1> QED BY <1>3, <1>4, <1>7, <1>10

\* retryPendingPackets writes only packets that are pending, under their old numbers.
LEMMA RetryScanTypes ==
    ASSUME TypeInv, NEW e \in Ends, NEW due, RetryScan(e, due)
    PROVE  /\ TypeInv'
           /\ \A m \in tracked'[e] : \E n \in tracked[e] : m.id = n.id /\ m.seq = n.seq
           /\ \A d \in Ends : d # e => tracked'[d] = tracked[d]
           /\ \E r \in Seq(Frames) :
                /\ wire' = [wire EXCEPT ![Peer(e)] = @ \o r]
                /\ \A i \in DOMAIN r : \E m \in tracked[e] :
                     r[i].kind = "data" /\ r[i].id = m.id /\ r[i].seq = m.seq
<1> DEFINE hit == {m \in tracked[e] : m.id \in due}
           resent == {m \in hit : MayRetry(m)}
<1>1. /\ tracked' = [tracked EXCEPT ![e] = AfterScan(tracked[e], hit)]
      /\ UNCHANGED <<link, nextSeq, lastSeq, sent, got, offered, dispatched, acked, clean>>
  BY DEF RetryScan, TypeInv, TypeOK
<1>2. /\ tracked[e] \in SUBSET Entries /\ hit \in SUBSET tracked[e] /\ IsFiniteSet(tracked[e])
      /\ hit \in SUBSET Entries /\ resent \in SUBSET hit
  BY DEF TypeInv, TypeOK
<1>3. /\ AfterScan(tracked[e], hit) \in SUBSET Entries
      /\ IsFiniteSet(AfterScan(tracked[e], hit))
      /\ \A m \in AfterScan(tracked[e], hit) : \E n \in tracked[e] : m.id = n.id /\ m.seq = n.seq
  BY <1>2, AfterScanIs
<1>4. /\ tracked'[e] = AfterScan(tracked[e], hit)
      /\ \A d \in Ends : d # e => tracked'[d] = tracked[d]
      /\ tracked' \in [Ends -> SUBSET Entries]
  BY <1>1, <1>3 DEF TypeInv, TypeOK
<1>5. PICK order \in SetToSeqs(resent) :
        Write(e, [i \in DOMAIN order |-> Frame("data", order[i].id, order[i].seq)])
  BY DEF RetryScan
<1> DEFINE r == [i \in DOMAIN order |-> Frame("data", order[i].id, order[i].seq)]
<1>6. /\ r \in Seq(Frames)
      /\ \A i \in DOMAIN r : \E m \in hit :
           r[i].kind = "data" /\ r[i].id = m.id /\ r[i].seq = m.seq
  <2>1. IsFiniteSet(hit)
    BY <1>2, FS_Subset
  <2> QED BY <1>2, <2>1, ResentIs
<1>7. wire' = [wire EXCEPT ![Peer(e)] = @ \o r]
  BY <1>5 DEF Write
<1> HIDE DEF r
<1>8. wire' \in [Ends -> Seq(Frames)]
  <2>1. wire \in [Ends -> Seq(Frames)] /\ Peer(e) \in Ends
    BY PeerIs DEF TypeInv, TypeOK
  <2> DEFINE q == wire[Peer(e)] \o r
  <2>2. q \in Seq(Frames)
    BY <1>6, <2>1, ConcatOf
  <2>3. wire' = [wire EXCEPT ![Peer(e)] = q]
    BY <1>7
  <2> HIDE DEF q
  <2> QED BY <2>1, <2>2, <2>3, Zenon
<1>9. \A d \in Ends : IsFiniteSet(tracked'[d])
  <2> SUFFICES ASSUME NEW d \in Ends PROVE IsFiniteSet(tracked'[d])
    OBVIOUS
  <2>1. CASE d = e
    BY <1>3, <1>4, <2>1
  <2>2. CASE d # e
    BY <1>4, <2>2 DEF TypeInv
  <2> QED BY <2>1, <2>2
<1>10. UNCHANGED <<up, connections, reconnects>>
  BY <1>1 DEF link
<1>11. TypeOK'
  <2>1. TypeOK
    BY DEF TypeInv
  <2>2. /\ up' \in BOOLEAN /\ connections' \in Nat /\ reconnects' \in BOOLEAN
        /\ nextSeq' \in [Ends -> Nat] /\ lastSeq' \in [Ends -> Nat]
    BY <1>1, <1>10, <2>1 DEF TypeOK
  <2>3. /\ sent' \in [Ends -> Seq(Ids)] /\ got' \in [Ends -> Seq(Ids)]
        /\ offered' \in [Ends -> SUBSET Ids] /\ dispatched' \in [Ends -> SUBSET Ids]
        /\ acked' \in [Ends -> SUBSET Ids] /\ clean' \in BOOLEAN
    BY <1>1, <2>1 DEF TypeOK
  <2> QED BY <1>4, <1>8, <2>2, <2>3 DEF TypeOK
<1>12. TypeInv'
  BY <1>9, <1>11 DEF TypeInv
<1> QED BY <1>2, <1>3, <1>4, <1>6, <1>7, <1>12

\* An acknowledgement drops pending packets and acknowledges what it names.
LEMMA TakeAckTypes ==
    ASSUME TypeInv, NEW e \in Ends, TakeAck(e)
    PROVE  /\ TypeInv'
           /\ wire[e] # <<>> /\ Head(wire[e]) \in Frames /\ Head(wire[e]).kind = "ack"
           /\ wire'[e] = Tail(wire[e]) /\ \A d \in Ends : d # e => wire'[d] = wire[d]
           /\ \A d \in Ends : tracked'[d] \subseteq tracked[d]
           /\ acked'[e] \subseteq acked[e] \cup {Head(wire[e]).id}
           /\ \A d \in Ends : d # e => acked'[d] = acked[d]
<1> DEFINE id == Head(wire[e]).id
<1>1. /\ wire[e] # <<>> /\ Head(wire[e]).kind = "ack"
      /\ tracked' = [tracked EXCEPT ![e] = {m \in @ : m.id # id}]
      /\ acked' = [acked EXCEPT ![e] = @ \cup ({id} \cap Pending(e))]
      /\ wire' = [wire EXCEPT ![e] = Tail(@)]
      /\ UNCHANGED <<link, nextSeq, lastSeq, sent, got, offered, dispatched, clean>>
  BY DEF TakeAck, Arrives
<1>2. Head(wire[e]) \in Frames /\ Tail(wire[e]) \in Seq(Frames)
  BY <1>1, TailOf DEF TypeInv, TypeOK
<1>3. id \in Ids
  BY <1>2 DEF Frames
<1>4. /\ wire'[e] = Tail(wire[e]) /\ \A d \in Ends : d # e => wire'[d] = wire[d]
      /\ wire' \in [Ends -> Seq(Frames)]
  BY <1>1, <1>2 DEF TypeInv, TypeOK
<1>5. /\ \A d \in Ends : tracked'[d] \in SUBSET tracked[d]
      /\ tracked' \in [Ends -> SUBSET Entries]
  BY <1>1 DEF TypeInv, TypeOK
<1>6. \A d \in Ends : IsFiniteSet(tracked'[d])
  BY <1>5, FS_Subset DEF TypeInv
<1>7. /\ acked' \in [Ends -> SUBSET Ids] /\ acked'[e] \subseteq acked[e] \cup {id}
      /\ \A d \in Ends : d # e => acked'[d] = acked[d]
  BY <1>1, <1>3 DEF TypeInv, TypeOK
<1>8. TypeInv'
  BY <1>1, <1>4, <1>5, <1>6, <1>7 DEF TypeInv, TypeOK, link
<1> QED BY <1>1, <1>2, <1>4, <1>5, <1>7, <1>8

\* A data packet is taken off and acknowledged.
LEMMA TakeDataTypes ==
    ASSUME TypeInv, NEW e \in Ends, TakeData(e)
    PROVE  LET p == Head(wire[e])
           IN  /\ TypeInv'
               /\ wire[e] # <<>> /\ p \in Frames /\ p.kind = "data"
               /\ wire'[e] = Tail(wire[e])
               /\ wire'[Peer(e)] = Append(wire[Peer(e)], Frame("ack", p.id, p.seq))
<1> DEFINE p == Head(wire[e])
           ack == Frame("ack", p.id, p.seq)
<1>1. /\ wire[e] # <<>> /\ p.kind = "data"
      /\ wire' = [wire EXCEPT ![e] = Tail(@), ![Peer(e)] = Append(@, ack)]
      /\ IF IsDuplicate(e, p.seq)
         THEN UNCHANGED <<lastSeq, got, dispatched>>
         ELSE /\ lastSeq' = [lastSeq EXCEPT ![e] = p.seq]
              /\ got' = [got EXCEPT ![e] = Append(@, p.id)]
              /\ dispatched' = [dispatched EXCEPT ![e] = @ \cup {p.id}]
      /\ UNCHANGED <<link, nextSeq, tracked, sent, offered, acked, clean>>
  BY DEF TakeData, Arrives
<1>2. p \in Frames /\ Tail(wire[e]) \in Seq(Frames)
  BY <1>1, TailOf DEF TypeInv, TypeOK
<1>3. p.id \in Ids /\ p.seq \in Nat \ {0}
  BY <1>2 DEF Frames
<1>4. ack \in Frames
  BY <1>3, FrameIs
<1> HIDE DEF ack
<1>5. Peer(e) \in Ends /\ Peer(e) # e /\ \A d \in Ends : d = e \/ d = Peer(e)
  BY PeerIs
<1>6. Append(wire[Peer(e)], ack) \in Seq(Frames)
  BY <1>4, <1>5, AppendOf DEF TypeInv, TypeOK
<1>7. /\ wire'[e] = Tail(wire[e]) /\ wire'[Peer(e)] = Append(wire[Peer(e)], ack)
      /\ wire' \in [Ends -> Seq(Frames)]
  BY <1>1, <1>2, <1>5, <1>6 DEF TypeInv, TypeOK
<1>8. Append(got[e], p.id) \in Seq(Ids)
  BY <1>3, AppendOf DEF TypeInv, TypeOK
<1>9. /\ lastSeq' \in [Ends -> Nat] /\ got' \in [Ends -> Seq(Ids)]
      /\ dispatched' \in [Ends -> SUBSET Ids]
  <2>1. CASE IsDuplicate(e, p.seq)
    BY <1>1, <2>1 DEF TypeInv, TypeOK
  <2>2. CASE ~IsDuplicate(e, p.seq)
    <3>1. /\ lastSeq' = [lastSeq EXCEPT ![e] = p.seq]
          /\ got' = [got EXCEPT ![e] = Append(got[e], p.id)]
          /\ dispatched' = [dispatched EXCEPT ![e] = dispatched[e] \cup {p.id}]
      BY <1>1, <2>2
    <3>2. lastSeq' \in [Ends -> Nat]
      BY <1>3, <3>1 DEF TypeInv, TypeOK
    <3>3. got' \in [Ends -> Seq(Ids)]
      BY <1>8, <3>1 DEF TypeInv, TypeOK
    <3>4. dispatched' \in [Ends -> SUBSET Ids]
      BY <1>3, <3>1 DEF TypeInv, TypeOK
    <3> QED BY <3>2, <3>3, <3>4
  <2> QED BY <2>1, <2>2
<1>10. TypeInv'
  BY <1>1, <1>7, <1>9 DEF TypeInv, TypeOK, link
<1> QED BY <1>1, <1>2, <1>7, <1>10 DEF ack

\* A damaged frame is taken off.
LEMMA CrcMismatchTypes ==
    ASSUME TypeInv, NEW e \in Ends, CrcMismatch(e)
    PROVE  TypeInv'
<1>1. /\ wire[e] # <<>> /\ wire' = [wire EXCEPT ![e] = Tail(@)] /\ clean' = FALSE
      /\ UNCHANGED <<link, state, sent, got, offered, dispatched, acked>>
  BY DEF CrcMismatch
<1>2. Tail(wire[e]) \in Seq(Frames)
  BY <1>1, TailOf DEF TypeInv, TypeOK
<1> QED BY <1>1, <1>2 DEF TypeInv, TypeOK, link, state

-----------------------------------------------------------------------------
(* The streams. *)

\* End e of a connection that connectToServer opened and nothing has disturbed: what it
\* has sent, what it remembers of it, and what it has seen of the other end's stream.
InStream(e) ==
    /\ nextSeq[e] = Len(sent[e])
    /\ \A m \in tracked[e] : m.seq <= Len(sent[e]) /\ sent[e][m.seq] = m.id
    /\ lastSeq[e] = Len(got[e])
    /\ lastSeq[e] <= Len(sent[Peer(e)])
    /\ \A k \in 1 .. Len(got[e]) : got[e][k] = sent[Peer(e)][k] /\ got[e][k] \in dispatched[e]
    /\ Carries(wire[e], lastSeq[e], sent[Peer(e)], dispatched[Peer(e)])

\* What makes AckMeansDelivered and NothingSkipped inductive.
IInv ==
    /\ TypeInv
    /\ AckMeansDelivered
    /\ up /\ clean => \A e \in Ends : InStream(e)

\* AckMeansDelivered end by end,
LEMMA AckMeansDeliveredIs ==
    AckMeansDelivered <=> (clean => \A e \in Ends : acked[e] \subseteq dispatched[Peer(e)])
<1>1. Peer("server") = "client" /\ Peer("client") = "server"
  BY PeerIs DEF Ends
<1> QED BY <1>1 DEF AckMeansDelivered, ServerAckMeansDelivered, ClientAckMeansDelivered, Ends

\* and after a step.
LEMMA AckMeansDeliveredNext ==
    ASSUME clean' => \A e \in Ends : acked'[e] \subseteq dispatched'[Peer(e)]
    PROVE  AckMeansDelivered'
<1>1. Peer("server") = "client" /\ Peer("client") = "server"
  BY PeerIs DEF Ends
<1> QED BY <1>1 DEF AckMeansDelivered, ServerAckMeansDelivered, ClientAckMeansDelivered, Ends

\* Nothing has been sent.
LEMMA NewStream ==
    ASSUME nextSeq' = [e \in Ends |-> 0], lastSeq' = [e \in Ends |-> 0],
           tracked' = [e \in Ends |-> {}],
           Establish, NEW e \in Ends
    PROVE  InStream(e)'
<1>1. /\ nextSeq'[e] = 0 /\ lastSeq'[e] = 0 /\ tracked'[e] = {} /\ wire'[e] = <<>>
      /\ sent'[e] = <<>> /\ got'[e] = <<>> /\ sent'[Peer(e)] = <<>>
  BY PeerIs DEF Establish
<1>2. Carries(wire'[e], lastSeq'[e], sent'[Peer(e)], dispatched'[Peer(e)])
  BY <1>1, CarriesNothing
<1>3. Len(<<>>) = 0 /\ 1 .. 0 = {}
  OBVIOUS
<1> QED BY <1>1, <1>2, <1>3 DEF InStream

\* A new packet keeps every stream in order.
LEMMA NumberAndWriteStream ==
    ASSUME IInv, clean, NEW e \in Ends, NEW id \in Ids, NumberAndWrite(e, id),
           NEW d \in Ends
    PROVE  InStream(d)'
<1> DEFINE p == Peer(e)
<1>1. up /\ \A x \in Ends : InStream(x)
  BY DEF NumberAndWrite, IInv
<1>2. p \in Ends /\ p # e /\ Peer(p) = e /\ (d = e \/ d = p)
  BY PeerIs
<1>3. /\ TypeInv'
      /\ wire' = [wire EXCEPT ![p] = Append(@, Frame("data", id, nextSeq[e] + 1))]
      /\ \A m \in tracked'[e] : m \in tracked[e] \/ (m.id = id /\ m.seq = nextSeq[e] + 1)
      /\ \A x \in Ends : x # e => tracked'[x] = tracked[x]
  BY NumberAndWriteTypes DEF IInv
<1>4. /\ nextSeq' = [nextSeq EXCEPT ![e] = nextSeq[e] + 1]
      /\ sent' = [sent EXCEPT ![e] = Append(sent[e], id)]
      /\ UNCHANGED <<lastSeq, got, dispatched>>
  BY DEF NumberAndWrite
<1>5. /\ sent'[e] = Append(sent[e], id) /\ sent'[p] = sent[p]
      /\ nextSeq'[e] = nextSeq[e] + 1 /\ nextSeq'[p] = nextSeq[p]
      /\ wire'[e] = wire[e]
      /\ wire'[p] = Append(wire[p], Frame("data", id, nextSeq[e] + 1))
      /\ sent[e] \in Seq(Ids) /\ sent[p] \in Seq(Ids) /\ wire[p] \in Seq(Frames)
      /\ lastSeq[p] \in Nat /\ lastSeq[e] \in Nat
  <2>1. /\ sent \in [Ends -> Seq(Ids)] /\ wire \in [Ends -> Seq(Frames)]
        /\ nextSeq \in [Ends -> Nat] /\ lastSeq \in [Ends -> Nat]
    BY DEF IInv, TypeInv, TypeOK
  <2>2. sent'[e] = Append(sent[e], id) /\ sent'[p] = sent[p]
    BY <1>2, <1>4, <2>1
  <2>3. nextSeq'[e] = nextSeq[e] + 1 /\ nextSeq'[p] = nextSeq[p]
    BY <1>2, <1>4, <2>1
  <2>4. wire'[e] = wire[e] /\ wire'[p] = Append(wire[p], Frame("data", id, nextSeq[e] + 1))
    BY <1>2, <1>3, <2>1
  <2> QED BY <1>2, <2>1, <2>2, <2>3, <2>4
<1>6. /\ Len(sent[e]) \in Nat /\ Len(sent'[e]) = Len(sent[e]) + 1
      /\ sent'[e][Len(sent[e]) + 1] = id
      /\ \A k \in 1 .. Len(sent[e]) : sent'[e][k] = sent[e][k]
  BY <1>5, AppendOf
<1>7. CASE d = e
  <2>1. nextSeq'[e] = Len(sent'[e])
    BY <1>1, <1>5, <1>6 DEF InStream
  <2>2. \A m \in tracked'[e] : m.seq <= Len(sent'[e]) /\ sent'[e][m.seq] = m.id
    <3> SUFFICES ASSUME NEW m \in tracked'[e]
                 PROVE  m.seq <= Len(sent'[e]) /\ sent'[e][m.seq] = m.id
      OBVIOUS
    <3>1. CASE m \in tracked[e]
      <4>1. m \in Entries
        BY <3>1 DEF IInv, TypeInv, TypeOK
      <4>2. m.seq \in Nat \ {0} /\ m.seq <= Len(sent[e]) /\ sent[e][m.seq] = m.id
        BY <1>1, <3>1, <4>1 DEF InStream, Entries
      <4>3. m.seq \in 1 .. Len(sent[e])
        BY <1>6, <4>2
      <4> QED BY <1>6, <4>2, <4>3
    <3>2. CASE m.id = id /\ m.seq = nextSeq[e] + 1
      BY <1>1, <1>6, <3>2 DEF InStream
    <3> QED BY <1>3, <3>1, <3>2
  <2>3. lastSeq'[e] = Len(got'[e]) /\ lastSeq'[e] <= Len(sent'[p])
    BY <1>1, <1>2, <1>4, <1>5 DEF InStream
  <2>4. \A k \in 1 .. Len(got'[e]) : got'[e][k] = sent'[p][k] /\ got'[e][k] \in dispatched'[e]
    BY <1>1, <1>2, <1>4, <1>5 DEF InStream
  <2>5. Carries(wire'[e], lastSeq'[e], sent'[p], dispatched'[p])
    BY <1>1, <1>2, <1>4, <1>5 DEF InStream
  <2> QED BY <1>7, <2>1, <2>2, <2>3, <2>4, <2>5 DEF InStream
<1>8. CASE d = p
  <2>1. Carries(wire'[p], lastSeq[p], sent'[e], dispatched[e])
    <3>1. Carries(wire[p], lastSeq[p], sent[e], dispatched[e]) /\ lastSeq[p] <= Len(sent[e])
          /\ nextSeq[e] = Len(sent[e])
      BY <1>1, <1>2 DEF InStream
    <3> QED BY <1>5, <3>1, CarriesNew
  <2>2. lastSeq[p] = Len(got[p]) /\ lastSeq[p] <= Len(sent[e])
    BY <1>1, <1>2 DEF InStream
  <2>3. lastSeq[p] <= Len(sent'[e])
    BY <1>5, <1>6, <2>2
  <2>4. \A k \in 1 .. Len(got[p]) : got[p][k] = sent'[e][k] /\ got[p][k] \in dispatched[p]
    <3> SUFFICES ASSUME NEW k \in 1 .. Len(got[p])
                 PROVE  got[p][k] = sent'[e][k] /\ got[p][k] \in dispatched[p]
      OBVIOUS
    <3>1. got[p][k] = sent[e][k] /\ got[p][k] \in dispatched[p]
      BY <1>1, <1>2 DEF InStream
    <3>2. k \in 1 .. Len(sent[e])
      BY <1>5, <1>6, <2>2
    <3> QED BY <1>6, <3>1, <3>2
  <2>5. nextSeq'[p] = Len(sent'[p])
    BY <1>1, <1>2, <1>5 DEF InStream
  <2>6. \A m \in tracked'[p] : m.seq <= Len(sent'[p]) /\ sent'[p][m.seq] = m.id
    <3>1. tracked'[p] = tracked[p] /\ sent'[p] = sent[p]
      BY <1>2, <1>3, <1>5
    <3> QED BY <1>1, <1>2, <3>1 DEF InStream
  <2>7. UNCHANGED <<lastSeq, got, dispatched>> /\ Peer(p) = e
    BY <1>2, <1>4
  <2> QED BY <1>8, <2>1, <2>2, <2>3, <2>4, <2>5, <2>6, <2>7 DEF InStream
<1> QED BY <1>2, <1>7, <1>8

\* A retransmission, a second copy behind the first, keeps every stream in order.
LEMMA RetryScanStream ==
    ASSUME IInv, clean, NEW e \in Ends, NEW due, RetryScan(e, due), NEW d \in Ends
    PROVE  InStream(d)'
<1> DEFINE p == Peer(e)
<1>1. up /\ \A x \in Ends : InStream(x)
  BY DEF RetryScan, IInv
<1>2. p \in Ends /\ p # e /\ Peer(p) = e /\ (d = e \/ d = p)
  BY PeerIs
<1>3. /\ \A m \in tracked'[e] : \E n \in tracked[e] : m.id = n.id /\ m.seq = n.seq
      /\ \A x \in Ends : x # e => tracked'[x] = tracked[x]
      /\ \E r \in Seq(Frames) :
           /\ wire' = [wire EXCEPT ![p] = @ \o r]
           /\ \A i \in DOMAIN r : \E m \in tracked[e] :
                r[i].kind = "data" /\ r[i].id = m.id /\ r[i].seq = m.seq
  BY RetryScanTypes DEF IInv
<1>4. PICK r \in Seq(Frames) :
        /\ wire' = [wire EXCEPT ![p] = wire[p] \o r]
        /\ \A i \in DOMAIN r : \E m \in tracked[e] :
             r[i].kind = "data" /\ r[i].id = m.id /\ r[i].seq = m.seq
  BY <1>3
<1>5. UNCHANGED <<nextSeq, lastSeq, sent, got, dispatched>>
  BY DEF RetryScan
<1>6. /\ wire'[e] = wire[e] /\ wire'[p] = wire[p] \o r
      /\ sent[e] \in Seq(Ids) /\ wire[p] \in Seq(Frames) /\ lastSeq[p] \in Nat
  BY <1>2, <1>4 DEF IInv, TypeInv, TypeOK
<1>7. CASE d = e
  <2>1. \A m \in tracked'[e] : m.seq <= Len(sent[e]) /\ sent[e][m.seq] = m.id
    BY <1>1, <1>3 DEF InStream
  <2> QED BY <1>1, <1>5, <1>6, <1>7, <2>1 DEF InStream
<1>8. CASE d = p
  <2>1. \A i \in DOMAIN r : r[i].kind = "data" /\ r[i].seq <= Len(sent[e])
                            /\ sent[e][r[i].seq] = r[i].id
    BY <1>1, <1>4 DEF InStream
  <2>2. Carries(wire'[p], lastSeq[p], sent[e], dispatched[e])
    <3>1. Carries(wire[p], lastSeq[p], sent[e], dispatched[e])
      BY <1>1, <1>2 DEF InStream
    <3> QED BY <1>6, <2>1, <3>1, CarriesRepeated
  <2> QED BY <1>1, <1>2, <1>3, <1>5, <1>8, <2>2 DEF InStream
<1> QED BY <1>2, <1>7, <1>8

\* An acknowledgement keeps the streams, and names what was dispatched.
LEMMA TakeAckStream ==
    ASSUME IInv, clean, NEW e \in Ends, TakeAck(e), NEW d \in Ends
    PROVE  InStream(d)' /\ acked'[d] \subseteq dispatched'[Peer(d)]
<1>1. up /\ \A x \in Ends : InStream(x)
  BY DEF TakeAck, Arrives, IInv
<1>2. /\ wire[e] # <<>> /\ Head(wire[e]).kind = "ack"
      /\ wire'[e] = Tail(wire[e]) /\ \A x \in Ends : x # e => wire'[x] = wire[x]
      /\ \A x \in Ends : tracked'[x] \subseteq tracked[x]
      /\ acked'[e] \subseteq acked[e] \cup {Head(wire[e]).id}
      /\ \A x \in Ends : x # e => acked'[x] = acked[x]
  BY TakeAckTypes DEF IInv
<1>3. UNCHANGED <<nextSeq, lastSeq, sent, got, dispatched>>
  BY DEF TakeAck
<1>4. /\ Head(wire[e]).id \in dispatched[Peer(e)]
      /\ Carries(Tail(wire[e]), lastSeq[e], sent[Peer(e)], dispatched[Peer(e)])
  <2>1. /\ wire[e] \in Seq(Frames) /\ lastSeq[e] \in Nat /\ sent[Peer(e)] \in Seq(Ids)
    BY PeerIs DEF IInv, TypeInv, TypeOK
  <2>2. /\ Carries(wire[e], lastSeq[e], sent[Peer(e)], dispatched[Peer(e)])
        /\ lastSeq[e] <= Len(sent[Peer(e)])
    BY <1>1 DEF InStream
  <2> QED BY <1>2, <2>1, <2>2, CarriesRest
<1>5. acked[d] \subseteq dispatched[Peer(d)]
  BY AckMeansDeliveredIs DEF IInv
<1>6. Carries(wire'[d], lastSeq[d], sent[Peer(d)], dispatched[Peer(d)])
  BY <1>1, <1>2, <1>4 DEF InStream
<1> QED BY <1>1, <1>2, <1>3, <1>4, <1>5, <1>6 DEF InStream

\* The packet an end takes is the one that comes next, or one it has dispatched.
LEMMA TakeDataIs ==
    ASSUME IInv, clean, NEW e \in Ends, TakeData(e)
    PROVE  LET p == Head(wire[e])
           IN  /\ up /\ p.seq \in Nat \ {0}
               /\ p.id = sent[Peer(e)][p.seq] /\ p.seq <= Len(sent[Peer(e)])
               /\ ~IsDuplicate(e, p.seq) => p.seq = lastSeq[e] + 1
               /\ IsDuplicate(e, p.seq) => p.id \in dispatched[e]
               /\ p.id \in dispatched'[e]
               /\ \A x \in Ends : dispatched[x] \subseteq dispatched'[x]
               /\ \A x \in Ends : x # e => UNCHANGED <<lastSeq[x], got[x], dispatched[x]>>
               /\ Carries(wire'[e], lastSeq'[e], sent[Peer(e)], dispatched[Peer(e)])
<1> DEFINE p == Head(wire[e])
<1>1. up /\ InStream(e) /\ lastSeq[e] = Len(got[e])
  BY DEF TakeData, Arrives, IInv, InStream
<1>2. /\ wire[e] # <<>> /\ p \in Frames /\ p.kind = "data" /\ wire'[e] = Tail(wire[e])
  BY TakeDataTypes DEF IInv
<1>3. p.seq \in Nat \ {0}
  BY <1>2 DEF Frames
<1>4. /\ wire[e] \in Seq(Frames) /\ lastSeq[e] \in Nat /\ sent[Peer(e)] \in Seq(Ids)
      /\ lastSeq \in [Ends -> Nat] /\ got \in [Ends -> Seq(Ids)]
      /\ dispatched \in [Ends -> SUBSET Ids]
  BY PeerIs DEF IInv, TypeInv, TypeOK
<1>5. /\ p.seq <= Len(sent[Peer(e)]) /\ sent[Peer(e)][p.seq] = p.id
      /\ p.seq <= lastSeq[e] =>
           Carries(Tail(wire[e]), lastSeq[e], sent[Peer(e)], dispatched[Peer(e)])
      /\ ~(p.seq <= lastSeq[e]) =>
           /\ p.seq = lastSeq[e] + 1
           /\ Carries(Tail(wire[e]), lastSeq[e] + 1, sent[Peer(e)], dispatched[Peer(e)])
  <2>1. /\ Carries(wire[e], lastSeq[e], sent[Peer(e)], dispatched[Peer(e)])
        /\ lastSeq[e] <= Len(sent[Peer(e)])
    BY <1>1 DEF InStream
  <2> QED BY <1>2, <1>4, <2>1, CarriesRest
<1>6. CASE IsDuplicate(e, p.seq)
  <2>1. UNCHANGED <<lastSeq, got, dispatched>> /\ p.seq <= lastSeq[e]
    BY <1>6 DEF TakeData, IsDuplicate
  <2>2. p.id \in dispatched[e]
    <3>1. p.seq \in 1 .. Len(got[e])
      BY <1>1, <1>3, <1>4, <2>1
    <3>2. got[e][p.seq] = sent[Peer(e)][p.seq] /\ got[e][p.seq] \in dispatched[e]
      BY <1>1, <3>1 DEF InStream
    <3> QED BY <1>5, <3>2
  <2> QED BY <1>1, <1>2, <1>3, <1>5, <1>6, <2>1, <2>2
<1>7. CASE ~IsDuplicate(e, p.seq)
  <2>1. /\ lastSeq' = [lastSeq EXCEPT ![e] = p.seq]
        /\ got' = [got EXCEPT ![e] = Append(got[e], p.id)]
        /\ dispatched' = [dispatched EXCEPT ![e] = dispatched[e] \cup {p.id}]
        /\ ~(p.seq <= lastSeq[e])
    BY <1>7 DEF TakeData, IsDuplicate
  <2>2. /\ lastSeq'[e] = p.seq /\ dispatched'[e] = dispatched[e] \cup {p.id}
        /\ \A x \in Ends : x # e => UNCHANGED <<lastSeq[x], got[x], dispatched[x]>>
    BY <1>4, <2>1
  <2>3. \A x \in Ends : dispatched[x] \subseteq dispatched'[x]
    BY <2>2
  <2> QED BY <1>1, <1>2, <1>3, <1>5, <1>7, <2>1, <2>2, <2>3
<1> QED BY <1>6, <1>7

\* A data packet is the next of its stream or an old one, and is dispatched in the first case.
LEMMA TakeDataStream ==
    ASSUME IInv, clean, NEW e \in Ends, TakeData(e), NEW d \in Ends
    PROVE  InStream(d)' /\ acked'[d] \subseteq dispatched'[Peer(d)]
<1> DEFINE f == Head(wire[e])
           p == Peer(e)
<1>1. /\ up /\ f.seq \in Nat \ {0} /\ f.id = sent[p][f.seq] /\ f.seq <= Len(sent[p])
      /\ ~IsDuplicate(e, f.seq) => f.seq = lastSeq[e] + 1
      /\ f.id \in dispatched'[e]
      /\ \A x \in Ends : dispatched[x] \subseteq dispatched'[x]
      /\ \A x \in Ends : x # e => UNCHANGED <<lastSeq[x], got[x], dispatched[x]>>
      /\ Carries(wire'[e], lastSeq'[e], sent[p], dispatched[p])
  BY TakeDataIs
<1>2. \A x \in Ends : InStream(x) /\ acked[x] \subseteq dispatched[Peer(x)]
  BY <1>1, AckMeansDeliveredIs DEF IInv
<1>3. p \in Ends /\ p # e /\ Peer(p) = e /\ (d = e \/ d = p)
  BY PeerIs
<1>4. /\ f \in Frames /\ wire'[p] = Append(wire[p], Frame("ack", f.id, f.seq))
  BY TakeDataTypes DEF IInv
<1>5. UNCHANGED <<nextSeq, tracked, sent, acked>>
  BY DEF TakeData
<1>6. /\ sent[p] \in Seq(Ids) /\ wire[p] \in Seq(Frames) /\ got[e] \in Seq(Ids)
      /\ lastSeq[p] \in Nat /\ lastSeq[e] \in Nat
  BY <1>3 DEF IInv, TypeInv, TypeOK
<1>7. acked'[d] \subseteq dispatched'[Peer(d)]
  <2>1. Peer(d) \in Ends
    BY PeerIs
  <2> QED BY <1>1, <1>2, <1>5, <2>1
<1>8. CASE d = p
  <2>1. Frame("ack", f.id, f.seq) \in Frames /\ Frame("ack", f.id, f.seq).kind = "ack"
        /\ Frame("ack", f.id, f.seq).id = f.id
    BY <1>1, <1>4, FrameIs DEF Frames
  <2>2. Carries(wire[p], lastSeq[p], sent[e], dispatched'[e])
    <3>1. Carries(wire[p], lastSeq[p], sent[e], dispatched[e])
      BY <1>2, <1>3 DEF InStream
    <3> QED BY <1>1, <3>1, CarriesMore
  <2>3. Carries(wire'[p], lastSeq[p], sent[e], dispatched'[e])
    BY <1>1, <1>4, <1>6, <2>1, <2>2, CarriesAck
  <2>4. UNCHANGED <<lastSeq[p], got[p], dispatched[p]>>
    BY <1>1, <1>3
  <2> QED BY <1>2, <1>3, <1>5, <1>7, <1>8, <2>3, <2>4 DEF InStream
<1>9. CASE d = e
  <2>1. dispatched'[p] = dispatched[p]
    BY <1>1, <1>3
  <2>2. /\ lastSeq'[e] = Len(got'[e]) /\ lastSeq'[e] <= Len(sent[p])
        /\ \A k \in 1 .. Len(got'[e]) : got'[e][k] = sent[p][k] /\ got'[e][k] \in dispatched'[e]
    <3>1. CASE IsDuplicate(e, f.seq)
      <4>1. UNCHANGED <<lastSeq, got, dispatched>>
        BY <3>1 DEF TakeData
      <4> QED BY <1>2, <4>1 DEF InStream
    <3>2. CASE ~IsDuplicate(e, f.seq)
      <4>1. lastSeq'[e] = f.seq /\ got'[e] = Append(got[e], f.id)
        BY <3>2 DEF TakeData, IInv, TypeInv, TypeOK
      <4>2. f.id \in Ids /\ f.seq = Len(got[e]) + 1
        BY <1>1, <1>2, <1>4, <3>2 DEF InStream, Frames
      <4>3. /\ Len(got'[e]) = Len(got[e]) + 1 /\ Len(got[e]) \in Nat
            /\ got'[e][Len(got[e]) + 1] = f.id
            /\ \A k \in 1 .. Len(got[e]) : got'[e][k] = got[e][k]
        BY <1>6, <4>1, <4>2, AppendOf
      <4>4. ASSUME NEW k \in 1 .. Len(got'[e])
            PROVE  got'[e][k] = sent[p][k] /\ got'[e][k] \in dispatched'[e]
        <5>1. CASE k = f.seq
          BY <1>1, <4>2, <4>3, <5>1
        <5>2. CASE k # f.seq
          <6>1. k \in 1 .. Len(got[e]) /\ got'[e][k] = got[e][k]
            BY <4>2, <4>3, <5>2
          <6>2. got[e][k] = sent[p][k] /\ got[e][k] \in dispatched[e]
            BY <1>2, <6>1 DEF InStream
          <6> QED BY <1>1, <6>1, <6>2
        <5> QED BY <5>1, <5>2
      <4> QED BY <1>1, <4>1, <4>2, <4>3, <4>4
    <3> QED BY <3>1, <3>2
  <2> QED BY <1>1, <1>2, <1>5, <1>7, <1>9, <2>1, <2>2 DEF InStream
<1> QED BY <1>3, <1>8, <1>9

-----------------------------------------------------------------------------
\* The invariant holds at the start.
LEMMA InitIInv ==
    ASSUME Init
    PROVE  IInv
<1>1. TypeInv /\ ~up
  BY InitTypes DEF Init
<1>2. AckMeansDelivered
  BY DEF Init, AckMeansDelivered, ServerAckMeansDelivered, ClientAckMeansDelivered, Ends
<1> QED BY <1>1, <1>2 DEF IInv

\* Every step preserves the invariant.
LEMMA NextIInv ==
    ASSUME IInv, [Next]_vars
    PROVE  IInv'
<1> USE AckMeansDeliveredIs, AckMeansDeliveredNext
<1>1. CASE ConnectToServer
  <2>1. /\ Establish /\ nextSeq' = [e \in Ends |-> 0] /\ lastSeq' = [e \in Ends |-> 0]
        /\ tracked' = [e \in Ends |-> {}] /\ acked' = [e \in Ends |-> {}]
        /\ reconnects' = TRUE /\ clean' = TRUE /\ UNCHANGED <<offered, dispatched>>
    BY <1>1 DEF ConnectToServer
  <2>2. TypeInv'
    BY <2>1, EstablishTypes DEF IInv
  <2>3. \A e \in Ends : InStream(e)'
    BY <2>1, NewStream
  <2>4. AckMeansDelivered'
    BY <2>1
  <2> QED BY <2>2, <2>3, <2>4 DEF IInv
<1>2. CASE Reconnect
  <2>1. TypeInv'
    BY <1>2, EstablishTypes DEF Reconnect, state, IInv, TypeInv, TypeOK
  <2>2. ~clean'
    BY <1>2 DEF Reconnect
  <2> QED BY <2>1, <2>2 DEF IInv, AckMeansDelivered
<1>3. CASE Disconnected \/ DisconnectFromServer
  <2>1. /\ LinkLost /\ reconnects' \in BOOLEAN
        /\ tracked' = [tracked EXCEPT !["server"] = {}] \/ tracked' = [e \in Ends |-> {}]
        /\ UNCHANGED <<connections, sent, got, offered, dispatched, acked, clean>>
    BY <1>3 DEF Disconnected, DisconnectFromServer, IInv, TypeInv, TypeOK
  <2>2. TypeInv' /\ ~up'
    BY <2>1, LinkLostTypes DEF IInv, LinkLost
  <2> QED BY <2>1, <2>2 DEF IInv
<1>4. ASSUME NEW e \in Ends, NEW id \in Ids, NumberAndWrite(e, id) PROVE IInv'
  <2>1. UNCHANGED <<up, clean, acked, dispatched>>
    BY <1>4 DEF NumberAndWrite, link
  <2> QED BY <1>4, <2>1, NumberAndWriteTypes, NumberAndWriteStream DEF IInv
<1>5. ASSUME NEW e \in Ends, NEW due, RetryScan(e, due) PROVE IInv'
  <2>1. UNCHANGED <<up, clean, acked, dispatched>>
    BY <1>5 DEF RetryScan, link
  <2> QED BY <1>5, <2>1, RetryScanTypes, RetryScanStream DEF IInv
<1>6. ASSUME NEW e \in Ends, TakeAck(e) PROVE IInv'
  <2>1. UNCHANGED <<up, clean>>
    BY <1>6 DEF TakeAck, link
  <2> QED BY <1>6, <2>1, TakeAckTypes, TakeAckStream DEF IInv
<1>7. ASSUME NEW e \in Ends, TakeData(e) PROVE IInv'
  <2>1. UNCHANGED <<up, clean>>
    BY <1>7 DEF TakeData, link
  <2> QED BY <1>7, <2>1, TakeDataTypes, TakeDataStream DEF IInv
<1>8. ASSUME NEW e \in Ends, CrcMismatch(e) PROVE IInv'
  <2>1. ~clean'
    BY <1>8 DEF CrcMismatch
  <2> QED BY <1>8, <2>1, CrcMismatchTypes DEF IInv, AckMeansDelivered
<1>9. CASE UNCHANGED vars
  BY <1>9 DEF vars, link, state, IInv, TypeInv, TypeOK, InStream
<1>10. "client" \in Ends /\ "server" \in Ends /\ ClientIds \subseteq Ids /\ ServerIds \subseteq Ids
  BY DEF Ends, Ids
<1>11. ASSUME NEW id \in ClientIds, ClientSendTracked(id) PROVE IInv'
  BY <1>4, <1>10, <1>11 DEF ClientSendTracked
<1>12. ASSUME NEW id \in ServerIds, ServerSendTracked(id) PROVE IInv'
  BY <1>4, <1>10, <1>12 DEF ServerSendTracked
<1>13. ASSUME NEW due, RetryPendingMessages(due) \/ CheckPendingMessages(due) PROVE IInv'
  BY <1>5, <1>10, <1>13 DEF RetryPendingMessages, CheckPendingMessages
<1>14. CASE ProcessPacket \/ ProcessIncomingPacket
  BY <1>6, <1>7, <1>10, <1>14 DEF ProcessPacket, ProcessIncomingPacket
<1> QED BY <1>1, <1>2, <1>3, <1>8, <1>9, <1>11, <1>12, <1>13, <1>14 DEF Next

-----------------------------------------------------------------------------
\* Type correctness of the tracked transport.
THEOREM TypeCorrect == Spec => []TypeOK
<1>1. IInv => TypeOK
  BY DEF IInv, TypeInv
<1> QED BY <1>1, InitIInv, NextIInv, PTL DEF Spec

\* On a connection opened by connectToServer that corrupts nothing an acknowledged
\* packet was dispatched, however often it is sent again and whatever earlier
\* connections left behind (acknowledgeTrackedPacket).
THEOREM AckedIsDelivered == Spec => []AckMeansDelivered
<1>1. IInv => AckMeansDelivered
  BY DEF IInv
<1> QED BY <1>1, InitIInv, NextIInv, PTL DEF Spec

\* On such a connection the duplicate check takes no new packet for an old one: what an
\* end has not seen is on the wire (isDuplicateIncomingSequence).
THEOREM NothingIsSkipped == Spec => []NothingSkipped
<1>1. ASSUME IInv PROVE NothingSkipped
  <2> SUFFICES ASSUME NEW e \in Ends, up, clean
               PROVE  /\ lastSeq[e] <= nextSeq[Peer(e)]
                      /\ {n \in SeqsFor(e) : ~IsDuplicate(e, n)}
                           = lastSeq[e] + 1 .. nextSeq[Peer(e)]
    BY DEF NothingSkipped
  <2>1. /\ InStream(e) /\ nextSeq[Peer(e)] = Len(sent[Peer(e)]) /\ lastSeq[e] \in Nat
        /\ nextSeq[Peer(e)] \in Nat /\ wire[e] \in Seq(Frames)
    BY <1>1, PeerIs DEF IInv, InStream, TypeInv, TypeOK
  <2>2. \A n \in SeqsFor(e) : \E i \in DOMAIN wire[e] : wire[e][i].kind = "data" /\ wire[e][i].seq = n
    BY DEF SeqsFor, Range
  <2>3. \A i \in DOMAIN wire[e] : wire[e][i].kind = "data" =>
          /\ wire[e][i].seq \in SeqsFor(e)
          /\ wire[e][i].seq \in Nat /\ wire[e][i].seq <= nextSeq[Peer(e)]
    BY <2>1, FrameSeq DEF SeqsFor, Range, InStream, Carries
  <2>4. \A n \in lastSeq[e] + 1 .. nextSeq[Peer(e)] :
          \E i \in DOMAIN wire[e] : wire[e][i].kind = "data" /\ wire[e][i].seq = n
    BY <2>1 DEF InStream, Carries
  <2>5. ASSUME NEW n \in SeqsFor(e), ~IsDuplicate(e, n)
        PROVE  n \in lastSeq[e] + 1 .. nextSeq[Peer(e)]
    BY <2>1, <2>2, <2>3, <2>5 DEF IsDuplicate
  <2>6. ASSUME NEW n \in lastSeq[e] + 1 .. nextSeq[Peer(e)]
        PROVE  n \in SeqsFor(e) /\ ~IsDuplicate(e, n)
    BY <2>1, <2>3, <2>4 DEF IsDuplicate
  <2> QED BY <2>1, <2>5, <2>6 DEF InStream
<1> QED BY <1>1, InitIInv, NextIInv, PTL DEF Spec

-----------------------------------------------------------------------------
(* The refinement. *)

\* The abstract link has the same ends.
LEMMA LinkPeer ==
    ASSUME NEW e \in Ends
    PROVE  Link!Ends = Ends /\ Link!Peer(e) = Peer(e) /\ Link!Ids = Ids
BY DEF Link!Ends, Link!Peer, Link!Ids, Ends, Peer, Ids

\* Streams that start again, or that nothing is promised of.
LEMMA StreamsReset ==
    ASSUME clean' => sent' = [e \in Ends |-> <<>>] /\ got' = [e \in Ends |-> <<>>]
    PROVE  Link!Reset
<1>1. Link!Nothing = [e \in Ends |-> <<>>]
  BY DEF Link!Nothing, Link!Ends, Ends
<1>2. Stream(sent)' = [e \in Ends |-> <<>>] /\ Stream(got)' = [e \in Ends |-> <<>>]
  BY DEF Stream
<1> QED BY <1>1, <1>2 DEF Link!Reset

\* On a connection that is not clean, or a step that neither sends nor dispatches.
LEMMA StreamsSame ==
    ASSUME clean' = clean, clean => UNCHANGED <<sent, got>>
    PROVE  UNCHANGED <<Stream(sent), Stream(got)>>
BY DEF Stream

\* A packet that is numbered is sent on the abstract link.
LEMMA StreamSent ==
    ASSUME TypeOK, clean, NEW e \in Ends, NEW id \in Ids, NumberAndWrite(e, id)
    PROVE  Link!Send(e, id)
<1>1. sent' = [sent EXCEPT ![e] = Append(sent[e], id)] /\ UNCHANGED <<got, clean>>
  BY DEF NumberAndWrite
<1>2. Stream(sent) = sent /\ Stream(sent)' = sent' /\ Stream(got) = got /\ Stream(got)' = got'
  BY <1>1 DEF TypeOK, Stream
<1> QED BY <1>1, <1>2 DEF Link!Send

\* A packet that is dispatched arrives on the abstract link; a copy of an old one does not show.
LEMMA StreamReceived ==
    ASSUME IInv, clean, NEW e \in Ends, TakeData(e)
    PROVE  Link!Receive(e) \/ UNCHANGED <<Stream(sent), Stream(got)>>
<1> DEFINE p == Head(wire[e])
<1>1. /\ p.id = sent[Peer(e)][p.seq] /\ p.seq <= Len(sent[Peer(e)])
      /\ ~IsDuplicate(e, p.seq) => p.seq = lastSeq[e] + 1
      /\ up /\ InStream(e)
  BY TakeDataIs DEF IInv
<1>2. UNCHANGED <<sent, clean>>
  BY DEF TakeData
<1>3. CASE IsDuplicate(e, p.seq)
  <2>1. UNCHANGED got
    BY <1>3 DEF TakeData
  <2> QED BY <1>2, <2>1, StreamsSame
<1>4. CASE ~IsDuplicate(e, p.seq)
  <2>1. got' = [got EXCEPT ![e] = Append(got[e], p.id)]
    BY <1>4 DEF TakeData
  <2>2. p.seq = Len(got[e]) + 1
    BY <1>1, <1>4 DEF InStream
  <2>3. Stream(sent) = sent /\ Stream(sent)' = sent' /\ Stream(got) = got /\ Stream(got)' = got'
    BY <1>2, <2>1 DEF IInv, TypeInv, TypeOK, Stream
  <2>4. Len(got[e]) < Len(sent[Peer(e)])
    <3>1. got[e] \in Seq(Ids) /\ sent[Peer(e)] \in Seq(Ids)
      BY PeerIs DEF IInv, TypeInv, TypeOK
    <3> QED BY <1>1, <2>2, <3>1
  <2>5. got' = [got EXCEPT ![e] = Append(got[e], sent[Peer(e)][Len(got[e]) + 1])]
    BY <1>1, <2>1, <2>2
  <2> QED BY <1>2, <2>3, <2>4, <2>5, LinkPeer DEF Link!Receive
<1> QED BY <1>3, <1>4

\* Every step is one of the streams, or none.
LEMMA LinkStep ==
    ASSUME IInv, [Next]_vars
    PROVE  [Link!Next]_<<Stream(sent), Stream(got)>>
<1>1. CASE ConnectToServer \/ Reconnect
  <2>1. clean' => sent' = [e \in Ends |-> <<>>] /\ got' = [e \in Ends |-> <<>>]
    BY <1>1 DEF ConnectToServer, Reconnect, Establish
  <2> QED BY <2>1, StreamsReset DEF Link!Next
<1>2. CASE Disconnected \/ DisconnectFromServer
  BY <1>2, StreamsSame DEF Disconnected, DisconnectFromServer
<1>3. ASSUME NEW e \in Ends, NEW id \in Ids, NumberAndWrite(e, id)
      PROVE  [Link!Next]_<<Stream(sent), Stream(got)>>
  <2>1. CASE clean
    BY <1>3, <2>1, StreamSent, LinkPeer DEF Link!Next, IInv, TypeInv
  <2>2. CASE ~clean
    BY <1>3, <2>2, StreamsSame DEF NumberAndWrite
  <2> QED BY <2>1, <2>2
<1>4. ASSUME NEW e \in Ends, NEW due, RetryScan(e, due)
      PROVE  [Link!Next]_<<Stream(sent), Stream(got)>>
  BY <1>4, StreamsSame DEF RetryScan
<1>5. ASSUME NEW e \in Ends, TakeAck(e)
      PROVE  [Link!Next]_<<Stream(sent), Stream(got)>>
  BY <1>5, StreamsSame DEF TakeAck
<1>6. ASSUME NEW e \in Ends, TakeData(e)
      PROVE  [Link!Next]_<<Stream(sent), Stream(got)>>
  <2>1. CASE clean
    BY <1>6, <2>1, StreamReceived, LinkPeer DEF Link!Next
  <2>2. CASE ~clean
    BY <1>6, <2>2, StreamsSame DEF TakeData
  <2> QED BY <2>1, <2>2
<1>7. ASSUME NEW e \in Ends, CrcMismatch(e)
      PROVE  [Link!Next]_<<Stream(sent), Stream(got)>>
  <2>1. ~clean'
    BY <1>7 DEF CrcMismatch
  <2> QED BY <2>1, StreamsReset DEF Link!Next
<1>8. CASE UNCHANGED vars
  BY <1>8, StreamsSame DEF vars
<1>9. "client" \in Ends /\ "server" \in Ends /\ ClientIds \subseteq Ids /\ ServerIds \subseteq Ids
  BY DEF Ends, Ids
<1>10. CASE (\E id \in ClientIds : ClientSendTracked(id)) \/ (\E id \in ServerIds : ServerSendTracked(id))
  BY <1>3, <1>9, <1>10 DEF ClientSendTracked, ServerSendTracked
<1>11. ASSUME NEW due, RetryPendingMessages(due) \/ CheckPendingMessages(due)
       PROVE  [Link!Next]_<<Stream(sent), Stream(got)>>
  BY <1>4, <1>9, <1>11 DEF RetryPendingMessages, CheckPendingMessages
<1>12. CASE ProcessPacket \/ ProcessIncomingPacket
  BY <1>5, <1>6, <1>9, <1>12 DEF ProcessPacket, ProcessIncomingPacket
<1> QED BY <1>1, <1>2, <1>7, <1>8, <1>10, <1>11, <1>12 DEF Next

\* The sequence numbers, acknowledgements and retries implement two streams, each
\* received in the order sent, without gaps and repetitions, on a connection opened by
\* connectToServer that corrupts nothing (processPacket, processIncomingPacket).
THEOREM TransportIsReliableLink == Spec => ImplementsReliableLink
<1>1. Init => Link!Init
  BY DEF Init, Link!Init, Link!Nothing, Link!Ends, Ends, Stream
<1> QED BY <1>1, InitIInv, NextIInv, LinkStep, PTL DEF Spec, ImplementsReliableLink, Link!Spec
=============================================================================
