------------------------ MODULE PrivateDelivery_proofs ------------------------
(* Theorems about PrivateDelivery, for any set of messages and any bounds. *)
EXTENDS PrivateDelivery, FiniteSetTheorems, TLAPS

-----------------------------------------------------------------------------
(* Sequences and what is in them. *)

\* The empty sequence is one of anything.
LEMMA EmptySequence ==
    ASSUME NEW S
    PROVE  <<>> \in Seq(S) /\ DOMAIN <<>> = {} /\ Len(<<>>) = 0 /\ ToSet(<<>>) = {}
<1>1. <<>> \in Seq(S) /\ DOMAIN <<>> = {} /\ Len(<<>>) = 0
  OBVIOUS
<1> QED BY <1>1 DEF ToSet

\* The elements of a sequence.
LEMMA ElementsOf ==
    ASSUME NEW S, NEW q \in Seq(S)
    PROVE  /\ Len(q) \in Nat /\ DOMAIN q = 1 .. Len(q)
           /\ \A i \in DOMAIN q : q[i] \in S /\ q[i] \in ToSet(q)
           /\ \A x \in ToSet(q) : x \in S /\ \E i \in DOMAIN q : q[i] = x
           /\ \A x : Contains(q, x) <=> x \in ToSet(q)
BY DEF ToSet, Contains

\* What Tail leaves.
LEMMA TailOf ==
    ASSUME NEW S, NEW q \in Seq(S), q # <<>>
    PROVE  /\ Tail(q) \in Seq(S) /\ Head(q) \in S /\ Head(q) = q[1]
           /\ DOMAIN q = 1 .. Len(q) /\ DOMAIN Tail(q) = 1 .. (Len(q) - 1)
           /\ Len(q) \in Nat \ {0}
           /\ \A k \in 1 .. (Len(q) - 1) : Tail(q)[k] = q[k + 1]
OBVIOUS

\* The elements of a sequence are its head and those of its tail.
LEMMA TailElements ==
    ASSUME NEW S, NEW q \in Seq(S), q # <<>>
    PROVE  /\ Head(q) \in ToSet(q) /\ \A x \in ToSet(Tail(q)) : x \in ToSet(q)
           /\ \A x \in ToSet(q) : x = Head(q) \/ x \in ToSet(Tail(q))
<1>1. /\ Head(q) = q[1] /\ DOMAIN q = 1 .. Len(q) /\ DOMAIN Tail(q) = 1 .. (Len(q) - 1)
      /\ Len(q) \in Nat \ {0} /\ \A k \in 1 .. (Len(q) - 1) : Tail(q)[k] = q[k + 1]
  BY TailOf
<1>2. Head(q) \in ToSet(q)
  BY <1>1 DEF ToSet
<1>3. ASSUME NEW x \in ToSet(Tail(q)) PROVE x \in ToSet(q)
  <2>1. PICK k \in 1 .. (Len(q) - 1) : x = Tail(q)[k]
    BY <1>1, <1>3 DEF ToSet
  <2>2. x = q[k + 1] /\ k + 1 \in DOMAIN q
    BY <1>1, <2>1
  <2> QED BY <2>2 DEF ToSet
<1>4. ASSUME NEW x \in ToSet(q), x # Head(q) PROVE x \in ToSet(Tail(q))
  <2>1. PICK k \in 1 .. Len(q) : x = q[k]
    BY <1>1 DEF ToSet
  <2>2. k - 1 \in 1 .. (Len(q) - 1) /\ (k - 1) + 1 = k
    BY <1>1, <1>4, <2>1
  <2>3. x = Tail(q)[k - 1] /\ k - 1 \in DOMAIN Tail(q)
    BY <1>1, <2>1, <2>2
  <2> QED BY <2>3 DEF ToSet
<1> QED BY <1>2, <1>3, <1>4

\* What concatenation adds.
LEMMA ConcatOf ==
    ASSUME NEW S, NEW q \in Seq(S), NEW r \in Seq(S)
    PROVE  /\ q \o r \in Seq(S)
           /\ DOMAIN (q \o r) = 1 .. (Len(q) + Len(r))
           /\ DOMAIN q = 1 .. Len(q) /\ DOMAIN r = 1 .. Len(r)
           /\ Len(q) \in Nat /\ Len(r) \in Nat
           /\ \A k \in 1 .. Len(q) : (q \o r)[k] = q[k]
           /\ \A k \in (Len(q) + 1) .. (Len(q) + Len(r)) : (q \o r)[k] = r[k - Len(q)]
           /\ \A k \in 1 .. Len(r) : (q \o r)[Len(q) + k] = r[k]
OBVIOUS

\* The elements of a concatenation.
LEMMA ConcatElements ==
    ASSUME NEW S, NEW q \in Seq(S), NEW r \in Seq(S)
    PROVE  \A z : z \in ToSet(q \o r) <=> z \in ToSet(q) \/ z \in ToSet(r)
<1>1. /\ DOMAIN (q \o r) = 1 .. (Len(q) + Len(r))
      /\ DOMAIN q = 1 .. Len(q) /\ DOMAIN r = 1 .. Len(r) /\ Len(q) \in Nat /\ Len(r) \in Nat
      /\ \A k \in 1 .. Len(q) : (q \o r)[k] = q[k]
      /\ \A k \in (Len(q) + 1) .. (Len(q) + Len(r)) : (q \o r)[k] = r[k - Len(q)]
      /\ \A k \in 1 .. Len(r) : (q \o r)[Len(q) + k] = r[k]
  BY ConcatOf
<1> DEFINE p == q \o r
<1> HIDE DEF p
<1>2. ASSUME NEW x \in ToSet(p) PROVE x \in ToSet(q) \/ x \in ToSet(r)
  <2>1. PICK k \in 1 .. (Len(q) + Len(r)) : x = p[k]
    BY <1>1 DEF ToSet, p
  <2>2. CASE k \in 1 .. Len(q)
    <3>1. x = q[k]
      BY <1>1, <2>1, <2>2 DEF p
    <3> QED BY <1>1, <2>2, <3>1 DEF ToSet
  <2>3. CASE k \notin 1 .. Len(q)
    <3>1. k \in (Len(q) + 1) .. (Len(q) + Len(r)) /\ k - Len(q) \in 1 .. Len(r)
      BY <1>1, <2>3
    <3>2. x = r[k - Len(q)]
      BY <1>1, <2>1, <3>1 DEF p
    <3> QED BY <1>1, <3>1, <3>2 DEF ToSet
  <2> QED BY <2>2, <2>3
<1>3. ASSUME NEW x \in ToSet(q) PROVE x \in ToSet(p)
  <2>1. PICK k \in 1 .. Len(q) : x = q[k]
    BY <1>1 DEF ToSet
  <2>2. x = p[k] /\ k \in DOMAIN p
    BY <1>1, <2>1 DEF p
  <2> QED BY <2>2 DEF ToSet
<1>4. ASSUME NEW x \in ToSet(r) PROVE x \in ToSet(p)
  <2>1. PICK k \in 1 .. Len(r) : x = r[k]
    BY <1>1 DEF ToSet
  <2>2. x = p[Len(q) + k] /\ Len(q) + k \in DOMAIN p
    BY <1>1, <2>1 DEF p
  <2> QED BY <2>2 DEF ToSet
<1> QED BY <1>2, <1>3, <1>4 DEF p

\* A sequence of one element.
LEMMA OneElement ==
    ASSUME NEW S, NEW x \in S
    PROVE  /\ <<x>> \in Seq(S) /\ ToSet(<<x>>) = {x} /\ Len(<<x>>) = 1 /\ <<x>>[1] = x
<1>1. <<x>> \in Seq(S) /\ Len(<<x>>) = 1 /\ <<x>>[1] = x /\ DOMAIN <<x>> = 1 .. 1
  OBVIOUS
<1>2. ToSet(<<x>>) = {x}
  BY <1>1 DEF ToSet
<1> QED BY <1>1, <1>2

\* What Append adds.
LEMMA AppendOf ==
    ASSUME NEW S, NEW q \in Seq(S), NEW x \in S, NEW p, p = Append(q, x)
    PROVE  p \in Seq(S) /\ p = q \o <<x>> /\ \A z : z \in ToSet(p) <=> z \in ToSet(q) \/ z = x
<1>1. p \in Seq(S) /\ p = q \o <<x>>
  OBVIOUS
<1>2. <<x>> \in Seq(S) /\ ToSet(<<x>>) = {x}
  BY OneElement
<1>3. \A z : z \in ToSet(q \o <<x>>) <=> z \in ToSet(q) \/ z \in ToSet(<<x>>)
  BY <1>2, ConcatElements, Zenon
<1>4. \A z : z \in ToSet(p) <=> z \in ToSet(q) \/ z = x
  BY <1>1, <1>2, <1>3
<1> QED BY <1>1, <1>4

\* The elements of a set as a sequence: all of them, if there are finitely many.
LEMMA ListOf ==
    ASSUME NEW S, IsFiniteSet(S), NEW order \in SetToSeqs(S)
    PROVE  order \in Seq(S) /\ ToSet(order) = S
<1> DEFINE n == Cardinality(S)
<1>1. n \in Nat /\ IsFiniteSet(1 .. n) /\ Cardinality(1 .. n) = n
  BY FS_CardinalityType, FS_Interval
<1>2. order \in [1 .. n -> S] /\ \A i, j \in 1 .. n : i # j => order[i] # order[j]
  BY DEF SetToSeqs
<1> HIDE DEF n
<1>3. order \in Injection(1 .. n, S)
  BY <1>2 DEF Injection, IsInjective
<1>4. order \in Surjection(1 .. n, S)
  BY <1>1, <1>3, FS_Injection DEF n
<1>5. \A x \in S : \E i \in 1 .. n : order[i] = x
  BY <1>4 DEF Surjection
<1>6. order \in Seq(S) /\ DOMAIN order = 1 .. n
  BY <1>1, <1>2
<1> QED BY <1>2, <1>5, <1>6 DEF ToSet

-----------------------------------------------------------------------------
(* Users, frames and queues. *)

\* There are two users.
LEMMA UsersAre ==
    /\ Sender \in Users /\ Receiver \in Users /\ Sender # Receiver
    /\ \A u \in Users : u = Sender \/ u = Receiver
BY DeliveryAssumption DEF Users

\* What a client sends.
LEMMA ClientFrameIs ==
    ASSUME NEW f \in ClientFrames
    PROVE  /\ f.kind \in {"ack", "read"} => f.msg \in Msgs /\ f = Frame(f.kind, f.msg)
           /\ f.kind = "private" => f.msg \in Msgs /\ f.seq \in Nat /\ f = Private(f.msg, f.seq)
<1>1. CASE f \in [kind : {"ack", "read"}, msg : Msgs]
  BY <1>1 DEF Frame
<1>2. CASE f \in [kind : {"resume_session", "history", "closed"}, msg : {NoMsg}]
  BY <1>2
<1>3. CASE f \in [kind : {"private"}, msg : Msgs, seq : Nat]
  BY <1>3 DEF Private
<1> QED BY <1>1, <1>2, <1>3 DEF ClientFrames

\* What the server sends.
LEMMA ServerFrameIs ==
    ASSUME NEW f \in ServerFrames
    PROVE  /\ f.kind \in {"private", "ack", "queued", "delivered", "read"} =>
                f.msg \in Msgs /\ f = Frame(f.kind, f.msg)
           /\ f.kind = "history" => f.rows \in [Msgs -> RowStates]
<1>1. CASE f \in [kind : {"private", "ack", "queued", "delivered", "read"}, msg : Msgs]
  BY <1>1 DEF Frame
<1>2. CASE f \in [kind : {"auth_ok", "auth_error", "error"}, msg : {NoMsg}]
  BY <1>2
<1>3. CASE f \in [kind : {"history"}, rows : [Msgs -> RowStates]]
  BY <1>3
<1> QED BY <1>1, <1>2, <1>3 DEF ServerFrames

\* Frames with a message.
LEMMA FramesAre ==
    ASSUME NEW m \in Msgs
    PROVE  /\ \A kind : Frame(kind, m).kind = kind /\ Frame(kind, m).msg = m
           /\ Frame("ack", m) \in ClientFrames /\ Frame("read", m) \in ClientFrames
           /\ \A n \in Nat : /\ Private(m, n) \in ClientFrames /\ Private(m, n).kind = "private"
                             /\ Private(m, n).msg = m /\ Private(m, n).seq = n
           /\ \A kind \in {"private", "ack", "queued", "delivered", "read"} :
                Frame(kind, m) \in ServerFrames
<1>1. \A kind : Frame(kind, m).kind = kind /\ Frame(kind, m).msg = m
  BY DEF Frame
<1>2. Frame("ack", m) \in ClientFrames /\ Frame("read", m) \in ClientFrames
  BY DEF Frame, ClientFrames
<1>3. \A n \in Nat : /\ Private(m, n) \in ClientFrames /\ Private(m, n).kind = "private"
                     /\ Private(m, n).msg = m /\ Private(m, n).seq = n
  BY DEF Private, ClientFrames
<1>4. \A kind \in {"private", "ack", "queued", "delivered", "read"} : Frame(kind, m) \in ServerFrames
  BY DEF Frame, ServerFrames
<1> QED BY <1>1, <1>2, <1>3, <1>4

\* Frames without a message.
LEMMA SignalsAre ==
    /\ \A kind : Signal(kind).kind = kind
    /\ \A kind \in {"resume_session", "history", "closed"} : Signal(kind) \in ClientFrames
    /\ \A kind \in {"auth_ok", "auth_error", "error"} : Signal(kind) \in ServerFrames
    /\ \A rows \in [Msgs -> RowStates] : /\ History(rows) \in ServerFrames
                                         /\ History(rows).kind = "history"
                                         /\ History(rows).rows = rows
<1>1. \A kind : Signal(kind).kind = kind
  BY DEF Signal, Frame
<1>2. \A kind \in {"resume_session", "history", "closed"} : Signal(kind) \in ClientFrames
  BY DEF Signal, Frame, ClientFrames
<1>3. \A kind \in {"auth_ok", "auth_error", "error"} : Signal(kind) \in ServerFrames
  BY DEF Signal, Frame, ServerFrames
<1>4. \A rows \in [Msgs -> RowStates] : /\ History(rows) \in ServerFrames
                                        /\ History(rows).kind = "history"
                                        /\ History(rows).rows = rows
  BY DEF History, ServerFrames
<1> QED BY <1>1, <1>2, <1>3, <1>4

Events == [user : Users, conn : Nat, frame : ClientFrames]

\* What has a type, by the tuple that leaves it unchanged.
NetworkOK ==
    /\ conn \in [Users -> Nat] /\ link \in [Users -> BOOLEAN]
    /\ unnoticed \subseteq [user : Users, conn : Nat]
    /\ up \in [Users -> Seq(ClientFrames)] /\ down \in [Users -> Seq(ServerFrames)]
ServerOK ==
    /\ inbox \in Seq(Events) /\ registry \in [Users -> Nat] /\ row \in [Msgs -> RowStates]
    /\ tracked \subseteq Msgs /\ lastSeq \in Nat
ClientOK ==
    /\ session \in [Users -> {"none", "asked", "on"}] /\ nextSeq \in Nat
    /\ unacked \subseteq [msg : Msgs, seq : Nat]
    /\ window \in [Users -> [Msgs -> {"unknown", "sending", "delivered", "read"}]]
    /\ acked \subseteq Msgs
HistoryOK == refused \subseteq Msgs /\ givenUp \subseteq Msgs

\* The parts make up the type invariant.
LEMMA TypeOKParts == TypeOK <=> NetworkOK /\ ServerOK /\ ClientOK /\ HistoryOK
BY DEF TypeOK, NetworkOK, ServerOK, ClientOK, HistoryOK, Events

\* Frames sent to a user reach the end of his queue, or are lost.
LEMMA SendIs ==
    ASSUME NetworkOK, NEW u \in Users, NEW c, NEW frames \in Seq(ServerFrames),
           Send(u, c, frames)
    PROVE  /\ down' \in [Users -> Seq(ServerFrames)]
           /\ \A w \in Users : w # u => down'[w] = down[w]
           /\ down'[u] = down[u] \o frames \/ (down'[u] = down[u] /\ ~Reaches(u, c))
           /\ \A w \in Users : /\ \A f \in ToSet(down[w]) : f \in ToSet(down'[w])
                               /\ \A f \in ToSet(down'[w]) : f \in ToSet(down[w]) \/ f \in ToSet(frames)
           /\ Reaches(u, c) => \A f \in ToSet(frames) : f \in ToSet(down'[u])
<1>1. down \in [Users -> Seq(ServerFrames)]
  BY DEF NetworkOK
<1>2. CASE Reaches(u, c)
  <2> DEFINE q == down[u] \o frames
  <2>1. q \in Seq(ServerFrames) /\ \A f : f \in ToSet(q) <=> f \in ToSet(down[u]) \/ f \in ToSet(frames)
    <3>1. down[u] \in Seq(ServerFrames)
      BY <1>1
    <3> QED BY <3>1, ConcatOf, ConcatElements, Zenon
  <2>2. down' = [down EXCEPT ![u] = q]
    BY <1>2 DEF Send
  <2> HIDE DEF q
  <2>3. /\ down' \in [Users -> Seq(ServerFrames)] /\ down'[u] = q
        /\ \A w \in Users : w # u => down'[w] = down[w]
    BY <1>1, <2>1, <2>2
  <2>4. down'[u] = down[u] \o frames
    BY <2>3 DEF q
  <2> QED BY <1>2, <2>1, <2>3, <2>4
<1>3. CASE ~Reaches(u, c)
  BY <1>1, <1>3 DEF Send
<1> QED BY <1>2, <1>3

\* A client's frames join his queue.
LEMMA UploadIs ==
    ASSUME NetworkOK, NEW u \in Users, NEW frames \in Seq(ClientFrames), Upload(u, frames)
    PROVE  /\ up' \in [Users -> Seq(ClientFrames)]
           /\ \A w \in Users : w # u => up'[w] = up[w]
           /\ \A f : f \in ToSet(up'[u]) <=> f \in ToSet(up[u]) \/ f \in ToSet(frames)
<1> DEFINE q == up[u] \o frames
<1>1. up \in [Users -> Seq(ClientFrames)] /\ up[u] \in Seq(ClientFrames)
  BY DEF NetworkOK
<1>2. q \in Seq(ClientFrames) /\ \A f : f \in ToSet(q) <=> f \in ToSet(up[u]) \/ f \in ToSet(frames)
  BY <1>1, ConcatOf, ConcatElements, Zenon
<1>3. up' = [up EXCEPT ![u] = q]
  BY DEF Upload
<1> HIDE DEF q
<1> QED BY <1>1, <1>2, <1>3

\* A worker reads a frame.
LEMMA FromPeerIs ==
    ASSUME NetworkOK, NEW u \in Users, FromPeer(u)
    PROVE  /\ up' \in [Users -> Seq(ClientFrames)]
           /\ \A w \in Users : w # u => up'[w] = up[w]
           /\ Head(up[u]) \in ClientFrames /\ Head(up[u]) \in ToSet(up[u])
           /\ \A w \in Users : \A f \in ToSet(up'[w]) : f \in ToSet(up[w])
           /\ \A f \in ToSet(up[u]) : f = Head(up[u]) \/ f \in ToSet(up'[u])
<1> DEFINE q == Tail(up[u])
<1>1. /\ up \in [Users -> Seq(ClientFrames)] /\ up[u] \in Seq(ClientFrames) /\ up[u] # <<>>
      /\ up' = [up EXCEPT ![u] = q]
  BY DEF NetworkOK, FromPeer
<1>2. /\ q \in Seq(ClientFrames) /\ Head(up[u]) \in ClientFrames /\ Head(up[u]) \in ToSet(up[u])
      /\ \A f \in ToSet(q) : f \in ToSet(up[u])
      /\ \A f \in ToSet(up[u]) : f = Head(up[u]) \/ f \in ToSet(q)
  BY <1>1, TailOf, TailElements, Zenon
<1> HIDE DEF q
<1> QED BY <1>1, <1>2

\* A frame reaches a client.
LEMMA ArrivesIs ==
    ASSUME NetworkOK, NEW u \in Users, NEW kind, Arrives(u, kind)
    PROVE  /\ down' \in [Users -> Seq(ServerFrames)]
           /\ down[u] # <<>> /\ down'[u] = Tail(down[u])
           /\ \A w \in Users : w # u => down'[w] = down[w]
           /\ Head(down[u]) \in ServerFrames /\ Head(down[u]) \in ToSet(down[u])
           /\ Head(down[u]).kind = kind
           /\ \A w \in Users : \A f \in ToSet(down'[w]) : f \in ToSet(down[w])
           /\ \A f \in ToSet(down[u]) : f = Head(down[u]) \/ f \in ToSet(down'[u])
<1> DEFINE q == Tail(down[u])
<1>1. /\ down \in [Users -> Seq(ServerFrames)] /\ down[u] \in Seq(ServerFrames) /\ down[u] # <<>>
      /\ down' = [down EXCEPT ![u] = q] /\ Head(down[u]).kind = kind
  BY DEF NetworkOK, Arrives
<1>2. /\ q \in Seq(ServerFrames) /\ Head(down[u]) \in ServerFrames /\ Head(down[u]) \in ToSet(down[u])
      /\ \A f \in ToSet(q) : f \in ToSet(down[u])
      /\ \A f \in ToSet(down[u]) : f = Head(down[u]) \/ f \in ToSet(q)
  BY <1>1, TailOf, TailElements, Zenon
<1>3. down'[u] = Tail(down[u])
  BY <1>1
<1> HIDE DEF q
<1> QED BY <1>1, <1>2, <1>3

\* An event joins the main thread's queue.
LEMMA PostIs ==
    ASSUME ServerOK, NEW e \in Events, inbox' = Append(inbox, e)
    PROVE  inbox' \in Seq(Events) /\ \A z : z \in ToSet(inbox') <=> z \in ToSet(inbox) \/ z = e
<1>1. inbox \in Seq(Events)
  BY DEF ServerOK
<1>2. PICK p : p = inbox'
  OBVIOUS
<1>3. p = Append(inbox, e)
  BY <1>2
<1>4. \A z : z \in ToSet(p) <=> z \in ToSet(inbox) \/ z = e
  BY <1>1, <1>3, AppendOf, ZenonT(60)
<1>5. p \in Seq(Events)
  BY <1>1, <1>3
<1> QED BY <1>2, <1>4, <1>5

\* What a worker posts is an event.
LEMMA EventIs ==
    ASSUME NetworkOK, NEW u \in Users, NEW f \in ClientFrames
    PROVE  Event(u, f) \in Events /\ Event(u, f).user = u /\ Event(u, f).frame = f
           /\ Event(u, f).conn = conn[u]
BY DEF Event, Events, NetworkOK

\* The main thread takes an event.
LEMMA HandleIs ==
    ASSUME ServerOK, NEW u, NEW kind, Handle(u, kind)
    PROVE  /\ inbox' \in Seq(Events)
           /\ Current \in Events /\ Current \in ToSet(inbox)
           /\ Current.user = u /\ Current.frame.kind = kind
           /\ Current.user \in Users /\ Current.conn \in Nat /\ Current.frame \in ClientFrames
           /\ \A e \in ToSet(inbox') : e \in ToSet(inbox)
           /\ \A e \in ToSet(inbox) : e = Current \/ e \in ToSet(inbox')
<1>1. /\ inbox \in Seq(Events) /\ inbox # <<>> /\ inbox' = Tail(inbox)
      /\ Current = Head(inbox) /\ Current.user = u /\ Current.frame.kind = kind
  BY DEF ServerOK, Handle, Current
<1>2. /\ Tail(inbox) \in Seq(Events) /\ Head(inbox) \in Events /\ Head(inbox) \in ToSet(inbox)
      /\ \A e \in ToSet(Tail(inbox)) : e \in ToSet(inbox)
      /\ \A e \in ToSet(inbox) : e = Head(inbox) \/ e \in ToSet(Tail(inbox))
  BY <1>1, TailOf, TailElements
<1>3. Current \in Events
  BY <1>1, <1>2, Zenon
<1>4. Current.user \in Users /\ Current.conn \in Nat /\ Current.frame \in ClientFrames
  BY <1>3 DEF Events
<1> QED BY <1>1, <1>2, <1>3, <1>4, Zenon

-----------------------------------------------------------------------------
(* What the table, the windows and the frames say of a message. *)

Marks     == {"delivered", "read"}
Kept(m)   == row[m] # "none"
Marked(m) == row[m] \in Marks
Known(m)  == window[Receiver][m] # "unknown"

\* A receipt is for a message in the recipient's window.
UpOK(f) == f.kind \in {"ack", "read"} => Known(f.msg)

\* What the server says was so in the table and in the recipient's window.
DownOK(f) ==
    /\ f.kind = "private" => Kept(f.msg)
    /\ f.kind \in Marks => Known(f.msg)
    /\ f.kind = "delivered" => Marked(f.msg)
    /\ f.kind = "history" => \A m \in Msgs : /\ f.rows[m] # "none" => Kept(m)
                                             /\ f.rows[m] \in Marks => Marked(m)

\* The recipient shows what the table keeps, the table marks what he shows, and the
\* sender's window is no further than either.
WindowsTrue ==
    \A m \in Msgs :
        /\ Known(m) => Kept(m)
        /\ Marked(m) => Known(m)
        /\ window[Sender][m] \in Marks => Known(m)
        /\ window[Sender][m] = "delivered" => Marked(m)

FramesTrue ==
    /\ \A u \in Users : \A f \in ToSet(up[u]) : UpOK(f)
    /\ \A u \in Users : \A f \in ToSet(down[u]) : DownOK(f)
    /\ \A e \in ToSet(inbox) : UpOK(e.frame)

\* Only finitely many messages were ever stored: the lists that are loaded are finite.
KeptMsgs == {m \in Msgs : Kept(m)}

IInv == TypeOK /\ IsFiniteSet(KeptMsgs) /\ WindowsTrue /\ FramesTrue

\* What is kept, shown and marked stays so.
Grows == \A m \in Msgs : /\ Kept(m) => Kept(m)'
                         /\ Known(m) => Known(m)'
                         /\ Marked(m) => Marked(m)'

\* What was true of a frame stays true.
LEMMA FramesStayTrue ==
    ASSUME Grows
    PROVE  /\ \A f \in ClientFrames : UpOK(f) => UpOK(f)'
           /\ \A f \in ServerFrames : DownOK(f) => DownOK(f)'
<1>1. ASSUME NEW f \in ClientFrames, UpOK(f) PROVE UpOK(f)'
  <2>1. f.kind \in {"ack", "read"} => f.msg \in Msgs /\ Known(f.msg)
    BY <1>1, ClientFrameIs DEF UpOK
  <2> QED BY <2>1 DEF UpOK, Grows
<1>2. ASSUME NEW f \in ServerFrames, DownOK(f) PROVE DownOK(f)'
  <2>1. f.kind \in {"private", "delivered", "read"} => f.msg \in Msgs
    BY ServerFrameIs
  <2>2. f.kind = "private" => Kept(f.msg)'
    BY <1>2, <2>1 DEF DownOK, Grows
  <2>3. f.kind \in Marks => Known(f.msg)'
    BY <1>2, <2>1 DEF DownOK, Grows, Marks
  <2>4. f.kind = "delivered" => Marked(f.msg)'
    BY <1>2, <2>1 DEF DownOK, Grows
  <2>5. f.kind = "history" => \A m \in Msgs : /\ f.rows[m] # "none" => Kept(m)'
                                              /\ f.rows[m] \in Marks => Marked(m)'
    BY <1>2 DEF DownOK, Grows
  <2> QED BY <2>2, <2>3, <2>4, <2>5 DEF DownOK
<1> QED BY <1>1, <1>2

\* Frames that are true when they are written keep all of them true.
LEMMA FramesNext ==
    ASSUME IInv, Grows,
           \A u \in Users : \A f \in ToSet(up'[u]) : f \in ToSet(up[u]) \/ UpOK(f)',
           \A u \in Users : \A f \in ToSet(down'[u]) : f \in ToSet(down[u]) \/ DownOK(f)',
           \A e \in ToSet(inbox') : e \in ToSet(inbox) \/ UpOK(e.frame)'
    PROVE  FramesTrue'
<1>1. /\ \A u \in Users : \A f \in ToSet(up[u]) : f \in ClientFrames
      /\ \A u \in Users : \A f \in ToSet(down[u]) : f \in ServerFrames
      /\ \A e \in ToSet(inbox) : e.frame \in ClientFrames
  <2>1. NetworkOK /\ ServerOK
    BY TypeOKParts DEF IInv
  <2>2. ASSUME NEW u \in Users
        PROVE  /\ \A f \in ToSet(up[u]) : f \in ClientFrames
               /\ \A f \in ToSet(down[u]) : f \in ServerFrames
    <3>1. up[u] \in Seq(ClientFrames) /\ down[u] \in Seq(ServerFrames)
      BY <2>1 DEF NetworkOK
    <3> QED BY <3>1, ElementsOf
  <2>3. \A e \in ToSet(inbox) : e \in Events
    BY <2>1, ElementsOf DEF ServerOK
  <2> QED BY <2>2, <2>3 DEF Events
<1>2. ASSUME NEW u \in Users, NEW f \in ToSet(up'[u]) PROVE UpOK(f)'
  BY <1>1, <1>2, FramesStayTrue DEF IInv, FramesTrue
<1>3. ASSUME NEW u \in Users, NEW f \in ToSet(down'[u]) PROVE DownOK(f)'
  BY <1>1, <1>3, FramesStayTrue DEF IInv, FramesTrue
<1>4. ASSUME NEW e \in ToSet(inbox') PROVE UpOK(e.frame)'
  BY <1>1, <1>4, FramesStayTrue DEF IInv, FramesTrue
<1> QED BY <1>2, <1>3, <1>4 DEF FramesTrue

\* A step that touches neither the table nor the windows.
LEMMA QuietStep ==
    ASSUME IInv, TypeOK', UNCHANGED <<row, window>>,
           \A u \in Users : \A f \in ToSet(up'[u]) : f \in ToSet(up[u]) \/ UpOK(f)',
           \A u \in Users : \A f \in ToSet(down'[u]) : f \in ToSet(down[u]) \/ DownOK(f)',
           \A e \in ToSet(inbox') : e \in ToSet(inbox) \/ UpOK(e.frame)'
    PROVE  IInv'
<1>1. Grows /\ KeptMsgs' = KeptMsgs
  BY DEF Grows, Kept, Known, Marked, KeptMsgs
<1>2. FramesTrue'
  BY <1>1, FramesNext
<1>3. WindowsTrue'
  BY DEF IInv, WindowsTrue, Kept, Known, Marked
<1> QED BY <1>1, <1>2, <1>3 DEF IInv

-----------------------------------------------------------------------------
(* Connections. *)

\* The parts of the types.
LEMMA PartsOf == IInv => NetworkOK /\ ServerOK /\ ClientOK /\ HistoryOK
BY TypeOKParts DEF IInv

\* The parts make up the types of the next state.
LEMMA PartsNext == NetworkOK' /\ ServerOK' /\ ClientOK' /\ HistoryOK' => TypeOK'
BY TypeOKParts, PTL

\* A connection is opened.
LEMMA NewConnectionIs ==
    ASSUME IInv, NEW u \in Users, NewConnection(u)
    PROVE  /\ conn' \in [Users -> Nat] /\ link' \in [Users -> BOOLEAN]
           /\ conn'[u] = conn[u] + 1 /\ link'[u] /\ ~link[u]
           /\ \A w \in Users : w # u => conn'[w] = conn[w] /\ link'[w] = link[w]
           /\ ServerOK' /\ HistoryOK'
           /\ UNCHANGED <<unnoticed, down, inbox, registry, row, window, acked, history>>
<1>1. NetworkOK /\ ServerOK /\ HistoryOK
  BY PartsOf
<1>2. /\ UNCHANGED <<unnoticed, down, inbox, registry, row, window, acked, refused, givenUp>>
      /\ UNCHANGED history
      /\ tracked' \in {tracked, {}} /\ lastSeq' \in {lastSeq, 0}
      /\ conn' = [conn EXCEPT ![u] = conn[u] + 1] /\ link' = [link EXCEPT ![u] = TRUE] /\ ~link[u]
  BY DEF NewConnection, history
<1>3. ServerOK' /\ HistoryOK'
  BY <1>1, <1>2 DEF ServerOK, HistoryOK
<1>4. /\ conn' \in [Users -> Nat] /\ conn'[u] = conn[u] + 1
      /\ \A w \in Users : w # u => conn'[w] = conn[w]
  BY <1>1, <1>2 DEF NetworkOK
<1>5. /\ link' \in [Users -> BOOLEAN] /\ link'[u]
      /\ \A w \in Users : w # u => link'[w] = link[w]
  BY <1>1, <1>2 DEF NetworkOK
<1> QED BY <1>2, <1>3, <1>4, <1>5

\* The user connects.
LEMMA ConnectKeeps ==
    ASSUME IInv, NEW u \in Users, Connect(u)
    PROVE  IInv'
<1>1. NetworkOK /\ ClientOK
  BY PartsOf
<1>2. NewConnection(u) /\ UNCHANGED <<session, up>> /\ nextSeq' \in {nextSeq, 0} /\ unacked' \in {unacked, {}}
  BY DEF Connect
<1>3. /\ conn' \in [Users -> Nat] /\ link' \in [Users -> BOOLEAN] /\ ServerOK' /\ HistoryOK'
      /\ UNCHANGED <<unnoticed, down, inbox, row, window, acked>>
  BY <1>2, NewConnectionIs
<1>4. NetworkOK' /\ ClientOK'
  BY <1>1, <1>2, <1>3 DEF NetworkOK, ClientOK
<1>5. TypeOK'
  BY <1>3, <1>4, PartsNext
<1> QED BY <1>2, <1>3, <1>5, QuietStep

\* The client reconnects by itself.
LEMMA ReconnectKeeps ==
    ASSUME IInv, Reconnect
    PROVE  IInv'
<1>1. NetworkOK /\ ClientOK /\ Sender \in Users
  BY PartsOf, UsersAre
<1>2. /\ NewConnection(Sender) /\ UNCHANGED <<nextSeq, unacked>>
      /\ session' = [session EXCEPT ![Sender] = "asked"]
      /\ up' = [up EXCEPT ![Sender] = <<Signal("resume_session")>>]
  BY DEF Reconnect
<1>3. /\ conn' \in [Users -> Nat] /\ link' \in [Users -> BOOLEAN] /\ ServerOK' /\ HistoryOK'
      /\ UNCHANGED <<unnoticed, down, inbox, row, window, acked>>
  BY <1>1, <1>2, NewConnectionIs
<1> DEFINE r == <<Signal("resume_session")>>
<1>4. r \in Seq(ClientFrames) /\ \A f \in ToSet(r) : UpOK(f)'
  BY SignalsAre, OneElement DEF UpOK
<1>5. up' = [up EXCEPT ![Sender] = r]
  BY <1>2
<1> HIDE DEF r
<1>6. /\ up' \in [Users -> Seq(ClientFrames)] /\ up'[Sender] = r
      /\ \A w \in Users : w # Sender => up'[w] = up[w]
  BY <1>1, <1>4, <1>5 DEF NetworkOK
<1>7. NetworkOK' /\ ClientOK'
  BY <1>1, <1>2, <1>3, <1>6 DEF NetworkOK, ClientOK
<1>8. TypeOK'
  BY <1>3, <1>7, PartsNext
<1>9. \A u \in Users : \A f \in ToSet(up'[u]) : f \in ToSet(up[u]) \/ UpOK(f)'
  BY <1>4, <1>6
<1> QED BY <1>3, <1>8, <1>9, QuietStep

\* Queues that are emptied hold nothing.
LEMMA QueuesEmptied ==
    ASSUME NetworkOK, NEW u \in Users,
           up' = [up EXCEPT ![u] = <<>>] /\ down' = [down EXCEPT ![u] = <<>>]
    PROVE  /\ up' \in [Users -> Seq(ClientFrames)] /\ down' \in [Users -> Seq(ServerFrames)]
           /\ up'[u] = <<>> /\ down'[u] = <<>>
           /\ \A w \in Users : w # u => up'[w] = up[w] /\ down'[w] = down[w]
           /\ \A w \in Users : /\ \A f \in ToSet(up'[w]) : f \in ToSet(up[w])
                               /\ \A f \in ToSet(down'[w]) : f \in ToSet(down[w])
<1>1. <<>> \in Seq(ClientFrames) /\ <<>> \in Seq(ServerFrames) /\ ToSet(<<>>) = {}
  BY EmptySequence
<1>2. /\ up' \in [Users -> Seq(ClientFrames)] /\ up'[u] = <<>>
      /\ \A w \in Users : w # u => up'[w] = up[w]
  BY <1>1 DEF NetworkOK
<1>3. /\ down' \in [Users -> Seq(ServerFrames)] /\ down'[u] = <<>>
      /\ \A w \in Users : w # u => down'[w] = down[w]
  BY <1>1 DEF NetworkOK
<1> QED BY <1>1, <1>2, <1>3

\* A connection breaks.
LEMMA LinkLostKeeps ==
    ASSUME IInv, NEW u \in Users, LinkLost(u)
    PROVE  IInv'
<1>1. NetworkOK /\ ServerOK /\ ClientOK /\ HistoryOK
  BY PartsOf
<1>2. /\ link' = [link EXCEPT ![u] = FALSE] /\ session' = [session EXCEPT ![u] = "none"]
      /\ up' = [up EXCEPT ![u] = <<>>] /\ down' = [down EXCEPT ![u] = <<>>]
      /\ unnoticed' = unnoticed \cup {[user |-> u, conn |-> conn[u]]}
      /\ UNCHANGED <<conn, inbox, registry, row, tracked, lastSeq, nextSeq, unacked, window, acked,
                     refused, givenUp>>
  BY DEF LinkLost, server, history
<1>3. /\ up' \in [Users -> Seq(ClientFrames)] /\ down' \in [Users -> Seq(ServerFrames)]
      /\ \A w \in Users : /\ \A f \in ToSet(up'[w]) : f \in ToSet(up[w])
                          /\ \A f \in ToSet(down'[w]) : f \in ToSet(down[w])
  BY <1>1, <1>2, QueuesEmptied
<1>4. unnoticed' \subseteq [user : Users, conn : Nat]
  BY <1>1, <1>2 DEF NetworkOK
<1>5. NetworkOK'
  BY <1>1, <1>2, <1>3, <1>4 DEF NetworkOK
<1>6. ServerOK' /\ ClientOK' /\ HistoryOK'
  BY <1>1, <1>2 DEF ServerOK, ClientOK, HistoryOK
<1>7. TypeOK'
  BY <1>5, <1>6, PartsNext
<1> QED BY <1>2, <1>3, <1>7, QuietStep

\* The server notices the end of a connection.
LEMMA NoticeEndKeeps ==
    ASSUME IInv, NEW e, NoticeEnd(e)
    PROVE  /\ IInv'
           /\ LET x == [user |-> e.user, conn |-> e.conn, frame |-> Signal("closed")]
              IN  x \in Events /\ \A z : z \in ToSet(inbox') <=> z \in ToSet(inbox) \/ z = x
<1>1. NetworkOK /\ ServerOK /\ ClientOK /\ HistoryOK
  BY PartsOf
<1> DEFINE x == [user |-> e.user, conn |-> e.conn, frame |-> Signal("closed")]
<1>2. /\ e \in unnoticed /\ unnoticed' = unnoticed \ {e} /\ inbox' = Append(inbox, x)
      /\ UNCHANGED <<conn, link, up, down, registry, row, tracked, lastSeq,
                     session, nextSeq, unacked, window, acked, refused, givenUp>>
  BY DEF NoticeEnd, client, history
<1>3. x \in Events /\ x.frame.kind = "closed"
  BY <1>1, <1>2, SignalsAre DEF NetworkOK, Events
<1>4. UpOK(x.frame)'
  BY <1>3 DEF UpOK
<1> HIDE DEF x
<1>5. inbox' \in Seq(Events) /\ \A z : z \in ToSet(inbox') <=> z \in ToSet(inbox) \/ z = x
  BY <1>1, <1>2, <1>3, PostIs, Zenon
<1>6. NetworkOK' /\ ServerOK' /\ ClientOK' /\ HistoryOK'
  BY <1>1, <1>2, <1>5 DEF NetworkOK, ServerOK, ClientOK, HistoryOK
<1>7. IInv'
  BY <1>2, <1>4, <1>5, <1>6, PartsNext, QuietStep
<1> QED BY <1>3, <1>5, <1>7 DEF x

\* The server starts again.
LEMMA RestartKeeps ==
    ASSUME IInv, Restart
    PROVE  IInv'
<1>1. NetworkOK /\ ServerOK /\ ClientOK /\ HistoryOK
  BY PartsOf
<1>2. /\ link' = [u \in Users |-> FALSE] /\ unnoticed' = {}
      /\ up' = [u \in Users |-> <<>>] /\ down' = [u \in Users |-> <<>>]
      /\ session' = [u \in Users |-> "none"] /\ inbox' = <<>>
      /\ registry' = [u \in Users |-> 0] /\ tracked' = {}
      /\ UNCHANGED <<conn, row, lastSeq, nextSeq, unacked, window, acked, refused, givenUp>>
  BY DEF Restart, history
<1>3. /\ <<>> \in Seq(ClientFrames) /\ <<>> \in Seq(ServerFrames) /\ <<>> \in Seq(Events)
      /\ ToSet(<<>>) = {}
  BY EmptySequence
<1>4. NetworkOK'
  BY <1>1, <1>2, <1>3 DEF NetworkOK
<1>5. ServerOK' /\ HistoryOK'
  BY <1>1, <1>2, <1>3 DEF ServerOK, HistoryOK
<1>6. ClientOK'
  BY <1>1, <1>2 DEF ClientOK
<1>7. TypeOK'
  BY <1>4, <1>5, <1>6, PartsNext
<1>8. \A u \in Users : up'[u] = <<>> /\ down'[u] = <<>>
  BY <1>2
<1> QED BY <1>2, <1>3, <1>7, <1>8, QuietStep

-----------------------------------------------------------------------------
(* The clients. *)

\* A list of frames that name the messages of a list.
LEMMA FramesOfList ==
    ASSUME NEW kind, NEW list \in Seq(Msgs),
           NEW r, r = [i \in DOMAIN list |-> Frame(kind, list[i])]
    PROVE  /\ \A f \in ToSet(r) : f.msg \in ToSet(list) /\ f = Frame(kind, f.msg)
           /\ \A m \in ToSet(list) : Frame(kind, m) \in ToSet(r)
<1>1. Len(list) \in Nat /\ DOMAIN list = 1 .. Len(list) /\ \A i \in DOMAIN list : list[i] \in Msgs
  OBVIOUS
<1>2. DOMAIN r = 1 .. Len(list) /\ \A i \in DOMAIN list : r[i] = Frame(kind, list[i])
  BY <1>1
<1>3. \A f \in ToSet(r) : f.msg \in ToSet(list) /\ f = Frame(kind, f.msg)
  <2> SUFFICES ASSUME NEW f \in ToSet(r)
               PROVE  f.msg \in ToSet(list) /\ f = Frame(kind, f.msg)
    OBVIOUS
  <2>1. PICK i \in DOMAIN list : f = r[i]
    BY <1>1, <1>2 DEF ToSet
  <2>2. f = Frame(kind, list[i]) /\ f.msg = list[i]
    BY <1>1, <1>2, <2>1, FramesAre
  <2> QED BY <2>2 DEF ToSet
<1>4. \A m \in ToSet(list) : Frame(kind, m) \in ToSet(r)
  BY <1>1, <1>2 DEF ToSet
<1> QED BY <1>3, <1>4

\* A step that only a client's session and one queue of frames change.
LEMMA UploadKeeps ==
    ASSUME IInv, NEW u \in Users, NEW f \in ClientFrames, f.kind \notin {"ack", "read"},
           Upload(u, <<f>>), ClientOK',
           UNCHANGED <<conn, link, unnoticed, down, server, window, history>>
    PROVE  IInv'
<1>1. NetworkOK /\ ServerOK /\ HistoryOK
  BY PartsOf
<1>2. UNCHANGED <<inbox, registry, row, tracked, lastSeq, refused, givenUp>>
  BY DEF server, history
<1> DEFINE r == <<f>>
<1>3. r \in Seq(ClientFrames) /\ ToSet(r) = {f} /\ Upload(u, r)
  BY OneElement
<1> HIDE DEF r
<1>4. /\ up' \in [Users -> Seq(ClientFrames)]
      /\ \A w \in Users : w # u => up'[w] = up[w]
      /\ \A g : g \in ToSet(up'[u]) <=> g \in ToSet(up[u]) \/ g \in ToSet(r)
  BY <1>1, <1>3, UploadIs, Zenon
<1>5. NetworkOK' /\ ServerOK' /\ HistoryOK'
  BY <1>1, <1>2, <1>4 DEF NetworkOK, ServerOK, HistoryOK
<1>6. TypeOK'
  BY <1>5, PartsNext
<1>7. UpOK(f)'
  BY DEF UpOK
<1>8. \A w \in Users : \A g \in ToSet(up'[w]) : g \in ToSet(up[w]) \/ UpOK(g)'
  <2> SUFFICES ASSUME NEW w \in Users, NEW g \in ToSet(up'[w])
               PROVE  g \in ToSet(up[w]) \/ UpOK(g)'
    OBVIOUS
  <2>1. CASE w = u
    BY <1>3, <1>4, <1>7, <2>1
  <2>2. CASE w # u
    BY <1>4, <2>2
  <2> QED BY <2>1, <2>2
<1> QED BY <1>2, <1>6, <1>8, QuietStep

\* A sign-in is asked for.
LEMMA AskToSignInKeeps ==
    ASSUME IInv, NEW u \in Users, AskToSignIn(u)
    PROVE  IInv'
<1>1. ClientOK
  BY PartsOf
<1>2. /\ session' = [session EXCEPT ![u] = "asked"] /\ Upload(u, <<Signal("resume_session")>>)
      /\ UNCHANGED <<conn, link, unnoticed, down, server, nextSeq, unacked, window, acked, history>>
  BY DEF AskToSignIn
<1>3. ClientOK'
  BY <1>1, <1>2 DEF ClientOK
<1>4. Signal("resume_session") \in ClientFrames /\ Signal("resume_session").kind = "resume_session"
  BY SignalsAre
<1> QED BY <1>2, <1>3, <1>4, UploadKeeps

\* History is asked for.
LEMMA RequestHistoryKeeps ==
    ASSUME IInv, NEW u \in Users, RequestHistory(u)
    PROVE  IInv'
<1>1. Upload(u, <<Signal("history")>>) /\ UNCHANGED <<conn, link, unnoticed, down, server, client, history>>
  BY DEF RequestHistory
<1>2. ClientOK' /\ window' = window
  BY <1>1, PartsOf DEF ClientOK, client
<1>3. Signal("history") \in ClientFrames /\ Signal("history").kind = "history"
  BY SignalsAre
<1> QED BY <1>1, <1>2, <1>3, UploadKeeps

\* A packet is repeated.
LEMMA RetryKeeps ==
    ASSUME IInv, NEW p, Retry(p)
    PROVE  IInv' /\ p \in unacked /\ p.msg \in Msgs /\ p.seq \in Nat
<1>1. /\ p \in unacked /\ Upload(Sender, <<Private(p.msg, p.seq)>>)
      /\ UNCHANGED <<conn, link, unnoticed, down, server, client, history>>
  BY DEF Retry
<1>2. ClientOK' /\ window' = window /\ p.msg \in Msgs /\ p.seq \in Nat
  BY <1>1, PartsOf DEF ClientOK, client
<1>3. Private(p.msg, p.seq) \in ClientFrames /\ Private(p.msg, p.seq).kind = "private"
  BY <1>2, FramesAre
<1> QED BY <1>1, <1>2, <1>3, UsersAre, UploadKeeps

\* A step in which the sender's window alone says more, of messages that are shown.
LEMMA SenderWindowStep ==
    ASSUME IInv, TypeOK', row' = row, window'[Receiver] = window[Receiver],
           \A m \in Msgs : \/ window'[Sender][m] \in {window[Sender][m], "sending"}
                           \/ /\ Known(m)
                              /\ window'[Sender][m] = "delivered" => Marked(m),
           \A u \in Users : \A f \in ToSet(up'[u]) : f \in ToSet(up[u]) \/ UpOK(f)',
           \A u \in Users : \A f \in ToSet(down'[u]) : f \in ToSet(down[u]) \/ DownOK(f)',
           \A e \in ToSet(inbox') : e \in ToSet(inbox) \/ UpOK(e.frame)'
    PROVE  IInv'
<1>1. Grows /\ KeptMsgs' = KeptMsgs
  BY DEF Grows, Kept, Known, Marked, KeptMsgs
<1>2. FramesTrue'
  BY <1>1, FramesNext
<1>3. ASSUME NEW m \in Msgs
      PROVE  /\ Known(m)' => Kept(m)'
             /\ Marked(m)' => Known(m)'
             /\ window'[Sender][m] \in Marks => Known(m)'
             /\ window'[Sender][m] = "delivered" => Marked(m)'
  BY DEF IInv, WindowsTrue, Kept, Known, Marked, Marks
<1>4. WindowsTrue'
  BY <1>3 DEF WindowsTrue
<1> QED BY <1>1, <1>2, <1>4 DEF IInv

\* A message is sent.
LEMMA SendMessageKeeps ==
    ASSUME IInv, NEW m \in Msgs, SendMessage(m)
    PROVE  /\ IInv'
           /\ window'[Receiver] = window[Receiver]
           /\ \A x \in Msgs : window'[Sender][x] = IF x = m THEN "sending" ELSE window[Sender][x]
           /\ \A f : f \in ToSet(up'[Sender]) <=>
                        f \in ToSet(up[Sender]) \/ f = Private(m, nextSeq + 1)
           /\ up'[Receiver] = up[Receiver]
<1>1. NetworkOK /\ ServerOK /\ ClientOK /\ HistoryOK /\ Sender \in Users /\ Receiver \in Users /\ Sender # Receiver
  BY PartsOf, UsersAre
<1>2. /\ nextSeq' = nextSeq + 1 /\ unacked' = unacked \cup {[msg |-> m, seq |-> nextSeq + 1]}
      /\ Upload(Sender, <<Private(m, nextSeq + 1)>>)
      /\ window' = [window EXCEPT ![Sender] = [window[Sender] EXCEPT ![m] = "sending"]]
      /\ UNCHANGED <<conn, link, unnoticed, down, inbox, registry, row, tracked, lastSeq,
                     session, acked, refused, givenUp>>
  <2>1. window' = [window EXCEPT ![Sender][m] = "sending"]
    BY DEF SendMessage, Upsert
  <2>2. window' = [window EXCEPT ![Sender] = [window[Sender] EXCEPT ![m] = "sending"]]
    BY <2>1
  <2> QED BY <2>2 DEF SendMessage, server, history
<1>3. nextSeq + 1 \in Nat /\ Private(m, nextSeq + 1) \in ClientFrames
      /\ Private(m, nextSeq + 1).kind = "private"
  BY <1>1, FramesAre DEF ClientOK
<1> PICK f \in ClientFrames : f = Private(m, nextSeq + 1) /\ f.kind = "private"
  BY <1>3
<1> DEFINE r == <<f>>
           w == [window[Sender] EXCEPT ![m] = "sending"]
<1>4. r \in Seq(ClientFrames) /\ ToSet(r) = {f} /\ Upload(Sender, r)
  BY <1>2, <1>3, OneElement
<1>5. /\ w \in [Msgs -> {"unknown", "sending", "delivered", "read"}]
      /\ \A x \in Msgs : w[x] = IF x = m THEN "sending" ELSE window[Sender][x]
  BY <1>1 DEF ClientOK
<1>6. window' = [window EXCEPT ![Sender] = w]
  BY <1>2
<1> HIDE DEF r, w
<1>7. /\ up' \in [Users -> Seq(ClientFrames)]
      /\ \A u \in Users : u # Sender => up'[u] = up[u]
      /\ \A g : g \in ToSet(up'[Sender]) <=> g \in ToSet(up[Sender]) \/ g \in ToSet(r)
  BY <1>1, <1>4, UploadIs, Zenon
<1>8. /\ window' \in [Users -> [Msgs -> {"unknown", "sending", "delivered", "read"}]]
      /\ window'[Sender] = w /\ window'[Receiver] = window[Receiver]
  BY <1>1, <1>5, <1>6 DEF ClientOK
<1>9. unacked' \subseteq [msg : Msgs, seq : Nat]
  BY <1>1, <1>2, <1>3 DEF ClientOK
<1>10. NetworkOK' /\ ServerOK' /\ HistoryOK'
  BY <1>1, <1>2, <1>7 DEF NetworkOK, ServerOK, HistoryOK
<1>11. ClientOK'
  BY <1>1, <1>2, <1>3, <1>8, <1>9 DEF ClientOK
<1>12. TypeOK'
  BY <1>10, <1>11, PartsNext
<1>13. \A g : g \in ToSet(up'[Sender]) <=> g \in ToSet(up[Sender]) \/ g = f
  BY <1>4, <1>7
<1>14. UpOK(f)'
  BY DEF UpOK
<1>15. \A u \in Users : \A g \in ToSet(up'[u]) : g \in ToSet(up[u]) \/ UpOK(g)'
  <2> SUFFICES ASSUME NEW u \in Users, NEW g \in ToSet(up'[u])
               PROVE  g \in ToSet(up[u]) \/ UpOK(g)'
    OBVIOUS
  <2>1. CASE u = Sender
    <3>1. g \in ToSet(up[Sender]) \/ g = f
      BY <1>13, <2>1
    <3> QED BY <1>14, <2>1, <3>1
  <2>2. CASE u # Sender
    BY <1>7, <2>2
  <2> QED BY <2>1, <2>2
<1>16. \A x \in Msgs : window'[Sender][x] \in {window[Sender][x], "sending"}
  BY <1>5, <1>8
<1>17. IInv'
  BY <1>2, <1>8, <1>12, <1>15, <1>16, SenderWindowStep
<1> QED BY <1>1, <1>5, <1>7, <1>8, <1>13, <1>17

\* A step in which the receiver's window alone shows more, all of it in the table.
LEMMA ReceiverWindowStep ==
    ASSUME IInv, TypeOK', row' = row, window'[Sender] = window[Sender],
           \A m \in Msgs : \/ window'[Receiver][m] = window[Receiver][m]
                           \/ window'[Receiver][m] # "unknown" /\ Kept(m),
           \A u \in Users : \A f \in ToSet(up'[u]) : f \in ToSet(up[u]) \/ UpOK(f)',
           \A u \in Users : \A f \in ToSet(down'[u]) : f \in ToSet(down[u]) \/ DownOK(f)',
           \A e \in ToSet(inbox') : e \in ToSet(inbox) \/ UpOK(e.frame)'
    PROVE  IInv'
<1>1. Grows /\ KeptMsgs' = KeptMsgs
  BY DEF Grows, Kept, Known, Marked, KeptMsgs
<1>2. FramesTrue'
  BY <1>1, FramesNext
<1>3. ASSUME NEW m \in Msgs
      PROVE  /\ Known(m)' => Kept(m)'
             /\ Marked(m)' => Known(m)'
             /\ window'[Sender][m] \in Marks => Known(m)'
             /\ window'[Sender][m] = "delivered" => Marked(m)'
  <2>1. /\ Known(m) => Kept(m)
        /\ Marked(m) => Known(m)
        /\ window[Sender][m] \in Marks => Known(m)
        /\ window[Sender][m] = "delivered" => Marked(m)
    BY DEF IInv, WindowsTrue
  <2>2. (Kept(m)' <=> Kept(m)) /\ (Marked(m)' <=> Marked(m)) /\ (Known(m) => Known(m)')
        /\ (Known(m)' => Known(m) \/ Kept(m))
    BY DEF Kept, Known, Marked
  <2> QED BY <2>1, <2>2
<1>4. WindowsTrue'
  BY <1>3 DEF WindowsTrue
<1> QED BY <1>1, <1>2, <1>4 DEF IInv

\* The receiver looks at his messages.
LEMMA MarkReadKeeps ==
    ASSUME IInv, MarkRead
    PROVE  /\ IInv'
           /\ window'[Sender] = window[Sender]
           /\ \A f \in ToSet(up[Receiver]) : f \in ToSet(up'[Receiver])
           /\ up'[Sender] = up[Sender]
<1>1. NetworkOK /\ ServerOK /\ ClientOK /\ HistoryOK /\ Sender \in Users /\ Receiver \in Users /\ Sender # Receiver
  BY PartsOf, UsersAre
<1> DEFINE w == [m \in Msgs |-> IF m \in Unread THEN "read" ELSE window[Receiver][m]]
<1>2. /\ window' = [window EXCEPT ![Receiver] = w]
      /\ UNCHANGED <<conn, link, unnoticed, down, inbox, registry, row, tracked, lastSeq,
                     session, nextSeq, unacked, acked, refused, givenUp>>
  BY DEF MarkRead, server, history
<1>3. PICK order \in SetToSeqs(Unread) :
        Upload(Receiver, [i \in DOMAIN order |-> Frame("read", order[i])])
  BY DEF MarkRead
<1>4. /\ \A m \in Unread : m \in Msgs /\ Known(m) /\ Kept(m)
      /\ IsFiniteSet(Unread)
  <2>1. \A m \in Unread : m \in Msgs /\ Known(m) /\ Kept(m)
    BY DEF Unread, Known, IInv, WindowsTrue
  <2>2. Unread \in SUBSET KeptMsgs
    BY <2>1 DEF KeptMsgs
  <2> QED BY <2>1, <2>2, FS_Subset DEF IInv
<1>5. order \in Seq(Unread) /\ ToSet(order) = Unread
  BY <1>4, ListOf, Zenon
<1>6. order \in Seq(Msgs)
  BY <1>4, <1>5
<1> DEFINE r == [i \in DOMAIN order |-> Frame("read", order[i])]
<1>7. r \in Seq(ClientFrames) /\ \A f \in ToSet(r) : f.msg \in ToSet(order) /\ f = Frame("read", f.msg)
  <2>1. \A m \in Msgs : Frame("read", m) \in ClientFrames
    BY FramesAre
  <2>2. r = [i \in DOMAIN order |-> Frame("read", order[i])]
    OBVIOUS
  <2> HIDE DEF r
  <2>3. \A f \in ToSet(r) : f.msg \in ToSet(order) /\ f = Frame("read", f.msg)
    BY <1>6, <2>2, FramesOfList, Zenon
  <2>4. r \in Seq(ClientFrames)
    BY <1>6, <2>1, <2>2
  <2> QED BY <2>3, <2>4
<1>8. Upload(Receiver, r)
  BY <1>3
<1> HIDE DEF r
<1>9. /\ up' \in [Users -> Seq(ClientFrames)]
      /\ \A u \in Users : u # Receiver => up'[u] = up[u]
      /\ \A f : f \in ToSet(up'[Receiver]) <=> f \in ToSet(up[Receiver]) \/ f \in ToSet(r)
  BY <1>1, <1>7, <1>8, UploadIs, Zenon
<1>10. /\ w \in [Msgs -> {"unknown", "sending", "delivered", "read"}]
       /\ \A m \in Msgs : w[m] = window[Receiver][m] \/ (w[m] # "unknown" /\ Kept(m))
  <2>1. window[Receiver] \in [Msgs -> {"unknown", "sending", "delivered", "read"}]
    BY <1>1 DEF ClientOK
  <2>2. ASSUME NEW m \in Msgs
        PROVE  /\ w[m] \in {"unknown", "sending", "delivered", "read"}
               /\ w[m] = window[Receiver][m] \/ (w[m] # "unknown" /\ Kept(m))
    <3>1. CASE m \in Unread
      BY <1>4, <3>1
    <3>2. CASE m \notin Unread
      BY <2>1, <3>2
    <3> QED BY <3>1, <3>2
  <2> QED BY <2>2
<1> HIDE DEF w
<1>11. /\ window' \in [Users -> [Msgs -> {"unknown", "sending", "delivered", "read"}]]
       /\ window'[Receiver] = w /\ window'[Sender] = window[Sender]
  BY <1>1, <1>2, <1>10 DEF ClientOK
<1>12. NetworkOK' /\ ServerOK' /\ HistoryOK'
  BY <1>1, <1>2, <1>9 DEF NetworkOK, ServerOK, HistoryOK
<1>13. ClientOK'
  BY <1>1, <1>2, <1>11 DEF ClientOK
<1>14. TypeOK'
  BY <1>12, <1>13, PartsNext
<1>15. \A f \in ToSet(r) : UpOK(f)'
  <2> SUFFICES ASSUME NEW f \in ToSet(r) PROVE UpOK(f)'
    OBVIOUS
  <2>1. f.msg \in Msgs /\ Known(f.msg)
    BY <1>4, <1>5, <1>7
  <2>2. Known(f.msg)'
    BY <1>10, <1>11, <2>1 DEF Known
  <2> QED BY <2>2 DEF UpOK
<1>16. \A u \in Users : \A f \in ToSet(up'[u]) : f \in ToSet(up[u]) \/ UpOK(f)'
  <2> SUFFICES ASSUME NEW u \in Users, NEW f \in ToSet(up'[u])
               PROVE  f \in ToSet(up[u]) \/ UpOK(f)'
    OBVIOUS
  <2>1. CASE u = Receiver
    BY <1>9, <1>15, <2>1
  <2>2. CASE u # Receiver
    BY <1>9, <2>2
  <2> QED BY <2>1, <2>2
<1>17. IInv'
  BY <1>2, <1>10, <1>11, <1>14, <1>16, ReceiverWindowStep
<1> QED BY <1>1, <1>9, <1>11, <1>17

\* What a client does when it only takes a frame.
LEMMA ArrivalTypes ==
    ASSUME IInv, NEW u \in Users, NEW kind, Arrives(u, kind), ClientOK',
           UNCHANGED <<conn, link, unnoticed, up, server, history>>
    PROVE  TypeOK'
<1>1. NetworkOK /\ ServerOK /\ HistoryOK
  BY PartsOf
<1>2. down' \in [Users -> Seq(ServerFrames)]
  BY <1>1, ArrivesIs
<1>3. NetworkOK' /\ ServerOK' /\ HistoryOK'
  BY <1>1, <1>2 DEF NetworkOK, ServerOK, HistoryOK, server, history
<1> QED BY <1>3, PartsNext

\* The answer to a sign-in arrives.
LEMMA TakeAuthKeeps ==
    ASSUME IInv, NEW u \in Users, TakeAuth(u)
    PROVE  IInv'
<1>1. PICK kind \in {"auth_ok", "auth_error"}, s \in {"on", "none"} :
        Arrives(u, kind) /\ session' = [session EXCEPT ![u] = s]
  BY DEF TakeAuth
<1>2. UNCHANGED <<conn, link, unnoticed, up, server, nextSeq, unacked, window, acked, history>>
  BY DEF TakeAuth
<1>3. NetworkOK /\ ClientOK
  BY PartsOf
<1>4. ClientOK'
  BY <1>1, <1>2, <1>3 DEF ClientOK
<1>5. TypeOK'
  BY <1>1, <1>2, <1>4, ArrivalTypes
<1>6. \A w \in Users : \A f \in ToSet(down'[w]) : f \in ToSet(down[w])
  BY <1>1, <1>3, ArrivesIs
<1> QED BY <1>2, <1>5, <1>6, QuietStep DEF server

\* An acknowledgement or an error arrives.
LEMMA TakeAckKeeps ==
    ASSUME IInv, TakeAck \/ TakeError
    PROVE  IInv'
<1>1. PICK kind : Arrives(Sender, kind)
  BY DEF TakeAck, TakeError
<1>2. UNCHANGED <<conn, link, unnoticed, up, server, session, nextSeq, window, history>>
  BY DEF TakeAck, TakeError, client
<1>3. NetworkOK /\ ClientOK /\ Sender \in Users
  BY PartsOf, UsersAre
<1>4. unacked' \subseteq unacked /\ acked' \subseteq Msgs
  <2>1. CASE TakeAck
    <3>1. Arrives(Sender, "ack")
      BY <2>1 DEF TakeAck
    <3>2. Head(down[Sender]).msg \in Msgs
      BY <1>3, <3>1, ArrivesIs, ServerFrameIs
    <3> QED BY <1>3, <2>1, <3>2 DEF TakeAck, ClientOK
  <2>2. CASE TakeError
    BY <1>3, <2>2 DEF TakeError, client, ClientOK
  <2> QED BY <2>1, <2>2
<1>5. ClientOK'
  BY <1>2, <1>3, <1>4 DEF ClientOK
<1>6. TypeOK'
  BY <1>1, <1>2, <1>3, <1>5, ArrivalTypes
<1>7. \A w \in Users : \A f \in ToSet(down'[w]) : f \in ToSet(down[w])
  BY <1>1, <1>3, ArrivesIs
<1> QED BY <1>2, <1>6, <1>7, QuietStep DEF server

\* A status arrives.
LEMMA TakeStatusIs ==
    ASSUME IInv, TakeStatus
    PROVE  LET f == Head(down[Sender])
           IN  /\ f \in ServerFrames /\ f \in ToSet(down[Sender]) /\ f.msg \in Msgs
               /\ f.kind \in {"queued", "delivered", "read"} /\ Arrives(Sender, f.kind)
               /\ window'[Receiver] = window[Receiver]
               /\ \A x \in Msgs : window'[Sender][x] =
                     IF x = f.msg /\ window[Sender][x] # "unknown"
                     THEN StatusOf(f.kind) ELSE window[Sender][x]
               /\ TypeOK'
               /\ UNCHANGED <<conn, link, unnoticed, up, server, session, nextSeq, unacked, acked, history>>
<1>1. NetworkOK /\ ClientOK /\ Sender \in Users /\ Receiver \in Users /\ Sender # Receiver
  BY PartsOf, UsersAre
<1>2. PICK kind \in {"queued", "delivered", "read"} : Arrives(Sender, kind)
  BY DEF TakeStatus
<1>3. PICK f \in ServerFrames : f = Head(down[Sender])
  BY <1>1, <1>2, ArrivesIs
<1>4. f \in ToSet(down[Sender]) /\ f.kind = kind /\ f.msg \in Msgs
  BY <1>1, <1>2, <1>3, ArrivesIs, ServerFrameIs
<1> DEFINE old == window[Sender][f.msg]
           s == IF old = "unknown" THEN old ELSE StatusOf(kind)
           w == [window[Sender] EXCEPT ![f.msg] = s]
<1>5. window' = [window EXCEPT ![Sender] = w]
  <2>1. window' = [window EXCEPT ![Sender][f.msg] = IF @ = "unknown" THEN @ ELSE StatusOf(f.kind)]
    BY <1>3 DEF TakeStatus, UpdateStatus
  <2> QED BY <1>4, <2>1
<1>6. s \in {"unknown", "sending", "delivered", "read"}
  BY DEF StatusOf
<1>7. s = IF old # "unknown" THEN StatusOf(kind) ELSE old
  OBVIOUS
<1> HIDE DEF s
<1>8. /\ w \in [Msgs -> {"unknown", "sending", "delivered", "read"}]
      /\ \A x \in Msgs : w[x] = IF x = f.msg THEN s ELSE window[Sender][x]
  BY <1>1, <1>4, <1>6 DEF ClientOK
<1> HIDE DEF w
<1>9. /\ window' \in [Users -> [Msgs -> {"unknown", "sending", "delivered", "read"}]]
      /\ window'[Sender] = w /\ window'[Receiver] = window[Receiver]
  BY <1>1, <1>5, <1>8 DEF ClientOK
<1>10. UNCHANGED <<conn, link, unnoticed, up, server, session, nextSeq, unacked, acked, history>>
  BY DEF TakeStatus
<1>11. ClientOK'
  BY <1>1, <1>9, <1>10 DEF ClientOK
<1>12. TypeOK'
  BY <1>1, <1>2, <1>10, <1>11, ArrivalTypes
<1>13. \A x \in Msgs : window'[Sender][x] =
          IF x = f.msg /\ window[Sender][x] # "unknown" THEN StatusOf(f.kind) ELSE window[Sender][x]
  BY <1>4, <1>7, <1>8, <1>9
<1> QED BY <1>2, <1>3, <1>4, <1>9, <1>10, <1>12, <1>13

\* A status is true when it is shown.
LEMMA TakeStatusKeeps ==
    ASSUME IInv, TakeStatus
    PROVE  IInv'
<1>1. NetworkOK /\ Sender \in Users
  BY PartsOf, UsersAre
<1>2. PICK f : f = Head(down[Sender])
  OBVIOUS
<1>3. /\ f \in ServerFrames /\ f \in ToSet(down[Sender]) /\ f.msg \in Msgs
      /\ f.kind \in {"queued", "delivered", "read"} /\ Arrives(Sender, f.kind)
      /\ window'[Receiver] = window[Receiver]
      /\ \A x \in Msgs : window'[Sender][x] =
            IF x = f.msg /\ window[Sender][x] # "unknown" THEN StatusOf(f.kind) ELSE window[Sender][x]
      /\ TypeOK'
      /\ UNCHANGED <<conn, link, unnoticed, up, server, session, nextSeq, unacked, acked, history>>
  BY <1>2, TakeStatusIs
<1>4. DownOK(f)
  BY <1>1, <1>3 DEF IInv, FramesTrue
<1>5. \A x \in Msgs : \/ window'[Sender][x] \in {window[Sender][x], "sending"}
                      \/ Known(x) /\ (window'[Sender][x] = "delivered" => Marked(x))
  <2> SUFFICES ASSUME NEW x \in Msgs
               PROVE  \/ window'[Sender][x] \in {window[Sender][x], "sending"}
                      \/ Known(x) /\ (window'[Sender][x] = "delivered" => Marked(x))
    OBVIOUS
  <2>1. CASE x = f.msg /\ window[Sender][x] # "unknown" /\ f.kind # "queued"
    <3>1. window'[Sender][x] = f.kind
      BY <1>3, <2>1 DEF StatusOf
    <3> QED BY <1>3, <1>4, <2>1, <3>1 DEF DownOK, Marks
  <2>2. CASE ~(x = f.msg /\ window[Sender][x] # "unknown" /\ f.kind # "queued")
    BY <1>3, <2>2 DEF StatusOf
  <2> QED BY <2>1, <2>2
<1>6. \A w \in Users : \A g \in ToSet(down'[w]) : g \in ToSet(down[w])
  BY <1>1, <1>3, ArrivesIs
<1>7. row' = row /\ inbox' = inbox /\ up' = up
  BY <1>3 DEF server
<1> QED BY <1>3, <1>5, <1>6, <1>7, SenderWindowStep

\* What a history shows of a message.
LEMMA InWindowIs ==
    ASSUME NEW old, NEW mark \in RowStates
    PROVE  InWindow(old, mark) = IF mark = "none" THEN old
                                 ELSE IF mark = "pending" THEN "sending" ELSE mark
BY DEF InWindow, RowStates

\* A history arrives.
LEMMA TakeHistoryIs ==
    ASSUME IInv, NEW u \in Users, TakeHistory(u)
    PROVE  LET rows == Head(down[u]).rows
           IN  /\ Arrives(u, "history") /\ Head(down[u]) \in ToSet(down[u])
               /\ rows \in [Msgs -> RowStates]
               /\ \A w \in Users : w # u => window'[w] = window[w]
               /\ \A x \in Msgs : window'[u][x] =
                     IF rows[x] = "none" THEN window[u][x]
                     ELSE IF rows[x] = "pending" THEN "sending" ELSE rows[x]
               /\ TypeOK'
               /\ UNCHANGED <<conn, link, unnoticed, up, server, session, nextSeq, unacked, acked, history>>
<1>1. NetworkOK /\ ClientOK
  BY PartsOf
<1>2. Arrives(u, "history")
  BY DEF TakeHistory
<1>3. PICK rows \in [Msgs -> RowStates] : rows = Head(down[u]).rows
  BY <1>1, <1>2, ArrivesIs, ServerFrameIs
<1> DEFINE w == [x \in Msgs |-> InWindow(window[u][x], rows[x])]
<1>4. window' = [window EXCEPT ![u] = w]
  BY <1>3 DEF TakeHistory
<1>5. ASSUME NEW x \in Msgs
      PROVE  /\ w[x] = IF rows[x] = "none" THEN window[u][x]
                       ELSE IF rows[x] = "pending" THEN "sending" ELSE rows[x]
             /\ w[x] \in {"unknown", "sending", "delivered", "read"}
  <2>1. rows[x] \in RowStates /\ w[x] = InWindow(window[u][x], rows[x])
    OBVIOUS
  <2>2. window[u][x] \in {"unknown", "sending", "delivered", "read"}
    BY <1>1 DEF ClientOK
  <2> HIDE DEF w
  <2> QED BY <2>1, <2>2, InWindowIs DEF RowStates
<1>6. w \in [Msgs -> {"unknown", "sending", "delivered", "read"}]
  BY <1>5
<1> HIDE DEF w
<1>7. /\ window' \in [Users -> [Msgs -> {"unknown", "sending", "delivered", "read"}]]
      /\ window'[u] = w /\ \A v \in Users : v # u => window'[v] = window[v]
  BY <1>1, <1>4, <1>6 DEF ClientOK
<1>8. UNCHANGED <<conn, link, unnoticed, up, server, session, nextSeq, unacked, acked, history>>
  BY DEF TakeHistory
<1>9. ClientOK'
  BY <1>1, <1>7, <1>8 DEF ClientOK
<1>10. TypeOK'
  BY <1>2, <1>8, <1>9, ArrivalTypes
<1>11. Head(down[u]) \in ToSet(down[u])
  BY <1>1, <1>2, ArrivesIs
<1> QED BY <1>2, <1>3, <1>5, <1>7, <1>8, <1>10, <1>11

\* A history is true when it is shown.
LEMMA TakeHistoryKeeps ==
    ASSUME IInv, NEW u \in Users, TakeHistory(u)
    PROVE  IInv'
<1>1. NetworkOK /\ Sender \in Users /\ Receiver \in Users /\ Sender # Receiver /\ u \in {Sender, Receiver}
  BY PartsOf, UsersAre
<1>2. PICK rows : rows = Head(down[u]).rows
  OBVIOUS
<1>3. /\ Arrives(u, "history") /\ Head(down[u]) \in ToSet(down[u])
      /\ rows \in [Msgs -> RowStates]
      /\ \A w \in Users : w # u => window'[w] = window[w]
      /\ \A x \in Msgs : window'[u][x] =
            IF rows[x] = "none" THEN window[u][x]
            ELSE IF rows[x] = "pending" THEN "sending" ELSE rows[x]
      /\ TypeOK'
      /\ UNCHANGED <<conn, link, unnoticed, up, server, session, nextSeq, unacked, acked, history>>
  BY <1>2, TakeHistoryIs
<1>4. \A x \in Msgs : (rows[x] # "none" => Kept(x)) /\ (rows[x] \in Marks => Marked(x) /\ Known(x))
  <2>1. Head(down[u]).kind = "history" /\ DownOK(Head(down[u]))
    BY <1>1, <1>3, ArrivesIs DEF IInv, FramesTrue
  <2>2. \A x \in Msgs : (rows[x] # "none" => Kept(x)) /\ (rows[x] \in Marks => Marked(x))
    BY <1>2, <2>1 DEF DownOK
  <2> QED BY <2>2 DEF IInv, WindowsTrue
<1>5. \A w \in Users : \A g \in ToSet(down'[w]) : g \in ToSet(down[w])
  BY <1>1, <1>3, ArrivesIs
<1>6. row' = row /\ inbox' = inbox /\ up' = up
  BY <1>3 DEF server
<1>7. CASE u = Sender
  <2>1. \A x \in Msgs : \/ window'[Sender][x] \in {window[Sender][x], "sending"}
                        \/ Known(x) /\ (window'[Sender][x] = "delivered" => Marked(x))
    BY <1>3, <1>4, <1>7 DEF RowStates, Marks
  <2> QED BY <1>1, <1>3, <1>5, <1>6, <1>7, <2>1, SenderWindowStep
<1>8. CASE u = Receiver
  <2>1. \A x \in Msgs : \/ window'[Receiver][x] = window[Receiver][x]
                        \/ window'[Receiver][x] # "unknown" /\ Kept(x)
    BY <1>3, <1>4, <1>8 DEF RowStates
  <2> QED BY <1>1, <1>3, <1>5, <1>6, <1>8, <2>1, ReceiverWindowStep
<1> QED BY <1>1, <1>7, <1>8

\* A message arrives.
LEMMA TakePrivateKeeps ==
    ASSUME IInv, TakePrivate
    PROVE  /\ IInv'
           /\ LET m == Head(down[Receiver]).msg
              IN  /\ m \in Msgs /\ Head(down[Receiver]) = Frame("private", m)
                  /\ Arrives(Receiver, "private")
                  /\ \A g : g \in ToSet(up'[Receiver]) <=> g \in ToSet(up[Receiver]) \/ g = Frame("ack", m)
                  /\ up'[Sender] = up[Sender] /\ window'[Sender] = window[Sender]
<1>1. NetworkOK /\ ServerOK /\ ClientOK /\ HistoryOK /\ Sender \in Users /\ Receiver \in Users /\ Sender # Receiver
  BY PartsOf, UsersAre
<1>2. Arrives(Receiver, "private")
  BY DEF TakePrivate
<1>3. PICK m \in Msgs : m = Head(down[Receiver]).msg /\ Head(down[Receiver]) = Frame("private", m)
  BY <1>1, <1>2, ArrivesIs, ServerFrameIs
<1>4. Kept(m)
  <2>1. DownOK(Head(down[Receiver])) /\ Head(down[Receiver]).kind = "private"
    BY <1>1, <1>2, ArrivesIs DEF IInv, FramesTrue
  <2> QED BY <1>3, <2>1 DEF DownOK
<1>5. PICK f \in ClientFrames : f = Frame("ack", m) /\ f.kind = "ack" /\ f.msg = m
  BY FramesAre
<1> DEFINE r == <<f>>
           w == [window[Receiver] EXCEPT ![m] = "delivered"]
<1>6. r \in Seq(ClientFrames) /\ ToSet(r) = {f} /\ Upload(Receiver, r)
  BY <1>3, <1>5, OneElement DEF TakePrivate
<1>7. /\ window' = [window EXCEPT ![Receiver] = w]
      /\ UNCHANGED <<conn, link, unnoticed, inbox, registry, row, tracked, lastSeq,
                     session, nextSeq, unacked, acked, refused, givenUp>>
  <2>1. window' = [window EXCEPT ![Receiver][m] = "delivered"]
    BY <1>3 DEF TakePrivate, Upsert
  <2> QED BY <2>1 DEF TakePrivate, server, history
<1>8. /\ w \in [Msgs -> {"unknown", "sending", "delivered", "read"}]
      /\ \A x \in Msgs : w[x] = IF x = m THEN "delivered" ELSE window[Receiver][x]
  BY <1>1 DEF ClientOK
<1> HIDE DEF r, w
<1>9. /\ up' \in [Users -> Seq(ClientFrames)]
      /\ \A u \in Users : u # Receiver => up'[u] = up[u]
      /\ \A g : g \in ToSet(up'[Receiver]) <=> g \in ToSet(up[Receiver]) \/ g \in ToSet(r)
  BY <1>1, <1>6, UploadIs, Zenon
<1>10. /\ window' \in [Users -> [Msgs -> {"unknown", "sending", "delivered", "read"}]]
       /\ window'[Receiver] = w /\ window'[Sender] = window[Sender]
  BY <1>1, <1>7, <1>8 DEF ClientOK
<1>11. /\ down' \in [Users -> Seq(ServerFrames)]
       /\ \A u \in Users : \A g \in ToSet(down'[u]) : g \in ToSet(down[u])
  BY <1>1, <1>2, ArrivesIs
<1>12. NetworkOK' /\ ServerOK' /\ HistoryOK'
  BY <1>1, <1>7, <1>9, <1>11 DEF NetworkOK, ServerOK, HistoryOK
<1>13. ClientOK'
  BY <1>1, <1>7, <1>10 DEF ClientOK
<1>14. TypeOK'
  BY <1>12, <1>13, PartsNext
<1>15. UpOK(f)'
  BY <1>5, <1>8, <1>10 DEF UpOK, Known
<1>16. \A g : g \in ToSet(up'[Receiver]) <=> g \in ToSet(up[Receiver]) \/ g = f
  BY <1>6, <1>9
<1>17. \A u \in Users : \A g \in ToSet(up'[u]) : g \in ToSet(up[u]) \/ UpOK(g)'
  <2> SUFFICES ASSUME NEW u \in Users, NEW g \in ToSet(up'[u])
               PROVE  g \in ToSet(up[u]) \/ UpOK(g)'
    OBVIOUS
  <2>1. CASE u = Receiver
    BY <1>15, <1>16, <2>1
  <2>2. CASE u # Receiver
    BY <1>9, <2>2
  <2> QED BY <2>1, <2>2
<1>18. \A x \in Msgs : \/ window'[Receiver][x] = window[Receiver][x]
                       \/ window'[Receiver][x] # "unknown" /\ Kept(x)
  BY <1>4, <1>8, <1>10
<1>19. IInv'
  BY <1>7, <1>10, <1>11, <1>14, <1>17, <1>18, ReceiverWindowStep
<1> QED BY <1>1, <1>2, <1>3, <1>5, <1>9, <1>10, <1>16, <1>19

-----------------------------------------------------------------------------
(* The workers. *)

\* What a worker reads is true.
LEMMA ReadIsTrue ==
    ASSUME IInv, NEW u \in Users, FromPeer(u)
    PROVE  Head(up[u]) \in ClientFrames /\ UpOK(Head(up[u]))
BY PartsOf, FromPeerIs DEF IInv, FramesTrue

\* A worker reads a frame, and may post it.
LEMMA WorkerKeeps ==
    ASSUME IInv, NEW u \in Users, FromPeer(u), Post(u) \/ inbox' = inbox,
           tracked' \subseteq Msgs, lastSeq' \in Nat,
           down' \in [Users -> Seq(ServerFrames)],
           \A w \in Users : \A f \in ToSet(down'[w]) : f \in ToSet(down[w]) \/ DownOK(f)',
           UNCHANGED <<conn, link, unnoticed, registry, row, client, history>>
    PROVE  IInv'
<1>1. NetworkOK /\ ServerOK /\ ClientOK /\ HistoryOK
  BY PartsOf
<1>2. /\ up' \in [Users -> Seq(ClientFrames)]
      /\ \A w \in Users : \A f \in ToSet(up'[w]) : f \in ToSet(up[w])
  BY <1>1, FromPeerIs
<1>3. PICK f \in ClientFrames : f = Head(up[u]) /\ UpOK(f)
  BY ReadIsTrue
<1>4. PICK e \in Events : e = Event(u, f) /\ e.frame = f
  BY <1>1, EventIs
<1>5. /\ inbox' \in Seq(Events)
      /\ \A z \in ToSet(inbox') : z \in ToSet(inbox) \/ z = e
  <2>1. CASE Post(u)
    <3>1. inbox' = Append(inbox, e)
      BY <1>3, <1>4, <2>1 DEF Post
    <3> QED BY <1>1, <3>1, PostIs, Zenon
  <2>2. CASE inbox' = inbox
    BY <1>1, <2>2 DEF ServerOK
  <2> QED BY <2>1, <2>2
<1>6. NetworkOK' /\ ServerOK'
  BY <1>1, <1>2, <1>5 DEF NetworkOK, ServerOK
<1>7. ClientOK' /\ HistoryOK'
  BY <1>1 DEF ClientOK, HistoryOK, client, history
<1>8. TypeOK'
  BY <1>6, <1>7, PartsNext
<1>9. UpOK(e.frame)'
  <2>1. window' = window
    BY DEF client
  <2> QED BY <1>3, <1>4, <2>1 DEF UpOK, Known
<1>10. \A z \in ToSet(inbox') : z \in ToSet(inbox) \/ UpOK(z.frame)'
  BY <1>5, <1>9
<1>11. UNCHANGED <<row, window>>
  BY DEF client
<1> QED BY <1>2, <1>8, <1>10, <1>11, QuietStep

\* A private message is read and acknowledged.
LEMMA ReceivePrivateKeeps ==
    ASSUME IInv, ReceivePrivate
    PROVE  /\ IInv'
           /\ LET f == Head(up[Sender])
              IN  /\ f \in ToSet(up[Sender]) /\ f.msg \in Msgs /\ f.seq \in Nat
                  /\ f = Private(f.msg, f.seq) /\ FromPeer(Sender)
                  /\ down'[Sender] = down[Sender] \o <<Frame("ack", f.msg)>>
                  /\ down'[Receiver] = down[Receiver]
                  /\ \/ f.seq <= lastSeq /\ lastSeq' = lastSeq /\ inbox' = inbox
                     \/ f.seq > lastSeq /\ lastSeq' = f.seq /\ Post(Sender)
<1>1. NetworkOK /\ ServerOK /\ Sender \in Users /\ Receiver \in Users /\ Sender # Receiver
  BY PartsOf, UsersAre
<1>2. FromPeer(Sender)
  BY DEF ReceivePrivate
<1>3. PICK f \in ClientFrames : f = Head(up[Sender])
  BY <1>1, <1>2, FromPeerIs
<1>4. /\ f.kind = "private"
      /\ down' = [down EXCEPT ![Sender] = Append(@, Frame("ack", f.msg))]
      /\ \/ f.seq <= lastSeq /\ UNCHANGED <<lastSeq, inbox>>
         \/ ~(f.seq <= lastSeq) /\ lastSeq' = f.seq /\ Post(Sender)
      /\ UNCHANGED <<conn, link, unnoticed, registry, row, tracked, client, history>>
  BY <1>3 DEF ReceivePrivate
<1>5. f.msg \in Msgs /\ f.seq \in Nat /\ f = Private(f.msg, f.seq) /\ f \in ToSet(up[Sender])
  BY <1>1, <1>2, <1>3, <1>4, FromPeerIs, ClientFrameIs
<1>6. PICK g \in ServerFrames : g = Frame("ack", f.msg) /\ g.kind = "ack"
  BY <1>5, FramesAre
<1> DEFINE q == Append(down[Sender], g)
<1>7. /\ down[Sender] \in Seq(ServerFrames) /\ down \in [Users -> Seq(ServerFrames)]
  BY <1>1 DEF NetworkOK
<1>8. q \in Seq(ServerFrames) /\ q = down[Sender] \o <<g>>
      /\ \A z : z \in ToSet(q) <=> z \in ToSet(down[Sender]) \/ z = g
  <2>1. q = Append(down[Sender], g) /\ q \in Seq(ServerFrames) /\ q = down[Sender] \o <<g>>
    BY <1>7
  <2> HIDE DEF q
  <2>2. \A z : z \in ToSet(q) <=> z \in ToSet(down[Sender]) \/ z = g
    BY <1>7, <2>1, AppendOf, Zenon
  <2> QED BY <2>1, <2>2
<1>9. down' = [down EXCEPT ![Sender] = q]
  BY <1>4, <1>6
<1> HIDE DEF q
<1>10. /\ down' \in [Users -> Seq(ServerFrames)] /\ down'[Sender] = q
       /\ down'[Receiver] = down[Receiver]
  BY <1>1, <1>7, <1>8, <1>9
<1>11. DownOK(g)'
  BY <1>6 DEF DownOK, Marks
<1>12. \A w \in Users : \A z \in ToSet(down'[w]) : z \in ToSet(down[w]) \/ DownOK(z)'
  <2> SUFFICES ASSUME NEW w \in Users, NEW z \in ToSet(down'[w])
               PROVE  z \in ToSet(down[w]) \/ DownOK(z)'
    OBVIOUS
  <2>1. CASE w = Sender
    BY <1>8, <1>10, <1>11, <2>1
  <2>2. CASE w # Sender
    BY <1>10, <2>2, UsersAre
  <2> QED BY <2>1, <2>2
<1>13. tracked' \subseteq Msgs /\ lastSeq' \in Nat /\ (Post(Sender) \/ inbox' = inbox)
  BY <1>1, <1>4, <1>5 DEF ServerOK
<1>14. UNCHANGED <<conn, link, unnoticed, registry, row, client, history>>
  BY <1>4
<1>15. IInv'
  BY <1>1, <1>2, <1>10, <1>12, <1>13, <1>14, WorkerKeeps
<1>16. \/ f.seq <= lastSeq /\ lastSeq' = lastSeq /\ inbox' = inbox
       \/ f.seq > lastSeq /\ lastSeq' = f.seq /\ Post(Sender)
  BY <1>1, <1>4, <1>5 DEF ServerOK
<1> QED BY <1>2, <1>3, <1>5, <1>6, <1>8, <1>10, <1>15, <1>16

\* An acknowledgement is read.
LEMMA ReceiveAckKeeps ==
    ASSUME IInv, ReceiveAck
    PROVE  IInv'
<1>1. FromPeer(Receiver) /\ (Post(Receiver) \/ inbox' = inbox) /\ tracked' \subseteq tracked
  BY DEF ReceiveAck
<1>2. UNCHANGED <<conn, link, unnoticed, down, registry, row, lastSeq, client, history>>
  BY DEF ReceiveAck
<1>3. tracked' \subseteq Msgs /\ lastSeq' \in Nat /\ down' \in [Users -> Seq(ServerFrames)]
  BY <1>1, <1>2, PartsOf DEF ServerOK, NetworkOK
<1>4. \A w \in Users : \A f \in ToSet(down'[w]) : f \in ToSet(down[w])
  BY <1>2
<1> QED BY <1>1, <1>2, <1>3, <1>4, UsersAre, WorkerKeeps

\* Another frame is read.
LEMMA ReceivePlainKeeps ==
    ASSUME IInv, NEW u \in Users, ReceivePlain(u)
    PROVE  IInv'
<1>1. FromPeer(u) /\ Post(u)
  BY DEF ReceivePlain
<1>2. UNCHANGED <<conn, link, unnoticed, down, registry, row, tracked, lastSeq, client, history>>
  BY DEF ReceivePlain
<1>3. tracked' \subseteq Msgs /\ lastSeq' \in Nat /\ down' \in [Users -> Seq(ServerFrames)]
  BY <1>2, PartsOf DEF ServerOK, NetworkOK
<1>4. \A w \in Users : \A f \in ToSet(down'[w]) : f \in ToSet(down[w])
  BY <1>2
<1> QED BY <1>1, <1>2, <1>3, <1>4, WorkerKeeps

\* Retries end.
LEMMA GiveUpKeeps ==
    ASSUME IInv, NEW m \in Msgs, GiveUp(m)
    PROVE  IInv'
<1>1. NetworkOK /\ ServerOK /\ ClientOK /\ HistoryOK
  BY PartsOf
<1>2. /\ tracked' = tracked \ {m} /\ givenUp' = givenUp \cup {m}
      /\ UNCHANGED <<conn, link, unnoticed, up, down, inbox, registry, row, lastSeq,
                     session, nextSeq, unacked, window, acked, refused>>
  BY DEF GiveUp, network, client
<1>3. NetworkOK' /\ ServerOK' /\ ClientOK' /\ HistoryOK'
  BY <1>1, <1>2 DEF NetworkOK, ServerOK, ClientOK, HistoryOK
<1>4. TypeOK'
  BY <1>3, PartsNext
<1> QED BY <1>2, <1>4, QuietStep

-----------------------------------------------------------------------------
(* The main thread. *)

\* An event is taken, and nothing is written to the table.
LEMMA HandlerKeeps ==
    ASSUME IInv, NEW u \in Users, NEW kind, Handle(u, kind), ServerOK', HistoryOK',
           down' \in [Users -> Seq(ServerFrames)],
           \A w \in Users : \A f \in ToSet(down'[w]) : f \in ToSet(down[w]) \/ DownOK(f)',
           UNCHANGED <<conn, link, unnoticed, up, row, client>>
    PROVE  IInv'
<1>1. NetworkOK /\ ServerOK /\ ClientOK
  BY PartsOf
<1>2. NetworkOK' /\ ClientOK'
  BY <1>1 DEF NetworkOK, ClientOK, client
<1>3. TypeOK'
  BY <1>2, PartsNext
<1>4. \A e \in ToSet(inbox') : e \in ToSet(inbox)
  BY <1>1, HandleIs
<1>5. UNCHANGED <<row, window>>
  BY DEF client
<1> QED BY <1>3, <1>4, <1>5, QuietStep

\* One frame is sent.
LEMMA SendOne ==
    ASSUME IInv, NEW u \in Users, NEW c, NEW f \in ServerFrames, Send(u, c, <<f>>)
    PROVE  /\ down' \in [Users -> Seq(ServerFrames)]
           /\ \A w \in Users : w # u => down'[w] = down[w]
           /\ down'[u] = down[u] \o <<f>> \/ (down'[u] = down[u] /\ ~Reaches(u, c))
           /\ \A w \in Users : /\ \A g \in ToSet(down[w]) : g \in ToSet(down'[w])
                               /\ \A g \in ToSet(down'[w]) : g \in ToSet(down[w]) \/ g = f
           /\ Reaches(u, c) => f \in ToSet(down'[u])
<1> DEFINE r == <<f>>
<1>1. r \in Seq(ServerFrames) /\ ToSet(r) = {f} /\ Send(u, c, r) /\ r = <<f>>
  BY OneElement
<1> HIDE DEF r
<1>2. NetworkOK
  BY PartsOf
<1>3. /\ down' \in [Users -> Seq(ServerFrames)]
      /\ \A w \in Users : w # u => down'[w] = down[w]
      /\ down'[u] = down[u] \o r \/ (down'[u] = down[u] /\ ~Reaches(u, c))
      /\ \A w \in Users : /\ \A g \in ToSet(down[w]) : g \in ToSet(down'[w])
                          /\ \A g \in ToSet(down'[w]) : g \in ToSet(down[w]) \/ g \in ToSet(r)
      /\ Reaches(u, c) => \A g \in ToSet(r) : g \in ToSet(down'[u])
  BY <1>1, <1>2, SendIs
<1> QED BY <1>1, <1>3

\* A stranger is answered.
LEMMA HandleStrangerKeeps ==
    ASSUME IInv, NEW u \in Users, NEW kind, HandleStranger(u, kind)
    PROVE  IInv'
<1>1. Handle(u, kind) /\ Send(Current.user, Current.conn, <<Signal("auth_error")>>)
  BY DEF HandleStranger, Answer
<1>2. UNCHANGED <<conn, link, unnoticed, up, registry, row, tracked, lastSeq, client, history>>
  BY DEF HandleStranger
<1>3. ServerOK /\ HistoryOK
  BY PartsOf
<1>4. Current.user \in Users /\ inbox' \in Seq(Events)
  BY <1>1, <1>3, HandleIs
<1>5. PICK f \in ServerFrames : f = Signal("auth_error") /\ f.kind = "auth_error"
  BY SignalsAre
<1>6. /\ down' \in [Users -> Seq(ServerFrames)]
      /\ \A w \in Users : \A g \in ToSet(down'[w]) : g \in ToSet(down[w]) \/ g = f
  BY <1>1, <1>4, <1>5, SendOne
<1>7. DownOK(f)'
  BY <1>5 DEF DownOK, Marks
<1>8. ServerOK' /\ HistoryOK'
  BY <1>2, <1>3, <1>4 DEF ServerOK, HistoryOK, history
<1>9. \A w \in Users : \A g \in ToSet(down'[w]) : g \in ToSet(down[w]) \/ DownOK(g)'
  BY <1>6, <1>7
<1> QED BY <1>1, <1>2, <1>6, <1>8, <1>9, HandlerKeeps

\* History is answered.
LEMMA HandleHistoryKeeps ==
    ASSUME IInv, NEW u \in Users, HandleHistory(u)
    PROVE  IInv'
<1>1. Handle(u, "history") /\ Send(Current.user, Current.conn, <<History(row)>>)
  BY DEF HandleHistory, Answer
<1>2. UNCHANGED <<conn, link, unnoticed, up, registry, row, tracked, lastSeq, client, history>>
  BY DEF HandleHistory
<1>3. ServerOK /\ HistoryOK
  BY PartsOf
<1>4. Current.user \in Users /\ inbox' \in Seq(Events)
  BY <1>1, <1>3, HandleIs
<1>5. PICK f \in ServerFrames : f = History(row) /\ f.kind = "history" /\ f.rows = row
  BY <1>3, SignalsAre DEF ServerOK
<1>6. /\ down' \in [Users -> Seq(ServerFrames)]
      /\ \A w \in Users : \A g \in ToSet(down'[w]) : g \in ToSet(down[w]) \/ g = f
  BY <1>1, <1>4, <1>5, SendOne
<1>7. DownOK(f)'
  BY <1>2, <1>5 DEF DownOK, Kept, Marked, Marks
<1>8. ServerOK' /\ HistoryOK'
  BY <1>2, <1>3, <1>4 DEF ServerOK, HistoryOK, history
<1>9. \A w \in Users : \A g \in ToSet(down'[w]) : g \in ToSet(down[w]) \/ DownOK(g)'
  BY <1>6, <1>7
<1> QED BY <1>1, <1>2, <1>6, <1>8, <1>9, HandlerKeeps

\* A closed connection leaves the registry.
LEMMA HandleClosedKeeps ==
    ASSUME IInv, NEW u \in Users, HandleClosed(u)
    PROVE  IInv'
<1>1. /\ Handle(u, "closed")
      /\ registry' = [registry EXCEPT ![u] = IF IsSignedIn THEN 0 ELSE @]
      /\ UNCHANGED <<conn, link, unnoticed, up, down, row, tracked, lastSeq, client, history>>
  BY DEF HandleClosed, network
<1>2. NetworkOK /\ ServerOK /\ HistoryOK
  BY PartsOf
<1>3. inbox' \in Seq(Events)
  BY <1>1, <1>2, HandleIs
<1>4. registry' \in [Users -> Nat]
  BY <1>1, <1>2 DEF ServerOK
<1>5. ServerOK' /\ HistoryOK' /\ down' \in [Users -> Seq(ServerFrames)]
  BY <1>1, <1>2, <1>3, <1>4 DEF ServerOK, HistoryOK, NetworkOK, history
<1>6. \A w \in Users : \A g \in ToSet(down'[w]) : g \in ToSet(down[w])
  BY <1>1
<1> QED BY <1>1, <1>5, <1>6, HandlerKeeps

\* What a sign-in loads: messages of the table that wait, all of them if the query works.
LEMMA LoadedIs ==
    ASSUME IInv, NEW list \in LoadPending
    PROVE  /\ list \in Seq(Msgs) /\ \A m \in ToSet(list) : m \in Pending /\ Kept(m)
           /\ ~DbFaults => ToSet(list) = Pending
<1>1. IsFiniteSet(Pending) /\ \A m \in Pending : m \in Msgs /\ Kept(m)
  <2>1. \A m \in Pending : m \in Msgs /\ Kept(m)
    BY DEF Pending, Kept
  <2>2. Pending \in SUBSET KeptMsgs
    BY <2>1 DEF KeptMsgs
  <2> QED BY <2>1, <2>2, FS_Subset DEF IInv
<1>2. CASE list \in SetToSeqs(Pending)
  <2>1. list \in Seq(Pending) /\ ToSet(list) = Pending
    BY <1>1, <1>2, ListOf, Zenon
  <2>2. list \in Seq(Msgs)
    BY <1>1, <2>1
  <2> QED BY <1>1, <2>1, <2>2
<1>3. CASE list = <<>> /\ DbFaults
  BY <1>3, EmptySequence
<1> QED BY <1>2, <1>3 DEF LoadPending

\* A sign-in is refused, or answered and followed by what waits.
LEMMA HandleSignInIs ==
    ASSUME IInv, NEW u \in Users, HandleSignIn(u)
    PROVE  \/ /\ registry[u] \notin {0, Current.conn}
              /\ Send(u, Current.conn, <<Signal("auth_error")>>)
              /\ UNCHANGED <<registry, tracked, givenUp>>
           \/ /\ registry[u] \in {0, Current.conn}
              /\ registry' = [registry EXCEPT ![u] = Current.conn]
              /\ \E list \in Seq(Msgs), r \in Seq(ServerFrames) :
                   /\ \A m \in ToSet(list) : Kept(m) /\ Frame("private", m) \in ToSet(r)
                   /\ u # Receiver => list = <<>>
                   /\ u = Receiver /\ ~DbFaults => ToSet(list) = Pending
                   /\ \A f \in ToSet(r) : \/ f.msg \in ToSet(list) /\ f = Frame("private", f.msg)
                                          \/ f = Signal("auth_ok")
                   /\ Send(u, Current.conn, r)
                   /\ TrackAll(Current.conn, ToSet(list))
<1>1. CASE registry[u] \notin {0, Current.conn}
  <2>1. /\ Send(Current.user, Current.conn, <<Signal("auth_error")>>)
        /\ UNCHANGED <<registry, tracked, givenUp>>
    BY <1>1 DEF HandleSignIn, Answer
  <2>2. Current.user = u
    BY DEF HandleSignIn, Handle, Current
  <2> QED BY <1>1, <2>1, <2>2
<1>2. CASE registry[u] \in {0, Current.conn}
  <2>1. registry' = [registry EXCEPT ![u] = Current.conn]
    BY <1>2 DEF HandleSignIn
  <2>2. PICK list \in (IF u = Receiver THEN LoadPending ELSE {<<>>}) :
          /\ Send(u, Current.conn, <<Signal("auth_ok")>>
                                     \o [i \in DOMAIN list |-> Frame("private", list[i])])
          /\ TrackAll(Current.conn, ToSet(list))
    BY <1>2 DEF HandleSignIn
  <2>3. /\ list \in Seq(Msgs) /\ \A m \in ToSet(list) : Kept(m)
        /\ u # Receiver => list = <<>>
        /\ u = Receiver /\ ~DbFaults => ToSet(list) = Pending
    BY LoadedIs, EmptySequence
  <2> DEFINE s == [i \in DOMAIN list |-> Frame("private", list[i])]
             ok == <<Signal("auth_ok")>>
             r == ok \o s
  <2>4. /\ \A f \in ToSet(s) : f.msg \in ToSet(list) /\ f = Frame("private", f.msg)
        /\ \A m \in ToSet(list) : Frame("private", m) \in ToSet(s)
    <3>1. s = [i \in DOMAIN list |-> Frame("private", list[i])]
      OBVIOUS
    <3> HIDE DEF s
    <3> QED BY <2>3, <3>1, FramesOfList, Zenon
  <2>5. s \in Seq(ServerFrames)
    <3>1. \A m \in Msgs : Frame("private", m) \in ServerFrames
      BY FramesAre
    <3> QED BY <2>3, <3>1
  <2>6. ok \in Seq(ServerFrames) /\ ToSet(ok) = {Signal("auth_ok")}
    BY SignalsAre, OneElement
  <2>7. Send(u, Current.conn, r)
    BY <2>2
  <2> HIDE DEF s, ok
  <2>8. r \in Seq(ServerFrames) /\ \A f : f \in ToSet(r) <=> f \in ToSet(ok) \/ f \in ToSet(s)
    BY <2>5, <2>6, ConcatOf, ConcatElements, Zenon
  <2> HIDE DEF r
  <2>9. /\ \A m \in ToSet(list) : Kept(m) /\ Frame("private", m) \in ToSet(r)
        /\ \A f \in ToSet(r) : \/ f.msg \in ToSet(list) /\ f = Frame("private", f.msg)
                               \/ f = Signal("auth_ok")
    BY <2>3, <2>4, <2>6, <2>8
  <2> QED BY <1>2, <2>1, <2>2, <2>3, <2>7, <2>8, <2>9
<1> QED BY <1>1, <1>2

\* A sign-in sends only what is true.
LEMMA HandleSignInKeeps ==
    ASSUME IInv, NEW u \in Users, HandleSignIn(u)
    PROVE  IInv'
<1>1. NetworkOK /\ ServerOK /\ HistoryOK
  BY PartsOf
<1>2. /\ Handle(u, "resume_session")
      /\ UNCHANGED <<conn, link, unnoticed, up, row, lastSeq, client, refused>>
  BY DEF HandleSignIn
<1>3. inbox' \in Seq(Events) /\ Current.conn \in Nat
  BY <1>1, <1>2, HandleIs
<1>4. /\ registry' \in [Users -> Nat] /\ tracked' \subseteq Msgs /\ givenUp' \subseteq Msgs
      /\ down' \in [Users -> Seq(ServerFrames)]
      /\ \A w \in Users : \A g \in ToSet(down'[w]) : g \in ToSet(down[w]) \/ DownOK(g)'
  <2>1. CASE /\ registry[u] \notin {0, Current.conn}
             /\ Send(u, Current.conn, <<Signal("auth_error")>>)
             /\ UNCHANGED <<registry, tracked, givenUp>>
    <3>1. PICK f \in ServerFrames : f = Signal("auth_error") /\ f.kind = "auth_error"
      BY SignalsAre
    <3>2. /\ down' \in [Users -> Seq(ServerFrames)]
          /\ \A w \in Users : \A g \in ToSet(down'[w]) : g \in ToSet(down[w]) \/ g = f
      BY <2>1, <3>1, SendOne
    <3>3. DownOK(f)'
      BY <3>1 DEF DownOK, Marks
    <3> QED BY <1>1, <2>1, <3>2, <3>3 DEF ServerOK, HistoryOK
  <2>2. CASE /\ registry' = [registry EXCEPT ![u] = Current.conn]
             /\ \E list \in Seq(Msgs), r \in Seq(ServerFrames) :
                   /\ \A m \in ToSet(list) : Kept(m) /\ Frame("private", m) \in ToSet(r)
                   /\ \A f \in ToSet(r) : \/ f.msg \in ToSet(list) /\ f = Frame("private", f.msg)
                                          \/ f = Signal("auth_ok")
                   /\ Send(u, Current.conn, r)
                   /\ TrackAll(Current.conn, ToSet(list))
    <3>1. PICK list \in Seq(Msgs), r \in Seq(ServerFrames) :
                   /\ \A m \in ToSet(list) : Kept(m)
                   /\ \A f \in ToSet(r) : \/ f.msg \in ToSet(list) /\ f = Frame("private", f.msg)
                                          \/ f = Signal("auth_ok")
                   /\ Send(u, Current.conn, r)
                   /\ TrackAll(Current.conn, ToSet(list))
      BY <2>2
    <3>2. /\ down' \in [Users -> Seq(ServerFrames)]
          /\ \A w \in Users : \A g \in ToSet(down'[w]) : g \in ToSet(down[w]) \/ g \in ToSet(r)
      BY <1>1, <3>1, SendIs
    <3>3. \A m \in ToSet(list) : m \in Msgs
      BY ElementsOf
    <3>4. tracked' \subseteq Msgs /\ givenUp' \subseteq Msgs
      BY <1>1, <3>1, <3>3 DEF TrackAll, ServerOK, HistoryOK
    <3>5. registry' \in [Users -> Nat]
      BY <1>1, <1>3, <2>2 DEF ServerOK
    <3>6. \A f \in ToSet(r) : DownOK(f)'
      <4> SUFFICES ASSUME NEW f \in ToSet(r) PROVE DownOK(f)'
        OBVIOUS
      <4>1. CASE f.msg \in ToSet(list) /\ f = Frame("private", f.msg)
        <5>1. f.kind = "private" /\ Kept(f.msg)
          BY <3>1, <3>3, <4>1, FramesAre
        <5> QED BY <1>2, <5>1 DEF DownOK, Kept, Marks
      <4>2. CASE f = Signal("auth_ok")
        <5>1. f.kind = "auth_ok"
          BY <4>2, SignalsAre
        <5> QED BY <5>1 DEF DownOK, Marks
      <4> QED BY <3>1, <4>1, <4>2
    <3> QED BY <3>2, <3>4, <3>5, <3>6
  <2> QED BY <2>1, <2>2, HandleSignInIs
<1>5. ServerOK' /\ HistoryOK'
  BY <1>1, <1>2, <1>3, <1>4 DEF ServerOK, HistoryOK
<1> QED BY <1>2, <1>4, <1>5, HandlerKeeps

\* A step that adds to the table's marks: rows are never removed, a mark that is new is of
\* a message the recipient shows, and at most one message is new.
LEMMA TableStep ==
    ASSUME IInv, TypeOK', window' = window,
           \A m \in Msgs : Kept(m) => Kept(m)',
           \A m \in Msgs : Marked(m) => Marked(m)',
           \A m \in Msgs : Marked(m)' => Marked(m) \/ Known(m),
           NEW x, \A m \in Msgs : Kept(m)' => Kept(m) \/ m = x,
           \A u \in Users : \A f \in ToSet(up'[u]) : f \in ToSet(up[u]) \/ UpOK(f)',
           \A u \in Users : \A f \in ToSet(down'[u]) : f \in ToSet(down[u]) \/ DownOK(f)',
           \A e \in ToSet(inbox') : e \in ToSet(inbox) \/ UpOK(e.frame)'
    PROVE  IInv'
<1>1. \A m \in Msgs : Known(m)' <=> Known(m)
  BY DEF Known
<1>2. Grows
  BY <1>1 DEF Grows
<1>3. FramesTrue'
  BY <1>2, FramesNext
<1>4. IsFiniteSet(KeptMsgs')
  <2>1. IsFiniteSet(KeptMsgs \cup {x})
    BY FS_AddElement DEF IInv
  <2>2. KeptMsgs' \in SUBSET (KeptMsgs \cup {x})
    BY DEF KeptMsgs
  <2> QED BY <2>1, <2>2, FS_Subset
<1>5. ASSUME NEW m \in Msgs
      PROVE  /\ Known(m)' => Kept(m)'
             /\ Marked(m)' => Known(m)'
             /\ window'[Sender][m] \in Marks => Known(m)'
             /\ window'[Sender][m] = "delivered" => Marked(m)'
  BY <1>1 DEF IInv, WindowsTrue
<1>6. WindowsTrue'
  BY <1>5 DEF WindowsTrue
<1> QED BY <1>3, <1>4, <1>6 DEF IInv

\* What the table's functions do to the row of a message.
LEMMA RowsAre ==
    ASSUME ServerOK, NEW m \in Msgs
    PROVE  /\ Stored(m) \in [Msgs -> RowStates] /\ Delivered(m) \in [Msgs -> RowStates]
           /\ Read(m) \in [Msgs -> RowStates]
           /\ \A x \in Msgs :
                /\ Stored(m)[x] = IF x = m /\ row[x] = "none" THEN "pending" ELSE row[x]
                /\ Delivered(m)[x] = IF x = m /\ row[x] = "pending" THEN "delivered" ELSE row[x]
                /\ Read(m)[x] = IF x = m /\ row[x] # "none" THEN "read" ELSE row[x]
<1>1. row \in [Msgs -> RowStates]
  BY DEF ServerOK
<1>2. /\ Stored(m) \in [Msgs -> RowStates]
      /\ \A x \in Msgs : Stored(m)[x] = IF x = m /\ row[x] = "none" THEN "pending" ELSE row[x]
  BY <1>1 DEF Stored, RowStates
<1>3. /\ Delivered(m) \in [Msgs -> RowStates]
      /\ \A x \in Msgs : Delivered(m)[x] = IF x = m /\ row[x] = "pending" THEN "delivered" ELSE row[x]
  BY <1>1 DEF Delivered, RowStates
<1>4. /\ Read(m) \in [Msgs -> RowStates]
      /\ \A x \in Msgs : Read(m)[x] = IF x = m /\ row[x] # "none" THEN "read" ELSE row[x]
  BY <1>1 DEF Read, RowStates
<1> QED BY <1>2, <1>3, <1>4

\* A message is refused, or stored and answered as queued or sent on.
LEMMA HandlePrivateIs ==
    ASSUME IInv, HandlePrivate
    PROVE  LET m == Current.frame.msg
           IN  /\ Handle(Sender, "private") /\ m \in Msgs /\ Current \in ToSet(inbox)
               /\ UNCHANGED <<conn, link, unnoticed, up, registry, lastSeq, client>>
               /\ \/ /\ refused' = refused \cup {m} /\ UNCHANGED <<row, tracked, givenUp>>
                     /\ Send(Sender, Current.conn, <<Signal("error")>>)
                  \/ /\ row' = Stored(m) /\ refused' = refused /\ registry[Receiver] = 0
                     /\ UNCHANGED <<tracked, givenUp>>
                     /\ Send(Sender, Current.conn, <<Frame("queued", m)>>)
                  \/ /\ row' = Stored(m) /\ refused' = refused /\ registry[Receiver] # 0
                     /\ TrackAll(registry[Receiver], {m})
                     /\ Send(Receiver, registry[Receiver], <<Frame("private", m)>>)
<1>1. Handle(Sender, "private") /\ ServerOK
  BY PartsOf DEF HandlePrivate
<1>2. Current.user = Sender /\ Current.frame.msg \in Msgs /\ Current \in ToSet(inbox)
  BY <1>1, HandleIs, ClientFrameIs
<1> QED BY <1>1, <1>2 DEF HandlePrivate, Answer, Tell

\* A message that arrives at the server leaves everything true.
LEMMA HandlePrivateKeeps ==
    ASSUME IInv, HandlePrivate
    PROVE  IInv'
<1>1. NetworkOK /\ ServerOK /\ ClientOK /\ HistoryOK /\ Sender \in Users /\ Receiver \in Users
  BY PartsOf, UsersAre
<1>2. PICK m : m = Current.frame.msg
  OBVIOUS
<1>3. /\ Handle(Sender, "private") /\ m \in Msgs
      /\ UNCHANGED <<conn, link, unnoticed, up, registry, lastSeq, client>>
  BY <1>2, HandlePrivateIs
<1>4. \/ /\ refused' = refused \cup {m} /\ UNCHANGED <<row, tracked, givenUp>>
         /\ Send(Sender, Current.conn, <<Signal("error")>>)
      \/ /\ row' = Stored(m) /\ refused' = refused
         /\ UNCHANGED <<tracked, givenUp>>
         /\ Send(Sender, Current.conn, <<Frame("queued", m)>>)
      \/ /\ row' = Stored(m) /\ refused' = refused
         /\ TrackAll(registry[Receiver], {m})
         /\ Send(Receiver, registry[Receiver], <<Frame("private", m)>>)
  BY <1>2, HandlePrivateIs
<1>5. /\ inbox' \in Seq(Events) /\ \A e \in ToSet(inbox') : e \in ToSet(inbox)
  BY <1>1, <1>3, HandleIs
<1>6. /\ row' \in [Msgs -> RowStates]
      /\ \A x \in Msgs : (Kept(x) => row'[x] = row[x]) /\ (Kept(x)' => Kept(x) \/ x = m)
      /\ \A x \in Msgs : Marked(x)' => Marked(x)
  BY <1>1, <1>3, <1>4, RowsAre DEF ServerOK, Kept, Marked, Marks
<1>7. /\ tracked' \subseteq Msgs /\ givenUp' \subseteq Msgs /\ refused' \subseteq Msgs
  BY <1>1, <1>3, <1>4 DEF TrackAll, ServerOK, HistoryOK
<1>8. /\ down' \in [Users -> Seq(ServerFrames)]
      /\ \A w \in Users : \A g \in ToSet(down'[w]) : g \in ToSet(down[w]) \/ DownOK(g)'
  <2>1. CASE Send(Sender, Current.conn, <<Signal("error")>>)
    <3>1. PICK f \in ServerFrames : f = Signal("error") /\ f.kind = "error"
      BY SignalsAre
    <3>2. DownOK(f)'
      BY <3>1 DEF DownOK, Marks
    <3>3. Send(Sender, Current.conn, <<f>>)
      BY <2>1, <3>1
    <3>4. /\ down' \in [Users -> Seq(ServerFrames)]
          /\ \A w \in Users : \A g \in ToSet(down'[w]) : g \in ToSet(down[w]) \/ g = f
      BY <1>1, <3>3, SendOne
    <3> QED BY <3>2, <3>4
  <2>2. CASE Send(Sender, Current.conn, <<Frame("queued", m)>>)
    <3>1. PICK f \in ServerFrames : f = Frame("queued", m) /\ f.kind = "queued"
      BY <1>3, FramesAre
    <3>2. DownOK(f)'
      BY <3>1 DEF DownOK, Marks
    <3>3. Send(Sender, Current.conn, <<f>>)
      BY <2>2, <3>1
    <3>4. /\ down' \in [Users -> Seq(ServerFrames)]
          /\ \A w \in Users : \A g \in ToSet(down'[w]) : g \in ToSet(down[w]) \/ g = f
      BY <1>1, <3>3, SendOne
    <3> QED BY <3>2, <3>4
  <2>3. CASE row' = Stored(m) /\ Send(Receiver, registry[Receiver], <<Frame("private", m)>>)
    <3>1. PICK f \in ServerFrames : f = Frame("private", m) /\ f.kind = "private" /\ f.msg = m
      BY <1>3, FramesAre
    <3>2. row'[m] # "none"
      BY <1>1, <1>3, <2>3, RowsAre
    <3>3. DownOK(f)'
      BY <3>1, <3>2 DEF DownOK, Marks, Kept
    <3>4. Send(Receiver, registry[Receiver], <<f>>)
      BY <2>3, <3>1
    <3>5. /\ down' \in [Users -> Seq(ServerFrames)]
          /\ \A w \in Users : \A g \in ToSet(down'[w]) : g \in ToSet(down[w]) \/ g = f
      BY <1>1, <3>4, SendOne
    <3> QED BY <3>3, <3>5
  <2> QED BY <1>4, <2>1, <2>2, <2>3
<1>9. NetworkOK' /\ ServerOK' /\ HistoryOK'
  BY <1>1, <1>3, <1>5, <1>6, <1>7, <1>8 DEF NetworkOK, ServerOK, HistoryOK
<1>10. ClientOK'
  BY <1>1, <1>3 DEF ClientOK, client
<1>11. TypeOK'
  BY <1>9, <1>10, PartsNext
<1>12. \A x \in Msgs : /\ Kept(x) => Kept(x)'
                       /\ Marked(x) => Marked(x)'
  BY <1>6 DEF Kept, Marked, Marks
<1>13. window' = window /\ up' = up
  BY <1>3 DEF client
<1> QED BY <1>5, <1>6, <1>8, <1>11, <1>12, <1>13, TableStep

\* An acknowledgement marks the message, and the sender is told.
LEMMA HandleAcknowledgedIs ==
    ASSUME IInv, HandleAcknowledged
    PROVE  LET m == Current.frame.msg
           IN  /\ Handle(Receiver, "ack") /\ m \in Msgs /\ Known(m)
               /\ Current \in ToSet(inbox) /\ Current.frame = Frame("ack", m)
               /\ UNCHANGED <<conn, link, unnoticed, up, registry, tracked, lastSeq, client, history>>
               /\ \/ row' = Delivered(m) /\ Send(Sender, registry[Sender], <<Frame("delivered", m)>>)
                  \/ DbFaults /\ UNCHANGED <<row, down>>
<1>1. Handle(Receiver, "ack") /\ ServerOK
  BY PartsOf DEF HandleAcknowledged
<1>2. /\ Current \in ToSet(inbox) /\ Current.frame \in ClientFrames /\ Current.frame.kind = "ack"
  BY <1>1, HandleIs
<1>3. Current.frame.msg \in Msgs /\ Current.frame = Frame("ack", Current.frame.msg)
  BY <1>2, ClientFrameIs
<1>4. Known(Current.frame.msg)
  BY <1>2 DEF IInv, FramesTrue, UpOK
<1> QED BY <1>1, <1>2, <1>3, <1>4 DEF HandleAcknowledged, Tell

\* A read receipt marks the message, and the sender is told.
LEMMA HandleReadIs ==
    ASSUME IInv, HandleRead
    PROVE  LET m == Current.frame.msg
           IN  /\ Handle(Receiver, "read") /\ m \in Msgs /\ Known(m)
               /\ UNCHANGED <<conn, link, unnoticed, up, registry, tracked, lastSeq, client, history>>
               /\ \/ UNCHANGED <<row, down>>
                  \/ /\ row' = Read(m) \/ (DbFaults /\ row' = row)
                     /\ Send(Sender, registry[Sender], <<Frame("read", m)>>)
<1>1. Handle(Receiver, "read") /\ ServerOK
  BY PartsOf DEF HandleRead
<1>2. /\ Current \in ToSet(inbox) /\ Current.frame \in ClientFrames /\ Current.frame.kind = "read"
  BY <1>1, HandleIs
<1>3. Current.frame.msg \in Msgs
  BY <1>2, ClientFrameIs
<1>4. Known(Current.frame.msg)
  BY <1>2 DEF IInv, FramesTrue, UpOK
<1> QED BY <1>1, <1>3, <1>4 DEF HandleRead, Tell

\* A mark is put on a message the recipient shows.
LEMMA MarkKeeps ==
    ASSUME IInv, NEW m \in Msgs, Known(m), NEW kind, Handle(Receiver, kind),
           UNCHANGED <<conn, link, unnoticed, up, registry, tracked, lastSeq, client, history>>,
           row' = Delivered(m) \/ row' = Read(m) \/ row' = row,
           \/ down' = down
           \/ row' = Delivered(m) /\ Send(Sender, registry[Sender], <<Frame("delivered", m)>>)
           \/ Send(Sender, registry[Sender], <<Frame("read", m)>>)
    PROVE  IInv'
<1>1. NetworkOK /\ ServerOK /\ ClientOK /\ HistoryOK /\ Sender \in Users /\ Receiver \in Users
  BY PartsOf, UsersAre
<1>2. /\ inbox' \in Seq(Events) /\ \A e \in ToSet(inbox') : e \in ToSet(inbox)
  BY <1>1, HandleIs
<1>3. window' = window
  BY DEF client
<1>4. /\ row' \in [Msgs -> RowStates]
      /\ \A x \in Msgs : /\ Kept(x) <=> Kept(x)'
                         /\ Marked(x) => Marked(x)'
                         /\ Marked(x)' => Marked(x) \/ x = m
      /\ row' = Delivered(m) => Marked(m)'
  <2>1. Kept(m)
    BY DEF IInv, WindowsTrue
  <2>2. row[m] \in RowStates
    BY <1>1 DEF ServerOK
  <2>3. CASE row' = Delivered(m)
    BY <1>1, <2>1, <2>2, <2>3, RowsAre DEF Kept, Marked, Marks, RowStates
  <2>4. CASE row' = Read(m) /\ row' # Delivered(m)
    BY <1>1, <2>1, <2>4, RowsAre DEF Kept, Marked, Marks
  <2>5. CASE row' = row /\ row' # Delivered(m)
    BY <1>1, <2>5 DEF ServerOK, Kept, Marked
  <2> QED BY <2>3, <2>4, <2>5
<1>5. /\ down' \in [Users -> Seq(ServerFrames)]
      /\ \A w \in Users : \A g \in ToSet(down'[w]) : g \in ToSet(down[w]) \/ DownOK(g)'
  <2>1. CASE down' = down
    BY <1>1, <2>1 DEF NetworkOK
  <2>2. ASSUME NEW f \in ServerFrames, f.kind \in Marks, f.msg = m,
               f.kind = "delivered" => row' = Delivered(m), Send(Sender, registry[Sender], <<f>>)
        PROVE  /\ down' \in [Users -> Seq(ServerFrames)]
               /\ \A w \in Users : \A g \in ToSet(down'[w]) : g \in ToSet(down[w]) \/ DownOK(g)'
    <3>1. DownOK(f)'
      BY <1>3, <1>4, <2>2 DEF DownOK, Marks, Known
    <3>2. /\ down' \in [Users -> Seq(ServerFrames)]
          /\ \A w \in Users : \A g \in ToSet(down'[w]) : g \in ToSet(down[w]) \/ g = f
      BY <1>1, <2>2, SendOne
    <3> QED BY <3>1, <3>2
  <2>3. CASE row' = Delivered(m) /\ Send(Sender, registry[Sender], <<Frame("delivered", m)>>)
    <3>1. PICK f \in ServerFrames : f = Frame("delivered", m) /\ f.kind = "delivered" /\ f.msg = m
      BY FramesAre
    <3> QED BY <2>2, <2>3, <3>1 DEF Marks
  <2>4. CASE Send(Sender, registry[Sender], <<Frame("read", m)>>)
    <3>1. PICK f \in ServerFrames : f = Frame("read", m) /\ f.kind = "read" /\ f.msg = m
      BY FramesAre
    <3> QED BY <2>2, <2>4, <3>1 DEF Marks
  <2> QED BY <2>1, <2>3, <2>4
<1>6. NetworkOK' /\ ServerOK' /\ HistoryOK'
  BY <1>1, <1>2, <1>4, <1>5 DEF NetworkOK, ServerOK, HistoryOK, history
<1>7. ClientOK'
  BY <1>1 DEF ClientOK, client
<1>8. TypeOK'
  BY <1>6, <1>7, PartsNext
<1>9. \A x \in Msgs : /\ Kept(x) => Kept(x)'
                      /\ Marked(x) => Marked(x)'
                      /\ Marked(x)' => Marked(x) \/ Known(x)
                      /\ Kept(x)' => Kept(x) \/ x = m
  BY <1>4
<1> QED BY <1>2, <1>3, <1>5, <1>8, <1>9, TableStep

\* The handlers of acknowledgements and read receipts.
LEMMA MarksKeep ==
    ASSUME IInv, HandleAcknowledged \/ HandleRead
    PROVE  IInv'
<1>1. PICK m : m = Current.frame.msg
  OBVIOUS
<1>2. CASE HandleAcknowledged
  <2>1. /\ Handle(Receiver, "ack") /\ m \in Msgs /\ Known(m)
        /\ UNCHANGED <<conn, link, unnoticed, up, registry, tracked, lastSeq, client, history>>
        /\ \/ row' = Delivered(m) /\ Send(Sender, registry[Sender], <<Frame("delivered", m)>>)
           \/ DbFaults /\ UNCHANGED <<row, down>>
    BY <1>1, <1>2, HandleAcknowledgedIs
  <2> QED BY <2>1, MarkKeeps
<1>3. CASE HandleRead
  <2>1. /\ Handle(Receiver, "read") /\ m \in Msgs /\ Known(m)
        /\ UNCHANGED <<conn, link, unnoticed, up, registry, tracked, lastSeq, client, history>>
        /\ \/ UNCHANGED <<row, down>>
           \/ /\ row' = Read(m) \/ (DbFaults /\ row' = row)
              /\ Send(Sender, registry[Sender], <<Frame("read", m)>>)
    BY <1>1, <1>3, HandleReadIs
  <2> QED BY <2>1, MarkKeeps
<1> QED BY <1>2, <1>3

-----------------------------------------------------------------------------
(* The theorems that hold whatever fails. *)

\* At the start nothing is stored, shown or on its way.
LEMMA InitIInv ==
    ASSUME Init
    PROVE  IInv
<1>1. /\ <<>> \in Seq(ClientFrames) /\ <<>> \in Seq(ServerFrames) /\ <<>> \in Seq(Events)
      /\ ToSet(<<>>) = {}
  BY EmptySequence
<1>2. NetworkOK /\ HistoryOK
  BY <1>1 DEF Init, NetworkOK, HistoryOK
<1>3. ServerOK
  BY <1>1 DEF Init, ServerOK, RowStates
<1>4. ClientOK
  BY DEF Init, ClientOK
<1>5. TypeOK
  BY <1>2, <1>3, <1>4, TypeOKParts
<1>6. IsFiniteSet(KeptMsgs)
  <2>1. KeptMsgs = {}
    BY DEF Init, KeptMsgs, Kept
  <2> QED BY <2>1, FS_EmptySet
<1>7. WindowsTrue
  BY UsersAre DEF Init, WindowsTrue, Kept, Known, Marked, Marks
<1>8. FramesTrue
  BY <1>1 DEF Init, FramesTrue
<1> QED BY <1>5, <1>6, <1>7, <1>8 DEF IInv

\* No step of a client, of the network, of a worker or of the main thread breaks it.
LEMMA NextIInv ==
    ASSUME IInv, [Next]_vars
    PROVE  IInv'
<1>1. CASE ServerStep
  <2>1. CASE HandlePrivate \/ HandleAcknowledged \/ HandleRead
    BY <2>1, HandlePrivateKeeps, MarksKeep
  <2>2. ASSUME NEW u \in Users, HandleSignIn(u) \/ HandleHistory(u) \/ HandleClosed(u)
        PROVE  IInv'
    BY <2>2, HandleSignInKeeps, HandleHistoryKeeps, HandleClosedKeeps
  <2>3. CASE HandleStranger(Sender, "private")
    BY <2>3, UsersAre, HandleStrangerKeeps
  <2> QED BY <1>1, <2>1, <2>2, <2>3 DEF ServerStep
<1>2. ASSUME NEW u \in Users, WorkerStep(u)
      PROVE  IInv'
  BY <1>2, ReceivePrivateKeeps, ReceiveAckKeeps, ReceivePlainKeeps DEF WorkerStep
<1>3. ASSUME NEW u \in Users, ClientStep(u)
      PROVE  IInv'
  BY <1>3, TakeAuthKeeps, TakeHistoryKeeps, TakeAckKeeps, TakeStatusKeeps, TakePrivateKeeps
     DEF ClientStep
<1>4. ASSUME NEW e \in unnoticed, NoticeEnd(e)
      PROVE  IInv'
  BY <1>4, NoticeEndKeeps
<1>5. CASE UserStep
  <2>1. ASSUME NEW u \in Users, Connect(u) \/ LinkLost(u) \/ AskToSignIn(u) \/ RequestHistory(u)
        PROVE  IInv'
    BY <2>1, ConnectKeeps, LinkLostKeeps, AskToSignInKeeps, RequestHistoryKeeps
  <2>2. ASSUME NEW m \in Msgs, SendMessage(m) \/ GiveUp(m)
        PROVE  IInv'
    BY <2>2, SendMessageKeeps, GiveUpKeeps
  <2>3. ASSUME NEW p \in unacked, Retry(p)
        PROVE  IInv'
    BY <2>3, RetryKeeps
  <2>4. CASE Reconnect \/ MarkRead \/ Restart
    BY <2>4, ReconnectKeeps, MarkReadKeeps, RestartKeeps
  <2> QED BY <1>5, <2>1, <2>2, <2>3, <2>4 DEF UserStep
<1>6. CASE UNCHANGED vars
  <2>1. UNCHANGED <<conn, link, unnoticed, up, down, inbox, registry, row, tracked, lastSeq,
                    session, nextSeq, unacked, window, acked, refused, givenUp>>
    BY <1>6 DEF vars, network, server, client, history
  <2>2. TypeOK'
    BY <2>1 DEF IInv, TypeOK
  <2> QED BY <2>1, <2>2, QuietStep
<1> QED BY <1>1, <1>2, <1>3, <1>4, <1>5, <1>6 DEF Next

\* Every variable keeps its type, the frames written by the handlers included: in
\* particular the lists loadPendingPrivateMessages and markCurrentPrivateMessagesRead
\* make are finite, since only finitely many messages were ever stored.
THEOREM TypeCorrect == Spec => []TypeOK
<1>1. IInv => TypeOK
  BY DEF IInv
<1> QED BY <1>1, InitIInv, NextIInv, PTL DEF Spec

\* A message marked delivered or read in the table messages, or shown so to its sender,
\* is in the recipient's window, whatever is lost, repeated, restarted or fails in the
\* database, as long as the recipient opens his connections by connectToServer
\* (onTrackedPacketAcknowledged, handleReadPacket, onHistoryReceived).
THEOREM DeliveredIsEarned == Spec => []StatusIsEarned
<1>1. IInv => StatusIsEarned
  BY DEF IInv, StatusIsEarned, WindowsTrue, Kept, Known, Marked, Marks
<1> QED BY <1>1, InitIInv, NextIInv, PTL DEF Spec

\* What the sender was told to be delivered is marked so in the table, whatever is lost,
\* repeated, restarted or fails in the database (markMessageDelivered and its caller).
THEOREM TableIsFirst == Spec => []TableKnowsFirst
<1>1. IInv => TableKnowsFirst
  BY DEF IInv, TableKnowsFirst, WindowsTrue, Marked, Marks
<1> QED BY <1>1, InitIInv, NextIInv, PTL DEF Spec

-----------------------------------------------------------------------------
(* Connections are numbered in order. *)

\* No connection is registered, closed or answered that has not been opened.
CInv ==
    /\ \A u \in Users : registry[u] <= conn[u]
    /\ \A u \in Users : link[u] => conn[u] > 0
    /\ \A e \in ToSet(inbox) : e.conn <= conn[e.user]
    /\ \A e \in unnoticed : e.conn <= conn[e.user]

\* What the elements of the queues are.
LEMMA QueuedIs ==
    ASSUME IInv
    PROVE  /\ \A u \in Users : conn[u] \in Nat /\ registry[u] \in Nat
           /\ \A e \in ToSet(inbox) : e.user \in Users /\ e.conn \in Nat /\ e.frame \in ClientFrames
           /\ \A e \in unnoticed : e.user \in Users /\ e.conn \in Nat
           /\ \A u \in Users : \A f \in ToSet(up[u]) : f \in ClientFrames
           /\ \A u \in Users : \A f \in ToSet(down[u]) : f \in ServerFrames
<1>1. NetworkOK /\ ServerOK
  BY PartsOf
<1>2. \A u \in Users : conn[u] \in Nat /\ registry[u] \in Nat
  BY <1>1 DEF NetworkOK, ServerOK
<1>3. \A e \in ToSet(inbox) : e \in Events
  BY <1>1, ElementsOf DEF ServerOK
<1>4. \A e \in ToSet(inbox) : e.user \in Users /\ e.conn \in Nat /\ e.frame \in ClientFrames
  BY <1>3 DEF Events
<1>5. \A e \in unnoticed : e.user \in Users /\ e.conn \in Nat
  BY <1>1 DEF NetworkOK
<1>6. ASSUME NEW u \in Users
      PROVE  /\ \A f \in ToSet(up[u]) : f \in ClientFrames
             /\ \A f \in ToSet(down[u]) : f \in ServerFrames
  <2>1. up[u] \in Seq(ClientFrames) /\ down[u] \in Seq(ServerFrames)
    BY <1>1 DEF NetworkOK
  <2> QED BY <2>1, ElementsOf
<1> QED BY <1>2, <1>4, <1>5, <1>6

\* A step that opens and ends no connection.
LEMMA SteadyConns ==
    ASSUME CInv, UNCHANGED <<conn, link>>,
           \A e \in unnoticed' : e \in unnoticed,
           \A u \in Users : registry'[u] <= conn[u],
           \A e \in ToSet(inbox') : e \in ToSet(inbox) \/ e.conn <= conn[e.user]
    PROVE  CInv'
BY DEF CInv

\* A connection that is opened has the next number.
LEMMA OpenedConns ==
    ASSUME IInv, CInv, NEW u \in Users, NewConnection(u)
    PROVE  CInv'
<1>1. /\ conn'[u] = conn[u] + 1 /\ \A w \in Users : w # u => conn'[w] = conn[w] /\ link'[w] = link[w]
      /\ UNCHANGED <<unnoticed, inbox, registry>>
  BY NewConnectionIs
<1>2. \A w \in Users : conn[w] \in Nat /\ conn'[w] \in Nat /\ conn[w] <= conn'[w] /\ registry[w] \in Nat
  BY <1>1, QueuedIs
<1>3. \A w \in Users : registry'[w] <= conn'[w]
  BY <1>1, <1>2 DEF CInv
<1>4. \A w \in Users : link'[w] => conn'[w] > 0
  BY <1>1, <1>2 DEF CInv
<1>5. \A e \in ToSet(inbox') : e.conn <= conn'[e.user]
  <2> SUFFICES ASSUME NEW e \in ToSet(inbox) PROVE e.conn <= conn'[e.user]
    BY <1>1
  <2>1. e.user \in Users /\ e.conn \in Nat /\ e.conn <= conn[e.user]
    BY QueuedIs DEF CInv
  <2> QED BY <1>2, <2>1
<1>6. \A e \in unnoticed' : e.conn <= conn'[e.user]
  <2> SUFFICES ASSUME NEW e \in unnoticed PROVE e.conn <= conn'[e.user]
    BY <1>1
  <2>1. e.user \in Users /\ e.conn \in Nat /\ e.conn <= conn[e.user]
    BY QueuedIs DEF CInv
  <2> QED BY <1>2, <2>1
<1> QED BY <1>3, <1>4, <1>5, <1>6 DEF CInv

\* What a worker posts is of the newest connection.
LEMMA PostedConns ==
    ASSUME IInv, CInv, NEW u \in Users, FromPeer(u), Post(u) \/ inbox' = inbox,
           UNCHANGED <<conn, link, unnoticed, registry>>
    PROVE  /\ CInv'
           /\ \A e \in ToSet(inbox) : e \in ToSet(inbox')
           /\ Post(u) => \A z : z \in ToSet(inbox') <=> z \in ToSet(inbox) \/ z = Event(u, Head(up[u]))
<1>1. NetworkOK /\ ServerOK
  BY PartsOf
<1>2. PICK f \in ClientFrames : f = Head(up[u])
  BY <1>1, FromPeerIs
<1>3. PICK e \in Events : e = Event(u, f) /\ e.user = u /\ e.conn = conn[u]
  BY <1>1, EventIs
<1>4. CASE Post(u)
  <2>1. inbox' = Append(inbox, e)
    BY <1>2, <1>3, <1>4 DEF Post
  <2>2. \A z : z \in ToSet(inbox') <=> z \in ToSet(inbox) \/ z = e
    BY <1>1, <2>1, PostIs, Zenon
  <2>3. e.conn <= conn[e.user]
    BY <1>3, QueuedIs
  <2>4. CInv'
    BY <2>2, <2>3, SteadyConns DEF CInv
  <2> QED BY <1>2, <1>3, <2>2, <2>4
<1>5. CASE inbox' = inbox /\ ~Post(u)
  BY <1>5, SteadyConns DEF CInv
<1> QED BY <1>4, <1>5

\* An event that is taken is of a connection that was opened.
LEMMA HandledConns ==
    ASSUME IInv, CInv, NEW u \in Users, NEW kind, Handle(u, kind),
           UNCHANGED <<conn, link, unnoticed>>,
           \A w \in Users : registry'[w] \in {registry[w], 0} \/ (w = u /\ registry'[w] = Current.conn)
    PROVE  CInv'
<1>1. /\ \A e \in ToSet(inbox') : e \in ToSet(inbox)
      /\ Current \in ToSet(inbox) /\ Current.user = u
  BY PartsOf, HandleIs
<1>2. Current.conn <= conn[u]
  BY <1>1 DEF CInv
<1>3. \A w \in Users : registry'[w] <= conn[w]
  BY <1>2, QueuedIs DEF CInv
<1> QED BY <1>1, <1>3, SteadyConns

\* Connections stay in order.
LEMMA NextConns ==
    ASSUME IInv, CInv, [Next]_vars
    PROVE  CInv'
<1>0. Sender \in Users /\ Receiver \in Users
  BY UsersAre
<1>1. CASE ServerStep
  <2>1. CASE HandlePrivate
    BY <1>0, <2>1, HandledConns DEF HandlePrivate
  <2>2. CASE HandleAcknowledged \/ HandleRead
    BY <1>0, <2>2, HandledConns DEF HandleAcknowledged, HandleRead
  <2>3. ASSUME NEW u \in Users, HandleSignIn(u)
        PROVE  CInv'
    <3>1. \A w \in Users : registry'[w] \in {registry[w], 0} \/ (w = u /\ registry'[w] = Current.conn)
      BY <2>3, PartsOf DEF HandleSignIn, ServerOK
    <3> QED BY <2>3, <3>1, HandledConns DEF HandleSignIn
  <2>4. ASSUME NEW u \in Users, HandleHistory(u)
        PROVE  CInv'
    BY <2>4, HandledConns DEF HandleHistory
  <2>5. ASSUME NEW u \in Users, HandleClosed(u)
        PROVE  CInv'
    <3>1. \A w \in Users : registry'[w] \in {registry[w], 0}
      BY <2>5, PartsOf DEF HandleClosed, ServerOK
    <3> QED BY <2>5, <3>1, HandledConns DEF HandleClosed, network
  <2>6. CASE HandleStranger(Sender, "private")
    BY <1>0, <2>6, HandledConns DEF HandleStranger
  <2> QED BY <1>1, <2>1, <2>2, <2>3, <2>4, <2>5, <2>6 DEF ServerStep
<1>2. ASSUME NEW u \in Users, WorkerStep(u)
      PROVE  CInv'
  <2>1. CASE ReceivePrivate
    BY <1>0, <2>1, PostedConns DEF ReceivePrivate
  <2>2. CASE ReceiveAck
    BY <1>0, <2>2, PostedConns DEF ReceiveAck
  <2>3. CASE ReceivePlain(u)
    BY <2>3, PostedConns DEF ReceivePlain
  <2> QED BY <1>2, <2>1, <2>2, <2>3 DEF WorkerStep
<1>3. CASE UNCHANGED <<conn, link, unnoticed, inbox, registry>>
  BY <1>3 DEF CInv
<1>4. ASSUME NEW e \in unnoticed, NoticeEnd(e)
      PROVE  CInv'
  <2> PICK x : x = [user |-> e.user, conn |-> e.conn, frame |-> Signal("closed")]
    OBVIOUS
  <2>1. \A z : z \in ToSet(inbox') <=> z \in ToSet(inbox) \/ z = x
    BY <1>4, NoticeEndKeeps
  <2>2. x.conn <= conn[x.user]
    BY DEF CInv
  <2> QED BY <1>4, <2>1, <2>2, SteadyConns DEF NoticeEnd, CInv
<1>5. CASE \E u \in Users : Connect(u)
  BY <1>5, OpenedConns DEF Connect
<1>6. CASE Reconnect
  BY <1>0, <1>6, OpenedConns DEF Reconnect
<1>7. ASSUME NEW u \in Users, LinkLost(u)
      PROVE  CInv'
  <2>1. /\ link' = [link EXCEPT ![u] = FALSE] /\ UNCHANGED <<conn, inbox, registry>>
        /\ unnoticed' = unnoticed \cup {[user |-> u, conn |-> conn[u]]}
    BY <1>7 DEF LinkLost, server
  <2>2. \A w \in Users : link'[w] => link[w]
    BY <2>1, PartsOf DEF NetworkOK
  <2>3. \A e \in unnoticed' : e.conn <= conn'[e.user]
    BY <2>1, QueuedIs DEF CInv
  <2> QED BY <2>1, <2>2, <2>3 DEF CInv
<1>8. CASE Restart
  <2>1. /\ link' = [u \in Users |-> FALSE] /\ unnoticed' = {} /\ inbox' = <<>>
        /\ registry' = [u \in Users |-> 0] /\ conn' = conn
    BY <1>8 DEF Restart
  <2> QED BY <2>1, EmptySequence, QueuedIs DEF CInv
<1>9. ASSUME NEW u \in Users, ClientStep(u)
      PROVE  UNCHANGED <<conn, link, unnoticed, inbox, registry>>
  BY <1>9 DEF ClientStep, TakeAuth, TakeHistory, TakeAck, TakeStatus, TakeError, TakePrivate, server
<1>10. ASSUME UserStep, ~\E u \in Users : Connect(u) \/ LinkLost(u), ~Reconnect, ~Restart
       PROVE  UNCHANGED <<conn, link, unnoticed, inbox, registry>>
  BY <1>10 DEF UserStep, AskToSignIn, RequestHistory, SendMessage, GiveUp, Retry, MarkRead,
               server, network
<1>11. CASE UNCHANGED vars
  BY <1>3, <1>11 DEF vars, network, server
<1> QED BY <1>1, <1>2, <1>3, <1>4, <1>5, <1>6, <1>7, <1>8, <1>9, <1>10, <1>11 DEF Next

-----------------------------------------------------------------------------
(* Nothing is stranded, as long as the database answers. *)

\* The recipient's registered connection is established.
Online == Reaches(Receiver, registry[Receiver])

\* A message on its way is being tracked until its acknowledgement is posted.
OnTheWay(m) ==
    \/ m \in givenUp
    \/ \E e \in ToSet(inbox) : e.frame = Frame("ack", m)
    \/ /\ m \in tracked
       /\ \/ Frame("private", m) \in ToSet(down[Receiver])
          \/ Frame("ack", m) \in ToSet(up[Receiver])

Strand == \A m \in Msgs : row[m] = "pending" /\ Online => OnTheWay(m)

\* A message on its way stays so while nothing of it is taken.
LEMMA WayStays ==
    ASSUME NEW m \in Msgs, OnTheWay(m),
           m \in givenUp => m \in givenUp', m \in tracked => m \in tracked',
           \A e \in ToSet(inbox) : e.frame = Frame("ack", m) => e \in ToSet(inbox'),
           Frame("private", m) \in ToSet(down[Receiver]) =>
                Frame("private", m) \in ToSet(down'[Receiver]),
           Frame("ack", m) \in ToSet(up[Receiver]) => Frame("ack", m) \in ToSet(up'[Receiver])
    PROVE  OnTheWay(m)'
BY DEF OnTheWay, Frame

\* A step that takes neither a message nor an acknowledgement and brings nobody online.
LEMMA StrandStays ==
    ASSUME Strand, Online' => Online,
           \A m \in Msgs : row'[m] = "pending" => row[m] = "pending",
           \A m \in Msgs : m \in givenUp => m \in givenUp',
           \A m \in Msgs : m \in tracked => m \in tracked',
           \A e \in ToSet(inbox) : e.frame.kind = "ack" => e \in ToSet(inbox'),
           \A f \in ToSet(down[Receiver]) : f.kind = "private" => f \in ToSet(down'[Receiver]),
           \A f \in ToSet(up[Receiver]) : f.kind = "ack" => f \in ToSet(up'[Receiver])
    PROVE  Strand'
<1> SUFFICES ASSUME NEW m \in Msgs, row'[m] = "pending", Online'
             PROVE  OnTheWay(m)'
  BY DEF Strand
<1>1. OnTheWay(m)
  BY DEF Strand
<1>2. \A kind : Frame(kind, m).kind = kind
  BY FramesAre
<1> QED BY <1>1, <1>2, WayStays

\* Nobody is online after the recipient's connection has changed.
LEMMA OfflineStrand ==
    ASSUME ~Online'
    PROVE  Strand'
BY DEF Strand

\* The connections' steps strand nothing: a new connection is not registered yet.
LEMMA NewConnectionStrand ==
    ASSUME IInv, CInv, Strand, NEW u \in Users, NewConnection(u),
           \A f \in ToSet(up[Receiver]) : f \in ToSet(up'[Receiver])
    PROVE  Strand'
<1>1. /\ conn'[u] = conn[u] + 1 /\ \A w \in Users : w # u => conn'[w] = conn[w] /\ link'[w] = link[w]
      /\ UNCHANGED <<unnoticed, down, inbox, registry, row, window, acked, history>>
  BY NewConnectionIs
<1>2. CASE u = Receiver
  <2>1. registry'[Receiver] < conn'[Receiver] /\ registry'[Receiver] # conn'[Receiver]
    BY <1>1, <1>2, QueuedIs DEF CInv
  <2>2. ~Online'
    BY <2>1 DEF Online, Reaches
  <2> QED BY <2>2, OfflineStrand
<1>3. CASE u # Receiver
  <2>1. tracked' = tracked
    BY <1>3 DEF NewConnection
  <2>2. Online' => Online
    BY <1>1, <1>3, UsersAre DEF Online, Reaches
  <2> QED BY <1>1, <2>1, <2>2, StrandStays DEF history
<1> QED BY <1>2, <1>3

\* What is lost with a connection is not missed by anyone online.
LEMMA LinkLostStrand ==
    ASSUME IInv, CInv, Strand, NEW u \in Users, LinkLost(u)
    PROVE  Strand'
<1>1. /\ link' = [link EXCEPT ![u] = FALSE] /\ UNCHANGED <<conn, server, history>>
      /\ up' = [up EXCEPT ![u] = <<>>] /\ down' = [down EXCEPT ![u] = <<>>]
  BY DEF LinkLost
<1>2. NetworkOK /\ Receiver \in Users
  BY PartsOf, UsersAre
<1>3. CASE u = Receiver
  <2>1. ~link'[Receiver]
    BY <1>1, <1>2, <1>3 DEF NetworkOK
  <2> QED BY <2>1, OfflineStrand DEF Online, Reaches
<1>4. CASE u # Receiver
  <2>1. link'[Receiver] = link[Receiver] /\ up'[Receiver] = up[Receiver] /\ down'[Receiver] = down[Receiver]
    BY <1>1, <1>2, <1>4, QueuesEmptied DEF NetworkOK
  <2>2. UNCHANGED <<conn, inbox, registry, row, tracked, givenUp>>
    BY <1>1 DEF server, history
  <2>3. Online' => Online
    BY <2>1, <2>2 DEF Online, Reaches
  <2> QED BY <2>1, <2>2, <2>3, StrandStays
<1> QED BY <1>3, <1>4

\* After a restart nobody is online.
LEMMA RestartStrand ==
    ASSUME Restart
    PROVE  Strand'
<1>1. link' = [u \in Users |-> FALSE] /\ Receiver \in Users
  BY UsersAre DEF Restart
<1>2. ~link'[Receiver]
  BY <1>1
<1> QED BY <1>2, OfflineStrand DEF Online, Reaches

\* The recipient's client acknowledges what it takes.
LEMMA TakePrivateStrand ==
    ASSUME IInv, Strand, TakePrivate
    PROVE  Strand'
<1>1. PICK x : x = Head(down[Receiver]).msg
  OBVIOUS
<1>2. /\ x \in Msgs /\ Head(down[Receiver]) = Frame("private", x)
      /\ Arrives(Receiver, "private")
      /\ \A g : g \in ToSet(up'[Receiver]) <=> g \in ToSet(up[Receiver]) \/ g = Frame("ack", x)
  BY <1>1, TakePrivateKeeps
<1>3. UNCHANGED <<conn, link, inbox, registry, row, tracked, givenUp>>
  BY DEF TakePrivate, server, history
<1>4. \A f \in ToSet(down[Receiver]) : f = Frame("private", x) \/ f \in ToSet(down'[Receiver])
  BY <1>2, PartsOf, UsersAre, ArrivesIs
<1> SUFFICES ASSUME NEW m \in Msgs, row'[m] = "pending", Online'
             PROVE  OnTheWay(m)'
  BY DEF Strand
<1>5. OnTheWay(m)
  BY <1>3 DEF Strand, Online, Reaches
<1>6. CASE m = x
  <2>1. Frame("ack", m) \in ToSet(up'[Receiver])
    BY <1>2, <1>6
  <2> QED BY <1>3, <1>5, <2>1 DEF OnTheWay
<1>7. CASE m # x
  <2>1. Frame("private", m) # Frame("private", x)
    BY <1>2, <1>7, FramesAre
  <2> QED BY <1>2, <1>3, <1>4, <1>5, <2>1, WayStays
<1> QED BY <1>6, <1>7

\* The recipient's worker posts the acknowledgement of a message it tracks.
LEMMA ReceiveAckStrand ==
    ASSUME IInv, CInv, Strand, ReceiveAck
    PROVE  Strand'
<1>1. PICK f : f = Head(up[Receiver])
  OBVIOUS
<1>2. /\ FromPeer(Receiver) /\ f.kind = "ack" /\ tracked' = tracked \ {f.msg}
      /\ IF f.msg \in tracked THEN Post(Receiver) ELSE inbox' = inbox
      /\ UNCHANGED <<conn, link, unnoticed, down, registry, row, givenUp>>
  BY <1>1 DEF ReceiveAck, history
<1>3. /\ f \in ClientFrames
      /\ \A g \in ToSet(up[Receiver]) : g = f \/ g \in ToSet(up'[Receiver])
  BY <1>1, <1>2, PartsOf, UsersAre, FromPeerIs
<1>4. f.msg \in Msgs /\ f = Frame("ack", f.msg)
  BY <1>2, <1>3, ClientFrameIs
<1>5. /\ \A e \in ToSet(inbox) : e \in ToSet(inbox')
      /\ Post(Receiver) => Event(Receiver, f) \in ToSet(inbox')
  BY <1>1, <1>2, UsersAre, PostedConns
<1> SUFFICES ASSUME NEW m \in Msgs, row'[m] = "pending", Online'
             PROVE  OnTheWay(m)'
  BY DEF Strand
<1>6. OnTheWay(m)
  BY <1>2 DEF Strand, Online, Reaches
<1>7. CASE m = f.msg /\ m \in tracked
  <2>1. Event(Receiver, f).frame = Frame("ack", m)
    BY <1>3, <1>4, <1>7, PartsOf, UsersAre, EventIs
  <2> QED BY <1>2, <1>5, <1>7, <2>1 DEF OnTheWay
<1>8. CASE m = f.msg /\ m \notin tracked
  BY <1>2, <1>5, <1>6, <1>8 DEF OnTheWay
<1>9. CASE m # f.msg
  <2>1. Frame("ack", m) # f
    BY <1>4, <1>9, FramesAre
  <2> QED BY <1>2, <1>3, <1>5, <1>6, <1>9, <2>1, WayStays
<1> QED BY <1>7, <1>8, <1>9

\* A message that is given up is remembered as such.
LEMMA GiveUpStrand ==
    ASSUME IInv, Strand, NEW x \in Msgs, GiveUp(x)
    PROVE  Strand'
<1>1. /\ tracked' = tracked \ {x} /\ givenUp' = givenUp \cup {x}
      /\ UNCHANGED <<conn, link, up, down, inbox, registry, row>>
  BY DEF GiveUp, network
<1> SUFFICES ASSUME NEW m \in Msgs, row'[m] = "pending", Online'
             PROVE  OnTheWay(m)'
  BY DEF Strand
<1>2. OnTheWay(m)
  BY <1>1 DEF Strand, Online, Reaches
<1>3. CASE m = x
  BY <1>1, <1>3 DEF OnTheWay
<1>4. CASE m # x
  BY <1>1, <1>2, <1>4, WayStays
<1> QED BY <1>3, <1>4

\* Handling an event that is no acknowledgement takes none.
LEMMA HandleStrand ==
    ASSUME IInv, Strand, NEW u \in Users, NEW kind, kind # "ack", Handle(u, kind),
           UNCHANGED <<conn, link, up, row, tracked, givenUp>>,
           registry'[Receiver] \in {registry[Receiver], 0}, CInv,
           \A f \in ToSet(down[Receiver]) : f \in ToSet(down'[Receiver])
    PROVE  Strand'
<1>1. \A e \in ToSet(inbox) : e.frame.kind = "ack" => e \in ToSet(inbox')
  BY PartsOf, HandleIs
<1>2. Online' => Online
  <2>1. CASE registry'[Receiver] = registry[Receiver]
    BY <2>1 DEF Online, Reaches
  <2>2. CASE registry'[Receiver] = 0
    <3>1. link[Receiver] => conn[Receiver] # 0
      BY UsersAre, QueuedIs DEF CInv
    <3> QED BY <2>2, <3>1 DEF Online, Reaches
  <2> QED BY <2>1, <2>2
<1> QED BY <1>1, <1>2, StrandStays

\* An answer or a notice adds to what is on its way.
LEMMA SentStays ==
    ASSUME IInv, NEW u \in Users, NEW c, NEW f \in ServerFrames, Send(u, c, <<f>>)
    PROVE  \A g \in ToSet(down[Receiver]) : g \in ToSet(down'[Receiver])
BY UsersAre, SendOne

\* The recipient who signs in is sent everything that waits for him.
LEMMA HandleSignInStrand ==
    ASSUME ~DbFaults, IInv, CInv, Strand, NEW u \in Users, HandleSignIn(u)
    PROVE  Strand'
<1>1. /\ Handle(u, "resume_session")
      /\ UNCHANGED <<conn, link, unnoticed, up, row, lastSeq, client, refused>>
  BY DEF HandleSignIn
<1>2. NetworkOK /\ ServerOK /\ Receiver \in Users
  BY PartsOf, UsersAre
<1>3. CASE /\ Send(u, Current.conn, <<Signal("auth_error")>>)
           /\ UNCHANGED <<registry, tracked, givenUp>>
  <2>1. \A g \in ToSet(down[Receiver]) : g \in ToSet(down'[Receiver])
    BY <1>3, SentStays, SignalsAre
  <2> QED BY <1>1, <1>3, <2>1, HandleStrand
<1>4. CASE /\ registry' = [registry EXCEPT ![u] = Current.conn]
           /\ \E list \in Seq(Msgs), r \in Seq(ServerFrames) :
                /\ \A m \in ToSet(list) : Kept(m) /\ Frame("private", m) \in ToSet(r)
                /\ u # Receiver => list = <<>>
                /\ u = Receiver /\ ~DbFaults => ToSet(list) = Pending
                /\ Send(u, Current.conn, r)
                /\ TrackAll(Current.conn, ToSet(list))
  <2>1. PICK list \in Seq(Msgs), r \in Seq(ServerFrames) :
                /\ \A m \in ToSet(list) : Frame("private", m) \in ToSet(r)
                /\ u # Receiver => list = <<>>
                /\ u = Receiver /\ ~DbFaults => ToSet(list) = Pending
                /\ Send(u, Current.conn, r)
                /\ TrackAll(Current.conn, ToSet(list))
    BY <1>4
  <2>2. /\ \A g \in ToSet(down[Receiver]) : g \in ToSet(down'[Receiver])
        /\ Reaches(u, Current.conn) => \A f \in ToSet(r) : f \in ToSet(down'[u])
    BY <1>2, <2>1, SendIs
  <2>3. CASE u # Receiver
    <3>1. ToSet(list) = {}
      BY <2>1, <2>3, EmptySequence
    <3>2. UNCHANGED <<tracked, givenUp>>
      BY <2>1, <3>1 DEF TrackAll
    <3>3. registry'[Receiver] = registry[Receiver]
      BY <1>2, <1>4, <2>3 DEF ServerOK
    <3> QED BY <1>1, <2>2, <3>2, <3>3, HandleStrand
  <2>4. CASE u = Receiver
    <3>1. registry'[Receiver] = Current.conn
      BY <1>2, <1>4, <2>4 DEF ServerOK
    <3>2. CASE ~Reaches(Receiver, Current.conn)
      <4>1. ~Online'
        BY <1>1, <3>1, <3>2 DEF Online, Reaches
      <4> QED BY <4>1, OfflineStrand
    <3>3. CASE Reaches(Receiver, Current.conn)
      <4> SUFFICES ASSUME NEW m \in Msgs, row'[m] = "pending" PROVE OnTheWay(m)'
        BY DEF Strand
      <4>1. m \in ToSet(list)
        BY <1>1, <2>1, <2>4 DEF Pending
      <4>2. m \in tracked'
        BY <2>1, <3>3, <4>1 DEF TrackAll
      <4>3. Frame("private", m) \in ToSet(down'[Receiver])
        BY <2>1, <2>2, <2>4, <3>3, <4>1
      <4> QED BY <4>2, <4>3 DEF OnTheWay, Frame
    <3> QED BY <3>2, <3>3
  <2> QED BY <2>3, <2>4
<1> QED BY <1>3, <1>4, HandleSignInIs

\* A message that is stored is sent on, or its recipient is offline.
LEMMA HandlePrivateStrand ==
    ASSUME IInv, CInv, Strand, HandlePrivate
    PROVE  Strand'
<1>1. NetworkOK /\ ServerOK /\ Sender \in Users /\ Receiver \in Users
  BY PartsOf, UsersAre
<1>2. PICK x : x = Current.frame.msg
  OBVIOUS
<1>3. /\ Handle(Sender, "private") /\ x \in Msgs
      /\ UNCHANGED <<conn, link, unnoticed, up, registry, lastSeq, client>>
  BY <1>2, HandlePrivateIs
<1>4. CASE /\ Send(Sender, Current.conn, <<Signal("error")>>)
           /\ UNCHANGED <<row, tracked, givenUp>>
  <2>1. \A g \in ToSet(down[Receiver]) : g \in ToSet(down'[Receiver])
    BY <1>1, <1>4, SentStays, SignalsAre
  <2> QED BY <1>1, <1>3, <1>4, <2>1, HandleStrand
<1>5. CASE registry[Receiver] = 0
  <2>1. link[Receiver] => conn[Receiver] # 0
    BY <1>1, QueuedIs DEF CInv
  <2>2. ~Online'
    BY <1>3, <1>5, <2>1 DEF Online, Reaches
  <2> QED BY <2>2, OfflineStrand
<1>6. CASE /\ row' = Stored(x) /\ registry[Receiver] # 0
           /\ TrackAll(registry[Receiver], {x})
           /\ Send(Receiver, registry[Receiver], <<Frame("private", x)>>)
  <2> SUFFICES ASSUME NEW m \in Msgs, row'[m] = "pending", Online'
               PROVE  OnTheWay(m)'
    BY DEF Strand
  <2>1. Online /\ Reaches(Receiver, registry[Receiver])
    BY <1>3 DEF Online, Reaches
  <2>2. tracked' = tracked \cup {x} /\ givenUp' = givenUp \ {x}
    BY <1>6, <2>1 DEF TrackAll
  <2>3. Frame("private", x) \in ServerFrames
    BY <1>3, FramesAre
  <2>4. /\ \A g \in ToSet(down[Receiver]) : g \in ToSet(down'[Receiver])
        /\ Frame("private", x) \in ToSet(down'[Receiver])
    BY <1>1, <1>6, <2>1, <2>3, SendOne
  <2>5. CASE m = x
    BY <2>2, <2>4, <2>5 DEF OnTheWay, Frame
  <2>6. CASE m # x
    <3>1. row[m] = "pending"
      BY <1>1, <1>3, <1>6, <2>6, RowsAre
    <3>2. OnTheWay(m)
      BY <2>1, <3>1 DEF Strand
    <3>3. \A e \in ToSet(inbox) : e.frame = Frame("ack", m) => e \in ToSet(inbox')
      BY <1>1, <1>3, HandleIs, FramesAre
    <3>4. up' = up
      BY <1>3
    <3> QED BY <2>2, <2>4, <2>6, <3>2, <3>3, <3>4, WayStays
  <2> QED BY <2>5, <2>6
<1> QED BY <1>2, <1>4, <1>5, <1>6, HandlePrivateIs

\* A message whose acknowledgement is handled waits no longer.
LEMMA HandleAcknowledgedStrand ==
    ASSUME ~DbFaults, IInv, Strand, HandleAcknowledged
    PROVE  Strand'
<1>1. NetworkOK /\ ServerOK /\ Sender \in Users /\ Receiver \in Users
  BY PartsOf, UsersAre
<1>2. PICK x : x = Current.frame.msg
  OBVIOUS
<1>3. /\ Handle(Receiver, "ack") /\ x \in Msgs /\ Current.frame = Frame("ack", x)
      /\ UNCHANGED <<conn, link, unnoticed, up, registry, tracked, lastSeq, client, history>>
      /\ row' = Delivered(x) /\ Send(Sender, registry[Sender], <<Frame("delivered", x)>>)
  BY <1>2, HandleAcknowledgedIs
<1> SUFFICES ASSUME NEW m \in Msgs, row'[m] = "pending", Online'
             PROVE  OnTheWay(m)'
  BY DEF Strand
<1>4. row[m] = "pending" /\ m # x
  BY <1>1, <1>3, RowsAre
<1>5. OnTheWay(m)
  BY <1>3, <1>4 DEF Strand, Online, Reaches
<1>6. \A e \in ToSet(inbox) : e.frame = Frame("ack", m) => e \in ToSet(inbox')
  <2>1. Frame("ack", m) # Frame("ack", x)
    BY <1>3, <1>4, FramesAre
  <2>2. \A e \in ToSet(inbox) : e = Current \/ e \in ToSet(inbox')
    BY <1>1, <1>3, HandleIs
  <2> QED BY <1>3, <2>1, <2>2
<1>7. \A g \in ToSet(down[Receiver]) : g \in ToSet(down'[Receiver])
  BY <1>1, <1>3, SentStays, FramesAre
<1>8. UNCHANGED <<up, tracked, givenUp>>
  BY <1>3 DEF history
<1> QED BY <1>5, <1>6, <1>7, <1>8, WayStays

\* Read receipts only end a message's waiting.
LEMMA HandleReadStrand ==
    ASSUME IInv, Strand, HandleRead
    PROVE  Strand'
<1>1. NetworkOK /\ ServerOK /\ Sender \in Users /\ Receiver \in Users
  BY PartsOf, UsersAre
<1>2. PICK x : x = Current.frame.msg
  OBVIOUS
<1>3. /\ Handle(Receiver, "read") /\ x \in Msgs
      /\ UNCHANGED <<conn, link, unnoticed, up, registry, tracked, lastSeq, client, history>>
      /\ \/ UNCHANGED <<row, down>>
         \/ /\ row' = Read(x) \/ (DbFaults /\ row' = row)
            /\ Send(Sender, registry[Sender], <<Frame("read", x)>>)
  BY <1>2, HandleReadIs
<1>4. \A m \in Msgs : row'[m] = "pending" => row[m] = "pending"
  BY <1>1, <1>3, RowsAre
<1>5. \A g \in ToSet(down[Receiver]) : g \in ToSet(down'[Receiver])
  BY <1>1, <1>3, SentStays, FramesAre
<1>6. \A e \in ToSet(inbox) : e.frame.kind = "ack" => e \in ToSet(inbox')
  BY <1>1, <1>3, HandleIs
<1>7. Online' => Online
  BY <1>3 DEF Online, Reaches
<1>8. UNCHANGED <<up, tracked, givenUp>>
  BY <1>3 DEF history
<1> QED BY <1>4, <1>5, <1>6, <1>7, <1>8, StrandStays

\* The remaining handlers answer one user.
LEMMA AnswersStrand ==
    ASSUME IInv, CInv, Strand, NEW u \in Users,
           HandleHistory(u) \/ HandleClosed(u) \/ HandleStranger(u, "private")
    PROVE  Strand'
<1>1. NetworkOK /\ ServerOK /\ Receiver \in Users
  BY PartsOf, UsersAre
<1>2. CASE HandleHistory(u)
  <2>1. Handle(u, "history") /\ Answer(History(row))
        /\ UNCHANGED <<conn, link, up, registry, row, tracked, givenUp>>
    BY <1>2 DEF HandleHistory, history
  <2>2. Current.user = u /\ History(row) \in ServerFrames
    BY <1>1, <2>1, HandleIs, SignalsAre DEF ServerOK
  <2>3. \A g \in ToSet(down[Receiver]) : g \in ToSet(down'[Receiver])
    BY <2>1, <2>2, SentStays DEF Answer
  <2> QED BY <2>1, <2>3, HandleStrand
<1>3. CASE HandleClosed(u)
  <2>1. Handle(u, "closed") /\ UNCHANGED <<conn, link, up, down, row, tracked, givenUp>>
    BY <1>3 DEF HandleClosed, network, history
  <2>2. registry'[Receiver] \in {registry[Receiver], 0}
    BY <1>1, <1>3 DEF HandleClosed, ServerOK
  <2> QED BY <2>1, <2>2, HandleStrand
<1>4. CASE HandleStranger(u, "private")
  <2>1. Handle(u, "private") /\ Answer(Signal("auth_error"))
        /\ UNCHANGED <<conn, link, up, registry, row, tracked, givenUp>>
    BY <1>4 DEF HandleStranger, history
  <2>2. Current.user = u /\ Signal("auth_error") \in ServerFrames
    BY <1>1, <2>1, HandleIs, SignalsAre
  <2>3. \A g \in ToSet(down[Receiver]) : g \in ToSet(down'[Receiver])
    BY <2>1, <2>2, SentStays DEF Answer
  <2> QED BY <2>1, <2>3, HandleStrand
<1> QED BY <1>2, <1>3, <1>4

\* A worker that passes on a packet without seq, or one of the sender's.
LEMMA WorkerStrand ==
    ASSUME IInv, CInv, Strand, ReceivePrivate \/ \E u \in Users : ReceivePlain(u)
    PROVE  Strand'
<1>1. NetworkOK /\ ServerOK /\ Sender \in Users /\ Receiver \in Users
  BY PartsOf, UsersAre
<1>2. CASE ReceivePrivate
  <2>1. /\ FromPeer(Sender)
        /\ Post(Sender) \/ inbox' = inbox
        /\ UNCHANGED <<conn, link, unnoticed, registry, row, tracked, givenUp>>
    BY <1>2 DEF ReceivePrivate, history
  <2>2. \A e \in ToSet(inbox) : e \in ToSet(inbox')
    BY <1>1, <2>1, PostedConns
  <2>3. down'[Receiver] = down[Receiver]
    BY <1>2, ReceivePrivateKeeps
  <2>4. up'[Receiver] = up[Receiver]
    BY <1>1, <2>1, FromPeerIs, UsersAre
  <2>5. Online' => Online
    BY <2>1 DEF Online, Reaches
  <2> QED BY <2>1, <2>2, <2>3, <2>4, <2>5, StrandStays
<1>3. ASSUME NEW u \in Users, ReceivePlain(u)
      PROVE  Strand'
  <2>1. /\ FromPeer(u) /\ Post(u) /\ Head(up[u]).kind # "ack"
        /\ UNCHANGED <<conn, link, unnoticed, down, registry, row, tracked, givenUp>>
    BY <1>3 DEF ReceivePlain, history
  <2>2. \A e \in ToSet(inbox) : e \in ToSet(inbox')
    BY <1>1, <2>1, PostedConns
  <2>3. \A f \in ToSet(up[Receiver]) : f.kind = "ack" => f \in ToSet(up'[Receiver])
    BY <1>1, <2>1, FromPeerIs
  <2>4. Online' => Online
    BY <2>1 DEF Online, Reaches
  <2> QED BY <2>1, <2>2, <2>3, <2>4, StrandStays
<1> QED BY <1>2, <1>3

\* A client that takes a packet which is no message.
LEMMA ClientStrand ==
    ASSUME IInv, Strand, NEW u \in Users, ClientStep(u), ~TakePrivate
    PROVE  Strand'
<1>1. /\ UNCHANGED <<conn, link, up, inbox, registry, row, tracked, givenUp>>
      /\ \E kind : kind # "private" /\ Arrives(u, kind)
  BY DEF ClientStep, TakeAuth, TakeHistory, TakeAck, TakeStatus, TakeError, server, history
<1>2. PICK kind : kind # "private" /\ Arrives(u, kind)
  BY <1>1
<1>3. \A f \in ToSet(down[Receiver]) : f.kind = "private" => f \in ToSet(down'[Receiver])
  BY <1>2, PartsOf, UsersAre, ArrivesIs
<1>4. Online' => Online
  BY <1>1 DEF Online, Reaches
<1> QED BY <1>1, <1>3, <1>4, StrandStays

\* A client that writes something.
LEMMA UploadStrand ==
    ASSUME IInv, Strand,
           \/ \E u \in Users : AskToSignIn(u) \/ RequestHistory(u)
           \/ \E m \in Msgs : SendMessage(m)
           \/ \E p \in unacked : Retry(p)
           \/ MarkRead
    PROVE  Strand'
<1>1. UNCHANGED <<conn, link, down, inbox, registry, row, tracked, givenUp>>
  BY DEF AskToSignIn, RequestHistory, SendMessage, Retry, MarkRead, server, history
<1>2. \A f \in ToSet(up[Receiver]) : f \in ToSet(up'[Receiver])
  <2>0. NetworkOK /\ Sender \in Users /\ Receiver \in Users
    BY PartsOf, UsersAre
  <2>1. ASSUME NEW u \in Users, AskToSignIn(u) \/ RequestHistory(u)
        PROVE  \A f \in ToSet(up[Receiver]) : f \in ToSet(up'[Receiver])
    <3>1. PICK f \in ClientFrames : Upload(u, <<f>>)
      BY <2>1, SignalsAre DEF AskToSignIn, RequestHistory
    <3>2. <<f>> \in Seq(ClientFrames)
      BY OneElement
    <3> QED BY <2>0, <3>1, <3>2, UploadIs
  <2>2. ASSUME NEW m \in Msgs, SendMessage(m)
        PROVE  \A f \in ToSet(up[Receiver]) : f \in ToSet(up'[Receiver])
    BY <2>2, SendMessageKeeps
  <2>3. ASSUME NEW p \in unacked, Retry(p)
        PROVE  \A f \in ToSet(up[Receiver]) : f \in ToSet(up'[Receiver])
    <3>1. PICK f \in ClientFrames : Upload(Sender, <<f>>)
      BY <2>3, RetryKeeps, FramesAre DEF Retry
    <3>2. <<f>> \in Seq(ClientFrames)
      BY OneElement
    <3> QED BY <2>0, <3>1, <3>2, UploadIs, UsersAre
  <2>4. CASE MarkRead
    BY <2>4, MarkReadKeeps
  <2> QED BY <2>1, <2>2, <2>3, <2>4
<1>3. Online' => Online
  BY <1>1 DEF Online, Reaches
<1> QED BY <1>1, <1>2, <1>3, StrandStays

\* No step strands a message.
LEMMA NextStrand ==
    ASSUME ~DbFaults, IInv, CInv, Strand, [Next]_vars
    PROVE  Strand'
<1>0. Sender \in Users /\ Receiver \in Users /\ NetworkOK
  BY UsersAre, PartsOf
<1>1. CASE ServerStep
  BY <1>0, <1>1, HandlePrivateStrand, HandleAcknowledgedStrand, HandleReadStrand,
     HandleSignInStrand, AnswersStrand DEF ServerStep
<1>2. ASSUME NEW u \in Users, WorkerStep(u)
      PROVE  Strand'
  BY <1>2, WorkerStrand, ReceiveAckStrand DEF WorkerStep
<1>3. ASSUME NEW u \in Users, ClientStep(u)
      PROVE  Strand'
  BY <1>3, TakePrivateStrand, ClientStrand
<1>4. ASSUME NEW e \in unnoticed, NoticeEnd(e)
      PROVE  Strand'
  <2>1. UNCHANGED <<conn, link, up, down, registry, row, tracked, givenUp>>
    BY <1>4 DEF NoticeEnd, history
  <2>2. \A x \in ToSet(inbox) : x \in ToSet(inbox')
    BY <1>4, NoticeEndKeeps
  <2>3. Online' => Online
    BY <2>1 DEF Online, Reaches
  <2> QED BY <2>1, <2>2, <2>3, StrandStays
<1>5. ASSUME NEW u \in Users, Connect(u)
      PROVE  Strand'
  BY <1>5, NewConnectionStrand DEF Connect
<1>6. CASE Reconnect
  <2>1. up' = [up EXCEPT ![Sender] = <<Signal("resume_session")>>] /\ NewConnection(Sender)
    BY <1>6 DEF Reconnect
  <2>2. up'[Receiver] = up[Receiver]
    BY <1>0, <2>1, UsersAre DEF NetworkOK
  <2> QED BY <1>0, <2>1, <2>2, NewConnectionStrand
<1>7. ASSUME NEW u \in Users, LinkLost(u)
      PROVE  Strand'
  BY <1>7, LinkLostStrand
<1>8. ASSUME NEW m \in Msgs, GiveUp(m)
      PROVE  Strand'
  BY <1>8, GiveUpStrand
<1>9. CASE UserStep
  BY <1>5, <1>6, <1>7, <1>8, <1>9, UploadStrand, RestartStrand DEF UserStep
<1>10. CASE UNCHANGED vars
  <2>1. UNCHANGED <<conn, link, up, down, inbox, registry, row, tracked, givenUp>>
    BY <1>10 DEF vars, network, server, history
  <2>2. Online' => Online
    BY <2>1 DEF Online, Reaches
  <2> QED BY <2>1, <2>2, StrandStays
<1> QED BY <1>1, <1>2, <1>3, <1>4, <1>9, <1>10 DEF Next

\* At the start nothing waits.
LEMMA InitStrand ==
    ASSUME Init
    PROVE  CInv /\ Strand
<1>1. ToSet(inbox) = {}
  BY EmptySequence DEF Init
<1>2. CInv
  BY <1>1 DEF Init, CInv
<1>3. Strand
  BY DEF Init, Strand
<1> QED BY <1>2, <1>3

\* As long as the database answers, a message that waits in the table for a recipient who
\* is online is on its way to him, or was given up: storing it and looking the recipient
\* up, his sign-in and loadPendingPrivateMessages, and the acknowledgements leave no gap.
THEOREM NothingStranded ==
    ASSUME ~DbFaults
    PROVE  Spec => []NotStranded
<1>1. IInv /\ Strand => NotStranded
  <2> SUFFICES ASSUME IInv, Strand, NEW m \in Pending, Reaches(Receiver, registry[Receiver])
               PROVE  \/ m \in givenUp
                      \/ Contains(down[Receiver], Frame("private", m))
                      \/ Contains(up[Receiver], Frame("ack", m))
                      \/ \E i \in DOMAIN inbox : inbox[i].frame = Frame("ack", m)
    BY DEF NotStranded
  <2>1. m \in Msgs /\ OnTheWay(m)
    BY DEF Strand, Pending, Online
  <2>2. /\ down[Receiver] \in Seq(ServerFrames) /\ up[Receiver] \in Seq(ClientFrames)
        /\ inbox \in Seq(Events)
    BY PartsOf, UsersAre DEF NetworkOK, ServerOK
  <2>3. CASE \E e \in ToSet(inbox) : e.frame = Frame("ack", m)
    <3>1. PICK e \in ToSet(inbox) : e.frame = Frame("ack", m)
      BY <2>3
    <3>2. PICK i \in DOMAIN inbox : inbox[i] = e
      BY <2>2, ElementsOf
    <3> QED BY <3>1, <3>2
  <2>4. CASE Frame("private", m) \in ToSet(down[Receiver])
    <3>1. Contains(down[Receiver], Frame("private", m))
      BY <2>2, <2>4, ElementsOf
    <3> QED BY <3>1
  <2>5. CASE Frame("ack", m) \in ToSet(up[Receiver])
    <3>1. Contains(up[Receiver], Frame("ack", m))
      BY <2>2, <2>5, ElementsOf
    <3> QED BY <3>1
  <2> QED BY <2>1, <2>3, <2>4, <2>5 DEF OnTheWay
<1>2. Init => IInv /\ CInv /\ Strand
  BY InitIInv, InitStrand
<1>3. IInv /\ CInv /\ Strand /\ [Next]_vars => (IInv /\ CInv /\ Strand)'
  BY NextIInv, NextConns, NextStrand
<1> QED BY <1>1, <1>2, <1>3, PTL DEF Spec

-----------------------------------------------------------------------------
(* Without a connection nothing is under way to or from the sender. *)

LInv ==
    ~link[Sender] => up[Sender] = <<>> /\ down[Sender] = <<>> /\ session[Sender] = "none"

\* What is written, sent or taken needs the connection.
LEMMA NextLink ==
    ASSUME IInv, LInv, [Next]_vars
    PROVE  LInv'
<1>0. NetworkOK /\ ServerOK /\ ClientOK /\ Sender \in Users
  BY PartsOf, UsersAre
<1>1. CASE link'[Sender]
  BY <1>1 DEF LInv
<1> SUFFICES ASSUME ~link'[Sender]
             PROVE  up'[Sender] = <<>> /\ down'[Sender] = <<>> /\ session'[Sender] = "none"
  BY <1>1 DEF LInv
<1>2. CASE ServerStep
  <2>1. UNCHANGED <<link, up, session>>
    BY <1>2 DEF ServerStep, HandlePrivate, HandleAcknowledged, HandleRead, HandleSignIn,
                HandleHistory, HandleClosed, HandleStranger, network, client
  <2>2. ASSUME NEW u, NEW c, NEW r, Send(u, c, r) PROVE down'[Sender] = down[Sender]
    BY <1>0, <2>1, <2>2 DEF Send, Reaches, NetworkOK
  <2>3. down' = down \/ \E u, c, r : Send(u, c, r)
    BY <1>2 DEF ServerStep, HandlePrivate, HandleAcknowledged, HandleRead, HandleSignIn,
                HandleHistory, HandleClosed, HandleStranger, network, Answer, Tell
  <2> QED BY <2>1, <2>2, <2>3 DEF LInv
<1>3. ASSUME NEW u \in Users, WorkerStep(u)
      PROVE  up'[Sender] = <<>> /\ down'[Sender] = <<>> /\ session'[Sender] = "none"
  <2>1. link' = link /\ session' = session
    BY <1>3 DEF WorkerStep, ReceivePrivate, ReceiveAck, ReceivePlain, client
  <2>2. up[Sender] = <<>> /\ down[Sender] = <<>> /\ session[Sender] = "none"
    BY <2>1 DEF LInv
  <2>3. u # Sender
    BY <1>3, <2>2, UsersAre DEF WorkerStep, ReceivePrivate, ReceivePlain, FromPeer
  <2>4. up'[Sender] = up[Sender] /\ down' = down
    BY <1>0, <1>3, <2>3, UsersAre DEF WorkerStep, ReceiveAck, ReceivePlain, FromPeer, NetworkOK
  <2> QED BY <2>1, <2>2, <2>4
<1>4. ASSUME NEW u \in Users, ClientStep(u)
      PROVE  up'[Sender] = <<>> /\ down'[Sender] = <<>> /\ session'[Sender] = "none"
  <2>1. link' = link
    BY <1>4 DEF ClientStep, TakeAuth, TakeHistory, TakeAck, TakeStatus, TakeError, TakePrivate
  <2>2. up[Sender] = <<>> /\ down[Sender] = <<>> /\ session[Sender] = "none"
    BY <2>1 DEF LInv
  <2>3. down[u] # <<>>
    BY <1>4 DEF ClientStep, TakeAuth, TakeHistory, TakeAck, TakeStatus, TakeError, TakePrivate,
                Arrives
  <2>4. u = Receiver /\ u # Sender
    BY <2>2, <2>3, UsersAre
  <2>5. /\ up' = up \/ \E r : Upload(Receiver, r)
        /\ \E kind : Arrives(u, kind)
        /\ \/ session' = session
           \/ session' = [session EXCEPT ![u] = "on"]
           \/ session' = [session EXCEPT ![u] = "none"]
    BY <1>4, <2>4 DEF ClientStep, TakeAuth, TakeHistory, TakePrivate
  <2>6. session'[Sender] = session[Sender]
    BY <1>0, <2>4, <2>5 DEF ClientOK
  <2>7. up'[Sender] = up[Sender] /\ down'[Sender] = down[Sender]
    BY <1>0, <2>4, <2>5 DEF Upload, Arrives, NetworkOK
  <2> QED BY <2>2, <2>6, <2>7
<1>5. CASE \E e \in unnoticed : NoticeEnd(e)
  BY <1>5 DEF NoticeEnd, client, LInv
<1>6. ASSUME NEW u \in Users, Connect(u)
      PROVE  up'[Sender] = <<>> /\ down'[Sender] = <<>> /\ session'[Sender] = "none"
  <2>1. u # Sender /\ link'[Sender] = link[Sender]
    BY <1>0, <1>6, NewConnectionIs DEF Connect
  <2> QED BY <1>6, <2>1 DEF Connect, NewConnection, LInv
<1>7. CASE Reconnect
  BY <1>0, <1>7, NewConnectionIs DEF Reconnect
<1>8. ASSUME NEW u \in Users, LinkLost(u)
      PROVE  up'[Sender] = <<>> /\ down'[Sender] = <<>> /\ session'[Sender] = "none"
  <2>1. /\ up' = [up EXCEPT ![u] = <<>>] /\ down' = [down EXCEPT ![u] = <<>>]
        /\ session' = [session EXCEPT ![u] = "none"] /\ link' = [link EXCEPT ![u] = FALSE]
    BY <1>8 DEF LinkLost
  <2>2. CASE u = Sender
    BY <1>0, <2>1, <2>2 DEF NetworkOK, ClientOK
  <2>3. CASE u # Sender
    BY <1>0, <2>1, <2>3 DEF NetworkOK, ClientOK, LInv
  <2> QED BY <2>2, <2>3
<1>9. CASE Restart
  BY <1>0, <1>9 DEF Restart
<1>10. ASSUME \/ \E u \in Users : AskToSignIn(u) \/ RequestHistory(u)
              \/ \E m \in Msgs : SendMessage(m) \/ GiveUp(m)
              \/ \E p \in unacked : Retry(p)
              \/ MarkRead
       PROVE  up'[Sender] = <<>> /\ down'[Sender] = <<>> /\ session'[Sender] = "none"
  <2>1. UNCHANGED <<link, down>>
    BY <1>10 DEF AskToSignIn, RequestHistory, SendMessage, GiveUp, Retry, MarkRead, network
  <2>2. up[Sender] = <<>> /\ down[Sender] = <<>> /\ session[Sender] = "none"
    BY <2>1 DEF LInv
  <2>3. \/ UNCHANGED <<up, session>>
        \/ /\ \E r : Upload(Receiver, r)
           /\ \/ session' = session
              \/ session' = [session EXCEPT ![Receiver] = "asked"]
    BY <1>10, <2>1, <2>2, UsersAre DEF AskToSignIn, RequestHistory, SendMessage, GiveUp, Retry,
       MarkRead, network, client
  <2>4. up'[Sender] = up[Sender]
    BY <1>0, <2>3, UsersAre DEF Upload, NetworkOK
  <2>5. session'[Sender] = session[Sender]
    BY <1>0, <2>3, UsersAre DEF ClientOK
  <2> QED BY <2>1, <2>2, <2>4, <2>5
<1>11. CASE UserStep
  BY <1>6, <1>7, <1>8, <1>9, <1>10, <1>11 DEF UserStep
<1>12. CASE UNCHANGED vars
  BY <1>12 DEF vars, network, client, LInv
<1> QED BY <1>2, <1>3, <1>4, <1>5, <1>11, <1>12 DEF Next

-----------------------------------------------------------------------------
(* A message is stored once, as long as the sender's client keeps to one connection. *)

\* A packet of message m with number n that may still reach the server.
Copy(m, n) ==
    [msg |-> m, seq |-> n] \in unacked \/ Private(m, n) \in ToSet(up[Sender])

AsksFor(e, m) == e.frame.kind = "private" /\ e.frame.msg = m

\* The main thread has stored the message, or is about to look at it.
Asked(m)  == \E e \in ToSet(inbox) : AsksFor(e, m)
Posted(m) == Kept(m) \/ Asked(m)

\* No two events of a queue are about the same message.
Distinct(q) ==
    \A m \in Msgs : \A i, j \in DOMAIN q : AsksFor(q[i], m) /\ AsksFor(q[j], m) => i = j

\* A copy has the number the message was given, and one that was posted is a duplicate.
Copies ==
    \A m \in Msgs : \A n \in Nat :
        Copy(m, n) => /\ n <= nextSeq /\ window[Sender][m] # "unknown"
                      /\ \A k \in Nat : Copy(m, k) => k = n
                      /\ Posted(m) => n <= lastSeq

Once ==
    /\ Copies
    /\ \A m \in Msgs : /\ Posted(m) => window[Sender][m] # "unknown"
                       /\ Asked(m) => ~Kept(m)
    /\ Distinct(inbox)
    /\ lastSeq <= nextSeq

\* What is left of such a queue names the message of its head no more.
LEMMA DistinctTail ==
    ASSUME NEW q \in Seq(Events), q # <<>>, Distinct(q)
    PROVE  /\ Distinct(Tail(q))
           /\ \A m \in Msgs : AsksFor(Head(q), m) => \A e \in ToSet(Tail(q)) : ~AsksFor(e, m)
<1>1. /\ Tail(q) \in Seq(Events) /\ Head(q) = q[1]
      /\ DOMAIN q = 1 .. Len(q) /\ DOMAIN Tail(q) = 1 .. (Len(q) - 1)
      /\ Len(q) \in Nat \ {0} /\ \A k \in 1 .. (Len(q) - 1) : Tail(q)[k] = q[k + 1]
  BY TailOf
<1>2. \A k \in 1 .. (Len(q) - 1) : k + 1 \in DOMAIN q /\ k + 1 # 1 /\ k \in Nat
  BY <1>1
<1>3. 1 \in DOMAIN q
  BY <1>1
<1>4. ASSUME NEW m \in Msgs, NEW i \in DOMAIN Tail(q), NEW j \in DOMAIN Tail(q),
             AsksFor(Tail(q)[i], m), AsksFor(Tail(q)[j], m)
      PROVE  i = j
  <2>1. AsksFor(q[i + 1], m) /\ AsksFor(q[j + 1], m)
    BY <1>1, <1>4
  <2>2. i + 1 = j + 1
    BY <1>1, <1>2, <2>1 DEF Distinct
  <2> QED BY <1>1, <1>2, <2>2
<1>5. ASSUME NEW m \in Msgs, AsksFor(Head(q), m), NEW e \in ToSet(Tail(q))
      PROVE  ~AsksFor(e, m)
  <2>1. PICK k \in DOMAIN Tail(q) : e = Tail(q)[k]
    BY <1>1 DEF ToSet
  <2>2. e = q[k + 1] /\ k + 1 \in DOMAIN q /\ k + 1 # 1
    BY <1>1, <1>2, <2>1
  <2>3. AsksFor(q[1], m)
    BY <1>1, <1>5
  <2> QED BY <1>3, <2>2, <2>3 DEF Distinct
<1> QED BY <1>4, <1>5 DEF Distinct

\* An event of a message no other event is about may be added.
LEMMA DistinctAppend ==
    ASSUME NEW q \in Seq(Events), Distinct(q), NEW e \in Events,
           \A m \in Msgs : AsksFor(e, m) => \A x \in ToSet(q) : ~AsksFor(x, m)
    PROVE  Distinct(Append(q, e))
<1> DEFINE p == Append(q, e)
<1>1. /\ Len(q) \in Nat /\ DOMAIN q = 1 .. Len(q) /\ DOMAIN p = 1 .. (Len(q) + 1)
      /\ \A k \in 1 .. Len(q) : p[k] = q[k]
      /\ p[Len(q) + 1] = e
  OBVIOUS
<1> HIDE DEF p
<1>2. ASSUME NEW m \in Msgs, NEW i \in DOMAIN p, NEW j \in DOMAIN p, i < j,
             AsksFor(p[i], m), AsksFor(p[j], m)
      PROVE  FALSE
  <2>1. i \in DOMAIN q /\ p[i] = q[i] /\ i # j
    BY <1>1, <1>2
  <2>2. CASE j \in DOMAIN q
    <3>1. AsksFor(q[i], m) /\ AsksFor(q[j], m)
      BY <1>1, <1>2, <2>1, <2>2
    <3> QED BY <2>1, <2>2, <3>1 DEF Distinct
  <2>3. CASE j \notin DOMAIN q
    <3>1. j = Len(q) + 1
      BY <1>1, <2>3
    <3>2. AsksFor(e, m)
      BY <1>1, <1>2, <3>1
    <3>3. q[i] \in ToSet(q) /\ AsksFor(q[i], m)
      BY <1>2, <2>1, ElementsOf
    <3> QED BY <3>2, <3>3
  <2> QED BY <2>2, <2>3
<1>3. \A i, j \in DOMAIN p : i < j \/ j < i \/ i = j
  BY <1>1
<1>4. \A m \in Msgs : \A i, j \in DOMAIN p : AsksFor(p[i], m) /\ AsksFor(p[j], m) => i = j
  BY <1>2, <1>3
<1> QED BY <1>4 DEF Distinct, p

\* A step that makes no copy, stores nothing and posts no message.
LEMMA OnceStays ==
    ASSUME IInv, Once, nextSeq' = nextSeq, lastSeq' = lastSeq,
           \A m \in Msgs : \A n \in Nat : Copy(m, n)' => Copy(m, n),
           \A m \in Msgs : window[Sender][m] # "unknown" => window'[Sender][m] # "unknown",
           \A m \in Msgs : /\ Posted(m)' => Posted(m)
                           /\ Asked(m)' => Asked(m) /\ ~Kept(m)',
           Distinct(inbox)'
    PROVE  Once'
<1>1. Copies'
  BY DEF Once, Copies
<1>2. \A m \in Msgs : /\ Posted(m)' => window'[Sender][m] # "unknown"
                      /\ Asked(m)' => ~Kept(m)'
  BY DEF Once
<1> QED BY <1>1, <1>2 DEF Once

\* The copies there are, by what makes them up.
LEMMA CopyStays ==
    ASSUME \A p \in unacked' : p \in unacked,
           \A f \in ToSet(up'[Sender]) : f.kind = "private" => f \in ToSet(up[Sender])
    PROVE  \A m \in Msgs : \A n \in Nat : Copy(m, n)' => Copy(m, n)
BY FramesAre DEF Copy

\* A step that leaves the queue and the table as they are.
LEMMA OnceQuiet ==
    ASSUME IInv, Once, UNCHANGED <<inbox, row, nextSeq, lastSeq>>,
           \A m \in Msgs : \A n \in Nat : Copy(m, n)' => Copy(m, n),
           \A m \in Msgs : window[Sender][m] # "unknown" => window'[Sender][m] # "unknown"
    PROVE  Once'
<1>1. \A m \in Msgs : Posted(m)' <=> Posted(m)
  BY DEF Posted, Kept, Asked, AsksFor
<1>2. \A m \in Msgs : Asked(m)' => Asked(m) /\ ~Kept(m)'
  BY DEF Once, Kept, Asked, AsksFor
<1>3. Distinct(inbox)'
  BY DEF Once, Distinct, AsksFor
<1> QED BY <1>1, <1>2, <1>3, OnceStays

\* An event is posted that is about no message.
LEMMA OncePosts ==
    ASSUME IInv, Once, NEW e \in Events, e.frame.kind # "private", inbox' = Append(inbox, e),
           UNCHANGED <<row, nextSeq, lastSeq, unacked, window>>,
           \A f \in ToSet(up'[Sender]) : f \in ToSet(up[Sender])
    PROVE  Once'
<1>1. inbox \in Seq(Events)
  BY PartsOf DEF ServerOK
<1>2. \A z : z \in ToSet(inbox') <=> z \in ToSet(inbox) \/ z = e
  BY PartsOf, PostIs
<1>3. \A m \in Msgs : ~AsksFor(e, m)
  BY DEF AsksFor
<1>4. Distinct(inbox)'
  <2>1. Distinct(Append(inbox, e))
    BY <1>1, <1>3, DistinctAppend DEF Once
  <2> QED BY <2>1 DEF Distinct, AsksFor
<1>5. \A m \in Msgs : Asked(m)' <=> Asked(m)
  BY <1>2, <1>3 DEF Asked, AsksFor
<1>6. \A m \in Msgs : Kept(m)' <=> Kept(m)
  BY DEF Kept
<1> QED BY <1>4, <1>5, <1>6, CopyStays, OnceStays DEF Posted, Once

\* An event is taken that is about no message, or about one that is not stored now.
LEMMA OnceTakes ==
    ASSUME IInv, Once, NEW u \in Users, NEW kind, Handle(u, kind),
           UNCHANGED <<up, nextSeq, lastSeq, unacked, window>>,
           \A m \in Msgs : Kept(m)' => Kept(m) \/ AsksFor(Current, m)
    PROVE  Once'
<1>1. inbox \in Seq(Events) /\ inbox # <<>> /\ inbox' = Tail(inbox) /\ Current = Head(inbox)
  BY PartsOf DEF ServerOK, Handle, Current
<1>2. /\ Distinct(Tail(inbox))
      /\ \A m \in Msgs : AsksFor(Current, m) => \A e \in ToSet(Tail(inbox)) : ~AsksFor(e, m)
  BY <1>1, DistinctTail DEF Once
<1>3. Distinct(inbox)'
  BY <1>1, <1>2 DEF Distinct, AsksFor
<1>4. \A e \in ToSet(inbox') : e \in ToSet(inbox)
  BY PartsOf, HandleIs
<1>5. Current \in ToSet(inbox)
  BY PartsOf, HandleIs
<1>6. \A m \in Msgs : Asked(m)' => Asked(m) /\ ~AsksFor(Current, m)
  BY <1>1, <1>2, <1>4 DEF Asked, AsksFor
<1>7. \A m \in Msgs : Kept(m)' => Kept(m) \/ Asked(m)
  BY <1>5 DEF Asked
<1>8. \A m \in Msgs : /\ Posted(m)' => Posted(m)
                      /\ Asked(m)' => Asked(m) /\ ~Kept(m)'
  BY <1>6, <1>7 DEF Posted, Once
<1>9. \A m \in Msgs : \A n \in Nat : Copy(m, n)' => Copy(m, n)
  BY CopyStays
<1> QED BY <1>3, <1>8, <1>9, OnceStays DEF Once

\* A connection that is opened by hand starts with no copies.
LEMMA ConnectOnce ==
    ASSUME IInv, LInv, Once, NEW u \in Users, Connect(u)
    PROVE  Once'
<1>1. /\ NewConnection(u) /\ UNCHANGED <<session, up, inbox, row, window>>
      /\ nextSeq' = IF u = Sender THEN 0 ELSE nextSeq
      /\ unacked' = IF u = Sender THEN {} ELSE unacked
      /\ lastSeq' = IF u = Sender THEN 0 ELSE lastSeq
  BY DEF Connect, NewConnection
<1>2. link'[u] /\ ~link[u] /\ \A w \in Users : w # u => link'[w] = link[w]
  BY <1>1, NewConnectionIs
<1>3. CASE u = Sender
  <2>1. up[Sender] = <<>>
    BY <1>2, <1>3 DEF LInv
  <2>2. ToSet(up'[Sender]) = {}
    BY <1>1, <2>1, EmptySequence
  <2>3. \A m \in Msgs : \A n \in Nat : ~Copy(m, n)'
    BY <1>1, <1>3, <2>2 DEF Copy
  <2>4. Copies'
    BY <2>3 DEF Copies
  <2>5. \A m \in Msgs : /\ Posted(m)' <=> Posted(m)
                        /\ Asked(m)' <=> Asked(m)
                        /\ Kept(m)' <=> Kept(m)
    BY <1>1 DEF Posted, Kept, Asked, AsksFor
  <2>6. Distinct(inbox)'
    BY <1>1 DEF Once, Distinct, AsksFor
  <2>7. lastSeq' <= nextSeq'
    BY <1>1, <1>3
  <2> QED BY <1>1, <2>4, <2>5, <2>6, <2>7 DEF Once
<1>4. CASE u # Sender
  <2>1. UNCHANGED <<nextSeq, unacked, lastSeq>>
    BY <1>1, <1>4
  <2>2. \A m \in Msgs : \A n \in Nat : Copy(m, n)' => Copy(m, n)
    BY <1>1, <2>1, CopyStays
  <2>3. \A m \in Msgs : /\ Posted(m)' <=> Posted(m)
                        /\ Asked(m)' <=> Asked(m)
                        /\ Kept(m)' <=> Kept(m)
    BY <1>1 DEF Posted, Kept, Asked, AsksFor
  <2>4. Distinct(inbox)'
    BY <1>1 DEF Once, Distinct, AsksFor
  <2>5. \A m \in Msgs : /\ Posted(m)' => Posted(m)
                        /\ Asked(m)' => Asked(m) /\ ~Kept(m)'
                        /\ window[Sender][m] # "unknown" => window'[Sender][m] # "unknown"
    BY <1>1, <2>3 DEF Once
  <2> QED BY <2>1, <2>2, <2>4, <2>5, OnceStays
<1> QED BY <1>3, <1>4

\* What is lost with a connection is no copy any more.
LEMMA LinkLostOnce ==
    ASSUME IInv, Once, NEW u \in Users, LinkLost(u)
    PROVE  Once'
<1>1. /\ link' = [link EXCEPT ![u] = FALSE]
      /\ up' = [up EXCEPT ![u] = <<>>] /\ down' = [down EXCEPT ![u] = <<>>]
      /\ UNCHANGED <<inbox, row, nextSeq, lastSeq, unacked, window>>
  BY DEF LinkLost, server
<1>2. NetworkOK /\ Sender \in Users
  BY PartsOf, UsersAre
<1>3. \A f \in ToSet(up'[Sender]) : f \in ToSet(up[Sender])
  BY <1>1, <1>2, QueuesEmptied
<1>4. \A m \in Msgs : /\ Posted(m)' <=> Posted(m)
                      /\ Asked(m)' <=> Asked(m)
                      /\ Kept(m)' <=> Kept(m)
  BY <1>1 DEF Posted, Kept, Asked, AsksFor
<1>5. Distinct(inbox)'
  BY <1>1 DEF Once, Distinct, AsksFor
<1>6. \A m \in Msgs : \A n \in Nat : Copy(m, n)' => Copy(m, n)
  BY <1>1, <1>3, CopyStays
<1>7. \A m \in Msgs : /\ Posted(m)' => Posted(m)
                      /\ Asked(m)' => Asked(m) /\ ~Kept(m)'
                      /\ window[Sender][m] # "unknown" => window'[Sender][m] # "unknown"
  BY <1>1, <1>4 DEF Once
<1> QED BY <1>1, <1>3, <1>5, <1>6, <1>7, OnceStays

\* A restart forgets the queues.
LEMMA RestartOnce ==
    ASSUME IInv, Once, Restart
    PROVE  Once'
<1>1. /\ link' = [u \in Users |-> FALSE] /\ up' = [u \in Users |-> <<>>] /\ inbox' = <<>>
      /\ UNCHANGED <<row, lastSeq, nextSeq, unacked, window>> /\ Sender \in Users
  BY UsersAre DEF Restart
<1>2. up'[Sender] = <<>> /\ ToSet(up'[Sender]) = {} /\ ToSet(inbox') = {} /\ DOMAIN inbox' = {}
  BY <1>1, EmptySequence
<1>3. \A m \in Msgs : ~Asked(m)' /\ (Kept(m)' <=> Kept(m))
  BY <1>1, <1>2 DEF Asked, Kept
<1>4. \A m \in Msgs : /\ Posted(m)' => Posted(m)
                      /\ Asked(m)' => Asked(m) /\ ~Kept(m)'
  BY <1>3 DEF Posted
<1>5. Distinct(inbox)'
  BY <1>2 DEF Distinct
<1>6. \A m \in Msgs : \A n \in Nat : Copy(m, n)' => Copy(m, n)
  BY <1>1, <1>2, CopyStays
<1> QED BY <1>1, <1>2, <1>4, <1>5, <1>6, OnceStays

\* A message that is written for the first time gets the next number.
LEMMA SendMessageOnce ==
    ASSUME IInv, Once, NEW x \in Msgs, SendMessage(x)
    PROVE  Once'
<1>1. /\ window[Sender][x] = "unknown" /\ nextSeq' = nextSeq + 1
      /\ unacked' = unacked \cup {[msg |-> x, seq |-> nextSeq + 1]}
      /\ UNCHANGED <<inbox, row, lastSeq>>
  BY DEF SendMessage, server
<1>2. /\ \A m \in Msgs : window'[Sender][m] = IF m = x THEN "sending" ELSE window[Sender][m]
      /\ \A f : f \in ToSet(up'[Sender]) <=> f \in ToSet(up[Sender]) \/ f = Private(x, nextSeq + 1)
  BY SendMessageKeeps
<1>3. nextSeq \in Nat /\ lastSeq \in Nat
  BY PartsOf DEF ClientOK, ServerOK
<1>4. \A n \in Nat : ~Copy(x, n)
  BY <1>1 DEF Once, Copies
<1>5. ~Posted(x)
  BY <1>1 DEF Once
<1>6. \A m \in Msgs : /\ Posted(m)' <=> Posted(m)
                      /\ Asked(m)' <=> Asked(m)
                      /\ Kept(m)' <=> Kept(m)
  BY <1>1 DEF Posted, Kept, Asked, AsksFor
<1>7. ASSUME NEW m \in Msgs, NEW n \in Nat, Copy(m, n)'
      PROVE  Copy(m, n) \/ (m = x /\ n = nextSeq + 1)
  <2>1. CASE [msg |-> m, seq |-> n] \in unacked'
    <3>1. [msg |-> m, seq |-> n] = [msg |-> x, seq |-> nextSeq + 1] => m = x /\ n = nextSeq + 1
      OBVIOUS
    <3> QED BY <1>1, <2>1, <3>1 DEF Copy
  <2>2. CASE Private(m, n) \in ToSet(up'[Sender])
    <3>1. Private(m, n) = Private(x, nextSeq + 1) => m = x /\ n = nextSeq + 1
      BY DEF Private
    <3> QED BY <1>2, <2>2, <3>1 DEF Copy
  <2> QED BY <1>7, <2>1, <2>2 DEF Copy
<1>8. Copies'
  <2> SUFFICES ASSUME NEW m \in Msgs, NEW n \in Nat, Copy(m, n)'
               PROVE  /\ n <= nextSeq' /\ window'[Sender][m] # "unknown"
                      /\ \A k \in Nat : Copy(m, k)' => k = n
                      /\ Posted(m)' => n <= lastSeq'
    BY DEF Copies
  <2>1. CASE m = x
    <3>1. n = nextSeq + 1 /\ \A k \in Nat : Copy(m, k)' => k = nextSeq + 1
      BY <1>4, <1>7, <2>1
    <3> QED BY <1>1, <1>2, <1>3, <1>5, <1>6, <2>1, <3>1
  <2>2. CASE m # x
    <3>1. Copy(m, n) /\ \A k \in Nat : Copy(m, k)' => Copy(m, k)
      BY <1>7, <2>2
    <3>2. /\ n <= nextSeq /\ window[Sender][m] # "unknown"
          /\ \A k \in Nat : Copy(m, k)' => k = n
          /\ Posted(m) => n <= lastSeq
      BY <3>1 DEF Once, Copies
    <3> QED BY <1>1, <1>2, <1>3, <1>6, <2>2, <3>2
  <2> QED BY <2>1, <2>2
<1>9. \A m \in Msgs : /\ Posted(m)' => window'[Sender][m] # "unknown"
                      /\ Asked(m)' => ~Kept(m)'
  BY <1>2, <1>6 DEF Once
<1>10. Distinct(inbox)'
  BY <1>1 DEF Once, Distinct, AsksFor
<1>11. lastSeq' <= nextSeq'
  BY <1>1, <1>3 DEF Once
<1> QED BY <1>1, <1>8, <1>9, <1>10, <1>11 DEF Once

\* What the clients take changes no number and makes no copy.
LEMMA ClientOnce ==
    ASSUME IInv, Once, NEW u \in Users, ClientStep(u)
    PROVE  Once'
<1>0. Sender \in Users /\ Receiver \in Users /\ Sender # Receiver
  BY UsersAre
<1>1. CASE TakeAuth(u)
  <2>1. UNCHANGED <<up, inbox, row, nextSeq, lastSeq, unacked, window>>
    BY <1>1 DEF TakeAuth, server
  <2> QED BY <2>1, CopyStays, OnceQuiet
<1>2. CASE TakeHistory(u)
  <2>1. PICK rows : rows = Head(down[u]).rows
    OBVIOUS
  <2>2. /\ \A w \in Users : w # u => window'[w] = window[w]
        /\ \A x \in Msgs : window'[u][x] =
               IF rows[x] = "none" THEN window[u][x]
               ELSE IF rows[x] = "pending" THEN "sending" ELSE rows[x]
        /\ rows \in [Msgs -> RowStates]
        /\ UNCHANGED <<up, server, nextSeq, unacked>>
    BY <1>2, <2>1, TakeHistoryIs
  <2>3. \A m \in Msgs : rows[m] \in {"none", "pending", "delivered", "read"}
    BY <2>2 DEF RowStates
  <2>4. \A m \in Msgs : window[Sender][m] # "unknown" => window'[Sender][m] # "unknown"
    <3>1. CASE u = Sender
      BY <2>2, <2>3, <3>1
    <3>2. CASE u # Sender
      BY <1>0, <2>2, <3>2
    <3> QED BY <3>1, <3>2
  <2>5. UNCHANGED <<inbox, row, lastSeq>>
    BY <2>2 DEF server
  <2> QED BY <2>2, <2>4, <2>5, CopyStays, OnceQuiet
<1>3. CASE TakeAck
  <2>1. /\ UNCHANGED <<up, inbox, row, nextSeq, lastSeq, window>>
        /\ \A p \in unacked' : p \in unacked
    BY <1>3 DEF TakeAck, server
  <2> QED BY <2>1, CopyStays, OnceQuiet
<1>4. CASE TakeStatus
  <2>1. PICK f : f = Head(down[Sender])
    OBVIOUS
  <2>2. /\ f.kind \in {"queued", "delivered", "read"}
        /\ \A x \in Msgs : window'[Sender][x] =
               IF x = f.msg /\ window[Sender][x] # "unknown"
               THEN StatusOf(f.kind) ELSE window[Sender][x]
        /\ UNCHANGED <<up, server, nextSeq, unacked>>
    BY <1>4, <2>1, TakeStatusIs
  <2>3. StatusOf(f.kind) # "unknown"
    BY <2>2 DEF StatusOf
  <2>4. UNCHANGED <<inbox, row, lastSeq>>
    BY <2>2 DEF server
  <2> QED BY <2>2, <2>3, <2>4, CopyStays, OnceQuiet
<1>5. CASE TakeError
  <2>1. UNCHANGED <<up, inbox, row, nextSeq, lastSeq, unacked, window>>
    BY <1>5 DEF TakeError, server, client
  <2> QED BY <2>1, CopyStays, OnceQuiet
<1>6. CASE TakePrivate
  <2>1. UNCHANGED <<inbox, row, nextSeq, lastSeq, unacked>>
    BY <1>6 DEF TakePrivate, server
  <2>2. window'[Sender] = window[Sender] /\ up'[Sender] = up[Sender]
    BY <1>6, TakePrivateKeeps
  <2> QED BY <2>1, <2>2, CopyStays, OnceQuiet
<1> QED BY <1>1, <1>2, <1>3, <1>4, <1>5, <1>6 DEF ClientStep

\* A frame that is written is the only one that is new.
LEMMA UploadOne ==
    ASSUME NetworkOK, NEW u \in Users, NEW f \in ClientFrames, Upload(u, <<f>>)
    PROVE  \A w \in Users : \A g \in ToSet(up'[w]) : g \in ToSet(up[w]) \/ g = f
<1>1. <<f>> \in Seq(ClientFrames) /\ ToSet(<<f>>) = {f}
  BY OneElement
<1>2. /\ \A w \in Users : w # u => up'[w] = up[w]
      /\ \A g : g \in ToSet(up'[u]) <=> g \in ToSet(up[u]) \/ g \in ToSet(<<f>>)
  BY <1>1, UploadIs
<1> QED BY <1>1, <1>2

\* What the clients write makes no new copy, except for a message that is new.
LEMMA UploadOnce ==
    ASSUME IInv, Once,
           \/ \E u \in Users : AskToSignIn(u) \/ RequestHistory(u)
           \/ \E p \in unacked : Retry(p)
           \/ \E m \in Msgs : GiveUp(m)
           \/ MarkRead
    PROVE  Once'
<1>0. NetworkOK /\ Sender \in Users /\ Receiver \in Users /\ Sender # Receiver
  BY PartsOf, UsersAre
<1>1. UNCHANGED <<inbox, row, nextSeq, lastSeq, unacked>>
  BY DEF AskToSignIn, RequestHistory, Retry, GiveUp, MarkRead, server, client
<1>2. ASSUME NEW u \in Users, AskToSignIn(u) \/ RequestHistory(u)
      PROVE  Once'
  <2>1. window' = window
    BY <1>2 DEF AskToSignIn, RequestHistory, client
  <2>2. PICK f \in ClientFrames : Upload(u, <<f>>) /\ f.kind # "private"
    BY <1>2, SignalsAre DEF AskToSignIn, RequestHistory
  <2>3. \A g \in ToSet(up'[Sender]) : g \in ToSet(up[Sender]) \/ g = f
    BY <1>0, <2>2, UploadOne
  <2> QED BY <1>1, <2>1, <2>2, <2>3, CopyStays, OnceQuiet
<1>3. ASSUME NEW p \in unacked, Retry(p)
      PROVE  Once'
  <2>1. window' = window
    BY <1>3 DEF Retry, client
  <2>2. p.msg \in Msgs /\ p.seq \in Nat
    BY <1>3, RetryKeeps
  <2>3. PICK f \in ClientFrames : f = Private(p.msg, p.seq) /\ Upload(Sender, <<f>>)
    BY <1>3, <2>2, FramesAre DEF Retry
  <2>4. \A g \in ToSet(up'[Sender]) : g \in ToSet(up[Sender]) \/ g = f
    BY <1>0, <2>3, UploadOne
  <2>5. p = [msg |-> p.msg, seq |-> p.seq]
    BY PartsOf DEF ClientOK
  <2>6. ASSUME NEW m \in Msgs, NEW n \in Nat, Copy(m, n)'
        PROVE  Copy(m, n)
    <3>1. CASE Private(m, n) = f
      <4>1. m = p.msg /\ n = p.seq
        BY <2>3, <3>1 DEF Private
      <4> QED BY <2>5, <4>1 DEF Copy
    <3>2. CASE Private(m, n) # f
      BY <1>1, <2>4, <2>6, <3>2 DEF Copy
    <3> QED BY <3>1, <3>2
  <2> QED BY <1>1, <2>1, <2>6, OnceQuiet
<1>4. CASE \E m \in Msgs : GiveUp(m)
  <2>1. UNCHANGED <<up, window>>
    BY <1>4 DEF GiveUp, network, client
  <2> QED BY <1>1, <2>1, CopyStays, OnceQuiet
<1>5. CASE MarkRead
  <2>1. window'[Sender] = window[Sender] /\ up'[Sender] = up[Sender]
    BY <1>5, MarkReadKeeps
  <2> QED BY <1>1, <2>1, CopyStays, OnceQuiet
<1> QED BY <1>2, <1>3, <1>4, <1>5

\* A private message that is no duplicate was not posted before.
LEMMA ReceivePrivateOnce ==
    ASSUME IInv, Once, ReceivePrivate
    PROVE  Once'
<1>0. NetworkOK /\ ServerOK /\ Sender \in Users
  BY PartsOf, UsersAre
<1>1. PICK f : f = Head(up[Sender])
  OBVIOUS
<1>2. /\ f \in ToSet(up[Sender]) /\ f.msg \in Msgs /\ f.seq \in Nat
      /\ f = Private(f.msg, f.seq) /\ FromPeer(Sender)
      /\ \/ f.seq <= lastSeq /\ lastSeq' = lastSeq /\ inbox' = inbox
         \/ f.seq > lastSeq /\ lastSeq' = f.seq /\ Post(Sender)
  BY <1>1, ReceivePrivateKeeps
<1>3. UNCHANGED <<row, nextSeq, unacked, window>>
  BY DEF ReceivePrivate, client
<1>4. \A g \in ToSet(up'[Sender]) : g \in ToSet(up[Sender])
  BY <1>0, <1>2, FromPeerIs
<1>5. \A m \in Msgs : \A n \in Nat : Copy(m, n)' => Copy(m, n)
  BY <1>3, <1>4, CopyStays
<1>6. CASE lastSeq' = lastSeq /\ inbox' = inbox
  BY <1>3, <1>5, <1>6, OnceQuiet
<1>7. CASE f.seq > lastSeq /\ lastSeq' = f.seq /\ Post(Sender)
  <2>1. f \in ClientFrames /\ f.kind = "private"
    BY <1>0, <1>1, <1>2, FromPeerIs, FramesAre
  <2>2. PICK e \in Events : e = Event(Sender, f) /\ e.frame = f
    BY <1>0, <2>1, EventIs
  <2>3. inbox' = Append(inbox, e)
    BY <1>1, <1>7, <2>2 DEF Post
  <2>4. \A z : z \in ToSet(inbox') <=> z \in ToSet(inbox) \/ z = e
    BY <1>0, <2>3, PostIs
  <2>5. \A m \in Msgs : AsksFor(e, m) <=> m = f.msg
    BY <2>1, <2>2 DEF AsksFor
  <2>6. /\ Copy(f.msg, f.seq) /\ f.seq <= nextSeq /\ window[Sender][f.msg] # "unknown"
        /\ \A k \in Nat : Copy(f.msg, k) => k = f.seq
        /\ Posted(f.msg) => f.seq <= lastSeq
    <3>1. Copy(f.msg, f.seq)
      BY <1>2 DEF Copy
    <3> QED BY <1>2, <3>1 DEF Once, Copies
  <2>7. lastSeq \in Nat /\ nextSeq \in Nat /\ ~Posted(f.msg)
    BY <1>0, <1>2, <1>7, <2>6, PartsOf DEF ServerOK, ClientOK
  <2>8. \A m \in Msgs : Kept(m)' <=> Kept(m)
    BY <1>3 DEF Kept
  <2>9. \A m \in Msgs : Asked(m)' <=> Asked(m) \/ m = f.msg
    BY <2>4, <2>5 DEF Asked, AsksFor
  <2>10. \A m \in Msgs : Posted(m)' <=> Posted(m) \/ m = f.msg
    BY <2>8, <2>9 DEF Posted
  <2>11. Distinct(inbox)'
    <3>1. inbox \in Seq(Events) /\ Distinct(inbox)
      BY <1>0 DEF ServerOK, Once
    <3>2. \A m \in Msgs : AsksFor(e, m) => \A x \in ToSet(inbox) : ~AsksFor(x, m)
      BY <2>5, <2>7 DEF Posted, Asked
    <3>3. Distinct(Append(inbox, e))
      BY <3>1, <3>2, DistinctAppend
    <3> QED BY <2>3, <3>3 DEF Distinct, AsksFor
  <2>12. Copies'
    <3> SUFFICES ASSUME NEW m \in Msgs, NEW n \in Nat, Copy(m, n)'
                 PROVE  /\ n <= nextSeq' /\ window'[Sender][m] # "unknown"
                        /\ \A k \in Nat : Copy(m, k)' => k = n
                        /\ Posted(m)' => n <= lastSeq'
      BY DEF Copies
    <3>1. /\ n <= nextSeq /\ window[Sender][m] # "unknown"
          /\ \A k \in Nat : Copy(m, k) => k = n
          /\ Posted(m) => n <= lastSeq
      BY <1>5 DEF Once, Copies
    <3>2. /\ n <= nextSeq' /\ window'[Sender][m] # "unknown"
          /\ \A k \in Nat : Copy(m, k)' => k = n
      BY <1>3, <1>5, <3>1
    <3>3. CASE m = f.msg
      <4>1. n = f.seq
        BY <1>2, <2>6, <3>1, <3>3
      <4> QED BY <1>2, <1>7, <3>2, <4>1
    <3>4. CASE m # f.msg
      <4>1. Posted(m)' => n <= lastSeq
        BY <2>10, <3>1, <3>4
      <4> QED BY <1>2, <1>7, <2>7, <3>2, <4>1
    <3> QED BY <3>3, <3>4
  <2>13. \A m \in Msgs : /\ Posted(m)' => window'[Sender][m] # "unknown"
                         /\ Asked(m)' => ~Kept(m)'
    BY <1>3, <2>6, <2>7, <2>8, <2>9, <2>10 DEF Once, Posted
  <2>14. lastSeq' <= nextSeq'
    BY <1>3, <1>7, <2>6
  <2> QED BY <2>11, <2>12, <2>13, <2>14 DEF Once
<1> QED BY <1>2, <1>6, <1>7

\* A worker posts what is no private message.
LEMMA WorkerOnce ==
    ASSUME IInv, Once, ReceiveAck \/ \E u \in Users : ReceivePlain(u)
    PROVE  Once'
<1>0. NetworkOK /\ Sender \in Users /\ Receiver \in Users
  BY PartsOf, UsersAre
<1>1. UNCHANGED <<row, nextSeq, lastSeq, unacked, window>>
  BY DEF ReceiveAck, ReceivePlain, client
<1>2. PICK u \in Users : /\ FromPeer(u) /\ Head(up[u]).kind # "private"
                         /\ Post(u) \/ inbox' = inbox
  BY <1>0 DEF ReceiveAck, ReceivePlain
<1>3. \A f \in ToSet(up'[Sender]) : f \in ToSet(up[Sender])
  BY <1>0, <1>2, FromPeerIs
<1>4. CASE inbox' = inbox
  BY <1>1, <1>3, <1>4, CopyStays, OnceQuiet
<1>5. CASE Post(u)
  <2>1. PICK f \in ClientFrames : f = Head(up[u])
    BY <1>0, <1>2, FromPeerIs
  <2>2. PICK e \in Events : e = Event(u, f) /\ e.frame = f
    BY <1>0, <2>1, EventIs
  <2>3. inbox' = Append(inbox, e) /\ e.frame.kind # "private"
    BY <1>2, <1>5, <2>1, <2>2 DEF Post
  <2> QED BY <1>1, <1>3, <2>3, OncePosts
<1> QED BY <1>2, <1>4, <1>5

\* The main thread stores what it is asked for, and only that.
LEMMA ServerOnce ==
    ASSUME IInv, Once, ServerStep
    PROVE  Once'
<1>0. ServerOK /\ Sender \in Users /\ Receiver \in Users
  BY PartsOf, UsersAre
<1>1. UNCHANGED <<up, nextSeq, lastSeq, unacked, window>>
  BY DEF ServerStep, HandlePrivate, HandleAcknowledged, HandleRead, HandleSignIn,
         HandleHistory, HandleClosed, HandleStranger, network, client
<1>2. CASE HandlePrivate
  <2>1. PICK x : x = Current.frame.msg
    OBVIOUS
  <2>2. Handle(Sender, "private") /\ x \in Msgs /\ (row' = row \/ row' = Stored(x))
    BY <1>2, <2>1, HandlePrivateIs
  <2>3. AsksFor(Current, x)
    BY <1>0, <2>1, <2>2, HandleIs DEF AsksFor
  <2>4. \A m \in Msgs : Kept(m)' => Kept(m) \/ m = x
    BY <1>0, <2>2, RowsAre DEF Kept
  <2> QED BY <1>0, <1>1, <2>2, <2>3, <2>4, OnceTakes
<1>3. CASE HandleAcknowledged
  <2>1. PICK x : x = Current.frame.msg
    OBVIOUS
  <2>2. Handle(Receiver, "ack") /\ x \in Msgs /\ (row' = row \/ row' = Delivered(x))
    BY <1>3, <2>1, HandleAcknowledgedIs
  <2>3. \A m \in Msgs : Kept(m)' => Kept(m)
    BY <1>0, <2>2, RowsAre DEF Kept
  <2> QED BY <1>0, <1>1, <2>2, <2>3, OnceTakes
<1>4. CASE HandleRead
  <2>1. PICK x : x = Current.frame.msg
    OBVIOUS
  <2>2. Handle(Receiver, "read") /\ x \in Msgs /\ (row' = row \/ row' = Read(x))
    BY <1>4, <2>1, HandleReadIs
  <2>3. \A m \in Msgs : Kept(m)' => Kept(m)
    BY <1>0, <2>2, RowsAre DEF Kept
  <2> QED BY <1>0, <1>1, <2>2, <2>3, OnceTakes
<1>5. ASSUME NEW u \in Users,
             HandleSignIn(u) \/ HandleHistory(u) \/ HandleClosed(u) \/ HandleStranger(u, "private")
      PROVE  Once'
  <2>1. PICK kind : Handle(u, kind)
    BY <1>5 DEF HandleSignIn, HandleHistory, HandleClosed, HandleStranger
  <2>2. row' = row
    BY <1>5 DEF HandleSignIn, HandleHistory, HandleClosed, HandleStranger
  <2>3. \A m \in Msgs : Kept(m)' => Kept(m)
    BY <2>2 DEF Kept
  <2> QED BY <1>1, <2>1, <2>3, OnceTakes
<1> QED BY <1>0, <1>2, <1>3, <1>4, <1>5 DEF ServerStep

\* No step stores a message twice.
LEMMA NextOnce ==
    ASSUME ~AutoReconnect, IInv, LInv, Once, [Next]_vars
    PROVE  Once'
<1>1. CASE ServerStep
  BY <1>1, ServerOnce
<1>2. ASSUME NEW u \in Users, WorkerStep(u)
      PROVE  Once'
  BY <1>2, ReceivePrivateOnce, WorkerOnce DEF WorkerStep
<1>3. ASSUME NEW u \in Users, ClientStep(u)
      PROVE  Once'
  BY <1>3, ClientOnce
<1>4. ASSUME NEW e \in unnoticed, NoticeEnd(e)
      PROVE  Once'
  <2>1. UNCHANGED <<up, row, nextSeq, lastSeq, unacked, window>>
    BY <1>4 DEF NoticeEnd, client
  <2>2. PICK x : x = [user |-> e.user, conn |-> e.conn, frame |-> Signal("closed")]
    OBVIOUS
  <2>3. x \in Events /\ inbox' = Append(inbox, x)
    BY <1>4, <2>2, NoticeEndKeeps DEF NoticeEnd
  <2>4. x.frame.kind # "private"
    BY <2>2, SignalsAre
  <2> QED BY <2>1, <2>3, <2>4, OncePosts
<1>5. CASE UserStep
  <2>1. ~Reconnect
    BY DEF Reconnect
  <2>2. ASSUME NEW u \in Users, Connect(u) \/ LinkLost(u)
        PROVE  Once'
    BY <2>2, ConnectOnce, LinkLostOnce
  <2>3. ASSUME NEW m \in Msgs, SendMessage(m)
        PROVE  Once'
    BY <2>3, SendMessageOnce
  <2> QED BY <1>5, <2>1, <2>2, <2>3, RestartOnce, UploadOnce DEF UserStep
<1>6. CASE UNCHANGED vars
  <2>1. UNCHANGED <<up, inbox, row, nextSeq, lastSeq, unacked, window>>
    BY <1>6 DEF vars, network, server, client
  <2> QED BY <2>1, CopyStays, OnceQuiet
<1> QED BY <1>1, <1>2, <1>3, <1>4, <1>5, <1>6 DEF Next

-----------------------------------------------------------------------------
(* The sender's window never goes back. *)

\* A frame after which the window shows message m as delivered or read, and one after which
\* it shows it as being sent.
Shows(f, m) ==
    (f.kind \in Marks /\ f.msg = m) \/ (f.kind = "history" /\ f.rows[m] \in Marks)
Takes(f, m) ==
    (f.kind = "queued" /\ f.msg = m) \/ (f.kind = "history" /\ f.rows[m] = "pending")

\* Nothing that takes a mark back follows what shows it.
Ordered(q, m) == \A i, j \in DOMAIN q : i < j /\ Shows(q[i], m) => ~Takes(q[j], m)

Shown(m) == window[Sender][m] \in Marks

\* What the sender is shown, or about to be, is marked in the table, and nothing under way
\* takes it back.
Order ==
    \A m \in Msgs :
        /\ Shown(m) => /\ Marked(m)
                       /\ \A f \in ToSet(down[Sender]) : ~Takes(f, m)
        /\ \A f \in ToSet(down[Sender]) : Shows(f, m) => Marked(m)
        /\ Ordered(down[Sender], m)

\* The property's step.
Stays == \A m \in Msgs : Shown(m) => Shown(m)'

\* What is left of such a queue, and what its head allows.
LEMMA OrderedTail ==
    ASSUME NEW q \in Seq(ServerFrames), q # <<>>, NEW m, Ordered(q, m)
    PROVE  /\ Ordered(Tail(q), m)
           /\ Shows(Head(q), m) => \A f \in ToSet(Tail(q)) : ~Takes(f, m)
<1>1. /\ Tail(q) \in Seq(ServerFrames) /\ Head(q) = q[1]
      /\ DOMAIN q = 1 .. Len(q) /\ DOMAIN Tail(q) = 1 .. (Len(q) - 1)
      /\ Len(q) \in Nat \ {0} /\ \A k \in 1 .. (Len(q) - 1) : Tail(q)[k] = q[k + 1]
  BY TailOf
<1>2. \A k \in 1 .. (Len(q) - 1) : k + 1 \in DOMAIN q /\ 1 < k + 1 /\ k \in Nat
  BY <1>1
<1>3. 1 \in DOMAIN q
  BY <1>1
<1>4. ASSUME NEW i \in DOMAIN Tail(q), NEW j \in DOMAIN Tail(q), i < j, Shows(Tail(q)[i], m)
      PROVE  ~Takes(Tail(q)[j], m)
  <2>1. i + 1 \in DOMAIN q /\ j + 1 \in DOMAIN q /\ i + 1 < j + 1
    BY <1>1, <1>2, <1>4
  <2>2. Tail(q)[i] = q[i + 1] /\ Tail(q)[j] = q[j + 1]
    BY <1>1
  <2> QED BY <1>4, <2>1, <2>2 DEF Ordered
<1>5. ASSUME Shows(Head(q), m), NEW f \in ToSet(Tail(q))
      PROVE  ~Takes(f, m)
  <2>1. PICK k \in DOMAIN Tail(q) : f = Tail(q)[k]
    BY <1>1 DEF ToSet
  <2>2. f = q[k + 1] /\ k + 1 \in DOMAIN q /\ 1 < k + 1
    BY <1>1, <1>2, <2>1
  <2>3. Shows(q[1], m)
    BY <1>1, <1>5
  <2> QED BY <1>3, <2>2, <2>3 DEF Ordered
<1> QED BY <1>4, <1>5 DEF Ordered

\* Frames are added that take nothing, or to a queue that shows nothing.
LEMMA OrderedConcat ==
    ASSUME NEW q \in Seq(ServerFrames), NEW r \in Seq(ServerFrames), NEW m, Ordered(q, m),
           \/ \A f \in ToSet(r) : ~Takes(f, m)
           \/ \A f : f \in ToSet(q) \/ f \in ToSet(r) => ~Shows(f, m)
    PROVE  Ordered(q \o r, m)
<1> DEFINE p == q \o r
<1>1. /\ DOMAIN p = 1 .. (Len(q) + Len(r)) /\ DOMAIN q = 1 .. Len(q) /\ DOMAIN r = 1 .. Len(r)
      /\ Len(q) \in Nat /\ Len(r) \in Nat
      /\ \A k \in 1 .. Len(q) : p[k] = q[k]
      /\ \A k \in (Len(q) + 1) .. (Len(q) + Len(r)) : p[k] = r[k - Len(q)]
  BY ConcatOf
<1> HIDE DEF p
<1>2. ASSUME NEW k \in DOMAIN p, k \notin DOMAIN q
      PROVE  p[k] \in ToSet(r)
  <2>1. k \in (Len(q) + 1) .. (Len(q) + Len(r)) /\ k - Len(q) \in DOMAIN r
    BY <1>1, <1>2
  <2>2. p[k] = r[k - Len(q)]
    BY <1>1, <2>1
  <2> QED BY <2>1, <2>2, ElementsOf
<1>3. ASSUME NEW k \in DOMAIN q
      PROVE  p[k] = q[k] /\ p[k] \in ToSet(q)
  <2>1. p[k] = q[k]
    BY <1>1, <1>3
  <2> QED BY <2>1, ElementsOf
<1>4. ASSUME NEW i \in DOMAIN p, NEW j \in DOMAIN p, i < j, Shows(p[i], m)
      PROVE  ~Takes(p[j], m)
  <2>1. ~\A f : f \in ToSet(q) \/ f \in ToSet(r) => ~Shows(f, m)
    BY <1>2, <1>3, <1>4
  <2>2. CASE j \notin DOMAIN q
    BY <1>2, <2>1, <2>2
  <2>3. CASE j \in DOMAIN q
    <3>1. i \in DOMAIN q
      BY <1>1, <1>4, <2>3
    <3>2. Shows(q[i], m) /\ p[j] = q[j]
      BY <1>3, <1>4, <2>3, <3>1
    <3> QED BY <1>4, <2>3, <3>1, <3>2 DEF Ordered
  <2> QED BY <2>2, <2>3
<1>5. Ordered(p, m)
  BY <1>4 DEF Ordered
<1> QED BY <1>5 DEF p

\* Nothing is out of order in an empty queue.
LEMMA OrderedEmpty ==
    ASSUME NEW q, q = <<>>, NEW m
    PROVE  Ordered(q, m) /\ \A f \in ToSet(q) : FALSE
BY EmptySequence DEF Ordered

\* A step that leaves the sender's queue and window as they are, or empties the queue.
LEMMA OrderSteady ==
    ASSUME Order, down'[Sender] = down[Sender] \/ down'[Sender] = <<>>,
           \A m \in Msgs : Shown(m)' <=> Shown(m),
           \A m \in Msgs : Marked(m) => Marked(m)'
    PROVE  Order' /\ Stays
<1>1. Stays
  BY DEF Stays
<1> SUFFICES ASSUME NEW m \in Msgs
             PROVE  /\ Shown(m)' => /\ Marked(m)'
                                    /\ \A f \in ToSet(down'[Sender]) : ~Takes(f, m)
                    /\ \A f \in ToSet(down'[Sender]) : Shows(f, m) => Marked(m)'
                    /\ Ordered(down'[Sender], m)
  BY <1>1 DEF Order, Takes, Shows, Ordered
<1>2. CASE down'[Sender] = down[Sender]
  BY <1>2 DEF Order
<1>3. CASE down'[Sender] = <<>>
  BY <1>3, OrderedEmpty DEF Order
<1> QED BY <1>2, <1>3

\* A step that sends the sender what the table says.
LEMMA OrderSends ==
    ASSUME IInv, Order, NEW r \in Seq(ServerFrames),
           down'[Sender] = down[Sender] \/ down'[Sender] = down[Sender] \o r,
           \A m \in Msgs : Shown(m)' <=> Shown(m),
           \A m \in Msgs : Marked(m) => Marked(m)',
           \A m \in Msgs : \A f \in ToSet(r) : /\ Takes(f, m) => ~Marked(m)'
                                               /\ Shows(f, m) => Marked(m)'
    PROVE  Order' /\ Stays
<1>0. down[Sender] \in Seq(ServerFrames)
  BY PartsOf, UsersAre DEF NetworkOK
<1>1. CASE down'[Sender] = down[Sender]
  BY <1>1, OrderSteady
<1>2. CASE down'[Sender] = down[Sender] \o r
  <2>1. Stays
    BY DEF Stays
  <2>2. ASSUME NEW f, f \in ToSet(down'[Sender])
        PROVE  f \in ToSet(down[Sender]) \/ f \in ToSet(r)
    <3>1. f \in ToSet(down[Sender] \o r)
      BY <1>2, <2>2
    <3>2. \A z : z \in ToSet(down[Sender] \o r) <=> z \in ToSet(down[Sender]) \/ z \in ToSet(r)
      BY <1>0, ConcatElements, Zenon
    <3> QED BY <3>1, <3>2
  <2> SUFFICES ASSUME NEW m \in Msgs
               PROVE  /\ Shown(m)' => /\ Marked(m)'
                                      /\ \A f \in ToSet(down'[Sender]) : ~Takes(f, m)
                      /\ \A f \in ToSet(down'[Sender]) : Shows(f, m) => Marked(m)'
                      /\ Ordered(down'[Sender], m)
    BY <2>1 DEF Order, Takes, Shows, Ordered
  <2>3. \A f \in ToSet(down'[Sender]) : Shows(f, m) => Marked(m)'
    BY <2>2 DEF Order
  <2>4. Shown(m)' => Marked(m)'
    BY DEF Order
  <2>5. Shown(m)' => \A f \in ToSet(down'[Sender]) : ~Takes(f, m)
    BY <2>2, <2>4 DEF Order
  <2>6. Ordered(down[Sender], m)
    BY DEF Order
  <2>7. CASE Marked(m)'
    <3>1. \A f \in ToSet(r) : ~Takes(f, m)
      BY <2>7
    <3>2. Ordered(down[Sender] \o r, m)
      BY <1>0, <2>6, <3>1, OrderedConcat
    <3> QED BY <1>2, <2>3, <2>4, <2>5, <3>2
  <2>8. CASE ~Marked(m)'
    <3>1. \A f : f \in ToSet(down[Sender]) \/ f \in ToSet(r) => ~Shows(f, m)
      BY <2>8 DEF Order
    <3>2. Ordered(down[Sender] \o r, m)
      BY <1>0, <2>6, <3>1, OrderedConcat
    <3> QED BY <1>2, <2>3, <2>4, <2>5, <3>2
  <2> QED BY <2>7, <2>8
<1> QED BY <1>1, <1>2

\* A step of the sender's client that takes a frame: it shows nothing the frame does not.
LEMMA OrderTakes ==
    ASSUME IInv, Order, row' = row, NEW kind, Arrives(Sender, kind),
           \A m \in Msgs : Shown(m)' => Shown(m) \/ Shows(Head(down[Sender]), m),
           \A m \in Msgs : Shown(m) => Shown(m)' \/ Takes(Head(down[Sender]), m)
    PROVE  Order' /\ Stays
<1>0. NetworkOK /\ Sender \in Users
  BY PartsOf, UsersAre
<1>1. /\ down[Sender] \in Seq(ServerFrames) /\ down[Sender] # <<>>
      /\ down'[Sender] = Tail(down[Sender]) /\ Head(down[Sender]) \in ToSet(down[Sender])
      /\ \A f \in ToSet(down'[Sender]) : f \in ToSet(down[Sender])
  BY <1>0, ArrivesIs DEF NetworkOK
<1>2. Stays
  BY <1>1 DEF Stays, Order
<1>3. \A m \in Msgs : Marked(m)' <=> Marked(m)
  BY DEF Marked
<1> SUFFICES ASSUME NEW m \in Msgs
             PROVE  /\ Shown(m)' => /\ Marked(m)'
                                    /\ \A f \in ToSet(down'[Sender]) : ~Takes(f, m)
                    /\ \A f \in ToSet(down'[Sender]) : Shows(f, m) => Marked(m)'
                    /\ Ordered(down'[Sender], m)
  BY <1>2 DEF Order, Takes, Shows, Ordered
<1>4. /\ Ordered(down'[Sender], m)
      /\ Shows(Head(down[Sender]), m) => \A f \in ToSet(down'[Sender]) : ~Takes(f, m)
  BY <1>1, OrderedTail DEF Order
<1>5. \A f \in ToSet(down'[Sender]) : Shows(f, m) => Marked(m)'
  BY <1>1, <1>3 DEF Order
<1>6. CASE Shown(m)
  <2>1. Marked(m)' /\ \A f \in ToSet(down'[Sender]) : ~Takes(f, m)
    BY <1>1, <1>3, <1>6 DEF Order
  <2> QED BY <1>4, <1>5, <2>1
<1>7. CASE Shows(Head(down[Sender]), m)
  <2>1. Marked(m)'
    BY <1>1, <1>3, <1>7 DEF Order
  <2> QED BY <1>4, <1>5, <1>7, <2>1
<1>8. CASE ~Shown(m)'
  BY <1>4, <1>5, <1>8
<1> QED BY <1>6, <1>7, <1>8

\* One frame is sent to one of the users.
LEMMA OrderSendOne ==
    ASSUME IInv, Order, NEW u \in Users, NEW c, NEW f \in ServerFrames, Send(u, c, <<f>>),
           window' = window,
           \A m \in Msgs : Marked(m) => Marked(m)',
           u = Sender => \A m \in Msgs : /\ Takes(f, m) => ~Marked(m)'
                                         /\ Shows(f, m) => Marked(m)'
    PROVE  Order' /\ Stays
<1>1. \A m \in Msgs : Shown(m)' <=> Shown(m)
  BY DEF Shown
<1>2. CASE u = Sender
  <2>1. <<f>> \in Seq(ServerFrames) /\ ToSet(<<f>>) = {f}
    BY OneElement
  <2>2. down'[Sender] = down[Sender] \/ down'[Sender] = down[Sender] \o <<f>>
    BY <1>2, SendOne
  <2>3. \A m \in Msgs : \A g \in ToSet(<<f>>) : /\ Takes(g, m) => ~Marked(m)'
                                                /\ Shows(g, m) => Marked(m)'
    BY <1>2, <2>1
  <2> QED BY <1>1, <2>1, <2>2, <2>3, OrderSends
<1>3. CASE u # Sender
  <2>1. down'[Sender] = down[Sender]
    BY <1>3, SendOne, UsersAre
  <2> QED BY <1>1, <2>1, OrderSteady
<1> QED BY <1>2, <1>3

\* A frame that is about no message's status.
LEMMA OrderSendPlain ==
    ASSUME IInv, Order, NEW u \in Users, NEW c, NEW f \in ServerFrames, Send(u, c, <<f>>),
           window' = window, row' = row,
           f.kind \notin {"queued", "delivered", "read", "history"}
    PROVE  Order' /\ Stays
<1>1. \A m \in Msgs : ~Takes(f, m) /\ ~Shows(f, m)
  BY DEF Takes, Shows, Marks
<1>2. \A m \in Msgs : Marked(m) => Marked(m)'
  BY DEF Marked
<1> QED BY <1>1, <1>2, OrderSendOne

\* The queued notice is for a message that was not stored before.
LEMMA HandlePrivateOrder ==
    ASSUME IInv, Once, Order, HandlePrivate
    PROVE  Order' /\ Stays
<1>0. NetworkOK /\ ServerOK /\ Sender \in Users /\ Receiver \in Users /\ Sender # Receiver
  BY PartsOf, UsersAre
<1>1. PICK x : x = Current.frame.msg
  OBVIOUS
<1>2. /\ Handle(Sender, "private") /\ x \in Msgs /\ Current \in ToSet(inbox)
      /\ window' = window
  BY <1>1, HandlePrivateIs DEF client
<1>3. AsksFor(Current, x) /\ ~Kept(x)
  <2>1. AsksFor(Current, x)
    BY <1>0, <1>1, <1>2, HandleIs DEF AsksFor
  <2> QED BY <1>2, <2>1 DEF Once, Asked
<1>4. CASE row' = row /\ Send(Sender, Current.conn, <<Signal("error")>>)
  <2>1. PICK f \in ServerFrames : f = Signal("error") /\ f.kind = "error"
    BY SignalsAre
  <2>2. Send(Sender, Current.conn, <<f>>)
    BY <1>4, <2>1
  <2> QED BY <1>0, <1>2, <1>4, <2>1, <2>2, OrderSendPlain
<1>5. ASSUME row' = Stored(x)
      PROVE  /\ \A m \in Msgs : Marked(m) => Marked(m)'
             /\ ~Marked(x)'
  BY <1>0, <1>2, <1>3, <1>5, RowsAre DEF Marked, Kept, Marks
<1>6. CASE row' = Stored(x) /\ Send(Sender, Current.conn, <<Frame("queued", x)>>)
  <2>1. PICK f \in ServerFrames : f = Frame("queued", x) /\ f.kind = "queued" /\ f.msg = x
    BY <1>2, FramesAre
  <2>2. Send(Sender, Current.conn, <<f>>)
    BY <1>6, <2>1
  <2>3. \A m \in Msgs : ~Shows(f, m) /\ (Takes(f, m) => m = x)
    BY <2>1 DEF Takes, Shows, Marks
  <2> QED BY <1>0, <1>2, <1>5, <1>6, <2>2, <2>3, OrderSendOne
<1>7. CASE row' = Stored(x) /\ Send(Receiver, registry[Receiver], <<Frame("private", x)>>)
  <2>1. Frame("private", x) \in ServerFrames
    BY <1>2, FramesAre
  <2> QED BY <1>0, <1>2, <1>5, <1>7, <2>1, OrderSendOne
<1> QED BY <1>1, <1>4, <1>6, <1>7, HandlePrivateIs

\* A status is told after the table has been marked.
LEMMA MarksOrder ==
    ASSUME ~DbFaults, IInv, Order, HandleAcknowledged \/ HandleRead
    PROVE  Order' /\ Stays
<1>0. ServerOK /\ Sender \in Users
  BY PartsOf, UsersAre
<1>1. PICK x : x = Current.frame.msg
  OBVIOUS
<1>2. /\ x \in Msgs /\ Known(x) /\ window' = window
      /\ \/ UNCHANGED <<row, down>>
         \/ row' = Delivered(x) /\ Send(Sender, registry[Sender], <<Frame("delivered", x)>>)
         \/ row' = Read(x) /\ Send(Sender, registry[Sender], <<Frame("read", x)>>)
  BY <1>1, HandleAcknowledgedIs, HandleReadIs DEF client
<1>3. Kept(x)
  BY <1>2 DEF IInv, WindowsTrue
<1>4. CASE UNCHANGED <<row, down>>
  <2>1. \A m \in Msgs : (Marked(m) => Marked(m)') /\ (Shown(m)' <=> Shown(m))
    BY <1>2, <1>4 DEF Marked, Shown
  <2> QED BY <1>4, <2>1, OrderSteady
<1>5. ASSUME NEW kind \in Marks, row' = Delivered(x) \/ row' = Read(x),
             Send(Sender, registry[Sender], <<Frame(kind, x)>>)
      PROVE  Order' /\ Stays
  <2>1. PICK f \in ServerFrames : f = Frame(kind, x) /\ f.kind = kind /\ f.msg = x
    BY <1>2, FramesAre DEF Marks
  <2>2. Send(Sender, registry[Sender], <<f>>)
    BY <1>5, <2>1
  <2>3. \A m \in Msgs : ~Takes(f, m) /\ (Shows(f, m) => m = x)
    BY <2>1 DEF Takes, Shows, Marks
  <2>4. row[x] \in RowStates
    BY <1>0, <1>2 DEF ServerOK
  <2>5. \A m \in Msgs : Marked(m) => Marked(m)'
    BY <1>0, <1>2, <1>5, RowsAre DEF Marked, Marks
  <2>6. Marked(x)'
    BY <1>0, <1>2, <1>3, <1>5, <2>4, RowsAre DEF Marked, Kept, Marks, RowStates
  <2> QED BY <1>0, <1>2, <2>2, <2>3, <2>5, <2>6, OrderSendOne
<1> QED BY <1>2, <1>4, <1>5 DEF Marks

\* The other handlers answer with the table as it is, or with nothing about it.
LEMMA AnswersOrder ==
    ASSUME IInv, Order, NEW u \in Users,
           HandleSignIn(u) \/ HandleHistory(u) \/ HandleClosed(u) \/ HandleStranger(u, "private")
    PROVE  Order' /\ Stays
<1>0. NetworkOK /\ ServerOK /\ Sender \in Users
  BY PartsOf, UsersAre
<1>1. row' = row /\ window' = window
  BY DEF HandleSignIn, HandleHistory, HandleClosed, HandleStranger, client
<1>2. \A m \in Msgs : (Marked(m) <=> Marked(m)') /\ (Shown(m)' <=> Shown(m))
  BY <1>1 DEF Marked, Shown
<1>3. ASSUME NEW c, Send(u, c, <<Signal("auth_error")>>)
      PROVE  Order' /\ Stays
  <2>1. PICK f \in ServerFrames : f = Signal("auth_error") /\ f.kind = "auth_error"
    BY SignalsAre
  <2>2. Send(u, c, <<f>>)
    BY <1>3, <2>1
  <2> QED BY <1>1, <2>1, <2>2, OrderSendPlain
<1>4. CASE HandleSignIn(u)
  <2>1. CASE \E list \in Seq(Msgs), r \in Seq(ServerFrames) :
                /\ u # Receiver => list = <<>>
                /\ \A f \in ToSet(r) : \/ f.msg \in ToSet(list) /\ f = Frame("private", f.msg)
                                       \/ f = Signal("auth_ok")
                /\ Send(u, Current.conn, r)
    <3>1. PICK list \in Seq(Msgs), r \in Seq(ServerFrames) :
                /\ u # Receiver => list = <<>>
                /\ \A f \in ToSet(r) : \/ f.msg \in ToSet(list) /\ f = Frame("private", f.msg)
                                       \/ f = Signal("auth_ok")
                /\ Send(u, Current.conn, r)
      BY <2>1
    <3>2. \A m \in ToSet(list) : m \in Msgs
      BY ElementsOf
    <3>3. ASSUME NEW f \in ToSet(r) PROVE f.kind \in {"private", "auth_ok"}
      BY <3>1, <3>2, FramesAre, SignalsAre
    <3>4. \A m \in Msgs : \A f \in ToSet(r) : ~Takes(f, m) /\ ~Shows(f, m)
      BY <3>3 DEF Takes, Shows, Marks
    <3>5. down'[Sender] = down[Sender] \/ down'[Sender] = down[Sender] \o r
      BY <1>0, <3>1, SendIs
    <3> QED BY <1>2, <3>4, <3>5, OrderSends
  <2> QED BY <1>3, <1>4, <2>1, HandleSignInIs
<1>5. CASE HandleHistory(u)
  <2>1. Handle(u, "history") /\ Answer(History(row))
    BY <1>5 DEF HandleHistory
  <2>2. PICK f \in ServerFrames : f = History(row) /\ f.kind = "history" /\ f.rows = row
    BY <1>0, SignalsAre DEF ServerOK
  <2>3. Current.user = u /\ Send(u, Current.conn, <<f>>)
    BY <1>0, <2>1, <2>2, HandleIs DEF Answer
  <2>4. \A m \in Msgs : /\ Takes(f, m) => ~Marked(m)
                        /\ Shows(f, m) => Marked(m)
    BY <2>2 DEF Takes, Shows, Marked, Marks
  <2> QED BY <1>1, <1>2, <2>3, <2>4, OrderSendOne
<1>6. CASE HandleClosed(u)
  <2>1. down' = down
    BY <1>6 DEF HandleClosed, network
  <2> QED BY <1>2, <2>1, OrderSteady
<1>7. CASE HandleStranger(u, "private")
  <2>1. Handle(u, "private") /\ Answer(Signal("auth_error"))
    BY <1>7 DEF HandleStranger
  <2>2. Current.user = u
    BY <1>0, <2>1, HandleIs
  <2> QED BY <1>3, <2>1, <2>2 DEF Answer
<1> QED BY <1>4, <1>5, <1>6, <1>7

\* The sender's window shows what arrives, in order.
LEMMA ClientOrder ==
    ASSUME IInv, Order, NEW u \in Users, ClientStep(u)
    PROVE  Order' /\ Stays
<1>0. NetworkOK /\ ClientOK /\ Sender \in Users /\ Receiver \in Users /\ Sender # Receiver
  BY PartsOf, UsersAre
<1>1. row' = row
  BY DEF ClientStep, TakeAuth, TakeHistory, TakeAck, TakeStatus, TakeError, TakePrivate, server
<1>2. \A m \in Msgs : Marked(m) => Marked(m)'
  BY <1>1 DEF Marked
<1>3. CASE u = Sender /\ (TakeAuth(u) \/ TakeAck \/ TakeError)
  <2>1. window' = window /\ \E kind : Arrives(Sender, kind)
    BY <1>3 DEF TakeAuth, TakeAck, TakeError, client
  <2>2. \A m \in Msgs : Shown(m)' <=> Shown(m)
    BY <2>1 DEF Shown
  <2> QED BY <1>1, <2>1, <2>2, OrderTakes
<1>4. CASE u = Sender /\ TakeHistory(u)
  <2>1. PICK f : f = Head(down[Sender])
    OBVIOUS
  <2>2. /\ Arrives(Sender, "history")
        /\ f.rows \in [Msgs -> RowStates]
        /\ \A x \in Msgs : window'[Sender][x] =
               IF f.rows[x] = "none" THEN window[Sender][x]
               ELSE IF f.rows[x] = "pending" THEN "sending" ELSE f.rows[x]
    BY <1>4, <2>1, TakeHistoryIs
  <2>3. f.kind = "history"
    BY <2>1, <2>2 DEF Arrives
  <2>4. \A m \in Msgs : f.rows[m] \in {"none", "pending", "delivered", "read"}
    BY <2>2 DEF RowStates
  <2>5. \A m \in Msgs : /\ Takes(f, m) <=> f.rows[m] = "pending"
                        /\ Shows(f, m) <=> f.rows[m] \in Marks
    BY <2>3 DEF Takes, Shows, Marks
  <2>6. \A m \in Msgs : /\ Shown(m)' => Shown(m) \/ Shows(f, m)
                        /\ Shown(m) => Shown(m)' \/ Takes(f, m)
    BY <2>2, <2>4, <2>5 DEF Shown, Marks
  <2> QED BY <1>1, <2>1, <2>2, <2>6, OrderTakes
<1>5. CASE TakeStatus
  <2>1. PICK f : f = Head(down[Sender])
    OBVIOUS
  <2>2. /\ f.kind \in {"queued", "delivered", "read"} /\ Arrives(Sender, f.kind)
        /\ \A x \in Msgs : window'[Sender][x] =
               IF x = f.msg /\ window[Sender][x] # "unknown"
               THEN StatusOf(f.kind) ELSE window[Sender][x]
    BY <1>5, <2>1, TakeStatusIs
  <2>3. StatusOf(f.kind) = IF f.kind = "queued" THEN "sending" ELSE f.kind
    BY DEF StatusOf
  <2>4. \A m \in Msgs : /\ Shown(m)' => Shown(m) \/ Shows(f, m)
                        /\ Shown(m) => Shown(m)' \/ Takes(f, m)
    BY <2>2, <2>3 DEF Shown, Shows, Takes, Marks
  <2> QED BY <1>1, <2>1, <2>2, <2>4, OrderTakes
<1>6. CASE u = Receiver
  <2>1. window'[Sender] = window[Sender] /\ \E kind : Arrives(Receiver, kind)
    <3>1. CASE TakeAuth(u)
      BY <1>6, <3>1 DEF TakeAuth
    <3>2. CASE TakeHistory(u)
      BY <1>0, <1>6, <3>2, TakeHistoryIs
    <3>3. CASE TakePrivate
      BY <3>3, TakePrivateKeeps
    <3> QED BY <1>0, <1>6, <3>1, <3>2, <3>3 DEF ClientStep
  <2>2. down'[Sender] = down[Sender]
    BY <1>0, <2>1, ArrivesIs
  <2>3. \A m \in Msgs : Shown(m)' <=> Shown(m)
    BY <2>1 DEF Shown
  <2> QED BY <1>2, <2>2, <2>3, OrderSteady
<1> QED BY <1>3, <1>4, <1>5, <1>6, UsersAre DEF ClientStep

\* The workers send the sender acknowledgements only.
LEMMA WorkerOrder ==
    ASSUME IInv, Order, NEW u \in Users, WorkerStep(u)
    PROVE  Order' /\ Stays
<1>1. row' = row /\ window' = window
  BY DEF WorkerStep, ReceivePrivate, ReceiveAck, ReceivePlain, client
<1>2. \A m \in Msgs : (Marked(m) => Marked(m)') /\ (Shown(m)' <=> Shown(m))
  BY <1>1 DEF Marked, Shown
<1>3. CASE ReceivePrivate
  <2>1. PICK m : m = Head(up[Sender]).msg
    OBVIOUS
  <2>2. m \in Msgs /\ down'[Sender] = down[Sender] \o <<Frame("ack", m)>>
    BY <1>3, <2>1, ReceivePrivateKeeps
  <2>3. PICK f \in ServerFrames : f = Frame("ack", m) /\ f.kind = "ack"
    BY <2>2, FramesAre
  <2>4. <<f>> \in Seq(ServerFrames) /\ ToSet(<<f>>) = {f}
    BY OneElement
  <2>5. \A x \in Msgs : \A g \in ToSet(<<f>>) : ~Takes(g, x) /\ ~Shows(g, x)
    BY <2>3, <2>4 DEF Takes, Shows, Marks
  <2>6. down'[Sender] = down[Sender] \o <<f>>
    BY <2>2, <2>3
  <2> QED BY <1>2, <2>4, <2>5, <2>6, OrderSends
<1>4. CASE down' = down
  BY <1>2, <1>4, OrderSteady
<1> QED BY <1>3, <1>4 DEF WorkerStep, ReceiveAck, ReceivePlain

\* What the users and the network do shows nothing new.
LEMMA UserOrder ==
    ASSUME IInv, Order, UserStep \/ (\E e \in unnoticed : NoticeEnd(e)) \/ UNCHANGED vars
    PROVE  Order' /\ Stays
<1>0. NetworkOK /\ ClientOK /\ Sender \in Users /\ Receiver \in Users /\ Sender # Receiver
  BY PartsOf, UsersAre
<1>1. row' = row
  BY DEF UserStep, NoticeEnd, vars, Connect, NewConnection, LinkLost, AskToSignIn, RequestHistory,
         SendMessage, GiveUp, Retry, Reconnect, MarkRead, Restart, server
<1>2. \A m \in Msgs : Marked(m) => Marked(m)'
  BY <1>1 DEF Marked
<1>3. \A m \in Msgs : Shown(m)' <=> Shown(m)
  <2>1. CASE MarkRead
    <3>1. window'[Sender] = window[Sender]
      BY <2>1, MarkReadKeeps
    <3> QED BY <3>1 DEF Shown
  <2>2. ASSUME NEW x \in Msgs, SendMessage(x)
        PROVE  \A m \in Msgs : Shown(m)' <=> Shown(m)
    <3>1. /\ window[Sender][x] = "unknown"
          /\ \A m \in Msgs : window'[Sender][m] = IF m = x THEN "sending" ELSE window[Sender][m]
      BY <2>2, SendMessageKeeps DEF SendMessage
    <3> QED BY <3>1 DEF Shown, Marks
  <2>3. CASE window' = window
    BY <2>3 DEF Shown
  <2>4. \/ MarkRead
        \/ \E x \in Msgs : SendMessage(x)
        \/ window' = window
    BY DEF UserStep, NoticeEnd, vars, Connect, NewConnection, LinkLost, AskToSignIn,
           RequestHistory, GiveUp, Retry, Reconnect, Restart, client
  <2> QED BY <2>1, <2>2, <2>3, <2>4
<1>4. down'[Sender] = down[Sender] \/ down'[Sender] = <<>>
  <2>1. ASSUME NEW u \in Users, down' = [down EXCEPT ![u] = <<>>]
        PROVE  down'[Sender] = down[Sender] \/ down'[Sender] = <<>>
    BY <1>0, <2>1 DEF NetworkOK
  <2>2. CASE down' = [u \in Users |-> <<>>]
    BY <1>0, <2>2
  <2>3. \/ down' = down
        \/ \E u \in Users : down' = [down EXCEPT ![u] = <<>>]
        \/ down' = [u \in Users |-> <<>>]
    BY DEF UserStep, NoticeEnd, vars, Connect, NewConnection, LinkLost, AskToSignIn,
           RequestHistory, SendMessage, GiveUp, Retry, Reconnect, MarkRead, Restart, network
  <2> QED BY <2>1, <2>2, <2>3
<1> QED BY <1>2, <1>3, <1>4, OrderSteady

\* Every step keeps the order, and takes no mark back.
LEMMA NextOrder ==
    ASSUME ~DbFaults, IInv, Once, Order, [Next]_vars
    PROVE  Order' /\ Stays
<1>1. CASE ServerStep
  BY <1>1, HandlePrivateOrder, MarksOrder, AnswersOrder, UsersAre DEF ServerStep
<1>2. ASSUME NEW u \in Users, WorkerStep(u) \/ ClientStep(u)
      PROVE  Order' /\ Stays
  BY <1>2, WorkerOrder, ClientOrder
<1> QED BY <1>1, <1>2, UserOrder DEF Next

\* At the start nothing is posted or shown.
LEMMA InitOrder ==
    ASSUME Init
    PROVE  LInv /\ Once /\ Order
<1>1. /\ up[Sender] = <<>> /\ down[Sender] = <<>> /\ session[Sender] = "none"
      /\ \A m \in Msgs : window[Sender][m] = "unknown"
      /\ \A u \in Users : row = [m \in Msgs |-> "none"]
      /\ inbox = <<>> /\ unacked = {} /\ lastSeq = 0 /\ nextSeq = 0
  BY UsersAre DEF Init
<1>2. ToSet(up[Sender]) = {} /\ ToSet(inbox) = {} /\ DOMAIN inbox = {}
  BY <1>1, EmptySequence
<1>3. \A m \in Msgs : ~Kept(m) /\ ~Asked(m) /\ \A n \in Nat : ~Copy(m, n)
  BY <1>1, <1>2, UsersAre DEF Kept, Asked, Copy
<1>4. Once
  BY <1>1, <1>2, <1>3 DEF Once, Copies, Posted, Distinct
<1>5. Order
  BY <1>1, OrderedEmpty DEF Order, Shown, Marks
<1> QED BY <1>1, <1>4, <1>5 DEF LInv

\* A message shown as delivered or read is never shown as being sent again, as long as the
\* database answers and the sender's client does not reconnect by itself: the worker drops
\* the repetitions of a packet, so that storePrivateMessage and its queued notice come
\* before every mark, and statuses, history and notices are written in the table's order.
THEOREM ShownForGood ==
    ASSUME ~DbFaults, ~AutoReconnect
    PROVE  Spec => DeliveredStays
<1>1. Init => IInv /\ LInv /\ Once /\ Order
  BY InitIInv, InitOrder
<1>2. IInv /\ LInv /\ Once /\ Order /\ [Next]_vars => (IInv /\ LInv /\ Once /\ Order)'
  BY NextIInv, NextLink, NextOnce, NextOrder
<1>3. IInv /\ LInv /\ Once /\ Order /\ [Next]_vars
        => [\A m \in Msgs : window[Sender][m] \in {"delivered", "read"}
                => window'[Sender][m] \in {"delivered", "read"}]_vars
  <2> SUFFICES ASSUME IInv, Once, Order, [Next]_vars, NEW m \in Msgs,
                      window[Sender][m] \in {"delivered", "read"}
               PROVE  window'[Sender][m] \in {"delivered", "read"}
    OBVIOUS
  <2>1. Stays
    BY NextOrder
  <2> QED BY <2>1 DEF Stays, Shown, Marks
<1> QED BY <1>1, <1>2, <1>3, PTL DEF Spec, DeliveredStays
=============================================================================
