------------------------ MODULE ServerShutdown_proofs ------------------------
(* Theorems about ServerShutdown, for any number of workers and connections. *)
EXTENDS ServerShutdown, TLAPS

-----------------------------------------------------------------------------
(* The invariant. *)

\* stop goes through the workers in order: the threads that have quit are the first
\* ones.
Phases ==
    /\ main = "looping" => stopping = 0
    /\ main # "looping" => stopping \in Workers
    /\ \A w \in Workers : thread[w] \notin {"looping", "waiting"} => w <= stopping

\* A worker's queue holds the connections posted to it, each once, and its shutdown
\* behind them.
Queues == \A w \in Workers :
    /\ \A i, j \in DOMAIN queue[w] : queue[w][i] = queue[w][j] => i = j
    /\ \A i \in DOMAIN queue[w] :
         queue[w][i] = Shutdown => i = Len(queue[w]) /\ main = "waiting" /\ stopping = w
    /\ \A i \in DOMAIN queue[w], c \in Conns :
         queue[w][i] = Attach(c) => conn[c] = "posted" /\ owner[c] = w
    /\ \A c \in Conns : conn[c] = "posted" /\ owner[c] = w =>
         \E i \in DOMAIN queue[w] : queue[w][i] = Attach(c)

\* A worker announces one connection at a time and waits for its answer.
Announcements ==
    /\ \A c \in Conns : IF conn[c] = "new" THEN owner[c] = 0 ELSE owner[c] \in Workers
    /\ \A c \in Conns : conn[c] \in {"announced", "hooked"} => thread[owner[c]] = "waiting"
    /\ \A c, d \in Conns :
         /\ conn[c] \in {"announced", "hooked"} /\ conn[d] \in {"announced", "hooked"}
         /\ owner[c] = owner[d]
         => c = d
    /\ \A i \in DOMAIN asked : conn[asked[i]] = "announced"
    /\ \A i, j \in DOMAIN asked : asked[i] = asked[j] => i = j

IInv ==
    /\ TypeOK
    /\ Phases
    /\ Queues
    /\ Announcements
    /\ QuitIsClean

-----------------------------------------------------------------------------
(* Calls and sequences of them. *)

\* The calls posted to a worker are told apart.
LEMMA CallsDiffer ==
    /\ \A c \in Conns : Attach(c) # Shutdown
    /\ \A c, d \in Conns : Attach(c) = Attach(d) => c = d
    /\ \A x \in WorkerCalls : x = Shutdown \/ \E c \in Conns : x = Attach(c)
<1>1. \A c \in Conns : Attach(c).call = "attach" /\ Attach(c).conn = c
  BY DEF Attach
<1>2. Shutdown.call = "shutdown"
  BY DEF Shutdown
<1> QED BY <1>1, <1>2 DEF WorkerCalls

\* What Tail leaves.
LEMMA TailOf ==
    ASSUME NEW S, NEW q \in Seq(S), q # <<>>
    PROVE  /\ Tail(q) \in Seq(S) /\ Head(q) \in S
           /\ DOMAIN Tail(q) = 1 .. (Len(q) - 1) /\ DOMAIN q = 1 .. Len(q)
           /\ Len(q) \in Nat \ {0} /\ Len(Tail(q)) = Len(q) - 1
           /\ Head(q) = q[1]
           /\ \A k \in 1 .. (Len(q) - 1) : Tail(q)[k] = q[k + 1]
OBVIOUS

\* What Append adds.
LEMMA AppendOf ==
    ASSUME NEW S, NEW q \in Seq(S), NEW e \in S
    PROVE  /\ Append(q, e) \in Seq(S)
           /\ DOMAIN Append(q, e) = 1 .. (Len(q) + 1) /\ DOMAIN q = 1 .. Len(q)
           /\ Len(q) \in Nat /\ Len(Append(q, e)) = Len(q) + 1
           /\ Append(q, e)[Len(q) + 1] = e
           /\ \A k \in 1 .. Len(q) : Append(q, e)[k] = q[k]
OBVIOUS

\* The workers are numbered from 1.
LEMMA WorkersAreNumbers ==
    /\ \A w \in Workers : w \in Nat /\ 1 <= w /\ w <= NumWorkers
    /\ 1 \in Workers
    /\ \A w \in Workers : w < NumWorkers => w + 1 \in Workers
    /\ 0 \notin Workers
BY ShutdownAssumption DEF Workers

\* The round robin stays within the workers.
LEMMA SuccessorIsWorker ==
    ASSUME NEW w \in Workers
    PROVE  Successor(w) \in Workers
BY ShutdownAssumption DEF Successor, Workers

-----------------------------------------------------------------------------
\* The invariant holds at the start.
LEMMA InitIInv ==
    ASSUME Init
    PROVE  IInv
<1>1. TypeOK
  <2>1. 1 \in Workers /\ 0 \in 0 .. NumWorkers
    BY ShutdownAssumption DEF Workers
  <2>2. <<>> \in Seq(WorkerCalls) /\ <<>> \in Seq(Conns)
    OBVIOUS
  <2> QED BY <2>1, <2>2 DEF Init, TypeOK
<1>2. DOMAIN <<>> = {}
  OBVIOUS
<1>3. Phases /\ QuitIsClean
  BY DEF Init, Phases, QuitIsClean
<1>4. Queues
  BY <1>2 DEF Init, Queues
<1>5. Announcements
  BY <1>2 DEF Init, Announcements
<1> QED BY <1>1, <1>3, <1>4, <1>5 DEF IInv

\* A socket is posted to the next worker.
LEMMA NewConnectionPreserves ==
    ASSUME IInv, NEW c \in Conns, NewConnection(c)
    PROVE  IInv'
<1> DEFINE n == nextWorker
<1>1. /\ main = "looping" /\ conn[c] = "new"
      /\ conn' = [conn EXCEPT ![c] = "posted"]
      /\ owner' = [owner EXCEPT ![c] = n]
      /\ queue' = [queue EXCEPT ![n] = Append(queue[n], Attach(c))]
      /\ nextWorker' = Successor(n)
      /\ UNCHANGED <<main, stopping, thread, asked>>
  BY DEF NewConnection
<1>2. n \in Workers /\ n \in 0 .. NumWorkers
  BY DEF IInv, TypeOK, Workers
<1>3. Attach(c) \in WorkerCalls /\ queue[n] \in Seq(WorkerCalls)
  BY <1>2 DEF IInv, TypeOK, WorkerCalls
<1>4. /\ queue'[n] \in Seq(WorkerCalls)
      /\ DOMAIN queue'[n] = 1 .. (Len(queue[n]) + 1)
      /\ DOMAIN queue[n] = 1 .. Len(queue[n])
      /\ Len(queue[n]) \in Nat /\ Len(queue'[n]) = Len(queue[n]) + 1
      /\ queue'[n][Len(queue[n]) + 1] = Attach(c)
      /\ \A k \in 1 .. Len(queue[n]) : queue'[n][k] = queue[n][k]
      /\ \A w \in Workers : w # n => queue'[w] = queue[w]
  <2>1. queue'[n] = Append(queue[n], Attach(c)) /\ \A w \in Workers : w # n => queue'[w] = queue[w]
    BY <1>1, <1>2 DEF IInv, TypeOK
  <2> QED BY <1>3, <2>1, AppendOf
<1>5. /\ conn'[c] = "posted" /\ owner'[c] = n
      /\ \A d \in Conns : d # c => conn'[d] = conn[d] /\ owner'[d] = owner[d]
  BY <1>1 DEF IInv, TypeOK
<1>6. TypeOK'
  <2>1. nextWorker' \in Workers
    BY <1>1, <1>2, SuccessorIsWorker
  <2>2. queue' \in [Workers -> Seq(WorkerCalls)]
    BY <1>1, <1>2, <1>4 DEF IInv, TypeOK
  <2> QED BY <1>1, <1>2, <2>1, <2>2 DEF IInv, TypeOK
<1>7. \A w \in Workers : thread[w] \in {"looping", "waiting"}
  BY <1>1, WorkersAreNumbers DEF IInv, Phases
<1>8. Phases'
  BY <1>1 DEF IInv, Phases
<1>9. Queues'
  <2>1. \A w \in Workers : \A i \in DOMAIN queue[w] : queue[w][i] # Attach(c) /\ queue[w][i] # Shutdown
    BY <1>1 DEF IInv, Queues
  <2>2. ASSUME NEW w \in Workers, w # n
        PROVE  /\ \A i, j \in DOMAIN queue'[w] : queue'[w][i] = queue'[w][j] => i = j
               /\ \A i \in DOMAIN queue'[w] : queue'[w][i] # Shutdown
               /\ \A i \in DOMAIN queue'[w], d \in Conns :
                    queue'[w][i] = Attach(d) => conn'[d] = "posted" /\ owner'[d] = w
               /\ \A d \in Conns : conn'[d] = "posted" /\ owner'[d] = w =>
                    \E i \in DOMAIN queue'[w] : queue'[w][i] = Attach(d)
    BY <1>4, <1>5, <2>1, <2>2 DEF IInv, Queues
  <2>3. \A i, j \in DOMAIN queue'[n] : queue'[n][i] = queue'[n][j] => i = j
    <3> SUFFICES ASSUME NEW i \in DOMAIN queue'[n], NEW j \in DOMAIN queue'[n],
                        queue'[n][i] = queue'[n][j]
                 PROVE  i = j
      OBVIOUS
    <3>1. CASE i = Len(queue[n]) + 1 \/ j = Len(queue[n]) + 1
      <4>1. \A k \in DOMAIN queue[n] : queue'[n][k] # Attach(c)
        BY <1>2, <1>4, <2>1
      <4>2. queue'[n][i] = Attach(c) /\ queue'[n][j] = Attach(c)
        BY <1>4, <3>1
      <4>3. i \notin DOMAIN queue[n] /\ j \notin DOMAIN queue[n]
        BY <4>1, <4>2
      <4> QED BY <1>4, <4>3
    <3>2. CASE i \in DOMAIN queue[n] /\ j \in DOMAIN queue[n]
      <4>1. queue[n][i] = queue[n][j]
        BY <1>4, <3>2
      <4> QED BY <1>2, <3>2, <4>1 DEF IInv, Queues
    <3> QED BY <1>4, <3>1, <3>2
  <2>4. \A i \in DOMAIN queue'[n] : queue'[n][i] # Shutdown
    BY <1>2, <1>4, <2>1, CallsDiffer
  <2>5. \A i \in DOMAIN queue'[n], d \in Conns :
          queue'[n][i] = Attach(d) => conn'[d] = "posted" /\ owner'[d] = n
    BY <1>2, <1>4, <1>5, <2>1, CallsDiffer DEF IInv, Queues
  <2>6. ASSUME NEW d \in Conns, conn'[d] = "posted", owner'[d] = n
        PROVE  \E i \in DOMAIN queue'[n] : queue'[n][i] = Attach(d)
    <3>1. CASE d = c
      BY <1>4, <3>1
    <3>2. CASE d # c
      <4>1. PICK i \in DOMAIN queue[n] : queue[n][i] = Attach(d)
        BY <1>2, <1>5, <2>6, <3>2 DEF IInv, Queues
      <4> QED BY <1>4, <4>1
    <3> QED BY <3>1, <3>2
  <2> QED BY <2>2, <2>3, <2>4, <2>5, <2>6 DEF Queues
<1>10. Announcements'
  BY <1>1, <1>2, <1>5 DEF IInv, Announcements
<1>11. QuitIsClean'
  BY <1>1, <1>7 DEF QuitIsClean
<1> QED BY <1>6, <1>8, <1>9, <1>10, <1>11 DEF IInv

\* The main thread answers the first worker that asked.
LEMMA ConnectionReadyPreserves ==
    ASSUME IInv, ConnectionReady
    PROVE  IInv'
<1> DEFINE c == Head(asked)
<1>1. /\ main = "looping" /\ asked # <<>> /\ conn' = [conn EXCEPT ![c] = "hooked"]
      /\ asked' = Tail(asked)
      /\ UNCHANGED <<main, stopping, nextWorker, thread, queue, owner>>
  BY DEF ConnectionReady
<1>2. /\ asked' \in Seq(Conns) /\ c \in Conns /\ c = asked[1]
      /\ DOMAIN asked' = 1 .. (Len(asked) - 1) /\ DOMAIN asked = 1 .. Len(asked)
      /\ Len(asked) \in Nat \ {0}
      /\ \A k \in 1 .. (Len(asked) - 1) : asked'[k] = asked[k + 1]
  BY <1>1, TailOf DEF IInv, TypeOK
<1>3. /\ conn[c] = "announced" /\ conn'[c] = "hooked"
      /\ \A d \in Conns : d # c => conn'[d] = conn[d]
  BY <1>1, <1>2 DEF IInv, TypeOK, Announcements
<1>4. TypeOK'
  BY <1>1, <1>2 DEF IInv, TypeOK
<1>5. Phases' /\ QuitIsClean'
  <2>1. \A w \in Workers : thread[w] \in {"looping", "waiting"}
    BY <1>1, WorkersAreNumbers DEF IInv, Phases
  <2> QED BY <1>1, <2>1 DEF IInv, Phases, QuitIsClean
<1>6. Queues'
  BY <1>1, <1>3 DEF IInv, Queues
<1>7. Announcements'
  <2>1. \A i \in DOMAIN asked' : i + 1 \in DOMAIN asked /\ asked'[i] = asked[i + 1]
                                 /\ i + 1 # 1 /\ 1 \in DOMAIN asked /\ i \in Nat
    BY <1>2
  <2>2. \A i \in DOMAIN asked' : conn'[asked'[i]] = "announced"
    <3> SUFFICES ASSUME NEW i \in DOMAIN asked' PROVE conn'[asked'[i]] = "announced"
      OBVIOUS
    <3>1. asked'[i] # c /\ conn[asked'[i]] = "announced"
      BY <1>2, <2>1 DEF IInv, Announcements
    <3>2. asked'[i] \in Conns
      BY <1>2, <2>1 DEF IInv, TypeOK
    <3> QED BY <1>3, <3>1, <3>2
  <2>3. \A i, j \in DOMAIN asked' : asked'[i] = asked'[j] => i = j
    <3> SUFFICES ASSUME NEW i \in DOMAIN asked', NEW j \in DOMAIN asked', asked'[i] = asked'[j]
                 PROVE  i = j
      OBVIOUS
    <3>1. i + 1 = j + 1 /\ i \in Nat /\ j \in Nat
      BY <2>1 DEF IInv, Announcements
    <3> QED BY <3>1
  <2> QED BY <1>1, <1>3, <2>2, <2>3 DEF IInv, Announcements
<1> QED BY <1>4, <1>5, <1>6, <1>7 DEF IInv

\* A shutdown is posted to worker w, the first one whose thread runs.
LEMMA PostShutdownPreserves ==
    ASSUME IInv, NEW w \in Workers, main \in {"looping", "joining"},
           w = stopping + 1, main' = "waiting", stopping' = w,
           queue' = [queue EXCEPT ![w] = Append(@, Shutdown)],
           UNCHANGED <<nextWorker, thread, asked, conn, owner>>
    PROVE  IInv'
<1>1. /\ queue'[w] \in Seq(WorkerCalls)
      /\ DOMAIN queue'[w] = 1 .. (Len(queue[w]) + 1)
      /\ DOMAIN queue[w] = 1 .. Len(queue[w])
      /\ Len(queue[w]) \in Nat /\ Len(queue'[w]) = Len(queue[w]) + 1
      /\ queue'[w][Len(queue[w]) + 1] = Shutdown
      /\ \A k \in 1 .. Len(queue[w]) : queue'[w][k] = queue[w][k]
      /\ \A v \in Workers : v # w => queue'[v] = queue[v]
  <2>1. /\ queue'[w] = Append(queue[w], Shutdown)
        /\ \A v \in Workers : v # w => queue'[v] = queue[v]
    BY DEF IInv, TypeOK
  <2>2. Shutdown \in WorkerCalls /\ queue[w] \in Seq(WorkerCalls)
    BY DEF IInv, TypeOK, WorkerCalls
  <2> QED BY <2>1, <2>2, AppendOf
<1>2. TypeOK'
  <2>1. queue' \in [Workers -> Seq(WorkerCalls)]
    BY <1>1 DEF IInv, TypeOK
  <2>2. stopping' \in 0 .. NumWorkers
    BY WorkersAreNumbers, ShutdownAssumption
  <2> QED BY <2>1, <2>2 DEF IInv, TypeOK
<1>3. Phases' /\ thread[w] \in {"looping", "waiting"}
  <2>1. stopping \in Nat /\ w > stopping /\ \A v \in Workers : v \in Nat
    BY WorkersAreNumbers DEF IInv, TypeOK
  <2>2. \A v \in Workers : v <= stopping => v <= stopping'
    BY <2>1
  <2>3. thread[w] \in {"looping", "waiting"}
    BY <2>1 DEF IInv, Phases
  <2> QED BY <2>2, <2>3 DEF IInv, Phases
<1>4. Queues'
  <2>1. \A v \in Workers : \A i \in DOMAIN queue[v] : queue[v][i] # Shutdown
    BY DEF IInv, Queues
  <2>2. ASSUME NEW v \in Workers, v # w
        PROVE  /\ \A i, j \in DOMAIN queue'[v] : queue'[v][i] = queue'[v][j] => i = j
               /\ \A i \in DOMAIN queue'[v] : queue'[v][i] # Shutdown
               /\ \A i \in DOMAIN queue'[v], d \in Conns :
                    queue'[v][i] = Attach(d) => conn'[d] = "posted" /\ owner'[d] = v
               /\ \A d \in Conns : conn'[d] = "posted" /\ owner'[d] = v =>
                    \E i \in DOMAIN queue'[v] : queue'[v][i] = Attach(d)
    BY <1>1, <2>1, <2>2 DEF IInv, Queues
  <2>3. /\ \A i, j \in DOMAIN queue'[w] : queue'[w][i] = queue'[w][j] => i = j
        /\ \A i \in DOMAIN queue'[w] : queue'[w][i] = Shutdown => i = Len(queue'[w])
    BY <1>1, <2>1 DEF IInv, Queues
  <2>4. \A i \in DOMAIN queue'[w], d \in Conns :
          queue'[w][i] = Attach(d) => conn'[d] = "posted" /\ owner'[d] = w
    BY <1>1, CallsDiffer DEF IInv, Queues
  <2>5. ASSUME NEW d \in Conns, conn'[d] = "posted", owner'[d] = w
        PROVE  \E i \in DOMAIN queue'[w] : queue'[w][i] = Attach(d)
    <3>1. PICK i \in DOMAIN queue[w] : queue[w][i] = Attach(d)
      BY <2>5 DEF IInv, Queues
    <3> QED BY <1>1, <3>1
  <2> QED BY <2>2, <2>3, <2>4, <2>5 DEF Queues
<1>5. Announcements'
  BY DEF IInv, Announcements
<1>6. QuitIsClean'
  BY <1>1, <1>3 DEF IInv, QuitIsClean
<1> QED BY <1>2, <1>3, <1>4, <1>5, <1>6 DEF IInv

\* A worker takes the first call of its queue.
LEMMA TakesFirst ==
    ASSUME IInv, NEW w \in Workers, NEW call \in WorkerCalls, Takes(w, call)
    PROVE  /\ thread[w] = "looping" /\ queue[w][1] = call
           /\ queue' \in [Workers -> Seq(WorkerCalls)]
           /\ DOMAIN queue'[w] = 1 .. (Len(queue[w]) - 1)
           /\ DOMAIN queue[w] = 1 .. Len(queue[w])
           /\ Len(queue[w]) \in Nat \ {0} /\ Len(queue'[w]) = Len(queue[w]) - 1
           /\ \A k \in 1 .. (Len(queue[w]) - 1) : queue'[w][k] = queue[w][k + 1]
           /\ \A v \in Workers : v # w => queue'[v] = queue[v]
<1>1. /\ thread[w] = "looping" /\ queue[w] # <<>> /\ Head(queue[w]) = call
      /\ queue' = [queue EXCEPT ![w] = Tail(queue[w])]
      /\ queue[w] \in Seq(WorkerCalls) /\ queue \in [Workers -> Seq(WorkerCalls)]
  BY DEF Takes, IInv, TypeOK
<1>2. /\ queue'[w] = Tail(queue[w])
      /\ \A v \in Workers : v # w => queue'[v] = queue[v]
  BY <1>1
<1>3. /\ Tail(queue[w]) \in Seq(WorkerCalls)
      /\ DOMAIN Tail(queue[w]) = 1 .. (Len(queue[w]) - 1)
      /\ DOMAIN queue[w] = 1 .. Len(queue[w])
      /\ Len(queue[w]) \in Nat \ {0} /\ Len(Tail(queue[w])) = Len(queue[w]) - 1
      /\ Head(queue[w]) = queue[w][1]
      /\ \A k \in 1 .. (Len(queue[w]) - 1) : Tail(queue[w])[k] = queue[w][k + 1]
  BY <1>1, TailOf
<1>4. queue' \in [Workers -> Seq(WorkerCalls)]
  BY <1>1, <1>3
<1> QED BY <1>1, <1>2, <1>3, <1>4

\* A worker announces a connection.
LEMMA AttachSocketPreserves ==
    ASSUME IInv, NEW w \in Workers, NEW c \in Conns, AttachSocket(w, c)
    PROVE  IInv'
<1>1. /\ Takes(w, Attach(c))
      /\ thread' = [thread EXCEPT ![w] = "waiting"]
      /\ asked' = Append(asked, c)
      /\ conn' = [conn EXCEPT ![c] = "announced"]
      /\ UNCHANGED <<main, stopping, nextWorker, owner>>
  BY DEF AttachSocket
<1>2. Attach(c) \in WorkerCalls
  BY DEF WorkerCalls
<1>3. /\ thread[w] = "looping" /\ queue[w][1] = Attach(c)
      /\ queue' \in [Workers -> Seq(WorkerCalls)]
      /\ DOMAIN queue'[w] = 1 .. (Len(queue[w]) - 1)
      /\ DOMAIN queue[w] = 1 .. Len(queue[w])
      /\ Len(queue[w]) \in Nat \ {0} /\ Len(queue'[w]) = Len(queue[w]) - 1
      /\ \A k \in 1 .. (Len(queue[w]) - 1) : queue'[w][k] = queue[w][k + 1]
      /\ \A v \in Workers : v # w => queue'[v] = queue[v]
  BY <1>1, <1>2, TakesFirst
<1>4. conn[c] = "posted" /\ owner[c] = w
  <2>1. 1 \in DOMAIN queue[w]
    BY <1>3
  <2> QED BY <1>3, <2>1 DEF IInv, Queues
<1>5. /\ conn'[c] = "announced" /\ \A d \in Conns : d # c => conn'[d] = conn[d]
      /\ thread'[w] = "waiting" /\ \A v \in Workers : v # w => thread'[v] = thread[v]
  BY <1>1 DEF IInv, TypeOK
<1>6. /\ asked' \in Seq(Conns) /\ DOMAIN asked' = 1 .. (Len(asked) + 1)
      /\ DOMAIN asked = 1 .. Len(asked) /\ Len(asked) \in Nat
      /\ asked'[Len(asked) + 1] = c /\ \A k \in 1 .. Len(asked) : asked'[k] = asked[k]
  BY <1>1, AppendOf DEF IInv, TypeOK
<1>7. TypeOK'
  BY <1>1, <1>3, <1>6 DEF IInv, TypeOK
<1>8. Phases'
  BY <1>1, <1>3, <1>5 DEF IInv, Phases
<1>9. Queues'
  <2>1. ASSUME NEW v \in Workers, v # w
        PROVE  /\ \A i, j \in DOMAIN queue'[v] : queue'[v][i] = queue'[v][j] => i = j
               /\ \A i \in DOMAIN queue'[v] : queue'[v][i] = Shutdown =>
                    i = Len(queue'[v]) /\ main' = "waiting" /\ stopping' = v
               /\ \A i \in DOMAIN queue'[v], d \in Conns :
                    queue'[v][i] = Attach(d) => conn'[d] = "posted" /\ owner'[d] = v
               /\ \A d \in Conns : conn'[d] = "posted" /\ owner'[d] = v =>
                    \E i \in DOMAIN queue'[v] : queue'[v][i] = Attach(d)
    BY <1>1, <1>3, <1>4, <1>5, <2>1 DEF IInv, Queues
  <2>2. \A i \in DOMAIN queue'[w] : /\ i + 1 \in DOMAIN queue[w] /\ i \in Nat \ {0}
                                    /\ queue'[w][i] = queue[w][i + 1]
                                    /\ queue'[w][i] # Attach(c)
    <3> SUFFICES ASSUME NEW i \in DOMAIN queue'[w]
                 PROVE  /\ i + 1 \in DOMAIN queue[w] /\ i \in Nat \ {0}
                        /\ queue'[w][i] = queue[w][i + 1] /\ queue'[w][i] # Attach(c)
      OBVIOUS
    <3>1. /\ i + 1 \in DOMAIN queue[w] /\ i \in Nat \ {0} /\ 1 \in DOMAIN queue[w]
          /\ queue'[w][i] = queue[w][i + 1] /\ i + 1 # 1
      BY <1>3
    <3> QED BY <1>3, <3>1 DEF IInv, Queues
  <2>3. ASSUME NEW i \in DOMAIN queue'[w], NEW j \in DOMAIN queue'[w],
               queue'[w][i] = queue'[w][j]
        PROVE  i = j
    <3>1. i + 1 = j + 1 /\ i \in Nat /\ j \in Nat
      BY <2>2, <2>3 DEF IInv, Queues
    <3> QED BY <3>1
  <2>4. ASSUME NEW i \in DOMAIN queue'[w], queue'[w][i] = Shutdown
        PROVE  i = Len(queue'[w]) /\ main' = "waiting" /\ stopping' = w
    <3>1. i + 1 = Len(queue[w]) /\ main = "waiting" /\ stopping = w /\ i \in Nat
      BY <2>2, <2>4 DEF IInv, Queues
    <3> QED BY <1>1, <1>3, <3>1
  <2>5. ASSUME NEW i \in DOMAIN queue'[w], NEW d \in Conns, queue'[w][i] = Attach(d)
        PROVE  conn'[d] = "posted" /\ owner'[d] = w
    BY <1>1, <1>5, <2>2, <2>5 DEF IInv, Queues
  <2>6. ASSUME NEW d \in Conns, conn'[d] = "posted", owner'[d] = w
        PROVE  \E i \in DOMAIN queue'[w] : queue'[w][i] = Attach(d)
    <3>1. d # c /\ conn[d] = "posted" /\ owner[d] = w
      BY <1>1, <1>5, <2>6
    <3>2. PICK i \in DOMAIN queue[w] : queue[w][i] = Attach(d)
      BY <3>1 DEF IInv, Queues
    <3>3. i # 1
      BY <1>3, <3>1, <3>2, CallsDiffer
    <3>4. i - 1 \in DOMAIN queue'[w] /\ queue'[w][i - 1] = queue[w][i]
      BY <1>3, <3>2, <3>3
    <3> QED BY <3>2, <3>4
  <2> QED BY <2>1, <2>3, <2>4, <2>5, <2>6 DEF Queues
<1>10. Announcements'
  <2>1. \A d \in Conns : conn[d] \in {"announced", "hooked"} => owner[d] # w
    BY <1>3 DEF IInv, Announcements
  <2>2. /\ \A d \in Conns : IF conn'[d] = "new" THEN owner'[d] = 0 ELSE owner'[d] \in Workers
        /\ \A d \in Conns : conn'[d] \in {"announced", "hooked"} => thread'[owner'[d]] = "waiting"
    BY <1>1, <1>4, <1>5, <2>1 DEF IInv, Announcements
  <2>3. \A a, d \in Conns :
          /\ conn'[a] \in {"announced", "hooked"} /\ conn'[d] \in {"announced", "hooked"}
          /\ owner'[a] = owner'[d]
          => a = d
    BY <1>1, <1>4, <1>5, <2>1 DEF IInv, Announcements
  <2>4. \A i \in DOMAIN asked : asked[i] # c /\ asked[i] \in Conns /\ conn[asked[i]] = "announced"
    BY <1>4 DEF IInv, TypeOK, Announcements
  <2>5. \A i \in DOMAIN asked' : conn'[asked'[i]] = "announced"
    BY <1>5, <1>6, <2>4
  <2>6. \A i, j \in DOMAIN asked' : asked'[i] = asked'[j] => i = j
    BY <1>6, <2>4 DEF IInv, Announcements
  <2> QED BY <2>2, <2>3, <2>5, <2>6 DEF Announcements
<1>11. QuitIsClean'
  BY <1>1, <1>3, <1>4, <1>5 DEF IInv, QuitIsClean
<1> QED BY <1>7, <1>8, <1>9, <1>10, <1>11 DEF IInv

\* A worker starts the connection it was waiting for, or the peer of a connection
\* leaves: neither is on its way any more.
LEMMA StartConnectionPreserves ==
    ASSUME IInv, NEW w \in Workers, NEW c \in Conns, StartConnection(w, c)
    PROVE  IInv'
<1>1. /\ thread[w] = "waiting" /\ owner[c] = w /\ conn[c] = "hooked"
      /\ thread' = [thread EXCEPT ![w] = "looping"]
      /\ conn' = [conn EXCEPT ![c] = "started"]
      /\ UNCHANGED <<main, stopping, nextWorker, queue, asked, owner>>
  BY DEF StartConnection
<1>2. /\ conn'[c] = "started" /\ \A d \in Conns : d # c => conn'[d] = conn[d]
      /\ thread'[w] = "looping" /\ \A v \in Workers : v # w => thread'[v] = thread[v]
  BY <1>1 DEF IInv, TypeOK
<1>3. TypeOK'
  BY <1>1 DEF IInv, TypeOK
<1>4. Phases'
  BY <1>1, <1>2 DEF IInv, Phases
<1>5. Queues'
  BY <1>1, <1>2 DEF IInv, Queues
<1>6. Announcements'
  <2>1. \A i \in DOMAIN asked : asked[i] # c /\ asked[i] \in Conns
    BY <1>1 DEF IInv, TypeOK, Announcements
  <2>2. \A d \in Conns : d # c /\ conn[d] \in {"announced", "hooked"} => owner[d] # w
    BY <1>1 DEF IInv, Announcements
  <2> QED BY <1>1, <1>2, <2>1, <2>2 DEF IInv, Announcements
<1>7. QuitIsClean'
  BY <1>1, <1>2 DEF IInv, QuitIsClean
<1> QED BY <1>3, <1>4, <1>5, <1>6, <1>7 DEF IInv

\* A connection that ends by itself keeps the invariant.
LEMMA ConnectionEndsPreserves ==
    ASSUME IInv, NEW c \in Conns, ConnectionEnds(c)
    PROVE  IInv'
<1>1. /\ conn[c] = "started" /\ conn' = [conn EXCEPT ![c] = "closed"]
      /\ UNCHANGED <<main, stopping, nextWorker, thread, queue, asked, owner>>
  BY DEF ConnectionEnds
<1>2. conn'[c] = "closed" /\ \A d \in Conns : d # c => conn'[d] = conn[d]
  BY <1>1 DEF IInv, TypeOK
<1>3. TypeOK'
  BY <1>1 DEF IInv, TypeOK
<1>4. Phases' /\ Queues'
  BY <1>1, <1>2 DEF IInv, Phases, Queues
<1>5. Announcements'
  <2>1. \A i \in DOMAIN asked : asked[i] # c /\ asked[i] \in Conns
    BY <1>1 DEF IInv, TypeOK, Announcements
  <2> QED BY <1>1, <1>2, <2>1 DEF IInv, Announcements
<1>6. QuitIsClean'
  BY <1>1, <1>2 DEF IInv, QuitIsClean
<1> QED BY <1>3, <1>4, <1>5, <1>6 DEF IInv

\* A worker's shutdown is the last call of its queue, and when it runs every connection
\* that was ever posted to the worker is started or closed.
LEMMA RunShutdownPreserves ==
    ASSUME IInv, NEW w \in Workers, RunShutdown(w)
    PROVE  IInv'
<1>1. /\ Takes(w, Shutdown)
      /\ thread' = [thread EXCEPT ![w] = "quitting"]
      /\ conn' = [c \in Conns |->
                    IF owner[c] = w /\ conn[c] = "started" THEN "closed" ELSE conn[c]]
      /\ UNCHANGED <<main, stopping, nextWorker, asked, owner>>
  BY DEF RunShutdown
<1>2. Shutdown \in WorkerCalls
  BY DEF WorkerCalls
<1>3. /\ thread[w] = "looping" /\ queue[w][1] = Shutdown
      /\ queue' \in [Workers -> Seq(WorkerCalls)]
      /\ DOMAIN queue'[w] = 1 .. (Len(queue[w]) - 1)
      /\ DOMAIN queue[w] = 1 .. Len(queue[w])
      /\ Len(queue[w]) \in Nat \ {0} /\ Len(queue'[w]) = Len(queue[w]) - 1
      /\ \A v \in Workers : v # w => queue'[v] = queue[v]
  BY <1>1, <1>2, TakesFirst
<1>4. 1 = Len(queue[w]) /\ main = "waiting" /\ stopping = w
  <2>1. 1 \in DOMAIN queue[w]
    BY <1>3
  <2> QED BY <1>3, <2>1 DEF IInv, Queues
<1>5. queue'[w] = <<>> /\ DOMAIN queue'[w] = {}
  <2>1. queue'[w] \in Seq(WorkerCalls) /\ Len(queue'[w]) = 0
    BY <1>3, <1>4
  <2> QED BY <1>3, <1>4, <2>1
<1>6. /\ \A c \in Conns : conn'[c] = IF owner[c] = w /\ conn[c] = "started"
                                     THEN "closed" ELSE conn[c]
      /\ thread'[w] = "quitting" /\ \A v \in Workers : v # w => thread'[v] = thread[v]
  BY <1>1 DEF IInv, TypeOK
<1>7. \A c \in Conns : owner[c] = w => conn[c] \in {"started", "closed"}
  <2> SUFFICES ASSUME NEW c \in Conns, owner[c] = w
               PROVE  conn[c] \in {"started", "closed"}
    OBVIOUS
  <2>1. conn[c] # "posted"
    <3> SUFFICES ASSUME conn[c] = "posted" PROVE FALSE
      OBVIOUS
    <3>1. PICK i \in DOMAIN queue[w] : queue[w][i] = Attach(c)
      BY DEF IInv, Queues
    <3>2. i = 1
      BY <1>3, <1>4, <3>1
    <3> QED BY <1>3, <3>1, <3>2, CallsDiffer
  <2>2. conn[c] \notin {"announced", "hooked"}
    BY <1>3 DEF IInv, Announcements
  <2>3. conn[c] # "new"
    BY WorkersAreNumbers DEF IInv, Announcements
  <2> QED BY <2>1, <2>2, <2>3 DEF IInv, TypeOK
<1>8. TypeOK'
  BY <1>1, <1>3 DEF IInv, TypeOK
<1>9. Phases'
  <2>1. w <= stopping
    BY <1>4, WorkersAreNumbers
  <2> QED BY <1>1, <1>6, <2>1 DEF IInv, Phases
<1>10. Queues'
  BY <1>1, <1>3, <1>5, <1>6, <1>7 DEF IInv, Queues
<1>11. Announcements'
  <2>1. \A i \in DOMAIN asked : asked[i] \in Conns /\ conn'[asked[i]] = "announced"
    BY <1>6 DEF IInv, TypeOK, Announcements
  <2> QED BY <1>1, <1>3, <1>6, <1>7, <2>1 DEF IInv, Announcements
<1>12. QuitIsClean'
  BY <1>1, <1>3, <1>5, <1>6, <1>7 DEF IInv, QuitIsClean
<1> QED BY <1>8, <1>9, <1>10, <1>11, <1>12 DEF IInv

\* The main thread ends the thread that has run its shutdown, or has no worker left.
LEMMA JoinPreserves ==
    ASSUME IInv, QuitThread \/ (NextWorker /\ ~(stopping < NumWorkers))
    PROVE  IInv'
<1>1. CASE QuitThread
  <2>1. /\ main = "waiting" /\ thread[stopping] = "quitting" /\ main' = "joining"
        /\ thread' = [thread EXCEPT ![stopping] = "finished"]
        /\ UNCHANGED <<stopping, nextWorker, queue, asked, conn, owner>>
    BY <1>1 DEF QuitThread
  <2>2. stopping \in Workers
    BY <2>1 DEF IInv, Phases
  <2>3. thread'[stopping] = "finished" /\ \A v \in Workers : v # stopping => thread'[v] = thread[v]
    BY <2>1, <2>2 DEF IInv, TypeOK
  <2>4. TypeOK'
    BY <2>1, <2>2 DEF IInv, TypeOK
  <2>5. Phases'
    BY <2>1, <2>2, <2>3 DEF IInv, Phases
  <2>6. Queues'
    <3>1. \A v \in Workers : \A i \in DOMAIN queue[v] : queue[v][i] # Shutdown
      <4>1. queue[stopping] = <<>>
        BY <2>1, <2>2 DEF IInv, QuitIsClean
      <4>2. DOMAIN <<>> = {}
        OBVIOUS
      <4> QED BY <4>1, <4>2 DEF IInv, Queues
    <3> QED BY <2>1, <3>1 DEF IInv, Queues
  <2>7. Announcements'
    BY <2>1, <2>2, <2>3 DEF IInv, Announcements
  <2>8. QuitIsClean'
    BY <2>1, <2>2, <2>3 DEF IInv, QuitIsClean
  <2> QED BY <2>4, <2>5, <2>6, <2>7, <2>8 DEF IInv
<1>2. CASE NextWorker /\ ~(stopping < NumWorkers)
  <2>1. /\ main = "joining" /\ main' = "stopped"
        /\ UNCHANGED <<stopping, queue, nextWorker, thread, asked, conn, owner>>
    BY <1>2 DEF NextWorker
  <2> QED BY <2>1 DEF IInv, TypeOK, Phases, Queues, Announcements, QuitIsClean
<1> QED BY <1>1, <1>2

\* Every step preserves the invariant.
LEMMA NextIInv ==
    ASSUME IInv, [Next]_vars
    PROVE  IInv'
<1>1. ASSUME NEW c \in Conns, NewConnection(c) \/ ConnectionEnds(c) PROVE IInv'
  BY <1>1, NewConnectionPreserves, ConnectionEndsPreserves
<1>2. CASE Stop
  <2>1. /\ main = "looping" /\ stopping = 0
    BY <1>2 DEF Stop, IInv, Phases
  <2>2. 1 \in Workers /\ 1 = stopping + 1
    BY <2>1, WorkersAreNumbers
  <2> QED BY <1>2, <2>1, <2>2, PostShutdownPreserves DEF Stop
<1>3. CASE ConnectionReady
  BY <1>3, ConnectionReadyPreserves
<1>4. CASE QuitThread
  BY <1>4, JoinPreserves
<1>5. CASE NextWorker
  <2>1. CASE stopping < NumWorkers
    <3>1. stopping + 1 \in Workers
      BY <1>5, <2>1, WorkersAreNumbers DEF NextWorker, IInv, Phases
    <3> QED BY <1>5, <2>1, <3>1, PostShutdownPreserves DEF NextWorker
  <2>2. CASE ~(stopping < NumWorkers)
    BY <1>5, <2>2, JoinPreserves
  <2> QED BY <2>1, <2>2
<1>6. ASSUME NEW w \in Workers, WorkerStep(w) PROVE IInv'
  BY <1>6, AttachSocketPreserves, StartConnectionPreserves, RunShutdownPreserves
     DEF WorkerStep
<1>7. CASE UNCHANGED vars
  BY <1>7 DEF vars, IInv, TypeOK, Phases, Queues, Announcements, QuitIsClean
<1> QED BY <1>1, <1>2, <1>3, <1>4, <1>5, <1>6, <1>7 DEF Next, MainStep

-----------------------------------------------------------------------------
\* Type correctness of the hand-over of sockets and of stop.
THEOREM TypeCorrect == Spec => []TypeOK
<1>1. IInv => TypeOK
  BY DEF IInv
<1> QED BY <1>1, InitIInv, NextIInv, PTL DEF Spec

\* A worker's thread that has quit left no connection open and no call unserved, for any
\* number of workers and connections and wherever stop comes in between (stop, shutdown).
THEOREM QuitStaysClean == Spec => []QuitIsClean
<1>1. IInv => QuitIsClean
  BY DEF IInv
<1> QED BY <1>1, InitIInv, NextIInv, PTL DEF Spec
=============================================================================
