--------------------------- MODULE ServerShutdown ---------------------------
(***************************************************************************)
(* How the server hands sockets to its worker threads and how it stops:    *)
(* Server::onNewConnection, onConnectionReady and stop of                   *)
(* Server/server.cpp with Worker::attachSocket and shutdown of             *)
(* Server/worker.cpp.                                                      *)
(*                                                                         *)
(* Each side has a call that blocks its thread until the other thread's    *)
(* event loop has run a function: a worker waits for the main thread in    *)
(* connectionReady, the main thread waits for a worker in shutdown.        *)
(***************************************************************************)
EXTENDS Naturals, Sequences, SequencesExt

CONSTANTS
    NumWorkers,  \* worker threads, at least 2
    Conns        \* sockets the server may accept

ASSUME ShutdownAssumption == NumWorkers \in Nat \ {0, 1}

VARIABLES
    main,        \* what the main thread does
    stopping,    \* the worker stop is shutting down, 0 before stop
    nextWorker,  \* m_nextWorkerIndex modulo the number of workers
    thread,      \* what each worker's thread does
    queue,       \* events posted to each worker
    asked,       \* events posted to the main thread: connections ready
    conn,        \* life of each Connection
    owner        \* the worker a connection's socket was moved to

vars == <<main, stopping, nextWorker, thread, queue, asked, conn, owner>>

Workers == 1 .. NumWorkers
Attach(c) == [call |-> "attach", conn |-> c]
Shutdown  == [call |-> "shutdown"]
WorkerCalls == {Attach(c) : c \in Conns} \cup {Shutdown}

TypeOK ==
    /\ main \in {"looping", "waiting", "joining", "stopped"}
    /\ stopping \in 0 .. NumWorkers
    /\ nextWorker \in Workers
    /\ thread \in [Workers -> {"looping", "waiting", "quitting", "finished"}]
    /\ queue \in [Workers -> Seq(WorkerCalls)]
    /\ asked \in Seq(Conns)
    /\ conn \in [Conns -> {"new", "posted", "announced", "hooked", "started", "closed"}]
    /\ owner \in [Conns -> 0 .. NumWorkers]

Init ==
    /\ main = "looping"
    /\ stopping = 0
    /\ nextWorker = 1
    /\ thread = [w \in Workers |-> "looping"]
    /\ queue = [w \in Workers |-> <<>>]
    /\ asked = <<>>
    /\ conn = [c \in Conns |-> "new"]
    /\ owner = [c \in Conns |-> 0]

-----------------------------------------------------------------------------
(* The main thread. *)

\* Faulty: counts past the last worker.
SuccessorUnwrapped(w) == w + 1

\* m_nextWorkerIndex % m_workers.size().
Successor(w) == (w % NumWorkers) + 1

\* onNewConnection and attachSocket: the workers take turns.
NewConnection(c) ==
    /\ main = "looping"
    /\ conn[c] = "new"
    /\ conn' = [conn EXCEPT ![c] = "posted"]
    /\ owner' = [owner EXCEPT ![c] = nextWorker]
    /\ queue' = [queue EXCEPT ![nextWorker] = Append(@, Attach(c))]
    /\ nextWorker' = Successor(nextWorker)
    /\ UNCHANGED <<main, stopping, thread, asked>>

\* onConnectionReady: the worker that asked goes on.
ConnectionReady ==
    /\ main = "looping"
    /\ asked # <<>>
    /\ conn' = [conn EXCEPT ![Head(asked)] = "hooked"]
    /\ asked' = Tail(asked)
    /\ UNCHANGED <<main, stopping, nextWorker, thread, queue, owner>>

\* stop, from aboutToQuit, up to its wait for the first worker.
Stop ==
    /\ main = "looping"
    /\ main' = "waiting"
    /\ stopping' = 1
    /\ queue' = [queue EXCEPT ![1] = Append(@, Shutdown)]
    /\ UNCHANGED <<nextWorker, thread, asked, conn, owner>>

\* The worker has run the call: its thread is told to quit and joined.
QuitThread ==
    /\ main = "waiting"
    /\ thread[stopping] = "quitting"
    /\ main' = "joining"
    /\ thread' = [thread EXCEPT ![stopping] = "finished"]
    /\ UNCHANGED <<stopping, nextWorker, queue, asked, conn, owner>>

\* Faulty: waits for the next worker without having posted to it.
NextWorkerNotAsked ==
    /\ main = "joining"
    /\ IF stopping < NumWorkers
       THEN main' = "waiting" /\ stopping' = stopping + 1
       ELSE main' = "stopped" /\ stopping' = stopping
    /\ UNCHANGED <<queue, nextWorker, thread, asked, conn, owner>>

\* The loop of stop: the next worker, or the end.
NextWorker ==
    /\ main = "joining"
    /\ IF stopping < NumWorkers
       THEN /\ main' = "waiting"
            /\ stopping' = stopping + 1
            /\ queue' = [queue EXCEPT ![stopping + 1] = Append(@, Shutdown)]
       ELSE main' = "stopped" /\ UNCHANGED <<stopping, queue>>
    /\ UNCHANGED <<nextWorker, thread, asked, conn, owner>>

-----------------------------------------------------------------------------
(* A worker. *)

Takes(w, call) ==
    /\ thread[w] = "looping"
    /\ queue[w] # <<>>
    /\ Head(queue[w]) = call
    /\ queue' = [queue EXCEPT ![w] = Tail(@)]

\* attachSocket up to connectionReady: the thread waits for the main thread.
AttachSocket(w, c) ==
    /\ Takes(w, Attach(c))
    /\ thread' = [thread EXCEPT ![w] = "waiting"]
    /\ asked' = Append(asked, c)
    /\ conn' = [conn EXCEPT ![c] = "announced"]
    /\ UNCHANGED <<main, stopping, nextWorker, owner>>

\* attachSocket goes on: Connection::start.
StartConnection(w, c) ==
    /\ thread[w] = "waiting"
    /\ owner[c] = w
    /\ conn[c] = "hooked"
    /\ thread' = [thread EXCEPT ![w] = "looping"]
    /\ conn' = [conn EXCEPT ![c] = "started"]
    /\ UNCHANGED <<main, stopping, nextWorker, queue, asked, owner>>

\* The peer leaves and the main thread, while it loops, has the object deleted.
ConnectionEnds(c) ==
    /\ main = "looping"
    /\ conn[c] = "started"
    /\ thread[owner[c]] = "looping"
    /\ conn' = [conn EXCEPT ![c] = "closed"]
    /\ UNCHANGED <<main, stopping, nextWorker, thread, queue, asked, owner>>

\* Faulty: the objects are left to ~Worker.
RunShutdownLeaves(w) ==
    /\ Takes(w, Shutdown)
    /\ thread' = [thread EXCEPT ![w] = "quitting"]
    /\ UNCHANGED <<main, stopping, nextWorker, asked, conn, owner>>

\* shutdown's function: the worker's Connection objects are closed and deleted.
RunShutdown(w) ==
    /\ Takes(w, Shutdown)
    /\ thread' = [thread EXCEPT ![w] = "quitting"]
    /\ conn' = [c \in Conns |->
                  IF owner[c] = w /\ conn[c] = "started"
                  THEN "closed" ELSE conn[c]]
    /\ UNCHANGED <<main, stopping, nextWorker, asked, owner>>

-----------------------------------------------------------------------------
MainStep == ConnectionReady \/ QuitThread \/ NextWorker

WorkerStep(w) ==
    \/ \E c \in Conns : AttachSocket(w, c) \/ StartConnection(w, c)
    \/ RunShutdown(w)

Next ==
    \/ \E c \in Conns : NewConnection(c) \/ ConnectionEnds(c)
    \/ Stop
    \/ MainStep
    \/ \E w \in Workers : WorkerStep(w)

Spec == Init /\ [][Next]_vars

\* Every thread's event loop runs.
FairSpec == Spec /\ WF_vars(MainStep) /\ \A w \in Workers : WF_vars(WorkerStep(w))
-----------------------------------------------------------------------------
(* Properties. *)

\* A thread that has quit left no connection open and no call unserved, also while the
\* other workers are still running: no socket posted to a worker is overtaken by the
\* worker's shutdown.  So when stop returns every accepted connection is closed.
QuitIsClean ==
    \A w \in Workers : thread[w] \in {"quitting", "finished"} =>
        /\ queue[w] = <<>>
        /\ \A c \in Conns : owner[c] = w => conn[c] = "closed"

\* No worker is announcing a connection or has one to announce.
Quiet == asked = <<>> /\ \A w \in Workers, c \in Conns : ~Contains(queue[w], Attach(c))

\* A stop that finds no connection on its way to a worker completes.
QuietStopCompletes == main = "waiting" /\ Quiet ~> main = "stopped"

\* The server stops its workers whenever it is told to.
StopCompletes == main = "waiting" ~> main = "stopped"
=============================================================================
