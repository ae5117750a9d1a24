# MessengerWalkieTalkie: TLA+ models, checks and proofs

The repository is a client and a server of a messenger (Qt 6, C++17). This
directory holds TLA+ modules translated from its source, TLC configurations that
check them on small instances, and TLAPS proofs for every instance.
`PROJECT.json` lists, for every definition, the lines it was translated from, and
for every property a faulty variant of the code that breaks it.

## 1. The system

| Part | State | Operations | Interacts with |
|---|---|---|---|
| Server session core (`Server/server.cpp`, main thread) | `m_onlineUsers`, `m_connectionUsers`, rate limiter | one handler per packet type, `onConnectionClosed`, `onTrackedPacketAcknowledged`, start, stop | connections (queued signals in, `invokeMethod` out), storage (calls) |
| Connection (`Server/connection.cpp`, one object per TCP connection on a worker thread) | socket, input buffer, tracked packets, two sequence numbers, timers, `m_closedNotified` | socket signals, timers, send and close requests | the client over TCP, the main thread by signals |
| Worker (`Server/worker.cpp`) | a thread, its children | `attachSocket`, `shutdown` | main thread, by calls that block |
| Storage (`Server/serverstorage.cpp`) | tables users, sessions, messages, broadcast_messages | register, login, resume, invalidate, store, mark, load | called by the main thread |
| Rate limiter (`Server/ratelimiter.cpp`) | one entry per key | `allow`, prune | called by the main thread |
| Shared protocol (`Shared/*.h`) | none | framing with length and CRC, packet validation | both programs |
| Client network (`Client/networkclient.cpp`, `networktransportstate.cpp`) | socket, transport state that outlives connections, timers | connect, disconnect, reconnect, send, retry, receive | server over TCP, windows by signals |
| Client flow (`clientflowcontroller.cpp`, `clientflowstate.cpp`) | stored session, endpoint, pending resume, offline view | handlers of network and window signals | network client, history store |
| Client chat (`chatstate.cpp`, `historystore.cpp`, `chatwindow.cpp`) | messages by id, order per chat, local database | upsert, status updates, load, save | network client |
| Logger, windows, entry points | files, widgets | | |

What is hard here:

* **Threads.** The main thread handles packets, workers own the connections. A
  packet, the end of its connection and a call back into the connection sit in
  different queues; pointers to a `Connection` travel in them. Two calls block one
  thread on the other.
* **Two notions of a connection.** The server starts a fresh `Connection` per TCP
  connection, the client keeps one transport state over automatic reconnections.
* **Failure.** Peers vanish, the heartbeat finds out later; the database may
  refuse a write; the process may be restarted and only the tables survive.
* **Order.** Acknowledgement, storing, broadcasting and sign-in of a second
  connection interleave; statuses and lists may be applied late.

What makes each part correct, in one line each: the registry is a bijection and
never hands a name over; nothing refers to a deleted connection; signed-in clients
know who is online and can resume; a tracked packet is dispatched once, in order,
and acknowledged only if it was; workers stop after they closed everything; limits
are neither exceeded nor applied early; a stored private message is delivered, on
its way or waiting for its recipient, and its status is never more than was earned;
a client that wants a connection gets one, and its windows, its stored session and
the server agree on who its user is; each user's messages are shown once, in order,
to nobody else, and not after he logged out.

## 2. Modules

| Module | Models |
|---|---|
| `ServerSessions` | session core, connection life cycle, users and sessions tables |
| `SessionDirectory` | abstract: who is online where |
| `MCServerSessions` | symmetry and a one-client environment for TLC |
| `TrackedTransport` | sequence numbers, acks, retries at both ends, reconnection |
| `ReliableLink` | abstract: two reliable streams per connection |
| `ServerShutdown` | worker threads, hand-over of sockets, `Server::stop` |
| `RateLimiter` | `RateLimiter::allow` over time |
| `PrivateDelivery` | a private message from window to table to window, and its status back |
| `MCPrivateDelivery` | numbers of connections for TLC |
| `ClientConnection` | the client's socket, reconnect timer, heartbeat and input buffer |
| `ClientFlow` | the client's windows, stored session and sign-in, over `ClientConnection` |
| `ChatHistory` | the client's messages in memory and in its database |
| `MCChatHistory` | symmetry for TLC |
| `ServerSessions_proofs`, `TrackedTransport_proofs`, `ClientConnection_proofs`, `ClientFlow_proofs`, `ServerShutdown_proofs`, `RateLimiter_proofs`, `PrivateDelivery_proofs`, `ChatHistory_proofs` | theorems about the module they are named after |

```
ServerSessions --implements--> SessionDirectory     ClientFlow --instantiates--> ClientConnection
TrackedTransport --implements--> ReliableLink <--stands in for the transport in-- PrivateDelivery
```

### ServerSessions

`inbox` is the main thread's event queue: every signal of a connection is a
`Qt::QueuedConnection`, so it is appended there and handled later, one event per
action (`HandleRegister`, `HandleLogin`, `HandleResume`, `HandleLogout`,
`HandleRequest`, `HandleStranger`, `ConnectionReady`, `ConnectionClosed`).
`calls[c]` is the queue of what `sendTo`, `closeAndNotify` and `deleteLater` post
back to connection `c`; `RunSend`, `RunClose`, `RunDelete` take from it.

`phase[c]` follows a `Connection`: `posted` to a worker, `announced`
(`connectionReady` emitted, the worker blocked), `hooked` (`onConnectionReady` has
run), `started`, `deleted`. `sock[c]` is its socket: `open`, `gone` (the peer left,
the signal not yet delivered), `unconnected` (`onSocketDisconnected` has run; the
retry timer keeps running until the object is deleted), `released` (`m_socket` is
null). `writePacket` never flushes, so a write of the server does not close the
socket inside a handler; this is why the end of a connection is the last event it
posts, which the proof of `Lifecycle` uses.

`sessions[u]` is the token that user's row accepts; tokens are numbered in the
order `issueSession` makes them and 0 stands for no row. `Decline` in an
authentication handler stands for every refusal without effect: a malformed
packet, the rate limiter, the database. With `DbFaults`, a write may fail:
`invalidateSession` without anybody noticing, `registerUser` after the user was
inserted. `SignIn` is `attachAuthenticatedSession` with
`finalizeAuthenticatedSession`; its second check for another connection is kept,
although the proof (`AttachSucceeds`) shows that it cannot fail after the first.
`told[c]` is a history of what was posted to `c` last. It abstracts the two
packets' contents; the queue keeps their kinds.

Not in the module: messages, dialogs and history as data (the packets are there),
the two-step read of an expired row (`ExpireSession` removes the row when its time
comes, which no reader can tell apart), the tracked packets of a connection
(`TrackedTransport`).

### TrackedTransport

One client and its successive connections. `tracked[e]`, `nextSeq[e]`,
`lastSeq[e]` are `m_trackedPackets`/`m_trackedMessages`, `m_nextOutgoingSeq` and
`m_lastIncomingSeq` of the end `e`; `wire[e]` holds the frames on their way to `e`.
The two ends run the same algorithm in two classes, so their handlers share
operators (`NumberAndWrite`, `RetryScan`, `TakeAck`, `TakeData`) and differ where
the code differs: the client sends fresh ids, the server sends a message again by
the same id; the server's state ends with the connection, the client's is kept by
`Reconnect` and cleared by `ConnectToServer`. A retry scan is one action over any
non-empty set of entries that are due, in any order of resending (the tables are
hashes). A frame is whole; what a partial one does to the client's buffer is in
`ClientConnection`.
A client that is not connected sends nothing, because the chat window only
composes messages in an online session.

### ServerShutdown

The hand-over of sockets again, now with the workers' queues and the two calls that
block: `thread[w] = "waiting"` is a worker inside `connectionReady`,
`main = "waiting"` the main thread inside `Worker::shutdown`.

### RateLimiter

`allow` with a clock that advances, a table that forgets, and a history of what was
let through. Rules with a limit or window of zero, which `allow` lets pass
unchecked and which the server does not use, are left out.

### PrivateDelivery

Two users, one of whom writes to the other. `row[m]` is the message's row in the
table `messages`: `none`, `pending` (`delivered_at` null), `delivered`, `read`.
`window[u][m]` is its status in the window of user `u`. `registry[u]` is
`m_onlineUsers`, reduced to one name each: the number of the connection `u` is signed
in on. `up[u]` and `down[u]` are the frames between `u`'s client and his newest
`Connection`; `down` holds the calls posted to the `Connection` too, which keep their
order. Frames of a lost connection are lost, and `unnoticed` holds the connections
whose end the server has yet to find out: until then `registry` names them, messages
are sent to them, and a sign-in of the same user is refused. Handlers of the main
thread are one action each, named after the code. A sign-in, by password or by token,
is `HandleSignIn`; which one it is, and why it may fail, is `ServerSessions`'s matter.

Simplified with respect to the other modules: the recipient opens each connection by
`connectToServer`, so that between him and his `Connection` tracked packets are a
`ReliableLink` (what his automatic reconnection does to them is finding 2); `GiveUp`
is the end of all retries. The sender's packets keep their numbers, because his
client retries them over a reconnection. Broadcast messages are not in the module:
they are stored, sent once and have no status. Two windows of one user do not exist,
since the server admits one connection per name.

### ClientConnection

The part of `NetworkClient` and `NetworkTransportState` that opens, loses and reopens
the connection. `sock` is the socket's state, `manual`, `enabled` and `attempt` are
the three members that decide about a reconnection, `timer` the delay the reconnect
timer runs with. The client has one thread and direct signals, so an action is an
event with everything it sets off: `abort()` on a connected socket runs
`onDisconnected` before it returns, on a connecting one it emits nothing, and a
connection error leaves the socket unconnected before `onSocketError` runs.

The input buffer is reduced to two facts: whether it holds the beginning of a frame
(`partial`), and whether the next bytes continue it (`aligned`). An automatic
reconnection keeps the buffer, as the code does, so a connection that ended in the
middle of a frame makes the next one start out of step: packets are lost until the
buffer ends where a frame ends, the bytes look like an invalid packet
(`ReceiveInvalidPacket`), or the heartbeat ends the connection.

### ClientFlow

`ClientFlowController` with `ClientFlowState` and the row of `last_session`, over an
instance of `ClientConnection` that shares its variables: each action is one of the
connection's joined with the handlers of the signals it emits. `session` is
`m_lastSession`, `disk` its row, `window` the window that is shown, `busy` the login
window waiting for an answer, `button` the offer of the offline mode, `chatUser` and
`chatMode` what the chat window was activated with. `Quit` and `Kill` end the program
between any two events, `Start` runs it again with what is on `disk`.

The servers are reduced to the answers they may give (`ServerAnswers`) and to `good`:
the server that issued the stored token accepts it for its user. Every sign-in issues
a new token, so an answer that is lost on its way, or is overtaken by a second one,
leaves a dead token; a request may be refused for reasons of the server's own. A token
also dies by itself, while its user is online too: `issueSession` sets its time once and
nothing renews it (`ServerForgets`). `signed` is the user the server knows this connection
by, `served` that the server has the connection still. Either side may find out first that
it ended: the server's heartbeat, or its stop, runs `onConnectionClosed` while the client
is connected still (`ServerDrops`), after which nothing is answered and the user may sign in
elsewhere. Answers and requests on their way are lost when the client notices (`Cut`).

### ChatHistory

`book` is `ChatSessionState`: the messages by id and, per chat, the order in which they
are shown; `dialogs` and `selected` are the list and its current row; `table` is the
table `messages` of the client's database with its key, the message's id alone;
`mail` is what the server has. `Upsert`, `UpdateStatus` and `MarkIncomingRead` are the
methods of `ChatSessionState` (a message's id sorts it among those of its time, so a stable
sort has one outcome), `Save` and `Load` those of `HistoryStore`; every handler
of the chat window is an action that uses them as the code does, the saving included.
`LogoutRequested(TRUE)` contains the activation by the disconnection's signal between
the clearing of the data and the end of the handler. A reply with history is one
action although it arrives in pieces, because each piece is handled like a reply of
its own; the time of a message is the client's until a packet of the server replaces
it, which is when the order of a chat can go wrong.

## 3. Runs

| Run | Instance | Shows |
|---|---|---|
| `sessions` | 2 users, 2 connections, 2 tokens, 1 packet and 1 call queued before a peer sends more, faults on; 81,192 states | type and five safety properties, the refinement of `SessionDirectory`, `GhostLeaves`, `ClosedIsFreed` |
| `reconnect_refused` | 1 user, 2 connections, one client program | finding |
| `transport` | 1 id each way (the server's may be sent twice), 1 retry, 2 connections, corruption, automatic reconnection; 44,328 states | type, two safety properties, the refinement of `ReliableLink`, `Settles` |
| `reconnect_loses_private` | 2 ids of the server, 5 retries, automatic reconnection | finding |
| `shutdown` | 2 workers, 3 sockets | clean quit, completion when quiet |
| `stop_blocks` | 2 workers, 2 sockets | finding |
| `rate_limiter` | 2 keys, limit 2, window 3, time to 8; 0.65 million states | type and three properties |
| `private_delivery` | 1 message, recipient with 2 connections; 0.1 million states | type, `NotStranded`, `DeliveredStays`, `PendingIsDelivered` |
| `delivery_faults` | sender with 2 connections, automatic reconnection, failing queries, restarts; 0.5 million states | `StatusIsEarned`, `TableKnowsFirst` |
| `acked_not_stored` | sender with 2 connections, automatic reconnection | finding |
| `client_flow` | 2 users, 2 servers, a schedule of 2 delays, 2 sign-ins on their way; 129,684 states | type, `ChatIsSignedIn`, `RestartKeepsSession`, `WindowFitsConnection`, `FollowsIntent`, `FramesInStep`, and that the client connects (`GetsConnected`) and its user is not kept waiting (`Settles`) |
| `chat_history` | 3 users, 2 messages, 2 times, symmetric in the users; 490,636 states | type, `ListsShowMemory`, `WindowIsTable`, `MailStaysPrivate`, `LogoutForgets` |

**Bounds.** Two users and two connections are what a hand-over of a name, an
account switch and a refusal need; a third of either adds only actors that are
interchangeable with them. Two tokens allow one rotation. `QueueBound` and
`CallBound` stop peers from sending more, never the server's own posts. Two
connections are what a stale number needs, and two numbers of the server (one id, sent
twice) what an overtaken retry needs; the client has one id there, and an overtaken retry
of the client is covered by the theorems alone. One retry stands for five: dropping after the last is what
matters. Three sockets give one worker
two of them. The window of 3 with a time of 8 contains two window ends.
With `QueueBound` 1 a peer in `sessions` sends a second packet only when the first was
handled; two pipelined packets of one peer, and every other size, are covered by the
theorems, which need no bound: the safety properties of `sessions`, `transport`,
`client_flow`, `shutdown`, `rate_limiter`, `private_delivery`, `delivery_faults` and
`chat_history` are all proved. Liveness is checked within the bounds only.
In `client_flow` two users are one who signs in after another, two servers one that is
left for another; two delays are a first and a last one, which repeats; two sign-ins on
their way, asked or answered, are an answer that is overtaken. In `chat_history` the third user writes to the
two who share the client; two messages are a pair to be ordered, one of which is filed
elsewhere or replaced in the table.
In `PrivateDelivery` messages do not meet: each has its row, its statuses and its
entry in the retry tables, and the order of several on one connection is the
transport's matter; one message is enough. A second connection of one side is what
redelivery, a refused sign-in and a repeated store need. `MaxUnderWay` limits what a
user or timer repeats at will (history, retry, read receipts, sign-in), never an
answer of the server.

`CHECK_DEADLOCK FALSE` is set in all runs but `chat_history`, because these systems may
stop: all connections used up, the clock at its bound, the server stopped, the client
not started again.

**Fairness.** An event loop that has an event runs it: weak fairness of the main
thread and of every worker. The heartbeat of a connection whose peer is gone
expires, since no pong renews it. A retry timer ticks every second while the
connection is up, so an entry that stays in the table becomes due. Nothing is
assumed of peers or of the user.

In `ClientFlow` a server that has the connection answers what reaches it and the client's event loop
reads what has arrived (`WF(ServerAnswers)`, `WF(ReceivePacket)`): both are event loops.
The reconnect timer fires when it runs (`WF(ReconnectIfNeeded)`). Out of step with the
frames no pong is recognised, and a server that dropped the connection sends none, so the
client's heartbeat ends such a connection (`WF(~(aligned /\ served) /\ HeartbeatExpired)`);
nothing is said of it otherwise. Connecting is the one
thing that needs the network: `SF(SocketConnected)` says that of infinitely many attempts
one succeeds, without which no client ever connects. Weak fairness would not do, as each
attempt that fails takes the possibility away. Neither the user nor the loss of a
connection is fair.

## 4. Findings

1. `reconnect_refused`: a client that closes its connection and resumes at once on
   a new one can be refused with "User already logged in", against what
   `registerResumeAndLogoutFlow` in `Tests/server_integration_tests.cpp` requires.
2. `reconnect_loses_private`: after an automatic reconnection the client keeps its
   last incoming number, the new `Connection` counts from 1; packets are
   acknowledged, dropped, and private messages recorded as delivered.
3. `stop_blocks`: `Server::stop` and a worker that announces a connection wait for
   each other for ever.
4. `acked_not_stored`: after a reconnection the client's retry timer runs before it is
   signed in again. If its sign-in is refused because the server has not noticed the
   end of the old connection, the retried message is acknowledged by the `Connection`
   and turned away by the server; the client forgets it, nobody has stored it. A
   server that stops between acknowledging and storing loses it as well, and so does a
   retry that is overtaken: it keeps its number, and if a newer packet is received
   first on the new connection, `processIncomingPacket` acknowledges the retry as a
   duplicate and drops it (`TrackedTransport` with `AutoReconnect` and two client ids
   reaches this against `ClientAckMeansDelivered`).

Seen while modelling, promised by nobody in the repository or outside what a run can
refute, and therefore not listed as findings:

* Statuses. A status goes from read back to delivered when the recipient reconnects
  before he acknowledged a message and reads it before it arrives again; a message
  retried over a reconnection whose recipient has meanwhile left is shown as sending
  again although it was delivered; an error answer names its message, the dispatcher
  drops the name, and the message stays sending; a sender is told "read" although the
  table failed to note it. Messages that come by history, or that open a new dialog,
  are shown and not marked read.
* Stored sessions. `Tests/client_flow_state_tests.cpp` (lines 81-85) expects that a change
  of server blocks the resume of a session of another server. The mark is cleared by a
  second change to the same endpoint, and by typing credentials: then the old server's
  token is sent to the new one, which refuses it, and the client deletes it. In the other
  direction, a change back to the session's own server blocks a resume that would
  succeed. A resume refused by the rate limit is answered `session_invalid` too, and costs
  a good token. A client that stays online for longer than a token lives (7 days) keeps a dead
  one, and its user is asked for his password at the next reconnection.
* A pending resume has no timeout. If its answer is lost to a CRC error, the window waits
  for ever; `Settles` says so with `missed`. An answer lost with its connection after the
  server issued a new token leaves the client with a dead one.
* Accounts on one client. An unacknowledged message of one user is retried under the next
  who signs in over an automatic reconnection. The local history is kept by the user's name, whichever
  server he used it on; two users of one client overwrite each other's row of a message
  between them, so that after one has read it the other's copy is gone until the server
  sends it again. `WindowIsTable` shows that the user who is there is not affected.
* Logout on a live connection: the disconnection's signal finds the chat window still
  visible and activates it for the user who is leaving. The window is hidden next, and
  `LogoutForgets` shows that nothing is left in it, but its user name is.
* A user named `Broadcast`, whom `isAsciiUsernameValid` accepts: the client files what he
  writes privately under the chat of all users, and writes to that chat instead of to him.
  `HistoryAssumption` leaves him out, so the theorems about `ChatHistory` say nothing of him.
* `HistoryStore` looks at no query's result: after a failed write the window shows what a
  restart forgets.

## 5. Proofs

`ServerSessions_proofs` proves, from `SessionsAssumption` only (the two null values
are not users or connections, the bounds are numbers):

* `TypeCorrect`, `RegistryCorrect`, `DirectoryImplemented`: the registry. `Spec`
  implements `SessionDirectory` with `holder <- onlineUsers`; every step maps to a
  `SignIn`, a `SignOut`, a `Reset` or a stutter. `RegistryBijection` is inductive
  with `TypeOK`. A sign-in preserves it because the second check can only fail if
  the first did (`AttachSucceeds`): giving back the connection's old name does not
  touch the holder of the new one.
* `LifecycleCorrect`, `NoDanglingConnection`: no dangling pointer.
  `NoUseAfterFree` is not inductive: it does not say why no event for `c` is left
  when `c` is deleted. `Lifecycle` does: packets and the end of a connection are
  posted only while it runs; the end is the last event (`LastWord`); after it the
  socket is read no more (`EndIsQuiet`); so once `onConnectionClosed` has posted
  `deleteLater`, neither map and no event names it (`DoomedIsForgotten`).
* `UsersListCorrect`, `HolderKeepsSession`: what a signed-in client was told.
  A list is posted to everyone online in the same step that changes the registry;
  a token is rotated only by the connection that holds the name.

`TrackedTransport_proofs`, from `TransportAssumption`: `TypeCorrect`, `AckedIsDelivered`,
`NothingIsSkipped` and `TransportIsReliableLink`. None of the properties is inductive:
that a number is on the wire does not say where. The invariant `InStream(e)` describes
the whole stream to an end: the data frames on the wire, retransmissions included, carry
numbers up to the last one used, all numbers not seen yet are among them, each behind a
copy of the one before it, a copy carries the packet that was sent under its number, and
an acknowledgement on the wire names a packet that was dispatched (`Carries`). A retransmission is a second copy, a new packet is last. `TransportIsReliableLink`
follows step by step: numbering is `Send`, taking a new number off the wire is
`Receive`, everything else leaves the two streams alone.

`ClientConnection_proofs` proves `Invariance` of the connection control on its own. Its
invariant adds to `FollowsIntent` and `FramesInStep` that a client which wants a
connection bears no mark of a manual disconnection (otherwise the next loss would not arm
the timer), and that before the first loss nothing is left in the buffer between
connections.

`ClientFlow_proofs`, from `FlowAssumption`: every step of the flow is a step of the
connection control or leaves it alone (`StepOfConnection`), so `IntentFollowed` and
`FramesStayInStep` carry over from `ClientConnection_proofs`. `RestartIsSafe` and
`WindowIsFitting` need each other and that a program which does not run has no account
(`AccountInv`). `ChatStaysSignedIn` needs (`ChatInv`)
that without a connection no server has it and no answer is on its way (`Linked`), and that
while the server has it the last sign-in among the answers on their way is that of the user
it has signed in (`Told`). It says nothing of the token: that may die at any time, and the
window is not told.

`ServerShutdown_proofs`, from `ShutdownAssumption`: `QuitIsClean` holds because the main
thread, blocked in `Worker::shutdown`, posts no connection behind it, so the shutdown is the
last call of its queue and closes what it finds. The invariant says that of the phases of `stop`
(`Phases`), of the queues (`Queues`) and of the announcements a worker waits for
(`Announcements`).

`RateLimiter_proofs`, from `RateLimiterAssumption` (a pruned entry is older than a window,
as the 10 minutes of the code are older than every rule's). A key's entry is related to
the history of what was let through: the last `hits` actions belong to the window, which
began with the first of them, and all but `MaxHits - 1` of the others came a window's
length earlier (`Counted`). Hence any action and the one `2 * MaxHits - 1` later are a
window apart (`Spaced`), which is `BurstIsBounded`; an interval counted by the library's
`FS_Interval` gives `DenialIsJustified`.

`PrivateDelivery_proofs`, from `DeliveryAssumption`, in two layers. Without any further
hypothesis (the recipient connects by `connectToServer` in the whole module, see §2):
`TypeCorrect`, `DeliveredIsEarned`, `TableIsFirst`, from an invariant (`IInv`)
that says of every frame and event on its way what it has earned so far (`FramesTrue`):
a message or an acknowledgement of it carries a stored row, a notice of delivery a row
marked delivered, and a mark a message that is in the recipient's window (`WindowsTrue`).
The type needs that only finitely many messages were ever stored, because
`loadPendingPrivateMessages` makes a list of them.

* `NothingStranded`, while the database answers (`~DbFaults`; a failed load leaves a gap):
  the registry, the event queue and `unnoticed` name connections that were opened, and a
  linked client has one (`CInv`); a pending message whose recipient is registered was given
  up, or is tracked while it or its acknowledgement travels, or its acknowledgement waits in
  the event queue (`OnTheWay`).
* `ShownForGood`, while the database answers and the sender's client does not reconnect by
  itself (`~AutoReconnect`; a message retried over a reconnection is answered with a new
  notice of being queued). It is the one action property here, and needs to know the order of
  what the sender has not read yet. A client without a connection has nothing on its way
  (`LInv`). All copies of a message carry one number, which the worker lets through once
  (`Once`), so a message is stored at most once and its notice is written before the row can
  be marked. Whatever the sender is shown, or will be by a frame on its way, is marked in
  the table, and no frame behind it says less (`Order`).

`ChatHistory_proofs`, from `HistoryAssumption`: `TypeCorrect`, `ListsAreWhole`,
`WindowFollowsTable`, `PrivateStaysPrivate`, `LogoutIsFinal`, all five from one invariant,
because they need each other. It adds that mail goes to somebody else (`MailsTrue`), that an
online window is that of the stored user and nobody's window is empty (`SessionTrue`), and
that a chat's list is strictly ordered (`Arranged`; hence no message is in it twice). Since a
message belongs to one chat of a user (`OneChat`), `upsertMessage` never moves one.
Two of the operators loop. `Sorted` is a permutation that puts the list in order; that there is
one is `OrderExists`. `UpsertAll`, with which `Load` and `HistoryArrives` insert one message
after another, is a recursive function; that it exists is `RoundsExist`, and what it makes of
a book is `UpsertAllIs`. Each is an induction over the rounds of the loop. The library's
induction theorems cannot be instantiated by the provers, so it is done by looking at the
least round that would go wrong (`Least`, from the well-foundedness of the numbers).

Only model-checked: the liveness properties (`GhostLeaves`, `ClosedIsFreed`, the two
`Settles`, `QuietStopCompletes`, `PendingIsDelivered`, `GetsConnected`), since the prover has
no fairness or ENABLED. All safety properties of the passing runs are proved.

## 6. Plan

1. `Framing`: `tryDecode` over a stream cut anywhere, against a reference decoder. Its
   effect on the connection is in `ClientConnection` already.
2. An abstract specification of the client's session (signed out, resuming, signed in,
   offline), implemented by `ClientFlow`.

## 7. Not modelled

* The logger: file output on its own thread, read by nobody.
* Windows and layout: the display of what the modelled state holds.
* Entry points and command line; password hashing (a password is right or wrong).
* Validation of strings (`authprotocol.h`): stateless predicates; a packet is well formed
  or refused.
* The byte format of a frame and its CRC (`transportprotocol.h`): a frame is atomic in all
  modules; `TrackedTransport` has the CRC mismatch, `ClientConnection` the frame that is cut.
* The limit of a history request, and the text of messages.
* Failing queries of the client's database, and a clock that is set back.
