----------------------------- MODULE ChatHistory -----------------------------
(***************************************************************************)
(* What the client keeps of its user's messages: ChatSessionState          *)
(* (Client/chatstate.cpp) in memory, the table messages of                 *)
(* Client/historystore.cpp on disk, and the handlers of                    *)
(* Client/chatwindow.cpp that write both, through sign-in, loss of the     *)
(* connection, logout, a change of account and restarts of the program.    *)
(*                                                                         *)
(* Several users share the client and its one database.  A message is its  *)
(* id, the chat it is filed under, its status and its time; author and     *)
(* outgoing follow from the sender, its text is left out.  Queries of the  *)
(* local database succeed: the code does not look at their results.        *)
(***************************************************************************)
EXTENDS Naturals, Sequences, FiniteSets, SequencesExt

CONSTANTS
    Users,
    NoUser,
    Broadcast,   \* the chat of all users; the name is not reserved, but nobody has it here
    MaxIds,      \* bound: messages ever sent
    MaxTime      \* bound: values of created_at

ASSUME HistoryAssumption ==
    /\ NoUser \notin Users
    /\ Broadcast \notin Users \cup {NoUser}
    /\ MaxIds \in Nat
    /\ MaxTime \in Nat \ {0}

VARIABLES
    user,       \* m_state.username()
    mode,       \* m_onlineSession and m_offlineMode
    stored,     \* the user of the client's stored session
    book,       \* m_messagesById and m_chatMessages
    dialogs,    \* m_privateDialogs
    selected,   \* the current item of m_dialogsList
    table,      \* table messages, by its primary key message_id
    mail,       \* every message: its sender, its addressee, its time at the server
    loggedOut   \* history: users who logged out and have not signed in since

view == <<user, mode, stored, book, dialogs, selected>>
vars == <<view, table, mail, loggedOut>>

-----------------------------------------------------------------------------
Ids      == 1 .. MaxIds
Times    == 1 .. MaxTime
Chats    == Users \cup {Broadcast}
Statuses == {"sending", "delivered", "read"}
Messages == [chat : Chats, status : Statuses, at : Times]
Rows     == [owner : Users, chat : Chats, status : Statuses, at : Times]
NoMail   == [from |-> NoUser, to |-> NoUser, at |-> 0]
Mails    == [from : Users, to : Chats, at : Times \cup {0}] \cup {NoMail}

NoMessages == [i \in {} |-> NoMail]
EmptyBook  == [msgs |-> NoMessages, lists |-> [c \in Chats |-> <<>>]]

Partial(S, T) == UNION {[D -> T] : D \in SUBSET S}

TypeOK ==
    /\ user \in Users \cup {NoUser}
    /\ mode \in {"none", "offline", "online"}
    /\ stored \in Users \cup {NoUser}
    /\ book.msgs \in Partial(Ids, Messages)
    /\ book.lists \in [Chats -> Seq(Ids)]
    /\ dialogs \subseteq Users
    /\ selected \in Chats
    /\ table \in Partial(Ids, Rows)
    /\ mail \in [Ids -> Mails]
    /\ loggedOut \subseteq Users

Init ==
    /\ user = NoUser
    /\ mode = "none"
    /\ stored = NoUser
    /\ book = EmptyBook
    /\ dialogs = {}
    /\ selected = Broadcast
    /\ table = NoMessages
    /\ mail = [i \in Ids |-> NoMail]
    /\ loggedOut = {}

-----------------------------------------------------------------------------
(* ChatSessionState. *)

\* messageComesBefore.
Before(msgs, i, j) ==
    \/ msgs[i].at < msgs[j].at
    \/ msgs[i].at = msgs[j].at /\ i < j

\* sortChatMessages: the ids rearranged so that none comes before one it stands behind.
Sorted(msgs, ids) ==
    LET order == CHOOSE p \in Bijection(DOMAIN ids, DOMAIN ids) :
                     \A j, k \in DOMAIN ids :
                         j < k => ~Before(msgs, ids[p[k]], ids[p[j]])
    IN  [k \in DOMAIN ids |-> ids[order[k]]]

Put(msgs, i, m) == [j \in DOMAIN msgs \cup {i} |-> IF j = i THEN m ELSE msgs[j]]

Filed(ids, i) == IF i \in ToSet(ids) THEN ids ELSE Append(ids, i)

\* Faulty: only a new message is sorted in.
UpsertKeepsOrder(b, i, m) ==
    LET msgs == Put(b.msgs, i, m)
    IN  [msgs  |-> msgs,
         lists |-> [b.lists EXCEPT ![m.chat] =
                        IF i \in ToSet(@) THEN @ ELSE Sorted(msgs, Append(@, i))]]

\* upsertMessage: a message that was filed under another chat leaves it.
Upsert(b, i, m) ==
    LET msgs    == Put(b.msgs, i, m)
        cleared == [c \in Chats |->
                        IF c # m.chat /\ i \in DOMAIN b.msgs /\ c = b.msgs[i].chat
                        THEN Remove(b.lists[c], i) ELSE b.lists[c]]
    IN  [msgs  |-> msgs,
         lists |-> [cleared EXCEPT ![m.chat] = Sorted(msgs, Filed(@, i))]]

\* upsertMessage for the ids in items, one after the other.
UpsertAll(b, items, msg) ==
    LET books[k \in 0 .. Len(items)] ==
            IF k = 0 THEN b ELSE Upsert(books[k - 1], items[k], msg[items[k]])
    IN  books[Len(items)]

\* Faulty: a packet without a time sets it too.
UpdateStatusAndTime(b, i, s, at) ==
    [b EXCEPT !.msgs[i].status = s, !.msgs[i].at = at]

\* updateMessageStatus; at is 0 where the packet has no time.
UpdateStatus(b, i, s, at) ==
    LET msgs == [b.msgs EXCEPT ![i].status = s, ![i].at = IF at > 0 THEN at ELSE @]
        chat == msgs[i].chat
    IN  [msgs  |-> msgs,
         lists |-> IF at > 0 THEN [b.lists EXCEPT ![chat] = Sorted(msgs, @)] ELSE b.lists]

\* markIncomingMessagesRead.
Unread(b, chat) ==
    {i \in ToSet(b.lists[chat]) : mail[i].from # user /\ b.msgs[i].status # "read"}

MarkIncomingRead(b, chat) ==
    [b EXCEPT !.msgs = [i \in DOMAIN @ |->
        IF i \in Unread(b, chat) THEN [@[i] EXCEPT !.status = "read"] ELSE @[i]]]

-----------------------------------------------------------------------------
(* HistoryStore. *)

\* saveMessage of the messages in ids: the key is the message's id alone.
Save(b, ids) ==
    table' = [i \in DOMAIN table \cup ids |->
                 IF i \in ids THEN [owner |-> user, chat |-> b.msgs[i].chat,
                                    status |-> b.msgs[i].status, at |-> b.msgs[i].at]
                 ELSE table[i]]

RowsOf(t, u) == {i \in DOMAIN t : t[i].owner = u}

\* loadMessages, for every chat of the user.
Load(t, u) ==
    UpsertAll(EmptyBook, Sorted(t, SetToSeq(RowsOf(t, u))),
              [i \in RowsOf(t, u) |-> [chat |-> t[i].chat, status |-> t[i].status,
                                       at |-> t[i].at]])

\* loadDialogs, merged into a list that is empty.
LoadDialogs(t, u) == {t[i].chat : i \in RowsOf(t, u)} \ {Broadcast, u}

\* clearUserData.
Cleared(t, u) == Restrict(t, DOMAIN t \ RowsOf(t, u))

-----------------------------------------------------------------------------
(* The session, as ClientFlow brings it. *)

\* Faulty: the name is set before it is compared.
ActivateComparesLate(u, m, before, t) ==
    /\ user' = u
    /\ mode' = m
    /\ UNCHANGED <<book, dialogs, selected>>

\* activateSession, over the user before and the table t.  What belongs to the same user
\* stays as it is.
Activate(u, m, before, t) ==
    /\ user' = u
    /\ mode' = m
    /\ IF u # before
       THEN /\ book' = Load(t, u)
            /\ dialogs' = LoadDialogs(t, u)
            /\ selected' = Broadcast
       ELSE UNCHANGED <<book, dialogs, selected>>

\* onAuthSucceeded.
SignedIn(u) ==
    /\ stored' = u
    /\ Activate(u, "online", user, table)
    /\ loggedOut' = loggedOut \ {u}
    /\ UNCHANGED <<table, mail>>

\* onSocketDisconnected in the chat, and onOfflineModeRequested.
GoesOffline ==
    /\ stored # NoUser
    /\ Activate(stored, "offline", user, table)
    /\ UNCHANGED <<stored, table, mail, loggedOut>>

\* Faulty: the user's data is cleared after the disconnection.
LogoutClearsLate(connected) ==
    /\ user # NoUser
    /\ user = stored
    /\ table' = Cleared(table, user)
    /\ stored' = NoUser
    /\ loggedOut' = loggedOut \cup {user}
    /\ IF connected
       THEN Activate(user, "offline", NoUser, table)
       ELSE user' = NoUser /\ mode' = "none" /\ book' = EmptyBook
            /\ dialogs' = {} /\ selected' = Broadcast
    /\ UNCHANGED mail

\* onLogoutRequested: deactivateSession, clearUserData, and the disconnection of a socket
\* that is connected, whose signal finds the chat window still visible and activates the
\* user again.
LogoutRequested(connected) ==
    /\ user # NoUser
    /\ user = stored
    /\ mode = "online" => connected
    /\ table' = Cleared(table, user)
    /\ stored' = NoUser
    /\ loggedOut' = loggedOut \cup {user}
    /\ IF connected
       THEN Activate(user, "offline", NoUser, table')
       ELSE /\ user' = NoUser
            /\ mode' = "none"
            /\ book' = EmptyBook
            /\ dialogs' = {}
            /\ selected' = Broadcast
    /\ UNCHANGED mail

\* The program ends and starts again: it has the stored session and the table.
Restart ==
    /\ user' = NoUser
    /\ mode' = "none"
    /\ book' = EmptyBook
    /\ dialogs' = {}
    /\ selected' = Broadcast
    /\ UNCHANGED <<stored, table, mail, loggedOut>>

-----------------------------------------------------------------------------
(* The user. *)

Message(chat, status, at) == [chat |-> chat, status |-> status, at |-> at]

\* sendMessage, in the chat that is selected, with the client's time.
SendMessage(i, at) ==
    /\ mode = "online"
    /\ mail[i] = NoMail
    /\ mail' = [mail EXCEPT ![i] = [from |-> user, to |-> selected, at |-> 0]]
    /\ book' = Upsert(book, i, Message(selected, "sending", at))
    /\ Save(book', {i})
    /\ UNCHANGED <<user, mode, stored, dialogs, selected, loggedOut>>

\* Faulty: the messages are marked in memory only.
MarkCurrentReadUnsaved(b, chat) ==
    book' = MarkIncomingRead(b, chat) /\ Save(b, {})

\* markCurrentPrivateMessagesRead, after the messages in b.
MarkCurrentRead(b, chat) ==
    book' = MarkIncomingRead(b, chat) /\ Save(book', Unread(b, chat))

\* The handler of currentRowChanged.
SelectDialog(chat) ==
    /\ user # NoUser
    /\ chat # selected
    /\ chat \in dialogs \cup {Broadcast}
    /\ selected' = chat
    /\ IF mode = "online" /\ chat # Broadcast
       THEN MarkCurrentRead(book, chat)
       ELSE UNCHANGED <<book, table>>
    /\ UNCHANGED <<user, mode, stored, dialogs, mail, loggedOut>>

\* createPrivateDialog and onUserLookupFinished: the dialog is selected with the signals
\* of the list blocked.
NewDialog(peer) ==
    /\ mode = "online"
    /\ peer # user
    /\ dialogs' = dialogs \cup {peer}
    /\ selected' = peer
    /\ UNCHANGED <<user, mode, stored, book, table, mail, loggedOut>>

-----------------------------------------------------------------------------
(* Packets of the server. *)

\* The message was stored with the server's time, whether or not the client hears of it.
ServerStores(i, at) ==
    /\ mail[i] # NoMail
    /\ mail[i].at = 0
    /\ mail' = [mail EXCEPT ![i].at = at]
    /\ UNCHANGED <<view, table, loggedOut>>

\* A message is sent from another client, of another user or of one who is not here.
OthersSend(i, from, to, at) ==
    /\ mail[i] = NoMail
    /\ from # to
    /\ ~(mode = "online" /\ from = user)
    /\ mail' = [mail EXCEPT ![i] = [from |-> from, to |-> to, at |-> at]]
    /\ UNCHANGED <<view, table, loggedOut>>

Stored(i) == mail[i] # NoMail /\ mail[i].at > 0

\* onPublicMessage; the sender gets his own message too.
PublicArrives(i) ==
    /\ mode = "online"
    /\ Stored(i)
    /\ mail[i].to = Broadcast
    /\ book' = Upsert(book, i, Message(Broadcast, "delivered", mail[i].at))
    /\ Save(book', {i})
    /\ UNCHANGED <<user, mode, stored, dialogs, selected, mail, loggedOut>>

\* onPrivateMessage, with what it marks as read in the chat that is shown.
PrivateArrives(i) ==
    /\ mode = "online"
    /\ Stored(i)
    /\ mail[i].to = user
    /\ LET from == mail[i].from
           b    == Upsert(book, i, Message(from, "delivered", mail[i].at))
       IN  /\ dialogs' = dialogs \cup {from}
           /\ IF selected = from
              THEN /\ book' = MarkIncomingRead(b, from)
                   /\ Save(book', {i} \cup Unread(b, from))
              ELSE book' = b /\ Save(b, {i})
    /\ UNCHANGED <<user, mode, stored, selected, mail, loggedOut>>

\* The handlers of messageQueued, messageDelivered and messageRead; only the first two
\* packets carry the server's time.
StatusArrives(i, status) ==
    /\ mode = "online"
    /\ Stored(i)
    /\ mail[i].from = user
    /\ mail[i].to # Broadcast
    /\ i \in DOMAIN book.msgs
    /\ book' = UpdateStatus(book, i, status, IF status = "read" THEN 0 ELSE mail[i].at)
    /\ Save(book', {i})
    /\ UNCHANGED <<user, mode, stored, dialogs, selected, mail, loggedOut>>

\* What the server has for a chat of the user.
Known(chat) ==
    {i \in Ids : Stored(i) /\ IF chat = Broadcast THEN mail[i].to = Broadcast
                              ELSE {mail[i].from, mail[i].to} = {user, chat}}

\* onHistoryReceived, as one handler: the messages come in the order of their times.
HistoryArrives(chat, found, status) ==
    /\ mode = "online"
    /\ chat \in dialogs \cup {Broadcast}
    /\ found # {}
    /\ chat = Broadcast => \A i \in found : status[i] = "delivered"
    /\ book' = UpsertAll(book, Sorted(mail, SetToSeq(found)),
                         [i \in found |-> Message(chat, status[i], mail[i].at)])
    /\ Save(book', found)
    /\ UNCHANGED <<user, mode, stored, dialogs, selected, mail, loggedOut>>

\* onDialogsReceived: the users of the private messages the server has.
DialogsReceived ==
    /\ mode = "online"
    /\ dialogs' = dialogs \cup {u \in Users \ {user} : Known(u) # {}}
    /\ UNCHANGED <<user, mode, stored, book, selected, table, mail, loggedOut>>

-----------------------------------------------------------------------------
Next ==
    \/ \E u \in Users : SignedIn(u)
    \/ GoesOffline
    \/ \E connected \in BOOLEAN : LogoutRequested(connected)
    \/ Restart
    \/ \E i \in Ids, at \in Times : SendMessage(i, at)
    \/ \E chat \in Chats : SelectDialog(chat)
    \/ \E peer \in Users : NewDialog(peer)
    \/ \E i \in Ids, at \in Times : ServerStores(i, at)
    \/ \E i \in Ids, from \in Users, to \in Chats, at \in Times : OthersSend(i, from, to, at)
    \/ \E i \in Ids : PublicArrives(i)
    \/ \E i \in Ids : PrivateArrives(i)
    \/ \E i \in Ids, status \in Statuses : StatusArrives(i, status)
    \/ \E chat \in Chats : \E found \in SUBSET Known(chat) :
           \E status \in [found -> Statuses] : HistoryArrives(chat, found, status)
    \/ DialogsReceived

Spec == Init /\ [][Next]_vars

-----------------------------------------------------------------------------
(* Properties. *)

\* The window shows each message in a dialog its user can open, each chat whole and in
\* one order, that of the times and then the ids of its messages, however often a message
\* came, by whichever packets, and though its time changed from the client's to the
\* server's (messageComesBefore, rebuildDialogList).
ListsShowMemory ==
    /\ selected \in dialogs \cup {Broadcast}
    /\ \A i \in DOMAIN book.msgs : book.msgs[i].chat \in dialogs \cup {Broadcast}
    /\ \A c \in Chats :
           LET ids == book.lists[c]
           IN  /\ ToSet(ids) = {i \in DOMAIN book.msgs : book.msgs[i].chat = c}
               /\ \A k \in 1 .. Len(ids) - 1 : Before(book.msgs, ids[k], ids[k + 1])

\* What the window has is what the table has, so that the program can end at any moment
\* and show the same afterwards; that the table's key lets one user's row replace
\* another's does not disturb the user who is there (saveMessage).
WindowIsTable ==
    user # NoUser =>
        /\ DOMAIN book.msgs = RowsOf(table, user)
        /\ \A i \in DOMAIN book.msgs :
               book.msgs[i] = [chat |-> table[i].chat, status |-> table[i].status,
                               at |-> table[i].at]

\* The window and the table have a message only under the names of its sender and its
\* addressee, filed under the other one of them, also when users take turns at the client
\* without a logout (activateSession).
MailStaysPrivate ==
    LET Belongs(u, i, chat) ==
            \/ chat = Broadcast /\ mail[i].to = Broadcast
            \/ chat # Broadcast /\ {u, chat} = {mail[i].from, mail[i].to}
    IN  /\ \A i \in DOMAIN book.msgs : Belongs(user, i, book.msgs[i].chat)
        /\ \A i \in DOMAIN table : Belongs(table[i].owner, i, table[i].chat)

\* Nothing of a user is left on the client once he has logged out, though the
\* disconnection activates him again in the middle of it (onLogoutRequested).
LogoutForgets ==
    \A u \in loggedOut :
        /\ RowsOf(table, u) = {}
        /\ stored # u
        /\ user = u => book = EmptyBook /\ dialogs = {}
=============================================================================
