-------------------------------- MODULE Chat --------------------------------
(***************************************************************************)
(* Conversations and the socket gateway.  The service calls of chat.service *)
(* interleave between their statements; sockets are authorised once, when   *)
(* they connect, and are ended by a revocation notice, which may be lost, or *)
(* by the revalidation sweep.                                               *)
(***************************************************************************)
EXTENDS Integers, FiniteSets

CONSTANTS
    ChatUsers, Sockets, Tasks,
    SocketUsers,         \* the users who open sockets; the others use HTTP
    Conversations,       \* ids of conversation rows
    MessageIds,          \* clientMessageIds
    NoChatUser, NoConversation, NoMessage,
    MaxRooms,            \* CHAT_MAX_ROOMS
    PageSize,            \* MESSAGE_PAGE_SIZE
    MaxCalls             \* bound on the service calls that are made

ASSUME ChatAssumption ==
    /\ MaxRooms \in Nat \ {0} /\ PageSize \in Nat \ {0} /\ MaxCalls \in Nat
    /\ SocketUsers \subseteq ChatUsers
    /\ NoChatUser \notin ChatUsers /\ NoConversation \notin Conversations
    /\ NoMessage \notin MessageIds

VARIABLES
    live,           \* socket users whose session is live
    conversation,   \* rows, with the last sequence number and the read marks
    message,        \* rows of messages
    task,           \* service calls under way
    socket,
    notices,        \* revocation notices in Redis pub/sub
    sweep,          \* sockets the running sweep found invalid, with its state
    calls,          \* how many service calls were made
    answers         \* history: conversations that createConversation returned
                    \* for a pair
chatTables == <<conversation, message>>
gateway == <<live, socket, notices, sweep>>
chatVars == <<chatTables, gateway, task, calls, answers>>

Pairs == {p \in SUBSET ChatUsers : Cardinality(p) = 2}

\* key: the pair of a direct conversation; {} for a group of everybody.
Conversation == [exists: BOOLEAN, key: SUBSET ChatUsers,
                 lastSeq: Nat, read: [ChatUsers -> Nat]]
Message == [conversation: Conversations, seq: Nat \ {0},
            id: MessageIds, sender: ChatUsers, deleted: BOOLEAN]
Socket == [state: {"closed", "resolved", "connected"},
           user: ChatUsers \cup {NoChatUser}, rooms: SUBSET Conversations]
Closed == [state |-> "closed", user |-> NoChatUser, rooms |-> {}]
Task == [step: {"idle", "create", "insert", "ack", "join", "tombstone"},
         user: ChatUsers \cup {NoChatUser},
         conversation: Conversations \cup {NoConversation},
         id: MessageIds \cup {NoMessage},
         pair: Pairs \cup {{}},
         seq: Nat,
         socket: Sockets \cup {NoChatUser}]
IdleTask == [step |-> "idle", user |-> NoChatUser, conversation |-> NoConversation,
         id |-> NoMessage, pair |-> {}, seq |-> 0, socket |-> NoChatUser]

\* The id of the next row.
FreshId(used) == CHOOSE v \in Conversations : v \notin used
First == FreshId({})

\* A group exists before the calls begin.
ChatInit ==
    /\ live = SocketUsers
    /\ conversation = [v \in Conversations |->
                         [exists |-> v = First, key |-> {}, lastSeq |-> 0,
                          read |-> [u \in ChatUsers |-> 0]]]
    /\ message = {}
    /\ task = [t \in Tasks |-> IdleTask]
    /\ socket = [s \in Sockets |-> Closed]
    /\ notices = {}
    /\ sweep = [running |-> FALSE, invalid |-> {}]
    /\ calls = 0
    /\ answers = {}

TaskAt(t, step) == task[t].step = step
EndTask(t) == task' = [task EXCEPT ![t] = IdleTask]

\* A client calls: t becomes the given task.
Call(t, values) ==
    /\ TaskAt(t, "idle") /\ calls < MaxCalls
    /\ task' = [task EXCEPT ![t] = values]
    /\ calls' = calls + 1

RequireParticipant(v, u) ==
    /\ conversation[v].exists
    /\ conversation[v].key # {} => u \in conversation[v].key

MessagesOf(v) == {m \in message : m.conversation = v}

-----------------------------------------------------------------------------
(* chat.service.                                                            *)

\* Mutant: the ids are joined in the order of the request.
DirectKeyOfCaller(u, pair) == {u}

\* The pair, in sorted order.
DirectConversationKey(u, pair) == pair

FindDirectConversation(key) ==
    {v \in Conversations : conversation[v].exists /\ conversation[v].key = key}

\* createConversation finds the direct conversation, or goes on to create it; a
\* group (the empty pair) is always created.
CreateConversation(t, u, pair) ==
    LET key == IF pair = {} THEN {} ELSE DirectConversationKey(u, pair)
        found == IF key = {} THEN {} ELSE FindDirectConversation(key)
    IN  /\ pair # {} => u \in pair
        /\ IF found = {}
           THEN /\ Call(t, [IdleTask EXCEPT !.step = "create", !.user = u,
                                        !.pair = pair])
                /\ UNCHANGED answers
           ELSE /\ Call(t, IdleTask)
                /\ answers' = answers \cup {<<pair, v>> : v \in found}
        /\ UNCHANGED <<chatTables, gateway>>

\* The unique key refuses a second row, and the loser returns the winner's.
InsertConversation(t) ==
    LET pair == task[t].pair
        key == IF pair = {} THEN {} ELSE DirectConversationKey(task[t].user, pair)
        winner == IF key = {} THEN {} ELSE FindDirectConversation(key)
        used == {v \in Conversations : conversation[v].exists}
        new == FreshId(used)
    IN  /\ TaskAt(t, "create")
        /\ IF winner = {}
           THEN /\ used # Conversations
                /\ conversation' = [conversation EXCEPT ![new].exists = TRUE,
                                                        ![new].key = key]
                /\ answers' = answers \cup {<<pair, new>>}
           ELSE /\ answers' = answers \cup {<<pair, v>> : v \in winner}
                /\ UNCHANGED conversation
        /\ EndTask(t)
        /\ UNCHANGED <<message, gateway, calls>>

SendMessage(t, u, v, id) ==
    /\ RequireParticipant(v, u)
    /\ Call(t, [IdleTask EXCEPT !.step = "insert", !.user = u, !.conversation = v,
                            !.id = id])
    /\ UNCHANGED <<chatTables, gateway, answers>>

Duplicate(t) ==
    \E m \in MessagesOf(task[t].conversation) : m.id = task[t].id

\* Mutant: the number is taken in a statement of its own.
InsertAfterIncrement(t) ==
    LET v == task[t].conversation
    IN  /\ TaskAt(t, "insert")
        /\ conversation' = [conversation EXCEPT ![v].lastSeq = @ + 1]
        /\ message' = IF Duplicate(t) THEN message
                      ELSE message \cup
                             {[conversation |-> v,
                               seq |-> conversation[v].lastSeq + 1,
                               id |-> task[t].id, sender |-> task[t].user,
                               deleted |-> FALSE]}
        /\ EndTask(t)
        /\ UNCHANGED <<gateway, calls, answers>>

\* One statement takes the next number and inserts; a clientMessageId that is
\* there already rolls both back, and the original is returned.
InsertMessage(t) ==
    LET v == task[t].conversation
    IN  /\ TaskAt(t, "insert")
        /\ IF Duplicate(t)
           THEN UNCHANGED chatTables
           ELSE /\ conversation' = [conversation EXCEPT ![v].lastSeq = @ + 1]
                /\ message' = message \cup
                     {[conversation |-> v, seq |-> conversation[v].lastSeq + 1,
                       id |-> task[t].id, sender |-> task[t].user,
                       deleted |-> FALSE]}
        /\ EndTask(t)
        /\ UNCHANGED <<gateway, calls, answers>>

Acceptable(seq, lastRead, lastSeq) == seq <= lastSeq /\ seq > lastRead

\* markRead compares with the row that it has read ...
MarkRead(t, u, v, seq) ==
    /\ RequireParticipant(v, u)
    /\ Acceptable(seq, conversation[v].read[u], conversation[v].lastSeq)
    /\ Call(t, [IdleTask EXCEPT !.step = "ack", !.user = u, !.conversation = v,
                            !.seq = seq])
    /\ UNCHANGED <<chatTables, gateway, answers>>

\* ... and writes without looking again.
WriteReadMark(t) ==
    /\ TaskAt(t, "ack")
    /\ conversation' = [conversation EXCEPT
                          ![task[t].conversation].read[task[t].user] = task[t].seq]
    /\ EndTask(t)
    /\ UNCHANGED <<message, gateway, calls, answers>>

\* deleteMessage looks the message up and checks that the caller sent it.
DeleteMessage(t, m) ==
    /\ ~m.deleted /\ RequireParticipant(m.conversation, m.sender)
    /\ Call(t, [IdleTask EXCEPT !.step = "tombstone", !.user = m.sender,
                            !.conversation = m.conversation, !.seq = m.seq])
    /\ UNCHANGED <<chatTables, gateway, answers>>

\* The message is blanked, the row stays.
Tombstone(t) ==
    /\ TaskAt(t, "tombstone")
    /\ message' = {IF m.conversation = task[t].conversation /\ m.seq = task[t].seq
                   THEN [m EXCEPT !.deleted = TRUE] ELSE m : m \in message}
    /\ EndTask(t)
    /\ UNCHANGED <<conversation, gateway, calls, answers>>

\* listMessages with afterSeq: the first PageSize rows behind it.
ListMessages(v, afterSeq) ==
    LET behind == {m \in MessagesOf(v) : m.seq > afterSeq}
    IN  {m \in behind : Cardinality({n \in behind : n.seq <= m.seq}) <= PageSize}

-----------------------------------------------------------------------------
(* chat.gateway.                                                            *)

\* The middleware resolves the identity, the connection joins the user's room.
ResolveIdentity(s, u) ==
    /\ socket[s] = Closed /\ u \in live
    /\ socket' = [socket EXCEPT ![s] = [Closed EXCEPT !.state = "resolved",
                                                      !.user = u]]
    /\ UNCHANGED <<chatTables, live, notices, sweep, task, calls, answers>>

Connect(s) ==
    /\ socket[s].state = "resolved"
    /\ socket' = [socket EXCEPT ![s].state = "connected"]
    /\ UNCHANGED <<chatTables, live, notices, sweep, task, calls, answers>>

Disconnect(S) ==
    socket' = [s \in Sockets |-> IF s \in S THEN Closed ELSE socket[s]]

\* The client leaves, the backpressure sweep drops it, or the gateway drains.
LoseConnection(s) ==
    /\ socket[s] # Closed
    /\ Disconnect({s})
    /\ UNCHANGED <<chatTables, live, notices, sweep, task, calls, answers>>

\* The participant is looked up ...
Join(t, s, v) ==
    /\ socket[s].state = "connected"
    /\ RequireParticipant(v, socket[s].user)
    /\ Call(t, [IdleTask EXCEPT !.step = "join", !.socket = s, !.conversation = v])
    /\ UNCHANGED <<chatTables, gateway, answers>>

RoomFree(s, v) == v \in socket[s].rooms \/ Cardinality(socket[s].rooms) < MaxRooms

\* ... and the rooms are counted when it has come back.
EnterRoom(t) ==
    LET s == task[t].socket
        v == task[t].conversation
    IN  /\ TaskAt(t, "join")
        /\ socket' = IF socket[s].state = "connected" /\ RoomFree(s, v)
                     THEN [socket EXCEPT ![s].rooms = @ \cup {v}] ELSE socket
        /\ EndTask(t)
        /\ UNCHANGED <<chatTables, live, notices, sweep, calls, answers>>

Leave(s, v) ==
    /\ v \in socket[s].rooms
    /\ socket' = [socket EXCEPT ![s].rooms = @ \ {v}]
    /\ UNCHANGED <<chatTables, live, notices, sweep, task, calls, answers>>

\* Logout, suspension, removal or a switch of organization; publishing the
\* notice is best effort.
RevokeSession(u) ==
    /\ u \in live
    /\ live' = live \ {u}
    /\ notices' \in {notices, notices \cup {u}}
    /\ UNCHANGED <<chatTables, socket, sweep, task, calls, answers>>

\* The subscriber disconnects the sockets in the user's room.
ReceiveNotice(u) ==
    /\ u \in notices
    /\ notices' = notices \ {u}
    /\ Disconnect({s \in Sockets : /\ socket[s].state = "connected"
                                   /\ socket[s].user = u})
    /\ UNCHANGED <<chatTables, live, sweep, task, calls, answers>>

\* revalidateConnectedSockets reads the sessions of the connected sockets ...
SweepRead ==
    /\ ~sweep.running
    /\ sweep' = [running |-> TRUE,
                 invalid |-> {s \in Sockets : /\ socket[s].state = "connected"
                                              /\ socket[s].user \notin live}]
    /\ UNCHANGED <<chatTables, live, socket, notices, task, calls, answers>>

\* Mutant: a sweep that found something leaves its flag set.
SweepKeepsRunning ==
    /\ sweep.running
    /\ Disconnect({s \in sweep.invalid : socket[s].user \notin live})
    /\ sweep' = [running |-> TRUE, invalid |-> {}]
    /\ UNCHANGED <<chatTables, live, notices, task, calls, answers>>

\* ... and disconnects those that were not valid (a socket id that a new
\* connection uses since is another socket).
SweepDisconnect ==
    /\ sweep.running
    /\ Disconnect({s \in sweep.invalid : socket[s].user \notin live})
    /\ sweep' = [running |-> FALSE, invalid |-> {}]
    /\ UNCHANGED <<chatTables, live, notices, task, calls, answers>>

-----------------------------------------------------------------------------
ServiceStep(t) ==
    \/ \E u \in ChatUsers, pair \in Pairs \cup {{}} : CreateConversation(t, u, pair)
    \/ InsertConversation(t)
    \/ \E u \in ChatUsers, v \in Conversations :
          \/ \E id \in MessageIds : SendMessage(t, u, v, id)
          \/ \E seq \in 0..conversation[v].lastSeq : MarkRead(t, u, v, seq)
    \/ InsertMessage(t) \/ WriteReadMark(t)
    \/ \E m \in message : DeleteMessage(t, m)
    \/ Tombstone(t)
    \/ \E s \in Sockets, v \in Conversations : Join(t, s, v)
    \/ EnterRoom(t)

SocketStep(s) ==
    \/ \E u \in SocketUsers : ResolveIdentity(s, u)
    \/ Connect(s) \/ LoseConnection(s)
    \/ \E v \in Conversations : Leave(s, v)

SweepStep == SweepRead \/ SweepDisconnect

ChatNext ==
    \/ \E t \in Tasks : ServiceStep(t)
    \/ \E s \in Sockets : SocketStep(s)
    \/ \E u \in SocketUsers : RevokeSession(u) \/ ReceiveNotice(u)
    \/ SweepStep

ChatSpec == ChatInit /\ [][ChatNext]_chatVars

\* The sweep runs on a timer and the database answers it.  Clients, notices and
\* revocations owe nothing.
ChatFairness == WF_chatVars(SweepStep)

-----------------------------------------------------------------------------
\* Rows, tasks and sockets keep their types.
ChatTypeOK ==
    /\ live \subseteq SocketUsers
    /\ conversation \in [Conversations -> Conversation]
    /\ message \subseteq Message
    /\ task \in [Tasks -> Task]
    /\ socket \in [Sockets -> Socket]
    /\ notices \subseteq SocketUsers
    /\ sweep \in [running: BOOLEAN, invalid: SUBSET Sockets]
    /\ calls \in 0..MaxCalls

\* "Gap-free per-conversation ordering": through concurrent sends, retries and
\* deletions the rows of a conversation are numbered 1 to lastSeq, once each, and
\* a clientMessageId is there once; so a client that pages with afterSeq gets
\* exactly what it missed.
DenseSequence ==
    \A v \in Conversations :
        LET last == conversation[v].lastSeq
        IN  /\ {m.seq : m \in MessagesOf(v)} = 1..last
            /\ Cardinality(MessagesOf(v)) = last
            /\ Cardinality({m.id : m \in MessagesOf(v)}) = last
            /\ \A after \in 0..last :
                  {m.seq : m \in ListMessages(v, after)} =
                      {n \in 1..last : n > after /\ n <= after + PageSize}

\* "Monotonic: an out-of-order acknowledgement must not resurrect unread
\* messages": no step moves a read mark back, in whatever order the
\* acknowledgements of a user arrive and are written.
ReadMarkMonotonic ==
    [][\A v \in Conversations, u \in ChatUsers :
          conversation'[v].read[u] >= conversation[v].read[u]]_chatVars

\* Two users who open a direct conversation with each other, even at once, are
\* given the same one.
DirectAgreement ==
    \A a, b \in answers : a[1] = b[1] /\ a[1] # {} => a[2] = b[2]

\* A socket joins at most CHAT_MAX_ROOMS conversations, however its joins overlap.
RoomLimit == \A s \in Sockets : Cardinality(socket[s].rooms) <= MaxRooms

\* "The backstop for ... a revocation notice lost during a Redis incident": no
\* socket stays connected for a session that was revoked, even one that was
\* being authorised when the notice came.
RevokedIsDisconnected ==
    \A s \in Sockets :
        (socket[s].state = "connected" /\ socket[s].user \notin live)
            ~> socket[s].state # "connected"

\* The invariant of rows and sockets: types, one direct conversation for a pair
\* and the limit on rooms, however calls and joins overlap.
ChatInv == ChatTypeOK /\ DirectAgreement /\ RoomLimit

=============================================================================
