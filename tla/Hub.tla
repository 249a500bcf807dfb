--------------------------------- MODULE Hub ---------------------------------
(***************************************************************************)
(* The WebSocket hub of the API service (internal/websocket/hub.go and     *)
(* internal/handlers/websocket.go): the single Run goroutine that owns the *)
(* registry of connections, and for every connection its ReadPump, its     *)
(* WritePump and the goroutine that pushes the offline messages, together  *)
(* with the messages table and the Redis presence keys they share.         *)
(*                                                                         *)
(* A connection is used once: it is dialled, lives, and is gone; a user    *)
(* that reconnects uses another connection.  The rows of the messages      *)
(* table are a sequence in created_at order, the index being the row's id. *)
(* The hub's broadcast channel has no sender in the program and is left    *)
(* out.                                                                    *)
(***************************************************************************)
EXTENDS Naturals, Sequences

CONSTANTS
  Users,          \* uuid of the accounts; a username names one user
  Conns,          \* the WebSocket connections ever dialled (a bound)
  Owner,          \* the user each connection was authenticated as
  SendCap,        \* capacity of Client.send (256 in the code)
  MaxMessages,    \* bound on the rows of the messages table
  SenderFound,    \* outcomes of the sender look-up of sendOfflineMessages
  Inputs,         \* the kinds of request an instance sends (a bound)
  Faults,         \* the kinds of fault an instance injects (a bound)
  None

ASSUME HubAssumption ==
  /\ Owner \in [Conns -> Users]
  /\ SendCap \in Nat \ {0}
  /\ MaxMessages \in Nat
  /\ SenderFound \subseteq BOOLEAN
  /\ Inputs \subseteq {"chat", "typing", "pong", "error", "read", "rest"}
  /\ Faults \subseteq {"kill", "stop", "drop", "redis", "database", "insert"}
  /\ None \notin Conns

VARIABLES
  up,             \* the process runs
  panic,          \* why the process last stopped
  hub,            \* where Run is, and the connection it serves
  clients,        \* Hub.clients, by user id
  userClients,    \* Hub.userClients, by username
  send,           \* Client.send: the buffered frames
  closed,         \* Client.send has been closed
  reader,         \* where ReadPump is (and HandleWebSocket before it)
  out,            \* the frame ReadPump has to send next
  writer,         \* where WritePump is
  connUp,         \* the socket is open
  offline,        \* where sendOfflineMessages is
  batch,          \* the ids of the rows it still has to push
  messages,       \* the messages table
  online,         \* users with a user:online key in Redis
  stale,          \* history: users whose Redis key is known to lag
  wrote           \* history: frames about rows that reached the peer

process == <<up, panic>>
registry == <<hub, clients, userClients>>
channels == <<send, closed>>
pumps == <<reader, out, writer, connUp>>
backlog == <<offline, batch>>
stores == <<messages, online, stale>>
vars == <<process, registry, channels, pumps, backlog, stores, wrote>>

Ids == 1..MaxMessages
NoClients == [u \in Users |-> None]

\* A frame, and the row it is about (0 for none).  The error that follows a row
\* names it in the model only: the peer reads a text.
FrameType == {"chat", "message_sent", "offline_message",
              "typing", "pong", "error"}
Frames == [type : FrameType, id : Nat]
Frame(t, i) == [type |-> t, id |-> i]
NoFrame == Frame("error", 0)

\* via is history: the connection whose ReadPump stored the row.
Rows == [from : Users, to : Users, is_read : BOOLEAN, via : Conns]
Row(c, u) == [from |-> Owner[c], to |-> u, is_read |-> FALSE, via |-> c]

Seen(r) == [r EXCEPT !.is_read = TRUE]

FramesIn(s) == {s[k] : k \in 1..Len(s)}

------------------------------------------------------------------------------
(* The process stops (a panic in a goroutine without recover, or a kill):   *)
(* what is in memory is gone, the tables and the Redis keys stay.           *)
Halt(why) ==
  /\ up' = FALSE
  /\ panic' = why
  /\ hub' = [pc |-> "select", conn |-> None]
  /\ clients' = NoClients
  /\ userClients' = NoClients
  /\ send' = [c \in Conns |-> <<>>]
  /\ closed' = [c \in Conns |-> FALSE]
  /\ reader' = [c \in Conns |-> IF reader[c] = "idle" THEN "idle" ELSE "gone"]
  /\ out' = [c \in Conns |-> NoFrame]
  /\ writer' = [c \in Conns |-> IF reader[c] = "idle" THEN "idle" ELSE "gone"]
  /\ connUp' = [c \in Conns |-> FALSE]
  /\ offline' = [c \in Conns |-> IF reader[c] = "idle" THEN "idle" ELSE "done"]
  /\ batch' = [c \in Conns |-> {}]
  /\ stale' = online
  /\ UNCHANGED <<messages, online, wrote>>

Crash == "kill" \in Faults /\ up /\ Halt("killed")

Restart ==
  /\ ~up
  /\ up' = TRUE
  /\ UNCHANGED <<panic, registry, channels, pumps, backlog, stores, wrote>>

------------------------------------------------------------------------------
(* Hub.Run                                                                  *)

\* HandleWebSocket, up to the blocking send on hub.register.
Connect(c) ==
  /\ up
  /\ reader[c] = "idle"
  /\ reader' = [reader EXCEPT ![c] = "registering"]
  /\ connUp' = [connUp EXCEPT ![c] = TRUE]
  /\ UNCHANGED <<process, registry, channels, out, writer, backlog, stores, wrote>>

\* Run receives the client; Register returns and the goroutines start, before
\* the maps are written.
HubRegister(c) ==
  /\ hub.pc = "select"
  /\ reader[c] = "registering"
  /\ hub' = [pc |-> "register", conn |-> c]
  /\ reader' = [reader EXCEPT ![c] = "reading"]
  /\ writer' = [writer EXCEPT ![c] = "running"]
  /\ offline' = [offline EXCEPT ![c] = "query"]
  /\ UNCHANGED <<process, clients, userClients, channels, out, connUp, batch,
                 stores, wrote>>

\* Mutant: the username map is forgotten on registration.
RecordById(u, c) ==
  clients' = [clients EXCEPT ![u] = c] /\ UNCHANGED userClients

Record(u, c) ==
  /\ clients' = [clients EXCEPT ![u] = c]
  /\ userClients' = [userClients EXCEPT ![u] = c]

HubAdd ==
  /\ hub.pc = "register"
  /\ Record(Owner[hub.conn], hub.conn)
  /\ hub' = [pc |-> "online", conn |-> hub.conn]
  /\ UNCHANGED <<process, channels, pumps, backlog, stores, wrote>>

\* A Redis call that may fail, with or without effect; its error is logged and
\* dropped.
RedisCall(keys, u) ==
  \/ /\ online' = keys
     /\ stale' = stale \ {u}
  \/ /\ "redis" \in Faults
     /\ stale' = stale \union {u}
     /\ online' \in {online, keys}

HubSelect ==
  /\ hub' = [pc |-> "select", conn |-> None]
  /\ UNCHANGED <<process, clients, userClients, channels, pumps, backlog,
                 messages, wrote>>

HubSetOnline ==
  /\ hub.pc = "online"
  /\ RedisCall(online \union {Owner[hub.conn]}, Owner[hub.conn])
  /\ HubSelect

HubUnregister(c) ==
  /\ hub.pc = "select"
  /\ reader[c] = "leaving"
  /\ hub' = [pc |-> "unregister", conn |-> c]
  /\ reader' = [reader EXCEPT ![c] = "closing"]
  /\ UNCHANGED <<process, clients, userClients, channels, out, writer, connUp,
                 backlog, stores, wrote>>

\* The test of the unregister case: some client of that user is registered.
HasClient(u) == clients[u] # None

\* Mutant: the username map is forgotten on removal.
ForgetById(u) ==
  clients' = [clients EXCEPT ![u] = None] /\ UNCHANGED userClients

Forget(u) ==
  /\ clients' = [clients EXCEPT ![u] = None]
  /\ userClients' = [userClients EXCEPT ![u] = None]

\* Mutant: the channel of the client found in the map is closed.
CloseEntry(c) == closed' = [closed EXCEPT ![clients[Owner[c]]] = TRUE]

CloseChannel(c) == closed' = [closed EXCEPT ![c] = TRUE]

\* The entry of the user is deleted whichever connection it names; only the
\* channel of the leaving one is closed (once: OpenUntilRemoved).
HubRemove ==
  /\ hub.pc = "unregister"
  /\ HasClient(Owner[hub.conn])
  /\ Forget(Owner[hub.conn])
  /\ CloseChannel(hub.conn)
  /\ hub' = [pc |-> "offline", conn |-> hub.conn]
  /\ UNCHANGED <<process, send, pumps, backlog, stores, wrote>>

HubRemoveAbsent ==
  /\ hub.pc = "unregister"
  /\ ~HasClient(Owner[hub.conn])
  /\ HubSelect
  /\ UNCHANGED <<online, stale>>

LockFree == hub.pc # "offline"

\* Mutants: the key is not deleted; Run does not return to its select; the case
\* takes the lock it already holds.
KeyKept ==
  /\ hub.pc = "offline"
  /\ RedisCall(online, Owner[hub.conn])
  /\ HubSelect

NoReturn ==
  /\ hub.pc = "offline"
  /\ RedisCall(online \ {Owner[hub.conn]}, Owner[hub.conn])
  /\ hub' = [hub EXCEPT !.conn = None]
  /\ UNCHANGED <<process, clients, userClients, channels, pumps, backlog,
                 messages, wrote>>

Relock ==
  /\ hub.pc = "offline" /\ LockFree
  /\ RedisCall(online \ {Owner[hub.conn]}, Owner[hub.conn])
  /\ HubSelect

\* The Redis call of the unregister case is made with the lock held.
HubSetOffline ==
  /\ hub.pc = "offline"
  /\ RedisCall(online \ {Owner[hub.conn]}, Owner[hub.conn])
  /\ HubSelect

\* ctx.Done: Run returns; the connections live on until the process exits.
HubStop ==
  /\ "stop" \in Faults
  /\ up
  /\ hub.pc = "select"
  /\ hub' = [pc |-> "stopped", conn |-> None]
  /\ UNCHANGED <<process, clients, userClients, channels, pumps, backlog,
                 stores, wrote>>

------------------------------------------------------------------------------
(* SendToUser, and the ReadPump that calls it                               *)

Fits(c) == Len(send[c]) < SendCap

\* Mutant: last in, first out.
PushFront(c, f) == send' = [send EXCEPT ![c] = <<f>> \o @]

Enqueue(c, f) == send' = [send EXCEPT ![c] = Append(@, f)]

\* A user who is not registered, or whose channel is full, gets nothing.  That
\* the channel is open is an invariant, RegisteredOpen: the send would panic.
SendToUser(u, f) ==
  /\ LockFree
  /\ IF userClients[u] # None /\ Fits(userClients[u])
     THEN Enqueue(userClients[u], f)
     ELSE UNCHANGED send

Receiving(c) == reader[c] = "reading" /\ connUp[c]

\* The INSERT of a message, which takes effect.
CreateMessage(c, u) ==
  /\ "chat" \in Inputs
  /\ Receiving(c)
  /\ Len(messages) < MaxMessages
  /\ messages' = Append(messages, Row(c, u))

\* A "chat" message whose recipient exists and whose INSERT succeeds.
ReadChat(c, u) ==
  /\ CreateMessage(c, u)
  /\ out' = [out EXCEPT ![c] = Frame("chat", Len(messages) + 1)]
  /\ reader' = [reader EXCEPT ![c] = "delivering"]
  /\ UNCHANGED <<process, registry, channels, writer, connUp, backlog, online,
                 stale, wrote>>

\* Create returns an error, the connection to PostgreSQL is lost, although the
\* row is there: it is not delivered, and the sender is told an error.
ReadChatUnknown(c, u) ==
  /\ "insert" \in Faults
  /\ CreateMessage(c, u)
  /\ out' = [out EXCEPT ![c] = Frame("error", Len(messages) + 1)]
  /\ reader' = [reader EXCEPT ![c] = "replying"]
  /\ UNCHANGED <<process, registry, channels, writer, connUp, backlog, online,
                 stale, wrote>>

Deliver(c) ==
  /\ reader[c] = "delivering"
  /\ SendToUser(messages[out[c].id].to, out[c])
  /\ out' = [out EXCEPT ![c] = Frame("message_sent", out[c].id)]
  /\ reader' = [reader EXCEPT ![c] = "replying"]
  /\ UNCHANGED <<process, registry, closed, writer, connUp, backlog, stores,
                 wrote>>

\* "ping", and everything answered by sendError: a message that does not
\* parse, has no recipient or an unknown one, or was not stored.
ReadAnswered(c) ==
  /\ Receiving(c)
  /\ \E t \in Inputs \intersect {"pong", "error"} : out' = [out EXCEPT ![c] = Frame(t, 0)]
  /\ reader' = [reader EXCEPT ![c] = "replying"]
  /\ UNCHANGED <<process, registry, channels, writer, connUp, backlog, stores,
                 wrote>>

\* Mutant: the answer is dropped when the channel is full.
ReplyOrDrop(c) ==
  /\ reader[c] = "replying"
  /\ IF Fits(c) THEN Enqueue(c, out[c]) ELSE UNCHANGED send
  /\ out' = [out EXCEPT ![c] = NoFrame]
  /\ reader' = [reader EXCEPT ![c] = "reading"]
  /\ UNCHANGED <<process, registry, closed, writer, connUp, backlog, stores,
                 wrote>>

\* Mutant: no return follows sendError in the "chat" case.
ReplyGoesOn(c) ==
  /\ reader[c] = "replying"
  /\ Fits(c)
  /\ Enqueue(c, out[c])
  /\ IF out[c].type = "error"
     THEN out' = [out EXCEPT ![c].type = "message_sent"] /\ UNCHANGED reader
     ELSE /\ out' = [out EXCEPT ![c] = NoFrame]
          /\ reader' = [reader EXCEPT ![c] = "reading"]
  /\ UNCHANGED <<process, registry, closed, writer, connUp, backlog, stores,
                 wrote>>

\* The blocking send of the answer on the connection's own channel, which is
\* open (OpenUntilRemoved).
Reply(c) ==
  /\ reader[c] = "replying"
  /\ Fits(c)
  /\ Enqueue(c, out[c])
  /\ out' = [out EXCEPT ![c] = NoFrame]
  /\ reader' = [reader EXCEPT ![c] = "reading"]
  /\ UNCHANGED <<process, registry, closed, writer, connUp, backlog, stores,
                 wrote>>

ReadTyping(c, u) ==
  /\ "typing" \in Inputs
  /\ Receiving(c)
  /\ SendToUser(u, Frame("typing", 0))
  /\ UNCHANGED <<process, registry, closed, pumps, backlog, stores, wrote>>

\* MarkAsRead(receiver, id): the row must be the receiver's.
MarkAsRead(u, i) ==
  messages' = [messages EXCEPT ![i] = IF @.to = u THEN Seen(@) ELSE @]

ReadReceipt(c, i) ==
  /\ "read" \in Inputs
  /\ Receiving(c)
  /\ MarkAsRead(Owner[c], i)
  /\ UNCHANGED <<process, registry, channels, pumps, backlog, online, stale,
                 wrote>>

\* ReadMessage fails; ReadPump is left through its deferred calls.
ReadError(c) ==
  /\ reader[c] = "reading"
  /\ ~connUp[c]
  /\ reader' = [reader EXCEPT ![c] = "leaving"]
  /\ UNCHANGED <<process, registry, channels, out, writer, connUp, backlog,
                 stores, wrote>>

CloseConn(c) ==
  /\ reader[c] = "closing"
  /\ reader' = [reader EXCEPT ![c] = "gone"]
  /\ connUp' = [connUp EXCEPT ![c] = FALSE]
  /\ UNCHANGED <<process, registry, channels, out, writer, backlog, stores,
                 wrote>>

\* The peer or the network ends the connection, or it stays silent for pongWait.
ConnDrop(c) ==
  /\ "drop" \in Faults
  /\ connUp[c]
  /\ connUp' = [connUp EXCEPT ![c] = FALSE]
  /\ UNCHANGED <<process, registry, channels, reader, out, writer, backlog,
                 stores, wrote>>

------------------------------------------------------------------------------
(* WritePump: it takes all the frames there are and writes them as one      *)
(* WebSocket message.                                                       *)

TakeAll(c) == send' = [send EXCEPT ![c] = <<>>]

\* Mutant: the loop goes on to i <= n, and with one frame in the channel it waits
\* for a second one before anything is written.
OneMore(c) == Len(send[c]) > 1

\* The first receive, and the loop that takes the len(c.send) frames behind it,
\* find all they wait for.
BatchReady(c) == send[c] # <<>>

WriterFlush(c) ==
  /\ writer[c] = "running"
  /\ connUp[c]
  /\ BatchReady(c)
  /\ wrote' = [wrote EXCEPT ![c] = @ \union {f \in FramesIn(send[c]) : f.id # 0}]
  /\ TakeAll(c)
  /\ UNCHANGED <<process, registry, closed, pumps, backlog, stores>>

WriterExit(c) ==
  /\ writer[c] = "running"
  /\ writer' = [writer EXCEPT ![c] = "gone"]
  /\ connUp' = [connUp EXCEPT ![c] = FALSE]

\* NextWriter fails after the first frame was taken, or Close after all were;
\* on an open socket this is the write deadline of a peer that does not read.
WriterFail(c) ==
  /\ WriterExit(c)
  /\ send[c] # <<>>
  /\ send' \in {[send EXCEPT ![c] = s] : s \in {Tail(send[c]), <<>>}}
  /\ UNCHANGED <<process, registry, closed, reader, out, backlog, stores, wrote>>

\* Mutant: the error of the ping is ignored.
PingIgnored(c) ==
  writer[c] = "running" /\ ~connUp[c] /\ UNCHANGED vars

\* The ping of the ticker fails.
WriterPingFail(c) ==
  /\ ~connUp[c]
  /\ WriterExit(c)
  /\ UNCHANGED <<process, registry, channels, reader, out, backlog, stores, wrote>>

\* The closed channel is drained: a close message ends the connection.
WriterClosed(c) ==
  /\ closed[c]
  /\ send[c] = <<>>
  /\ WriterExit(c)
  /\ UNCHANGED <<process, registry, channels, reader, out, backlog, stores, wrote>>

------------------------------------------------------------------------------
(* sendOfflineMessages                                                      *)

\* Mutant: the receiver is missing from the WHERE clause.
UnreadOfAnyone(u) == {i \in 1..Len(messages) : ~messages[i].is_read}

\* GetUnreadByReceiver: the user's unread rows.  They are handled oldest first.
Unread(u) == {i \in 1..Len(messages) : messages[i].to = u /\ ~messages[i].is_read}

\* Mutant: the newest row first.
Newest(i, ids) == i \in ids /\ \A j \in ids : i >= j

Oldest(i, ids) == i \in ids /\ \A j \in ids : i <= j

\* MarkConversationAsRead(user, other): every unread row from other to user.
MarkConversationAsRead(u, other) ==
  messages' = [i \in 1..Len(messages) |->
                 IF messages[i].from = other /\ messages[i].to = u
                 THEN Seen(messages[i])
                 ELSE messages[i]]

OfflineQuery(c) ==
  /\ offline[c] = "query"
  /\ Unread(Owner[c]) # {}
  /\ batch' = [batch EXCEPT ![c] = Unread(Owner[c])]
  /\ offline' = [offline EXCEPT ![c] = "mark"]
  /\ UNCHANGED <<process, registry, channels, pumps, stores, wrote>>

\* No unread row: messages[0] is out of range, and nothing recovers the panic.
OfflineQueryEmpty(c) ==
  /\ offline[c] = "query"
  /\ Unread(Owner[c]) = {}
  /\ Halt("index out of range")

OfflineQueryError(c) ==
  /\ "database" \in Faults
  /\ offline[c] = "query"
  /\ offline' = [offline EXCEPT ![c] = "done"]
  /\ UNCHANGED <<process, registry, channels, pumps, batch, stores, wrote>>

\* All the rows of the first row's sender are marked, before any is pushed.
OfflineMark(c) ==
  /\ offline[c] = "mark"
  /\ \/ \E i \in batch[c] :
          Oldest(i, batch[c]) /\ MarkConversationAsRead(Owner[c], messages[i].from)
     \/ "database" \in Faults /\ UNCHANGED messages
  /\ offline' = [offline EXCEPT ![c] = "push"]
  /\ UNCHANGED <<process, registry, channels, pumps, batch, online, stale, wrote>>

\* Mutant: after its loop the goroutine fetches again, what it pushed and did not
\* mark included.
OfflineAgain(c, rest) ==
  /\ batch' = [batch EXCEPT ![c] = rest]
  /\ offline' = [offline EXCEPT ![c] = IF rest = {} THEN "query" ELSE "push"]

\* The loop goes on with rest, or is over.
OfflineNext(c, rest) ==
  /\ batch' = [batch EXCEPT ![c] = rest]
  /\ offline' = [offline EXCEPT ![c] = IF rest = {} THEN "done" ELSE "push"]

OfflineSkip(c) ==
  /\ offline[c] = "push"
  /\ FALSE \in SenderFound
  /\ \E i \in batch[c] : Oldest(i, batch[c]) /\ OfflineNext(c, batch[c] \ {i})
  /\ UNCHANGED <<process, registry, channels, pumps, stores, wrote>>

\* The send is not under the hub's lock, and gives up on a full channel.
OfflinePush(c) ==
  /\ offline[c] = "push"
  /\ TRUE \in SenderFound
  /\ ~closed[c]
  /\ IF Fits(c)
     THEN \E i \in batch[c] :
            /\ Oldest(i, batch[c])
            /\ Enqueue(c, Frame("offline_message", i))
            /\ OfflineNext(c, batch[c] \ {i})
     ELSE OfflineNext(c, {}) /\ UNCHANGED send
  /\ UNCHANGED <<process, registry, closed, pumps, stores, wrote>>

OfflinePushClosed(c) ==
  /\ offline[c] = "push"
  /\ TRUE \in SenderFound
  /\ closed[c]
  /\ Halt("send on closed channel")

\* POST /conversations/:username/read.
RestMarkConversation(u, other) ==
  /\ "rest" \in Inputs
  /\ up
  /\ MarkConversationAsRead(u, other)
  /\ UNCHANGED <<process, registry, channels, pumps, backlog, online, stale,
                 wrote>>

------------------------------------------------------------------------------
Init ==
  /\ up = TRUE
  /\ panic = "none"
  /\ hub = [pc |-> "select", conn |-> None]
  /\ clients = NoClients
  /\ userClients = NoClients
  /\ send = [c \in Conns |-> <<>>]
  /\ closed = [c \in Conns |-> FALSE]
  /\ reader = [c \in Conns |-> "idle"]
  /\ out = [c \in Conns |-> NoFrame]
  /\ writer = [c \in Conns |-> "idle"]
  /\ connUp = [c \in Conns |-> FALSE]
  /\ offline = [c \in Conns |-> "idle"]
  /\ batch = [c \in Conns |-> {}]
  /\ messages = <<>>
  /\ online = {}
  /\ stale = {}
  /\ wrote = [c \in Conns |-> {}]

HubStep == HubAdd \/ HubSetOnline \/ HubRemove \/ HubRemoveAbsent \/ HubSetOffline

ReadPump(c) ==
  \/ \E u \in Users : ReadChat(c, u) \/ ReadChatUnknown(c, u) \/ ReadTyping(c, u)
  \/ \E i \in 1..Len(messages) : ReadReceipt(c, i)
  \/ ReadAnswered(c) \/ Deliver(c) \/ Reply(c) \/ ReadError(c) \/ CloseConn(c)

WritePump(c) ==
  WriterFlush(c) \/ WriterFail(c) \/ WriterPingFail(c) \/ WriterClosed(c)

SendOfflineMessages(c) ==
  \/ OfflineQuery(c) \/ OfflineQueryEmpty(c) \/ OfflineQueryError(c)
  \/ OfflineMark(c) \/ OfflineSkip(c) \/ OfflinePush(c) \/ OfflinePushClosed(c)

Next ==
  \/ HubStep \/ HubStop \/ Crash \/ Restart
  \/ \E u, o \in Users : RestMarkConversation(u, o)
  \/ \E c \in Conns :
       \/ Connect(c) \/ HubRegister(c) \/ HubUnregister(c) \/ ConnDrop(c)
       \/ ReadPump(c) \/ WritePump(c) \/ SendOfflineMessages(c)

Spec == Init /\ [][Next]_vars

\* The Go scheduler runs every goroutine that can go on; Run serves each of the
\* finitely many clients waiting on its channels, and the calls to Redis and
\* PostgreSQL return.  Nothing obliges a peer to send, drop or reconnect.
Fairness ==
  /\ WF_vars(HubStep)
  /\ \A c \in Conns :
       /\ WF_vars(HubRegister(c)) /\ WF_vars(HubUnregister(c))
       /\ WF_vars(Deliver(c)) /\ WF_vars(Reply(c))
       /\ WF_vars(ReadError(c)) /\ WF_vars(CloseConn(c))
       /\ WF_vars(WriterFlush(c)) /\ WF_vars(WriterPingFail(c)) /\ WF_vars(WriterClosed(c))

FairSpec == Spec /\ Fairness

------------------------------------------------------------------------------
(* Properties *)

\* Every variable holds a value of its type: process, registry, channels, the
\* goroutines' places and the three stores.
TypeOK ==
  /\ up \in BOOLEAN
  /\ panic \in {"none", "killed", "index out of range", "send on closed channel"}
  /\ hub \in [pc : {"select", "register", "online", "unregister", "offline",
                    "stopped"},
              conn : Conns \union {None}]
  /\ hub.pc \in {"select", "stopped"} <=> hub.conn = None
  /\ clients \in [Users -> Conns \union {None}]
  /\ userClients \in [Users -> Conns \union {None}]
  /\ send \in [Conns -> Seq(Frames)]
  /\ closed \in [Conns -> BOOLEAN]
  /\ reader \in [Conns -> {"idle", "registering", "reading", "delivering",
                           "replying", "leaving", "closing", "gone"}]
  /\ out \in [Conns -> Frames]
  /\ writer \in [Conns -> {"idle", "running", "gone"}]
  /\ connUp \in [Conns -> BOOLEAN]
  /\ offline \in [Conns -> {"idle", "query", "mark", "push", "done"}]
  /\ batch \in [Conns -> SUBSET Nat]
  /\ messages \in Seq(Rows)
  /\ online \subseteq Users
  /\ stale \subseteq Users
  /\ wrote \in [Conns -> SUBSET Frames]

\* Where the connection that Run serves is: it was registered and not yet given
\* up, or it was given up and its channel is still to be closed.
HubServes ==
  /\ hub.pc \in {"register", "online"} =>
       reader[hub.conn] \in {"reading", "delivering", "replying", "leaving"}
  /\ hub.pc = "unregister" => ~closed[hub.conn]
  /\ hub.pc \in {"unregister", "offline"} => reader[hub.conn] \in {"closing", "gone"}

\* A ReadPump that serves its connection, and one that has given it up.
Live == {"reading", "delivering", "replying", "leaving"}
Over == {"closing", "gone"}

\* hub.go:70-72 and 85-87: the two maps of the hub always name the same clients.
MapsAgree == clients = userClients

\* hub.go:127-140: a client that SendToUser can find has an open channel, so a
\* send made under the read lock never panics, whatever connections of the same
\* user came and went.
RegisteredOpen ==
  \A u \in Users : userClients[u] # None =>
    /\ Owner[userClients[u]] = u
    /\ ~closed[userClients[u]]

\* hub.go:88 and 285-343: the channel of a connection is open until Run removes
\* that connection, so ReadPump's blocking sends and close never panic.
OpenUntilRemoved ==
  \A c \in Conns : closed[c] =>
    /\ reader[c] \in {"closing", "gone"}
    /\ hub.conn = c => hub.pc = "offline"

\* hub.go:84-98: between two cases of Run no entry names a connection that was
\* given up, in whatever order the connections of a user came and went.
RegisteredLives ==
  hub.pc \in {"select", "stopped"} =>
    \A u \in Users : userClients[u] # None => reader[userClients[u]] \in Live

\* c and d were dialled by one user, and d was unregistered.
Evicts(d, c) == d # c /\ Owner[d] = Owner[c] /\ reader[d] \in Over

\* hub.go:70-72 and 85-87: a connection that is served and that the hub cannot
\* find lost its entry to another connection of the same user that left; nothing
\* else, no failed call and no restart, makes a user unreachable.
UnreachableIsEvicted ==
  hub.pc \in {"select", "stopped"} =>
    \A c \in Conns : reader[c] \in Live /\ userClients[Owner[c]] = None =>
      \E d \in Conns : Evicts(d, c)

\* Within a case of Run, the connection it serves is one write of the maps behind.
RegistryFollows ==
  /\ \A u \in Users : userClients[u] # None =>
       \/ reader[userClients[u]] \in Live
       \/ hub.pc = "unregister" /\ hub.conn = userClients[u]
  /\ \A c \in Conns : reader[c] \in Live /\ userClients[Owner[c]] = None =>
       \/ hub.pc = "register" /\ hub.conn = c
       \/ \E d \in Conns : Evicts(d, c)

\* What a sender is told of a message that was stored.
Answers == {"message_sent", "error"}

\* A frame about a row is about a row of the table, goes to the row's receiver
\* (a push) or to the connection that stored it (its answer).
Concerns(c, f) ==
  /\ f.id \in 1..Len(messages)
  /\ IF f.type \in Answers THEN messages[f.id].via = c
     ELSE /\ f.type \in {"chat", "offline_message"}
          /\ messages[f.id].to = Owner[c]

RowFrames(c) == {f \in FramesIn(send[c]) : f.id # 0} \union wrote[c]

\* hub.go:160-203 and 301-310: nothing about a message is queued or written to a
\* connection before the message is in the table, and only to the connections
\* it concerns; a crash of the process does not undo it.
PushedIsStored == \A c \in Conns : \A f \in RowFrames(c) : Concerns(c, f)

\* hub.go:172-202 and 302-310: what ReadPump is about to push, or to answer, is
\* about a row it has stored itself; anything else it answers is about none.
OutIsStored(c) ==
  /\ reader[c] = "delivering" <=> out[c].type = "chat"
  /\ \/ out[c].type \in {"pong", "error"} /\ out[c].id = 0
     \/ /\ out[c].type \in {"chat"} \union Answers
        /\ out[c].id \in 1..Len(messages)
        /\ messages[out[c].id].via = c

\* handlers/websocket.go:92: what is left to push is the user's.
BatchIsStored(c) ==
  \A i \in batch[c] : i \in 1..Len(messages) /\ messages[i].to = Owner[c]

PendingIsStored == \A c \in Conns : OutIsStored(c) /\ BatchIsStored(c)

\* A ReadPump that waits for the next message owes no answer, and a connection
\* that is not registered has stored nothing.
NoAnswerOwed ==
  \A c \in Conns :
    /\ reader[c] \notin {"delivering", "replying"} => out[c].id = 0
    /\ reader[c] \in {"idle", "registering"} =>
         \A i \in 1..Len(messages) : messages[i].via # c

\* hub.go:75-79 and 90-94: between two cases of Run the Redis keys name exactly
\* the registered users, except those whose last Redis call failed or whose
\* entry was lost with the process.
PresenceMirrored ==
  hub.pc \in {"select", "stopped"} =>
    \A u \in Users \ stale : u \in online <=> clients[u] # None

\* Within a case of Run, the key of the user it serves is one call behind.
PresenceFollows ==
  /\ \A u \in Users \ stale :
       \/ u \in online <=> clients[u] # None
       \/ hub.pc \in {"online", "offline"} /\ Owner[hub.conn] = u
  /\ hub.pc = "online" => HasClient(Owner[hub.conn])
  /\ hub.pc = "offline" => ~HasClient(Owner[hub.conn])

\* The inductive invariant of HubProofs.
IndInv ==
  /\ TypeOK /\ HubServes /\ MapsAgree /\ RegisteredOpen /\ OpenUntilRemoved
  /\ RegistryFollows /\ PushedIsStored /\ PendingIsStored /\ NoAnswerOwed
  /\ PresenceFollows

\* hub.go:178-182, 265-269 and 302-310: a connection is sent a message at most
\* once live and at most once as an offline message, and of what it sent it is
\* told at most once that it was sent or that it was not, never both.
SentOnce ==
  \A c \in Conns :
    /\ \A i \in 1..Len(messages) :
         ~({Frame(t, i) : t \in Answers} \subseteq RowFrames(c))
    /\ \A j, k \in 1..Len(send[c]) :
         send[c][j] = send[c][k] /\ send[c][j].id # 0 => j = k
    /\ FramesIn(send[c]) \intersect wrote[c] = {}

\* Two messages that one connection sent to the same user wait in the channel of
\* the receiver in the order they were sent, and none waits behind a later one
\* that is already written.
LiveOrder ==
  \A c \in Conns : \A k \in 1..Len(send[c]) :
    LET f == send[c][k]
        Before(g) == g.id < f.id \/ messages[g.id].via # messages[f.id].via
    IN f.type = "chat" =>
         /\ \A j \in 1..(k - 1) : send[c][j].type = "chat" => Before(send[c][j])
         /\ \A g \in wrote[c] : g.type = "chat" => Before(g)

IsOffline(f) == f.type = "offline_message"

\* handlers/websocket.go:92-128 and message_repository.go:138: the backlog of a
\* connection is queued and written oldest first, whatever live messages, answers
\* and flushes come in between; what is left of it is newer than what was pushed.
OldestFirst ==
  \A c \in Conns :
    /\ \A k \in 1..Len(send[c]) : IsOffline(send[c][k]) =>
         /\ \A j \in 1..(k - 1) : IsOffline(send[c][j]) => send[c][j].id < send[c][k].id
         /\ \A g \in wrote[c] : IsOffline(g) => g.id < send[c][k].id
    /\ \A i \in batch[c] : \A g \in RowFrames(c) : IsOffline(g) => g.id < i

\* hub.go:172-202 and 302-310: while the WritePump of a connection runs, every
\* message stored on it is answered: its message_sent, or the error of an INSERT
\* that reported one and yet took effect, is written or waits in the channel, or
\* ReadPump is about to send it, also when the push found the receiver's channel
\* full.
StoredIsAnswered ==
  \A c \in Conns : writer[c] = "running" =>
    \A i \in 1..Len(messages) : messages[i].via = c =>
      out[c].id = i \/ \E t \in Answers : Frame(t, i) \in RowFrames(c)

\* What a goroutine still has to send is not sent yet: what ReadPump is about to
\* push is newer than all it has pushed, its answer and the rest of the backlog
\* are still to come, and no backlog comes before it is queried.
StillToSend(c) ==
  /\ out[c].type = "chat" =>
       \A d \in Conns : \A g \in RowFrames(d) :
         g.type = "chat" /\ messages[g.id].via = c => g.id < out[c].id
  /\ \A t \in Answers : Frame(t, out[c].id) \notin RowFrames(c)
  /\ offline[c] \in {"idle", "query"} =>
       \A g \in RowFrames(c) : g.type # "offline_message"
  /\ \A i \in batch[c] : Frame("offline_message", i) \notin RowFrames(c)

LiveIsAboutRows ==
  \A c \in Conns : \A f \in FramesIn(send[c]) : f.type = "chat" => f.id # 0

BacklogStartsOnce ==
  \A c \in Conns : reader[c] \in {"idle", "registering"} => offline[c] = "idle"

\* The inductive invariant of HubDeliveryProofs, on top of IndInv.
DeliveryInv ==
  /\ SentOnce /\ LiveOrder /\ LiveIsAboutRows /\ BacklogStartsOnce
  /\ \A c \in Conns : StillToSend(c)

\* hub.go:88 closes no channel but that of the leaving connection, and no frame
\* is ever added to a closed channel.
NothingAfterClose ==
  [][\A c \in Conns : closed[c] /\ closed'[c] =>
       Len(send'[c]) <= Len(send[c])]_vars

\* The hub keeps the promise of Mailbox: handed are the frames waiting in a
\* connection's channel or written to it.
M == INSTANCE Mailbox WITH rows <- messages,
                           handed <- [c \in Conns |-> RowFrames(c)]
ImplementsMailbox == M!Spec

\* The one way a connection is never given up: WritePump left it on a write that
\* timed out while ReadPump was sending an answer to a full channel (hub.go:316,
\* 328, 342), which nobody drains any more.
Wedged(c) == reader[c] = "replying" /\ ~Fits(c) /\ writer[c] = "gone"

\* hub.go:218-242: a connection whose socket is gone is unregistered and its
\* ReadPump ends, unless it is wedged or Run has returned.
DroppedIsReleased ==
  \A c \in Conns :
    (reader[c] # "idle" /\ ~connUp[c])
      ~> (reader[c] = "gone" \/ Wedged(c) \/ hub.pc = "stopped")

\* hub.go:244-283: WritePump outlives ReadPump only for a while, also when the
\* channel is not closed because another connection's leaving took the entry.
WriterFollows ==
  \A c \in Conns : reader[c] = "gone" ~> writer[c] = "gone"

\* hub.go:244-283: what is queued for a connection leaves the channel or the
\* connection is given up.
QueueIsServed ==
  \A c \in Conns : send[c] # <<>> ~> (send[c] = <<>> \/ writer[c] = "gone")

------------------------------------------------------------------------------
(* What the repository says of the hub and the code does not do *)

\* handlers/websocket.go:88 returns early when there is no unread message, so a
\* user without any may connect.  GetUnreadMessages (hub.go:211) has panicked
\* before that test is reached.
EmptyBacklogIsHarmless == panic # "index out of range"

\* README.md:22: messages are pushed in real time over the WebSocket.  While a
\* connection of a user is open and being read, the hub can find the user; it
\* cannot after the user's previous connection was unregistered (hub.go:85-87).
OpenIsReachable ==
  hub.pc = "select" =>
    \A c \in Conns : reader[c] = "reading" /\ connUp[c] => userClients[Owner[c]] # None

\* hub.go:199: a message for an absent user is queued.  The goroutine that later
\* takes it out of the queue pushes it, or leaves it unread to be fetched again,
\* unless the sender's ReadPump is only about to push it; the code has marked it
\* read (hub.go:211) before it knows.
QueuedUntilPushed ==
  [][\A c \in Conns : offline[c] = "push" /\ up' =>
       \A i \in batch[c] \ batch'[c] :
         \/ Frame("offline_message", i) \in FramesIn(send'[c])
         \/ \E d \in Conns : out[d] = Frame("chat", i)
         \/ ~messages[i].is_read]_vars
=============================================================================
