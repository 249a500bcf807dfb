------------------------------ MODULE HubProofs ------------------------------
(***************************************************************************)
(* The safety of Hub for any users, connections, channel capacity, bound   *)
(* on the rows, inputs and faults.                                         *)
(***************************************************************************)
EXTENDS Hub, SequenceTheorems, TLAPS

USE HubAssumption

\* Frames and rows are what their constructors say.
LEMMA FrameIsFrame ==
  ASSUME NEW t \in FrameType, NEW i \in Nat
  PROVE  Frame(t, i) \in Frames
BY DEF Frame, Frames

LEMMA RowIsRow ==
  ASSUME NEW c \in Conns, NEW u \in Users
  PROVE  /\ Row(c, u) \in Rows
         /\ Row(c, u).to = u /\ Row(c, u).via = c
BY DEF Row, Rows

LEMMA SeenIsRow ==
  ASSUME NEW r \in Rows
  PROVE  /\ Seen(r) \in Rows
         /\ Seen(r).to = r.to /\ Seen(r).via = r.via
BY DEF Seen, Rows

\* A frame put on a channel leaves the channels sequences of frames.
LEMMA EnqueueType ==
  ASSUME send \in [Conns -> Seq(Frames)],
         NEW c \in Conns, NEW f \in Frames, Enqueue(c, f)
  PROVE  send' \in [Conns -> Seq(Frames)]
<1>1. Append(send[c], f) \in Seq(Frames)
  BY AppendProperties
<1> QED
  BY <1>1 DEF Enqueue

\* What a step may do to the table: rows stay, with their receiver and sender.
RowsKept ==
  /\ Len(messages) <= Len(messages')
  /\ \A i \in 1..Len(messages) :
       messages'[i].to = messages[i].to /\ messages'[i].via = messages[i].via

\* Marking rows read, one or a conversation, keeps the rows.
LEMMA MarkKeepsRows ==
  ASSUME messages \in Seq(Rows),
         NEW u, NEW o, MarkConversationAsRead(u, o)
  PROVE  messages' \in Seq(Rows) /\ RowsKept /\ Len(messages') = Len(messages)
<1>1. Len(messages) \in Nat /\ \A i \in 1..Len(messages) : messages[i] \in Rows
  BY LenProperties, ElementOfSeq
<1>2. messages' \in [1..Len(messages) -> Rows]
  BY <1>1, SeenIsRow DEF MarkConversationAsRead
<1>3. messages' \in Seq(Rows)
  BY <1>1, <1>2, SeqDef
<1>4. Len(messages') = Len(messages)
  BY <1>1, <1>2, <1>3, LenProperties
<1>5. \A i \in 1..Len(messages) :
        messages'[i].to = messages[i].to /\ messages'[i].via = messages[i].via
  BY <1>1, SeenIsRow DEF MarkConversationAsRead
<1> QED
  BY <1>1, <1>3, <1>4, <1>5 DEF RowsKept

LEMMA ReceiptKeepsRows ==
  ASSUME messages \in Seq(Rows),
         NEW u, NEW i \in 1..Len(messages), MarkAsRead(u, i)
  PROVE  messages' \in Seq(Rows) /\ RowsKept /\ Len(messages') = Len(messages)
<1>1. messages[i] \in Rows /\ Len(messages) \in Nat
  BY ElementOfSeq, LenProperties
<1> DEFINE e == IF messages[i].to = u THEN Seen(messages[i]) ELSE messages[i]
<1>2. e \in Rows /\ e.to = messages[i].to /\ e.via = messages[i].via
  BY <1>1, SeenIsRow
<1>3. messages' = [messages EXCEPT ![i] = e]
  BY DEF MarkAsRead
<1> HIDE DEF e
<1>4. /\ messages' \in Seq(Rows)
      /\ Len(messages') = Len(messages)
      /\ \A j \in 1..Len(messages) : messages'[j] = IF j = i THEN e ELSE messages[j]
  BY <1>2, <1>3, ExceptSeq
<1> QED
  BY <1>1, <1>2, <1>4 DEF RowsKept

\* A new row is added behind the others.
LEMMA ChatKeepsRows ==
  ASSUME messages \in Seq(Rows),
         NEW c \in Conns, NEW u \in Users, messages' = Append(messages, Row(c, u))
  PROVE  /\ messages' \in Seq(Rows) /\ RowsKept
         /\ Len(messages') = Len(messages) + 1
         /\ messages'[Len(messages) + 1].via = c
<1>1. Row(c, u) \in Rows /\ Row(c, u).via = c
  BY RowIsRow
<1>2. Len(messages) \in Nat
  BY LenProperties
<1>3. /\ messages' \in Seq(Rows)
      /\ Len(messages') = Len(messages) + 1
      /\ \A i \in 1..Len(messages) : messages'[i] = messages[i]
      /\ messages'[Len(messages) + 1] = Row(c, u)
  BY <1>1, AppendProperties
<1> QED
  BY <1>1, <1>2, <1>3 DEF RowsKept

LEMMA SameRowsKept ==
  ASSUME messages \in Seq(Rows), UNCHANGED messages
  PROVE  RowsKept
BY LenProperties DEF RowsKept

\* Every action keeps every variable in its type.
LEMMA TypeStep ==
  ASSUME TypeOK, PendingIsStored, [Next]_vars
  PROVE  TypeOK'
<1> USE DEF vars, process, registry, channels, pumps, backlog, stores
<1>a. /\ messages \in Seq(Rows)
      /\ send \in [Conns -> Seq(Frames)]
      /\ userClients \in [Users -> Conns \union {None}]
      /\ out \in [Conns -> Frames]
      /\ batch \in [Conns -> SUBSET Nat]
      /\ offline \in [Conns -> {"idle", "query", "mark", "push", "done"}]
  BY DEF TypeOK
<1>0. Len(messages) \in Nat /\ \A i \in 1..Len(messages) : messages[i] \in Rows
  BY <1>a, LenProperties, ElementOfSeq
<1>1. CASE HubAdd
  BY <1>1 DEF HubAdd, Record, TypeOK
<1>2. CASE HubSetOnline
  BY <1>2 DEF HubSetOnline, RedisCall, HubSelect, TypeOK
<1>3. CASE HubRemove
  BY <1>3 DEF HubRemove, Forget, CloseChannel, TypeOK
<1>4. CASE HubRemoveAbsent
  BY <1>4 DEF HubRemoveAbsent, HubSelect, TypeOK
<1>5. CASE HubSetOffline
  BY <1>5 DEF HubSetOffline, RedisCall, HubSelect, TypeOK
<1>6. CASE HubStop
  BY <1>6 DEF HubStop, TypeOK
<1>7. ASSUME NEW why \in {"killed", "index out of range", "send on closed channel"}, Halt(why)
      PROVE  TypeOK'
  <2>1. NoFrame \in Frames
    BY FrameIsFrame DEF NoFrame, FrameType
  <2>2. up' \in BOOLEAN /\ panic' \in {"none", "killed", "index out of range",
                                       "send on closed channel"}
    BY <1>7 DEF Halt
  <2>3. /\ hub' \in [pc : {"select", "register", "online", "unregister", "offline",
                           "stopped"}, conn : Conns \union {None}]
        /\ hub'.pc \in {"select", "stopped"} <=> hub'.conn = None
        /\ clients' \in [Users -> Conns \union {None}]
        /\ userClients' \in [Users -> Conns \union {None}]
    BY <1>7 DEF Halt, NoClients
  <2>4. /\ send' \in [Conns -> Seq(Frames)]
        /\ closed' \in [Conns -> BOOLEAN]
        /\ connUp' \in [Conns -> BOOLEAN]
        /\ out' \in [Conns -> Frames]
        /\ batch' \in [Conns -> SUBSET Nat]
    BY <1>a, <1>7, <2>1, EmptySeq DEF Halt
  <2>5. /\ reader' \in [Conns -> {"idle", "registering", "reading", "delivering",
                                  "replying", "leaving", "closing", "gone"}]
        /\ writer' \in [Conns -> {"idle", "running", "gone"}]
        /\ offline' \in [Conns -> {"idle", "query", "mark", "push", "done"}]
    BY <1>7 DEF Halt
  <2>6. UNCHANGED <<messages, online, wrote>> /\ stale' = online
    BY <1>7 DEF Halt
  <2> QED
    BY <2>2, <2>3, <2>4, <2>5, <2>6 DEF TypeOK
<1>8. CASE Restart
  BY <1>8 DEF Restart, TypeOK
<1>9. ASSUME NEW u \in Users, NEW o \in Users, RestMarkConversation(u, o)
      PROVE  TypeOK'
  BY <1>9, MarkKeepsRows DEF RestMarkConversation, TypeOK
<1>10. ASSUME NEW c \in Conns, Connect(c)
       PROVE  TypeOK'
  BY <1>10 DEF Connect, TypeOK
<1>11. ASSUME NEW c \in Conns, HubRegister(c)
       PROVE  TypeOK'
  BY <1>11 DEF HubRegister, TypeOK
<1>12. ASSUME NEW c \in Conns, HubUnregister(c)
       PROVE  TypeOK'
  BY <1>12 DEF HubUnregister, TypeOK
<1>13. ASSUME NEW c \in Conns, ConnDrop(c)
       PROVE  TypeOK'
  BY <1>13 DEF ConnDrop, TypeOK
<1>14. ASSUME NEW c \in Conns, ReadPump(c)
       PROVE  TypeOK'
  <2>1. ASSUME NEW u \in Users, ReadChat(c, u) \/ ReadChatUnknown(c, u) PROVE TypeOK'
    <3>1. messages' \in Seq(Rows)
      BY <1>a, <2>1, ChatKeepsRows DEF ReadChat, ReadChatUnknown, CreateMessage
    <3>2. \A t \in {"chat", "error"} : Frame(t, Len(messages) + 1) \in Frames
      BY <1>0, FrameIsFrame DEF FrameType
    <3>3. CASE ReadChat(c, u)
      BY <3>1, <3>2, <3>3 DEF ReadChat, CreateMessage, TypeOK
    <3>4. CASE ReadChatUnknown(c, u)
      BY <3>1, <3>2, <3>4 DEF ReadChatUnknown, CreateMessage, TypeOK
    <3> QED
      BY <2>1, <3>3, <3>4
  <2>2. ASSUME NEW u \in Users, NEW f \in Frames, SendToUser(u, f)
        PROVE  send' \in [Conns -> Seq(Frames)]
    <3>1. UNCHANGED send \/ \E d \in Conns : Enqueue(d, f)
      BY <1>a, <2>2 DEF SendToUser
    <3> QED
      BY <1>a, <3>1, EnqueueType
  <2>3. ASSUME NEW u \in Users, ReadTyping(c, u) PROVE TypeOK'
    <3>1. Frame("typing", 0) \in Frames
      BY FrameIsFrame DEF FrameType
    <3> QED
      BY <2>2, <2>3, <3>1 DEF ReadTyping, TypeOK
  <2>4. ASSUME NEW i \in 1..Len(messages), ReadReceipt(c, i) PROVE TypeOK'
    BY <2>4, ReceiptKeepsRows DEF ReadReceipt, TypeOK
  <2>5. CASE ReadAnswered(c)
    <3>1. \A t \in {"pong", "error"} : Frame(t, 0) \in Frames
      BY FrameIsFrame DEF FrameType
    <3>2. out' \in [Conns -> Frames]
      BY <1>a, <2>5, <3>1 DEF ReadAnswered
    <3> QED
      BY <2>5, <3>2 DEF ReadAnswered, TypeOK
  <2>6. CASE Deliver(c)
    <3>1. messages[out[c].id].to \in Users
      BY <1>a, <1>0, <2>6 DEF Deliver, PendingIsStored, OutIsStored, Answers, Rows
    <3>2. out[c] \in Frames /\ Frame("message_sent", out[c].id) \in Frames
      BY <1>a, FrameIsFrame DEF FrameType, Frames
    <3>3. send' \in [Conns -> Seq(Frames)]
      BY <1>a, <2>2, <2>6, <3>1, <3>2 DEF Deliver
    <3> QED
      BY <2>6, <3>2, <3>3 DEF Deliver, TypeOK
  <2>7. CASE Reply(c)
    <3>1. send' \in [Conns -> Seq(Frames)]
      BY <1>a, <2>7, EnqueueType DEF Reply
    <3>2. NoFrame \in Frames
      BY FrameIsFrame DEF NoFrame, FrameType
    <3> QED
      BY <2>7, <3>1, <3>2 DEF Reply, TypeOK
  <2>8. CASE ReadError(c)
    BY <2>8 DEF ReadError, TypeOK
  <2>9. CASE CloseConn(c)
    BY <2>9 DEF CloseConn, TypeOK
  <2> QED
    BY <1>14, <2>1, <2>3, <2>4, <2>5, <2>6, <2>7, <2>8, <2>9 DEF ReadPump
<1>15. ASSUME NEW c \in Conns, WritePump(c)
       PROVE  TypeOK'
  <2>0. send[c] # <<>> => Tail(send[c]) \in Seq(Frames)
    BY <1>a, HeadTailProperties
  <2>1. CASE WriterFlush(c)
    <3>1. FramesIn(send[c]) \subseteq Frames
      BY <1>a, ElementOfSeq DEF FramesIn
    <3>2. send' \in [Conns -> Seq(Frames)]
      BY <1>a, <2>1, EmptySeq DEF WriterFlush, TakeAll
    <3> QED
      BY <2>1, <3>1, <3>2 DEF WriterFlush, TypeOK
  <2>2. CASE WriterFail(c)
    <3>0. PICK s \in {Tail(send[c]), <<>>} : send' = [send EXCEPT ![c] = s]
      BY <2>2 DEF WriterFail
    <3>1. send' \in [Conns -> Seq(Frames)]
      <4>1. s \in Seq(Frames)
        BY <2>0, <2>2, EmptySeq DEF WriterFail
      <4> QED
        BY <1>a, <3>0, <4>1
    <3> QED
      BY <2>2, <3>1 DEF WriterFail, WriterExit, TypeOK
  <2>3. CASE WriterPingFail(c)
    BY <2>3 DEF WriterPingFail, WriterExit, TypeOK
  <2>4. CASE WriterClosed(c)
    BY <2>4 DEF WriterClosed, WriterExit, TypeOK
  <2> QED
    BY <1>15, <2>1, <2>2, <2>3, <2>4 DEF WritePump
<1>16. ASSUME NEW c \in Conns, SendOfflineMessages(c)
       PROVE  TypeOK'
  <2>1. CASE OfflineQuery(c)
    <3>1. Unread(Owner[c]) \subseteq Nat
      BY <1>a, <1>0 DEF Unread
    <3> QED
      BY <2>1, <3>1 DEF OfflineQuery, TypeOK
  <2>2. CASE OfflineQueryEmpty(c)
    BY <1>7, <2>2 DEF OfflineQueryEmpty
  <2>3. CASE OfflinePushClosed(c)
    BY <1>7, <2>3 DEF OfflinePushClosed
  <2>4. CASE OfflineQueryError(c)
    BY <2>4 DEF OfflineQueryError, TypeOK
  <2>5. CASE OfflineMark(c)
    <3>1. messages' \in Seq(Rows)
      BY <1>a, <2>5, MarkKeepsRows DEF OfflineMark
    <3> QED
      BY <2>5, <3>1 DEF OfflineMark, TypeOK
  <2>0. ASSUME NEW rest \in SUBSET Nat, OfflineNext(c, rest)
        PROVE  /\ batch' \in [Conns -> SUBSET Nat]
               /\ offline' \in [Conns -> {"idle", "query", "mark", "push", "done"}]
    BY <1>a, <2>0 DEF OfflineNext
  <2>6. CASE OfflineSkip(c)
    <3>1. PICK i \in batch[c] : OfflineNext(c, batch[c] \ {i})
      BY <2>6 DEF OfflineSkip
    <3>2. batch[c] \ {i} \in SUBSET Nat
      BY <1>a
    <3>3. /\ batch' \in [Conns -> SUBSET Nat]
          /\ offline' \in [Conns -> {"idle", "query", "mark", "push", "done"}]
      BY <2>0, <3>1, <3>2
    <3> QED
      BY <2>6, <3>3 DEF OfflineSkip, TypeOK
  <2>7. CASE OfflinePush(c)
    <3>1. \A i \in batch[c] : Frame("offline_message", i) \in Frames
      BY <1>a, FrameIsFrame DEF FrameType
    <3>2. PICK rest \in SUBSET Nat :
            /\ OfflineNext(c, rest)
            /\ \/ UNCHANGED send
               \/ \E i \in batch[c] : Enqueue(c, Frame("offline_message", i))
      BY <1>a, <2>7 DEF OfflinePush
    <3>3. /\ batch' \in [Conns -> SUBSET Nat]
          /\ offline' \in [Conns -> {"idle", "query", "mark", "push", "done"}]
      BY <2>0, <3>2
    <3>4. send' \in [Conns -> Seq(Frames)]
      BY <1>a, <3>1, <3>2, EnqueueType
    <3> QED
      BY <2>7, <3>3, <3>4 DEF OfflinePush, TypeOK
  <2> QED
    BY <1>16, <2>1, <2>2, <2>3, <2>4, <2>5, <2>6, <2>7 DEF SendOfflineMessages
<1>17. CASE UNCHANGED vars
  BY <1>17 DEF TypeOK
<1> QED
  BY <1>1, <1>2, <1>3, <1>4, <1>5, <1>6, <1>7, <1>8, <1>9, <1>10, <1>11, <1>12,
     <1>13, <1>14, <1>15, <1>16, <1>17 DEF Next, HubStep, Crash

------------------------------------------------------------------------------
(* The registry *)

Registry == HubServes /\ MapsAgree /\ RegisteredOpen /\ OpenUntilRemoved

\* The moves a ReadPump makes by itself.
ReadersMove ==
  \A c \in Conns :
    \/ reader'[c] = reader[c]
    \/ reader[c] \in Live /\ reader'[c] \in Live
    \/ reader[c] \in Over /\ reader'[c] \in Over
    \/ reader[c] = "idle" /\ reader'[c] = "registering"

\* They do not touch the registry, and leave it in order.
LEMMA ReadersKeepRegistry ==
  ASSUME TypeOK, Registry, ReadersMove,
         UNCHANGED <<hub, clients, userClients, closed>>
  PROVE  Registry'
<1>1. hub.conn \in Conns \/ hub.pc \in {"select", "stopped"}
  BY DEF TypeOK
<1>2. HubServes'
  BY <1>1 DEF Registry, HubServes, ReadersMove, Live, Over
<1>3. OpenUntilRemoved'
  BY DEF Registry, OpenUntilRemoved, ReadersMove, Live, Over
<1>4. MapsAgree' /\ RegisteredOpen'
  BY DEF Registry, MapsAgree, RegisteredOpen
<1> QED
  BY <1>2, <1>3, <1>4 DEF Registry

\* Every step is a step of Run, the end of the process, or one that leaves the
\* registry alone.
LEMMA HubOrReaders ==
  ASSUME TypeOK, [Next]_vars
  PROVE  \/ ReadersMove /\ UNCHANGED <<hub, clients, userClients, closed>>
         \/ HubStep \/ HubStop \/ \E why : Halt(why)
         \/ \E c \in Conns : HubRegister(c) \/ HubUnregister(c)
<1> USE DEF vars, process, registry, channels, pumps, backlog, stores
<1> DEFINE Goal == \/ ReadersMove /\ UNCHANGED <<hub, clients, userClients, closed>>
                   \/ HubStep \/ HubStop \/ \E why : Halt(why)
                   \/ \E c \in Conns : HubRegister(c) \/ HubUnregister(c)
<1>a. reader \in [Conns -> {"idle", "registering", "reading", "delivering",
                            "replying", "leaving", "closing", "gone"}]
  BY DEF TypeOK
<1>1. CASE UNCHANGED <<hub, clients, userClients, closed, reader>>
  BY <1>1 DEF ReadersMove
<1>2. ASSUME NEW c \in Conns, Connect(c)
      PROVE  Goal
  BY <1>2, <1>a DEF Connect, ReadersMove
<1>3. ASSUME NEW c \in Conns, ReadPump(c)
      PROVE  Goal
  <2>1. ASSUME NEW r \in Live, reader[c] \in Live, reader' = [reader EXCEPT ![c] = r],
               UNCHANGED <<hub, clients, userClients, closed>>
        PROVE  Goal
    BY <1>a, <2>1 DEF ReadersMove
  <2>2. ASSUME NEW u \in Users, ReadChat(c, u) \/ ReadChatUnknown(c, u) PROVE Goal
    BY <2>1, <2>2 DEF ReadChat, ReadChatUnknown, CreateMessage, Receiving, Live
  <2>3. ASSUME NEW u \in Users, ReadTyping(c, u) PROVE Goal
    BY <1>1, <2>3 DEF ReadTyping
  <2>4. ASSUME NEW i \in 1..Len(messages), ReadReceipt(c, i) PROVE Goal
    BY <1>1, <2>4 DEF ReadReceipt
  <2>5. CASE ReadAnswered(c)
    BY <2>1, <2>5 DEF ReadAnswered, Receiving, Live
  <2>6. CASE Deliver(c)
    BY <2>1, <2>6 DEF Deliver, Live
  <2>7. CASE Reply(c)
    BY <2>1, <2>7 DEF Reply, Live
  <2>8. CASE ReadError(c)
    BY <2>1, <2>8 DEF ReadError, Live
  <2>9. CASE CloseConn(c)
    BY <1>a, <2>9 DEF CloseConn, ReadersMove, Over
  <2> QED
    BY <1>3, <2>2, <2>3, <2>4, <2>5, <2>6, <2>7, <2>8, <2>9 DEF ReadPump
<1>4. ASSUME NEW c \in Conns, WritePump(c) \/ ConnDrop(c)
      PROVE  Goal
  BY <1>1, <1>4 DEF WritePump, WriterFlush, WriterFail, WriterPingFail, WriterClosed, ConnDrop
<1>5. ASSUME NEW c \in Conns, SendOfflineMessages(c)
      PROVE  Goal
  BY <1>1, <1>5 DEF SendOfflineMessages, OfflineQuery, OfflineQueryEmpty, OfflineQueryError,
       OfflineMark, OfflineSkip, OfflinePush, OfflinePushClosed
<1>6. ASSUME NEW u \in Users, NEW o \in Users, RestMarkConversation(u, o)
      PROVE  Goal
  BY <1>1, <1>6 DEF RestMarkConversation
<1>7. CASE Restart \/ UNCHANGED vars
  BY <1>1, <1>7 DEF Restart
<1> QED
  BY <1>2, <1>3, <1>4, <1>5, <1>6, <1>7 DEF Next, Crash

\* Every action keeps the registry in order.
LEMMA RegistryStep ==
  ASSUME TypeOK, Registry, [Next]_vars
  PROVE  Registry'
<1> USE DEF vars, process, registry, channels, pumps, backlog, stores
<1>a. /\ reader \in [Conns -> {"idle", "registering", "reading", "delivering",
                               "replying", "leaving", "closing", "gone"}]
      /\ closed \in [Conns -> BOOLEAN]
      /\ clients \in [Users -> Conns \union {None}]
      /\ userClients \in [Users -> Conns \union {None}]
      /\ hub \in [pc : {"select", "register", "online", "unregister", "offline",
                        "stopped"}, conn : Conns \union {None}]
      /\ hub.pc \in {"select", "stopped"} <=> hub.conn = None
  BY DEF TypeOK
<1>b. HubServes /\ MapsAgree /\ RegisteredOpen /\ OpenUntilRemoved
  BY DEF Registry
<1>1. CASE HubAdd
  <2>1. hub.conn \in Conns /\ ~closed[hub.conn]
    BY <1>1, <1>a, <1>b DEF HubAdd, HubServes, OpenUntilRemoved
  <2>2. MapsAgree'
    BY <1>1, <1>b DEF HubAdd, Record, MapsAgree
  <2>3. RegisteredOpen'
    BY <1>1, <1>a, <1>b, <2>1 DEF HubAdd, Record, RegisteredOpen
  <2>4. HubServes'
    BY <1>1, <1>b DEF HubAdd, HubServes
  <2>5. OpenUntilRemoved'
    BY <1>1, <1>b, <2>1 DEF HubAdd, OpenUntilRemoved
  <2> QED
    BY <2>2, <2>3, <2>4, <2>5 DEF Registry
<1>2. CASE HubSetOnline \/ HubRemoveAbsent \/ HubSetOffline
  <2>1. HubSelect /\ UNCHANGED <<reader, closed>>
    BY <1>2 DEF HubSetOnline, HubRemoveAbsent, HubSetOffline, HubSelect
  <2>2. HubServes'
    BY <2>1 DEF HubSelect, HubServes
  <2>3. OpenUntilRemoved'
    BY <1>b, <2>1 DEF HubSelect, OpenUntilRemoved
  <2>4. MapsAgree' /\ RegisteredOpen'
    BY <1>b, <2>1 DEF HubSelect, MapsAgree, RegisteredOpen
  <2> QED
    BY <2>2, <2>3, <2>4 DEF Registry
<1>3. CASE HubRemove
  <2>1. hub.conn \in Conns /\ reader[hub.conn] \in Over
    BY <1>3, <1>a, <1>b DEF HubRemove, HubServes, Over
  <2>2. MapsAgree'
    BY <1>3, <1>b DEF HubRemove, Forget, MapsAgree
  <2>3. RegisteredOpen'
    BY <1>3, <1>a, <1>b, <2>1 DEF HubRemove, Forget, CloseChannel, RegisteredOpen
  <2>4. HubServes'
    BY <1>3, <2>1 DEF HubRemove, HubServes, Over
  <2>5. OpenUntilRemoved'
    BY <1>3, <1>a, <1>b, <2>1 DEF HubRemove, CloseChannel, OpenUntilRemoved, Over
  <2> QED
    BY <2>2, <2>3, <2>4, <2>5 DEF Registry
<1>4. CASE HubStop
  <2>1. HubServes' /\ OpenUntilRemoved'
    BY <1>4, <1>b DEF HubStop, HubServes, OpenUntilRemoved
  <2>2. MapsAgree' /\ RegisteredOpen'
    BY <1>4, <1>b DEF HubStop, MapsAgree, RegisteredOpen
  <2> QED
    BY <2>1, <2>2 DEF Registry
<1>5. ASSUME NEW why, Halt(why)
      PROVE  Registry'
  <2>1. HubServes' /\ OpenUntilRemoved'
    BY <1>5 DEF Halt, HubServes, OpenUntilRemoved
  <2>2. MapsAgree' /\ RegisteredOpen'
    BY <1>5 DEF Halt, NoClients, MapsAgree, RegisteredOpen
  <2> QED
    BY <2>1, <2>2 DEF Registry
<1>6. CASE ReadersMove /\ UNCHANGED <<hub, clients, userClients, closed>>
  BY <1>6, ReadersKeepRegistry
<1>7. ASSUME NEW c \in Conns, HubRegister(c)
      PROVE  Registry'
  <2>1. ~closed[c]
    BY <1>7, <1>a, <1>b DEF HubRegister, OpenUntilRemoved
  <2>2. HubServes'
    BY <1>7, <1>a DEF HubRegister, HubServes
  <2>3. OpenUntilRemoved'
    BY <1>7, <1>a, <1>b, <2>1 DEF HubRegister, OpenUntilRemoved
  <2>4. MapsAgree' /\ RegisteredOpen'
    BY <1>7, <1>b DEF HubRegister, MapsAgree, RegisteredOpen
  <2> QED
    BY <2>2, <2>3, <2>4 DEF Registry
<1>8. ASSUME NEW c \in Conns, HubUnregister(c)
      PROVE  Registry'
  <2>1. ~closed[c]
    BY <1>8, <1>a, <1>b DEF HubUnregister, OpenUntilRemoved
  <2>2. HubServes'
    BY <1>8, <1>a, <2>1 DEF HubUnregister, HubServes
  <2>3. OpenUntilRemoved'
    BY <1>8, <1>a, <1>b, <2>1 DEF HubUnregister, OpenUntilRemoved
  <2>4. MapsAgree' /\ RegisteredOpen'
    BY <1>8, <1>b DEF HubUnregister, MapsAgree, RegisteredOpen
  <2> QED
    BY <2>2, <2>3, <2>4 DEF Registry
<1> QED
  BY <1>1, <1>2, <1>3, <1>4, <1>5, <1>6, <1>7, <1>8, HubOrReaders DEF HubStep

\* Every action keeps the entries and the served connections together.
LEMMA FollowsStep ==
  ASSUME TypeOK, Registry, RegistryFollows, [Next]_vars
  PROVE  RegistryFollows'
<1> USE DEF process, registry, channels, pumps, backlog, stores
<1>a. /\ reader \in [Conns -> {"idle", "registering", "reading", "delivering",
                               "replying", "leaving", "closing", "gone"}]
      /\ userClients \in [Users -> Conns \union {None}]
      /\ hub.conn \in Conns \union {None}
      /\ hub.pc \in {"select", "stopped"} <=> hub.conn = None
  BY DEF TypeOK
<1>b. HubServes /\ MapsAgree /\ RegisteredOpen
  BY DEF Registry
<1>1. ASSUME UNCHANGED <<hub, userClients>>, ReadersMove
      PROVE  RegistryFollows'
  <2>1. \A c \in Conns : reader'[c] \in Live <=> reader[c] \in Live
    BY <1>1 DEF ReadersMove, Live, Over
  <2>2. \A c, d \in Conns : Evicts(d, c) => Evicts(d, c)'
    BY <1>1 DEF ReadersMove, Evicts, Live, Over
  <2> QED
    BY <1>1, <1>a, <2>1, <2>2 DEF RegistryFollows
<1>2. CASE HubAdd
  <2>1. hub.conn \in Conns /\ reader[hub.conn] \in Live /\ Owner[hub.conn] \in Users
    BY <1>2, <1>a, <1>b DEF HubAdd, HubServes, Live
  <2>2. /\ userClients' = [userClients EXCEPT ![Owner[hub.conn]] = hub.conn]
        /\ hub'.pc = "online" /\ hub.pc = "register" /\ UNCHANGED reader
    BY <1>2 DEF HubAdd, Record
  <2>3. \A c, d \in Conns : Evicts(d, c) => Evicts(d, c)'
    BY <2>2 DEF Evicts
  <2> QED
    BY <1>a, <2>1, <2>2, <2>3 DEF RegistryFollows
<1>3. CASE HubSetOnline \/ HubSetOffline \/ HubStop
  <2>1. /\ UNCHANGED <<userClients, reader>>
        /\ hub.pc \notin {"register", "unregister"}
    BY <1>3 DEF HubSetOnline, HubSetOffline, HubStop, HubSelect
  <2> QED
    BY <2>1 DEF RegistryFollows, Evicts
<1>4. CASE HubRemove
  <2>1. hub.conn \in Conns /\ reader[hub.conn] \in Over /\ Owner[hub.conn] \in Users
    BY <1>4, <1>a, <1>b DEF HubRemove, HubServes, Over
  <2>2. /\ userClients' = [userClients EXCEPT ![Owner[hub.conn]] = None]
        /\ hub.pc = "unregister" /\ UNCHANGED reader
    BY <1>4 DEF HubRemove, Forget
  <2>3. ASSUME NEW u \in Users, userClients'[u] # None
        PROVE  reader[userClients'[u]] \in Live
    BY <1>a, <1>b, <2>1, <2>2, <2>3 DEF RegistryFollows, RegisteredOpen
  <2>4. ASSUME NEW c \in Conns, reader[c] \in Live, userClients'[Owner[c]] = None
        PROVE  \E d \in Conns : Evicts(d, c)
    <3>1. CASE Owner[c] = Owner[hub.conn]
      BY <2>1, <2>4, <3>1 DEF Evicts, Live, Over
    <3>2. CASE Owner[c] # Owner[hub.conn]
      BY <1>a, <2>2, <2>4, <3>2 DEF RegistryFollows
    <3> QED
      BY <3>1, <3>2
  <2> QED
    BY <2>2, <2>3, <2>4 DEF RegistryFollows, Evicts
<1>5. CASE HubRemoveAbsent
  <2>1. /\ UNCHANGED <<userClients, reader>> /\ hub.pc = "unregister"
        /\ userClients[Owner[hub.conn]] = None /\ hub.conn \in Conns
    BY <1>5, <1>a, <1>b DEF HubRemoveAbsent, HubSelect, HasClient, MapsAgree
  <2>2. \A u \in Users : userClients[u] # hub.conn
    BY <1>b, <2>1 DEF RegisteredOpen
  <2> QED
    BY <2>1, <2>2 DEF RegistryFollows, Evicts
<1>6. ASSUME NEW why, Halt(why)
      PROVE  RegistryFollows'
  BY <1>6 DEF Halt, NoClients, RegistryFollows, Live
<1>7. ASSUME NEW c \in Conns, HubRegister(c)
      PROVE  RegistryFollows'
  <2>1. /\ UNCHANGED userClients /\ reader' = [reader EXCEPT ![c] = "reading"]
        /\ hub.pc = "select" /\ hub'.pc = "register" /\ hub'.conn = c
        /\ reader[c] = "registering"
    BY <1>7 DEF HubRegister
  <2>2. \A d, e \in Conns : Evicts(d, e) => Evicts(d, e)'
    BY <1>a, <2>1 DEF Evicts, Over
  <2> QED
    BY <1>a, <2>1, <2>2 DEF RegistryFollows, Live
<1>8. ASSUME NEW c \in Conns, HubUnregister(c)
      PROVE  RegistryFollows'
  <2>1. /\ UNCHANGED userClients /\ reader' = [reader EXCEPT ![c] = "closing"]
        /\ hub.pc = "select" /\ hub'.pc = "unregister" /\ hub'.conn = c
    BY <1>8 DEF HubUnregister
  <2>2. \A d, e \in Conns : Evicts(d, e) => Evicts(d, e)'
    BY <1>a, <2>1 DEF Evicts, Over
  <2> QED
    BY <1>a, <2>1, <2>2 DEF RegistryFollows, Live
<1> QED
  BY <1>1, <1>2, <1>3, <1>4, <1>5, <1>6, <1>7, <1>8, HubOrReaders DEF HubStep

------------------------------------------------------------------------------
(* The rows that frames are about *)

\* What a channel holds after a frame is added or taken.
LEMMA FramesOfAppend ==
  ASSUME NEW s \in Seq(Frames), NEW f \in Frames
  PROVE  FramesIn(Append(s, f)) = FramesIn(s) \union {f}
<1>1. /\ Len(s) \in Nat
      /\ Len(Append(s, f)) = Len(s) + 1
      /\ \A i \in 1..Len(s) : Append(s, f)[i] = s[i]
      /\ Append(s, f)[Len(s) + 1] = f
  BY AppendProperties, LenProperties
<1> QED
  BY <1>1 DEF FramesIn

LEMMA FramesOfTail ==
  ASSUME NEW s \in Seq(Frames), s # <<>>
  PROVE  FramesIn(Tail(s)) \subseteq FramesIn(s)
<1>1. /\ Len(s) \in Nat /\ Tail(s) \in Seq(Frames)
      /\ Len(Tail(s)) = Len(s) - 1
      /\ \A i \in 1..Len(Tail(s)) : Tail(s)[i] = s[i + 1]
  BY HeadTailProperties, LenProperties
<1> QED
  BY <1>1 DEF FramesIn

LEMMA FramesOfEmpty == FramesIn(<<>>) = {}
BY EmptySeq DEF FramesIn

LEMMA RowFramesOfEnqueue ==
  ASSUME send \in [Conns -> Seq(Frames)], UNCHANGED wrote,
         NEW c \in Conns, NEW f \in Frames, Enqueue(c, f),
         NEW d \in Conns, NEW g \in RowFrames(d)'
  PROVE  g \in RowFrames(d) \/ (d = c /\ g = f /\ f.id # 0)
<1>1. CASE d = c
  <2>1. FramesIn(send'[c]) = FramesIn(send[c]) \union {f}
    BY FramesOfAppend DEF Enqueue
  <2> QED
    BY <1>1, <2>1 DEF RowFrames
<1>2. CASE d # c
  BY <1>2 DEF Enqueue, RowFrames
<1> QED
  BY <1>1, <1>2

\* A step that keeps the rows, and only adds frames and ids about rows that
\* concern the connection, keeps them so.
NewFramesConcern ==
  \A c \in Conns : \A f \in RowFrames(c)' : f \in RowFrames(c) \/ Concerns(c, f)'

NewOutIsStored ==
  \A c \in Conns :
    \/ OutIsStored(c)'
    \/ out'[c] = out[c] /\ (reader'[c] = "delivering" <=> reader[c] = "delivering")

NewBatchIsStored ==
  \A c \in Conns : \A i \in batch'[c] :
    i \in batch[c] \/ (i \in 1..Len(messages) /\ messages[i].to = Owner[c])

LEMMA StoreKept ==
  ASSUME messages \in Seq(Rows), Len(messages') \in Nat, RowsKept,
         PushedIsStored, PendingIsStored,
         NewFramesConcern, NewOutIsStored, NewBatchIsStored
  PROVE  PushedIsStored' /\ PendingIsStored'
<1>1. Len(messages) \in Nat
  BY LenProperties
<1>2. PushedIsStored'
  <2>1. ASSUME NEW c \in Conns, NEW f \in RowFrames(c)
        PROVE  Concerns(c, f)'
    <3>1. Concerns(c, f)
      BY DEF PushedIsStored
    <3> QED
      BY <1>1, <3>1 DEF Concerns, Answers, RowsKept
  <2> QED
    BY <2>1 DEF PushedIsStored, NewFramesConcern
<1>3. ASSUME NEW c \in Conns
      PROVE  OutIsStored(c)'
  <2>1. OutIsStored(c)
    BY DEF PendingIsStored
  <2> QED
    BY <1>1, <2>1 DEF OutIsStored, Answers, NewOutIsStored, RowsKept
<1>4. ASSUME NEW c \in Conns
      PROVE  BatchIsStored(c)'
  <2>1. BatchIsStored(c)
    BY DEF PendingIsStored
  <2> QED
    BY <1>1, <2>1 DEF BatchIsStored, NewBatchIsStored, RowsKept
<1> QED
  BY <1>2, <1>3, <1>4 DEF PendingIsStored

\* The three premises, for a step that leaves their variables alone.
LEMMA SameFrames ==
  ASSUME UNCHANGED <<send, wrote>>
  PROVE  NewFramesConcern
BY DEF NewFramesConcern, RowFrames

LEMMA SameOut ==
  ASSUME UNCHANGED out,
         \A c \in Conns : reader'[c] = "delivering" <=> reader[c] = "delivering"
  PROVE  NewOutIsStored
BY DEF NewOutIsStored

LEMMA SameBatch ==
  ASSUME UNCHANGED batch
  PROVE  NewBatchIsStored
BY DEF NewBatchIsStored

\* Every action keeps the frames about rows that concern their connection.
LEMMA StoreStep ==
  ASSUME TypeOK, Registry, PushedIsStored, PendingIsStored, [Next]_vars
  PROVE  PushedIsStored' /\ PendingIsStored'
<1> USE DEF vars, process, registry, channels, pumps, backlog, stores
<1>a. /\ messages \in Seq(Rows)
      /\ send \in [Conns -> Seq(Frames)]
      /\ out \in [Conns -> Frames]
      /\ reader \in [Conns -> {"idle", "registering", "reading", "delivering",
                               "replying", "leaving", "closing", "gone"}]
      /\ userClients \in [Users -> Conns \union {None}]
      /\ batch \in [Conns -> SUBSET Nat]
      /\ wrote \in [Conns -> SUBSET Frames]
      /\ Len(messages) \in Nat
      /\ \A i \in 1..Len(messages) : messages[i] \in Rows
  BY LenProperties, ElementOfSeq DEF TypeOK
<1>b. messages' \in Seq(Rows) /\ Len(messages') \in Nat
  BY TypeStep, LenProperties DEF TypeOK
<1>c. ASSUME RowsKept, NewFramesConcern, NewOutIsStored, NewBatchIsStored
      PROVE  PushedIsStored' /\ PendingIsStored'
  BY <1>a, <1>b, <1>c, StoreKept
<1>d. UNCHANGED messages => RowsKept
  BY <1>a, SameRowsKept
<1>1. CASE UNCHANGED <<messages, send, wrote, out, reader, batch>>
  BY <1>1, <1>c, <1>d, SameFrames, SameOut, SameBatch
<1>2. ASSUME NEW why, Halt(why)
      PROVE  PushedIsStored' /\ PendingIsStored'
  <2>1. RowsKept
    BY <1>2, <1>d DEF Halt
  <2>2. NewFramesConcern
    BY <1>2, FramesOfEmpty DEF Halt, NewFramesConcern, RowFrames
  <2>3. NewOutIsStored
    BY <1>2 DEF Halt, NewOutIsStored, OutIsStored, Answers, NoFrame, Frame
  <2>4. NewBatchIsStored
    BY <1>2 DEF Halt, NewBatchIsStored
  <2> QED
    BY <1>c, <2>1, <2>2, <2>3, <2>4
<1>3. ASSUME NEW u \in Users, NEW o \in Users, RestMarkConversation(u, o)
      PROVE  PushedIsStored' /\ PendingIsStored'
  <2>1. RowsKept
    BY <1>a, <1>3, MarkKeepsRows DEF RestMarkConversation
  <2> QED
    BY <1>3, <1>c, <2>1, SameFrames, SameOut, SameBatch DEF RestMarkConversation
<1>4. ASSUME NEW c \in Conns, NEW r \in {"registering", "reading", "leaving", "closing", "gone"},
             reader[c] # "delivering", reader' = [reader EXCEPT ![c] = r],
             UNCHANGED <<messages, send, wrote, out, batch>>
      PROVE  PushedIsStored' /\ PendingIsStored'
  <2>1. NewOutIsStored
    BY <1>a, <1>4, SameOut
  <2> QED
    BY <1>4, <1>c, <1>d, <2>1, SameFrames, SameBatch
<1>5. ASSUME NEW c \in Conns, Connect(c) \/ HubRegister(c) \/ HubUnregister(c)
      PROVE  PushedIsStored' /\ PendingIsStored'
  BY <1>4, <1>5 DEF Connect, HubRegister, HubUnregister
<1>6. ASSUME NEW c \in Conns, ReadPump(c)
      PROVE  PushedIsStored' /\ PendingIsStored'
  <2>1. ASSUME NEW u \in Users, ReadChat(c, u) \/ ReadChatUnknown(c, u)
        PROVE  PushedIsStored' /\ PendingIsStored'
    <3>1. /\ RowsKept /\ Len(messages') = Len(messages) + 1
          /\ messages'[Len(messages) + 1].via = c
      BY <1>a, <2>1, ChatKeepsRows DEF ReadChat, ReadChatUnknown, CreateMessage
    <3>2. OutIsStored(c)'
      BY <1>a, <2>1, <3>1 DEF ReadChat, ReadChatUnknown, CreateMessage, OutIsStored, Answers, Frame
    <3>3. NewOutIsStored
      BY <1>a, <2>1, <3>2 DEF ReadChat, ReadChatUnknown, CreateMessage, NewOutIsStored
    <3> QED
      BY <1>c, <2>1, <3>1, <3>3, SameFrames, SameBatch DEF ReadChat, ReadChatUnknown, CreateMessage
  <2>2. ASSUME NEW u \in Users, NEW f \in Frames, SendToUser(u, f), UNCHANGED wrote,
               f.id = 0 \/ \A d \in Conns : Owner[d] = u => Concerns(d, f)'
        PROVE  NewFramesConcern
    <3>1. CASE UNCHANGED send
      BY <2>2, <3>1, SameFrames
    <3>2. CASE userClients[u] # None /\ Enqueue(userClients[u], f)
      <4>1. userClients[u] \in Conns /\ Owner[userClients[u]] = u
        BY <1>a, <3>2 DEF Registry, RegisteredOpen
      <4> QED
        BY <1>a, <2>2, <3>2, <4>1, RowFramesOfEnqueue DEF NewFramesConcern
    <3> QED
      BY <2>2, <3>1, <3>2 DEF SendToUser
  <2>3. ASSUME NEW u \in Users, ReadTyping(c, u)
        PROVE  PushedIsStored' /\ PendingIsStored'
    <3>1. Frame("typing", 0) \in Frames /\ Frame("typing", 0).id = 0
      BY FrameIsFrame DEF FrameType, Frame
    <3>2. NewFramesConcern
      BY <2>2, <2>3, <3>1 DEF ReadTyping
    <3> QED
      BY <1>c, <1>d, <2>3, <3>2, SameOut, SameBatch DEF ReadTyping
  <2>4. ASSUME NEW i \in 1..Len(messages), ReadReceipt(c, i)
        PROVE  PushedIsStored' /\ PendingIsStored'
    <3>1. RowsKept
      BY <1>a, <2>4, ReceiptKeepsRows DEF ReadReceipt
    <3> QED
      BY <1>c, <2>4, <3>1, SameFrames, SameOut, SameBatch DEF ReadReceipt
  <2>5. CASE ReadAnswered(c)
    <3>1. PICK t \in {"pong", "error"} : out' = [out EXCEPT ![c] = Frame(t, 0)]
      BY <2>5 DEF ReadAnswered
    <3>2. OutIsStored(c)'
      BY <1>a, <2>5, <3>1 DEF ReadAnswered, OutIsStored, Answers, Frame
    <3>3. NewOutIsStored
      BY <1>a, <2>5, <3>1, <3>2 DEF ReadAnswered, NewOutIsStored
    <3> QED
      BY <1>c, <1>d, <2>5, <3>3, SameFrames, SameBatch DEF ReadAnswered
  <2>6. CASE Deliver(c)
    <3>1. /\ out[c].type = "chat" /\ out[c].id \in 1..Len(messages)
          /\ messages[out[c].id].via = c
      BY <2>6 DEF Deliver, PendingIsStored, OutIsStored, Answers
    <3>2. out[c] \in Frames /\ messages[out[c].id].to \in Users
      BY <1>a, <3>1 DEF Rows
    <3>f. PICK f \in Frames : f = out[c]
      BY <3>2
    <3>3. ASSUME NEW d \in Conns, Owner[d] = messages[out[c].id].to
          PROVE  Concerns(d, f)'
      BY <2>6, <3>1, <3>3, <3>f DEF Deliver, Concerns, Answers
    <3>u. PICK u \in Users : u = messages[out[c].id].to
      BY <3>2
    <3>4. NewFramesConcern
      BY <2>2, <2>6, <3>f, <3>u, <3>3 DEF Deliver
    <3>5. OutIsStored(c)'
      BY <1>a, <2>6, <3>1 DEF Deliver, OutIsStored, Answers, Frame
    <3>6. NewOutIsStored
      BY <1>a, <2>6, <3>5 DEF Deliver, NewOutIsStored
    <3> QED
      BY <1>c, <1>d, <2>6, <3>4, <3>6, SameBatch DEF Deliver
  <2>7. CASE Reply(c)
    <3>1. /\ OutIsStored(c) /\ out[c].type # "chat"
      BY <2>7 DEF Reply, PendingIsStored, OutIsStored, Answers
    <3>f. PICK f \in Frames : f = out[c]
      BY <1>a
    <3>2. f.id # 0 => Concerns(c, f)'
      BY <2>7, <3>1, <3>f DEF Reply, OutIsStored, Concerns, Answers
    <3>3. NewFramesConcern
      BY <1>a, <2>7, <3>f, <3>2, RowFramesOfEnqueue DEF Reply, NewFramesConcern
    <3>4. OutIsStored(c)'
      BY <1>a, <2>7 DEF Reply, OutIsStored, Answers, NoFrame, Frame
    <3>5. NewOutIsStored
      BY <1>a, <2>7, <3>4 DEF Reply, NewOutIsStored
    <3> QED
      BY <1>c, <1>d, <2>7, <3>3, <3>5, SameBatch DEF Reply
  <2>8. CASE ReadError(c) \/ CloseConn(c)
    BY <1>4, <2>8 DEF ReadError, CloseConn
  <2> QED
    BY <1>6, <2>1, <2>3, <2>4, <2>5, <2>6, <2>7, <2>8 DEF ReadPump
<1>7. ASSUME NEW c \in Conns, WritePump(c)
      PROVE  PushedIsStored' /\ PendingIsStored'
  <2>1. ASSUME \A d \in Conns : RowFrames(d)' \subseteq RowFrames(d),
               UNCHANGED <<messages, out, reader, batch>>
        PROVE  PushedIsStored' /\ PendingIsStored'
    <3>1. NewFramesConcern
      BY <2>1 DEF NewFramesConcern
    <3> QED
      BY <1>c, <1>d, <2>1, <3>1, SameOut, SameBatch
  <2>2. CASE WriterFlush(c)
    <3>1. \A d \in Conns : RowFrames(d)' \subseteq RowFrames(d)
      BY <1>a, <2>2, FramesOfEmpty DEF WriterFlush, TakeAll, RowFrames
    <3> QED
      BY <2>1, <2>2, <3>1 DEF WriterFlush
  <2>3. CASE WriterFail(c)
    <3>1. PICK s \in {Tail(send[c]), <<>>} : send' = [send EXCEPT ![c] = s]
      BY <2>3 DEF WriterFail
    <3>2. FramesIn(s) \subseteq FramesIn(send[c])
      BY <1>a, <2>3, FramesOfTail, FramesOfEmpty DEF WriterFail
    <3>3. \A d \in Conns : RowFrames(d)' \subseteq RowFrames(d)
      BY <1>a, <2>3, <3>1, <3>2 DEF WriterFail, RowFrames
    <3> QED
      BY <2>1, <2>3, <3>3 DEF WriterFail, WriterExit
  <2>4. CASE WriterPingFail(c) \/ WriterClosed(c)
    BY <1>1, <2>4 DEF WriterPingFail, WriterClosed
  <2> QED
    BY <1>7, <2>2, <2>3, <2>4 DEF WritePump
<1>8. ASSUME NEW c \in Conns, SendOfflineMessages(c)
      PROVE  PushedIsStored' /\ PendingIsStored'
  <2>1. CASE OfflineQuery(c)
    <3>1. NewBatchIsStored
      BY <1>a, <2>1 DEF OfflineQuery, NewBatchIsStored, Unread
    <3> QED
      BY <1>c, <1>d, <2>1, <3>1, SameFrames, SameOut DEF OfflineQuery
  <2>2. CASE OfflineQueryEmpty(c) \/ OfflinePushClosed(c)
    BY <1>2, <2>2 DEF OfflineQueryEmpty, OfflinePushClosed
  <2>3. CASE OfflineQueryError(c)
    BY <1>1, <2>3 DEF OfflineQueryError
  <2>4. CASE OfflineMark(c)
    <3>1. RowsKept
      BY <1>a, <1>d, <2>4, MarkKeepsRows DEF OfflineMark
    <3> QED
      BY <1>c, <2>4, <3>1, SameFrames, SameOut, SameBatch DEF OfflineMark
  <2>5. CASE OfflineSkip(c)
    <3>1. NewBatchIsStored
      BY <1>a, <2>5 DEF OfflineSkip, OfflineNext, NewBatchIsStored
    <3> QED
      BY <1>c, <1>d, <2>5, <3>1, SameFrames, SameOut DEF OfflineSkip
  <2>6. CASE OfflinePush(c)
    <3>1. ASSUME NEW i \in batch[c]
          PROVE  /\ Frame("offline_message", i) \in Frames
                 /\ Concerns(c, Frame("offline_message", i))'
      <4>1. i \in 1..Len(messages) /\ messages[i].to = Owner[c]
        BY <3>1 DEF PendingIsStored, BatchIsStored
      <4>2. Frame("offline_message", i) \in Frames
        BY <1>a, <4>1, FrameIsFrame DEF FrameType
      <4> QED
        BY <2>6, <4>1, <4>2 DEF OfflinePush, Concerns, Answers, Frame
    <3>2. NewFramesConcern
      <4>1. CASE UNCHANGED send
        BY <2>6, <4>1, SameFrames DEF OfflinePush
      <4>2. ASSUME NEW i \in batch[c], Enqueue(c, Frame("offline_message", i))
            PROVE  NewFramesConcern
        BY <1>a, <2>6, <3>1, <4>2, RowFramesOfEnqueue DEF OfflinePush, NewFramesConcern
      <4> QED
        BY <2>6, <4>1, <4>2 DEF OfflinePush
    <3>3. NewBatchIsStored
      <4>1. PICK rest \in SUBSET batch[c] : OfflineNext(c, rest)
        BY <2>6 DEF OfflinePush
      <4> QED
        BY <1>a, <4>1 DEF OfflineNext, NewBatchIsStored
    <3> QED
      BY <1>c, <1>d, <2>6, <3>2, <3>3, SameOut DEF OfflinePush
  <2> QED
    BY <1>8, <2>1, <2>2, <2>3, <2>4, <2>5, <2>6 DEF SendOfflineMessages
<1>9. CASE HubStep \/ HubStop \/ Restart
  BY <1>1, <1>9 DEF HubStep, HubStop, HubAdd, HubSetOnline, HubRemove, HubRemoveAbsent,
                    HubSetOffline, HubSelect, Restart
<1>10. ASSUME NEW c \in Conns, ConnDrop(c)
       PROVE  PushedIsStored' /\ PendingIsStored'
  BY <1>1, <1>10 DEF ConnDrop
<1>11. CASE UNCHANGED vars
  BY <1>1, <1>11
<1> QED
  BY <1>2, <1>3, <1>5, <1>6, <1>7, <1>8, <1>9, <1>10, <1>11 DEF Next, Crash

------------------------------------------------------------------------------
(* The answers *)

\* Every action leaves a waiting ReadPump without an answer to send.
LEMMA OwedStep ==
  ASSUME TypeOK, NoAnswerOwed, [Next]_vars
  PROVE  NoAnswerOwed'
<1> USE DEF vars, process, registry, channels, pumps, backlog, stores, NoAnswerOwed
<1>a. /\ messages \in Seq(Rows) /\ Len(messages) \in Nat
      /\ out \in [Conns -> Frames]
      /\ reader \in [Conns -> {"idle", "registering", "reading", "delivering",
                               "replying", "leaving", "closing", "gone"}]
  BY LenProperties DEF TypeOK
<1>1. CASE UNCHANGED <<messages, out, reader>>
  BY <1>1
<1>2. ASSUME NEW why, Halt(why)
      PROVE  NoAnswerOwed'
  BY <1>2 DEF Halt, NoFrame, Frame
<1>3. ASSUME RowsKept, Len(messages') = Len(messages), UNCHANGED <<out, reader>>
      PROVE  NoAnswerOwed'
  BY <1>3 DEF RowsKept
<1>4. ASSUME NEW c \in Conns, Connect(c) \/ HubRegister(c) \/ HubUnregister(c) \/ ConnDrop(c)
      PROVE  NoAnswerOwed'
  BY <1>a, <1>4 DEF Connect, HubRegister, HubUnregister, ConnDrop
<1>5. ASSUME NEW c \in Conns, ReadPump(c)
      PROVE  NoAnswerOwed'
  <2>1. ASSUME NEW u \in Users, ReadChat(c, u) \/ ReadChatUnknown(c, u)
        PROVE  NoAnswerOwed'
    <3>1. /\ Len(messages') = Len(messages) + 1
          /\ messages'[Len(messages) + 1].via = c
          /\ RowsKept
      BY <1>a, <2>1, ChatKeepsRows DEF ReadChat, ReadChatUnknown, CreateMessage
    <3>2. /\ reader'[c] \in {"delivering", "replying"}
          /\ \A d \in Conns \ {c} : reader'[d] = reader[d] /\ out'[d] = out[d]
      BY <1>a, <2>1 DEF ReadChat, ReadChatUnknown, CreateMessage
    <3> QED
      BY <1>a, <3>1, <3>2 DEF RowsKept
  <2>2. ASSUME NEW u \in Users, ReadTyping(c, u)
        PROVE  NoAnswerOwed'
    BY <1>1, <2>2 DEF ReadTyping
  <2>3. ASSUME NEW i \in 1..Len(messages), ReadReceipt(c, i)
        PROVE  NoAnswerOwed'
    <3>1. RowsKept /\ Len(messages') = Len(messages)
      BY <1>a, <2>3, ReceiptKeepsRows DEF ReadReceipt
    <3> QED
      BY <1>3, <2>3, <3>1 DEF ReadReceipt
  <2>4. CASE ReadAnswered(c) \/ Deliver(c) \/ ReadError(c) \/ CloseConn(c)
    BY <1>a, <2>4 DEF ReadAnswered, Deliver, ReadError, CloseConn
  <2>5. CASE Reply(c)
    BY <1>a, <2>5 DEF Reply, NoFrame, Frame
  <2> QED
    BY <1>5, <2>1, <2>2, <2>3, <2>4, <2>5 DEF ReadPump
<1>6. ASSUME NEW u, NEW o, MarkConversationAsRead(u, o), UNCHANGED <<out, reader>>
      PROVE  NoAnswerOwed'
  <2>1. RowsKept /\ Len(messages') = Len(messages)
    BY <1>a, <1>6, MarkKeepsRows
  <2> QED
    BY <1>3, <1>6, <2>1
<1>7. ASSUME NEW c \in Conns, SendOfflineMessages(c)
      PROVE  NoAnswerOwed'
  <2>1. CASE OfflineMark(c)
    BY <1>1, <1>6, <2>1 DEF OfflineMark
  <2>2. CASE OfflineQueryEmpty(c) \/ OfflinePushClosed(c)
    BY <1>2, <2>2 DEF OfflineQueryEmpty, OfflinePushClosed
  <2>3. CASE OfflineQuery(c) \/ OfflineQueryError(c) \/ OfflineSkip(c) \/ OfflinePush(c)
    BY <1>1, <2>3 DEF OfflineQuery, OfflineQueryError, OfflineSkip, OfflinePush
  <2> QED
    BY <1>7, <2>1, <2>2, <2>3 DEF SendOfflineMessages
<1>8. ASSUME NEW u \in Users, NEW o \in Users, RestMarkConversation(u, o)
      PROVE  NoAnswerOwed'
  BY <1>6, <1>8 DEF RestMarkConversation
<1>9. CASE HubStep \/ HubStop \/ Restart \/ UNCHANGED vars
  BY <1>1, <1>9 DEF HubStep, HubStop, HubAdd, HubSetOnline, HubRemove, HubRemoveAbsent,
                    HubSetOffline, HubSelect, Restart
<1>10. ASSUME NEW c \in Conns, WritePump(c)
       PROVE  NoAnswerOwed'
  BY <1>1, <1>10 DEF WritePump, WriterFlush, WriterFail, WriterPingFail, WriterClosed
<1> QED
  BY <1>2, <1>4, <1>5, <1>7, <1>8, <1>9, <1>10 DEF Next, Crash

------------------------------------------------------------------------------
(* The Redis keys *)

\* Every action keeps the keys at most one call behind the registry.
LEMMA PresenceStep ==
  ASSUME TypeOK, PresenceFollows, [Next]_vars
  PROVE  PresenceFollows'
<1> USE DEF vars, process, registry, channels, pumps, backlog, stores, PresenceFollows,
            HasClient
<1>a. /\ hub.pc \in {"select", "stopped"} <=> hub.conn = None
      /\ hub.conn \in Conns \union {None}
      /\ clients \in [Users -> Conns \union {None}]
      /\ online \subseteq Users
  BY DEF TypeOK
<1>1. CASE UNCHANGED <<hub, clients, online, stale>>
  BY <1>1
<1>2. CASE HubAdd
  <2>1. hub.conn \in Conns /\ Owner[hub.conn] \in Users
    BY <1>a, <1>2 DEF HubAdd
  <2> QED
    BY <1>a, <1>2, <2>1 DEF HubAdd, Record
<1>3. CASE HubSetOnline
  <2>1. /\ hub'.pc = "select" /\ clients' = clients
        /\ hub.pc = "online" /\ HasClient(Owner[hub.conn])
    BY <1>3 DEF HubSetOnline, HubSelect
  <2>2. CASE online' = online \union {Owner[hub.conn]} /\ stale' = stale \ {Owner[hub.conn]}
    BY <2>1, <2>2
  <2>3. CASE /\ online' \in {online, online \union {Owner[hub.conn]}}
             /\ stale' = stale \union {Owner[hub.conn]}
    BY <2>1, <2>3
  <2> QED
    BY <1>3, <2>2, <2>3 DEF HubSetOnline, RedisCall
<1>4. CASE HubRemove
  <2>1. hub.conn \in Conns /\ Owner[hub.conn] \in Users
    BY <1>a, <1>4 DEF HubRemove
  <2> QED
    BY <1>a, <1>4, <2>1 DEF HubRemove, Forget
<1>5. CASE HubSetOffline
  <2>1. /\ hub'.pc = "select" /\ clients' = clients
        /\ hub.pc = "offline" /\ ~HasClient(Owner[hub.conn])
    BY <1>5 DEF HubSetOffline, HubSelect
  <2>2. CASE online' = online \ {Owner[hub.conn]} /\ stale' = stale \ {Owner[hub.conn]}
    BY <2>1, <2>2
  <2>3. CASE /\ online' \in {online, online \ {Owner[hub.conn]}}
             /\ stale' = stale \union {Owner[hub.conn]}
    BY <2>1, <2>3
  <2> QED
    BY <1>5, <2>2, <2>3 DEF HubSetOffline, RedisCall
<1>6. CASE HubRemoveAbsent \/ HubStop
  BY <1>6 DEF HubRemoveAbsent, HubSelect, HubStop
<1>7. ASSUME NEW c \in Conns, HubRegister(c) \/ HubUnregister(c)
      PROVE  PresenceFollows'
  BY <1>7 DEF HubRegister, HubUnregister
<1>8. ASSUME NEW why, Halt(why)
      PROVE  PresenceFollows'
  BY <1>8 DEF Halt, NoClients
<1>9. ASSUME NEW c \in Conns, SendOfflineMessages(c)
      PROVE  PresenceFollows'
  BY <1>1, <1>8, <1>9 DEF SendOfflineMessages, OfflineQuery, OfflineQueryEmpty,
       OfflineQueryError, OfflineMark, OfflineSkip, OfflinePush, OfflinePushClosed
<1>10. ASSUME NEW c \in Conns, ReadPump(c) \/ WritePump(c)
       PROVE  PresenceFollows'
  BY <1>1, <1>10 DEF ReadPump, ReadChat, ReadChatUnknown, CreateMessage, ReadTyping, ReadReceipt, ReadAnswered, Deliver,
       Reply, ReadError, CloseConn, WritePump, WriterFlush, WriterFail, WriterPingFail,
       WriterClosed
<1>11. ASSUME NEW c \in Conns, Connect(c) \/ ConnDrop(c)
       PROVE  PresenceFollows'
  BY <1>1, <1>11 DEF Connect, ConnDrop
<1>12. ASSUME NEW u \in Users, NEW o \in Users, RestMarkConversation(u, o)
       PROVE  PresenceFollows'
  BY <1>1, <1>12 DEF RestMarkConversation
<1>13. CASE Restart \/ UNCHANGED vars
  BY <1>1, <1>13 DEF Restart
<1> QED
  BY <1>2, <1>3, <1>4, <1>5, <1>6, <1>7, <1>8, <1>9, <1>10, <1>11, <1>12, <1>13
     DEF Next, HubStep, Crash

------------------------------------------------------------------------------
(* The theorems *)

\* The invariant holds of the empty hub and every step keeps it.
LEMMA Inductive ==
  /\ Init => IndInv
  /\ IndInv /\ [Next]_vars => IndInv'
<1>1. Init => TypeOK
  <2>1. NoFrame \in Frames
    BY FrameIsFrame DEF NoFrame, FrameType
  <2> QED
    BY <2>1, EmptySeq DEF Init, TypeOK, NoClients
<1>2. Init => HubServes /\ MapsAgree /\ RegisteredOpen /\ OpenUntilRemoved
  BY DEF Init, NoClients, HubServes, MapsAgree, RegisteredOpen, OpenUntilRemoved
<1>3. Init => PushedIsStored /\ PendingIsStored
  BY FramesOfEmpty DEF Init, PushedIsStored, RowFrames, PendingIsStored, OutIsStored, Answers,
                       BatchIsStored, NoFrame, Frame
<1>4. Init => PresenceFollows
  BY DEF Init, NoClients, PresenceFollows
<1>5. Init => RegistryFollows
  BY DEF Init, NoClients, RegistryFollows, Live
<1>6. Init => NoAnswerOwed
  <2>1. Len(<<>>) = 0
    BY EmptySeq
  <2> QED
    BY <2>1 DEF Init, NoAnswerOwed, NoFrame, Frame
<1>7. IndInv /\ [Next]_vars => IndInv'
  BY TypeStep, RegistryStep, FollowsStep, StoreStep, OwedStep, PresenceStep
     DEF IndInv, Registry
<1> QED
  BY <1>1, <1>2, <1>3, <1>4, <1>5, <1>6, <1>7 DEF IndInv

\* The state of the hub is always of its type, in order and about stored rows.
THEOREM HubInvariant == Spec => []IndInv
BY Inductive, PTL DEF Spec

\* Every variable holds a value of its type.
THEOREM TypeCorrect == Spec => []TypeOK
<1>1. IndInv => TypeOK
  BY DEF IndInv
<1> QED
  BY <1>1, HubInvariant, PTL

\* hub.go:127-140: SendToUser never sends on a closed channel: a client it finds
\* has an open one, whatever connections came and went.
THEOREM NeverSendsOnClosed == Spec => []RegisteredOpen
<1>1. IndInv => RegisteredOpen
  BY DEF IndInv
<1> QED
  BY <1>1, HubInvariant, PTL

\* hub.go:70-72 and 85-87: the two maps of the hub never disagree.
THEOREM OneRegistry == Spec => []MapsAgree
<1>1. IndInv => MapsAgree
  BY DEF IndInv
<1> QED
  BY <1>1, HubInvariant, PTL

\* hub.go:84-98: no entry of the maps outlives its connection.
THEOREM NoStaleEntry == Spec => []RegisteredLives
<1>1. IndInv => RegisteredLives
  BY DEF IndInv, RegistryFollows, RegisteredLives
<1> QED
  BY <1>1, HubInvariant, PTL

\* hub.go:70-72 and 85-87: only another connection of the same user that left
\* makes a served connection unreachable.
THEOREM OnlyEvictionHides == Spec => []UnreachableIsEvicted
<1>1. IndInv => UnreachableIsEvicted
  BY DEF IndInv, RegistryFollows, UnreachableIsEvicted
<1> QED
  BY <1>1, HubInvariant, PTL

\* Of a user who dials only once the connection can be found as long as it is
\* read: the eviction that hides it takes a reconnect.
THEOREM OnceIsReachable ==
  ASSUME \A c, d \in Conns : Owner[c] = Owner[d] => c = d
  PROVE  Spec => []OpenIsReachable
<1>1. IndInv => OpenIsReachable
  BY DEF IndInv, RegistryFollows, Evicts, OpenIsReachable, Live
<1> QED
  BY <1>1, HubInvariant, PTL

\* hub.go:75-79 and 90-94: between two cases of Run the keys name the registered
\* users, whatever calls to Redis failed before.
THEOREM PresenceIsMirrored == Spec => []PresenceMirrored
<1>1. IndInv => PresenceMirrored
  BY DEF IndInv, PresenceFollows, PresenceMirrored
<1> QED
  BY <1>1, HubInvariant, PTL

\* hub.go:88 and 285-343: no channel is closed twice, and ReadPump never answers
\* on a closed one.
THEOREM ClosedOnce == Spec => []OpenUntilRemoved
<1>1. IndInv => OpenUntilRemoved
  BY DEF IndInv
<1> QED
  BY <1>1, HubInvariant, PTL

\* hub.go:160-203: what is queued or written about a message is about a stored
\* one, for those it concerns, across crashes.
THEOREM PushesAreStored == Spec => []PushedIsStored
<1>1. IndInv => PushedIsStored
  BY DEF IndInv
<1> QED
  BY <1>1, HubInvariant, PTL
=============================================================================
