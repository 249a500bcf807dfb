--------------------------- MODULE HubMailboxProofs ---------------------------
(***************************************************************************)
(* The hub implements Mailbox, for any users, connections, channel         *)
(* capacity, bound on the rows, inputs and faults: what its goroutines,    *)
(* channels, registry and crashes do to the rows and to the frames about   *)
(* them is to post, hand, lose or read.                                    *)
(***************************************************************************)
EXTENDS HubProofs

USE HubAssumption

\* A step that leaves the rows and the frames about them alone is a stutter.
LEMMA Stutters ==
  ASSUME UNCHANGED <<messages, send, wrote>>
  PROVE  UNCHANGED M!mailbox
<1>1. \A c \in Conns : RowFrames(c)' = RowFrames(c)
  BY DEF RowFrames
<1> QED
  BY <1>1 DEF M!mailbox

\* A step that takes frames from channels loses them, or nothing.
LEMMA Loses ==
  ASSUME UNCHANGED messages, \A c \in Conns : RowFrames(c)' \subseteq RowFrames(c)
  PROVE  M!Next
<1>1. \A c \in Conns : RowFrames(c)' = RowFrames(c) \intersect RowFrames(c)'
  OBVIOUS
<1> QED
  BY <1>1 DEF M!Next, M!Lose

\* A frame about a row put on a channel it concerns is handed, once; any other
\* frame is not seen by Mailbox.
LEMMA Hands ==
  ASSUME TypeOK, UNCHANGED <<messages, wrote>>,
         NEW c \in Conns, NEW f \in Frames, Enqueue(c, f),
         f.id # 0 => Concerns(c, f)
  PROVE  [M!Next]_(M!mailbox)
<1>1. send \in [Conns -> Seq(Frames)] /\ messages \in Seq(Rows)
  BY DEF TypeOK
<1>2. FramesIn(send'[c]) = FramesIn(send[c]) \union {f}
  BY <1>1, FramesOfAppend DEF Enqueue
<1>3. \A d \in Conns : d # c => RowFrames(d)' = RowFrames(d)
  BY <1>1 DEF Enqueue, RowFrames
<1>4. CASE f.id = 0 \/ f \in RowFrames(c)
  <2>1. RowFrames(c)' = RowFrames(c)
    BY <1>2, <1>4 DEF RowFrames
  <2> QED
    BY <1>3, <2>1 DEF M!mailbox
<1>5. CASE f.id # 0 /\ f \notin RowFrames(c)
  <2>1. RowFrames(c)' = RowFrames(c) \union {f}
    BY <1>2, <1>5 DEF RowFrames
  <2>2. /\ f.id \in DOMAIN messages
        /\ f.type \in M!Pushes \union M!Answers
        /\ f = [type |-> f.type, id |-> f.id]
        /\ M!Concerns(c, f)
    BY <1>1, <1>5, LenProperties DEF Concerns, Answers, M!Concerns, M!Pushes, M!Answers, Frames
  <2>3. M!Hand(c, f)
    BY <1>3, <1>5, <2>1, <2>2 DEF M!Hand
  <2> QED
    BY <2>2, <2>3 DEF M!Next
<1> QED
  BY <1>4, <1>5

\* Marking a conversation, or one row, is a reading by the rows' receiver.
LEMMA Reads ==
  ASSUME TypeOK, UNCHANGED <<send, wrote>>, NEW u \in Users, NEW o \in Users,
         MarkConversationAsRead(u, o)
  PROVE  M!Next
<1>1. messages \in Seq(Rows) /\ Len(messages) \in Nat /\ DOMAIN messages = 1..Len(messages)
  BY LenProperties DEF TypeOK
<1>2. DOMAIN messages' = DOMAIN messages
  BY <1>1 DEF MarkConversationAsRead
<1>3. \A i \in DOMAIN messages :
        \/ messages'[i] = messages[i]
        \/ /\ messages[i].to = u /\ messages[i].from = o
           /\ messages'[i] = [messages[i] EXCEPT !.is_read = TRUE]
  BY <1>1 DEF MarkConversationAsRead, Seen
<1>4. \A c \in Conns : RowFrames(c)' = RowFrames(c)
  BY DEF RowFrames
<1>5. M!Read(u, o)
  BY <1>2, <1>3, <1>4 DEF M!Read
<1> QED
  BY <1>5 DEF M!Next

LEMMA Receipts ==
  ASSUME TypeOK, UNCHANGED <<send, wrote>>, NEW u \in Users,
         NEW i \in 1..Len(messages), MarkAsRead(u, i)
  PROVE  M!Next
<1>1. messages \in Seq(Rows) /\ Len(messages) \in Nat /\ DOMAIN messages = 1..Len(messages)
  BY LenProperties DEF TypeOK
<1>2. messages[i].from \in Users
  <2>1. messages[i] \in Rows
    BY <1>1, ElementOfSeq
  <2> QED
    BY <2>1 DEF Rows
<1>3. DOMAIN messages' = DOMAIN messages
  BY <1>1 DEF MarkAsRead
<1>4. \A j \in DOMAIN messages :
        \/ messages'[j] = messages[j]
        \/ /\ messages[j].to = u /\ messages[j].from = messages[i].from
           /\ messages'[j] = [messages[j] EXCEPT !.is_read = TRUE]
  <2>1. \A j \in DOMAIN messages : j # i => messages'[j] = messages[j]
    BY <1>1 DEF MarkAsRead
  <2>2. messages'[i] = IF messages[i].to = u THEN Seen(messages[i]) ELSE messages[i]
    BY <1>1 DEF MarkAsRead
  <2>3. Seen(messages[i]) = [messages[i] EXCEPT !.is_read = TRUE]
    BY DEF Seen
  <2> QED
    BY <2>1, <2>2, <2>3
<1>5. \A c \in Conns : RowFrames(c)' = RowFrames(c)
  BY DEF RowFrames
<1>6. M!Read(u, messages[i].from)
  BY <1>3, <1>4, <1>5 DEF M!Read
<1> QED
  BY <1>2, <1>6 DEF M!Next

------------------------------------------------------------------------------
(* The steps *)

LEMMA HubImplements ==
  ASSUME IndInv, [Next]_vars
  PROVE  [M!Next]_(M!mailbox)
<1> USE DEF vars, process, registry, channels, pumps, backlog, stores
<1>a. /\ TypeOK /\ RegisteredOpen /\ PushedIsStored /\ PendingIsStored
      /\ messages \in Seq(Rows) /\ Len(messages) \in Nat
      /\ \A i \in 1..Len(messages) : messages[i] \in Rows
      /\ send \in [Conns -> Seq(Frames)]
      /\ wrote \in [Conns -> SUBSET Frames]
      /\ out \in [Conns -> Frames]
      /\ userClients \in [Users -> Conns \union {None}]
      /\ batch \in [Conns -> SUBSET Nat]
  BY LenProperties, ElementOfSeq DEF IndInv, TypeOK
<1>1. CASE UNCHANGED <<messages, send, wrote>>
  BY <1>1, Stutters
<1>2. ASSUME NEW why, Halt(why)
      PROVE  [M!Next]_(M!mailbox)
  <2>1. \A c \in Conns : RowFrames(c)' \subseteq RowFrames(c)
    BY <1>2, FramesOfEmpty DEF Halt, RowFrames
  <2> QED
    BY <1>2, <2>1, Loses DEF Halt
<1>3. ASSUME NEW u \in Users, NEW f \in Frames, SendToUser(u, f),
             UNCHANGED <<messages, wrote>>,
             f.id # 0 => \A c \in Conns : Owner[c] = u => Concerns(c, f)
      PROVE  [M!Next]_(M!mailbox)
  <2>1. CASE UNCHANGED send
    BY <1>1, <1>3, <2>1
  <2>2. CASE userClients[u] # None /\ Enqueue(userClients[u], f)
    <3>1. PICK c \in Conns : c = userClients[u] /\ Owner[c] = u
      BY <1>a, <2>2 DEF RegisteredOpen
    <3> QED
      BY <1>a, <1>3, <2>2, <3>1, Hands
  <2> QED
    BY <1>3, <2>1, <2>2 DEF SendToUser
<1>4. ASSUME NEW c \in Conns, ReadPump(c)
      PROVE  [M!Next]_(M!mailbox)
  <2>1. ASSUME NEW u \in Users, ReadChat(c, u) \/ ReadChatUnknown(c, u)
        PROVE  [M!Next]_(M!mailbox)
    <3>1. \A d \in Conns : RowFrames(d)' = RowFrames(d)
      BY <2>1 DEF ReadChat, ReadChatUnknown, CreateMessage, RowFrames
    <3>2. M!Post(c, u)
      BY <2>1, <3>1 DEF ReadChat, ReadChatUnknown, CreateMessage, Row, M!Post
    <3> QED
      BY <3>2 DEF M!Next
  <2>2. ASSUME NEW u \in Users, ReadTyping(c, u)
        PROVE  [M!Next]_(M!mailbox)
    <3>1. Frame("typing", 0) \in Frames /\ Frame("typing", 0).id = 0
      BY FrameIsFrame DEF FrameType, Frame
    <3> QED
      BY <1>3, <2>2, <3>1 DEF ReadTyping
  <2>3. ASSUME NEW i \in 1..Len(messages), ReadReceipt(c, i)
        PROVE  [M!Next]_(M!mailbox)
    BY <1>a, <2>3, Receipts DEF ReadReceipt
  <2>4. CASE Deliver(c)
    <3>f. PICK f \in Frames : f = out[c]
      BY <1>a
    <3>1. f.type = "chat" /\ f.id \in 1..Len(messages)
      BY <1>a, <2>4, <3>f DEF Deliver, PendingIsStored, OutIsStored, Answers
    <3>2. PICK u \in Users : u = messages[f.id].to
      BY <1>a, <3>1 DEF Rows
    <3>3. \A d \in Conns : Owner[d] = u => Concerns(d, f)
      BY <3>1, <3>2 DEF Concerns, Answers
    <3> QED
      BY <1>3, <2>4, <3>f, <3>2, <3>3 DEF Deliver
  <2>5. CASE Reply(c)
    <3>f. PICK f \in Frames : f = out[c]
      BY <1>a
    <3>1. f.id # 0 => Concerns(c, f)
      BY <1>a, <2>5, <3>f DEF Reply, PendingIsStored, OutIsStored, Concerns, Answers
    <3> QED
      BY <1>a, <2>5, <3>f, <3>1, Hands DEF Reply
  <2>6. CASE ReadAnswered(c) \/ ReadError(c) \/ CloseConn(c)
    BY <1>1, <2>6 DEF ReadAnswered, ReadError, CloseConn
  <2> QED
    BY <1>4, <2>1, <2>2, <2>3, <2>4, <2>5, <2>6 DEF ReadPump
<1>5. ASSUME NEW c \in Conns, WritePump(c)
      PROVE  [M!Next]_(M!mailbox)
  <2>1. CASE WriterFlush(c)
    <3>1. /\ FramesIn(send'[c]) = {}
          /\ wrote'[c] = wrote[c] \union {f \in FramesIn(send[c]) : f.id # 0}
          /\ \A d \in Conns \ {c} : send'[d] = send[d] /\ wrote'[d] = wrote[d]
          /\ UNCHANGED messages
      BY <1>a, <2>1, FramesOfEmpty DEF WriterFlush, TakeAll
    <3>2. \A d \in Conns : RowFrames(d)' = RowFrames(d)
      BY <3>1 DEF RowFrames
    <3> QED
      BY <3>1, <3>2 DEF M!mailbox
  <2>2. CASE WriterFail(c)
    <3>1. PICK s \in {Tail(send[c]), <<>>} : send' = [send EXCEPT ![c] = s]
      BY <2>2 DEF WriterFail
    <3>2. FramesIn(s) \subseteq FramesIn(send[c])
      BY <1>a, <2>2, FramesOfTail, FramesOfEmpty DEF WriterFail
    <3>3. \A d \in Conns : RowFrames(d)' \subseteq RowFrames(d)
      BY <1>a, <2>2, <3>1, <3>2 DEF WriterFail, RowFrames
    <3> QED
      BY <2>2, <3>3, Loses DEF WriterFail
  <2>3. CASE WriterPingFail(c) \/ WriterClosed(c)
    BY <1>1, <2>3 DEF WriterPingFail, WriterClosed
  <2> QED
    BY <1>5, <2>1, <2>2, <2>3 DEF WritePump
<1>6. ASSUME NEW c \in Conns, SendOfflineMessages(c)
      PROVE  [M!Next]_(M!mailbox)
  <2>1. CASE OfflineQueryEmpty(c) \/ OfflinePushClosed(c)
    BY <1>2, <2>1 DEF OfflineQueryEmpty, OfflinePushClosed
  <2>2. CASE OfflineQuery(c) \/ OfflineQueryError(c) \/ OfflineSkip(c)
    BY <1>1, <2>2 DEF OfflineQuery, OfflineQueryError, OfflineSkip
  <2>3. CASE OfflineMark(c)
    <3>1. ASSUME NEW i \in batch[c], MarkConversationAsRead(Owner[c], messages[i].from)
          PROVE  [M!Next]_(M!mailbox)
      <4>1. messages[i].from \in Users
        BY <1>a DEF PendingIsStored, BatchIsStored, Rows
      <4> QED
        BY <1>a, <2>3, <3>1, <4>1, Reads DEF OfflineMark
    <3> QED
      BY <1>1, <2>3, <3>1 DEF OfflineMark
  <2>4. CASE OfflinePush(c)
    <3>1. CASE UNCHANGED send
      BY <1>1, <2>4, <3>1 DEF OfflinePush
    <3>2. ASSUME NEW i \in batch[c], Enqueue(c, Frame("offline_message", i))
          PROVE  [M!Next]_(M!mailbox)
      <4>f. PICK f \in Frames : f = Frame("offline_message", i)
        BY <1>a, FrameIsFrame DEF FrameType
      <4>1. Concerns(c, f)
        BY <1>a, <4>f DEF PendingIsStored, BatchIsStored, Concerns, Answers, Frame
      <4>2. Enqueue(c, f)
        BY <3>2, <4>f
      <4> QED
        BY <1>a, <2>4, <4>1, <4>2, Hands DEF OfflinePush
    <3> QED
      BY <2>4, <3>1, <3>2 DEF OfflinePush
  <2> QED
    BY <1>6, <2>1, <2>2, <2>3, <2>4 DEF SendOfflineMessages
<1>7. ASSUME NEW u \in Users, NEW o \in Users, RestMarkConversation(u, o)
      PROVE  [M!Next]_(M!mailbox)
  BY <1>a, <1>7, Reads DEF RestMarkConversation
<1>8. CASE HubStep \/ HubStop \/ Restart \/ UNCHANGED vars
  BY <1>1, <1>8 DEF HubStep, HubStop, HubAdd, HubSetOnline, HubRemove, HubRemoveAbsent,
                    HubSetOffline, HubSelect, Restart
<1>9. ASSUME NEW c \in Conns, Connect(c) \/ HubRegister(c) \/ HubUnregister(c) \/ ConnDrop(c)
      PROVE  [M!Next]_(M!mailbox)
  BY <1>1, <1>9 DEF Connect, HubRegister, HubUnregister, ConnDrop
<1> QED
  BY <1>2, <1>4, <1>5, <1>6, <1>7, <1>8, <1>9 DEF Next, Crash

\* hub.go:160-216 and handlers/websocket.go:82-132: whatever the goroutines, the
\* channels and the crashes do, to the rows and the frames about them the hub is
\* a mailbox.
THEOREM Implements == Spec => ImplementsMailbox
<1>1. Init => M!Init
  <2>1. ASSUME Init, NEW c \in Conns
        PROVE  RowFrames(c) = {}
    BY <2>1, FramesOfEmpty DEF Init, RowFrames
  <2> QED
    BY <2>1 DEF Init, M!Init
<1>2. IndInv /\ [Next]_vars => [M!Next]_(M!mailbox)
  BY HubImplements
<1> QED
  BY <1>1, <1>2, HubInvariant, PTL DEF Spec, ImplementsMailbox, M!Spec
=============================================================================
