--------------------------- MODULE HubDeliveryProofs ---------------------------
(***************************************************************************)
(* What the hub delivers, for any users, connections, channel capacity,    *)
(* bound on the rows, inputs and faults: no message twice, live messages   *)
(* in order, nothing on a closed channel, and the promise of Mailbox.      *)
(***************************************************************************)
EXTENDS HubProofs

USE HubAssumption

\* The frames of a channel, by their places.
LEMMA Places ==
  ASSUME NEW s \in Seq(Frames)
  PROVE  /\ Len(s) \in Nat
         /\ \A k \in 1..Len(s) : s[k] \in FramesIn(s) /\ s[k] \in Frames
         /\ \A f \in FramesIn(s) : \E k \in 1..Len(s) : s[k] = f
BY LenProperties, ElementOfSeq DEF FramesIn

LEMMA AppendPlaces ==
  ASSUME NEW s \in Seq(Frames), NEW f \in Frames
  PROVE  /\ Append(s, f) \in Seq(Frames)
         /\ Len(Append(s, f)) = Len(s) + 1
         /\ \A k \in 1..Len(s) : Append(s, f)[k] = s[k]
         /\ Append(s, f)[Len(s) + 1] = f
BY AppendProperties, LenProperties

LEMMA TailPlaces ==
  ASSUME NEW s \in Seq(Frames), s # <<>>
  PROVE  /\ Tail(s) \in Seq(Frames)
         /\ Len(Tail(s)) = Len(s) - 1
         /\ \A k \in 1..Len(Tail(s)) : Tail(s)[k] = s[k + 1] /\ k + 1 \in 1..Len(s)
BY HeadTailProperties, LenProperties

\* What SentOnce, LiveOrder and LiveIsAboutRows say of one connection.
Once(c) ==
  /\ \A j, k \in 1..Len(send[c]) :
       send[c][j] = send[c][k] /\ send[c][j].id # 0 => j = k
  /\ FramesIn(send[c]) \intersect wrote[c] = {}

Before(g, f) == g.id < f.id \/ messages[g.id].via # messages[f.id].via

Ordered(c) ==
  \A k \in 1..Len(send[c]) : send[c][k].type = "chat" =>
    /\ \A j \in 1..(k - 1) : send[c][j].type = "chat" => Before(send[c][j], send[c][k])
    /\ \A g \in wrote[c] : g.type = "chat" => Before(g, send[c][k])

AboutRows(c) == \A f \in FramesIn(send[c]) : f.type = "chat" => f.id # 0

InOrder(c) == Once(c) /\ Ordered(c) /\ AboutRows(c)

\* What SentOnce says of the answers.
OneAnswer ==
  \A c \in Conns : \A i \in 1..Len(messages) :
    ~({Frame(t, i) : t \in Answers} \subseteq RowFrames(c))

LEMMA DeliveryParts ==
  DeliveryInv <=> BacklogStartsOnce /\ OneAnswer /\ \A c \in Conns : InOrder(c) /\ StillToSend(c)
BY DEF DeliveryInv, SentOnce, LiveOrder, LiveIsAboutRows, InOrder, Once, Ordered,
       AboutRows, Before, OneAnswer

LEMMA DeliveryPartsNext ==
  DeliveryInv' <=> BacklogStartsOnce' /\ OneAnswer' /\ \A c \in Conns : InOrder(c)' /\ StillToSend(c)'
BY DEF DeliveryInv, SentOnce, LiveOrder, LiveIsAboutRows, InOrder, Once, Ordered,
       AboutRows, Before, OneAnswer

\* A channel nobody touched is in order as long as the rows stay.
LEMMA SameOrder ==
  ASSUME TypeOK, PushedIsStored, RowsKept,
         NEW c \in Conns, InOrder(c), send'[c] = send[c], wrote'[c] = wrote[c]
  PROVE  InOrder(c)'
<1>1. send[c] \in Seq(Frames) /\ wrote[c] \subseteq Frames
  BY DEF TypeOK
<1>2. ASSUME NEW f, f \in FramesIn(send[c]) \/ f \in wrote[c], f.type = "chat"
      PROVE  messages'[f.id].via = messages[f.id].via
  <2>1. f \in RowFrames(c)
    BY <1>2 DEF InOrder, AboutRows, RowFrames
  <2> QED
    BY <2>1 DEF PushedIsStored, Concerns, RowsKept
<1>3. Once(c)' /\ AboutRows(c)'
  BY DEF InOrder, Once, AboutRows
<1>4. ASSUME NEW k \in 1..Len(send[c]), send[c][k].type = "chat"
      PROVE  /\ \A j \in 1..(k - 1) :
                  send[c][j].type = "chat" => Before(send[c][j], send[c][k])'
             /\ \A g \in wrote[c] : g.type = "chat" => Before(g, send[c][k])'
  <2>1. send[c][k] \in FramesIn(send[c])
    BY <1>1, Places
  <2>2. ASSUME NEW j \in 1..(k - 1), send[c][j].type = "chat"
        PROVE  Before(send[c][j], send[c][k])'
    <3>1. j \in 1..Len(send[c]) /\ send[c][j] \in FramesIn(send[c])
      BY <1>1, Places
    <3>2. Before(send[c][j], send[c][k])
      BY <1>4, <2>2 DEF InOrder, Ordered
    <3> QED
      BY <1>2, <1>4, <2>1, <2>2, <3>1, <3>2 DEF Before
  <2>3. ASSUME NEW g \in wrote[c], g.type = "chat"
        PROVE  Before(g, send[c][k])'
    <3>1. Before(g, send[c][k])
      BY <1>4, <2>3 DEF InOrder, Ordered
    <3> QED
      BY <1>2, <1>4, <2>1, <2>3, <3>1 DEF Before
  <2> QED
    BY <2>2, <2>3
<1>5. Ordered(c)'
  BY <1>4 DEF Ordered
<1> QED
  BY <1>3, <1>5 DEF InOrder

\* A channel that is emptied is in order.
LEMMA EmptyOrder ==
  ASSUME NEW c \in Conns, send'[c] = <<>>
  PROVE  InOrder(c)'
<1>1. Len(send'[c]) = 0 /\ FramesIn(send'[c]) = {}
  BY EmptySeq, FramesOfEmpty
<1> QED
  BY <1>1 DEF InOrder, Once, Ordered, AboutRows

\* A channel that loses its first frame stays in order.
LEMMA TailOrder ==
  ASSUME TypeOK, NEW c \in Conns, InOrder(c), send[c] # <<>>,
         send'[c] = Tail(send[c]), UNCHANGED <<wrote, messages>>
  PROVE  InOrder(c)'
<1>1. send[c] \in Seq(Frames)
  BY DEF TypeOK
<1>2. /\ Len(send'[c]) = Len(send[c]) - 1 /\ Len(send[c]) \in Nat
      /\ \A k \in 1..Len(send'[c]) :
           send'[c][k] = send[c][k + 1] /\ k + 1 \in 1..Len(send[c])
  BY <1>1, TailPlaces, Places
<1>3. FramesIn(send'[c]) \subseteq FramesIn(send[c])
  BY <1>1, FramesOfTail
<1>4. Once(c)'
  BY <1>2, <1>3 DEF InOrder, Once
<1>5. Ordered(c)'
  <2>1. ASSUME NEW k \in 1..Len(send'[c]), send'[c][k].type = "chat"
        PROVE  /\ \A j \in 1..(k - 1) :
                    send'[c][j].type = "chat" => Before(send'[c][j], send'[c][k])
               /\ \A g \in wrote[c] : g.type = "chat" => Before(g, send'[c][k])
    <3>1. send[c][k + 1].type = "chat" /\ k + 1 \in 1..Len(send[c])
      BY <1>2, <2>1
    <3>2. /\ \A j \in 1..((k + 1) - 1) :
               send[c][j].type = "chat" => Before(send[c][j], send[c][k + 1])
          /\ \A g \in wrote[c] : g.type = "chat" => Before(g, send[c][k + 1])
      BY <3>1 DEF InOrder, Ordered
    <3>3. ASSUME NEW j \in 1..(k - 1), send'[c][j].type = "chat"
          PROVE  Before(send'[c][j], send'[c][k])
      <4>1. j + 1 \in 1..((k + 1) - 1) /\ send'[c][j] = send[c][j + 1]
        BY <1>2
      <4>2. Before(send[c][j + 1], send[c][k + 1])
        BY <3>2, <3>3, <4>1
      <4> QED
        BY <1>2, <4>1, <4>2
    <3> QED
      BY <1>2, <3>2, <3>3
  <2> QED
    BY <2>1 DEF Ordered, Before
<1>6. AboutRows(c)'
  BY <1>3 DEF InOrder, AboutRows
<1> QED
  BY <1>4, <1>5, <1>6 DEF InOrder

\* A frame that is new to a connection, and newer than what it was pushed from
\* the same sender, is added in order.
LEMMA EnqueueOrder ==
  ASSUME TypeOK, NEW c \in Conns, InOrder(c),
         NEW f \in Frames, send'[c] = Append(send[c], f), UNCHANGED <<wrote, messages>>,
         f.id # 0 => f \notin RowFrames(c),
         f.type = "chat" => f.id # 0 /\ \A g \in RowFrames(c) :
                                g.type = "chat" => Before(g, f),
         f.id = 0 => f \notin wrote[c]
  PROVE  InOrder(c)'
<1>1. send[c] \in Seq(Frames)
  BY DEF TypeOK
<1>2. /\ Len(send'[c]) = Len(send[c]) + 1 /\ Len(send[c]) \in Nat
      /\ \A k \in 1..Len(send[c]) : send'[c][k] = send[c][k]
      /\ send'[c][Len(send[c]) + 1] = f
  BY <1>1, AppendPlaces, Places
<1>3. FramesIn(send'[c]) = FramesIn(send[c]) \union {f}
  BY <1>1, FramesOfAppend
<1>4. \A k \in 1..Len(send[c]) : send[c][k] \in FramesIn(send[c])
  BY <1>1, Places
<1>5. Once(c)'
  <2>1. f \notin wrote[c]
    BY DEF RowFrames
  <2>2. FramesIn(send'[c]) \intersect wrote'[c] = {}
    BY <1>3, <2>1 DEF InOrder, Once
  <2>3. f.id # 0 => f \notin FramesIn(send[c])
    BY DEF RowFrames
  <2>4. ASSUME NEW j \in 1..Len(send'[c]), NEW k \in 1..Len(send'[c]),
               send'[c][j] = send'[c][k], send'[c][j].id # 0
        PROVE  j = k
    <3>1. CASE j \in 1..Len(send[c]) /\ k \in 1..Len(send[c])
      BY <1>2, <2>4, <3>1 DEF InOrder, Once
    <3>2. CASE j = Len(send[c]) + 1 /\ k \in 1..Len(send[c])
      BY <1>2, <1>4, <2>3, <2>4, <3>2
    <3>3. CASE k = Len(send[c]) + 1 /\ j \in 1..Len(send[c])
      BY <1>2, <1>4, <2>3, <2>4, <3>3
    <3> QED
      BY <1>2, <3>1, <3>2, <3>3
  <2> QED
    BY <2>2, <2>4 DEF Once
<1>6. Ordered(c)'
  <2>1. ASSUME NEW k \in 1..Len(send'[c]), send'[c][k].type = "chat"
        PROVE  /\ \A j \in 1..(k - 1) :
                    send'[c][j].type = "chat" => Before(send'[c][j], send'[c][k])
               /\ \A g \in wrote[c] : g.type = "chat" => Before(g, send'[c][k])
    <3>1. CASE k \in 1..Len(send[c])
      <4>1. \A j \in 1..(k - 1) : j \in 1..Len(send[c])
        BY <1>2, <3>1
      <4> QED
        BY <1>2, <2>1, <3>1, <4>1 DEF InOrder, Ordered
    <3>2. CASE k = Len(send[c]) + 1
      <4>1. send'[c][k] = f /\ f.type = "chat"
        BY <1>2, <2>1, <3>2
      <4>2. ASSUME NEW j \in 1..(k - 1), send'[c][j].type = "chat"
            PROVE  Before(send'[c][j], f)
        <5>1. j \in 1..Len(send[c]) /\ send'[c][j] = send[c][j]
          BY <1>2, <3>2
        <5>2. send[c][j] \in RowFrames(c)
          BY <1>4, <4>2, <5>1 DEF InOrder, AboutRows, RowFrames
        <5> QED
          BY <4>1, <4>2, <5>1, <5>2
      <4>3. \A g \in wrote[c] : g.type = "chat" => Before(g, f)
        BY <4>1 DEF RowFrames
      <4> QED
        BY <4>1, <4>2, <4>3
    <3> QED
      BY <1>2, <3>1, <3>2
  <2> QED
    BY <2>1 DEF Ordered, Before
<1>7. AboutRows(c)'
  BY <1>3 DEF InOrder, AboutRows
<1> QED
  BY <1>5, <1>6, <1>7 DEF InOrder

------------------------------------------------------------------------------
(* What one step does to one channel *)

Flushed(c) ==
  /\ send'[c] = <<>>
  /\ wrote'[c] = wrote[c] \union {f \in FramesIn(send[c]) : f.id # 0}
  /\ batch'[c] = batch[c]

Lost(c) ==
  /\ send'[c] = <<>> \/ (send[c] # <<>> /\ send'[c] = Tail(send[c]))
  /\ wrote'[c] = wrote[c]
  /\ writer'[c] # "running"
  /\ batch'[c] \subseteq batch[c]

Queued(c, f) ==
  /\ send'[c] = Append(send[c], f)
  /\ wrote'[c] = wrote[c]
  /\ IF IsOffline(f) THEN Oldest(f.id, batch[c]) /\ batch'[c] = batch[c] \ {f.id}
     ELSE batch'[c] = batch[c]
  /\ f.type \in Answers => f = out[c]

Untouched(c) ==
  /\ send'[c] = send[c] /\ wrote'[c] = wrote[c]
  /\ batch'[c] \subseteq batch[c] \/ offline[c] = "query"

\* A channel is flushed by its WritePump, loses frames only as its WritePump
\* ends, or gets one frame, from the backlog the oldest that is left, and as an
\* answer what its ReadPump has to send.
LEMMA ChannelStep ==
  ASSUME IndInv, [Next]_vars, NEW c \in Conns
  PROVE  Untouched(c) \/ Flushed(c) \/ Lost(c) \/ \E f \in Frames : Queued(c, f)
<1> USE DEF vars, process, registry, channels, pumps, backlog, stores
<1> DEFINE Goal == Untouched(c) \/ Flushed(c) \/ Lost(c) \/ \E f \in Frames : Queued(c, f)
<1>a. /\ send \in [Conns -> Seq(Frames)]
      /\ wrote \in [Conns -> SUBSET Frames]
      /\ out \in [Conns -> Frames]
      /\ writer \in [Conns -> {"idle", "running", "gone"}]
      /\ batch \in [Conns -> SUBSET Nat]
      /\ userClients \in [Users -> Conns \union {None}]
  BY DEF IndInv, TypeOK
<1>1. CASE UNCHANGED <<send, wrote, batch>>
  BY <1>1 DEF Untouched
<1>2. ASSUME NEW why, Halt(why)
      PROVE  Goal
  BY <1>2 DEF Halt, Lost
<1>3. ASSUME NEW d \in Conns, NEW f \in Frames, Enqueue(d, f), ~IsOffline(f),
             f.type \in Answers => f = out[d], UNCHANGED <<wrote, batch>>
      PROVE  Goal
  <2>1. CASE d = c
    BY <1>a, <1>3, <2>1 DEF Enqueue, Queued
  <2>2. CASE d # c
    BY <1>a, <1>3, <2>2 DEF Enqueue, Untouched
  <2> QED
    BY <2>1, <2>2
<1>4. ASSUME NEW u \in Users, NEW f \in Frames, SendToUser(u, f), ~IsOffline(f),
             f.type \notin Answers, UNCHANGED <<wrote, batch>>
      PROVE  Goal
  BY <1>a, <1>1, <1>3, <1>4 DEF SendToUser
<1>5. ASSUME NEW d \in Conns, ReadPump(d)
      PROVE  Goal
  <2>0. OutIsStored(d)
    BY DEF IndInv, PendingIsStored
  <2>1. ASSUME NEW u \in Users, ReadTyping(d, u)
        PROVE  Goal
    <3>f. PICK f \in Frames : f = Frame("typing", 0)
      BY FrameIsFrame DEF FrameType
    <3>1. ~IsOffline(f) /\ f.type \notin Answers
      BY <3>f DEF IsOffline, Answers, Frame
    <3> QED
      BY <1>4, <2>1, <3>1, <3>f DEF ReadTyping
  <2>2. CASE Deliver(d)
    <3>1. /\ messages \in Seq(Rows) /\ out[d].id \in 1..Len(messages)
          /\ ~IsOffline(out[d]) /\ out[d].type \notin Answers
      BY <2>0, <2>2 DEF Deliver, OutIsStored, Answers, IsOffline, IndInv, TypeOK
    <3>2. messages[out[d].id] \in Rows
      BY <3>1, ElementOfSeq
    <3>3. messages[out[d].id].to \in Users
      BY <3>2 DEF Rows
    <3>f. PICK f \in Frames : f = out[d]
      BY <1>a
    <3> QED
      BY <1>4, <2>2, <3>1, <3>3, <3>f DEF Deliver
  <2>3. CASE Reply(d)
    <3>1. ~IsOffline(out[d]) /\ out[d] \in Frames
      BY <1>a, <2>0 DEF OutIsStored, IsOffline, Answers
    <3> QED
      BY <1>3, <2>3, <3>1 DEF Reply
  <2>4. ASSUME NEW u \in Users, ReadChat(d, u) \/ ReadChatUnknown(d, u)
        PROVE  Goal
    BY <1>1, <2>4 DEF ReadChat, ReadChatUnknown, CreateMessage
  <2>5. ASSUME NEW i \in 1..Len(messages), ReadReceipt(d, i)
        PROVE  Goal
    BY <1>1, <2>5 DEF ReadReceipt
  <2>6. CASE ReadAnswered(d) \/ ReadError(d) \/ CloseConn(d)
    BY <1>1, <2>6 DEF ReadAnswered, ReadError, CloseConn
  <2> QED
    BY <1>5, <2>1, <2>2, <2>3, <2>4, <2>5, <2>6 DEF ReadPump
<1>6. ASSUME NEW d \in Conns, WritePump(d)
      PROVE  Goal
  <2>1. CASE WriterFlush(d)
    BY <1>a, <2>1 DEF WriterFlush, TakeAll, Flushed, Untouched
  <2>2. CASE WriterFail(d)
    BY <1>a, <2>2 DEF WriterFail, WriterExit, Lost, Untouched
  <2>3. CASE WriterPingFail(d) \/ WriterClosed(d)
    BY <1>1, <2>3 DEF WriterPingFail, WriterClosed
  <2> QED
    BY <1>6, <2>1, <2>2, <2>3 DEF WritePump
<1>7. ASSUME NEW d \in Conns, SendOfflineMessages(d)
      PROVE  Goal
  <2>1. CASE OfflineQuery(d)
    BY <1>a, <2>1 DEF OfflineQuery, Untouched
  <2>2. CASE OfflineQueryEmpty(d) \/ OfflinePushClosed(d)
    BY <1>2, <2>2 DEF OfflineQueryEmpty, OfflinePushClosed
  <2>3. CASE OfflineQueryError(d) \/ OfflineMark(d)
    BY <1>1, <2>3 DEF OfflineQueryError, OfflineMark
  <2>4. CASE OfflineSkip(d)
    <3>1. PICK rest \in SUBSET batch[d] : OfflineNext(d, rest)
      BY <2>4 DEF OfflineSkip
    <3> QED
      BY <1>a, <2>4, <3>1 DEF OfflineSkip, OfflineNext, Untouched
  <2>5. CASE OfflinePush(d)
    <3>1. CASE OfflineNext(d, {}) /\ UNCHANGED send
      BY <1>a, <2>5, <3>1 DEF OfflinePush, OfflineNext, Untouched
    <3>2. ASSUME NEW i \in batch[d], Oldest(i, batch[d]),
                 Enqueue(d, Frame("offline_message", i)), OfflineNext(d, batch[d] \ {i})
          PROVE  Goal
      <4>1. CASE d = c
        <5>f. PICK f \in Frames : f = Frame("offline_message", i)
          BY <1>a, FrameIsFrame DEF FrameType
        <5>1. f.id = i /\ IsOffline(f) /\ f.type \notin Answers
          BY <5>f DEF Frame, IsOffline, Answers
        <5>2. Queued(c, f)
          BY <1>a, <2>5, <3>2, <4>1, <5>f, <5>1
             DEF Enqueue, OfflineNext, OfflinePush, Queued
        <5> QED
          BY <5>2
      <4>2. CASE d # c
        BY <1>a, <2>5, <3>2, <4>2 DEF Enqueue, OfflineNext, OfflinePush, Untouched
      <4> QED
        BY <4>1, <4>2
    <3> QED
      BY <2>5, <3>1, <3>2 DEF OfflinePush
  <2> QED
    BY <1>7, <2>1, <2>2, <2>3, <2>4, <2>5 DEF SendOfflineMessages
<1>8. CASE HubStep \/ HubStop \/ Restart \/ UNCHANGED vars
  BY <1>1, <1>8 DEF HubStep, HubStop, HubAdd, HubSetOnline, HubRemove, HubRemoveAbsent,
                    HubSetOffline, HubSelect, Restart
<1>9. ASSUME NEW d \in Conns, Connect(d) \/ HubRegister(d) \/ HubUnregister(d) \/ ConnDrop(d)
      PROVE  Goal
  BY <1>1, <1>9 DEF Connect, HubRegister, HubUnregister, ConnDrop
<1>10. ASSUME NEW u \in Users, NEW o \in Users, RestMarkConversation(u, o)
       PROVE  Goal
  BY <1>1, <1>10 DEF RestMarkConversation
<1> QED
  BY <1>2, <1>5, <1>6, <1>7, <1>8, <1>9, <1>10 DEF Next, Crash

\* An answer is queued while its ReadPump still owes it, and so no other answer
\* to the same message is there.
LEMMA OneAnswerStep ==
  ASSUME IndInv, [Next]_vars, OneAnswer, \A c \in Conns : StillToSend(c)
  PROVE  OneAnswer'
<1> SUFFICES ASSUME NEW c \in Conns, NEW i \in 1..Len(messages'),
                    \A t \in Answers : Frame(t, i) \in RowFrames(c)'
             PROVE  FALSE
  BY DEF OneAnswer, Answers
<1>0. /\ send[c] \in Seq(Frames) /\ PushedIsStored /\ StillToSend(c)
      /\ \A t \in Answers : Frame(t, i).id = i /\ Frame(t, i).type = t
  BY DEF IndInv, TypeOK, Frame
<1>1. PICK t \in Answers : Frame(t, i) \notin RowFrames(c)
  <2>1. ASSUME \A t \in Answers : Frame(t, i) \in RowFrames(c)
        PROVE  FALSE
    <3>1. i \in 1..Len(messages)
      BY <1>0, <2>1 DEF PushedIsStored, Concerns, Answers
    <3> QED
      BY <2>1, <3>1 DEF OneAnswer
  <2> QED
    BY <2>1
<1>2. Frame(t, i) \in RowFrames(c)' /\ i # 0
  OBVIOUS
<1>3. ~Untouched(c)
  BY <1>1, <1>2 DEF Untouched, RowFrames
<1>4. ~Flushed(c)
  BY <1>1, <1>2, FramesOfEmpty DEF Flushed, RowFrames
<1>5. ~Lost(c)
  BY <1>0, <1>1, <1>2, FramesOfEmpty, FramesOfTail DEF Lost, RowFrames
<1>6. PICK f \in Frames : Queued(c, f)
  BY <1>3, <1>4, <1>5, ChannelStep
<1>7. RowFrames(c)' \subseteq RowFrames(c) \union {f}
  BY <1>0, <1>6, FramesOfAppend DEF Queued, RowFrames
<1>8. f = Frame(t, i) /\ f = out[c]
  BY <1>0, <1>1, <1>2, <1>6, <1>7 DEF Queued
<1>9. \A s \in Answers : Frame(s, i) \notin RowFrames(c)
  BY <1>0, <1>8 DEF StillToSend
<1>10. \A s \in Answers : Frame(s, i) = f
  BY <1>7, <1>9
<1> QED
  BY <1>0, <1>10 DEF Answers

------------------------------------------------------------------------------
(* The steps *)

\* What a step that hands out no frame may do to what is still to be sent.
NoNewFrames == \A c \in Conns : RowFrames(c)' \subseteq RowFrames(c)

OutKept ==
  \A c \in Conns : out'[c] = out[c] \/ (out'[c].type # "chat" /\ out'[c].id = 0)

BacklogKept ==
  \A c \in Conns :
    /\ offline'[c] \in {"idle", "query"} => offline[c] \in {"idle", "query"}
    /\ \A i \in batch'[c] : i \in batch[c] \/ offline[c] \in {"idle", "query"}

LEMMA StillKept ==
  ASSUME PushedIsStored, RowsKept, \A c \in Conns : StillToSend(c),
         NoNewFrames, OutKept, BacklogKept
  PROVE  \A c \in Conns : StillToSend(c)'
<1> SUFFICES ASSUME NEW c \in Conns
             PROVE  StillToSend(c)'
  OBVIOUS
<1>0. StillToSend(c) /\ RowFrames(c)' \subseteq RowFrames(c)
  BY DEF NoNewFrames
<1>1. ASSUME NEW d \in Conns, NEW g \in RowFrames(d)
      PROVE  g.id # 0 /\ messages'[g.id].via = messages[g.id].via
  BY <1>1 DEF PushedIsStored, Concerns, RowsKept
<1>2. ASSUME out'[c].type = "chat", NEW d \in Conns, NEW g \in RowFrames(d)',
             g.type = "chat", messages'[g.id].via = c
      PROVE  g.id < out'[c].id
  <2>1. g \in RowFrames(d) /\ out'[c] = out[c]
    BY <1>2 DEF NoNewFrames, OutKept
  <2> QED
    BY <1>0, <1>1, <1>2, <2>1 DEF StillToSend
<1>3. \A t \in Answers : Frame(t, out'[c].id) \notin RowFrames(c)'
  <2>1. CASE out'[c] = out[c]
    BY <1>0, <2>1 DEF StillToSend
  <2>2. CASE out'[c].id = 0
    BY <1>0, <1>1, <2>2 DEF Frame
  <2> QED
    BY <2>1, <2>2 DEF OutKept
<1>4. ASSUME offline'[c] \in {"idle", "query"}, NEW g \in RowFrames(c)'
      PROVE  g.type # "offline_message"
  BY <1>0, <1>4 DEF StillToSend, BacklogKept
<1>5. ASSUME NEW i \in batch'[c]
      PROVE  Frame("offline_message", i) \notin RowFrames(c)'
  BY <1>0, <1>5 DEF StillToSend, BacklogKept, Frame
<1> QED
  BY <1>2, <1>3, <1>4, <1>5 DEF StillToSend

\* A step that leaves the channels alone keeps the delivery in order.
LEMMA NothingHanded ==
  ASSUME BacklogStartsOnce', OneAnswer', TypeOK, PushedIsStored, DeliveryInv, RowsKept,
         UNCHANGED <<send, wrote>>, OutKept, BacklogKept
  PROVE  DeliveryInv'
<1>1. NoNewFrames
  BY DEF NoNewFrames, RowFrames
<1>2. \A c \in Conns : StillToSend(c)'
  BY <1>1, StillKept, DeliveryParts
<1>3. \A c \in Conns : InOrder(c)'
  BY SameOrder, DeliveryParts
<1> QED
  BY <1>2, <1>3, DeliveryPartsNext

\* A step that also puts one frame on one channel.
LEMMA OneHanded ==
  ASSUME TypeOK, PushedIsStored, DeliveryInv, UNCHANGED <<messages, wrote>>,
         NEW c \in Conns, NEW f \in Frames, Enqueue(c, f),
         f.id # 0 => f \notin RowFrames(c),
         f.type = "chat" => f.id # 0 /\ \A g \in RowFrames(c) :
                                g.type = "chat" => Before(g, f)
  PROVE  /\ \A d \in Conns : InOrder(d)'
         /\ \A d \in Conns : \A g \in RowFrames(d)' :
              g \in RowFrames(d) \/ (d = c /\ g = f /\ f.id # 0)
<1>1. send \in [Conns -> Seq(Frames)] /\ messages \in Seq(Rows)
  BY DEF TypeOK
<1>2. RowsKept
  BY <1>1, SameRowsKept
<1>3. \A d \in Conns : InOrder(d)
  BY DeliveryParts
<1>4. send'[c] = Append(send[c], f) /\ \A d \in Conns : d # c => send'[d] = send[d]
  BY <1>1 DEF Enqueue
<1>5. f.id = 0 => f \notin wrote[c]
  BY DEF PushedIsStored, RowFrames, Concerns
<1>6. InOrder(c)'
  BY <1>3, <1>4, <1>5, EnqueueOrder
<1>7. \A d \in Conns : d # c => InOrder(d)'
  BY <1>2, <1>3, <1>4, SameOrder
<1>8. \A d \in Conns : \A g \in RowFrames(d)' :
        g \in RowFrames(d) \/ (d = c /\ g = f /\ f.id # 0)
  BY <1>1, RowFramesOfEnqueue
<1> QED
  BY <1>6, <1>7, <1>8

\* The backlog of a connection is not queried before it is registered.
LEMMA StartStep ==
  ASSUME TypeOK, BacklogStartsOnce, [Next]_vars
  PROVE  BacklogStartsOnce'
<1> USE DEF vars, process, registry, channels, pumps, backlog, stores, BacklogStartsOnce
<1>a. /\ reader \in [Conns -> {"idle", "registering", "reading", "delivering",
                               "replying", "leaving", "closing", "gone"}]
      /\ offline \in [Conns -> {"idle", "query", "mark", "push", "done"}]
  BY DEF TypeOK
<1>1. CASE UNCHANGED <<reader, offline>>
  BY <1>1
<1>2. ASSUME NEW why, Halt(why)
      PROVE  BacklogStartsOnce'
  BY <1>2 DEF Halt
<1>3. ASSUME NEW c \in Conns, Connect(c) \/ HubRegister(c) \/ HubUnregister(c) \/ ReadPump(c)
      PROVE  BacklogStartsOnce'
  BY <1>a, <1>3 DEF Connect, HubRegister, HubUnregister, ReadPump, ReadChat, ReadChatUnknown, CreateMessage, ReadTyping,
       ReadReceipt, ReadAnswered, Deliver, Reply, ReadError, CloseConn
<1>4. ASSUME NEW c \in Conns, SendOfflineMessages(c)
      PROVE  BacklogStartsOnce'
  <2>1. CASE OfflineQueryEmpty(c) \/ OfflinePushClosed(c)
    BY <1>2, <2>1 DEF OfflineQueryEmpty, OfflinePushClosed
  <2>2. CASE OfflineQuery(c) \/ OfflineQueryError(c) \/ OfflineMark(c)
             \/ OfflineSkip(c) \/ OfflinePush(c)
    <3>1. /\ UNCHANGED reader /\ offline[c] # "idle"
          /\ \A d \in Conns \ {c} : offline'[d] = offline[d]
      BY <1>a, <2>2 DEF OfflineQuery, OfflineQueryError, OfflineMark, OfflineSkip,
           OfflinePush, OfflineNext
    <3> QED
      BY <3>1
  <2> QED
    BY <1>4, <2>1, <2>2 DEF SendOfflineMessages
<1>5. CASE HubStep \/ HubStop \/ Restart \/ UNCHANGED vars
  BY <1>1, <1>5 DEF HubStep, HubStop, HubAdd, HubSetOnline, HubRemove, HubRemoveAbsent,
                    HubSetOffline, HubSelect, Restart
<1>6. ASSUME NEW c \in Conns, WritePump(c) \/ ConnDrop(c)
      PROVE  BacklogStartsOnce'
  BY <1>1, <1>6 DEF WritePump, WriterFlush, WriterFail, WriterPingFail, WriterClosed,
       WriterExit, ConnDrop
<1>7. ASSUME NEW u \in Users, NEW o \in Users, RestMarkConversation(u, o)
      PROVE  BacklogStartsOnce'
  BY <1>1, <1>7 DEF RestMarkConversation
<1> QED
  BY <1>2, <1>3, <1>4, <1>5, <1>6, <1>7 DEF Next, Crash

\* Every action keeps the delivery in order.
LEMMA DeliveryStep ==
  ASSUME IndInv, DeliveryInv, [Next]_vars
  PROVE  DeliveryInv'
<1> USE DEF vars, process, registry, channels, pumps, backlog, stores
<1>a. /\ TypeOK /\ RegisteredOpen /\ PushedIsStored /\ PendingIsStored
      /\ messages \in Seq(Rows) /\ Len(messages) \in Nat
      /\ send \in [Conns -> Seq(Frames)]
      /\ wrote \in [Conns -> SUBSET Frames]
      /\ out \in [Conns -> Frames]
      /\ userClients \in [Users -> Conns \union {None}]
      /\ offline \in [Conns -> {"idle", "query", "mark", "push", "done"}]
      /\ batch \in [Conns -> SUBSET Nat]
  BY LenProperties DEF IndInv, TypeOK
<1>b. UNCHANGED messages => RowsKept
  BY <1>a, SameRowsKept
<1>c. /\ \A c \in Conns : InOrder(c) /\ StillToSend(c)
      /\ BacklogStartsOnce /\ BacklogStartsOnce' /\ OneAnswer'
  BY <1>a, DeliveryParts, StartStep, OneAnswerStep
<1>d. ASSUME RowsKept, UNCHANGED <<send, wrote, out, offline, batch>>
      PROVE  DeliveryInv'
  BY <1>a, <1>d, <1>c, NothingHanded DEF OutKept, BacklogKept
<1>1. CASE UNCHANGED <<messages, send, wrote, out, offline, batch>>
  BY <1>1, <1>b, <1>d
<1>2. ASSUME NEW why, Halt(why)
      PROVE  DeliveryInv'
  <2>1. \A c \in Conns : InOrder(c)'
    BY <1>2, EmptyOrder DEF Halt
  <2>2. NoNewFrames
    BY <1>2, FramesOfEmpty DEF Halt, NoNewFrames, RowFrames
  <2>3. OutKept
    BY <1>2 DEF Halt, OutKept, NoFrame, Frame
  <2>4. BacklogKept
    BY <1>2, <1>c DEF Halt, BacklogKept, BacklogStartsOnce
  <2>5. RowsKept
    BY <1>2, <1>b DEF Halt
  <2>6. \A c \in Conns : StillToSend(c)'
    BY <1>a, <1>c, <2>2, <2>3, <2>4, <2>5, StillKept
  <2> QED
    BY <2>1, <2>6, <1>c, DeliveryPartsNext
<1>3. CASE HubStep \/ HubStop \/ Restart
  BY <1>1, <1>3 DEF HubStep, HubStop, HubAdd, HubSetOnline, HubRemove, HubRemoveAbsent,
                    HubSetOffline, HubSelect, Restart
<1>4. ASSUME NEW u \in Users, NEW o \in Users, RestMarkConversation(u, o)
      PROVE  DeliveryInv'
  <2>1. RowsKept
    BY <1>a, <1>4, MarkKeepsRows DEF RestMarkConversation
  <2> QED
    BY <1>4, <1>d, <2>1 DEF RestMarkConversation
<1>5. ASSUME NEW c \in Conns, Connect(c) \/ HubUnregister(c) \/ ConnDrop(c)
      PROVE  DeliveryInv'
  BY <1>1, <1>5 DEF Connect, HubUnregister, ConnDrop
<1>6. ASSUME NEW c \in Conns, HubRegister(c)
      PROVE  DeliveryInv'
  <2>1. BacklogKept
    BY <1>a, <1>c, <1>6 DEF HubRegister, BacklogKept, BacklogStartsOnce
  <2> QED
    BY <1>a, <1>b, <1>6, <2>1, <1>c, NothingHanded DEF HubRegister, OutKept
<1>7. ASSUME NEW c \in Conns, ReadPump(c)
      PROVE  DeliveryInv'
  <2> USE DEF ReadPump
  <2>1. ASSUME NEW u \in Users, ReadChat(c, u) \/ ReadChatUnknown(c, u)
        PROVE  DeliveryInv'
    <3>1. /\ RowsKept /\ Len(messages') = Len(messages) + 1
          /\ messages'[Len(messages) + 1].via = c
      BY <1>a, <2>1, ChatKeepsRows DEF ReadChat, ReadChatUnknown, CreateMessage
    <3>2. /\ \E t \in {"chat", "error"} :
               out' = [out EXCEPT ![c] = Frame(t, Len(messages) + 1)]
          /\ UNCHANGED <<send, wrote, offline, batch>>
      BY <2>1 DEF ReadChat, ReadChatUnknown, CreateMessage
    <3>3. \A d \in Conns : InOrder(d)'
      BY <1>a, <1>c, <3>1, <3>2, SameOrder
    <3>4. \A d \in Conns : \A g \in RowFrames(d) :
            /\ g.id \in 1..Len(messages) /\ messages'[g.id].via = messages[g.id].via
      BY <1>a, <3>1 DEF PushedIsStored, Concerns, RowsKept
    <3>5. \A d \in Conns : RowFrames(d)' = RowFrames(d)
      BY <3>2 DEF RowFrames
    <3>6. StillToSend(c)'
      <4>1. out'[c].id = Len(messages) + 1
        BY <1>a, <3>2 DEF Frame
      <4>2. \A d \in Conns : \A g \in RowFrames(d)' : g.id < out'[c].id
        BY <1>a, <3>4, <3>5, <4>1
      <4>3. \A t \in Answers : Frame(t, out'[c].id) \notin RowFrames(c)'
        BY <1>a, <3>4, <3>5, <4>1 DEF Frame
      <4> QED
        BY <1>c, <3>2, <3>5, <4>2, <4>3 DEF StillToSend
    <3>7. ASSUME NEW d \in Conns, d # c
          PROVE  StillToSend(d)'
      <4>1. out'[d] = out[d] /\ StillToSend(d)
        BY <1>a, <1>c, <3>2, <3>7
      <4> QED
        BY <3>2, <3>4, <3>5, <4>1 DEF StillToSend
    <3> QED
      BY <3>3, <3>6, <3>7, <1>c, DeliveryPartsNext
  <2>2. ASSUME NEW u \in Users, ReadTyping(c, u)
        PROVE  DeliveryInv'
    <3>0. Frame("typing", 0) \in Frames
      BY FrameIsFrame DEF FrameType
    <3>f. PICK f \in Frames : f = Frame("typing", 0)
      BY <3>0
    <3>1. CASE UNCHANGED send
      BY <1>1, <2>2, <3>1 DEF ReadTyping
    <3>2. ASSUME NEW w \in Conns, Enqueue(w, f)
          PROVE  DeliveryInv'
      <4>1. f.id = 0 /\ f.type # "chat"
        BY <3>f DEF Frame
      <4>2. /\ \A d \in Conns : InOrder(d)'
            /\ \A d \in Conns : \A g \in RowFrames(d)' : g \in RowFrames(d)
        BY <1>a, <2>2, <3>2, <4>1, OneHanded DEF ReadTyping
      <4>3. NoNewFrames /\ OutKept /\ BacklogKept /\ RowsKept
        BY <1>b, <2>2, <4>2 DEF ReadTyping, NoNewFrames, OutKept, BacklogKept
      <4>4. \A d \in Conns : StillToSend(d)'
        BY <1>a, <1>c, <4>3, StillKept
      <4> QED
        BY <4>2, <4>4, <1>c, DeliveryPartsNext
    <3> QED
      BY <1>a, <2>2, <3>f, <3>1, <3>2 DEF ReadTyping, SendToUser
  <2>3. ASSUME NEW i \in 1..Len(messages), ReadReceipt(c, i)
        PROVE  DeliveryInv'
    <3>1. RowsKept
      BY <1>a, <2>3, ReceiptKeepsRows DEF ReadReceipt
    <3> QED
      BY <1>d, <2>3, <3>1 DEF ReadReceipt
  <2>4. CASE ReadAnswered(c)
    <3>1. OutKept
      BY <1>a, <2>4 DEF ReadAnswered, OutKept, Frame
    <3> QED
      BY <1>a, <1>b, <2>4, <3>1, <1>c, NothingHanded DEF ReadAnswered, BacklogKept
  <2>5. CASE Deliver(c)
    <3>1. /\ out[c].type = "chat" /\ out[c].id \in 1..Len(messages)
          /\ messages[out[c].id].via = c
      BY <1>a, <2>5 DEF Deliver, PendingIsStored, OutIsStored, Answers
    <3>2. /\ out' = [out EXCEPT ![c] = Frame("message_sent", out[c].id)]
          /\ UNCHANGED <<messages, wrote, offline, batch>>
      BY <2>5 DEF Deliver
    <3>f. PICK f \in Frames : f = out[c]
      BY <1>a
    <3>3. \A d \in Conns : \A g \in RowFrames(d) :
            g.type = "chat" => g.id < f.id \/ messages[g.id].via # c
      BY <1>c, <3>1, <3>f DEF StillToSend
    <3>4. ASSUME \A d \in Conns : \A g \in RowFrames(d)' : g \in RowFrames(d) \/ g = f
          PROVE  \A d \in Conns : StillToSend(d)'
      <4>1. StillToSend(c)'
        <5>1. out'[c] = Frame("message_sent", out[c].id)
          BY <1>a, <3>2
        <5>2. out'[c].type # "chat" /\ out'[c].id = out[c].id
          BY <5>1 DEF Frame
        <5>3. \A t \in Answers : Frame(t, out'[c].id) \notin RowFrames(c)'
          <6>1. \A t \in Answers : Frame(t, out[c].id) \notin RowFrames(c)
            BY <1>c DEF StillToSend
          <6>2. \A t \in Answers : Frame(t, out[c].id) # f
            BY <3>1, <3>f DEF Frame, Answers
          <6> QED
            BY <3>4, <5>2, <6>1, <6>2
        <5>4. \A g \in RowFrames(c)' : g \in RowFrames(c) \/ g.type = "chat"
          BY <3>1, <3>f, <3>4
        <5> QED
          BY <1>c, <3>2, <5>2, <5>3, <5>4 DEF StillToSend, Frame
      <4>2. ASSUME NEW d \in Conns, d # c
            PROVE  StillToSend(d)'
        <5>1. StillToSend(d) /\ out'[d] = out[d]
          BY <1>a, <1>c, <3>2, <4>2
        <5>2. messages[f.id].via # d /\ f.type = "chat"
          BY <3>1, <3>f, <4>2
        <5> QED
          BY <3>2, <3>4, <5>1, <5>2 DEF StillToSend, Frame, Answers
      <4> QED
        BY <4>1, <4>2
    <3>5. CASE UNCHANGED send
      <4>1. \A d \in Conns : InOrder(d)'
        BY <1>a, <1>b, <1>c, <3>2, <3>5, SameOrder
      <4>2. \A d \in Conns : RowFrames(d)' = RowFrames(d)
        BY <3>2, <3>5 DEF RowFrames
      <4> QED
        BY <1>c, <3>4, <4>1, <4>2, DeliveryPartsNext
    <3>6. ASSUME NEW w \in Conns, Enqueue(w, f)
          PROVE  DeliveryInv'
      <4>0. f.type = "chat" /\ f.id \in Nat /\ f.id # 0 /\ messages[f.id].via = c
        BY <1>a, <3>1, <3>f
      <4>1. f \notin RowFrames(w)
        <5>1. ~(f.id < f.id)
          BY <4>0
        <5> QED
          BY <3>3, <4>0, <5>1
      <4>2. \A g \in RowFrames(w) : g.type = "chat" => Before(g, f)
        BY <3>3, <4>0 DEF Before
      <4>3. /\ \A d \in Conns : InOrder(d)'
            /\ \A d \in Conns : \A g \in RowFrames(d)' : g \in RowFrames(d) \/ g = f
        BY <1>a, <3>2, <3>6, <4>0, <4>1, <4>2, OneHanded
      <4> QED
        BY <1>c, <3>4, <4>3, DeliveryPartsNext
    <3>7. messages[f.id].to \in Users
      <4>1. messages[f.id] \in Rows
        BY <1>a, <3>1, <3>f, ElementOfSeq
      <4> QED
        BY <4>1 DEF Rows
    <3> QED
      BY <1>a, <2>5, <3>f, <3>5, <3>6, <3>7 DEF Deliver, SendToUser
  <2>6. CASE Reply(c)
    <3>1. OutIsStored(c) /\ out[c].type # "chat"
      BY <1>a, <2>6 DEF Reply, PendingIsStored, OutIsStored, Answers
    <3>2. /\ out' = [out EXCEPT ![c] = NoFrame]
          /\ UNCHANGED <<messages, wrote, offline, batch>>
      BY <2>6 DEF Reply
    <3>f. PICK f \in Frames : f = out[c]
      BY <1>a
    <3>3. f.id # 0 => f.type \in Answers /\ f = Frame(f.type, out[c].id)
      BY <3>1, <3>f DEF OutIsStored, Answers, Frame, Frames
    <3>4. f.id # 0 => f \notin RowFrames(c)
      BY <1>c, <3>3 DEF StillToSend
    <3>5. Enqueue(c, f)
      BY <2>6, <3>f DEF Reply
    <3>6. /\ \A d \in Conns : InOrder(d)'
          /\ \A d \in Conns : \A g \in RowFrames(d)' :
               g \in RowFrames(d) \/ (d = c /\ g.type \in Answers)
      BY <1>a, <3>1, <3>2, <3>3, <3>4, <3>5, <3>f, OneHanded
    <3>7. StillToSend(c)'
      <4>1. out'[c].type # "chat" /\ out'[c].id = 0
        BY <1>a, <3>2 DEF NoFrame, Frame
      <4>2. \A g \in RowFrames(c)' : g.id # 0
        BY <1>a, <3>2, <3>5 DEF RowFrames, PushedIsStored, Concerns
      <4>3. \A t \in Answers : Frame(t, out'[c].id) \notin RowFrames(c)'
        BY <4>1, <4>2 DEF Frame
      <4>4. \A g \in RowFrames(c)' : g \in RowFrames(c) \/ g.type \in Answers
        BY <3>6
      <4> QED
        BY <1>c, <3>2, <4>1, <4>3, <4>4 DEF StillToSend, Frame, Answers
    <3>8. ASSUME NEW d \in Conns, d # c
          PROVE  StillToSend(d)'
      <4>1. StillToSend(d) /\ out'[d] = out[d]
        BY <1>a, <1>c, <3>2, <3>8
      <4> QED
        BY <3>2, <3>6, <3>8, <4>1 DEF StillToSend, Answers
    <3> QED
      BY <1>c, <3>6, <3>7, <3>8, DeliveryPartsNext
  <2>7. CASE ReadError(c) \/ CloseConn(c)
    BY <1>1, <2>7 DEF ReadError, CloseConn
  <2> QED
    BY <1>7, <2>1, <2>2, <2>3, <2>4, <2>5, <2>6, <2>7
<1>8. ASSUME NEW c \in Conns, WritePump(c)
      PROVE  DeliveryInv'
  <2>1. CASE WriterPingFail(c) \/ WriterClosed(c)
    BY <1>1, <2>1 DEF WriterPingFail, WriterClosed
  <2>2. ASSUME WriterFlush(c) \/ WriterFail(c)
        PROVE  DeliveryInv'
    <3>1. /\ UNCHANGED <<messages, out, offline, batch>>
          /\ send[c] # <<>> /\ send'[c] \in {Tail(send[c]), <<>>}
          /\ \A d \in Conns \ {c} : send'[d] = send[d] /\ wrote'[d] = wrote[d]
          /\ send'[c] # <<>> => wrote' = wrote
      BY <1>a, <2>2 DEF WriterFlush, BatchReady, WriterFail, WriterExit, TakeAll
    <3>2. InOrder(c)'
      <4>1. CASE send'[c] = <<>>
        BY <4>1, EmptyOrder
      <4>2. CASE send'[c] # <<>>
        BY <1>a, <1>c, <3>1, <4>2, TailOrder
      <4> QED
        BY <4>1, <4>2
    <3>3. \A d \in Conns \ {c} : InOrder(d)'
      BY <1>a, <1>b, <1>c, <3>1, SameOrder
    <3>4. NoNewFrames
      <4>1. \A d \in Conns \ {c} : RowFrames(d)' = RowFrames(d)
        BY <3>1 DEF RowFrames
      <4>2. FramesIn(send'[c]) \subseteq FramesIn(send[c])
        BY <1>a, <3>1, FramesOfTail, FramesOfEmpty
      <4>3. RowFrames(c)' \subseteq RowFrames(c)
        BY <1>a, <2>2, <4>2 DEF WriterFlush, WriterFail, RowFrames
      <4> QED
        BY <4>1, <4>3 DEF NoNewFrames
    <3>5. \A d \in Conns : StillToSend(d)'
      BY <1>a, <1>b, <1>c, <3>1, <3>4, StillKept DEF OutKept, BacklogKept
    <3> QED
      BY <3>2, <3>3, <3>5, <1>c, DeliveryPartsNext
  <2> QED
    BY <1>8, <2>1, <2>2 DEF WritePump
<1>9. ASSUME NEW c \in Conns, SendOfflineMessages(c)
      PROVE  DeliveryInv'
  <2>1. CASE OfflineQueryEmpty(c) \/ OfflinePushClosed(c)
    BY <1>2, <2>1 DEF OfflineQueryEmpty, OfflinePushClosed
  <2>2. CASE OfflineQuery(c) \/ OfflineQueryError(c) \/ OfflineMark(c) \/ OfflineSkip(c)
    <3>1. UNCHANGED messages \/ \E o : MarkConversationAsRead(Owner[c], o)
      BY <2>2 DEF OfflineQuery, OfflineQueryError, OfflineMark, OfflineSkip
    <3>2. RowsKept
      BY <1>a, <1>b, <3>1, MarkKeepsRows
    <3>3. /\ \A d \in Conns \ {c} : offline'[d] = offline[d] /\ batch'[d] = batch[d]
          /\ offline'[c] \notin {"idle", "query"}
          /\ offline[c] = "query" \/ batch'[c] \subseteq batch[c]
      <4>1. CASE OfflineQuery(c)
        BY <1>a, <4>1 DEF OfflineQuery
      <4>2. CASE OfflineQueryError(c) \/ OfflineMark(c)
        BY <1>a, <4>2 DEF OfflineQueryError, OfflineMark
      <4>3. CASE OfflineSkip(c)
        <5>1. PICK rest \in SUBSET batch[c] : OfflineNext(c, rest)
          BY <4>3 DEF OfflineSkip
        <5> QED
          BY <1>a, <5>1 DEF OfflineNext
      <4> QED
        BY <2>2, <4>1, <4>2, <4>3
    <3>4. BacklogKept
      BY <3>3 DEF BacklogKept
    <3> QED
      BY <1>a, <1>c, <2>2, <3>2, <3>4, NothingHanded
         DEF OfflineQuery, OfflineQueryError, OfflineMark, OfflineSkip, OutKept
  <2>3. CASE OfflinePush(c)
    <3>1. UNCHANGED <<messages, wrote, out>> /\ offline[c] = "push"
      BY <2>3 DEF OfflinePush
    <3>2. BacklogKept
      <4>1. PICK rest \in SUBSET batch[c] : OfflineNext(c, rest)
        BY <2>3 DEF OfflinePush
      <4> QED
        BY <1>a, <3>1, <4>1 DEF OfflineNext, BacklogKept
    <3>3. CASE UNCHANGED send
      BY <1>a, <1>b, <1>c, <3>1, <3>2, <3>3, NothingHanded DEF OutKept
    <3>4. ASSUME NEW i \in batch[c], Enqueue(c, Frame("offline_message", i)),
                 OfflineNext(c, batch[c] \ {i})
          PROVE  DeliveryInv'
      <4>f. PICK f \in Frames : f = Frame("offline_message", i)
        BY <1>a, FrameIsFrame DEF FrameType
      <4>1. f.type = "offline_message" /\ f.id = i /\ f \notin RowFrames(c)
        BY <1>c, <3>4, <4>f DEF StillToSend, Frame
      <4>2. /\ \A d \in Conns : InOrder(d)'
            /\ \A d \in Conns : \A g \in RowFrames(d)' :
                 g \in RowFrames(d) \/ (d = c /\ g = f)
        <5>1. Enqueue(c, f)
          BY <3>4, <4>f
        <5> QED
          BY <1>a, <3>1, <4>1, <5>1, OneHanded
      <4>3. StillToSend(c)'
        <5>1. /\ batch'[c] = batch[c] \ {i}
              /\ offline'[c] \notin {"idle", "query"}
          BY <1>a, <3>4 DEF OfflineNext
        <5>2. \A j \in batch'[c] : Frame("offline_message", j) \notin RowFrames(c)'
          <6>1. ASSUME NEW j \in batch[c] \ {i}
                PROVE  Frame("offline_message", j) \notin RowFrames(c)'
            <7>1. Frame("offline_message", j).id = j
              BY DEF Frame
            <7>2. Frame("offline_message", j) \notin RowFrames(c)
              BY <1>c DEF StillToSend
            <7> QED
              BY <4>1, <4>2, <6>1, <7>1, <7>2
          <6> QED
            BY <5>1, <6>1
        <5>3. \A t \in Answers : Frame(t, out'[c].id) \notin RowFrames(c)'
          <6>1. \A t \in Answers : Frame(t, out[c].id) \notin RowFrames(c)
            BY <1>c DEF StillToSend
          <6>2. \A t \in Answers : Frame(t, out[c].id) # f
            BY <4>1 DEF Frame, Answers
          <6> QED
            BY <3>1, <4>2, <6>1, <6>2
        <5>4. \A d \in Conns : \A g \in RowFrames(d)' :
                g \in RowFrames(d) \/ g.type # "chat"
          BY <4>1, <4>2
        <5> QED
          BY <1>c, <3>1, <5>1, <5>2, <5>3, <5>4 DEF StillToSend
      <4>4. ASSUME NEW d \in Conns, d # c
            PROVE  StillToSend(d)'
        <5>1. StillToSend(d) /\ batch'[d] = batch[d] /\ offline'[d] = offline[d]
          BY <1>a, <1>c, <3>4, <4>4 DEF OfflineNext
        <5> QED
          BY <3>1, <4>1, <4>2, <4>4, <5>1 DEF StillToSend
      <4> QED
        BY <1>c, <4>2, <4>3, <4>4, DeliveryPartsNext
    <3> QED
      BY <2>3, <3>3, <3>4 DEF OfflinePush
  <2> QED
    BY <1>9, <2>1, <2>2, <2>3 DEF SendOfflineMessages
<1>10. CASE UNCHANGED vars
  BY <1>1, <1>10
<1> QED
  BY <1>2, <1>3, <1>4, <1>5, <1>6, <1>7, <1>8, <1>9, <1>10 DEF Next, Crash

------------------------------------------------------------------------------
(* Closed channels *)

\* No step adds a frame to a channel that is closed.
LEMMA ClosedStep ==
  ASSUME IndInv, [Next]_vars, NEW c \in Conns, closed[c], closed'[c]
  PROVE  Len(send'[c]) <= Len(send[c])
<1> USE DEF vars, process, registry, channels, pumps, backlog, stores
<1>a. /\ RegisteredOpen /\ OpenUntilRemoved
      /\ send \in [Conns -> Seq(Frames)]
      /\ userClients \in [Users -> Conns \union {None}]
  BY DEF IndInv, TypeOK
<1>b. send[c] \in Seq(Frames) /\ Len(send[c]) \in Nat
  BY <1>a, LenProperties
<1>1. CASE send'[c] = send[c]
  BY <1>1, <1>b
<1>2. CASE send'[c] = <<>>
  BY <1>2, <1>b, EmptySeq
<1>3. ASSUME NEW d \in Conns, NEW f, Enqueue(d, f), ~closed[d]
      PROVE  Len(send'[c]) <= Len(send[c])
  BY <1>1, <1>3, <1>a DEF Enqueue
<1>4. ASSUME NEW u, NEW f, u \in Users, SendToUser(u, f)
      PROVE  Len(send'[c]) <= Len(send[c])
  BY <1>1, <1>3, <1>4, <1>a DEF SendToUser, RegisteredOpen
<1>5. ASSUME NEW why, Halt(why)
      PROVE  Len(send'[c]) <= Len(send[c])
  BY <1>2, <1>5 DEF Halt
<1>6. ASSUME NEW d \in Conns, ReadPump(d)
      PROVE  Len(send'[c]) <= Len(send[c])
  <2>1. ASSUME NEW u \in Users, ReadTyping(d, u)
        PROVE  Len(send'[c]) <= Len(send[c])
    BY <1>4, <2>1 DEF ReadTyping
  <2>2. CASE Deliver(d)
    <3>1. messages[out[d].id].to \in Users
      <4>1. messages \in Seq(Rows) /\ out[d].id \in 1..Len(messages)
        BY <2>2 DEF Deliver, IndInv, TypeOK, PendingIsStored, OutIsStored, Answers
      <4>2. messages[out[d].id] \in Rows
        BY <4>1, ElementOfSeq
      <4> QED
        BY <4>2 DEF Rows
    <3> QED
      BY <1>4, <2>2, <3>1 DEF Deliver
  <2>3. CASE Reply(d)
    <3>1. ~closed[d]
      BY <1>a, <2>3 DEF Reply, OpenUntilRemoved
    <3> QED
      BY <1>3, <2>3, <3>1 DEF Reply
  <2>4. CASE ReadAnswered(d) \/ ReadError(d) \/ CloseConn(d)
    BY <1>1, <2>4 DEF ReadAnswered, ReadError, CloseConn
  <2>5. ASSUME NEW u \in Users, ReadChat(d, u) \/ ReadChatUnknown(d, u)
        PROVE  Len(send'[c]) <= Len(send[c])
    BY <1>1, <2>5 DEF ReadChat, ReadChatUnknown, CreateMessage
  <2>6. ASSUME NEW i \in 1..Len(messages), ReadReceipt(d, i)
        PROVE  Len(send'[c]) <= Len(send[c])
    BY <1>1, <2>6 DEF ReadReceipt
  <2> QED
    BY <1>6, <2>1, <2>2, <2>3, <2>4, <2>5, <2>6 DEF ReadPump
<1>7. ASSUME NEW d \in Conns, WritePump(d)
      PROVE  Len(send'[c]) <= Len(send[c])
  <2>1. send'[c] \in {send[c], <<>>} \/ (send[c] # <<>> /\ send'[c] = Tail(send[c]))
    BY <1>a, <1>7 DEF WritePump, WriterFlush, TakeAll, WriterFail, WriterPingFail,
         WriterClosed, WriterExit
  <2>2. CASE send[c] # <<>> /\ send'[c] = Tail(send[c])
    BY <1>b, <2>2, TailPlaces
  <2> QED
    BY <1>1, <1>2, <2>1, <2>2
<1>8. ASSUME NEW d \in Conns, SendOfflineMessages(d)
      PROVE  Len(send'[c]) <= Len(send[c])
  <2>1. CASE OfflinePush(d)
    BY <1>1, <1>3, <2>1 DEF OfflinePush
  <2>2. CASE OfflineQueryEmpty(d) \/ OfflinePushClosed(d)
    BY <1>5, <2>2 DEF OfflineQueryEmpty, OfflinePushClosed
  <2>3. CASE OfflineQuery(d) \/ OfflineQueryError(d) \/ OfflineMark(d) \/ OfflineSkip(d)
    BY <1>1, <2>3 DEF OfflineQuery, OfflineQueryError, OfflineMark, OfflineSkip
  <2> QED
    BY <1>8, <2>1, <2>2, <2>3 DEF SendOfflineMessages
<1>9. CASE HubStep \/ HubStop \/ Restart \/ UNCHANGED vars
  BY <1>1, <1>9 DEF HubStep, HubStop, HubAdd, HubSetOnline, HubRemove, HubRemoveAbsent,
                    HubSetOffline, HubSelect, Restart
<1>10. ASSUME NEW d \in Conns, Connect(d) \/ HubRegister(d) \/ HubUnregister(d) \/ ConnDrop(d)
       PROVE  Len(send'[c]) <= Len(send[c])
  BY <1>1, <1>10 DEF Connect, HubRegister, HubUnregister, ConnDrop
<1>11. ASSUME NEW u \in Users, NEW o \in Users, RestMarkConversation(u, o)
       PROVE  Len(send'[c]) <= Len(send[c])
  BY <1>1, <1>11 DEF RestMarkConversation
<1> QED
  BY <1>5, <1>6, <1>7, <1>8, <1>9, <1>10, <1>11 DEF Next, Crash

------------------------------------------------------------------------------
(* The order of a backlog *)

\* What OldestFirst says of one connection.
Ascending(c) ==
  \A k \in 1..Len(send[c]) : IsOffline(send[c][k]) =>
    /\ \A j \in 1..(k - 1) : IsOffline(send[c][j]) => send[c][j].id < send[c][k].id
    /\ \A g \in wrote[c] : IsOffline(g) => g.id < send[c][k].id

Ahead(c) == \A i \in batch[c] : \A g \in RowFrames(c) : IsOffline(g) => g.id < i

\* A frame newer than all the backlog a connection has is added in order.
LEMMA QueuedAscends ==
  ASSUME NEW c \in Conns, TypeOK, BatchIsStored(c), Ascending(c), Ahead(c),
         NEW f \in Frames, Queued(c, f)
  PROVE  Ascending(c)' /\ Ahead(c)'
<1>0. /\ send[c] \in Seq(Frames) /\ wrote[c] \subseteq Frames /\ batch[c] \subseteq Nat
  BY DEF TypeOK
<1>1. /\ Len(send'[c]) = Len(send[c]) + 1 /\ Len(send[c]) \in Nat
      /\ \A k \in 1..Len(send[c]) : send'[c][k] = send[c][k]
      /\ send'[c][Len(send[c]) + 1] = f
  BY <1>0, AppendPlaces, Places DEF Queued
<1>2. FramesIn(send'[c]) = FramesIn(send[c]) \union {f} /\ wrote'[c] = wrote[c]
  BY <1>0, FramesOfAppend DEF Queued
<1>3. \A k \in 1..Len(send[c]) : send[c][k] \in FramesIn(send[c]) /\ send[c][k] \in Frames
  BY <1>0, Places
<1>4. IsOffline(f) => f.id \in batch[c] /\ f.id # 0 /\ f.id \in Nat
  BY <1>0 DEF Queued, Oldest, BatchIsStored
<1>5. ASSUME IsOffline(f), NEW g, g \in FramesIn(send[c]) \/ g \in wrote[c], IsOffline(g)
      PROVE  g.id < f.id
  <2>1. CASE g \in RowFrames(c)
    BY <1>4, <1>5, <2>1 DEF Ahead
  <2>2. CASE g.id = 0
    BY <1>4, <1>5, <2>2
  <2> QED
    BY <1>5, <2>1, <2>2 DEF RowFrames
<1>6. Ascending(c)'
  <2>1. ASSUME NEW k \in 1..Len(send'[c]), IsOffline(send'[c][k])
        PROVE  /\ \A j \in 1..(k - 1) : IsOffline(send'[c][j]) => send'[c][j].id < send'[c][k].id
               /\ \A g \in wrote'[c] : IsOffline(g) => g.id < send'[c][k].id
    <3>1. CASE k \in 1..Len(send[c])
      <4>1. \A j \in 1..(k - 1) : j \in 1..Len(send[c])
        BY <1>1, <3>1
      <4> QED
        BY <1>1, <1>2, <2>1, <3>1, <4>1 DEF Ascending
    <3>2. CASE k = Len(send[c]) + 1
      <4>1. \A j \in 1..(k - 1) : j \in 1..Len(send[c])
        BY <1>1, <3>2
      <4> QED
        BY <1>1, <1>2, <1>3, <1>5, <2>1, <3>2, <4>1
    <3> QED
      BY <1>1, <3>1, <3>2
  <2> QED
    BY <2>1 DEF Ascending, IsOffline
<1>7. Ahead(c)'
  <2>1. ASSUME NEW i \in batch'[c], NEW g \in RowFrames(c)', IsOffline(g)
        PROVE  g.id < i
    <3>1. i \in batch[c] /\ i \in Nat
      BY <1>0, <2>1 DEF Queued
    <3>2. CASE g \in RowFrames(c)
      BY <2>1, <3>1, <3>2 DEF Ahead
    <3>3. CASE g = f
      <4>1. Oldest(f.id, batch[c]) /\ i # f.id
        BY <2>1, <3>3 DEF Queued
      <4> QED
        BY <1>4, <2>1, <3>1, <3>3, <4>1 DEF Oldest
    <3> QED
      BY <1>2, <2>1, <3>2, <3>3 DEF RowFrames
  <2> QED
    BY <2>1 DEF Ahead, IsOffline
<1> QED
  BY <1>6, <1>7

\* Every action keeps the backlogs oldest first.
LEMMA OldestStep ==
  ASSUME IndInv, DeliveryInv, OldestFirst, [Next]_vars
  PROVE  OldestFirst'
<1> SUFFICES ASSUME NEW c \in Conns
             PROVE  Ascending(c)' /\ Ahead(c)'
  BY DEF OldestFirst, Ascending, Ahead
<1>0. /\ TypeOK /\ BatchIsStored(c) /\ Ascending(c) /\ Ahead(c)
      /\ send[c] \in Seq(Frames)
      /\ offline[c] = "query" => \A g \in RowFrames(c) : ~IsOffline(g)
  BY DEF IndInv, TypeOK, PendingIsStored, OldestFirst, Ascending, Ahead, DeliveryInv,
         StillToSend, IsOffline
<1>1. CASE Untouched(c)
  <2>1. RowFrames(c)' = RowFrames(c)
    BY <1>1 DEF Untouched, RowFrames
  <2>2. Ascending(c)'
    BY <1>0, <1>1 DEF Untouched, Ascending
  <2>3. Ahead(c)'
    BY <1>0, <1>1, <2>1 DEF Untouched, Ahead
  <2> QED
    BY <2>2, <2>3
<1>2. ASSUME send'[c] = <<>>, RowFrames(c)' \subseteq RowFrames(c), batch'[c] \subseteq batch[c]
      PROVE  Ascending(c)' /\ Ahead(c)'
  <2>1. Len(send'[c]) = 0
    BY <1>2, EmptySeq
  <2>2. Ascending(c)'
    BY <2>1 DEF Ascending
  <2>3. Ahead(c)'
    BY <1>0, <1>2 DEF Ahead
  <2> QED
    BY <2>2, <2>3
<1>3. CASE Flushed(c)
  <2>1. RowFrames(c)' \subseteq RowFrames(c)
    BY <1>3, FramesOfEmpty DEF Flushed, RowFrames
  <2> QED
    BY <1>2, <1>3, <2>1 DEF Flushed
<1>4. CASE Lost(c)
  <2>1. CASE send'[c] = <<>>
    <3>1. RowFrames(c)' \subseteq RowFrames(c)
      BY <1>4, <2>1, FramesOfEmpty DEF Lost, RowFrames
    <3> QED
      BY <1>2, <1>4, <2>1, <3>1 DEF Lost
  <2>2. CASE send[c] # <<>> /\ send'[c] = Tail(send[c])
    <3>1. /\ Len(send'[c]) = Len(send[c]) - 1 /\ Len(send[c]) \in Nat
          /\ \A k \in 1..Len(send'[c]) :
               send'[c][k] = send[c][k + 1] /\ k + 1 \in 1..Len(send[c])
      BY <1>0, <2>2, TailPlaces, Places
    <3>2. Ascending(c)'
      <4>1. ASSUME NEW k \in 1..Len(send'[c]), IsOffline(send'[c][k])
            PROVE  /\ \A j \in 1..(k - 1) :
                        IsOffline(send'[c][j]) => send'[c][j].id < send'[c][k].id
                   /\ \A g \in wrote'[c] : IsOffline(g) => g.id < send'[c][k].id
        <5>1. send'[c][k] = send[c][k + 1] /\ k + 1 \in 1..Len(send[c])
          BY <3>1
        <5>2. \A j \in 1..(k - 1) :
                send'[c][j] = send[c][j + 1] /\ j + 1 \in 1..((k + 1) - 1)
          BY <3>1
        <5> QED
          BY <1>0, <1>4, <4>1, <5>1, <5>2 DEF Ascending, Lost
      <4> QED
        BY <4>1 DEF Ascending, IsOffline
    <3>3. FramesIn(send'[c]) \subseteq FramesIn(send[c])
      BY <1>0, <2>2, FramesOfTail
    <3>4. RowFrames(c)' \subseteq RowFrames(c)
      BY <1>4, <3>3 DEF Lost, RowFrames
    <3>5. Ahead(c)'
      BY <1>0, <1>4, <3>4 DEF Lost, Ahead
    <3> QED
      BY <3>2, <3>5
  <2> QED
    BY <1>4, <2>1, <2>2 DEF Lost
<1>5. ASSUME NEW f \in Frames, Queued(c, f)
      PROVE  Ascending(c)' /\ Ahead(c)'
  BY <1>0, <1>5, QueuedAscends
<1> QED
  BY <1>1, <1>3, <1>4, <1>5, ChannelStep

------------------------------------------------------------------------------
(* The answers *)

\* What a ReadPump has to send is sent before something else takes its place.
LEMMA OutStep ==
  ASSUME IndInv, [Next]_vars, NEW c \in Conns
  PROVE  \/ out'[c].id = out[c].id
         \/ out[c].id = 0
         \/ \E t \in Answers : Frame(t, out[c].id) \in FramesIn(send'[c])
         \/ writer'[c] # "running"
<1> USE DEF vars, process, registry, channels, pumps, backlog, stores
<1> DEFINE Goal == \/ out'[c].id = out[c].id
                   \/ out[c].id = 0
                   \/ \E t \in Answers : Frame(t, out[c].id) \in FramesIn(send'[c])
                   \/ writer'[c] # "running"
<1>a. /\ send \in [Conns -> Seq(Frames)]
      /\ out \in [Conns -> Frames]
      /\ reader[c] \notin {"delivering", "replying"} => out[c].id = 0
  BY DEF IndInv, TypeOK, NoAnswerOwed
<1>1. CASE out'[c] = out[c]
  BY <1>1
<1>2. ASSUME NEW why, Halt(why)
      PROVE  Goal
  BY <1>2 DEF Halt
<1>3. ASSUME NEW d \in Conns, ReadPump(d)
      PROVE  Goal
  <2>1. CASE d # c
    BY <1>a, <1>1, <1>3, <2>1 DEF ReadPump, ReadChat, ReadChatUnknown, CreateMessage, ReadTyping, ReadReceipt,
         ReadAnswered, Deliver, Reply, ReadError, CloseConn
  <2>2. CASE d = c /\ reader[c] \notin {"delivering", "replying"}
    BY <1>a, <2>2
  <2>3. CASE Deliver(c)
    BY <1>a, <2>3 DEF Deliver, Frame
  <2>4. CASE Reply(c)
    <3>1. OutIsStored(c) /\ out[c].type # "chat"
      BY <2>4 DEF IndInv, PendingIsStored, OutIsStored, Answers, Reply
    <3>2. out[c].id # 0 => out[c].type \in Answers /\ out[c] = Frame(out[c].type, out[c].id)
      BY <1>a, <3>1 DEF OutIsStored, Answers, Frame, Frames
    <3>f. PICK f \in Frames : f = out[c]
      BY <1>a
    <3>3. send'[c] = Append(send[c], f)
      BY <1>a, <2>4, <3>f DEF Reply, Enqueue
    <3>4. FramesIn(send'[c]) = FramesIn(send[c]) \union {f}
      BY <1>a, <3>3, FramesOfAppend
    <3> QED
      BY <3>2, <3>4, <3>f
  <2> QED
    BY <1>3, <2>1, <2>2, <2>3, <2>4 DEF ReadPump, ReadChat, ReadChatUnknown, CreateMessage, ReadTyping, ReadReceipt,
         ReadAnswered, Receiving, ReadError, CloseConn
<1>4. ASSUME NEW d \in Conns, SendOfflineMessages(d)
      PROVE  Goal
  BY <1>1, <1>2, <1>4 DEF SendOfflineMessages, OfflineQuery, OfflineQueryEmpty,
       OfflineQueryError, OfflineMark, OfflineSkip, OfflinePush, OfflinePushClosed
<1>5. CASE HubStep \/ HubStop \/ Restart \/ UNCHANGED vars
  BY <1>1, <1>5 DEF HubStep, HubStop, HubAdd, HubSetOnline, HubRemove, HubRemoveAbsent,
                    HubSetOffline, HubSelect, Restart
<1>6. ASSUME NEW d \in Conns,
             Connect(d) \/ HubRegister(d) \/ HubUnregister(d) \/ ConnDrop(d) \/ WritePump(d)
      PROVE  Goal
  BY <1>1, <1>6 DEF Connect, HubRegister, HubUnregister, ConnDrop, WritePump, WriterFlush,
       WriterFail, WriterPingFail, WriterClosed
<1>7. ASSUME NEW u \in Users, NEW o \in Users, RestMarkConversation(u, o)
      PROVE  Goal
  BY <1>1, <1>7 DEF RestMarkConversation
<1> QED
  BY <1>2, <1>3, <1>4, <1>5, <1>6, <1>7 DEF Next, Crash

\* A row that is new is what the ReadPump that stored it has to push next.
LEMMA RowStep ==
  ASSUME IndInv, [Next]_vars
  PROVE  /\ RowsKept
         /\ \A i \in 1..Len(messages') :
              i \in 1..Len(messages) \/ out'[messages'[i].via].id = i
<1> USE DEF vars, process, registry, channels, pumps, backlog, stores
<1> DEFINE Goal == /\ RowsKept
                   /\ \A i \in 1..Len(messages') :
                        i \in 1..Len(messages) \/ out'[messages'[i].via].id = i
<1>a. messages \in Seq(Rows) /\ Len(messages) \in Nat /\ out \in [Conns -> Frames]
  BY LenProperties DEF IndInv, TypeOK
<1>1. CASE UNCHANGED messages
  BY <1>a, <1>1, SameRowsKept
<1>2. ASSUME NEW u, NEW o, MarkConversationAsRead(u, o)
      PROVE  Goal
  BY <1>a, <1>2, MarkKeepsRows
<1>3. ASSUME NEW c \in Conns, ReadPump(c)
      PROVE  Goal
  <2>1. ASSUME NEW u \in Users, ReadChat(c, u) \/ ReadChatUnknown(c, u)
        PROVE  Goal
    <3>1. /\ RowsKept /\ Len(messages') = Len(messages) + 1
          /\ messages'[Len(messages) + 1].via = c
      BY <1>a, <2>1, ChatKeepsRows DEF ReadChat, ReadChatUnknown, CreateMessage
    <3>2. out'[c].id = Len(messages) + 1
      BY <1>a, <2>1 DEF ReadChat, ReadChatUnknown, CreateMessage, Frame
    <3> QED
      BY <1>a, <3>1, <3>2
  <2>2. ASSUME NEW i \in 1..Len(messages), ReadReceipt(c, i)
        PROVE  Goal
    BY <1>a, <2>2, ReceiptKeepsRows DEF ReadReceipt
  <2>3. ASSUME NEW u \in Users, ReadTyping(c, u)
        PROVE  Goal
    BY <1>1, <2>3 DEF ReadTyping
  <2>4. CASE ReadAnswered(c) \/ Deliver(c) \/ Reply(c) \/ ReadError(c) \/ CloseConn(c)
    BY <1>1, <2>4 DEF ReadAnswered, Deliver, Reply, ReadError, CloseConn
  <2> QED
    BY <1>3, <2>1, <2>2, <2>3, <2>4 DEF ReadPump
<1>4. ASSUME NEW c \in Conns, SendOfflineMessages(c)
      PROVE  Goal
  BY <1>1, <1>2, <1>4 DEF SendOfflineMessages, OfflineQuery, OfflineQueryEmpty, Halt,
       OfflineQueryError, OfflineMark, OfflineSkip, OfflinePush, OfflinePushClosed
<1>5. CASE HubStep \/ HubStop \/ Crash \/ Restart \/ UNCHANGED vars
  BY <1>1, <1>5 DEF HubStep, HubStop, HubAdd, HubSetOnline, HubRemove, HubRemoveAbsent,
                    HubSetOffline, HubSelect, Crash, Halt, Restart
<1>6. ASSUME NEW c \in Conns,
             Connect(c) \/ HubRegister(c) \/ HubUnregister(c) \/ ConnDrop(c) \/ WritePump(c)
      PROVE  Goal
  BY <1>1, <1>6 DEF Connect, HubRegister, HubUnregister, ConnDrop, WritePump, WriterFlush,
       WriterFail, WriterPingFail, WriterClosed
<1>7. ASSUME NEW u \in Users, NEW o \in Users, RestMarkConversation(u, o)
      PROVE  Goal
  BY <1>2, <1>7 DEF RestMarkConversation
<1> QED
  BY <1>3, <1>4, <1>5, <1>6, <1>7 DEF Next

\* A WritePump is started once, before its connection stores anything.
LEMMA WriterStep ==
  ASSUME IndInv, [Next]_vars, NEW c \in Conns, writer'[c] = "running"
  PROVE  writer[c] = "running" \/ (reader[c] = "registering" /\ UNCHANGED messages)
<1> USE DEF vars, process, registry, channels, pumps, backlog, stores
<1> DEFINE Goal == writer[c] = "running" \/ (reader[c] = "registering" /\ UNCHANGED messages)
<1>a. writer \in [Conns -> {"idle", "running", "gone"}]
  BY DEF IndInv, TypeOK
<1>1. CASE UNCHANGED writer
  BY <1>1
<1>2. ASSUME NEW why, Halt(why)
      PROVE  Goal
  BY <1>2 DEF Halt
<1>3. ASSUME NEW d \in Conns, ReadPump(d)
      PROVE  Goal
  BY <1>1, <1>3 DEF ReadPump, ReadChat, ReadChatUnknown, CreateMessage, ReadTyping, ReadReceipt, ReadAnswered, Deliver,
       Reply, ReadError, CloseConn
<1>4. ASSUME NEW d \in Conns, SendOfflineMessages(d)
      PROVE  Goal
  BY <1>1, <1>2, <1>4 DEF SendOfflineMessages, OfflineQuery, OfflineQueryEmpty,
       OfflineQueryError, OfflineMark, OfflineSkip, OfflinePush, OfflinePushClosed
<1>5. CASE HubStep \/ HubStop \/ Restart \/ UNCHANGED vars
  BY <1>1, <1>5 DEF HubStep, HubStop, HubAdd, HubSetOnline, HubRemove, HubRemoveAbsent,
                    HubSetOffline, HubSelect, Restart
<1>6. ASSUME NEW d \in Conns, Connect(d) \/ HubUnregister(d) \/ ConnDrop(d)
      PROVE  Goal
  BY <1>1, <1>6 DEF Connect, HubUnregister, ConnDrop
<1>7. ASSUME NEW d \in Conns, HubRegister(d)
      PROVE  Goal
  BY <1>a, <1>7 DEF HubRegister
<1>8. ASSUME NEW d \in Conns, WritePump(d)
      PROVE  Goal
  BY <1>a, <1>8 DEF WritePump, WriterFlush, WriterFail, WriterPingFail, WriterClosed,
       WriterExit
<1>9. ASSUME NEW u \in Users, NEW o \in Users, RestMarkConversation(u, o)
      PROVE  Goal
  BY <1>1, <1>9 DEF RestMarkConversation
<1> QED
  BY <1>2, <1>3, <1>4, <1>5, <1>6, <1>7, <1>8, <1>9 DEF Next, Crash

\* Every action keeps the stored messages answered.
LEMMA AnsweredStep ==
  ASSUME IndInv, StoredIsAnswered, [Next]_vars
  PROVE  StoredIsAnswered'
<1> SUFFICES ASSUME NEW c \in Conns, writer'[c] = "running",
                    NEW i \in 1..Len(messages'), messages'[i].via = c
             PROVE  out'[c].id = i \/ \E t \in Answers : Frame(t, i) \in RowFrames(c)'
  BY DEF StoredIsAnswered
<1>0. /\ send[c] \in Seq(Frames)
      /\ reader[c] \in {"idle", "registering"} =>
           \A j \in 1..Len(messages) : messages[j].via # c
  BY DEF IndInv, TypeOK, NoAnswerOwed
<1>1. CASE i \notin 1..Len(messages)
  BY <1>1, RowStep
<1>2. CASE i \in 1..Len(messages)
  <2>1. messages[i].via = c /\ i # 0
    BY <1>2, RowStep DEF RowsKept
  <2>2. writer[c] = "running"
    BY <1>0, <1>2, <2>1, WriterStep
  <2>3. RowFrames(c) \subseteq RowFrames(c)'
    <3>1. CASE Untouched(c)
      BY <3>1 DEF Untouched, RowFrames
    <3>2. CASE Flushed(c)
      BY <3>2 DEF Flushed, RowFrames
    <3>3. ASSUME NEW f \in Frames, Queued(c, f)
          PROVE  RowFrames(c) \subseteq RowFrames(c)'
      BY <1>0, <3>3, FramesOfAppend DEF Queued, RowFrames
    <3>4. ~Lost(c)
      BY DEF Lost
    <3> QED
      BY <3>1, <3>2, <3>3, <3>4, ChannelStep
  <2>4. CASE \E t \in Answers : Frame(t, i) \in RowFrames(c)
    BY <2>3, <2>4
  <2>5. CASE out[c].id = i
    <3>1. \A t \in Answers : Frame(t, i).id = i
      BY DEF Frame
    <3>2. \A t \in Answers : Frame(t, i) \in FramesIn(send'[c])
                             => Frame(t, i) \in RowFrames(c)'
      BY <2>1, <3>1 DEF RowFrames
    <3> QED
      BY <2>1, <2>5, <3>2, OutStep
  <2> QED
    BY <1>2, <2>1, <2>2, <2>4, <2>5 DEF StoredIsAnswered
<1> QED
  BY <1>1, <1>2

------------------------------------------------------------------------------
(* The theorems *)

\* What is queued and what is still to be sent fit together in every state.
THEOREM DeliveryInvariant == Spec => []DeliveryInv
<1>1. Init => DeliveryInv
  <2>1. ASSUME Init, NEW c \in Conns
        PROVE  InOrder(c) /\ StillToSend(c)
    <3>1. send[c] = <<>> /\ wrote[c] = {} /\ RowFrames(c) = {}
      BY <2>1, FramesOfEmpty DEF Init, RowFrames
    <3>2. Len(send[c]) = 0 /\ FramesIn(send[c]) = {}
      BY <3>1, EmptySeq, FramesOfEmpty
    <3>3. InOrder(c)
      BY <3>2 DEF InOrder, Once, Ordered, AboutRows
    <3>4. out[c].type # "chat" /\ batch[c] = {}
      BY <2>1 DEF Init, NoFrame, Frame
    <3> QED
      BY <3>1, <3>3, <3>4 DEF StillToSend
  <2>2. Init => BacklogStartsOnce /\ OneAnswer
    BY EmptySeq DEF Init, BacklogStartsOnce, OneAnswer
  <2> QED
    BY <2>1, <2>2, DeliveryParts
<1>2. IndInv /\ DeliveryInv /\ [Next]_vars => DeliveryInv'
  BY DeliveryStep
<1> QED
  BY <1>1, <1>2, HubInvariant, PTL DEF Spec

\* hub.go:182-203, handlers/websocket.go:92-131: a connection gets no message
\* twice the same way, whatever goroutines push to it.
THEOREM NothingTwice == Spec => []SentOnce
<1>1. DeliveryInv => SentOnce
  BY DEF DeliveryInv
<1> QED
  BY <1>1, DeliveryInvariant, PTL

\* hub.go:127-140 and 253-274: live messages of one sender are queued and
\* written in the order they were stored.
THEOREM LiveInOrder == Spec => []LiveOrder
<1>1. DeliveryInv => LiveOrder
  BY DEF DeliveryInv
<1> QED
  BY <1>1, DeliveryInvariant, PTL

\* hub.go:83-98: no frame is ever added to a closed channel.
THEOREM ClosedStaysClosed == Spec => NothingAfterClose
<1> DEFINE Kept == \A c \in Conns : closed[c] /\ closed'[c] => Len(send'[c]) <= Len(send[c])
<1>1. IndInv /\ [Next]_vars => Kept
  BY ClosedStep
<1> HIDE DEF Kept
<1>2. Spec => [][Kept]_vars
  BY <1>1, HubInvariant, PTL DEF Spec
<1> QED
  BY <1>2 DEF NothingAfterClose, Kept

\* handlers/websocket.go:92-128: a backlog reaches its connection oldest first,
\* whatever is pushed, answered, flushed or lost in between.
THEOREM BacklogInOrder == Spec => []OldestFirst
<1>1. Init => OldestFirst
  <2>1. ASSUME Init, NEW c \in Conns
        PROVE  Ascending(c) /\ Ahead(c)
    <3>1. Len(send[c]) = 0 /\ batch[c] = {}
      BY <2>1, EmptySeq DEF Init
    <3> QED
      BY <3>1 DEF Ascending, Ahead
  <2> QED
    BY <2>1 DEF OldestFirst, Ascending, Ahead
<1>2. IndInv /\ DeliveryInv /\ OldestFirst /\ [Next]_vars => OldestFirst'
  BY OldestStep
<1> QED
  BY <1>1, <1>2, HubInvariant, DeliveryInvariant, PTL DEF Spec

\* hub.go:172-202: no stored message goes without its answer while the WritePump
\* of its connection runs, however full the channels are.
THEOREM EveryMessageIsAnswered == Spec => []StoredIsAnswered
<1>1. Init => StoredIsAnswered
  BY DEF Init, StoredIsAnswered
<1>2. IndInv /\ StoredIsAnswered /\ [Next]_vars => StoredIsAnswered'
  BY AnsweredStep
<1> QED
  BY <1>1, <1>2, HubInvariant, PTL DEF Spec
=============================================================================
