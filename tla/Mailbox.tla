------------------------------- MODULE Mailbox -------------------------------
(***************************************************************************)
(* What the message service promises, without connections' goroutines,     *)
(* channels, registry or crashes: messages are posted, never altered and   *)
(* never lost; only their receiver turns them read; and a connection is    *)
(* only ever handed frames about posted messages that concern it.          *)
(***************************************************************************)
EXTENDS Naturals, Sequences

CONSTANTS Users, Conns, Owner

VARIABLES
  rows,      \* the posted messages
  handed     \* the frames about messages each connection was handed and not lost

mailbox == <<rows, handed>>

Pushes == {"chat", "offline_message"}
Answers == {"message_sent", "error"}

\* A push goes to a connection of the receiver, an answer to the sender's.
Concerns(c, f) ==
  \/ f.type \in Pushes /\ rows[f.id].to = Owner[c]
  \/ f.type \in Answers /\ rows[f.id].via = c

Init == rows = <<>> /\ handed = [c \in Conns |-> {}]

Post(c, u) ==
  /\ rows' = Append(rows, [from |-> Owner[c], to |-> u, is_read |-> FALSE, via |-> c])
  /\ UNCHANGED handed

Hand(c, f) ==
  /\ f \notin handed[c]
  /\ Concerns(c, f)
  /\ handed' = [handed EXCEPT ![c] = @ \union {f}]
  /\ UNCHANGED rows

\* What was queued and not yet written dies with its connection.
Lose ==
  /\ handed' = [c \in Conns |-> handed[c] \intersect handed'[c]]
  /\ UNCHANGED rows

\* u turns messages it received, all from the same sender, to read.
Read(u, o) ==
  /\ DOMAIN rows' = DOMAIN rows
  /\ \A i \in DOMAIN rows :
       \/ rows'[i] = rows[i]
       \/ /\ rows[i].to = u /\ rows[i].from = o
          /\ rows'[i] = [rows[i] EXCEPT !.is_read = TRUE]
  /\ UNCHANGED handed

Next ==
  \/ \E c \in Conns, u \in Users : Post(c, u)
  \/ \E c \in Conns, i \in DOMAIN rows, t \in Pushes \union Answers :
       Hand(c, [type |-> t, id |-> i])
  \/ Lose
  \/ \E u, o \in Users : Read(u, o)

Spec == Init /\ [][Next]_mailbox
=============================================================================
