------------------------------ MODULE FileShare ------------------------------
(***************************************************************************)
(* What the file service promises, without the requests, the upload map,   *)
(* the chunk marks, the errors and the crashes of Uploads: an upload has   *)
(* one owner and one length for good; its chunks are kept under the        *)
(* owner's path and inside that length; only an abort takes them away; and *)
(* a file is announced in its owner's name with every chunk stored.        *)
(***************************************************************************)
EXTENDS Integers, Sequences

CONSTANTS Users, Ids, None

VARIABLES
  owner,      \* who opened the upload, None before
  count,      \* the number of its chunks
  objects,    \* the chunks stored, by <<owner, upload, index>>
  announced,  \* the file messages
  aborted     \* the uploads given up

share == <<owner, count, objects, announced, aborted>>

Indices(i) == 0..(count[i] - 1)

Init ==
  /\ owner = [i \in Ids |-> None]
  /\ count = [i \in Ids |-> 0]
  /\ objects = {}
  /\ announced = <<>>
  /\ aborted = {}

Open(u, i) ==
  /\ owner[i] = None
  /\ owner' = [owner EXCEPT ![i] = u]
  /\ count'[i] \in Nat \ {0}
  /\ count' = [count EXCEPT ![i] = count'[i]]
  /\ UNCHANGED <<objects, announced, aborted>>

Store(i, k) ==
  /\ objects' = objects \union {<<owner[i], i, k>>}
  /\ UNCHANGED <<owner, count, announced, aborted>>

Complete(i) == \A k \in Indices(i) : <<owner[i], i, k>> \in objects

Announce(i, u) ==
  /\ owner[i] # None
  /\ i \notin aborted => Complete(i)
  /\ announced' = Append(announced, [id |-> i, from |-> owner[i], to |-> u])
  /\ UNCHANGED <<owner, count, objects, aborted>>

Abort(i) ==
  /\ owner[i] # None
  /\ aborted' = aborted \union {i}
  /\ UNCHANGED <<owner, count, objects, announced>>

Remove(i, k) ==
  /\ i \in aborted
  /\ objects' = objects \ {<<owner[i], i, k>>}
  /\ UNCHANGED <<owner, count, announced, aborted>>

Next ==
  \E i \in Ids :
    \/ \E u \in Users : Open(u, i) \/ Announce(i, u)
    \/ \E k \in Indices(i) : Store(i, k) \/ Remove(i, k)
    \/ Abort(i)

Spec == Init /\ [][Next]_share
=============================================================================
