----------------------------- MODULE Directory -----------------------------
(***************************************************************************)
(* What the accounts, keys and sessions of the API amount to: a directory  *)
(* that is only ever added to, one entry at a time.  An app knows the key  *)
(* of a peer only once the pair has a session and the peer's key is there. *)
(***************************************************************************)
CONSTANT Names

VARIABLES accounts, published, sessions, known

vars == <<accounts, published, sessions, known>>

Init ==
  /\ accounts = {}
  /\ published = {}
  /\ sessions = {}
  /\ known = {}

Enroll(u) ==
  /\ u \notin accounts
  /\ accounts' = accounts \union {u}
  /\ UNCHANGED <<published, sessions, known>>

Publish(u) ==
  /\ u \in accounts
  /\ published' = published \union {u}
  /\ UNCHANGED <<accounts, sessions, known>>

Pair(u, v) ==
  /\ u # v
  /\ {u, v} \subseteq accounts
  /\ <<u, v>> \notin sessions
  /\ sessions' = sessions \union {<<u, v>>}
  /\ UNCHANGED <<accounts, published, known>>

Learn(u, v) ==
  /\ <<u, v>> \in sessions \ known
  /\ v \in published
  /\ known' = known \union {<<u, v>>}
  /\ UNCHANGED <<accounts, published, sessions>>

Next ==
  \E u \in Names :
    \/ Enroll(u)
    \/ Publish(u)
    \/ \E v \in Names : Pair(u, v) \/ Learn(u, v)

Spec == Init /\ [][Next]_vars
=============================================================================
