-------------------------------- MODULE MCHub --------------------------------
(* Small instances of Hub: the users, and which of them dialled each         *)
(* connection.                                                               *)
EXTENDS Hub, TLC

CONSTANTS alice, bob, a1, a2, a3, b1

\* One user whose phone, tablet and laptop come and go.
OneUser == {alice}
ThreeConns == {a1, a2, a3}
OwnedByOne == a1 :> alice @@ a2 :> alice @@ a3 :> alice

\* One user with two of them.
TwoAlike == {a1, a2}
OwnedByOne2 == a1 :> alice @@ a2 :> alice

OneConn == {a1}
OwnedOnce == a1 :> alice

\* Two users who talk to each other.
TwoUsers == {alice, bob}
TwoConns == {a1, b1}
OwnedByTwo == a1 :> alice @@ b1 :> bob

\* Two users, one of whom reconnects.
Reconnects == {a1, b1, a2}
OwnedReconnecting == a1 :> alice @@ b1 :> bob @@ a2 :> alice

\* Readings of the sender look-up (see Hub, SenderFound).
AsMeant == {TRUE}
AsWritten == {FALSE}
EitherWay == BOOLEAN

\* The connections of one user are interchangeable.
Symmetry == Permutations(ThreeConns)

\* Two users with a connection each change roles together with it.
ChangedRoles ==
  {f \in Permutations(TwoUsers \union TwoConns) :
     \A c \in TwoConns : f[c] \in TwoConns /\ OwnedByTwo[f[c]] = f[OwnedByTwo[c]]}
=============================================================================
