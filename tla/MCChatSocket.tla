----------------------------- MODULE MCChatSocket -----------------------------
(* A small instance of ChatSocket. *)
EXTENDS ChatSocket, TLC

CONSTANTS l1, l2, l3, l4

\* One link more than there are sign-ins: by SocketsBounded a dial always finds
\* a free one.
FourLinks == {l1, l2, l3, l4}
=============================================================================
