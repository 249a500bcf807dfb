------------------------------ MODULE ChatSocket ------------------------------
(***************************************************************************)
(* The app's WebSocket service (chat_websocket_service.dart) under the     *)
(* screens that use it: sign-in connects, sign-out disconnects.  The event *)
(* loop runs one callback at a time; a callback is an action.              *)
(*                                                                         *)
(* Every dial makes a WebSocketChannel whose listeners are never           *)
(* cancelled, so a channel that was replaced still calls back.  A link is  *)
(* such a channel; it is used again once it has called back for the last   *)
(* time.  Delays are not modelled: a timer that is armed may fire.         *)
(*                                                                         *)
(* _token is the one of the last sign-in: it is set by connect and never   *)
(* cleared, so the test of _establishConnection for it always passes, and  *)
(* never renewed.  Tokens live equally long (24 hours, main.go:229), so    *)
(* they expire in the order of the sign-ins they come from.                *)
(***************************************************************************)
EXTENDS Naturals, FiniteSets

CONSTANTS
  Links,          \* the channels that exist at the same time (a bound)
  MaxReconnectAttempts,
  MaxSignIns,     \* bound on the sign-ins
  MaxFaults,      \* bound on the failures of the network and the server
  None

ASSUME ChatSocketAssumption ==
  /\ IsFiniteSet(Links)
  /\ MaxReconnectAttempts \in Nat \ {0}
  /\ MaxSignIns \in Nat
  /\ MaxFaults \in Nat
  /\ None \notin Links

VARIABLES
  screen,         \* the user is signed "in", "leaving" (disconnect waits) or "out"
  state,          \* _state
  channel,        \* _channel
  attempts,       \* _reconnectAttempts
  timer,          \* _reconnectTimer is armed
  pinging,        \* _pingTimer is armed
  dials,          \* the platform takes the configured URL, or throws at each dial
  link,           \* what each channel is about to do
  offers,         \* the sign-in whose token its handshake offers, 0 without one
  expired,        \* the tokens of the first so many sign-ins have expired
  signIns,        \* counts the sign-ins
  faults          \* counts the failures

service == <<state, channel, attempts, timer, pinging>>
wire == <<link, offers>>
vars == <<screen, service, dials, wire, expired, signIns, faults>>

LinkState == {"free", "dialling", "open", "failed", "errored", "ended", "closing"}

\* The done event of an error follows in the same turn of the event loop.
Turn == \A l \in Links : link[l] # "errored"

Live(l) == link[l] \in {"dialling", "open"}

\* The next of a channel; a handshake it was making is over.
Goes(l, s) ==
  /\ link' = [link EXCEPT ![l] = s]
  /\ offers' = [offers EXCEPT ![l] = 0]

------------------------------------------------------------------------------
(* The steps the callbacks are made of *)

\* Mutants: the counter is only reset by connect; the new channel is not kept.
DialAgain(l) ==
  /\ link[l] = "free"
  /\ link' = [link EXCEPT ![l] = "dialling"]
  /\ offers' = [offers EXCEPT ![l] = signIns']
  /\ channel' = l
  /\ state' = "connected"
  /\ pinging' = TRUE
  /\ UNCHANGED attempts

DialUnkept(l) ==
  /\ link[l] = "free"
  /\ link' = [link EXCEPT ![l] = "dialling"]
  /\ offers' = [offers EXCEPT ![l] = signIns']
  /\ state' = "connected"
  /\ attempts' = 0
  /\ pinging' = TRUE
  /\ UNCHANGED channel

\* The try of _establishConnection: the state is "connected", and the attempts
\* are forgotten, before the handshake.
Dial(l) ==
  /\ link[l] = "free"
  /\ link' = [link EXCEPT ![l] = "dialling"]
  /\ offers' = [offers EXCEPT ![l] = signIns']
  /\ channel' = l
  /\ state' = "connected"
  /\ attempts' = 0
  /\ pinging' = TRUE

\* Mutants: one attempt too many; the timer is cancelled before the attempts are
\* looked at.
OneTooMany(n, armed) ==
  \/ /\ n > MaxReconnectAttempts
     /\ state' = "disconnected" /\ attempts' = n /\ timer' = armed
  \/ /\ n <= MaxReconnectAttempts
     /\ state' = "reconnecting" /\ attempts' = n + 1 /\ timer' = TRUE

CancelFirst(n, armed) ==
  \/ /\ n >= MaxReconnectAttempts
     /\ state' = "disconnected" /\ attempts' = n /\ timer' = FALSE
  \/ /\ n < MaxReconnectAttempts
     /\ state' = "reconnecting" /\ attempts' = n + 1 /\ timer' = TRUE

\* The state is "disconnected", then _scheduleReconnect, after n attempts and
\* with the timer armed or not.
ScheduleReconnect(n, armed) ==
  \/ /\ n >= MaxReconnectAttempts
     /\ state' = "disconnected" /\ attempts' = n /\ timer' = armed
  \/ /\ n < MaxReconnectAttempts
     /\ state' = "reconnecting" /\ attempts' = n + 1 /\ timer' = TRUE

\* _establishConnection: a dial, or its catch, which leaves the attempts.
EstablishConnection(l, n, armed) ==
  \/ /\ dials
     /\ Dial(l)
     /\ timer' = armed
  \/ /\ ~dials
     /\ ScheduleReconnect(n, armed)
     /\ UNCHANGED <<wire, channel, pinging>>

------------------------------------------------------------------------------
(* The screens *)

\* The splash or the sign-in screen: connect(token).
Connect(l) ==
  /\ Turn
  /\ screen = "out"
  /\ signIns < MaxSignIns
  /\ signIns' = signIns + 1
  /\ EstablishConnection(l, 0, timer)
  /\ screen' = "in"
  /\ UNCHANGED <<dials, expired, faults>>

\* Sign-out: disconnect, up to its await of the close.
Disconnect ==
  /\ Turn
  /\ screen = "in"
  /\ screen' = "leaving"
  /\ timer' = FALSE
  /\ pinging' = FALSE
  /\ IF channel # None /\ Live(channel)
     THEN Goes(channel, "closing") ELSE UNCHANGED wire
  /\ UNCHANGED <<state, channel, attempts, dials, expired, signIns, faults>>

\* The rest of disconnect.  The channel it forgets is the one _channel names by
\* then.
Disconnected ==
  /\ Turn
  /\ screen = "leaving"
  /\ \A l \in Links : link[l] # "closing"
  /\ screen' = "out"
  /\ channel' = None
  /\ state' = "disconnected"
  /\ UNCHANGED <<attempts, timer, pinging, dials, wire, expired, signIns, faults>>

------------------------------------------------------------------------------
(* The timer and the callbacks of a channel *)

\* Mutant: the timer stays armed.
TimerKept(l) ==
  /\ Turn
  /\ timer
  /\ UNCHANGED <<screen, dials, expired, signIns, faults>>
  /\ EstablishConnection(l, attempts, TRUE)

TimerFires(l) ==
  /\ Turn
  /\ timer
  /\ UNCHANGED <<screen, dials, expired, signIns, faults>>
  /\ EstablishConnection(l, attempts, FALSE)

OnError(l) ==
  /\ Turn
  /\ link[l] = "failed"
  /\ Goes(l, "errored")
  /\ ScheduleReconnect(attempts, timer)
  /\ UNCHANGED <<screen, channel, pinging, dials, expired, signIns, faults>>

OnDone(l) ==
  /\ \/ link[l] = "errored"
     \/ link[l] = "ended" /\ Turn
  /\ Goes(l, "free")
  /\ ScheduleReconnect(attempts, timer)
  /\ UNCHANGED <<screen, channel, pinging, dials, expired, signIns, faults>>

------------------------------------------------------------------------------
(* The network and the server *)

Becomes(l, s) == Goes(l, s) /\ UNCHANGED <<screen, service, dials, expired, signIns>>

\* Time passes, and a token that was issued expires.
Expire ==
  /\ expired < signIns
  /\ expired' = expired + 1
  /\ UNCHANGED <<screen, service, dials, wire, signIns, faults>>

\* The server looks at the token of the handshake, and not again afterwards.
Accept(l) ==
  /\ link[l] = "dialling"
  /\ offers[l] > expired
  /\ Becomes(l, "open")
  /\ UNCHANGED faults

Refuse(l) ==
  /\ link[l] = "dialling"
  /\ offers[l] <= expired
  /\ Becomes(l, "failed")
  /\ UNCHANGED faults

\* The handshake or the open socket fails: an error, then done.
Fail(l) ==
  /\ Live(l)
  /\ faults < MaxFaults
  /\ faults' = faults + 1
  /\ Becomes(l, "failed")

\* The server or the network ends the open socket.
End(l) ==
  /\ link[l] = "open"
  /\ faults < MaxFaults
  /\ faults' = faults + 1
  /\ Becomes(l, "ended")

\* The close of disconnect is over, and the channel will say so.
Close(l) == link[l] = "closing" /\ Becomes(l, "ended") /\ UNCHANGED faults

------------------------------------------------------------------------------
Init ==
  /\ screen = "out"
  /\ state = "disconnected"
  /\ channel = None
  /\ attempts = 0
  /\ timer = FALSE
  /\ pinging = FALSE
  /\ dials \in BOOLEAN
  /\ link = [l \in Links |-> "free"]
  /\ offers = [l \in Links |-> 0]
  /\ expired = 0
  /\ signIns = 0
  /\ faults = 0

Callback(l) == TimerFires(l) \/ OnError(l) \/ OnDone(l)

Network(l) == Accept(l) \/ Refuse(l) \/ Fail(l) \/ End(l) \/ Close(l)

Next ==
  \/ Disconnect \/ Disconnected \/ Expire
  \/ \E l \in Links : Connect(l) \/ Callback(l) \/ Network(l)

Spec == Init /\ [][Next]_vars

\* The event loop runs every callback that is due and every timer; a handshake
\* that nothing disturbs is answered, as its token deserves, and a close is over
\* in the end.
Fairness ==
  /\ WF_vars(Disconnected)
  /\ WF_vars(\E l \in Links : TimerFires(l))
  /\ \A l \in Links :
       /\ WF_vars(OnError(l)) /\ WF_vars(OnDone(l))
       /\ WF_vars(Accept(l) \/ Refuse(l)) /\ WF_vars(Close(l))

FairSpec == Spec /\ Fairness

------------------------------------------------------------------------------
(* Properties *)

\* Every variable holds a value of its type.
TypeOK ==
  /\ screen \in {"in", "leaving", "out"}
  /\ state \in {"disconnected", "connected", "reconnecting"}
  /\ channel \in Links \union {None}
  /\ attempts \in 0..MaxReconnectAttempts
  /\ timer \in BOOLEAN
  /\ pinging \in BOOLEAN
  /\ dials \in BOOLEAN
  /\ link \in [Links -> LinkState]
  /\ offers \in [Links -> Nat]
  /\ expired \in 0..signIns
  /\ signIns \in Nat
  /\ faults \in Nat

\* The catch of each dial has counted an attempt and none is left.
GaveUp == ~dials /\ attempts = MaxReconnectAttempts

\* chat_websocket_service.dart:123-125 and 165-195: while the user is signed in
\* something is still to come that connects again or tells of the loss: an armed
\* timer, or a callback of the channel in use.  The bound on the attempts ends
\* this only where every dial throws.
NeverStranded ==
  screen = "in" =>
    \/ timer
    \/ channel # None /\ link[channel] \in {"dialling", "open", "failed", "errored", "ended"}
    \/ GaveUp

InUse == {l \in Links : link[l] # "free"}

\* chat_websocket_service.dart:179-195: channels that have not called back for
\* the last time, and the timer that would make one more, are never more than
\* the sign-ins: a lost connection is replaced once, whatever its callbacks do
\* to each other's timers.
SocketsBounded ==
  Turn => Cardinality(InUse) + (IF timer THEN 1 ELSE 0) <= signIns

\* chat_websocket_service.dart:102-126: until the first sign-out a socket that is
\* dialled or open is the one the service sends on, it is pinged, and the state
\* shown is "connected".
OneSocket ==
  signIns = 1 /\ screen = "in" =>
    \A l \in Links : Live(l) => l = channel /\ state = "connected" /\ pinging

\* What the properties above rest on: an attempt that is counted has armed the
\* timer, and the callbacks of one failure at a time are being made.
AttemptsArmed == screen = "in" /\ attempts > 0 => timer \/ GaveUp

OneTurn ==
  /\ \A l, k \in Links : link[l] = "errored" /\ link[k] = "errored" => l = k
  /\ Cardinality(InUse) <= signIns

\* Where no dial succeeds there is no channel, and a visit begins with an attempt.
NothingDialled == ~dials => InUse = {} /\ (screen = "in" => attempts > 0)

\* The inductive invariant of ChatSocketProofs.
IndInv ==
  /\ TypeOK /\ NeverStranded /\ SocketsBounded /\ OneSocket
  /\ AttemptsArmed /\ OneTurn /\ NothingDialled

Connected == state = "connected" /\ channel # None /\ link[channel] = "open"

TokenExpired == expired = signIns

\* chat_websocket_service.dart:109 and 179-195: whoever stays signed in is
\* connected again in the end, however many attempts failed, as long as the token
\* of the sign-in has not expired: nothing renews it, and from then on every
\* handshake of the visit is refused.
Reconnects ==
  screen = "in" /\ dials ~> (Connected \/ screen # "in" \/ TokenExpired)
=============================================================================
