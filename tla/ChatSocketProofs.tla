--------------------------- MODULE ChatSocketProofs ---------------------------
(***************************************************************************)
(* The safety of ChatSocket for any number of links, attempts, sign-ins    *)
(* and faults.                                                             *)
(***************************************************************************)
EXTENDS ChatSocket, FiniteSetTheorems, TLAPS

USE ChatSocketAssumption

------------------------------------------------------------------------------
(* Counting the links in use *)

LEMMA InUseFinite ==
  /\ IsFiniteSet(InUse)
  /\ Cardinality(InUse) \in Nat
<1>1. InUse \in SUBSET Links
  BY DEF InUse
<1> QED
  BY <1>1, FS_Subset, FS_CardinalityType

\* Two links in use are two of them.
LEMMA TwoInUse ==
  ASSUME NEW l \in InUse, NEW k \in InUse, l # k
  PROVE  Cardinality(InUse) > 1
<1>1. IsFiniteSet(InUse \ {l}) /\ Cardinality(InUse \ {l}) = Cardinality(InUse) - 1
  BY InUseFinite, FS_RemoveElement
<1>2. Cardinality(InUse \ {l}) \in Nat /\ InUse \ {l} # {}
  BY <1>1, FS_CardinalityType
<1>3. Cardinality(InUse \ {l}) # 0
  BY <1>1, <1>2, FS_EmptySet
<1> QED
  BY <1>1, <1>2, <1>3, InUseFinite

LEMMA OneInUse ==
  ASSUME NEW l \in InUse
  PROVE  Cardinality(InUse) > 0
BY InUseFinite, FS_EmptySet

\* A dial takes a link into use.
LEMMA DialCounts ==
  ASSUME TypeOK, NEW l \in Links, Dial(l)
  PROVE  /\ Cardinality(InUse') = Cardinality(InUse) + 1
         /\ InUse' = InUse \union {l}
<1>1. InUse' = InUse \union {l} /\ l \notin InUse
  BY DEF TypeOK, Dial, InUse
<1> QED
  BY <1>1, InUseFinite, FS_AddElement

\* The last callback of a link gives it back.
LEMMA DoneCounts ==
  ASSUME TypeOK, NEW l \in Links, OnDone(l)
  PROVE  /\ Cardinality(InUse') = Cardinality(InUse) - 1
         /\ InUse' = InUse \ {l} /\ l \in InUse
<1>1. InUse' = InUse \ {l} /\ l \in InUse
  BY DEF TypeOK, OnDone, Goes, InUse
<1> QED
  BY <1>1, InUseFinite, FS_RemoveElement

\* Any other change of a link in use leaves the count.
LEMMA SameCount ==
  ASSUME TypeOK, NEW l \in InUse, NEW s \in LinkState \ {"free"}, Goes(l, s)
  PROVE  InUse' = InUse
BY DEF TypeOK, Goes, InUse

------------------------------------------------------------------------------
(* The steps *)

\* Scheduling counts no attempt beyond the bound.
LEMMA ScheduleType ==
  ASSUME NEW n \in 0..MaxReconnectAttempts, NEW armed \in BOOLEAN, ScheduleReconnect(n, armed)
  PROVE  /\ attempts' \in 0..MaxReconnectAttempts
         /\ timer' \in BOOLEAN
         /\ state' \in {"disconnected", "reconnecting"}
<1>1. CASE n >= MaxReconnectAttempts
  <2>1. state' = "disconnected" /\ attempts' = n /\ timer' = armed
    BY <1>1 DEF ScheduleReconnect
  <2> QED
    BY <2>1
<1>2. CASE n < MaxReconnectAttempts
  <2>1. state' = "reconnecting" /\ attempts' = n + 1 /\ timer' = TRUE
    BY <1>2 DEF ScheduleReconnect
  <2> QED
    BY <1>2, <2>1
<1> QED
  BY <1>1, <1>2

\* Both outcomes of _establishConnection leave the service of its type.
LEMMA EstablishType ==
  ASSUME TypeOK, NEW l \in Links, NEW n \in 0..MaxReconnectAttempts, NEW armed \in BOOLEAN,
         signIns' \in Nat, EstablishConnection(l, n, armed)
  PROVE  /\ state' \in {"disconnected", "connected", "reconnecting"}
         /\ channel' \in Links \union {None} /\ attempts' \in 0..MaxReconnectAttempts
         /\ timer' \in BOOLEAN /\ pinging' \in BOOLEAN
         /\ link' \in [Links -> LinkState] /\ offers' \in [Links -> Nat]
<1>1. CASE Dial(l) /\ timer' = armed
  BY <1>1 DEF Dial, TypeOK, LinkState
<1>2. CASE ScheduleReconnect(n, armed) /\ UNCHANGED <<wire, channel, pinging>>
  BY <1>2, ScheduleType DEF wire, TypeOK
<1> QED
  BY <1>1, <1>2 DEF EstablishConnection

\* Each action leaves the variables of their types.
LEMMA TypeStep ==
  ASSUME TypeOK, [Next]_vars
  PROVE  TypeOK'
<1> USE DEF TypeOK
<1>a. ASSUME NEW l \in Links, NEW s \in LinkState, Goes(l, s)
      PROVE  link' \in [Links -> LinkState] /\ offers' \in [Links -> Nat]
  BY <1>a DEF Goes
<1>b. ASSUME ScheduleReconnect(attempts, timer)
      PROVE  /\ attempts' \in 0..MaxReconnectAttempts
             /\ timer' \in BOOLEAN
             /\ state' \in {"disconnected", "reconnecting"}
  BY <1>b, ScheduleType
<1>1. CASE Disconnect
  <2>1. link' \in [Links -> LinkState] /\ offers' \in [Links -> Nat]
    <3>1. CASE UNCHANGED wire
      BY <3>1 DEF wire
    <3>2. CASE channel # None /\ Goes(channel, "closing")
      BY <3>2, <1>a DEF LinkState
    <3> QED
      BY <1>1, <3>1, <3>2 DEF Disconnect
  <2> QED
    BY <1>1, <2>1 DEF Disconnect
<1>2. CASE Disconnected
  BY <1>2 DEF Disconnected, wire
<1>3. ASSUME NEW l \in Links, Connect(l) PROVE TypeOK'
  <2>1. /\ EstablishConnection(l, 0, timer) /\ screen' = "in" /\ signIns' = signIns + 1
        /\ UNCHANGED <<dials, expired, faults>>
    BY <1>3 DEF Connect
  <2>2. signIns' \in Nat /\ expired' \in 0..signIns' /\ 0 \in 0..MaxReconnectAttempts
    BY <2>1
  <2> QED
    BY <2>1, <2>2, EstablishType
<1>4. ASSUME NEW l \in Links, TimerFires(l) PROVE TypeOK'
  <2>1. /\ EstablishConnection(l, attempts, FALSE)
        /\ UNCHANGED <<screen, dials, expired, signIns, faults>>
    BY <1>4 DEF TimerFires
  <2> QED
    BY <2>1, EstablishType
<1>5. ASSUME NEW l \in Links, OnError(l) \/ OnDone(l) PROVE TypeOK'
  <2>1. /\ Goes(l, "errored") \/ Goes(l, "free")
        /\ ScheduleReconnect(attempts, timer)
        /\ UNCHANGED <<screen, channel, pinging, dials, expired, signIns, faults>>
    BY <1>5 DEF OnError, OnDone
  <2>2. link' \in [Links -> LinkState] /\ offers' \in [Links -> Nat]
    BY <2>1, <1>a DEF LinkState
  <2> QED
    BY <2>1, <2>2, <1>b
<1>6. ASSUME NEW l \in Links, Network(l) PROVE TypeOK'
  <2>1. /\ \E s \in {"open", "failed", "ended"} : Goes(l, s)
        /\ UNCHANGED <<screen, service, dials, expired, signIns>>
        /\ faults' \in {faults, faults + 1}
    BY <1>6 DEF Network, Accept, Refuse, Fail, End, Close, Becomes
  <2>2. link' \in [Links -> LinkState] /\ offers' \in [Links -> Nat]
    BY <2>1, <1>a DEF LinkState
  <2> QED
    BY <2>1, <2>2 DEF service
<1>7. CASE Expire
  BY <1>7 DEF Expire, service, wire
<1>8. CASE UNCHANGED vars
  BY <1>8 DEF vars, service, wire
<1> QED
  BY <1>1, <1>2, <1>3, <1>4, <1>5, <1>6, <1>7, <1>8 DEF Next, Callback

\* A lost connection has armed the timer, or the loss is still to be told; where
\* every dial throws the attempts are counted until the bound.
LEMMA StrandedStep ==
  ASSUME TypeOK, NeverStranded, AttemptsArmed, NothingDialled, [Next]_vars
  PROVE  NeverStranded' /\ AttemptsArmed' /\ NothingDialled'
<1> USE DEF TypeOK, NeverStranded, AttemptsArmed, NothingDialled, GaveUp, InUse
<1>1. CASE Disconnect
  BY <1>1 DEF Disconnect, Goes, wire, Live
<1>2. CASE Disconnected
  BY <1>2 DEF Disconnected, wire
<1>a. ASSUME NEW l \in Links, NEW n \in 0..MaxReconnectAttempts, NEW armed \in BOOLEAN,
             EstablishConnection(l, n, armed), UNCHANGED dials,
             screen' = "in" /\ screen # "in" => n = 0
      PROVE  NeverStranded' /\ AttemptsArmed' /\ NothingDialled'
  <2>1. CASE dials /\ Dial(l)
    BY <1>a, <2>1 DEF Dial
  <2>2. CASE ~dials /\ ScheduleReconnect(n, armed) /\ UNCHANGED wire
    <3>1. attempts' > 0 /\ (timer' \/ attempts' = MaxReconnectAttempts)
      BY <2>2 DEF ScheduleReconnect
    <3> QED
      BY <1>a, <2>2, <3>1 DEF wire
  <2> QED
    BY <1>a, <2>1, <2>2 DEF EstablishConnection
<1>3. ASSUME NEW l \in Links, Connect(l)
      PROVE  NeverStranded' /\ AttemptsArmed' /\ NothingDialled'
  BY <1>3, <1>a DEF Connect
<1>4. ASSUME NEW l \in Links, TimerFires(l)
      PROVE  NeverStranded' /\ AttemptsArmed' /\ NothingDialled'
  BY <1>4, <1>a DEF TimerFires
<1>5. ASSUME NEW l \in Links, OnError(l) \/ OnDone(l)
      PROVE  NeverStranded' /\ AttemptsArmed' /\ NothingDialled'
  <2>1. dials /\ dials' /\ UNCHANGED screen /\ ScheduleReconnect(attempts, timer)
    BY <1>5 DEF OnError, OnDone
  <2> QED
    BY <2>1 DEF ScheduleReconnect
<1>6. ASSUME NEW l \in Links, Network(l)
      PROVE  NeverStranded' /\ AttemptsArmed' /\ NothingDialled'
  <2>1. /\ link[l] # "free"
        /\ \E s \in {"open", "failed", "ended"} : Goes(l, s)
        /\ UNCHANGED <<screen, service, dials>>
    BY <1>6 DEF Network, Accept, Refuse, Fail, End, Close, Becomes, Live
  <2> QED
    BY <2>1 DEF Goes, service
<1>7. CASE Expire
  BY <1>7 DEF Expire, service, wire
<1>8. CASE UNCHANGED vars
  BY <1>8 DEF vars, service, wire
<1> QED
  BY <1>1, <1>2, <1>3, <1>4, <1>5, <1>6, <1>7, <1>8 DEF Next, Callback

Counted == SocketsBounded /\ OneTurn

\* A dial pays for its link with a sign-in or with the timer, a timer is paid for
\* by the link whose loss armed it.
LEMMA CountStep ==
  ASSUME TypeOK, Counted, NothingDialled, [Next]_vars
  PROVE  Counted'
<1>0. TypeOK' /\ Cardinality(InUse) \in Nat
  BY TypeStep, InUseFinite
<1> USE DEF Counted, SocketsBounded, OneTurn
<1>1. CASE Disconnect
  <2>1. \/ link' = link
        \/ channel \in InUse /\ Goes(channel, "closing")
    <3>1. CASE channel # None /\ Live(channel)
      BY <1>1, <3>1 DEF Disconnect, InUse, Live, TypeOK
    <3>2. CASE ~(channel # None /\ Live(channel))
      BY <1>1, <3>2 DEF Disconnect, wire
    <3> QED
      BY <3>1, <3>2
  <2>2. InUse' = InUse
    BY <2>1, SameCount DEF LinkState, InUse
  <2> QED
    BY <1>1, <1>0, <2>1, <2>2 DEF Disconnect, Goes, Turn, TypeOK
<1>2. CASE Disconnected
  <2>1. InUse' = InUse
    BY <1>2 DEF Disconnected, wire, InUse
  <2> QED
    BY <1>2, <1>0, <2>1 DEF Disconnected, wire, Turn, TypeOK
<1>3. ASSUME NEW l \in Links, Connect(l) PROVE Counted'
  <2>1. Turn /\ signIns' = signIns + 1 /\ EstablishConnection(l, 0, timer)
    BY <1>3 DEF Connect
  <2>2. CASE Dial(l) /\ timer' = timer
    <3>1. Cardinality(InUse') = Cardinality(InUse) + 1
      BY <2>2, DialCounts
    <3>2. \A k \in Links : link'[k] # "errored"
      BY <2>1, <2>2 DEF Dial, Turn, TypeOK
    <3> QED
      BY <2>1, <2>2, <3>1, <3>2, <1>0 DEF TypeOK
  <2>3. CASE ~dials /\ UNCHANGED link
    <3>1. InUse = {} /\ InUse' = {}
      BY <2>3 DEF NothingDialled, InUse
    <3>2. Cardinality(InUse) = 0 /\ Cardinality(InUse') = 0
      BY <3>1, FS_EmptySet
    <3> QED
      BY <2>1, <2>3, <3>2, <1>0 DEF TypeOK
  <2> QED
    BY <2>1, <2>2, <2>3 DEF EstablishConnection, wire
<1>4. ASSUME NEW l \in Links, TimerFires(l) PROVE Counted'
  <2>1. Turn /\ timer /\ signIns' = signIns /\ EstablishConnection(l, attempts, FALSE)
    BY <1>4 DEF TimerFires
  <2>2. CASE Dial(l) /\ timer' = FALSE
    <3>1. Cardinality(InUse') = Cardinality(InUse) + 1
      BY <2>2, DialCounts
    <3>2. \A k \in Links : link'[k] # "errored"
      BY <2>1, <2>2 DEF Dial, Turn, TypeOK
    <3> QED
      BY <2>1, <2>2, <3>1, <3>2, <1>0 DEF TypeOK
  <2>3. CASE UNCHANGED link
    <3>1. InUse' = InUse
      BY <2>3 DEF InUse
    <3> QED
      BY <2>1, <2>3, <3>1, <1>0 DEF TypeOK
  <2> QED
    BY <2>1, <2>2, <2>3 DEF EstablishConnection, wire
<1>5. ASSUME NEW l \in Links, OnError(l) PROVE Counted'
  <2>1. Turn /\ l \in InUse /\ Goes(l, "errored") /\ signIns' = signIns
    BY <1>5 DEF OnError, InUse
  <2>2. InUse' = InUse
    BY <2>1, SameCount DEF LinkState
  <2>3. ~Turn'
    BY <2>1 DEF Goes, Turn, TypeOK, InUse
  <2>4. \A k \in Links : link'[k] = "errored" => k = l
    BY <2>1 DEF Goes, Turn, TypeOK
  <2> QED
    BY <2>1, <2>2, <2>3, <2>4
<1>6. ASSUME NEW l \in Links, OnDone(l) PROVE Counted'
  <2>1. Cardinality(InUse') = Cardinality(InUse) - 1
    BY <1>6, DoneCounts
  <2>2. link' = [link EXCEPT ![l] = "free"] /\ signIns' = signIns
    BY <1>6 DEF OnDone, Goes
  <2> QED
    BY <2>1, <2>2, <1>0 DEF TypeOK
<1>7. ASSUME NEW l \in Links, Network(l) PROVE Counted'
  <2>1. PICK s \in {"open", "failed", "ended"} : Goes(l, s)
    BY <1>7 DEF Network, Accept, Refuse, Fail, End, Close, Becomes
  <2>2. l \in InUse /\ link[l] # "errored" /\ UNCHANGED <<timer, signIns>>
    BY <1>7 DEF Network, Accept, Refuse, Fail, End, Close, Becomes, service, Live, InUse
  <2>3. InUse' = InUse
    BY <2>1, <2>2, SameCount DEF LinkState
  <2>4. \A k \in Links : link'[k] = "errored" <=> link[k] = "errored"
    BY <2>1, <2>2 DEF Goes, TypeOK
  <2> QED
    BY <2>2, <2>3, <2>4 DEF Turn
<1>8. CASE Expire \/ UNCHANGED vars
  BY <1>8 DEF Expire, vars, service, wire, InUse, Turn
<1> QED
  BY <1>1, <1>2, <1>3, <1>4, <1>5, <1>6, <1>7, <1>8 DEF Next, Callback

\* In the first visit the count leaves room for one socket.
LEMMA SocketStep ==
  ASSUME TypeOK, Counted, NothingDialled, OneSocket, [Next]_vars
  PROVE  OneSocket'
<1>0. Cardinality(InUse) \in Nat
  BY InUseFinite
<1> USE DEF OneSocket
<1>1. CASE Disconnect
  BY <1>1 DEF Disconnect
<1>2. CASE Disconnected
  BY <1>2 DEF Disconnected
<1>a. ASSUME NEW l \in Links, NEW n, NEW armed, EstablishConnection(l, n, armed),
             Cardinality(InUse) = 0
      PROVE  OneSocket'
  <2>1. InUse = {}
    BY <1>a, InUseFinite, FS_EmptySet
  <2>2. \A k \in Links : link[k] = "free"
    BY <2>1 DEF InUse
  <2>3. CASE Dial(l)
    BY <2>2, <2>3 DEF Dial, Live, TypeOK
  <2>4. CASE UNCHANGED link
    BY <2>2, <2>4 DEF Live
  <2> QED
    BY <1>a, <2>3, <2>4 DEF EstablishConnection, wire
<1>3. ASSUME NEW l \in Links, Connect(l), signIns' = 1 PROVE OneSocket'
  <2>1. Cardinality(InUse) = 0
    BY <1>3, <1>0 DEF Connect, Counted, OneTurn, TypeOK
  <2> QED
    BY <1>3, <1>a, <2>1 DEF Connect
<1>4. ASSUME NEW l \in Links, TimerFires(l), signIns' = 1 PROVE OneSocket'
  <2>1. Cardinality(InUse) = 0
    BY <1>4, <1>0 DEF TimerFires, Counted, SocketsBounded, TypeOK
  <2> QED
    BY <1>4, <1>a, <2>1 DEF TimerFires
<1>5. ASSUME NEW l \in Links, OnError(l) \/ OnDone(l), signIns' = 1 PROVE OneSocket'
  <2>1. l \in InUse /\ ~Live(l) /\ signIns = 1
    BY <1>5 DEF OnError, OnDone, InUse, Live
  <2>2. ASSUME NEW k \in Links, Live(k) PROVE FALSE
    <3>1. k \in InUse /\ k # l
      BY <2>1, <2>2 DEF InUse, Live
    <3> QED
      BY <2>1, <3>1, <1>0, TwoInUse DEF Counted, OneTurn
  <2>3. \A k \in Links : ~Live(k)'
    BY <1>5, <2>2 DEF OnError, OnDone, Goes, Live, TypeOK
  <2> QED
    BY <2>3
<1>6. ASSUME NEW l \in Links, Network(l) PROVE OneSocket'
  <2>1. UNCHANGED <<screen, channel, state, pinging, signIns>>
    BY <1>6 DEF Network, Accept, Refuse, Fail, End, Close, Becomes, service
  <2>2. \A k \in Links : Live(k)' => Live(k)
    BY <1>6 DEF Network, Accept, Refuse, Fail, End, Close, Becomes, Goes, Live, TypeOK
  <2> QED
    BY <2>1, <2>2
<1>7. CASE Expire \/ UNCHANGED vars
  BY <1>7 DEF Expire, vars, service, wire, Live
<1>8. \/ signIns' = 1
      \/ OneSocket'
  OBVIOUS
<1> QED
  BY <1>1, <1>2, <1>3, <1>4, <1>5, <1>6, <1>7, <1>8 DEF Next, Callback

------------------------------------------------------------------------------
(* The theorems *)

\* The invariant holds before the first sign-in and every step keeps it.
LEMMA Inductive ==
  /\ Init => IndInv
  /\ IndInv /\ [Next]_vars => IndInv'
<1>1. ASSUME Init PROVE IndInv
  <2>1. InUse = {}
    BY <1>1 DEF Init, InUse
  <2>2. Cardinality(InUse) = 0
    BY <2>1, FS_EmptySet
  <2>3. TypeOK
    <3>1. link \in [Links -> LinkState]
      BY <1>1 DEF Init, LinkState
    <3>2. attempts \in 0..MaxReconnectAttempts /\ offers \in [Links -> Nat]
      BY <1>1 DEF Init
    <3> QED
      <4>1. expired = 0 /\ signIns = 0 /\ expired \in 0..signIns
        BY <1>1 DEF Init
      <4>2. /\ screen \in {"in", "leaving", "out"} /\ channel \in Links \union {None}
            /\ state \in {"disconnected", "connected", "reconnecting"}
            /\ timer \in BOOLEAN /\ pinging \in BOOLEAN /\ signIns \in Nat /\ faults \in Nat
        BY <1>1 DEF Init
      <4>3. dials \in BOOLEAN
        BY <1>1, Zenon DEF Init
      <4> QED
        BY <3>1, <3>2, <4>1, <4>2, <4>3 DEF TypeOK
  <2>4. SocketsBounded /\ OneTurn
    BY <1>1, <2>2 DEF Init, SocketsBounded, OneTurn
  <2>5. NeverStranded /\ OneSocket /\ AttemptsArmed /\ NothingDialled
    BY <1>1, <2>1 DEF Init, NeverStranded, OneSocket, AttemptsArmed, NothingDialled
  <2> QED
    BY <2>3, <2>4, <2>5 DEF IndInv
<1>2. ASSUME IndInv, [Next]_vars PROVE IndInv'
  BY <1>2, TypeStep, StrandedStep, CountStep, SocketStep DEF IndInv, Counted
<1> QED
  BY <1>1, <1>2

\* The state of the socket service is always of its type, bounded, and never
\* stranded.
THEOREM ChatSocketInvariant == Spec => []IndInv
BY Inductive, PTL DEF Spec

\* Every variable of the socket service holds a value of its type.
THEOREM SocketTypes == Spec => []TypeOK
<1>1. IndInv => TypeOK
  BY DEF IndInv
<1> QED
  BY <1>1, ChatSocketInvariant, PTL

\* chat_websocket_service.dart:123-125 and 165-195: a signed-in user is never left
\* without a connection, a timer or a callback that will arm one, except where
\* every dial throws and the attempts are used up.
THEOREM NobodyIsStranded == Spec => []NeverStranded
<1>1. IndInv => NeverStranded
  BY DEF IndInv
<1> QED
  BY <1>1, ChatSocketInvariant, PTL

\* chat_websocket_service.dart:179-195: each sign-in adds at most one socket or
\* pending dial, for any order of callbacks and timers.
THEOREM SocketsAreBounded == Spec => []SocketsBounded
<1>1. IndInv => SocketsBounded
  BY DEF IndInv
<1> QED
  BY <1>1, ChatSocketInvariant, PTL

\* chat_websocket_service.dart:102-126: the first visit has one socket, and the
\* service knows it.
THEOREM FirstVisitHasOneSocket == Spec => []OneSocket
<1>1. IndInv => OneSocket
  BY DEF IndInv
<1> QED
  BY <1>1, ChatSocketInvariant, PTL

------------------------------------------------------------------------------
(* The bound on the links *)

\* A dial that is due, by the timer or at a sign-in, finds a link.
RoomToDial ==
  Turn /\ (timer \/ (screen = "out" /\ signIns < MaxSignIns)) =>
    \E l \in Links : link[l] = "free"

LEMMA SignInStep ==
  ASSUME TypeOK, signIns <= MaxSignIns, [Next]_vars
  PROVE  signIns' <= MaxSignIns
<1>1. ASSUME NEW l \in Links, Connect(l) PROVE signIns' <= MaxSignIns
  BY <1>1 DEF Connect, TypeOK
<1>2. ASSUME NEW l \in Links, Callback(l) \/ Network(l) PROVE signIns' = signIns
  BY <1>2
  DEF Callback, TimerFires, OnError, OnDone, Network, Accept, Refuse, Fail, End, Close, Becomes
<1> QED
  BY <1>1, <1>2 DEF Next, Disconnect, Disconnected, Expire, vars

\* Fewer links in use than there are links leave one that is free.
LEMMA OneIsFree ==
  ASSUME TypeOK, Cardinality(InUse) < Cardinality(Links)
  PROVE  \E l \in Links : link[l] = "free"
<1>1. SUFFICES ASSUME \A l \in Links : link[l] # "free" PROVE FALSE
  OBVIOUS
<1>2. InUse = Links
  BY <1>1 DEF InUse
<1> QED
  BY <1>2, InUseFinite

LEMMA RoomIsLeft ==
  ASSUME IndInv, signIns <= MaxSignIns, MaxSignIns <= Cardinality(Links)
  PROVE  RoomToDial
<1>1. SUFFICES ASSUME Turn, timer \/ (screen = "out" /\ signIns < MaxSignIns)
               PROVE  \E l \in Links : link[l] = "free"
  BY DEF RoomToDial
<1>2. Cardinality(InUse) + (IF timer THEN 1 ELSE 0) <= signIns
  BY <1>1 DEF IndInv, SocketsBounded
<1>3. /\ Cardinality(InUse) \in Nat /\ Cardinality(Links) \in Nat
      /\ signIns \in Nat /\ MaxSignIns \in Nat
  BY InUseFinite, FS_CardinalityType DEF IndInv, TypeOK
<1>4. CASE timer
  BY <1>2, <1>3, <1>4, OneIsFree DEF IndInv
<1>5. CASE ~timer
  BY <1>1, <1>2, <1>3, <1>5, OneIsFree DEF IndInv
<1> QED
  BY <1>4, <1>5

\* chat_websocket_service.dart:102-126: a dial makes a channel whatever the others
\* are doing.  With as many links as sign-ins it does so in the model: the bound
\* on the links hides no step of the program.
THEOREM EveryDialHasALink ==
  ASSUME MaxSignIns <= Cardinality(Links)
  PROVE  Spec => []RoomToDial
<1> DEFINE Few == signIns <= MaxSignIns
<1>1. Init => Few
  BY DEF Init
<1>2. IndInv /\ Few /\ [Next]_vars => Few'
  BY SignInStep DEF IndInv
<1>3. IndInv /\ Few => RoomToDial
  BY RoomIsLeft
<1> HIDE DEF Few
<1> QED
  BY <1>1, <1>2, <1>3, ChatSocketInvariant, PTL DEF Spec
=============================================================================
