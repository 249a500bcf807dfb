--------------------------- MODULE SessionsProofs ---------------------------
(***************************************************************************)
(* The invariant of Sessions is inductive; what it implies about one step, *)
(* and the refinement of Directory, for any users, requests and faults.    *)
(***************************************************************************)
EXTENDS Sessions, TLAPS

USE SessionsAssumption DEF Pairs

LEMMA Initially == Init => IndInv
<1> SUFFICES ASSUME Init PROVE IndInv
  OBVIOUS
<1> USE DEF Init, Idle
<1>1. TypeOK
  <2>1. ServiceTypeOK
    BY FaultsAssumption DEF ServiceInit, ServiceTypeOK, Phases
  <2>2. req \in [Reqs -> Requests]
    BY DEF Requests
  <2> QED BY <2>1, <2>2 DEF TypeOK
<1>2. Rooted
  BY DEF Rooted
<1>3. Informed
  BY DEF Informed
<1>4. Granted
  BY DEF Granted, GrantedOnce, At, Opening
<1> QED BY <1>1, <1>2, <1>3, <1>4 DEF IndInv

\* A request arrives.
LEMMA Arriving ==
  ASSUME IndInv, NEW r \in Reqs, NEW u \in Names, NEW v \in Names \union {None},
         NEW pc \in {"create", "find", "store", "receiver", "complete"},
         Handle(r, pc, u, v),
         pc \in {"create", "find"} \/ u \in tokens,
         IF pc \in {"receiver", "complete"} THEN v \in Names ELSE v = None,
         UNCHANGED <<tokens, holds>>, leaked' \in BOOLEAN
  PROVE  IndInv'
<1> USE DEF IndInv, Handle, service, tables
<1>1. TypeOK'
  BY DEF TypeOK, ServiceTypeOK, Requests, Paired
<1>2. Rooted'
  BY DEF TypeOK, Rooted
<1>3. Informed'
  BY DEF TypeOK, Informed, Idle, Paired
<1>4. Granted'
  BY DEF TypeOK, Granted, GrantedOnce, At, Opening
<1> QED BY <1>1, <1>2, <1>3, <1>4

\* A request ends, with or without its write.
LEMMA Ending ==
  ASSUME IndInv, NEW r \in Reqs, End(r), Written(r) \/ UNCHANGED tables,
         UNCHANGED <<phase, schema, holds, leaked>>, faults' \in 0..MaxFaults,
         tokens' \subseteq Names, tokens' \subseteq accounts'
  PROVE  IndInv'
<1> USE DEF IndInv, End, Written, At, InsertUser, SetPublicKey, InsertSession, tables
<1>1. TypeOK'
  BY DEF TypeOK, ServiceTypeOK, Requests, Idle, Informed
<1>2. Rooted'
  BY DEF TypeOK, Rooted, Informed, Idle
<1>3. Informed'
  BY DEF TypeOK, Informed, Idle, Paired
<1>4. Granted'
  BY DEF TypeOK, Granted, GrantedOnce, Opening, Idle
<1> QED BY <1>1, <1>2, <1>3, <1>4

\* The account is made and its request answered.
LEMMA Created ==
  ASSUME IndInv, NEW r \in Reqs, UNCHANGED <<phase, schema, faults, tokens, holds, leaked>>,
         At(r, "create"), InsertUser(req[r].user), Answer(r)
  PROVE  IndInv'
<1> USE DEF IndInv, At, Answer, InsertUser
<1>1. TypeOK'
  <2>1. req[r] \in Requests
    BY DEF TypeOK
  <2>2. req' \in [Reqs -> Requests]
    BY <2>1 DEF TypeOK, Requests
  <2> QED BY <2>2 DEF TypeOK, ServiceTypeOK, Informed
<1>2. Rooted'
  BY DEF TypeOK, Rooted, Informed
<1>3. Informed'
  BY DEF TypeOK, Rooted, Informed, Paired
<1>4. Granted'
  BY DEF TypeOK, Granted, GrantedOnce, Opening, Informed
<1> QED BY <1>1, <1>2, <1>3, <1>4

\* The account is found and its request answered.
LEMMA Found ==
  ASSUME IndInv, NEW r \in Reqs, UNCHANGED <<phase, schema, faults, tokens, holds, leaked>>,
         At(r, "find"), req[r].user \in accounts, Answer(r), UNCHANGED tables
  PROVE  IndInv'
<1> USE DEF IndInv, At, Answer, tables
<1>1. TypeOK'
  <2>1. req[r] \in Requests
    BY DEF TypeOK
  <2>2. req' \in [Reqs -> Requests]
    BY <2>1 DEF TypeOK, Requests
  <2> QED BY <2>2 DEF TypeOK, ServiceTypeOK, Informed
<1>2. Rooted'
  BY DEF TypeOK, Rooted, Informed
<1>3. Informed'
  BY DEF TypeOK, Rooted, Informed, Paired
<1>4. Granted'
  BY DEF TypeOK, Granted, GrantedOnce, Opening, Informed
<1> QED BY <1>1, <1>2, <1>3, <1>4

\* The receiver is found.
LEMMA FoundPeer ==
  ASSUME IndInv, NEW r \in Reqs, UNCHANGED <<phase, schema, faults, tokens, holds, leaked>>,
         At(r, "receiver"), req[r].peer \in accounts \ {req[r].user},
         NEW key \in BOOLEAN, key => req[r].peer \in published,
         req' = [req EXCEPT ![r].pc = "check", ![r].key = key],
         UNCHANGED tables
  PROVE  IndInv'
<1> USE DEF IndInv, At, Answer, tables
<1>1. TypeOK'
  <2>1. req[r] \in Requests
    BY DEF TypeOK
  <2>2. req' \in [Reqs -> Requests]
    BY <2>1 DEF TypeOK, Requests
  <2> QED BY <2>2 DEF TypeOK, ServiceTypeOK, Informed
<1>2. Rooted'
  BY DEF TypeOK, Rooted, Informed
<1>3. Informed'
  BY DEF TypeOK, Rooted, Informed, Paired
<1>4. Granted'
  BY DEF TypeOK, Granted, GrantedOnce, Opening, Informed
<1> QED BY <1>1, <1>2, <1>3, <1>4

\* The pair has no session.
LEMMA Checked ==
  ASSUME IndInv, NEW r \in Reqs, UNCHANGED <<phase, schema, faults, tokens, holds, leaked>>,
         At(r, "check"), schema = "full", ~HasSession(req[r].user, req[r].peer),
         req' = [req EXCEPT ![r].pc = "insert"], UNCHANGED tables
  PROVE  IndInv'
<1> USE DEF IndInv, At, Answer, tables
<1>1. TypeOK'
  <2>1. req[r] \in Requests
    BY DEF TypeOK
  <2>2. req' \in [Reqs -> Requests]
    BY <2>1 DEF TypeOK, Requests
  <2> QED BY <2>2 DEF TypeOK, ServiceTypeOK, Informed
<1>2. Rooted'
  BY DEF TypeOK, Rooted, Informed
<1>3. Informed'
  BY DEF TypeOK, Rooted, Informed, Paired, HasSession
<1>4. Granted'
  BY DEF TypeOK, Granted, GrantedOnce, Opening, Informed
<1> QED BY <1>1, <1>2, <1>3, <1>4

\* The session is made and its request answered.
LEMMA Opened ==
  ASSUME IndInv, NEW r \in Reqs, UNCHANGED <<phase, schema, faults, tokens, holds, leaked>>,
         At(r, "insert"), InsertSession(req[r].user, req[r].peer), Answer(r)
  PROVE  IndInv'
<1> USE DEF IndInv, At, Answer, InsertSession
<1>1. TypeOK'
  <2>1. req[r] \in Requests
    BY DEF TypeOK
  <2>2. req' \in [Reqs -> Requests]
    BY <2>1 DEF TypeOK, Requests
  <2> QED BY <2>2 DEF TypeOK, ServiceTypeOK, Informed
<1>2. Rooted'
  BY DEF TypeOK, Rooted, Informed
<1>3. Informed'
  BY DEF TypeOK, Rooted, Informed, Paired
<1>4. Granted'
  BY DEF TypeOK, Granted, GrantedOnce, Opening, Informed
<1> QED BY <1>1, <1>2, <1>3, <1>4

\* The app takes an answer.
LEMMA Receiving ==
  ASSUME IndInv, NEW r \in Reqs, Receive(r)
  PROVE  IndInv'
<1> USE DEF IndInv, Receive, End, At, service, tables
<1>1. TypeOK'
  BY DEF TypeOK, ServiceTypeOK, Requests, Idle, Informed
<1>2. Rooted'
  BY DEF TypeOK, Rooted, Idle
<1>3. Informed'
  BY DEF TypeOK, Informed, Idle, Paired
<1>4. Granted'
  BY DEF TypeOK, Granted, GrantedOnce, Opening, Informed, Idle
<1> QED BY <1>1, <1>2, <1>3, <1>4

\* The process or the schema changes, or a token expires.
LEMMA Serving ==
  ASSUME IndInv, UNCHANGED <<tables, holds, leaked>>, ServiceTypeOK',
         schema = "full" => schema' = "full",
         req' = req \/ req' = [r \in Reqs |-> IF Running(r) THEN Idle ELSE req[r]],
         tokens' \subseteq tokens
  PROVE  IndInv'
<1> USE DEF IndInv, tables
<1>1. \A r \in Reqs : req'[r] = req[r] \/ req'[r] = Idle
  OBVIOUS
<1>2. TypeOK'
  <2>1. Idle \in Requests
    BY DEF Idle, Requests
  <2>2. req' \in [Reqs -> Requests]
    BY <2>1 DEF TypeOK
  <2> QED BY <2>2 DEF TypeOK
<1>3. Rooted'
  BY <1>1 DEF TypeOK, Rooted, Idle
<1>4. Informed'
  <2>1. ASSUME NEW r \in Reqs, req'[r] = Idle
        PROVE  /\ req'[r].pc = "idle" /\ req'[r].peer = None
               /\ req'[r].key = FALSE /\ req'[r].late = FALSE
    BY <2>1 DEF Idle
  <2> QED BY <1>1, <2>1 DEF TypeOK, Informed, Paired
<1>5. Granted'
  BY <1>1 DEF TypeOK, Granted, GrantedOnce, Opening, Idle, At
<1> QED BY <1>2, <1>3, <1>4, <1>5

------------------------------------------------------------------------------
\* A statement of request r that did not fail for another reason.
LEMMA Stating ==
  ASSUME IndInv, NEW r \in Reqs, UNCHANGED <<service, apps>>,
         \/ CreateUser(r) \/ FindUser(r) \/ StorePublicKey(r)
         \/ FindReceiver(r) \/ CheckSession(r) \/ CreateSession(r) \/ FindSession(r)
  PROVE  IndInv'
<1>0. /\ UNCHANGED <<phase, schema, faults, tokens, holds, leaked>>
      /\ tokens \subseteq Names /\ tokens \subseteq accounts /\ faults' \in 0..MaxFaults
  BY DEF service, apps, IndInv, TypeOK, ServiceTypeOK, Rooted
<1> HIDE DEF Pairs
<1>1. ASSUME End(r), UNCHANGED tables PROVE IndInv'
  BY <1>0, <1>1, Ending DEF tables
<1>2. CASE CreateUser(r)
  BY <1>0, <1>1, <1>2, Created DEF CreateUser
<1>3. CASE FindUser(r)
  BY <1>0, <1>1, <1>3, Found DEF FindUser
<1>4. CASE StorePublicKey(r)
  <2>1. Written(r) /\ End(r) /\ accounts' = accounts
    BY <1>4 DEF StorePublicKey, Written, SetPublicKey
  <2> QED BY <1>0, <2>1, Ending
<1>5. CASE FindReceiver(r)
  <2> DEFINE key == req[r].peer \in published
  <2>1. CASE End(r)
    BY <1>1, <1>5, <2>1 DEF FindReceiver
  <2>2. CASE /\ req[r].peer \in accounts \ {req[r].user}
             /\ req' = [req EXCEPT ![r].pc = "check", ![r].key = key]
    <3>1. key \in BOOLEAN
      OBVIOUS
    <3>2. At(r, "receiver") /\ UNCHANGED tables /\ (key => req[r].peer \in published)
      BY <1>5 DEF FindReceiver
    <3> HIDE DEF key
    <3> QED BY <1>0, <2>2, <3>1, <3>2, FoundPeer
  <2> QED BY <1>5, <2>1, <2>2 DEF FindReceiver
<1>6. CASE CheckSession(r)
  <2>1. ~Readable(req[r].user, req[r].peer)
    BY DEF Readable, IndInv, Granted
  <2> QED BY <1>0, <1>1, <1>6, <2>1, Checked DEF CheckSession
<1>7. CASE CreateSession(r)
  BY <1>0, <1>1, <1>7, Opened DEF CreateSession
<1>8. CASE FindSession(r)
  <2>1. None \notin sessions
    BY DEF IndInv, TypeOK, Pairs
  <2>2. UNCHANGED tables
    BY <1>8, <2>1 DEF FindSession, mustParseUUID, tables
  <2> QED BY <1>1, <1>8, <2>2 DEF FindSession
<1> QED BY <1>2, <1>3, <1>4, <1>5, <1>6, <1>7, <1>8

\* A statement fails, an answer is lost.
LEMMA Failing ==
  ASSUME IndInv, NEW r \in Reqs, DbError(r) \/ Lose(r)
  PROVE  IndInv'
<1>1. /\ UNCHANGED <<phase, schema, tokens, holds, leaked>>
      /\ End(r)
      /\ Written(r) \/ UNCHANGED tables
  BY DEF DbError, Lose, service, apps
<1>2. faults' \in 0..MaxFaults
  BY FaultsAssumption DEF DbError, Lose, Fault, service, IndInv, TypeOK, ServiceTypeOK
<1>3. accounts \subseteq accounts'
  BY <1>1 DEF Written, InsertUser, SetPublicKey, InsertSession, tables
<1>4. tokens' \subseteq Names /\ tokens' \subseteq accounts'
  BY <1>1, <1>3 DEF IndInv, TypeOK, Rooted
<1> QED BY <1>1, <1>2, <1>4, Ending

LEMMA Inductive == IndInv /\ [Next]_vars => IndInv'
<1> SUFFICES ASSUME IndInv, [Next]_vars PROVE IndInv'
  OBVIOUS
<1>1. ASSUME NEW r \in Reqs, Arrive(r) PROVE IndInv'
  <2>1. PICK u \in Names :
          \/ Register(r, u)
          \/ Login(r, u)
          \/ UpdatePublicKey(r, u)
          \/ \E v \in Names :
               \/ InitSession(r, u, v) /\ UNCHANGED apps
               \/ CompleteSession(r, u, v)
               \/ SendMessage(r, u, v)
    BY <1>1 DEF Arrive
  <2>2. leaked \in BOOLEAN
    BY DEF IndInv, TypeOK
  <2>3. CASE Register(r, u)
    BY <2>2, <2>3, Arriving DEF Register, apps
  <2>4. CASE Login(r, u)
    BY <2>2, <2>4, Arriving DEF Login, apps
  <2>5. CASE UpdatePublicKey(r, u)
    BY <2>2, <2>5, Arriving DEF UpdatePublicKey, Authorized, apps
  <2>6. ASSUME NEW v \in Names, InitSession(r, u, v), UNCHANGED <<tokens, holds>>,
               leaked' \in BOOLEAN
        PROVE  IndInv'
    BY <2>6, Arriving DEF InitSession, Authorized
  <2>7. ASSUME NEW v \in Names, CompleteSession(r, u, v) PROVE IndInv'
    BY <2>2, <2>7, Arriving DEF CompleteSession, Authorized, apps
  <2>8. ASSUME NEW v \in Names, SendMessage(r, u, v) PROVE IndInv'
    <3>1. leaked' \in BOOLEAN /\ UNCHANGED <<tokens, holds>>
      BY <2>8 DEF SendMessage
    <3>2. CASE InitSession(r, u, v)
      BY <2>6, <3>1, <3>2
    <3>3. CASE UNCHANGED <<service, tables, req>>
      BY <3>1, <3>3 DEF IndInv, TypeOK, ServiceTypeOK, Rooted, Informed, Granted, GrantedOnce,
         service, tables, At, Opening, Paired
    <3> QED BY <2>8, <3>2, <3>3 DEF SendMessage
  <2> QED BY <2>1, <2>2, <2>3, <2>4, <2>5, <2>6, <2>7, <2>8 DEF apps
<1>2. ASSUME NEW r \in Reqs, Statement(r) PROVE IndInv'
  BY <1>2, Stating, Failing DEF Statement
<1>3. ASSUME NEW r \in Reqs, Receive(r) \/ Lose(r) PROVE IndInv'
  BY <1>3, Receiving, Failing
<1>4. CASE Boot \/ Operate \/ Die \/ Stop
  <2>1. ServiceTypeOK'
    BY <1>4, FaultsAssumption DEF IndInv, TypeOK, ServiceTypeOK, Boot, Operate, Die, Stop, Proceed,
       Restart, Start, NewPostgresDB, RunMigrations, Listen, Signal, Exit, Fatal, Enter, Fault,
       Phases, Starting
  <2>2. UNCHANGED <<tables, tokens, holds, leaked>>
    BY <1>4 DEF Boot, Operate, Die, Stop, apps
  <2>3. schema = "full" => schema' = "full"
    BY <1>4 DEF Boot, Operate, Die, Stop, Proceed, Restart, Start, NewPostgresDB, RunMigrations,
       Listen, Signal, Exit, Fatal
  <2>4. req' = req \/ req' = [r \in Reqs |-> IF Running(r) THEN Idle ELSE req[r]]
    BY <1>4 DEF Boot, Operate, Die, Stop
  <2> QED BY <2>1, <2>2, <2>3, <2>4, Serving
<1>5. ASSUME NEW u \in Names, Expire(u) PROVE IndInv'
  <2>1. ServiceTypeOK'
    BY <1>5 DEF Expire, IndInv, TypeOK, ServiceTypeOK, service
  <2> QED BY <1>5, <2>1, Serving DEF Expire, service
<1>6. CASE UNCHANGED vars
  BY <1>6 DEF vars, IndInv, TypeOK, ServiceTypeOK, Rooted, Informed, Granted, GrantedOnce,
     service, tables, apps, At, Opening, Paired
<1> QED BY <1>1, <1>2, <1>3, <1>4, <1>5, <1>6 DEF Next

\* Nobody gets the key of a peer twice (and the invariant that says why).
THEOREM Invariance == Spec => []IndInv
BY Initially, Inductive, PTL DEF Spec

THEOREM SessionsTypes == Spec => []TypeOK
<1>1. IndInv => TypeOK
  BY DEF IndInv
<1> QED BY <1>1, Invariance, PTL

THEOREM OneGrant == Spec => []GrantedOnce
<1>1. IndInv => GrantedOnce
  BY DEF IndInv, Granted
<1> QED BY <1>1, Invariance, PTL

------------------------------------------------------------------------------
\* What a step may do to the tables and the keys.
LEMMA Effect ==
  ASSUME IndInv, [Next]_vars
  PROVE  \/ UNCHANGED <<tables, holds>>
         \/ \E r \in Reqs : Written(r) /\ UNCHANGED holds
         \/ \E r \in Reqs :
              /\ At(r, "ok") /\ req[r].key
              /\ holds' = holds \union {<<req[r].user, req[r].peer>>}
              /\ UNCHANGED tables
<1> DEFINE Goal == \/ UNCHANGED <<tables, holds>>
                   \/ \E r \in Reqs : Written(r) /\ UNCHANGED holds
                   \/ \E r \in Reqs :
                        /\ At(r, "ok") /\ req[r].key
                        /\ holds' = holds \union {<<req[r].user, req[r].peer>>}
                        /\ UNCHANGED tables
<1>1. ASSUME NEW r \in Reqs, Arrive(r) PROVE UNCHANGED <<tables, holds>>
  BY <1>1 DEF Arrive, Register, Login, UpdatePublicKey, InitSession, CompleteSession, SendMessage,
     Handle, apps
<1>2. ASSUME NEW r \in Reqs, Statement(r) PROVE Goal
  <2>1. UNCHANGED holds
    BY <1>2 DEF Statement, DbError, apps
  <2>2. Written(r) \/ UNCHANGED tables
    <3>1. None \notin sessions
      BY DEF IndInv, TypeOK
    <3>2. CASE DbError(r)
      BY <3>2 DEF DbError
    <3>3. CASE FindSession(r)
      BY <3>1, <3>3 DEF FindSession, mustParseUUID, tables
    <3>4. CASE CreateUser(r) \/ StorePublicKey(r) \/ CreateSession(r)
      BY <3>4 DEF CreateUser, StorePublicKey, CreateSession, Written
    <3>5. CASE FindUser(r) \/ FindReceiver(r) \/ CheckSession(r)
      BY <3>5 DEF FindUser, FindReceiver, CheckSession
    <3> QED BY <1>2, <3>2, <3>3, <3>4, <3>5 DEF Statement
  <2> QED BY <2>1, <2>2
<1>3. ASSUME NEW r \in Reqs, Receive(r) PROVE Goal
  BY <1>3 DEF Receive, tables
<1>4. ASSUME NEW r \in Reqs, Lose(r) PROVE UNCHANGED <<tables, holds>>
  BY <1>4 DEF Lose, apps
<1>5. CASE Boot \/ Operate \/ Die \/ Stop \/ (\E u \in Names : Expire(u)) \/ UNCHANGED vars
  BY <1>5 DEF Boot, Operate, Die, Stop, Expire, vars, apps
<1> QED BY <1>1, <1>2, <1>3, <1>4, <1>5 DEF Next

\* A row for a pair that has one comes only from an overlapping request.
THEOREM NoLateRows == Spec => LateCreatesNothing
<1>1. ASSUME IndInv, [Next]_vars, NEW u \in Names, NEW v \in Names,
             <<u, v>> \in sessions' \ sessions
      PROVE  \E r \in Reqs : Opening(r, u, v) /\ ~req[r].late
  <2>1. PICK r \in Reqs : Written(r)
    BY <1>1, Effect DEF tables
  <2>2. At(r, "insert") /\ InsertSession(req[r].user, req[r].peer)
    BY <1>1, <2>1 DEF Written, InsertUser, SetPublicKey
  <2>3. req[r].user = u /\ req[r].peer = v
    BY <1>1, <2>2 DEF InsertSession
  <2> QED BY <1>1, <2>2, <2>3 DEF Opening, At, IndInv, Informed
<1>2. IndInv /\ [Next]_vars =>
        [\A u, v \in Names :
           <<u, v>> \in sessions' \ sessions =>
             \E r \in Reqs : Opening(r, u, v) /\ ~req[r].late]_vars
  BY <1>1
<1> QED BY <1>2, Invariance, PTL DEF Spec, LateCreatesNothing

\* Every step of the service is one of the directory, or changes nothing of it.
THEOREM Refinement == Spec => ImplementsDirectory
<1>1. Init => D!Init
  BY DEF Init, D!Init
<1>2. ASSUME IndInv, [Next]_vars PROVE [D!Next]_(D!vars)
  <2>1. CASE UNCHANGED <<tables, holds>>
    BY <2>1 DEF tables, D!vars
  <2>2. ASSUME NEW r \in Reqs, Written(r), UNCHANGED holds PROVE D!Next
    <3>1. CASE At(r, "create") /\ InsertUser(req[r].user)
      <4>1. req[r].user \in Names /\ D!Enroll(req[r].user)
        BY <1>2, <2>2, <3>1 DEF InsertUser, D!Enroll, IndInv, Informed, At
      <4> QED BY <4>1 DEF D!Next
    <3>2. CASE At(r, "store") /\ SetPublicKey(req[r].user)
      <4>1. req[r].user \in Names /\ D!Publish(req[r].user)
        BY <1>2, <2>2, <3>2 DEF SetPublicKey, D!Publish, IndInv, Informed, Rooted, At
      <4> QED BY <4>1 DEF D!Next
    <3>3. CASE At(r, "insert") /\ InsertSession(req[r].user, req[r].peer)
      <4>1. /\ req[r].user \in Names /\ req[r].peer \in Names
            /\ D!Pair(req[r].user, req[r].peer)
        BY <1>2, <2>2, <3>3 DEF InsertSession, D!Pair, IndInv, Informed, Rooted, At
      <4> QED BY <4>1 DEF D!Next
    <3> QED BY <2>2, <3>1, <3>2, <3>3 DEF Written
  <2>3. ASSUME NEW r \in Reqs, At(r, "ok"), req[r].key, UNCHANGED tables,
               holds' = holds \union {<<req[r].user, req[r].peer>>}
        PROVE  D!Next
    <3>1. req[r].user \in Names /\ req[r].peer \in Names
      BY <1>2, <2>3 DEF IndInv, TypeOK, Informed, At
    <3>2. <<req[r].user, req[r].peer>> \in sessions \ holds
      BY <1>2, <2>3, <3>1 DEF IndInv, Informed, Granted, GrantedOnce, Opening, At
    <3>3. D!Learn(req[r].user, req[r].peer)
      BY <1>2, <2>3, <3>2 DEF D!Learn, tables, IndInv, Informed
    <3> QED BY <3>1, <3>3 DEF D!Next
  <2> QED BY <1>2, <2>1, <2>2, <2>3, Effect
<1> QED BY <1>1, <1>2, Invariance, PTL DEF Spec, ImplementsDirectory, D!Spec
=============================================================================
