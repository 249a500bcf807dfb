------------------------------ MODULE Sessions ------------------------------
(***************************************************************************)
(* Accounts, public keys and end-to-end sessions: the handlers of auth.go  *)
(* and session.go, one request a goroutine and one step a statement of     *)
(* PostgreSQL, in a service that starts, is stopped and is killed, and the *)
(* apps that keep tokens and session keys.  An account is its name.        *)
(*                                                                         *)
(* A session row is the pair <<initiator, receiver>>, which is unique in   *)
(* the table.  Requests that read only, and requests refused on arrival,   *)
(* change nothing and are left out.  A failed answer changes nothing in    *)
(* the app: a request that fails just ends.                                *)
(***************************************************************************)
EXTENDS Service

CONSTANTS
  Names,        \* user names
  Reqs,         \* the requests under way at the same time (a bound)
  None

ASSUME SessionsAssumption == None \notin Names \union Names \X Names

VARIABLES
  accounts,     \* rows of users
  published,    \* the users whose public_key is not NULL
  sessions,     \* rows of sessions
  completed,    \* those with a receiver_key
  req,          \* what each request's goroutine will do next
  tokens,       \* the users whose app has a token that has not expired
  holds,        \* <<u, v>>: the app of u has a session key for v
  leaked        \* an app has sent a message in the clear

tables == <<accounts, published, sessions, completed>>
apps == <<tokens, holds, leaked>>
vars == <<service, tables, req, apps>>

Pairs == Names \X Names

Requests ==
  [pc : {"idle", "create", "find", "store", "receiver", "check", "insert", "complete", "ok"},
   user : Names \union {None}, peer : Names \union {None}, key : BOOLEAN, late : BOOLEAN]

\* "late" (history): the pair had a session when the request arrived.
Idle == [pc |-> "idle", user |-> None, peer |-> None, key |-> FALSE, late |-> FALSE]

At(r, pc) == req[r].pc = pc
Running(r) == ~At(r, "idle") /\ ~At(r, "ok")
Answer(r) == req' = [req EXCEPT ![r].pc = "ok"]

\* Mutant: the answer is sent and the request is kept.
Linger(r) == req' = [req EXCEPT ![r].pc = "done"]

End(r) == req' = [req EXCEPT ![r] = Idle]

Paired(u, v) == <<u, v>> \in sessions \/ <<v, u>> \in sessions

Handle(r, pc, u, v) ==
  /\ phase = "listening"
  /\ req[r] = Idle
  /\ req' = [req EXCEPT ![r] =
       [pc |-> pc, user |-> u, peer |-> v, key |-> FALSE, late |-> Paired(u, v)]]
  /\ UNCHANGED <<service, tables>>

\* JWTMiddleware lets the request pass.
Authorized(u) == u \in tokens

------------------------------------------------------------------------------
(* The statements that write                                                *)

InsertUser(u) ==
  /\ u \notin accounts
  /\ accounts' = accounts \union {u}
  /\ UNCHANGED <<published, sessions, completed>>

SetPublicKey(u) ==
  /\ published' = published \union {u}
  /\ UNCHANGED <<accounts, sessions, completed>>

\* Mutant: a second row replaces the first.
Upsert(u, v) ==
  /\ sessions' = sessions \union {<<u, v>>}
  /\ UNCHANGED <<accounts, published, completed>>

\* UNIQUE (initiator_id, receiver_id)
InsertSession(u, v) ==
  /\ <<u, v>> \notin sessions
  /\ sessions' = sessions \union {<<u, v>>}
  /\ UNCHANGED <<accounts, published, completed>>

\* What the statement request r is at writes.
Written(r) ==
  \/ At(r, "create") /\ InsertUser(req[r].user)
  \/ At(r, "store") /\ SetPublicKey(req[r].user)
  \/ At(r, "insert") /\ InsertSession(req[r].user, req[r].peer)

------------------------------------------------------------------------------
(* Register, Login, UpdatePublicKey                                         *)

Register(r, u) == Handle(r, "create", u, None) /\ UNCHANGED apps

\* The e-mail address may be another account's; an empty one is accepted too.
CreateUser(r) ==
  /\ At(r, "create")
  /\ \/ InsertUser(req[r].user) /\ Answer(r)
     \/ accounts # {} /\ End(r) /\ UNCHANGED tables

Login(r, u) == Handle(r, "find", u, None) /\ UNCHANGED apps

\* Mutant: the name is not looked up.
FindAnyone(r) ==
  /\ At(r, "find")
  /\ Answer(r)
  /\ UNCHANGED tables

\* The password may be wrong.
FindUser(r) ==
  /\ At(r, "find")
  /\ \/ req[r].user \in accounts /\ Answer(r)
     \/ End(r)
  /\ UNCHANGED tables

UpdatePublicKey(r, u) ==
  /\ Authorized(u)
  /\ Handle(r, "store", u, None)
  /\ UNCHANGED apps

StorePublicKey(r) ==
  /\ At(r, "store")
  /\ SetPublicKey(req[r].user)
  /\ End(r)

------------------------------------------------------------------------------
(* InitSession, CompleteSession                                             *)

InitSession(r, u, v) == Authorized(u) /\ Handle(r, "receiver", u, v)

\* Mutant: a user may open a session with itself.
FindAnyReceiver(r) ==
  /\ At(r, "receiver")
  /\ \/ /\ req[r].peer \in accounts
        /\ req' = [req EXCEPT ![r].pc = "check", ![r].key = req[r].peer \in published]
     \/ /\ req[r].peer \notin accounts
        /\ End(r)
  /\ UNCHANGED tables

\* The answer will carry the public key that is read here.
FindReceiver(r) ==
  LET u == req[r].user
      v == req[r].peer
  IN /\ At(r, "receiver")
     /\ \/ /\ v \in accounts \ {u}
           /\ req' = [req EXCEPT ![r].pc = "check", ![r].key = v \in published]
        \/ /\ v \notin accounts \ {u}
           /\ End(r)
     /\ UNCHANGED tables

\* Mutant: only the sessions the user itself opened are looked for.
HasOwnSession(u, v) == <<u, v>> \in sessions

HasSession(u, v) == {<<u, v>>, <<v, u>>} \intersect sessions # {}

\* GetByUsers scans receiver_key into a string, which fails on NULL.
Readable(u, v) == {<<u, v>>, <<v, u>>} \intersect completed # {}

\* Without the table HasSession is an error.  The read of an existing row is
\* taken with it: it changes nothing.
CheckSession(r) ==
  LET u == req[r].user
      v == req[r].peer
  IN /\ At(r, "check")
     /\ \/ schema # "full" /\ End(r)
        \/ /\ schema = "full"
           /\ HasSession(u, v)
           /\ IF Readable(u, v) THEN Answer(r) ELSE End(r)
        \/ /\ schema = "full"
           /\ ~HasSession(u, v)
           /\ req' = [req EXCEPT ![r].pc = "insert"]
     /\ UNCHANGED tables

CreateSession(r) ==
  /\ At(r, "insert")
  /\ \/ InsertSession(req[r].user, req[r].peer) /\ Answer(r)
     \/ /\ <<req[r].user, req[r].peer>> \in sessions
        /\ End(r)
        /\ UNCHANGED tables

CompleteSession(r, u, v) ==
  /\ Authorized(u)
  /\ Handle(r, "complete", u, v)
  /\ UNCHANGED apps

\* The result is never assigned: the zero UUID, which no row has.
mustParseUUID(s) == None

\* GetByID and UpdateReceiverKey, of the session the peer opened.
FindSession(r) ==
  LET s == mustParseUUID(<<req[r].peer, req[r].user>>)
  IN /\ At(r, "complete")
     /\ completed' = IF s \in sessions THEN completed \union {s} ELSE completed
     /\ End(r)
     /\ UNCHANGED <<accounts, published, sessions>>

------------------------------------------------------------------------------
(* Failures                                                                 *)

\* app.Shutdown closes the context of every request, at any other time a
\* statement fails with its connection.  A write may have been committed.
DbError(r) ==
  /\ Running(r)
  /\ \/ phase = "draining" /\ UNCHANGED service
     \/ Fault /\ UNCHANGED <<phase, schema>>
  /\ Written(r) \/ UNCHANGED tables
  /\ End(r)
  /\ UNCHANGED apps

\* Requests that have not been answered end with the process.
Die ==
  /\ Fatal
  /\ req' = [r \in Reqs |-> IF Running(r) THEN Idle ELSE req[r]]
  /\ UNCHANGED <<tables, apps>>

Stop ==
  /\ Exit
  /\ \A r \in Reqs : ~Running(r)
  /\ UNCHANGED <<tables, req, apps>>

------------------------------------------------------------------------------
(* The apps                                                                 *)

\* saveToken, or initiateSession if the answer has the peer's key.
Receive(r) ==
  /\ At(r, "ok")
  /\ \/ /\ req[r].peer = None
        /\ tokens' = tokens \union {req[r].user}
        /\ UNCHANGED holds
     \/ /\ req[r].peer # None
        /\ holds' = IF req[r].key THEN holds \union {<<req[r].user, req[r].peer>>}
                                  ELSE holds
        /\ UNCHANGED tokens
  /\ End(r)
  /\ UNCHANGED <<service, tables, leaked>>

\* The connection is lost before the answer arrives.
Lose(r) ==
  /\ At(r, "ok")
  /\ Fault
  /\ End(r)
  /\ UNCHANGED <<phase, schema, tables, apps>>

Expire(u) ==
  /\ tokens' = tokens \ {u}
  /\ UNCHANGED <<service, tables, req, holds, leaked>>

\* sendMessage without a key for v: initSession is called and not awaited, and
\* its request may not get through; the message is sent in the clear.
SendMessage(r, u, v) ==
  /\ phase = "listening"
  /\ Authorized(u)
  /\ <<u, v>> \notin holds
  /\ leaked' = TRUE
  /\ InitSession(r, u, v) \/ UNCHANGED <<service, tables, req>>
  /\ UNCHANGED <<tokens, holds>>

------------------------------------------------------------------------------
Statement(r) ==
  \/ /\ \/ CreateUser(r) \/ FindUser(r) \/ StorePublicKey(r)
        \/ FindReceiver(r) \/ CheckSession(r) \/ CreateSession(r) \/ FindSession(r)
     /\ UNCHANGED <<service, apps>>
  \/ DbError(r)

Arrive(r) ==
  \E u \in Names :
    \/ Register(r, u)
    \/ Login(r, u)
    \/ UpdatePublicKey(r, u)
    \/ \E v \in Names :
         \/ InitSession(r, u, v) /\ UNCHANGED apps
         \/ CompleteSession(r, u, v)
         \/ SendMessage(r, u, v)

Boot == Proceed /\ UNCHANGED <<tables, req, apps>>
Operate == (Start \/ Signal) /\ UNCHANGED <<tables, req, apps>>

Init ==
  /\ ServiceInit
  /\ accounts = {} /\ published = {} /\ sessions = {} /\ completed = {}
  /\ req = [r \in Reqs |-> Idle]
  /\ tokens = {} /\ holds = {} /\ leaked = FALSE

Next ==
  \/ Boot \/ Operate \/ Die \/ Stop
  \/ \E r \in Reqs : Arrive(r) \/ Statement(r) \/ Receive(r) \/ Lose(r)
  \/ \E u \in Names : Expire(u)

Spec == Init /\ [][Next]_vars

\* Docker starts what ended by itself, main goes on, a statement ends.
FairSpec ==
  /\ Spec
  /\ WF_vars(Boot)
  /\ WF_vars(Stop)
  /\ \A r \in Reqs : WF_vars(Statement(r))

------------------------------------------------------------------------------
(* Properties                                                               *)

\* The shape of every variable of the service, the database and the apps.
TypeOK ==
  /\ ServiceTypeOK
  /\ accounts \subseteq Names
  /\ published \subseteq Names
  /\ sessions \subseteq Pairs
  /\ completed \subseteq Pairs
  /\ req \in [Reqs -> Requests]
  /\ tokens \subseteq Names
  /\ holds \subseteq Pairs
  /\ leaked \in BOOLEAN

\* A request to open a session from u to v, answered or not.
Opening(r, u, v) ==
  req[r].user = u /\ req[r].peer = v /\ req[r].pc \notin {"idle", "complete"}

\* HasSession and Create are two statements (session.go:65 and 97): a row for a
\* pair that has one comes only from a request that arrived before the first
\* row was there, never from a retry or a later call from either side.
LateCreatesNothing ==
  [][\A u, v \in Names :
       <<u, v>> \in sessions' \ sessions =>
         \E r \in Reqs : Opening(r, u, v) /\ ~req[r].late]_vars

\* InitSession answers one user with a given peer's key at most once: nobody's
\* session key is replaced by the answer of a second request, however the
\* requests overlap, fail or are cut off (session.go:97).
GrantedOnce ==
  \A r \in Reqs, u, v \in Names :
    At(r, "ok") /\ Opening(r, u, v) =>
      /\ <<u, v>> \notin holds
      /\ \A s \in Reqs : At(s, "ok") /\ Opening(s, u, v) => s = r

\* Through crashes, retries and statements whose outcome is unknown, tables and
\* apps together only do what the directory does.
D == INSTANCE Directory WITH known <- holds
ImplementsDirectory == D!Spec

\* A service that was killed, failed to start or was told to stop ends up
\* listening or stopped: the migration can be run again on any schema it may
\* find, and app.Shutdown waits for no request for ever (main.go:219).
Settles ==
  phase \notin {"listening", "stopped"} ~> phase \in {"listening", "stopped"}

\* README.md:20: all messages and files are encrypted with AES-256.
Encrypted == ~leaked

------------------------------------------------------------------------------
(* The inductive invariant                                                  *)

\* Who is served has an account; rows, keys and tokens have their accounts.
Rooted ==
  /\ tokens \subseteq accounts
  /\ published \subseteq accounts
  /\ \A u, v \in Names : <<u, v>> \in sessions => u # v /\ {u, v} \subseteq accounts
  /\ \A r \in Reqs :
       req[r].pc \in {"store", "receiver", "check", "insert", "complete", "ok"}
         => req[r].user \in accounts

\* Requests know what they know from the tables.
Informed ==
  \A r \in Reqs :
    /\ req[r].pc = "idle" => req[r] = Idle
    /\ req[r].pc # "idle" => req[r].user \in Names
    /\ req[r].pc \in {"create", "find", "store"} => req[r].peer = None
    /\ req[r].pc \in {"receiver", "check", "insert", "complete"} => req[r].peer \in Names
    /\ req[r].pc \in {"check", "insert"} => req[r].peer \in accounts \ {req[r].user}
    /\ req[r].key => req[r].peer \in published
    /\ req[r].late => Paired(req[r].user, req[r].peer)
    /\ req[r].pc = "insert" => schema = "full" /\ ~req[r].late
    /\ req[r].pc = "ok" /\ req[r].peer # None =>
         <<req[r].user, req[r].peer>> \in sessions /\ ~req[r].late

\* Keys come from rows, and no row is ever completed.
Granted ==
  /\ completed = {}
  /\ \A u, v \in Names : <<u, v>> \in holds => <<u, v>> \in sessions /\ v \in published
  /\ GrantedOnce

IndInv == TypeOK /\ Rooted /\ Informed /\ Granted
=============================================================================
