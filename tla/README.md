# Formal model of the yue_liao service

yue_liao is an instant messenger: a Go API service (`src/backend/services/api`)
with a WebSocket hub, PostgreSQL, Redis and MinIO behind it, and a Flutter client
(`src/frontend/yue_liao_app`). This directory holds TLA+ modules translated from
that code, the TLC configurations that check them on small instances, and proofs
that TLAPS checks for every instance.

Paths below are relative to `src/backend/services/api/` (server) or
`src/frontend/yue_liao_app/lib/core/` (client) unless they start with `src/`.

## 1. Inventory

### 1.1 Components

| Component | State it keeps | Operations that change it | Talks to |
|---|---|---|---|
| Hub (`internal/websocket/hub.go`) | `clients` by user id, `userClients` by username, one mutex; the unbuffered channels `register`, `unregister`, `broadcast` | `Run` (one goroutine), `SendToUser`, `SendMessage`, `GetUnreadMessages` | Redis, messages table, each client's `send` channel |
| Connection (`Client` in `hub.go`) | the buffered channel `send` (256), the socket | `ReadPump`, `WritePump`, `handleMessage`, `sendError` | hub, peer |
| WebSocket handler (`internal/handlers/websocket.go`) | none | `HandleWebSocket`, `sendOfflineMessages` (a goroutine per connection) | hub, messages table |
| Message repository (`internal/database/message_repository.go`) | table `messages` | `Create`, `MarkAsRead`, `MarkConversationAsRead`; queries | PostgreSQL |
| Message handlers (`internal/handlers/message.go`) | none | the REST forms of the same | message repository |
| Presence (`internal/database/redis.go`) | keys `user:online:<id>`, no expiry | `SetUserOnline`, `SetUserOffline` | Redis |
| File handler (`internal/handlers/file.go`) | the map `uploads` and the `UploadState`s in it, **no lock** | `InitUpload`, `UploadChunk`, `CompleteUpload`, `AbortUpload`, `cleanupExpiredUploads` | MinIO, message repository |
| Sessions (`internal/handlers/session.go`, `internal/database/session_repository.go`) | table `sessions`, unique per (initiator, receiver) | `InitSession`, `CompleteSession` | PostgreSQL |
| Auth, users, JWT (`handlers/auth.go`, `user_repository.go`, `middleware/jwt.go`) | table `users` | `Register`, `Login`, `UpdatePublicKey` | PostgreSQL |
| Service (`main.go`, `database/postgres.go`) | where start and shutdown are, the schema | connect, `RunMigrations`, listen, signal, shutdown | everything above |
| Chat socket (`services/chat_websocket_service.dart`) | connection state, channel, two timers, attempt counter, token | `connect`, `disconnect`, `reconnect`, callbacks of the channel and the timers | server's `/ws` |
| Chat provider (`providers/chat_provider.dart`) | conversations, messages by conversation | pushes, `loadConversations`, `loadMessages`, `sendMessage`, `initSession` | chat socket, REST, key store |
| File clients (`services/file_upload_service.dart`, `file_download_service.dart`) | progress of one transfer | `uploadFile`, `downloadFile`, cancellation | file handler |
| Keys (`services/e2e_helper_simple.dart`, `session_service.dart`) | own key pair, session keys by user | `initialize`, `initiateSession`, `completeSession` | secure storage, REST |
| Legacy socket (`services/websocket_service.dart`), API client, auth provider, models, theme, screens | | | |

`PROJECT.json` lists each of them with the part that is modelled.

### 1.2 Interactions, and what is hard about them

* **Registry.** A user who reconnects is registered while the old connection may
  still be there. `register` overwrites the maps' entry; `unregister` deletes the
  entry of the *user*, not of the connection, and closes the channel of the
  leaving connection. Sends on a closed channel and double closes panic in Go, and
  no goroutine of a connection has a `recover`.
* **Sends.** Four goroutines write to one connection's channel: any `ReadPump`
  that delivers a message (under the hub's read lock, dropping when full), the
  connection's own `ReadPump` (blocking, no lock), the offline goroutine (no lock,
  stopping when full); `WritePump` drains it in batches.
* **The table.** A message is stored, then delivered, then acknowledged; another
  connection's backlog query can fall between any two of these. Rows turn read
  from a receipt, from REST, and from the backlog goroutine, the last *before*
  it pushes anything.
* **Presence.** A Redis error is logged and dropped; the keys have no expiry and
  survive a kill.
* **Uploads.** Request goroutines share maps without a lock, wait for MinIO and
  PostgreSQL between looking an upload up and using it, and run beside a cleanup.
  A race the Go runtime notices ends the process. Everything in memory is lost in
  a crash; the objects and the rows are not.
* **Sessions.** `InitSession` looks the receiver up, looks for a session and
  inserts one in three statements; requests of both sides overlap, answers are
  lost, and a statement may fail after it was committed. The row outlives all
  that, and the app's key depends on one answer.
* **Service.** Start-up ends the process on the first error and docker runs it
  again; the migration meets whatever schema is there; shutdown cancels the
  statements of the requests it waits for.
* **Client.** Callbacks of a channel that was already replaced still run; the
  attempt counter is reset before the handshake; `initSession` is not awaited.

Every hazard is listed at its line in `PROJECT.json` ("hazards"), with the
properties that would catch it.

### 1.3 What makes each component correct

* *Hub*: the two maps agree; whoever can be found has an open channel; a channel
  is closed once and only after its reader is done with it; a frame is about a
  stored row and reaches only whom it concerns; nothing is pushed twice in one
  form; one sender's messages keep their order, and so does a backlog; who stored a
  message gets an answer about it; an entry dies with its connection, and only the
  removal of an older connection hides a newer one; presence follows the registry; a
  dead connection is released and nothing waits for ever.
* *Mailbox*, the promise of the service without its goroutines: messages are
  never altered or lost, only their receiver turns them read.
* *File handler*: only the owner works on an upload; an announced file is
  completely stored; a completed upload takes nothing more; an abort removes
  everything. Seen from outside (`FileShare`): one owner and one length for good,
  nothing stored outside them, nothing removed but by an abort.
* *Sessions*: no row for a pair from a request that arrived after its first, no
  key granted twice, keys and rows only of accounts that exist. (One row per pair
  is more than the code does: two overlapping requests in opposite directions
  make two.)
* *Service*: it ends up listening or stopped.
* *Chat socket*: a connection in the end for whoever stays signed in, each lost
  connection replaced once, one socket that the service knows of.
* *Chat provider*: nothing leaves the app in the clear (it does).

## 2. Modules

| Module | What it is |
|---|---|
| `Hub` | hub, connections, offline goroutine, messages table, presence keys |
| `Mailbox` | abstract specification; `Hub` implements it (`ImplementsMailbox`) |
| `MCHub` | users and connections of the instances, symmetry |
| `HubProofs` | the hub's inductive invariant: types, registry, who hides whom, stored rows, answers owed, presence |
| `HubDeliveryProofs` | on top of it: nothing twice, live order, backlog order, every message answered, closed channels |
| `HubMailboxProofs` | the refinement `Hub` to `Mailbox` |
| `Uploads` | the file handler with MinIO and the announced messages |
| `FileShare` | abstract specification; `Uploads` implements it (`ImplementsFileShare`) |
| `MCUploads` | its instances |
| `UploadsProofs` | its inductive invariant, its consequences, the chunk count, the refinement |
| `ChatSocket` | the app's WebSocket service and the screens that connect and disconnect it |
| `MCChatSocket` | its instance |
| `ChatSocketProofs` | its inductive invariant, its consequences, and that the bound on the channels hides nothing |
| `Service` | start, migration, shutdown, death and restart of the process |
| `Sessions` | extends `Service`: accounts, public keys and sessions as statements of concurrent requests, and the tokens and keys of the apps |
| `Directory` | abstract specification; `Sessions` implements it (`ImplementsDirectory`) |
| `MCSessions` | its instances |
| `SessionsProofs` | its inductive invariant, its action properties and the refinement |

### 2.1 Hub

One action per step a goroutine can be interrupted at. `Conns` are the sockets
ever dialled; each belongs to the user it was authenticated as (`Owner`) and is
used once, so a reconnection is another element of `Conns`.

| Variable | Code |
|---|---|
| `hub` | where `Run` is: its `select`, or inside a case for one client |
| `clients`, `userClients` | the two maps |
| `send`, `closed` | `Client.send` and whether it was closed |
| `reader`, `out` | where `HandleWebSocket`/`ReadPump` is, and the frame it is about to send |
| `writer`, `connUp` | `WritePump`, the socket |
| `offline`, `batch` | `sendOfflineMessages` and the rows it still has to push |
| `messages` | the table, in `created_at` order; a row's id is its place |
| `online`, `stale` | the Redis keys; the users whose key is known to lag (history) |
| `wrote` | the frames about rows that reached the peer (history) |

A frame is its type and the row it is about. A registration is three steps,
because the channel hand-over lets the connection's goroutines start before the
maps are written: `HubRegister`, `HubAdd`, `HubSetOnline`. An unregistration is
`HubUnregister`, `HubRemove` (or `HubRemoveAbsent`), `HubSetOffline`; its Redis
call is made with the mutex held, which is why `SendToUser` needs `LockFree`.
`ReadChat`, `Deliver` and `Reply` are the three steps of a chat message;
`ReadChatUnknown` is an INSERT that is committed although `Create` returns an error
(the connection breaks before the answer): the row is there, nobody gets it live, and
the sender is told an error. A Redis call that fails may have taken effect all the same.
`OfflineQuery`, `OfflineMark` and one `OfflinePush` or `OfflineSkip` per row are
`sendOfflineMessages`; `Halt` is what a panic or a kill leaves.

Readings of the source that need a word:

* The repository does not compile as committed (the handler uses unexported
  fields of `websocket.Client`, `main.go` declares `BodyLimit` twice, a
  `*string` public key is used as a `string`, and a missing `Email` field). The
  model takes each statement for what it says.
* `sendOfflineMessages` looks the sender up with the *message* repository's
  `GetByID`, which finds no message under a user's id, and so skips each row.
  `SenderFound` is a constant: `{FALSE}` is the program as written, `{TRUE}` the
  look-up that was meant, which keeps the pushing branch of the code checked.
  The violations below use `{FALSE}`.
* The row of a message has `created_at` from the server's clock; the model orders
  rows by insertion.
* `broadcast` has no sender in the program.

### 2.2 Uploads

A request is a goroutine (`Reqs`), its place in its handler is `req[r]`.
`uploads` are the keys of the shared map, `owner`, `count` and `chunks` the
fields of the `UploadState`s, `objects` the bucket as a set of paths
`<<user, upload, chunk>>`, `announced` the file messages. A handler is cut where
it waits for MinIO or PostgreSQL and where it writes a shared map:
`UploadChunk`, `PutObject` (or `PutObjectError`, which may have stored the
object), `MarkChunk`; `CompleteUpload`, `Announce` (or `AnnounceError`, or
`AnnounceUnknown`, whose INSERT is committed although it reports an error),
`Delete`; `AbortUpload`, one `RemoveObject` per chunk with its error ignored,
`Delete`. `Expire` is one entry dropped by the cleanup. `FatalRace` is the Go
runtime noticing two accesses to one map: possible only while `Racing`, and then
the process ends; unnoticed, the accesses take either order. `aborted` and
`tainted` are history: which aborts were accepted, and which of these were
overtaken by a chunk, an error of the store or a crash. `doubtful` is history too: the
messages whose INSERT reported an error. Their uploads stay in the map, the client is
told of a failure, and its retry announces the file again; `CompletedIsGone` is about
the other messages.

`CalculatedChunks` is the arithmetic of `file.go` for a client that sends no
chunk count.

`FileShare` is what is left of it without requests, upload map, marks, errors and
crashes: `Open`, `Store`, `Announce`, `Abort` and `Remove`, on `owner`, `count`,
`objects`, `announced` and `aborted`, which mean what they mean in `Uploads`. `owner` and
`count` of an upload that left the map are those it had.

### 2.3 ChatSocket

Dart runs one callback at a time, so each callback of `chat_websocket_service.dart`
is an action; `disconnect` is two, split at its `await`. `state`, `channel`,
`attempts`, `timer` and `pinging` are the fields of the service. `link` says of
each `WebSocketChannel` what it is about to do: the service never cancels a
channel's listeners, so one that was replaced still calls `OnError` or `OnDone`,
and neither looks at which channel calls. An error is followed by `onDone` in the
same turn of the event loop (`Turn`). `screen` is what the splash, sign-in and
conversation screens do: `connect` after a sign-in, `disconnect` at a sign-out.
`dials` says whether the platform takes the configured URL; if not, every dial throws,
and the `catch` of `_establishConnection` schedules a reconnect and leaves the attempts
as they are. Each handshake `offers` the token of the last sign-in; the server accepts it
(`Accept`) unless it has expired (`Refuse`), and does not look at it again. Tokens live
24 hours (`main.go:229`), nothing renews them, and they expire in the order of the
sign-ins: `expired` is how many have. `faults` and `signIns` only count.

Things the code does that no document speaks of, so that nothing is claimed about them:

* the `onDone` of the channel that `disconnect` closed comes after the timers were
  cancelled and arms the reconnect timer again, so the app dials after a sign-out;
* `_establishConnection` forgets the attempts before the handshake, so a server that
  refuses every one is dialled for ever. `maxReconnectAttempts` ends something only where
  every dial throws;
* so a user who is still signed in when the token expires, and then loses the
  connection, is refused at every handshake and never connected again until the next
  sign-in, while the app dials on.

`SocketsBounded` says what is left of order: each sign-in brings at most one socket or
pending dial.

### 2.4 Service and Sessions

`phase` is where `main` is: `NewPostgresDB`, `RunMigrations`, the file handler and
`Listen`, then `listening`; a signal leads to `draining` and, when every request
has ended, to `stopped`; a fatal error or a kill to `down`, from where docker
starts it again. `schema` is what the database has: nothing, what `RunMigrations`
makes, or what `migrations/001_init.sql` makes. The last is not mounted by
`docker-compose.yml`, so both initial databases are possible: an empty one, and
one an operator prepared.

A request is a goroutine (`Reqs`); `req[r].pc` is the statement it will execute
next, `"ok"` an answer on its way to the app. `InitSession` is `FindReceiver`,
`CheckSession`, `CreateSession`; the public key in its answer is the one
`FindReceiver` read (`key`). `late` is history. `DbError` is a statement that
fails for a reason outside the handler: the connection is lost, or `app.Shutdown`
closes the context that every statement is given (`c.Context()` is fasthttp's
request context). It may have been committed all the same (`Written`). `Die` takes
the requests that were not answered; rows, tokens (the JWT secret is
configuration) and answers on their way survive. `tokens` and `holds` are what the
apps keep in their secure storage; `SendMessage` is the message of an app that has
no key for the peer.

Readings of the source that need a word:

* `session.go:86` reads the user's own row into a variable it does not use, which
  Go refuses to compile; the statement changes nothing and is taken with the
  insert. `session.go:109` needs a string where the public key is a `*string`:
  the model takes "no key" for an answer without a key.
* `GetByUsers` and `GetByID` scan `receiver_key` into a string, and pgx refuses
  to scan NULL into one: `Readable` is the condition under which it succeeds.
* `mustParseUUID` never assigns its result, so `CompleteSession` looks for the
  zero UUID. It is modelled with that function, so that a repair of the function
  is a change of one definition. Its second statement is never reached, which makes it one step.
* A request for `CompleteSession` names a session of which its user is the
  receiver; another user's is refused.
* The e-mail address may collide with that of any account (its `validate` tag is
  not used, an empty one is accepted): `CreateUser` may fail while there are
  accounts.
* Hub takes the schema of `001_init.sql` for granted: its statements name
  `messages.session_id`, which `RunMigrations` does not make.
* After a signal no request arrives. An idle kept-alive connection could still
  bring one before it is closed; it would be one of those under way.
* The two ends of a session derive different keys (`_deriveKey` mixes in the
  *other* side's name), so that neither decrypts the other's messages. What a key
  computes is not in the model.

## 3. Runs

| Run | Instance | Shows |
|---|---|---|
| `hub_churn` | one user, three connections, channels of one frame, typing frames, every fault | `MapsAgree`, `RegisteredOpen`, `OpenUntilRemoved`, `RegisteredLives`, `UnreachableIsEvicted`, `PresenceMirrored`, `IndInv` |
| `hub_delivery` | two users with a connection each, two messages, channels of two frames, kills, INSERTs of unknown outcome | `PushedIsStored`, `SentOnce`, `LiveOrder`, `OldestFirst`, `StoredIsAnswered`, `DeliveryInv`, `NothingAfterClose` |
| `hub_mailbox` | two users, one message, every kind of request, kills, INSERTs of unknown outcome, both sender look-ups | `TypeOK`, `IndInv`, `ImplementsMailbox` |
| `hub_live` | one user, two connections, channels of two frames, drops and database errors, `FairSpec` | `DroppedIsReleased`, `WriterFollows`, `QueueIsServed` |
| `hub_empty_backlog` | as `hub_delivery`, one message, sender never found | `EmptyBacklogIsHarmless` is violated |
| `hub_eviction` | one user, two connections | `OpenIsReachable` is violated |
| `hub_queued` | two users, one message | `QueuedUntilPushed` is violated |
| `uploads` | two users, one upload id, three concurrent requests, three messages, every fault | `TypeOK`, `WorksForOwner`, `AnnouncedIsStored`, `CompletedIsGone`, `AbortRemovesAll`, `IndInv`, `ImplementsFileShare` |
| `uploads_recipient` | as `uploads` without faults | `RecipientCanDownload` is violated |
| `chat_socket` | three sign-ins, expiring tokens, four failures, two attempts, four channels, dials that succeed or all throw, `FairSpec` | `TypeOK`, `NeverStranded`, `SocketsBounded`, `OneSocket`, `IndInv`, `Reconnects` |
| `sessions` | two users, two requests at a time, one fault, stops and starts, both schemas, `FairSpec` | `TypeOK`, `IndInv`, `GrantedOnce`, `LateCreatesNothing`, `ImplementsDirectory`, `Settles` |
| `sessions_encrypted` | two users, one request, no fault | `Encrypted` is violated |

Every property of a passing run has a mutant in `PROJECT.json`: a slip in one
definition after which TLC finds the property violated.

### 3.1 Bounds

* *Connections*: the registry hazards need an old and a new connection of one
  user; a third gives an entry that was overwritten and then deleted by an older
  one. Other users' entries are independent of it.
* *Channels*: capacity one meets "full" and "blocked" at once; capacity two, with
  two messages, is the least in which the order of frames can be wrong, and the least in
  which a batch of `WritePump` can be taken too early or too late.
* *Messages*: two rows of one sender for order and for batches of which some rows
  are pushed; one where the run asks about the table only.
* *Uploads*: chunk counts of one, two and three (the sizes 1 and 2 over chunks
  of 2 with no count asked give 1 and 3; counts 1 and 2 are asked for); three
  requests let a chunk, a completion and an abort of one upload overlap. Uploads
  share no state but the map's keys, so one id is enough. `MaxAnnounced` bounds the
  messages, since an INSERT of unknown outcome may be retried for ever: three are one
  retry more than two overlapping completions.
* *Chat socket*: a second sign-in meets the callbacks of the first visit's
  channel, a third those of two. Two attempts are enough to reach the bound: an
  error and its `onDone` count one each. Four channels are one more than the
  sign-ins, so that a dial always finds a free one (theorem `EveryDialHasALink`: as
  many as sign-ins would do).
  `MaxFaults` bounds the failures, without which "connected in the end" has no
  meaning; every failure may come at any point. A refusal for an expired token is not a
  failure and is not bounded.
* *Sessions*: two users are a pair, with both directions of a session; two
  requests let any two statements interleave, in particular both sides' checks
  before either's insert. One fault is a lost answer, a failed statement or a
  death at any point; the statements cancelled by a shutdown, the shutdowns and
  the starts are not bounded. The proofs have no bound.
* *Symmetry*: the connections of one user are interchangeable (`hub_churn`), and so are two
  users who have a connection each, if the connections change with them
  (`hub_delivery`), and the users and the requests of `uploads`. No run with a liveness property uses symmetry.
* `Inputs` and `Faults` choose which requests and faults an instance has; the
  passing runs together have all of them.

### 3.2 Fairness

`FairSpec` has weak fairness of what the Go scheduler, or a call that returns,
brings about: `Run`'s own steps and its serving of a client that waits at one of
its channels, the steps of a `ReadPump` that handles a message or leaves, and the
steps of a `WritePump`. Go's `select` chooses among ready cases at random, so no
waiting client is passed over for ever. No fairness is assumed of the peer, of
the network, of failures, or of requests: nobody has to send, drop, or reconnect.
`WF_vars(WriterPingFail(c))` is the 54-second ticker, whose ping on a dead socket
fails.

`DroppedIsReleased` has two exceptions, which the code really has: a `Wedged`
connection (`ReadPump` blocked on its own full channel after `WritePump` left) and
a hub that was stopped.

`ChatSocket!FairSpec` has weak fairness of the event loop (a due callback or an
armed timer runs), of the answer to a handshake nothing disturbs, and of the end
of a close. The answer is the one its token deserves: an expired one is refused, and
nothing says that a refused dial is accepted later. Nobody has to sign in or out, no
failure has to happen, and no token has to expire. `Reconnects` speaks of a user who
stays signed in, on a platform that takes the URL, until the token expires.

`Sessions!FairSpec` has weak fairness of the steps of start-up with docker's
restart (`Boot`), of the end of a shutdown, and of every statement: PostgreSQL
answers or the connection breaks (no statement has a timeout of its own). Nobody
has to start what was stopped, send a request, or stop the service, and an answer
need not arrive. That faults are bounded says that the dependencies come back.

### 3.3 Findings

1. `GetUnreadMessages` reads `messages[0]` before anybody has asked whether there
   is a message (`hub.go:211`): the first connect of a user without unread
   messages ends the process.
2. Unregistering an old connection removes the entry of the new one
   (`hub.go:85-87`): the user stays connected and is unreachable.
3. A backlog is marked read before it is pushed (`hub.go:211`), and what is then
   skipped is neither pushed nor fetched again.
4. A file's chunks are downloaded under the id of whoever asks (`file.go:313`),
   so the recipient of a file finds none of them.

5. `sendMessage` sends before, and whether or not, there is a session key, in the
   clear (`chat_provider.dart:246-249`), where `src/README.md:20` says that all
   messages are encrypted.

One more reading has no property, because no document says what should happen: an
existing session cannot be read (`receiver_key` is NULL, `session_repository.go:93`) and
is never completed (`session.go:254`), so a user whose peer opened the session, or who
opened it before the peer had a key, or whose answer was lost, gets no key, and by
finding 5 writes in the clear from then on. `IndInv` states `completed = {}` because the
proofs need it, not as something desirable.

## 4. Proofs

### 4.1 Hub (`HubProofs`, `HubDeliveryProofs`, `HubMailboxProofs`)

From `HubAssumption` (types of the constants; `None` is no connection; the
capacity is positive) and for any users, connections, capacity, faults and number
of messages:

* `HubInvariant`: `Spec => []IndInv`;
* `TypeCorrect`, `OneRegistry` (`MapsAgree`), `NeverSendsOnClosed`
  (`RegisteredOpen`), `ClosedOnce` (`OpenUntilRemoved`), `PushesAreStored`
  (`PushedIsStored`), `PresenceIsMirrored` (`PresenceMirrored`);
* `NoStaleEntry` (`RegisteredLives`), `OnlyEvictionHides` (`UnreachableIsEvicted`), and
  `OnceIsReachable`: `OpenIsReachable` under the assumption that `Owner` is
  injective, that is, that nobody reconnects;
* `DeliveryInvariant`: `Spec => []DeliveryInv`, and from it `NothingTwice`
  (`SentOnce`) and `LiveInOrder` (`LiveOrder`); `ClosedStaysClosed`
  (`NothingAfterClose`), an action property;
* `BacklogInOrder` (`OldestFirst`) and `EveryMessageIsAnswered` (`StoredIsAnswered`);
* `Implements`: `Spec => ImplementsMailbox`.

With these every safety property of the hub's passing runs is proved.

`RegisteredOpen` is not inductive: it depends on `Run` finishing with one client
before it takes the next. The argument is this. An entry is written only by
`HubAdd`, whose connection has, by `HubServes`, a reader that has not yet been
given up; by `OpenUntilRemoved` its channel is open. A channel is closed only by
`HubRemove`, which in the same step deletes the entry of the connection's user;
`RegisteredOpen` says that no other user's entry names that connection. For
`OpenUntilRemoved` itself, `HubServes` says that while a connection is being
registered its reader cannot be past `ReadPump`, and that the connection being
unregistered still has its channel. `PushedIsStored` needs what is on its way to a
channel: `PendingIsStored` says that the frame a `ReadPump` holds is about a row it
stored itself and that a backlog names rows of its user. Rows are only appended
and their receiver never changes, so frames stay about the rows they were about.
The proof has one step per action and cites `TypeOK` for the domains.
`PresenceFollows` is `PresenceMirrored` with the middle of a case filled in: the
key of the user being served, and only that one, is a call behind.

`RegistryFollows` does the same for `RegisteredLives` and `UnreachableIsEvicted`:
inside a case the connection being served is one write of the maps behind. An
entry appears in `HubAdd`, for a connection that `HubServes` says is alive; a reader
is given up in `HubUnregister`, which makes its connection the one being served,
and `HubRemove` then deletes the entry. That step is also the only one that takes
an entry from a connection that is still read: by `MapsAgree` and the guard of
`HubRemove` the entry was of the same user, and the connection just removed is the
witness of `Evicts`, which stays one because nobody is read again once given up.
This puts a bound to finding 2: it takes two connections of one user
(`OnceIsReachable`). `HubOrReaders` is the lemma behind it and behind
`RegistryStep`: a step is one of `Run`, or one that moves a single reader along and
leaves the maps alone.

What is delivered needs more than what is queued. `StillToSend` ties each
goroutine to the frames that are out: the row a `ReadPump` is about to push is
newer than every live frame of its own, wherever that frame is, so it is new and
comes last; its answer is still to come; nothing of the rest of a backlog is out,
because a backlog shrinks by what is pushed and is queried once
(`BacklogStartsOnce`). Both pushers may hand the same row to one connection, once
each: that is what the code does, and why `SentOnce` speaks of equal frames.
`EnqueueOrder`, `TailOrder` and `EmptyOrder` say what the three operations on a
channel do to the order; the step lemma puts them together per action. It uses
`IndInv`, in particular that no frame is about a row that does not exist: only so
is the id of a new row larger than all those that are out.

`OldestFirst` and `StoredIsAnswered` are inductive given `IndInv` and `DeliveryInv`.
Their proofs do not go through the actions one by one: `ChannelStep` says once what a
step may do to what a connection has been sent (nothing; write some of what waits,
in order; lose the writer; or append one frame, which is the reader's `out`, a live
push, or a row of the backlog), and both use it. For the order, a row is pushed
only when it is the oldest of the `batch`, so it is newer than all that was pushed
(the third conjunct of `OldestFirst`) and older than all that is left. For the
answers, `RowStep` and `OutStep` say that a row is stored only by a reader that
then holds its answer, and that this reader lets it go only into its channel.
`StoredIsAnswered` needs that a reader which starts a message owes none:
`NoAnswerOwed`, a conjunct of `IndInv`, without which a second message would
overwrite the first one's answer. It ends with the `WritePump`, because what it had
not written is then lost; that is what "running" says in the property.

`ClosedStaysClosed` is where `RegisteredOpen`, `OpenUntilRemoved` and the guard of
`OfflinePush` meet, one for each of the three senders. For `Implements` a frame
put on a channel is `Hand`, or a stutter if it is about no row or is there
already; a failing writer or `Halt` is `Lose`; a flush changes nothing that
Mailbox sees; the marks are `Read` and the insert is `Post`.

### 4.2 Uploads (`UploadsProofs`)

From `UploadsAssumption` (positive chunk size and file sizes; `None` is no user
and no upload):

* `UploadsInvariant`: `Spec => []IndInv`;
* `UploadsTypes` (`TypeOK`), `OwnersOnly` (`WorksForOwner`), `FilesAreStored` (`AnnouncedIsStored`),
  `CompletedOnce` (`CompletedIsGone`, for every message announced without an error),
  `AbortsAreComplete` (`AbortRemovesAll`);
* `CalculatedCount`: for every size the count the server works out is the size
  over the chunk size rounded up, and two more when the size is a multiple of it;
* `ImplementsShare`: `Spec => ImplementsFileShare`.

What is announced rests on a chain: a chunk is marked only after its object was
put (`MarkedIsStored`), the marked chunks are among the indices, so as many marks
as chunks means all of them (a fact about finite cardinalities, lemma
`AllMarked`), and objects are removed only by an abort. `InsertIsAlone` keeps the
upload that is not yet in the map to its own request; `AbortSweeps` says what the
loop of an abort has already removed.

For `ImplementsShare` the answer to `InitUpload` is `Open`, and its insertion into the
map is a stutter; `PutObject`, and a `PutObjectError` that stored its object, are
`Store`, under the owner's path by `WorksForOwner` and inside the length because
`Accepted` compared the index with the count; the insert of the message is
`Announce`, whose condition is `MarkedIsStored` of the request that makes it; each
round of an abort's loop is `Remove`, of an upload that is aborted by `AbortSweeps`.
What an expiry, a crash or a detected race forgets was no part of the promise: each
of them is a stutter.

### 4.3 Chat socket (`ChatSocketProofs`)

From `ChatSocketAssumption` (finitely many channels, a positive bound of attempts):

* `ChatSocketInvariant`: `Spec => []IndInv`; `SocketTypes` (`TypeOK`);
* `NobodyIsStranded` (`NeverStranded`), `SocketsAreBounded` (`SocketsBounded`),
  `FirstVisitHasOneSocket` (`OneSocket`);
* `EveryDialHasALink`: if there are at least as many channels as sign-ins, a dial that
  is due finds a free one. So `Links`, which the code does not have, takes away no
  behaviour that the count of sign-ins leaves.

`SocketsBounded` is a counting argument: a dial is paid for by a sign-in or by the
timer that fires; the timer is paid for by the channel whose `onDone` armed it and
which is free from then on. Between an error and its `onDone` the timer is armed
while the channel is still counted, hence `Turn` in the property and the
conjunct `OneTurn` in the invariant. `NeverStranded` needs `AttemptsArmed`: while
the user is signed in, an attempt that is counted has left the timer armed, so a
callback that finds the bound reached changes nothing. Where every dial throws there are
no channels at all (`NothingDialled`) and the attempts are used up in the end: `GaveUp` is
the one way to be left with nothing. `OneSocket` follows from the
count, which is one during the first visit.

### 4.4 Sessions (`SessionsProofs`)

From `SessionsAssumption` (`None` is no name and no row) and `FaultsAssumption`,
for any users, requests and number of faults:

* `Invariance`: `Spec => []IndInv`; `SessionsTypes`, `OneGrant` (`GrantedOnce`);
* `NoLateRows` (`LateCreatesNothing`), an action property;
* `Refinement`: `Spec => ImplementsDirectory`.

The core of the invariant is `Informed`, what a request may rely on after its
reads: rows and keys are never taken back, so a receiver that was found stays and a
key that was read stays published. `insert` is reached only by a request that is
not late, because the check of `CheckSession` looks in both directions; with
`completed = {}` an existing session is never answered, so an answer that grants a
key comes from an insert, and the unique constraint allows one per direction. The
lemmas follow the life of a request (`Arriving`, the moves, `Ending`,
`Receiving`); `Ending` has every way to end with or without its write, which is
what makes the statements of unknown outcome cheap. `Effect` says what one step
does to the tables, and the two theorems about steps use it.

### 4.5 What is only model-checked

Every safety property, action property and refinement of a passing run is
proved. Liveness (`DroppedIsReleased`, `WriterFollows`, `QueueIsServed`, `Reconnects`, `Settles`) stays with TLC: the
prover has no support for `ENABLED` and so none for weak fairness. The same holds
for anything that needs induction over data, and for recursive operators; the
modules have none.

## 5. Not modelled

* *Read-only queries* and the handlers around them; `MarkAsRead` of the REST
  interface parses every id to the zero UUID and updates no row. `GetSession` and
  `GetUserSessions` fail on the NULL key.
* *Repository methods without a caller*: `Update`, `GetByEmail`, `Delete`.
* *Configuration, connection pools, health checks, gateway, images*: I/O. Redis
  may be missing from the start; Hub has its failures.
* *Cryptography*: which peers an app has a key for is modelled, what a key
  computes is not.
* *Lists of the chat provider*: as written no pushed frame carries a sender's name
  and both list queries fail, so no message ever reaches them, and a model of them
  would be of a program that is not there.
* *Legacy socket, models, theme, screens*: an earlier form of the chat socket,
  data classes and layout.
* *What the chat socket sends and receives*: it changes none of the service's
  state; `reconnect()` has no caller.
* *File clients*: sequential loops over the file handler's requests; `Uploads`
  has their requests in every order.

## 6. Plan

What a further step would add:

1. An abstract specification of the hub's registry (who can be found, who is
   connected), implemented by `Hub` as `Mailbox` is, with `UnreachableIsEvicted` as
   its invariant.
2. `Service` on its own: that a schema, once made, stays, and that `listening` is
   reached only over a migrated one, as theorems of `Service` that `SessionsProofs`
   cites.
3. `Transfers`: the chunk loops of the file clients composed with `Uploads`.
