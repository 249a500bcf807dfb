------------------------------- MODULE Uploads -------------------------------
(***************************************************************************)
(* The file handler of the API service (internal/handlers/file.go): each   *)
(* request is a goroutine of its own, all share the map h.uploads and the  *)
(* UploadState objects it names without a lock, and between its steps a    *)
(* handler waits for MinIO and PostgreSQL.                                 *)
(*                                                                         *)
(* An object of the bucket is its path <<user, upload, chunk>>.  Of a file *)
(* message the row keeps what announces the file.  Requests that are       *)
(* refused before anything changes, and GetUploadStatus, only matter for   *)
(* the race on the maps (see Racing).                                      *)
(***************************************************************************)
EXTENDS Integers, Sequences, FiniteSets

CONSTANTS
  Users,          \* uuid of the accounts
  Ids,            \* the upload ids ever issued (a bound)
  Reqs,           \* the requests handled at the same time (a bound)
  ChunkSize,      \* bytes of a full chunk (16 MB in the code)
  Sizes,          \* the file sizes an instance uploads (a bound)
  MaxCount,       \* bound on the chunk count a client asks for
  MaxAnnounced,   \* bound on the file messages created
  Faults,         \* the kinds of fault an instance injects (a bound)
  None

ASSUME UploadsAssumption ==
  /\ ChunkSize \in Nat \ {0}
  /\ Sizes \subseteq Nat \ {0}
  /\ MaxCount \in Nat
  /\ MaxAnnounced \in Nat
  /\ Faults \subseteq {"kill", "race", "store", "database"}
  /\ None \notin Users \union Ids

VARIABLES
  up,             \* the process runs
  uploads,        \* the keys of FileHandler.uploads
  owner,          \* UploadState.UserID of the ids issued, None for the others
  count,          \* UploadState.ChunkCount
  chunks,         \* the keys of UploadState.Chunks
  req,            \* what each goroutine is doing
  objects,        \* the bucket
  announced,      \* the file messages of the messages table
  aborted,        \* history: uploads whose abort was accepted
  tainted,        \* history: aborts overtaken by a chunk, a failure or a crash
  doubtful        \* history: the places in announced of which an error was reported

uploadState == <<owner, count, chunks>>
history == <<aborted, tainted, doubtful>>
vars == <<up, uploads, uploadState, req, objects, announced, history>>

Indices(i) == 0..(count[i] - 1)
Path(u, i, k) == <<u, i, k>>

Idle == [op |-> "none", pc |-> "idle", user |-> None, id |-> None, idx |-> 0]
Free(r) == up /\ req[r] = Idle
At(r, pc) == req[r].pc = pc
Request(r, op, pc, u, i, k) ==
  req' = [req EXCEPT ![r] = [op |-> op, pc |-> pc, user |-> u, id |-> i, idx |-> k]]
Goto(r, pc) == req' = [req EXCEPT ![r].pc = pc]

\* Mutant: the goroutine ends and its request is not cleared.
StayIdle(r) == Goto(r, "idle")

Respond(r) == req' = [req EXCEPT ![r] = Idle]

\* An AbortUpload of upload i is under way.
Aborting(i) == \E r \in Reqs : req[r].op = "abort" /\ req[r].id = i

------------------------------------------------------------------------------
(* InitUpload: the state is made, then the map is written.                  *)

\* The number of chunks the server works out when the client gives none.
Quotient(size) == size \div ChunkSize
RoundedUp(size) == (size + ChunkSize - 1) \div ChunkSize
CalculatedChunks(size) ==
  LET n == Quotient(size) + 1
  IN IF n # RoundedUp(size) THEN n + 1 ELSE n

ChunkCount(size, asked) == IF asked <= 0 THEN CalculatedChunks(size) ELSE asked

InitUpload(r, u, i, size, asked) ==
  /\ Free(r)
  /\ owner[i] = None
  /\ owner' = [owner EXCEPT ![i] = u]
  /\ count' = [count EXCEPT ![i] = ChunkCount(size, asked)]
  /\ Request(r, "init", "insert", u, i, 0)
  /\ UNCHANGED <<up, uploads, chunks, objects, announced, history>>

Insert(r) ==
  /\ At(r, "insert")
  /\ uploads' = uploads \union {req[r].id}
  /\ Respond(r)
  /\ UNCHANGED <<up, uploadState, objects, announced, history>>

\* Mutant: only the existence of the upload is checked.
Exists(u, i) == i \in uploads

\* The checks of UploadChunk, CompleteUpload and AbortUpload.
Accepted(u, i) == i \in uploads /\ owner[i] = u

------------------------------------------------------------------------------
(* UploadChunk                                                              *)

\* Mutant: the chunk is marked before it is stored.
MarkFirst(r, u, i, k) ==
  /\ Free(r)
  /\ Accepted(u, i)
  /\ k \in Indices(i)
  /\ chunks' = [chunks EXCEPT ![i] = @ \union {k}]
  /\ Request(r, "chunk", "put", u, i, k)
  /\ UNCHANGED <<up, uploads, owner, count, objects, announced, history>>

UploadChunk(r, u, i, k) ==
  /\ Free(r)
  /\ Accepted(u, i)
  /\ k \in Indices(i)
  /\ Request(r, "chunk", "put", u, i, k)
  /\ UNCHANGED <<up, uploads, uploadState, objects, announced, history>>

PutObject(r) ==
  /\ At(r, "put")
  /\ objects' = objects \union {Path(req[r].user, req[r].id, req[r].idx)}
  /\ tainted' = tainted \union (aborted \intersect {req[r].id})
  /\ Goto(r, "mark")
  /\ UNCHANGED <<up, uploads, uploadState, announced, aborted, doubtful>>

\* The error of a put, the object stored or not.
PutObjectError(r) ==
  /\ "store" \in Faults
  /\ At(r, "put")
  /\ \/ UNCHANGED <<objects, tainted>>
     \/ /\ objects' = objects \union {Path(req[r].user, req[r].id, req[r].idx)}
        /\ tainted' = tainted \union (aborted \intersect {req[r].id})
  /\ Respond(r)
  /\ UNCHANGED <<up, uploads, uploadState, announced, aborted, doubtful>>

MarkChunk(r) ==
  /\ At(r, "mark")
  /\ chunks' = [chunks EXCEPT ![req[r].id] = @ \union {req[r].idx}]
  /\ Respond(r)
  /\ UNCHANGED <<up, uploads, owner, count, objects, announced, history>>

------------------------------------------------------------------------------
(* CompleteUpload                                                           *)

\* Mutant: one chunk may be missing.
AllButOne(i) == Cardinality(chunks[i]) >= count[i] - 1

AllChunks(i) == Cardinality(chunks[i]) = count[i]

CompleteUpload(r, u, i) ==
  /\ Free(r)
  /\ Accepted(u, i)
  /\ AllChunks(i)
  /\ Request(r, "complete", "announce", u, i, 0)
  /\ UNCHANGED <<up, uploads, uploadState, objects, announced, history>>

\* The INSERT of the file message takes effect.
CreateMessage(r, u) ==
  /\ At(r, "announce")
  /\ Len(announced) < MaxAnnounced
  /\ announced' = Append(announced, [id |-> req[r].id, from |-> req[r].user, to |-> u])

\* Mutant: the upload is not deleted.
AnnounceOnly(r, u) ==
  /\ CreateMessage(r, u)
  /\ Respond(r)
  /\ UNCHANGED <<up, uploads, uploadState, objects, history>>

\* The recipient u is found and the message created.
Announce(r, u) ==
  /\ CreateMessage(r, u)
  /\ Goto(r, "delete")
  /\ UNCHANGED <<up, uploads, uploadState, objects, history>>

\* The message is created and its INSERT still reports an error, as on a
\* connection that breaks before the answer: the client is told a failure.
AnnounceUnknown(r, u) ==
  /\ "database" \in Faults
  /\ CreateMessage(r, u)
  /\ doubtful' = doubtful \union {Len(announced) + 1}
  /\ Respond(r)
  /\ UNCHANGED <<up, uploads, uploadState, objects, aborted, tainted>>

\* No recipient, an unknown one, or the database fails and nothing is created.
AnnounceError(r) ==
  /\ At(r, "announce")
  /\ Respond(r)
  /\ UNCHANGED <<up, uploads, uploadState, objects, announced, history>>

\* The last step of CompleteUpload and of AbortUpload.
Delete(r) ==
  /\ At(r, "delete")
  /\ uploads' = uploads \ {req[r].id}
  /\ Respond(r)
  /\ UNCHANGED <<up, uploadState, objects, announced, history>>

------------------------------------------------------------------------------
(* AbortUpload, and the cleanup goroutine                                   *)

AbortUpload(r, u, i) ==
  /\ Free(r)
  /\ Accepted(u, i)
  /\ aborted' = aborted \union {i}
  /\ Request(r, "abort", "remove", u, i, 0)
  /\ UNCHANGED <<up, uploads, uploadState, objects, announced, tainted, doubtful>>

\* Mutant: the loop leaves out the last chunk.
LastButOne(i) == count[i] - 2

LastIndex(i) == count[i] - 1

\* The error of RemoveObject is not looked at.
RemoveObject(r) ==
  /\ At(r, "remove")
  /\ \/ /\ objects' = objects \ {Path(req[r].user, req[r].id, req[r].idx)}
        /\ UNCHANGED tainted
     \/ /\ "store" \in Faults
        /\ tainted' = tainted \union {req[r].id}
        /\ UNCHANGED objects
  /\ IF req[r].idx < LastIndex(req[r].id)
     THEN req' = [req EXCEPT ![r].idx = @ + 1]
     ELSE Goto(r, "delete")
  /\ UNCHANGED <<up, uploads, uploadState, announced, aborted, doubtful>>

\* Mutant: the cleanup takes the chunks stored so far with it.
ExpireChunks(i) ==
  /\ up
  /\ i \in uploads
  /\ uploads' = uploads \ {i}
  /\ objects' = {o \in objects : o[2] # i}
  /\ UNCHANGED <<up, uploadState, req, announced, history>>

\* cleanupExpiredUploads drops an upload of more than 24 hours; its objects stay.
Expire(i) ==
  /\ up
  /\ i \in uploads
  /\ uploads' = uploads \ {i}
  /\ UNCHANGED <<up, uploadState, req, objects, announced, history>>

------------------------------------------------------------------------------
(* The end of the process: what is in memory is gone.                       *)
Halt ==
  /\ up' = FALSE
  /\ uploads' = {}
  /\ chunks' = [i \in Ids |-> {}]
  /\ req' = [r \in Reqs |-> Idle]
  /\ tainted' = tainted \union {i \in Ids : Aborting(i)}
  /\ UNCHANGED <<owner, count, objects, announced, aborted, doubtful>>

Crash == "kill" \in Faults /\ up /\ Halt

\* r writes a map that another goroutine may use at the same moment: h.uploads,
\* which every request and the cleanup read, or the Chunks of an upload, which
\* another chunk writes and GetUploadStatus iterates over.
Racing(r) ==
  \/ req[r].pc \in {"insert", "delete"}
  \/ /\ At(r, "mark")
     /\ \E s \in Reqs \ {r} :
          \/ At(s, "mark") /\ req[s].id = req[r].id
          \/ req[s] = Idle /\ req[r].id \in uploads

\* The Go runtime may notice the race and end the process; when it does not,
\* the accesses happen in either order.
FatalRace == "race" \in Faults /\ (\E r \in Reqs : Racing(r)) /\ Halt

Restart ==
  /\ ~up
  /\ up' = TRUE
  /\ UNCHANGED <<uploads, uploadState, req, objects, announced, history>>

------------------------------------------------------------------------------
\* DownloadChunk: the object is looked up under the path of whoever asks.
Served(u, i, k) == Path(u, i, k) \in objects

------------------------------------------------------------------------------
Init ==
  /\ up = TRUE
  /\ uploads = {}
  /\ owner = [i \in Ids |-> None]
  /\ count = [i \in Ids |-> 0]
  /\ chunks = [i \in Ids |-> {}]
  /\ req = [r \in Reqs |-> Idle]
  /\ objects = {}
  /\ announced = <<>>
  /\ aborted = {}
  /\ tainted = {}
  /\ doubtful = {}

Handler(r) ==
  \/ Insert(r) \/ PutObject(r) \/ PutObjectError(r) \/ MarkChunk(r)
  \/ AnnounceError(r) \/ Delete(r) \/ RemoveObject(r)
  \/ \E u \in Users : Announce(r, u) \/ AnnounceUnknown(r, u)

Next ==
  \/ Crash \/ FatalRace \/ Restart
  \/ \E i \in Ids : Expire(i)
  \/ \E r \in Reqs : Handler(r)
  \/ \E r \in Reqs, u \in Users, i \in Ids :
       \/ \E size \in Sizes, n \in 0..MaxCount : InitUpload(r, u, i, size, n)
       \/ \E k \in Indices(i) : UploadChunk(r, u, i, k)
       \/ CompleteUpload(r, u, i) \/ AbortUpload(r, u, i)

Spec == Init /\ [][Next]_vars

------------------------------------------------------------------------------
(* Properties *)

\* The places of each handler.
Placed(q) ==
  \/ q.op = "none" /\ q.pc = "idle" /\ q.id = None
  \/ /\ \/ q.op = "init" /\ q.pc = "insert"
        \/ q.op = "chunk" /\ q.pc \in {"put", "mark"}
        \/ q.op = "complete" /\ q.pc \in {"announce", "delete"}
        \/ q.op = "abort" /\ q.pc \in {"remove", "delete"}
     /\ q.id \in Ids /\ q.user \in Users

Requests == [op : {"none", "init", "chunk", "complete", "abort"},
             pc : {"idle", "insert", "put", "mark", "announce", "remove", "delete"},
             user : Users \union {None}, id : Ids \union {None}, idx : Nat]

\* Every variable holds a value of its type; a goroutine is at a place of the
\* handler it runs, on an upload that was issued and, for a chunk, in range.
TypeOK ==
  /\ up \in BOOLEAN
  /\ uploads \subseteq Ids
  /\ owner \in [Ids -> Users \union {None}]
  /\ count \in [Ids -> Nat]
  /\ chunks \in [Ids -> SUBSET Nat]
  /\ req \in [Reqs -> Requests]
  /\ objects \subseteq Users \X Ids \X Nat
  /\ announced \in Seq([id : Ids, from : Users, to : Users])
  /\ aborted \subseteq Ids /\ tainted \subseteq Ids
  /\ doubtful \subseteq 1..Len(announced)
  /\ \A r \in Reqs : Placed(req[r])

\* file.go:157 and 230: whoever works on an upload is its owner, so the paths
\* its chunks are stored under all name one user.
WorksForOwner ==
  \A r \in Reqs : req[r].op # "none" =>
    /\ owner[req[r].id] = req[r].user
    /\ req[r].op \in {"chunk", "abort"} => req[r].idx \in Indices(req[r].id)

\* file.go:236 and 284: of a file that was announced every chunk is stored, also
\* after crashes, retries and expiry, unless an abort was accepted as well.
AnnouncedIsStored ==
  \A n \in 1..Len(announced) :
    announced[n].id \notin aborted =>
      \A k \in Indices(announced[n].id) : Served(announced[n].from, announced[n].id, k)

\* file.go:284-290: once the request is over whose message was created without an
\* error, the upload accepts nothing more and a retry finds no upload.  After an
\* error it stays, the message created or not, and a retry may announce it again.
CompletedIsGone ==
  \A n \in 1..Len(announced) \ doubtful :
    announced[n].id \in uploads =>
      \E r \in Reqs : req[r].op = "complete" /\ At(r, "delete") /\ req[r].id = announced[n].id

\* file.go:377-382: an abort that was not overtaken by a chunk, an error of the
\* store or the end of the process leaves no object behind.
AbortRemovesAll ==
  \A i \in aborted \ tainted :
    ~Aborting(i) => \A k \in Indices(i) : ~Served(owner[i], i, k)

\* What the properties above rest on.  An upload has a chunk, and an id that was
\* never issued is nowhere.
IssuedOnly ==
  /\ \A i \in Ids : owner[i] # None <=> count[i] > 0
  /\ \A i \in uploads \union aborted : owner[i] # None
  /\ \A n \in 1..Len(announced) : announced[n].from = owner[announced[n].id]

\* An upload that is still to be inserted is known to its request alone.
InsertIsAlone ==
  \A r \in Reqs : At(r, "insert") =>
    /\ req[r].id \notin uploads \union aborted
    /\ \A s \in Reqs \ {r} : req[s].id # req[r].id
    /\ \A n \in 1..Len(announced) : announced[n].id # req[r].id

\* file.go:185-194: a chunk counts as uploaded only once its object is stored.
MarkedIsStored ==
  \A i \in Ids \ aborted :
    /\ chunks[i] \subseteq Indices(i)
    /\ \A k \in chunks[i] : Served(owner[i], i, k)
    /\ \A r \in Reqs : At(r, "mark") /\ req[r].id = i => Served(owner[i], i, req[r].idx)
    /\ \A r \in Reqs : At(r, "announce") /\ req[r].id = i => chunks[i] = Indices(i)

\* file.go:377-380: what an abort has passed is gone, unless it is tainted.
AbortSweeps ==
  \A r \in Reqs : req[r].op = "abort" =>
    /\ req[r].id \in aborted
    /\ req[r].id \notin tainted =>
         \A k \in Indices(req[r].id) :
           At(r, "delete") \/ k < req[r].idx => ~Served(owner[req[r].id], req[r].id, k)

\* The inductive invariant of UploadsProofs.
IndInv ==
  /\ TypeOK /\ WorksForOwner /\ IssuedOnly /\ InsertIsAlone
  /\ MarkedIsStored /\ AnnouncedIsStored /\ CompletedIsGone
  /\ AbortSweeps /\ AbortRemovesAll

\* The handler keeps the promise of FileShare: through overlapping requests,
\* retries, errors of the store, races on the map and crashes, a stored chunk is
\* its owner's, only an abort removes it, and what is announced is complete.
S == INSTANCE FileShare
ImplementsFileShare == S!Spec

------------------------------------------------------------------------------
(* What the repository says of file transfer and the code does not do *)

\* README.md:10: a platform for messages and file transfer.  Who a file is
\* announced to can download its chunks.
RecipientCanDownload ==
  \A n \in 1..Len(announced) :
    announced[n].id \notin aborted =>
      \A k \in Indices(announced[n].id) : Served(announced[n].to, announced[n].id, k)
=============================================================================
