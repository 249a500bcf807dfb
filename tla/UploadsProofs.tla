---------------------------- MODULE UploadsProofs ----------------------------
(***************************************************************************)
(* The safety of Uploads for any users, uploads, concurrent requests and   *)
(* faults, and what the server makes of a missing chunk count.             *)
(***************************************************************************)
EXTENDS Uploads, FiniteSetTheorems, SequenceTheorems, TLAPS

USE UploadsAssumption

------------------------------------------------------------------------------
(* Chunk counts *)

\* Division by the chunk size is what the quotient and the rest say it is.
LEMMA Division ==
  ASSUME NEW q \in Nat, NEW r \in 0..(ChunkSize - 1)
  PROVE  (q * ChunkSize + r) \div ChunkSize = q
BY SMT

LEMMA Decomposed ==
  ASSUME NEW size \in Nat
  PROVE  /\ Quotient(size) \in Nat
         /\ size % ChunkSize \in 0..(ChunkSize - 1)
         /\ size = Quotient(size) * ChunkSize + (size % ChunkSize)
BY SMT DEF Quotient

\* Rounding up adds one chunk for a rest.
LEMMA RoundedUpIs ==
  ASSUME NEW size \in Nat
  PROVE  RoundedUp(size) = Quotient(size) + (IF size % ChunkSize = 0 THEN 0 ELSE 1)
<1> DEFINE q == Quotient(size)
           r == size % ChunkSize
<1>1. q \in Nat /\ r \in 0..(ChunkSize - 1) /\ size = q * ChunkSize + r
  BY Decomposed
<1> HIDE DEF q, r
<1>2. CASE r = 0
  <2>1. ChunkSize - 1 \in 0..(ChunkSize - 1)
    BY SMT
  <2>2. (q * ChunkSize + (ChunkSize - 1)) \div ChunkSize = q
    BY <1>1, <2>1, Division
  <2>3. size + ChunkSize - 1 = q * ChunkSize + (ChunkSize - 1)
    BY <1>1, <1>2, SMT
  <2> QED
    BY <1>1, <1>2, <2>2, <2>3 DEF RoundedUp, q, r
<1>3. CASE r # 0
  <2>1. r - 1 \in 0..(ChunkSize - 1) /\ q + 1 \in Nat
    BY <1>1, <1>3, SMT
  <2>2. ((q + 1) * ChunkSize + (r - 1)) \div ChunkSize = q + 1
    BY <2>1, Division
  <2>3. size + ChunkSize - 1 = (q + 1) * ChunkSize + (r - 1)
    BY <1>1, SMT
  <2> QED
    BY <1>1, <1>3, <2>2, <2>3 DEF RoundedUp, q, r
<1> QED
  BY <1>2, <1>3

\* file.go:107-113: a server-side chunk count is the file's size divided by the
\* chunk size, rounded up, except for a multiple of the chunk size, of which it
\* asks two chunks more than the file has.
THEOREM CalculatedCount ==
  ASSUME NEW size \in Nat
  PROVE  CalculatedChunks(size) =
           RoundedUp(size) + (IF size % ChunkSize = 0 THEN 2 ELSE 0)
<1>1. Quotient(size) \in Nat
  BY Decomposed
<1> QED
  BY <1>1, RoundedUpIs DEF CalculatedChunks
------------------------------------------------------------------------------
(* The invariant *)

\* What the place of a goroutine says of it.
LEMMA PlaceOf ==
  ASSUME TypeOK, NEW r \in Reqs
  PROVE  /\ req[r] \in Requests
         /\ req[r].op # "none" => req[r].id \in Ids /\ req[r].user \in Users
         /\ req[r].op = "none" <=> req[r].pc = "idle"
         /\ req[r].op = "none" => req[r].id = None
         /\ req[r].op = "init" <=> req[r].pc = "insert"
         /\ req[r].op = "chunk" <=> req[r].pc \in {"put", "mark"}
         /\ req[r].pc = "announce" => req[r].op = "complete"
         /\ req[r].pc = "remove" => req[r].op = "abort"
         /\ req[r].pc = "delete" => req[r].op \in {"complete", "abort"}
         /\ req[r].op = "complete" => req[r].pc \in {"announce", "delete"}
         /\ req[r].op = "abort" => req[r].pc \in {"remove", "delete"}
BY DEF TypeOK, Placed

\* A goroutine that goes on within its handler stays placed.
LEMMA GotoType ==
  ASSUME TypeOK, NEW r \in Reqs, NEW pc \in {"mark", "delete"}, Goto(r, pc),
         pc = "mark" => req[r].op = "chunk",
         pc = "delete" => req[r].op \in {"complete", "abort"}
  PROVE  req' \in [Reqs -> Requests] /\ \A s \in Reqs : Placed(req'[s])
<1>1. req[r] \in Requests /\ req[r].id \in Ids /\ req[r].user \in Users
  BY PlaceOf
<1> DEFINE q == [req[r] EXCEPT !.pc = pc]
<1>3. q \in Requests
  BY <1>1 DEF Requests
<1>4. Placed(q)
  BY <1>1 DEF Requests, Placed
<1>5. req' = [req EXCEPT ![r] = q]
  BY DEF Goto
<1> HIDE DEF q
<1> QED
  BY <1>3, <1>4, <1>5 DEF TypeOK

LEMMA CountType ==
  ASSUME NEW size \in Sizes, NEW asked \in 0..MaxCount
  PROVE  ChunkCount(size, asked) \in Nat \ {0}
<1>1. size \in Nat /\ Quotient(size) \in Nat
  BY Decomposed
<1> QED
  BY <1>1 DEF ChunkCount, CalculatedChunks

\* Every action keeps every variable in its type.
LEMMA TypeStep ==
  ASSUME TypeOK, [Next]_vars
  PROVE  TypeOK'
<1> USE DEF vars, uploadState, history, Idle, Request, Goto, Respond, At, Free
<1>1. ASSUME NEW r \in Reqs, Insert(r)
      PROVE  TypeOK'
  BY <1>1 DEF Insert, TypeOK, Placed, Requests
<1>2. ASSUME NEW r \in Reqs, PutObject(r)
      PROVE  TypeOK'
  <2>0. req[r].id \in Ids /\ req[r].user \in Users /\ req[r].idx \in Nat
    BY <1>2, PlaceOf DEF PutObject, Requests
  <2>1. objects' \subseteq Users \X Ids \X Nat
    BY <1>2, <2>0 DEF PutObject, Path, TypeOK
  <2>2. tainted' \subseteq Ids
    BY <1>2, <2>0 DEF PutObject, TypeOK
  <2>3. req' \in [Reqs -> Requests] /\ \A s \in Reqs : Placed(req'[s])
    BY <1>2, PlaceOf, GotoType DEF PutObject
  <2> QED
    BY <1>2, <2>1, <2>2, <2>3 DEF PutObject, TypeOK
<1>3. ASSUME NEW r \in Reqs, PutObjectError(r)
      PROVE  TypeOK'
  <2>0. req[r].id \in Ids /\ req[r].user \in Users /\ req[r].idx \in Nat
    BY <1>3, PlaceOf DEF PutObjectError, Requests
  <2>1. objects' \subseteq Users \X Ids \X Nat
    BY <1>3, <2>0 DEF PutObjectError, Path, TypeOK
  <2>2. tainted' \subseteq Ids
    BY <1>3, <2>0 DEF PutObjectError, TypeOK
  <2>3. req' \in [Reqs -> Requests] /\ \A s \in Reqs : Placed(req'[s])
    BY <1>3, <2>0, PlaceOf DEF PutObjectError, TypeOK, Placed, Requests
  <2> QED
    BY <1>3, <2>1, <2>2, <2>3 DEF PutObjectError, TypeOK
<1>4. ASSUME NEW r \in Reqs, MarkChunk(r)
      PROVE  TypeOK'
  BY <1>4 DEF MarkChunk, TypeOK, Placed, Requests
<1>5. ASSUME NEW r \in Reqs, AnnounceError(r)
      PROVE  TypeOK'
  BY <1>5 DEF AnnounceError, TypeOK, Placed, Requests
<1>6. ASSUME NEW r \in Reqs, Delete(r)
      PROVE  TypeOK'
  BY <1>6 DEF Delete, TypeOK, Placed, Requests
<1>7. ASSUME NEW r \in Reqs, RemoveObject(r)
      PROVE  TypeOK'
  <2>0. req[r].id \in Ids /\ req[r].user \in Users /\ req[r].idx \in Nat
    BY <1>7, PlaceOf DEF RemoveObject, Requests
  <2>1. objects' \subseteq Users \X Ids \X Nat
    BY <1>7, <2>0 DEF RemoveObject, Path, TypeOK
  <2>2. tainted' \subseteq Ids
    BY <1>7, <2>0 DEF RemoveObject, TypeOK
  <2>3. req' \in [Reqs -> Requests] /\ \A s \in Reqs : Placed(req'[s])
    <3>1. CASE Goto(r, "delete")
      BY <1>7, <3>1, PlaceOf, GotoType DEF RemoveObject
    <3>2. CASE req' = [req EXCEPT ![r].idx = @ + 1]
      <4>1. [req[r] EXCEPT !.idx = @ + 1] \in Requests
        BY <2>0, PlaceOf DEF Requests
      <4>2. Placed([req[r] EXCEPT !.idx = @ + 1])
        BY <1>7, <2>0, PlaceOf DEF RemoveObject, Placed, Requests
      <4> QED
        BY <3>2, <4>1, <4>2 DEF TypeOK
    <3> QED
      BY <1>7, <3>1, <3>2 DEF RemoveObject
  <2> QED
    BY <1>7, <2>1, <2>2, <2>3 DEF RemoveObject, TypeOK
<1>8. ASSUME NEW r \in Reqs, NEW u \in Users, Announce(r, u) \/ AnnounceUnknown(r, u)
      PROVE  TypeOK'
  <2> DEFINE m == [id |-> req[r].id, from |-> req[r].user, to |-> u]
  <2>1. req[r].pc = "announce" /\ announced' = Append(announced, m)
    BY <1>8 DEF Announce, AnnounceUnknown, CreateMessage
  <2>2. m \in [id : Ids, from : Users, to : Users]
    BY <2>1, PlaceOf
  <2> HIDE DEF m
  <2>3. /\ announced' \in Seq([id : Ids, from : Users, to : Users])
        /\ Len(announced') = Len(announced) + 1 /\ Len(announced) \in Nat
    BY <2>1, <2>2, AppendProperties, LenProperties DEF TypeOK
  <2>4. doubtful' \subseteq doubtful \union {Len(announced) + 1}
    BY <1>8 DEF Announce, AnnounceUnknown
  <2>5. doubtful' \subseteq 1..Len(announced')
    BY <2>3, <2>4 DEF TypeOK
  <2>6. req' \in [Reqs -> Requests] /\ \A s \in Reqs : Placed(req'[s])
    <3>1. CASE Announce(r, u)
      BY <2>1, <3>1, PlaceOf, GotoType DEF Announce
    <3>2. CASE AnnounceUnknown(r, u)
      BY <3>2 DEF AnnounceUnknown, TypeOK, Placed, Requests
    <3> QED
      BY <1>8, <3>1, <3>2
  <2> QED
    BY <1>8, <2>3, <2>5, <2>6 DEF Announce, AnnounceUnknown, TypeOK
<1>9. ASSUME NEW r \in Reqs, NEW u \in Users, NEW i \in Ids, NEW size \in Sizes,
             NEW asked \in 0..MaxCount, InitUpload(r, u, i, size, asked)
      PROVE  TypeOK'
  <2>1. ChunkCount(size, asked) \in Nat \ {0}
    BY CountType
  <2> QED
    BY <1>9, <2>1 DEF InitUpload, TypeOK, Placed, Requests
<1>10. ASSUME NEW r \in Reqs, NEW u \in Users, NEW i \in Ids, NEW k \in Indices(i), UploadChunk(r, u, i, k)
      PROVE  TypeOK'
  <2>1. k \in Nat
    BY <1>10 DEF TypeOK, Indices
  <2> QED
    BY <1>10, <2>1 DEF UploadChunk, TypeOK, Placed, Requests
<1>11. ASSUME NEW r \in Reqs, NEW u \in Users, NEW i \in Ids, CompleteUpload(r, u, i)
      PROVE  TypeOK'
  BY <1>11 DEF CompleteUpload, TypeOK, Placed, Requests
<1>12. ASSUME NEW r \in Reqs, NEW u \in Users, NEW i \in Ids, AbortUpload(r, u, i)
      PROVE  TypeOK'
  BY <1>12 DEF AbortUpload, TypeOK, Placed, Requests
<1>13. ASSUME NEW i \in Ids, Expire(i)
      PROVE  TypeOK'
  BY <1>13 DEF Expire, TypeOK, Placed, Requests
<1>14. CASE Halt
  BY <1>14 DEF Halt, TypeOK, Placed, Requests
<1>15. CASE Restart
  BY <1>15 DEF Restart, TypeOK, Placed, Requests
<1>16. CASE UNCHANGED vars
  BY <1>16 DEF TypeOK, Placed, Requests
<1> QED
  BY <1>1, <1>2, <1>3, <1>4, <1>5, <1>6, <1>7, <1>8, <1>9, <1>10, <1>11, <1>12, <1>13, <1>14, <1>15, <1>16 DEF Next, Handler, Crash, FatalRace

\* What the type invariant says, variable by variable.
LEMMA TypeFacts ==
  ASSUME TypeOK
  PROVE  /\ \A s \in Reqs : req[s].op # "none" => req[s].id \in Ids /\ req[s].user \in Users
         /\ \A s \in Reqs : req[s].op = "none" <=> req[s].pc = "idle"
         /\ \A s \in Reqs : req[s].op = "none" => req[s].id = None
         /\ owner \in [Ids -> Users \union {None}] /\ uploads \subseteq Ids
         /\ count \in [Ids -> Nat] /\ aborted \subseteq Ids
         /\ req \in [Reqs -> Requests]
         /\ \A n \in 1..Len(announced) :
              announced[n].id \in Ids /\ announced[n].from \in Users
         /\ chunks \in [Ids -> SUBSET Nat]
<1>1. \A n \in 1..Len(announced) : announced[n] \in [id : Ids, from : Users, to : Users]
  BY ElementOfSeq DEF TypeOK
<1> QED
  BY <1>1, PlaceOf DEF TypeOK

\* Requests work for the owner, an id is issued once, and is known to its request
\* alone until it is inserted.
LEMMA OwnershipStep ==
  ASSUME TypeOK, WorksForOwner, IssuedOnly, InsertIsAlone, [Next]_vars
  PROVE  WorksForOwner' /\ IssuedOnly' /\ InsertIsAlone'
<1> USE DEF vars, uploadState, history, Idle, Request, Goto, Respond, At, Free
<1>1. ASSUME NEW r \in Reqs, Insert(r)
      PROVE  WorksForOwner' /\ IssuedOnly' /\ InsertIsAlone'
  BY <1>1, TypeFacts DEF Insert, WorksForOwner, IssuedOnly, InsertIsAlone, Indices
<1>2. ASSUME NEW r \in Reqs, PutObject(r)
      PROVE  WorksForOwner' /\ IssuedOnly' /\ InsertIsAlone'
  BY <1>2, TypeFacts DEF PutObject, WorksForOwner, IssuedOnly, InsertIsAlone, Indices
<1>3. ASSUME NEW r \in Reqs, PutObjectError(r)
      PROVE  WorksForOwner' /\ IssuedOnly' /\ InsertIsAlone'
  BY <1>3, TypeFacts DEF PutObjectError, WorksForOwner, IssuedOnly, InsertIsAlone, Indices
<1>4. ASSUME NEW r \in Reqs, MarkChunk(r)
      PROVE  WorksForOwner' /\ IssuedOnly' /\ InsertIsAlone'
  BY <1>4, TypeFacts DEF MarkChunk, WorksForOwner, IssuedOnly, InsertIsAlone, Indices
<1>5. ASSUME NEW r \in Reqs, AnnounceError(r)
      PROVE  WorksForOwner' /\ IssuedOnly' /\ InsertIsAlone'
  BY <1>5, TypeFacts DEF AnnounceError, WorksForOwner, IssuedOnly, InsertIsAlone, Indices
<1>6. ASSUME NEW r \in Reqs, Delete(r)
      PROVE  WorksForOwner' /\ IssuedOnly' /\ InsertIsAlone'
  <2>1. req' = [req EXCEPT ![r] = Idle] /\ uploads' \subseteq uploads
        /\ UNCHANGED <<owner, count, announced, aborted>>
    BY <1>6 DEF Delete
  <2>2. /\ req'[r].op = "none" /\ req'[r].pc = "idle" /\ req'[r].id = None
        /\ \A s \in Reqs \ {r} : req'[s] = req[s]
    BY <2>1, TypeFacts
  <2>3. \A s \in Reqs : req[s].pc = "insert" => req[s].id # None
    BY TypeFacts, UploadsAssumption
  <2>4. WorksForOwner'
    BY <2>1, <2>2 DEF WorksForOwner, Indices
  <2>5. InsertIsAlone'
    BY <2>1, <2>2, <2>3 DEF InsertIsAlone
  <2> QED
    BY <2>1, <2>4, <2>5 DEF IssuedOnly
<1>7. ASSUME NEW r \in Reqs, RemoveObject(r)
      PROVE  WorksForOwner' /\ IssuedOnly' /\ InsertIsAlone'
  <2>1. /\ req[r].op = "abort" /\ req[r].id \in Ids /\ req[r].idx \in Indices(req[r].id)
        /\ req[r].idx \in Nat /\ count[req[r].id] \in Nat
    BY <1>7, TypeFacts, PlaceOf DEF RemoveObject, WorksForOwner, Requests
  <2>2. req' = [req EXCEPT ![r].idx = @ + 1] \/ req' = [req EXCEPT ![r].pc = "delete"]
    BY <1>7 DEF RemoveObject
  <2>3. /\ req'[r].op = "abort" /\ req'[r].pc # "insert"
        /\ req'[r].id = req[r].id /\ req'[r].user = req[r].user
        /\ \A s \in Reqs \ {r} : req'[s] = req[s]
    <3>1. req[r] \in Requests /\ req[r].pc = "remove"
      BY <1>7, TypeFacts DEF RemoveObject
    <3>2. CASE req' = [req EXCEPT ![r].idx = @ + 1]
      BY TypeFacts, <2>1, <3>1, <3>2 DEF Requests
    <3>3. CASE req' = [req EXCEPT ![r].pc = "delete"]
      BY TypeFacts, <2>1, <3>1, <3>3 DEF Requests
    <3> QED
      BY <2>2, <3>2, <3>3
  <2>4. req'[r].idx \in Indices(req[r].id)
    BY <1>7, TypeFacts, <2>1, <2>2 DEF RemoveObject, Requests, LastIndex, Indices
  <2>5. UNCHANGED <<uploads, owner, count, announced, aborted>>
    BY <1>7 DEF RemoveObject
  <2>6. WorksForOwner'
    BY <2>1, <2>3, <2>4, <2>5 DEF WorksForOwner, Indices
  <2>7. InsertIsAlone'
    BY <2>3, <2>5 DEF InsertIsAlone
  <2> QED
    BY <2>5, <2>6, <2>7 DEF IssuedOnly
<1>8. ASSUME NEW r \in Reqs, NEW u \in Users, Announce(r, u) \/ AnnounceUnknown(r, u)
      PROVE  WorksForOwner' /\ IssuedOnly' /\ InsertIsAlone'
  <2> DEFINE m == [id |-> req[r].id, from |-> req[r].user, to |-> u]
  <2>1. /\ req' = [req EXCEPT ![r].pc = "delete"] \/ req' = [req EXCEPT ![r] = Idle]
        /\ req[r].pc = "announce" /\ announced' = Append(announced, m)
        /\ UNCHANGED <<uploads, owner, count, aborted>>
    BY <1>8 DEF Announce, AnnounceUnknown, CreateMessage
  <2>2. req[r].op = "complete" /\ m.from = owner[m.id]
    BY <2>1, PlaceOf DEF WorksForOwner
  <2>3. /\ \/ req'[r].op = "none"
           \/ req'[r].op = "complete" /\ req'[r].user = req[r].user
        /\ req'[r].id \in {None, req[r].id} /\ req'[r].pc # "insert"
        /\ req'[r].op # "none" => req'[r].id = req[r].id
        /\ \A s \in Reqs \ {r} : req'[s] = req[s]
    <3>1. CASE req' = [req EXCEPT ![r].pc = "delete"]
      BY <2>2, <3>1, TypeFacts DEF Requests
    <3>2. CASE req' = [req EXCEPT ![r] = Idle]
      BY <3>2, TypeFacts
    <3> QED
      BY <2>1, <3>1, <3>2
  <2>4. WorksForOwner'
    BY <2>1, <2>2, <2>3 DEF WorksForOwner, Indices
  <2>5. \A s \in Reqs : req[s].pc = "insert" => req[s].id # None
    BY TypeFacts, UploadsAssumption
  <2>6. \A s \in Reqs : req[s].pc = "insert" => req[s].id # m.id
    BY <2>1 DEF InsertIsAlone
  <2> HIDE DEF m
  <2>7. /\ Len(announced') = Len(announced) + 1 /\ Len(announced) \in Nat
        /\ announced'[Len(announced) + 1] = m
        /\ \A n \in 1..Len(announced) : announced'[n] = announced[n]
    BY <2>1 DEF TypeOK
  <2>8. \A n \in 1..Len(announced') : n \in 1..Len(announced) \/ announced'[n] = m
    BY <2>7
  <2>9. IssuedOnly'
    BY <2>1, <2>2, <2>7, <2>8 DEF IssuedOnly
  <2>10. InsertIsAlone'
    BY <2>1, <2>3, <2>5, <2>6, <2>7, <2>8 DEF InsertIsAlone, m
  <2> QED
    BY <2>4, <2>9, <2>10
<1>9. ASSUME NEW r \in Reqs, NEW u \in Users, NEW i \in Ids, NEW size \in Sizes,
             NEW asked \in 0..MaxCount, InitUpload(r, u, i, size, asked)
      PROVE  WorksForOwner' /\ IssuedOnly' /\ InsertIsAlone'
  <2>1. ChunkCount(size, asked) \in Nat \ {0}
    BY CountType
  <2>2. /\ i \notin uploads \union aborted
        /\ \A s \in Reqs : req[s].id # i
        /\ \A n \in 1..Len(announced) : announced[n].id # i
    <3>1. owner[i] = None /\ u # None
      BY <1>9, UploadsAssumption DEF InitUpload
    <3>2. \A s \in Reqs : req[s].id = i => req[s].op # "none" /\ owner[i] = req[s].user
      BY <1>9, TypeFacts DEF WorksForOwner
    <3>3. \A s \in Reqs : req[s].id # i
      BY <3>1, <3>2, TypeFacts
    <3> QED
      BY <3>1, <3>3, TypeFacts DEF IssuedOnly
  <2>3. WorksForOwner'
    BY <1>9, TypeFacts, <2>1, <2>2 DEF InitUpload, WorksForOwner, Indices
  <2>4. IssuedOnly'
    BY <1>9, TypeFacts, <2>1, <2>2 DEF InitUpload, IssuedOnly
  <2>5. InsertIsAlone'
    <3>1. \A s \in Reqs \ {r} : req'[s] = req[s] /\ req[s].id # i
      BY <1>9, TypeFacts, <2>2 DEF InitUpload, Requests
    <3>2. req'[r].id = i /\ req'[r].pc = "insert"
      BY <1>9, TypeFacts DEF InitUpload
    <3> QED
      BY <1>9, TypeFacts, <2>2, <3>1, <3>2 DEF InitUpload, InsertIsAlone
  <2> QED
    BY <2>3, <2>4, <2>5
<1>10. ASSUME NEW r \in Reqs, NEW u \in Users, NEW i \in Ids, NEW k \in Indices(i), UploadChunk(r, u, i, k)
      PROVE  WorksForOwner' /\ IssuedOnly' /\ InsertIsAlone'
  <2>1. /\ i \in uploads /\ owner[i] = u
        /\ req' = [req EXCEPT ![r] = [op |-> "chunk", pc |-> "put", user |-> u, id |-> i, idx |-> k]]
        /\ UNCHANGED <<uploads, owner, count, announced, aborted>>
    BY <1>10 DEF UploadChunk, Accepted
  <2>2. WorksForOwner'
    BY <1>10, TypeFacts, <2>1 DEF WorksForOwner, Indices
  <2>3. InsertIsAlone'
    BY TypeFacts, <2>1 DEF InsertIsAlone
  <2> QED
    BY <2>1, <2>2, <2>3 DEF IssuedOnly
<1>11. ASSUME NEW r \in Reqs, NEW u \in Users, NEW i \in Ids, CompleteUpload(r, u, i)
      PROVE  WorksForOwner' /\ IssuedOnly' /\ InsertIsAlone'
  <2>1. /\ i \in uploads /\ owner[i] = u
        /\ req' = [req EXCEPT ![r] = [op |-> "complete", pc |-> "announce", user |-> u, id |-> i, idx |-> 0]]
        /\ UNCHANGED <<uploads, owner, count, announced, aborted>>
    BY <1>11 DEF CompleteUpload, Accepted
  <2>2. WorksForOwner'
    BY TypeFacts, <2>1 DEF WorksForOwner, Indices
  <2>3. InsertIsAlone'
    BY TypeFacts, <2>1 DEF InsertIsAlone
  <2> QED
    BY <2>1, <2>2, <2>3 DEF IssuedOnly
<1>12. ASSUME NEW r \in Reqs, NEW u \in Users, NEW i \in Ids, AbortUpload(r, u, i)
      PROVE  WorksForOwner' /\ IssuedOnly' /\ InsertIsAlone'
  BY <1>12, TypeFacts DEF AbortUpload, Accepted, WorksForOwner, IssuedOnly, InsertIsAlone, Indices
<1>13. ASSUME NEW i \in Ids, Expire(i)
      PROVE  WorksForOwner' /\ IssuedOnly' /\ InsertIsAlone'
  BY <1>13, TypeFacts DEF Expire, WorksForOwner, IssuedOnly, InsertIsAlone, Indices
<1>14. CASE Halt
  BY <1>14, TypeFacts DEF Halt, WorksForOwner, IssuedOnly, InsertIsAlone, Indices
<1>15. CASE Restart
  BY <1>15, TypeFacts DEF Restart, WorksForOwner, IssuedOnly, InsertIsAlone, Indices
<1>16. CASE UNCHANGED vars
  BY <1>16, TypeFacts DEF WorksForOwner, IssuedOnly, InsertIsAlone, Indices
<1> QED
  BY <1>1, <1>2, <1>3, <1>4, <1>5, <1>6, <1>7, <1>8, <1>9, <1>10, <1>11, <1>12, <1>13, <1>14, <1>15, <1>16 DEF Next, Handler, Crash, FatalRace

\* A step that only adds objects keeps what is stored, if no goroutine comes to
\* mark a chunk that is not stored, or to announce a file of missing chunks.
LEMMA StoredKept ==
  ASSUME MarkedIsStored, AnnouncedIsStored, objects \subseteq objects',
         UNCHANGED <<uploadState, announced>>, aborted \subseteq aborted', aborted' \subseteq Ids,
         \A s \in Reqs : At(s, "mark")' /\ req'[s].id \notin aborted =>
           \/ At(s, "mark") /\ req[s].id = req'[s].id /\ req[s].idx = req'[s].idx
           \/ Served(owner[req[s].id], req[s].id, req[s].idx)',
         \A s \in Reqs : At(s, "announce")' /\ req'[s].id \notin aborted =>
           \/ At(s, "announce") /\ req[s].id = req'[s].id
           \/ chunks[req'[s].id] = Indices(req'[s].id)
  PROVE  MarkedIsStored' /\ AnnouncedIsStored'
<1>1. /\ \A u, i, k : Served(u, i, k) => Served(u, i, k)'
      /\ \A i : Indices(i)' = Indices(i)
  BY DEF Served, Indices, Path, uploadState
<1>2. ASSUME NEW i \in Ids \ aborted'
      PROVE  /\ chunks'[i] \subseteq Indices(i)'
             /\ \A k \in chunks'[i] : Served(owner[i], i, k)'
  BY <1>1, <1>2 DEF MarkedIsStored, uploadState
<1>3. ASSUME NEW i \in Ids \ aborted', NEW s \in Reqs, At(s, "mark")', req'[s].id = i
      PROVE  Served(owner[i], i, req[s].idx)'
  <2>1. CASE Served(owner[req[s].id], req[s].id, req[s].idx)'
    BY <1>3, <2>1
  <2>2. CASE At(s, "mark") /\ req[s].id = i /\ req[s].idx = req'[s].idx
    <3>1. i \in Ids \ aborted
      BY <1>3
    <3>2. Served(owner[i], i, req[s].idx)
      BY <2>2, <3>1, <1>3 DEF MarkedIsStored
    <3> QED
      BY <1>1, <2>2, <3>2 DEF uploadState
  <2> QED
    BY <1>3, <2>1, <2>2
<1>4. ASSUME NEW i \in Ids \ aborted', NEW s \in Reqs, At(s, "announce")', req'[s].id = i
      PROVE  chunks'[i] = Indices(i)'
  BY <1>1, <1>4 DEF MarkedIsStored, uploadState
<1>5. AnnouncedIsStored'
  BY <1>1 DEF AnnouncedIsStored
<1> QED
  BY <1>1, <1>2, <1>3, <1>4, <1>5 DEF MarkedIsStored
\* An upload whose chunks are all marked has its chunks marked and no others.
LEMMA AllMarked ==
  ASSUME NEW i \in Ids, count[i] \in Nat, AllChunks(i), chunks[i] \subseteq Indices(i)
  PROVE  chunks[i] = Indices(i)
<1>1. IsFiniteSet(Indices(i)) /\ Cardinality(Indices(i)) = count[i]
  <2> DEFINE b == count[i] - 1
  <2>1. b \in Int /\ count[i] = b + 1 /\ (0 > b => b = -1)
    OBVIOUS
  <2> HIDE DEF b
  <2>2. IsFiniteSet(0..b) /\ Cardinality(0..b) = IF 0 > b THEN 0 ELSE b - 0 + 1
    BY <2>1, FS_Interval
  <2>3. Indices(i) = 0..b
    BY DEF b, Indices
  <2> QED
    BY <2>1, <2>2, <2>3
<1> QED
  BY <1>1, FS_Subset DEF AllChunks

\* Chunks that count, and those of announced files, are in the store.
LEMMA StoredStep ==
  ASSUME TypeOK, WorksForOwner, IssuedOnly, InsertIsAlone, AbortSweeps,
         MarkedIsStored, AnnouncedIsStored, [Next]_vars, aborted' \subseteq Ids
  PROVE  MarkedIsStored' /\ AnnouncedIsStored'
<1> USE DEF uploadState, history, At
<1>1. ASSUME NEW r \in Reqs, \/ Insert(r) \/ AnnounceError(r) \/ Delete(r)
      PROVE  MarkedIsStored' /\ AnnouncedIsStored'
  <2>1. req' = [req EXCEPT ![r] = Idle]
    BY <1>1 DEF Insert, AnnounceError, Delete, Respond
  <2>2. \A s \in Reqs \ {r} : req'[s] = req[s]
    BY <2>1, TypeFacts
  <2>3. req'[r].pc = "idle"
    BY <2>1, TypeFacts DEF Idle
  <2> QED
    BY <1>1, <2>2, <2>3, StoredKept DEF Insert, AnnounceError, Delete
<1>2. ASSUME NEW r \in Reqs, PutObject(r)
      PROVE  MarkedIsStored' /\ AnnouncedIsStored'
  <2>1. req' = [req EXCEPT ![r].pc = "mark"]
    BY <1>2 DEF PutObject, Goto
  <2>2. \A s \in Reqs \ {r} : req'[s] = req[s]
    BY <2>1, TypeFacts
  <2>3. req'[r].pc = "mark" /\ req'[r].id = req[r].id /\ req'[r].idx = req[r].idx
    BY <2>1, TypeFacts DEF Requests
  <2>4. req[r].op = "chunk"
    BY <1>2, PlaceOf DEF PutObject
  <2>5. owner[req[r].id] = req[r].user
    BY <2>4 DEF WorksForOwner
  <2>6. Served(owner[req[r].id], req[r].id, req[r].idx)'
    BY <1>2, <2>3, <2>5 DEF PutObject, Served
  <2> QED
    BY <1>2, <2>2, <2>3, <2>6, StoredKept DEF PutObject
<1>3. ASSUME NEW r \in Reqs, PutObjectError(r)
      PROVE  MarkedIsStored' /\ AnnouncedIsStored'
  <2>1. req' = [req EXCEPT ![r] = Idle]
    BY <1>3 DEF PutObjectError, Respond
  <2>2. \A s \in Reqs \ {r} : req'[s] = req[s]
    BY <2>1, TypeFacts
  <2>3. req'[r].pc = "idle"
    BY <2>1, TypeFacts DEF Idle
  <2> QED
    BY <1>3, <2>2, <2>3, StoredKept DEF PutObjectError
<1>4. ASSUME NEW r \in Reqs, MarkChunk(r)
      PROVE  MarkedIsStored' /\ AnnouncedIsStored'
  <2> DEFINE i == req[r].id
  <2>1. /\ req' = [req EXCEPT ![r] = Idle]
        /\ chunks' = [chunks EXCEPT ![i] = @ \union {req[r].idx}]
        /\ At(r, "mark") /\ UNCHANGED <<owner, count, objects, announced, aborted>>
    BY <1>4 DEF MarkChunk, Respond
  <2>2. req[r].op = "chunk" /\ i \in Ids /\ req[r].idx \in Indices(i)
    BY <2>1, PlaceOf DEF WorksForOwner
  <2>3. /\ \A s \in Reqs \ {r} : req'[s] = req[s]
        /\ req'[r].pc = "idle"
    BY <2>1, TypeFacts DEF Idle
  <2>4. /\ chunks'[i] = chunks[i] \union {req[r].idx}
        /\ \A j \in Ids \ {i} : chunks'[j] = chunks[j]
    BY <2>1, <2>2, TypeFacts
  <2>5. /\ \A j : Indices(j)' = Indices(j)
        /\ \A u, j, k : Served(u, j, k)' = Served(u, j, k)
    BY <2>1 DEF Indices, Served, Path
  <2>6. i \notin aborted => Served(owner[i], i, req[r].idx)
    BY <2>1, <2>2 DEF MarkedIsStored
  <2> HIDE DEF i
  <2>7. AnnouncedIsStored'
    BY <2>1, <2>5 DEF AnnouncedIsStored
  <2>8. ASSUME NEW j \in Ids \ aborted
        PROVE  /\ chunks'[j] \subseteq Indices(j)
               /\ \A k \in chunks'[j] : Served(owner[j], j, k)
               /\ \A s \in Reqs : At(s, "announce")' /\ req'[s].id = j => chunks'[j] = Indices(j)
    <3>1. chunks[j] \subseteq Indices(j) /\ \A k \in chunks[j] : Served(owner[j], j, k)
      BY DEF MarkedIsStored
    <3>2. \A s \in Reqs : At(s, "announce")' /\ req'[s].id = j => chunks[j] = Indices(j)
      BY <2>3 DEF MarkedIsStored
    <3>3. CASE j = i
      <4>1. chunks'[j] = chunks[j] \union {req[r].idx}
        BY <2>4, <3>3
      <4>2. req[r].idx \in Indices(j) /\ Served(owner[j], j, req[r].idx)
        BY <2>2, <2>6, <3>3
      <4> QED
        BY <3>1, <3>2, <4>1, <4>2
    <3>4. CASE j # i
      <4>1. chunks'[j] = chunks[j]
        BY <2>4, <3>4
      <4> QED
        BY <3>1, <3>2, <4>1
    <3> QED
      BY <3>3, <3>4
  <2>9. ASSUME NEW j \in Ids \ aborted, NEW s \in Reqs, At(s, "mark")', req'[s].id = j
        PROVE  Served(owner[j], j, req'[s].idx)
    BY <2>3, <2>9 DEF MarkedIsStored
  <2> QED
    BY <2>1, <2>5, <2>7, <2>8, <2>9 DEF MarkedIsStored
<1>5. ASSUME NEW r \in Reqs, RemoveObject(r)
      PROVE  MarkedIsStored' /\ AnnouncedIsStored'
  <2> DEFINE i == req[r].id
  <2>1. /\ At(r, "remove") /\ objects \ {Path(req[r].user, i, req[r].idx)} \subseteq objects'
        /\ UNCHANGED <<owner, count, chunks, announced, aborted>>
    BY <1>5 DEF RemoveObject
  <2>2. i \in aborted
    BY <2>1, PlaceOf DEF AbortSweeps
  <2>3. /\ \A j : Indices(j)' = Indices(j)
        /\ \A u, k : \A j \in Ids \ aborted : Served(u, j, k) => Served(u, j, k)'
    BY <2>1, <2>2 DEF Indices, Served, Path
  <2>4. \A s \in Reqs :
          /\ req'[s].id = req[s].id
          /\ req'[s].pc = "mark" => req[s].pc = "mark" /\ req'[s].idx = req[s].idx
          /\ req'[s].pc = "announce" => req[s].pc = "announce"
    <3>1. \A s \in Reqs \ {r} : req'[s] = req[s]
      BY <1>5, TypeFacts DEF RemoveObject, Goto
    <3>2. req'[r].id = req[r].id /\ req'[r].pc \in {"remove", "delete"}
      <4>1. CASE Goto(r, "delete")
        BY <4>1, TypeFacts DEF Goto, Requests
      <4>2. CASE req' = [req EXCEPT ![r].idx = @ + 1]
        BY <2>1, <4>2, TypeFacts DEF Requests
      <4> QED
        BY <1>5, <4>1, <4>2 DEF RemoveObject
    <3> QED
      BY <3>1, <3>2
  <2>5. AnnouncedIsStored'
    <3>1. \A n \in 1..Len(announced) : announced[n].id \in Ids
      BY TypeFacts
    <3> QED
      BY <2>1, <2>3, <3>1 DEF AnnouncedIsStored
  <2> HIDE DEF i
  <2>6. ASSUME NEW j \in Ids \ aborted'
        PROVE  /\ chunks'[j] \subseteq Indices(j)'
               /\ \A k \in chunks'[j] : Served(owner[j], j, k)'
               /\ \A s \in Reqs : At(s, "mark")' /\ req'[s].id = j => Served(owner[j], j, req[s].idx)'
               /\ \A s \in Reqs : At(s, "announce")' /\ req'[s].id = j => chunks'[j] = Indices(j)'
    <3>1. j \in Ids \ aborted
      BY <2>1
    <3>2. /\ chunks[j] \subseteq Indices(j)
          /\ \A k \in chunks[j] : Served(owner[j], j, k)
          /\ \A s \in Reqs : At(s, "mark") /\ req[s].id = j => Served(owner[j], j, req[s].idx)
          /\ \A s \in Reqs : At(s, "announce") /\ req[s].id = j => chunks[j] = Indices(j)
      BY <3>1 DEF MarkedIsStored
    <3>3. \A k : Served(owner[j], j, k) => Served(owner[j], j, k)'
      BY <2>1, <2>3, <3>1
    <3>4. Indices(j)' = Indices(j) /\ chunks'[j] = chunks[j]
      BY <2>1, <2>3
    <3>5. owner'[j] = owner[j]
      BY <2>1
    <3>6. ASSUME NEW s \in Reqs, At(s, "mark")', req'[s].id = j
          PROVE  Served(owner[j], j, req[s].idx)'
      <4>1. At(s, "mark") /\ req[s].id = j /\ req'[s].idx = req[s].idx
        BY <2>4, <3>6
      <4>2. Served(owner[j], j, req[s].idx)
        BY <3>2, <4>1
      <4> QED
        BY <2>1, <2>3, <3>1, <4>1, <4>2
    <3>7. \A k \in chunks'[j] : Served(owner[j], j, k)'
      BY <3>2, <3>3, <3>4
    <3>8. \A s \in Reqs : At(s, "announce")' /\ req'[s].id = j => chunks'[j] = Indices(j)'
      BY <2>4, <3>2, <3>4
    <3> QED
      BY <3>2, <3>4, <3>6, <3>7, <3>8
  <2>7. MarkedIsStored'
    BY <2>6 DEF MarkedIsStored
  <2> QED
    BY <2>5, <2>7
<1>6. ASSUME NEW r \in Reqs, NEW u \in Users, Announce(r, u) \/ AnnounceUnknown(r, u)
      PROVE  MarkedIsStored' /\ AnnouncedIsStored'
  <2> DEFINE m == [id |-> req[r].id, from |-> req[r].user, to |-> u]
  <2>1. /\ req' = [req EXCEPT ![r].pc = "delete"] \/ req' = [req EXCEPT ![r] = Idle]
        /\ At(r, "announce") /\ announced' = Append(announced, m)
        /\ UNCHANGED <<owner, count, chunks, objects, aborted>>
    BY <1>6 DEF Announce, AnnounceUnknown, CreateMessage, Goto, Respond
  <2>2. \A s \in Reqs : /\ At(s, "mark")' => At(s, "mark") /\ req'[s] = req[s]
                        /\ At(s, "announce")' => At(s, "announce") /\ req'[s] = req[s]
    <3>1. \A s \in Reqs \ {r} : req'[s] = req[s]
      BY <2>1, TypeFacts
    <3>2. req'[r].pc \in {"delete", "idle"}
      BY <2>1, TypeFacts DEF Idle, Requests
    <3> QED
      BY <3>1, <3>2
  <2>3. /\ \A j : Indices(j)' = Indices(j)
        /\ \A w, j, k : Served(w, j, k)' = Served(w, j, k)
    BY <2>1 DEF Indices, Served, Path
  <2>4. MarkedIsStored'
    BY <2>1, <2>2, <2>3 DEF MarkedIsStored
  <2>5. m.id \in Ids /\ owner[m.id] = m.from
    BY <2>1, PlaceOf DEF WorksForOwner
  <2>6. m.id \notin aborted => \A k \in Indices(m.id) : Served(m.from, m.id, k)
    BY <2>1, <2>5 DEF MarkedIsStored
  <2> HIDE DEF m
  <2>7. /\ Len(announced') = Len(announced) + 1 /\ Len(announced) \in Nat
        /\ announced'[Len(announced) + 1] = m
        /\ \A n \in 1..Len(announced) : announced'[n] = announced[n]
    BY <2>1 DEF TypeOK
  <2>8. \A n \in 1..Len(announced') : n \in 1..Len(announced) \/ announced'[n] = m
    BY <2>7
  <2>9. ASSUME NEW n \in 1..Len(announced'), announced'[n].id \notin aborted
        PROVE  \A k \in Indices(announced'[n].id) : Served(announced'[n].from, announced'[n].id, k)
    <3>1. CASE n \in 1..Len(announced)
      BY <2>7, <2>9, <3>1 DEF AnnouncedIsStored
    <3> QED
      BY <2>6, <2>8, <2>9, <3>1
  <2>10. AnnouncedIsStored'
    BY <2>1, <2>3, <2>9 DEF AnnouncedIsStored
  <2> QED
    BY <2>4, <2>10
<1>7. ASSUME NEW r \in Reqs, NEW u \in Users, NEW i \in Ids, NEW size \in Sizes,
             NEW asked \in 0..MaxCount, InitUpload(r, u, i, size, asked)
      PROVE  MarkedIsStored' /\ AnnouncedIsStored'
  <2>1. /\ owner[i] = None /\ owner' = [owner EXCEPT ![i] = u]
        /\ count' = [count EXCEPT ![i] = ChunkCount(size, asked)]
        /\ req' = [req EXCEPT ![r] = [op |-> "init", pc |-> "insert", user |-> u, id |-> i, idx |-> 0]]
        /\ UNCHANGED <<chunks, objects, announced, aborted>>
    BY <1>7 DEF InitUpload, Request
  <2>2. \A s \in Reqs : req[s].id # i
    BY <2>1, TypeFacts DEF WorksForOwner
  <2>3. \A n \in 1..Len(announced) : announced[n].id # i
    BY <2>1, TypeFacts DEF IssuedOnly
  <2>4. i \notin aborted => chunks[i] = {}
    <3>1. count[i] = 0
      BY <2>1, TypeFacts DEF IssuedOnly
    <3>2. i \notin aborted => chunks[i] \subseteq 0..(0 - 1)
      BY <3>1 DEF MarkedIsStored, Indices
    <3> QED
      BY <3>2
  <2>5. /\ \A j \in Ids \ {i} : owner'[j] = owner[j] /\ Indices(j)' = Indices(j)
        /\ \A w, j, k : Served(w, j, k)' = Served(w, j, k)
    BY <2>1, TypeFacts DEF Indices, Served, Path
  <2>6. /\ \A s \in Reqs \ {r} : req'[s] = req[s]
        /\ req'[r].pc = "insert"
    BY <2>1, TypeFacts
  <2>7. AnnouncedIsStored'
    <3>1. \A n \in 1..Len(announced) : announced[n].id \in Ids \ {i}
      BY <2>3, TypeFacts
    <3> QED
      BY <2>1, <2>5, <3>1 DEF AnnouncedIsStored
  <2>8. ASSUME NEW j \in Ids \ aborted
        PROVE  /\ chunks[j] \subseteq Indices(j)'
               /\ \A k \in chunks[j] : Served(owner[j], j, k)'
               /\ \A s \in Reqs : At(s, "mark")' /\ req'[s].id = j => Served(owner[j], j, req[s].idx)'
               /\ \A s \in Reqs : At(s, "announce")' /\ req'[s].id = j => chunks[j] = Indices(j)'
    <3>1. CASE j = i
      BY <2>2, <2>4, <2>6, <3>1
    <3>2. CASE j # i
      <4>1. /\ chunks[j] \subseteq Indices(j)
            /\ \A k \in chunks[j] : Served(owner[j], j, k)
            /\ \A s \in Reqs : At(s, "mark") /\ req[s].id = j => Served(owner[j], j, req[s].idx)
            /\ \A s \in Reqs : At(s, "announce") /\ req[s].id = j => chunks[j] = Indices(j)
        BY DEF MarkedIsStored
      <4>2. owner'[j] = owner[j] /\ Indices(j)' = Indices(j)
        BY <2>5, <3>2
      <4> QED
        BY <2>5, <2>6, <4>1, <4>2
    <3> QED
      BY <3>1, <3>2
  <2>9. MarkedIsStored'
    BY <2>1, <2>8 DEF MarkedIsStored
  <2> QED
    BY <2>7, <2>9
<1>8. ASSUME NEW r \in Reqs, NEW u \in Users, NEW i \in Ids, NEW k \in Indices(i), UploadChunk(r, u, i, k)
      PROVE  MarkedIsStored' /\ AnnouncedIsStored'
  <2>1. req' = [req EXCEPT ![r] = [op |-> "chunk", pc |-> "put", user |-> u, id |-> i, idx |-> k]]
    BY <1>8 DEF UploadChunk, Request
  <2>2. /\ \A s \in Reqs \ {r} : req'[s] = req[s]
        /\ req'[r].pc = "put"
    BY <2>1, TypeFacts
  <2> QED
    BY <1>8, <2>2, StoredKept DEF UploadChunk
<1>9. ASSUME NEW r \in Reqs, NEW u \in Users, NEW i \in Ids, CompleteUpload(r, u, i)
      PROVE  MarkedIsStored' /\ AnnouncedIsStored'
  <2>1. req' = [req EXCEPT ![r] = [op |-> "complete", pc |-> "announce", user |-> u, id |-> i, idx |-> 0]]
    BY <1>9 DEF CompleteUpload, Request
  <2>2. /\ \A s \in Reqs \ {r} : req'[s] = req[s]
        /\ req'[r].pc = "announce" /\ req'[r].id = i
    BY <2>1, TypeFacts
  <2>3. i \notin aborted => chunks[i] = Indices(i)
    <3>1. count[i] \in Nat /\ AllChunks(i)
      BY <1>9, TypeFacts DEF CompleteUpload
    <3>2. i \notin aborted => chunks[i] \subseteq Indices(i)
      BY DEF MarkedIsStored
    <3> QED
      BY <3>1, <3>2, AllMarked
  <2> QED
    BY <1>9, <2>2, <2>3, StoredKept DEF CompleteUpload
<1>10. ASSUME NEW r \in Reqs, NEW u \in Users, NEW i \in Ids, AbortUpload(r, u, i)
      PROVE  MarkedIsStored' /\ AnnouncedIsStored'
  <2>1. req' = [req EXCEPT ![r] = [op |-> "abort", pc |-> "remove", user |-> u, id |-> i, idx |-> 0]]
    BY <1>10 DEF AbortUpload, Request
  <2>2. /\ \A s \in Reqs \ {r} : req'[s] = req[s]
        /\ req'[r].pc = "remove"
    BY <2>1, TypeFacts
  <2> QED
    BY <1>10, <2>2, StoredKept DEF AbortUpload
<1>11. CASE Halt
  <2>1. /\ chunks' = [j \in Ids |-> {}] /\ \A s \in Reqs : req'[s].pc = "idle"
        /\ UNCHANGED <<owner, count, objects, announced, aborted>>
    BY <1>11 DEF Halt, Idle
  <2> QED
    BY <2>1 DEF MarkedIsStored, AnnouncedIsStored, Served, Indices
<1>12. CASE Restart \/ UNCHANGED vars \/ \E i \in Ids : Expire(i)
  BY <1>12, StoredKept DEF Restart, Expire, vars
<1> QED
  BY <1>1, <1>2, <1>3, <1>4, <1>5, <1>6, <1>7, <1>8, <1>9, <1>10, <1>11, <1>12
  DEF Next, Handler, Crash, FatalRace

\* A step after which no other upload is in the map and no completion has given
\* up its turn to delete keeps announced uploads gone.
LEMMA GoneKept ==
  ASSUME CompletedIsGone, UNCHANGED <<announced, doubtful>>,
         \A n \in 1..Len(announced) : announced[n].id \in uploads' => announced[n].id \in uploads,
         \A s \in Reqs : req[s].op = "complete" /\ req[s].pc = "delete" =>
           req'[s] = req[s] \/ req[s].id \notin uploads'
  PROVE  CompletedIsGone'
BY DEF CompletedIsGone, At

\* An upload that was announced is being deleted or gone.
LEMMA GoneStep ==
  ASSUME TypeOK, WorksForOwner, InsertIsAlone, CompletedIsGone, [Next]_vars
  PROVE  CompletedIsGone'
<1> USE DEF uploadState, history, At
<1>1. ASSUME NEW r \in Reqs, Insert(r)
      PROVE  CompletedIsGone'
  <2>1. /\ req' = [req EXCEPT ![r] = Idle] /\ req[r].pc = "insert"
        /\ uploads' = uploads \union {req[r].id} /\ UNCHANGED <<announced, doubtful>>
    BY <1>1 DEF Insert, Respond
  <2>2. \A n \in 1..Len(announced) : announced[n].id # req[r].id
    BY <2>1 DEF InsertIsAlone
  <2>3. \A s \in Reqs : req[s].pc = "delete" => req'[s] = req[s]
    BY <2>1, TypeFacts
  <2> QED
    BY <2>1, <2>2, <2>3, GoneKept
<1>2. ASSUME NEW r \in Reqs, \/ PutObject(r) \/ PutObjectError(r) \/ MarkChunk(r)
                             \/ AnnounceError(r) \/ RemoveObject(r)
      PROVE  CompletedIsGone'
  <2>1. req[r].pc # "delete" \/ req[r].op # "complete"
    BY <1>2, PlaceOf DEF PutObject, PutObjectError, MarkChunk, AnnounceError, RemoveObject
  <2>2. \A s \in Reqs \ {r} : req'[s] = req[s]
    BY <1>2, TypeFacts
    DEF PutObject, PutObjectError, MarkChunk, AnnounceError, RemoveObject, Goto, Respond
  <2>3. UNCHANGED <<uploads, announced, doubtful>>
    BY <1>2 DEF PutObject, PutObjectError, MarkChunk, AnnounceError, RemoveObject
  <2> QED
    BY <2>1, <2>2, <2>3, GoneKept
<1>3. ASSUME NEW r \in Reqs, Delete(r)
      PROVE  CompletedIsGone'
  <2>1. /\ req' = [req EXCEPT ![r] = Idle]
        /\ uploads' = uploads \ {req[r].id} /\ UNCHANGED <<announced, doubtful>>
    BY <1>3 DEF Delete, Respond
  <2>2. \A s \in Reqs \ {r} : req'[s] = req[s]
    BY <2>1, TypeFacts
  <2> QED
    BY <2>1, <2>2, GoneKept
<1>4. ASSUME NEW r \in Reqs, NEW u \in Users, Announce(r, u) \/ AnnounceUnknown(r, u)
      PROVE  CompletedIsGone'
  <2> DEFINE m == [id |-> req[r].id, from |-> req[r].user, to |-> u]
             last == Len(announced) + 1
  <2>1. /\ req[r].pc = "announce" /\ req[r].op = "complete"
        /\ announced' = Append(announced, m) /\ UNCHANGED uploads /\ doubtful \subseteq doubtful'
        /\ last \in doubtful' \/ req' = [req EXCEPT ![r].pc = "delete"]
    BY <1>4, PlaceOf DEF Announce, AnnounceUnknown, CreateMessage, Goto
  <2>2. \A s \in Reqs \ {r} : req'[s] = req[s]
    BY <1>4, TypeFacts DEF Announce, AnnounceUnknown, Goto, Respond
  <2>3. \/ last \in doubtful'
        \/ req'[r].op = "complete" /\ req'[r].pc = "delete" /\ req'[r].id = m.id
    BY <2>1, TypeFacts DEF Requests
  <2> HIDE DEF m
  <2>4. /\ Len(announced') = last /\ Len(announced) \in Nat /\ announced'[last] = m
        /\ \A n \in 1..Len(announced) : announced'[n] = announced[n]
    BY <2>1 DEF TypeOK
  <2>5. \A n \in 1..Len(announced') : n \in 1..Len(announced) \/ n = last
    BY <2>4
  <2> HIDE DEF last
  <2>6. ASSUME NEW n \in 1..Len(announced') \ doubtful', announced'[n].id \in uploads
        PROVE  \E s \in Reqs : req'[s].op = "complete" /\ req'[s].pc = "delete"
                               /\ req'[s].id = announced'[n].id
    <3>1. CASE n = last
      BY <2>3, <2>4, <2>6, <3>1
    <3>2. CASE n \in 1..Len(announced)
      <4>1. announced'[n] = announced[n] /\ n \notin doubtful
        BY <2>1, <2>4, <2>6, <3>2
      <4>2. PICK s \in Reqs : req[s].op = "complete" /\ req[s].pc = "delete" /\ req[s].id = announced[n].id
        BY <2>6, <3>2, <4>1 DEF CompletedIsGone
      <4>3. s # r
        BY <2>1, <4>2
      <4> QED
        BY <2>2, <4>1, <4>2, <4>3
    <3> QED
      BY <2>5, <2>6, <3>1, <3>2
  <2> QED
    BY <2>1, <2>6 DEF CompletedIsGone
<1>5. ASSUME NEW r \in Reqs, NEW u \in Users, NEW i \in Ids,
             \/ \E size \in Sizes, n \in 0..MaxCount : InitUpload(r, u, i, size, n)
             \/ \E k \in Indices(i) : UploadChunk(r, u, i, k)
             \/ CompleteUpload(r, u, i) \/ AbortUpload(r, u, i)
      PROVE  CompletedIsGone'
  <2>1. req[r] = Idle /\ UNCHANGED <<uploads, announced, doubtful>>
    BY <1>5 DEF InitUpload, UploadChunk, CompleteUpload, AbortUpload, Free
  <2>2. \A s \in Reqs \ {r} : req'[s] = req[s]
    BY <1>5, TypeFacts DEF InitUpload, UploadChunk, CompleteUpload, AbortUpload, Request
  <2>3. req[r].pc # "delete"
    BY <2>1 DEF Idle
  <2> QED
    BY <2>1, <2>2, <2>3, GoneKept
<1>6. CASE Halt
  BY <1>6 DEF Halt, CompletedIsGone
<1>7. CASE Restart \/ UNCHANGED vars \/ \E i \in Ids : Expire(i)
  BY <1>7, GoneKept DEF Restart, Expire, vars
<1> QED
  BY <1>1, <1>2, <1>3, <1>4, <1>5, <1>6, <1>7 DEF Next, Handler, Crash, FatalRace

\* A step that leaves the aborts alone, and adds no object of an aborted upload
\* that is not tainted, keeps what the aborts removed away.
LEMMA AbortKept ==
  ASSUME AbortSweeps, AbortRemovesAll, UNCHANGED aborted, tainted \subseteq tainted',
         \A i \in aborted : owner'[i] = owner[i] /\ Indices(i)' = Indices(i),
         \A i \in aborted \ tainted' :
           \A k \in Indices(i) : Served(owner[i], i, k)' => Served(owner[i], i, k),
         \A s \in Reqs : req[s].op = "abort" \/ req'[s].op = "abort" => req'[s] = req[s]
  PROVE  AbortSweeps' /\ AbortRemovesAll'
<1>1. \A i : Aborting(i)' <=> Aborting(i)
  BY DEF Aborting
<1>2. ASSUME NEW i \in aborted' \ tainted', ~Aborting(i)'
      PROVE  \A k \in Indices(i)' : ~Served(owner[i], i, k)'
  <2>1. i \in aborted \ tainted /\ i \in aborted \ tainted' /\ ~Aborting(i)
    BY <1>1, <1>2
  <2> QED
    BY <2>1 DEF AbortRemovesAll
<1>3. ASSUME NEW s \in Reqs, req'[s].op = "abort"
      PROVE  /\ req'[s].id \in aborted'
             /\ req'[s].id \notin tainted' =>
                  \A k \in Indices(req[s].id)' :
                    req'[s].pc = "delete" \/ k < req'[s].idx =>
                      ~Served(owner[req[s].id], req[s].id, k)'
  <2>1. req'[s] = req[s] /\ req[s].op = "abort"
    BY <1>3
  <2>0. PICK i : i = req[s].id
    OBVIOUS
  <2>2. i \in aborted
    BY <2>0, <2>1 DEF AbortSweeps
  <2>3. ASSUME i \notin tainted', NEW k \in Indices(i), req[s].pc = "delete" \/ k < req[s].idx
        PROVE  ~Served(owner[i], i, k)'
    <3>1. ~Served(owner[i], i, k)
      BY <2>0, <2>1, <2>3 DEF AbortSweeps, At
    <3> QED
      BY <2>2, <2>3, <3>1
  <2> QED
    BY <2>0, <2>1, <2>2, <2>3
<1> QED
  BY <1>2, <1>3 DEF AbortSweeps, AbortRemovesAll, At

\* What an abort has passed is gone, and when it is over all is.
LEMMA AbortStep ==
  ASSUME TypeOK, WorksForOwner, IssuedOnly, InsertIsAlone, AbortSweeps, AbortRemovesAll, [Next]_vars
  PROVE  AbortSweeps' /\ AbortRemovesAll'
<1> USE DEF uploadState, history, At
<1>1. ASSUME NEW r \in Reqs,
             \/ Insert(r) \/ MarkChunk(r) \/ AnnounceError(r)
             \/ \E u \in Users : Announce(r, u) \/ AnnounceUnknown(r, u)
             \/ Delete(r) /\ req[r].op # "abort"
      PROVE  AbortSweeps' /\ AbortRemovesAll'
  <2>1. req[r].op # "abort"
    BY <1>1, PlaceOf
    DEF Insert, MarkChunk, AnnounceError, Announce, AnnounceUnknown, CreateMessage
  <2>2. /\ \A s \in Reqs \ {r} : req'[s] = req[s]
        /\ req'[r].op # "abort"
    <3>1. req' = [req EXCEPT ![r] = Idle] \/ req' = [req EXCEPT ![r].pc = "delete"]
      BY <1>1 DEF Insert, MarkChunk, AnnounceError, Announce, AnnounceUnknown, Delete, Goto, Respond
    <3>2. CASE req' = [req EXCEPT ![r] = Idle]
      BY <3>2, TypeFacts DEF Idle
    <3>3. CASE req' = [req EXCEPT ![r].pc = "delete"]
      BY <2>1, <3>3, TypeFacts DEF Requests
    <3> QED
      BY <3>1, <3>2, <3>3
  <2>3. UNCHANGED <<owner, count, objects, aborted, tainted>>
    BY <1>1 DEF Insert, MarkChunk, AnnounceError, Announce, AnnounceUnknown, Delete
  <2> QED
    BY <2>1, <2>2, <2>3, AbortKept DEF Served, Indices
<1>2. ASSUME NEW r \in Reqs, PutObject(r) \/ PutObjectError(r)
      PROVE  AbortSweeps' /\ AbortRemovesAll'
  <2>1. req[r].op # "abort"
    BY <1>2, PlaceOf DEF PutObject, PutObjectError
  <2>2. /\ \A s \in Reqs \ {r} : req'[s] = req[s]
        /\ req'[r].op # "abort"
    BY <1>2, <2>1, TypeFacts DEF PutObject, PutObjectError, Goto, Respond, Idle, Requests
  <2>3. UNCHANGED <<owner, count, aborted>> /\ tainted \subseteq tainted'
    BY <1>2 DEF PutObject, PutObjectError
  <2>4. ASSUME NEW i \in aborted \ tainted', NEW k \in Indices(i), Served(owner[i], i, k)'
        PROVE  Served(owner[i], i, k)
    BY <1>2, <2>3, <2>4 DEF PutObject, PutObjectError, Served, Path
  <2> QED
    BY <2>1, <2>2, <2>3, <2>4, AbortKept DEF Indices
<1>3. ASSUME NEW r \in Reqs, Delete(r), req[r].op = "abort"
      PROVE  AbortSweeps' /\ AbortRemovesAll'
  <2> DEFINE i == req[r].id
  <2>1. /\ req[r].pc = "delete" /\ UNCHANGED <<owner, count, objects, aborted, tainted>>
    BY <1>3 DEF Delete
  <2>2. /\ \A s \in Reqs \ {r} : req'[s] = req[s]
        /\ req'[r].op # "abort"
    BY <1>3, TypeFacts DEF Delete, Respond, Idle
  <2>3. /\ \A j : Indices(j)' = Indices(j)
        /\ \A u, j, k : Served(u, j, k)' = Served(u, j, k)
    BY <2>1 DEF Indices, Served
  <2>4. i \notin tainted => \A k \in Indices(i) : ~Served(owner[i], i, k)
    BY <1>3, <2>1 DEF AbortSweeps
  <2> HIDE DEF i
  <2>5. AbortSweeps'
    BY <2>1, <2>2, <2>3 DEF AbortSweeps
  <2>6. ASSUME NEW j \in aborted \ tainted, ~Aborting(j)'
        PROVE  \A k \in Indices(j) : ~Served(owner[j], j, k)
    <3>1. CASE j = i
      BY <2>4, <3>1
    <3>2. CASE j # i
      <4>1. ~Aborting(j)
        BY <2>2, <2>6, <3>2 DEF Aborting, i
      <4> QED
        BY <4>1 DEF AbortRemovesAll
    <3> QED
      BY <3>1, <3>2
  <2> QED
    BY <2>1, <2>3, <2>5, <2>6 DEF AbortRemovesAll
<1>4. ASSUME NEW r \in Reqs, RemoveObject(r)
      PROVE  AbortSweeps' /\ AbortRemovesAll'
  <2>0. PICK i, x : i = req[r].id /\ x = req[r].idx
    OBVIOUS
  <2>1. /\ req[r].pc = "remove" /\ req[r].op = "abort" /\ i \in Ids /\ req[r].user = owner[i]
        /\ x \in Nat /\ count[i] \in Nat /\ i \in aborted
        /\ UNCHANGED <<owner, count, aborted>>
    BY <1>4, <2>0, PlaceOf, TypeFacts DEF RemoveObject, WorksForOwner, AbortSweeps, Requests
  <2>2. /\ objects' \subseteq objects /\ tainted \subseteq tainted'
        /\ i \notin tainted' => Path(owner[i], i, x) \notin objects'
    BY <1>4, <2>0, <2>1 DEF RemoveObject
  <2>3. /\ \A s \in Reqs \ {r} : req'[s] = req[s]
        /\ req'[r].op = "abort" /\ req'[r].id = i
        /\ \/ req'[r].pc = "remove" /\ req'[r].idx = x + 1
           \/ req'[r].pc = "delete" /\ req'[r].idx = x /\ ~(x < count[i] - 1)
    <3>1. CASE x < LastIndex(i) /\ req' = [req EXCEPT ![r].idx = @ + 1]
      BY <2>0, <2>1, <3>1, TypeFacts DEF Requests
    <3>2. CASE ~(x < LastIndex(i)) /\ Goto(r, "delete")
      BY <2>0, <2>1, <3>2, TypeFacts DEF Requests, Goto, LastIndex
    <3> QED
      BY <1>4, <2>0, <3>1, <3>2 DEF RemoveObject
  <2>4. /\ \A j : Indices(j)' = Indices(j)
        /\ \A u, j, k : Served(u, j, k)' => Served(u, j, k)
    BY <2>1, <2>2 DEF Indices, Served, Path
  <2>5. i \notin tainted' => ~Served(owner[i], i, x)'
    BY <2>1, <2>2 DEF Served, Path
  <2>6. i \notin tainted => \A k \in Indices(i) : k < x => ~Served(owner[i], i, k)
    BY <2>0, <2>1 DEF AbortSweeps
  <2>7. ASSUME i \notin tainted', NEW k \in Indices(i), req'[r].pc = "delete" \/ k < req'[r].idx
        PROVE  ~Served(owner[i], i, k)'
    <3>1. k \in Int /\ k <= count[i] - 1
      BY <2>1 DEF Indices
    <3>2. k < x \/ k = x
      BY <2>1, <2>3, <2>7, <3>1
    <3>3. k < x => ~Served(owner[i], i, k)
      BY <2>2, <2>6, <2>7
    <3> QED
      BY <2>1, <2>4, <2>5, <2>7, <3>2, <3>3
  <2>8. ASSUME NEW s \in Reqs \ {r}, req'[s].op = "abort"
        PROVE  /\ req'[s].id \in aborted'
               /\ req'[s].id \notin tainted' =>
                    \A k \in Indices(req[s].id)' :
                      req'[s].pc = "delete" \/ k < req'[s].idx =>
                        ~Served(owner[req[s].id], req[s].id, k)'
    <3> DEFINE j == req[s].id
    <3>1. req'[s] = req[s] /\ req[s].op = "abort"
      BY <2>3, <2>8
    <3>2. j \in aborted
      BY <3>1 DEF AbortSweeps
    <3>3. ASSUME j \notin tainted', NEW k \in Indices(j), req[s].pc = "delete" \/ k < req[s].idx
          PROVE  ~Served(owner[j], j, k)'
      <4>1. ~Served(owner[j], j, k)
        BY <2>2, <3>1, <3>3 DEF AbortSweeps
      <4> QED
        BY <2>1, <2>4, <3>1, <4>1
    <3> QED
      BY <2>1, <2>4, <3>1, <3>2, <3>3
  <2>9. AbortSweeps'
    <3>1. /\ req'[r].id \in aborted'
          /\ req'[r].id \notin tainted' =>
               \A k \in Indices(req[r].id)' :
                 req'[r].pc = "delete" \/ k < req'[r].idx =>
                   ~Served(owner[req[r].id], req[r].id, k)'
      BY <2>1, <2>3, <2>4, <2>7
    <3> QED
      BY <2>8, <3>1 DEF AbortSweeps
  <2>10. AbortRemovesAll'
    <3>1. \A j : Aborting(j)' <=> Aborting(j)
      BY <2>0, <2>1, <2>3 DEF Aborting
    <3>2. ASSUME NEW j \in aborted \ tainted', ~Aborting(j)
          PROVE  \A k \in Indices(j) : ~Served(owner[j], j, k)'
      <4>1. \A k \in Indices(j) : ~Served(owner[j], j, k)
        BY <2>2, <3>2 DEF AbortRemovesAll
      <4> QED
        BY <2>1, <2>4, <4>1
    <3> QED
      BY <2>1, <2>4, <3>1, <3>2 DEF AbortRemovesAll
  <2> QED
    BY <2>9, <2>10
<1>5. ASSUME NEW r \in Reqs, NEW u \in Users, NEW i \in Ids,
             \/ \E size \in Sizes, n \in 0..MaxCount : InitUpload(r, u, i, size, n)
             \/ \E k \in Indices(i) : UploadChunk(r, u, i, k)
             \/ CompleteUpload(r, u, i)
      PROVE  AbortSweeps' /\ AbortRemovesAll'
  <2>1. req[r] = Idle /\ UNCHANGED <<objects, aborted, tainted>>
    BY <1>5 DEF InitUpload, UploadChunk, CompleteUpload, Free
  <2>2. /\ \A s \in Reqs \ {r} : req'[s] = req[s]
        /\ req'[r].op # "abort"
    BY <1>5, TypeFacts DEF InitUpload, UploadChunk, CompleteUpload, Request
  <2>3. \A j \in aborted : owner'[j] = owner[j] /\ count'[j] = count[j]
    <3>1. CASE UNCHANGED <<owner, count>>
      BY <3>1
    <3>2. CASE \E size \in Sizes, n \in 0..MaxCount : InitUpload(r, u, i, size, n)
      <4>1. i \notin aborted
        BY <3>2 DEF InitUpload, IssuedOnly
      <4> QED
        BY <3>2, <4>1, TypeFacts DEF InitUpload
    <3> QED
      BY <1>5, <3>1, <3>2 DEF UploadChunk, CompleteUpload
  <2>4. req[r].op # "abort"
    BY <2>1 DEF Idle
  <2> QED
    BY <2>1, <2>2, <2>3, <2>4, AbortKept DEF Served, Indices
<1>6. ASSUME NEW r \in Reqs, NEW u \in Users, NEW i \in Ids, AbortUpload(r, u, i)
      PROVE  AbortSweeps' /\ AbortRemovesAll'
  <2>1. /\ req[r] = Idle /\ aborted' = aborted \union {i}
        /\ req' = [req EXCEPT ![r] = [op |-> "abort", pc |-> "remove", user |-> u, id |-> i, idx |-> 0]]
        /\ UNCHANGED <<owner, count, objects, tainted>>
    BY <1>6 DEF AbortUpload, Free, Request
  <2>2. /\ \A s \in Reqs \ {r} : req'[s] = req[s]
        /\ req'[r].op = "abort" /\ req'[r].pc = "remove" /\ req'[r].id = i /\ req'[r].idx = 0
    BY <2>1, TypeFacts
  <2>3. /\ \A j : Indices(j)' = Indices(j)
        /\ \A w, j, k : Served(w, j, k)' = Served(w, j, k)
    BY <2>1 DEF Indices, Served
  <2>4. \A k \in Indices(i) : ~(k < 0)
    BY TypeFacts DEF Indices
  <2>5. AbortSweeps'
    BY <2>1, <2>2, <2>3, <2>4 DEF AbortSweeps
  <2>6. ASSUME NEW j \in aborted', j \notin tainted, ~Aborting(j)'
        PROVE  \A k \in Indices(j) : ~Served(owner[j], j, k)
    <3>1. j # i
      BY <2>2, <2>6 DEF Aborting
    <3>2. ~Aborting(j)
      BY <2>1, <2>2, <2>6 DEF Aborting, Idle
    <3> QED
      BY <2>1, <2>6, <3>1, <3>2 DEF AbortRemovesAll
  <2> QED
    BY <2>1, <2>3, <2>5, <2>6 DEF AbortRemovesAll
<1>7. CASE Halt
  <2>1. /\ \A s \in Reqs : req'[s].op = "none"
        /\ tainted' = tainted \union {i \in Ids : Aborting(i)}
        /\ UNCHANGED <<owner, count, objects, aborted>>
    BY <1>7 DEF Halt, Idle
  <2>2. \A i \in aborted \ tainted' : ~Aborting(i)
    BY <2>1, TypeFacts
  <2>3. /\ \A j : Indices(j)' = Indices(j)
        /\ \A w, j, k : Served(w, j, k)' = Served(w, j, k)
    BY <2>1 DEF Indices, Served
  <2> QED
    BY <2>1, <2>2, <2>3 DEF AbortSweeps, AbortRemovesAll
<1>8. CASE Restart \/ UNCHANGED vars \/ \E i \in Ids : Expire(i)
  <2>1. UNCHANGED <<owner, count, objects, req, aborted, tainted>>
    BY <1>8 DEF Restart, Expire, vars
  <2> QED
    BY <2>1, AbortKept DEF Served, Indices
<1> QED
  BY <1>1, <1>2, <1>3, <1>4, <1>5, <1>6, <1>7, <1>8 DEF Next, Handler, Crash, FatalRace

------------------------------------------------------------------------------
(* The promise of FileShare *)

\* Every step opens, stores, announces, aborts or removes as FileShare does, or
\* changes nothing of it.
LEMMA ShareStep ==
  ASSUME IndInv, [Next]_vars
  PROVE  S!Next \/ UNCHANGED S!share
<1> USE DEF S!share, uploadState, history, At
<1>a. /\ TypeOK /\ WorksForOwner /\ IssuedOnly /\ MarkedIsStored
      /\ None \notin Users
  BY DEF IndInv
<1>b. \A i : S!Indices(i) = Indices(i)
  BY DEF S!Indices, Indices
<1>c. ASSUME NEW r \in Reqs, req[r].op # "none"
      PROVE  /\ req[r].id \in Ids /\ req[r].user \in Users
             /\ owner[req[r].id] = req[r].user
             /\ req[r].op \in {"chunk", "abort"} => req[r].idx \in Indices(req[r].id)
  BY <1>a, <1>c, PlaceOf DEF WorksForOwner
<1>1. CASE UNCHANGED <<owner, count, objects, announced, aborted>>
  BY <1>1
<1>2. ASSUME NEW r \in Reqs, NEW u \in Users, NEW i \in Ids, NEW size \in Sizes,
             NEW n \in 0..MaxCount, InitUpload(r, u, i, size, n)
      PROVE  S!Next
  <2>1. /\ owner[i] = None /\ owner' = [owner EXCEPT ![i] = u]
        /\ UNCHANGED <<objects, announced, aborted>>
    BY <1>2 DEF InitUpload
  <2>2. count' = [count EXCEPT ![i] = count'[i]] /\ count'[i] \in Nat \ {0}
    <3>1. count' = [count EXCEPT ![i] = ChunkCount(size, n)] /\ count \in [Ids -> Nat]
      BY <1>2, <1>a DEF InitUpload, TypeOK
    <3>2. ChunkCount(size, n) \in Nat \ {0}
      BY CountType
    <3> QED
      BY <3>1, <3>2
  <2>3. S!Open(u, i)
    BY <2>1, <2>2 DEF S!Open
  <2> QED
    BY <2>3 DEF S!Next
<1>3. ASSUME NEW r \in Reqs, NEW u \in Users, NEW i \in Ids,
             \/ \E k \in Indices(i) : UploadChunk(r, u, i, k)
             \/ CompleteUpload(r, u, i)
      PROVE  UNCHANGED S!share
  BY <1>3 DEF UploadChunk, CompleteUpload
<1>4. ASSUME NEW r \in Reqs, NEW u \in Users, NEW i \in Ids, AbortUpload(r, u, i)
      PROVE  S!Next
  <2>1. owner[i] # None
    BY <1>4, <1>a DEF AbortUpload, Accepted
  <2>2. S!Abort(i)
    BY <1>4, <2>1 DEF AbortUpload, S!Abort
  <2> QED
    BY <2>2 DEF S!Next
<1>5. ASSUME NEW r \in Reqs, PutObject(r) \/ PutObjectError(r)
      PROVE  S!Next \/ UNCHANGED S!share
  <2>1. req[r].op = "chunk"
    BY <1>5, <1>a, PlaceOf DEF PutObject, PutObjectError
  <2>2. CASE UNCHANGED objects
    BY <1>5, <2>2 DEF PutObject, PutObjectError
  <2>3. CASE objects' = objects \union {Path(req[r].user, req[r].id, req[r].idx)}
    <3>1. S!Store(req[r].id, req[r].idx)
      BY <1>5, <1>c, <2>1, <2>3 DEF PutObject, PutObjectError, Path, S!Store
    <3> QED
      BY <1>b, <1>c, <2>1, <3>1 DEF S!Next
  <2> QED
    BY <1>5, <2>2, <2>3 DEF PutObject, PutObjectError
<1>6. ASSUME NEW r \in Reqs, NEW u \in Users, Announce(r, u) \/ AnnounceUnknown(r, u)
      PROVE  S!Next
  <2> DEFINE i == req[r].id
  <2>1. req[r].op = "complete" /\ req[r].pc = "announce"
    BY <1>6, <1>a, PlaceOf DEF Announce, AnnounceUnknown, CreateMessage
  <2>2. i \in Ids /\ owner[i] = req[r].user /\ owner[i] # None
    BY <1>a, <1>c, <2>1
  <2>3. i \notin aborted => S!Complete(i)
    <3>1. ASSUME i \notin aborted, NEW k \in Indices(i)
          PROVE  <<owner[i], i, k>> \in objects
      <4>1. chunks[i] = Indices(i) /\ \A j \in chunks[i] : Served(owner[i], i, j)
        BY <1>a, <2>1, <2>2, <3>1 DEF MarkedIsStored
      <4> QED
        BY <3>1, <4>1 DEF Served, Path
    <3> QED
      BY <1>b, <3>1 DEF S!Complete
  <2>4. S!Announce(i, u)
    BY <1>6, <2>2, <2>3 DEF Announce, AnnounceUnknown, CreateMessage, S!Announce
  <2> QED
    BY <2>2, <2>4 DEF S!Next
<1>7. ASSUME NEW r \in Reqs, RemoveObject(r)
      PROVE  S!Next \/ UNCHANGED S!share
  <2>1. req[r].op = "abort"
    BY <1>7, <1>a, PlaceOf DEF RemoveObject
  <2>2. req[r].id \in aborted
    BY <2>1 DEF IndInv, AbortSweeps
  <2>3. CASE UNCHANGED objects
    BY <1>7, <2>3 DEF RemoveObject
  <2>4. CASE objects' = objects \ {Path(req[r].user, req[r].id, req[r].idx)}
    <3>1. S!Remove(req[r].id, req[r].idx)
      BY <1>7, <1>c, <2>1, <2>2, <2>4 DEF RemoveObject, Path, S!Remove
    <3> QED
      BY <1>b, <1>c, <2>1, <3>1 DEF S!Next
  <2> QED
    BY <1>7, <2>3, <2>4 DEF RemoveObject
<1>8. ASSUME NEW r \in Reqs, Insert(r) \/ MarkChunk(r) \/ AnnounceError(r) \/ Delete(r)
      PROVE  UNCHANGED S!share
  BY <1>8 DEF Insert, MarkChunk, AnnounceError, Delete
<1>9. CASE Halt \/ Restart \/ UNCHANGED vars \/ \E i \in Ids : Expire(i)
  BY <1>9 DEF Halt, Restart, Expire, vars
<1> QED
  BY <1>2, <1>3, <1>4, <1>5, <1>6, <1>7, <1>8, <1>9 DEF Next, Handler, Crash, FatalRace

------------------------------------------------------------------------------
(* The theorems *)

\* The invariant holds before the first upload and every step keeps it.
LEMMA Inductive ==
  /\ Init => IndInv
  /\ IndInv /\ [Next]_vars => IndInv'
<1>1. Init => TypeOK
  BY EmptySeq DEF Init, TypeOK, Requests, Placed, Idle
<1>2. ASSUME Init
      PROVE  /\ WorksForOwner /\ IssuedOnly /\ InsertIsAlone /\ MarkedIsStored
             /\ AnnouncedIsStored /\ CompletedIsGone /\ AbortSweeps /\ AbortRemovesAll
  <2>1. /\ \A r \in Reqs : req[r].op = "none" /\ req[r].pc = "idle"
        /\ Len(announced) = 0 /\ uploads = {} /\ aborted = {}
    BY <1>2 DEF Init, Idle
  <2>2. WorksForOwner /\ InsertIsAlone /\ AbortSweeps /\ AbortRemovesAll
    BY <2>1 DEF WorksForOwner, InsertIsAlone, AbortSweeps, AbortRemovesAll, At
  <2>3. AnnouncedIsStored /\ CompletedIsGone
    BY <2>1 DEF AnnouncedIsStored, CompletedIsGone
  <2>4. MarkedIsStored
    BY <1>2, <2>1 DEF Init, MarkedIsStored, At
  <2>5. IssuedOnly
    BY <1>2, <2>1 DEF Init, IssuedOnly
  <2> QED
    BY <2>2, <2>3, <2>4, <2>5
<1>3. ASSUME IndInv, [Next]_vars
      PROVE  IndInv'
  <2>1. TypeOK'
    BY <1>3, TypeStep DEF IndInv
  <2>2. aborted' \subseteq Ids
    BY <2>1 DEF TypeOK
  <2>3. WorksForOwner' /\ IssuedOnly' /\ InsertIsAlone'
    BY <1>3, OwnershipStep DEF IndInv
  <2>4. MarkedIsStored' /\ AnnouncedIsStored'
    BY <1>3, <2>2, StoredStep DEF IndInv
  <2>5. CompletedIsGone'
    BY <1>3, GoneStep DEF IndInv
  <2>6. AbortSweeps' /\ AbortRemovesAll'
    BY <1>3, AbortStep DEF IndInv
  <2> QED
    BY <2>1, <2>3, <2>4, <2>5, <2>6 DEF IndInv
<1> QED
  BY <1>1, <1>2, <1>3 DEF IndInv

\* The state of the file handler is always in order.
THEOREM UploadsInvariant == Spec => []IndInv
BY Inductive, PTL DEF Spec

\* Every variable holds a value of its type.
THEOREM UploadsTypes == Spec => []TypeOK
<1>1. IndInv => TypeOK
  BY DEF IndInv
<1> QED
  BY <1>1, UploadsInvariant, PTL

\* file.go:157 and 230: whatever requests overlap, each works on an upload of the
\* user who sent it.
THEOREM OwnersOnly == Spec => []WorksForOwner
<1>1. IndInv => WorksForOwner
  BY DEF IndInv
<1> QED
  BY <1>1, UploadsInvariant, PTL

\* file.go:236 and 284: a file is announced only with all its chunks stored, and
\* they stay, unless the upload is aborted too.
THEOREM FilesAreStored == Spec => []AnnouncedIsStored
<1>1. IndInv => AnnouncedIsStored
  BY DEF IndInv
<1> QED
  BY <1>1, UploadsInvariant, PTL

\* file.go:284-290: an upload announced without an error is gone from the map once
\* the request that announced it is over, whatever retries announced it as well.
THEOREM CompletedOnce == Spec => []CompletedIsGone
<1>1. IndInv => CompletedIsGone
  BY DEF IndInv
<1> QED
  BY <1>1, UploadsInvariant, PTL

\* file.go:377-382: an undisturbed abort removes every object of its upload.
THEOREM AbortsAreComplete == Spec => []AbortRemovesAll
<1>1. IndInv => AbortRemovesAll
  BY DEF IndInv
<1> QED
  BY <1>1, UploadsInvariant, PTL

\* internal/handlers/file.go: the file handler, with its goroutines, its shared
\* map, the errors of the store and its crashes, implements FileShare.
THEOREM ImplementsShare == Spec => ImplementsFileShare
<1>1. Init => S!Init
  BY DEF Init, S!Init
<1>2. IndInv /\ [Next]_vars => [S!Next]_(S!share)
  BY ShareStep
<1> QED
  BY <1>1, <1>2, UploadsInvariant, PTL DEF Spec, ImplementsFileShare, S!Spec
=============================================================================
