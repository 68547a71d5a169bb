-------------------------- MODULE SheetLibraryProofs --------------------------
(* Theorems about SheetLibrary, for any numbers of requests, keys, rows, ZIP *)
(* jobs and cleanup runs, and any lengths of the leases.                      *)
EXTENDS SheetLibrary, TLAPS

-----------------------------------------------------------------------------
(* Types: one lemma for each way a variable is updated *)

LEMMA UploadBodyType == UploadBody \in Bodies
BY DEF UploadBody, Bodies

\* Whatever a client sends is a well-formed change.
LEMMA ChangeType ==
    ASSUME TypeOK, NEW kind \in {"parts", "delete"},
           NEW seen \in SUBSET {i \in Ids : rows[i].revision > 0},
           NEW stale \in SUBSET {i \in Ids : rows[i].revision > 1}
    PROVE  Change(kind, seen, stale) \in Bodies
<1>1. \A i \in Ids : rows[i].revision \in Nat
  BY DEF TypeOK, RowRecord
<1>2. \A i \in stale : rows[i].revision - 1 \in Nat
  BY <1>1
<1> QED
  BY <1>1, <1>2 DEF Change, Bodies

LEMMA MoveType ==
    ASSUME TypeOK, NEW r \in Requests, NEW at \in Stages, MoveTo(r, at)
    PROVE  reqs' \in [Requests -> RequestRecord]
BY DEF TypeOK, MoveTo, RequestRecord

LEMMA ReplyType ==
    ASSUME TypeOK, NEW r \in Requests, NEW reply \in Replies, ReplyWith(r, reply)
    PROVE  reqs' \in [Requests -> RequestRecord]
<1>1. "done" \in Stages
  BY DEF Stages
<1> QED
  BY <1>1 DEF TypeOK, ReplyWith, RequestRecord

LEMMA FinishType ==
    ASSUME TypeOK, NEW r \in Requests, NEW result \in {"succeeded", "rejected"},
           NEW reply \in Replies, Finish(r, result, reply)
    PROVE  /\ reqs' \in [Requests -> RequestRecord]
           /\ ops' \in [Keys -> OperationRecord]
<1>1. "recover" \in Stages
  BY DEF Stages
<1>2. reqs' \in [Requests -> RequestRecord]
  BY <1>1, MoveType, ReplyType DEF Finish
<1>3. ops' \in [Keys -> OperationRecord]
  BY ZenonT(60) DEF TypeOK, Finish, OperationRecord
<1> QED
  BY <1>2, <1>3

LEMMA RetiredType ==
    ASSUME TypeOK, NEW f \in FileIds, NEW o \in Objects \cup {None}
    PROVE  /\ Ensured(f, o) \in FileRecord
           /\ RetiredFile(Ensured(f, o)) \in FileRecord
<1>1. ActiveFile(o) \in FileRecord
  BY DEF ActiveFile, FileRecord, FileStates
<1>2. Ensured(f, o) \in FileRecord
  BY <1>1 DEF Ensured, TypeOK
<1>3. ASSUME NEW file \in FileRecord
      PROVE  RetiredFile(file) \in FileRecord
  <2>1. "retired" \in FileStates
    BY DEF FileStates
  <2> QED
    BY <2>1, TimesAssumption DEF RetiredFile, FileRecord
<1> QED
  BY <1>2, <1>3

LEMMA FileOfType ==
    ASSUME TypeOK, NEW i \in Ids, NEW f \in FileIds
    PROVE  FileOf(i, f) \in FileIds
BY DEF FileOf, TypeOK, RowRecord

LEMMA StoredType == \A r : Stored(r) \in Replies
BY DEF Stored, Replies

\* TypeOK holds of every initial state.
LEMMA TypeInit == Init => TypeOK
<1> SUFFICES ASSUME Init PROVE TypeOK
  OBVIOUS
<1> USE DEF Init, TypeOK
<1>1. UploadBody \in Bodies
  BY UploadBodyType
<1>2. rows \in [Ids -> RowRecord]
  BY DEF NoRow, Ids, FileIds, Objects, RowRecord
<1>3. files \in [FileIds -> FileRecord]
  BY DEF ActiveFile, NoFile, FileStates, Ids, FileIds, Objects, FileRecord
<1> QED
  BY <1>1, <1>2, <1>3
  DEF NoJob, Stages, Replies, Objects, RequestRecord, OperationRecord, JobRecord,
      CleanerRecord

\* Every step keeps the types.
LEMMA TypeNext == TypeOK /\ [Next]_vars => TypeOK'
<1> SUFFICES ASSUME TypeOK, [Next]_vars PROVE TypeOK'
  OBVIOUS
<1>s. /\ Stages = {"new", "apply", "upload", "publish", "resent", "readback",
                    "recover", "release", "done"}
      /\ Replies = {"none", "ok", "rejected", "processing", "conflict", "retry"}
  BY DEF Stages, Replies
<1>1. ASSUME NEW r \in Requests, NEW k \in Keys, NEW body \in Bodies, Reserve(r, k, body)
      PROVE  TypeOK'
  <2>1. \A at \in Stages, reply \in Replies :
          \A op \in Requests \cup {None} :
            [at |-> at, key |-> k, body |-> body, op |-> op, reply |-> reply]
              \in RequestRecord
    BY DEF RequestRecord
  <2>2. [state |-> "processing", attempt |-> r, body |-> body, lease |-> OperationLease]
          \in OperationRecord
    BY TimesAssumption DEF OperationRecord
  <2>3. reqs' \in [Requests -> RequestRecord]
    <3>1. ops[k].attempt \in Requests \cup {None}
      BY DEF TypeOK, OperationRecord
    <3>2. \E at \in Stages, op \in {r, None, ops[k].attempt}, reply \in Replies :
            reqs' = [reqs EXCEPT ![r] = [at |-> at, key |-> k, body |-> body,
                                         op |-> op, reply |-> reply]]
      BY <1>1, <1>s, Zenon DEF Reserve
    <3> QED
      BY <2>1, <3>1, <3>2 DEF TypeOK
  <2>4. ops' \in [Keys -> OperationRecord]
    BY <1>1, <2>2 DEF Reserve, TypeOK
  <2> QED
    BY <1>1, <2>3, <2>4 DEF Reserve, TypeOK
<1>2. ASSUME NEW r \in Requests, RequestStep(r) PROVE TypeOK'
  <2>1. ASSUME NEW k \in Keys, Send(r, k) PROVE TypeOK'
    <3>1. ops[k].body \in Bodies
      BY DEF TypeOK, OperationRecord
    <3> QED
      BY <1>1, <2>1, <3>1, UploadBodyType, ChangeType DEF Send
  <2>2. CASE LoseAttempt(r)
    BY <1>s, <2>2, MoveType DEF LoseAttempt, TypeOK
  <2>3. CASE RejectUpload(r)
    BY <1>s, <2>3, FinishType DEF RejectUpload, TypeOK
  <2>4. CASE Stage(r)
    <3>1. [state |-> "staged", key |-> reqs[r].key, object |-> r, grace |-> StagedGrace]
            \in FileRecord
      BY TimesAssumption DEF FileRecord, FileStates, Objects, TypeOK, RequestRecord
    <3>2. files' \in [FileIds -> FileRecord]
      BY <2>4, <3>1 DEF Stage, TypeOK
    <3> QED
      BY <1>s, <2>4, <3>2, MoveType DEF Stage, TypeOK
  <2>5. CASE Upload(r)
    BY <1>s, <2>5, MoveType DEF Upload, TypeOK, Objects
  <2>6. CASE Publish(r)
    <3>1. [listed |-> TRUE, revision |-> 1, file |-> r, object |-> r] \in RowRecord
      BY DEF RowRecord, FileIds, Ids, Objects
    <3>2. rows' \in [Ids -> RowRecord]
      BY <2>6, <3>1 DEF Publish, TypeOK
    <3>3. files' \in [FileIds -> FileRecord]
      BY ZenonT(60), <2>6 DEF Publish, TypeOK, FileRecord, FileStates
    <3>4. listVersion' \in Nat
      BY <2>6 DEF Publish, TypeOK
    <3> QED
      BY <1>s, <2>6, <3>2, <3>3, <3>4, FinishType DEF Publish, TypeOK
  <2>7. CASE RejectItems(r)
    BY <1>s, <2>7, FinishType DEF RejectItems, TypeOK
  <2>8. CASE SetParts(r)
    <3>1. rows' \in [Ids -> RowRecord]
      BY SMTT(40), <2>8 DEF SetParts, TypeOK, RowRecord
    <3>2. listVersion' \in Nat
      BY <2>8 DEF SetParts, TypeOK
    <3> QED
      BY <1>s, <2>8, <3>1, <3>2, FinishType DEF SetParts, TypeOK
  <2>9. CASE Delete(r)
    <3>1. ASSUME NEW i \in Ids
          PROVE  FileOf(i, i) \in FileIds /\ rows[i].object \in Objects \cup {None}
      BY FileOfType DEF FileIds, TypeOK, RowRecord
    <3>2. ASSUME NEW i \in Ids
          PROVE  [rows[i] EXCEPT !.listed = FALSE, !.file = FileOf(i, i)] \in RowRecord
      BY <3>1 DEF TypeOK, RowRecord
    <3>3. rows' \in [Ids -> RowRecord]
      BY <2>9, <3>2 DEF Delete, TypeOK
    <3>4. Named(reqs[r].body) \subseteq Ids
      BY DEF Named
    <3>5. ASSUME NEW f \in FileIds
          PROVE  files'[f] \in FileRecord
      <4>1. CASE \E i \in Named(reqs[r].body) : f = FileOf(i, i)
        <5> DEFINE i == CHOOSE i \in Named(reqs[r].body) : f = FileOf(i, i)
        <5>1. i \in Ids
          BY <4>1, <3>4
        <5>2. files'[f] = RetiredFile(Ensured(f, rows[i].object))
          BY <2>9, <4>1 DEF Delete
        <5> QED
          BY <5>1, <5>2, <3>1, RetiredType
      <4>2. CASE ~ \E i \in Named(reqs[r].body) : f = FileOf(i, i)
        BY <2>9, <4>2 DEF Delete, TypeOK
      <4> QED
        BY <4>1, <4>2
    <3>6. files' \in [FileIds -> FileRecord]
      BY <2>9, <3>5 DEF Delete
    <3>7. /\ listVersion' = listVersion + 1
          /\ Finish(r, "succeeded", "ok")
          /\ UNCHANGED <<objs, jobs, cleaners>>
      BY <2>9, Zenon DEF Delete
    <3> QED
      BY <1>s, <3>3, <3>6, <3>7, FinishType DEF TypeOK
  <2>10. CASE Fail(r)
    BY <1>s, <2>10, MoveType DEF Fail, TypeOK
  <2>11. CASE ReadBack(r)
    BY <2>11, ReplyType, StoredType DEF ReadBack, TypeOK
  <2>13. CASE Recover(r)
    BY <1>s, <2>13, ReplyType, MoveType, StoredType DEF Recover, TypeOK
  <2>14. CASE Release(r)
    <3>1. ops' \in [Keys -> OperationRecord]
      BY <2>14 DEF Release, TypeOK, OperationRecord
    <3> QED
      BY <1>s, <2>14, <3>1, ReplyType DEF Release, TypeOK
  <2>15. CASE Crash(r)
    BY <1>s, <2>15, MoveType DEF Crash, TypeOK
  <2> QED
    BY <1>2, <2>1, <2>2, <2>3, <2>4, <2>5, <2>6, <2>7, <2>8, <2>9, <2>10, <2>11,
       <2>13, <2>14, <2>15 DEF RequestStep
<1>3. ASSUME NEW c \in Cleaners, CleanerStep(c) PROVE TypeOK'
  <2>1. ASSUME NEW f \in FileIds, CleanMark(c, f) PROVE TypeOK'
    <3>1. files' \in [FileIds -> FileRecord]
      BY SMTT(40), <2>1 DEF CleanMark, TypeOK, FileRecord, FileStates
    <3>2. cleaners' \in [Cleaners -> CleanerRecord]
      BY <2>1 DEF CleanMark, TypeOK, CleanerRecord
    <3> QED
      BY <2>1, <3>1, <3>2 DEF CleanMark, TypeOK
  <2>2. CASE CleanDelete(c)
    BY <2>2 DEF CleanDelete, TypeOK, CleanerRecord
  <2>3. CASE CleanDeleteFails(c)
    BY ZenonT(60), <2>3 DEF CleanDeleteFails, TypeOK, CleanerRecord
  <2>4. CASE CleanRecord(c)
    <3>1. files' \in [FileIds -> FileRecord]
      BY <2>4 DEF CleanRecord, TypeOK, FileRecord, FileStates
    <3>2. cleaners' \in [Cleaners -> CleanerRecord]
      BY <2>4 DEF CleanRecord, TypeOK, CleanerRecord
    <3> QED
      BY <2>4, <3>1, <3>2 DEF CleanRecord, TypeOK
  <2>5. CASE CleanCrash(c)
    BY <2>5 DEF CleanCrash, TypeOK, CleanerRecord
  <2> QED
    BY <1>3, <2>1, <2>2, <2>3, <2>4, <2>5 DEF CleanerStep
<1>4. ASSUME NEW j \in Jobs, JobStep(j) PROVE TypeOK'
  <2>0. j \in FileIds
    BY DEF FileIds
  <2>1. ASSUME NEW i \in Ids, JobRead(j, i) PROVE TypeOK'
    <3>1. FileOf(i, j) \in FileIds /\ rows[i].object \in Objects \cup {None}
      BY <2>0, FileOfType DEF TypeOK, RowRecord
    <3>2. jobs' \in [Jobs -> JobRecord]
      <4>1. [jobs[j] EXCEPT !.at = "creating", !.row = i, !.file = FileOf(i, j),
                            !.object = rows[i].object] \in JobRecord
        BY <3>1 DEF TypeOK, JobRecord
      <4> QED
        BY <2>1, <4>1 DEF JobRead, TypeOK
    <3> QED
      BY <2>1, <3>2 DEF JobRead, TypeOK
  <2>2. CASE JobCreate(j)
    <3> DEFINE i == jobs[j].row
               f == jobs[j].file
    <3>1. Ensured(f, jobs[j].object) \in FileRecord \/ f \notin FileIds
      BY RetiredType DEF TypeOK, JobRecord
    <3>2. files' \in [FileIds -> FileRecord]
      BY <2>2, <3>1 DEF JobCreate, TypeOK
    <3>3. FileOf(i, j) \in FileIds \/ i \notin Ids
      BY <2>0, FileOfType
    <3>4. rows' \in [Ids -> RowRecord]
      <4>1. [rows[i] EXCEPT !.file = FileOf(i, j)] \in RowRecord \/ i \notin Ids
        BY <3>3 DEF TypeOK, RowRecord
      <4> QED
        BY <2>2, <4>1 DEF JobCreate, TypeOK
    <3>5. jobs' \in [Jobs -> JobRecord]
      <4>1. [jobs[j] EXCEPT !.at = "building", !.leased = TRUE, !.left = FileLease]
              \in JobRecord
        BY TimesAssumption DEF TypeOK, JobRecord
      <4> QED
        BY <2>2, <4>1 DEF JobCreate, TypeOK
    <3> QED
      BY <2>2, <3>2, <3>4, <3>5 DEF JobCreate, TypeOK
  <2>3. CASE JobClaim(j)
    <3>1. jobs' \in [Jobs -> JobRecord]
      <4>1. [jobs[j] EXCEPT !.left = FileLease] \in JobRecord
        BY TimesAssumption DEF TypeOK, JobRecord
      <4> QED
        BY <2>3, <4>1 DEF JobClaim, TypeOK
    <3> QED
      BY <2>3, <3>1 DEF JobClaim, TypeOK
  <2>4. CASE JobEnd(j)
    <3>1. jobs' \in [Jobs -> JobRecord]
      <4>1. [jobs[j] EXCEPT !.at = "ended", !.leased = FALSE, !.left = 0] \in JobRecord
        BY DEF TypeOK, JobRecord
      <4> QED
        BY <2>4, <4>1 DEF JobEnd, TypeOK
    <3> QED
      BY <2>4, <3>1 DEF JobEnd, TypeOK
  <2> QED
    BY <1>4, <2>1, <2>2, <2>3, <2>4 DEF JobStep
<1>5. CASE CleanLeases
  <2>1. jobs' \in [Jobs -> JobRecord]
    <3>1. \A j \in Jobs : [jobs[j] EXCEPT !.leased = FALSE] \in JobRecord
      BY DEF TypeOK, JobRecord
    <3> QED
      BY <1>5, <3>1 DEF CleanLeases, TypeOK
  <2> QED
    BY <1>5, <2>1 DEF CleanLeases, TypeOK
<1>6. CASE Tick
  <2>1. \A n \in Nat : Less(n) \in Nat
    BY DEF Less
  <2>2. ops' \in [Keys -> OperationRecord]
    BY <1>6, <2>1 DEF Tick, TypeOK, OperationRecord
  <2>3. files' \in [FileIds -> FileRecord]
    BY <1>6, <2>1 DEF Tick, TypeOK, FileRecord
  <2>4. jobs' \in [Jobs -> JobRecord]
    <3>1. jobs' = [j \in Jobs |-> [jobs[j] EXCEPT !.left = Less(jobs[j].left),
                                                 !.lapsed = jobs[j].lapsed \/ (jobs[j].leased /\ jobs[j].left <= 1)]]
      BY <1>6 DEF Tick
    <3>2. ASSUME NEW j \in Jobs
          PROVE  [jobs[j] EXCEPT !.left = Less(jobs[j].left),
                                 !.lapsed = jobs[j].lapsed \/ (jobs[j].leased /\ jobs[j].left <= 1)] \in JobRecord
      <4>1. jobs[j] \in JobRecord /\ jobs[j].left \in Nat
        BY <3>2 DEF TypeOK, JobRecord
      <4>2. Less(jobs[j].left) \in Nat
        BY <2>1, <4>1
      <4>3. (jobs[j].lapsed \/ (jobs[j].leased /\ jobs[j].left <= 1)) \in BOOLEAN
        OBVIOUS
      <4> QED
        BY <4>1, <4>2, <4>3 DEF JobRecord
    <3> QED
      BY <3>1, <3>2
  <2> QED
    BY <1>6, <2>2, <2>3, <2>4 DEF Tick, TypeOK
<1>7. CASE UNCHANGED vars
  BY <1>7 DEF vars, TypeOK
<1> QED
  BY <1>2, <1>3, <1>4, <1>5, <1>6, <1>7 DEF Next

\* The state of the program always has the shape TypeOK describes.
THEOREM TypeCorrect == Spec => []TypeOK
BY TypeInit, TypeNext, PTL DEF Spec

-----------------------------------------------------------------------------
(* RowsBacked.  By itself it is not inductive: a publication needs that the   *)
(* object of the staged file is there, and a deletion that no row came to     *)
(* refer to the object after the cleanup looked.  The invariant says where    *)
(* each object can be named, and what stays true between the cleanup's look   *)
(* and its deletion.                                                          *)

\* An uploaded object belongs to the row and the file record of its request.
OwnObject(f, o) == IF f \in Requests THEN o = f ELSE o \in Shared

ObjectsOfRows ==
    \A i \in Ids : rows[i].listed =>
        /\ OwnObject(i, rows[i].object)
        /\ IF i \in Requests THEN rows[i].file = i ELSE rows[i].file \notin Requests

ObjectsOfFiles ==
    \A f \in FileIds : files[f].state # "none" => OwnObject(f, files[f].object)

ObjectsOfJobs ==
    \A j \in Jobs : jobs[j].at = "creating" =>
        /\ jobs[j].row \in Ids
        /\ jobs[j].file \in FileIds
        /\ OwnObject(jobs[j].file, jobs[j].object)

\* Nothing names the object of a request that has staged no file yet.
Unused ==
    \A r \in Requests : reqs[r].at \in {"new", "apply"} =>
        /\ files[r].state = "none"
        /\ ~ rows[r].listed
        /\ \A j \in Jobs : jobs[j].file # r

StagedStored ==
    \A r \in Requests :
        /\ reqs[r].at \in {"upload", "publish"} => files[r].state # "none"
        /\ reqs[r].at = "publish" /\ files[r].state = "staged" => r \in objs

\* Between the cleanup's two transactions the file stays condemned.
Condemned ==
    \A c \in Cleaners : cleaners[c].at = "delete" =>
        /\ cleaners[c].file \in FileIds
        /\ files[cleaners[c].file].state \in {"delete_pending", "deleted"}
        /\ ~ Referenced(files[cleaners[c].file].object)

StorageInv ==
    /\ TypeOK
    /\ RowsBacked
    /\ ObjectsOfRows
    /\ ObjectsOfFiles
    /\ ObjectsOfJobs
    /\ Unused
    /\ StagedStored
    /\ Condemned

LEMMA StorageInit == Init => StorageInv
<1> SUFFICES ASSUME Init PROVE StorageInv
  OBVIOUS
<1>1. TypeOK
  BY TypeInit
<1>2. PICK home \in [Legacy -> Shared], migrated \in SUBSET Legacy,
           recorded \in SUBSET Legacy :
        /\ recorded \subseteq migrated
        /\ objs = {home[i] : i \in Legacy}
        /\ rows = [i \in Ids |-> IF i \in Legacy
                      THEN [listed |-> TRUE, revision |-> 1, object |-> home[i],
                            file |-> IF i \in migrated THEN i ELSE None]
                      ELSE NoRow]
        /\ files = [f \in FileIds |-> IF f \in recorded THEN ActiveFile(home[f])
                                                       ELSE NoFile]
  BY DEF Init
<1>3. \A i \in Ids : rows[i].listed =>
        i \in Legacy /\ rows[i].object \in Shared /\ rows[i].file \notin Requests
  BY <1>2, IdsAssumption DEF NoRow, Ids
<1>4. \A f \in FileIds : files[f].state # "none" => f \in Legacy /\ files[f].object \in Shared
  BY <1>2 DEF NoFile, ActiveFile, FileIds, Ids
<1>5. RowsBacked /\ ObjectsOfRows
  <2>1. \A i \in Ids : rows[i].listed => rows[i].object \in objs
    BY <1>2 DEF NoRow, Ids
  <2> QED
    BY <1>3, <2>1, IdsAssumption DEF RowsBacked, ObjectsOfRows, OwnObject
<1>6. ObjectsOfFiles
  BY <1>4, IdsAssumption DEF ObjectsOfFiles, OwnObject
<1>7. ObjectsOfJobs /\ Unused
  <2>1. \A j \in Jobs : jobs[j].at = "new" /\ jobs[j].file = None
    BY DEF Init, NoJob
  <2>2. \A r \in Requests : r \notin Legacy /\ r \in Ids /\ r \in FileIds /\ r # None
    BY IdsAssumption DEF Ids, FileIds
  <2> QED
    BY <1>3, <1>4, <2>1, <2>2 DEF ObjectsOfJobs, Unused
<1>8. StagedStored /\ Condemned
  BY DEF Init, StagedStored, Condemned
<1> QED
  BY <1>1, <1>5, <1>6, <1>7, <1>8 DEF StorageInv

\* A step of a request that stages and uploads nothing.
Settles ==
    \A r \in Requests :
        /\ reqs'[r].at \in {"new", "apply"} => reqs[r].at \in {"new", "apply"}
        /\ reqs'[r].at \in {"upload", "publish"} => reqs'[r].at = reqs[r].at

LEMMA MoveSettles ==
    ASSUME TypeOK, NEW r \in Requests,
           NEW at \in {"readback", "recover", "release", "done"},
           MoveTo(r, at)
    PROVE  Settles
BY DEF TypeOK, RequestRecord, MoveTo, Settles

LEMMA ReplySettles ==
    ASSUME TypeOK, NEW r \in Requests, NEW reply, ReplyWith(r, reply)
    PROVE  Settles
BY DEF TypeOK, RequestRecord, ReplyWith, Settles

LEMMA FinishSettles ==
    ASSUME TypeOK, NEW r \in Requests, NEW result, NEW reply, Finish(r, result, reply)
    PROVE  Settles
BY MoveSettles, ReplySettles DEF Finish

\* The requests go on, and nothing of the library changes.
LEMMA StorageQuiet ==
    ASSUME StorageInv, TypeOK', Settles, UNCHANGED <<rows, files, objs, jobs, cleaners>>
    PROVE  StorageInv'
<1>1. Unused'
  BY DEF StorageInv, Settles, Unused
<1>2. StagedStored'
  BY DEF StorageInv, Settles, StagedStored
<1>3. (RowsBacked /\ ObjectsOfRows /\ ObjectsOfFiles /\ ObjectsOfJobs /\ Condemned)'
  BY DEF StorageInv, RowsBacked, ObjectsOfRows, ObjectsOfFiles, ObjectsOfJobs,
         Condemned, Referenced
<1> QED
  BY <1>1, <1>2, <1>3 DEF StorageInv

LEMMA StorageRequest ==
    ASSUME StorageInv, TypeOK', NEW r \in Requests, RequestStep(r)
    PROVE  StorageInv'
<1> USE DEF StorageInv
<1>i. Requests \subseteq Ids /\ Requests \subseteq FileIds
  BY DEF Ids, FileIds
<1>1. ASSUME NEW k \in Keys, Send(r, k) PROVE StorageInv'
  <2>1. \E body : Reserve(r, k, body)
    BY <1>1 DEF Send
  <2>2. Settles
    BY <2>1 DEF Reserve, TypeOK, RequestRecord, Settles
  <2> QED
    BY <2>1, <2>2, StorageQuiet DEF Reserve
<1>2. CASE LoseAttempt(r)
  BY <1>2, MoveSettles, StorageQuiet DEF LoseAttempt
<1>3. CASE RejectUpload(r)
  BY <1>3, FinishSettles, StorageQuiet DEF RejectUpload
<1>4. CASE Stage(r)
  <2>1. /\ files' = [files EXCEPT ![r] = [state |-> "staged", key |-> reqs[r].key,
                                          object |-> r, grace |-> StagedGrace]]
        /\ \E at \in {"upload", "recover"} : MoveTo(r, at)
        /\ UNCHANGED <<rows, objs, jobs, cleaners>>
        /\ reqs[r].at = "apply" /\ files[r].state = "none"
    BY <1>4 DEF Stage, Unused
  <2>2. /\ files'[r].state = "staged" /\ files'[r].object = r
        /\ \A f \in FileIds \ {r} : files'[f] = files[f]
    BY <1>i, <2>1 DEF TypeOK
  <2>3. /\ reqs'[r].at \in {"upload", "recover"}
        /\ \A q \in Requests \ {r} : reqs'[q] = reqs[q]
    BY <2>1 DEF MoveTo, TypeOK, RequestRecord
  <2>4. (RowsBacked /\ ObjectsOfRows /\ ObjectsOfJobs)'
    BY <2>1 DEF RowsBacked, ObjectsOfRows, ObjectsOfJobs
  <2>5. ObjectsOfFiles'
    BY <1>i, <2>2 DEF ObjectsOfFiles, OwnObject
  <2>6. Unused'
    BY <1>i, <2>1, <2>2, <2>3 DEF Unused
  <2>7. StagedStored'
    BY <1>i, <2>1, <2>2, <2>3 DEF StagedStored
  <2>8. Condemned'
    BY <1>i, <2>1, <2>2 DEF Condemned, Referenced
  <2> QED
    BY <2>4, <2>5, <2>6, <2>7, <2>8
<1>5. CASE Upload(r)
  <2>1. /\ objs' = objs \cup {r}
        /\ \E at \in {"publish", "recover"} : MoveTo(r, at)
        /\ UNCHANGED <<rows, files, jobs, cleaners>>
        /\ reqs[r].at = "upload"
    BY <1>5 DEF Upload
  <2>2. /\ reqs'[r].at \in {"publish", "recover"}
        /\ \A q \in Requests \ {r} : reqs'[q] = reqs[q]
    BY <2>1 DEF MoveTo, TypeOK, RequestRecord
  <2>3. (RowsBacked /\ ObjectsOfRows /\ ObjectsOfFiles /\ ObjectsOfJobs /\ Condemned)'
    BY <2>1 DEF RowsBacked, ObjectsOfRows, ObjectsOfFiles, ObjectsOfJobs, Condemned,
                Referenced
  <2>4. Unused' /\ StagedStored'
    BY <2>1, <2>2 DEF Unused, StagedStored
  <2> QED
    BY <2>3, <2>4
<1>6. CASE Publish(r)
  <2>1. /\ reqs[r].at = "publish" /\ files[r].state = "staged" /\ r \in objs
        /\ rows' = [rows EXCEPT ![r] = [listed |-> TRUE, revision |-> 1,
                                        file |-> r, object |-> r]]
        /\ files' = [files EXCEPT ![r].state = "active"]
        /\ Finish(r, "succeeded", "ok")
        /\ UNCHANGED <<objs, jobs, cleaners>>
    BY <1>6 DEF Publish, StagedStored
  <2>2. /\ files'[r].state = "active" /\ files'[r].object = files[r].object
        /\ \A f \in FileIds \ {r} : files'[f] = files[f]
    BY <1>i, <2>1 DEF TypeOK, FileRecord
  <2>3. /\ rows'[r].listed /\ rows'[r].object = r /\ rows'[r].file = r
        /\ \A i \in Ids \ {r} : rows'[i] = rows[i]
    BY <1>i, <2>1 DEF TypeOK, RowRecord
  <2>4. Settles /\ reqs'[r].at \in {"done", "recover"}
    BY ZenonT(60), <2>1, FinishSettles DEF Finish, MoveTo, ReplyWith, TypeOK, RequestRecord
  <2>5. (RowsBacked /\ ObjectsOfRows)'
    BY <2>1, <2>3 DEF RowsBacked, ObjectsOfRows, OwnObject
  <2>6. (ObjectsOfFiles /\ ObjectsOfJobs)'
    BY <2>1, <2>2 DEF ObjectsOfFiles, ObjectsOfJobs
  <2>7. Unused'
    BY <1>i, <2>1, <2>2, <2>3, <2>4 DEF Unused, Settles
  <2>8. StagedStored'
    BY <1>i, <2>1, <2>2, <2>4 DEF StagedStored, Settles
  <2>9. Condemned'
    <3> SUFFICES ASSUME NEW c \in Cleaners, cleaners[c].at = "delete"
                 PROVE  /\ cleaners[c].file \in FileIds
                        /\ files'[cleaners[c].file].state \in {"delete_pending", "deleted"}
                        /\ ~ \E i \in Ids : /\ rows'[i].listed
                                            /\ rows'[i].object
                                                 = files'[cleaners[c].file].object
      BY <2>1 DEF Condemned, Referenced
    <3> DEFINE f == cleaners[c].file
    <3>1. /\ f \in FileIds
          /\ files[f].state \in {"delete_pending", "deleted"}
          /\ ~ Referenced(files[f].object)
      BY DEF Condemned
    <3>2. f # r
      BY <2>1, <3>1
    <3>3. files[f].object # r
      BY <3>1, <3>2, IdsAssumption DEF ObjectsOfFiles, OwnObject
    <3> QED
      BY <2>2, <2>3, <3>1, <3>2, <3>3 DEF Referenced
  <2> QED
    BY <2>5, <2>6, <2>7, <2>8, <2>9
<1>7. CASE RejectItems(r)
  BY <1>7, FinishSettles, StorageQuiet DEF RejectItems
<1>8. CASE SetParts(r)
  <2>1. /\ Settles
        /\ UNCHANGED <<files, objs, jobs, cleaners>>
    BY <1>8, FinishSettles DEF SetParts
  <2>2. \A i \in Ids : /\ rows'[i].listed = rows[i].listed
                       /\ rows'[i].object = rows[i].object
                       /\ rows'[i].file = rows[i].file
    BY <1>8 DEF SetParts, TypeOK, RowRecord
  <2>3. (RowsBacked /\ ObjectsOfRows /\ ObjectsOfFiles /\ ObjectsOfJobs)'
    BY <2>1, <2>2 DEF RowsBacked, ObjectsOfRows, ObjectsOfFiles, ObjectsOfJobs
  <2>4. Unused'
    BY <1>i, <2>1, <2>2 DEF Unused, Settles
  <2>5. StagedStored'
    BY <2>1 DEF StagedStored, Settles
  <2>6. Condemned'
    BY <2>1, <2>2 DEF Condemned, Referenced
  <2> QED
    BY <2>3, <2>4, <2>5, <2>6
<1>9. CASE Delete(r)
  <2> DEFINE gone == Named(reqs[r].body)
  <2>1. /\ Settles
        /\ UNCHANGED <<objs, jobs, cleaners>>
        /\ Fresh(reqs[r].body)
    BY <1>9, FinishSettles, Zenon DEF Delete
  <2>2. gone \subseteq Ids /\ \A i \in gone : rows[i].listed
    BY <2>1 DEF Named, Fresh
  <2>3. \A i \in Ids : /\ rows'[i].listed => rows'[i] = rows[i] /\ rows[i].listed
                       /\ i \notin gone => rows'[i] = rows[i]
    <3>1. rows' = [i \in Ids |-> IF i \in gone
                                THEN [rows[i] EXCEPT !.listed = FALSE,
                                                     !.file = FileOf(i, i)]
                                ELSE rows[i]]
      BY <1>9, Zenon DEF Delete
    <3>2. \A i \in Ids : [rows[i] EXCEPT !.listed = FALSE,
                                        !.file = FileOf(i, i)].listed = FALSE
      BY DEF TypeOK, RowRecord
    <3> QED
      BY <2>2, <3>1, <3>2
  <2>4. ASSUME NEW f \in FileIds
        PROVE  \/ files'[f] = files[f]
               \/ \E i \in gone : /\ f = FileOf(i, i)
                                  /\ files'[f] = RetiredFile(Ensured(f, rows[i].object))
    <3>1. CASE \E i \in gone : f = FileOf(i, i)
      <4> DEFINE i == CHOOSE i \in gone : f = FileOf(i, i)
      <4>1. i \in gone /\ f = FileOf(i, i)
        BY <3>1
      <4>2. files'[f] = RetiredFile(Ensured(f, rows[i].object))
        BY <1>9, <3>1 DEF Delete
      <4> QED
        BY <4>1, <4>2
    <3>2. CASE ~ \E i \in gone : f = FileOf(i, i)
      BY <1>9, <3>2 DEF Delete
    <3> QED
      BY <3>1, <3>2
  <2> DEFINE Kept(f) ==
        /\ files[f].state # "none" => /\ files'[f].state # "none"
                                      /\ files'[f].object = files[f].object
        /\ files'[f].state # "none" => OwnObject(f, files'[f].object)
        /\ files[f].state \in {"delete_pending", "deleted"} => files'[f] = files[f]
        /\ files'[f].state = "staged" => files'[f] = files[f]
        /\ f \in Requests /\ ~ rows[f].listed => files'[f] = files[f]
  <2>5. ASSUME NEW f \in FileIds
        PROVE  Kept(f)
    <3>1. CASE files'[f] = files[f]
      BY <3>1 DEF ObjectsOfFiles
    <3>2. ASSUME NEW i \in gone, f = FileOf(i, i),
                 files'[f] = RetiredFile(Ensured(f, rows[i].object))
          PROVE  Kept(f)
      <4>1. OwnObject(f, rows[i].object) /\ (f \in Requests => f = i)
        BY <2>2, <3>2, IdsAssumption DEF ObjectsOfRows, OwnObject, FileOf, Ids
      <4>2. CASE files[f].state = "none"
        BY <2>2, <3>2, <4>1, <4>2
        DEF RetiredFile, Ensured, ActiveFile
      <4>3. CASE files[f].state # "none"
        <5>1. files[f] \in FileRecord
          BY DEF TypeOK
        <5> QED
          BY <2>2, <3>2, <4>1, <4>3, <5>1
          DEF RetiredFile, Ensured, ObjectsOfFiles, FileRecord
      <4> QED
        BY <4>2, <4>3
    <3> QED
      BY <2>4, <3>1, <3>2
  <2>6. (RowsBacked /\ ObjectsOfRows /\ ObjectsOfJobs)'
    BY <2>1, <2>3 DEF RowsBacked, ObjectsOfRows, ObjectsOfJobs
  <2>7. ObjectsOfFiles'
    BY <2>5 DEF ObjectsOfFiles
  <2>8. Unused'
    BY <1>i, <2>1, <2>3, <2>5 DEF Unused, Settles
  <2>9. StagedStored'
    BY <1>i, <2>1, <2>5 DEF StagedStored, Settles
  <2>10. Condemned'
    BY <2>1, <2>3, <2>5 DEF Condemned, Referenced
  <2> QED
    BY <2>6, <2>7, <2>8, <2>9, <2>10
<1>10. CASE Fail(r)
  BY <1>10, MoveSettles, StorageQuiet DEF Fail
<1>11. CASE ReadBack(r)
  BY <1>11, ReplySettles, StorageQuiet DEF ReadBack
<1>13. CASE Recover(r)
  BY <1>13, ReplySettles, MoveSettles, StorageQuiet DEF Recover
<1>14. CASE Release(r)
  BY <1>14, ReplySettles, StorageQuiet DEF Release
<1>15. CASE Crash(r)
  BY <1>15, MoveSettles, StorageQuiet DEF Crash
<1> QED
  BY <1>1, <1>2, <1>3, <1>4, <1>5, <1>6, <1>7, <1>8, <1>9, <1>10, <1>11,
     <1>13, <1>14, <1>15 DEF RequestStep

LEMMA StorageCleaner ==
    ASSUME StorageInv, TypeOK', NEW c \in Cleaners, CleanerStep(c)
    PROVE  StorageInv'
<1> USE DEF StorageInv
<1>i. Requests \subseteq Ids /\ Requests \subseteq FileIds
  BY DEF Ids, FileIds
<1>1. ASSUME NEW f \in FileIds, CleanMark(c, f) PROVE StorageInv'
  <2>1. /\ files'[f].state = "delete_pending" /\ files'[f].object = files[f].object
        /\ \A g \in FileIds \ {f} : files'[g] = files[g]
        /\ files[f].state \in {"staged", "retired", "delete_pending"}
        /\ ~ Referenced(files[f].object)
        /\ UNCHANGED <<reqs, rows, objs, jobs>>
    BY <1>1 DEF CleanMark, Eligible, TypeOK, FileRecord
  <2>2. /\ cleaners'[c].at = "delete" /\ cleaners'[c].file = f
        /\ \A d \in Cleaners \ {c} : cleaners'[d] = cleaners[d]
    BY <1>1 DEF CleanMark, TypeOK
  <2>3. (RowsBacked /\ ObjectsOfRows /\ ObjectsOfFiles /\ ObjectsOfJobs)'
    BY <2>1 DEF RowsBacked, ObjectsOfRows, ObjectsOfFiles, ObjectsOfJobs
  <2>4. Unused' /\ StagedStored'
    BY <1>i, <2>1 DEF Unused, StagedStored
  <2>5. Condemned'
    BY <2>1, <2>2 DEF Condemned, Referenced
  <2> QED
    BY <2>3, <2>4, <2>5
<1>2. CASE CleanDelete(c)
  <2> DEFINE f == cleaners[c].file
  <2>1. /\ objs' = objs \ {files[f].object}
        /\ UNCHANGED <<reqs, rows, files, jobs>>
        /\ f \in FileIds /\ files[f].state \in {"delete_pending", "deleted"}
        /\ ~ Referenced(files[f].object)
    BY <1>2 DEF CleanDelete, Condemned
  <2>2. \A d \in Cleaners : cleaners'[d].at = "delete" => cleaners'[d] = cleaners[d]
    BY <1>2 DEF CleanDelete, TypeOK, CleanerRecord
  <2>3. RowsBacked'
    BY <2>1 DEF RowsBacked, Referenced
  <2>4. (ObjectsOfRows /\ ObjectsOfFiles /\ ObjectsOfJobs /\ Unused)'
    BY <2>1 DEF ObjectsOfRows, ObjectsOfFiles, ObjectsOfJobs, Unused
  <2>5. ASSUME NEW r \in Requests, files[r].state = "staged"
        PROVE  files[f].object # r
    BY <2>1, <2>5, IdsAssumption DEF ObjectsOfFiles, OwnObject
  <2>6. StagedStored'
    BY <2>1, <2>5 DEF StagedStored
  <2>7. Condemned'
    BY <2>1, <2>2 DEF Condemned, Referenced
  <2> QED
    BY <2>3, <2>4, <2>6, <2>7
<1>3. CASE CleanDeleteFails(c) \/ CleanCrash(c)
  <2>1. /\ UNCHANGED <<reqs, rows, files, objs, jobs>>
        /\ \A d \in Cleaners : cleaners'[d].at = "delete" => cleaners'[d] = cleaners[d]
    BY <1>3 DEF CleanDeleteFails, CleanCrash, TypeOK, CleanerRecord
  <2> QED
    BY <2>1 DEF RowsBacked, ObjectsOfRows, ObjectsOfFiles, ObjectsOfJobs, Unused,
                StagedStored, Condemned, Referenced
<1>4. CASE CleanRecord(c)
  <2>1. /\ UNCHANGED <<reqs, rows, objs, jobs>>
        /\ \A d \in Cleaners : cleaners'[d].at = "delete" => cleaners'[d] = cleaners[d]
    BY <1>4 DEF CleanRecord, TypeOK, CleanerRecord
  <2>2. \A f \in FileIds :
          \/ files'[f] = files[f]
          \/ /\ files[f].state = "delete_pending" /\ files'[f].state = "deleted"
             /\ files'[f].object = files[f].object
    BY <1>4 DEF CleanRecord, TypeOK, FileRecord
  <2>3. (RowsBacked /\ ObjectsOfRows /\ ObjectsOfFiles /\ ObjectsOfJobs)'
    BY <2>1, <2>2 DEF RowsBacked, ObjectsOfRows, ObjectsOfFiles, ObjectsOfJobs
  <2>4. Unused' /\ StagedStored'
    BY <1>i, <2>1, <2>2 DEF Unused, StagedStored
  <2>5. Condemned'
    BY <2>1, <2>2 DEF Condemned, Referenced
  <2> QED
    BY <2>3, <2>4, <2>5
<1> QED
  BY <1>1, <1>2, <1>3, <1>4 DEF CleanerStep

LEMMA StorageJob ==
    ASSUME StorageInv, TypeOK', NEW j \in Jobs, JobStep(j)
    PROVE  StorageInv'
<1> USE DEF StorageInv
<1>i. Requests \subseteq Ids /\ Requests \subseteq FileIds /\ j \in FileIds /\ j \notin Requests
  BY IdsAssumption DEF Ids, FileIds
<1>1. ASSUME NEW i \in Ids, JobRead(j, i) PROVE StorageInv'
  <2>1. /\ rows[i].listed
        /\ UNCHANGED <<reqs, rows, files, objs, cleaners>>
    BY <1>1 DEF JobRead
  <2>2. /\ jobs'[j].row = i /\ jobs'[j].file = FileOf(i, j)
        /\ jobs'[j].object = rows[i].object
        /\ \A h \in Jobs \ {j} : jobs'[h] = jobs[h]
    BY <1>1 DEF JobRead, TypeOK, JobRecord
  <2>3. FileOf(i, j) \in FileIds
    BY <1>i, FileOfType
  <2>4. FileOf(i, j) = (IF i \in Requests THEN i ELSE FileOf(i, j))
    BY <2>1, IdsAssumption DEF ObjectsOfRows, FileOf
  <2>5. i \notin Requests => FileOf(i, j) \notin Requests
    BY <1>i, <2>1 DEF ObjectsOfRows, FileOf
  <2>6. OwnObject(FileOf(i, j), rows[i].object)
    BY <2>1, <2>4, <2>5 DEF ObjectsOfRows, OwnObject
  <2>7. ObjectsOfJobs'
    BY <2>2, <2>3, <2>6 DEF ObjectsOfJobs
  <2>8. Unused'
    BY <2>1, <2>2, <2>4, <2>5 DEF Unused
  <2>9. (RowsBacked /\ ObjectsOfRows /\ ObjectsOfFiles /\ StagedStored /\ Condemned)'
    BY <2>1 DEF RowsBacked, ObjectsOfRows, ObjectsOfFiles, StagedStored, Condemned,
                Referenced
  <2> QED
    BY <2>7, <2>8, <2>9
<1>2. CASE JobCreate(j)
  <2> DEFINE i == jobs[j].row
             f == jobs[j].file
  <2>1. /\ i \in Ids /\ f \in FileIds /\ OwnObject(f, jobs[j].object)
        /\ UNCHANGED <<reqs, objs, cleaners>>
    BY <1>2 DEF JobCreate, ObjectsOfJobs
  <2>2. /\ \A g \in FileIds \ {f} : files'[g] = files[g]
        /\ files[f].state # "none" => files'[f] = files[f]
        /\ files[f].state = "none" => /\ files'[f].state = "active"
                                      /\ files'[f].object = jobs[j].object
    BY <1>2, <2>1 DEF JobCreate, Ensured, ActiveFile, TypeOK
  <2>3. \A h \in Ids : /\ rows'[h].listed = rows[h].listed
                       /\ rows'[h].object = rows[h].object
                       /\ \/ rows'[h].file = rows[h].file
                          \/ rows[h].file = None /\ rows'[h].file = j
    BY SMTT(40), <1>2, <2>1 DEF JobCreate, FileOf, TypeOK, RowRecord
  <2>4. \A h \in Jobs : /\ jobs'[h].file = jobs[h].file
                        /\ jobs'[h].at = "creating" => jobs'[h] = jobs[h]
    BY <1>2 DEF JobCreate, TypeOK, JobRecord
  <2>5. RowsBacked' /\ ObjectsOfRows'
    BY <1>i, <2>1, <2>3, IdsAssumption DEF RowsBacked, ObjectsOfRows
  <2>6. ObjectsOfFiles'
    BY <2>1, <2>2 DEF ObjectsOfFiles
  <2>7. ObjectsOfJobs'
    BY <2>4 DEF ObjectsOfJobs
  <2>8. Unused'
    BY <1>i, <2>1, <2>2, <2>3, <2>4 DEF Unused
  <2>9. StagedStored'
    BY <1>i, <2>1, <2>2 DEF StagedStored
  <2>10. Condemned'
    BY <2>1, <2>2, <2>3 DEF Condemned, Referenced
  <2> QED
    BY <2>5, <2>6, <2>7, <2>8, <2>9, <2>10
<1>3. CASE JobClaim(j) \/ JobEnd(j)
  <2>1. UNCHANGED <<reqs, rows, files, objs, cleaners>>
    BY <1>3 DEF JobClaim, JobEnd
  <2>2. \A h \in Jobs : /\ jobs'[h].file = jobs[h].file
                        /\ jobs'[h].at = "creating" => jobs'[h] = jobs[h]
    BY <1>3 DEF JobClaim, JobEnd, TypeOK, JobRecord
  <2> QED
    BY <2>1, <2>2 DEF RowsBacked, ObjectsOfRows, ObjectsOfFiles, ObjectsOfJobs, Unused,
                      StagedStored, Condemned, Referenced
<1> QED
  BY <1>1, <1>2, <1>3 DEF JobStep

LEMMA StorageNext == StorageInv /\ [Next]_vars => StorageInv'
<1> SUFFICES ASSUME StorageInv, [Next]_vars PROVE StorageInv'
  OBVIOUS
<1>t. TypeOK /\ TypeOK'
  BY TypeNext DEF StorageInv
<1>1. CASE CleanLeases
  <2>1. UNCHANGED <<reqs, rows, files, objs, cleaners>>
    BY <1>1 DEF CleanLeases
  <2>2. \A h \in Jobs : /\ jobs'[h].file = jobs[h].file
                        /\ jobs'[h].at = jobs[h].at
                        /\ jobs'[h].row = jobs[h].row
                        /\ jobs'[h].object = jobs[h].object
    BY <1>t, <1>1 DEF CleanLeases, TypeOK, JobRecord
  <2> QED
    BY <1>t, <2>1, <2>2 DEF StorageInv, RowsBacked, ObjectsOfRows, ObjectsOfFiles,
                      ObjectsOfJobs, Unused, StagedStored, Condemned, Referenced
<1>2. CASE Tick
  <2>1. UNCHANGED <<reqs, rows, objs, cleaners>>
    BY <1>2 DEF Tick
  <2>2. \A h \in Jobs : /\ jobs'[h].file = jobs[h].file
                        /\ jobs'[h].at = jobs[h].at
                        /\ jobs'[h].row = jobs[h].row
                        /\ jobs'[h].object = jobs[h].object
    <3> SUFFICES ASSUME NEW h \in Jobs
                 PROVE  /\ jobs'[h].file = jobs[h].file /\ jobs'[h].at = jobs[h].at
                        /\ jobs'[h].row = jobs[h].row /\ jobs'[h].object = jobs[h].object
      OBVIOUS
    <3> DEFINE n == Less(jobs[h].left)
               b == jobs[h].lapsed \/ (jobs[h].leased /\ jobs[h].left <= 1)
    <3>1. jobs'[h] = [jobs[h] EXCEPT !.left = n, !.lapsed = b]
      BY <1>2, Zenon DEF Tick
    <3> HIDE DEF n, b
    <3> QED
      BY <1>t, <3>1 DEF TypeOK, JobRecord
  <2>3. \A f \in FileIds : /\ files'[f].state = files[f].state
                           /\ files'[f].object = files[f].object
    BY <1>t, <1>2 DEF Tick, TypeOK, FileRecord
  <2>4. Requests \subseteq FileIds
    BY DEF FileIds, Ids
  <2> QED
    <3>1. (RowsBacked /\ ObjectsOfRows)'
      BY <2>1 DEF StorageInv, RowsBacked, ObjectsOfRows
    <3>2. (ObjectsOfFiles /\ ObjectsOfJobs)'
      BY <2>2, <2>3 DEF StorageInv, ObjectsOfFiles, ObjectsOfJobs
    <3>3. Unused' /\ StagedStored'
      BY <2>1, <2>2, <2>3, <2>4 DEF StorageInv, Unused, StagedStored
    <3>4. Condemned'
      BY <2>1, <2>3 DEF StorageInv, Condemned, Referenced
    <3> QED
      BY <1>t, <3>1, <3>2, <3>3, <3>4 DEF StorageInv
<1>3. CASE UNCHANGED vars
  BY <1>t, <1>3 DEF vars, StorageInv, RowsBacked, ObjectsOfRows, ObjectsOfFiles,
                    ObjectsOfJobs, Unused, StagedStored, Condemned, Referenced
<1> QED
  BY <1>t, <1>1, <1>2, <1>3, StorageRequest, StorageCleaner, StorageJob DEF Next

\* The PDF of every row in the list is in the storage, whatever requests,
\* takeovers, crashes, ZIP jobs and cleanup runs do to each other.
THEOREM RowsAlwaysBacked == Spec => []RowsBacked
<1>1. StorageInv => RowsBacked
  BY DEF StorageInv
<1> QED
  BY <1>1, StorageInit, StorageNext, PTL DEF Spec

-----------------------------------------------------------------------------
(* Exactly once.  What ties the rows and the answers to the operations: the   *)
(* operation knows the request that last claimed it, every request that       *)
(* reserve let through asked for the same change, and an outcome never        *)
(* changes.                                                                   *)

Waiting ==
    \A r \in Requests : reqs[r].at # "done" => reqs[r].reply = "none"

Claimed ==
    \A k \in Keys : ops[k].state # "none" =>
        /\ ops[k].attempt \in Requests
        /\ reqs[ops[k].attempt].key = k
        /\ reqs[ops[k].attempt].at # "new"

Keyed == \A r \in Requests : reqs[r].at # "new" => reqs[r].key \in Keys

\* Only what reserve has claimed is applied.
Reserved ==
    \A r \in Requests :
        reqs[r].at \in {"apply", "upload", "publish"} => reqs[r].op # None

SameChange ==
    \A r \in Requests :
        reqs[r].at # "new" /\ reqs[r].reply # "conflict" /\ reqs[r].op # None =>
            /\ ops[reqs[r].key].state # "none"
            /\ ops[reqs[r].key].body = reqs[r].body

PublishedByOperation ==
    \A r \in Requests : rows[r].revision > 0 =>
        /\ reqs[r].at # "new" /\ reqs[r].key \in Keys
        /\ ops[reqs[r].key].state = "succeeded"
        /\ ops[reqs[r].key].attempt = r

SucceededPublished ==
    \A k \in Keys : ops[k].state = "succeeded" /\ ops[k].body = UploadBody =>
        rows[ops[k].attempt].revision > 0

OperationInv ==
    /\ TypeOK
    /\ Waiting
    /\ Claimed
    /\ Keyed
    /\ Reserved
    /\ SameChange
    /\ ReplyTruthful
    /\ PublishedByOperation
    /\ SucceededPublished

LEMMA OperationInit == Init => OperationInv
<1> SUFFICES ASSUME Init PROVE OperationInv
  OBVIOUS
<1>1. TypeOK
  BY TypeInit
<1>2. \A r \in Requests : reqs[r].at = "new" /\ reqs[r].reply = "none"
  BY DEF Init
<1>3. \A k \in Keys : ops[k].state = "none"
  BY DEF Init
<1>4. \A r \in Requests : rows[r].revision = 0
  BY IdsAssumption DEF Init, NoRow, Ids
<1> QED
  BY <1>1, <1>2, <1>3, <1>4
  DEF OperationInv, Waiting, Claimed, Keyed, Reserved, SameChange, ReplyTruthful,
      PublishedByOperation, SucceededPublished

\* Steps that touch neither requests, nor results, nor revisions.
LEMMA OperationQuiet ==
    ASSUME OperationInv, TypeOK', UNCHANGED reqs,
           \A k \in Keys : /\ ops'[k].state = ops[k].state
                           /\ ops'[k].attempt = ops[k].attempt
                           /\ ops'[k].body = ops[k].body,
           \A i \in Ids : rows'[i].revision = rows[i].revision
    PROVE  OperationInv'
<1>i. Requests \subseteq Ids
  BY DEF Ids
<1>1. Waiting'
  BY DEF OperationInv, Waiting
<1>2. Claimed'
  BY DEF OperationInv, Claimed
<1>3. Keyed' /\ Reserved' /\ SameChange'
  BY DEF OperationInv, Keyed, Reserved, SameChange
<1>4. ReplyTruthful'
  <2>1. \A r \in Requests : reqs[r].reply \in {"ok", "rejected"} => reqs[r].key \in Keys
    <3>1. \A r \in Requests : reqs[r].reply \in {"ok", "rejected"} => reqs[r].at = "done"
      BY DEF OperationInv, Waiting
    <3> QED
      BY <3>1 DEF OperationInv, Keyed
  <2> QED
    BY <2>1 DEF OperationInv, ReplyTruthful
<1>5. PublishedByOperation'
  BY <1>i DEF OperationInv, PublishedByOperation
<1>6. SucceededPublished'
  BY <1>i DEF OperationInv, SucceededPublished, Claimed
<1> QED
  BY <1>1, <1>2, <1>3, <1>4, <1>5, <1>6 DEF OperationInv

\* A request that was let through goes on; no result and no revision changes.
LEMMA OperationMove ==
    ASSUME OperationInv, TypeOK', NEW r \in Requests,
           reqs[r].at \notin {"new", "done"},
           \/ \E at \in Stages \ {"new", "apply"} :
                /\ MoveTo(r, at)
                /\ at \in {"upload", "publish"} =>
                     reqs[r].at \in {"apply", "upload", "publish"}
           \/ \E reply \in {"processing", "retry", Stored(r)} : ReplyWith(r, reply),
           \A k \in Keys : /\ ops'[k].state = ops[k].state
                           /\ ops'[k].attempt = ops[k].attempt
                           /\ ops'[k].body = ops[k].body,
           UNCHANGED rows
    PROVE  OperationInv'
<1>i. Requests \subseteq Ids
  BY DEF Ids
<1>1. /\ reqs'[r].at # "new"
      /\ reqs'[r].key = reqs[r].key /\ reqs'[r].body = reqs[r].body
      /\ reqs'[r].op = reqs[r].op
      /\ \/ reqs'[r].reply = "none"
         \/ reqs'[r].at = "done" /\ reqs'[r].reply \in {"processing", "retry", Stored(r)}
      /\ reqs'[r].at \in {"apply", "upload", "publish"} =>
           reqs[r].at \in {"apply", "upload", "publish"}
      /\ \A q \in Requests \ {r} : reqs'[q] = reqs[q]
  BY DEF OperationInv, Waiting, MoveTo, ReplyWith, TypeOK, RequestRecord
<1>2. /\ reqs[r].key \in Keys
      /\ reqs[r].op # None => /\ ops[reqs[r].key].state # "none"
                              /\ ops[reqs[r].key].body = reqs[r].body
  BY DEF OperationInv, Waiting, Keyed, SameChange
<1>3. /\ Stored(r) = "ok" => ops[reqs[r].key].state = "succeeded"
      /\ Stored(r) = "rejected" => ops[reqs[r].key].state = "rejected"
      /\ Stored(r) \in {"ok", "rejected", "processing"}
  BY DEF Stored
<1>4. Waiting'
  BY <1>1 DEF OperationInv, Waiting
<1>5. Claimed'
  BY <1>1 DEF OperationInv, Claimed
<1>6. Keyed' /\ Reserved' /\ SameChange'
  <2>1. Keyed'
    BY <1>1, <1>2 DEF OperationInv, Keyed
  <2>2. Reserved'
    BY <1>1 DEF OperationInv, Reserved
  <2>3. SameChange'
    <3> SUFFICES ASSUME NEW q \in Requests, reqs'[q].at # "new",
                        reqs'[q].reply # "conflict", reqs'[q].op # None
                 PROVE  /\ ops'[reqs'[q].key].state # "none"
                        /\ ops'[reqs'[q].key].body = reqs'[q].body
      BY DEF SameChange
    <3>1. CASE q = r
      BY <1>1, <1>2, <3>1
    <3>2. CASE q # r
      BY <1>1, <3>2 DEF OperationInv, Keyed, SameChange
    <3> QED
      BY <3>1, <3>2
  <2> QED
    BY <2>1, <2>2, <2>3
<1>7. ReplyTruthful'
  <2> SUFFICES ASSUME NEW q \in Requests, reqs'[q].reply \in {"ok", "rejected"}
               PROVE  /\ reqs'[q].op # None => ops'[reqs'[q].key].body = reqs'[q].body
                      /\ ops'[reqs'[q].key].state
                           = IF reqs'[q].reply = "ok" THEN "succeeded" ELSE "rejected"
    BY DEF ReplyTruthful
  <2>1. CASE q = r
    BY <1>1, <1>2, <1>3, <2>1
  <2>2. CASE q # r
    <3>1. reqs[q].key \in Keys
      BY <1>1, <2>2 DEF OperationInv, Waiting, Keyed
    <3> QED
      BY <1>1, <2>2, <3>1 DEF OperationInv, ReplyTruthful
  <2> QED
    BY <2>1, <2>2
<1>8. PublishedByOperation'
  BY <1>1, <1>2 DEF OperationInv, PublishedByOperation
<1>9. SucceededPublished'
  BY DEF OperationInv, SucceededPublished
<1> QED
  BY <1>4, <1>5, <1>6, <1>7, <1>8, <1>9 DEF OperationInv

\* The owner of the operation stores its result.  The revisions change as this
\* result says: an upload publishes the row of its request.
LEMMA OperationFinish ==
    ASSUME OperationInv, TypeOK', NEW r \in Requests,
           reqs[r].at \in {"apply", "publish"}, OwnsAttempt(r),
           NEW result \in {"succeeded", "rejected"},
           Finish(r, result, IF result = "succeeded" THEN "ok" ELSE "rejected"),
           \A q \in Requests \ {r} : rows'[q].revision > 0 <=> rows[q].revision > 0,
           rows[r].revision = 0,
           result = "rejected" => rows'[r].revision = 0,
           result = "succeeded" /\ reqs[r].body = UploadBody => rows'[r].revision > 0
    PROVE  OperationInv'
<1> DEFINE k == reqs[r].key
<1>1. /\ k \in Keys /\ ops[k].body = reqs[r].body
      /\ ops[k].state = "processing" /\ ops[k].attempt = r
  BY DEF OperationInv, Waiting, Keyed, Reserved, SameChange, OwnsAttempt
<1>2. /\ reqs'[r].at \in {"done", "recover"}
      /\ reqs'[r].key = k /\ reqs'[r].body = reqs[r].body /\ reqs'[r].op = reqs[r].op
      /\ \/ reqs'[r].reply = "none"
         \/ /\ reqs'[r].at = "done"
            /\ reqs'[r].reply = IF result = "succeeded" THEN "ok" ELSE "rejected"
      /\ \A q \in Requests \ {r} : reqs'[q] = reqs[q]
  BY DEF OperationInv, Waiting, Finish, MoveTo, ReplyWith, TypeOK, RequestRecord
<1>3. /\ ops'[k].state = result /\ ops'[k].attempt = r /\ ops'[k].body = reqs[r].body
      /\ \A l \in Keys \ {k} : ops'[l] = ops[l]
  BY <1>1 DEF OperationInv, Finish, TypeOK, OperationRecord
<1>4. Waiting'
  BY <1>2 DEF OperationInv, Waiting
<1>5. Claimed'
  BY <1>1, <1>2, <1>3 DEF OperationInv, Claimed
<1>6. Keyed' /\ Reserved' /\ SameChange'
  <2>1. Keyed' /\ Reserved'
    BY <1>1, <1>2 DEF OperationInv, Keyed, Reserved
  <2>2. SameChange'
    BY <1>1, <1>2, <1>3 DEF OperationInv, Keyed, SameChange
  <2> QED
    BY <2>1, <2>2
<1>7. ReplyTruthful'
  <2> SUFFICES ASSUME NEW q \in Requests, reqs'[q].reply \in {"ok", "rejected"}
               PROVE  /\ reqs'[q].op # None => ops'[reqs'[q].key].body = reqs'[q].body
                      /\ ops'[reqs'[q].key].state
                           = IF reqs'[q].reply = "ok" THEN "succeeded" ELSE "rejected"
    BY DEF ReplyTruthful
  <2>1. CASE q = r
    BY <1>2, <1>3, <2>1
  <2>2. CASE q # r
    <3>1. reqs[q].key \in Keys
      BY <1>2, <2>2 DEF OperationInv, Waiting, Keyed
    <3>2. reqs[q].key # k
      BY <1>1, <1>2, <2>2 DEF OperationInv, ReplyTruthful
    <3> QED
      BY <1>2, <1>3, <2>2, <3>1, <3>2 DEF OperationInv, ReplyTruthful
  <2> QED
    BY <2>1, <2>2
<1>8. PublishedByOperation'
  <2> SUFFICES ASSUME NEW q \in Requests, rows'[q].revision > 0
               PROVE  /\ reqs'[q].at # "new" /\ reqs'[q].key \in Keys
                      /\ ops'[reqs'[q].key].state = "succeeded"
                      /\ ops'[reqs'[q].key].attempt = q
    BY DEF PublishedByOperation
  <2>1. CASE q = r
    BY <1>1, <1>2, <1>3, <2>1
  <2>2. CASE q # r
    <3>1. reqs[q].key \in Keys \ {k}
      BY <1>1, <2>2 DEF OperationInv, PublishedByOperation
    <3> QED
      BY <1>2, <1>3, <2>2, <3>1 DEF OperationInv, PublishedByOperation
  <2> QED
    BY <2>1, <2>2
<1>9. SucceededPublished'
  BY <1>1, <1>2, <1>3 DEF OperationInv, SucceededPublished, Claimed
<1> QED
  BY <1>4, <1>5, <1>6, <1>7, <1>8, <1>9 DEF OperationInv

LEMMA OperationReserve ==
    ASSUME OperationInv, TypeOK', NEW r \in Requests, NEW k \in Keys, NEW body,
           Reserve(r, k, body)
    PROVE  OperationInv'
<1>i. Requests \subseteq Ids
  BY DEF Ids
<1>1. /\ reqs[r].at = "new" /\ UNCHANGED rows
      /\ reqs[r].reply = "none"
  BY DEF Reserve, OperationInv, Waiting
<1>2. \E at \in {"apply", "resent", "recover", "done"}, op \in {r, ops[k].attempt, None},
         reply \in {"none", "conflict"} :
        /\ reqs' = [reqs EXCEPT ![r] = [at |-> at, key |-> k, body |-> body,
                                        op |-> op, reply |-> reply]]
        /\ reply = "conflict" => at = "done"
        /\ at = "apply" => op = r
        /\ reply = "none" /\ op # None => ops'[k].state # "none" /\ ops'[k].body = body
  BY DEF Reserve, OperationInv, TypeOK
<1>3. /\ reqs'[r].at \notin {"new", "upload", "publish"}
      /\ reqs'[r].key = k /\ reqs'[r].body = body
      /\ reqs'[r].at = "apply" => reqs'[r].op = r
      /\ reqs'[r].reply = "none" \/ (reqs'[r].reply = "conflict" /\ reqs'[r].at = "done")
      /\ reqs'[r].reply = "none" /\ reqs'[r].op # None =>
           ops'[k].state # "none" /\ ops'[k].body = body
      /\ \A q \in Requests \ {r} : reqs'[q] = reqs[q]
  BY <1>2 DEF OperationInv, TypeOK
<1>4. /\ \A l \in Keys \ {k} : ops'[l] = ops[l]
      /\ \/ ops'[k] = ops[k]
         \/ /\ ops[k].state = "none" \/ (ops[k].state = "processing" /\ ops[k].body = body)
            /\ ops'[k].state = "processing" /\ ops'[k].attempt = r /\ ops'[k].body = body
  BY DEF Reserve, OperationInv, TypeOK
<1>5. Waiting'
  BY <1>3 DEF OperationInv, Waiting
<1>6. Claimed'
  <2> SUFFICES ASSUME NEW l \in Keys, ops'[l].state # "none"
               PROVE  /\ ops'[l].attempt \in Requests
                      /\ reqs'[ops'[l].attempt].key = l
                      /\ reqs'[ops'[l].attempt].at # "new"
    BY DEF Claimed
  <2>1. CASE ops'[l] = ops[l]
    BY <1>1, <1>3, <2>1 DEF OperationInv, Claimed
  <2>2. CASE ops'[l] # ops[l]
    BY <1>3, <1>4, <2>2
  <2> QED
    BY <2>1, <2>2
<1>7. Keyed' /\ Reserved' /\ SameChange'
  <2>1. Keyed'
    BY <1>3 DEF OperationInv, Keyed
  <2>2. Reserved'
    BY <1>3, IdsAssumption DEF OperationInv, Reserved
  <2>3. SameChange'
    <3> SUFFICES ASSUME NEW q \in Requests, reqs'[q].at # "new",
                        reqs'[q].reply # "conflict", reqs'[q].op # None
                 PROVE  /\ ops'[reqs'[q].key].state # "none"
                        /\ ops'[reqs'[q].key].body = reqs'[q].body
      BY DEF SameChange
    <3>1. CASE q = r
      BY <1>3, <3>1
    <3>2. CASE q # r
      BY <1>3, <1>4, <3>2 DEF OperationInv, Keyed, SameChange
    <3> QED
      BY <3>1, <3>2
  <2> QED
    BY <2>1, <2>2, <2>3
<1>8. ReplyTruthful'
  <2> SUFFICES ASSUME NEW q \in Requests, reqs'[q].reply \in {"ok", "rejected"}
               PROVE  /\ reqs'[q].op # None => ops'[reqs'[q].key].body = reqs'[q].body
                      /\ ops'[reqs'[q].key].state
                           = IF reqs'[q].reply = "ok" THEN "succeeded" ELSE "rejected"
    BY DEF ReplyTruthful
  <2>1. q # r /\ reqs[q].key \in Keys
    BY <1>3 DEF OperationInv, Waiting, Keyed
  <2>2. /\ reqs[q].op # None => ops[reqs[q].key].body = reqs[q].body
        /\ ops[reqs[q].key].state
             = IF reqs[q].reply = "ok" THEN "succeeded" ELSE "rejected"
    BY <1>3, <2>1 DEF OperationInv, ReplyTruthful
  <2> QED
    BY <1>3, <1>4, <2>1, <2>2
<1>9. PublishedByOperation'
  BY <1>1, <1>3, <1>4 DEF OperationInv, PublishedByOperation
<1>10. SucceededPublished'
  BY <1>1, <1>4 DEF OperationInv, SucceededPublished
<1> QED
  BY <1>5, <1>6, <1>7, <1>8, <1>9, <1>10 DEF OperationInv

LEMMA OperationNext == OperationInv /\ [Next]_vars => OperationInv'
<1> SUFFICES ASSUME OperationInv, [Next]_vars PROVE OperationInv'
  OBVIOUS
<1>i. Requests \subseteq Ids
  BY DEF Ids
<1>t. TypeOK /\ TypeOK'
  BY TypeNext DEF OperationInv
<1>s. Stages = {"new", "apply", "upload", "publish", "resent", "readback",
                "recover", "release", "done"}
  BY DEF Stages
<1>1. ASSUME NEW r \in Requests, RequestStep(r) PROVE OperationInv'
  <2>r. OwnsAttempt(r) /\ reqs[r].at \in {"apply", "publish"} => rows[r].revision = 0
    <3>1. rows[r].revision \in Nat
      BY <1>i, <1>t DEF TypeOK, RowRecord
    <3> QED
      BY <3>1 DEF OperationInv, PublishedByOperation, OwnsAttempt
  <2>1. ASSUME NEW k \in Keys, Send(r, k) PROVE OperationInv'
    BY <1>t, <2>1, OperationReserve DEF Send
  <2>2. CASE LoseAttempt(r) \/ Upload(r) \/ Fail(r) \/ Crash(r)
    BY <1>t, <1>s, <2>2, OperationMove DEF LoseAttempt, Upload, Fail, Crash, Working
  <2>3. CASE Stage(r)
    BY <1>t, <1>s, <2>3, OperationMove DEF Stage
  <2>4. CASE ReadBack(r) \/ Recover(r)
    BY <1>t, <1>s, <2>4, OperationMove DEF ReadBack, Recover
  <2>5. CASE Release(r)
    <3>1. \A k \in Keys : /\ ops'[k].state = ops[k].state
                          /\ ops'[k].attempt = ops[k].attempt
                          /\ ops'[k].body = ops[k].body
      BY <1>t, <2>5 DEF Release, TypeOK, OperationRecord
    <3> QED
      BY <1>t, <2>5, <3>1, OperationMove DEF Release
  <2>6. CASE RejectUpload(r) \/ RejectItems(r)
    BY <1>t, <2>r, <2>6, OperationFinish DEF RejectUpload, RejectItems
  <2>7. CASE Publish(r)
    <3>1. /\ rows'[r].revision = 1
          /\ \A q \in Requests \ {r} : rows'[q] = rows[q]
      BY <1>i, <1>t, <2>7 DEF Publish, TypeOK
    <3>2. 1 > 0
      OBVIOUS
    <3> QED
      BY <1>t, <2>r, <2>7, <3>1, <3>2, OperationFinish DEF Publish
  <2>8. CASE SetParts(r)
    <3>1. /\ reqs[r].at = "apply" /\ reqs[r].body.kind = "parts" /\ OwnsAttempt(r)
          /\ Fresh(reqs[r].body) /\ Finish(r, "succeeded", "ok")
          /\ reqs[r].body # UploadBody
      BY <2>8 DEF SetParts, UploadBody
    <3>2. \A q \in Requests :
            rows'[q].revision = IF q \in Named(reqs[r].body)
                                THEN rows[q].revision + 1 ELSE rows[q].revision
      BY <1>i, <1>t, <2>8 DEF SetParts, TypeOK, RowRecord
    <3>3. \A q \in Requests : /\ rows[q].revision \in Nat
                              /\ q \in Named(reqs[r].body) => rows[q].revision > 0
      BY <1>i, <1>t, <3>1 DEF Fresh, Named, TypeOK, RowRecord
    <3>4. \A q \in Requests : rows'[q].revision > 0 <=> rows[q].revision > 0
      BY <3>2, <3>3
    <3> QED
      BY <1>t, <2>r, <3>1, <3>4, OperationFinish
  <2>9. CASE Delete(r)
    <3>1. /\ reqs[r].at = "apply" /\ reqs[r].body.kind = "delete" /\ OwnsAttempt(r)
          /\ Finish(r, "succeeded", "ok")
          /\ rows' = [i \in Ids |-> IF i \in Named(reqs[r].body)
                                    THEN [rows[i] EXCEPT !.listed = FALSE,
                                                         !.file = FileOf(i, i)]
                                    ELSE rows[i]]
      BY <2>9, Zenon DEF Delete
    <3>2. reqs[r].body # UploadBody
      <4>1. reqs[r].body.kind = "delete"
        BY <3>1
      <4> QED
        BY <4>1 DEF UploadBody
    <3>3. \A q \in Requests : rows'[q].revision = rows[q].revision
      <4>1. \A q \in Requests : [rows[q] EXCEPT !.listed = FALSE,
                                 !.file = FileOf(q, q)].revision = rows[q].revision
        BY <1>i, <1>t DEF TypeOK, RowRecord
      <4> QED
        BY <1>i, <3>1, <4>1
    <3> QED
      BY <1>t, <2>r, <3>1, <3>2, <3>3, OperationFinish
  <2> QED
    BY <1>1, <2>1, <2>2, <2>3, <2>4, <2>5, <2>6, <2>7, <2>8, <2>9 DEF RequestStep
<1>2. ASSUME NEW c \in Cleaners, CleanerStep(c) PROVE OperationInv'
  BY <1>t, <1>2, OperationQuiet
  DEF CleanerStep, CleanMark, CleanDelete, CleanDeleteFails, CleanRecord, CleanCrash
<1>3. ASSUME NEW j \in Jobs, JobStep(j) PROVE OperationInv'
  <2>1. UNCHANGED <<reqs, ops>>
    BY <1>3 DEF JobStep, JobRead, JobCreate, JobClaim, JobEnd
  <2>2. ASSUME NEW i \in Ids PROVE rows'[i].revision = rows[i].revision
    <3>1. CASE UNCHANGED rows
      BY <3>1
    <3>2. CASE JobCreate(j)
      <4> DEFINE h == jobs[j].row
                 f == FileOf(h, j)
      <4>1. rows' = [rows EXCEPT ![h] = [rows[h] EXCEPT !.file = f]] \/ UNCHANGED rows
        BY <3>2 DEF JobCreate
      <4> HIDE DEF h, f
      <4> QED
        BY <1>t, <4>1 DEF TypeOK, RowRecord
    <3> QED
      BY <1>3, <3>1, <3>2 DEF JobStep, JobRead, JobClaim, JobEnd
  <2> QED
    BY <1>t, <2>1, <2>2, OperationQuiet
<1>4. CASE CleanLeases
  BY <1>t, <1>4, OperationQuiet DEF CleanLeases
<1>5. CASE Tick
  <2>1. \A k \in Keys : /\ ops'[k].state = ops[k].state
                        /\ ops'[k].attempt = ops[k].attempt
                        /\ ops'[k].body = ops[k].body
    BY <1>t, <1>5 DEF Tick, TypeOK, OperationRecord
  <2> QED
    BY <1>t, <1>5, <2>1, OperationQuiet DEF Tick
<1>6. CASE UNCHANGED vars
  BY <1>t, <1>6, OperationQuiet DEF vars
<1> QED
  BY <1>1, <1>2, <1>3, <1>4, <1>5, <1>6 DEF Next

LEMMA OperationCorrect == Spec => []OperationInv
BY OperationInit, OperationNext, PTL DEF Spec

\* A resent, taken-over or retried upload makes one row, and exactly when its
\* operation has succeeded.
THEOREM UploadPublishedOnce == Spec => []PublishedOnce
<1>1. OperationInv => PublishedOnce
  <2> SUFFICES ASSUME OperationInv, NEW k \in Keys, ops[k].body = UploadBody
               PROVE  {r \in Requests : reqs[r].key = k /\ rows[r].revision > 0}
                        = IF ops[k].state = "succeeded" THEN {ops[k].attempt} ELSE {}
    BY DEF PublishedOnce
  <2>1. \A r \in Requests : reqs[r].key = k /\ rows[r].revision > 0 =>
          ops[k].state = "succeeded" /\ ops[k].attempt = r
    BY DEF OperationInv, PublishedByOperation
  <2>2. ops[k].state = "succeeded" =>
          /\ ops[k].attempt \in Requests /\ reqs[ops[k].attempt].key = k
          /\ rows[ops[k].attempt].revision > 0
    BY DEF OperationInv, Claimed, SucceededPublished
  <2> QED
    BY <2>1, <2>2
<1> QED
  BY <1>1, OperationCorrect, PTL

\* What a client is told is the outcome its key durably has, and that of its very
\* change whenever reserve answered.
THEOREM RepliesTruthful == Spec => []ReplyTruthful
<1>1. OperationInv => ReplyTruthful
  BY DEF OperationInv
<1> QED
  BY <1>1, OperationCorrect, PTL

-----------------------------------------------------------------------------
(* NoOrphan and LeaseProtects.  Both rest on what the records of files mean:  *)
(* a file identity belongs to one row, the file of a listed row is active and *)
(* names the row's object, a file that is being deleted has had its time, and *)
(* what the cleanup emptied stays empty.                                      *)

\* A row's file identity, or the one ensure_file gives it when it is deleted.
OwnFile(i) == FileOf(i, i)

FileOfOneRow ==
    \A i \in Ids :
        /\ rows[i].file \in Ids => rows[i].file = i
        /\ rows[i].file \in Jobs => /\ jobs[rows[i].file].at \in {"building", "ended"}
                                    /\ jobs[rows[i].file].row = i
                                    /\ files[rows[i].file].state # "none"

ListedActive ==
    \A i \in Ids : rows[i].listed =>
        \/ files[OwnFile(i)].state = "none"
        \/ files[OwnFile(i)].state = "active" /\ files[OwnFile(i)].object = rows[i].object

\* A job has recorded no file before it took its lease ...
JobsWithout ==
    \A j \in Jobs :
        /\ jobs[j].at \in {"new", "creating"} =>
              /\ files[j].state = "none"
              /\ \A i \in Ids : rows[i].file # j
        /\ jobs[j].leased => jobs[j].at = "building" /\ files[jobs[j].file].state # "none"

\* ... and what it has read of its row stays true, although the row may have
\* been deleted since, or given a file by another job.
JobsRead ==
    \A j \in Jobs : jobs[j].at # "new" =>
        /\ jobs[j].row \in Ids /\ jobs[j].file \in FileIds
        /\ jobs[j].object = rows[jobs[j].row].object
        /\ OwnObject(jobs[j].row, jobs[j].object)
        /\ jobs[j].row \in Requests => jobs[j].file = jobs[j].row
        /\ jobs[j].file # j => rows[jobs[j].row].file = jobs[j].file
        /\ files[jobs[j].file].state # "none" => files[jobs[j].file].object = jobs[j].object

FilesInOrder ==
    /\ \A f \in FileIds :
         /\ files[f].state = "none" => files[f].object = None
         /\ files[f].state \in {"delete_pending", "deleted"} => files[f].grace = 0
    /\ \A r \in Requests : reqs[r].at = "upload" => files[r].state # "active"

\* What the cleanup has deleted does not come back.
Emptied ==
    \A c \in Cleaners : cleaners[c].at = "record" /\ ~ cleaners[c].failed =>
        /\ cleaners[c].file \in FileIds
        /\ files[cleaners[c].file].state \in {"delete_pending", "deleted"}
        /\ files[cleaners[c].file].object \notin objs

\* While a job makes its lease, and while the lease runs, its file is not
\* condemned: the row is in the list, the file has just been retired, or the
\* lease is there.
Alone(j) == \A f \in FileIds \ {jobs[j].file} : files[f].object # jobs[j].object
Running(j) == jobs[j].leased /\ ~ jobs[j].lapsed

Leased ==
    \A j \in Jobs :
        /\ Running(j) => jobs[j].left > 0
        /\ (jobs[j].at = "creating" \/ Running(j)) /\ Alone(j) =>
              /\ jobs[j].object \in objs
              /\ files[jobs[j].file].state \in {"none", "active", "retired"}
              /\ jobs[j].at = "creating" =>
                    \/ rows[jobs[j].row].listed
                    \/ files[jobs[j].file].state = "retired" /\ files[jobs[j].file].grace > 0

FileInv ==
    /\ StorageInv
    /\ FileOfOneRow
    /\ ListedActive
    /\ JobsWithout
    /\ JobsRead
    /\ FilesInOrder
    /\ Emptied
    /\ Leased
    /\ NoOrphan

\* A file identity belongs to one row.
LEMMA OneRow ==
    ASSUME TypeOK, FileOfOneRow, NEW i \in Ids, NEW h \in Ids, OwnFile(i) = OwnFile(h)
    PROVE  i = h
<1>1. /\ rows[i].file \in Ids \cup Jobs \cup {None}
      /\ rows[h].file \in Ids \cup Jobs \cup {None}
  BY DEF TypeOK, RowRecord, FileIds
<1>2. Ids \cap Jobs = {} /\ None \notin Ids \cup Jobs
  BY IdsAssumption DEF Ids
<1> QED
  BY <1>1, <1>2 DEF FileOfOneRow, OwnFile, FileOf

LEMMA FileInit == Init => FileInv
<1> SUFFICES ASSUME Init PROVE FileInv
  OBVIOUS
<1>1. StorageInv
  BY StorageInit
<1>2. PICK home \in [Legacy -> Shared], migrated \in SUBSET Legacy,
           recorded \in SUBSET Legacy :
        /\ recorded \subseteq migrated
        /\ objs = {home[i] : i \in Legacy}
        /\ rows = [i \in Ids |-> IF i \in Legacy
                      THEN [listed |-> TRUE, revision |-> 1, object |-> home[i],
                            file |-> IF i \in migrated THEN i ELSE None]
                      ELSE NoRow]
        /\ files = [f \in FileIds |-> IF f \in recorded THEN ActiveFile(home[f])
                                                       ELSE NoFile]
  BY DEF Init
<1>3. /\ \A i \in Ids : rows[i].file \in {i, None}
      /\ \A i \in Ids : rows[i].listed => i \in Legacy /\ rows[i].object = home[i]
      /\ \A i \in Legacy : i \in Ids /\ rows[i].listed /\ rows[i].object = home[i]
  BY <1>2 DEF NoRow, Ids
<1>4. /\ \A f \in FileIds : \/ files[f].state = "none" /\ files[f].object = None
                            \/ /\ files[f].state = "active" /\ files[f].grace = 0
                               /\ f \in Legacy /\ files[f].object = home[f]
  BY <1>2 DEF NoFile, ActiveFile
<1>5. Ids \cap Jobs = {} /\ Legacy \cap Jobs = {} /\ None \notin Ids \cup Jobs /\ Ids \subseteq FileIds
      /\ Jobs \subseteq FileIds /\ Legacy \subseteq Ids
  BY IdsAssumption DEF Ids, FileIds
<1>6. FileOfOneRow
  BY <1>3, <1>5 DEF FileOfOneRow
<1>7. ListedActive
  BY <1>3, <1>4, <1>5 DEF ListedActive, OwnFile, FileOf
<1>8. \A j \in Jobs : jobs[j].at = "new" /\ jobs[j].leased = FALSE
  BY DEF Init, NoJob
<1>9. JobsWithout /\ JobsRead
  BY <1>3, <1>4, <1>5, <1>8 DEF JobsWithout, JobsRead
<1>10. FilesInOrder
  BY <1>4 DEF FilesInOrder, Init
<1>11. Emptied /\ Leased
  BY <1>8 DEF Emptied, Leased, Running, Init
<1>12. NoOrphan
  BY <1>2, <1>3, <1>5 DEF NoOrphan, Referenced
<1> QED
  BY <1>1, <1>6, <1>7, <1>9, <1>10, <1>11, <1>12 DEF FileInv

\* Nothing changes of the rows apart from their revisions, nor of files, objects,
\* jobs and cleaners.
LEMMA FileQuiet ==
    ASSUME FileInv, StorageInv', UNCHANGED <<files, objs, jobs, cleaners>>,
           \A i \in Ids : /\ rows'[i].listed = rows[i].listed /\ rows'[i].file = rows[i].file
                          /\ rows'[i].object = rows[i].object,
           \A r \in Requests : reqs'[r].at = "upload" => reqs[r].at = "upload"
    PROVE  FileInv'
<1>1. FileOfOneRow' /\ ListedActive'
  BY DEF FileInv, FileOfOneRow, ListedActive, OwnFile, FileOf
<1>2. JobsWithout' /\ JobsRead'
  BY DEF FileInv, JobsWithout, JobsRead
<1>3. FilesInOrder' /\ Emptied'
  BY DEF FileInv, FilesInOrder, Emptied
<1>4. Leased'
  <2>1. \A j \in Jobs : jobs[j].at = "creating" => jobs[j].row \in Ids
    BY DEF FileInv, JobsRead
  <2> QED
    BY <2>1 DEF FileInv, Leased, Alone, Running
<1>5. NoOrphan'
  BY DEF FileInv, NoOrphan, Referenced
<1> QED
  BY <1>1, <1>2, <1>3, <1>4, <1>5 DEF FileInv

\* A file record that is written names no object before: who was alone stays so.
LEMMA AloneBefore ==
    ASSUME FilesInOrder, JobsRead, NEW j \in Jobs, jobs[j].at # "new",
           \A f \in FileIds : files'[f].object = files[f].object \/ files[f].state = "none",
           jobs'[j].file = jobs[j].file, jobs'[j].object = jobs[j].object, Alone(j)'
    PROVE  Alone(j)
<1>1. jobs[j].object # None
  BY IdsAssumption DEF JobsRead, OwnObject, Ids
<1>2. \A f \in FileIds \ {jobs[j].file} : files'[f].object # jobs[j].object
  BY DEF Alone
<1>3. \A f \in FileIds : files[f].state = "none" => files[f].object = None
  BY DEF FilesInOrder
<1> QED
  BY <1>1, <1>2, <1>3 DEF Alone

LEMMA FileStage ==
    ASSUME FileInv, StorageInv', NEW r \in Requests, Stage(r)
    PROVE  FileInv'
<1> USE DEF FileInv
<1>1. TypeOK /\ r \in Ids /\ r \in FileIds /\ r \notin Jobs /\ Ids \subseteq FileIds
      /\ Jobs \subseteq FileIds /\ Ids \cap Jobs = {}
  BY IdsAssumption DEF StorageInv, Ids, FileIds
<1>2. /\ files[r].state = "none" /\ ~ rows[r].listed /\ \A j \in Jobs : jobs[j].file # r
      /\ UNCHANGED <<rows, objs, jobs, cleaners>>
  BY DEF Stage, StorageInv, Unused
<1>3. /\ files'[r].state = "staged" /\ files'[r].object = r
      /\ \A f \in FileIds \ {r} : files'[f] = files[f]
  BY <1>1 DEF Stage, TypeOK
<1>4. \A q \in Requests : reqs'[q].at = "upload" => q = r \/ reqs[q].at = "upload"
  BY <1>1 DEF Stage, MoveTo, TypeOK, RequestRecord
<1>5. FileOfOneRow'
  BY <1>1, <1>2, <1>3 DEF FileOfOneRow
<1>6. ListedActive'
  <2>1. ASSUME NEW i \in Ids, rows[i].listed PROVE OwnFile(i) \in FileIds \ {r}
    <3>1. OwnFile(i) \in FileIds
      BY <1>1, FileOfType DEF OwnFile
    <3>2. i # r
      BY <1>2, <2>1
    <3>3. rows[i].file # r
      BY <1>1, <3>2 DEF FileOfOneRow
    <3> QED
      BY <3>1, <3>2, <3>3 DEF OwnFile, FileOf
  <2>2. \A i \in Ids : OwnFile(i)' = OwnFile(i)
    BY <1>2 DEF OwnFile, FileOf
  <2>3. ASSUME NEW i \in Ids, rows[i].listed
        PROVE  \/ files'[OwnFile(i)].state = "none"
               \/ files'[OwnFile(i)].state = "active" /\ files'[OwnFile(i)].object = rows[i].object
    BY <1>3, <2>1, <2>3 DEF ListedActive
  <2> QED
    BY <1>2, <2>2, <2>3 DEF ListedActive
<1>7. JobsWithout' /\ JobsRead'
  BY <1>1, <1>2, <1>3 DEF JobsWithout, JobsRead
<1>8. FilesInOrder'
  <2>1. \A f \in FileIds : /\ files'[f].state = "none" => files'[f].object = None
                           /\ files'[f].state \in {"delete_pending", "deleted"} => files'[f].grace = 0
    BY <1>3 DEF FilesInOrder
  <2>2. \A q \in Requests : reqs'[q].at = "upload" => files'[q].state # "active"
    BY <1>3, <1>4 DEF FilesInOrder, FileIds, Ids
  <2> QED
    BY <2>1, <2>2 DEF FilesInOrder
<1>9. Emptied'
  BY <1>2, <1>3 DEF Emptied
<1>10. Leased'
  <2> SUFFICES ASSUME NEW j \in Jobs, jobs[j].at = "creating" \/ Running(j), Alone(j)'
               PROVE  /\ jobs[j].object \in objs
                      /\ files'[jobs[j].file].state \in {"none", "active", "retired"}
                      /\ jobs[j].at = "creating" =>
                            \/ rows[jobs[j].row].listed
                            \/ files'[jobs[j].file].state = "retired" /\ files'[jobs[j].file].grace > 0
    BY <1>2 DEF Leased, Running
  <2>1. jobs[j].at # "new" /\ jobs[j].file \in FileIds \ {r}
    BY <1>2 DEF JobsWithout, JobsRead, Running
  <2>2. Alone(j)
    BY <1>2, <1>3, <2>1, AloneBefore
  <2> QED
    BY <1>3, <2>1, <2>2 DEF Leased
<1>11. NoOrphan'
  BY <1>2, <1>3 DEF NoOrphan, Referenced
<1> QED
  BY <1>5, <1>6, <1>7, <1>8, <1>9, <1>10, <1>11

LEMMA FileUpload ==
    ASSUME FileInv, StorageInv', NEW r \in Requests, Upload(r)
    PROVE  FileInv'
<1> USE DEF FileInv
<1>1. TypeOK /\ r \in FileIds
  BY DEF StorageInv, Ids, FileIds
<1>2. /\ objs' = objs \cup {r} /\ files[r].grace > 0 /\ reqs[r].at = "upload"
      /\ UNCHANGED <<rows, files, jobs, cleaners>>
      /\ \A q \in Requests : reqs'[q].at = "upload" => reqs[q].at = "upload"
  BY <1>1 DEF Upload, MoveTo, TypeOK, RequestRecord
<1>3. /\ files[r].state \in {"staged", "retired"} /\ files[r].object = r
  <2>1. files[r].state \in FileStates /\ files[r].state # "none" /\ files[r].state # "active"
    BY <1>1, <1>2 DEF StorageInv, StagedStored, FilesInOrder, TypeOK, FileRecord
  <2>2. files[r].state \notin {"delete_pending", "deleted"}
    BY <1>1, <1>2 DEF FilesInOrder
  <2> QED
    BY <1>1, <2>1, <2>2 DEF StorageInv, ObjectsOfFiles, OwnObject, FileStates
<1>4. FileOfOneRow' /\ ListedActive'
  BY <1>2 DEF FileOfOneRow, ListedActive, OwnFile, FileOf
<1>5. JobsWithout' /\ JobsRead' /\ FilesInOrder'
  BY <1>2 DEF JobsWithout, JobsRead, FilesInOrder
<1>6. Emptied'
  <2>1. ASSUME NEW f \in FileIds, files[f].state \in {"delete_pending", "deleted"}
        PROVE  files[f].object # r
    BY <1>3, <2>1, IdsAssumption DEF StorageInv, ObjectsOfFiles, OwnObject
  <2> QED
    BY <1>2, <2>1 DEF Emptied
<1>7. Leased'
  BY <1>2 DEF Leased, Alone, Running
<1>8. NoOrphan'
  BY <1>1, <1>2, <1>3 DEF NoOrphan, Referenced
<1> QED
  BY <1>4, <1>5, <1>6, <1>7, <1>8

LEMMA FilePublish ==
    ASSUME FileInv, StorageInv', NEW r \in Requests, Publish(r)
    PROVE  FileInv'
<1> USE DEF FileInv
<1>1. TypeOK /\ r \in Ids /\ r \in FileIds /\ r \notin Jobs /\ Ids \subseteq FileIds
      /\ Jobs \subseteq FileIds /\ Ids \cap Jobs = {}
  BY IdsAssumption DEF StorageInv, Ids, FileIds
<1>2. /\ files[r].state = "staged" /\ reqs[r].at = "publish" /\ UNCHANGED <<objs, jobs, cleaners>>
      /\ rows' = [rows EXCEPT ![r] = [listed |-> TRUE, revision |-> 1, file |-> r, object |-> r]]
      /\ files' = [files EXCEPT ![r].state = "active"]
  BY DEF Publish
<1>3. /\ files'[r].state = "active" /\ files'[r].object = files[r].object
      /\ files[r].object = r
      /\ \A f \in FileIds \ {r} : files'[f] = files[f]
  BY <1>1, <1>2 DEF TypeOK, FileRecord, StorageInv, ObjectsOfFiles, OwnObject
<1>4. /\ rows'[r].listed /\ rows'[r].file = r /\ rows'[r].object = r
      /\ \A i \in Ids \ {r} : rows'[i] = rows[i]
  BY <1>1, <1>2 DEF TypeOK
<1>5. \A q \in Requests : reqs'[q].at = "upload" => reqs[q].at = "upload" /\ q # r
  BY <1>1, <1>2 DEF Publish, Finish, ReplyWith, MoveTo, TypeOK, RequestRecord
<1>6. FileOfOneRow'
  BY <1>1, <1>2, <1>3, <1>4 DEF FileOfOneRow
<1>7. ListedActive'
  <2>1. ASSUME NEW i \in Ids \ {r} PROVE OwnFile(i) \in FileIds \ {r} /\ OwnFile(i)' = OwnFile(i)
    <3>1. OwnFile(i) \in FileIds
      BY <1>1, FileOfType DEF OwnFile
    <3>2. rows[i].file # r
      BY <1>1, <2>1 DEF FileOfOneRow
    <3> QED
      BY <1>4, <2>1, <3>1, <3>2 DEF OwnFile, FileOf
  <2>2. OwnFile(r)' = r
    BY <1>1, <1>4 DEF OwnFile, FileOf
  <2> HIDE DEF OwnFile
  <2>3. ASSUME NEW i \in Ids \ {r}, rows[i].listed
        PROVE  \/ files'[OwnFile(i)].state = "none"
               \/ files'[OwnFile(i)].state = "active" /\ files'[OwnFile(i)].object = rows[i].object
    BY <1>3, <2>1, <2>3 DEF ListedActive
  <2> QED
    BY <1>3, <1>4, <2>1, <2>2, <2>3 DEF ListedActive
<1>8. JobsWithout'
  BY <1>1, <1>2, <1>3, <1>4 DEF JobsWithout
<1>9. JobsRead'
  <2>1. ASSUME NEW j \in Jobs, jobs[j].at # "new", jobs[j].row = r
        PROVE  jobs[j].object = r /\ jobs[j].file = r
    BY <2>1 DEF JobsRead, OwnObject
  <2>2. \A f \in FileIds : files'[f].object = files[f].object
    BY <1>3
  <2>3. \A f \in FileIds : files'[f].state # "none" => files[f].state # "none"
    BY <1>2, <1>3
  <2> QED
    BY <1>1, <1>2, <1>4, <2>1, <2>2, <2>3 DEF JobsRead
<1>10. FilesInOrder'
  <2>1. \A f \in FileIds : /\ files'[f].state = "none" => files'[f].object = None
                           /\ files'[f].state \in {"delete_pending", "deleted"} => files'[f].grace = 0
    BY <1>3 DEF FilesInOrder
  <2>2. \A q \in Requests : reqs'[q].at = "upload" => files'[q].state # "active"
    BY <1>3, <1>5 DEF FilesInOrder, FileIds, Ids
  <2> QED
    BY <2>1, <2>2 DEF FilesInOrder
<1>11. Emptied'
  BY <1>2, <1>3 DEF Emptied
<1>12. Leased'
  <2> SUFFICES ASSUME NEW j \in Jobs, jobs[j].at = "creating" \/ Running(j), Alone(j)'
               PROVE  /\ jobs[j].object \in objs
                      /\ files'[jobs[j].file].state \in {"none", "active", "retired"}
                      /\ jobs[j].at = "creating" =>
                            \/ rows'[jobs[j].row].listed
                            \/ files'[jobs[j].file].state = "retired" /\ files'[jobs[j].file].grace > 0
    BY <1>2 DEF Leased, Running
  <2>1. jobs[j].at # "new" /\ jobs[j].file \in FileIds /\ jobs[j].row \in Ids
    BY DEF JobsWithout, JobsRead, Running
  <2>2. Alone(j)
    BY <1>2, <1>3, <2>1, AloneBefore
  <2>3. /\ jobs[j].object \in objs
        /\ files[jobs[j].file].state \in {"none", "active", "retired"}
        /\ jobs[j].at = "creating" =>
              \/ rows[jobs[j].row].listed
              \/ files[jobs[j].file].state = "retired" /\ files[jobs[j].file].grace > 0
    BY <2>2 DEF Leased
  <2>4. jobs[j].file # r
    BY <1>2, <2>3
  <2> QED
    BY <1>3, <1>4, <2>1, <2>3, <2>4
<1>13. NoOrphan'
  <2>1. ASSUME NEW o, Referenced(o) PROVE Referenced(o)'
    <3>1. PICK i \in Ids : rows[i].listed /\ rows[i].object = o
      BY <2>1 DEF Referenced
    <3>2. i = r => o = r
      BY <3>1 DEF StorageInv, ObjectsOfRows, OwnObject
    <3> QED
      BY <1>4, <3>1, <3>2 DEF Referenced
  <2>2. Referenced(r)'
    BY <1>1, <1>4 DEF Referenced
  <2> QED
    BY <1>2, <1>3, <2>1, <2>2 DEF NoOrphan
<1> QED
  BY <1>6, <1>7, <1>8, <1>9, <1>10, <1>11, <1>12, <1>13

\* What a deletion does to the files: those of the rows that go are retired.
LEMMA DeleteFiles ==
    ASSUME FileInv, NEW r \in Requests, Delete(r)
    PROVE  \E gone \in SUBSET Ids :
             /\ \A i \in gone : rows[i].listed
             /\ \A i \in Ids : /\ rows'[i].object = rows[i].object
                               /\ rows'[i].listed = (rows[i].listed /\ i \notin gone)
                               /\ rows'[i].file = IF i \in gone THEN OwnFile(i) ELSE rows[i].file
             /\ \A i \in gone : /\ files'[OwnFile(i)].state = "retired"
                                /\ files'[OwnFile(i)].object = rows[i].object
                                /\ files'[OwnFile(i)].grace = RetiredGrace
             /\ \A g \in FileIds : (\A i \in gone : g # OwnFile(i)) => files'[g] = files[g]
<1> DEFINE gone == Named(reqs[r].body)
<1>1. /\ TypeOK /\ FileOfOneRow /\ ListedActive /\ FilesInOrder
      /\ gone \subseteq Ids /\ \A i \in gone : rows[i].listed
  BY DEF FileInv, StorageInv, Delete, Fresh, Named
<1>2. /\ rows' = [i \in Ids |-> IF i \in gone
                                THEN [rows[i] EXCEPT !.listed = FALSE, !.file = FileOf(i, i)]
                                ELSE rows[i]]
      /\ files' = [g \in FileIds |->
                     IF \E i \in gone : g = FileOf(i, i)
                     THEN LET i == CHOOSE i \in gone : g = FileOf(i, i)
                          IN  RetiredFile(Ensured(g, rows[i].object))
                     ELSE files[g]]
  BY Zenon DEF Delete
<1> HIDE DEF gone
<1>3. ASSUME NEW i \in Ids
      PROVE  /\ rows'[i].object = rows[i].object
             /\ rows'[i].listed = (rows[i].listed /\ i \notin gone)
             /\ rows'[i].file = IF i \in gone THEN OwnFile(i) ELSE rows[i].file
  <2>1. rows[i] \in RowRecord /\ rows[i].listed \in BOOLEAN
    BY <1>1 DEF TypeOK, RowRecord
  <2>2. CASE i \in gone
    <3> DEFINE f == FileOf(i, i)
    <3>1. rows'[i] = [rows[i] EXCEPT !.listed = FALSE, !.file = f]
      BY <1>2, <2>2
    <3> HIDE DEF f
    <3>2. rows'[i].object = rows[i].object /\ rows'[i].listed = FALSE /\ rows'[i].file = f
      BY <2>1, <3>1 DEF RowRecord
    <3> QED
      BY <2>2, <3>2 DEF f, OwnFile
  <2>3. CASE i \notin gone
    <3>1. rows'[i] = rows[i]
      BY <1>2, <2>3
    <3> QED
      BY <2>1, <2>3, <3>1
  <2> QED
    BY <2>2, <2>3
<1>4. ASSUME NEW i \in gone
      PROVE  /\ files'[OwnFile(i)].state = "retired"
             /\ files'[OwnFile(i)].object = rows[i].object
             /\ files'[OwnFile(i)].grace = RetiredGrace
  <2> DEFINE g == OwnFile(i)
             h == CHOOSE h \in gone : g = FileOf(h, h)
             e == Ensured(g, rows[h].object)
  <2>1. i \in Ids /\ i \in FileIds /\ g \in FileIds /\ g = FileOf(i, i)
    BY <1>1, FileOfType DEF OwnFile, FileIds
  <2>2. h \in gone /\ g = FileOf(h, h)
    BY <2>1
  <2>3. h = i
    BY <1>1, <2>1, <2>2, OneRow DEF OwnFile
  <2>4. files'[g] = RetiredFile(e)
    BY <1>2, <2>1
  <2>5. /\ e.state = "active" /\ e.object = rows[i].object /\ e \in FileRecord
    <3>1. files[g].state = "none" \/ (files[g].state = "active" /\ files[g].object = rows[i].object)
      BY <1>1, <2>1 DEF ListedActive
    <3>2. rows[i].object \in Objects \cup {None}
      BY <1>1, <2>1 DEF TypeOK, RowRecord
    <3>3. e \in FileRecord
      BY <1>1, <2>1, <2>3, <3>2, RetiredType
    <3> QED
      BY <2>3, <3>1, <3>3 DEF Ensured, ActiveFile
  <2> HIDE DEF e
  <2> HIDE DEF h
  <2>6. RetiredFile(e).state = "retired" /\ RetiredFile(e).object = e.object
        /\ RetiredFile(e).grace = RetiredGrace
    BY <2>5 DEF RetiredFile, FileRecord
  <2> QED
    BY <2>4, <2>5, <2>6
<1>5. ASSUME NEW g \in FileIds, \A i \in gone : g # OwnFile(i) PROVE files'[g] = files[g]
  <2>1. ~ \E i \in gone : g = FileOf(i, i)
    BY <1>5 DEF OwnFile
  <2> QED
    BY <1>2, <2>1
<1> QED
  BY <1>1, <1>3, <1>4, <1>5

LEMMA FileDelete ==
    ASSUME FileInv, StorageInv', NEW r \in Requests, Delete(r)
    PROVE  FileInv'
<1>1. /\ TypeOK /\ StorageInv /\ FileOfOneRow /\ ListedActive /\ JobsWithout /\ JobsRead
      /\ FilesInOrder /\ Emptied /\ Leased /\ NoOrphan
  BY DEF FileInv, StorageInv
<1>2. PICK gone \in SUBSET Ids :
         /\ \A i \in gone : rows[i].listed
         /\ \A i \in Ids : /\ rows'[i].object = rows[i].object
                           /\ rows'[i].listed = (rows[i].listed /\ i \notin gone)
                           /\ rows'[i].file = IF i \in gone THEN OwnFile(i) ELSE rows[i].file
         /\ \A i \in gone : /\ files'[OwnFile(i)].state = "retired"
                            /\ files'[OwnFile(i)].object = rows[i].object
                            /\ files'[OwnFile(i)].grace = RetiredGrace
         /\ \A g \in FileIds : (\A i \in gone : g # OwnFile(i)) => files'[g] = files[g]
  BY DeleteFiles
<1>3. UNCHANGED <<objs, jobs, cleaners>> /\ Settles /\ None \notin FileIds
      /\ Jobs \subseteq FileIds /\ Ids \subseteq FileIds /\ Ids \cap Jobs = {} /\ Requests \subseteq FileIds
  BY <1>1, FinishSettles, IdsAssumption DEF Delete, Ids, FileIds
<1>4. \A i \in Ids : /\ OwnFile(i) \in FileIds
                     /\ OwnFile(i) \in Ids => OwnFile(i) = i
                     /\ OwnFile(i) \in Jobs => rows[i].file = OwnFile(i)
                     /\ rows[i].file # None => OwnFile(i) = rows[i].file
  BY <1>1, <1>3, FileOfType DEF OwnFile, FileOf, FileOfOneRow
<1>5. \A i, h \in Ids : OwnFile(i) = OwnFile(h) => i = h
  BY <1>1, OneRow
<1>6. \A i \in gone : /\ files[OwnFile(i)].state \in {"none", "active"}
                      /\ files[OwnFile(i)].state = "active" => files[OwnFile(i)].object = rows[i].object
  BY <1>1, <1>2 DEF ListedActive
<1>7. \A i \in Ids : OwnFile(i)' = OwnFile(i)
  BY <1>2, <1>4, <1>3 DEF OwnFile, FileOf
<1> HIDE DEF OwnFile
<1>8. FileOfOneRow'
  <2>1. \A g \in FileIds : files[g].state # "none" => files'[g].state # "none"
    BY <1>2
  <2> QED
    BY <1>1, <1>2, <1>3, <1>4, <2>1 DEF FileOfOneRow
<1>9. ListedActive'
  <2>1. ASSUME NEW i \in Ids, rows[i].listed, i \notin gone
        PROVE  \/ files'[OwnFile(i)].state = "none"
               \/ files'[OwnFile(i)].state = "active" /\ files'[OwnFile(i)].object = rows[i].object
    <3>1. files'[OwnFile(i)] = files[OwnFile(i)]
      BY <1>2, <1>4, <1>5, <2>1
    <3> QED
      BY <1>1, <2>1, <3>1 DEF ListedActive
  <2> QED
    BY ZenonT(60), <1>2, <1>7, <2>1 DEF ListedActive
<1>10. JobsWithout'
  <2>1. ASSUME NEW j \in Jobs, jobs[j].at \in {"new", "creating"}
        PROVE  files'[j].state = "none" /\ \A i \in Ids : rows'[i].file # j
    <3>1. \A i \in Ids : OwnFile(i) # j
      BY <1>1, <1>4, <2>1 DEF JobsWithout
    <3> QED
      BY <1>1, <1>2, <1>3, <2>1, <3>1 DEF JobsWithout
  <2>2. ASSUME NEW j \in Jobs, jobs[j].leased
        PROVE  jobs[j].at = "building" /\ files'[jobs[j].file].state # "none"
    <3>1. jobs[j].at = "building" /\ files[jobs[j].file].state # "none" /\ jobs[j].file \in FileIds
      BY <1>1, <2>2 DEF JobsWithout, JobsRead
    <3> QED
      BY <1>2, <3>1
  <2> QED
    BY <1>3, <2>1, <2>2 DEF JobsWithout
<1>11. JobsRead'
  <2> SUFFICES ASSUME NEW j \in Jobs, jobs[j].at # "new"
               PROVE  /\ jobs[j].object = rows'[jobs[j].row].object
                      /\ jobs[j].file # j => rows'[jobs[j].row].file = jobs[j].file
                      /\ files'[jobs[j].file].state # "none" => files'[jobs[j].file].object = jobs[j].object
    BY <1>1, <1>3 DEF JobsRead
  <2>1. /\ jobs[j].row \in Ids /\ jobs[j].file \in FileIds
        /\ jobs[j].object = rows[jobs[j].row].object
        /\ jobs[j].file # j => rows[jobs[j].row].file = jobs[j].file
        /\ files[jobs[j].file].state # "none" => files[jobs[j].file].object = jobs[j].object
    BY <1>1 DEF JobsRead
  <2>2. jobs[j].file # j => rows'[jobs[j].row].file = jobs[j].file
    BY <1>2, <1>3, <1>4, <2>1
  <2>3. ASSUME NEW i \in gone, jobs[j].file = OwnFile(i)
        PROVE  i = jobs[j].row
    <3>1. CASE jobs[j].file = j
      <4>1. i \in Ids /\ rows[i].file = j
        BY <1>4, <2>3, <3>1
      <4> QED
        BY <1>1, <4>1 DEF FileOfOneRow
    <3>2. CASE jobs[j].file # j
      BY <1>3, <1>4, <1>5, <2>1, <2>3, <3>2
    <3> QED
      BY <3>1, <3>2
  <2>4. files'[jobs[j].file].state # "none" => files'[jobs[j].file].object = jobs[j].object
    BY <1>2, <2>1, <2>3
  <2> QED
    BY <1>2, <2>1, <2>2, <2>4
<1>12. FilesInOrder'
  <2>1. \A i \in gone : rows[i].object # None
    BY <1>1, <1>2, IdsAssumption DEF StorageInv, ObjectsOfRows, OwnObject, Ids
  <2>2. \A f \in FileIds : /\ files'[f].state = "none" => files'[f].object = None
                           /\ files'[f].state \in {"delete_pending", "deleted"} => files'[f].grace = 0
    BY <1>1, <1>2 DEF FilesInOrder
  <2>3. \A q \in Requests : reqs'[q].at = "upload" => files'[q].state # "active"
    BY <1>1, <1>2, <1>3 DEF FilesInOrder, Settles
  <2> QED
    BY <2>2, <2>3 DEF FilesInOrder
<1>13. Emptied'
  BY <1>1, <1>2, <1>3, <1>6 DEF Emptied
<1>14. Leased'
  <2> SUFFICES ASSUME NEW j \in Jobs, jobs[j].at = "creating" \/ Running(j), Alone(j)'
               PROVE  /\ jobs[j].object \in objs
                      /\ files'[jobs[j].file].state \in {"none", "active", "retired"}
                      /\ jobs[j].at = "creating" =>
                            \/ rows'[jobs[j].row].listed
                            \/ files'[jobs[j].file].state = "retired" /\ files'[jobs[j].file].grace > 0
    BY <1>1, <1>3 DEF Leased, Running
  <2>1. /\ jobs[j].at # "new" /\ jobs[j].file \in FileIds /\ jobs[j].row \in Ids
        /\ jobs[j].object = rows[jobs[j].row].object
    BY <1>1 DEF JobsWithout, JobsRead, Running
  <2>2. \A f \in FileIds : files'[f].object = files[f].object \/ files[f].state = "none"
    BY <1>2, <1>6
  <2>3. Alone(j)
    BY <1>1, <1>3, <2>1, <2>2, AloneBefore
  <2>4. /\ jobs[j].object \in objs
        /\ files[jobs[j].file].state \in {"none", "active", "retired"}
        /\ jobs[j].at = "creating" =>
              \/ rows[jobs[j].row].listed
              \/ files[jobs[j].file].state = "retired" /\ files[jobs[j].file].grace > 0
    BY <1>1, <2>3 DEF Leased
  <2>5. files'[jobs[j].file].state \in {"none", "active", "retired"}
    BY <1>2, <2>1, <2>4
  <2>6. ASSUME jobs[j].at = "creating", ~ rows'[jobs[j].row].listed
        PROVE  files'[jobs[j].file].state = "retired" /\ files'[jobs[j].file].grace > 0
    <3>1. CASE jobs[j].row \in gone
      <4>1. files'[OwnFile(jobs[j].row)].object = jobs[j].object /\ OwnFile(jobs[j].row) \in FileIds
        BY <1>2, <1>4, <2>1, <3>1
      <4>2. OwnFile(jobs[j].row) = jobs[j].file
        BY <1>3, <4>1 DEF Alone
      <4> QED
        BY <1>2, <3>1, <4>2, TimesAssumption
    <3>2. CASE jobs[j].row \notin gone
      <4>1. files[jobs[j].file].state = "retired" /\ files[jobs[j].file].grace > 0
        BY <1>2, <2>1, <2>4, <2>6, <3>2
      <4>2. files'[jobs[j].file] = files[jobs[j].file]
        BY <1>2, <1>6, <2>1, <4>1
      <4> QED
        BY <4>1, <4>2
    <3> QED
      BY <3>1, <3>2
  <2> QED
    BY <2>4, <2>5, <2>6
<1>15. NoOrphan'
  <2> SUFFICES ASSUME NEW o \in objs
               PROVE  \/ Referenced(o)'
                      \/ \E f \in FileIds : /\ files'[f].object = o
                                            /\ files'[f].state \in {"staged", "retired", "delete_pending"}
    BY <1>3 DEF NoOrphan
  <2>1. CASE Referenced(o)
    <3>1. PICK i \in Ids : rows[i].listed /\ rows[i].object = o
      BY <2>1 DEF Referenced
    <3>2. CASE i \in gone
      BY <1>2, <1>4, <3>1, <3>2
    <3>3. CASE i \notin gone
      BY <1>2, <3>1, <3>3 DEF Referenced
    <3> QED
      BY <3>2, <3>3
  <2>2. CASE ~ Referenced(o)
    <3>1. PICK f \in FileIds : /\ files[f].object = o
                               /\ files[f].state \in {"staged", "retired", "delete_pending"}
      BY <1>1, <2>2 DEF NoOrphan
    <3>2. files'[f] = files[f]
      BY <1>2, <1>6, <3>1
    <3> QED
      BY <3>1, <3>2
  <2> QED
    BY <2>1, <2>2
<1> QED
  BY <1>8, <1>9, <1>10, <1>11, <1>12, <1>13, <1>14, <1>15 DEF FileInv

LEMMA FileCleaner ==
    ASSUME FileInv, StorageInv', NEW c \in Cleaners, CleanerStep(c)
    PROVE  FileInv'
<1>i. /\ TypeOK /\ StorageInv /\ FileOfOneRow /\ ListedActive /\ JobsWithout /\ JobsRead
      /\ FilesInOrder /\ Emptied /\ Leased /\ NoOrphan
  BY DEF FileInv, StorageInv
<1>j. Jobs \subseteq FileIds /\ Requests \subseteq FileIds
  BY DEF Ids, FileIds
<1>1. ASSUME NEW f \in FileIds, CleanMark(c, f) PROVE FileInv'
  <2>1. /\ files'[f].state = "delete_pending" /\ files'[f].object = files[f].object
        /\ files'[f].grace = files[f].grace
        /\ \A g \in FileIds \ {f} : files'[g] = files[g]
        /\ files[f].state \in {"staged", "retired", "delete_pending"}
        /\ ~ Referenced(files[f].object) /\ Eligible(f)
        /\ UNCHANGED <<reqs, rows, objs, jobs>>
    BY <1>i, <1>1 DEF CleanMark, Eligible, TypeOK, FileRecord
  <2>2. /\ cleaners'[c].at = "delete"
        /\ \A d \in Cleaners \ {c} : cleaners'[d] = cleaners[d]
    BY <1>i, <1>1 DEF CleanMark, TypeOK
  <2>3. FileOfOneRow'
    BY <1>i, <1>j, <2>1 DEF FileOfOneRow
  <2>4. ListedActive'
    <3>1. \A i \in Ids : OwnFile(i)' = OwnFile(i) /\ OwnFile(i) \in FileIds
      BY <1>i, <2>1, FileOfType DEF OwnFile, FileOf, FileIds
    <3> HIDE DEF OwnFile
    <3>2. ASSUME NEW i \in Ids, rows[i].listed
          PROVE  \/ files'[OwnFile(i)].state = "none"
                 \/ files'[OwnFile(i)].state = "active" /\ files'[OwnFile(i)].object = rows[i].object
      BY <1>i, <2>1, <3>1, <3>2 DEF ListedActive
    <3> QED
      BY <2>1, <3>1, <3>2 DEF ListedActive
  <2>5. JobsWithout' /\ JobsRead'
    BY <1>i, <1>j, <2>1 DEF JobsWithout, JobsRead
  <2>6. FilesInOrder'
    <3>1. files[f].grace = 0
      BY <1>i, <2>1 DEF FilesInOrder, Eligible
    <3>2. \A g \in FileIds : /\ files'[g].state = "none" => files'[g].object = None
                             /\ files'[g].state \in {"delete_pending", "deleted"} => files'[g].grace = 0
      BY <1>i, <2>1, <3>1 DEF FilesInOrder
    <3>3. \A q \in Requests : reqs'[q].at = "upload" => files'[q].state # "active"
      BY <1>i, <1>j, <2>1 DEF FilesInOrder
    <3> QED
      BY <3>2, <3>3 DEF FilesInOrder
  <2>7. Emptied'
    BY <1>i, <2>1, <2>2 DEF Emptied
  <2>8. Leased'
    <3> SUFFICES ASSUME NEW j \in Jobs, jobs[j].at = "creating" \/ Running(j), Alone(j)'
                 PROVE  jobs[j].file # f
      <4>1. \A j \in Jobs : Alone(j)' => Alone(j)
        BY <2>1 DEF Alone
      <4>2. \A j \in Jobs : jobs[j].at = "creating" \/ Running(j) => jobs[j].file \in FileIds
        BY <1>i DEF JobsWithout, JobsRead, Running
      <4> QED
        BY <1>i, <2>1, <4>1, <4>2 DEF Leased, Running
    <3> SUFFICES ASSUME jobs[j].file = f PROVE FALSE
      OBVIOUS
    <3>1. Alone(j)
      BY <2>1 DEF Alone
    <3>2. CASE Running(j)
      BY <1>i, <2>1, <3>2 DEF Leased, Running, Eligible
    <3>3. CASE jobs[j].at = "creating"
      <4>1. /\ jobs[j].row \in Ids /\ files[f].object = rows[jobs[j].row].object
        BY <1>i, <2>1, <3>3 DEF JobsRead
      <4>2. rows[jobs[j].row].listed \/ (files[f].state = "retired" /\ files[f].grace > 0)
        BY <1>i, <3>1, <3>3 DEF Leased
      <4> QED
        BY <2>1, <4>1, <4>2 DEF Referenced, Eligible
    <3> QED
      BY <3>2, <3>3
  <2>9. NoOrphan'
    BY <1>i, <2>1 DEF NoOrphan, Referenced
  <2> QED
    BY <2>3, <2>4, <2>5, <2>6, <2>7, <2>8, <2>9 DEF FileInv
<1>2. CASE CleanDelete(c)
  <2> DEFINE g == cleaners[c].file
  <2>1. /\ objs' = objs \ {files[g].object}
        /\ UNCHANGED <<reqs, rows, files, jobs>>
        /\ g \in FileIds /\ files[g].state \in {"delete_pending", "deleted"}
    BY <1>i, <1>2 DEF CleanDelete, StorageInv, Condemned
  <2>2. /\ cleaners'[c].at = "record" /\ cleaners'[c].file = g
        /\ \A d \in Cleaners \ {c} : cleaners'[d] = cleaners[d]
    BY <1>i, <1>2 DEF CleanDelete, TypeOK, CleanerRecord
  <2> HIDE DEF g
  <2>3. FileOfOneRow' /\ ListedActive'
    BY <1>i, <2>1 DEF FileOfOneRow, ListedActive, OwnFile, FileOf
  <2>4. JobsWithout' /\ JobsRead' /\ FilesInOrder'
    BY <1>i, <2>1 DEF JobsWithout, JobsRead, FilesInOrder
  <2>5. Emptied'
    BY <1>i, <2>1, <2>2 DEF Emptied
  <2>6. Leased'
    <3>1. ASSUME NEW j \in Jobs, jobs[j].at = "creating" \/ Running(j), Alone(j)
          PROVE  jobs[j].object # files[g].object
      <4>1. files[jobs[j].file].state \in {"none", "active", "retired"}
        BY <1>i, <3>1 DEF Leased
      <4>2. g # jobs[j].file
        BY <2>1, <4>1
      <4> QED
        BY <2>1, <3>1, <4>2 DEF Alone
    <3>2. \A j \in Jobs : (Alone(j)' <=> Alone(j)) /\ (Running(j)' <=> Running(j))
      BY <2>1 DEF Alone, Running
    <3> QED
      BY <1>i, <2>1, <3>1, <3>2 DEF Leased
  <2>7. NoOrphan'
    BY <1>i, <2>1 DEF NoOrphan, Referenced
  <2> QED
    BY <2>3, <2>4, <2>5, <2>6, <2>7 DEF FileInv
<1>3. CASE CleanDeleteFails(c) \/ CleanCrash(c)
  <2>1. /\ UNCHANGED <<reqs, rows, files, objs, jobs>>
        /\ \A d \in Cleaners : cleaners'[d].at = "record" /\ ~ cleaners'[d].failed
              => cleaners'[d] = cleaners[d]
    BY <1>i, <1>3 DEF CleanDeleteFails, CleanCrash, TypeOK, CleanerRecord
  <2>2. FileOfOneRow' /\ ListedActive'
    BY <1>i, <2>1 DEF FileOfOneRow, ListedActive, OwnFile, FileOf
  <2>3. JobsWithout' /\ JobsRead' /\ FilesInOrder' /\ Emptied'
    BY <1>i, <2>1 DEF JobsWithout, JobsRead, FilesInOrder, Emptied
  <2>4. Leased' /\ NoOrphan'
    BY <1>i, <2>1 DEF Leased, Alone, Running, NoOrphan, Referenced
  <2> QED
    BY <2>2, <2>3, <2>4 DEF FileInv
<1>4. CASE CleanRecord(c)
  <2> DEFINE g == cleaners[c].file
  <2>1. /\ UNCHANGED <<reqs, rows, objs, jobs>>
        /\ \A d \in Cleaners : cleaners'[d].at = "record" => cleaners'[d] = cleaners[d]
    BY <1>i, <1>4 DEF CleanRecord, TypeOK, CleanerRecord
  <2>2. \A f \in FileIds :
          \/ files'[f] = files[f]
          \/ /\ files[f].state = "delete_pending" /\ files'[f].state = "deleted"
             /\ files'[f].object = files[f].object /\ files'[f].grace = files[f].grace
             /\ files[f].object \notin objs
    <3>1. CASE files[g].state = "delete_pending" /\ ~ cleaners[c].failed
      <4>1. g \in FileIds /\ files[g].object \notin objs
        BY <1>i, <1>4, <3>1 DEF CleanRecord, Emptied
      <4>2. files' = [files EXCEPT ![g].state = "deleted"]
        BY <1>4, <3>1 DEF CleanRecord
      <4> QED
        BY <1>i, <3>1, <4>1, <4>2 DEF TypeOK, FileRecord
    <3>2. CASE ~ (files[g].state = "delete_pending" /\ ~ cleaners[c].failed)
      BY <1>4, <3>2 DEF CleanRecord
    <3> QED
      BY <3>1, <3>2
  <2>3. FileOfOneRow'
    BY <1>i, <1>j, <2>1, <2>2 DEF FileOfOneRow
  <2>4. ListedActive'
    <3>1. \A i \in Ids : OwnFile(i)' = OwnFile(i) /\ OwnFile(i) \in FileIds
      BY <1>i, <2>1, FileOfType DEF OwnFile, FileOf, FileIds
    <3> HIDE DEF OwnFile
    <3>2. ASSUME NEW i \in Ids, rows[i].listed
          PROVE  \/ files'[OwnFile(i)].state = "none"
                 \/ files'[OwnFile(i)].state = "active" /\ files'[OwnFile(i)].object = rows[i].object
      BY <1>i, <2>2, <3>1, <3>2 DEF ListedActive
    <3> QED
      BY <2>1, <3>1, <3>2 DEF ListedActive
  <2>5. JobsWithout' /\ JobsRead'
    BY <1>i, <1>j, <2>1, <2>2 DEF JobsWithout, JobsRead
  <2>6. FilesInOrder'
    <3>1. \A f \in FileIds : /\ files'[f].state = "none" => files'[f].object = None
                             /\ files'[f].state \in {"delete_pending", "deleted"} => files'[f].grace = 0
      BY <1>i, <2>2 DEF FilesInOrder
    <3>2. \A q \in Requests : reqs'[q].at = "upload" => files'[q].state # "active"
      BY <1>i, <1>j, <2>1, <2>2 DEF FilesInOrder
    <3> QED
      BY <3>1, <3>2 DEF FilesInOrder
  <2>7. Emptied'
    BY <1>i, <2>1, <2>2 DEF Emptied
  <2>8. Leased'
    <3>1. \A j \in Jobs : (Alone(j)' => Alone(j)) /\ (Running(j)' <=> Running(j))
      BY <2>1, <2>2 DEF Alone, Running
    <3>2. \A j \in Jobs : jobs[j].at = "creating" \/ Running(j) => jobs[j].file \in FileIds
      BY <1>i DEF JobsWithout, JobsRead, Running
    <3>3. ASSUME NEW j \in Jobs, jobs[j].at = "creating" \/ Running(j), Alone(j)
          PROVE  files'[jobs[j].file] = files[jobs[j].file]
      BY <1>i, <2>2, <3>2, <3>3 DEF Leased
    <3> QED
      BY <1>i, <2>1, <3>1, <3>3 DEF Leased
  <2>9. NoOrphan'
    BY <1>i, <2>1, <2>2 DEF NoOrphan, Referenced
  <2> QED
    BY <2>3, <2>4, <2>5, <2>6, <2>7, <2>8, <2>9 DEF FileInv
<1> QED
  BY <1>1, <1>2, <1>3, <1>4 DEF CleanerStep

\* Jobs and leases go on: no job changes what it has read.
LEMMA FileJobsQuiet ==
    ASSUME FileInv, StorageInv', UNCHANGED <<reqs, rows, files, objs, cleaners>>,
           \A j \in Jobs :
              /\ jobs'[j].row = jobs[j].row /\ jobs'[j].file = jobs[j].file
              /\ jobs'[j].object = jobs[j].object
              /\ \/ jobs'[j].at = jobs[j].at
                 \/ jobs[j].at = "building" /\ jobs'[j].at = "ended" /\ ~ jobs'[j].leased
              /\ jobs'[j].leased => /\ jobs[j].leased
                                    /\ ~ jobs'[j].lapsed => ~ jobs[j].lapsed /\ jobs'[j].left > 0
    PROVE  FileInv'
<1>1. FileOfOneRow' /\ ListedActive'
  BY DEF FileInv, FileOfOneRow, ListedActive, OwnFile, FileOf
<1>2. JobsWithout' /\ JobsRead'
  BY DEF FileInv, JobsWithout, JobsRead
<1>3. FilesInOrder' /\ Emptied' /\ NoOrphan'
  BY DEF FileInv, FilesInOrder, Emptied, NoOrphan, Referenced
<1>4. Leased'
  <2>1. \A j \in Jobs : /\ Alone(j)' <=> Alone(j)
                        /\ Running(j)' => Running(j) /\ jobs'[j].left > 0
                        /\ jobs'[j].at = "creating" <=> jobs[j].at = "creating"
    BY DEF Alone, Running
  <2> QED
    BY <2>1 DEF FileInv, Leased
<1> QED
  BY <1>1, <1>2, <1>3, <1>4 DEF FileInv

LEMMA FileJobRead ==
    ASSUME FileInv, StorageInv', NEW j \in Jobs, NEW i \in Ids, JobRead(j, i)
    PROVE  FileInv'
<1>1. /\ TypeOK /\ StorageInv /\ FileOfOneRow /\ ListedActive /\ JobsWithout /\ JobsRead
      /\ FilesInOrder /\ Emptied /\ Leased /\ NoOrphan
  BY DEF FileInv, StorageInv
<1>2. /\ UNCHANGED <<reqs, rows, files, objs, cleaners>>
      /\ rows[i].listed /\ jobs[j].at = "new"
  BY DEF JobRead
<1>3. /\ jobs'[j].at = "creating" /\ jobs'[j].row = i /\ jobs'[j].file = FileOf(i, j)
      /\ jobs'[j].object = rows[i].object /\ jobs'[j].leased = jobs[j].leased
      /\ \A h \in Jobs \ {j} : jobs'[h] = jobs[h]
  BY <1>1 DEF JobRead, TypeOK, JobRecord
<1>4. /\ FileOf(i, j) \in FileIds /\ j \in FileIds /\ j \notin Requests /\ ~ jobs[j].leased
      /\ FileOf(i, j) # j => rows[i].file = FileOf(i, j)
  BY <1>1, <1>2, FileOfType, IdsAssumption DEF FileIds, FileOf, JobsWithout
<1>5. FileOfOneRow'
  BY <1>1, <1>2, <1>3 DEF FileOfOneRow
<1>6. ListedActive' /\ FilesInOrder' /\ Emptied' /\ NoOrphan'
  BY <1>1, <1>2 DEF ListedActive, OwnFile, FileOf, FilesInOrder, Emptied, NoOrphan, Referenced
<1>7. JobsWithout'
  BY <1>1, <1>2, <1>3, <1>4 DEF JobsWithout
<1>8. files[FileOf(i, j)].state = "none"
      \/ (files[FileOf(i, j)].state = "active" /\ files[FileOf(i, j)].object = rows[i].object)
  <2>1. CASE FileOf(i, j) = j
    BY <1>1, <1>2, <2>1 DEF JobsWithout
  <2>2. CASE FileOf(i, j) # j
    <3>1. FileOf(i, j) = OwnFile(i)
      BY <2>2 DEF OwnFile, FileOf
    <3> QED
      BY <1>1, <1>2, <3>1 DEF ListedActive
  <2> QED
    BY <2>1, <2>2
<1>9. OwnObject(i, rows[i].object) /\ (i \in Requests => FileOf(i, j) = i)
  BY <1>1, <1>2, IdsAssumption DEF StorageInv, ObjectsOfRows, FileOf
<1>10. JobsRead'
  BY <1>1, <1>2, <1>3, <1>4, <1>8, <1>9 DEF JobsRead
<1>11. Leased'
  <2>1. \A h \in Jobs \ {j} : (Alone(h)' <=> Alone(h)) /\ (Running(h)' <=> Running(h))
    BY <1>2, <1>3 DEF Alone, Running
  <2>2. ~ Running(j)'
    BY <1>3, <1>4 DEF Running
  <2>3. rows[i].object \in objs
    BY <1>1, <1>2 DEF StorageInv, RowsBacked
  <2> QED
    BY <1>1, <1>2, <1>3, <1>8, <2>1, <2>2, <2>3 DEF Leased
<1> QED
  BY <1>5, <1>6, <1>7, <1>10, <1>11 DEF FileInv

LEMMA FileJobCreate ==
    ASSUME FileInv, StorageInv', NEW j \in Jobs, JobCreate(j)
    PROVE  FileInv'
<1>1. /\ TypeOK /\ StorageInv /\ FileOfOneRow /\ ListedActive /\ JobsWithout /\ JobsRead
      /\ FilesInOrder /\ Emptied /\ Leased /\ NoOrphan
  BY DEF FileInv, StorageInv
<1> DEFINE i == jobs[j].row
           f == jobs[j].file
           o == jobs[j].object
<1>2. /\ jobs[j].at = "creating" /\ UNCHANGED <<reqs, objs, cleaners>>
      /\ i \in Ids /\ f \in FileIds /\ o = rows[i].object /\ OwnObject(i, o)
      /\ f # j => rows[i].file = f
      /\ files[f].state # "none" => files[f].object = o
      /\ files[j].state = "none" /\ \A h \in Ids : rows[h].file # j
  BY <1>1 DEF JobCreate, JobsRead, JobsWithout
<1>3. /\ Jobs \subseteq FileIds /\ Requests \subseteq FileIds /\ Ids \subseteq FileIds
      /\ Ids \cap Jobs = {} /\ None \notin FileIds /\ o # None
  BY <1>2, IdsAssumption DEF FileIds, Ids, OwnObject
<1>4. /\ \A g \in FileIds \ {f} : files'[g] = files[g]
      /\ files[f].state # "none" => files'[f] = files[f]
      /\ files[f].state = "none" => files'[f].state = "active" /\ files'[f].object = o
  BY <1>1, <1>2 DEF JobCreate, Ensured, ActiveFile, TypeOK
<1>5. \A h \in Ids : /\ rows'[h].listed = rows[h].listed
                     /\ rows'[h].object = rows[h].object
                     /\ \/ rows'[h].file = rows[h].file
                        \/ /\ h = i /\ rows[h].file = None /\ rows'[h].file = j /\ f = j
  BY <1>1, <1>2 DEF JobCreate, FileOf, TypeOK, RowRecord
<1>6. /\ jobs'[j].at = "building" /\ jobs'[j].row = i /\ jobs'[j].file = f /\ jobs'[j].object = o
      /\ jobs'[j].left = FileLease /\ jobs'[j].lapsed = jobs[j].lapsed
      /\ \A h \in Jobs \ {j} : jobs'[h] = jobs[h]
  BY <1>1 DEF JobCreate, TypeOK, JobRecord
<1>7. /\ \A g \in FileIds : files[g].state # "none" => files'[g] = files[g]
      /\ files'[f].state # "none" /\ files'[f].object = o
  BY <1>2, <1>4
<1> HIDE DEF i, f, o
<1>8. FileOfOneRow'
  <2>1. ASSUME NEW h \in Ids, rows'[h].file = rows[h].file, rows[h].file \in Jobs
        PROVE  /\ jobs'[rows[h].file].at \in {"building", "ended"}
               /\ jobs'[rows[h].file].row = h
               /\ files'[rows[h].file].state # "none"
    <3>1. rows[h].file # j
      BY <1>2
    <3> QED
      BY <1>1, <1>3, <1>6, <1>7, <2>1, <3>1 DEF FileOfOneRow
  <2>2. ASSUME NEW h \in Ids, h = i, rows'[h].file = j, f = j
        PROVE  /\ jobs'[j].at \in {"building", "ended"} /\ jobs'[j].row = h
               /\ files'[j].state # "none"
    BY <1>6, <1>7, <2>2
  <2>3. \A h \in Ids : rows[h].file \in Ids => rows[h].file = h
    BY <1>1 DEF FileOfOneRow
  <2> QED
    BY <1>3, <1>5, <2>1, <2>2, <2>3 DEF FileOfOneRow
<1>9. ListedActive'
  <2> SUFFICES ASSUME NEW h \in Ids, rows[h].listed
               PROVE  \/ files'[OwnFile(h)'].state = "none"
                      \/ files'[OwnFile(h)'].state = "active" /\ files'[OwnFile(h)'].object = rows[h].object
    BY <1>5 DEF ListedActive
  <2>1. CASE rows'[h].file = rows[h].file
    <3>1. OwnFile(h)' = OwnFile(h) /\ OwnFile(h) \in FileIds
      BY <1>1, <1>3, <2>1, FileOfType DEF OwnFile, FileOf
    <3>2. CASE files[OwnFile(h)].state = "none" /\ OwnFile(h) = f
      <4>1. f # j
        BY <1>2, <1>3, <3>2 DEF OwnFile, FileOf
      <4>2. OwnFile(i) = f
        BY <1>2, <1>3, <4>1 DEF OwnFile, FileOf
      <4>3. h = i
        BY <1>1, <1>2, <3>2, <4>2, OneRow
      <4> QED
        BY <1>2, <1>4, <3>1, <3>2, <4>3
    <3>3. CASE files[OwnFile(h)].state # "none" \/ OwnFile(h) # f
      <4>1. files'[OwnFile(h)] = files[OwnFile(h)]
        BY <1>4, <1>7, <3>1, <3>3
      <4> QED
        BY <1>1, <3>1, <4>1 DEF ListedActive
    <3> QED
      BY <3>2, <3>3
  <2>2. CASE h = i /\ rows'[h].file = j /\ f = j
    <3>1. OwnFile(h)' = j
      BY <1>3, <2>2 DEF OwnFile, FileOf
    <3> QED
      BY <1>2, <1>4, <2>2, <3>1
  <2> QED
    BY <1>5, <2>1, <2>2
<1>10. JobsWithout'
  <2>1. ASSUME NEW k \in Jobs \ {j}, jobs[k].at \in {"new", "creating"}
        PROVE  files'[k].state = "none" /\ \A h \in Ids : rows'[h].file # k
    <3>1. files[k].state = "none" /\ \A h \in Ids : rows[h].file # k
      BY <1>1, <2>1 DEF JobsWithout
    <3>2. f # k
      BY <1>2, <3>1
    <3> QED
      BY <1>3, <1>4, <1>5, <3>1, <3>2
  <2>2. ASSUME NEW k \in Jobs \ {j}, jobs[k].leased
        PROVE  jobs[k].at = "building" /\ files'[jobs[k].file].state # "none"
    <3>1. jobs[k].at = "building" /\ files[jobs[k].file].state # "none" /\ jobs[k].file \in FileIds
      BY <1>1, <2>2 DEF JobsWithout, JobsRead
    <3> QED
      BY <1>7, <3>1
  <2> QED
    BY <1>6, <1>7, <2>1, <2>2 DEF JobsWithout
<1>11. JobsRead'
  <2> SUFFICES ASSUME NEW k \in Jobs \ {j}, jobs[k].at # "new"
               PROVE  /\ jobs[k].object = rows'[jobs[k].row].object
                      /\ jobs[k].file # k => rows'[jobs[k].row].file = jobs[k].file
                      /\ files'[jobs[k].file].state # "none" => files'[jobs[k].file].object = jobs[k].object
    <3>1. /\ i \in Requests => f = i
          /\ f # j => rows'[i].file = f
          /\ o = rows'[i].object
      BY <1>1, <1>2, <1>5 DEF JobsRead, i, f
    <3> QED
      BY <1>1, <1>2, <1>6, <1>7, <3>1 DEF JobsRead
  <2>1. /\ jobs[k].row \in Ids /\ jobs[k].file \in FileIds
        /\ jobs[k].object = rows[jobs[k].row].object
        /\ jobs[k].file # k => rows[jobs[k].row].file = jobs[k].file
        /\ files[jobs[k].file].state # "none" => files[jobs[k].file].object = jobs[k].object
    BY <1>1 DEF JobsRead
  <2>2. jobs[k].file # k => rows'[jobs[k].row].file = jobs[k].file
    BY <1>3, <1>5, <2>1
  <2>3. ASSUME jobs[k].file = f, files[f].state = "none" PROVE jobs[k].row = i
    <3>1. f # j
      BY <1>2, <2>1, <2>3
    <3>2. OwnFile(i) = f
      BY <1>2, <1>3, <3>1 DEF OwnFile, FileOf
    <3>3. f # k
      BY <1>1, <1>2, <2>3, <3>1 DEF FileOfOneRow
    <3>4. OwnFile(jobs[k].row) = f
      BY <1>3, <2>1, <2>3, <3>3 DEF OwnFile, FileOf
    <3> QED
      BY <1>1, <1>2, <2>1, <3>2, <3>4, OneRow
  <2>4. files'[jobs[k].file].state # "none" => files'[jobs[k].file].object = jobs[k].object
    BY <1>2, <1>4, <2>1, <2>3
  <2> QED
    BY <1>5, <2>1, <2>2, <2>4
<1>12. FilesInOrder'
  <2>1. \A g \in FileIds : /\ files'[g].state = "none" => files'[g].object = None
                           /\ files'[g].state \in {"delete_pending", "deleted"} => files'[g].grace = 0
    BY <1>1, <1>2, <1>4 DEF FilesInOrder
  <2>2. \A q \in Requests : reqs'[q].at = "upload" => files'[q].state # "active"
    <3>1. \A q \in Requests : reqs[q].at = "upload" => files[q].state # "none"
      BY <1>1 DEF StorageInv, StagedStored
    <3> QED
      BY <1>1, <1>2, <1>3, <1>7, <3>1 DEF FilesInOrder
  <2> QED
    BY <2>1, <2>2 DEF FilesInOrder
<1>13. Emptied'
  BY <1>1, <1>2, <1>7 DEF Emptied
<1>14. Leased'
  <2>1. \A k \in Jobs : jobs'[k].file = jobs[k].file /\ jobs'[k].object = jobs[k].object
    BY <1>6 DEF f, o
  <2>2. \A g \in FileIds : files'[g].object = files[g].object \/ files[g].state = "none"
    BY <1>7
  <2>3. ASSUME NEW k \in Jobs, jobs[k].at # "new", Alone(k)'
        PROVE  Alone(k)
    BY <1>1, <2>1, <2>2, <2>3, AloneBefore
  <2>4. ASSUME NEW k \in Jobs, jobs[k].at = "creating" \/ Running(k), Alone(k)'
        PROVE  /\ jobs[k].object \in objs
               /\ files'[jobs[k].file].state \in {"none", "active", "retired"}
               /\ jobs[k].at = "creating" =>
                    \/ rows'[jobs[k].row].listed
                    \/ files'[jobs[k].file].state = "retired" /\ files'[jobs[k].file].grace > 0
    <3>1. jobs[k].at # "new" /\ jobs[k].file \in FileIds /\ jobs[k].row \in Ids
      BY <1>1, <2>4 DEF JobsWithout, JobsRead, Running
    <3>2. /\ jobs[k].object \in objs
          /\ files[jobs[k].file].state \in {"none", "active", "retired"}
          /\ jobs[k].at = "creating" =>
               \/ rows[jobs[k].row].listed
               \/ files[jobs[k].file].state = "retired" /\ files[jobs[k].file].grace > 0
      BY <1>1, <2>3, <2>4, <3>1 DEF Leased
    <3>3. files'[jobs[k].file].state \in {"none", "active", "retired"}
      BY <1>4, <1>7, <3>1, <3>2
    <3> QED
      BY <1>5, <1>7, <3>1, <3>2, <3>3
  <2>5. ASSUME NEW k \in Jobs \ {j}
        PROVE  /\ Running(k)' => jobs'[k].left > 0
               /\ (jobs'[k].at = "creating" \/ Running(k)') /\ Alone(k)' =>
                     /\ jobs'[k].object \in objs'
                     /\ files'[jobs'[k].file].state \in {"none", "active", "retired"}
                     /\ jobs'[k].at = "creating" =>
                          \/ rows'[jobs'[k].row].listed
                          \/ files'[jobs'[k].file].state = "retired" /\ files'[jobs'[k].file].grace > 0
    BY <1>1, <1>2, <1>6, <2>4 DEF Leased, Running
  <2>6. /\ Running(j)' => jobs'[j].left > 0
        /\ (jobs'[j].at = "creating" \/ Running(j)') /\ Alone(j)' =>
              /\ jobs'[j].object \in objs'
              /\ files'[jobs'[j].file].state \in {"none", "active", "retired"}
              /\ jobs'[j].at # "creating"
    BY <1>2, <1>6, <2>4, TimesAssumption DEF f, o
  <2> QED
    BY <2>5, <2>6 DEF Leased
<1>15. NoOrphan'
  BY <1>1, <1>2, <1>5, <1>7 DEF NoOrphan, Referenced
<1> QED
  BY <1>8, <1>9, <1>10, <1>11, <1>12, <1>13, <1>14, <1>15 DEF FileInv

LEMMA FileTick ==
    ASSUME FileInv, StorageInv', Tick
    PROVE  FileInv'
<1>1. /\ TypeOK /\ FileOfOneRow /\ ListedActive /\ JobsWithout /\ JobsRead
      /\ FilesInOrder /\ Emptied /\ Leased /\ NoOrphan
  BY DEF FileInv, StorageInv
<1>2. UNCHANGED <<reqs, rows, objs, cleaners>> /\ \A j \in Jobs : jobs[j].at # "creating"
  BY DEF Tick
<1>3. \A f \in FileIds : /\ files'[f].state = files[f].state
                         /\ files'[f].object = files[f].object
                         /\ files[f].grace = 0 => files'[f].grace = 0
  BY <1>1 DEF Tick, TypeOK, FileRecord, Less
<1>4. ASSUME NEW j \in Jobs
      PROVE  /\ jobs'[j].at = jobs[j].at /\ jobs'[j].row = jobs[j].row
             /\ jobs'[j].file = jobs[j].file /\ jobs'[j].object = jobs[j].object
             /\ jobs'[j].leased = jobs[j].leased
             /\ Running(j)' => Running(j) /\ jobs'[j].left > 0
  <2> DEFINE n == Less(jobs[j].left)
             b == jobs[j].lapsed \/ (jobs[j].leased /\ jobs[j].left <= 1)
  <2>1. jobs'[j] = [jobs[j] EXCEPT !.left = n, !.lapsed = b]
    BY Zenon DEF Tick
  <2>2. jobs[j] \in JobRecord /\ jobs[j].left \in Nat /\ jobs[j].leased \in BOOLEAN
    BY <1>1 DEF TypeOK, JobRecord
  <2>3. jobs[j].leased /\ ~ b => ~ jobs[j].lapsed /\ n > 0
    BY <2>2 DEF Less
  <2> HIDE DEF n, b
  <2>4. /\ jobs'[j].at = jobs[j].at /\ jobs'[j].row = jobs[j].row
        /\ jobs'[j].file = jobs[j].file /\ jobs'[j].object = jobs[j].object
        /\ jobs'[j].leased = jobs[j].leased /\ jobs'[j].left = n /\ jobs'[j].lapsed = b
    BY <2>1, <2>2 DEF JobRecord
  <2> QED
    BY <2>3, <2>4 DEF Running
<1>5. Jobs \subseteq FileIds /\ Requests \subseteq FileIds
  BY DEF FileIds, Ids
<1>6. FileOfOneRow'
  BY <1>1, <1>2, <1>3, <1>4, <1>5 DEF FileOfOneRow
<1>7. ListedActive'
  <2>1. \A i \in Ids : OwnFile(i)' = OwnFile(i) /\ OwnFile(i) \in FileIds
    BY <1>1, <1>2, FileOfType DEF OwnFile, FileOf, FileIds
  <2> HIDE DEF OwnFile
  <2> QED
    BY <1>1, <1>2, <1>3, <2>1 DEF ListedActive
<1>8. JobsWithout' /\ JobsRead'
  <2>1. \A j \in Jobs : jobs[j].leased => jobs[j].file \in FileIds
    BY <1>1 DEF JobsWithout, JobsRead
  <2> QED
    BY <1>1, <1>2, <1>3, <1>4, <1>5, <2>1 DEF JobsWithout, JobsRead
<1>9. FilesInOrder' /\ Emptied'
  BY <1>1, <1>2, <1>3, <1>5 DEF FilesInOrder, Emptied
<1>10. Leased'
  <2>1. ASSUME NEW j \in Jobs, Running(j), Alone(j)'
        PROVE  jobs[j].object \in objs /\ files'[jobs[j].file].state \in {"none", "active", "retired"}
    <3>1. Alone(j)
      BY <1>3, <1>4, <2>1 DEF Alone
    <3>2. jobs[j].file \in FileIds
      BY <1>1, <2>1 DEF Running, JobsWithout, JobsRead
    <3> QED
      BY <1>1, <1>3, <2>1, <3>1, <3>2 DEF Leased
  <2> QED
    BY <1>2, <1>4, <2>1 DEF Leased
<1>11. NoOrphan'
  BY <1>1, <1>2, <1>3 DEF NoOrphan, Referenced
<1> QED
  BY <1>6, <1>7, <1>8, <1>9, <1>10, <1>11 DEF FileInv

LEMMA FileNext == FileInv /\ [Next]_vars => FileInv'
<1> SUFFICES ASSUME FileInv, [Next]_vars PROVE FileInv'
  OBVIOUS
<1>t. TypeOK /\ StorageInv'
  BY StorageNext DEF FileInv, StorageInv
<1>q. ASSUME UNCHANGED <<rows, files, objs, jobs, cleaners>>, Settles PROVE FileInv'
  <2>1. \A r \in Requests : reqs'[r].at = "upload" => reqs[r].at = "upload"
    BY <1>q DEF Settles
  <2> QED
    BY <1>t, <1>q, <2>1, FileQuiet
<1>1. ASSUME NEW r \in Requests, RequestStep(r) PROVE FileInv'
  <2>1. ASSUME NEW k \in Keys, Send(r, k) PROVE FileInv'
    <3>1. \E body : Reserve(r, k, body)
      BY <2>1 DEF Send
    <3>2. Settles
      BY <1>t, <3>1 DEF Reserve, TypeOK, RequestRecord, Settles
    <3> QED
      BY <1>q, <3>1, <3>2 DEF Reserve
  <2>2. CASE LoseAttempt(r) \/ Fail(r) \/ Crash(r)
    BY <1>t, <1>q, <2>2, MoveSettles DEF LoseAttempt, Fail, Crash
  <2>3. CASE RejectUpload(r) \/ RejectItems(r)
    BY <1>t, <1>q, <2>3, FinishSettles DEF RejectUpload, RejectItems
  <2>4. CASE ReadBack(r) \/ Recover(r) \/ Release(r)
    BY <1>t, <1>q, <2>4, ReplySettles, MoveSettles DEF ReadBack, Recover, Release
  <2>5. CASE SetParts(r)
    <3>1. \A i \in Ids : /\ rows'[i].listed = rows[i].listed /\ rows'[i].file = rows[i].file
                         /\ rows'[i].object = rows[i].object
      BY <1>t, <2>5 DEF SetParts, TypeOK, RowRecord
    <3>2. Settles /\ UNCHANGED <<files, objs, jobs, cleaners>>
      BY <1>t, <2>5, FinishSettles DEF SetParts
    <3>3. \A q \in Requests : reqs'[q].at = "upload" => reqs[q].at = "upload"
      BY <3>2 DEF Settles
    <3> QED
      BY <1>t, <3>1, <3>2, <3>3, FileQuiet
  <2> QED
    BY <1>t, <1>1, <2>1, <2>2, <2>3, <2>4, <2>5, FileStage, FileUpload, FilePublish, FileDelete
    DEF RequestStep
<1>2. ASSUME NEW j \in Jobs, JobStep(j) PROVE FileInv'
  <2>1. CASE JobClaim(j) \/ JobEnd(j)
    <3>1. UNCHANGED <<reqs, rows, files, objs, cleaners>>
      BY <2>1 DEF JobClaim, JobEnd
    <3>2. \A h \in Jobs :
            /\ jobs'[h].row = jobs[h].row /\ jobs'[h].file = jobs[h].file
            /\ jobs'[h].object = jobs[h].object
            /\ \/ jobs'[h].at = jobs[h].at
               \/ jobs[h].at = "building" /\ jobs'[h].at = "ended" /\ ~ jobs'[h].leased
            /\ jobs'[h].leased => /\ jobs[h].leased
                                  /\ jobs'[h].lapsed = jobs[h].lapsed
                                  /\ jobs'[h].left \in {jobs[h].left, FileLease}
      BY <1>t, <2>1 DEF JobClaim, JobEnd, TypeOK, JobRecord
    <3>3. \A h \in Jobs : jobs[h].leased /\ ~ jobs[h].lapsed => jobs[h].left > 0
      BY DEF FileInv, Leased, Running
    <3> QED
      BY <1>t, <3>1, <3>2, <3>3, TimesAssumption, FileJobsQuiet
  <2> QED
    BY <1>t, <1>2, <2>1, FileJobRead, FileJobCreate DEF JobStep
<1>3. CASE CleanLeases
  <2>1. UNCHANGED <<reqs, rows, files, objs, cleaners>>
    BY <1>3 DEF CleanLeases
  <2>2. \A h \in Jobs :
          /\ jobs'[h].row = jobs[h].row /\ jobs'[h].file = jobs[h].file
          /\ jobs'[h].object = jobs[h].object /\ jobs'[h].at = jobs[h].at
          /\ jobs'[h].leased => /\ jobs[h].leased
                                /\ jobs'[h].lapsed = jobs[h].lapsed
                                /\ jobs'[h].left = jobs[h].left
    BY <1>t, <1>3 DEF CleanLeases, TypeOK, JobRecord
  <2>3. \A h \in Jobs : jobs[h].leased /\ ~ jobs[h].lapsed => jobs[h].left > 0
    BY DEF FileInv, Leased, Running
  <2> QED
    BY <1>t, <2>1, <2>2, <2>3, FileJobsQuiet
<1>4. CASE UNCHANGED vars
  BY <1>t, <1>4, FileQuiet DEF vars
<1> QED
  BY <1>t, <1>1, <1>2, <1>3, <1>4, FileCleaner, FileTick DEF Next

LEMMA FilesCorrect == Spec => []FileInv
BY FileInit, FileNext, PTL DEF Spec

\* No object is forgotten by the cleanup, however many rows share it and whatever
\* stops, expires or is deleted meanwhile.
THEOREM NothingOrphaned == Spec => []NoOrphan
<1>1. FileInv => NoOrphan
  BY DEF FileInv
<1> QED
  BY <1>1, FilesCorrect, PTL

\* The object of a ZIP job with a lease that never ran out is there, whatever is
\* deleted and cleaned up, if no second file record names the object.
THEOREM LeasesProtect == Spec => []LeaseProtects
<1>1. FileInv => LeaseProtects
  BY DEF FileInv, Leased, LeaseProtects, Alone, Running
<1> QED
  BY <1>1, FilesCorrect, PTL

-----------------------------------------------------------------------------
(* The number of the list, and the promises of SheetCatalog.                  *)

\* What a step that stores a result does to the operations.
LEMMA FinishOps ==
    ASSUME TypeOK, NEW r \in Requests, reqs[r].key \in Keys,
           NEW result \in {"succeeded", "rejected"}, NEW reply,
           Finish(r, result, reply)
    PROVE  /\ ops'[reqs[r].key].state = result
           /\ \A k \in Keys : ops'[k].body = ops[k].body
           /\ \A k \in Keys \ {reqs[r].key} : ops'[k].state = ops[k].state
BY DEF Finish, TypeOK, OperationRecord

\* A step that shows in the list raises its number; of every other step, the
\* rows keep what the list shows of them.
LEMMA ListedChange ==
    ASSUME TypeOK, [Next]_vars
    PROVE  \/ \E r \in Requests : Publish(r) \/ SetParts(r) \/ Delete(r)
           \/ /\ UNCHANGED listVersion
              /\ \A i \in Ids : /\ rows'[i].listed = rows[i].listed
                                /\ rows'[i].revision = rows[i].revision
<1>1. ASSUME NEW r \in Requests, RequestStep(r),
             ~ Publish(r), ~ SetParts(r), ~ Delete(r)
      PROVE  UNCHANGED <<rows, listVersion>>
  <2>1. CASE \E k \in Keys : Send(r, k)
    BY <2>1 DEF Send, Reserve
  <2>2. CASE LoseAttempt(r) \/ RejectUpload(r) \/ Stage(r) \/ Upload(r) \/ RejectItems(r)
    BY <2>2 DEF LoseAttempt, RejectUpload, Stage, Upload, RejectItems
  <2>3. CASE Fail(r) \/ ReadBack(r) \/ Recover(r) \/ Release(r) \/ Crash(r)
    BY <2>3 DEF Fail, ReadBack, Recover, Release, Crash
  <2> QED
    BY <1>1, <2>1, <2>2, <2>3 DEF RequestStep
<1>2. ASSUME NEW c \in Cleaners, CleanerStep(c)
      PROVE  UNCHANGED <<rows, listVersion>>
  BY <1>2 DEF CleanerStep, CleanMark, CleanDelete, CleanDeleteFails, CleanRecord,
     CleanCrash
<1>3. ASSUME NEW j \in Jobs, JobStep(j)
      PROVE  /\ UNCHANGED listVersion
             /\ \A i \in Ids : /\ rows'[i].listed = rows[i].listed
                               /\ rows'[i].revision = rows[i].revision
  <2>1. CASE UNCHANGED rows
    BY <1>3, <2>1 DEF JobStep, JobRead, JobCreate, JobClaim, JobEnd
  <2>2. CASE JobCreate(j)
    <3> DEFINE h == jobs[j].row
               f == FileOf(h, j)
    <3>1. /\ UNCHANGED listVersion
          /\ rows' = [rows EXCEPT ![h] = [rows[h] EXCEPT !.file = f]] \/ UNCHANGED rows
      BY <2>2 DEF JobCreate
    <3> HIDE DEF h, f
    <3> QED
      BY <3>1 DEF TypeOK, RowRecord
  <2> QED
    BY <1>3, <2>1, <2>2 DEF JobStep, JobRead, JobClaim, JobEnd
<1>4. CASE CleanLeases \/ Tick \/ UNCHANGED vars
  BY <1>4 DEF CleanLeases, Tick, vars
<1> QED
  BY <1>1, <1>2, <1>3, <1>4 DEF Next

\* Every change of what the list shows raises its number in the same step, so a
\* client that asks with the number it has never keeps a list that changed.
THEOREM VersionCovers == Spec => VersionCoversList
<1>1. ASSUME TypeOK, [Next]_vars,
             \E i \in Ids : \/ rows'[i].listed # rows[i].listed
                            \/ rows'[i].revision # rows[i].revision
      PROVE  listVersion' > listVersion
  <2>1. listVersion \in Nat
    BY <1>1 DEF TypeOK
  <2>2. PICK r \in Requests : Publish(r) \/ SetParts(r) \/ Delete(r)
    BY <1>1, ListedChange
  <2>3. CASE Publish(r)
    BY <2>1, <2>3 DEF Publish
  <2>4. CASE SetParts(r)
    BY <2>1, <2>4 DEF SetParts
  <2>5. CASE Delete(r)
    <3>1. listVersion' = listVersion + 1
      BY <2>5, Zenon DEF Delete
    <3> QED
      BY <2>1, <3>1
  <2> QED
    BY <2>2, <2>3, <2>4, <2>5
<1>2. TypeOK /\ [Next]_vars =>
        [(\E i \in Ids : \/ rows'[i].listed # rows[i].listed
                         \/ rows'[i].revision # rows[i].revision)
           => listVersion' > listVersion]_vars
  BY <1>1
<1> QED
  BY <1>2, TypeCorrect, PTL DEF Spec, VersionCoversList

\* A request that uploads was reserved as an upload.
Uploading ==
    \A r \in Requests :
        reqs[r].at \in {"upload", "publish"} => reqs[r].body.kind = "upload"

LEMMA UploadingInit == Init => Uploading
BY DEF Init, Uploading

LEMMA UploadingNext == TypeOK /\ Uploading /\ [Next]_vars => Uploading'
<1> SUFFICES ASSUME TypeOK, Uploading, [Next]_vars PROVE Uploading'
  OBVIOUS
<1>s. Stages = {"new", "apply", "upload", "publish", "resent", "readback",
                "recover", "release", "done"}
  BY DEF Stages
<1>f. ASSUME NEW r \in Requests, NEW reply, NEW at \in {"done", "recover", "readback",
                                                        "release"},
             ReplyWith(r, reply) \/ MoveTo(r, at)
      PROVE  Uploading'
  BY <1>f DEF TypeOK, Uploading, ReplyWith, MoveTo, RequestRecord
<1>1. ASSUME NEW r \in Requests, RequestStep(r) PROVE Uploading'
  <2>1. ASSUME NEW k \in Keys, Send(r, k) PROVE Uploading'
    <3>1. ASSUME NEW body, Reserve(r, k, body) PROVE Uploading'
      <4>1. \E at \in Stages \ {"upload", "publish"}, reply \in Replies,
                 op \in {r, None, ops[k].attempt} :
              reqs' = [reqs EXCEPT ![r] = [at |-> at, key |-> k, body |-> body,
                                           op |-> op, reply |-> reply]]
        BY <3>1, Zenon DEF Reserve, Stages, Replies
      <4>2. /\ reqs'[r].at \notin {"upload", "publish"}
            /\ \A q \in Requests \ {r} : reqs'[q] = reqs[q]
        BY <4>1 DEF TypeOK
      <4> QED
        BY <4>2 DEF Uploading
    <3> QED
      BY <2>1, <3>1 DEF Send
  <2>2. CASE Stage(r)
    <3>1. /\ reqs[r].body.kind = "upload"
          /\ MoveTo(r, "upload") \/ MoveTo(r, "recover")
      BY <2>2 DEF Stage
    <3> QED
      BY <3>1 DEF TypeOK, Uploading, MoveTo, RequestRecord
  <2>3. CASE Upload(r)
    <3>1. /\ reqs[r].at = "upload"
          /\ MoveTo(r, "publish") \/ MoveTo(r, "recover")
      BY <2>3 DEF Upload
    <3> QED
      BY <3>1 DEF TypeOK, Uploading, MoveTo, RequestRecord
  <2>4. CASE \/ LoseAttempt(r) \/ RejectUpload(r) \/ Publish(r) \/ RejectItems(r)
             \/ SetParts(r) \/ Delete(r) \/ Fail(r) \/ Crash(r)
    <3>1. \E reply : \/ ReplyWith(r, reply) \/ MoveTo(r, "recover")
                     \/ MoveTo(r, "readback") \/ MoveTo(r, "done")
      BY <2>4, Zenon DEF LoseAttempt, RejectUpload, Publish, RejectItems, SetParts,
         Delete, Fail, Crash, Finish
    <3> QED
      BY <1>f, <3>1
  <2>5. CASE ReadBack(r) \/ Recover(r) \/ Release(r)
    <3>1. \E reply : ReplyWith(r, reply) \/ MoveTo(r, "release")
      BY <2>5, Zenon DEF ReadBack, Recover, Release
    <3> QED
      BY <1>f, <3>1
  <2> QED
    BY <1>1, <2>1, <2>2, <2>3, <2>4, <2>5 DEF RequestStep
<1>2. CASE UNCHANGED reqs
  BY <1>2 DEF Uploading
<1>3. ASSUME NEW c \in Cleaners, CleanerStep(c) PROVE UNCHANGED reqs
  BY <1>3 DEF CleanerStep, CleanMark, CleanDelete, CleanDeleteFails, CleanRecord,
     CleanCrash
<1>4. ASSUME NEW j \in Jobs, JobStep(j) PROVE UNCHANGED reqs
  BY <1>4 DEF JobStep, JobRead, JobCreate, JobClaim, JobEnd
<1>5. CleanLeases \/ Tick \/ UNCHANGED vars => UNCHANGED reqs
  BY DEF CleanLeases, Tick, vars
<1> QED
  BY <1>1, <1>2, <1>3, <1>4, <1>5 DEF Next

-----------------------------------------------------------------------------
(* The refinement of SheetCatalog.  An operation is asked when it is first    *)
(* reserved; what it does happens in the step that stores its result; all     *)
(* else -- takeovers, resends, transactions of the upload, answers, time, the *)
(* cleanup and the ZIP jobs -- is invisible.                                  *)

LEMMA CatalogInit == Init => Catalog!Init
<1> SUFFICES ASSUME Init PROVE Catalog!Init
  OBVIOUS
<1>1. [k \in Keys |-> ops[k].body] \in [Keys -> Bodies]
  BY UploadBodyType DEF Init
<1>2. \A k \in Keys : ops[k].state = "none"
  BY DEF Init
<1>3. \A i \in Ids : /\ rows[i].listed = (i \in Legacy)
                     /\ rows[i].revision = IF i \in Legacy THEN 1 ELSE 0
  <2>1. PICK home \in [Legacy -> Shared], migrated \in SUBSET Legacy :
          rows = [i \in Ids |->
                    IF i \in Legacy
                    THEN [listed |-> TRUE, revision |-> 1, object |-> home[i],
                          file |-> IF i \in migrated THEN i ELSE None]
                    ELSE NoRow]
    BY DEF Init
  <2> SUFFICES ASSUME NEW i \in Ids
               PROVE  /\ rows[i].listed = (i \in Legacy)
                      /\ rows[i].revision = IF i \in Legacy THEN 1 ELSE 0
    OBVIOUS
  <2>2. CASE i \in Legacy
    BY <2>1, <2>2
  <2>3. CASE i \notin Legacy
    <3>1. rows[i] = NoRow
      BY <2>1, <2>3
    <3>2. NoRow.listed = FALSE /\ NoRow.revision = 0
      BY DEF NoRow
    <3>3. (i \in Legacy) = FALSE
      BY <2>3
    <3> QED
      BY <2>3, <3>1, <3>2, <3>3
  <2> QED
    BY <2>2, <2>3
<1>4. Legacy \in SUBSET Ids
  BY DEF Ids
<1>5. [i \in Ids |-> [listed |-> rows[i].listed, revision |-> rows[i].revision]]
        = [i \in Ids |-> [listed   |-> i \in Legacy,
                          revision |-> IF i \in Legacy THEN 1 ELSE 0]]
  BY <1>3
<1>6. listVersion = 0
  BY DEF Init
<1> QED
  BY <1>1, <1>2, <1>4, <1>5, <1>6 DEF Catalog!Init

LEMMA CatalogStutter ==
    ASSUME \A k \in Keys : ops'[k].state = ops[k].state /\ ops'[k].body = ops[k].body,
           \A i \in Ids : /\ rows'[i].listed = rows[i].listed
                          /\ rows'[i].revision = rows[i].revision,
           UNCHANGED listVersion
    PROVE  UNCHANGED Catalog!vars
BY DEF Catalog!vars

\* A first reservation asks; every other one is a takeover, a resend or a
\* conflict, which the user does not see.
LEMMA CatalogReserve ==
    ASSUME TypeOK, NEW r \in Requests, NEW k \in Keys, NEW body \in Bodies,
           Reserve(r, k, body)
    PROVE  [Catalog!Next]_(Catalog!vars)
<1>1. UNCHANGED <<rows, listVersion>>
  BY DEF Reserve
<1>2. CASE UNCHANGED ops
  BY <1>1, <1>2, CatalogStutter
<1>3. CASE /\ ops[k].state = "none" \/ (ops[k].state = "processing" /\ ops[k].body = body)
           /\ ops' = [ops EXCEPT ![k] = [state |-> "processing", attempt |-> r,
                                         body |-> body, lease |-> OperationLease]]
  <2>1. /\ ops'[k].state = "processing" /\ ops'[k].body = body
        /\ \A l \in Keys \ {k} : ops'[l] = ops[l]
    BY <1>3 DEF TypeOK
  <2>2. CASE ops[k].state = "processing" /\ ops[k].body = body
    BY <1>1, <2>1, <2>2, CatalogStutter
  <2>3. CASE ops[k].state = "none"
    <3>1. [l \in Keys |-> ops'[l].body] \in [Keys -> Bodies]
      BY <2>1 DEF TypeOK, OperationRecord
    <3>2. [l \in Keys |-> CASE ops'[l].state = "none"       -> "unknown"
                            [] ops'[l].state = "processing" -> "open"
                            [] OTHER                        -> ops'[l].state]
          = [[l \in Keys |-> CASE ops[l].state = "none"       -> "unknown"
                               [] ops[l].state = "processing" -> "open"
                               [] OTHER                       -> ops[l].state]
             EXCEPT ![k] = "open"]
      BY <2>1
    <3>3. Catalog!Ask(k)
      BY <1>1, <2>1, <2>3, <3>1, <3>2 DEF Catalog!Ask
    <3> QED
      BY <3>3 DEF Catalog!Next
  <2> QED
    BY <1>3, <2>2, <2>3
<1> QED
  BY <1>2, <1>3, Zenon DEF Reserve

\* What is asked and decided after a step that stores a result.
LEMMA CatalogOutcome ==
    ASSUME NEW k \in Keys, NEW result \in {"succeeded", "rejected"},
           ops'[k].state = result,
           \A l \in Keys : ops'[l].body = ops[l].body,
           \A l \in Keys \ {k} : ops'[l].state = ops[l].state
    PROVE  /\ [l \in Keys |-> ops'[l].body] = [l \in Keys |-> ops[l].body]
           /\ [l \in Keys |-> CASE ops'[l].state = "none"       -> "unknown"
                                [] ops'[l].state = "processing" -> "open"
                                [] OTHER                        -> ops'[l].state]
              = [[l \in Keys |-> CASE ops[l].state = "none"       -> "unknown"
                                   [] ops[l].state = "processing" -> "open"
                                   [] OTHER                       -> ops[l].state]
                 EXCEPT ![k] = result]
OBVIOUS

\* The owner of an operation asked what the operation was asked.
LEMMA OwnerAsked ==
    ASSUME OperationInv, NEW r \in Requests, reqs[r].at \in {"apply", "publish"},
           OwnsAttempt(r)
    PROVE  /\ reqs[r].key \in Keys
           /\ ops[reqs[r].key].body = reqs[r].body
           /\ ops[reqs[r].key].state = "processing"
BY DEF OperationInv, Waiting, Keyed, Reserved, SameChange, OwnsAttempt

LEMMA CatalogReject ==
    ASSUME OperationInv, NEW r \in Requests, RejectUpload(r) \/ RejectItems(r)
    PROVE  Catalog!Next
<1>t. TypeOK
  BY DEF OperationInv
<1>1. /\ reqs[r].at = "apply" /\ OwnsAttempt(r)
      /\ Finish(r, "rejected", "rejected")
      /\ UNCHANGED <<rows, listVersion>>
      /\ reqs[r].body.kind = "upload" \/ ~ Fresh(reqs[r].body)
  BY DEF RejectUpload, RejectItems
<1>k. PICK k \in Keys : k = reqs[r].key
  BY <1>1, OwnerAsked
<1>2. k \in Keys /\ ops[k].body = reqs[r].body /\ ops[k].state = "processing"
  BY <1>1, <1>k, OwnerAsked
<1>3. /\ ops'[k].state = "rejected"
      /\ \A l \in Keys : ops'[l].body = ops[l].body
      /\ \A l \in Keys \ {k} : ops'[l].state = ops[l].state
  BY <1>t, <1>k, <1>1, FinishOps
<1>4. ~ Fresh(reqs[r].body) => ~ Catalog!Seen(k)
  BY <1>2 DEF Fresh, Named, Catalog!Seen, Catalog!Named
<1>5. Catalog!Reject(k)
  BY <1>1, <1>2, <1>3, <1>4, CatalogOutcome DEF Catalog!Reject
<1> QED
  BY <1>2, <1>5 DEF Catalog!Next

LEMMA CatalogPublish ==
    ASSUME OperationInv, Uploading, NEW r \in Requests, Publish(r)
    PROVE  Catalog!Next
<1> DEFINE added == [listed |-> TRUE, revision |-> 1, file |-> r, object |-> r]
<1>t. TypeOK
  BY DEF OperationInv
<1>i. r \in Ids
  BY DEF Ids
<1>1. /\ reqs[r].at = "publish" /\ OwnsAttempt(r)
      /\ Finish(r, "succeeded", "ok")
      /\ listVersion' = listVersion + 1
      /\ rows' = [rows EXCEPT ![r] = added]
  BY DEF Publish
<1>k. PICK k \in Keys : k = reqs[r].key
  BY <1>1, OwnerAsked
<1>2. k \in Keys /\ ops[k].body = reqs[r].body /\ ops[k].state = "processing"
  BY <1>1, <1>k, OwnerAsked
<1>3. /\ ops'[k].state = "succeeded"
      /\ \A l \in Keys : ops'[l].body = ops[l].body
      /\ \A l \in Keys \ {k} : ops'[l].state = ops[l].state
  BY <1>t, <1>k, <1>1, FinishOps
<1>4. rows[r].revision = 0
  <2>1. rows[r].revision \in Nat
    BY <1>t, <1>i DEF TypeOK, RowRecord
  <2> QED
    BY <1>k, <1>2, <2>1 DEF OperationInv, PublishedByOperation
<1>5. [i \in Ids |-> [listed |-> rows'[i].listed, revision |-> rows'[i].revision]]
      = [[i \in Ids |-> [listed |-> rows[i].listed, revision |-> rows[i].revision]]
         EXCEPT ![r] = [listed |-> TRUE, revision |-> 1]]
  BY <1>t, <1>i, <1>1 DEF TypeOK
<1>6. ops[k].body.kind = "upload"
  BY <1>1, <1>2 DEF Uploading
<1>7. Catalog!Add(k)
  BY <1>i, <1>1, <1>2, <1>3, <1>4, <1>5, <1>6, CatalogOutcome
  DEF Catalog!Add, Catalog!Succeed
<1> QED
  BY <1>2, <1>7 DEF Catalog!Next

LEMMA CatalogRevise ==
    ASSUME OperationInv, NEW r \in Requests, SetParts(r)
    PROVE  Catalog!Next
<1> DEFINE named == Named(reqs[r].body)
<1>t. TypeOK
  BY DEF OperationInv
<1>1. /\ reqs[r].at = "apply" /\ OwnsAttempt(r)
      /\ reqs[r].body.kind = "parts" /\ Fresh(reqs[r].body)
      /\ Finish(r, "succeeded", "ok")
      /\ listVersion' = listVersion + 1
      /\ rows' = [i \in Ids |-> IF i \in named
                                THEN [rows[i] EXCEPT !.revision = @ + 1]
                                ELSE rows[i]]
  BY DEF SetParts
<1>k. PICK k \in Keys : k = reqs[r].key
  BY <1>1, OwnerAsked
<1>2. k \in Keys /\ ops[k].body = reqs[r].body /\ ops[k].state = "processing"
  BY <1>1, <1>k, OwnerAsked
<1>3. /\ ops'[k].state = "succeeded"
      /\ \A l \in Keys : ops'[l].body = ops[l].body
      /\ \A l \in Keys \ {k} : ops'[l].state = ops[l].state
  BY <1>t, <1>k, <1>1, FinishOps
<1>4. Catalog!Named(k) = named
  BY <1>2 DEF Catalog!Named, Named
<1>5. Catalog!Seen(k)
  BY <1>1, <1>2 DEF Catalog!Seen, Catalog!Named, Fresh, Named
<1>6. \A i \in Ids : /\ rows'[i].listed = rows[i].listed
                     /\ rows'[i].revision = IF i \in named THEN rows[i].revision + 1
                                                           ELSE rows[i].revision
  <2>1. \A i \in Ids : /\ [rows[i] EXCEPT !.revision = @ + 1].listed = rows[i].listed
                       /\ [rows[i] EXCEPT !.revision = @ + 1].revision
                            = rows[i].revision + 1
    BY <1>t DEF TypeOK, RowRecord
  <2> HIDE DEF named
  <2> QED
    BY <1>1, <2>1
<1> HIDE DEF named
<1>7. [i \in Ids |-> [listed |-> rows'[i].listed, revision |-> rows'[i].revision]]
      = [i \in Ids |->
           IF i \in Catalog!Named(k)
           THEN [[j \in Ids |-> [listed |-> rows[j].listed,
                                 revision |-> rows[j].revision]][i]
                 EXCEPT !.revision = @ + 1]
           ELSE [j \in Ids |-> [listed |-> rows[j].listed,
                                revision |-> rows[j].revision]][i]]
  BY <1>4, <1>6
<1>8. ops[k].body.kind = "parts"
  BY <1>1, <1>2
<1>9. Catalog!Revise(k)
  BY <1>1, <1>2, <1>3, <1>5, <1>7, <1>8, CatalogOutcome
  DEF Catalog!Revise, Catalog!Succeed
<1> QED
  BY <1>2, <1>9 DEF Catalog!Next

LEMMA CatalogRemove ==
    ASSUME OperationInv, NEW r \in Requests, Delete(r)
    PROVE  Catalog!Next
<1> DEFINE gone == Named(reqs[r].body)
<1>t. TypeOK
  BY DEF OperationInv
<1>1. /\ reqs[r].at = "apply" /\ OwnsAttempt(r)
      /\ reqs[r].body.kind = "delete" /\ Fresh(reqs[r].body)
      /\ Finish(r, "succeeded", "ok")
      /\ listVersion' = listVersion + 1
      /\ rows' = [i \in Ids |-> IF i \in gone
                                THEN [rows[i] EXCEPT !.listed = FALSE,
                                                     !.file = FileOf(i, i)]
                                ELSE rows[i]]
  BY Zenon DEF Delete
<1>k. PICK k \in Keys : k = reqs[r].key
  BY <1>1, OwnerAsked
<1>2. k \in Keys /\ ops[k].body = reqs[r].body /\ ops[k].state = "processing"
  BY <1>1, <1>k, OwnerAsked
<1>3. /\ ops'[k].state = "succeeded"
      /\ \A l \in Keys : ops'[l].body = ops[l].body
      /\ \A l \in Keys \ {k} : ops'[l].state = ops[l].state
  BY <1>t, <1>k, <1>1, FinishOps
<1>4. Catalog!Named(k) = gone
  BY <1>2 DEF Catalog!Named, Named
<1>5. Catalog!Seen(k)
  BY <1>1, <1>2 DEF Catalog!Seen, Catalog!Named, Fresh, Named
<1>6. \A i \in Ids : /\ rows'[i].listed = IF i \in gone THEN FALSE ELSE rows[i].listed
                     /\ rows'[i].revision = rows[i].revision
  <2>1. \A i \in Ids : \A f :
          /\ [rows[i] EXCEPT !.listed = FALSE, !.file = f].listed = FALSE
          /\ [rows[i] EXCEPT !.listed = FALSE, !.file = f].revision = rows[i].revision
    BY <1>t DEF TypeOK, RowRecord
  <2> HIDE DEF gone
  <2> QED
    BY <1>1, <2>1
<1> HIDE DEF gone
<1>7. [i \in Ids |-> [listed |-> rows'[i].listed, revision |-> rows'[i].revision]]
      = [i \in Ids |->
           IF i \in Catalog!Named(k)
           THEN [[j \in Ids |-> [listed |-> rows[j].listed,
                                 revision |-> rows[j].revision]][i]
                 EXCEPT !.listed = FALSE]
           ELSE [j \in Ids |-> [listed |-> rows[j].listed,
                                revision |-> rows[j].revision]][i]]
  BY <1>4, <1>6
<1>8. ops[k].body.kind = "delete"
  BY <1>1, <1>2
<1>9. Catalog!Remove(k)
  BY <1>1, <1>2, <1>3, <1>5, <1>7, <1>8, CatalogOutcome
  DEF Catalog!Remove, Catalog!Succeed
<1> QED
  BY <1>2, <1>9 DEF Catalog!Next

LEMMA CatalogNext ==
    OperationInv /\ Uploading /\ [Next]_vars => [Catalog!Next]_(Catalog!vars)
<1> SUFFICES ASSUME OperationInv, Uploading, [Next]_vars
             PROVE  [Catalog!Next]_(Catalog!vars)
  OBVIOUS
<1>t. TypeOK
  BY DEF OperationInv
<1>k. ASSUME NEW r \in Requests, Publish(r) \/ SetParts(r) \/ Delete(r)
      PROVE  Catalog!Next
  BY <1>k, CatalogPublish, CatalogRevise, CatalogRemove
<1>1. ASSUME NEW r \in Requests, RequestStep(r),
             ~ (Publish(r) \/ SetParts(r) \/ Delete(r))
      PROVE  [Catalog!Next]_(Catalog!vars)
  <2>1. ASSUME NEW k \in Keys, Send(r, k) PROVE [Catalog!Next]_(Catalog!vars)
    <3>1. ops[k].body \in Bodies
      BY <1>t DEF TypeOK, OperationRecord
    <3>2. ASSUME NEW body \in Bodies, Reserve(r, k, body)
          PROVE  [Catalog!Next]_(Catalog!vars)
      BY <1>t, <3>2, CatalogReserve
    <3> QED
      BY <1>t, <2>1, <3>1, <3>2, UploadBodyType, ChangeType DEF Send
  <2>2. CASE RejectUpload(r) \/ RejectItems(r)
    BY <2>2, CatalogReject
  <2>3. CASE \/ LoseAttempt(r) \/ Stage(r) \/ Upload(r) \/ Fail(r) \/ ReadBack(r)
             \/ Recover(r) \/ Crash(r)
    <3>1. UNCHANGED <<ops, rows, listVersion>>
      BY <2>3 DEF LoseAttempt, Stage, Upload, Fail, ReadBack, Recover, Crash
    <3> QED
      BY <3>1, CatalogStutter
  <2>4. CASE Release(r)
    <3>1. \A k \in Keys : ops'[k].state = ops[k].state /\ ops'[k].body = ops[k].body
      BY <1>t, <2>4 DEF Release, TypeOK, OperationRecord
    <3>2. UNCHANGED <<rows, listVersion>>
      BY <2>4 DEF Release
    <3> QED
      BY <3>1, <3>2, CatalogStutter
  <2> QED
    BY <1>1, <2>1, <2>2, <2>3, <2>4 DEF RequestStep
<1>2. ASSUME ~ \E r \in Requests : RequestStep(r)
      PROVE  UNCHANGED Catalog!vars
  <2>1. \A k \in Keys : ops'[k].state = ops[k].state /\ ops'[k].body = ops[k].body
    <3>1. CASE UNCHANGED ops
      BY <3>1
    <3>2. CASE Tick
      BY <1>t, <3>2 DEF Tick, TypeOK, OperationRecord
    <3>3. ASSUME NEW c \in Cleaners, CleanerStep(c) PROVE UNCHANGED ops
      BY <3>3 DEF CleanerStep, CleanMark, CleanDelete, CleanDeleteFails, CleanRecord,
         CleanCrash
    <3>4. ASSUME NEW j \in Jobs, JobStep(j) PROVE UNCHANGED ops
      BY <3>4 DEF JobStep, JobRead, JobCreate, JobClaim, JobEnd
    <3> QED
      BY <1>2, <3>1, <3>2, <3>3, <3>4 DEF Next, CleanLeases, vars
  <2>2. /\ UNCHANGED listVersion
        /\ \A i \in Ids : /\ rows'[i].listed = rows[i].listed
                          /\ rows'[i].revision = rows[i].revision
    BY <1>t, <1>2, ListedChange DEF RequestStep
  <2> QED
    BY <2>1, <2>2, CatalogStutter
<1> QED
  BY <1>k, <1>1, <1>2

\* Whatever attempts, resends, takeovers, failures and the cleanup do, each
\* operation acts once, atomically, and only on rows that are as its user saw
\* them.
THEOREM LibraryImplementsCatalog == Spec => ImplementsCatalog
<1>1. OperationInv /\ Uploading /\ [Next]_vars => Uploading'
  BY UploadingNext DEF OperationInv
<1>2. Spec => [](OperationInv /\ Uploading)
  BY <1>1, OperationInit, OperationNext, UploadingInit, PTL DEF Spec
<1> QED
  BY <1>2, CatalogInit, CatalogNext, PTL DEF Spec, ImplementsCatalog, Catalog!Spec
=============================================================================
