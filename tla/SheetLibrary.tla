----------------------------- MODULE SheetLibrary -----------------------------
(***************************************************************************)
(* The sheet-music library: src/backend/services/sheet_library_service.py, *)
(* sheet_cleanup_service.py and repositories/sheet_repository.py.          *)
(*                                                                         *)
(* A request reserves an operation (a key chosen by the client), applies   *)
(* it in database transactions fenced by the attempt that owns the         *)
(* operation, and stores the result under the key.  A PDF is uploaded to   *)
(* object storage between two transactions.  A cleaner removes objects     *)
(* that no row refers to.  Requests and cleaners stop anywhere.            *)
(*                                                                         *)
(* One action is one database transaction, or one storage call.  A request *)
(* is one HTTP request, so it is also one attempt; the row and the file    *)
(* record that an upload creates carry the identity of its request; a file *)
(* record that ensure_file creates carries the identity of the row it was  *)
(* created for, or of the ZIP job that created it.  Deadlines are          *)
(* countdowns: the time left until the database clock reaches the stored   *)
(* instant; Tick lets one unit pass for all of them.                       *)
(*                                                                         *)
(* Of a ZIP job this module keeps what concerns the cleanup: which file it *)
(* reads and its lease.  A job of several files is several jobs here.      *)
(***************************************************************************)
EXTENDS Integers, FiniteSets

CONSTANTS
    Requests,        \* HTTP requests; each is an attempt of some operation
    Keys,            \* operations: (actor, Idempotency-Key)
    Legacy,          \* rows written before the migration to file records
    Shared,          \* their objects: several rows may share one
    Jobs,            \* ZIP jobs, each reading one file
    Cleaners,        \* runs of the cleanup script
    OperationLease,  \* OPERATION_LEASE
    StagedGrace,     \* STAGED_GRACE
    RetiredGrace,    \* RETIRED_GRACE
    FileLease,       \* FILE_LEASE of a ZIP job
    None

ASSUME IdsAssumption ==
    /\ Requests \cap (Legacy \cup Shared \cup Jobs) = {}
    /\ Legacy \cap (Shared \cup Jobs) = {}
    /\ None \notin Requests \cup Keys \cup Legacy \cup Shared \cup Jobs

ASSUME TimesAssumption ==
    /\ OperationLease \in Nat \ {0}
    /\ StagedGrace \in Nat \ {0}
    /\ RetiredGrace \in Nat \ {0}
    /\ FileLease \in Nat \ {0}

VARIABLES
    reqs,         \* the requests
    ops,          \* sheet_operations
    rows,         \* sheet_library
    files,        \* sheet_files
    objs,         \* the objects in the bucket
    jobs,         \* sheet_zip_jobs with their sheet_file_leases; "lapsed" is
                  \* history: the lease ran out at some time
    cleaners,     \* the cleanup runs
    listVersion   \* sheet_library_state.list_version

vars == <<reqs, ops, rows, files, objs, jobs, cleaners, listVersion>>

Ids == Requests \cup Legacy
FileIds == Ids \cup Jobs
Objects == Requests \cup Shared

\* What a client asks for: an upload, or a change of named rows, each with
\* the revision the user saw (0: the row is not named).
Bodies == [kind : {"upload", "parts", "delete"}, items : [Ids -> Nat]]
Named(body) == {i \in Ids : body.items[i] > 0}

FileStates == {"none", "staged", "active", "retired", "delete_pending", "deleted"}
Replies == {"none", "ok", "rejected", "processing", "conflict", "retry"}
Stages == {"new", "apply", "upload", "publish", "resent", "readback",
           "recover", "release", "done"}

\* op: the attempt of the operation that reserve returned; None as long as it
\* has not, and for good when it raised.
RequestRecord == [at : Stages, key : Keys \cup {None}, body : Bodies,
                  op : Requests \cup {None}, reply : Replies]
OperationRecord == [state : {"none", "processing", "succeeded", "rejected"},
                    attempt : Requests \cup {None}, body : Bodies, lease : Nat]
RowRecord == [listed : BOOLEAN, revision : Nat, file : FileIds \cup {None},
              object : Objects \cup {None}]
FileRecord == [state : FileStates, key : Keys \cup {None},
               object : Objects \cup {None}, grace : Nat]
JobRecord == [at : {"new", "creating", "building", "ended"},
              row : Ids \cup {None}, file : FileIds \cup {None},
              object : Objects \cup {None},
              leased : BOOLEAN, left : Nat, lapsed : BOOLEAN]
CleanerRecord == [at : {"idle", "delete", "record"},
                  file : FileIds \cup {None}, failed : BOOLEAN]

TypeOK ==
    /\ reqs \in [Requests -> RequestRecord]
    /\ ops \in [Keys -> OperationRecord]
    /\ rows \in [Ids -> RowRecord]
    /\ files \in [FileIds -> FileRecord]
    /\ objs \subseteq Objects
    /\ jobs \in [Jobs -> JobRecord]
    /\ cleaners \in [Cleaners -> CleanerRecord]
    /\ listVersion \in Nat

UploadBody == [kind |-> "upload", items |-> [i \in Ids |-> 0]]
NoFile == [state |-> "none", key |-> None, object |-> None, grace |-> 0]
NoRow == [listed |-> FALSE, revision |-> 0, file |-> None, object |-> None]
ActiveFile(object) ==
    [state |-> "active", key |-> None, object |-> object, grace |-> 0]
NoJob == [at |-> "new", row |-> None, file |-> None, object |-> None,
          leased |-> FALSE, left |-> 0, lapsed |-> FALSE]

Init ==
    /\ reqs = [r \in Requests |-> [at |-> "new", key |-> None,
                                   body |-> UploadBody, op |-> None,
                                   reply |-> "none"]]
    /\ ops = [k \in Keys |-> [state |-> "none", attempt |-> None,
                              body |-> UploadBody, lease |-> 0]]
    \* The migration gave every row a file identity and a record of the file; a
    \* row written by an older version after a rollback has neither, a row copied
    \* from production has no record.
    /\ \E home \in [Legacy -> Shared], migrated, recorded \in SUBSET Legacy :
         /\ recorded \subseteq migrated
         /\ objs = {home[i] : i \in Legacy}
         /\ rows = [i \in Ids |->
                      IF i \in Legacy
                      THEN [listed |-> TRUE, revision |-> 1, object |-> home[i],
                            file |-> IF i \in migrated THEN i ELSE None]
                      ELSE NoRow]
         /\ files = [f \in FileIds |-> IF f \in recorded THEN ActiveFile(home[f])
                                                        ELSE NoFile]
    /\ jobs = [j \in Jobs |-> NoJob]
    /\ cleaners = [c \in Cleaners |-> [at |-> "idle", file |-> None,
                                       failed |-> FALSE]]
    /\ listVersion = 0

-----------------------------------------------------------------------------
(* Requests *)

MoveTo(r, at) == reqs' = [reqs EXCEPT ![r].at = at]
ReplyWith(r, reply) ==
    reqs' = [reqs EXCEPT ![r].at = "done", ![r].reply = reply]

\* A working request fails before its transaction commits, or learns nothing
\* of a commit; a resent one cannot read the result: either way it goes on in
\* the last except clause of _run.
Working == {"apply", "upload", "publish", "resent"}

\* reserve: a new operation, a takeover of an expired attempt, a resend, or
\* another body under the same key.  Whatever the key is, the call may raise,
\* before it commits or with the answer of the commit lost: the handler then
\* has no op.
Reserve(r, k, body) ==
    /\ reqs[r].at = "new"
    /\ LET op == ops[k]
           claimable == \/ op.state = "none"
                        \/ /\ op.state = "processing"
                           /\ op.body = body
                           /\ op.lease = 0
           Go(at, attempt, reply) ==
               reqs' = [reqs EXCEPT ![r] = [at |-> at, key |-> k, body |-> body,
                                            op |-> attempt, reply |-> reply]]
           Raise == Go("recover", None, "none")
       IN  \/ /\ claimable
              /\ ops' = [ops EXCEPT ![k] = [state |-> "processing", attempt |-> r,
                                            body |-> body,
                                            lease |-> OperationLease]]
              /\ Go("apply", r, "none") \/ Raise
           \/ /\ ~ claimable
              /\ IF op.body = body THEN Go("resent", op.attempt, "none")
                                   ELSE Go("done", op.attempt, "conflict")
              /\ UNCHANGED ops
           \/ Raise /\ UNCHANGED ops
    /\ UNCHANGED <<rows, files, objs, jobs, cleaners, listVersion>>

\* Mutant of OwnsAttempt: an attempt that was taken over goes on.
OwnsOperation(r) ==
    LET op == ops[reqs[r].key]
    IN  op.state = "processing" /\ op.lease > 0

\* require_attempt: the operation is still this request's, with a live lease.
OwnsAttempt(r) ==
    LET op == ops[reqs[r].key]
    IN  op.state = "processing" /\ op.attempt = r /\ op.lease > 0

\* finish, in the transaction that applies the operation: the answer of its
\* commit arrives, or it is lost.
Finish(r, result, reply) ==
    /\ ops' = [ops EXCEPT ![reqs[r].key].state = result]
    /\ ReplyWith(r, reply) \/ MoveTo(r, "recover")

\* LostAttempt: the operation is no longer this request's, or the staged file
\* was cleaned up meanwhile.  The transaction changes nothing.
LoseAttempt(r) ==
    /\ \/ reqs[r].at \in {"apply", "publish"} /\ ~ OwnsAttempt(r)
       \/ reqs[r].at = "publish" /\ files[r].state # "staged"
    /\ MoveTo(r, "readback")
    /\ UNCHANGED <<ops, rows, files, objs, jobs, cleaners, listVersion>>

\* upload, first transaction: the concert does not exist.
RejectUpload(r) ==
    /\ reqs[r].at = "apply" /\ reqs[r].body.kind = "upload"
    /\ OwnsAttempt(r)
    /\ Finish(r, "rejected", "rejected")
    /\ UNCHANGED <<rows, files, objs, jobs, cleaners, listVersion>>

\* upload, first transaction: the file is recorded before it is stored.
Stage(r) ==
    /\ reqs[r].at = "apply" /\ reqs[r].body.kind = "upload"
    /\ OwnsAttempt(r)
    /\ files' = [files EXCEPT ![r] = [state |-> "staged", key |-> reqs[r].key,
                                      object |-> r, grace |-> StagedGrace]]
    /\ MoveTo(r, "upload") \/ MoveTo(r, "recover")
    /\ UNCHANGED <<ops, rows, objs, jobs, cleaners, listVersion>>

\* storage.upload_new: create-only.  The call and its retries end within
\* minutes, long before the 24 hours a staged file is kept.  A failed call
\* may have stored the object all the same.
Upload(r) ==
    /\ reqs[r].at = "upload"
    /\ files[r].grace > 0
    /\ objs' = objs \cup {r}
    /\ MoveTo(r, "publish") \/ MoveTo(r, "recover")
    /\ UNCHANGED <<ops, rows, files, jobs, cleaners, listVersion>>

\* upload, second transaction: the row, the file and the result together.
Publish(r) ==
    /\ reqs[r].at = "publish"
    /\ OwnsAttempt(r)
    /\ files[r].state = "staged"
    /\ rows' = [rows EXCEPT ![r] = [listed |-> TRUE, revision |-> 1,
                                    file |-> r, object |-> r]]
    /\ files' = [files EXCEPT ![r].state = "active"]
    /\ listVersion' = listVersion + 1
    /\ Finish(r, "succeeded", "ok")
    /\ UNCHANGED <<objs, jobs, cleaners>>

\* Mutant of Fresh: the revision is not compared.
Exists(body) == \A i \in Named(body) : rows[i].listed

\* _check: every named row exists with the revision the user saw.
Fresh(body) ==
    \A i \in Named(body) : rows[i].listed /\ rows[i].revision = body.items[i]

RejectItems(r) ==
    /\ reqs[r].at = "apply" /\ reqs[r].body.kind # "upload"
    /\ OwnsAttempt(r)
    /\ ~ Fresh(reqs[r].body)
    /\ Finish(r, "rejected", "rejected")
    /\ UNCHANGED <<rows, files, objs, jobs, cleaners, listVersion>>

\* Mutant of SetParts: no bump_version.
SetPartsSilently(r) ==
    /\ reqs[r].at = "apply" /\ reqs[r].body.kind = "parts"
    /\ OwnsAttempt(r)
    /\ Fresh(reqs[r].body)
    /\ rows' = [i \in Ids |-> IF i \in Named(reqs[r].body)
                              THEN [rows[i] EXCEPT !.revision = @ + 1]
                              ELSE rows[i]]
    /\ Finish(r, "succeeded", "ok")
    /\ UNCHANGED <<files, objs, jobs, cleaners, listVersion>>

\* set_parts: all named rows move to the next revision.
SetParts(r) ==
    /\ reqs[r].at = "apply" /\ reqs[r].body.kind = "parts"
    /\ OwnsAttempt(r)
    /\ Fresh(reqs[r].body)
    /\ rows' = [i \in Ids |-> IF i \in Named(reqs[r].body)
                              THEN [rows[i] EXCEPT !.revision = @ + 1]
                              ELSE rows[i]]
    /\ listVersion' = listVersion + 1
    /\ Finish(r, "succeeded", "ok")
    /\ UNCHANGED <<files, objs, jobs, cleaners>>

\* ensure_file, for a row that has no file identity: f is the new one.
FileOf(i, f) == IF rows[i].file = None THEN f ELSE rows[i].file

\* Mutant of Ensured: a missing record stays missing.
EnsuredNever(g, object) == files[g]

Ensured(g, object) == IF files[g].state = "none" THEN ActiveFile(object) ELSE files[g]

\* retire_file
RetiredFile(file) ==
    IF file.state \in {"active", "staged"}
    THEN [file EXCEPT !.state = "retired", !.grace = RetiredGrace]
    ELSE file

\* delete: the rows go, their files are retired; the objects stay.
Delete(r) ==
    /\ reqs[r].at = "apply" /\ reqs[r].body.kind = "delete"
    /\ OwnsAttempt(r)
    /\ Fresh(reqs[r].body)
    /\ LET gone == Named(reqs[r].body)
       IN  /\ rows' = [i \in Ids |-> IF i \in gone
                                     THEN [rows[i] EXCEPT !.listed = FALSE,
                                                          !.file = FileOf(i, i)]
                                     ELSE rows[i]]
           /\ files' = [g \in FileIds |->
                          IF \E i \in gone : g = FileOf(i, i)
                          THEN LET i == CHOOSE i \in gone : g = FileOf(i, i)
                               IN  RetiredFile(Ensured(g, rows[i].object))
                          ELSE files[g]]
    /\ listVersion' = listVersion + 1
    /\ Finish(r, "succeeded", "ok")
    /\ UNCHANGED <<objs, jobs, cleaners>>

\* The database or the storage fails and nothing was changed.
Fail(r) ==
    /\ reqs[r].at \in Working
    /\ MoveTo(r, "recover")
    /\ UNCHANGED <<ops, rows, files, objs, jobs, cleaners, listVersion>>

\* Mutant of Stored: whatever is finished counts as done.
StoredDone(r) ==
    IF ops[reqs[r].key].state \in {"succeeded", "rejected"} THEN "ok" ELSE "processing"

\* stored_result: the durable result of the key, whoever stored it.
Stored(r) ==
    CASE ops[reqs[r].key].state = "succeeded" -> "ok"
      [] ops[reqs[r].key].state = "rejected"  -> "rejected"
      [] OTHER -> "processing"

\* Of a resend, and after LostAttempt.
ReadBack(r) ==
    /\ reqs[r].at \in {"resent", "readback"}
    /\ ReplyWith(r, Stored(r))
    /\ UNCHANGED <<ops, rows, files, objs, jobs, cleaners, listVersion>>

\* The last except clause of _run: the stored result of the key, or, when there
\* is none, an answer that asks for the same key again, once the operation, if
\* reserve returned one, is given back.  The database may be away for both.
Recover(r) ==
    /\ reqs[r].at = "recover"
    /\ \/ Stored(r) # "processing" /\ ReplyWith(r, Stored(r))
       \/ Stored(r) = "processing" /\ reqs[r].op # None /\ MoveTo(r, "release")
       \/ ReplyWith(r, "retry")
    /\ UNCHANGED <<ops, rows, files, objs, jobs, cleaners, listVersion>>

\* release: the attempt that op names ends, which for a resend is not its own.
Release(r) ==
    /\ reqs[r].at = "release"
    /\ LET k == reqs[r].key
       IN  IF ops[k].state = "processing" /\ ops[k].attempt = reqs[r].op
           THEN ops' = [ops EXCEPT ![k].lease = 0]
           ELSE UNCHANGED ops
    /\ ReplyWith(r, "retry")
    /\ UNCHANGED <<rows, files, objs, jobs, cleaners, listVersion>>

\* The server stops; the client sees no answer.
Crash(r) ==
    /\ reqs[r].at \notin {"new", "done"}
    /\ MoveTo(r, "done")
    /\ UNCHANGED <<ops, rows, files, objs, jobs, cleaners, listVersion>>

-----------------------------------------------------------------------------
(* The cleanup script *)

Referenced(object) == \E i \in Ids : rows[i].listed /\ rows[i].object = object

OperationLive(k) == k # None /\ ops[k].state = "processing" /\ ops[k].lease > 0

\* Mutants of Eligible: another row of the same object is not looked for, or the
\* leases of ZIP jobs are not.
EligibleShared(f) ==
    /\ ~ \E j \in Jobs : jobs[j].file = f /\ jobs[j].leased /\ jobs[j].left > 0
    /\ files[f].state = "retired" => files[f].grace = 0
    /\ files[f].state = "staged" => files[f].grace = 0 /\ ~ OperationLive(files[f].key)

EligibleLeased(f) ==
    /\ ~ Referenced(files[f].object)
    /\ files[f].state = "retired" => files[f].grace = 0
    /\ files[f].state = "staged" => files[f].grace = 0 /\ ~ OperationLive(files[f].key)

\* _eligible, under the lock of the file record.
Eligible(f) ==
    /\ ~ \E j \in Jobs : jobs[j].file = f /\ jobs[j].leased /\ jobs[j].left > 0
    /\ ~ Referenced(files[f].object)
    /\ files[f].state = "retired" => files[f].grace = 0
    /\ files[f].state = "staged" => /\ files[f].grace = 0
                                    /\ ~ OperationLive(files[f].key)

CleanMark(c, f) ==
    /\ cleaners[c].at = "idle"
    /\ files[f].state \in {"staged", "retired", "delete_pending"}
    /\ Eligible(f)
    /\ files' = [files EXCEPT ![f].state = "delete_pending"]
    /\ cleaners' = [cleaners EXCEPT ![c] = [at |-> "delete", file |-> f,
                                            failed |-> FALSE]]
    /\ UNCHANGED <<reqs, ops, rows, objs, jobs, listVersion>>

\* storage.delete_object; a missing object is a success.
CleanDelete(c) ==
    /\ cleaners[c].at = "delete"
    /\ objs' = objs \ {files[cleaners[c].file].object}
    /\ cleaners' = [cleaners EXCEPT ![c].at = "record"]
    /\ UNCHANGED <<reqs, ops, rows, files, jobs, listVersion>>

CleanDeleteFails(c) ==
    /\ cleaners[c].at = "delete"
    /\ cleaners' = [cleaners EXCEPT ![c].at = "record", ![c].failed = TRUE]
    /\ UNCHANGED <<reqs, ops, rows, files, objs, jobs, listVersion>>

\* Mutant of CleanRecord: a failed call of the storage counts as a deletion.
CleanRecordAlways(c) ==
    /\ cleaners[c].at = "record"
    /\ files' = [files EXCEPT ![cleaners[c].file].state =
                   IF @ = "delete_pending" THEN "deleted" ELSE @]
    /\ cleaners' = [cleaners EXCEPT ![c].at = "idle"]
    /\ UNCHANGED <<reqs, ops, rows, objs, jobs, listVersion>>

CleanRecord(c) ==
    /\ cleaners[c].at = "record"
    /\ LET f == cleaners[c].file
       IN  IF files[f].state = "delete_pending" /\ ~ cleaners[c].failed
           THEN files' = [files EXCEPT ![f].state = "deleted"]
           ELSE UNCHANGED files
    /\ cleaners' = [cleaners EXCEPT ![c].at = "idle"]
    /\ UNCHANGED <<reqs, ops, rows, objs, jobs, listVersion>>

CleanCrash(c) ==
    /\ cleaners[c].at # "idle"
    /\ cleaners' = [cleaners EXCEPT ![c].at = "idle"]
    /\ UNCHANGED <<reqs, ops, rows, files, objs, jobs, listVersion>>

-----------------------------------------------------------------------------
(* ZIP jobs and the leases on the files they read *)

\* create reads the rows it will pack, without a lock ...
JobRead(j, i) ==
    /\ jobs[j].at = "new"
    /\ rows[i].listed
    /\ jobs' = [jobs EXCEPT ![j].at = "creating", ![j].row = i,
                            ![j].file = FileOf(i, j), ![j].object = rows[i].object]
    /\ UNCHANGED <<reqs, ops, rows, files, objs, cleaners, listVersion>>

\* ... and in the rest of its transaction makes sure that each has a file
\* (UPDATE ... WHERE file_id IS NULL) and takes the lease.
JobCreate(j) ==
    /\ jobs[j].at = "creating"
    /\ LET i == jobs[j].row
           f == jobs[j].file
       IN  /\ rows' = IF f = j /\ rows[i].listed
                      THEN [rows EXCEPT ![i].file = FileOf(i, j)]
                      ELSE rows
           /\ files' = [files EXCEPT ![f] = Ensured(f, jobs[j].object)]
    /\ jobs' = [jobs EXCEPT ![j].at = "building", ![j].leased = TRUE,
                            ![j].left = FileLease]
    /\ UNCHANGED <<reqs, ops, objs, cleaners, listVersion>>

\* _claim, when a step of the job begins: it renews the leases that exist.
JobClaim(j) ==
    /\ jobs[j].at = "building"
    /\ jobs' = IF jobs[j].leased THEN [jobs EXCEPT ![j].left = FileLease] ELSE jobs
    /\ UNCHANGED <<reqs, ops, rows, files, objs, cleaners, listVersion>>

\* The job is ready, failed, incomplete, cancelled or abandoned.
JobEnd(j) ==
    /\ jobs[j].at = "building"
    /\ jobs' = [jobs EXCEPT ![j].at = "ended", ![j].leased = FALSE, ![j].left = 0]
    /\ UNCHANGED <<reqs, ops, rows, files, objs, cleaners, listVersion>>

\* cleanup_records: leases whose time is over are deleted.
CleanLeases ==
    /\ \E j \in Jobs : jobs[j].leased /\ jobs[j].left = 0
    /\ jobs' = [j \in Jobs |-> IF jobs[j].leased /\ jobs[j].left = 0
                               THEN [jobs[j] EXCEPT !.leased = FALSE]
                               ELSE jobs[j]]
    /\ UNCHANGED <<reqs, ops, rows, files, objs, cleaners, listVersion>>

-----------------------------------------------------------------------------

Less(n) == IF n = 0 THEN 0 ELSE n - 1

\* A transaction of create is short: no unit of time passes inside it.
Tick ==
    /\ \A j \in Jobs : jobs[j].at # "creating"
    /\ ops' = [k \in Keys |-> [ops[k] EXCEPT !.lease = Less(@)]]
    /\ files' = [f \in FileIds |-> [files[f] EXCEPT !.grace = Less(@)]]
    /\ jobs' = [j \in Jobs |-> [jobs[j] EXCEPT !.left = Less(@),
                                    !.lapsed = @ \/ (jobs[j].leased /\ jobs[j].left <= 1)]]
    /\ UNCHANGED <<reqs, rows, objs, cleaners, listVersion>>

\* A change of the rows a user saw in some list; of the stale ones, in the list
\* before the latest change.
Change(kind, seen, stale) ==
    [kind  |-> kind,
     items |-> [i \in Ids |-> IF i \in stale THEN rows[i].revision - 1
                             ELSE IF i \in seen THEN rows[i].revision
                             ELSE 0]]

\* Under a key a client sends what it sent before, or something new.
Send(r, k) ==
    \/ Reserve(r, k, ops[k].body)
    \/ Reserve(r, k, UploadBody)
    \/ \E kind \in {"parts", "delete"},
          seen \in SUBSET {i \in Ids : rows[i].revision > 0},
          stale \in SUBSET {i \in Ids : rows[i].revision > 1} :
         /\ seen \cup stale # {}
         /\ Reserve(r, k, Change(kind, seen, stale))

RequestStep(r) ==
    \/ \E k \in Keys : Send(r, k)
    \/ LoseAttempt(r) \/ RejectUpload(r) \/ Stage(r) \/ Upload(r) \/ Publish(r)
    \/ RejectItems(r) \/ SetParts(r) \/ Delete(r) \/ Fail(r)
    \/ ReadBack(r) \/ Recover(r) \/ Release(r) \/ Crash(r)

CleanerStep(c) ==
    \/ \E f \in FileIds : CleanMark(c, f)
    \/ CleanDelete(c) \/ CleanDeleteFails(c) \/ CleanRecord(c) \/ CleanCrash(c)

JobStep(j) ==
    \/ \E i \in Ids : JobRead(j, i)
    \/ JobCreate(j) \/ JobClaim(j) \/ JobEnd(j)

Next ==
    \/ \E r \in Requests : RequestStep(r)
    \/ \E c \in Cleaners : CleanerStep(c)
    \/ \E j \in Jobs : JobStep(j)
    \/ CleanLeases
    \/ Tick

Spec == Init /\ [][Next]_vars

\* Time passes, transactions end, jobs end (a step always progresses, and one
\* without steps is abandoned).  The cleanup script takes the files in turn and
\* its calls to the storage do not fail for ever.
Fairness ==
    /\ WF_vars(Tick)
    /\ \A j \in Jobs : WF_vars(JobCreate(j)) /\ WF_vars(JobEnd(j))
    /\ \A f \in FileIds :
         /\ SF_vars(\E c \in Cleaners : CleanMark(c, f))
         /\ SF_vars(\E c \in Cleaners : cleaners[c].file = f /\ CleanDelete(c))
    /\ \A c \in Cleaners : WF_vars(CleanRecord(c))

FairSpec == Spec /\ Fairness

-----------------------------------------------------------------------------
(* Properties *)

\* Whatever stops, expires, is taken over or is cleaned up, the PDF of every row
\* in the list is in the storage (upload's order, _eligible, retire_file).
RowsBacked ==
    \A i \in Ids : rows[i].listed => rows[i].object \in objs

\* However often an upload is sent again, taken over by another attempt or
\* answered "retry", it makes one row, and exactly when its operation succeeds
\* (reserve, require_attempt, finish).
PublishedOnce ==
    \A k \in Keys : ops[k].body = UploadBody =>
        {r \in Requests : reqs[r].key = k /\ rows[r].revision > 0}
            = IF ops[k].state = "succeeded" THEN {ops[k].attempt} ELSE {}

\* A client that is told an outcome is told the one durably stored under its
\* key, and that of its very change whenever reserve answered, also when another
\* attempt did the work (stored_result).  If reserve raised, nobody compared the
\* change with the one the key stands for: the outcome may be that one's.
ReplyTruthful ==
    \A r \in Requests : reqs[r].reply \in {"ok", "rejected"} =>
        LET op == ops[reqs[r].key]
        IN  /\ op.state = IF reqs[r].reply = "ok" THEN "succeeded" ELSE "rejected"
            /\ reqs[r].op # None => op.body = reqs[r].body

\* No object is forgotten: one that no row refers to has a file record that the
\* cleanup looks at (staged before the upload, retired with the row).
NoOrphan ==
    \A o \in objs : \/ Referenced(o)
                    \/ \E f \in FileIds :
                         /\ files[f].object = o
                         /\ files[f].state \in {"staged", "retired", "delete_pending"}

\* A ZIP job whose lease never ran out finds its file, although the row may be
\* deleted and retired meanwhile, if no second file record names the object.
LeaseProtects ==
    \A j \in Jobs :
        /\ jobs[j].leased /\ ~ jobs[j].lapsed
        /\ \A f \in FileIds \ {jobs[j].file} : files[f].object # jobs[j].object
        => jobs[j].object \in objs

\* "Every committed change of sheet_library raises the organization's
\* list_version in the same transaction": here, of what the list shows of a row
\* apart from its file identity.
VersionCoversList ==
    [][(\E i \in Ids : \/ rows'[i].listed # rows[i].listed
                       \/ rows'[i].revision # rows[i].revision)
         => listVersion' > listVersion]_vars

\* An object that lost its last row, or never got one, is removed in the end.
Reclaimed ==
    \A o \in Objects : (o \in objs /\ ~ Referenced(o)) ~> (o \notin objs \/ Referenced(o))

\* The library keeps the promises of SheetCatalog: whatever attempts, resends,
\* takeovers and the cleanup do, each operation acts once, atomically, and only
\* on rows that are as its user saw them.
Catalog == INSTANCE SheetCatalog WITH
    Rows    <- Ids,
    asked   <- [k \in Keys |-> ops[k].body],
    outcome <- [k \in Keys |-> CASE ops[k].state = "none"       -> "unknown"
                                 [] ops[k].state = "processing" -> "open"
                                 [] OTHER                       -> ops[k].state],
    list    <- [i \in Ids |-> [listed |-> rows[i].listed,
                               revision |-> rows[i].revision]],
    version <- listVersion

ImplementsCatalog == Catalog!Spec
=============================================================================
