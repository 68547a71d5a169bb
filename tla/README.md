# Verification of the orchestra portal

TLA+ models of the parts of the portal whose correctness depends on the order
of things: requests that are sent again, servers that stop, leases that run
out, cleanups that race with users.  The code is the reference; every
definition translates a piece of it, and `PROJECT.json` ("map") says which
lines.

## 1. Inventory

The portal is a FastAPI server (several instances on Cloud Run, one PostgreSQL
database, one object-storage bucket), a browser front end without a framework,
and scripts that run by hand or on a schedule.

| Component | State | Operations | What is hard | What makes it correct |
|---|---|---|---|---|
| Sheet library (`sheet_library_service`, `sheet_repository`) | `sheet_operations`, `sheet_library`, `sheet_files`, `sheet_library_state` | upload, set parts, delete; reserve / take over / release an operation | resends under one key, lost commit answers, attempts that outlive their lease, two steps around a storage call | an operation acts once and in one piece; a client is told the durable outcome; every listed row has its PDF |
| Sheet cleanup (`sheet_cleanup_service`) | `sheet_files`, the bucket | mark, delete, record; expire leases, tickets, jobs | races with uploads, deletions and ZIP jobs; failing storage; objects shared by legacy rows | nothing needed is deleted, nothing unneeded stays for ever |
| ZIP jobs (`sheet_zip_service`) | `sheet_zip_jobs`, `sheet_file_leases`, parts in the bucket | create, step (claim, build, compose, finish), cancel, abandon, expire | a step that resumes inside a file, stale attempts, composition of parts that another attempt removes | a ready ZIP is complete; committed parts exist; an ended job stays ended |
| Downloads and tickets (`sheet_download_service`) | `sheet_download_tickets` | issue, use | expiry | a ticket is checked at each use |
| Sheet screens (`scores/sync.js`, `upload_batch.js`, `events.js`) | shown list, its version, request numbers; the stored batch | open, refresh, apply an answer, sign out; send, resume | answers out of order, account switches, restarts of the page | the shown list never goes back; a resumed upload keeps its key |
| Portal files (`portal_file_asset_service`, `portal_file_repository`) | assets, their leases and references from other collections | stage, publish, replace, delete, clean up | the same as the sheet files, with references inside JSON rows | no referenced object is deleted |
| Row store (`db_item_repository`, `db_row_repository`, `db_json_repository`) | tables of JSON rows with versions | save one row, save a collection, delete | concurrent savers, stale versions, whole-collection saves | no update is lost |
| Caches and clocks (`memory_cache`, `read_context`, `collection_clock_*`, `http_cache`) | process caches, clocks in the database | fill, check, invalidate | a fill that races with a write of another server | an answer is never older than the clock it is returned with |
| Promotions | one row per promotion with a revision | reserve, apply, finish, reset | as the sheet library | as the sheet library |
| Notifications | deliveries with claims | claim, send, retry | duplicate sends, stopped senders | a notice is sent at most once per claim, and in the end |
| Sign-in, maintenance, backups | devices, sessions, one maintenance flag | sign in, fall back, enter and leave maintenance | database away, requests under way | no write during maintenance |
| Tuner and metronome data | an outbox in IndexedDB, rows on the server | record, push, pull, delete | offline, two devices, resends | each record arrives once |
| Tuner and metronome audio | audio graph, one microphone, scheduler | start, stop, switch | callbacks after a stop | one owner at a time |
| Browser transport (`api_runtime`, `transport_retry`, `cache`) | shared GET requests, stored answers | request, retry, fall back | retries of what was done, old answers as new ones | a failure is never shown as fresh data |
| Other portal pages, scripts, signal analysis | rows of their collections | create, edit, delete | validation | not modelled |

## 2. The modules

Each module stands for one component; `MC*` modules give constants and put
modules together for TLC; `*Proofs` modules hold the theorems.

| Module | Models | Run | Theorems |
|---|---|---|---|
| `SheetLibrary`, `SheetCatalog` | operations, files, leases and cleanup of the sheet library, and what they promise | SheetLibrary, SheetReclaim | `SheetLibraryProofs` |
| `SheetZip` | the steps that build one ZIP | SheetZip | `SheetZipProofs` |
| `SheetSync` | the list on one screen | SheetScreens, SheetLogout | `SheetScreensProofs` |
| `UploadBatch`, `FileOperations`, `SheetSave`, `SheetViewer` | registering several PDFs, forms with a file, the saving dialog, the viewer | SheetScreens | `SheetScreensProofs` |
| `PracticeHistory` | the practice history on the device and in the account | PracticeHistory | `PracticeHistoryProofs` |
| `AudioOutput` | one tab sounds at a time | AudioOutput | `AudioOutputProofs` |
| `Transport` | the metronome's transport and its audio thread | Transport | |
| `MetronomeScreen`, `MetronomeEdits` | play, leave and edit | Laboratory | `LaboratoryProofs` |
| `TunerScreen` | microphone, tone and contexts of the tuner | Laboratory | `LaboratoryProofs` |
| `TimingCollect`, `AnalysisScreen` | pairing of strokes and clicks, calibration and recording | Laboratory | `LaboratoryProofs`, of `AnalysisScreen` |
| `ScoreCompiler` | from a score to clicks | Laboratory | |
| `PortalRequests` | requests, response cache and sign-in of a page | PortalRequests, SignOut | `PortalRequestsProofs` |
| `ExtraLoads`, `PortalStart` | deferred collections, the start of the page | Portal | `PortalProofs` |
| `PortalScreens` | panels, tabs and their loads | Portal | `PortalProofs` |

`MCPortal`, `MCLaboratory` and `MCSheetScreens` put several components into one
run: the first step of a behaviour chooses a part, the variables of the other
parts have no value, and a property of a part says nothing of the others.  The
parts do not share state in the code either; where two components do interact
(the output of the page, the response cache, the file leases) one module holds
both sides.

Left to model, in this order: the assets of other collections (of the shape of
SheetLibrary), the row store with the collection clocks and the process caches,
promotions and notifications.  Left to prove: what section 10 lists, `Transport` first.

## 3. SheetLibrary

One module holds the operations, the files and the cleanup, because what can go
wrong goes wrong between them.

| In the model | In the code |
|---|---|
| `reqs[r]` | the handler of one HTTP request (`_run` and its `apply`); a request is also one attempt, since `reserve` draws a fresh `attempt_id` |
| `ops[k]` | the row of `sheet_operations` of an actor and a key; `lease` is the time left until `lease_until` |
| `rows[i]` | a row of `sheet_library`; a deleted row keeps its revision, so that an identity is never used again (IDs come from a sequence) |
| `files[f]` | a row of `sheet_files`; `grace` counts down from `STAGED_GRACE` or `RETIRED_GRACE` |
| `objs` | the names in the bucket |
| `jobs[j]` | a ZIP job and its row of `sheet_file_leases` |
| `cleaners[c]` | a run of `cleanup_files` between its two transactions |
| `listVersion` | `sheet_library_state.list_version` |

One action is one database transaction or one storage call.  Every transaction
that matters locks the operation (`FOR UPDATE`) or the rows it checks, so it is
atomic; the one that does not, the creation of a ZIP job, is two actions
(`JobRead`, `JobCreate`).  A commit whose answer is lost is the second
alternative of `Stage` and `Finish`; `Reserve` may raise whatever the key is, with its commit made
or not, and the handler then has no operation (`op` of the request) but still asks for the stored
result of the key (`Recover`); a resend whose own question fails gives back the operation it was
told of, which is the live attempt's (`Release`); a storage call that fails may
have stored the object (`Upload`), a failed deletion may be repeated
(`CleanDeleteFails`), and requests and cleanup runs stop anywhere (`Crash`,
`CleanCrash`).

Time is a countdown of each deadline and `Tick`, which lets one unit pass for
all.  Two steps are known to be short: a storage upload ends before the 24
hours of a staged file are over (guard of `Upload`), and no time passes inside
the transaction that creates a ZIP job (guard of `Tick`).

The initial states are those the migration leaves, those with rows that an
older version wrote after a rollback (no file identity) and those after a copy
of the production rows (no file record).

`SheetCatalog` is what all this promises: a change sent under a key takes
effect at most once, in one piece and only on rows that are as the user saw
them; its outcome is final; the number of the list grows with every change of
the list.  It knows no attempts, leases, files or time.

### Runs

All use `MCSheetLibrary`.  Deadlock is not checked: when all requests have been
answered and all deadlines have passed the system may rest.

| Run | Bounds | Shows |
|---|---|---|
| SheetLibrary | 2 requests, 2 keys, 2 legacy rows, 2 old objects, 1 job, 1 cleanup run; lease 1, graces 2 and 1, file lease 2 | `RowsBacked`, `PublishedOnce`, `ReplyTruthful`, `NoOrphan`, `LeaseProtects`, `VersionCoversList`, `ImplementsCatalog` |
| SheetReclaim | 1 request, 2 legacy rows, 1 job, 1 cleanup run, with fairness | `Reclaimed` |

SheetLibrary has three kinds of behaviours (`Bound` in `MCSheetLibrary`, an action constraint): the legacy
rows share one object, the keys may differ, at most one request is an upload and no ZIP is made; or the
requests share a key and one legacy row is left alone, with a ZIP job and at most one upload, or with
two uploads and no job.  Together 444 464 states.

Two requests under one key are a first attempt and the resend that takes it
over; a third would only repeat the second; under two keys they are two screens.  A lease of 1 is live
or over; the graces of 1 and 2 distinguish a lease that ends before, with and after them.  The
model has no other bound: requests are used once, so revisions and `listVersion`
are bounded by their number.

`RowsBacked` says that a listed row has its object; `NoOrphan` the converse, that
an object without a row has a record the cleanup will look at; `Reclaimed` that
it does.  `PublishedOnce` counts the rows that an upload made.  `ReplyTruthful` says that an outcome
told to a client is the one stored under its key, and that of its very change if `reserve` answered;
when it raised nobody compares the change with the one the key stands for, and the client may be told
the outcome of another change (against `SHEET_LIBRARY_RELIABILITY_DESIGN.md:28`, a finding).  `LeaseProtects`
is the protection that a lease does give: to a job whose lease never ran out and
whose object has no second file record.  Neither condition can be dropped: a
job may outlive its lease (against the comment at `sheet_zip_service.py:269`), and of
two records of one object the lease of one does not hold the other (against
`sheet_zip_service.py:4`).  The number of the list does not rise with every
change of the state (against `sheet_repository.py:5`), but with every one the
list shows.  The objects at the start are those that the old rows refer to.

The fairness of `FairSpec`: time passes; a transaction that began ends; a ZIP
job ends, because each step progresses and a job without steps is abandoned
after 30 minutes; the cleanup runs again and again, takes its candidates in the
order in which they were last looked at, so that each eligible file has its turn
(strong fairness, since a lease may come and go), and the storage does not fail
for ever.  Nothing is assumed of requests: they may stop anywhere.

### Proofs

`SheetLibraryProofs` proves, for every number of requests, keys, rows, jobs and
cleanup runs and all durations, from `IdsAssumption` and `TimesAssumption` only
(the kinds of identities are disjoint, the durations are positive):

| Theorem | Statement |
|---|---|
| `TypeCorrect` | `Spec => []TypeOK` |
| `RowsAlwaysBacked` | `Spec => []RowsBacked` |
| `UploadPublishedOnce` | `Spec => []PublishedOnce` |
| `RepliesTruthful` | `Spec => []ReplyTruthful` |
| `NothingOrphaned` | `Spec => []NoOrphan` |
| `LeasesProtect` | `Spec => []LeaseProtects` |
| `VersionCovers` | `Spec => VersionCoversList` |
| `LibraryImplementsCatalog` | `Spec => ImplementsCatalog`, which is `SheetCatalog` under the refinement mapping |

`RowsBacked` is not inductive: that a deletion of an object is safe depends on
what was true when its record was marked.  `StorageInv` adds that the object
of a record marked `delete_pending`, or handled by a cleanup run, has no row and
will get none: an upload publishes its own object only while its own record is
staged, and no other action gives a row to an object that has none.

`PublishedOnce` and `ReplyTruthful` rest on `OperationInv`: a row that an upload
made belongs to the request that its operation names as its attempt, a request
that `reserve` answered, and did not refuse, carries the body of its operation, and an ended operation
changes no more.

`NoOrphan` and `LeaseProtects` rest on `FileInv`: a file identity belongs to one
row, the file of a listed row is active and names the row's object, the grace of a file that
a cleanup run condemned is over, and a record that was emptied stays empty.
With it, a step that takes an object out of use leaves its record where the
cleanup looks, and a file under a live lease of a job that is alone with its object cannot
become a candidate.

The refinement maps an operation to "asked" at its first reservation; it acts in
the step that stores the result.  Everything else (resends, takeovers, storage
calls, lost answers, leases, cleanup) stutters.  What it needs beyond the other
invariants is that a request that is about to store a result still carries the
body its operation was asked with.

`Reclaimed` is liveness and stays with TLC.

## 4. SheetZip

SheetLibrary sees of a ZIP job only its leases on files.  SheetZip is the other
half: what the requests that build one ZIP do to its row and to the objects
under its prefix, while SheetLibrary's cleanup and deletions appear as `Vanish`.

| In the model | In the code |
|---|---|
| `job` | the row of `sheet_zip_jobs`; `cp` is its checkpoint (`done_count`, `written_bytes`, `parts`, `entries`, `missing`, `progress`), `lease`, `patience` and `left` count down to `lease_until`, the 30 minutes of an abandoned job and `expires_at` |
| `workers[w]` | one request in `step`: its copy of the checkpoint, the bytes it has gathered (`buf`), the objects it has created |
| `attempts` | draws a fresh `attempt_id` at each claim |
| `store` | the objects under the job's prefix, each a sequence of ZIP records and chunks of files |
| `manifest`, `sources` | what was asked for, and which files can still be read |
| `sweeping` | `cleanup_jobs` between the deletion of the objects and its second transaction |

An action is a transaction, a storage call, or one turn of the loop of `_build`
up to a storage call.  `Fail` and the second alternatives of the writes raise an
exception (`GiveUp` is the except clause of `_work`), `Crash` stops a request
anywhere.  The budget of time and bytes is left to chance (`StopReading`): a step
may end after any turn but, as in the code, not before its first.  Nothing bounds
how long a worker takes, although the code computes such a bound
(`MAX_STEP_SECONDS`): the fence has to hold without it.

| Run | Bounds | Shows |
|---|---|---|
| SheetZip | 2 requests, 3 claims, 2 files (two chunks; none or one), compositions of 2 | `ReadyComplete`, `PartsFit`, `NoLateWork` |

Three claims are the fewest with a step that is cut inside a file, a second that
goes on with it and reaches the limit of a composition, and a third that appends
the end records; with fewer steps, one of the claims is left for an attempt that
is overtaken.  One of the two manifests fits into `MaxZip`, the other does not.
Deadlock is not checked, since a job that has ended rests.

`ReadyComplete` compares a ready ZIP with a definition of what it should hold
that knows no steps: each file once, whole, at the offset of its directory
entry, and the list of missing files if, and only if, the user asked for a
partial ZIP and some are missing.  `PartsFit` is what makes a step that was
not told of its success repeatable, and the limit of a composition; `NoLateWork`
says that no repetition undoes anything and that a job that ended stays so.
The cleanup of an ended job does not reach the objects of a step that is still at work
(against `sheet_cleanup_service.py:115`): what that step writes stays for ever.

### Proofs

`SheetZipProofs` proves, for any number of requests, files and claims and all
sizes, limits and durations, from `ManifestAssumption` and `LimitsAssumption` only:

| Theorem | Statement |
|---|---|
| `ZipInvariant` | `Spec => []ZipInv`, the inductive invariant |
| `TypeCorrect` | `Spec => []TypeOK` |
| `PartsFitAlways` | `Spec => []PartsFit` |
| `ReadyIsComplete` | `Spec => []ReadyComplete` |
| `NothingLate` | `Spec => NoLateWork` |

`ReadyComplete` looks only at a ready ZIP and says nothing of how it came about.
The invariant says of every checkpoint that what the parts of its chain hold,
with what the worker has gathered behind them, is the ZIP so far (`Progress`:
the whole files of the entries, then the open file up to where it was read), and
that the entries list the files that are done and not missing, at their places
(`Sound`).  It holds of the checkpoint of the job, with nothing gathered, and of
the copy of the worker with the claim, which is never behind the job's
(`Follows`, in `Holder`).  Of a worker that lost its claim nothing like it
holds, since its parts may be gone.

`PartsFit` and `NoLateWork` need that such a worker can do no harm.  Names
carry the attempt that made them, and an attempt that has not committed has no
name in what the job refers to, nor in what a later step will delete (`Apart`);
so whatever it writes or deletes is its own.  A chain has fewer parts
than the attempts made so far, and fewer than the limit of a composition except
just before one, which is why a composition always fits.

What a chain holds is a concatenation over a sequence of any length.
The first section of `SheetZipProofs` proves the two facts about `FlattenSeq` that this needs, that it
yields a sequence of the element type and that an element appended at the
end is appended to the result (`FlattenAppend`): the
recursive function of its definition exists and is unique, and each induction is
over a set of numbers, which the well-foundedness of the natural numbers gives
(`SetInduction`), since the library's induction theorems cannot be used.

Left out: the files that were already missing in an earlier job and are only
passed on to the list in the ZIP (`prior_missing`), checksums, and the deletion of a
ready ZIP in the middle of a download.

## 5. SheetSync

One screen of one device.  The server is the list with its number, read in one
snapshot; other devices appear as `OtherChange`.

| In the model | In the code |
|---|---|
| `version` | `sheet_library_state.list_version`; the list itself is named by `moment`, the number of changes ever made, which a restore of the database does not set back |
| `account` | `accountKey()` while somebody is signed in; a sign-in does not touch `sync` (`Become`); `clearPortalAuthState` resets it while the account is still there (`SignOut`), `logoutPortal` does not (`Logout`) |
| `sync` | `checking`, `requestSeq`, `appliedSeq` and `account` of `sync.js` |
| `shown` | `appState.sheetListVersion` and `appState.sheetLibrary` |
| `runs[r]` | one call of `refreshSheetLibrary`, or of `sendSheetChange`, which ends with one; `at` is the request under way, `seen`, `reset` and `seq` are the variables the code captured before it waited |

An action is the code between two awaits.  A request is read by the server
(`Serve`) and its answer arrives later, in any order, or never (`Fail`, also for
an error of the server).  `call` drops an answer when the account is not the one
that sent it; one that is the same again is caught by the request numbers only.

Nothing else writes the list on the screen: the bootstrap loader could
(`applyBootstrapData`, `loadExtraData`), but no caller asks it for the sheets.

The run SheetScreens takes 3 runs, 2 accounts, 3 changes of the account with 1 of
the list or 2 of each, 1 of which may be a restore, and checks `JoinedIsRunning`, `FetchedStays`
and `SessionsApart`.  Three runs are a check, a fetch that overtakes it and a
third that joins it or overlaps both; three changes of the account let the same
one sign in, out and in again.  SheetLogout takes one run and one account and lets TLC refute
`InFlightForgotten`, what `sync.js:194` says of any sign-out: after the user's own sign-out and a new
sign-in as the same member, `accountKey()` is the same and a list asked for before is put on the screen
(a finding).  `SessionsApart` is what remains true: nothing asked for before
`clearPortalAuthState` ended a sign-in is shown after it.  Deadlock is not checked, since the runs are used up.

`FetchedStays` is what the program does promise of the list on the screen: a
forced fetch that succeeded, or any fetch whose list (or that of a later request) was
taken, shows at least what was there when it began, and this remains so while the
account stays.  It does not promise it of a fetch whose list was refused for
its number alone (`sync.js:105`): after the database was restored, an
older list with a higher number may be on the screen.  Without that condition TLC refutes the property with four
runs; the three of the run do not reach it, the theorem covers every number.
The list may also go back to an older one that is still as new as every
finished fetch asked for: a forced fetch does not compare list numbers, although
the design document says so (section 4).

`SheetScreensProofs` proves, for every number of runs and accounts, from
`NoneAssumption` (the value of a signed-out account is no account) and
`BoundsAssumption` (the bounds are numbers and allow a first list):

| Theorem | Statement |
|---|---|
| `TypeCorrect` | `Spec => []TypeOK` |
| `ChecksEnd` | `Spec => []JoinedIsRunning` |
| `ClearingSeparates` | `Spec => SessionsApart` |
| `FetchesStay` | `Spec => []FetchedStays` |

`SessionsApart` speaks of a step; the state it needs is `PassedOver`: a fetch asked
for before the last `clearPortalAuthState` (`signedOut`) has a number below `appliedSeq`.  It is inductive
because a reset takes a number above all those given and applies it
(`ResetSync`), and numbers only grow.  One lemma, `RunStep`, says what a run may
do to itself and to `sync` without harm to the others; each action is an instance
of it.

`FetchedStays` needs `FetchInv`: numbers are given in the order of the
requests, so that an answer is at least as new as every run that has no later number had begun
with; and a number is passed over only by taking such a list, or by a reset,
after which the account is another one.

## 6. PracticeHistory

The practice history of one member: two tabs over one database of the device,
the outbox they share, and the account on the server, whose history another
device may delete.

| In the model | In the code |
|---|---|
| `rows`, `series`, `notes` | the stores `sessions`, `seriesChunks` and `noteEvents` of `portalTunerAdvanced`; of the contents only what is there is kept |
| `outbox` | `syncOutbox`; `id` is the order of `createdAt`, `history` the owner's epoch when the operation was queued |
| `generation` | `ownerSettings.historyGeneration`; `memoryGeneration` is raised in the same step as the deletion begins and says no more |
| `tabs[t]` | `workspace.js` of one tab: `owner` (its `historyEpoch`), `recording` |
| `flows[f]` | one chain of promises: a recording from its start to its summary, a deletion, a sync; `current` is `not stale(ctx)` |
| `server` | `tuner_history_state`, the sessions with their parts, the tombstones |

An action is one IndexedDB transaction, one request on the server, or the code
between two awaits.  Transactions take effect where the call creates them; the
answer of a request is used in a later step, after other flows have gone on, and may
be lost although the request arrived (`Lose`).  A tab closes at any step
(`Reopen`).  The server locks the owner's row in every request (`_lock_owner`).

Left to chance or left out: quota and size limits are one refusal that may come
at any write (`Refused`); the choice where history is kept (it is always sent);
the request for the identity and its answer are one step (`Resolve`);
instruments, presets and exports; answers 401 and 403 and the limit of the
account, which keep the operation as a lost answer does; the tombstones of the
device, which cannot meet the random id of a new session.

The run PracticeHistory has 2 tabs, 2 flows, 1 session, 1 part, 1 deletion of everything and 2 queued
operations and checks `SeriesStaysGone`, `ServerForgets`, `CompleteIsWhole` and
`KeptByEqualTabs`.  Two tabs are the fewest that can disagree about the owner's
epoch, two flows the fewest that overlap, and an upload followed by a deletion
the longest useful outbox of one session.  Deadlock is not checked, since the
bounds end the run.

The comment of `syncOutbox` promises more than `KeptByEqualTabs`, which is what remains: an operation of the
present epoch is kept until the server has it, or its session or the whole
history was deleted, or a tab of another epoch dropped it.  The recovery of
interrupted sessions can bring the row of a deleted session back
(`RestoreInterrupted` writes what an earlier transaction read), but no pitch
series (`SeriesStaysGone`).  Not modelled: a consent that is withdrawn during a sync
(`workspace.js:417`), which clears the outbox while the sync goes on.

`PracticeHistoryProofs` proves, for every number of tabs, flows, sessions, parts
and epochs:

| Theorem | Statement |
|---|---|
| `SeriesOfDeletedStaysGone` | `Spec => []SeriesStaysGone` |
| `DeletedForEver` | `Spec => []ServerForgets` |
| `SummariesAreWhole` | `Spec => []CompleteIsWhole` |
| `QueuedIsKept` | `Spec => []KeptByEqualTabs` |

`HistoryInv` says who may still write a session.  An id is fresh before a
recording begins and used afterwards; each session has one recorder; a session
whose row grows is not deleted; an operation that a flow holds or the outbox has belongs to a
session its recorder has left; and a session the server erased is empty, with a tombstone
or with a recorder that has left.  A request from before a deletion
therefore meets a tombstone or a newer epoch.  Two more invariants
stand on it: `Whole` (an upload in the account has the parts it announced) and `Owing`
(an operation that is owed is of the server's epoch and kept).

## 7. The audio of the laboratory

### AudioOutput

The tabs of the portal agree which of them may sound: by a Web Lock, or, where
there is none, by a record in IndexedDB with permits that run out.

| In the model | In the code |
|---|---|
| `kind`, `lock` | whether `navigator.locks` is there; the holder of the lock |
| `claim`, `counter`, `acks` | the records of `portalAudioControl`; `age` is the time since `heartbeatAt`, `permit` what is left of `permitUntil` |
| `tabs[t]` | the variables of `output_manager.js` and what its consumers, metronome and tuner, hold of the output |
| `ask`, `renewal`, `told` of a tab | results of transactions that its code has not seen |

A transaction happens where the call creates it; its result is used in a later
step of the tab.  Results of a beat and of a request of one tab come in the order of
their transactions (`behind`).  A frozen tab takes no steps, while its clicks and
its tone go on; `Tick` lets time pass for all.

Left out: a second claim request of a tab while one is under way, backends other
than the worklet, the use of microphone and tone together, the gain, browsers without any
coordination, and the closing of a tab, which is a tab that takes no steps any more.

The run AudioOutput (2 tabs, permits and staleness of one unit, 2 claims, one
consumer of a page on its screen at a time) checks `OneAtATime` and `HandedOver`.  Two claims are one
takeover; with a permit of one unit a permit is whole, or over.

`AudioOutputProofs` proves, for every number of tabs and claims and every length of
permits up to the time after which a record counts as stale (`TimesAssumption`; in the code 2 s and 15 s):

| Theorem | Statement |
|---|---|
| `OutputInvariant` | `Spec => []OutputInv` |
| `OneTabAtATime` | `Spec => []OneAtATime` |
| `HandedOverSilently` | `Spec => HandedOver` |

`OneAtATime` is not inductive, since it says nothing of tabs that are about to
sound.  With locks, `OutputInv` adds that every lease needs the lock (`Locked`).  With the record
the argument is one about time.  `Within(p, n)` says that neither the clicks handed to the audio thread of a
page nor its permit, nor an answer under way that brings one, lasts longer than
`n`; `Rest(c)` is what is left of a permit given when the record was written.  In every tab `Within(p, Rest(claim))` holds: whoever
writes the record makes `Rest` longer, and only its owner gets a longer permit by
it.  A record that is old enough to be taken over has `Rest` 0, so that nobody
has anything left.  A tab that believes it holds the claim has either the record or
nothing it could sound with, hence two metronomes that click would both own the record.

`HandedOver` (what a takeover may never do, and that generations grow) needs a second part of the
invariant, `NumberInv`, on the generations of claims.  All that a tab stopped or confirmed belongs to an
earlier generation than the claim it has or asks for; a tab with the generation of the record owns it;
and an owner that waits names another tab, whose claim was one generation earlier, as its
predecessor (`Numbered`).  `Succeeds` lists what a step may do to the record, and each action has a
lemma that its step does so.  When a tab becomes ready, the confirmation it saw is
therefore of the claim it replaces, and the tab that gave it has neither
clicks nor a tone since.

### Transport

Two threads joined by two ordered ports: the page's transport with its backend, and
the processor, which renders frames.  A snapshot is a tempo, a bar, the length
of a finite score and the positions it holds; there is one click per pulse.

| In the model | In the code |
|---|---|
| `seg`, `segs`, `frontier`, `position`, `fence`, `chain` | the segments, the filled position and the edits of `transport.js` |
| `toProcessor`, `toPage` | the messages of the worklet's port; those of one task arrive together |
| `now`, `queue`, `playing`, `permitUntil` | `click_processor.js` |
| `heard`, `lost`, `apart` | history: the last two clicks that sounded; a click was lost; a boundary was taken from a segment that did not play yet |

The page's timer runs at any moment, late by up to `MaxLag` frames.  Left out:
edits while nothing plays, and several clicks per pulse.  The run Transport takes
6 frames, two starts or stops, one edit, a queue of 2 clicks (with more, no
plan would be refused) and 2 batches of messages under way.  `SteadyBeat` excludes the runs in which
the code takes a boundary from a segment that did not sound yet (`apart`): there the beat is
broken, which is a finding.  `HeardAsShown` compares the segments by which positions are shown with
what sounded; `StandsStill` says where a paused or held run stands.

### MetronomeScreen and MetronomeEdits

`MetronomeScreen` is the launcher, the body and the output manager of one page;
a tap on play is a chain of promises (`chains`), which the user overtakes by
leaving, hiding or tapping again.  Leases, backends and transports are named by the
tap that made them; an epoch is modelled by what it is compared for (`current`).
Answers of the claim are inputs: `AudioOutput` is about them.  The tuner's leases,
the wake lock and the drawing are left out.  Three taps are one that plays, one
that overtakes it and one after it.  `StopPlayback` stops what runs, is paused or interrupted; every
caller of `api.stop` in the code asks for that state first.  `Drop` voids the renewals under way
although `closeContext` and `claim.release` leave `revokedSeq` alone: their transactions are queued before
those of a newer claim, so that they are answered in vain before that claim is held.
`RunHasOutput` excludes overlapping preparations, where the code does lose a lease.

`LaboratoryProofs` proves, for any number of taps:

| Theorem | Statement |
|---|---|
| `ScreenInvariant` | `Spec => []ScreenInv` |
| `NothingStartsUnasked` | `Spec => []NothingUnasked` |
| `RunsHaveOutput` | `Spec => []RunHasOutput` |

`NothingUnasked` says that nothing was started unasked, which does not carry over to the
next step by itself: `Wanted` adds of every chain that can still start something that it was asked for since
the user came, be it a tap being prepared that is the current one, or a resume that
was not voided.  `Away` adds what is not there while the user is away: no
claim, lease or context, no request of the body's own, and no current tap, so that every promise
that comes back finds itself overtaken.  `RunHasOutput` needs two parts.  `Loose` is true also in the
middle of a handler: one tap is prepared at a time, no lease is held but the body's, and
nothing runs but the body's output.  `Firm` is what a handler leaves behind: the lease is
held, and the output uses it or is being made.  Each
handler is a chain of state functions in the model; for each of these one lemma says
which fields it changes and one that it keeps `Rough` (`Wanted` and `Loose`) or `Good` (with `Firm`).  After an overlap only
`Wanted` and `Away` are claimed.  TLC checked `ScreenInv` with three taps before it was proved.

`MetronomeEdits` is the way of a change from the editor to the run: a setting is
one value, the microtasks of one edit are steps between which nothing else happens (`Quiet`).
A confirmation that does not come in time interrupts the run, a paused one too; any other that comes
after a pause is stale.
`EditorIsPlayed` excludes overlapping changes and starts (a finding).  Bounds: 2
settings, 3 edits, 4 starts and stops.

### TunerScreen

The context a tap prepares passes from the laboratory to the launcher, the
controller and the tone; names of contexts are used again when they are closed, so that
three suffice.  `device` keeps the answers that earlier runs still wait for.
`TunerSafe` says that no context is lost, that nothing is kept while the user is
away, and that the microphone hears no tone, unless the earphones are withdrawn while it plays (a finding).
A load of the code that failed is tried again from its button (`Retry`).
Left out: the claims of the output, simultaneous metronome, the states of practice and persistence;
and a start of the tone that is refused while the old tone still plays or fades, after which the
controller goes on as if it played (`tuner/index.js:1002`, `playback.js:338`).

### TimingCollect and AnalysisScreen

`TimingCollect` pairs the strokes of a player with the clicks while both are
still coming.  A unit is about 75 ms, windows are kept in twentieths of it; one
clock, one stroke at an instant, coincident beats of two layers are one.  The
display is drawn at least once per look-ahead.  `AsComputedAfterwards` compares the rows with what anyone
would compute afterwards; it excludes strokes that come later than the code
allows for, beats closed while an answer is overdue, and clicks planned
before a position already taken (findings).  The limits of beats and extras, the
flood and the 30 minutes are left out.  Horizon 8, two strokes, one change.

`AnalysisScreen` is the microphone, the calibration of a route and the recording.
A key is a route; the hops of one answer are one step.  Excluded: a session whose node could not be made, and what
follows when a preparation of an older session changes the mode (findings).
Two sessions, two routes, two preparations.

### ScoreCompiler

A preset is checked, expanded and compiled for one stretch after another.
Positions are whole ticks, 8 to an eighth.  Repeats are finite or until stopped,
swing is 3:1, there are patterns of muting, one layer and one fermata; cues, tempo
maps, random muting, count-in and the off-beat are left out.  `EveryBarAsWritten`
compares the clicks of all stretches with those of the bars in the order of a player; it excludes clicks that swing
moves past the end of their bar (a finding).  `events` is a set; `twice` is true once a click was compiled
in two stretches, which no equal fields can hide.  Bounds: 3 kinds of bars, 2 bars, 4
occurrences, 80 ticks, stretches of 8, 13 and 40.

### The run and the proofs

The run Laboratory has one of these parts in each behaviour, 1 062 835 states in all.
`LaboratoryProofs` extends its module and proves of all behaviours, for any numbers of taps, settings,
edits, contexts, sessions, routes and preparations:

| Theorem | Statement |
|---|---|
| `LabInvariant` | `MCSpec => []LabInv`, the invariants of the four screens |
| `EditorPlays` | `MCSpec => []EditorIsPlayed` |
| `TunerIsSafe` | `MCSpec => []TunerSafe` |
| `AnalysisIsSafe` | `MCSpec => []AnalysisSafe` |

The handlers of the tuner, too, are chains of functions of its state.  In the middle of one each open
context has one owner or is the one the handler carries (`Owned`), and what belongs together fits
(`Coherent`); between two handlers none is carried, and a tap, an entry or a tone
is there only while the user is (`Settled`).


## 8. The page of the portal

### PortalRequests

What one page asks of the server, for one list: a call is a chain of promises, an
identity a member with the generation of the sign-in, a context an identity with
`portalResponseEpoch`; `store` is the response cache, `blocked` the keys whose entry a save invalidated,
each with a token, the save that did it; `sharing` the session check that others join.  Other tabs share the cache
and the sign-in.

Left out: re-sends (they are in ExtraLoads), reloads of the page, the sign-in of other
tabs, answers 304 without a stored body, explicit tenants, access times, and the
path of promotions.

The run PortalRequests takes 3 calls, 1 member, 1 change of the list and 2 sign-ins: a load, a save and
a third call that joins or follows.  `SavesAreSeen` excludes entries another tab has written
since (`mixed`), `SignOutStays` a check that began while a sign-out or sign-in was under way, and one
for a request that was refused before the last sign-in (`crossed`); the run SignOut shows that the comment of
`notePortalAuthCheckCleared`, which has no such exception, is not what the code does.

`PortalRequestsProofs` proves, for every number of calls, members, sign-ins and changes of the
list, from `NoneAssumption` (the absent value is no member, call, number or kind) and
`BoundsAssumption` (the bounds are numbers):

| Theorem | Statement |
|---|---|
| `RequestsInvariant` | `Spec => []RequestsInv` |
| `SavedIsSeen` | `Spec => []SavesAreSeen` |
| `SignedOutStays` | `Spec => []SignOutStays` |

`SavesAreSeen` alone is not inductive: it says nothing of the loads under way.  `CacheInv` says
that a load of the present epoch has, or would fall back on, no older list than the page
saved; that a key which is not blocked has no older entry; and that a write whose token is still
the one of its key wrote no older one.  A save raises the epoch and puts itself as the token,
and as it is over it never does so again: therefore the writes under way cannot unblock the
key.  One lemma, `CacheMoves`, says what a step may do without harm; every action but the
confirmation of a save is an instance of it.

`SignInv` says that the checks under way are of no later sign-in state than the page's, of an
earlier one while a sign-out waits, and that after a sign-out one of the present state
has found no session.  The second exception of `SignOutStays` came out of this proof: with 3 calls TLC
does not reach the case, with 4 it does.

### ExtraLoads, PortalStart, PortalScreens

The run Portal has one of them in each behaviour.

`ExtraLoads` is the load of one deferred collection by several callers, with the
shared GET and the re-sends of `transport_retry.js`.  The entry `<<l, 1>>` is a load's
first request, `<<l, 2>>` the one after a save; a budget is named by the load that
made it, `wait.by` is the GET that set the wait.  Left out: the recovery from 401, 304 without a
body, other tabs' writes to the cache.  Bounds of the run: 2 loads, 1 change, 1 save.

`PortalStart` is the start of the page with its watchdog, its retry, the preview from
the cache and the refresh.  The session check is an input; a version in `Broken` cannot
be drawn.  `crossed`, `late` and `retried` exclude loads that overlap, a refresh
under a full load, and what follows a retry that failed (findings).

`PortalScreens` is the choice of panels and tabs.  A task is a handler that waits
for a load; a tab is told apart by the way it is opened.  Each handler that shows something after
it waited puts its kind into `undone` when the user has made another choice since.  `LaterChoiceWins` says that
two kinds never do: a return in the browser's history to a tab of the laboratory (`Restore`), and
the first tab of a panel.  The other four do, because they look for
no newer choice, or for the last tab of the member panel only: the administrators' and the system panel, the
notifications and the members' album (`ChooseAlbum`, `AlbumReady`).  `routes.js:393` promises
that every change of the screen advances the number of the last choice; the album's does not when it is
chosen (a finding).  `OneTab` excludes runs in which the
notifications were shown while another tab was chosen (`overtaken`).  Bounds: 2 handlers, 6 choices; the run
Portal has 1 952 228 states.

`PortalProofs` proves, from `NoneAssumption`, `NoValueAssumption` (the absent value is no version,
load or result) and for every number of waiting handlers and of loads, and all bounds of versions,
refreshes, starts and saves:

| Theorem | Statement |
|---|---|
| `Invariant` | `Spec => []Inv`, of the screens alone |
| `ScreensAlwaysFollow` | `Spec => []ScreensFollow` |
| `PartsInvariant` | `MCSpec => []PartsInv`, of the start and of the loads |
| `StartAlwaysAnswers` | `MCSpec => []StartAnswers` |
| `LoadsAlwaysSpeak` | `MCSpec => []LoadsSpeak` |
| `NothingGoesBack` | `MCSpec => NeverBack`, an action property |

*Screens.*  A handler that asks for the number of the last
choice has an older one if the user chose since, so that it puts nothing into `undone`; a panel has one tab at
most; and none while its notifications are awaited, by one handler only.

*Start* (`StartInv`).  `NothingAhead`: nothing is newer than the server.  `ButtonKept`: a button that is
disabled belongs to a retry that runs, that failed, or to a start that is ready, and a start that is over has a
button or is ready.  `FullAsked`: a full load that was asked for after the last refresh brings at least
what that refresh had (not so when it was under way before: `late`).  `OneReader`: without `crossed`
one load at most is under way; it still has the cache as it is, has drawn what is shown, and answers nothing
older.  `Onward` is no consequence of types: without the last two clauses an answer that falls back on the
cache could replace newer data.

*Loads* (`ExtraInv`).  `OneFlight`: of the GETs under way one at most is of the present context, because a
second request of the same context joins the first.  `Waiters`: a load waits for its own entry or for the one it
joined.  `LatestLoads`: while anything of the present context loads, so does the latest entry; therefore
a load that is superseded leaves its promise to another that still runs.  `Owed`: as long as the user waits for
something, the latest entry is neither applied nor reported and some load waits for it.  `Budgeted`: only
those who wait for the latest entry ask again, with the budget that its GET used, so that a chain of linked
budgets has one link at most; a load knows of no more re-sends than the budget of its next request.
`Fresh`: what the latest entry will bring is no older than what is shown, and no newer than the cache, from which
a later GET would be answered by a 304.

The ghost `muted`, which excludes a load that ends without a message, used to look at the origin of the
*entry*.  The invariant could not be proved, and with 3 loads TLC finds the reason, which 2 do
not reach: a load of the user that joins a GET of the page itself ends in silence with it, when that GET must wait,
because `transport_retry.js` (77) speaks only to the one that sent it.  `Mutes` now looks at the origin of the GET.

## 9. The screens of the sheet library

The run SheetScreens has one of SheetSync and these in each behaviour.

- **UploadBatch**: an operation ID is named by the batch, the file and the
  attempt; the server keeps the result of each account and ID.  The repeated questions of a 202 are
  one step.  Bounds: up to 2 batches of one file each in 2 tabs without a switch of the account, or
  one batch of up to 2 files in one tab at a time with one.
  A batch whose account changed during a run is stored for the new one (`mixed`, a finding) and excluded.
- **FileOperations**: a slot is an account, a method and a URL, a content its
  hash; 3 IDs, 2 slots in one tab at a time without a change of the identity, or 1 slot in 2 tabs with
  one.  Excluded are slots whose record another operation replaced or removed, or a resend that was
  refused before it reached the operation (`Refused`; two findings), and the run takes no step after one.
- **SheetSave**: a dialog is one run of `start()`; 2 dialogs, 2 jobs, 2 switches of the account, desktop
  and mobile.  A second tap before the sharing sheet opens is excluded.
- **SheetViewer**: the entries and runs of the past stay as history; 3 runs, 2
  sheets, 2 pages, 1 failure.  Scale and texts are left out.

The bounds keep what matters: a batch needs two tabs to be resumed while it is
under way, two batches to replace a record and two files to be half done; the
loss of a record needs two slots, a repeated save two IDs and one more to be
told apart; a late dialog needs a second one, a late page a second run, and a
third to come between them.

### Proofs

`SheetScreensProofs` also proves these, of `MCSpec` and for any numbers of tabs,
files, batches, accounts, tasks, dialogs, jobs and pages, from
`NoneAssumption`, `BoundsAssumption` and `NoValueAssumption` (the value of "none" is no
account and no record):

| Theorem | Statement |
|---|---|
| `ScreensHold` | `MCSpec => []ScreensInv` |
| `BatchesAreSafe` | `MCSpec => []BatchSafe` |
| `FormsAreSavedOnce` | `MCSpec => []KnownBeforeNext` |
| `DialogsAreSafe` | `MCSpec => []DialogSafe` |
| `ViewerIsSafe` | `MCSpec => []ViewerSafe` |

`MCNext` restricts the steps of each component by the bounds of the run (`FewBatches`,
`FewForms`, `TasksInOrder`), but the proofs do not use those bounds: `ScreensHold` takes of a step
only that it is one of `Next` of its component.

`ScreensInv` is, for the part a behaviour is of, the invariant of that component.

- `UploadInv`.  That a file is registered once (`RegisteredOnce`) follows from `OneHome`: a
  batch that is not mixed is stored, held in a tab and sent to the server for one
  account only, so that the server knows all its IDs under that account.  That a batch
  can be resumed (`Resumable`) follows from `Held`: unless the user gave it up, it is
  stored, about to be stored by a tab that has just made it, or the server has ended
  each of its files.  For a record to be removed only then, every record, in the storage and in
  any tab, must be sound (`Sound`): each file of the batch has an item, and an item that
  is settled has its answer.  Two tabs that resume the same batch keep records that differ; each is
  sound by itself, so that it does not matter which of them is stored last.
- `FormInv`.  The operation of a slot whose end no page was told is the one the
  record of the slot names (`Recorded`), unless the slot is mixed.  A refusal ends an operation only
  when its request is the only one that could start it.  A task that
  asks for a result has read the record whose ID it asks for (`TaskSound`).
- `DialogInv`.  Nothing came late, and the dialog on the screen is one whose file or link
  is there for what its buttons offer (`Kept`), also while the sharing sheet is open or a link is being
  renewed, since the step that comes after puts the button back.
- `ViewerInv`.  The document of the viewer is that of the last request, those before it are not opened any
  more, and each page on the screen was drawn by a run of that document.

## 10. What stays with TLC

Liveness (`Reclaimed`) is out of the prover's reach.  `TimingCollect` and
`ScoreCompiler` compute by recursive functions over the timeline and the score: what they compute for every
input would need inductions over these, so that `AsComputedAfterwards` and `EveryBarAsWritten` are
checked on bounded inputs only.  The properties of `Transport` (`SteadyBeat`, `HeardAsShown`,
`StandsStill`) are checked on the instance of its run and not proved; theirs is the proof
to do next.  `InFlightForgotten` and the comment behind the run SignOut are refuted.

## 11. Not modelled

- The values of parts and names, tenants, authentication and the validation of
  request bodies: no property depends on them.
- Object generations: a new object is created once under a name of its own, so
  that a name and its generation are the same thing; legacy objects are never
  overwritten by this code.
- The deletion of operations that ended 30 days ago: a client that resends a
  key after that time would repeat its change.
- The local SQLite adapter, which mirrors the tables for development.
- Hazards that no property states, because the code does not keep them or they
  lie outside a module: a consent that is withdrawn during a sync
  (`workspace.js:417`), a pending owner of the output that gives up
  (`output_manager.js:409`), a save that is confirmed after a sign-out
  (`api_runtime.js:322`), and `flushUntil`, which forgets a fermata
  (`transport.js:169`).
- The saving dialog that `logoutPortal` leaves open (`SheetSave.SignOut` is `clearPortalAuthState`, which
  closes it): what such a dialog may still do is covered by the changes of the account under an open dialog.
- The components listed with status `not_modelled` in `PROJECT.json`, each with
  its reason.
