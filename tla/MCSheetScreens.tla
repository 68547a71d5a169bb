---------------------------- MODULE MCSheetScreens ----------------------------
(***************************************************************************)
(* The screens of the sheet library for TLC: each behaviour is one of the  *)
(* parts below, chosen at the start.  The list's sync is extended, the     *)
(* others are instances.                                                   *)
(***************************************************************************)
EXTENDS SheetSync, Sequences, TLC

CONSTANTS
    NoValue, Tabs, Files, Contents, Urls, Tasks, Pages,
    MaxFiles, MaxBatches, MaxSwitches,  \* bounds of UploadBatch
    MaxIds,                          \* bound of FileOperations
    MaxDialogs, MaxJobs, MaxChanges, \* bounds of SheetSave
    MaxRuns, MaxFailures             \* bounds of SheetViewer

\* A batch, and a value for none that is no account and no record.
Ops == [batch : Nat, file : Files, attempt : {0}]
States == {"pending", "sending", "unknown", "done", "failed"}
BatchRecord == [id : Nat, items : Seq([op : Ops, state : States])]
ASSUME NoValueAssumption == NoValue \notin Accounts \cup [id : Nat, content : Contents] \cup BatchRecord

VARIABLES
    part,
    stored, tabs, batches, given,                                    \* UploadBatch
    records, tasks, identity, told, ids, unsure,                     \* FileOperations
    device, who, ds, dialog, buttons, jobs, remembered, direct, late, doubled,  \* SheetSave
    seq, current, entries, renders, library, canvases, url, failures,           \* SheetViewer
    requests, mixed, switches                                        \* of several

uploadVars == <<stored, tabs, batches, given>>
fileVars == <<records, tasks, identity, told, ids, unsure>>
saveVars == <<device, who, ds, dialog, buttons, jobs, remembered, direct, late, doubled>>
viewerVars == <<seq, current, entries, renders, library, canvases, url, failures>>
sharedVars == <<requests, mixed, switches>>

Upload == INSTANCE UploadBatch WITH None <- NoValue, server <- requests
Form == INSTANCE FileOperations WITH None <- NoValue, server <- requests, Slots <- Accounts

Dialog == INSTANCE SheetSave WITH
    None <- NoValue, account <- who, Devices <- {"desktop", "mobile"}, MaxSwitches <- MaxChanges
Viewer == INSTANCE SheetViewer WITH None <- NoValue, runs <- renders

\* What belongs to the other parts has no value.
NoUpload ==
    /\ stored = NoValue /\ tabs = NoValue /\ batches = NoValue /\ given = NoValue
NoFiles ==
    /\ records = NoValue /\ tasks = NoValue /\ identity = NoValue /\ told = NoValue
    /\ ids = NoValue /\ unsure = NoValue
NoDialog ==
    /\ device = NoValue /\ who = NoValue /\ ds = NoValue /\ dialog = NoValue
    /\ buttons = NoValue /\ jobs = NoValue /\ remembered = NoValue /\ direct = NoValue
    /\ late = NoValue /\ doubled = NoValue
NoViewer ==
    /\ seq = NoValue /\ current = NoValue /\ entries = NoValue /\ renders = NoValue
    /\ library = NoValue /\ canvases = NoValue /\ url = NoValue /\ failures = NoValue

MCInit ==
    /\ Init   \* of SheetSync
    /\ \/ part = "sync" /\ NoUpload /\ NoFiles /\ NoDialog /\ NoViewer
          /\ requests = NoValue /\ mixed = NoValue /\ switches = NoValue
       \/ part = "upload" /\ Upload!Init /\ NoFiles /\ NoDialog /\ NoViewer
       \/ part = "form" /\ Form!Init /\ NoUpload /\ NoDialog /\ NoViewer /\ switches = NoValue
       \/ part = "dialog" /\ Dialog!Init /\ NoUpload /\ NoFiles /\ NoViewer /\ requests = NoValue /\ mixed = NoValue
       \/ part = "viewer" /\ Viewer!Init /\ NoUpload /\ NoFiles /\ NoDialog
          /\ requests = NoValue /\ mixed = NoValue /\ switches = NoValue

screens == <<uploadVars, fileVars, saveVars, viewerVars, sharedVars>>

\* Runs and tasks only have names: the lowest one that is free is taken first.
Order == CHOOSE f \in [1 .. Cardinality(Runs) -> Runs] : \A r \in Runs : \E i \in DOMAIN f : f[i] = r
RunsInOrder == \A i \in 2 .. Cardinality(Runs) : runs'[Order[i]] # New => runs'[Order[i - 1]] # New
\* Bound: three changes of the account and one of the list, or two of each.
Changes == moment' + session' <= 5
TasksInOrder ==
    \A j, k \in Tasks : j < k /\ tasks[k].at = "free" /\ tasks'[k].at # "free" => tasks[j].at # "free"

\* Bound: one file in each batch and no switch of the account, or one batch, in one tab at a time.
FewBatches ==
    \/ switches' = 0 /\ \A b \in DOMAIN batches' : Cardinality(batches'[b]) = 1
    \/ Len(batches') <= 1 /\ Cardinality({t \in Tabs : Upload!InTab(t)' # {}}) <= 1
\* Bound: one tab at a time and no change of the identity, or one slot; no step once
\* KnownBeforeNext excludes a slot.
FewForms ==
    /\ mixed = {}
    /\ \/ identity' = 0 /\ Cardinality({tasks'[k].tab : k \in Tasks} \ {NoValue}) <= 1
       \/ Cardinality(({tasks'[k].slot : k \in Tasks} \cup {ids'[i] : i \in DOMAIN ids'}) \ {NoValue}) <= 1

MCNext ==
    /\ UNCHANGED part
    /\ \/ part = "sync" /\ Next /\ RunsInOrder /\ Changes /\ UNCHANGED screens
       \/ UNCHANGED vars /\
          \/ part = "upload" /\ Upload!Next /\ FewBatches /\ UNCHANGED <<fileVars, saveVars, viewerVars>>
          \/ part = "form" /\ Form!Next /\ TasksInOrder /\ FewForms
             /\ UNCHANGED <<uploadVars, saveVars, viewerVars, switches>>
          \/ part = "dialog" /\ Dialog!Next /\ UNCHANGED <<uploadVars, fileVars, viewerVars, requests, mixed>>
          \/ part = "viewer" /\ Viewer!Next /\ UNCHANGED <<uploadVars, fileVars, saveVars, sharedVars>>

MCSpec == MCInit /\ [][MCNext]_<<part, vars, screens>>

Symmetry == Permutations(Accounts) \cup Permutations(Tabs) \cup Permutations(Files)

-----------------------------------------------------------------------------
(* The properties, each of its part *)

\* A file of a batch is registered once, and a batch with a file left can be
\* resumed (UploadBatch).
BatchSafe == part = "upload" => Upload!RegisteredOnce /\ Upload!Resumable

\* A form is not saved under another ID while the end is not known (FileOperations).
KnownBeforeNext == part = "form" => Form!KnownBeforeNext

\* A dialog that ended offers and downloads nothing, and the buttons of one that
\* is open have a file to save (SheetSave).
DialogSafe == part = "dialog" => Dialog!NothingComesLate /\ Dialog!ButtonsSave

\* The viewer shows what was asked for last, and holds one document (SheetViewer).
ViewerSafe == part = "viewer" => Viewer!ShowsTheLatest /\ Viewer!OneDocument
=============================================================================
