---------------------------- MODULE MCSheetLibrary ----------------------------
(* Small instances of SheetLibrary for TLC. *)
EXTENDS SheetLibrary, TLC

\* One of the old objects: that of all old rows, or of the one that is left alone.
Spare == CHOOSE o \in Shared : TRUE

OneObject == \A i \in Legacy : rows[i].object = Spare

\* A row that no request and no job names.
Unnamed(i) ==
    /\ \A r \in Requests : reqs'[r].body.items[i] = 0
    /\ \A j \in Jobs : jobs'[j].row # i

Uploads == {r \in Requests : reqs'[r].at # "new" /\ reqs'[r].body = UploadBody}

NoJobs == \A j \in Jobs : jobs'[j] = NoJob

\* Bound: rows that share an object, changes under any keys and one upload, but no
\* ZIP job; or changes under one key, and one old row left alone, with a ZIP job and
\* one upload, or with two uploads and no job.
Bound ==
    IF OneObject
    THEN Cardinality(Uploads) <= 1 /\ NoJobs
    ELSE /\ Cardinality({reqs'[r].key : r \in Requests} \ {None}) <= 1
         /\ Cardinality(Uploads) <= 1 \/ NoJobs
         /\ \E i \in Legacy : rows[i].object = Spare /\ files[i].state = "active" /\ Unnamed(i)

\* Requests and keys are interchangeable, and so are the old rows.
Symmetry == Permutations(Requests) \cup Permutations(Keys) \cup Permutations(Legacy)
=============================================================================
