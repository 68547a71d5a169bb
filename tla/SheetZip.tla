------------------------------- MODULE SheetZip -------------------------------
(***************************************************************************)
(* One bulk-download job: src/backend/services/sheet_zip_service.py and    *)
(* what sheet_cleanup_service.py does to jobs.                             *)
(*                                                                         *)
(* The ZIP is built in steps, one request each, that may end inside a file.*)
(* A step claims the job, works on a copy of its checkpoint while it reads *)
(* the files and writes one new part, and commits the new checkpoint if it *)
(* still holds the claim.  A chain of parts that has become long is        *)
(* composed into one object.  When all files are done, a step of its own   *)
(* appends the end records and composes the ZIP.                           *)
(*                                                                         *)
(* An attempt is the number of its claim, so the names it writes are new.  *)
(* An object is the sequence of ZIP records and pieces of file data in it; *)
(* sizes and offsets count these.  Nothing bounds how long a worker takes: *)
(* its claim may run out at any time.                                      *)
(***************************************************************************)
EXTENDS Integers, Sequences, FiniteSets, SequencesExt

CONSTANTS
    Workers,       \* requests that may be in a step at the same time
    Files,         \* 1 .. n: the manifest, in its order
    Sizes,         \* the sizes the files may have, in READ_CHUNKs
    MaxZip,        \* MAX_ZIP_BYTES
    ComposeLimit,  \* COMPOSE_LIMIT
    MaxAttempts,   \* bound: claims of the job
    StepLease,     \* STEP_LEASE
    Abandoned,     \* ABANDONED_JOB
    ReadyTtl       \* READY_TTL

ASSUME ManifestAssumption == IsFiniteSet(Files) /\ Files = 1 .. Cardinality(Files)
ASSUME LimitsAssumption ==
    /\ Sizes # {} /\ \A size \in Sizes : size \in Seq(Nat) /\ DOMAIN size = Files
    /\ MaxZip \in Nat /\ MaxAttempts \in Nat
    /\ ComposeLimit \in Nat \ {0, 1}
    /\ StepLease \in Nat \ {0} /\ Abandoned \in Nat \ {0} /\ ReadyTtl \in Nat \ {0}

VARIABLES
    manifest,  \* fixed when the job is created: the size of each file, and
               \* whether the user asked for a partial ZIP
    sources,   \* the files whose objects are still in the bucket
    job,       \* the row of sheet_zip_jobs
    workers,   \* the requests in a step
    attempts,  \* claims so far
    store,     \* the objects under the job's prefix: name -> content
    sweeping   \* cleanup_jobs deleted the objects and has not recorded it

vars == <<manifest, sources, job, workers, attempts, store, sweeping>>

N == Cardinality(Files)
Ended == {"ready", "incomplete", "failed", "cancelled", "expired"}

\* The records of a ZIP.
Header(f) == [header |-> f]
Data(f, n) == [data |-> f, chunk |-> n]
Descriptor(f) == [descriptor |-> f]
MissingList(files) == [missing |-> files]
Directory(entries) == [directory |-> entries]

\* zip_part_name and zip_final_name
Name(kind, index, attempt) == <<kind, index, attempt>>

\* What the job row and the copy of a worker both hold.  "open": the progress
\* inside file done + 1, of which "read" chunks are in; "start" is its entry's
\* offset.
NewCheckpoint == [done |-> 0, open |-> FALSE, read |-> 0, start |-> 0, written |-> 0,
                  chain |-> <<>>, entries |-> <<>>, missing |-> {}]

Idle == [at |-> "idle", attempt |-> 0, cp |-> NewCheckpoint, buf |-> <<>>,
         first |-> TRUE, outcome |-> "building", created |-> {}, obsolete |-> {}]

Names == {"part", "composite", "end", "zip"} \X (0 .. MaxAttempts) \X (1 .. MaxAttempts)

TypeOK ==
    /\ manifest \in [size : Sizes, partial : BOOLEAN]
    /\ sources \subseteq Files
    /\ job.state \in {"building"} \cup Ended
    /\ job.attempt \in 0 .. attempts /\ job.lease \in 0 .. StepLease
    /\ job.patience \in 0 .. Abandoned /\ job.left \in 0 .. ReadyTtl
    /\ job.cleaned \in BOOLEAN /\ job.zip \in Names \cup {<<>>}
    /\ attempts \in 0 .. MaxAttempts
    /\ DOMAIN store \subseteq Names
    /\ sweeping \in BOOLEAN
    /\ \A cp \in {job.cp} \cup {workers[w].cp : w \in Workers} :
         /\ cp.done \in 0 .. N /\ cp.missing \subseteq Files
         /\ cp.open => cp.done < N
         /\ \A i \in DOMAIN cp.chain : cp.chain[i] \in Names
    /\ \A w \in Workers :
         /\ workers[w].at \in {"idle", "claimed", "loop", "chunk", "write", "compose",
                               "commit", "end", "zip", "verify", "publish", "sweep", "giveup"}
         /\ workers[w].attempt \in 0 .. attempts
         /\ workers[w].outcome \in {"building", "incomplete", "failed", "ready"}
         /\ workers[w].created \cup workers[w].obsolete \subseteq Names

Init ==
    /\ manifest \in [size : Sizes, partial : BOOLEAN]
    /\ sources = Files
    /\ job = [state |-> "building", cp |-> NewCheckpoint, attempt |-> 0, lease |-> 0,
              patience |-> Abandoned, left |-> ReadyTtl, zip |-> <<>>, cleaned |-> FALSE]
    /\ workers = [w \in Workers |-> Idle]
    /\ attempts = 0
    /\ store = <<>>
    /\ sweeping = FALSE

\* The request w goes on as "me".
Become(w, me) == workers' = [workers EXCEPT ![w] = me]

-----------------------------------------------------------------------------
(* Claims *)

\* attempt 0 stands for NULL.  A claim also renews the patience of the cleanup
\* (updated_at).
Claim(w) ==
    /\ workers[w].at = "idle"
    /\ job.state = "building"
    /\ job.attempt = 0 \/ job.lease = 0
    /\ attempts < MaxAttempts
    /\ attempts' = attempts + 1
    /\ job' = [job EXCEPT !.attempt = attempts + 1, !.lease = StepLease, !.patience = Abandoned]
    /\ Become(w, [Idle EXCEPT !.at = "claimed", !.attempt = attempts + 1, !.cp = job.cp])
    /\ UNCHANGED <<manifest, sources, store, sweeping>>

\* _fenced: the worker's claim is the current one, and still live.
Fenced(w) ==
    job.state = "building" /\ job.attempt = workers[w].attempt /\ job.lease > 0

Leave(w) == Become(w, Idle)
Step(w, at) == Become(w, [workers[w] EXCEPT !.at = at])

\* What comes after an exception, and after a commit, uses only this.
Raise(w) == Become(w, [Idle EXCEPT !.at = "giveup", !.attempt = workers[w].attempt])
Finish(w, obsolete) ==
    Become(w, [Idle EXCEPT !.at = "sweep", !.attempt = workers[w].attempt, !.obsolete = obsolete])

\* _work: what is left to do?
Begin(w) ==
    /\ workers[w].at = "claimed"
    /\ IF ~ Fenced(w) THEN Leave(w)
       ELSE IF workers[w].cp.done = N /\ ~ workers[w].cp.open
            THEN Step(w, "end")
            ELSE Step(w, "loop")
    /\ UNCHANGED <<manifest, sources, job, attempts, store, sweeping>>

-----------------------------------------------------------------------------
(* _build: the loop over files and chunks *)

\* A file is left and none is half read.
NextFile(worker) == worker.cp.done < N /\ ~ worker.cp.open

\* A file that is gone is noted; it ends the job unless a partial ZIP is wanted.
Skip(w) ==
    /\ workers[w].at = "loop" /\ NextFile(workers[w])
    /\ LET me == workers[w]
           f  == me.cp.done + 1
       IN  /\ f \notin sources
           /\ Become(w, [me EXCEPT
                 !.cp = [me.cp EXCEPT !.missing = me.cp.missing \cup {f}, !.done = f],
                 !.first = FALSE,
                 !.outcome = IF manifest.partial THEN me.outcome ELSE "incomplete",
                 !.at = IF manifest.partial THEN "loop" ELSE "write"])
    /\ UNCHANGED <<manifest, sources, job, attempts, store, sweeping>>

\* Mutant of Offset: the bytes of this step are forgotten.
OffsetOfParts(worker) == worker.cp.written

\* Where the next record goes in the ZIP: behind the committed parts and what
\* this step has gathered.
Offset(worker) == worker.cp.written + Len(worker.buf)

Open(w) ==
    /\ workers[w].at = "loop" /\ NextFile(workers[w])
    /\ LET me == workers[w]
           f  == me.cp.done + 1
       IN  /\ f \in sources
           /\ Become(w, [me EXCEPT
                 !.cp = [me.cp EXCEPT !.open = TRUE, !.read = 0, !.start = Offset(me)],
                 !.buf = Append(me.buf, Header(f)),
                 !.first = FALSE,
                 !.at = "chunk"])
    /\ UNCHANGED <<manifest, sources, job, attempts, store, sweeping>>

Resume(w) ==
    /\ workers[w].at = "loop" /\ workers[w].cp.open
    /\ Become(w, [workers[w] EXCEPT !.first = FALSE, !.at = "chunk"])
    /\ UNCHANGED <<manifest, sources, job, attempts, store, sweeping>>

\* The rest of an iteration: the next chunk, if there is one; the end of the
\* file, if this was its last.
ReadChunk(w) ==
    /\ workers[w].at = "chunk"
    /\ LET me   == workers[w]
           cp   == me.cp
           f    == cp.done + 1
           more == cp.read < manifest.size[f]
           read == IF more THEN cp.read + 1 ELSE cp.read
           buf  == IF more THEN Append(me.buf, Data(f, read)) ELSE me.buf
       IN  \/ /\ more /\ f \notin sources
              /\ Become(w, [me EXCEPT
                    !.cp = [cp EXCEPT !.missing = cp.missing \cup {f}],
                    !.outcome = IF manifest.partial THEN "failed" ELSE "incomplete",
                    !.at = "write"])
           \/ /\ ~ more \/ f \in sources
              /\ cp.written + Len(buf) > MaxZip
              /\ Become(w, [me EXCEPT !.cp = [cp EXCEPT !.read = read], !.outcome = "failed",
                                      !.at = "write"])
           \/ /\ ~ more \/ f \in sources
              /\ cp.written + Len(buf) <= MaxZip
              /\ read < manifest.size[f]
              /\ Become(w, [me EXCEPT !.cp = [cp EXCEPT !.read = read], !.buf = buf, !.at = "loop"])
           \/ /\ ~ more \/ f \in sources
              /\ cp.written + Len(buf) <= MaxZip
              /\ read = manifest.size[f]
              /\ Become(w, [me EXCEPT
                    !.cp = [cp EXCEPT !.done = f, !.open = FALSE, !.read = 0, !.start = 0,
                                      !.entries = Append(cp.entries, [file |-> f, offset |-> cp.start])],
                    !.buf = Append(buf, Descriptor(f)),
                    !.at = "loop"])
    /\ UNCHANGED <<manifest, sources, job, attempts, store, sweeping>>

\* All files are done, or the budget of time or bytes is used up; the first
\* iteration of a step always runs.
StopReading(w) ==
    /\ workers[w].at = "loop"
    /\ workers[w].cp.done = N \/ ~ workers[w].first
    /\ Step(w, "write")
    /\ UNCHANGED <<manifest, sources, job, attempts, store, sweeping>>

-----------------------------------------------------------------------------
(* _build: the part, the composition and the commit *)

Put(name, content) == store' = [n \in DOMAIN store \cup {name} |->
                                  IF n = name THEN content ELSE store[n]]
Content(names) == FlattenSeq([i \in DOMAIN names |-> store[names[i]]])
Stored(names) == \A i \in DOMAIN names : names[i] \in DOMAIN store

Full(chain) == Len(chain) >= ComposeLimit

\* write_part; a failed call may have written it.
WritePart(w) ==
    /\ workers[w].at = "write"
    /\ LET me   == workers[w]
           name == Name("part", Len(me.cp.chain), me.attempt)
           chain == Append(me.cp.chain, name)
       IN  \/ /\ me.buf = <<>> \/ me.outcome # "building"
              /\ Step(w, "commit")
              /\ UNCHANGED store
           \/ /\ me.buf # <<>> /\ me.outcome = "building"
              /\ Put(name, me.buf)
              /\ \/ Raise(w)
                 \/ Become(w, [me EXCEPT
                       !.cp = [me.cp EXCEPT !.chain = chain, !.written = me.cp.written + Len(me.buf)],
                       !.buf = <<>>,
                       !.created = {name},
                       !.at = IF Full(chain) THEN "compose" ELSE "commit"])
    /\ UNCHANGED <<manifest, sources, job, attempts, sweeping>>

\* compose_into a new object that takes the place of the chain.  It fails when
\* another attempt removed a part, or by itself.
Compose(w) ==
    /\ workers[w].at = "compose"
    /\ LET me   == workers[w]
           name == Name("composite", Len(me.cp.chain), me.attempt)
       IN  \/ /\ Stored(me.cp.chain) /\ Len(me.cp.chain) <= ComposeLimit
              /\ Put(name, Content(me.cp.chain))
              /\ \/ Raise(w)
                 \/ Become(w, [me EXCEPT
                       !.cp = [me.cp EXCEPT !.chain = <<name>>],
                       !.created = me.created \cup {name},
                       !.obsolete = ToSet(me.cp.chain),
                       !.at = "commit"])
           \/ /\ Raise(w)
              /\ UNCHANGED store
    /\ UNCHANGED <<manifest, sources, job, attempts, sweeping>>

\* The patience counts only while the job is being built.
Release(state) == [job EXCEPT !.state = state, !.attempt = 0, !.lease = 0,
                              !.patience = IF state = "building" THEN Abandoned ELSE 0]

\* The new checkpoint, by the attempt that still holds the claim; the answer of
\* the commit may be lost, which the except clause of _work does not notice.
Commit(w) ==
    /\ workers[w].at = "commit" /\ Fenced(w)
    /\ job' = [Release(workers[w].outcome) EXCEPT
                  !.cp = workers[w].cp,
                  !.left = IF workers[w].outcome = "building" THEN job.left ELSE ReadyTtl]
    /\ Finish(w, workers[w].obsolete) \/ Leave(w)
    /\ UNCHANGED <<manifest, sources, attempts, store, sweeping>>

DropObjects(names) == store' = [n \in DOMAIN store \ names |-> store[n]]

\* Mutant of CommitLost: what the commit would have made obsolete goes, too.
CommitLostAll(w) ==
    /\ workers[w].at \in {"commit", "publish"} /\ ~ Fenced(w)
    /\ \E names \in SUBSET (workers[w].created \cup workers[w].obsolete) : DropObjects(names)
    /\ Leave(w)
    /\ UNCHANGED <<manifest, sources, job, attempts, sweeping>>

\* The claim is lost: the worker deletes what it created in vain, as far as the
\* storage lets it, and touches nothing else.
CommitLost(w) ==
    /\ workers[w].at \in {"commit", "publish"} /\ ~ Fenced(w)
    /\ \E names \in SUBSET workers[w].created : DropObjects(names)
    /\ Leave(w)
    /\ UNCHANGED <<manifest, sources, job, attempts, sweeping>>

\* What the commit made obsolete is deleted, as far as the budget and the
\* storage allow.
SweepObsolete(w) ==
    /\ workers[w].at = "sweep"
    /\ \E names \in SUBSET workers[w].obsolete : DropObjects(names)
    /\ Leave(w)
    /\ UNCHANGED <<manifest, sources, job, attempts, sweeping>>

-----------------------------------------------------------------------------
(* _finish *)

EndRecords(cp) ==
    LET listed == manifest.partial /\ cp.missing # {}
        entries == IF listed THEN Append(cp.entries, [file |-> 0, offset |-> cp.written])
                             ELSE cp.entries
    IN  IF listed THEN <<MissingList(cp.missing), Directory(entries)>> ELSE <<Directory(entries)>>

WriteEnd(w) ==
    /\ workers[w].at = "end"
    /\ LET me   == workers[w]
           name == Name("end", Len(me.cp.chain), me.attempt)
       IN  /\ Put(name, EndRecords(me.cp))
           /\ \/ Raise(w)
              \/ Become(w, [me EXCEPT !.created = {name}, !.at = "zip"])
    /\ UNCHANGED <<manifest, sources, job, attempts, sweeping>>

ComposeZip(w) ==
    /\ workers[w].at = "zip"
    /\ LET me    == workers[w]
           all   == Append(me.cp.chain, Name("end", Len(me.cp.chain), me.attempt))
           name  == Name("zip", 0, me.attempt)
       IN  \/ /\ Stored(all) /\ Len(all) <= ComposeLimit
              /\ Put(name, Content(all))
              /\ \/ Raise(w)
                 \/ Become(w, [me EXCEPT !.created = me.created \cup {name}, !.at = "verify"])
           \/ /\ Raise(w)
              /\ UNCHANGED store
    /\ UNCHANGED <<manifest, sources, job, attempts, sweeping>>

\* The composed object is read back: its length and its end record.
Verified(w) ==
    LET name == Name("zip", 0, workers[w].attempt)
        tail == EndRecords(workers[w].cp)
    IN  /\ name \in DOMAIN store
        /\ Len(store[name]) = workers[w].cp.written + Len(tail)
        /\ Last(store[name]) = Last(tail)

\* A read that fails counts as a mismatch.
Verify(w) ==
    /\ workers[w].at = "verify"
    /\ \E outcome \in {"ready", "failed"} :
         /\ outcome = "ready" => Verified(w)
         /\ Become(w, [workers[w] EXCEPT !.outcome = outcome, !.at = "publish"])
    /\ UNCHANGED <<manifest, sources, job, attempts, store, sweeping>>

Publish(w) ==
    /\ workers[w].at = "publish" /\ Fenced(w)
    /\ LET me    == workers[w]
           name  == Name("zip", 0, me.attempt)
           ready == me.outcome = "ready"
       IN  /\ job' = [Release(me.outcome) EXCEPT !.zip = IF ready THEN name ELSE <<>>,
                                                 !.left = ReadyTtl]
           /\ \/ Finish(w, IF ready THEN ToSet(me.cp.chain) \cup (me.created \ {name}) ELSE {name})
              \/ Leave(w)
    /\ UNCHANGED <<manifest, sources, attempts, store, sweeping>>

-----------------------------------------------------------------------------
(* Failures, the user and the cleanup *)

\* A call of the storage or the database fails, changing nothing.
Fail(w) ==
    /\ workers[w].at \in {"loop", "chunk", "write", "commit", "end", "publish"}
    /\ Raise(w)
    /\ UNCHANGED <<manifest, sources, job, attempts, store, sweeping>>

\* The except clause of _work: the next request may claim at once.
GiveUp(w) ==
    /\ workers[w].at = "giveup"
    /\ job' = IF Fenced(w)
              THEN Release("building")
              ELSE job
    /\ Leave(w)
    /\ UNCHANGED <<manifest, sources, attempts, store, sweeping>>

\* The server stops.
Crash(w) ==
    /\ workers[w].at # "idle"
    /\ Leave(w)
    /\ UNCHANGED <<manifest, sources, job, attempts, store, sweeping>>

\* Mutant of Cancel: a job that has ended is cancelled, too.
CancelAny ==
    /\ job.state # "cancelled"
    /\ job' = [Release("cancelled") EXCEPT !.left = 0]
    /\ UNCHANGED <<manifest, sources, workers, attempts, store, sweeping>>

Cancel ==
    /\ job.state = "building"
    /\ job' = [Release("cancelled") EXCEPT !.left = 0]
    /\ UNCHANGED <<manifest, sources, workers, attempts, store, sweeping>>

\* cleanup_jobs: no live claim, and no request for 30 minutes.
Abandon ==
    /\ job.state = "building"
    /\ job.attempt = 0 \/ job.lease = 0
    /\ job.patience = 0
    /\ job' = [Release("failed") EXCEPT !.left = 0]
    /\ UNCHANGED <<manifest, sources, workers, attempts, store, sweeping>>

\* cleanup_jobs: everything under the job's prefix goes, object by object; where
\* the storage fails, the rest, and the job, are left to the next run.
Sweep ==
    /\ job.state # "building" /\ ~ job.cleaned /\ job.left = 0
    /\ ~ sweeping
    /\ \/ store' = <<>> /\ sweeping' = TRUE
       \/ /\ \E name \in DOMAIN store : DropObjects({name})
          /\ UNCHANGED sweeping
    /\ UNCHANGED <<manifest, sources, job, workers, attempts>>

RecordSweep ==
    /\ sweeping
    /\ job' = [job EXCEPT !.state = IF @ = "ready" THEN "expired" ELSE @, !.cleaned = TRUE]
    /\ sweeping' = FALSE
    /\ UNCHANGED <<manifest, sources, workers, attempts, store>>

\* A run of the cleanup stops in between.
SweepCrash ==
    /\ sweeping
    /\ sweeping' = FALSE
    /\ UNCHANGED <<manifest, sources, job, workers, attempts, store>>

\* The object of a file goes: its lease is over or never protected it.
Vanish(f) ==
    /\ f \in sources
    /\ sources' = sources \ {f}
    /\ UNCHANGED <<manifest, job, workers, attempts, store, sweeping>>

Less(n) == IF n = 0 THEN 0 ELSE n - 1

\* Without bearing on anything, time does not pass.
Tick ==
    /\ job.lease > 0 \/ job.patience > 0 \/ job.left > 0
    /\ job' = [job EXCEPT !.lease = Less(@), !.patience = Less(@),
                          !.left = IF job.state = "building" THEN @ ELSE Less(@)]
    /\ UNCHANGED <<manifest, sources, workers, attempts, store, sweeping>>

WorkerStep(w) ==
    \/ Claim(w) \/ Begin(w)
    \/ Skip(w) \/ Open(w) \/ Resume(w) \/ ReadChunk(w) \/ StopReading(w)
    \/ WritePart(w) \/ Compose(w) \/ Commit(w) \/ CommitLost(w) \/ SweepObsolete(w)
    \/ WriteEnd(w) \/ ComposeZip(w) \/ Verify(w) \/ Publish(w)
    \/ Fail(w) \/ GiveUp(w) \/ Crash(w)

Next ==
    \/ \E w \in Workers : WorkerStep(w)
    \/ Cancel \/ Abandon \/ Sweep \/ RecordSweep \/ SweepCrash
    \/ \E f \in Files : Vanish(f)
    \/ Tick

Spec == Init /\ [][Next]_vars

-----------------------------------------------------------------------------
(* Properties *)

\* What a complete ZIP of these files holds, in this order.
Whole(files) ==
    FlattenSeq([i \in DOMAIN files |->
        <<Header(files[i])>>
        \o [n \in 1 .. manifest.size[files[i]] |-> Data(files[i], n)]
        \o <<Descriptor(files[i])>>])

\* A ready ZIP can be downloaded and is what was promised, however its steps
\* were cut, repeated or overtaken: each file that is not missing is in it once,
\* whole, at the offset the directory gives, and only a partial ZIP, which says
\* so, lacks any.
ReadyComplete ==
    job.state = "ready" /\ job.left > 0 =>
        LET entries == job.cp.entries
            files   == [i \in DOMAIN entries |-> entries[i].file]
            tail    == EndRecords(job.cp)
        IN  /\ job.zip \in DOMAIN store
            /\ store[job.zip] = Whole(files) \o tail
            /\ job.cp.missing # {} => manifest.partial
            /\ ToSet(files) = Files \ job.cp.missing
            /\ \A i, k \in DOMAIN files : i < k => files[i] < files[k]
            /\ \A i \in DOMAIN entries :
                 store[job.zip][entries[i].offset + 1] = Header(files[i])

\* The parts of a job that is being built are in the storage and hold what the
\* checkpoint says, also when an attempt that lost its claim cleans up late.
PartsPresent ==
    job.state = "building" =>
        Stored(job.cp.chain) /\ Len(Content(job.cp.chain)) = job.cp.written

\* "<= 32 sources (composed while building)": the last composition, of the
\* chain and the end records, stays within the limit of the storage.
ComposeFits ==
    \A w \in Workers : workers[w].at = "zip" =>
        Len(workers[w].cp.chain) + 1 <= ComposeLimit

\* No step undoes the work of another: whatever was repeated or came late, a
\* new checkpoint of the job is never behind the one it replaces.
CheckpointAdvances ==
    [][LET old == job.cp
           new == job'.cp
       IN  /\ \/ new.done > old.done
              \/ new.done = old.done /\ new.read >= old.read /\ (old.open => new.open)
           /\ old.missing \subseteq new.missing
           /\ IsPrefix(old.entries, new.entries)]_vars

\* A job that has ended stays as it ended, whichever step, cancellation or
\* cleanup comes late: only a ready one expires.
EndedStays ==
    [][job.state \in Ended =>
         /\ job'.state \in {job.state} \cup (IF job.state = "ready" THEN {"expired"} ELSE {})
         /\ job'.zip = job.zip /\ job'.cp = job.cp]_vars

\* What a late attempt may never do to a job.
NoLateWork == CheckpointAdvances /\ EndedStays

\* What the composition of a job needs.
PartsFit == PartsPresent /\ ComposeFits
=============================================================================
