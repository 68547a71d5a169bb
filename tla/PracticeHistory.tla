---------------------------- MODULE PracticeHistory ----------------------------
(***************************************************************************)
(* The tuner's practice history of one member on one device: the database  *)
(* of the device (modules/tuner/storage_local.js), which several tabs      *)
(* share, the outbox that sends summaries to the account                   *)
(* (storage_remote.js), the flows of a tab (workspace.js, view_history.js) *)
(* and the account's history on the server (tuner_repository.py).          *)
(*                                                                         *)
(* A flow is one chain of promises in one tab.  Each transaction of the    *)
(* database and each request is a step of its own: a transaction happens   *)
(* where the call creates it, and between two steps the other flows and    *)
(* tabs go on.  A tab may close at any step.                               *)
(*                                                                         *)
(* Only the states and the presence of data are kept.  The quota and the   *)
(* limits of a session are a refusal that may come at any write.  The user  *)
(* saves history and lets it be sent to the account.                       *)
(***************************************************************************)
EXTENDS Naturals, FiniteSets

CONSTANTS
    None,
    Tabs,
    Flows,      \* the chains that may be under way at once
    Sessions,   \* random session ids
    Parts,      \* parts of an upload: the note events, 500 at a time
    MaxEpoch,   \* bound: deletions of the whole history
    MaxQueued   \* bound: operations ever put in the outbox

ASSUME NoneAssumption == None \notin Tabs \cup Flows \cup Sessions
ASSUME BoundsAssumption == {Parts, MaxEpoch, MaxQueued} \subseteq Nat

VARIABLES
    \* portalTunerAdvanced, the database of the device
    rows,        \* sessions: the status of each
    series,      \* sessions with stored seriesChunks
    notes,       \* sessions with stored noteEvents
    outbox,      \* syncOutbox
    generation,  \* ownerSettings.historyGeneration
    tabs, flows, server,
    \* history variables of the properties
    deleted,     \* sessions the user deleted on this device
    erased,      \* sessions the server deleted for the user
    queued,      \* how many operations were ever queued
    owed         \* operations of this epoch that nothing has excused

device == <<rows, series, notes, outbox, generation>>
ghosts == <<deleted, erased, queued, owed>>
vars == <<device, tabs, flows, server, ghosts>>

RowStates == {"none", "recording", "incomplete", "complete"}
Ops == [id : 1 .. MaxQueued, type : {"upload", "delete"}, session : Sessions, history : 0 .. MaxEpoch]
NoOp == [id |-> 0, type |-> None, session |-> None, history |-> 0]

Writes == {"begin", "chunk", "notes"}
Requests == {"create", "part", "finalize", "delete", "wipe"}
Stages == Writes \cup Requests
          \cup {"idle", "undo", "open", "close", "enqueue", "tell", "restore", "next", "identity"}
Answers == {None, "ok", "gone", "missing", "conflict", "epoch", "network"}

\* current: the owner fixed by the flow is still the tab's (not stale(ctx));
\* history: its historyEpoch; saved: the generation withQuota read.
Idle == [at |-> "idle", tab |-> None, session |-> None, current |-> FALSE, history |-> 0,
         saved |-> 0, found |-> {}, todo |-> {}, op |-> NoOp, content |-> "none", parts |-> 0,
         sent |-> 0, answer |-> None, conflict |-> FALSE]

\* owner: the historyEpoch of the owner, None without one.
Opened == [owner |-> None, recording |-> None]

NoSession == [status |-> "none", content |-> "none", expects |-> 0, parts |-> {}]

Init ==
    /\ rows = [s \in Sessions |-> "none"] /\ series = {} /\ notes = {}
    /\ outbox = {} /\ generation = 0
    /\ tabs = [t \in Tabs |-> Opened]
    /\ flows = [f \in Flows |-> Idle]
    /\ server = [epoch |-> 0, sessions |-> [s \in Sessions |-> NoSession], tombs |-> {}]
    /\ deleted = {} /\ erased = {} /\ queued = 0 /\ owed = {}

Tab(f) == tabs[flows[f].tab]
At(f, stage) == flows[f].at = stage
Go(f, stage) == [flows EXCEPT ![f].at = stage, ![f].saved = 0]
End(f) == [flows EXCEPT ![f] = Idle]
Owned(t) == tabs[t].owner # None

\* A call fixes the owner.
Call(f, t, stage, s) ==
    [flows EXCEPT ![f] = [Idle EXCEPT !.at = stage, !.tab = t, !.session = s, !.current = TRUE,
                                      !.history = tabs[t].owner]]

\* setOwner and clearOwner: the flows of the tab are stale.
Stale(t) == [f \in Flows |-> IF flows[f].tab = t THEN [flows[f] EXCEPT !.current = FALSE] ELSE flows[f]]

-----------------------------------------------------------------------------
(* The owner *)

\* resolveOwner asks the server who is signed in.  The answer sets the owner, and
\* recoverIncomplete reads the sessions left "recording" that were not updated for
\* 30 minutes; without an answer there is no owner.
Resolve(f, t) ==
    /\ \/ At(f, "idle") /\ ~ Owned(t)   \* getOwner
       \/ At(f, "identity") /\ flows[f].tab = t
    /\ \/ /\ tabs' = [tabs EXCEPT ![t].owner = server.epoch]
          /\ \E found \in SUBSET {s \in Sessions : rows[s] = "recording"} :
               flows' = [Stale(t) EXCEPT ![f] =
                 IF found = {} THEN Idle
                 ELSE [Idle EXCEPT !.at = "restore", !.tab = t, !.current = TRUE, !.found = found]]
       \/ /\ tabs' = [tabs EXCEPT ![t].owner = None]
          /\ flows' = End(f)
    /\ UNCHANGED <<device, server, ghosts>>

\* The rows that recoverIncomplete read are written back as "incomplete",
\* whatever became of them.
RestoreInterrupted(f) ==
    /\ At(f, "restore")
    /\ rows' = [s \in Sessions |-> IF flows[f].current /\ s \in flows[f].found
                                   THEN "incomplete" ELSE rows[s]]
    /\ flows' = End(f)
    /\ UNCHANGED <<series, notes, outbox, generation, tabs, server, ghosts>>

\* onLeave at a sign-out, and clearPersonal.
SignOut(t) ==
    /\ Owned(t)
    /\ tabs' = [tabs EXCEPT ![t].owner = None, ![t].recording = None]
    /\ flows' = Stale(t)
    /\ UNCHANGED <<device, server, ghosts>>

\* The tab is closed, or crashes, and is opened again.
Reopen(t) ==
    /\ tabs' = [tabs EXCEPT ![t] = Opened]
    /\ flows' = [f \in Flows |-> IF flows[f].tab = t THEN Idle ELSE flows[f]]
    /\ UNCHANGED <<device, server, ghosts>>

-----------------------------------------------------------------------------
(* Recording *)

\* startRecording, with a new session id.
Start(f, t, s) ==
    /\ At(f, "idle") /\ Owned(t) /\ tabs[t].recording = None
    /\ rows[s] = "none" /\ s \notin deleted /\ \A g \in Flows : flows[g].session # s
    /\ flows' = [Call(f, t, "begin", s) EXCEPT ![f].saved = generation]
    /\ UNCHANGED <<device, tabs, server, ghosts>>

\* withQuota: the owner is still the same, and inside the write transaction
\* nobody has deleted all since the call.  (memoryGeneration, which the deletion
\* of the same tab raises in the step that creates its transaction, says no more.)
Guard(f) == flows[f].current /\ generation = flows[f].saved

Unlinked(f) ==
    IF Tab(f).recording = flows[f].session THEN [tabs EXCEPT ![flows[f].tab].recording = None] ELSE tabs

\* A write that is refused: no space, a limit, a failure, or a check.  The
\* recording of a chunk ends, but stays open for the practice that ends it.
Refused(f) ==
    /\ flows[f].at \in Writes
    /\ tabs' = Unlinked(f)
    /\ flows' = IF At(f, "chunk") THEN Go(f, "open") ELSE End(f)
    /\ UNCHANGED <<device, server, ghosts>>

\* beginSession's write.  The id is random, so no tombstone stops it.  When the
\* tab was left or records another session meanwhile, the new one is deleted again.
Begin(f) ==
    LET t == flows[f].tab  s == flows[f].session IN
    /\ At(f, "begin") /\ Guard(f)
    /\ rows' = [rows EXCEPT ![s] = "recording"]
    /\ \/ /\ tabs[t].recording = None
          /\ tabs' = [tabs EXCEPT ![t].recording = s]
          /\ flows' = Go(f, "open")
       \/ /\ flows' = Go(f, "undo") /\ UNCHANGED tabs
    /\ UNCHANGED <<series, notes, outbox, generation, server, ghosts>>

\* flushChunk, about once a second while the recording is the tab's.
FlushChunk(f) ==
    /\ At(f, "open") /\ Tab(f).recording = flows[f].session
    /\ flows' = [flows EXCEPT ![f].at = "chunk", ![f].saved = generation]
    /\ UNCHANGED <<device, tabs, server, ghosts>>

\* Mutant of Recordable: the row is not read in the transaction of the write.
RecordableUnread(s) == s \in DOMAIN rows

Recordable(s) == rows[s] = "recording"

\* appendChunk's write: the series and the progress of the session.
AppendChunk(f) ==
    /\ At(f, "chunk") /\ Guard(f) /\ Recordable(flows[f].session)
    /\ series' = series \cup {flows[f].session}
    /\ flows' = Go(f, "open")
    /\ UNCHANGED <<rows, notes, outbox, generation, tabs, server, ghosts>>

\* onLeave: the session stays open for the practice that ends it.
Leave(t) ==
    /\ tabs[t].recording # None
    /\ tabs' = [tabs EXCEPT ![t].recording = None]
    /\ UNCHANGED <<device, flows, server, ghosts>>

\* finalizeRecording: the note events first,
Finish(f) ==
    /\ At(f, "open")
    /\ tabs' = Unlinked(f)
    /\ flows' = IF flows[f].current THEN [flows EXCEPT ![f].at = "notes", ![f].saved = generation] ELSE End(f)
    /\ UNCHANGED <<device, server, ghosts>>

\* putEvents' write,
PutEvents(f) ==
    /\ At(f, "notes") /\ Guard(f) /\ rows[flows[f].session] # "none"
    /\ notes' = notes \cup {flows[f].session}
    /\ flows' = Go(f, "close")
    /\ UNCHANGED <<rows, series, outbox, generation, tabs, server, ghosts>>

\* finalizeSession,
Close(f) ==
    LET s == flows[f].session IN
    /\ At(f, "close")
    /\ \/ /\ flows[f].current /\ rows[s] # "none"
          /\ rows' = [rows EXCEPT ![s] = "complete"]
          /\ flows' = Go(f, "enqueue")
       \/ /\ ~ flows[f].current \/ rows[s] = "none"
          /\ flows' = End(f) /\ UNCHANGED rows
    /\ UNCHANGED <<series, notes, outbox, generation, tabs, server, ghosts>>

\* enqueue of storage_local.js: without a look at the session or its tombstone.
Put(f, type) ==
    LET op == [id |-> queued + 1, type |-> type, session |-> flows[f].session,
               history |-> flows[f].history]
    IN  /\ queued < MaxQueued
        /\ outbox' = outbox \cup {op} /\ queued' = queued + 1
        /\ owed' = IF op.history = server.epoch THEN owed \cup {op} ELSE owed

\* and the operation that sends the summary.  The deletion of a session tells the
\* account in the same way.  syncNow then takes the owner and reads the outbox.
Enqueue(f) ==
    /\ flows[f].at \in {"enqueue", "tell"}
    /\ \/ /\ flows[f].current /\ Owned(flows[f].tab)
          /\ Put(f, IF At(f, "enqueue") THEN "upload" ELSE "delete")
          /\ flows' = [Call(f, flows[f].tab, "next", None) EXCEPT ![f].todo = outbox']
       \/ /\ flows[f].current /\ ~ Owned(flows[f].tab)
          /\ Put(f, IF At(f, "enqueue") THEN "upload" ELSE "delete")
          /\ flows' = End(f)
       \/ /\ ~ flows[f].current
          /\ flows' = End(f) /\ UNCHANGED <<outbox, queued, owed>>
    /\ UNCHANGED <<rows, series, notes, generation, tabs, server, deleted, erased>>

-----------------------------------------------------------------------------
(* Deleting *)

\* deleteSession: one transaction.
Erase(s) ==
    /\ rows' = [rows EXCEPT ![s] = "none"]
    /\ series' = series \ {s} /\ notes' = notes \ {s}
    /\ outbox' = {op \in outbox : op.session # s \/ op.type = "delete"}
    /\ deleted' = deleted \cup {s}
    /\ UNCHANGED <<generation, server, erased, queued, owed>>

\* discardRecording, and the end of a recording that came too late; a stale owner
\* cannot delete.
Discard(f) ==
    /\ flows[f].at \in {"open", "undo"}
    /\ tabs' = Unlinked(f) /\ flows' = End(f)
    /\ \/ flows[f].current /\ Erase(flows[f].session)
       \/ ~ flows[f].current /\ UNCHANGED <<device, server, ghosts>>

\* The user deletes a session of the list.
Delete(f, t, s) ==
    /\ At(f, "idle") /\ Owned(t) /\ rows[s] # "none"
    /\ Erase(s)
    /\ flows' = Call(f, t, "tell", s)
    /\ UNCHANGED tabs

\* deleteAllHistory: deleteAll, then the account's history, then resolveOwner.
DeleteAll(f, t) ==
    /\ At(f, "idle") /\ Owned(t) /\ generation < MaxEpoch
    /\ rows' = [s \in Sessions |-> "none"] /\ series' = {} /\ notes' = {} /\ outbox' = {}
    /\ generation' = generation + 1
    /\ deleted' = deleted \cup {s \in Sessions : rows[s] # "none"}
    /\ owed' = owed \ outbox
    /\ flows' = Call(f, t, "wipe", None)
    /\ UNCHANGED <<tabs, server, erased, queued>>

-----------------------------------------------------------------------------
(* syncOutbox *)

\* syncNow after a session ended or was deleted that is not one of Sessions.
SyncAgain(f, t) ==
    /\ At(f, "idle") /\ Owned(t) /\ outbox # {}
    /\ flows' = [Call(f, t, "next", None) EXCEPT ![f].todo = outbox]
    /\ UNCHANGED <<device, tabs, server, ghosts>>

Ask(f) == flows' = [flows EXCEPT ![f] = [Idle EXCEPT !.at = "identity", !.tab = flows[f].tab]]

\* The end of a sync, which asks for the new epoch if the server had another.
Stop(f) == IF flows[f].conflict THEN Ask(f) ELSE flows' = End(f)

Take(f, op) == outbox' = outbox \ {op} /\ flows' = [flows EXCEPT ![f].at = "next", ![f].todo = @ \ {op}]

OfThisEpoch(f, op) == op.history = flows[f].history

\* The next operation, oldest first: dropped when its epoch is another or its
\* session is no longer on the device, otherwise sent.
NextOperation(f) ==
    /\ At(f, "next")
    /\ \/ /\ ~ flows[f].current \/ flows[f].todo = {}
          /\ Stop(f) /\ UNCHANGED <<outbox, owed>>
       \/ \E op \in flows[f].todo :
            /\ flows[f].current
            /\ \A p \in flows[f].todo : op.id <= p.id
            /\ \/ /\ ~ OfThisEpoch(f, op)
                  /\ Take(f, op)
                  /\ owed' = owed \ {op}
               \/ /\ OfThisEpoch(f, op) /\ op.type = "upload" /\ rows[op.session] = "none"
                  /\ Take(f, op) /\ UNCHANGED owed
               \/ /\ OfThisEpoch(f, op) /\ (op.type = "delete" \/ rows[op.session] # "none")
                  /\ flows' = [flows EXCEPT
                       ![f].at = IF op.type = "upload" THEN "create" ELSE "delete", ![f].op = op,
                       ![f].content = IF op.type = "upload" THEN rows[op.session] ELSE "none",
                       ![f].parts = IF op.type = "upload" /\ op.session \in notes THEN Parts ELSE 0]
                  /\ UNCHANGED <<outbox, owed>>
    /\ UNCHANGED <<rows, series, notes, generation, tabs, server, deleted, erased, queued>>

Sent(f) == flows[f].at \in {"create", "part", "finalize", "delete"} /\ flows[f].answer # None

\* runOperation: the request after a good answer.
Following(f) ==
    LET w == flows[f]
        sent == IF w.at = "part" THEN w.sent + 1 ELSE 0
    IN  IF w.at \in {"create", "part"} THEN (IF sent < w.parts THEN "part" ELSE "finalize") ELSE "done"

Continue(f) ==
    /\ Sent(f) /\ flows[f].current /\ flows[f].answer = "ok" /\ Following(f) # "done"
    /\ flows' = [flows EXCEPT ![f].at = Following(f), ![f].answer = None,
                              ![f].sent = IF flows[f].at = "part" THEN @ + 1 ELSE @]
    /\ UNCHANGED <<device, tabs, server, ghosts>>

\* Mutant of Final: an operation without an answer is dropped too.
FinalAlways(f) == flows[f].answer # "conflict"

\* The answers after which an operation is removed.
Final(f) == \/ flows[f].answer \in {"gone", "missing", "epoch"}
            \/ flows[f].answer = "ok" /\ Following(f) = "done"

\* The operation is removed, or put back as it was read (updateOperation).
Settle(f) ==
    LET op == flows[f].op IN
    /\ Sent(f) /\ flows[f].current
    /\ \/ /\ Final(f)
          /\ outbox' = outbox \ {op}
          /\ owed' = IF flows[f].answer = "missing" THEN owed \ {op} ELSE owed
       \/ /\ ~ Final(f) /\ flows[f].answer # "ok"
          /\ outbox' = outbox \cup {op} /\ UNCHANGED owed
    /\ flows' = [flows EXCEPT ![f].at = "next", ![f].todo = @ \ {op}, ![f].op = NoOp, ![f].answer = None,
                              ![f].content = "none", ![f].parts = 0, ![f].sent = 0,
                              ![f].conflict = @ \/ flows[f].answer = "epoch"]
    /\ UNCHANGED <<rows, series, notes, generation, tabs, server, deleted, erased, queued>>

\* The owner changed while the request was under way: the answer is discarded.
Discarded(f) ==
    /\ Sent(f) /\ ~ flows[f].current
    /\ Stop(f)
    /\ UNCHANGED <<device, tabs, server, ghosts>>

\* deleteAllHistory resolves the owner again, whatever the answer was.
Wiped(f) ==
    /\ At(f, "wipe") /\ flows[f].answer # None
    /\ Ask(f)
    /\ UNCHANGED <<device, tabs, server, ghosts>>

-----------------------------------------------------------------------------
(* The server: each request is one transaction under the lock of the owner *)

Waits(f, request) == At(f, request) /\ flows[f].answer = None
Reply(f, code) == flows' = [flows EXCEPT ![f].answer = code]
Local == <<device, tabs, deleted, queued>>

\* Mutant of Refusal: a deleted session can be created again.
RefusalOfEpoch(f) == IF flows[f].history # server.epoch THEN "epoch" ELSE "ok"

Refusal(f) ==
    IF flows[f].history # server.epoch THEN "epoch"
    ELSE IF flows[f].op.session \in server.tombs THEN "gone" ELSE "ok"

ServeCreate(f) ==
    LET s == flows[f].op.session  old == server.sessions[s] IN
    /\ Waits(f, "create")
    /\ \/ /\ Refusal(f) # "ok"
          /\ Reply(f, Refusal(f)) /\ UNCHANGED server
       \/ /\ Refusal(f) = "ok" /\ old.status = "none"
          /\ server' = [server EXCEPT !.sessions[s] =
               [status |-> "uploading", content |-> flows[f].content, expects |-> flows[f].parts, parts |-> {}]]
          /\ Reply(f, "ok")
       \/ /\ Refusal(f) = "ok" /\ old.status # "none"
          /\ Reply(f, IF old.content = flows[f].content /\ old.expects = flows[f].parts THEN "ok" ELSE "conflict")
          /\ UNCHANGED server
    /\ UNCHANGED <<Local, erased, owed>>

ServePart(f) ==
    LET s == flows[f].op.session  old == server.sessions[s] IN
    /\ Waits(f, "part")
    /\ \/ /\ Refusal(f) # "ok"
          /\ Reply(f, Refusal(f)) /\ UNCHANGED server
       \/ /\ Refusal(f) = "ok" /\ old.status = "uploading"
          /\ server' = [server EXCEPT !.sessions[s].parts = @ \cup {flows[f].sent}]
          /\ Reply(f, "ok")
       \/ /\ Refusal(f) = "ok" /\ old.status # "uploading"
          /\ Reply(f, IF old.status = "none" THEN "missing" ELSE "conflict")
          /\ UNCHANGED server
    /\ UNCHANGED <<Local, erased, owed>>

\* Mutant of AllParts: the parts are not compared.
AllPartsTrusted(f, old) == flows[f].parts = old.expects

AllParts(f, old) == old.parts = 0 .. flows[f].parts - 1 /\ flows[f].parts = old.expects

ServeFinalize(f) ==
    LET s == flows[f].op.session  old == server.sessions[s] IN
    /\ Waits(f, "finalize")
    /\ \/ /\ Refusal(f) # "ok"
          /\ Reply(f, Refusal(f)) /\ UNCHANGED server
       \/ /\ Refusal(f) = "ok" /\ old.status = "uploading" /\ AllParts(f, old)
          /\ server' = [server EXCEPT !.sessions[s].status = "complete"]
          /\ Reply(f, "ok")
       \/ /\ Refusal(f) = "ok" /\ ~ (old.status = "uploading" /\ AllParts(f, old))
          /\ Reply(f, CASE old.status = "none" -> "missing"
                        [] old.status = "complete" -> "ok"
                        [] OTHER -> "conflict")
          /\ UNCHANGED server
    /\ UNCHANGED <<Local, erased, owed>>

ServeDelete(f) ==
    LET s == flows[f].op.session IN
    /\ Waits(f, "delete")
    /\ server' = [server EXCEPT !.sessions[s] = NoSession, !.tombs = @ \cup {s}]
    /\ erased' = erased \cup {s}
    /\ Reply(f, "ok")
    /\ UNCHANGED <<Local, owed>>

\* delete_history: the epoch goes up in the same transaction.
HistoryDeleted ==
    /\ server.epoch < MaxEpoch
    /\ server' = [server EXCEPT !.epoch = @ + 1, !.sessions = [s \in Sessions |-> NoSession]]
    /\ erased' = erased \cup {s \in Sessions : server.sessions[s].status # "none"}
    /\ owed' = {}

ServeWipe(f) == Waits(f, "wipe") /\ HistoryDeleted /\ Reply(f, "ok") /\ UNCHANGED Local

\* The member deletes the history from another device.
OtherDeletesHistory == HistoryDeleted /\ UNCHANGED <<Local, flows>>

\* cleanup_expired_parts, in the next create request of any tab or device: an
\* upload that was begun 24 hours ago is removed.
Expire(s) ==
    /\ server.sessions[s].status = "uploading"
    /\ server' = [server EXCEPT !.sessions[s] = NoSession]
    /\ UNCHANGED <<Local, flows, erased, owed>>

\* No answer, whether the request arrived or not.
Lose(f) ==
    /\ flows[f].at \in Requests /\ flows[f].answer \in {None, "ok"}
    /\ Reply(f, "network")
    /\ UNCHANGED <<Local, server, erased, owed>>

Record(f) == \/ Refused(f) \/ Begin(f) \/ FlushChunk(f) \/ AppendChunk(f)
             \/ Finish(f) \/ Discard(f) \/ PutEvents(f) \/ Close(f)
Sync(f) == Enqueue(f) \/ NextOperation(f) \/ Continue(f) \/ Settle(f) \/ Discarded(f) \/ Wiped(f)
Serve(f) == \/ ServeCreate(f) \/ ServePart(f) \/ ServeFinalize(f)
            \/ ServeDelete(f) \/ ServeWipe(f)

Next ==
    \/ \E f \in Flows :
         \/ Record(f) \/ Sync(f) \/ Serve(f) \/ Lose(f)
         \/ RestoreInterrupted(f)
         \/ \E t \in Tabs :
              \/ Resolve(f, t) \/ DeleteAll(f, t) \/ SyncAgain(f, t)
              \/ \E s \in Sessions : Start(f, t, s) \/ Delete(f, t, s)
    \/ \E t \in Tabs : Leave(t) \/ SignOut(t) \/ Reopen(t)
    \/ \E s \in Sessions : Expire(s)
    \/ OtherDeletesHistory

Spec == Init /\ [][Next]_vars

-----------------------------------------------------------------------------
(* Properties *)

ServerSessions ==
    [status : {"none", "uploading", "complete"}, content : RowStates, expects : 0 .. Parts,
     parts : SUBSET (0 .. Parts - 1)]

FlowRecords ==
    [at : Stages, tab : Tabs \cup {None}, session : Sessions \cup {None}, current : BOOLEAN,
     history : 0 .. MaxEpoch, saved : 0 .. MaxEpoch, found : SUBSET Sessions, todo : SUBSET Ops,
     op : Ops \cup {NoOp}, content : RowStates, parts : 0 .. Parts, sent : 0 .. Parts,
     answer : Answers, conflict : BOOLEAN]

TabRecords ==
    [owner : 0 .. MaxEpoch \cup {None}, recording : Sessions \cup {None}]

\* Every variable has its type, a tab records only for a chain that is open, and
\* nobody has an epoch the server never had.
TypeOK ==
    /\ rows \in [Sessions -> RowStates] /\ {series, notes, deleted, erased} \subseteq SUBSET Sessions
    /\ queued \in 0 .. MaxQueued /\ outbox \cup owed \subseteq Ops
    /\ generation \in 0 .. MaxEpoch
    /\ tabs \in [Tabs -> TabRecords]
    /\ \A t \in Tabs : tabs[t].recording # None =>
         \E f \in Flows : flows[f].tab = t /\ flows[f].session = tabs[t].recording /\ flows[f].at \in {"open", "chunk"}
    /\ flows \in [Flows -> FlowRecords]
    /\ server \in [epoch : 0 .. MaxEpoch, sessions : [Sessions -> ServerSessions], tombs : SUBSET Sessions]
    /\ \A f \in Flows : flows[f].history <= server.epoch /\ flows[f].op.id <= queued

\* "Deletes one session (series, events) and leaves a tombstone so a delayed write
\* ... is refused": no pitch series of a session the user deleted, alone or with
\* all, is on the device again, although a recovery can bring its row back.
SeriesStaysGone == series \cap deleted = {}

\* What the server deleted for the user never comes back to the account: not by a
\* request that was late, a repeated upload or an outbox of before the deletion.
ServerForgets == \A s \in erased : server.sessions[s].status = "none"

\* A summary shown in the account is whole: it has every part its upload
\* announced, also when uploads of two tabs and the clean-up of old ones meet.
CompleteIsWhole ==
    \A s \in Sessions : LET it == server.sessions[s] IN
        it.status = "complete" => it.parts = 0 .. it.expects - 1

Arrived(op) ==
    \/ op.session \in server.tombs
    \/ op.type = "upload" /\ (server.sessions[op.session].status = "complete" \/ op.session \in deleted)

Kept(op) == op \in outbox \/ Arrived(op)

\* syncOutbox "drops operations of an older history epoch or of deleted sessions;
\* keeps them on network errors": an operation queued in the present epoch stays in
\* the outbox until the server has it, unless the session or the whole history was
\* deleted or the server had removed the unfinished upload; but for a tab whose
\* owner is of an older epoch, which drops what a newer tab queued.
KeptByEqualTabs == \A op \in owed : Kept(op)
=============================================================================
