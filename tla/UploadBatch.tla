------------------------------ MODULE UploadBatch ------------------------------
(***************************************************************************)
(* Registering several PDFs: scores/upload_batch.js with the calls of      *)
(* scores/sheet_api.js, in several tabs that share localStorage.           *)
(*                                                                         *)
(* An operation ID is named by the batch and the file it was made for and  *)
(* by "attempt", 0 in this code.  The server keeps one result for each     *)
(* account and ID (SheetLibrary); a request it has may be served late.     *)
(***************************************************************************)
EXTENDS Naturals, Sequences, Functions

CONSTANTS
    None,
    Tabs,
    Accounts,     \* the values of accountKey()
    Files,
    MaxFiles,     \* bound: files of a batch
    MaxBatches,   \* bound: batches ever made
    MaxSwitches   \* bound: changes of the account of a tab

VARIABLES stored, tabs, server, batches, switches, given, mixed

vars == <<stored, tabs, server, batches, switches, given, mixed>>

Idle == [run |-> None, step |-> "idle", at |-> 0, files |-> {}, cancel |-> FALSE, sentFor |-> None]
NoPrep == [batch |-> None, files |-> {}]
Buttons == {"upload", "resume"}

Init ==
    /\ stored = [a \in Accounts |-> None]   \* localStorage
    /\ \E a \in Accounts :
         tabs = [t \in Tabs |-> [account |-> a, running |-> Idle, prep |-> [b \in Buttons |-> NoPrep]]]
    /\ server = [sent |-> {}, rows |-> {}, refused |-> {}]
    /\ batches = <<>>   \* the files of every batch ever made
    /\ switches = 0
    /\ given = {}   \* batches the user gave up, or whose record another batch replaced
    /\ mixed = {}   \* batches under way in a tab whose account changed

Open(item) == item.state \notin {"done", "failed"}
OpenOf(batch) == {i \in DOMAIN batch.items : Open(batch.items[i])}
Running(t) == tabs[t].running
Account(t) == tabs[t].account

-----------------------------------------------------------------------------
(* The record *)

\* save: whatever the account has stored is replaced.
Saved(a, batch) ==
    /\ stored' = [stored EXCEPT ![a] = batch]
    /\ given' = IF stored[a] # None /\ (batch = None \/ batch.id # stored[a].id)
                THEN given \cup {stored[a].id} ELSE given

\* The end of a run: the record goes when nothing is left to do.
AllSettled(batch) == OpenOf(batch) = {}

\* run: the next file, or the end of the loop; ts are the tabs before.
Continue(ts, t, run) ==
    LET batch == run.run
        next == {i \in OpenOf(batch) : i > run.at /\ batch.items[i].op \in run.files}
        Sending(i) == [batch EXCEPT !.items[i].state = "sending"]
        stops == run.cancel \/ next = {} \/ (run.at > 0 /\ batch.items[run.at].state = "unknown")
    IN  IF stops
        THEN /\ tabs' = [ts EXCEPT ![t].running = [Idle EXCEPT !.run = batch, !.step = "ending"]]
             /\ IF AllSettled(batch)
                THEN /\ stored' = [stored EXCEPT ![Account(t)] = None]
                     /\ given' = IF stored[Account(t)] \in {None, batch} \/ stored[Account(t)].id = batch.id
                                 THEN given ELSE given \cup {stored[Account(t)].id}
                ELSE Saved(Account(t), batch)
             /\ UNCHANGED server
        ELSE \E i \in next :
             /\ \A j \in next : i <= j
             /\ tabs' = [ts EXCEPT ![t].running =
                  [run EXCEPT !.run = Sending(i), !.at = i, !.step = "send", !.sentFor = Account(t)]]
             /\ Saved(Account(t), Sending(i))
             /\ server' = [server EXCEPT !.sent = @ \cup {<<Account(t), batch.items[i].op>>}]

-----------------------------------------------------------------------------
(* The buttons *)

\* uploadSheets up to the fingerprints; an open batch is given up on request.
Choose(t, chosen) ==
    /\ Running(t).step = "idle" /\ tabs[t].prep["upload"] = NoPrep /\ Len(batches) < MaxBatches
    /\ batches' = Append(batches, Range(chosen))
    /\ LET id == Len(batches) + 1
           items == [i \in 1 .. Len(chosen) |->
                       [op |-> [batch |-> id, file |-> chosen[i], attempt |-> 0], state |-> "pending"]]
       IN  tabs' = [tabs EXCEPT ![t].prep["upload"] =
                      [batch |-> [id |-> id, items |-> items], files |-> {items[i].op : i \in 1 .. Len(chosen)}]]
    /\ UNCHANGED <<stored, server, switches, given, mixed>>

\* The batch is saved, also when another is running in this tab.
Chosen(t) ==
    LET prep == tabs[t].prep["upload"]
        left == [tabs EXCEPT ![t].prep["upload"] = NoPrep]
    IN  /\ prep # NoPrep
        /\ IF Running(t).step = "idle"
           THEN Continue(left, t, [Idle EXCEPT !.run = prep.batch, !.files = prep.files])
           ELSE Saved(Account(t), prep.batch) /\ tabs' = left /\ UNCHANGED server
        /\ UNCHANGED <<batches, switches, mixed>>

\* The ID under which a file that is chosen again is sent.
\* Mutant of Resumed: a file without an answer gets a new ID.
ResumedAnew(batch) ==
    [batch EXCEPT !.items = [i \in DOMAIN @ |->
        IF @[i].state = "unknown" THEN [@[i] EXCEPT !.op.attempt = @ + 1] ELSE @[i]]]
Resumed(batch) == batch

\* resumeWith up to the fingerprints; files that do not match are left out.
Resume(t) ==
    LET batch == stored[Account(t)]
    IN  /\ batch # None /\ Running(t).step = "idle" /\ tabs[t].prep["resume"] = NoPrep
        /\ LET again == Resumed(batch)
           IN  \E matching \in SUBSET {again.items[i].op : i \in OpenOf(batch)} \ {{}} :
                 tabs' = [tabs EXCEPT ![t].prep["resume"] = [batch |-> again, files |-> matching]]
        /\ UNCHANGED <<stored, server, batches, switches, given, mixed>>

\* It runs, unless another does.
ResumeChecked(t) ==
    LET prep == tabs[t].prep["resume"]
        left == [tabs EXCEPT ![t].prep["resume"] = NoPrep]
    IN  /\ prep # NoPrep
        /\ IF Running(t).step = "idle"
           THEN Continue(left, t, [Idle EXCEPT !.run = prep.batch, !.files = prep.files])
           ELSE tabs' = left /\ UNCHANGED <<stored, server, given>>
        /\ UNCHANGED <<batches, switches, mixed>>

Cancel(t) ==
    /\ Running(t).step = "send" /\ tabs' = [tabs EXCEPT ![t].running.cancel = TRUE]
    /\ UNCHANGED <<stored, server, batches, switches, given, mixed>>

Discard(t) ==
    /\ Running(t).step = "idle" /\ stored[Account(t)] # None /\ Saved(Account(t), None)
    /\ UNCHANGED <<tabs, server, batches, switches, mixed>>

-----------------------------------------------------------------------------
(* Answers *)

Op(t) == Running(t).run.items[Running(t).at].op
Same(t) == Running(t).sentFor = Account(t)

Settle(t, state) ==
    /\ Running(t).step = "send"
    /\ Continue(tabs, t, [Running(t) EXCEPT !.run.items[Running(t).at].state = state])
    /\ UNCHANGED <<batches, switches, mixed>>

\* 200 and 4xx, for the account that asked.
Done(t) == Same(t) /\ Running(t).step = "send" /\ <<Account(t), Op(t)>> \in server.rows /\ Settle(t, "done")
Failed(t) == Same(t) /\ Running(t).step = "send" /\ <<Account(t), Op(t)>> \in server.refused /\ Settle(t, "failed")

\* No answer, 5xx, still 202 after the last try, or another account: call throws.
Unknown(t) == Settle(t, "unknown")

\* 202: the same ID is sent again, for the account of that moment.
Again(t) ==
    /\ Running(t).step = "send"
    /\ server' = [server EXCEPT !.sent = @ \cup {<<Account(t), Op(t)>>}]
    /\ tabs' = [tabs EXCEPT ![t].running.sentFor = Account(t)]
    /\ UNCHANGED <<stored, batches, switches, given, mixed>>

\* The list is read again before the next run may start.
Refreshed(t) ==
    /\ Running(t).step = "ending" /\ tabs' = [tabs EXCEPT ![t].running = Idle]
    /\ UNCHANGED <<stored, server, batches, switches, given, mixed>>

-----------------------------------------------------------------------------
(* The rest of the world *)

\* The server registers a file, or refuses it, once for each ID.
Serve(x) ==
    /\ x \in server.sent \ (server.rows \cup server.refused)
    /\ \/ server' = [server EXCEPT !.rows = @ \cup {x}]
       \/ server' = [server EXCEPT !.refused = @ \cup {x}]
    /\ UNCHANGED <<stored, tabs, batches, switches, given, mixed>>

InTab(t) == ({Running(t).run} \cup {tabs[t].prep[b].batch : b \in Buttons}) \ {None}

Reload(t) ==
    /\ InTab(t) # {}
    /\ tabs' = [tabs EXCEPT ![t].running = Idle, ![t].prep = [b \in Buttons |-> NoPrep]]
    /\ UNCHANGED <<stored, server, batches, switches, mixed>>
    \* what was never saved was never sent
    /\ given' = given \cup {tabs[t].prep["upload"].batch.id : x \in {y \in {1} : tabs[t].prep["upload"] # NoPrep}}

Switch(t, a) ==
    /\ a # Account(t) /\ switches < MaxSwitches /\ switches' = switches + 1
    /\ tabs' = [tabs EXCEPT ![t].account = a]
    /\ mixed' = mixed \cup {b.id : b \in InTab(t)}
    /\ UNCHANGED <<stored, server, batches, given>>

Next ==
    \/ \E t \in Tabs :
         \/ \E n \in 1 .. MaxFiles : \E chosen \in Injection(1 .. n, Files) : Choose(t, chosen)
         \/ Chosen(t) \/ Resume(t) \/ ResumeChecked(t)
         \/ Cancel(t) \/ Discard(t) \/ Done(t) \/ Failed(t) \/ Unknown(t) \/ Again(t)
         \/ Refreshed(t) \/ Reload(t) \/ \E a \in Accounts : Switch(t, a)
    \/ \E x \in server.sent : Serve(x)

Spec == Init /\ [][Next]_vars

-----------------------------------------------------------------------------
(* Properties *)

\* Each file of a batch is registered once at most, through reloads, lost
\* answers, resumptions and two tabs; a batch whose tab changed the account is
\* excluded: its record is then stored for the other account.
RegisteredOnce ==
    \A x, y \in server.rows :
        x[2].batch = y[2].batch /\ x[2].file = y[2].file /\ x[2].batch \notin mixed => x = y

\* While a file of a batch is neither registered nor refused, the batch can be
\* resumed: it is stored or under way, unless it was given up or replaced.
Resumable ==
    \A b \in (1 .. Len(batches)) \ (given \cup mixed) :
        \/ \E a \in Accounts : stored[a] # None /\ stored[a].id = b
        \/ \E t \in Tabs : \E batch \in InTab(t) : batch.id = b
        \/ \A f \in batches[b] : \E x \in server.rows \cup server.refused : x[2].batch = b /\ x[2].file = f
=============================================================================
