------------------------------- MODULE SheetSave -------------------------------
(***************************************************************************)
(* Saving a sheet, a recording or a ZIP: the dialog of scores/save_dialog, *)
(* its requests, which a later dialog, a cancel or a sign-out overtakes,   *)
(* the ZIP jobs it remembers and the sharing sheet of the device.          *)
(*                                                                         *)
(* A dialog is one run of start().  Its task is at one await; "share" and  *)
(* "renewing" are the waits that begin with a tap.  Steps of one task that *)
(* follow an answer without an await are one action.                       *)
(***************************************************************************)
EXTENDS Naturals, Sequences

CONSTANTS
    None,
    Accounts,
    Devices,      \* "desktop", "mobile"
    MaxDialogs,   \* bound: runs of start()
    MaxJobs,      \* bound: ZIP jobs
    MaxSwitches   \* bound: sign-outs, sign-ins and switches

VARIABLES device, account, switches, ds, dialog, buttons, jobs, remembered, direct, late, doubled

session == <<device, account, switches>>
history == <<late, doubled>>
vars == <<session, ds, dialog, buttons, jobs, remembered, direct, history>>

Kinds == {"file", "zip", "recording"}

Init ==
    /\ device \in Devices /\ account \in Accounts /\ switches = 0
    /\ ds = <<>> /\ dialog = 0   \* the dialogs, and the one on the screen
    /\ buttons = {}
    /\ jobs = <<>>               \* ZIP jobs of the server
    /\ remembered = [a \in Accounts |-> 0]   \* localStorage, for one selection of sheets
    /\ direct = None             \* the account of a download without a dialog
    /\ late = FALSE              \* a dialog that had ended offered or downloaded a file
    /\ doubled = FALSE           \* a second tap while a sharing sheet was open

-----------------------------------------------------------------------------
(* Sub-steps *)

\* Mutant of Current: a switch of the account does not matter.
CurrentAny(d) == dialog = d /\ ~ ds[d].closed
Current(d) == dialog = d /\ ~ ds[d].closed /\ account = ds[d].account

Ended(d) == ds[d].closed \/ dialog # d \/ account # ds[d].account

\* The dialog's buttons; the text is left out.
Ui(d, on, off) ==
    /\ buttons' = (buttons \ off) \cup on
    /\ late' = (late \/ Ended(d))

Silent == UNCHANGED <<buttons, late>>

Failed(d) == IF Current(d) THEN Ui(d, {"retry", "close"}, {"share", "open", "cancel"}) ELSE Silent

\* The jobs of a signed-out page are remembered under a key nobody uses.
Remember(j) ==
    remembered' = IF account = None THEN remembered ELSE [remembered EXCEPT ![account] = j]

At(d, stage) == ds' = [ds EXCEPT ![d].at = stage, ![d].sentFor = account]
Over(d) == ds' = [ds EXCEPT ![d].at = "idle"]

\* api().call: the answer counts for the account that asked, unless aborted.
Heard(d) == ~ ds[d].closed /\ ds[d].sentFor = account

Closing(d) == IF d = 0 THEN ds ELSE [ds EXCEPT ![d].closed = TRUE, ![d].file = FALSE]

First(kind, extra) ==
    CASE kind = "file" -> "read"
      [] kind = "recording" -> "info"
      [] kind = "zip" -> IF ~ extra /\ account # None /\ remembered[account] # 0 THEN "known" ELSE "create"

New(kind, extra) ==
    [kind |-> kind, extra |-> extra, at |-> First(kind, extra), account |-> account, sentFor |-> account,
     closed |-> FALSE, file |-> FALSE, ticket |-> FALSE, job |-> IF First(kind, extra) = "known" THEN remembered[account] ELSE 0,
     ready |-> FALSE, share |-> FALSE, renewing |-> FALSE]

-----------------------------------------------------------------------------
(* The user *)

Fresh == {"cancel"}

\* start: the controller of the dialog before is aborted.
Start(kind, extra) ==
    /\ Len(ds) < MaxDialogs /\ account # None
    /\ ds' = Append(Closing(dialog), New(kind, extra))
    /\ dialog' = Len(ds) + 1 /\ buttons' = Fresh
    /\ UNCHANGED <<session, jobs, remembered, direct, history>>

\* openSheetSave: a computer downloads a single file without a dialog.
Open(kind) ==
    IF device = "desktop" /\ kind = "file"
    THEN /\ direct = None /\ account # None /\ direct' = account
         /\ UNCHANGED <<session, ds, dialog, buttons, jobs, remembered, history>>
    ELSE Start(kind, FALSE)

DirectAnswered ==
    /\ direct # None /\ direct' = None
    /\ UNCHANGED <<session, ds, dialog, buttons, jobs, remembered, history>>

Retry == dialog # 0 /\ "retry" \in buttons /\ Start(ds[dialog].kind, FALSE)
Partial == dialog # 0 /\ "partial" \in buttons /\ Start("zip", TRUE)

Close ==
    /\ dialog # 0 /\ ds' = Closing(dialog) /\ dialog' = 0 /\ buttons' = {}
    /\ UNCHANGED <<session, jobs, remembered, direct, history>>

\* cancelOrClose: the building of a ZIP ends on the server too, if it hears of it.
Stops(d) == "cancel" \in buttons /\ ds[d].job # 0 /\ ds[d].at # "known" /\ ~ ds[d].ready

Cancel ==
    /\ dialog # 0 /\ "cancel" \in buttons
    /\ ds' = Closing(dialog) /\ dialog' = 0 /\ buttons' = {}
    /\ IF Stops(dialog)
       THEN /\ Remember(0)
            /\ \/ jobs' = [jobs EXCEPT ![ds[dialog].job] =
                    IF @.owner = account /\ @.state = "building" THEN [@ EXCEPT !.state = "cancelled"] ELSE @]
               \/ UNCHANGED jobs
       ELSE UNCHANGED <<jobs, remembered>>
    /\ UNCHANGED <<session, direct, history>>

\* shareNow: the sharing sheet of the device opens.
Share ==
    /\ dialog # 0 /\ "share" \in buttons /\ Current(dialog) /\ ds[dialog].file
    /\ doubled' = (doubled \/ ds[dialog].share)
    /\ ds' = [ds EXCEPT ![dialog].share = TRUE]
    /\ UNCHANGED <<session, dialog, buttons, jobs, remembered, direct, late>>

Shared(d) ==
    /\ ds[d].share
    /\ \/ \* closed or given up
          /\ ds' = [ds EXCEPT ![d].share = FALSE]
          /\ IF Current(d) THEN Ui(d, {"share", "close"}, {}) ELSE Silent
       \/ \* refused: another way is offered
          /\ IF Current(d)
             THEN /\ ds' = [ds EXCEPT ![d].share = FALSE, ![d].file = FALSE, ![d].at = "ticket", ![d].sentFor = account]
                  /\ Ui(d, {}, {"share"})
             ELSE ds' = [ds EXCEPT ![d].share = FALSE] /\ Silent
    /\ UNCHANGED <<session, dialog, jobs, remembered, direct, doubled>>

\* openTicket: an old link is renewed, another tap opens it.
OpenTicket ==
    /\ dialog # 0 /\ "open" \in buttons /\ Current(dialog) /\ ds[dialog].ticket /\ ~ ds[dialog].renewing
    /\ \/ /\ ds' = [ds EXCEPT ![dialog].renewing = TRUE, ![dialog].sentFor = account]
          /\ buttons' = buttons \ {"open"}
       \/ buttons' = buttons \cup {"open", "close"} /\ UNCHANGED ds
    /\ UNCHANGED <<session, dialog, jobs, remembered, direct, history>>

Renewed(d) ==
    /\ ds[d].renewing /\ ds' = [ds EXCEPT ![d].renewing = FALSE]
    /\ IF Heard(d) /\ Current(d) THEN Ui(d, {"open", "close"}, {}) \/ Failed(d) ELSE Silent
    /\ UNCHANGED <<session, dialog, jobs, remembered, direct, doubled>>

-----------------------------------------------------------------------------
(* Answers *)

Waits(d, stage) == ds[d].at = stage
Rest == UNCHANGED <<session, dialog, direct, doubled>>

\* An error of any request but that of a known job.
Fails(d) ==
    /\ ds[d].at \notin {"idle", "known"} /\ Over(d)
    /\ IF ds[d].closed THEN Silent ELSE Failed(d)
    /\ Rest /\ UNCHANGED <<jobs, remembered>>

\* prepareFile, prepareZipSave: on a phone the file is read, unless it is too
\* large or cannot be shared; the rest needs a link.
Read(d) ==
    /\ Waits(d, "read") /\ Heard(d) /\ Rest /\ UNCHANGED <<jobs, remembered>>
    /\ \/ At(d, "ticket") /\ Silent
       \/ /\ device = "mobile"
          /\ IF Current(d)
             THEN ds' = [ds EXCEPT ![d].at = "idle", ![d].file = TRUE] /\ Ui(d, {"share", "close"}, {"cancel", "open"})
             ELSE Over(d) /\ Silent

\* prepareTicket: a computer downloads at once.
Ticket(d) ==
    /\ Waits(d, "ticket") /\ Heard(d) /\ Rest /\ UNCHANGED <<jobs, remembered>>
    /\ ds' = [ds EXCEPT ![d].at = "idle", ![d].ticket = TRUE]
    /\ IF Current(d) THEN Ui(d, {"open", "close"}, {"share", "cancel"}) ELSE Silent

Info(d) ==
    /\ Waits(d, "info") /\ Heard(d) /\ Rest /\ UNCHANGED <<jobs, remembered>> /\ Silent
    /\ IF Current(d) THEN At(d, "read") ELSE Over(d)

\* prepareZip with a job: it is remembered; its end is told or it goes on.
Goes(d, j, state) ==
    /\ remembered' = IF account = None THEN remembered
                     ELSE [remembered EXCEPT ![account] = IF state \in {"building", "ready"} THEN j ELSE 0]
    /\ CASE state = "building" -> ds' = [ds EXCEPT ![d].at = "step", ![d].sentFor = account, ![d].job = j] /\ Silent
         [] state = "ready" ->
              ds' = [ds EXCEPT ![d].at = "read", ![d].sentFor = account, ![d].job = j, ![d].ready = TRUE] /\ Silent
         [] state = "incomplete" ->
              /\ ds' = [ds EXCEPT ![d].at = "idle", ![d].job = j]
              /\ IF Current(d) THEN Ui(d, {"partial", "retry", "close"}, {"cancel"}) ELSE Silent
         [] OTHER -> ds' = [ds EXCEPT ![d].at = "idle", ![d].job = j] /\ Failed(d)

\* A known job that is building or ready is used again; every other answer but
\* an abort, also that for another account, asks for a new one.
Known(d) ==
    /\ Waits(d, "known") /\ Rest /\ UNCHANGED jobs
    /\ \/ /\ Heard(d) /\ jobs[ds[d].job].owner = account /\ jobs[ds[d].job].state \in {"building", "ready"}
          /\ Goes(d, ds[d].job, jobs[ds[d].job].state)
       \/ /\ ~ ds[d].closed /\ Silent /\ UNCHANGED remembered
          /\ ds' = [ds EXCEPT ![d].at = "create", ![d].sentFor = account, ![d].job = 0]
       \/ ds[d].closed /\ Over(d) /\ Silent /\ UNCHANGED remembered

Create(d) ==
    /\ Waits(d, "create") /\ Heard(d) /\ account # None /\ Len(jobs) < MaxJobs /\ Rest
    /\ jobs' = Append(jobs, [owner |-> account, state |-> "building", partial |-> ds[d].extra])
    /\ Goes(d, Len(jobs) + 1, "building")

\* One step of the building; the server refuses the job of another account.
Step(d) ==
    LET j == ds[d].job
    IN  /\ Waits(d, "step") /\ Heard(d) /\ jobs[j].owner = account /\ Rest
        /\ \E state \in IF jobs[j].state = "building" THEN {"building", "ready", "incomplete", "failed"} ELSE {jobs[j].state} :
             /\ state = "incomplete" => ~ jobs[j].partial
             /\ jobs' = [jobs EXCEPT ![j].state = state]
             /\ IF state \notin {"building", "failed", "cancelled"} /\ ~ Current(d)
                THEN Over(d) /\ Silent /\ UNCHANGED remembered
                ELSE Goes(d, j, state)

-----------------------------------------------------------------------------
(* The session: signing out closes the dialog, another account need not *)

SignOut ==
    /\ account # None /\ switches < MaxSwitches /\ switches' = switches + 1 /\ account' = None
    /\ ds' = Closing(dialog) /\ dialog' = 0 /\ buttons' = {}
    /\ UNCHANGED <<device, jobs, remembered, direct, history>>

Become(a) ==
    /\ account # a /\ switches < MaxSwitches /\ switches' = switches + 1 /\ account' = a
    /\ UNCHANGED <<device, ds, dialog, buttons, jobs, remembered, direct, history>>

Next ==
    \/ \E kind \in Kinds : Open(kind)
    \/ DirectAnswered \/ Retry \/ Partial \/ Close \/ Cancel \/ Share \/ OpenTicket \/ SignOut
    \/ \E a \in Accounts : Become(a)
    \/ \E d \in 1 .. Len(ds) :
         Shared(d) \/ Renewed(d) \/ Fails(d) \/ Read(d) \/ Ticket(d) \/ Info(d) \/ Known(d) \/ Create(d) \/ Step(d)

Spec == Init /\ [][Next]_vars

-----------------------------------------------------------------------------
(* Properties *)

\* After a cancel, a close, another dialog or a switch of the account nothing of
\* the old dialog comes later, neither a button nor a download.
NothingComesLate == ~ late

\* A button that saves has something to save, unless the user tapped twice
\* before the sharing sheet opened.
ButtonsSave ==
    dialog # 0 /\ ~ doubled =>
        /\ "share" \in buttons => ds[dialog].file
        /\ "open" \in buttons => ds[dialog].ticket
=============================================================================
