------------------------------- MODULE SheetSync -------------------------------
(***************************************************************************)
(* The sheet list on one screen: src/static/js/modules/scores/sync.js with *)
(* the account check of sheet_api.js and the user's own changes of         *)
(* events.js, against the list and its number in the database.             *)
(*                                                                         *)
(* Between a request and its answer other runs may start, the account may  *)
(* change and other devices may change the list.  Answers come in any      *)
(* order or not at all.                                                    *)
(*                                                                         *)
(* "moment" counts the changes of the list ever made.  The program has only *)
(* the number of the list, which a restored database sets back; the        *)
(* properties compare by the moment.                                       *)
(***************************************************************************)
EXTENDS Naturals, FiniteSets

CONSTANTS
    Runs,         \* calls of refreshSheetLibrary and of sendSheetChange
    Accounts,     \* the values of accountKey() of a signed-in user
    MaxMoment,    \* bound: changes of the list
    MaxRestores,  \* bound: restores of the database
    MaxSessions   \* bound: changes of the account

None == "none"

ASSUME NoneAssumption == None \notin Runs \cup Accounts
ASSUME BoundsAssumption == MaxMoment \in Nat \ {0} /\ {MaxRestores, MaxSessions} \subseteq Nat

VARIABLES
    version,   \* list_version in the database
    moment,
    restores,  \* the moments at which the database was restored
    account,   \* accountKey(); None while nobody is signed in
    session,   \* changes of the account so far
    signedOut, \* the session that the last clearPortalAuthState began
    sync,      \* checking, requestSeq, appliedSeq and account of sync.js
    shown,     \* sheetListVersion and the moment of the list on the screen
    runs

server == <<version, moment, restores>>
user == <<account, session, signedOut>>
vars == <<server, user, sync, shown, runs>>

\* sheetListVersion before a list is known
Unknown == 0

New == [at |-> "new", sentFor |-> None, began |-> 0, session |-> 0, joined |-> None,
        seen |-> Unknown, reset |-> FALSE, seq |-> 0, answer |-> [version |-> Unknown, moment |-> 0],
        since |-> 0]

InFlight == {"change", "changed", "version", "versioned", "list", "listed"}

Stages == InFlight \cup {"new", "joined", "ok", "notok"}

Lists == [version : 0 .. MaxMoment, moment : 0 .. MaxMoment]

SyncRecord == [checking : Runs \cup {None}, requestSeq : Nat, appliedSeq : Nat,
               account : Accounts \cup {None}]

RunRecord == [at : Stages, sentFor : Accounts \cup {None}, began : 0 .. MaxSessions,
              session : 0 .. MaxSessions, joined : Runs \cup {None}, seen : 0 .. MaxMoment, reset : BOOLEAN, seq : Nat,
              answer : Lists, since : 0 .. MaxMoment]

TypeOK ==
    /\ moment \in 1 .. MaxMoment /\ version \in 1 .. moment /\ restores \subseteq 1 .. moment
    /\ account \in Accounts \cup {None} /\ session \in 0 .. MaxSessions /\ signedOut \in 0 .. session
    /\ sync \in SyncRecord /\ sync.appliedSeq <= sync.requestSeq
    /\ shown \in Lists
    /\ runs \in [Runs -> RunRecord] /\ \A r \in Runs : runs[r].seq <= sync.requestSeq

Init ==
    /\ version = 1 /\ moment = 1 /\ restores = {}
    /\ account = None /\ session = 0 /\ signedOut = 0
    /\ sync = [checking |-> None, requestSeq |-> 0, appliedSeq |-> 0, account |-> None]
    /\ shown = [version |-> Unknown, moment |-> 0]
    /\ runs = [r \in Runs |-> New]

-----------------------------------------------------------------------------
(* The server and the user *)

\* Another device changes the list.
OtherChange ==
    /\ moment < MaxMoment
    /\ version' = version + 1 /\ moment' = moment + 1
    /\ UNCHANGED <<restores, user, sync, shown, runs>>

\* The database is restored, or copied from production: an older number.
Restore ==
    /\ moment < MaxMoment /\ Cardinality(restores) < MaxRestores
    /\ version' \in 1 .. version - 1
    /\ moment' = moment + 1 /\ restores' = restores \cup {moment'}
    /\ UNCHANGED <<user, sync, shown, runs>>

\* Mutant of Reset: answers under way still count as new.
ResetForgetful(of) == [of EXCEPT !.checking = None, !.account = account]

\* resetSheetLibrarySync, which also forgets the number of the list shown.
Reset(of) == [of EXCEPT !.checking = None, !.requestSeq = @ + 1, !.appliedSeq = of.requestSeq + 1,
                        !.account = account]

\* clearPortalAuthState, when the server or another tab has ended the sign-in,
\* calls it while the account is still there.
SignOut ==
    /\ account # None /\ session < MaxSessions
    /\ account' = None /\ session' = session + 1 /\ signedOut' = session'
    /\ sync' = Reset(sync) /\ shown' = [shown EXCEPT !.version = Unknown]
    /\ UNCHANGED <<server, runs>>

\* logoutPortal, the user's own sign-out, clears the account alone.
Logout ==
    /\ account # None /\ session < MaxSessions
    /\ account' = None /\ session' = session + 1
    /\ UNCHANGED <<server, signedOut, sync, shown, runs>>

\* applyPortalAuthDevice: a sign-in, or a new member or permission of the device.
Become(a) ==
    /\ account # a /\ session < MaxSessions
    /\ account' = a /\ session' = session + 1
    /\ UNCHANGED <<server, signedOut, sync, shown, runs>>

-----------------------------------------------------------------------------
(* refreshSheetLibrary *)

\* What a run starts from: the state after a reset if the account is another.
Synced == IF sync.account = account THEN sync ELSE Reset(sync)
ShownNow == IF sync.account = account THEN shown ELSE [shown EXCEPT !.version = Unknown]

SendList(me, s, reset) ==
    [me EXCEPT !.at = "list", !.sentFor = account, !.session = session,
               !.seq = s.requestSeq + 1, !.reset = reset]

\* One check runs at a time, whose promise later callers get; a forced run
\* fetches the list at once.
Begin(r, force) ==
    LET s  == Synced
        me == [runs[r] EXCEPT !.sentFor = account, !.began = session, !.session = session,
                              !.since = moment]
    IN  /\ account # None
        /\ shown' = ShownNow
        /\ \/ /\ ~ force /\ s.checking # None
              /\ sync' = s
              /\ runs' = [runs EXCEPT ![r] = [me EXCEPT !.at = "joined", !.joined = s.checking]]
           \/ /\ ~ force /\ s.checking = None
              /\ sync' = [s EXCEPT !.checking = r]
              /\ runs' = [runs EXCEPT ![r] = [me EXCEPT !.at = "version", !.seen = ShownNow.version]]
           \/ /\ force
              /\ sync' = [s EXCEPT !.requestSeq = @ + 1]
              /\ runs' = [runs EXCEPT ![r] = SendList(me, s, TRUE)]
        /\ UNCHANGED <<server, user>>

\* startSheetLibrarySync: the tab is opened.
Open(r) == runs[r].at = "new" /\ Begin(r, ShownNow.version = Unknown)

\* loadSheets.
Load(r) == runs[r].at = "new" /\ Begin(r, TRUE)

Serve(r) ==
    /\ runs[r].at \in {"version", "list"}
    /\ runs' = [runs EXCEPT ![r].at = IF @ = "version" THEN "versioned" ELSE "listed",
                            ![r].answer = [version |-> version, moment |-> moment]]
    /\ UNCHANGED <<server, user, sync, shown>>

\* Mutant of Ended: only a run that succeeds ends the check.
EndedWell(r, at) ==
    IF sync.checking = r /\ at = "ok" THEN [sync EXCEPT !.checking = None] ELSE sync

\* The finally clause.
Ended(r, at) ==
    IF sync.checking = r THEN [sync EXCEPT !.checking = None] ELSE sync

End(r, at) ==
    /\ sync' = Ended(r, at)
    /\ runs' = [runs EXCEPT ![r].at = at]

\* The number went below the one that was shown when the check began.
Back(me) == me.answer.version < me.seen

VersionAnswered(r) ==
    LET me == runs[r]
    IN  /\ me.at = "versioned"
        /\ \/ /\ account # me.sentFor
              /\ End(r, "notok")
           \/ /\ account = me.sentFor /\ me.answer.version = me.seen
              /\ End(r, "ok")
           \/ /\ account = me.sentFor /\ me.answer.version # me.seen
              /\ sync' = [sync EXCEPT !.requestSeq = @ + 1]
              /\ runs' = [runs EXCEPT ![r] = SendList(me, sync, Back(me))]
        /\ UNCHANGED <<server, user, shown>>

\* Mutant of Newer: the number of the request does not matter.
NewerList(me) == me.reset \/ shown.version = Unknown \/ me.answer.version >= shown.version

Newer(me) ==
    /\ me.seq >= sync.appliedSeq
    /\ me.reset \/ shown.version = Unknown \/ me.answer.version >= shown.version

ListAnswered(r) ==
    LET me == runs[r]
    IN  /\ me.at = "listed"
        /\ \/ /\ account # me.sentFor
              /\ End(r, "notok") /\ UNCHANGED shown
           \/ /\ account = me.sentFor /\ ~ Newer(me)
              /\ End(r, "ok") /\ UNCHANGED shown
           \/ /\ account = me.sentFor /\ Newer(me)
              /\ shown' = me.answer
              /\ sync' = [Ended(r, "ok") EXCEPT !.appliedSeq = me.seq]
              /\ runs' = [runs EXCEPT ![r].at = "ok"]
        /\ UNCHANGED <<server, user>>

\* No answer, or a failure of the server.
Fail(r) ==
    /\ runs[r].at \in InFlight
    /\ End(r, "notok")
    /\ UNCHANGED <<server, user, shown>>

\* The callers who joined a check get its result.
JoinedEnds(r) ==
    /\ runs[r].at = "joined" /\ runs[runs[r].joined].at \in {"ok", "notok"}
    /\ End(r, runs[runs[r].joined].at)
    /\ UNCHANGED <<server, user, shown>>

-----------------------------------------------------------------------------
(* sendSheetChange: the user's own change, followed by a forced run *)

Change(r) ==
    /\ runs[r].at = "new" /\ account # None
    /\ runs' = [runs EXCEPT ![r].at = "change", ![r].sentFor = account]
    /\ UNCHANGED <<server, user, sync, shown>>

\* The server commits it, or refuses it for a revision that is out of date.
ServeChange(r) ==
    /\ runs[r].at = "change"
    /\ \/ /\ moment < MaxMoment
          /\ version' = version + 1 /\ moment' = moment + 1
          /\ runs' = [runs EXCEPT ![r].at = "changed"]
       \/ /\ runs' = [runs EXCEPT ![r].at = "changed"]
          /\ UNCHANGED <<version, moment>>
    /\ UNCHANGED <<restores, user, sync, shown>>

ChangeAnswered(r) ==
    /\ runs[r].at = "changed"
    /\ \/ account = runs[r].sentFor /\ Begin(r, TRUE)
       \/ account # runs[r].sentFor /\ End(r, "notok") /\ UNCHANGED <<server, user, shown>>

Next ==
    \/ OtherChange \/ Restore
    \/ SignOut \/ Logout \/ \E a \in Accounts : Become(a)
    \/ \E r \in Runs :
         \/ Open(r) \/ Load(r) \/ Change(r)
         \/ Serve(r) \/ VersionAnswered(r) \/ ListAnswered(r) \/ Fail(r) \/ JoinedEnds(r)
         \/ ServeChange(r) \/ ChangeAnswered(r)

Spec == Init /\ [][Next]_vars

-----------------------------------------------------------------------------
(* Properties *)

\* A check that has ended, however it ended, never keeps the next one from
\* running: what callers join is always under way.
JoinedIsRunning ==
    sync.checking # None => runs[sync.checking].at \in {"version", "versioned", "list", "listed"}

\* The run began for the account that is signed in now, since it signed in.
Current(r) == runs[r].began = session

\* "After the user's own changes ... the list is fetched again": once a forced
\* fetch has succeeded, or any fetch whose list, or that of a later request, was
\* taken, the list on the screen is as new as when the run began, hence the
\* user's own change is on it, and no late answer takes that away (until the
\* account changes).  Of a fetch whose own list was refused for its number alone
\* the code does not promise it: see sync.js:105.
FetchedStays ==
    \A r \in Runs :
        /\ runs[r].at = "ok" /\ runs[r].seq # 0 /\ Current(r)
        /\ runs[r].reset \/ runs[r].seq <= sync.appliedSeq
        => shown.moment >= runs[r].since

\* What changes the list on the screen is an answer asked for in that session or
\* a later one.
ListedSince(first) ==
    \E r \in Runs : runs[r].at = "listed" /\ runs'[r].at = "ok" /\ runs[r].session >= first

\* "The sheet library must not apply a response of the previous account": a list
\* that was asked for before clearPortalAuthState ended the sign-in is never put
\* on the screen after it, although the same account may have signed in again.
\* Of logoutPortal this is not true: see InFlightForgotten.
SessionsApart ==
    [][shown'.moment # shown.moment => ListedSince(signedOut)]_vars

\* sync.js:194: "Logout / account switch: stop everything, forget in-flight
\* results."  logoutPortal does not reset the sync, and the same member signing in
\* again has the same accountKey.
InFlightForgotten ==
    [][shown'.moment # shown.moment => ListedSince(session)]_vars
=============================================================================
