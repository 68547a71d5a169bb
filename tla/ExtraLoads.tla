------------------------------ MODULE ExtraLoads ------------------------------
(***************************************************************************)
(* The load of one deferred collection of the portal by several callers:   *)
(* beginPortalExtraLoad and loadExtraDataBatch (bootstrap_loader.js), the  *)
(* shared GET of request() (common_helpers/api_runtime.js), the re-sends   *)
(* and waits of transport_retry.js, and the load of the attendances after  *)
(* the start of the page, which marks them loaded (navigation/events.js).  *)
(*                                                                         *)
(* A load is one call of loadExtraData.  Its first request is the entry    *)
(* <<l, 1>>, the one after a save the entry <<l, 2>>.  A load goes on with *)
(* the result of an entry some time after the entry has it: the other      *)
(* collections of the call may be slower.                                  *)
(***************************************************************************)
EXTENDS Naturals

CONSTANTS
    None,
    Loads,
    MaxVersion,   \* bound: changes of the collection
    MaxSaves      \* bound: saves of this page

VARIABLES
    server,    \* the version of the collection
    page,      \* account, portalResponseEpoch, deferredPortalDataFlags, appState
    loads,
    entries,   \* portalExtraLoads
    latest,    \* portalExtraLatest
    flights,   \* inFlightGetRequests, each under the entry that began it
    budgets,   \* _retryContext, each under the load that made it
    wait,      \* waits of transport_retry.js
    \* history variables of the properties
    owed,      \* the user opened the tab and has neither the collection nor a message
    muted,     \* a load ended without a message because a GET of the page itself had to wait
    reminded,  \* the reminder was shown when the collection had not been loaded
    resent     \* re-sends while a load had to wait for them

vars == <<server, page, loads, entries, latest, flights, budgets, wait, owed, muted, reminded, resent>>
ghosts == <<owed, muted, reminded, resent>>

Entries == Loads \X {1, 2}
NoEntry == [at |-> "none", auth |-> 0, epoch |-> 0, origin |-> None, budget |-> None, flight |-> None,
            applied |-> FALSE, reported |-> FALSE, result |-> None, version |-> None]
NoFlight == [at |-> "none", auth |-> 0, epoch |-> 0, origin |-> None, budget |-> None, owned |-> None,
             valid |-> FALSE, cached |-> None]

Init ==
    /\ server = 0
    /\ page = [auth |-> 0, epoch |-> 0, loaded |-> FALSE, shown |-> None, cached |-> None]
    /\ loads = [l \in Loads |-> [at |-> "idle", again |-> FALSE, origin |-> None, entry |-> None]]
    /\ entries = [e \in Entries |-> NoEntry] /\ latest = None
    /\ flights = [e \in Entries |-> NoFlight]
    /\ budgets = [l \in Loads |-> [transient |-> 0, unknown |-> 0, link |-> None]]
    /\ wait = None
    /\ owed = FALSE /\ muted = FALSE /\ reminded = FALSE /\ resent = [l \in Loads |-> 0]

-----------------------------------------------------------------------------
(* The request of an entry *)

Current(x) == x.auth = page.auth /\ x.epoch = page.epoch

\* The GET under way that request() joins, and the entry that a caller joins.
Sharable == {f \in Entries : flights[f].at # "none" /\ Current(flights[f])}
SameLoad(origin) == {e \in Entries : entries[e].at = "loading" /\ Current(entries[e]) /\ entries[e].origin = origin}

\* request(): the GET that is joined spends the budget of another caller.
Requested(e, origin, budget) ==
    LET f == IF Sharable = {} THEN e ELSE CHOOSE g \in Sharable : TRUE
    IN  /\ entries' = [entries EXCEPT ![e] =
             [NoEntry EXCEPT !.at = "loading", !.auth = page.auth, !.epoch = page.epoch,
                             !.origin = origin, !.budget = budget, !.flight = f]]
        /\ IF f = e
           THEN /\ flights' = [flights EXCEPT ![e] =
                     [NoFlight EXCEPT !.at = "read", !.auth = page.auth, !.epoch = page.epoch,
                                      !.origin = origin, !.budget = budget]]
                /\ UNCHANGED budgets
           ELSE /\ UNCHANGED flights
                /\ budgets' = IF flights[f].budget = budget THEN budgets
                              ELSE [budgets EXCEPT ![budget].link = flights[f].budget]

\* beginPortalExtraLoad.
BeginEntry(l, n, origin, budget) ==
    IF SameLoad(origin) # {}
    THEN /\ loads' = [loads EXCEPT ![l] = [at |-> "waits", again |-> n = 2, origin |-> origin,
                                           entry |-> CHOOSE e \in SameLoad(origin) : TRUE]]
         /\ UNCHANGED <<entries, latest, flights, budgets>>
    ELSE /\ loads' = [loads EXCEPT ![l] = [at |-> "waits", again |-> n = 2, origin |-> origin,
                                           entry |-> <<l, n>>]]
         /\ latest' = <<l, n>>
         /\ Requested(<<l, n>>, origin, budget)

\* The user opens the tab (ensureDeferredTabDataLoaded), or saves and reloads.
Open(l) ==
    /\ loads[l].at = "idle"
    /\ BeginEntry(l, 1, "manual", l)
    /\ owed' = (owed \/ page.shown = None)
    /\ UNCHANGED <<server, page, wait, muted, reminded, resent>>

\* loadAttendanceReminderAfterStartup, once for each sign-in.
Start(l) ==
    /\ loads[l].at = "idle" /\ \A k \in Loads : loads[k].origin # "automatic"
    /\ BeginEntry(l, 1, "automatic", l)
    /\ UNCHANGED <<server, page, wait, ghosts>>

\* The entries that wait for the GET have its result.
Finish(f, result, version) ==
    /\ flights' = [flights EXCEPT ![f] = NoFlight]
    /\ entries' = [e \in Entries |->
         IF entries[e].at = "loading" /\ entries[e].flight = f
         THEN [entries[e] EXCEPT !.at = "settled", !.result = IF Current(flights[f]) THEN result ELSE "changed",
                                 !.version = IF Current(flights[f]) THEN version ELSE None]
         ELSE entries[e]]
    /\ UNCHANGED latest

Blocks(f) == /\ wait # None /\ wait.budget # flights[f].budget
             /\ IF flights[f].origin = "automatic" THEN wait.automatic ELSE wait.manual

\* The cache has been read; without a wait the request is sent.
Send(f) ==
    /\ flights[f].at = "read"
    /\ IF ~ Current(flights[f])
       THEN Finish(f, "changed", None) /\ UNCHANGED <<wait, owed>>
       ELSE IF Blocks(f)
       THEN /\ Finish(f, "wait", None) /\ UNCHANGED wait
            /\ owed' = (owed /\ flights[f].origin = "automatic")
       ELSE /\ flights' = [flights EXCEPT ![f].at = "sent", ![f].valid = TRUE, ![f].cached = page.cached,
                                          ![f].owned = IF wait = None THEN None ELSE wait.by]
            /\ wait' = IF wait # None /\ wait.budget # flights[f].budget /\ flights[f].origin = "manual"
                       THEN [wait EXCEPT !.manual = TRUE] ELSE wait
            /\ UNCHANGED <<entries, latest, owed>>
    /\ UNCHANGED <<server, page, loads, budgets, muted, reminded, resent>>

Released(f) == IF wait # None /\ wait.by = flights[f].owned THEN None ELSE wait

\* The list comes; it is put in the cache.
Answer(f) ==
    /\ flights[f].at = "sent"
    /\ Finish(f, "ok", server)
    /\ page' = IF Current(flights[f]) THEN [page EXCEPT !.cached = server] ELSE page
    /\ wait' = Released(f)
    /\ UNCHANGED <<server, loads, budgets, ghosts>>

\* The loads that a re-send of the GET keeps waiting.
Waiting(f) == {l \in Loads : loads[l].at = "waits" /\
                 LET e == loads[l].entry IN
                   entries[e].at = "loading" /\ entries[e].flight = f /\ (loads[l].again => e = f)}
\* The request is sent again after a pause.
Resend(f, unknown) ==
    /\ budgets' = [budgets EXCEPT ![flights[f].budget].transient = @ + 1,
                                  ![flights[f].budget].unknown = @ + unknown]
    /\ flights' = [flights EXCEPT ![f].at = "pause"]
    /\ resent' = [l \in Loads |-> IF l \in Waiting(f) THEN resent[l] + 1 ELSE resent[l]]
    /\ UNCHANGED <<entries, latest>>

\* A last failure: what the cache had is given, or an alert is shown.
Fails(f) ==
    /\ Finish(f, IF flights[f].cached # None THEN "ok" ELSE "error", flights[f].cached)
    /\ owed' = (owed /\ ~ (Current(flights[f]) /\ flights[f].cached = None))

\* The connection breaks or the answer is late.
Break(f) ==
    /\ flights[f].at = "sent"
    /\ \/ budgets[flights[f].budget].transient < 2 /\ Resend(f, 0) /\ UNCHANGED owed
       \/ Fails(f) /\ UNCHANGED <<budgets, resent>>
    /\ UNCHANGED <<server, page, loads, wait, muted, reminded>>

\* An answer 503: with Retry-After the page keeps the time, without a known
\* code the request may be sent once more.  Nothing of the cache is given.
Refuse(f, retryAfter, known) ==
    LET budget == flights[f].budget
        keep == flights[f].valid /\ flights[f].auth = page.auth
        kept == [by |-> f, budget |-> budget, automatic |-> retryAfter, manual |-> TRUE]
    IN  /\ flights[f].at = "sent"
        /\ wait' = IF keep THEN kept ELSE wait
        /\ IF ~ known /\ budgets[budget].transient < 2 /\ budgets[budget].unknown = 0
           THEN /\ budgets' = [budgets EXCEPT ![budget].transient = @ + 1, ![budget].unknown = 1]
                /\ flights' = [flights EXCEPT ![f].at = "pause", ![f].owned = IF keep THEN f ELSE @]
                /\ resent' = [l \in Loads |-> IF l \in Waiting(f) THEN resent[l] + 1 ELSE resent[l]]
                /\ UNCHANGED <<entries, latest, owed>>
           ELSE /\ Finish(f, "error", None)
                /\ owed' = (owed /\ ~ Current(flights[f]))
                /\ UNCHANGED <<budgets, resent>>
        /\ UNCHANGED <<server, page, loads, muted, reminded>>

Again(f) ==
    /\ flights[f].at = "pause"
    /\ flights' = [flights EXCEPT ![f].at = "sent", ![f].valid = TRUE]
    /\ UNCHANGED <<server, page, loads, entries, latest, budgets, wait, ghosts>>

-----------------------------------------------------------------------------
(* What a load does with the result *)

\* portalExtraUsedBudget.
UsedBudget(b) ==
    LET step(c) == IF budgets[c].link = None \/ budgets[c].link = b THEN c ELSE budgets[c].link
    IN  step(step(step(b)))

\* An entry whose place another one has taken.
Superseded(e) == latest # e \/ entries[e].applied

Ends(l) == loads' = [loads EXCEPT ![l].at = IF loads[l].origin = "automatic" THEN "marks" ELSE "done"]

\* No message: the GET that this entry waited for was one of the page itself.
Mutes(e) == entries[e].result = "wait" /\ entries[entries[e].flight].origin = "automatic"

Warn(e) == /\ entries' = [entries EXCEPT ![e].reported = TRUE]
           /\ owed' = (owed /\ entries[e].reported)

\* A result of before a save, when nothing is shown yet, is asked for again,
\* once; a result of another account, or of a wait, is dropped.
\* Mutant of Discarded: nothing is asked for again.
DiscardedAlways(l, e) ==
    /\ Ends(l) /\ UNCHANGED <<entries, latest, flights, budgets, owed, muted>>
Discarded(l, e) ==
    LET bySave == entries[e].result \in {"ok", "changed"}
        unloaded == ~ page.loaded
    IN  IF entries[e].auth # page.auth \/ entries[e].result = "wait" \/ (bySave /\ ~ unloaded)
        THEN /\ Ends(l) /\ muted' = (muted \/ Mutes(e))
             /\ UNCHANGED <<entries, latest, flights, budgets, owed>>
        ELSE IF bySave /\ ~ loads[l].again
        THEN BeginEntry(l, 2, loads[l].origin, UsedBudget(entries[e].budget)) /\ UNCHANGED <<owed, muted>>
        ELSE Ends(l) /\ Warn(e) /\ UNCHANGED <<latest, flights, budgets, muted>>

\* loadExtraDataBatch after its requests have settled.
Settle(l) ==
    LET e == loads[l].entry
    IN  /\ loads[l].at = "waits" /\ entries[e].at = "settled"
        /\ IF Superseded(e)
           THEN Ends(l) /\ UNCHANGED <<page, entries, latest, flights, budgets, owed, muted>>
           ELSE IF ~ Current(entries[e])
           THEN Discarded(l, e) /\ UNCHANGED page
           ELSE IF entries[e].result = "ok"
           THEN /\ Ends(l) /\ entries' = [entries EXCEPT ![e].applied = TRUE]
                /\ page' = [page EXCEPT !.shown = entries[e].version, !.loaded = TRUE]
                /\ owed' = FALSE /\ UNCHANGED <<latest, flights, budgets, muted>>
           ELSE IF entries[e].result = "wait"
           THEN /\ Ends(l) /\ muted' = (muted \/ Mutes(e))
                /\ UNCHANGED <<page, entries, latest, flights, budgets, owed>>
           ELSE Ends(l) /\ Warn(e) /\ UNCHANGED <<page, latest, flights, budgets, muted>>
        /\ UNCHANGED <<server, wait, reminded, resent>>

\* The reminder after the start: the attendances count as loaded.
Remind(l) ==
    /\ loads[l].at = "marks"
    /\ loads' = [loads EXCEPT ![l].at = "done"]
    /\ page' = [page EXCEPT !.loaded = TRUE]
    /\ reminded' = (reminded \/ page.shown = None)
    /\ UNCHANGED <<server, entries, latest, flights, budgets, wait, owed, muted, resent>>

-----------------------------------------------------------------------------
(* Saves, sign-ins, time and others *)

\* invalidateCacheForMutation, for this collection or for another one: with it
\* go the wait and the cached answer, and the GETs under way set no wait.
Save(related) ==
    /\ page.epoch < MaxSaves
    /\ page' = [page EXCEPT !.epoch = @ + 1, !.cached = IF related THEN None ELSE @]
    /\ IF related
       THEN /\ server < MaxVersion /\ server' = server + 1 /\ wait' = None
            /\ flights' = [f \in Entries |-> [flights[f] EXCEPT !.valid = FALSE]]
       ELSE UNCHANGED <<server, wait, flights>>
    /\ UNCHANGED <<loads, entries, latest, budgets, ghosts>>

\* Another account, or the same one again: advancePortalAuthTransition.
SignIn ==
    /\ page.auth = 0
    /\ page' = [page EXCEPT !.auth = 1, !.cached = None] /\ wait' = None /\ owed' = FALSE
    /\ UNCHANGED <<server, loads, entries, latest, flights, budgets, muted, reminded, resent>>

Change ==
    /\ server < MaxVersion /\ server' = server + 1
    /\ UNCHANGED <<page, loads, entries, latest, flights, budgets, wait, ghosts>>

Expire ==
    /\ wait # None
    /\ wait' = IF wait.manual /\ wait.automatic THEN [wait EXCEPT !.manual = FALSE] ELSE None
    /\ UNCHANGED <<server, page, loads, entries, latest, flights, budgets, ghosts>>

Next ==
    \/ \E l \in Loads : Open(l) \/ Start(l) \/ Settle(l) \/ Remind(l)
    \/ \E f \in Entries : \/ Send(f) \/ Answer(f) \/ Break(f) \/ Again(f)
                          \/ \E retryAfter, known \in BOOLEAN : Refuse(f, retryAfter, known)
    \/ \E related \in BOOLEAN : Save(related)
    \/ SignIn \/ Change \/ Expire

Spec == Init /\ [][Next]_vars

-----------------------------------------------------------------------------
(* Properties *)

UnderWay == \E l \in Loads : loads[l].at = "waits"

\* What the screen shows of a collection is never replaced by an older answer,
\* whichever of the loads under way is the last to go on.
Newer == page'.auth = page.auth /\ page.shown # None => page'.shown >= page.shown
NeverOlder == [][Newer]_page

\* A user who opened a tab that has nothing to show ends with the collection or
\* with a message, unless a load of the page itself was kept waiting by the
\* server, or the reminder has marked the collection as loaded.
NothingSilent == owed /\ ~ UnderWay => muted \/ reminded

\* No load waits for more than two re-sends: those of the GET it joined, and
\* those of the request of its own after a save.
ResendsBounded == \A l \in Loads : resent[l] <= 2
=============================================================================
