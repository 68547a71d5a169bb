------------------------------ MODULE PortalStart ------------------------------
(***************************************************************************)
(* How the page of the portal starts and gets its first data: the start    *)
(* screen with its watchdog and buttons (startup_guard.js), the run of     *)
(* _runAuthAndStart and the check after a pause (bootstrap_init.js), the   *)
(* loads of bootstrap-lite with a preview from the cache, the refresh of   *)
(* the user and the full load in the background (bootstrap_loader.js).     *)
(*                                                                         *)
(* Of the data only the version is kept; a version in Broken cannot be     *)
(* drawn.  The session check is an input: PortalRequests is about it.      *)
(***************************************************************************)
EXTENDS Naturals

CONSTANTS
    None,
    MaxVersion,   \* bound: changes of the data
    MaxRefresh,   \* bound: refreshes of the user
    MaxTry        \* bound: runs of the start

VARIABLES
    guard,     \* the start screen: its button and the watchdog
    start,     \* the run of _runAuthAndStart
    lite,      \* the loads of bootstrap-lite, each under its caller
    data,      \* what the page shows, and the flags of appState
    cache,     \* the entry of bootstrap-lite
    server,    \* the version of the data, and those that cannot be drawn
    \* history variables of the properties
    retried,   \* a retry of the start has failed
    crossed,   \* a load began while another one was under way
    late       \* a refresh found a full load under way

vars == <<guard, start, lite, data, cache, server, retried, crossed, late>>

Callers == {"start", "resume", "refresh", "full"}
NoLoad == [at |-> "idle", found |-> None, preview |-> None, cached |-> None]
Buttons == {"none", "start", "page"}   \* what the button repeats

Init ==
    /\ \E broken \in SUBSET (0 .. MaxVersion), c \in {None, 0} :
         /\ server = [version |-> 0, broken |-> broken] /\ cache = c
    /\ guard = [ready |-> FALSE, button |-> "none", enabled |-> TRUE, running |-> FALSE, watchdog |-> TRUE]
    /\ start = [at |-> "auth", try |-> 1]
    /\ lite = [c \in Callers |-> NoLoad]
    /\ data = [shown |-> None, essential |-> FALSE, full |-> None, loaded |-> FALSE, loading |-> FALSE,
               asked |-> None, refreshes |-> 0]
    /\ retried = FALSE /\ crossed = FALSE /\ late = FALSE

-----------------------------------------------------------------------------
(* The start screen *)

\* showRetry: the button is a copy of the one before, which stays disabled when
\* that one was; the retry may be pressed when none is running.
\* Mutant of Offered: the old button is hidden and none is shown.
OfferedNot(g, what) == [g EXCEPT !.button = "none"]
Offered(g, what) == [g EXCEPT !.button = what]

Ready(g) == [g EXCEPT !.ready = TRUE, !.watchdog = FALSE]

\* The promise of the retry is settled.
Ended(g) == [g EXCEPT !.running = FALSE]

Watchdog ==
    /\ guard.watchdog
    /\ guard' = Offered([guard EXCEPT !.watchdog = FALSE], "page")
    /\ UNCHANGED <<start, lite, data, cache, server, retried, crossed, late>>

Works == guard.button # "none" /\ guard.enabled /\ ~ guard.running

\* The user presses the button: another run of the start, or of the page.
Press ==
    /\ ~ guard.ready /\ Works /\ start.try < MaxTry
    /\ IF guard.button = "start"
       THEN /\ guard' = [guard EXCEPT !.running = TRUE, !.enabled = FALSE]
            /\ start' = [at |-> "auth", try |-> start.try + 1]
            /\ UNCHANGED <<lite, data, retried>>
       ELSE /\ guard' = [guard EXCEPT !.button = "none", !.enabled = TRUE, !.running = FALSE, !.watchdog = TRUE]
            /\ start' = [at |-> "auth", try |-> start.try + 1]
            /\ lite' = [c \in Callers |-> NoLoad]
            /\ data' = [data EXCEPT !.shown = None, !.essential = FALSE, !.full = None, !.loaded = FALSE, !.loading = FALSE]
            /\ retried' = FALSE
    /\ UNCHANGED <<cache, server, crossed, late>>

-----------------------------------------------------------------------------
(* The run of the start *)

\* The catch block of _runAuthAndStart, and an answer that is not to be had.
StartFails ==
    /\ start' = [start EXCEPT !.at = "over"]
    /\ guard' = Ended(Offered(guard, "start"))
    /\ retried' = (retried \/ guard.running)

\* enterPortal after the data.
Entered == start' = [start EXCEPT !.at = "over"] /\ guard' = Ended(Ready(guard))

\* The session: without one the sign-in is shown; with one enterPortal goes on.
CheckSession ==
    /\ start.at = "auth"
    /\ \/ start' = [start EXCEPT !.at = "over"] /\ guard' = Ended(Ready(guard)) /\ UNCHANGED <<lite, retried>>
       \/ StartFails /\ UNCHANGED lite
       \/ data.essential /\ Entered /\ UNCHANGED <<lite, retried>>
       \/ /\ ~ data.essential /\ start' = [start EXCEPT !.at = "load"]
          /\ lite' = [lite EXCEPT !["start"].at = "cache"]
          /\ UNCHANGED <<guard, retried>>
    /\ UNCHANGED <<data, cache, server, crossed, late>>

\* loadEssentialData with a preview: what the cache has is drawn, and the start
\* screen goes; what cannot be drawn is deleted.
Preview ==
    /\ lite["start"].at = "cache"
    /\ IF cache = None
       THEN lite' = [lite EXCEPT !["start"].at = "sent"] /\ UNCHANGED <<data, cache, guard>>
       ELSE IF cache \in server.broken
       THEN /\ cache' = None /\ lite' = [lite EXCEPT !["start"].at = "sent"]
            /\ UNCHANGED <<data, guard>>
       ELSE /\ lite' = [lite EXCEPT !["start"].at = "sent", !["start"].preview = cache, !["start"].cached = cache]
            /\ data' = [data EXCEPT !.shown = cache]
            /\ guard' = Ready(guard) /\ UNCHANGED cache
    /\ crossed' = (crossed \/ \E c \in Callers \ {"start", "full"} : lite[c].at # "idle")
    /\ UNCHANGED <<start, server, retried, late>>

-----------------------------------------------------------------------------
(* The loads *)

\* The check after a pause loads the data when it is old; the refresh of the
\* user asks the server in any case; both without the cache's preview.
Others(c) == {d \in Callers \ {"full"} : d # c /\ lite[d].at # "idle"}
Begin(c) ==
    /\ lite' = [lite EXCEPT ![c] = [NoLoad EXCEPT !.at = "sent", !.cached = cache]]
    /\ crossed' = (crossed \/ Others(c) # {})

Resume ==
    /\ start.at = "over" \/ start.try > 1
    /\ lite["resume"].at = "idle"
    /\ Begin("resume")
    /\ UNCHANGED <<guard, start, data, cache, server, retried, late>>

Refresh ==
    /\ guard.ready /\ lite["refresh"].at = "idle" /\ data.refreshes < MaxRefresh
    /\ Begin("refresh")
    /\ data' = [data EXCEPT !.refreshes = @ + 1]
    /\ UNCHANGED <<guard, start, cache, server, retried, late>>

\* The server answers; the check and the start share a GET.
Serve(c) ==
    /\ lite[c].at = "sent"
    /\ LET shared == IF c \in {"start", "resume"} THEN {d \in {"start", "resume"} : lite[d].at = "sent"} ELSE {c}
       IN  lite' = [d \in Callers |-> IF d \in shared
                      THEN [lite[d] EXCEPT !.at = "answered", !.found = server.version] ELSE lite[d]]
    /\ UNCHANGED <<guard, start, data, cache, server, retried, crossed, late>>

\* No answer comes: that of the cache is taken, but not after a preview.
Lose(c) ==
    /\ c # "full" /\ lite[c].at = "sent"
    /\ lite' = [lite EXCEPT ![c].at = IF lite[c].preview = None /\ lite[c].cached # None THEN "fallback" ELSE "lost",
                            ![c].found = IF lite[c].preview = None THEN lite[c].cached ELSE None]
    /\ UNCHANGED <<guard, start, data, cache, server, retried, crossed, late>>

\* request() keeps the answer, the page draws it.  A load with a preview goes
\* back to the preview when either fails; the start without one fails, and the
\* others show an alert.
\* Mutant of Restored: what cannot be drawn stays.
RestoredNot(c) == [data EXCEPT !.shown = None]
Restored(c) == [data EXCEPT !.shown = lite[c].preview]

Drawn(c) == lite[c].found # None /\ lite[c].found \notin server.broken

\* The cache after the answer of a load.
Kept(c) == IF lite[c].preview # None /\ lite[c].at = "answered" /\ ~ Drawn(c) THEN None
           ELSE IF lite[c].at = "answered" THEN lite[c].found ELSE cache

Arrive(c) ==
    LET preview == lite[c].preview # None
    IN  /\ c \in {"start", "resume"} /\ lite[c].at \in {"answered", "fallback", "lost"}
        /\ cache' = Kept(c)
        /\ data' = IF Drawn(c) THEN [data EXCEPT !.shown = lite[c].found, !.essential = TRUE]
                   ELSE IF preview THEN [Restored(c) EXCEPT !.essential = TRUE] ELSE data
        /\ lite' = [lite EXCEPT ![c] = NoLoad]
        /\ IF c # "start" THEN UNCHANGED <<guard, start, retried>>
           ELSE IF Drawn(c) \/ preview THEN Entered /\ UNCHANGED retried
           ELSE StartFails
        /\ UNCHANGED <<server, crossed, late>>

\* refreshPortalData after its load: the full load is to be made again, and
\* begins (loadFullDataInBackground) unless one is under way.
Outdated(d) == [d EXCEPT !.loaded = FALSE]
BackgroundBusy(d) == d.loaded \/ d.loading

RefreshArrives ==
    LET answered == lite["refresh"].at \in {"answered", "fallback", "lost"}
        refreshed == Outdated([data EXCEPT !.shown = lite["refresh"].found, !.essential = TRUE,
                                           !.asked = lite["refresh"].found])
        begins == Drawn("refresh") /\ ~ BackgroundBusy(refreshed)
    IN  /\ answered
        /\ cache' = Kept("refresh")
        /\ data' = IF ~ Drawn("refresh") THEN data
                   ELSE [refreshed EXCEPT !.loading = data.loading \/ begins]
        /\ lite' = [lite EXCEPT !["refresh"] = NoLoad,
                                !["full"] = IF begins THEN [NoLoad EXCEPT !.at = "sent"] ELSE @]
        /\ late' = (late \/ (Drawn("refresh") /\ data.loading))
        /\ UNCHANGED <<guard, start, server, retried, crossed>>

\* The full load of the background is over; it may fail.
FullArrives ==
    /\ lite["full"].at = "answered"
    /\ lite' = [lite EXCEPT !["full"] = NoLoad]
    /\ \/ data' = [data EXCEPT !.full = lite["full"].found, !.loaded = TRUE, !.loading = FALSE]
       \/ data' = [data EXCEPT !.loading = FALSE]
    /\ UNCHANGED <<guard, start, cache, server, retried, crossed, late>>

Change ==
    /\ server.version < MaxVersion
    /\ server' = [server EXCEPT !.version = @ + 1]
    /\ UNCHANGED <<guard, start, lite, data, cache, retried, crossed, late>>

Next ==
    \/ Watchdog \/ Press \/ CheckSession \/ Preview \/ Resume \/ Refresh
    \/ \E c \in Callers : Serve(c) \/ Lose(c) \/ Arrive(c)
    \/ RefreshArrives \/ FullArrives \/ Change

Spec == Init /\ [][Next]_vars

-----------------------------------------------------------------------------
(* Properties *)

\* What is drawn does not go back to older data, nor to nothing, when one load
\* is under way at a time; only the preview comes back when newer data cannot
\* be drawn.
Onward == data.shown # None /\ ~ crossed' /\ start'.try = start.try =>
            data'.shown # None /\ data'.shown >= data.shown
NeverBlank == [][Onward]_<<data, start, crossed>>

\* A run of the start that is over shows the portal or the sign-in, or it
\* leaves a button that works, unless a retry has failed.
NeverStuck == start.at = "over" => guard.ready \/ Works \/ retried

\* The full data is as new as the last refresh had it, when a full load that is
\* done counts as loaded, unless one was under way at that refresh.
RefreshIsFull == data.loaded /\ ~ late /\ data.asked # None => data.full >= data.asked
=============================================================================
