------------------------------- MODULE MCPortal -------------------------------
(***************************************************************************)
(* The start of the portal's page, its screens, and the loads of a         *)
(* deferred collection for TLC: each behaviour is one of these parts,      *)
(* chosen at the start.  The screens are extended, the others are          *)
(* instances; the variables of a part that is not chosen have no value.    *)
(***************************************************************************)
EXTENDS PortalScreens, TLC

CONSTANTS
    Loads,
    MaxVersion, MaxRefresh, MaxTry, MaxSaves   \* bounds of PortalStart and ExtraLoads

ASSUME NoValueAssumption ==
    None \notin Nat \cup Loads \cup (Loads \X {1, 2}) \cup {"manual", "automatic", "ok", "changed", "wait", "error"}

VARIABLES
    part,
    guard, start, lite, data, cache, retried, crossed, late,                      \* PortalStart
    page, loads, entries, latest, flights, budgets, wait, owed, muted, reminded, resent,  \* ExtraLoads
    server                                                                        \* of both

startVars == <<guard, start, lite, data, cache, retried, crossed, late>>
loadVars == <<page, loads, entries, latest, flights, budgets, wait, owed, muted, reminded, resent>>

Start == INSTANCE PortalStart
Extra == INSTANCE ExtraLoads

NoStart ==
    /\ guard = None /\ start = None /\ lite = None /\ data = None
    /\ cache = None /\ retried = None /\ crossed = None /\ late = None
NoExtra ==
    /\ page = None /\ loads = None /\ entries = None /\ latest = None /\ flights = None
    /\ budgets = None /\ wait = None /\ owed = None /\ muted = None
    /\ reminded = None /\ resent = None

MCInit ==
    /\ Init   \* of PortalScreens
    /\ \/ part = "screens" /\ NoStart /\ NoExtra /\ server = None
       \/ part = "start" /\ Start!Init /\ NoExtra
       \/ part = "extra" /\ Extra!Init /\ NoStart

MCNext ==
    /\ UNCHANGED part
    /\ \/ part = "screens" /\ Next /\ UNCHANGED <<startVars, loadVars, server>>
       \/ UNCHANGED vars /\
          \/ part = "start" /\ Start!Next /\ UNCHANGED loadVars
          \/ part = "extra" /\ Extra!Next /\ UNCHANGED startVars

MCSpec == MCInit /\ [][MCNext]_<<part, vars, startVars, loadVars, server>>

Symmetry == Permutations(Loads) \cup Permutations(Tasks)

-----------------------------------------------------------------------------
(* The properties, each of its part *)

\* After a refresh the full data is as new, and a start that failed can be
\* repeated (PortalStart).
StartAnswers == part = "start" => Start!RefreshIsFull /\ Start!NeverStuck

\* A user who opens a tab gets the collection or a message, after two re-sends
\* at most (ExtraLoads).
LoadsSpeak == part = "extra" => Extra!NothingSilent /\ Extra!ResendsBounded

\* What the page shows does not go back to older data, nor to nothing
\* (PortalStart, ExtraLoads).
NeverBack ==
    /\ [][part = "start" => Start!Onward]_<<data, start, crossed>>
    /\ [][part = "extra" => Extra!Newer]_page
=============================================================================
