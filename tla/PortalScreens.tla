----------------------------- MODULE PortalScreens -----------------------------
(***************************************************************************)
(* The panels and tabs of the portal: switchTab, the panels of members,    *)
(* administrators and the system, whose code and data are loaded when they *)
(* are opened, the browser's history, and the sign-in (navigation/routes,  *)
(* navigation/events, auth_feature.js).                                    *)
(*                                                                         *)
(* A task is a handler that waits for a load.  Of the tabs of a panel only *)
(* those are told apart that are opened in different ways: "first" is the  *)
(* one a panel opens with, "notification" waits for its code, "album" is   *)
(* the members' tab that waits for its code when it is clicked, "lab" is   *)
(* the tuner or the metronome.                                             *)
(***************************************************************************)
EXTENDS Naturals, FiniteSets

CONSTANTS
    None,
    Tasks,
    MaxTicket   \* bound: screen changes

ASSUME NoneAssumption ==
    None \notin {"member", "admin", "system", "notification", "album", "default", "restore", "logout"}

VARIABLES screen, tasks, overtaken, undone

vars == <<screen, tasks, overtaken, undone>>

Panels == {"member", "admin", "system"}
Tabs == {"first", "notification", "album", "other", "lab"}
NoTask == [kind |-> None, panel |-> None, ticket |-> 0, newer |-> FALSE]

Init ==
    /\ screen = [signed |-> TRUE, login |-> FALSE, panel |-> "member",
                 tabs |-> [p \in Panels |-> IF p = "member" THEN {"first"} ELSE {}],
                 ticket |-> 0, lab |-> FALSE, album |-> FALSE]
    /\ tasks = [t \in Tasks |-> NoTask]
    /\ overtaken = FALSE   \* a tab was shown while the notifications were loaded
    /\ undone = {}         \* the kinds of the handlers that replaced a later choice

-----------------------------------------------------------------------------
(* Sub-steps: s is the screen *)

\* nextPortalNavigation, and leavePortalTuner, which calls it.
Navigated(s) == [s EXCEPT !.ticket = @ + 1]

\* switchTab up to its first await.
Hidden(s, p) == [Navigated(s) EXCEPT !.tabs[p] = {}]

\* The panel with its tab: showAdminPanel, showMemberTab, restorePortalHistoryState.
Shown(s, p, tab) == [Hidden(s, p) EXCEPT !.panel = p, !.tabs[p] = {tab}]

\* showPortalLogin; the tuner's exit exists with the laboratory module only.
ToLogin(s) == LET left == IF s.lab THEN Navigated(s) ELSE s
              IN  [left EXCEPT !.login = TRUE, !.panel = None]

\* The other handlers now wait with an older choice than the last one with a number.
Later(ts) == [t \in Tasks |-> IF ts[t].kind = None THEN ts[t] ELSE [ts[t] EXCEPT !.newer = TRUE]]
Done(t) == [tasks EXCEPT ![t] = NoTask]

\* A handler that waited shows its tab.
Replaces(t) == undone' = IF tasks[t].newer THEN undone \cup {tasks[t].kind} ELSE undone

\* A click on a tab of the members' panel is remembered as the last one (lastSelectedMemberTab).
Clicked(s) == IF s.panel = "member" THEN [s EXCEPT !.album = FALSE] ELSE s

Room(n) == screen.ticket + n <= MaxTicket
Free(t) == tasks[t].kind = None
Waits(kind) == \E t \in Tasks : tasks[t].kind = kind

-----------------------------------------------------------------------------
(* What the user chooses *)

\* A tab of the panel.  The notifications are loaded before their tab is shown.
Choose(t, tab) ==
    /\ screen.panel # None /\ ~ screen.login /\ Room(1) /\ tab # "album"
    /\ tab = "lab" => screen.panel = "system" /\ screen.lab
    /\ IF tab # "notification"
       THEN screen' = Shown(Clicked(screen), screen.panel, tab) /\ tasks' = Later(tasks)
       ELSE /\ Free(t) /\ screen' = Hidden(Clicked(screen), screen.panel)
            /\ tasks' = [Later(tasks) EXCEPT ![t] = [NoTask EXCEPT !.kind = "notification", !.panel = screen.panel]]
    /\ overtaken' = (overtaken \/ Waits("notification"))
    /\ UNCHANGED undone

\* The tab is shown when its code is there, whatever was chosen since; on
\* failure nothing is shown.
NotificationReady(t) ==
    /\ tasks[t].kind = "notification" /\ tasks' = Done(t)
    /\ \/ screen' = [screen EXCEPT !.tabs[tasks[t].panel] = @ \cup {"notification"}] /\ Replaces(t)
       \/ UNCHANGED <<screen, undone>>
    /\ UNCHANGED overtaken

\* The members' album: its code is loaded, once for several clicks, and the click
\* takes no number.
ChooseAlbum(t) ==
    /\ screen.panel = "member" /\ ~ screen.login
    /\ screen' = [screen EXCEPT !.album = TRUE]
    /\ \/ Waits("album") /\ UNCHANGED tasks
       \/ ~ Waits("album") /\ Free(t) /\ tasks' = [tasks EXCEPT ![t] = [NoTask EXCEPT !.kind = "album"]]
    /\ UNCHANGED <<overtaken, undone>>

\* The album is shown unless another tab of the panel was clicked, whatever panel
\* was opened since; on failure it is not.
AlbumReady(t) ==
    /\ tasks[t].kind = "album"
    /\ \/ /\ screen.album /\ Room(1)
          /\ screen' = [Hidden(screen, "member") EXCEPT !.tabs["member"] = {"album"}]
          /\ tasks' = Later(Done(t)) /\ Replaces(t)
          /\ overtaken' = (overtaken \/ Waits("notification"))
       \/ tasks' = Done(t) /\ UNCHANGED <<screen, overtaken, undone>>

\* showMemberTab: the menu, the brand.
OpenMember(tab) ==
    /\ Room(2) /\ ~ screen.login
    /\ screen' = IF screen.signed THEN Shown(Navigated(screen), "member", tab)
                 ELSE ToLogin(Navigated(screen))
    /\ tasks' = Later(tasks)
    /\ overtaken' = (overtaken \/ Waits("notification"))
    /\ UNCHANGED undone

\* requestAdminPanel: the code is loaded, then the panel is shown.
OpenAdmin(t) ==
    /\ Free(t) /\ screen.signed /\ ~ screen.login
    /\ tasks' = [tasks EXCEPT ![t] = [NoTask EXCEPT !.kind = "admin"]]
    /\ UNCHANGED <<screen, overtaken, undone>>

AdminReady(t) ==
    /\ tasks[t].kind = "admin" /\ Room(2)
    /\ \/ /\ screen' = Shown(Navigated(screen), "admin", "first")
          /\ tasks' = Later(Done(t)) /\ Replaces(t)
          /\ overtaken' = (overtaken \/ Waits("notification"))
       \/ tasks' = Done(t) /\ UNCHANGED <<screen, overtaken, undone>>

\* showSystemPanel: code, then the panel, then the data, then its first tab.
OpenSystem(t) ==
    /\ Free(t) /\ screen.signed /\ ~ screen.login /\ Room(1)
    /\ screen' = Navigated(screen)
    /\ tasks' = [Later(tasks) EXCEPT ![t] = [NoTask EXCEPT !.kind = "system"]]
    /\ UNCHANGED <<overtaken, undone>>

SystemReady(t) ==
    /\ tasks[t].kind = "system"
    /\ \/ /\ screen' = [screen EXCEPT !.panel = "system", !.lab = TRUE]
          /\ tasks' = [tasks EXCEPT ![t] = [NoTask EXCEPT !.kind = "default", !.ticket = screen.ticket]]
          /\ Replaces(t)
       \/ tasks' = Done(t) /\ UNCHANGED <<screen, undone>>
    /\ UNCHANGED overtaken

\* isLatestPortalNavigation.
\* Mutant of Latest: whatever was chosen since.
LatestAny(t) == TRUE
Latest(t) == tasks[t].ticket = screen.ticket

DefaultTab(t) ==
    /\ tasks[t].kind = "default" /\ Room(1)
    /\ IF Latest(t)
       THEN /\ screen' = [Hidden(screen, "system") EXCEPT !.tabs["system"] = {"first"}]
            /\ Replaces(t)
            /\ overtaken' = (overtaken \/ Waits("notification"))
       ELSE UNCHANGED <<screen, undone, overtaken>>
    /\ tasks' = Done(t)

-----------------------------------------------------------------------------
(* The history of the browser *)

\* restorePortalHistoryState: a tab of the laboratory waits for the session and
\* the code, the others are shown at once.
Back(t, p, tab) ==
    /\ Room(3) /\ tab \notin {"notification", "album"} /\ (tab = "lab" => p = "system")
    /\ IF tab # "lab"
       THEN /\ screen' = [Shown(Navigated(screen), p, tab) EXCEPT !.login = FALSE]
            /\ tasks' = Later(tasks)
            /\ overtaken' = (overtaken \/ Waits("notification"))
       ELSE /\ Free(t) /\ screen' = Navigated(Navigated(screen))
            /\ tasks' = [Later(tasks) EXCEPT ![t] =
                 [NoTask EXCEPT !.kind = "restore", !.ticket = screen.ticket + 2]]
            /\ UNCHANGED overtaken
    /\ UNCHANGED undone

\* preparePortalTunerHistoryRestore and what follows it: a newer choice, or the
\* end of the session, wins.
Restore(t) ==
    /\ tasks[t].kind = "restore" /\ Room(1)
    /\ IF Latest(t) /\ screen.signed
       THEN /\ screen' = [Shown(screen, "system", "lab") EXCEPT !.login = FALSE, !.lab = TRUE]
            /\ Replaces(t)
            /\ overtaken' = (overtaken \/ Waits("notification"))
       ELSE UNCHANGED <<screen, undone, overtaken>>
    /\ tasks' = Done(t)

-----------------------------------------------------------------------------
(* The session *)

\* logoutPortal, which may wait for the notifications of the device: until then
\* the choices before it still count, unless the laboratory was left.  And the end
\* of the session that a check finds.
BeginLogout(t) ==
    /\ Free(t) /\ screen.signed /\ ~ screen.login /\ Room(2) /\ ~ Waits("logout")
    /\ screen' = IF screen.lab THEN Navigated(screen) ELSE screen
    /\ tasks' = [IF screen.lab THEN Later(tasks) ELSE tasks
                   EXCEPT ![t] = [NoTask EXCEPT !.kind = "logout"]]
    /\ UNCHANGED <<overtaken, undone>>

SignedOut ==
    /\ screen' = ToLogin([screen EXCEPT !.signed = FALSE])
    /\ UNCHANGED <<overtaken, undone>>

EndLogout(t) == tasks[t].kind = "logout" /\ Room(1) /\ tasks' = Later(Done(t)) /\ SignedOut

SessionLost == screen.signed /\ Room(1) /\ tasks' = Later(tasks) /\ SignedOut

\* handlePortalLogin, then enterPortal.
Login ==
    /\ screen.login /\ Room(2)
    /\ screen' = [Shown(Navigated(screen), "member", "first") EXCEPT !.signed = TRUE, !.login = FALSE]
    /\ tasks' = Later(tasks)
    /\ overtaken' = (overtaken \/ Waits("notification"))
    /\ UNCHANGED undone

Next ==
    \/ \E t \in Tasks :
         \/ \E tab \in Tabs : Choose(t, tab) \/ \E p \in Panels : Back(t, p, tab)
         \/ NotificationReady(t) \/ ChooseAlbum(t) \/ AlbumReady(t) \/ OpenAdmin(t) \/ AdminReady(t) \/ OpenSystem(t)
         \/ SystemReady(t) \/ DefaultTab(t) \/ Restore(t) \/ BeginLogout(t) \/ EndLogout(t)
    \/ \E tab \in {"first", "other"} : OpenMember(tab)
    \/ SessionLost \/ Login

Spec == Init /\ [][Next]_vars

-----------------------------------------------------------------------------
(* Properties *)

\* Of the handlers that waited, the history's tab of the laboratory and the first
\* tab of the system panel never replace a later choice.  A choice is what takes a
\* number at once: not the album and the administrators' panel, which take one when
\* they are shown.  Those two, the system panel and the notifications are shown
\* whatever was chosen since.
LaterChoiceWins == undone \subseteq {"admin", "system", "notification", "album"}

\* Of the tabs of a panel one is shown at most, unless another was shown while
\* the settings of the notifications were loaded.
OneTab == ~ overtaken => \A p \in Panels : Cardinality(screen.tabs[p]) <= 1

\* What the screens promise to whoever uses them.
ScreensFollow == LaterChoiceWins /\ OneTab
=============================================================================
