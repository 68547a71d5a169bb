----------------------------- MODULE PortalProofs -----------------------------
(***************************************************************************)
(* Theorems about the three parts of the portal's page: its screens, for   *)
(* any number of waiting handlers (PortalScreens, to ScreensAlwaysFollow), *)
(* its start, and the loads of a deferred collection, for any number of    *)
(* them (PortalStart and ExtraLoads, as instances of MCPortal).            *)
(***************************************************************************)
EXTENDS MCPortal, TLAPS, FiniteSetTheorems

-----------------------------------------------------------------------------
(* The screens *)

Kinds == {"notification", "album", "admin", "system", "default", "restore", "logout"}

ScreenRecord ==
    [signed : BOOLEAN, login : BOOLEAN, panel : Panels \cup {None},
     tabs : [Panels -> SUBSET Tabs], ticket : Nat, lab : BOOLEAN, album : BOOLEAN]

TaskRecord ==
    [kind : Kinds \cup {None}, panel : Panels \cup {None}, ticket : Nat, newer : BOOLEAN]

Typed ==
    /\ screen \in ScreenRecord
    /\ tasks \in [Tasks -> TaskRecord]
    /\ overtaken \in BOOLEAN
    /\ \A t \in Tasks : tasks[t].kind = "notification" => tasks[t].panel \in Panels

\* The handlers that do not ask for the number of the last choice.
Unasked == {"admin", "system", "notification", "album"}

(* A handler that asks for the number of the last choice has an older one if  *)
(* the user chose since; or the session has ended, which the laboratory's     *)
(* handler notices, and the laboratory is known once a system tab waits.      *)
Ticketed(s, task) ==
    task.kind \in {"default", "restore"} =>
        /\ task.ticket <= s.ticket
        /\ task.newer => task.ticket < s.ticket \/ (task.kind = "restore" /\ ~ s.signed)
        /\ task.kind = "default" => s.lab

(* One tab at most, none while the panel waits for the notifications. *)
Single(s) == \A p \in Panels : \A a, b \in s.tabs[p] : a = b
Reserved(s, ts) ==
    \A t \in Tasks : ts[t].kind = "notification" =>
        /\ s.tabs[ts[t].panel] = {}
        /\ \A u \in Tasks : ts[u].kind = "notification" => u = t

Inv ==
    /\ Typed
    /\ \A t \in Tasks : Ticketed(screen, tasks[t])
    /\ ~ overtaken => Single(screen) /\ Reserved(screen, tasks)
    /\ undone \subseteq Unasked

-----------------------------------------------------------------------------
(* What the sub-steps do to the screen *)

\* A choice of the user: only the number of the choice changes.
LEMMA NavigatedScreen ==
    ASSUME NEW s \in ScreenRecord
    PROVE  /\ Navigated(s) \in ScreenRecord
           /\ Navigated(s).ticket = s.ticket + 1
           /\ Navigated(s).tabs = s.tabs
           /\ Navigated(s).signed = s.signed
           /\ Navigated(s).lab = s.lab
           /\ Navigated(s).login = s.login
           /\ Navigated(s).panel = s.panel
BY DEF Navigated, ScreenRecord

\* A panel that is hidden has no tab.
LEMMA HiddenScreen ==
    ASSUME NEW s \in ScreenRecord, NEW p \in Panels
    PROVE  /\ Hidden(s, p) \in ScreenRecord
           /\ Hidden(s, p).ticket = s.ticket + 1
           /\ Hidden(s, p).tabs[p] = {}
           /\ \A q \in Panels \ {p} : Hidden(s, p).tabs[q] = s.tabs[q]
           /\ Hidden(s, p).signed = s.signed
           /\ Hidden(s, p).lab = s.lab
           /\ Hidden(s, p).panel = s.panel
BY NavigatedScreen DEF Hidden, ScreenRecord

\* A tab that is shown is the only one of its panel.
LEMMA ShownScreen ==
    ASSUME NEW s \in ScreenRecord, NEW p \in Panels, NEW tab \in Tabs
    PROVE  /\ Shown(s, p, tab) \in ScreenRecord
           /\ Shown(s, p, tab).ticket = s.ticket + 1
           /\ Shown(s, p, tab).tabs[p] = {tab}
           /\ \A q \in Panels \ {p} : Shown(s, p, tab).tabs[q] = s.tabs[q]
           /\ Shown(s, p, tab).signed = s.signed
           /\ Shown(s, p, tab).lab = s.lab
<1> DEFINE h == Hidden(s, p)
<1>1. Shown(s, p, tab) = [h EXCEPT !.panel = p, !.tabs[p] = {tab}]
  BY DEF Shown
<1>2. /\ h \in ScreenRecord /\ h.ticket = s.ticket + 1 /\ h.signed = s.signed /\ h.lab = s.lab
      /\ \A q \in Panels \ {p} : h.tabs[q] = s.tabs[q]
  BY HiddenScreen
<1> HIDE DEF h
<1> DEFINE f == [h.tabs EXCEPT ![p] = {tab}]
<1>3. h.tabs \in [Panels -> SUBSET Tabs]
  BY <1>2 DEF ScreenRecord
<1>4. /\ f \in [Panels -> SUBSET Tabs] /\ f[p] = {tab}
      /\ \A q \in Panels \ {p} : f[q] = s.tabs[q]
  BY <1>2, <1>3
<1>5. Shown(s, p, tab) = [h EXCEPT !.panel = p, !.tabs = f]
  BY <1>1
<1> HIDE DEF f
<1>6. Shown(s, p, tab) \in ScreenRecord
  BY <1>2, <1>4, <1>5 DEF ScreenRecord
<1>7. /\ Shown(s, p, tab).ticket = h.ticket /\ Shown(s, p, tab).tabs = f
      /\ Shown(s, p, tab).signed = h.signed /\ Shown(s, p, tab).lab = h.lab
  BY <1>2, <1>4, <1>5 DEF ScreenRecord
<1> QED
  BY <1>2, <1>4, <1>6, <1>7

\* The sign-in page: a laboratory that is left counts as a choice.
LEMMA ToLoginScreen ==
    ASSUME NEW s \in ScreenRecord
    PROVE  /\ ToLogin(s) \in ScreenRecord
           /\ ToLogin(s).ticket >= s.ticket
           /\ s.lab => ToLogin(s).ticket > s.ticket
           /\ ToLogin(s).tabs = s.tabs
           /\ ToLogin(s).signed = s.signed
           /\ ToLogin(s).lab = s.lab
<1>1. CASE s.lab
  <2> DEFINE l == Navigated(s)
  <2>1. ToLogin(s) = [l EXCEPT !.login = TRUE, !.panel = None]
    BY <1>1 DEF ToLogin
  <2>2. /\ l \in ScreenRecord /\ l.ticket = s.ticket + 1 /\ l.tabs = s.tabs
        /\ l.signed = s.signed /\ l.lab = s.lab /\ s.ticket \in Nat
    BY NavigatedScreen DEF ScreenRecord
  <2> HIDE DEF l
  <2>3. ToLogin(s) \in ScreenRecord
    BY <2>1, <2>2 DEF ScreenRecord
  <2>4. /\ ToLogin(s).ticket = l.ticket /\ ToLogin(s).tabs = l.tabs
        /\ ToLogin(s).signed = l.signed /\ ToLogin(s).lab = l.lab
    BY <2>1, <2>2 DEF ScreenRecord
  <2> QED
    BY <2>2, <2>3, <2>4
<1>2. CASE ~ s.lab
  <2>1. ToLogin(s) = [s EXCEPT !.login = TRUE, !.panel = None] /\ s.ticket \in Nat
    BY <1>2 DEF ToLogin, ScreenRecord
  <2>2. ToLogin(s) \in ScreenRecord
    BY <2>1 DEF ScreenRecord
  <2>3. /\ ToLogin(s).ticket = s.ticket /\ ToLogin(s).tabs = s.tabs
        /\ ToLogin(s).signed = s.signed /\ ToLogin(s).lab = s.lab
    BY <2>1 DEF ScreenRecord
  <2> QED
    BY <1>2, <2>1, <2>2, <2>3
<1> QED
  BY <1>1, <1>2

\* After a choice of the user every handler that waits is an older one.
LEMMA LaterTasks ==
    ASSUME NEW ts \in [Tasks -> TaskRecord]
    PROVE  /\ Later(ts) \in [Tasks -> TaskRecord]
           /\ \A t \in Tasks : /\ Later(ts)[t].kind = ts[t].kind
                               /\ Later(ts)[t].panel = ts[t].panel
                               /\ Later(ts)[t].ticket = ts[t].ticket
BY DEF Later, TaskRecord

\* A handler that begins to wait has the present number.
LEMMA NewTask ==
    /\ NoTask \in TaskRecord /\ NoTask.kind = None
    /\ \A kind \in Kinds : [NoTask EXCEPT !.kind = kind] \in TaskRecord
    /\ \A kind \in Kinds, n \in Nat :
          /\ [NoTask EXCEPT !.kind = kind, !.ticket = n] \in TaskRecord
          /\ [NoTask EXCEPT !.kind = kind, !.ticket = n].kind = kind
          /\ [NoTask EXCEPT !.kind = kind, !.ticket = n].ticket = n
          /\ [NoTask EXCEPT !.kind = kind, !.ticket = n].newer = FALSE
    /\ \A kind \in Kinds, p \in Panels :
          [NoTask EXCEPT !.kind = kind, !.panel = p] \in TaskRecord
BY DEF NoTask, TaskRecord

-----------------------------------------------------------------------------
(* The parts of the invariant, for a step from screen s to screen n *)

\* A handler that waited stays in order when the number is raised.
LEMMA RaisedTicket ==
    ASSUME NEW s \in ScreenRecord, NEW n \in ScreenRecord,
           NEW task \in TaskRecord, NEW later \in TaskRecord,
           Ticketed(s, task), later.kind = task.kind, later.ticket = task.ticket,
           n.ticket > s.ticket, s.lab => n.lab
    PROVE  Ticketed(n, later)
BY DEF Ticketed, ScreenRecord, TaskRecord

\* It does when nothing was chosen, unless a session begins.
LEMMA SameTicket ==
    ASSUME NEW s \in ScreenRecord, NEW n \in ScreenRecord, NEW task \in TaskRecord,
           Ticketed(s, task), n.ticket >= s.ticket, s.lab => n.lab, n.signed => s.signed
    PROVE  Ticketed(n, task)
BY DEF Ticketed, ScreenRecord, TaskRecord

\* A handler that begins to wait leaves the others as they are.
LEMMA OtherTask ==
    ASSUME NEW s \in ScreenRecord, NEW task \in TaskRecord,
           task.kind \notin {"default", "restore"}
    PROVE  Ticketed(s, task)
BY DEF Ticketed

\* Where nobody waits for the notifications nothing is reserved.
LEMMA NobodyWaits ==
    ASSUME NEW s, NEW ts, \A t \in Tasks : ts[t].kind # "notification"
    PROVE  Reserved(s, ts)
BY DEF Reserved

\* A handler that does not ask for the number, or that nothing was chosen after.
LEMMA ReplacesUnasked ==
    ASSUME Inv, NEW t \in Tasks, Replaces(t), tasks[t].kind \in Unasked \/ tasks[t].newer = FALSE
    PROVE  undone' \subseteq Unasked
BY DEF Inv, Replaces

\* The tab that was clicked last: the screen is the same otherwise.
LEMMA ClickedScreen ==
    ASSUME NEW s \in ScreenRecord
    PROVE  /\ Clicked(s) \in ScreenRecord
           /\ Clicked(s).ticket = s.ticket /\ Clicked(s).tabs = s.tabs
           /\ Clicked(s).signed = s.signed /\ Clicked(s).lab = s.lab
BY DEF Clicked, ScreenRecord

-----------------------------------------------------------------------------
(* The actions *)

\* A screen that is shown: the number is raised, and whoever waits waits on.
LEMMA ShowStep ==
    ASSUME Inv, screen' \in ScreenRecord, tasks' \in [Tasks -> TaskRecord],
           screen'.ticket > screen.ticket, screen.lab => screen'.lab,
           Single(screen) => Single(screen'),
           \A u \in Tasks :
              \/ tasks'[u].kind = None
              \/ /\ tasks'[u].kind = tasks[u].kind /\ tasks'[u].ticket = tasks[u].ticket
                 /\ tasks'[u].panel = tasks[u].panel,
           overtaken' = (overtaken \/ Waits("notification")), undone' \subseteq Unasked
    PROVE  Inv'
<1>1. Typed'
  BY NoneAssumption DEF Inv, Typed, Waits
<1>2. ASSUME NEW t \in Tasks PROVE Ticketed(screen', tasks'[t])
  <2>1. tasks[t] \in TaskRecord /\ tasks'[t] \in TaskRecord /\ screen \in ScreenRecord
    BY <1>1 DEF Inv, Typed
  <2>2. Ticketed(screen, tasks[t])
    BY DEF Inv
  <2>3. CASE tasks'[t].kind = None
    BY <2>1, <2>3, NoneAssumption, OtherTask
  <2>4. CASE tasks'[t].kind = tasks[t].kind /\ tasks'[t].ticket = tasks[t].ticket
    BY <2>1, <2>2, <2>4, RaisedTicket
  <2> QED
    BY <2>3, <2>4
<1>3. ASSUME ~ overtaken' PROVE Single(screen') /\ Reserved(screen', tasks')
  <2>1. ~ overtaken /\ \A t \in Tasks : tasks[t].kind # "notification"
    BY <1>3 DEF Inv, Typed, Waits
  <2>2. Single(screen')
    BY <2>1 DEF Inv
  <2>3. \A t \in Tasks : tasks'[t].kind # "notification"
    BY <2>1, NoneAssumption
  <2> QED
    BY <2>2, <2>3, NobodyWaits
<1> QED
  BY <1>1, <1>2, <1>3 DEF Inv

\* A handler t that begins to wait, waits for something else or ends, while the
\* tabs stay.
LEMMA TaskStep ==
    ASSUME Inv, NEW t \in Tasks, NEW new \in TaskRecord, NEW base \in [Tasks -> TaskRecord],
           screen' \in ScreenRecord, screen'.tabs = screen.tabs,
           \A u \in Tasks : /\ base[u].kind = tasks[u].kind /\ base[u].panel = tasks[u].panel
                            /\ Ticketed(screen', base[u]),
           tasks' = [base EXCEPT ![t] = new], Ticketed(screen', new),
           new.kind # "notification", UNCHANGED overtaken, undone' \subseteq Unasked
    PROVE  Inv'
<1>1. Typed'
  BY DEF Inv, Typed
<1>2. \A u \in Tasks : Ticketed(screen', tasks'[u])
  OBVIOUS
<1>3. ASSUME ~ overtaken' PROVE Single(screen') /\ Reserved(screen', tasks')
  <2>1. Single(screen) /\ Reserved(screen, tasks)
    BY <1>3 DEF Inv
  <2>2. \A u \in Tasks : tasks'[u].kind = "notification" =>
           tasks[u].kind = "notification" /\ tasks'[u].panel = tasks[u].panel
    OBVIOUS
  <2> QED
    BY ZenonT(60), <2>1, <2>2 DEF Single, Reserved
<1> QED
  BY <1>1, <1>2, <1>3 DEF Inv

\* Whoever waited, when nothing is chosen ...
LEMMA WaitOn ==
    ASSUME Inv, screen' \in ScreenRecord, screen'.ticket >= screen.ticket,
           screen.lab => screen'.lab, screen'.signed => screen.signed
    PROVE  /\ tasks \in [Tasks -> TaskRecord]
           /\ \A u \in Tasks : Ticketed(screen', tasks[u])
<1>1. tasks \in [Tasks -> TaskRecord] /\ screen \in ScreenRecord
  BY DEF Inv, Typed
<1>2. ASSUME NEW u \in Tasks PROVE Ticketed(screen', tasks[u])
  <2>1. tasks[u] \in TaskRecord /\ Ticketed(screen, tasks[u])
    BY <1>1 DEF Inv
  <2> QED
    BY <1>1, <2>1, SameTicket
<1> QED
  BY <1>1, <1>2

\* ... and when the number is raised, or the session ends.
LEMMA WaitLater ==
    ASSUME Inv, screen' \in ScreenRecord, screen.lab => screen'.lab,
           \/ screen'.ticket > screen.ticket
           \/ screen'.ticket >= screen.ticket /\ ~ screen'.signed /\ ~ screen.lab
    PROVE  /\ Later(tasks) \in [Tasks -> TaskRecord]
           /\ \A u \in Tasks :
                /\ Later(tasks)[u].kind = tasks[u].kind /\ Later(tasks)[u].panel = tasks[u].panel
                /\ Later(tasks)[u].ticket = tasks[u].ticket
                /\ Ticketed(screen', Later(tasks)[u])
<1>1. tasks \in [Tasks -> TaskRecord] /\ screen \in ScreenRecord
  BY DEF Inv, Typed
<1> DEFINE ts == Later(tasks)
<1>2. /\ ts \in [Tasks -> TaskRecord]
      /\ \A u \in Tasks : ts[u].kind = tasks[u].kind /\ ts[u].panel = tasks[u].panel
                           /\ ts[u].ticket = tasks[u].ticket
  BY <1>1, LaterTasks
<1> HIDE DEF ts
<1>3. ASSUME NEW u \in Tasks PROVE Ticketed(screen', ts[u])
  <2>1. tasks[u] \in TaskRecord /\ Ticketed(screen, tasks[u]) /\ ts[u] \in TaskRecord
    BY <1>1, <1>2 DEF Inv
  <2>2. CASE screen'.ticket > screen.ticket
    BY <1>1, <1>2, <2>1, <2>2, RaisedTicket
  <2>3. CASE screen'.ticket >= screen.ticket /\ ~ screen'.signed /\ ~ screen.lab
    BY <1>1, <1>2, <2>1, <2>3 DEF Ticketed, ScreenRecord, TaskRecord
  <2> QED
    BY <2>2, <2>3
<1> QED
  BY <1>2, <1>3 DEF ts

-----------------------------------------------------------------------------
\* The user chooses a panel or a tab.
LEMMA ChooseKeeps ==
    ASSUME Inv, NEW t \in Tasks, NEW tab \in Tabs, Choose(t, tab)
    PROVE  Inv'
<1> DEFINE p == screen.panel
<1> DEFINE c == Clicked(screen)
<1>1. /\ screen \in ScreenRecord /\ tasks \in [Tasks -> TaskRecord] /\ undone \subseteq Unasked
      /\ p \in Panels /\ screen.ticket \in Nat
  BY DEF Inv, Typed, ScreenRecord, Choose
<1>4. /\ c \in ScreenRecord /\ c.ticket = screen.ticket /\ c.tabs = screen.tabs /\ c.lab = screen.lab
  BY <1>1, ClickedScreen
<1>2. CASE tab # "notification"
  <2>1. screen' = Shown(c, p, tab) /\ tasks' = Later(tasks)
        /\ overtaken' = (overtaken \/ Waits("notification")) /\ undone' \subseteq Unasked
    BY <1>1, <1>2 DEF Choose
  <2> HIDE DEF c
  <2>2. /\ screen' \in ScreenRecord /\ screen'.ticket > screen.ticket /\ screen'.lab = screen.lab
        /\ Single(screen) => Single(screen')
    BY <1>1, <1>4, <2>1, ShownScreen DEF Single
  <2>3. /\ tasks' \in [Tasks -> TaskRecord]
        /\ \A u \in Tasks : /\ tasks'[u].kind = tasks[u].kind /\ tasks'[u].ticket = tasks[u].ticket
                             /\ tasks'[u].panel = tasks[u].panel
    BY <1>1, <2>1, LaterTasks
  <2> QED
    BY <2>1, <2>2, <2>3, ShowStep
<1>3. CASE tab = "notification"
  <2> DEFINE new == [NoTask EXCEPT !.kind = "notification", !.panel = p]
  <2> DEFINE ts == Later(tasks)
  <2>1. /\ screen' = Hidden(c, p) /\ tasks' = [ts EXCEPT ![t] = new]
        /\ overtaken' = (overtaken \/ Waits("notification")) /\ undone' \subseteq Unasked
    BY <1>1, <1>3 DEF Choose
  <2> HIDE DEF c
  <2>2. /\ screen' \in ScreenRecord /\ screen'.ticket > screen.ticket /\ screen'.lab = screen.lab
        /\ screen'.tabs[p] = {}
        /\ Single(screen) => Single(screen')
    BY <1>1, <1>4, <2>1, HiddenScreen DEF Single
  <2>3. new \in TaskRecord /\ new.kind = "notification" /\ new.panel = p
    BY <1>1 DEF NoTask, TaskRecord, Kinds
  <2>4. /\ ts \in [Tasks -> TaskRecord]
        /\ \A u \in Tasks : /\ ts[u].kind = tasks[u].kind /\ ts[u].panel = tasks[u].panel
                             /\ Ticketed(screen', ts[u])
    BY <1>1, <2>2, WaitLater
  <2>5. Ticketed(screen', new)
    BY <2>2, <2>3, OtherTask
  <2> HIDE DEF new, ts, p
  <2>6. Typed'
    BY <1>1, <2>1, <2>2, <2>3, <2>4 DEF Inv, Typed, Waits
  <2>7. \A u \in Tasks : Ticketed(screen', tasks'[u])
    BY <2>1, <2>4, <2>5
  <2>8. ASSUME ~ overtaken' PROVE Single(screen') /\ Reserved(screen', tasks')
    <3>1. ~ overtaken /\ \A u \in Tasks : tasks[u].kind # "notification"
      BY <2>1, <2>8 DEF Waits
    <3>2. Single(screen')
      BY <2>2, <3>1 DEF Inv
    <3>3. \A u \in Tasks : tasks'[u].kind = "notification" => u = t /\ tasks'[u].panel = p
      BY <2>1, <2>3, <2>4, <3>1
    <3> QED
      BY <2>2, <3>2, <3>3 DEF Reserved
  <2> QED
    BY <2>1, <2>6, <2>7, <2>8 DEF Inv
<1> QED
  BY <1>2, <1>3

\* The settings of the notifications have been loaded.
LEMMA NotificationKeeps ==
    ASSUME Inv, NEW t \in Tasks, NotificationReady(t)
    PROVE  Inv'
<1> DEFINE p == tasks[t].panel
<1>1. /\ screen \in ScreenRecord /\ tasks \in [Tasks -> TaskRecord]
      /\ overtaken' = overtaken /\ p \in Panels /\ tasks[t].kind = "notification"
      /\ tasks' = [tasks EXCEPT ![t] = NoTask]
  BY DEF Inv, Typed, NotificationReady, Done
<1>4. undone' \subseteq Unasked
  <2>1. CASE Replaces(t)
    BY <1>1, <2>1, ReplacesUnasked DEF Unasked
  <2>2. CASE UNCHANGED undone
    BY <2>2 DEF Inv
  <2> QED
    BY <2>1, <2>2 DEF NotificationReady
<1>2. CASE UNCHANGED screen
  <2>1. \A u \in Tasks : tasks[u] \in TaskRecord /\ Ticketed(screen', tasks[u])
    BY <1>1, <1>2 DEF Inv
  <2>2. NoTask \in TaskRecord /\ NoTask.kind # "notification" /\ Ticketed(screen', NoTask)
    BY <1>1, <1>2, NewTask, OtherTask, NoneAssumption
  <2> QED
    BY <1>1, <1>2, <1>4, <2>1, <2>2, TaskStep
<1>3. CASE screen' = [screen EXCEPT !.tabs[p] = @ \cup {"notification"}]
  <2>1. screen.tabs \in [Panels -> SUBSET Tabs] /\ "notification" \in Tabs
    BY <1>1 DEF ScreenRecord, Tabs
  <2> DEFINE f == [screen.tabs EXCEPT ![p] = @ \cup {"notification"}]
  <2>2. /\ f \in [Panels -> SUBSET Tabs] /\ f[p] = screen.tabs[p] \cup {"notification"}
        /\ \A q \in Panels \ {p} : f[q] = screen.tabs[q]
    BY <1>1, <2>1
  <2>3. screen' = [screen EXCEPT !.tabs = f]
    BY <1>3
  <2> HIDE DEF f
  <2>4. screen' \in ScreenRecord
    BY <1>1, <2>2, <2>3 DEF ScreenRecord
  <2>5. /\ screen'.tabs = f /\ screen'.ticket = screen.ticket /\ screen'.signed = screen.signed
        /\ screen'.lab = screen.lab /\ screen.ticket \in Nat
    BY <1>1, <2>3 DEF ScreenRecord
  <2>6. NoTask \in TaskRecord /\ NoTask.kind # "notification" /\ Ticketed(screen', NoTask)
    BY <2>4, NewTask, OtherTask, NoneAssumption
  <2>7. \A u \in Tasks : Ticketed(screen', tasks[u])
    BY <2>4, <2>5, WaitOn
  <2>8. Typed' /\ \A u \in Tasks : Ticketed(screen', tasks'[u])
    BY <1>1, <2>4, <2>6, <2>7 DEF Inv, Typed
  <2>9. ASSUME ~ overtaken' PROVE Single(screen') /\ Reserved(screen', tasks')
    <3>1. Single(screen) /\ screen.tabs[p] = {}
          /\ \A u \in Tasks : tasks[u].kind = "notification" => u = t
      BY <1>1, <2>9 DEF Inv, Reserved
    <3>2. Single(screen')
      BY <2>2, <2>5, <3>1 DEF Single
    <3>3. \A u \in Tasks : tasks'[u].kind # "notification"
      BY <1>1, <2>6, <3>1
    <3> QED
      BY <3>2, <3>3, NobodyWaits
  <2> QED
    BY <1>1, <1>4, <2>8, <2>9 DEF Inv
<1> QED
  BY <1>2, <1>3 DEF NotificationReady

\* The tasks when one of them ends and the user has chosen since.
LEMMA LaterDone ==
    ASSUME Inv, NEW t \in Tasks
    PROVE  /\ Done(t) \in [Tasks -> TaskRecord] /\ Later(Done(t)) \in [Tasks -> TaskRecord]
           /\ Later(Done(t)) = [Later(tasks) EXCEPT ![t] = NoTask]
           /\ \A u \in Tasks \ {t} :
                 /\ Done(t)[u] = tasks[u]
                 /\ Later(Done(t))[u].kind = tasks[u].kind /\ Later(Done(t))[u].ticket = tasks[u].ticket
                 /\ Later(Done(t))[u].panel = tasks[u].panel
           /\ Done(t)[t] = NoTask /\ Later(Done(t))[t] = NoTask /\ NoTask.kind = None
<1>1. tasks \in [Tasks -> TaskRecord] /\ NoTask \in TaskRecord /\ NoTask.kind = None
  BY NewTask DEF Inv, Typed
<1>2. Done(t) \in [Tasks -> TaskRecord] /\ Done(t)[t] = NoTask
      /\ \A u \in Tasks \ {t} : Done(t)[u] = tasks[u]
  BY <1>1 DEF Done
<1>3. Later(Done(t)) \in [Tasks -> TaskRecord] /\ Later(Done(t))[t] = NoTask
  BY <1>1, <1>2, LaterTasks DEF Later
<1>4. Later(Done(t)) = [Later(tasks) EXCEPT ![t] = NoTask]
  BY <1>1, <1>2 DEF Later
<1>5. \A u \in Tasks \ {t} :
         /\ Later(Done(t))[u].kind = tasks[u].kind /\ Later(Done(t))[u].ticket = tasks[u].ticket
         /\ Later(Done(t))[u].panel = tasks[u].panel
  BY <1>1, <1>2, LaterTasks
<1> QED
  BY <1>1, <1>2, <1>3, <1>4, <1>5

\* The user clicks the album's tab.
LEMMA ChooseAlbumKeeps ==
    ASSUME Inv, NEW t \in Tasks, ChooseAlbum(t)
    PROVE  Inv'
<1> DEFINE new == [NoTask EXCEPT !.kind = "album"]
<1>1. /\ screen \in ScreenRecord /\ screen.ticket \in Nat /\ screen' = [screen EXCEPT !.album = TRUE]
      /\ UNCHANGED overtaken /\ undone' \subseteq Unasked
  BY DEF Inv, Typed, ScreenRecord, ChooseAlbum
<1>2. /\ screen' \in ScreenRecord /\ screen'.ticket >= screen.ticket /\ screen'.tabs = screen.tabs
      /\ screen'.lab = screen.lab /\ screen'.signed = screen.signed
  <2>1. screen' \in ScreenRecord
    <3>1. TRUE \in BOOLEAN
      OBVIOUS
    <3> QED
      BY <1>1, <3>1 DEF ScreenRecord
  <2>2. /\ screen'.ticket = screen.ticket /\ screen'.tabs = screen.tabs
        /\ screen'.lab = screen.lab /\ screen'.signed = screen.signed
    BY <1>1 DEF ScreenRecord
  <2> QED
    BY <1>1, <2>1, <2>2
<1>3. tasks \in [Tasks -> TaskRecord] /\ \A u \in Tasks : Ticketed(screen', tasks[u])
  BY <1>2, WaitOn
<1>4. new \in TaskRecord /\ new.kind = "album"
  BY DEF NoTask, TaskRecord, Kinds
<1>5. Ticketed(screen', new)
  BY <1>2, <1>4, OtherTask
<1> HIDE DEF new
<1>6. CASE tasks' = [tasks EXCEPT ![t] = new]
  BY <1>1, <1>2, <1>3, <1>4, <1>5, <1>6, TaskStep
<1>7. CASE UNCHANGED tasks
  <2>1. Typed'
    BY <1>1, <1>2, <1>7 DEF Inv, Typed
  <2>2. ASSUME ~ overtaken' PROVE Single(screen') /\ Reserved(screen', tasks')
    BY <1>1, <1>2, <1>7, <2>2 DEF Inv, Single, Reserved
  <2> QED
    BY <1>1, <1>3, <1>7, <2>1, <2>2 DEF Inv
<1> QED
  BY <1>6, <1>7 DEF ChooseAlbum, new

\* The album's code has been loaded.
LEMMA AlbumReadyKeeps ==
    ASSUME Inv, NEW t \in Tasks, AlbumReady(t)
    PROVE  Inv'
<1>1. /\ screen \in ScreenRecord /\ screen.ticket \in Nat /\ tasks[t].kind = "album"
      /\ "member" \in Panels /\ "album" \in Tabs
  BY DEF Inv, Typed, ScreenRecord, AlbumReady, Panels, Tabs
<1>4. undone' \subseteq Unasked
  <2>1. CASE Replaces(t)
    BY <1>1, <2>1, ReplacesUnasked DEF Unasked
  <2>2. CASE UNCHANGED undone
    BY <2>2 DEF Inv
  <2> QED
    BY <2>1, <2>2 DEF AlbumReady
<1>2. CASE /\ screen' = [Hidden(screen, "member") EXCEPT !.tabs["member"] = {"album"}]
           /\ tasks' = Later(Done(t)) /\ overtaken' = (overtaken \/ Waits("notification"))
  <2> DEFINE h == Hidden(screen, "member")
  <2>1. screen' = [h EXCEPT !.tabs["member"] = {"album"}]
    BY <1>2
  <2>2. /\ h \in ScreenRecord /\ h.ticket = screen.ticket + 1 /\ h.lab = screen.lab
        /\ \A q \in Panels \ {"member"} : h.tabs[q] = screen.tabs[q]
    BY <1>1, HiddenScreen
  <2> HIDE DEF h
  <2> DEFINE f == [h.tabs EXCEPT !["member"] = {"album"}]
  <2>3. h.tabs \in [Panels -> SUBSET Tabs]
    BY <2>2 DEF ScreenRecord
  <2>4. /\ f \in [Panels -> SUBSET Tabs] /\ f["member"] = {"album"}
        /\ \A q \in Panels \ {"member"} : f[q] = screen.tabs[q]
    BY <1>1, <2>2, <2>3
  <2>5. screen' = [h EXCEPT !.tabs = f]
    BY <2>1
  <2> HIDE DEF f
  <2>6. screen' \in ScreenRecord
    BY <2>2, <2>4, <2>5 DEF ScreenRecord
  <2>7. screen'.ticket = h.ticket /\ screen'.tabs = f /\ screen'.lab = h.lab
    BY <2>2, <2>4, <2>5 DEF ScreenRecord
  <2>8. screen'.ticket > screen.ticket /\ (Single(screen) => Single(screen'))
    BY <1>1, <2>2, <2>4, <2>7 DEF Single
  <2> QED
    BY ZenonT(60), <1>1, <1>2, <1>4, <2>2, <2>6, <2>7, <2>8, LaterDone, ShowStep
<1>3. CASE tasks' = Done(t) /\ UNCHANGED <<screen, overtaken>>
  <2>1. /\ tasks \in [Tasks -> TaskRecord]
        /\ \A u \in Tasks : Ticketed(screen', tasks[u])
    BY <1>1, <1>3, WaitOn
  <2>2. NoTask \in TaskRecord /\ NoTask.kind # "notification" /\ Ticketed(screen', NoTask)
    BY <1>1, <1>3, NewTask, OtherTask, NoneAssumption
  <2>3. tasks' = [tasks EXCEPT ![t] = NoTask]
    BY <1>3 DEF Done
  <2> QED
    BY <1>1, <1>3, <1>4, <2>1, <2>2, <2>3, TaskStep
<1> QED
  BY <1>2, <1>3 DEF AlbumReady

\* The user opens a member's panel.
LEMMA OpenMemberKeeps ==
    ASSUME Inv, NEW tab \in {"first", "other"}, OpenMember(tab)
    PROVE  Inv'
<1>1. /\ screen \in ScreenRecord /\ tasks \in [Tasks -> TaskRecord] /\ undone' \subseteq Unasked
      /\ screen.ticket \in Nat /\ "member" \in Panels /\ tab \in Tabs
      /\ tasks' = Later(tasks) /\ overtaken' = (overtaken \/ Waits("notification"))
  BY DEF Inv, Typed, ScreenRecord, OpenMember, Panels, Tabs
<1> DEFINE n == Navigated(screen)
<1>2. /\ n \in ScreenRecord /\ n.ticket = screen.ticket + 1 /\ n.tabs = screen.tabs
      /\ n.lab = screen.lab /\ screen' = IF screen.signed THEN Shown(n, "member", tab) ELSE ToLogin(n)
  BY <1>1, NavigatedScreen DEF OpenMember
<1> HIDE DEF n
<1>3. /\ screen' \in ScreenRecord /\ screen'.ticket > screen.ticket /\ screen'.lab = screen.lab
      /\ Single(screen) => Single(screen')
  <2>1. CASE screen.signed
    <3>1. screen' = Shown(n, "member", tab)
      BY <1>2, <2>1
    <3> QED
      BY <1>1, <1>2, <3>1, ShownScreen DEF Single
  <2>2. CASE ~ screen.signed
    <3>1. screen' = ToLogin(n)
      BY <1>2, <2>2
    <3>2. /\ screen' \in ScreenRecord /\ screen'.ticket >= n.ticket /\ screen'.tabs = n.tabs
          /\ screen'.lab = n.lab
      BY <1>2, <3>1, ToLoginScreen
    <3>3. screen'.ticket \in Nat
      BY <3>2 DEF ScreenRecord
    <3>4. screen'.ticket > screen.ticket
      BY <1>1, <1>2, <3>2, <3>3
    <3> QED
      BY <1>2, <3>2, <3>4 DEF Single
  <2> QED
    BY <2>1, <2>2
<1>4. /\ tasks' \in [Tasks -> TaskRecord]
      /\ \A u \in Tasks : /\ tasks'[u].kind = tasks[u].kind /\ tasks'[u].ticket = tasks[u].ticket
                           /\ tasks'[u].panel = tasks[u].panel
  BY <1>1, LaterTasks
<1> QED
  BY <1>1, <1>3, <1>4, ShowStep

\* The user opens the administrator's panel.
LEMMA OpenAdminKeeps ==
    ASSUME Inv, NEW t \in Tasks, OpenAdmin(t)
    PROVE  Inv'
<1> DEFINE new == [NoTask EXCEPT !.kind = "admin"]
<1>1. /\ screen \in ScreenRecord /\ screen.ticket \in Nat /\ screen' = screen
      /\ tasks' = [tasks EXCEPT ![t] = new] /\ UNCHANGED overtaken /\ undone' \subseteq Unasked
  BY DEF Inv, Typed, ScreenRecord, OpenAdmin
<1>2. new \in TaskRecord /\ new.kind = "admin"
  BY DEF NoTask, TaskRecord, Kinds
<1>3. /\ tasks \in [Tasks -> TaskRecord]
      /\ \A u \in Tasks : Ticketed(screen', tasks[u])
  BY <1>1, WaitOn
<1>4. Ticketed(screen', new)
  BY <1>1, <1>2, OtherTask
<1> HIDE DEF new
<1> QED
  BY <1>1, <1>2, <1>3, <1>4, TaskStep

\* The administrator's panel has been loaded.
LEMMA AdminReadyKeeps ==
    ASSUME Inv, NEW t \in Tasks, AdminReady(t)
    PROVE  Inv'
<1>1. /\ screen \in ScreenRecord /\ screen.ticket \in Nat /\ tasks[t].kind = "admin"
      /\ "admin" \in Panels /\ "first" \in Tabs
  BY DEF Inv, Typed, ScreenRecord, AdminReady, Panels, Tabs
<1>4. undone' \subseteq Unasked
  <2>1. CASE Replaces(t)
    BY <1>1, <2>1, ReplacesUnasked DEF Unasked
  <2>2. CASE UNCHANGED undone
    BY <2>2 DEF Inv
  <2> QED
    BY <2>1, <2>2 DEF AdminReady
<1>2. CASE /\ screen' = Shown(Navigated(screen), "admin", "first") /\ tasks' = Later(Done(t))
           /\ overtaken' = (overtaken \/ Waits("notification"))
  <2> DEFINE n == Navigated(screen)
  <2>1. /\ n \in ScreenRecord /\ n.ticket = screen.ticket + 1 /\ n.tabs = screen.tabs
        /\ n.lab = screen.lab /\ screen' = Shown(n, "admin", "first")
    BY <1>1, <1>2, NavigatedScreen
  <2> HIDE DEF n
  <2>2. /\ screen' \in ScreenRecord /\ screen'.ticket > screen.ticket /\ screen'.lab = screen.lab
        /\ Single(screen) => Single(screen')
    BY <1>1, <2>1, ShownScreen DEF Single
  <2> QED
    BY <1>1, <1>2, <1>4, <2>2, LaterDone, ShowStep
<1>3. CASE tasks' = Done(t) /\ UNCHANGED <<screen, overtaken>>
  <2>1. /\ tasks \in [Tasks -> TaskRecord]
        /\ \A u \in Tasks : Ticketed(screen', tasks[u])
    BY <1>1, <1>3, WaitOn
  <2>2. NoTask \in TaskRecord /\ NoTask.kind # "notification" /\ Ticketed(screen', NoTask)
    BY <1>1, <1>3, NewTask, OtherTask, NoneAssumption
  <2>3. tasks' = [tasks EXCEPT ![t] = NoTask]
    BY <1>3 DEF Done
  <2> QED
    BY <1>1, <1>3, <1>4, <2>1, <2>2, <2>3, TaskStep
<1> QED
  BY <1>2, <1>3 DEF AdminReady

\* The user opens the system panel.
LEMMA OpenSystemKeeps ==
    ASSUME Inv, NEW t \in Tasks, OpenSystem(t)
    PROVE  Inv'
<1> DEFINE new == [NoTask EXCEPT !.kind = "system"]
<1> DEFINE ts == Later(tasks)
<1>1. /\ screen \in ScreenRecord /\ screen.ticket \in Nat /\ screen' = Navigated(screen)
      /\ tasks' = [ts EXCEPT ![t] = new] /\ UNCHANGED overtaken /\ undone' \subseteq Unasked
  BY DEF Inv, Typed, ScreenRecord, OpenSystem
<1>2. new \in TaskRecord /\ new.kind = "system"
  BY DEF NoTask, TaskRecord, Kinds
<1>3. /\ screen' \in ScreenRecord /\ screen'.ticket > screen.ticket /\ screen'.lab = screen.lab
      /\ screen'.tabs = screen.tabs
  BY <1>1, NavigatedScreen
<1>4. /\ ts \in [Tasks -> TaskRecord]
      /\ \A u \in Tasks : /\ ts[u].kind = tasks[u].kind /\ ts[u].panel = tasks[u].panel
                           /\ Ticketed(screen', ts[u])
  BY <1>3, WaitLater
<1>5. Ticketed(screen', new)
  BY <1>2, <1>3, OtherTask
<1> HIDE DEF new, ts
<1> QED
  BY <1>1, <1>2, <1>3, <1>4, <1>5, TaskStep

\* The system panel has been loaded.
LEMMA SystemReadyKeeps ==
    ASSUME Inv, NEW t \in Tasks, SystemReady(t)
    PROVE  Inv'
<1>1. /\ screen \in ScreenRecord /\ screen.ticket \in Nat /\ UNCHANGED overtaken
      /\ "system" \in Panels /\ tasks[t].kind = "system"
  BY DEF Inv, Typed, ScreenRecord, SystemReady, Panels
<1>4. undone' \subseteq Unasked
  <2>1. CASE Replaces(t)
    BY <1>1, <2>1, ReplacesUnasked DEF Unasked
  <2>2. CASE UNCHANGED undone
    BY <2>2 DEF Inv
  <2> QED
    BY <2>1, <2>2 DEF SystemReady
<1>2. CASE /\ screen' = [screen EXCEPT !.panel = "system", !.lab = TRUE]
           /\ tasks' = [tasks EXCEPT ![t] = [NoTask EXCEPT !.kind = "default", !.ticket = screen.ticket]]
  <2> DEFINE new == [NoTask EXCEPT !.kind = "default", !.ticket = screen.ticket]
  <2>1. new \in TaskRecord /\ new.kind = "default" /\ new.ticket = screen.ticket /\ new.newer = FALSE
    BY <1>1 DEF NoTask, TaskRecord, Kinds
  <2>2. screen' \in ScreenRecord
    BY <1>1, <1>2 DEF ScreenRecord
  <2>3. /\ screen'.ticket = screen.ticket /\ screen'.lab = TRUE /\ screen'.tabs = screen.tabs
        /\ screen'.signed = screen.signed
    BY <1>1, <1>2 DEF ScreenRecord
  <2>4. /\ tasks \in [Tasks -> TaskRecord]
        /\ \A u \in Tasks : Ticketed(screen', tasks[u])
    BY <1>1, <2>2, <2>3, WaitOn
  <2>5. Ticketed(screen', new)
    BY <1>1, <2>1, <2>3 DEF Ticketed
  <2> HIDE DEF new
  <2>6. tasks' = [tasks EXCEPT ![t] = new]
    BY <1>2 DEF new
  <2> QED
    BY <1>1, <1>4, <2>1, <2>2, <2>3, <2>4, <2>5, <2>6, TaskStep
<1>3. CASE tasks' = Done(t) /\ UNCHANGED screen
  <2>1. /\ tasks \in [Tasks -> TaskRecord]
        /\ \A u \in Tasks : Ticketed(screen', tasks[u])
    BY <1>1, <1>3, WaitOn
  <2>2. NoTask \in TaskRecord /\ NoTask.kind # "notification" /\ Ticketed(screen', NoTask)
    BY <1>1, <1>3, NewTask, OtherTask, NoneAssumption
  <2>3. tasks' = [tasks EXCEPT ![t] = NoTask]
    BY <1>3 DEF Done
  <2> QED
    BY <1>1, <1>3, <1>4, <2>1, <2>2, <2>3, TaskStep
<1> QED
  BY <1>2, <1>3 DEF SystemReady

\* A handler that ends without an effect.
LEMMA EndKeeps ==
    ASSUME Inv, NEW t \in Tasks, tasks' = Done(t), UNCHANGED <<screen, overtaken>>,
           undone' \subseteq Unasked
    PROVE  Inv'
<1>1. screen \in ScreenRecord /\ screen.ticket \in Nat
  BY DEF Inv, Typed, ScreenRecord
<1>2. tasks \in [Tasks -> TaskRecord] /\ \A u \in Tasks : Ticketed(screen', tasks[u])
  BY <1>1, WaitOn
<1>3. NoTask \in TaskRecord /\ NoTask.kind # "notification" /\ Ticketed(screen', NoTask)
  BY <1>1, NewTask, OtherTask, NoneAssumption
<1>4. tasks' = [tasks EXCEPT ![t] = NoTask]
  BY DEF Done
<1> QED
  BY <1>1, <1>2, <1>3, <1>4, TaskStep

\* A handler that asks for the number of the last choice and finds its own has
\* the last choice.
LEMMA LatestIsLast ==
    ASSUME Inv, NEW t \in Tasks, Latest(t),
           tasks[t].kind = "default" \/ (tasks[t].kind = "restore" /\ screen.signed)
    PROVE  tasks[t].newer = FALSE
<1>1. screen.ticket \in Nat /\ tasks[t].newer \in BOOLEAN /\ Ticketed(screen, tasks[t])
  BY DEF Inv, Typed, ScreenRecord, TaskRecord
<1>2. tasks[t].newer => tasks[t].ticket < screen.ticket \/ (tasks[t].kind = "restore" /\ ~ screen.signed)
  BY <1>1 DEF Ticketed
<1> QED
  BY <1>1, <1>2 DEF Latest

\* The data of the system panel is there, and its first tab is shown.
LEMMA DefaultTabKeeps ==
    ASSUME Inv, NEW t \in Tasks, DefaultTab(t)
    PROVE  Inv'
<1>1. /\ screen \in ScreenRecord /\ screen.ticket \in Nat /\ undone \subseteq Unasked
      /\ "system" \in Panels /\ tasks[t].kind = "default" /\ tasks' = Done(t)
  BY DEF Inv, Typed, ScreenRecord, DefaultTab, Panels
<1>2. CASE Latest(t)
  <2> DEFINE h == Hidden(screen, "system")
  <2>1. /\ screen' = [h EXCEPT !.tabs["system"] = {"first"}]
        /\ undone' \subseteq Unasked /\ overtaken' = (overtaken \/ Waits("notification"))
    BY <1>1, <1>2, LatestIsLast, ReplacesUnasked DEF DefaultTab
  <2>2. /\ h \in ScreenRecord /\ h.ticket = screen.ticket + 1 /\ h.lab = screen.lab
        /\ \A q \in Panels \ {"system"} : h.tabs[q] = screen.tabs[q]
    BY <1>1, HiddenScreen
  <2> HIDE DEF h
  <2> DEFINE f == [h.tabs EXCEPT !["system"] = {"first"}]
  <2>3. h.tabs \in [Panels -> SUBSET Tabs] /\ "first" \in Tabs
    BY <2>2 DEF ScreenRecord, Tabs
  <2>4. /\ f \in [Panels -> SUBSET Tabs] /\ f["system"] = {"first"}
        /\ \A q \in Panels \ {"system"} : f[q] = screen.tabs[q]
    BY <1>1, <2>2, <2>3
  <2>5. screen' = [h EXCEPT !.tabs = f]
    BY <2>1
  <2> HIDE DEF f
  <2>6. screen' \in ScreenRecord
    BY <2>2, <2>4, <2>5 DEF ScreenRecord
  <2>7. screen'.ticket = h.ticket /\ screen'.tabs = f /\ screen'.lab = h.lab
    BY <2>2, <2>4, <2>5 DEF ScreenRecord
  <2>8. screen'.ticket > screen.ticket /\ (Single(screen) => Single(screen'))
    BY <1>1, <2>2, <2>4, <2>7 DEF Single
  <2> QED
    BY ZenonT(60), <1>1, <2>1, <2>2, <2>6, <2>7, <2>8, LaterDone, ShowStep
<1>3. CASE ~ Latest(t)
  BY <1>1, <1>3, EndKeeps DEF DefaultTab
<1> QED
  BY <1>2, <1>3

\* The history of the browser goes back to a panel and a tab.
LEMMA BackKeeps ==
    ASSUME Inv, NEW t \in Tasks, NEW p \in Panels, NEW tab \in Tabs, Back(t, p, tab)
    PROVE  Inv'
<1> DEFINE n == Navigated(screen)
<1>1. /\ screen \in ScreenRecord /\ screen.ticket \in Nat /\ undone \subseteq Unasked
      /\ tasks \in [Tasks -> TaskRecord] /\ UNCHANGED undone
  BY DEF Inv, Typed, ScreenRecord, Back
<1>2. /\ n \in ScreenRecord /\ n.ticket = screen.ticket + 1 /\ n.tabs = screen.tabs
      /\ n.lab = screen.lab
  BY <1>1, NavigatedScreen
<1>3. CASE tab # "lab"
  <2> DEFINE h == Shown(n, p, tab)
  <2>1. /\ screen' = [h EXCEPT !.login = FALSE] /\ tasks' = Later(tasks)
        /\ overtaken' = (overtaken \/ Waits("notification"))
    BY <1>3 DEF Back
  <2> HIDE DEF n
  <2>2. /\ h \in ScreenRecord /\ h.ticket = n.ticket + 1 /\ h.tabs[p] = {tab} /\ h.lab = n.lab
        /\ \A q \in Panels \ {p} : h.tabs[q] = n.tabs[q]
    BY <1>2, ShownScreen
  <2> HIDE DEF h
  <2>3. screen' \in ScreenRecord
    BY <2>1, <2>2 DEF ScreenRecord
  <2>4. screen'.ticket = h.ticket /\ screen'.tabs = h.tabs /\ screen'.lab = h.lab
    BY <2>1, <2>2 DEF ScreenRecord
  <2>5. screen'.ticket > screen.ticket /\ (Single(screen) => Single(screen'))
    BY <1>1, <1>2, <2>2, <2>4 DEF Single
  <2>6. /\ tasks' \in [Tasks -> TaskRecord]
        /\ \A u \in Tasks : /\ tasks'[u].kind = tasks[u].kind /\ tasks'[u].ticket = tasks[u].ticket
                             /\ tasks'[u].panel = tasks[u].panel
    BY <1>1, <2>1, LaterTasks
  <2> QED
    BY <1>1, <1>2, <2>1, <2>2, <2>3, <2>4, <2>5, <2>6, ShowStep
<1>4. CASE tab = "lab"
  <2> DEFINE k == screen.ticket + 2
  <2> DEFINE new == [NoTask EXCEPT !.kind = "restore", !.ticket = k]
  <2> DEFINE ts == Later(tasks)
  <2>1. screen' = Navigated(n) /\ tasks' = [ts EXCEPT ![t] = new] /\ UNCHANGED overtaken /\ undone' \subseteq Unasked
    BY <1>1, <1>4 DEF Back
  <2> HIDE DEF n
  <2>2. /\ screen' \in ScreenRecord /\ screen'.ticket = screen.ticket + 2
        /\ screen'.lab = screen.lab /\ screen'.tabs = screen.tabs
    BY <1>1, <1>2, <2>1, NavigatedScreen
  <2>3. /\ new \in TaskRecord /\ new.kind = "restore" /\ new.ticket = screen.ticket + 2
        /\ new.newer = FALSE
    <3>1. k \in Nat /\ k = screen.ticket + 2
      BY <1>1
    <3> HIDE DEF k
    <3>2. new \in TaskRecord /\ new.kind = "restore" /\ new.ticket = k /\ new.newer = FALSE
      BY <3>1 DEF NoTask, TaskRecord, Kinds
    <3> QED
      BY <3>1, <3>2
  <2>4. screen'.ticket > screen.ticket
    BY <1>1, <2>2
  <2>5. /\ ts \in [Tasks -> TaskRecord]
        /\ \A u \in Tasks : /\ ts[u].kind = tasks[u].kind /\ ts[u].panel = tasks[u].panel
                             /\ Ticketed(screen', ts[u])
    BY <2>2, <2>4, WaitLater
  <2>6. Ticketed(screen', new)
    BY <1>1, <2>2, <2>3 DEF Ticketed
  <2> HIDE DEF new, ts
  <2> QED
    BY <2>1, <2>2, <2>3, <2>5, <2>6, TaskStep
<1> QED
  BY <1>3, <1>4

\* The laboratory's last tab is restored.
LEMMA RestoreKeeps ==
    ASSUME Inv, NEW t \in Tasks, Restore(t)
    PROVE  Inv'
<1>1. /\ screen \in ScreenRecord /\ screen.ticket \in Nat /\ undone \subseteq Unasked
      /\ "system" \in Panels /\ "lab" \in Tabs /\ tasks[t].kind = "restore" /\ tasks' = Done(t)
  BY DEF Inv, Typed, ScreenRecord, Restore, Panels, Tabs
<1>2. CASE Latest(t) /\ screen.signed
  <2> DEFINE h == Shown(screen, "system", "lab")
  <2>1. /\ screen' = [h EXCEPT !.login = FALSE, !.lab = TRUE]
        /\ undone' \subseteq Unasked /\ overtaken' = (overtaken \/ Waits("notification"))
    BY <1>1, <1>2, LatestIsLast, ReplacesUnasked DEF Restore
  <2>2. /\ h \in ScreenRecord /\ h.ticket = screen.ticket + 1 /\ h.tabs["system"] = {"lab"}
        /\ \A q \in Panels \ {"system"} : h.tabs[q] = screen.tabs[q]
    BY <1>1, ShownScreen
  <2> HIDE DEF h
  <2>3. screen' \in ScreenRecord
    BY <2>1, <2>2 DEF ScreenRecord
  <2>4. screen'.ticket = h.ticket /\ screen'.tabs = h.tabs /\ screen'.lab = TRUE
    BY <2>1, <2>2 DEF ScreenRecord
  <2>5. screen'.ticket > screen.ticket /\ (Single(screen) => Single(screen'))
    BY <1>1, <2>2, <2>4 DEF Single
  <2> QED
    BY ZenonT(60), <1>1, <2>1, <2>3, <2>4, <2>5, LaterDone, ShowStep
<1>3. CASE ~ (Latest(t) /\ screen.signed)
  BY <1>1, <1>3, EndKeeps DEF Restore
<1> QED
  BY <1>2, <1>3

\* A sign-out begins.
LEMMA BeginLogoutKeeps ==
    ASSUME Inv, NEW t \in Tasks, BeginLogout(t)
    PROVE  Inv'
<1> DEFINE new == [NoTask EXCEPT !.kind = "logout"]
<1> DEFINE ts == IF screen.lab THEN Later(tasks) ELSE tasks
<1>1. /\ screen \in ScreenRecord /\ screen.ticket \in Nat
      /\ screen' = IF screen.lab THEN Navigated(screen) ELSE screen
      /\ tasks' = [ts EXCEPT ![t] = new] /\ UNCHANGED overtaken /\ undone' \subseteq Unasked
  BY DEF Inv, Typed, ScreenRecord, BeginLogout
<1>2. new \in TaskRecord /\ new.kind = "logout"
  BY DEF NoTask, TaskRecord, Kinds
<1>3. /\ screen' \in ScreenRecord /\ screen'.tabs = screen.tabs
      /\ ts \in [Tasks -> TaskRecord]
      /\ \A u \in Tasks : /\ ts[u].kind = tasks[u].kind /\ ts[u].panel = tasks[u].panel
                           /\ Ticketed(screen', ts[u])
  <2>1. CASE screen.lab
    <3>1. screen' = Navigated(screen)
      BY <1>1, <2>1
    <3>2. /\ screen' \in ScreenRecord /\ screen'.ticket > screen.ticket
          /\ screen'.lab = screen.lab /\ screen'.tabs = screen.tabs
      BY <1>1, <3>1, NavigatedScreen
    <3> QED
      BY <2>1, <3>2, WaitLater
  <2>2. CASE ~ screen.lab
    <3>1. screen' = screen /\ screen'.ticket >= screen.ticket
      BY <1>1, <2>2
    <3> QED
      BY <1>1, <2>2, <3>1, WaitOn
  <2> QED
    BY <2>1, <2>2
<1>4. Ticketed(screen', new)
  BY <1>2, <1>3, OtherTask
<1> HIDE DEF new, ts
<1> QED
  BY <1>1, <1>2, <1>3, <1>4, TaskStep

\* The session that ends: whoever waits for the laboratory notices it.
LEMMA SignedOutScreen ==
    ASSUME Inv, SignedOut
    PROVE  /\ screen' \in ScreenRecord /\ screen'.tabs = screen.tabs /\ screen'.lab = screen.lab
           /\ UNCHANGED overtaken /\ undone' \subseteq Unasked
           /\ \/ screen'.ticket > screen.ticket
              \/ screen'.ticket >= screen.ticket /\ ~ screen'.signed /\ ~ screen.lab
<1> DEFINE s == [screen EXCEPT !.signed = FALSE]
<1>1. screen \in ScreenRecord /\ screen' = ToLogin(s) /\ UNCHANGED overtaken /\ undone' \subseteq Unasked
  BY DEF Inv, Typed, SignedOut
<1>2. s \in ScreenRecord
  BY <1>1 DEF ScreenRecord
<1>3. /\ s.ticket = screen.ticket /\ s.tabs = screen.tabs /\ s.lab = screen.lab
      /\ s.signed = FALSE /\ screen.lab \in BOOLEAN
  BY <1>1 DEF ScreenRecord
<1> HIDE DEF s
<1> QED
  BY <1>1, <1>2, <1>3, ToLoginScreen

\* The sign-out has been answered.
LEMMA EndLogoutKeeps ==
    ASSUME Inv, NEW t \in Tasks, EndLogout(t)
    PROVE  Inv'
<1> DEFINE ts == Later(tasks)
<1>1. /\ screen' \in ScreenRecord /\ screen'.tabs = screen.tabs /\ screen'.lab = screen.lab
      /\ UNCHANGED overtaken /\ undone' \subseteq Unasked
      /\ \/ screen'.ticket > screen.ticket
         \/ screen'.ticket >= screen.ticket /\ ~ screen'.signed /\ ~ screen.lab
  BY SignedOutScreen DEF EndLogout
<1>2. /\ ts \in [Tasks -> TaskRecord]
      /\ \A u \in Tasks : /\ ts[u].kind = tasks[u].kind /\ ts[u].panel = tasks[u].panel
                           /\ Ticketed(screen', ts[u])
  BY <1>1, WaitLater
<1>3. tasks' = [ts EXCEPT ![t] = NoTask]
  BY LaterDone DEF EndLogout
<1>4. NoTask \in TaskRecord /\ NoTask.kind # "notification" /\ Ticketed(screen', NoTask)
  BY <1>1, NewTask, OtherTask, NoneAssumption
<1> HIDE DEF ts
<1> QED
  BY <1>1, <1>2, <1>3, <1>4, TaskStep

\* The session has ended.
LEMMA SessionLostKeeps ==
    ASSUME Inv, SessionLost
    PROVE  Inv'
<1>1. /\ screen' \in ScreenRecord /\ screen'.tabs = screen.tabs /\ screen'.lab = screen.lab
      /\ UNCHANGED overtaken /\ undone' \subseteq Unasked
      /\ \/ screen'.ticket > screen.ticket
         \/ screen'.ticket >= screen.ticket /\ ~ screen'.signed /\ ~ screen.lab
  BY SignedOutScreen DEF SessionLost
<1>2. /\ tasks' \in [Tasks -> TaskRecord]
      /\ \A u \in Tasks : /\ tasks'[u].kind = tasks[u].kind /\ tasks'[u].panel = tasks[u].panel
                           /\ Ticketed(screen', tasks'[u])
  BY <1>1, WaitLater DEF SessionLost
<1>3. Typed'
  BY <1>1, <1>2 DEF Inv, Typed
<1>4. ASSUME ~ overtaken' PROVE Single(screen') /\ Reserved(screen', tasks')
  BY <1>1, <1>2, <1>4 DEF Inv, Single, Reserved
<1> QED
  BY <1>1, <1>2, <1>3, <1>4 DEF Inv

\* The user signs in.
LEMMA LoginKeeps ==
    ASSUME Inv, Login
    PROVE  Inv'
<1> DEFINE n == Navigated(screen)
<1> DEFINE h == Shown(n, "member", "first")
<1>1. /\ screen \in ScreenRecord /\ screen.ticket \in Nat /\ undone' \subseteq Unasked
      /\ tasks \in [Tasks -> TaskRecord] /\ "member" \in Panels /\ "first" \in Tabs
      /\ screen' = [h EXCEPT !.signed = TRUE, !.login = FALSE] /\ tasks' = Later(tasks)
      /\ overtaken' = (overtaken \/ Waits("notification"))
  BY DEF Inv, Typed, ScreenRecord, Login, Panels, Tabs
<1>2. /\ n \in ScreenRecord /\ n.ticket = screen.ticket + 1 /\ n.tabs = screen.tabs
      /\ n.lab = screen.lab
  BY <1>1, NavigatedScreen
<1> HIDE DEF n
<1>3. /\ h \in ScreenRecord /\ h.ticket = n.ticket + 1 /\ h.tabs["member"] = {"first"}
      /\ h.lab = n.lab /\ \A q \in Panels \ {"member"} : h.tabs[q] = n.tabs[q]
  BY <1>1, <1>2, ShownScreen
<1> HIDE DEF h
<1>4. screen' \in ScreenRecord
  BY <1>1, <1>3 DEF ScreenRecord
<1>5. screen'.ticket = h.ticket /\ screen'.tabs = h.tabs /\ screen'.lab = h.lab
  BY <1>1, <1>3 DEF ScreenRecord
<1>6. screen'.ticket > screen.ticket /\ (Single(screen) => Single(screen'))
  BY <1>1, <1>2, <1>3, <1>5 DEF Single
<1>7. /\ tasks' \in [Tasks -> TaskRecord]
      /\ \A u \in Tasks : /\ tasks'[u].kind = tasks[u].kind /\ tasks'[u].ticket = tasks[u].ticket
                           /\ tasks'[u].panel = tasks[u].panel
  BY <1>1, LaterTasks
<1> QED
  BY <1>1, <1>2, <1>3, <1>4, <1>5, <1>6, <1>7, ShowStep

-----------------------------------------------------------------------------
\* The invariant of the screens at the beginning.
LEMMA InitHolds == Init => Inv
<1> SUFFICES ASSUME Init PROVE Inv
  OBVIOUS
<1>1. Typed
  BY NoneAssumption DEF Init, Typed, ScreenRecord, TaskRecord, NoTask, Panels, Tabs, Kinds
<1>2. \A t \in Tasks : tasks[t].kind = None
  BY DEF Init, NoTask
<1>3. Single(screen)
  BY DEF Init, Single, Panels
<1>4. \A t \in Tasks : Ticketed(screen, tasks[t])
  BY <1>2, NoneAssumption DEF Ticketed
<1>5. Reserved(screen, tasks)
  BY <1>2, NoneAssumption DEF Reserved
<1> QED
  BY <1>1, <1>3, <1>4, <1>5 DEF Inv, Init

\* Every step of the screens preserves their invariant.
LEMMA StepKeeps ==
    ASSUME Inv, [Next]_vars
    PROVE  Inv'
<1>1. CASE UNCHANGED vars
  BY <1>1 DEF vars, Inv, Typed, Ticketed, Single, Reserved
<1>2. ASSUME NEW t \in Tasks, NEW tab \in Tabs, Choose(t, tab) PROVE Inv'
  BY <1>2, ChooseKeeps
<1>3. ASSUME NEW t \in Tasks, NEW tab \in Tabs, NEW p \in Panels, Back(t, p, tab) PROVE Inv'
  BY <1>3, BackKeeps
<1>4. ASSUME NEW t \in Tasks, NotificationReady(t) PROVE Inv'
  BY <1>4, NotificationKeeps
<1>5. ASSUME NEW t \in Tasks, OpenAdmin(t) PROVE Inv'
  BY <1>5, OpenAdminKeeps
<1>6. ASSUME NEW t \in Tasks, AdminReady(t) PROVE Inv'
  BY <1>6, AdminReadyKeeps
<1>7. ASSUME NEW t \in Tasks, OpenSystem(t) PROVE Inv'
  BY <1>7, OpenSystemKeeps
<1>8. ASSUME NEW t \in Tasks, SystemReady(t) PROVE Inv'
  BY <1>8, SystemReadyKeeps
<1>9. ASSUME NEW t \in Tasks, DefaultTab(t) PROVE Inv'
  BY <1>9, DefaultTabKeeps
<1>10. ASSUME NEW t \in Tasks, Restore(t) PROVE Inv'
  BY <1>10, RestoreKeeps
<1>11. ASSUME NEW t \in Tasks, BeginLogout(t) PROVE Inv'
  BY <1>11, BeginLogoutKeeps
<1>12. ASSUME NEW t \in Tasks, EndLogout(t) PROVE Inv'
  BY <1>12, EndLogoutKeeps
<1>13. ASSUME NEW tab \in {"first", "other"}, OpenMember(tab) PROVE Inv'
  BY <1>13, OpenMemberKeeps
<1>14. CASE SessionLost
  BY <1>14, SessionLostKeeps
<1>15. CASE Login
  BY <1>15, LoginKeeps
<1>16. ASSUME NEW t \in Tasks, ChooseAlbum(t) PROVE Inv'
  BY <1>16, ChooseAlbumKeeps
<1>17. ASSUME NEW t \in Tasks, AlbumReady(t) PROVE Inv'
  BY <1>17, AlbumReadyKeeps
<1> QED
  BY <1>1, <1>2, <1>3, <1>4, <1>5, <1>6, <1>7, <1>8, <1>9, <1>10, <1>11, <1>12, <1>13, <1>14, <1>15,
     <1>16, <1>17 DEF Next

\* In every reachable state a handler that waits has its place in the order of
\* the user's choices, and a panel has one tab at most.
THEOREM Invariant == Spec => []Inv
<1> QED
  BY InitHolds, StepKeeps, PTL DEF Spec

\* A set without two elements.
LEMMA AtMostOne ==
    ASSUME NEW S, \A a, b \in S : a = b
    PROVE  Cardinality(S) <= 1
<1>1. CASE S = {}
  BY <1>1, FS_EmptySet
<1>2. CASE S # {}
  <2>1. PICK a \in S : TRUE
    BY <1>2
  <2>2. S = {a}
    BY <2>1
  <2> QED
    BY <2>2, FS_Singleton
<1> QED
  BY <1>1, <1>2

\* What the screens promise, however many handlers wait: the history's tab of the
\* laboratory and the first tab of the system panel, when they are shown late, replace no
\* choice that took a number since, and a panel never shows two tabs, unless one was
\* shown while the notifications were loaded.  The album, the notifications, the
\* administrators' and the system panel are shown over later choices.
THEOREM ScreensAlwaysFollow == Spec => []ScreensFollow
<1>1. ASSUME Inv PROVE ScreensFollow
  <2>1. LaterChoiceWins
    BY <1>1 DEF Inv, LaterChoiceWins, Unasked
  <2>2. OneTab
    BY <1>1, AtMostOne DEF Inv, Single, OneTab
  <2> QED
    BY <2>1, <2>2 DEF ScreensFollow
<1> QED
  BY Invariant, <1>1, PTL

-----------------------------------------------------------------------------
(* The start of the page: the invariant *)

Versions == Nat \cup {None}
LoadRecord == [at : {"idle", "cache", "sent", "answered", "fallback", "lost"},
               found : Versions, preview : Versions, cached : Versions]

GuardRecord ==
    [ready : BOOLEAN, button : Start!Buttons, enabled : BOOLEAN, running : BOOLEAN, watchdog : BOOLEAN]
StartRecord == [at : {"auth", "load", "over"}, try : Nat]
DataRecord ==
    [shown : Versions, essential : BOOLEAN, full : Versions, loaded : BOOLEAN, loading : BOOLEAN,
     asked : Versions, refreshes : Nat]

StartTyped ==
    /\ guard \in GuardRecord /\ start \in StartRecord
    /\ lite \in [Start!Callers -> LoadRecord]
    /\ data \in DataRecord /\ cache \in Versions
    /\ server \in [version : Nat, broken : SUBSET Nat]
    /\ retried \in BOOLEAN /\ crossed \in BOOLEAN /\ late \in BOOLEAN

\* No version is ahead of the server.
Known(v) == v # None => v <= server.version
NothingAhead ==
    /\ Known(cache) /\ Known(data.shown) /\ Known(data.asked) /\ Known(data.full)
    /\ \A c \in Start!Callers : Known(lite[c].found) /\ Known(lite[c].preview) /\ Known(lite[c].cached)

\* A button that stays disabled belongs to a retry that runs or has failed.
ButtonKept ==
    /\ ~ guard.enabled => guard.running \/ retried \/ guard.ready
    /\ guard.running => start.at # "over"
    /\ start.at = "over" => guard.ready \/ guard.button # "none"
    /\ guard.button = "start" /\ ~ guard.running => start.at = "over"
    /\ start.at = "load" <=> lite["start"].at # "idle"

\* A full load is made for what the last refresh had, unless that found one under way.
FullAsked ==
    /\ data.loading <=> lite["full"].at # "idle"
    /\ lite["full"].at \in {"idle", "sent", "answered"}
    /\ data.loaded => data.full # None /\ ~ data.loading
    /\ lite["full"].at = "answered" => lite["full"].found # None
    /\ ~ late /\ data.asked # None =>
          /\ lite["full"].at = "answered" => lite["full"].found >= data.asked
          /\ data.loaded => data.full >= data.asked

\* A load has something of the cache or of the server; the start has it from the
\* preview on.
Readers == Start!Callers \ {"full"}
Live(c) == lite[c].at # "idle" /\ (c = "start" => lite[c].at # "cache")

\* Of two loads at least one began while the other was under way; one alone goes
\* on with the cache as it is, and with nothing older than what is shown.
OneReader ==
    /\ \A c \in Readers : lite[c].at \in {"idle", "cache"} =>
                              lite[c].found = None /\ lite[c].preview = None /\ lite[c].cached = None
    /\ \A c \in Readers : lite[c].at = "cache" => c = "start"
    /\ ~ crossed =>
          /\ \A c, d \in Readers : Live(c) /\ Live(d) => c = d
          /\ cache # None /\ data.shown # None => cache >= data.shown
          /\ \A c \in Readers : Live(c) =>
                /\ lite[c].cached = cache
                /\ lite[c].preview # None => lite[c].preview = data.shown
                /\ lite[c].at = "answered" =>
                      lite[c].found # None /\ (data.shown # None => lite[c].found >= data.shown)
                /\ lite[c].at = "fallback" => lite[c].found = lite[c].cached
                /\ lite[c].at = "lost" => lite[c].found = None

StartInv == StartTyped /\ NothingAhead /\ ButtonKept /\ FullAsked /\ OneReader


-----------------------------------------------------------------------------
(* The start of the page: its steps *)

\* What the parts of a step do to the start screen.
LEMMA GuardParts ==
    ASSUME NEW g \in GuardRecord, NEW what \in Start!Buttons
    PROVE  /\ Start!Offered(g, what) \in GuardRecord
           /\ Start!Offered(g, what).button = what /\ Start!Offered(g, what).ready = g.ready
           /\ Start!Offered(g, what).enabled = g.enabled /\ Start!Offered(g, what).running = g.running
           /\ Start!Ready(g) \in GuardRecord
           /\ Start!Ready(g).ready /\ Start!Ready(g).button = g.button
           /\ Start!Ready(g).enabled = g.enabled /\ Start!Ready(g).running = g.running
           /\ Start!Ended(g) \in GuardRecord
           /\ ~ Start!Ended(g).running /\ Start!Ended(g).ready = g.ready
           /\ Start!Ended(g).button = g.button /\ Start!Ended(g).enabled = g.enabled
  BY DEF GuardRecord, Start!Offered, Start!Ready, Start!Ended

\* A run of the start that fails, or enters the portal.
LEMMA StartFailsKeeps ==
    ASSUME StartTyped, ButtonKept, start.at # "over", Start!StartFails
    PROVE  /\ guard' \in GuardRecord /\ start' \in StartRecord /\ retried' \in BOOLEAN
           /\ start'.at = "over" /\ start'.try = start.try
           /\ ~ guard'.running /\ guard'.button = "start"
           /\ ~ guard'.enabled => retried' \/ guard'.ready
  <1>1. guard \in GuardRecord /\ "start" \in Start!Buttons
    BY DEF StartTyped, Start!Buttons
  <1>2. Start!Offered(guard, "start") \in GuardRecord
    BY <1>1, GuardParts
  <1>3. /\ guard' \in GuardRecord /\ ~ guard'.running /\ guard'.button = "start"
        /\ guard'.enabled = guard.enabled /\ guard'.ready = guard.ready
    BY <1>1, <1>2, GuardParts DEF Start!StartFails
  <1>4. start' \in StartRecord /\ start'.at = "over" /\ start'.try = start.try
    BY DEF StartTyped, StartRecord, Start!StartFails
  <1>5. retried' = (retried \/ guard.running)
    BY DEF Start!StartFails
  <1> QED BY <1>3, <1>4, <1>5 DEF StartTyped, ButtonKept

\* The end of a run of the start that enters the portal.
LEMMA EnteredKeeps ==
    ASSUME StartTyped, Start!Entered
    PROVE  /\ guard' \in GuardRecord /\ start' \in StartRecord
           /\ start'.at = "over" /\ start'.try = start.try
           /\ ~ guard'.running /\ guard'.ready /\ guard'.button = guard.button
  <1>1. guard \in GuardRecord /\ "none" \in Start!Buttons
    BY DEF StartTyped, Start!Buttons
  <1>2. Start!Ready(guard) \in GuardRecord /\ Start!Ready(guard).ready /\ Start!Ready(guard).button = guard.button
    BY <1>1, GuardParts
  <1>3. guard' \in GuardRecord /\ ~ guard'.running /\ guard'.ready /\ guard'.button = guard.button
    BY <1>1, <1>2, GuardParts DEF Start!Entered
  <1> QED BY <1>3 DEF StartTyped, StartRecord, Start!Entered

\* The parts of the invariant that a step leaves alone.
LEMMA StartUnchanged ==
    ASSUME StartInv
    PROVE  /\ UNCHANGED <<lite, data, cache, server>> => NothingAhead'
           /\ UNCHANGED <<lite, data, late>> => FullAsked'
           /\ UNCHANGED <<lite, data, cache, crossed>> => OneReader'
           /\ UNCHANGED <<guard, start, lite, retried>> => ButtonKept'
  BY DEF StartInv, NothingAhead, Known, FullAsked, OneReader, Live, ButtonKept

\* The watchdog offers another run of the page.
LEMMA WatchdogKeeps == ASSUME StartInv, Start!Watchdog PROVE StartInv'
  <1> DEFINE g == [guard EXCEPT !.watchdog = FALSE]
  <1>1. /\ g \in GuardRecord /\ g.button = guard.button /\ g.ready = guard.ready
        /\ g.enabled = guard.enabled /\ g.running = guard.running
    BY DEF StartInv, StartTyped, GuardRecord
  <1>2. guard' = Start!Offered(g, "page") /\ "page" \in Start!Buttons
    BY DEF Start!Watchdog, Start!Buttons
  <1> HIDE DEF g
  <1>3. /\ guard' \in GuardRecord /\ guard'.button = "page" /\ guard'.ready = guard.ready
        /\ guard'.enabled = guard.enabled /\ guard'.running = guard.running
    BY <1>1, <1>2, GuardParts
  <1>4. UNCHANGED <<start, lite, data, cache, server, retried, crossed, late>>
    BY DEF Start!Watchdog
  <1>5. StartTyped'
    BY <1>3, <1>4 DEF StartInv, StartTyped
  <1>6. ButtonKept'
    BY <1>3, <1>4 DEF StartInv, ButtonKept
  <1> QED BY <1>4, <1>5, <1>6, StartUnchanged DEF StartInv

\* The button of the start screen, for another run of the start or of the page.
LEMMA PressKeeps == ASSUME StartInv, Start!Press PROVE StartInv'
  <1>1. UNCHANGED <<cache, server, crossed, late>>
    BY DEF Start!Press
  <1>2. CASE guard.button = "start"
    <2>1. /\ guard' = [guard EXCEPT !.running = TRUE, !.enabled = FALSE]
          /\ start' = [at |-> "auth", try |-> start.try + 1] /\ UNCHANGED <<lite, data, retried>>
          /\ ~ guard.running
      BY <1>2 DEF Start!Press, Start!Works
    <2>2. /\ guard' \in GuardRecord /\ guard'.button = guard.button /\ guard'.running
          /\ start' \in StartRecord /\ start'.at = "auth"
      <3>1. guard \in GuardRecord /\ start \in StartRecord
        BY DEF StartInv, StartTyped
      <3>2. guard' \in GuardRecord /\ guard'.button = guard.button /\ guard'.running
        BY <2>1, <3>1 DEF GuardRecord
      <3>3. start' \in StartRecord /\ start'.at = "auth"
        BY <2>1, <3>1 DEF StartRecord
      <3> QED BY <3>2, <3>3
    <2>3. StartTyped'
      BY <1>1, <2>1, <2>2 DEF StartInv, StartTyped
    <2>4. start.at = "over"
      BY <1>2, <2>1 DEF StartInv, ButtonKept
    <2>5. ButtonKept'
      BY <2>1, <2>2, <2>4 DEF StartInv, ButtonKept
    <2> QED BY <1>1, <2>1, <2>3, <2>5, StartUnchanged DEF StartInv
  <1>3. CASE guard.button # "start"
    <2>1. /\ guard' = [guard EXCEPT !.button = "none", !.enabled = TRUE, !.running = FALSE, !.watchdog = TRUE]
          /\ start' = [at |-> "auth", try |-> start.try + 1]
          /\ lite' = [c \in Start!Callers |-> Start!NoLoad]
          /\ data' = [data EXCEPT !.shown = None, !.essential = FALSE, !.full = None,
                                  !.loaded = FALSE, !.loading = FALSE]
          /\ retried' = FALSE
      BY <1>3 DEF Start!Press
    <2>2. /\ guard' \in GuardRecord /\ guard'.button = "none" /\ ~ guard'.running /\ guard'.enabled
          /\ start' \in StartRecord /\ start'.at = "auth"
      <3>1. guard \in GuardRecord /\ start \in StartRecord
        BY DEF StartInv, StartTyped
      <3>2. guard' \in GuardRecord /\ guard'.button = "none" /\ ~ guard'.running /\ guard'.enabled
        BY <2>1, <3>1 DEF GuardRecord, Start!Buttons
      <3>3. start' \in StartRecord /\ start'.at = "auth"
        BY <2>1, <3>1 DEF StartRecord
      <3> QED BY <3>2, <3>3
    <2>3. /\ Start!NoLoad \in LoadRecord /\ Start!NoLoad.at = "idle" /\ Start!NoLoad.found = None
          /\ Start!NoLoad.preview = None /\ Start!NoLoad.cached = None
      BY DEF Start!NoLoad, LoadRecord, Versions
    <2>4. \A c \in Start!Callers : lite'[c] = Start!NoLoad
      BY <2>1
    <2>5. /\ data' \in DataRecord /\ data'.shown = None /\ data'.full = None /\ data'.asked = data.asked
          /\ ~ data'.loaded /\ ~ data'.loading
      BY <2>1 DEF StartInv, StartTyped, DataRecord, Versions
    <2>6. StartTyped'
      BY <1>1, <2>1, <2>2, <2>3, <2>5 DEF StartInv, StartTyped
    <2>7. NothingAhead'
      BY <1>1, <2>3, <2>4, <2>5 DEF StartInv, NothingAhead, Known
    <2>8. ButtonKept'
      BY <2>2, <2>3, <2>4 DEF ButtonKept, Start!Callers
    <2>9. FullAsked'
      BY <2>3, <2>4, <2>5 DEF FullAsked, Start!Callers
    <2>10. OneReader'
      BY <1>1, <2>3, <2>4, <2>5 DEF OneReader, Readers, Live, Start!Callers
    <2> QED BY <2>6, <2>7, <2>8, <2>9, <2>10 DEF StartInv
  <1> QED BY <1>2, <1>3

\* The session check: sign-in, failure, or the load of the data.
LEMMA CheckSessionKeeps == ASSUME StartInv, Start!CheckSession PROVE StartInv'
  <1>1. start.at = "auth" /\ UNCHANGED <<data, cache, server, crossed, late>>
    BY DEF Start!CheckSession
  <1>2. lite["start"].at = "idle"
    BY <1>1 DEF StartInv, ButtonKept, StartTyped, LoadRecord, Start!Callers
  <1>3. CASE UNCHANGED <<lite, retried>> /\ Start!Entered
    <2>1. /\ guard' \in GuardRecord /\ start' \in StartRecord /\ start'.at = "over"
          /\ ~ guard'.running /\ guard'.ready
      BY <1>3, EnteredKeeps DEF StartInv
    <2>2. StartTyped'
      BY <1>1, <1>3, <2>1 DEF StartInv, StartTyped
    <2>3. ButtonKept'
      BY <1>2, <1>3, <2>1 DEF StartInv, ButtonKept
    <2> QED BY <1>1, <1>3, <2>2, <2>3, StartUnchanged DEF StartInv
  <1>4. CASE UNCHANGED lite /\ Start!StartFails
    <2>1. /\ guard' \in GuardRecord /\ start' \in StartRecord /\ retried' \in BOOLEAN
          /\ start'.at = "over" /\ ~ guard'.running /\ guard'.button = "start"
          /\ ~ guard'.enabled => retried' \/ guard'.ready
      BY <1>1, <1>4, StartFailsKeeps DEF StartInv
    <2>2. StartTyped'
      BY <1>1, <1>4, <2>1 DEF StartInv, StartTyped
    <2>3. ButtonKept'
      BY <1>2, <1>4, <2>1 DEF ButtonKept
    <2> QED BY <1>1, <1>4, <2>2, <2>3, StartUnchanged DEF StartInv
  <1>5. CASE /\ start' = [start EXCEPT !.at = "load"]
             /\ lite' = [lite EXCEPT !["start"].at = "cache"] /\ UNCHANGED <<guard, retried>>
    <2>1. start' \in StartRecord /\ start'.at = "load"
      BY <1>5 DEF StartInv, StartTyped, StartRecord
    <2>2. /\ lite' \in [Start!Callers -> LoadRecord] /\ lite'["start"].at = "cache"
          /\ lite'["start"].found = lite["start"].found /\ lite'["start"].preview = lite["start"].preview
          /\ lite'["start"].cached = lite["start"].cached
          /\ \A c \in Start!Callers \ {"start"} : lite'[c] = lite[c]
      BY <1>5 DEF StartInv, StartTyped, LoadRecord, Start!Callers
    <2>3. StartTyped'
      BY <1>1, <1>5, <2>1, <2>2 DEF StartInv, StartTyped
    <2>4. NothingAhead'
      BY <1>1, <2>2 DEF StartInv, NothingAhead, Known
    <2>5. ButtonKept'
      BY <1>1, <1>5, <2>1, <2>2 DEF StartInv, ButtonKept
    <2>6. FullAsked'
      BY <1>1, <2>2 DEF StartInv, FullAsked, Start!Callers
    <2>7. OneReader'
      BY <1>1, <1>2, <2>2 DEF StartInv, OneReader, Readers, Live, Start!Callers
    <2> QED BY <2>3, <2>4, <2>5, <2>6, <2>7 DEF StartInv
  <1> QED BY <1>3, <1>4, <1>5 DEF Start!CheckSession, Start!Entered

\* A load that begins, or that has its answer: the others are as they were.
LEMMA NoLoadTyped ==
    /\ Start!NoLoad \in LoadRecord /\ Start!NoLoad.at = "idle" /\ Start!NoLoad.found = None
    /\ Start!NoLoad.preview = None /\ Start!NoLoad.cached = None
  BY DEF Start!NoLoad, LoadRecord, Versions

\* What the cache has is drawn before the answer comes.
LEMMA PreviewKeeps == ASSUME StartInv, Start!Preview PROVE StartInv'
  <1>1. /\ lite["start"].at = "cache" /\ UNCHANGED <<start, server, retried, late>>
        /\ crossed' = (crossed \/ \E c \in Start!Callers \ {"start", "full"} : lite[c].at # "idle")
    BY DEF Start!Preview
  <1>2. /\ lite["start"].found = None /\ lite["start"].preview = None /\ lite["start"].cached = None
        /\ lite["start"] \in LoadRecord
    BY <1>1 DEF StartInv, StartTyped, OneReader, Readers, Start!Callers
  <1>3. /\ ~ crossed' => ~ crossed
        /\ ~ crossed' => \A c \in Readers \ {"start"} : lite[c].at = "idle"
    BY <1>1 DEF Readers
  <1>4. ASSUME NEW load \in LoadRecord, load.at = "sent", load.found = None, lite' = [lite EXCEPT !["start"] = load],
               load.preview \in {None, cache}, load.cached = cache', data' \in DataRecord,
               cache' \in {None, cache}, data' = [data EXCEPT !.shown = data'.shown],
               data'.shown \in {data.shown, cache}, data'.shown # data.shown => cache # None,
               data'.shown # data.shown => cache' = cache, load.preview # None => load.preview = data'.shown,
               guard' \in {guard, Start!Ready(guard)}
        PROVE  StartInv'
    <2>1. /\ lite' \in [Start!Callers -> LoadRecord] /\ lite'["start"] = load
          /\ \A c \in Start!Callers \ {"start"} : lite'[c] = lite[c]
      BY <1>4 DEF StartInv, StartTyped, Start!Callers
    <2>2. /\ data'.loading = data.loading /\ data'.loaded = data.loaded
          /\ data'.full = data.full /\ data'.asked = data.asked
      BY <1>4 DEF DataRecord, StartInv, StartTyped
    <2>3. /\ guard' \in GuardRecord /\ guard'.button = guard.button /\ guard'.enabled = guard.enabled
          /\ guard'.running = guard.running /\ (guard.ready => guard'.ready)
      <3>1. guard \in GuardRecord /\ "none" \in Start!Buttons
        BY DEF StartInv, StartTyped, Start!Buttons
      <3> QED BY <1>4, <3>1, GuardParts
    <2>4. StartTyped'
      BY <1>1, <1>4, <2>1, <2>3 DEF StartInv, StartTyped, Versions
    <2>5. NothingAhead'
      BY <1>1, <1>4, <2>1, <2>2 DEF StartInv, NothingAhead, Known, Start!Callers
    <2>6. ButtonKept'
      BY <1>1, <1>4, <2>1, <2>3 DEF StartInv, ButtonKept, Start!Callers
    <2>7. FullAsked'
      BY <1>1, <2>1, <2>2 DEF StartInv, FullAsked, Start!Callers
    <2>8. ASSUME ~ crossed'
          PROVE  cache' # None /\ data'.shown # None => cache' >= data'.shown
      <3>1. cache # None /\ data.shown # None => cache >= data.shown
        BY <1>3, <2>8 DEF StartInv, OneReader
      <3>2. cache # None => cache \in Nat /\ cache >= cache
        BY DEF StartInv, StartTyped, Versions
      <3> QED BY <1>4, <3>1, <3>2
    <2>9. OneReader'
      BY <1>3, <1>4, <2>1, <2>8 DEF StartInv, OneReader, Readers, Live, Start!Callers
    <2> QED BY <2>4, <2>5, <2>6, <2>7, <2>9 DEF StartInv
  <1>5. CASE cache = None \/ cache \in server.broken
    <2>1. lite' = [lite EXCEPT !["start"].at = "sent"] /\ UNCHANGED <<data, guard>> /\ cache' = None
      BY <1>5 DEF Start!Preview
    <2> DEFINE load == [lite["start"] EXCEPT !.at = "sent"]
    <2>2. /\ load \in LoadRecord /\ load.at = "sent" /\ load.found = None
          /\ load.preview = None /\ load.cached = None
      BY <1>2 DEF LoadRecord
    <2>3. lite' = [lite EXCEPT !["start"] = load]
      BY <2>1
    <2>4. data \in DataRecord /\ data' = [data EXCEPT !.shown = data'.shown]
      BY <2>1 DEF StartInv, StartTyped, DataRecord
    <2> HIDE DEF load
    <2> QED BY <1>4, <2>1, <2>2, <2>3, <2>4
  <1>6. CASE cache # None /\ cache \notin server.broken
    <2>1. /\ lite' = [lite EXCEPT !["start"].at = "sent", !["start"].preview = cache, !["start"].cached = cache]
          /\ data' = [data EXCEPT !.shown = cache] /\ guard' = Start!Ready(guard) /\ cache' = cache
      BY <1>6 DEF Start!Preview
    <2> DEFINE load == [lite["start"] EXCEPT !.at = "sent", !.preview = cache, !.cached = cache]
    <2>2. /\ load \in LoadRecord /\ load.at = "sent" /\ load.found = None
          /\ load.preview = cache /\ load.cached = cache
      BY <1>2 DEF LoadRecord, StartInv, StartTyped
    <2>3. lite' = [lite EXCEPT !["start"] = load]
      BY <2>1 DEF StartInv, StartTyped, LoadRecord, Start!Callers
    <2>4. data' \in DataRecord /\ data'.shown = cache /\ data' = [data EXCEPT !.shown = data'.shown]
      BY <2>1 DEF StartInv, StartTyped, DataRecord
    <2> HIDE DEF load
    <2> QED BY <1>4, <1>6, <2>1, <2>2, <2>3, <2>4
  <1> QED BY <1>5, <1>6

\* The check after a pause and the refresh of the user.
LEMMA BeginKeeps ==
    ASSUME StartInv, NEW c \in {"resume", "refresh"}, lite[c].at = "idle", Start!Begin(c),
           UNCHANGED <<guard, start, cache, server, retried, late>>, data' \in DataRecord,
           UNCHANGED <<data.shown, data.asked, data.full, data.loaded, data.loading>>
    PROVE  StartInv'
  <1> DEFINE load == [Start!NoLoad EXCEPT !.at = "sent", !.cached = cache]
  <1>1. /\ load \in LoadRecord /\ load.at = "sent" /\ load.found = None
        /\ load.preview = None /\ load.cached = cache
    BY DEF Start!NoLoad, LoadRecord, StartInv, StartTyped, Versions
  <1>2. lite' = [lite EXCEPT ![c] = load] /\ crossed' = (crossed \/ Start!Others(c) # {})
    BY DEF Start!Begin
  <1> HIDE DEF load
  <1>3. /\ lite' \in [Start!Callers -> LoadRecord] /\ lite'[c] = load
        /\ \A d \in Start!Callers \ {c} : lite'[d] = lite[d]
        /\ c \in Start!Callers /\ c # "full" /\ c # "start"
    BY <1>1, <1>2 DEF StartInv, StartTyped, Start!Callers
  <1>4. StartTyped'
    BY <1>2, <1>3 DEF StartInv, StartTyped
  <1>5. NothingAhead'
    BY <1>1, <1>3 DEF StartInv, NothingAhead, Known
  <1>6. ButtonKept'
    BY <1>3 DEF StartInv, ButtonKept, Start!Callers
  <1>7. FullAsked'
    BY <1>3 DEF StartInv, FullAsked, Start!Callers
  <1>8. /\ ~ crossed' => ~ crossed
        /\ ~ crossed' => \A d \in Readers \ {c} : lite[d].at = "idle"
    BY <1>2 DEF Readers, Start!Others
  <1>9. OneReader'
    BY <1>1, <1>3, <1>8 DEF StartInv, OneReader, Readers, Live
  <1> QED BY <1>4, <1>5, <1>6, <1>7, <1>9 DEF StartInv

\* The check after a pause of the page.
LEMMA ResumeKeeps == ASSUME StartInv, Start!Resume PROVE StartInv'
  <1>1. data \in DataRecord
    BY DEF StartInv, StartTyped
  <1> QED BY <1>1, BeginKeeps DEF Start!Resume

\* The refresh of the user begins.
LEMMA RefreshKeeps == ASSUME StartInv, Start!Refresh PROVE StartInv'
  <1>1. /\ data' \in DataRecord
        /\ UNCHANGED <<data.shown, data.asked, data.full, data.loaded, data.loading>>
    BY DEF StartInv, StartTyped, DataRecord, Start!Refresh
  <1> QED BY <1>1, BeginKeeps DEF Start!Refresh

\* The server answers a load, or the two that share one GET.
LEMMA ServeKeeps == ASSUME StartInv, NEW c \in Start!Callers, Start!Serve(c) PROVE StartInv'
  <1>1. UNCHANGED <<guard, start, data, cache, server, retried, crossed, late>>
    BY DEF Start!Serve
  <1>2. PICK shared \in SUBSET Start!Callers :
            /\ \A d \in shared : lite[d].at = "sent"
            /\ lite' = [d \in Start!Callers |-> IF d \in shared
                           THEN [lite[d] EXCEPT !.at = "answered", !.found = server.version] ELSE lite[d]]
    <2>1. CASE c \in {"start", "resume"}
      <3>1. {d \in {"start", "resume"} : lite[d].at = "sent"} \in SUBSET Start!Callers
        BY DEF Start!Callers
      <3> QED BY <2>1, <3>1 DEF Start!Serve
    <2>2. CASE c \notin {"start", "resume"}
      <3>1. {c} \in SUBSET Start!Callers
        OBVIOUS
      <3> QED BY <2>2, <3>1 DEF Start!Serve
    <2> QED BY <2>1, <2>2
  <1>3. server.version \in Nat /\ lite \in [Start!Callers -> LoadRecord]
    BY DEF StartInv, StartTyped
  <1>4. /\ \A d \in Start!Callers :
              /\ lite'[d] \in LoadRecord /\ lite'[d].preview = lite[d].preview /\ lite'[d].cached = lite[d].cached
              /\ lite'[d] = lite[d]
                   \/ (lite[d].at = "sent" /\ lite'[d].at = "answered" /\ lite'[d].found = server.version)
        /\ lite' \in [Start!Callers -> LoadRecord]
    <2>1. ASSUME NEW d \in Start!Callers
          PROVE  /\ lite'[d] \in LoadRecord /\ lite'[d].preview = lite[d].preview /\ lite'[d].cached = lite[d].cached
                 /\ lite'[d] = lite[d]
                      \/ (lite[d].at = "sent" /\ lite'[d].at = "answered" /\ lite'[d].found = server.version)
      <3>1. CASE d \in shared
        <4>1. lite'[d] = [lite[d] EXCEPT !.at = "answered", !.found = server.version] /\ lite[d] \in LoadRecord
          BY <1>2, <1>3, <3>1
        <4> QED BY <1>2, <1>3, <3>1, <4>1 DEF LoadRecord, Versions
      <3>2. CASE d \notin shared
        <4>1. lite'[d] = lite[d]
          BY <1>2, <3>2
        <4> QED BY <1>3, <4>1
      <3> QED BY <3>1, <3>2
    <2>2. lite' = [d \in Start!Callers |-> lite'[d]]
      BY <1>2
    <2> QED BY <2>1, <2>2
  <1>5. StartTyped'
    BY <1>1, <1>4 DEF StartInv, StartTyped
  <1>6. NothingAhead'
    BY <1>1, <1>3, <1>4 DEF StartInv, NothingAhead, Known
  <1>7. ButtonKept'
    BY <1>1, <1>4 DEF StartInv, ButtonKept, Start!Callers
  <1>8. FullAsked'
    BY <1>1, <1>3, <1>4, NoValueAssumption DEF StartInv, FullAsked, NothingAhead, Known, Start!Callers
  <1>9. OneReader'
    BY <1>1, <1>3, <1>4, NoValueAssumption DEF StartInv, OneReader, NothingAhead, Known, Readers, Live
  <1> QED BY <1>5, <1>6, <1>7, <1>8, <1>9 DEF StartInv

\* A load gets no answer.
LEMMA LoseKeeps == ASSUME StartInv, NEW c \in Start!Callers, Start!Lose(c) PROVE StartInv'
  <1>1. c # "full" /\ lite[c].at = "sent" /\ UNCHANGED <<guard, start, data, cache, server, retried, crossed, late>>
    BY DEF Start!Lose
  <1>2. /\ lite' \in [Start!Callers -> LoadRecord]
        /\ lite'[c].at = IF lite[c].preview = None /\ lite[c].cached # None THEN "fallback" ELSE "lost"
        /\ lite'[c].found = IF lite[c].preview = None THEN lite[c].cached ELSE None
        /\ lite'[c].preview = lite[c].preview /\ lite'[c].cached = lite[c].cached
        /\ \A d \in Start!Callers \ {c} : lite'[d] = lite[d]
    BY DEF StartInv, StartTyped, LoadRecord, Versions, Start!Lose
  <1>3. StartTyped'
    BY <1>1, <1>2 DEF StartInv, StartTyped
  <1>4. NothingAhead'
    BY <1>1, <1>2 DEF StartInv, NothingAhead, Known
  <1>5. ButtonKept'
    BY <1>1, <1>2 DEF StartInv, ButtonKept, Start!Callers
  <1>6. FullAsked'
    BY <1>1, <1>2 DEF StartInv, FullAsked, Start!Callers
  <1>7. OneReader'
    BY <1>1, <1>2 DEF StartInv, OneReader, Readers, Live
  <1> QED BY <1>3, <1>4, <1>5, <1>6, <1>7 DEF StartInv

\* A load that ends, with what it brings to the cache and to the page.
LEMMA KeptIs ==
    ASSUME StartInv, NEW c \in Readers, lite[c].at \in {"answered", "fallback", "lost"}
    PROVE  /\ Start!Kept(c) \in Versions /\ Known(Start!Kept(c)) /\ lite[c].found \in Versions
           /\ lite[c].preview \in Versions
           /\ ~ crossed =>
                 /\ Start!Drawn(c) => /\ lite[c].found # None /\ Start!Kept(c) # None /\ Start!Kept(c) >= lite[c].found
                                      /\ (data.shown # None => lite[c].found >= data.shown)
                 /\ Start!Kept(c) # None /\ data.shown # None => Start!Kept(c) >= data.shown
                 /\ lite[c].preview # None => lite[c].preview = data.shown
                 /\ \A d \in Readers \ {c} : ~ Live(d)
  <1>1. c \in Start!Callers /\ lite[c] \in LoadRecord /\ cache \in Versions
    BY DEF StartInv, StartTyped, Readers
  <1>2. lite[c].found \in Versions /\ lite[c].preview \in Versions /\ Live(c)
    BY <1>1 DEF LoadRecord, Live
  <1>3. Start!Kept(c) \in {None, cache} \/ (lite[c].at = "answered" /\ Start!Kept(c) = lite[c].found)
    BY DEF Start!Kept
  <1>4. Start!Kept(c) \in Versions /\ Known(Start!Kept(c))
    BY <1>1, <1>2, <1>3 DEF StartInv, NothingAhead, Known, Versions
  <1>5. ASSUME ~ crossed
        PROVE  /\ Start!Drawn(c) => /\ lite[c].found # None /\ Start!Kept(c) # None /\ Start!Kept(c) >= lite[c].found
                                    /\ (data.shown # None => lite[c].found >= data.shown)
               /\ Start!Kept(c) # None /\ data.shown # None => Start!Kept(c) >= data.shown
    BY <1>1, <1>2, <1>3, <1>5 DEF StartInv, OneReader, Versions, Start!Drawn, Start!Kept
  <1> QED BY <1>2, <1>4, <1>5 DEF StartInv, OneReader

\* The load is over: what remains of the invariant when cache and page go on as KeptIs says.
LEMMA EndOfLoad ==
    ASSUME StartInv, NEW c \in Readers, lite[c].at \in {"answered", "fallback", "lost"},
           lite' \in [Start!Callers -> LoadRecord], lite'[c] = Start!NoLoad,
           \A d \in Readers \ {c} : lite'[d] = lite[d],
           cache' = Start!Kept(c), UNCHANGED <<server, crossed>>,
           \/ data'.shown = data.shown
           \/ Start!Drawn(c) /\ data'.shown = lite[c].found
           \/ lite[c].preview # None /\ data'.shown = lite[c].preview
    PROVE  OneReader' /\ Known(cache)' /\ Known(data.shown)'
  <1>1. Known(cache)' /\ cache' \in Versions
    BY KeptIs DEF Known
  <1>2. Known(data.shown)'
    BY DEF StartInv, NothingAhead, Known, Readers
  <1>3. ASSUME ~ crossed'
        PROVE  cache' # None /\ data'.shown # None => cache' >= data'.shown
    BY <1>3, KeptIs
  <1>4. ~ crossed' => \A d \in Readers : ~ Live(d)'
    BY KeptIs, NoLoadTyped DEF Live
  <1>5. \A d \in Readers : lite'[d] = lite[d] \/ lite'[d] = Start!NoLoad
    OBVIOUS
  <1>6. OneReader'
    BY <1>3, <1>4, <1>5, NoLoadTyped DEF StartInv, OneReader
  <1> QED BY <1>1, <1>2, <1>6

\* A load of the start or of the check after a pause has its end.
LEMMA ArriveKeeps == ASSUME StartInv, NEW c \in Start!Callers, Start!Arrive(c) PROVE StartInv'
  <1>1. /\ c \in {"start", "resume"} /\ lite[c].at \in {"answered", "fallback", "lost"}
        /\ cache' = Start!Kept(c) /\ lite' = [lite EXCEPT ![c] = Start!NoLoad]
        /\ UNCHANGED <<server, crossed, late>>
        /\ data' = IF Start!Drawn(c) THEN [data EXCEPT !.shown = lite[c].found, !.essential = TRUE]
                   ELSE IF lite[c].preview # None THEN [Start!Restored(c) EXCEPT !.essential = TRUE] ELSE data
        /\ c # "start" => UNCHANGED <<guard, start, retried>>
        /\ c = "start" => (Start!Entered /\ UNCHANGED retried) \/ Start!StartFails
    BY DEF Start!Arrive
  <1>2. c \in Readers
    BY <1>1 DEF Readers, Start!Callers
  <1>3. lite \in [Start!Callers -> LoadRecord] /\ data \in DataRecord /\ guard \in GuardRecord /\ start \in StartRecord
    BY DEF StartInv, StartTyped
  <1>4. /\ lite' \in [Start!Callers -> LoadRecord] /\ lite'[c] = Start!NoLoad
        /\ \A d \in Start!Callers \ {c} : lite'[d] = lite[d]
    BY <1>1, <1>3, NoLoadTyped
  <1>5. lite[c].found \in Versions /\ lite[c].preview \in Versions
    BY <1>1, <1>2, KeptIs
  <1>6. /\ data' \in DataRecord /\ data'.loading = data.loading /\ data'.loaded = data.loaded
        /\ data'.full = data.full /\ data'.asked = data.asked
        /\ \/ data'.shown = data.shown
           \/ Start!Drawn(c) /\ data'.shown = lite[c].found
           \/ lite[c].preview # None /\ data'.shown = lite[c].preview
    BY <1>1, <1>3, <1>5 DEF DataRecord, Start!Restored
  <1>7. OneReader' /\ Known(cache)' /\ Known(data.shown)'
    BY <1>1, <1>2, <1>4, <1>6, EndOfLoad DEF Readers
  <1>8. cache' \in Versions
    BY <1>1, <1>2, KeptIs
  <1>9. NothingAhead'
    BY <1>1, <1>4, <1>6, <1>7, NoLoadTyped DEF StartInv, NothingAhead, Known
  <1>10. FullAsked'
    BY <1>1, <1>4, <1>6 DEF StartInv, FullAsked, Start!Callers
  <1>11. guard' \in GuardRecord /\ start' \in StartRecord /\ retried' \in BOOLEAN /\ ButtonKept'
    <2>1. CASE c # "start"
      <3>1. UNCHANGED <<guard, start, retried>> /\ lite'["start"] = lite["start"]
        BY <1>1, <1>4, <2>1 DEF Start!Callers
      <3> QED BY <1>3, <3>1 DEF StartInv, StartTyped, ButtonKept
    <2>2. CASE c = "start"
      <3>1. start.at # "over" /\ lite'["start"].at = "idle"
        BY <1>1, <1>4, <2>2, NoLoadTyped DEF StartInv, ButtonKept
      <3>2. CASE Start!Entered /\ UNCHANGED retried
        <4>1. /\ guard' \in GuardRecord /\ start' \in StartRecord /\ start'.at = "over"
              /\ ~ guard'.running /\ guard'.ready
          BY <3>2, EnteredKeeps DEF StartInv
        <4> QED BY <3>1, <3>2, <4>1 DEF StartInv, StartTyped, ButtonKept
      <3>3. CASE Start!StartFails
        <4>1. /\ guard' \in GuardRecord /\ start' \in StartRecord /\ retried' \in BOOLEAN /\ start'.at = "over"
              /\ ~ guard'.running /\ guard'.button = "start" /\ (~ guard'.enabled => retried' \/ guard'.ready)
          BY <3>1, <3>3, StartFailsKeeps DEF StartInv
        <4> QED BY <3>1, <4>1 DEF ButtonKept
      <3> QED BY <1>1, <2>2, <3>2, <3>3
    <2> QED BY <2>1, <2>2
  <1>12. StartTyped'
    BY <1>1, <1>4, <1>6, <1>8, <1>11 DEF StartInv, StartTyped
  <1> QED BY <1>7, <1>9, <1>10, <1>11, <1>12 DEF StartInv

\* A refresh has its end, and asks for the full data again.
LEMMA RefreshArrivesKeeps == ASSUME StartInv, Start!RefreshArrives PROVE StartInv'
  <1> DEFINE old == [data EXCEPT !.shown = lite["refresh"].found, !.essential = TRUE,
                                 !.asked = lite["refresh"].found]
             refreshed == Start!Outdated(old)
             drawn == Start!Drawn("refresh")
             begins == drawn /\ ~ Start!BackgroundBusy(refreshed)
  <1>1. /\ lite["refresh"].at \in {"answered", "fallback", "lost"} /\ cache' = Start!Kept("refresh")
        /\ data' = IF ~ drawn THEN data ELSE [refreshed EXCEPT !.loading = data.loading \/ begins]
        /\ lite' = [lite EXCEPT !["refresh"] = Start!NoLoad,
                                !["full"] = IF begins THEN [Start!NoLoad EXCEPT !.at = "sent"] ELSE @]
        /\ late' = (late \/ (drawn /\ data.loading))
        /\ UNCHANGED <<guard, start, server, retried, crossed>>
    BY DEF Start!RefreshArrives
  <1>2. "refresh" \in Readers /\ "refresh" \in Start!Callers
    BY DEF Readers, Start!Callers
  <1>3. lite \in [Start!Callers -> LoadRecord] /\ data \in DataRecord
    BY DEF StartInv, StartTyped
  <1>4. lite["refresh"].found \in Versions /\ cache' \in Versions
    BY <1>1, <1>2, KeptIs
  <1>5. /\ refreshed \in DataRecord /\ ~ refreshed.loaded /\ refreshed.loading = data.loading
        /\ refreshed.full = data.full /\ refreshed.asked = lite["refresh"].found
        /\ refreshed.shown = lite["refresh"].found
    BY <1>3, <1>4 DEF DataRecord, Start!Outdated
  <1>6. begins = (drawn /\ ~ data.loading)
    BY <1>5 DEF Start!BackgroundBusy
  <1> HIDE DEF refreshed
  <1>7. /\ data' \in DataRecord /\ data'.full = data.full
        /\ ~ drawn => data' = data
        /\ drawn => /\ data'.loading /\ ~ data'.loaded /\ data'.asked = lite["refresh"].found
                    /\ data'.shown = lite["refresh"].found
    BY <1>1, <1>3, <1>5, <1>6 DEF DataRecord
  <1> HIDE DEF begins, drawn
  <1> DEFINE load == [Start!NoLoad EXCEPT !.at = "sent"]
  <1>8. /\ load \in LoadRecord /\ load.at = "sent" /\ load.found = None
        /\ load.preview = None /\ load.cached = None
    BY DEF Start!NoLoad, LoadRecord, Versions
  <1>9. lite' = [lite EXCEPT !["refresh"] = Start!NoLoad, !["full"] = IF begins THEN load ELSE @]
    BY <1>1
  <1> HIDE DEF load
  <1>10. /\ lite' \in [Start!Callers -> LoadRecord] /\ lite'["refresh"] = Start!NoLoad
         /\ lite'["full"] = IF begins THEN load ELSE lite["full"]
         /\ \A d \in Start!Callers \ {"refresh", "full"} : lite'[d] = lite[d]
    BY <1>3, <1>8, <1>9, NoLoadTyped DEF Start!Callers
  <1>11. OneReader' /\ Known(cache)' /\ Known(data.shown)'
    BY <1>1, <1>2, <1>7, <1>10, EndOfLoad DEF Readers, drawn
  <1>12. StartTyped'
    BY <1>1, <1>4, <1>7, <1>10 DEF StartInv, StartTyped
  <1>13. Known(lite["refresh"].found)
    BY <1>2 DEF StartInv, NothingAhead
  <1>14. NothingAhead'
    BY <1>1, <1>7, <1>8, <1>10, <1>11, <1>13, NoLoadTyped DEF StartInv, NothingAhead, Known, Start!Callers
  <1>15. ButtonKept'
    BY <1>1, <1>10 DEF StartInv, ButtonKept, Start!Callers
  <1>16. FullAsked'
    <2>1. CASE drawn
      BY <1>1, <1>6, <1>7, <1>8, <1>10, <2>1 DEF StartInv, StartTyped, FullAsked
    <2>2. CASE ~ drawn
      BY <1>1, <1>6, <1>7, <1>10, <2>2 DEF StartInv, StartTyped, FullAsked
    <2> QED BY <2>1, <2>2
  <1> QED BY <1>11, <1>12, <1>14, <1>15, <1>16 DEF StartInv

\* The full data comes, or does not.
LEMMA FullArrivesKeeps == ASSUME StartInv, Start!FullArrives PROVE StartInv'
  <1>1. /\ lite["full"].at = "answered" /\ lite' = [lite EXCEPT !["full"] = Start!NoLoad]
        /\ \/ data' = [data EXCEPT !.full = lite["full"].found, !.loaded = TRUE, !.loading = FALSE]
           \/ data' = [data EXCEPT !.loading = FALSE]
        /\ UNCHANGED <<guard, start, cache, server, retried, crossed, late>>
    BY DEF Start!FullArrives
  <1>2. lite \in [Start!Callers -> LoadRecord] /\ data \in DataRecord /\ "full" \in Start!Callers
    BY DEF StartInv, StartTyped, Start!Callers
  <1>3. lite["full"].found \in Versions
    BY <1>2 DEF LoadRecord
  <1>4. /\ data' \in DataRecord /\ data'.shown = data.shown /\ data'.asked = data.asked /\ ~ data'.loading
        /\ \/ data'.loaded /\ data'.full = lite["full"].found
           \/ data'.loaded = data.loaded /\ data'.full = data.full
    <2>1. CASE data' = [data EXCEPT !.full = lite["full"].found, !.loaded = TRUE, !.loading = FALSE]
      BY <1>2, <1>3, <2>1 DEF DataRecord
    <2>2. CASE data' = [data EXCEPT !.loading = FALSE]
      BY <1>2, <2>2 DEF DataRecord
    <2> QED BY <1>1, <2>1, <2>2
  <1>5. /\ lite' \in [Start!Callers -> LoadRecord] /\ lite'["full"] = Start!NoLoad
        /\ \A d \in Start!Callers \ {"full"} : lite'[d] = lite[d]
    BY <1>1, <1>2, NoLoadTyped
  <1>6. StartTyped'
    BY <1>1, <1>4, <1>5 DEF StartInv, StartTyped
  <1>7. NothingAhead'
    BY <1>1, <1>2, <1>4, <1>5, NoLoadTyped DEF StartInv, NothingAhead, Known
  <1>8. ButtonKept'
    BY <1>1, <1>5 DEF StartInv, ButtonKept, Start!Callers
  <1>9. FullAsked'
    BY <1>1, <1>4, <1>5, NoLoadTyped DEF StartInv, FullAsked
  <1>10. OneReader'
    BY <1>1, <1>4, <1>5 DEF StartInv, OneReader, Readers, Live
  <1> QED BY <1>6, <1>7, <1>8, <1>9, <1>10 DEF StartInv

\* The data on the server changes.
LEMMA ServerChangeKeeps == ASSUME StartInv, Start!Change PROVE StartInv'
  <1>1. server' = [server EXCEPT !.version = @ + 1]
    BY DEF Start!Change
  <1>2. UNCHANGED <<guard, start, lite, data, cache, retried, crossed, late>>
    BY DEF Start!Change
  <1>3. server \in [version : Nat, broken : SUBSET Nat]
    BY DEF StartInv, StartTyped
  <1>4. server' \in [version : Nat, broken : SUBSET Nat] /\ server'.version = server.version + 1
    BY <1>1, <1>3
  <1>5. StartTyped'
    BY <1>2, <1>4 DEF StartInv, StartTyped
  <1>6. \A v \in Versions : Known(v) => (v # None => v <= server'.version)
    BY <1>3, <1>4 DEF Known, Versions
  <1>7. NothingAhead'
    BY <1>2, <1>6 DEF StartInv, StartTyped, DataRecord, LoadRecord, NothingAhead, Known
  <1> QED BY <1>2, <1>5, <1>7, StartUnchanged DEF StartInv

\* The page starts with nothing.
LEMMA StartInitHolds == ASSUME Start!Init PROVE StartInv
  <1>1. PICK broken \in SUBSET (0 .. MaxVersion), c \in {None, 0} :
            server = [version |-> 0, broken |-> broken] /\ cache = c
    BY DEF Start!Init
  <1>2. /\ guard = [ready |-> FALSE, button |-> "none", enabled |-> TRUE, running |-> FALSE, watchdog |-> TRUE]
        /\ start = [at |-> "auth", try |-> 1] /\ lite = [d \in Start!Callers |-> Start!NoLoad]
        /\ data = [shown |-> None, essential |-> FALSE, full |-> None, loaded |-> FALSE, loading |-> FALSE,
                   asked |-> None, refreshes |-> 0]
        /\ retried = FALSE /\ crossed = FALSE /\ late = FALSE
    BY DEF Start!Init
  <1>3. broken \in SUBSET Nat
    BY <1>1
  <1>4. StartTyped
    <2>1. guard \in GuardRecord
      BY <1>2 DEF GuardRecord, Start!Buttons
    <2>2. start \in StartRecord
      BY <1>2 DEF StartRecord
    <2>3. data \in DataRecord
      BY <1>2 DEF DataRecord, Versions
    <2>4. lite \in [Start!Callers -> LoadRecord]
      BY <1>2, NoLoadTyped
    <2>5. cache \in Versions /\ server \in [version : Nat, broken : SUBSET Nat]
      BY <1>1, <1>3 DEF Versions
    <2> QED BY <1>2, <2>1, <2>2, <2>3, <2>4, <2>5 DEF StartTyped
  <1>5. NothingAhead
    BY <1>1, <1>2, NoLoadTyped DEF NothingAhead, Known
  <1>6. ButtonKept
    BY <1>2, NoLoadTyped DEF ButtonKept, Start!Callers
  <1>7. FullAsked
    BY <1>2, NoLoadTyped DEF FullAsked, Start!Callers
  <1>8. OneReader
    BY <1>2, NoLoadTyped DEF OneReader, Readers, Live
  <1> QED BY <1>4, <1>5, <1>6, <1>7, <1>8 DEF StartInv

\* Every step of the start preserves its invariant.
LEMMA StartStepKeeps == ASSUME StartInv, Start!Next \/ UNCHANGED <<startVars, server>> PROVE StartInv'
  <1>1. CASE UNCHANGED <<startVars, server>>
    <2>1. UNCHANGED <<guard, start, lite, data, cache, server, retried, crossed, late>>
      BY <1>1 DEF startVars
    <2> QED BY <2>1, StartUnchanged DEF StartInv, StartTyped
  <1>2. CASE Start!Next
    <2>1. CASE \E c \in Start!Callers : Start!Serve(c) \/ Start!Lose(c) \/ Start!Arrive(c)
      BY <2>1, ServeKeeps, LoseKeeps, ArriveKeeps
    <2> QED BY <1>2, <2>1, WatchdogKeeps, PressKeeps, CheckSessionKeeps, PreviewKeeps, ResumeKeeps, RefreshKeeps,
               RefreshArrivesKeeps, FullArrivesKeeps, ServerChangeKeeps DEF Start!Next
  <1> QED BY <1>1, <1>2

\* What is drawn does not go back.
LEMMA StartGoesOn == ASSUME StartInv, Start!Next \/ UNCHANGED <<startVars, server>> PROVE Start!Onward
  <1>1. SUFFICES ASSUME data.shown # None, ~ crossed', start'.try = start.try
                 PROVE  data'.shown # None /\ data'.shown >= data.shown
    BY DEF Start!Onward
  <1>2. data \in DataRecord /\ data.shown \in Nat /\ data.shown >= data.shown /\ start \in StartRecord
    BY <1>1 DEF StartInv, StartTyped, DataRecord, Versions
  <1>3. CASE data'.shown = data.shown
    BY <1>1, <1>2, <1>3
  <1>4. ASSUME NEW c \in Readers, lite[c].at \in {"answered", "fallback", "lost"}, UNCHANGED crossed,
               \/ Start!Drawn(c) /\ data'.shown = lite[c].found
               \/ lite[c].preview # None /\ data'.shown = lite[c].preview
        PROVE  data'.shown # None /\ data'.shown >= data.shown
    BY <1>1, <1>2, <1>4, KeptIs
  <1>5. CASE Start!Preview
    <2>1. ~ crossed
      BY <1>1, <1>5 DEF Start!Preview
    <2>2. cache # None => cache >= data.shown
      BY <1>1, <2>1 DEF StartInv, OneReader
    <2>3. data'.shown = data.shown \/ (cache # None /\ data'.shown = cache)
      BY <1>2, <1>5 DEF Start!Preview, DataRecord
    <2> QED BY <1>3, <2>2, <2>3
  <1>6. ASSUME NEW c \in Start!Callers, Start!Arrive(c)
        PROVE  data'.shown # None /\ data'.shown >= data.shown
    <2>1. /\ c \in {"start", "resume"} /\ lite[c].at \in {"answered", "fallback", "lost"} /\ UNCHANGED crossed
          /\ data' = IF Start!Drawn(c) THEN [data EXCEPT !.shown = lite[c].found, !.essential = TRUE]
                     ELSE IF lite[c].preview # None THEN [Start!Restored(c) EXCEPT !.essential = TRUE] ELSE data
      BY <1>6 DEF Start!Arrive
    <2>2. c \in Readers
      BY <2>1 DEF Readers, Start!Callers
    <2>3. \/ data'.shown = data.shown
          \/ Start!Drawn(c) /\ data'.shown = lite[c].found
          \/ lite[c].preview # None /\ data'.shown = lite[c].preview
      BY <1>2, <2>1 DEF DataRecord, Start!Restored
    <2> QED BY <1>3, <1>4, <2>1, <2>2, <2>3
  <1>7. CASE Start!RefreshArrives
    <2>1. lite["refresh"].at \in {"answered", "fallback", "lost"} /\ UNCHANGED crossed /\ "refresh" \in Readers
      BY <1>7 DEF Start!RefreshArrives, Readers, Start!Callers
    <2>2. data'.shown = data.shown \/ (Start!Drawn("refresh") /\ data'.shown = lite["refresh"].found)
      BY <1>2, <1>7 DEF Start!RefreshArrives, Start!Outdated, DataRecord
    <2> QED BY <1>3, <1>4, <2>1, <2>2
  <1>8. CASE Start!Press
    <2>1. start'.try = start.try + 1
      BY <1>8 DEF Start!Press
    <2> QED BY <1>1, <1>2, <2>1 DEF StartRecord
  <1>9. CASE Start!Refresh \/ Start!FullArrives
    <2>1. data'.shown = data.shown
      BY <1>2, <1>9 DEF Start!Refresh, Start!FullArrives, DataRecord
    <2> QED BY <1>3, <2>1
  <1>10. CASE \/ Start!Watchdog \/ Start!CheckSession \/ Start!Resume \/ Start!Change
              \/ \E c \in Start!Callers : Start!Serve(c) \/ Start!Lose(c)
              \/ UNCHANGED <<startVars, server>>
    <2>1. data' = data
      BY <1>10 DEF Start!Watchdog, Start!CheckSession, Start!Resume, Start!Change, Start!Serve, Start!Lose, startVars
    <2> QED BY <1>3, <2>1
  <1> QED BY <1>5, <1>6, <1>7, <1>8, <1>9, <1>10 DEF Start!Next

\* What the invariant says of the two promises.
LEMMA StartPromises == ASSUME StartInv PROVE Start!RefreshIsFull /\ Start!NeverStuck
  BY DEF StartInv, FullAsked, ButtonKept, Start!RefreshIsFull, Start!NeverStuck, Start!Works

-----------------------------------------------------------------------------
(* The loads of a deferred collection: the invariant *)

Origins == {"manual", "automatic"}
PageRecord == [auth : Nat, epoch : Nat, loaded : BOOLEAN, shown : Versions, cached : Versions]
EntryRecord ==
    [at : {"none", "loading", "settled"}, auth : Nat, epoch : Nat, origin : Origins \cup {None},
     budget : Loads \cup {None}, flight : Extra!Entries \cup {None}, applied : BOOLEAN, reported : BOOLEAN,
     result : {None, "ok", "changed", "wait", "error"}, version : Versions]
FlightRecord ==
    [at : {"none", "read", "sent", "pause"}, auth : Nat, epoch : Nat, origin : Origins \cup {None},
     budget : Loads \cup {None}, owned : Extra!Entries \cup {None}, valid : BOOLEAN, cached : Versions]
LoadState == [at : {"idle", "waits", "marks", "done"}, again : BOOLEAN, origin : Origins \cup {None},
              entry : Extra!Entries \cup {None}]
WaitRecord == [by : Extra!Entries, budget : Loads, automatic : BOOLEAN, manual : BOOLEAN]
BudgetRecord == [transient : 0 .. 2, unknown : Nat, link : Loads \cup {None}]

ExtraTyped ==
    /\ server \in Nat /\ page \in PageRecord
    /\ loads \in [Loads -> LoadState]
    /\ entries \in [Extra!Entries -> EntryRecord] /\ latest \in Extra!Entries \cup {None}
    /\ flights \in [Extra!Entries -> FlightRecord]
    /\ budgets \in [Loads -> BudgetRecord] /\ wait \in WaitRecord \cup {None}
    /\ owed \in BOOLEAN /\ muted \in BOOLEAN /\ reminded \in BOOLEAN
    /\ resent \in [Loads -> Nat]

\* What was made under an account and after a save is not of a later one.
Past(x) == x.auth <= page.auth /\ x.epoch <= page.epoch
Loading(e) == entries[e].at = "loading"
UnderWay(f) == flights[f].at # "none"

\* An entry that loads waits for a GET of its context, which an entry of the same name
\* began; of a context there is one GET at a time.
EntrySound(e) ==
    /\ entries[e].at # "none" => /\ Past(entries[e]) /\ entries[e].flight \in Extra!Entries
                                 /\ entries[e].origin \in Origins /\ entries[e].budget \in Loads
                                 /\ entries[entries[e].flight].at # "none"
    /\ Loading(e) => /\ ~ entries[e].applied /\ ~ entries[e].reported
                     /\ UnderWay(entries[e].flight)
                     /\ flights[entries[e].flight].auth = entries[e].auth
                     /\ flights[entries[e].flight].epoch = entries[e].epoch
    /\ UnderWay(e) => /\ Loading(e) /\ entries[e].flight = e
                      /\ flights[e].budget = entries[e].budget /\ flights[e].origin = entries[e].origin
OneFlight ==
    /\ \A e \in Extra!Entries : EntrySound(e)
    /\ \A f, g \in Extra!Entries :
          UnderWay(f) /\ UnderWay(g) /\ Extra!Current(flights[f]) /\ Extra!Current(flights[g]) => f = g

\* A load waits for its entry; each load begins one for itself and one after a save.
LoadSound(l) ==
    /\ loads[l].at = "idle" => entries[<<l, 1>>].at = "none" /\ entries[<<l, 2>>].at = "none"
    /\ ~ loads[l].again => entries[<<l, 2>>].at = "none"
    /\ loads[l].at = "waits" => loads[l].entry \in Extra!Entries /\ entries[loads[l].entry].at # "none"
    /\ loads[l].at = "waits" /\ loads[l].again => loads[l].entry = <<l, 2>>
    /\ loads[l].at # "idle" => loads[l].origin \in Origins
    /\ \A n \in {1, 2} : Loading(<<l, n>>) => loads[l].at = "waits" /\ loads[l].entry = <<l, n>>
Waiters == \A l \in Loads : LoadSound(l)

\* While something of the present context loads, so does the latest entry.
LatestLoads ==
    /\ latest # None => entries[latest].at # "none"
    /\ \A e \in Extra!Entries : Loading(e) /\ Extra!Current(entries[e]) =>
          latest # None /\ Loading(latest) /\ Extra!Current(entries[latest])

\* What the user waits for is what the latest entry brings.
LatestSpeaks ==
    /\ latest # None /\ ~ entries[latest].applied /\ ~ entries[latest].reported
    /\ \E l \in Loads : loads[l].at = "waits" /\ loads[l].entry = latest
    /\ entries[latest].auth = page.auth
    /\ entries[latest].at = "settled" /\ entries[latest].result = "wait" => Extra!Mutes(latest)
Owed ==
    /\ page.loaded /\ page.shown = None => reminded
    /\ owed => page.shown = None
    /\ owed /\ ~ muted /\ ~ reminded => LatestSpeaks

\* The budget that the GET of an entry spends is that of the entry, or linked to it.
Payer(b) == IF budgets[b].link = None THEN b ELSE budgets[b].link
EntryPays(e) ==
    /\ entries[e].at # "none" => loads[entries[e].budget].at # "idle"
    /\ UnderWay(e) /\ Extra!Current(flights[e]) => budgets[flights[e].budget].link = None
    /\ e = latest => budgets[Payer(entries[e].budget)].link = None
    /\ e = latest /\ Loading(e) => flights[entries[e].flight].budget = Payer(entries[e].budget)

\* A load knows of as many re-sends as the budget does that its next request would use.
LoadKnows(l) ==
    /\ resent[l] <= 2 /\ (loads[l].at = "idle" => resent[l] = 0)
    /\ budgets[l].link # None => loads[l].at # "idle" /\ loads[budgets[l].link].at # "idle"
    /\ loads[l].at = "waits" /\ Loading(loads[l].entry)
          /\ (loads[l].again => entries[loads[l].entry].flight = loads[l].entry) =>
             resent[l] <= budgets[flights[entries[loads[l].entry].flight].budget].transient
    /\ loads[l].at = "waits" /\ ~ Loading(loads[l].entry) /\ loads[l].entry = latest /\ ~ loads[l].again =>
          resent[l] <= budgets[Payer(entries[latest].budget)].transient
Budgeted ==
    /\ \A e \in Extra!Entries : EntryPays(e)
    /\ \A l \in Loads : LoadKnows(l)

\* The answers of the present context are not newer than the cache, and the latest one is not
\* older than what is shown.
Cached(f) == flights[f].at \in {"sent", "pause"} /\ Extra!Current(flights[f]) => flights[f].cached = page.cached
Answered(e) ==
    entries[e].at = "settled" /\ Extra!Current(entries[e]) /\ entries[e].result = "ok" =>
       /\ entries[e].version # None /\ page.cached # None /\ entries[e].version <= page.cached
       /\ e = latest /\ page.shown # None => entries[e].version >= page.shown
Fresh ==
    /\ page.shown # None => page.shown <= server
    /\ page.cached # None => page.cached <= server /\ (page.shown # None => page.cached >= page.shown)
    /\ \A e \in Extra!Entries : Cached(e) /\ Answered(e)

ExtraInv == ExtraTyped /\ OneFlight /\ Waiters /\ LatestLoads /\ Owed /\ Budgeted /\ Fresh

-----------------------------------------------------------------------------
(* The loads of a deferred collection: the parts of their steps *)

\* None is none of the values of the loads.
LEMMA NoneIs ==
    /\ None \notin Nat /\ None \notin Loads /\ None \notin Extra!Entries /\ None \notin Origins
    /\ None \notin {"ok", "changed", "wait", "error"}
  BY NoValueAssumption DEF Extra!Entries, Origins

\* The records of an entry and of a GET that have not begun.
LEMMA EmptyRecords ==
    /\ Extra!NoEntry \in EntryRecord /\ Extra!NoEntry.at = "none"
    /\ Extra!NoEntry.applied = FALSE /\ Extra!NoEntry.reported = FALSE
    /\ Extra!NoFlight \in FlightRecord /\ Extra!NoFlight.at = "none"
  BY DEF Extra!NoEntry, Extra!NoFlight, EntryRecord, FlightRecord, Versions

\* portalExtraUsedBudget follows a link of one step.
LEMMA UsedIs ==
    ASSUME NEW b, budgets[Payer(b)].link = None
    PROVE  Extra!UsedBudget(b) = Payer(b)
  <1> DEFINE step(c) == IF budgets[c].link = None \/ budgets[c].link = b THEN c ELSE budgets[c].link
  <1>1. Extra!UsedBudget(b) = step(step(step(b)))
    BY DEF Extra!UsedBudget
  <1>2. step(Payer(b)) = Payer(b)
    OBVIOUS
  <1>3. step(b) = Payer(b)
    BY DEF Payer
  <1> QED BY <1>1, <1>2, <1>3

\* What the end of a GET changes.
LEMMA FinishFields ==
    ASSUME ExtraTyped, NEW f \in Extra!Entries, NEW result \in {"ok", "changed", "wait", "error"},
           NEW version \in Versions, Extra!Finish(f, result, version)
    PROVE  /\ entries' \in [Extra!Entries -> EntryRecord] /\ flights' \in [Extra!Entries -> FlightRecord]
           /\ latest' = latest
           /\ \A e \in Extra!Entries :
                 /\ entries'[e].auth = entries[e].auth /\ entries'[e].epoch = entries[e].epoch
                 /\ entries'[e].origin = entries[e].origin /\ entries'[e].budget = entries[e].budget
                 /\ entries'[e].flight = entries[e].flight
                 /\ entries'[e].applied = entries[e].applied /\ entries'[e].reported = entries[e].reported
                 /\ ~ (Loading(e) /\ entries[e].flight = f) => entries'[e] = entries[e]
                 /\ Loading(e) /\ entries[e].flight = f =>
                       /\ entries'[e].at = "settled"
                       /\ entries'[e].result = IF Extra!Current(flights[f]) THEN result ELSE "changed"
                       /\ entries'[e].version = IF Extra!Current(flights[f]) THEN version ELSE None
           /\ flights'[f].at = "none"
           /\ \A g \in Extra!Entries : g # f => flights'[g] = flights[g]
  <1>1. entries \in [Extra!Entries -> EntryRecord] /\ flights \in [Extra!Entries -> FlightRecord]
    BY DEF ExtraTyped
  <1> DEFINE r == IF Extra!Current(flights[f]) THEN result ELSE "changed"
             v == IF Extra!Current(flights[f]) THEN version ELSE None
  <1>2. r \in {"ok", "changed", "wait", "error"} /\ v \in Versions
    BY DEF Versions
  <1>3. /\ flights' = [flights EXCEPT ![f] = Extra!NoFlight]
        /\ entries' = [e \in Extra!Entries |-> IF Loading(e) /\ entries[e].flight = f
                           THEN [entries[e] EXCEPT !.at = "settled", !.result = r, !.version = v] ELSE entries[e]]
        /\ latest' = latest
    BY DEF Extra!Finish, Loading
  <1> HIDE DEF r, v
  <1>4. ASSUME NEW e \in Extra!Entries
        PROVE  /\ entries'[e] \in EntryRecord
               /\ entries'[e].auth = entries[e].auth /\ entries'[e].epoch = entries[e].epoch
               /\ entries'[e].origin = entries[e].origin /\ entries'[e].budget = entries[e].budget
               /\ entries'[e].flight = entries[e].flight
               /\ entries'[e].applied = entries[e].applied /\ entries'[e].reported = entries[e].reported
               /\ ~ (Loading(e) /\ entries[e].flight = f) => entries'[e] = entries[e]
               /\ Loading(e) /\ entries[e].flight = f =>
                     entries'[e].at = "settled" /\ entries'[e].result = r /\ entries'[e].version = v
    <2>1. CASE Loading(e) /\ entries[e].flight = f
      <3>1. entries'[e] = [entries[e] EXCEPT !.at = "settled", !.result = r, !.version = v]
        BY <1>3, <2>1
      <3>2. entries[e] \in EntryRecord
        BY <1>1
      <3> QED BY <1>2, <2>1, <3>1, <3>2 DEF EntryRecord
    <2>2. CASE ~ (Loading(e) /\ entries[e].flight = f)
      <3>1. entries'[e] = entries[e]
        BY <1>3, <2>2
      <3> QED BY <1>1, <2>2, <3>1
    <2> QED BY <2>1, <2>2
  <1>5. entries' \in [Extra!Entries -> EntryRecord]
    <2>1. entries' = [e \in Extra!Entries |-> entries'[e]]
      BY <1>3
    <2> QED BY <1>4, <2>1
  <1>6. /\ flights' \in [Extra!Entries -> FlightRecord] /\ flights'[f].at = "none"
        /\ \A g \in Extra!Entries : g # f => flights'[g] = flights[g]
    BY <1>1, <1>3, EmptyRecords
  <1> QED BY <1>3, <1>4, <1>5, <1>6 DEF r, v

\* A GET that ends: the loads that wait for its entries may go on.
LEMMA FinishKeeps ==
    ASSUME ExtraInv, NEW f \in Extra!Entries, UnderWay(f), NEW result \in {"ok", "changed", "wait", "error"},
           NEW version \in Versions, Extra!Finish(f, result, version),
           UNCHANGED <<loads, budgets, resent>>, page'.auth = page.auth, page'.epoch = page.epoch
    PROVE  OneFlight' /\ Waiters' /\ LatestLoads' /\ Budgeted'
  <1>1. ExtraTyped /\ OneFlight /\ Waiters /\ LatestLoads /\ Budgeted
    BY DEF ExtraInv
  <1>2. /\ latest' = latest
        /\ \A e \in Extra!Entries :
              /\ entries'[e].auth = entries[e].auth /\ entries'[e].epoch = entries[e].epoch
              /\ entries'[e].origin = entries[e].origin /\ entries'[e].budget = entries[e].budget
              /\ entries'[e].flight = entries[e].flight
              /\ entries'[e].applied = entries[e].applied /\ entries'[e].reported = entries[e].reported
              /\ ~ (Loading(e) /\ entries[e].flight = f) => entries'[e] = entries[e]
              /\ Loading(e) /\ entries[e].flight = f => entries'[e].at = "settled"
        /\ flights'[f].at = "none"
        /\ \A g \in Extra!Entries : g # f => flights'[g] = flights[g]
    BY <1>1, FinishFields
  <1>3. /\ \A e \in Extra!Entries : /\ Loading(e)' => Loading(e) /\ entries[e].flight # f
                                    /\ Loading(e) /\ entries[e].flight # f => Loading(e)'
                                    /\ entries'[e].at # "none" <=> entries[e].at # "none"
                                    /\ UnderWay(e)' => UnderWay(e) /\ e # f
                                    /\ UnderWay(e) /\ e # f => UnderWay(e)'
    BY <1>2 DEF Loading, UnderWay
  <1>4. /\ \A e \in Extra!Entries : Extra!Current(entries[e])' <=> Extra!Current(entries[e])
        /\ \A e \in Extra!Entries : Past(entries[e])' <=> Past(entries[e])
        /\ \A e \in Extra!Entries \ {f} : Extra!Current(flights[e])' <=> Extra!Current(flights[e])
    BY <1>2 DEF Extra!Current, Past
  <1>5. OneFlight'
    <2>1. ASSUME NEW e \in Extra!Entries
          PROVE  EntrySound(e)'
      <3>1. EntrySound(e)
        BY <1>1 DEF OneFlight
      <3>2. Loading(e) => entries[e].at # "none"
        BY DEF Loading
      <3>3. entries[e].at # "none" => entries[e].flight \in Extra!Entries
        BY <3>1 DEF EntrySound
      <3>4. Loading(e)' => UnderWay(entries[e].flight)' /\ flights'[entries[e].flight] = flights[entries[e].flight]
        <4>1. Loading(e)' => UnderWay(entries[e].flight) /\ entries[e].flight # f
          BY <1>3, <3>1 DEF EntrySound
        <4> QED BY <1>2, <1>3, <3>2, <3>3, <4>1 DEF UnderWay
      <3>5. UnderWay(e)' => Loading(e)' /\ flights'[e] = flights[e]
        BY <1>2, <1>3, <3>1 DEF EntrySound
      <3> QED BY <1>2, <1>3, <1>4, <3>1, <3>2, <3>3, <3>4, <3>5 DEF EntrySound
    <2>2. ASSUME NEW g \in Extra!Entries, NEW h \in Extra!Entries, UnderWay(g)', UnderWay(h)',
                 Extra!Current(flights[g])', Extra!Current(flights[h])'
          PROVE  g = h
      BY <1>1, <1>3, <1>4, <2>2 DEF OneFlight
    <2> QED BY <2>1, <2>2 DEF OneFlight
  <1>6. Waiters'
    <2>1. ASSUME NEW l \in Loads PROVE LoadSound(l)'
      BY <1>1, <1>2, <1>3, <2>1 DEF Waiters, LoadSound, Extra!Entries
    <2> QED BY <2>1 DEF Waiters
  <1>7. LatestLoads'
    <2>1. latest # None => latest \in Extra!Entries /\ entries'[latest].at # "none"
      BY <1>1, <1>3 DEF LatestLoads, ExtraTyped
    <2>2. ASSUME NEW e \in Extra!Entries, Loading(e)', Extra!Current(entries[e])'
          PROVE  latest # None /\ Loading(latest)' /\ Extra!Current(entries[latest])'
      <3>1. Loading(e) /\ entries[e].flight # f /\ Extra!Current(entries[e])
        BY <1>3, <1>4, <2>2
      <3>2. latest \in Extra!Entries /\ latest # None /\ Loading(latest) /\ Extra!Current(entries[latest])
        BY <1>1, <3>1 DEF LatestLoads, ExtraTyped
      <3>3. ASSUME NEW d \in {e, latest}
            PROVE  entries[d].flight \in Extra!Entries /\ UnderWay(entries[d].flight)
                   /\ Extra!Current(flights[entries[d].flight])
        BY <1>1, <3>1, <3>2 DEF OneFlight, EntrySound, Loading, Extra!Current
      <3>4. entries[latest].flight = entries[e].flight
        BY <1>1, <3>3 DEF OneFlight
      <3>5. Loading(latest)' /\ Extra!Current(entries[latest])'
        <4>1. entries[latest].flight # f
          BY <3>1, <3>4
        <4>2. entries'[latest] = entries[latest]
          BY <1>2, <3>2, <4>1
        <4> QED BY <1>2, <1>4, <3>2, <4>2 DEF Loading
      <3> QED BY <3>2, <3>5
    <2> QED BY <1>2, <2>1, <2>2 DEF LatestLoads
  <1>8. ASSUME NEW e \in Extra!Entries
        PROVE  EntryPays(e)'
    <2>1. EntryPays(e) /\ EntrySound(e)
      BY <1>1 DEF Budgeted, OneFlight
    <2>2. UnderWay(e)' => flights'[e] = flights[e]
      BY <1>2, <1>3
    <2>3. Loading(e)' => entries[e].flight \in Extra!Entries /\ flights'[entries[e].flight] = flights[entries[e].flight]
      BY <1>2, <1>3, <2>1 DEF EntrySound, Loading
    <2> QED BY <1>2, <1>3, <1>4, <2>1, <2>2, <2>3 DEF EntryPays, Payer
  <1>9. ASSUME NEW l \in Loads
        PROVE  LoadKnows(l)'
    <2>1. LoadKnows(l)
      BY <1>1 DEF Budgeted
    <2>2. CASE loads[l].at # "waits"
      BY <2>1, <2>2 DEF LoadKnows
    <2>3. CASE loads[l].at = "waits"
      <3> DEFINE e == loads[l].entry
      <3>1. e \in Extra!Entries
        BY <1>1, <2>3 DEF Waiters, LoadSound
      <3>2. EntryPays(e) /\ EntrySound(e)
        BY <1>1, <3>1 DEF Budgeted, OneFlight
      <3>3. Loading(e)' => /\ Loading(e) /\ entries'[e] = entries[e]
                           /\ flights'[entries[e].flight] = flights[entries[e].flight]
        BY <1>2, <1>3, <3>1, <3>2 DEF EntrySound, Loading
      <3>4. Loading(e)' /\ (loads[l].again => entries'[e].flight = e) =>
                resent[l] <= budgets[flights'[entries'[e].flight].budget].transient
        BY <2>1, <2>3, <3>3 DEF LoadKnows
      <3>5. ~ Loading(e)' /\ e = latest /\ ~ loads[l].again
              => resent[l] <= budgets[Payer(entries[latest].budget)].transient
        BY <1>3, <2>1, <2>3, <3>1, <3>2 DEF LoadKnows, EntryPays
      <3>6. e = latest => entries'[latest].budget = entries[latest].budget
        BY <1>2, <3>1
      <3> QED BY <1>2, <2>1, <2>3, <3>4, <3>5, <3>6 DEF LoadKnows, Payer
    <2> QED BY <2>2, <2>3
  <1> QED BY <1>5, <1>6, <1>7, <1>8, <1>9 DEF Budgeted

\* The GETs and the context of the page go on; entries, loads and budgets stay as they are.
LEMMA ContextKeeps ==
    ASSUME ExtraInv, UNCHANGED <<loads, entries, latest>>, page' \in PageRecord,
           page'.auth >= page.auth, page'.epoch >= page.epoch,
           \A f \in Extra!Entries :
              /\ flights'[f].at = "none" <=> flights[f].at = "none"
              /\ flights'[f].auth = flights[f].auth /\ flights'[f].epoch = flights[f].epoch
              /\ flights'[f].budget = flights[f].budget /\ flights'[f].origin = flights[f].origin
    PROVE  /\ OneFlight' /\ Waiters' /\ LatestLoads'
           /\ \A e \in Extra!Entries : Extra!Current(entries[e])' /\ entries[e].at # "none" => Extra!Current(entries[e])
           /\ \A f \in Extra!Entries : Extra!Current(flights[f])' /\ UnderWay(f) => Extra!Current(flights[f])
           /\ UNCHANGED <<budgets, resent>> => Budgeted'
  <1>1. ExtraTyped /\ OneFlight /\ Waiters /\ LatestLoads /\ Budgeted
    BY DEF ExtraInv
  <1>2. page \in PageRecord /\ entries \in [Extra!Entries -> EntryRecord] /\ flights \in [Extra!Entries -> FlightRecord]
    BY <1>1 DEF ExtraTyped
  <1>3. /\ page.auth \in Nat /\ page.epoch \in Nat /\ page'.auth \in Nat /\ page'.epoch \in Nat
        /\ \A e \in Extra!Entries : entries[e].auth \in Nat /\ entries[e].epoch \in Nat
    BY <1>2 DEF PageRecord, EntryRecord
  <1>4. ASSUME NEW e \in Extra!Entries, entries[e].at # "none"
        PROVE  /\ Past(entries[e])'
               /\ Extra!Current(entries[e])'
                  => Extra!Current(entries[e]) /\ page'.auth = page.auth /\ page'.epoch = page.epoch
    <2>1. Past(entries[e])
      BY <1>1, <1>4 DEF OneFlight, EntrySound
    <2> QED BY <1>3, <1>4, <2>1 DEF Past, Extra!Current
  <1>5. ASSUME NEW f \in Extra!Entries, UnderWay(f)
        PROVE  /\ Extra!Current(flights[f]) <=> Extra!Current(entries[f])
               /\ Extra!Current(flights[f])' <=> Extra!Current(entries[f])'
               /\ entries[f].at # "none"
    <2>1. EntrySound(f)
      BY <1>1 DEF OneFlight
    <2>2. flights[f].auth = entries[f].auth /\ flights[f].epoch = entries[f].epoch /\ entries[f].at # "none"
      BY <1>5, <2>1 DEF EntrySound, Loading
    <2> QED BY <2>2 DEF Extra!Current
  <1>6. \A f \in Extra!Entries : UnderWay(f)' <=> UnderWay(f)
    BY DEF UnderWay
  <1>7. \A f \in Extra!Entries : Extra!Current(flights[f])' /\ UnderWay(f) => Extra!Current(flights[f])
    BY <1>4, <1>5
  <1>8. OneFlight'
    <2>1. ASSUME NEW e \in Extra!Entries
          PROVE  EntrySound(e)'
      <3>1. EntrySound(e)
        BY <1>1 DEF OneFlight
      <3>2. Loading(e) => entries[e].at # "none"
        BY DEF Loading
      <3>3. entries[e].at # "none" => entries[e].flight \in Extra!Entries
        BY <3>1 DEF EntrySound
      <3>4. Loading(e)' <=> Loading(e)
        BY DEF Loading
      <3>5. entries[e].at # "none" => (UnderWay(entries[e].flight)' <=> UnderWay(entries[e].flight))
        BY <1>6, <3>3 DEF UnderWay
      <3> QED BY <1>4, <1>6, <3>1, <3>2, <3>3, <3>4, <3>5 DEF EntrySound
    <2>2. ASSUME NEW g \in Extra!Entries, NEW h \in Extra!Entries, UnderWay(g)', UnderWay(h)',
                 Extra!Current(flights[g])', Extra!Current(flights[h])'
          PROVE  g = h
      BY <1>1, <1>6, <1>7, <2>2 DEF OneFlight
    <2> QED BY <2>1, <2>2 DEF OneFlight
  <1>9. Waiters'
    BY <1>1 DEF Waiters, LoadSound, Loading
  <1>10. LatestLoads'
    <2>1. ASSUME NEW e \in Extra!Entries, Loading(e)', Extra!Current(entries[e])'
          PROVE  latest # None /\ Loading(latest)' /\ Extra!Current(entries[latest])'
      <3>1. Loading(e) /\ Extra!Current(entries[e]) /\ page'.auth = page.auth /\ page'.epoch = page.epoch
        BY <1>4, <2>1 DEF Loading
      <3>2. latest # None /\ Loading(latest) /\ Extra!Current(entries[latest])
        BY <1>1, <3>1 DEF LatestLoads
      <3> QED BY <3>1, <3>2 DEF Loading, Extra!Current
    <2> QED BY <1>1, <2>1 DEF LatestLoads
  <1>11. ASSUME UNCHANGED <<budgets, resent>>
         PROVE  Budgeted'
    <2>1. ASSUME NEW e \in Extra!Entries PROVE EntryPays(e)'
      <3>1. EntryPays(e) /\ EntrySound(e)
        BY <1>1 DEF Budgeted, OneFlight
      <3>2. Loading(e)' => Loading(e) /\ flights'[entries[e].flight].budget = flights[entries[e].flight].budget
        BY <3>1 DEF Loading, EntrySound
      <3> QED BY <1>6, <1>7, <1>11, <3>1, <3>2 DEF EntryPays, Payer
    <2>2. ASSUME NEW l \in Loads PROVE LoadKnows(l)'
      <3>1. LoadKnows(l)
        BY <1>1 DEF Budgeted
      <3>2. loads[l].at = "waits" /\ Loading(loads[l].entry) =>
                flights'[entries[loads[l].entry].flight].budget = flights[entries[loads[l].entry].flight].budget
        <4>1. loads[l].at = "waits" => loads[l].entry \in Extra!Entries /\ EntrySound(loads[l].entry)
          BY <1>1 DEF Waiters, LoadSound, OneFlight
        <4> QED BY <4>1 DEF EntrySound, Loading
      <3> QED BY <1>11, <3>1, <3>2 DEF LoadKnows, Payer, Loading
    <2> QED BY <2>1, <2>2 DEF Budgeted
  <1>12. ASSUME NEW e \in Extra!Entries, Extra!Current(entries[e])', entries[e].at # "none"
         PROVE  Extra!Current(entries[e])
    BY <1>4, <1>12
  <1> QED BY <1>7, <1>8, <1>9, <1>10, <1>11, <1>12

\* One more re-send of the budget b.
OneMore(b) ==
    /\ budgets' \in [Loads -> BudgetRecord]
    /\ budgets'[b].transient = budgets[b].transient + 1
    /\ \A c \in Loads : budgets'[c].link = budgets[c].link /\ budgets'[c].transient >= budgets[c].transient
\* The budget of a re-send, field by field.
LEMMA OneMoreSpent ==
    ASSUME budgets \in [Loads -> BudgetRecord], NEW b \in Loads, NEW unknown \in Nat, budgets[b].transient < 2,
           budgets' = [budgets EXCEPT ![b] = [budgets[b] EXCEPT !.transient = @ + 1, !.unknown = unknown]]
    PROVE  OneMore(b)
  <1>1. ASSUME NEW c \in Loads
        PROVE  /\ budgets'[c] \in BudgetRecord /\ budgets'[c].link = budgets[c].link
               /\ budgets'[c].transient >= budgets[c].transient
               /\ c = b => budgets'[c].transient = budgets[c].transient + 1
    <2>1. budgets[c] \in BudgetRecord
      OBVIOUS
    <2>2. budgets[c].transient \in 0 .. 2
      BY <2>1 DEF BudgetRecord
    <2>3. CASE c = b
      <3> DEFINE r == budgets[b]
      <3>1. budgets'[c] = [r EXCEPT !.transient = r.transient + 1, !.unknown = unknown]
        BY <2>3
      <3>2. r \in BudgetRecord /\ r.transient + 1 \in 0 .. 2
        BY <2>1, <2>2, <2>3
      <3> HIDE DEF r
      <3>3. [r EXCEPT !.transient = r.transient + 1, !.unknown = unknown] \in BudgetRecord
        BY <3>2 DEF BudgetRecord
      <3>4. budgets'[c].link = r.link /\ budgets'[c].transient = r.transient + 1
        BY <3>1, <3>2 DEF BudgetRecord
      <3> QED BY <2>2, <2>3, <3>1, <3>3, <3>4 DEF r
    <2>4. CASE c # b
      BY <2>1, <2>2, <2>4
    <2> QED BY <2>3, <2>4
  <1>2. budgets' = [c \in Loads |-> budgets'[c]]
    OBVIOUS
  <1> QED BY <1>1, <1>2 DEF OneMore

\* A request sent again: the loads that wait for it know of one more, as does the budget.
LEMMA ResendKeeps ==
    ASSUME ExtraInv, NEW f \in Extra!Entries, UnderWay(f), NEW b \in Loads, b = flights[f].budget,
           budgets[b].transient < 2, OneMore(b),
           UNCHANGED <<loads, entries, latest, page>>,
           resent' = [l \in Loads |-> IF l \in Extra!Waiting(f) THEN resent[l] + 1 ELSE resent[l]],
           \A g \in Extra!Entries :
              /\ flights'[g].at = "none" <=> flights[g].at = "none"
              /\ flights'[g].auth = flights[g].auth /\ flights'[g].epoch = flights[g].epoch
              /\ flights'[g].budget = flights[g].budget /\ flights'[g].origin = flights[g].origin
    PROVE  OneFlight' /\ Waiters' /\ LatestLoads' /\ Budgeted' /\ resent' \in [Loads -> Nat]
  <1>1. ExtraTyped /\ OneFlight /\ Waiters /\ LatestLoads /\ Budgeted
    BY DEF ExtraInv
  <1>2. page \in PageRecord /\ page.auth \in Nat /\ page.epoch \in Nat
    BY <1>1 DEF ExtraTyped, PageRecord
  <1>3. OneFlight' /\ Waiters' /\ LatestLoads'
    <2>1. page' \in PageRecord /\ page'.auth >= page.auth /\ page'.epoch >= page.epoch
      BY <1>2
    <2> QED BY <2>1, ContextKeeps
  <1>5. budgets \in [Loads -> BudgetRecord] /\ resent \in [Loads -> Nat]
    BY <1>1 DEF ExtraTyped
  <1>6. /\ budgets' \in [Loads -> BudgetRecord]
        /\ budgets'[b].transient = budgets[b].transient + 1
        /\ \A c \in Loads : budgets'[c].link = budgets[c].link /\ budgets'[c].transient >= budgets[c].transient
    BY DEF OneMore
  <1>7. resent' \in [Loads -> Nat]
    BY <1>5
  <1>8. ASSUME NEW e \in Extra!Entries PROVE EntryPays(e)'
    <2>1. EntryPays(e) /\ EntrySound(e)
      BY <1>1 DEF Budgeted, OneFlight
    <2>2. UnderWay(e)' => UnderWay(e) /\ flights[e].budget \in Loads
      BY <1>1 DEF OneFlight, EntrySound, UnderWay, Loading
    <2>3. Extra!Current(flights[e])' <=> Extra!Current(flights[e])
      BY DEF Extra!Current
    <2>4. Loading(e)' => Loading(e) /\ flights'[entries[e].flight].budget = flights[entries[e].flight].budget
      BY <2>1 DEF Loading, EntrySound
    <2>5. e = latest => entries[e].budget \in Loads /\ Payer(entries[e].budget)' = Payer(entries[e].budget)
                        /\ Payer(entries[e].budget) \in Loads
      <3>1. e = latest => entries[e].at # "none" /\ entries[e].budget \in Loads
        BY <1>1, <2>1, NoneIs DEF LatestLoads, EntrySound
      <3>2. e = latest => budgets[entries[e].budget].link \in Loads \cup {None}
        BY <1>5, <3>1 DEF BudgetRecord
      <3> QED BY <1>6, <3>1, <3>2 DEF Payer
    <2> QED BY <1>6, <2>1, <2>2, <2>3, <2>4, <2>5 DEF EntryPays
  <1>9. ASSUME NEW l \in Loads PROVE LoadKnows(l)'
    <2>1. LoadKnows(l) /\ LoadSound(l) /\ resent[l] \in Nat
      BY <1>1, <1>5 DEF Budgeted, Waiters
    <2>2. \A c \in Loads : budgets[c].transient \in Nat /\ budgets'[c].transient \in Nat
      <3>1. \A c \in Loads : budgets[c] \in BudgetRecord /\ budgets'[c] \in BudgetRecord
        BY <1>5, <1>6
      <3> QED BY <3>1 DEF BudgetRecord
    <2>3. l \in Extra!Waiting(f) => resent[l] <= budgets[b].transient
      BY <2>1 DEF Extra!Waiting, LoadKnows, Loading
    <2>4. resent'[l] = IF l \in Extra!Waiting(f) THEN resent[l] + 1 ELSE resent[l]
      OBVIOUS
    <2>5. resent'[l] <= 2 /\ (loads[l].at = "idle" => resent'[l] = 0)
      <3>1. loads[l].at = "idle" => l \notin Extra!Waiting(f)
        BY DEF Extra!Waiting
      <3>2. resent[l] <= 2
        BY <2>1 DEF LoadKnows
      <3> QED BY <2>1, <2>2, <2>3, <2>4, <3>1, <3>2 DEF LoadKnows
    <2>6. budgets'[l].link # None => loads[l].at # "idle" /\ loads[budgets'[l].link].at # "idle"
      BY <1>6, <2>1 DEF LoadKnows
    <2>7. ASSUME loads[l].at = "waits", Loading(loads[l].entry),
                 loads[l].again => entries[loads[l].entry].flight = loads[l].entry
          PROVE  resent'[l] <= budgets'[flights[entries[loads[l].entry].flight].budget].transient
      <3> DEFINE e == loads[l].entry
                 g == entries[e].flight
      <3>1. e \in Extra!Entries /\ EntrySound(e)
        BY <1>1, <2>1, <2>7 DEF LoadSound, OneFlight
      <3>2. g \in Extra!Entries /\ flights[g].budget \in Loads
        <4>1. g \in Extra!Entries /\ UnderWay(g)
          BY <2>7, <3>1 DEF EntrySound, Loading
        <4>2. EntrySound(g)
          BY <1>1, <4>1 DEF OneFlight
        <4> QED BY <4>1, <4>2 DEF EntrySound, Loading
      <3>3. resent[l] <= budgets[flights[g].budget].transient
        BY <2>1, <2>7 DEF LoadKnows
      <3>4. CASE l \in Extra!Waiting(f)
        <4>1. g = f
          BY <3>4 DEF Extra!Waiting
        <4> QED BY <1>6, <2>1, <2>2, <2>3, <2>4, <3>4, <4>1
      <3>5. CASE l \notin Extra!Waiting(f)
        <4>1. budgets'[flights[g].budget].transient >= budgets[flights[g].budget].transient
          BY <1>6, <3>2
        <4>2. resent'[l] = resent[l]
          BY <2>4, <3>5
        <4> DEFINE old == budgets[flights[g].budget].transient
                   new == budgets'[flights[g].budget].transient
        <4>3. old \in Nat /\ new \in Nat /\ resent[l] <= old /\ old <= new
          BY <2>2, <3>2, <3>3, <4>1
        <4> HIDE DEF old, new
        <4>4. resent'[l] <= new
          BY <2>1, <4>2, <4>3
        <4> QED BY <4>4 DEF new
      <3> QED BY <3>4, <3>5
    <2>8. ASSUME loads[l].at = "waits", ~ Loading(loads[l].entry), loads[l].entry = latest, ~ loads[l].again
          PROVE  resent'[l] <= budgets'[Payer(entries[latest].budget)'].transient
      <3>1. latest \in Extra!Entries /\ entries[latest].budget \in Loads
        BY <1>1, <2>1, <2>8 DEF LoadSound, OneFlight, EntrySound
      <3>2. budgets[entries[latest].budget].link \in Loads \cup {None}
        BY <1>5, <3>1 DEF BudgetRecord
      <3>3. Payer(entries[latest].budget)' = Payer(entries[latest].budget) /\ Payer(entries[latest].budget) \in Loads
        BY <1>6, <3>1, <3>2 DEF Payer
      <3>4. l \notin Extra!Waiting(f)
        BY <2>8 DEF Extra!Waiting, Loading
      <3> QED BY <1>6, <2>1, <2>2, <2>4, <2>8, <3>3, <3>4 DEF LoadKnows
    <2>9. loads[l].at = "waits" /\ Loading(loads[l].entry) =>
              flights'[entries[loads[l].entry].flight].budget = flights[entries[loads[l].entry].flight].budget
      <3>1. loads[l].at = "waits" => loads[l].entry \in Extra!Entries /\ EntrySound(loads[l].entry)
        BY <1>1, <2>1 DEF LoadSound, OneFlight
      <3> QED BY <3>1 DEF EntrySound, Loading
    <2>10. Loading(loads[l].entry)' <=> Loading(loads[l].entry)
      BY DEF Loading
    <2> QED BY <2>5, <2>6, <2>7, <2>8, <2>9, <2>10 DEF LoadKnows
  <1> QED BY <1>3, <1>7, <1>8, <1>9 DEF Budgeted

\* A load that ends, or whose reminder is over: its entry is settled, and only such an entry
\* is marked as applied or reported.
LEMMA LoadEndKeeps ==
    ASSUME ExtraInv, NEW l \in Loads, NEW at \in {"marks", "done"}, loads' = [loads EXCEPT ![l].at = at],
           loads[l].at # "idle", loads[l].at = "waits" => ~ Loading(loads[l].entry),
           UNCHANGED <<flights, budgets, latest, resent>>, page'.auth = page.auth, page'.epoch = page.epoch,
           \A e \in Extra!Entries :
              /\ entries'[e].at = entries[e].at /\ entries'[e].auth = entries[e].auth
              /\ entries'[e].epoch = entries[e].epoch /\ entries'[e].origin = entries[e].origin
              /\ entries'[e].budget = entries[e].budget /\ entries'[e].flight = entries[e].flight
              /\ Loading(e) => entries'[e] = entries[e]
    PROVE  OneFlight' /\ Waiters' /\ LatestLoads' /\ Budgeted' /\ loads' \in [Loads -> LoadState]
  <1>1. ExtraTyped /\ OneFlight /\ Waiters /\ LatestLoads /\ Budgeted
    BY DEF ExtraInv
  <1>2. loads \in [Loads -> LoadState]
    BY <1>1 DEF ExtraTyped
  <1>3. /\ loads'[l].at = at /\ loads'[l].again = loads[l].again
        /\ loads'[l].origin = loads[l].origin /\ loads'[l].entry = loads[l].entry
        /\ \A k \in Loads : k # l => loads'[k] = loads[k]
        /\ loads' \in [Loads -> LoadState]
    BY <1>2 DEF LoadState
  <1>4. /\ \A k \in Loads : loads'[k].at # "idle" <=> loads[k].at # "idle"
        /\ \A k \in Loads : loads'[k].at = "waits" => k # l
    BY <1>3
  <1>5. /\ \A e \in Extra!Entries : Loading(e)' <=> Loading(e)
        /\ \A e \in Extra!Entries : UnderWay(e)' <=> UnderWay(e)
        /\ \A e \in Extra!Entries : Past(entries[e])' <=> Past(entries[e])
        /\ \A e \in Extra!Entries : Extra!Current(entries[e])' <=> Extra!Current(entries[e])
        /\ \A e \in Extra!Entries : Extra!Current(flights[e])' <=> Extra!Current(flights[e])
    BY DEF Loading, UnderWay, Past, Extra!Current
  <1>6. OneFlight'
    <2>1. ASSUME NEW e \in Extra!Entries
          PROVE  EntrySound(e)'
      <3>1. EntrySound(e)
        BY <1>1 DEF OneFlight
      <3>2. entries[e].at # "none" => entries[e].flight \in Extra!Entries
        BY <3>1 DEF EntrySound
      <3>3. Loading(e) => entries[e].at # "none"
        BY DEF Loading
      <3>4. Loading(e)' => UnderWay(entries[e].flight)'
        BY <1>5, <3>1, <3>2, <3>3 DEF EntrySound
      <3> QED BY <1>5, <3>1, <3>2, <3>3, <3>4 DEF EntrySound
    <2>2. ASSUME NEW g \in Extra!Entries, NEW h \in Extra!Entries, UnderWay(g)', UnderWay(h)',
                 Extra!Current(flights[g])', Extra!Current(flights[h])'
          PROVE  g = h
      BY <1>1, <1>5, <2>2 DEF OneFlight
    <2> QED BY <2>1, <2>2 DEF OneFlight
  <1>7. ASSUME NEW k \in Loads PROVE LoadSound(k)'
    <2>1. LoadSound(k)
      BY <1>1 DEF Waiters
    <2>2. \A n \in {1, 2} : <<k, n>> \in Extra!Entries
      BY DEF Extra!Entries
    <2>3. CASE k = l
      <3>1. \A n \in {1, 2} : ~ Loading(<<l, n>>)'
        BY <1>5, <2>1, <2>2, <2>3 DEF LoadSound
      <3> QED BY <1>3, <1>4, <2>1, <2>2, <2>3, <3>1 DEF LoadSound
    <2>4. CASE k # l
      BY <1>3, <1>5, <2>1, <2>2, <2>4 DEF LoadSound
    <2> QED BY <2>3, <2>4
  <1>8. LatestLoads'
    <2>1. latest # None => latest \in Extra!Entries /\ entries'[latest].at # "none"
      BY <1>1 DEF LatestLoads, ExtraTyped
    <2>2. ASSUME NEW e \in Extra!Entries, Loading(e)', Extra!Current(entries[e])'
          PROVE  latest # None /\ Loading(latest)' /\ Extra!Current(entries[latest])'
      <3>1. latest # None /\ Loading(latest) /\ Extra!Current(entries[latest])
        BY <1>1, <1>5, <2>2 DEF LatestLoads
      <3>2. entries'[latest] = entries[latest]
        BY <2>1, <3>1
      <3> QED BY <3>1, <3>2 DEF Loading, Extra!Current
    <2> QED BY <2>1, <2>2 DEF LatestLoads
  <1>9. ASSUME NEW e \in Extra!Entries PROVE EntryPays(e)'
    <2>1. EntryPays(e) /\ EntrySound(e)
      BY <1>1 DEF Budgeted, OneFlight
    <2>2. entries[e].at # "none" => loads'[entries[e].budget].at # "idle"
      BY <1>4, <2>1 DEF EntryPays, EntrySound
    <2> QED BY <1>5, <2>1, <2>2 DEF EntryPays, Payer
  <1>10. ASSUME NEW k \in Loads PROVE LoadKnows(k)'
    <2>1. LoadKnows(k)
      BY <1>1 DEF Budgeted
    <2>2. budgets[k].link \in Loads \cup {None}
      BY <1>1 DEF ExtraTyped, BudgetRecord
    <2>3. resent[k] <= 2 /\ (loads'[k].at = "idle" => resent[k] = 0)
      BY <1>4, <2>1 DEF LoadKnows
    <2>4. budgets[k].link # None => loads'[k].at # "idle" /\ loads'[budgets[k].link].at # "idle"
      BY <1>4, <2>1, <2>2 DEF LoadKnows
    <2>5. CASE loads'[k].at # "waits"
      BY <2>3, <2>4, <2>5 DEF LoadKnows
    <2>6. CASE loads'[k].at = "waits"
      <3>1. loads'[k] = loads[k] /\ loads[k].entry \in Extra!Entries /\ entries[loads[k].entry].at # "none"
        BY <1>1, <1>3, <1>4, <2>6 DEF Waiters, LoadSound
      <3>2. loads[k].entry = latest => entries'[latest].budget = entries[latest].budget
        BY <3>1
      <3>3. loads[k].entry = latest => Payer(entries[latest].budget)' = Payer(entries[latest].budget)
        BY <3>2 DEF Payer
      <3>4. Loading(loads[k].entry)' <=> Loading(loads[k].entry)
        BY <1>5, <3>1 DEF Loading
      <3>5. Loading(loads[k].entry) => entries'[loads[k].entry] = entries[loads[k].entry]
        BY <3>1
      <3> QED BY <2>1, <2>3, <2>4, <2>6, <3>1, <3>3, <3>4, <3>5 DEF LoadKnows
    <2> QED BY <2>5, <2>6
  <1> QED BY <1>3, <1>6, <1>7, <1>8, <1>9, <1>10 DEF Waiters, Budgeted

\* A load that waits for the entry of another one, of the same origin.
LEMMA JoinKeeps ==
    ASSUME ExtraInv, NEW l \in Loads, loads[l].at = "idle", NEW origin \in Origins,
           NEW e \in Extra!SameLoad(origin),
           loads' = [loads EXCEPT ![l] = [at |-> "waits", again |-> FALSE, origin |-> origin, entry |-> e]],
           UNCHANGED <<entries, latest, flights, budgets, resent>>, page'.auth = page.auth, page'.epoch = page.epoch
    PROVE  OneFlight' /\ Waiters' /\ LatestLoads' /\ Budgeted' /\ loads' \in [Loads -> LoadState]
  <1>1. ExtraTyped /\ OneFlight /\ Waiters /\ LatestLoads /\ Budgeted
    BY DEF ExtraInv
  <1>2. loads \in [Loads -> LoadState] /\ resent \in [Loads -> Nat] /\ budgets \in [Loads -> BudgetRecord]
    BY <1>1 DEF ExtraTyped
  <1>3. e \in Extra!Entries /\ Loading(e) /\ EntrySound(e) /\ entries[e].at # "none"
    BY <1>1 DEF Extra!SameLoad, Loading, OneFlight
  <1>4. /\ loads'[l].at = "waits" /\ loads'[l].again = FALSE /\ loads'[l].origin = origin /\ loads'[l].entry = e
        /\ \A k \in Loads : k # l => loads'[k] = loads[k]
    BY <1>2
  <1>5. loads' \in [Loads -> LoadState]
    <2>1. [at |-> "waits", again |-> FALSE, origin |-> origin, entry |-> e] \in LoadState
      BY <1>3 DEF LoadState
    <2> QED BY <1>2, <2>1
  <1>6. OneFlight'
    BY <1>1 DEF OneFlight, EntrySound, Loading, UnderWay, Past, Extra!Current
  <1>7. LatestLoads'
    BY <1>1 DEF LatestLoads, Loading, Extra!Current
  <1>8. ASSUME NEW k \in Loads PROVE LoadSound(k)'
    <2>1. LoadSound(k)
      BY <1>1 DEF Waiters
    <2>2. CASE k = l
      <3>1. entries[<<l, 1>>].at = "none" /\ entries[<<l, 2>>].at = "none"
        BY <2>1, <2>2 DEF LoadSound
      <3> QED BY <1>3, <1>4, <2>2, <3>1 DEF LoadSound, Loading
    <2>3. CASE k # l
      BY <1>4, <2>1, <2>3 DEF LoadSound, Loading
    <2> QED BY <2>2, <2>3
  <1>9. \A k \in Loads : loads[k].at # "idle" => loads'[k].at # "idle"
    BY <1>4
  <1>10. ASSUME NEW d \in Extra!Entries PROVE EntryPays(d)'
    <2>1. EntryPays(d) /\ EntrySound(d)
      BY <1>1 DEF Budgeted, OneFlight
    <2>2. entries[d].at # "none" => loads'[entries[d].budget].at # "idle"
      BY <1>9, <2>1 DEF EntryPays, EntrySound
    <2> QED BY <2>1, <2>2 DEF EntryPays, Payer, Loading, UnderWay, Extra!Current
  <1>11. ASSUME NEW k \in Loads PROVE LoadKnows(k)'
    <2>1. LoadKnows(k)
      BY <1>1 DEF Budgeted
    <2>2. budgets[k].link \in Loads \cup {None}
      BY <1>2 DEF BudgetRecord
    <2>3. budgets[k].link # None => loads'[k].at # "idle" /\ loads'[budgets[k].link].at # "idle"
      BY <1>9, <2>1, <2>2 DEF LoadKnows
    <2>4. CASE k # l
      BY <1>4, <2>1, <2>3, <2>4 DEF LoadKnows, Payer, Loading
    <2>5. CASE k = l
      <3> DEFINE f == entries[e].flight
      <3>1. f \in Extra!Entries /\ UnderWay(f) /\ EntrySound(f)
        BY <1>1, <1>3 DEF EntrySound, OneFlight
      <3>2. flights[f].budget \in Loads
        BY <3>1 DEF EntrySound, Loading
      <3>3. budgets[flights[f].budget] \in BudgetRecord
        BY <1>2, <3>2
      <3>4. budgets[flights[f].budget].transient \in 0 .. 2 /\ resent[l] = 0
        BY <2>1, <2>5, <3>3 DEF LoadKnows, BudgetRecord
      <3>5. resent[l] <= budgets[flights[f].budget].transient
        BY <3>4
      <3>6. Loading(loads[k].entry)'
        BY <1>3, <1>4, <2>5 DEF Loading
      <3> QED BY <1>4, <2>3, <2>5, <3>4, <3>5, <3>6 DEF LoadKnows
    <2> QED BY <2>4, <2>5
  <1> QED BY <1>5, <1>6, <1>7, <1>8, <1>10, <1>11 DEF Waiters, Budgeted

\* The request of a new entry d, with a GET of its own or with the one that is under way.
NewEntry(d, origin, budget, f) ==
    /\ entries' \in [Extra!Entries -> EntryRecord]
    /\ \A e \in Extra!Entries : e # d => entries'[e] = entries[e]
    /\ entries'[d].at = "loading" /\ entries'[d].auth = page.auth /\ entries'[d].epoch = page.epoch
    /\ entries'[d].origin = origin /\ entries'[d].budget = budget /\ entries'[d].flight = f
    /\ ~ entries'[d].applied /\ ~ entries'[d].reported
OwnFlight(d, origin, budget) ==
    /\ Extra!Sharable = {} /\ budgets' = budgets
    /\ flights' \in [Extra!Entries -> FlightRecord]
    /\ \A e \in Extra!Entries : e # d => flights'[e] = flights[e]
    /\ flights'[d].at = "read" /\ flights'[d].auth = page.auth /\ flights'[d].epoch = page.epoch
    /\ flights'[d].origin = origin /\ flights'[d].budget = budget
JoinedFlight(budget, f) ==
    /\ f \in Extra!Sharable /\ flights' = flights
    /\ budgets' \in [Loads -> BudgetRecord]
    /\ \A c \in Loads : c # budget => budgets'[c] = budgets[c]
    /\ budgets'[budget].transient = budgets[budget].transient
    /\ flights[f].budget # budget => budgets'[budget].link = flights[f].budget
\* What request() changes: a GET of its own begins, or the entry joins another one.
LEMMA RequestedFields ==
    ASSUME ExtraTyped, OneFlight, NEW d \in Extra!Entries, entries[d].at = "none", NEW origin \in Origins,
           NEW budget \in Loads, Extra!Requested(d, origin, budget)
    PROVE  \E f \in Extra!Entries :
              /\ NewEntry(d, origin, budget, f)
              /\ (f = d /\ OwnFlight(d, origin, budget)) \/ (f # d /\ JoinedFlight(budget, f))
  <1> DEFINE f == IF Extra!Sharable = {} THEN d ELSE CHOOSE g \in Extra!Sharable : TRUE
  <1>1. f \in Extra!Entries /\ (Extra!Sharable = {} => f = d) /\ (Extra!Sharable # {} => f \in Extra!Sharable /\ f # d)
    <2>1. CASE Extra!Sharable = {}
      BY <2>1
    <2>2. CASE Extra!Sharable # {}
      <3>1. f \in Extra!Sharable
        BY <2>2
      <3>2. f \in Extra!Entries /\ UnderWay(f)
        BY <3>1 DEF Extra!Sharable, UnderWay
      <3>3. Loading(f)
        BY <3>2 DEF OneFlight, EntrySound
      <3> QED BY <2>2, <3>1, <3>2, <3>3 DEF Loading
    <2> QED BY <2>1, <2>2
  <1> DEFINE new == [Extra!NoEntry EXCEPT !.at = "loading", !.auth = page.auth, !.epoch = page.epoch,
                                          !.origin = origin, !.budget = budget, !.flight = f]
             get == [Extra!NoFlight EXCEPT !.at = "read", !.auth = page.auth, !.epoch = page.epoch,
                                           !.origin = origin, !.budget = budget]
  <1>2. entries' = [entries EXCEPT ![d] = new]
    BY DEF Extra!Requested
  <1>3. f = d => flights' = [flights EXCEPT ![d] = get] /\ budgets' = budgets
    BY DEF Extra!Requested
  <1>4. f # d => /\ flights' = flights
                 /\ budgets' = IF flights[f].budget = budget THEN budgets
                               ELSE [budgets EXCEPT ![budget].link = flights[f].budget]
    BY DEF Extra!Requested
  <1> HIDE DEF f
  <1>5. page.auth \in Nat /\ page.epoch \in Nat
    BY DEF ExtraTyped, PageRecord
  <1>6. /\ new \in EntryRecord /\ new.at = "loading" /\ new.auth = page.auth /\ new.epoch = page.epoch
        /\ new.origin = origin /\ new.budget = budget /\ new.flight = f /\ new.applied = FALSE /\ new.reported = FALSE
    BY <1>1, <1>5 DEF Extra!NoEntry, EntryRecord, Versions
  <1>7. /\ get \in FlightRecord /\ get.at = "read" /\ get.auth = page.auth /\ get.epoch = page.epoch
        /\ get.origin = origin /\ get.budget = budget
    BY <1>5 DEF Extra!NoFlight, FlightRecord, Versions
  <1> HIDE DEF new, get
  <1>8. entries \in [Extra!Entries -> EntryRecord] /\ flights \in [Extra!Entries -> FlightRecord]
        /\ budgets \in [Loads -> BudgetRecord]
    BY DEF ExtraTyped
  <1>9. NewEntry(d, origin, budget, f)
    <2>1. entries' \in [Extra!Entries -> EntryRecord] /\ entries'[d] = new
      BY <1>2, <1>6, <1>8
    <2>2. \A e \in Extra!Entries : e # d => entries'[e] = entries[e]
      BY <1>2, <1>8
    <2> QED BY <1>6, <2>1, <2>2 DEF NewEntry
  <1>10. CASE f = d
    <2>1. flights' \in [Extra!Entries -> FlightRecord] /\ flights'[d] = get
      BY <1>3, <1>7, <1>8, <1>10
    <2>2. \A e \in Extra!Entries : e # d => flights'[e] = flights[e]
      BY <1>3, <1>8, <1>10
    <2>3. OwnFlight(d, origin, budget)
      BY <1>1, <1>3, <1>7, <1>10, <2>1, <2>2 DEF OwnFlight
    <2> QED BY <1>1, <1>9, <1>10, <2>3
  <1>11. CASE f # d
    <2>1. f \in Extra!Sharable /\ flights' = flights
      BY <1>1, <1>4, <1>11
    <2>2. UnderWay(f) /\ EntrySound(f)
      BY <2>1 DEF Extra!Sharable, UnderWay, OneFlight
    <2>3. flights[f].budget \in Loads
      BY <1>1, <2>2 DEF EntrySound, Loading
    <2>4. CASE flights[f].budget = budget
      <3>1. budgets' = budgets
        BY <1>4, <1>11, <2>4
      <3>2. JoinedFlight(budget, f)
        BY <1>8, <2>1, <2>4, <3>1 DEF JoinedFlight
      <3> QED BY <1>1, <1>9, <1>11, <3>2
    <2>5. CASE flights[f].budget # budget
      <3> DEFINE g == flights[f].budget
                 r == [budgets[budget] EXCEPT !.link = g]
      <3>1. budgets' = [budgets EXCEPT ![budget] = r]
        BY <1>4, <1>8, <1>11, <2>5
      <3>2. budgets[budget] \in BudgetRecord
        BY <1>8
      <3>3. r \in BudgetRecord /\ r.link = g /\ r.transient = budgets[budget].transient
        BY <2>3, <3>2 DEF BudgetRecord
      <3> HIDE DEF r
      <3>4. budgets' \in [Loads -> BudgetRecord] /\ budgets'[budget] = r
        BY <1>8, <3>1, <3>3
      <3>5. \A c \in Loads : c # budget => budgets'[c] = budgets[c]
        BY <1>8, <3>1
      <3>6. JoinedFlight(budget, f)
        BY <2>1, <3>3, <3>4, <3>5 DEF JoinedFlight
      <3> QED BY <1>1, <1>9, <1>11, <3>6
    <2> QED BY <2>4, <2>5
  <1> QED BY <1>10, <1>11

\* The budget of a first request is the load's own; one after a save uses that of the latest
\* entry, which this load waited for.
Grounds(l, n, budget) ==
    /\ n = 1 => loads[l].at = "idle" /\ budget = l
    /\ n = 2 => /\ loads[l].at = "waits" /\ ~ loads[l].again /\ loads[l].entry = latest
                /\ ~ Loading(latest) /\ budget = Payer(entries[latest].budget)
\* On these grounds the entry has not begun yet, and a second request finds no GET under way.
LEMMA GroundsHold ==
    ASSUME ExtraInv, NEW l \in Loads, NEW n \in {1, 2}, NEW budget, Grounds(l, n, budget)
    PROVE  /\ <<l, n>> \in Extra!Entries /\ entries[<<l, n>>].at = "none"
           /\ budget \in Loads /\ budgets[budget].link = None /\ (n = 2 => loads[budget].at # "idle")
           /\ \A m \in {1, 2} : ~ Loading(<<l, m>>)
           /\ n = 2 => /\ resent[l] <= budgets[budget].transient /\ \A origin : Extra!SameLoad(origin) = {}
                       /\ Extra!Sharable = {}
  <1>1. ExtraTyped /\ OneFlight /\ Waiters /\ LatestLoads /\ Budgeted
    BY DEF ExtraInv
  <1>2. LoadSound(l) /\ LoadKnows(l) /\ \A m \in {1, 2} : <<l, m>> \in Extra!Entries
    BY <1>1 DEF Waiters, Budgeted, Extra!Entries
  <1>3. CASE n = 1
    BY <1>2, <1>3 DEF Grounds, LoadSound, LoadKnows, Loading
  <1>4. CASE n = 2
    <2>1. /\ loads[l].at = "waits" /\ ~ loads[l].again /\ loads[l].entry = latest /\ ~ Loading(latest)
          /\ budget = Payer(entries[latest].budget)
      BY <1>4 DEF Grounds
    <2>2. latest \in Extra!Entries /\ entries[latest].at # "none"
      BY <1>2, <2>1 DEF LoadSound
    <2>3. EntryPays(latest) /\ EntrySound(latest) /\ entries[latest].budget \in Loads
      BY <1>1, <2>2 DEF Budgeted, OneFlight, EntrySound
    <2>4. LoadKnows(entries[latest].budget) /\ budgets[entries[latest].budget].link \in Loads \cup {None}
      BY <1>1, <2>3 DEF Budgeted, ExtraTyped, BudgetRecord
    <2>5. budget \in Loads /\ budgets[budget].link = None /\ loads[budget].at # "idle"
      BY <2>1, <2>2, <2>3, <2>4 DEF EntryPays, LoadKnows, Payer
    <2>6. resent[l] <= budgets[budget].transient
      BY <1>2, <2>1 DEF LoadKnows
    <2>7. ASSUME NEW e \in Extra!Entries, Loading(e), Extra!Current(entries[e]) PROVE FALSE
      BY <1>1, <2>1, <2>7 DEF LatestLoads
    <2>8. \A origin : Extra!SameLoad(origin) = {}
      BY <2>7 DEF Extra!SameLoad, Loading
    <2>9. Extra!Sharable = {}
      <3>1. ASSUME NEW f \in Extra!Sharable PROVE FALSE
        <4>1. f \in Extra!Entries /\ UnderWay(f) /\ Extra!Current(flights[f])
          BY <3>1 DEF Extra!Sharable, UnderWay
        <4>2. EntrySound(f)
          BY <1>1, <4>1 DEF OneFlight
        <4>3. Loading(f) /\ Extra!Current(entries[f])
          BY <4>1, <4>2 DEF EntrySound, Extra!Current
        <4> QED BY <2>7, <4>1, <4>3
      <3> QED BY <3>1
    <2>10. entries[<<l, 2>>].at = "none" /\ \A m \in {1, 2} : ~ Loading(<<l, m>>)
      BY <1>2, <2>1 DEF LoadSound, Loading
    <2> QED BY <1>2, <1>4, <2>5, <2>6, <2>8, <2>9, <2>10
  <1> QED BY <1>3, <1>4

\* A load that begins an entry of its own, which is the latest one then.
LEMMA NewKeeps ==
    ASSUME ExtraInv, NEW l \in Loads, NEW n \in {1, 2}, NEW budget \in Loads, Grounds(l, n, budget),
           NEW origin \in Origins, NEW d, d = <<l, n>>, NEW f \in Extra!Entries,
           NewEntry(d, origin, budget, f),
           (f = d /\ OwnFlight(d, origin, budget)) \/ (f # d /\ JoinedFlight(budget, f)),
           loads' = [loads EXCEPT ![l] = [at |-> "waits", again |-> n = 2, origin |-> origin, entry |-> d]],
           latest' = d, resent' = resent, page'.auth = page.auth, page'.epoch = page.epoch
    PROVE  OneFlight' /\ Waiters' /\ LatestLoads' /\ Budgeted' /\ loads' \in [Loads -> LoadState]
  <1>1. ExtraTyped /\ OneFlight /\ Waiters /\ LatestLoads /\ Budgeted
    BY DEF ExtraInv
  <1>2. loads \in [Loads -> LoadState] /\ resent \in [Loads -> Nat] /\ budgets \in [Loads -> BudgetRecord]
        /\ page.auth \in Nat /\ page.epoch \in Nat
    BY <1>1 DEF ExtraTyped, PageRecord
  <1>3. /\ d \in Extra!Entries /\ entries[d].at = "none"
        /\ budgets[budget].link = None /\ (n = 2 => loads[budget].at # "idle")
        /\ \A m \in {1, 2} : ~ Loading(<<l, m>>)
        /\ n = 2 => resent[l] <= budgets[budget].transient /\ f = d
    BY GroundsHold DEF JoinedFlight
  <1>4. /\ n = 1 => loads[l].at = "idle" /\ budget = l
        /\ n = 2 => loads[l].at = "waits" /\ ~ loads[l].again
    BY DEF Grounds
  <1>5. /\ loads'[l].at = "waits" /\ loads'[l].again = (n = 2) /\ loads'[l].origin = origin /\ loads'[l].entry = d
        /\ \A k \in Loads : k # l => loads'[k] = loads[k]
        /\ \A k \in Loads : loads[k].at # "idle" => loads'[k].at # "idle"
    BY <1>2
  <1>6. loads' \in [Loads -> LoadState]
    <2>1. [at |-> "waits", again |-> n = 2, origin |-> origin, entry |-> d] \in LoadState
      BY <1>3 DEF LoadState
    <2> QED BY <1>2, <2>1
  <1>7. \A e \in Extra!Entries : EntrySound(e) /\ (entries[e].at # "none" => entries[e].flight # d /\ e # d)
    BY <1>1, <1>3 DEF OneFlight, EntrySound
  <1>8. ~ UnderWay(d)
    BY <1>3, <1>7 DEF EntrySound, Loading
  <1>9. /\ \A e \in Extra!Entries : e # d => entries'[e] = entries[e]
        /\ entries'[d].at = "loading" /\ entries'[d].auth = page.auth /\ entries'[d].epoch = page.epoch
        /\ entries'[d].origin = origin /\ entries'[d].budget = budget /\ entries'[d].flight = f
        /\ ~ entries'[d].applied /\ ~ entries'[d].reported
    BY DEF NewEntry
  <1>10. \A e \in Extra!Entries : e # d => flights'[e] = flights[e]
    BY DEF OwnFlight, JoinedFlight
  <1>11. /\ UnderWay(f)' /\ flights'[f].auth = page.auth /\ flights'[f].epoch = page.epoch
         /\ f = d => /\ flights'[d].budget = budget /\ flights'[d].origin = origin
                     /\ Extra!Sharable = {} /\ budgets' = budgets
         /\ f # d => UnderWay(f) /\ Extra!Current(flights[f]) /\ flights' = flights
    BY DEF OwnFlight, JoinedFlight, Extra!Sharable, UnderWay, Extra!Current
  <1>12. /\ \A e \in Extra!Entries : e # d => (Loading(e)' <=> Loading(e))
         /\ \A e \in Extra!Entries : e # d => (UnderWay(e)' <=> UnderWay(e))
         /\ \A e \in Extra!Entries : e # d => (Past(entries[e])' <=> Past(entries[e]))
         /\ \A e \in Extra!Entries : e # d => (Extra!Current(flights[e])' <=> Extra!Current(flights[e]))
         /\ Loading(d)' /\ Extra!Current(entries[d])' /\ Past(entries[d])'
    BY <1>2, <1>9, <1>10 DEF Loading, UnderWay, Past, Extra!Current
  <1>13. OneFlight'
    <2>1. ASSUME NEW e \in Extra!Entries
          PROVE  EntrySound(e)'
      <3>1. CASE e # d
        <4>1. EntrySound(e) /\ (entries[e].at # "none" => entries[e].flight # d)
          BY <1>7
        <4>2. entries'[e] = entries[e] /\ flights'[e] = flights[e]
          BY <1>9, <1>10, <3>1
        <4>3. entries[e].at # "none" => /\ entries[e].flight \in Extra!Entries
                                        /\ entries'[entries[e].flight] = entries[entries[e].flight]
                                        /\ flights'[entries[e].flight] = flights[entries[e].flight]
          BY <1>9, <1>10, <4>1 DEF EntrySound
        <4>4. Loading(e) => entries[e].at # "none"
          BY DEF Loading
        <4>5. Loading(e)' => UnderWay(entries[e].flight)'
          <5>1. Loading(e)' => Loading(e) /\ entries'[e].flight = entries[e].flight
            BY <1>12, <3>1, <4>2
          <5>2. Loading(e) => flights'[entries[e].flight].at # "none"
            BY <4>1, <4>3, <4>4 DEF EntrySound, UnderWay
          <5> QED BY <5>1, <5>2 DEF UnderWay
        <4> QED BY <1>12, <3>1, <4>1, <4>2, <4>3, <4>4, <4>5 DEF EntrySound
      <3>2. CASE e = d
        <4>1. entries'[f].at # "none"
          <5>1. CASE f = d
            BY <1>9, <5>1
          <5>2. CASE f # d
            BY <1>7, <1>9, <1>11, <5>2 DEF EntrySound, Loading
          <5> QED BY <5>1, <5>2
        <4>2. UnderWay(d)' => f = d
          BY <1>8, <1>11 DEF UnderWay
        <4> QED BY <1>9, <1>11, <1>12, <3>2, <4>1, <4>2 DEF EntrySound
      <3> QED BY <3>1, <3>2
    <2>2. ASSUME NEW g \in Extra!Entries, NEW h \in Extra!Entries, UnderWay(g)', UnderWay(h)',
                 Extra!Current(flights[g])', Extra!Current(flights[h])'
          PROVE  g = h
      <3>1. CASE f = d
        <4>1. ASSUME NEW x \in {g, h}, x # d PROVE FALSE
          <5>1. x \in Extra!Entries /\ UnderWay(x) /\ Extra!Current(flights[x])
            BY <1>12, <2>2, <4>1
          <5>2. x \in Extra!Sharable
            BY <5>1 DEF Extra!Sharable, UnderWay
          <5> QED BY <1>11, <3>1, <5>2
        <4> QED BY <4>1
      <3>2. CASE f # d
        <4>1. ~ UnderWay(d)'
          BY <1>8, <1>11, <3>2 DEF UnderWay
        <4> QED BY <1>1, <1>12, <2>2, <4>1 DEF OneFlight
      <3> QED BY <3>1, <3>2
    <2> QED BY <2>1, <2>2 DEF OneFlight
  <1>14. ASSUME NEW k \in Loads PROVE LoadSound(k)'
    <2>1. LoadSound(k) /\ \A m \in {1, 2} : <<k, m>> \in Extra!Entries
      BY <1>1 DEF Waiters, Extra!Entries
    <2>2. CASE k = l
      <3>1. \A m \in {1, 2} : m # n => <<l, m>> # d
        OBVIOUS
      <3>2. ~ loads'[l].again => entries'[<<l, 2>>].at = "none"
        BY <1>4, <1>5, <1>9, <2>1, <2>2, <3>1 DEF LoadSound
      <3>3. \A m \in {1, 2} : Loading(<<l, m>>)' => m = n
        BY <1>3, <1>12, <2>1, <2>2, <3>1
      <3> QED BY <1>3, <1>5, <1>9, <2>2, <3>2, <3>3 DEF LoadSound
    <2>3. CASE k # l
      <3>1. loads'[k] = loads[k] /\ \A m \in {1, 2} : entries'[<<k, m>>] = entries[<<k, m>>] /\ <<k, m>> # d
        BY <1>5, <1>9, <2>1, <2>3
      <3>2. loads[k].at = "waits" => loads[k].entry \in Extra!Entries /\ entries'[loads[k].entry].at # "none"
        BY <1>7, <1>9, <2>1 DEF LoadSound
      <3> QED BY <2>1, <3>1, <3>2 DEF LoadSound, Loading
    <2> QED BY <2>2, <2>3
  <1>15. LatestLoads'
    BY <1>3, <1>9, <1>12, NoneIs DEF LatestLoads
  <1>16. /\ budgets' \in [Loads -> BudgetRecord]
         /\ \A c \in Loads : c # budget => budgets'[c] = budgets[c]
         /\ budgets'[budget].transient = budgets[budget].transient
    BY <1>2 DEF OwnFlight, JoinedFlight
  <1>17. ASSUME f # d
         PROVE  /\ n = 1 /\ budget = l /\ flights[f].budget \in Loads /\ flights[f].budget # l
                /\ loads[flights[f].budget].at # "idle" /\ budgets[flights[f].budget].link = None
                /\ budgets'[l].link = flights[f].budget
    <2>1. UnderWay(f) /\ Extra!Current(flights[f]) /\ EntrySound(f) /\ EntryPays(f)
      BY <1>1, <1>7, <1>11, <1>17 DEF Budgeted
    <2>2. entries[f].at # "none" /\ flights[f].budget = entries[f].budget /\ entries[f].budget \in Loads
      BY <2>1 DEF EntrySound, Loading
    <2>3. loads[flights[f].budget].at # "idle" /\ budgets[flights[f].budget].link = None
      BY <2>1, <2>2 DEF EntryPays
    <2>4. n = 1 /\ budget = l /\ flights[f].budget # l
      BY <1>3, <1>4, <1>17, <2>3
    <2> QED BY <1>17, <2>2, <2>3, <2>4 DEF JoinedFlight
  <1>18. flights'[f].budget = Payer(budget)' /\ budgets'[Payer(budget)'].link = None
    <2>1. CASE f = d
      BY <1>3, <1>11, <2>1 DEF Payer
    <2>2. CASE f # d
      <3>1. budgets'[l].link # None /\ budgets'[flights[f].budget].link = None
        BY <1>16, <1>17, <2>2, NoneIs
      <3> QED BY <1>11, <1>17, <2>2, <3>1 DEF Payer
    <2> QED BY <2>1, <2>2
  <1>19. loads'[budget].at # "idle"
    BY <1>3, <1>4, <1>5
  <1>20. ASSUME NEW e \in Extra!Entries PROVE EntryPays(e)'
    <2>1. CASE e # d
      <3>1. EntryPays(e) /\ EntrySound(e) /\ entries'[e] = entries[e] /\ flights'[e] = flights[e]
        BY <1>1, <1>7, <1>9, <1>10, <2>1 DEF Budgeted
      <3>2. entries[e].at # "none" => entries[e].budget \in Loads /\ loads'[entries[e].budget].at # "idle"
        BY <1>5, <3>1 DEF EntryPays, EntrySound
      <3>3. ASSUME UnderWay(e), Extra!Current(flights[e])
            PROVE  budgets'[flights[e].budget].link = None
        <4>1. flights[e].budget = entries[e].budget /\ entries[e].at # "none" /\ entries[e].budget \in Loads
          BY <3>1, <3>3 DEF EntrySound, Loading
        <4>2. loads[flights[e].budget].at # "idle" /\ budgets[flights[e].budget].link = None
          BY <3>1, <3>3, <4>1 DEF EntryPays
        <4>3. CASE f = d
          BY <1>11, <4>2, <4>3
        <4>4. CASE f # d
          BY <1>4, <1>16, <1>17, <4>1, <4>2, <4>4
        <4> QED BY <4>3, <4>4
      <3> QED BY <1>12, <2>1, <3>1, <3>2, <3>3 DEF EntryPays
    <2>2. CASE e = d
      <3>1. UnderWay(d)' => f = d
        BY <1>8, <1>11 DEF UnderWay
      <3>2. UnderWay(d)' => budgets'[flights'[d].budget].link = None
        BY <1>3, <1>11, <3>1
      <3>3. Payer(entries[d].budget)' = Payer(budget)'
        BY <1>9
      <3> QED BY <1>9, <1>18, <1>19, <2>2, <3>2, <3>3 DEF EntryPays
    <2> QED BY <2>1, <2>2
  <1>21. ASSUME NEW k \in Loads PROVE LoadKnows(k)'
    <2>1. LoadKnows(k) /\ LoadSound(k) /\ resent[k] \in Nat
      BY <1>1, <1>2 DEF Budgeted, Waiters
    <2>2. \A c \in Loads : budgets'[c].transient = budgets[c].transient
      BY <1>16
    <2>3. budgets'[k].link # None => loads'[k].at # "idle" /\ loads'[budgets'[k].link].at # "idle"
      <3>1. CASE f # d /\ k = l
        BY <1>5, <1>17, <3>1
      <3>2. CASE f = d \/ k # l
        <4>1. budgets'[k] = budgets[k] /\ budgets[k].link \in Loads \cup {None}
          <5>1. budgets[k] \in BudgetRecord
            BY <1>2
          <5>2. budgets'[k] = budgets[k]
            BY <1>11, <1>16, <1>17, <3>2
          <5> QED BY <5>1, <5>2 DEF BudgetRecord
        <4> QED BY <1>5, <2>1, <4>1 DEF LoadKnows
      <3> QED BY <3>1, <3>2
    <2>4. resent[k] <= 2 /\ (loads'[k].at = "idle" => resent[k] = 0)
      BY <1>5, <2>1 DEF LoadKnows
    <2>5. CASE k # l
      <3>1. loads'[k] = loads[k]
        BY <1>5, <2>5
      <3>2. loads[k].at = "waits" => loads[k].entry \in Extra!Entries /\ loads[k].entry # d
        BY <1>7, <2>1 DEF LoadSound
      <3>3. ASSUME loads[k].at = "waits", Loading(loads[k].entry)
            PROVE  /\ entries'[loads[k].entry] = entries[loads[k].entry]
                   /\ flights'[entries[loads[k].entry].flight].budget = flights[entries[loads[k].entry].flight].budget
                   /\ flights[entries[loads[k].entry].flight].budget \in Loads
        <4> DEFINE e == loads[k].entry
        <4>1. e \in Extra!Entries /\ EntrySound(e) /\ entries[e].flight # d /\ entries'[e] = entries[e]
          BY <1>7, <1>9, <3>2, <3>3 DEF Loading
        <4>2. entries[e].flight \in Extra!Entries /\ UnderWay(entries[e].flight)
          BY <3>3, <4>1 DEF EntrySound, Loading
        <4>3. EntrySound(entries[e].flight)
          BY <1>7, <4>2
        <4>4. flights[entries[e].flight].budget \in Loads
          BY <4>2, <4>3 DEF EntrySound, Loading
        <4> QED BY <1>10, <4>1, <4>2, <4>4
      <3>4. loads[k].at = "waits" => (Loading(loads[k].entry)' <=> Loading(loads[k].entry))
        BY <1>5, <1>9, <2>5, <3>2 DEF Loading
      <3> QED BY <2>1, <2>2, <2>3, <2>4, <3>1, <3>2, <3>3, <3>4 DEF LoadKnows
    <2>6. CASE k = l
      <3>1. ASSUME n = 2 => f = d
            PROVE  resent[l] <= budgets'[flights'[f].budget].transient
        <4>1. CASE n = 2
          <5>1. flights'[f].budget = budget
            BY <1>11, <3>1, <4>1
          <5> QED BY <1>3, <1>16, <4>1, <5>1
        <4>2. CASE n = 1
          <5>1. resent[l] = 0
            BY <1>4, <2>1, <2>6, <4>2 DEF LoadKnows
          <5>2. flights'[f].budget \in Loads
            <6>1. CASE f = d
              BY <1>11, <6>1
            <6>2. CASE f # d
              BY <1>11, <1>17, <6>2
            <6> QED BY <6>1, <6>2
          <5>3. budgets'[flights'[f].budget] \in BudgetRecord
            BY <1>16, <5>2
          <5>4. budgets'[flights'[f].budget].transient \in 0 .. 2
            BY <5>3 DEF BudgetRecord
          <5> QED BY <5>1, <5>4
        <4> QED BY <4>1, <4>2
      <3>2. loads'[l].again => n = 2
        BY <1>5
      <3> QED BY <1>5, <1>9, <1>12, <2>3, <2>4, <2>6, <1>3, <3>1, <3>2 DEF LoadKnows, Loading
    <2> QED BY <2>5, <2>6
  <1> QED BY <1>6, <1>13, <1>14, <1>15, <1>20, <1>21 DEF Waiters, Budgeted

\* beginPortalExtraLoad: whatever the load joins, the latest entry loads.
LEMMA LoadBeginKeeps ==
    ASSUME ExtraInv, NEW l \in Loads, NEW n \in {1, 2}, NEW budget, Grounds(l, n, budget),
           NEW origin \in Origins, Extra!BeginEntry(l, n, origin, budget), UNCHANGED <<server, page, resent>>
    PROVE  /\ OneFlight' /\ Waiters' /\ LatestLoads' /\ Budgeted' /\ LatestSpeaks' /\ Fresh'
           /\ loads' \in [Loads -> LoadState] /\ entries' \in [Extra!Entries -> EntryRecord]
           /\ latest' \in Extra!Entries /\ flights' \in [Extra!Entries -> FlightRecord]
           /\ budgets' \in [Loads -> BudgetRecord]
  <1>1. ExtraTyped /\ OneFlight /\ Waiters /\ LatestLoads /\ Fresh
    BY DEF ExtraInv
  <1>2. /\ loads \in [Loads -> LoadState] /\ entries \in [Extra!Entries -> EntryRecord]
        /\ flights \in [Extra!Entries -> FlightRecord] /\ budgets \in [Loads -> BudgetRecord]
        /\ latest \in Extra!Entries \cup {None}
    BY <1>1 DEF ExtraTyped
  <1>3. /\ <<l, n>> \in Extra!Entries /\ entries[<<l, n>>].at = "none" /\ budget \in Loads
        /\ n = 2 => Extra!SameLoad(origin) = {}
    BY GroundsHold
  <1>4. CASE Extra!SameLoad(origin) # {}
    <2>1. n = 1 /\ loads[l].at = "idle"
      BY <1>3, <1>4 DEF Grounds
    <2>2. PICK e \in Extra!SameLoad(origin) :
              loads' = [loads EXCEPT ![l] = [at |-> "waits", again |-> FALSE, origin |-> origin, entry |-> e]]
      <3> DEFINE e == CHOOSE d \in Extra!SameLoad(origin) : TRUE
      <3>1. e \in Extra!SameLoad(origin)
        BY <1>4
      <3>2. loads' = [loads EXCEPT ![l] = [at |-> "waits", again |-> n = 2, origin |-> origin, entry |-> e]]
        BY <1>4 DEF Extra!BeginEntry
      <3> HIDE DEF e
      <3>3. (n = 2) = FALSE
        BY <2>1
      <3>4. loads' = [loads EXCEPT ![l] = [at |-> "waits", again |-> FALSE, origin |-> origin, entry |-> e]]
        BY <3>2, <3>3
      <3> QED BY <3>1, <3>4
    <2>3. UNCHANGED <<entries, latest, flights, budgets>>
      BY <1>4 DEF Extra!BeginEntry
    <2>4. OneFlight' /\ Waiters' /\ LatestLoads' /\ Budgeted' /\ loads' \in [Loads -> LoadState]
      BY <2>1, <2>2, <2>3, JoinKeeps
    <2>5. latest # None /\ Loading(latest) /\ Extra!Current(entries[latest])
      BY <1>1 DEF Extra!SameLoad, LatestLoads, Loading
    <2>6. LatestSpeaks'
      <3>1. latest \in Extra!Entries /\ EntrySound(latest)
        BY <1>1, <1>2, <2>5 DEF OneFlight
      <3>2. PICK k \in Loads, m \in {1, 2} : latest = <<k, m>>
        BY <3>1 DEF Extra!Entries
      <3>3. loads[k].at = "waits" /\ loads[k].entry = latest
        BY <1>1, <2>5, <3>2 DEF Waiters, LoadSound
      <3>4. loads'[k] = loads[k]
        BY <1>2, <2>1, <2>2, <3>3
      <3>5. /\ entries[latest].at = "loading" /\ ~ entries[latest].applied /\ ~ entries[latest].reported
            /\ entries[latest].auth = page.auth
        BY <2>5, <3>1 DEF EntrySound, Loading, Extra!Current
      <3>6. \E j \in Loads : loads'[j].at = "waits" /\ loads'[j].entry = latest
        BY <3>3, <3>4
      <3> QED BY <2>3, <2>5, <3>5, <3>6 DEF LatestSpeaks
    <2>7. Fresh'
      BY <1>1, <2>3 DEF Fresh, Cached, Answered, Extra!Current
    <2>8. latest \in Extra!Entries
      BY <1>2, <2>5
    <2> QED BY <1>2, <2>3, <2>4, <2>6, <2>7, <2>8
  <1>5. CASE Extra!SameLoad(origin) = {}
    <2>1. /\ loads' = [loads EXCEPT ![l] = [at |-> "waits", again |-> n = 2, origin |-> origin, entry |-> <<l, n>>]]
          /\ latest' = <<l, n>> /\ Extra!Requested(<<l, n>>, origin, budget)
      BY <1>5 DEF Extra!BeginEntry
    <2>2. PICK d : d = <<l, n>>
      OBVIOUS
    <2>3. PICK f \in Extra!Entries :
              /\ NewEntry(d, origin, budget, f)
              /\ (f = d /\ OwnFlight(d, origin, budget)) \/ (f # d /\ JoinedFlight(budget, f))
      BY <1>1, <1>3, <2>1, <2>2, RequestedFields
    <2>4. OneFlight' /\ Waiters' /\ LatestLoads' /\ Budgeted' /\ loads' \in [Loads -> LoadState]
      BY <1>3, <2>1, <2>2, <2>3, NewKeeps
    <2>5. /\ entries' \in [Extra!Entries -> EntryRecord]
          /\ \A e \in Extra!Entries : e # d => entries'[e] = entries[e]
          /\ entries'[d].at = "loading" /\ entries'[d].auth = page.auth
          /\ ~ entries'[d].applied /\ ~ entries'[d].reported
      BY <2>3 DEF NewEntry
    <2>6. /\ flights' \in [Extra!Entries -> FlightRecord] /\ budgets' \in [Loads -> BudgetRecord]
          /\ \A e \in Extra!Entries : flights'[e] = flights[e] \/ flights'[e].at = "read"
      BY <1>2, <2>3 DEF OwnFlight, JoinedFlight
    <2>7. LatestSpeaks'
      <3>1. loads'[l].at = "waits" /\ loads'[l].entry = d
        BY <1>2, <2>1, <2>2
      <3> QED BY <1>3, <2>1, <2>2, <2>5, <3>1, NoneIs DEF LatestSpeaks
    <2>8. Fresh'
      <3>1. ASSUME NEW e \in Extra!Entries PROVE Cached(e)' /\ Answered(e)'
        <4>1. Cached(e) /\ Answered(e)
          BY <1>1 DEF Fresh
        <4>2. Cached(e)'
          BY <2>6, <4>1 DEF Cached, Extra!Current
        <4>3. Answered(e)'
          BY <2>1, <2>2, <2>5, <4>1 DEF Answered, Extra!Current
        <4> QED BY <4>2, <4>3
      <3> QED BY <1>1, <3>1 DEF Fresh
    <2> QED BY <1>3, <2>1, <2>4, <2>5, <2>6, <2>7, <2>8
  <1> QED BY <1>4, <1>5

-----------------------------------------------------------------------------
(* The loads of a deferred collection: their steps *)

\* A GET that ends: an answer is in the cache, and a wait is silent for the page itself only.
LEMMA FinishStep ==
    ASSUME ExtraInv, NEW f \in Extra!Entries, UnderWay(f), NEW result \in {"ok", "changed", "wait", "error"},
           NEW version \in Versions, Extra!Finish(f, result, version),
           UNCHANGED <<server, loads, budgets, muted, reminded, resent>>,
           page' \in PageRecord, page'.auth = page.auth, page'.epoch = page.epoch,
           page'.shown = page.shown, page'.loaded = page.loaded,
           page'.cached = page.cached \/ (Extra!Current(flights[f]) /\ page'.cached = server),
           Extra!Current(flights[f]) /\ result = "ok" => version # None /\ version = page'.cached,
           wait' \in WaitRecord \cup {None}, owed' \in BOOLEAN, owed' => owed,
           Extra!Current(flights[f]) /\ result = "wait" /\ owed' => flights[f].origin = "automatic"
    PROVE  ExtraInv'
  <1>1. ExtraTyped /\ OneFlight /\ Waiters /\ LatestLoads /\ Owed /\ Fresh
    BY DEF ExtraInv
  <1>2. OneFlight' /\ Waiters' /\ LatestLoads' /\ Budgeted'
    BY FinishKeeps
  <1>3. /\ entries' \in [Extra!Entries -> EntryRecord] /\ flights' \in [Extra!Entries -> FlightRecord]
        /\ latest' = latest
        /\ \A e \in Extra!Entries :
              /\ entries'[e].auth = entries[e].auth /\ entries'[e].epoch = entries[e].epoch
              /\ entries'[e].origin = entries[e].origin /\ entries'[e].flight = entries[e].flight
              /\ entries'[e].applied = entries[e].applied /\ entries'[e].reported = entries[e].reported
              /\ ~ (Loading(e) /\ entries[e].flight = f) => entries'[e] = entries[e]
              /\ Loading(e) /\ entries[e].flight = f =>
                    /\ entries'[e].at = "settled"
                    /\ entries'[e].result = IF Extra!Current(flights[f]) THEN result ELSE "changed"
                    /\ entries'[e].version = IF Extra!Current(flights[f]) THEN version ELSE None
        /\ flights'[f].at = "none"
        /\ \A g \in Extra!Entries : g # f => flights'[g] = flights[g]
    BY <1>1, FinishFields
  <1>4. ExtraTyped'
    BY <1>1, <1>3 DEF ExtraTyped
  <1>5. /\ server \in Nat /\ page.shown \in Versions /\ page.cached \in Versions /\ page'.cached \in Versions
        /\ \A e \in Extra!Entries : entries[e].version \in Versions
    <2>1. \A e \in Extra!Entries : entries[e] \in EntryRecord
      BY <1>1 DEF ExtraTyped
    <2> QED BY <1>1, <2>1 DEF ExtraTyped, PageRecord, EntryRecord
  <1>6. page'.cached # None /\ page.cached # None => page'.cached >= page.cached
    BY <1>1, <1>5 DEF Fresh, Versions
  <1>7. page.cached # None => page'.cached # None
    BY <1>5, NoneIs
  <1>8. page'.cached # None => page'.cached <= server /\ (page.shown # None => page'.cached >= page.shown)
    BY <1>1, <1>5 DEF Fresh, Versions
  <1>9. Fresh'
    <2>1. ASSUME NEW e \in Extra!Entries PROVE Cached(e)'
      <3>1. SUFFICES ASSUME flights'[e].at \in {"sent", "pause"}, Extra!Current(flights[e])'
                     PROVE  flights'[e].cached = page'.cached
        BY DEF Cached
      <3>2. e # f /\ flights'[e] = flights[e] /\ Extra!Current(flights[e]) /\ UnderWay(e)
        BY <1>3, <3>1 DEF Extra!Current, UnderWay
      <3>3. ~ Extra!Current(flights[f])
        BY <1>1, <3>2 DEF OneFlight
      <3> QED BY <1>1, <3>1, <3>2, <3>3 DEF Fresh, Cached
    <2>2. ASSUME NEW e \in Extra!Entries PROVE Answered(e)'
      <3>1. SUFFICES ASSUME entries'[e].at = "settled", Extra!Current(entries[e])', entries'[e].result = "ok"
                     PROVE  /\ entries'[e].version # None /\ page'.cached # None /\ entries'[e].version <= page'.cached
                            /\ e = latest /\ page.shown # None => entries'[e].version >= page.shown
        BY <1>3 DEF Answered
      <3>2. CASE Loading(e) /\ entries[e].flight = f
        <4>1. Extra!Current(flights[f]) /\ result = "ok"
          BY <1>3, <3>1, <3>2
        <4>2. version # None /\ version = page'.cached /\ entries'[e].version = version
          BY <1>3, <3>2, <4>1
        <4> QED BY <1>5, <1>8, <4>2 DEF Versions
      <3>3. CASE ~ (Loading(e) /\ entries[e].flight = f)
        <4>1. entries'[e] = entries[e] /\ Extra!Current(entries[e])
          BY <1>3, <3>1, <3>3 DEF Extra!Current
        <4>2. /\ entries[e].version # None /\ page.cached # None /\ entries[e].version <= page.cached
              /\ e = latest /\ page.shown # None => entries[e].version >= page.shown
          BY <1>1, <3>1, <4>1 DEF Fresh, Answered
        <4> QED BY <1>5, <1>6, <1>7, <4>1, <4>2 DEF Versions
      <3> QED BY <3>2, <3>3
    <2> QED BY <1>1, <1>8, <2>1, <2>2 DEF Fresh
  <1>10. Owed'
    <2>1. ASSUME owed', ~ muted, ~ reminded PROVE LatestSpeaks'
      <3>1. LatestSpeaks /\ latest \in Extra!Entries
        BY <1>1, <2>1 DEF Owed, LatestSpeaks, ExtraTyped
      <3>2. ASSUME entries'[latest].at = "settled", entries'[latest].result = "wait"
            PROVE  entries'[entries'[latest].flight].origin = "automatic"
        <4>1. CASE Loading(latest) /\ entries[latest].flight = f
          <5>1. Extra!Current(flights[f]) /\ result = "wait"
            BY <1>3, <3>1, <3>2, <4>1
          <5>2. flights[f].origin = "automatic" /\ EntrySound(f)
            BY <1>1, <2>1, <5>1 DEF OneFlight
          <5> QED BY <1>3, <3>1, <4>1, <5>2 DEF EntrySound
        <4>2. CASE ~ (Loading(latest) /\ entries[latest].flight = f)
          <5>1. entries'[latest] = entries[latest] /\ EntrySound(latest)
            BY <1>1, <1>3, <3>1, <4>2 DEF OneFlight
          <5>2. entries[latest].flight \in Extra!Entries
            BY <3>2, <5>1 DEF EntrySound
          <5>3. entries[entries[latest].flight].origin = "automatic"
            BY <3>1, <3>2, <5>1 DEF LatestSpeaks, Extra!Mutes
          <5> QED BY <1>3, <5>1, <5>2, <5>3
        <4> QED BY <4>1, <4>2
      <3>3. entries'[latest].at = "settled" /\ entries'[latest].result = "wait" => Extra!Mutes(latest)'
        BY <1>3, <3>2 DEF Extra!Mutes
      <3> QED BY <1>3, <3>1, <3>3 DEF LatestSpeaks
    <2> QED BY <1>1, <2>1 DEF Owed
  <1> QED BY <1>2, <1>4, <1>9, <1>10 DEF ExtraInv

\* The GETs and the context of the page go on; a cache that goes is of an earlier context.
LEMMA ContextStep ==
    ASSUME ExtraInv, UNCHANGED <<loads, entries, latest, muted, reminded>>,
           OneFlight', Waiters', LatestLoads', Budgeted',
           budgets' \in [Loads -> BudgetRecord], resent' \in [Loads -> Nat],
           \A e \in Extra!Entries : Extra!Current(entries[e])' /\ entries[e].at # "none" =>
               Extra!Current(entries[e]) /\ page'.cached = page.cached,
           flights' \in [Extra!Entries -> FlightRecord], \A f \in Extra!Entries : Cached(f)',
           server' \in Nat, server' >= server,
           page' \in PageRecord, page'.shown = page.shown, page'.loaded = page.loaded,
           page'.cached = page.cached \/ page'.cached = None,
           page'.auth # page.auth => ~ owed',
           wait' \in WaitRecord \cup {None}, owed' \in BOOLEAN, owed' => owed
    PROVE  ExtraInv'
  <1>1. ExtraTyped /\ Owed /\ Fresh
    BY DEF ExtraInv
  <1>2. ExtraTyped'
    BY <1>1 DEF ExtraTyped
  <1>3. server \in Nat /\ page.shown \in Versions /\ page.cached \in Versions
    BY <1>1 DEF ExtraTyped, PageRecord
  <1>4. Fresh'
    <2>1. ASSUME NEW e \in Extra!Entries PROVE Answered(e)'
      BY <1>1 DEF Fresh, Answered
    <2>2. page.shown # None => page.shown <= server'
      BY <1>1, <1>3 DEF Fresh, Versions
    <2>3. page'.cached # None => page'.cached <= server' /\ (page.shown # None => page'.cached >= page.shown)
      BY <1>1, <1>3 DEF Fresh, Versions
    <2> QED BY <2>1, <2>2, <2>3 DEF Fresh
  <1>5. Owed'
    <2>1. ASSUME owed', ~ muted, ~ reminded PROVE LatestSpeaks'
      <3>1. LatestSpeaks /\ page'.auth = page.auth
        BY <1>1, <2>1 DEF Owed
      <3> QED BY <3>1 DEF LatestSpeaks, Extra!Mutes
    <2> QED BY <1>1, <2>1 DEF Owed
  <1> QED BY <1>2, <1>4, <1>5 DEF ExtraInv

\* Marks that a load leaves on an entry that has its result.
LEMMA MarkedFields ==
    ASSUME entries \in [Extra!Entries -> EntryRecord], NEW e \in Extra!Entries, entries[e].at = "settled",
           \/ entries' = entries
           \/ entries' = [entries EXCEPT ![e].applied = TRUE]
           \/ entries' = [entries EXCEPT ![e].reported = TRUE]
    PROVE  /\ entries' \in [Extra!Entries -> EntryRecord]
           /\ \A d \in Extra!Entries :
                 /\ entries'[d].at = entries[d].at /\ entries'[d].auth = entries[d].auth
                 /\ entries'[d].epoch = entries[d].epoch /\ entries'[d].origin = entries[d].origin
                 /\ entries'[d].budget = entries[d].budget /\ entries'[d].flight = entries[d].flight
                 /\ entries'[d].result = entries[d].result /\ entries'[d].version = entries[d].version
                 /\ Loading(d) => entries'[d] = entries[d]
                 /\ d # e => entries'[d] = entries[d]
  <1>1. CASE entries' = entries
    BY <1>1
  <1>2. ASSUME NEW r \in EntryRecord, entries' = [entries EXCEPT ![e] = r],
               r = [entries[e] EXCEPT !.applied = TRUE] \/ r = [entries[e] EXCEPT !.reported = TRUE]
        PROVE  /\ entries' \in [Extra!Entries -> EntryRecord]
               /\ \A d \in Extra!Entries :
                     /\ entries'[d].at = entries[d].at /\ entries'[d].auth = entries[d].auth
                     /\ entries'[d].epoch = entries[d].epoch /\ entries'[d].origin = entries[d].origin
                     /\ entries'[d].budget = entries[d].budget /\ entries'[d].flight = entries[d].flight
                     /\ entries'[d].result = entries[d].result /\ entries'[d].version = entries[d].version
                     /\ Loading(d) => entries'[d] = entries[d]
                     /\ d # e => entries'[d] = entries[d]
    <2>1. entries' \in [Extra!Entries -> EntryRecord] /\ entries'[e] = r
          /\ \A d \in Extra!Entries : d # e => entries'[d] = entries[d]
      BY <1>2
    <2>2. /\ r.at = entries[e].at /\ r.auth = entries[e].auth /\ r.epoch = entries[e].epoch
          /\ r.origin = entries[e].origin /\ r.budget = entries[e].budget /\ r.flight = entries[e].flight
          /\ r.result = entries[e].result /\ r.version = entries[e].version
      <3>1. entries[e] \in EntryRecord
        OBVIOUS
      <3> QED BY <1>2, <3>1 DEF EntryRecord
    <2>3. ~ Loading(e)
      BY DEF Loading
    <2> QED BY <2>1, <2>2, <2>3
  <1>3. CASE entries' = [entries EXCEPT ![e].applied = TRUE]
    <2>1. [entries[e] EXCEPT !.applied = TRUE] \in EntryRecord
      <3>1. entries[e] \in EntryRecord
        OBVIOUS
      <3> QED BY <3>1 DEF EntryRecord
    <2> QED BY <1>2, <1>3, <2>1
  <1>4. CASE entries' = [entries EXCEPT ![e].reported = TRUE]
    <2>1. [entries[e] EXCEPT !.reported = TRUE] \in EntryRecord
      <3>1. entries[e] \in EntryRecord
        OBVIOUS
      <3> QED BY <3>1 DEF EntryRecord
    <2> QED BY <1>2, <1>4, <2>1
  <1> QED BY <1>1, <1>3, <1>4

\* A load ends; what is shown then is the answer of the latest entry.
LEMMA EndStep ==
    ASSUME ExtraInv, NEW l \in Loads, loads[l].at = "waits", NEW e \in Extra!Entries, e = loads[l].entry,
           entries[e].at = "settled", Extra!Ends(l),
           \/ entries' = entries
           \/ entries' = [entries EXCEPT ![e].applied = TRUE]
           \/ entries' = [entries EXCEPT ![e].reported = TRUE],
           UNCHANGED <<server, latest, flights, budgets, wait, reminded, resent>>,
           page' \in PageRecord, page'.auth = page.auth, page'.epoch = page.epoch, page'.cached = page.cached,
           page'.shown = page.shown
              \/ (/\ e = latest /\ Extra!Current(entries[e])
                  /\ entries[e].result = "ok" /\ page'.shown = entries[e].version),
           owed' \in BOOLEAN, muted' \in BOOLEAN, Owed'
    PROVE  ExtraInv'
  <1>1. ExtraTyped /\ Fresh
    BY DEF ExtraInv
  <1>2. /\ entries' \in [Extra!Entries -> EntryRecord]
        /\ \A d \in Extra!Entries :
              /\ entries'[d].at = entries[d].at /\ entries'[d].auth = entries[d].auth
              /\ entries'[d].epoch = entries[d].epoch /\ entries'[d].origin = entries[d].origin
              /\ entries'[d].budget = entries[d].budget /\ entries'[d].flight = entries[d].flight
              /\ entries'[d].result = entries[d].result /\ entries'[d].version = entries[d].version
              /\ Loading(d) => entries'[d] = entries[d]
    BY <1>1, MarkedFields DEF ExtraTyped
  <1>3. PICK at \in {"marks", "done"} : loads' = [loads EXCEPT ![l].at = at]
    BY DEF Extra!Ends
  <1>4. OneFlight' /\ Waiters' /\ LatestLoads' /\ Budgeted' /\ loads' \in [Loads -> LoadState]
    <2>1. ~ Loading(loads[l].entry) /\ loads[l].at # "idle"
      BY DEF Loading
    <2> QED BY <1>2, <1>3, <2>1, LoadEndKeeps
  <1>5. ExtraTyped'
    BY <1>1, <1>2, <1>4 DEF ExtraTyped
  <1>6. /\ server \in Nat /\ page.shown \in Versions /\ page'.shown \in Versions /\ page.cached \in Versions
        /\ \A d \in Extra!Entries : entries[d].version \in Versions
    <2>1. \A d \in Extra!Entries : entries[d] \in EntryRecord
      BY <1>1 DEF ExtraTyped
    <2> QED BY <1>1, <2>1 DEF ExtraTyped, PageRecord, EntryRecord
  <1>7. Answered(e)
    BY <1>1 DEF Fresh
  <1>8. /\ page'.shown # None => page'.shown <= server
        /\ page.cached # None => page.cached <= server /\ (page'.shown # None => page.cached >= page'.shown)
    BY <1>1, <1>6, <1>7 DEF Fresh, Answered, Versions
  <1>9. ASSUME NEW d \in Extra!Entries PROVE Cached(d)' /\ Answered(d)'
    <2>1. Cached(d) /\ Answered(d)
      BY <1>1 DEF Fresh
    <2>2. Cached(d)'
      BY <2>1 DEF Cached, Extra!Current
    <2>3. Extra!Current(entries[d])' <=> Extra!Current(entries[d])
      BY <1>2 DEF Extra!Current
    <2>4. Answered(d)'
      BY <1>2, <1>6, <2>1, <2>3 DEF Answered, Versions
    <2> QED BY <2>2, <2>4
  <1>10. Fresh'
    BY <1>8, <1>9 DEF Fresh
  <1> QED BY <1>4, <1>5, <1>10 DEF ExtraInv

\* Facts that the steps of a GET under way need.
LEMMA FlightFacts ==
    ASSUME ExtraInv, NEW f \in Extra!Entries, UnderWay(f)
    PROVE  /\ flights[f].budget \in Loads /\ flights[f] \in FlightRecord /\ server \in Nat /\ page \in PageRecord
           /\ flights[f].cached \in Versions /\ wait \in WaitRecord \cup {None}
  <1>1. EntrySound(f) /\ ExtraTyped
    BY DEF ExtraInv, OneFlight
  <1>2. flights[f].budget \in Loads
    BY <1>1 DEF EntrySound, Loading
  <1>3. flights[f] \in FlightRecord
    BY <1>1 DEF ExtraTyped
  <1> QED BY <1>1, <1>2, <1>3 DEF ExtraTyped, FlightRecord

\* The request is sent, or a wait or a newer context keeps it back.
LEMMA SendKeeps ==
    ASSUME ExtraInv, NEW f \in Extra!Entries, Extra!Send(f)
    PROVE  ExtraInv'
  <1>1. UnderWay(f) /\ flights[f].at = "read"
    BY DEF Extra!Send, UnderWay
  <1>2. /\ flights[f].budget \in Loads /\ flights[f] \in FlightRecord /\ page \in PageRecord /\ server \in Nat
        /\ wait \in WaitRecord \cup {None} /\ owed \in BOOLEAN
    BY <1>1, FlightFacts DEF ExtraInv, ExtraTyped
  <1>3. UNCHANGED <<server, page, loads, budgets, muted, reminded, resent>>
    BY DEF Extra!Send
  <1>4. None \in Versions
    BY DEF Versions
  <1>5. CASE ~ Extra!Current(flights[f])
    <2>1. Extra!Finish(f, "changed", None) /\ UNCHANGED <<wait, owed>>
      BY <1>5 DEF Extra!Send
    <2> QED BY <1>1, <1>2, <1>3, <1>4, <1>5, <2>1, FinishStep
  <1>6. CASE Extra!Current(flights[f]) /\ Extra!Blocks(f)
    <2>1. Extra!Finish(f, "wait", None) /\ UNCHANGED wait /\ owed' = (owed /\ flights[f].origin = "automatic")
      BY <1>6 DEF Extra!Send
    <2> QED BY <1>1, <1>2, <1>3, <1>4, <1>6, <2>1, FinishStep
  <1>7. CASE Extra!Current(flights[f]) /\ ~ Extra!Blocks(f)
    <2> DEFINE by == IF wait = None THEN None ELSE wait.by
               r == [flights[f] EXCEPT !.at = "sent", !.valid = TRUE, !.cached = page.cached, !.owned = by]
    <2>1. /\ flights' = [flights EXCEPT ![f] = r]
          /\ wait' = IF wait # None /\ wait.budget # flights[f].budget /\ flights[f].origin = "manual"
                     THEN [wait EXCEPT !.manual = TRUE] ELSE wait
          /\ UNCHANGED <<entries, latest, owed>>
      BY <1>2, <1>7 DEF Extra!Send, ExtraInv, ExtraTyped
    <2>2. by \in Extra!Entries \cup {None} /\ page.cached \in Versions
      BY <1>2 DEF WaitRecord, PageRecord
    <2> HIDE DEF by
    <2>3. /\ r \in FlightRecord /\ r.at = "sent" /\ r.cached = page.cached /\ r.auth = flights[f].auth
          /\ r.epoch = flights[f].epoch /\ r.budget = flights[f].budget /\ r.origin = flights[f].origin
      BY <1>2, <2>2 DEF FlightRecord
    <2> HIDE DEF r
    <2>4. /\ flights' \in [Extra!Entries -> FlightRecord] /\ flights'[f] = r
          /\ \A g \in Extra!Entries : g # f => flights'[g] = flights[g]
      BY <2>1, <2>3 DEF ExtraInv, ExtraTyped
    <2>5. \A g \in Extra!Entries :
              /\ flights'[g].at = "none" <=> flights[g].at = "none"
              /\ flights'[g].auth = flights[g].auth /\ flights'[g].epoch = flights[g].epoch
              /\ flights'[g].budget = flights[g].budget /\ flights'[g].origin = flights[g].origin
      BY <1>1, <2>3, <2>4 DEF UnderWay
    <2>6. \A g \in Extra!Entries : Cached(g)'
      BY <1>3, <2>3, <2>4 DEF ExtraInv, Fresh, Cached, Extra!Current
    <2>7. wait' \in WaitRecord \cup {None}
      BY <1>2, <2>1 DEF WaitRecord
    <2>8. page.auth \in Nat /\ page.epoch \in Nat
      BY <1>2 DEF PageRecord
    <2>9. page' \in PageRecord /\ page'.auth >= page.auth /\ page'.epoch >= page.epoch
      BY <1>2, <1>3, <2>8
    <2>10. OneFlight' /\ Waiters' /\ LatestLoads' /\ Budgeted'
      BY <1>3, <2>1, <2>5, <2>9, ContextKeeps
    <2>11. /\ \A e \in Extra!Entries :
                   Extra!Current(entries[e])' => Extra!Current(entries[e]) /\ page'.cached = page.cached
           /\ budgets' \in [Loads -> BudgetRecord] /\ resent' \in [Loads -> Nat] /\ server' \in Nat /\ server' >= server
      BY <1>2, <1>3, <2>1 DEF Extra!Current, ExtraInv, ExtraTyped
    <2> QED BY <1>2, <1>3, <2>1, <2>4, <2>6, <2>7, <2>9, <2>10, <2>11, ContextStep
  <1> QED BY <1>5, <1>6, <1>7

\* The answer comes.
LEMMA AnswerKeeps ==
    ASSUME ExtraInv, NEW f \in Extra!Entries, Extra!Answer(f)
    PROVE  ExtraInv'
  <1>1. /\ UnderWay(f) /\ Extra!Finish(f, "ok", server)
        /\ UNCHANGED <<server, loads, budgets, owed, muted, reminded, resent>>
        /\ page' = IF Extra!Current(flights[f]) THEN [page EXCEPT !.cached = server] ELSE page
        /\ wait' = Extra!Released(f)
    BY DEF Extra!Answer, UnderWay, Extra!ghosts
  <1>2. page \in PageRecord /\ server \in Nat /\ wait \in WaitRecord \cup {None} /\ owed \in BOOLEAN
    BY <1>1, FlightFacts DEF ExtraInv, ExtraTyped
  <1>3. server \in Versions /\ server # None
    BY <1>2, NoneIs DEF Versions
  <1>4. wait' \in WaitRecord \cup {None}
    BY <1>1, <1>2 DEF Extra!Released
  <1>5. /\ page' \in PageRecord /\ page'.auth = page.auth /\ page'.epoch = page.epoch
        /\ page'.shown = page.shown /\ page'.loaded = page.loaded
        /\ page'.cached = IF Extra!Current(flights[f]) THEN server ELSE page.cached
    BY <1>1, <1>2, <1>3 DEF PageRecord
  <1> QED BY <1>1, <1>2, <1>3, <1>4, <1>5, FinishStep

\* The request is sent again: the context stays, the budget is spent.
LEMMA ResendStep ==
    ASSUME ExtraInv, NEW f \in Extra!Entries, flights[f].at = "sent", NEW unknown \in Nat,
           budgets[flights[f].budget].transient < 2,
           budgets' = [budgets EXCEPT ![flights[f].budget].transient = @ + 1, ![flights[f].budget].unknown = unknown],
           resent' = [l \in Loads |-> IF l \in Extra!Waiting(f) THEN resent[l] + 1 ELSE resent[l]],
           NEW owned \in Extra!Entries \cup {None},
           flights' = [flights EXCEPT ![f].at = "pause", ![f].owned = owned],
           UNCHANGED <<server, page, loads, entries, latest, owed, muted, reminded>>,
           wait' \in WaitRecord \cup {None}
    PROVE  ExtraInv'
  <1>1. UnderWay(f)
    BY DEF UnderWay
  <1>2. /\ flights[f].budget \in Loads /\ flights[f] \in FlightRecord /\ page \in PageRecord /\ server \in Nat
        /\ owed \in BOOLEAN /\ flights \in [Extra!Entries -> FlightRecord] /\ budgets \in [Loads -> BudgetRecord]
    BY <1>1, FlightFacts DEF ExtraInv, ExtraTyped
  <1>3. PICK b \in Loads : b = flights[f].budget
    BY <1>2
  <1>4. OneMore(b)
    <2>1. budgets[b] \in BudgetRecord
      BY <1>2
    <2>2. budgets' = [budgets EXCEPT ![b] = [budgets[b] EXCEPT !.transient = @ + 1, !.unknown = unknown]]
      BY <1>2, <1>3, <2>1 DEF BudgetRecord
    <2> QED BY <1>2, <1>3, <2>2, OneMoreSpent
  <1> DEFINE r == [flights[f] EXCEPT !.at = "pause", !.owned = owned]
  <1>5. /\ r \in FlightRecord /\ r.at = "pause" /\ r.cached = flights[f].cached /\ r.auth = flights[f].auth
        /\ r.epoch = flights[f].epoch /\ r.budget = flights[f].budget /\ r.origin = flights[f].origin
    BY <1>2 DEF FlightRecord
  <1>6. flights' = [flights EXCEPT ![f] = r]
    BY <1>2
  <1> HIDE DEF r
  <1>7. /\ flights' \in [Extra!Entries -> FlightRecord] /\ flights'[f] = r
        /\ \A g \in Extra!Entries : g # f => flights'[g] = flights[g]
    BY <1>2, <1>5, <1>6
  <1>8. \A g \in Extra!Entries :
            /\ flights'[g].at = "none" <=> flights[g].at = "none"
            /\ flights'[g].auth = flights[g].auth /\ flights'[g].epoch = flights[g].epoch
            /\ flights'[g].budget = flights[g].budget /\ flights'[g].origin = flights[g].origin
    BY <1>5, <1>7
  <1>9. OneFlight' /\ Waiters' /\ LatestLoads' /\ Budgeted' /\ resent' \in [Loads -> Nat]
    BY <1>1, <1>3, <1>4, <1>8, ResendKeeps
  <1>10. \A g \in Extra!Entries : Cached(g)'
    <2>1. ASSUME NEW g \in Extra!Entries PROVE Cached(g)'
      <3>1. Cached(g)
        BY DEF ExtraInv, Fresh
      <3> QED BY <1>5, <1>7, <3>1 DEF Cached, Extra!Current
    <2> QED BY <2>1
  <1>11. \A e \in Extra!Entries : Extra!Current(entries[e])' => Extra!Current(entries[e]) /\ page'.cached = page.cached
    BY DEF Extra!Current
  <1>12. budgets' \in [Loads -> BudgetRecord] /\ server' \in Nat /\ server' >= server /\ page' \in PageRecord
    BY <1>2, <1>4 DEF OneMore
  <1> QED BY <1>2, <1>7, <1>9, <1>10, <1>11, <1>12, ContextStep

\* A last failure: a GET of the present context gives what the cache has, or an alert is shown.
LEMMA BreakKeeps ==
    ASSUME ExtraInv, NEW f \in Extra!Entries, Extra!Break(f)
    PROVE  ExtraInv'
  <1>1. UnderWay(f) /\ flights[f].at = "sent" /\ UNCHANGED <<server, page, loads, wait, muted, reminded>>
    BY DEF Extra!Break, UnderWay
  <1>2. /\ flights[f].budget \in Loads /\ flights[f] \in FlightRecord /\ page \in PageRecord /\ server \in Nat
        /\ wait \in WaitRecord \cup {None} /\ owed \in BOOLEAN /\ flights[f].cached \in Versions
        /\ budgets \in [Loads -> BudgetRecord] /\ flights \in [Extra!Entries -> FlightRecord]
    BY <1>1, FlightFacts DEF ExtraInv, ExtraTyped
  <1>3. CASE Extra!Fails(f) /\ UNCHANGED <<budgets, resent>>
    <2>1. PICK result \in {"ok", "error"} :
              Extra!Finish(f, result, flights[f].cached) /\ (result = "ok" <=> flights[f].cached # None)
      BY <1>3 DEF Extra!Fails
    <2>2. owed' = (owed /\ ~ (Extra!Current(flights[f]) /\ flights[f].cached = None))
      BY <1>3 DEF Extra!Fails
    <2>3. Extra!Current(flights[f]) => flights[f].cached = page.cached
      BY <1>1 DEF ExtraInv, Fresh, Cached
    <2>4. result \in {"ok", "changed", "wait", "error"} /\ result # "wait"
      OBVIOUS
    <2>5. page' = page /\ wait' = wait /\ UNCHANGED <<server, loads, budgets, muted, reminded, resent>>
      BY <1>1, <1>3
    <2>6. ASSUME Extra!Current(flights[f]), result = "ok"
          PROVE  flights[f].cached # None /\ flights[f].cached = page'.cached
      <3>1. flights[f].cached = page.cached
        BY <2>3, <2>6
      <3> QED BY <2>1, <2>5, <2>6, <3>1
    <2>7. owed' \in BOOLEAN /\ (owed' => owed)
      BY <1>2, <2>2
    <2>8. /\ page' \in PageRecord /\ wait' \in WaitRecord \cup {None}
          /\ page'.auth = page.auth /\ page'.epoch = page.epoch /\ page'.shown = page.shown
          /\ page'.loaded = page.loaded /\ page'.cached = page.cached
      BY <1>2, <2>5
    <2> QED BY <1>1, <1>2, <2>1, <2>4, <2>5, <2>6, <2>7, <2>8, FinishStep
  <1>4. CASE budgets[flights[f].budget].transient < 2 /\ Extra!Resend(f, 0) /\ UNCHANGED owed
    <2> DEFINE b == flights[f].budget
    <2>1. budgets[b] \in BudgetRecord
      BY <1>2
    <2>2. budgets[b].unknown \in Nat /\ budgets[b].unknown + 0 = budgets[b].unknown
      BY <2>1 DEF BudgetRecord
    <2>3. budgets' = [budgets EXCEPT ![b].transient = @ + 1, ![b].unknown = budgets[b].unknown]
      <3>1. budgets' = [budgets EXCEPT ![b].transient = @ + 1, ![b].unknown = @ + 0]
        BY <1>4 DEF Extra!Resend
      <3> QED BY <1>2, <2>1, <2>2, <3>1 DEF BudgetRecord
    <2>4. flights[f].owned \in Extra!Entries \cup {None}
      BY <1>2 DEF FlightRecord
    <2>5. flights' = [flights EXCEPT ![f].at = "pause", ![f].owned = flights[f].owned]
      <3>1. flights' = [flights EXCEPT ![f].at = "pause"]
        BY <1>4 DEF Extra!Resend
      <3> QED BY <1>2, <3>1 DEF FlightRecord
    <2>6. /\ resent' = [l \in Loads |-> IF l \in Extra!Waiting(f) THEN resent[l] + 1 ELSE resent[l]]
          /\ UNCHANGED <<entries, latest>>
      BY <1>4 DEF Extra!Resend
    <2> QED BY <1>1, <1>2, <1>4, <2>2, <2>3, <2>4, <2>5, <2>6, ResendStep
  <1> QED BY <1>3, <1>4 DEF Extra!Break

\* An answer 503: sent again after a pause, or a last failure.
LEMMA RefuseKeeps ==
    ASSUME ExtraInv, NEW f \in Extra!Entries, NEW retryAfter \in BOOLEAN, NEW known \in BOOLEAN,
           Extra!Refuse(f, retryAfter, known)
    PROVE  ExtraInv'
  <1> DEFINE budget == flights[f].budget
             keep == flights[f].valid /\ flights[f].auth = page.auth
             kept == [by |-> f, budget |-> budget, automatic |-> retryAfter, manual |-> TRUE]
  <1>1. /\ UnderWay(f) /\ flights[f].at = "sent" /\ UNCHANGED <<server, page, loads, muted, reminded>>
        /\ wait' = IF keep THEN kept ELSE wait
    BY DEF Extra!Refuse, UnderWay
  <1>2. /\ budget \in Loads /\ flights[f] \in FlightRecord /\ page \in PageRecord /\ server \in Nat
        /\ wait \in WaitRecord \cup {None} /\ owed \in BOOLEAN
        /\ budgets \in [Loads -> BudgetRecord] /\ flights \in [Extra!Entries -> FlightRecord]
    BY <1>1, FlightFacts DEF ExtraInv, ExtraTyped
  <1>3. wait' \in WaitRecord \cup {None}
    <2>1. kept \in WaitRecord
      BY <1>2 DEF WaitRecord
    <2> QED BY <1>1, <1>2, <2>1
  <1> DEFINE sendsAgain == ~ known /\ budgets[budget].transient < 2 /\ budgets[budget].unknown = 0
  <1>4. CASE sendsAgain
    <2> DEFINE owned == IF keep THEN f ELSE flights[f].owned
    <2>1. /\ budgets' = [budgets EXCEPT ![budget].transient = @ + 1, ![budget].unknown = 1]
          /\ flights' = [flights EXCEPT ![f].at = "pause", ![f].owned = IF keep THEN f ELSE @]
          /\ resent' = [l \in Loads |-> IF l \in Extra!Waiting(f) THEN resent[l] + 1 ELSE resent[l]]
          /\ UNCHANGED <<entries, latest, owed>>
      BY <1>4 DEF Extra!Refuse
    <2>2. owned \in Extra!Entries \cup {None}
      BY <1>2 DEF FlightRecord
    <2>3. flights' = [flights EXCEPT ![f].at = "pause", ![f].owned = owned]
      BY <1>2, <2>1 DEF FlightRecord
    <2> HIDE DEF owned
    <2>4. budgets[flights[f].budget].transient < 2
      BY <1>4
    <2> QED BY <1>1, <1>3, <2>1, <2>2, <2>3, <2>4, ResendStep
  <1>5. CASE ~ sendsAgain
    <2>1. /\ Extra!Finish(f, "error", None) /\ owed' = (owed /\ ~ Extra!Current(flights[f]))
          /\ UNCHANGED <<budgets, resent>>
      BY <1>5 DEF Extra!Refuse
    <2>2. None \in Versions /\ owed' \in BOOLEAN /\ (owed' => owed) /\ page' \in PageRecord /\ page' = page
      BY <1>1, <1>2, <2>1 DEF Versions
    <2>3. UNCHANGED <<server, loads, budgets, muted, reminded, resent>>
      BY <1>1, <2>1
    <2> QED BY <1>1, <1>3, <2>1, <2>2, <2>3, FinishStep
  <1> QED BY <1>4, <1>5

\* The pause is over.
LEMMA AgainKeeps ==
    ASSUME ExtraInv, NEW f \in Extra!Entries, Extra!Again(f)
    PROVE  ExtraInv'
  <1>1. /\ UnderWay(f) /\ flights[f].at = "pause" /\ flights' = [flights EXCEPT ![f].at = "sent", ![f].valid = TRUE]
        /\ UNCHANGED <<server, page, loads, entries, latest, budgets, wait, owed, muted, reminded, resent>>
    BY DEF Extra!Again, UnderWay, Extra!ghosts
  <1>2. /\ flights[f] \in FlightRecord /\ page \in PageRecord /\ server \in Nat
        /\ wait \in WaitRecord \cup {None} /\ owed \in BOOLEAN /\ flights \in [Extra!Entries -> FlightRecord]
        /\ budgets \in [Loads -> BudgetRecord] /\ resent \in [Loads -> Nat]
    BY <1>1, FlightFacts DEF ExtraInv, ExtraTyped
  <1> DEFINE r == [flights[f] EXCEPT !.at = "sent", !.valid = TRUE]
  <1>3. /\ r \in FlightRecord /\ r.at = "sent" /\ r.cached = flights[f].cached /\ r.auth = flights[f].auth
        /\ r.epoch = flights[f].epoch /\ r.budget = flights[f].budget /\ r.origin = flights[f].origin
    BY <1>2 DEF FlightRecord
  <1>4. flights' = [flights EXCEPT ![f] = r]
    BY <1>1, <1>2
  <1> HIDE DEF r
  <1>5. /\ flights' \in [Extra!Entries -> FlightRecord] /\ flights'[f] = r
        /\ \A g \in Extra!Entries : g # f => flights'[g] = flights[g]
    BY <1>2, <1>3, <1>4
  <1>6. \A g \in Extra!Entries :
            /\ flights'[g].at = "none" <=> flights[g].at = "none"
            /\ flights'[g].auth = flights[g].auth /\ flights'[g].epoch = flights[g].epoch
            /\ flights'[g].budget = flights[g].budget /\ flights'[g].origin = flights[g].origin
    BY <1>1, <1>3, <1>5
  <1>7. page.auth \in Nat /\ page.epoch \in Nat
    BY <1>2 DEF PageRecord
  <1>8. page' \in PageRecord /\ page'.auth >= page.auth /\ page'.epoch >= page.epoch
    BY <1>1, <1>2, <1>7
  <1>9. OneFlight' /\ Waiters' /\ LatestLoads' /\ Budgeted'
    BY <1>1, <1>6, <1>8, ContextKeeps
  <1>10. \A g \in Extra!Entries : Cached(g)'
    <2>1. ASSUME NEW g \in Extra!Entries PROVE Cached(g)'
      <3>1. Cached(g)
        BY DEF ExtraInv, Fresh
      <3> QED BY <1>1, <1>3, <1>5, <3>1 DEF Cached, Extra!Current
    <2> QED BY <2>1
  <1>11. \A e \in Extra!Entries : Extra!Current(entries[e])' => Extra!Current(entries[e]) /\ page'.cached = page.cached
    BY <1>1 DEF Extra!Current
  <1>12. budgets' \in [Loads -> BudgetRecord] /\ resent' \in [Loads -> Nat] /\ server' \in Nat /\ server' >= server
         /\ wait' \in WaitRecord \cup {None}
    BY <1>1, <1>2
  <1> QED BY <1>1, <1>2, <1>5, <1>8, <1>9, <1>10, <1>11, <1>12, ContextStep

\* What changes the context, the list or the wait, but no entry and no load.
LEMMA OutsideKeeps ==
    ASSUME ExtraInv, (\E related \in BOOLEAN : Extra!Save(related)) \/ Extra!SignIn \/ Extra!Change \/ Extra!Expire
    PROVE  ExtraInv'
  <1>1. UNCHANGED <<loads, entries, latest, budgets, muted, reminded, resent>>
    BY DEF Extra!Save, Extra!SignIn, Extra!Change, Extra!Expire, Extra!ghosts
  <1>2. /\ page \in PageRecord /\ server \in Nat /\ wait \in WaitRecord \cup {None} /\ owed \in BOOLEAN
        /\ flights \in [Extra!Entries -> FlightRecord]
        /\ budgets \in [Loads -> BudgetRecord] /\ resent \in [Loads -> Nat]
    BY DEF ExtraInv, ExtraTyped
  <1>3. page.auth \in Nat /\ page.epoch \in Nat /\ page.cached \in Versions /\ None \in Versions
    BY <1>2 DEF PageRecord, Versions
  <1>4. /\ page' \in PageRecord /\ page'.shown = page.shown /\ page'.loaded = page.loaded
        /\ \/ page' = page
           \/ /\ page'.cached = page.cached \/ page'.cached = None
              /\ \/ page'.auth = page.auth /\ page'.epoch = page.epoch + 1
                 \/ page'.auth = page.auth + 1 /\ page'.epoch = page.epoch /\ owed' = FALSE
    <2>1. CASE \E related \in BOOLEAN : Extra!Save(related)
      <3>1. PICK cached \in {None, page.cached} : page' = [page EXCEPT !.epoch = page.epoch + 1, !.cached = cached]
        BY <1>2, <2>1 DEF Extra!Save, PageRecord
      <3>2. cached \in Versions /\ page.epoch + 1 \in Nat
        BY <1>3
      <3>3. /\ page' \in PageRecord /\ page'.shown = page.shown /\ page'.loaded = page.loaded
            /\ page'.cached = cached /\ page'.auth = page.auth /\ page'.epoch = page.epoch + 1
        BY <1>2, <3>1, <3>2 DEF PageRecord
      <3> QED BY <3>3
    <2>2. CASE Extra!SignIn
      <3>1. page' = [page EXCEPT !.auth = 1, !.cached = None] /\ page.auth = 0 /\ owed' = FALSE
        BY <2>2 DEF Extra!SignIn
      <3>2. /\ page' \in PageRecord /\ page'.shown = page.shown /\ page'.loaded = page.loaded
            /\ page'.cached = None /\ page'.auth = 1 /\ page'.epoch = page.epoch
        BY <1>2, <1>3, <3>1 DEF PageRecord
      <3>3. page'.auth = page.auth + 1
        BY <3>1, <3>2
      <3> QED BY <3>1, <3>2, <3>3
    <2>3. CASE Extra!Change \/ Extra!Expire
      BY <1>2, <2>3 DEF Extra!Change, Extra!Expire
    <2> QED BY <2>1, <2>2, <2>3
  <1>5. server' \in Nat /\ server' >= server
    <2>1. server' = server \/ server' = server + 1
      BY DEF Extra!Save, Extra!SignIn, Extra!Change, Extra!Expire
    <2> QED BY <1>2, <2>1
  <1>6. owed' \in BOOLEAN /\ (owed' => owed) /\ (page'.auth # page.auth => ~ owed')
    <2>1. owed' = owed \/ owed' = FALSE
      BY DEF Extra!Save, Extra!SignIn, Extra!Change, Extra!Expire, Extra!ghosts
    <2>2. page'.auth # page.auth => owed' = FALSE
      BY <1>4
    <2>3. owed' \in BOOLEAN
      BY <1>2, <2>1
    <2>4. owed' => owed
      BY <2>1
    <2>5. page'.auth # page.auth => ~ owed'
      BY <2>2
    <2> QED BY <2>3, <2>4, <2>5
  <1>7. wait' \in WaitRecord \cup {None}
    <2>1. wait' = wait \/ wait' = None \/ (wait # None /\ wait' = [wait EXCEPT !.manual = FALSE])
      BY DEF Extra!Save, Extra!SignIn, Extra!Change, Extra!Expire
    <2> QED BY <1>2, <2>1 DEF WaitRecord
  <1>8. /\ flights' \in [Extra!Entries -> FlightRecord]
        /\ \A f \in Extra!Entries :
              /\ flights'[f].at = flights[f].at /\ flights'[f].cached = flights[f].cached
              /\ flights'[f].auth = flights[f].auth /\ flights'[f].epoch = flights[f].epoch
              /\ flights'[f].budget = flights[f].budget /\ flights'[f].origin = flights[f].origin
    <2>1. CASE flights' = flights
      BY <1>2, <2>1
    <2>2. CASE flights' = [f \in Extra!Entries |-> [flights[f] EXCEPT !.valid = FALSE]]
      <3>1. ASSUME NEW f \in Extra!Entries
            PROVE  /\ [flights[f] EXCEPT !.valid = FALSE] \in FlightRecord
                   /\ flights'[f].at = flights[f].at /\ flights'[f].cached = flights[f].cached
                   /\ flights'[f].auth = flights[f].auth /\ flights'[f].epoch = flights[f].epoch
                   /\ flights'[f].budget = flights[f].budget /\ flights'[f].origin = flights[f].origin
        <4>1. flights[f] \in FlightRecord
          BY <1>2
        <4>2. flights'[f] = [flights[f] EXCEPT !.valid = FALSE]
          BY <2>2
        <4> QED BY <4>1, <4>2 DEF FlightRecord
      <3> QED BY <2>2, <3>1
    <2>3. flights' = flights \/ flights' = [f \in Extra!Entries |-> [flights[f] EXCEPT !.valid = FALSE]]
      BY DEF Extra!Save, Extra!SignIn, Extra!Change, Extra!Expire
    <2> QED BY <2>1, <2>2, <2>3
  <1>9. page'.auth >= page.auth /\ page'.epoch >= page.epoch
    BY <1>3, <1>4
  <1>10. /\ OneFlight' /\ Waiters' /\ LatestLoads' /\ Budgeted'
         /\ \A e \in Extra!Entries : Extra!Current(entries[e])' /\ entries[e].at # "none" => Extra!Current(entries[e])
         /\ \A f \in Extra!Entries : Extra!Current(flights[f])' /\ UnderWay(f) => Extra!Current(flights[f])
    BY <1>1, <1>4, <1>8, <1>9, ContextKeeps
  <1>11. page'.auth = page.auth /\ page'.epoch = page.epoch => page' = page
    BY <1>3, <1>4
  <1>12. ASSUME NEW e \in Extra!Entries, Extra!Current(entries[e])', entries[e].at # "none"
         PROVE  Extra!Current(entries[e]) /\ page'.cached = page.cached
    <2>1. Extra!Current(entries[e])
      BY <1>10, <1>12
    <2>2. page'.auth = page.auth /\ page'.epoch = page.epoch
      BY <1>1, <1>12, <2>1 DEF Extra!Current
    <2> QED BY <1>11, <2>1, <2>2
  <1>13. ASSUME NEW f \in Extra!Entries PROVE Cached(f)'
    <2>1. SUFFICES ASSUME flights'[f].at \in {"sent", "pause"}, Extra!Current(flights[f])'
                   PROVE  flights'[f].cached = page'.cached
      BY DEF Cached
    <2>2. flights[f].at \in {"sent", "pause"} /\ UnderWay(f)
      BY <1>8, <2>1 DEF UnderWay
    <2>3. Extra!Current(flights[f])
      BY <1>10, <2>1, <2>2
    <2>4. page'.auth = page.auth /\ page'.epoch = page.epoch
      BY <1>8, <2>1, <2>3 DEF Extra!Current
    <2>5. flights[f].cached = page.cached
      BY <2>2, <2>3 DEF ExtraInv, Fresh, Cached
    <2> QED BY <1>8, <1>11, <2>4, <2>5
  <1>14. /\ budgets' \in [Loads -> BudgetRecord] /\ resent' \in [Loads -> Nat]
         /\ (page'.cached = page.cached \/ page'.cached = None)
    BY <1>1, <1>2, <1>4
  <1> QED BY <1>1, <1>4, <1>5, <1>6, <1>7, <1>8, <1>10, <1>12, <1>13, <1>14, ContextStep

\* A load begins: what the user is owed is what it waits for.
LEMMA BeginStep ==
    ASSUME ExtraInv, NEW l \in Loads, NEW n \in {1, 2}, NEW budget, Grounds(l, n, budget),
           NEW origin \in Origins, Extra!BeginEntry(l, n, origin, budget),
           UNCHANGED <<server, page, wait, muted, reminded, resent>>,
           owed' \in BOOLEAN, owed' => page.shown = None
    PROVE  ExtraInv'
  <1>1. ExtraTyped /\ Owed
    BY DEF ExtraInv
  <1>2. /\ OneFlight' /\ Waiters' /\ LatestLoads' /\ Budgeted' /\ LatestSpeaks' /\ Fresh'
        /\ loads' \in [Loads -> LoadState] /\ entries' \in [Extra!Entries -> EntryRecord]
        /\ latest' \in Extra!Entries /\ flights' \in [Extra!Entries -> FlightRecord]
        /\ budgets' \in [Loads -> BudgetRecord]
    BY LoadBeginKeeps
  <1>3. ExtraTyped'
    BY <1>1, <1>2 DEF ExtraTyped
  <1>4. Owed'
    BY <1>1, <1>2 DEF Owed
  <1> QED BY <1>2, <1>3, <1>4 DEF ExtraInv

\* The user opens the tab, or the page loads the collection after its start.
LEMMA OpenKeeps ==
    ASSUME ExtraInv, NEW l \in Loads, Extra!Open(l) \/ Extra!Start(l)
    PROVE  ExtraInv'
  <1>1. Grounds(l, 1, l) /\ 1 \in {1, 2} /\ "manual" \in Origins /\ "automatic" \in Origins
    BY DEF Grounds, Extra!Open, Extra!Start, Origins
  <1>2. UNCHANGED <<server, page, wait, muted, reminded, resent>>
    BY DEF Extra!Open, Extra!Start, Extra!ghosts
  <1>3. owed \in BOOLEAN /\ (owed => page.shown = None)
    BY DEF ExtraInv, ExtraTyped, Owed
  <1>4. CASE Extra!Open(l)
    <2>1. Extra!BeginEntry(l, 1, "manual", l) /\ owed' = (owed \/ page.shown = None)
      BY <1>4 DEF Extra!Open
    <2>2. owed' \in BOOLEAN /\ (owed' => page.shown = None)
      BY <1>3, <2>1
    <2> QED BY <1>1, <1>2, <2>1, <2>2, BeginStep
  <1>5. CASE Extra!Start(l)
    <2>1. Extra!BeginEntry(l, 1, "automatic", l) /\ owed' = owed
      BY <1>5 DEF Extra!Start, Extra!ghosts
    <2>2. owed' \in BOOLEAN /\ (owed' => page.shown = None)
      BY <1>3, <2>1
    <2> QED BY <1>1, <1>2, <2>1, <2>2, BeginStep
  <1> QED BY <1>4, <1>5

\* What a load finds when its entry has the result.
LEMMA SettleFacts ==
    ASSUME ExtraInv, NEW l \in Loads, Extra!Settle(l)
    PROVE  /\ loads[l].at = "waits" /\ loads[l].entry \in Extra!Entries /\ entries[loads[l].entry].at = "settled"
           /\ entries[loads[l].entry].applied \in BOOLEAN /\ entries[loads[l].entry].reported \in BOOLEAN
           /\ entries[loads[l].entry].version \in Versions
           /\ page \in PageRecord /\ owed \in BOOLEAN /\ muted \in BOOLEAN
           /\ latest \in Extra!Entries \cup {None} /\ UNCHANGED <<server, wait, reminded, resent>>
  <1>1. loads[l].at = "waits" /\ entries[loads[l].entry].at = "settled" /\ UNCHANGED <<server, wait, reminded, resent>>
    BY DEF Extra!Settle
  <1>2. LoadSound(l) /\ ExtraTyped
    BY DEF ExtraInv, Waiters
  <1>3. loads[l].entry \in Extra!Entries
    BY <1>1, <1>2 DEF LoadSound
  <1>4. entries[loads[l].entry] \in EntryRecord
    BY <1>2, <1>3 DEF ExtraTyped
  <1> QED BY <1>1, <1>2, <1>3, <1>4 DEF ExtraTyped, EntryRecord

\* A load whose entry another one has taken ends; the latest entry is waited for still.
LEMMA SupersededKeeps ==
    ASSUME ExtraInv, NEW l \in Loads, Extra!Settle(l), Extra!Superseded(loads[l].entry)
    PROVE  ExtraInv'
  <1> DEFINE e == loads[l].entry
  <1>1. /\ Extra!Ends(l) /\ UNCHANGED <<page, entries, latest, flights, budgets, owed, muted>>
    BY DEF Extra!Settle
  <1>2. /\ loads[l].at = "waits" /\ e \in Extra!Entries /\ entries[e].at = "settled"
        /\ page \in PageRecord /\ owed \in BOOLEAN /\ muted \in BOOLEAN /\ UNCHANGED <<server, wait, reminded, resent>>
    BY SettleFacts
  <1>3. Owed
    BY DEF ExtraInv
  <1>4. ASSUME LatestSpeaks PROVE LatestSpeaks'
    <2>1. e # latest
      BY <1>4 DEF LatestSpeaks, Extra!Superseded
    <2>2. PICK k \in Loads : loads[k].at = "waits" /\ loads[k].entry = latest
      BY <1>4 DEF LatestSpeaks
    <2>3. loads'[k] = loads[k]
      <3>1. k # l /\ loads \in [Loads -> LoadState]
        BY <2>1, <2>2 DEF ExtraInv, ExtraTyped
      <3>2. \E at \in {"marks", "done"} : loads' = [loads EXCEPT ![l].at = at]
        BY <1>1 DEF Extra!Ends
      <3> QED BY <3>1, <3>2
    <2>4. \E j \in Loads : loads'[j].at = "waits" /\ loads'[j].entry = latest
      BY <2>2, <2>3
    <2> QED BY <1>1, <1>4, <2>4 DEF LatestSpeaks, Extra!Mutes
  <1>5. Owed'
    BY <1>1, <1>2, <1>3, <1>4 DEF Owed
  <1>6. page' \in PageRecord /\ page' = page /\ owed' \in BOOLEAN /\ muted' \in BOOLEAN
    BY <1>1, <1>2
  <1> QED BY <1>1, <1>2, <1>5, <1>6, EndStep

\* The latest load ends and leaves nothing to wait for: the collection is shown, a message is,
\* or there was nothing owed.
LEMMA LastWord ==
    ASSUME ExtraInv, NEW l \in Loads, Extra!Settle(l), loads[l].entry = latest, Extra!Ends(l),
           UNCHANGED <<latest, flights, budgets>>,
           \/ entries' = entries
           \/ entries' = [entries EXCEPT ![latest].applied = TRUE]
           \/ entries' = [entries EXCEPT ![latest].reported = TRUE],
           page' = page
              \/ (/\ Extra!Current(entries[latest]) /\ entries[latest].result = "ok"
                  /\ page' = [page EXCEPT !.shown = entries[latest].version, !.loaded = TRUE]
                  /\ entries[latest].version # None),
           owed' \in BOOLEAN, owed' => owed /\ page' = page, muted' \in BOOLEAN, muted => muted',
           ~ (owed' /\ ~ muted' /\ ~ reminded')
    PROVE  ExtraInv'
  <1>1. /\ loads[l].at = "waits" /\ latest \in Extra!Entries /\ entries[latest].at = "settled"
        /\ entries[latest].version \in Versions /\ page \in PageRecord /\ UNCHANGED <<server, wait, reminded, resent>>
    BY SettleFacts
  <1>2. Owed
    BY DEF ExtraInv
  <1>3. /\ page' \in PageRecord /\ page'.auth = page.auth /\ page'.epoch = page.epoch /\ page'.cached = page.cached
        /\ \/ page' = page
           \/ /\ Extra!Current(entries[latest]) /\ entries[latest].result = "ok"
              /\ page'.shown = entries[latest].version /\ page'.shown # None
    <2>1. CASE page' = page
      BY <1>1, <2>1
    <2>2. CASE /\ Extra!Current(entries[latest]) /\ entries[latest].result = "ok"
               /\ page' = [page EXCEPT !.shown = entries[latest].version, !.loaded = TRUE]
               /\ entries[latest].version # None
      BY <1>1, <2>2 DEF PageRecord
    <2> QED BY <2>1, <2>2
  <1>4. Owed'
    <2>1. page'.loaded /\ page'.shown = None => reminded'
      BY <1>1, <1>2, <1>3 DEF Owed
    <2>2. owed' => page'.shown = None
      BY <1>2 DEF Owed
    <2> QED BY <2>1, <2>2 DEF Owed
  <1> QED BY <1>1, <1>3, <1>4, EndStep

\* A load goes on with the result of its entry.
LEMMA SettleKeeps ==
    ASSUME ExtraInv, NEW l \in Loads, Extra!Settle(l)
    PROVE  ExtraInv'
  <1> DEFINE e == loads[l].entry
  <1>1. /\ loads[l].at = "waits" /\ e \in Extra!Entries /\ entries[e].at = "settled"
        /\ entries[e].applied \in BOOLEAN /\ entries[e].reported \in BOOLEAN /\ entries[e].version \in Versions
        /\ page \in PageRecord /\ owed \in BOOLEAN /\ muted \in BOOLEAN /\ UNCHANGED <<server, wait, reminded, resent>>
    BY SettleFacts
  <1>2. Owed /\ LoadSound(l) /\ EntryPays(e) /\ Answered(e)
    BY <1>1 DEF ExtraInv, Waiters, Budgeted, Fresh
  <1>3. CASE Extra!Superseded(e)
    BY <1>3, SupersededKeeps
  <1>4. CASE ~ Extra!Superseded(e)
    <2>1. e = latest /\ ~ entries[e].applied
      BY <1>4 DEF Extra!Superseded
    <2>2. owed /\ ~ muted /\ ~ reminded => LatestSpeaks
      BY <1>2 DEF Owed
    <2>3. CASE Extra!Current(entries[e]) /\ entries[e].result = "ok"
      <3>1. /\ Extra!Ends(l) /\ entries' = [entries EXCEPT ![latest].applied = TRUE]
            /\ page' = [page EXCEPT !.shown = entries[latest].version, !.loaded = TRUE]
            /\ owed' = FALSE /\ UNCHANGED <<latest, flights, budgets, muted>>
        BY <1>4, <2>1, <2>3 DEF Extra!Settle
      <3>2. entries[latest].version # None
        BY <1>1, <1>2, <2>1, <2>3 DEF Answered
      <3> QED BY <1>1, <2>1, <2>3, <3>1, <3>2, LastWord
    <2>4. ASSUME Extra!Ends(l), muted' = (muted \/ Extra!Mutes(e)),
                 UNCHANGED <<page, entries, latest, flights, budgets, owed>>,
                 ~ (owed /\ ~ muted' /\ ~ reminded)
          PROVE  ExtraInv'
      <3>1. muted' \in BOOLEAN /\ (muted => muted')
        BY <1>1, <2>4 DEF Extra!Mutes
      <3> QED BY <1>1, <2>1, <2>4, <3>1, LastWord
    <2>5. entries[e].result = "wait" /\ muted' = (muted \/ Extra!Mutes(e)) => ~ (owed /\ ~ muted' /\ ~ reminded)
      BY <1>1, <2>1, <2>2 DEF LatestSpeaks
    <2>6. ASSUME Extra!Ends(l), Extra!Warn(e), UNCHANGED <<page, latest, flights, budgets, muted>>
          PROVE  ExtraInv'
      <3>1. entries' = [entries EXCEPT ![latest].reported = TRUE] /\ owed' = (owed /\ entries[latest].reported)
        BY <2>1, <2>6 DEF Extra!Warn
      <3>2. ~ (owed' /\ ~ muted' /\ ~ reminded')
        BY <1>1, <2>2, <2>6, <3>1 DEF LatestSpeaks
      <3>3. owed' \in BOOLEAN /\ muted' \in BOOLEAN /\ (owed' => owed)
        BY <1>1, <2>1, <2>6, <3>1
      <3> QED BY <1>1, <2>1, <2>6, <3>1, <3>2, <3>3, LastWord
    <2>7. CASE Extra!Current(entries[e]) /\ entries[e].result = "wait"
      <3>1. /\ Extra!Ends(l) /\ muted' = (muted \/ Extra!Mutes(e))
            /\ UNCHANGED <<page, entries, latest, flights, budgets, owed>>
        BY <1>4, <2>7 DEF Extra!Settle
      <3> QED BY <2>4, <2>5, <2>7, <3>1
    <2>8. CASE Extra!Current(entries[e]) /\ entries[e].result \notin {"ok", "wait"}
      <3>1. Extra!Ends(l) /\ Extra!Warn(e) /\ UNCHANGED <<page, latest, flights, budgets, muted>>
        BY <1>4, <2>8 DEF Extra!Settle
      <3> QED BY <2>6, <3>1
    <2>9. CASE ~ Extra!Current(entries[e])
      <3> DEFINE bySave == entries[e].result \in {"ok", "changed"}
      <3>1. Extra!Discarded(l, e) /\ UNCHANGED page
        BY <1>4, <2>9 DEF Extra!Settle
      <3>2. CASE entries[e].auth # page.auth \/ entries[e].result = "wait" \/ (bySave /\ page.loaded)
        <4>1. /\ Extra!Ends(l) /\ muted' = (muted \/ Extra!Mutes(e))
              /\ UNCHANGED <<entries, latest, flights, budgets, owed>>
          BY <3>1, <3>2 DEF Extra!Discarded
        <4>2. entries[e].auth # page.auth => ~ (owed /\ ~ muted /\ ~ reminded)
          BY <2>1, <2>2 DEF LatestSpeaks
        <4>3. page.loaded => ~ (owed /\ ~ muted /\ ~ reminded)
          BY <1>2 DEF Owed
        <4>4. ~ (owed /\ ~ muted' /\ ~ reminded)
          BY <1>1, <2>5, <3>2, <4>1, <4>2, <4>3
        <4> QED BY <2>4, <3>1, <4>1, <4>4
      <3>3. CASE ~ (entries[e].auth # page.auth \/ entries[e].result = "wait" \/ (bySave /\ page.loaded))
        <4>1. CASE bySave /\ ~ loads[l].again
          <5>1. /\ Extra!BeginEntry(l, 2, loads[l].origin, Extra!UsedBudget(entries[e].budget))
                /\ UNCHANGED <<owed, muted>>
            BY <3>1, <3>3, <4>1 DEF Extra!Discarded
          <5>2. Extra!UsedBudget(entries[e].budget) = Payer(entries[latest].budget)
            BY <1>2, <2>1, UsedIs DEF EntryPays
          <5>3. Grounds(l, 2, Extra!UsedBudget(entries[e].budget))
            BY <1>1, <2>1, <4>1, <5>2 DEF Grounds, Loading
          <5>4. loads[l].origin \in Origins /\ 2 \in {1, 2}
            BY <1>1, <1>2 DEF LoadSound
          <5>5. owed' \in BOOLEAN /\ (owed' => page.shown = None)
            BY <1>1, <1>2, <5>1 DEF Owed
          <5> QED BY <1>1, <3>1, <5>1, <5>3, <5>4, <5>5, BeginStep
        <4>2. CASE ~ (bySave /\ ~ loads[l].again)
          <5>1. Extra!Ends(l) /\ Extra!Warn(e) /\ UNCHANGED <<latest, flights, budgets, muted>>
            BY <3>1, <3>3, <4>2 DEF Extra!Discarded
          <5> QED BY <2>6, <3>1, <5>1
        <4> QED BY <4>1, <4>2
      <3> QED BY <3>2, <3>3
    <2> QED BY <2>3, <2>7, <2>8, <2>9
  <1> QED BY <1>3, <1>4

\* The reminder of the attendances marks them as loaded.
LEMMA RemindKeeps ==
    ASSUME ExtraInv, NEW l \in Loads, Extra!Remind(l)
    PROVE  ExtraInv'
  <1>1. /\ loads[l].at = "marks" /\ loads' = [loads EXCEPT ![l].at = "done"] /\ page' = [page EXCEPT !.loaded = TRUE]
        /\ reminded' = (reminded \/ page.shown = None)
        /\ UNCHANGED <<server, entries, latest, flights, budgets, wait, owed, muted, resent>>
    BY DEF Extra!Remind
  <1>2. ExtraTyped /\ Owed /\ Fresh /\ page \in PageRecord
    BY DEF ExtraInv, ExtraTyped
  <1>3. /\ page' \in PageRecord /\ page'.auth = page.auth /\ page'.epoch = page.epoch
        /\ page'.shown = page.shown /\ page'.cached = page.cached
    BY <1>1, <1>2 DEF PageRecord
  <1>4. OneFlight' /\ Waiters' /\ LatestLoads' /\ Budgeted' /\ loads' \in [Loads -> LoadState]
    BY <1>1, <1>3, LoadEndKeeps
  <1>5. reminded' \in BOOLEAN
    BY <1>1, <1>2 DEF ExtraTyped
  <1>6. ExtraTyped'
    BY <1>1, <1>2, <1>3, <1>4, <1>5 DEF ExtraTyped
  <1>7. Fresh'
    BY <1>1, <1>2, <1>3 DEF Fresh, Cached, Answered, Extra!Current
  <1>8. Owed'
    BY <1>1, <1>2, <1>3 DEF Owed
  <1> QED BY <1>4, <1>6, <1>7, <1>8 DEF ExtraInv

-----------------------------------------------------------------------------
(* The loads of a deferred collection: what the invariant gives *)

\* The invariant of the loads at the beginning.
LEMMA ExtraInitHolds == Extra!Init => ExtraInv
  <1> SUFFICES ASSUME Extra!Init PROVE ExtraInv
    OBVIOUS
  <1>1. /\ server = 0 /\ page = [auth |-> 0, epoch |-> 0, loaded |-> FALSE, shown |-> None, cached |-> None]
        /\ loads = [l \in Loads |-> [at |-> "idle", again |-> FALSE, origin |-> None, entry |-> None]]
        /\ entries = [e \in Extra!Entries |-> Extra!NoEntry] /\ latest = None
        /\ flights = [e \in Extra!Entries |-> Extra!NoFlight]
        /\ budgets = [l \in Loads |-> [transient |-> 0, unknown |-> 0, link |-> None]]
        /\ wait = None /\ owed = FALSE /\ muted = FALSE /\ reminded = FALSE /\ resent = [l \in Loads |-> 0]
    BY DEF Extra!Init
  <1>2. ExtraTyped
    <2>1. page \in PageRecord
      BY <1>1 DEF PageRecord, Versions
    <2>2. loads \in [Loads -> LoadState]
      BY <1>1 DEF LoadState
    <2>3. budgets \in [Loads -> BudgetRecord] /\ resent \in [Loads -> Nat]
      BY <1>1 DEF BudgetRecord
    <2>4. entries \in [Extra!Entries -> EntryRecord] /\ flights \in [Extra!Entries -> FlightRecord]
      BY <1>1, EmptyRecords
    <2> QED BY <1>1, <2>1, <2>2, <2>3, <2>4 DEF ExtraTyped
  <1>3. \A e \in Extra!Entries : /\ entries[e].at = "none" /\ flights[e].at = "none" /\ ~ Loading(e) /\ ~ UnderWay(e)
    BY <1>1, EmptyRecords DEF Loading, UnderWay
  <1>4. OneFlight
    BY <1>3 DEF OneFlight, EntrySound
  <1>5. \A l \in Loads : loads[l].at = "idle" /\ resent[l] = 0 /\ budgets[l].link = None
    BY <1>1
  <1>6. Waiters
    <2>1. \A l \in Loads, n \in {1, 2} : <<l, n>> \in Extra!Entries
      BY DEF Extra!Entries
    <2> QED BY <1>3, <1>5, <2>1 DEF Waiters, LoadSound
  <1>7. LatestLoads
    BY <1>1, <1>3 DEF LatestLoads
  <1>8. Owed
    BY <1>1 DEF Owed
  <1>9. Budgeted
    <2>1. \A e \in Extra!Entries : e # latest
      BY <1>1, NoneIs
    <2> QED BY <1>3, <1>5, <2>1 DEF Budgeted, EntryPays, LoadKnows
  <1>10. Fresh
    BY <1>1, <1>3 DEF Fresh, Cached, Answered
  <1> QED BY <1>2, <1>4, <1>6, <1>7, <1>8, <1>9, <1>10 DEF ExtraInv

\* Every step of the loads preserves their invariant.
LEMMA ExtraStepKeeps ==
    ASSUME ExtraInv, Extra!Next \/ UNCHANGED <<loadVars, server>>
    PROVE  ExtraInv'
  <1>1. CASE UNCHANGED <<loadVars, server>>
    <2>1. UNCHANGED <<page, loads, entries, latest, flights, budgets, wait, owed, muted, reminded, resent, server>>
      BY <1>1 DEF loadVars
    <2>2. ExtraTyped'
      BY <2>1 DEF ExtraInv, ExtraTyped
    <2>3. OneFlight'
      BY <2>1 DEF ExtraInv, OneFlight, EntrySound, Loading, UnderWay, Past, Extra!Current
    <2>4. Waiters' /\ LatestLoads'
      BY <2>1 DEF ExtraInv, Waiters, LoadSound, LatestLoads, Loading, Extra!Current
    <2>5. Owed'
      BY <2>1 DEF ExtraInv, Owed, LatestSpeaks, Extra!Mutes
    <2>6. Budgeted'
      BY <2>1 DEF ExtraInv, Budgeted, EntryPays, LoadKnows, Payer, Loading, UnderWay, Extra!Current
    <2>7. Fresh'
      BY <2>1 DEF ExtraInv, Fresh, Cached, Answered, Extra!Current
    <2> QED BY <2>2, <2>3, <2>4, <2>5, <2>6, <2>7 DEF ExtraInv
  <1>2. CASE \E l \in Loads : Extra!Open(l) \/ Extra!Start(l) \/ Extra!Settle(l) \/ Extra!Remind(l)
    BY <1>2, OpenKeeps, SettleKeeps, RemindKeeps
  <1>3. CASE \E f \in Extra!Entries : Extra!Send(f) \/ Extra!Answer(f) \/ Extra!Break(f) \/ Extra!Again(f)
    BY <1>3, SendKeeps, AnswerKeeps, BreakKeeps, AgainKeeps
  <1>4. CASE \E f \in Extra!Entries, retryAfter, known \in BOOLEAN : Extra!Refuse(f, retryAfter, known)
    BY <1>4, RefuseKeeps
  <1>5. CASE (\E related \in BOOLEAN : Extra!Save(related)) \/ Extra!SignIn \/ Extra!Change \/ Extra!Expire
    BY <1>5, OutsideKeeps
  <1> QED BY <1>1, <1>2, <1>3, <1>4, <1>5 DEF Extra!Next

\* What the invariant says of messages and re-sends.
LEMMA ExtraPromises == ExtraInv => Extra!NothingSilent /\ Extra!ResendsBounded
  BY DEF ExtraInv, Owed, LatestSpeaks, Budgeted, LoadKnows, Extra!NothingSilent, Extra!UnderWay, Extra!ResendsBounded

\* Only an answer of the latest entry is shown, and it is not older than what was shown.
LEMMA ExtraGoesOn == ASSUME ExtraInv, Extra!Next \/ UNCHANGED <<loadVars, server>> PROVE Extra!Newer
  <1>1. page \in PageRecord /\ page.shown \in Versions
    BY DEF ExtraInv, ExtraTyped, PageRecord
  <1>2. page.shown # None => page.shown >= page.shown
    BY <1>1 DEF Versions
  <1>3. ASSUME NEW l \in Loads, Extra!Settle(l), page' # page
        PROVE  page.shown # None => page'.shown >= page.shown
    <2> DEFINE e == loads[l].entry
    <2>1. e \in Extra!Entries /\ entries[e].at = "settled"
      BY <1>3, SettleFacts
    <2>2. /\ ~ Extra!Superseded(e) /\ Extra!Current(entries[e]) /\ entries[e].result = "ok"
          /\ page' = [page EXCEPT !.shown = entries[e].version, !.loaded = TRUE]
      BY <1>3 DEF Extra!Settle
    <2>3. page'.shown = entries[e].version /\ e = latest
      BY <1>1, <2>2 DEF PageRecord, Extra!Superseded
    <2> QED BY <2>1, <2>2, <2>3 DEF ExtraInv, Fresh, Answered
  <1>4. ASSUME NEW f \in Extra!Entries, Extra!Answer(f) PROVE page'.shown = page.shown
    BY <1>1, <1>4 DEF Extra!Answer, PageRecord
  <1>5. ASSUME NEW l \in Loads, Extra!Remind(l) PROVE page'.shown = page.shown
    BY <1>1, <1>5 DEF Extra!Remind, PageRecord
  <1>6. ASSUME NEW related \in BOOLEAN, Extra!Save(related) PROVE page'.shown = page.shown
    BY <1>1, <1>6 DEF Extra!Save, PageRecord
  <1>7. ASSUME Extra!SignIn PROVE page'.shown = page.shown
    BY <1>1, <1>7 DEF Extra!SignIn, PageRecord
  <1>8. \/ page'.shown = page.shown
        \/ \E l \in Loads : Extra!Settle(l) /\ page' # page
    <2>1. CASE page' = page
      BY <2>1
    <2>2. ASSUME page' # page
          PROVE  \/ \E l \in Loads : Extra!Settle(l) \/ Extra!Remind(l)
                 \/ \E f \in Extra!Entries : Extra!Answer(f)
                 \/ (\E related \in BOOLEAN : Extra!Save(related)) \/ Extra!SignIn
      BY <2>2 DEF Extra!Next, loadVars, Extra!Open, Extra!Start, Extra!Send, Extra!Break, Extra!Again,
                  Extra!Refuse, Extra!Change, Extra!Expire
    <2> QED BY <1>4, <1>5, <1>6, <1>7, <2>1, <2>2
  <1> QED BY <1>2, <1>3, <1>8 DEF Extra!Newer

-----------------------------------------------------------------------------
(* The parts together *)

PartsInv == (part = "start" => StartInv) /\ (part = "extra" => ExtraInv)

\* What a step of one part preserves, and what it does to the data that is shown.
LEMMA PartsStep ==
    ASSUME PartsInv, [MCNext]_<<part, vars, startVars, loadVars, server>>
    PROVE  PartsInv' /\ (part = "start" => Start!Onward) /\ (part = "extra" => Extra!Newer)
  <1>1. part' = part
    BY DEF MCNext
  <1>2. ASSUME part = "start" PROVE StartInv' /\ Start!Onward
    <2>1. StartInv
      BY <1>2 DEF PartsInv
    <2>2. Start!Next \/ UNCHANGED <<startVars, server>>
      BY <1>2 DEF MCNext
    <2> QED BY <2>1, <2>2, StartStepKeeps, StartGoesOn
  <1>3. ASSUME part = "extra" PROVE ExtraInv' /\ Extra!Newer
    <2>1. ExtraInv
      BY <1>3 DEF PartsInv
    <2>2. Extra!Next \/ UNCHANGED <<loadVars, server>>
      BY <1>3 DEF MCNext
    <2> QED BY <2>1, <2>2, ExtraStepKeeps, ExtraGoesOn
  <1> QED BY <1>1, <1>2, <1>3 DEF PartsInv

\* The invariants of the start (PortalStart: the buttons, the caches and what each load
\* has found) and of the loads of a deferred collection (ExtraLoads: entries, GETs, budgets
\* and what the user is owed), for any number of loads, saves, refreshes and starts.
THEOREM PartsInvariant == MCSpec => []PartsInv
  <1>1. MCInit => PartsInv
    BY StartInitHolds, ExtraInitHolds DEF MCInit, PartsInv
  <1>2. PartsInv /\ [MCNext]_<<part, vars, startVars, loadVars, server>> => PartsInv'
    BY PartsStep
  <1> QED BY <1>1, <1>2, PTL DEF MCSpec

\* A start that failed can always be repeated, and the full data that is loaded is as
\* new as the refresh it was asked for (startup_auth.js, refreshPortalData).
THEOREM StartAlwaysAnswers == MCSpec => []StartAnswers
  <1>1. PartsInv => StartAnswers
    BY StartPromises DEF PartsInv, StartAnswers
  <1> QED BY <1>1, PartsInvariant, PTL

\* A user who opens a tab gets the collection or a message, and no load waits for more than
\* two re-sends, however many loads, saves and re-sends there are (loadExtraDataBatch).
THEOREM LoadsAlwaysSpeak == MCSpec => []LoadsSpeak
  <1>1. PartsInv => LoadsSpeak
    BY ExtraPromises DEF PartsInv, LoadsSpeak
  <1> QED BY <1>1, PartsInvariant, PTL

\* What the page shows is never replaced by older data, or by nothing, while one load of the
\* start's data is under way, nor by any load of a deferred collection.
THEOREM NothingGoesBack == MCSpec => NeverBack
  <1>1. PartsInv /\ [MCNext]_<<part, vars, startVars, loadVars, server>> =>
            [part = "start" => Start!Onward]_<<data, start, crossed>>
    BY PartsStep
  <1>2. PartsInv /\ [MCNext]_<<part, vars, startVars, loadVars, server>> => [part = "extra" => Extra!Newer]_page
    BY PartsStep
  <1> QED BY <1>1, <1>2, PartsInvariant, PTL DEF MCSpec, NeverBack
=============================================================================
