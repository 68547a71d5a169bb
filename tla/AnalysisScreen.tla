---------------------------- MODULE AnalysisScreen ----------------------------
(***************************************************************************)
(* The analysis screen of the metronome: its microphone sessions, the      *)
(* calibration of the route, and the start and end of a recording          *)
(* (metronome/view_analysis.js, metronome/calibration.js).                 *)
(*                                                                         *)
(* Every tap on the microphone button makes a session; its permission, its *)
(* worklet, saved calibrations and the preparation of a recording are      *)
(* answered later, in any order, while the user goes on.                   *)
(***************************************************************************)
EXTENDS Naturals, FiniteSets

CONSTANTS Sessions,     \* bound: microphone sessions, 1..n
          Routes,       \* bound: the routes of the sound
          MaxPreps,     \* bound: recordings prepared
          MaxSeq,       \* bound: loads and changes of calibrations
          None

VARIABLES
    session,      \* [Sessions -> state of the capture session]
    current,      \* the capture's current session, 0 for none
    micSession,   \* the session this screen asked for last, 0 for none
    mode,         \* idle, preparing, mic, calibrating, analyzing
    shown,        \* the buttons were drawn for a microphone in use
    route,
    running,      \* the click is playing
    calSeq,       \* load / save / delete requests of calibrations
    calibration,  \* the key of the calibration in use, or None
    candidate,    \* the key of the stored one offered, or None
    saved,        \* the keys with a stored calibration
    loads,        \* stored calibrations being read
    removing,     \* keys whose stored calibration is being deleted
    collect,      \* what is being recorded, or None
    preps,        \* recordings being prepared
    guards,       \* edit guards that are set
    guardOff,     \* the screen holds the means to take one off
    prepared,     \* how many recordings were prepared
    crossed,      \* history: the preparation of an older session changed the mode
    broken        \* history: a session whose node could not be made

capture == <<session, current>>
calibrations == <<calSeq, calibration, candidate, saved, loads, removing>>
recording == <<collect, preps, guards, guardOff, prepared, crossed>>
vars == <<session, current, micSession, mode, shown, route, running, calSeq,
          calibration, candidate, saved, loads, removing, collect, preps, guards,
          guardOff, prepared, crossed, broken>>

Open == {"loading", "on"}                        \* its stream is held

-----------------------------------------------------------------------------
Init ==
    /\ session = [s \in Sessions |-> "new"] /\ current = 0 /\ micSession = 0
    /\ mode = "idle" /\ shown = FALSE /\ route \in Routes /\ running = TRUE
    /\ calSeq = 0 /\ calibration = None /\ candidate = None
    /\ saved \in {{}, Routes} /\ loads = {} /\ removing = {}
    /\ collect = None /\ preps = {} /\ guards = 0 /\ guardOff = FALSE
    /\ prepared = 0 /\ crossed = FALSE /\ broken = {}

MicOn == micSession # 0 /\ current = micSession /\ session[micSession] \in Open

\* The key names the route, the device and the microphone, here the route.
RouteKeyNow == IF MicOn THEN route ELSE None

\* setMode: the buttons are drawn for the microphone as it is after the step.
SetMode(next) == mode' = next /\ shown' = MicOn'

MicMode == IF MicOn' THEN "mic" ELSE "idle"

\* invalidateCalibration; the requests under way are outdated with calSeq.
Invalidate == candidate' = None /\ calibration' = None

\* loadSavedCalibration, with the number already given to the request.
Load(key) == loads' = loads \cup {[seq |-> calSeq', session |-> micSession', key |-> key]}

Close(s) == [session EXCEPT ![s] = "closed"]

TakeGuardOff ==
    /\ guards' = IF guardOff THEN guards - 1 ELSE guards
    /\ guardOff' = FALSE

\* finishAnalysis, and the same for a recording that is dropped.
EndCollect ==
    /\ collect' = None
    /\ IF collect # None /\ collect.kind = "analysis" THEN TakeGuardOff
       ELSE UNCHANGED <<guards, guardOff>>

(***************************************************************************)
(* The microphone: the tap closes an older session, the permission and the *)
(* worklet are answered later.                                             *)
(***************************************************************************)
TapMic ==
    /\ mode # "preparing" /\ ~shown
    /\ \E s \in Sessions :
          /\ session[s] = "new" /\ \A r \in Sessions : r < s => session[r] # "new"
          /\ session' = [r \in Sessions |-> IF r = s THEN "asking"
                                            ELSE IF r = current THEN "closed"
                                            ELSE session[r]]
          /\ current' = s
          /\ micSession' = s
    /\ SetMode("preparing")
    /\ UNCHANGED <<route, running, calibrations, recording, broken>>

Granted(s) ==
    /\ session[s] = "asking" /\ current = s
    /\ session' = [session EXCEPT ![s] = "loading"]
    /\ UNCHANGED <<current, micSession, mode, shown, route, running, calibrations,
                   recording, broken>>

\* The session fails before its node is made: the permission or the module.
Failed(s) ==
    /\ session[s] \in {"asking", "loading"} /\ current = s
    /\ session' = Close(s)
    /\ current' = 0
    /\ micSession' = 0
    /\ SetMode("idle")
    /\ UNCHANGED <<route, running, calibrations, recording, broken>>

\* The node of the session cannot be made: the screen forgets the session, and
\* nothing closes it.
NodeFailed(s) ==
    /\ session[s] = "loading" /\ current = s
    /\ micSession' = 0
    /\ broken' = broken \cup {s}
    /\ session' = [session EXCEPT ![s] = "on"]
    /\ UNCHANGED <<current, route, running, calibrations, recording>>
    /\ SetMode("idle")

Started(s) ==
    /\ session[s] = "loading" /\ current = s
    /\ session' = [session EXCEPT ![s] = "on"]
    /\ UNCHANGED <<current, micSession, route, running, calibration, candidate,
                   saved, removing, recording, broken>>
    /\ SetMode("mic")
    /\ calSeq < MaxSeq /\ calSeq' = calSeq + 1
    /\ Load(route)

StopMic ==
    /\ EndCollect
    /\ session' = IF micSession = 0 THEN session ELSE Close(micSession)
    /\ current' = IF current = micSession THEN 0 ELSE current
    /\ micSession' = 0
    /\ calSeq < MaxSeq /\ calSeq' = calSeq + 1 /\ Invalidate
    /\ SetMode("idle")
    /\ UNCHANGED <<route, saved, loads, removing, preps, prepared, crossed, broken>>

TapStopMic == shown /\ StopMic /\ UNCHANGED running

\* The track ends, the screen is left or goes to the background.
TrackEnded ==
    /\ current # 0 /\ current = micSession /\ session[current] \in Open
    /\ StopMic /\ UNCHANGED running

Left == StopMic /\ running' = FALSE

ChooseRoute(r) ==
    /\ mode \notin {"analyzing", "calibrating"} /\ r # route
    /\ route' = r
    /\ calSeq + 1 < MaxSeq
    /\ Invalidate
    /\ UNCHANGED <<capture, micSession, mode, shown, running, saved, removing,
                   recording, broken>>
    /\ IF MicOn THEN calSeq' = calSeq + 2 /\ Load(r)
       ELSE calSeq' = calSeq + 1 /\ UNCHANGED loads

(***************************************************************************)
(* Stored calibrations: an answer counts while it is the latest request of *)
(* the same session and route; the user takes it with a tap of its own.    *)
(***************************************************************************)
Wanted(l) == l.seq = calSeq /\ l.session = micSession /\ l.key = RouteKeyNow

LoadAnswers(l) ==
    /\ loads' = loads \ {l}
    /\ candidate' = IF Wanted(l) /\ l.key \in saved THEN l.key ELSE candidate
    /\ UNCHANGED <<capture, micSession, mode, shown, route, running, calSeq,
                   calibration, saved, removing, recording, broken>>

UseCandidate ==
    /\ candidate # None
    /\ calibration' = IF candidate = RouteKeyNow THEN candidate ELSE calibration
    /\ candidate' = IF candidate = RouteKeyNow THEN None ELSE candidate
    /\ UNCHANGED <<capture, micSession, mode, shown, route, running, calSeq, saved,
                   loads, removing, recording, broken>>

Forget ==
    /\ RouteKeyNow # None
    /\ calSeq < MaxSeq /\ calSeq' = calSeq + 1
    /\ removing' = removing \cup {RouteKeyNow}
    /\ UNCHANGED <<capture, micSession, mode, shown, route, running, calibration,
                   candidate, saved, loads, recording, broken>>

Forgotten(key) ==
    /\ removing' = removing \ {key}
    /\ saved' = saved \ {key}
    /\ calSeq < MaxSeq /\ calSeq' = calSeq + 1 /\ Invalidate
    /\ UNCHANGED <<capture, micSession, mode, shown, route, running, loads,
                   recording, broken>>

(***************************************************************************)
(* Calibrating with the clicks.                                            *)
(***************************************************************************)
TapCalibrate ==
    /\ shown /\ mode = "mic" /\ running
    /\ collect' = [kind |-> "calibration", session |-> micSession,
                   key |-> RouteKeyNow, seq |-> calSeq]
    /\ UNCHANGED <<capture, micSession, route, running, calibrations, preps,
                   guards, guardOff, prepared, crossed, broken>>
    /\ SetMode("calibrating")

\* Mutant of Fits: a calibration is used for the route as it is at its end.
FitsAlways(c) == TRUE

Fits(c) == c.session = micSession /\ c.seq = calSeq /\ c.key = RouteKeyNow

Calibrated ==
    /\ collect # None /\ collect.kind = "calibration"
    /\ collect' = None
    /\ UNCHANGED <<capture, micSession, route, running, calSeq, candidate, loads,
                   removing, preps, guards, guardOff, prepared, crossed, broken>>
    /\ SetMode(MicMode)
    /\ \E ok, keep \in BOOLEAN :
          /\ calibration' = IF ~Fits(collect) THEN calibration
                            ELSE IF ok THEN collect.key ELSE None
          /\ saved' = IF Fits(collect) /\ ok /\ keep THEN saved \cup {collect.key}
                      ELSE saved

(***************************************************************************)
(* A recording: the room and the saving token are asked for first.         *)
(***************************************************************************)
TapStart ==
    /\ shown /\ mode = "mic" /\ running
    /\ prepared < MaxPreps
    /\ prepared' = prepared + 1
    /\ preps' = preps \cup {[id |-> prepared, session |-> micSession]}
    /\ UNCHANGED <<capture, micSession, route, running, calibrations, collect,
                   guards, guardOff, crossed, broken>>
    /\ SetMode("preparing")

StillWanted(p) == p.session = micSession /\ MicOn /\ running

Prepared(p) ==
    /\ preps' = preps \ {p}
    /\ crossed' = (crossed \/ (p.session # micSession /\ mode # "idle"))
    /\ UNCHANGED <<capture, micSession, route, running, calibrations, prepared,
                   broken>>
    /\ IF StillWanted(p)
       THEN /\ collect' = [kind |-> "analysis", session |-> p.session,
                           key |-> calibration, route |-> route]
            /\ guards' = guards + 1
            /\ guardOff' = TRUE
            /\ SetMode("analyzing")
       ELSE /\ UNCHANGED <<collect, guards, guardOff>>
            /\ SetMode(MicMode)

\* The user ends it, or the click stops, or half an hour is over.
End ==
    /\ mode \in {"analyzing", "calibrating"} /\ collect # None
    /\ EndCollect
    /\ UNCHANGED <<capture, micSession, route, running, calibrations, preps,
                   prepared, crossed, broken>>
    /\ SetMode(MicMode)

ClickStops ==
    /\ running
    /\ running' = FALSE
    /\ EndCollect
    /\ \/ UNCHANGED calibrations
       \/ calSeq < MaxSeq /\ calSeq' = calSeq + 1 /\ Invalidate /\ UNCHANGED <<saved, loads, removing>>
    /\ UNCHANGED <<capture, micSession, route, preps, prepared, crossed, broken>>
    /\ IF collect = None THEN UNCHANGED <<mode, shown>> ELSE SetMode(MicMode)

ClickPlays ==
    /\ ~running
    /\ running' = TRUE
    /\ UNCHANGED <<capture, micSession, mode, shown, route, calibrations, recording,
                   broken>>

Next ==
    \/ TapMic \/ TapStopMic \/ TrackEnded \/ Left
    \/ \E s \in Sessions : Granted(s) \/ Failed(s) \/ NodeFailed(s) \/ Started(s)
    \/ \E r \in Routes : ChooseRoute(r)
    \/ \E l \in loads : LoadAnswers(l)
    \/ UseCandidate \/ Forget \/ \E key \in removing : Forgotten(key)
    \/ TapCalibrate \/ Calibrated
    \/ TapStart \/ \E p \in preps : Prepared(p)
    \/ End \/ ClickStops \/ ClickPlays

Spec == Init /\ [][Next]_vars

-----------------------------------------------------------------------------
(***************************************************************************)
(* The calibration in use was measured for the route that is in use now; a *)
(* recording goes on with the microphone and the route it was prepared for *)
(* and uses no other calibration.  Left out: what follows when the answer  *)
(* to a preparation of an older session changes the mode.                  *)
(***************************************************************************)
CalibrationFits ==
    /\ calibration # None => calibration = route
    /\ ~crossed /\ collect # None /\ collect.kind = "analysis" =>
          /\ collect.session = micSession /\ MicOn
          /\ collect.route = route
          /\ collect.key \in {None, route}

(***************************************************************************)
(* No microphone is held that the screen has no hold of any more, and the  *)
(* edits of the click are refused exactly while a recording runs.  Left    *)
(* out: a session whose node could not be made, and what follows when the  *)
(* answer to a preparation of an older session changes the mode.           *)
(***************************************************************************)
NothingLeftBehind ==
    /\ \A s \in Sessions \ broken : session[s] \in Open => s = micSession
    /\ crossed \/ guards = (IF collect # None /\ collect.kind = "analysis" THEN 1 ELSE 0)
=============================================================================
