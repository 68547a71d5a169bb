------------------------------ MODULE TunerScreen ------------------------------
(***************************************************************************)
(* The tuner's screen: the tap in the laboratory that prepares an          *)
(* AudioContext before the launcher is loaded (improvement_suggestions.js),*)
(* the launcher that hands contexts to the body (tuner/launcher.js), the   *)
(* controller that acquires the microphone (tuner/controller.js), the      *)
(* reference tone and the body that keeps both apart (tuner/index.js,      *)
(* tuner/playback.js, tuner/session_coordinator.js).                       *)
(*                                                                         *)
(* A generation number is modelled by what it is compared for: whether it  *)
(* is still the launcher's.  What a measurement or a tone says is left out,*)
(* and so is the claim of the page's output, which AudioOutput models.     *)
(***************************************************************************)
EXTENDS Naturals, FiniteSets

CONSTANTS
    None,       \* no context
    Contexts    \* names of AudioContexts, given again once one is closed

VARIABLES
    screen,   \* the page is visible, the tuner's tab is open, something covers it
    tap,      \* the laboratory: launcher loaded, context of a waiting tap, start requested
    entry,    \* the launcher
    capture,  \* the controller and its current run
    tone,     \* the reference tone and what the body keeps while it plays
    tuner,    \* the body: loaded, status shown, pause, earphones declared
    coord,    \* the session coordinator
    device    \* open contexts; answers that earlier runs still wait for; what nobody holds

vars == <<screen, tap, entry, capture, tone, tuner, coord, device>>

Slots == Contexts \cup {None}
Status == {"hidden", "starting", "measuring", "resume-required", "unavailable", "paused", "playing"}
Captures == {"stopped", "starting", "running", "paused", "resume-required", "unavailable"}
Idle == [state |-> "hidden", at |-> "none", ctx |-> None, mic |-> "none", lock |-> "none", current |-> FALSE]
Silence == [state |-> "none", exclusive |-> FALSE, watch |-> FALSE, lock |-> "none", withdrawn |-> FALSE]

Init ==
    /\ screen = [visible |-> TRUE, opened |-> FALSE, covered |-> FALSE]
    /\ tap = [ready |-> FALSE, ctx |-> None, asked |-> FALSE]
    /\ entry = [active |-> FALSE, current |-> FALSE, entering |-> FALSE, late |-> FALSE, primed |-> None,
                starting |-> None, returning |-> FALSE, timer |-> FALSE]
    /\ capture = Idle
    /\ tone = Silence
    /\ tuner = [loaded |-> FALSE, shown |-> "hidden", paused |-> FALSE, earphones |-> FALSE]
    /\ coord = [capture |-> "stopped", output |-> "idle"]
    /\ device = [open |-> {}, lateMic |-> FALSE, lateLock |-> FALSE, stray |-> FALSE]

TypeOK ==
    /\ screen \in [visible : BOOLEAN, opened : BOOLEAN, covered : BOOLEAN]
    /\ tap \in [ready : BOOLEAN, ctx : Slots, asked : BOOLEAN]
    /\ entry \in [active : BOOLEAN, current : BOOLEAN, entering : BOOLEAN, late : BOOLEAN, primed : Slots,
                  starting : Slots, returning : BOOLEAN, timer : BOOLEAN]
    /\ capture \in [state : Status, at : {"none", "open", "worklet", "worker", "resume", "measuring"},
                    ctx : Slots, mic : {"none", "pending", "live"}, lock : {"none", "asked", "held"},
                    current : BOOLEAN]
    /\ tone \in [state : {"none", "playing", "fading", "ending"}, exclusive : BOOLEAN, watch : BOOLEAN,
                 lock : {"none", "asked", "held"}, withdrawn : BOOLEAN]
    /\ tuner \in [loaded : BOOLEAN, shown : Status, paused : BOOLEAN, earphones : BOOLEAN]
    /\ coord \in [capture : Captures, output : {"idle", "playing"}]
    /\ device \in [open : SUBSET Contexts, lateMic : BOOLEAN, lateLock : BOOLEAN, stray : BOOLEAN]

-----------------------------------------------------------------------------
(* Steps that several handlers share *)

State == [screen |-> screen, tap |-> tap, entry |-> entry, capture |-> capture, tone |-> tone, tuner |-> tuner,
          coord |-> coord, device |-> device]
Become(s) ==
    /\ tap' = s.tap /\ entry' = s.entry /\ capture' = s.capture /\ tone' = s.tone
    /\ tuner' = s.tuner /\ coord' = s.coord /\ device' = s.device /\ screen' = s.screen

Showing(s) == s.screen.visible /\ s.screen.opened /\ ~ s.screen.covered
Close(s, ctx) == [s EXCEPT !.device.open = @ \ {ctx}]
Fresh(s) == CHOOSE c \in Contexts : c \notin s.device.open
HasFresh == Contexts \ device.open # {}

\* engine.isPlaying, exclusiveOutput, bodyIsBusy, alreadyActive
Playing(s) == s.tone.state = "playing"
Exclusive(s) == ~ s.tuner.earphones
Busy(s) == Playing(s) \/ s.capture.state \in {"starting", "measuring"}
AlreadyActive(s) == s.entry.active /\ s.entry.current /\ (s.entry.entering \/ (s.tuner.loaded /\ Busy(s)))

\* coordinator.setCapture
SetCapture(s, next) ==
    IF next = "running" /\ s.coord.output = "playing" /\ ~ s.tuner.earphones THEN s
    ELSE [s EXCEPT !.coord.capture = next]

\* onState of the body: the status shown and the coordinator follow the controller.
Emit(s, state) ==
    LET t == [s EXCEPT !.capture.state = state,
                       !.tuner.shown = IF s.tuner.paused /\ state = "hidden" THEN "paused" ELSE state]
    IN  SetCapture(t, CASE state = "measuring" -> "running"
                        [] state = "hidden" -> IF s.tuner.paused THEN "paused" ELSE "stopped"
                        [] OTHER -> state)

\* teardown: a microphone and a lock that are still asked for come late.
Teardown(s) ==
    [Close(s, s.capture.ctx) EXCEPT
       !.capture = [Idle EXCEPT !.state = s.capture.state],
       !.device.lateMic = @ \/ s.capture.mic = "pending",
       !.device.lateLock = @ \/ s.capture.lock = "asked"]

Fail(s, state) == Emit(Teardown(s), state)

\* controller.stop
StopCapture(s) ==
    IF s.capture.at = "none" /\ s.capture.state = "hidden" THEN s ELSE Emit(Teardown(s), "hidden")

\* endPlaybackSideEffects
EndTone(s) ==
    [s EXCEPT !.tone.watch = FALSE, !.tone.lock = "none", !.device.lateLock = @ \/ s.tone.lock = "asked"]

\* body.stop: engine, side effects, controller, coordinator
StopBody(s) ==
    LET t == StopCapture([EndTone(s) EXCEPT !.tone = Silence])
    IN  [t EXCEPT !.tuner.paused = FALSE, !.tuner.earphones = FALSE, !.coord = [capture |-> "stopped", output |-> "idle"]]

\* A new generation: no run and no entry of before is of the launcher's.
Bump(s) ==
    [s EXCEPT !.entry.current = FALSE, !.capture.current = FALSE,
              !.entry.late = @ \/ s.entry.entering]

\* leave() of the launcher
LeaveLauncher(s) ==
    LET t == Close(Close(Bump(s), s.entry.primed), s.entry.starting)
        u == [t EXCEPT !.entry = [@ EXCEPT !.active = FALSE, !.entering = FALSE, !.primed = None,
                                           !.starting = None, !.returning = FALSE, !.timer = FALSE]]
    IN  IF s.tuner.loaded THEN StopBody(u) ELSE u

\* prime
Prime(s) ==
    IF AlreadyActive(s) \/ s.entry.primed # None THEN s
    ELSE [Bump(s) EXCEPT !.entry.primed = Fresh(s), !.device.open = @ \cup {Fresh(s)}]

\* adoptPrimed
AdoptPrimed(s, ctx) ==
    IF ctx = None THEN Prime(s)
    ELSE IF AlreadyActive(s) THEN Close(s, ctx)
    ELSE [Bump(Close(s, s.entry.primed)) EXCEPT !.entry.primed = ctx]

\* guard of a run, and checkAlive
Guarded(s) == s.capture.current /\ s.entry.active /\ Showing(s)
Alive(s, t) == IF Guarded(s) THEN t ELSE LeaveLauncher(s)

\* controller.start
StartCapture(s, ctx) ==
    IF s.capture.at # "none" /\ s.capture.current THEN s
    ELSE LET t == [Emit(Teardown(s), "starting") EXCEPT !.capture.at = "open", !.capture.current = TRUE]
             c == IF ctx = None THEN Fresh(s) ELSE ctx
         IN  IF Guarded(t)
             THEN [t EXCEPT !.capture.ctx = c, !.capture.mic = "pending", !.device.open = @ \cup {c}]
             ELSE LeaveLauncher(Close(t, ctx))

\* body.start
StartBody(s, ctx) ==
    IF Playing(s) /\ Exclusive(s) THEN [Close(s, ctx) EXCEPT !.tuner.shown = "playing"]
    ELSE StartCapture([s EXCEPT !.tuner.paused = FALSE], ctx)

\* enter() from the moment the body is there
Entered(s) ==
    LET t == [s EXCEPT !.entry.entering = FALSE]
    IN  IF ~ Showing(s) THEN LeaveLauncher(t)
        ELSE StartBody([t EXCEPT !.entry.starting = None], s.entry.starting)

Enter(s) ==
    IF ~ Showing(s) THEN LeaveLauncher(s)
    ELSE IF s.entry.primed = None /\ AlreadyActive(s) THEN s
    ELSE LET b == IF s.entry.primed = None THEN Bump(s) ELSE s
             t == [b EXCEPT !.entry.primed = None, !.entry.active = TRUE, !.entry.current = TRUE,
                            !.entry.entering = TRUE, !.entry.starting = s.entry.primed]
         IN  IF s.tuner.loaded THEN Entered(t) ELSE t

\* resumeMeasurementFromGesture
ResumeMeasurement(s, delayed) ==
    IF ~ s.entry.active THEN s
    ELSE LET t == Prime([s EXCEPT !.entry.timer = FALSE])
         IN  IF delayed THEN [t EXCEPT !.entry.timer = TRUE]
             ELSE IF t.entry.primed = None THEN t ELSE Enter(t)

\* cancelMeasurementResume
CancelResume(s) == [Close(s, s.entry.primed) EXCEPT !.entry.timer = FALSE, !.entry.primed = None]

UserIsThere == Showing(State) /\ tuner.loaded /\ entry.active /\ HasFresh

-----------------------------------------------------------------------------
(* The laboratory and the navigation *)

\* startRequestedTuner
StartRequested(s) ==
    IF ~ s.tap.asked THEN s
    ELSE LET t == [s EXCEPT !.tap.ctx = None]
         IN  IF ~ Showing(s) THEN Close(t, s.tap.ctx)
             ELSE Enter(AdoptPrimed([t EXCEPT !.tap.asked = FALSE], s.tap.ctx))

\* prepareTunerTap
PrepareTap(s) ==
    IF s.tap.ctx # None THEN s
    ELSE [s EXCEPT !.tap.ctx = Fresh(s), !.device.open = @ \cup {Fresh(s)}]

Opened(s) == [s EXCEPT !.screen.opened = TRUE, !.screen.covered = FALSE]

\* The tap on the tuner's button: primed first, the tab is shown, then entered.
TapTuner ==
    /\ screen.visible /\ (~ screen.opened \/ screen.covered) /\ HasFresh
    /\ Become(IF tap.ready THEN Enter(Opened(Prime(State)))
              ELSE [Opened(PrepareTap(State)) EXCEPT !.tap.asked = TRUE])

\* The tab is shown by the browser's history.
RestoreTuner ==
    /\ screen.visible /\ ~ screen.opened /\ tap.ready /\ HasFresh
    /\ Become(Enter(Opened(State)))

LauncherLoaded ==
    /\ ~ tap.ready /\ HasFresh
    /\ Become(StartRequested([State EXCEPT !.tap.ready = TRUE]))

LauncherFailed ==
    /\ ~ tap.ready /\ tap.asked
    /\ Become([Close(State, tap.ctx) EXCEPT !.tap.ctx = None, !.tap.asked = FALSE])

\* leaveTuner, from every navigation
Leave ==
    /\ screen.opened
    /\ LET t == [Close(State, tap.ctx) EXCEPT !.tap.ctx = None, !.tap.asked = FALSE, !.screen.opened = FALSE]
       IN  Become(IF tap.ready THEN LeaveLauncher(t) ELSE t)

\* A panel above hides the screen, or the permission goes, without a leave.
Cover ==
    /\ screen.opened /\ ~ screen.covered /\ Become([State EXCEPT !.screen.covered = TRUE])

\* suspendForBackground, handleTunerPageHidden
Hide ==
    /\ screen.visible
    /\ LET t == [State EXCEPT !.screen.visible = FALSE]
       IN  Become(IF ~ tap.ready THEN [Close(t, tap.ctx) EXCEPT !.tap.ctx = None]
                  ELSE IF entry.active THEN [LeaveLauncher(t) EXCEPT !.entry.returning = TRUE]
                  ELSE t)

\* handleTunerPageVisible, resumeAfterVisible
Show ==
    /\ ~ screen.visible /\ HasFresh
    /\ LET t == [State EXCEPT !.screen.visible = TRUE, !.entry.returning = FALSE]
           u == IF tap.ready THEN StartRequested(t) ELSE t
       IN  Become(IF entry.returning /\ Showing(t) THEN Enter(u) ELSE u)

-----------------------------------------------------------------------------
(* The promises of an entry and of a run *)

\* An entry of an earlier generation finds that it is late.
BodyLoaded ==
    /\ ~ tuner.loaded /\ (entry.entering \/ entry.late) /\ HasFresh
    /\ LET t == [State EXCEPT !.tuner.loaded = TRUE, !.entry.late = FALSE]
       IN  Become(IF entry.entering THEN Entered(t) ELSE t)

BodyFailed ==
    /\ ~ tuner.loaded /\ (entry.entering \/ entry.late)
    /\ Become([Close(State, entry.starting) EXCEPT
                 !.entry.late = FALSE, !.entry.entering = FALSE, !.entry.starting = None,
                 !.tuner.shown = IF entry.entering THEN "unavailable" ELSE @])

MicrophoneGranted ==
    /\ capture.mic = "pending" /\ Become([State EXCEPT !.capture.mic = "live"])

\* Mutant of LateMicrophone: a microphone granted too late is kept.
LateMicrophoneKept(s) == [s EXCEPT !.device.lateMic = FALSE, !.device.stray = TRUE]

\* A microphone that a run asked for which is over is given back at once.
LateMicrophone(s) == [s EXCEPT !.device.lateMic = FALSE]

LateGrant == device.lateMic /\ Become(LateMicrophone(State))
LateLock == device.lateLock /\ Become([State EXCEPT !.device.lateLock = FALSE])

\* Worklet module, capture graph and worker are ready, each checked.
Advance ==
    /\ \/ capture.at = "open" /\ capture.mic = "live"
       \/ capture.at \in {"worklet", "worker"}
    /\ LET next == CASE capture.at = "open" -> "worklet" [] capture.at = "worklet" -> "worker" [] OTHER -> "resume"
       IN  Become(Alive(State, [State EXCEPT !.capture.at = next]))

\* The context runs, or the browser wants a tap for it.
Resumed(running) ==
    /\ capture.at = "resume"
    /\ Become(Alive(State, IF running
                           THEN [Emit(State, "measuring") EXCEPT !.capture.at = "measuring", !.capture.lock = "asked"]
                           ELSE Fail(State, "resume-required")))

StartFails ==
    /\ capture.at \in {"open", "worklet", "worker", "resume"} /\ Become(Fail(State, "unavailable"))

\* interrupted: the track, the context or the results stop.
Interrupted ==
    /\ capture.at = "measuring" /\ Become(Fail(State, "resume-required"))

\* The watchdog of a measurement, and its messages, look whether the screen shows.
WatchCapture ==
    /\ capture.at = "measuring" /\ ~ Guarded(State) /\ Become(LeaveLauncher(State))

CaptureLock ==
    /\ capture.lock = "asked" /\ Become([State EXCEPT !.capture.lock = "held"])

\* The timer of resumeMeasurementFromGesture
ResumeTimer ==
    /\ entry.timer /\ HasFresh
    /\ LET t == [State EXCEPT !.entry.timer = FALSE]
       IN  Become(IF entry.primed = None THEN t ELSE Enter(t))

-----------------------------------------------------------------------------
(* The reference tone *)

\* afterOutputStarted
ToneStarted(s, exclusive) ==
    LET t == IF exclusive THEN [StopCapture(s) EXCEPT !.tuner.shown = "playing"] ELSE s
    IN  [t EXCEPT !.tone = [state |-> "playing", exclusive |-> exclusive, watch |-> TRUE, lock |-> "asked", withdrawn |-> FALSE],
                  !.device.lateLock = @ \/ s.tone.lock = "asked",
                  !.coord.output = IF t.coord.capture = "running" /\ exclusive THEN @ ELSE "playing"]

\* onPlay and startVoicesFromTap: a refused output changes nothing but the timer.
Start(ok) ==
    /\ UserIsThere /\ (ok \/ tone.state = "none")
    /\ LET s == IF Exclusive(State) THEN CancelResume(State) ELSE State
       IN  Become(IF ok THEN ToneStarted(s, Exclusive(State)) ELSE s)

\* onStop: the tone fades, an exclusive one lets the measurement start again.
StopTone(s) ==
    LET again == s.capture.state # "measuring"
        t == [EndTone(s) EXCEPT !.tone.state = "fading"]
        u == [t EXCEPT !.tuner.shown = IF again THEN "starting" ELSE @]
    IN  [(IF again THEN ResumeMeasurement(u, TRUE) ELSE u) EXCEPT !.coord.output = "idle"]

Stop == UserIsThere /\ Playing(State) /\ Become(StopTone(State))

\* stopPlaybackFromTap without a tone: a pattern that has finished.
StopFinished ==
    /\ UserIsThere /\ ~ Playing(State) /\ capture.state # "measuring" /\ ~ tuner.paused
    /\ Become(ResumeMeasurement(State, FALSE))

\* ensureMeasurementFromTap
Practise ==
    /\ UserIsThere
    /\ IF Playing(State) /\ Exclusive(State) THEN Become(StopTone(State))
       ELSE /\ capture.state \notin {"measuring", "starting"}
            /\ Become(ResumeMeasurement([State EXCEPT !.tuner.paused = FALSE], FALSE))

\* The fade is over, or the last notes of a pattern are.
Faded == tone.state = "fading" /\ Become([State EXCEPT !.tone = Silence])
PatternEnds == tone.state = "playing" /\ Become([State EXCEPT !.tone.state = "ending"])
PatternDone ==
    /\ tone.state = "ending"
    /\ Become([EndTone(State) EXCEPT !.tone = Silence, !.coord.output = "idle",
                                     !.tuner.shown = IF tone.exclusive THEN "resume-required" ELSE @])

\* The output was revoked: a call, another consumer, a lost claim.
Revoked ==
    /\ tone.state \in {"playing", "fading", "ending"}
    /\ Become([EndTone(State) EXCEPT !.tone = Silence, !.coord.output = "idle", !.tuner.shown = "resume-required"])

ToneLock == tone.lock = "asked" /\ Become([State EXCEPT !.tone.lock = "held"])

WatchTone ==
    /\ tone.watch /\ Playing(State) /\ ~ (entry.active /\ Showing(State)) /\ Become(LeaveLauncher(State))

-----------------------------------------------------------------------------
(* Other buttons of the screen *)

\* onPauseToggle
Pause ==
    /\ UserIsThere /\ ~ tuner.paused
    /\ LET t == StopCapture(CancelResume([State EXCEPT !.tuner.paused = TRUE]))
       IN  Become([t EXCEPT !.coord.capture = "paused", !.tuner.shown = "paused"])

Unpause ==
    /\ UserIsThere /\ tuner.paused
    /\ Become(ResumeMeasurement([State EXCEPT !.tuner.paused = FALSE], FALSE))

\* restartFromGesture
Restart ==
    /\ UserIsThere
    /\ LET t == StopBody([State EXCEPT !.tuner.paused = FALSE, !.entry.timer = FALSE])
       IN  Become(Enter(Prime([t EXCEPT !.entry.active = FALSE, !.entry.current = FALSE])))

\* restartFromGesture of a load that failed: there is no body to stop.
Retry ==
    /\ Showing(State) /\ tap.ready /\ ~ tuner.loaded /\ entry.active /\ ~ entry.entering /\ HasFresh
    /\ Become(Enter(Prime([State EXCEPT !.entry = [@ EXCEPT !.timer = FALSE, !.active = FALSE, !.current = FALSE]])))

\* The choice of playing and measuring at a time, on the sound screen.
Declare(earphones) ==
    /\ UserIsThere /\ tuner.earphones # earphones
    /\ Become([State EXCEPT !.tuner.earphones = earphones,
                            !.tone.withdrawn = @ \/ (Playing(State) /\ ~ earphones)])

Timers == \/ LateGrant \/ LateLock \/ ResumeTimer \/ WatchCapture \/ WatchTone \/ Faded \/ PatternDone
Promises == \/ Advance \/ \E running \in BOOLEAN : Resumed(running)

Next ==
    \/ Timers \/ Promises
    \/ TapTuner \/ RestoreTuner \/ LauncherLoaded \/ LauncherFailed \/ Leave \/ Cover \/ Hide \/ Show
    \/ BodyLoaded \/ BodyFailed \/ MicrophoneGranted \/ StartFails \/ Interrupted \/ CaptureLock
    \/ \E ok \in BOOLEAN : Start(ok) \/ Declare(ok)
    \/ Stop \/ StopFinished \/ Practise \/ PatternEnds \/ Revoked \/ ToneLock
    \/ Pause \/ Unpause \/ Restart \/ Retry

Spec == Init /\ [][Next]_vars

-----------------------------------------------------------------------------
\* Every AudioContext that is open has one owner that will close it, so that
\* no order of taps, loads, grants and leaves leaks one.
OwnedContexts ==
    LET owners == <<tap.ctx, entry.primed, entry.starting, capture.ctx>>
    IN  /\ device.open = {owners[i] : i \in 1 .. 4} \ {None}
        /\ \A i, j \in 1 .. 4 : i # j /\ owners[i] # None => owners[i] # owners[j]

\* While the tuner is left or the page is hidden, nothing is open, measures,
\* sounds or keeps the display awake, whatever was awaited when that began.
Away == ~ screen.visible \/ ~ screen.opened
NothingKept ==
    /\ ~ device.stray
    /\ Away => /\ device.open = {} /\ capture.at = "none" /\ capture.mic = "none" /\ ~ entry.timer
               /\ tone = Silence

\* The microphone never hears a tone without earphones, not by a restart that
\* waits, a late grant or another tap, unless they are taken back while it plays.
ToneUnheard == capture.mic = "live" /\ Playing(State) => tuner.earphones \/ tone.withdrawn

\* What a user of the tuner relies on, whatever the order of taps and answers.
TunerSafe == OwnedContexts /\ NothingKept /\ ToneUnheard
=============================================================================
