--------------------------- MODULE MetronomeScreen ---------------------------
(***************************************************************************)
(* The metronome's screen: the launcher that loads and mounts it           *)
(* (metronome/launcher.js) and its body, which prepares the output of the  *)
(* page and starts, pauses, resumes and releases the run                   *)
(* (metronome/index.js), together with the leases and the permit of the    *)
(* page's output manager (audio/output_manager.js).                        *)
(*                                                                         *)
(* A tap on play starts a chain of promises: the claim, the initialisation *)
(* of a backend, the first permit, the start.  The user may leave, come    *)
(* back, hide the page or tap again between two of them.  A play button    *)
(* that is disabled while a chain runs hides none of these orders: the     *)
(* score screen's own play buttons and the trainer call play() as well.    *)
(*                                                                         *)
(* A lease, a backend and a transport are named by the tap that made them. *)
(* Settings, positions and what is drawn are left out; how claims of tabs  *)
(* exclude each other is in AudioOutput, what a run plays in Transport.    *)
(***************************************************************************)
EXTENDS Naturals, FiniteSets

CONSTANTS
    Nobody,     \* no tap
    MaxTaps     \* bound: taps that start a chain

Taps == 1 .. MaxTaps
ASSUME NobodyAssumption == Nobody \notin Taps

VARIABLES
    page,      \* whether the page is visible, and the screen is the one opened
    launcher,  \* the launcher: scripts loaded, an entry that waits for them, suspended
    body,      \* the variables of the body
    manager,   \* the page's output manager
    runs,      \* the state of each transport
    chains,    \* the promises of each tap
    ghost      \* history: a start that nobody asked for; chains that overlapped

vars == <<page, launcher, body, manager, runs, chains, ghost>>

RunStates == {"none", "stopped", "running", "paused", "waiting", "interrupted"}
Stages == {"idle", "claim", "init", "renew", "resume", "done"}
NoChain == [at |-> "idle", void |-> FALSE, asked |-> FALSE]
Over == [NoChain EXCEPT !.at = "done"]

\* current: the tap whose epochs (startEpoch, launchEpoch) are still the
\* body's; kept: resumeFrom; asking: the screen's own request for the claim.
Init ==
    /\ page = [visible |-> TRUE, opened |-> FALSE]
    /\ launcher = [loaded |-> FALSE, waiting |-> FALSE, suspended |-> FALSE]
    /\ body = [mounted |-> FALSE, current |-> Nobody, claim |-> "none", asking |-> "no", lease |-> Nobody,
               output |-> Nobody, kept |-> FALSE, shown |-> "stopped", idle |-> FALSE]
    /\ manager = [claim |-> FALSE, context |-> "none", leases |-> {}, permit |-> FALSE]
    /\ runs = [t \in Taps |-> "none"]
    /\ chains = [c \in Taps |-> NoChain]
    /\ ghost = [unasked |-> FALSE, overlap |-> FALSE]

TypeOK ==
    /\ page \in [visible : BOOLEAN, opened : BOOLEAN]
    /\ launcher \in [loaded : BOOLEAN, waiting : BOOLEAN, suspended : BOOLEAN]
    /\ body \in [mounted : BOOLEAN, current : Taps \cup {Nobody}, asking : {"no", "claim", "takeover"},
                 claim : {"none", "pending", "held", "busy", "stale", "waiting"}, lease : Taps \cup {Nobody},
                 output : Taps \cup {Nobody}, kept : BOOLEAN, shown : RunStates \cup {"preparing", "busy"},
                 idle : BOOLEAN]
    /\ manager \in [claim : BOOLEAN, context : {"none", "running", "suspended"},
                    leases : SUBSET Taps, permit : BOOLEAN]
    /\ runs \in [Taps -> RunStates]
    /\ chains \in [Taps -> [at : Stages, void : BOOLEAN, asked : BOOLEAN]]
    /\ ghost \in [unasked : BOOLEAN, overlap : BOOLEAN]

-----------------------------------------------------------------------------
(* Steps that several handlers share, on the state of the body and what it uses *)

State == [body |-> body, manager |-> manager, runs |-> runs, chains |-> chains, ghost |-> ghost]
Become(s) ==
    /\ body' = s.body /\ manager' = s.manager /\ runs' = s.runs /\ chains' = s.chains /\ ghost' = s.ghost

RunState(s) == IF s.body.output = Nobody THEN "stopped" ELSE s.runs[s.body.output]

\* A transport reports that it stopped or was interrupted.
Reported(s, state) == [s EXCEPT !.body.shown = state, !.body.idle = @ \/ state = "stopped"]

Halt(s, state) ==
    IF s.body.output = Nobody THEN s
    ELSE Reported([s EXCEPT !.runs[s.body.output] = state], state)

\* interrupt: what is under way is no longer the body's.
Interrupt(s) ==
    LET t == [s EXCEPT !.body.current = Nobody]
    IN  IF RunState(s) = "stopped" THEN t ELSE Halt(t, "interrupted")

\* manager.release
Return(s, lease) ==
    [s EXCEPT !.manager.leases = @ \ {lease},
              !.manager.permit = @ /\ s.manager.leases \ {lease} # {}]

\* releaseOutput: the transport, the backend and the lease of the body.
Release(s) ==
    LET t == Halt(s, "stopped")
    IN  [Return(t, s.body.lease) EXCEPT !.body.output = Nobody, !.body.lease = Nobody]

\* The claim was lost or given back, or the context stopped: no renewal that
\* is under way gives a permit any more.  (One that was begun before the claim
\* was given back is a transaction queued before those of a newer claim, so it
\* is answered, in vain, before that claim is held.)
Voided(ch) == [c \in Taps |-> IF ch[c].at \in {"renew", "resume"} THEN [ch[c] EXCEPT !.void = TRUE] ELSE ch[c]]

\* revokeAll: every lease tells its consumer.
RevokeAll(s) ==
    LET t == [s EXCEPT !.manager.permit = FALSE, !.chains = Voided(s.chains)]
    IN  IF s.manager.leases # {} /\ RunState(s) \in {"running", "waiting", "paused"} THEN Interrupt(t) ELSE t

\* manager.drop: no other consumer keeps the claim.
Drop(s) ==
    [s EXCEPT !.manager = [claim |-> FALSE, context |-> "none", leases |-> {}, permit |-> FALSE],
              !.chains = Voided(s.chains)]

\* Everything asked for until now is the past: the user went away.
Forgotten(s) == [s EXCEPT !.chains = [c \in Taps |-> [s.chains[c] EXCEPT !.asked = FALSE]]]

\* screenShowing
Showing(s) == s.body.mounted /\ page.visible /\ page.opened

Failed(s, c) == Release([s EXCEPT !.chains[c] = Over, !.body.shown = "stopped"])

\* The end of play(): start, unless the tap is of an earlier time.
\* Mutant of Settle: leaving and other taps are not noticed.
SettleUnchecked(s, c) ==
    LET t == [s EXCEPT !.chains[c] = Over]
    IN  IF ~ s.manager.permit \/ s.manager.context # "running" THEN Release([t EXCEPT !.body.shown = "stopped"])
        ELSE IF s.body.output = Nobody THEN Failed(s, c)
        ELSE [t EXCEPT !.runs[s.body.output] = "running", !.body.shown = "running",
                       !.body.kept = FALSE, !.body.idle = FALSE, !.ghost.unasked = @ \/ ~ s.chains[c].asked]

Settle(s, c) ==
    LET t == [s EXCEPT !.chains[c] = Over]
    IN  IF s.body.current # c \/ ~ Showing(s) THEN Release(t)
        ELSE IF ~ s.manager.permit \/ s.manager.context # "running" THEN Release([t EXCEPT !.body.shown = "stopped"])
        ELSE IF s.body.output = Nobody THEN Failed(s, c)
        ELSE [t EXCEPT !.runs[s.body.output] = "running", !.body.shown = "running",
                       !.body.kept = FALSE, !.body.idle = FALSE, !.ghost.unasked = @ \/ ~ s.chains[c].asked]

\* Mutant of PrepareOutput: an output that is kept is not noticed.
PrepareOutputAgain(s, c) ==
    IF s.manager.context = "none" THEN Failed(s, c)
    ELSE [s EXCEPT !.body.lease = c, !.manager.leases = @ \cup {c}, !.chains[c].at = "init"]

\* prepareOutput: the output there is, or a lease and a backend.
PrepareOutput(s, c) ==
    IF s.body.lease # Nobody /\ s.body.output # Nobody THEN Settle(s, c)
    ELSE IF s.manager.context = "none" THEN Failed(s, c)
    ELSE [s EXCEPT !.body.lease = c, !.manager.leases = @ \cup {c}, !.chains[c].at = "init"]

\* play(), from the tap until it has to wait.
Begin(s, c) ==
    LET t == [s EXCEPT !.body.idle = FALSE, !.body.current = c, !.body.shown = "preparing",
                       !.manager.context = "running", !.chains[c].asked = TRUE,
                       !.ghost.overlap = @ \/ \E d \in Taps : s.chains[d].at \in {"claim", "init", "renew"}]
    IN  IF s.manager.claim THEN PrepareOutput([t EXCEPT !.body.claim = "held"], c)
        ELSE [t EXCEPT !.body.claim = "pending", !.chains[c].at = "claim"]

NextTap(c) == chains[c].at = "idle" /\ \A d \in Taps : d < c => chains[d].at # "idle"
UserIsThere == body.mounted /\ page.visible /\ page.opened

-----------------------------------------------------------------------------
(* Taps *)

\* play() while something runs stops it; so do the practice timer, the score
\* and the trainer, whose program stops what is paused or interrupted too.
StopPlayback ==
    /\ UserIsThere /\ RunState(State) # "stopped"
    /\ Become(Halt([State EXCEPT !.body.current = Nobody], "stopped"))
    /\ UNCHANGED <<page, launcher>>

Play(c) ==
    /\ UserIsThere /\ NextTap(c)
    /\ RunState(State) \notin {"running", "waiting"} /\ body.claim \notin {"stale", "waiting"}
    /\ Become(Begin(State, c)) /\ UNCHANGED <<page, launcher>>

Pause ==
    /\ UserIsThere /\ RunState(State) = "running" /\ body.shown = "running"
    /\ Become(Halt(State, "paused")) /\ UNCHANGED <<page, launcher>>

\* The backend did not confirm what the pause cancelled.
PauseUnconfirmed ==
    /\ RunState(State) = "paused"
    /\ Become(Halt(State, "interrupted")) /\ UNCHANGED <<page, launcher>>

\* pauseOrResume: with the output that is kept, or in the way of a new start.
Resume(c) ==
    /\ UserIsThere /\ NextTap(c) /\ body.shown \in {"paused", "interrupted"}
    /\ LET unlocked == [State EXCEPT !.manager.context = "running"]
       IN  IF body.output = Nobody
           THEN body.kept /\ body.claim \notin {"stale", "waiting"} /\ Become(Begin(State, c))
           ELSE /\ RunState(State) \in {"paused", "interrupted"}
                /\ IF ~ manager.claim \/ body.lease = Nobody
                   THEN /\ body.claim \notin {"stale", "waiting"}
                        /\ Become(Begin(Release(unlocked), c))
                   ELSE Become([unlocked EXCEPT !.chains[c] = [at |-> "resume", void |-> FALSE, asked |-> TRUE]])
    /\ UNCHANGED <<page, launcher>>

ResumeFermata ==
    /\ UserIsThere /\ RunState(State) = "waiting"
    /\ Become([State EXCEPT !.runs[body.output] = "running", !.body.shown = "running"])
    /\ UNCHANGED <<page, launcher>>

\* takeover(): the claim of a tab that does not answer.
TakeOver ==
    /\ UserIsThere /\ body.claim = "stale" /\ body.asking = "no"
    /\ body' = [body EXCEPT !.claim = "pending", !.asking = "takeover"]
    /\ UNCHANGED <<page, launcher, manager, runs, chains, ghost>>

-----------------------------------------------------------------------------
(* The promises of a tap *)

Answers == {"held", "busy", "stale", "waiting"}

ClaimAnswered(c, answer) ==
    /\ chains[c].at = "claim"
    /\ IF body.current # c
       THEN Become([State EXCEPT !.chains[c] = Over])
       ELSE LET t == [State EXCEPT !.body.claim = answer]
            IN  IF answer = "held" THEN Become(PrepareOutput([t EXCEPT !.manager.claim = TRUE], c))
                ELSE Become([t EXCEPT !.chains[c] = Over,
                                      !.body.shown = IF answer = "busy" THEN "busy" ELSE "stopped"])
    /\ UNCHANGED <<page, launcher>>

\* The backend is ready: it and its transport become the body's, whatever
\* those were; the manager renews its permit if it has leases and sound.
InitDone(c) ==
    /\ chains[c].at = "init"
    /\ LET t == [State EXCEPT !.body.output = c, !.runs[c] = "stopped"]
       IN  Become(IF manager.leases = {} \/ manager.context # "running" THEN Settle(t, c)
                  ELSE [t EXCEPT !.chains[c].at = "renew"])
    /\ UNCHANGED <<page, launcher>>

InitFailed(c) ==
    /\ chains[c].at = "init" /\ Become(Failed(State, c)) /\ UNCHANGED <<page, launcher>>

\* A renewal that is refused revokes the permit there is.
Renewed(s, ok) == IF ok THEN [s EXCEPT !.manager.permit = manager.leases # {}]
                  ELSE IF s.manager.permit THEN RevokeAll(s) ELSE s

RenewDone(c, ok) ==
    /\ chains[c].at = "renew" /\ (ok => manager.claim /\ ~ chains[c].void)
    /\ Become(Settle(Renewed(State, ok), c)) /\ UNCHANGED <<page, launcher>>

ResumeDone(c, ok) ==
    /\ chains[c].at = "resume" /\ (ok => manager.claim /\ ~ chains[c].void)
    /\ LET t == [Renewed(State, ok) EXCEPT !.chains[c] = Over]
       IN  Become(IF ok /\ RunState(t) \in {"paused", "interrupted"}
                  THEN [t EXCEPT !.runs[body.output] = "running", !.body.shown = "running",
                                 !.ghost.unasked = @ \/ ~ chains[c].asked]
                  ELSE t)
    /\ UNCHANGED <<page, launcher>>

\* The manager's own renewals, from the first lease on.
Renew ==
    /\ manager.leases # {} /\ manager.context = "running" /\ manager.claim /\ ~ manager.permit
    /\ manager' = [manager EXCEPT !.permit = TRUE]
    /\ UNCHANGED <<page, launcher, body, runs, chains, ghost>>

-----------------------------------------------------------------------------
(* What the transport and the page's output report *)

Ends(t) ==
    /\ runs[t] = "running"
    /\ Become(Reported([State EXCEPT !.runs[t] = "stopped"], "stopped")) /\ UNCHANGED <<page, launcher>>

Holds(t) ==
    /\ runs[t] = "running"
    /\ Become(Reported([State EXCEPT !.runs[t] = "waiting"], "waiting")) /\ UNCHANGED <<page, launcher>>

\* The timer of scheduleIdle: a stopped run gives its lease back.
Idle ==
    /\ body.idle
    /\ LET t == [State EXCEPT !.body.idle = FALSE]
       IN  Become(IF body.output # Nobody /\ RunState(State) = "stopped"
                  THEN [Release(t) EXCEPT !.body.idle = FALSE] ELSE t)
    /\ UNCHANGED <<page, launcher>>

\* IDLE_RELEASE_MS without a lease.
ManagerIdle ==
    /\ manager.leases = {} /\ manager.context # "none"
    /\ Become(Drop(State)) /\ UNCHANGED <<page, launcher>>

ClaimLost ==
    /\ manager.claim
    /\ LET t == RevokeAll([State EXCEPT !.manager.claim = FALSE,
                                        !.manager.context = IF @ = "none" THEN @ ELSE "suspended"])
       IN  Become(Interrupt([t EXCEPT !.body.claim = "none"]))
    /\ UNCHANGED <<page, launcher>>

ContextInterrupted ==
    /\ manager.context = "running"
    /\ Become(RevokeAll([State EXCEPT !.manager.context = "suspended"])) /\ UNCHANGED <<page, launcher>>

\* The other tab gave the claim back while this one waits for it.
Ready ==
    /\ body.mounted /\ page.visible /\ body.claim \in {"busy", "waiting"} /\ ~ manager.claim
    /\ Become([State EXCEPT !.manager.claim = TRUE, !.body.claim = "held"]) /\ UNCHANGED <<page, launcher>>

\* The answers to the screen's own requests; a takeover that came too late asks again.
ScreenAnswered(answer) ==
    /\ body.asking # "no"
    /\ body' = [body EXCEPT !.claim = IF body.asking = "takeover" /\ answer = "busy" THEN "pending" ELSE answer,
                            !.asking = IF @ = "takeover" /\ answer = "busy" THEN "claim" ELSE "no"]
    /\ manager' = [manager EXCEPT !.claim = @ \/ answer = "held"]
    /\ UNCHANGED <<page, launcher, runs, chains, ghost>>

-----------------------------------------------------------------------------
(* The launcher: entering, leaving, the page hidden and visible again *)

\* prepareClaim of the screen itself
Asked(b) == IF manager.claim THEN [b EXCEPT !.claim = "held"] ELSE [b EXCEPT !.claim = "pending", !.asking = "claim"]

Mounted(b) == Asked([b EXCEPT !.mounted = TRUE,
                              !.shown = IF b.output = Nobody THEN "stopped" ELSE runs[b.output]])

Enter ==
    /\ page.visible
    /\ page' = [page EXCEPT !.opened = TRUE]
    /\ IF body.mounted \/ ~ launcher.loaded
       THEN launcher' = [launcher EXCEPT !.suspended = FALSE, !.waiting = ~ body.mounted] /\ UNCHANGED body
       ELSE launcher' = [launcher EXCEPT !.suspended = FALSE] /\ body' = Mounted(body)
    /\ UNCHANGED <<manager, runs, chains, ghost>>

\* The scripts arrived: the last entry mounts the screen if it still shows.
Loaded ==
    /\ ~ launcher.loaded /\ launcher' = [launcher EXCEPT !.loaded = TRUE, !.waiting = FALSE]
    /\ body' = IF launcher.waiting /\ page.visible /\ page.opened THEN Mounted(body) ELSE body
    /\ UNCHANGED <<page, manager, runs, chains, ghost>>

LoadFailed ==
    /\ launcher.waiting /\ launcher' = [launcher EXCEPT !.waiting = FALSE]
    /\ UNCHANGED <<page, body, manager, runs, chains, ghost>>

Leave ==
    /\ page.opened /\ page' = [page EXCEPT !.opened = FALSE]
    /\ launcher' = [launcher EXCEPT !.waiting = FALSE, !.suspended = FALSE]
    /\ IF body.mounted
       THEN LET t == Drop(Release([State EXCEPT !.body.current = Nobody]))
            IN  Become(Forgotten([t EXCEPT !.body.mounted = FALSE, !.body.claim = "none", !.body.asking = "no"]))
       ELSE UNCHANGED <<body, manager, runs, chains, ghost>>

\* suspend(): everything that sounds is given back, the screen stays.
Suspended(s) ==
    LET playing == RunState(s) \in {"running", "waiting"}
        t == Drop(Release(Interrupt(s)))
    IN  [t EXCEPT !.body.claim = "none", !.body.asking = "no", !.body.kept = @ \/ playing,
                  !.body.shown = IF playing THEN "interrupted" ELSE "stopped"]

Hide ==
    /\ page.visible /\ page' = [page EXCEPT !.visible = FALSE]
    /\ IF body.mounted /\ ~ launcher.suspended
       THEN launcher' = [launcher EXCEPT !.suspended = TRUE] /\ Become(Forgotten(Suspended(State)))
       ELSE UNCHANGED <<launcher, body, manager, runs, chains, ghost>>

Show ==
    /\ ~ page.visible /\ page' = [page EXCEPT !.visible = TRUE]
    /\ launcher' = [launcher EXCEPT !.suspended = FALSE]
    /\ body' = IF launcher.suspended /\ body.mounted /\ page.opened THEN Asked(body) ELSE body
    /\ UNCHANGED <<manager, runs, chains, ghost>>

Next ==
    \/ Enter \/ Loaded \/ LoadFailed \/ Leave \/ Hide \/ Show
    \/ StopPlayback \/ Pause \/ PauseUnconfirmed \/ ResumeFermata \/ TakeOver
    \/ Renew \/ Idle \/ ManagerIdle \/ ClaimLost \/ ContextInterrupted \/ Ready
    \/ \E answer \in Answers : ScreenAnswered(answer)
    \/ \E c \in Taps :
         \/ Play(c) \/ Resume(c) \/ InitDone(c) \/ InitFailed(c) \/ Ends(c) \/ Holds(c)
         \/ \E answer \in Answers : ClaimAnswered(c, answer)
         \/ \E ok \in BOOLEAN : RenewDone(c, ok) \/ ResumeDone(c, ok)

Spec == Init /\ [][Next]_vars

-----------------------------------------------------------------------------
Sounds(t) == runs[t] = "running" /\ t \in manager.leases /\ manager.permit /\ manager.context = "running"

\* Nothing sounds, and nothing that could sound is kept, while the screen is
\* left or hidden, and nothing starts for a tap from before that: the promises
\* of play() and of resume come back to a page the user has left meanwhile.
NothingUnasked ==
    /\ ~ ghost.unasked
    /\ ~ UserIsThere => manager.leases = {} /\ manager.context = "none" /\ ~ manager.claim

\* A run that is shown as running has its own output, and an output that
\* nothing uses is given back, so that other tabs can play; as long as no
\* second tap came while a first one was being prepared.
RunHasOutput ==
    ~ ghost.overlap =>
       /\ body.shown = "running" => /\ RunState(State) = "running"
                                    /\ body.lease = body.output /\ body.lease \in manager.leases
       /\ \A t \in Taps : Sounds(t) => t = body.output
       /\ manager.leases \subseteq {body.lease}
=============================================================================
