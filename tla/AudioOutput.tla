------------------------------ MODULE AudioOutput ------------------------------
(***************************************************************************)
(* One tab of the portal sounds at a time (modules/audio/output_manager.js) *)
(* with its two consumers, the metronome (metronome/index.js) and the       *)
(* tuner's reference tone (tuner/index.js, playback.js).                   *)
(*                                                                         *)
(* The tabs agree by an exclusive Web Lock or, where there is none, by a   *)
(* claim record in IndexedDB.  A tab may freeze at any moment: its steps   *)
(* are then not taken, while its clicks and its tone sound on.  A transaction *)
(* happens where the call creates it and what is done with its result is a *)
(* later step.  Durations are ages and times left, which Tick changes.     *)
(*                                                                         *)
(* An action reads the state of its tab together with what all tabs share  *)
(* (View), applies the calls it makes, one operator each, and writes it    *)
(* back (Set).                                                             *)
(***************************************************************************)
EXTENDS Naturals, FiniteSets

CONSTANTS
    None,
    Tabs,
    Permit,         \* PERMIT_MS
    Stale,          \* STALE_MS
    MaxGeneration,  \* bound: claims ever made
    MaxShown        \* bound: consumers on the screen of a page at once

\* A claim record, with the time since it was written and what is left of its permit.
Claims == [owner : Tabs, generation : 1 .. MaxGeneration, state : {"running", "pending-owner"},
           age : 0 .. Stale + 1, permit : 0 .. Permit, guard : {"verified", "unverified"}]

ASSUME TabsAssumption == Tabs # {} /\ None \notin Tabs /\ None \notin Claims /\ None \notin Nat
ASSUME TimesAssumption == {Permit, Stale, MaxGeneration, MaxShown} \subseteq Nat /\ 1 <= Permit /\ Permit <= Stale

VARIABLES
    kind,      \* what the browser offers: "locks" or "indexeddb"
    lock,      \* the tab that holds the Web Lock
    claim,     \* the claim record
    counter,   \* the greatest generation of a claim
    acks,      \* the stop acknowledgements
    tabs

vars == <<kind, lock, claim, counter, acks, tabs>>

Consumers == {"metronome", "tuner"}
Leased == {"preparing", "renewing", "playing", "held", "resuming"}
Stages == {"off", "claiming"} \cup Leased

\* A page that was just opened.  state, generation, previous, observed: the tab's view
\* of the claim; ask, renewal, told: results its code has not yet seen, of which those of
\* a beat and of a request come in the order of their transactions (behind); stopping:
\* generations whose sound is being stopped; issued: permitSeq > revokedSeq; stage and
\* wanted: the metronome's lease and whether its startEpoch is still the one that asked.
Page == [state |-> "none", generation |-> 0, previous |-> None, observed |-> "no",
         ask |-> None, renewal |-> None, told |-> None, stopping |-> {},
         context |-> "none", silencing |-> FALSE, permit |-> None, issued |-> FALSE,
         retained |-> {}, stage |-> "off", wanted |-> FALSE, click |-> 0, tone |-> FALSE]

Init ==
    /\ kind \in {"locks", "indexeddb"}
    /\ lock = None /\ claim = None /\ counter = 0
    /\ acks = [t \in Tabs |-> 0]
    /\ tabs = [t \in Tabs |-> Page]

View(t) == [tab |-> t, me |-> tabs[t], lock |-> lock, claim |-> claim, counter |-> counter]

\* Writes a view back.  An observation of the record is over when it is rewritten.
Set(v) ==
    /\ lock' = v.lock /\ claim' = v.claim /\ counter' = v.counter
    /\ tabs' = [t \in Tabs |->
         LET p == IF t = v.tab THEN v.me ELSE tabs[t]
         IN  IF v.claim # claim /\ p.observed = "same" THEN [p EXCEPT !.observed = "changed"] ELSE p]
    /\ UNCHANGED kind

HasLease(p) == p.tone \/ p.stage \in Leased

\* updateGuard: verified when every lease is.
Guard(p) == IF HasLease(p) /\ ~ p.tone /\ p.stage # "preparing" THEN "verified" ELSE "unverified"

Mine(v) == v.claim # None /\ v.claim.owner = v.tab

-----------------------------------------------------------------------------
(* The claim *)

NextGeneration(v) ==
    1 + (IF v.claim # None /\ v.claim.generation > v.counter THEN v.claim.generation ELSE v.counter)

\* A record of a new generation, and the answer that the code will see.
Claimed(v, state, previous) ==
    LET g == NextGeneration(v) IN
    [v EXCEPT !.counter = g,
              !.claim = [owner |-> v.tab, generation |-> g, state |-> state, age |-> 0,
                         permit |-> 0, guard |-> Guard(v.me)],
              !.me.ask = [generation |-> g, previous |-> previous, withdrawn |-> FALSE]]

\* acquire: at once or never; a stale owner is only reported.  A lock is requested,
\* and granted later if it is free then.
Acquire(v) ==
    IF v.me.state # "none" \/ v.me.ask # None THEN v
    ELSE IF kind = "locks"
         THEN [v EXCEPT !.me.ask = [generation |-> 0, previous |-> None, withdrawn |-> FALSE]]
    ELSE IF v.claim = None \/ Mine(v) THEN Claimed(v, "running", None)
    ELSE [v EXCEPT !.me.observed = IF v.claim.age > Stale THEN "same" ELSE "no"]

Withdraw(ask) == IF ask = None THEN None ELSE [ask EXCEPT !.withdrawn = TRUE]

\* release: also of a request under way.  Only the record of this generation goes.
Release(v) ==
    [v EXCEPT !.lock = IF v.lock = v.tab THEN None ELSE @,
              !.claim = IF v.me.state # "none" /\ Mine(v) /\ v.claim.generation = v.me.generation
                        THEN None ELSE @,
              !.me.state = "none", !.me.previous = None, !.me.ask = Withdraw(@)]

\* Mutant of Holds: the record is not read again.
HoldsUnread(v) == v.me.state = "held"

Holds(v) ==
    /\ v.me.state = "held"
    /\ kind = "locks" \/ (Mine(v) /\ v.claim.generation = v.me.generation /\ v.claim.state = "running")

\* renew, from renewPermit: the record first, the permit only in RenewalDone.  late: everything
\* was revoked since, and something had been issued before.
Renew(v) ==
    IF ~ HasLease(v.me) \/ v.me.context # "running" \/ v.me.renewal # None THEN v
    ELSE [v EXCEPT !.claim = IF Holds(v) /\ @ # None
                             THEN [@ EXCEPT !.permit = Permit, !.age = 0, !.guard = Guard(v.me)] ELSE @,
                   !.me.renewal = [ok |-> Holds(v), left |-> Permit, late |-> FALSE]]

-----------------------------------------------------------------------------
(* The output of a tab *)

\* The end of a lease (release of the manager): without leases there is no permit.
Ended(v) == IF HasLease(v.me) THEN v ELSE [v EXCEPT !.me.permit = None]

\* revokeAll: every permit ends, the clicks stop, the tone ends with its lease.
RevokeAll(v) ==
    LET p == v.me IN
    Ended([v EXCEPT !.me.permit = None, !.me.issued = FALSE, !.me.click = 0, !.me.tone = FALSE,
                    !.me.renewal = IF p.issued /\ p.renewal # None
                                   THEN [p.renewal EXCEPT !.late = TRUE] ELSE p.renewal,
                    !.me.stage = IF p.stage \in {"playing", "resuming"} THEN "held" ELSE p.stage])

CloseContext(v) ==
    Release([v EXCEPT !.me.context = "none", !.me.silencing = FALSE, !.me.permit = None])

\* unlockFromGesture, inside a tap: the context runs a little later.
Unlock(v) ==
    [v EXCEPT !.me.context = IF @ = "running" THEN @ ELSE "starting", !.me.silencing = FALSE]

\* The metronome's releaseOutput.
NoMetronome(v) == Ended([v EXCEPT !.me.stage = "off", !.me.wanted = FALSE, !.me.click = 0])

\* prepareOutput: a lease, exclusive, of a backend that is still being made.
Prepare(v) ==
    IF v.me.tone THEN NoMetronome(v) ELSE Renew([v EXCEPT !.me.stage = "preparing"])

\* currentPermit.
Permitted(p) == p.permit # None /\ p.permit > 0 /\ p.context = "running"

\* What waits for a renewal, when none is under way: play's last check, and the answer
\* of a resume.  The transport hands every permit on to the worklet.
Settled(v) ==
    LET p == v.me
        playing == [v EXCEPT !.me.stage = "playing", !.me.wanted = FALSE, !.me.click = p.permit]
    IN  IF p.renewal # None \/ p.stage \notin {"renewing", "resuming", "playing"} THEN v
        ELSE IF Permitted(p) /\ (p.wanted \/ p.stage = "playing") THEN playing
        ELSE IF p.stage = "renewing" THEN NoMetronome(v)
        ELSE IF p.stage = "resuming" THEN [v EXCEPT !.me.stage = "held", !.me.wanted = FALSE]
        ELSE v

-----------------------------------------------------------------------------
(* What becomes of a request *)

\* retain and prepareClaim: a consumer is on its screen, shown again, or asks again.
Retain(t, c) ==
    /\ counter < MaxGeneration /\ tabs[t].state = "none" /\ tabs[t].ask = None
    /\ Cardinality(tabs[t].retained \cup {c}) <= MaxShown
    /\ Set(Acquire([View(t) EXCEPT !.me.retained = @ \cup {c}]))
    /\ UNCHANGED acks

\* The user confirmed that this tab takes over from the owner shown.
Takeover(t) ==
    LET v == [View(t) EXCEPT !.me.observed = "no"]
        old == [owner |-> claim.owner, generation |-> claim.generation, permit |-> claim.permit,
                guard |-> claim.guard]
    IN  /\ tabs[t].observed # "no" /\ tabs[t].ask = None /\ tabs[t].state = "none"
        /\ counter < MaxGeneration
        /\ \/ claim = None /\ Set(Claimed(v, "running", None))
           \/ claim # None /\ tabs[t].observed = "same" /\ claim.age > Stale
              /\ Set(Claimed(v, "pending-owner", old))
           \/ claim # None /\ (tabs[t].observed = "changed" \/ claim.age <= Stale) /\ Set(v)
        /\ UNCHANGED acks

\* A play that asked for the claim goes on with the answer.
Continued(v) ==
    IF v.me.stage # "claiming" \/ v.me.ask # None THEN v
    ELSE IF v.me.wanted /\ v.me.state = "held" THEN Prepare(v)
    ELSE NoMetronome(v)

\* The answer of acquire or takeover.  One that was withdrawn removes its own record.
Answered(t) ==
    LET v == View(t)  ask == tabs[t].ask  told == tabs[t].told
        w == [v EXCEPT !.me.ask = None,
                       !.me.told = IF @ = None THEN None ELSE [@ EXCEPT !.behind = FALSE]]
    IN
    /\ ask # None /\ (told # None => told.behind)
    /\ Set(Continued(
         IF kind = "locks"
         THEN IF ask.withdrawn \/ lock # None THEN w
              ELSE [w EXCEPT !.lock = t, !.me.state = "held"]
         ELSE IF ask.withdrawn
         THEN [w EXCEPT !.claim = IF Mine(v) /\ @.generation = ask.generation THEN None ELSE @]
         ELSE [w EXCEPT !.me.generation = ask.generation, !.me.previous = ask.previous,
                        !.me.state = IF ask.previous = None THEN "held" ELSE "pending-owner"]))
    /\ UNCHANGED acks

\* Mutant of Silent: the record's guard is not looked at.
SilentByTime(previous) == acks[previous.owner] >= previous.generation \/ previous.permit = 0

\* The old owner acknowledged its stop, or its last permit is over and it was one
\* that stops by itself.
Silent(previous) ==
    \/ acks[previous.owner] >= previous.generation
    \/ previous.guard = "verified" /\ previous.permit = 0

\* beat: the heartbeat of an owner, the readiness of a pending one, the loss of a former.
Beat(t) ==
    LET v == View(t)
        ready == claim.state = "pending-owner" /\ v.me.previous # None /\ Silent(v.me.previous)
        lost == ~ (Mine(v) /\ claim.generation = v.me.generation)
    IN  /\ kind = "indexeddb" /\ v.me.state # "none" /\ v.me.told = None
        /\ Set(IF lost THEN [v EXCEPT !.me.told = [what |-> "lost", generation |-> v.me.generation,
                                                  behind |-> v.me.ask # None]]
               ELSE [v EXCEPT !.claim = [claim EXCEPT !.age = 0, !.guard = Guard(v.me),
                                                      !.state = IF ready THEN "running" ELSE claim.state],
                              !.me.told = IF ready THEN [what |-> "ready", generation |-> 0,
                                                         behind |-> v.me.ask # None] ELSE None])
        /\ UNCHANGED acks

\* onLost: everything stops and the master is muted at once; the context is suspended.
Lost(v) ==
    LET w == RevokeAll(v) IN
    [w EXCEPT !.me.state = "none", !.me.wanted = FALSE, !.me.silencing = w.me.context # "none"]

\* The result of a beat, whatever has happened to the claim since.
Told(t) ==
    LET v == View(t)  told == tabs[t].told  w == [v EXCEPT !.me.told = None] IN
    /\ told # None /\ (told.behind => tabs[t].ask = None)
    /\ Set(IF told.what = "ready" THEN [w EXCEPT !.me.state = "held", !.me.previous = None]
           ELSE LET stopped == IF v.me.state = "none" THEN w ELSE Lost(w)
                IN  [stopped EXCEPT !.me.stopping = @ \cup {told.generation}])
    /\ UNCHANGED acks

\* The browser confirmed that nothing sounds: the stop is acknowledged.
Stopped(t) ==
    LET v == View(t) IN
    /\ \E g \in tabs[t].stopping :
         /\ acks' = [acks EXCEPT ![t] = g]
         /\ Set([v EXCEPT !.me.stopping = @ \ {g},
                          !.me.context = IF v.me.silencing THEN "suspended" ELSE @])

\* renewPermit, every 500 ms while there is a lease.
RenewPermit(t) ==
    /\ tabs[t].renewal = None /\ HasLease(tabs[t]) /\ tabs[t].context = "running"
    /\ Set(Renew(View(t)))
    /\ UNCHANGED acks

\* Its answer: a permit, unless all permits were revoked meanwhile.
RenewalDone(t) ==
    LET v == View(t)  r == tabs[t].renewal  w == [v EXCEPT !.me.renewal = None] IN
    /\ r # None
    /\ Set(Settled(IF ~ r.ok THEN (IF v.me.permit # None THEN RevokeAll(w) ELSE w)
                   ELSE IF r.late THEN w
                   ELSE [w EXCEPT !.me.permit = r.left, !.me.issued = TRUE]))
    /\ UNCHANGED acks
-----------------------------------------------------------------------------
(* The manager and its consumers *)

ContextRuns(t) ==
    /\ tabs[t].context = "starting"
    /\ Set([View(t) EXCEPT !.me.context = "running"])
    /\ UNCHANGED acks

\* A telephone call or the system stops the context.
Interrupted(t) ==
    LET w == IF tabs[t].silencing THEN View(t) ELSE RevokeAll(View(t)) IN
    /\ tabs[t].context = "running"
    /\ Set([w EXCEPT !.me.context = "suspended"])
    /\ UNCHANGED acks

\* Without a lease for IDLE_RELEASE_MS.
Idle(t) ==
    /\ tabs[t].context # "none" /\ ~ HasLease(tabs[t])
    /\ Set(CloseContext(View(t)))
    /\ UNCHANGED acks

\* drop: a consumer leaves its screen, or the page is hidden.
Drop(t, c) ==
    LET v == View(t)
        w == IF c = "metronome" THEN NoMetronome(v) ELSE Ended([v EXCEPT !.me.tone = FALSE])
        x == [w EXCEPT !.me.retained = @ \ {c}]
    IN  /\ c \in tabs[t].retained
        /\ Set(IF x.me.retained = {} THEN CloseContext(x) ELSE x)
        /\ UNCHANGED acks

\* shutdown: a sign-out ends every consumer.
Shutdown(t) ==
    LET v == NoMetronome(RevokeAll(View(t))) IN
    /\ tabs[t].retained # {}
    /\ Set(CloseContext([v EXCEPT !.me.retained = {}]))
    /\ UNCHANGED acks

\* play: in the tap the context, then the claim.
Play(t) ==
    LET v == [Unlock(View(t)) EXCEPT !.me.wanted = TRUE] IN
    /\ "metronome" \in tabs[t].retained /\ tabs[t].stage = "off"
    /\ tabs[t].state # "pending-owner" /\ tabs[t].observed = "no"
    /\ \/ tabs[t].state = "held" /\ Set(Prepare(v))
       \/ tabs[t].state = "none" /\ counter < MaxGeneration
          /\ Set(Continued(Acquire([v EXCEPT !.me.stage = "claiming"])))
    /\ UNCHANGED acks

\* The worklet is there, which stops by itself: the lease is verified.
Initialised(t) ==
    /\ tabs[t].stage = "preparing"
    /\ Set(Settled(Renew([View(t) EXCEPT !.me.stage = "renewing"])))
    /\ UNCHANGED acks

\* stopPlayback; while it is prepared, the preparation ends in vain.
StopPlaying(t) ==
    /\ tabs[t].stage # "off"
    /\ Set(IF tabs[t].stage \in {"playing", "held", "resuming"} THEN NoMetronome(View(t))
           ELSE [View(t) EXCEPT !.me.wanted = FALSE])
    /\ UNCHANGED acks

Pause(t) ==
    /\ tabs[t].stage = "playing"
    /\ Set([View(t) EXCEPT !.me.stage = "held", !.me.click = 0])
    /\ UNCHANGED acks

\* pauseOrResume of a paused or interrupted metronome.
Resume(t) ==
    LET v == Unlock(View(t)) IN
    /\ tabs[t].stage = "held"
    /\ Set(IF v.me.state = "held" THEN Settled(Renew([v EXCEPT !.me.stage = "resuming", !.me.wanted = TRUE]))
           ELSE NoMetronome(v))
    /\ UNCHANGED acks

\* The tone begins in the tap itself, if the tab has the claim.
Tone(t) ==
    LET v == Unlock(View(t)) IN
    /\ "tuner" \in tabs[t].retained /\ ~ tabs[t].tone
    /\ \/ tabs[t].state # "held" /\ counter < MaxGeneration /\ Set(Acquire(v))
       \/ tabs[t].state = "held"
          /\ Set(IF v.me.stage \in Leased THEN v ELSE Renew([v EXCEPT !.me.tone = TRUE]))
    /\ UNCHANGED acks

ToneEnds(t) ==
    /\ tabs[t].tone
    /\ Set(Ended([View(t) EXCEPT !.me.tone = FALSE]))
    /\ UNCHANGED acks

Less(n) == IF n = None \/ n = 0 THEN n ELSE n - 1

\* A record, what a takeover keeps of one, and a page, a little later.
Older(c) == [c EXCEPT !.age = IF c.age > Stale THEN c.age ELSE c.age + 1, !.permit = Less(c.permit)]

Shorter(old) == IF old = None THEN None ELSE [old EXCEPT !.permit = Less(old.permit)]

Aged(p) ==
    [p EXCEPT !.permit = Less(p.permit),
              !.click = IF p.context = "running" THEN Less(p.click) ELSE p.click,
              !.renewal = IF p.renewal = None THEN None ELSE [p.renewal EXCEPT !.left = Less(p.renewal.left)],
              !.ask = IF p.ask = None THEN None ELSE [p.ask EXCEPT !.previous = Shorter(p.ask.previous)],
              !.previous = Shorter(p.previous)]

\* Time passes, also for a frozen tab; the clock of a worklet only while its context runs.
Tick ==
    /\ claim' = IF claim = None THEN None ELSE Older(claim)
    /\ tabs' = [t \in Tabs |-> Aged(tabs[t])]
    /\ UNCHANGED <<kind, lock, counter, acks>>

Coordinate(t) ==
    \/ \E c \in Consumers : Retain(t, c) \/ Drop(t, c)
    \/ Takeover(t) \/ Answered(t) \/ Beat(t) \/ Told(t) \/ Stopped(t)
    \/ RenewPermit(t) \/ RenewalDone(t)

Output(t) ==
    \/ ContextRuns(t) \/ Interrupted(t) \/ Idle(t) \/ Shutdown(t)
    \/ Play(t) \/ Initialised(t)
    \/ StopPlaying(t) \/ Pause(t) \/ Resume(t) \/ Tone(t) \/ ToneEnds(t)

Next == Tick \/ \E t \in Tabs : Coordinate(t) \/ Output(t)

Spec == Init /\ [][Next]_vars

-----------------------------------------------------------------------------
(* Properties *)

Previous == [owner : Tabs, generation : 1 .. MaxGeneration, permit : 0 .. Permit,
             guard : {"verified", "unverified"}]

Pages ==
    [state : {"none", "held", "pending-owner"}, generation : 0 .. MaxGeneration,
     previous : Previous \cup {None}, observed : {"no", "same", "changed"},
     ask : [generation : 0 .. MaxGeneration, previous : Previous \cup {None}, withdrawn : BOOLEAN] \cup {None},
     renewal : [ok : BOOLEAN, left : 0 .. Permit, late : BOOLEAN] \cup {None},
     told : [what : {"lost", "ready"}, generation : 0 .. MaxGeneration, behind : BOOLEAN] \cup {None},
     stopping : SUBSET (1 .. MaxGeneration),
     context : {"none", "starting", "running", "suspended"}, silencing : BOOLEAN,
     permit : 0 .. Permit \cup {None}, issued : BOOLEAN,
     retained : SUBSET Consumers, stage : Stages, wanted : BOOLEAN,
     click : 0 .. Permit, tone : BOOLEAN]

Clicks(p) == p.stage = "playing" /\ p.click > 0
Audible(p) == p.context = "running" /\ ~ p.silencing
Sounds(t) == Audible(tabs[t]) /\ (tabs[t].tone \/ Clicks(tabs[t]))

\* Every variable has its type, a tab has one lease, and only a screen that is shown has one.
TypeOK ==
    /\ lock \in Tabs \cup {None} /\ counter \in 0 .. MaxGeneration /\ acks \in [Tabs -> 0 .. MaxGeneration]
    /\ claim \in Claims \cup {None}
    /\ tabs \in [Tabs -> Pages]
    /\ \A t \in Tabs :
         /\ ~ (tabs[t].tone /\ tabs[t].stage \in Leased)
         /\ tabs[t].tone => "tuner" \in tabs[t].retained
         /\ tabs[t].stage # "off" => "metronome" \in tabs[t].retained

\* "One tab of this origin plays at a time": with Web Locks it is so, and with the claim record of two
\* metronomes, which need a permit, whatever freezes, comes late or is given up.
OneAtATime ==
    \A t, u \in Tabs :
        IF kind = "locks" THEN Sounds(t) /\ Sounds(u) => t = u
        ELSE Audible(tabs[t]) /\ Clicks(tabs[t]) /\ Audible(tabs[u]) /\ Clicks(tabs[u]) => t = u

\* "The new owner may sound only after the old tab acknowledged its stop, or after
\* the old tab's last recorded permit expired ... AND that tab reported a verified
\* time guard": when a takeover ends, the old tab is silent, but for a tone that
\* began while its record still said "verified".
SilentWhenReady ==
    \A t \in Tabs : LET old == tabs[t].previous IN
        claim # None /\ claim' # None /\ claim.owner = t /\ claim.generation = tabs[t].generation
        /\ claim.state = "pending-owner" /\ claim'.state = "running" /\ claim'.generation = claim.generation
        => /\ ~ (Audible(tabs[old.owner]) /\ Clicks(tabs[old.owner]))
           /\ old.guard = "unverified" => ~ Sounds(old.owner)

ReadyIsSilent == [][SilentWhenReady]_vars

\* "Never reused, also after the claim record was deleted": a tab that comes back
\* can tell that the record is no longer its own.
NewWhenClaimed ==
    claim' # None /\ (claim = None \/ claim'.generation # claim.generation)
    => /\ claim'.generation > counter
       /\ \A t \in Tabs : tabs[t].generation < claim'.generation /\ acks[t] < claim'.generation

GenerationsGrow == [][NewWhenClaimed]_vars

\* What a claim that changes hands may never do.
HandedOver == ReadyIsSilent /\ GenerationsGrow
=============================================================================
