---------------------------- MODULE TimingCollect ----------------------------
(***************************************************************************)
(* How the timing analysis of the metronome pairs the strokes of a player  *)
(* with the clicks that sounded, while both are still arriving             *)
(* (metronome/timing_analysis.js, metronome/view_analysis.js).             *)
(*                                                                         *)
(* The clicks are taken out of the transport's time line a little ahead of *)
(* the output ("pending"), and a beat is closed ("rows") once its window   *)
(* is known and every stroke of it must have arrived.  A change of tempo,  *)
(* a pause, a fermata and the end of the recording take back beats that    *)
(* will not sound.  What the pairing should be is what anyone would compute*)
(* afterwards from the clicks that did sound ("sounded").                  *)
(*                                                                         *)
(* A unit of time stands for about 75 ms; a window is kept in twentieths   *)
(* of it, because the code takes 45 % of the interval to a neighbour.      *)
(***************************************************************************)
EXTENDS Naturals, Integers, FiniteSets, FiniteSetsExt

CONSTANTS Horizon,      \* bound: the last instant
          Periods,      \* bound: the tempos, as intervals between clicks
          MaxStrokes,   \* bound: strokes of the player
          MaxChanges,   \* bound: edits, pauses and fermatas
          AckDelay,     \* how long the answer to an edit may take
          Offset,       \* the calibrated delay of the route
          None          \* no stroke, no edit, no row before

Window == 2             \* 150 ms
Ahead == 3              \* LOOKAHEAD_SECONDS
Delay == 3              \* ATTACK_DELAY_MS
FinalAfter == 5         \* 150 ms / 0.45
StartDelay == 1         \* the delay before a run's first click
Margin == 1             \* ambiguousMarginMs: less than one unit apart
Far == 3 * Horizon + 20 \* later than everything

VARIABLES
    now,        \* the output position
    mode,       \* "running", "paused", "waiting" (fermata), "ended"
    timeline,   \* the clicks the transport has planned
    edit,       \* the edit whose answer is awaited, or None
    lastFrame,  \* the clicks before it have been taken
    pending,    \* the beats that are not closed
    attacks,    \* the strokes that are not classified
    rows,       \* the closed beats
    extras,     \* the strokes that belong to no beat
    flying,     \* strokes on their way to the analysis
    changes,    \* how many edits, pauses and fermatas there were
    sounded,    \* history: the clicks that sounded
    skipped,    \* history: clicks planned before a position already taken
    late,       \* history: strokes that came after their time
    hasty       \* history: beats closed while the answer to an edit was overdue

audio == <<now, mode, timeline, edit, changes, sounded>>
aligner == <<pending, attacks, rows, extras>>
vars == <<now, mode, timeline, edit, lastFrame, pending, attacks, rows, extras,
          flying, changes, sounded, skipped, late, hasty>>

Abs(n) == IF n < 0 THEN -n ELSE n

\* The clicks of tempo p from instant f on.
Clicks(f, p) == {x \in f..Horizon : (x - f) % p = 0}

(***************************************************************************)
(* The window of a beat at t with the given neighbours, in twentieths.     *)
(***************************************************************************)
WindowOf(t, neighbours) ==
    Min({20 * Window} \cup {9 * Abs(t - n) : n \in neighbours})

\* The stroke of S nearest to t; of two at the same distance the earlier one.
Nearest(t, S) ==
    IF S = {} THEN None
    ELSE CHOOSE a \in S : \A b \in S : \/ Abs(a - t) < Abs(b - t)
                                       \/ Abs(a - t) = Abs(b - t) /\ a <= b

\* A closed beat: the stroke taken for it, and whether another was as close.
Row(t, S) ==
    [at |-> t, hit |-> Nearest(t, S),
     ambiguous |-> \E a, b \in S : /\ a = Nearest(t, S) /\ b # a
                                   /\ Abs(b - t) - Abs(a - t) < Margin]

(***************************************************************************)
(* advance(knownUntil): closes the first beat while its window is known,   *)
(* then gives up the strokes no window can claim any more.                 *)
(***************************************************************************)
Drop(s, limit) ==
    [s EXCEPT !.attacks = {a \in @ : a >= limit},
              !.extras = @ \cup {a \in s.attacks : a < limit}]

LastRow(s) == {r.at : r \in {x \in s.rows : \A y \in s.rows : y.at <= x.at}}

\* The window of the first beat, with the last closed one and the next before and after it.
FirstWindow(s) ==
    LET t == Min(s.pending)
        nexts == s.pending \ {t}
    IN  WindowOf(t, LastRow(s) \cup (IF nexts = {} THEN {} ELSE {Min(nexts)}))

Known(s, until) ==
    LET t == Min(s.pending) IN
    /\ s.pending = {t} => until >= t + FinalAfter
    /\ 20 * (until - t) >= FirstWindow(s)

CloseFirst(s) ==
    LET t == Min(s.pending)
        reach == {a \in s.attacks : 20 * (a - t) <= FirstWindow(s)}
        inside == {a \in reach : 20 * (t - a) <= FirstWindow(s)}
    IN  [pending |-> s.pending \ {t},
         attacks |-> s.attacks \ reach,
         rows |-> s.rows \cup {Row(t, inside)},
         extras |-> s.extras \cup (reach \ {Nearest(t, inside)})]

Advance(s, until) ==
    LET beats == Cardinality(s.pending)
        after[n \in 0..beats] ==
          IF n = 0 THEN s
          ELSE LET r == after[n - 1] IN IF r.pending # {} /\ Known(r, until) THEN CloseFirst(r) ELSE r
        done == after[beats]
    IN  Drop(done, (IF done.pending = {} THEN until ELSE Min(done.pending)) - Window)

Aligner == [pending |-> pending, attacks |-> attacks, rows |-> rows, extras |-> extras]

Becomes(s) ==
    /\ pending' = s.pending
    /\ attacks' = s.attacks
    /\ rows' = s.rows
    /\ extras' = s.extras

-----------------------------------------------------------------------------
Init ==
    /\ now = 0
    /\ mode = "running"
    /\ \E p \in Periods : timeline = Clicks(1, p)
    /\ edit = None
    /\ lastFrame = 0
    /\ pending = {} /\ attacks = {} /\ rows = {} /\ extras = {}
    /\ flying = {} /\ changes = 0
    /\ sounded = {} /\ skipped = {} /\ late = {} /\ hasty = {}

\* What sounds at instant x: from its fence on, an edit cancels the old clicks,
\* and the new ones sound from the instant it was applied at.
Sounds(x) ==
    IF edit = None THEN x \in timeline
    ELSE \/ x < edit.fence /\ x \in timeline
         \/ x >= edit.applied /\ x \in edit.clicks

Tick ==
    /\ mode # "ended"
    /\ now < Horizon
    /\ \A a \in flying : now + 1 < a + Offset + Delay
    /\ edit # None => now < edit.fence + AckDelay
    /\ mode # "paused" => now + 1 < lastFrame      \* the screen is drawn often enough
    /\ now' = now + 1
    /\ sounded' = IF Sounds(now + 1) THEN sounded \cup {now + 1} ELSE sounded
    /\ UNCHANGED <<mode, timeline, edit, lastFrame, aligner, flying, changes,
                   skipped, late, hasty>>

(***************************************************************************)
(* The player: a stroke is heard "Offset" later, is set back by it, and    *)
(* reaches the analysis some time after.                                   *)
(***************************************************************************)
Strokes == flying \cup attacks \cup extras \cup ({r.hit : r \in rows} \ {None})

Play ==
    /\ mode # "ended"
    /\ Cardinality(Strokes) < MaxStrokes
    /\ now \notin Strokes
    /\ flying' = flying \cup {now}
    /\ UNCHANGED <<audio, lastFrame, aligner, skipped, late, hasty>>

Arrive ==
    /\ mode # "ended"
    /\ flying # {}
    /\ LET a == Min(flying) IN
       /\ now >= a + Offset
       /\ flying' = flying \ {a}
       /\ attacks' = attacks \cup {a}
       /\ late' = IF now >= a + Delay THEN late \cup {a} ELSE late
    /\ UNCHANGED <<audio, lastFrame, pending, rows, extras, skipped, hasty>>

(***************************************************************************)
(* A display tick: takes the clicks up to the look-ahead and closes the    *)
(* beats whose strokes have all arrived.                                   *)
(***************************************************************************)
Until == now - Delay

Taken == {c \in timeline : lastFrame <= c /\ c < now + Ahead}

Display ==
    /\ mode \in {"running", "waiting"}
    /\ lastFrame' = now + Ahead
    /\ Becomes(Advance([Aligner EXCEPT !.pending = @ \cup Taken], Until))
    /\ hasty' = IF edit # None /\ now >= edit.fence
                THEN hasty \cup {r.at : r \in rows' \ rows} ELSE hasty
    /\ UNCHANGED <<audio, flying, skipped, late>>

\* Beats that will not sound are taken back while they are open.
Withdraw(from) == {t \in pending : t < from}

(***************************************************************************)
(* An edit is sent with a fence; its answer says from when it was applied. *)
(* The time line changes with the answer only, and so do the beats taken.  *)
(***************************************************************************)
Edit ==
    /\ mode = "running" /\ edit = None
    /\ changes < MaxChanges
    /\ \E fence \in now + 1..now + 2, lag \in 0..1, p \in Periods :
          edit' = [fence |-> fence, applied |-> fence + lag,
                   clicks |-> Clicks(fence, p)]
    /\ changes' = changes + 1
    /\ UNCHANGED <<now, mode, timeline, lastFrame, aligner, flying, sounded,
                   skipped, late, hasty>>

\* Mutant of Refetched: the position taken so far stays.
RefetchedNot(from) == lastFrame

Refetched(from) == Min({lastFrame, from})

Acknowledged ==
    /\ mode = "running" /\ edit # None
    /\ edit.applied > edit.fence => now >= edit.applied
    /\ timeline' = {c \in timeline : c < edit.fence}
                   \cup {c \in edit.clicks : c >= edit.applied}
    /\ edit' = None
    /\ LET kept == Withdraw(edit.fence)
           from == Refetched(edit.applied)
           taken == {c \in timeline' : from <= c /\ c < now + Ahead}
       IN  Becomes(Advance([Aligner EXCEPT !.pending = kept \cup taken], Until))
    /\ lastFrame' = now + Ahead
    /\ UNCHANGED <<now, mode, flying, changes, sounded, skipped, late, hasty>>

(***************************************************************************)
(* A pause cancels the clicks from the next grid point; a fermata holds    *)
(* after the last planned click while the display goes on.  Both are ended *)
(* by a new run, whose first click comes StartDelay later.                 *)
(***************************************************************************)
Pause ==
    /\ mode = "running" /\ edit = None
    /\ changes < MaxChanges
    /\ mode' = "paused"
    /\ changes' = changes + 1
    /\ timeline' = {c \in timeline : c <= now}
    /\ pending' = Withdraw(now + 1)
    /\ UNCHANGED <<now, edit, lastFrame, attacks, rows, extras, flying, sounded,
                   skipped, late, hasty>>

Fermata ==
    /\ mode = "running" /\ edit = None
    /\ changes < MaxChanges
    /\ pending \subseteq 0..now       \* the planned clicks ended with it
    /\ mode' = "waiting"
    /\ changes' = changes + 1
    /\ timeline' = {c \in timeline : c <= now}
    /\ UNCHANGED <<now, edit, lastFrame, aligner, flying, sounded, skipped, late, hasty>>

Resume ==
    /\ mode \in {"paused", "waiting"}
    /\ mode' = "running"
    /\ \E p \in Periods : timeline' = Clicks(now + StartDelay, p)
    /\ skipped' = skipped \cup {c \in timeline' : c < lastFrame}
    /\ UNCHANGED <<now, edit, lastFrame, aligner, flying, changes, sounded, late, hasty>>

(***************************************************************************)
(* The end of the recording: beats after the output position never sound   *)
(* in it; everything that is open is closed.                               *)
(***************************************************************************)
Finish ==
    /\ mode # "ended" /\ edit = None
    /\ mode' = "ended"
    /\ LET s == Advance([Aligner EXCEPT !.pending = Withdraw(now + 1)], Far)
       IN  Becomes([s EXCEPT !.attacks = {}, !.extras = @ \cup s.attacks])
    /\ flying' = {}
    /\ UNCHANGED <<now, timeline, edit, lastFrame, changes, sounded, skipped, late, hasty>>

Done == mode = "ended" /\ UNCHANGED vars

Next == \/ Tick \/ Play \/ Arrive \/ Display
        \/ Edit \/ Acknowledged \/ Pause \/ Fermata \/ Resume
        \/ Finish \/ Done

Spec == Init /\ [][Next]_vars

-----------------------------------------------------------------------------
(***************************************************************************)
(* The pairing computed afterwards: the window of a beat follows from the  *)
(* beats beside it that sounded, and it takes the nearest stroke inside.   *)
(***************************************************************************)
Beats == sounded \ skipped

Beside(t) ==
    LET before == {b \in Beats : b < t}
        after == {b \in Beats : b > t}
    IN  (IF before = {} THEN {} ELSE {Max(before)})
        \cup (IF after = {} THEN {} ELSE {Min(after)})

Arrived == attacks \cup extras \cup ({r.hit : r \in rows} \ {None})

Afterwards(t) ==
    Row(t, {a \in Arrived : 20 * Abs(a - t) <= WindowOf(t, Beside(t))})

(***************************************************************************)
(* At the end of a recording every click that sounded is one beat of it,   *)
(* no other click is, no stroke belongs to two beats, and each beat has    *)
(* the stroke and the doubt a computation afterwards gives it: whatever    *)
(* was taken ahead, taken back and closed on the way.  Left out: beats     *)
(* near a stroke that came later than the analysis allows for, beats       *)
(* closed while the answer to an edit was overdue, and clicks a new run    *)
(* planned before the position already taken.                              *)
(***************************************************************************)
AsComputedAfterwards ==
    mode = "ended" =>
        /\ {r.at : r \in rows} = Beats
        /\ \A r \in rows :
              \/ r.at \in hasty \/ \E a \in late : Abs(a - r.at) <= Window
              \/ r = Afterwards(r.at)
        /\ \A r, q \in rows : r # q /\ r.hit = q.hit => r.hit = None
=============================================================================
