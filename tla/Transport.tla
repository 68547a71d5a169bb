------------------------------- MODULE Transport -------------------------------
(***************************************************************************)
(* The metronome's transport (metronome/transport.js), its worklet backend *)
(* (playback.js) and the processor that renders the clicks in the audio    *)
(* thread (click_processor.js).                                            *)
(*                                                                         *)
(* The page and the processor are two threads joined by two ordered ports. *)
(* Time is the frame the processor renders next; the page's timer may run  *)
(* at any moment and any number of frames late.  A snapshot is a tempo     *)
(* (frames per pulse), a bar (pulses), the length of a finite score (0 for *)
(* a loop) and the positions it holds; a position is a number of pulses.   *)
(***************************************************************************)
EXTENDS Integers, Sequences, FiniteSets, Functions, SequencesExt

CONSTANTS
    None,
    Snapshots,      \* those a start loads
    Edits,          \* those that changes of the settings bring
    CountIns,       \* pulses of a count-in
    Modes,          \* subset of {"nextPulse", "nextBar"}
    Guard, Delay, Horizon, Permit, TailFrames,  \* frames
    Capacity,       \* clicks the processor's queue holds
    MaxFrame,       \* bound: frames rendered
    MaxGeneration,  \* bound: starts and stops
    MaxEdits,       \* bound: changes of the settings
    MaxLag,         \* bound: frames the page's timer may be late
    MaxPosts        \* bound: batches of messages the processor has not handled yet

ASSUME FramesAssumption ==
    /\ {Guard, Delay, Horizon, Permit, TailFrames, Capacity} \subseteq Nat \ {0}
    /\ {MaxFrame, MaxGeneration, MaxEdits, MaxLag, MaxPosts} \subseteq Nat
    /\ CountIns \subseteq Nat
ASSUME SnapshotsAssumption ==
    /\ None \notin Snapshots \cup Edits
    /\ \A s \in Snapshots \cup Edits : s.step \in Nat \ {0} /\ s.bar \in Nat \ {0} /\ s.end \in Nat /\ s.hold \subseteq Nat

VARIABLES
    \* the transport
    state, gen,
    seg, segs,      \* the segment being filled, the committed segments of the run
    current,        \* the settings used when not running
    position, frontier,
    held, waiting,  \* pendingFermata, waitingFermata
    ended, lastFrame,
    renewed,        \* the frame of the last renewal of the permit
    editing, chain, \* whether a fence waits for its ack, the edits after it
    fence,          \* what the edit under way remembers
    edits,          \* number of edits asked so far
    cancelling,     \* generations whose cancelFrom waits for its ack
    \* the ports and the processor
    toProcessor, toPage,
    now, queue, playing, permitUntil,
    \* history: the last two clicks of the run; whether it lost a click; whether one of
    \* its boundaries was taken from a segment that did not play yet
    heard, lost, apart

page == <<state, gen, seg, segs, current, position, frontier, held, waiting, ended,
          lastFrame, renewed, editing, chain, fence, edits, cancelling>>
processor == <<now, queue, playing, permitUntil, heard, lost>>
vars == <<page, toProcessor, toPage, processor, apart>>

Init ==
    /\ state = "stopped" /\ gen = 0
    /\ seg = None /\ segs = <<>> /\ current = None
    /\ position = 0 /\ frontier = 0
    /\ held = None /\ waiting = None
    /\ ended = FALSE /\ lastFrame = 0 /\ renewed = 0
    /\ editing = FALSE /\ chain = <<>> /\ fence = None /\ edits = 0 /\ cancelling = {}
    /\ toProcessor = <<>> /\ toPage = <<>>
    /\ now = 0 /\ queue = <<>> /\ playing = 0 /\ permitUntil = 0
    /\ heard = <<>> /\ lost = FALSE /\ apart = FALSE

Least(S) == CHOOSE x \in S : \A y \in S : x <= y
Larger(a, b) == IF a >= b THEN a ELSE b
Up(a, b) == -((-a) \div b)

-----------------------------------------------------------------------------
(* Positions and frames of a segment *)

FrameOf(g, s) == g.frame + g.snap.step * (s - g.score)

\* approxScore(scoreAtFrame(f)), rounded down to a pulse.
ScoreAt(g, f) == Larger(0, g.score + (f - g.frame) \div g.snap.step)

\* Mutant of SegmentAt: the newest.
NewestSegment(f) == seg

\* The committed segment that plays frame f.
SegmentAt(f) ==
    LET begun == {i \in DOMAIN segs : segs[i].frame <= f}
    IN IF segs = <<>> THEN seg
       ELSE IF begun = {} THEN segs[1] ELSE segs[CHOOSE i \in begun : \A j \in begun : j <= i]

\* Is there a bar at position s?
InScore(snap, s) == snap.end = 0 \/ s < snap.end

\* The next grid point strictly after what sounds at frame f, or None after the end.
BoundaryAfter(g, f, mode) ==
    LET s == ScoreAt(g, f)
    IN IF ~InScore(g.snap, s) THEN None
       ELSE IF mode = "nextBar" THEN (s \div g.snap.bar + 1) * g.snap.bar ELSE s + 1

SameStructure(a, b) == a.end = b.end /\ a.bar = b.bar

\* The position of the first bar of the new structure that begins at or after s.
Converted(s, old, new) == new.bar * Up(s, old.bar)

-----------------------------------------------------------------------------
(* The clicks of a segment *)

\* Those at positions from..to-1.
Clicks(g, from, to, run) ==
    LET last == IF g.snap.end = 0 THEN to ELSE IF to < g.snap.end THEN to ELSE g.snap.end
    IN [i \in 1..Larger(0, last - from) |->
           [frame |-> FrameOf(g, from + i - 1), at |-> from + i - 1, snap |-> g.snap, gen |-> run]]

\* compile() finds a fermata in a window, and nothing after it is in its clicks.
HoldsIn(snap, from, to) == {s \in from..(to - 1) : s \in snap.hold /\ InScore(snap, s)}

\* Mutant of UpTo: nothing stops at a fermata.
UpToTheWindow(stops, to) == to

\* Up to the first stop, whose own click sounds.
UpTo(stops, to) == IF stops = {} THEN to ELSE Least(stops) + 1

\* compile() of the window of one pulse says that the score ends: it walked past the
\* last bar, of which the window held the pulse s.
EndsIn(snap, s) == snap.end > 0 /\ s < snap.end /\ s >= snap.end - snap.bar

\* Pulse by pulse until the target frame is covered, a fermata or the end.
FillSegment(g, from, target, run) ==
    LET to == from + Larger(0, Up(target - FrameOf(g, from), g.snap.step))
        stops == HoldsIn(g.snap, from, to) \cup {s \in from..(to - 1) : EndsIn(g.snap, s)}
        at == Least(stops)
        clicks == Clicks(g, from, UpTo(stops, to), run)
    IN [clicks |-> clicks,
        frontier |-> IF stops = {} THEN to ELSE at,
        held |-> IF stops # {} /\ at \in g.snap.hold THEN at ELSE None,
        ended |-> stops # {} /\ at \notin g.snap.hold,
        last |-> IF clicks = <<>> THEN 0 ELSE Last(clicks).frame]

Schedule(clicks, run) ==
    IF clicks = <<>> THEN <<>> ELSE <<[type |-> "append", gen |-> run, clicks |-> clicks]>>

\* Mutant of Flushed: the new settings alone fill the queue.
NotFlushed(b) == <<>>

\* What flushUntil(b) schedules: the old settings up to the boundary.
Flushed(b) ==
    IF frontier < b THEN Clicks(seg, frontier, UpTo(HoldsIn(seg.snap, frontier, b), b), gen) ELSE <<>>

\* The messages of one task of the page arrive together.
Post(messages) ==
    /\ Len(toProcessor) < MaxPosts
    /\ toProcessor' = Append(toProcessor, messages)

RenewPermit(run) == <<[type |-> "permit", gen |-> run, until |-> now + Permit]>>

-----------------------------------------------------------------------------
(* The page.  An edit that waits runs as soon as the one before it is settled, before *)
(* any other task of the page.                                                        *)

Settled == chain = <<>> \/ fence # None

\* begin() and the tick that follows it.
Begin(snap, from, pulses) ==
    LET run == gen + 1
        first == [snap |-> snap, score |-> from, frame |-> now + Delay + pulses * snap.step]
        in == [i \in 1..pulses |-> [frame |-> FrameOf(first, from - pulses + i - 1),
                                    at |-> from - pulses + i - 1, snap |-> snap, gen |-> run]]
        r == FillSegment(first, from, now + Horizon, run)
    IN /\ gen < MaxGeneration
       /\ state' = "running" /\ gen' = run
       /\ seg' = first /\ segs' = <<first>>
       /\ frontier' = r.frontier /\ held' = r.held /\ waiting' = None
       /\ ended' = r.ended /\ lastFrame' = Larger(first.frame, r.last)
       /\ editing' = FALSE
       /\ Post(<<[type |-> "stop", gen |-> run]>> \o RenewPermit(run) \o Schedule(in, run) \o Schedule(r.clicks, run))
       /\ renewed' = now
       /\ apart' = FALSE
       /\ UNCHANGED <<position, chain, fence, edits, cancelling, toPage, processor>>

\* Play: the settings are loaded and the performance starts at the beginning.
Start ==
    /\ Settled
    /\ state \notin {"running", "waiting"}
    /\ \E snap \in Snapshots, pulses \in CountIns : current' = snap /\ Begin(snap, 0, pulses)

Resume ==
    /\ Settled
    /\ state \in {"paused", "interrupted"}
    /\ \E pulses \in CountIns : Begin(current, position, pulses)
    /\ UNCHANGED current

\* stopInternal(): with keep, the position becomes the pulse that sounds.  What the next
\* start sets is cleared.
StopInternal(next, keep) ==
    LET sounding == state \in {"running", "waiting"} /\ seg # None
        at == SegmentAt(now)
        s == ScoreAt(at, now)
        kept == IF sounding THEN at ELSE seg
    IN /\ gen < MaxGeneration
       /\ state' = next /\ gen' = gen + 1
       /\ position' = IF ~keep THEN 0
                      ELSE IF ~sounding THEN position
                      ELSE IF InScore(at.snap, s) THEN s ELSE 0
       /\ current' = IF kept = None THEN current ELSE kept.snap
       /\ seg' = None /\ segs' = <<>> /\ held' = None /\ waiting' = None
       /\ editing' = FALSE
       /\ Post(<<[type |-> "stop", gen |-> gen + 1]>>)
       /\ frontier' = 0 /\ ended' = FALSE /\ lastFrame' = 0 /\ renewed' = 0 /\ apart' = FALSE
       /\ UNCHANGED <<chain, edits, cancelling, processor>>

Stop ==
    /\ Settled
    /\ state # "stopped"
    /\ StopInternal("stopped", FALSE)
    /\ UNCHANGED <<fence, toPage>>

Interrupt ==
    /\ Settled
    /\ state # "stopped"
    /\ StopInternal("interrupted", TRUE)
    /\ UNCHANGED <<fence, toPage>>

\* Fermata: on with the next click, or the end.
ResumeFermata ==
    /\ Settled
    /\ state = "waiting"
    /\ \/ /\ InScore(seg.snap, waiting + 1)
          /\ \E pulses \in CountIns : Begin(seg.snap, waiting + 1, pulses)
          /\ UNCHANGED current
       \/ /\ ~InScore(seg.snap, waiting + 1)
          /\ StopInternal("stopped", FALSE)
          /\ UNCHANGED <<fence, toPage>>

\* A boundary is taken from the newest segment; does another one still play?
Ahead == now + Guard < seg.frame /\ Len(segs) > 1

Pause ==
    /\ Settled
    /\ state = "running"
    /\ LET next == BoundaryAfter(seg, now + Guard, "nextPulse")
           b == IF next = None THEN frontier ELSE next
       IN /\ Post((IF editing THEN <<>> ELSE Schedule(Flushed(b), gen))
                       \o <<[type |-> "cancel", gen |-> gen, frame |-> FrameOf(seg, b)]>>)
          /\ frontier' = IF ~editing THEN Larger(frontier, b) ELSE frontier
          /\ position' = b
    /\ state' = "paused" /\ editing' = FALSE
    /\ current' = seg.snap
    /\ cancelling' = cancelling \cup {gen}
    /\ apart' = (apart \/ editing \/ Ahead)
    /\ UNCHANGED <<gen, seg, segs, held, waiting, ended, lastFrame, renewed, chain, fence, edits, toPage, processor>>

\* The ack of the cancel did not come within ACK_TIMEOUT_MS.
PauseTimeout(g) ==
    /\ Settled
    /\ g \in cancelling
    /\ cancelling' = cancelling \ {g}
    /\ \/ /\ g = gen /\ state = "paused" /\ gen < MaxGeneration
          /\ gen' = gen + 1 /\ state' = "interrupted"
          /\ Post(<<[type |-> "stop", gen |-> gen + 1]>>)
       \/ /\ ~(g = gen /\ state = "paused")
          /\ UNCHANGED <<gen, state, toProcessor>>
    /\ UNCHANGED <<seg, segs, current, position, frontier, held, waiting, ended, lastFrame,
                   renewed, editing, chain, fence, edits, toPage, processor, apart>>

Tick ==
    /\ Settled
    /\ state = "running"
    /\ renewed < now /\ renewed' = now
    /\ LET idle == editing \/ ended \/ held # None
           r == FillSegment(seg, frontier, now + Horizon, gen)
           hold == IF idle THEN held ELSE r.held
           end == IF idle THEN ended ELSE r.ended
           last == IF idle THEN lastFrame ELSE Larger(lastFrame, r.last)
           waits == hold # None /\ now >= FrameOf(seg, hold)
           ends == ~waits /\ end /\ ~editing /\ now >= last + TailFrames
       IN /\ Post(RenewPermit(gen) \o (IF idle THEN <<>> ELSE Schedule(r.clicks, gen)))
          /\ frontier' = IF idle THEN frontier ELSE r.frontier
          /\ lastFrame' = last /\ ended' = end
          /\ held' = IF waits THEN None ELSE hold
          /\ waiting' = IF waits THEN hold ELSE waiting
          /\ state' = IF waits THEN "waiting" ELSE IF ends THEN "stopped" ELSE state
          /\ position' = IF ends THEN 0 ELSE position
          /\ segs' = IF ends THEN <<>> ELSE segs
    /\ UNCHANGED <<gen, seg, current, editing, chain, fence, edits, cancelling, toPage, processor, apart>>

-----------------------------------------------------------------------------
(* Changes of the settings *)

\* While nothing is going on an edit changes nothing that the next start does not load.
Edit ==
    /\ Settled
    /\ state # "stopped"
    /\ edits < MaxEdits
    /\ edits' = edits + 1
    /\ \E snap \in Edits, mode \in Modes :
           chain' = Append(chain, [snap |-> snap, mode |-> mode, gen |-> gen])
    /\ UNCHANGED <<state, gen, seg, segs, current, position, frontier, held, waiting, ended,
                   lastFrame, renewed, editing, fence, cancelling, toProcessor, toPage, processor, apart>>

\* The edit of another generation is dropped, and so is one that is refused.
Refused(e) ==
    \/ e.gen # gen
    \/ state = "waiting"
    \/ /\ state = "running"
       /\ \/ ~SameStructure(seg.snap, e.snap) /\ (seg.snap.end # 0 \/ e.snap.end # 0)
          \/ BoundaryAfter(seg, now + Guard, e.mode) = None

EditDropped ==
    /\ ~Settled
    /\ Refused(Head(chain))
    /\ chain' = Tail(chain)
    /\ UNCHANGED <<state, gen, seg, segs, current, position, frontier, held, waiting, ended, lastFrame,
                   renewed, editing, fence, edits, cancelling, toProcessor, toPage, processor, apart>>

\* Nothing plays: the settings are for the next start.
EditStopped ==
    /\ ~Settled
    /\ ~Refused(Head(chain))
    /\ state # "running"
    /\ LET snap == Head(chain).snap
           structural == current # None /\ ~SameStructure(current, snap)
       IN /\ current' = snap
          /\ position' = IF ~structural THEN position
                         ELSE IF current.end = 0 /\ snap.end = 0 THEN Converted(position, current, snap) ELSE 0
          /\ apart' = (apart \/ structural)
    /\ chain' = Tail(chain)
    /\ UNCHANGED <<state, gen, seg, segs, frontier, held, waiting, ended, lastFrame, renewed, editing,
                   fence, edits, cancelling, toProcessor, toPage, processor>>

\* The fence: the old settings up to the boundary, the new ones from it, if the
\* processor agrees.
EditRunning ==
    /\ ~Settled
    /\ ~Refused(Head(chain))
    /\ state = "running"
    /\ LET e == Head(chain)
           b == BoundaryAfter(seg, now + Guard, e.mode)
           at == FrameOf(seg, b)
           new == [snap |-> e.snap, frame |-> at,
                   score |-> IF SameStructure(seg.snap, e.snap) THEN b ELSE Converted(b, seg.snap, e.snap)]
           r == FillSegment(new, new.score, Larger(now + Horizon, at + 1), gen)
       IN /\ fence' = [id |-> edits, gen |-> gen, seg |-> new, filled |-> r,
                       frontier |-> Larger(frontier, b), held |-> held, ended |-> ended, lastFrame |-> lastFrame]
          /\ frontier' = Larger(frontier, b)
          /\ Post(Schedule(Flushed(b), gen)
                       \o <<[type |-> "replace", gen |-> gen, id |-> edits, frame |-> at, clicks |-> r.clicks]>>)
    /\ chain' = Tail(chain)
    /\ editing' = TRUE
    /\ apart' = (apart \/ Ahead)
    /\ UNCHANGED <<state, gen, seg, segs, current, position, held, waiting, ended, lastFrame,
                   renewed, edits, cancelling, toPage, processor>>

\* The answer to an edit: stale, rejected (the old plan goes on as queued) or committed.
Answered(m) ==
    LET r == fence.filled
        stale == fence.gen # gen \/ ~editing
    IN /\ fence' = None
       /\ editing' = (stale /\ editing)
       /\ IF stale THEN UNCHANGED <<seg, segs, current, frontier, held, ended, lastFrame>>
          ELSE IF ~m.accepted
          THEN /\ frontier' = fence.frontier /\ held' = fence.held
               /\ ended' = fence.ended /\ lastFrame' = fence.lastFrame
               /\ UNCHANGED <<seg, segs, current>>
          ELSE /\ seg' = fence.seg /\ segs' = Append(segs, fence.seg)
               /\ current' = fence.seg.snap
               /\ frontier' = r.frontier /\ held' = r.held /\ ended' = r.ended
               /\ lastFrame' = Larger(r.last, fence.seg.frame)

\* A message from the processor; one whose request timed out is ignored.
Receive ==
    /\ Settled
    /\ toPage # <<>>
    /\ toPage' = Tail(toPage)
    /\ LET m == Head(toPage)
           mine == m.type = "replaced" /\ fence # None /\ fence.id = m.id
       IN /\ cancelling' = IF m.type = "cancelled" THEN cancelling \ {m.gen} ELSE cancelling
          /\ IF mine THEN Answered(m)
             ELSE UNCHANGED <<seg, segs, current, frontier, held, ended, lastFrame, editing, fence>>
    /\ UNCHANGED <<state, gen, position, waiting, renewed, chain, edits, toProcessor, processor, apart>>

\* Neither plan can be confirmed: the performance stops.
EditTimeout ==
    /\ Settled
    /\ fence # None
    /\ fence' = None
    /\ \/ /\ fence.gen = gen
          /\ StopInternal("interrupted", TRUE)
       \/ /\ fence.gen # gen
          /\ UNCHANGED <<state, gen, seg, segs, current, position, frontier, held, waiting, ended, lastFrame,
                         renewed, editing, chain, edits, cancelling, toProcessor, processor, apart>>
    /\ UNCHANGED toPage

-----------------------------------------------------------------------------
(* The processor *)

\* truncateFrom(f) leaves the clicks before frame f.
Before(q, f) == SelectSeq(q, LAMBDA e : e.frame < f)
Insert(q, e) ==
    SelectSeq(q, LAMBDA x : x.frame <= e.frame) \o <<e>> \o SelectSeq(q, LAMBDA x : x.frame > e.frame)
Queued(q, clicks) == FoldLeft(Insert, q, clicks)

\* append: all of the clicks or none.
Appended(p, m) ==
    IF Len(p.queue) + Len(m.clicks) > Capacity THEN [p EXCEPT !.lost = TRUE]
    ELSE [p EXCEPT !.queue = Queued(@, m.clicks)]

\* replaceFrom: the old queue is kept when the new clicks do not fit.
Replaced(p, m) ==
    LET kept == Before(p.queue, Larger(m.frame, now))
        fits == Len(kept) + Len(m.clicks) <= Capacity
    IN [p EXCEPT !.queue = IF fits THEN Queued(kept, m.clicks) ELSE @,
                 !.lost = @ \/ (fits /\ m.frame < now),
                 !.replies = Append(@, [type |-> "replaced", id |-> m.id, accepted |-> fits])]

Cancelled(p, m) ==
    [p EXCEPT !.queue = Before(@, m.frame),
              !.lost = @ \/ m.frame < now,
              !.replies = Append(@, [type |-> "cancelled", gen |-> m.gen])]

\* stop: only a newer generation.
Stopped(p, m) ==
    IF m.gen <= p.playing THEN p
    ELSE [p EXCEPT !.playing = m.gen, !.queue = <<>>, !.permitUntil = 0,
                        !.heard = <<>>, !.lost = FALSE]

Handled(p, m) ==
    CASE m.type = "stop" -> Stopped(p, m)
      [] m.gen # p.playing -> p
      [] m.type = "permit" -> [p EXCEPT !.permitUntil = m.until]
      [] m.type = "append" -> Appended(p, m)
      [] m.type = "replace" -> Replaced(p, m)
      [] m.type = "cancel" -> Cancelled(p, m)

OnMessage ==
    /\ toProcessor # <<>>
    /\ toProcessor' = Tail(toProcessor)
    /\ LET p == FoldLeft(Handled, [queue |-> queue, playing |-> playing, permitUntil |-> permitUntil,
                                   heard |-> heard, lost |-> lost, replies |-> toPage], Head(toProcessor))
       IN /\ queue' = p.queue /\ playing' = p.playing /\ permitUntil' = p.permitUntil
          /\ heard' = p.heard /\ lost' = p.lost /\ toPage' = p.replies
    /\ UNCHANGED <<page, now, apart>>

LastTwo(s) == SubSeq(s, Larger(1, Len(s) - 1), Len(s))

\* process() of one frame: without a permit the queue is emptied, late clicks are
\* dropped and counted.  Frames in which nothing is going on are not counted.
Process ==
    /\ now < MaxFrame
    /\ queue # <<>> \/ toProcessor # <<>> \/ state = "running"
    /\ state = "running" => now - renewed < MaxLag
    /\ now' = now + 1
    /\ LET due == SelectSeq(queue, LAMBDA e : e.frame <= now)
           allowed == now < permitUntil
           missed == IF allowed THEN \E i \in DOMAIN due : due[i].frame < now ELSE queue # <<>>
       IN /\ queue' = IF allowed THEN SelectSeq(queue, LAMBDA e : e.frame > now) ELSE <<>>
          /\ heard' = IF allowed THEN LastTwo(heard \o SelectSeq(due, LAMBDA e : e.frame = now)) ELSE heard
          /\ lost' = (lost \/ missed)
    /\ UNCHANGED <<page, toProcessor, toPage, playing, permitUntil, apart>>

Next ==
    \/ Start \/ Resume \/ Stop \/ Interrupt \/ ResumeFermata \/ Pause \/ Tick
    \/ Edit \/ EditDropped \/ EditStopped \/ EditRunning \/ EditTimeout
    \/ Receive \/ (\E g \in cancelling : PauseTimeout(g))
    \/ OnMessage \/ Process

Spec == Init /\ [][Next]_vars

-----------------------------------------------------------------------------
(* Properties *)

ClickType == [frame : Int, at : Int, snap : Snapshots \cup Edits, gen : 1..MaxGeneration]
SegmentType == [snap : Snapshots \cup Edits, score : Nat, frame : Nat]

\* Type invariant; the processor's queue is in the order of frames and fits, and the
\* page is never behind the processor's generation.
TypeOK ==
    /\ state \in {"stopped", "running", "paused", "waiting", "interrupted"}
    /\ gen \in 0..MaxGeneration
    /\ seg \in SegmentType \cup {None} /\ segs \in Seq(SegmentType)
    /\ current \in Snapshots \cup Edits \cup {None}
    /\ {position, frontier, lastFrame, renewed, now, permitUntil} \subseteq Nat
    /\ held \in Nat \cup {None} /\ waiting \in Nat \cup {None}
    /\ {ended, editing} \subseteq BOOLEAN
    /\ edits \in 0..MaxEdits /\ cancelling \subseteq 1..MaxGeneration
    /\ queue \in Seq(ClickType) /\ Len(queue) <= Capacity
    /\ \A i \in 1..(Len(queue) - 1) : queue[i].frame <= queue[i + 1].frame
    /\ heard \in Seq(ClickType) /\ Len(heard) <= 2
    /\ playing \in 0..gen /\ {lost, apart} \subseteq BOOLEAN
    /\ state \in {"running", "paused", "waiting"} => seg # None
    /\ (waiting # None) = (state = "waiting")

\* The clicks of the run that plays, as long as none was dropped or placed late.
Sounds == heard # <<>> /\ Last(heard).gen = gen /\ ~lost

\* The beat after e: the next pulse, or the first bar of a new structure, one pulse of
\* the settings of e later.
Follows(e, f) ==
    /\ f.frame = e.frame + e.snap.step
    /\ f.at = IF SameStructure(e.snap, f.snap) THEN e.at + 1 ELSE Converted(e.at + 1, e.snap, f.snap)

\* Where a score holds or ends.
Loose(e, f) == \E s \in e.at..f.at : s \in e.snap.hold \/ EndsIn(e.snap, s)

\* What transport.js:10-12 says of the fence: the beat never jumps, whether an edit is
\* accepted, rejected or superseded.
BeatNeverJumps ==
    Sounds /\ Len(heard) = 2 /\ ~Loose(heard[1], heard[2]) => Follows(heard[1], heard[2])

\* The same for the runs in which no boundary was taken from a segment that did not
\* play yet: the queue of the processor, the fill of the page and every answer to an
\* edit leave one click for each beat, at its frame.
SteadyBeat == ~apart => BeatNeverJumps

\* The segments by which positions are shown and analysed are those that sounded.
HeardAsShown ==
    Sounds /\ ~apart /\ state = "running" /\ ~editing
        => LET e == Last(heard) g == SegmentAt(e.frame)
           IN g.snap = e.snap /\ FrameOf(g, e.at) = e.frame

\* When a pause is confirmed and what was queued before it has sounded, the position is
\* that of the beat that would have come next: nothing is repeated or left out when
\* the performance goes on.
PausedAtNext ==
    state = "paused" /\ cancelling = {} /\ toProcessor = <<>> /\ queue = <<>>
            /\ Sounds /\ ~apart /\ ~Loose(Last(heard), Last(heard))
        => position = Last(heard).at + 1

\* While a fermata waits nothing behind it sounds or is queued.
WaitingHolds ==
    state = "waiting" =>
        \A e \in Range(queue) \cup Range(heard) : e.gen = gen => e.at <= waiting

\* A run that stands still, by a pause or a fermata, stands where it is heard to.
StandsStill == PausedAtNext /\ WaitingHolds
=============================================================================
