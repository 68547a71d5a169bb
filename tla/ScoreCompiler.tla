---------------------------- MODULE ScoreCompiler ----------------------------
(***************************************************************************)
(* From a score to clicks, window by window (metronome/score_model.js,     *)
(* metronome/event_compiler.js, and the calls of metronome/transport.js).  *)
(*                                                                         *)
(* A preset is checked, expanded into the order its bars are played in     *)
(* (repeats), and compiled for one stretch of the score after the other.   *)
(* The clicks of all stretches have to be those of the score, whatever     *)
(* the stretches are, and a fermata has to hold the playing where it is.   *)
(*                                                                         *)
(* Positions are whole ticks: one tick stands for a common denominator of  *)
(* the score's rationals, EIGHT of them for an eighth note.                *)
(***************************************************************************)
EXTENDS Naturals, Integers, Sequences, FiniteSets, FiniteSetsExt

CONSTANTS Bars,         \* bound: the bars a score is made of
          MaxBars,      \* bound: bars of a score
          MaxOrder,     \* LIMITS.maxBars: bars of the expanded score
          Horizon,      \* bound: how far a score is compiled
          Steps,        \* bound: lengths of the stretches
          None

EIGHT == 8
Endless == 0            \* the count of a section repeated until stopped

VARIABLES
    score,      \* the preset offered
    order,      \* its bars as they are played, or None: it was refused
    frontier,   \* the score is compiled up to here
    events,     \* the clicks compiled so far
    held,       \* the fermata that holds the playing, or None
    twice       \* a click was compiled in two stretches

vars == <<score, order, frontier, events, held, twice>>

SumTo(f, n) == LET sum[i \in 0..n] == IF i = 0 THEN 0 ELSE f[i] + sum[i - 1] IN sum[n]

-----------------------------------------------------------------------------
(***************************************************************************)
(* What the checks of a preset accept.                                     *)
(***************************************************************************)
Length(bar) == bar.numerator * EIGHT

\* Pulses of a bar; the last one may be cut off by the bar's end.
PulseCount(length, pulse) == (length + pulse - 1) \div pulse

ValidBar(bar) ==
    /\ SumTo(bar.groups, Len(bar.groups)) = bar.numerator
    /\ bar.accents = PulseCount(Length(bar), bar.pulse)

ValidPosition(s, p) == p.bar \in 1..Len(s.bars) /\ p.offset <= Length(s.bars[p.bar])

ValidLayer(l) == l.cycle > 0 /\ l.pulses > 0 /\ l.phase < l.cycle

ValidRepeats(s) ==
    \A r \in s.repeats :
       /\ r.first \in 1..Len(s.bars) /\ r.last \in 1..Len(s.bars)
       /\ r.first <= r.last
       /\ r.count = Endless => r.last = Len(s.bars)
       /\ \A q \in s.repeats \ {r} : r.last < q.first \/ q.last < r.first

Valid(s) ==
    /\ \A i \in 1..Len(s.bars) : ValidBar(s.bars[i])
    /\ s.layer # None => ValidLayer(s.layer)
    /\ s.fermata # None => ValidPosition(s, s.fermata)
    /\ ValidRepeats(s)

(***************************************************************************)
(* The bars as they are played.  A section repeated until stopped is taken *)
(* once; the playing goes on from its first bar (loopFrom).                *)
(***************************************************************************)
RepeatAt(s, bar) == {r \in s.repeats : r.first = bar}

Expand(s) ==
    LET from[bar \in 1..(Len(s.bars) + 1)] ==
          IF bar > Len(s.bars) THEN <<>>
          ELSE IF RepeatAt(s, bar) = {} THEN <<bar>> \o from[bar + 1]
          ELSE LET r == CHOOSE r \in RepeatAt(s, bar) : TRUE
                   section == [i \in 1..(r.last - r.first + 1) |-> r.first + i - 1]
                   n == IF r.count = Endless THEN 1 ELSE r.count
                   all == [i \in 1..(n * Len(section)) |-> section[((i - 1) % Len(section)) + 1]]
               IN  all \o from[r.last + 1]
    IN  from[1]

Lengths(s, o) == [i \in 1..Len(o) |-> Length(s.bars[o[i]])]

Total == SumTo(Lengths(score, order), Len(order))

StartOf(i) == SumTo(Lengths(score, order), i - 1)

\* The place in the order the endless section starts at, or None.
LoopFrom ==
    IF \E r \in score.repeats : r.count = Endless
    THEN CHOOSE i \in 1..Len(order) :
            /\ \E r \in score.repeats : r.count = Endless /\ r.first = order[i]
            /\ \A j \in 1..Len(order) : order[j] = order[i] => j = i
    ELSE None

(***************************************************************************)
(* Bar number k of the playing, counted from 0, and the number of the bar  *)
(* a position lies in.                                                     *)
(***************************************************************************)
Section == Total - StartOf(LoopFrom)
SectionBars == Len(order) - LoopFrom + 1

OccurrenceAt(k) ==
    IF k < Len(order) THEN [bar |-> score.bars[order[k + 1]], start |-> StartOf(k + 1)]
    ELSE IF LoopFrom = None THEN None
    ELSE LET extra == k - Len(order)
             within == LoopFrom + (extra % SectionBars)
         IN  [bar |-> score.bars[order[within]],
              start |-> StartOf(within) + Section * (extra \div SectionBars + 1)]

LastStarted(from, s) == Max({i \in from..Len(order) : StartOf(i) <= s} \cup {from})

\* Mutant of OccurrenceIndexAt: the rounds of the section are counted by its end.
OccurrenceIndexAtRound(s) ==
    IF s < Total THEN LastStarted(1, s) - 1
    ELSE IF LoopFrom = None THEN None
    ELSE LET beyond == s - Total
         IN  Len(order) + ((beyond + 1) \div Section) * SectionBars
             + LastStarted(LoopFrom, StartOf(LoopFrom) + (beyond % Section)) - LoopFrom

OccurrenceIndexAt(s) ==
    IF s < Total THEN LastStarted(1, s) - 1
    ELSE IF LoopFrom = None THEN None
    ELSE LET beyond == s - Total
         IN  Len(order) + (beyond \div Section) * SectionBars
             + LastStarted(LoopFrom, StartOf(LoopFrom) + (beyond % Section)) - LoopFrom

(***************************************************************************)
(* The clicks of one bar: groups before pulses before subdivisions at one  *)
(* place, and swing moves what lies inside a pair of eighths.              *)
(***************************************************************************)
GroupStarts(bar) == {EIGHT * SumTo(bar.groups, i - 1) : i \in 1..Len(bar.groups)}
Pulses(bar) == {bar.pulse * i : i \in 0..PulseCount(Length(bar), bar.pulse) - 1}
Subdivisions(bar) ==
    IF bar.sub = 0 THEN {} ELSE {bar.sub * i : i \in 0..Length(bar)} \cap 0..Length(bar) - 1

MeterPositions(bar) ==
    {[offset |-> p,
      level |-> IF p \in GroupStarts(bar) THEN "group"
                ELSE IF p \in Pulses(bar) THEN "pulse" ELSE "subdivision"] :
     p \in GroupStarts(bar) \cup Pulses(bar) \cup Subdivisions(bar)}

\* Three to one: the middle of the pair goes to three quarters of it.
ApplySwing(offset) ==
    LET pair == 2 * EIGHT
        local == offset % pair
        moved == IF 2 * local <= pair THEN (3 * local) \div 2
                 ELSE (3 * pair) \div 4 + ((local - EIGHT) \div 2)
    IN  offset - local + moved

Swung(offset) == IF score.swing THEN ApplySwing(offset) ELSE offset

\* playBars sound and muteBars do not, by the number of the bar.
BarMuted(k) == score.mute /\ k % 2 = 1

Fermatas ==
    IF score.fermata = None THEN {}
    ELSE {StartOf(i) + score.fermata.offset :
          i \in {j \in 1..Len(order) : order[j] = score.fermata.bar}}

\* The first fermata of the stretch cuts it off behind itself.
Hold(from, to) ==
    LET inside == {f \in Fermatas : from <= f /\ f < to}
    IN  IF inside = {} THEN None ELSE Min(inside)

Upto(from, to) == IF Hold(from, to) = None THEN to ELSE Hold(from, to) + 1

\* The bars a stretch touches: from the one its start lies in.  (No bar is shorter
\* than an eighth.)
Touched(from, to) ==
    LET first == OccurrenceIndexAt(from)
    IN  IF first = None THEN {}
        ELSE {k \in first..(first + 1 + (to - from) \div EIGHT) :
                LET o == OccurrenceAt(k) IN o # None /\ o.start < to}

MeterEvents(from, to) ==
    UNION {LET o == OccurrenceAt(k)
           IN  {[at |-> o.start + Swung(p.offset), layer |-> "meter", bar |-> k,
                 grid |-> p.offset, level |-> p.level, emit |-> ~ BarMuted(k)] : p \in MeterPositions(o.bar)} :
           k \in Touched(from, to)}

LayerEvents(from, to) ==
    IF score.layer = None THEN {}
    ELSE LET l == score.layer
             step == l.cycle \div l.pulses
             places == {l.phase - l.cycle + step * i : i \in 0..(2 * Horizon) \div step}
         IN  {[at |-> s, layer |-> "layer", bar |-> OccurrenceIndexAt(s),
               grid |-> s, level |-> "pulse",
               emit |-> ~BarMuted(OccurrenceIndexAt(s))] :
              s \in {x \in places : from <= x /\ x < to /\ OccurrenceIndexAt(x) # None}}

Compile(from, end) ==
    LET to == Upto(from, end)
    IN  {e \in MeterEvents(from, to) \cup LayerEvents(from, to) :
            from <= e.at /\ e.at < to}

-----------------------------------------------------------------------------
Positions == [bar : 1..MaxBars, offset : {0, EIGHT}]

Scores ==
    [bars : UNION {[1..n -> Bars] : n \in 1..MaxBars},
     repeats : {{}} \cup {{r} : r \in [first : 1..2, last : 1..2, count : {Endless, 2}]}
               \cup {{[first |-> 1, last |-> 1, count |-> 2],
                      [first |-> 2, last |-> 2, count |-> Endless]}},
     layer : {None, [cycle |-> 12, pulses |-> 2, phase |-> 4]},
     fermata : {None} \cup Positions,
     swing : BOOLEAN, mute : BOOLEAN]

\* Every option is tried beside the plain ones.
Plain(s) ==
    Cardinality({x \in {"layer", "fermata", "swing", "mute"} :
        \/ x = "layer" /\ s.layer # None
        \/ x = "fermata" /\ s.fermata # None
        \/ x = "swing" /\ s.swing
        \/ x = "mute" /\ s.mute}) <= 1

Init ==
    /\ score \in {s \in Scores : Plain(s)}
    /\ order = None
    /\ frontier = 0 /\ events = {} /\ held = None /\ twice = FALSE

\* The preset is checked and its snapshot built; a refused one is not played.
Load ==
    /\ order = None
    /\ Valid(score)
    /\ Len(Expand(score)) <= MaxOrder
    /\ order' = Expand(score)
    /\ UNCHANGED <<score, frontier, events, held, twice>>

\* The transport asks for the next stretch of the score.
Fill ==
    /\ order # None /\ held = None
    /\ frontier < Horizon
    /\ OccurrenceIndexAt(frontier) # None
    /\ \E n \in Steps :
          /\ LET clicks == Compile(frontier, frontier + n)
             IN  events' = events \cup clicks /\ twice' = (twice \/ events \cap clicks # {})
          /\ frontier' = Upto(frontier, frontier + n)
          /\ held' = Hold(frontier, frontier + n)
    /\ UNCHANGED <<score, order>>

\* The playing goes on from the first click after the fermata.
Resume ==
    /\ held # None
    /\ LET next == Compile(frontier, frontier + Horizon)
       IN  /\ next # {}
           /\ frontier' = Min({e.at : e \in next})
    /\ held' = None
    /\ UNCHANGED <<score, order, events, twice>>

Next == Load \/ Fill \/ Resume

Spec == Init /\ [][Next]_vars

-----------------------------------------------------------------------------
(***************************************************************************)
(* The playing of a score, bar after bar: from a bar the player goes back  *)
(* to the start of its section, or on to the next bar.                     *)
(***************************************************************************)
Player == [k : Nat, bar : Nat, round : Nat, start : Nat]

Walk[p \in Player] ==
    IF p.bar > Len(score.bars) \/ p.start > Horizon + 64 THEN {}
    ELSE LET ends == {r \in score.repeats : r.last = p.bar}
             again == {r \in ends : r.count = Endless \/ p.round + 1 < r.count}
             next == [p EXCEPT !.k = @ + 1, !.start = @ + Length(score.bars[p.bar])]
         IN  {[k |-> p.k, bar |-> score.bars[p.bar], start |-> p.start]} \cup
             IF again = {}
             THEN Walk[[next EXCEPT !.bar = @ + 1, !.round = IF ends = {} THEN @ ELSE 0]]
             ELSE LET r == CHOOSE r \in again : TRUE
                  IN  Walk[[next EXCEPT !.bar = r.first, !.round = @ + 1]]

Played == Walk[[k |-> 0, bar |-> 1, round |-> 0, start |-> 0]]

Inside(e, played) == \E o \in played : o.k = e.bar /\ o.start <= e.at /\ e.at < o.start + Length(o.bar)

(***************************************************************************)
(* The clicks of all stretches compiled so far are those of the bars in    *)
(* the order a player goes through them: each bar's own clicks at their    *)
(* place, none twice, none left out at the edge of a stretch, each with    *)
(* the number of the bar it lies in, those of a layer of its own as well,  *)
(* so that a muted bar mutes them.  Left out: clicks that swing moves past *)
(* the end of their bar.                                                   *)
(***************************************************************************)
Due(o) == {<<o.k, o.start + Swung(p.offset)>> : p \in
              {q \in MeterPositions(o.bar) : Swung(q.offset) < Length(o.bar)
                                             /\ o.start + Swung(q.offset) < frontier}}

EveryBarAsWritten ==
    order # None =>
        LET played == Played
        IN  /\ {<<e.bar, e.at>> : e \in {x \in events : x.layer = "meter" /\ Inside(x, played)}}
               = UNION {Due(o) : o \in played}
            /\ \A e \in events : e.layer = "layer" => Inside(e, played)
            /\ ~ twice
=============================================================================
