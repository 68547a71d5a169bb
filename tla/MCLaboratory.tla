----------------------------- MODULE MCLaboratory -----------------------------
(***************************************************************************)
(* The laboratory, that is the metronome and the tuner, for TLC: each      *)
(* behaviour is one of the parts below, chosen at the start.  The          *)
(* metronome's screen is extended, the others are instances; the variables *)
(* of a part that is not chosen have no value.                             *)
(***************************************************************************)
EXTENDS MetronomeScreen, TLC

CONSTANTS
    Settings, Invalid, MaxEdits, MaxGeneration,   \* of MetronomeEdits
    Contexts,                                     \* of TunerScreen
    Sessions, Routes, MaxPreps, MaxSeq            \* of AnalysisScreen

ASSUME SettingsAssumption == Nobody \notin Settings \cup {Invalid}
ASSUME ContextsAssumption == Nobody \notin Contexts
ASSUME SessionsAssumption ==
    /\ Sessions \subseteq Nat \ {0} /\ Nobody \notin Routes
    /\ Nobody \notin [kind : {"analysis"}, session : Sessions, key : Routes \cup {Nobody}, route : Routes]

VARIABLES
    part,
    editor, transport, edits, guarded, told, apart,                          \* MetronomeEdits
    screen, tap, entry, capture, tone, tuner, coord, device,                 \* TunerScreen
    now, timeline, edit, lastFrame, pending, attacks, rows, extras, flying,
    changes, sounded, skipped, late, hasty,                                  \* TimingCollect
    session, current, micSession, shown, route, running, calSeq, calibration,
    candidate, saved, loads, removing, collect, preps, guards, guardOff,
    prepared, crossed, broken,                                               \* AnalysisScreen
    mode,                                                                    \* of both
    score, order, frontier, events, held, twice                              \* ScoreCompiler

editVars == <<editor, transport, edits, guarded, told, apart>>
tunerVars == <<screen, tap, entry, capture, tone, tuner, coord, device>>
collectVars == <<now, timeline, edit, lastFrame, pending, attacks, rows, extras, flying,
                 changes, sounded, skipped, late, hasty>>
analysisVars == <<session, current, micSession, shown, route, running, calSeq, calibration,
                  candidate, saved, loads, removing, collect, preps, guards, guardOff,
                  prepared, crossed, broken>>
scoreVars == <<score, order, frontier, events, held, twice>>

Edits == INSTANCE MetronomeEdits WITH None <- Nobody
Tuner == INSTANCE TunerScreen WITH None <- Nobody
Collect == INSTANCE TimingCollect WITH
    None <- Nobody, Horizon <- 8, Periods <- {2, 3, 5}, MaxStrokes <- 2, MaxChanges <- 1,
    AckDelay <- 1, Offset <- 1
Analysis == INSTANCE AnalysisScreen WITH None <- Nobody

\* Bars of two quarters, of three with a pulse that does not divide them, and one
\* whose groups do not add up.
MCBars ==
    {[numerator |-> 2, groups |-> <<2>>, pulse |-> 8, accents |-> 2, sub |-> 0],
     [numerator |-> 3, groups |-> <<1, 2>>, pulse |-> 16, accents |-> 2, sub |-> 2],
     [numerator |-> 2, groups |-> <<2, 2>>, pulse |-> 8, accents |-> 2, sub |-> 0]}
Score == INSTANCE ScoreCompiler WITH
    None <- Nobody, Bars <- MCBars, MaxBars <- 2, MaxOrder <- 4, Horizon <- 80, Steps <- {8, 13, 40}

NoEdits ==
    /\ editor = Nobody /\ transport = Nobody /\ edits = Nobody /\ guarded = Nobody
    /\ told = Nobody /\ apart = Nobody
NoTuner ==
    /\ screen = Nobody /\ tap = Nobody /\ entry = Nobody /\ capture = Nobody
    /\ tone = Nobody /\ tuner = Nobody /\ coord = Nobody /\ device = Nobody
NoCollect ==
    /\ now = Nobody /\ timeline = Nobody /\ edit = Nobody /\ lastFrame = Nobody
    /\ pending = Nobody /\ attacks = Nobody /\ rows = Nobody /\ extras = Nobody
    /\ flying = Nobody /\ changes = Nobody /\ sounded = Nobody /\ skipped = Nobody
    /\ late = Nobody /\ hasty = Nobody
NoAnalysis ==
    /\ session = Nobody /\ current = Nobody /\ micSession = Nobody /\ shown = Nobody
    /\ route = Nobody /\ running = Nobody /\ calSeq = Nobody /\ calibration = Nobody
    /\ candidate = Nobody /\ saved = Nobody /\ loads = Nobody /\ removing = Nobody
    /\ collect = Nobody /\ preps = Nobody /\ guards = Nobody /\ guardOff = Nobody
    /\ prepared = Nobody /\ crossed = Nobody /\ broken = Nobody
NoScore ==
    /\ score = Nobody /\ order = Nobody /\ frontier = Nobody /\ events = Nobody /\ held = Nobody /\ twice = Nobody

MCInit ==
    /\ Init   \* of MetronomeScreen
    /\ \/ part = "metronome" /\ NoEdits /\ NoTuner /\ NoCollect /\ NoAnalysis /\ mode = Nobody /\ NoScore
       \/ part = "edits" /\ Edits!Init /\ NoTuner /\ NoCollect /\ NoAnalysis /\ mode = Nobody /\ NoScore
       \/ part = "tuner" /\ Tuner!Init /\ NoEdits /\ NoCollect /\ NoAnalysis /\ mode = Nobody /\ NoScore
       \/ part = "collect" /\ Collect!Init /\ NoEdits /\ NoTuner /\ NoAnalysis /\ NoScore
       \/ part = "analysis" /\ Analysis!Init /\ NoEdits /\ NoTuner /\ NoCollect /\ NoScore
       \/ part = "score" /\ Score!Init /\ NoEdits /\ NoTuner /\ NoCollect /\ NoAnalysis /\ mode = Nobody

others == <<editVars, tunerVars, collectVars, analysisVars, mode, scoreVars>>

MCNext ==
    /\ UNCHANGED part
    /\ \/ part = "metronome" /\ Next /\ UNCHANGED others
       \/ UNCHANGED vars /\
          \/ part = "edits" /\ Edits!Next /\ UNCHANGED <<tunerVars, collectVars, analysisVars, mode, scoreVars>>
          \/ part = "tuner" /\ Tuner!Next /\ UNCHANGED <<editVars, collectVars, analysisVars, mode, scoreVars>>
          \/ part = "collect" /\ Collect!Next /\ UNCHANGED <<editVars, tunerVars, analysisVars, scoreVars>>
          \/ part = "analysis" /\ Analysis!Next /\ UNCHANGED <<editVars, tunerVars, collectVars, scoreVars>>
          \/ part = "score" /\ Score!Next /\ UNCHANGED <<editVars, tunerVars, collectVars, analysisVars, mode>>

MCSpec == MCInit /\ [][MCNext]_<<part, vars, others>>

-----------------------------------------------------------------------------
(* The properties, each of its part *)

\* What is edited is what is played (MetronomeEdits).
EditorIsPlayed == part = "edits" => Edits!EditorIsPlayed

\* No context leaks, nothing is kept while the user is away, and the microphone
\* hears no tone (TunerScreen).
TunerSafe == part = "tuner" => Tuner!TunerSafe

\* The pairing made while strokes arrive is that made afterwards (TimingCollect).
AsComputedAfterwards == part = "collect" => Collect!AsComputedAfterwards

\* A calibration is used with the route it was made for, and a recording leaves
\* nothing behind (AnalysisScreen).
AnalysisSafe == part = "analysis" => Analysis!CalibrationFits /\ Analysis!NothingLeftBehind

\* The clicks compiled stretch by stretch are those of the score (ScoreCompiler).
EveryBarAsWritten == part = "score" => Score!EveryBarAsWritten
=============================================================================
