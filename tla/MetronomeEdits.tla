---------------------------- MODULE MetronomeEdits ----------------------------
(***************************************************************************)
(* Changing the settings of the metronome while it plays: the editor of    *)
(* the screen (applyDraft and its callers, metronome/index.js), the guards *)
(* of running features, and the chain of edits of the transport, which the *)
(* backend confirms later (edit and doEdit, metronome/transport.js).       *)
(*                                                                         *)
(* A setting is one value: the basic draft, the layers and the score       *)
(* together.  What a fence does to the timeline is in Transport.           *)
(***************************************************************************)
EXTENDS Naturals, Sequences

CONSTANTS
    None,
    Settings,        \* what can be played
    Invalid,         \* a setting the validation refuses
    MaxEdits,        \* bound: edits that reach the transport
    MaxGeneration    \* bound: starts and stops of the transport

VARIABLES
    editor,     \* draft, lastApplied, revision; the setting that play() has built and starts
    transport,  \* whether there is one, its state, its generation, and what it plays
    edits,      \* the chain of edits: the first one is with the backend
    guarded,    \* a running analysis refuses what it cannot follow
    told,       \* the last change or start ended with a message that it did not apply
    apart       \* history: a change or a start came while an edit or a start was under way

vars == <<editor, transport, edits, guarded, told, apart>>

RunStates == {"stopped", "running", "paused", "waiting"}

Init ==
    /\ \E s \in Settings :
         /\ editor = [draft |-> s, applied |-> None, revision |-> 1, starting |-> None]
         /\ transport = [there |-> FALSE, state |-> "stopped", generation |-> 0, plays |-> s]
    /\ edits = <<>> /\ guarded = FALSE /\ told = FALSE /\ apart = FALSE

\* The turn of an edit comes in the task that ends the one before.
Quiet == IF edits = <<>> THEN TRUE ELSE Head(edits).sent

\* buildSnapshot of the draft
Built(setting) == setting # Invalid

\* restoreApplied: back to what was last accepted, if anything was.
Restored(e) == [e EXCEPT !.draft = IF e.applied = None THEN @ ELSE e.applied]
\* rememberApplied: what the editor shows now.
Remembered(e) == [e EXCEPT !.applied = e.draft]

-----------------------------------------------------------------------------
(* The transport's side of an edit *)

\* An edit whose turn it is: dropped if the run it was meant for is over,
\* applied at once if nothing runs, refused by a fermata or by a change of
\* structure, and otherwise sent to the backend.
Outcome(e, refused) ==
    IF e.generation # transport.generation THEN "stale"
    ELSE IF transport.state = "waiting" THEN "refused"
    ELSE IF transport.state # "running" THEN "applied"
    ELSE IF refused THEN "refused" ELSE "sent"

\* What the editor does with the answer.
\* Mutant of Answered: an edit that was dropped leaves the editor as it is.
AnsweredKept(ed, e, outcome) == IF outcome = "applied" THEN Remembered(ed) ELSE ed

Answered(ed, e, outcome) ==
    CASE outcome = "applied" -> Remembered(ed)
      [] outcome = "stale" -> IF e.revision = ed.revision THEN Restored(ed) ELSE ed
      [] OTHER -> ed

Told(outcome) == outcome = "refused" \/ (outcome = "stale" /\ told)

-----------------------------------------------------------------------------
(* Handlers of the editor *)

\* What a handler can make of the draft: tempo, meter, groups, pulse,
\* subdivision, accents, sound, layers, the score, a stored preset.
Drafts == Settings \cup {Invalid}

\* A handler changes the draft and applies it: applyDraft.
Change(s, refusedByGuard) ==
    /\ Quiet /\ s # editor.draft /\ editor.revision <= MaxEdits
    /\ refusedByGuard => guarded
    /\ LET next == [editor EXCEPT !.draft = s]
           accepted == [next EXCEPT !.revision = @ + 1]
           e == [setting |-> s, revision |-> accepted.revision, generation |-> transport.generation, sent |-> FALSE]
       IN  IF ~ Built(s)
           THEN editor' = next /\ told' = TRUE /\ UNCHANGED <<transport, edits>>
           ELSE IF refusedByGuard
           THEN editor' = Restored(next) /\ told' = TRUE /\ UNCHANGED <<transport, edits>>
           ELSE /\ told' = FALSE
                /\ IF transport.there
                   THEN editor' = accepted /\ edits' = Append(edits, e) /\ UNCHANGED transport
                   ELSE editor' = Remembered(accepted) /\ UNCHANGED <<transport, edits>>
    /\ apart' = (apart \/ editor.starting # None \/ edits # <<>>)
    /\ UNCHANGED guarded

\* The first edit of the chain has its turn.
TakeTurn(refused) ==
    /\ edits # <<>> /\ ~ edits[1].sent
    /\ LET e == edits[1]
           outcome == Outcome(e, refused)
       IN  IF outcome = "sent"
           THEN edits' = [edits EXCEPT ![1].sent = TRUE] /\ UNCHANGED <<editor, transport, told>>
           ELSE /\ edits' = Tail(edits) /\ editor' = Answered(editor, e, outcome) /\ told' = Told(outcome)
                /\ transport' = IF outcome = "applied" THEN [transport EXCEPT !.plays = e.setting] ELSE transport
    /\ UNCHANGED <<guarded, apart>>

\* The backend confirms the fence, or has no room; or it does not answer in
\* time, and the run is interrupted, a paused one too.  An answer for another
\* run is stale, and so is one that comes after a pause.
Confirmed(reply) ==
    /\ edits # <<>> /\ edits[1].sent
    /\ LET e == edits[1]
           current == e.generation = transport.generation /\ transport.state # "stopped"
           outcome == CASE ~ current \/ (reply # "timeout" /\ transport.state = "paused") -> "stale"
                        [] current /\ reply = "accepted" /\ transport.state # "paused" -> "applied"
                        [] OTHER -> "refused"
       IN  /\ edits' = Tail(edits) /\ editor' = Answered(editor, e, outcome) /\ told' = Told(outcome)
           /\ transport' = IF outcome = "applied" THEN [transport EXCEPT !.plays = e.setting]
                           ELSE IF current /\ reply = "timeout"
                           THEN [transport EXCEPT !.state = "paused", !.generation = @ + 1]
                           ELSE transport
           /\ transport'.generation <= MaxGeneration
    /\ UNCHANGED <<guarded, apart>>

-----------------------------------------------------------------------------
(* play() and what ends a run *)

Play ==
    /\ Quiet /\ editor.starting = None /\ transport.state \in {"stopped", "paused"}
    /\ transport.generation + 2 <= MaxGeneration /\ Built(editor.draft)
    /\ editor' = [editor EXCEPT !.starting = editor.draft]
    /\ apart' = (apart \/ edits # <<>>)
    /\ UNCHANGED <<transport, edits, guarded, told>>

\* The output is ready: what play() has built at the tap starts.
Started ==
    /\ Quiet /\ editor.starting # None
    /\ transport' = [there |-> TRUE, state |-> "running", generation |-> transport.generation + 1,
                     plays |-> editor.starting]
    /\ editor' = [Remembered(editor) EXCEPT !.starting = None]
    /\ told' = FALSE
    /\ UNCHANGED <<edits, guarded, apart>>

NotStarted ==
    /\ Quiet /\ editor.starting # None /\ editor' = [editor EXCEPT !.starting = None]
    /\ transport' = [transport EXCEPT !.there = FALSE, !.state = "stopped"]
    /\ UNCHANGED <<edits, guarded, told, apart>>

\* A run that is resumed, also from a fermata, is a new generation of the same setting.
Resume ==
    /\ Quiet /\ transport.state \in {"paused", "waiting"} /\ editor.starting = None /\ transport.generation + 1 < MaxGeneration
    /\ transport' = [transport EXCEPT !.state = "running", !.generation = @ + 1]
    /\ UNCHANGED <<editor, edits, guarded, told, apart>>

Leaves(state) ==
    /\ Quiet
    /\ transport.state = "running" \/ (transport.state \in {"paused", "waiting"} /\ state = "stopped")
    /\ transport.generation < MaxGeneration
    /\ transport' = [transport EXCEPT !.state = state, !.generation = IF state = "stopped" THEN @ + 1 ELSE @]
    /\ UNCHANGED <<editor, edits, guarded, told, apart>>

Released ==
    /\ Quiet /\ transport.state = "stopped" /\ transport.there
    /\ transport' = [transport EXCEPT !.there = FALSE]
    /\ UNCHANGED <<editor, edits, guarded, told, apart>>

Guard == Quiet /\ guarded' = ~ guarded /\ UNCHANGED <<editor, transport, edits, told, apart>>

Next ==
    \/ \E s \in Drafts, refused \in BOOLEAN : Change(s, refused)
    \/ \E refused \in BOOLEAN : TakeTurn(refused)
    \/ \E reply \in {"accepted", "full", "timeout"} : Confirmed(reply)
    \/ Play \/ Started \/ NotStarted \/ Resume \/ Released \/ Guard
    \/ \E state \in {"stopped", "paused", "waiting"} : Leaves(state)

Spec == Init /\ [][Next]_vars

-----------------------------------------------------------------------------
\* Whatever ends or interrupts an edit on its way to the backend - a pause, a
\* stop, a fermata, a full queue, no answer - the editor shows what the run
\* plays once nothing is under way and the last change was not refused; as
\* long as changes and starts came one at a time.
EditorIsPlayed ==
    ~ apart /\ transport.state = "running" /\ edits = <<>> /\ ~ told => transport.plays = editor.draft
=============================================================================
