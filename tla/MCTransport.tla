------------------------------ MODULE MCTransport ------------------------------
(* Transport with loops of two tempos and two structures and a score that holds. *)
EXTENDS Transport

Loop(step, bar) == [step |-> step, bar |-> bar, end |-> 0, hold |-> {}]
Score(step, bar, end, hold) == [step |-> step, bar |-> bar, end |-> end, hold |-> hold]

Slow == Loop(2, 2)
Fast == Loop(1, 2)
Other == Loop(2, 3)
Piece == Score(1, 2, 4, {1})

Starts == {Slow, Piece}
Loops == {Slow}
Faster == {Fast}
Pieces == {Score(1, 2, 4, {})}
Changes == {Fast, Other}
==============================================================================
