----------------------------- MODULE MCAudioOutput -----------------------------
(* AudioOutput on two interchangeable tabs. *)
EXTENDS AudioOutput, TLC

Symmetry == Permutations(Tabs)
=============================================================================
