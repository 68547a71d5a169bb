--------------------------- MODULE MCPracticeHistory ---------------------------
(* PracticeHistory for TLC. *)
EXTENDS PracticeHistory, TLC

Symmetry == Permutations(Tabs) \cup Permutations(Flows) \cup Permutations(Sessions)
=============================================================================
