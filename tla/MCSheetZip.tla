------------------------------ MODULE MCSheetZip ------------------------------
(* SheetZip for TLC. *)
EXTENDS SheetZip, TLC

\* Two files, the first of which takes two chunks: its reading can be cut.  With
\* the second empty they fit into a ZIP of 5, else they do not.
MCSizes == {<<2, 0>>, <<2, 1>>}

MCOneFile == {<<1>>}

Symmetry == Permutations(Workers)
=============================================================================
