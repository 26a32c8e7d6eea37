------------------------- MODULE MCVersionHistory -------------------------
(* Small instances of VersionHistory for TLC. *)
EXTENDS VersionHistory, TLC

\* Writers and snapshots are interchangeable.
Symmetry == Permutations(Writers) \cup Permutations(Files)
===========================================================================
