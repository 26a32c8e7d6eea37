-------------------------- MODULE MCPreviewServer --------------------------
(* Small instances of PreviewServer for TLC. *)
EXTENDS PreviewServer, TLC

\* Sessions and calls are interchangeable.
Symmetry == Permutations(Sessions) \cup Permutations(Calls)
===========================================================================
