------------------------ MODULE MCSessionLifecycle ------------------------
(* Small instances of SessionLifecycle for TLC. *)
EXTENDS SessionLifecycle, TLC

\* Tasks, dicts, non-empty file sets and clients are interchangeable.
Symmetry == Permutations(Runs) \cup Permutations(Objects)
            \cup Permutations(Files \ {Empty}) \cup Permutations(Clients)
===========================================================================
