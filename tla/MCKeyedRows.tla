---------------------------- MODULE MCKeyedRows ----------------------------
(***************************************************************************)
(* KeyedRows for TLC: handlers and values are interchangeable.             *)
(***************************************************************************)
EXTENDS KeyedRows, TLC

Symmetry == Permutations(Handlers) \cup Permutations(Values) \cup Permutations(Ids)
=============================================================================
