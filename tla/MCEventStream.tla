--------------------------- MODULE MCEventStream ---------------------------
(***************************************************************************)
(* EventStream for TLC: the handlers are interchangeable, and so are the   *)
(* connections.                                                            *)
(***************************************************************************)
EXTENDS EventStream, TLC

ClientSymmetry == Permutations(Clients)

\* StreamEnds for one connection, which may be any: a stream that stays its
\* queue's only one ends, is told of the plan, or its session is lost
\* (main.py:436-453).
AnyStreamEnds == Ends(CHOOSE c \in Conns : TRUE)
=============================================================================
