--------------------------- MODULE MCTensiteStream ---------------------------
(* Instances of TensiteStream for TLC.                                     *)
EXTENDS TensiteStream, TLC

CONSTANTS k1, k2, t1, t2, c1, c2, c3

\* Callers, tasks and clients are interchangeable.
MCSymmetry == Permutations(Callers) \cup Permutations(Tasks) \cup Permutations(Clients)
=============================================================================
