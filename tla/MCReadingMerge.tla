---- MODULE MCReadingMerge ----
(* ReadingMerge for two batteries. *)
EXTENDS ReadingMerge, TLC

CONSTANTS s1, s2

MCSymmetry == Permutations(Serials)
====
