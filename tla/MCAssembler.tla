---- MODULE MCAssembler ----
(* Assembler for a bank of two batteries. *)
EXTENDS Assembler, TLC

CONSTANTS s1, s2

MCSymmetry == Permutations(Serials)
====
