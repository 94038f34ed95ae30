---- MODULE MCCommandLine ----
(* CommandLine for a bank of two batteries, received well or badly. *)
EXTENDS CommandLine

CONSTANTS s1, s2

MCStrengths == {-90, -60}
====
