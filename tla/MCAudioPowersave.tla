-------------------------- MODULE MCAudioPowersave --------------------------
(* Model-checking instance of AudioPowersave: two sink inputs are enough   *)
(* for one to be left when the other stops.                                *)
EXTENDS AudioPowersave, TLC

Symmetry == Permutations(Sinks)
=============================================================================
