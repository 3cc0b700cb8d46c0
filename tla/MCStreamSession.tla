-------------------------- MODULE MCStreamSession --------------------------
(* Instances of StreamSession for TLC: d1 and d2 are dispatches of the same *)
(* run, d3 is one of another run.                                          *)
EXTENDS StreamSession, TLC
CONSTANTS d1, d2, d3, r1, r2
MCRunOf == [d \in Dispatches |-> IF d = d3 THEN r2 ELSE r1]
MCSymmetry == Permutations(Dispatches)
=============================================================================
