----------------------------- MODULE MCServing ------------------------------
(* Instances of Serving for TLC.                                            *)
EXTENDS Serving, TLC

CONSTANTS r1, r2, v1, v2, broken
Sym == Permutations(Requests) \cup Permutations(Good)
=============================================================================
