----------------------------- MODULE MCTracing -----------------------------
(* Values of Tracing's constants for TLC. *)
EXTENDS Tracing, TLC

CONSTANTS s1, s2, s3, t1, t2

(* s3 is hidden. *)
MCSymmetry == Permutations({s1, s2}) \cup Permutations({t1, t2})
=============================================================================
