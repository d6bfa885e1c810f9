----------------------------- MODULE MCTimeline -----------------------------
(* Timeline for TLC: applications are interchangeable.                      *)
EXTENDS Timeline, TLC

CONSTANT Interview

AppSymmetry == Permutations(App)
=============================================================================
