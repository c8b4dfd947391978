--------------------------- MODULE MCFounderRuns ---------------------------
(* Small instances of FounderRuns for TLC.                                  *)
EXTENDS FounderRuns, TLC

\* Sessions are interchangeable.  Used by the safety run only.
SessionSymmetry == Permutations(Sessions)
=============================================================================
