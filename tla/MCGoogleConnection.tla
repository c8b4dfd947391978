------------------------- MODULE MCGoogleConnection -------------------------
(* Small instances of GoogleConnection for TLC.                             *)
EXTENDS GoogleConnection, TLC

\* The slots of requests and the nonces are interchangeable.
SlotSymmetry == Permutations(Calls) \cup Permutations(Nonces)
=============================================================================
