----------------------------- MODULE MCVideoJobs -----------------------------
(* Small instances of VideoJobs for TLC.                                    *)
EXTENDS VideoJobs, TLC

\* Processes are interchangeable.  Not used by the liveness runs.
WorkerSymmetry == Permutations(Workers)
=============================================================================
