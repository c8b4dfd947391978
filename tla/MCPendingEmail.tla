---------------------------- MODULE MCPendingEmail ----------------------------
(* Instances of PendingEmail for TLC. *)
EXTENDS PendingEmail, TLC

\* The requests of the chat are interchangeable, and those of the inbox.
RequestSymmetry == Permutations(Turns) \cup Permutations(Calls)
=============================================================================
