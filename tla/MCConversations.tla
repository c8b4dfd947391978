--------------------------- MODULE MCConversations ---------------------------
(* Instances of Conversations for TLC. *)
EXTENDS Conversations, TLC

CONSTANTS r1, r2, r3, p1, p2

\* Two requests of one process and one of another.
TwoAndOne == (r1 :> p1) @@ (r2 :> p1) @@ (r3 :> p2)

\* Those of one process may be anything; the other process does what disturbs
\* them: it rolls over, creates, and takes the advisory lock.
AnyAndRivals == (r1 :> Kinds) @@ (r2 :> Kinds) @@ (r3 :> {"new", "delegated", "archive", "dashboard"})

=============================================================================
