--------------------------- MODULE CanonicalThread ---------------------------
(***************************************************************************)
(* What an organisation sees of its conversations: there is one thread,     *)
(* from the first request that needs it on; a new one replaces it in a      *)
(* single step that leaves the old one in the archive; and what is in the   *)
(* archive stays there.                                                     *)
(*                                                                         *)
(* Conversations.tla, which follows ensureCanonical, start_new_conversation *)
(* and the archive route over rows that several processes share, implements *)
(* it.                                                                      *)
(***************************************************************************)
EXTENDS Naturals

CONSTANT Ids            \* conversations

VARIABLES thread,       \* the set that holds the active conversation, if any
          archived      \* conversations that were active once

threadVars == <<thread, archived>>

TypeOK == thread \in SUBSET Ids /\ archived \in SUBSET Ids

\* A new organisation, or one with its thread.
Init ==
  /\ thread = {} \/ \E c \in Ids : thread = {c}
  /\ archived = {}

\* The first conversation is made when there has never been one.
Create(c) ==
  /\ thread = {} /\ archived = {}
  /\ thread' = {c}
  /\ UNCHANGED archived

\* A fresh conversation takes the place of the thread.
RollOver(c) ==
  /\ thread # {}
  /\ c \notin thread \cup archived
  /\ thread' = {c}
  /\ archived' = archived \cup thread

Next == \E c \in Ids : Create(c) \/ RollOver(c)

Spec == Init /\ [][Next]_threadVars
=============================================================================
