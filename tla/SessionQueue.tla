---------------------------- MODULE SessionQueue ----------------------------
(***************************************************************************)
(* What founder execution promises to the person who sends messages: each   *)
(* session has one queue, messages leave it in the order they entered, and  *)
(* at most one message of a session is being executed at a time.            *)
(*                                                                         *)
(* FounderRuns.tla, which follows founder-run-executor.ts, implements it.   *)
(***************************************************************************)
EXTENDS Naturals, Sequences

CONSTANTS Sessions,   \* founder session keys
          Runs        \* founder runs, in the order they are submitted

VARIABLES waiting,    \* waiting[s]: the runs of session s not yet admitted
          active      \* active[s]: the set holding the executing run, if any

queueVars == <<waiting, active>>

TypeOK ==
  /\ waiting \in [Sessions -> Seq(Runs)]
  /\ active \in [Sessions -> SUBSET Runs]

Init ==
  /\ waiting = [s \in Sessions |-> <<>>]
  /\ active = [s \in Sessions |-> {}]

\* A message arrives and joins the end of its session's queue.
Enqueue(s, r) ==
  /\ waiting' = [waiting EXCEPT ![s] = Append(@, r)]
  /\ UNCHANGED active

\* The oldest waiting run starts, only when nothing of the session executes.
Admit(s) ==
  /\ active[s] = {}
  /\ waiting[s] # <<>>
  /\ active' = [active EXCEPT ![s] = {Head(waiting[s])}]
  /\ waiting' = [waiting EXCEPT ![s] = Tail(@)]

\* The oldest waiting run was cancelled in the queue: it leaves unexecuted.
Discard(s) ==
  /\ active[s] = {}
  /\ waiting[s] # <<>>
  /\ waiting' = [waiting EXCEPT ![s] = Tail(@)]
  /\ UNCHANGED active

\* The executing run ends, whatever its outcome.
Finish(s) ==
  /\ active[s] # {}
  /\ active' = [active EXCEPT ![s] = {}]
  /\ UNCHANGED waiting

Next ==
  \E s \in Sessions :
    \/ \E r \in Runs : Enqueue(s, r)
    \/ Admit(s)
    \/ Discard(s)
    \/ Finish(s)

Spec == Init /\ [][Next]_queueVars
=============================================================================
