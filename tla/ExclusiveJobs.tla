---------------------------- MODULE ExclusiveJobs ----------------------------
(***************************************************************************)
(* What the job table promises to whoever ordered a video: as long as the   *)
(* lease decides about a job, one worker at a time attempts it, an attempt  *)
(* delivers at most once, the job is completed only by an attempt that has  *)
(* delivered, and nobody attempts it again.  A worker may give an attempt   *)
(* up, or die; the job is then free for another.  The answer of a delivery  *)
(* or of a completion may be lost: the attempt then counts as failed, and   *)
(* it may take its own completion back, but nobody else's.                  *)
(*                                                                         *)
(* A job is contested once the lease no longer decides: an attempt has      *)
(* outlived it, or one worker has begun the job twice.  Others may then     *)
(* take it meanwhile and put it back to work.                               *)
(*                                                                         *)
(* VideoJobs.tla, which follows routes/video.ts with its leases, stale      *)
(* reads, conditional updates and failing calls, implements it.             *)
(***************************************************************************)
EXTENDS Naturals

CONSTANTS Attempts,   \* who may attempt a job
          Requests    \* the jobs

VARIABLES stage,      \* stage[e][r]: how far the attempt e at r has come
          delivered,  \* delivered[r]: deliveries made for r
          completed,  \* completed[r]: is r completed?
          contested   \* jobs whose lease no longer decides

jobVars == <<stage, delivered, completed, contested>>

Stages == {"away", "working", "delivered", "failing"}

TypeOK ==
  /\ stage \in [Attempts -> [Requests -> Stages]]
  /\ delivered \in [Requests -> Nat]
  /\ completed \in [Requests -> BOOLEAN]
  /\ contested \subseteq Requests

Init ==
  /\ stage = [e \in Attempts |-> [r \in Requests |-> "away"]]
  /\ delivered = [r \in Requests |-> 0]
  /\ completed = [r \in Requests |-> FALSE]
  /\ contested = {}

Reach(e, r, s) == stage' = [stage EXCEPT ![e][r] = s]
Deliveries(r) == delivered' = [delivered EXCEPT ![r] = @ + 1]
SetCompleted(r, yes) == completed' = [completed EXCEPT ![r] = yes]

\* Leases are outlived, jobs are begun twice.
Contest(jobs) ==
  /\ contested' = contested \cup jobs
  /\ UNCHANGED <<stage, delivered, completed>>

\* A contested job is put back to work by somebody who is late.
Reopen(r) ==
  /\ r \in contested
  /\ SetCompleted(r, FALSE)
  /\ UNCHANGED <<stage, delivered, contested>>

\* The lease admits e only if the job is open and nobody attempts it.
Take(e, r) ==
  /\ r \notin contested =>
       ~completed[r] /\ \A f \in Attempts : stage[f][r] = "away"
  /\ stage[e][r] = "away"
  /\ Reach(e, r, "working")
  /\ SetCompleted(r, FALSE)
  /\ UNCHANGED <<delivered, contested>>

\* The one delivery of the attempt, heard of or not.
Deliver(e, r) ==
  /\ stage[e][r] = "working"
  /\ Reach(e, r, "delivered") \/ Reach(e, r, "failing")
  /\ Deliveries(r)
  /\ UNCHANGED <<completed, contested>>

\* The attempt that has delivered completes the job, and hears of it or not.
Complete(e, r) ==
  /\ stage[e][r] = "delivered"
  /\ Reach(e, r, "away") \/ Reach(e, r, "failing")
  /\ SetCompleted(r, TRUE)
  /\ UNCHANGED <<delivered, contested>>

\* Something went wrong, before or after the delivery.
Stumble(e, r) ==
  /\ stage[e][r] \in {"working", "delivered"}
  /\ Reach(e, r, "failing")
  /\ UNCHANGED completed \/ (r \in contested /\ SetCompleted(r, FALSE))
  /\ UNCHANGED <<delivered, contested>>

\* The attempt is given up, at work or failing; only a failing one says so.
Quit(e, r) ==
  /\ stage[e][r] \in {"working", "failing"}
  /\ Reach(e, r, "away")
  /\ UNCHANGED completed \/ (stage[e][r] = "failing" /\ SetCompleted(r, FALSE))
  /\ UNCHANGED <<delivered, contested>>

\* A worker dies in the middle of its attempts.
Die(attempts) ==
  /\ stage' = [e \in Attempts |-> [r \in Requests |->
                 IF e \in attempts THEN "away" ELSE stage[e][r]]]
  /\ UNCHANGED <<delivered, completed, contested>>

Next ==
  \/ \E jobs \in SUBSET Requests : Contest(jobs)
  \/ \E e \in Attempts, r \in Requests :
       \/ Take(e, r) \/ Deliver(e, r) \/ Complete(e, r)
       \/ Stumble(e, r) \/ Quit(e, r)
  \/ \E r \in Requests : Reopen(r)
  \/ \E attempts \in SUBSET Attempts : Die(attempts)

Spec == Init /\ [][Next]_jobVars
=============================================================================
