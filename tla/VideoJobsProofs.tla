--------------------------- MODULE VideoJobsProofs ---------------------------
(***************************************************************************)
(* Proofs about VideoJobs, for any number of processes, requests, crashes   *)
(* and store errors, and any lease.  Nothing is assumed of the time an      *)
(* execution takes.                                                         *)
(*                                                                         *)
(* The conditional update of the claim compares the lease in the row with a *)
(* clock read earlier, and never asks for the status.  As long as a job is  *)
(* not contested (no execution of it has outlived the lease, no process has *)
(* begun it twice), a claimer that read its clock before the owner's lease  *)
(* was over cannot pass the condition, neither while the owner works nor    *)
(* after it has closed the job.  The invariant says so for every suspended  *)
(* claimer (Barred), and follows each frame to the row.                     *)
(***************************************************************************)
EXTENDS VideoJobs, FiniteSetTheorems, TLAPS

\* Where the frame holds the lease of the row it has reread.
Holding == {"render", "upload", "result", "finish"}

\* What a frame knows: its task was dispatched, by a start only once the start
\* is over; a claim is tried within a lease from the clock that was read; an
\* owner is what the row says, within the lease, and its copy of the source has
\* that lease; a process has one execution of a job.
FrameOf(e, r) ==
  /\ exec[e][r].pc = "claim" =>
       exec[e][r].at <= now /\ now <= exec[e][r].at + LeaseTime
  /\ exec[e][r].pc \in Owning =>
       task[r].assigned = Process(e) /\ now <= task[r].lease
  /\ exec[e][r].pc \in Holding => exec[e][r].lease = task[r].lease

Dispatched ==
  /\ \A e \in Executions, r \in Requests :
       exec[e][r].pc # "idle" => creating[r] = "over"
  /\ \A w \in Workers, r \in Requests :
       exec[ByBoot(w)][r].pc # "idle" => worker[w] = "up"

Alone(r) ==
  \A e, f \in Executions :
    /\ exec[e][r].pc # "idle" /\ exec[f][r].pc # "idle"
    /\ Process(e) = Process(f)
    => e = f

FrameInv ==
  /\ Dispatched
  /\ \A r \in Requests \ contested : Alone(r) /\ \A e \in Executions : FrameOf(e, r)

\* A request that has not inserted its task has none.
NotCreated == \A r \in Requests : creating[r] # "over" => task[r].status = "none"

\* Nobody executes r, and no claimer of r can pass the conditional update.
Barred(r) ==
  \A e \in Executions :
    /\ exec[e][r].pc \notin Owning
    /\ exec[e][r].pc = "claim" =>
         /\ task[r].assigned \notin {None, Process(e)}
         /\ exec[e][r].at <= task[r].lease

\* An execution whose completing update was applied may still fail the job.
CompletedIsBarred ==
  \A r \in Requests \ contested :
    task[r].status = "completed" =>
      Barred(r) \/ \E e \in Executions : exec[e][r].pc = "failing"

\* A job whose next result would be one too many: it is closed for good, or
\* its owner is about to close it.
Closing(r) ==
  \/ task[r].status \in Terminal /\ Barred(r)
  \/ \E e \in Executions : exec[e][r].pc \in {"finish", "failing"}

Causes(r) == Cardinality(Dead) + abandoned[r]

ResultsCounted ==
  \A r \in Requests \ contested :
    \/ results[r] <= Causes(r)
    \/ results[r] <= 1 + Causes(r) /\ Closing(r)

IInv ==
  /\ TypeOK /\ FrameInv /\ NotCreated
  /\ CompletedIsBarred /\ ResultsCounted

-----------------------------------------------------------------------------
(* Executions and processes *)

LEMMA ExecutionOf ==
  /\ \A e \in Executions : Process(e) \in Workers /\ Process(e) # None
  /\ \A w \in Workers :
       /\ w # None /\ w # "over"
       /\ ByRequest(w) \in Executions /\ Process(ByRequest(w)) = w
       /\ ByBoot(w) \in Executions /\ Process(ByBoot(w)) = w
       /\ ByRequest(w) # ByBoot(w)
       /\ \A e \in Executions : Process(e) = w => e \in {ByRequest(w), ByBoot(w)}
<1>1. \A w \in Workers : w # None /\ w # "over"
  BY VideoAssumption DEF None
<1>2. ASSUME NEW e \in Executions
      PROVE  /\ Process(e) \in Workers
             /\ e = ByRequest(Process(e)) \/ e = ByBoot(Process(e))
  BY DEF Executions, Process, ByRequest, ByBoot
<1>3. \A w \in Workers :
        /\ ByRequest(w) \in Executions /\ Process(ByRequest(w)) = w
        /\ ByBoot(w) \in Executions /\ Process(ByBoot(w)) = w
        /\ ByRequest(w) # ByBoot(w)
  BY DEF Executions, Process, ByRequest, ByBoot
<1> QED
  BY <1>1, <1>2, <1>3

\* The frames that handlers build.
LEMMA BuiltFrames ==
  /\ IdleFrame \in Frames /\ IdleFrame.pc = "idle"
  /\ \A location \in Locations :
       /\ FrameAt(location) \in Frames /\ FrameAt(location).pc = location
       /\ \A lease \in Leases :
            /\ [FrameAt(location) EXCEPT !.lease = lease] \in Frames
            /\ [FrameAt(location) EXCEPT !.lease = lease].pc = location
            /\ [FrameAt(location) EXCEPT !.lease = lease].lease = lease
<1>1. 0 \in Times /\ -1 \in Leases /\ "idle" \in Locations
  BY VideoAssumption DEF Times, Leases, Locations
<1>2. IdleFrame \in Frames /\ IdleFrame.pc = "idle"
  BY <1>1 DEF IdleFrame, Frames
<1>3. ASSUME NEW location \in Locations
      PROVE  FrameAt(location) \in Frames /\ FrameAt(location).pc = location
  BY <1>1 DEF FrameAt, IdleFrame, Frames
<1>4. ASSUME NEW location \in Locations, NEW lease \in Leases
      PROVE  /\ [FrameAt(location) EXCEPT !.lease = lease] \in Frames
             /\ [FrameAt(location) EXCEPT !.lease = lease].pc = location
             /\ [FrameAt(location) EXCEPT !.lease = lease].lease = lease
  BY <1>1 DEF FrameAt, IdleFrame, Frames
<1> QED
  BY <1>2, <1>3, <1>4

LEMMA KeptFrames ==
  ASSUME TypeOK, NEW e \in Executions, NEW r \in Requests
  PROVE  /\ RowRead(r) \in Frames /\ RowRead(r).pc = "claim" /\ RowRead(r).at = now
         /\ \A location \in Locations :
              /\ [exec[e][r] EXCEPT !.pc = location] \in Frames
              /\ [exec[e][r] EXCEPT !.pc = location].pc = location
              /\ [exec[e][r] EXCEPT !.pc = location].lease = exec[e][r].lease
<1>1. task[r] \in Rows /\ exec[e][r] \in Frames /\ now \in Times
  BY DEF TypeOK
<1>2. task[r].started \in Times \cup {-1} /\ task[r].artifact \in BOOLEAN
  BY <1>1 DEF Rows
<1>3. "claim" \in Locations /\ -1 \in Leases
  BY DEF Locations, Leases
<1>4. RowRead(r) \in Frames /\ RowRead(r).pc = "claim" /\ RowRead(r).at = now
  BY <1>1, <1>2, <1>3 DEF Frames, RowRead
<1>5. ASSUME NEW location \in Locations
      PROVE  /\ [exec[e][r] EXCEPT !.pc = location] \in Frames
             /\ [exec[e][r] EXCEPT !.pc = location].pc = location
             /\ [exec[e][r] EXCEPT !.pc = location].lease = exec[e][r].lease
  BY <1>1, <1>5 DEF Frames
<1> QED
  BY <1>4, <1>5

\* Putting a typed row in its place.
LEMMA RowPlaced ==
  ASSUME TypeOK, NEW r \in Requests, NEW row \in Rows,
         task' = [task EXCEPT ![r] = row]
  PROVE  /\ task' \in [Requests -> Rows]
         /\ task'[r] = row
         /\ \A q \in Requests : q # r => task'[q] = task[q]
BY DEF TypeOK

\* What suspending, going on, returning and abandoning leave behind.
LEMMA Suspended ==
  ASSUME TypeOK, NEW e \in Executions, NEW r \in Requests, NEW f \in Frames,
         Suspend(e, r, f)
  PROVE  /\ exec' \in [Executions -> [Requests -> Frames]]
         /\ exec'[e][r] = f /\ abandoned' = abandoned
         /\ \A d \in Executions, q \in Requests :
              d # e \/ q # r => exec'[d][q] = exec[d][q]
<1>1. exec' = [exec EXCEPT ![e][r] = f] /\ abandoned' = abandoned
  BY DEF Suspend
<1>2. /\ exec' \in [Executions -> [Requests -> Frames]]
      /\ exec'[e][r] = f
      /\ \A d \in Executions, q \in Requests :
           d # e \/ q # r => exec'[d][q] = exec[d][q]
  BY <1>1 DEF TypeOK
<1> QED
  BY <1>1, <1>2

LEMMA Gone ==
  ASSUME TypeOK, NEW e \in Executions, NEW r \in Requests, NEW location \in Locations,
         Goto(e, r, location)
  PROVE  /\ exec' \in [Executions -> [Requests -> Frames]]
         /\ exec'[e][r].pc = location /\ exec'[e][r].lease = exec[e][r].lease
         /\ abandoned' = abandoned
         /\ \A d \in Executions, q \in Requests :
              d # e \/ q # r => exec'[d][q] = exec[d][q]
<1> DEFINE f == [exec[e][r] EXCEPT !.pc = location]
<1>1. f \in Frames /\ f.pc = location /\ f.lease = exec[e][r].lease
  BY KeptFrames
<1>2. Suspend(e, r, f)
  BY DEF Goto
<1> HIDE DEF f
<1> QED
  BY <1>1, <1>2, Suspended

LEMMA Stumbled ==
  ASSUME TypeOK, NEW e \in Executions, NEW r \in Requests, Stumble(e, r)
  PROVE  /\ exec' \in [Executions -> [Requests -> Frames]]
         /\ exec'[e][r].pc = "failing" /\ abandoned' = abandoned
         /\ \A d \in Executions, q \in Requests :
              d # e \/ q # r => exec'[d][q] = exec[d][q]
<1>1. "failing" \in Locations
  BY DEF Locations, Owning
<1> QED
  BY <1>1, BuiltFrames, Suspended DEF Stumble

LEMMA Returned ==
  ASSUME TypeOK, NEW e \in Executions, NEW r \in Requests, Return(e, r)
  PROVE  /\ exec' \in [Executions -> [Requests -> Frames]]
         /\ exec'[e][r].pc = "idle" /\ abandoned' = abandoned
         /\ \A d \in Executions, q \in Requests :
              d # e \/ q # r => exec'[d][q] = exec[d][q]
BY BuiltFrames, Suspended DEF Return

LEMMA LeftBehind ==
  ASSUME TypeOK, NEW e \in Executions, NEW r \in Requests, Abandon(e, r)
  PROVE  /\ exec' \in [Executions -> [Requests -> Frames]]
         /\ exec'[e][r].pc = "idle"
         /\ \A d \in Executions, q \in Requests :
              d # e \/ q # r => exec'[d][q] = exec[d][q]
         /\ abandoned' \in [Requests -> Nat]
         /\ abandoned'[r] = abandoned[r] + 1
         /\ \A q \in Requests : q # r => abandoned'[q] = abandoned[q]
<1>0. IdleFrame \in Frames /\ IdleFrame.pc = "idle"
  BY BuiltFrames
<1>1. /\ exec' = [exec EXCEPT ![e][r] = IdleFrame]
      /\ abandoned' = [abandoned EXCEPT ![r] = @ + 1]
  BY DEF Abandon
<1>2. /\ abandoned' \in [Requests -> Nat]
      /\ abandoned'[r] = abandoned[r] + 1
      /\ \A q \in Requests : q # r => abandoned'[q] = abandoned[q]
  BY <1>1 DEF TypeOK
<1>3. /\ exec' \in [Executions -> [Requests -> Frames]]
      /\ exec'[e][r] = IdleFrame
      /\ \A d \in Executions, q \in Requests :
           d # e \/ q # r => exec'[d][q] = exec[d][q]
  BY <1>0, <1>1 DEF TypeOK
<1> QED
  BY <1>0, <1>2, <1>3

\* The rows that handlers write.
LEMMA StatusSet ==
  ASSUME TypeOK, NEW r \in Requests, NEW st \in Active \cup Terminal, SetStatus(r, st)
  PROVE  /\ task' \in [Requests -> Rows]
         /\ task'[r].status = st /\ task'[r].assigned = task[r].assigned
         /\ task'[r].lease = task[r].lease /\ task'[r].artifact = task[r].artifact
         /\ \A q \in Requests : q # r => task'[q] = task[q]
<1>1. task[r] \in Rows
  BY DEF TypeOK
<1>2. PICK row : row = [task[r] EXCEPT !.status = st]
  OBVIOUS
<1>3. row \in Rows
  BY <1>1, <1>2, ZenonT(60) DEF Rows
<1>4. /\ row.status = st /\ row.assigned = task[r].assigned
      /\ row.lease = task[r].lease /\ row.artifact = task[r].artifact
  BY <1>1, <1>2 DEF Rows
<1>5. task' = [task EXCEPT ![r] = row]
  BY <1>2 DEF SetStatus, TypeOK
<1> QED
  BY <1>3, <1>4, <1>5, RowPlaced

ClaimedRow(e, r) ==
  /\ task'[r].status = "running" /\ task'[r].assigned = Process(e)
  /\ task'[r].lease = exec[e][r].at + LeaseTime

LEMMA ClaimWritten ==
  ASSUME TypeOK, NEW e \in Executions, NEW r \in Requests, WriteClaim(e, r)
  PROVE  /\ task' \in [Requests -> Rows] /\ ClaimedRow(e, r)
         /\ \A q \in Requests : q # r => task'[q] = task[q]
<1> DEFINE f == exec[e][r]
<1> DEFINE started == IF f.started = -1 THEN f.at ELSE f.started
<1>1. task[r] \in Rows /\ f \in Frames
  BY DEF TypeOK
<1>2. /\ f.at \in Times /\ started \in Times \cup {-1}
      /\ f.at + LeaseTime \in Leases /\ f.artifact \in BOOLEAN
  BY <1>1, VideoAssumption DEF Frames, Times, Leases
<1>3. PICK row : row = [task[r] EXCEPT !.status = "running", !.started = started,
                          !.assigned = Process(e), !.lease = f.at + LeaseTime,
                          !.artifact = f.artifact]
  OBVIOUS
<1>4. Process(e) \in Workers /\ "running" \in Active
  BY ExecutionOf DEF Active
<1> HIDE DEF started
<1>5. row \in Rows
  BY <1>1, <1>2, <1>3, <1>4 DEF Rows
<1>6. /\ row.status = "running" /\ row.assigned = Process(e)
      /\ row.lease = f.at + LeaseTime
  BY <1>1, <1>3 DEF Rows
<1>7. task' = [task EXCEPT ![r] = row]
  BY <1>3 DEF WriteClaim, TypeOK, started
<1> QED
  BY <1>5, <1>6, <1>7, RowPlaced DEF ClaimedRow

LEMMA Completing ==
  ASSUME TypeOK, NEW r \in Requests, NEW lease \in Leases,
         task' = [task EXCEPT ![r].status = "completed", ![r].lease = lease,
                              ![r].artifact = TRUE]
  PROVE  /\ task' \in [Requests -> Rows]
         /\ task'[r].status = "completed" /\ task'[r].lease = lease
         /\ task'[r].artifact /\ task'[r].assigned = task[r].assigned
         /\ \A q \in Requests : q # r => task'[q] = task[q]
<1>1. task[r] \in Rows
  BY DEF TypeOK
<1>2. PICK row : row = [task[r] EXCEPT !.status = "completed", !.lease = lease,
                                       !.artifact = TRUE]
  OBVIOUS
<1>3. row \in Rows
  BY <1>1, <1>2 DEF Rows, Terminal
<1>4. /\ row.status = "completed" /\ row.lease = lease /\ row.artifact
      /\ row.assigned = task[r].assigned
  BY <1>1, <1>2 DEF Rows
<1>5. task' = [task EXCEPT ![r] = row]
  BY <1>2 DEF TypeOK
<1> QED
  BY <1>3, <1>4, <1>5, RowPlaced

LEMMA Queued ==
  ASSUME TypeOK, NEW r \in Requests,
         task' = [task EXCEPT ![r].status = "queued", ![r].created = now]
  PROVE  /\ task' \in [Requests -> Rows]
         /\ task'[r].status = "queued" /\ task'[r].assigned = task[r].assigned
         /\ \A q \in Requests : q # r => task'[q] = task[q]
<1>1. task[r] \in Rows /\ now \in Times
  BY DEF TypeOK
<1>2. PICK row : row = [task[r] EXCEPT !.status = "queued", !.created = now]
  OBVIOUS
<1>3. row \in Rows
  BY <1>1, <1>2 DEF Rows, Active
<1>4. row.status = "queued" /\ row.assigned = task[r].assigned
  BY <1>1, <1>2 DEF Rows
<1>5. task' = [task EXCEPT ![r] = row]
  BY <1>2 DEF TypeOK
<1> QED
  BY <1>3, <1>4, <1>5, RowPlaced

-----------------------------------------------------------------------------
(* What a step of the execution does, seen from its frame and its row *)

RowKept(r) ==
  task'[r] = task[r] /\ results'[r] = results[r] /\ abandoned'[r] = abandoned[r]

\* The execution returns without a claim.
LeavesJob(e, r) ==
  /\ exec[e][r].pc \in {"read", "claim"} /\ exec'[e][r].pc = "idle"
  /\ RowKept(r)

\* It has read a job that may be claimed.
ReadsJob(e, r) ==
  /\ exec[e][r].pc = "read" /\ exec'[e][r].pc = "claim"
  /\ exec'[e][r].at = now
  /\ task[r].status \notin Terminal
  /\ RowKept(r)

\* The conditional update changed the row, and the execution knows.
ClaimsJob(e, r) ==
  /\ exec[e][r].pc = "claim" /\ exec'[e][r].pc = "reread"
  /\ MayClaim(e, r) /\ ClaimedRow(e, r)
  /\ results'[r] = results[r] /\ abandoned'[r] = abandoned[r]

\* A store error ends the execution; its claim may have been applied.
AbandonsJob(e, r) ==
  /\ exec[e][r].pc \in {"read", "claim", "reread", "failing"}
  /\ exec'[e][r].pc = "idle"
  /\ \/ task'[r] = task[r]
     \/ exec[e][r].pc = "claim" /\ MayClaim(e, r) /\ ClaimedRow(e, r)
  /\ results'[r] = results[r] /\ abandoned'[r] = abandoned[r] + 1

\* The owner goes on.
WorksOn(e, r) ==
  /\ exec[e][r].pc \in Owning \ {"failing"}
  /\ exec'[e][r].pc \in {"render", "upload", "result", "failing"}
  /\ exec[e][r].pc = "finish" => exec'[e][r].pc = "failing"
  /\ exec'[e][r].pc # "failing" =>
       exec'[e][r].lease = IF exec[e][r].pc = "reread" THEN task[r].lease
                                                     ELSE exec[e][r].lease
  /\ task'[r] = task[r] \/ task'[r].status = "running"
  /\ task'[r].assigned = task[r].assigned /\ task'[r].lease = task[r].lease
  /\ results'[r] = results[r] /\ abandoned'[r] = abandoned[r]

\* The owner inserts the result, and knows or not.
InsertsResult(e, r) ==
  /\ exec[e][r].pc = "result" /\ exec'[e][r].pc \in {"finish", "failing"}
  /\ exec'[e][r].pc = "finish" => exec'[e][r].lease = exec[e][r].lease
  /\ task'[r] = task[r] /\ results'[r] = results[r] + 1
  /\ abandoned'[r] = abandoned[r]

\* The owner completes the job, and knows or not.
CompletesJob(e, r) ==
  /\ exec[e][r].pc = "finish" /\ exec'[e][r].pc \in {"idle", "failing"}
  /\ task'[r].status = "completed" /\ task'[r].artifact
  /\ task'[r].assigned = task[r].assigned /\ task'[r].lease = exec[e][r].lease
  /\ results'[r] = results[r] /\ abandoned'[r] = abandoned[r]

\* The catch block closes it.
FailsJob(e, r) ==
  /\ exec[e][r].pc = "failing" /\ exec'[e][r].pc = "idle"
  /\ task'[r].status = "failed"
  /\ task'[r].assigned = task[r].assigned /\ task'[r].lease = task[r].lease
  /\ results'[r] = results[r] /\ abandoned'[r] = abandoned[r]

ExecuteKinds(e, r) ==
  \/ LeavesJob(e, r) \/ ReadsJob(e, r) \/ ClaimsJob(e, r) \/ AbandonsJob(e, r)
  \/ WorksOn(e, r) \/ InsertsResult(e, r) \/ CompletesJob(e, r) \/ FailsJob(e, r)

\* What it leaves alone.
ElsewhereKept(e, r) ==
  /\ UNCHANGED <<now, worker, expired, creating, contested>>
  /\ exec[e][r].pc # "idle"
  /\ \A q \in Requests : q # r => RowKept(q)
  /\ \A d \in Executions, q \in Requests :
       d # e \/ q # r => exec'[d][q] = exec[d][q]

ExecuteTyped ==
  /\ task' \in [Requests -> Rows] /\ results' \in [Requests -> Nat]
  /\ exec' \in [Executions -> [Requests -> Frames]]
  /\ abandoned' \in [Requests -> Nat]

LEMMA ExecuteStep ==
  ASSUME TypeOK, NEW e \in Executions, NEW r \in Requests, Execute(e, r)
  PROVE  ExecuteTyped /\ ElsewhereKept(e, r) /\ ExecuteKinds(e, r)
<1>1. /\ task \in [Requests -> Rows] /\ results \in [Requests -> Nat]
      /\ abandoned \in [Requests -> Nat] /\ exec[e][r] \in Frames
  BY DEF TypeOK
<1>2. "running" \in Active \cup Terminal /\ "failed" \in Active \cup Terminal
  BY DEF Active, Terminal
<1>3. {"render", "upload", "result", "finish"} \subseteq Locations
  BY DEF Locations, Owning
<1> USE DEF At
<1> DEFINE Goal == ExecuteTyped /\ ElsewhereKept(e, r) /\ ExecuteKinds(e, r)
<1>4. CASE ReadTask(e, r)
  <2>1. UNCHANGED <<now, worker, expired, creating, task, results, contested>>
        /\ exec[e][r].pc = "read"
    BY <1>4 DEF ReadTask
  <2>2. CASE Return(e, r)
    <3>1. LeavesJob(e, r)
      BY <2>1, <2>2, Returned DEF LeavesJob, RowKept
    <3> QED
      BY <1>1, <2>1, <2>2, <3>1, Returned
      DEF ExecuteTyped, ElsewhereKept, ExecuteKinds, RowKept
  <2>3. CASE Suspend(e, r, RowRead(r)) /\ task[r].status \notin Terminal
    <3>1. ReadsJob(e, r)
      BY <2>1, <2>3, KeptFrames, Suspended DEF ReadsJob, RowKept
    <3> QED
      BY <1>1, <2>1, <2>3, <3>1, KeptFrames, Suspended
      DEF ExecuteTyped, ElsewhereKept, ExecuteKinds, RowKept
  <2>4. CASE Abandon(e, r)
    <3>1. AbandonsJob(e, r)
      BY <2>1, <2>4, LeftBehind DEF AbandonsJob
    <3> QED
      BY <1>1, <2>1, <2>4, <3>1, LeftBehind
      DEF ExecuteTyped, ElsewhereKept, ExecuteKinds, RowKept
  <2> QED
    BY <1>4, <2>2, <2>3, <2>4 DEF ReadTask
<1>5. CASE Claim(e, r)
  <2>1. UNCHANGED <<now, worker, expired, creating, results, contested>>
        /\ exec[e][r].pc = "claim"
    BY <1>5 DEF Claim
  <2>2. CASE Return(e, r) /\ UNCHANGED task
    <3>1. LeavesJob(e, r)
      BY <2>1, <2>2, Returned DEF LeavesJob, RowKept
    <3> QED
      BY <1>1, <2>1, <2>2, <3>1, Returned
      DEF ExecuteTyped, ElsewhereKept, ExecuteKinds, RowKept
  <2>3. CASE WriteClaim(e, r) /\ Suspend(e, r, FrameAt("reread")) /\ MayClaim(e, r)
    <3>0. FrameAt("reread") \in Frames /\ FrameAt("reread").pc = "reread"
      BY BuiltFrames DEF Locations, Owning
    <3>1. ClaimsJob(e, r)
      BY <2>1, <2>3, <3>0, Suspended, ClaimWritten DEF ClaimsJob
    <3> QED
      BY <1>1, <2>1, <2>3, <3>0, <3>1, Suspended, ClaimWritten
      DEF ExecuteTyped, ElsewhereKept, ExecuteKinds, RowKept
  <2>4. CASE Abandon(e, r) /\ WriteClaim(e, r) /\ MayClaim(e, r)
    <3>1. AbandonsJob(e, r)
      BY <2>1, <2>4, LeftBehind, ClaimWritten DEF AbandonsJob
    <3> QED
      BY <1>1, <2>1, <2>4, <3>1, LeftBehind, ClaimWritten
      DEF ExecuteTyped, ElsewhereKept, ExecuteKinds, RowKept
  <2>5. CASE Abandon(e, r) /\ UNCHANGED task
    <3>1. AbandonsJob(e, r)
      BY <2>1, <2>5, LeftBehind DEF AbandonsJob
    <3> QED
      BY <1>1, <2>1, <2>5, <3>1, LeftBehind
      DEF ExecuteTyped, ElsewhereKept, ExecuteKinds, RowKept
  <2> QED
    BY <1>5, <2>2, <2>3, <2>4, <2>5 DEF Claim
<1>6. CASE Reread(e, r)
  <2>1. UNCHANGED <<now, worker, expired, creating, task, results, contested>>
        /\ exec[e][r].pc = "reread"
    BY <1>6 DEF Reread
  <2>2. CASE Abandon(e, r)
    <3>1. AbandonsJob(e, r)
      BY <2>1, <2>2, LeftBehind DEF AbandonsJob
    <3> QED
      BY <1>1, <2>1, <2>2, <3>1, LeftBehind
      DEF ExecuteTyped, ElsewhereKept, ExecuteKinds, RowKept
  <2>3. CASE Stumble(e, r)
    <3>1. WorksOn(e, r)
      BY <2>1, <2>3, Stumbled DEF WorksOn, Owning
    <3> QED
      BY <1>1, <2>1, <2>3, <3>1, Stumbled
      DEF ExecuteTyped, ElsewhereKept, ExecuteKinds, RowKept
  <2>4. ASSUME NEW location \in {"result", "render"},
               Suspend(e, r, [FrameAt(location) EXCEPT !.lease = task[r].lease])
        PROVE  Goal
    <3>0. task[r].lease \in Leases
      BY <1>1 DEF Rows
    <3>4. PICK frame : frame = [FrameAt(location) EXCEPT !.lease = task[r].lease]
      OBVIOUS
    <3>5. location \in Locations
      BY <1>3
    <3>1. frame \in Frames /\ frame.pc = location /\ frame.lease = task[r].lease
      BY <3>0, <3>4, <3>5, BuiltFrames
    <3>3. /\ exec' \in [Executions -> [Requests -> Frames]]
          /\ exec'[e][r] = frame /\ abandoned' = abandoned
          /\ \A d \in Executions, q \in Requests :
               d # e \/ q # r => exec'[d][q] = exec[d][q]
      BY <2>4, <3>1, <3>4, Suspended
    <3>2. WorksOn(e, r)
      BY <2>1, <2>4, <3>1, <3>3 DEF WorksOn, Owning
    <3> QED
      BY <1>1, <2>1, <3>2, <3>3
      DEF ExecuteTyped, ElsewhereKept, ExecuteKinds, RowKept
  <2> QED
    BY <1>6, <2>2, <2>3, <2>4 DEF Reread
<1>7. ASSUME NEW location \in {"upload", "result"},
             exec[e][r].pc \in {"render", "upload"},
             \/ SetStatus(r, "running") /\ Goto(e, r, location)
             \/ MaybeRunning(r) /\ Stumble(e, r),
             UNCHANGED <<now, worker, expired, creating, results, contested>>
      PROVE  Goal
  <2>1. CASE SetStatus(r, "running") /\ Goto(e, r, location)
    <3>1. WorksOn(e, r)
      BY <1>2, <1>3, <1>7, <2>1, Gone, StatusSet DEF WorksOn, Owning
    <3> QED
      BY <1>2, <1>3, <1>7, <2>1, <3>1, Gone, StatusSet, <1>1
      DEF ExecuteTyped, ElsewhereKept, ExecuteKinds, RowKept
  <2>2. CASE UNCHANGED task /\ Stumble(e, r)
    <3>1. WorksOn(e, r)
      BY <1>7, <2>2, Stumbled DEF WorksOn, Owning
    <3> QED
      BY <1>1, <1>7, <2>2, <3>1, Stumbled
      DEF ExecuteTyped, ElsewhereKept, ExecuteKinds, RowKept
  <2>3. CASE SetStatus(r, "running") /\ Stumble(e, r)
    <3>1. WorksOn(e, r)
      BY <1>2, <1>7, <2>3, Stumbled, StatusSet DEF WorksOn, Owning
    <3> QED
      BY <1>1, <1>2, <1>7, <2>3, <3>1, Stumbled, StatusSet
      DEF ExecuteTyped, ElsewhereKept, ExecuteKinds, RowKept
  <2> QED
    BY <1>7, <2>1, <2>2, <2>3 DEF MaybeRunning
<1>8. CASE StartRender(e, r) \/ RenderAnswered(e, r)
  BY <1>7, <1>8 DEF StartRender, RenderAnswered
<1>9. CASE SaveResult(e, r)
  <2>1. UNCHANGED <<now, worker, expired, creating, task, contested>>
        /\ exec[e][r].pc = "result"
    BY <1>9 DEF SaveResult
  <2>2. CASE Stumble(e, r) /\ UNCHANGED results
    <3>1. WorksOn(e, r)
      BY <2>1, <2>2, Stumbled DEF WorksOn, Owning
    <3> QED
      BY <1>1, <2>1, <2>2, <3>1, Stumbled
      DEF ExecuteTyped, ElsewhereKept, ExecuteKinds, RowKept
  <2>3. ASSUME results' = [results EXCEPT ![r] = @ + 1]
        PROVE  /\ results' \in [Requests -> Nat] /\ results'[r] = results[r] + 1
               /\ \A q \in Requests : q # r => results'[q] = results[q]
    BY <1>1, <2>3
  <2>4. CASE Stumble(e, r) /\ results' = [results EXCEPT ![r] = @ + 1]
    <3>1. InsertsResult(e, r)
      BY <2>1, <2>3, <2>4, Stumbled DEF InsertsResult
    <3> QED
      BY <1>1, <2>1, <2>3, <2>4, <3>1, Stumbled
      DEF ExecuteTyped, ElsewhereKept, ExecuteKinds, RowKept
  <2>5. CASE Goto(e, r, "finish") /\ results' = [results EXCEPT ![r] = @ + 1]
    <3>1. InsertsResult(e, r)
      BY <1>3, <2>1, <2>3, <2>5, Gone DEF InsertsResult
    <3> QED
      BY <1>1, <1>3, <2>1, <2>3, <2>5, <3>1, Gone
      DEF ExecuteTyped, ElsewhereKept, ExecuteKinds, RowKept
  <2> QED
    BY <1>9, <2>2, <2>4, <2>5 DEF SaveResult
<1>10. CASE Finish(e, r)
  <2>1. UNCHANGED <<now, worker, expired, creating, results, contested>>
        /\ exec[e][r].pc = "finish"
    BY <1>10 DEF Finish
  <2>2. CASE Stumble(e, r) /\ UNCHANGED task
    <3>1. WorksOn(e, r)
      BY <2>1, <2>2, Stumbled DEF WorksOn, Owning
    <3> QED
      BY <1>1, <2>1, <2>2, <3>1, Stumbled
      DEF ExecuteTyped, ElsewhereKept, ExecuteKinds, RowKept
  <2>3. CASE /\ Return(e, r) \/ Stumble(e, r)
             /\ task' = [task EXCEPT ![r].status = "completed",
                           ![r].lease = exec[e][r].lease, ![r].artifact = TRUE]
    <3>0. exec[e][r].lease \in Leases
      BY <1>1 DEF Frames
    <3>1. /\ task' \in [Requests -> Rows]
          /\ task'[r].status = "completed" /\ task'[r].lease = exec[e][r].lease
          /\ task'[r].artifact /\ task'[r].assigned = task[r].assigned
          /\ \A q \in Requests : q # r => task'[q] = task[q]
      BY <2>3, <3>0, Completing
    <3>2. CompletesJob(e, r)
      BY <2>1, <2>3, <3>1, Returned, Stumbled DEF CompletesJob
    <3> QED
      BY <1>1, <2>1, <2>3, <3>1, <3>2, Returned, Stumbled
      DEF ExecuteTyped, ElsewhereKept, ExecuteKinds, RowKept
  <2> QED
    BY <1>10, <2>2, <2>3 DEF Finish
<1>11. CASE Fail(e, r)
  <2>1. UNCHANGED <<now, worker, expired, creating, results, contested>>
        /\ exec[e][r].pc = "failing"
    BY <1>11 DEF Fail
  <2>2. CASE SetStatus(r, "failed") /\ Return(e, r)
    <3>1. FailsJob(e, r)
      BY <1>2, <2>1, <2>2, Returned, StatusSet DEF FailsJob
    <3> QED
      BY <1>1, <1>2, <2>1, <2>2, <3>1, Returned, StatusSet
      DEF ExecuteTyped, ElsewhereKept, ExecuteKinds, RowKept
  <2>3. CASE UNCHANGED task /\ Abandon(e, r)
    <3>1. AbandonsJob(e, r)
      BY <2>1, <2>3, LeftBehind DEF AbandonsJob
    <3> QED
      BY <1>1, <2>1, <2>3, <3>1, LeftBehind
      DEF ExecuteTyped, ElsewhereKept, ExecuteKinds, RowKept
  <2> QED
    BY <1>11, <2>2, <2>3 DEF Fail
<1> QED
  BY <1>4, <1>5, <1>6, <1>8, <1>9, <1>10, <1>11 DEF Execute

-----------------------------------------------------------------------------
(* What the other steps do *)

LEMMA TickFacts ==
  ASSUME TypeOK, Tick
  PROVE  /\ UNCHANGED <<worker, expired, creating, task, results, exec, abandoned>>
         /\ now' = now + 1 /\ now' \in Times
         /\ contested \subseteq contested' /\ contested' \subseteq Requests
         /\ \A r \in Requests \ contested', e \in Executions :
              /\ exec[e][r].pc = "claim" => ~(exec[e][r].at + LeaseTime < now')
              /\ exec[e][r].pc \in Owning => ~(task[r].lease < now')
<1>1. now' = now + 1 /\ now' \in Times
  BY VideoAssumption DEF Tick, TypeOK, Times
<1> QED
  BY <1>1 DEF Tick, TypeOK, At, Owns

LEMMA SelectFacts ==
  ASSUME TypeOK, NEW w \in Workers, BootSelectExpired(w)
  PROVE  /\ UNCHANGED <<now, creating, task, results, exec, abandoned, contested>>
         /\ worker[w] = "off" /\ worker'[w] = "booting"
         /\ worker' \in [Workers -> {"off", "booting", "up", "dead"}]
         /\ \A v \in Workers : v # w => worker'[v] = worker[v]
         /\ expired' \in [Workers -> SUBSET Requests]
<1>1. TimedOut \subseteq Requests
  BY DEF TimedOut
<1>2. PICK found \in {TimedOut, {}} : expired' = [expired EXCEPT ![w] = found]
  BY DEF BootSelectExpired
<1>3. found \in SUBSET Requests
  BY <1>1, <1>2
<1>4. expired' \in [Workers -> SUBSET Requests]
  BY <1>2, <1>3 DEF TypeOK
<1> QED
  BY <1>4 DEF BootSelectExpired, TypeOK, history

LEMMA CloseFacts ==
  ASSUME TypeOK, NEW w \in Workers, NEW r \in Requests, BootCloseExpired(w, r)
  PROVE  /\ UNCHANGED <<now, worker, creating, results, exec, abandoned, contested>>
         /\ expired' \in [Workers -> SUBSET Requests]
         /\ task' \in [Requests -> Rows]
         /\ \A q \in Requests :
              /\ \/ task'[q] = task[q]
                 \/ task[q].status \in Active /\ task'[q].status = "failed"
              /\ task'[q].assigned = task[q].assigned
              /\ task'[q].lease = task[q].lease
<1>1. UNCHANGED <<now, worker, creating, results, exec, abandoned, contested>>
  BY DEF BootCloseExpired, history
<1>2. PICK left \in SUBSET Requests : expired' = [expired EXCEPT ![w] = left]
  BY DEF BootCloseExpired, TypeOK
<1>3. expired' \in [Workers -> SUBSET Requests]
  BY <1>2 DEF TypeOK
<1>4. CASE task' = task
  BY <1>1, <1>3, <1>4 DEF TypeOK
<1>5. CASE task[r].status \in Active /\ SetStatus(r, "failed")
  <2>1. "failed" \in Active \cup Terminal
    BY DEF Terminal
  <2> QED
    BY <1>1, <1>3, <1>5, <2>1, StatusSet
<1> QED
  BY <1>4, <1>5 DEF BootCloseExpired

LEMMA RecoverFacts ==
  ASSUME TypeOK, NEW w \in Workers, BootRecover(w)
  PROVE  /\ UNCHANGED <<now, expired, creating, task, results, abandoned>>
         /\ worker[w] = "booting" /\ worker'[w] = "up"
         /\ worker' \in [Workers -> {"off", "booting", "up", "dead"}]
         /\ \A v \in Workers : v # w => worker'[v] = worker[v]
         /\ contested \subseteq contested' /\ contested' \subseteq Requests
         /\ exec' \in [Executions -> [Requests -> Frames]]
         /\ \/ UNCHANGED <<exec, contested>>
            \/ \A e \in Executions, r \in Requests :
                 IF e # ByBoot(w) THEN exec'[e][r] = exec[e][r]
                 ELSE \/ exec'[e][r].pc = "idle"
                      \/ /\ exec'[e][r].pc = "read" /\ task[r].status \in Active
                         /\ r \notin contested' => exec[ByRequest(w)][r].pc = "idle"
<1>1. /\ UNCHANGED <<now, expired, creating, task, results, abandoned>>
      /\ worker[w] = "booting" /\ worker'[w] = "up"
      /\ worker' \in [Workers -> {"off", "booting", "up", "dead"}]
      /\ \A v \in Workers : v # w => worker'[v] = worker[v]
  BY DEF BootRecover, TypeOK
<1>2. CASE UNCHANGED <<exec, contested>>
  BY <1>1, <1>2 DEF TypeOK
<1>3. ASSUME NEW found, found = {r \in Requests : task[r].status \in Active},
             exec' = [exec EXCEPT ![ByBoot(w)] =
               [r \in Requests |-> IF r \in found THEN FrameAt("read") ELSE IdleFrame]],
             contested' = contested \cup {r \in found : ~At(ByRequest(w), r, "idle")}
      PROVE  /\ contested \subseteq contested' /\ contested' \subseteq Requests
             /\ exec' \in [Executions -> [Requests -> Frames]]
             /\ \A e \in Executions, r \in Requests :
                 IF e # ByBoot(w) THEN exec'[e][r] = exec[e][r]
                 ELSE \/ exec'[e][r].pc = "idle"
                      \/ /\ exec'[e][r].pc = "read" /\ task[r].status \in Active
                         /\ r \notin contested' => exec[ByRequest(w)][r].pc = "idle"
  <2>0. "read" \in Locations
    BY DEF Locations
  <2>6. IdleFrame \in Frames /\ IdleFrame.pc = "idle"
    BY BuiltFrames
  <2>7. FrameAt("read") \in Frames /\ FrameAt("read").pc = "read"
    BY <2>0, BuiltFrames
  <2>1. /\ IdleFrame \in Frames /\ IdleFrame.pc = "idle"
        /\ FrameAt("read") \in Frames /\ FrameAt("read").pc = "read"
    BY <2>6, <2>7
  <2>8. PICK boot : boot = [r \in Requests |-> IF r \in found THEN FrameAt("read")
                                                             ELSE IdleFrame]
    OBVIOUS
  <2>2. /\ exec' = [exec EXCEPT ![ByBoot(w)] = boot]
        /\ boot \in [Requests -> Frames]
        /\ \A r \in Requests : boot[r] = IF r \in found THEN FrameAt("read") ELSE IdleFrame
    BY <1>3, <2>1, <2>8
  <2>3. /\ exec' \in [Executions -> [Requests -> Frames]]
        /\ \A e \in Executions : exec'[e] = IF e = ByBoot(w) THEN boot ELSE exec[e]
    BY <2>2, ExecutionOf DEF TypeOK
  <2>4. contested \subseteq contested' /\ contested' \subseteq Requests
    BY <1>3 DEF TypeOK
  <2>5. ASSUME NEW r \in Requests
        PROVE  \/ boot[r].pc = "idle"
               \/ /\ boot[r].pc = "read" /\ task[r].status \in Active
                  /\ r \notin contested' => exec[ByRequest(w)][r].pc = "idle"
    <3>1. CASE r \in found
      BY <1>3, <2>1, <2>2, <3>1 DEF At
    <3>2. CASE r \notin found
      BY <2>1, <2>2, <3>2
    <3> QED
      BY <3>1, <3>2
  <2> QED
    BY <2>3, <2>4, <2>5
<1>4. CASE ~UNCHANGED <<exec, contested>>
  <2>1. PICK found : /\ found = {r \in Requests : task[r].status \in Active}
                     /\ exec' = [exec EXCEPT ![ByBoot(w)] =
                          [r \in Requests |-> IF r \in found THEN FrameAt("read") ELSE IdleFrame]]
                     /\ contested' = contested \cup {r \in found : ~At(ByRequest(w), r, "idle")}
    BY <1>4 DEF BootRecover
  <2> QED
    BY <1>1, <1>3, <2>1
<1> QED
  BY <1>2, <1>4

LEMMA CrashFacts ==
  ASSUME TypeOK, NEW w \in Workers, Crash(w)
  PROVE  /\ UNCHANGED <<now, task, results, abandoned, contested>>
         /\ worker[w] # "dead" /\ worker'[w] = "dead"
         /\ worker' \in [Workers -> {"off", "booting", "up", "dead"}]
         /\ \A v \in Workers : v # w => worker'[v] = worker[v]
         /\ expired' \in [Workers -> SUBSET Requests]
         /\ creating' \in [Requests -> Workers \cup {None, "over"}]
         /\ \A r \in Requests :
              creating'[r] = creating[r] \/ (creating[r] = w /\ creating'[r] = "over")
         /\ exec' \in [Executions -> [Requests -> Frames]]
         /\ \A e \in Executions, r \in Requests :
              IF Process(e) = w THEN exec'[e][r].pc = "idle" ELSE exec'[e][r] = exec[e][r]
<1>1. /\ UNCHANGED <<now, task, results, abandoned, contested>>
      /\ worker[w] # "dead" /\ worker'[w] = "dead"
      /\ worker' \in [Workers -> {"off", "booting", "up", "dead"}]
      /\ \A v \in Workers : v # w => worker'[v] = worker[v]
      /\ expired' \in [Workers -> SUBSET Requests]
  BY DEF Crash, TypeOK, history
<1>2. /\ creating' \in [Requests -> Workers \cup {None, "over"}]
      /\ \A r \in Requests :
           creating'[r] = creating[r] \/ (creating[r] = w /\ creating'[r] = "over")
  BY DEF Crash, TypeOK
<1>3. IdleFrame \in Frames /\ IdleFrame.pc = "idle"
  BY BuiltFrames
<1>4. \A e \in Executions :
        exec'[e] = IF Process(e) = w THEN [r \in Requests |-> IdleFrame] ELSE exec[e]
  BY DEF Crash
<1>5. [r \in Requests |-> IdleFrame] \in [Requests -> Frames]
  BY <1>3
<1>6. exec' \in [Executions -> [Requests -> Frames]]
  BY <1>4, <1>5 DEF Crash, TypeOK
<1>7. \A e \in Executions, r \in Requests :
        IF Process(e) = w THEN exec'[e][r].pc = "idle" ELSE exec'[e][r] = exec[e][r]
  BY <1>3, <1>4
<1> QED
  BY <1>1, <1>2, <1>6, <1>7

LEMMA CheckFacts ==
  ASSUME TypeOK, NEW w \in Workers, NEW r \in Requests, CheckKey(w, r)
  PROVE  /\ UNCHANGED <<now, worker, expired, task, results, exec, abandoned, contested>>
         /\ creating[r] = None
         /\ creating' \in [Requests -> Workers \cup {None, "over"}]
         /\ \A q \in Requests : q # r => creating'[q] = creating[q]
BY DEF CheckKey, TypeOK, history

LEMMA CreateFacts ==
  ASSUME TypeOK, NEW w \in Workers, NEW r \in Requests, CreateTask(w, r)
  PROVE  /\ UNCHANGED <<now, worker, expired, results, contested>>
         /\ worker[w] \in {"booting", "up"} /\ creating[r] = w /\ creating'[r] = "over"
         /\ creating' \in [Requests -> Workers \cup {None, "over"}]
         /\ \A q \in Requests :
              q # r => creating'[q] = creating[q] /\ task'[q] = task[q]
                       /\ abandoned'[q] = abandoned[q]
         /\ task' \in [Requests -> Rows] /\ exec' \in [Executions -> [Requests -> Frames]]
         /\ abandoned' \in [Requests -> Nat]
         /\ \/ UNCHANGED <<task, exec, abandoned>>
            \/ /\ task'[r].status = "queued" /\ task'[r].assigned = task[r].assigned
               /\ \A e \in Executions, q \in Requests :
                    e # ByRequest(w) \/ q # r => exec'[e][q] = exec[e][q]
               /\ \/ exec'[ByRequest(w)][r].pc = "read" /\ abandoned' = abandoned
                  \/ /\ exec'[ByRequest(w)][r].pc = "idle"
                     /\ abandoned'[r] = abandoned[r] + 1
<1>1. /\ UNCHANGED <<now, worker, expired, results, contested>>
      /\ worker[w] \in {"booting", "up"} /\ creating[r] = w /\ creating'[r] = "over"
      /\ creating' \in [Requests -> Workers \cup {None, "over"}]
      /\ \A q \in Requests : q # r => creating'[q] = creating[q]
  BY DEF CreateTask, Serves, TypeOK
<1>2. CASE UNCHANGED <<task, exec, abandoned>>
  BY <1>1, <1>2 DEF TypeOK
<1>3. CASE task' = [task EXCEPT ![r].status = "queued", ![r].created = now]
  <2>0. ByRequest(w) \in Executions
    BY ExecutionOf
  <2>1. /\ task' \in [Requests -> Rows]
        /\ task'[r].status = "queued" /\ task'[r].assigned = task[r].assigned
        /\ \A q \in Requests : q # r => task'[q] = task[q]
    BY <1>3, Queued
  <2>2. CASE Suspend(ByRequest(w), r, FrameAt("read"))
    <3>1. FrameAt("read") \in Frames /\ FrameAt("read").pc = "read"
      BY BuiltFrames DEF Locations
    <3>2. /\ exec' \in [Executions -> [Requests -> Frames]]
          /\ exec'[ByRequest(w)][r].pc = "read" /\ abandoned' = abandoned
          /\ \A e \in Executions, q \in Requests :
               e # ByRequest(w) \/ q # r => exec'[e][q] = exec[e][q]
      BY <2>0, <2>2, <3>1, Suspended
    <3> QED
      BY <1>1, <2>1, <3>2 DEF TypeOK
  <2>3. CASE Abandon(ByRequest(w), r)
    <3>1. /\ exec' \in [Executions -> [Requests -> Frames]]
          /\ exec'[ByRequest(w)][r].pc = "idle"
          /\ \A e \in Executions, q \in Requests :
               e # ByRequest(w) \/ q # r => exec'[e][q] = exec[e][q]
          /\ abandoned' \in [Requests -> Nat]
          /\ abandoned'[r] = abandoned[r] + 1
          /\ \A q \in Requests : q # r => abandoned'[q] = abandoned[q]
      BY <2>0, <2>3, LeftBehind
    <3> QED
      BY <1>1, <2>1, <3>1
  <2>4. CASE UNCHANGED <<task, exec, abandoned>>
    BY <1>2, <2>4
  <2> QED
    BY <2>2, <2>3, <2>4 DEF CreateTask
<1> QED
  BY <1>2, <1>3 DEF CreateTask

LEMMA TypeStep ==
  ASSUME TypeOK, [Next]_vars
  PROVE  TypeOK'
<1>1. CASE Tick
  BY <1>1, TickFacts DEF TypeOK
<1>2. ASSUME NEW w \in Workers, BootSelectExpired(w)
      PROVE  TypeOK'
  BY <1>2, SelectFacts DEF TypeOK
<1>3. ASSUME NEW w \in Workers, NEW r \in Requests, BootCloseExpired(w, r)
      PROVE  TypeOK'
  BY <1>3, CloseFacts DEF TypeOK
<1>4. ASSUME NEW w \in Workers, BootRecover(w)
      PROVE  TypeOK'
  BY <1>4, RecoverFacts DEF TypeOK
<1>5. ASSUME NEW w \in Workers, Crash(w)
      PROVE  TypeOK'
  BY <1>5, CrashFacts DEF TypeOK
<1>6. ASSUME NEW w \in Workers, NEW r \in Requests, CheckKey(w, r)
      PROVE  TypeOK'
  BY <1>6, CheckFacts DEF TypeOK
<1>7. ASSUME NEW w \in Workers, NEW r \in Requests, CreateTask(w, r)
      PROVE  TypeOK'
  BY <1>7, CreateFacts DEF TypeOK
<1>8. ASSUME NEW e \in Executions, NEW r \in Requests, Execute(e, r)
      PROVE  TypeOK'
  BY <1>8, ExecuteStep DEF ExecuteTyped, ElsewhereKept, TypeOK
<1>9. CASE UNCHANGED vars
  BY <1>9 DEF vars, TypeOK
<1> QED
  BY <1>1, <1>2, <1>3, <1>4, <1>5, <1>6, <1>7, <1>8, <1>9 DEF Next, Boot

-----------------------------------------------------------------------------
(* Initial states *)

LEMMA DeadSet ==
  /\ IsFiniteSet(Dead) /\ Cardinality(Dead) \in Nat
<1>1. IsFiniteSet(Dead)
  BY VideoAssumption, FS_Subset DEF Dead
<1> QED
  BY <1>1, FS_CardinalityType

LEMMA Start ==
  ASSUME Init
  PROVE  /\ TypeOK
         /\ \A e \in Executions, r \in Requests : exec[e][r].pc = "idle"
         /\ \A r \in Requests :
              /\ task[r].status = "none" /\ task[r].assigned = None
              /\ results[r] = 0 /\ abandoned[r] = 0
<1> USE VideoAssumption
<1>1. PICK key \in [Requests -> Keys] :
        task = [r \in Requests |->
                 [status |-> "none", key |-> key[r], created |-> 0,
                  started |-> -1, assigned |-> None, lease |-> -1,
                  artifact |-> FALSE]]
  BY DEF Init
<1>2. \A r \in Requests : /\ task[r] \in Rows
                          /\ task[r].status = "none" /\ task[r].assigned = None
  BY <1>1 DEF Rows, Leases, Times
<1>3. task \in [Requests -> Rows]
  BY <1>1, <1>2
<1>4. IdleFrame \in Frames /\ IdleFrame.pc = "idle"
  BY BuiltFrames
<1>5. exec \in [Executions -> [Requests -> Frames]]
  BY <1>4 DEF Init
<1>6. \A e \in Executions, r \in Requests : exec[e][r].pc = "idle"
  BY <1>4 DEF Init
<1>7. now \in Times
  BY DEF Init, Times
<1>8. TypeOK
  BY <1>3, <1>5, <1>7 DEF Init, TypeOK
<1> QED
  BY <1>2, <1>6, <1>8 DEF Init

LEMMA InitIInv == Init => IInv
<1> SUFFICES ASSUME Init PROVE IInv
  OBVIOUS
<1>1. Dispatched
  BY Start, ExecutionOf DEF Dispatched
<1>2. FrameInv
  BY <1>1, Start DEF FrameInv, FrameOf, Alone, Owning, Holding
<1>3. NotCreated /\ CompletedIsBarred
  BY Start DEF NotCreated, CompletedIsBarred
<1>4. ResultsCounted
  BY Start, DeadSet DEF ResultsCounted, Causes
<1> QED
  BY <1>2, <1>3, <1>4, Start DEF IInv

-----------------------------------------------------------------------------
(* The lease *)

\* While an execution owns a job that is not contested, no other one owns it or
\* passes the conditional update: its clock is not later than the lease.
LEMMA OwnerExcludes ==
  ASSUME TypeOK, FrameInv, NEW r \in Requests \ contested,
         NEW e \in Executions, NEW f \in Executions, exec[e][r].pc \in Owning
  PROVE  /\ task[r].assigned = Process(e) /\ now <= task[r].lease
         /\ exec[f][r].pc \in Owning => f = e
         /\ exec[f][r].pc = "claim" =>
              /\ task[r].assigned \notin {None, Process(f)}
              /\ exec[f][r].at <= task[r].lease
              /\ ~MayClaim(f, r)
<1>1. Alone(r) /\ FrameOf(e, r) /\ FrameOf(f, r)
  BY DEF FrameInv
<1>2. task[r].assigned = Process(e) /\ now <= task[r].lease
  BY <1>1 DEF FrameOf
<1>3. exec[e][r].pc # "idle" /\ exec[e][r].pc # "claim"
  BY DEF Owning
<1>4. ASSUME exec[f][r].pc \in Owning
      PROVE  f = e
  <2>1. exec[f][r].pc # "idle" /\ Process(f) = Process(e)
    BY <1>1, <1>2, <1>4 DEF FrameOf, Owning
  <2> QED
    BY <1>1, <1>3, <2>1 DEF Alone
<1>5. ASSUME exec[f][r].pc = "claim"
      PROVE  /\ task[r].assigned \notin {None, Process(f)}
             /\ exec[f][r].at <= task[r].lease
             /\ ~MayClaim(f, r)
  <2>1. Process(e) # Process(f) /\ Process(e) # None
    BY <1>1, <1>3, <1>5, ExecutionOf DEF Alone
  <2>2. exec[f][r].at <= now
    BY <1>1, <1>5 DEF FrameOf
  <2>3. exec[f][r].at \in Nat /\ now \in Nat /\ task[r].lease \in Int
    BY VideoAssumption DEF TypeOK, Frames, Rows, Leases, Times
  <2> QED
    BY <1>2, <2>1, <2>2, <2>3 DEF MayClaim
<1> QED
  BY <1>2, <1>4, <1>5

\* An owner that is gone, its claim standing in the row, bars every claimer.
LEMMA OwnerGoneBars ==
  ASSUME TypeOK, FrameInv, NEW r \in Requests \ contested,
         NEW e \in Executions, exec[e][r].pc \in Owning,
         exec'[e][r].pc = "idle",
         \A f \in Executions :
           f # e => exec'[f][r] = exec[f][r] \/ exec'[f][r].pc = "idle",
         task'[r].assigned = task[r].assigned, task'[r].lease = task[r].lease
  PROVE  Barred(r)'
<1> SUFFICES ASSUME NEW f \in Executions
             PROVE  /\ exec'[f][r].pc \notin Owning
                    /\ exec'[f][r].pc = "claim" =>
                         /\ task'[r].assigned \notin {None, Process(f)}
                         /\ exec'[f][r].at <= task'[r].lease
  BY DEF Barred
<1>1. CASE exec'[f][r].pc = "idle"
  BY <1>1 DEF Owning
<1>2. CASE exec'[f][r] = exec[f][r] /\ f # e
  BY <1>2, OwnerExcludes
<1> QED
  BY <1>1, <1>2

\* A step of another execution of the job leaves the owner's claim alone.
LEMMA OwnerUndisturbed ==
  ASSUME TypeOK, FrameInv, NEW r \in Requests \ contested,
         NEW e \in Executions, NEW f \in Executions, f # e,
         exec[e][r].pc \in Owning, Execute(f, r)
  PROVE  \/ LeavesJob(f, r) \/ ReadsJob(f, r)
         \/ AbandonsJob(f, r) /\ task'[r] = task[r]
<1>1. exec[f][r].pc \notin Owning /\ ~(exec[f][r].pc = "claim" /\ MayClaim(f, r))
  BY OwnerExcludes
<1>2. ExecuteKinds(f, r)
  BY ExecuteStep
<1> QED
  BY <1>1, <1>2
  DEF ExecuteKinds, ClaimsJob, AbandonsJob, WorksOn, InsertsResult, CompletesJob,
      FailsJob, Owning

\* What each kind of step does to the frame of the execution that takes it.
LEMMA FrameStepOwn ==
  ASSUME TypeOK, FrameInv, NEW r \in Requests \ contested,
         NEW e \in Executions, Execute(e, r)
  PROVE  FrameOf(e, r)'
<1>1. ElsewhereKept(e, r) /\ ExecuteKinds(e, r) /\ FrameOf(e, r)
  BY ExecuteStep DEF FrameInv
<1>2. now \in Nat /\ LeaseTime \in Nat /\ now' = now
  BY <1>1, VideoAssumption DEF TypeOK, Times, ElsewhereKept
<1>3. CASE LeavesJob(e, r) \/ AbandonsJob(e, r) \/ FailsJob(e, r)
  BY <1>3 DEF LeavesJob, AbandonsJob, FailsJob, FrameOf, Owning, Holding
<1>4. CASE ReadsJob(e, r)
  BY <1>2, <1>4 DEF ReadsJob, FrameOf, Owning, Holding
<1>5. CASE ClaimsJob(e, r)
  BY <1>1, <1>2, <1>5 DEF ClaimsJob, ClaimedRow, FrameOf, Owning, Holding
<1>6. CASE WorksOn(e, r)
  <2>1. exec[e][r].pc \in {"render", "upload", "result", "finish"} \/ exec[e][r].pc = "reread"
    BY <1>6 DEF WorksOn, Owning
  <2> QED
    BY <1>1, <1>2, <1>6, <2>1 DEF WorksOn, FrameOf, Owning, Holding
<1>7. CASE InsertsResult(e, r)
  BY <1>1, <1>2, <1>7 DEF InsertsResult, FrameOf, Owning, Holding
<1>8. CASE CompletesJob(e, r)
  BY <1>1, <1>2, <1>8 DEF CompletesJob, FrameOf, Owning, Holding
<1> QED
  BY <1>1, <1>3, <1>4, <1>5, <1>6, <1>7, <1>8 DEF ExecuteKinds

LEMMA FrameStepExecute ==
  ASSUME TypeOK, FrameInv, NEW e \in Executions, NEW r \in Requests, Execute(e, r)
  PROVE  FrameInv'
<1>1. ElsewhereKept(e, r)
  BY ExecuteStep
<1>2. /\ UNCHANGED <<now, worker, creating, contested>>
      /\ exec[e][r].pc # "idle"
      /\ \A q \in Requests : q # r => task'[q] = task[q]
      /\ \A d \in Executions, q \in Requests :
           d # e \/ q # r => exec'[d][q] = exec[d][q]
  BY <1>1 DEF ElsewhereKept, RowKept
<1>3. Dispatched'
  <2>1. ASSUME NEW d \in Executions, NEW q \in Requests, exec'[d][q].pc # "idle"
        PROVE  exec[d][q].pc # "idle"
    BY <1>2, <2>1
  <2>2. \A w \in Workers : ByBoot(w) \in Executions
    BY ExecutionOf
  <2> QED
    BY <1>2, <2>1, <2>2 DEF FrameInv, Dispatched
<1>4. ASSUME NEW q \in Requests \ contested
      PROVE  Alone(q)' /\ \A d \in Executions : FrameOf(d, q)'
  <2>1. Alone(q) /\ \A d \in Executions : FrameOf(d, q)
    BY DEF FrameInv
  <2>2. Alone(q)'
    BY <1>2, <2>1 DEF Alone
  <2>3. CASE q # r
    BY <1>2, <2>1, <2>2, <2>3 DEF FrameOf
  <2>4. CASE q = r
    <3>1. ASSUME NEW d \in Executions, d # e
          PROVE  FrameOf(d, r)'
      <4>1. exec'[d][r] = exec[d][r]
        BY <1>2, <3>1
      <4>2. exec[d][r].pc \in Owning =>
              task'[r].assigned = task[r].assigned /\ task'[r].lease = task[r].lease
        BY <2>4, <3>1, OwnerUndisturbed DEF LeavesJob, ReadsJob, RowKept
      <4> QED
        BY <1>2, <2>1, <2>4, <4>1, <4>2 DEF FrameOf, Owning, Holding
    <3>2. FrameOf(e, r)'
      BY <2>4, FrameStepOwn
    <3> QED
      BY <2>2, <2>4, <3>1, <3>2
  <2> QED
    BY <2>3, <2>4
<1> QED
  BY <1>2, <1>3, <1>4 DEF FrameInv

\* A terminal job that nobody can claim is left alone.
LEMMA BarredStaysBarred ==
  ASSUME TypeOK, NEW e \in Executions, NEW r \in Requests, Execute(e, r),
         NEW q \in Requests, task[q].status \in Terminal, Barred(q)
  PROVE  /\ Barred(q)' /\ task'[q] = task[q] /\ results'[q] = results[q]
         /\ abandoned'[q] \in {abandoned[q], abandoned[q] + 1}
<1>1. /\ q # r => RowKept(q)
      /\ \A d \in Executions : d # e \/ q # r => exec'[d][q] = exec[d][q]
  BY ExecuteStep DEF ElsewhereKept
<1>2. CASE q # r
  BY <1>1, <1>2 DEF Barred, RowKept
<1>3. CASE q = r
  <2>1. exec[e][r].pc \notin Owning /\ ~ReadsJob(e, r)
    BY <1>3 DEF Barred, ReadsJob
  <2>2. ~(exec[e][r].pc = "claim" /\ MayClaim(e, r))
    <3>1. exec[e][r].at \in Nat /\ task[r].lease \in Int
      BY VideoAssumption DEF TypeOK, Frames, Rows, Leases, Times
    <3> QED
      BY <1>3, <3>1 DEF Barred, MayClaim
  <2>3. ExecuteKinds(e, r)
    BY ExecuteStep
  <2>4. LeavesJob(e, r) \/ AbandonsJob(e, r)
    BY <2>1, <2>2, <2>3
    DEF ExecuteKinds, ClaimsJob, WorksOn, InsertsResult, CompletesJob, FailsJob, Owning
  <2>5. /\ exec'[e][r].pc = "idle" /\ task'[r] = task[r] /\ results'[r] = results[r]
        /\ abandoned'[r] \in {abandoned[r], abandoned[r] + 1}
    BY <2>2, <2>4 DEF LeavesJob, AbandonsJob, RowKept
  <2>6. ASSUME NEW d \in Executions
        PROVE  /\ exec'[d][r].pc \notin Owning
               /\ exec'[d][r].pc = "claim" =>
                    /\ task'[r].assigned \notin {None, Process(d)}
                    /\ exec'[d][r].at <= task'[r].lease
    <3>1. CASE d = e
      BY <2>5, <3>1 DEF Owning
    <3>2. CASE d # e
      BY <1>1, <1>3, <2>5, <3>2 DEF Barred
    <3> QED
      BY <3>1, <3>2
  <2> QED
    BY <1>3, <2>5, <2>6 DEF Barred
<1> QED
  BY <1>2, <1>3

-----------------------------------------------------------------------------
(* Completion and results *)

\* Completing or failing a job, or leaving it in the catch block.
LEMMA EndingBars ==
  ASSUME TypeOK, FrameInv, NEW r \in Requests \ contested, NEW e \in Executions,
         Execute(e, r), exec[e][r].pc \in {"finish", "failing"},
         exec'[e][r].pc = "idle"
  PROVE  Barred(r)'
<1>1. ElsewhereKept(e, r) /\ ExecuteKinds(e, r) /\ FrameOf(e, r)
  BY ExecuteStep DEF FrameInv
<1>2. exec[e][r].pc \in Owning
  BY DEF Owning
<1>3. task'[r].assigned = task[r].assigned /\ task'[r].lease = task[r].lease
  BY <1>1
  DEF ExecuteKinds, LeavesJob, ReadsJob, ClaimsJob, AbandonsJob, WorksOn,
      InsertsResult, CompletesJob, FailsJob, FrameOf, Holding
<1>4. \A f \in Executions : f # e => exec'[f][r] = exec[f][r]
  BY <1>1 DEF ElsewhereKept
<1> QED
  BY <1>2, <1>3, <1>4, OwnerGoneBars

LEMMA CompletionStep ==
  ASSUME TypeOK, FrameInv, CompletedIsBarred,
         NEW e \in Executions, NEW r \in Requests, Execute(e, r)
  PROVE  CompletedIsBarred'
<1>1. ElsewhereKept(e, r) /\ ExecuteKinds(e, r)
  BY ExecuteStep
<1> SUFFICES ASSUME NEW q \in Requests \ contested, task'[q].status = "completed"
             PROVE  Barred(q)' \/ \E f \in Executions : exec'[f][q].pc = "failing"
  BY <1>1 DEF CompletedIsBarred, ElsewhereKept
<1>2. CASE task[q].status = "completed" /\ Barred(q)
  BY <1>2, BarredStaysBarred DEF Terminal
<1>3. ASSUME task[q].status = "completed",
             NEW f \in Executions, exec[f][q].pc = "failing"
      PROVE  Barred(q)' \/ \E d \in Executions : exec'[d][q].pc = "failing"
  <2>1. CASE f # e \/ q # r
    <3>1. exec'[f][q] = exec[f][q]
      BY <1>1, <2>1 DEF ElsewhereKept
    <3> QED
      BY <1>3, <3>1
  <2>2. CASE f = e /\ q = r
    <3>1. exec'[e][r].pc = "idle"
      BY <1>1, <1>3, <2>2
      DEF ExecuteKinds, LeavesJob, ReadsJob, ClaimsJob, AbandonsJob, WorksOn,
          InsertsResult, CompletesJob, FailsJob
    <3> QED
      BY <1>3, <2>2, <3>1, EndingBars
  <2> QED
    BY <2>1, <2>2
<1>4. CASE task[q].status # "completed"
  <2>1. q = r
    BY <1>1, <1>4 DEF ElsewhereKept, RowKept
  <2>2. CompletesJob(e, r)
    BY <1>1, <1>4, <2>1
    DEF ExecuteKinds, LeavesJob, ReadsJob, ClaimsJob, AbandonsJob, WorksOn,
        InsertsResult, FailsJob, RowKept, ClaimedRow
  <2> QED
    BY <2>1, <2>2, EndingBars DEF CompletesJob
<1> QED
  BY <1>2, <1>3, <1>4 DEF CompletedIsBarred

LEMMA CountStep ==
  ASSUME IInv, NEW e \in Executions, NEW r \in Requests, Execute(e, r)
  PROVE  ResultsCounted'
<1> USE DEF IInv
<1>1. /\ UNCHANGED <<worker, contested>> /\ Dead' = Dead
      /\ \A q \in Requests : q # r => RowKept(q)
      /\ \A d \in Executions, q \in Requests :
           d # e \/ q # r => exec'[d][q] = exec[d][q]
  BY ExecuteStep DEF ElsewhereKept, Dead
<1>2. ExecuteKinds(e, r)
  BY ExecuteStep
<1>3. /\ Cardinality(Dead) \in Nat
      /\ \A q \in Requests : results[q] \in Nat /\ abandoned[q] \in Nat
  BY DeadSet DEF TypeOK
<1> SUFFICES ASSUME NEW q \in Requests \ contested
             PROVE  \/ results'[q] <= Causes(q)'
                    \/ results'[q] <= 1 + Causes(q)' /\ Closing(q)'
  BY <1>1 DEF ResultsCounted
<1>4. CASE /\ results'[q] = results[q] /\ abandoned'[q] = abandoned[q] + 1
           /\ q = r
  BY <1>1, <1>3, <1>4 DEF ResultsCounted, Causes
<1>5. CASE InsertsResult(e, r) /\ q = r
  <2>1. results[r] <= Causes(r)
    <3> SUFFICES ASSUME Closing(r) PROVE FALSE
      BY <1>5 DEF ResultsCounted
    <3>1. exec[e][r].pc \in Owning /\ exec[e][r].pc = "result"
      BY <1>5 DEF InsertsResult, Owning
    <3>2. ~Barred(r)
      BY <3>1 DEF Barred
    <3>3. \A f \in Executions : exec[f][r].pc \in Owning => f = e
      BY <1>5, <3>1, OwnerExcludes
    <3> QED
      BY <3>1, <3>2, <3>3 DEF Closing, Owning
  <2>2. results'[r] = results[r] + 1 /\ abandoned'[r] = abandoned[r] /\ Closing(r)'
    BY <1>5 DEF InsertsResult, Closing
  <2> QED
    BY <1>1, <1>3, <1>5, <2>1, <2>2 DEF Causes
<1>6. CASE results'[q] = results[q] /\ abandoned'[q] = abandoned[q]
  <2>1. CASE results[q] <= Causes(q)
    BY <1>1, <1>6, <2>1 DEF Causes
  <2>2. CASE results[q] <= 1 + Causes(q) /\ Closing(q)
    <3>1. CASE task[q].status \in Terminal /\ Barred(q)
      BY <1>1, <1>6, <2>2, <3>1, BarredStaysBarred DEF Closing, Causes
    <3>2. ASSUME NEW f \in Executions, exec[f][q].pc \in {"finish", "failing"}
          PROVE  Closing(q)'
      <4>1. CASE f # e \/ q # r
        <5>1. exec'[f][q] = exec[f][q]
          BY <1>1, <4>1
        <5> QED
          BY <3>2, <5>1 DEF Closing
      <4>2. CASE f = e /\ q = r
        <5>1. \/ exec'[e][r].pc = "failing"
              \/ exec'[e][r].pc = "idle" /\ task'[r].status \in Terminal
          BY <1>2, <1>3, <1>6, <3>2, <4>2
          DEF ExecuteKinds, LeavesJob, ReadsJob, ClaimsJob, AbandonsJob, WorksOn,
              InsertsResult, CompletesJob, FailsJob, Terminal
        <5> QED
          BY <3>2, <4>2, <5>1, EndingBars DEF Closing
      <4> QED
        BY <4>1, <4>2
    <3> QED
      BY <1>1, <1>6, <2>2, <3>1, <3>2 DEF Closing, Causes
  <2> QED
    BY <2>1, <2>2 DEF ResultsCounted
<1>7. \/ results'[q] = results[q] /\ abandoned'[q] = abandoned[q]
      \/ InsertsResult(e, r) /\ q = r
      \/ results'[q] = results[q] /\ abandoned'[q] = abandoned[q] + 1 /\ q = r
  BY <1>1, <1>2
  DEF ExecuteKinds, LeavesJob, ReadsJob, ClaimsJob, AbandonsJob, WorksOn,
      CompletesJob, FailsJob, RowKept
<1> QED
  BY <1>4, <1>5, <1>6, <1>7

Outcomes == NotCreated /\ CompletedIsBarred /\ ResultsCounted

LEMMA OutcomeStepExecute ==
  ASSUME IInv, NEW e \in Executions, NEW r \in Requests, Execute(e, r)
  PROVE  Outcomes'
<1>1. CompletedIsBarred' /\ ResultsCounted'
  BY CompletionStep, CountStep DEF IInv
<1>2. ElsewhereKept(e, r)
  BY ExecuteStep DEF IInv
<1>3. NotCreated'
  BY <1>2 DEF IInv, FrameInv, Dispatched, NotCreated, ElsewhereKept, RowKept
<1> QED
  BY <1>1, <1>3 DEF Outcomes

-----------------------------------------------------------------------------
(* The other steps *)

LEMMA TickStep ==
  ASSUME IInv, Tick
  PROVE  FrameInv' /\ Outcomes'
<1> USE DEF IInv
<1>1. /\ UNCHANGED <<worker, creating, task, results, exec, abandoned>>
      /\ now' = now + 1
      /\ contested \subseteq contested'
      /\ \A r \in Requests \ contested', e \in Executions :
           /\ exec[e][r].pc = "claim" => ~(exec[e][r].at + LeaseTime < now')
           /\ exec[e][r].pc \in Owning => ~(task[r].lease < now')
  BY TickFacts
<1>2. ASSUME NEW r \in Requests \ contested'
      PROVE  Alone(r)' /\ \A e \in Executions : FrameOf(e, r)'
  <2>1. r \in Requests \ contested
    BY <1>1, <1>2
  <2>2. Alone(r)' /\ \A e \in Executions : FrameOf(e, r)
    BY <1>1, <2>1 DEF FrameInv, Alone
  <2>3. ASSUME NEW e \in Executions
        PROVE  FrameOf(e, r)'
    <3>1. /\ now \in Nat /\ exec[e][r].at \in Nat /\ LeaseTime \in Nat
          /\ task[r].lease \in Int
      BY VideoAssumption DEF TypeOK, Frames, Rows, Leases, Times
    <3> QED
      BY <1>1, <2>2, <3>1 DEF FrameOf
  <2> QED
    BY <2>2, <2>3
<1>3. FrameInv'
  BY <1>1, <1>2 DEF FrameInv, Dispatched
<1>4. Dead' = Dead
  BY <1>1 DEF Dead
<1> QED
  BY <1>1, <1>3, <1>4
  DEF Outcomes, NotCreated, CompletedIsBarred, ResultsCounted, Closing, Causes, Barred

LEMMA SelectStep ==
  ASSUME IInv, NEW w \in Workers, BootSelectExpired(w)
  PROVE  FrameInv' /\ Outcomes'
<1> USE DEF IInv
<1>1. /\ UNCHANGED <<now, creating, task, results, exec, abandoned, contested>>
      /\ worker[w] = "off" /\ worker'[w] = "booting"
      /\ \A v \in Workers : v # w => worker'[v] = worker[v]
  BY SelectFacts
<1>2. Dead' = Dead
  BY <1>1 DEF Dead
<1>3. FrameInv'
  BY <1>1 DEF FrameInv, Dispatched, Alone, FrameOf
<1> QED
  BY <1>1, <1>2, <1>3
  DEF Outcomes, NotCreated, CompletedIsBarred, ResultsCounted, Closing, Causes, Barred

LEMMA CloseStep ==
  ASSUME IInv, NEW w \in Workers, NEW r \in Requests, BootCloseExpired(w, r)
  PROVE  FrameInv' /\ Outcomes'
<1> USE DEF IInv
<1>1. /\ UNCHANGED <<now, worker, creating, results, exec, abandoned, contested>>
      /\ \A q \in Requests :
           /\ \/ task'[q] = task[q]
              \/ task[q].status \in Active /\ task'[q].status = "failed"
           /\ task'[q].assigned = task[q].assigned
           /\ task'[q].lease = task[q].lease
  BY CloseFacts
<1>2. \A q \in Requests :
        /\ task[q].status \in Terminal => task'[q] = task[q]
        /\ task'[q].status = "completed" => task[q].status = "completed"
  BY <1>1 DEF Active, Terminal
<1>3. \A q \in Requests : Barred(q) => Barred(q)'
  BY <1>1 DEF Barred
<1>4. FrameInv'
  BY <1>1 DEF FrameInv, Dispatched, Alone, FrameOf
<1>5. NotCreated' /\ CompletedIsBarred'
  BY <1>1, <1>2, <1>3 DEF NotCreated, CompletedIsBarred, Active
<1>6. Dead' = Dead
  BY <1>1 DEF Dead
<1>7. \A q \in Requests : Closing(q) => Closing(q)'
  BY <1>1, <1>2, <1>3 DEF Closing
<1>8. ResultsCounted'
  BY <1>1, <1>6, <1>7 DEF ResultsCounted, Causes
<1> QED
  BY <1>4, <1>5, <1>8 DEF Outcomes

LEMMA RecoverStep ==
  ASSUME IInv, NEW w \in Workers, BootRecover(w)
  PROVE  FrameInv' /\ Outcomes'
<1> USE DEF IInv
<1>1. /\ UNCHANGED <<now, creating, task, results, abandoned>>
      /\ worker[w] = "booting" /\ worker'[w] = "up"
      /\ \A v \in Workers : v # w => worker'[v] = worker[v]
      /\ contested \subseteq contested'
  BY RecoverFacts
<1>2. ByBoot(w) \in Executions /\ ByRequest(w) \in Executions
      /\ Process(ByBoot(w)) = w /\ Process(ByRequest(w)) = w
      /\ \A e \in Executions : Process(e) = w => e \in {ByRequest(w), ByBoot(w)}
  BY ExecutionOf
<1>3. \A r \in Requests : exec[ByBoot(w)][r].pc = "idle"
  BY <1>1 DEF FrameInv, Dispatched
\* Frames are kept, except those the recovery begins.
<1>4. \A e \in Executions, r \in Requests :
        \/ exec'[e][r] = exec[e][r]
        \/ e = ByBoot(w) /\ exec'[e][r].pc = "idle"
        \/ /\ e = ByBoot(w) /\ exec'[e][r].pc = "read" /\ task[r].status \in Active
           /\ r \notin contested' => exec[ByRequest(w)][r].pc = "idle"
  BY RecoverFacts
<1>5. Dead' = Dead
  BY <1>1 DEF Dead
<1>6. Dispatched'
  <2>1. \A e \in Executions, r \in Requests :
          exec'[e][r].pc # "idle" => creating'[r] = "over"
    BY <1>1, <1>4 DEF FrameInv, Dispatched, NotCreated, Active
  <2>2. ASSUME NEW v \in Workers, NEW r \in Requests, exec'[ByBoot(v)][r].pc # "idle"
        PROVE  worker'[v] = "up"
    <3>1. CASE v = w
      BY <1>1, <3>1
    <3>2. CASE v # w
      <4>1. ByBoot(v) \in Executions /\ ByBoot(v) # ByBoot(w)
        BY <1>2, <3>2, ExecutionOf
      <4> QED
        BY <1>1, <1>4, <2>2, <3>2, <4>1 DEF FrameInv, Dispatched
    <3> QED
      BY <3>1, <3>2
  <2> QED
    BY <2>1, <2>2 DEF Dispatched
<1>7. ASSUME NEW r \in Requests \ contested'
      PROVE  Alone(r)' /\ \A e \in Executions : FrameOf(e, r)'
  <2>1. Alone(r) /\ \A e \in Executions : FrameOf(e, r)
    BY <1>1, <1>7 DEF FrameInv
  <2>2. \A e \in Executions : FrameOf(e, r)'
    BY <1>1, <1>4, <2>1 DEF FrameOf, Owning, Holding
  <2>3. ASSUME NEW e \in Executions, NEW f \in Executions,
               exec'[e][r].pc # "idle", exec'[f][r].pc # "idle",
               Process(e) = Process(f)
        PROVE  e = f
    <3>1. CASE Process(e) # w
      <4>1. exec'[e][r] = exec[e][r] /\ exec'[f][r] = exec[f][r]
        BY <1>2, <1>4, <2>3, <3>1
      <4> QED
        BY <2>1, <2>3, <4>1 DEF Alone
    <3>2. CASE Process(e) = w /\ exec'[ByBoot(w)][r].pc = "idle"
      BY <1>2, <2>3, <3>2
    <3>3. CASE Process(e) = w /\ exec'[ByBoot(w)][r].pc # "idle"
      <4>1. exec[ByRequest(w)][r].pc = "idle"
        BY <1>2, <1>3, <1>4, <1>7, <3>3
      <4>2. exec'[ByRequest(w)][r] = exec[ByRequest(w)][r]
        BY <1>2, <1>4, ExecutionOf
      <4> QED
        BY <1>2, <2>3, <3>3, <4>1, <4>2
    <3> QED
      BY <3>1, <3>2, <3>3
  <2> QED
    BY <2>2, <2>3 DEF Alone
<1>8. FrameInv'
  BY <1>6, <1>7 DEF FrameInv
<1>9. \A r \in Requests : Barred(r) => Barred(r)'
  BY <1>1, <1>4 DEF Barred, Owning
<1>10. \A e \in Executions, r \in Requests :
         exec[e][r].pc \in {"finish", "failing"} => exec'[e][r] = exec[e][r]
  BY <1>3, <1>4
<1>11. \A r \in Requests : Closing(r) => Closing(r)'
  BY <1>1, <1>9, <1>10 DEF Closing
<1>12. NotCreated' /\ CompletedIsBarred'
  BY <1>1, <1>9, <1>10 DEF NotCreated, CompletedIsBarred
<1>13. ResultsCounted'
  BY <1>1, <1>5, <1>11 DEF ResultsCounted, Causes
<1> QED
  BY <1>8, <1>12, <1>13 DEF Outcomes

LEMMA CrashStep ==
  ASSUME IInv, NEW w \in Workers, Crash(w)
  PROVE  FrameInv' /\ Outcomes'
<1> USE DEF IInv
<1>1. /\ UNCHANGED <<now, task, results, abandoned, contested>>
      /\ worker[w] # "dead" /\ worker'[w] = "dead"
      /\ \A v \in Workers : v # w => worker'[v] = worker[v]
      /\ \A r \in Requests :
           creating'[r] = creating[r] \/ (creating[r] = w /\ creating'[r] = "over")
      /\ \A e \in Executions, r \in Requests :
           IF Process(e) = w THEN exec'[e][r].pc = "idle" ELSE exec'[e][r] = exec[e][r]
  BY CrashFacts
<1>2. w \notin Dead /\ Dead' = Dead \cup {w}
  BY <1>1 DEF Dead
<1>3. Cardinality(Dead') = Cardinality(Dead) + 1
  BY <1>2, DeadSet, FS_AddElement
<1>4. FrameInv'
  <2>1. Dispatched'
    <3>1. \A e \in Executions, r \in Requests :
            exec'[e][r].pc # "idle" => creating'[r] = "over"
      BY <1>1 DEF FrameInv, Dispatched
    <3>2. ASSUME NEW v \in Workers, NEW r \in Requests, exec'[ByBoot(v)][r].pc # "idle"
          PROVE  worker'[v] = "up"
      <4>1. ByBoot(v) \in Executions /\ Process(ByBoot(v)) = v
        BY ExecutionOf
      <4>2. v # w /\ exec'[ByBoot(v)][r] = exec[ByBoot(v)][r]
        BY <1>1, <3>2, <4>1
      <4> QED
        BY <1>1, <3>2, <4>2 DEF FrameInv, Dispatched
    <3> QED
      BY <3>1, <3>2 DEF Dispatched
  <2>2. ASSUME NEW r \in Requests \ contested
        PROVE  Alone(r)' /\ \A e \in Executions : FrameOf(e, r)'
    <3>1. Alone(r) /\ \A e \in Executions : FrameOf(e, r)
      BY DEF FrameInv
    <3>2. Alone(r)'
      BY <1>1, <3>1 DEF Alone
    <3>3. \A e \in Executions : FrameOf(e, r)'
      BY <1>1, <3>1 DEF FrameOf, Owning, Holding
    <3> QED
      BY <3>2, <3>3
  <2> QED
    BY <1>1, <2>1, <2>2 DEF FrameInv
<1>5. NotCreated'
  BY <1>1 DEF NotCreated
<1>6. \A r \in Requests : Barred(r) => Barred(r)'
  BY <1>1 DEF Barred, Owning
<1>7. CompletedIsBarred'
  <2> SUFFICES ASSUME NEW r \in Requests \ contested,
                      NEW e \in Executions, exec[e][r].pc = "failing"
               PROVE  Barred(r)' \/ \E f \in Executions : exec'[f][r].pc = "failing"
    BY <1>1, <1>6 DEF CompletedIsBarred
  <2>1. CASE Process(e) = w
    <3>1. exec[e][r].pc \in Owning
      BY DEF Owning
    <3>2. exec'[e][r].pc = "idle"
      BY <1>1, <2>1
    <3>3. \A f \in Executions :
            f # e => exec'[f][r] = exec[f][r] \/ exec'[f][r].pc = "idle"
      BY <1>1
    <3>4. task'[r] = task[r]
      BY <1>1
    <3> QED
      BY <3>1, <3>2, <3>3, <3>4, OwnerGoneBars
  <2>2. CASE Process(e) # w
    BY <1>1, <2>2
  <2> QED
    BY <2>1, <2>2
<1>8. ResultsCounted'
  <2>1. /\ Cardinality(Dead) \in Nat
        /\ \A r \in Requests : results[r] \in Nat /\ abandoned[r] \in Nat
    BY DeadSet DEF TypeOK
  <2> QED
    BY <1>1, <1>3, <2>1 DEF ResultsCounted, Causes
<1> QED
  BY <1>4, <1>5, <1>7, <1>8 DEF Outcomes

LEMMA CheckStep ==
  ASSUME IInv, NEW w \in Workers, NEW r \in Requests, CheckKey(w, r)
  PROVE  FrameInv' /\ Outcomes'
<1> USE DEF IInv
<1>1. /\ UNCHANGED <<now, worker, expired, task, results, exec, abandoned, contested>>
      /\ creating[r] # "over"
      /\ \A q \in Requests : q # r => creating'[q] = creating[q]
  BY CheckFacts DEF None
<1>2. \A e \in Executions : exec[e][r].pc = "idle"
  BY <1>1 DEF FrameInv, Dispatched
<1>3. Dispatched'
  BY <1>1, <1>2 DEF FrameInv, Dispatched
<1>4. FrameInv'
  BY <1>1, <1>3 DEF FrameInv, Alone, FrameOf
<1>5. NotCreated'
  BY <1>1 DEF NotCreated
<1>6. Dead' = Dead
  BY <1>1 DEF Dead
<1> QED
  BY <1>1, <1>4, <1>5, <1>6
  DEF Outcomes, CompletedIsBarred, ResultsCounted, Closing, Causes, Barred

LEMMA CreateStep ==
  ASSUME IInv, NEW w \in Workers, NEW r \in Requests, CreateTask(w, r)
  PROVE  FrameInv' /\ Outcomes'
<1> USE DEF IInv
<1>0. ByRequest(w) \in Executions /\ w # "over"
  BY ExecutionOf
<1>1. /\ UNCHANGED <<now, worker, results, contested>> /\ Dead' = Dead
      /\ creating[r] = w /\ creating'[r] = "over"
      /\ \A q \in Requests :
           q # r => creating'[q] = creating[q] /\ task'[q] = task[q]
                    /\ abandoned'[q] = abandoned[q]
  BY CreateFacts DEF Dead
<1>2. /\ task[r].status = "none"
      /\ \A e \in Executions : exec[e][r].pc = "idle"
  BY <1>0, <1>1 DEF NotCreated, FrameInv, Dispatched
<1>3. task'[r].status \notin Terminal
  BY <1>2, CreateFacts DEF Terminal
<1>4. \A e \in Executions :
        /\ exec'[e][r].pc # "idle" => e = ByRequest(w) /\ exec'[e][r].pc = "read"
        /\ \A q \in Requests : q # r => exec'[e][q] = exec[e][q]
  BY <1>2, CreateFacts
<1>5. abandoned[r] \in Nat /\ abandoned'[r] \in {abandoned[r], abandoned[r] + 1}
  BY CreateFacts DEF TypeOK
<1>6. FrameInv'
  <2>1. \A v \in Workers : ByBoot(v) # ByRequest(w) /\ ByBoot(v) \in Executions
    BY ExecutionOf DEF ByBoot, ByRequest
  <2>2. Dispatched'
    BY <1>1, <1>4, <2>1 DEF FrameInv, Dispatched
  <2>3. ASSUME NEW q \in Requests \ contested
        PROVE  Alone(q)' /\ \A e \in Executions : FrameOf(e, q)'
    <3>1. CASE q # r
      BY <1>1, <1>4, <3>1 DEF FrameInv, Alone, FrameOf
    <3>2. CASE q = r
      BY <1>4, <3>2 DEF Alone, FrameOf, Owning, Holding
    <3> QED
      BY <3>1, <3>2
  <2> QED
    BY <1>1, <2>2, <2>3 DEF FrameInv
<1>7. \A q \in Requests : q # r => (Barred(q) => Barred(q)')
  BY <1>1, <1>4 DEF Barred
<1>8. NotCreated'
  BY <1>1 DEF NotCreated
<1>9. CompletedIsBarred'
  BY <1>1, <1>3, <1>4, <1>7 DEF CompletedIsBarred, Terminal
<1>10. ResultsCounted'
  <2> SUFFICES ASSUME NEW q \in Requests \ contested
               PROVE  \/ results'[q] <= Causes(q)'
                      \/ results'[q] <= 1 + Causes(q)' /\ Closing(q)'
    BY <1>1 DEF ResultsCounted
  <2>1. CASE q = r
    <3>1. ~Closing(r)
      BY <1>2 DEF Closing, Terminal
    <3>2. results[r] <= Causes(r) /\ results[r] \in Nat /\ Cardinality(Dead) \in Nat
      BY <2>1, <3>1, DeadSet DEF ResultsCounted, TypeOK
    <3> QED
      BY <1>1, <1>5, <2>1, <3>2 DEF Causes
  <2>2. CASE q # r
    BY <1>1, <1>4, <1>7, <2>2 DEF ResultsCounted, Closing, Causes
  <2> QED
    BY <2>1, <2>2
<1> QED
  BY <1>6, <1>8, <1>9, <1>10 DEF Outcomes

-----------------------------------------------------------------------------
(* Theorems *)

\* The inductive invariant holds in every reachable state.
LEMMA IInvInductive == Spec => []IInv
<1>1. ASSUME IInv, [Next]_vars
      PROVE  IInv'
  <2>1. TypeOK'
    BY <1>1, TypeStep DEF IInv
  <2>2. FrameInv' /\ Outcomes'
    <3>1. CASE Tick
      BY <1>1, <3>1, TickStep
    <3>2. ASSUME NEW w \in Workers, Boot(w) \/ Crash(w)
          PROVE  FrameInv' /\ Outcomes'
      BY <1>1, <3>2, SelectStep, CloseStep, RecoverStep, CrashStep DEF Boot
    <3>3. ASSUME NEW w \in Workers, NEW r \in Requests,
                 CheckKey(w, r) \/ CreateTask(w, r)
          PROVE  FrameInv' /\ Outcomes'
      BY <1>1, <3>3, CheckStep, CreateStep
    <3>4. ASSUME NEW e \in Executions, NEW r \in Requests, Execute(e, r)
          PROVE  FrameInv' /\ Outcomes'
      BY <1>1, <3>4, FrameStepExecute, OutcomeStepExecute DEF IInv
    <3>5. CASE UNCHANGED vars
      BY <1>1, <3>5
      DEF vars, IInv, FrameInv, Dispatched, Alone, FrameOf, Outcomes, NotCreated,
          CompletedIsBarred, ResultsCounted, Closing, Causes, Barred, Dead
    <3> QED
      BY <1>1, <3>1, <3>2, <3>3, <3>4, <3>5 DEF Next
  <2> QED
    BY <2>1, <2>2 DEF IInv, Outcomes
<1> QED
  BY InitIInv, <1>1, PTL DEF Spec

\* Every variable keeps its type (video.ts).
THEOREM VideoTypeCorrect == Spec => []TypeOK
<1>1. Init => TypeOK
  BY InitIInv DEF IInv
<1> QED
  BY <1>1, TypeStep, PTL DEF Spec

\* Two executions never work on one job as long as the lease decides about it,
\* although the claim compares the lease with a clock read before, never asks
\* for the status, and any number of processes start, die or meet store errors.
THEOREM OneOwnerAtATime == Spec => []OneOwner
<1>1. IInv => OneOwner
  BY OwnerExcludes DEF IInv, OneOwner, Owns
<1> QED
  BY <1>1, IInvInductive, PTL

\* The row shows who executes such a job, and until when.
THEOREM ClaimsAreVisible == Spec => []ClaimIsVisible
<1>1. IInv => ClaimIsVisible
  BY OwnerExcludes DEF IInv, ClaimIsVisible, Owns
<1> QED
  BY <1>1, IInvInductive, PTL

\* At most one result more than processes that died and executions of the job
\* that a store error ended, unless its lease was outlived or it was begun twice.
THEOREM DuplicatesHaveCauses == Spec => []DuplicatesHaveACause
<1>1. IInv => DuplicatesHaveACause
  BY DeadSet DEF IInv, ResultsCounted, Causes, DuplicatesHaveACause, TypeOK
<1> QED
  BY <1>1, IInvInductive, PTL

\* A completed job is never put back to work by a claim, which does not ask for
\* the status: the lease that the completing update leaves refuses it.  Only an
\* execution that completed it without hearing of it may still fail it.
THEOREM CompletedJobsStay == Spec => CompletedIsFinal
<1> DEFINE Stay ==
      \A r \in Requests \ contested :
        task[r].status = "completed" =>
          \/ task'[r].status = "completed"
          \/ /\ task'[r].status = "failed"
             /\ \E e \in Executions : At(e, r, "failing")
<1>1. ASSUME IInv, [Next]_vars
      PROVE  Stay
  <2> USE <1>1 DEF IInv
  <2> SUFFICES ASSUME NEW r \in Requests \ contested, task[r].status = "completed"
               PROVE  \/ task'[r].status = "completed"
                      \/ /\ task'[r].status = "failed"
                         /\ \E e \in Executions : At(e, r, "failing")
    OBVIOUS
  <2>1. ASSUME NEW e \in Executions, NEW q \in Requests, Execute(e, q)
        PROVE  \/ task'[r].status = "completed"
               \/ /\ task'[r].status = "failed"
                  /\ \E f \in Executions : At(f, r, "failing")
    <3>1. CASE Barred(r)
      BY <2>1, <3>1, BarredStaysBarred DEF Terminal
    <3>2. ASSUME NEW f \in Executions, exec[f][r].pc = "failing"
          PROVE  task'[r].status \in {"completed", "failed"}
      <4>0. exec[f][r].pc \in Owning
        BY <3>2 DEF Owning
      <4>1. CASE q # r
        BY <2>1, <4>1, ExecuteStep DEF ElsewhereKept, RowKept
      <4>2. CASE q = r /\ f # e
        BY <2>1, <4>0, <4>2, OwnerUndisturbed DEF LeavesJob, ReadsJob, RowKept
      <4>3. CASE q = r /\ f = e
        <5>1. ExecuteKinds(e, r)
          BY <2>1, <4>3, ExecuteStep
        <5> QED
          BY <3>2, <4>3, <5>1
          DEF ExecuteKinds, LeavesJob, ReadsJob, ClaimsJob, AbandonsJob, WorksOn,
              InsertsResult, CompletesJob, FailsJob
      <4> QED
        BY <4>1, <4>2, <4>3
    <3> QED
      BY <3>1, <3>2 DEF CompletedIsBarred, At
  <2>2. ASSUME NEW w \in Workers, NEW q \in Requests, CreateTask(w, q)
        PROVE  task'[r].status = "completed"
    <3>1. creating[q] = w /\ w # "over" /\ (q # r => task'[r] = task[r])
      BY <2>2, CreateFacts, ExecutionOf
    <3>2. q # r
      BY <3>1 DEF NotCreated
    <3> QED
      BY <3>1, <3>2
  <2>3. ASSUME NEW w \in Workers, NEW q \in Requests, BootCloseExpired(w, q)
        PROVE  task'[r].status = "completed"
    BY <2>3, CloseFacts DEF Active
  <2>4. ASSUME task' = task
        PROVE  task'[r].status = "completed"
    BY <2>4
  <2> QED
    BY <2>1, <2>2, <2>3, <2>4
    DEF Next, Boot, Tick, Crash, CheckKey, BootSelectExpired, BootRecover, vars
<1> QED
  BY <1>1, IInvInductive, PTL DEF Spec, CompletedIsFinal

\* What CompletedHasResult rests on; leases and store errors play no part in it.
FinishHasResult ==
  \A e \in Executions, r \in Requests : exec[e][r].pc = "finish" => results[r] > 0

LEMMA ResultBeforeCompletion ==
  ASSUME TypeOK, FinishHasResult, CompletedHasResult, [Next]_vars
  PROVE  FinishHasResult' /\ CompletedHasResult'
<1>1. ASSUME NEW e \in Executions, NEW r \in Requests, Execute(e, r)
      PROVE  FinishHasResult' /\ CompletedHasResult'
  <2>1. /\ \A q \in Requests : q # r => RowKept(q)
        /\ \A d \in Executions, q \in Requests :
             d # e \/ q # r => exec'[d][q] = exec[d][q]
    BY <1>1, ExecuteStep DEF ElsewhereKept
  <2>2. /\ results'[r] >= results[r] /\ results[r] \in Nat /\ results'[r] \in Nat
        /\ exec'[e][r].pc = "finish" => results'[r] > 0
        /\ task'[r].status = "completed" => results'[r] > 0 /\ task'[r].artifact
    <3>0. results[r] \in Nat
      BY DEF TypeOK
    <3>1. CASE LeavesJob(e, r) \/ ReadsJob(e, r)
      BY <3>0, <3>1 DEF LeavesJob, ReadsJob, RowKept, CompletedHasResult
    <3>2. CASE ClaimsJob(e, r)
      BY <3>0, <3>2 DEF ClaimsJob, ClaimedRow
    <3>3. CASE AbandonsJob(e, r)
      BY <3>0, <3>3 DEF AbandonsJob, ClaimedRow, CompletedHasResult
    <3>4. CASE WorksOn(e, r)
      BY <3>0, <3>4 DEF WorksOn, CompletedHasResult
    <3>5. CASE InsertsResult(e, r)
      BY <3>0, <3>5 DEF InsertsResult, CompletedHasResult
    <3>6. CASE CompletesJob(e, r)
      BY <3>0, <3>6 DEF CompletesJob, FinishHasResult
    <3>7. CASE FailsJob(e, r)
      BY <3>0, <3>7 DEF FailsJob
    <3>8. ExecuteKinds(e, r)
      BY <1>1, ExecuteStep
    <3> QED
      BY <3>1, <3>2, <3>3, <3>4, <3>5, <3>6, <3>7, <3>8 DEF ExecuteKinds
  <2>3. FinishHasResult'
    BY <2>1, <2>2 DEF FinishHasResult, RowKept
  <2>4. CompletedHasResult'
    BY <2>1, <2>2 DEF CompletedHasResult, RowKept
  <2> QED
    BY <2>3, <2>4
<1>2. ASSUME results' = results,
             \A q \in Requests : task'[q] = task[q] \/ task'[q].status # "completed",
             \A e \in Executions, q \in Requests :
               exec'[e][q] = exec[e][q] \/ exec'[e][q].pc \in {"idle", "read"}
      PROVE  FinishHasResult' /\ CompletedHasResult'
  BY <1>2 DEF FinishHasResult, CompletedHasResult
<1>3. ASSUME NEW w \in Workers, NEW r \in Requests, CreateTask(w, r)
      PROVE  FinishHasResult' /\ CompletedHasResult'
  <2>1. \A q \in Requests : task'[q] = task[q] \/ task'[q].status # "completed"
    BY <1>3, CreateFacts
  <2>2. \A e \in Executions, q \in Requests :
          exec'[e][q] = exec[e][q] \/ exec'[e][q].pc \in {"idle", "read"}
    BY <1>3, CreateFacts
  <2>3. results' = results
    BY <1>3, CreateFacts
  <2> QED
    BY <1>2, <2>1, <2>2, <2>3
<1>4. ASSUME NEW w \in Workers, NEW r \in Requests, BootCloseExpired(w, r)
      PROVE  FinishHasResult' /\ CompletedHasResult'
  BY <1>2, <1>4, CloseFacts
<1>5. ASSUME NEW w \in Workers, BootRecover(w)
      PROVE  FinishHasResult' /\ CompletedHasResult'
  <2>1. \A e \in Executions, q \in Requests :
          exec'[e][q] = exec[e][q] \/ exec'[e][q].pc \in {"idle", "read"}
    BY <1>5, RecoverFacts
  <2>2. results' = results /\ task' = task
    BY <1>5, RecoverFacts
  <2> QED
    BY <1>2, <2>1, <2>2
<1>6. ASSUME NEW w \in Workers, Crash(w)
      PROVE  FinishHasResult' /\ CompletedHasResult'
  <2>1. \A e \in Executions, q \in Requests :
          exec'[e][q] = exec[e][q] \/ exec'[e][q].pc \in {"idle", "read"}
    BY <1>6, CrashFacts
  <2>2. results' = results /\ task' = task
    BY <1>6, CrashFacts
  <2> QED
    BY <1>2, <2>1, <2>2
<1>7. ASSUME UNCHANGED <<task, results, exec>>
      PROVE  FinishHasResult' /\ CompletedHasResult'
  BY <1>7 DEF FinishHasResult, CompletedHasResult
<1> QED
  BY <1>1, <1>3, <1>4, <1>5, <1>6, <1>7
  DEF Next, Boot, Tick, CheckKey, BootSelectExpired, vars

\* A completed job has a result row and an artifact, even when executions
\* outlive their leases, several of them work on the job and store calls fail.
THEOREM CompletedHasItsVideo == Spec => []CompletedHasResult
<1> DEFINE Inv == TypeOK /\ FinishHasResult /\ CompletedHasResult
<1>1. Init => Inv
  BY Start DEF FinishHasResult, CompletedHasResult
<1>2. Inv /\ [Next]_vars => Inv'
  BY TypeStep, ResultBeforeCompletion
<1> QED
  BY <1>1, <1>2, PTL DEF Spec

-----------------------------------------------------------------------------
(* Attendance *)

\* What ActiveIsAttended rests on: who has a frame works on a row that exists, a
\* row has no owner before its first claim, and the only reader or claimer of an
\* unclaimed row is not turned away.  Leases play no part.
FramesOfRows ==
  \A e \in Executions, r \in Requests :
    /\ exec[e][r].pc # "idle" => task[r].status # "none"
    /\ exec[e][r].pc \in Owning => task[r].assigned # None

UnclaimedYet ==
  \A r \in Requests :
    task[r].status \in {"none", "queued"} => task[r].assigned = None

Attendance == FramesOfRows /\ UnclaimedYet /\ ActiveIsAttended

\* Nobody turns away from a row that was never claimed.
LEMMA UnclaimedIsTaken ==
  ASSUME TypeOK, NEW e \in Executions, NEW r \in Requests, Execute(e, r),
         task[r].status = "queued", task[r].assigned = None
  PROVE  ~LeavesJob(e, r)
<1> SUFFICES ASSUME LeavesJob(e, r) PROVE FALSE
  OBVIOUS
<1>1. /\ exec[e][r].pc \in {"read", "claim"} /\ exec'[e][r].pc = "idle"
      /\ abandoned'[r] = abandoned[r] /\ abandoned[r] \in Nat
  BY DEF LeavesJob, RowKept, TypeOK
<1>2. ~Abandon(e, r)
  BY <1>1, LeftBehind
<1>3. ReadTask(e, r) \/ Claim(e, r)
  BY <1>1 DEF Execute, Reread, StartRender, RenderAnswered, SaveResult, Finish, Fail, At
<1>4. CASE ReadTask(e, r)
  <2>1. Suspend(e, r, RowRead(r))
    BY <1>2, <1>4 DEF ReadTask, LeasedByOther, Terminal
  <2>2. RowRead(r) \in Frames /\ RowRead(r).pc = "claim"
    BY KeptFrames
  <2> QED
    BY <1>1, <2>1, <2>2, Suspended
<1>5. CASE Claim(e, r)
  <2>1. Suspend(e, r, FrameAt("reread"))
    BY <1>2, <1>5 DEF Claim, MayClaim
  <2>2. FrameAt("reread") \in Frames /\ FrameAt("reread").pc = "reread"
    BY BuiltFrames DEF Locations, Owning
  <2> QED
    BY <1>1, <2>1, <2>2, Suspended
<1> QED
  BY <1>3, <1>4, <1>5

LEMMA AttendanceExecute ==
  ASSUME TypeOK, Attendance, NEW e \in Executions, NEW r \in Requests, Execute(e, r)
  PROVE  Attendance'
<1>1. /\ Dead' = Dead
      /\ exec[e][r].pc # "idle"
      /\ \A q \in Requests : q # r => task'[q] = task[q] /\ abandoned'[q] = abandoned[q]
      /\ \A d \in Executions, q \in Requests :
           d # e \/ q # r => exec'[d][q] = exec[d][q]
  BY ExecuteStep DEF ElsewhereKept, RowKept, Dead
<1>2. Process(e) # None
  BY ExecutionOf
<1>3. task[r].status # "none" /\ abandoned[r] \in Nat
  BY <1>1 DEF Attendance, FramesOfRows, TypeOK
<1>4. /\ task'[r].status # "none"
      /\ exec'[e][r].pc \in Owning => task'[r].assigned # None
      /\ task'[r].assigned = None => task[r].assigned = None
      /\ task'[r].status = "queued" => task[r].status = "queued" /\ task'[r].assigned = None
      /\ abandoned'[r] # 0 \/ abandoned'[r] = abandoned[r]
      /\ task'[r].status = "queued" =>
           \/ exec'[e][r].pc \in {"read", "claim"}
           \/ exec[e][r].pc \notin {"read", "claim"}
           \/ abandoned'[r] # 0
      /\ task'[r].status = "running" =>
           \/ exec'[e][r].pc \in Owning
           \/ task[r].status = "running" /\ exec[e][r].pc \notin Owning
           \/ abandoned'[r] # 0
  <2> USE DEF Owning
  <2>0. task[r].status \in {"none", "queued"} => task[r].assigned = None
    BY DEF Attendance, UnclaimedYet
  <2>1. exec[e][r].pc \in Owning => task[r].assigned # None
    BY DEF Attendance, FramesOfRows
  <2>2. CASE LeavesJob(e, r)
    BY <1>3, <2>0, <2>2, UnclaimedIsTaken DEF LeavesJob, RowKept
  <2>3. CASE ReadsJob(e, r)
    BY <1>3, <2>0, <2>3 DEF ReadsJob, RowKept
  <2>4. CASE ClaimsJob(e, r)
    BY <1>2, <2>4 DEF ClaimsJob, ClaimedRow
  <2>5. CASE AbandonsJob(e, r)
    BY <1>2, <1>3, <2>0, <2>5 DEF AbandonsJob, ClaimedRow
  <2>6. CASE WorksOn(e, r)
    BY <1>3, <2>0, <2>1, <2>6 DEF WorksOn
  <2>7. CASE InsertsResult(e, r)
    BY <1>3, <2>0, <2>1, <2>7 DEF InsertsResult
  <2>8. CASE CompletesJob(e, r) \/ FailsJob(e, r)
    BY <2>0, <2>1, <2>8 DEF CompletesJob, FailsJob
  <2>9. ExecuteKinds(e, r)
    BY ExecuteStep
  <2> QED
    BY <2>2, <2>3, <2>4, <2>5, <2>6, <2>7, <2>8, <2>9 DEF ExecuteKinds
<1>5. UnclaimedYet'
  BY <1>1, <1>4 DEF Attendance, UnclaimedYet
<1>6. \A d \in Executions : exec[d][r].pc \in Owning => task'[r].assigned # None
  BY <1>4 DEF Attendance, FramesOfRows
<1>7. FramesOfRows'
  <2> SUFFICES ASSUME NEW d \in Executions, NEW q \in Requests
               PROVE  /\ exec'[d][q].pc # "idle" => task'[q].status # "none"
                      /\ exec'[d][q].pc \in Owning => task'[q].assigned # None
    BY DEF FramesOfRows
  <2>1. CASE d = e /\ q = r
    BY <1>4, <2>1
  <2>2. CASE q # r
    BY <1>1, <2>2 DEF Attendance, FramesOfRows
  <2>3. CASE d # e /\ q = r
    BY <1>1, <1>4, <1>6, <2>3 DEF Attendance, FramesOfRows
  <2> QED
    BY <2>1, <2>2, <2>3
<1>8. ActiveIsAttended'
  <2> SUFFICES ASSUME Dead' = {}, NEW q \in Requests, abandoned'[q] = 0
               PROVE  /\ task'[q].status = "queued" =>
                           \E d \in Executions : exec'[d][q].pc \in {"read", "claim"}
                      /\ task'[q].status = "running" => \E d \in Executions : Owns(d, q)'
    BY DEF ActiveIsAttended
  <2>1. Dead = {} /\ abandoned[q] = 0
    BY <1>1, <1>4
  <2>2. /\ task[q].status = "queued" =>
             \E d \in Executions : exec[d][q].pc \in {"read", "claim"}
        /\ task[q].status = "running" => \E d \in Executions : Owns(d, q)
    BY <2>1 DEF Attendance, ActiveIsAttended
  <2>3. CASE q # r
    BY <1>1, <2>2, <2>3 DEF Owns
  <2>4. CASE q = r
    <3>1. task'[r].status = "queued" =>
            \E d \in Executions : exec'[d][r].pc \in {"read", "claim"}
      BY <1>1, <1>4, <2>2, <2>4
    <3>2. task'[r].status = "running" => \E d \in Executions : Owns(d, r)'
      BY <1>1, <1>4, <2>2, <2>4 DEF Owns
    <3> QED
      BY <2>4, <3>1, <3>2
  <2> QED
    BY <2>3, <2>4
<1> QED
  BY <1>5, <1>7, <1>8 DEF Attendance

\* Steps that begin no execution but at "read", end none, and change no row but
\* to close it.
LEMMA AttendanceKept ==
  ASSUME Attendance, abandoned' = abandoned, Dead' = {} => Dead = {},
         \A q \in Requests :
           \/ task'[q] = task[q]
           \/ task'[q].status = "failed" /\ task'[q].assigned = task[q].assigned,
         \A e \in Executions, q \in Requests :
           \/ exec'[e][q] = exec[e][q]
           \/ exec'[e][q].pc = "idle" /\ (exec[e][q].pc = "idle" \/ Dead' # {})
           \/ /\ exec[e][q].pc = "idle" /\ exec'[e][q].pc = "read"
              /\ task'[q].status # "none"
  PROVE  Attendance'
<1>1. UnclaimedYet'
  BY DEF Attendance, UnclaimedYet
<1>2. FramesOfRows'
  BY DEF Attendance, FramesOfRows, Owning
<1>3. ActiveIsAttended'
  <2> SUFFICES ASSUME Dead' = {}, NEW q \in Requests, abandoned'[q] = 0
               PROVE  /\ task'[q].status = "queued" =>
                           \E d \in Executions : exec'[d][q].pc \in {"read", "claim"}
                      /\ task'[q].status = "running" => \E d \in Executions : Owns(d, q)'
    BY DEF ActiveIsAttended
  <2>1. /\ task[q].status = "queued" =>
             \E d \in Executions : exec[d][q].pc \in {"read", "claim"}
        /\ task[q].status = "running" => \E d \in Executions : exec[d][q].pc \in Owning
    BY DEF Attendance, ActiveIsAttended, Owns
  <2>2. \A d \in Executions : exec[d][q].pc # "idle" => exec'[d][q] = exec[d][q]
    OBVIOUS
  <2>3. task'[q].status = "queued" =>
          \E d \in Executions : exec'[d][q].pc \in {"read", "claim"}
    BY <2>1, <2>2
  <2>4. task'[q].status = "running" => \E d \in Executions : exec'[d][q].pc \in Owning
    BY <2>1, <2>2 DEF Owning
  <2> QED
    BY <2>3, <2>4 DEF Owns
<1> QED
  BY <1>1, <1>2, <1>3 DEF Attendance

LEMMA AttendanceCreate ==
  ASSUME IInv, Attendance, NEW w \in Workers, NEW r \in Requests, CreateTask(w, r)
  PROVE  Attendance'
<1> USE DEF IInv
<1>0. ByRequest(w) \in Executions /\ w # "over"
  BY ExecutionOf
<1>1. /\ Dead' = Dead /\ creating[r] = w
      /\ \A q \in Requests :
           q # r => task'[q] = task[q] /\ abandoned'[q] = abandoned[q]
  BY CreateFacts DEF Dead
<1>2. /\ task[r].status = "none" /\ task[r].assigned = None
      /\ \A e \in Executions : exec[e][r].pc = "idle"
  BY <1>0, <1>1 DEF NotCreated, FrameInv, Dispatched, Attendance, UnclaimedYet
<1>3. \A e \in Executions, q \in Requests : q # r => exec'[e][q] = exec[e][q]
  BY CreateFacts
<1>4. CASE UNCHANGED <<task, exec, abandoned>>
  BY <1>1, <1>4, AttendanceKept
<1>5. ASSUME task'[r].status = "queued", task'[r].assigned = None,
             \A e \in Executions : exec'[e][r].pc \in {"idle", "read"},
             abandoned'[r] # 0 \/ exec'[ByRequest(w)][r].pc = "read"
      PROVE  Attendance'
  <2>1. UnclaimedYet'
    BY <1>1, <1>5 DEF Attendance, UnclaimedYet
  <2>2. FramesOfRows'
    BY <1>1, <1>3, <1>5 DEF Attendance, FramesOfRows, Owning
  <2>3. ActiveIsAttended'
    <3> SUFFICES ASSUME Dead' = {}, NEW q \in Requests, abandoned'[q] = 0
                 PROVE  /\ task'[q].status = "queued" =>
                             \E d \in Executions : exec'[d][q].pc \in {"read", "claim"}
                        /\ task'[q].status = "running" => \E d \in Executions : Owns(d, q)'
      BY DEF ActiveIsAttended
    <3>1. CASE q # r
      BY <1>1, <1>3, <3>1 DEF Attendance, ActiveIsAttended, Owns
    <3>2. CASE q = r
      BY <1>0, <1>5, <3>2
    <3> QED
      BY <3>1, <3>2
  <2> QED
    BY <2>1, <2>2, <2>3 DEF Attendance
<1>6. abandoned[r] \in Nat
  BY DEF TypeOK
<1> QED
  BY <1>0, <1>2, <1>4, <1>5, <1>6, CreateFacts

LEMMA AttendanceStep ==
  ASSUME IInv, Attendance, [Next]_vars
  PROVE  Attendance'
<1> USE DEF IInv
<1>1. ASSUME NEW w \in Workers, NEW r \in Requests, BootCloseExpired(w, r)
      PROVE  Attendance'
  <2>1. worker' = worker /\ exec' = exec /\ abandoned' = abandoned
    BY <1>1, CloseFacts
  <2>2. \A q \in Requests :
          \/ task'[q] = task[q]
          \/ task'[q].status = "failed" /\ task'[q].assigned = task[q].assigned
    BY <1>1, CloseFacts
  <2>3. Dead' = Dead
    BY <2>1 DEF Dead
  <2> QED
    BY <2>1, <2>2, <2>3, AttendanceKept
<1>2. ASSUME NEW w \in Workers, BootRecover(w)
      PROVE  Attendance'
  <2>1. /\ task' = task /\ abandoned' = abandoned /\ worker[w] = "booting"
        /\ \A v \in Workers : v # w => worker'[v] = worker[v]
    BY <1>2, RecoverFacts
  <2>2. \A q \in Requests : exec[ByBoot(w)][q].pc = "idle"
    BY <2>1 DEF FrameInv, Dispatched
  <2>3. \A e \in Executions, q \in Requests :
          \/ exec'[e][q] = exec[e][q]
          \/ e = ByBoot(w) /\ exec'[e][q].pc = "idle"
          \/ e = ByBoot(w) /\ exec'[e][q].pc = "read" /\ task[q].status \in Active
    BY <1>2, RecoverFacts
  <2>4. Dead' = {} => Dead = {}
    BY <2>1 DEF Dead
  <2> QED
    BY <2>1, <2>2, <2>3, <2>4, AttendanceKept DEF Active
<1>3. ASSUME NEW w \in Workers, Crash(w)
      PROVE  Attendance'
  <2>1. /\ task' = task /\ abandoned' = abandoned /\ worker'[w] = "dead"
        /\ \A e \in Executions, q \in Requests :
             exec'[e][q] = exec[e][q] \/ exec'[e][q].pc = "idle"
    BY <1>3, CrashFacts
  <2>2. Dead' # {}
    BY <2>1 DEF Dead
  <2> QED
    BY <2>1, <2>2, AttendanceKept
<1>4. ASSUME NEW w \in Workers, BootSelectExpired(w)
      PROVE  Attendance'
  <2>1. /\ UNCHANGED <<task, exec, abandoned>> /\ worker[w] = "off"
        /\ \A v \in Workers : v # w => worker'[v] = worker[v]
    BY <1>4, SelectFacts
  <2>2. Dead' = {} => Dead = {}
    BY <2>1 DEF Dead
  <2> QED
    BY <2>1, <2>2, AttendanceKept
<1>5. ASSUME UNCHANGED <<worker, task, exec, abandoned>>
      PROVE  Attendance'
  BY <1>5, AttendanceKept DEF Dead
<1>6. CASE Tick \/ UNCHANGED vars
  BY <1>5, <1>6 DEF Tick, vars
<1>7. ASSUME NEW w \in Workers, NEW r \in Requests, CheckKey(w, r)
      PROVE  Attendance'
  BY <1>5, <1>7, CheckFacts
<1> QED
  BY <1>1, <1>2, <1>3, <1>4, <1>6, <1>7, AttendanceExecute, AttendanceCreate
  DEF Next, Boot

\* A created job that is not over has somebody who attends to it (the creator
\* until the claim, then an owner, routes/video.ts) as long as no process has
\* died and no store error has ended one of its executions, even when executions
\* outlive their leases.
THEOREM NobodyLeavesAJob == Spec => []ActiveIsAttended
<1>1. Init => Attendance
  BY Start
  DEF Attendance, FramesOfRows, UnclaimedYet, ActiveIsAttended, Owning
<1>2. IInv /\ Attendance /\ [Next]_vars => Attendance'
  BY AttendanceStep
<1>3. Attendance => ActiveIsAttended
  BY DEF Attendance
<1> QED
  BY <1>1, <1>2, <1>3, IInvInductive, PTL DEF Spec

-----------------------------------------------------------------------------
(* The promise of ExclusiveJobs *)

\* The refinement mapping of ImplementsExclusiveJobs, named.
StageMap == [e \in Executions |-> [r \in Requests |-> StageOf(exec[e][r].pc)]]
CompletedMap == [r \in Requests |-> task[r].status = "completed"]

\* The steps of the abstract specification over the mapped state, written as
\* what they ask of one job and what they leave of all others.
LEMMA ReachMapped ==
  ASSUME NEW e \in Executions, NEW r \in Requests, NEW s,
         \A d \in Executions, q \in Requests :
           d # e \/ q # r => exec'[d][q] = exec[d][q],
         StageOf(exec'[e][r].pc) = s
  PROVE  StageMap' = [StageMap EXCEPT ![e][r] = s]
<1>1. \A d \in Executions, q \in Requests :
        d # e \/ q # r => StageOf(exec'[d][q].pc) = StageOf(exec[d][q].pc)
  OBVIOUS
<1>2. StageMap' = [d \in Executions |-> [q \in Requests |-> StageOf(exec'[d][q].pc)]]
  BY DEF StageMap, StageOf
<1>3. ASSUME NEW d \in Executions
      PROVE  StageMap'[d] = [StageMap EXCEPT ![e][r] = s][d]
  <2>1. StageMap'[d] = [q \in Requests |-> StageOf(exec'[d][q].pc)]
    BY <1>2
  <2>2. StageMap[d] = [q \in Requests |-> StageOf(exec[d][q].pc)]
    BY DEF StageMap
  <2>3. [StageMap EXCEPT ![e][r] = s][d]
          = IF d = e THEN [StageMap[e] EXCEPT ![r] = s] ELSE StageMap[d]
    BY DEF StageMap
  <2> QED
    BY <1>1, <2>1, <2>2, <2>3
<1> QED
  BY <1>2, <1>3 DEF StageMap

LEMMA StageKept ==
  ASSUME \A d \in Executions, q \in Requests :
           StageOf(exec'[d][q].pc) = StageOf(exec[d][q].pc)
  PROVE  StageMap' = StageMap
<1>1. StageMap' = [d \in Executions |-> [q \in Requests |-> StageOf(exec'[d][q].pc)]]
  BY DEF StageMap, StageOf
<1> QED
  BY <1>1 DEF StageMap

LEMMA CompletedKept ==
  ASSUME \A q \in Requests :
           task'[q].status = "completed" <=> task[q].status = "completed"
  PROVE  CompletedMap' = CompletedMap
BY DEF CompletedMap

\* Steps that leave every stage, every result and every completion alone, or put
\* a contested job back to work.
LEMMA StutterRefines ==
  ASSUME results' = results, contested' = contested,
         \A d \in Executions, q \in Requests :
           StageOf(exec'[d][q].pc) = StageOf(exec[d][q].pc),
         \A q \in Requests :
           task'[q].status = "completed" <=> task[q].status = "completed"
  PROVE  [Jobs!Next]_(Jobs!jobVars)
<1>1. StageMap' = StageMap /\ CompletedMap' = CompletedMap
  BY StageKept, CompletedKept
<1> QED
  BY <1>1 DEF Jobs!jobVars, StageMap, CompletedMap

LEMMA ReopenRefines ==
  ASSUME results' = results, contested' = contested, NEW r \in contested, r \in Requests,
         \A d \in Executions, q \in Requests :
           StageOf(exec'[d][q].pc) = StageOf(exec[d][q].pc),
         \A q \in Requests : q # r => task'[q] = task[q],
         task'[r].status # "completed"
  PROVE  [Jobs!Next]_(Jobs!jobVars)
<1>1. StageMap' = StageMap
  BY StageKept
<1>2. CompletedMap' = [CompletedMap EXCEPT ![r] = FALSE]
  BY DEF CompletedMap
<1>3. Jobs!Reopen(r)
  BY <1>1, <1>2 DEF Jobs!Reopen, Jobs!SetCompleted, StageMap, CompletedMap
<1> QED
  BY <1>3 DEF Jobs!Next

\* While the lease decides, a claimer that may pass and an owner that does not
\* fail work on a job that is not completed.
LEMMA OwnedIsOpen ==
  ASSUME IInv, NEW e \in Executions, NEW r \in Requests \ contested,
         \/ exec[e][r].pc \in Owning \ {"failing"}
         \/ exec[e][r].pc = "claim" /\ MayClaim(e, r)
  PROVE  task[r].status # "completed"
<1> SUFFICES ASSUME task[r].status = "completed" PROVE FALSE
  OBVIOUS
<1> USE DEF IInv
<1>1. CASE Barred(r)
  <2>1. exec[e][r].at \in Nat /\ task[r].lease \in Int
    BY VideoAssumption DEF TypeOK, Frames, Rows, Leases, Times
  <2> QED
    BY <1>1, <2>1 DEF Barred, MayClaim
<1>2. ASSUME NEW f \in Executions, exec[f][r].pc = "failing"
      PROVE  FALSE
  <2>1. exec[f][r].pc \in Owning
    BY <1>2 DEF Owning
  <2> QED
    BY <1>2, <2>1, OwnerExcludes
<1> QED
  BY <1>1, <1>2 DEF CompletedIsBarred

LEMMA ExecuteRefines ==
  ASSUME IInv, NEW e \in Executions, NEW r \in Requests, Execute(e, r)
  PROVE  [Jobs!Next]_(Jobs!jobVars)
<1>1. /\ contested' = contested
      /\ \A q \in Requests : q # r => RowKept(q)
      /\ \A d \in Executions, q \in Requests :
           d # e \/ q # r => exec'[d][q] = exec[d][q]
  BY ExecuteStep DEF IInv, ElsewhereKept
<1>2. /\ TypeOK /\ results \in [Requests -> Nat] /\ results' \in [Requests -> Nat]
      /\ ExecuteKinds(e, r)
  BY ExecuteStep DEF IInv, TypeOK, ExecuteTyped
<1>3. ASSUME NEW s, StageOf(exec'[e][r].pc) = s
      PROVE  StageMap' = [StageMap EXCEPT ![e][r] = s]
  BY <1>1, <1>3, ReachMapped
<1>4. ASSUME StageOf(exec'[e][r].pc) = StageOf(exec[e][r].pc)
      PROVE  \A d \in Executions, q \in Requests :
               StageOf(exec'[d][q].pc) = StageOf(exec[d][q].pc)
  BY <1>1, <1>4
<1>5. ASSUME results'[r] = results[r]
      PROVE  results' = results
  BY <1>1, <1>2, <1>5 DEF RowKept
<1>6. ASSUME task'[r].status = "completed" <=> task[r].status = "completed"
      PROVE  CompletedMap' = CompletedMap
  BY <1>1, <1>6, CompletedKept DEF RowKept
<1>7. ASSUME task'[r].status # "completed"
      PROVE  CompletedMap' = [CompletedMap EXCEPT ![r] = FALSE]
  BY <1>1, <1>7 DEF CompletedMap, RowKept
<1>8. StageMap[e][r] = StageOf(exec[e][r].pc)
  BY DEF StageMap
\* A step that keeps the stage and the results, and may put a job back to work
\* only if it is contested.
<1>9. ASSUME results'[r] = results[r],
             StageOf(exec'[e][r].pc) = StageOf(exec[e][r].pc),
             \/ task'[r] = task[r]
             \/ /\ task'[r].status = "running"
                /\ r \notin contested => task[r].status # "completed"
      PROVE  [Jobs!Next]_(Jobs!jobVars)
  <2>1. /\ results' = results
        /\ \A d \in Executions, q \in Requests :
             StageOf(exec'[d][q].pc) = StageOf(exec[d][q].pc)
        /\ \A q \in Requests : q # r => task'[q] = task[q]
    BY <1>1, <1>4, <1>5, <1>9 DEF RowKept
  <2>2. CASE task'[r].status = "completed" <=> task[r].status = "completed"
    <3>1. \A q \in Requests :
            task'[q].status = "completed" <=> task[q].status = "completed"
      BY <2>1, <2>2
    <3> QED
      BY <1>1, <2>1, <3>1, StutterRefines
  <2>3. CASE r \in contested /\ task'[r].status # "completed"
    BY <1>1, <2>1, <2>3, ReopenRefines
  <2> QED
    BY <1>9, <2>2, <2>3
<1> USE DEF Jobs!Next, Jobs!jobVars, Jobs!Reach, Jobs!SetCompleted, Jobs!Deliveries
<1>10. CASE LeavesJob(e, r) \/ ReadsJob(e, r)
  BY <1>9, <1>10 DEF LeavesJob, ReadsJob, RowKept, StageOf, Owning
<1>11. CASE ClaimsJob(e, r)
  <2>1. task'[r].status # "completed" /\ exec[e][r].pc = "claim" /\ MayClaim(e, r)
    BY <1>11 DEF ClaimsJob, ClaimedRow
  <2>2. ASSUME r \notin contested
        PROVE  ~CompletedMap[r] /\ \A d \in Executions : StageMap[d][r] = "away"
    <3>1. task[r].status # "completed"
      BY <2>1, <2>2, OwnedIsOpen
    <3>2. \A d \in Executions : exec[d][r].pc \notin Owning
      BY <2>1, <2>2, OwnerExcludes DEF IInv
    <3> QED
      BY <3>1, <3>2 DEF CompletedMap, StageMap, StageOf, Owning
  <2>3. StageMap[e][r] = "away"
    BY <1>8, <2>1 DEF StageOf, Owning
  <2>4. StageMap' = [StageMap EXCEPT ![e][r] = "working"]
    BY <1>3, <1>11 DEF ClaimsJob, StageOf, Owning
  <2>5. results' = results /\ CompletedMap' = [CompletedMap EXCEPT ![r] = FALSE]
    BY <1>5, <1>7, <1>11, <2>1 DEF ClaimsJob
  <2>6. Jobs!Take(e, r)
    BY <1>1, <2>2, <2>3, <2>4, <2>5 DEF Jobs!Take, StageMap, CompletedMap
  <2> QED
    BY <2>6
<1>12. CASE AbandonsJob(e, r)
  <2>1. CASE exec[e][r].pc \in {"read", "claim"}
    <3>1. StageOf(exec'[e][r].pc) = "away" /\ StageOf(exec[e][r].pc) = "away"
      BY <1>12, <2>1 DEF AbandonsJob, StageOf, Owning
    <3>2. \/ task'[r] = task[r]
          \/ /\ task'[r].status = "running"
             /\ r \notin contested => task[r].status # "completed"
      BY <1>12, OwnedIsOpen DEF AbandonsJob, ClaimedRow
    <3> QED
      BY <1>9, <1>12, <3>1, <3>2 DEF AbandonsJob
  <2>2. CASE exec[e][r].pc \in {"reread", "failing"}
    <3>1. StageMap[e][r] \in {"working", "failing"}
      BY <1>8, <2>2 DEF StageOf, Owning
    <3>2. StageMap' = [StageMap EXCEPT ![e][r] = "away"]
      BY <1>3, <1>12 DEF AbandonsJob, StageOf, Owning
    <3>3. results' = results /\ CompletedMap' = CompletedMap
      BY <1>5, <1>6, <1>12, <2>2 DEF AbandonsJob
    <3>4. Jobs!Quit(e, r)
      BY <1>1, <3>1, <3>2, <3>3 DEF Jobs!Quit, StageMap, CompletedMap
    <3> QED
      BY <3>4
  <2> QED
    BY <1>12, <2>1, <2>2 DEF AbandonsJob
<1>13. CASE WorksOn(e, r)
  <2>1. exec[e][r].pc \in Owning \ {"failing"} /\ results' = results
    BY <1>5, <1>13 DEF WorksOn
  <2>2. \/ task'[r] = task[r]
        \/ /\ task'[r].status = "running"
           /\ r \notin contested => task[r].status # "completed"
    BY <1>13, <2>1, OwnedIsOpen DEF WorksOn
  <2>3. CASE exec'[e][r].pc = "failing"
    <3>1. StageMap[e][r] \in {"working", "delivered"}
      BY <1>8, <2>1 DEF StageOf
    <3>2. StageMap' = [StageMap EXCEPT ![e][r] = "failing"]
      BY <1>3, <2>3 DEF StageOf
    <3>3. \/ CompletedMap' = CompletedMap
          \/ r \in contested /\ CompletedMap' = [CompletedMap EXCEPT ![r] = FALSE]
      <4>1. CASE task'[r].status = "completed" <=> task[r].status = "completed"
        BY <1>6, <4>1
      <4>2. CASE r \in contested /\ task'[r].status # "completed"
        BY <1>7, <4>2
      <4> QED
        BY <2>2, <4>1, <4>2
    <3>4. Jobs!Stumble(e, r)
      BY <1>1, <2>1, <3>1, <3>2, <3>3 DEF Jobs!Stumble, StageMap, CompletedMap
    <3> QED
      BY <3>4
  <2>4. CASE exec'[e][r].pc # "failing"
    <3>1. StageOf(exec'[e][r].pc) = "working" /\ StageOf(exec[e][r].pc) = "working"
      BY <1>13, <2>4 DEF WorksOn, StageOf, Owning
    <3> QED
      BY <1>9, <1>13, <2>2, <3>1 DEF WorksOn
  <2> QED
    BY <2>3, <2>4
<1>14. CASE InsertsResult(e, r)
  <2>1. StageMap[e][r] = "working"
    BY <1>8, <1>14 DEF InsertsResult, StageOf, Owning
  <2>2. \/ StageMap' = [StageMap EXCEPT ![e][r] = "delivered"]
        \/ StageMap' = [StageMap EXCEPT ![e][r] = "failing"]
    BY <1>3, <1>14 DEF InsertsResult, StageOf
  <2>3. results' = [results EXCEPT ![r] = @ + 1]
    BY <1>1, <1>2, <1>14 DEF InsertsResult, RowKept
  <2>4. CompletedMap' = CompletedMap
    BY <1>6, <1>14 DEF InsertsResult
  <2>5. Jobs!Deliver(e, r)
    BY <1>1, <2>1, <2>2, <2>3, <2>4 DEF Jobs!Deliver, StageMap, CompletedMap
  <2> QED
    BY <2>5
<1>15. CASE CompletesJob(e, r)
  <2>1. StageMap[e][r] = "delivered"
    BY <1>8, <1>15 DEF CompletesJob, StageOf
  <2>2. \/ StageMap' = [StageMap EXCEPT ![e][r] = "away"]
        \/ StageMap' = [StageMap EXCEPT ![e][r] = "failing"]
    BY <1>3, <1>15 DEF CompletesJob, StageOf, Owning
  <2>3. results' = results
    BY <1>5, <1>15 DEF CompletesJob
  <2>4. CompletedMap' = [CompletedMap EXCEPT ![r] = TRUE]
    BY <1>1, <1>15 DEF CompletesJob, CompletedMap, RowKept
  <2>5. Jobs!Complete(e, r)
    BY <1>1, <2>1, <2>2, <2>3, <2>4 DEF Jobs!Complete, StageMap, CompletedMap
  <2> QED
    BY <2>5
<1>16. CASE FailsJob(e, r)
  <2>1. StageMap[e][r] = "failing"
    BY <1>8, <1>16 DEF FailsJob, StageOf
  <2>2. StageMap' = [StageMap EXCEPT ![e][r] = "away"]
    BY <1>3, <1>16 DEF FailsJob, StageOf, Owning
  <2>3. results' = results /\ CompletedMap' = [CompletedMap EXCEPT ![r] = FALSE]
    BY <1>5, <1>7, <1>16 DEF FailsJob
  <2>4. Jobs!Quit(e, r)
    BY <1>1, <2>1, <2>2, <2>3 DEF Jobs!Quit, StageMap, CompletedMap
  <2> QED
    BY <2>4
<1> QED
  BY <1>2, <1>10, <1>11, <1>12, <1>13, <1>14, <1>15, <1>16 DEF ExecuteKinds

\* Leases are outlived, jobs are begun twice.
LEMMA ContestRefines ==
  ASSUME results' = results, contested \subseteq contested',
         contested' \subseteq Requests, task' = task,
         \A d \in Executions, q \in Requests :
           StageOf(exec'[d][q].pc) = StageOf(exec[d][q].pc)
  PROVE  [Jobs!Next]_(Jobs!jobVars)
<1>1. StageMap' = StageMap /\ CompletedMap' = CompletedMap
  BY StageKept, CompletedKept
<1>2. contested' = contested \cup contested'
  OBVIOUS
<1>3. Jobs!Contest(contested')
  BY <1>1, <1>2 DEF Jobs!Contest, StageMap, CompletedMap
<1> QED
  BY <1>3 DEF Jobs!Next

LEMMA NextRefines ==
  ASSUME IInv, [Next]_vars
  PROVE  [Jobs!Next]_(Jobs!jobVars)
<1> USE DEF IInv
<1>1. ASSUME NEW w \in Workers, Crash(w)
      PROVE  [Jobs!Next]_(Jobs!jobVars)
  <2>1. /\ UNCHANGED <<task, results, contested>>
        /\ \A e \in Executions, r \in Requests :
             IF Process(e) = w THEN exec'[e][r].pc = "idle" ELSE exec'[e][r] = exec[e][r]
    BY <1>1, CrashFacts
  <2>2. PICK attempts \in SUBSET Executions :
          attempts = {e \in Executions : Process(e) = w}
    OBVIOUS
  <2>3. StageMap' = [e \in Executions |-> [r \in Requests |-> StageOf(exec'[e][r].pc)]]
    BY DEF StageMap, StageOf
  <2>4. StageOf("idle") = "away"
    BY DEF StageOf, Owning
  <2>5. ASSUME NEW e \in Executions
        PROVE  [r \in Requests |-> StageOf(exec'[e][r].pc)]
                 = [r \in Requests |-> IF e \in attempts THEN "away" ELSE StageMap[e][r]]
    <3>1. ASSUME NEW r \in Requests
          PROVE  StageOf(exec'[e][r].pc) = IF e \in attempts THEN "away" ELSE StageMap[e][r]
      <4>1. CASE e \in attempts
        <5>1. exec'[e][r].pc = "idle"
          BY <2>1, <2>2, <4>1
        <5> QED
          BY <2>4, <4>1, <5>1
      <4>2. CASE e \notin attempts
        <5>1. exec'[e][r] = exec[e][r]
          BY <2>1, <2>2, <4>2
        <5> QED
          BY <4>2, <5>1 DEF StageMap
      <4> QED
        BY <4>1, <4>2
    <3> QED
      BY <3>1
  <2>6. StageMap' = [e \in Executions |-> [r \in Requests |->
                       IF e \in attempts THEN "away" ELSE StageMap[e][r]]]
    BY <2>3, <2>5
  <2>7. UNCHANGED <<results, CompletedMap, contested>>
    BY <2>1 DEF CompletedMap
  <2>8. Jobs!Die(attempts)
    BY <2>6, <2>7 DEF Jobs!Die, StageMap, CompletedMap
  <2> QED
    BY <2>8 DEF Jobs!Next
<1>2. CASE Tick
  BY <1>2, TickFacts, ContestRefines
<1>3. ASSUME NEW w \in Workers, BootRecover(w)
      PROVE  [Jobs!Next]_(Jobs!jobVars)
  <2>1. /\ results' = results /\ task' = task /\ worker[w] = "booting"
        /\ contested \subseteq contested' /\ contested' \subseteq Requests
    BY <1>3, RecoverFacts
  <2>2. \A q \in Requests : exec[ByBoot(w)][q].pc = "idle"
    BY <2>1 DEF FrameInv, Dispatched
  <2>3. \A d \in Executions, q \in Requests :
          \/ exec'[d][q] = exec[d][q]
          \/ d = ByBoot(w) /\ exec'[d][q].pc \in {"idle", "read"}
    BY <1>3, RecoverFacts
  <2>4. \A d \in Executions, q \in Requests :
          StageOf(exec'[d][q].pc) = StageOf(exec[d][q].pc)
    BY <2>2, <2>3 DEF StageOf, Owning
  <2> QED
    BY <2>1, <2>4, ContestRefines
<1>4. ASSUME NEW w \in Workers, NEW r \in Requests, CreateTask(w, r)
      PROVE  [Jobs!Next]_(Jobs!jobVars)
  <2>1. /\ creating[r] = w /\ w # "over" /\ UNCHANGED <<results, contested>>
        /\ \A q \in Requests : q # r => task'[q] = task[q]
    BY <1>4, CreateFacts, ExecutionOf
  <2>2. task[r].status = "none" /\ \A e \in Executions : exec[e][r].pc = "idle"
    BY <2>1 DEF NotCreated, FrameInv, Dispatched
  <2>3. task' = task \/ task'[r].status = "queued"
    BY <1>4, CreateFacts
  <2>4. \A q \in Requests :
          task'[q].status = "completed" <=> task[q].status = "completed"
    BY <2>1, <2>2, <2>3
  <2>5. \A d \in Executions, q \in Requests :
          \/ exec'[d][q] = exec[d][q]
          \/ exec[d][q].pc = "idle" /\ exec'[d][q].pc \in {"idle", "read"}
    BY <1>4, <2>2, CreateFacts
  <2>6. \A d \in Executions, q \in Requests :
          StageOf(exec'[d][q].pc) = StageOf(exec[d][q].pc)
    BY <2>5 DEF StageOf, Owning
  <2> QED
    BY <2>1, <2>4, <2>6, StutterRefines
<1>5. ASSUME NEW w \in Workers, NEW r \in Requests, BootCloseExpired(w, r)
      PROVE  [Jobs!Next]_(Jobs!jobVars)
  <2>1. /\ UNCHANGED <<results, exec, contested>>
        /\ \A q \in Requests :
             \/ task'[q] = task[q]
             \/ task[q].status \in Active /\ task'[q].status = "failed"
    BY <1>5, CloseFacts
  <2>2. \A q \in Requests :
          task'[q].status = "completed" <=> task[q].status = "completed"
    BY <2>1 DEF Active
  <2> QED
    BY <2>1, <2>2, StutterRefines
<1>6. ASSUME UNCHANGED <<task, results, exec, contested>>
      PROVE  [Jobs!Next]_(Jobs!jobVars)
  BY <1>6, StutterRefines
<1>7. ASSUME NEW w \in Workers, BootSelectExpired(w)
      PROVE  [Jobs!Next]_(Jobs!jobVars)
  BY <1>6, <1>7, SelectFacts
<1>8. ASSUME NEW w \in Workers, NEW r \in Requests, CheckKey(w, r)
      PROVE  [Jobs!Next]_(Jobs!jobVars)
  BY <1>6, <1>8, CheckFacts
<1>9. CASE UNCHANGED vars
  BY <1>6, <1>9 DEF vars
<1> QED
  BY <1>1, <1>2, <1>3, <1>4, <1>5, <1>7, <1>8, <1>9, ExecuteRefines DEF Next, Boot

LEMMA InitRefines == Init => Jobs!Init
<1> SUFFICES ASSUME Init PROVE Jobs!Init
  OBVIOUS
<1>1. \A e \in Executions, r \in Requests : StageOf(exec[e][r].pc) = "away"
  BY Start DEF StageOf, Owning
<1>2. \A r \in Requests : task[r].status = "none"
  BY Start
<1> QED
  BY <1>1, <1>2 DEF Init, Jobs!Init

\* The job table keeps the promise of ExclusiveJobs: as long as the lease decides
\* about a job, one attempt at a time, one delivery in an attempt, completion only
\* by the attempt that has delivered, and no attempt after it.
THEOREM JobsImplementExclusiveJobs == Spec => ImplementsExclusiveJobs
<1>1. IInv /\ [Next]_vars => [Jobs!Next]_(Jobs!jobVars)
  BY NextRefines
<1> QED
  BY <1>1, InitRefines, IInvInductive, PTL
  DEF Spec, ImplementsExclusiveJobs, Jobs!Spec
=============================================================================
