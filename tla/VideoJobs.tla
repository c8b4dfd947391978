------------------------------ MODULE VideoJobs ------------------------------
(***************************************************************************)
(* Video generation: POST /video/generate, executeVideoJobReconciliation    *)
(* and the two recovery passes of a server start, over the task rows that   *)
(* every server process shares through Supabase (routes/video.ts and        *)
(* SupabaseDepartmentWorkStore).                                            *)
(*                                                                         *)
(* A worker is one life of a server process: its id is drawn at start, so a *)
(* restart is another worker.  A request creates at most one task, so a     *)
(* task is named by its request.  Everything between two awaits that touch  *)
(* the shared rows is one action.                                           *)
(*                                                                         *)
(* A process may execute one task twice: dispatched by the POST that        *)
(* created it and by the recovery of the start, which is not awaited before *)
(* requests are served.  Every store call may be refused, or be applied     *)
(* with its answer lost; the renderer takes as long as it likes.            *)
(***************************************************************************)
EXTENDS Integers, FiniteSets

CONSTANTS Workers,      \* server processes, each started at most once
          Requests,     \* POST requests (and the tasks they create)
          Keys,         \* idempotency keys
          LeaseTime,    \* the five-minute lease
          TimeoutTime,  \* task.timeoutMs, five minutes as well
          MaxNow,       \* bound: the clock
          MaxCrashes,   \* bound: processes that die
          MaxAbandoned  \* bound: executions of a task that a store error ends

ASSUME VideoAssumption ==
  /\ LeaseTime \in Nat \ {0}
  /\ TimeoutTime \in Nat
  /\ MaxNow \in Nat
  /\ MaxCrashes \in Nat
  /\ MaxAbandoned \in Nat
  /\ IsFiniteSet(Workers)
  /\ {"none", "over"} \cap Workers = {}

VARIABLES
  now,        \* the clock all processes read
  worker,     \* worker[w]: life of the process
  expired,    \* expired[w]: task ids recoverExpiredTasks has still to close
  creating,   \* creating[r]: the worker about to insert the task of r, or None
  task,       \* task[r]: the row in department_tasks
  results,    \* results[r]: rows of department_results for the task
  exec,       \* exec[e][r]: executeVideoJobReconciliation(r) in execution e
  abandoned,  \* abandoned[r]: executions a store error ended, row left as it was
  contested   \* tasks whose lease was outlived, or that a process began twice

vars == <<now, worker, expired, creating, task, results, exec, abandoned, contested>>

\* The last two record history: no action reads them.
history == <<abandoned, contested>>

None == "none"

Active == {"queued", "running"}
Terminal == {"completed", "failed"}

\* An execution of a task is named by its process and by who dispatched it.
Executions == Workers \X {"request", "boot"}
ByRequest(w) == <<w, "request">>
ByBoot(w) == <<w, "boot">>
Process(e) == e[1]

\* Suspension points of executeVideoJobReconciliation.
Owning == {"reread", "render", "upload", "result", "finish", "failing"}
Locations == {"idle", "read", "claim"} \cup Owning

Times == 0 .. MaxNow
Leases == {-1} \cup 0 .. MaxNow + LeaseTime      \* -1 stands for null

\* The columns of a row that the control reads: source.leaseExpiresAt and
\* source.artifact / driveFileId are parts of the one "source" column.
Rows == [status : {"none"} \cup Active \cup Terminal,
         key : Keys, created : Times, started : Times \cup {-1},
         assigned : Workers \cup {None}, lease : Leases,
         artifact : BOOLEAN]

\* What a suspended execution remembers: the clock, startedAt and the artifact
\* from the first read to the claim, the lease from the reread to the end.
Frames == [pc : Locations, at : Times, started : Times \cup {-1},
           lease : Leases, artifact : BOOLEAN]

IdleFrame == [pc |-> "idle", at |-> 0, started |-> -1, lease |-> -1,
              artifact |-> FALSE]
FrameAt(location) == [IdleFrame EXCEPT !.pc = location]

TypeOK ==
  /\ now \in Times
  /\ worker \in [Workers -> {"off", "booting", "up", "dead"}]
  /\ expired \in [Workers -> SUBSET Requests]
  /\ creating \in [Requests -> Workers \cup {None, "over"}]
  /\ task \in [Requests -> Rows]
  /\ results \in [Requests -> Nat]
  /\ exec \in [Executions -> [Requests -> Frames]]
  /\ abandoned \in [Requests -> Nat]
  /\ contested \subseteq Requests

Init ==
  /\ now = 0
  /\ worker = [w \in Workers |-> "off"]
  /\ expired = [w \in Workers |-> {}]
  /\ creating = [r \in Requests |-> None]
  /\ \E key \in [Requests -> Keys] :
       task = [r \in Requests |->
                [status |-> "none", key |-> key[r], created |-> 0,
                 started |-> -1, assigned |-> None, lease |-> -1,
                 artifact |-> FALSE]]
  /\ results = [r \in Requests |-> 0]
  /\ exec = [e \in Executions |-> [r \in Requests |-> IdleFrame]]
  /\ abandoned = [r \in Requests |-> 0]
  /\ contested = {}

-----------------------------------------------------------------------------
(* Shorthands *)

At(e, r, location) == exec[e][r].pc = location

Suspend(e, r, frame) ==
  /\ exec' = [exec EXCEPT ![e][r] = frame]
  /\ UNCHANGED abandoned

Goto(e, r, location) == Suspend(e, r, [exec[e][r] EXCEPT !.pc = location])

\* The frame is forgotten when the function returns.
Return(e, r) == Suspend(e, r, IdleFrame)

\* A store error ends the execution and leaves the row to nobody.  Where the
\* error is not caught either (the first getTask, the update in the catch
\* block), the rejection has no handler and Crash may follow.
Abandon(e, r) ==
  /\ abandoned[r] < MaxAbandoned
  /\ exec' = [exec EXCEPT ![e][r] = IdleFrame]
  /\ abandoned' = [abandoned EXCEPT ![r] = @ + 1]

\* updateTask writes the patched columns and looks at nothing.
SetStatus(r, newStatus) == task' = [task EXCEPT ![r].status = newStatus]

\* A progress update that throws may have been applied.
MaybeRunning(r) == UNCHANGED task \/ SetStatus(r, "running")

\* Executions that have claimed the task.
Owns(e, r) == exec[e][r].pc \in Owning

\* The catch block is next.
Stumble(e, r) == Suspend(e, r, FrameAt("failing"))

\* The server listens once the expired tasks are closed, and does not wait for
\* the recovery it has begun.
Serves(w) == worker[w] \in {"booting", "up"} /\ expired[w] = {}

-----------------------------------------------------------------------------
(* POST /video/generate *)

\* Idempotency check: a task with the same key is returned as it is, otherwise
\* the handler goes on to insert one; the listing may throw.
CheckKey(w, r) ==
  /\ Serves(w)
  /\ creating[r] = None
  /\ \/ creating' = [creating EXCEPT ![r] = "over"]
     \/ /\ \A q \in Requests : task[q].status # "none" => task[q].key # task[r].key
        /\ creating' = [creating EXCEPT ![r] = w]
  /\ UNCHANGED <<now, worker, expired, task, results, exec, history>>

\* createTask, then the execution is dispatched in the same process.  It may
\* throw without inserting, or the row is there and nobody dispatches it.
CreateTask(w, r) ==
  /\ Serves(w)
  /\ creating[r] = w
  /\ creating' = [creating EXCEPT ![r] = "over"]
  /\ \/ UNCHANGED <<task, exec, abandoned>>
     \/ /\ task' = [task EXCEPT ![r].status = "queued", ![r].created = now]
        /\ Suspend(ByRequest(w), r, FrameAt("read")) \/ Abandon(ByRequest(w), r)
  /\ UNCHANGED <<now, worker, expired, results, contested>>

-----------------------------------------------------------------------------
(* executeVideoJobReconciliation *)

LeasedByOther(e, r) ==
  /\ task[r].assigned \notin {None, Process(e)}
  /\ task[r].lease > now

RowRead(r) == [pc |-> "claim", at |-> now, started |-> task[r].started,
               lease |-> -1, artifact |-> task[r].artifact]

\* Mutant of ReadTask: the status is not looked at.
ReadTaskAnyStatus(e, r) ==
  /\ At(e, r, "read")
  /\ IF LeasedByOther(e, r)
       THEN Return(e, r)
       ELSE Suspend(e, r, RowRead(r)) \/ Abandon(e, r)
  /\ UNCHANGED <<now, worker, expired, creating, task, results, contested>>

\* getTask: return when terminal or leased by another worker, else remember
\* what was read.  It may throw, outside the try.
ReadTask(e, r) ==
  /\ At(e, r, "read")
  /\ IF task[r].status \in Terminal \/ LeasedByOther(e, r)
       THEN Return(e, r)
       ELSE Suspend(e, r, RowRead(r)) \/ Abandon(e, r)
  /\ UNCHANGED <<now, worker, expired, creating, task, results, contested>>

\* Mutant of MayClaim: the update has no condition but the id.
MayClaimAlways(e, r) == TRUE

\* The condition of the claiming update: unassigned, mine, or the lease was
\* over when the task was read.  It does not ask for the status.
MayClaim(e, r) ==
  \/ task[r].assigned \in {None, Process(e)}
  \/ task[r].lease # -1 /\ task[r].lease < exec[e][r].at

\* The source that was read is written back with a new lease.
WriteClaim(e, r) ==
  LET f == exec[e][r] IN
    task' = [task EXCEPT
              ![r].status = "running",
              ![r].started = IF f.started = -1 THEN f.at ELSE f.started,
              ![r].assigned = Process(e),
              ![r].lease = f.at + LeaseTime,
              ![r].artifact = f.artifact]

\* The conditional update: refused, applied, or an error, after which the
\* function returns as if it had been refused, applied or not.
Claim(e, r) ==
  /\ At(e, r, "claim")
  /\ IF MayClaim(e, r)
       THEN \/ WriteClaim(e, r) /\ Suspend(e, r, FrameAt("reread"))
            \/ (WriteClaim(e, r) \/ UNCHANGED task) /\ Abandon(e, r)
       ELSE Return(e, r) /\ UNCHANGED task
  /\ UNCHANGED <<now, worker, expired, creating, results, contested>>

\* getTask again (its error is only logged: the claimed row stays) and the
\* credentials: they may be missing (failing), the upload may be there from an
\* earlier attempt (result), or rendering starts.
Reread(e, r) ==
  /\ At(e, r, "reread")
  /\ \/ Abandon(e, r) \/ Stumble(e, r)
     \/ Suspend(e, r, [FrameAt(IF task[r].artifact THEN "result" ELSE "render")
                      EXCEPT !.lease = task[r].lease])
  /\ UNCHANGED <<now, worker, expired, creating, task, results, contested>>

\* updateTask(running, 40%), then the render call is in flight.
StartRender(e, r) ==
  /\ At(e, r, "render")
  /\ \/ SetStatus(r, "running") /\ Goto(e, r, "upload")
     \/ MaybeRunning(r) /\ Stumble(e, r)
  /\ UNCHANGED <<now, worker, expired, creating, results, contested>>

\* Mutant of RenderAnswered: the task is completed without a result.
RenderSkipsResult(e, r) ==
  /\ At(e, r, "upload")
  /\ \/ SetStatus(r, "running") /\ Goto(e, r, "finish")
     \/ MaybeRunning(r) /\ Stumble(e, r)
  /\ UNCHANGED <<now, worker, expired, creating, results, contested>>

\* The render call answers: an error, or the video (updates at 70% and 85%).
\* The Drive calls that follow may fail before createResult, as it may itself.
RenderAnswered(e, r) ==
  /\ At(e, r, "upload")
  /\ \/ SetStatus(r, "running") /\ Goto(e, r, "result")
     \/ MaybeRunning(r) /\ Stumble(e, r)
  /\ UNCHANGED <<now, worker, expired, creating, results, contested>>

\* A Drive call fails, or createResult inserts a row, or it throws, with the
\* row inserted or not.
SaveResult(e, r) ==
  /\ At(e, r, "result")
  /\ \/ Stumble(e, r) /\ UNCHANGED results
     \/ /\ results' = [results EXCEPT ![r] = @ + 1]
        /\ Goto(e, r, "finish") \/ Stumble(e, r)
  /\ UNCHANGED <<now, worker, expired, creating, task, contested>>

\* updateTask(completed) with the source that was reread; or it throws, and
\* the catch block does not know whether the task is completed.
Finish(e, r) ==
  /\ At(e, r, "finish")
  /\ \/ Stumble(e, r) /\ UNCHANGED task
     \/ /\ task' = [task EXCEPT ![r].status = "completed",
                                ![r].lease = exec[e][r].lease,
                                ![r].artifact = TRUE]
        /\ Return(e, r) \/ Stumble(e, r)
  /\ UNCHANGED <<now, worker, expired, creating, results, contested>>

\* Mutants of Fail: an unknown status; the error is only logged.
FailMisspelt(e, r) ==
  /\ At(e, r, "failing")
  /\ \/ SetStatus(r, "error") /\ Return(e, r)
     \/ UNCHANGED task /\ Abandon(e, r)
  /\ UNCHANGED <<now, worker, expired, creating, results, contested>>

FailSilently(e, r) ==
  /\ At(e, r, "failing")
  /\ Return(e, r)
  /\ UNCHANGED <<now, worker, expired, creating, task, results, contested>>

\* The catch block: updateTask(failed), or that throws as well.
Fail(e, r) ==
  /\ At(e, r, "failing")
  /\ \/ SetStatus(r, "failed") /\ Return(e, r)
     \/ UNCHANGED task /\ Abandon(e, r)
  /\ UNCHANGED <<now, worker, expired, creating, results, contested>>

Execute(e, r) ==
  \/ ReadTask(e, r) \/ Claim(e, r) \/ Reread(e, r)
  \/ StartRender(e, r) \/ RenderAnswered(e, r) \/ SaveResult(e, r)
  \/ Finish(e, r) \/ Fail(e, r)

-----------------------------------------------------------------------------
(* Start and end of a process *)

StartOf(r) == IF task[r].started = -1 THEN task[r].created ELSE task[r].started

TimedOut == {r \in Requests : task[r].status \in Active /\ now - StartOf(r) > TimeoutTime}

\* recoverExpiredTasks, first part: select the active tasks past their timeout.
\* An error is logged, and the start goes on.
BootSelectExpired(w) ==
  /\ worker[w] = "off"
  /\ worker' = [worker EXCEPT ![w] = "booting"]
  /\ \E found \in {TimedOut, {}} : expired' = [expired EXCEPT ![w] = found]
  /\ UNCHANGED <<now, creating, task, results, exec, history>>

\* Second part: close them one by one, if they are still active.  The first
\* error, its update applied or not, ends the pass.
BootCloseExpired(w, r) ==
  /\ worker[w] = "booting"
  /\ r \in expired[w]
  /\ \/ /\ IF task[r].status \in Active THEN SetStatus(r, "failed") ELSE UNCHANGED task
        /\ \E left \in {expired[w] \ {r}, {}} : expired' = [expired EXCEPT ![w] = left]
     \/ UNCHANGED task /\ expired' = [expired EXCEPT ![w] = {}]
  /\ UNCHANGED <<now, worker, creating, results, exec, history>>

\* recoverAllActiveVideoJobsOnBoot: its select fails and nothing happens, or
\* every active task is dispatched.  buildServer does not wait for it: this
\* process may have created some of them meanwhile and execute them already.
BootRecover(w) ==
  /\ worker[w] = "booting"
  /\ expired[w] = {}
  /\ worker' = [worker EXCEPT ![w] = "up"]
  /\ \/ UNCHANGED <<exec, contested>>
     \/ LET found == {r \in Requests : task[r].status \in Active} IN
          /\ exec' = [exec EXCEPT ![ByBoot(w)] =
               [r \in Requests |-> IF r \in found THEN FrameAt("read") ELSE IdleFrame]]
          /\ contested' = contested \cup {r \in found : ~At(ByRequest(w), r, "idle")}
  /\ UNCHANGED <<now, expired, creating, task, results, abandoned>>

Boot(w) ==
  \/ BootSelectExpired(w) \/ BootRecover(w)
  \/ \E r \in Requests : BootCloseExpired(w, r)

Dead == {w \in Workers : worker[w] = "dead"}

\* A crash, a deploy, or a rejection nobody handles: whatever the process had
\* in memory is gone.
Crash(w) ==
  /\ worker[w] \in {"booting", "up"}
  /\ Cardinality(Dead) < MaxCrashes
  /\ worker' = [worker EXCEPT ![w] = "dead"]
  /\ expired' = [expired EXCEPT ![w] = {}]
  /\ creating' = [r \in Requests |-> IF creating[r] = w THEN "over" ELSE creating[r]]
  /\ exec' = [e \in Executions |->
                IF Process(e) = w THEN [r \in Requests |-> IdleFrame] ELSE exec[e]]
  /\ UNCHANGED <<now, task, results, history>>

\* Nobody renews a lease, and nothing bounds the time an execution takes.
Tick ==
  /\ now < MaxNow
  /\ now' = now + 1
  /\ contested' = contested \cup
       {r \in Requests : \E e \in Executions :
          \/ At(e, r, "claim") /\ exec[e][r].at + LeaseTime < now'
          \/ Owns(e, r) /\ task[r].lease < now'}
  /\ UNCHANGED <<worker, expired, creating, task, results, exec, abandoned>>

-----------------------------------------------------------------------------
Next ==
  \/ Tick
  \/ \E w \in Workers : Boot(w) \/ Crash(w)
  \/ \E w \in Workers, r \in Requests : CheckKey(w, r) \/ CreateTask(w, r)
  \/ \E e \in Executions, r \in Requests : Execute(e, r)

Spec == Init /\ [][Next]_vars

\* The event loop of a live process goes on while it executes a task.  Nothing is
\* asked of the clock, of requests or of process starts.
Fairness ==
  \A w \in Workers :
    WF_vars(\E r \in Requests : Execute(ByRequest(w), r) \/ Execute(ByBoot(w), r))

FairSpec == Spec /\ Fairness

-----------------------------------------------------------------------------
(* Properties *)

\* A task is executed once at a time, unless its lease was outlived or its
\* process began it twice: the conditional update admits a second execution
\* only after the first one's lease.
OneOwner ==
  \A r \in Requests \ contested, e, f \in Executions : Owns(e, r) /\ Owns(f, r) => e = f

\* An owner's unexpired claim is what the row says, so that readers see it.
ClaimIsVisible ==
  \A r \in Requests \ contested, e \in Executions :
    Owns(e, r) => task[r].assigned = Process(e) /\ now <= task[r].lease

\* What the portal shows as completed has a result row and an artifact.
CompletedHasResult ==
  \A r \in Requests :
    task[r].status = "completed" =>
      results[r] > 0 /\ task[r].artifact

\* A video is delivered again only because a process died or a store error
\* ended an execution before the row was closed, one delivery for each of them
\* at most, or because the lease was outlived or the job begun twice.
DuplicatesHaveACause ==
  \A r \in Requests \ contested :
    results[r] <= 1 + Cardinality(Dead) + abandoned[r]

\* A completed task that the lease still decides about is taken back by nobody
\* but the execution that completed it and did not hear of it.
CompletedIsFinal ==
  [][\A r \in Requests \ contested :
       task[r].status = "completed" =>
         \/ task'[r].status = "completed"
         \/ /\ task'[r].status = "failed"
            /\ \E e \in Executions : At(e, r, "failing")]_vars

\* How far an execution is, seen from outside: it has inserted its result, it
\* is about to report a failure, or it is still at work.
StageOf(pc) ==
  IF pc = "finish" THEN "delivered"
  ELSE IF pc = "failing" THEN "failing"
  ELSE IF pc \in Owning THEN "working" ELSE "away"

Jobs == INSTANCE ExclusiveJobs
  WITH Attempts <- Executions,
       stage <- [e \in Executions |-> [r \in Requests |-> StageOf(exec[e][r].pc)]],
       delivered <- results,
       completed <- [r \in Requests |-> task[r].status = "completed"]

\* With leases, stale reads, an update that asks for no status, and store calls
\* that fail or lose their answer, the table keeps the promise of ExclusiveJobs.
ImplementsExclusiveJobs == Jobs!Spec

\* A task that is not over has somebody who attends to it, unless a process has
\* died or a store error has ended an execution: no reader, claimer or owner
\* turns away from it by itself and leaves it behind, whether executions end
\* within their lease or not.
ActiveIsAttended ==
  \A r \in Requests :
    Dead = {} /\ abandoned[r] = 0 =>
      /\ task[r].status = "queued" =>
           \E e \in Executions : exec[e][r].pc \in {"read", "claim"}
      /\ task[r].status = "running" => \E e \in Executions : Owns(e, r)

\* A created task becomes terminal, unless a process dies or a store error ends
\* one of its executions.
EveryJobSettles ==
  \A r \in Requests :
    task[r].status \in Active ~>
      task[r].status \in Terminal \/ Dead # {} \/ abandoned[r] > 0
=============================================================================
