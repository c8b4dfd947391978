--------------------------- MODULE DepartmentWork ---------------------------
(***************************************************************************)
(* DepartmentWorkExecutor.run over the durable work store, for one           *)
(* organisation (department-work-executor.ts, supabase-department-work-      *)
(* store.ts), with the recovery pass of a server that starts meanwhile       *)
(* (main.ts).                                                               *)
(*                                                                         *)
(* Every call of the store is a request to Supabase.  It may fail, and an    *)
(* update or insert may have been applied although its answer was lost.      *)
(* Between two such calls the executor runs undisturbed.                    *)
(***************************************************************************)
EXTENDS Integers, FiniteSets

CONSTANTS Calls,        \* calls of run(), each with its task
          Cap,          \* MAX_ACTIVE_DASHBOARDS
          Parallel,     \* bound: calls in progress at a time
          TimeoutTime,  \* task.timeoutMs
          MaxNow,       \* bound: the clock
          MaxCrashes,   \* bound: calls whose process dies
          MaxBoots      \* bound: server starts

ASSUME WorkAssumption ==
  /\ IsFiniteSet(Calls)
  /\ Cap \in Nat \ {0} /\ Parallel \in Nat \ {0}
  /\ TimeoutTime \in Nat /\ MaxNow \in Nat
  /\ MaxCrashes \in Nat /\ MaxBoots \in Nat

VARIABLES
  now,       \* the clock
  pc,        \* pc[c]: where the call is suspended, or how it ended
  task,      \* task[c]: its row in department_tasks
  results,   \* the calls that have a row, with a chart, in department_results
  boots,     \* server starts so far
  closing    \* tasks the recovery of the last start has still to close

vars == <<now, pc, task, results, boots, closing>>

Progressing == {"refuse", "create", "execute", "result", "complete", "failing"}
Ends == {"delivered", "apologised", "threw", "gone"}
Active == {"queued", "running"}
Statuses == {"none", "completed", "failed"} \cup Active

TypeOK ==
  /\ now \in 0 .. MaxNow
  /\ pc \in [Calls -> {"idle"} \cup Progressing \cup Ends]
  /\ task \in [Calls -> [status : Statuses, started : 0 .. MaxNow, linked : BOOLEAN,
                         error : {"none", "refused", "failed", "TASK_TIMEOUT"}]]
  /\ results \subseteq Calls
  /\ boots \in 0 .. MaxBoots
  /\ closing \subseteq Calls

Init ==
  /\ now = 0
  /\ pc = [c \in Calls |-> "idle"]
  /\ task = [c \in Calls |-> [status |-> "none", started |-> 0, linked |-> FALSE,
                              error |-> "none"]]
  /\ results = {}
  /\ boots = 0
  /\ closing = {}

-----------------------------------------------------------------------------
Running == {c \in Calls : pc[c] \in Progressing}

Goto(c, place) == pc' = [pc EXCEPT ![c] = place]

\* Mutant of MayStart: off by one.
MayStartAtCap == Cardinality(results) <= Cap

\* The count of results with a chart, against MAX_ACTIVE_DASHBOARDS.
MayStart == Cardinality(results) < Cap

\* The capacity check; then, without another await, the capability and the
\* credentials, which may be missing.
CheckCapacity(c) ==
  /\ pc[c] = "idle"
  /\ Cardinality(Running) < Parallel
  /\ \/ Goto(c, "refuse")
     \/ MayStart /\ Goto(c, "create")
     \/ Goto(c, "threw")
  /\ UNCHANGED <<now, task, results, boots, closing>>

\* fail(): a task that is failed from the start, and the apology.
Refuse(c) ==
  /\ pc[c] = "refuse"
  /\ \/ /\ task' = [task EXCEPT ![c] = [status |-> "failed", started |-> now,
                                        linked |-> FALSE, error |-> "refused"]]
        /\ Goto(c, "apologised") \/ Goto(c, "threw")
     \/ task' = task /\ Goto(c, "threw")
  /\ UNCHANGED <<now, results, boots, closing>>

\* createTask(running); outside of the try block.
CreateTask(c) ==
  /\ pc[c] = "create"
  /\ \/ /\ task' = [task EXCEPT ![c] = [status |-> "running", started |-> now,
                                        linked |-> FALSE, error |-> "none"]]
        /\ Goto(c, "execute") \/ Goto(c, "threw")
     \/ task' = task /\ Goto(c, "threw")
  /\ UNCHANGED <<now, results, boots, closing>>

\* The provider answers, or the capability has no executor.
Execute(c) ==
  /\ pc[c] = "execute"
  /\ Goto(c, "result") \/ Goto(c, "failing")
  /\ UNCHANGED <<now, task, results, boots, closing>>

\* Mutant of SaveResult: an error of the insert is taken for success.
SaveResultUnchecked(c) ==
  /\ pc[c] = "result"
  /\ \/ results' = results \cup {c} /\ Goto(c, "complete")
     \/ results' = results /\ Goto(c, "complete")
  /\ UNCHANGED <<now, task, boots, closing>>

\* createResult.
SaveResult(c) ==
  /\ pc[c] = "result"
  /\ \/ results' = results \cup {c} /\ (Goto(c, "complete") \/ Goto(c, "failing"))
     \/ results' = results /\ Goto(c, "failing")
  /\ UNCHANGED <<now, task, boots, closing>>

\* Mutant of Complete: an unknown status.
CompleteMisspelt(c) ==
  /\ pc[c] = "complete"
  /\ task' = [task EXCEPT ![c].status = "done", ![c].linked = TRUE]
  /\ Goto(c, "delivered")
  /\ UNCHANGED <<now, results, boots, closing>>

\* updateTask(completed, resultId); then the activity and the message, which
\* in this wiring cannot fail.
Complete(c) ==
  /\ pc[c] = "complete"
  /\ \/ /\ task' = [task EXCEPT ![c].status = "completed", ![c].linked = TRUE]
        /\ Goto(c, "delivered") \/ Goto(c, "failing")
     \/ task' = task /\ Goto(c, "failing")
  /\ UNCHANGED <<now, results, boots, closing>>

\* Mutant of FailTask: the catch block only apologises.
FailTaskInWords(c) ==
  /\ pc[c] = "failing"
  /\ Goto(c, "apologised")
  /\ UNCHANGED <<now, task, results, boots, closing>>

\* failTask: updateTask(failed), which leaves the link to a result alone, and
\* the apology.
FailTask(c) ==
  /\ pc[c] = "failing"
  /\ \/ /\ task' = [task EXCEPT ![c].status = "failed", ![c].error = "failed"]
        /\ Goto(c, "apologised") \/ Goto(c, "threw")
     \/ task' = task /\ Goto(c, "threw")
  /\ UNCHANGED <<now, results, boots, closing>>

Step(c) ==
  \/ Refuse(c) \/ CreateTask(c) \/ Execute(c)
  \/ SaveResult(c) \/ Complete(c) \/ FailTask(c)

-----------------------------------------------------------------------------
(* Restarts *)

\* recoverExpiredTasks: select the active tasks past their deadline.
Boot ==
  /\ boots < MaxBoots
  /\ closing = {}
  /\ boots' = boots + 1
  /\ closing' = {c \in Calls : /\ task[c].status \in Active
                               /\ now - task[c].started > TimeoutTime}
  /\ UNCHANGED <<now, pc, task, results>>

\* Mutant of CloseExpired: the update does not repeat the status condition.
CloseExpiredAlways(c) ==
  /\ c \in closing
  /\ closing' = closing \ {c}
  /\ task' = [task EXCEPT ![c].status = "failed", ![c].error = "TASK_TIMEOUT"]
  /\ UNCHANGED <<now, pc, results, boots>>

\* Close them one by one, if they are still active; an error ends the pass.
CloseExpired(c) ==
  /\ c \in closing
  /\ \/ /\ closing' = closing \ {c}
        /\ task' = IF task[c].status \in Active
                     THEN [task EXCEPT ![c].status = "failed", ![c].error = "TASK_TIMEOUT"]
                     ELSE task
     \/ closing' = {} /\ task' = task
  /\ UNCHANGED <<now, pc, results, boots>>

\* The process of a call dies.
Crash(c) ==
  /\ pc[c] \in Progressing
  /\ Cardinality({d \in Calls : pc[d] = "gone"}) < MaxCrashes
  /\ Goto(c, "gone")
  /\ UNCHANGED <<now, task, results, boots, closing>>

Tick ==
  /\ now < MaxNow
  /\ now' = now + 1
  /\ UNCHANGED <<pc, task, results, boots, closing>>

-----------------------------------------------------------------------------
Next ==
  \/ Tick \/ Boot
  \/ \E c \in Calls : CheckCapacity(c) \/ Step(c) \/ CloseExpired(c) \/ Crash(c)

Spec == Init /\ [][Next]_vars

\* A call goes on with what it has begun: every request ends in an answer or an
\* error.
FairSpec == Spec /\ \A c \in Calls : WF_vars(Step(c))

-----------------------------------------------------------------------------
(* Properties *)

\* A task that the portal shows as completed links to a result that exists.
CompletedHasResult ==
  \A c \in Calls : task[c].status = "completed" => task[c].linked /\ c \in results

\* The conversation is told the truth, also when a server start closes expired
\* tasks meanwhile: what was delivered stays completed, and after an apology
\* the task is failed.
ToldTheTruth ==
  \A c \in Calls :
    /\ pc[c] = "delivered" => task[c].status = "completed"
    /\ pc[c] = "apologised" => task[c].status = "failed"

\* The check of the capacity and the insert are separate, yet the overshoot is
\* bounded: each result above the cap needs one more call running beside the
\* others, and none when calls do not overlap.
OvershootBounded == Cardinality(results) <= Cap - 1 + Parallel

\* A task that the portal shows as running has a call that still works on it,
\* or that threw or died: no answered call leaves one behind, so that the
\* recovery of a server start has nothing else to look for.
RunningIsAccounted ==
  \A c \in Calls : task[c].status = "running" =>
    pc[c] \in {"execute", "result", "complete", "failing", "threw", "gone"}

\* The recovery selects first and closes later; what it closes is nevertheless
\* active and past its deadline at that moment (the update repeats the status
\* condition), so that it never takes back what a slow call has delivered.
RecoveryIsLate ==
  [][\A c \in Calls :
       task'[c].error = "TASK_TIMEOUT" /\ task[c].error # "TASK_TIMEOUT"
       => task[c].status \in Active /\ now - task[c].started > TimeoutTime]_vars

\* A completed task is taken back only by its own call, which then says so.
CompletedIsRevokedAloud ==
  [][\A c \in Calls :
       task[c].status = "completed" /\ task'[c].status # "completed"
       => pc[c] = "failing" /\ pc'[c] \in {"apologised", "threw"}]_vars

\* Only a crash or a store that fails in the catch block leaves a task running.
EveryTaskSettles ==
  \A c \in Calls :
    task[c].status = "running" ~> task[c].status # "running" \/ pc[c] \in {"threw", "gone"}
=============================================================================
