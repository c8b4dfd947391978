------------------------ MODULE DepartmentWorkProofs ------------------------
(***************************************************************************)
(* Proofs about DepartmentWork, for any number of calls and any bounds.     *)
(*                                                                         *)
(* The bound on the overshoot is not inductive by itself: a result above    *)
(* the cap is inserted long after the check that let its call through.      *)
(* What every step preserves is a bound on Reserved, the results together   *)
(* with the calls that passed the check and may still insert one: a call    *)
(* joins it only while the results are below the cap, and then at most       *)
(* Parallel calls, itself included, are in progress.                        *)
(***************************************************************************)
EXTENDS DepartmentWork, FiniteSetTheorems, TLAPS

\* Calls that passed the capacity check and may still insert a result.
Admitted == {c \in Calls : pc[c] \in {"create", "execute", "result"}}

Reserved == results \cup Admitted

Overlap == Cardinality(Running) <= Parallel
Reservation == Cardinality(Reserved) <= Cap - 1 + Parallel

\* The completing update is reached only after the insert of the result.
ResultFirst == \A c \in Calls : pc[c] = "complete" => c \in results

IInv ==
  /\ TypeOK
  /\ ResultFirst /\ CompletedHasResult /\ ToldTheTruth
  /\ Overlap /\ Reservation

-----------------------------------------------------------------------------
(* Sets of calls are finite *)

LEMMA CallSets ==
  ASSUME NEW S, S \subseteq Calls
  PROVE  IsFiniteSet(S) /\ Cardinality(S) \in Nat
BY WorkAssumption, FS_Subset, FS_CardinalityType

LEMMA FewerCalls ==
  ASSUME NEW S, S \subseteq Calls, NEW T, T \subseteq S
  PROVE  Cardinality(T) <= Cardinality(S)
BY CallSets, FS_Subset

LEMMA JoinedCalls ==
  ASSUME NEW S, S \subseteq Calls, NEW T, T \subseteq Calls
  PROVE  Cardinality(S \cup T) <= Cardinality(S) + Cardinality(T)
<1>1. /\ IsFiniteSet(S) /\ IsFiniteSet(T)
      /\ Cardinality(S \cap T) \in Nat
      /\ Cardinality(S) \in Nat /\ Cardinality(T) \in Nat
  BY CallSets
<1>2. Cardinality(S \cup T) = Cardinality(S) + Cardinality(T) - Cardinality(S \cap T)
  BY <1>1, FS_Union, Zenon
<1> QED
  BY <1>1, <1>2

-----------------------------------------------------------------------------
(* Initial states *)

LEMMA InitIInv == Init => IInv
<1> SUFFICES ASSUME Init PROVE IInv
  OBVIOUS
<1> USE WorkAssumption
<1>1. TypeOK
  BY DEF Init, TypeOK, Statuses
<1>2. ResultFirst /\ CompletedHasResult /\ ToldTheTruth
  BY DEF Init, ResultFirst, CompletedHasResult, ToldTheTruth
<1>3. Running = {} /\ Reserved = {}
  BY DEF Init, Running, Reserved, Admitted, Progressing
<1>4. Overlap /\ Reservation
  BY <1>3, FS_EmptySet DEF Overlap, Reservation
<1> QED
  BY <1>1, <1>2, <1>4 DEF IInv

-----------------------------------------------------------------------------
(* Steps *)

\* The values of a row, as TypeOK lists them.
Rows == [status : Statuses, started : 0 .. MaxNow, linked : BOOLEAN,
         error : {"none", "refused", "failed", "TASK_TIMEOUT"}]

LEMMA RowsAreTyped == TypeOK => task \in [Calls -> Rows]
BY DEF TypeOK, Rows

\* The two literal rows that are inserted.
LEMMA InsertedRows ==
  ASSUME TypeOK
  PROVE  /\ [status |-> "failed", started |-> now, linked |-> FALSE,
             error |-> "refused"] \in Rows
         /\ [status |-> "running", started |-> now, linked |-> FALSE,
             error |-> "none"] \in Rows
BY DEF TypeOK, Rows, Statuses, Active

LEMMA TypeStep ==
  ASSUME TypeOK, [Next]_vars
  PROVE  TypeOK'
<1> USE WorkAssumption DEF TypeOK, Goto, Statuses, Progressing, Ends, Active
<1>1. ASSUME NEW c \in Calls, CheckCapacity(c)
      PROVE  TypeOK'
  BY <1>1 DEF CheckCapacity
<1>2. ASSUME NEW c \in Calls, NEW row \in Rows, NEW place,
             place \in {"apologised", "threw", "execute"},
             task' = [task EXCEPT ![c] = row] \/ task' = task,
             Goto(c, place), UNCHANGED <<now, results, boots, closing>>
      PROVE  TypeOK'
  <2>1. task' \in [Calls -> Rows]
    BY <1>2, RowsAreTyped
  <2>2. pc' \in [Calls -> {"idle"} \cup Progressing \cup Ends]
    BY <1>2
  <2> QED
    BY <1>2, <2>1, <2>2 DEF Rows
<1>3. ASSUME NEW c \in Calls, Refuse(c) \/ CreateTask(c)
      PROVE  TypeOK'
  BY <1>2, <1>3, InsertedRows DEF Refuse, CreateTask
<1>4. ASSUME NEW c \in Calls, Execute(c) \/ SaveResult(c)
      PROVE  TypeOK'
  BY <1>4 DEF Execute, SaveResult
<1>5. ASSUME NEW c \in Calls, Complete(c)
      PROVE  TypeOK'
  BY <1>5 DEF Complete
<1>6. ASSUME NEW c \in Calls, FailTask(c)
      PROVE  TypeOK'
  BY <1>6 DEF FailTask
<1>7. ASSUME NEW c \in Calls, CloseExpired(c)
      PROVE  TypeOK'
  BY <1>7 DEF CloseExpired
<1>8. ASSUME NEW c \in Calls, Crash(c)
      PROVE  TypeOK'
  BY <1>8 DEF Crash
<1>9. CASE Tick \/ Boot
  BY <1>9 DEF Tick, Boot
<1>10. CASE UNCHANGED vars
  BY <1>10 DEF vars
<1> QED
  BY <1>1, <1>3, <1>4, <1>5, <1>6, <1>7, <1>8, <1>9, <1>10 DEF Next, Step

\* What the conversation was told and what the task row says.
LEMMA OutcomeStep ==
  ASSUME TypeOK, ResultFirst, CompletedHasResult, ToldTheTruth, [Next]_vars
  PROVE  ResultFirst' /\ CompletedHasResult' /\ ToldTheTruth'
<1> USE DEF TypeOK, ResultFirst, CompletedHasResult, ToldTheTruth, Goto
<1> DEFINE Goal == ResultFirst' /\ CompletedHasResult' /\ ToldTheTruth'
<1>1. ASSUME NEW c \in Calls, CheckCapacity(c)
      PROVE  Goal
  BY <1>1 DEF CheckCapacity
<1>2. ASSUME NEW c \in Calls, Refuse(c)
      PROVE  Goal
  BY <1>2 DEF Refuse
<1>3. ASSUME NEW c \in Calls, CreateTask(c)
      PROVE  Goal
  BY <1>3 DEF CreateTask
<1>4. ASSUME NEW c \in Calls, Execute(c) \/ SaveResult(c)
      PROVE  Goal
  BY <1>4 DEF Execute, SaveResult
<1>5. ASSUME NEW c \in Calls, Complete(c)
      PROVE  Goal
  BY <1>5 DEF Complete
<1>6. ASSUME NEW c \in Calls, FailTask(c)
      PROVE  Goal
  BY <1>6 DEF FailTask
<1>7. ASSUME NEW c \in Calls, CloseExpired(c)
      PROVE  Goal
  BY <1>7 DEF CloseExpired, Active
<1>8. ASSUME NEW c \in Calls, Crash(c)
      PROVE  Goal
  BY <1>8 DEF Crash
<1>9. CASE Tick \/ Boot
  BY <1>9 DEF Tick, Boot
<1>10. CASE UNCHANGED vars
  BY <1>10 DEF vars
<1> QED
  BY <1>1, <1>2, <1>3, <1>4, <1>5, <1>6, <1>7, <1>8, <1>9, <1>10 DEF Next, Step

\* Only the check of the capacity lets a call in; every other step leaves the
\* calls in progress, and the results with those that may join them, as they
\* were or makes them fewer.
LEMMA OnlyTheCheckAdmits ==
  ASSUME TypeOK, [Next]_vars
  PROVE  \/ \E c \in Calls : CheckCapacity(c)
         \/ Running' \subseteq Running /\ Reserved' \subseteq Reserved
<1> USE DEF TypeOK, Goto, Running, Reserved, Admitted, Progressing
<1> DEFINE Fewer == Running' \subseteq Running /\ Reserved' \subseteq Reserved
<1>1. ASSUME NEW c \in Calls, Step(c)
      PROVE  Fewer
  <2>1. CASE Refuse(c) \/ FailTask(c) \/ Complete(c)
    BY <2>1 DEF Refuse, FailTask, Complete
  <2>2. CASE CreateTask(c) \/ Execute(c)
    BY <2>2 DEF CreateTask, Execute
  <2>3. CASE SaveResult(c)
    BY <2>3 DEF SaveResult
  <2> QED
    BY <1>1, <2>1, <2>2, <2>3 DEF Step
<1>2. ASSUME NEW c \in Calls, CloseExpired(c) \/ Crash(c)
      PROVE  Fewer
  BY <1>2 DEF CloseExpired, Crash
<1>3. CASE Tick \/ Boot
  BY <1>3 DEF Tick, Boot
<1>4. CASE UNCHANGED vars
  BY <1>4 DEF vars
<1> QED
  BY <1>1, <1>2, <1>3, <1>4 DEF Next

\* A call that is let in finds fewer than Parallel others, and, unless it is
\* refused, fewer than Cap results.
LEMMA ReservationStep ==
  ASSUME TypeOK, TypeOK', Overlap, Reservation, [Next]_vars
  PROVE  Overlap' /\ Reservation'
<1> USE WorkAssumption
<1>1. /\ Running \subseteq Calls /\ Running' \subseteq Calls
      /\ Reserved \subseteq Calls /\ Reserved' \subseteq Calls
      /\ results \subseteq Calls
  BY DEF TypeOK, Running, Reserved, Admitted
<1>2. CASE Running' \subseteq Running /\ Reserved' \subseteq Reserved
  <2>1. /\ Cardinality(Running') <= Cardinality(Running)
        /\ Cardinality(Reserved') <= Cardinality(Reserved)
    BY <1>1, <1>2, FewerCalls
  <2>2. /\ Cardinality(Running) \in Nat /\ Cardinality(Running') \in Nat
        /\ Cardinality(Reserved) \in Nat /\ Cardinality(Reserved') \in Nat
    BY <1>1, CallSets
  <2> QED
    BY <2>1, <2>2 DEF Overlap, Reservation
<1>3. ASSUME NEW c \in Calls, CheckCapacity(c)
      PROVE  Overlap' /\ Reservation'
  <2>1. Cardinality(Running') <= Parallel
    <3>1. Running' \subseteq Running \cup {c}
      BY <1>3 DEF CheckCapacity, Goto, TypeOK, Running, Progressing
    <3>2. Cardinality(Running \cup {c}) <= Cardinality(Running) + 1
      BY <1>1, CallSets, FS_AddElement
    <3>3. Cardinality(Running') <= Cardinality(Running \cup {c})
      BY <1>1, <3>1, FewerCalls
    <3>4. Cardinality(Running) < Parallel
      BY <1>3 DEF CheckCapacity
    <3> QED
      BY <1>1, <3>2, <3>3, <3>4, CallSets
  <2>2. CASE MayStart
    <3>1. Reserved' \subseteq results \cup Running'
      BY <1>3 DEF CheckCapacity, Reserved, Admitted, Running, Progressing
    <3>2. Cardinality(Reserved') <= Cardinality(results \cup Running')
      BY <1>1, <3>1, FewerCalls
    <3>3. Cardinality(results \cup Running') <= Cardinality(results) + Cardinality(Running')
      BY <1>1, JoinedCalls
    <3>4. Cardinality(results) < Cap
      BY <2>2 DEF MayStart
    <3>5. /\ Cardinality(Reserved') \in Nat
          /\ Cardinality(results \cup Running') \in Nat
          /\ Cardinality(results) \in Nat
          /\ Cardinality(Running') \in Nat
      BY <1>1, CallSets
    <3> QED
      BY <2>1, <3>2, <3>3, <3>4, <3>5 DEF Overlap, Reservation
  <2>3. CASE ~MayStart
    <3>1. Reserved' = Reserved
      BY <1>3, <2>3 DEF CheckCapacity, Goto, TypeOK, Reserved, Admitted
    <3> QED
      BY <2>1, <3>1 DEF Overlap, Reservation
  <2> QED
    BY <2>2, <2>3
<1> QED
  BY <1>2, <1>3, OnlyTheCheckAdmits

-----------------------------------------------------------------------------
(* Theorems *)

\* The inductive invariant holds in every reachable state.
LEMMA IInvInductive == Spec => []IInv
<1>1. ASSUME IInv, [Next]_vars
      PROVE  IInv'
  <2>1. TypeOK'
    BY <1>1, TypeStep DEF IInv
  <2>2. ResultFirst' /\ CompletedHasResult' /\ ToldTheTruth'
    BY <1>1, OutcomeStep DEF IInv
  <2>3. Overlap' /\ Reservation'
    BY <1>1, <2>1, ReservationStep DEF IInv
  <2> QED
    BY <2>1, <2>2, <2>3 DEF IInv
<1> QED
  BY InitIInv, <1>1, PTL DEF Spec

\* Every variable keeps its type (department-work-executor.ts).
THEOREM WorkTypeCorrect == Spec => []TypeOK
BY IInvInductive, PTL DEF IInv

\* A task row that says completed links to a result row that exists, although
\* any store call may fail or lose its answer and a server start may close the
\* task meanwhile.
THEOREM CompletedHasItsResult == Spec => []CompletedHasResult
BY IInvInductive, PTL DEF IInv

\* What run() told the conversation, a delivery or an apology, is what the task
\* row says from then on.
THEOREM ConversationIsTold == Spec => []ToldTheTruth
BY IInvInductive, PTL DEF IInv

\* However many calls there are over time, the check-then-insert of the
\* dashboard capacity overshoots by at most Parallel - 1.
THEOREM OvershootIsBounded == Spec => []OvershootBounded
<1>1. ASSUME IInv PROVE OvershootBounded
  <2>1. results \subseteq Reserved /\ Reserved \subseteq Calls
    BY <1>1 DEF IInv, TypeOK, Reserved, Admitted
  <2>2. Cardinality(results) <= Cardinality(Reserved)
    BY <2>1, FewerCalls
  <2>3. Cardinality(results) \in Nat /\ Cardinality(Reserved) \in Nat
    BY <2>1, CallSets
  <2> QED
    BY <1>1, <2>2, <2>3, WorkAssumption DEF IInv, Reservation, OvershootBounded
<1> QED
  BY <1>1, IInvInductive, PTL

-----------------------------------------------------------------------------
(* What a restart finds, and what it may close *)

Unbegun == {"idle", "refuse", "create"}

\* A call has no row before it makes one.
RowsFollowCalls == \A c \in Calls : pc[c] \in Unbegun => task[c].status = "none"

\* The clock moves on and nobody starts a task again: what the recovery has
\* selected stays expired until it is closed.
SelectedIsLate ==
  \A c \in closing : pc[c] \notin Unbegun /\ now - task[c].started > TimeoutTime

Recovery == RowsFollowCalls /\ SelectedIsLate /\ RunningIsAccounted

\* A step of one call, which leaves the rest as it is.
LEMMA CallRecovery ==
  ASSUME TypeOK, Recovery, NEW c \in Calls, Step(c) \/ CheckCapacity(c) \/ Crash(c)
  PROVE  Recovery'
<1>1. /\ now' = now /\ closing' = closing
      /\ \A d \in Calls : d # c => pc'[d] = pc[d] /\ task'[d] = task[d]
  BY DEF Step, CheckCapacity, Crash, Refuse, CreateTask, Execute, SaveResult, Complete, FailTask,
         Goto, TypeOK
<1>2. /\ pc'[c] \in Unbegun => pc[c] = "idle" /\ task'[c] = task[c]
      /\ task'[c].status = "running" =>
           pc'[c] \in {"execute", "result", "complete", "failing", "threw", "gone"}
      /\ pc[c] \notin Unbegun => pc'[c] \notin Unbegun /\ task'[c].started = task[c].started
  <2>1. CASE CheckCapacity(c) \/ Crash(c) \/ Execute(c) \/ SaveResult(c)
    BY <2>1 DEF CheckCapacity, Crash, Execute, SaveResult, Goto, TypeOK, Unbegun, Recovery,
                RowsFollowCalls, RunningIsAccounted, Progressing
  <2>2. CASE Refuse(c) \/ CreateTask(c)
    BY <2>2 DEF Refuse, CreateTask, Goto, TypeOK, Unbegun, Recovery, RowsFollowCalls
  <2>3. CASE Complete(c) \/ FailTask(c)
    BY <2>3 DEF Complete, FailTask, Goto, TypeOK, Unbegun, Recovery, RunningIsAccounted
  <2> QED
    BY <2>1, <2>2, <2>3 DEF Step
<1> QED
  BY <1>1, <1>2 DEF TypeOK, Recovery, RowsFollowCalls, SelectedIsLate, RunningIsAccounted, Unbegun

LEMMA RecoveryStep ==
  ASSUME TypeOK, Recovery, [Next]_vars
  PROVE  Recovery'
<1> USE DEF Recovery, RowsFollowCalls, SelectedIsLate, RunningIsAccounted
<1>1. ASSUME NEW c \in Calls, CloseExpired(c)
      PROVE  Recovery'
  <2>1. /\ now' = now /\ pc' = pc /\ closing' \subseteq closing
        /\ \A d \in Calls :
             /\ task'[d].started = task[d].started
             /\ task'[d].status = task[d].status
                  \/ (task'[d].status = "failed" /\ task[d].status \in Active)
    BY <1>1 DEF CloseExpired, TypeOK
  <2> QED
    BY <2>1 DEF TypeOK, Active
<1>2. CASE Tick
  <2>1. UNCHANGED <<pc, task, closing>> /\ now \in Int /\ now' = now + 1
    BY <1>2 DEF Tick, TypeOK
  <2>2. ASSUME NEW c \in closing
        PROVE  now' - task[c].started > TimeoutTime
    <3>1. task[c].started \in Int /\ TimeoutTime \in Int /\ now - task[c].started > TimeoutTime
      BY WorkAssumption DEF TypeOK
    <3> QED
      BY <2>1, <3>1
  <2> QED
    BY <2>1, <2>2
<1>3. CASE Boot
  <2>1. /\ UNCHANGED <<now, pc, task>>
        /\ \A c \in closing' : c \in Calls /\ task[c].status \in Active
                              /\ now - task[c].started > TimeoutTime
    BY <1>3 DEF Boot
  <2>2. \A c \in closing' : pc[c] \notin Unbegun
    BY <2>1 DEF Active
  <2> QED
    BY <2>1, <2>2
<1>4. CASE UNCHANGED vars
  BY <1>4 DEF vars
<1> QED
  BY <1>1, <1>2, <1>3, <1>4, CallRecovery DEF Next

LEMMA RecoveryInductive == Spec => []Recovery
<1>1. Init => Recovery
  BY DEF Init, Recovery, RowsFollowCalls, SelectedIsLate, RunningIsAccounted
<1>2. IInv /\ Recovery /\ [Next]_vars => Recovery'
  BY RecoveryStep DEF IInv
<1> QED
  BY <1>1, <1>2, IInvInductive, PTL DEF Spec

\* A task that is shown as running has a call that works on it, threw or died:
\* every call that run() has answered has settled its task.
THEOREM NoAnsweredCallLeavesRunning == Spec => []RunningIsAccounted
<1>1. Recovery => RunningIsAccounted
  BY DEF Recovery
<1> QED
  BY <1>1, RecoveryInductive, PTL

\* recoverExpiredTasks closes only what is active and past its deadline when
\* it is closed, however long ago it was selected.
THEOREM RecoveryClosesOnlyExpired == Spec => RecoveryIsLate
<1>1. ASSUME IInv, Recovery, [Next]_vars, NEW c \in Calls,
             task'[c].error = "TASK_TIMEOUT", task[c].error # "TASK_TIMEOUT"
      PROVE  task[c].status \in Active /\ now - task[c].started > TimeoutTime
  <2>1. PICK d \in Calls : CloseExpired(d)
    <3>1. task \in [Calls -> Rows]
      BY <1>1, RowsAreTyped DEF IInv
    <3>2. ASSUME NEW d \in Calls, Refuse(d) \/ CreateTask(d)
          PROVE  FALSE
      BY <1>1, <3>1, <3>2 DEF Refuse, CreateTask
    <3>3. ASSUME NEW d \in Calls, Complete(d) \/ FailTask(d)
          PROVE  FALSE
      BY <1>1, <3>1, <3>3 DEF Complete, FailTask, Rows
    <3> QED
      BY <1>1, <3>2, <3>3 DEF Next, Step, vars, Tick, Boot, CheckCapacity, Crash, Execute, SaveResult
  <2>2. d = c /\ c \in closing /\ task[c].status \in Active
    BY <1>1, <2>1 DEF CloseExpired, IInv, TypeOK
  <2> QED
    BY <1>1, <2>2 DEF Recovery, SelectedIsLate
<1>2. IInv /\ Recovery /\ [Next]_vars =>
        [\A c \in Calls :
           task'[c].error = "TASK_TIMEOUT" /\ task[c].error # "TASK_TIMEOUT"
           => task[c].status \in Active /\ now - task[c].started > TimeoutTime]_vars
  BY <1>1
<1> QED
  BY <1>2, IInvInductive, RecoveryInductive, PTL DEF Spec, RecoveryIsLate

\* Neither the recovery nor another call takes a completed task back: only the
\* catch block of its own call does, when the answer of the completing update
\* was lost, and that call does not report a delivery.
THEOREM NobodyElseRevokes == Spec => CompletedIsRevokedAloud
<1>1. ASSUME IInv, Recovery, [Next]_vars, NEW c \in Calls,
             task[c].status = "completed", task'[c].status # "completed"
      PROVE  pc[c] = "failing" /\ pc'[c] \in {"apologised", "threw"}
  <2>1. pc[c] \notin Unbegun
    BY <1>1 DEF Recovery, RowsFollowCalls
  <2>2. ASSUME NEW d \in Calls, CloseExpired(d)
        PROVE  FALSE
    BY <1>1, <2>2 DEF CloseExpired, Active, IInv, TypeOK
  <2>3. PICK d \in Calls : Refuse(d) \/ CreateTask(d) \/ Complete(d) \/ FailTask(d)
    BY <1>1, <2>2 DEF Next, Step, vars, Tick, Boot, CheckCapacity, Crash, Execute, SaveResult
  <2>4. CASE Refuse(d) \/ CreateTask(d)
    BY <1>1, <2>1, <2>4 DEF Refuse, CreateTask, Unbegun, IInv, TypeOK
  <2>5. CASE Complete(d)
    BY <1>1, <2>5 DEF Complete, IInv, TypeOK
  <2>6. CASE FailTask(d)
    BY <1>1, <2>6 DEF FailTask, Goto, IInv, TypeOK
  <2> QED
    BY <2>3, <2>4, <2>5, <2>6
<1>2. IInv /\ Recovery /\ [Next]_vars =>
        [\A c \in Calls :
           task[c].status = "completed" /\ task'[c].status # "completed"
           => pc[c] = "failing" /\ pc'[c] \in {"apologised", "threw"}]_vars
  BY <1>1
<1> QED
  BY <1>2, IInvInductive, RecoveryInductive, PTL DEF Spec, CompletedIsRevokedAloud
=============================================================================
