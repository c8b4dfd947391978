-------------------------- MODULE FounderRunsProofs --------------------------
(***************************************************************************)
(* Proofs about FounderRuns, for any set of sessions and any bounds.        *)
(*                                                                         *)
(* The inductive invariant has three parts: TypeOK; RunLifecycle, which     *)
(* ties the status of a run to the place its executor is at and to its     *)
(* presence in the store; and Locks, the exact content of the lock chains. *)
(* RunLifecycle is what makes the lock argument go through: a run that      *)
(* mustGet cannot find is terminal, so an exception that skips a markFailed *)
(* never leaves a "running" run behind a released lock.                    *)
(***************************************************************************)
EXTENDS FounderRuns, TLAPS

ExecutingHoldsLock == \A r \in Runs : pc[r] \in Executing => HoldsLock(r)

Locks == LockChainExact /\ ExecutingHoldsLock

IInv == TypeOK /\ RunLifecycle /\ Locks

-----------------------------------------------------------------------------
(* Initial states *)

LEMMA InitIInv == Init => IInv
<1> SUFFICES ASSUME Init PROVE IInv
  OBVIOUS
<1> USE MaxRunsAssumption DEF Runs
<1>1. TypeOK
  BY DEF Init, TypeOK, Statuses, Locations
<1>2. RunLifecycle
  BY DEF Init, RunLifecycle, Active, Executing
<1>3. LockChainExact
  <2>1. \A s \in Sessions : lock[s] = <<>> /\ 1 .. Len(lock[s]) = {}
    <3>1. 1 .. Len(<<>>) = {}
      OBVIOUS
    <3> QED
      BY <3>1, Zenon DEF Init
  <2>2. \A r \in Runs : pc[r] = "none"
    BY DEF Init
  <2> QED
    BY <2>1, <2>2 DEF LockChainExact
<1>4. ExecutingHoldsLock
  BY DEF Init, ExecutingHoldsLock, Executing
<1> QED
  BY <1>1, <1>2, <1>3, <1>4 DEF IInv, Locks

-----------------------------------------------------------------------------
(* Type correctness *)

\* Appending events of the store's vocabulary to a log keeps its type.
LEMMA LogAfterType ==
  ASSUME TypeOK, NEW r \in Runs, NEW events \in Seq(EventTypes)
  PROVE  LogAfter(r, events) \in Seq(EventTypes)
BY DEF TypeOK, LogAfter

LEMMA MarkType ==
  ASSUME TypeOK, NEW r \in Runs, NEW newStatus \in Statuses,
         NEW events \in Seq(EventTypes),
         MarkOrThrow(r, newStatus, events) \/ Mark(r, newStatus, events)
  PROVE  /\ status' \in [Runs -> Statuses]
         /\ log' \in [Runs -> Seq(EventTypes)]
<1>1. CASE Mark(r, newStatus, events)
  BY <1>1, LogAfterType DEF TypeOK, Mark
<1>2. CASE UNCHANGED <<status, log>>
  BY <1>2 DEF TypeOK
<1> QED
  BY <1>1, <1>2 DEF MarkOrThrow

LEMMA LockType ==
  ASSUME TypeOK, NEW r \in Runs, HoldsLock(r),
         Release(r) \/ \E location \in Executing : Await(r, location)
  PROVE  pc' \in [Runs -> Locations] /\ lock' \in [Sessions -> Seq(Runs)]
<1>1. /\ pc \in [Runs -> Locations]
      /\ lock \in [Sessions -> Seq(Runs)]
      /\ session[r] \in Sessions
      /\ lock[session[r]] # <<>>
  BY DEF TypeOK, HoldsLock
<1>2. CASE Release(r)
  BY <1>1, <1>2 DEF Release, Locations
<1>3. ASSUME NEW location \in Executing, Await(r, location)
      PROVE  pc' \in [Runs -> Locations] /\ lock' \in [Sessions -> Seq(Runs)]
  BY <1>1, <1>3 DEF Await, Locations
<1> QED
  BY <1>2, <1>3

\* The literal logs that the handlers append.
LEMMA EventLists ==
  /\ <<"run.created">> \in Seq(EventTypes)
  /\ <<"run.started">> \in Seq(EventTypes)
  /\ <<"run.failed">> \in Seq(EventTypes)
  /\ <<"run.failed", "run.failed">> \in Seq(EventTypes)
  /\ <<"run.cancelled">> \in Seq(EventTypes)
  /\ <<"assistant.delta">> \in Seq(EventTypes)
  /\ <<"assistant.final", "run.completed">> \in Seq(EventTypes)
BY DEF EventTypes, TerminalEvents

-----------------------------------------------------------------------------
(* The lock chains *)

\* Every step leaves the sessions alone and does one of four things to the
\* locks: a new run joins, the holder releases, the holder goes on, nothing.
LEMMA LockStepKinds ==
  ASSUME IInv, [Next]_vars
  PROVE  /\ session' = session
         /\ \/ Submit
            \/ \E r \in Runs :
                 /\ HoldsLock(r)
                 /\ pc[r] \notin {"none", "done"}
                 /\ Release(r) \/ \E location \in Executing : Await(r, location)
            \/ UNCHANGED <<pc, lock>>
<1>1. CASE Submit
  BY <1>1 DEF Submit
<1>2. CASE Cleanup
  BY <1>2 DEF Cleanup
<1>3. ASSUME NEW r \in Runs,
             Advance(r) \/ SendSettles(r) \/ TimerFires(r)
      PROVE  /\ session' = session
             /\ \/ UNCHANGED <<pc, lock>>
                \/ /\ HoldsLock(r)
                   /\ pc[r] \notin {"none", "done"}
                   /\ Release(r) \/ \E location \in Executing : Await(r, location)
  <2> USE DEF IInv, Locks, ExecutingHoldsLock, Executing
  <2>1. CASE SkipCancelled(r)
    BY <2>1 DEF SkipCancelled
  <2>2. CASE Start(r)
    BY <2>2 DEF Start
  <2>3. CASE SessionReady(r)
    BY <2>3 DEF SessionReady
  <2>4. CASE SessionFailed(r)
    BY <2>4 DEF SessionFailed
  <2>5. CASE Resend(r)
    BY <2>5 DEF Resend
  <2>6. CASE RetryFailed(r)
    BY <2>6 DEF RetryFailed
  <2>7. CASE RetryAnswered(r)
    BY <2>7 DEF RetryAnswered
  <2>8. CASE Complete(r)
    BY <2>8 DEF Complete
  <2>9. CASE SendRejected(r)
    BY <2>9 DEF SendRejected
  <2>10. CASE SendResolved(r)
    BY <2>10 DEF SendResolved
  <2>11. CASE TimerFires(r)
    BY <2>11 DEF TimerFires
  <2> QED
    BY <1>3, <2>1, <2>2, <2>3, <2>4, <2>5, <2>6, <2>7, <2>8, <2>9, <2>10, <2>11
       DEF Advance, SendSettles
<1>4. ASSUME NEW r \in Runs, AbandonedSendSettles(r) \/ Chunk(r) \/ Cancel(r)
      PROVE  session' = session /\ UNCHANGED <<pc, lock>>
  BY <1>4 DEF AbandonedSendSettles, Chunk, Cancel
<1>5. CASE UNCHANGED vars
  BY <1>5 DEF vars
<1> QED
  BY <1>1, <1>2, <1>3, <1>4, <1>5 DEF Next

\* A released lock: the head leaves, the others keep their order.
LEMMA ReleaseKeepsLocks ==
  ASSUME IInv, session' = session, NEW r \in Runs, HoldsLock(r), Release(r)
  PROVE  Locks'
<1> DEFINE t == session[r]
<1>0. /\ t \in Sessions
      /\ lock \in [Sessions -> Seq(Runs)]
      /\ pc \in [Runs -> Locations]
      /\ session \in [Runs -> Sessions]
      /\ Runs \subseteq Nat
  BY MaxRunsAssumption DEF IInv, TypeOK, Runs
<1>1. /\ lock[t] \in Seq(Runs) /\ lock[t] # <<>>
      /\ Len(lock[t]) \in Nat \ {0}
      /\ lock[t][1] = r
  BY <1>0 DEF HoldsLock
<1>2. /\ lock'[t] = Tail(lock[t])
      /\ \A s \in Sessions \ {t} : lock'[s] = lock[s]
      /\ pc'[r] = "done"
      /\ \A q \in Runs \ {r} : pc'[q] = pc[q]
  BY <1>0 DEF Release
<1>3. /\ Len(lock'[t]) = Len(lock[t]) - 1
      /\ \A i \in 1 .. Len(lock'[t]) : /\ lock'[t][i] = lock[t][i + 1]
                                       /\ i + 1 \in 1 .. Len(lock[t])
                                       /\ lock[t][i + 1] \in Runs
  BY <1>1, <1>2
<1>4. \A i, j \in 1 .. Len(lock[t]) : i < j => lock[t][i] < lock[t][j]
  BY <1>0 DEF IInv, Locks, LockChainExact
<1>5. \A i, j \in 1 .. Len(lock'[t]) : i < j => lock'[t][i] < lock'[t][j]
  BY <1>3, <1>4, <1>1
<1>6. \A i \in 1 .. Len(lock'[t]) : lock'[t][i] # r
  <2> SUFFICES ASSUME NEW i \in 1 .. Len(lock'[t])
               PROVE  lock'[t][i] # r
    OBVIOUS
  <2>1. lock[t][1] < lock[t][i + 1]
    BY <1>3, <1>4, <1>1
  <2> QED
    BY <2>1, <1>1, <1>3, <1>0
<1>7. \A q \in Runs \ {r} :
        (\E i \in 1 .. Len(lock[t]) : lock[t][i] = q)
          <=> \E i \in 1 .. Len(lock'[t]) : lock'[t][i] = q
  <2> SUFFICES ASSUME NEW q \in Runs \ {r}
               PROVE  (\E i \in 1 .. Len(lock[t]) : lock[t][i] = q)
                        <=> \E i \in 1 .. Len(lock'[t]) : lock'[t][i] = q
    OBVIOUS
  <2>1. ASSUME NEW i \in 1 .. Len(lock[t]), lock[t][i] = q
        PROVE  \E j \in 1 .. Len(lock'[t]) : lock'[t][j] = q
    <3>1. i # 1
      BY <2>1, <1>1
    <3>2. i - 1 \in 1 .. Len(lock'[t]) /\ (i - 1) + 1 = i
      BY <3>1, <1>1, <1>3
    <3> QED
      BY <3>2, <1>3, <2>1
  <2>2. ASSUME NEW i \in 1 .. Len(lock'[t]), lock'[t][i] = q
        PROVE  \E j \in 1 .. Len(lock[t]) : lock[t][j] = q
    BY <2>2, <1>3
  <2> QED
    BY <2>1, <2>2
<1>8. LockChainExact'
  <2> SUFFICES ASSUME NEW s \in Sessions
               PROVE  /\ \A i, j \in 1 .. Len(lock'[s]) :
                            i < j => lock'[s][i] < lock'[s][j]
                      /\ \A q \in Runs :
                           (session[q] = s /\ pc'[q] \notin {"none", "done"})
                             <=> \E i \in 1 .. Len(lock'[s]) : lock'[s][i] = q
    BY DEF LockChainExact
  <2>1. CASE s = t
    BY <2>1, <1>2, <1>5, <1>6, <1>7 DEF IInv, Locks, LockChainExact
  <2>2. CASE s # t
    BY <2>2, <1>2 DEF IInv, Locks, LockChainExact
  <2> QED
    BY <2>1, <2>2
<1>9. ExecutingHoldsLock'
  <2> SUFFICES ASSUME NEW q \in Runs, pc'[q] \in Executing
               PROVE  lock'[session[q]] # <<>> /\ Head(lock'[session[q]]) = q
    BY DEF ExecutingHoldsLock, HoldsLock
  <2>1. q # r
    BY <1>2 DEF Executing
  <2>2. HoldsLock(q)
    BY <2>1, <1>2 DEF IInv, Locks, ExecutingHoldsLock
  <2>3. session[q] # t /\ session[q] \in Sessions
    BY <2>1, <2>2, <1>0 DEF HoldsLock
  <2> QED
    BY <2>2, <2>3, <1>2 DEF HoldsLock
<1> QED
  BY <1>8, <1>9 DEF Locks

\* The holder goes on to another await: the chains do not change.
LEMMA AwaitKeepsLocks ==
  ASSUME IInv, session' = session, NEW r \in Runs, HoldsLock(r),
         pc[r] \notin {"none", "done"},
         NEW location \in Executing, Await(r, location)
  PROVE  Locks'
<1>1. /\ pc'[r] = location /\ lock' = lock
      /\ \A q \in Runs \ {r} : pc'[q] = pc[q]
      /\ location \notin {"none", "done"}
  BY DEF IInv, TypeOK, Await, Executing
<1>2. LockChainExact'
  BY <1>1 DEF IInv, Locks, LockChainExact
<1>3. ExecutingHoldsLock'
  BY <1>1 DEF IInv, Locks, ExecutingHoldsLock, HoldsLock
<1> QED
  BY <1>2, <1>3 DEF Locks

\* A submitted run joins the end of its session's chain; its number is larger
\* than that of any run in a chain.
LEMMA SubmitKeepsLocks ==
  ASSUME IInv, Submit
  PROVE  Locks'
<1> DEFINE r == submitted + 1
           t == session[r]
<1>0. /\ r \in Runs /\ t \in Sessions
      /\ lock \in [Sessions -> Seq(Runs)]
      /\ pc \in [Runs -> Locations]
      /\ Runs \subseteq Nat /\ submitted \in Nat
  BY MaxRunsAssumption DEF IInv, TypeOK, Runs, Submit
<1>a. session' = session
  BY DEF Submit
<1>1. /\ lock'[t] = Append(lock[t], r)
      /\ \A s \in Sessions \ {t} : lock'[s] = lock[s]
      /\ pc'[r] = "lockwait"
      /\ \A q \in Runs \ {r} : pc'[q] = pc[q]
  BY <1>0 DEF Submit
<1>2. pc[r] = "none"
  BY <1>0 DEF IInv, RunLifecycle
<1>3. \A s \in Sessions : \A i \in 1 .. Len(lock[s]) :
        lock[s][i] \in Runs /\ lock[s][i] < r
  <2> SUFFICES ASSUME NEW s \in Sessions, NEW i \in 1 .. Len(lock[s])
               PROVE  lock[s][i] \in Runs /\ lock[s][i] < r
    OBVIOUS
  <2>1. lock[s][i] \in Runs
    BY <1>0
  <2> DEFINE q == lock[s][i]
  <2>2. pc[q] # "none"
    <3>1. (session[q] = s /\ pc[q] \notin {"none", "done"})
            <=> \E j \in 1 .. Len(lock[s]) : lock[s][j] = q
      BY <2>1 DEF IInv, Locks, LockChainExact
    <3> QED
      BY <3>1
  <2>3. ~(q > submitted)
    BY <2>1, <2>2 DEF IInv, RunLifecycle
  <2>4. q \in Nat /\ submitted \in Nat
    BY <2>1, <1>0
  <2> HIDE DEF q
  <2>5. q < submitted + 1
    BY <2>3, <2>4
  <2> QED
    BY <2>1, <2>5 DEF q
<1>4. /\ Len(lock[t]) \in Nat
      /\ Len(lock'[t]) = Len(lock[t]) + 1
      /\ lock'[t][Len(lock[t]) + 1] = r
      /\ \A i \in 1 .. Len(lock[t]) : lock'[t][i] = lock[t][i]
  BY <1>0, <1>1
<1>5. LockChainExact'
  <2> SUFFICES ASSUME NEW s \in Sessions
               PROVE  /\ \A i, j \in 1 .. Len(lock'[s]) :
                            i < j => lock'[s][i] < lock'[s][j]
                      /\ \A q \in Runs :
                           (session'[q] = s /\ pc'[q] \notin {"none", "done"})
                             <=> \E i \in 1 .. Len(lock'[s]) : lock'[s][i] = q
    BY DEF LockChainExact
  <2>1. CASE s # t
    <3>1. lock'[s] = lock[s]
      BY <2>1, <1>1
    <3>2. \A q \in Runs : session[q] = s => pc'[q] = pc[q]
      BY <2>1, <1>1
    <3> QED
      BY <1>a, <3>1, <3>2 DEF IInv, Locks, LockChainExact
  <2>2. CASE s = t
    <3>1. \A i, j \in 1 .. Len(lock[t]) : i < j => lock[t][i] < lock[t][j]
      BY <1>0 DEF IInv, Locks, LockChainExact
    <3>2. \A i, j \in 1 .. Len(lock'[t]) : i < j => lock'[t][i] < lock'[t][j]
      <4> SUFFICES ASSUME NEW i \in 1 .. Len(lock'[t]),
                          NEW j \in 1 .. Len(lock'[t]), i < j
                   PROVE  lock'[t][i] < lock'[t][j]
        OBVIOUS
      <4>1. i \in 1 .. Len(lock[t])
        BY <1>4
      <4>2. CASE j \in 1 .. Len(lock[t])
        BY <4>1, <4>2, <3>1, <1>4
      <4>3. CASE j = Len(lock[t]) + 1
        BY <4>1, <4>3, <1>3, <1>4, <1>0
      <4> QED
        BY <4>2, <4>3, <1>4
    <3>3. ASSUME NEW q \in Runs
          PROVE  (session[q] = t /\ pc'[q] \notin {"none", "done"})
                   <=> \E i \in 1 .. Len(lock'[t]) : lock'[t][i] = q
      <4>1. CASE q = r
        BY <4>1, <1>1, <1>4
      <4>2. CASE q # r
        <5>1. (session[q] = t /\ pc[q] \notin {"none", "done"})
                <=> \E i \in 1 .. Len(lock[t]) : lock[t][i] = q
          BY <1>0 DEF IInv, Locks, LockChainExact
        <5>2. (\E i \in 1 .. Len(lock[t]) : lock[t][i] = q)
                <=> \E i \in 1 .. Len(lock'[t]) : lock'[t][i] = q
          <6>1. \A i \in 1 .. Len(lock[t]) :
                  i \in 1 .. Len(lock'[t]) /\ lock'[t][i] = lock[t][i]
            BY <1>4
          <6>2. \A i \in 1 .. Len(lock'[t]) :
                  i \in 1 .. Len(lock[t]) \/ lock'[t][i] = r
            BY <1>4
          <6> QED
            BY <6>1, <6>2, <4>2
        <5> QED
          BY <5>1, <5>2, <4>2, <1>1
      <4> QED
        BY <4>1, <4>2
    <3> QED
      BY <1>a, <2>2, <3>2, <3>3
  <2> QED
    BY <2>1, <2>2
<1>6. ExecutingHoldsLock'
  <2> SUFFICES ASSUME NEW q \in Runs, pc'[q] \in Executing
               PROVE  lock'[session[q]] # <<>> /\ Head(lock'[session[q]]) = q
    BY <1>a DEF ExecutingHoldsLock, HoldsLock
  <2>1. q # r
    BY <1>1 DEF Executing
  <2>2. lock[session[q]] # <<>> /\ Head(lock[session[q]]) = q
    BY <2>1, <1>1 DEF IInv, Locks, ExecutingHoldsLock, HoldsLock
  <2>3. session[q] \in Sessions /\ lock[session[q]] \in Seq(Runs)
    BY DEF IInv, TypeOK
  <2>4. CASE session[q] # t
    BY <2>2, <2>3, <2>4, <1>1
  <2>5. CASE session[q] = t
    BY <2>2, <2>3, <2>5, <1>1, <1>0
  <2> QED
    BY <2>4, <2>5
<1> QED
  BY <1>5, <1>6 DEF Locks

LEMMA LocksStep ==
  ASSUME IInv, [Next]_vars
  PROVE  Locks'
<1>1. CASE Submit
  BY <1>1, SubmitKeepsLocks
<1>2. ASSUME session' = session, NEW r \in Runs, HoldsLock(r), Release(r)
      PROVE  Locks'
  BY <1>2, ReleaseKeepsLocks
<1>3. ASSUME session' = session, NEW r \in Runs, HoldsLock(r),
             pc[r] \notin {"none", "done"},
             NEW location \in Executing, Await(r, location)
      PROVE  Locks'
  BY <1>3, AwaitKeepsLocks
<1>4. CASE session' = session /\ UNCHANGED <<pc, lock>>
  BY <1>4 DEF IInv, Locks, LockChainExact, ExecutingHoldsLock, HoldsLock
<1> QED
  BY <1>1, <1>2, <1>3, <1>4, LockStepKinds

-----------------------------------------------------------------------------
(* Type correctness and the life cycle of a run, action by action *)

LEMMA TypeStep ==
  ASSUME IInv, [Next]_vars
  PROVE  TypeOK'
<1> USE DEF IInv
<1>1. CASE Submit
  <2>1. /\ submitted + 1 \in Runs
        /\ submitted' \in 0 .. MaxRuns
        /\ session' = session /\ timer' = timer /\ inflight' = inflight
    BY <1>1, MaxRunsAssumption DEF Submit, TypeOK, Runs
  <2>2. /\ status' \in [Runs -> Statuses]
        /\ stored' \in SUBSET Runs
        /\ pc' \in [Runs -> Locations]
    BY <1>1, <2>1 DEF Submit, TypeOK, Statuses, Active, Terminal, Locations
  <2>3. log' \in [Runs -> Seq(EventTypes)]
    <3>1. \A q \in Runs : Append(log[q], "run.cancelled") \in Seq(EventTypes)
      BY DEF TypeOK, EventTypes, TerminalEvents
    <3> QED
      BY <1>1, <3>1, EventLists DEF Submit, TypeOK
  <2>4. lock' \in [Sessions -> Seq(Runs)]
    BY <1>1, <2>1 DEF Submit, TypeOK
  <2> QED
    BY <2>1, <2>2, <2>3, <2>4 DEF TypeOK
<1>2. CASE Cleanup
  BY <1>2 DEF Cleanup, TypeOK
<1>3. ASSUME NEW r \in Runs,
             Advance(r) \/ SendSettles(r) \/ TimerFires(r)
      PROVE  TypeOK'
  <2>1. pc' \in [Runs -> Locations] /\ lock' \in [Sessions -> Seq(Runs)]
    <3>1. submitted' # submitted + 1
      BY <1>3 DEF TypeOK, Advance, SendSettles, SkipCancelled, Start,
                  SessionReady, SessionFailed, Resend, RetryFailed,
                  RetryAnswered, Complete, SendRejected, SendResolved, TimerFires
    <3>2. ~Submit
      BY <3>1 DEF Submit
    <3>3. CASE UNCHANGED <<pc, lock>>
      BY <3>3 DEF TypeOK
    <3> QED
      BY <3>2, <3>3, LockStepKinds, LockType
  <2>2. /\ status' \in [Runs -> Statuses]
        /\ log' \in [Runs -> Seq(EventTypes)]
    <3>1. \/ UNCHANGED <<status, log>>
          \/ \E st \in {"running", "failed", "completed"} :
             \E events \in {<<"run.started">>, <<"run.failed">>,
                            <<"run.failed", "run.failed">>,
                            <<"assistant.final", "run.completed">>} :
               MarkOrThrow(r, st, events) \/ Mark(r, st, events)
      BY <1>3 DEF Advance, SendSettles, SkipCancelled, Start, SessionReady,
                  SessionFailed, Resend, RetryFailed, RetryAnswered, Complete,
                  SendRejected, SendResolved, TimerFires
    <3>2. {"running", "failed", "completed"} \subseteq Statuses
      BY DEF Statuses, Active, Terminal
    <3> QED
      BY <3>1, <3>2, MarkType, EventLists DEF TypeOK
  <2>3. /\ session' = session /\ submitted' = submitted /\ stored' = stored
        /\ timer' \in SUBSET Runs /\ inflight' \in SUBSET Runs
    BY <1>3 DEF TypeOK, Advance, SendSettles, SkipCancelled, Start, SessionReady,
                SessionFailed, Resend, RetryFailed, RetryAnswered, Complete,
                SendRejected, SendResolved, TimerFires
  <2> QED
    BY <2>1, <2>2, <2>3 DEF TypeOK
<1>4. ASSUME NEW r \in Runs, AbandonedSendSettles(r)
      PROVE  TypeOK'
  BY <1>4 DEF AbandonedSendSettles, TypeOK
<1>5. ASSUME NEW r \in Runs, Chunk(r)
      PROVE  TypeOK'
  BY <1>5, LogAfterType, EventLists DEF Chunk, TypeOK
<1>6. ASSUME NEW r \in Runs, Cancel(r)
      PROVE  TypeOK'
  <2>1. Mark(r, "cancelled", <<"run.cancelled">>) /\ "cancelled" \in Statuses
    BY <1>6 DEF Cancel, Statuses, Terminal
  <2> QED
    BY <1>6, <2>1, MarkType, EventLists DEF Cancel, TypeOK
<1>7. CASE UNCHANGED vars
  BY <1>7 DEF vars, TypeOK
<1> QED
  BY <1>1, <1>2, <1>3, <1>4, <1>5, <1>6, <1>7 DEF Next

\* The status of a run follows the place its executor is at.
LEMMA LifecycleStep ==
  ASSUME IInv, [Next]_vars
  PROVE  RunLifecycle'
<1> USE DEF IInv, RunLifecycle, Active, Executing
<1>1. CASE Submit
  <2>1. /\ submitted + 1 \in Runs /\ submitted \in Nat
        /\ Runs \subseteq Nat
    BY <1>1, MaxRunsAssumption DEF Submit, TypeOK, Runs
  <2>2. \A q \in Runs : q > submitted + 1 <=> q > submitted /\ q # submitted + 1
    BY <2>1
  <2>3. /\ status \in [Runs -> Statuses] /\ pc \in [Runs -> Locations]
        /\ stored \in SUBSET Runs
    BY DEF TypeOK
  <2> QED
    BY <1>1, <2>1, <2>2, <2>3 DEF Submit, Superseded, IsActiveRun
<1>2. CASE Cleanup
  BY <1>2 DEF Cleanup, Terminal, TypeOK
<1>3. ASSUME NEW r \in Runs,
             Advance(r) \/ SendSettles(r) \/ TimerFires(r) \/ Cancel(r)
      PROVE  RunLifecycle'
  <2>1. /\ submitted' = submitted /\ stored' = stored
        /\ \A q \in Runs \ {r} : /\ status'[q] = status[q]
                                 /\ pc'[q] = pc[q]
                                 /\ q \in timer' => q \in timer
    BY <1>3 DEF TypeOK, Advance, SendSettles, SkipCancelled, Start, SessionReady,
                SessionFailed, Resend, RetryFailed, RetryAnswered, Complete,
                SendRejected, SendResolved, TimerFires, Cancel,
                MarkOrThrow, Mark, Release, Await
  <2>2. status \in [Runs -> Statuses] /\ pc \in [Runs -> Locations]
    BY DEF TypeOK
  <2> DEFINE Fine(st, at) == /\ at = "none" => st = "none"
                             /\ at = "lockwait" => st \in {"queued", "cancelled"}
                             /\ st = "queued" => at = "lockwait"
                             /\ st = "running" => at \in Executing
                             /\ st = "completed" => at = "done"
                             /\ st \in Active => r \in stored
  <2>a. r \in stored => pc[r] # "none"
    BY MaxRunsAssumption DEF TypeOK, Runs
  <2>b. r \in timer' => pc'[r] \notin {"none", "lockwait"}
    BY <1>3, <2>2 DEF Advance, SendSettles, SkipCancelled, Start, SessionReady,
                SessionFailed, Resend, RetryFailed, RetryAnswered, Complete,
                SendRejected, SendResolved, TimerFires, Cancel, Release, Await
  <2>3. Fine(status'[r], pc'[r]) /\ (pc'[r] = "none" <=> pc[r] = "none")
    <3>1. CASE SkipCancelled(r) \/ Start(r)
      BY <2>2, <3>1 DEF SkipCancelled, Start, MarkOrThrow, Mark, Release, Await
    <3>2. CASE SessionReady(r) \/ SessionFailed(r)
      BY <2>2, <3>2 DEF SessionReady, SessionFailed, MarkOrThrow, Mark, Release, Await
    <3>3. CASE Resend(r) \/ RetryFailed(r) \/ RetryAnswered(r)
      BY <2>2, <3>3 DEF Resend, RetryFailed, RetryAnswered, MarkOrThrow, Mark, Release, Await
    <3>4. CASE Complete(r) \/ SendRejected(r)
      BY <2>2, <3>4 DEF Complete, SendRejected, MarkOrThrow, Mark, Release, Await
    <3>5. CASE SendResolved(r)
      BY <2>2, <3>5 DEF SendResolved, MarkOrThrow, Mark, Release, Await
    <3>6. CASE Cancel(r)
      BY <2>2, <2>a, <3>6 DEF Cancel, Mark
    <3>7. CASE TimerFires(r)
      <4>1. CASE pc[r] = "send"
        BY <2>2, <3>7, <4>1 DEF TimerFires, MarkOrThrow, Mark, Release
      <4>2. CASE pc[r] # "send"
        <5>1. /\ pc' = pc
              /\ \/ status' = status
                 \/ /\ r \in stored
                    /\ status[r] \in {"queued", "running"}
                    /\ status' = [status EXCEPT ![r] = "failed"]
          BY <3>7, <4>2 DEF TimerFires, Mark
        <5>2. ASSUME r \in stored, status[r] \in {"queued", "running"},
                     status' = [status EXCEPT ![r] = "failed"]
              PROVE  status'[r] = "failed" /\ pc[r] # "none"
          BY <5>2, <2>2, <2>a
        <5>3. CASE pc' = pc /\ status' = status
          BY <5>3
        <5>4. pc[r] \notin {"none", "lockwait"}
          BY <3>7 DEF TimerFires
        <5> QED
          BY <5>1, <5>2, <5>3, <5>4, <2>2
      <4> QED
        BY <4>1, <4>2
    <3> QED
      BY <1>3, <3>1, <3>2, <3>3, <3>4, <3>5, <3>6, <3>7 DEF Advance, SendSettles
  <2> QED
    BY <2>1, <2>b, <2>3
<1>4. ASSUME NEW r \in Runs, AbandonedSendSettles(r) \/ Chunk(r)
      PROVE  RunLifecycle'
  BY <1>4 DEF AbandonedSendSettles, Chunk
<1>5. CASE UNCHANGED vars
  BY <1>5 DEF vars
<1> QED
  BY <1>1, <1>2, <1>3, <1>4, <1>5 DEF Next

\* The inductive invariant holds in every reachable state.
LEMMA IInvInductive == Spec => []IInv
<1>1. IInv /\ [Next]_vars => IInv'
  BY TypeStep, LifecycleStep, LocksStep DEF IInv
<1> QED
  BY InitIInv, <1>1, PTL DEF Spec

-----------------------------------------------------------------------------
(* Theorems *)

\* Every variable keeps its type (founder-run-store.ts, founder-run-executor.ts).
THEOREM TypeCorrect == Spec => []TypeOK
BY IInvInductive, PTL DEF IInv

\* The promise chains of acquireSessionLock list exactly the runs that are
\* between entering executeInBackground and its finally block, oldest first.
THEOREM LockChainsExact == Spec => []LockChainExact
BY IInvInductive, PTL DEF IInv, Locks

\* A run past the lock, and a run shown as running, holds its session's lock.
THEOREM ExecutorsHoldLock == Spec => []ExecutorHoldsLock
<1>1. IInv => ExecutorHoldsLock
  BY DEF IInv, RunLifecycle, Locks, ExecutingHoldsLock, ExecutorHoldsLock
<1> QED
  BY <1>1, IInvInductive, PTL

\* One running run per session, however submits, cancels, timers and the
\* store's cleanup interleave with the executor.
THEOREM OneRunPerSession == Spec => []OneRunningPerSession
<1>1. IInv => OneRunningPerSession
  BY DEF IInv, RunLifecycle, Locks, ExecutingHoldsLock, OneRunningPerSession,
         HoldsLock
<1> QED
  BY <1>1, IInvInductive, PTL

\* Nothing overwrites the status of a completed run.
THEOREM CompletedStays == Spec => CompletedIsFinal
<1>1. ASSUME IInv, [Next]_vars, NEW r \in Runs, status[r] = "completed"
      PROVE  status'[r] = "completed"
  <2> USE <1>1 DEF IInv, Executing
  <2>0. pc[r] = "done" /\ status \in [Runs -> Statuses]
    BY DEF RunLifecycle, TypeOK
  <2>1. CASE Submit
    <3>1. r # submitted + 1 /\ r \notin Superseded(session[submitted + 1])
      BY <2>0, MaxRunsAssumption DEF RunLifecycle, TypeOK, Runs, Superseded
    <3> QED
      BY <2>1, <3>1 DEF Submit
  <2>2. CASE Cleanup
    BY <2>2 DEF Cleanup
  <2>3. ASSUME NEW q \in Runs,
               Advance(q) \/ SendSettles(q) \/ TimerFires(q) \/ Cancel(q)
        PROVE  status'[r] = status[r]
    BY <2>0, <2>3 DEF Advance, SendSettles, SkipCancelled, Start, SessionReady,
                SessionFailed, Resend, RetryFailed, RetryAnswered, Complete,
                SendRejected, SendResolved, TimerFires, Cancel,
                MarkOrThrow, Mark, Active
  <2>4. ASSUME NEW q \in Runs, AbandonedSendSettles(q) \/ Chunk(q)
        PROVE  status' = status
    BY <2>4 DEF AbandonedSendSettles, Chunk
  <2>5. CASE UNCHANGED vars
    BY <2>5 DEF vars
  <2> QED
    BY <2>1, <2>2, <2>3, <2>4, <2>5 DEF Next
<1>2. IInv /\ [Next]_vars
        => [\A r \in Runs : status[r] = "completed" => status'[r] = "completed"]_vars
  BY <1>1
<1> QED
  BY <1>2, IInvInductive, PTL DEF Spec, CompletedIsFinal

\* A run cancelled while it waits for the lock never calls the engine.
THEOREM CancelledStaysOut == Spec => CancelledInQueueNeverRuns
<1>1. ASSUME IInv, [Next]_vars, NEW r \in Runs,
             pc[r] = "lockwait", status[r] = "cancelled"
      PROVE  pc'[r] \in {"lockwait", "done"}
  <2> USE <1>1 DEF IInv
  <2>0. pc \in [Runs -> Locations]
    BY DEF TypeOK
  <2>1. CASE Submit
    BY <2>0, <2>1 DEF Submit
  <2>2. CASE Cleanup
    BY <2>2 DEF Cleanup
  <2>3. ASSUME NEW q \in Runs,
               Advance(q) \/ SendSettles(q) \/ TimerFires(q)
        PROVE  pc'[r] \in {"lockwait", "done"}
    BY <2>0, <2>3 DEF Advance, SendSettles, SkipCancelled, Start, SessionReady,
                SessionFailed, Resend, RetryFailed, RetryAnswered, Complete,
                SendRejected, SendResolved, TimerFires, Release, Await
  <2>4. ASSUME NEW q \in Runs, AbandonedSendSettles(q) \/ Chunk(q) \/ Cancel(q)
        PROVE  pc' = pc
    BY <2>4 DEF AbandonedSendSettles, Chunk, Cancel
  <2>5. CASE UNCHANGED vars
    BY <2>5 DEF vars
  <2> QED
    BY <2>1, <2>2, <2>3, <2>4, <2>5 DEF Next
<1>2. IInv /\ [Next]_vars
        => [\A r \in Runs :
              (pc[r] = "lockwait" /\ status[r] = "cancelled")
                => pc'[r] \in {"lockwait", "done"}]_vars
  BY <1>1
<1> QED
  BY <1>2, IInvInductive, PTL DEF Spec, CancelledInQueueNeverRuns

-----------------------------------------------------------------------------
(* Refinement: the executor implements SessionQueue *)

\* Who is admitted is the holder of the lock, or nobody.
LEMMA AdmittedIsHolder ==
  ASSUME IInv, NEW r \in Runs, HoldsLock(r)
  PROVE  Admitted(session[r]) = IF pc[r] \in Executing THEN {r} ELSE {}
BY DEF IInv, Locks, ExecutingHoldsLock, HoldsLock, Admitted

LEMMA SubmitEnqueues ==
  ASSUME IInv, Submit
  PROVE  Promised!Next
<1> DEFINE r == submitted + 1
           t == session[r]
<1>1. /\ r \in Runs /\ t \in Sessions
      /\ session' = session
      /\ lock \in [Sessions -> Seq(Runs)]
      /\ pc \in [Runs -> Locations]
      /\ pc[r] = "none"
  BY MaxRunsAssumption DEF IInv, TypeOK, Runs, Submit, RunLifecycle
<1>2. /\ lock'[t] = Append(lock[t], r)
      /\ \A s \in Sessions \ {t} : lock'[s] = lock[s]
      /\ pc'[r] = "lockwait"
      /\ \A q \in Runs \ {r} : pc'[q] = pc[q]
  BY <1>1 DEF Submit
<1> HIDE DEF r, t
<1>3. \A s \in Sessions : lock[s] # <<>> => /\ Head(lock[s]) \in Runs
                                            /\ Head(lock[s]) # r
  <2> SUFFICES ASSUME NEW s \in Sessions, lock[s] # <<>>
               PROVE  Head(lock[s]) \in Runs /\ Head(lock[s]) # r
    OBVIOUS
  <2>1. lock[s][1] \in Runs /\ Head(lock[s]) = lock[s][1] /\ 1 \in 1 .. Len(lock[s])
    BY <1>1
  <2>2. pc[lock[s][1]] # "none"
    BY <2>1 DEF IInv, Locks, LockChainExact
  <2> QED
    BY <2>1, <2>2, <1>1
<1>4. \A s \in Sessions : Waiting(s)' = IF s = t THEN Append(Waiting(s), r)
                                        ELSE Waiting(s)
  <2> SUFFICES ASSUME NEW s \in Sessions
               PROVE  Waiting(s)' = IF s = t THEN Append(Waiting(s), r)
                                    ELSE Waiting(s)
    OBVIOUS
  <2>1. lock[s] \in Seq(Runs)
    BY <1>1
  <2>2. CASE s # t
    BY <2>1, <2>2, <1>1, <1>2, <1>3 DEF Waiting
  <2>3. CASE s = t /\ lock[s] = <<>>
    <3>1. lock'[s] = <<r>> /\ pc'[r] = "lockwait"
      BY <2>3, <1>1, <1>2
    <3> QED
      BY <3>1, <2>3 DEF Waiting, Executing
  <2>4. CASE s = t /\ lock[s] # <<>>
    <3>1. /\ lock'[s] = Append(lock[s], r)
          /\ lock'[s] # <<>>
          /\ Head(lock'[s]) = Head(lock[s])
          /\ Tail(lock'[s]) = Append(Tail(lock[s]), r)
      BY <2>1, <2>4, <1>1, <1>2
    <3>2. pc'[Head(lock[s])] = pc[Head(lock[s])]
      BY <2>4, <1>1, <1>2, <1>3
    <3> QED
      BY <3>1, <3>2, <2>4 DEF Waiting
  <2> QED
    BY <2>2, <2>3, <2>4
<1>5. \A s \in Sessions : Admitted(s)' = Admitted(s)
  BY <1>1, <1>2 DEF Admitted, Executing
<1>6. Promised!Enqueue(t, r)
  BY <1>1, <1>4, <1>5 DEF Promised!Enqueue
<1> QED
  BY <1>1, <1>6 DEF Promised!Next, Promised!Enqueue

\* A step of the lock holder admits, discards or finishes its run, or stutters.
LEMMA HolderStep ==
  ASSUME IInv, session' = session, NEW r \in Runs, HoldsLock(r),
         pc[r] \notin {"none", "done"},
         Release(r) \/ \E location \in Executing : Await(r, location)
  PROVE  Promised!Next \/ UNCHANGED Promised!queueVars
<1>0. PICK t \in Sessions : t = session[r]
  BY DEF IInv, TypeOK
<1>1. /\ t = session[r]
      /\ lock \in [Sessions -> Seq(Runs)]
      /\ pc \in [Runs -> Locations]
      /\ lock[t] # <<>> /\ Head(lock[t]) = r
  BY <1>0 DEF IInv, TypeOK, HoldsLock
<1>2. /\ pc' = [pc EXCEPT ![r] = pc'[r]]
      /\ \A s \in Sessions \ {t} : lock'[s] = lock[s]
  BY <1>1 DEF Release, Await
<1>3. \A s \in Sessions \ {t} : lock[s] # <<>> =>
        Head(lock[s]) \in Runs /\ Head(lock[s]) # r
  <2> SUFFICES ASSUME NEW s \in Sessions \ {t}, lock[s] # <<>>
               PROVE  Head(lock[s]) \in Runs /\ Head(lock[s]) # r
    OBVIOUS
  <2>1. lock[s][1] \in Runs /\ Head(lock[s]) = lock[s][1] /\ 1 \in 1 .. Len(lock[s])
    BY <1>1
  <2>2. session[lock[s][1]] = s
    BY <2>1 DEF IInv, Locks, LockChainExact
  <2> QED
    BY <1>1, <2>1, <2>2
<1>4. \A s \in Sessions \ {t} : Waiting(s)' = Waiting(s) /\ Admitted(s)' = Admitted(s)
  <2>1. ASSUME NEW s \in Sessions \ {t}
        PROVE  Waiting(s)' = Waiting(s)
    BY <1>1, <1>2, <1>3 DEF Waiting
  <2>2. ASSUME NEW s \in Sessions \ {t}
        PROVE  Admitted(s)' = Admitted(s)
    BY <1>1, <1>2 DEF Admitted
  <2> QED
    BY <2>1, <2>2
<1>5. /\ Admitted(t) = IF pc[r] \in Executing THEN {r} ELSE {}
      /\ Waiting(t) = IF pc[r] \in Executing THEN Tail(lock[t]) ELSE lock[t]
  BY <1>1, AdmittedIsHolder DEF Waiting
<1>6. Admitted(t)' = IF pc'[r] \in Executing THEN {r} ELSE {}
  BY <1>1, <1>2 DEF Admitted, IInv, Locks, ExecutingHoldsLock, HoldsLock
<1>7. CASE Release(r)
  <2>1. pc'[r] = "done" /\ lock'[t] = Tail(lock[t])
    BY <1>1, <1>7 DEF Release
  <2>2. lock'[t] # <<>> => Head(lock'[t]) \in Runs /\ pc'[Head(lock'[t])] \notin Executing
    <3> SUFFICES ASSUME lock'[t] # <<>>
                 PROVE  Head(lock'[t]) \in Runs /\ pc'[Head(lock'[t])] \notin Executing
      OBVIOUS
    <3>1. lock[t] \in Seq(Runs)
      BY <1>1
    <3>2. Head(lock'[t]) \in Runs /\ Head(lock'[t]) = lock[t][2] /\ 2 \in 1 .. Len(lock[t])
      BY <2>1, <3>1, <1>1
    <3>3. session[lock[t][2]] = t
      BY <1>1, <3>2 DEF IInv, Locks, LockChainExact
    <3>4. Admitted(t)' = {}
      BY <1>6, <2>1 DEF Executing
    <3> QED
      BY <3>2, <3>3, <3>4 DEF Admitted
  <2>3. Waiting(t)' = Tail(lock[t])
    BY <2>1, <2>2 DEF Waiting
  <2>4. CASE pc[r] \in Executing
    <3>1. Promised!Finish(t)
      BY <1>1, <1>4, <1>5, <1>6, <2>1, <2>3, <2>4
         DEF Promised!Finish, Executing
    <3> QED
      BY <1>1, <3>1 DEF Promised!Next, Promised!Finish
  <2>5. CASE pc[r] \notin Executing
    <3>1. Promised!Discard(t)
      BY <1>1, <1>4, <1>5, <1>6, <2>1, <2>3, <2>5
         DEF Promised!Discard, Executing
    <3> QED
      BY <1>1, <3>1 DEF Promised!Next, Promised!Discard
  <2> QED
    BY <2>4, <2>5
<1>8. ASSUME NEW location \in Executing, Await(r, location)
      PROVE  Promised!Next \/ UNCHANGED Promised!queueVars
  <2>1. pc'[r] \in Executing /\ lock'[t] = lock[t]
    BY <1>1, <1>8 DEF Await
  <2>2. Waiting(t)' = Tail(lock[t])
    BY <1>1, <2>1 DEF Waiting
  <2>3. CASE pc[r] \in Executing
    <3>1. \A s \in Sessions : Waiting(s)' = Waiting(s) /\ Admitted(s)' = Admitted(s)
      BY <1>4, <1>5, <1>6, <2>1, <2>2, <2>3
    <3> QED
      BY <3>1 DEF Promised!queueVars
  <2>4. CASE pc[r] \notin Executing
    <3>1. Promised!Admit(t)
      BY <1>1, <1>4, <1>5, <1>6, <2>1, <2>2, <2>4
         DEF Promised!Admit
    <3> QED
      BY <1>1, <3>1 DEF Promised!Next, Promised!Admit
  <2> QED
    BY <2>3, <2>4
<1> QED
  BY <1>7, <1>8

\* The background executor, with its retries, timers and cancellations,
\* implements one FIFO queue with one active run per founder session.
THEOREM ExecutorImplementsQueue == Spec => ImplementsSessionQueue
<1>1. Init => Promised!Init
  <2> SUFFICES ASSUME Init PROVE Promised!Init
    OBVIOUS
  <2>1. \A s \in Sessions : Waiting(s) = <<>> /\ Admitted(s) = {}
    BY DEF Init, Waiting, Admitted, Executing
  <2> QED
    BY <2>1 DEF Promised!Init
<1>2. IInv /\ [Next]_vars => [Promised!Next]_(Promised!queueVars)
  <2> SUFFICES ASSUME IInv, [Next]_vars
               PROVE  Promised!Next \/ UNCHANGED Promised!queueVars
    OBVIOUS
  <2>1. CASE Submit
    BY <2>1, SubmitEnqueues
  <2>2. ASSUME session' = session, NEW r \in Runs, HoldsLock(r),
               pc[r] \notin {"none", "done"},
               Release(r) \/ \E location \in Executing : Await(r, location)
        PROVE  Promised!Next \/ UNCHANGED Promised!queueVars
    BY <2>2, HolderStep
  <2>3. CASE session' = session /\ UNCHANGED <<pc, lock>>
    BY <2>3 DEF Promised!queueVars, Waiting, Admitted
  <2> QED
    BY <2>1, <2>2, <2>3, LockStepKinds
<1> QED
  BY <1>1, <1>2, IInvInductive, PTL DEF Spec, ImplementsSessionQueue, Promised!Spec
-----------------------------------------------------------------------------
(* The logs *)

\* Events that end as a terminal status asks for decide whatever came before.
LEMMA EndingDecides ==
  ASSUME NEW l \in Seq(EventTypes), NEW events \in Seq(EventTypes),
         NEW st \in Terminal, events # <<>>,
         events[Len(events)] = TerminalEventOf(st)
  PROVE  ConcludesAs(l \o events, st)
<1> DEFINE all == l \o events
<1>1. /\ Len(all) \in Nat \ {0}
      /\ Len(all) = Len(l) + Len(events)
      /\ all[Len(all)] = events[Len(events)]
  OBVIOUS
<1>2. Len(all) \in 1 .. Len(all) /\ Len(all) + 1 .. Len(all) = {}
  BY <1>1
<1> QED
  BY <1>1, <1>2 DEF ConcludesAs

\* Events that are not terminal change nothing.
LEMMA OthersDecideNothing ==
  ASSUME NEW l \in Seq(EventTypes), NEW events \in Seq(EventTypes \ TerminalEvents),
         NEW st, NEW new, st = new \/ {st, new} \cap Terminal = {},
         ConcludesAs(l, st)
  PROVE  ConcludesAs(l \o events, new)
<1> DEFINE all == l \o events
<1>1. /\ Len(l) \in Nat /\ Len(events) \in Nat
      /\ Len(all) = Len(l) + Len(events)
      /\ \A i \in 1 .. Len(l) : all[i] = l[i]
      /\ \A i \in Len(l) + 1 .. Len(all) : all[i] = events[i - Len(l)]
  OBVIOUS
<1>2. \A i \in Len(l) + 1 .. Len(all) : all[i] \notin TerminalEvents
  <2> SUFFICES ASSUME NEW i \in Len(l) + 1 .. Len(all)
               PROVE  all[i] \notin TerminalEvents
    OBVIOUS
  <2>1. i - Len(l) \in 1 .. Len(events)
    BY <1>1
  <2> QED
    BY <1>1, <2>1
<1> HIDE DEF all
<1>3. CASE st \in Terminal
  <2>1. PICK i \in 1 .. Len(l) :
          /\ l[i] = TerminalEventOf(st)
          /\ \A j \in i + 1 .. Len(l) : l[j] \notin TerminalEvents
    BY <1>3 DEF ConcludesAs
  <2>2. new = st
    BY <1>3
  <2>3. i \in 1 .. Len(all) /\ all[i] = TerminalEventOf(st)
    BY <1>1, <2>1
  <2>4. \A j \in i + 1 .. Len(all) : all[j] \notin TerminalEvents
    <3> SUFFICES ASSUME NEW j \in i + 1 .. Len(all)
                 PROVE  all[j] \notin TerminalEvents
      OBVIOUS
    <3>1. CASE j <= Len(l)
      <4>1. j \in i + 1 .. Len(l) /\ j \in 1 .. Len(l)
        BY <3>1, <1>1
      <4> QED
        BY <4>1, <1>1, <2>1
    <3>2. CASE j > Len(l)
      BY <3>2, <1>1, <1>2
    <3> QED
      BY <3>1, <3>2, <1>1
  <2> QED
    BY <1>3, <2>2, <2>3, <2>4 DEF ConcludesAs, all
<1>4. CASE st \notin Terminal
  <2>1. new \notin Terminal
    BY <1>4
  <2>2. \A i \in 1 .. Len(l) : l[i] \notin TerminalEvents
    BY <1>4 DEF ConcludesAs
  <2>3. \A i \in 1 .. Len(all) : all[i] \notin TerminalEvents
    BY <1>1, <1>2, <2>2
  <2> QED
    BY <2>1, <2>3 DEF ConcludesAs, all
<1> QED
  BY <1>3, <1>4

\* What a step may write about run q: nothing, its creation, a terminal status
\* with its event, or events that conclude nothing.
Ends(q, events) ==
  /\ events \in Seq(EventTypes) /\ events # <<>>
  /\ status'[q] \in Terminal
  /\ events[Len(events)] = TerminalEventOf(status'[q])

Continues(q, events) ==
  /\ events \in Seq(EventTypes \ TerminalEvents)
  /\ status'[q] = status[q] \/ {status[q], status'[q]} \cap Terminal = {}

Written(q) ==
  \/ /\ status'[q] = "queued"
     /\ log'[q] = <<"run.created">>
  \/ /\ q \in stored
     /\ \/ status'[q] = status[q] /\ log'[q] = log[q]
        \/ \E events \in Seq(EventTypes) :
             /\ log'[q] = log[q] \o events
             /\ Ends(q, events) \/ Continues(q, events)

LEMMA WrittenAgrees ==
  ASSUME TypeOK, LogAgreesWithStatus, NEW q \in Runs, Written(q)
  PROVE  ConcludesAs(log'[q], status'[q])
<1>0. log[q] \in Seq(EventTypes)
  BY DEF TypeOK
<1>1. CASE status'[q] = "queued" /\ log'[q] = <<"run.created">>
  BY <1>1 DEF ConcludesAs, Terminal, TerminalEvents
<1>2. ASSUME q \in stored
      PROVE  ConcludesAs(log[q], status[q])
  BY <1>2 DEF LogAgreesWithStatus
<1>3. ASSUME NEW events \in Seq(EventTypes), log'[q] = log[q] \o events,
             Ends(q, events)
      PROVE  ConcludesAs(log'[q], status'[q])
  BY <1>0, <1>3, EndingDecides DEF Ends
<1>4. ASSUME NEW events \in Seq(EventTypes), log'[q] = log[q] \o events,
             q \in stored, Continues(q, events)
      PROVE  ConcludesAs(log'[q], status'[q])
  BY <1>0, <1>2, <1>4, OthersDecideNothing DEF Continues
<1> QED
  BY <1>1, <1>2, <1>3, <1>4 DEF Written

\* Status and event are written together, or not at all.
LEMMA MarkWrites ==
  ASSUME TypeOK, NEW r \in Runs, NEW st \in Statuses, NEW events \in Seq(EventTypes),
         MarkOrThrow(r, st, events) \/ (r \in stored /\ Mark(r, st, events)),
         \/ /\ st \in Terminal
            /\ events # <<>> /\ events[Len(events)] = TerminalEventOf(st)
         \/ /\ events \in Seq(EventTypes \ TerminalEvents)
            /\ {st, status[r]} \cap Terminal = {}
  PROVE  \A q \in stored : Written(q)
<1> SUFFICES ASSUME NEW q \in stored PROVE Written(q)
  OBVIOUS
<1>0. /\ q \in Runs /\ status \in [Runs -> Statuses]
      /\ log \in [Runs -> Seq(EventTypes)]
  BY DEF TypeOK
<1>1. CASE UNCHANGED <<status, log>> \/ q # r
  <2>1. status'[q] = status[q] /\ log'[q] = log[q]
    BY <1>0, <1>1 DEF MarkOrThrow, Mark
  <2> QED
    BY <2>1 DEF Written
<1>2. CASE r \in stored /\ q = r /\ Mark(r, st, events)
  <2>1. status'[q] = st /\ log'[q] = log[q] \o events
    BY <1>0, <1>2 DEF Mark, LogAfter
  <2>2. Ends(q, events) \/ Continues(q, events)
    BY <1>2, <2>1 DEF Ends, Continues
  <2> QED
    BY <2>1, <2>2 DEF Written
<1> QED
  BY <1>1, <1>2 DEF MarkOrThrow

\* What the handlers pass to markRunning, markFailed and markCompleted.
LEMMA HandlersWrite ==
  ASSUME IInv, NEW r \in Runs,
         Advance(r) \/ SendSettles(r) \/ TimerFires(r) \/ Cancel(r)
  PROVE  stored' = stored /\ \A q \in stored : Written(q)
<1> DEFINE Failed == MarkOrThrow(r, "failed", <<"run.failed">>)
<1>0. /\ TypeOK
      /\ {"failed", "cancelled", "completed"} \subseteq Terminal
      /\ Terminal \subseteq Statuses /\ "running" \in Statuses
      /\ TerminalEventOf("failed") = "run.failed"
      /\ TerminalEventOf("cancelled") = "run.cancelled"
      /\ TerminalEventOf("completed") = "run.completed"
  BY DEF IInv, Terminal, Statuses, Active, TerminalEventOf
<1>1. CASE stored' = stored /\ UNCHANGED <<status, log>>
  BY <1>1 DEF Written
<1>2. ASSUME \/ MarkOrThrow(r, "failed", <<"run.failed">>)
             \/ r \in stored /\ Mark(r, "failed", <<"run.failed">>)
      PROVE  \A q \in stored : Written(q)
  <2>1. LET ev == <<"run.failed">> IN ev # <<>> /\ ev[Len(ev)] = "run.failed"
    OBVIOUS
  <2> QED
    BY <1>0, <1>2, <2>1, EventLists, MarkWrites
<1>3. ASSUME MarkOrThrow(r, "failed", <<"run.failed", "run.failed">>)
      PROVE  \A q \in stored : Written(q)
  <2>1. LET ev == <<"run.failed", "run.failed">>
        IN  ev # <<>> /\ ev[Len(ev)] = "run.failed"
    OBVIOUS
  <2> QED
    BY <1>0, <1>3, <2>1, EventLists, MarkWrites
<1>4. CASE SkipCancelled(r) \/ SessionReady(r) \/ Resend(r) \/ RetryAnswered(r)
  BY <1>1, <1>4 DEF SkipCancelled, SessionReady, Resend, RetryAnswered
<1>5. CASE Start(r)
  <2>1. {"running", status[r]} \cap Terminal = {}
    BY <1>5 DEF IInv, RunLifecycle, Start, Terminal
  <2>2. <<"run.started">> \in Seq(EventTypes \ TerminalEvents)
    BY DEF EventTypes, TerminalEvents
  <2>3. stored' = stored /\ MarkOrThrow(r, "running", <<"run.started">>)
    BY <1>5 DEF Start
  <2> QED
    BY <1>0, <2>1, <2>2, <2>3, EventLists, MarkWrites
<1>6. CASE SessionFailed(r) \/ SendRejected(r) \/ RetryFailed(r)
  BY <1>2, <1>6 DEF SessionFailed, SendRejected, RetryFailed
<1>7. CASE SendResolved(r)
  BY <1>1, <1>2, <1>7 DEF SendResolved
<1>8. CASE TimerFires(r)
  BY <1>1, <1>2, <1>3, <1>8 DEF TimerFires
<1>9. CASE Complete(r)
  <2>1. LET ev == <<"assistant.final", "run.completed">>
        IN  ev # <<>> /\ ev[Len(ev)] = "run.completed"
    OBVIOUS
  <2>2. stored' = stored
        /\ MarkOrThrow(r, "completed", <<"assistant.final", "run.completed">>)
    BY <1>9 DEF Complete
  <2> QED
    BY <1>0, <2>1, <2>2, EventLists, MarkWrites
<1>10. CASE Cancel(r)
  <2>1. LET ev == <<"run.cancelled">> IN ev # <<>> /\ ev[Len(ev)] = "run.cancelled"
    OBVIOUS
  <2>2. stored' = stored /\ r \in stored /\ Mark(r, "cancelled", <<"run.cancelled">>)
    BY <1>10 DEF Cancel
  <2> QED
    BY <1>0, <2>1, <2>2, EventLists, MarkWrites
<1> QED
  BY <1>4, <1>5, <1>6, <1>7, <1>8, <1>9, <1>10 DEF Advance, SendSettles

\* Every step writes about every run it leaves in the store.
LEMMA StepWrites ==
  ASSUME IInv, [Next]_vars
  PROVE  \A q \in stored' : q \in Runs /\ (Written(q) \/ UNCHANGED <<stored, status, log>>)
<1>0. /\ stored \subseteq Runs /\ status \in [Runs -> Statuses]
      /\ log \in [Runs -> Seq(EventTypes)]
  BY DEF IInv, TypeOK
<1>1. CASE Submit
  <2> SUFFICES ASSUME NEW q \in stored' PROVE q \in Runs /\ Written(q)
    OBVIOUS
  <2>0. submitted + 1 \in Runs
    BY <1>1, MaxRunsAssumption DEF IInv, TypeOK, Submit, Runs
  <2>1. q \in stored \cup {submitted + 1} /\ q \in Runs
    BY <1>0, <1>1, <2>0 DEF Submit
  <2>2. CASE q = submitted + 1
    BY <1>1, <2>1, <2>2 DEF Submit, Written
  <2>3. CASE q # submitted + 1 /\ q \notin Superseded(session[submitted + 1])
    BY <1>1, <2>1, <2>3 DEF Submit, Written
  <2>4. CASE q # submitted + 1 /\ q \in Superseded(session[submitted + 1])
    <3> DEFINE ev == <<"run.cancelled">>
    <3>1. status'[q] = "cancelled" /\ log'[q] = Append(log[q], "run.cancelled")
      BY <1>1, <2>1, <2>4 DEF Submit
    <3>2. log[q] \in Seq(EventTypes)
      BY <1>0, <2>1
    <3>3. log'[q] = log[q] \o ev /\ ev \in Seq(EventTypes)
      BY <3>1, <3>2, EventLists
    <3>4. Ends(q, ev)
      BY <3>1, EventLists DEF Ends, Terminal, TerminalEventOf
    <3> QED
      BY <2>1, <2>4, <3>3, <3>4 DEF Written
  <2> QED
    BY <2>2, <2>3, <2>4
<1>2. CASE Cleanup
  BY <1>0, <1>2 DEF Cleanup, Written
<1>3. ASSUME NEW r \in Runs,
             Advance(r) \/ SendSettles(r) \/ TimerFires(r) \/ Cancel(r)
      PROVE  \A q \in stored' : q \in Runs /\ Written(q)
  BY <1>0, <1>3, HandlersWrite
<1>4. ASSUME NEW r \in Runs, AbandonedSendSettles(r)
      PROVE  UNCHANGED <<stored, status, log>>
  BY <1>4 DEF AbandonedSendSettles
<1>5. ASSUME NEW r \in Runs, Chunk(r), NEW q \in stored'
      PROVE  q \in Runs /\ Written(q)
  <2> DEFINE ev == <<"assistant.delta">>
  <2>1. q \in stored /\ q \in Runs /\ status' = status
    BY <1>0, <1>5 DEF Chunk
  <2>2. CASE q # r
    BY <1>0, <1>5, <2>1, <2>2 DEF Chunk, Written
  <2>3. CASE q = r
    <3>1. log'[q] = log[q] \o ev
      BY <1>0, <1>5, <2>1, <2>3 DEF Chunk, LogAfter
    <3>2. ev \in Seq(EventTypes) /\ ev \in Seq(EventTypes \ TerminalEvents)
      BY DEF EventTypes, TerminalEvents
    <3> QED
      BY <2>1, <3>1, <3>2 DEF Written, Continues
  <2> QED
    BY <2>1, <2>2, <2>3
<1>6. CASE UNCHANGED vars
  BY <1>0, <1>6 DEF vars
<1> QED
  BY <1>0, <1>1, <1>2, <1>3, <1>4, <1>5, <1>6 DEF Next

\* The last terminal event of a log names the status of its run, whatever race
\* overwrites a terminal status (founder-run-store.ts, appendEvent and mark*).
THEOREM LogsAgree == Spec => []LogAgreesWithStatus
<1>1. Init => LogAgreesWithStatus
  BY DEF Init, LogAgreesWithStatus
<1>2. IInv /\ LogAgreesWithStatus /\ [Next]_vars => LogAgreesWithStatus'
  <2> SUFFICES ASSUME IInv, LogAgreesWithStatus, [Next]_vars, NEW q \in stored'
               PROVE  ConcludesAs(log'[q], status'[q])
    BY DEF LogAgreesWithStatus
  <2>1. q \in Runs /\ (Written(q) \/ UNCHANGED <<stored, status, log>>)
    BY StepWrites
  <2>2. CASE UNCHANGED <<stored, status, log>>
    BY <2>2 DEF LogAgreesWithStatus
  <2> QED
    BY <2>1, <2>2, WrittenAgrees DEF IInv
<1> QED
  BY <1>1, <1>2, IInvInductive, PTL DEF Spec

\* The status a client sees follows what the executor does.
THEOREM LifecycleHolds == Spec => []RunLifecycle
BY IInvInductive, PTL DEF IInv

-----------------------------------------------------------------------------
(* Sends to the engine *)

\* While the first send races its timer the run can be found in the store, so
\* the timer that ends the race marks it failed; a send is in flight until it
\* settles or its run has ended that way.
Sends ==
  \A r \in Runs :
    /\ pc[r] = "send" => r \in timer /\ r \in stored
    /\ r \in inflight => \/ pc[r] \in {"send", "retry"}
                         \/ pc[r] = "done" /\ status[r] = "failed"

LEMMA SendsStep ==
  ASSUME IInv, Sends, [Next]_vars
  PROVE  Sends'
<1>0. /\ status \in [Runs -> Statuses] /\ pc \in [Runs -> Locations]
      /\ stored \subseteq Runs /\ timer \subseteq Runs /\ inflight \subseteq Runs
  BY DEF IInv, TypeOK
<1>1. CASE Submit
  <2> DEFINE r == submitted + 1
  <2>1. r \in Runs /\ pc[r] = "none"
    BY <1>1, MaxRunsAssumption DEF IInv, TypeOK, RunLifecycle, Submit, Runs
  <2>2. /\ pc' = [pc EXCEPT ![r] = "lockwait"] /\ stored' = stored \cup {r}
        /\ UNCHANGED <<timer, inflight>>
        /\ \A q \in Runs \ {r} : status[q] = "failed" => status'[q] = "failed"
    BY <1>1 DEF Submit, Superseded
  <2>3. r \notin inflight
    BY <2>1 DEF Sends
  <2> HIDE DEF r
  <2> QED BY <1>0, <2>1, <2>2, <2>3 DEF Sends
<1>2. CASE Cleanup
  BY <1>2 DEF Cleanup, Sends
<1>3. ASSUME NEW r \in Runs, Advance(r) \/ SendSettles(r) \/ TimerFires(r) \/ Cancel(r)
      PROVE  Sends'
  <2>1. /\ stored' = stored
        /\ \A q \in Runs \ {r} : /\ status'[q] = status[q] /\ pc'[q] = pc[q]
                                 /\ q \in timer => q \in timer'
                                 /\ q \in inflight' => q \in inflight
    BY <1>0, <1>3 DEF Advance, SendSettles, SkipCancelled, Start, SessionReady,
                SessionFailed, Resend, RetryFailed, RetryAnswered, Complete,
                SendRejected, SendResolved, TimerFires, Cancel,
                MarkOrThrow, Mark, Release, Await
  <2>2. CASE Advance(r)
    <3>1. CASE SkipCancelled(r) \/ Start(r) \/ SessionFailed(r) \/ Complete(r)
      BY <1>0, <2>1, <3>1 DEF SkipCancelled, Start, SessionFailed, Complete,
         MarkOrThrow, Mark, Release, Await, Sends
    <3>2. CASE SessionReady(r)
      BY <1>0, <2>1, <3>2 DEF SessionReady, Release, Await, Sends
    <3>3. CASE Resend(r) \/ RetryFailed(r) \/ RetryAnswered(r)
      BY <1>0, <2>1, <3>3 DEF Resend, RetryFailed, RetryAnswered,
         MarkOrThrow, Mark, Release, Await, Sends
    <3> QED BY <2>2, <3>1, <3>2, <3>3 DEF Advance
  <2>3. CASE SendSettles(r)
    BY <1>0, <2>1, <2>3 DEF SendSettles, SendRejected, SendResolved, MarkOrThrow, Mark, Release,
       Await, Sends
  <2>4. CASE TimerFires(r)
    <3>1. CASE pc[r] = "send"
      <4>1. r \in stored
        BY <3>1 DEF Sends
      <4>2. status'[r] = "failed" /\ pc'[r] = "done"
        BY <1>0, <2>4, <3>1, <4>1 DEF TimerFires, MarkOrThrow, Mark, Release
      <4> QED BY <2>1, <4>2 DEF Sends
    <3>2. CASE pc[r] # "send"
      <4>1. /\ pc'[r] = pc[r] /\ inflight' = inflight
            /\ status'[r] = status[r] \/ status'[r] = "failed"
        BY <1>0, <2>4, <3>2 DEF TimerFires, Mark
      <4> QED BY <2>1, <3>2, <4>1 DEF Sends
    <3> QED BY <3>1, <3>2
  <2>5. CASE Cancel(r)
    BY <1>0, <2>1, <2>5 DEF Cancel, Mark, Sends
  <2> QED BY <1>3, <2>2, <2>3, <2>4, <2>5
<1>4. ASSUME NEW r \in Runs, AbandonedSendSettles(r) \/ Chunk(r)
      PROVE  Sends'
  BY <1>4 DEF AbandonedSendSettles, Chunk, Sends
<1>5. CASE UNCHANGED vars
  BY <1>5 DEF vars, Sends
<1> QED
  BY <1>1, <1>2, <1>3, <1>4, <1>5 DEF Next

\* The lock serialises the sends of a session except for those that a timer
\* gave up: their runs are over and reported failed, whatever they still do to
\* the engine's session (founder-run-executor.ts:87 promises more).
THEOREM OnlyAbandonedSendsOverlap == Spec => []OverlapsAreAbandoned
<1>1. Init => Sends
  BY DEF Init, Sends
<1>2. IInv /\ Sends => OverlapsAreAbandoned
  <2> SUFFICES ASSUME IInv, Sends, NEW r \in inflight, NEW q \in inflight,
                      session[r] = session[q], r # q
               PROVE  \E a \in {r, q} : pc[a] = "done" /\ status[a] = "failed"
    BY DEF OverlapsAreAbandoned
  <2>1. r \in Runs /\ q \in Runs
    BY DEF IInv, TypeOK
  <2>2. ~(pc[r] \in Executing /\ pc[q] \in Executing)
    BY <2>1 DEF IInv, Locks, ExecutingHoldsLock, HoldsLock
  <2> QED BY <2>1, <2>2 DEF Sends, Executing
<1> QED
  BY <1>1, <1>2, SendsStep, IInvInductive, PTL DEF Spec

=============================================================================
