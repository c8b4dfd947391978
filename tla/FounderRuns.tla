----------------------------- MODULE FounderRuns -----------------------------
(***************************************************************************)
(* Founder Development Mode: the in-memory FounderRunStore and the          *)
(* background FounderRunExecutor of apps/backend/src/customer-zero.         *)
(*                                                                         *)
(* A run is created by submit(), waits for the lock of its session, calls   *)
(* the engine (once, or twice after an empty answer), persists the          *)
(* transcript and becomes terminal.  Everything between two awaits of the   *)
(* executor is one action; the user's cancel(), the ten-minute timer, the   *)
(* engine's chunks and the store's cleanup interleave with those actions.   *)
(*                                                                         *)
(* Runs are numbered in submission order, which is also the insertion order *)
(* of the store's Map.  A run object outlives its removal from the store:   *)
(* status[r] is the object's field, `stored' the keys of the Map.           *)
(***************************************************************************)
EXTENDS Naturals, Sequences

CONSTANTS Sessions,     \* session keys founder-development:<org>:<user>
          MaxRuns,      \* bound: messages submitted
          MaxEvents     \* bound: length of one run's event log for chunks and
                        \* for repeated cancels, which alone could grow forever

ASSUME MaxRunsAssumption == MaxRuns \in Nat
ASSUME MaxEventsAssumption == MaxEvents \in Nat

Runs == 1 .. MaxRuns

VARIABLES
  session,     \* session[r]: the session run r is (or will be) submitted to
  submitted,   \* how many runs have been submitted
  status,      \* FounderRun.status ("none" before submit)
  stored,      \* keys of FounderRunStore.runs
  log,         \* log[r]: event types of FounderRunStore.events.get(r)
  lock,        \* lock[s]: the promise chain of sessionLocks.get(s), holder first
  pc,          \* the await executeInBackground(r) is suspended at
  timer,       \* runs whose timeoutPromise has not fired
  inflight     \* runs with an engine.sendMessage that has not settled

vars == <<session, submitted, status, stored, log, lock, pc, timer, inflight>>

Active == {"queued", "running"}
Terminal == {"completed", "failed", "cancelled"}
Statuses == {"none"} \cup Active \cup Terminal

TerminalEvents == {"run.completed", "run.failed", "run.cancelled"}
EventTypes == {"run.created", "run.started", "assistant.delta",
               "assistant.final"} \cup TerminalEvents

\* Suspension points while the run holds the lock of its session:
\*   init     engine.getSession / createSession
\*   send     Promise.race(engine.sendMessage, timeoutPromise)
\*   reset    engine.closeSession / createSession before the retry
\*   retry    the second engine.sendMessage, which no timer guards
\*   persist  onPersist
Executing == {"init", "send", "reset", "retry", "persist"}
Locations == {"none", "lockwait", "done"} \cup Executing

TypeOK ==
  /\ session \in [Runs -> Sessions]
  /\ submitted \in 0 .. MaxRuns
  /\ status \in [Runs -> Statuses]
  /\ stored \in SUBSET Runs
  /\ log \in [Runs -> Seq(EventTypes)]
  /\ lock \in [Sessions -> Seq(Runs)]
  /\ pc \in [Runs -> Locations]
  /\ timer \in SUBSET Runs
  /\ inflight \in SUBSET Runs

Init ==
  /\ session \in [Runs -> Sessions]
  /\ submitted = 0
  /\ status = [r \in Runs |-> "none"]
  /\ stored = {}
  /\ log = [r \in Runs |-> <<>>]
  /\ lock = [s \in Sessions |-> <<>>]
  /\ pc = [r \in Runs |-> "none"]
  /\ timer = {}
  /\ inflight = {}

-----------------------------------------------------------------------------
(* FounderRunStore *)

\* appendEvent: the event is dropped when the run's list was cleaned up.
LogAfter(r, events) == IF r \in stored THEN log[r] \o events ELSE log[r]

\* getActiveRun: the first run of the session that is queued or running.
IsActiveRun(s, r) ==
  /\ r \in stored
  /\ session[r] = s
  /\ status[r] \in Active

\* create() cancels the run getActiveRun returns, if that one is queued.
Superseded(s) ==
  {r \in Runs : /\ IsActiveRun(s, r)
                /\ \A q \in Runs : IsActiveRun(s, q) => r <= q
                /\ status[r] = "queued"}

\* Mutant of Mark: a second terminal event is suppressed, the status is not.
MarkWithoutSecondEnd(r, newStatus, events) ==
  /\ status' = [status EXCEPT ![r] = newStatus]
  /\ log' = [log EXCEPT ![r] = IF status[r] \in Terminal THEN @
                               ELSE LogAfter(r, events)]

\* markRunning / markCompleted / markFailed on a stored run.
Mark(r, newStatus, events) ==
  /\ status' = [status EXCEPT ![r] = newStatus]
  /\ log' = [log EXCEPT ![r] = LogAfter(r, events)]

\* The same calls when mustGet throws leave the run object as it is.
MarkOrThrow(r, newStatus, events) ==
  IF r \in stored THEN Mark(r, newStatus, events) ELSE UNCHANGED <<status, log>>

-----------------------------------------------------------------------------
(* Session lock *)

HoldsLock(r) ==
  /\ lock[session[r]] # <<>>
  /\ Head(lock[session[r]]) = r

\* The finally block of executeInBackground: release, and the run is over.
Release(r) ==
  /\ pc' = [pc EXCEPT ![r] = "done"]
  /\ lock' = [lock EXCEPT ![session[r]] = Tail(@)]

\* Suspend at another await, keeping the lock.
Await(r, location) ==
  /\ pc' = [pc EXCEPT ![r] = location]
  /\ UNCHANGED lock

-----------------------------------------------------------------------------
(* FounderRunExecutor *)

\* Mutant of Submit: the newest message goes first among those that wait.
SubmitJumpsQueue ==
  LET r == submitted + 1
      s == session[r]
  IN /\ submitted < MaxRuns
     /\ submitted' = r
     /\ status' = [status EXCEPT ![r] = "queued"]
     /\ log' = [log EXCEPT ![r] = <<"run.created">>]
     /\ stored' = stored \cup {r}
     /\ lock' = [lock EXCEPT ![s] = IF @ = <<>> THEN <<r>>
                                    ELSE <<Head(@), r>> \o Tail(@)]
     /\ pc' = [pc EXCEPT ![r] = "lockwait"]
     /\ UNCHANGED <<session, timer, inflight>>

\* submit(): create the run and enter executeInBackground, which joins the
\* lock chain before its first await.
Submit ==
  LET r == submitted + 1
      old == Superseded(session[r])
  IN /\ submitted < MaxRuns
     /\ submitted' = r
     /\ status' = [q \in Runs |-> IF q = r THEN "queued"
                                  ELSE IF q \in old THEN "cancelled"
                                  ELSE status[q]]
     /\ log' = [q \in Runs |-> IF q = r THEN <<"run.created">>
                               ELSE IF q \in old
                                 THEN Append(log[q], "run.cancelled")
                               ELSE log[q]]
     /\ stored' = stored \cup {r}
     /\ lock' = [lock EXCEPT ![session[r]] = Append(@, r)]
     /\ pc' = [pc EXCEPT ![r] = "lockwait"]
     /\ UNCHANGED <<session, timer, inflight>>

\* The lock is acquired by a run that was cancelled while it queued.
SkipCancelled(r) ==
  /\ pc[r] = "lockwait"
  /\ HoldsLock(r)
  /\ status[r] = "cancelled"
  /\ Release(r)
  /\ UNCHANGED <<session, submitted, status, stored, log, timer, inflight>>

\* Mutant of Start: nobody asks whether the run was cancelled while queued.
StartCancelled(r) ==
  /\ pc[r] = "lockwait"
  /\ HoldsLock(r)
  /\ MarkOrThrow(r, "running", <<"run.started">>)
  /\ Await(r, "init")
  /\ UNCHANGED <<session, submitted, stored, timer, inflight>>

\* The lock is acquired: markRunning, then ask the engine for the session.
Start(r) ==
  /\ pc[r] = "lockwait"
  /\ HoldsLock(r)
  /\ status[r] # "cancelled"
  /\ MarkOrThrow(r, "running", <<"run.started">>)
  /\ Await(r, "init")
  /\ UNCHANGED <<session, submitted, stored, timer, inflight>>

\* Mutant of SessionReady: sendMessage is awaited without the timer.
SessionReadyWithoutTimer(r) ==
  /\ pc[r] = "init"
  /\ IF r \in stored
       THEN Await(r, "send") /\ inflight' = inflight \cup {r}
       ELSE Release(r) /\ UNCHANGED inflight
  /\ UNCHANGED <<session, submitted, status, stored, log, timer>>

\* The engine session exists or was created: sendMessage races the timer.
SessionReady(r) ==
  /\ pc[r] = "init"
  /\ IF r \in stored
       THEN /\ Await(r, "send")
            /\ timer' = timer \cup {r}
            /\ inflight' = inflight \cup {r}
       ELSE Release(r) /\ UNCHANGED <<timer, inflight>>
  /\ UNCHANGED <<session, submitted, status, stored, log>>

\* getSession or createSession rejected: SESSION_ERROR.
SessionFailed(r) ==
  /\ pc[r] = "init"
  /\ MarkOrThrow(r, "failed", <<"run.failed">>)
  /\ Release(r)
  /\ UNCHANGED <<session, submitted, stored, timer, inflight>>

\* The first sendMessage rejects (SessionNotFound or an unknown error).  The
\* catch block marks the run failed without looking at its status.
SendRejected(r) ==
  /\ pc[r] = "send"
  /\ inflight' = inflight \ {r}
  /\ MarkOrThrow(r, "failed", <<"run.failed">>)
  /\ Release(r)
  /\ UNCHANGED <<session, submitted, stored, timer>>

\* The first sendMessage resolves: a cancelled run returns, text goes to the
\* transcript, ENGINE_TIMEOUT / EMPTY_RESPONSE is retried (updateProgress
\* throws on a removed run), any other code fails the run.
SendResolved(r) ==
  /\ pc[r] = "send"
  /\ inflight' = inflight \ {r}
  /\ \/ /\ r \in stored /\ status[r] = "cancelled"
        /\ Release(r)
        /\ UNCHANGED <<status, log>>
     \/ /\ ~(r \in stored /\ status[r] = "cancelled")
        /\ \/ Await(r, "persist") /\ UNCHANGED <<status, log>>
           \/ /\ IF r \in stored THEN Await(r, "reset") ELSE Release(r)
              /\ UNCHANGED <<status, log>>
           \/ /\ MarkOrThrow(r, "failed", <<"run.failed">>)
              /\ Release(r)
  /\ UNCHANGED <<session, submitted, stored, timer>>

\* timeoutPromise fires.  It is never cleared, so it may fire at any later
\* point of the run.  If the race is still on, the rejection reaches the catch
\* block, which marks the run failed again; sendMessage itself goes on.
TimerFires(r) ==
  /\ r \in timer
  /\ timer' = timer \ {r}
  /\ LET expired == r \in stored /\ status[r] \in Active IN
       IF pc[r] = "send"
         THEN /\ MarkOrThrow(r, "failed",
                             IF expired THEN <<"run.failed", "run.failed">>
                             ELSE <<"run.failed">>)
              /\ Release(r)
         ELSE /\ IF expired THEN Mark(r, "failed", <<"run.failed">>)
                 ELSE UNCHANGED <<status, log>>
              /\ UNCHANGED <<pc, lock>>
  /\ UNCHANGED <<session, submitted, stored, inflight>>

\* closeSession and createSession are over (best effort): send again.
Resend(r) ==
  /\ pc[r] = "reset"
  /\ Await(r, "retry")
  /\ inflight' = inflight \cup {r}
  /\ UNCHANGED <<session, submitted, status, stored, log, timer>>

\* The retry rejects or returns no text: failed.
RetryFailed(r) ==
  /\ pc[r] = "retry"
  /\ inflight' = inflight \ {r}
  /\ MarkOrThrow(r, "failed", <<"run.failed">>)
  /\ Release(r)
  /\ UNCHANGED <<session, submitted, stored, timer>>

\* The retry returns text.  The status is not read again.
RetryAnswered(r) ==
  /\ pc[r] = "retry"
  /\ inflight' = inflight \ {r}
  /\ Await(r, "persist")
  /\ UNCHANGED <<session, submitted, status, stored, log, timer>>

\* onPersist settles (its failure is recorded, not raised): markCompleted.
Complete(r) ==
  /\ pc[r] = "persist"
  /\ MarkOrThrow(r, "completed", <<"assistant.final", "run.completed">>)
  /\ Release(r)
  /\ UNCHANGED <<session, submitted, stored, timer, inflight>>

\* A sendMessage abandoned by the timer settles; nobody looks at its result.
AbandonedSendSettles(r) ==
  /\ r \in inflight
  /\ pc[r] = "done"
  /\ inflight' = inflight \ {r}
  /\ UNCHANGED <<session, submitted, status, stored, log, lock, pc, timer>>

\* The engine streams a chunk of a send in flight: appendDelta.  Consecutive
\* deltas are kept as one event.
Chunk(r) ==
  /\ r \in inflight
  /\ Len(log[r]) < MaxEvents
  /\ r \in stored => log[r][Len(log[r])] # "assistant.delta"
  /\ log' = [log EXCEPT ![r] = LogAfter(r, <<"assistant.delta">>)]
  /\ UNCHANGED <<session, submitted, status, stored, lock, pc, timer, inflight>>

\* Mutant of Cancel: a completed run can be cancelled.
CancelCompleted(r) ==
  /\ r \in stored
  /\ status[r] # "failed"
  /\ status[r] = "cancelled" => Len(log[r]) < MaxEvents
  /\ Mark(r, "cancelled", <<"run.cancelled">>)
  /\ UNCHANGED <<session, submitted, stored, lock, pc, timer, inflight>>

\* Mutant of Cancel: a status the store does not know.
CancelMisspelt(r) ==
  /\ r \in stored
  /\ status[r] \notin {"completed", "failed"}
  /\ status[r] = "cancelled" => Len(log[r]) < MaxEvents
  /\ Mark(r, "canceled", <<"run.cancelled">>)
  /\ UNCHANGED <<session, submitted, stored, lock, pc, timer, inflight>>

\* cancelRun() from the cancel endpoint.
Cancel(r) ==
  /\ r \in stored
  /\ status[r] \notin {"completed", "failed"}
  /\ status[r] = "cancelled" => Len(log[r]) < MaxEvents
  /\ Mark(r, "cancelled", <<"run.cancelled">>)
  /\ UNCHANGED <<session, submitted, stored, lock, pc, timer, inflight>>

\* cleanup(): the runs that have been terminal for an hour leave the store.
\* Age is not modelled, except that an hour is longer than the ten minutes of
\* the timer: any set of terminal runs whose timer is over may be old enough.
Cleanup ==
  \E old \in SUBSET {r \in stored \ timer : status[r] \in Terminal} :
    /\ old # {}
    /\ stored' = stored \ old
    /\ log' = [r \in Runs |-> IF r \in old THEN <<>> ELSE log[r]]
    /\ UNCHANGED <<session, submitted, status, lock, pc, timer, inflight>>

-----------------------------------------------------------------------------
SendSettles(r) == SendRejected(r) \/ SendResolved(r)

Advance(r) ==
  \/ SkipCancelled(r) \/ Start(r)
  \/ SessionReady(r) \/ SessionFailed(r)
  \/ Resend(r)
  \/ RetryFailed(r) \/ RetryAnswered(r)
  \/ Complete(r)

Next ==
  \/ Submit
  \/ Cleanup
  \/ \E r \in Runs :
       \/ Advance(r)
       \/ SendSettles(r)
       \/ TimerFires(r)
       \/ AbandonedSendSettles(r)
       \/ Chunk(r)
       \/ Cancel(r)

Spec == Init /\ [][Next]_vars

\* The Node.js event loop resumes every settled await and fires every timer.
\* Engine calls other than the first sendMessage settle because the gateway
\* client bounds each request; the first one needs no such promise, because
\* the executor's own timer ends the race.
Fairness == \A r \in Runs : WF_vars(Advance(r)) /\ WF_vars(TimerFires(r))

FairSpec == Spec /\ Fairness

-----------------------------------------------------------------------------
(* Safety *)

\* The lock chain of a session lists, in submission order, exactly the runs
\* whose executor has been entered and has not released: no run loses its
\* turn and no released lock keeps blocking.
LockChainExact ==
  \A s \in Sessions :
    /\ \A i, j \in 1 .. Len(lock[s]) : i < j => lock[s][i] < lock[s][j]
    /\ \A r \in Runs :
         (session[r] = s /\ pc[r] \notin {"none", "done"})
           <=> \E i \in 1 .. Len(lock[s]) : lock[s][i] = r

\* The status a client sees follows what the executor does: only a run inside
\* the executor is "running", a "completed" run has left it, an active run can
\* be found in the store, and no timer runs for a run that waits its turn.
RunLifecycle ==
  \A r \in Runs :
    /\ pc[r] = "none" <=> r > submitted
    /\ r \in stored => r <= submitted
    /\ pc[r] = "none" => status[r] = "none"
    /\ pc[r] = "lockwait" => status[r] \in {"queued", "cancelled"}
    /\ status[r] = "queued" => pc[r] = "lockwait"
    /\ status[r] = "running" => pc[r] \in Executing
    /\ status[r] = "completed" => pc[r] = "done"
    /\ status[r] \in Active => r \in stored
    /\ r \in timer => pc[r] \notin {"none", "lockwait"}

\* Serialised execution ("One active run per founder session (mutex)"): a run
\* that got past the lock is the head of its session's chain, so two runs of
\* one session are never both inside the executor or both "running".
ExecutorHoldsLock ==
  \A r \in Runs :
    (pc[r] \in Executing \/ status[r] = "running") => HoldsLock(r)

OneRunningPerSession ==
  \A r, q \in Runs :
    (status[r] = "running" /\ status[q] = "running"
       /\ session[r] = session[q]) => r = q

\* What a client that replays a log concludes: its last terminal event.
TerminalEventOf(st) ==
  CASE st = "completed" -> "run.completed"
    [] st = "failed"    -> "run.failed"
    [] OTHER            -> "run.cancelled"

ConcludesAs(events, st) ==
  IF st \in Terminal
    THEN \E i \in 1 .. Len(events) :
           /\ events[i] = TerminalEventOf(st)
           /\ \A j \in i + 1 .. Len(events) : events[j] \notin TerminalEvents
    ELSE \A i \in 1 .. Len(events) : events[i] \notin TerminalEvents

\* What an SSE client that replays the log concludes is what GET reports: the
\* last terminal event of a stored run names its status, and a run that is not
\* terminal has no terminal event.  This survives every race that overwrites a
\* terminal status, because status and event are always written together.
LogAgreesWithStatus == \A r \in stored : ConcludesAs(log[r], status[r])

\* A completed run keeps its answer: neither the timer that was never cleared
\* nor a late cancel may turn "completed" into something else.
CompletedIsFinal ==
  [][\A r \in Runs : status[r] = "completed" => status'[r] = "completed"]_vars

\* A run cancelled in the queue, by the user or by a newer message, is never
\* executed: it calls the engine neither then nor later.
CancelledInQueueNeverRuns ==
  [][\A r \in Runs :
       (pc[r] = "lockwait" /\ status[r] = "cancelled")
         => pc'[r] \in {"lockwait", "done"}]_vars

\* The refinement mapping: the holder of a lock that got past the await is
\* the admitted run, the rest of the chain waits.
Waiting(s) ==
  IF lock[s] # <<>> /\ pc[Head(lock[s])] \in Executing
    THEN Tail(lock[s]) ELSE lock[s]

Admitted(s) == {r \in Runs : session[r] = s /\ pc[r] \in Executing}

Promised == INSTANCE SessionQueue WITH
  waiting <- [s \in Sessions |-> Waiting(s)],
  active  <- [s \in Sessions |-> Admitted(s)]

\* The executor implements one FIFO queue with one active run per session.
ImplementsSessionQueue == Promised!Spec

-----------------------------------------------------------------------------
(* Liveness *)

\* A run that is queued or running becomes terminal, although the engine may
\* never answer the first sendMessage: the runs before it release the lock of
\* their session whatever becomes of them.
EveryRunSettles ==
  \A r \in Runs : (status[r] \in Active) ~> (status[r] \in Terminal)

-----------------------------------------------------------------------------
(* What the comments of the code say and the code does not do *)

\* founder-run-executor.ts:87 says the lock "Prevents concurrent OpenClaw
\* mutations on the same session": two sends of one session never overlap.
NoConcurrentEngineSends ==
  \A r, q \in inflight : session[r] = session[q] => r = q

\* How far from it the code is: of two sends of a session that overlap, one was
\* given up by the timer of its run, and that run is over and reported failed.
OverlapsAreAbandoned ==
  \A r, q \in inflight :
    session[r] = session[q] /\ r # q =>
      \E a \in {r, q} : pc[a] = "done" /\ status[a] = "failed"
=============================================================================
