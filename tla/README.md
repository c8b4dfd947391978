# Departify: TLA+ models, model checking and proofs

This directory holds a verification development for the Departify monorepo
(TypeScript; paths below are relative to the repository root): TLA+
specifications of the parts whose correctness depends on the order in which
things happen, TLC configurations that check them on small instances, and TLAPS
proofs of the properties that matter most.

Contents: 1 inventory, 2 what is modelled, module by module, 3 the runs and
their bounds, 4 fairness, 5 the proofs, 6 where code and comments disagree,
7 what is not modelled, 8 plan, 9 how to run it.

## 1. Inventory of the system

Departify is a multi-tenant "digital company": a founder talks to an executive
director and to departments; departments do work (documents, dashboards,
e-mail drafts, presentations, video) through an external agent engine
(OpenClaw, reached over one WebSocket) and through connectors to Google, mail
providers, Meta and others. A Node.js backend (`apps/backend`) holds the
processes and a Supabase (Postgres) database holds what must survive them; a
React portal polls and streams. Three kinds of concurrency matter:

* *inside one process*: JavaScript runs one task at a time, but every `await`
  is a point where another request, timer or socket event may run first;
* *between processes*: a deploy starts the new process before or after the old
  one dies, and several may share the database, each statement being atomic
  and nothing else;
* *towards external services*: answers come late, never, or after the caller
  has given up and tried again.

### 1.1 Components

| Part | Where | State it keeps | Hard behaviour |
|---|---|---|---|
| Founder runs | `apps/backend/src/customer-zero/founder-run-{store,executor}.ts` | run map, event log, promise-chain lock per session, timers | engine turns that outlive the HTTP request; cancel, timeout, retry and cleanup race the turn |
| Video jobs | `apps/backend/src/server/routes/video.ts`, `customer-zero/department-work.ts` | task rows in Supabase with a lease in their metadata | lease without renewal or fencing, restart recovery, idempotency key |
| Department work | `customer-zero/department-work.ts`, `department-work-executor.ts` | tasks and results, dashboard capacity | check-then-create, recovery of tasks that are still executing |
| Gateway client | `packages/engine-adapter/src/openclaw/gateway-client.ts` | one WebSocket, pending requests, challenge nonce, event handler slot | reconnects, late `onclose` of an old socket, retry after timeout |
| OpenClaw adapter | `packages/engine-adapter/src/openclaw/openclaw-adapter.ts` | session map, circuit state | result of a turn read from the shared session history |
| Tool runtime | `packages/tool-runtime` | tool registry and lifecycle, execution pipeline | executor that settles after its timeout |
| Workflows | `packages/workflows`, `packages/agent-tool-bridge` | workflow executions, steps, attempts | abort between steps, failure of a step |
| Pending work and e-mail | `customer-zero/pending-*.ts`, `routes/customer-zero-v2.ts` | a draft in the session and one record per conversation in Supabase, turn mutex | side effect (send) between two persisted states; a restart in between; an inbox that takes no lock |
| OAuth state and tokens | `customer-zero/oauth-state.ts`, `google-tokens.ts`, `customer-zero-session.ts`, `routes/customer-zero-v2.ts` | single-use states, the token row, durable tool statuses, connections of the session | callbacks, refreshes, disconnects and one shared hydration that overwrite whole rows and objects |
| Provisioning | `packages/provisioning-engine`, `packages/platform-composition` | provisioning plans, executions, steps | step of several failing, compensation |
| Persistence contracts | `packages/persistence-contracts`, `packages/persistence-supabase` | unit of work, versions | optimistic locking |
| Agents and departments | `packages/agent-runtime`, `agent-domain`, `departments`, `organization-domain` | aggregates with lifecycles | legal transitions |
| Knowledge and memory | `packages/knowledge-engine`, `memory-engine`, `memory` | records, indexes | pure services over a store |
| Executive layer | `packages/executive-*`, `marketing-director`, `business-*` | decisions, delegations | request-scoped orchestration |
| LLM routing | `packages/llm-router`, `llm-provider-*` | provider registry | fallback order |
| Portal | `apps/portal` | React state | user interface |
| Engine configuration | `departify-engine` | config files | scripts and generated configuration |
| Dashboards | `customer-zero/department-dashboards.ts`, migration `20260816191043` | rows with a cap enforced by a trigger | two transactions that count before either commits |
| Conversations | `customer-zero/supabase-conversation-store.ts`, `conversation-lifecycle.ts`, `conversation-store.ts`, migrations `20260813220622`, `20260821230000` | one active conversation per organisation, messages, summary and marker of a compaction, turn lock | read-then-insert against a unique index, rollover by another process, compactions that overlap |
| Live stream | `server/routes/founder-runs.ts` | SSE connections | replay of a log followed by a live subscription (one synchronous step) |
| Inbox | `customer-zero/inbox-sync.ts` | messages, tasks made from them | a synchronisation overwrites what a conversion has written |
| Marketing, founder build mode, session, adapters | `customer-zero/*.ts` | rows that are inserted and read | none of their own |

### 1.2 How they interact

* A founder's message goes through `routes/founder-runs.ts` to
  `FounderRunExecutor.submit`, which calls the **OpenClaw adapter**
  (`sendMessage`), which calls the **gateway client** (`runAgent`,
  `chatHistory`). All conversations of the process share that one client and
  its one socket.
* A message that asks for department work goes through
  `routes/customer-zero-v2.ts` to `DepartmentWorkExecutor.run`, which writes
  task and result rows through `SupabaseDepartmentWorkStore`. Video jobs use
  the same `department_tasks` table and the same store, but their own execution
  loop with a lease.
* A chat message or command takes the turn lock of its session
  (`conversation-lifecycle.ts`), resolves the canonical conversation, reads back
  the pending record of that conversation and only then decides; the unified
  inbox resolves and reads back the same record without the lock. `/new` runs
  the transaction `start_new_conversation` and cancels the old pending record.
  That transaction and the trigger that caps the dashboards share one advisory
  lock per organisation.
* Nearly every request goes through `requireSession`, which hydrates the
  session (one hydration shared by the requests that arrive meanwhile): it
  reconciles the connections with the token row and reaps handshakes that were
  given up. Connect, callback, disconnect and the adapters' token refreshes run
  beside it.
* At start, `main.ts` and `server.ts` run two recovery passes over the shared
  rows: `recoverExpiredTasks` (any task past its deadline is failed) and
  `recoverAllActiveVideoJobsOnBoot` (every active video job is dispatched).
* The portal reads the rows, polls runs, and replays and follows the event log
  of a run over SSE.

### 1.3 What makes each component correct

| Component | Correct when |
|---|---|
| Founder runs | at most one run of a session is inside the executor; order of submission is kept; a cancelled run never starts; every run ends and releases the lock; what was reported stays true |
| Video jobs | one process executes a job; completed is final and has a result; a second delivery has a cause (a death, a store error, an outlived lease, a double start); every job settles; one job per idempotency key; a restart resumes the jobs of the dead process |
| Department work | completed implies a result; the conversation is told what the row says; the dashboard capacity holds; every task settles |
| Gateway client | one connect at a time, signed with its own challenge; an answer reaches the request it answers; nobody waits for ever; one run per call |
| OpenClaw adapter | the text returned for a turn is the text of that turn |
| Tool runtime, workflows | an execution has one outcome, decided once; no step begins after an abort |
| Pending e-mail and work | an e-mail is sent at most once per confirmation, also over a restart |
| Conversations | never two active conversations and never none again, whatever requests race; a summary holds exactly the messages up to its marker; a turn works on the active conversation; a race ends in the winner's row, not in an error (but for a message queued behind `/new`); every request ends |
| Dashboards | at most five active dashboards when creations race |
| OAuth | connected only after a probe that its own callback made; no write takes a grant away; no handshake stays open; what the session calls connected rests on the token row; a disconnect holds |
| Provisioning | a step that fails leaves nothing half-made that counts as made |

`PROJECT.json` lists every component, the ones that are not modelled too, and
the hazards of the code, each at its line and with the property that covers it.

## 2. What is modelled

Conventions. A module's variables and actions keep the names of the code where
TLA+ allows it. One action is everything the code does between two `await`s
(or between two calls of the shared database), with all its early returns. An
operator whose comment says "Mutant of" is a wrong variant of the definition
below it, with the bug a programmer might have written; TLC is run with the
wrong variant in the place of the right one to see that the property notices.
No definition of a specification uses one.

### 2.1 `FounderRuns` and `SessionQueue`

*Code*: `founder-run-store.ts`, `founder-run-executor.ts`.

| Variable | In the code |
|---|---|
| `session`, `submitted` | the session key each submitted message carries; runs are numbered in the order of `submit`, which is the order of the store's `Map` |
| `status` | `FounderRun.status` (the object, which outlives its removal from the store) |
| `stored`, `log` | keys of `FounderRunStore.runs`; the event list of a run (types only) |
| `lock` | the promise chain behind `sessionLocks.get(session)`, holder first |
| `pc` | the `await` at which `executeInBackground` is suspended |
| `timer` | runs whose `timeoutPromise` has not fired; it is never cleared |
| `inflight` | `engine.sendMessage` calls that have not settled, abandoned ones included |

Actions: `Submit` (with the supersede rule of `create`), `SkipCancelled`,
`Start`, `SessionReady`, `SessionFailed`, `SendRejected`, `SendResolved`,
`TimerFires`, `Resend`, `RetryFailed`, `RetryAnswered`, `Complete`,
`AbandonedSendSettles`, `Chunk`, `Cancel`, `Cleanup`. `mustGet` throwing on a
run that cleanup removed is `MarkOrThrow`. Abstracted: texts, payloads,
redaction, progress, sequence numbers of events. Consecutive deltas in a log
count as one. Ages are not modelled; `Cleanup` may take any set of terminal
runs whose ten-minute timer is over, since its hour is longer.

`SessionQueue` is the promise made to the founder: one FIFO queue per session,
at most one message of a session in execution, cancelled ones leave without
being executed. `FounderRuns` implements it under the mapping *waiting* = the
chain without a holder that got past the lock, *active* = the runs of the
session inside the executor (`ImplementsSessionQueue`). "Executing" is the
executor's view: an engine call it has abandoned is not covered by the
promise, which is exactly the finding `NoConcurrentEngineSends`.

### 2.2 `VideoJobs`

*Code*: `routes/video.ts` (`POST /video/generate`,
`executeVideoJobReconciliation`, `recoverAllActiveVideoJobsOnBoot`),
`supabase-department-work-store.ts`, `main.ts` (`recoverExpiredTasks`) and
`server.ts` (the unawaited recovery).

| Variable | In the code |
|---|---|
| `now` | the clock, the same for all processes |
| `worker`, `expired` | life of each server process; the ids its first recovery pass still has to close |
| `creating` | a request between the idempotency check and `createTask` |
| `task` | the row: status, `startedAt`, `assignedEmployeeId`, and of the JSON column `source` the lease and whether the artifact is there |
| `results` | number of result rows of the task |
| `exec` | per execution and job: the `await` of the reconciliation it is at, and the values it read earlier and uses later (clock, `startedAt`, lease, artifact) |
| `abandoned` | history: how many executions of the job a store error has ended |
| `contested` | history: jobs of which an execution outlived the lease, or that one process began twice |

The frame (`exec[e][r]`) is the point of the model: the claim writes back a
`source` that was read before, and compares the lease in the row with a clock
read before. `Claim` is one conditional `UPDATE`; every other update looks at
nothing. A worker is one *life* of a process, since the worker id is drawn at
start. It has two possible executions of a job, `ByRequest` and `ByBoot`:
`server.ts:77` begins the recovery of the start and does not wait for it, so that
a job created by an early request can be dispatched by both (`Serves`,
`BootRecover`), and the claim lets both through, as they have one worker id.

Every external call (credentials, budget, render, Drive) is a choice of success
or failure, and every store call of an execution or a request may be refused or
be applied with its answer lost:

* the first `getTask` (185) is outside the `try`, and the update in the catch
  block (415-427) is the last thing the function does: their errors reject the
  promise that nobody waits for. No handler of such rejections is installed in
  the repository, so a recent Node ends the process. The model lets the execution
  end (`Abandon`) and leaves `Crash` free to follow or not;
* an error of the claiming update (263-266, 270-272) or of the reread (268) is
  logged, and the function returns; the row may have been claimed (`Claim`, `Reread`);
* an error from `createResult` or the completing update, applied or not, leads
  to the catch block, which writes "failed" (`SaveResult`, `Finish`, `Fail`);
* an insert whose answer is lost leaves a queued job that nobody dispatches
  (`CreateTask`); an error in `recoverExpiredTasks` ends its pass
  (`BootCloseExpired`), one in the recovery of the start dispatches nothing.

The updates at 40%, 70% and 85% that only move the progress bar are merged with
the step next to them when no call of the shared store lies between them that
matters to the status.

Nothing is assumed of the time an execution takes: the code never renews a lease
and no timeout bounds the render call. Where an execution outlives its lease, or a
process begins a job twice, the code does admit two owners, and the job counts as
`contested` from then on. `OneOwner`, `ClaimIsVisible`, `DuplicatesHaveACause`
and `CompletedIsFinal` speak of the other jobs; `CompletedHasResult`,
`ActiveIsAttended`, `EveryJobSettles` and the refinement hold for all.

`ExclusiveJobs` is the promise made to whoever orders a video: one execution at a
time attempts a job, an attempt delivers at most once, only an attempt that has
delivered completes and only that attempt may take the completion back (it does when
the answer of the completing update is lost), a completed job is not attempted
again; of contested jobs it promises the parts that need no lease. It knows no
lease and no row. `VideoJobs` implements it under the mapping *attempts* = the
executions, *stage* = `StageOf` of the
place of each frame (reading and claiming are *away*, the failing branch is
*failing*, after the insert of the result *delivered*, every other owning place
*working*), *delivered* = `results`, *completed* = the status of the row
(`ImplementsExclusiveJobs`).

### 2.3 `DepartmentWork`

*Code*: `department-work-executor.ts` (`run`, `fail`, `failTask`),
`supabase-department-work-store.ts`, `main.ts`.

`pc[c]` is the call's place, `task[c]` its row, `results` the calls that have
inserted a result with a chart, `closing` what the recovery pass of a starting
server has still to close. Each store call may fail, and an insert or update
may have been applied although the answer is lost: `Refuse`, `CreateTask`,
`SaveResult`, `Complete` and `FailTask` all have these three outcomes. The
activity entry and the message after the completing update cannot throw in
the production wiring and are part of `Complete`. Only the four capabilities that build a dashboard
have an executor, so every inserted result counts against the cap. A recovery
that starts within the deadline of a task leaves it running, as the code does.

### 2.4 `GatewayClient`

*Code*: `packages/engine-adapter/src/openclaw/gateway-client.ts`.

`sock` are the WebSocket objects, `ws`, `nonce`, `connecting`, `seq` and
`pending` the fields of the client, `conn[s]` the `connect()` call that made a
socket, `call` the callers, `wire` what the gateway has been sent and has not
answered, `runs` the agent runs it has started. A caller runs `runAgent`
(`sessions.send`, then `agent.wait`, which is not retried) or a plain request.

* `Resume` models microtasks: what a settled promise wakes runs before the next
  task, so every other action requires `Quiet`.
* `isConnected` asks only whether the socket is open, so a request may be sent
  between `onopen` and `hello-ok`; the model contains this, and the gateway
  refuses it.
* `Retry` closes whatever socket there is, with the requests of other callers
  on it; `Closed` of an *old* socket fails every pending request, those sent
  over its successor too. Both are in the model; no comment or test promises
  isolation between callers, so no property does.
* Connect and challenge timeouts are errors that are not retried (`"fatal"`).
* Out of the model: the event handler slot and streaming, and the second way to
  `connect()`, `OpenClawEngineAdapter.health()`
  (`openclaw-adapter.ts:421`), which dials beside `ensureConnected`. With it
  two sockets can be live at once and a challenge can be answered with the
  other's nonce. It belongs to the adapter, which is planned.

The gateway itself is not in the repository. It is modelled from how the client
uses it: it greets an open socket once, accepts a connect that carries the
challenge of its socket, serves or refuses requests, answers late or never, and
may close a socket at any moment.

### 2.5 `PendingEmail`

*Code*: `customer-zero/pending-work-state.ts`, `pending-work-store.ts`,
`pending-email.ts`, `conversation-lifecycle.ts`, and of
`routes/customer-zero-v2.ts` the e-mail paths of a turn (`runEmailTurn`,
`sendPendingEmail`, `completeDeterministicOperationTurn`) and of the inbox.

The draft lives twice. `mem` and `object` are `session.state.pendingEmailWork`
and the objects it has pointed to: a request goes on with the object it began
with, although the session may hold another by then, which is why an object is
named by the request that made it. `rows` are the records of
`conversation_pending_work`, `current` and `active` the conversation the session
and the store are at, `lock` the turn mutex, `receipt` the status of the last
execution receipt. A request is a frame: what it asks, at which `await` it is, what it
has read. `outstanding` counts the provider calls of a draft whose failure was
not reported; it and `overlap` (a request of the inbox ran beside another) are
history.

A turn resolves the conversation, reads the row back (`Recall`, `Hydrate`),
acts (request, approve, verify, cancel, edit, leave, escape), writes its lease,
checks the connection, calls the provider, settles, and closes the record in one
or two completions (`Persist`, `CompleteWork`). Every store call may be refused,
or applied with its answer lost; the process may stop between any two steps.
`RowOf` and `Completed` carry the part that matters of the conversion to a row:
which durable state a status becomes, and that a completion touches live rows
only and leaves their payload alone.

### 2.6 `GoogleConnection`

*Code*: of `routes/customer-zero-v2.ts` connect, callback, disconnect,
`requireSession` and `reapStaleGoogleHandshakes`; `customer-zero-session.ts`
(`hydrateSessionToolState`, `reconcileGoogleConnectionsFromDurableTokens`);
`google-tokens.ts`, `oauth-state.ts`, and the refresh in the three Google
adapters.

`nonces` are the rows of `oauth_state` with what Google knows of their code,
`row` the token row, `tools` the durable statuses, `conn` the connections of the
session, `hyd` the one hydration in progress and `calls` the requests, each at
an `await` with what it holds from before. `proven` and `probes` are history: the
tools that a stored row with a refresh token has certified, and the tools whose
callback had its probe answered, each with whose API answered. The two differ
because the callback for Gmail does not always ask Gmail: while the scope
`gmail.readonly` is missing, `probeGoogleOperational` asks Calendar or Drive
(`google-tokens.ts:677`-`688`) and the callback believes the answer (`ProbedApi`).
`ConnectedWasProven` states this exception (`Vouched`). The step of `hyd` goes through
records, summaries, upserts, nonce look-ups and closures in the order of the
code; requests that arrive meanwhile wait for it (`Enter`, `Released`).

Abstractions: one await is the answer and what follows it; a tool stands for one
capability and one scope (`google_workspace` and `google_drive`, which share
`drive.read`, count as one tool); an access token is named by the request that
stored it, which is all that `CallbackReread` compares; what Google gave
(refresh token, scope, probe) is chosen when the row is written; the list that
connect reads is merged with the write of its nonce; a refused write that marks
the nonce consumed is ignored, as in `oauth-state.ts:250`-`253`, and only leaves the
nonce open (`CallbackConsume`); rows from before the column
`operational_capabilities`, whose capabilities are inferred from their scopes, do not
occur; the nonce of a connection
is kept while its status is `connecting`, the only time it is read. One backend
process.

### 2.7 `Conversations`

*Code*: `supabase-conversation-store.ts`, `conversation-lifecycle.ts`,
`conversation-store.ts`, the migrations `20260813220622` and `20260821230000`,
the routes that call them, and the trigger of
`20260816191043_department_dashboards_and_calendar.sql`.

`status`, `messages`, `marker` and `summary` are the rows; `turn` the holder of
the turn lock in each process; `orgLock` and `swept` the open transaction of
`start_new_conversation` or of the dashboard trigger: its advisory lock and the
rows it has archived, which nobody else sees before it commits; `dashboards`
the active ones. A request of any kind is a frame again: a chat turn, a light
message, `/new`, `/compact`, a request that only resolves the conversation, the
completion of delegated work, an archive, a new dashboard.

Isolation is READ COMMITTED: a statement sees what was committed when it
started; an insert waits for an open transaction whose row it would collide
with, and fails on the unique index if another row is active; an update waits
for the row. Taking an advisory lock and the statement behind it are one step,
since taking a lock commutes with what others do before that statement. Each
store call may fail before or after its effect (`Fails`, `Answered`), and
`Thrown` says where the exception ends up: in the second listing after a failed
insert, swallowed around a compaction that is best effort, in the handler
otherwise. An added message is two calls: the insert (`Written`), and an update that
dates the conversation, waits for a transaction that has changed the row, and whose
error nobody looks at (`Touch`).

A request that finds its conversation archived once it has the lock is refused
(`Refusal`): a command with the 409 of its route ("stale"), a message by the
exception that `ensureConversation` throws, which the route answers with 500
("error"). A request that is gone keeps its kind, its conversation and its
outcome, so that the properties can speak of how it ended.

A summary is the list of the messages folded into it, so that `SummaryExact`
can tell a message that is missing, doubled or out of order. That
`compressSummaryToBudget` cuts a summary that has grown too long is not
modelled, nor the length of messages (whether the route compacts after a turn is
open), nor that `created_at` may order two concurrent messages differently from
their visibility. The order in which a turn lock serves who waits is left open;
nothing depends on it. `session.state.currentConversationId` and the
cancellation of pending work by `/new` are in `PendingEmail`.

`CanonicalThread` is what the organisation sees of all this: one thread from the
first request on, replaced by a fresh one in a single step, and an archive from
which nothing comes back. `Conversations` implements it under the mapping
*thread* = the rows that are active for everybody else (what an open transaction
has swept still is), *archived* = the archived ones (`ImplementsCanonicalThread`).

## 3. Runs

Twelve runs: eight that pass, four that exhibit a disagreement (section 6).

| Run | Instance | States | What it shows |
|---|---|---|---|
| `founder_safety` | 2 sessions, 3 runs, chunks up to 3 events | 720,000 | log and status agree, completed is final, cancelled-in-queue never runs, the queue is implemented |
| `founder_liveness` | 1 session, 3 runs | 96,000 | every run ends even if the engine never answers the first send |
| `video_jobs` | 1 job, 2 processes with 2 executions each, 1 crash, 1 store error that abandons, lease 1, timeout 1, clock 2 | 416,000 | `ExclusiveJobs` is implemented (one owner, one delivery in an attempt, completed is taken back by nobody else), completed has a result, a second delivery has a cause, every job settles unless a process died or a store error abandoned it |
| `gateway_safety` | 1 runner, 1 reader, 2 sockets, 1 retry | 81,000 | one connect, fresh challenge, answers match, nobody forgotten, every call settles |
| `department_work` | 3 calls, cap 1, 2 at a time, clock 1, 1 crash, 1 restart | 312,000 | completed has a result, the conversation is told the truth, the overshoot is bounded, every task settles |
| `pending_email` | 2 chat requests, 1 inbox request, 2 conversations, 1 failing store call, 1 restart | 353,000 | no draft is with the provider twice, no live row offers a draft whose fate is open, `/new` is final for a draft |
| `google_connection` | 2 overlapping requests, 1 tool, 1 nonce, 1 failing store call, 1 restart | 1,029,000 | connected was proven, grants only grow, every callback and every hydration close what they must, nothing stale is called connected |
| `conversations` | 2 requests of one process, 1 of another, 4 conversations, 1 message kept, cap 1, 1 failing call | 325,000 | `CanonicalThread` is implemented, exact summaries, the turn lock holds, the cap holds, no race ends in an error but that of a message behind `/new`, never does everybody wait, every request ends |
| `founder_concurrent_sends` | 1 session, 2 runs | | counterexample |
| `gateway_one_run` | 1 runner, 3 sockets | | counterexample |
| `pending_concurrent_send` | as `pending_email` | | counterexample |
| `google_disconnect` | as `google_connection` | | counterexample |

Why these bounds are enough for the cases that matter:

* *Founder runs*: three runs of one session are needed for a holder, a waiter
  that is superseded and one that stays; two sessions for independence.
  `MaxEvents` bounds only chunks and repeated cancels, the two things that
  alone could grow a log for ever; the logs of the executor's own events are
  not cut. The symmetry of sessions is used, for safety only.
* *Video jobs*: two processes are an owner and its successor, or two that meet;
  the two executions of each are the double start. A lease of one tick and a clock
  of two let a claim meet a lease that is live and one that is over. One death and
  one abandonment each give a second delivery, together a third. One job is enough
  for properties of one row. The invariants and `CompletedIsFinal` were checked by
  hand on larger instances: clock 3 (833,000 states), and lease 2, clock 4 with two
  abandonments (1,392,000). There TLC also shows that the exceptions are needed:
  two results of an uncontested job after a death or an abandonment, three after
  both, two owners in different processes of a contested one.
* *Gateway client*: two sockets are an old one that is still closing and its
  successor; `gateway_one_run` has three. One retry has every path of the retry
  loop. Two callers are what it takes for one to disturb the other.
* *Department work*: with cap 1 and two calls at a time a third call finds the
  cap reached; the clock has one tick, which puts a task past its deadline or
  not.
* *Pending e-mail*: a draft and its approval are two chat requests, or one and
  the inbox; two conversations are before and after `/new`. The theorems cover
  any number.
* *Google connection*: two requests are a callback beside a disconnect, a
  refresh, a second callback of the same nonce or a page that hydrates. Larger
  instances were checked by hand and hold: Gmail and Calendar without failures
  or restarts (2,191,000 states), two nonces with a restart and without failures
  (8,174,000), one caller with two failures (38,000). The symmetry of the callers
  is used; the run has no liveness.
* *Conversations*: four conversations are the first and three that replace it,
  one for each request. With one message kept, two are enough for a
  compaction. The request of the second process is one that disturbs the others
  (it rolls over, creates, archives or takes the advisory lock); with all three
  requests of any kind the invariants hold as well (1,470,000 states, by
  hand).

Deadlock is not checked in any run, since every system here may stop: all
messages handled, all bounds used up.

## 4. Fairness

* `FounderRuns`: weak fairness of every step of the executor except the
  settling of the *first* `sendMessage`, and of the timer. The event loop
  resumes settled promises and fires timers; the other engine calls settle
  because the gateway client bounds each request by a timer of its own
  (`GatewayClient`, `EveryCallSettles`). The first send needs no such promise.
  Weak fairness of `Resend` and the like is enough, as nothing but the run's
  own progress disables them. No fairness for users, chunks or cleanup.
* `VideoJobs`: a live process goes on with the executions it has begun: every
  external call and store call ends in an answer or an error. Nothing is asked of
  the clock, of requests or of process starts; crashes and abandonments are never
  fair, and `EveryJobSettles` promises nothing once one has happened.
* `GatewayClient`: the client's own timers fire and a socket that is being
  closed does close. Nothing is asked of the gateway: it need not greet, answer
  or keep a socket open.
* `DepartmentWork`: a call goes on with what it has begun; every HTTP request
  ends in an answer or an error.
* `Conversations`: a request goes on with what it has begun: store calls settle,
  and a release or a commit wakes who waits. Nobody has to make a request and
  nothing has to fail. Weak fairness is enough for the lock, since a run has
  finitely many requests.
* `PendingEmail` and `GoogleConnection`: none; these are checked for safety
  only. What their hydrations and callbacks must have done by their end is stated
  as action properties.

## 5. Proofs

The theorems hold for all values of the constants that satisfy the named
assumptions of the modules; TLC evaluates those assumptions in the runs.

**`FounderRunsProofs`** (assumptions: bounds are naturals). The inductive
invariant is `TypeOK /\ RunLifecycle /\ Locks`. `Locks` says exactly what a
chain contains. It is not inductive without `RunLifecycle`, which ties status to
place: a run that `mustGet` cannot find is terminal, so an exception that skips
`markFailed` never leaves a "running" run behind a released lock. Proved:
`TypeCorrect`, `LockChainsExact`, `ExecutorsHoldLock`, `OneRunPerSession`,
`CompletedStays`, `CancelledStaysOut`; `LogsAgree`, for which every step is
shown to write about every run it leaves in the store either nothing, or its
creation, or a terminal status together with the event that names it, or events
that conclude nothing; and `ExecutorImplementsQueue`, the
refinement of `SessionQueue`, step by step: joining the chain is `Enqueue`,
`Start` is `Admit`, `SkipCancelled` is `Discard`, every release by a run past
the lock is `Finish`, everything else is a stutter. `LockChainExact`,
`ExecutorHoldsLock` and `OneRunningPerSession` are proved and not run: what they
say is implied by the refinement, which is run. `LifecycleHolds` states
`RunLifecycle` itself. `OnlyAbandonedSendsOverlap` is the positive side of the
finding `NoConcurrentEngineSends`: of two engine sends of one session in
flight at once, one belongs to a run that is over and was reported failed; it adds
to the invariant that a send in flight belongs to a run that executes or has
failed (`Sends`).

**`VideoJobsProofs`** (assumption: `VideoAssumption`; nothing is assumed of the time
that executions take).
`OneOwner` is not inductive: the claim compares the row's lease with a clock
read two steps earlier, and never asks for the status. The invariant follows
each frame of a job that is not contested to its row (`FrameInv`: a claimer's clock is
within a lease of now, an owner is what the row says and within its lease, a process
has one execution of the job) and says that no suspended claimer
can pass after the job has been completed (`Barred`): its clock was read before the
owner's lease ended. An execution that completed the job without hearing of it is the
one exception (`CompletedIsBarred`). From this follow
`OneOwnerAtATime`, `ClaimsAreVisible`, `CompletedJobsStay` and
`DuplicatesHaveCauses`, for which `ResultsCounted` counts results against deaths and
abandonments (`Causes`) and says when the next one would be one too many: then the job
is closed and barred, or its owner is about to close it (`Closing`).
`JobsImplementExclusiveJobs` is the refinement of `ExclusiveJobs`, step by step: the
conditional update is `Take`, the insert of the result `Deliver`, the completing
update `Complete`, every branch into the catch block `Stumble`, the update in
it and every abandonment `Quit`, a crash `Die`, and the clock or a double start
`Contest`. `Take` requires that nobody attempts the job and that it is not
completed, of which the update asks neither; the invariant supplies both.
`VideoTypeCorrect`, `CompletedHasItsVideo` and `NobodyLeavesAJob` speak of
contested jobs as well. The last says that while no process has died and no store
error has ended an execution of the job, it has a
reader or claimer if queued and an owner if running (`ActiveIsAttended`): the only
frame of a job that was never claimed is not turned away, since its row has no worker
id (`UnclaimedYet`), and an owner leaves only through an update that closes the
job. It is the safety half of `EveryJobSettles`. The proofs show what everything
hangs on: the closing updates
leave the worker id and the lease in the row. An update that cleared the worker
id, as a tidy programmer might add, would let a claimer that is between its two
calls reopen a completed job.

**`DepartmentWorkProofs`** (assumption: `WorkAssumption`).
`CompletedHasItsResult` and `ConversationIsTold` are nearly inductive;
`OvershootIsBounded` is not. The invariant bounds `Reserved`, the results together
with the calls that have passed the check and may still insert: a call joins it
only while the results are below the cap, and then at most `Parallel` calls are
in progress, itself included; every other step leaves `Reserved` as it was or makes
it smaller. Three theorems are about a restart beside calls that still execute;
no run lists their properties, which TLC has checked on the instance of
`department_work`. `NoAnsweredCallLeavesRunning`: a task that stays "running"
belongs to a call in progress, or to one that threw or died.
`RecoveryClosesOnlyExpired`: although the recovery selects first and closes later,
what it closes is still past its deadline, since nothing starts a task a second
time (`SelectedIsLate`). `NobodyElseRevokes`: a completed task becomes failed only
by its own call, which then apologises.

**`PendingEmailProofs`** (assumption: `BoundsAssumption`). The invariant has,
besides types, `Mutex` (one turn between lock and reply, the holder),
`Unwritten` (a draft nobody wrote yet is nowhere), `Pointers` and `Pointing`
(which request may hold which object, and that a draft of one request is never
in the object of a later one that did not read it), `Room`, and, as long as the
inbox does not overlap, `Serial`: for a draft with an open provider call, what
every copy of it in memory, in frames and in rows may say. `Serial` is what
makes `SentOnceAtATime` inductive: a second send needs a copy that offers the
draft, and copies come from rows. Proved: `TypeCorrect`, `SendsOnce`,
`LeaseIsBarrier`, `ResetHolds`; and `SuccessIsNeverFaked`: as long as the inbox does
not overlap, no object, no row and no answer calls a draft sent or accepted
that the provider did not take (the code's rule "never fakes success"). Its
invariant `Truth` follows the claim through every copy: objects (`HonestObjects`),
rows (`HonestRows`), and frames that know or have told it (`Told`), where a
verification is entered only for a draft the provider has accepted.

**`GoogleConnectionProofs`** (assumptions: `SetsAssumption`,
`BoundsAssumption`). The base of the invariant says that every row, frame or
summary that claims a capability was backed by a probe of that tool's callback
(`Backed`, with the exception for Gmail in `Vouched`), and that a
hydration's summaries are evidence for what it will write (`Evidence`).
On it rest three further invariants: `DeadStay` (a nonce that was dead when
the hydration began is not opened during it), `Pending` (what a reaper still
has to visit) and `Alone` (a hydration whose request is alone still has on its list
everything that is connected without evidence, for `NoStaleConnected`). Proved: `TypeCorrect`, `ConnectionsProven`, `GrantsGrow`,
`CallbackCloses`, `NothingStale` and `HydrationReapsAll`, which speaks of the tools in
`Reaped`, the code's `GOOGLE_TOOL_IDS`; YouTube is not among them (section 6).

**`ConversationsProofs`** (assumption: `ConversationsAssumption`). The
invariant ties each frame to the rows: `Threads` (at most one active row; an
open transaction has swept exactly what was active; who is in `renew` holds the
lock), `TurnLockHolds`, `SummaryExact` with `Remembers` (the marker and summary
in a frame are a prefix of the conversation's messages, which only grow, so a
late save writes an old but exact pair), `DashboardCapHolds` with `Counted` (who
holds the advisory lock has counted at least the active dashboards, since only
archives happen meanwhile), `ErrorsNeedFailures` with `LateMessages` (without a failed
call only a message whose conversation is archived ends in an error), `Enders` (what
archived it was a `/new`, so another request) and `Relisted` (a listing
after a failed insert finds a row, unless a call failed). Proved: `TypeCorrect`,
`OneThread`, `LockHolds`, `SummariesExact`, `CapHolds`, `RacesEndWell`;
`RowsImplementThread`, the refinement of `CanonicalThread` (the insert that finds
no active row is `Create`, the commit of `start_new_conversation` is `RollOver`,
everything else a stutter; what an open transaction has swept still counts as
the thread, because nobody else sees it gone); and `SomebodyMoves`: turn lock,
advisory lock and rows are always taken in this order, so that of the requests
under way one does not wait. Deadlock freedom stated like this is a safety
property and can be proved; that every request *ends* is left to TLC.

**`GatewayClientProofs`** (assumption: `GatewayAssumption`). `ws`, `nonce`,
`connecting` and `pending` are fields that every connection and every request
share; the invariant says why nobody takes what belongs to another. `Dialled`: the
connect() in progress is the one `connecting` stands for, so callers join it.
`Opening` and `Current`: a socket that is connecting or open is `ws`, and a challenge
that was received is that socket's; a socket replaced by `Retry` is closing and
hears nothing. `Connected`: who resumes after a successful connect() finds a
socket. `Sent` and `Ids`: ids count up and are never used again, an owner has at
most one entry. Proved: `TypeCorrect` (the limit of the retries with it),
`DialsOnce`, `AnswersReachTheirRequests`, `ChallengesAreFresh`,
`EveryWaiterIsPending`; and `RunsAreAccounted`, the positive side of the finding
`OneRunPerCall`: a call starts at most one run more than it had retries, and no
caller is told of a run that was not started. Its invariant (`Accounts`) is an
account for each caller: the runs it has started and its `sessions.send`
requests the gateway has not answered yet are together covered by the tries it has made.

Only model-checked: everything temporal that needs fairness (`EveryRunSettles`,
`EveryJobSettles`, `EveryCallSettles`, `EveryTaskSettles`, `EveryRequestEnds`),
which the prover's backends do not reach. Every invariant and every action
property of a passing run is stated by a theorem.

## 6. Where the code and its comments or tests disagree

Four are runs that end in a counterexample; `PROJECT.json` quotes the lines.

1. `founder_concurrent_sends`: when the ten-minute timer wins the race, the lock
   is released while `engine.sendMessage` is still in flight; the next run sends
   on the same session. A comment says the lock prevents concurrent mutations.
2. `gateway_one_run`: `sessions.send` is repeated after a timeout although it may
   have been accepted.
3. `pending_concurrent_send`: an approval in the inbox takes no turn lock and
   works on a copy of its own; beside an approval in the chat both call the
   provider. The comment at `customer-zero-v2.ts:10295` rules that out.
4. `google_disconnect`: an adapter that refreshes an access token writes back the
   whole row it read before; a disconnect in between is undone
   (`google-tokens.ts:177` promises otherwise).

The following were found with these models, by runs that made way for others
or by reading; the models contain all of them.

* *Founder runs*: the timer is never cleared, so that it fails a run during its
  retry and the retry then completes it; a run cancelled while it executes is
  overwritten in the same way. `create` looks only at the oldest active run: with
  one running, queued runs are never superseded (`founder-run-store.ts:152`).
* *Video jobs*: a restart within five minutes of the claim meets the dead
  process's lease, skips the job and never looks again, although the comment at
  `server.ts:76` says that all active jobs are resumed. A process that serves requests before its recovery is
  over may begin a job twice. A store error leaves a job queued or running with
  nobody: in the first `getTask` (`video.ts:185`), in the claiming update (263-266,
  270-272), in the reread (268) or in the catch block's own update (415-427). A
  completing update whose answer is lost is overwritten with "failed" (449-462). A
  render that outlasts the five minutes lets another process claim the job. The
  idempotency check and the insert are separate calls without a unique key.
* *Department work*: the check of the dashboard capacity and the insert are
  separate; `OvershootBounded` says how far it can go. A call that outlives its
  deadline completes a task that a recovery has closed: the row then says
  "completed" beside the error code `TASK_TIMEOUT`, which the completing update
  does not clear (`department-work-executor.ts:532`, `supabase-department-work-store.ts:216`).
* *Gateway client and adapter*, outside the models: `health()` dials beside
  `ensureConnected` (`openclaw-adapter.ts:421`), and one slot holds the event
  handler of whichever run began last (`gateway-client.ts:748`).
* *Pending e-mail*: cancelling a draft whose send failed only forgets it in
  memory; the row stays live, the next turn reads it back, and a later "yes"
  sends it. Cancelling a draft that was never sent may close its row as a success:
  the completion takes its verdict from the receipt of an earlier execution
  (`customer-zero-v2.ts:6669`, `8090`), while the founder is told that nothing was
  sent (`10107`). `SuccessIsNeverFaked` is about what is said to the founder and
  what a draft's status says, both of which are right.
* *Google*: the callback for Gmail calls it connected on the strength of a Calendar or
  Drive probe while `gmail.readonly` is missing (`google-tokens.ts:677`-`688`,
  `967`, `1079`); TLC needs no failing call for it. The
  reconciliation may replace a handshake that was opened during
  its write, which the comment at `customer-zero-session.ts:771` forbids; its
  callback is then answered 409. The comment at line 747 says a connected record
  is left untouched, and the code downgrades it. `consume()` never asks whether
  a state was consumed: a second callback with one state passes it, fails at
  Google and blocks the connection that the first has made, until the next
  hydration. YouTube is missing from the tools that are reaped. A callback after
  a restart is refused although its nonce survives. A refresh that overlaps a
  callback may lose the scopes the callback added.
* *Conversations*: a message that waits for the lock behind `/new` is answered with
  500 (`customer-zero-v2.ts:8585`-`8588`, `routes/conversations.ts:388`, `672`-`692`),
  the answer for a failed store, although nothing failed; found archived before
  the lock, or by a command, the same condition is answered with 409. The comment at `routes/conversations.ts:821` says concurrent
  duplicates of `/new` cannot roll over the successor of the first; that holds
  within one process, and `TurnLockHolds` states the exception: a duplicate
  served by another process does. The compaction after a turn runs outside the
  lock, so that a marker may go back; the summary goes back with it
  (`SummaryExact`).

## 7. What is not modelled

Not modelled because order is not what can go wrong there: the executive layer
and business discovery (text in, decision out), LLM routing, connectors and
adapters of external services, configuration, authentication, the portal, the
scripts of the engine; aggregates of `packages/*-domain` that are only changed by
synchronous calls; the wording and classification in
`routes/customer-zero-v2.ts`. These are most of the lines of the repository,
which is why the modelled lines are a small share of it.

Left out of components that are modelled:

* *Pending e-mail*: the questions for missing fields (`awaiting_info`), the
  calendar and Facebook twins of the record, which follow the same protocol, the
  engine's own tool `departify.email.send`. That the record is written when its
  call is issued or when it lands, at the end of a turn, is one step.
* *Google connection*: the other OAuth providers (`external-oauth.ts`), the
  Mautic bootstrap, what the hydration loads besides connections, the
  `disconnect` methods of the adapters, several backend processes.
* *Conversations*: the budget of a summary, titles, paging, search, the
  in-memory store, crashes of a process (its requests and its lock go with it,
  and an open transaction is rolled back).
* *Video jobs, department work, gateway client*: see 2.2 to 2.4.

Read and found to have no order of steps that could go wrong, so that a model
would hold by its shape:

* *Tool runtime and workflows*: an execution is one promise that the executor, its
  timer and the abort listener race for; the first call settles it and the
  language ignores the others. The abort controller is created inside `execute`
  (`tool-execution-pipeline.ts:120`) and only the timer uses it. A workflow awaits
  its steps one after the other and looks at its signal between two steps; a
  step that runs is not interrupted.
* *Live stream of founder runs*: from reading the run to subscribing there is no
  await, so no event falls between replay and subscription
  (`founder-runs.ts:416`-`460`). What it lacks shows without a model: a subscriber
  of a run that fails or is cancelled later gets the event, but not the `error`
  record that a late subscriber gets, and the server ends no live stream. The
  portal polls and does not use it.
* *Inbox*: a synchronisation overwrites the state and the task reference of an item it
  sees again (`inbox-sync.ts`, `upsert`); the projection reads the task by its
  source and repairs both on every read, and a unique index keeps a second task
  of the same e-mail out (of two conversions at once one answers with an error). Only
  a list filtered by state shows the difference.

Left for later, see the plan: the OpenClaw adapter, provisioning, persistence.

## 8. Plan

| Module | Composes | Abstract specification | Properties | Theorems |
|---|---|---|---|---|
| `FounderRuns` (done) | | `SessionQueue` (done) | above | above |
| `VideoJobs` (done) | | `ExclusiveJobs` (done) | above | above |
| `GatewayClient` (done) | | | above | above |
| `Conversations` (done) | with the dashboards | `CanonicalThread` (done) | above | above |
| `DepartmentWork`, `PendingEmail`, `GoogleConnection` (done) | | | above | above |
| `EngineTurns` | adapter over gateway client | the answer of a turn is that turn's | history delta with two turns | |
| `Provisioning` | | | a plan of which one step fails is compensated or resumed | |

Bounds will be chosen as above: two actors and one or two shared rows, clocks
of a few ticks, one crash.

## 9. Running

`tlc -config X.cfg M` for each row of `PROJECT.json` "runs" (module `M`, config
`X.cfg`); `tlapm M.tla` for the seven `*Proofs` modules. The longest run takes
about three minutes with two workers; each proof module takes from half a minute to
a few minutes.
