---------------------------- MODULE PendingEmail ----------------------------
(***************************************************************************)
(* The e-mail draft of an organisation, from the message that asks for it  *)
(* to the provider call that sends it.  The draft lives twice: as a        *)
(* mutable object in the session of the process (pendingEmailWork) and as  *)
(* a row per conversation in conversation_pending_work, which every turn   *)
(* reads back before it decides anything.                                  *)
(*                                                                         *)
(* Chat turns and /new hold the turn mutex of the session; the drafts and  *)
(* approvals of the unified inbox do not.  Every store call can fail,      *)
(* applied or not, and the process can stop between any two steps: the     *)
(* rows and the conversations survive, the session does not.               *)
(***************************************************************************)
EXTENDS Naturals

CONSTANTS
    Turns,        \* messages and commands of the chat, under the turn mutex
    Calls,        \* requests of the unified inbox, outside it
    Convs,        \* bound: the conversations a run may open
    MaxFailures,  \* bound: store calls that fail
    MaxCrashes,   \* bound: restarts of the process
    None

ASSUME BoundsAssumption ==
    /\ Convs \in Nat \ {0}
    /\ MaxFailures \in Nat
    /\ MaxCrashes \in Nat
    /\ Turns \cap Calls = {}
    /\ None \notin Turns \cup Calls

Requests == Turns \cup Calls

\* A draft is named by the request that writes it.
Drafts == Requests

TurnKinds == {"request", "yes", "cancel", "edit", "other", "new"}
CallKinds == {"draft", "approve"}

Statuses == {"awaiting_approval", "sending", "accepted_unverified", "failed", "sent", "cancelled"}

\* What the object of the session says of a draft.
Works == [draft : Drafts \cup {None}, status : Statuses]

\* What the row of a conversation says: a copy of the object, and the state
\* that decides whether a later turn may read it.
Rows == [draft : Drafts \cup {None}, status : Statuses,
         durable : {"active", "executing", "failed", "ambiguous", "succeeded", "cancelled"}]

Answers == {"none", "drafted", "sent", "accepted", "failed", "cancelled", "error"}

Steps == {"idle", "resolve", "recall", "hydrate", "act", "lease", "check", "call", "settle",
          "verify", "persist", "complete", "startNew", "cancelOld", "forget", "reply", "done"}

\* A request: what it asks, for which draft (approve), where it stands, the
\* conversation it resolved, the object it works on and the conversation its
\* lease goes to, the provider's answer, how many completions remain and the
\* state the current one writes, and what it tells the founder.
RequestStates ==
    [kind : TurnKinds \cup CallKinds \cup {"none"}, wants : Drafts \cup {None}, pc : Steps,
     conv : 0..Convs, work : Requests \cup {None}, lease : 0..Convs,
     outcome : {"none", "sent", "accepted", "error"},
     left : 0..2, verdict : {"none", "succeeded", "cancelled"}, answer : Answers]

VARIABLES
    req,          \* the requests
    object,       \* the in-memory drafts, each in the slot of the request that made it
    mem,          \* session.state.pendingEmailWork: a slot, or None
    current,      \* session.state.currentConversationId, 0 when unset
    receipt,      \* session.state.lastExecutionReceipt: its status
    lock,         \* the turn mutex: the turn that holds it, or None
    rows,         \* conversation_pending_work
    active,       \* the conversation the store calls active
    outstanding,  \* history: provider calls of a draft not reported failed
    delivered,    \* history: the drafts the provider took
    overlap,      \* history: a request of the inbox ran beside another request
    failures,     \* store calls that failed
    crashes       \* restarts of the process

session == <<object, mem, current, receipt, lock>>
store   == <<rows, active>>
history == <<outstanding, delivered, overlap>>
faults  == <<failures, crashes>>
vars    == <<req, session, store, history, faults>>

NoWork    == [draft |-> None, status |-> "cancelled"]
NoRow     == [draft |-> None, status |-> "cancelled", durable |-> "cancelled"]
NoRequest == [kind |-> "none", wants |-> None, pc |-> "idle", conv |-> 0, work |-> None, lease |-> 0,
              outcome |-> "none", left |-> 0, verdict |-> "none", answer |-> "none"]

Init ==
    /\ req = [h \in Requests |-> NoRequest]
    /\ object = [h \in Requests |-> NoWork]
    /\ mem = None
    /\ current = 0
    /\ receipt = "none"
    /\ lock = None
    /\ rows = [c \in 1..Convs |-> NoRow]
    /\ active = 1
    /\ outstanding = [d \in Drafts |-> 0]
    /\ delivered = {}
    /\ overlap = FALSE
    /\ failures = 0
    /\ crashes = 0

-----------------------------------------------------------------------------
(* The durable record *)

\* statusForEmail: the state of the row a draft is written with.
StatusForEmail(status) ==
    CASE status = "sent"                -> "succeeded"
      [] status = "cancelled"           -> "cancelled"
      [] status = "sending"             -> "executing"
      [] status = "accepted_unverified" -> "ambiguous"
      [] status = "failed"              -> "failed"
      [] OTHER                          -> "active"

\* Mutant of RowOf: a draft is stored as one that awaits approval.
RowOfNormalised(work) ==
    [draft |-> work.draft,
     status |-> IF work.status = "sending" THEN "awaiting_approval" ELSE work.status,
     durable |-> StatusForEmail(work.status)]

RowOf(work) ==
    [draft |-> work.draft, status |-> work.status, durable |-> StatusForEmail(work.status)]

\* getActive and completeActive see these rows only.
Live(row) == row.draft # None /\ row.durable \in {"active", "executing", "failed", "ambiguous"}

\* upsert of a draft under a conversation.
Upserted(c, work) == [rows EXCEPT ![c] = RowOf(work)]

\* Mutant of Completed: the state is written over the status of the payload.
CompletedPayload(c, status) ==
    [rows EXCEPT ![c] = IF Live(@) THEN [@ EXCEPT !.status = status] ELSE @]

\* completeActive: the state changes, the payload stays.
Completed(c, status) ==
    [rows EXCEPT ![c] = IF Live(@) THEN [@ EXCEPT !.durable = status] ELSE @]

\* The object in a slot takes a status.
Marked(x, status) == [object EXCEPT ![x].status = status]

\* The request h goes on as `state`, or ends in an exception.
Becomes(h, state) == req' = [req EXCEPT ![h] = state]
Thrown(h) == [req[h] EXCEPT !.pc = "reply", !.answer = "error"]

\* A store call succeeds, or throws with its effect lost or applied.
StoreOutcomes == {"ok"} \cup IF failures < MaxFailures THEN {"refused", "lost"} ELSE {}

\* The store call of h that makes the rows `after`, and the step that follows it.
StoreCall(h, after, state) ==
    \E o \in StoreOutcomes :
        /\ rows' = IF o = "refused" THEN rows ELSE after
        /\ failures' = IF o = "ok" THEN failures ELSE failures + 1
        /\ Becomes(h, IF o = "ok" THEN state ELSE Thrown(h))

-----------------------------------------------------------------------------
(* A request starts *)

InProgress(h) == req[h].pc \notin {"idle", "done"}

\* Requests overlap when one of two that are in progress came by the inbox.
Overlaps(h) ==
    overlap \/ \E other \in Requests \ {h} : InProgress(other) /\ (h \in Calls \/ other \in Calls)

\* What is left of a request that ended: the conversation of its draft, and
\* that it wrote one.
Ended(h) ==
    [NoRequest EXCEPT !.pc = "done", !.conv = req[h].conv,
                      !.answer = IF req[h].answer = "drafted" THEN "drafted" ELSE "none"]

\* withConversationTurnLock: a message or command of the chat enters alone.
BeginTurn(h, kind) ==
    /\ req[h].pc = "idle"
    /\ lock = None
    /\ kind = "new" => active < Convs
    /\ lock' = h
    /\ Becomes(h, [req[h] EXCEPT !.kind = kind, !.pc = "resolve"])
    /\ overlap' = Overlaps(h)
    /\ UNCHANGED <<object, mem, current, receipt, store, outstanding, delivered, faults>>

\* inbox/email/draft and the reply draft: a complete draft, at once in memory.
BeginDraft(h) ==
    /\ req[h].pc = "idle"
    /\ object' = [object EXCEPT ![h] = [draft |-> h, status |-> "awaiting_approval"]]
    /\ mem' = h
    /\ Becomes(h, [req[h] EXCEPT !.kind = "draft", !.pc = "resolve", !.answer = "drafted"])
    /\ overlap' = Overlaps(h)
    /\ UNCHANGED <<current, receipt, lock, store, outstanding, delivered, faults>>

\* inbox/email/approve of a draft the portal has seen.
BeginApprove(h, d) ==
    /\ req[h].pc = "idle"
    /\ req[d].answer = "drafted"
    /\ Becomes(h, [req[h] EXCEPT !.kind = "approve", !.wants = d, !.pc = "resolve"])
    /\ overlap' = Overlaps(h)
    /\ UNCHANGED <<session, store, outstanding, delivered, faults>>

\* A draft is written at once; the others look for one, or leave it behind.
AfterResolve(kind) ==
    CASE kind = "new"   -> "startNew"
      [] kind = "draft" -> "persist"
      [] OTHER          -> "recall"

\* ensureConversation: the active conversation is read from the store.
Resolve(h) ==
    /\ req[h].pc = "resolve"
    /\ Becomes(h, [req[h] EXCEPT !.conv = active, !.pc = AfterResolve(req[h].kind),
                                 !.left = IF req[h].kind = "draft" THEN 1 ELSE 0])
    /\ UNCHANGED <<session, store, history, faults>>

\* hydratePendingWorkForConversation reads the row into an object of its own.
Recall(h) ==
    /\ req[h].pc = "recall"
    /\ current' = req[h].conv
    /\ LET row == rows[req[h].conv]
       IN  /\ object' = [object EXCEPT ![h] =
                IF Live(row) THEN [draft |-> row.draft, status |-> row.status] ELSE NoWork]
           /\ Becomes(h, [req[h] EXCEPT !.work = IF Live(row) THEN h ELSE None, !.pc = "hydrate"])
    /\ UNCHANGED <<mem, receipt, lock, store, history, faults>>

\* Mutant of Hydrate: without a row the session keeps what it holds.
HydrateKeeping(h) ==
    /\ req[h].pc = "hydrate"
    /\ mem' = IF req[h].work = None THEN mem ELSE req[h].work
    /\ Becomes(h, [req[h] EXCEPT !.pc = "act"])
    /\ UNCHANGED <<object, current, receipt, lock, store, history, faults>>

\* It then replaces whatever the session holds, or deletes it.
Hydrate(h) ==
    /\ req[h].pc = "hydrate"
    /\ mem' = req[h].work
    /\ Becomes(h, [req[h] EXCEPT !.pc = "act"])
    /\ UNCHANGED <<object, current, receipt, lock, store, history, faults>>

\* A read of the store, or the check of the connections, throws.
ReadFails(h) ==
    /\ req[h].pc \in {"resolve", "recall", "check"}
    /\ failures < MaxFailures
    /\ failures' = failures + 1
    /\ Becomes(h, Thrown(h))
    /\ UNCHANGED <<session, store, history, crashes>>

-----------------------------------------------------------------------------
(* What the founder's message does to the draft: runEmailTurn *)

Acts(h, kind) == req[h].pc = "act" /\ req[h].kind = kind

\* The draft in the session has one of these statuses.
DraftIs(statuses) == mem # None /\ object[mem].status \in statuses

\* The turn goes on to write the draft back: once by processCeoMessage, and
\* before that by the deterministic path, which an awaited decision takes.
Goes(h, completions, answer) ==
    [req[h] EXCEPT !.pc = "persist", !.work = mem, !.left = completions, !.answer = answer]

Completions == IF DraftIs({"awaiting_approval"}) THEN 2 ELSE 1

\* A request for an e-mail starts the pending work again.
RequestEmail(h) ==
    /\ Acts(h, "request")
    /\ object' = [object EXCEPT ![h] = [draft |-> h, status |-> "awaiting_approval"]]
    /\ mem' = h
    /\ Becomes(h, [Goes(h, 1, "drafted") EXCEPT !.work = h])
    /\ UNCHANGED <<current, receipt, lock, store, history, faults>>

\* sendPendingEmail up to its first await: the status and the receipt, and
\* the conversation the lease is written under.
StartSend(h) ==
    /\ object' = Marked(mem, "sending")
    /\ receipt' = "executing"
    /\ Becomes(h, [req[h] EXCEPT !.pc = "lease", !.work = mem, !.lease = current,
                                 !.left = IF h \in Calls THEN 1 ELSE Completions])
    /\ UNCHANGED <<mem, current, lock, store, history, faults>>

\* The session holds the draft that an approval of the inbox names.
HoldsWanted(h) == mem # None /\ object[mem].draft = req[h].wants

\* An approval of a draft that awaits it, or failed.
ApproveEmail(h) ==
    /\ Acts(h, "yes")
    /\ DraftIs({"awaiting_approval", "failed"})
    /\ StartSend(h)

\* An accepted draft is verified, whatever the message about it says.
StartVerify(h) ==
    /\ \/ \E kind \in {"yes", "cancel", "edit"} : Acts(h, kind)
       \/ Acts(h, "approve") /\ HoldsWanted(h)
    /\ DraftIs({"accepted_unverified"})
    /\ Becomes(h, [req[h] EXCEPT !.pc = "verify", !.work = mem, !.left = 1])
    /\ UNCHANGED <<session, store, history, faults>>

\* A cancellation removes the draft from the session.
CancelEmail(h) ==
    /\ Acts(h, "cancel")
    /\ DraftIs({"awaiting_approval", "failed"})
    /\ object' = Marked(mem, "cancelled")
    /\ mem' = None
    /\ Becomes(h, Goes(h, Completions, "cancelled"))
    /\ UNCHANGED <<current, receipt, lock, store, history, faults>>

\* An edit asks for the approval again.
EditEmail(h) ==
    /\ Acts(h, "edit")
    /\ DraftIs({"awaiting_approval", "failed"})
    /\ object' = Marked(mem, "awaiting_approval")
    /\ Becomes(h, Goes(h, Completions, "none"))
    /\ UNCHANGED <<mem, current, receipt, lock, store, history, faults>>

\* repeatedApprovedOperation: a "yes" after the operation has succeeded.
Repeated(h) == req[h].kind = "yes" /\ receipt = "succeeded"

\* A message that leaves the draft alone: another subject, a draft that is
\* being sent ("I will not resend"), or none.
LeaveEmail(h) ==
    /\ \/ Acts(h, "other")
       \/ /\ \E kind \in {"yes", "cancel", "edit"} : Acts(h, kind)
          /\ mem # None => DraftIs({"sending"})
       \/ Acts(h, "approve") /\ HoldsWanted(h) /\ DraftIs({"sending"})
    /\ Becomes(h, Goes(h, IF Repeated(h) THEN 2 ELSE 1, "none"))
    /\ UNCHANGED <<session, store, history, faults>>

\* An explicit new subject drops the draft from the session.
EscapeEmail(h) ==
    /\ Acts(h, "other")
    /\ mem # None
    /\ mem' = None
    /\ Becomes(h, [Goes(h, 1, "none") EXCEPT !.work = None])
    /\ UNCHANGED <<object, current, receipt, lock, store, history, faults>>

\* The approval of the inbox: the session must hold the draft it names.
ApproveInInbox(h) ==
    /\ Acts(h, "approve")
    /\ HoldsWanted(h)
    /\ object[mem].status \notin {"sending", "accepted_unverified"}
    /\ StartSend(h)

\* email_draft_not_pending
RefuseInInbox(h) ==
    /\ Acts(h, "approve")
    /\ ~HoldsWanted(h)
    /\ Becomes(h, Thrown(h))
    /\ UNCHANGED <<session, store, history, faults>>

-----------------------------------------------------------------------------
(* sendPendingEmail from its first await on *)

Draft(h) == object[req[h].work].draft

\* Mutant of PersistLease: the provider is called without a lease.
NoLease(h) ==
    /\ req[h].pc = "lease"
    /\ Becomes(h, [req[h] EXCEPT !.pc = "check"])
    /\ UNCHANGED <<session, store, history, faults>>

\* The execution lease, under the conversation the session named.
PersistLease(h) ==
    /\ req[h].pc = "lease"
    /\ StoreCall(h, Upserted(req[h].lease, object[req[h].work]), [req[h] EXCEPT !.pc = "check"])
    /\ UNCHANGED <<session, active, history, crashes>>

\* isEmailCapabilityOperational
CheckConnection(h) ==
    /\ req[h].pc = "check"
    /\ \/ /\ Becomes(h, [req[h] EXCEPT !.pc = "call"])
          /\ UNCHANGED <<object, receipt>>
       \/ /\ object' = Marked(req[h].work, "awaiting_approval")
          /\ receipt' = "failed"
          /\ Becomes(h, [req[h] EXCEPT !.pc = "persist", !.answer = "failed"])
    /\ UNCHANGED <<mem, current, lock, store, history, faults>>

\* sendEmail: the provider takes the message and confirms it, takes it
\* without confirmation, or an error comes back, whether it took it or not.
CallProvider(h) ==
    /\ req[h].pc = "call"
    /\ outstanding' = [outstanding EXCEPT ![Draft(h)] = @ + 1]
    /\ \E o \in {"sent", "accepted", "error"} :
          /\ Becomes(h, [req[h] EXCEPT !.pc = "settle", !.outcome = o])
          /\ \/ delivered' = delivered \cup {Draft(h)}
             \/ o = "error" /\ UNCHANGED delivered
    /\ UNCHANGED <<session, store, overlap, faults>>

\* Confirmed: sent, and the session forgets whatever draft it holds.
SettleSent(h) ==
    /\ req[h].pc = "settle" /\ req[h].outcome = "sent"
    /\ object' = Marked(req[h].work, "sent")
    /\ receipt' = "succeeded"
    /\ mem' = None
    /\ Becomes(h, [req[h] EXCEPT !.pc = "persist", !.outcome = "none", !.answer = "sent"])
    /\ UNCHANGED <<current, lock, store, history, faults>>

\* Accepted without a copy in Sent: kept for verification.
SettleAccepted(h) ==
    /\ req[h].pc = "settle" /\ req[h].outcome = "accepted"
    /\ object' = Marked(req[h].work, "accepted_unverified")
    /\ receipt' = "ambiguous"
    /\ Becomes(h, [req[h] EXCEPT !.pc = "persist", !.outcome = "none", !.answer = "accepted"])
    /\ UNCHANGED <<mem, current, lock, store, history, faults>>

\* Failed: the draft stays, and "yes" may try it again.
SettleFailed(h) ==
    /\ req[h].pc = "settle" /\ req[h].outcome = "error"
    /\ object' = Marked(req[h].work, "failed")
    /\ receipt' = "failed"
    /\ outstanding' = [outstanding EXCEPT ![Draft(h)] = 0]
    /\ Becomes(h, [req[h] EXCEPT !.pc = "persist", !.outcome = "none", !.answer = "failed"])
    /\ UNCHANGED <<mem, current, lock, store, delivered, overlap, faults>>

\* verifyAcceptedEmailSend finds the copy: sent, and a receipt, if the
\* process still has one, is completed.
Verified(h) ==
    /\ req[h].pc = "verify"
    /\ Draft(h) \in delivered
    /\ object' = Marked(req[h].work, "sent")
    /\ receipt' = IF receipt = "none" THEN "none" ELSE "succeeded"
    /\ mem' = None
    /\ Becomes(h, [req[h] EXCEPT !.pc = "persist", !.answer = "sent"])
    /\ UNCHANGED <<current, lock, store, history, faults>>

\* It does not: the draft stays as it is.
NotVerified(h) ==
    /\ req[h].pc = "verify"
    /\ Becomes(h, [req[h] EXCEPT !.pc = "persist", !.answer = "accepted"])
    /\ UNCHANGED <<session, store, history, faults>>

-----------------------------------------------------------------------------
(* persistPendingWorkAtTurnCompletion, once or twice *)

\* The state a completion gives the row, from the receipt of the session.
Verdict(h) ==
    IF req[h].kind \in {"draft", "other"} THEN "none"
    ELSE IF receipt = "succeeded" /\ (req[h].work # None \/ req[h].kind = "yes") THEN "succeeded"
    ELSE IF req[h].kind = "cancel" /\ req[h].left = 2 /\ req[h].answer = "cancelled" THEN "cancelled"
    ELSE "none"

\* After a completion comes the next one, or the reply.
NextCompletion(state) ==
    IF state.left > 1 THEN [state EXCEPT !.left = @ - 1, !.pc = "persist", !.verdict = "none"]
    ELSE [state EXCEPT !.left = 0, !.pc = "reply", !.verdict = "none"]

\* persistPendingWorkForConversation writes the draft the session holds now.
Persist(h) ==
    /\ req[h].pc = "persist"
    /\ current' = IF req[h].kind = "draft" THEN req[h].conv ELSE current
    /\ LET verdict == Verdict(h)
           after   == IF verdict = "none" THEN NextCompletion(req[h])
                      ELSE [req[h] EXCEPT !.pc = "complete", !.verdict = verdict]
       IN  IF mem = None
           THEN Becomes(h, after) /\ UNCHANGED <<rows, failures>>
           ELSE StoreCall(h, Upserted(req[h].conv, object[mem]), after)
    /\ UNCHANGED <<object, mem, receipt, lock, active, history, crashes>>

\* If the session holds no draft by then, the row is closed.
CompleteWork(h) ==
    /\ req[h].pc = "complete"
    /\ IF mem = None
       THEN StoreCall(h, Completed(req[h].conv, req[h].verdict), NextCompletion(req[h]))
       ELSE Becomes(h, NextCompletion(req[h])) /\ UNCHANGED <<rows, failures>>
    /\ UNCHANGED <<session, active, history, crashes>>

\* The request is answered; a turn releases the mutex, thrown or not.
Reply(h) ==
    /\ req[h].pc = "reply"
    /\ lock' = IF lock = h THEN None ELSE lock
    /\ Becomes(h, Ended(h))
    /\ UNCHANGED <<object, mem, current, receipt, store, outstanding, delivered, overlap, faults>>

-----------------------------------------------------------------------------
(* /new: startNewConversation, under the mutex *)

\* The store archives the active conversation and opens the next one.
StartNew(h) ==
    /\ req[h].pc = "startNew"
    /\ current' = req[h].conv
    /\ \E o \in StoreOutcomes :
          /\ active' = IF o = "refused" THEN active ELSE active + 1
          /\ failures' = IF o = "ok" THEN failures ELSE failures + 1
          /\ Becomes(h, IF o = "ok" THEN [req[h] EXCEPT !.pc = "cancelOld"]
                        ELSE Thrown(h))
    /\ UNCHANGED <<object, mem, receipt, lock, rows, history, crashes>>

\* The draft of the old one is cancelled; that this fails is ignored.
CancelOld(h) ==
    /\ req[h].pc = "cancelOld"
    /\ current' = active
    /\ \E o \in StoreOutcomes :
          /\ rows' = IF o = "refused" THEN rows ELSE Completed(req[h].conv, "cancelled")
          /\ failures' = IF o = "ok" THEN failures ELSE failures + 1
    /\ Becomes(h, [req[h] EXCEPT !.pc = "forget"])
    /\ UNCHANGED <<object, mem, receipt, lock, active, history, crashes>>

\* The session forgets the draft and the receipt.
Forget(h) ==
    /\ req[h].pc = "forget"
    /\ mem' = None
    /\ receipt' = "none"
    /\ Becomes(h, [req[h] EXCEPT !.pc = "reply"])
    /\ UNCHANGED <<object, current, lock, store, history, faults>>

-----------------------------------------------------------------------------
(* The process stops: its session is gone, and so are the requests in it. *)
Restart ==
    /\ crashes < MaxCrashes
    /\ crashes' = crashes + 1
    /\ mem' = None
    /\ current' = 0
    /\ receipt' = "none"
    /\ lock' = None
    /\ object' = [h \in Requests |-> NoWork]
    /\ req' = [h \in Requests |->
         IF InProgress(h) THEN Ended(h) ELSE req[h]]
    /\ UNCHANGED <<store, history, failures>>

Begin(h) ==
    \/ h \in Turns /\ \E kind \in TurnKinds : BeginTurn(h, kind)
    \/ h \in Calls /\ (BeginDraft(h) \/ \E d \in Drafts : BeginApprove(h, d))

Advance(h) ==
    \/ Resolve(h) \/ Recall(h) \/ Hydrate(h)
    \/ RequestEmail(h) \/ ApproveEmail(h) \/ StartVerify(h) \/ CancelEmail(h) \/ EditEmail(h)
    \/ LeaveEmail(h) \/ EscapeEmail(h) \/ ApproveInInbox(h) \/ RefuseInInbox(h)
    \/ PersistLease(h) \/ CheckConnection(h) \/ CallProvider(h)
    \/ SettleSent(h) \/ SettleAccepted(h) \/ SettleFailed(h) \/ Verified(h) \/ NotVerified(h)
    \/ Persist(h) \/ CompleteWork(h) \/ Reply(h)
    \/ StartNew(h) \/ CancelOld(h) \/ Forget(h)

Next ==
    \/ \E h \in Requests : Begin(h) \/ Advance(h) \/ ReadFails(h)
    \/ Restart

Spec == Init /\ [][Next]_vars

-----------------------------------------------------------------------------
(* Properties *)

TypeOK ==
    /\ req \in [Requests -> RequestStates]
    /\ object \in [Requests -> Works]
    /\ mem \in Requests \cup {None}
    /\ current \in 0..Convs
    /\ receipt \in {"none", "executing", "succeeded", "failed", "ambiguous"}
    /\ lock \in Turns \cup {None}
    /\ rows \in [1..Convs -> Rows]
    /\ active \in 1..Convs
    /\ outstanding \in [Drafts -> Nat]
    /\ delivered \subseteq Drafts
    /\ overlap \in BOOLEAN
    /\ failures \in 0..MaxFailures
    /\ crashes \in 0..MaxCrashes

\* As long as no request of the inbox overlaps another one, a draft is with
\* the provider once: no restart, lost row or repeated "yes" sends it again
\* unless the founder was told that the send failed ("Never fakes success",
\* "A restarted worker will recover `sending`, never issue a blind resend").
SentOnceAtATime == ~overlap => \A d \in Drafts : outstanding[d] <= 1

\* The barrier behind it: while the fate of a call is open, no live row of
\* any conversation offers its draft for approval.
LeaseStands ==
    ~overlap => \A d \in Drafts : outstanding[d] > 0 =>
        \A c \in 1..Convs : rows[c].draft = d /\ Live(rows[c]) =>
            rows[c].status \in {"sending", "accepted_unverified"}

\* A draft is never sent from a conversation that /new has left, again as
\* long as the inbox does not overlap ("cannot be resumed accidentally from
\* the new thread"), although the cancellation of its row may have failed.
ResetIsFinal ==
    [][\A d \in Drafts : ~overlap /\ outstanding'[d] > outstanding[d] => req[d].conv = active]_vars

\* "Never fakes success": a draft that the session, a row or an answer to the
\* founder calls sent, or accepted, is one that the provider took.
NeverFakesSuccess ==
    ~overlap =>
        /\ \A x \in Requests : object[x].status \in {"sent", "accepted_unverified"} =>
              object[x].draft \in delivered
        /\ \A c \in 1..Convs : rows[c].status \in {"sent", "accepted_unverified"} =>
              rows[c].draft \in delivered
        /\ \A h \in Requests : req[h].answer \in {"sent", "accepted"} =>
              Draft(h) \in delivered

\* The comment in sendPendingEmail: a repeated approval arriving
\* concurrently cannot start a second provider call.
NoConcurrentSend == \A d \in Drafts : outstanding[d] <= 1
=============================================================================
