---------------------------- MODULE Conversations ----------------------------
(***************************************************************************)
(* The conversation of an organisation, as the processes of the backend    *)
(* share it through Postgres: exactly one row is active, /new replaces it  *)
(* in a transaction, and every request that finds none may create it.      *)
(* Turns and commands of one process hold the turn lock of its session;    *)
(* other processes, the completion of delegated work and the listing of    *)
(* conversations do not.  The transaction of /new and the trigger that     *)
(* caps the dashboards take one and the same advisory lock.                *)
(*                                                                         *)
(* Isolation is READ COMMITTED: each statement sees what was committed     *)
(* when it started, and an insert waits for an open transaction whose row  *)
(* it would collide with.                                                  *)
(***************************************************************************)
EXTENDS Naturals, Sequences

CONSTANTS
    Requests,     \* the requests of a run, each made once
    Processes,    \* the processes of the backend
    home,         \* the process that serves a request
    asks,         \* the kinds of request it may be
    Convs,        \* bound: conversations that can exist
    Kept,         \* COMPACTION_RECENT_VERBATIM: messages a summary leaves alone
    Cap,          \* the cap of the dashboards
    MaxFailures,  \* bound: store calls that fail
    None

\* Requests of the chat, which take the turn lock, and the others.
TurnKinds == {"turn", "light", "new", "compact"}
Kinds == TurnKinds \cup {"resolve", "delegated", "archive", "dashboard"}

ASSUME ConversationsAssumption ==
    /\ home \in [Requests -> Processes]
    /\ asks \in [Requests -> SUBSET Kinds]
    /\ Convs \in Nat \ {0}
    /\ Kept \in Nat /\ Cap \in Nat \ {0} /\ MaxFailures \in Nat
    /\ None \notin Requests

Ids == 1..Convs

Steps == {"idle", "open", "wait", "check", "list", "insert", "relist", "ask", "asked",
          "answer", "answered", "orgLock", "renew", "place", "archive",
          "get", "load", "save", "leave", "done"}

\* A request: what it asks and of which conversation, where it stands, what
\* it has read (the marker and the summary of a conversation, a number of
\* messages or of dashboards), whether it has compacted in mid-turn, and how
\* it ends.
Frames == [kind : Kinds \cup {"none"}, conv : 0..Convs, pc : Steps,
           marker : Nat, summary : Seq(Nat), seen : Nat, recovered : BOOLEAN,
           outcome : {"none", "ok", "stale", "limit", "error"}]

VARIABLES
    req,         \* the requests
    turn,        \* per process: the request inside withConversationTurnLock
    status,      \* conversations.status, "none" before the row exists
    messages,    \* number of rows in conversation_messages
    marker,      \* conversations.compaction_message_count
    summary,     \* conversations.summary: the messages folded into it, in order
    orgLock,     \* holder of the advisory lock of the organisation
    swept,       \* rows the open transaction has archived
    dashboards,  \* active rows of department_dashboards
    endedBy,     \* history: the request that archived a conversation
    failures     \* store calls that failed

rows == <<status, messages, marker, summary>>
tx   == <<orgLock, swept>>
vars == <<req, turn, rows, tx, dashboards, endedBy, failures>>

NoFrame == [kind |-> "none", conv |-> 0, pc |-> "idle", marker |-> 0, summary |-> <<>>,
            seen |-> 0, recovered |-> FALSE, outcome |-> "none"]

\* A new organisation, or one with a conversation and some messages in it.
Init ==
    /\ req = [r \in Requests |-> NoFrame]
    /\ turn = [p \in Processes |-> None]
    /\ \E first \in {"none", "active"} :
          status = [c \in Ids |-> IF c = 1 THEN first ELSE "none"]
    /\ messages = [c \in Ids |-> IF status[c] = "active" THEN Kept + 1 ELSE 0]
    /\ marker = [c \in Ids |-> 0]
    /\ summary = [c \in Ids |-> <<>>]
    /\ orgLock = None
    /\ swept = {}
    /\ dashboards = 0
    /\ endedBy = [c \in Ids |-> None]
    /\ failures = 0

-----------------------------------------------------------------------------
(* Calls, and how a request goes on after one *)

At(r, pc) == req[r].pc = pc
Becomes(r, frame) == req' = [req EXCEPT ![r] = frame]
Goes(r, pc) == [req[r] EXCEPT !.pc = pc]

InTurn(r) == turn[home[r]] = r

\* A request whose handler is over, and of which only the answer is left.
Gone(r, outcome) ==
    [NoFrame EXCEPT !.pc = "done", !.kind = req[r].kind, !.conv = req[r].conv,
                    !.outcome = outcome]

\* The handler ends; inside the turn lock, by way of the finally clause.
Ends(r, outcome) ==
    IF InTurn(r)
    THEN [NoFrame EXCEPT !.pc = "leave", !.kind = req[r].kind, !.conv = req[r].conv,
                         !.outcome = outcome]
    ELSE Gone(r, outcome)

\* A compaction is over: it was the command, or best effort inside a turn or
\* after it.
Compacted(r) ==
    CASE req[r].kind = "compact" -> Ends(r, "ok")
      [] req[r].kind # "compact" /\ InTurn(r) ->
            [Goes(r, "answer") EXCEPT !.marker = 0, !.summary = <<>>, !.seen = 0]
      [] OTHER -> Ends(r, "ok")

\* Mutant of Thrown: a conflict of the insert reaches the caller.
ThrownAtOnce(r) ==
    IF req[r].pc \in {"get", "load", "save"} /\ req[r].kind # "compact"
    THEN Compacted(r)
    ELSE Ends(r, "error")

\* A call throws: caught after a failed insert, which is followed by another
\* listing, and around a compaction that is best effort.
Thrown(r) ==
    CASE req[r].pc = "insert" -> Goes(r, "relist")
      [] req[r].pc \in {"get", "load", "save"} /\ req[r].kind # "compact" -> Compacted(r)
      [] OTHER -> Ends(r, "error")

\* A call has had its effect; its answer arrives, or is lost.
Answered(r, frame) ==
    \/ Becomes(r, frame) /\ UNCHANGED failures
    \/ /\ failures < MaxFailures
       /\ failures' = failures + 1
       /\ Becomes(r, Thrown(r))

Calls == {"open", "check", "list", "insert", "relist", "ask", "answer", "orgLock",
          "archive", "get", "load", "save"}

\* A call fails without any effect.
Fails(r) ==
    /\ req[r].pc \in Calls
    /\ failures < MaxFailures
    /\ failures' = failures + 1
    /\ Becomes(r, Thrown(r))
    /\ UNCHANGED <<turn, rows, tx, dashboards, endedBy>>

-----------------------------------------------------------------------------
(* A request arrives, and takes the turn lock of its process *)

Active == {c \in Ids : status[c] = "active"}
Existing == {c \in Ids : status[c] # "none"}

\* The row an insert makes, as long as the bound allows another.
NextId == CHOOSE c \in Ids : status[c] = "none"
Room == Existing # Ids

FirstStep(kind) ==
    CASE kind = "turn" -> "open"
      [] kind \in {"light", "new", "compact"} -> "wait"
      [] kind \in {"resolve", "delegated", "archive"} -> "list"
      [] OTHER -> "orgLock"

\* A message, a command or an archive names a conversation the portal has seen.
Begin(r, kind, c) ==
    /\ At(r, "idle")
    /\ IF kind \in {"turn", "new", "compact", "archive"} THEN c \in Existing ELSE c = 0
    /\ Becomes(r, [req[r] EXCEPT !.kind = kind, !.conv = c, !.pc = FirstStep(kind)])
    /\ UNCHANGED <<turn, rows, tx, dashboards, endedBy, failures>>

\* The route of a message looks at the conversation before the lock.
Open(r) ==
    /\ At(r, "open")
    /\ Becomes(r, IF status[req[r].conv] = "active" THEN Goes(r, "wait") ELSE Ends(r, "stale"))
    /\ UNCHANGED <<turn, rows, tx, dashboards, endedBy, failures>>

\* withConversationTurnLock.  Who waits is served in order; nothing here
\* depends on it.
Enter(r) ==
    /\ At(r, "wait")
    /\ turn[home[r]] = None
    /\ turn' = [turn EXCEPT ![home[r]] = r]
    /\ Becomes(r, Goes(r, IF req[r].kind = "light" THEN "list" ELSE "check"))
    /\ UNCHANGED <<rows, tx, dashboards, endedBy, failures>>

AfterCheck(kind) ==
    CASE kind = "turn" -> "ask"
      [] kind = "new"  -> "orgLock"
      [] OTHER         -> "get"

\* Mutant of Check: what the route saw before the lock is good enough.
CheckNothing(r) ==
    /\ At(r, "check")
    /\ Becomes(r, Goes(r, AfterCheck(req[r].kind)))
    /\ UNCHANGED <<turn, rows, tx, dashboards, endedBy, failures>>

\* The answer when the conversation was archived during the wait: a command
\* is told so, a message makes ensureConversation throw.
Refusal(kind) == IF kind = "turn" THEN "error" ELSE "stale"

\* The conversation is read again under the lock.
Check(r) ==
    /\ At(r, "check")
    /\ Becomes(r, IF status[req[r].conv] = "active"
                  THEN Goes(r, AfterCheck(req[r].kind))
                  ELSE Ends(r, Refusal(req[r].kind)))
    /\ UNCHANGED <<turn, rows, tx, dashboards, endedBy, failures>>

TurnIsOver(r) == req[r].kind = "turn" /\ req[r].outcome = "ok"

\* Mutant of Leave: a handler that threw keeps the lock.
LeaveKeeping(r) ==
    /\ At(r, "leave")
    /\ turn' = IF req[r].outcome = "error" THEN turn ELSE [turn EXCEPT ![home[r]] = None]
    /\ \/ Becomes(r, Gone(r, req[r].outcome))
       \/ TurnIsOver(r) /\ Becomes(r, Goes(r, "get"))
    /\ UNCHANGED <<rows, tx, dashboards, endedBy, failures>>

\* The finally clause; after a turn the route compacts a transcript that has
\* become too long.  How long messages are is not modelled.
Leave(r) ==
    /\ At(r, "leave")
    /\ turn' = [turn EXCEPT ![home[r]] = None]
    /\ \/ Becomes(r, Gone(r, req[r].outcome))
       \/ TurnIsOver(r) /\ Becomes(r, Goes(r, "get"))
    /\ UNCHANGED <<rows, tx, dashboards, endedBy, failures>>

-----------------------------------------------------------------------------
(* ensureCanonical: list, insert, list again *)

\* Mutant of Resolved: the archive route archives whatever it is asked to.
ResolvedUnasked(r, c) ==
    CASE req[r].kind = "light"     -> [Goes(r, "ask") EXCEPT !.conv = c]
      [] req[r].kind = "delegated" -> [Goes(r, "answer") EXCEPT !.conv = c]
      [] req[r].kind = "archive"   -> Goes(r, "archive")
      [] OTHER                     -> Ends(r, "ok")

\* The conversation has been found or made.  A route that only asks for it is
\* done; the archive route refuses the canonical one.
Resolved(r, c) ==
    CASE req[r].kind = "light"     -> [Goes(r, "ask") EXCEPT !.conv = c]
      [] req[r].kind = "delegated" -> [Goes(r, "answer") EXCEPT !.conv = c]
      [] req[r].kind = "archive"   -> IF c = req[r].conv THEN Ends(r, "stale") ELSE Goes(r, "archive")
      [] OTHER                     -> Ends(r, "ok")

\* listForOrg: the active conversation, if the listing shows one.  The second
\* listing has to.
List(r) ==
    /\ req[r].pc \in {"list", "relist"}
    /\ \/ \E c \in Active : Becomes(r, Resolved(r, c))
       \/ /\ Active = {}
          /\ Becomes(r, IF At(r, "list") THEN Goes(r, "insert") ELSE Thrown(r))
    /\ UNCHANGED <<turn, rows, tx, dashboards, endedBy, failures>>

\* The insert waits while an open transaction has changed an active row, and
\* fails on the unique index when another conversation is active.
Insert(r) ==
    /\ At(r, "insert")
    /\ swept = {}
    /\ \/ /\ Active = {} /\ Room
          /\ status' = [status EXCEPT ![NextId] = "active"]
          /\ Answered(r, Resolved(r, NextId))
       \/ /\ Active # {}
          /\ Becomes(r, Thrown(r))
          /\ UNCHANGED <<status, failures>>
    /\ UNCHANGED <<turn, messages, marker, summary, tx, dashboards, endedBy>>

\* archive: any row by its id, unless an open transaction holds it.
Archive(r) ==
    /\ At(r, "archive")
    /\ req[r].conv \notin swept
    /\ status' = [status EXCEPT ![req[r].conv] = "archived"]
    /\ endedBy' = [endedBy EXCEPT ![req[r].conv] = IF status[req[r].conv] = "active" THEN r ELSE @]
    /\ Answered(r, Ends(r, "ok"))
    /\ UNCHANGED <<turn, messages, marker, summary, tx, dashboards>>

-----------------------------------------------------------------------------
(* start_new_conversation, and the trigger that caps the dashboards *)

\* Mutant of CountDashboards: the trigger counts without the lock.
CountUnlocked(r) ==
    /\ At(r, "orgLock") /\ req[r].kind = "dashboard"
    /\ Becomes(r, [Goes(r, "place") EXCEPT !.seen = dashboards])
    /\ UNCHANGED <<turn, rows, tx, dashboards, endedBy, failures>>

\* The trigger takes the lock and counts the active dashboards.  (A lock and
\* the statement behind it are one step here: taking a lock commutes with
\* whatever others do before that statement.)
CountDashboards(r) ==
    /\ At(r, "orgLock") /\ req[r].kind = "dashboard"
    /\ orgLock = None
    /\ orgLock' = r
    /\ Becomes(r, [Goes(r, "place") EXCEPT !.seen = dashboards])
    /\ UNCHANGED <<turn, rows, swept, dashboards, endedBy, failures>>

\* start_new_conversation takes the same lock and archives the active rows,
\* which nobody else sees yet.
Sweep(r) ==
    /\ At(r, "orgLock") /\ req[r].kind = "new"
    /\ orgLock = None
    /\ orgLock' = r
    /\ swept' = Active
    /\ Becomes(r, Goes(r, "renew"))
    /\ UNCHANGED <<turn, rows, dashboards, endedBy, failures>>

\* The insert and the commit, or the rollback when another active row has
\* appeared beside those archived.
Renew(r) ==
    /\ At(r, "renew") /\ Room
    /\ IF Active \subseteq swept
       THEN /\ status' = [c \in Ids |-> IF c \in swept THEN "archived"
                                       ELSE IF c = NextId THEN "active" ELSE status[c]]
            /\ endedBy' = [c \in Ids |-> IF c \in swept THEN r ELSE endedBy[c]]
            /\ Answered(r, Ends(r, "ok"))
       ELSE /\ Becomes(r, Thrown(r))
            /\ UNCHANGED <<status, endedBy, failures>>
    /\ orgLock' = None
    /\ swept' = {}
    /\ UNCHANGED <<turn, messages, marker, summary, dashboards>>

\* dashboard_limit, or the row and the commit.
Place(r) ==
    /\ At(r, "place")
    /\ \/ /\ req[r].seen >= Cap
          /\ Becomes(r, Ends(r, "limit"))
          /\ UNCHANGED <<dashboards, failures>>
       \/ /\ req[r].seen < Cap
          /\ dashboards' = dashboards + 1
          /\ Answered(r, Ends(r, "ok"))
    /\ orgLock' = IF orgLock = r THEN None ELSE orgLock
    /\ UNCHANGED <<turn, rows, swept, endedBy>>

\* Mutant of FreeDashboard: an archived dashboard is archived once more.
FreeAnyDashboard ==
    /\ dashboards' = dashboards - 1
    /\ UNCHANGED <<req, turn, rows, tx, endedBy, failures>>

\* archive of an active dashboard takes no lock.
FreeDashboard ==
    /\ dashboards > 0
    /\ dashboards' = dashboards - 1
    /\ UNCHANGED <<req, turn, rows, tx, endedBy, failures>>

-----------------------------------------------------------------------------
(* Messages *)

\* The insert of a message asks for no status.
Written(r, frame) ==
    /\ messages' = [messages EXCEPT ![req[r].conv] = @ + 1]
    /\ Answered(r, frame)
    /\ UNCHANGED <<turn, status, marker, summary, tx, dashboards, endedBy>>

\* The message of the founder.
Ask(r) == At(r, "ask") /\ Written(r, Goes(r, "asked"))

\* The engine answers, or delegated work is complete: the reply is added.
Answer(r) == At(r, "answer") /\ Written(r, Goes(r, "answered"))

\* addMessage then dates the conversation: the update waits for a transaction
\* that has changed the row, and nobody looks at its error.
Touch(r) ==
    /\ \/ At(r, "asked") /\ Becomes(r, Goes(r, "answer"))
       \/ At(r, "answered") /\ Becomes(r, Ends(r, "ok"))
    /\ req[r].conv \notin swept
    /\ UNCHANGED <<turn, rows, tx, dashboards, endedBy, failures>>

\* The engine failed or leaked: the conversation is compacted in mid-turn.
Recover(r) ==
    /\ At(r, "answer")
    /\ req[r].kind = "turn"
    /\ ~req[r].recovered
    /\ Becomes(r, [Goes(r, "get") EXCEPT !.recovered = TRUE])
    /\ UNCHANGED <<turn, rows, tx, dashboards, endedBy, failures>>

-----------------------------------------------------------------------------
(* compactConversation *)

\* The row: active, with a summary up to a marker.
Get(r) ==
    /\ At(r, "get")
    /\ Becomes(r, IF status[req[r].conv] = "active"
                  THEN [Goes(r, "load") EXCEPT !.marker = marker[req[r].conv],
                                               !.summary = summary[req[r].conv]]
                  ELSE IF req[r].kind = "compact" THEN Ends(r, "stale") ELSE Compacted(r))
    /\ UNCHANGED <<turn, rows, tx, dashboards, endedBy, failures>>

\* splitForCompaction: how many messages are older than the recent ones.
Older(n) == IF n > Kept THEN n - Kept ELSE 0

\* The transcript: is there something between the marker and the recent ones?
Load(r) ==
    /\ At(r, "load")
    /\ LET n == messages[req[r].conv]
       IN  Becomes(r, IF Older(n) > req[r].marker THEN [Goes(r, "save") EXCEPT !.seen = n]
                                                  ELSE Compacted(r))
    /\ UNCHANGED <<turn, rows, tx, dashboards, endedBy, failures>>

\* canonicalSummary: the old summary and what follows it up to message n.
Folded(old, from, n) == old \o [i \in 1..(n - from) |-> from + i]

\* Mutant of Save: the delta is added to the summary the row has by now.
SaveOnTop(r) ==
    /\ At(r, "save")
    /\ req[r].conv \notin swept
    /\ LET c == req[r].conv
           n == Older(req[r].seen)
       IN  /\ marker' = [marker EXCEPT ![c] = n]
           /\ summary' = [summary EXCEPT ![c] = Folded(@, req[r].marker, n)]
    /\ Answered(r, Compacted(r))
    /\ UNCHANGED <<turn, status, messages, tx, dashboards, endedBy>>

\* saveCompaction: summary and marker, whatever the row holds by now.
Save(r) ==
    /\ At(r, "save")
    /\ req[r].conv \notin swept
    /\ LET c == req[r].conv
           n == Older(req[r].seen)
       IN  /\ marker' = [marker EXCEPT ![c] = n]
           /\ summary' = [summary EXCEPT ![c] = Folded(req[r].summary, req[r].marker, n)]
    /\ Answered(r, Compacted(r))
    /\ UNCHANGED <<turn, status, messages, tx, dashboards, endedBy>>

-----------------------------------------------------------------------------

\* What a request does once it has been made.
Progress(r) ==
    \/ Open(r) \/ Enter(r) \/ Check(r) \/ Leave(r)
    \/ List(r) \/ Insert(r) \/ Archive(r)
    \/ Sweep(r) \/ Renew(r) \/ CountDashboards(r) \/ Place(r)
    \/ Ask(r) \/ Answer(r) \/ Touch(r) \/ Get(r) \/ Load(r) \/ Save(r)

Next ==
    \/ \E r \in Requests :
          \/ \E kind \in asks[r], c \in 0..Convs : Begin(r, kind, c)
          \/ Progress(r)
          \/ Recover(r)
          \/ Fails(r)
    \/ FreeDashboard

\* Calls settle, what waits for a lock is woken.  Nobody has to make a
\* request, and nothing has to fail.
Fairness == \A r \in Requests : WF_vars(Progress(r))

Spec == Init /\ [][Next]_vars /\ Fairness

-----------------------------------------------------------------------------
(* Properties *)

\* Every variable has its type.
TypeOK ==
    /\ req \in [Requests -> Frames]
    /\ turn \in [Processes -> Requests \cup {None}]
    /\ status \in [Ids -> {"none", "active", "archived"}]
    /\ messages \in [Ids -> Nat]
    /\ marker \in [Ids -> Nat]
    /\ summary \in [Ids -> Seq(Nat)]
    /\ orgLock \in Requests \cup {None}
    /\ swept \subseteq Ids
    /\ dashboards \in Nat
    /\ endedBy \in [Ids -> Requests \cup {None}]
    /\ failures \in 0..MaxFailures

\* An organisation never has two active conversations, and once it has one
\* it is never again without: neither two requests that create one, nor a
\* rollover, nor the archive route leave a gap or a second thread.
OneCanonical ==
    [][ /\ \A c, d \in Ids : status'[c] = "active" /\ status'[d] = "active" => c = d
        /\ Active # {} => \E c \in Ids : status'[c] = "active" ]_vars

Thread == INSTANCE CanonicalThread
    WITH thread <- Active, archived <- {c \in Ids : status[c] = "archived"}

\* With listings, inserts that collide and a transaction of two statements,
\* the rows still keep the promise of CanonicalThread: besides OneCanonical,
\* no request ever brings an archived conversation back, and only a rollover
\* puts one into the archive.
ImplementsCanonicalThread == Thread!Spec

\* The steps of a turn or a command after the conversation was looked at
\* under the lock.
Inside(r) ==
    InTurn(r) /\ req[r].pc \in {"ask", "asked", "answer", "answered", "orgLock", "renew",
                               "get", "load", "save"}

\* What a turn or command works on, under the lock, is the active
\* conversation; only another process can take it away meanwhile.  So no
\* message of a turn lands in a conversation its own process has archived,
\* and a repeated /new does not roll over the successor the first has made.
TurnLockHolds ==
    \A r \in Requests : Inside(r) =>
        LET c == req[r].conv
        IN  status[c] = "active" \/ (endedBy[c] # None /\ home[endedBy[c]] # home[r])

\* The summary of a conversation holds each message up to its marker once, in
\* order, and none of the recent ones, however compactions overlap.
SummaryExact ==
    \A c \in Ids : /\ summary[c] = [i \in 1..marker[c] |-> i]
                   /\ marker[c] <= Older(messages[c])

\* The cap of the dashboards holds when creations race.
DashboardCapHolds == dashboards <= Cap

\* One race alone ends in an error: a message whose conversation was archived
\* while it waited for the turn lock.  No other does: two requests that both
\* create the first conversation get the same one, /new never meets the unique
\* index, and a command that comes too late is told so ("stale").
ErrorsNeedFailures ==
    \A r \in Requests :
        req[r].outcome = "error" /\ failures = 0 =>
            /\ req[r].kind = "turn"
            /\ status[req[r].conv] = "archived"
            /\ endedBy[req[r].conv] \in Requests \ {r}

\* Who waits: for the turn lock, for the advisory lock, or for the rows that
\* an open transaction has changed.
Waits(r) ==
    \/ At(r, "wait") /\ turn[home[r]] # None
    \/ At(r, "orgLock") /\ orgLock # None
    \/ At(r, "insert") /\ swept # {}
    \/ req[r].pc \in {"archive", "save", "asked", "answered"} /\ req[r].conv \in swept

UnderWay == {r \in Requests : req[r].pc \notin {"idle", "done"}}

\* A request may hold the turn lock while it waits for the advisory lock or
\* for a row, but never does everybody wait: the locks are taken in one order.
NoDeadlock == UnderWay # {} => \E r \in UnderWay : ~Waits(r)

\* Every request ends: nothing waits for ever on the turn lock, on the
\* advisory lock, or on a row.
EveryRequestEnds == <>[](\A r \in Requests : req[r].pc \in {"idle", "done"})

=============================================================================
