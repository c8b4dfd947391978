------------------------- MODULE PendingEmailProofs -------------------------
(***************************************************************************)
(* Proofs about PendingEmail, for any number of requests, conversations,    *)
(* store calls that fail and restarts of the process.                       *)
(*                                                                         *)
(* SentOnceAtATime is not inductive: the step that breaks it is a provider  *)
(* call, and what forbids that call was decided several steps, perhaps one  *)
(* restart, earlier.  The invariant therefore follows the draft through     *)
(* every place it is kept in.  While its call is open, neither the object   *)
(* of the session nor a live row offers it; it is kept in the row of one    *)
(* conversation only, its home, which every request in progress works in;   *)
(* and a request that is about to call holds a draft with no open call,     *)
(* leased in the row of that conversation.  All of this needs that requests *)
(* do not overlap; what the mutex grants without that is kept apart.        *)
(***************************************************************************)
EXTENDS PendingEmail, TLAPS

\* Statuses under which a draft is not sent.
Held == {"sending", "accepted_unverified"}

\* The mutex: a turn in progress holds it.
Mutex == \A t \in Turns : InProgress(t) => lock = t

\* A request that has not put its own object anywhere yet, and one that has
\* not written its own draft yet.
Early(h) == req[h].pc = "idle" \/ (req[h].pc \in {"resolve", "recall"} /\ req[h].kind # "draft")
Fresh(h) == Early(h) \/ (req[h].pc \in {"hydrate", "act"} /\ req[h].kind # "draft")

\* Nothing refers to a draft that is not written.
Unwritten ==
  \A d \in Drafts : Fresh(d) =>
    /\ outstanding[d] = 0
    /\ \A x \in Requests : object[x].draft # d
    /\ \A c \in 1..Convs : rows[c].draft # d

\* Whoever points at a slot finds a draft in it.
Pointers ==
  /\ mem # None => (object[mem].draft # None /\ ~Early(mem))
  /\ \A h \in Requests : req[h].work # None =>
       (object[req[h].work].draft # None /\ ~Early(req[h].work))

\* The steps that work on an object, and what a request knows by its step.
PointingAs(h, r) ==
  /\ r.pc \in {"lease", "check", "call", "settle", "verify"} => r.work # None
  /\ r.pc \in {"idle", "done"} => r.work = None
  /\ r.pc = "complete" => r.verdict # "none"
  /\ r.pc \in {"startNew", "cancelOld", "forget"} => r.kind = "new"
  /\ r.kind = "new" =>
       h \in Turns /\ r.pc \in {"resolve", "startNew", "cancelOld", "forget", "reply"}
  /\ r.pc = "hydrate" => r.work \in {h, None}
  /\ r.kind = "draft" => r.pc \in {"resolve", "persist", "complete", "reply", "done"}
  /\ r.pc \in {"idle", "resolve"} => r.conv = 0
  /\ r.pc \notin {"idle", "resolve", "done", "reply"} => r.conv # 0
Pointing == \A h \in Requests : PointingAs(h, req[h])

\* The bound on the conversations leaves room for a /new that is under way.
Room ==
  \A h \in Requests :
    req[h].kind = "new" /\ req[h].pc \in {"resolve", "startNew"} => active < Convs

\* The conversation a draft belongs to.
Home(d) == req[d].conv

Alone == \A g, h \in Requests : InProgress(g) /\ InProgress(h) => g = h

RowsAtHome == \A c \in 1..Convs : rows[c].draft # None => Home(rows[c].draft) = c

\* A draft whose call is open is held, in the session and in the rows.
MemHeld == (mem # None /\ outstanding[object[mem].draft] > 0) => object[mem].status \in Held
RowsHeld ==
  \A d \in Drafts : outstanding[d] > 0 =>
    \A c \in 1..Convs : rows[c].draft = d /\ Live(rows[c]) => rows[c].status \in Held
OneCall == \A d \in Drafts : outstanding[d] <= 1

\* What a request in progress knows.
InConversation(h) ==
  req[h].pc \notin {"resolve", "reply"} /\ req[h].kind # "new" => req[h].conv = active
Recalled(h) ==
  req[h].pc = "hydrate" =>
    /\ current = req[h].conv
    /\ (req[h].work # None) =>
         /\ Home(object[h].draft) = req[h].conv
         /\ (outstanding[object[h].draft] > 0 => object[h].status \in Held)
Working(h) ==
  req[h].pc \in {"act", "lease", "check", "call", "settle", "verify", "persist", "complete"} =>
    (mem # None => Home(object[mem].draft) = req[h].conv)
Acting(h) == req[h].pc = "act" => current = req[h].conv
Sending(h) ==
  req[h].pc \in {"lease", "check", "call"} =>
    /\ req[h].work = mem
    /\ object[mem].status = "sending"
    /\ outstanding[object[mem].draft] = 0
    /\ req[h].lease = req[h].conv
Leased(h) ==
  req[h].pc \in {"check", "call"} => rows[req[h].conv].status = "sending"
Drafting(h) ==
  req[h].kind = "draft" /\ req[h].pc = "resolve" =>
    mem = h /\ object[h].draft = h /\ outstanding[h] = 0

Stage(h) ==
  /\ InConversation(h) /\ Recalled(h) /\ Working(h) /\ Acting(h)
  /\ Sending(h) /\ Leased(h) /\ Drafting(h)

Serial ==
  /\ Alone /\ RowsAtHome /\ MemHeld /\ RowsHeld /\ OneCall
  /\ \A h \in Requests : InProgress(h) => Stage(h)

IInv ==
  /\ TypeOK
  /\ Mutex /\ Unwritten /\ Pointers /\ Pointing /\ Room
  /\ ~overlap => Serial

-----------------------------------------------------------------------------
(* What the steps change *)

Elsewhere(h) == \A x \in Requests : x # h => req'[x] = req[x]

LEMMA BecomesEffect ==
  ASSUME TypeOK, NEW h \in Requests, NEW state \in RequestStates, Becomes(h, state)
  PROVE  req' \in [Requests -> RequestStates] /\ req'[h] = state /\ Elsewhere(h)
BY DEF TypeOK, Becomes, Elsewhere

ObjectElsewhere(s) == \A x \in Requests : x # s => object'[x] = object[x]

LEMMA MarkedEffect ==
  ASSUME TypeOK, NEW s \in Requests, NEW status \in Statuses, object' = Marked(s, status)
  PROVE  /\ object' \in [Requests -> Works]
         /\ object'[s].status = status /\ ObjectElsewhere(s)
         /\ \A x \in Requests : object'[x].draft = object[x].draft
<1>1. object[s] \in Works
  BY DEF TypeOK
<1>2. PICK w : w = [object[s] EXCEPT !.status = status] /\ object' = [object EXCEPT ![s] = w]
  BY DEF Marked
<1>3. w \in Works /\ w.draft = object[s].draft /\ w.status = status
  BY <1>1, <1>2 DEF Works
<1> QED
  BY <1>2, <1>3 DEF TypeOK, ObjectElsewhere

LEMMA RequestsAreTyped ==
  ASSUME TypeOK, NEW h \in Requests
  PROVE  req[h] \in RequestStates /\ object[h] \in Works
BY DEF TypeOK

-----------------------------------------------------------------------------
(* Most steps leave the conversations and the drafts of the objects alone,   *)
(* and let the session at most forget its draft: what is left to show of     *)
(* them is Serial, without the requests that are not in progress.            *)

LEMMA InnerStep ==
  ASSUME IInv, NEW h \in Requests, InProgress(h),
         NEW r \in RequestStates, Becomes(h, r), TypeOK',
         r.conv = req[h].conv, r.work \in {req[h].work, mem, None},
         r.pc \notin {"idle", "resolve", "recall", "hydrate", "act", "startNew"}, PointingAs(h, r),
         active' = active \/ h \in Turns,
         mem' \in {mem, None},
         \A x \in Requests : object'[x].draft = object[x].draft,
         \A d \in Drafts : \/ outstanding'[d] \in {outstanding[d], 0}
                          \/ \E x \in Requests : d = object[x].draft,
         \A c \in 1..Convs : \/ rows'[c].draft = rows[c].draft
                            \/ \E x \in Requests : rows'[c].draft = object[x].draft,
         overlap' = overlap,
         lock' = lock \/ (lock = h /\ r.pc = "done"),
         ~overlap /\ Serial =>
            RowsAtHome' /\ MemHeld' /\ RowsHeld' /\ OneCall' /\ (InProgress(h)' => Stage(h)')
  PROVE  IInv'
<1>1. TypeOK /\ req[h] \in RequestStates
  BY RequestsAreTyped DEF IInv
<1>2. req' \in [Requests -> RequestStates] /\ req'[h] = r /\ Elsewhere(h)
  BY <1>1, BecomesEffect
<1>3. \A x \in Requests : req'[x].conv = req[x].conv
  BY <1>2 DEF Elsewhere
<1>4. \A x \in Requests : InProgress(x)' => InProgress(x)
  BY <1>2 DEF Elsewhere, InProgress
<1>5. \A x \in Requests : (Fresh(x)' => Fresh(x)) /\ (Early(x)' => Early(x))
  BY <1>2 DEF Elsewhere, Fresh, Early
<1>6. Mutex'
  BY <1>1, <1>2, <1>4 DEF IInv, Mutex, InProgress, Elsewhere, Requests
<1>7. Unwritten'
  <2> SUFFICES ASSUME NEW d \in Drafts, Fresh(d)'
               PROVE  /\ outstanding'[d] = 0
                      /\ \A x \in Requests : object'[x].draft # d
                      /\ \A c \in 1..Convs : rows'[c].draft # d
    BY DEF Unwritten
  <2>1. Fresh(d)
    BY <1>5 DEF Drafts
  <2> QED
    BY <2>1 DEF IInv, Unwritten
<1>8. Pointers'
  <2>1. mem' # None => (object'[mem'].draft # None /\ ~Early(mem)')
    BY <1>1, <1>5 DEF IInv, Pointers, TypeOK
  <2>2. ASSUME NEW g \in Requests, req'[g].work # None
        PROVE  object'[req'[g].work].draft # None /\ ~(Early(req[g].work)')
    <3>1. req'[g].work \in Requests
      BY <1>2, <2>2 DEF RequestStates
    <3>2. req'[g].work \in {req[g].work, mem}
      BY <1>2, <2>2 DEF Elsewhere
    <3>3. object[req'[g].work].draft # None /\ ~Early(req'[g].work)
      BY <3>2, <2>2 DEF IInv, Pointers
    <3> QED
      BY <3>1, <3>3, <1>5 DEF Early
  <2> QED
    BY <2>1, <2>2 DEF Pointers, Early
<1>9. Pointing'
  BY <1>2 DEF IInv, Pointing, PointingAs, Elsewhere
<1>11. Room'
  <2> SUFFICES ASSUME NEW g \in Requests, req'[g].kind = "new", req'[g].pc \in {"resolve", "startNew"}
               PROVE  active' < Convs
    BY DEF Room
  <2>1. g # h /\ req'[g] = req[g]
    BY <1>2 DEF Elsewhere
  <2>2. active < Convs /\ g \in Turns /\ InProgress(g)
    BY <2>1 DEF IInv, Room, Pointing, PointingAs, InProgress
  <2>3. h \notin Turns
    BY <2>1, <2>2 DEF IInv, Mutex
  <2> QED
    BY <2>2, <2>3
<1>10. ASSUME ~overlap' PROVE Serial'
  <2>1. /\ Serial /\ RowsAtHome' /\ MemHeld' /\ RowsHeld' /\ OneCall'
        /\ InProgress(h)' => Stage(h)'
    BY <1>10 DEF IInv
  <2>2. Alone'
    BY <2>1, <1>4 DEF Serial, Alone
  <2>3. \A g \in Requests : InProgress(g)' => Stage(g)'
    BY <2>1, <1>4 DEF Serial, Alone
  <2> QED
    BY <2>1, <2>2, <2>3 DEF Serial
<1> QED
  BY <1>6, <1>7, <1>8, <1>9, <1>10, <1>11 DEF IInv

\* The rows keep what they promise if only conversations and statuses of
\* requests and objects move.
LEMMA KeptRows ==
  ASSUME TypeOK, Serial, rows' = rows,
         \A x \in Requests : req'[x].conv = req[x].conv,
         \A d \in Drafts : outstanding'[d] \in {outstanding[d], 0}
  PROVE  RowsAtHome' /\ RowsHeld' /\ OneCall'
<1>1. RowsAtHome'
  BY DEF Serial, RowsAtHome, Home, TypeOK, Rows, Drafts
<1>2. RowsHeld'
  BY DEF Serial, RowsHeld, Live, TypeOK
<1>3. OneCall'
  BY DEF Serial, OneCall, TypeOK
<1> QED
  BY <1>1, <1>2, <1>3

\* A request goes on to a step that needs nothing but its conversation.
LEMMA QuietStep ==
  ASSUME IInv, NEW h \in Requests, InProgress(h),
         NEW r \in RequestStates, Becomes(h, r), TypeOK',
         r.conv = req[h].conv, r.work \in {req[h].work, mem, None}, PointingAs(h, r),
         \/ r.pc \in {"reply", "done"}
         \/ /\ r.pc \in {"settle", "verify", "persist", "complete"}
            /\ req[h].pc \in {"act", "check", "call", "settle", "verify", "persist", "complete"}
            /\ r.kind = req[h].kind,
         mem' \in {mem, None},
         \A x \in Requests : object'[x].draft = object[x].draft,
         \A d \in Drafts : outstanding'[d] \in {outstanding[d], 0},
         ~overlap /\ Serial => MemHeld',
         rows' = rows, active' = active, overlap' = overlap,
         lock' = lock \/ (lock = h /\ r.pc = "done")
  PROVE  IInv'
<1>1. TypeOK /\ req[h] \in RequestStates
  BY RequestsAreTyped DEF IInv
<1>2. req' \in [Requests -> RequestStates] /\ req'[h] = r /\ Elsewhere(h)
  BY <1>1, BecomesEffect
<1>3. \A x \in Requests : req'[x].conv = req[x].conv
  BY <1>2 DEF Elsewhere
<1>4. ASSUME ~overlap, Serial, InProgress(h)' PROVE Stage(h)'
  <2>1. Stage(h)
    BY <1>4 DEF Serial
  <2>2. InConversation(h)'
    BY <1>2, <1>3, <1>4, <2>1 DEF Stage, InConversation, InProgress
  <2>4. r.pc \notin {"hydrate", "act", "lease", "check", "call", "resolve"}
    OBVIOUS
  <2>5. Recalled(h)' /\ Acting(h)' /\ Sending(h)' /\ Leased(h)' /\ Drafting(h)'
    BY <1>2, <2>4 DEF Recalled, Acting, Sending, Leased, Drafting
  <2>3. Working(h)'
    <3>1. CASE mem' = None
      BY <3>1 DEF Working
    <3>2. CASE mem' # None
      <4>1. mem' = mem /\ mem \in Requests /\ object[mem].draft \in Requests
        BY <1>1, <3>2 DEF IInv, Pointers, TypeOK, Works, Drafts
      <4> QED
        BY <4>1, <1>2, <1>3, <2>1, <1>4 DEF Stage, Working, Home, InProgress
    <3> QED
      BY <3>1, <3>2
  <2> QED
    BY <2>2, <2>3, <2>5 DEF Stage
<1>6. r.pc \notin {"idle", "resolve", "recall", "hydrate", "act", "startNew"}
  OBVIOUS
<1>7. ~overlap /\ Serial => RowsAtHome' /\ RowsHeld' /\ OneCall'
  BY <1>1, <1>3, KeptRows
<1> QED
  BY <1>1, <1>4, <1>6, <1>7, InnerStep DEF TypeOK, Drafts

LEMMA WorkingState ==
  ASSUME NEW q \in RequestStates, NEW p \in Steps, NEW w \in Requests \cup {None}, NEW n \in 0..2
  PROVE  [q EXCEPT !.pc = p, !.work = w, !.left = n] \in RequestStates
BY DEF RequestStates

LEMMA SameSession ==
  ASSUME Serial, UNCHANGED <<object, mem, outstanding>>
  PROVE  /\ MemHeld'
         /\ \A x \in Requests : object'[x].draft = object[x].draft
         /\ \A d \in Drafts : outstanding'[d] \in {outstanding[d], 0}
BY DEF Serial, MemHeld

LEMMA ThrownStep ==
  ASSUME TypeOK, NEW h \in Requests
  PROVE  /\ Thrown(h) \in RequestStates
         /\ Thrown(h).pc = "reply" /\ Thrown(h).answer = "error"
         /\ Thrown(h).kind = req[h].kind /\ Thrown(h).conv = req[h].conv
         /\ Thrown(h).work = req[h].work
BY RequestsAreTyped, ZenonT(60) DEF Thrown, RequestStates, Steps, Answers

LEMMA ReadFailsStep ==
  ASSUME IInv, NEW h \in Requests, ReadFails(h)
  PROVE  IInv'
<1>1. TypeOK /\ req[h] \in RequestStates /\ PointingAs(h, req[h])
  BY RequestsAreTyped DEF IInv, Pointing
<1>2. Becomes(h, Thrown(h)) /\ InProgress(h)
  BY DEF ReadFails, InProgress
<1>3. req' \in [Requests -> RequestStates]
  BY <1>1, <1>2, ThrownStep, BecomesEffect
<1>4. TypeOK'
  BY <1>1, <1>3, BoundsAssumption DEF ReadFails, TypeOK, session, store, history
<1>5. PointingAs(h, Thrown(h))
  BY <1>1, ThrownStep DEF PointingAs, ReadFails
<1> QED
  BY <1>1, <1>2, <1>4, <1>5, ThrownStep, SameSession, QuietStep DEF ReadFails, session, store, history

LEMMA RefuseStep ==
  ASSUME IInv, NEW h \in Requests, RefuseInInbox(h)
  PROVE  IInv'
<1>1. TypeOK /\ req[h] \in RequestStates /\ PointingAs(h, req[h])
  BY RequestsAreTyped DEF IInv, Pointing
<1>2. Becomes(h, Thrown(h)) /\ InProgress(h)
  BY DEF RefuseInInbox, Acts, InProgress
<1>3. req' \in [Requests -> RequestStates]
  BY <1>1, <1>2, ThrownStep, BecomesEffect
<1>4. TypeOK'
  BY <1>1, <1>3 DEF RefuseInInbox, TypeOK, session, store, history, faults
<1>5. PointingAs(h, Thrown(h))
  BY <1>1, ThrownStep DEF PointingAs, RefuseInInbox, Acts
<1> QED
  BY <1>1, <1>2, <1>4, <1>5, ThrownStep, SameSession, QuietStep DEF RefuseInInbox, session, store, history

LEMMA StartVerifyStep ==
  ASSUME IInv, NEW h \in Requests, StartVerify(h)
  PROVE  IInv'
<1>1. TypeOK /\ req[h] \in RequestStates /\ PointingAs(h, req[h])
  BY RequestsAreTyped DEF IInv, Pointing
<1>2. /\ req[h].pc = "act" /\ InProgress(h)
      /\ req[h].kind # "draft" /\ mem # None /\ mem \in Requests
  BY <1>1 DEF StartVerify, Acts, InProgress, DraftIs, TypeOK, PointingAs
<1>3. PICK r : r = [req[h] EXCEPT !.pc = "verify", !.work = mem, !.left = 1] /\ Becomes(h, r)
  BY DEF StartVerify
<1>9. "verify" \in Steps /\ 1 \in 0..2 /\ mem \in Requests \cup {None}
  BY <1>2 DEF Steps
<1>4. r \in RequestStates
  BY <1>1, <1>3, <1>9, WorkingState, Zenon
<1>8. /\ r.pc = "verify" /\ r.work = mem
      /\ r.kind = req[h].kind /\ r.conv = req[h].conv /\ r.answer = req[h].answer
  BY <1>1, <1>3 DEF RequestStates
<1>5. req' \in [Requests -> RequestStates]
  BY <1>1, <1>3, <1>4, BecomesEffect
<1>6. TypeOK'
  BY <1>1, <1>5 DEF StartVerify, TypeOK, session, store, history, faults
<1>7. PointingAs(h, r)
  BY <1>1, <1>2, <1>8 DEF PointingAs
<1> QED
  BY <1>2, <1>3, <1>4, <1>6, <1>7, <1>8, SameSession, QuietStep DEF StartVerify, session, store, history

\* What every step of a request in progress starts from.
LEMMA Premises ==
  ASSUME IInv, NEW h \in Requests
  PROVE  TypeOK /\ req[h] \in RequestStates /\ PointingAs(h, req[h]) /\ req[h].work \in Requests \cup {None}
BY RequestsAreTyped DEF IInv, Pointing, RequestStates

LEMMA GoesState ==
  ASSUME TypeOK, NEW h \in Requests, NEW n \in 0..2, NEW a \in Answers
  PROVE  /\ Goes(h, n, a) \in RequestStates
         /\ Goes(h, n, a).pc = "persist" /\ Goes(h, n, a).answer = a
         /\ Goes(h, n, a).work = mem
         /\ Goes(h, n, a).kind = req[h].kind /\ Goes(h, n, a).conv = req[h].conv
<1>1. req[h] \in RequestStates /\ mem \in Requests \cup {None} /\ "persist" \in Steps
  BY RequestsAreTyped DEF TypeOK, Steps
<1> QED
  BY <1>1, ZenonT(60) DEF Goes, RequestStates, Answers

LEMMA LeaveStep ==
  ASSUME IInv, NEW h \in Requests, LeaveEmail(h)
  PROVE  IInv'
<1>1. TypeOK /\ PointingAs(h, req[h])
  BY Premises
<1>2. req[h].pc = "act" /\ InProgress(h)
  BY DEF LeaveEmail, Acts, InProgress
<1>3. PICK n \in 0..2 : Becomes(h, Goes(h, n, "none"))
  BY DEF LeaveEmail
<1>4. /\ Goes(h, n, "none") \in RequestStates
      /\ Goes(h, n, "none").pc = "persist" /\ Goes(h, n, "none").answer = "none"
      /\ Goes(h, n, "none").work = mem
      /\ Goes(h, n, "none").kind = req[h].kind /\ Goes(h, n, "none").conv = req[h].conv
  BY <1>1, GoesState DEF Answers
<1>5. req' \in [Requests -> RequestStates]
  BY <1>1, <1>3, <1>4, BecomesEffect
<1>6. TypeOK'
  BY <1>1, <1>5 DEF LeaveEmail, TypeOK, session, store, history, faults
<1>7. PointingAs(h, Goes(h, n, "none"))
  BY <1>1, <1>2, <1>4 DEF PointingAs
<1> QED
  BY <1>2, <1>3, <1>4, <1>6, <1>7, SameSession, QuietStep DEF LeaveEmail, session, store, history

LEMMA EscapeStep ==
  ASSUME IInv, NEW h \in Requests, EscapeEmail(h)
  PROVE  IInv'
<1>1. TypeOK /\ PointingAs(h, req[h])
  BY Premises
<1>2. req[h].pc = "act" /\ InProgress(h)
  BY DEF EscapeEmail, Acts, InProgress
<1>3. PICK r : r = [Goes(h, 1, "none") EXCEPT !.work = None] /\ Becomes(h, r)
  BY DEF EscapeEmail
<1>4. /\ r \in RequestStates
      /\ r.pc = "persist" /\ r.answer = "none" /\ r.work = None
      /\ r.kind = req[h].kind /\ r.conv = req[h].conv
  <2>1. /\ Goes(h, 1, "none") \in RequestStates
        /\ Goes(h, 1, "none").pc = "persist" /\ Goes(h, 1, "none").answer = "none"
        /\ Goes(h, 1, "none").kind = req[h].kind /\ Goes(h, 1, "none").conv = req[h].conv
    BY <1>1, GoesState DEF Answers
  <2> QED
    BY <2>1, <1>3 DEF RequestStates
<1>5. req' \in [Requests -> RequestStates]
  BY <1>1, <1>3, <1>4, BecomesEffect
<1>6. TypeOK'
  BY <1>1, <1>5 DEF EscapeEmail, TypeOK, store, history, faults
<1>7. PointingAs(h, r)
  BY <1>1, <1>2, <1>4 DEF PointingAs
<1>8. MemHeld'
  BY DEF MemHeld, EscapeEmail
<1> QED
  BY <1>2, <1>3, <1>4, <1>6, <1>7, <1>8, QuietStep DEF EscapeEmail, store, history

LEMMA CancelStep ==
  ASSUME IInv, NEW h \in Requests, CancelEmail(h)
  PROVE  IInv'
<1>1. TypeOK /\ PointingAs(h, req[h])
  BY Premises
<1>2. req[h].pc = "act" /\ InProgress(h) /\ mem \in Requests
  BY <1>1 DEF CancelEmail, Acts, InProgress, DraftIs, TypeOK
<1>3. PICK n \in 0..2 : Becomes(h, Goes(h, n, "cancelled"))
  BY DEF CancelEmail, Completions
<1>4. /\ Goes(h, n, "cancelled") \in RequestStates
      /\ Goes(h, n, "cancelled").pc = "persist"
      /\ Goes(h, n, "cancelled").work = mem
      /\ Goes(h, n, "cancelled").kind = req[h].kind /\ Goes(h, n, "cancelled").conv = req[h].conv
  BY <1>1, GoesState DEF Answers
<1>5. req' \in [Requests -> RequestStates]
  BY <1>1, <1>3, <1>4, BecomesEffect
<1>6. /\ object' \in [Requests -> Works]
      /\ \A x \in Requests : object'[x].draft = object[x].draft
  BY <1>1, <1>2, MarkedEffect DEF CancelEmail, Statuses
<1>7. TypeOK'
  BY <1>1, <1>5, <1>6 DEF CancelEmail, TypeOK, store, history, faults
<1>8. PointingAs(h, Goes(h, n, "cancelled"))
  BY <1>1, <1>2, <1>4, BoundsAssumption DEF PointingAs, Requests
<1>9. MemHeld'
  BY DEF MemHeld, CancelEmail
<1> QED
  BY <1>2, <1>3, <1>4, <1>6, <1>7, <1>8, <1>9, QuietStep DEF CancelEmail, store, history

LEMMA EditStep ==
  ASSUME IInv, NEW h \in Requests, EditEmail(h)
  PROVE  IInv'
<1>1. TypeOK /\ PointingAs(h, req[h])
  BY Premises
<1>2. req[h].pc = "act" /\ InProgress(h) /\ mem \in Requests
  BY <1>1 DEF EditEmail, Acts, InProgress, DraftIs, TypeOK
<1>3. PICK n \in 0..2 : Becomes(h, Goes(h, n, "none"))
  BY DEF EditEmail, Completions
<1>4. /\ Goes(h, n, "none") \in RequestStates
      /\ Goes(h, n, "none").pc = "persist" /\ Goes(h, n, "none").answer = "none"
      /\ Goes(h, n, "none").work = mem
      /\ Goes(h, n, "none").kind = req[h].kind /\ Goes(h, n, "none").conv = req[h].conv
  BY <1>1, GoesState DEF Answers
<1>5. req' \in [Requests -> RequestStates]
  BY <1>1, <1>3, <1>4, BecomesEffect
<1>6. /\ object' \in [Requests -> Works]
      /\ \A x \in Requests : object'[x].draft = object[x].draft
  BY <1>1, <1>2, MarkedEffect DEF EditEmail, Statuses
<1>7. TypeOK'
  BY <1>1, <1>5, <1>6 DEF EditEmail, TypeOK, store, history, faults
<1>8. PointingAs(h, Goes(h, n, "none"))
  BY <1>1, <1>2, <1>4 DEF PointingAs
<1>9. Serial => MemHeld'
  BY <1>2, <1>6 DEF Serial, MemHeld, EditEmail, DraftIs, Held, history
<1> QED
  BY <1>2, <1>3, <1>4, <1>6, <1>7, <1>8, <1>9, QuietStep DEF EditEmail, store, history

LEMMA OpenStep ==
  ASSUME NEW q \in RequestStates, NEW p \in Steps, NEW a \in Answers,
         NEW o \in {"none", "sent", "accepted", "error"}
  PROVE  /\ [q EXCEPT !.pc = p, !.answer = a] \in RequestStates
         /\ [q EXCEPT !.pc = p, !.outcome = o, !.answer = a] \in RequestStates
BY DEF RequestStates

LEMMA NextStep ==
  ASSUME NEW q \in RequestStates, NEW p \in Steps
  PROVE  [q EXCEPT !.pc = p] \in RequestStates
BY DEF RequestStates

\* A working request has its object.
LEMMA WorkingOn ==
  ASSUME IInv, NEW h \in Requests, req[h].pc \in {"lease", "check", "call", "settle", "verify"}
  PROVE  /\ req[h].work \in Requests /\ req[h].work # None /\ InProgress(h)
         /\ req[h].kind # "draft" /\ Draft(h) \in Drafts /\ Draft(h) # None
         /\ req[h].conv \in 1..Convs
<1>1. TypeOK /\ req[h] \in RequestStates /\ PointingAs(h, req[h])
  BY Premises
<1>2. req[h].work \in Requests /\ req[h].work # None /\ InProgress(h) /\ req[h].kind # "draft"
  BY <1>1 DEF PointingAs, RequestStates, InProgress
<1>3. Draft(h) \in Drafts /\ Draft(h) # None
  BY <1>1, <1>2 DEF IInv, Pointers, TypeOK, Works, Draft
<1>4. req[h].conv \in 0..Convs /\ req[h].conv # 0
  BY <1>1 DEF RequestStates, PointingAs
<1> QED
  BY <1>2, <1>3, <1>4, BoundsAssumption

LEMMA NotVerifiedStep ==
  ASSUME IInv, NEW h \in Requests, NotVerified(h)
  PROVE  IInv'
<1>1. TypeOK /\ req[h] \in RequestStates /\ PointingAs(h, req[h])
  BY Premises
<1>2. req[h].pc = "verify" /\ InProgress(h) /\ req[h].kind # "draft" /\ req[h].work # None
  BY WorkingOn DEF NotVerified
<1>3. PICK r : r = [req[h] EXCEPT !.pc = "persist", !.answer = "accepted"] /\ Becomes(h, r)
  BY DEF NotVerified
<1>4. /\ r.pc = "persist" /\ r.answer = "accepted" /\ r.work = req[h].work
      /\ r.kind = req[h].kind /\ r.conv = req[h].conv
  BY <1>1, <1>3 DEF RequestStates
<1>5. r \in RequestStates
  <2>1. "persist" \in Steps /\ "accepted" \in Answers
    BY DEF Steps, Answers
  <2> QED
    BY <1>1, <1>3, <2>1, OpenStep, Zenon
<1>6. req' \in [Requests -> RequestStates]
  BY <1>1, <1>3, <1>5, BecomesEffect
<1>7. TypeOK'
  BY <1>1, <1>6 DEF NotVerified, TypeOK, session, store, history, faults
<1>8. PointingAs(h, r)
  BY <1>1, <1>2, <1>4 DEF PointingAs
<1> QED
  BY <1>2, <1>3, <1>4, <1>5, <1>7, <1>8, SameSession, QuietStep DEF NotVerified, session, store, history

LEMMA VerifiedStep ==
  ASSUME IInv, NEW h \in Requests, Verified(h)
  PROVE  IInv'
<1>1. TypeOK /\ req[h] \in RequestStates /\ PointingAs(h, req[h])
  BY Premises
<1>2. req[h].pc = "verify" /\ InProgress(h) /\ req[h].kind # "draft" /\ req[h].work \in Requests
  BY WorkingOn DEF Verified
<1>3. PICK r : r = [req[h] EXCEPT !.pc = "persist", !.answer = "sent"] /\ Becomes(h, r)
  BY DEF Verified
<1>4. /\ r.pc = "persist" /\ r.answer = "sent" /\ r.work = req[h].work
      /\ r.kind = req[h].kind /\ r.conv = req[h].conv
  BY <1>1, <1>3 DEF RequestStates
<1>5. r \in RequestStates
  <2>1. "persist" \in Steps /\ "sent" \in Answers
    BY DEF Steps, Answers
  <2> QED
    BY <1>1, <1>3, <2>1, OpenStep, Zenon
<1>6. req' \in [Requests -> RequestStates]
  BY <1>1, <1>3, <1>5, BecomesEffect
<1>7. /\ object' \in [Requests -> Works]
      /\ \A x \in Requests : object'[x].draft = object[x].draft
  BY <1>1, <1>2, MarkedEffect DEF Verified, Statuses
<1>8. TypeOK'
  BY <1>1, <1>6, <1>7 DEF Verified, TypeOK, store, history, faults
<1>9. PointingAs(h, r)
  BY <1>1, <1>2, <1>4 DEF PointingAs
<1>10. MemHeld'
  BY DEF MemHeld, Verified
<1> QED
  BY <1>2, <1>3, <1>4, <1>5, <1>7, <1>8, <1>9, <1>10, QuietStep DEF Verified, store, history

LEMMA SettleSentStep ==
  ASSUME IInv, NEW h \in Requests, SettleSent(h)
  PROVE  IInv'
<1>1. TypeOK /\ req[h] \in RequestStates /\ PointingAs(h, req[h])
  BY Premises
<1>2. req[h].pc = "settle" /\ InProgress(h) /\ req[h].kind # "draft" /\ req[h].work \in Requests
  BY WorkingOn DEF SettleSent
<1>3. PICK r : r = [req[h] EXCEPT !.pc = "persist", !.outcome = "none", !.answer = "sent"] /\ Becomes(h, r)
  BY DEF SettleSent
<1>4. /\ r.pc = "persist" /\ r.answer = "sent" /\ r.work = req[h].work
      /\ r.kind = req[h].kind /\ r.conv = req[h].conv
  BY <1>1, <1>3 DEF RequestStates
<1>5. r \in RequestStates
  <2>1. "persist" \in Steps /\ "sent" \in Answers
    BY DEF Steps, Answers
  <2> QED
    BY <1>1, <1>3, <2>1, OpenStep, Zenon
<1>6. req' \in [Requests -> RequestStates]
  BY <1>1, <1>3, <1>5, BecomesEffect
<1>7. /\ object' \in [Requests -> Works]
      /\ \A x \in Requests : object'[x].draft = object[x].draft
  BY <1>1, <1>2, MarkedEffect DEF SettleSent, Statuses
<1>8. TypeOK'
  BY <1>1, <1>6, <1>7 DEF SettleSent, TypeOK, store, history, faults
<1>9. PointingAs(h, r)
  BY <1>1, <1>2, <1>4 DEF PointingAs
<1>10. MemHeld'
  BY DEF MemHeld, SettleSent
<1> QED
  BY <1>2, <1>3, <1>4, <1>5, <1>7, <1>8, <1>9, <1>10, QuietStep DEF SettleSent, store, history

LEMMA SettleAcceptedStep ==
  ASSUME IInv, NEW h \in Requests, SettleAccepted(h)
  PROVE  IInv'
<1>1. TypeOK /\ req[h] \in RequestStates /\ PointingAs(h, req[h])
  BY Premises
<1>2. req[h].pc = "settle" /\ InProgress(h) /\ req[h].kind # "draft" /\ req[h].work \in Requests
  BY WorkingOn DEF SettleAccepted
<1>3. PICK r : r = [req[h] EXCEPT !.pc = "persist", !.outcome = "none", !.answer = "accepted"] /\ Becomes(h, r)
  BY DEF SettleAccepted
<1>4. /\ r.pc = "persist" /\ r.answer = "accepted" /\ r.work = req[h].work
      /\ r.kind = req[h].kind /\ r.conv = req[h].conv
  BY <1>1, <1>3 DEF RequestStates
<1>5. r \in RequestStates
  <2>1. "persist" \in Steps /\ "accepted" \in Answers
    BY DEF Steps, Answers
  <2> QED
    BY <1>1, <1>3, <2>1, OpenStep, Zenon
<1>6. req' \in [Requests -> RequestStates]
  BY <1>1, <1>3, <1>5, BecomesEffect
<1>7. /\ object' \in [Requests -> Works]
      /\ object'[req[h].work].status = "accepted_unverified" /\ ObjectElsewhere(req[h].work)
      /\ \A x \in Requests : object'[x].draft = object[x].draft
  BY <1>1, <1>2, MarkedEffect DEF SettleAccepted, Statuses
<1>8. TypeOK'
  BY <1>1, <1>6, <1>7 DEF SettleAccepted, TypeOK, store, history, faults
<1>9. PointingAs(h, r)
  BY <1>1, <1>2, <1>4 DEF PointingAs
<1>10. Serial => MemHeld'
  BY <1>1, <1>2, <1>7 DEF Serial, MemHeld, SettleAccepted, ObjectElsewhere, Held, history, TypeOK
<1> QED
  BY <1>2, <1>3, <1>4, <1>5, <1>7, <1>8, <1>9, <1>10, QuietStep DEF SettleAccepted, store, history

LEMMA SettleFailedStep ==
  ASSUME IInv, NEW h \in Requests, SettleFailed(h)
  PROVE  IInv'
<1>1. TypeOK /\ req[h] \in RequestStates /\ PointingAs(h, req[h])
  BY Premises
<1>2. /\ req[h].pc = "settle" /\ InProgress(h) /\ req[h].kind # "draft" /\ req[h].work \in Requests
      /\ Draft(h) \in Drafts
  BY WorkingOn DEF SettleFailed
<1>3. PICK r : r = [req[h] EXCEPT !.pc = "persist", !.outcome = "none", !.answer = "failed"] /\ Becomes(h, r)
  BY DEF SettleFailed
<1>4. /\ r.pc = "persist" /\ r.answer = "failed" /\ r.work = req[h].work
      /\ r.kind = req[h].kind /\ r.conv = req[h].conv
  BY <1>1, <1>3 DEF RequestStates
<1>5. r \in RequestStates
  <2>1. "persist" \in Steps /\ "failed" \in Answers
    BY DEF Steps, Answers
  <2> QED
    BY <1>1, <1>3, <2>1, OpenStep, Zenon
<1>6. req' \in [Requests -> RequestStates]
  BY <1>1, <1>3, <1>5, BecomesEffect
<1>7. /\ object' \in [Requests -> Works]
      /\ ObjectElsewhere(req[h].work)
      /\ \A x \in Requests : object'[x].draft = object[x].draft
  BY <1>1, <1>2, MarkedEffect DEF SettleFailed, Statuses
<1>11. /\ outstanding' \in [Drafts -> Nat]
       /\ outstanding'[Draft(h)] = 0
       /\ \A d \in Drafts : outstanding'[d] \in {outstanding[d], 0}
  BY <1>1, <1>2 DEF SettleFailed, TypeOK
<1>8. TypeOK'
  BY <1>1, <1>6, <1>7, <1>11 DEF SettleFailed, TypeOK, store, faults
<1>9. PointingAs(h, r)
  BY <1>1, <1>2, <1>4 DEF PointingAs
<1>10. Serial => MemHeld'
  <2>1. mem' = mem /\ mem \in Requests \cup {None}
    BY <1>1 DEF SettleFailed, TypeOK
  <2>2. CASE mem = req[h].work
    BY <2>1, <2>2, <1>7, <1>11, <1>2 DEF MemHeld, Draft
  <2>3. ASSUME mem # req[h].work, mem # None, Serial
        PROVE  MemHeld'
    <3>1. mem \in Requests /\ object'[mem] = object[mem] /\ object[mem].draft \in Drafts \cup {None}
      BY <2>1, <2>3, <1>1, <1>7 DEF ObjectElsewhere, TypeOK, Works
    <3>2. object[mem].draft # None
      BY <1>1, <2>3 DEF IInv, Pointers
    <3>3. outstanding'[object[mem].draft] > 0 => outstanding[object[mem].draft] > 0
      BY <3>1, <3>2, <1>11
    <3> QED
      BY <2>1, <2>3, <3>1, <3>3 DEF Serial, MemHeld
  <2> QED
    BY <2>1, <2>2, <2>3 DEF MemHeld
<1> QED
  BY <1>2, <1>3, <1>4, <1>5, <1>7, <1>8, <1>9, <1>10, <1>11, QuietStep DEF SettleFailed, store

LEMMA CheckConnectionStep ==
  ASSUME IInv, NEW h \in Requests, CheckConnection(h)
  PROVE  IInv'
<1>1. TypeOK /\ req[h] \in RequestStates /\ PointingAs(h, req[h])
  BY Premises
<1>2. /\ req[h].pc = "check" /\ InProgress(h) /\ req[h].kind # "draft"
      /\ req[h].work \in Requests /\ req[h].work # None
  BY WorkingOn DEF CheckConnection
<1>3. CASE /\ Becomes(h, [req[h] EXCEPT !.pc = "call"])
           /\ UNCHANGED <<object, receipt>>
  <2>1. PICK r : r = [req[h] EXCEPT !.pc = "call"] /\ Becomes(h, r)
    BY <1>3
  <2>2. /\ r.pc = "call" /\ r.answer = req[h].answer /\ r.work = req[h].work
        /\ r.kind = req[h].kind /\ r.conv = req[h].conv /\ r.lease = req[h].lease
    BY <1>1, <2>1 DEF RequestStates
  <2>3. r \in RequestStates
    <3>1. "call" \in Steps
      BY DEF Steps
    <3> QED
      BY <1>1, <2>1, <3>1, NextStep, Zenon
  <2>4. req' \in [Requests -> RequestStates] /\ req'[h] = r /\ Elsewhere(h)
    BY <1>1, <2>1, <2>3, BecomesEffect
  <2>5. TypeOK'
    BY <1>1, <1>3, <2>4 DEF CheckConnection, TypeOK, store, history, faults
  <2>6. PointingAs(h, r)
    BY <1>1, <1>2, <2>2 DEF PointingAs
  <2>7. ASSUME Serial PROVE Stage(h)' /\ RowsAtHome' /\ RowsHeld' /\ OneCall' /\ MemHeld'
    <3>1. \A x \in Requests : req'[x].conv = req[x].conv
      BY <2>2, <2>4 DEF Elsewhere
    <3>2. RowsAtHome' /\ RowsHeld' /\ OneCall'
      BY <1>1, <2>7, <3>1, KeptRows DEF CheckConnection, store, history
    <3>3. MemHeld'
      BY <1>3, <2>7 DEF Serial, MemHeld, CheckConnection, history
    <3>4. Stage(h)
      BY <1>2, <2>7 DEF Serial
    <3>5. InConversation(h)' /\ Recalled(h)' /\ Acting(h)' /\ Drafting(h)'
      BY <3>4, <1>2, <2>2, <2>4 DEF Stage, InConversation, Recalled, Acting, Drafting, CheckConnection, store
    <3>6. Leased(h)' /\ Sending(h)'
      BY <3>4, <1>2, <1>3, <2>2, <2>4 DEF Stage, Leased, Sending, CheckConnection, store, history
    <3>7. mem' = mem /\ (mem # None => mem \in Requests /\ object[mem].draft \in Requests)
      BY <1>1 DEF IInv, Pointers, TypeOK, Works, Drafts, CheckConnection
    <3>8. Working(h)'
      BY <3>4, <3>7, <3>1, <1>2, <1>3, <2>2, <2>4 DEF Stage, Working, Home
    <3> QED
      BY <3>2, <3>3, <3>5, <3>6, <3>8 DEF Stage
  <2> QED
    BY <1>1, <1>2, <1>3, <2>1, <2>2, <2>3, <2>5, <2>6, <2>7, InnerStep DEF CheckConnection, store, history
<1>4. CASE /\ object' = Marked(req[h].work, "awaiting_approval")
           /\ receipt' = "failed"
           /\ Becomes(h, [req[h] EXCEPT !.pc = "persist", !.answer = "failed"])
  <2>1. PICK r : r = [req[h] EXCEPT !.pc = "persist", !.answer = "failed"] /\ Becomes(h, r)
    BY <1>4
  <2>2. /\ r.pc = "persist" /\ r.answer = "failed" /\ r.work = req[h].work
        /\ r.kind = req[h].kind /\ r.conv = req[h].conv
    BY <1>1, <2>1 DEF RequestStates
  <2>3. r \in RequestStates
    <3>1. "persist" \in Steps /\ "failed" \in Answers
      BY DEF Steps, Answers
    <3> QED
      BY <1>1, <2>1, <3>1, OpenStep, Zenon
  <2>4. req' \in [Requests -> RequestStates]
    BY <1>1, <2>1, <2>3, BecomesEffect
  <2>5. /\ object' \in [Requests -> Works]
        /\ \A x \in Requests : object'[x].draft = object[x].draft
    BY <1>1, <1>2, <1>4, MarkedEffect DEF Statuses
  <2>6. TypeOK'
    BY <1>1, <1>4, <2>4, <2>5 DEF CheckConnection, TypeOK, store, history, faults
  <2>7. PointingAs(h, r)
    BY <1>1, <1>2, <2>2 DEF PointingAs
  <2>8. Serial => MemHeld'
    <3>1. ASSUME Serial PROVE mem # None => outstanding[object[mem].draft] = 0
      BY <3>1, <1>2 DEF Serial, Stage, Sending
    <3> QED
      BY <3>1, <2>5, <1>1 DEF MemHeld, CheckConnection, history, TypeOK
  <2> QED
    BY <1>2, <2>1, <2>2, <2>3, <2>5, <2>6, <2>7, <2>8, QuietStep DEF CheckConnection, store, history
<1> QED
  BY <1>3, <1>4 DEF CheckConnection

-----------------------------------------------------------------------------
(* Store calls: what they do to the rows, whether they fail or not.          *)

LEMMA StoreCallEffect ==
  ASSUME TypeOK, NEW h \in Requests, NEW after, NEW state, StoreCall(h, after, state)
  PROVE  /\ rows' \in {rows, after}
         /\ failures' \in 0..MaxFailures
         /\ \/ Becomes(h, state) /\ rows' = after
            \/ Becomes(h, Thrown(h))
<1>1. PICK o \in StoreOutcomes :
        /\ rows' = IF o = "refused" THEN rows ELSE after
        /\ failures' = IF o = "ok" THEN failures ELSE failures + 1
        /\ Becomes(h, IF o = "ok" THEN state ELSE Thrown(h))
  BY DEF StoreCall
<1>2. o # "ok" => failures < MaxFailures
  BY DEF StoreOutcomes
<1> QED
  BY <1>1, <1>2, BoundsAssumption DEF TypeOK

LEMMA UpsertEffect ==
  ASSUME TypeOK, NEW c \in 1..Convs, NEW w \in Works, rows' \in {rows, Upserted(c, w)}
  PROVE  /\ rows' \in [1..Convs -> Rows]
         /\ \A x \in 1..Convs : x # c => rows'[x] = rows[x]
         /\ rows'[c] = rows[c] \/ (rows'[c].draft = w.draft /\ rows'[c].status = w.status)
         /\ rows' = Upserted(c, w) => rows'[c].draft = w.draft /\ rows'[c].status = w.status
<1>1. RowOf(w) \in Rows /\ RowOf(w).draft = w.draft /\ RowOf(w).status = w.status
  BY DEF RowOf, Rows, Works, StatusForEmail
<1> QED
  BY <1>1 DEF TypeOK, Upserted

LEMMA UpsertKeeps ==
  ASSUME TypeOK, Serial, NEW c \in 1..Convs, NEW w \in Works, rows' \in {rows, Upserted(c, w)},
         w.draft # None, Home(w.draft) = c, outstanding[w.draft] > 0 => w.status \in Held,
         \A x \in Requests : req'[x].conv = req[x].conv, outstanding' = outstanding
  PROVE  RowsAtHome' /\ RowsHeld' /\ OneCall'
<1>1. /\ rows' \in [1..Convs -> Rows]
      /\ \A x \in 1..Convs : x # c => rows'[x] = rows[x]
      /\ rows'[c] = rows[c] \/ (rows'[c].draft = w.draft /\ rows'[c].status = w.status)
  BY UpsertEffect
<1>3. w.draft \in Requests
  BY DEF Works, Drafts
<1>4. RowsAtHome'
  <2> SUFFICES ASSUME NEW x \in 1..Convs, rows'[x].draft # None
               PROVE  req'[rows'[x].draft].conv = x
    BY DEF RowsAtHome, Home
  <2>1. CASE rows'[x] = rows[x]
    <3>1. rows[x].draft \in Requests /\ rows[x].draft # None
      BY <2>1 DEF TypeOK, Rows, Drafts
    <3> QED
      BY <2>1, <3>1 DEF Serial, RowsAtHome, Home
  <2>2. CASE x = c /\ rows'[x].draft = w.draft
    BY <2>2, <1>3 DEF Home
  <2> QED
    BY <2>1, <2>2, <1>1
<1>5. RowsHeld'
  <2> SUFFICES ASSUME NEW d \in Drafts, outstanding[d] > 0,
                      NEW x \in 1..Convs, rows'[x].draft = d, Live(rows'[x])
               PROVE  rows'[x].status \in Held
    BY DEF RowsHeld, Live
  <2> QED
    BY <1>1 DEF Serial, RowsHeld
<1> QED
  BY <1>4, <1>5 DEF Serial, OneCall

LEMMA CompletedEffect ==
  ASSUME TypeOK, NEW c \in 1..Convs, NEW v \in {"succeeded", "cancelled"},
         rows' \in {rows, Completed(c, v)}
  PROVE  /\ rows' \in [1..Convs -> Rows]
         /\ \A x \in 1..Convs :
              /\ rows'[x].draft = rows[x].draft /\ rows'[x].status = rows[x].status
              /\ Live(rows'[x]) => Live(rows[x])
<1>1. CASE rows' = rows
  BY <1>1 DEF TypeOK
<1>2. CASE rows' = Completed(c, v)
  <2>1. PICK row : row = IF Live(rows[c]) THEN [rows[c] EXCEPT !.durable = v] ELSE rows[c]
    OBVIOUS
  <2>2. /\ row \in Rows /\ row.draft = rows[c].draft /\ row.status = rows[c].status
        /\ Live(row) => Live(rows[c])
    BY <2>1 DEF TypeOK, Rows, Live
  <2>3. rows' = [rows EXCEPT ![c] = row]
    BY <1>2, <2>1 DEF Completed
  <2> QED
    BY <2>2, <2>3 DEF TypeOK
<1> QED
  BY <1>1, <1>2

LEMMA CompletedKeeps ==
  ASSUME TypeOK, Serial, NEW c \in 1..Convs, NEW v \in {"succeeded", "cancelled"},
         rows' \in {rows, Completed(c, v)},
         \A x \in Requests : req'[x].conv = req[x].conv, outstanding' = outstanding
  PROVE  RowsAtHome' /\ RowsHeld' /\ OneCall'
<1>1. \A x \in 1..Convs :
         /\ rows'[x].draft = rows[x].draft /\ rows'[x].status = rows[x].status
         /\ Live(rows'[x]) => Live(rows[x])
  BY CompletedEffect
<1>2. RowsAtHome'
  <2> SUFFICES ASSUME NEW x \in 1..Convs, rows[x].draft # None
               PROVE  req'[rows[x].draft].conv = x
    BY <1>1 DEF RowsAtHome, Home
  <2>1. rows[x].draft \in Requests
    BY DEF TypeOK, Rows, Drafts
  <2> QED
    BY <2>1 DEF Serial, RowsAtHome, Home
<1>3. RowsHeld'
  <2> SUFFICES ASSUME NEW d \in Drafts, outstanding[d] > 0,
                      NEW x \in 1..Convs, rows'[x].draft = d, Live(rows'[x])
               PROVE  rows'[x].status \in Held
    BY DEF RowsHeld, Live
  <2> QED
    BY <1>1 DEF Serial, RowsHeld
<1> QED
  BY <1>2, <1>3 DEF Serial, OneCall

\* A store call leaves the session alone; the request goes on, or replies.
LEMMA WrittenStep ==
  ASSUME IInv, NEW h \in Requests, InProgress(h),
         NEW r \in RequestStates, Becomes(h, r), TypeOK',
         r.conv = req[h].conv, r.work = req[h].work, r.kind = req[h].kind, PointingAs(h, r),
         \/ r.pc = "reply"
         \/ r.pc = "forget" /\ r.kind = "new"
         \/ r.pc \in {"persist", "complete"} /\ req[h].pc \in {"persist", "complete"}
         \/ /\ r.pc = "check" /\ req[h].pc = "lease"
            /\ ~overlap /\ Serial => Sending(h)' /\ Leased(h)',
         UNCHANGED <<object, mem, outstanding, active, overlap, lock>>,
         \A c \in 1..Convs : \/ rows'[c].draft = rows[c].draft
                            \/ \E x \in Requests : rows'[c].draft = object[x].draft,
         ~overlap /\ Serial => RowsAtHome' /\ RowsHeld' /\ OneCall'
  PROVE  IInv'
<1>1. TypeOK /\ req[h] \in RequestStates
  BY RequestsAreTyped DEF IInv
<1>2. req' \in [Requests -> RequestStates] /\ req'[h] = r /\ Elsewhere(h)
  BY <1>1, BecomesEffect
<1>3. \A x \in Requests : req'[x].conv = req[x].conv
  BY <1>2 DEF Elsewhere
<1>4. ASSUME ~overlap, Serial PROVE MemHeld' /\ Stage(h)'
  <2>1. Stage(h) /\ MemHeld
    BY <1>4 DEF Serial
  <2>2. MemHeld'
    BY <2>1 DEF MemHeld
  <2>3. InConversation(h)'
    BY <1>2, <1>3, <2>1 DEF Stage, InConversation, InProgress
  <2>4. r.pc \in {"reply", "forget", "persist", "complete", "check"}
    OBVIOUS
  <2>5. Recalled(h)' /\ Acting(h)' /\ Drafting(h)'
    BY <1>2, <2>4 DEF Recalled, Acting, Drafting
  <2>6. Sending(h)' /\ Leased(h)'
    BY <1>2, <1>4, <2>4 DEF Sending, Leased
  <2>7. mem # None => mem \in Requests /\ object[mem].draft \in Requests
    BY <1>1 DEF IInv, Pointers, TypeOK, Works, Drafts
  <2>8. Working(h)'
    BY <1>2, <1>3, <2>1, <2>7 DEF Stage, Working, Home
  <2> QED
    BY <2>2, <2>3, <2>5, <2>6, <2>8 DEF Stage
<1>5. r.pc \notin {"idle", "resolve", "recall", "hydrate", "act", "startNew", "done"}
  OBVIOUS
<1>6. \A d \in Drafts : outstanding'[d] \in {outstanding[d], 0}
  OBVIOUS
<1>7. \A x \in Requests : object'[x].draft = object[x].draft
  OBVIOUS
<1> QED
  BY <1>4, <1>5, <1>6, <1>7, InnerStep

LEMMA PersistLeaseStep ==
  ASSUME IInv, NEW h \in Requests, PersistLease(h)
  PROVE  IInv'
<1>1. TypeOK /\ req[h] \in RequestStates /\ PointingAs(h, req[h])
  BY Premises
<1>2. /\ req[h].pc = "lease" /\ InProgress(h) /\ req[h].kind # "draft"
      /\ req[h].work \in Requests /\ req[h].work # None /\ Draft(h) \in Drafts /\ Draft(h) # None
      /\ req[h].conv \in 1..Convs
  BY WorkingOn DEF PersistLease
<1> DEFINE w == object[req[h].work]
<1> DEFINE c == req[h].lease
<1>3. w \in Works /\ c \in 0..Convs /\ Draft(h) = w.draft
  BY <1>1, <1>2 DEF TypeOK, Draft, RequestStates
<1>4. PICK r : r = [req[h] EXCEPT !.pc = "check"] /\ StoreCall(h, Upserted(c, w), r)
  BY DEF PersistLease
<1>5. /\ r.pc = "check" /\ r.answer = req[h].answer /\ r.work = req[h].work
      /\ r.kind = req[h].kind /\ r.conv = req[h].conv /\ r.lease = req[h].lease
  BY <1>1, <1>4 DEF RequestStates
<1>6. r \in RequestStates
  <2>1. "check" \in Steps
    BY DEF Steps
  <2> QED
    BY <1>1, <1>4, <2>1, NextStep, Zenon
<1>7. PointingAs(h, r) /\ PointingAs(h, Thrown(h))
  BY <1>1, <1>2, <1>5, ThrownStep DEF PointingAs
<1>8. /\ rows' \in {rows, Upserted(c, w)} /\ failures' \in 0..MaxFailures
      /\ \/ Becomes(h, r) /\ rows' = Upserted(c, w)
         \/ Becomes(h, Thrown(h))
  BY <1>1, <1>4, StoreCallEffect
<1>9. /\ rows' \in [1..Convs -> Rows]
      /\ \A x \in 1..Convs : rows'[x].draft = rows[x].draft \/ rows'[x].draft = w.draft
  <2>1. ASSUME c \in 1..Convs
        PROVE  /\ rows' \in [1..Convs -> Rows]
               /\ \A x \in 1..Convs : x # c => rows'[x] = rows[x]
               /\ rows'[c] = rows[c] \/ rows'[c].draft = w.draft
    BY <1>1, <1>3, <1>8, <2>1, UpsertEffect
  <2>2. CASE c = 0
    <3>1. c \notin 1..Convs /\ rows \in [1..Convs -> Rows]
      BY <1>1, <2>2 DEF TypeOK
    <3>2. Upserted(c, w) = rows
      BY <3>1, Zenon DEF Upserted
    <3> QED
      BY <1>8, <3>1, <3>2
  <2>3. CASE c \in 1..Convs
    <3>1. \A x \in 1..Convs : x = c \/ rows'[x] = rows[x]
      BY <2>1, <2>3
    <3> QED
      BY <2>1, <2>3, <3>1
  <2>4. c = 0 \/ c \in 1..Convs
    BY <1>3, BoundsAssumption
  <2> QED
    BY <2>2, <2>3, <2>4
<1>10. PICK q \in {r, Thrown(h)} : Becomes(h, q) /\ (q.pc = "check" => rows' = Upserted(c, w))
  BY <1>8, <1>1, ThrownStep
<1>11. q \in RequestStates /\ PointingAs(h, q) /\ q.conv = req[h].conv /\ q.work = req[h].work /\ q.kind = req[h].kind
       /\ q.pc \in {"check", "reply"} /\ (q.pc = "check" => q = r)
  BY <1>1, <1>5, <1>6, <1>7, ThrownStep
<1>12. req' \in [Requests -> RequestStates] /\ req'[h] = q /\ Elsewhere(h)
  BY <1>1, <1>10, <1>11, BecomesEffect
<1>13. TypeOK'
  BY <1>1, <1>8, <1>9, <1>12 DEF PersistLease, TypeOK, session, history
<1>14. ASSUME ~overlap, Serial
       PROVE  RowsAtHome' /\ RowsHeld' /\ OneCall' /\ (q.pc = "check" => Sending(h)' /\ Leased(h)')
  <2>1. Sending(h) /\ Working(h)
    BY <1>2, <1>14 DEF Serial, Stage
  <2>2. /\ req[h].work = mem /\ w.status = "sending" /\ outstanding[w.draft] = 0
        /\ c = req[h].conv /\ Home(w.draft) = c
    BY <1>2, <2>1 DEF Sending, Working
  <2>3. \A x \in Requests : req'[x].conv = req[x].conv
    BY <1>11, <1>12 DEF Elsewhere
  <2>4. RowsAtHome' /\ RowsHeld' /\ OneCall'
    BY <1>1, <1>2, <1>3, <1>8, <1>14, <2>2, <2>3, UpsertKeeps DEF PersistLease, history
  <2>5. q.pc = "check" => rows'[c].status = "sending"
    BY <1>1, <1>2, <1>3, <1>10, <2>2, UpsertEffect
  <2>6. q.pc = "check" => Sending(h)' /\ Leased(h)'
    BY <1>5, <1>11, <1>12, <2>2, <2>5 DEF Sending, Leased, PersistLease, session, history
  <2> QED
    BY <2>4, <2>6
<1>15. \A x \in 1..Convs : \/ rows'[x].draft = rows[x].draft
                          \/ \E y \in Requests : rows'[x].draft = object[y].draft
  BY <1>2, <1>9
<1>16. UNCHANGED <<object, mem, outstanding, active, overlap, lock>>
  BY DEF PersistLease, session, history
<1> QED
  BY <1>2, <1>10, <1>11, <1>13, <1>14, <1>15, <1>16, WrittenStep

LEMMA CallProviderStep ==
  ASSUME IInv, NEW h \in Requests, CallProvider(h)
  PROVE  IInv'
<1>1. TypeOK /\ req[h] \in RequestStates /\ PointingAs(h, req[h])
  BY Premises
<1>2. /\ req[h].pc = "call" /\ InProgress(h) /\ req[h].kind # "draft"
      /\ req[h].work \in Requests /\ req[h].work # None /\ Draft(h) \in Drafts /\ Draft(h) # None
      /\ req[h].conv \in 1..Convs
  BY WorkingOn DEF CallProvider
<1>3. PICK o \in {"sent", "accepted", "error"} : Becomes(h, [req[h] EXCEPT !.pc = "settle", !.outcome = o])
  BY DEF CallProvider
<1>4. PICK r : r = [req[h] EXCEPT !.pc = "settle", !.outcome = o] /\ Becomes(h, r)
  BY <1>3
<1>5. /\ r.pc = "settle" /\ r.answer = req[h].answer /\ r.work = req[h].work
      /\ r.kind = req[h].kind /\ r.conv = req[h].conv
      /\ r \in RequestStates
  BY <1>1, <1>4 DEF RequestStates, Steps
<1>6. req' \in [Requests -> RequestStates] /\ req'[h] = r /\ Elsewhere(h)
  BY <1>1, <1>4, <1>5, BecomesEffect
<1>7. /\ outstanding' \in [Drafts -> Nat]
      /\ outstanding'[Draft(h)] = outstanding[Draft(h)] + 1
      /\ \A d \in Drafts : d # Draft(h) => outstanding'[d] = outstanding[d]
  BY <1>1, <1>2 DEF CallProvider, TypeOK
<1>8. delivered' \subseteq Drafts
  BY <1>1, <1>2 DEF CallProvider, TypeOK
<1>9. TypeOK'
  BY <1>1, <1>6, <1>7, <1>8 DEF CallProvider, TypeOK, session, store, faults
<1>10. PointingAs(h, r)
  BY <1>1, <1>2, <1>5 DEF PointingAs
<1>11. ASSUME ~overlap, Serial
       PROVE  RowsAtHome' /\ MemHeld' /\ RowsHeld' /\ OneCall' /\ Stage(h)'
  <2>1. Stage(h)
    BY <1>2, <1>11 DEF Serial
  <2>2. /\ req[h].work = mem /\ object[mem].status = "sending" /\ outstanding[Draft(h)] = 0
        /\ rows[req[h].conv].status = "sending" /\ Home(Draft(h)) = req[h].conv
    BY <1>2, <2>1 DEF Stage, Sending, Leased, Working, Draft
  <2>3. \A x \in Requests : req'[x].conv = req[x].conv
    BY <1>5, <1>6 DEF Elsewhere
  <2>4. rows' = rows /\ object' = object /\ mem' = mem /\ active' = active
    BY DEF CallProvider, store, session
  <2>5. RowsAtHome'
    BY <1>1, <1>11, <2>3, <2>4 DEF Serial, RowsAtHome, Home, TypeOK, Rows, Drafts
  <2>6. MemHeld'
    BY <2>2, <2>4 DEF MemHeld, Held
  <2>7. OneCall'
    BY <1>7, <1>11, <2>2 DEF Serial, OneCall
  <2>8. RowsHeld'
    <3> SUFFICES ASSUME NEW d \in Drafts, outstanding'[d] > 0,
                        NEW c \in 1..Convs, rows[c].draft = d, Live(rows[c])
                 PROVE  rows[c].status \in Held
      BY <2>4 DEF RowsHeld, Live
    <3>1. CASE d # Draft(h)
      BY <1>7, <1>11, <3>1 DEF Serial, RowsHeld
    <3>2. CASE d = Draft(h)
      BY <1>2, <1>11, <2>2, <3>2 DEF Serial, RowsAtHome, Held
    <3> QED
      BY <3>1, <3>2
  <2>9. InConversation(h)' /\ Recalled(h)' /\ Acting(h)' /\ Drafting(h)' /\ Sending(h)' /\ Leased(h)'
    BY <1>2, <1>5, <1>6, <2>1, <2>4 DEF Stage, InConversation, Recalled, Acting, Drafting, Sending, Leased
  <2>10. Working(h)'
    BY <1>2, <1>5, <1>6, <2>2, <2>3, <2>4 DEF Working, Home, Draft, Drafts
  <2> QED
    BY <2>5, <2>6, <2>7, <2>8, <2>9, <2>10 DEF Stage
<1>12. \A d \in Drafts : \/ outstanding'[d] \in {outstanding[d], 0}
                        \/ \E x \in Requests : d = object[x].draft
  BY <1>2, <1>7 DEF Draft
<1>13. /\ mem' = mem /\ object' = object /\ rows' = rows /\ active' = active /\ overlap' = overlap /\ lock' = lock
  BY DEF CallProvider, store, session
<1>14. r.pc \notin {"idle", "resolve", "recall", "hydrate", "act", "startNew"}
  BY <1>5
<1> QED
  BY <1>2, <1>4, <1>5, <1>9, <1>10, <1>11, <1>12, <1>13, <1>14, InnerStep

LEMMA CompletionState ==
  ASSUME NEW q \in RequestStates, NEW p \in Steps, NEW n \in 0..2
  PROVE  [q EXCEPT !.left = n, !.pc = p, !.verdict = "none"] \in RequestStates
BY DEF RequestStates

\* The states a completion leads to.
LEMMA NextCompletionState ==
  ASSUME NEW q \in RequestStates
  PROVE  /\ NextCompletion(q) \in RequestStates
         /\ NextCompletion(q).pc \in {"persist", "reply"}
         /\ NextCompletion(q).kind = q.kind /\ NextCompletion(q).conv = q.conv
         /\ NextCompletion(q).work = q.work /\ NextCompletion(q).answer = q.answer
<1>1. PICK n \in 0..2, p \in {"persist", "reply"} :
        NextCompletion(q) = [q EXCEPT !.left = n, !.pc = p, !.verdict = "none"]
  <2>1. CASE q.left > 1
    <3>1. q.left - 1 \in 0..2
      BY <2>1 DEF RequestStates
    <3>2. NextCompletion(q) = [q EXCEPT !.left = q.left - 1, !.pc = "persist", !.verdict = "none"]
      BY <2>1 DEF NextCompletion
    <3> QED
      BY <3>1, <3>2
  <2>2. CASE ~(q.left > 1)
    <3>1. NextCompletion(q) = [q EXCEPT !.left = 0, !.pc = "reply", !.verdict = "none"]
      BY <2>2, Zenon DEF NextCompletion
    <3> QED
      BY <3>1
  <2> QED
    BY <2>1, <2>2
<1>2. PICK r : r = [q EXCEPT !.left = n, !.pc = p, !.verdict = "none"]
  OBVIOUS
<1>3. r = NextCompletion(q)
  BY <1>1, <1>2
<1>4. r \in RequestStates
  <2>1. p \in Steps
    BY <1>1 DEF Steps
  <2> QED
    BY <1>1, <1>2, <2>1, CompletionState, Zenon
<1>5. r.pc = p /\ r.kind = q.kind /\ r.conv = q.conv /\ r.work = q.work /\ r.answer = q.answer
  BY <1>2 DEF RequestStates
<1> QED
  BY <1>1, <1>3, <1>4, <1>5

LEMMA VerdictState ==
  ASSUME TypeOK, NEW h \in Requests, Verdict(h) # "none",
         NEW r, r = [req[h] EXCEPT !.pc = "complete", !.verdict = Verdict(h)]
  PROVE  /\ r \in RequestStates /\ r.pc = "complete" /\ r.verdict # "none"
         /\ r.kind = req[h].kind /\ r.conv = req[h].conv
         /\ r.work = req[h].work /\ r.answer = req[h].answer
<1>1. Verdict(h) \in {"none", "succeeded", "cancelled"} /\ req[h] \in RequestStates
  BY RequestsAreTyped DEF Verdict
<1> QED
  BY <1>1 DEF RequestStates, Steps

LEMMA CompleteStep ==
  ASSUME IInv, NEW h \in Requests, CompleteWork(h)
  PROVE  IInv'
<1>1. TypeOK /\ req[h] \in RequestStates /\ PointingAs(h, req[h])
  BY Premises
<1>2. req[h].pc = "complete" /\ InProgress(h)
  BY DEF CompleteWork, InProgress
<1>3. req[h].conv \in 1..Convs /\ req[h].verdict \in {"succeeded", "cancelled"}
  <2>1. req[h].conv \in 0..Convs /\ req[h].conv # 0 /\ req[h].verdict # "none"
    BY <1>1, <1>2 DEF RequestStates, PointingAs
  <2> QED
    BY <2>1, <1>1, BoundsAssumption DEF RequestStates
<1>4. PICK n : n = NextCompletion(req[h])
  OBVIOUS
<1>5. /\ n \in RequestStates /\ n.pc \in {"persist", "reply"}
      /\ n.kind = req[h].kind /\ n.conv = req[h].conv
      /\ n.work = req[h].work /\ n.answer = req[h].answer
  BY <1>1, <1>4, NextCompletionState
<1>6. /\ rows' \in {rows, Completed(req[h].conv, req[h].verdict)} /\ failures' \in 0..MaxFailures
      /\ Becomes(h, n) \/ Becomes(h, Thrown(h))
  <2>1. CASE mem = None
    BY <1>1, <1>4, <2>1, StoreCallEffect DEF CompleteWork
  <2>2. CASE mem # None
    BY <1>1, <1>4, <2>2 DEF CompleteWork, TypeOK
  <2> QED
    BY <2>1, <2>2
<1>7. PICK q \in {n, Thrown(h)} : Becomes(h, q)
  BY <1>6
<1>8. /\ q \in RequestStates /\ q.pc \in {"persist", "reply"}
      /\ q.kind = req[h].kind /\ q.conv = req[h].conv
      /\ q.work = req[h].work /\ PointingAs(h, q)
  BY <1>1, <1>2, <1>5, ThrownStep DEF PointingAs
<1>9. req' \in [Requests -> RequestStates] /\ req'[h] = q /\ Elsewhere(h)
  BY <1>1, <1>7, <1>8, BecomesEffect
<1>10. rows' \in [1..Convs -> Rows] /\ \A x \in 1..Convs : rows'[x].draft = rows[x].draft
  BY <1>1, <1>3, <1>6, CompletedEffect
<1>11. TypeOK'
  BY <1>1, <1>6, <1>9, <1>10 DEF CompleteWork, TypeOK, session, history
<1>12. ASSUME Serial PROVE RowsAtHome' /\ RowsHeld' /\ OneCall'
  <2>1. \A x \in Requests : req'[x].conv = req[x].conv
    BY <1>8, <1>9 DEF Elsewhere
  <2> QED
    BY <1>1, <1>3, <1>6, <1>12, <2>1, CompletedKeeps DEF CompleteWork, history
<1>13. UNCHANGED <<object, mem, outstanding, active, overlap, lock>>
  BY DEF CompleteWork, session, history
<1> QED
  BY <1>2, <1>7, <1>8, <1>10, <1>11, <1>12, <1>13, WrittenStep

LEMMA PersistStep ==
  ASSUME IInv, NEW h \in Requests, Persist(h)
  PROVE  IInv'
<1>1. TypeOK /\ req[h] \in RequestStates /\ PointingAs(h, req[h])
  BY Premises
<1>2. req[h].pc = "persist" /\ InProgress(h)
  BY DEF Persist, InProgress
<1>3. req[h].conv \in 1..Convs
  <2>1. req[h].conv \in 0..Convs /\ req[h].conv # 0
    BY <1>1, <1>2 DEF RequestStates, PointingAs
  <2> QED
    BY <2>1, BoundsAssumption
<1>4. PICK n : n = IF Verdict(h) = "none" THEN NextCompletion(req[h])
                   ELSE [req[h] EXCEPT !.pc = "complete", !.verdict = Verdict(h)]
  OBVIOUS
<1>5. /\ n \in RequestStates /\ n.pc \in {"persist", "complete", "reply"}
      /\ n.kind = req[h].kind /\ n.conv = req[h].conv
      /\ n.work = req[h].work /\ n.answer = req[h].answer
      /\ n.pc = "complete" => n.verdict # "none"
  <2>1. CASE Verdict(h) = "none"
    BY <1>1, <1>4, <2>1, NextCompletionState
  <2>2. CASE Verdict(h) # "none"
    BY <1>1, <1>4, <2>2, VerdictState
  <2> QED
    BY <2>1, <2>2
<1>6. CASE mem = None
  <2>1. Becomes(h, n) /\ UNCHANGED <<rows, failures>>
    BY <1>4, <1>6 DEF Persist
  <2>2. req' \in [Requests -> RequestStates] /\ req'[h] = n /\ Elsewhere(h)
    BY <1>1, <1>5, <2>1, BecomesEffect
  <2>3. TypeOK'
    BY <1>1, <1>3, <2>1, <2>2 DEF Persist, TypeOK, history
  <2>4. PointingAs(h, n)
    BY <1>1, <1>2, <1>5 DEF PointingAs
  <2>5. UNCHANGED <<object, mem, outstanding, active, overlap, lock>>
    BY DEF Persist, history
  <2>6. ASSUME Serial PROVE RowsAtHome' /\ RowsHeld' /\ OneCall'
    <3>1. \A x \in Requests : req'[x].conv = req[x].conv
      BY <1>5, <2>2 DEF Elsewhere
    <3> QED
      BY <1>1, <2>1, <2>5, <2>6, <3>1, KeptRows
  <2> QED
    BY <1>2, <1>5, <2>1, <2>3, <2>4, <2>5, <2>6, WrittenStep
<1>7. CASE mem # None
  <2>1. StoreCall(h, Upserted(req[h].conv, object[mem]), n)
    BY <1>4, <1>7 DEF Persist
  <2>2. mem \in Requests /\ object[mem] \in Works /\ object[mem].draft # None
    BY <1>1, <1>7 DEF IInv, Pointers, TypeOK
  <2>3. /\ rows' \in {rows, Upserted(req[h].conv, object[mem])} /\ failures' \in 0..MaxFailures
        /\ Becomes(h, n) \/ Becomes(h, Thrown(h))
    BY <1>1, <2>1, StoreCallEffect
  <2>4. PICK q \in {n, Thrown(h)} : Becomes(h, q)
    BY <2>3
  <2>5. /\ q \in RequestStates /\ q.pc \in {"persist", "complete", "reply"}
        /\ q.kind = req[h].kind /\ q.conv = req[h].conv
        /\ q.work = req[h].work /\ PointingAs(h, q)
    BY <1>1, <1>2, <1>5, ThrownStep DEF PointingAs
  <2>6. req' \in [Requests -> RequestStates] /\ req'[h] = q /\ Elsewhere(h)
    BY <1>1, <2>4, <2>5, BecomesEffect
  <2>7. /\ rows' \in [1..Convs -> Rows]
        /\ \A x \in 1..Convs : rows'[x].draft = rows[x].draft \/ rows'[x].draft = object[mem].draft
    BY <1>1, <1>3, <2>2, <2>3, UpsertEffect
  <2>8. TypeOK'
    BY <1>1, <1>3, <2>3, <2>6, <2>7 DEF Persist, TypeOK, history
  <2>9. UNCHANGED <<object, mem, outstanding, active, overlap, lock>>
    BY DEF Persist, history
  <2>10. ASSUME ~overlap, Serial PROVE RowsAtHome' /\ RowsHeld' /\ OneCall'
    <3>1. \A x \in Requests : req'[x].conv = req[x].conv
      BY <2>5, <2>6 DEF Elsewhere
    <3>2. Working(h) /\ MemHeld
      BY <1>2, <2>10 DEF Serial, Stage
    <3>3. /\ Home(object[mem].draft) = req[h].conv
          /\ outstanding[object[mem].draft] > 0 => object[mem].status \in Held
      BY <1>2, <1>7, <3>2 DEF Working, MemHeld
    <3> QED
      BY <1>1, <1>3, <2>2, <2>3, <2>9, <2>10, <3>1, <3>3, UpsertKeeps
  <2>11. \A c \in 1..Convs : \/ rows'[c].draft = rows[c].draft
                            \/ \E x \in Requests : rows'[c].draft = object[x].draft
    BY <2>2, <2>7
  <2> QED
    BY <1>2, <2>4, <2>5, <2>8, <2>9, <2>10, <2>11, WrittenStep
<1> QED
  BY <1>6, <1>7

LEMMA EndedState ==
  ASSUME TypeOK, NEW h \in Requests
  PROVE  /\ Ended(h) \in RequestStates /\ Ended(h).pc = "done" /\ Ended(h).conv = req[h].conv
         /\ Ended(h).work = None /\ Ended(h).kind = "none" /\ Ended(h).answer \in {"drafted", "none"}
<1>1. PICK a \in {"drafted", "none"} : a = IF req[h].answer = "drafted" THEN "drafted" ELSE "none"
  OBVIOUS
<1>2. PICK e : e = [NoRequest EXCEPT !.pc = "done", !.conv = req[h].conv, !.answer = a]
  OBVIOUS
<1>3. e = Ended(h)
  BY <1>1, <1>2, Zenon DEF Ended
<1>4. req[h].conv \in 0..Convs /\ 0 \in 0..Convs
  BY RequestsAreTyped, BoundsAssumption DEF RequestStates
<1>5. e = [kind |-> "none", wants |-> None, pc |-> "done", conv |-> req[h].conv, work |-> None,
           lease |-> 0, outcome |-> "none", left |-> 0, verdict |-> "none", answer |-> a]
  BY <1>2 DEF NoRequest
<1>6. e \in RequestStates
  BY <1>4, <1>5 DEF RequestStates, Steps, Answers
<1> QED
  BY <1>3, <1>5, <1>6

LEMMA ReplyStep ==
  ASSUME IInv, NEW h \in Requests, Reply(h)
  PROVE  IInv'
<1>1. TypeOK /\ req[h] \in RequestStates /\ PointingAs(h, req[h])
  BY Premises
<1>2. req[h].pc = "reply" /\ InProgress(h)
  BY DEF Reply, InProgress
<1>3. PICK r : r = Ended(h) /\ Becomes(h, r)
  BY DEF Reply
<1>4. /\ r \in RequestStates /\ r.pc = "done" /\ r.conv = req[h].conv /\ r.work = None
      /\ r.kind = "none" /\ r.answer \in {"drafted", "none"}
  BY <1>1, <1>3, EndedState
<1>5. req' \in [Requests -> RequestStates]
  BY <1>1, <1>3, <1>4, BecomesEffect
<1>7. TypeOK'
  BY <1>1, <1>5 DEF Reply, TypeOK, store, faults
<1>8. PointingAs(h, r)
  BY <1>4 DEF PointingAs
<1>9. Serial => MemHeld' 
  BY DEF Serial, MemHeld, Reply
<1>10. lock' = lock \/ (lock = h /\ r.pc = "done")
  BY <1>4 DEF Reply
<1>11. \A d \in Drafts : outstanding'[d] \in {outstanding[d], 0}
  BY DEF Reply
<1> QED
  BY <1>2, <1>3, <1>4, <1>7, <1>8, <1>9, <1>10, <1>11, QuietStep DEF Reply, store

LEMMA LeaseState ==
  ASSUME NEW q \in RequestStates, NEW p \in Steps, NEW w \in Requests \cup {None},
         NEW c \in 0..Convs, NEW n \in 0..2
  PROVE  [q EXCEPT !.pc = p, !.work = w, !.lease = c, !.left = n] \in RequestStates
BY DEF RequestStates

LEMMA StartSendStep ==
  ASSUME IInv, NEW h \in Requests, req[h].pc = "act", mem # None,
         ~overlap /\ Serial => object[mem].status \notin Held, StartSend(h)
  PROVE  IInv'
<1>1. TypeOK /\ req[h] \in RequestStates /\ PointingAs(h, req[h])
  BY Premises
<1>2. /\ InProgress(h) /\ req[h].kind # "draft" /\ mem \in Requests
      /\ object[mem].draft \in Drafts /\ req[h].conv # 0
  BY <1>1 DEF InProgress, TypeOK, PointingAs, IInv, Pointers, Works
<1>3. PICK n \in 0..2 : Becomes(h, [req[h] EXCEPT !.pc = "lease", !.work = mem, !.lease = current, !.left = n])
  <2>1. (IF h \in Calls THEN 1 ELSE Completions) \in 0..2
    BY DEF Completions
  <2> QED
    BY <2>1, Zenon DEF StartSend
<1>4. PICK r : /\ r = [req[h] EXCEPT !.pc = "lease", !.work = mem, !.lease = current, !.left = n]
               /\ Becomes(h, r)
  BY <1>3
<1>5. /\ r.pc = "lease" /\ r.work = mem /\ r.lease = current
      /\ r.kind = req[h].kind /\ r.conv = req[h].conv /\ r.answer = req[h].answer
  BY <1>1, <1>4 DEF RequestStates
<1>6. r \in RequestStates
  <2>1. "lease" \in Steps /\ mem \in Requests \cup {None} /\ current \in 0..Convs
    BY <1>1 DEF TypeOK, Steps
  <2> QED
    BY <1>1, <1>3, <1>4, <2>1, LeaseState, Zenon
<1>7. req' \in [Requests -> RequestStates] /\ req'[h] = r /\ Elsewhere(h)
  BY <1>1, <1>4, <1>6, BecomesEffect
<1>8. /\ object' \in [Requests -> Works]
      /\ object'[mem].status = "sending" /\ ObjectElsewhere(mem)
      /\ \A x \in Requests : object'[x].draft = object[x].draft
  BY <1>1, <1>2, MarkedEffect DEF StartSend, Statuses
<1>9. TypeOK'
  BY <1>1, <1>7, <1>8 DEF StartSend, TypeOK, store, history, faults
<1>10. PointingAs(h, r)
  BY <1>1, <1>2, <1>5 DEF PointingAs
<1>11. ASSUME ~overlap, Serial
       PROVE  RowsAtHome' /\ MemHeld' /\ RowsHeld' /\ OneCall' /\ Stage(h)'
  <2>1. Stage(h)
    BY <1>2, <1>11 DEF Serial
  <2>2. \A x \in Requests : req'[x].conv = req[x].conv
    BY <1>5, <1>7 DEF Elsewhere
  <2>3. mem' = mem /\ outstanding' = outstanding /\ rows' = rows /\ active' = active /\ current' = current
    BY DEF StartSend, store, history
  <2>4. RowsAtHome' /\ RowsHeld' /\ OneCall'
    BY <1>1, <1>11, <2>2, <2>3, KeptRows
  <2>5. MemHeld'
    BY <1>8, <2>3 DEF MemHeld, Held
  <2>6. outstanding[object[mem].draft] = 0
    BY <1>1, <1>2, <1>11 DEF Serial, MemHeld, TypeOK
  <2>7. Home(object[mem].draft) = req[h].conv /\ current = req[h].conv
    BY <1>2, <2>1 DEF Stage, Working, Acting
  <2>8. InConversation(h)' /\ Recalled(h)' /\ Acting(h)' /\ Drafting(h)' /\ Leased(h)'
    BY <1>2, <1>5, <1>7, <2>1, <2>3 DEF Stage, InConversation, Recalled, Acting, Drafting, Leased
  <2>9. Sending(h)'
    BY <1>2, <1>5, <1>7, <1>8, <2>3, <2>6, <2>7 DEF Sending
  <2>10. Working(h)'
    BY <1>2, <1>5, <1>7, <1>8, <2>2, <2>3, <2>7 DEF Working, Home, Drafts
  <2> QED
    BY <2>4, <2>5, <2>8, <2>9, <2>10 DEF Stage
<1>12. r.pc \notin {"idle", "resolve", "recall", "hydrate", "act", "startNew", "done"}
  BY <1>5
<1>13. /\ \A d \in Drafts : outstanding'[d] \in {outstanding[d], 0}
       /\ mem' = mem /\ rows' = rows /\ active' = active /\ overlap' = overlap /\ lock' = lock
  BY DEF StartSend, store, history
<1> QED
  BY <1>2, <1>4, <1>5, <1>6, <1>8, <1>9, <1>10, <1>11, <1>12, <1>13, InnerStep

LEMMA ApproveStep ==
  ASSUME IInv, NEW h \in Requests, ApproveEmail(h) \/ ApproveInInbox(h)
  PROVE  IInv'
<1>1. req[h].pc = "act" /\ mem # None /\ StartSend(h)
  BY DEF ApproveEmail, ApproveInInbox, Acts, DraftIs, HoldsWanted
<1>2. object[mem].status \notin Held
  BY DEF ApproveEmail, ApproveInInbox, DraftIs, Held
<1> QED
  BY <1>1, <1>2, StartSendStep

LEMMA StartNewStep ==
  ASSUME IInv, NEW h \in Requests, StartNew(h)
  PROVE  IInv'
<1>1. TypeOK /\ req[h] \in RequestStates /\ PointingAs(h, req[h])
  BY Premises
<1>2. req[h].pc = "startNew" /\ InProgress(h) /\ req[h].kind = "new" /\ h \in Turns /\ active < Convs
  BY <1>1 DEF StartNew, InProgress, PointingAs, IInv, Room
<1>3. PICK o \in StoreOutcomes :
        /\ active' = IF o = "refused" THEN active ELSE active + 1
        /\ failures' = IF o = "ok" THEN failures ELSE failures + 1
        /\ Becomes(h, IF o = "ok" THEN [req[h] EXCEPT !.pc = "cancelOld"] ELSE Thrown(h))
  BY DEF StartNew
<1>4. failures' \in 0..MaxFailures /\ active' \in 1..Convs
  <2>1. o # "ok" => failures < MaxFailures
    BY DEF StoreOutcomes
  <2> QED
    BY <1>1, <1>2, <1>3, <2>1, BoundsAssumption DEF TypeOK
<1>5. PICK n : n = [req[h] EXCEPT !.pc = "cancelOld"]
  OBVIOUS
<1>6. /\ n \in RequestStates /\ n.pc = "cancelOld" /\ n.kind = "new" /\ n.conv = req[h].conv
      /\ n.work = req[h].work /\ n.answer = req[h].answer
  BY <1>1, <1>2, <1>5 DEF RequestStates, Steps
<1>7. PICK r \in {n, Thrown(h)} : Becomes(h, r)
  BY <1>3, <1>5
<1>8. /\ r \in RequestStates /\ r.pc \in {"cancelOld", "reply"}
      /\ r.kind = "new" /\ r.conv = req[h].conv
      /\ r.work = req[h].work /\ PointingAs(h, r)
  BY <1>1, <1>2, <1>6, ThrownStep DEF PointingAs
<1>9. req' \in [Requests -> RequestStates] /\ req'[h] = r /\ Elsewhere(h)
  BY <1>1, <1>7, <1>8, BecomesEffect
<1>10. TypeOK'
  <2>1. current' \in 0..Convs
    BY <1>1 DEF StartNew, RequestStates
  <2> QED
    BY <1>1, <1>4, <1>9, <2>1 DEF StartNew, TypeOK, history
<1>11. UNCHANGED <<object, mem, outstanding, overlap, lock, rows>>
  BY DEF StartNew, history
<1>12. ASSUME Serial PROVE RowsAtHome' /\ RowsHeld' /\ OneCall' /\ MemHeld' /\ Stage(h)'
  <2>1. \A x \in Requests : req'[x].conv = req[x].conv
    BY <1>8, <1>9 DEF Elsewhere
  <2>2. RowsAtHome' /\ RowsHeld' /\ OneCall'
    BY <1>1, <1>11, <1>12, <2>1, KeptRows
  <2>3. MemHeld'
    BY <1>11, <1>12 DEF Serial, MemHeld
  <2>4. Stage(h)'
    BY <1>8, <1>9 DEF Stage, InConversation, Recalled, Working, Acting, Sending, Leased, Drafting
  <2> QED
    BY <2>2, <2>3, <2>4
<1>13. \A d \in Drafts : outstanding'[d] \in {outstanding[d], 0}
  BY <1>11
<1>14. \A x \in Requests : object'[x].draft = object[x].draft
  BY <1>11
<1>15. r.pc \notin {"idle", "resolve", "recall", "hydrate", "act", "startNew", "done"}
  BY <1>8
<1> QED
  BY <1>2, <1>7, <1>8, <1>10, <1>11, <1>12, <1>13, <1>14, <1>15, InnerStep

LEMMA CancelOldStep ==
  ASSUME IInv, NEW h \in Requests, CancelOld(h)
  PROVE  IInv'
<1>1. TypeOK /\ req[h] \in RequestStates /\ PointingAs(h, req[h])
  BY Premises
<1>2. req[h].pc = "cancelOld" /\ InProgress(h) /\ req[h].kind = "new"
  BY <1>1 DEF CancelOld, InProgress, PointingAs
<1>3. req[h].conv \in 1..Convs
  <2>1. req[h].conv \in 0..Convs /\ req[h].conv # 0
    BY <1>1, <1>2 DEF RequestStates, PointingAs
  <2> QED
    BY <2>1, BoundsAssumption
<1>4. PICK r : r = [req[h] EXCEPT !.pc = "forget"] /\ Becomes(h, r)
  BY DEF CancelOld
<1>5. /\ r \in RequestStates /\ r.pc = "forget" /\ r.kind = req[h].kind /\ r.conv = req[h].conv
      /\ r.work = req[h].work /\ r.answer = req[h].answer
  BY <1>1, <1>2, <1>4 DEF RequestStates, Steps
<1>6. req' \in [Requests -> RequestStates] /\ req'[h] = r /\ Elsewhere(h)
  BY <1>1, <1>4, <1>5, BecomesEffect
<1>7. rows' \in {rows, Completed(req[h].conv, "cancelled")} /\ failures' \in 0..MaxFailures
  <2>1. PICK o \in StoreOutcomes :
          /\ rows' = IF o = "refused" THEN rows ELSE Completed(req[h].conv, "cancelled")
          /\ failures' = IF o = "ok" THEN failures ELSE failures + 1
    BY DEF CancelOld
  <2>2. o # "ok" => failures < MaxFailures
    BY DEF StoreOutcomes
  <2> QED
    BY <1>1, <2>1, <2>2, BoundsAssumption DEF TypeOK
<1>8. rows' \in [1..Convs -> Rows] /\ \A x \in 1..Convs : rows'[x].draft = rows[x].draft
  BY <1>1, <1>3, <1>7, CompletedEffect
<1>9. TypeOK'
  BY <1>1, <1>6, <1>7, <1>8 DEF CancelOld, TypeOK, history
<1>10. PointingAs(h, r)
  BY <1>1, <1>2, <1>5 DEF PointingAs
<1>11. UNCHANGED <<object, mem, outstanding, active, overlap, lock>>
  BY DEF CancelOld, history
<1>12. ASSUME Serial PROVE RowsAtHome' /\ RowsHeld' /\ OneCall'
  <2>1. \A x \in Requests : req'[x].conv = req[x].conv
    BY <1>5, <1>6 DEF Elsewhere
  <2> QED
    BY <1>1, <1>3, <1>7, <1>11, <1>12, <2>1, CompletedKeeps
<1> QED
  BY <1>2, <1>4, <1>5, <1>8, <1>9, <1>10, <1>11, <1>12, WrittenStep

LEMMA ForgetStep ==
  ASSUME IInv, NEW h \in Requests, Forget(h)
  PROVE  IInv'
<1>1. TypeOK /\ req[h] \in RequestStates /\ PointingAs(h, req[h])
  BY Premises
<1>2. req[h].pc = "forget" /\ InProgress(h) /\ req[h].kind = "new"
  BY <1>1 DEF Forget, InProgress, PointingAs
<1>3. PICK r : r = [req[h] EXCEPT !.pc = "reply"] /\ Becomes(h, r)
  BY DEF Forget
<1>4. /\ r \in RequestStates /\ r.pc = "reply" /\ r.kind = req[h].kind /\ r.conv = req[h].conv
      /\ r.work = req[h].work /\ r.answer = req[h].answer
  BY <1>1, <1>2, <1>3 DEF RequestStates, Steps
<1>5. req' \in [Requests -> RequestStates]
  BY <1>1, <1>3, <1>4, BecomesEffect
<1>6. TypeOK'
  BY <1>1, <1>5 DEF Forget, TypeOK, store, history, faults
<1>7. PointingAs(h, r)
  BY <1>1, <1>2, <1>4 DEF PointingAs
<1>8. MemHeld'
  BY DEF MemHeld, Forget
<1>9. \A d \in Drafts : outstanding'[d] \in {outstanding[d], 0}
  BY DEF Forget, history
<1> QED
  BY <1>2, <1>3, <1>4, <1>6, <1>7, <1>8, <1>9, QuietStep DEF Forget, store, history

-----------------------------------------------------------------------------
(* The first steps of a request, which give it an object and a conversation *)

\* Who starts alone, or beside turns only: overlap' records everything else.
LEMMA StartsAlone ==
  ASSUME IInv, NEW h \in Requests, Elsewhere(h), h \in Turns => lock = None, ~Overlaps(h)
  PROVE  Serial /\ Alone'
<1>1. ~overlap /\ Serial
  BY DEF IInv, Overlaps
<1>2. \A g \in Requests : g # h => ~InProgress(g)
  <2> SUFFICES ASSUME NEW g \in Requests, g # h, InProgress(g) PROVE FALSE
    OBVIOUS
  <2>1. g \in Turns /\ h \in Turns
    BY DEF Overlaps, Requests
  <2> QED
    BY <2>1, BoundsAssumption DEF IInv, Mutex, Requests
<1>3. \A g \in Requests : g # h => ~InProgress(g)'
  BY <1>2 DEF Elsewhere, InProgress
<1> QED
  BY <1>1, <1>3 DEF Alone

LEMMA BeginStep ==
  ASSUME IInv, NEW h \in Requests, req[h].pc = "idle",
         NEW r \in RequestStates, Becomes(h, r), TypeOK', PointingAs(h, r),
         r.pc = "resolve", r.kind # "draft", r.conv = 0, r.work = None,
         r.kind = "new" => active < Convs,
         UNCHANGED <<object, mem, rows, active, outstanding>>,
         overlap' = Overlaps(h),
         h \in Turns => lock = None /\ lock' = h,
         h \notin Turns => lock' = lock
  PROVE  IInv'
<1>1. TypeOK /\ req[h] \in RequestStates /\ PointingAs(h, req[h])
  BY Premises
<1>2. req' \in [Requests -> RequestStates] /\ req'[h] = r /\ Elsewhere(h)
  BY <1>1, BecomesEffect
<1>3. \A x \in Requests : req'[x].conv = req[x].conv
  BY <1>1, <1>2 DEF Elsewhere, PointingAs
<1>4. \A x \in Requests : (Fresh(x)' => Fresh(x)) /\ (Early(x)' => Early(x))
  BY <1>2 DEF Elsewhere, Fresh, Early
<1>5. Mutex'
  <2> SUFFICES ASSUME NEW t \in Turns, InProgress(t)' PROVE lock' = t
    BY DEF Mutex
  <2>1. CASE t = h
    BY <2>1
  <2>2. CASE t # h
    <3>1. InProgress(t)
      BY <1>2, <2>2 DEF Elsewhere, InProgress, Requests
    <3>2. lock = t /\ t # None
      BY <3>1, BoundsAssumption DEF IInv, Mutex
    <3> QED
      BY <3>2
  <2> QED
    BY <2>1, <2>2
<1>6. Unwritten'
  <2> SUFFICES ASSUME NEW d \in Drafts, Fresh(d)'
               PROVE  /\ outstanding'[d] = 0
                      /\ \A x \in Requests : object'[x].draft # d
                      /\ \A c \in 1..Convs : rows'[c].draft # d
    BY DEF Unwritten
  <2>1. Fresh(d)
    BY <1>4 DEF Drafts
  <2> QED
    BY <2>1 DEF IInv, Unwritten
<1>7. Pointers'
  <2>1. mem' # None => (object'[mem'].draft # None /\ ~Early(mem)')
    BY <1>1, <1>4 DEF IInv, Pointers, TypeOK
  <2>2. ASSUME NEW g \in Requests, req'[g].work # None
        PROVE  object'[req'[g].work].draft # None /\ ~(Early(req[g].work)')
    <3>1. g # h /\ req'[g] = req[g]
      BY <1>2, <2>2 DEF Elsewhere
    <3>2. req[g].work \in Requests /\ object[req[g].work].draft # None /\ ~Early(req[g].work)
      BY <1>1, <2>2, <3>1, SMTT(60) DEF IInv, Pointers, TypeOK, RequestStates
    <3> QED
      BY <3>1, <3>2, <1>4
  <2>3. \A g \in Requests : req'[g].work # None => req'[g] = req[g]
    BY <1>2 DEF Elsewhere
  <2> QED
    BY <2>1, <2>2, <2>3 DEF Pointers, Early
<1>8. Pointing' /\ Room'
  BY <1>2 DEF IInv, Pointing, PointingAs, Room, Elsewhere
<1>9. ASSUME ~overlap' PROVE Serial'
  <2>1. Serial /\ Alone'
    BY <1>2, <1>9, StartsAlone
  <2>2. RowsAtHome' /\ RowsHeld' /\ OneCall'
    BY <1>1, <1>3, <2>1, KeptRows
  <2>3. MemHeld'
    BY <2>1 DEF Serial, MemHeld
  <2>4. Stage(h)'
    BY <1>2 DEF Stage, InConversation, Recalled, Working, Acting, Sending, Leased, Drafting
  <2>5. InProgress(h)'
    BY <1>2 DEF InProgress
  <2> QED
    BY <2>1, <2>2, <2>3, <2>4, <2>5 DEF Serial, Alone
<1> QED
  BY <1>5, <1>6, <1>7, <1>8, <1>9 DEF IInv

LEMMA BeginTurnStep ==
  ASSUME IInv, NEW h \in Turns, NEW kind \in TurnKinds, BeginTurn(h, kind)
  PROVE  IInv'
<1>1. h \in Requests /\ TypeOK /\ req[h] \in RequestStates /\ PointingAs(h, req[h]) /\ req[h].pc = "idle"
  BY Premises DEF Requests, BeginTurn
<1>2. PICK r : r = [req[h] EXCEPT !.kind = kind, !.pc = "resolve"] /\ Becomes(h, r)
  BY DEF BeginTurn
<1>3. /\ r \in RequestStates /\ r.pc = "resolve" /\ r.kind = kind /\ r.conv = req[h].conv
      /\ r.work = req[h].work /\ r.answer = req[h].answer
  BY <1>1, <1>2 DEF RequestStates, Steps
<1>4. req' \in [Requests -> RequestStates]
  BY <1>1, <1>2, <1>3, BecomesEffect
<1>5. TypeOK'
  BY <1>1, <1>4 DEF BeginTurn, TypeOK, store, faults, Overlaps
<1>6. PointingAs(h, r) /\ r.conv = 0 /\ r.work = None /\ r.kind # "draft"
  BY <1>1, <1>3 DEF PointingAs, TurnKinds
<1> QED
  BY <1>1, <1>2, <1>3, <1>5, <1>6, BeginStep DEF BeginTurn, store

LEMMA BeginApproveStep ==
  ASSUME IInv, NEW h \in Calls, NEW d \in Drafts, BeginApprove(h, d)
  PROVE  IInv'
<1>1. h \in Requests /\ TypeOK /\ req[h] \in RequestStates /\ PointingAs(h, req[h]) /\ req[h].pc = "idle"
  BY Premises DEF Requests, BeginApprove
<1>2. PICK r : r = [req[h] EXCEPT !.kind = "approve", !.wants = d, !.pc = "resolve"] /\ Becomes(h, r)
  BY DEF BeginApprove
<1>3. /\ r \in RequestStates /\ r.pc = "resolve" /\ r.kind = "approve" /\ r.conv = req[h].conv
      /\ r.work = req[h].work /\ r.answer = req[h].answer
  BY <1>1, <1>2 DEF RequestStates, Steps, CallKinds
<1>4. req' \in [Requests -> RequestStates]
  BY <1>1, <1>2, <1>3, BecomesEffect
<1>5. TypeOK'
  BY <1>1, <1>4 DEF BeginApprove, TypeOK, session, store, faults, Overlaps
<1>6. PointingAs(h, r) /\ r.conv = 0 /\ r.work = None
  BY <1>1, <1>3 DEF PointingAs
<1>7. h \notin Turns
  BY BoundsAssumption
<1> QED
  BY <1>1, <1>2, <1>3, <1>5, <1>6, <1>7, BeginStep DEF BeginApprove, session, store

\* A request fills its own slot, and may put it into the session.
LEMMA SlotStep ==
  ASSUME IInv, NEW h \in Requests, NEW r \in RequestStates, Becomes(h, r), TypeOK', PointingAs(h, r),
         h \in Calls \/ InProgress(h),
         Fresh(h)' => Fresh(h), Early(h)' => Early(h),
         ObjectElsewhere(h),
         object'[h] = object[h] \/ Early(h) \/ object'[h].draft # None,
         \/ object'[h].draft \in {object[h].draft, None}
         \/ object'[h].draft = h /\ ~(Fresh(h)')
         \/ \E c \in 1..Convs : object'[h].draft = rows[c].draft,
         \/ mem' \in {mem, None}
         \/ mem' = h /\ object'[h].draft # None /\ ~(Early(h)'),
         \/ r.work \in {req[h].work, None}
         \/ r.work = h /\ object'[h].draft # None /\ ~(Early(h)'),
         r.kind = "new" /\ r.pc \in {"resolve", "startNew"} => active < Convs,
         UNCHANGED <<rows, active, outstanding, lock>>,
         ~overlap' => Serial'
  PROVE  IInv'
<1>1. TypeOK /\ req[h] \in RequestStates /\ PointingAs(h, req[h])
  BY Premises
<1>2. req' \in [Requests -> RequestStates] /\ req'[h] = r /\ Elsewhere(h)
  BY <1>1, BecomesEffect
<1>3. \A x \in Requests : (Fresh(x)' => Fresh(x)) /\ (Early(x)' => Early(x))
  <2> SUFFICES ASSUME NEW x \in Requests PROVE (Fresh(x)' => Fresh(x)) /\ (Early(x)' => Early(x))
    OBVIOUS
  <2>1. CASE x = h
    BY <2>1
  <2>2. CASE x # h
    BY <1>2, <2>2 DEF Elsewhere, Fresh, Early
  <2> QED
    BY <2>1, <2>2
<1>4. Mutex'
  <2> SUFFICES ASSUME NEW t \in Turns, InProgress(t)' PROVE lock = t
    BY DEF Mutex
  <2>1. InProgress(t)
    BY <1>2, BoundsAssumption DEF Elsewhere, InProgress, Requests
  <2> QED
    BY <2>1 DEF IInv, Mutex
<1>5. Unwritten'
  <2> SUFFICES ASSUME NEW d \in Drafts, Fresh(d)'
               PROVE  /\ outstanding[d] = 0
                      /\ \A x \in Requests : object'[x].draft # d
                      /\ \A c \in 1..Convs : rows[c].draft # d
    BY DEF Unwritten
  <2>1. Fresh(d) /\ d \in Requests /\ d # None
    BY <1>3, BoundsAssumption DEF Drafts, Requests
  <2>2. /\ outstanding[d] = 0
        /\ \A x \in Requests : object[x].draft # d
        /\ \A c \in 1..Convs : rows[c].draft # d
    BY <2>1 DEF IInv, Unwritten
  <2>3. object'[h].draft # d
    BY <2>1, <2>2
  <2> QED
    BY <2>2, <2>3 DEF ObjectElsewhere
<1>6. Pointers'
  <2>1. ASSUME NEW x \in Requests, object[x].draft # None, ~Early(x)
        PROVE  object'[x].draft # None /\ ~(Early(x)')
    BY <1>3, <2>1 DEF ObjectElsewhere
  <2>2. \A x \in Requests : Early(x)' <=> (req'[x].pc = "idle" \/ (req'[x].pc \in {"resolve", "recall"} /\ req'[x].kind # "draft"))
    BY DEF Early
  <2>3. ASSUME mem' # None PROVE object'[mem'].draft # None /\ ~(Early(mem)')
    <3>1. CASE mem' = mem
      <4>1. mem \in Requests /\ object[mem].draft # None /\ ~Early(mem)
        BY <1>1, <2>3, <3>1 DEF IInv, Pointers, TypeOK
      <4> QED
        BY <2>1, <2>2, <3>1, <4>1 DEF Early
    <3>2. CASE mem' = h /\ object'[h].draft # None /\ ~(Early(h)')
      BY <3>2 DEF Early
    <3> QED
      BY <2>3, <3>1, <3>2
  <2>4. ASSUME NEW g \in Requests, req'[g].work # None
        PROVE  object'[req'[g].work].draft # None /\ ~(Early(req[g].work)')
    <3>1. CASE req'[g].work = req[g].work
      <4>1. req[g].work \in Requests /\ object[req[g].work].draft # None /\ ~Early(req[g].work)
        BY <1>1, <2>4, <3>1 DEF IInv, Pointers, TypeOK, RequestStates
      <4> QED
        BY <2>1, <2>2, <3>1, <4>1 DEF Early
    <3>2. CASE req'[g].work = h /\ object'[h].draft # None /\ ~(Early(h)')
      BY <3>2 DEF Early
    <3> QED
      BY <1>2, <2>4, <3>1, <3>2 DEF Elsewhere
  <2> QED
    BY <2>3, <2>4 DEF Pointers
<1>7. Pointing' /\ Room'
  BY <1>2 DEF IInv, Pointing, PointingAs, Room, Elsewhere
<1> QED
  BY <1>4, <1>5, <1>6, <1>7 DEF IInv

LEMMA BeginDraftStep ==
  ASSUME IInv, NEW h \in Calls, BeginDraft(h)
  PROVE  IInv'
<1>1. h \in Requests /\ TypeOK /\ req[h] \in RequestStates /\ PointingAs(h, req[h]) /\ req[h].pc = "idle"
  BY Premises DEF Requests, BeginDraft
<1>2. PICK r : r = [req[h] EXCEPT !.kind = "draft", !.pc = "resolve", !.answer = "drafted"] /\ Becomes(h, r)
  BY DEF BeginDraft
<1>3. /\ r \in RequestStates /\ r.pc = "resolve" /\ r.kind = "draft" /\ r.conv = req[h].conv
      /\ r.work = req[h].work /\ r.answer = "drafted"
  BY <1>1, <1>2 DEF RequestStates, Steps, CallKinds, Answers
<1>4. req' \in [Requests -> RequestStates] /\ req'[h] = r /\ Elsewhere(h)
  BY <1>1, <1>2, <1>3, BecomesEffect
<1>5. /\ object' \in [Requests -> Works] /\ object'[h].draft = h /\ ObjectElsewhere(h)
      /\ object'[h].status = "awaiting_approval"
  BY <1>1 DEF BeginDraft, TypeOK, Works, Statuses, Drafts, ObjectElsewhere
<1>6. TypeOK'
  BY <1>1, <1>4, <1>5 DEF BeginDraft, TypeOK, store, faults, Overlaps
<1>7. PointingAs(h, r) /\ r.conv = 0 /\ r.work = None
  BY <1>1, <1>3 DEF PointingAs
<1>8. h \notin Turns /\ h # None
  BY BoundsAssumption
<1>9. Early(h) /\ Fresh(h) /\ ~(Early(h)') /\ ~(Fresh(h)')
  BY <1>1, <1>3, <1>4 DEF Early, Fresh
<1>10. ASSUME ~overlap' PROVE Serial'
  <2>1. Serial /\ Alone'
    BY <1>1, <1>4, <1>8, <1>10, StartsAlone DEF BeginDraft
  <2>2. \A x \in Requests : req'[x].conv = req[x].conv
    BY <1>3, <1>4 DEF Elsewhere
  <2>3. RowsAtHome' /\ RowsHeld' /\ OneCall'
    BY <1>1, <2>1, <2>2, KeptRows DEF BeginDraft, store
  <2>4. outstanding[h] = 0
    BY <1>1, <1>9 DEF IInv, Unwritten, Drafts
  <2>5. MemHeld'
    BY <1>5, <2>4 DEF MemHeld, BeginDraft
  <2>6. Stage(h)'
    BY <1>3, <1>4, <1>5, <2>4 DEF BeginDraft, Stage, InConversation, Recalled, Working, Acting, Sending, Leased, Drafting
  <2>7. InProgress(h)'
    BY <1>3, <1>4 DEF InProgress
  <2> QED
    BY <1>1, <2>1, <2>3, <2>5, <2>6, <2>7 DEF Serial, Alone
<1> QED
  BY <1>1, <1>2, <1>3, <1>5, <1>6, <1>7, <1>8, <1>9, <1>10, SlotStep DEF BeginDraft, store

LEMMA ResolvedState ==
  ASSUME NEW q \in RequestStates, NEW c \in 0..Convs, NEW p \in Steps, NEW n \in 0..2
  PROVE  [q EXCEPT !.conv = c, !.pc = p, !.left = n] \in RequestStates
BY DEF RequestStates

LEMMA ResolveStep ==
  ASSUME IInv, NEW h \in Requests, Resolve(h)
  PROVE  IInv'
<1>1. TypeOK /\ req[h] \in RequestStates /\ PointingAs(h, req[h])
  BY Premises
<1>2. req[h].pc = "resolve" /\ InProgress(h) /\ req[h].conv = 0 /\ active \in 1..Convs
  BY <1>1 DEF Resolve, InProgress, PointingAs, TypeOK
<1>3. PICK n \in {0, 1}, p \in {"startNew", "persist", "recall"} :
        /\ p = AfterResolve(req[h].kind)
        /\ Becomes(h, [req[h] EXCEPT !.conv = active, !.pc = p, !.left = n])
  <2>1. (IF req[h].kind = "draft" THEN 1 ELSE 0) \in {0, 1}
    OBVIOUS
  <2>2. AfterResolve(req[h].kind) \in {"startNew", "persist", "recall"}
    BY DEF AfterResolve
  <2> QED
    BY <2>1, <2>2, Zenon DEF Resolve
<1>4. PICK r : r = [req[h] EXCEPT !.conv = active, !.pc = p, !.left = n] /\ Becomes(h, r)
  BY <1>3
<1>5. /\ r.pc = p /\ r.kind = req[h].kind /\ r.conv = active
      /\ r.work = req[h].work /\ r.answer = req[h].answer
  BY <1>1, <1>4 DEF RequestStates
<1>6. r \in RequestStates
  <2>1. p \in Steps /\ active \in 0..Convs /\ n \in 0..2
    BY <1>2, <1>3 DEF Steps
  <2> QED
    BY <1>1, <1>4, <2>1, ResolvedState, Zenon
<1>7. req' \in [Requests -> RequestStates] /\ req'[h] = r /\ Elsewhere(h)
  BY <1>1, <1>4, <1>6, BecomesEffect
<1>8. TypeOK'
  BY <1>1, <1>7 DEF Resolve, TypeOK, session, store, history, faults
<1>9. /\ p = "startNew" <=> r.kind = "new"
      /\ p = "persist" <=> r.kind = "draft"
  BY <1>3, <1>5 DEF AfterResolve
<1>10. PointingAs(h, r)
  BY <1>1, <1>2, <1>3, <1>5, <1>9 DEF PointingAs
<1>11. (Fresh(h)' => Fresh(h)) /\ (Early(h)' => Early(h))
  BY <1>2, <1>3, <1>5, <1>7, <1>9 DEF Early, Fresh
<1>12. r.kind = "new" => active < Convs
  BY <1>2, <1>5 DEF IInv, Room
<1>13. UNCHANGED <<object, mem, rows, active, outstanding, lock, overlap>>
  BY DEF Resolve, session, store, history
<1>14. ASSUME ~overlap' PROVE Serial'
  <2>1. Serial /\ Stage(h)
    BY <1>2, <1>13, <1>14 DEF IInv, Serial
  <2>2. Alone' /\ InProgress(h)'
    BY <1>2, <1>3, <1>5, <1>7, <2>1 DEF Serial, Alone, Elsewhere, InProgress
  <2>3. RowsAtHome'
    <3> SUFFICES ASSUME NEW c \in 1..Convs, rows[c].draft # None
                 PROVE  req'[rows[c].draft].conv = c
      BY <1>13 DEF RowsAtHome, Home
    <3>1. rows[c].draft \in Requests /\ req[rows[c].draft].conv = c
      BY <1>1, <2>1 DEF Serial, RowsAtHome, Home, TypeOK, Rows, Drafts
    <3>2. rows[c].draft # h
      BY <1>2, <3>1
    <3> QED
      BY <1>7, <3>1, <3>2 DEF Elsewhere
  <2>4. RowsHeld' /\ OneCall' /\ MemHeld'
    BY <1>13, <2>1 DEF Serial, RowsHeld, OneCall, MemHeld, Live
  <2>5. Working(h)'
    <3>1. CASE r.kind # "draft"
      BY <1>3, <1>5, <1>7, <1>9, <3>1 DEF Working
    <3>2. CASE r.kind = "draft"
      <4>1. mem = h /\ object[h].draft = h
        BY <1>2, <1>5, <2>1, <3>2 DEF Stage, Drafting
      <4> QED
        BY <1>5, <1>7, <1>13, <4>1 DEF Working, Home
    <3> QED
      BY <3>1, <3>2
  <2>6. Stage(h)'
    BY <1>3, <1>5, <1>7, <1>13, <2>5 DEF Stage, InConversation, Recalled, Acting, Sending, Leased, Drafting
  <2> QED
    BY <2>2, <2>3, <2>4, <2>6 DEF Serial, Alone
<1> QED
  BY <1>2, <1>4, <1>5, <1>6, <1>8, <1>10, <1>11, <1>12, <1>13, <1>14, SlotStep DEF ObjectElsewhere

LEMMA RecalledState ==
  ASSUME NEW q \in RequestStates, NEW w \in Requests \cup {None}, NEW p \in Steps
  PROVE  [q EXCEPT !.work = w, !.pc = p] \in RequestStates
BY DEF RequestStates

LEMMA RecallStep ==
  ASSUME IInv, NEW h \in Requests, Recall(h)
  PROVE  IInv'
<1>1. TypeOK /\ req[h] \in RequestStates /\ PointingAs(h, req[h])
  BY Premises
<1>2. req[h].pc = "recall" /\ InProgress(h) /\ req[h].kind # "draft" /\ req[h].conv \in 1..Convs
  <2>1. req[h].conv \in 0..Convs /\ req[h].conv # 0
    BY <1>1 DEF RequestStates, PointingAs, Recall
  <2> QED
    BY <1>1, <2>1, BoundsAssumption DEF Recall, InProgress, PointingAs
<1> DEFINE row == rows[req[h].conv]
<1>3. row \in Rows
  BY <1>1, <1>2 DEF TypeOK
<1>4. PICK w \in {h, None} :
        /\ w = IF Live(row) THEN h ELSE None
        /\ Becomes(h, [req[h] EXCEPT !.work = w, !.pc = "hydrate"])
  BY Zenon DEF Recall
<1>5. PICK r : r = [req[h] EXCEPT !.work = w, !.pc = "hydrate"] /\ Becomes(h, r)
  BY <1>4
<1>6. /\ r.pc = "hydrate" /\ r.kind = req[h].kind /\ r.conv = req[h].conv
      /\ r.work = w /\ r.answer = req[h].answer
  BY <1>1, <1>5 DEF RequestStates
<1>7. r \in RequestStates
  <2>1. "hydrate" \in Steps /\ w \in Requests \cup {None}
    BY <1>4 DEF Steps
  <2> QED
    BY <1>1, <1>5, <2>1, RecalledState, Zenon
<1>8. req' \in [Requests -> RequestStates] /\ req'[h] = r /\ Elsewhere(h)
  BY <1>1, <1>5, <1>7, BecomesEffect
<1>9. /\ object' \in [Requests -> Works] /\ ObjectElsewhere(h)
      /\ Live(row) => object'[h].draft = row.draft /\ object'[h].status = row.status
      /\ ~Live(row) => object'[h].draft = None
  BY <1>1, <1>3 DEF Recall, TypeOK, Works, Rows, NoWork, Statuses, ObjectElsewhere
<1>10. TypeOK'
  BY <1>1, <1>8, <1>9 DEF Recall, TypeOK, store, history, faults, RequestStates
<1>11. PointingAs(h, r)
  BY <1>1, <1>2, <1>4, <1>6 DEF PointingAs
<1>12. Early(h) /\ Fresh(h) /\ ~(Early(h)')
  BY <1>2, <1>6, <1>8 DEF Early, Fresh
<1>13. UNCHANGED <<mem, rows, active, outstanding, lock, overlap>> /\ current' = req[h].conv
  BY DEF Recall, store, history
<1>14. r.work = h => object'[h].draft # None
  BY <1>4, <1>6, <1>9, BoundsAssumption DEF Live, Requests
<1>15. ASSUME ~overlap' PROVE Serial'
  <2>1. Serial /\ Stage(h)
    BY <1>2, <1>13, <1>15 DEF IInv, Serial
  <2>2. Alone' /\ InProgress(h)'
    BY <1>2, <1>6, <1>8, <2>1 DEF Serial, Alone, Elsewhere, InProgress
  <2>3. \A x \in Requests : req'[x].conv = req[x].conv
    BY <1>6, <1>8 DEF Elsewhere
  <2>4. RowsAtHome' /\ RowsHeld' /\ OneCall'
    BY <1>1, <1>13, <2>1, <2>3, KeptRows
  <2>5. MemHeld'
    <3>1. mem # h /\ mem \in Requests \cup {None}
      BY <1>1, <1>12, BoundsAssumption DEF IInv, Pointers, TypeOK, Requests
    <3> QED
      BY <1>9, <1>13, <2>1, <3>1 DEF Serial, MemHeld, ObjectElsewhere
  <2>6. Recalled(h)'
    <3>1. CASE Live(row)
      <4>1. row.draft \in Drafts /\ row.draft # None /\ Home(row.draft) = req[h].conv
        BY <1>2, <1>3, <2>1, <3>1 DEF Live, Serial, RowsAtHome, Rows
      <4>2. outstanding[row.draft] > 0 => row.status \in Held
        BY <1>2, <2>1, <3>1, <4>1 DEF Serial, RowsHeld
      <4>3. req'[object'[h].draft].conv = req[h].conv
        BY <1>9, <2>3, <3>1, <4>1 DEF Home, Drafts
      <4> QED
        BY <1>6, <1>8, <1>9, <1>13, <3>1, <4>2, <4>3 DEF Recalled, Home
    <3>2. CASE ~Live(row)
      BY <1>4, <1>6, <1>8, <1>13, <3>2 DEF Recalled
    <3> QED
      BY <3>1, <3>2
  <2>7. Stage(h)'
    BY <1>2, <1>6, <1>8, <1>13, <2>1, <2>6 DEF Stage, InConversation, Working, Acting, Sending, Leased, Drafting
  <2> QED
    BY <2>2, <2>4, <2>5, <2>7 DEF Serial, Alone
<1>16. /\ \/ object'[h].draft \in {object[h].draft, None}
          \/ \E c \in 1..Convs : object'[h].draft = rows[c].draft
       /\ r.work \in {req[h].work, None} \/ (r.work = h /\ object'[h].draft # None /\ ~(Early(h)'))
  BY <1>2, <1>4, <1>6, <1>9, <1>12, <1>14
<1> QED
  BY <1>2, <1>5, <1>6, <1>7, <1>9, <1>10, <1>11, <1>12, <1>13, <1>15, <1>16, SlotStep

LEMMA HydrateStep ==
  ASSUME IInv, NEW h \in Requests, Hydrate(h)
  PROVE  IInv'
<1>1. TypeOK /\ req[h] \in RequestStates /\ PointingAs(h, req[h])
  BY Premises
<1>2. /\ req[h].pc = "hydrate" /\ InProgress(h) /\ req[h].kind # "draft" /\ req[h].work \in {h, None}
      /\ req[h].conv # 0
  BY <1>1 DEF Hydrate, InProgress, PointingAs
<1>3. PICK r : r = [req[h] EXCEPT !.pc = "act"] /\ Becomes(h, r)
  BY DEF Hydrate
<1>4. /\ r \in RequestStates /\ r.pc = "act" /\ r.kind = req[h].kind /\ r.conv = req[h].conv
      /\ r.work = req[h].work /\ r.answer = req[h].answer
  BY <1>1, <1>3 DEF RequestStates, Steps
<1>5. req' \in [Requests -> RequestStates] /\ req'[h] = r /\ Elsewhere(h)
  BY <1>1, <1>3, <1>4, BecomesEffect
<1>6. TypeOK'
  BY <1>1, <1>2, <1>5 DEF Hydrate, TypeOK, store, history, faults
<1>7. PointingAs(h, r)
  BY <1>1, <1>2, <1>4 DEF PointingAs
<1>8. ~(Early(h)') /\ (Fresh(h)' => Fresh(h))
  BY <1>2, <1>4, <1>5 DEF Early, Fresh
<1>9. UNCHANGED <<object, current, rows, active, outstanding, lock, overlap>> /\ mem' = req[h].work
  BY DEF Hydrate, store, history
<1>10. mem' = None \/ (mem' = h /\ object'[h].draft # None)
  BY <1>2, <1>9 DEF IInv, Pointers
<1>11. ASSUME ~overlap' PROVE Serial'
  <2>1. Serial /\ Stage(h)
    BY <1>2, <1>9, <1>11 DEF IInv, Serial
  <2>2. Alone' /\ InProgress(h)'
    BY <1>2, <1>4, <1>5, <2>1 DEF Serial, Alone, Elsewhere, InProgress
  <2>3. \A x \in Requests : req'[x].conv = req[x].conv
    BY <1>4, <1>5 DEF Elsewhere
  <2>4. RowsAtHome' /\ RowsHeld' /\ OneCall'
    BY <1>1, <1>9, <2>1, <2>3, KeptRows
  <2>5. req[h].work # None =>
          /\ Home(object[h].draft) = req[h].conv
          /\ outstanding[object[h].draft] > 0 => object[h].status \in Held
    BY <1>2, <2>1 DEF Stage, Recalled
  <2>6. MemHeld'
    BY <1>2, <1>9, <2>5 DEF MemHeld
  <2>7. Working(h)'
    <3>1. object[h].draft \in Requests \cup {None}
      BY <1>1 DEF TypeOK, Works, Drafts
    <3> QED
      BY <1>4, <1>5, <1>9, <1>10, <2>3, <2>5, <3>1 DEF Working, Home
  <2>8. Acting(h)'
    BY <1>2, <1>4, <1>5, <1>9, <2>1 DEF Stage, Recalled, Acting
  <2>9. Stage(h)'
    BY <1>2, <1>4, <1>5, <1>9, <2>1, <2>7, <2>8 DEF Stage, InConversation, Recalled, Sending, Leased, Drafting
  <2> QED
    BY <2>2, <2>4, <2>6, <2>9 DEF Serial, Alone
<1> QED
  BY <1>2, <1>3, <1>4, <1>6, <1>7, <1>8, <1>9, <1>10, <1>11, SlotStep DEF ObjectElsewhere

LEMMA RequestEmailStep ==
  ASSUME IInv, NEW h \in Requests, RequestEmail(h)
  PROVE  IInv'
<1>1. TypeOK /\ req[h] \in RequestStates /\ PointingAs(h, req[h])
  BY Premises
<1>2. /\ req[h].pc = "act" /\ InProgress(h) /\ req[h].kind = "request" /\ h # None
      /\ req[h].conv # 0
  BY <1>1, BoundsAssumption DEF RequestEmail, Acts, InProgress, Requests, PointingAs
<1>3. PICK r : r = [Goes(h, 1, "drafted") EXCEPT !.work = h] /\ Becomes(h, r)
  BY DEF RequestEmail
<1>4. /\ r \in RequestStates
      /\ r.pc = "persist" /\ r.answer = "drafted" /\ r.work = h
      /\ r.kind = req[h].kind /\ r.conv = req[h].conv
  <2>1. /\ Goes(h, 1, "drafted") \in RequestStates
        /\ Goes(h, 1, "drafted").pc = "persist" /\ Goes(h, 1, "drafted").answer = "drafted"
        /\ Goes(h, 1, "drafted").kind = req[h].kind /\ Goes(h, 1, "drafted").conv = req[h].conv
    BY <1>1, GoesState DEF Answers
  <2> QED
    BY <2>1, <1>3 DEF RequestStates
<1>5. req' \in [Requests -> RequestStates] /\ req'[h] = r /\ Elsewhere(h)
  BY <1>1, <1>3, <1>4, BecomesEffect
<1>6. /\ object' \in [Requests -> Works] /\ object'[h].draft = h /\ ObjectElsewhere(h)
      /\ object'[h].status = "awaiting_approval"
  BY <1>1 DEF RequestEmail, TypeOK, Works, Statuses, Drafts, ObjectElsewhere
<1>7. TypeOK'
  BY <1>1, <1>5, <1>6 DEF RequestEmail, TypeOK, store, history, faults
<1>8. PointingAs(h, r)
  BY <1>1, <1>2, <1>4 DEF PointingAs
<1>9. Fresh(h) /\ ~(Early(h)') /\ ~(Fresh(h)')
  BY <1>2, <1>4, <1>5 DEF Early, Fresh
<1>10. UNCHANGED <<current, rows, active, outstanding, lock, overlap>> /\ mem' = h
  BY DEF RequestEmail, store, history
<1>11. ASSUME ~overlap' PROVE Serial'
  <2>1. Serial /\ Stage(h)
    BY <1>2, <1>10, <1>11 DEF IInv, Serial
  <2>2. Alone' /\ InProgress(h)'
    BY <1>2, <1>4, <1>5, <2>1 DEF Serial, Alone, Elsewhere, InProgress
  <2>3. \A x \in Requests : req'[x].conv = req[x].conv
    BY <1>4, <1>5 DEF Elsewhere
  <2>4. RowsAtHome' /\ RowsHeld' /\ OneCall'
    BY <1>1, <1>10, <2>1, <2>3, KeptRows
  <2>5. outstanding[h] = 0
    BY <1>9 DEF IInv, Unwritten, Drafts
  <2>6. MemHeld'
    BY <1>6, <1>10, <2>5 DEF MemHeld
  <2>7. Working(h)'
    BY <1>4, <1>5, <1>6, <1>10 DEF Working, Home
  <2>8. Stage(h)'
    BY <1>2, <1>4, <1>5, <1>10, <2>1, <2>7 DEF Stage, InConversation, Recalled, Acting, Sending, Leased, Drafting
  <2> QED
    BY <2>2, <2>4, <2>6, <2>8 DEF Serial, Alone
<1>12. r.kind # "new"
  BY <1>2, <1>4
<1> QED
  BY <1>2, <1>3, <1>4, <1>6, <1>7, <1>8, <1>9, <1>10, <1>11, <1>12, SlotStep

LEMMA RestartStep ==
  ASSUME IInv, Restart
  PROVE  IInv'
<1>1. TypeOK
  BY DEF IInv
<1>2. \A h \in Requests :
         /\ req'[h] \in RequestStates /\ req'[h].conv = req[h].conv /\ req'[h].work = None
         /\ req'[h].pc \in {"idle", "done"} /\ PointingAs(h, req'[h])
         /\ req'[h].pc = "idle" => req[h].pc = "idle"
  <2> SUFFICES ASSUME NEW h \in Requests
               PROVE  /\ req'[h] \in RequestStates /\ req'[h].conv = req[h].conv /\ req'[h].work = None
                      /\ req'[h].pc \in {"idle", "done"} /\ PointingAs(h, req'[h])
                      /\ req'[h].pc = "idle" => req[h].pc = "idle"
    OBVIOUS
  <2>1. req'[h] = IF InProgress(h) THEN Ended(h) ELSE req[h]
    BY DEF Restart
  <2>2. CASE InProgress(h)
    BY <1>1, <2>1, <2>2, EndedState DEF PointingAs
  <2>3. CASE ~InProgress(h)
    <3>1. req[h] \in RequestStates /\ PointingAs(h, req[h])
      BY Premises
    <3> QED
      BY <2>1, <2>3, <3>1 DEF InProgress, PointingAs
  <2> QED
    BY <2>2, <2>3
<1>3. req' \in [Requests -> RequestStates]
  <2>1. req' = [h \in Requests |-> IF InProgress(h) THEN Ended(h) ELSE req[h]]
    BY DEF Restart
  <2> QED
    BY <1>2, <2>1
<1>4. /\ object' \in [Requests -> Works] /\ \A h \in Requests : object'[h].draft = None
      /\ mem' = None
  BY DEF Restart, Works, NoWork, Statuses
<1>5. TypeOK'
  BY <1>1, <1>3, <1>4, BoundsAssumption DEF Restart, TypeOK, store, history
<1>6. \A h \in Requests : ~(InProgress(h)')
  BY <1>2 DEF InProgress
<1>7. Mutex'
  BY <1>6 DEF Mutex, Requests
<1>8. Unwritten'
  <2> SUFFICES ASSUME NEW d \in Drafts, Fresh(d)'
               PROVE  /\ outstanding'[d] = 0
                      /\ \A x \in Requests : object'[x].draft # d
                      /\ \A c \in 1..Convs : rows'[c].draft # d
    BY DEF Unwritten
  <2>1. d \in Requests /\ d # None /\ req'[d].pc \in {"idle", "done"}
    BY <1>2, BoundsAssumption DEF Drafts, Requests
  <2>2. req'[d].pc = "idle"
    BY <2>1 DEF Fresh, Early
  <2>3. Fresh(d)
    BY <1>2, <2>1, <2>2 DEF Fresh, Early
  <2> QED
    BY <1>4, <2>1, <2>3 DEF IInv, Unwritten, Restart, store, history
<1>9. Pointers' /\ Pointing'
  BY <1>2, <1>4 DEF Pointers, Pointing
<1>10. Room'
  BY <1>2 DEF Room
<1>11. ASSUME ~overlap' PROVE Serial'
  <2>1. Serial /\ UNCHANGED <<rows, outstanding>>
    BY <1>11 DEF IInv, Restart, store, history
  <2>2. RowsAtHome' /\ RowsHeld' /\ OneCall'
    BY <1>1, <1>2, <2>1, KeptRows
  <2>3. MemHeld'
    BY <1>4 DEF MemHeld
  <2> QED
    BY <1>6, <2>2, <2>3 DEF Serial, Alone
<1> QED
  BY <1>5, <1>7, <1>8, <1>9, <1>10, <1>11 DEF IInv

-----------------------------------------------------------------------------
(* The invariant, and what follows from it *)

LEMMA InitIInv == Init => IInv
<1> SUFFICES ASSUME Init PROVE IInv
  OBVIOUS
<1>1. NoRequest \in RequestStates /\ NoWork \in Works /\ NoRow \in Rows
  BY BoundsAssumption DEF NoRequest, RequestStates, Steps, Answers, NoWork, Works, Statuses, NoRow, Rows
<1>2. TypeOK
  <2>1. /\ req \in [Requests -> RequestStates] /\ object \in [Requests -> Works]
        /\ rows \in [1..Convs -> Rows] /\ outstanding \in [Drafts -> Nat]
    BY <1>1 DEF Init
  <2>2. 1 \in 1..Convs /\ 0 \in 0..Convs /\ 0 \in 0..MaxFailures /\ 0 \in 0..MaxCrashes
    BY BoundsAssumption
  <2> QED
    BY <2>1, <2>2 DEF Init, TypeOK
<1>3. \A h \in Requests : req[h] = NoRequest /\ object[h] = NoWork /\ ~InProgress(h)
  BY DEF Init, InProgress, NoRequest
<1>4. Mutex /\ Pointers /\ Pointing /\ Room
  BY <1>3 DEF Init, Mutex, Requests, Pointers, Pointing, PointingAs, NoRequest, Room
<1>5. Unwritten
  BY BoundsAssumption DEF Init, Unwritten, NoWork, NoRow, Drafts, Requests
<1>6. Serial
  BY <1>3, BoundsAssumption
     DEF Init, Serial, Alone, RowsAtHome, NoRow, MemHeld, RowsHeld, OneCall
<1> QED
  BY <1>2, <1>4, <1>5, <1>6 DEF IInv

LEMMA AdvanceIInv ==
  ASSUME IInv, NEW h \in Requests, Advance(h)
  PROVE  IInv'
<1>1. CASE Resolve(h) \/ Recall(h) \/ Hydrate(h)
  BY <1>1, ResolveStep, RecallStep, HydrateStep
<1>2. CASE RequestEmail(h) \/ ApproveEmail(h) \/ StartVerify(h) \/ CancelEmail(h) \/ EditEmail(h)
  BY <1>2, RequestEmailStep, ApproveStep, StartVerifyStep, CancelStep, EditStep
<1>3. CASE LeaveEmail(h) \/ EscapeEmail(h) \/ ApproveInInbox(h) \/ RefuseInInbox(h)
  BY <1>3, LeaveStep, EscapeStep, ApproveStep, RefuseStep
<1>4. CASE PersistLease(h) \/ CheckConnection(h) \/ CallProvider(h)
  BY <1>4, PersistLeaseStep, CheckConnectionStep, CallProviderStep
<1>5. CASE SettleSent(h) \/ SettleAccepted(h) \/ SettleFailed(h) \/ Verified(h) \/ NotVerified(h)
  BY <1>5, SettleSentStep, SettleAcceptedStep, SettleFailedStep, VerifiedStep, NotVerifiedStep
<1>6. CASE Persist(h) \/ CompleteWork(h) \/ Reply(h)
  BY <1>6, PersistStep, CompleteStep, ReplyStep
<1>7. CASE StartNew(h) \/ CancelOld(h) \/ Forget(h)
  BY <1>7, StartNewStep, CancelOldStep, ForgetStep
<1> QED
  BY <1>1, <1>2, <1>3, <1>4, <1>5, <1>6, <1>7 DEF Advance

LEMMA SameViews ==
  ASSUME IInv, UNCHANGED vars
  PROVE  IInv'
<1>1. UNCHANGED <<req, object, mem, current, receipt, lock, rows, active>>
      /\ UNCHANGED <<outstanding, delivered, overlap, failures, crashes>>
  BY DEF vars, session, store, history, faults
<1>2. TypeOK'
  BY <1>1 DEF IInv, TypeOK
<1>3. Mutex' /\ Unwritten' /\ Pointers' /\ Pointing' /\ Room'
  BY <1>1 DEF IInv, Mutex, InProgress, Unwritten, Fresh, Early, Pointers, Pointing, Room
<1>4. Serial => Serial'
  BY <1>1 DEF Serial, Alone, InProgress, RowsAtHome, Home, MemHeld, RowsHeld, Live, OneCall,
              Stage, InConversation, Recalled, Working, Acting, Sending, Leased, Drafting
<1> QED
  BY <1>1, <1>2, <1>3, <1>4 DEF IInv

LEMMA NextIInv ==
  ASSUME IInv, [Next]_vars
  PROVE  IInv'
<1>1. ASSUME NEW h \in Requests, Begin(h) PROVE IInv'
  <2>1. ASSUME h \in Turns, NEW kind \in TurnKinds, BeginTurn(h, kind) PROVE IInv'
    BY <2>1, BeginTurnStep
  <2>2. ASSUME h \in Calls, BeginDraft(h) PROVE IInv'
    BY <2>2, BeginDraftStep
  <2>3. ASSUME h \in Calls, NEW d \in Drafts, BeginApprove(h, d) PROVE IInv'
    BY <2>3, BeginApproveStep
  <2> QED
    BY <1>1, <2>1, <2>2, <2>3 DEF Begin
<1> QED
  BY <1>1, AdvanceIInv, ReadFailsStep, RestartStep, SameViews DEF Next

LEMMA Inductive == Spec => []IInv
BY InitIInv, NextIInv, PTL DEF Spec

\* Type correctness, for any number of requests, conversations and faults.
THEOREM TypeCorrect == Spec => []TypeOK
<1>1. IInv => TypeOK
  BY DEF IInv
<1> QED
  BY <1>1, Inductive, PTL

\* No draft is with the provider twice unless an earlier call was reported
\* failed, whatever restarts, lost rows, thrown turns and repeated approvals
\* come between, as long as the inbox does not overlap another request
\* (sendPendingEmail, its lease, and the hydration of every turn).
THEOREM SendsOnce == Spec => []SentOnceAtATime
<1>1. IInv => SentOnceAtATime
  BY DEF IInv, Serial, OneCall, SentOnceAtATime
<1> QED
  BY <1>1, Inductive, PTL

\* While the fate of a call is open, no live row offers its draft for
\* approval: the barrier of persistEmailExecutionLease.
THEOREM LeaseIsBarrier == Spec => []LeaseStands
<1>1. IInv => LeaseStands
  BY DEF IInv, Serial, RowsHeld, LeaseStands, Held
<1> QED
  BY <1>1, Inductive, PTL

\* Only the provider call opens one.
LEMMA OnlyCallProviderSends ==
  ASSUME TypeOK, NEW h \in Requests, Begin(h) \/ Advance(h) \/ ReadFails(h), ~CallProvider(h)
  PROVE  \A d \in Drafts : outstanding'[d] \in {outstanding[d], 0}
<1>1. CASE Begin(h) \/ ReadFails(h)
  BY <1>1 DEF Begin, BeginTurn, BeginDraft, BeginApprove, ReadFails, history
<1>2. CASE Resolve(h) \/ Recall(h) \/ Hydrate(h) \/ RequestEmail(h) \/ ApproveEmail(h) \/ ApproveInInbox(h)
  BY <1>2 DEF Resolve, Recall, Hydrate, RequestEmail, ApproveEmail, ApproveInInbox, StartSend, history
<1>3. CASE StartVerify(h) \/ CancelEmail(h) \/ EditEmail(h) \/ LeaveEmail(h) \/ EscapeEmail(h) \/ RefuseInInbox(h)
  BY <1>3 DEF StartVerify, CancelEmail, EditEmail, LeaveEmail, EscapeEmail, RefuseInInbox, history
<1>4. CASE PersistLease(h) \/ CheckConnection(h) \/ SettleSent(h) \/ SettleAccepted(h) \/ Verified(h) \/ NotVerified(h)
  BY <1>4 DEF PersistLease, CheckConnection, SettleSent, SettleAccepted, Verified, NotVerified, history
<1>5. CASE SettleFailed(h)
  BY <1>5 DEF SettleFailed, TypeOK
<1>6. CASE Persist(h) \/ CompleteWork(h) \/ Reply(h) \/ StartNew(h) \/ CancelOld(h) \/ Forget(h)
  BY <1>6 DEF Persist, CompleteWork, Reply, StartNew, CancelOld, Forget, history
<1> QED
  BY <1>1, <1>2, <1>3, <1>4, <1>5, <1>6 DEF Advance

\* A draft is never sent from a conversation that /new has left
\* (startNewConversation, "cannot be resumed accidentally").
THEOREM ResetHolds == Spec => ResetIsFinal
<1>1. ASSUME IInv, [Next]_vars, NEW d \in Drafts, ~overlap, outstanding'[d] > outstanding[d]
      PROVE  req[d].conv = active
  <2>1. TypeOK /\ Serial /\ outstanding[d] \in Nat
    BY <1>1 DEF IInv, TypeOK
  <2>2. PICK h \in Requests : CallProvider(h)
    <3>1. CASE UNCHANGED vars
      BY <1>1, <2>1, <3>1 DEF vars, history
    <3>2. CASE Restart
      BY <1>1, <2>1, <3>2 DEF Restart, history
    <3>3. ASSUME NEW h \in Requests, Begin(h) \/ Advance(h) \/ ReadFails(h)
          PROVE  CallProvider(h)
      BY <1>1, <2>1, <3>3, OnlyCallProviderSends
    <3> QED
      BY <1>1, <3>1, <3>2, <3>3 DEF Next
  <2>3. /\ req[h].pc = "call" /\ InProgress(h) /\ Draft(h) \in Drafts
        /\ req[h].kind # "new"
    BY <1>1, <2>2, WorkingOn DEF CallProvider, IInv, Pointing, PointingAs
  <2>4. d = Draft(h)
    BY <1>1, <2>1, <2>2 DEF CallProvider, TypeOK
  <2>5. Stage(h)
    BY <2>1, <2>3 DEF Serial
  <2>6. req[h].work = mem /\ mem # None /\ req[h].conv = active
    BY <1>1, <2>2, <2>3, <2>5, WorkingOn DEF Stage, Sending, InConversation, CallProvider
  <2> QED
    BY <2>3, <2>4, <2>5, <2>6 DEF Stage, Working, Home, Draft
<1>2. IInv /\ [Next]_vars =>
        [\A d \in Drafts : ~overlap /\ outstanding'[d] > outstanding[d] => req[d].conv = active]_vars
  BY <1>1
<1> QED
  BY <1>2, Inductive, PTL DEF Spec, ResetIsFinal

-----------------------------------------------------------------------------
(* What the founder is told *)

Claims == {"sent", "accepted_unverified"}

\* A request that knows, or has said, that the provider took its draft.
Confirmed(r) ==
  \/ r.answer \in {"sent", "accepted"}
  \/ r.pc = "settle" /\ r.outcome \in {"sent", "accepted"}
  \/ r.pc = "verify"

Tells(r) == r.answer \in {"sent", "accepted"} => r.pc \in {"persist", "complete", "reply"}

Told(h) ==
  /\ Tells(req[h])
  /\ ~overlap /\ Confirmed(req[h]) => req[h].work \in Requests /\ Draft(h) \in delivered

HonestObjects == \A x \in Requests : object[x].status \in Claims => object[x].draft \in delivered
HonestRows == \A c \in 1..Convs : rows[c].status \in Claims => rows[c].draft \in delivered

Truth ==
  /\ \A h \in Requests : Told(h)
  /\ ~overlap => HonestObjects /\ HonestRows

\* A request that is alone is the only one with something to tell.
LEMMA TruthStep ==
  ASSUME IInv, Truth, NEW h \in Requests, Elsewhere(h), overlap => overlap',
         ~overlap' => \A x \in Requests : x # h => ~InProgress(x),
         Told(h)', ~overlap' => HonestObjects' /\ HonestRows'
  PROVE  Truth'
<1>1. ASSUME NEW x \in Requests, x # h
      PROVE  Told(x)'
  <2>1. req'[x] = req[x] /\ Tells(req[x])
    BY <1>1 DEF Elsewhere, Truth, Told
  <2>2. ~overlap' => ~Confirmed(req[x])
    BY <1>1, <2>1 DEF InProgress, Confirmed, Tells
  <2> QED
    BY <2>1, <2>2 DEF Told
<1> QED
  BY <1>1 DEF Truth

LEMMA AloneTruth ==
  ASSUME IInv, Truth, NEW h \in Requests, InProgress(h), Elsewhere(h), overlap' = overlap,
         Told(h)', ~overlap => HonestObjects' /\ HonestRows'
  PROVE  Truth'
<1>1. ~overlap' => \A x \in Requests : x # h => ~InProgress(x)
  BY DEF IInv, Serial, Alone
<1> QED
  BY <1>1, TruthStep

\* A request that goes on with nothing to tell.
LEMMA SilentStep ==
  ASSUME TypeOK, NEW h \in Requests, NEW r \in RequestStates, Becomes(h, r),
         r.answer \notin {"sent", "accepted"}, r.pc \notin {"settle", "verify"}
  PROVE  Told(h)' /\ Elsewhere(h)
<1>1. req'[h] = r /\ Elsewhere(h)
  BY BecomesEffect
<1> QED
  BY <1>1 DEF Told, Tells, Confirmed

LEMMA MarkedHonest ==
  ASSUME TypeOK, HonestObjects, NEW s \in Requests, NEW status \in Statuses,
         object' = Marked(s, status), delivered' = delivered,
         status \in Claims => object[s].draft \in delivered
  PROVE  HonestObjects'
<1>1. /\ object'[s].status = status /\ ObjectElsewhere(s)
      /\ \A x \in Requests : object'[x].draft = object[x].draft
  BY MarkedEffect
<1> QED
  BY <1>1 DEF HonestObjects, ObjectElsewhere

LEMMA UpsertedHonest ==
  ASSUME TypeOK, HonestObjects, HonestRows, NEW c \in 1..Convs, NEW x \in Requests,
         rows' \in {rows, Upserted(c, object[x])}, delivered' = delivered
  PROVE  HonestRows'
<1>1. /\ \A y \in 1..Convs : y # c => rows'[y] = rows[y]
      /\ rows'[c] = rows[c] \/ (rows'[c].draft = object[x].draft /\ rows'[c].status = object[x].status)
  BY RequestsAreTyped, UpsertEffect
<1> QED
  BY <1>1 DEF HonestObjects, HonestRows

LEMMA CompletedHonest ==
  ASSUME TypeOK, HonestRows, NEW c \in 1..Convs, NEW v \in {"succeeded", "cancelled"},
         rows' \in {rows, Completed(c, v)}, delivered' = delivered
  PROVE  HonestRows'
BY CompletedEffect DEF HonestRows

LEMMA BeginTruth ==
  ASSUME IInv, Truth, NEW h \in Requests, Begin(h)
  PROVE  Truth'
<1>1. TypeOK /\ req[h] \in RequestStates /\ req[h].pc = "idle" /\ Told(h)
  BY Premises DEF Begin, BeginTurn, BeginDraft, BeginApprove, Truth
<1>2. /\ overlap' = Overlaps(h) /\ delivered' = delivered /\ rows' = rows
      /\ h \in Turns => lock = None
  BY BoundsAssumption DEF Begin, BeginTurn, BeginDraft, BeginApprove, store
<1>3. PICK r \in RequestStates : /\ Becomes(h, r) /\ r.pc = "resolve"
                                /\ r.answer \in {req[h].answer, "drafted"}
  <2>1. ASSUME NEW kind \in TurnKinds, BeginTurn(h, kind)
        PROVE  \E r \in RequestStates : /\ Becomes(h, r) /\ r.pc = "resolve"
                                        /\ r.answer \in {req[h].answer, "drafted"}
    <3>1. PICK r : r = [req[h] EXCEPT !.kind = kind, !.pc = "resolve"] /\ Becomes(h, r)
      BY <2>1 DEF BeginTurn
    <3>2. r \in RequestStates /\ r.pc = "resolve" /\ r.answer = req[h].answer
      BY <1>1, <3>1 DEF RequestStates, Steps
    <3> QED
      BY <3>1, <3>2
  <2>2. ASSUME BeginDraft(h)
        PROVE  \E r \in RequestStates : /\ Becomes(h, r) /\ r.pc = "resolve"
                                        /\ r.answer \in {req[h].answer, "drafted"}
    <3>1. PICK r : /\ r = [req[h] EXCEPT !.kind = "draft", !.pc = "resolve", !.answer = "drafted"]
                   /\ Becomes(h, r)
      BY <2>2 DEF BeginDraft
    <3>2. r \in RequestStates /\ r.pc = "resolve" /\ r.answer = "drafted"
      BY <1>1, <3>1 DEF RequestStates, Steps, CallKinds, Answers
    <3> QED
      BY <3>1, <3>2
  <2>3. ASSUME NEW d \in Drafts, BeginApprove(h, d)
        PROVE  \E r \in RequestStates : /\ Becomes(h, r) /\ r.pc = "resolve"
                                        /\ r.answer \in {req[h].answer, "drafted"}
    <3>1. PICK r : /\ r = [req[h] EXCEPT !.kind = "approve", !.wants = d, !.pc = "resolve"]
                   /\ Becomes(h, r)
      BY <2>3 DEF BeginApprove
    <3>2. r \in RequestStates /\ r.pc = "resolve" /\ r.answer = req[h].answer
      BY <1>1, <3>1 DEF RequestStates, Steps, CallKinds
    <3> QED
      BY <3>1, <3>2
  <2> QED
    BY <2>1, <2>2, <2>3 DEF Begin
<1>4. Told(h)' /\ Elsewhere(h)
  BY <1>1, <1>3, SilentStep DEF Told, Tells
<1>5. ~overlap' => \A x \in Requests : x # h => ~InProgress(x)
  <2> SUFFICES ASSUME ~Overlaps(h), NEW x \in Requests, x # h, InProgress(x) PROVE FALSE
    BY <1>2
  <2>1. x \in Turns /\ h \in Turns
    BY DEF Overlaps, Requests
  <2> QED
    BY <1>2, <2>1, BoundsAssumption DEF IInv, Mutex, Requests
<1>6. ~overlap => HonestObjects' /\ HonestRows'
  <2>1. object' = object \/ object' = [object EXCEPT ![h] = [draft |-> h, status |-> "awaiting_approval"]]
    BY DEF Begin, BeginTurn, BeginDraft, BeginApprove, session
  <2> QED
    BY <1>1, <1>2, <2>1 DEF Truth, HonestObjects, HonestRows, Claims, TypeOK
<1> QED
  BY <1>2, <1>4, <1>5, <1>6, TruthStep DEF Overlaps

\* A draft is read back as the row says, and what it becomes in the hands of
\* the founder claims nothing.
LEMMA FounderTruth ==
  ASSUME IInv, Truth, NEW h \in Requests,
         \/ Resolve(h) \/ Recall(h) \/ Hydrate(h) \/ RequestEmail(h) \/ ApproveEmail(h)
         \/ CancelEmail(h) \/ EditEmail(h) \/ LeaveEmail(h) \/ EscapeEmail(h)
         \/ ApproveInInbox(h) \/ RefuseInInbox(h)
  PROVE  Truth'
<1>1. TypeOK /\ req[h] \in RequestStates /\ req[h].work \in Requests \cup {None} /\ Told(h)
      /\ PointingAs(h, req[h])
  BY Premises DEF Truth
<1>2. /\ req[h].pc \in {"resolve", "recall", "hydrate", "act"} /\ InProgress(h)
      /\ overlap' = overlap /\ delivered' = delivered /\ rows' = rows
  BY DEF Resolve, Recall, Hydrate, RequestEmail, ApproveEmail, CancelEmail, EditEmail,
         LeaveEmail, EscapeEmail, ApproveInInbox, RefuseInInbox, StartSend, Acts, InProgress, session, store, history
<1>3. req[h].answer \notin {"sent", "accepted"}
  BY <1>1, <1>2 DEF Told, Tells
<1>4. \A a \in {"none", "drafted", "cancelled"}, n \in 0..2 :
        /\ Goes(h, n, a) \in RequestStates /\ Goes(h, n, a).pc = "persist" /\ Goes(h, n, a).answer = a
  BY <1>1, GoesState DEF Answers
<1>5. Completions \in 0..2 /\ mem \in Requests \cup {None}
  BY <1>1 DEF Completions, TypeOK
<1>6. PICK r \in RequestStates : Becomes(h, r) /\ r.pc \notin {"settle", "verify"} /\ r.answer \notin {"sent", "accepted"}
  <2>1. CASE Resolve(h)
    <3>0. PICK n \in {0, 1} :
            Becomes(h, [req[h] EXCEPT !.conv = active, !.pc = AfterResolve(req[h].kind), !.left = n])
      BY <2>1 DEF Resolve
    <3>1. PICK r :
            /\ r = [req[h] EXCEPT !.conv = active, !.pc = AfterResolve(req[h].kind), !.left = n]
            /\ Becomes(h, r)
      BY <3>0
    <3>2. AfterResolve(req[h].kind) \in {"startNew", "persist", "recall"} /\ active \in 0..Convs
      BY <1>1, BoundsAssumption DEF AfterResolve, TypeOK
    <3>3. PICK p : p = AfterResolve(req[h].kind)
      OBVIOUS
    <3>4. p \in Steps /\ n \in 0..2 /\ r = [req[h] EXCEPT !.conv = active, !.pc = p, !.left = n]
      BY <3>1, <3>2, <3>3 DEF Steps
    <3>5. r \in RequestStates
      BY <1>1, <3>2, <3>4, ResolvedState, Zenon
    <3>6. r.pc = p /\ r.answer = req[h].answer
      BY <1>1, <3>4 DEF RequestStates
    <3> QED
      BY <1>3, <3>1, <3>2, <3>3, <3>5, <3>6
  <2>2. CASE Recall(h)
    <3>0. PICK w \in Requests \cup {None} :
            Becomes(h, [req[h] EXCEPT !.work = w, !.pc = "hydrate"])
      BY <2>2 DEF Recall
    <3>1. PICK r : r = [req[h] EXCEPT !.work = w, !.pc = "hydrate"] /\ Becomes(h, r)
      BY <3>0
    <3>2. r \in RequestStates /\ r.pc = "hydrate" /\ r.answer = req[h].answer
      BY <1>1, <3>1 DEF RequestStates, Steps
    <3> QED
      BY <1>3, <3>1, <3>2
  <2>3. CASE Hydrate(h)
    BY <1>1, <1>3, <2>3 DEF Hydrate, RequestStates, Steps
  <2>4. CASE RequestEmail(h)
    <3>1. PICK r : r = [Goes(h, 1, "drafted") EXCEPT !.work = h] /\ Becomes(h, r)
      BY <2>4 DEF RequestEmail
    <3>2. r \in RequestStates /\ r.pc = "persist" /\ r.answer = "drafted"
      BY <1>4, <3>1 DEF RequestStates
    <3> QED
      BY <3>1, <3>2
  <2>5. CASE ApproveEmail(h) \/ ApproveInInbox(h)
    <3>1. PICK n : /\ n = IF h \in Calls THEN 1 ELSE Completions
                   /\ Becomes(h, [req[h] EXCEPT !.pc = "lease", !.work = mem, !.lease = current, !.left = n])
      BY <2>5 DEF ApproveEmail, ApproveInInbox, StartSend
    <3>2. PICK r : /\ r = [req[h] EXCEPT !.pc = "lease", !.work = mem, !.lease = current, !.left = n]
                   /\ Becomes(h, r)
      BY <3>1
    <3>3. n \in 0..2 /\ current \in 0..Convs
      BY <1>1, <1>5, <3>1 DEF TypeOK
    <3>4. r \in RequestStates /\ r.pc = "lease" /\ r.answer = req[h].answer
      BY <1>1, <1>5, <3>2, <3>3 DEF RequestStates, Steps
    <3> QED
      BY <1>3, <3>2, <3>4
  <2>7. CASE CancelEmail(h) \/ EditEmail(h)
    BY <1>4, <1>5, <2>7 DEF CancelEmail, EditEmail
  <2>8. CASE LeaveEmail(h)
    <3>1. PICK n \in 0..2 : Becomes(h, Goes(h, n, "none"))
      BY <2>8 DEF LeaveEmail
    <3> QED
      BY <1>4, <3>1
  <2>9. CASE EscapeEmail(h)
    <3>1. PICK r : r = [Goes(h, 1, "none") EXCEPT !.work = None] /\ Becomes(h, r)
      BY <2>9 DEF EscapeEmail
    <3>2. r \in RequestStates /\ r.pc = "persist" /\ r.answer = "none"
      BY <1>4, <3>1 DEF RequestStates
    <3> QED
      BY <3>1, <3>2
  <2>10. CASE RefuseInInbox(h)
    BY <1>1, <2>10, ThrownStep DEF RefuseInInbox
  <2> QED
    BY <2>1, <2>2, <2>3, <2>4, <2>5, <2>7, <2>8, <2>9, <2>10
<1>7. Told(h)' /\ Elsewhere(h)
  BY <1>1, <1>6, SilentStep
<1>8. ASSUME ~overlap PROVE HonestObjects'
  <2>1. HonestObjects /\ HonestRows
    BY <1>8 DEF Truth
  <2>2. CASE object' = object
    BY <1>2, <2>1, <2>2 DEF HonestObjects
  <2>3. CASE mem \in Requests /\ \E s \in {"sending", "cancelled", "awaiting_approval"} : object' = Marked(mem, s)
    BY <1>1, <1>2, <2>1, <2>3, MarkedHonest DEF Statuses, Claims
  <2>4. CASE object' = [object EXCEPT ![h] = [draft |-> h, status |-> "awaiting_approval"]]
    BY <1>1, <1>2, <2>1, <2>4 DEF HonestObjects, Claims, TypeOK
  <2>5. CASE Recall(h)
    <3>1. req[h].conv \in 1..Convs
      <4>1. req[h].conv \in 0..Convs /\ req[h].conv # 0
        BY <1>1, <2>5 DEF RequestStates, PointingAs, Recall
      <4> QED
        BY <4>1, BoundsAssumption
    <3>2. PICK w : /\ object' = [object EXCEPT ![h] = w]
                   /\ w = IF Live(rows[req[h].conv])
                             THEN [draft |-> rows[req[h].conv].draft, status |-> rows[req[h].conv].status]
                             ELSE NoWork
      BY <2>5 DEF Recall
    <3>3. w.status \in Claims => w.draft \in delivered
      BY <2>1, <3>1, <3>2 DEF HonestRows, NoWork, Claims
    <3> QED
      BY <1>1, <1>2, <2>1, <3>2, <3>3 DEF HonestObjects, TypeOK
  <2> QED
    BY <1>5, <2>2, <2>3, <2>4, <2>5 DEF Resolve, Hydrate, RequestEmail, ApproveEmail,
       CancelEmail, EditEmail, LeaveEmail, EscapeEmail, ApproveInInbox, RefuseInInbox,
       StartSend, DraftIs, HoldsWanted, session
<1>9. ~overlap => HonestRows'
  BY <1>2 DEF Truth, HonestRows
<1> QED
  BY <1>2, <1>7, <1>8, <1>9, AloneTruth

\* A store call leaves what the founder is told to the step it belongs to.
LEMMA StoreTruth ==
  ASSUME IInv, Truth, NEW h \in Requests, InProgress(h),
         NEW r \in RequestStates, Becomes(h, r) \/ Becomes(h, Thrown(h)),
         Tells(r), Confirmed(r) => (Confirmed(req[h]) /\ r.work = req[h].work),
         UNCHANGED <<object, delivered, overlap>>, ~overlap => HonestRows'
  PROVE  Truth'
<1>1. TypeOK /\ Told(h)
  BY Premises DEF Truth
<1>2. Told(h)' /\ Elsewhere(h)
  <2>1. CASE Becomes(h, Thrown(h))
    BY <1>1, <2>1, ThrownStep, SilentStep
  <2>2. CASE Becomes(h, r)
    <3>1. req'[h] = r /\ Elsewhere(h)
      BY <1>1, <2>2, BecomesEffect
    <3> QED
      BY <1>1, <3>1 DEF Told, Draft
  <2> QED
    BY <2>1, <2>2
<1>3. ~overlap => HonestObjects'
  BY DEF Truth, HonestObjects
<1> QED
  BY <1>2, <1>3, AloneTruth

LEMMA PersistLeaseTruth ==
  ASSUME IInv, Truth, NEW h \in Requests, PersistLease(h)
  PROVE  Truth'
<1>1. TypeOK /\ req[h] \in RequestStates /\ Told(h)
  BY Premises DEF Truth
<1>2. req[h].pc = "lease" /\ req[h].work \in Requests /\ InProgress(h)
  BY WorkingOn DEF PersistLease
<1>3. PICK r : r = [req[h] EXCEPT !.pc = "check"]
  OBVIOUS
<1>4. r \in RequestStates /\ r.pc = "check" /\ r.answer = req[h].answer
  BY <1>1, <1>3 DEF RequestStates, Steps
<1>5. req[h].answer \notin {"sent", "accepted"}
  BY <1>1, <1>2 DEF Told, Tells
<1>6. /\ rows' \in {rows, Upserted(req[h].lease, object[req[h].work])}
      /\ Becomes(h, r) \/ Becomes(h, Thrown(h))
  BY <1>1, <1>3, StoreCallEffect DEF PersistLease
<1>7. UNCHANGED <<object, delivered, overlap>>
  BY DEF PersistLease, session, history
<1>8. ASSUME ~overlap PROVE HonestRows'
  <2>1. HonestObjects /\ HonestRows
    BY <1>8 DEF Truth
  <2>2. CASE req[h].lease \in 1..Convs
    BY <1>1, <1>2, <1>6, <1>7, <2>1, <2>2, UpsertedHonest
  <2>3. CASE req[h].lease \notin 1..Convs
    <3>1. Upserted(req[h].lease, object[req[h].work]) = rows
      BY <1>1, <2>3 DEF Upserted, TypeOK
    <3> QED
      BY <1>6, <1>7, <2>1, <3>1 DEF HonestRows
  <2> QED
    BY <2>2, <2>3
<1> QED
  BY <1>2, <1>4, <1>5, <1>6, <1>7, <1>8, StoreTruth DEF Tells, Confirmed

\* The answer of the provider is what the settled draft says.
LEMMA CallProviderTruth ==
  ASSUME IInv, Truth, NEW h \in Requests, CallProvider(h)
  PROVE  Truth'
<1>1. TypeOK /\ req[h] \in RequestStates /\ Told(h)
  BY Premises DEF Truth
<1>2. req[h].pc = "call" /\ req[h].work \in Requests /\ InProgress(h)
  BY WorkingOn DEF CallProvider
<1>3. PICK o \in {"sent", "accepted", "error"} :
        /\ Becomes(h, [req[h] EXCEPT !.pc = "settle", !.outcome = o])
        /\ delivered' = delivered \cup {Draft(h)} \/ (o = "error" /\ delivered' = delivered)
  BY DEF CallProvider
<1>4. PICK r : r = [req[h] EXCEPT !.pc = "settle", !.outcome = o] /\ Becomes(h, r)
  BY <1>3
<1>5. /\ r \in RequestStates /\ r.pc = "settle" /\ r.answer = req[h].answer
      /\ r.work = req[h].work /\ r.outcome = o
  BY <1>1, <1>4 DEF RequestStates, Steps
<1>6. req'[h] = r /\ Elsewhere(h)
  BY <1>1, <1>4, <1>5, BecomesEffect
<1>7. UNCHANGED <<object, rows, overlap>>
  BY DEF CallProvider, session, store
<1>8. req[h].answer \notin {"sent", "accepted"}
  BY <1>1, <1>2 DEF Told, Tells
<1>9. Told(h)'
  <2>1. Draft(h)' = Draft(h)
    BY <1>5, <1>6, <1>7 DEF Draft
  <2> QED
    BY <1>2, <1>3, <1>5, <1>6, <1>8, <2>1 DEF Told, Tells, Confirmed
<1>10. ~overlap => HonestObjects' /\ HonestRows'
  BY <1>3, <1>7 DEF Truth, HonestObjects, HonestRows
<1> QED
  BY <1>2, <1>6, <1>7, <1>9, <1>10, AloneTruth

LEMMA CheckTruth ==
  ASSUME IInv, Truth, NEW h \in Requests, CheckConnection(h) \/ SettleFailed(h)
  PROVE  Truth'
<1>1. TypeOK /\ req[h] \in RequestStates /\ Told(h)
  BY Premises DEF Truth
<1>2. req[h].pc \in {"check", "settle"} /\ req[h].work \in Requests /\ InProgress(h)
  BY WorkingOn DEF CheckConnection, SettleFailed
<1>3. PICK r : /\ Becomes(h, r)
               /\ \/ r = [req[h] EXCEPT !.pc = "call"] /\ req[h].pc = "check"
                  \/ r = [req[h] EXCEPT !.pc = "persist", !.answer = "failed"]
                  \/ r = [req[h] EXCEPT !.pc = "persist", !.outcome = "none", !.answer = "failed"]
  BY DEF CheckConnection, SettleFailed
<1>4. /\ r \in RequestStates /\ r.pc \notin {"settle", "verify"} /\ r.answer \notin {"sent", "accepted"}
  <2>1. CASE r = [req[h] EXCEPT !.pc = "call"] /\ req[h].pc = "check"
    <3>1. req[h].answer \notin {"sent", "accepted"} /\ "call" \in Steps
      BY <1>1, <2>1 DEF Told, Tells, Steps
    <3>2. r \in RequestStates
      BY <1>1, <2>1, <3>1, NextStep, Zenon
    <3> QED
      BY <1>1, <2>1, <3>1, <3>2 DEF RequestStates
  <2>2. CASE \/ r = [req[h] EXCEPT !.pc = "persist", !.answer = "failed"]
             \/ r = [req[h] EXCEPT !.pc = "persist", !.outcome = "none", !.answer = "failed"]
    <3>1. "persist" \in Steps /\ "failed" \in Answers /\ "none" \in {"none", "sent", "accepted", "error"}
      BY DEF Steps, Answers
    <3>2. r \in RequestStates
      <4>1. /\ [req[h] EXCEPT !.pc = "persist", !.answer = "failed"] \in RequestStates
            /\ [req[h] EXCEPT !.pc = "persist", !.outcome = "none", !.answer = "failed"] \in RequestStates
        BY <1>1, <3>1, OpenStep, Zenon
      <4> QED
        BY <2>2, <4>1, Zenon
    <3>3. r.pc = "persist" /\ r.answer = "failed"
      BY <1>1, <2>2 DEF RequestStates
    <3> QED
      BY <3>2, <3>3
  <2> QED
    BY <1>3, <2>1, <2>2
<1>5. Told(h)' /\ Elsewhere(h)
  BY <1>1, <1>3, <1>4, SilentStep
<1>6. UNCHANGED <<rows, delivered, overlap>>
  BY DEF CheckConnection, SettleFailed, store, history
<1>7. ASSUME ~overlap PROVE HonestObjects' /\ HonestRows'
  <2>1. HonestObjects /\ HonestRows
    BY <1>7 DEF Truth
  <2>2. CASE object' = object
    BY <1>6, <2>1, <2>2 DEF HonestObjects, HonestRows
  <2>3. CASE \E s \in {"awaiting_approval", "failed"} : object' = Marked(req[h].work, s)
    BY <1>1, <1>2, <1>6, <2>1, <2>3, MarkedHonest DEF Statuses, Claims, HonestRows
  <2> QED
    BY <2>2, <2>3 DEF CheckConnection, SettleFailed
<1> QED
  BY <1>2, <1>5, <1>6, <1>7, AloneTruth

LEMMA SettleTruth ==
  ASSUME IInv, Truth, NEW h \in Requests, SettleSent(h) \/ SettleAccepted(h) \/ Verified(h)
  PROVE  Truth'
<1>1. TypeOK /\ req[h] \in RequestStates /\ Told(h)
  BY Premises DEF Truth
<1>2. req[h].pc \in {"settle", "verify"} /\ req[h].work \in Requests /\ InProgress(h)
  BY WorkingOn DEF SettleSent, SettleAccepted, Verified
<1>3. PICK r : /\ Becomes(h, r)
               /\ \/ \E a \in {"sent", "accepted"} :
                       r = [req[h] EXCEPT !.pc = "persist", !.outcome = "none", !.answer = a]
                  \/ r = [req[h] EXCEPT !.pc = "persist", !.answer = "sent"]
  BY DEF SettleSent, SettleAccepted, Verified
<1>4. r \in RequestStates /\ r.pc = "persist" /\ r.work = req[h].work
  <2>1. PICK a \in {"sent", "accepted"} :
          \/ r = [req[h] EXCEPT !.pc = "persist", !.outcome = "none", !.answer = a]
          \/ r = [req[h] EXCEPT !.pc = "persist", !.answer = a]
    BY <1>3
  <2>2. "persist" \in Steps /\ a \in Answers /\ "none" \in {"none", "sent", "accepted", "error"}
    BY <2>1 DEF Steps, Answers
  <2>3. r \in RequestStates
    <3>1. /\ [req[h] EXCEPT !.pc = "persist", !.outcome = "none", !.answer = a] \in RequestStates
          /\ [req[h] EXCEPT !.pc = "persist", !.answer = a] \in RequestStates
      BY <1>1, <2>2, OpenStep, Zenon
    <3> QED
      BY <2>1, <3>1, Zenon
  <2> QED
    BY <1>1, <2>1, <2>3 DEF RequestStates
<1>5. req'[h] = r /\ Elsewhere(h)
  BY <1>1, <1>3, <1>4, BecomesEffect
<1>6. UNCHANGED <<rows, delivered, overlap>>
  BY DEF SettleSent, SettleAccepted, Verified, store, history
<1>7. ~overlap => Draft(h) \in delivered
  BY <1>1 DEF SettleSent, SettleAccepted, Verified, Told, Confirmed
<1>8. PICK s \in {"sent", "accepted_unverified"} : object' = Marked(req[h].work, s)
  BY DEF SettleSent, SettleAccepted, Verified
<1>9. \A x \in Requests : object'[x].draft = object[x].draft
  BY <1>1, <1>2, <1>8, MarkedEffect DEF Statuses
<1>10. Told(h)'
  <2>1. Draft(h)' = Draft(h)
    BY <1>2, <1>4, <1>5, <1>9 DEF Draft
  <2> QED
    BY <1>2, <1>4, <1>5, <1>6, <1>7, <2>1 DEF Told, Tells
<1>11. ASSUME ~overlap PROVE HonestObjects' /\ HonestRows'
  BY <1>1, <1>2, <1>6, <1>7, <1>8, <1>11, MarkedHonest DEF Truth, Statuses, Draft, HonestRows
<1> QED
  BY <1>2, <1>5, <1>6, <1>10, <1>11, AloneTruth

\* A draft that is called accepted is with the provider, so that the answer
\* of a verification is true whichever way it ends.
LEMMA StartVerifyTruth ==
  ASSUME IInv, Truth, NEW h \in Requests, StartVerify(h)
  PROVE  Truth'
<1>1. TypeOK /\ req[h] \in RequestStates /\ Told(h)
  BY Premises DEF Truth
<1>2. /\ req[h].pc = "act" /\ InProgress(h) /\ mem \in Requests
      /\ object[mem].status = "accepted_unverified"
      /\ UNCHANGED <<object, rows, delivered, overlap>>
  BY <1>1 DEF StartVerify, Acts, InProgress, DraftIs, TypeOK, session, store, history
<1>3. PICK r : r = [req[h] EXCEPT !.pc = "verify", !.work = mem, !.left = 1] /\ Becomes(h, r)
  BY DEF StartVerify
<1>4. r \in RequestStates
  <2>1. "verify" \in Steps /\ 1 \in 0..2 /\ mem \in Requests \cup {None}
    BY <1>2 DEF Steps
  <2> QED
    BY <1>1, <1>3, <2>1, WorkingState, Zenon
<1>5. r.pc = "verify" /\ r.work = mem /\ r.answer = req[h].answer
  BY <1>1, <1>3 DEF RequestStates
<1>6. req'[h] = r /\ Elsewhere(h)
  BY <1>1, <1>3, <1>4, BecomesEffect
<1>7. req[h].answer \notin {"sent", "accepted"}
  BY <1>1, <1>2 DEF Told, Tells
<1>8. ~overlap => object[mem].draft \in delivered
  BY <1>2 DEF Truth, HonestObjects, Claims
<1>9. Told(h)'
  BY <1>2, <1>5, <1>6, <1>7, <1>8 DEF Told, Tells, Draft
<1> QED
  BY <1>2, <1>6, <1>9, AloneTruth DEF Truth, HonestObjects, HonestRows

LEMMA NotVerifiedTruth ==
  ASSUME IInv, Truth, NEW h \in Requests, NotVerified(h)
  PROVE  Truth'
<1>1. TypeOK /\ req[h] \in RequestStates /\ Told(h)
  BY Premises DEF Truth
<1>2. /\ req[h].pc = "verify" /\ InProgress(h)
      /\ UNCHANGED <<object, rows, delivered, overlap>>
  BY DEF NotVerified, InProgress, session, store, history
<1>3. PICK r : r = [req[h] EXCEPT !.pc = "persist", !.answer = "accepted"] /\ Becomes(h, r)
  BY DEF NotVerified
<1>4. r \in RequestStates
  <2>1. "persist" \in Steps /\ "accepted" \in Answers
    BY DEF Steps, Answers
  <2> QED
    BY <1>1, <1>3, <2>1, OpenStep, Zenon
<1>5. r.pc = "persist" /\ r.work = req[h].work
  BY <1>1, <1>3 DEF RequestStates
<1> QED
  BY <1>1, <1>2, <1>3, <1>4, <1>5, StoreTruth DEF Tells, Confirmed, Truth, HonestRows

LEMMA PersistTruth ==
  ASSUME IInv, Truth, NEW h \in Requests, Persist(h)
  PROVE  Truth'
<1>1. /\ TypeOK /\ req[h] \in RequestStates /\ Told(h) /\ PointingAs(h, req[h])
      /\ req[h].pc = "persist" /\ InProgress(h)
      /\ UNCHANGED <<object, delivered, overlap>>
  BY Premises DEF Truth, Persist, InProgress, history
<1>2. req[h].conv \in 1..Convs
  <2>1. req[h].conv \in 0..Convs /\ req[h].conv # 0
    BY <1>1 DEF RequestStates, PointingAs
  <2> QED
    BY <2>1, BoundsAssumption
<1>3. PICK n : n = IF Verdict(h) = "none" THEN NextCompletion(req[h])
                   ELSE [req[h] EXCEPT !.pc = "complete", !.verdict = Verdict(h)]
  OBVIOUS
<1>4. /\ n \in RequestStates /\ n.pc \in {"persist", "complete", "reply"}
      /\ n.work = req[h].work /\ n.answer = req[h].answer
  <2>1. CASE Verdict(h) = "none"
    BY <1>1, <1>3, <2>1, NextCompletionState
  <2>2. CASE Verdict(h) # "none"
    BY <1>1, <1>3, <2>2, VerdictState
  <2> QED
    BY <2>1, <2>2
<1>5. CASE mem = None
  <2>1. Becomes(h, n) /\ rows' = rows
    BY <1>3, <1>5 DEF Persist
  <2> QED
    BY <1>1, <1>4, <2>1, StoreTruth DEF Tells, Confirmed, Truth, HonestRows
<1>6. CASE mem # None
  <2>1. StoreCall(h, Upserted(req[h].conv, object[mem]), n) /\ mem \in Requests
    BY <1>1, <1>3, <1>6 DEF Persist, TypeOK
  <2>2. /\ rows' \in {rows, Upserted(req[h].conv, object[mem])}
        /\ Becomes(h, n) \/ Becomes(h, Thrown(h))
    BY <1>1, <2>1, StoreCallEffect
  <2>3. ~overlap => HonestRows'
    BY <1>1, <1>2, <2>1, <2>2, UpsertedHonest DEF Truth
  <2> QED
    BY <1>1, <1>4, <2>2, <2>3, StoreTruth DEF Tells, Confirmed
<1> QED
  BY <1>5, <1>6

LEMMA CompleteTruth ==
  ASSUME IInv, Truth, NEW h \in Requests, CompleteWork(h)
  PROVE  Truth'
<1>1. /\ TypeOK /\ req[h] \in RequestStates /\ Told(h) /\ PointingAs(h, req[h])
      /\ req[h].pc = "complete" /\ InProgress(h)
      /\ UNCHANGED <<object, delivered, overlap>>
  BY Premises DEF Truth, CompleteWork, InProgress, session, history
<1>2. req[h].conv \in 1..Convs /\ req[h].verdict \in {"succeeded", "cancelled"}
  <2>1. req[h].conv \in 0..Convs /\ req[h].conv # 0 /\ req[h].verdict # "none"
    BY <1>1 DEF RequestStates, PointingAs
  <2> QED
    BY <2>1, <1>1, BoundsAssumption DEF RequestStates
<1>3. PICK n : n = NextCompletion(req[h])
  OBVIOUS
<1>4. /\ n \in RequestStates /\ n.pc \in {"persist", "reply"}
      /\ n.work = req[h].work /\ n.answer = req[h].answer
  BY <1>1, <1>3, NextCompletionState
<1>5. /\ rows' \in {rows, Completed(req[h].conv, req[h].verdict)}
      /\ Becomes(h, n) \/ Becomes(h, Thrown(h))
  <2>1. CASE mem = None
    BY <1>1, <1>3, <2>1, StoreCallEffect DEF CompleteWork
  <2>2. CASE mem # None
    BY <1>1, <1>3, <2>2 DEF CompleteWork
  <2> QED
    BY <2>1, <2>2
<1>6. ~overlap => HonestRows'
  BY <1>1, <1>2, <1>5, CompletedHonest DEF Truth
<1> QED
  BY <1>1, <1>4, <1>5, <1>6, StoreTruth DEF Tells, Confirmed

\* The other steps say nothing new.
LEMMA QuietTruth ==
  ASSUME IInv, Truth, NEW h \in Requests,
         Reply(h) \/ ReadFails(h) \/ StartNew(h) \/ CancelOld(h) \/ Forget(h)
  PROVE  Truth'
<1>1. TypeOK /\ req[h] \in RequestStates /\ Told(h) /\ PointingAs(h, req[h]) /\ InProgress(h)
  BY Premises DEF Truth, Reply, ReadFails, StartNew, CancelOld, Forget, InProgress
<1>2. UNCHANGED <<object, delivered, overlap>>
  BY DEF Reply, ReadFails, StartNew, CancelOld, Forget, session, store, history
<1>3. PICK r \in RequestStates :
        Becomes(h, r) /\ r.pc \notin {"settle", "verify"} /\ r.answer \notin {"sent", "accepted"}
  <2>1. CASE Reply(h)
    BY <1>1, <2>1, EndedState DEF Reply
  <2>2. CASE ReadFails(h)
    BY <1>1, <2>2, ThrownStep DEF ReadFails
  <2>3. CASE StartNew(h) \/ CancelOld(h) \/ Forget(h)
    <3>1. PICK p \in {"cancelOld", "forget", "reply"} :
            Becomes(h, [req[h] EXCEPT !.pc = p]) \/ Becomes(h, Thrown(h))
      BY <2>3 DEF StartNew, CancelOld, Forget
    <3>2. CASE Becomes(h, Thrown(h))
      BY <1>1, <3>2, ThrownStep
    <3>3. CASE Becomes(h, [req[h] EXCEPT !.pc = p])
      <4>1. PICK r : r = [req[h] EXCEPT !.pc = p]
        OBVIOUS
      <4>2. r \in RequestStates /\ r.pc = p /\ r.answer = req[h].answer
        BY <1>1, <4>1 DEF RequestStates, Steps
      <4>3. req[h].answer \notin {"sent", "accepted"}
        BY <1>1, <2>3 DEF Told, Tells, StartNew, CancelOld, Forget
      <4> QED
        BY <3>3, <4>1, <4>2, <4>3
    <3> QED
      BY <3>1, <3>2, <3>3
  <2> QED
    BY <2>1, <2>2, <2>3
<1>4. Told(h)' /\ Elsewhere(h)
  BY <1>1, <1>3, SilentStep
<1>5. ASSUME ~overlap PROVE HonestRows'
  <2>1. HonestRows
    BY <1>5 DEF Truth
  <2>2. CASE rows' = rows
    BY <1>2, <2>1, <2>2 DEF HonestRows
  <2>3. CASE CancelOld(h)
    <3>1. req[h].conv \in 1..Convs
      <4>1. req[h].conv \in 0..Convs /\ req[h].conv # 0
        BY <1>1, <2>3 DEF RequestStates, PointingAs, CancelOld
      <4> QED
        BY <4>1, BoundsAssumption
    <3>2. rows' \in {rows, Completed(req[h].conv, "cancelled")}
      BY <2>3 DEF CancelOld
    <3> QED
      BY <1>1, <1>2, <2>1, <3>1, <3>2, CompletedHonest
  <2> QED
    BY <2>2, <2>3 DEF Reply, ReadFails, StartNew, Forget, store
<1>6. ~overlap => HonestObjects'
  BY <1>2 DEF Truth, HonestObjects
<1> QED
  BY <1>1, <1>2, <1>4, <1>5, <1>6, AloneTruth

\* A restart leaves no object, and nobody who would answer.
LEMMA RestartTruth ==
  ASSUME IInv, Truth, Restart
  PROVE  Truth'
<1>1. UNCHANGED <<rows, delivered, overlap>> /\ TypeOK
  BY DEF Restart, store, history, IInv
<1>2. ASSUME NEW x \in Requests PROVE Told(x)'
  <2>1. req'[x] = IF InProgress(x) THEN Ended(x) ELSE req[x]
    BY DEF Restart
  <2>2. Tells(req[x])
    BY DEF Truth, Told
  <2>3. req'[x].pc \in {"idle", "done"} /\ req'[x].answer \notin {"sent", "accepted"}
    BY <1>1, <2>1, <2>2, EndedState DEF InProgress, Tells
  <2> QED
    BY <2>3 DEF Told, Tells, Confirmed
<1>3. \A x \in Requests : object'[x].status = "cancelled"
  BY DEF Restart, NoWork
<1> QED
  BY <1>1, <1>2, <1>3 DEF Truth, HonestObjects, HonestRows, Claims

LEMMA InitTruth == Init => Truth
BY DEF Init, Truth, Told, Tells, Confirmed, HonestObjects, HonestRows, Claims, NoRequest, NoWork, NoRow

LEMMA NextTruth ==
  ASSUME IInv, Truth, [Next]_vars
  PROVE  Truth'
<1>1. ASSUME NEW h \in Requests, Advance(h) PROVE Truth'
  <2>1. CASE \/ Resolve(h) \/ Recall(h) \/ Hydrate(h) \/ RequestEmail(h) \/ ApproveEmail(h)
             \/ CancelEmail(h) \/ EditEmail(h) \/ LeaveEmail(h) \/ EscapeEmail(h)
             \/ ApproveInInbox(h) \/ RefuseInInbox(h)
    BY <2>1, FounderTruth
  <2>2. CASE StartVerify(h) \/ NotVerified(h) \/ PersistLease(h) \/ CheckConnection(h) \/ CallProvider(h)
    BY <2>2, StartVerifyTruth, NotVerifiedTruth, PersistLeaseTruth, CheckTruth, CallProviderTruth
  <2>3. CASE SettleSent(h) \/ SettleAccepted(h) \/ SettleFailed(h) \/ Verified(h)
    BY <2>3, SettleTruth, CheckTruth
  <2>4. CASE Persist(h) \/ CompleteWork(h) \/ Reply(h) \/ StartNew(h) \/ CancelOld(h) \/ Forget(h)
    BY <2>4, PersistTruth, CompleteTruth, QuietTruth
  <2> QED
    BY <1>1, <2>1, <2>2, <2>3, <2>4 DEF Advance
<1>2. CASE UNCHANGED vars
  BY <1>2 DEF vars, session, store, history, Truth, Told, Tells, Confirmed, Draft, HonestObjects, HonestRows
<1> QED
  BY <1>1, <1>2, BeginTruth, QuietTruth, RestartTruth DEF Next

\* "Never fakes success" (sendPendingEmail, verifyAcceptedEmailSend): as long
\* as the inbox does not overlap another request, the session, the rows and
\* the answers call a draft sent or accepted only if the provider took it.
THEOREM SuccessIsNeverFaked == Spec => []NeverFakesSuccess
<1>1. IInv /\ Truth => NeverFakesSuccess
  BY DEF Truth, Told, Confirmed, HonestObjects, HonestRows, Claims, NeverFakesSuccess
<1> QED
  BY <1>1, InitTruth, NextTruth, Inductive, PTL DEF Spec
=============================================================================
