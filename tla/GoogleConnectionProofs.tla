------------------------ MODULE GoogleConnectionProofs ------------------------
(***************************************************************************)
(* Proofs about GoogleConnection, for any number of overlapping requests,  *)
(* tools and nonces, and any number of failing store calls and restarts.   *)
(*                                                                         *)
(* What may be called connected rests on the token row: every copy of it   *)
(* that somebody holds across an await keeps its promise because proofs    *)
(* and statuses only accumulate (Grows).  What leaves "connecting" rests   *)
(* on the nonces: each is offered once, so that a connection that was      *)
(* replaced, or closed, never comes back under the nonce of a callback     *)
(* that is still running (Fresh, Shut).  The reaper and the reconciliation *)
(* keep a list of what they have not looked at yet (Pending, Alone).       *)
(***************************************************************************)
EXTENDS GoogleConnection, TLAPS

-----------------------------------------------------------------------------
(* The inductive invariant, in parts.                                      *)

\* Tools that the durable statuses know.

Known == {t \in Tools : tools[t] # "none"}

\* A token row, or a copy of it: what it certifies was probed, beside a
\* refresh token if it has one.
RowInv(r) ==
  /\ r.refresh => r.caps \subseteq proven
  /\ r.caps \subseteq Known
  /\ r.caps \subseteq Vouched

\* A callback past the look at its handshake; one that has closed it, or
\* whose connection has been replaced.
LetIn(q) == q.kind = "callback" /\ q.pc \notin {"session", "ready"}

Shut(q) == LetIn(q) /\ (q.pc \in {"settle", "fail"} \/ ~q.attached)

\* What a request carries across its awaits.
CallInv(q) ==
  /\ RowInv(q.held)
  /\ q.certified => q.tool \in proven
  /\ q.kind \in {"connect", "callback"} => q.tool \in Tools
  /\ q.kind = "connect" /\ q.pc = "save" =>
       /\ q.nonce \in Nonces /\ nonces[q.nonce].life # "unborn"
       /\ nonces[q.nonce].tool = q.tool
  /\ q.kind = "callback" =>
       /\ q.nonce \in Nonces /\ nonces[q.nonce].life # "unborn"
       /\ nonces[q.nonce].code # "none" /\ q.tool \in Known
  /\ Shut(q) => conn[q.tool].nonce # q.nonce

\* A nonce belongs to a tool, and a consent to one whose status was stored.
StateInv(s) ==
  /\ nonces[s].code # "none" => nonces[s].life # "unborn"
  /\ nonces[s].life # "unborn" => nonces[s].tool \in Tools
  /\ nonces[s].code # "none" => nonces[s].tool \in Known

\* A connection, and the durable status beside it.
ConnInv(t) ==
  /\ tools[t] = "connected" => t \in proven
  /\ conn[t].status = "connected" => t \in proven /\ t \in Known
  /\ conn[t].certified => t \in proven
  /\ conn[t].nonce # None => nonces[conn[t].nonce].life # "unborn"
  /\ Connecting(t) => conn[t].nonce # None

Callers == \A c \in Calls : CallInv(calls[c])

Offered == \A s \in Nonces : StateInv(s)

Backed == \A t \in Tools : ConnInv(t)

\* The rows, and the proofs that were drawn from them.
Evidence ==
  /\ RowInv(row)
  /\ RowInv(hyd.held)
  /\ proven \subseteq Vouched

\* The hydration remembers the nonces that were dead when it began, and has
\* still to look at every handshake that is open on one of them.
DeadStay == \A s \in hyd.dead : Dead(s)

Pending ==
  \A t \in Reaped :
    Connecting(t) /\ conn[t].nonce \in hyd.dead =>
      \/ hyd.step \in {"records", "summaries", "upserts"}
      \/ t \in hyd.todo
      \/ hyd.step = "nonce" /\ hyd.tool = t /\ hyd.nonce = conn[t].nonce

\* What the hydration of a lonely request has still to correct.
Alone ==
  hyd.alone =>
    /\ \A c \in Calls : calls[c].pc \in {"-", "session"}
    /\ hyd.step = "summaries" =>
         \A t \in Tools : conn[t].status = "connected" => t \in hyd.known
    /\ hyd.step = "upserts" =>
         \A t \in Tools :
           /\ Operational(hyd.held, t) => Operational(row, t)
           /\ conn[t].status = "connected" => t \in hyd.todo \/ Operational(row, t)
    /\ hyd.step \in {"reap", "nonce", "close"} =>
         \A t \in Tools : conn[t].status = "connected" => Operational(row, t)

Base == TypeOK /\ Callers /\ Offered /\ Backed /\ Evidence

-----------------------------------------------------------------------------
(* Types.                                                                  *)

\* The fields of a request.
LEMMA CallFields ==
  ASSUME TypeOK, NEW c \in Calls
  PROVE  /\ calls[c] \in CallStates
         /\ calls[c].kind \in Kinds /\ calls[c].pc \in Steps
         /\ calls[c].tool \in Tools \cup {None}
         /\ calls[c].nonce \in Nonces \cup {None}
         /\ calls[c].attached \in BOOLEAN /\ calls[c].certified \in BOOLEAN
         /\ calls[c].held \in Rows /\ calls[c].todo \in SUBSET Tools
BY DEF TypeOK, CallStates

\* No row is a row.
LEMMA NoRowTyped == NoRow \in Rows
BY DEF NoRow, Rows

\* An empty slot is typed.
LEMMA IdleTyped == Idle \in CallStates
BY NoRowTyped DEF Idle, CallStates, Kinds, Steps

\* A request that moves on is typed.
LEMMA MovedTyped ==
  ASSUME NEW q \in CallStates, NEW pc \in Steps
  PROVE  [q EXCEPT !.pc = pc] \in CallStates
BY DEF CallStates

\* Moving on changes the place of one request.
LEMMA Moved ==
  ASSUME TypeOK, NEW c \in Calls, NEW pc \in Steps, Goes(c, pc)
  PROVE  /\ calls' \in [Calls -> CallStates]
         /\ calls'[c] = [calls[c] EXCEPT !.pc = pc]
         /\ \A d \in Calls : d # c => calls'[d] = calls[d]
<1>1. [calls[c] EXCEPT !.pc = pc] \in CallStates
  BY MovedTyped, CallFields
<1> QED
  BY <1>1 DEF Goes, TypeOK

\* A request that ends empties its slot.
LEMMA Ended ==
  ASSUME TypeOK, NEW c \in Calls, Ends(c)
  PROVE  /\ calls' \in [Calls -> CallStates]
         /\ calls'[c] = Idle
         /\ \A d \in Calls : d # c => calls'[d] = calls[d]
BY IdleTyped DEF Ends, TypeOK

\* The fields of a row.
LEMMA RowFields ==
  ASSUME NEW r \in Rows
  PROVE  /\ r.stored \in BOOLEAN /\ r.access \in Calls \cup {None}
         /\ r.refresh \in BOOLEAN /\ r.fresh \in BOOLEAN
         /\ r.scopes \in SUBSET Tools /\ r.caps \in SUBSET Tools
         /\ r.verified \in BOOLEAN
BY DEF Rows

\* Detaching touches two fields of the requests that held a connection.
LEMMA DetachTypes ==
  ASSUME TypeOK, NEW T \in SUBSET Tools
  PROVE  /\ Detach(T) \in [Calls -> CallStates]
         /\ \A c \in Calls :
              LET d == Detach(T)[c] IN
              /\ d.kind = calls[c].kind /\ d.pc = calls[c].pc
              /\ d.tool = calls[c].tool /\ d.nonce = calls[c].nonce
              /\ d.held = calls[c].held
              /\ d.attached <=> calls[c].attached /\ calls[c].tool \notin T
              /\ \/ d.certified = calls[c].certified
                 \/ /\ calls[c].attached /\ calls[c].tool \in T
                    /\ d.certified = conn[calls[c].tool].certified
<1>1. ASSUME NEW c \in Calls, calls[c].attached, calls[c].tool \in T
      PROVE  /\ Detach(T)[c] \in CallStates
             /\ Detach(T)[c].certified \in {calls[c].certified,
                                             conn[calls[c].tool].certified}
  <2>1. conn[calls[c].tool].certified \in BOOLEAN
    BY <1>1 DEF TypeOK, Connections
  <2>2. PICK v \in BOOLEAN :
          /\ v \in {calls[c].certified, conn[calls[c].tool].certified}
          /\ Detach(T)[c] = [calls[c] EXCEPT !.attached = FALSE, !.certified = v]
    BY <1>1, <2>1, CallFields DEF Detach
  <2> QED
    BY <2>2, CallFields DEF CallStates
<1>2. \A c \in Calls : Detach(T)[c] \in CallStates
  BY <1>1, CallFields DEF Detach
<1> QED
  BY <1>1, <1>2, CallFields DEF Detach, CallStates

\* The fields of a request that arrives.
LEMMA RequestTyped ==
  ASSUME NEW kind \in Kinds, NEW t \in Tools \cup {None},
         NEW s \in Nonces \cup {None}
  PROVE  /\ Request(kind, t, s) \in CallStates
         /\ Request(kind, t, s).kind = kind /\ Request(kind, t, s).pc = "session"
         /\ Request(kind, t, s).tool = t /\ Request(kind, t, s).nonce = s
         /\ Request(kind, t, s).attached = FALSE
         /\ Request(kind, t, s).certified = FALSE
         /\ Request(kind, t, s).held = NoRow
BY NoRowTyped DEF Request, Idle, CallStates, Steps

\* The fields of the hydration.
LEMMA HydFields ==
  ASSUME TypeOK
  PROVE  /\ hyd \in HydStates /\ hyd.known \in SUBSET Tools
         /\ hyd.held \in Rows /\ hyd.todo \in SUBSET Tools
         /\ hyd.tool \in Tools \cup {None} /\ hyd.nonce \in Nonces \cup {None}
         /\ hyd.dead \in SUBSET Nonces /\ hyd.alone \in BOOLEAN
BY DEF TypeOK, HydStates

\* No hydration is typed.
LEMMA NoHydrationTyped == NoHydration \in HydStates
BY NoRowTyped DEF NoHydration, HydStates

\* The start of the reaper is typed.
LEMMA ReapingTyped ==
  ASSUME TypeOK
  PROVE  Reaping \in HydStates
BY HydFields, NoRowTyped, SetsAssumption DEF Reaping, HydStates

\* Arriving keeps the types.
LEMMA EnterTypes ==
  ASSUME TypeOK, NEW c \in Calls, NEW request \in CallStates,
         Enter(c, request)
  PROVE  TypeOK'
<1>1. calls' \in [Calls -> CallStates]
  BY DEF Enter, TypeOK
<1>2. hyd' \in HydStates
  <2>1. [NoHydration EXCEPT
           !.step = "records", !.dead = {s \in Nonces : Dead(s)},
           !.alone = \A d \in Calls : calls[d] = Idle] \in HydStates
    BY NoHydrationTyped DEF HydStates
  <2>2. [hyd EXCEPT !.alone = FALSE] \in HydStates
    BY HydFields DEF HydStates
  <2> QED
    BY <2>1, <2>2 DEF Enter
<1> QED
  BY <1>1, <1>2 DEF Enter, TypeOK

\* The end of a hydration moves or ends those who wait for it.
LEMMA ReleasedTypes ==
  ASSUME TypeOK, NEW ok \in BOOLEAN
  PROVE  /\ Released(ok) \in [Calls -> CallStates]
         /\ \A c \in Calls :
              \/ Released(ok)[c] = calls[c]
              \/ calls[c].pc = "session" /\ Released(ok)[c] = Idle
              \/ /\ calls[c].pc = "session"
                 /\ Released(ok)[c] = [calls[c] EXCEPT !.pc = "ready"]
<1>1. \A c \in Calls : [calls[c] EXCEPT !.pc = "ready"] \in CallStates
  BY MovedTyped, CallFields DEF Steps
<1> QED
  BY <1>1, IdleTyped, CallFields DEF Released

\* Counting a failure.
LEMMA FailsTyped ==
  ASSUME TypeOK, Fails
  PROVE  failures' \in 0..MaxFailures
BY BoundsAssumption DEF Fails, TypeOK

\* Connections without a handshake are typed.
LEMMA PlainTyped ==
  ASSUME NEW status \in Statuses, NEW certified \in BOOLEAN
  PROVE  Plain(status, certified) \in Connections
BY DEF Plain, Connections

\* The terminal connection is typed.
LEMMA TerminalTyped == Terminal \in Connections
BY PlainTyped DEF Terminal, Statuses

\* A projection is typed.
LEMMA ProjectionTyped ==
  ASSUME NEW status
  PROVE  Projection(status) \in Connections
BY PlainTyped DEF Projection, Statuses

\* Writing the connection that is held.
LEMMA HoldsTyped ==
  ASSUME TypeOK, NEW c \in Calls, NEW connection \in Connections,
         Holds(c, connection)
  PROVE  conn' \in [Tools -> Connections]
BY DEF Holds, TypeOK

\* A lifecycle is stored as one of two statuses.
LEMMA LifecycleTyped ==
  ASSUME NEW certified
  PROVE  Lifecycle(certified) \in {"needs_connection", "connected"}
BY DEF Lifecycle

\* Storing a status.
LEMMA PersistsTyped ==
  ASSUME TypeOK, NEW c \in Calls,
         NEW status \in {"needs_connection", "connected"}, Persists(c, status)
  PROVE  /\ tools' \in [Tools -> {"none", "needs_connection", "connected"}]
         /\ \A t \in Tools : tools[t] # "none" => tools'[t] # "none"
         /\ \A t \in Tools : tools'[t] \in {tools[t], status}
         /\ calls[c].tool \in Tools => tools'[calls[c].tool] = status
BY DEF Persists, TypeOK

\* The catch block keeps the types.
LEMMA RefusedTypes ==
  ASSUME TypeOK, NEW c \in Calls, Refused(c)
  PROVE  /\ calls' \in [Calls -> CallStates]
         /\ conn' \in [Tools -> Connections]
<1>1. Goes(c, "fail") /\ Holds(c, Terminal)
  BY DEF Refused
<1>2. "fail" \in Steps
  BY DEF Steps
<1> QED
  BY <1>1, <1>2, Moved, HoldsTyped, TerminalTyped

\* Every step keeps the types.
LEMMA TypeStep ==
  ASSUME TypeOK, Callers, [Next]_vars
  PROVE  TypeOK'
<1>1. CASE HydRecords
  <2> DEFINE known == {t \in Tools : tools[t] # "none"}
              built == {t \in known : ~Connecting(t)}
  <2>1. conn' \in [Tools -> Connections]
    BY <1>1, ProjectionTyped DEF HydRecords, TypeOK
  <2>2. calls' \in [Calls -> CallStates]
    BY <1>1, DetachTypes DEF HydRecords
  <2>3. hyd' = [hyd EXCEPT !.step = "summaries", !.known = known]
    BY <1>1 DEF HydRecords
  <2>4. hyd' \in HydStates
    BY <2>3, HydFields DEF HydStates
  <2> QED
    BY <1>1, <2>1, <2>2, <2>4 DEF HydRecords, TypeOK
<1>2. CASE HydSummaries
  <2>1. PICK W \in SUBSET Tools :
          hyd' = IF W = {} THEN Reaping
                 ELSE [hyd EXCEPT !.step = "upserts", !.held = row,
                                  !.known = {}, !.todo = W]
    BY <1>2 DEF HydSummaries
  <2>2. hyd' \in HydStates
    BY <2>1, HydFields, ReapingTyped DEF HydStates, TypeOK
  <2> QED
    BY <1>2, <2>2 DEF HydSummaries, TypeOK
<1>3. CASE HydNonce
  <2>1. conn' \in [Tools -> Connections]
    BY <1>3, TerminalTyped DEF HydNonce, TypeOK
  <2>2. hyd' \in HydStates
    BY <1>3, HydFields, ZenonT(60) DEF HydNonce, HydStates
  <2>3. failures' \in 0..MaxFailures
    BY <1>3, FailsTyped DEF HydNonce, TypeOK
  <2> QED
    BY <1>3, <2>1, <2>2, <2>3 DEF HydNonce, TypeOK
<1>4. CASE HydClose
  <2>1. hyd' \in HydStates
    BY <1>4, HydFields DEF HydClose, HydStates
  <2>2. tools' \in [Tools -> {"none", "needs_connection", "connected"}]
    BY <1>4 DEF HydClose, TypeOK
  <2> QED
    BY <1>4, <2>1, <2>2 DEF HydClose, TypeOK
<1>5. CASE HydEnds
  BY <1>5, ReleasedTypes, NoHydrationTyped DEF HydEnds, TypeOK
<1>6. CASE HydFails
  BY <1>6, ReleasedTypes, NoHydrationTyped, FailsTyped DEF HydFails, TypeOK
<1>7. ASSUME NEW t \in Tools, HydUpsert(t)
       PROVE  TypeOK'
  <2> DEFINE status == Lifecycle(Operational(hyd.held, t))
  <2>1. tools' \in [Tools -> {"none", "needs_connection", "connected"}]
    BY <1>7, LifecycleTyped DEF HydUpsert, TypeOK
  <2>2. failures' \in 0..MaxFailures
    BY <1>7, FailsTyped DEF HydUpsert, TypeOK
  <2>3. conn' \in [Tools -> Connections]
    BY <1>7, ProjectionTyped DEF HydUpsert, TypeOK
  <2>4. calls' \in [Calls -> CallStates]
    BY <1>7, DetachTypes DEF HydUpsert
  <2>5. hyd' \in HydStates
    <3>1. [hyd EXCEPT !.todo = @ \ {t}] \in HydStates
      BY HydFields DEF HydStates
    <3> QED
      BY <1>7, <3>1, ReapingTyped DEF HydUpsert
  <2> QED
    BY <1>7, <2>1, <2>2, <2>3, <2>4, <2>5 DEF HydUpsert, TypeOK
<1>8. ASSUME NEW t \in Tools, HydReap(t)
       PROVE  TypeOK'
  <2>1. conn[t].nonce \in Nonces \cup {None}
    BY <1>8 DEF TypeOK, Connections
  <2>2. hyd' \in HydStates
    BY <1>8, <2>1, HydFields, ZenonT(60) DEF HydReap, HydStates
  <2> QED
    BY <1>8, <2>2 DEF HydReap, TypeOK
<1>9. ASSUME NEW c \in Calls, View(c)
       PROVE  TypeOK'
  <2>1. Request("view", None, None) \in CallStates
    BY RequestTyped DEF Kinds
  <2> QED
    BY <1>9, <2>1, EnterTypes DEF View
<1>10. ASSUME NEW c \in Calls, StartDisconnect(c)
       PROVE  TypeOK'
  <2>1. Request("disconnect", None, None) \in CallStates
    BY RequestTyped DEF Kinds
  <2> QED
    BY <1>10, <2>1, EnterTypes DEF StartDisconnect
<1>11. ASSUME NEW c \in Calls, RefreshReads(c)
       PROVE  TypeOK'
  <2>1. [Idle EXCEPT !.kind = "refresh", !.pc = "refreshing",
                       !.held = row] \in CallStates
    BY IdleTyped DEF CallStates, Kinds, Steps, TypeOK
  <2>2. hyd' \in HydStates
    BY <1>11, HydFields DEF RefreshReads, HydStates
  <2> QED
    BY <1>11, <2>1, <2>2 DEF RefreshReads, TypeOK
<1>12. ASSUME NEW c \in Calls, NEW t \in Tools, StartConnect(c, t)
       PROVE  TypeOK'
  <2>1. Request("connect", t, None) \in CallStates
    BY RequestTyped DEF Kinds
  <2> QED
    BY <1>12, <2>1, EnterTypes DEF StartConnect
<1>13. ASSUME NEW c \in Calls, NEW s \in Nonces, StartCallback(c, s)
       PROVE  TypeOK'
  <2>1. nonces[s].tool \in Tools \cup {None} /\ "callback" \in Kinds
    BY DEF TypeOK, States, Kinds
  <2>2. Request("callback", nonces[s].tool, s) \in CallStates
    BY <2>1, RequestTyped
  <2> QED
    BY <1>13, <2>2, EnterTypes DEF StartCallback
<1>14. ASSUME NEW c \in Calls, ConnectReady(c)
       PROVE  TypeOK'
  <2>1. [calls[c] EXCEPT !.pc = "offer", !.attached = TRUE] \in CallStates
    BY CallFields DEF CallStates, Steps
  <2>2. Plain("not_connected", FALSE) \in Connections
    BY PlainTyped DEF Statuses
  <2> QED
    BY <1>14, <2>1, <2>2 DEF ConnectReady, TypeOK
<1>15. ASSUME NEW c \in Calls, ConnectSave(c)
       PROVE  TypeOK'
  <2>1. nonces' \in [Nonces -> States]
    BY <1>15, ZenonT(60) DEF ConnectSave, TypeOK, States
  <2> QED
    BY <1>15, <2>1, PersistsTyped, LifecycleTyped, Ended
    DEF ConnectSave, TypeOK
<1>16. ASSUME NEW c \in Calls, ConnectFails(c)
       PROVE  TypeOK'
  BY <1>16, Ended, FailsTyped DEF ConnectFails, TypeOK
<1>17. ASSUME NEW c \in Calls, CallbackReady(c)
       PROVE  TypeOK'
  <2>1. [calls[c] EXCEPT !.pc = "validate", !.attached = TRUE] \in CallStates
    BY CallFields DEF CallStates, Steps
  <2>2. calls' \in [Calls -> CallStates]
    BY <1>17, <2>1, Ended DEF CallbackReady, TypeOK
  <2> QED
    BY <1>17, <2>2 DEF CallbackReady, TypeOK
<1>18. ASSUME NEW c \in Calls, CallbackValidate(c)
       PROVE  TypeOK'
  BY <1>18, Moved, RefusedTypes DEF CallbackValidate, TypeOK, Steps
<1>19. ASSUME NEW c \in Calls, CallbackConsume(c)
       PROVE  TypeOK'
  <2> DEFINE s == calls[c].nonce
  <2> DEFINE life == IF nonces[s].life = "gone" THEN "gone" ELSE "used"
  <2>2. nonces' = nonces
          \/ nonces' = [nonces EXCEPT ![s] = [nonces[s] EXCEPT !.life = life]]
    BY <1>19, Zenon DEF CallbackConsume
  <2>3. \A q \in States : [q EXCEPT !.life = life] \in States
    BY DEF States
  <2> HIDE DEF s, life
  <2>1. nonces' \in [Nonces -> States]
    BY <2>2, <2>3 DEF TypeOK
  <2>4. failures' \in 0..MaxFailures
    BY <1>19, FailsTyped DEF CallbackConsume, TypeOK
  <2>5. calls' \in [Calls -> CallStates]
    BY <1>19, Moved DEF CallbackConsume, Steps
  <2> QED
    BY <1>19, <2>1, <2>4, <2>5 DEF CallbackConsume, TypeOK
<1>20. ASSUME NEW c \in Calls, CallbackRefused(c)
       PROVE  TypeOK'
  <2>1. nonces' \in [Nonces -> States]
    BY <1>20 DEF CallbackRefused, TypeOK, States
  <2> QED
    BY <1>20, <2>1, RefusedTypes DEF CallbackRefused, TypeOK
<1>21. ASSUME NEW c \in Calls, CallbackPrevious(c)
       PROVE  TypeOK'
  <2>1. [calls[c] EXCEPT !.pc = "put", !.held = row] \in CallStates
    BY CallFields, ZenonT(60) DEF CallStates, Steps, TypeOK
  <2> QED
    BY <1>21, <2>1 DEF CallbackPrevious, TypeOK
<1>22. ASSUME NEW c \in Calls, CallbackReread(c)
       PROVE  TypeOK'
  <2>1. Plain("connected", TRUE) \in Connections
    BY PlainTyped DEF Statuses
  <2>2. conn' \in [Tools -> Connections]
    BY <1>22, <2>1, HoldsTyped, TerminalTyped, RefusedTypes DEF CallbackReread
  <2> QED
    BY <1>22, <2>2, Moved, RefusedTypes DEF CallbackReread, TypeOK, Steps
<1>23. ASSUME NEW c \in Calls, CallbackSettle(c)
       PROVE  TypeOK'
  BY <1>23, PersistsTyped, LifecycleTyped, Ended DEF CallbackSettle, TypeOK
<1>24. ASSUME NEW c \in Calls, CallbackFail(c)
       PROVE  TypeOK'
  BY <1>24, PersistsTyped, Ended DEF CallbackFail, TypeOK
<1>25. ASSUME NEW c \in Calls, CallbackThrows(c)
       PROVE  TypeOK'
  BY <1>25, RefusedTypes, Ended, FailsTyped DEF CallbackThrows, TypeOK
<1>26. ASSUME NEW c \in Calls, DisconnectReady(c)
       PROVE  TypeOK'
  BY <1>26, Moved, Ended DEF DisconnectReady, TypeOK, Steps
<1>27. ASSUME NEW c \in Calls, DisconnectRemove(c)
       PROVE  TypeOK'
  <2>1. [calls[c] EXCEPT !.pc = "reset", !.todo = Tools] \in CallStates
    BY CallFields DEF CallStates, Steps
  <2> QED
    BY <1>27, <2>1, NoRowTyped DEF DisconnectRemove, TypeOK
<1>28. ASSUME NEW c \in Calls, DisconnectEnds(c)
       PROVE  TypeOK'
  BY <1>28, Ended, FailsTyped DEF DisconnectEnds, TypeOK
<1>29. ASSUME NEW c \in Calls, DisconnectThrows(c)
       PROVE  TypeOK'
  BY <1>29, Ended, FailsTyped DEF DisconnectThrows, TypeOK
<1>30. ASSUME NEW c \in Calls, RefreshFails(c)
       PROVE  TypeOK'
  BY <1>30, Ended, FailsTyped DEF RefreshFails, TypeOK
<1>31. ASSUME NEW c \in Calls, CallbackExchange(c)
       PROVE  TypeOK'
  <2>1. [nonces[calls[c].nonce] EXCEPT !.code = "redeemed"] \in States
          \/ calls[c].nonce \notin Nonces
    BY DEF TypeOK, States
  <2>2. nonces' \in [Nonces -> States]
    BY <1>31, <2>1 DEF CallbackExchange, TypeOK
  <2> QED
    BY <1>31, <2>2, Moved DEF CallbackExchange, TypeOK, Steps
<1>32. ASSUME NEW c \in Calls, NEW s \in Nonces, ConnectOffer(c, s)
       PROVE  TypeOK'
  <2> DEFINE kept == IF calls[c].attached THEN conn[calls[c].tool].certified
                                          ELSE calls[c].certified
  <2>0. calls[c].tool \in Tools
    BY <1>32 DEF ConnectOffer, At, Callers, CallInv
  <2>1. kept \in BOOLEAN
    BY <2>0, CallFields DEF TypeOK, Connections
  <2>2. [calls[c] EXCEPT !.pc = "save", !.nonce = s, !.certified = kept]
          \in CallStates
    BY <2>1, CallFields DEF CallStates, Steps
  <2>3. [status |-> "connecting", nonce |-> s, certified |-> kept] \in Connections
    BY <2>1 DEF Connections, Statuses
  <2>4. [life |-> "live", tool |-> calls[c].tool, code |-> "none"] \in States
    BY <2>0 DEF States
  <2> QED
    BY <1>32, <2>2, <2>3, <2>4, HoldsTyped DEF ConnectOffer, TypeOK
<1>33. ASSUME NEW c \in Calls, NEW gave \in BOOLEAN, NEW probed \in BOOLEAN,
              NEW granted \in SUBSET {calls[c].tool},
              CallbackPut(c, gave, granted, probed)
       PROVE  TypeOK'
  <2> DEFINE merged == Merge(calls[c].held, calls[c].tool, c,
                                  gave, granted, probed)
  <2>0. merged \in Rows
    BY <1>33, CallFields, RowFields
    DEF CallbackPut, At, Callers, CallInv, Merge, Rows
  <2>3. (probed /\ merged.refresh) \in BOOLEAN
    BY <2>0, RowFields
  <2>4. \A b \in BOOLEAN : [calls[c] EXCEPT !.pc = "reread", !.held = NoRow,
                               !.certified = b] \in CallStates
    BY CallFields, NoRowTyped, ZenonT(60) DEF CallStates, Steps
  <2>1. [calls[c] EXCEPT !.pc = "reread", !.held = NoRow,
           !.certified = probed /\ merged.refresh] \in CallStates
    BY <2>3, <2>4
  <2>2. proven' \subseteq Tools
    BY <1>33, <2>0 DEF CallbackPut, TypeOK, Rows
  <2>5. calls[c].tool \in Tools
    BY <1>33 DEF CallbackPut, At, Callers, CallInv
  <2>6. <<calls[c].tool, ProbedApi(calls[c].tool, merged.scopes)>>
          \in Tools \X {"own", "other"}
    BY <2>5 DEF ProbedApi
  <2>7. probes' \subseteq Tools \X {"own", "other"}
    BY <1>33, <2>6 DEF CallbackPut, TypeOK
  <2> QED
    BY <1>33, <2>0, <2>1, <2>2, <2>7 DEF CallbackPut, TypeOK
<1>34. ASSUME NEW c \in Calls, NEW gmail \in BOOLEAN, RefreshStores(c, gmail)
       PROVE  TypeOK'
  <2>1. Refreshed(calls[c].held, c, gmail) \in Rows
    BY CallFields, RowFields DEF Refreshed, Rows
  <2> QED
    BY <1>34, <2>1, Ended DEF RefreshStores, TypeOK
<1>35. ASSUME NEW c \in Calls, NEW t \in Tools, DisconnectReset(c, t)
       PROVE  TypeOK'
  <2>1. [calls[c] EXCEPT !.todo = @ \ {t}] \in CallStates
    BY CallFields DEF CallStates
  <2> QED
    BY <1>35, <2>1 DEF DisconnectReset, TypeOK
<1>36. ASSUME NEW s \in Nonces, NonceExpires(s)
       PROVE  TypeOK'
  BY <1>36 DEF NonceExpires, TypeOK, States
<1>37. CASE AccessExpires
  <2>1. [row EXCEPT !.fresh = FALSE] \in Rows
    BY DEF TypeOK, Rows
  <2> QED
    BY <1>37, <2>1 DEF AccessExpires, TypeOK
<1>38. CASE Restart
  <2>1. Plain("absent", FALSE) \in Connections
    BY PlainTyped DEF Statuses
  <2>2. conn' \in [Tools -> Connections]
    BY <1>38, <2>1 DEF Restart
  <2>3. calls' \in [Calls -> CallStates] /\ hyd' \in HydStates
    BY <1>38, IdleTyped, NoHydrationTyped DEF Restart
  <2>4. restarts' \in 0..MaxRestarts
    BY <1>38, BoundsAssumption DEF Restart, TypeOK
  <2> QED
    BY <1>38, <2>2, <2>3, <2>4 DEF Restart, TypeOK
<1>39. CASE UNCHANGED vars
  BY <1>39 DEF vars, TypeOK
<1> QED
  BY <1>1, <1>2, <1>3, <1>4, <1>5, <1>6, <1>7, <1>8, <1>9, <1>10, <1>11,
     <1>12, <1>13, <1>14, <1>15, <1>16, <1>17, <1>18, <1>19, <1>20, <1>21,
     <1>22, <1>23, <1>24, <1>25, <1>26, <1>27, <1>28, <1>29, <1>30, <1>31,
     <1>32, <1>33, <1>34, <1>35, <1>36, <1>37, <1>38, <1>39
     DEF Next, Hydrate, Arrive, Advance

-----------------------------------------------------------------------------
(* What only grows, and what is fresh.                                     *)

\* Nothing is forgotten: proofs, statuses and nonces only get more.
Grows ==
  /\ proven \subseteq proven'
  /\ Vouched \subseteq Vouched'
  /\ \A t \in Tools : tools[t] # "none" => tools'[t] # "none"
  /\ \A s \in Nonces :
       /\ nonces[s].life # "unborn" =>
            nonces'[s].life # "unborn" /\ nonces'[s].tool = nonces[s].tool
       /\ nonces[s].code # "none" => nonces'[s].code # "none"
       /\ Dead(s) => Dead(s)'

\* The fields of a nonce.
LEMMA NonceFields ==
  ASSUME TypeOK, NEW s \in Nonces
  PROVE  /\ nonces[s].life \in {"unborn", "live", "used", "gone"}
         /\ nonces[s].code \in {"none", "offered", "redeemed"}
         /\ nonces[s].tool \in Tools \cup {None}
BY DEF TypeOK, States

\* Every step lets proofs, statuses and nonces only accumulate.
LEMMA GrowsStep ==
  ASSUME TypeOK, Offered, [Next]_vars
  PROVE  Grows
<1>1. CASE HydRecords
  BY <1>1 DEF HydRecords, Grows, Vouched, TypeOK, Dead
<1>2. CASE HydSummaries
  BY <1>2 DEF HydSummaries, Grows, Vouched, TypeOK, Dead
<1>3. CASE HydNonce
  BY <1>3 DEF HydNonce, Grows, Vouched, TypeOK, Dead
<1>4. CASE HydClose
  BY <1>4 DEF HydClose, Grows, Vouched, TypeOK, Dead
<1>5. CASE HydEnds
  BY <1>5 DEF HydEnds, Grows, Vouched, TypeOK, Dead
<1>6. CASE HydFails
  BY <1>6 DEF HydFails, Grows, Vouched, TypeOK, Dead
<1>7. ASSUME NEW t \in Tools, HydUpsert(t)
       PROVE  Grows
  BY <1>7, LifecycleTyped DEF HydUpsert, Grows, Vouched, TypeOK, Dead
<1>8. ASSUME NEW t \in Tools, HydReap(t)
       PROVE  Grows
  BY <1>8 DEF HydReap, Grows, Vouched, TypeOK, Dead
<1>9. ASSUME NEW c \in Calls, View(c)
       PROVE  Grows
  BY <1>9 DEF View, Enter, Grows, Vouched, Dead
<1>10. ASSUME NEW c \in Calls, StartDisconnect(c)
       PROVE  Grows
  BY <1>10 DEF StartDisconnect, Enter, Grows, Vouched, Dead
<1>11. ASSUME NEW c \in Calls, RefreshReads(c)
       PROVE  Grows
  BY <1>11 DEF RefreshReads, Grows, Vouched, TypeOK, Dead
<1>12. ASSUME NEW c \in Calls, NEW t \in Tools, StartConnect(c, t)
       PROVE  Grows
  BY <1>12 DEF StartConnect, Enter, Grows, Vouched, Dead
<1>13. ASSUME NEW c \in Calls, NEW s \in Nonces, StartCallback(c, s)
       PROVE  Grows
  BY <1>13 DEF StartCallback, Enter, Grows, Vouched, Dead
<1>14. ASSUME NEW c \in Calls, ConnectReady(c)
       PROVE  Grows
  BY <1>14 DEF ConnectReady, Grows, Vouched, TypeOK, Dead
<1>15. ASSUME NEW c \in Calls, ConnectSave(c)
       PROVE  Grows
  BY <1>15, PersistsTyped, LifecycleTyped, NonceFields
  DEF ConnectSave, Grows, Vouched, TypeOK, Dead
<1>16. ASSUME NEW c \in Calls, ConnectFails(c)
       PROVE  Grows
  BY <1>16 DEF ConnectFails, Grows, Vouched, TypeOK, Dead
<1>17. ASSUME NEW c \in Calls, CallbackReady(c)
       PROVE  Grows
  BY <1>17 DEF CallbackReady, Grows, Vouched, TypeOK, Dead
<1>18. ASSUME NEW c \in Calls, CallbackValidate(c)
       PROVE  Grows
  BY <1>18 DEF CallbackValidate, Grows, Vouched, TypeOK, Dead
<1>19. ASSUME NEW c \in Calls, CallbackConsume(c)
       PROVE  Grows
  <2>1. \A s \in Nonces : /\ nonces'[s].life \in {nonces[s].life, "used", "gone"}
                          /\ nonces'[s].life # nonces[s].life =>
                               s = calls[c].nonce /\ nonces'[s].life # "unborn"
                          /\ nonces'[s].tool = nonces[s].tool
                          /\ nonces'[s].code = nonces[s].code
                          /\ Dead(s) => nonces'[s].life \in {"used", "gone"}
    BY <1>19, NonceFields DEF CallbackConsume, TypeOK, States, Dead
  <2>2. UNCHANGED <<proven, probes, tools>>
    BY <1>19 DEF CallbackConsume
  <2> QED
    BY <2>1, <2>2 DEF Grows, Vouched, Dead
<1>20. ASSUME NEW c \in Calls, CallbackRefused(c)
       PROVE  Grows
  <2>1. UNCHANGED <<proven, probes, tools>>
    BY <1>20 DEF CallbackRefused
  <2>2. \A s \in Nonces : nonces'[s].life = nonces[s].life
                            /\ nonces'[s].tool = nonces[s].tool
                            /\ nonces'[s].code \in {nonces[s].code, "redeemed"}
    BY <1>20, NonceFields DEF CallbackRefused, TypeOK, States
  <2> QED
    BY <2>1, <2>2 DEF Grows, Vouched, Dead
<1>21. ASSUME NEW c \in Calls, CallbackPrevious(c)
       PROVE  Grows
  BY <1>21 DEF CallbackPrevious, Grows, Vouched, TypeOK, Dead
<1>22. ASSUME NEW c \in Calls, CallbackReread(c)
       PROVE  Grows
  BY <1>22 DEF CallbackReread, Grows, Vouched, TypeOK, Dead
<1>23. ASSUME NEW c \in Calls, CallbackSettle(c)
       PROVE  Grows
  BY <1>23, PersistsTyped, LifecycleTyped DEF CallbackSettle, Grows, Vouched, Dead
<1>24. ASSUME NEW c \in Calls, CallbackFail(c)
       PROVE  Grows
  BY <1>24, PersistsTyped, LifecycleTyped DEF CallbackFail, Grows, Vouched, Dead
<1>25. ASSUME NEW c \in Calls, CallbackThrows(c)
       PROVE  Grows
  BY <1>25 DEF CallbackThrows, Grows, Vouched, TypeOK, Dead
<1>26. ASSUME NEW c \in Calls, DisconnectReady(c)
       PROVE  Grows
  BY <1>26 DEF DisconnectReady, Grows, Vouched, TypeOK, Dead
<1>27. ASSUME NEW c \in Calls, DisconnectRemove(c)
       PROVE  Grows
  BY <1>27 DEF DisconnectRemove, Grows, Vouched, TypeOK, Dead
<1>28. ASSUME NEW c \in Calls, DisconnectEnds(c)
       PROVE  Grows
  BY <1>28 DEF DisconnectEnds, Grows, Vouched, TypeOK, Dead
<1>29. ASSUME NEW c \in Calls, DisconnectThrows(c)
       PROVE  Grows
  BY <1>29 DEF DisconnectThrows, Grows, Vouched, TypeOK, Dead
<1>30. ASSUME NEW c \in Calls, RefreshFails(c)
       PROVE  Grows
  BY <1>30 DEF RefreshFails, Grows, Vouched, TypeOK, Dead
<1>31. ASSUME NEW c \in Calls, CallbackExchange(c)
       PROVE  Grows
  BY <1>31, NonceFields DEF CallbackExchange, Grows, Vouched, TypeOK, Dead
<1>32. ASSUME NEW c \in Calls, NEW s \in Nonces, ConnectOffer(c, s)
       PROVE  Grows
  BY <1>32, NonceFields
  DEF ConnectOffer, Grows, Vouched, TypeOK, Dead, Offered, StateInv
<1>33. ASSUME NEW c \in Calls, NEW gave \in BOOLEAN, NEW probed \in BOOLEAN,
              NEW granted \in SUBSET {calls[c].tool},
              CallbackPut(c, gave, granted, probed)
       PROVE  Grows
  BY <1>33 DEF CallbackPut, Grows, Vouched, TypeOK, Dead
<1>34. ASSUME NEW c \in Calls, NEW gmail \in BOOLEAN, RefreshStores(c, gmail)
       PROVE  Grows
  BY <1>34 DEF RefreshStores, Grows, Vouched, TypeOK, Dead
<1>35. ASSUME NEW c \in Calls, NEW t \in Tools, DisconnectReset(c, t)
       PROVE  Grows
  BY <1>35 DEF DisconnectReset, Grows, Vouched, TypeOK, Dead
<1>36. ASSUME NEW s \in Nonces, NonceExpires(s)
       PROVE  Grows
  BY <1>36, NonceFields DEF NonceExpires, Grows, Vouched, TypeOK, Dead
<1>37. CASE AccessExpires
  BY <1>37 DEF AccessExpires, Grows, Vouched, TypeOK, Dead
<1>38. CASE Restart
  BY <1>38 DEF Restart, Grows, Vouched, Dead
<1>39. CASE UNCHANGED vars
  BY <1>39 DEF vars, Grows, Vouched, Dead
<1> QED
  BY <1>1, <1>2, <1>3, <1>4, <1>5, <1>6, <1>7, <1>8, <1>9, <1>10, <1>11,
     <1>12, <1>13, <1>14, <1>15, <1>16, <1>17, <1>18, <1>19, <1>20, <1>21,
     <1>22, <1>23, <1>24, <1>25, <1>26, <1>27, <1>28, <1>29, <1>30, <1>31,
     <1>32, <1>33, <1>34, <1>35, <1>36, <1>37, <1>38, <1>39
     DEF Next, Hydrate, Arrive, Advance

\* A step that opens a handshake does so with a nonce nobody has seen.
Fresh ==
  \A t \in Tools :
    \/ conn'[t] = conn[t]
    \/ conn'[t].nonce = None /\ conn'[t].status # "connecting"
    \/ conn'[t].nonce \in Nonces /\ nonces[conn'[t].nonce].life = "unborn"

\* Connections without a handshake have no nonce.
LEMMA PlainFields ==
  /\ Plain("connected", TRUE).nonce = None
  /\ Plain("connected", TRUE).status = "connected"
  /\ Plain("not_connected", FALSE).nonce = None
  /\ Plain("not_connected", FALSE).status = "not_connected"
  /\ Plain("not_connected", FALSE).certified = FALSE
  /\ Plain("absent", FALSE).nonce = None
  /\ Plain("absent", FALSE).status = "absent"
  /\ Plain("absent", FALSE).certified = FALSE
  /\ Terminal.nonce = None /\ Terminal.status = "blocked"
  /\ Terminal.certified = FALSE
  /\ \A status : /\ Projection(status).nonce = None
                 /\ Projection(status).status # "connecting"
                 /\ Projection(status).status = "connected" => status = "connected"
                 /\ Projection(status).certified = TRUE => status = "connected"
                 /\ Projection(status).certified \in BOOLEAN
BY DEF Terminal, Projection, Plain

\* Writing a connection that is closed, or opened with an unborn nonce.
LEMMA HeldFresh ==
  ASSUME TypeOK, NEW c \in Calls, NEW connection, Holds(c, connection),
         \/ connection.nonce = None /\ connection.status # "connecting"
         \/ /\ connection.nonce \in Nonces
            /\ nonces[connection.nonce].life = "unborn"
  PROVE  Fresh
BY DEF Holds, Fresh, TypeOK

\* Every step opens handshakes with fresh nonces only.
LEMMA FreshStep ==
  ASSUME TypeOK, [Next]_vars
  PROVE  Fresh
<1>1. CASE HydRecords
  BY <1>1, PlainFields DEF HydRecords, Fresh, TypeOK
<1>2. CASE HydSummaries
  BY <1>2 DEF HydSummaries, Fresh
<1>3. CASE HydNonce
  BY <1>3, PlainFields DEF HydNonce, Fresh, TypeOK
<1>4. CASE HydClose
  BY <1>4 DEF HydClose, Fresh
<1>5. CASE HydEnds
  BY <1>5 DEF HydEnds, Fresh
<1>6. CASE HydFails
  BY <1>6 DEF HydFails, Fresh
<1>7. ASSUME NEW t \in Tools, HydUpsert(t)
       PROVE  Fresh
  BY <1>7, PlainFields DEF HydUpsert, Fresh, TypeOK
<1>8. ASSUME NEW t \in Tools, HydReap(t)
       PROVE  Fresh
  BY <1>8 DEF HydReap, Fresh
<1>9. ASSUME NEW c \in Calls, View(c)
       PROVE  Fresh
  BY <1>9 DEF View, Enter, Fresh
<1>10. ASSUME NEW c \in Calls, StartDisconnect(c)
       PROVE  Fresh
  BY <1>10 DEF StartDisconnect, Enter, Fresh
<1>11. ASSUME NEW c \in Calls, RefreshReads(c)
       PROVE  Fresh
  BY <1>11 DEF RefreshReads, Fresh
<1>12. ASSUME NEW c \in Calls, NEW t \in Tools, StartConnect(c, t)
       PROVE  Fresh
  BY <1>12 DEF StartConnect, Enter, Fresh
<1>13. ASSUME NEW c \in Calls, NEW s \in Nonces, StartCallback(c, s)
       PROVE  Fresh
  BY <1>13 DEF StartCallback, Enter, Fresh
<1>14. ASSUME NEW c \in Calls, ConnectReady(c)
       PROVE  Fresh
  <2>1. \/ conn' = conn
        \/ conn' = [conn EXCEPT ![calls[c].tool] = Plain("not_connected", FALSE)]
    BY <1>14 DEF ConnectReady
  <2> QED
    BY <2>1, PlainFields DEF Fresh, TypeOK
<1>15. ASSUME NEW c \in Calls, ConnectSave(c)
       PROVE  Fresh
  BY <1>15 DEF ConnectSave, Fresh
<1>16. ASSUME NEW c \in Calls, ConnectFails(c)
       PROVE  Fresh
  BY <1>16 DEF ConnectFails, Fresh
<1>17. ASSUME NEW c \in Calls, CallbackReady(c)
       PROVE  Fresh
  BY <1>17 DEF CallbackReady, Fresh
<1>18. ASSUME NEW c \in Calls, CallbackValidate(c)
       PROVE  Fresh
  BY <1>18, PlainFields, HeldFresh DEF CallbackValidate, Refused, Fresh
<1>19. ASSUME NEW c \in Calls, CallbackConsume(c)
       PROVE  Fresh
  BY <1>19 DEF CallbackConsume, Fresh
<1>20. ASSUME NEW c \in Calls, CallbackRefused(c)
       PROVE  Fresh
  BY <1>20, PlainFields, HeldFresh DEF CallbackRefused, Refused, Fresh
<1>21. ASSUME NEW c \in Calls, CallbackPrevious(c)
       PROVE  Fresh
  BY <1>21 DEF CallbackPrevious, Fresh
<1>22. ASSUME NEW c \in Calls, CallbackReread(c)
       PROVE  Fresh
  <2>1. Holds(c, Plain("connected", TRUE)) \/ Holds(c, Terminal)
    BY <1>22 DEF CallbackReread, Refused
  <2> QED
    BY <2>1, PlainFields, HeldFresh
<1>23. ASSUME NEW c \in Calls, CallbackSettle(c)
       PROVE  Fresh
  BY <1>23 DEF CallbackSettle, Fresh
<1>24. ASSUME NEW c \in Calls, CallbackFail(c)
       PROVE  Fresh
  BY <1>24 DEF CallbackFail, Fresh
<1>25. ASSUME NEW c \in Calls, CallbackThrows(c)
       PROVE  Fresh
  BY <1>25, PlainFields, HeldFresh DEF CallbackThrows, Refused, Fresh
<1>26. ASSUME NEW c \in Calls, DisconnectReady(c)
       PROVE  Fresh
  BY <1>26 DEF DisconnectReady, Fresh
<1>27. ASSUME NEW c \in Calls, DisconnectRemove(c)
       PROVE  Fresh
  BY <1>27 DEF DisconnectRemove, Fresh
<1>28. ASSUME NEW c \in Calls, DisconnectEnds(c)
       PROVE  Fresh
  BY <1>28 DEF DisconnectEnds, Fresh
<1>29. ASSUME NEW c \in Calls, DisconnectThrows(c)
       PROVE  Fresh
  BY <1>29 DEF DisconnectThrows, Fresh
<1>30. ASSUME NEW c \in Calls, RefreshFails(c)
       PROVE  Fresh
  BY <1>30 DEF RefreshFails, Fresh
<1>31. ASSUME NEW c \in Calls, CallbackExchange(c)
       PROVE  Fresh
  BY <1>31 DEF CallbackExchange, Fresh
<1>32. ASSUME NEW c \in Calls, NEW s \in Nonces, ConnectOffer(c, s)
       PROVE  Fresh
  BY <1>32, HeldFresh DEF ConnectOffer
<1>33. ASSUME NEW c \in Calls, NEW gave \in BOOLEAN, NEW probed \in BOOLEAN,
              NEW granted \in SUBSET {calls[c].tool},
              CallbackPut(c, gave, granted, probed)
       PROVE  Fresh
  BY <1>33 DEF CallbackPut, Fresh
<1>34. ASSUME NEW c \in Calls, NEW gmail \in BOOLEAN, RefreshStores(c, gmail)
       PROVE  Fresh
  BY <1>34 DEF RefreshStores, Fresh
<1>35. ASSUME NEW c \in Calls, NEW t \in Tools, DisconnectReset(c, t)
       PROVE  Fresh
  BY <1>35 DEF DisconnectReset, Fresh
<1>36. ASSUME NEW s \in Nonces, NonceExpires(s)
       PROVE  Fresh
  BY <1>36 DEF NonceExpires, Fresh
<1>37. CASE AccessExpires
  BY <1>37 DEF AccessExpires, Fresh
<1>38. CASE Restart
  <2>1. \A t \in Tools : conn'[t].nonce = None /\ conn'[t].status = "absent"
    BY <1>38, PlainFields DEF Restart
  <2> QED
    BY <2>1 DEF Fresh
<1>39. CASE UNCHANGED vars
  BY <1>39 DEF vars, Fresh
<1> QED
  BY <1>1, <1>2, <1>3, <1>4, <1>5, <1>6, <1>7, <1>8, <1>9, <1>10, <1>11,
     <1>12, <1>13, <1>14, <1>15, <1>16, <1>17, <1>18, <1>19, <1>20, <1>21,
     <1>22, <1>23, <1>24, <1>25, <1>26, <1>27, <1>28, <1>29, <1>30, <1>31,
     <1>32, <1>33, <1>34, <1>35, <1>36, <1>37, <1>38, <1>39
     DEF Next, Hydrate, Arrive, Advance

-----------------------------------------------------------------------------
(* The parts, each with a step per action.                                 *)

\* Every step keeps what is known of the nonces.
LEMMA OfferedStep ==
  ASSUME Base, Grows, [Next]_vars
  PROVE  Offered'
<1>1. CASE HydRecords
  BY <1>1 DEF HydRecords, Grows, Base, Offered, StateInv, Known, TypeOK
<1>2. CASE HydSummaries
  BY <1>2 DEF HydSummaries, Grows, Base, Offered, StateInv, Known, TypeOK
<1>3. CASE HydNonce
  BY <1>3 DEF HydNonce, Grows, Base, Offered, StateInv, Known, TypeOK
<1>4. CASE HydClose
  BY <1>4 DEF HydClose, Grows, Base, Offered, StateInv, Known, TypeOK
<1>5. CASE HydEnds
  BY <1>5 DEF HydEnds, Grows, Base, Offered, StateInv, Known, TypeOK
<1>6. CASE HydFails
  BY <1>6 DEF HydFails, Grows, Base, Offered, StateInv, Known, TypeOK
<1>7. ASSUME NEW t \in Tools, HydUpsert(t)
       PROVE  Offered'
  BY <1>7 DEF HydUpsert, Grows, Base, Offered, StateInv, Known, TypeOK
<1>8. ASSUME NEW t \in Tools, HydReap(t)
       PROVE  Offered'
  BY <1>8 DEF HydReap, Grows, Base, Offered, StateInv, Known, TypeOK
<1>9. ASSUME NEW c \in Calls, View(c)
       PROVE  Offered'
  BY <1>9 DEF View, Enter, Grows, Base, Offered, StateInv, Known, TypeOK
<1>10. ASSUME NEW c \in Calls, StartDisconnect(c)
       PROVE  Offered'
  BY <1>10
  DEF StartDisconnect, Enter, Grows, Base, Offered, StateInv, Known, TypeOK
<1>11. ASSUME NEW c \in Calls, RefreshReads(c)
       PROVE  Offered'
  BY <1>11 DEF RefreshReads, Grows, Base, Offered, StateInv, Known, TypeOK
<1>12. ASSUME NEW c \in Calls, NEW t \in Tools, StartConnect(c, t)
       PROVE  Offered'
  BY <1>12
  DEF StartConnect, Enter, Grows, Base, Offered, StateInv, Known, TypeOK
<1>13. ASSUME NEW c \in Calls, NEW s \in Nonces, StartCallback(c, s)
       PROVE  Offered'
  BY <1>13
  DEF StartCallback, Enter, Grows, Base, Offered, StateInv, Known, TypeOK
<1>14. ASSUME NEW c \in Calls, ConnectReady(c)
       PROVE  Offered'
  BY <1>14 DEF ConnectReady, Grows, Base, Offered, StateInv, Known, TypeOK
<1>15. ASSUME NEW c \in Calls, ConnectSave(c)
       PROVE  Offered'
  <2>1. /\ calls[c].nonce \in Nonces /\ calls[c].tool \in Tools
        /\ nonces[calls[c].nonce].life # "unborn"
        /\ nonces[calls[c].nonce].tool = calls[c].tool
    BY <1>15 DEF ConnectSave, At, Base, Callers, CallInv
  <2>2. tools'[calls[c].tool] # "none"
    BY <1>15, <2>1, PersistsTyped, LifecycleTyped DEF ConnectSave, Base
  <2>3. \A s \in Nonces : /\ nonces'[s].life = nonces[s].life
                          /\ nonces'[s].tool = nonces[s].tool
                          /\ s # calls[c].nonce => nonces'[s] = nonces[s]
    BY <1>15, NonceFields DEF ConnectSave, Base, TypeOK, States
  <2> QED
    BY <2>1, <2>2, <2>3 DEF Grows, Base, Offered, StateInv, Known
<1>16. ASSUME NEW c \in Calls, ConnectFails(c)
       PROVE  Offered'
  BY <1>16 DEF ConnectFails, Grows, Base, Offered, StateInv, Known, TypeOK
<1>17. ASSUME NEW c \in Calls, CallbackReady(c)
       PROVE  Offered'
  BY <1>17 DEF CallbackReady, Grows, Base, Offered, StateInv, Known, TypeOK
<1>18. ASSUME NEW c \in Calls, CallbackValidate(c)
       PROVE  Offered'
  BY <1>18 DEF CallbackValidate, Grows, Base, Offered, StateInv, Known, TypeOK
<1>19. ASSUME NEW c \in Calls, CallbackConsume(c)
       PROVE  Offered'
  <2>1. /\ calls[c].nonce \in Nonces
        /\ nonces[calls[c].nonce].life # "unborn"
    BY <1>19 DEF CallbackConsume, At, Base, Callers, CallInv
  <2>2. \A s \in Nonces : /\ nonces'[s].code = nonces[s].code
                          /\ nonces'[s].tool = nonces[s].tool
                          /\ nonces'[s].life = "unborn" <=> nonces[s].life = "unborn"
    BY <1>19, <2>1, NonceFields DEF CallbackConsume, Base, TypeOK, States
  <2> QED
    BY <1>19, <2>2 DEF CallbackConsume, Grows, Base, Offered, StateInv, Known
<1>20. ASSUME NEW c \in Calls, CallbackRefused(c)
       PROVE  Offered'
  <2>1. calls[c].nonce \in Nonces /\ nonces[calls[c].nonce].code # "none"
    BY <1>20 DEF CallbackRefused, At, Base, Callers, CallInv
  <2>2. \A s \in Nonces : /\ nonces'[s].code # "none" => nonces[s].code # "none"
                          /\ nonces'[s].tool = nonces[s].tool
                          /\ nonces'[s].life = nonces[s].life
    BY <1>20, <2>1, NonceFields DEF CallbackRefused, Base, TypeOK, States
  <2> QED
    BY <1>20, <2>2 DEF CallbackRefused, Grows, Base, Offered, StateInv, Known
<1>21. ASSUME NEW c \in Calls, CallbackPrevious(c)
       PROVE  Offered'
  BY <1>21 DEF CallbackPrevious, Grows, Base, Offered, StateInv, Known, TypeOK
<1>22. ASSUME NEW c \in Calls, CallbackReread(c)
       PROVE  Offered'
  BY <1>22 DEF CallbackReread, Grows, Base, Offered, StateInv, Known, TypeOK
<1>23. ASSUME NEW c \in Calls, CallbackSettle(c)
       PROVE  Offered'
  BY <1>23 DEF CallbackSettle, Grows, Base, Offered, StateInv, Known, TypeOK
<1>24. ASSUME NEW c \in Calls, CallbackFail(c)
       PROVE  Offered'
  BY <1>24 DEF CallbackFail, Grows, Base, Offered, StateInv, Known, TypeOK
<1>25. ASSUME NEW c \in Calls, CallbackThrows(c)
       PROVE  Offered'
  BY <1>25 DEF CallbackThrows, Grows, Base, Offered, StateInv, Known, TypeOK
<1>26. ASSUME NEW c \in Calls, DisconnectReady(c)
       PROVE  Offered'
  BY <1>26 DEF DisconnectReady, Grows, Base, Offered, StateInv, Known, TypeOK
<1>27. ASSUME NEW c \in Calls, DisconnectRemove(c)
       PROVE  Offered'
  BY <1>27 DEF DisconnectRemove, Grows, Base, Offered, StateInv, Known, TypeOK
<1>28. ASSUME NEW c \in Calls, DisconnectEnds(c)
       PROVE  Offered'
  BY <1>28 DEF DisconnectEnds, Grows, Base, Offered, StateInv, Known, TypeOK
<1>29. ASSUME NEW c \in Calls, DisconnectThrows(c)
       PROVE  Offered'
  BY <1>29 DEF DisconnectThrows, Grows, Base, Offered, StateInv, Known, TypeOK
<1>30. ASSUME NEW c \in Calls, RefreshFails(c)
       PROVE  Offered'
  BY <1>30 DEF RefreshFails, Grows, Base, Offered, StateInv, Known, TypeOK
<1>31. ASSUME NEW c \in Calls, CallbackExchange(c)
       PROVE  Offered'
  BY <1>31, NonceFields
  DEF CallbackExchange, Grows, Base, Offered, StateInv, Known, TypeOK
<1>32. ASSUME NEW c \in Calls, NEW s \in Nonces, ConnectOffer(c, s)
       PROVE  Offered'
  <2>1. calls[c].tool \in Tools
    BY <1>32 DEF ConnectOffer, At, Base, Callers, CallInv
  <2>2. /\ nonces'[s].life = "live" /\ nonces'[s].code = "none"
        /\ nonces'[s].tool = calls[c].tool
        /\ \A u \in Nonces : u # s => nonces'[u] = nonces[u]
    BY <1>32 DEF ConnectOffer, Base, TypeOK
  <2> QED
    BY <2>1, <2>2 DEF Grows, Base, Offered, StateInv, Known
<1>33. ASSUME NEW c \in Calls, NEW gave \in BOOLEAN, NEW probed \in BOOLEAN,
              NEW granted \in SUBSET {calls[c].tool},
              CallbackPut(c, gave, granted, probed)
       PROVE  Offered'
  BY <1>33 DEF CallbackPut, Grows, Base, Offered, StateInv, Known, TypeOK
<1>34. ASSUME NEW c \in Calls, NEW gmail \in BOOLEAN, RefreshStores(c, gmail)
       PROVE  Offered'
  BY <1>34 DEF RefreshStores, Grows, Base, Offered, StateInv, Known, TypeOK
<1>35. ASSUME NEW c \in Calls, NEW t \in Tools, DisconnectReset(c, t)
       PROVE  Offered'
  BY <1>35 DEF DisconnectReset, Grows, Base, Offered, StateInv, Known, TypeOK
<1>36. ASSUME NEW s \in Nonces, NonceExpires(s)
       PROVE  Offered'
  BY <1>36, NonceFields
  DEF NonceExpires, Grows, Base, Offered, StateInv, Known, TypeOK
<1>37. CASE AccessExpires
  BY <1>37 DEF AccessExpires, Grows, Base, Offered, StateInv, Known, TypeOK
<1>38. CASE Restart
  BY <1>38 DEF Restart, Grows, Base, Offered, StateInv, Known, TypeOK
<1>39. CASE UNCHANGED vars
  BY <1>39 DEF vars, Grows, Base, Offered, StateInv, Known, TypeOK
<1> QED
  BY <1>1, <1>2, <1>3, <1>4, <1>5, <1>6, <1>7, <1>8, <1>9, <1>10, <1>11,
     <1>12, <1>13, <1>14, <1>15, <1>16, <1>17, <1>18, <1>19, <1>20, <1>21,
     <1>22, <1>23, <1>24, <1>25, <1>26, <1>27, <1>28, <1>29, <1>30, <1>31,
     <1>32, <1>33, <1>34, <1>35, <1>36, <1>37, <1>38, <1>39
     DEF Next, Hydrate, Arrive, Advance

\* Every step keeps the connections backed by proofs.
LEMMA BackedStep ==
  ASSUME Base, Grows, [Next]_vars
  PROVE  Backed'
<1>1. CASE HydRecords
  <2>1. \A t \in Tools :
          conn'[t] = conn[t] \/ conn'[t] = Projection(tools[t])
    BY <1>1 DEF HydRecords
  <2>2. UNCHANGED <<tools, nonces, proven>>
    BY <1>1 DEF HydRecords
  <2> QED
    BY <2>1, <2>2, PlainFields DEF Base, Backed, ConnInv, Connecting, Known
<1>2. CASE HydSummaries
  BY <1>2 DEF HydSummaries, Grows, Base, Backed, ConnInv, Known, Connecting
<1>3. CASE HydNonce
  <2>1. \A t \in Tools : conn'[t] = conn[t] \/ conn'[t] = Terminal
    BY <1>3 DEF HydNonce, Base, TypeOK
  <2>2. UNCHANGED <<tools, nonces, proven>>
    BY <1>3 DEF HydNonce
  <2> QED
    BY <2>1, <2>2, PlainFields DEF Base, Backed, ConnInv, Connecting, Known
<1>4. CASE HydClose
  <2>1. \A t \in Tools : tools'[t] \in {tools[t], "needs_connection"}
    BY <1>4 DEF HydClose, Base, TypeOK
  <2> QED
    BY <1>4, <2>1 DEF HydClose, Grows, Base, Backed, ConnInv, Connecting, Known
<1>5. CASE HydEnds
  BY <1>5 DEF HydEnds, Grows, Base, Backed, ConnInv, Known, Connecting
<1>6. CASE HydFails
  BY <1>6 DEF HydFails, Grows, Base, Backed, ConnInv, Known, Connecting
<1>7. ASSUME NEW t \in Tools, HydUpsert(t)
       PROVE  Backed'
  <2> DEFINE status == Lifecycle(Operational(hyd.held, t))
  <2>1. status = "connected" => t \in proven /\ t \in Known
    BY DEF Lifecycle, Operational, Base, Evidence, RowInv
  <2>2. /\ conn'[t] = Projection(status)
        /\ \A u \in Tools : u # t => conn'[u] = conn[u] /\ tools'[u] = tools[u]
        /\ tools'[t] \in {tools[t], status}
    BY <1>7 DEF HydUpsert, Base, TypeOK
  <2>3. UNCHANGED <<nonces, proven>>
    BY <1>7 DEF HydUpsert
  <2> QED
    BY <2>1, <2>2, <2>3, PlainFields
    DEF Grows, Base, Backed, ConnInv, Connecting, Known
<1>8. ASSUME NEW t \in Tools, HydReap(t)
       PROVE  Backed'
  BY <1>8 DEF HydReap, Grows, Base, Backed, ConnInv, Known, Connecting
<1>9. ASSUME NEW c \in Calls, View(c)
       PROVE  Backed'
  BY <1>9 DEF View, Enter, Grows, Base, Backed, ConnInv, Known, Connecting
<1>10. ASSUME NEW c \in Calls, StartDisconnect(c)
       PROVE  Backed'
  BY <1>10
  DEF StartDisconnect, Enter, Grows, Base, Backed, ConnInv, Known,
      Connecting
<1>11. ASSUME NEW c \in Calls, RefreshReads(c)
       PROVE  Backed'
  BY <1>11 DEF RefreshReads, Grows, Base, Backed, ConnInv, Known, Connecting
<1>12. ASSUME NEW c \in Calls, NEW t \in Tools, StartConnect(c, t)
       PROVE  Backed'
  BY <1>12
  DEF StartConnect, Enter, Grows, Base, Backed, ConnInv, Known, Connecting
<1>13. ASSUME NEW c \in Calls, NEW s \in Nonces, StartCallback(c, s)
       PROVE  Backed'
  BY <1>13
  DEF StartCallback, Enter, Grows, Base, Backed, ConnInv, Known, Connecting
<1>14. ASSUME NEW c \in Calls, ConnectReady(c)
       PROVE  Backed'
  <2>1. \A t \in Tools :
          conn'[t] = conn[t] \/ conn'[t] = Plain("not_connected", FALSE)
    BY <1>14 DEF ConnectReady, Base, TypeOK
  <2>2. UNCHANGED <<tools, nonces, proven>>
    BY <1>14 DEF ConnectReady
  <2> QED
    BY <2>1, <2>2, PlainFields DEF Base, Backed, ConnInv, Connecting, Known
<1>15. ASSUME NEW c \in Calls, ConnectSave(c)
       PROVE  Backed'
  <2>1. calls[c].tool \in Tools
    BY <1>15 DEF ConnectSave, At, Base, Callers, CallInv
  <2>2. \A t \in Tools : tools'[t] = "connected" => t \in proven
    BY <1>15, <2>1, PersistsTyped
    DEF ConnectSave, Lifecycle, Base, Backed, ConnInv,
                                     Callers, CallInv, Persists, TypeOK
  <2>3. UNCHANGED <<conn, proven>>
    BY <1>15 DEF ConnectSave
  <2> QED
    BY <2>2, <2>3
    DEF Grows, Base, TypeOK, Connections, Backed, ConnInv, Connecting,
        Known
<1>16. ASSUME NEW c \in Calls, ConnectFails(c)
       PROVE  Backed'
  BY <1>16 DEF ConnectFails, Grows, Base, Backed, ConnInv, Known, Connecting
<1>17. ASSUME NEW c \in Calls, CallbackReady(c)
       PROVE  Backed'
  BY <1>17 DEF CallbackReady, Grows, Base, Backed, ConnInv, Known, Connecting
<1>18. ASSUME NEW c \in Calls, CallbackValidate(c)
       PROVE  Backed'
  <2>1. \A t \in Tools : conn'[t] = conn[t] \/ conn'[t] = Terminal
    BY <1>18 DEF CallbackValidate, Refused, Holds, Base, TypeOK
  <2>2. UNCHANGED <<tools, proven>>
    BY <1>18 DEF CallbackValidate
  <2> QED
    BY <2>1, <2>2, PlainFields
    DEF Grows, Base, TypeOK, Connections, Backed, ConnInv, Connecting, Known
<1>19. ASSUME NEW c \in Calls, CallbackConsume(c)
       PROVE  Backed'
  <2>1. UNCHANGED <<tools, conn, proven>>
    BY <1>19 DEF CallbackConsume
  <2> QED
    BY <2>1
    DEF Grows, Base, TypeOK, Connections, Backed, ConnInv, Connecting,
        Known
<1>20. ASSUME NEW c \in Calls, CallbackRefused(c)
       PROVE  Backed'
  <2>1. \A t \in Tools : conn'[t] = conn[t] \/ conn'[t] = Terminal
    BY <1>20 DEF CallbackRefused, Refused, Holds, Base, TypeOK
  <2>2. UNCHANGED <<tools, proven>>
    BY <1>20 DEF CallbackRefused
  <2> QED
    BY <2>1, <2>2, PlainFields
    DEF Grows, Base, TypeOK, Connections, Backed, ConnInv, Connecting, Known
<1>21. ASSUME NEW c \in Calls, CallbackPrevious(c)
       PROVE  Backed'
  BY <1>21
  DEF CallbackPrevious, Grows, Base, Backed, ConnInv, Known, Connecting
<1>22. ASSUME NEW c \in Calls, CallbackReread(c)
       PROVE  Backed'
  <2>1. calls[c].tool \in Tools /\ calls[c].tool \in Known
    BY <1>22 DEF CallbackReread, At, Base, Callers, CallInv
  <2>2. \A t \in Tools :
          \/ conn'[t] = conn[t] \/ conn'[t] = Terminal
          \/ /\ t = calls[c].tool /\ calls[c].certified
             /\ conn'[t] = Plain("connected", TRUE)
    BY <1>22 DEF CallbackReread, Refused, Holds, Base, TypeOK
  <2>3. UNCHANGED <<tools, nonces, proven>>
    BY <1>22 DEF CallbackReread
  <2>4. calls[c].certified => calls[c].tool \in proven
    BY DEF Base, Callers, CallInv
  <2> QED
    BY <2>1, <2>2, <2>3, <2>4, PlainFields
    DEF Base, Backed, ConnInv, Connecting, Known
<1>23. ASSUME NEW c \in Calls, CallbackSettle(c)
       PROVE  Backed'
  <2>1. calls[c].tool \in Tools
    BY <1>23 DEF CallbackSettle, At, Base, Callers, CallInv
  <2>2. \A t \in Tools : tools'[t] = "connected" => t \in proven
    BY <1>23, <2>1, PersistsTyped
    DEF CallbackSettle, Lifecycle, Base, Backed, ConnInv,
                                     Callers, CallInv, Persists, TypeOK
  <2>3. UNCHANGED <<conn, proven>>
    BY <1>23 DEF CallbackSettle
  <2> QED
    BY <2>2, <2>3
    DEF Grows, Base, TypeOK, Connections, Backed, ConnInv, Connecting,
        Known
<1>24. ASSUME NEW c \in Calls, CallbackFail(c)
       PROVE  Backed'
  <2>1. calls[c].tool \in Tools
    BY <1>24 DEF CallbackFail, At, Base, Callers, CallInv
  <2>2. \A t \in Tools : tools'[t] = "connected" => t \in proven
    BY <1>24, <2>1, PersistsTyped
    DEF CallbackFail, Lifecycle, Base, Backed, ConnInv,
                                     Callers, CallInv, Persists, TypeOK
  <2>3. UNCHANGED <<conn, proven>>
    BY <1>24 DEF CallbackFail
  <2> QED
    BY <2>2, <2>3
    DEF Grows, Base, TypeOK, Connections, Backed, ConnInv, Connecting,
        Known
<1>25. ASSUME NEW c \in Calls, CallbackThrows(c)
       PROVE  Backed'
  <2>1. \A t \in Tools : conn'[t] = conn[t] \/ conn'[t] = Terminal
    BY <1>25 DEF CallbackThrows, Refused, Holds, Base, TypeOK
  <2>2. UNCHANGED <<tools, proven>>
    BY <1>25 DEF CallbackThrows
  <2> QED
    BY <2>1, <2>2, PlainFields
    DEF Grows, Base, TypeOK, Connections, Backed, ConnInv, Connecting, Known
<1>26. ASSUME NEW c \in Calls, DisconnectReady(c)
       PROVE  Backed'
  BY <1>26 DEF DisconnectReady, Grows, Base, Backed, ConnInv, Known, Connecting
<1>27. ASSUME NEW c \in Calls, DisconnectRemove(c)
       PROVE  Backed'
  BY <1>27
  DEF DisconnectRemove, Grows, Base, Backed, ConnInv, Known, Connecting
<1>28. ASSUME NEW c \in Calls, DisconnectEnds(c)
       PROVE  Backed'
  BY <1>28 DEF DisconnectEnds, Grows, Base, Backed, ConnInv, Known, Connecting
<1>29. ASSUME NEW c \in Calls, DisconnectThrows(c)
       PROVE  Backed'
  BY <1>29
  DEF DisconnectThrows, Grows, Base, Backed, ConnInv, Known, Connecting
<1>30. ASSUME NEW c \in Calls, RefreshFails(c)
       PROVE  Backed'
  BY <1>30 DEF RefreshFails, Grows, Base, Backed, ConnInv, Known, Connecting
<1>31. ASSUME NEW c \in Calls, CallbackExchange(c)
       PROVE  Backed'
  <2>1. UNCHANGED <<tools, conn, proven>>
    BY <1>31 DEF CallbackExchange
  <2> QED
    BY <2>1
    DEF Grows, Base, TypeOK, Connections, Backed, ConnInv, Connecting,
        Known
<1>32. ASSUME NEW c \in Calls, NEW s \in Nonces, ConnectOffer(c, s)
       PROVE  Backed'
  <2> DEFINE kept == IF calls[c].attached THEN conn[calls[c].tool].certified
                                          ELSE calls[c].certified
  <2>1. calls[c].tool \in Tools
    BY <1>32 DEF ConnectOffer, At, Base, Callers, CallInv
  <2>2. kept => calls[c].tool \in proven
    BY <2>1 DEF Base, Backed, ConnInv, Callers, CallInv
  <2>3. \A t \in Tools :
          \/ conn'[t] = conn[t]
          \/ /\ t = calls[c].tool
             /\ conn'[t] = [status |-> "connecting", nonce |-> s, certified |-> kept]
    BY <1>32 DEF ConnectOffer, Holds, Base, TypeOK
  <2>4. nonces'[s].life = "live" /\ s # None
    BY <1>32, SetsAssumption DEF ConnectOffer, Base, TypeOK
  <2>5. UNCHANGED <<tools, proven>>
    BY <1>32 DEF ConnectOffer
  <2>6. ASSUME NEW t \in Tools PROVE ConnInv(t)'
    <3>1. CASE conn'[t] = conn[t]
      <4>1. conn[t].nonce # None => nonces'[conn[t].nonce].life # "unborn"
        BY DEF Base, TypeOK, Connections, Backed, ConnInv, Grows
      <4> QED
        BY <3>1, <4>1, <2>5 DEF Base, Backed, ConnInv, Known, Connecting
    <3>2. CASE conn'[t] # conn[t]
      <4>1. /\ t = calls[c].tool /\ conn'[t].status = "connecting"
            /\ conn'[t].nonce = s /\ conn'[t].certified = kept
        BY <3>2, <2>3
      <4> QED
        BY <4>1, <2>2, <2>4, <2>5 DEF Base, Backed, ConnInv, Known, Connecting
    <3> QED
      BY <3>1, <3>2
  <2> QED
    BY <2>6 DEF Backed
<1>33. ASSUME NEW c \in Calls, NEW gave \in BOOLEAN, NEW probed \in BOOLEAN,
              NEW granted \in SUBSET {calls[c].tool},
              CallbackPut(c, gave, granted, probed)
       PROVE  Backed'
  BY <1>33 DEF CallbackPut, Grows, Base, Backed, ConnInv, Known, Connecting
<1>34. ASSUME NEW c \in Calls, NEW gmail \in BOOLEAN, RefreshStores(c, gmail)
       PROVE  Backed'
  BY <1>34 DEF RefreshStores, Grows, Base, Backed, ConnInv, Known, Connecting
<1>35. ASSUME NEW c \in Calls, NEW t \in Tools, DisconnectReset(c, t)
       PROVE  Backed'
  <2>1. \A u \in Tools : tools'[u] \in {tools[u], "needs_connection"}
    BY <1>35 DEF DisconnectReset, Base, TypeOK
  <2> QED
    BY <1>35, <2>1
    DEF DisconnectReset, Grows, Base, Backed, ConnInv, Connecting, Known
<1>36. ASSUME NEW s \in Nonces, NonceExpires(s)
       PROVE  Backed'
  <2>1. UNCHANGED <<tools, conn, proven>>
    BY <1>36 DEF NonceExpires
  <2> QED
    BY <2>1
    DEF Grows, Base, TypeOK, Connections, Backed, ConnInv, Connecting,
        Known
<1>37. CASE AccessExpires
  BY <1>37 DEF AccessExpires, Grows, Base, Backed, ConnInv, Known, Connecting
<1>38. CASE Restart
  <2>1. \A t \in Tools : /\ conn'[t].status = "absent" /\ conn'[t].nonce = None
                           /\ conn'[t].certified = FALSE
    BY <1>38, PlainFields DEF Restart
  <2> QED
    BY <1>38, <2>1 DEF Restart, Base, Backed, ConnInv, Connecting
<1>39. CASE UNCHANGED vars
  BY <1>39 DEF vars, Grows, Base, Backed, ConnInv, Known, Connecting
<1> QED
  BY <1>1, <1>2, <1>3, <1>4, <1>5, <1>6, <1>7, <1>8, <1>9, <1>10, <1>11,
     <1>12, <1>13, <1>14, <1>15, <1>16, <1>17, <1>18, <1>19, <1>20, <1>21,
     <1>22, <1>23, <1>24, <1>25, <1>26, <1>27, <1>28, <1>29, <1>30, <1>31,
     <1>32, <1>33, <1>34, <1>35, <1>36, <1>37, <1>38, <1>39
     DEF Next, Hydrate, Arrive, Advance

\* Every step keeps the row, and the hydration's copy of it, honest.
LEMMA EvidenceStep ==
  ASSUME Base, Grows, [Next]_vars
  PROVE  Evidence'
<1>1. CASE HydRecords
  BY <1>1, HydFields DEF HydRecords, Grows, Base, Evidence, RowInv, Known
<1>2. CASE HydSummaries
  BY <1>2, HydFields
  DEF HydSummaries, NoHydration, NoRow, Reaping, Grows, Base, Evidence,
      RowInv, Known
<1>3. CASE HydNonce
  BY <1>3, HydFields DEF HydNonce, Grows, Base, Evidence, RowInv, Known
<1>4. CASE HydClose
  BY <1>4, HydFields DEF HydClose, Grows, Base, Evidence, RowInv, Known
<1>5. CASE HydEnds
  BY <1>5, HydFields
  DEF HydEnds, NoHydration, NoRow, Reaping, Grows, Base, Evidence, RowInv,
      Known
<1>6. CASE HydFails
  BY <1>6, HydFields
  DEF HydFails, NoHydration, NoRow, Reaping, Grows, Base, Evidence, RowInv,
      Known
<1>7. ASSUME NEW t \in Tools, HydUpsert(t)
       PROVE  Evidence'
  BY <1>7, HydFields
  DEF HydUpsert, NoHydration, NoRow, Reaping, Grows, Base, Evidence, RowInv,
      Known
<1>8. ASSUME NEW t \in Tools, HydReap(t)
       PROVE  Evidence'
  BY <1>8, HydFields DEF HydReap, Grows, Base, Evidence, RowInv, Known
<1>9. ASSUME NEW c \in Calls, View(c)
       PROVE  Evidence'
  BY <1>9
  DEF View, Enter, Grows, Base, Evidence, RowInv, Known, NoHydration, NoRow
<1>10. ASSUME NEW c \in Calls, StartDisconnect(c)
       PROVE  Evidence'
  BY <1>10
  DEF StartDisconnect, Enter, Grows, Base, Evidence, RowInv, Known,
      NoHydration, NoRow
<1>11. ASSUME NEW c \in Calls, RefreshReads(c)
       PROVE  Evidence'
  BY <1>11, HydFields DEF RefreshReads, Grows, Base, Evidence, RowInv, Known
<1>12. ASSUME NEW c \in Calls, NEW t \in Tools, StartConnect(c, t)
       PROVE  Evidence'
  BY <1>12
  DEF StartConnect, Enter, Grows, Base, Evidence, RowInv, Known,
      NoHydration, NoRow
<1>13. ASSUME NEW c \in Calls, NEW s \in Nonces, StartCallback(c, s)
       PROVE  Evidence'
  BY <1>13
  DEF StartCallback, Enter, Grows, Base, Evidence, RowInv, Known,
      NoHydration, NoRow
<1>14. ASSUME NEW c \in Calls, ConnectReady(c)
       PROVE  Evidence'
  BY <1>14, HydFields DEF ConnectReady, Grows, Base, Evidence, RowInv, Known
<1>15. ASSUME NEW c \in Calls, ConnectSave(c)
       PROVE  Evidence'
  BY <1>15, HydFields DEF ConnectSave, Grows, Base, Evidence, RowInv, Known
<1>16. ASSUME NEW c \in Calls, ConnectFails(c)
       PROVE  Evidence'
  BY <1>16, HydFields DEF ConnectFails, Grows, Base, Evidence, RowInv, Known
<1>17. ASSUME NEW c \in Calls, CallbackReady(c)
       PROVE  Evidence'
  BY <1>17, HydFields DEF CallbackReady, Grows, Base, Evidence, RowInv, Known
<1>18. ASSUME NEW c \in Calls, CallbackValidate(c)
       PROVE  Evidence'
  BY <1>18, HydFields
  DEF CallbackValidate, Grows, Base, Evidence, RowInv, Known
<1>19. ASSUME NEW c \in Calls, CallbackConsume(c)
       PROVE  Evidence'
  BY <1>19, HydFields DEF CallbackConsume, Grows, Base, Evidence, RowInv, Known
<1>20. ASSUME NEW c \in Calls, CallbackRefused(c)
       PROVE  Evidence'
  BY <1>20, HydFields DEF CallbackRefused, Grows, Base, Evidence, RowInv, Known
<1>21. ASSUME NEW c \in Calls, CallbackPrevious(c)
       PROVE  Evidence'
  BY <1>21, HydFields
  DEF CallbackPrevious, Grows, Base, Evidence, RowInv, Known
<1>22. ASSUME NEW c \in Calls, CallbackReread(c)
       PROVE  Evidence'
  BY <1>22, HydFields DEF CallbackReread, Grows, Base, Evidence, RowInv, Known
<1>23. ASSUME NEW c \in Calls, CallbackSettle(c)
       PROVE  Evidence'
  BY <1>23, HydFields DEF CallbackSettle, Grows, Base, Evidence, RowInv, Known
<1>24. ASSUME NEW c \in Calls, CallbackFail(c)
       PROVE  Evidence'
  BY <1>24, HydFields DEF CallbackFail, Grows, Base, Evidence, RowInv, Known
<1>25. ASSUME NEW c \in Calls, CallbackThrows(c)
       PROVE  Evidence'
  BY <1>25, HydFields DEF CallbackThrows, Grows, Base, Evidence, RowInv, Known
<1>26. ASSUME NEW c \in Calls, DisconnectReady(c)
       PROVE  Evidence'
  BY <1>26, HydFields DEF DisconnectReady, Grows, Base, Evidence, RowInv, Known
<1>27. ASSUME NEW c \in Calls, DisconnectRemove(c)
       PROVE  Evidence'
  BY <1>27, HydFields
  DEF DisconnectRemove, NoHydration, NoRow, Reaping, Grows, Base, Evidence,
      RowInv, Known
<1>28. ASSUME NEW c \in Calls, DisconnectEnds(c)
       PROVE  Evidence'
  BY <1>28, HydFields DEF DisconnectEnds, Grows, Base, Evidence, RowInv, Known
<1>29. ASSUME NEW c \in Calls, DisconnectThrows(c)
       PROVE  Evidence'
  BY <1>29, HydFields
  DEF DisconnectThrows, Grows, Base, Evidence, RowInv, Known
<1>30. ASSUME NEW c \in Calls, RefreshFails(c)
       PROVE  Evidence'
  BY <1>30, HydFields DEF RefreshFails, Grows, Base, Evidence, RowInv, Known
<1>31. ASSUME NEW c \in Calls, CallbackExchange(c)
       PROVE  Evidence'
  BY <1>31, HydFields
  DEF CallbackExchange, Grows, Base, Evidence, RowInv, Known
<1>32. ASSUME NEW c \in Calls, NEW s \in Nonces, ConnectOffer(c, s)
       PROVE  Evidence'
  BY <1>32, HydFields DEF ConnectOffer, Grows, Base, Evidence, RowInv, Known
<1>33. ASSUME NEW c \in Calls, NEW gave \in BOOLEAN, NEW probed \in BOOLEAN,
              NEW granted \in SUBSET {calls[c].tool},
              CallbackPut(c, gave, granted, probed)
       PROVE  Evidence'
  <2> DEFINE merged == Merge(calls[c].held, calls[c].tool, c,
                                  gave, granted, probed)
  <2>1. calls[c].tool \in Known /\ calls[c].held.caps \subseteq Known
    BY <1>33 DEF CallbackPut, At, Base, Callers, CallInv, RowInv
  <2>2. merged.caps \subseteq Known
    BY <2>1 DEF Merge
  <2>3. /\ row' = merged /\ UNCHANGED <<tools, hyd>>
        /\ merged.refresh => merged.caps \subseteq proven'
        /\ proven' \subseteq proven \cup merged.caps
    BY <1>33 DEF CallbackPut
  <2>4. calls[c].held.caps \subseteq Vouched'
    BY <1>33 DEF CallbackPut, Grows, Base, Callers, CallInv, RowInv
  <2>5. ASSUME probed PROVE calls[c].tool \in Vouched'
    <3>1. <<calls[c].tool, ProbedApi(calls[c].tool, merged.scopes)>> \in probes'
      BY <1>33, <2>5 DEF CallbackPut
    <3>2. calls[c].tool \in Tools
      BY <2>1 DEF Known
    <3> QED
      BY <3>1, <3>2 DEF ProbedApi, Vouched
  <2>6. merged.caps \subseteq Vouched'
    BY <2>4, <2>5 DEF Merge
  <2>7. RowInv(row)'
    BY <2>2, <2>3, <2>6 DEF RowInv, Known
  <2>8. RowInv(hyd.held)' /\ proven' \subseteq Vouched'
    BY <2>3, <2>6 DEF Grows, Base, Evidence, RowInv, Known
  <2> QED
    BY <2>7, <2>8 DEF Evidence
<1>34. ASSUME NEW c \in Calls, NEW gmail \in BOOLEAN, RefreshStores(c, gmail)
       PROVE  Evidence'
  <2>1. row'.refresh = calls[c].held.refresh /\ row'.caps = calls[c].held.caps
    BY <1>34, CallFields, RowFields DEF RefreshStores, Refreshed, Base, Rows
  <2> QED
    BY <1>34, <2>1
    DEF RefreshStores, Grows, Base, Evidence, Callers, CallInv, RowInv, Known
<1>35. ASSUME NEW c \in Calls, NEW t \in Tools, DisconnectReset(c, t)
       PROVE  Evidence'
  BY <1>35, HydFields DEF DisconnectReset, Grows, Base, Evidence, RowInv, Known
<1>36. ASSUME NEW s \in Nonces, NonceExpires(s)
       PROVE  Evidence'
  BY <1>36, HydFields DEF NonceExpires, Grows, Base, Evidence, RowInv, Known
<1>37. CASE AccessExpires
  <2>1. row'.refresh = row.refresh /\ row'.caps = row.caps
    BY <1>37 DEF AccessExpires, Base, TypeOK, Rows
  <2> QED
    BY <1>37, <2>1 DEF AccessExpires, Grows, Base, Evidence, RowInv, Known
<1>38. CASE Restart
  BY <1>38, HydFields
  DEF Restart, NoHydration, NoRow, Reaping, Grows, Base, Evidence, RowInv,
      Known
<1>39. CASE UNCHANGED vars
  BY <1>39 DEF vars, Grows, Base, Evidence, RowInv, Known
<1> QED
  BY <1>1, <1>2, <1>3, <1>4, <1>5, <1>6, <1>7, <1>8, <1>9, <1>10, <1>11,
     <1>12, <1>13, <1>14, <1>15, <1>16, <1>17, <1>18, <1>19, <1>20, <1>21,
     <1>22, <1>23, <1>24, <1>25, <1>26, <1>27, <1>28, <1>29, <1>30, <1>31,
     <1>32, <1>33, <1>34, <1>35, <1>36, <1>37, <1>38, <1>39
     DEF Next, Hydrate, Arrive, Advance

\* An empty slot carries nothing.
LEMMA IdleInv ==
  ASSUME Base, NEW c \in Calls, calls'[c] = Idle
  PROVE  CallInv(calls[c])'
BY DEF Idle, NoRow, CallInv, RowInv, Shut, LetIn

\* What a request carries survives the steps of others.
LEMMA Carried ==
  ASSUME Base, Grows, Fresh, NEW d \in Calls,
         calls'[d].kind = calls[d].kind, calls'[d].tool = calls[d].tool,
         calls'[d].nonce = calls[d].nonce, calls'[d].held = calls[d].held,
         calls'[d].certified => calls[d].certified \/ calls[d].tool \in proven,
         calls'[d].pc = "save" => calls[d].pc = "save",
         Shut(calls[d])' => \/ Shut(calls[d])
                            \/ conn'[calls[d].tool].nonce # calls[d].nonce
  PROVE  CallInv(calls[d])'
<1> USE DEF Base, Callers, CallInv, Grows
<1>1. RowInv(calls[d].held)'
  BY DEF RowInv, Known
<1>2. calls'[d].certified => calls'[d].tool \in proven'
  OBVIOUS
<1>3. calls'[d].kind = "callback" => calls'[d].tool \in Known'
  BY DEF Known
<1>4. ASSUME Shut(calls[d])'
      PROVE  conn'[calls'[d].tool].nonce # calls'[d].nonce
  <2>1. CASE Shut(calls[d])
    <3>1. /\ calls[d].nonce \in Nonces /\ calls[d].tool \in Tools
          /\ nonces[calls[d].nonce].life # "unborn"
          /\ conn[calls[d].tool].nonce # calls[d].nonce
      BY <2>1 DEF Shut, LetIn
    <3> QED
      BY <3>1, SetsAssumption DEF Fresh
  <2> QED
    BY <1>4, <2>1
<1> QED
  BY <1>1, <1>2, <1>3, <1>4

\* The same for a request that does not move.
LEMMA Carries ==
  ASSUME Base, Grows, Fresh, NEW d \in Calls, calls'[d] = calls[d]
  PROVE  CallInv(calls[d])'
BY Carried DEF Shut, LetIn

\* A request that moves on carries the same.
LEMMA MovedInv ==
  ASSUME Base, Grows, Fresh, NEW c \in Calls, NEW pc \in Steps, Goes(c, pc),
         pc # "save", calls[c].pc \notin {"session", "ready"},
         pc \in {"settle", "fail"} =>
           Shut(calls[c]) \/ conn'[calls[c].tool].nonce # calls[c].nonce
  PROVE  Callers'
<1>1. /\ calls'[c] = [calls[c] EXCEPT !.pc = pc]
      /\ \A d \in Calls : d # c => calls'[d] = calls[d]
  BY Moved DEF Base
<1>2. /\ calls'[c].kind = calls[c].kind /\ calls'[c].tool = calls[c].tool
      /\ calls'[c].nonce = calls[c].nonce /\ calls'[c].held = calls[c].held
      /\ calls'[c].certified = calls[c].certified /\ calls'[c].pc = pc
      /\ calls'[c].attached = calls[c].attached
  BY <1>1, CallFields DEF Base, CallStates
<1>3. CallInv(calls[c])'
  BY <1>2, Carried DEF Shut, LetIn
<1> QED
  BY <1>1, <1>3, Carries DEF Callers

\* A request that ends carries nothing.
LEMMA EndedInv ==
  ASSUME Base, Grows, Fresh, NEW c \in Calls, Ends(c)
  PROVE  Callers'
BY Ended, IdleInv, Carries DEF Callers, Base

\* The catch block closes the handshake of its callback.
LEMMA RefusedInv ==
  ASSUME Base, Grows, Fresh, NEW c \in Calls, Refused(c),
         calls[c].kind = "callback", calls[c].pc \notin {"session", "ready"}
  PROVE  Callers'
<1>1. Goes(c, "fail") /\ "fail" \in Steps
  BY DEF Refused, Steps
<1>2. /\ calls[c].nonce \in Nonces /\ calls[c].tool \in Tools
  BY DEF Base, Callers, CallInv
<1>3. CASE ~calls[c].attached
  BY <1>1, <1>3, MovedInv DEF Shut, LetIn
<1>4. CASE calls[c].attached
  <2>1. conn'[calls[c].tool].nonce = None
    BY <1>2, <1>4, PlainFields DEF Refused, Holds, Base, TypeOK
  <2> QED
    BY <1>1, <1>2, <2>1, MovedInv, SetsAssumption
<1> QED
  BY <1>3, <1>4

\* Replacing connections closes the handshakes they had.
LEMMA DetachedInv ==
  ASSUME Base, Grows, Fresh, NEW T \in SUBSET Tools, calls' = Detach(T),
         \A t \in T : conn'[t].nonce = None
  PROVE  Callers'
<1> SUFFICES ASSUME NEW d \in Calls PROVE CallInv(calls[d])'
  BY DEF Callers
<1>1. /\ calls'[d].kind = calls[d].kind /\ calls'[d].pc = calls[d].pc
      /\ calls'[d].tool = calls[d].tool /\ calls'[d].nonce = calls[d].nonce
      /\ calls'[d].held = calls[d].held
      /\ calls'[d].attached <=> calls[d].attached /\ calls[d].tool \notin T
  BY DetachTypes DEF Base
<1>2. calls'[d].certified => calls[d].certified \/ calls[d].tool \in proven
  BY DetachTypes DEF Base, Backed, ConnInv
<1>3. Shut(calls[d])' => \/ Shut(calls[d])
                         \/ conn'[calls[d].tool].nonce # calls[d].nonce
  <2>1. CASE calls[d].tool \in T /\ LetIn(calls[d])
    BY <2>1, SetsAssumption DEF LetIn, Base, Callers, CallInv
  <2> QED
    BY <1>1, <2>1 DEF Shut, LetIn
<1> QED
  BY <1>1, <1>2, <1>3, Carried

\* The end of a hydration changes nothing that requests carry.
LEMMA ReleasedInv ==
  ASSUME Base, Grows, Fresh, NEW ok \in BOOLEAN, calls' = Released(ok)
  PROVE  Callers'
<1> SUFFICES ASSUME NEW d \in Calls PROVE CallInv(calls[d])'
  BY DEF Callers
<1>1. CASE calls'[d] = calls[d]
  BY <1>1, Carries
<1>2. CASE calls'[d] = Idle
  BY <1>2, IdleInv
<1>3. CASE calls[d].pc = "session" /\ calls'[d] = [calls[d] EXCEPT !.pc = "ready"]
  <2>1. /\ calls'[d].kind = calls[d].kind /\ calls'[d].tool = calls[d].tool
        /\ calls'[d].nonce = calls[d].nonce /\ calls'[d].held = calls[d].held
        /\ calls'[d].certified = calls[d].certified /\ calls'[d].pc = "ready"
    BY <1>3, CallFields DEF Base, CallStates
  <2> QED
    BY <2>1, Carried DEF Shut, LetIn
<1> QED
  BY <1>1, <1>2, <1>3, ReleasedTypes DEF Base

\* Every step keeps what the requests carry.
LEMMA CallersStep ==
  ASSUME Base, Grows, Fresh, [Next]_vars
  PROVE  Callers'
<1>1. CASE HydRecords
  <2> DEFINE built == {t \in {t \in Tools : tools[t] # "none"} : ~Connecting(t)}
  <2>1. calls' = Detach(built)
    BY <1>1 DEF HydRecords
  <2>2. \A t \in built : conn'[t].nonce = None
    BY <1>1, PlainFields DEF HydRecords
  <2> QED
    BY <2>1, <2>2, DetachedInv
<1>2. CASE HydSummaries
  BY <1>2, Carries DEF HydSummaries, Callers
<1>3. CASE HydNonce
  BY <1>3, Carries DEF HydNonce, Callers
<1>4. CASE HydClose
  BY <1>4, Carries DEF HydClose, Callers
<1>5. CASE HydEnds
  BY <1>5, ReleasedInv DEF HydEnds
<1>6. CASE HydFails
  BY <1>6, ReleasedInv DEF HydFails
<1>7. ASSUME NEW t \in Tools, HydUpsert(t)
       PROVE  Callers'
  <2>1. calls' = Detach({t})
    BY <1>7 DEF HydUpsert
  <2>2. conn'[t].nonce = None
    BY <1>7, PlainFields DEF HydUpsert, Base, TypeOK
  <2> QED
    BY <2>1, <2>2, DetachedInv
<1>8. ASSUME NEW t \in Tools, HydReap(t)
       PROVE  Callers'
  BY <1>8, Carries DEF HydReap, Callers
<1>9. ASSUME NEW c \in Calls, View(c)
       PROVE  Callers'
  <2> DEFINE request == Request("view", None, None)
  <2>1. /\ request.kind = "view" /\ request.pc = "session" /\ request.tool = None
        /\ request.nonce = None /\ request.certified = FALSE /\ request.held = NoRow
    BY DEF Request, Idle
  <2>2. /\ calls'[c] = request
        /\ \A d \in Calls : d # c => calls'[d] = calls[d]
    BY <1>9 DEF View, Enter, Base, TypeOK
  <2>3. CallInv(calls[c])'
    BY <2>1, <2>2 DEF CallInv, RowInv, NoRow, Shut, LetIn
  <2> QED
    BY <2>2, <2>3, Carries DEF Callers
<1>10. ASSUME NEW c \in Calls, StartDisconnect(c)
       PROVE  Callers'
  <2> DEFINE request == Request("disconnect", None, None)
  <2>1. /\ request.kind = "disconnect" /\ request.pc = "session" /\ request.tool = None
        /\ request.nonce = None /\ request.certified = FALSE /\ request.held = NoRow
    BY DEF Request, Idle
  <2>2. /\ calls'[c] = request
        /\ \A d \in Calls : d # c => calls'[d] = calls[d]
    BY <1>10 DEF StartDisconnect, Enter, Base, TypeOK
  <2>3. CallInv(calls[c])'
    BY <2>1, <2>2 DEF CallInv, RowInv, NoRow, Shut, LetIn
  <2> QED
    BY <2>2, <2>3, Carries DEF Callers
<1>11. ASSUME NEW c \in Calls, RefreshReads(c)
       PROVE  Callers'
  <2>1. /\ calls'[c] = [Idle EXCEPT !.kind = "refresh", !.pc = "refreshing",
                                   !.held = row]
        /\ \A d \in Calls : d # c => calls'[d] = calls[d]
    BY <1>11 DEF RefreshReads, Base, TypeOK
  <2>2. /\ calls'[c].kind = "refresh" /\ calls'[c].certified = FALSE
        /\ calls'[c].held = row
    BY <2>1 DEF Idle
  <2>3. RowInv(row)'
    BY EvidenceStep, <1>11 DEF RefreshReads, Base, Evidence, RowInv, Known
  <2>4. CallInv(calls[c])'
    BY <1>11, <2>2, <2>3 DEF RefreshReads, CallInv, RowInv, Known, Shut, LetIn
  <2> QED
    BY <2>1, <2>4, Carries DEF Callers
<1>12. ASSUME NEW c \in Calls, NEW t \in Tools, StartConnect(c, t)
       PROVE  Callers'
  <2> DEFINE request == Request("connect", t, None)
  <2>1. /\ request.kind = "connect" /\ request.pc = "session" /\ request.tool = t
        /\ request.nonce = None /\ request.certified = FALSE /\ request.held = NoRow
    BY DEF Request, Idle
  <2>2. /\ calls'[c] = request
        /\ \A d \in Calls : d # c => calls'[d] = calls[d]
    BY <1>12 DEF StartConnect, Enter, Base, TypeOK
  <2>3. CallInv(calls[c])'
    BY <2>1, <2>2 DEF CallInv, RowInv, NoRow, Shut, LetIn
  <2> QED
    BY <2>2, <2>3, Carries DEF Callers
<1>13. ASSUME NEW c \in Calls, NEW s \in Nonces, StartCallback(c, s)
       PROVE  Callers'
  <2> DEFINE request == Request("callback", nonces[s].tool, s)
  <2>0. /\ nonces[s].code # "none" /\ nonces[s].life # "unborn"
        /\ nonces[s].tool \in Known /\ nonces[s].tool \in Tools
    BY <1>13 DEF StartCallback, Base, Offered, StateInv
  <2>1. /\ request.kind = "callback" /\ request.pc = "session" /\ request.tool = nonces[s].tool
        /\ request.nonce = s /\ request.certified = FALSE /\ request.held = NoRow
    BY <2>0 DEF Request, Idle
  <2>2. /\ calls'[c] = request
        /\ \A d \in Calls : d # c => calls'[d] = calls[d]
    BY <1>13 DEF StartCallback, Enter, Base, TypeOK
  <2>3. CallInv(calls[c])'
    BY <2>0, <2>1, <2>2 DEF CallInv, RowInv, NoRow, Shut, LetIn, Grows, Known
  <2> QED
    BY <2>2, <2>3, Carries DEF Callers
<1>14. ASSUME NEW c \in Calls, ConnectReady(c)
       PROVE  Callers'
  <2>1. /\ calls'[c] = [calls[c] EXCEPT !.pc = "offer", !.attached = TRUE]
        /\ \A d \in Calls : d # c => calls'[d] = calls[d]
        /\ calls[c].kind = "connect"
    BY <1>14 DEF ConnectReady, At, Base, TypeOK
  <2>2. /\ calls'[c].kind = calls[c].kind /\ calls'[c].tool = calls[c].tool
        /\ calls'[c].nonce = calls[c].nonce /\ calls'[c].held = calls[c].held
        /\ calls'[c].certified = calls[c].certified /\ calls'[c].pc = "offer"
    BY <2>1, CallFields DEF Base, CallStates
  <2>3. CallInv(calls[c])'
    BY <2>1, <2>2, Carried DEF Shut, LetIn
  <2> QED
    BY <2>1, <2>3, Carries DEF Callers
<1>15. ASSUME NEW c \in Calls, ConnectSave(c)
       PROVE  Callers'
  BY <1>15, EndedInv DEF ConnectSave
<1>16. ASSUME NEW c \in Calls, ConnectFails(c)
       PROVE  Callers'
  BY <1>16, EndedInv DEF ConnectFails
<1>17. ASSUME NEW c \in Calls, CallbackReady(c)
       PROVE  Callers'
  <2>1. CASE Ends(c)
    BY <2>1, EndedInv
  <2>2. CASE calls' = [calls EXCEPT ![c].pc = "validate", ![c].attached = TRUE]
    <3>1. /\ calls'[c] = [calls[c] EXCEPT !.pc = "validate", !.attached = TRUE]
          /\ \A d \in Calls : d # c => calls'[d] = calls[d]
      BY <2>2 DEF Base, TypeOK
    <3>2. /\ calls'[c].kind = calls[c].kind /\ calls'[c].tool = calls[c].tool
          /\ calls'[c].nonce = calls[c].nonce /\ calls'[c].held = calls[c].held
          /\ calls'[c].certified = calls[c].certified
          /\ calls'[c].pc = "validate" /\ calls'[c].attached = TRUE
      BY <3>1, CallFields DEF Base, CallStates
    <3>3. CallInv(calls[c])'
      BY <3>2, Carried DEF Shut, LetIn
    <3> QED
      BY <3>1, <3>3, Carries DEF Callers
  <2> QED
    BY <1>17, <2>1, <2>2 DEF CallbackReady
<1>18. ASSUME NEW c \in Calls, CallbackValidate(c)
       PROVE  Callers'
  BY <1>18, MovedInv, RefusedInv DEF CallbackValidate, At, Steps
<1>19. ASSUME NEW c \in Calls, CallbackConsume(c)
       PROVE  Callers'
  BY <1>19, MovedInv DEF CallbackConsume, At, Steps
<1>20. ASSUME NEW c \in Calls, CallbackRefused(c)
       PROVE  Callers'
  BY <1>20, RefusedInv DEF CallbackRefused, At
<1>21. ASSUME NEW c \in Calls, CallbackPrevious(c)
       PROVE  Callers'
  <2>1. /\ calls'[c] = [calls[c] EXCEPT !.pc = "put", !.held = row]
        /\ \A d \in Calls : d # c => calls'[d] = calls[d]
        /\ calls[c].kind = "callback" /\ calls[c].pc = "previous"
    BY <1>21 DEF CallbackPrevious, At, Base, TypeOK
  <2>2. /\ calls'[c].kind = calls[c].kind /\ calls'[c].tool = calls[c].tool
        /\ calls'[c].nonce = calls[c].nonce /\ calls'[c].held = row
        /\ calls'[c].certified = calls[c].certified /\ calls'[c].pc = "put"
        /\ calls'[c].attached = calls[c].attached
    BY <2>1, CallFields DEF Base, CallStates
  <2>3. UNCHANGED <<nonces, tools, conn, proven>>
    BY <1>21 DEF CallbackPrevious
  <2>4. Shut(calls[c])' => Shut(calls[c])
    BY <2>1, <2>2 DEF Shut, LetIn
  <2>5. RowInv(calls[c].held)'
    BY <2>2, <2>3 DEF Grows, Base, Evidence, RowInv, Known
  <2>6. CallInv(calls[c])'
    BY <2>1, <2>2, <2>3, <2>4, <2>5 DEF CallInv, Base, Callers, Known
  <2> QED
    BY <2>1, <2>6, Carries DEF Callers
<1>22. ASSUME NEW c \in Calls, CallbackReread(c)
       PROVE  Callers'
  <2>1. CASE Refused(c)
    BY <1>22, <2>1, RefusedInv DEF CallbackReread, At
  <2>2. CASE ~Refused(c)
    <3>1. /\ Holds(c, Plain("connected", TRUE)) \/ Holds(c, Terminal)
          /\ Goes(c, "settle") /\ "settle" \in Steps
          /\ calls[c].kind = "callback" /\ calls[c].pc = "reread"
      BY <1>22, <2>2 DEF CallbackReread, At, Steps
    <3>2. calls[c].nonce \in Nonces /\ calls[c].tool \in Tools
      BY <3>1 DEF Base, Callers, CallInv
    <3>3. CASE ~calls[c].attached
      BY <3>1, <3>3, MovedInv DEF Shut, LetIn
    <3>4. CASE calls[c].attached
      <4>1. conn'[calls[c].tool].nonce = None
        BY <3>1, <3>2, <3>4, PlainFields DEF Holds, Base, TypeOK
      <4> QED
        BY <3>1, <3>2, <4>1, MovedInv, SetsAssumption
    <3> QED
      BY <3>3, <3>4
  <2> QED
    BY <2>1, <2>2
<1>23. ASSUME NEW c \in Calls, CallbackSettle(c)
       PROVE  Callers'
  BY <1>23, EndedInv DEF CallbackSettle
<1>24. ASSUME NEW c \in Calls, CallbackFail(c)
       PROVE  Callers'
  BY <1>24, EndedInv DEF CallbackFail
<1>25. ASSUME NEW c \in Calls, CallbackThrows(c)
       PROVE  Callers'
  BY <1>25, RefusedInv, EndedInv DEF CallbackThrows
<1>26. ASSUME NEW c \in Calls, DisconnectReady(c)
       PROVE  Callers'
  <2>1. CASE Ends(c)
    BY <2>1, EndedInv
  <2>2. CASE Goes(c, "revoke")
    <3>1. /\ calls'[c] = [calls[c] EXCEPT !.pc = "revoke"]
          /\ \A d \in Calls : d # c => calls'[d] = calls[d]
          /\ calls[c].kind = "disconnect"
      BY <1>26, <2>2, Moved DEF DisconnectReady, At, Base, Steps
    <3>2. /\ calls'[c].kind = calls[c].kind /\ calls'[c].tool = calls[c].tool
          /\ calls'[c].nonce = calls[c].nonce /\ calls'[c].held = calls[c].held
          /\ calls'[c].certified = calls[c].certified /\ calls'[c].pc = "revoke"
      BY <3>1, CallFields DEF Base, CallStates
    <3>3. CallInv(calls[c])'
      BY <3>1, <3>2, Carried DEF Shut, LetIn
    <3> QED
      BY <3>1, <3>3, Carries DEF Callers
  <2> QED
    BY <1>26, <2>1, <2>2 DEF DisconnectReady
<1>27. ASSUME NEW c \in Calls, DisconnectRemove(c)
       PROVE  Callers'
  <2>1. /\ calls'[c] = [calls[c] EXCEPT !.pc = "reset", !.todo = Tools]
        /\ \A d \in Calls : d # c => calls'[d] = calls[d]
        /\ calls[c].kind = "disconnect"
    BY <1>27 DEF DisconnectRemove, At, Base, TypeOK
  <2>2. /\ calls'[c].kind = calls[c].kind /\ calls'[c].tool = calls[c].tool
        /\ calls'[c].nonce = calls[c].nonce /\ calls'[c].held = calls[c].held
        /\ calls'[c].certified = calls[c].certified /\ calls'[c].pc = "reset"
    BY <2>1, CallFields DEF Base, CallStates
  <2>3. CallInv(calls[c])'
    BY <2>1, <2>2, Carried DEF Shut, LetIn
  <2> QED
    BY <2>1, <2>3, Carries DEF Callers
<1>28. ASSUME NEW c \in Calls, DisconnectEnds(c)
       PROVE  Callers'
  BY <1>28, EndedInv DEF DisconnectEnds
<1>29. ASSUME NEW c \in Calls, DisconnectThrows(c)
       PROVE  Callers'
  BY <1>29, EndedInv DEF DisconnectThrows
<1>30. ASSUME NEW c \in Calls, RefreshFails(c)
       PROVE  Callers'
  BY <1>30, EndedInv DEF RefreshFails
<1>31. ASSUME NEW c \in Calls, CallbackExchange(c)
       PROVE  Callers'
  BY <1>31, MovedInv DEF CallbackExchange, At, Steps
<1>32. ASSUME NEW c \in Calls, NEW s \in Nonces, ConnectOffer(c, s)
       PROVE  Callers'
  <2> DEFINE kept == IF calls[c].attached THEN conn[calls[c].tool].certified
                                          ELSE calls[c].certified
  <2>1. /\ calls'[c] = [calls[c] EXCEPT !.pc = "save", !.nonce = s,
                                       !.certified = kept]
        /\ \A d \in Calls : d # c => calls'[d] = calls[d]
        /\ calls[c].kind = "connect"
    BY <1>32 DEF ConnectOffer, At, Base, TypeOK
  <2>2. /\ calls'[c].kind = "connect" /\ calls'[c].tool = calls[c].tool
        /\ calls'[c].nonce = s /\ calls'[c].held = calls[c].held
        /\ calls'[c].certified = kept
    BY <2>1, CallFields DEF Base, CallStates
  <2>3. calls[c].tool \in Tools
    BY <2>1 DEF Base, Callers, CallInv
  <2>4. kept => calls[c].tool \in proven
    BY <2>3 DEF Base, Backed, ConnInv, Callers, CallInv
  <2>5. nonces'[s].life = "live" /\ nonces'[s].tool = calls[c].tool
    BY <1>32 DEF ConnectOffer, Base, TypeOK
  <2>6. UNCHANGED <<tools, proven>>
    BY <1>32 DEF ConnectOffer
  <2>7. RowInv(calls[c].held)'
    BY <2>2, <2>6 DEF Grows, Base, Callers, CallInv, RowInv, Known
  <2>8. CallInv(calls[c])'
    BY <2>2, <2>3, <2>4, <2>5, <2>6, <2>7 DEF CallInv, Shut, LetIn
  <2> QED
    BY <2>1, <2>8, Carries DEF Callers
<1>33. ASSUME NEW c \in Calls, NEW gave \in BOOLEAN, NEW probed \in BOOLEAN,
              NEW granted \in SUBSET {calls[c].tool},
              CallbackPut(c, gave, granted, probed)
       PROVE  Callers'
  <2> DEFINE merged == Merge(calls[c].held, calls[c].tool, c,
                                  gave, granted, probed)
  <2>1. /\ calls'[c] = [calls[c] EXCEPT !.pc = "reread", !.held = NoRow,
                               !.certified = probed /\ merged.refresh]
        /\ \A d \in Calls : d # c => calls'[d] = calls[d]
        /\ calls[c].kind = "callback" /\ calls[c].pc = "put"
    BY <1>33 DEF CallbackPut, At, Base, TypeOK
  <2>2. /\ calls'[c].kind = calls[c].kind /\ calls'[c].tool = calls[c].tool
        /\ calls'[c].nonce = calls[c].nonce /\ calls'[c].held = NoRow
        /\ calls'[c].pc = "reread" /\ calls'[c].attached = calls[c].attached
        /\ calls'[c].certified => probed /\ merged.refresh
    BY <2>1, CallFields, ZenonT(60) DEF Base, CallStates
  <2>3. UNCHANGED <<nonces, tools, conn>>
    BY <1>33 DEF CallbackPut
  <2>4. Shut(calls[c])' => Shut(calls[c])
    BY <2>1, <2>2 DEF Shut, LetIn
  <2>5. calls'[c].certified => calls[c].tool \in proven'
    BY <1>33, <2>2 DEF CallbackPut, Merge
  <2>6. RowInv(calls[c].held)'
    BY <2>2 DEF RowInv, NoRow
  <2>7. CallInv(calls[c])'
    BY <2>1, <2>2, <2>3, <2>4, <2>5, <2>6 DEF CallInv, Base, Callers, Known
  <2> QED
    BY <2>1, <2>7, Carries DEF Callers
<1>34. ASSUME NEW c \in Calls, NEW gmail \in BOOLEAN, RefreshStores(c, gmail)
       PROVE  Callers'
  BY <1>34, EndedInv DEF RefreshStores
<1>35. ASSUME NEW c \in Calls, NEW t \in Tools, DisconnectReset(c, t)
       PROVE  Callers'
  <2>1. /\ calls'[c] = [calls[c] EXCEPT !.todo = @ \ {t}]
        /\ \A d \in Calls : d # c => calls'[d] = calls[d]
        /\ calls[c].kind = "disconnect"
    BY <1>35 DEF DisconnectReset, At, Base, TypeOK
  <2>2. /\ calls'[c].kind = calls[c].kind /\ calls'[c].tool = calls[c].tool
        /\ calls'[c].nonce = calls[c].nonce /\ calls'[c].held = calls[c].held
        /\ calls'[c].certified = calls[c].certified /\ calls'[c].pc = calls[c].pc
    BY <2>1, CallFields DEF Base, CallStates
  <2>3. CallInv(calls[c])'
    BY <2>1, <2>2, Carried DEF Shut, LetIn
  <2> QED
    BY <2>1, <2>3, Carries DEF Callers
<1>36. ASSUME NEW s \in Nonces, NonceExpires(s)
       PROVE  Callers'
  BY <1>36, Carries DEF NonceExpires, Callers
<1>37. CASE AccessExpires
  BY <1>37, Carries DEF AccessExpires, Callers
<1>38. CASE Restart
  BY <1>38, IdleInv DEF Restart, Callers
<1>39. CASE UNCHANGED vars
  BY <1>39, Carries DEF vars, Callers
<1> QED
  BY <1>1, <1>2, <1>3, <1>4, <1>5, <1>6, <1>7, <1>8, <1>9, <1>10, <1>11,
     <1>12, <1>13, <1>14, <1>15, <1>16, <1>17, <1>18, <1>19, <1>20, <1>21,
     <1>22, <1>23, <1>24, <1>25, <1>26, <1>27, <1>28, <1>29, <1>30, <1>31,
     <1>32, <1>33, <1>34, <1>35, <1>36, <1>37, <1>38, <1>39
     DEF Next, Hydrate, Arrive, Advance

\* What an arriving request does to the hydration.
LEMMA Entered ==
  ASSUME TypeOK, NEW c \in Calls, NEW request, Enter(c, request)
  PROVE  /\ calls'[c] = request /\ nonces' = nonces
         /\ \A d \in Calls : d # c => calls'[d] = calls[d]
         /\ hyd.step = "off" =>
              /\ hyd'.step = "records" /\ hyd'.dead = {s \in Nonces : Dead(s)}
              /\ hyd'.alone => \A d \in Calls : calls[d] = Idle
         /\ hyd.step # "off" => hyd'.alone = FALSE /\ hyd'.dead = hyd.dead
<1>1. /\ calls'[c] = request /\ nonces' = nonces
      /\ \A d \in Calls : d # c => calls'[d] = calls[d]
  BY DEF Enter, TypeOK
<1>2. CASE hyd.step = "off"
  <2> DEFINE others == \A d \in Calls : calls[d] = Idle
             dead == {s \in Nonces : Dead(s)}
  <2>1. hyd' = [NoHydration EXCEPT !.step = "records", !.dead = dead,
                                   !.alone = others]
    BY <1>2 DEF Enter
  <2>2. hyd'.step = "records" /\ hyd'.dead = dead /\ (hyd'.alone <=> others)
    <3> HIDE DEF others, dead
    <3> QED
      BY <2>1 DEF NoHydration
  <2> QED
    BY <1>1, <1>2, <2>2
<1>3. CASE hyd.step # "off"
  <2>1. hyd' = [hyd EXCEPT !.alone = FALSE]
    BY <1>3 DEF Enter
  <2> QED
    BY <1>1, <1>3, <2>1, HydFields DEF HydStates
<1> QED
  BY <1>2, <1>3

\* A dead nonce stays dead.
LEMMA DeadStep ==
  ASSUME TypeOK, DeadStay, Grows, [Next]_vars
  PROVE  DeadStay'
<1>1. CASE HydRecords
  BY <1>1, HydFields DEF HydRecords, Reaping, NoHydration, DeadStay, Grows
<1>2. CASE HydSummaries
  BY <1>2, HydFields DEF HydSummaries, Reaping, NoHydration, DeadStay, Grows
<1>3. CASE HydNonce
  BY <1>3, HydFields DEF HydNonce, Reaping, NoHydration, DeadStay, Grows
<1>4. CASE HydClose
  BY <1>4, HydFields DEF HydClose, Reaping, NoHydration, DeadStay, Grows
<1>5. CASE HydEnds
  BY <1>5, HydFields DEF HydEnds, Reaping, NoHydration, DeadStay, Grows
<1>6. CASE HydFails
  BY <1>6, HydFields DEF HydFails, Reaping, NoHydration, DeadStay, Grows
<1>7. ASSUME NEW t \in Tools, HydUpsert(t)
       PROVE  DeadStay'
  BY <1>7, HydFields DEF HydUpsert, Reaping, NoHydration, DeadStay, Grows
<1>8. ASSUME NEW t \in Tools, HydReap(t)
       PROVE  DeadStay'
  BY <1>8, HydFields DEF HydReap, Reaping, NoHydration, DeadStay, Grows
<1>9. ASSUME NEW c \in Calls, View(c)
       PROVE  DeadStay'
  BY <1>9, Entered DEF View, Dead, DeadStay, Grows
<1>10. ASSUME NEW c \in Calls, StartDisconnect(c)
       PROVE  DeadStay'
  BY <1>10, Entered DEF StartDisconnect, Dead, DeadStay, Grows
<1>11. ASSUME NEW c \in Calls, RefreshReads(c)
       PROVE  DeadStay'
  BY <1>11, HydFields DEF RefreshReads, Reaping, NoHydration, DeadStay, Grows
<1>12. ASSUME NEW c \in Calls, NEW t \in Tools, StartConnect(c, t)
       PROVE  DeadStay'
  BY <1>12, Entered DEF StartConnect, Dead, DeadStay, Grows
<1>13. ASSUME NEW c \in Calls, NEW s \in Nonces, StartCallback(c, s)
       PROVE  DeadStay'
  BY <1>13, Entered DEF StartCallback, Dead, DeadStay, Grows
<1>14. ASSUME NEW c \in Calls, ConnectReady(c)
       PROVE  DeadStay'
  BY <1>14, HydFields DEF ConnectReady, DeadStay, Grows
<1>15. ASSUME NEW c \in Calls, ConnectSave(c)
       PROVE  DeadStay'
  BY <1>15, HydFields DEF ConnectSave, DeadStay, Grows
<1>16. ASSUME NEW c \in Calls, ConnectFails(c)
       PROVE  DeadStay'
  BY <1>16, HydFields DEF ConnectFails, DeadStay, Grows
<1>17. ASSUME NEW c \in Calls, CallbackReady(c)
       PROVE  DeadStay'
  BY <1>17, HydFields DEF CallbackReady, DeadStay, Grows
<1>18. ASSUME NEW c \in Calls, CallbackValidate(c)
       PROVE  DeadStay'
  BY <1>18, HydFields DEF CallbackValidate, DeadStay, Grows
<1>19. ASSUME NEW c \in Calls, CallbackConsume(c)
       PROVE  DeadStay'
  BY <1>19, HydFields DEF CallbackConsume, DeadStay, Grows
<1>20. ASSUME NEW c \in Calls, CallbackRefused(c)
       PROVE  DeadStay'
  BY <1>20, HydFields DEF CallbackRefused, DeadStay, Grows
<1>21. ASSUME NEW c \in Calls, CallbackPrevious(c)
       PROVE  DeadStay'
  BY <1>21, HydFields DEF CallbackPrevious, DeadStay, Grows
<1>22. ASSUME NEW c \in Calls, CallbackReread(c)
       PROVE  DeadStay'
  BY <1>22, HydFields DEF CallbackReread, DeadStay, Grows
<1>23. ASSUME NEW c \in Calls, CallbackSettle(c)
       PROVE  DeadStay'
  BY <1>23, HydFields DEF CallbackSettle, DeadStay, Grows
<1>24. ASSUME NEW c \in Calls, CallbackFail(c)
       PROVE  DeadStay'
  BY <1>24, HydFields DEF CallbackFail, DeadStay, Grows
<1>25. ASSUME NEW c \in Calls, CallbackThrows(c)
       PROVE  DeadStay'
  BY <1>25, HydFields DEF CallbackThrows, DeadStay, Grows
<1>26. ASSUME NEW c \in Calls, DisconnectReady(c)
       PROVE  DeadStay'
  BY <1>26, HydFields DEF DisconnectReady, DeadStay, Grows
<1>27. ASSUME NEW c \in Calls, DisconnectRemove(c)
       PROVE  DeadStay'
  BY <1>27, HydFields DEF DisconnectRemove, DeadStay, Grows
<1>28. ASSUME NEW c \in Calls, DisconnectEnds(c)
       PROVE  DeadStay'
  BY <1>28, HydFields DEF DisconnectEnds, DeadStay, Grows
<1>29. ASSUME NEW c \in Calls, DisconnectThrows(c)
       PROVE  DeadStay'
  BY <1>29, HydFields DEF DisconnectThrows, DeadStay, Grows
<1>30. ASSUME NEW c \in Calls, RefreshFails(c)
       PROVE  DeadStay'
  BY <1>30, HydFields DEF RefreshFails, DeadStay, Grows
<1>31. ASSUME NEW c \in Calls, CallbackExchange(c)
       PROVE  DeadStay'
  BY <1>31, HydFields DEF CallbackExchange, DeadStay, Grows
<1>32. ASSUME NEW c \in Calls, NEW s \in Nonces, ConnectOffer(c, s)
       PROVE  DeadStay'
  BY <1>32, HydFields DEF ConnectOffer, DeadStay, Grows
<1>33. ASSUME NEW c \in Calls, NEW gave \in BOOLEAN, NEW probed \in BOOLEAN,
              NEW granted \in SUBSET {calls[c].tool},
              CallbackPut(c, gave, granted, probed)
       PROVE  DeadStay'
  BY <1>33, HydFields DEF CallbackPut, DeadStay, Grows
<1>34. ASSUME NEW c \in Calls, NEW gmail \in BOOLEAN, RefreshStores(c, gmail)
       PROVE  DeadStay'
  BY <1>34, HydFields DEF RefreshStores, DeadStay, Grows
<1>35. ASSUME NEW c \in Calls, NEW t \in Tools, DisconnectReset(c, t)
       PROVE  DeadStay'
  BY <1>35, HydFields DEF DisconnectReset, DeadStay, Grows
<1>36. ASSUME NEW s \in Nonces, NonceExpires(s)
       PROVE  DeadStay'
  BY <1>36, HydFields DEF NonceExpires, DeadStay, Grows
<1>37. CASE AccessExpires
  BY <1>37, HydFields DEF AccessExpires, DeadStay, Grows
<1>38. CASE Restart
  BY <1>38, HydFields DEF Restart, Reaping, NoHydration, DeadStay, Grows
<1>39. CASE UNCHANGED vars
  BY <1>39, HydFields DEF vars, DeadStay, Grows
<1> QED
  BY <1>1, <1>2, <1>3, <1>4, <1>5, <1>6, <1>7, <1>8, <1>9, <1>10, <1>11,
     <1>12, <1>13, <1>14, <1>15, <1>16, <1>17, <1>18, <1>19, <1>20, <1>21,
     <1>22, <1>23, <1>24, <1>25, <1>26, <1>27, <1>28, <1>29, <1>30, <1>31,
     <1>32, <1>33, <1>34, <1>35, <1>36, <1>37, <1>38, <1>39
     DEF Next, Hydrate, Arrive, Advance

\* While the hydration stands still no handshake becomes doomed.
LEMMA PendingCarried ==
  ASSUME TypeOK, Fresh, DeadStay, Pending,
         \/ hyd' = hyd
         \/ hyd' = [hyd EXCEPT !.alone = FALSE]
  PROVE  Pending'
<1> SUFFICES ASSUME NEW t \in Reaped, Connecting(t)',
                    conn'[t].nonce \in hyd'.dead
             PROVE  \/ hyd'.step \in {"records", "summaries", "upserts"}
                    \/ t \in hyd'.todo
                    \/ /\ hyd'.step = "nonce" /\ hyd'.tool = t
                       /\ hyd'.nonce = conn'[t].nonce
  BY DEF Pending
<1>1. /\ hyd'.dead = hyd.dead /\ hyd'.step = hyd.step /\ hyd'.todo = hyd.todo
      /\ hyd'.tool = hyd.tool /\ hyd'.nonce = hyd.nonce
  BY HydFields DEF HydStates
<1>2. conn'[t] = conn[t]
  BY <1>1, SetsAssumption, HydFields DEF Fresh, DeadStay, Dead, Connecting
<1> QED
  BY <1>1, <1>2 DEF Pending, Connecting

\* Every step keeps the reaper's list complete.
LEMMA PendingStep ==
  ASSUME TypeOK, Fresh, DeadStay, Pending, [Next]_vars
  PROVE  Pending'
<1>1. CASE HydRecords
  <2>1. hyd'.step = "summaries"
    BY <1>1, HydFields DEF HydRecords, HydStates
  <2> QED
    BY <2>1 DEF Pending
<1>2. CASE HydSummaries
  <2>1. hyd'.step = "upserts" \/ hyd'.todo = Reaped
    BY <1>2, HydFields DEF HydSummaries, Reaping, HydStates
  <2> QED
    BY <2>1 DEF Pending
<1>3. CASE HydNonce
  <2>1. /\ hyd.step = "nonce" /\ hyd'.dead = hyd.dead /\ hyd'.todo = hyd.todo
    BY <1>3, HydFields DEF HydNonce, HydStates
  <2>2. CASE conn' = conn /\ nonces[hyd.nonce].life = "live"
    BY <2>1, <2>2, HydFields DEF Pending, Connecting, DeadStay, Dead
  <2>3. CASE conn' = [conn EXCEPT ![hyd.tool] = Terminal]
    <3>1. \A t \in Tools : /\ t # hyd.tool => conn'[t] = conn[t]
                           /\ t = hyd.tool => conn'[t].status = "blocked"
      BY <2>3, PlainFields DEF TypeOK
    <3> QED
      BY <2>1, <3>1, SetsAssumption DEF Pending, Connecting
  <2> QED
    BY <1>3, <2>2, <2>3 DEF HydNonce
<1>4. CASE HydClose
  <2>1. /\ hyd.step = "close" /\ hyd'.dead = hyd.dead /\ hyd'.todo = hyd.todo
        /\ conn' = conn
    BY <1>4, HydFields DEF HydClose, HydStates
  <2> QED
    BY <2>1 DEF Pending, Connecting
<1>5. CASE HydEnds
  <2>1. hyd'.dead = {}
    BY <1>5 DEF HydEnds, NoHydration
  <2> QED
    BY <2>1 DEF Pending
<1>6. CASE HydFails
  <2>1. hyd'.dead = {}
    BY <1>6 DEF HydFails, NoHydration
  <2> QED
    BY <2>1 DEF Pending
<1>7. ASSUME NEW t \in Tools, HydUpsert(t)
       PROVE  Pending'
  <2>1. hyd'.step = "upserts" \/ hyd'.todo = Reaped
    BY <1>7, HydFields DEF HydUpsert, Reaping, HydStates
  <2> QED
    BY <2>1 DEF Pending
<1>8. ASSUME NEW t \in Tools, HydReap(t)
       PROVE  Pending'
  <2>1. PICK passed \in SUBSET {u \in hyd.todo : ~Connecting(u)} :
          hyd' = [hyd EXCEPT !.step = "nonce", !.todo = @ \ (passed \cup {t}),
                             !.tool = t, !.nonce = conn[t].nonce]
    BY <1>8 DEF HydReap
  <2>2. /\ hyd'.step = "nonce" /\ hyd'.todo = hyd.todo \ (passed \cup {t})
        /\ hyd'.tool = t /\ hyd'.nonce = conn[t].nonce /\ hyd'.dead = hyd.dead
    BY <2>1, HydFields DEF HydStates
  <2>3. conn' = conn /\ hyd.step = "reap"
    BY <1>8 DEF HydReap
  <2> QED
    BY <2>2, <2>3 DEF Pending, Connecting
<1>9. ASSUME NEW c \in Calls, View(c)
       PROVE  Pending'
  <2>1. CASE hyd.step = "off"
    <3>1. hyd'.step = "records"
      BY <1>9, <2>1 DEF View, Enter, NoHydration
    <3> QED
      BY <3>1 DEF Pending
  <2>2. CASE hyd.step # "off"
    BY <1>9, <2>2, PendingCarried DEF View, Enter
  <2> QED
    BY <2>1, <2>2
<1>10. ASSUME NEW c \in Calls, StartDisconnect(c)
       PROVE  Pending'
  <2>1. CASE hyd.step = "off"
    <3>1. hyd'.step = "records"
      BY <1>10, <2>1 DEF StartDisconnect, Enter, NoHydration
    <3> QED
      BY <3>1 DEF Pending
  <2>2. CASE hyd.step # "off"
    BY <1>10, <2>2, PendingCarried DEF StartDisconnect, Enter
  <2> QED
    BY <2>1, <2>2
<1>11. ASSUME NEW c \in Calls, RefreshReads(c)
       PROVE  Pending'
  BY <1>11, PendingCarried DEF RefreshReads
<1>12. ASSUME NEW c \in Calls, NEW t \in Tools, StartConnect(c, t)
       PROVE  Pending'
  <2>1. CASE hyd.step = "off"
    <3>1. hyd'.step = "records"
      BY <1>12, <2>1 DEF StartConnect, Enter, NoHydration
    <3> QED
      BY <3>1 DEF Pending
  <2>2. CASE hyd.step # "off"
    BY <1>12, <2>2, PendingCarried DEF StartConnect, Enter
  <2> QED
    BY <2>1, <2>2
<1>13. ASSUME NEW c \in Calls, NEW s \in Nonces, StartCallback(c, s)
       PROVE  Pending'
  <2>1. CASE hyd.step = "off"
    <3>1. hyd'.step = "records"
      BY <1>13, <2>1 DEF StartCallback, Enter, NoHydration
    <3> QED
      BY <3>1 DEF Pending
  <2>2. CASE hyd.step # "off"
    BY <1>13, <2>2, PendingCarried DEF StartCallback, Enter
  <2> QED
    BY <2>1, <2>2
<1>14. ASSUME NEW c \in Calls, ConnectReady(c)
       PROVE  Pending'
  BY <1>14, PendingCarried DEF ConnectReady
<1>15. ASSUME NEW c \in Calls, ConnectSave(c)
       PROVE  Pending'
  BY <1>15, PendingCarried DEF ConnectSave
<1>16. ASSUME NEW c \in Calls, ConnectFails(c)
       PROVE  Pending'
  BY <1>16, PendingCarried DEF ConnectFails
<1>17. ASSUME NEW c \in Calls, CallbackReady(c)
       PROVE  Pending'
  BY <1>17, PendingCarried DEF CallbackReady
<1>18. ASSUME NEW c \in Calls, CallbackValidate(c)
       PROVE  Pending'
  BY <1>18, PendingCarried DEF CallbackValidate
<1>19. ASSUME NEW c \in Calls, CallbackConsume(c)
       PROVE  Pending'
  BY <1>19, PendingCarried DEF CallbackConsume
<1>20. ASSUME NEW c \in Calls, CallbackRefused(c)
       PROVE  Pending'
  BY <1>20, PendingCarried DEF CallbackRefused
<1>21. ASSUME NEW c \in Calls, CallbackPrevious(c)
       PROVE  Pending'
  BY <1>21, PendingCarried DEF CallbackPrevious
<1>22. ASSUME NEW c \in Calls, CallbackReread(c)
       PROVE  Pending'
  BY <1>22, PendingCarried DEF CallbackReread
<1>23. ASSUME NEW c \in Calls, CallbackSettle(c)
       PROVE  Pending'
  BY <1>23, PendingCarried DEF CallbackSettle
<1>24. ASSUME NEW c \in Calls, CallbackFail(c)
       PROVE  Pending'
  BY <1>24, PendingCarried DEF CallbackFail
<1>25. ASSUME NEW c \in Calls, CallbackThrows(c)
       PROVE  Pending'
  BY <1>25, PendingCarried DEF CallbackThrows
<1>26. ASSUME NEW c \in Calls, DisconnectReady(c)
       PROVE  Pending'
  BY <1>26, PendingCarried DEF DisconnectReady
<1>27. ASSUME NEW c \in Calls, DisconnectRemove(c)
       PROVE  Pending'
  BY <1>27, PendingCarried DEF DisconnectRemove
<1>28. ASSUME NEW c \in Calls, DisconnectEnds(c)
       PROVE  Pending'
  BY <1>28, PendingCarried DEF DisconnectEnds
<1>29. ASSUME NEW c \in Calls, DisconnectThrows(c)
       PROVE  Pending'
  BY <1>29, PendingCarried DEF DisconnectThrows
<1>30. ASSUME NEW c \in Calls, RefreshFails(c)
       PROVE  Pending'
  BY <1>30, PendingCarried DEF RefreshFails
<1>31. ASSUME NEW c \in Calls, CallbackExchange(c)
       PROVE  Pending'
  BY <1>31, PendingCarried DEF CallbackExchange
<1>32. ASSUME NEW c \in Calls, NEW s \in Nonces, ConnectOffer(c, s)
       PROVE  Pending'
  BY <1>32, PendingCarried DEF ConnectOffer
<1>33. ASSUME NEW c \in Calls, NEW gave \in BOOLEAN, NEW probed \in BOOLEAN,
              NEW granted \in SUBSET {calls[c].tool},
              CallbackPut(c, gave, granted, probed)
       PROVE  Pending'
  BY <1>33, PendingCarried DEF CallbackPut
<1>34. ASSUME NEW c \in Calls, NEW gmail \in BOOLEAN, RefreshStores(c, gmail)
       PROVE  Pending'
  BY <1>34, PendingCarried DEF RefreshStores
<1>35. ASSUME NEW c \in Calls, NEW t \in Tools, DisconnectReset(c, t)
       PROVE  Pending'
  BY <1>35, PendingCarried DEF DisconnectReset
<1>36. ASSUME NEW s \in Nonces, NonceExpires(s)
       PROVE  Pending'
  BY <1>36, PendingCarried DEF NonceExpires
<1>37. CASE AccessExpires
  BY <1>37, PendingCarried DEF AccessExpires
<1>38. CASE Restart
  <2>1. hyd'.dead = {}
    BY <1>38 DEF Restart, NoHydration
  <2> QED
    BY <2>1 DEF Pending
<1>39. CASE UNCHANGED vars
  BY <1>39, PendingCarried DEF vars
<1> QED
  BY <1>1, <1>2, <1>3, <1>4, <1>5, <1>6, <1>7, <1>8, <1>9, <1>10, <1>11,
     <1>12, <1>13, <1>14, <1>15, <1>16, <1>17, <1>18, <1>19, <1>20, <1>21,
     <1>22, <1>23, <1>24, <1>25, <1>26, <1>27, <1>28, <1>29, <1>30, <1>31,
     <1>32, <1>33, <1>34, <1>35, <1>36, <1>37, <1>38, <1>39
     DEF Next, Hydrate, Arrive, Advance

\* A request that has got past the session contradicts a lonely hydration.
LEMMA Busy ==
  ASSUME TypeOK, Alone, NEW c \in Calls, calls[c].pc \notin {"-", "session"}
  PROVE  ~hyd.alone
BY HydFields DEF Alone

\* An arriving request finds nothing to correct, or ends the loneliness.
LEMMA AloneEntered ==
  ASSUME Base, NEW c \in Calls, NEW request, Enter(c, request),
         request.pc = "session"
  PROVE  Alone'
<1>1. CASE hyd.step = "off"
  <2>1. /\ hyd'.step = "records" /\ calls'[c].pc = "session"
        /\ hyd'.alone => \A d \in Calls : calls[d] = Idle
        /\ \A d \in Calls : d # c => calls'[d] = calls[d]
    BY <1>1, Entered DEF Base
  <2> QED
    BY <2>1 DEF Alone, Idle
<1>2. CASE hyd.step # "off"
  <2>1. hyd'.alone = FALSE
    BY <1>2, Entered DEF Base
  <2> QED
    BY <2>1 DEF Alone
<1> QED
  BY <1>1, <1>2

\* Beside others nothing is promised.
LEMMA NotAlone ==
  ASSUME TypeOK, ~hyd.alone, hyd' = hyd
  PROVE  Alone'
BY DEF Alone

\* Every step keeps the reconciliation's list complete.
LEMMA AloneStep ==
  ASSUME Base, Alone, [Next]_vars
  PROVE  Alone'
<1>1. CASE HydRecords
  <2> DEFINE known == {t \in Tools : tools[t] # "none"}
              built == {t \in known : ~Connecting(t)}
  <2>1. /\ hyd'.step = "summaries" /\ hyd'.alone = hyd.alone /\ hyd'.known = known
    BY <1>1, HydFields DEF HydRecords, HydStates, Base
  <2>2. \A t \in Tools : t \in known \/ conn'[t] = conn[t]
    BY <1>1 DEF HydRecords
  <2>3. \A c \in Calls : calls'[c].pc = calls[c].pc
    <3>1. calls' = Detach(built)
      BY <1>1 DEF HydRecords
    <3> QED
      BY <3>1, DetachTypes DEF Base
  <2> QED
    BY <2>1, <2>2, <2>3 DEF Alone, Base, Backed, ConnInv, Known
<1>2. CASE HydSummaries
  <2> DEFINE written == {t \in Tools : ~Connecting(t)
                                        /\ (row.stored \/ t \in hyd.known)}
  <2>1. /\ hyd.step = "summaries" /\ UNCHANGED <<row, conn, calls>>
    BY <1>2 DEF HydSummaries
  <2>2. CASE written = {}
    <3>1. hyd'.step = "reap" /\ hyd'.alone = hyd.alone
      BY <1>2, <2>2, HydFields DEF HydSummaries, Reaping, HydStates, Base
    <3> QED
      BY <2>1, <2>2, <3>1 DEF Alone, Connecting
  <2>3. CASE written # {}
    <3>1. /\ hyd'.step = "upserts" /\ hyd'.alone = hyd.alone
          /\ hyd'.held = row /\ hyd'.todo = written
      BY <1>2, <2>3, HydFields DEF HydSummaries, HydStates, Base
    <3> QED
      BY <2>1, <3>1 DEF Alone, Connecting
  <2> QED
    BY <2>2, <2>3
<1>3. CASE HydNonce
  <2>1. /\ hyd.step = "nonce" /\ UNCHANGED <<row, calls>>
        /\ hyd'.step \in {"reap", "close"} /\ hyd'.alone = hyd.alone
    BY <1>3, HydFields DEF HydNonce, HydStates, Base
  <2>2. \A t \in Tools : conn'[t] = conn[t] \/ conn'[t] = Terminal
    BY <1>3 DEF HydNonce, Base, TypeOK
  <2> QED
    BY <2>1, <2>2, PlainFields DEF Alone, Operational
<1>4. CASE HydClose
  <2>1. /\ hyd.step = "close" /\ UNCHANGED <<row, conn, calls>>
    BY <1>4 DEF HydClose
  <2>2. hyd'.step = "reap" /\ hyd'.alone = hyd.alone
    BY <1>4, HydFields DEF HydClose, HydStates, Base
  <2> QED
    BY <2>1, <2>2 DEF Alone, Operational
<1>5. CASE HydEnds
  <2>1. hyd'.alone = FALSE
    BY <1>5 DEF HydEnds, NoHydration
  <2> QED
    BY <2>1 DEF Alone
<1>6. CASE HydFails
  <2>1. hyd'.alone = FALSE
    BY <1>6 DEF HydFails, NoHydration
  <2> QED
    BY <2>1 DEF Alone
<1>7. ASSUME NEW t \in Tools, HydUpsert(t)
       PROVE  Alone'
  <2> DEFINE status == Lifecycle(Operational(hyd.held, t))
  <2>1. /\ hyd.step = "upserts" /\ row' = row
        /\ conn'[t] = Projection(status)
        /\ \A u \in Tools : u # t => conn'[u] = conn[u]
    BY <1>7 DEF HydUpsert, Base, TypeOK
  <2>2. conn'[t].status = "connected" => Operational(hyd.held, t)
    BY <2>1, PlainFields DEF Lifecycle
  <2>3. \A c \in Calls : calls'[c].pc = calls[c].pc
    <3>1. calls' = Detach({t})
      BY <1>7 DEF HydUpsert
    <3> QED
      BY <3>1, DetachTypes DEF Base
  <2>4. CASE hyd.todo = {t}
    <3>1. hyd'.step = "reap" /\ hyd'.alone = hyd.alone
      BY <1>7, <2>4, HydFields DEF HydUpsert, Reaping, HydStates, Base
    <3> QED
      BY <2>1, <2>2, <2>3, <2>4, <3>1 DEF Alone, Operational
  <2>5. CASE hyd.todo # {t}
    <3>1. /\ hyd'.step = "upserts" /\ hyd'.alone = hyd.alone
          /\ hyd'.held = hyd.held /\ hyd'.todo = hyd.todo \ {t}
      BY <1>7, <2>5, HydFields DEF HydUpsert, HydStates, Base
    <3> QED
      BY <2>1, <2>2, <2>3, <3>1 DEF Alone, Operational
  <2> QED
    BY <2>4, <2>5
<1>8. ASSUME NEW t \in Tools, HydReap(t)
       PROVE  Alone'
  <2>1. /\ hyd.step = "reap" /\ UNCHANGED <<row, conn, calls>>
    BY <1>8 DEF HydReap
  <2>2. hyd'.step = "nonce" /\ hyd'.alone = hyd.alone
    BY <1>8, HydFields DEF HydReap, HydStates, Base
  <2> QED
    BY <2>1, <2>2 DEF Alone, Operational
<1>9. ASSUME NEW c \in Calls, View(c)
       PROVE  Alone'
  <2>1. Request("view", None, None).pc = "session"
    BY DEF Request, Idle
  <2> QED
    BY <1>9, <2>1, AloneEntered DEF View
<1>10. ASSUME NEW c \in Calls, StartDisconnect(c)
       PROVE  Alone'
  <2>1. Request("disconnect", None, None).pc = "session"
    BY DEF Request, Idle
  <2> QED
    BY <1>10, <2>1, AloneEntered DEF StartDisconnect
<1>11. ASSUME NEW c \in Calls, RefreshReads(c)
       PROVE  Alone'
  <2>1. hyd'.alone = FALSE
    BY <1>11, HydFields DEF RefreshReads, HydStates
  <2> QED
    BY <2>1 DEF Alone
<1>12. ASSUME NEW c \in Calls, NEW t \in Tools, StartConnect(c, t)
       PROVE  Alone'
  <2>1. Request("connect", t, None).pc = "session"
    BY DEF Request, Idle
  <2> QED
    BY <1>12, <2>1, AloneEntered DEF StartConnect
<1>13. ASSUME NEW c \in Calls, NEW s \in Nonces, StartCallback(c, s)
       PROVE  Alone'
  <2>1. Request("callback", nonces[s].tool, s).pc = "session"
    BY DEF Request, Idle
  <2> QED
    BY <1>13, <2>1, AloneEntered DEF StartCallback
<1>14. ASSUME NEW c \in Calls, ConnectReady(c)
       PROVE  Alone'
  <2>1. ~hyd.alone /\ hyd' = hyd
    BY <1>14, Busy DEF ConnectReady, At, Base
  <2> QED
    BY <2>1, NotAlone DEF Base
<1>15. ASSUME NEW c \in Calls, ConnectSave(c)
       PROVE  Alone'
  <2>1. ~hyd.alone /\ hyd' = hyd
    BY <1>15, Busy DEF ConnectSave, At, Base
  <2> QED
    BY <2>1, NotAlone DEF Base
<1>16. ASSUME NEW c \in Calls, ConnectFails(c)
       PROVE  Alone'
  <2>1. ~hyd.alone /\ hyd' = hyd
    BY <1>16, Busy DEF ConnectFails, At, Base
  <2> QED
    BY <2>1, NotAlone DEF Base
<1>17. ASSUME NEW c \in Calls, CallbackReady(c)
       PROVE  Alone'
  <2>1. ~hyd.alone /\ hyd' = hyd
    BY <1>17, Busy DEF CallbackReady, At, Base
  <2> QED
    BY <2>1, NotAlone DEF Base
<1>18. ASSUME NEW c \in Calls, CallbackValidate(c)
       PROVE  Alone'
  <2>1. ~hyd.alone /\ hyd' = hyd
    BY <1>18, Busy DEF CallbackValidate, At, Base
  <2> QED
    BY <2>1, NotAlone DEF Base
<1>19. ASSUME NEW c \in Calls, CallbackConsume(c)
       PROVE  Alone'
  <2>1. ~hyd.alone /\ hyd' = hyd
    BY <1>19, Busy DEF CallbackConsume, At, Base
  <2> QED
    BY <2>1, NotAlone DEF Base
<1>20. ASSUME NEW c \in Calls, CallbackRefused(c)
       PROVE  Alone'
  <2>1. ~hyd.alone /\ hyd' = hyd
    BY <1>20, Busy DEF CallbackRefused, At, Base
  <2> QED
    BY <2>1, NotAlone DEF Base
<1>21. ASSUME NEW c \in Calls, CallbackPrevious(c)
       PROVE  Alone'
  <2>1. ~hyd.alone /\ hyd' = hyd
    BY <1>21, Busy DEF CallbackPrevious, At, Base
  <2> QED
    BY <2>1, NotAlone DEF Base
<1>22. ASSUME NEW c \in Calls, CallbackReread(c)
       PROVE  Alone'
  <2>1. ~hyd.alone /\ hyd' = hyd
    BY <1>22, Busy DEF CallbackReread, At, Base
  <2> QED
    BY <2>1, NotAlone DEF Base
<1>23. ASSUME NEW c \in Calls, CallbackSettle(c)
       PROVE  Alone'
  <2>1. ~hyd.alone /\ hyd' = hyd
    BY <1>23, Busy DEF CallbackSettle, At, Base
  <2> QED
    BY <2>1, NotAlone DEF Base
<1>24. ASSUME NEW c \in Calls, CallbackFail(c)
       PROVE  Alone'
  <2>1. ~hyd.alone /\ hyd' = hyd
    BY <1>24, Busy DEF CallbackFail, At, Base
  <2> QED
    BY <2>1, NotAlone DEF Base
<1>25. ASSUME NEW c \in Calls, CallbackThrows(c)
       PROVE  Alone'
  <2>1. ~hyd.alone /\ hyd' = hyd
    BY <1>25, Busy DEF CallbackThrows, At, Base
  <2> QED
    BY <2>1, NotAlone DEF Base
<1>26. ASSUME NEW c \in Calls, DisconnectReady(c)
       PROVE  Alone'
  <2>1. ~hyd.alone /\ hyd' = hyd
    BY <1>26, Busy DEF DisconnectReady, At, Base
  <2> QED
    BY <2>1, NotAlone DEF Base
<1>27. ASSUME NEW c \in Calls, DisconnectRemove(c)
       PROVE  Alone'
  <2>1. ~hyd.alone /\ hyd' = hyd
    BY <1>27, Busy DEF DisconnectRemove, At, Base
  <2> QED
    BY <2>1, NotAlone DEF Base
<1>28. ASSUME NEW c \in Calls, DisconnectEnds(c)
       PROVE  Alone'
  <2>1. ~hyd.alone /\ hyd' = hyd
    BY <1>28, Busy DEF DisconnectEnds, At, Base
  <2> QED
    BY <2>1, NotAlone DEF Base
<1>29. ASSUME NEW c \in Calls, DisconnectThrows(c)
       PROVE  Alone'
  <2>1. ~hyd.alone /\ hyd' = hyd
    BY <1>29, Busy DEF DisconnectThrows, At, Base
  <2> QED
    BY <2>1, NotAlone DEF Base
<1>30. ASSUME NEW c \in Calls, RefreshFails(c)
       PROVE  Alone'
  <2>1. ~hyd.alone /\ hyd' = hyd
    BY <1>30, Busy DEF RefreshFails, At, Base
  <2> QED
    BY <2>1, NotAlone DEF Base
<1>31. ASSUME NEW c \in Calls, CallbackExchange(c)
       PROVE  Alone'
  <2>1. ~hyd.alone /\ hyd' = hyd
    BY <1>31, Busy DEF CallbackExchange, At, Base
  <2> QED
    BY <2>1, NotAlone DEF Base
<1>32. ASSUME NEW c \in Calls, NEW s \in Nonces, ConnectOffer(c, s)
       PROVE  Alone'
  <2>1. ~hyd.alone /\ hyd' = hyd
    BY <1>32, Busy DEF ConnectOffer, At, Base
  <2> QED
    BY <2>1, NotAlone DEF Base
<1>33. ASSUME NEW c \in Calls, NEW gave \in BOOLEAN, NEW probed \in BOOLEAN,
              NEW granted \in SUBSET {calls[c].tool},
              CallbackPut(c, gave, granted, probed)
       PROVE  Alone'
  <2>1. ~hyd.alone /\ hyd' = hyd
    BY <1>33, Busy DEF CallbackPut, At, Base
  <2> QED
    BY <2>1, NotAlone DEF Base
<1>34. ASSUME NEW c \in Calls, NEW gmail \in BOOLEAN, RefreshStores(c, gmail)
       PROVE  Alone'
  <2>1. ~hyd.alone /\ hyd' = hyd
    BY <1>34, Busy DEF RefreshStores, At, Base
  <2> QED
    BY <2>1, NotAlone DEF Base
<1>35. ASSUME NEW c \in Calls, NEW t \in Tools, DisconnectReset(c, t)
       PROVE  Alone'
  <2>1. ~hyd.alone /\ hyd' = hyd
    BY <1>35, Busy DEF DisconnectReset, At, Base
  <2> QED
    BY <2>1, NotAlone DEF Base
<1>36. ASSUME NEW s \in Nonces, NonceExpires(s)
       PROVE  Alone'
  BY <1>36 DEF NonceExpires, Alone, Operational
<1>37. CASE AccessExpires
  <2>1. \A t \in Tools : Operational(row, t)' <=> Operational(row, t)
    BY <1>37 DEF AccessExpires, Operational, Base, TypeOK, Rows
  <2> QED
    BY <1>37, <2>1 DEF AccessExpires, Alone, Operational
<1>38. CASE Restart
  <2>1. hyd'.alone = FALSE
    BY <1>38 DEF Restart, NoHydration
  <2> QED
    BY <2>1 DEF Alone
<1>39. CASE UNCHANGED vars
  BY <1>39 DEF vars, Alone, Operational
<1> QED
  BY <1>1, <1>2, <1>3, <1>4, <1>5, <1>6, <1>7, <1>8, <1>9, <1>10, <1>11,
     <1>12, <1>13, <1>14, <1>15, <1>16, <1>17, <1>18, <1>19, <1>20, <1>21,
     <1>22, <1>23, <1>24, <1>25, <1>26, <1>27, <1>28, <1>29, <1>30, <1>31,
     <1>32, <1>33, <1>34, <1>35, <1>36, <1>37, <1>38, <1>39
     DEF Next, Hydrate, Arrive, Advance

-----------------------------------------------------------------------------
(* Invariance.                                                             *)

IInv == Base /\ DeadStay /\ Pending /\ Alone

\* The invariant holds initially.
LEMMA InitIInv == Init => IInv
<1> SUFFICES ASSUME Init PROVE IInv
  OBVIOUS
<1>1. PICK S \in SUBSET Tools :
        /\ row = IF S = {} THEN NoRow
                 ELSE [stored |-> TRUE, access |-> None, refresh |-> TRUE,
                       fresh |-> FALSE, scopes |-> S, caps |-> S,
                       verified |-> TRUE]
        /\ tools = [t \in Tools |-> IF t \in S THEN "connected" ELSE "none"]
        /\ proven = S /\ probes = S \X {"own"}
  BY DEF Init
<1>2. TypeOK
  <2>1. row \in Rows
    <3>1. CASE S = {}
      BY <1>1, <3>1, NoRowTyped
    <3>2. CASE S # {}
      <4>1. row = [stored |-> TRUE, access |-> None, refresh |-> TRUE,
                   fresh |-> FALSE, scopes |-> S, caps |-> S,
                   verified |-> TRUE]
        BY <1>1, <3>2
      <4> QED
        BY <4>1 DEF Rows
    <3> QED
      BY <3>1, <3>2
  <2>2. nonces \in [Nonces -> States]
    BY DEF Init, States
  <2>3. conn \in [Tools -> Connections]
    BY PlainTyped DEF Init, Statuses
  <2>4. calls \in [Calls -> CallStates] /\ hyd \in HydStates
    BY IdleTyped, NoHydrationTyped DEF Init
  <2>5. failures \in 0..MaxFailures /\ restarts \in 0..MaxRestarts
    BY BoundsAssumption DEF Init
  <2> QED
    BY <1>1, <2>1, <2>2, <2>3, <2>4, <2>5 DEF TypeOK
<1>3. \A c \in Calls : calls[c] = Idle
  BY DEF Init
<1>4. Callers
  BY <1>3 DEF Idle, NoRow, Callers, CallInv, RowInv, Shut, LetIn
<1>5. Offered
  BY DEF Init, Offered, StateInv
<1>6. Backed
  <2>1. \A t \in Tools : /\ conn[t].status = "absent" /\ conn[t].nonce = None
                         /\ conn[t].certified = FALSE
    BY PlainFields DEF Init
  <2> QED
    BY <1>1, <2>1 DEF Backed, ConnInv, Connecting
<1>7. RowInv(row) /\ proven \subseteq Vouched
  <2>1. S \subseteq Vouched
    BY <1>1 DEF Vouched
  <2> QED
    BY <1>1, <2>1 DEF NoRow, RowInv, Known
<1>8. hyd.dead = {} /\ hyd.alone = FALSE /\ RowInv(hyd.held)
  BY DEF Init, NoHydration, NoRow, RowInv
<1>9. DeadStay /\ Pending /\ Alone
  BY <1>8 DEF DeadStay, Pending, Alone
<1> QED
  BY <1>2, <1>4, <1>5, <1>6, <1>7, <1>8, <1>9 DEF IInv, Base, Evidence

\* Every step keeps the invariant.
LEMMA StepIInv == IInv /\ [Next]_vars => IInv'
<1> SUFFICES ASSUME IInv, [Next]_vars PROVE IInv'
  OBVIOUS
<1>1. TypeOK' /\ Grows /\ Fresh
  BY TypeStep, GrowsStep, FreshStep DEF IInv, Base
<1>2. Offered' /\ Backed' /\ Evidence' /\ Callers'
  BY <1>1, OfferedStep, BackedStep, EvidenceStep, CallersStep DEF IInv
<1>3. DeadStay' /\ Pending' /\ Alone'
  BY <1>1, DeadStep, PendingStep, AloneStep DEF IInv, Base
<1> QED
  BY <1>1, <1>2, <1>3 DEF IInv, Base

\* The invariant holds in every behaviour of the connection code.
THEOREM Invariance == Spec => []IInv
BY InitIInv, StepIInv, PTL DEF Spec

-----------------------------------------------------------------------------
(* What the invariant gives.                                               *)

\* The variables keep their types, whatever overlaps, fails or restarts.
THEOREM TypeCorrect == Spec => []TypeOK
<1>1. IInv => TypeOK
  BY DEF IInv, Base
<1> QED
  BY <1>1, Invariance, PTL

\* No tool is called connected, in the session or in its durable status,
\* before a row with a refresh token has certified it and the probe of one of
\* its own callbacks was answered: by its own API or, for Gmail, by another.
THEOREM ConnectionsProven == Spec => []ConnectedWasProven
<1>1. IInv => ConnectedWasProven
  BY DEF IInv, Base, Backed, ConnInv, Evidence, ConnectedWasProven
<1> QED
  BY <1>1, Invariance, PTL

\* The row and the request of c change together only when c writes the row.
Writes(c) ==
  \/ \E gave, probed \in BOOLEAN, granted \in SUBSET {calls[c].tool} :
       CallbackPut(c, gave, granted, probed)
  \/ \E gmail \in BOOLEAN : RefreshStores(c, gmail)

LEMMA Changing ==
  ASSUME TypeOK, [Next]_vars, NEW c \in Calls, row' # row,
         calls'[c] # calls[c], calls[c].pc \in {"put", "refreshing"}
  PROVE  Writes(c)
<1>1. ASSUME NEW d \in Calls, Advance(d)
      PROVE  Writes(c)
  <2>1. CASE DisconnectRemove(d)
    BY <2>1 DEF DisconnectRemove, At, TypeOK
  <2>2. ASSUME NEW gave \in BOOLEAN, NEW probed \in BOOLEAN,
               NEW granted \in SUBSET {calls[d].tool},
               CallbackPut(d, gave, granted, probed)
        PROVE  Writes(c)
    <3>1. d = c
      BY <2>2 DEF CallbackPut, TypeOK
    <3> QED
      BY <2>2, <3>1 DEF Writes
  <2>3. ASSUME NEW gmail \in BOOLEAN, RefreshStores(d, gmail)
        PROVE  Writes(c)
    <3>1. d = c
      BY <2>3 DEF RefreshStores, Ends, TypeOK
    <3> QED
      BY <2>3, <3>1 DEF Writes
  <2> QED
    BY <1>1, <2>1, <2>2, <2>3
    DEF Advance, ConnectReady, ConnectSave, ConnectFails, CallbackReady,
        CallbackValidate, CallbackConsume, CallbackRefused, CallbackPrevious,
        CallbackReread, CallbackSettle, CallbackFail, CallbackThrows,
        DisconnectReady, DisconnectEnds, DisconnectThrows, RefreshFails,
        CallbackExchange, ConnectOffer, DisconnectReset
<1>2. CASE \E d \in Calls : Arrive(d)
  BY <1>2 DEF Arrive, View, StartDisconnect, RefreshReads, StartConnect,
              StartCallback, Enter
<1>3. CASE Hydrate
  BY <1>3 DEF Hydrate, HydRecords, HydSummaries, HydNonce, HydClose, HydEnds,
              HydFails, HydUpsert, HydReap
<1>4. CASE \E s \in Nonces : NonceExpires(s)
  BY <1>4 DEF NonceExpires
<1>5. CASE AccessExpires \/ Restart \/ UNCHANGED vars
  BY <1>5 DEF AccessExpires, Restart, vars
<1> QED
  BY <1>1, <1>2, <1>3, <1>4, <1>5 DEF Next

\* A write over the row that was read takes nothing from it.
LEMMA GrowsOnly ==
  ASSUME IInv, [Next]_vars, NEW c \in Calls,
         calls[c].pc \in {"put", "refreshing"}, row' # row,
         calls'[c] # calls[c], calls[c].held = row
  PROVE  /\ row.scopes \subseteq row'.scopes /\ row.caps \subseteq row'.caps
         /\ row.refresh => row'.refresh
         /\ row.verified => row'.verified
<1>1. CASE calls[c].pc = "put"
  <2>1. PICK gave \in BOOLEAN, probed \in BOOLEAN,
             granted \in SUBSET {calls[c].tool} :
          CallbackPut(c, gave, granted, probed)
    BY <1>1, Changing DEF Writes, RefreshStores, At, IInv, Base
  <2> QED
    BY <2>1 DEF CallbackPut, Merge
<1>2. CASE calls[c].pc = "refreshing"
  <2>1. PICK gmail \in BOOLEAN : RefreshStores(c, gmail)
    BY <1>2, Changing DEF Writes, CallbackPut, At, IInv, Base
  <2>2. row' = [row EXCEPT !.access = c, !.fresh = TRUE,
                           !.verified = @ \/ gmail]
    BY <2>1 DEF RefreshStores, Refreshed
  <2> QED
    BY <2>2 DEF IInv, Base, TypeOK, Rows
<1> QED
  BY <1>1, <1>2

\* A callback or a refresh that writes over the row it has read removes no
\* scope, no capability and no refresh token.
THEOREM GrantsGrow == Spec => GrantsOnlyGrow
<1>1. IInv /\ [Next]_vars =>
        [\A c \in Calls :
           /\ calls[c].pc \in {"put", "refreshing"} /\ row' # row
           /\ calls'[c] # calls[c] /\ calls[c].held = row
           => /\ row.scopes \subseteq row'.scopes
              /\ row.caps \subseteq row'.caps
              /\ row.refresh => row'.refresh
              /\ row.verified => row'.verified]_vars
  BY GrowsOnly
<1> QED
  BY <1>1, Invariance, PTL DEF Spec, GrantsOnlyGrow

\* Moving on keeps the kind of a request.
LEMMA GoesStays ==
  ASSUME TypeOK, NEW c \in Calls, NEW pc \in Steps, Goes(c, pc)
  PROVE  calls'[c].kind = calls[c].kind
<1>1. calls'[c] = [calls[c] EXCEPT !.pc = pc]
  BY DEF Goes, TypeOK
<1> QED
  BY <1>1, CallFields DEF CallStates

\* So does the catch block.
LEMMA RefusedStays ==
  ASSUME TypeOK, NEW c \in Calls, Refused(c)
  PROVE  calls'[c].kind = calls[c].kind
BY GoesStays DEF Refused, Steps

\* A callback that was let in goes only from its last step, or from the
\* failed persistence of the catch block.
LEMMA Leaving ==
  ASSUME IInv, [Next]_vars, NEW c \in Calls, LetIn(calls[c]),
         calls'[c].kind = "idle", restarts' = restarts
  PROVE  conn' = conn /\ calls[c].pc \in {"settle", "fail"}
<1> USE DEF IInv, Base, LetIn
<1>1. ASSUME NEW d \in Calls, Advance(d)
      PROVE  conn' = conn /\ calls[c].pc \in {"settle", "fail"}
  <2>1. d = c
    <3>1. \A e \in Calls : e # d => calls'[e] = calls[e]
      BY <1>1 DEF Advance, ConnectReady, ConnectSave, ConnectFails,
        CallbackReady, CallbackValidate, CallbackConsume, CallbackRefused,
        CallbackPrevious, CallbackReread, CallbackSettle, CallbackFail,
        CallbackThrows, DisconnectReady, DisconnectRemove, DisconnectEnds,
        DisconnectThrows, RefreshFails, CallbackExchange, ConnectOffer,
        CallbackPut, RefreshStores, DisconnectReset, Goes, Ends, Refused, TypeOK
    <3> QED
      BY <3>1
  <2>2. CASE CallbackSettle(c) \/ CallbackFail(c)
    BY <2>2 DEF CallbackSettle, CallbackFail, At
  <2>3. CASE CallbackThrows(c)
    <3>1. calls[c].pc = "fail" \/ Refused(c)
      BY <2>3 DEF CallbackThrows
    <3>2. ~Refused(c)
      BY RefusedStays
    <3> QED
      BY <2>3, <3>1, <3>2 DEF CallbackThrows, Refused
  <2>4. CASE \/ CallbackValidate(c) \/ CallbackConsume(c) \/ CallbackRefused(c)
             \/ CallbackReread(c) \/ CallbackExchange(c)
    BY <2>4, RefusedStays, GoesStays
    DEF CallbackValidate, CallbackConsume, CallbackRefused, CallbackReread,
        CallbackExchange, Steps
  <2>5. CASE CallbackPrevious(c)
    <3>1. calls'[c] = [calls[c] EXCEPT !.pc = "put", !.held = row]
      BY <2>5 DEF CallbackPrevious, TypeOK
    <3> QED
      BY <3>1, CallFields DEF CallStates
  <2>6. ASSUME NEW gave \in BOOLEAN, NEW probed \in BOOLEAN,
               NEW granted \in SUBSET {calls[c].tool},
               CallbackPut(c, gave, granted, probed)
        PROVE  FALSE
    <3>1. PICK b : calls'[c] = [calls[c] EXCEPT !.pc = "reread",
                                  !.held = NoRow, !.certified = b]
      BY <2>6 DEF CallbackPut, TypeOK
    <3> QED
      BY <3>1, CallFields DEF CallStates
  <2>7. CASE \/ ConnectReady(c) \/ ConnectSave(c) \/ ConnectFails(c)
             \/ CallbackReady(c) \/ DisconnectReady(c) \/ DisconnectRemove(c)
             \/ DisconnectEnds(c) \/ DisconnectThrows(c) \/ RefreshFails(c)
    BY <2>7, CallFields
    DEF ConnectReady, ConnectSave, ConnectFails, CallbackReady,
        DisconnectReady, DisconnectRemove, DisconnectEnds, DisconnectThrows,
        RefreshFails, At
  <2>8. CASE \/ \E s \in Nonces : ConnectOffer(c, s)
             \/ \E gmail \in BOOLEAN : RefreshStores(c, gmail)
             \/ \E t \in Tools : DisconnectReset(c, t)
    BY <2>8 DEF ConnectOffer, RefreshStores, DisconnectReset, At
  <2> QED
    BY <1>1, <2>1, <2>2, <2>3, <2>4, <2>5, <2>6, <2>7, <2>8 DEF Advance
<1>2. CASE HydRecords
  <2>1. PICK T \in SUBSET Tools : calls' = Detach(T)
    BY <1>2 DEF HydRecords
  <2> QED
    BY <2>1, DetachTypes
<1>3. ASSUME NEW t \in Tools, HydUpsert(t)
      PROVE  FALSE
  <2>1. calls' = Detach({t})
    BY <1>3 DEF HydUpsert
  <2> QED
    BY <2>1, DetachTypes
<1>4. CASE HydEnds \/ HydFails
  BY <1>4, ReleasedTypes DEF HydEnds, HydFails
<1>5. ASSUME NEW d \in Calls, Arrive(d)
      PROVE  FALSE
  <2>1. calls[d].kind = "idle" /\ \A e \in Calls : e # d => calls'[e] = calls[e]
    BY <1>5 DEF Arrive, View, StartDisconnect, RefreshReads, StartConnect,
                StartCallback, Enter, TypeOK
  <2> QED
    BY <2>1
<1>6. CASE \/ HydSummaries \/ HydNonce \/ HydClose \/ AccessExpires
           \/ (\E t \in Tools : HydReap(t)) \/ (\E s \in Nonces : NonceExpires(s))
           \/ UNCHANGED vars
  BY <1>6 DEF HydSummaries, HydNonce, HydClose, AccessExpires, HydReap,
              NonceExpires, vars
<1>7. CASE Restart
  BY <1>7 DEF Restart, TypeOK
<1> QED
  BY <1>1, <1>2, <1>3, <1>4, <1>5, <1>6, <1>7 DEF Next, Hydrate

\* Every callback outcome leaves connecting: also one whose connection was
\* replaced on the way, or whose persistence threw.
THEOREM CallbackCloses == Spec => CallbackLeavesConnecting
<1>1. IInv /\ [Next]_vars =>
        [\A c \in Calls :
           calls[c].kind = "callback" /\ calls[c].pc \notin {"session", "ready"}
           /\ calls'[c].kind = "idle" /\ restarts' = restarts
           => conn'[calls[c].tool].nonce # calls[c].nonce]_vars
  BY Leaving DEF IInv, Base, Callers, CallInv, Shut, LetIn
<1> QED
  BY <1>1, Invariance, PTL DEF Spec, CallbackLeavesConnecting

\* A hydration that ends well has looked at every handshake.
LEMMA EndsWell ==
  ASSUME TypeOK, [Next]_vars, hyd.step = "reap", hyd'.step = "off",
         restarts' = restarts
  PROVE  HydEnds
<1>1. CASE \E c \in Calls : Arrive(c)
  BY <1>1, HydFields DEF Arrive, View, StartDisconnect, RefreshReads,
        StartConnect, StartCallback, Enter, HydStates
<1>2. ASSUME NEW c \in Calls, Advance(c)
      PROVE  hyd' = hyd
  BY <1>2 DEF Advance, ConnectReady, ConnectSave, ConnectFails,
        CallbackReady, CallbackValidate, CallbackConsume, CallbackRefused,
        CallbackPrevious, CallbackReread, CallbackSettle, CallbackFail,
        CallbackThrows, DisconnectReady, DisconnectRemove, DisconnectEnds,
        DisconnectThrows, RefreshFails, CallbackExchange, ConnectOffer,
        CallbackPut, RefreshStores, DisconnectReset
<1>3. ASSUME NEW t \in Tools, HydReap(t)
      PROVE  HydEnds
  BY <1>3, HydFields DEF HydReap, HydStates
<1>4. CASE HydRecords \/ HydSummaries \/ HydNonce \/ HydClose \/ HydFails
           \/ \E t \in Tools : HydUpsert(t)
  BY <1>4 DEF HydRecords, HydSummaries, HydNonce, HydClose, HydFails, HydUpsert
<1>5. CASE \/ AccessExpires \/ UNCHANGED vars
           \/ \E s \in Nonces : NonceExpires(s)
  BY <1>5 DEF AccessExpires, NonceExpires, vars
<1>6. CASE Restart
  BY <1>6 DEF Restart, TypeOK
<1> QED
  BY <1>1, <1>2, <1>3, <1>4, <1>5, <1>6 DEF Next, Hydrate

\* A hydration that ends well leaves no handshake open on a nonce that was
\* dead when it began, for every tool the reaper looks at.
THEOREM HydrationReapsAll == Spec => HydrationReaps
<1>1. IInv /\ [Next]_vars =>
        [hyd.step = "reap" /\ hyd'.step = "off" /\ restarts' = restarts
         => \A t \in Reaped : Connecting(t) => conn[t].nonce \notin hyd.dead]_vars
  BY EndsWell DEF HydEnds, IInv, Base, Pending
<1> QED
  BY <1>1, Invariance, PTL DEF Spec, HydrationReaps

\* The hydration of a request that is alone leaves nothing connected that
\* the token row does not make operational.
THEOREM NothingStale == Spec => NoStaleConnected
<1>1. IInv /\ [Next]_vars =>
        [hyd.step = "reap" /\ hyd'.step = "off" /\ restarts' = restarts /\ hyd.alone
         => \A t \in Tools :
              conn[t].status = "connected" => Operational(row, t)]_vars
  BY DEF IInv, Alone
<1> QED
  BY <1>1, Invariance, PTL DEF Spec, NoStaleConnected
=============================================================================
