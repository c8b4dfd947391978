--------------------------- MODULE GoogleConnection ---------------------------
(***************************************************************************)
(* The Google connection of one organisation: the OAuth handshake of       *)
(* connect and callback, the durable token row with its refreshes, the     *)
(* disconnect, and the hydration of the session that every request shares. *)
(*                                                                         *)
(*   server/routes/customer-zero-v2.ts      connect, callback, disconnect, *)
(*                                          requireSession and the reaper  *)
(*   customer-zero/customer-zero-session.ts hydration, reconciliation      *)
(*   customer-zero/google-tokens.ts         the callback pipeline, merging *)
(*   customer-zero/oauth-state.ts           the nonces                     *)
(*   customer-zero/{gmail,google-calendar,google-drive}-adapter.ts         *)
(*                                          the refresh of an access token *)
(*                                                                         *)
(* One step of a request, or of the hydration, is one await: the store or  *)
(* Google answers, and the code runs on until it awaits again.  Requests   *)
(* run in one backend process; a restart loses its memory, not the rows.   *)
(* A tool stands for the one capability its callback probes and the scope  *)
(* that capability needs.                                                  *)
(***************************************************************************)
EXTENDS Naturals, FiniteSets

CONSTANTS
  Calls,        \* slots for requests that overlap
  Tools,        \* Google tools: gmail, google_calendar, youtube, ...
  Gmail,        \* the one among them whose probe may be another tool's
  Reaped,       \* those the reaper of stale handshakes looks at
  Nonces,       \* OAuth states, each issued at most once
  None,         \* no tool, no nonce
  MaxFailures,  \* bound: store calls that throw
  MaxRestarts   \* bound: restarts of the process

ASSUME SetsAssumption ==
  /\ Reaped \subseteq Tools /\ IsFiniteSet(Tools)
  /\ None \notin Tools /\ None \notin Nonces

ASSUME BoundsAssumption ==
  MaxFailures \in Nat /\ MaxRestarts \in Nat

VARIABLES
  nonces,   \* oauth_state, and what Google knows of the consent
  row,      \* the organisation's row of google_oauth_tokens
  tools,    \* organization_tool_states: the status of each tool
  conn,     \* session.state.connections
  hyd,      \* the hydration in progress (activeSessionHydrations)
  calls,    \* the requests in progress
  failures, restarts,
  proven,   \* ghost: tools that a row with a refresh token has certified
  probes    \* ghost: whose callback's probe was answered, and by whose API

vars == <<nonces, row, tools, conn, hyd, calls, failures, restarts, proven,
          probes>>

-----------------------------------------------------------------------------
(* The durable token row.  An access token is named by the request that    *)
(* stored it, which is all the callback asks when it reads the row back.   *)

Rows == [stored : BOOLEAN, access : Calls \cup {None}, refresh : BOOLEAN,
         fresh : BOOLEAN, scopes : SUBSET Tools, caps : SUBSET Tools,
         verified : BOOLEAN]

NoRow == [stored |-> FALSE, access |-> None, refresh |-> FALSE, fresh |-> FALSE,
          scopes |-> {}, caps |-> {}, verified |-> FALSE]

\* Mutant of Operational: the capability that a probe adds is not asked for.
OperationalUnprobed(r, t) ==
  r.stored /\ r.refresh /\ r.verified /\ t \in r.scopes

\* A tool is operational on the strength of a row that has a refresh token,
\* a verification, the tool's scope and the capability that its probe adds.
Operational(r, t) ==
  r.stored /\ r.refresh /\ r.verified /\ t \in r.scopes /\ t \in r.caps

\* Mutant of Merge: Google's silence clears the refresh token.
MergeAnswer(r, t, c, gave, granted, probed) ==
  [stored   |-> TRUE,
   access   |-> c,
   refresh  |-> gave,
   fresh    |-> TRUE,
   scopes   |-> r.scopes \cup granted,
   caps     |-> IF probed THEN r.caps \cup {t} ELSE r.caps,
   verified |-> probed \/ r.verified]

\* What a callback stores: the refresh token that Google omits, the scopes
\* and the capabilities of the row before are kept.
Merge(r, t, c, gave, granted, probed) ==
  [stored   |-> TRUE,
   access   |-> c,
   refresh  |-> gave \/ r.refresh,
   fresh    |-> TRUE,
   scopes   |-> r.scopes \cup granted,
   caps     |-> IF probed THEN r.caps \cup {t} ELSE r.caps,
   verified |-> probed \/ r.verified]

\* What an adapter stores after a refresh.  The Gmail adapter also notes a
\* verification, the Calendar and Drive adapters copy the row they read.
Refreshed(r, c, gmail) ==
  [r EXCEPT !.access = c, !.fresh = TRUE, !.verified = @ \/ gmail]

-----------------------------------------------------------------------------
(* The nonces, the connections and the requests.                           *)

States == [life : {"unborn", "live", "used", "gone"}, tool : Tools \cup {None},
           code : {"none", "offered", "redeemed"}]

Statuses == {"absent", "not_connected", "connecting", "connected", "blocked"}

\* "certified" is the lifecycle "connected", which survives in a connection
\* that is being connected again.  The nonce is read only while the status is
\* "connecting", so that it is kept for that status alone.
Connections == [status : Statuses, nonce : Nonces \cup {None},
                certified : BOOLEAN]

Plain(status, certified) ==
  [status |-> status, nonce |-> None, certified |-> certified]

\* transitionGoogleConnectionToTerminal
Terminal == Plain("blocked", FALSE)

\* A projection that the hydration builds from a durable status.
Projection(status) ==
  IF status = "connected" THEN Plain("connected", TRUE)
                          ELSE Plain("not_connected", FALSE)

\* Mutant of Lifecycle: a status the durable store does not know.
LifecycleAsStatus(certified) == IF certified THEN "connected" ELSE "blocked"

Lifecycle(certified) == IF certified THEN "connected" ELSE "needs_connection"

Kinds == {"idle", "view", "connect", "callback", "disconnect",
          "refresh"}

Steps == {"-", "session", "ready", "offer", "save", "validate", "consume",
          "exchange", "previous", "put", "reread", "settle", "fail",
          "revoke", "reset", "refreshing"}

\* attached: the connection the request holds is the one in the map.
\* certified: the lifecycle the request is about to persist.
CallStates == [kind : Kinds, pc : Steps, tool : Tools \cup {None},
               nonce : Nonces \cup {None}, attached : BOOLEAN,
               certified : BOOLEAN, held : Rows, todo : SUBSET Tools]

Idle == [kind |-> "idle", pc |-> "-", tool |-> None, nonce |-> None,
         attached |-> FALSE, certified |-> FALSE, held |-> NoRow,
         todo |-> {}]

HydStates == [step : {"off", "records", "summaries", "upserts", "reap",
                      "nonce", "close"},
              known : SUBSET Tools, held : Rows, todo : SUBSET Tools,
              tool : Tools \cup {None}, nonce : Nonces \cup {None},
              dead : SUBSET Nonces, alone : BOOLEAN]

NoHydration == [step |-> "off", known |-> {}, held |-> NoRow, todo |-> {},
                tool |-> None, nonce |-> None, dead |-> {}, alone |-> FALSE]

Dead(s) == nonces[s].life \in {"used", "gone"}

TypeOK ==
  /\ nonces \in [Nonces -> States]
  /\ row \in Rows
  /\ tools \in [Tools -> {"none", "needs_connection", "connected"}]
  /\ conn \in [Tools -> Connections]
  /\ hyd \in HydStates
  /\ calls \in [Calls -> CallStates]
  /\ failures \in 0..MaxFailures
  /\ restarts \in 0..MaxRestarts
  /\ proven \subseteq Tools
  /\ probes \subseteq Tools \X {"own", "other"}

\* A process that starts finds an organisation that never used Google, or
\* one whose tools in S were connected under an earlier process.
Init ==
  /\ nonces = [s \in Nonces |-> [life |-> "unborn", tool |-> None,
                                 code |-> "none"]]
  /\ \E S \in SUBSET Tools :
       /\ row = IF S = {} THEN NoRow
                ELSE [stored |-> TRUE, access |-> None, refresh |-> TRUE,
                      fresh |-> FALSE, scopes |-> S, caps |-> S,
                      verified |-> TRUE]
       /\ tools = [t \in Tools |-> IF t \in S THEN "connected" ELSE "none"]
       /\ proven = S /\ probes = S \X {"own"}
  /\ conn = [t \in Tools |-> Plain("absent", FALSE)]
  /\ hyd = NoHydration
  /\ calls = [c \in Calls |-> Idle]
  /\ failures = 0 /\ restarts = 0

-----------------------------------------------------------------------------
(* Entering and leaving a request.                                         *)

\* requireSession: the first request hydrates the session and those that
\* arrive meanwhile share its hydration.
Enter(c, request) ==
  /\ calls[c].kind = "idle"
  /\ calls' = [calls EXCEPT ![c] = request]
  /\ hyd' = IF hyd.step = "off"
            THEN [NoHydration EXCEPT
                    !.step = "records", !.dead = {s \in Nonces : Dead(s)},
                    !.alone = \A d \in Calls : calls[d] = Idle]
            ELSE [hyd EXCEPT !.alone = FALSE]
  /\ UNCHANGED <<nonces, row, tools, conn, failures, restarts, proven,
                 probes>>

Request(kind, t, s) ==
  [Idle EXCEPT !.kind = kind, !.pc = "session", !.tool = t, !.nonce = s]

View(c) == Enter(c, Request("view", None, None))

\* Bound: no more handshakes than there are nonces.
StartConnect(c, t) ==
  /\ Cardinality({d \in Calls : calls[d].kind = "connect" /\ calls[d].nonce = None})
       < Cardinality({s \in Nonces : nonces[s].life = "unborn"})
  /\ Enter(c, Request("connect", t, None))

\* The browser comes back from Google with a code, once or, when the page is
\* reloaded, again.
StartCallback(c, s) ==
  nonces[s].code # "none" /\ Enter(c, Request("callback", nonces[s].tool, s))

StartDisconnect(c) == Enter(c, Request("disconnect", None, None))

\* The calls once the hydration is over, successfully or not.
Released(ok) ==
  [c \in Calls |->
    IF calls[c].pc # "session" THEN calls[c]
    ELSE IF ok /\ calls[c].kind # "view" THEN [calls[c] EXCEPT !.pc = "ready"]
    ELSE Idle]

\* The map gets new connections for the tools in T: who holds an old one
\* keeps it, and its lifecycle.
Detach(T) ==
  [c \in Calls |->
    IF calls[c].attached /\ calls[c].tool \in T
    THEN [calls[c] EXCEPT
            !.attached = FALSE,
            !.certified = IF calls[c].pc = "offer"
                          THEN conn[calls[c].tool].certified ELSE @]
    ELSE calls[c]]

Fails == failures < MaxFailures /\ failures' = failures + 1

-----------------------------------------------------------------------------
(* The hydration: durable statuses, then the token row, then the reaper.   *)

Connecting(t) == conn[t].status = "connecting"

HydRecords ==
  LET known == {t \in Tools : tools[t] # "none"}
      built == {t \in known : ~Connecting(t)}
  IN /\ hyd.step = "records"
     /\ conn' = [t \in Tools |-> IF t \in built THEN Projection(tools[t])
                                                ELSE conn[t]]
     /\ calls' = Detach(built)
     /\ hyd' = [hyd EXCEPT !.step = "summaries", !.known = known]
     /\ UNCHANGED <<nonces, row, tools, failures, restarts, proven, probes>>

Reaping == [hyd EXCEPT !.step = "reap", !.todo = Reaped, !.known = {},
                       !.held = NoRow]

\* Mutant of HydSummaries: an existing connected state is left untouched.
HydSummariesUpgrading ==
  LET written == {t \in Tools : ~Connecting(t) /\ tools[t] # "connected"
                                  /\ (row.stored \/ t \in hyd.known)}
  IN /\ hyd.step = "summaries"
     /\ hyd' = IF written = {} THEN Reaping
                ELSE [hyd EXCEPT !.step = "upserts", !.held = row,
                                 !.known = {}, !.todo = written]
     /\ UNCHANGED <<nonces, row, tools, conn, calls, failures, restarts,
                    proven, probes>>

\* The tools that the reconciliation writes: the check for a handshake is
\* made here, before the write.
HydSummaries ==
  LET written == {t \in Tools : ~Connecting(t) /\ (row.stored \/ t \in hyd.known)}
  IN /\ hyd.step = "summaries"
     /\ hyd' = IF written = {} THEN Reaping
                ELSE [hyd EXCEPT !.step = "upserts", !.held = row,
                                 !.known = {}, !.todo = written]
     /\ UNCHANGED <<nonces, row, tools, conn, calls, failures, restarts,
                    proven, probes>>

\* The write of one tool returns; a failure of it is ignored.
HydUpsert(t) ==
  LET status == Lifecycle(Operational(hyd.held, t))
  IN /\ hyd.step = "upserts" /\ t \in hyd.todo
     /\ \/ tools' = [tools EXCEPT ![t] = status] /\ UNCHANGED failures
        \/ Fails /\ UNCHANGED tools
     /\ conn' = [conn EXCEPT ![t] = Projection(status)]
     /\ calls' = Detach({t})
     /\ hyd' = IF hyd.todo = {t} THEN Reaping
                                 ELSE [hyd EXCEPT !.todo = @ \ {t}]
     /\ UNCHANGED <<nonces, row, restarts, proven, probes>>

\* reapStaleGoogleHandshakes passes over the tools that are not connecting
\* and reads the nonce of the next one that is.
HydReap(t) ==
  /\ hyd.step = "reap" /\ t \in hyd.todo /\ Connecting(t)
  /\ \E passed \in SUBSET {u \in hyd.todo : ~Connecting(u)} :
       hyd' = [hyd EXCEPT !.step = "nonce", !.todo = @ \ (passed \cup {t}),
                          !.tool = t, !.nonce = conn[t].nonce]
  /\ UNCHANGED <<nonces, row, tools, conn, calls, failures, restarts, proven,
                 probes>>

\* Mutant of HydNonce: a nonce that was consumed counts as alive.
HydNonceUsed ==
  /\ hyd.step = "nonce"
  /\ \E readable \in BOOLEAN :
       LET alive == readable /\ nonces[hyd.nonce].life # "gone"
       IN /\ IF readable THEN UNCHANGED failures ELSE Fails
          /\ conn' = IF alive THEN conn
                              ELSE [conn EXCEPT ![hyd.tool] = Terminal]
          /\ hyd' = IF alive THEN [hyd EXCEPT !.step = "reap", !.tool = None,
                                               !.nonce = None]
                        ELSE [hyd EXCEPT !.step = "close"]
  /\ UNCHANGED <<nonces, row, tools, calls, restarts, proven, probes>>

\* The nonce was read, or could not be.  The status is not looked at again.
HydNonce ==
  /\ hyd.step = "nonce"
  /\ \E readable \in BOOLEAN :
       LET alive == readable /\ nonces[hyd.nonce].life = "live"
       IN /\ IF readable THEN UNCHANGED failures ELSE Fails
          /\ conn' = IF alive THEN conn
                              ELSE [conn EXCEPT ![hyd.tool] = Terminal]
          /\ hyd' = IF alive THEN [hyd EXCEPT !.step = "reap", !.tool = None,
                                               !.nonce = None]
                        ELSE [hyd EXCEPT !.step = "close"]
  /\ UNCHANGED <<nonces, row, tools, calls, restarts, proven, probes>>

HydClose ==
  /\ hyd.step = "close"
  /\ tools' = [tools EXCEPT ![hyd.tool] = "needs_connection"]
  /\ hyd' = [hyd EXCEPT !.step = "reap", !.tool = None, !.nonce = None]
  /\ UNCHANGED <<nonces, row, conn, calls, failures, restarts, proven,
                 probes>>

HydEnds ==
  /\ hyd.step = "reap" /\ \A t \in hyd.todo : ~Connecting(t)
  /\ hyd' = NoHydration
  /\ calls' = Released(TRUE)
  /\ UNCHANGED <<nonces, row, tools, conn, failures, restarts, proven,
                 probes>>

\* A read of the statuses or of the token row, or the write of the reaper,
\* throws: every request that shares the hydration fails.
HydFails ==
  /\ hyd.step \in {"records", "summaries", "close"} /\ Fails
  /\ hyd' = NoHydration
  /\ calls' = Released(FALSE)
  /\ UNCHANGED <<nonces, row, tools, conn, restarts, proven, probes>>

-----------------------------------------------------------------------------
(* connect: a nonce is stored, then the connection says "connecting".      *)

At(c, kind, pc) == calls[c].kind = kind /\ calls[c].pc = pc

Goes(c, pc) == calls' = [calls EXCEPT ![c].pc = pc]

Ends(c) == calls' = [calls EXCEPT ![c] = Idle]

\* The connection the request holds, in the map or not any more.
Holds(c, connection) ==
  conn' = IF calls[c].attached
          THEN [conn EXCEPT ![calls[c].tool] = connection] ELSE conn

Persists(c, status) == tools' = [tools EXCEPT ![calls[c].tool] = status]

ConnectReady(c) ==
  LET t == calls[c].tool
  IN /\ At(c, "connect", "ready")
     /\ conn' = IF conn[t].status = "absent"
                THEN [conn EXCEPT ![t] = Plain("not_connected", FALSE)]
                ELSE conn
     /\ calls' = [calls EXCEPT ![c].pc = "offer", ![c].attached = TRUE]
     /\ UNCHANGED <<nonces, row, tools, hyd, failures, restarts, proven,
                    probes>>

ConnectOffer(c, s) ==
  LET t == calls[c].tool
      kept == IF calls[c].attached THEN conn[t].certified
                                   ELSE calls[c].certified
  IN /\ At(c, "connect", "offer") /\ nonces[s].life = "unborn"
     /\ nonces' = [nonces EXCEPT
                     ![s] = [life |-> "live", tool |-> t, code |-> "none"]]
     /\ Holds(c, [status |-> "connecting", nonce |-> s, certified |-> kept])
     /\ calls' = [calls EXCEPT ![c].pc = "save", ![c].nonce = s,
                               ![c].certified = kept]
     /\ UNCHANGED <<row, tools, hyd, failures, restarts, proven, probes>>

\* The answer carries the address of Google's consent page.
ConnectSave(c) ==
  /\ At(c, "connect", "save")
  /\ Persists(c, Lifecycle(calls[c].certified))
  /\ nonces' = [nonces EXCEPT ![calls[c].nonce].code = "offered"]
  /\ Ends(c)
  /\ UNCHANGED <<row, conn, hyd, failures, restarts, proven, probes>>

ConnectFails(c) ==
  /\ At(c, "connect", "offer") \/ At(c, "connect", "save")
  /\ Fails /\ Ends(c)
  /\ UNCHANGED <<nonces, row, tools, conn, hyd, restarts, proven, probes>>

-----------------------------------------------------------------------------
(* callback: completeGoogleOAuthCallback between two looks at the state.   *)

\* The nonce names the tool; the handshake must be open in this process.
CallbackReady(c) ==
  /\ At(c, "callback", "ready")
  /\ IF nonces[calls[c].nonce].life # "gone" /\ Connecting(calls[c].tool)
     THEN calls' = [calls EXCEPT ![c].pc = "validate", ![c].attached = TRUE]
     ELSE Ends(c)
  /\ UNCHANGED <<nonces, row, tools, conn, hyd, failures, restarts, proven,
                 probes>>

\* Mutant of Refused: the catch block only redirects.
RefusedOnly(c) == Goes(c, "fail") /\ UNCHANGED conn

\* The catch block: out of "connecting", whatever happened.
Refused(c) ==
  /\ Holds(c, Terminal)
  /\ Goes(c, "fail")

CallbackValidate(c) ==
  /\ At(c, "callback", "validate")
  /\ IF nonces[calls[c].nonce].life = "live"
     THEN Goes(c, "consume") /\ UNCHANGED conn
     ELSE Refused(c)
  /\ UNCHANGED <<nonces, row, tools, hyd, failures, restarts, proven,
                 probes>>

\* Nobody looks at the error of the update that marks the nonce as used.
CallbackConsume(c) ==
  LET s == calls[c].nonce
  IN /\ At(c, "callback", "consume")
     /\ \/ /\ nonces' = [nonces EXCEPT
                          ![s].life = IF @ = "gone" THEN "gone" ELSE "used"]
           /\ UNCHANGED failures
        \/ Fails /\ UNCHANGED nonces
     /\ Goes(c, "exchange")
     /\ UNCHANGED <<row, tools, conn, hyd, restarts, proven, probes>>

\* Google takes a code once; its answer is chosen where it is used, below.
CallbackExchange(c) ==
  LET s == calls[c].nonce
  IN /\ At(c, "callback", "exchange")
     /\ nonces[s].code = "offered"
     /\ nonces' = [nonces EXCEPT ![s].code = "redeemed"]
     /\ Goes(c, "previous")
     /\ UNCHANGED <<row, tools, conn, hyd, failures, restarts, proven,
                    probes>>

\* Google refuses the code, or took it and the identity cannot be read.
CallbackRefused(c) ==
  /\ At(c, "callback", "exchange")
  /\ Refused(c)
  /\ \/ nonces' = [nonces EXCEPT ![calls[c].nonce].code = "redeemed"]
     \/ UNCHANGED nonces
  /\ UNCHANGED <<row, tools, hyd, failures, restarts, proven, probes>>

CallbackPrevious(c) ==
  /\ At(c, "callback", "previous")
  /\ calls' = [calls EXCEPT ![c].pc = "put", ![c].held = row]
  /\ UNCHANGED <<nonces, row, tools, conn, hyd, failures, restarts, proven,
                 probes>>

\* Whose API the callback of tool t asks, given the scopes merged so far:
\* without the scope that reads mail, Gmail's asks Calendar or Drive.
ProbedApi(t, scopes) ==
  IF t = Gmail /\ Gmail \notin scopes THEN "other" ELSE "own"

\* The probe, then the row.  Google may have omitted the refresh token, and
\* the founder may have withheld the scope.
CallbackPut(c, gave, granted, probed) ==
  LET merged == Merge(calls[c].held, calls[c].tool, c, gave, granted, probed)
  IN /\ At(c, "callback", "put")
     /\ row' = merged
     /\ proven' = IF merged.refresh THEN proven \cup merged.caps ELSE proven
     /\ probes' = IF probed
                  THEN probes \cup {<<calls[c].tool,
                                    ProbedApi(calls[c].tool, merged.scopes)>>}
                  ELSE probes
     /\ calls' = [calls EXCEPT ![c].pc = "reread", ![c].held = NoRow,
                               ![c].certified = probed /\ merged.refresh]
     /\ UNCHANGED <<nonces, tools, conn, hyd, failures, restarts>>

\* Never trust the insert alone: the token must be read back.
CallbackReread(c) ==
  /\ At(c, "callback", "reread")
  /\ IF row.stored /\ row.access = c
     THEN /\ Holds(c, IF calls[c].certified THEN Plain("connected", TRUE)
                                            ELSE Terminal)
          /\ Goes(c, "settle")
     ELSE Refused(c)
  /\ UNCHANGED <<nonces, row, tools, hyd, failures, restarts, proven,
                 probes>>

CallbackSettle(c) ==
  /\ At(c, "callback", "settle")
  /\ Persists(c, Lifecycle(calls[c].certified))
  /\ Ends(c)
  /\ UNCHANGED <<nonces, row, conn, hyd, failures, restarts, proven, probes>>

CallbackFail(c) ==
  /\ At(c, "callback", "fail")
  /\ Persists(c, "needs_connection")
  /\ Ends(c)
  /\ UNCHANGED <<nonces, row, conn, hyd, failures, restarts, proven, probes>>

\* A store call of the pipeline throws; or the one of the catch block does.
CallbackThrows(c) ==
  /\ calls[c].kind = "callback" /\ Fails
  /\ \/ /\ calls[c].pc \in {"validate", "consume", "previous", "put",
                            "reread", "settle"}
        /\ Refused(c)
     \/ calls[c].pc \in {"ready", "fail"} /\ Ends(c) /\ UNCHANGED conn
  /\ UNCHANGED <<nonces, row, tools, hyd, restarts, proven, probes>>

-----------------------------------------------------------------------------
(* disconnect, and the refresh that every adapter makes for itself.        *)

DisconnectReady(c) ==
  /\ At(c, "disconnect", "ready")
  /\ IF row.stored THEN Goes(c, "revoke") ELSE Ends(c)
  /\ UNCHANGED <<nonces, row, tools, conn, hyd, failures, restarts, proven,
                 probes>>

\* Google may have refused the revocation: the row goes in any case.
DisconnectRemove(c) ==
  /\ At(c, "disconnect", "revoke")
  /\ row' = NoRow
  /\ calls' = [calls EXCEPT ![c].pc = "reset", ![c].todo = Tools]
  /\ UNCHANGED <<nonces, tools, conn, hyd, failures, restarts, proven,
                 probes>>

DisconnectReset(c, t) ==
  /\ At(c, "disconnect", "reset") /\ t \in calls[c].todo
  /\ tools' = [tools EXCEPT ![t] = "needs_connection"]
  /\ calls' = [calls EXCEPT ![c].todo = @ \ {t}]
  /\ UNCHANGED <<nonces, row, conn, hyd, failures, restarts, proven, probes>>

DisconnectEnds(c) ==
  /\ At(c, "disconnect", "reset") /\ calls[c].todo = {}
  /\ Ends(c)
  /\ UNCHANGED <<nonces, row, tools, conn, hyd, failures, restarts, proven,
                 probes>>

DisconnectThrows(c) ==
  /\ calls[c].kind = "disconnect" /\ calls[c].pc \in {"ready", "revoke", "reset"}
  /\ Fails /\ Ends(c)
  /\ UNCHANGED <<nonces, row, tools, conn, hyd, restarts, proven, probes>>

RefreshReads(c) ==
  /\ calls[c].kind = "idle"
  /\ row.stored /\ ~row.fresh /\ row.refresh
  /\ calls' = [calls EXCEPT ![c] = [Idle EXCEPT !.kind = "refresh",
                                     !.pc = "refreshing", !.held = row]]
  /\ hyd' = [hyd EXCEPT !.alone = FALSE]
  /\ UNCHANGED <<nonces, row, tools, conn, failures, restarts, proven,
                 probes>>

\* Google issued a token and the row that was read is written back with it.
RefreshStores(c, gmail) ==
  /\ At(c, "refresh", "refreshing")
  /\ row' = Refreshed(calls[c].held, c, gmail)
  /\ Ends(c)
  /\ UNCHANGED <<nonces, tools, conn, hyd, failures, restarts, proven,
                 probes>>

RefreshFails(c) ==
  /\ At(c, "refresh", "refreshing")
  /\ Ends(c)
  /\ UNCHANGED <<nonces, row, tools, conn, hyd, failures, restarts, proven,
                 probes>>

-----------------------------------------------------------------------------
(* Time and restarts.                                                      *)

AccessExpires ==
  /\ row.stored /\ row.fresh
  /\ row' = [row EXCEPT !.fresh = FALSE]
  /\ UNCHANGED <<nonces, tools, conn, hyd, calls, failures, restarts, proven,
                 probes>>

\* Ten minutes after connect; the row is dropped by the next who reads it.
NonceExpires(s) ==
  /\ nonces[s].life \in {"live", "used"}
  /\ nonces' = [nonces EXCEPT ![s].life = "gone"]
  /\ UNCHANGED <<row, tools, conn, hyd, calls, failures, restarts, proven,
                 probes>>

Restart ==
  /\ restarts < MaxRestarts
  /\ restarts' = restarts + 1
  /\ conn' = [t \in Tools |-> Plain("absent", FALSE)]
  /\ hyd' = NoHydration
  /\ calls' = [c \in Calls |-> Idle]
  /\ UNCHANGED <<nonces, row, tools, failures, proven, probes>>

Hydrate ==
  \/ HydRecords \/ HydSummaries \/ HydNonce \/ HydClose
  \/ HydEnds \/ HydFails
  \/ \E t \in Tools : HydUpsert(t) \/ HydReap(t)

\* Every step of one request after it has arrived.
Advance(c) ==
  \/ ConnectReady(c) \/ ConnectSave(c) \/ ConnectFails(c)
  \/ CallbackReady(c) \/ CallbackValidate(c) \/ CallbackConsume(c)
  \/ CallbackRefused(c) \/ CallbackPrevious(c) \/ CallbackReread(c)
  \/ CallbackSettle(c) \/ CallbackFail(c) \/ CallbackThrows(c)
  \/ DisconnectReady(c) \/ DisconnectRemove(c) \/ DisconnectEnds(c)
  \/ DisconnectThrows(c) \/ RefreshFails(c) \/ CallbackExchange(c)
  \/ \E s \in Nonces : ConnectOffer(c, s)
  \/ \E gave, probed \in BOOLEAN, granted \in SUBSET {calls[c].tool} :
       CallbackPut(c, gave, granted, probed)
  \/ \E gmail \in BOOLEAN : RefreshStores(c, gmail)
  \/ \E t \in Tools : DisconnectReset(c, t)

Arrive(c) ==
  \/ View(c) \/ StartDisconnect(c) \/ RefreshReads(c)
  \/ \E t \in Tools : StartConnect(c, t)
  \/ \E s \in Nonces : StartCallback(c, s)

Next ==
  \/ Hydrate
  \/ \E c \in Calls : Arrive(c) \/ Advance(c)
  \/ \E s \in Nonces : NonceExpires(s)
  \/ AccessExpires \/ Restart

Spec == Init /\ [][Next]_vars

-----------------------------------------------------------------------------
(* Properties.                                                             *)

Starting(c, kind, pc) == At(c, kind, pc) /\ calls'[c] # calls[c]

\* The tools for which a callback's probe was answered: by their own API or,
\* for Gmail alone, by another tool's.
Vouched ==
  {t \in Tools : \/ <<t, "own">> \in probes
                 \/ t = Gmail /\ <<t, "other">> \in probes}

\* "CONNECTED requires a successful connector verification": whatever the
\* interleaving of callbacks, reconciliations and reconnects, a tool is
\* called connected only after a callback of that tool had its probe
\* answered and a row that claims it was stored with a refresh token.  The
\* API that answered was the tool's own, but for Gmail's, which asks another
\* while the scope that reads mail is missing and is believed all the same.
ConnectedWasProven ==
  \A t \in Tools :
    tools[t] = "connected" \/ conn[t].status = "connected" \/ conn[t].certified
      => t \in proven \cap Vouched

\* A callback or a refresh that writes over the row it has read takes
\* nothing away: no scope, no verified capability, no refresh token.
GrantsOnlyGrow ==
  [][\A c \in Calls :
       /\ calls[c].pc \in {"put", "refreshing"} /\ row' # row
       /\ calls'[c] # calls[c] /\ calls[c].held = row
       => /\ row.scopes \subseteq row'.scopes
          /\ row.caps \subseteq row'.caps
          /\ row.refresh => row'.refresh
          /\ row.verified => row'.verified]_vars

\* "Every callback outcome must leave connecting": a callback that was let
\* in ends with the handshake of its nonce closed, whatever threw.
CallbackLeavesConnecting ==
  [][\A c \in Calls :
       calls[c].kind = "callback" /\ calls[c].pc \notin {"session", "ready"}
       /\ calls'[c].kind = "idle" /\ restarts' = restarts
       => conn'[calls[c].tool].nonce # calls[c].nonce]_vars

\* "Never connecting forever": a hydration that ends well leaves no
\* handshake open whose nonce was dead when it began, for every tool that
\* reapStaleGoogleHandshakes looks at (GOOGLE_TOOL_IDS).
HydrationReaps ==
  [][hyd.step = "reap" /\ hyd'.step = "off" /\ restarts' = restarts
     => \A t \in Reaped : Connecting(t) => conn[t].nonce \notin hyd.dead]_vars

\* The session is "only a projection" of durable evidence: the hydration of
\* a request that is alone leaves nothing connected that the token row does
\* not make operational, although its writes of the statuses may fail.
NoStaleConnected ==
  [][hyd.step = "reap" /\ hyd'.step = "off" /\ restarts' = restarts /\ hyd.alone
     => \A t \in Tools :
          conn[t].status = "connected" => Operational(row, t)]_vars

\* "Departify must stop treating the connection as usable immediately after
\* the user confirms Disconnect": a row that is gone comes back only by a
\* consent.
DisconnectSticks ==
  [][~row.stored /\ row'.stored
     => \E c \in Calls : Starting(c, "callback", "put")]_vars
=============================================================================
