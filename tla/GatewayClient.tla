---------------------------- MODULE GatewayClient ----------------------------
(***************************************************************************)
(* OpenClawGatewayClient: the one WebSocket client that every conversation   *)
(* shares (gateway-client.ts).  It dials, answers the gateway's challenge,   *)
(* matches answers with requests by id, times requests out and retries them *)
(* after closing the socket.                                                *)
(*                                                                         *)
(* JavaScript runs one task at a time: a timer, a socket event or a call of  *)
(* the client is one action, and what it wakes (Resume) runs before the next *)
(* task (Quiet).  The gateway is not part of the repository: it greets a     *)
(* connection, serves or refuses requests, answers late or never, and may    *)
(* close a socket at any time.                                              *)
(***************************************************************************)
EXTENDS Integers, FiniteSets

CONSTANTS Runners,     \* calls of runAgent
          Readers,     \* calls of chatHistory and the like
          Sockets,     \* bound: WebSocket objects alive at a time
          RetryLimit,  \* opts.retryLimit
          None

Callers == Runners \cup Readers

ASSUME GatewayAssumption ==
  /\ RetryLimit \in Nat
  /\ None \notin Sockets
  /\ Sockets \cap Callers = {}
  /\ Runners \cap Readers = {}

VARIABLES
  sock,        \* the WebSockets: state, greeted, hello-ok received by the gateway's side
  ws,          \* this.ws
  nonce,       \* this.nonce: the socket whose challenge it came with, or None
  conn,        \* conn[s]: the connect() call that made socket s
  connecting,  \* this.connecting: the socket being dialled by ensureConnected, or None
  seq,         \* this.seq
  pending,     \* this.pending, as the set of frames waiting for an answer
  wire,        \* frames the gateway has been sent and has not answered
  call,        \* call[c]: where the caller is, what it awaits, its attempts
  runs         \* runs[c]: agent runs the gateway started for the caller

vars == <<sock, ws, nonce, conn, connecting, seq, pending, wire, call, runs>>
network == <<sock, ws, nonce, conn, connecting>>

Dialling == {"opening", "challenge", "hello"}
Errors == {"transient", "fatal"}

Frames == [id : Nat, owner : Callers \cup Sockets,
           kind : {"connect", "read", "send", "wait"},
           sock : Sockets, nonce : Sockets \cup {None}, served : BOOLEAN]

TypeOK ==
  /\ sock \in [Sockets -> [st : {"closed", "connecting", "open", "closing"},
                           greeted : BOOLEAN, hello : BOOLEAN]]
  /\ ws \in Sockets \cup {None}
  /\ nonce \in Sockets \cup {None}
  /\ conn \in [Sockets -> {"none", "ok"} \cup Dialling \cup Errors]
  /\ connecting \in Sockets \cup {None}
  /\ seq \in Nat
  /\ pending \subseteq Frames /\ wire \subseteq Frames
  /\ call \in [Callers -> [pc : {"idle", "first", "again", "sent", "waiting",
                                 "backoff", "done", "failed"},
                           on : Sockets \cup {None}, tries : 0 .. RetryLimit]]
  /\ runs \in [Callers -> Nat]

NoSocket == [st |-> "closed", greeted |-> FALSE, hello |-> FALSE]

Init ==
  /\ sock = [s \in Sockets |-> NoSocket]
  /\ ws = None
  /\ nonce = None
  /\ conn = [s \in Sockets |-> "none"]
  /\ connecting = None
  /\ seq = 0
  /\ pending = {}
  /\ wire = {}
  /\ call = [c \in Callers |-> [pc |-> "idle", on |-> None, tries |-> 0]]
  /\ runs = [c \in Callers |-> 0]

-----------------------------------------------------------------------------
(* Helpers *)

\* get isConnected(): the socket is OPEN; whether hello-ok came is not asked.
IsConnected == ws # None /\ sock[ws].st = "open"

\* A call whose connect() has settled goes on before anything else happens.
Awaiting(c) == call[c].pc \in {"first", "again"}
Quiet == \A c \in Callers : Awaiting(c) => conn[call[c].on] \in Dialling

\* Mutant of AfterError: the loop forgets its limit.
AfterErrorUnlimited(c, kind) ==
  IF kind = "transient" /\ call[c].pc \in {"again", "sent"}
    THEN [pc |-> "backoff", on |-> None, tries |-> call[c].tries + 1]
    ELSE [call[c] EXCEPT !.pc = "failed", !.on = None]

\* The catch block of request(); outside of its loop an error is final.
AfterError(c, kind) ==
  IF kind = "transient" /\ call[c].pc \in {"again", "sent"} /\ call[c].tries < RetryLimit
    THEN [pc |-> "backoff", on |-> None, tries |-> call[c].tries + 1]
    ELSE [call[c] EXCEPT !.pc = "failed", !.on = None]

\* The promises of these callers and connect() calls are rejected.
Reject(owners, kind) ==
  /\ call' = [c \in Callers |-> IF c \in owners THEN AfterError(c, kind) ELSE call[c]]
  /\ conn' = [s \in Sockets |-> IF s \in owners THEN kind ELSE conn[s]]
  /\ connecting' = IF connecting \in owners THEN None ELSE connecting

Owners == {p.owner : p \in pending}

\* requestOnce over an open socket: pending is a map from ids.
Transmit(owner, kind) ==
  LET frame == [id |-> seq + 1, owner |-> owner, kind |-> kind, sock |-> ws,
                nonce |-> IF kind = "connect" THEN nonce ELSE None,
                served |-> FALSE] IN
    /\ seq' = seq + 1
    /\ pending' = {p \in pending : p.id # frame.id} \cup {frame}
    /\ wire' = wire \cup {frame}

MethodOf(c) == IF c \in Runners THEN "send" ELSE "read"

\* Mutant of Dial: the nonce of the previous connection is kept.
DialKeepsNonce(s, sk) ==
  /\ sk[s].st = "closed"
  /\ conn[s] \notin Dialling
  /\ sock' = [sk EXCEPT ![s] = [NoSocket EXCEPT !.st = "connecting"]]
  /\ ws' = s
  /\ nonce' = nonce
  /\ conn' = [conn EXCEPT ![s] = "opening"]
  /\ seq' = seq

\* Mutant of Dial: ids start again with each connection.
DialResetsSeq(s, sk) ==
  /\ sk[s].st = "closed"
  /\ conn[s] \notin Dialling
  /\ sock' = [sk EXCEPT ![s] = [NoSocket EXCEPT !.st = "connecting"]]
  /\ ws' = s
  /\ nonce' = None
  /\ conn' = [conn EXCEPT ![s] = "opening"]
  /\ seq' = 0

\* connect() up to its first await; sk is sock after a close() in the same step.
Dial(s, sk) ==
  /\ sk[s].st = "closed"
  /\ conn[s] \notin Dialling
  /\ sock' = [sk EXCEPT ![s] = [NoSocket EXCEPT !.st = "connecting"]]
  /\ ws' = s
  /\ nonce' = None
  /\ conn' = [conn EXCEPT ![s] = "opening"]
  /\ seq' = seq

\* Mutant of EnsureConnected: every caller dials for itself.
EnsureConnectedAlone(c, pc, w, sk) ==
  \E s \in Sockets :
    /\ Dial(s, sk)
    /\ connecting' = s
    /\ call' = [call EXCEPT ![c].pc = pc, ![c].on = s]

\* ensureConnected() of a client that is not connected: join the connect() in
\* progress, or start one.
EnsureConnected(c, pc, w, sk) ==
  \/ /\ connecting # None
     /\ call' = [call EXCEPT ![c].pc = pc, ![c].on = connecting]
     /\ ws' = w
     /\ sock' = sk
     /\ UNCHANGED <<nonce, conn, connecting, seq>>
  \/ /\ connecting = None
     /\ \E s \in Sockets :
          /\ Dial(s, sk)
          /\ connecting' = s
          /\ call' = [call EXCEPT ![c].pc = pc, ![c].on = s]

-----------------------------------------------------------------------------
(* The callers *)

\* runAgent, chatHistory: ensureConnected, then request(), whose own
\* ensureConnected has nothing to do.
Start(c) ==
  /\ Quiet
  /\ call[c].pc = "idle"
  /\ \/ /\ IsConnected
        /\ Transmit(c, MethodOf(c))
        /\ call' = [call EXCEPT ![c].pc = "sent"]
        /\ UNCHANGED network
     \/ /\ ~IsConnected
        /\ EnsureConnected(c, "first", ws, sock)
        /\ UNCHANGED <<pending, wire>>
  /\ UNCHANGED runs

\* The awaited connect() has settled.  When it succeeded, its answer came over
\* this.ws a moment ago: the request goes out (its ensureConnected, and the
\* test of requestOnce, find the socket open).
Resume(c) ==
  /\ Awaiting(c)
  /\ LET outcome == conn[call[c].on] IN
       \/ /\ outcome \in Errors
          /\ call' = [call EXCEPT ![c] = AfterError(c, outcome)]
          /\ UNCHANGED <<seq, pending, wire>>
       \/ /\ outcome = "ok"
          /\ Transmit(c, MethodOf(c))
          /\ call' = [call EXCEPT ![c].pc = "sent", ![c].on = None]
  /\ UNCHANGED <<network, runs>>

\* The end of sleep(delay): close() whatever socket there is, then try again.
Retry(c) ==
  /\ Quiet
  /\ call[c].pc = "backoff"
  /\ EnsureConnected(c, "again", None,
       [s \in Sockets |-> IF s = ws THEN [sock[s] EXCEPT !.st = "closing"] ELSE sock[s]])
  /\ UNCHANGED <<pending, wire, runs>>

-----------------------------------------------------------------------------
(* connect() *)

\* onopen.
Opened(s) ==
  /\ Quiet
  /\ sock[s].st = "connecting"
  /\ sock' = [sock EXCEPT ![s].st = "open"]
  /\ conn' = [conn EXCEPT ![s] = "challenge"]
  /\ UNCHANGED <<ws, nonce, connecting, seq, pending, wire, call, runs>>

\* The connect timer: reject, and close a socket that stays this.ws meanwhile.
ConnectTimeout(s) ==
  /\ Quiet
  /\ conn[s] = "opening"
  /\ sock' = [sock EXCEPT ![s].st = "closing"]
  /\ Reject({s}, "fatal")
  /\ UNCHANGED <<ws, nonce, seq, pending, wire, runs>>

\* handleMessage(connect.challenge): on any socket, into the one this.nonce.
Challenge(s) ==
  /\ Quiet
  /\ sock[s].st = "open"
  /\ ~sock[s].greeted
  /\ sock' = [sock EXCEPT ![s].greeted = TRUE]
  /\ nonce' = s
  /\ UNCHANGED <<ws, conn, connecting, seq, pending, wire, call, runs>>

\* waitForChallenge polls: a nonce is there, and "connect" is sent over this.ws.
SendConnect(s) ==
  /\ Quiet
  /\ conn[s] = "challenge"
  /\ nonce # None
  /\ \/ /\ IsConnected
        /\ Transmit(s, "connect")
        /\ conn' = [conn EXCEPT ![s] = "hello"]
        /\ UNCHANGED <<connecting, call>>
     \/ /\ ~IsConnected
        /\ Reject({s}, "transient")
        /\ UNCHANGED <<seq, pending, wire>>
  /\ UNCHANGED <<sock, ws, nonce, runs>>

\* waitForChallenge gives up.
ChallengeTimeout(s) ==
  /\ Quiet
  /\ conn[s] = "challenge"
  /\ nonce = None
  /\ Reject({s}, "fatal")
  /\ UNCHANGED <<sock, ws, nonce, seq, pending, wire, runs>>

-----------------------------------------------------------------------------
(* Answers, timeouts and closed sockets *)

\* Mutant of RequestTimeout: the entry goes and the promise stays.
RequestTimeoutSilently(p) ==
  /\ Quiet
  /\ p \in pending
  /\ pending' = pending \ {p}
  /\ UNCHANGED <<network, seq, wire, call, runs>>

\* The timer of a request.
RequestTimeout(p) ==
  /\ Quiet
  /\ p \in pending
  /\ pending' = pending \ {p}
  /\ Reject({p.owner}, "transient")
  /\ UNCHANGED <<sock, ws, nonce, seq, wire, runs>>

\* The gateway acts on an authenticated request; sessions.send starts a run.
Serve(f) ==
  /\ Quiet
  /\ f \in wire
  /\ ~f.served
  /\ f.kind = "send"
  /\ sock[f.sock].hello
  /\ wire' = (wire \ {f}) \cup {[f EXCEPT !.served = TRUE]}
  /\ runs' = [runs EXCEPT ![f.owner] = @ + 1]
  /\ UNCHANGED <<network, seq, pending, call>>

\* Entries that an answer with this id settles.
Matching(f) == {p \in pending : p.id = f.id}

\* handleMessage(hello-ok): the gateway accepts a connect request that is signed
\* with the challenge of the connection.
HelloOk(f) ==
  /\ Quiet
  /\ f \in wire
  /\ sock[f.sock].st = "open"
  /\ f.kind = "connect" /\ f.nonce = f.sock
  /\ sock' = [sock EXCEPT ![f.sock].hello = TRUE]
  /\ LET owners == {p.owner : p \in Matching(f)} IN
       /\ conn' = [s \in Sockets |-> IF s \in owners THEN "ok" ELSE conn[s]]
       /\ connecting' = IF connecting \in owners THEN None ELSE connecting
  /\ pending' = pending \ Matching(f)
  /\ wire' = wire \ {f}
  /\ UNCHANGED <<ws, nonce, seq, call, runs>>

\* handleMessage(run id): runAgent goes on to wait for the run; an answer that
\* comes after the timeout finds nobody.
RunStarted(f) ==
  /\ Quiet
  /\ f \in wire
  /\ sock[f.sock].st = "open"
  /\ f.kind = "send" /\ f.served
  /\ \/ /\ Matching(f) = {}
        /\ wire' = wire \ {f}
        /\ UNCHANGED <<seq, pending, call>>
     \/ \E p \in Matching(f) :
          LET next == [id |-> seq + 1, owner |-> p.owner, kind |-> "wait", sock |-> ws,
                       nonce |-> None, served |-> FALSE] IN
            /\ seq' = seq + 1
            /\ pending' = (pending \ {p}) \cup {next}
            /\ wire' = (wire \ {f}) \cup {next}
            /\ call' = [call EXCEPT ![p.owner].pc = "waiting"]
  /\ UNCHANGED <<network, runs>>

\* handleMessage of a history, or of the end of a run.
AnswerOk(f) ==
  /\ Quiet
  /\ f \in wire
  /\ sock[f.sock].st = "open" /\ sock[f.sock].hello
  /\ f.kind \in {"read", "wait"}
  /\ pending' = pending \ Matching(f)
  /\ wire' = wire \ {f}
  /\ call' = [c \in Callers |-> IF \E p \in Matching(f) : p.owner = c
                                  THEN [call[c] EXCEPT !.pc = "done"] ELSE call[c]]
  /\ UNCHANGED <<network, seq, runs>>

\* handleMessage of an error answer to a request that was not served.
AnswerError(f) ==
  /\ Quiet
  /\ f \in wire
  /\ ~f.served
  /\ sock[f.sock].st = "open"
  /\ wire' = wire \ {f}
  /\ pending' = pending \ Matching(f)
  /\ \E kind \in Errors : Reject({p.owner : p \in Matching(f)}, kind)
  /\ UNCHANGED <<sock, ws, nonce, seq, runs>>

\* A frame that is no JSON: failPending.
Garbage(s) ==
  /\ Quiet
  /\ sock[s].st = "open"
  /\ pending # {}
  /\ pending' = {}
  /\ Reject(Owners, "fatal")
  /\ UNCHANGED <<sock, ws, nonce, seq, wire, runs>>

\* Mutant of Closed: failPending clears the map and rejects nothing.
ClosedForgets(s) ==
  /\ Quiet
  /\ sock[s].st # "closed"
  /\ sock' = [sock EXCEPT ![s] = NoSocket]
  /\ ws' = IF ws = s THEN None ELSE ws
  /\ wire' = {f \in wire : f.sock # s}
  /\ pending' = {}
  /\ Reject(IF conn[s] = "opening" THEN {s} ELSE {}, "transient")
  /\ UNCHANGED <<nonce, seq, runs>>

\* onerror / onclose of a socket, the current one or one that was closed
\* earlier: every pending request fails, whatever socket it was sent over.
Closed(s) ==
  /\ Quiet
  /\ sock[s].st # "closed"
  /\ sock' = [sock EXCEPT ![s] = NoSocket]
  /\ ws' = IF ws = s THEN None ELSE ws
  /\ wire' = {f \in wire : f.sock # s}
  /\ pending' = {}
  /\ Reject(Owners \cup (IF conn[s] = "opening" THEN {s} ELSE {}), "transient")
  /\ UNCHANGED <<nonce, seq, runs>>

-----------------------------------------------------------------------------
Caller(c) == Start(c) \/ Resume(c) \/ Retry(c)

Connection(s) ==
  \/ Opened(s) \/ ConnectTimeout(s) \/ Challenge(s) \/ SendConnect(s)
  \/ ChallengeTimeout(s) \/ Garbage(s) \/ Closed(s)

Next ==
  \/ \E c \in Callers : Caller(c)
  \/ \E s \in Sockets : Connection(s)
  \/ \E p \in pending : RequestTimeout(p)
  \/ \E f \in wire :
       Serve(f) \/ HelloOk(f) \/ RunStarted(f) \/ AnswerOk(f) \/ AnswerError(f)

Spec == Init /\ [][Next]_vars

\* The client's own timers run; a socket that is being closed does close.  The
\* gateway owes nothing.
Fairness ==
  /\ \A c \in Callers : WF_vars(Resume(c)) /\ WF_vars(Retry(c))
  /\ \A s \in Sockets :
       /\ WF_vars(ConnectTimeout(s))
       /\ WF_vars(SendConnect(s)) /\ WF_vars(ChallengeTimeout(s))
       /\ WF_vars(sock[s].st = "closing" /\ Closed(s))
  /\ WF_vars(\E p \in pending : RequestTimeout(p))

FairSpec == Spec /\ Fairness

-----------------------------------------------------------------------------
(* Properties *)

\* "Deduplicate simultaneous first-use connects": one connect() at a time.
OneConnect == Cardinality({s \in Sockets : conn[s] \in Dialling}) <= 1

\* An answer, however late and over whichever socket, is never taken for the
\* answer to another request.
AnswersMatch ==
  \A f \in wire, p \in pending : f.id = p.id => f.owner = p.owner /\ f.sock = p.sock

\* "Never reuse the previous connection's nonce": a connect request carries the
\* challenge of the socket it is sent over.
FreshChallenge == \A f \in wire : f.kind = "connect" => f.nonce = f.sock

\* Whoever waits for an answer has an entry, hence a timer, in the map of
\* pending requests, and every entry has someone waiting.
NobodyForgotten ==
  Owners = {c \in Callers : call[c].pc \in {"sent", "waiting"}}
             \cup {s \in Sockets : conn[s] = "hello"}

\* What the retries cost: a call starts at most one run more than it had
\* retries, and whoever is told that the run has ended had one.
RunsAccounted ==
  \A c \in Runners : /\ runs[c] <= call[c].tries + 1
                     /\ call[c].pc \in {"waiting", "done"} => runs[c] >= 1

\* Every call of the client returns or throws, whatever the gateway does.
EveryCallSettles ==
  \A c \in Callers : call[c].pc # "idle" ~> call[c].pc \in {"done", "failed"}

\* gateway-client.ts:334: nothing is repeated that "could cause duplicate agent
\* runs".
OneRunPerCall == \A c \in Callers : runs[c] <= 1
=============================================================================
