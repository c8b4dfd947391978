------------------------ MODULE GatewayClientProofs ------------------------
(***************************************************************************)
(* Proofs about GatewayClient, for any number of callers, sockets and       *)
(* retries.                                                                *)
(*                                                                         *)
(* Why an answer finds its request and a challenge its socket, although     *)
(* ws, nonce and pending are fields that every connection shares: a socket  *)
(* that is dialled is ws until it is closed (Current), ids are never used   *)
(* again (Ids), and the connect() in progress is the one that everybody     *)
(* awaits (Dialled).                                                        *)
(***************************************************************************)
EXTENDS GatewayClient, FiniteSetTheorems, TLAPS

\* The connect() in progress is the one this.connecting stands for.
Dialled == \A s \in Sockets : conn[s] \in Dialling <=> connecting = s

\* A socket whose onopen has not come belongs to a connect() that waits for it.
Opening == \A s \in Sockets : sock[s].st = "connecting" => conn[s] = "opening"

\* A socket that is connecting or open is this.ws, and a challenge is its own.
Current ==
  /\ \A s \in Sockets : sock[s].st \in {"connecting", "open"} => s = ws
  /\ ws # None /\ nonce # None => nonce = ws

\* Whoever goes on after a connect() that succeeded finds its socket.
Connected ==
  \A c \in Callers : Awaiting(c) =>
    call[c].on \in Sockets /\ (conn[call[c].on] = "ok" => ws # None)

\* Who sends what.
Senders(kind) ==
  CASE kind = "connect" -> Sockets
    [] kind = "read"    -> Readers
    [] OTHER            -> Runners

Sent == \A f \in wire \cup pending : f.owner \in Senders(f.kind)

\* Ids count up; a request is pending once, and so is its owner.
Ids ==
  /\ \A f \in wire \cup pending : f.id <= seq
  /\ \A p, q \in pending : p.id = q.id \/ p.owner = q.owner => p = q

Traffic ==
  /\ seq \in Nat /\ pending \subseteq Frames /\ wire \subseteq Frames
  /\ Sent /\ Ids /\ AnswersMatch /\ FreshChallenge

IInv ==
  /\ TypeOK
  /\ Dialled /\ Opening /\ Current /\ Connected
  /\ Sent /\ Ids /\ AnswersMatch /\ FreshChallenge
  /\ NobodyForgotten

-----------------------------------------------------------------------------
(* Frames *)

\* A request that is sent over a socket joins the map and the wire under an
\* id that is new.
LEMMA TransmitKeeps ==
  ASSUME Traffic, ws \in Sockets, nonce \in Sockets \cup {None},
         NEW owner \in Callers \cup Sockets, owner \notin Owners,
         NEW kind \in {"connect", "read", "send", "wait"}, owner \in Senders(kind),
         kind = "connect" => nonce = ws,
         Transmit(owner, kind)
  PROVE  Traffic' /\ Owners' = Owners \cup {owner}
<1> DEFINE frame == [id |-> seq + 1, owner |-> owner, kind |-> kind, sock |-> ws,
                     nonce |-> IF kind = "connect" THEN nonce ELSE None, served |-> FALSE]
<1>1. frame \in Frames /\ frame.id = seq + 1 /\ frame.owner = owner /\ frame.kind = kind
      /\ frame.sock = ws /\ (kind = "connect" => frame.nonce = ws)
  BY DEF Frames, Traffic
<1>2. \A f \in wire \cup pending : f \in Frames /\ f.id \in Nat /\ f.id # seq + 1
  BY DEF Traffic, Ids, Frames
<1>3. seq' = seq + 1 /\ wire' = wire \cup {frame} /\ pending' = pending \cup {frame}
  BY <1>1, <1>2 DEF Transmit
<1> HIDE DEF frame
<1>4. seq' \in Nat /\ pending' \subseteq Frames /\ wire' \subseteq Frames
  BY <1>1, <1>3 DEF Traffic
<1>5. Sent'
  BY <1>1, <1>3 DEF Traffic, Sent, Senders
<1>6. Ids'
  <2>1. \A f \in (wire \cup pending)' : f.id <= seq'
    BY <1>1, <1>2, <1>3 DEF Traffic, Ids
  <2>2. \A p, q \in pending' : p.id = q.id \/ p.owner = q.owner => p = q
    BY <1>1, <1>2, <1>3 DEF Traffic, Ids, Owners
  <2> QED BY <2>1, <2>2 DEF Ids
<1>7. AnswersMatch'
  BY <1>1, <1>2, <1>3 DEF Traffic, AnswersMatch
<1>8. FreshChallenge'
  BY <1>1, <1>3 DEF Traffic, FreshChallenge
<1>9. Owners' = Owners \cup {owner}
  BY <1>1, <1>3 DEF Owners
<1> QED BY <1>4, <1>5, <1>6, <1>7, <1>8, <1>9 DEF Traffic

\* Frames that go away disturb nobody.
LEMMA FewerFrames ==
  ASSUME Traffic, wire' \subseteq wire, pending' \subseteq pending, seq' = seq
  PROVE  Traffic'
BY DEF Traffic, Sent, Senders, Ids, AnswersMatch, FreshChallenge

\* An answer settles one entry, that of its sender.
LEMMA OneMatch ==
  ASSUME Traffic, NEW f \in wire
  PROVE  /\ \A p \in Matching(f) : p \in pending /\ p.owner = f.owner
         /\ \A p, q \in Matching(f) : p = q
BY DEF Traffic, Matching, AnswersMatch, Ids

\* What leaves the map takes its owner along.
LEMMA OwnersLeave ==
  ASSUME Traffic, NEW S, S \subseteq pending, pending' = pending \ S
  PROVE  Owners' = Owners \ {p.owner : p \in S}
BY DEF Traffic, Owners, Ids

LEMMA TrafficOfInvariant ==
  ASSUME IInv
  PROVE  Traffic
BY DEF IInv, TypeOK, Traffic

\* Who is in the map is a caller that waits for its answer or a connect() that
\* waits for hello-ok.
LEMMA OwnersAre ==
  ASSUME IInv
  PROVE  /\ \A c \in Callers : c \in Owners <=> call[c].pc \in {"sent", "waiting"}
         /\ \A s \in Sockets : s \in Owners <=> conn[s] = "hello"
         /\ Owners \subseteq Callers \cup Sockets
BY GatewayAssumption DEF IInv, NobodyForgotten, Callers

-----------------------------------------------------------------------------
(* Rejected promises *)

LEMMA ErrorTyped ==
  ASSUME TypeOK, NEW c \in Callers, NEW kind
  PROVE  AfterError(c, kind) \in [pc : {"backoff", "failed"}, on : {None}, tries : 0 .. RetryLimit]
<1>1. call[c] \in [pc : {"idle", "first", "again", "sent", "waiting", "backoff", "done", "failed"},
                   on : Sockets \cup {None}, tries : 0 .. RetryLimit]
  BY DEF TypeOK
<1>2. call[c].tries < RetryLimit => call[c].tries + 1 \in 0 .. RetryLimit
  BY <1>1, GatewayAssumption
<1>3. [call[c] EXCEPT !.pc = "failed", !.on = None]
        \in [pc : {"backoff", "failed"}, on : {None}, tries : 0 .. RetryLimit]
  BY <1>1
<1>4. CASE kind = "transient" /\ call[c].pc \in {"again", "sent"} /\ call[c].tries < RetryLimit
  BY <1>1, <1>2, <1>4 DEF AfterError
<1>5. CASE ~(kind = "transient" /\ call[c].pc \in {"again", "sent"} /\ call[c].tries < RetryLimit)
  BY <1>3, <1>5 DEF AfterError
<1> QED BY <1>4, <1>5

\* Rejecting what has left the map keeps the rest of the invariant.
LEMMA RejectKeeps ==
  ASSUME IInv, NEW owners, NEW kind \in Errors, Reject(owners, kind),
         Owners' = Owners \ owners
  PROVE  /\ call' \in [Callers -> [pc : {"idle", "first", "again", "sent", "waiting",
                                         "backoff", "done", "failed"},
                                   on : Sockets \cup {None}, tries : 0 .. RetryLimit]]
         /\ conn' \in [Sockets -> {"none", "ok"} \cup Dialling \cup Errors]
         /\ connecting' \in Sockets \cup {None}
         /\ Dialled'
         /\ NobodyForgotten'
         /\ \A c \in Callers : Awaiting(c)' => Awaiting(c) /\ call'[c] = call[c]
         /\ \A s \in Sockets : conn'[s] = conn[s] \/ (s \in owners /\ conn'[s] = kind)
<1>1. \A c \in Callers : call'[c] = IF c \in owners THEN AfterError(c, kind) ELSE call[c]
  BY DEF Reject
<1>2. \A s \in Sockets : conn'[s] = IF s \in owners THEN kind ELSE conn[s]
  BY DEF Reject
<1>3. \A c \in Callers : c \in owners => call'[c].pc \in {"backoff", "failed"}
  BY <1>1, ErrorTyped DEF IInv
<1>4. call' \in [Callers -> [pc : {"idle", "first", "again", "sent", "waiting",
                                   "backoff", "done", "failed"},
                             on : Sockets \cup {None}, tries : 0 .. RetryLimit]]
  BY <1>1, ErrorTyped DEF IInv, TypeOK, Reject
<1>5. conn' \in [Sockets -> {"none", "ok"} \cup Dialling \cup Errors]
  BY DEF IInv, TypeOK, Reject
<1>6. connecting' \in Sockets \cup {None}
  BY DEF IInv, TypeOK, Reject
<1>7. Dialled'
  BY <1>2, GatewayAssumption DEF IInv, Dialled, Reject, Dialling, Errors
<1>8. NobodyForgotten'
  <2>1. \A c \in Callers : call'[c].pc \in {"sent", "waiting"} <=> c \in Owners \ owners
    BY <1>1, <1>3, OwnersAre
  <2>2. \A s \in Sockets : conn'[s] = "hello" <=> s \in Owners \ owners
    BY <1>2, OwnersAre DEF Errors
  <2> QED BY <2>1, <2>2, OwnersAre DEF NobodyForgotten
<1>9. \A c \in Callers : Awaiting(c)' => Awaiting(c) /\ call'[c] = call[c]
  BY <1>1, <1>3 DEF Awaiting
<1> QED BY <1>2, <1>4, <1>5, <1>6, <1>7, <1>8, <1>9

-----------------------------------------------------------------------------
(* Joining or starting a connect() *)

SocketStates == [st : {"closed", "connecting", "open", "closing"},
                 greeted : BOOLEAN, hello : BOOLEAN]

LEMMA EnsureConnectedKeeps ==
  ASSUME IInv, Quiet, NEW c \in Callers, call[c].pc \in {"idle", "backoff"},
         NEW pc \in {"first", "again"}, NEW w \in Sockets \cup {None}, w \in {ws, None},
         NEW sk \in [Sockets -> SocketStates],
         \A s \in Sockets : /\ sk[s].st = "connecting" => sock[s].st = "connecting"
                            /\ sk[s].st # "open"
                            /\ sk[s].st = "connecting" => s = w,
         EnsureConnected(c, pc, w, sk), UNCHANGED <<pending, wire, runs>>
  PROVE  IInv'
<1> DEFINE CallStates == [pc : {"idle", "first", "again", "sent", "waiting", "backoff", "done", "failed"},
                          on : Sockets \cup {None}, tries : 0 .. RetryLimit]
<1>1. TypeOK /\ call \in [Callers -> CallStates]
  BY DEF IInv, TypeOK
<1>2. seq' = seq /\ Traffic'
  BY TrafficOfInvariant, FewerFrames DEF EnsureConnected, Dial
<1>3. Owners' = Owners
  BY DEF Owners
<1>4. CASE connecting # None /\ call' = [call EXCEPT ![c].pc = pc, ![c].on = connecting]
           /\ ws' = w /\ sock' = sk /\ UNCHANGED <<nonce, conn, connecting, seq>>
  <2>1. connecting \in Sockets /\ conn[connecting] \in Dialling
    BY <1>1, <1>4 DEF TypeOK, IInv, Dialled
  <2>2. /\ call' \in [Callers -> CallStates]
        /\ call'[c].pc = pc /\ call'[c].on = connecting
        /\ \A d \in Callers \ {c} : call'[d] = call[d]
    BY <1>1, <1>4, <2>1
  <2>3. TypeOK'
    BY <1>1, <1>2, <1>4, <2>2 DEF TypeOK, SocketStates, Traffic
  <2>4. Dialled' /\ Opening' /\ Current'
    BY <1>1, <1>4 DEF IInv, Dialled, Opening, Current, TypeOK
  <2>5. Connected'
    <3> SUFFICES ASSUME NEW d \in Callers, Awaiting(d)'
                 PROVE  call'[d].on \in Sockets /\ conn'[call'[d].on] # "ok"
      BY DEF Connected
    <3>1. CASE d = c
      BY <3>1, <1>4, <2>1, <2>2 DEF Dialling
    <3>2. CASE d # c
      BY <3>2, <1>4, <2>2 DEF Awaiting, IInv, Connected, Quiet, Dialling
    <3> QED BY <3>1, <3>2
  <2>6. NobodyForgotten'
    BY <1>3, <1>4, <2>2 DEF IInv, NobodyForgotten
  <2> QED BY <1>2, <2>3, <2>4, <2>5, <2>6 DEF IInv, Traffic
<1>5. ASSUME connecting = None, NEW s \in Sockets, Dial(s, sk), connecting' = s,
             call' = [call EXCEPT ![c].pc = pc, ![c].on = s]
      PROVE  IInv'
  <2>1. /\ sock' = [sk EXCEPT ![s] = [NoSocket EXCEPT !.st = "connecting"]]
        /\ ws' = s /\ nonce' = None /\ conn' = [conn EXCEPT ![s] = "opening"]
    BY <1>5 DEF Dial
  <2>2. /\ call' \in [Callers -> CallStates]
        /\ call'[c].pc = pc /\ call'[c].on = s
        /\ \A d \in Callers \ {c} : call'[d] = call[d]
    BY <1>1, <1>5
  <2>3. /\ sock' \in [Sockets -> SocketStates] /\ sock'[s].st = "connecting"
        /\ \A t \in Sockets \ {s} : sock'[t] = sk[t]
    BY <2>1 DEF NoSocket, SocketStates
  <2>4. /\ conn' \in [Sockets -> {"none", "ok"} \cup Dialling \cup Errors] /\ conn'[s] = "opening"
        /\ \A t \in Sockets \ {s} : conn'[t] = conn[t] /\ conn[t] \notin Dialling
    BY <1>1, <1>5, <2>1, GatewayAssumption DEF TypeOK, IInv, Dialled, Dialling
  <2>5. conn[s] \notin Dialling
    BY <1>5 DEF Dial
  <2>6. TypeOK'
    BY <1>1, <1>2, <1>5, <2>1, <2>2, <2>3, <2>4 DEF TypeOK, SocketStates, Traffic
  <2>7. Dialled'
    BY <1>5, <2>4 DEF Dialled, Dialling
  <2>8. \A t \in Sockets \ {s} : sock'[t].st \notin {"connecting", "open"}
    BY <2>3, <2>4 DEF IInv, Opening, Dialling
  <2>9. Opening' /\ Current'
    BY <2>1, <2>4, <2>8 DEF Opening, Current
  <2>10. Connected'
    BY <2>1, GatewayAssumption, <2>2, <1>5 DEF Connected, IInv, Awaiting
  <2>11. NobodyForgotten'
    BY <1>3, <2>2, <2>4, <2>5 DEF IInv, NobodyForgotten, Dialling
  <2> QED BY <1>2, <2>6, <2>7, <2>9, <2>10, <2>11 DEF IInv, Traffic
<1> QED BY <1>4, <1>5 DEF EnsureConnected

-----------------------------------------------------------------------------
(* Steps that reject *)

LEMMA RejectStepKeeps ==
  ASSUME IInv, Quiet, NEW owners, NEW kind \in Errors, Reject(owners, kind),
         Owners' = Owners \ owners,
         pending' \subseteq pending, wire' \subseteq wire, seq' = seq,
         sock' \in [Sockets -> SocketStates], ws' \in {ws, None},
         \A s \in Sockets : sock'[s].st \in {"connecting", "open"} => sock'[s].st = sock[s].st /\ s = ws',
         \A s \in Sockets : sock'[s].st = "connecting" => s \notin owners,
         UNCHANGED <<nonce, runs>>
  PROVE  IInv'
<1>1. Traffic'
  BY TrafficOfInvariant, FewerFrames
<1>2. TypeOK'
  BY <1>1, RejectKeeps DEF IInv, TypeOK, Traffic, SocketStates
<1>3. Dialled' /\ NobodyForgotten'
  BY RejectKeeps
<1>4. Opening'
  BY RejectKeeps DEF IInv, Opening
<1>5. Current'
  BY DEF IInv, Current
<1>6. Connected'
  <2> SUFFICES ASSUME NEW c \in Callers, Awaiting(c)'
               PROVE  call'[c].on \in Sockets /\ conn'[call'[c].on] # "ok"
    BY DEF Connected
  <2>1. Awaiting(c) /\ call'[c] = call[c]
    BY RejectKeeps
  <2>2. call[c].on \in Sockets /\ conn[call[c].on] \in Dialling
    BY <2>1 DEF Quiet, IInv, Connected
  <2> QED BY <2>1, <2>2, RejectKeeps DEF Dialling, Errors
<1> QED BY <1>1, <1>2, <1>3, <1>4, <1>5, <1>6 DEF IInv, Traffic

\* Only a connect() whose onopen came has a request in the map.
LEMMA ConnectingIsNoOwner ==
  ASSUME IInv, NEW s \in Sockets, sock[s].st = "connecting"
  PROVE  s \notin Owners
BY OwnersAre DEF IInv, Opening

LEMMA SocketsTyped ==
  ASSUME IInv
  PROVE  /\ sock \in [Sockets -> SocketStates]
         /\ ws \in Sockets \cup {None} /\ nonce \in Sockets \cup {None}
BY DEF IInv, TypeOK, SocketStates

LEMMA ConnectTimeoutKeeps ==
  ASSUME IInv, NEW s \in Sockets, ConnectTimeout(s)
  PROVE  IInv'
<1>1. Quiet /\ conn[s] = "opening" /\ Reject({s}, "fatal") /\ "fatal" \in Errors
  BY DEF ConnectTimeout, Errors
<1>2. Owners' = Owners \ {s}
  BY <1>1, OwnersAre DEF ConnectTimeout, Owners
<1>3. /\ sock' \in [Sockets -> SocketStates] /\ sock'[s].st = "closing"
      /\ \A t \in Sockets \ {s} : sock'[t] = sock[t]
  BY SocketsTyped DEF ConnectTimeout, SocketStates
<1>4. UNCHANGED <<ws, nonce, seq, pending, wire, runs>>
  BY DEF ConnectTimeout
<1>5. \A t \in Sockets : sock'[t].st \in {"connecting", "open"} => sock'[t].st = sock[t].st /\ t = ws'
  BY <1>3, <1>4 DEF IInv, Current
<1> QED BY <1>1, <1>2, <1>3, <1>4, <1>5, RejectStepKeeps

LEMMA ChallengeTimeoutKeeps ==
  ASSUME IInv, NEW s \in Sockets, ChallengeTimeout(s)
  PROVE  IInv'
<1>1. Quiet /\ conn[s] = "challenge" /\ Reject({s}, "fatal") /\ "fatal" \in Errors
  BY DEF ChallengeTimeout, Errors
<1>2. UNCHANGED <<sock, ws, nonce, seq, pending, wire, runs>>
  BY DEF ChallengeTimeout
<1>3. Owners' = Owners \ {s}
  BY <1>1, <1>2, OwnersAre DEF Owners
<1>4. \A t \in Sockets : sock'[t].st \in {"connecting", "open"} => sock'[t].st = sock[t].st /\ t = ws'
  BY <1>2 DEF IInv, Current
<1>5. \A t \in Sockets : sock'[t].st = "connecting" => t \notin {s}
  BY <1>1, <1>2 DEF IInv, Opening
<1> QED BY <1>1, <1>2, <1>3, <1>4, <1>5, SocketsTyped, RejectStepKeeps

LEMMA RequestTimeoutKeeps ==
  ASSUME IInv, NEW p \in pending, RequestTimeout(p)
  PROVE  IInv'
<1>1. Quiet /\ Reject({p.owner}, "transient") /\ "transient" \in Errors /\ p.owner \in Owners
  BY DEF RequestTimeout, Errors, Owners
<1>2. UNCHANGED <<sock, ws, nonce, seq, wire, runs>> /\ pending' = pending \ {p}
  BY DEF RequestTimeout
<1>3. Owners' = Owners \ {p.owner}
  <2>1. Owners' = Owners \ {q.owner : q \in {p}}
    BY <1>2, TrafficOfInvariant, OwnersLeave
  <2> QED BY <2>1
<1>4. \A t \in Sockets : sock'[t].st \in {"connecting", "open"} => sock'[t].st = sock[t].st /\ t = ws'
  BY <1>2 DEF IInv, Current
<1>5. \A t \in Sockets : sock'[t].st = "connecting" => t \notin {p.owner}
  BY <1>1, <1>2, ConnectingIsNoOwner
<1> QED BY <1>1, <1>2, <1>3, <1>4, <1>5, SocketsTyped, RejectStepKeeps

LEMMA AnswerErrorKeeps ==
  ASSUME IInv, NEW f \in wire, AnswerError(f)
  PROVE  IInv'
<1> DEFINE owners == {p.owner : p \in Matching(f)}
<1>1. Quiet /\ owners \subseteq Owners /\ Matching(f) \subseteq pending
  BY DEF AnswerError, Owners, Matching
<1>2. /\ UNCHANGED <<sock, ws, nonce, seq, runs>>
      /\ wire' \subseteq wire /\ pending' = pending \ Matching(f)
  BY DEF AnswerError
<1>3. Owners' = Owners \ owners
  BY <1>1, <1>2, TrafficOfInvariant, OwnersLeave
<1>4. \A t \in Sockets : sock'[t].st \in {"connecting", "open"} => sock'[t].st = sock[t].st /\ t = ws'
  BY <1>2 DEF IInv, Current
<1>5. \A t \in Sockets : sock'[t].st = "connecting" => t \notin owners
  BY <1>1, <1>2, ConnectingIsNoOwner
<1>6. PICK kind \in Errors : Reject(owners, kind)
  BY DEF AnswerError
<1> HIDE DEF owners
<1> QED BY <1>1, <1>2, <1>3, <1>4, <1>5, <1>6, SocketsTyped, RejectStepKeeps

LEMMA GarbageKeeps ==
  ASSUME IInv, NEW s \in Sockets, Garbage(s)
  PROVE  IInv'
<1>1. Quiet /\ Reject(Owners, "fatal") /\ "fatal" \in Errors
  BY DEF Garbage, Errors
<1>2. UNCHANGED <<sock, ws, nonce, seq, wire, runs>> /\ pending' = {}
  BY DEF Garbage
<1>3. Owners' = Owners \ Owners
  BY <1>2 DEF Owners
<1>4. \A t \in Sockets : sock'[t].st \in {"connecting", "open"} => sock'[t].st = sock[t].st /\ t = ws'
  BY <1>2 DEF IInv, Current
<1>5. \A t \in Sockets : sock'[t].st = "connecting" => t \notin Owners
  BY <1>2, ConnectingIsNoOwner
<1> QED BY <1>1, <1>2, <1>3, <1>4, <1>5, SocketsTyped, RejectStepKeeps

LEMMA ClosedKeeps ==
  ASSUME IInv, NEW s \in Sockets, Closed(s)
  PROVE  IInv'
<1> DEFINE owners == Owners \cup (IF conn[s] = "opening" THEN {s} ELSE {})
<1>1. Quiet /\ Reject(owners, "transient") /\ "transient" \in Errors
  BY DEF Closed, Errors
<1>2. /\ UNCHANGED <<nonce, seq, runs>> /\ pending' = {} /\ wire' \subseteq wire
      /\ ws' = IF ws = s THEN None ELSE ws
      /\ sock' = [sock EXCEPT ![s] = NoSocket]
  BY DEF Closed
<1>3. Owners' = Owners \ owners
  BY <1>2 DEF Owners
<1>4. /\ sock' \in [Sockets -> SocketStates] /\ sock'[s].st = "closed"
      /\ \A t \in Sockets \ {s} : sock'[t] = sock[t]
  BY <1>2, SocketsTyped DEF SocketStates, NoSocket
<1>5. \A t \in Sockets : sock'[t].st \in {"connecting", "open"} => sock'[t].st = sock[t].st /\ t = ws'
  BY <1>2, <1>4 DEF IInv, Current
<1>6. \A t \in Sockets : sock'[t].st = "connecting" => t \notin owners
  BY <1>4, ConnectingIsNoOwner
<1> HIDE DEF owners
<1> QED BY <1>1, <1>2, <1>3, <1>4, <1>5, <1>6, SocketsTyped, RejectStepKeeps

-----------------------------------------------------------------------------
(* Steps of a connect() that succeed *)

LEMMA OpenedKeeps ==
  ASSUME IInv, NEW s \in Sockets, Opened(s)
  PROVE  IInv'
<1>1. Quiet /\ conn[s] = "opening" /\ sock[s].st = "connecting"
  BY DEF Opened, IInv, Opening
<1>2. UNCHANGED <<ws, nonce, connecting, seq, pending, wire, call, runs>>
  BY DEF Opened
<1>3. /\ sock' \in [Sockets -> SocketStates] /\ sock'[s].st = "open"
      /\ \A t \in Sockets \ {s} : sock'[t] = sock[t]
  BY SocketsTyped DEF Opened, SocketStates
<1>4. /\ conn' \in [Sockets -> {"none", "ok"} \cup Dialling \cup Errors] /\ conn'[s] = "challenge"
      /\ \A t \in Sockets \ {s} : conn'[t] = conn[t]
  BY DEF Opened, IInv, TypeOK, Dialling
<1>5. TypeOK'
  BY <1>2, <1>3, <1>4 DEF IInv, TypeOK, SocketStates
<1>6. Dialled'
  BY <1>1, <1>2, <1>4 DEF IInv, Dialled, Dialling
<1>7. Opening' /\ Current'
  BY <1>1, <1>2, <1>3, <1>4 DEF IInv, Opening, Current
<1>8. Connected'
  BY <1>2, <1>4 DEF IInv, Connected, Awaiting
<1>9. NobodyForgotten'
  BY <1>1, <1>2, <1>4 DEF IInv, NobodyForgotten, Owners
<1>10. Traffic'
  BY <1>2, TrafficOfInvariant, FewerFrames
<1> QED BY <1>5, <1>6, <1>7, <1>8, <1>9, <1>10 DEF IInv, Traffic

LEMMA ChallengeKeeps ==
  ASSUME IInv, NEW s \in Sockets, Challenge(s)
  PROVE  IInv'
<1>1. UNCHANGED <<ws, conn, connecting, seq, pending, wire, call, runs>>
      /\ nonce' = s /\ sock[s].st = "open"
  BY DEF Challenge
<1>2. /\ sock' \in [Sockets -> SocketStates]
      /\ \A t \in Sockets : sock'[t].st = sock[t].st
  BY SocketsTyped DEF Challenge, SocketStates
<1>3. TypeOK'
  BY <1>1, <1>2 DEF IInv, TypeOK, SocketStates
<1>4. Dialled' /\ Opening' /\ Current'
  BY <1>1, <1>2 DEF IInv, Dialled, Opening, Current
<1>5. Connected' /\ NobodyForgotten'
  BY <1>1 DEF IInv, Connected, Awaiting, NobodyForgotten, Owners
<1>6. Traffic'
  BY <1>1, TrafficOfInvariant, FewerFrames
<1> QED BY <1>3, <1>4, <1>5, <1>6 DEF IInv, Traffic

LEMMA SendConnectKeeps ==
  ASSUME IInv, NEW s \in Sockets, SendConnect(s)
  PROVE  IInv'
<1>1. Quiet /\ conn[s] = "challenge" /\ nonce # None /\ UNCHANGED <<sock, ws, nonce, runs>>
  BY DEF SendConnect
<1>2. CASE Reject({s}, "transient") /\ UNCHANGED <<seq, pending, wire>>
  <2>1. Owners' = Owners \ {s}
    BY <1>1, <1>2, OwnersAre DEF Owners
  <2>2. \A t \in Sockets : sock'[t].st \in {"connecting", "open"} => sock'[t].st = sock[t].st /\ t = ws'
    BY <1>1 DEF IInv, Current
  <2>3. \A t \in Sockets : sock'[t].st = "connecting" => t \notin {s}
    BY <1>1 DEF IInv, Opening
  <2>4. "transient" \in Errors
    BY DEF Errors
  <2> QED BY <1>1, <1>2, <2>1, <2>2, <2>3, <2>4, SocketsTyped, RejectStepKeeps
<1>3. CASE /\ IsConnected /\ Transmit(s, "connect")
           /\ conn' = [conn EXCEPT ![s] = "hello"] /\ UNCHANGED <<connecting, call>>
  <2>1. ws \in Sockets /\ nonce = ws
    BY <1>1, <1>3, SocketsTyped DEF IsConnected, IInv, Current
  <2>2. s \notin Owners /\ s \in Senders("connect")
    BY <1>1, OwnersAre DEF Senders
  <2>3. Traffic' /\ Owners' = Owners \cup {s}
    BY <1>3, <2>1, <2>2, SocketsTyped, TrafficOfInvariant, TransmitKeeps
  <2>4. /\ conn' \in [Sockets -> {"none", "ok"} \cup Dialling \cup Errors] /\ conn'[s] = "hello"
        /\ \A t \in Sockets \ {s} : conn'[t] = conn[t]
    BY <1>3 DEF IInv, TypeOK, Dialling
  <2>5. TypeOK'
    BY <1>1, <1>3, <2>3, <2>4 DEF IInv, TypeOK, Traffic
  <2>6. Dialled'
    BY <1>1, <1>3, <2>4 DEF IInv, Dialled, Dialling
  <2>7. Opening' /\ Current' /\ Connected'
    BY <1>1, <1>3, <2>4 DEF IInv, Opening, Current, Connected, Awaiting
  <2>8. NobodyForgotten'
    BY <1>3, <2>3, <2>4 DEF IInv, NobodyForgotten
  <2> QED BY <2>3, <2>5, <2>6, <2>7, <2>8 DEF IInv, Traffic
<1> QED BY <1>2, <1>3 DEF SendConnect

LEMMA HelloOkKeeps ==
  ASSUME IInv, NEW f \in wire, HelloOk(f)
  PROVE  IInv'
<1> DEFINE owners == {p.owner : p \in Matching(f)}
<1>1. f.sock \in Sockets /\ sock[f.sock].st = "open" /\ f.kind = "connect" /\ f.owner \in Sockets
  BY DEF HelloOk, IInv, TypeOK, Frames, Sent, Senders
<1>2. owners \subseteq Owners \cap Sockets
  BY <1>1, OneMatch, TrafficOfInvariant DEF Owners
<1>3. \A s \in owners : conn[s] = "hello"
  BY <1>2, OwnersAre
<1>4. /\ UNCHANGED <<ws, nonce, seq, call, runs>>
      /\ sock' = [sock EXCEPT ![f.sock].hello = TRUE]
      /\ pending' = pending \ Matching(f) /\ wire' \subseteq wire
      /\ conn' = [s \in Sockets |-> IF s \in owners THEN "ok" ELSE conn[s]]
      /\ connecting' = IF connecting \in owners THEN None ELSE connecting
  BY DEF HelloOk
<1>5. Traffic' /\ Owners' = Owners \ owners
  BY <1>4, TrafficOfInvariant, FewerFrames, OwnersLeave DEF Matching
<1>6. /\ sock' \in [Sockets -> SocketStates]
      /\ \A t \in Sockets : sock'[t].st = sock[t].st
  BY <1>1, <1>4, SocketsTyped DEF SocketStates
<1> HIDE DEF owners
<1>7. TypeOK'
  BY <1>4, <1>5, <1>6 DEF IInv, TypeOK, SocketStates, Traffic
<1>8. Dialled'
  BY <1>3, <1>4, GatewayAssumption DEF IInv, Dialled, Dialling
<1>9. Opening'
  BY <1>3, <1>4, <1>6 DEF IInv, Opening
<1>10. Current' /\ ws # None
  BY <1>1, <1>4, <1>6, GatewayAssumption DEF IInv, Current
<1>11. Connected'
  BY <1>4, <1>10 DEF IInv, Connected, Awaiting
<1>12. NobodyForgotten'
  <2>1. \A s \in Sockets : conn'[s] = "hello" <=> s \in Owners \ owners
    BY <1>4, OwnersAre
  <2>2. \A c \in Callers : call'[c].pc \in {"sent", "waiting"} <=> c \in Owners \ owners
    BY <1>2, <1>4, OwnersAre, GatewayAssumption
  <2> QED BY <1>5, <2>1, <2>2, OwnersAre DEF NobodyForgotten
<1> QED BY <1>5, <1>7, <1>8, <1>9, <1>10, <1>11, <1>12 DEF IInv, Traffic

-----------------------------------------------------------------------------
(* Requests and their answers *)

CallStates == [pc : {"idle", "first", "again", "sent", "waiting", "backoff", "done", "failed"},
               on : Sockets \cup {None}, tries : 0 .. RetryLimit]

LEMMA CallsTyped ==
  ASSUME IInv
  PROVE  call \in [Callers -> CallStates]
BY DEF IInv, TypeOK, CallStates

LEMMA ServeKeeps ==
  ASSUME IInv, NEW f \in wire, Serve(f)
  PROVE  IInv'
<1> DEFINE g == [f EXCEPT !.served = TRUE]
<1>1. f \in Frames /\ f.kind = "send" /\ f.owner \in Runners
  BY DEF Serve, IInv, TypeOK, Sent, Senders
<1>2. g \in Frames /\ g.id = f.id /\ g.owner = f.owner /\ g.kind = f.kind /\ g.sock = f.sock /\ g.nonce = f.nonce
  BY <1>1 DEF Frames
<1>3. UNCHANGED <<network, seq, pending, call>> /\ wire' = (wire \ {f}) \cup {g}
      /\ runs' = [runs EXCEPT ![f.owner] = @ + 1]
  BY DEF Serve
<1> HIDE DEF g
<1>4. runs' \in [Callers -> Nat]
  BY <1>1, <1>3 DEF IInv, TypeOK, Callers
<1>5. Sent' /\ Ids'
  BY <1>2, <1>3 DEF IInv, Sent, Senders, Ids
<1>6. AnswersMatch' /\ FreshChallenge'
  BY <1>2, <1>3 DEF IInv, AnswersMatch, FreshChallenge
<1>7. TypeOK'
  BY <1>2, <1>3, <1>4 DEF IInv, TypeOK, network
<1>8. Dialled' /\ Opening' /\ Current' /\ Connected' /\ NobodyForgotten'
  BY <1>3 DEF IInv, network, Dialled, Opening, Current, Connected, Awaiting, NobodyForgotten, Owners
<1> QED BY <1>5, <1>6, <1>7, <1>8 DEF IInv

\* A caller sends its request, and from then on waits for the answer.
LEMMA CallerSends ==
  ASSUME IInv, NEW c \in Callers, call[c].pc \notin {"sent", "waiting"}, ws \in Sockets,
         Transmit(c, MethodOf(c)), UNCHANGED <<network, runs>>,
         call' \in [Callers -> CallStates], call'[c].pc = "sent",
         \A d \in Callers \ {c} : call'[d] = call[d]
  PROVE  IInv'
<1>1. c \notin Owners /\ MethodOf(c) \in {"send", "read"} /\ c \in Senders(MethodOf(c))
  BY OwnersAre DEF MethodOf, Senders, Callers
<1>2. Traffic' /\ Owners' = Owners \cup {c}
  BY <1>1, SocketsTyped, TrafficOfInvariant, TransmitKeeps
<1>3. TypeOK'
  BY <1>2 DEF IInv, TypeOK, Traffic, network, CallStates
<1>4. Dialled' /\ Opening' /\ Current'
  BY DEF IInv, network, Dialled, Opening, Current
<1>5. Connected'
  BY DEF IInv, network, Connected, Awaiting
<1>6. NobodyForgotten'
  BY <1>2, GatewayAssumption DEF IInv, network, NobodyForgotten
<1> QED BY <1>2, <1>3, <1>4, <1>5, <1>6 DEF IInv, Traffic

LEMMA StartKeeps ==
  ASSUME IInv, NEW c \in Callers, Start(c)
  PROVE  IInv'
<1>1. Quiet /\ call[c].pc = "idle" /\ runs' = runs
  BY DEF Start
<1>2. CASE IsConnected /\ Transmit(c, MethodOf(c)) /\ call' = [call EXCEPT ![c].pc = "sent"]
           /\ UNCHANGED network
  <2>1. call' \in [Callers -> CallStates] /\ call'[c].pc = "sent"
        /\ \A d \in Callers \ {c} : call'[d] = call[d]
    BY <1>2, CallsTyped DEF CallStates
  <2>2. ws \in Sockets
    BY <1>2, SocketsTyped DEF IsConnected
  <2> QED BY <1>1, <1>2, <2>1, <2>2, CallerSends
<1>3. CASE ~IsConnected /\ EnsureConnected(c, "first", ws, sock) /\ UNCHANGED <<pending, wire>>
  <2>1. \A s \in Sockets : sock[s].st # "open" /\ (sock[s].st = "connecting" => s = ws)
    BY <1>3, GatewayAssumption DEF IsConnected, IInv, Current
  <2> QED BY <1>1, <1>3, <2>1, SocketsTyped, EnsureConnectedKeeps
<1> QED BY <1>2, <1>3 DEF Start

LEMMA ResumeKeeps ==
  ASSUME IInv, NEW c \in Callers, Resume(c)
  PROVE  IInv'
<1>1. Awaiting(c) /\ UNCHANGED <<network, runs>>
  BY DEF Resume
<1>2. call[c].pc \notin {"sent", "waiting"} /\ call[c].on \in Sockets
      /\ (conn[call[c].on] = "ok" => ws # None)
  BY <1>1 DEF Awaiting, IInv, Connected
<1>3. CASE /\ conn[call[c].on] = "ok" /\ Transmit(c, MethodOf(c))
           /\ call' = [call EXCEPT ![c].pc = "sent", ![c].on = None]
  <2>1. call' \in [Callers -> CallStates] /\ call'[c].pc = "sent"
        /\ \A d \in Callers \ {c} : call'[d] = call[d]
    BY <1>3, CallsTyped DEF CallStates
  <2> QED BY <1>1, <1>2, <1>3, <2>1, SocketsTyped, CallerSends
<1>4. ASSUME NEW kind \in Errors, call' = [call EXCEPT ![c] = AfterError(c, kind)],
             UNCHANGED <<seq, pending, wire>>
      PROVE  IInv'
  <2>1. AfterError(c, kind) \in [pc : {"backoff", "failed"}, on : {None}, tries : 0 .. RetryLimit]
    BY ErrorTyped DEF IInv
  <2>2. /\ call'[c] = AfterError(c, kind)
        /\ \A d \in Callers \ {c} : call'[d] = call[d]
    BY <1>4, CallsTyped
  <2>3. call' \in [Callers -> CallStates] /\ call'[c].pc \in {"backoff", "failed"}
    BY <1>4, <2>1, <2>2, CallsTyped DEF CallStates
  <2>4. TypeOK'
    BY <1>1, <1>4, <2>3 DEF IInv, TypeOK, network, CallStates
  <2>5. Dialled' /\ Opening' /\ Current'
    BY <1>1 DEF IInv, network, Dialled, Opening, Current
  <2>6. Connected'
    BY <1>1, <2>2, <2>3 DEF IInv, network, Connected, Awaiting
  <2>7. NobodyForgotten'
    BY <1>1, <1>2, <1>4, <2>2, <2>3 DEF IInv, network, NobodyForgotten, Owners
  <2>8. Traffic'
    BY <1>4, TrafficOfInvariant, FewerFrames
  <2> QED BY <2>4, <2>5, <2>6, <2>7, <2>8 DEF IInv, Traffic
<1> QED BY <1>3, <1>4 DEF Resume

LEMMA RetryKeeps ==
  ASSUME IInv, NEW c \in Callers, Retry(c)
  PROVE  IInv'
<1> DEFINE sk == [s \in Sockets |-> IF s = ws THEN [sock[s] EXCEPT !.st = "closing"] ELSE sock[s]]
<1>1. /\ Quiet /\ call[c].pc = "backoff" /\ EnsureConnected(c, "again", None, sk)
      /\ UNCHANGED <<pending, wire, runs>>
  BY DEF Retry
<1>2. sk \in [Sockets -> SocketStates]
  BY SocketsTyped DEF SocketStates
<1>3. \A s \in Sockets : sk[s].st \notin {"connecting", "open"}
  <2> TAKE s \in Sockets
  <2>1. CASE s = ws
    BY <2>1, SocketsTyped DEF SocketStates
  <2>2. CASE s # ws
    BY <2>2 DEF IInv, Current
  <2> QED BY <2>1, <2>2
<1> HIDE DEF sk
<1> QED BY <1>1, <1>2, <1>3, EnsureConnectedKeeps

LEMMA RunStartedKeeps ==
  ASSUME IInv, NEW f \in wire, RunStarted(f)
  PROVE  IInv'
<1>1. /\ f.sock \in Sockets /\ sock[f.sock].st = "open" /\ UNCHANGED <<network, runs>>
  BY DEF RunStarted, IInv, TypeOK, Frames
<1>2. CASE wire' = wire \ {f} /\ UNCHANGED <<seq, pending, call>>
  <2>1. Traffic'
    BY <1>2, TrafficOfInvariant, FewerFrames
  <2>2. TypeOK'
    BY <1>1, <1>2, <2>1 DEF IInv, TypeOK, Traffic, network
  <2>3. Dialled' /\ Opening' /\ Current' /\ Connected' /\ NobodyForgotten'
    BY <1>1, <1>2 DEF IInv, network, Dialled, Opening, Current, Connected, Awaiting, NobodyForgotten, Owners
  <2> QED BY <2>1, <2>2, <2>3 DEF IInv, Traffic
<1>3. ASSUME NEW p \in Matching(f),
             seq' = seq + 1,
             pending' = (pending \ {p}) \cup
               {[id |-> seq + 1, owner |-> p.owner, kind |-> "wait", sock |-> ws,
                 nonce |-> None, served |-> FALSE]},
             wire' = (wire \ {f}) \cup
               {[id |-> seq + 1, owner |-> p.owner, kind |-> "wait", sock |-> ws,
                 nonce |-> None, served |-> FALSE]},
             call' = [call EXCEPT ![p.owner].pc = "waiting"]
      PROVE  IInv'
  <2> DEFINE g == [id |-> seq + 1, owner |-> p.owner, kind |-> "wait", sock |-> ws,
                   nonce |-> None, served |-> FALSE]
  <2>1. p \in pending /\ p.owner = f.owner /\ f.owner \in Runners
    BY OneMatch, TrafficOfInvariant DEF RunStarted, IInv, Sent, Senders
  <2>2. ws \in Sockets
    BY <1>1 DEF IInv, Current
  <2>3. seq \in Nat /\ \A h \in wire \cup pending : h \in Frames /\ h.id \in Nat /\ h.id <= seq
    BY DEF IInv, TypeOK, Ids, Frames
  <2>4. g \in Frames /\ g.id = seq + 1 /\ g.owner = p.owner /\ g.kind = "wait" /\ g.sock = ws
    BY <2>1, <2>2, <2>3 DEF Frames, Callers
  <2>5. seq' = seq + 1 /\ pending' = (pending \ {p}) \cup {g} /\ wire' = (wire \ {f}) \cup {g}
    BY <1>3
  <2> HIDE DEF g
  <2>6. Sent'
    BY <2>1, <2>4, <2>5 DEF IInv, Sent, Senders
  <2>7. Ids'
    <3>1. \A h \in (wire \cup pending)' : h.id <= seq'
      BY <2>3, <2>4, <2>5
    <3>2. \A q, r \in pending' : q.id = r.id \/ q.owner = r.owner => q = r
      BY <2>1, <2>3, <2>4, <2>5 DEF IInv, Ids
    <3> QED BY <3>1, <3>2 DEF Ids
  <2>8. AnswersMatch'
    BY <2>3, <2>4, <2>5 DEF IInv, AnswersMatch
  <2>9. FreshChallenge'
    BY <2>4, <2>5 DEF IInv, FreshChallenge
  <2>10. Owners' = Owners
    BY <2>1, <2>4, <2>5 DEF Owners
  <2>11. p.owner \in Callers /\ call[p.owner].pc \in {"sent", "waiting"}
    BY <2>1, OwnersAre DEF Callers, Owners
  <2>12. /\ call' \in [Callers -> CallStates] /\ call'[p.owner].pc = "waiting"
         /\ \A d \in Callers \ {p.owner} : call'[d] = call[d]
    BY <1>3, <2>11, CallsTyped DEF CallStates
  <2>13. TypeOK'
    BY <1>1, <2>3, <2>4, <2>5, <2>12 DEF IInv, TypeOK, network, CallStates
  <2>14. Dialled' /\ Opening' /\ Current'
    BY <1>1 DEF IInv, network, Dialled, Opening, Current
  <2>15. Connected'
    BY <1>1, <2>12 DEF IInv, network, Connected, Awaiting
  <2>16. NobodyForgotten'
    BY <1>1, <2>10, <2>11, <2>12 DEF IInv, network, NobodyForgotten
  <2> QED BY <2>6, <2>7, <2>8, <2>9, <2>13, <2>14, <2>15, <2>16 DEF IInv
<1> QED BY <1>2, <1>3 DEF RunStarted

LEMMA AnswerOkKeeps ==
  ASSUME IInv, NEW f \in wire, AnswerOk(f)
  PROVE  IInv'
<1> DEFINE owners == {p.owner : p \in Matching(f)}
<1>1. f.owner \in Callers
  BY DEF AnswerOk, IInv, Sent, Senders, Callers
<1>2. owners \subseteq Callers /\ Matching(f) \subseteq pending
  BY <1>1, OneMatch, TrafficOfInvariant
<1>3. /\ UNCHANGED <<network, seq, runs>>
      /\ wire' \subseteq wire /\ pending' = pending \ Matching(f)
      /\ call' = [c \in Callers |-> IF c \in owners THEN [call[c] EXCEPT !.pc = "done"] ELSE call[c]]
  BY DEF AnswerOk
<1>4. Traffic' /\ Owners' = Owners \ owners
  BY <1>2, <1>3, TrafficOfInvariant, FewerFrames, OwnersLeave
<1> HIDE DEF owners
<1>5. \A c \in Callers : [call[c] EXCEPT !.pc = "done"] \in CallStates
                         /\ [call[c] EXCEPT !.pc = "done"].pc = "done"
  BY CallsTyped DEF CallStates
<1>6. /\ call' \in [Callers -> CallStates]
      /\ \A c \in Callers : IF c \in owners THEN call'[c].pc = "done" ELSE call'[c] = call[c]
  BY <1>3, <1>5, CallsTyped
<1>7. TypeOK'
  BY <1>3, <1>4, <1>6 DEF IInv, TypeOK, network, Traffic, CallStates
<1>8. Dialled' /\ Opening' /\ Current'
  BY <1>3 DEF IInv, network, Dialled, Opening, Current
<1>9. Connected'
  BY <1>3, <1>6 DEF IInv, network, Connected, Awaiting
<1>10. NobodyForgotten'
  <2>1. \A s \in Sockets : conn'[s] = "hello" <=> s \in Owners \ owners
    BY <1>2, <1>3, OwnersAre, GatewayAssumption DEF network
  <2>2. \A c \in Callers : call'[c].pc \in {"sent", "waiting"} <=> c \in Owners \ owners
    BY <1>6, OwnersAre
  <2> QED BY <1>4, <2>1, <2>2, OwnersAre DEF NobodyForgotten
<1> QED BY <1>4, <1>7, <1>8, <1>9, <1>10 DEF IInv, Traffic

-----------------------------------------------------------------------------
(* The invariant *)

LEMMA InitInvariant ==
  ASSUME Init
  PROVE  IInv
<1>1. TypeOK
  BY GatewayAssumption DEF Init, TypeOK, NoSocket
<1>2. Dialled /\ Opening /\ Current /\ Connected
  BY GatewayAssumption DEF Init, NoSocket, Dialled, Dialling, Opening, Current, Connected, Awaiting
<1>3. Sent /\ Ids /\ AnswersMatch /\ FreshChallenge
  BY DEF Init, Sent, Ids, AnswersMatch, FreshChallenge
<1>4. NobodyForgotten
  BY DEF Init, NobodyForgotten, Owners
<1> QED BY <1>1, <1>2, <1>3, <1>4 DEF IInv

LEMMA StutterKeeps ==
  ASSUME IInv, UNCHANGED vars
  PROVE  IInv'
<1>1. Traffic'
  BY TrafficOfInvariant, FewerFrames DEF vars
<1>2. TypeOK' /\ Dialled' /\ Opening' /\ Current'
  BY DEF vars, IInv, TypeOK, Dialled, Opening, Current
<1>3. Connected' /\ NobodyForgotten'
  BY DEF vars, IInv, Connected, Awaiting, NobodyForgotten, Owners
<1> QED BY <1>1, <1>2, <1>3 DEF IInv, Traffic

LEMMA NextInvariant ==
  ASSUME IInv, [Next]_vars
  PROVE  IInv'
<1>1. ASSUME NEW c \in Callers, Caller(c)
      PROVE  IInv'
  BY <1>1, StartKeeps, ResumeKeeps, RetryKeeps DEF Caller
<1>2. ASSUME NEW s \in Sockets, Connection(s)
      PROVE  IInv'
  BY <1>2, OpenedKeeps, ConnectTimeoutKeeps, ChallengeKeeps, SendConnectKeeps,
     ChallengeTimeoutKeeps, GarbageKeeps, ClosedKeeps DEF Connection
<1>3. ASSUME NEW p \in pending, RequestTimeout(p)
      PROVE  IInv'
  BY <1>3, RequestTimeoutKeeps
<1>4. ASSUME NEW f \in wire, Serve(f) \/ HelloOk(f) \/ RunStarted(f) \/ AnswerOk(f) \/ AnswerError(f)
      PROVE  IInv'
  BY <1>4, ServeKeeps, HelloOkKeeps, RunStartedKeeps, AnswerOkKeeps, AnswerErrorKeeps
<1>5. CASE UNCHANGED vars
  BY <1>5, StutterKeeps
<1> QED BY <1>1, <1>2, <1>3, <1>4, <1>5 DEF Next

THEOREM Invariance == Spec => []IInv
BY InitInvariant, NextInvariant, PTL DEF Spec

\* Every variable has its type.
THEOREM TypeCorrect == Spec => []TypeOK
<1>1. IInv => TypeOK
  BY DEF IInv
<1> QED BY <1>1, Invariance, PTL

\* However many conversations find the client disconnected, it dials once.
THEOREM DialsOnce == Spec => []OneConnect
<1>1. IInv => OneConnect
  <2> SUFFICES ASSUME IInv
               PROVE  Cardinality({s \in Sockets : conn[s] \in Dialling}) <= 1
    BY DEF OneConnect
  <2>1. CASE connecting \in Sockets
    <3>1. {s \in Sockets : conn[s] \in Dialling} = {connecting}
      BY <2>1 DEF IInv, Dialled
    <3>2. Cardinality({s \in Sockets : conn[s] \in Dialling}) = 1
      BY <3>1, FS_Singleton, Zenon
    <3> QED BY <3>2
  <2>2. CASE connecting \notin Sockets
    <3>1. {s \in Sockets : conn[s] \in Dialling} = {}
      BY <2>2 DEF IInv, Dialled
    <3>2. Cardinality({s \in Sockets : conn[s] \in Dialling}) = 0
      BY <3>1, FS_EmptySet, Zenon
    <3> QED BY <3>2
  <2> QED BY <2>1, <2>2
<1> QED BY <1>1, Invariance, PTL

\* An answer, however late, reaches the request it answers or nobody.
THEOREM AnswersReachTheirRequests == Spec => []AnswersMatch
<1>1. IInv => AnswersMatch
  BY DEF IInv
<1> QED BY <1>1, Invariance, PTL

\* No connect request is signed with the challenge of another connection.
THEOREM ChallengesAreFresh == Spec => []FreshChallenge
<1>1. IInv => FreshChallenge
  BY DEF IInv
<1> QED BY <1>1, Invariance, PTL

\* Whoever waits has an entry in the map, and with it a timer.
THEOREM EveryWaiterIsPending == Spec => []NobodyForgotten
<1>1. IInv => NobodyForgotten
  BY DEF IInv
<1> QED BY <1>1, Invariance, PTL

-----------------------------------------------------------------------------
(* What the retries cost *)

\* Requests for a run that the gateway may still serve.
Unserved(c) == {f \in wire : f.kind = "send" /\ f.owner = c /\ ~f.served}

\* Requests a call can have sent so far.
Allowed(c) ==
  IF call[c].pc \in {"idle", "first", "again", "backoff"} THEN call[c].tries
                                                        ELSE call[c].tries + 1

\* Each run of a call, and each that its requests on the wire can still start,
\* was paid for by a request.
Paid(c) ==
  /\ IsFiniteSet(Unserved(c))
  /\ runs[c] + Cardinality(Unserved(c)) <= Allowed(c)

\* The gateway has begun what it says it has.
Begun ==
  /\ \A f \in wire \cup pending :
       f.kind = "wait" \/ (f.kind = "send" /\ f.served) => runs[f.owner] >= 1
  /\ \A c \in Runners : call[c].pc \in {"waiting", "done"} => runs[c] >= 1

Accounts == Begun /\ \A c \in Runners : Paid(c)

LEMMA OneMore ==
  ASSUME NEW S, IsFiniteSet(S), NEW x
  PROVE  /\ IsFiniteSet(S \cup {x})
         /\ Cardinality(S) \in Nat /\ Cardinality(S \cup {x}) <= Cardinality(S) + 1
<1>1. Cardinality(S) \in Nat
  BY FS_CardinalityType
<1>2. /\ IsFiniteSet(S \cup {x})
      /\ Cardinality(S \cup {x}) = IF x \in S THEN Cardinality(S) ELSE Cardinality(S) + 1
  BY FS_AddElement
<1> QED BY <1>1, <1>2

OneLess(S, x) ==
  /\ IsFiniteSet(S \ {x}) /\ Cardinality(S \ {x}) \in Nat
  /\ Cardinality(S) = Cardinality(S \ {x}) + 1

LEMMA OneLessThan ==
  ASSUME NEW S, IsFiniteSet(S), NEW x \in S
  PROVE  OneLess(S, x)
<1>1. Cardinality(S) \in Nat
  BY FS_CardinalityType
<1>2. IsFiniteSet(S \ {x}) /\ Cardinality(S \ {x}) = Cardinality(S) - 1
  BY FS_RemoveElement
<1>3. Cardinality(S \ {x}) \in Nat
  BY <1>2, FS_CardinalityType
<1> QED BY <1>1, <1>2, <1>3 DEF OneLess

LEMMA AllowedType ==
  ASSUME IInv, NEW c \in Callers
  PROVE  /\ runs[c] \in Nat /\ call[c].tries \in Nat
         /\ Allowed(c) \in Nat /\ Allowed(c) <= call[c].tries + 1
<1>1. call[c].tries \in Nat /\ runs[c] \in Nat
  BY GatewayAssumption DEF IInv, TypeOK
<1> QED BY <1>1 DEF Allowed

\* An account stays in order while no run starts, no request is sent and no
\* retry is forgotten.
LEMMA PaidKept ==
  ASSUME IInv, IInv', NEW c \in Runners, Paid(c), Unserved(c)' \subseteq Unserved(c),
         runs'[c] = runs[c], Allowed(c) <= Allowed(c)'
  PROVE  Paid(c)'
<1>1. /\ IsFiniteSet(Unserved(c)') /\ Cardinality(Unserved(c)') <= Cardinality(Unserved(c))
  BY FS_Subset DEF Paid
<1>2. /\ Cardinality(Unserved(c)') \in Nat /\ Cardinality(Unserved(c)) \in Nat
  BY <1>1, FS_CardinalityType DEF Paid
<1>3. runs[c] \in Nat /\ Allowed(c) \in Nat
  BY AllowedType DEF Callers
<1>4. Allowed(c)' \in Nat
  <2>1. call'[c].tries \in Nat
    BY GatewayAssumption DEF IInv, TypeOK, Callers
  <2> QED BY <2>1 DEF Allowed
<1>5. runs'[c] + Cardinality(Unserved(c)') <= Allowed(c)'
  BY <1>1, <1>2, <1>3, <1>4 DEF Paid
<1> QED BY <1>1, <1>5 DEF Paid

\* Failing a promise takes nothing from what its call was allowed to send.
LEMMA RejectAllows ==
  ASSUME IInv, NEW owners, NEW kind, Reject(owners, kind), NEW c \in Callers
  PROVE  /\ Allowed(c) <= Allowed(c)'
         /\ call'[c].pc \in {"waiting", "done"} => call[c].pc = call'[c].pc
<1>1. call[c] \in [pc : {"idle", "first", "again", "sent", "waiting", "backoff", "done", "failed"},
                  on : Sockets \cup {None}, tries : 0 .. RetryLimit]
  BY DEF IInv, TypeOK
<1>2. call[c].tries \in Nat
  BY AllowedType
<1>3. CASE c \notin owners
  <2>1. call'[c] = call[c]
    BY <1>3 DEF Reject
  <2> QED BY <1>2, <2>1 DEF Allowed
<1>4. CASE c \in owners
  <2>1. call'[c] = AfterError(c, kind)
    BY <1>4 DEF Reject
  <2>2. CASE kind = "transient" /\ call[c].pc \in {"again", "sent"} /\ call[c].tries < RetryLimit
    <3>1. call'[c] = [pc |-> "backoff", on |-> None, tries |-> call[c].tries + 1]
      BY <2>1, <2>2 DEF AfterError
    <3> QED BY <1>2, <2>2, <3>1 DEF Allowed
  <2>3. CASE ~(kind = "transient" /\ call[c].pc \in {"again", "sent"} /\ call[c].tries < RetryLimit)
    <3>1. call'[c] = [call[c] EXCEPT !.pc = "failed", !.on = None]
      BY <2>1, <2>3 DEF AfterError
    <3>2. call'[c].pc = "failed" /\ call'[c].tries = call[c].tries
      BY <1>1, <3>1
    <3> QED BY <1>2, <3>2 DEF Allowed
  <2> QED BY <2>2, <2>3
<1> QED BY <1>3, <1>4

\* Steps that start no run and ask for none.
LEMMA QuietAccounts ==
  ASSUME IInv, IInv', Accounts, runs' = runs,
         \A f \in wire' \ wire : f.kind # "send",
         \A f \in (wire' \cup pending') \ (wire \cup pending) :
           f.kind # "send" /\ (f.kind = "wait" => runs[f.owner] >= 1),
         \A c \in Runners : /\ Allowed(c) <= Allowed(c)'
                            /\ call'[c].pc \in {"waiting", "done"} =>
                                 call[c].pc = call'[c].pc \/ runs[c] >= 1
  PROVE  Accounts'
<1>1. \A c \in Runners : Unserved(c)' \subseteq Unserved(c)
  BY DEF Unserved
<1>2. \A c \in Runners : Paid(c)'
  BY <1>1, PaidKept DEF Accounts
<1>3. Begun'
  BY DEF Accounts, Begun
<1> QED BY <1>2, <1>3 DEF Accounts

\* A caller sends its request: one more than it had sent.
LEMMA CallerPays ==
  ASSUME IInv, IInv', Accounts, NEW c \in Callers,
         call[c].pc \in {"idle", "first", "again"},
         Transmit(c, MethodOf(c)), runs' = runs,
         call'[c].pc = "sent", call'[c].tries = call[c].tries,
         \A d \in Callers \ {c} : call'[d] = call[d]
  PROVE  Accounts'
<1> DEFINE g == [id |-> seq + 1, owner |-> c, kind |-> MethodOf(c), sock |-> ws,
                 nonce |-> IF MethodOf(c) = "connect" THEN nonce ELSE None, served |-> FALSE]
<1>1. /\ g.owner = c /\ g.kind = MethodOf(c) /\ ~g.served
      /\ wire' = wire \cup {g} /\ pending' \subseteq pending \cup {g}
  BY DEF Transmit
<1>2. MethodOf(c) \in {"send", "read"}
  BY DEF MethodOf
<1> HIDE DEF g
<1>3. Begun'
  BY <1>1, <1>2 DEF Accounts, Begun, Callers
<1>4. ASSUME NEW d \in Runners
      PROVE  Paid(d)'
  <2>1. CASE d # c
    <3>1. Unserved(d)' \subseteq Unserved(d)
      BY <1>1, <2>1 DEF Unserved
    <3>2. call'[d] = call[d]
      BY <2>1 DEF Callers
    <3>3. Allowed(d) \in Nat /\ Allowed(d)' = Allowed(d)
      BY <3>2, AllowedType DEF Allowed, Callers
    <3> QED BY <3>1, <3>3, PaidKept DEF Accounts
  <2>2. CASE d = c
    <3>1. Unserved(c)' \subseteq Unserved(c) \cup {g}
      BY <1>1 DEF Unserved
    <3>2. IsFiniteSet(Unserved(c)) /\ runs[c] + Cardinality(Unserved(c)) <= Allowed(c)
      BY <2>2 DEF Accounts, Paid
    <3>3. /\ IsFiniteSet(Unserved(c) \cup {g})
          /\ Cardinality(Unserved(c) \cup {g}) <= Cardinality(Unserved(c)) + 1
          /\ Cardinality(Unserved(c)) \in Nat
      BY <3>2, OneMore
    <3>4. /\ IsFiniteSet(Unserved(c)')
          /\ Cardinality(Unserved(c)') <= Cardinality(Unserved(c) \cup {g})
      BY <3>1, <3>3, FS_Subset
    <3>5. Cardinality(Unserved(c)') \in Nat /\ Cardinality(Unserved(c) \cup {g}) \in Nat
      BY <3>3, <3>4, FS_CardinalityType
    <3>6. /\ runs[c] \in Nat /\ call[c].tries \in Nat
          /\ Allowed(c) = call[c].tries /\ Allowed(c)' = call[c].tries + 1
      BY AllowedType DEF Allowed
    <3>7. runs'[c] + Cardinality(Unserved(c)') <= Allowed(c)'
      BY <3>2, <3>3, <3>4, <3>5, <3>6
    <3> QED BY <2>2, <3>4, <3>7 DEF Paid
  <2> QED BY <2>1, <2>2
<1> QED BY <1>3, <1>4 DEF Accounts

LEMMA RejectAccounts ==
  ASSUME IInv, IInv', Accounts, runs' = runs, wire' \subseteq wire, pending' \subseteq pending,
         NEW owners, NEW kind, Reject(owners, kind)
  PROVE  Accounts'
<1>1. \A c \in Runners : /\ Allowed(c) <= Allowed(c)'
                         /\ call'[c].pc \in {"waiting", "done"} => call[c].pc = call'[c].pc
  BY RejectAllows DEF Callers
<1> QED BY <1>1, QuietAccounts

\* A caller that only changes its place among those that have sent nothing new.
LEMMA EnsureAccounts ==
  ASSUME IInv, IInv', Accounts, NEW c \in Callers, NEW w, NEW sk,
         NEW pc \in {"first", "again"}, call[c].pc \in {"idle", "backoff"},
         EnsureConnected(c, pc, w, sk), UNCHANGED <<pending, wire, runs>>
  PROVE  Accounts'
<1>1. \E on \in Sockets \cup {None} : call' = [call EXCEPT ![c].pc = pc, ![c].on = on]
  BY DEF EnsureConnected, IInv, TypeOK
<1>2. ASSUME NEW d \in Callers
      PROVE  /\ Allowed(d) <= Allowed(d)'
             /\ call'[d].pc \in {"waiting", "done"} => call[d].pc = call'[d].pc
  <2>1. Allowed(d) \in Nat /\ call[d].tries \in Nat
    BY AllowedType
  <2>2. CASE d # c
    <3>1. call'[d] = call[d]
      BY <1>1, <2>2 DEF IInv, TypeOK
    <3> QED BY <2>1, <3>1 DEF Allowed
  <2>3. CASE d = c
    <3>1. call'[d].pc = pc /\ call'[d].tries = call[d].tries
      BY <1>1, <2>3 DEF IInv, TypeOK
    <3> QED BY <2>1, <2>3, <3>1 DEF Allowed
  <2> QED BY <2>2, <2>3
<1> QED BY <1>2, QuietAccounts DEF Callers

LEMMA CallerAccounts ==
  ASSUME IInv, IInv', Accounts, NEW c \in Callers, Caller(c)
  PROVE  Accounts'
<1>1. CASE Start(c) /\ IsConnected
  <2>1. Transmit(c, MethodOf(c)) /\ call' = [call EXCEPT ![c].pc = "sent"] /\ runs' = runs
        /\ call[c].pc = "idle"
    BY <1>1 DEF Start, EnsureConnected
  <2>2. /\ call'[c].pc = "sent" /\ call'[c].tries = call[c].tries
        /\ \A d \in Callers \ {c} : call'[d] = call[d]
    BY <2>1 DEF IInv, TypeOK
  <2> QED BY <2>1, <2>2, CallerPays
<1>2. CASE Start(c) /\ ~IsConnected
  BY <1>2, EnsureAccounts DEF Start
<1>3. CASE Resume(c) /\ conn[call[c].on] \in Errors
  <2>1. call' = [call EXCEPT ![c] = AfterError(c, conn[call[c].on])]
        /\ UNCHANGED <<pending, wire, runs>>
    BY <1>3 DEF Resume, Errors
  <2>2. ASSUME NEW d \in Callers
        PROVE  /\ Allowed(d) <= Allowed(d)'
               /\ call'[d].pc \in {"waiting", "done"} => call[d].pc = call'[d].pc
    <3>1. Allowed(d) \in Nat /\ call[d].tries \in Nat
      BY AllowedType
    <3>2. CASE d # c
      <4>1. call'[d] = call[d]
        BY <2>1, <3>2 DEF IInv, TypeOK
      <4> QED BY <3>1, <4>1 DEF Allowed
    <3>3. CASE d = c
      <4>1. call'[c] = AfterError(c, conn[call[c].on])
        BY <2>1 DEF IInv, TypeOK
      <4>2. /\ call'[c].pc \in {"backoff", "failed"}
            /\ call'[c].tries >= call[c].tries
            /\ call'[c].pc = "backoff" => call'[c].tries = call[c].tries + 1
            /\ call'[c].tries \in Nat
        BY <3>1, <3>3, <4>1 DEF AfterError, IInv, TypeOK
      <4> QED BY <3>1, <3>3, <4>2 DEF Allowed
    <3> QED BY <3>2, <3>3
  <2> QED BY <2>1, <2>2, QuietAccounts DEF Callers
<1>4. CASE Resume(c) /\ conn[call[c].on] = "ok"
  <2>1. Transmit(c, MethodOf(c)) /\ call' = [call EXCEPT ![c].pc = "sent", ![c].on = None]
        /\ runs' = runs /\ call[c].pc \in {"first", "again"}
    BY <1>4 DEF Resume, Awaiting, Errors
  <2>2. /\ call'[c].pc = "sent" /\ call'[c].tries = call[c].tries
        /\ \A d \in Callers \ {c} : call'[d] = call[d]
    BY <2>1 DEF IInv, TypeOK
  <2> QED BY <2>1, <2>2, CallerPays
<1>5. CASE Retry(c)
  BY <1>5, EnsureAccounts DEF Retry
<1>6. Resume(c) => conn[call[c].on] \in Errors \cup {"ok"}
  BY DEF Resume
<1> QED BY <1>1, <1>2, <1>3, <1>4, <1>5, <1>6 DEF Caller

LEMMA SendConnectAccounts ==
  ASSUME IInv, IInv', Accounts, NEW s \in Sockets, SendConnect(s)
  PROVE  Accounts'
<1>1. CASE ~IsConnected
  BY <1>1, RejectAccounts DEF SendConnect
<1>2. CASE IsConnected
  <2>1. Transmit(s, "connect") /\ UNCHANGED <<call, runs>>
    BY <1>2 DEF SendConnect
  <2>2. PICK g : g.kind = "connect" /\ wire' = wire \cup {g} /\ pending' \subseteq pending \cup {g}
    BY <2>1 DEF Transmit
  <2>3. \A c \in Runners : Allowed(c) \in Nat /\ Allowed(c)' = Allowed(c)
    BY <2>1, AllowedType DEF Allowed, Callers
  <2> QED BY <2>1, <2>2, <2>3, QuietAccounts
<1> QED BY <1>1, <1>2

LEMMA ConnectionAccounts ==
  ASSUME IInv, IInv', Accounts, NEW s \in Sockets, Connection(s)
  PROVE  Accounts'
<1>1. CASE Opened(s) \/ Challenge(s)
  <2>1. UNCHANGED <<pending, wire, call, runs>>
    BY <1>1 DEF Opened, Challenge
  <2>2. \A c \in Runners : Allowed(c) \in Nat /\ Allowed(c)' = Allowed(c)
    BY <2>1, AllowedType DEF Allowed, Callers
  <2> QED BY <2>1, <2>2, QuietAccounts
<1>2. CASE ConnectTimeout(s)
  BY <1>2, RejectAccounts DEF ConnectTimeout
<1>3. CASE ChallengeTimeout(s)
  BY <1>3, RejectAccounts DEF ChallengeTimeout
<1>4. CASE Garbage(s)
  BY <1>4, RejectAccounts DEF Garbage
<1>5. CASE Closed(s)
  <2>1. wire' \subseteq wire /\ pending' \subseteq pending /\ runs' = runs
    BY <1>5 DEF Closed
  <2> QED BY <1>5, <2>1, RejectAccounts DEF Closed
<1> QED BY <1>1, <1>2, <1>3, <1>4, <1>5, SendConnectAccounts DEF Connection

\* A run starts: the request that paid for it cannot start another.
LEMMA ServeAccounts ==
  ASSUME IInv, IInv', Accounts, NEW f \in wire, Serve(f)
  PROVE  Accounts'
<1> DEFINE g == [f EXCEPT !.served = TRUE]
<1>1. /\ f \in Frames /\ f.kind = "send" /\ ~f.served /\ f.owner \in Runners
  BY DEF Serve, IInv, TypeOK, Sent, Senders
<1>2. g.kind = "send" /\ g.served /\ g.owner = f.owner
  BY <1>1 DEF Frames
<1>3. /\ wire' = (wire \ {f}) \cup {g} /\ pending' = pending /\ call' = call
      /\ runs' = [runs EXCEPT ![f.owner] = @ + 1]
  BY DEF Serve
<1> HIDE DEF g
<1>4. \A c \in Callers : /\ runs[c] \in Nat /\ runs'[c] \in Nat /\ runs[c] <= runs'[c]
                         /\ Allowed(c) \in Nat /\ Allowed(c)' = Allowed(c)
                         /\ runs'[c] = IF c = f.owner THEN runs[c] + 1 ELSE runs[c]
  <2>1. \A c \in Callers : runs[c] \in Nat
    BY AllowedType
  <2> QED BY <1>3, <2>1, AllowedType DEF Allowed, IInv, TypeOK
<1>5. Begun'
  <2>1. \A h \in wire \cup pending : h.kind \in {"wait", "send"} => h.owner \in Runners
    BY DEF IInv, Sent, Senders
  <2>2. runs'[f.owner] >= 1
    BY <1>1, <1>4 DEF Callers
  <2>3. \A h \in wire' \cup pending' :
          h.kind = "wait" \/ (h.kind = "send" /\ h.served) => runs'[h.owner] >= 1
    BY <1>2, <1>3, <1>4, <2>1, <2>2 DEF Accounts, Begun, Callers
  <2>4. \A c \in Runners : call'[c].pc \in {"waiting", "done"} => runs'[c] >= 1
    BY <1>3, <1>4 DEF Accounts, Begun, Callers
  <2> QED BY <2>3, <2>4 DEF Begun
<1>6. ASSUME NEW d \in Runners
      PROVE  Paid(d)'
  <2>1. CASE d # f.owner
    <3>1. Unserved(d)' \subseteq Unserved(d)
      BY <1>2, <1>3 DEF Unserved
    <3>2. runs'[d] = runs[d] /\ Allowed(d) <= Allowed(d)'
      BY <1>4, <2>1 DEF Callers
    <3> QED BY <3>1, <3>2, PaidKept DEF Accounts
  <2>2. CASE d = f.owner
    <3>1. Unserved(d)' \subseteq Unserved(d) \ {f} /\ f \in Unserved(d)
      BY <1>1, <1>2, <1>3, <2>2 DEF Unserved
    <3>2. IsFiniteSet(Unserved(d)) /\ runs[d] + Cardinality(Unserved(d)) <= Allowed(d)
      BY DEF Accounts, Paid
    <3>3. OneLess(Unserved(d), f)
      BY <3>1, <3>2, OneLessThan
    <3>4. /\ IsFiniteSet(Unserved(d)')
          /\ Cardinality(Unserved(d)') <= Cardinality(Unserved(d) \ {f})
      BY <3>1, <3>3, FS_Subset DEF OneLess
    <3>5. Cardinality(Unserved(d)') \in Nat
      BY <3>4, FS_CardinalityType
    <3>6. runs'[d] + Cardinality(Unserved(d)') <= Allowed(d)'
      BY <1>4, <2>2, <3>2, <3>3, <3>4, <3>5 DEF OneLess, Callers
    <3> QED BY <3>4, <3>6 DEF Paid
  <2> QED BY <2>1, <2>2
<1> QED BY <1>5, <1>6 DEF Accounts

\* The request that waits for the end of a run.
WaitFrame(p) == [id |-> seq + 1, owner |-> p.owner, kind |-> "wait", sock |-> ws,
                 nonce |-> None, served |-> FALSE]

\* The run id has come: the gateway began that run, whoever still waits for it.
LEMMA RunStartedAccounts ==
  ASSUME IInv, IInv', Accounts, NEW f \in wire, RunStarted(f)
  PROVE  Accounts'
<1>1. f.owner \in Runners /\ runs[f.owner] >= 1 /\ runs' = runs
  BY DEF RunStarted, IInv, Sent, Senders, Accounts, Begun
<1>2. CASE Matching(f) = {} /\ wire' = wire \ {f} /\ UNCHANGED <<seq, pending, call>>
  <2>1. \A c \in Runners : Allowed(c) \in Nat /\ Allowed(c)' = Allowed(c)
    BY <1>2, AllowedType DEF Allowed, Callers
  <2> QED BY <1>1, <1>2, <2>1, QuietAccounts
<1>3. ASSUME NEW p \in Matching(f), NEW next,
             next.kind = "wait", next.owner = p.owner,
             pending' = (pending \ {p}) \cup {next}, wire' = (wire \ {f}) \cup {next},
             call' = [call EXCEPT ![p.owner].pc = "waiting"]
      PROVE  Accounts'
  <2>1. p.owner = f.owner
    BY DEF Matching, IInv, AnswersMatch
  <2>2. call[p.owner].pc \in {"sent", "waiting"}
    BY <1>1, <2>1, GatewayAssumption DEF Matching, IInv, NobodyForgotten, Owners, Callers
  <2>3. ASSUME NEW c \in Runners
        PROVE  /\ Allowed(c) <= Allowed(c)'
               /\ call'[c].pc \in {"waiting", "done"} => call[c].pc = call'[c].pc \/ runs[c] >= 1
    <3>1. Allowed(c) \in Nat /\ call[c].tries \in Nat
      BY AllowedType DEF Callers
    <3>2. CASE c # p.owner
      <4>1. call'[c] = call[c]
        BY <1>3, <3>2 DEF IInv, TypeOK, Callers
      <4> QED BY <3>1, <4>1 DEF Allowed
    <3>3. CASE c = p.owner
      <4>1. call'[c].pc = "waiting" /\ call'[c].tries = call[c].tries
        BY <1>3, <3>3 DEF IInv, TypeOK, Callers
      <4> QED BY <1>1, <2>1, <2>2, <3>1, <3>3, <4>1 DEF Allowed
    <3> QED BY <3>2, <3>3
  <2>4. /\ \A h \in wire' \ wire : h.kind # "send"
        /\ \A h \in (wire' \cup pending') \ (wire \cup pending) :
             h.kind # "send" /\ (h.kind = "wait" => runs[h.owner] >= 1)
    BY <1>1, <1>3, <2>1
  <2> QED BY <1>1, <2>3, <2>4, QuietAccounts
<1>4. ASSUME NEW p \in Matching(f),
             pending' = (pending \ {p}) \cup {WaitFrame(p)},
             wire' = (wire \ {f}) \cup {WaitFrame(p)},
             call' = [call EXCEPT ![p.owner].pc = "waiting"]
      PROVE  Accounts'
  <2>1. WaitFrame(p).kind = "wait" /\ WaitFrame(p).owner = p.owner
    BY DEF WaitFrame
  <2> QED BY <1>3, <1>4, <2>1
<1>5. \/ Matching(f) = {} /\ wire' = wire \ {f} /\ UNCHANGED <<seq, pending, call>>
      \/ \E p \in Matching(f) :
           /\ pending' = (pending \ {p}) \cup {WaitFrame(p)}
           /\ wire' = (wire \ {f}) \cup {WaitFrame(p)}
           /\ call' = [call EXCEPT ![p.owner].pc = "waiting"]
  BY DEF RunStarted, WaitFrame
<1> QED BY <1>2, <1>4, <1>5

\* Only a history, or the end of a run that was begun, lets a call return.
LEMMA AnswerOkAccounts ==
  ASSUME IInv, IInv', Accounts, NEW f \in wire, AnswerOk(f)
  PROVE  Accounts'
<1>1. /\ wire' \subseteq wire /\ pending' \subseteq pending /\ runs' = runs
      /\ f.kind \in {"read", "wait"}
      /\ call' = [c \in Callers |-> IF \E p \in Matching(f) : p.owner = c
                                     THEN [call[c] EXCEPT !.pc = "done"] ELSE call[c]]
  BY DEF AnswerOk
<1>2. \A p \in Matching(f) : p.owner = f.owner
  BY DEF Matching, IInv, AnswersMatch
<1>3. f.owner \in Runners => runs[f.owner] >= 1
  BY <1>1, GatewayAssumption DEF IInv, Sent, Senders, Accounts, Begun
<1>4. ASSUME NEW c \in Runners
      PROVE  /\ Allowed(c) <= Allowed(c)'
             /\ call'[c].pc \in {"waiting", "done"} => call[c].pc = call'[c].pc \/ runs[c] >= 1
  <2>1. Allowed(c) \in Nat /\ call[c].tries \in Nat
    BY AllowedType DEF Callers
  <2>2. CASE \E p \in Matching(f) : p.owner = c
    <3>1. call'[c] = [call[c] EXCEPT !.pc = "done"]
      BY <1>1, <2>2 DEF Callers
    <3>2. call'[c].pc = "done" /\ call'[c].tries = call[c].tries
      BY <3>1 DEF IInv, TypeOK, Callers
    <3>3. runs[c] >= 1
      BY <1>2, <1>3, <2>2
    <3> QED BY <2>1, <3>2, <3>3 DEF Allowed
  <2>3. CASE ~\E p \in Matching(f) : p.owner = c
    <3>1. call'[c] = call[c]
      BY <1>1, <2>3 DEF Callers
    <3> QED BY <2>1, <3>1 DEF Allowed
  <2> QED BY <2>2, <2>3
<1> QED BY <1>1, <1>4, QuietAccounts

LEMMA AnswerAccounts ==
  ASSUME IInv, IInv', Accounts, NEW f \in wire,
         Serve(f) \/ HelloOk(f) \/ RunStarted(f) \/ AnswerOk(f) \/ AnswerError(f)
  PROVE  Accounts'
<1>1. CASE HelloOk(f)
  <2>1. wire' \subseteq wire /\ pending' \subseteq pending /\ UNCHANGED <<call, runs>>
    BY <1>1 DEF HelloOk
  <2>2. \A c \in Runners : Allowed(c) \in Nat /\ Allowed(c)' = Allowed(c)
    BY <2>1, AllowedType DEF Allowed, Callers
  <2> QED BY <2>1, <2>2, QuietAccounts
<1>2. CASE AnswerError(f)
  <2>1. /\ wire' \subseteq wire /\ pending' \subseteq pending /\ runs' = runs
        /\ \E kind \in Errors : Reject({p.owner : p \in Matching(f)}, kind)
    BY <1>2 DEF AnswerError
  <2> QED BY <2>1, RejectAccounts
<1> QED BY <1>1, <1>2, ServeAccounts, RunStartedAccounts, AnswerOkAccounts

LEMMA NextAccounts ==
  ASSUME IInv, IInv', Accounts, [Next]_vars
  PROVE  Accounts'
<1>1. ASSUME NEW p \in pending, RequestTimeout(p)
      PROVE  Accounts'
  BY <1>1, RejectAccounts DEF RequestTimeout
<1>2. CASE UNCHANGED vars
  <2>1. UNCHANGED <<pending, wire, call, runs>>
    BY <1>2 DEF vars
  <2>2. \A c \in Runners : Allowed(c) \in Nat /\ Allowed(c)' = Allowed(c)
    BY <2>1, AllowedType DEF Allowed, Callers
  <2> QED BY <2>1, <2>2, QuietAccounts
<1> QED BY <1>1, <1>2, CallerAccounts, ConnectionAccounts, AnswerAccounts DEF Next

LEMMA InitAccounts ==
  ASSUME Init
  PROVE  Accounts
<1>1. Begun
  BY DEF Init, Begun, Callers
<1>2. ASSUME NEW c \in Runners
      PROVE  Paid(c)
  <2>1. Unserved(c) = {}
    BY DEF Init, Unserved
  <2>2. IsFiniteSet(Unserved(c)) /\ Cardinality(Unserved(c)) = 0
    BY <2>1, FS_EmptySet, Zenon
  <2>3. runs[c] = 0 /\ Allowed(c) = 0
    BY DEF Init, Allowed, Callers
  <2> QED BY <2>2, <2>3 DEF Paid
<1> QED BY <1>1, <1>2 DEF Accounts

\* However the retries, the late answers and the closed sockets interleave, a
\* call starts at most one run more than it had retries, and no caller is told
\* of a run that was not started.
THEOREM RunsAreAccounted == Spec => []RunsAccounted
<1>1. Spec => []Accounts
  BY InitAccounts, InitInvariant, NextInvariant, NextAccounts, Invariance, PTL DEF Spec
<1>2. IInv /\ Accounts => RunsAccounted
  <2> SUFFICES ASSUME IInv, Accounts, NEW c \in Runners
               PROVE  runs[c] <= call[c].tries + 1
    BY DEF RunsAccounted, Accounts, Begun
  <2>1. Cardinality(Unserved(c)) \in Nat
    BY FS_CardinalityType DEF Accounts, Paid
  <2> QED BY <2>1, AllowedType DEF Accounts, Paid, Callers
<1> QED BY <1>1, <1>2, Invariance, PTL

=============================================================================
