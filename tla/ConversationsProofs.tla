------------------------- MODULE ConversationsProofs -------------------------
(***************************************************************************)
(* Theorems about Conversations, for any number of requests, processes,    *)
(* conversations and failing calls, and any cap.                           *)
(*                                                                         *)
(* The invariant has two layers.  Base says where a request can stand,     *)
(* given what it asks and whether it holds the turn lock.  On it rest the  *)
(* facts about the rows: one active conversation once there is any, an     *)
(* open transaction of /new that has swept exactly the active rows, and    *)
(* what each request still remembers of a row it has read.                 *)
(***************************************************************************)
EXTENDS Conversations, TLAPS

Outcomes == {"none", "ok", "stale", "limit", "error"}

\* What a request asks fits where it stands.
Fits(f) ==
    /\ f.pc = "idle" => f = NoFrame
    /\ f.pc \notin {"idle", "done"} => f.kind # "none"
    /\ f.pc = "open" => f.kind = "turn"
    /\ f.pc = "wait" => f.kind \in TurnKinds
    /\ f.pc = "check" => f.kind \in {"turn", "new", "compact"}
    /\ f.pc \in {"list", "insert", "relist"} => f.kind \in {"light", "resolve", "delegated", "archive"}
    /\ f.pc \in {"ask", "asked"} => f.kind \in {"turn", "light"}
    /\ f.pc \in {"answer", "answered"} => f.kind \in {"turn", "light", "delegated"}
    /\ f.pc = "orgLock" => f.kind \in {"new", "dashboard"}
    /\ f.pc = "renew" => f.kind = "new"
    /\ f.pc = "place" => f.kind = "dashboard"
    /\ f.pc = "archive" => f.kind = "archive"
    /\ f.pc \in {"get", "load", "save"} => f.kind \in {"turn", "compact"}
    /\ f.pc = "leave" => f.kind \in TurnKinds
    /\ f.pc \notin {"leave", "done"} => f.outcome # "error"

\* The conversation it works on is one of the rows.
Working(f) ==
    \/ f.pc \in {"ask", "asked", "answer", "answered", "get", "load", "save"}
    \/ f.kind \in {"turn", "new", "compact", "archive"}
Refers(f, known) == Working(f) => f.conv \in known

\* Where it stands says whether it holds the turn lock.
Holds(f, inTurn) ==
    /\ inTurn => f.kind \in TurnKinds
    /\ f.pc \in {"idle", "open", "wait", "done"} => ~inTurn
    /\ f.pc \in {"check", "ask", "asked", "renew", "leave"} => inTurn
    /\ f.pc \in {"list", "insert", "relist"} /\ f.kind = "light" => inTurn
    /\ f.pc \in {"answer", "answered"} /\ f.kind \in {"turn", "light"} => inTurn
    /\ f.pc = "orgLock" /\ f.kind = "new" => inTurn
    /\ f.pc \in {"get", "load", "save"} /\ f.kind = "compact" => inTurn

Formed(r, f, known) == Fits(f) /\ Refers(f, known) /\ Holds(f, InTurn(r))

Base ==
    /\ TypeOK
    /\ \A r \in Requests : Formed(r, req[r], Existing)

\* The rows and the transactions.
Threads ==
    /\ \A c, d \in Active : c = d
    /\ Existing # {} => Active # {}
    /\ orgLock = None => swept = {}
    /\ \A r \in Requests :
          /\ req[r].pc = "archive" => status[req[r].conv] = "archived"
          /\ req[r].pc = "renew" => orgLock = r /\ swept = Active /\ Active # {}
          /\ req[r].pc = "place" => orgLock = r /\ swept = {}
          /\ orgLock = r => req[r].pc \in {"renew", "place"}

\* What a compaction remembers of the row it has read.
Remembers ==
    \A r \in Requests : req[r].pc \in {"load", "save"} =>
        /\ req[r].summary = [i \in 1..req[r].marker |-> i]
        /\ req[r].marker <= Older(messages[req[r].conv])
        /\ req[r].pc = "save" =>
              req[r].seen <= messages[req[r].conv] /\ req[r].marker <= Older(req[r].seen)

\* A creation that has counted is the only one that can add a dashboard.
Counted ==
    \A r \in Requests : req[r].pc = "place" /\ req[r].seen < Cap => dashboards <= req[r].seen

\* A second listing follows a failed call, or finds something.
Relisted ==
    \A r \in Requests : req[r].pc = "relist" /\ failures = 0 => Active # {}

\* Only /new puts a conversation into the archive.
Enders ==
    \A c \in Ids : status[c] = "archived" =>
        endedBy[c] \in Requests /\ req[endedBy[c]].kind = "new"

\* Without a failed call, only a message that came too late ends in an error.
LateMessages ==
    \A r \in Requests : req[r].outcome = "error" /\ failures = 0 =>
        req[r].kind = "turn" /\ status[req[r].conv] = "archived"

IInv ==
    /\ Base /\ Threads /\ Enders
    /\ TurnLockHolds
    /\ SummaryExact /\ Remembers
    /\ DashboardCapHolds /\ Counted
    /\ LateMessages /\ Relisted

-----------------------------------------------------------------------------
(* Frames *)

\* A step of r puts one frame in its place and leaves the others alone.
LEMMA BecomesEffect ==
    ASSUME TypeOK, NEW r \in Requests, NEW f \in Frames, Becomes(r, f)
    PROVE  /\ req' \in [Requests -> Frames]
           /\ req'[r] = f
           /\ \A s \in Requests : s # r => req'[s] = req[s]
BY DEF TypeOK, Becomes

\* Fields of a frame change within their types.
LEMMA FrameUpdates ==
    ASSUME NEW f \in Frames
    PROVE  /\ \A c \in 0..Convs : [f EXCEPT !.conv = c] \in Frames
           /\ [f EXCEPT !.marker = 0, !.summary = <<>>, !.seen = 0] \in Frames
           /\ \A n \in Nat : [f EXCEPT !.seen = n] \in Frames
           /\ [f EXCEPT !.recovered = TRUE] \in Frames
           /\ \A n \in Nat, q \in Seq(Nat) : [f EXCEPT !.marker = n, !.summary = q] \in Frames
<1>1. <<>> \in Seq(Nat)
      OBVIOUS
<1> QED BY <1>1 DEF Frames

\* A request that goes on keeps what it knows.
LEMMA GoesFrame ==
    ASSUME TypeOK, NEW r \in Requests, NEW pc \in Steps
    PROVE  /\ Goes(r, pc) \in Frames
           /\ Goes(r, pc).pc = pc
           /\ Goes(r, pc).kind = req[r].kind /\ Goes(r, pc).conv = req[r].conv
           /\ Goes(r, pc).marker = req[r].marker /\ Goes(r, pc).summary = req[r].summary
           /\ Goes(r, pc).seen = req[r].seen /\ Goes(r, pc).outcome = req[r].outcome
<1>1. req[r] \in Frames
      BY DEF TypeOK
<1>2. Goes(r, pc) \in Frames
      BY <1>1, SMTT(60) DEF Goes, Frames
<1> QED BY <1>1, <1>2, SMTT(60) DEF Goes, Frames

LEMMA NoFrameIsFrame ==
    /\ NoFrame \in Frames
    /\ NoFrame.kind = "none" /\ NoFrame.pc = "idle" /\ NoFrame.outcome = "none"
<1>1. <<>> \in Seq(Nat)
      OBVIOUS
<1> QED BY <1>1, ConversationsAssumption DEF NoFrame, Frames, Steps

\* A request that is gone is known by what it asked, and has its outcome.
LEMMA GoneFrame ==
    ASSUME TypeOK, NEW r \in Requests, NEW o \in Outcomes
    PROVE  /\ Gone(r, o) \in Frames /\ Gone(r, o).pc = "done" /\ Gone(r, o).outcome = o
           /\ Gone(r, o).kind = req[r].kind /\ Gone(r, o).conv = req[r].conv
<1>1. req[r] \in Frames
      BY DEF TypeOK
<1>2. req[r].kind \in Kinds \cup {"none"} /\ req[r].conv \in 0..Convs
      BY <1>1 DEF Frames
<1> DEFINE f == [NoFrame EXCEPT !.pc = "done"]
           g == [f EXCEPT !.kind = req[r].kind, !.conv = req[r].conv]
           h == [g EXCEPT !.outcome = o]
<1>3. f \in Frames /\ f.pc = "done"
      BY NoFrameIsFrame DEF Frames, Steps
<1>4. Gone(r, o) = h
      BY DEF Gone
<1> HIDE DEF f
<1>5. g \in Frames /\ g.pc = "done" /\ g.kind = req[r].kind /\ g.conv = req[r].conv
      BY <1>2, <1>3 DEF Frames
<1> HIDE DEF g
<1>6. /\ h \in Frames /\ h.pc = "done" /\ h.kind = req[r].kind /\ h.conv = req[r].conv
      /\ h.outcome = o
      BY <1>5 DEF Frames, Outcomes
<1> QED BY <1>4, <1>6

\* The handler ends where its lock says.
LEMMA EndsFrame ==
    ASSUME TypeOK, NEW r \in Requests, NEW o \in Outcomes, NEW known,
           Formed(r, req[r], known)
    PROVE  /\ Ends(r, o) \in Frames
           /\ Formed(r, Ends(r, o), known)
           /\ Ends(r, o).pc \in {"leave", "done"}
           /\ Ends(r, o).outcome = o
           /\ Ends(r, o).kind = req[r].kind /\ Ends(r, o).conv = req[r].conv
<1>1. req[r] \in Frames
      BY DEF TypeOK
<1>2. CASE InTurn(r)
  <2>1. Ends(r, o) = [kind |-> req[r].kind, conv |-> req[r].conv, pc |-> "leave", marker |-> 0,
                      summary |-> <<>>, seen |-> 0, recovered |-> FALSE, outcome |-> o]
        BY <1>2 DEF Ends, NoFrame
  <2>2. <<>> \in Seq(Nat)
        OBVIOUS
  <2>3. Ends(r, o) \in Frames
        BY <1>1, <2>1, <2>2 DEF Frames, Steps, Outcomes
  <2> QED BY <1>2, <2>1, <2>3 DEF Formed, Fits, Refers, Working, Holds, InTurn, TurnKinds
<1>3. CASE ~InTurn(r)
  <2>1. Ends(r, o) = Gone(r, o)
        BY <1>3 DEF Ends
  <2>2. /\ Gone(r, o) \in Frames /\ Gone(r, o).pc = "done" /\ Gone(r, o).outcome = o
        /\ Gone(r, o).kind = req[r].kind /\ Gone(r, o).conv = req[r].conv
        BY GoneFrame
  <2> QED BY <1>3, <2>1, <2>2 DEF Formed, Fits, Refers, Working, Holds, InTurn, TurnKinds
<1> QED BY <1>2, <1>3

\* A compaction that is over ends the handler, or goes back to the turn.
LEMMA CompactedFrame ==
    ASSUME TypeOK, NEW r \in Requests, NEW known, Formed(r, req[r], known),
           req[r].pc \in {"get", "load", "save"}
    PROVE  /\ Compacted(r) \in Frames
           /\ Formed(r, Compacted(r), known)
           /\ Compacted(r).pc \in {"leave", "done", "answer"}
           /\ Compacted(r).pc = "answer" => InTurn(r) /\ Compacted(r).conv = req[r].conv
           /\ Compacted(r).outcome \in {"ok", req[r].outcome}
           /\ Compacted(r).kind = req[r].kind
<1>1. CASE req[r].kind = "compact" \/ ~InTurn(r)
  <2>1. Compacted(r) = Ends(r, "ok")
        BY <1>1 DEF Compacted
  <2> QED BY <2>1, EndsFrame DEF Outcomes
<1>2. CASE req[r].kind # "compact" /\ InTurn(r)
  <2>1. Compacted(r) = [Goes(r, "answer") EXCEPT !.marker = 0, !.summary = <<>>, !.seen = 0]
        BY <1>2 DEF Compacted
  <2>2. req[r] \in Frames
        BY DEF TypeOK
  <2>3. Compacted(r) \in Frames
    <3>1. Goes(r, "answer") \in Frames
          BY GoesFrame DEF Steps
    <3> QED BY <2>1, <3>1, FrameUpdates
  <2>4. /\ Compacted(r).pc = "answer" /\ Compacted(r).kind = req[r].kind
        /\ Compacted(r).conv = req[r].conv /\ Compacted(r).outcome = req[r].outcome
        BY <2>1, <2>2 DEF Goes, Frames
  <2> QED BY <1>2, <2>2, <2>3, <2>4 DEF Formed, Fits, Refers, Working, Holds, InTurn, TurnKinds
<1> QED BY <1>1, <1>2

\* An exception ends the handler, is swallowed by a compaction, or leads to
\* the second listing.
LEMMA ThrownFrame ==
    ASSUME TypeOK, NEW r \in Requests, NEW known, Formed(r, req[r], known),
           req[r].pc \notin {"idle", "done"}
    PROVE  /\ Thrown(r) \in Frames
           /\ Formed(r, Thrown(r), known)
           /\ Thrown(r).pc \in {"leave", "done", "answer", "relist"}
           /\ Thrown(r).pc = "answer" => /\ InTurn(r) /\ Thrown(r).conv = req[r].conv
                                         /\ req[r].pc \in {"get", "load", "save"}
           /\ Thrown(r).pc = "relist" => req[r].pc = "insert"
           /\ Thrown(r).outcome \in {"ok", "error", req[r].outcome}
           /\ Thrown(r).kind = req[r].kind
<1>1. CASE req[r].pc = "insert"
  <2>1. Thrown(r) = Goes(r, "relist")
        BY <1>1 DEF Thrown
  <2>2. req[r] \in Frames
        BY DEF TypeOK
  <2>3. Thrown(r) \in Frames
        BY <2>1, <2>2 DEF Goes, Frames, Steps
  <2>4. /\ Thrown(r).pc = "relist" /\ Thrown(r).kind = req[r].kind
        /\ Thrown(r).conv = req[r].conv /\ Thrown(r).outcome = req[r].outcome
        BY <2>1, <2>2 DEF Goes, Frames
  <2> QED BY <1>1, <2>2, <2>3, <2>4 DEF Formed, Fits, Refers, Working, Holds, InTurn, TurnKinds
<1>2. CASE req[r].pc \in {"get", "load", "save"} /\ req[r].kind # "compact"
  <2>1. Thrown(r) = Compacted(r)
        BY <1>2 DEF Thrown
  <2> QED BY <1>2, <2>1, CompactedFrame
<1>3. CASE req[r].pc # "insert" /\ ~(req[r].pc \in {"get", "load", "save"} /\ req[r].kind # "compact")
  <2>1. Thrown(r) = Ends(r, "error")
        BY <1>3 DEF Thrown
  <2> QED BY <2>1, EndsFrame DEF Outcomes
<1> QED BY <1>1, <1>2, <1>3

\* What a listing or an insert leads to.
LEMMA ResolvedFrame ==
    ASSUME TypeOK, NEW r \in Requests, NEW c \in Ids, NEW known, c \in known,
           Formed(r, req[r], known), req[r].pc \in {"list", "insert", "relist"}
    PROVE  /\ Resolved(r, c) \in Frames
           /\ Formed(r, Resolved(r, c), known)
           /\ Resolved(r, c).pc \in {"ask", "answer", "archive", "leave", "done"}
           /\ Resolved(r, c).pc = "ask" => Resolved(r, c).conv = c
           /\ Resolved(r, c).pc = "answer" => ~InTurn(r)
           /\ Resolved(r, c).pc = "archive" => /\ req[r].conv # c /\ Resolved(r, c).conv = req[r].conv
                                               /\ req[r].kind = "archive"
           /\ Resolved(r, c).outcome \in {"ok", "stale", req[r].outcome}
           /\ Resolved(r, c).kind = req[r].kind
<1>0. req[r] \in Frames
      BY DEF TypeOK
<1>1. CASE req[r].kind = "light"
  <2>1. Resolved(r, c) = [Goes(r, "ask") EXCEPT !.conv = c]
        BY <1>1 DEF Resolved
  <2>2. Resolved(r, c) \in Frames
    <3>1. Goes(r, "ask") \in Frames
          BY GoesFrame DEF Steps
    <3>2. c \in 0..Convs
          BY ConversationsAssumption DEF Ids
    <3> QED BY <2>1, <3>1, <3>2, FrameUpdates
  <2>4. /\ Resolved(r, c).pc = "ask" /\ Resolved(r, c).kind = req[r].kind
        /\ Resolved(r, c).conv = c /\ Resolved(r, c).outcome = req[r].outcome
        BY <2>1, <1>0 DEF Goes, Frames
  <2> QED BY <1>1, <1>0, <2>2, <2>4 DEF Formed, Fits, Refers, Working, Holds, InTurn, TurnKinds
<1>2. CASE req[r].kind = "delegated"
  <2>1. Resolved(r, c) = [Goes(r, "answer") EXCEPT !.conv = c]
        BY <1>2 DEF Resolved
  <2>2. Resolved(r, c) \in Frames
    <3>1. Goes(r, "answer") \in Frames
          BY GoesFrame DEF Steps
    <3>2. c \in 0..Convs
          BY ConversationsAssumption DEF Ids
    <3> QED BY <2>1, <3>1, <3>2, FrameUpdates
  <2>4. /\ Resolved(r, c).pc = "answer" /\ Resolved(r, c).kind = req[r].kind
        /\ Resolved(r, c).conv = c /\ Resolved(r, c).outcome = req[r].outcome
        BY <2>1, <1>0 DEF Goes, Frames
  <2> QED BY <1>2, <1>0, <2>2, <2>4 DEF Formed, Fits, Refers, Working, Holds, InTurn, TurnKinds
<1>3. CASE req[r].kind = "archive" /\ c # req[r].conv
  <2>1. Resolved(r, c) = Goes(r, "archive")
        BY <1>3 DEF Resolved
  <2>2. Resolved(r, c) \in Frames
        BY <1>0, <2>1 DEF Goes, Frames, Steps
  <2>4. /\ Resolved(r, c).pc = "archive" /\ Resolved(r, c).kind = req[r].kind
        /\ Resolved(r, c).conv = req[r].conv /\ Resolved(r, c).outcome = req[r].outcome
        BY <2>1, <1>0 DEF Goes, Frames
  <2> QED BY <1>3, <1>0, <2>2, <2>4 DEF Formed, Fits, Refers, Working, Holds, InTurn, TurnKinds
<1>4. CASE req[r].kind = "archive" /\ c = req[r].conv
  <2>1. Resolved(r, c) = Ends(r, "stale")
        BY <1>4 DEF Resolved
  <2> QED BY <2>1, EndsFrame DEF Outcomes
<1>5. CASE req[r].kind \notin {"light", "delegated", "archive"}
  <2>1. Resolved(r, c) = Ends(r, "ok")
        BY <1>5 DEF Resolved
  <2> QED BY <2>1, EndsFrame DEF Outcomes
<1> QED BY <1>1, <1>2, <1>3, <1>4, <1>5

-----------------------------------------------------------------------------
(* Base is inductive *)

\* The bound leaves an unused row to insert.
LEMMA NextIsNew ==
    ASSUME TypeOK, Room
    PROVE  NextId \in Ids /\ status[NextId] = "none" /\ NextId \notin Existing
BY DEF TypeOK, Room, Existing, NextId

\* The frames, when one request has moved and no row has gone.
LEMMA FramesKept ==
    ASSUME Base, NEW r \in Requests, NEW f \in Frames, Becomes(r, f),
           turn' = turn, Existing \subseteq Existing', Formed(r, f, Existing')
    PROVE  /\ req' \in [Requests -> Frames]
           /\ \A s \in Requests : Formed(s, req[s], Existing)'
<1>1. /\ req' \in [Requests -> Frames]
      /\ req'[r] = f
      /\ \A s \in Requests : s # r => req'[s] = req[s]
      BY BecomesEffect DEF Base
<1>2. ASSUME NEW s \in Requests PROVE Formed(s, req[s], Existing)'
  <2>1. CASE s = r
        BY <1>1, <2>1 DEF Formed, Fits, Refers, Working, Holds, InTurn
  <2>2. CASE s # r
    <3>1. Formed(s, req[s], Existing) /\ req'[s] = req[s]
          BY <1>1, <2>2 DEF Base
    <3> QED BY <3>1 DEF Formed, Fits, Refers, Working, Holds, InTurn
  <2> QED BY <2>1, <2>2
<1> QED BY <1>1, <1>2

\* A call that has had its effect leads to one of two frames.
LEMMA AnsweredKeepsFrames ==
    ASSUME Base, NEW r \in Requests, NEW f \in Frames, Answered(r, f),
           turn' = turn, Existing \subseteq Existing', Formed(r, f, Existing'),
           req[r].pc \notin {"idle", "done"}
    PROVE  /\ req' \in [Requests -> Frames]
           /\ \A s \in Requests : Formed(s, req[s], Existing)'
           /\ failures' \in 0..MaxFailures
<1>1. CASE Becomes(r, f) /\ UNCHANGED failures
      BY <1>1, FramesKept DEF Base, TypeOK
<1>2. CASE failures < MaxFailures /\ failures' = failures + 1 /\ Becomes(r, Thrown(r))
  <2>1. Formed(r, req[r], Existing')
        BY DEF Base, Formed, Refers
  <2>2. Thrown(r) \in Frames /\ Formed(r, Thrown(r), Existing')
        BY <2>1, ThrownFrame DEF Base
  <2>3. failures' \in 0..MaxFailures
        BY <1>2, ConversationsAssumption DEF Base, TypeOK
  <2> QED BY <1>2, <2>2, <2>3, FramesKept
<1> QED BY <1>1, <1>2 DEF Answered

LEMMA InitBase == Init => Base
<1> SUFFICES ASSUME Init PROVE Base
    OBVIOUS
<1>1. NoFrame \in Frames
      BY NoFrameIsFrame
<1>2. TypeOK
  <2>1. <<>> \in Seq(Nat)
        OBVIOUS
  <2>2. PICK first \in {"none", "active"} :
            status = [c \in Ids |-> IF c = 1 THEN first ELSE "none"]
        BY DEF Init
  <2>3. status \in [Ids -> {"none", "active", "archived"}]
        BY <2>2
  <2> QED BY <1>1, <2>1, <2>3, ConversationsAssumption DEF Init, TypeOK
<1>3. \A r \in Requests : req[r] = NoFrame /\ ~InTurn(r)
      BY ConversationsAssumption DEF Init, InTurn
<1>4. \A r \in Requests : Formed(r, req[r], Existing)
  <2> SUFFICES ASSUME NEW r \in Requests PROVE Formed(r, req[r], Existing)
      OBVIOUS
  <2>1. /\ req[r] = NoFrame /\ NoFrame.pc = "idle" /\ NoFrame.kind = "none"
        /\ NoFrame.outcome = "none"
        BY <1>3, NoFrameIsFrame
  <2>2. InTurn(r) = FALSE
        BY <1>3
  <2>3. Fits(NoFrame)
        BY <2>1 DEF Fits
  <2>4. Refers(NoFrame, Existing)
        BY <2>1 DEF Refers, Working
  <2>5. Holds(NoFrame, FALSE)
        BY <2>1 DEF Holds
  <2> QED BY <2>1, <2>2, <2>3, <2>4, <2>5 DEF Formed
<1> QED BY <1>2, <1>4 DEF Base

\* A request that moves without touching the lock or the rows.
LEMMA MoveKeepsBase ==
    ASSUME Base, NEW r \in Requests, NEW f \in Frames, Becomes(r, f), Formed(r, f, Existing),
           UNCHANGED <<turn, rows, tx, dashboards, endedBy>>,
           failures' \in 0..MaxFailures
    PROVE  Base'
<1>1. Existing' = Existing
      BY DEF Existing, rows
<1>2. /\ req' \in [Requests -> Frames]
      /\ \A s \in Requests : Formed(s, req[s], Existing)'
      BY <1>1, FramesKept
<1> QED BY <1>2 DEF Base, TypeOK, rows, tx

LEMMA BeginKeepsBase ==
    ASSUME Base, NEW r \in Requests, NEW kind \in Kinds, NEW c \in 0..Convs, Begin(r, kind, c)
    PROVE  Base'
<1> DEFINE f == [req[r] EXCEPT !.kind = kind, !.conv = c, !.pc = FirstStep(kind)]
<1>1. req[r] \in Frames /\ ~InTurn(r) /\ failures \in 0..MaxFailures
      BY DEF Base, TypeOK, Formed, Holds, Begin, At, InTurn
<1>2. FirstStep(kind) \in Steps
      BY DEF FirstStep, Kinds, TurnKinds, Steps
<1>3. f \in Frames /\ f.pc = FirstStep(kind) /\ f.kind = kind /\ f.conv = c /\ f.outcome = "none"
  <2>1. req[r].outcome = "none"
        BY DEF Base, Formed, Fits, Begin, At, NoFrame
  <2> QED BY <1>1, <1>2, <2>1 DEF Frames
<1>4. kind \in {"turn", "new", "compact", "archive"} => c \in Existing
      BY DEF Begin
<1> HIDE DEF f
<1>5. Formed(r, f, Existing)
      BY <1>1, <1>3, <1>4
      DEF FirstStep, Kinds, TurnKinds, Formed, Fits, Refers, Working, Holds, InTurn
<1>6. Becomes(r, f) /\ UNCHANGED <<turn, rows, tx, dashboards, endedBy, failures>>
      BY DEF Begin, f
<1> QED BY <1>1, <1>3, <1>5, <1>6, MoveKeepsBase

LEMMA OpenKeepsBase == ASSUME Base, NEW r \in Requests, Open(r) PROVE Base'
<1>0. TypeOK /\ Formed(r, req[r], Existing) /\ req[r] \in Frames /\ failures \in 0..MaxFailures
      BY DEF Base, TypeOK
<1>1. status[req[r].conv] = "active" => Goes(r, "wait") \in Frames /\ Formed(r, Goes(r, "wait"), Existing)
      BY <1>0, GoesFrame DEF Open, At, Steps, Formed, Fits, Refers, Working, Holds, InTurn, TurnKinds
<1>2. Ends(r, "stale") \in Frames /\ Formed(r, Ends(r, "stale"), Existing)
      BY <1>0, EndsFrame DEF Outcomes
<1> QED BY <1>0, <1>1, <1>2, MoveKeepsBase DEF Open

LEMMA CheckKeepsBase == ASSUME Base, NEW r \in Requests, Check(r) PROVE Base'
<1>0. TypeOK /\ Formed(r, req[r], Existing) /\ req[r] \in Frames /\ failures \in 0..MaxFailures
      BY DEF Base, TypeOK
<1>1. /\ Goes(r, AfterCheck(req[r].kind)) \in Frames
      /\ Formed(r, Goes(r, AfterCheck(req[r].kind)), Existing)
  <2>1. req[r].kind \in {"turn", "new", "compact"}
        BY <1>0 DEF Check, At, Formed, Fits
  <2>2. ASSUME NEW pc \in {"ask", "orgLock", "get"}, AfterCheck(req[r].kind) = pc
        PROVE  Goes(r, pc) \in Frames /\ Formed(r, Goes(r, pc), Existing)
    <3>1. /\ Goes(r, pc) \in Frames /\ Goes(r, pc).pc = pc
          /\ Goes(r, pc).kind = req[r].kind /\ Goes(r, pc).conv = req[r].conv
          /\ Goes(r, pc).outcome = req[r].outcome
          BY <1>0, GoesFrame DEF Steps
    <3>2. /\ pc = "ask" => req[r].kind = "turn"
          /\ pc = "orgLock" => req[r].kind = "new"
          /\ pc = "get" => req[r].kind = "compact"
          BY <2>1, <2>2 DEF AfterCheck
    <3>3. /\ InTurn(r) /\ req[r].conv \in Existing /\ req[r].kind \in TurnKinds
          /\ req[r].outcome # "error"
          BY <1>0, <2>1 DEF Check, At, Formed, Fits, Holds, Refers, Working, TurnKinds
    <3>4. Fits(Goes(r, pc)) /\ Refers(Goes(r, pc), Existing)
          BY <3>1, <3>2, <3>3 DEF Fits, Refers
    <3>5. Holds(Goes(r, pc), InTurn(r))
          BY <3>1, <3>2, <3>3 DEF Holds, InTurn
    <3> QED BY <3>1, <3>4, <3>5 DEF Formed
  <2>3. AfterCheck(req[r].kind) \in {"ask", "orgLock", "get"}
        BY DEF AfterCheck
  <2> QED BY <2>2, <2>3
<1>2. /\ Ends(r, Refusal(req[r].kind)) \in Frames
      /\ Formed(r, Ends(r, Refusal(req[r].kind)), Existing)
      BY <1>0, EndsFrame DEF Outcomes, Refusal
<1> QED BY <1>0, <1>1, <1>2, MoveKeepsBase DEF Check

\* The two steps that move the turn lock.
LEMMA LockKeepsBase ==
    ASSUME Base, NEW r \in Requests, NEW holder \in {r, None}, NEW f \in Frames,
           turn[home[r]] \in {r, None}, turn' = [turn EXCEPT ![home[r]] = holder],
           Becomes(r, f), Fits(f), Refers(f, Existing), Holds(f, holder = r),
           UNCHANGED <<rows, tx, dashboards, endedBy, failures>>
    PROVE  Base'
<1>1. Existing' = Existing
      BY DEF Existing, rows
<1>2. /\ req' \in [Requests -> Frames]
      /\ req'[r] = f
      /\ \A s \in Requests : s # r => req'[s] = req[s]
      BY BecomesEffect DEF Base
<1>3. turn \in [Processes -> Requests \cup {None}] /\ home[r] \in Processes
      BY ConversationsAssumption DEF Base, TypeOK
<1>4. ASSUME NEW s \in Requests PROVE Formed(s, req[s], Existing)'
  <2>1. CASE s = r
    <3>1. InTurn(r)' <=> holder = r
          BY <1>3 DEF InTurn
    <3> QED BY <1>1, <1>2, <2>1, <3>1 DEF Formed, Fits, Refers, Working, Holds, InTurn
  <2>2. CASE s # r
    <3>1. InTurn(s)' <=> InTurn(s)
          BY <1>3, <2>2, ConversationsAssumption DEF InTurn
    <3>2. Formed(s, req[s], Existing) /\ req'[s] = req[s]
          BY <1>2, <2>2 DEF Base
    <3> QED BY <1>1, <3>1, <3>2 DEF Formed, Fits, Refers, Working, Holds, InTurn
  <2> QED BY <2>1, <2>2
<1>5. turn' \in [Processes -> Requests \cup {None}]
      BY <1>3
<1> QED BY <1>2, <1>4, <1>5 DEF Base, TypeOK, rows, tx

LEMMA EnterKeepsBase == ASSUME Base, NEW r \in Requests, Enter(r) PROVE Base'
<1>0. TypeOK /\ Formed(r, req[r], Existing) /\ req[r] \in Frames /\ failures \in 0..MaxFailures
      BY DEF Base, TypeOK
<1> DEFINE f == Goes(r, IF req[r].kind = "light" THEN "list" ELSE "check")
<1>1. /\ f \in Frames /\ f.kind = req[r].kind /\ f.conv = req[r].conv /\ f.outcome = req[r].outcome
      /\ f.pc = IF req[r].kind = "light" THEN "list" ELSE "check"
      BY <1>0, GoesFrame DEF Steps
<1>2. Becomes(r, f) /\ turn[home[r]] = None /\ turn' = [turn EXCEPT ![home[r]] = r]
      BY DEF Enter
<1> HIDE DEF f
<1>3. Fits(f) /\ Refers(f, Existing) /\ Holds(f, TRUE)
      BY <1>0, <1>1 DEF Enter, At, Formed, Fits, Refers, Working, Holds, TurnKinds
<1> QED BY <1>1, <1>2, <1>3, LockKeepsBase DEF Enter

LEMMA LeaveKeepsBase == ASSUME Base, NEW r \in Requests, Leave(r) PROVE Base'
<1>0. TypeOK /\ Formed(r, req[r], Existing) /\ req[r] \in Frames /\ failures \in 0..MaxFailures
      BY DEF Base, TypeOK
<1>1. InTurn(r) /\ r # None
      BY <1>0, ConversationsAssumption DEF Leave, At, Formed, Holds, InTurn
<1>2. ASSUME NEW f \in Frames, Becomes(r, f), Fits(f), Refers(f, Existing), Holds(f, FALSE)
      PROVE  Base'
      BY <1>1, <1>2, LockKeepsBase DEF Leave, InTurn
<1>3. CASE Becomes(r, Gone(r, req[r].outcome))
  <2> DEFINE f == Gone(r, req[r].outcome)
  <2>1. /\ f \in Frames /\ f.pc = "done" /\ f.kind = req[r].kind /\ f.conv = req[r].conv
    <3>1. req[r].outcome \in Outcomes
          BY <1>0 DEF Frames, Outcomes
    <3> QED BY <1>0, <3>1, GoneFrame
  <2>2. Becomes(r, f)
        BY <1>3
  <2> HIDE DEF f
  <2>3. Fits(f) /\ Refers(f, Existing) /\ Holds(f, FALSE)
        BY <1>0, <2>1 DEF Formed, Fits, Refers, Working, Holds
  <2> QED BY <1>2, <2>1, <2>2, <2>3
<1>4. CASE TurnIsOver(r) /\ Becomes(r, Goes(r, "get"))
  <2>1. /\ Goes(r, "get") \in Frames /\ Goes(r, "get").pc = "get"
        /\ Goes(r, "get").kind = "turn" /\ Goes(r, "get").conv = req[r].conv
        /\ Goes(r, "get").outcome = "ok"
        BY <1>0, <1>4, GoesFrame DEF Steps, TurnIsOver
  <2>2. req[r].conv \in Existing
        BY <1>0, <1>4 DEF Leave, At, TurnIsOver, Formed, Refers, Working
  <2>3. Fits(Goes(r, "get")) /\ Refers(Goes(r, "get"), Existing) /\ Holds(Goes(r, "get"), FALSE)
        BY <2>1, <2>2 DEF Fits, Refers, Working, Holds
  <2> QED BY <1>2, <1>4, <2>1, <2>3
<1> QED BY <1>3, <1>4 DEF Leave

LEMMA ListKeepsBase == ASSUME Base, NEW r \in Requests, List(r) PROVE Base'
<1>0. TypeOK /\ Formed(r, req[r], Existing) /\ req[r] \in Frames /\ failures \in 0..MaxFailures
      BY DEF Base, TypeOK
<1>1. req[r].pc \in {"list", "relist"}
      BY DEF List
<1>2. ASSUME NEW c \in Active PROVE Resolved(r, c) \in Frames /\ Formed(r, Resolved(r, c), Existing)
  <2>1. c \in Ids /\ c \in Existing
        BY DEF Active, Existing
  <2> QED BY <1>0, <1>1, <2>1, ResolvedFrame
<1>3. At(r, "list") => Goes(r, "insert") \in Frames /\ Formed(r, Goes(r, "insert"), Existing)
      BY <1>0, GoesFrame DEF At, Steps, Formed, Fits, Refers, Working, Holds, InTurn, TurnKinds
<1>4. Thrown(r) \in Frames /\ Formed(r, Thrown(r), Existing)
      BY <1>0, <1>1, ThrownFrame
<1> QED BY <1>0, <1>2, <1>3, <1>4, MoveKeepsBase DEF List

LEMMA InsertKeepsBase == ASSUME Base, NEW r \in Requests, Insert(r) PROVE Base'
<1>0. TypeOK /\ Formed(r, req[r], Existing) /\ req[r] \in Frames /\ failures \in 0..MaxFailures
      BY DEF Base, TypeOK
<1>1. req[r].pc = "insert"
      BY DEF Insert, At
<1>2. CASE /\ Active = {} /\ Room
           /\ status' = [status EXCEPT ![NextId] = "active"]
           /\ Answered(r, Resolved(r, NextId))
  <2>1. NextId \in Ids
        BY <1>0, <1>2, NextIsNew
  <2>2. status' \in [Ids -> {"none", "active", "archived"}]
        BY <1>0, <1>2 DEF TypeOK
  <2>3. Existing \subseteq Existing' /\ NextId \in Existing'
        BY <1>0, <1>2, <2>1 DEF TypeOK, Existing
  <2>4. Formed(r, req[r], Existing')
        BY <1>0, <2>3 DEF Formed, Refers
  <2>5. Resolved(r, NextId) \in Frames /\ Formed(r, Resolved(r, NextId), Existing')
        BY <1>0, <1>1, <2>1, <2>3, <2>4, ResolvedFrame
  <2>6. turn' = turn
        BY DEF Insert
  <2>7. /\ req' \in [Requests -> Frames] /\ failures' \in 0..MaxFailures
        /\ \A s \in Requests : Formed(s, req[s], Existing)'
        BY <1>1, <1>2, <2>3, <2>5, <2>6, AnsweredKeepsFrames
  <2> QED BY <2>2, <2>7 DEF Base, TypeOK, Insert, tx
<1>3. CASE Active # {} /\ Becomes(r, Thrown(r)) /\ UNCHANGED <<status, failures>>
  <2>1. Thrown(r) \in Frames /\ Formed(r, Thrown(r), Existing)
        BY <1>0, <1>1, ThrownFrame
  <2> QED BY <1>0, <1>3, <2>1, MoveKeepsBase DEF Insert, rows
<1> QED BY <1>2, <1>3 DEF Insert

LEMMA ArchiveKeepsBase == ASSUME Base, NEW r \in Requests, Archive(r) PROVE Base'
<1>0. TypeOK /\ Formed(r, req[r], Existing) /\ req[r] \in Frames /\ failures \in 0..MaxFailures
      BY DEF Base, TypeOK
<1>1. req[r].pc = "archive" /\ turn' = turn
      BY DEF Archive, At
<1>2. req[r].conv \in Existing /\ req[r].conv \in Ids
      BY <1>0, <1>1 DEF Formed, Fits, Refers, Working, Existing
<1>3. /\ status' \in [Ids -> {"none", "active", "archived"}]
      /\ endedBy' \in [Ids -> Requests \cup {None}]
      BY <1>0 DEF TypeOK, Archive
<1>4. Existing \subseteq Existing'
      BY <1>0, <1>2 DEF TypeOK, Archive, Existing
<1>5. Formed(r, req[r], Existing')
      BY <1>0, <1>4 DEF Formed, Refers
<1>6. Ends(r, "ok") \in Frames /\ Formed(r, Ends(r, "ok"), Existing')
      BY <1>0, <1>5, EndsFrame DEF Outcomes
<1>7. /\ req' \in [Requests -> Frames] /\ failures' \in 0..MaxFailures
      /\ \A s \in Requests : Formed(s, req[s], Existing)'
      BY <1>1, <1>4, <1>6, AnsweredKeepsFrames DEF Archive
<1> QED BY <1>3, <1>7 DEF Base, TypeOK, Archive, tx

LEMMA SweepKeepsBase == ASSUME Base, NEW r \in Requests, Sweep(r) PROVE Base'
<1>0. TypeOK /\ Formed(r, req[r], Existing) /\ req[r] \in Frames /\ failures \in 0..MaxFailures
      BY DEF Base, TypeOK
<1>1. Goes(r, "renew") \in Frames /\ Formed(r, Goes(r, "renew"), Existing)
      BY <1>0, GoesFrame DEF Sweep, At, Steps, Formed, Fits, Refers, Working, Holds, InTurn, TurnKinds
<1>2. Existing' = Existing /\ turn' = turn
      BY DEF Sweep, Existing, rows
<1>3. /\ req' \in [Requests -> Frames]
      /\ \A s \in Requests : Formed(s, req[s], Existing)'
      BY <1>1, <1>2, FramesKept DEF Sweep
<1> QED BY <1>3 DEF Base, TypeOK, Sweep, Active, rows

LEMMA CountKeepsBase == ASSUME Base, NEW r \in Requests, CountDashboards(r) PROVE Base'
<1>0. TypeOK /\ Formed(r, req[r], Existing) /\ req[r] \in Frames /\ failures \in 0..MaxFailures
      BY DEF Base, TypeOK
<1> DEFINE f == [Goes(r, "place") EXCEPT !.seen = dashboards]
<1>1. /\ Goes(r, "place") \in Frames /\ Goes(r, "place").kind = "dashboard"
      /\ Goes(r, "place").pc = "place" /\ Goes(r, "place").outcome = req[r].outcome
      BY <1>0, GoesFrame DEF CountDashboards, Steps
<1>2. f \in Frames
      BY <1>0, <1>1, FrameUpdates DEF TypeOK
<1>3. f.kind = "dashboard" /\ f.pc = "place" /\ f.outcome = req[r].outcome
      BY <1>1 DEF Frames
<1>4. Becomes(r, f)
      BY DEF CountDashboards
<1> HIDE DEF f
<1>5. Formed(r, f, Existing)
      BY <1>0, <1>3 DEF CountDashboards, At, Formed, Fits, Refers, Working, Holds, InTurn, TurnKinds
<1>6. Existing' = Existing /\ turn' = turn
      BY DEF CountDashboards, Existing, rows
<1>7. /\ req' \in [Requests -> Frames]
      /\ \A s \in Requests : Formed(s, req[s], Existing)'
      BY <1>2, <1>4, <1>5, <1>6, FramesKept
<1> QED BY <1>7 DEF Base, TypeOK, CountDashboards, rows

LEMMA RenewKeepsBase == ASSUME Base, NEW r \in Requests, Renew(r) PROVE Base'
<1>0. TypeOK /\ Formed(r, req[r], Existing) /\ req[r] \in Frames /\ failures \in 0..MaxFailures
      BY DEF Base, TypeOK
<1>1. req[r].pc = "renew" /\ turn' = turn /\ Room
      BY DEF Renew, At
<1>2. Existing \subseteq Existing'
  <2>1. CASE status' = status
        BY <2>1 DEF Existing
  <2>2. CASE status' = [c \in Ids |-> IF c \in swept THEN "archived"
                                     ELSE IF c = NextId THEN "active" ELSE status[c]]
        BY <2>2 DEF Existing
  <2> QED BY <2>1, <2>2 DEF Renew
<1>3. /\ status' \in [Ids -> {"none", "active", "archived"}]
      /\ endedBy' \in [Ids -> Requests \cup {None}]
      BY <1>0 DEF TypeOK, Renew
<1>4. Formed(r, req[r], Existing')
      BY <1>0, <1>2 DEF Formed, Refers
<1>5. /\ Ends(r, "ok") \in Frames /\ Formed(r, Ends(r, "ok"), Existing')
      /\ Thrown(r) \in Frames /\ Formed(r, Thrown(r), Existing')
      BY <1>0, <1>1, <1>4, EndsFrame, ThrownFrame DEF Outcomes
<1>6. Answered(r, Ends(r, "ok")) \/ (Becomes(r, Thrown(r)) /\ UNCHANGED failures)
      BY DEF Renew
<1>7. /\ req' \in [Requests -> Frames] /\ failures' \in 0..MaxFailures
      /\ \A s \in Requests : Formed(s, req[s], Existing)'
      BY <1>0, <1>1, <1>2, <1>5, <1>6, AnsweredKeepsFrames, FramesKept
<1> QED BY <1>3, <1>7 DEF Base, TypeOK, Renew

LEMMA PlaceKeepsBase == ASSUME Base, NEW r \in Requests, Place(r) PROVE Base'
<1>0. TypeOK /\ Formed(r, req[r], Existing) /\ req[r] \in Frames /\ failures \in 0..MaxFailures
      BY DEF Base, TypeOK
<1>1. req[r].pc = "place" /\ turn' = turn /\ Existing' = Existing
      BY DEF Place, At, Existing, rows
<1>2. /\ Ends(r, "ok") \in Frames /\ Formed(r, Ends(r, "ok"), Existing')
      /\ Ends(r, "limit") \in Frames /\ Formed(r, Ends(r, "limit"), Existing')
      BY <1>0, <1>1, EndsFrame DEF Outcomes
<1>3. Answered(r, Ends(r, "ok")) \/ (Becomes(r, Ends(r, "limit")) /\ UNCHANGED failures)
      BY DEF Place
<1>4. /\ req' \in [Requests -> Frames] /\ failures' \in 0..MaxFailures
      /\ \A s \in Requests : Formed(s, req[s], Existing)'
      BY <1>0, <1>1, <1>2, <1>3, AnsweredKeepsFrames, FramesKept
<1>5. dashboards' \in Nat /\ orgLock' \in Requests \cup {None}
      BY <1>0 DEF TypeOK, Place
<1> QED BY <1>4, <1>5 DEF Base, TypeOK, Place, rows

LEMMA FreeKeepsBase == ASSUME Base, FreeDashboard PROVE Base'
<1>1. dashboards' \in Nat
      BY DEF Base, TypeOK, FreeDashboard
<1> QED BY <1>1 DEF Base, TypeOK, FreeDashboard, rows, tx, Existing, Formed, Fits, Refers, Working, Holds, InTurn

\* A message is added to a conversation that exists.
LEMMA WrittenKeepsBase ==
    ASSUME Base, NEW r \in Requests, NEW f \in Frames, Written(r, f), Formed(r, f, Existing),
           req[r].pc \in {"ask", "answer"}
    PROVE  Base'
<1>0. TypeOK /\ Formed(r, req[r], Existing) /\ req[r] \in Frames /\ failures \in 0..MaxFailures
      BY DEF Base, TypeOK
<1>1. Existing' = Existing /\ turn' = turn
      BY DEF Written, Existing
<1>2. /\ req' \in [Requests -> Frames] /\ failures' \in 0..MaxFailures
      /\ \A s \in Requests : Formed(s, req[s], Existing)'
      BY <1>1, AnsweredKeepsFrames DEF Written
<1>3. req[r].conv \in Ids
      BY <1>0 DEF Formed, Refers, Working, Existing
<1>4. messages' \in [Ids -> Nat]
      BY <1>0, <1>3 DEF Written, TypeOK
<1> QED BY <1>2, <1>4 DEF Base, TypeOK, Written, tx

LEMMA AskKeepsBase == ASSUME Base, NEW r \in Requests, Ask(r) PROVE Base'
<1>0. TypeOK /\ Formed(r, req[r], Existing) /\ req[r] \in Frames /\ failures \in 0..MaxFailures
      BY DEF Base, TypeOK
<1>1. Goes(r, "asked") \in Frames /\ Formed(r, Goes(r, "asked"), Existing)
      BY <1>0, GoesFrame DEF Ask, At, Steps, Formed, Fits, Refers, Working, Holds, InTurn, TurnKinds
<1> QED BY <1>1, WrittenKeepsBase DEF Ask, At

LEMMA AnswerKeepsBase == ASSUME Base, NEW r \in Requests, Answer(r) PROVE Base'
<1>0. TypeOK /\ Formed(r, req[r], Existing) /\ req[r] \in Frames /\ failures \in 0..MaxFailures
      BY DEF Base, TypeOK
<1>1. Goes(r, "answered") \in Frames /\ Formed(r, Goes(r, "answered"), Existing)
      BY <1>0, GoesFrame DEF Answer, At, Steps, Formed, Fits, Refers, Working, Holds, InTurn, TurnKinds
<1> QED BY <1>1, WrittenKeepsBase DEF Answer, At

LEMMA TouchKeepsBase == ASSUME Base, NEW r \in Requests, Touch(r) PROVE Base'
<1>0. TypeOK /\ Formed(r, req[r], Existing) /\ req[r] \in Frames /\ failures \in 0..MaxFailures
      BY DEF Base, TypeOK
<1>1. At(r, "asked") => Goes(r, "answer") \in Frames /\ Formed(r, Goes(r, "answer"), Existing)
      BY <1>0, GoesFrame DEF At, Steps, Formed, Fits, Refers, Working, Holds, InTurn, TurnKinds
<1>2. Ends(r, "ok") \in Frames /\ Formed(r, Ends(r, "ok"), Existing)
      BY <1>0, EndsFrame DEF Outcomes
<1> QED BY <1>0, <1>1, <1>2, MoveKeepsBase DEF Touch

LEMMA RecoverKeepsBase == ASSUME Base, NEW r \in Requests, Recover(r) PROVE Base'
<1>0. TypeOK /\ Formed(r, req[r], Existing) /\ req[r] \in Frames /\ failures \in 0..MaxFailures
      BY DEF Base, TypeOK
<1> DEFINE f == [Goes(r, "get") EXCEPT !.recovered = TRUE]
<1>1. /\ Goes(r, "get") \in Frames /\ Goes(r, "get").kind = req[r].kind
      /\ Goes(r, "get").pc = "get" /\ Goes(r, "get").conv = req[r].conv
      /\ Goes(r, "get").outcome = req[r].outcome
      BY <1>0, GoesFrame DEF Steps
<1>2. f \in Frames
      BY <1>1, FrameUpdates
<1>3. f.kind = req[r].kind /\ f.pc = "get" /\ f.conv = req[r].conv /\ f.outcome = req[r].outcome
      BY <1>1 DEF Frames
<1>4. Becomes(r, f)
      BY DEF Recover
<1> HIDE DEF f
<1>5. Formed(r, f, Existing)
      BY <1>0, <1>3 DEF Recover, At, Formed, Fits, Refers, Working, Holds, InTurn, TurnKinds
<1> QED BY <1>0, <1>2, <1>4, <1>5, MoveKeepsBase DEF Recover

LEMMA GetKeepsBase == ASSUME Base, NEW r \in Requests, Get(r) PROVE Base'
<1>0. TypeOK /\ Formed(r, req[r], Existing) /\ req[r] \in Frames /\ failures \in 0..MaxFailures
      BY DEF Base, TypeOK
<1> DEFINE f == [Goes(r, "load") EXCEPT !.marker = marker[req[r].conv], !.summary = summary[req[r].conv]]
<1>1. /\ Goes(r, "load") \in Frames /\ Goes(r, "load").kind = req[r].kind
      /\ Goes(r, "load").pc = "load" /\ Goes(r, "load").conv = req[r].conv
      /\ Goes(r, "load").outcome = req[r].outcome
      BY <1>0, GoesFrame DEF Steps
<1>2. req[r].conv \in Ids
      BY <1>0 DEF Get, At, Formed, Refers, Working, Existing
<1>3. f \in Frames
      BY <1>0, <1>1, <1>2, FrameUpdates DEF TypeOK
<1>4. f.kind = req[r].kind /\ f.pc = "load" /\ f.conv = req[r].conv /\ f.outcome = req[r].outcome
      BY <1>1 DEF Frames
<1>5. Becomes(r, f) \/ Becomes(r, Ends(r, "stale")) \/ Becomes(r, Compacted(r))
      BY DEF Get
<1> HIDE DEF f
<1>6. Formed(r, f, Existing)
      BY <1>0, <1>4 DEF Get, At, Formed, Fits, Refers, Working, Holds, InTurn, TurnKinds
<1>7. /\ Ends(r, "stale") \in Frames /\ Formed(r, Ends(r, "stale"), Existing)
      /\ Compacted(r) \in Frames /\ Formed(r, Compacted(r), Existing)
      BY <1>0, EndsFrame, CompactedFrame DEF Get, At, Outcomes
<1> QED BY <1>0, <1>3, <1>5, <1>6, <1>7, MoveKeepsBase DEF Get

LEMMA LoadKeepsBase == ASSUME Base, NEW r \in Requests, Load(r) PROVE Base'
<1>0. TypeOK /\ Formed(r, req[r], Existing) /\ req[r] \in Frames /\ failures \in 0..MaxFailures
      BY DEF Base, TypeOK
<1> DEFINE f == [Goes(r, "save") EXCEPT !.seen = messages[req[r].conv]]
<1>1. /\ Goes(r, "save") \in Frames /\ Goes(r, "save").kind = req[r].kind
      /\ Goes(r, "save").pc = "save" /\ Goes(r, "save").conv = req[r].conv
      /\ Goes(r, "save").outcome = req[r].outcome
      BY <1>0, GoesFrame DEF Steps
<1>2. req[r].conv \in Ids
      BY <1>0 DEF Load, At, Formed, Refers, Working, Existing
<1>3. f \in Frames
      BY <1>0, <1>1, <1>2, FrameUpdates DEF TypeOK
<1>4. f.kind = req[r].kind /\ f.pc = "save" /\ f.conv = req[r].conv /\ f.outcome = req[r].outcome
      BY <1>1 DEF Frames
<1>5. Becomes(r, f) \/ Becomes(r, Compacted(r))
      BY DEF Load
<1> HIDE DEF f
<1>6. Formed(r, f, Existing)
      BY <1>0, <1>4 DEF Load, At, Formed, Fits, Refers, Working, Holds, InTurn, TurnKinds
<1>7. Compacted(r) \in Frames /\ Formed(r, Compacted(r), Existing)
      BY <1>0, CompactedFrame DEF Load, At
<1> QED BY <1>0, <1>3, <1>5, <1>6, <1>7, MoveKeepsBase DEF Load

LEMMA OlderIsNat == \A n \in Nat : Older(n) \in Nat /\ Older(n) <= n
BY ConversationsAssumption DEF Older

LEMMA FoldedIsSeq ==
    ASSUME NEW old \in Seq(Nat), NEW from \in Nat, NEW n \in Nat
    PROVE  Folded(old, from, n) \in Seq(Nat)
<1>1. [i \in 1..(n - from) |-> from + i] \in Seq(Nat)
  <2>1. CASE n - from \in Nat
        BY <2>1
  <2>2. CASE n - from \notin Nat
    <3>1. 1..(n - from) = 1..0
          BY <2>2
    <3>2. [i \in 1..0 |-> from + i] \in Seq(Nat)
          OBVIOUS
    <3> QED BY <3>1, <3>2
  <2> QED BY <2>1, <2>2
<1> QED BY <1>1 DEF Folded

LEMMA SaveKeepsBase == ASSUME Base, NEW r \in Requests, Save(r) PROVE Base'
<1>0. TypeOK /\ Formed(r, req[r], Existing) /\ req[r] \in Frames /\ failures \in 0..MaxFailures
      BY DEF Base, TypeOK
<1>1. req[r].pc = "save" /\ Existing' = Existing /\ turn' = turn
      BY DEF Save, At, Existing
<1>2. Compacted(r) \in Frames /\ Formed(r, Compacted(r), Existing')
      BY <1>0, <1>1, CompactedFrame
<1>3. /\ req' \in [Requests -> Frames] /\ failures' \in 0..MaxFailures
      /\ \A s \in Requests : Formed(s, req[s], Existing)'
      BY <1>1, <1>2, AnsweredKeepsFrames DEF Save
<1>4. req[r].seen \in Nat /\ req[r].marker \in Nat /\ req[r].summary \in Seq(Nat)
      BY <1>0 DEF Frames
<1>5. marker' \in [Ids -> Nat]
      BY <1>0, <1>4, OlderIsNat DEF Save, TypeOK
<1>6. summary' \in [Ids -> Seq(Nat)]
  <2>1. Folded(req[r].summary, req[r].marker, Older(req[r].seen)) \in Seq(Nat)
        BY <1>4, OlderIsNat, FoldedIsSeq
  <2> QED BY <1>0, <2>1 DEF Save, TypeOK
<1> QED BY <1>3, <1>5, <1>6 DEF Base, TypeOK, Save, tx

LEMMA FailsKeepsBase == ASSUME Base, NEW r \in Requests, Fails(r) PROVE Base'
<1>0. TypeOK /\ Formed(r, req[r], Existing) /\ req[r] \in Frames /\ failures \in 0..MaxFailures
      BY DEF Base, TypeOK
<1>1. Thrown(r) \in Frames /\ Formed(r, Thrown(r), Existing)
      BY <1>0, ThrownFrame DEF Fails, Calls
<1>2. failures' \in 0..MaxFailures
      BY <1>0, ConversationsAssumption DEF Fails
<1> QED BY <1>1, <1>2, MoveKeepsBase DEF Fails

LEMMA NextKeepsBase == Base /\ [Next]_vars => Base'
<1> SUFFICES ASSUME Base, [Next]_vars PROVE Base'
    OBVIOUS
<1>1. CASE UNCHANGED vars
      BY <1>1 DEF vars, rows, tx, Base, TypeOK, Existing, Formed, Fits, Refers, Working, Holds, InTurn
<1>2. ASSUME NEW r \in Requests, NEW kind \in asks[r], NEW c \in 0..Convs, Begin(r, kind, c)
      PROVE  Base'
  <2>1. kind \in Kinds
        BY ConversationsAssumption
  <2> QED BY <1>2, <2>1, BeginKeepsBase
<1>3. ASSUME NEW r \in Requests, Progress(r) PROVE Base'
      BY <1>3, OpenKeepsBase, EnterKeepsBase, CheckKeepsBase, LeaveKeepsBase, ListKeepsBase,
         InsertKeepsBase, ArchiveKeepsBase, SweepKeepsBase, RenewKeepsBase, CountKeepsBase,
         PlaceKeepsBase, AskKeepsBase, AnswerKeepsBase, TouchKeepsBase, GetKeepsBase, LoadKeepsBase,
         SaveKeepsBase
      DEF Progress
<1>4. ASSUME NEW r \in Requests, Recover(r) \/ Fails(r) PROVE Base'
      BY <1>4, RecoverKeepsBase, FailsKeepsBase
<1> QED BY <1>1, <1>2, <1>3, <1>4, FreeKeepsBase DEF Next

\* Rows never vanish.
LEMMA ExistingGrows == Base /\ [Next]_vars => Existing \subseteq Existing'
<1> SUFFICES ASSUME Base, [Next]_vars PROVE Existing \subseteq Existing'
    OBVIOUS
<1>1. ASSUME status' = status PROVE Existing \subseteq Existing'
      BY <1>1 DEF Existing
<1>2. CASE UNCHANGED vars
      BY <1>1, <1>2 DEF vars, rows
<1>3. ASSUME NEW r \in Requests, Insert(r) PROVE Existing \subseteq Existing'
      BY <1>3, NextIsNew DEF Insert, Base, TypeOK, Existing
<1>4. ASSUME NEW r \in Requests, Archive(r) PROVE Existing \subseteq Existing'
      BY <1>4 DEF Archive, Base, TypeOK, Existing
<1>5. ASSUME NEW r \in Requests, Renew(r) PROVE Existing \subseteq Existing'
      BY <1>5 DEF Renew, Base, TypeOK, Existing
<1>6. ASSUME NEW r \in Requests, Progress(r) PROVE Existing \subseteq Existing'
      BY <1>1, <1>3, <1>4, <1>5, <1>6
      DEF Progress, Open, Enter, Check, Leave, List, Sweep, CountDashboards, Place, Ask, Answer,
          Written, Touch, Get, Load, Save, rows
<1>7. ASSUME NEW r \in Requests, NEW kind \in asks[r], NEW c \in 0..Convs,
             Begin(r, kind, c) \/ Recover(r) \/ Fails(r)
      PROVE  Existing \subseteq Existing'
      BY <1>1, <1>7 DEF Begin, Recover, Fails, rows
<1>8. CASE FreeDashboard
      BY <1>1, <1>8 DEF FreeDashboard, rows
<1>9. ASSUME NEW r \in Requests, Recover(r) \/ Fails(r) PROVE Existing \subseteq Existing'
      BY <1>1, <1>9 DEF Recover, Fails, rows
<1> QED BY <1>2, <1>6, <1>7, <1>8, <1>9 DEF Next

-----------------------------------------------------------------------------
(* What a request asks, and who archives *)

LEMMA KindPut ==
    ASSUME TypeOK, NEW r \in Requests, NEW f \in Frames, Becomes(r, f), f.kind = req[r].kind
    PROVE  \A s \in Requests : req'[s].kind = req[s].kind
<1>1. req'[r] = f /\ \A s \in Requests : s # r => req'[s] = req[s]
      BY BecomesEffect
<1> QED BY <1>1

LEMMA AnsweredKind ==
    ASSUME Base, NEW r \in Requests, NEW f \in Frames, Answered(r, f), f.kind = req[r].kind,
           req[r].pc \notin {"idle", "done"}
    PROVE  \A s \in Requests : req'[s].kind = req[s].kind
<1>1. TypeOK /\ Formed(r, req[r], Existing)
      BY DEF Base
<1>2. Thrown(r) \in Frames /\ Thrown(r).kind = req[r].kind
      BY <1>1, ThrownFrame
<1> QED BY <1>1, <1>2, KindPut DEF Answered

\* A rollover stays one: nobody asks anything else once a request is made.
LEMMA KindKept ==
    ASSUME Base, [Next]_vars, NEW s \in Requests, req[s].kind = "new"
    PROVE  req'[s].kind = "new"
<1>0. TypeOK /\ failures \in 0..MaxFailures
      BY DEF Base, TypeOK
<1>1. ASSUME NEW r \in Requests, NEW kind \in asks[r], NEW c \in 0..Convs, Begin(r, kind, c)
      PROVE  req'[s].kind = "new"
  <2>1. s # r
        BY <1>1 DEF Base, Formed, Fits, NoFrame, Begin, At
  <2> QED BY <1>0, <1>1, <2>1 DEF Begin, Becomes, TypeOK
<1>2. ASSUME NEW r \in Requests, Progress(r) \/ Recover(r) \/ Fails(r)
      PROVE  req'[s].kind = "new"
  <2>0. Formed(r, req[r], Existing) /\ req[r] \in Frames
        BY DEF Base, TypeOK
  <2>1. \A o \in Outcomes : Ends(r, o) \in Frames /\ Ends(r, o).kind = req[r].kind
        BY <1>0, <2>0, EndsFrame
  <2>2. \A pc \in Steps : Goes(r, pc) \in Frames /\ Goes(r, pc).kind = req[r].kind
        BY <1>0, GoesFrame
  <2>3. req[r].pc \notin {"idle", "done"} => Thrown(r) \in Frames /\ Thrown(r).kind = req[r].kind
        BY <1>0, <2>0, ThrownFrame
  <2>4. req[r].pc \in {"get", "load", "save"} =>
            Compacted(r) \in Frames /\ Compacted(r).kind = req[r].kind
        BY <1>0, <2>0, CompactedFrame
  <2>5. CASE Open(r)
        BY <1>0, <2>1, <2>2, <2>5, KindPut DEF Open, Outcomes, Steps
  <2>6. CASE Enter(r)
        BY <1>0, <2>2, <2>6, KindPut DEF Enter, Steps
  <2>7. CASE Check(r)
    <3>1. AfterCheck(req[r].kind) \in Steps /\ Refusal(req[r].kind) \in Outcomes
          BY DEF AfterCheck, Refusal, Steps, Outcomes
    <3> QED BY <1>0, <2>1, <2>2, <2>7, <3>1, KindPut DEF Check
  <2>8. CASE Leave(r)
    <3>0. req[r].outcome \in Outcomes
          BY <2>0 DEF Frames, Outcomes
    <3>1. Gone(r, req[r].outcome) \in Frames /\ Gone(r, req[r].outcome).kind = req[r].kind
          BY <1>0, <3>0, GoneFrame
    <3> QED BY <1>0, <2>2, <2>8, <3>1, KindPut DEF Leave, Steps
  <2>9. CASE List(r)
    <3>1. \A c \in Active : Resolved(r, c) \in Frames /\ Resolved(r, c).kind = req[r].kind
          BY <1>0, <2>0, <2>9, ResolvedFrame DEF List, Active, Existing
    <3> QED BY <1>0, <2>2, <2>3, <2>9, <3>1, KindPut DEF List, Steps
  <2>10. CASE Insert(r)
    <3>1. CASE Active = {} /\ Room /\ Answered(r, Resolved(r, NextId))
      <4>1. NextId \in Ids /\ req[r].pc = "insert"
            BY <1>0, <2>10, <3>1, NextIsNew DEF Insert, At
      <4>2. Formed(r, req[r], Existing \cup {NextId})
            BY <2>0 DEF Formed, Refers
      <4>3. Resolved(r, NextId) \in Frames /\ Resolved(r, NextId).kind = req[r].kind
            BY <1>0, <4>1, <4>2, ResolvedFrame
      <4> QED BY <3>1, <4>1, <4>3, AnsweredKind
    <3>2. CASE Becomes(r, Thrown(r))
          BY <1>0, <2>3, <2>10, <3>2, KindPut DEF Insert, At
    <3> QED BY <2>10, <3>1, <3>2 DEF Insert
  <2>11. CASE Archive(r)
        BY <2>1, <2>11, AnsweredKind DEF Archive, At, Outcomes
  <2>12. CASE Sweep(r)
        BY <1>0, <2>2, <2>12, KindPut DEF Sweep, Steps
  <2>13. CASE Renew(r)
    <3>1. req[r].pc = "renew" /\ (Answered(r, Ends(r, "ok")) \/ Becomes(r, Thrown(r)))
          BY <2>13 DEF Renew, At
    <3> QED BY <1>0, <2>1, <2>3, <3>1, AnsweredKind, KindPut DEF Outcomes
  <2>14. CASE CountDashboards(r)
    <3>1. s # r
          BY <2>0, <2>14 DEF CountDashboards
    <3> QED BY <1>0, <2>14, <3>1 DEF CountDashboards, Becomes, TypeOK
  <2>15. CASE Place(r)
    <3>1. req[r].pc = "place" /\ (Answered(r, Ends(r, "ok")) \/ Becomes(r, Ends(r, "limit")))
          BY <2>15 DEF Place, At
    <3> QED BY <1>0, <2>1, <3>1, AnsweredKind, KindPut DEF Outcomes
  <2>16. CASE Ask(r) \/ Answer(r)
        BY <2>2, <2>16, AnsweredKind DEF Ask, Answer, Written, At, Steps
  <2>17. CASE Touch(r)
        BY <1>0, <2>1, <2>2, <2>17, KindPut DEF Touch, Outcomes, Steps
  <2>18. CASE Get(r) \/ Load(r)
    <3>1. s # r
          BY <2>0, <2>18 DEF Get, Load, At, Formed, Fits
    <3> QED BY <1>0, <2>18, <3>1 DEF Get, Load, Becomes, TypeOK
  <2>19. CASE Save(r)
        BY <2>4, <2>19, AnsweredKind DEF Save, At
  <2>20. CASE Recover(r)
    <3>1. s # r
          BY <2>20 DEF Recover
    <3> QED BY <1>0, <2>20, <3>1 DEF Recover, Becomes, TypeOK
  <2>21. CASE Fails(r)
        BY <1>0, <2>3, <2>21, KindPut DEF Fails, Calls
  <2> QED BY <1>2, <2>5, <2>6, <2>7, <2>8, <2>9, <2>10, <2>11, <2>12, <2>13, <2>14, <2>15, <2>16,
          <2>17, <2>18, <2>19, <2>20, <2>21 DEF Progress
<1> QED BY <1>1, <1>2 DEF Next, FreeDashboard, vars

\* Whoever archives a conversation is a rollover, and stays one.
LEMMA EndersKept == IInv /\ [Next]_vars => Enders'
<1> SUFFICES ASSUME IInv, [Next]_vars PROVE Enders'
    OBVIOUS
<1>0. TypeOK /\ Base
      BY DEF IInv, Base
<1>1. ASSUME \A c \in Ids : status'[c] = "archived" => status[c] = "archived", endedBy' = endedBy
      PROVE  Enders'
      BY <1>0, <1>1, KindKept DEF IInv, Enders
<1>2. ASSUME NEW r \in Requests, Renew(r) PROVE Enders'
  <2>1. req[r].kind = "new"
        BY <1>0, <1>2 DEF Base, Formed, Fits, Renew, At
  <2>2. req'[r].kind = "new"
        BY <1>0, <2>1, KindKept
  <2>3. CASE status' = status /\ endedBy' = endedBy
        BY <1>1, <2>3
  <2>4. CASE /\ status' = [c \in Ids |-> IF c \in swept THEN "archived"
                                         ELSE IF c = NextId THEN "active" ELSE status[c]]
             /\ endedBy' = [c \in Ids |-> IF c \in swept THEN r ELSE endedBy[c]]
        BY <1>0, <2>2, <2>4, KindKept DEF IInv, Enders
  <2> QED BY <1>2, <2>3, <2>4 DEF Renew
<1>3. ASSUME NEW r \in Requests, Insert(r) PROVE Enders'
      BY <1>0, <1>1, <1>3 DEF Insert, TypeOK
<1>4. ASSUME NEW r \in Requests, Archive(r) PROVE Enders'
  <2>1. status[req[r].conv] = "archived"
        BY <1>4 DEF Archive, At, IInv, Threads
  <2> QED BY <1>0, <1>1, <1>4, <2>1 DEF Archive, TypeOK
<1>5. ASSUME NEW r \in Requests, Progress(r) PROVE Enders'
      BY <1>1, <1>2, <1>3, <1>4, <1>5
      DEF Progress, Open, Enter, Check, Leave, List, Sweep, CountDashboards, Place, Ask, Answer,
          Written, Touch, Get, Load, Save, rows
<1>6. ASSUME NEW r \in Requests, NEW kind \in asks[r], NEW c \in 0..Convs, Begin(r, kind, c)
      PROVE  Enders'
      BY <1>1, <1>6 DEF Begin, rows
<1>7. ASSUME NEW r \in Requests, Recover(r) \/ Fails(r) PROVE Enders'
      BY <1>1, <1>7 DEF Recover, Fails, rows
<1>8. CASE FreeDashboard \/ UNCHANGED vars
      BY <1>1, <1>8 DEF FreeDashboard, vars, rows
<1> QED BY <1>5, <1>6, <1>7, <1>8 DEF Next

-----------------------------------------------------------------------------
(* What a step has to show for the rest of the invariant *)

Others(r) == \A s \in Requests : s # r => req'[s] = req[s]

\* What a compaction remembers fits the messages there are.
Remembered(f, msgs) ==
    f.pc \in {"load", "save"} =>
        /\ f.summary = [i \in 1..f.marker |-> i]
        /\ f.marker <= Older(msgs[f.conv])
        /\ f.pc = "save" => f.seen <= msgs[f.conv] /\ f.marker <= Older(f.seen)

\* The obligations of the request that has moved.
Settles(r) ==
    /\ Inside(r)' => \/ Inside(r) /\ req'[r].conv = req[r].conv
                     \/ status'[req'[r].conv] = "active"
    /\ Remembered(req'[r], messages')
    /\ req'[r].pc = "place" /\ req'[r].seen < Cap => dashboards' <= req'[r].seen
    /\ req'[r].outcome = "error" /\ failures' = 0 =>
          req'[r].kind = "turn" /\ status'[req'[r].conv] = "archived"
    /\ req'[r].pc = "relist" /\ failures' = 0 => Active' # {}

LEMMA OlderGrows == \A m, n \in Nat : m <= n => Older(m) <= Older(n)
BY ConversationsAssumption DEF Older

\* Who works on a row, works on one there is.
LEMMA InsideConv ==
    ASSUME Base, NEW r \in Requests
    PROVE  /\ Inside(r) => req[r].conv \in Ids
           /\ req[r].pc \in {"load", "save"} => req[r].conv \in Ids
BY DEF Base, Inside, Formed, Fits, Refers, Working, Holds, InTurn, TurnKinds, Existing

\* The rest of the invariant but for the rows, when nothing is archived, no
\* message is lost and no dashboard is added.
LEMMA RestKept ==
    ASSUME IInv, Base', Enders', NEW r \in Requests, Others(r), Settles(r),
           \A s \in Requests : s # r => (InTurn(s)' => InTurn(s)),
           endedBy' = endedBy,
           \A c \in Ids : status[c] \in {"active", "archived"} => status'[c] = status[c],
           \A c \in Ids : messages[c] <= messages'[c],
           dashboards' <= dashboards, failures <= failures'
    PROVE  /\ TurnLockHolds' /\ Remembers' /\ DashboardCapHolds' /\ Counted'
           /\ LateMessages' /\ Relisted'
<1>1. TurnLockHolds'
  <2> SUFFICES ASSUME NEW s \in Requests, Inside(s)'
               PROVE  LET c == req'[s].conv
                      IN  status'[c] = "active" \/ (endedBy'[c] # None /\ home[endedBy'[c]] # home[s])
      BY DEF TurnLockHolds
  <2>1. CASE s # r
    <3>1. req'[s] = req[s] /\ Inside(s)
          BY <2>1 DEF Others, Inside
    <3>2. req[s].conv \in Ids
          BY <3>1, InsideConv DEF IInv
    <3> QED BY <3>1, <3>2 DEF IInv, TurnLockHolds
  <2>2. CASE s = r /\ Inside(r) /\ req'[r].conv = req[r].conv
    <3>1. req[r].conv \in Ids
          BY <2>2, InsideConv DEF IInv
    <3> QED BY <2>2, <3>1 DEF IInv, TurnLockHolds
  <2> QED BY <2>1, <2>2 DEF Settles
<1>2. Remembers'
  <2> SUFFICES ASSUME NEW s \in Requests PROVE Remembered(req'[s], messages')
      BY DEF Remembers, Remembered
  <2>1. CASE s # r /\ req[s].pc \in {"load", "save"}
    <3>1. req'[s] = req[s] /\ req[s].conv \in Ids
          BY <2>1, InsideConv DEF Others, IInv
    <3>2. /\ messages[req[s].conv] \in Nat /\ messages'[req[s].conv] \in Nat
          /\ messages[req[s].conv] <= messages'[req[s].conv]
          BY <3>1 DEF IInv, Base, TypeOK
    <3>3. req[s].marker \in Nat /\ req[s].seen \in Nat
          BY DEF IInv, Base, TypeOK, Frames
    <3>4. Remembered(req[s], messages)
          BY DEF IInv, Remembers, Remembered
    <3>5. /\ Older(messages[req[s].conv]) <= Older(messages'[req[s].conv])
          /\ Older(messages[req[s].conv]) \in Nat /\ Older(messages'[req[s].conv]) \in Nat
          BY <3>2, OlderGrows, OlderIsNat
    <3> QED BY <2>1, <3>1, <3>2, <3>3, <3>4, <3>5 DEF Remembered
  <2>2. CASE s # r /\ req[s].pc \notin {"load", "save"}
        BY <2>2 DEF Others, Remembered
  <2> QED BY <2>1, <2>2 DEF Settles
<1>3. DashboardCapHolds'
      BY ConversationsAssumption DEF DashboardCapHolds, IInv, Base, TypeOK
<1>4. Counted'
  <2> SUFFICES ASSUME NEW s \in Requests, req'[s].pc = "place", req'[s].seen < Cap
               PROVE  dashboards' <= req'[s].seen
      BY DEF Counted
  <2>1. CASE s # r
    <3>1. req'[s] = req[s] /\ req[s].seen \in Nat
          BY <2>1 DEF Others, IInv, Base, TypeOK, Frames
    <3> QED BY <3>1 DEF IInv, Counted, Base, TypeOK
  <2> QED BY <2>1 DEF Settles
<1>5. LateMessages'
  <2> SUFFICES ASSUME NEW s \in Requests, req'[s].outcome = "error", failures' = 0
               PROVE  req'[s].kind = "turn" /\ status'[req'[s].conv] = "archived"
      BY DEF LateMessages
  <2>1. CASE s # r
    <3>1. req'[s] = req[s] /\ failures = 0
          BY <2>1, ConversationsAssumption DEF Others, IInv, Base, TypeOK
    <3>2. req[s].kind = "turn" /\ status[req[s].conv] = "archived"
          BY <3>1 DEF IInv, LateMessages
    <3>3. req[s].conv \in Ids
          BY <3>2 DEF IInv, Base, Formed, Refers, Working, Existing
    <3> QED BY <3>1, <3>2, <3>3
  <2> QED BY <2>1 DEF Settles
<1>6. Relisted'
  <2> SUFFICES ASSUME NEW s \in Requests, req'[s].pc = "relist", failures' = 0 PROVE Active' # {}
      BY DEF Relisted
  <2>1. CASE s # r
    <3>1. req[s].pc = "relist" /\ failures = 0
          BY <2>1, ConversationsAssumption DEF Others, IInv, Base, TypeOK
    <3>2. PICK c \in Active : TRUE
          BY <3>1 DEF IInv, Relisted
    <3> QED BY <3>2 DEF Active
  <2> QED BY <2>1 DEF Settles
<1> QED BY <1>1, <1>2, <1>3, <1>4, <1>5, <1>6

\* The rows and the transactions stay as they are.
LEMMA ThreadsKept ==
    ASSUME Threads, NEW r \in Requests, Others(r),
           status' = status, orgLock' = orgLock, swept' = swept,
           req[r].pc \notin {"renew", "place"}, req'[r].pc \notin {"renew", "place"},
           req'[r].pc = "archive" => status[req'[r].conv] = "archived"
    PROVE  Threads'
<1>1. Active' = Active /\ Existing' = Existing
      BY DEF Active, Existing
<1>2. ASSUME NEW s \in Requests
      PROVE  /\ req'[s].pc = "archive" => status[req'[s].conv] = "archived"
             /\ req'[s].pc = "renew" => orgLock = s /\ swept = Active /\ Active # {}
             /\ req'[s].pc = "place" => orgLock = s /\ swept = {}
             /\ orgLock = s => req'[s].pc \in {"renew", "place"}
  <2>1. CASE s # r
        BY <2>1 DEF Threads, Others
  <2>2. CASE s = r
        BY <2>2 DEF Threads
  <2> QED BY <2>1, <2>2
<1> QED BY <1>1, <1>2 DEF Threads

\* Summaries stay, messages are only added.
LEMMA SummariesKept ==
    ASSUME TypeOK, SummaryExact, marker' = marker, summary' = summary, messages' \in [Ids -> Nat],
           \A c \in Ids : messages[c] <= messages'[c]
    PROVE  SummaryExact'
<1> SUFFICES ASSUME NEW c \in Ids PROVE marker[c] <= Older(messages'[c])
    BY DEF SummaryExact
<1>1. messages[c] \in Nat /\ messages'[c] \in Nat /\ messages[c] <= messages'[c] /\ marker[c] \in Nat
      BY DEF TypeOK
<1>2. /\ Older(messages[c]) <= Older(messages'[c])
      /\ Older(messages[c]) \in Nat /\ Older(messages'[c]) \in Nat
      BY <1>1, OlderGrows, OlderIsNat
<1>3. marker[c] <= Older(messages[c])
      BY DEF SummaryExact
<1> QED BY <1>1, <1>2, <1>3

\* A step that only moves its request, or takes or leaves the turn lock.
LEMMA QuietKept ==
    ASSUME IInv, Base', Enders', NEW r \in Requests, Others(r), Settles(r),
           \A s \in Requests : s # r => (InTurn(s)' => InTurn(s)),
           UNCHANGED <<rows, tx, dashboards, endedBy>>, failures <= failures',
           req[r].pc \notin {"renew", "place"}, req'[r].pc \notin {"renew", "place"},
           req'[r].pc = "archive" => status[req'[r].conv] = "archived"
    PROVE  IInv'
<1>1. \A c \in Ids : messages[c] <= messages'[c]
      BY DEF IInv, Base, TypeOK, rows
<1>2. messages' \in [Ids -> Nat] /\ dashboards' <= dashboards
      BY DEF IInv, Base, TypeOK, rows
<1>3. status' = status /\ marker' = marker /\ summary' = summary /\ orgLock' = orgLock /\ swept' = swept
      BY DEF rows, tx
<1>4. Threads'
      BY <1>3, ThreadsKept DEF IInv
<1>5. SummaryExact'
      BY <1>1, <1>2, <1>3, SummariesKept DEF IInv, Base
<1>6. /\ TurnLockHolds' /\ Remembers' /\ DashboardCapHolds' /\ Counted'
      /\ LateMessages' /\ Relisted'
      BY <1>1, <1>2, <1>3, RestKept
<1> QED BY <1>4, <1>5, <1>6 DEF IInv

\* A handler that ends owes nothing but the reason.
LEMMA EndSettles ==
    ASSUME NEW r \in Requests, req'[r].pc \in {"leave", "done", "insert", "wait", "list", "check", "open", "archive"},
           req'[r].outcome = "error" => failures' > 0
    PROVE  Settles(r)
BY DEF Settles, Inside, Remembered

\* A compaction that is over, in mid-turn or not.
LEMMA CompactedSettles ==
    ASSUME IInv, NEW r \in Requests, Becomes(r, Compacted(r)), req[r].pc \in {"get", "load", "save"},
           failures <= failures', failures' \in Nat
    PROVE  Settles(r) /\ Others(r) /\ req'[r].pc \in {"leave", "done", "answer"}
<1>0. TypeOK /\ Formed(r, req[r], Existing) /\ req[r] \in Frames /\ failures \in 0..MaxFailures
      BY DEF IInv, Base, TypeOK
<1>1. /\ Compacted(r) \in Frames
      /\ Compacted(r).pc \in {"leave", "done", "answer"}
      /\ Compacted(r).pc = "answer" => InTurn(r) /\ Compacted(r).conv = req[r].conv
      /\ Compacted(r).outcome \in {"ok", req[r].outcome}
      BY <1>0, CompactedFrame
<1>2. req'[r] = Compacted(r) /\ Others(r)
      BY <1>0, <1>1, BecomesEffect DEF Others
<1>3. req'[r].outcome # "error"
      BY <1>0, <1>1, <1>2 DEF Formed, Fits
<1>4. req'[r].pc = "answer" => Inside(r) /\ req'[r].conv = req[r].conv
      BY <1>1, <1>2 DEF Inside
<1> QED BY <1>1, <1>2, <1>3, <1>4 DEF Settles, Remembered, Inside

\* An exception.
LEMMA ThrownSettles ==
    ASSUME IInv, NEW r \in Requests, Becomes(r, Thrown(r)), req[r].pc \notin {"idle", "done"},
           failures' > 0
    PROVE  Settles(r) /\ Others(r) /\ req'[r].pc \in {"leave", "done", "answer", "relist"}
<1>0. TypeOK /\ Formed(r, req[r], Existing) /\ req[r] \in Frames /\ failures \in 0..MaxFailures
      BY DEF IInv, Base, TypeOK
<1>1. /\ Thrown(r) \in Frames
      /\ Thrown(r).pc \in {"leave", "done", "answer", "relist"}
      /\ Thrown(r).pc = "answer" => /\ InTurn(r) /\ Thrown(r).conv = req[r].conv
                                    /\ req[r].pc \in {"get", "load", "save"}
      BY <1>0, ThrownFrame
<1>2. req'[r] = Thrown(r) /\ Others(r)
      BY <1>0, <1>1, BecomesEffect DEF Others
<1>3. req'[r].pc = "answer" => Inside(r) /\ req'[r].conv = req[r].conv
      BY <1>1, <1>2 DEF Inside
<1> QED BY <1>1, <1>2, <1>3 DEF Settles, Remembered, Inside

\* The answer of a call arrives, or is lost.
LEMMA AnsweredSettles ==
    ASSUME IInv, NEW r \in Requests, NEW f \in Frames, Answered(r, f), req[r].pc \notin {"idle", "done"},
           Becomes(r, f) /\ req'[r] = f /\ failures' = failures => Settles(r)
    PROVE  /\ Settles(r) /\ Others(r) /\ failures <= failures'
           /\ req'[r].pc \in {f.pc, "leave", "done", "answer", "relist"}
           /\ req'[r].pc = "archive" => req'[r] = f
<1>0. TypeOK /\ Formed(r, req[r], Existing) /\ req[r] \in Frames /\ failures \in 0..MaxFailures
      BY DEF IInv, Base, TypeOK
<1>1. CASE Becomes(r, f) /\ UNCHANGED failures
  <2>1. req'[r] = f /\ Others(r)
        BY <1>0, <1>1, BecomesEffect DEF Others
  <2> QED BY <1>0, <1>1, <2>1, ConversationsAssumption
<1>2. CASE failures' = failures + 1 /\ Becomes(r, Thrown(r))
  <2>1. failures' > 0 /\ failures <= failures'
        BY <1>0, <1>2, ConversationsAssumption
  <2> QED BY <1>2, <2>1, ThrownSettles
<1> QED BY <1>1, <1>2 DEF Answered

-----------------------------------------------------------------------------
(* The rest of the invariant, step by step *)

LEMMA BeginKeeps ==
    ASSUME IInv, Base', Enders', NEW r \in Requests, NEW kind \in Kinds, NEW c \in 0..Convs, Begin(r, kind, c)
    PROVE  IInv'
<1>0. TypeOK /\ Formed(r, req[r], Existing) /\ req[r] \in Frames /\ failures \in 0..MaxFailures
      BY DEF IInv, Base, TypeOK
<1> DEFINE f == [req[r] EXCEPT !.kind = kind, !.conv = c, !.pc = FirstStep(kind)]
<1>1. ~InTurn(r) /\ req[r] = NoFrame
      BY <1>0 DEF Begin, At, Formed, Fits, Holds
<1>2. FirstStep(kind) \in Steps /\ FirstStep(kind) \in {"open", "wait", "list", "orgLock"}
      BY DEF FirstStep, Kinds, TurnKinds, Steps
<1>3. f \in Frames /\ f.pc = FirstStep(kind) /\ f.outcome = req[r].outcome
      BY <1>0, <1>2 DEF Frames
<1>4. req[r].outcome = "none"
      BY <1>1 DEF NoFrame
<1>5. Becomes(r, f)
      BY DEF Begin
<1> HIDE DEF f
<1>6. req'[r] = f /\ Others(r)
      BY <1>0, <1>3, <1>5, BecomesEffect DEF Others
<1>7. turn' = turn /\ failures' = failures
      BY DEF Begin
<1>8. Settles(r)
      BY <1>1, <1>2, <1>3, <1>4, <1>6, <1>7 DEF Settles, Inside, InTurn, Remembered
<1>9. \A s \in Requests : InTurn(s)' => InTurn(s)
      BY <1>7 DEF InTurn
<1>10. req[r].pc = "idle" /\ UNCHANGED <<rows, tx, dashboards, endedBy>>
      BY DEF Begin, At
<1> QED BY <1>0, <1>2, <1>3, <1>6, <1>7, <1>8, <1>9, <1>10, QuietKept, ConversationsAssumption

LEMMA OpenKeeps == ASSUME IInv, Base', Enders', NEW r \in Requests, Open(r) PROVE IInv'
<1>0. TypeOK /\ Formed(r, req[r], Existing) /\ req[r] \in Frames /\ failures \in 0..MaxFailures
      BY DEF IInv, Base, TypeOK
<1>1. /\ req[r].pc = "open" /\ turn' = turn /\ failures' = failures
      /\ UNCHANGED <<rows, tx, dashboards, endedBy>>
      BY DEF Open, At
<1>2. req[r].outcome # "error"
      BY <1>0, <1>1 DEF Formed, Fits
<1>3. PICK f \in Frames : /\ Becomes(r, f) /\ f.pc \in {"wait", "leave", "done"}
                          /\ f.outcome \in {"stale", req[r].outcome}
  <2>1. /\ Ends(r, "stale") \in Frames /\ Ends(r, "stale").pc \in {"leave", "done"}
        /\ Ends(r, "stale").outcome = "stale"
        BY <1>0, EndsFrame DEF Outcomes
  <2>2. Goes(r, "wait") \in Frames /\ Goes(r, "wait").pc = "wait" /\ Goes(r, "wait").outcome = req[r].outcome
        BY <1>0, GoesFrame DEF Steps
  <2> QED BY <2>1, <2>2 DEF Open
<1>4. req'[r] = f /\ Others(r)
      BY <1>0, <1>3, BecomesEffect DEF Others
<1>5. Settles(r)
      BY <1>1, <1>2, <1>3, <1>4, EndSettles
<1>6. \A s \in Requests : InTurn(s)' => InTurn(s)
      BY <1>1 DEF InTurn
<1> QED BY <1>0, <1>1, <1>3, <1>4, <1>5, <1>6, QuietKept, ConversationsAssumption

LEMMA EnterKeeps == ASSUME IInv, Base', Enders', NEW r \in Requests, Enter(r) PROVE IInv'
<1>0. TypeOK /\ Formed(r, req[r], Existing) /\ req[r] \in Frames /\ failures \in 0..MaxFailures
      BY DEF IInv, Base, TypeOK
<1>1. /\ req[r].pc = "wait" /\ turn' = [turn EXCEPT ![home[r]] = r] /\ failures' = failures
      /\ UNCHANGED <<rows, tx, dashboards, endedBy>>
      BY DEF Enter, At
<1>2. req[r].outcome # "error"
      BY <1>0, <1>1 DEF Formed, Fits
<1>3. PICK pc \in {"list", "check"} : Becomes(r, Goes(r, pc))
      BY DEF Enter
<1>4. Goes(r, pc) \in Frames /\ Goes(r, pc).pc = pc /\ Goes(r, pc).outcome = req[r].outcome
      BY <1>0, GoesFrame DEF Steps
<1>5. req'[r] = Goes(r, pc) /\ Others(r)
      BY <1>0, <1>3, <1>4, BecomesEffect DEF Others
<1>6. Settles(r)
      BY <1>1, <1>2, <1>4, <1>5, EndSettles
<1>7. \A s \in Requests : s # r => (InTurn(s)' => InTurn(s))
      BY <1>0, <1>1, ConversationsAssumption DEF InTurn, TypeOK
<1> QED BY <1>0, <1>1, <1>4, <1>5, <1>6, <1>7, QuietKept, ConversationsAssumption

LEMMA CheckKeeps == ASSUME IInv, Base', Enders', NEW r \in Requests, Check(r) PROVE IInv'
<1>0. TypeOK /\ Formed(r, req[r], Existing) /\ req[r] \in Frames /\ failures \in 0..MaxFailures
      BY DEF IInv, Base, TypeOK
<1>1. /\ req[r].pc = "check" /\ turn' = turn /\ failures' = failures /\ status' = status
      /\ UNCHANGED <<rows, tx, dashboards, endedBy>>
      BY DEF Check, At, rows
<1>2. req[r].outcome # "error" /\ req[r].conv \in Existing
      BY <1>0, <1>1 DEF Formed, Fits, Refers, Working
<1>3. PICK f \in Frames : /\ Becomes(r, f)
                          /\ \/ /\ f.pc \in {"leave", "done"}
                                /\ f.outcome = "error" => f.kind = "turn" /\ status[f.conv] = "archived"
                             \/ /\ f.pc \in {"ask", "orgLock", "get"}
                                /\ status[f.conv] = "active"
                                /\ f.outcome # "error"
  <2>1. /\ Ends(r, Refusal(req[r].kind)) \in Frames
        /\ Ends(r, Refusal(req[r].kind)).pc \in {"leave", "done"}
        /\ Ends(r, Refusal(req[r].kind)).outcome = Refusal(req[r].kind)
        /\ Ends(r, Refusal(req[r].kind)).kind = req[r].kind
        /\ Ends(r, Refusal(req[r].kind)).conv = req[r].conv
        BY <1>0, EndsFrame DEF Outcomes, Refusal
  <2>2. AfterCheck(req[r].kind) \in Steps /\ AfterCheck(req[r].kind) \in {"ask", "orgLock", "get"}
        BY DEF AfterCheck, Steps
  <2>3. /\ Goes(r, AfterCheck(req[r].kind)) \in Frames
        /\ Goes(r, AfterCheck(req[r].kind)).pc = AfterCheck(req[r].kind)
        /\ Goes(r, AfterCheck(req[r].kind)).conv = req[r].conv
        /\ Goes(r, AfterCheck(req[r].kind)).outcome = req[r].outcome
        BY <1>0, <2>2, GoesFrame
  <2>4. CASE status[req[r].conv] = "active" /\ Becomes(r, Goes(r, AfterCheck(req[r].kind)))
        BY <1>2, <2>2, <2>3, <2>4
  <2>5. CASE status[req[r].conv] # "active" /\ Becomes(r, Ends(r, Refusal(req[r].kind)))
    <3>1. status[req[r].conv] = "archived"
          BY <1>0, <1>2, <2>5 DEF TypeOK, Existing
    <3>2. Refusal(req[r].kind) = "error" => req[r].kind = "turn"
          BY DEF Refusal
    <3> QED BY <2>1, <2>5, <3>1, <3>2
  <2> QED BY <2>4, <2>5 DEF Check
<1>4. req'[r] = f /\ Others(r)
      BY <1>0, <1>3, BecomesEffect DEF Others
<1>5. Settles(r)
      BY <1>1, <1>3, <1>4 DEF Settles, Inside, Remembered
<1>6. \A s \in Requests : InTurn(s)' => InTurn(s)
      BY <1>1 DEF InTurn
<1> QED BY <1>0, <1>1, <1>3, <1>4, <1>5, <1>6, QuietKept, ConversationsAssumption

LEMMA LeaveKeeps == ASSUME IInv, Base', Enders', NEW r \in Requests, Leave(r) PROVE IInv'
<1>0. TypeOK /\ Formed(r, req[r], Existing) /\ req[r] \in Frames /\ failures \in 0..MaxFailures
      BY DEF IInv, Base, TypeOK
<1>1. /\ req[r].pc = "leave" /\ turn' = [turn EXCEPT ![home[r]] = None] /\ failures' = failures
      /\ status' = status /\ UNCHANGED <<rows, tx, dashboards, endedBy>>
      BY DEF Leave, At, rows
<1>2. PICK f \in Frames : /\ Becomes(r, f) /\ f.pc \in {"done", "get"} /\ f.outcome = req[r].outcome
                          /\ f.kind = req[r].kind /\ f.conv = req[r].conv
  <2>1. req[r].outcome \in Outcomes
        BY <1>0 DEF Frames, Outcomes
  <2>2. /\ Gone(r, req[r].outcome) \in Frames /\ Gone(r, req[r].outcome).pc = "done"
        /\ Gone(r, req[r].outcome).outcome = req[r].outcome
        /\ Gone(r, req[r].outcome).kind = req[r].kind
        /\ Gone(r, req[r].outcome).conv = req[r].conv
        BY <1>0, <2>1, GoneFrame
  <2>3. /\ Goes(r, "get") \in Frames /\ Goes(r, "get").pc = "get"
        /\ Goes(r, "get").outcome = req[r].outcome
        /\ Goes(r, "get").kind = req[r].kind /\ Goes(r, "get").conv = req[r].conv
        BY <1>0, GoesFrame DEF Steps
  <2> QED BY <2>2, <2>3 DEF Leave
<1>3. req'[r] = f /\ Others(r)
      BY <1>0, <1>2, BecomesEffect DEF Others
<1>4. ~InTurn(r)' /\ \A s \in Requests : s # r => (InTurn(s)' => InTurn(s))
      BY <1>0, <1>1, ConversationsAssumption DEF InTurn, TypeOK
<1>5. f.outcome = "error" /\ failures' = 0 => f.kind = "turn" /\ status'[f.conv] = "archived"
      BY <1>1, <1>2 DEF IInv, LateMessages
<1>6. Settles(r)
      BY <1>2, <1>3, <1>4, <1>5 DEF Settles, Inside, Remembered
<1> QED BY <1>0, <1>1, <1>2, <1>3, <1>4, <1>6, QuietKept, ConversationsAssumption

LEMMA ListKeeps == ASSUME IInv, Base', Enders', NEW r \in Requests, List(r) PROVE IInv'
<1>0. TypeOK /\ Formed(r, req[r], Existing) /\ req[r] \in Frames /\ failures \in 0..MaxFailures
      BY DEF IInv, Base, TypeOK
<1>1. /\ req[r].pc \in {"list", "relist"} /\ turn' = turn /\ failures' = failures /\ status' = status
      /\ UNCHANGED <<rows, tx, dashboards, endedBy>>
      BY DEF List, rows
<1>2. req[r].outcome # "error"
      BY <1>0, <1>1 DEF Formed, Fits
<1>3. \A s \in Requests : InTurn(s)' => InTurn(s)
      BY <1>1 DEF InTurn
<1>4. CASE \E c \in Active : Becomes(r, Resolved(r, c))
  <2>1. PICK c \in Active : Becomes(r, Resolved(r, c))
        BY <1>4
  <2>2. c \in Ids /\ c \in Existing /\ status[c] = "active"
        BY DEF Active, Existing
  <2>3. /\ Resolved(r, c) \in Frames
        /\ Resolved(r, c).pc \in {"ask", "answer", "archive", "leave", "done"}
        /\ Resolved(r, c).pc = "ask" => Resolved(r, c).conv = c
        /\ Resolved(r, c).pc = "answer" => ~InTurn(r)
        /\ Resolved(r, c).pc = "archive" => /\ req[r].conv # c /\ Resolved(r, c).conv = req[r].conv
                                            /\ req[r].kind = "archive"
        /\ Resolved(r, c).outcome \in {"ok", "stale", req[r].outcome}
        BY <1>0, <1>1, <2>2, ResolvedFrame
  <2>4. req'[r] = Resolved(r, c) /\ Others(r)
        BY <1>0, <2>1, <2>3, BecomesEffect DEF Others
  <2>5. Settles(r)
        BY <1>1, <1>2, <1>3, <2>2, <2>3, <2>4 DEF Settles, Inside, Remembered
  <2>6. req'[r].pc = "archive" => status[req'[r].conv] = "archived"
    <3> SUFFICES ASSUME req'[r].pc = "archive" PROVE status[req[r].conv] = "archived"
        BY <2>3, <2>4
    <3>1. req[r].conv \in Existing /\ req[r].conv # c
          BY <1>0, <1>1, <2>3, <2>4 DEF Formed, Refers, Working
    <3>2. status[req[r].conv] # "active"
          BY <3>1, <2>2 DEF IInv, Threads, Active, Existing
    <3> QED BY <1>0, <3>1, <3>2 DEF TypeOK, Existing
  <2> QED BY <1>0, <1>1, <1>3, <2>3, <2>4, <2>5, <2>6, QuietKept, ConversationsAssumption
<1>5. CASE Active = {} /\ At(r, "list") /\ Becomes(r, Goes(r, "insert"))
  <2>1. Goes(r, "insert") \in Frames /\ Goes(r, "insert").pc = "insert" /\ Goes(r, "insert").outcome = req[r].outcome
        BY <1>0, GoesFrame DEF Steps
  <2>2. req'[r] = Goes(r, "insert") /\ Others(r)
        BY <1>0, <1>5, <2>1, BecomesEffect DEF Others
  <2>3. Settles(r)
        BY <1>1, <1>2, <2>1, <2>2, EndSettles
  <2> QED BY <1>0, <1>1, <1>3, <2>1, <2>2, <2>3, QuietKept, ConversationsAssumption
<1>6. CASE Active = {} /\ ~At(r, "list") /\ Becomes(r, Thrown(r))
  <2>1. failures' > 0
        BY <1>0, <1>1, <1>6, ConversationsAssumption DEF At, IInv, Relisted
  <2>2. Settles(r) /\ Others(r) /\ req'[r].pc \in {"leave", "done", "answer", "relist"}
        BY <1>1, <1>6, <2>1, ThrownSettles
  <2> QED BY <1>0, <1>1, <1>3, <2>2, QuietKept, ConversationsAssumption
<1> QED BY <1>4, <1>5, <1>6 DEF List

LEMMA InsertKeeps == ASSUME IInv, Base', Enders', NEW r \in Requests, Insert(r) PROVE IInv'
<1>0. TypeOK /\ Formed(r, req[r], Existing) /\ req[r] \in Frames /\ failures \in 0..MaxFailures
      BY DEF IInv, Base, TypeOK
<1>1. /\ req[r].pc = "insert" /\ turn' = turn /\ swept = {} /\ messages' = messages
      /\ marker' = marker /\ summary' = summary /\ swept' = swept /\ orgLock' = orgLock
      /\ dashboards' = dashboards /\ endedBy' = endedBy
      BY DEF Insert, At, tx
<1>2. req[r].outcome # "error"
      BY <1>0, <1>1 DEF Formed, Fits
<1>3. \A s \in Requests : InTurn(s)' => InTurn(s)
      BY <1>1 DEF InTurn
<1>4. CASE /\ Active = {} /\ Room
           /\ status' = [status EXCEPT ![NextId] = "active"]
           /\ Answered(r, Resolved(r, NextId))
  <2>1. NextId \in Ids /\ Existing = {}
        BY <1>0, <1>4, NextIsNew DEF IInv, Threads
  <2>2. Active' = {NextId} /\ status'[NextId] = "active"
        BY <1>0, <1>4, <2>1 DEF TypeOK, Active
  <2>3. NextId \in Existing' /\ Existing \subseteq Existing'
        BY <2>1, <2>2 DEF Active, Existing
  <2>4. /\ Resolved(r, NextId) \in Frames
        /\ Resolved(r, NextId).pc \in {"ask", "answer", "archive", "leave", "done"}
        /\ Resolved(r, NextId).pc = "ask" => Resolved(r, NextId).conv = NextId
        /\ Resolved(r, NextId).pc = "answer" => ~InTurn(r)
        /\ Resolved(r, NextId).pc = "archive" => req[r].kind = "archive"
        /\ Resolved(r, NextId).outcome \in {"ok", "stale", req[r].outcome}
    <3>1. Formed(r, req[r], Existing')
          BY <1>0, <2>3 DEF Formed, Refers
    <3> QED BY <1>0, <1>1, <2>1, <2>3, <3>1, ResolvedFrame
  <2>5. req[r].kind # "archive"
        BY <1>0, <1>1, <2>1 DEF Formed, Refers, Working
  <2>6. ASSUME Becomes(r, Resolved(r, NextId)), req'[r] = Resolved(r, NextId), failures' = failures
        PROVE  Settles(r)
        BY <1>2, <1>3, <2>2, <2>4, <2>5, <2>6 DEF Settles, Inside, Remembered
  <2>7. /\ Settles(r) /\ Others(r) /\ failures <= failures'
        /\ req'[r].pc \in {"ask", "leave", "done", "answer", "relist"}
    <3>1. req[r].pc \notin {"idle", "done"}
          BY <1>1
    <3>2. /\ Settles(r) /\ Others(r) /\ failures <= failures'
          /\ req'[r].pc \in {Resolved(r, NextId).pc, "leave", "done", "answer", "relist"}
          BY <1>4, <2>4, <2>6, <3>1, AnsweredSettles
    <3> QED BY <2>4, <2>5, <3>2
  <2>8. \A c \in Ids : status[c] \in {"active", "archived"} => status'[c] = status[c]
        BY <1>0, <1>4, <2>1 DEF TypeOK, Existing
  <2>9. \A c \in Ids : messages[c] <= messages'[c]
        BY <1>0, <1>1 DEF TypeOK
  <2>10. /\ TurnLockHolds' /\ Remembers' /\ DashboardCapHolds' /\ Counted'
         /\ LateMessages' /\ Relisted'
        BY <1>0, <1>1, <1>3, <2>7, <2>8, <2>9, RestKept DEF TypeOK
  <2>11. Threads'
    <3>1. ASSUME NEW s \in Requests
          PROVE  /\ req'[s].pc # "archive" /\ req'[s].pc # "renew"
                 /\ req'[s].pc = "place" => orgLock = s
                 /\ orgLock = s => req'[s].pc = "place"
      <4>1. CASE s = r
            BY <1>1, <2>7, <4>1 DEF IInv, Threads
      <4>2. CASE s # r
        <5>1. req'[s] = req[s]
              BY <2>7, <4>2 DEF Others
        <5>2. req[s].pc # "archive"
              BY <2>1 DEF IInv, Base, Formed, Fits, Refers, Working
        <5> QED BY <1>1, <1>4, <5>1, <5>2 DEF IInv, Threads
      <4> QED BY <4>1, <4>2
    <3> QED BY <1>1, <2>2, <3>1 DEF Threads
  <2>12. SummaryExact'
        BY <1>1, <2>9, SummariesKept DEF IInv, Base, TypeOK
  <2> QED BY <2>10, <2>11, <2>12 DEF IInv
<1>5. CASE Active # {} /\ Becomes(r, Thrown(r)) /\ UNCHANGED <<status, failures>>
  <2>1. Thrown(r) = Goes(r, "relist")
        BY <1>1 DEF Thrown
  <2>2. Goes(r, "relist") \in Frames /\ Goes(r, "relist").pc = "relist" /\ Goes(r, "relist").outcome = req[r].outcome
        BY <1>0, GoesFrame DEF Steps
  <2>3. req'[r] = Goes(r, "relist") /\ Others(r)
        BY <1>0, <1>5, <2>1, <2>2, BecomesEffect DEF Others
  <2>4. Active' # {}
        BY <1>5 DEF Active
  <2>5. Settles(r)
        BY <1>2, <1>5, <2>2, <2>3, <2>4 DEF Settles, Inside, Remembered
  <2>6. UNCHANGED <<rows, tx, dashboards, endedBy>>
        BY <1>1, <1>5 DEF rows, tx
  <2> QED BY <1>0, <1>1, <1>3, <1>5, <2>2, <2>3, <2>5, <2>6, QuietKept, ConversationsAssumption
<1> QED BY <1>4, <1>5 DEF Insert

\* What the archive route archives is not active any more.
LEMMA ArchiveKeeps == ASSUME IInv, Base', Enders', NEW r \in Requests, Archive(r) PROVE IInv'
<1>0. TypeOK /\ Formed(r, req[r], Existing) /\ req[r] \in Frames /\ failures \in 0..MaxFailures
      BY DEF IInv, Base, TypeOK
<1>1. req[r].pc = "archive" /\ turn' = turn
      BY DEF Archive, At
<1>2. status[req[r].conv] = "archived"
      BY <1>1 DEF IInv, Threads
<1>3. status' = status /\ endedBy' = endedBy
      BY <1>0, <1>2 DEF Archive, TypeOK
<1>4. UNCHANGED <<rows, tx, dashboards, endedBy>>
      BY <1>3 DEF Archive, rows
<1>5. /\ Ends(r, "ok") \in Frames /\ Ends(r, "ok").pc \in {"leave", "done"}
      /\ Ends(r, "ok").outcome = "ok"
      BY <1>0, EndsFrame DEF Outcomes
<1>6. /\ Settles(r) /\ Others(r) /\ failures <= failures'
      /\ req'[r].pc \in {"leave", "done", "answer", "relist"}
  <2>1. ASSUME req'[r] = Ends(r, "ok") PROVE Settles(r)
        BY <1>5, <2>1, EndSettles
  <2>2. Answered(r, Ends(r, "ok")) /\ req[r].pc \notin {"idle", "done"}
        BY <1>1 DEF Archive
  <2>3. /\ Settles(r) /\ Others(r) /\ failures <= failures'
        /\ req'[r].pc \in {Ends(r, "ok").pc, "leave", "done", "answer", "relist"}
        BY <1>5, <2>1, <2>2, AnsweredSettles
  <2> QED BY <1>5, <2>3
<1>7. \A s \in Requests : InTurn(s)' => InTurn(s)
      BY <1>1 DEF InTurn
<1> QED BY <1>1, <1>4, <1>6, <1>7, QuietKept

LEMMA RecoverKeeps == ASSUME IInv, Base', Enders', NEW r \in Requests, Recover(r) PROVE IInv'
<1>0. TypeOK /\ Formed(r, req[r], Existing) /\ req[r] \in Frames /\ failures \in 0..MaxFailures
      BY DEF IInv, Base, TypeOK
<1>1. /\ req[r].pc = "answer" /\ turn' = turn /\ failures' = failures
      /\ UNCHANGED <<rows, tx, dashboards, endedBy>>
      BY DEF Recover, At
<1>2. req[r].outcome # "error"
      BY <1>0, <1>1 DEF Formed, Fits
<1> DEFINE f == [Goes(r, "get") EXCEPT !.recovered = TRUE]
<1>3. /\ Goes(r, "get") \in Frames /\ Goes(r, "get").outcome = req[r].outcome
      /\ Goes(r, "get").pc = "get" /\ Goes(r, "get").conv = req[r].conv
      BY <1>0, GoesFrame DEF Steps
<1>4. f \in Frames
      BY <1>3, FrameUpdates
<1>5. f.pc = "get" /\ f.conv = req[r].conv /\ f.outcome = req[r].outcome
      BY <1>3 DEF Frames
<1>6. Becomes(r, f)
      BY DEF Recover
<1> HIDE DEF f
<1>7. req'[r] = f /\ Others(r)
      BY <1>0, <1>4, <1>6, BecomesEffect DEF Others
<1>8. \A s \in Requests : InTurn(s)' => InTurn(s)
      BY <1>1 DEF InTurn
<1>9. Settles(r)
      BY <1>1, <1>2, <1>5, <1>7, <1>8 DEF Settles, Inside, Remembered
<1> QED BY <1>0, <1>1, <1>5, <1>7, <1>8, <1>9, QuietKept, ConversationsAssumption

LEMMA FailsKeeps == ASSUME IInv, Base', Enders', NEW r \in Requests, Fails(r) PROVE IInv'
<1>0. TypeOK /\ Formed(r, req[r], Existing) /\ req[r] \in Frames /\ failures \in 0..MaxFailures
      BY DEF IInv, Base, TypeOK
<1>1. /\ req[r].pc \in Calls /\ turn' = turn /\ failures' = failures + 1 /\ Becomes(r, Thrown(r))
      /\ UNCHANGED <<rows, tx, dashboards, endedBy>>
      BY DEF Fails
<1>2. failures' > 0 /\ failures <= failures'
      BY <1>0, <1>1, ConversationsAssumption
<1>3. Settles(r) /\ Others(r) /\ req'[r].pc \in {"leave", "done", "answer", "relist"}
      BY <1>1, <1>2, ThrownSettles DEF Calls
<1>4. \A s \in Requests : InTurn(s)' => InTurn(s)
      BY <1>1 DEF InTurn
<1> QED BY <1>1, <1>2, <1>3, <1>4, QuietKept DEF Calls

\* Who holds the advisory lock is alone with it.
LEMMA SweepKeeps == ASSUME IInv, Base', Enders', NEW r \in Requests, Sweep(r) PROVE IInv'
<1>0. TypeOK /\ Formed(r, req[r], Existing) /\ req[r] \in Frames /\ failures \in 0..MaxFailures
      BY DEF IInv, Base, TypeOK
<1>1. /\ req[r].pc = "orgLock" /\ req[r].kind = "new" /\ orgLock = None /\ orgLock' = r
      /\ swept' = Active /\ turn' = turn /\ status' = status /\ messages' = messages /\ marker' = marker
      /\ summary' = summary /\ dashboards' = dashboards /\ endedBy' = endedBy /\ failures' = failures
      BY DEF Sweep, At, rows
<1>2. /\ Goes(r, "renew") \in Frames /\ Goes(r, "renew").pc = "renew"
      /\ Goes(r, "renew").conv = req[r].conv /\ Goes(r, "renew").outcome = req[r].outcome
      BY <1>0, GoesFrame DEF Steps
<1>3. req'[r] = Goes(r, "renew") /\ Others(r)
      BY <1>0, <1>2, BecomesEffect DEF Sweep, Others
<1>4. \A s \in Requests : InTurn(s)' => InTurn(s)
      BY <1>1 DEF InTurn
<1>5. Settles(r)
  <2>1. req[r].outcome # "error"
        BY <1>0, <1>1 DEF Formed, Fits
  <2> QED BY <1>1, <1>2, <1>3, <1>4, <2>1 DEF Settles, Inside, Remembered
<1>6. \A c \in Ids : messages[c] <= messages'[c]
      BY <1>0, <1>1 DEF TypeOK
<1>7. /\ TurnLockHolds' /\ Remembers' /\ DashboardCapHolds' /\ Counted'
      /\ LateMessages' /\ Relisted'
      BY <1>0, <1>1, <1>3, <1>4, <1>5, <1>6, RestKept, ConversationsAssumption DEF TypeOK
<1>8. Active' = Active /\ Existing' = Existing
      BY <1>1 DEF Active, Existing
<1>9. Active # {}
      BY <1>0, <1>1 DEF Formed, Refers, Working, IInv, Threads
<1>10. ASSUME NEW s \in Requests
       PROVE  /\ req'[s].pc = "archive" => status[req'[s].conv] = "archived"
              /\ req'[s].pc = "renew" => s = r
              /\ req'[s].pc # "place"
              /\ r = s => req'[s].pc = "renew"
  <2>1. CASE s = r
        BY <1>2, <1>3, <2>1
  <2>2. CASE s # r
        BY <1>1, <1>3, <2>2, ConversationsAssumption DEF Others, IInv, Threads
  <2> QED BY <2>1, <2>2
<1>11. Threads'
      BY <1>1, <1>8, <1>9, <1>10, ConversationsAssumption DEF IInv, Threads
<1>12. SummaryExact'
      BY <1>0, <1>1, <1>6, SummariesKept DEF IInv, TypeOK
<1> QED BY <1>7, <1>11, <1>12 DEF IInv

LEMMA CountKeeps == ASSUME IInv, Base', Enders', NEW r \in Requests, CountDashboards(r) PROVE IInv'
<1>0. TypeOK /\ Formed(r, req[r], Existing) /\ req[r] \in Frames /\ failures \in 0..MaxFailures
      BY DEF IInv, Base, TypeOK
<1>1. /\ req[r].pc = "orgLock" /\ orgLock = None /\ orgLock' = r
      /\ swept' = swept /\ turn' = turn /\ status' = status /\ messages' = messages /\ marker' = marker
      /\ summary' = summary /\ dashboards' = dashboards /\ endedBy' = endedBy /\ failures' = failures
      BY DEF CountDashboards, At, rows
<1> DEFINE f == [Goes(r, "place") EXCEPT !.seen = dashboards]
<1>2. Goes(r, "place") \in Frames /\ Goes(r, "place").pc = "place" /\ Goes(r, "place").outcome = req[r].outcome
      BY <1>0, GoesFrame DEF Steps
<1>3. f \in Frames /\ f.pc = "place" /\ f.seen = dashboards /\ f.outcome = req[r].outcome
  <2>1. f \in Frames
        BY <1>0, <1>2, FrameUpdates DEF TypeOK
  <2> QED BY <1>2, <2>1 DEF Frames
<1>4. Becomes(r, f)
      BY DEF CountDashboards
<1> HIDE DEF f
<1>5. req'[r] = f /\ Others(r)
      BY <1>0, <1>3, <1>4, BecomesEffect DEF Others
<1>6. \A s \in Requests : InTurn(s)' => InTurn(s)
      BY <1>1 DEF InTurn
<1>7. Settles(r)
  <2>1. req[r].outcome # "error"
        BY <1>0, <1>1 DEF Formed, Fits
  <2> QED BY <1>0, <1>1, <1>3, <1>5, <2>1 DEF Settles, Inside, Remembered, TypeOK
<1>8. \A c \in Ids : messages[c] <= messages'[c]
      BY <1>0, <1>1 DEF TypeOK
<1>9. /\ TurnLockHolds' /\ Remembers' /\ DashboardCapHolds' /\ Counted'
      /\ LateMessages' /\ Relisted'
      BY <1>0, <1>1, <1>5, <1>6, <1>7, <1>8, RestKept, ConversationsAssumption DEF TypeOK
<1>10. Active' = Active /\ Existing' = Existing
      BY <1>1 DEF Active, Existing
<1>11. ASSUME NEW s \in Requests
       PROVE  /\ req'[s].pc = "archive" => status[req'[s].conv] = "archived"
              /\ req'[s].pc = "place" => s = r
              /\ req'[s].pc # "renew"
              /\ r = s => req'[s].pc = "place"
  <2>1. CASE s = r
        BY <1>3, <1>5, <2>1
  <2>2. CASE s # r
        BY <1>1, <1>5, <2>2, ConversationsAssumption DEF Others, IInv, Threads
  <2> QED BY <2>1, <2>2
<1>12. Threads'
      BY <1>1, <1>10, <1>11, ConversationsAssumption DEF IInv, Threads
<1>13. SummaryExact'
      BY <1>0, <1>1, <1>8, SummariesKept DEF IInv, TypeOK
<1> QED BY <1>9, <1>12, <1>13 DEF IInv

\* The transaction ends: the only active row is the one it inserts.
LEMMA RenewKeeps == ASSUME IInv, Base', Enders', NEW r \in Requests, Renew(r) PROVE IInv'
<1>0. TypeOK /\ Formed(r, req[r], Existing) /\ req[r] \in Frames /\ failures \in 0..MaxFailures
      BY DEF IInv, Base, TypeOK
<1>1. /\ req[r].pc = "renew" /\ Room /\ turn' = turn /\ messages' = messages /\ marker' = marker
      /\ summary' = summary /\ dashboards' = dashboards /\ orgLock' = None /\ swept' = {}
      BY DEF Renew, At
<1>2. orgLock = r /\ swept = Active /\ Active # {}
      BY <1>1 DEF IInv, Threads
<1>3. /\ status' = [c \in Ids |-> IF c \in swept THEN "archived"
                                 ELSE IF c = NextId THEN "active" ELSE status[c]]
      /\ endedBy' = [c \in Ids |-> IF c \in swept THEN r ELSE endedBy[c]]
      /\ Answered(r, Ends(r, "ok"))
      BY <1>2 DEF Renew
<1>4. NextId \in Ids /\ status[NextId] = "none"
      BY <1>0, <1>1, NextIsNew
<1>5. Active' = {NextId}
      BY <1>2, <1>3, <1>4 DEF Active
<1>6. /\ Ends(r, "ok") \in Frames /\ Ends(r, "ok").pc \in {"leave", "done"} /\ Ends(r, "ok").outcome = "ok"
      BY <1>0, EndsFrame DEF Outcomes
<1>7. /\ req'[r].pc \in {"leave", "done"} /\ Others(r) /\ failures <= failures'
      /\ req'[r].outcome = "error" => failures' > 0
  <2>1. CASE Becomes(r, Ends(r, "ok")) /\ UNCHANGED failures
        BY <1>0, <1>6, <2>1, BecomesEffect, ConversationsAssumption DEF Others
  <2>2. CASE Becomes(r, Thrown(r)) /\ failures' = failures + 1
    <3>1. Thrown(r) \in Frames /\ Thrown(r).pc \in {"leave", "done"}
          BY <1>0, <1>1, ThrownFrame
    <3>2. req'[r] = Thrown(r) /\ Others(r)
          BY <1>0, <2>2, <3>1, BecomesEffect DEF Others
    <3> QED BY <1>0, <2>2, <3>1, <3>2, ConversationsAssumption
  <2> QED BY <1>3, <2>1, <2>2 DEF Answered
<1>8. Threads'
  <2>1. ASSUME NEW s \in Requests
        PROVE  /\ req'[s].pc = "archive" => status'[req'[s].conv] = "archived"
               /\ req'[s].pc \notin {"renew", "place"}
    <3>1. CASE s = r
          BY <1>7, <3>1
    <3>2. CASE s # r
      <4>1. req'[s] = req[s]
            BY <1>7, <3>2 DEF Others
      <4>2. req[s].pc \notin {"renew", "place"}
            BY <1>2, <3>2 DEF IInv, Threads
      <4>3. ASSUME req[s].pc = "archive" PROVE status'[req[s].conv] = "archived"
        <5>1. status[req[s].conv] = "archived" /\ req[s].conv \in Ids
              BY <4>3 DEF IInv, Base, Threads, Formed, Fits, Refers, Working, Existing
        <5> QED BY <1>2, <1>3, <1>4, <5>1 DEF Active
      <4> QED BY <4>1, <4>2, <4>3
    <3> QED BY <3>1, <3>2
  <2> QED BY <1>1, <1>5, <2>1, ConversationsAssumption DEF Threads
<1>9. TurnLockHolds'
  <2> SUFFICES ASSUME NEW s \in Requests, Inside(s)'
               PROVE  LET c == req'[s].conv
                      IN  status'[c] = "active" \/ (endedBy'[c] # None /\ home[endedBy'[c]] # home[s])
      BY DEF TurnLockHolds
  <2>1. s # r
        BY <1>7 DEF Inside
  <2>2. req'[s] = req[s] /\ Inside(s)
        BY <1>1, <1>7, <2>1 DEF Others, Inside, InTurn
  <2>3. req[s].conv \in Ids
        BY <2>2, InsideConv DEF IInv
  <2>4. home[s] # home[r]
        BY <1>0, <1>1, <2>1, <2>2 DEF Inside, InTurn, Formed, Holds
  <2>5. r # None
        BY ConversationsAssumption
  <2>6. CASE req[s].conv \in swept
        BY <1>3, <2>2, <2>3, <2>4, <2>5, <2>6
  <2>7. CASE req[s].conv \notin swept
    <3>1. status[req[s].conv] # "active"
          BY <1>2, <2>3, <2>7 DEF Active
    <3>2. endedBy[req[s].conv] # None /\ home[endedBy[req[s].conv]] # home[s]
          BY <2>2, <3>1 DEF IInv, TurnLockHolds
    <3> QED BY <1>3, <2>2, <2>3, <2>7, <3>2
  <2> QED BY <2>6, <2>7
<1>10. Remembers'
      BY <1>1, <1>7 DEF IInv, Remembers, Others
<1>11. SummaryExact' /\ DashboardCapHolds' /\ Counted'
      BY <1>1, <1>7 DEF IInv, SummaryExact, DashboardCapHolds, Counted, Others
<1>12. LateMessages'
  <2> SUFFICES ASSUME NEW s \in Requests, req'[s].outcome = "error", failures' = 0
               PROVE  req'[s].kind = "turn" /\ status'[req'[s].conv] = "archived"
      BY DEF LateMessages
  <2>1. s # r
        BY <1>7
  <2>2. req'[s] = req[s] /\ failures = 0
        BY <1>0, <1>7, <2>1, ConversationsAssumption DEF Others
  <2>3. req[s].kind = "turn" /\ status[req[s].conv] = "archived"
        BY <2>2 DEF IInv, LateMessages
  <2>4. req[s].conv \in Ids
        BY <2>3 DEF IInv, Base, Formed, Refers, Working, Existing
  <2>5. status'[req[s].conv] = "archived"
        BY <1>2, <1>3, <1>4, <2>3, <2>4
  <2> QED BY <2>2, <2>3, <2>5
<1>13. Relisted'
      BY <1>5 DEF Relisted
<1> QED BY <1>8, <1>9, <1>10, <1>11, <1>12, <1>13 DEF IInv

LEMMA PlaceKeeps == ASSUME IInv, Base', Enders', NEW r \in Requests, Place(r) PROVE IInv'
<1>0. TypeOK /\ Formed(r, req[r], Existing) /\ req[r] \in Frames /\ failures \in 0..MaxFailures
      BY DEF IInv, Base, TypeOK
<1>1. /\ req[r].pc = "place" /\ turn' = turn /\ status' = status /\ messages' = messages /\ marker' = marker
      /\ summary' = summary /\ endedBy' = endedBy /\ swept' = swept
      BY DEF Place, At, rows
<1>2. orgLock = r /\ swept = {} /\ orgLock' = None
      BY <1>1 DEF IInv, Threads, Place
<1>3. \A s \in Requests : s # r => req[s].pc \notin {"renew", "place"}
      BY <1>2 DEF IInv, Threads
<1>4. ASSUME NEW o \in {"ok", "limit"}
      PROVE  Ends(r, o) \in Frames /\ Ends(r, o).pc \in {"leave", "done"} /\ Ends(r, o).outcome = o
      BY <1>0, EndsFrame DEF Outcomes
<1>5. /\ req'[r].pc \in {"leave", "done"} /\ Others(r) /\ failures <= failures'
      /\ req'[r].outcome = "error" => failures' > 0
  <2>1. CASE Becomes(r, Thrown(r)) /\ failures' = failures + 1
    <3>1. Thrown(r) \in Frames /\ Thrown(r).pc \in {"leave", "done"}
          BY <1>0, <1>1, ThrownFrame
    <3>2. req'[r] = Thrown(r) /\ Others(r)
          BY <1>0, <2>1, <3>1, BecomesEffect DEF Others
    <3> QED BY <1>0, <2>1, <3>1, <3>2, ConversationsAssumption
  <2>2. CASE (Becomes(r, Ends(r, "ok")) \/ Becomes(r, Ends(r, "limit"))) /\ UNCHANGED failures
        BY <1>0, <1>4, <2>2, BecomesEffect, ConversationsAssumption DEF Others
  <2> QED BY <2>1, <2>2 DEF Place, Answered
<1>6. DashboardCapHolds'
  <2>1. CASE dashboards' = dashboards
        BY <2>1 DEF IInv, DashboardCapHolds
  <2>2. CASE req[r].seen < Cap /\ dashboards' = dashboards + 1
    <3>1. dashboards <= req[r].seen /\ req[r].seen \in Nat /\ dashboards \in Nat /\ Cap \in Nat
          BY <1>0, <1>1, <2>2, ConversationsAssumption DEF IInv, Counted, Frames, TypeOK
    <3> QED BY <2>2, <3>1 DEF DashboardCapHolds
  <2> QED BY <2>1, <2>2 DEF Place
<1>7. Counted'
      BY <1>3, <1>5 DEF Counted, Others
<1>8. Active' = Active /\ Existing' = Existing
      BY <1>1 DEF Active, Existing
<1>9. Threads'
  <2>1. ASSUME NEW s \in Requests
        PROVE  /\ req'[s].pc = "archive" => status[req'[s].conv] = "archived"
               /\ req'[s].pc \notin {"renew", "place"}
        BY <1>3, <1>5 DEF IInv, Threads, Others
  <2> QED BY <1>1, <1>2, <1>8, <2>1, ConversationsAssumption DEF IInv, Threads
<1>10. TurnLockHolds'
      BY <1>1, <1>5 DEF IInv, TurnLockHolds, Inside, InTurn, Others
<1>11. Remembers' /\ SummaryExact'
      BY <1>1, <1>5 DEF IInv, Remembers, SummaryExact, Others
<1>12. LateMessages' /\ Relisted'
  <2>1. failures \in Nat /\ failures' \in Nat
        BY ConversationsAssumption DEF IInv, Base, TypeOK
  <2>2. failures' = 0 => failures = 0 /\ req'[r].outcome # "error"
        BY <1>5, <2>1
  <2> QED BY <1>1, <1>5, <1>8, <2>2 DEF IInv, LateMessages, Relisted, Others
<1> QED BY <1>6, <1>7, <1>9, <1>10, <1>11, <1>12 DEF IInv

LEMMA FreeKeeps == ASSUME IInv, Base', Enders', FreeDashboard PROVE IInv'
<1>1. UNCHANGED <<req, turn, rows, tx, endedBy, failures>> /\ dashboards' = dashboards - 1
      BY DEF FreeDashboard
<1>2. Threads' /\ TurnLockHolds' /\ SummaryExact' /\ Remembers' /\ LateMessages' /\ Relisted'
      BY <1>1 DEF rows, tx, IInv, Threads, Active, Existing, TurnLockHolds, Inside, InTurn,
                  SummaryExact, Remembers, LateMessages, Relisted
<1>3. dashboards \in Nat /\ dashboards' \in Nat
      BY <1>1 DEF IInv, Base, TypeOK
<1>4. DashboardCapHolds'
      BY <1>1, <1>3, ConversationsAssumption DEF IInv, DashboardCapHolds
<1>5. Counted'
  <2> SUFFICES ASSUME NEW s \in Requests, req[s].pc = "place", req[s].seen < Cap
               PROVE  dashboards' <= req[s].seen
      BY <1>1 DEF Counted
  <2>1. dashboards <= req[s].seen /\ req[s].seen \in Nat
        BY DEF IInv, Counted, Base, TypeOK, Frames
  <2> QED BY <1>1, <1>3, <2>1
<1> QED BY <1>2, <1>4, <1>5 DEF IInv

\* A message is added.
LEMMA WrittenKeeps ==
    ASSUME IInv, Base', Enders', NEW r \in Requests, NEW f \in Frames, Written(r, f),
           req[r].pc \in {"ask", "answer"}, f.pc \in {"asked", "answered"},
           f.outcome = req[r].outcome, f.conv = req[r].conv
    PROVE  IInv'
<1>0. TypeOK /\ Formed(r, req[r], Existing) /\ req[r] \in Frames /\ failures \in 0..MaxFailures
      BY DEF IInv, Base, TypeOK
<1>1. /\ turn' = turn /\ status' = status /\ marker' = marker /\ summary' = summary
      /\ orgLock' = orgLock /\ swept' = swept /\ dashboards' = dashboards /\ endedBy' = endedBy
      /\ messages' = [messages EXCEPT ![req[r].conv] = @ + 1] /\ Answered(r, f)
      BY DEF Written, tx
<1>2. \A c \in Ids : messages[c] <= messages'[c]
      BY <1>0, <1>1 DEF TypeOK
<1>3. \A s \in Requests : InTurn(s)' => InTurn(s)
      BY <1>1 DEF InTurn
<1>4. ASSUME req'[r] = f, failures' = failures PROVE Settles(r)
  <2>1. req[r].outcome # "error"
        BY <1>0 DEF Formed, Fits
  <2> QED BY <1>3, <1>4, <2>1 DEF Settles, Inside, Remembered
<1>5. /\ Settles(r) /\ Others(r) /\ failures <= failures'
      /\ req'[r].pc \in {"asked", "answered", "leave", "done", "answer", "relist"}
  <2>1. req[r].pc \notin {"idle", "done"}
        OBVIOUS
  <2>2. /\ Settles(r) /\ Others(r) /\ failures <= failures'
        /\ req'[r].pc \in {f.pc, "leave", "done", "answer", "relist"}
        BY <1>1, <1>4, <2>1, AnsweredSettles
  <2> QED BY <2>2
<1>6. /\ TurnLockHolds' /\ Remembers' /\ DashboardCapHolds' /\ Counted'
      /\ LateMessages' /\ Relisted'
  <2>1. /\ \A c \in Ids : status[c] \in {"active", "archived"} => status'[c] = status[c]
        /\ endedBy' = endedBy /\ dashboards' <= dashboards
        BY <1>0, <1>1 DEF TypeOK
  <2> QED BY <1>2, <1>3, <1>5, <2>1, RestKept
<1>7. Threads'
      BY <1>1, <1>5, ThreadsKept DEF IInv
<1>8. SummaryExact'
      BY <1>0, <1>1, <1>2, SummariesKept DEF IInv, Base, TypeOK
<1> QED BY <1>6, <1>7, <1>8 DEF IInv

LEMMA AskKeeps == ASSUME IInv, Base', Enders', NEW r \in Requests, Ask(r) PROVE IInv'
<1>0. TypeOK /\ Formed(r, req[r], Existing) /\ req[r] \in Frames /\ failures \in 0..MaxFailures
      BY DEF IInv, Base, TypeOK
<1>1. /\ Goes(r, "asked") \in Frames /\ Goes(r, "asked").pc = "asked"
      /\ Goes(r, "asked").conv = req[r].conv /\ Goes(r, "asked").outcome = req[r].outcome
      BY <1>0, GoesFrame DEF Steps
<1> QED BY <1>1, WrittenKeeps DEF Ask, At

LEMMA AnswerKeeps == ASSUME IInv, Base', Enders', NEW r \in Requests, Answer(r) PROVE IInv'
<1>0. TypeOK /\ Formed(r, req[r], Existing) /\ req[r] \in Frames /\ failures \in 0..MaxFailures
      BY DEF IInv, Base, TypeOK
<1>1. /\ Goes(r, "answered") \in Frames /\ Goes(r, "answered").pc = "answered"
      /\ Goes(r, "answered").conv = req[r].conv /\ Goes(r, "answered").outcome = req[r].outcome
      BY <1>0, GoesFrame DEF Steps
<1> QED BY <1>1, WrittenKeeps DEF Answer, At

\* The conversation is dated.
LEMMA TouchKeeps == ASSUME IInv, Base', Enders', NEW r \in Requests, Touch(r) PROVE IInv'
<1>0. TypeOK /\ Formed(r, req[r], Existing) /\ req[r] \in Frames /\ failures \in 0..MaxFailures
      BY DEF IInv, Base, TypeOK
<1>1. /\ req[r].pc \in {"asked", "answered"} /\ turn' = turn /\ failures' = failures
      /\ UNCHANGED <<rows, tx, dashboards, endedBy>>
      BY DEF Touch, At
<1>2. req[r].outcome # "error"
      BY <1>0, <1>1 DEF Formed, Fits
<1>3. PICK f \in Frames : /\ Becomes(r, f) /\ f.outcome # "error"
                          /\ \/ f.pc \in {"leave", "done"}
                             \/ At(r, "asked") /\ f.pc = "answer" /\ f.conv = req[r].conv
  <2>1. /\ Ends(r, "ok") \in Frames /\ Ends(r, "ok").pc \in {"leave", "done"}
        /\ Ends(r, "ok").outcome = "ok"
        BY <1>0, EndsFrame DEF Outcomes
  <2>2. /\ Goes(r, "answer") \in Frames /\ Goes(r, "answer").pc = "answer"
        /\ Goes(r, "answer").conv = req[r].conv /\ Goes(r, "answer").outcome = req[r].outcome
        BY <1>0, GoesFrame DEF Steps
  <2> QED BY <1>2, <2>1, <2>2 DEF Touch
<1>4. req'[r] = f /\ Others(r)
      BY <1>0, <1>3, BecomesEffect DEF Others
<1>5. \A s \in Requests : InTurn(s)' => InTurn(s)
      BY <1>1 DEF InTurn
<1>6. Settles(r)
      BY <1>3, <1>4, <1>5 DEF Settles, Inside, Remembered, At
<1> QED BY <1>0, <1>1, <1>3, <1>4, <1>5, <1>6, QuietKept, ConversationsAssumption

LEMMA GetKeeps == ASSUME IInv, Base', Enders', NEW r \in Requests, Get(r) PROVE IInv'
<1>0. TypeOK /\ Formed(r, req[r], Existing) /\ req[r] \in Frames /\ failures \in 0..MaxFailures
      BY DEF IInv, Base, TypeOK
<1>1. /\ req[r].pc = "get" /\ turn' = turn /\ failures' = failures /\ messages' = messages
      /\ UNCHANGED <<rows, tx, dashboards, endedBy>>
      BY DEF Get, At, rows
<1>2. \A s \in Requests : InTurn(s)' => InTurn(s)
      BY <1>1 DEF InTurn
<1>3. req[r].outcome # "error"
      BY <1>0, <1>1 DEF Formed, Fits
<1> DEFINE f == [Goes(r, "load") EXCEPT !.marker = marker[req[r].conv], !.summary = summary[req[r].conv]]
<1>4. CASE Becomes(r, f)
  <2>1. /\ Goes(r, "load") \in Frames /\ Goes(r, "load").outcome = req[r].outcome
        /\ Goes(r, "load").pc = "load" /\ Goes(r, "load").conv = req[r].conv
        BY <1>0, GoesFrame DEF Steps
  <2>2. req[r].conv \in Ids
        BY <1>0, <1>1 DEF Formed, Refers, Working, Existing
  <2>3. f \in Frames
        BY <1>0, <2>1, <2>2, FrameUpdates DEF TypeOK
  <2>4. /\ f.pc = "load" /\ f.conv = req[r].conv /\ f.outcome = req[r].outcome
        /\ f.marker = marker[req[r].conv] /\ f.summary = summary[req[r].conv]
        BY <2>1 DEF Frames
  <2>5. Becomes(r, f)
        BY <1>4
  <2> HIDE DEF f
  <2>6. req'[r] = f /\ Others(r)
        BY <1>0, <2>3, <2>5, BecomesEffect DEF Others
  <2>7. /\ summary[req[r].conv] = [i \in 1..marker[req[r].conv] |-> i]
        /\ marker[req[r].conv] <= Older(messages[req[r].conv])
        BY <2>2 DEF IInv, SummaryExact
  <2>8. Remembered(req'[r], messages')
        BY <1>1, <2>4, <2>6, <2>7 DEF Remembered
  <2>9. Settles(r)
        BY <1>1, <1>2, <1>3, <2>4, <2>6, <2>8 DEF Settles, Inside
  <2> QED BY <1>0, <1>1, <1>2, <2>4, <2>6, <2>9, QuietKept, ConversationsAssumption
<1>5. CASE Becomes(r, Ends(r, "stale"))
  <2>1. /\ Ends(r, "stale") \in Frames /\ Ends(r, "stale").pc \in {"leave", "done"}
        /\ Ends(r, "stale").outcome = "stale"
        BY <1>0, EndsFrame DEF Outcomes
  <2>2. req'[r] = Ends(r, "stale") /\ Others(r)
        BY <1>0, <1>5, <2>1, BecomesEffect DEF Others
  <2>3. Settles(r)
        BY <2>1, <2>2, EndSettles
  <2> QED BY <1>0, <1>1, <1>2, <2>1, <2>2, <2>3, QuietKept, ConversationsAssumption
<1>6. CASE Becomes(r, Compacted(r))
  <2>1. Settles(r) /\ Others(r) /\ req'[r].pc \in {"leave", "done", "answer"}
        BY <1>0, <1>1, <1>6, CompactedSettles, ConversationsAssumption
  <2> QED BY <1>0, <1>1, <1>2, <2>1, QuietKept, ConversationsAssumption
<1> QED BY <1>4, <1>5, <1>6 DEF Get

LEMMA LoadKeeps == ASSUME IInv, Base', Enders', NEW r \in Requests, Load(r) PROVE IInv'
<1>0. TypeOK /\ Formed(r, req[r], Existing) /\ req[r] \in Frames /\ failures \in 0..MaxFailures
      BY DEF IInv, Base, TypeOK
<1>1. /\ req[r].pc = "load" /\ turn' = turn /\ failures' = failures /\ messages' = messages
      /\ UNCHANGED <<rows, tx, dashboards, endedBy>>
      BY DEF Load, At, rows
<1>2. \A s \in Requests : InTurn(s)' => InTurn(s)
      BY <1>1 DEF InTurn
<1>3. req[r].outcome # "error"
      BY <1>0, <1>1 DEF Formed, Fits
<1> DEFINE f == [Goes(r, "save") EXCEPT !.seen = messages[req[r].conv]]
<1>4. CASE Older(messages[req[r].conv]) > req[r].marker /\ Becomes(r, f)
  <2>1. /\ Goes(r, "save") \in Frames /\ Goes(r, "save").outcome = req[r].outcome
        /\ Goes(r, "save").pc = "save" /\ Goes(r, "save").conv = req[r].conv
        /\ Goes(r, "save").marker = req[r].marker /\ Goes(r, "save").summary = req[r].summary
        BY <1>0, GoesFrame DEF Steps
  <2>2. req[r].conv \in Ids
        BY <1>0, <1>1 DEF Formed, Refers, Working, Existing
  <2>3. f \in Frames
        BY <1>0, <2>1, <2>2, FrameUpdates DEF TypeOK
  <2>4. /\ f.pc = "save" /\ f.conv = req[r].conv /\ f.outcome = req[r].outcome
        /\ f.marker = req[r].marker /\ f.summary = req[r].summary /\ f.seen = messages[req[r].conv]
        BY <2>1 DEF Frames
  <2>5. Becomes(r, f)
        BY <1>4
  <2> HIDE DEF f
  <2>6. req'[r] = f /\ Others(r)
        BY <1>0, <2>3, <2>5, BecomesEffect DEF Others
  <2>7. /\ req[r].summary = [i \in 1..req[r].marker |-> i]
        /\ req[r].marker <= Older(messages[req[r].conv])
        BY <1>1 DEF IInv, Remembers
  <2>8. messages[req[r].conv] \in Nat /\ Older(messages[req[r].conv]) \in Nat /\ req[r].marker \in Nat
        BY <1>0, <2>2, OlderIsNat DEF TypeOK, Frames
  <2>9. Remembered(req'[r], messages')
    <3>1. req'[r].summary = [i \in 1..req'[r].marker |-> i]
          BY <2>4, <2>6, <2>7
    <3>2. /\ req'[r].marker <= Older(messages'[req'[r].conv]) /\ req'[r].seen <= messages'[req'[r].conv]
          /\ req'[r].marker <= Older(req'[r].seen)
          BY <1>1, <2>4, <2>6, <2>7, <2>8
    <3> QED BY <3>1, <3>2 DEF Remembered
  <2>10. Settles(r)
        BY <1>1, <1>2, <1>3, <2>4, <2>6, <2>9 DEF Settles, Inside
  <2> QED BY <1>0, <1>1, <1>2, <2>4, <2>6, <2>10, QuietKept, ConversationsAssumption
<1>5. CASE Becomes(r, Compacted(r))
  <2>1. Settles(r) /\ Others(r) /\ req'[r].pc \in {"leave", "done", "answer"}
        BY <1>0, <1>1, <1>5, CompactedSettles, ConversationsAssumption
  <2> QED BY <1>0, <1>1, <1>2, <2>1, QuietKept, ConversationsAssumption
<1> QED BY <1>4, <1>5 DEF Load

\* Folding what follows an exact summary gives an exact summary.
LEMMA FoldedExact ==
    ASSUME NEW m \in Nat, NEW n \in Nat, m <= n
    PROVE  Folded([i \in 1..m |-> i], m, n) = [i \in 1..n |-> i]
<1> DEFINE old == [i \in 1..m |-> i]
           new == [i \in 1..(n - m) |-> m + i]
           all == [i \in 1..n |-> i]
<1>1. old \in Seq(Nat) /\ Len(old) = m
      OBVIOUS
<1>2. n - m \in Nat /\ new \in Seq(Nat) /\ Len(new) = n - m
      OBVIOUS
<1>3. all \in Seq(Nat) /\ Len(all) = n
      OBVIOUS
<1>4. (old \o new) \in Seq(Nat) /\ Len(old \o new) = n
      BY <1>1, <1>2
<1>5. ASSUME NEW i \in 1..n PROVE (old \o new)[i] = all[i]
  <2>1. CASE i <= m
        BY <1>1, <1>2, <2>1
  <2>2. CASE i > m
    <3>1. (old \o new)[i] = new[i - m]
          BY <1>1, <1>2, <2>2
    <3>2. i - m \in 1..(n - m)
          BY <2>2
    <3> QED BY <3>1, <3>2
  <2> QED BY <2>1, <2>2
<1> HIDE DEF old, new, all
<1>6. old \o new = all
      BY <1>3, <1>4, <1>5, SMTT(60)
<1> QED BY <1>6 DEF Folded, old, new, all

LEMMA SaveKeeps == ASSUME IInv, Base', Enders', NEW r \in Requests, Save(r) PROVE IInv'
<1>0. TypeOK /\ Formed(r, req[r], Existing) /\ req[r] \in Frames /\ failures \in 0..MaxFailures
      BY DEF IInv, Base, TypeOK
<1> DEFINE c == req[r].conv
           n == Older(req[r].seen)
<1>1. /\ req[r].pc = "save" /\ turn' = turn /\ status' = status /\ messages' = messages
      /\ orgLock' = orgLock /\ swept' = swept /\ dashboards' = dashboards /\ endedBy' = endedBy
      /\ marker' = [marker EXCEPT ![c] = n]
      /\ summary' = [summary EXCEPT ![c] = Folded(req[r].summary, req[r].marker, n)]
      /\ Answered(r, Compacted(r))
      BY DEF Save, At, tx
<1>2. /\ Compacted(r) \in Frames
      /\ Compacted(r).pc \in {"leave", "done", "answer"}
      BY <1>0, <1>1, CompactedFrame
<1>3. \A s \in Requests : InTurn(s)' => InTurn(s)
      BY <1>1 DEF InTurn
<1>4. /\ Settles(r) /\ Others(r) /\ failures <= failures'
      /\ req'[r].pc \in {"leave", "done", "answer", "relist"}
  <2>1. req[r].pc \notin {"idle", "done"}
        BY <1>1
  <2>2. ASSUME Becomes(r, Compacted(r)), failures' = failures PROVE Settles(r)
        BY <1>0, <1>1, <2>2, CompactedSettles, ConversationsAssumption
  <2>3. /\ Settles(r) /\ Others(r) /\ failures <= failures'
        /\ req'[r].pc \in {Compacted(r).pc, "leave", "done", "answer", "relist"}
        BY <1>1, <1>2, <2>1, <2>2, AnsweredSettles
  <2> QED BY <1>2, <2>3
<1>5. \A d \in Ids : messages[d] <= messages'[d]
      BY <1>0, <1>1 DEF TypeOK
<1>6. /\ TurnLockHolds' /\ Remembers' /\ DashboardCapHolds' /\ Counted'
      /\ LateMessages' /\ Relisted'
  <2>1. /\ \A d \in Ids : status[d] \in {"active", "archived"} => status'[d] = status[d]
        /\ endedBy' = endedBy /\ dashboards' <= dashboards
        BY <1>0, <1>1 DEF TypeOK
  <2> QED BY <1>3, <1>4, <1>5, <2>1, RestKept
<1>7. Threads'
      BY <1>1, <1>4, ThreadsKept DEF IInv
<1>8. SummaryExact'
  <2>1. c \in Ids
        BY <1>1, InsideConv DEF IInv
  <2>2. /\ req[r].summary = [i \in 1..req[r].marker |-> i] /\ req[r].marker <= n
        /\ req[r].seen <= messages[c]
        BY <1>1 DEF IInv, Remembers
  <2>3. req[r].marker \in Nat /\ req[r].seen \in Nat /\ messages[c] \in Nat /\ n \in Nat
        BY <1>0, <2>1, OlderIsNat DEF TypeOK, Frames
  <2>4. Folded(req[r].summary, req[r].marker, n) = [i \in 1..n |-> i]
        BY <2>2, <2>3, FoldedExact
  <2>5. n <= Older(messages[c])
        BY <2>2, <2>3, OlderGrows
  <2>6. marker'[c] = n /\ summary'[c] = [i \in 1..n |-> i]
        BY <1>0, <1>1, <2>1, <2>4 DEF TypeOK
  <2>7. \A d \in Ids : d # c => marker'[d] = marker[d] /\ summary'[d] = summary[d]
        BY <1>0, <1>1 DEF TypeOK
  <2> HIDE DEF n, c
  <2>8. ASSUME NEW d \in Ids
        PROVE  summary'[d] = [i \in 1..marker'[d] |-> i] /\ marker'[d] <= Older(messages'[d])
    <3>1. CASE d = c
          BY <1>1, <2>5, <2>6, <3>1
    <3>2. CASE d # c
      <4>1. summary[d] = [i \in 1..marker[d] |-> i] /\ marker[d] <= Older(messages[d])
            BY DEF IInv, SummaryExact
      <4> QED BY <1>1, <2>7, <3>2, <4>1
    <3> QED BY <3>1, <3>2
  <2> QED BY <2>8 DEF SummaryExact
<1> QED BY <1>6, <1>7, <1>8 DEF IInv

-----------------------------------------------------------------------------
(* The invariant is inductive *)

LEMMA InitInvariant == Init => IInv
<1> SUFFICES ASSUME Init PROVE IInv
    OBVIOUS
<1>1. Base
      BY InitBase
<1>2. \A r \in Requests : req[r] = NoFrame /\ ~InTurn(r)
      BY ConversationsAssumption DEF Init, InTurn
<1>3. NoFrame.pc = "idle" /\ NoFrame.outcome = "none"
      BY DEF NoFrame
<1>4. PICK first \in {"none", "active"} :
          status = [c \in Ids |-> IF c = 1 THEN first ELSE "none"]
      BY DEF Init
<1>5. Threads
  <2>1. 1 \in Ids
        BY ConversationsAssumption DEF Ids
  <2>2. \A c, d \in Active : c = d
        BY <1>4 DEF Active
  <2>3. Existing # {} => Active # {}
        BY <1>4, <2>1 DEF Active, Existing
  <2>4. orgLock = None /\ swept = {}
        BY DEF Init
  <2> QED BY <1>2, <1>3, <2>2, <2>3, <2>4, ConversationsAssumption DEF Threads
<1>6. TurnLockHolds
      BY <1>2 DEF TurnLockHolds, Inside
<1>7. SummaryExact
  <2> SUFFICES ASSUME NEW c \in Ids
               PROVE  summary[c] = [i \in 1..marker[c] |-> i] /\ marker[c] <= Older(messages[c])
      BY DEF SummaryExact
  <2>1. marker[c] = 0 /\ summary[c] = <<>> /\ messages[c] \in Nat
        BY <1>1 DEF Init, Base, TypeOK
  <2>2. <<>> = [i \in 1..0 |-> i]
        OBVIOUS
  <2>3. 0 <= Older(messages[c])
        BY <2>1, OlderIsNat
  <2> QED BY <2>1, <2>2, <2>3
<1>8. Remembers /\ Counted /\ Relisted /\ LateMessages
      BY <1>2, <1>3 DEF Remembers, Counted, Relisted, LateMessages
<1>9. DashboardCapHolds
      BY ConversationsAssumption DEF Init, DashboardCapHolds
<1>10. Enders
      BY <1>4 DEF Enders
<1> QED BY <1>1, <1>5, <1>6, <1>7, <1>8, <1>9, <1>10 DEF IInv

LEMMA NextInvariant == IInv /\ [Next]_vars => IInv'
<1> SUFFICES ASSUME IInv, [Next]_vars PROVE IInv'
    OBVIOUS
<1>0. Base' /\ Enders'
      BY NextKeepsBase, EndersKept DEF IInv
<1>1. CASE UNCHANGED vars
      BY <1>0, <1>1 DEF vars, rows, tx, IInv, Threads, Active, Existing, TurnLockHolds, Inside, InTurn,
                  SummaryExact, Remembers, DashboardCapHolds, Counted, LateMessages, Relisted
<1>2. ASSUME NEW r \in Requests, NEW kind \in asks[r], NEW c \in 0..Convs, Begin(r, kind, c)
      PROVE  IInv'
  <2>1. kind \in Kinds
        BY ConversationsAssumption
  <2> QED BY <1>0, <1>2, <2>1, BeginKeeps
<1>3. ASSUME NEW r \in Requests, Progress(r) PROVE IInv'
      BY <1>0, <1>3, OpenKeeps, EnterKeeps, CheckKeeps, LeaveKeeps, ListKeeps, InsertKeeps, ArchiveKeeps,
         SweepKeeps, RenewKeeps, CountKeeps, PlaceKeeps, AskKeeps, AnswerKeeps, TouchKeeps,
         GetKeeps, LoadKeeps, SaveKeeps
      DEF Progress
<1>4. ASSUME NEW r \in Requests, Recover(r) \/ Fails(r) PROVE IInv'
      BY <1>0, <1>4, RecoverKeeps, FailsKeeps
<1> QED BY <1>0, <1>1, <1>2, <1>3, <1>4, FreeKeeps DEF Next

THEOREM Invariance == Spec => []IInv
BY InitInvariant, NextInvariant, PTL DEF Spec

\* Every variable has its type, in every state of every run.
THEOREM TypeCorrect == Spec => []TypeOK
<1>1. IInv => TypeOK
      BY DEF IInv, Base
<1> QED BY <1>1, Invariance, PTL

\* An organisation never has two active conversations, nor none again once it
\* has one, whatever requests of however many processes race to create, to
\* replace or to archive it.
THEOREM OneThread == Spec => OneCanonical
<1> DEFINE Canonical ==
        /\ \A c, d \in Ids : status'[c] = "active" /\ status'[d] = "active" => c = d
        /\ Active # {} => \E c \in Ids : status'[c] = "active"
<1>1. ASSUME IInv, [Next]_vars PROVE Canonical
  <2>1. Threads' /\ Existing \subseteq Existing'
        BY <1>1, NextInvariant, ExistingGrows DEF IInv
  <2>2. \A c, d \in Ids : status'[c] = "active" /\ status'[d] = "active" => c = d
        BY <2>1 DEF Threads, Active
  <2>3. ASSUME Active # {} PROVE \E c \in Ids : status'[c] = "active"
    <3>1. Existing # {}
          BY <2>3 DEF Active, Existing
    <3>2. Active' # {}
          BY <2>1, <3>1 DEF Threads
    <3> QED BY <3>2 DEF Active
  <2> QED BY <2>2, <2>3
<1>2. IInv /\ [Next]_vars => [Canonical]_vars
      BY <1>1
<1> HIDE DEF Canonical
<1>3. Spec => [][Canonical]_vars
      BY <1>2, Invariance, PTL DEF Spec
<1> QED BY <1>3 DEF OneCanonical, Canonical

\* What a turn or a command works on under the turn lock is the active
\* conversation, unless another process has replaced it meanwhile.
THEOREM LockHolds == Spec => []TurnLockHolds
<1>1. IInv => TurnLockHolds
      BY DEF IInv
<1> QED BY <1>1, Invariance, PTL

\* However compactions overlap, a summary holds each message up to its marker
\* once, in order, and none of the recent ones.
THEOREM SummariesExact == Spec => []SummaryExact
<1>1. IInv => SummaryExact
      BY DEF IInv
<1> QED BY <1>1, Invariance, PTL

\* The advisory lock makes the trigger count and the insert one step: the cap
\* of the dashboards holds.
THEOREM CapHolds == Spec => []DashboardCapHolds
<1>1. IInv => DashboardCapHolds
      BY DEF IInv
<1> QED BY <1>1, Invariance, PTL

\* No race ends in an error but that of a message with a /new which archived
\* its conversation while it waited for the turn lock: any other error needs
\* a call that failed.
THEOREM RacesEndWell == Spec => []ErrorsNeedFailures
<1>1. IInv => ErrorsNeedFailures
  <2> SUFFICES ASSUME IInv, NEW r \in Requests, req[r].outcome = "error", failures = 0
               PROVE  /\ req[r].kind = "turn" /\ status[req[r].conv] = "archived"
                      /\ endedBy[req[r].conv] \in Requests \ {r}
      BY DEF ErrorsNeedFailures
  <2>1. req[r].kind = "turn" /\ status[req[r].conv] = "archived"
        BY DEF IInv, LateMessages
  <2>2. req[r].conv \in Ids
        BY <2>1 DEF IInv, Base, Formed, Refers, Working, Existing
  <2>3. endedBy[req[r].conv] \in Requests /\ req[endedBy[req[r].conv]].kind = "new"
        BY <2>1, <2>2 DEF IInv, Enders
  <2> QED BY <2>1, <2>3
<1> QED BY <1>1, Invariance, PTL

-----------------------------------------------------------------------------
(* The promise of CanonicalThread *)

Archived == {c \in Ids : status[c] = "archived"}

LEMMA StatusKeptRefines ==
    ASSUME status' = status
    PROVE  [Thread!Next]_(Thread!threadVars)
<1>1. Active' = Active /\ Archived' = Archived
      BY DEF Active, Archived
<1> QED BY <1>1 DEF Thread!threadVars, Archived

\* A first row is the first of the organisation.
LEMMA InsertRefines ==
    ASSUME IInv, NEW r \in Requests, Insert(r)
    PROVE  [Thread!Next]_(Thread!threadVars)
<1>1. CASE status' = status
      BY <1>1, StatusKeptRefines
<1>2. CASE Active = {} /\ Room /\ status' = [status EXCEPT ![NextId] = "active"]
  <2>1. NextId \in Ids /\ Existing = {} /\ TypeOK
        BY <1>2, NextIsNew DEF IInv, Base, Threads
  <2>2. Active' = {NextId} /\ Archived' = {} /\ Archived = {}
        BY <1>2, <2>1 DEF TypeOK, Active, Archived, Existing
  <2>3. Thread!Create(NextId)
        BY <1>2, <2>2 DEF Thread!Create, Archived
  <2> QED BY <2>1, <2>3 DEF Thread!Next
<1> QED BY <1>1, <1>2 DEF Insert

LEMMA RenewRefines ==
    ASSUME IInv, NEW r \in Requests, Renew(r)
    PROVE  [Thread!Next]_(Thread!threadVars)
<1>1. swept = Active /\ Active # {} /\ TypeOK /\ Room
      BY DEF Renew, At, IInv, Base, Threads
<1>2. NextId \in Ids /\ status[NextId] = "none"
      BY <1>1, NextIsNew
<1>3. status' = [c \in Ids |-> IF c \in swept THEN "archived"
                               ELSE IF c = NextId THEN "active" ELSE status[c]]
      BY <1>1 DEF Renew
<1>4. Active' = {NextId} /\ Archived' = Archived \cup Active
      BY <1>1, <1>2, <1>3 DEF Active, Archived
<1>5. NextId \notin Active \cup Archived
      BY <1>2 DEF Active, Archived
<1>6. PICK c \in Ids : c = NextId
      BY <1>2
<1>7. Thread!RollOver(c)
      BY <1>1, <1>4, <1>5, <1>6 DEF Thread!RollOver, Archived
<1> QED BY <1>7 DEF Thread!Next

LEMMA NextRefines == IInv /\ [Next]_vars => [Thread!Next]_(Thread!threadVars)
<1> SUFFICES ASSUME IInv, [Next]_vars PROVE [Thread!Next]_(Thread!threadVars)
    OBVIOUS
<1>1. ASSUME NEW r \in Requests, Archive(r) PROVE status' = status
  <2>1. status[req[r].conv] = "archived" /\ TypeOK
        BY <1>1 DEF Archive, At, IInv, Base, Threads
  <2> QED BY <1>1, <2>1 DEF Archive, TypeOK
<1>2. ASSUME NEW r \in Requests, Progress(r), ~Insert(r), ~Renew(r) PROVE status' = status
      BY <1>1, <1>2
      DEF Progress, Open, Enter, Check, Leave, List, Sweep, CountDashboards, Place, Ask, Answer,
          Written, Touch, Get, Load, Save, rows
<1>3. ASSUME NEW r \in Requests, NEW kind \in asks[r], NEW c \in 0..Convs, Begin(r, kind, c)
      PROVE  status' = status
      BY <1>3 DEF Begin, rows
<1>4. ASSUME NEW r \in Requests, Recover(r) \/ Fails(r) PROVE status' = status
      BY <1>4 DEF Recover, Fails, rows
<1>5. ASSUME FreeDashboard \/ UNCHANGED vars PROVE status' = status
      BY <1>5 DEF FreeDashboard, vars, rows
<1> QED BY <1>2, <1>3, <1>4, <1>5, InsertRefines, RenewRefines, StatusKeptRefines DEF Next

LEMMA InitRefines == Init => Thread!Init
<1> SUFFICES ASSUME Init PROVE Thread!Init
    OBVIOUS
<1>1. PICK first \in {"none", "active"} :
          status = [c \in Ids |-> IF c = 1 THEN first ELSE "none"]
      BY DEF Init
<1>2. 1 \in Ids /\ {c \in Ids : status[c] = "archived"} = {}
      BY <1>1, ConversationsAssumption DEF Ids
<1>3. Active = {} \/ Active = {1}
      BY <1>1, <1>2 DEF Active
<1> QED BY <1>2, <1>3 DEF Thread!Init

\* Requests that race to create, replace and archive conversations, over rows
\* that several processes share, keep the promise of one thread: it is made
\* once, replaced in one step, and what is archived stays archived.
THEOREM RowsImplementThread == Spec => ImplementsCanonicalThread
BY Invariance, InitRefines, NextRefines, PTL DEF Spec, ImplementsCanonicalThread, Thread!Spec

-----------------------------------------------------------------------------
(* Waiting *)

\* Who holds the turn lock of a process is served by it.
TurnsAtHome == \A p \in Processes : turn[p] # None => home[turn[p]] = p

LEMMA TurnsStayAtHome == IInv /\ TurnsAtHome /\ [Next]_vars => TurnsAtHome'
<1> SUFFICES ASSUME IInv, TurnsAtHome, [Next]_vars PROVE TurnsAtHome'
    OBVIOUS
<1>0. turn \in [Processes -> Requests \cup {None}] /\ home \in [Requests -> Processes]
      BY ConversationsAssumption DEF IInv, Base, TypeOK
<1>1. ASSUME turn' = turn PROVE TurnsAtHome'
      BY <1>1 DEF TurnsAtHome
<1>2. ASSUME NEW r \in Requests, Enter(r) PROVE TurnsAtHome'
      BY <1>0, <1>2 DEF Enter, TurnsAtHome
<1>3. ASSUME NEW r \in Requests, Leave(r) PROVE TurnsAtHome'
      BY <1>0, <1>3 DEF Leave, TurnsAtHome
<1>4. ASSUME NEW r \in Requests, Progress(r) PROVE TurnsAtHome'
      BY <1>1, <1>2, <1>3, <1>4
      DEF Progress, Open, Check, List, Insert, Archive, Sweep, Renew, CountDashboards, Place,
          Ask, Answer, Written, Touch, Get, Load, Save
<1>5. ASSUME NEW r \in Requests, NEW kind \in asks[r], NEW c \in 0..Convs, Begin(r, kind, c)
      PROVE  TurnsAtHome'
      BY <1>1, <1>5 DEF Begin
<1>6. ASSUME NEW r \in Requests, Recover(r) \/ Fails(r) PROVE TurnsAtHome'
      BY <1>1, <1>6 DEF Recover, Fails
<1>7. ASSUME FreeDashboard \/ UNCHANGED vars PROVE TurnsAtHome'
      BY <1>1, <1>7 DEF FreeDashboard, vars
<1> QED BY <1>4, <1>5, <1>6, <1>7 DEF Next

\* Who holds the advisory lock waits for nothing, and who waits for a row or
\* for that lock waits for its holder.
LEMMA HolderMoves ==
    ASSUME IInv, NEW r \in UnderWay, Waits(r), ~At(r, "wait")
    PROVE  \E h \in UnderWay : ~Waits(h)
<1>1. orgLock # None
      BY DEF Waits, IInv, Threads
<1>2. orgLock \in Requests
      BY <1>1 DEF IInv, Base, TypeOK
<1>3. req[orgLock].pc \in {"renew", "place"}
      BY <1>2 DEF IInv, Threads
<1> QED BY <1>2, <1>3 DEF UnderWay, Waits, At

\* Turn lock, advisory lock and rows are always taken in this order: never
\* does every request that is under way wait for another one.
THEOREM SomebodyMoves == Spec => []NoDeadlock
<1>1. Init => TurnsAtHome
      BY DEF Init, TurnsAtHome
<1>2. ASSUME IInv, TurnsAtHome PROVE NoDeadlock
  <2> SUFFICES ASSUME NEW r \in UnderWay, Waits(r)
               PROVE  \E h \in UnderWay : ~Waits(h)
      BY DEF NoDeadlock
  <2>1. CASE ~At(r, "wait")
        BY <1>2, <2>1, HolderMoves
  <2>2. CASE At(r, "wait")
    <3> DEFINE h == turn[home[r]]
    <3>1. r \in Requests /\ home[r] \in Processes /\ h # None
          BY <2>2, ConversationsAssumption DEF UnderWay, Waits, At
    <3>2. h \in Requests
          BY <1>2, <3>1 DEF IInv, Base, TypeOK
    <3>3. InTurn(h)
          BY <1>2, <3>1 DEF TurnsAtHome, InTurn
    <3>4. req[h].pc \notin {"idle", "wait", "done"}
          BY <1>2, <3>2, <3>3 DEF IInv, Base, Formed, Holds
    <3>5. h \in UnderWay /\ ~At(h, "wait")
          BY <3>2, <3>4 DEF UnderWay, At
    <3> HIDE DEF h
    <3>6. CASE Waits(h)
          BY <1>2, <3>5, <3>6, HolderMoves
    <3> QED BY <3>5, <3>6
  <2> QED BY <2>1, <2>2
<1> QED BY <1>1, <1>2, TurnsStayAtHome, Invariance, PTL DEF Spec

=============================================================================
