--------------------------- MODULE ToolRelayProofs ---------------------------
(***************************************************************************)
(* What TLAPS proves of the tool relay, for every set of requests and      *)
(* sessions, every number of slots and every capacity of the channels.     *)
(*                                                                         *)
(* Every step of the relay is one of SessionTable or leaves its variables  *)
(* alone, so what SessionTableProofs shows of the table holds here.  On    *)
(* top of it the invariant follows an announced call from the reader over  *)
(* the channel to the answer that tells the client of it: it is in one of  *)
(* these places, in one only (PlacesInv), and not resolved before (ToldInv).*)
(* A session is driven by a request until the client can reach it          *)
(* (DrivenInv), where continuations that still wait for a slot do not      *)
(* count, because they may give up.                                        *)
(***************************************************************************)
EXTENDS ToolRelay, SessionTableProofs, SequenceTheorems

(* The calls of the events in a channel, each of them in one event only. *)
In(q) == UNION {e.calls : e \in ToSet(q)}
Distinct(q) ==
  \A i, j \in DOMAIN q : i # j => q[i].calls \intersect q[j].calls = {}

(* What a handler's variables hold at each of its stages. *)
RequestsInv ==
  \A r \in Requests :
    /\ req[r].at = "idle" =>
         req[r].results = {} /\ req[r].calls = {} /\ req[r].outcome = "none"
    /\ req[r].outcome = "tools" => req[r].at = "done"
    /\ req[r].at \in {"unindex", "start", "collect", "reap"} => req[r].sess \in Sessions
    /\ req[r].sess = NoSession => req[r].calls = {}
    /\ req[r].results \union req[r].history \subseteq Told

(* A session without a process has announced nothing, and its reader was   *)
(* not started; a reader holds an event only between a line and the send.  *)
ReadersInv ==
  \A s \in Sessions :
    /\ cmd[s] = "none" =>
         /\ pending[s] = <<>>
         /\ reader[s].at = "off"
         /\ \A c \in Calls : mcp[c].for # s
    /\ reader[s].at \in {"index", "send"} => reader[s].ev \in Event
    /\ reader[s].at \notin {"index", "send"} => reader[s].ev = Nothing

(* An announced call is in one place only: with the reader, in an event of *)
(* its channel, or in the answer of one request; and it is in the index    *)
(* (or was, until resolved) before the reader lets go of it.               *)
PlacesInv ==
  /\ \A s \in Sessions :
       /\ Coming(s) \subseteq CallsOf(s)
       /\ Distinct(events[s])
       /\ reader[s].ev.calls \intersect In(events[s]) = {}
       /\ In(events[s]) \intersect toIndex = {}
       /\ reader[s].at = "send" => reader[s].ev.calls \intersect toIndex = {}
  /\ \A r \in Requests : \A s \in Sessions :
       /\ req[r].calls \intersect Coming(s) = {}
       /\ req[r].sess = s => req[r].calls \subseteq CallsOf(s) \ toIndex
  /\ \A q, r \in Requests : q # r => req[q].calls \intersect req[r].calls = {}

(* A request that will not leave its session without an end to its turn. *)
Drives(r, s) ==
  /\ req[r].sess = s
  /\ req[r].at \in {"resolve", "unindex", "start", "collect", "reap"}

(* No call of a live session is resolved before the client was told of it, *)
(* and none gets lost on its way to the client.                            *)
ToldInv ==
  \A s \in table : \A c \in CallsOf(s) :
    /\ c \notin Told => c \notin resolved
    /\ \/ c \in Told \union Coming(s)
       \/ \E r \in Requests :
            req[r].sess = s /\ req[r].at \in {"collect", "reap"} /\ c \in req[r].calls

(* Reachable even while continuations that may still give up wait. *)
DrivenInv ==
  \A s \in table :
    \/ \E r \in Requests : Drives(r, s)
    \/ \E c \in Told \ resolved : index[c] = s

(* What a tools/call request took is its own, and was told and sent when   *)
(* its Resolver has a result.                                              *)
ClaimsInv ==
  /\ \A c \in Calls :
       /\ mcp[c].at # "none" => mcp[c].for \in Sessions
       /\ mcp[c].at \in {"none", "owed", "polling"} => mcp[c].took = NoSession
       /\ mcp[c].took # NoSession =>
            /\ mcp[c].took \in claimed
            /\ mcp[c].took \in CallsOf(mcp[c].for)
            /\ SignatureOf[mcp[c].took] = SignatureOf[c]
       /\ mcp[c].at \in {"parked", "result"} => mcp[c].took # NoSession
       /\ mcp[c].at = "result" => resolver[mcp[c].took] = "result"
       /\ resolver[c] = "result" => c \in Told \intersect Sent
  /\ \A c, d \in Calls :
       c # d /\ mcp[c].took # NoSession => mcp[d].took # mcp[c].took

-----------------------------------------------------------------------------
(* Types, a variable at a time.                                            *)

Request == [at : Stages, results : SUBSET Calls, history : SUBSET Calls,
            sess : Sessions \union {NoSession}, left : SUBSET Calls,
            taken : SUBSET Calls, calls : SUBSET Calls,
            stop : BOOLEAN, outcome : Outcomes]
Reader == [at : {"off", "scan", "index", "send", "closed"},
           ev : Event \union {Nothing}, saw : BOOLEAN]
McpCall == [at : {"none", "owed", "polling", "parked", "result", "error"},
            for : Sessions \union {NoSession}, took : Calls \union {NoSession}]

ReqShape ==
  /\ req \in [Requests -> Request]
  /\ \A r \in Requests : req[r].left \union req[r].taken \subseteq req[r].results
RunShape ==
  /\ running \subseteq Requests
  /\ IsFiniteSet(running)
  /\ Cardinality(running) <= Concurrency
PipeShape ==
  /\ cli \in [Sessions -> {"off", "generating", "calling", "over"}]
  /\ pipe \in [Sessions -> Seq(Line)]
ReaderShape == reader \in [Sessions -> Reader]
EventsShape ==
  /\ events \in [Sessions -> Seq(Event)]
  /\ \A s \in Sessions : Len(events[s]) <= EventCap
McpShape == mcp \in [Calls -> McpCall]

Shape ==
  /\ ReqShape /\ RunShape /\ PipeShape /\ ReaderShape /\ EventsShape /\ McpShape

RelayInv ==
  /\ IInv
  /\ Shape
  /\ RequestsInv
  /\ ReadersInv
  /\ OrphansAreInert
  /\ PlacesInv
  /\ ToldInv
  /\ DrivenInv
  /\ ClaimsInv

LEMMA ShapeIsType == IInv /\ Shape => RelayTypeOK
<1> SUFFICES ASSUME IInv, Shape PROVE RelayTypeOK
  OBVIOUS
<1>1. TypeOK  BY DEF IInv
<1>2. /\ req \in [Requests -> Request]
      /\ \A r \in Requests : req[r].left \union req[r].taken \subseteq req[r].results
      /\ running \subseteq Requests /\ Cardinality(running) <= Concurrency
      /\ reader \in [Sessions -> Reader] /\ mcp \in [Calls -> McpCall]
  BY DEF Shape, ReqShape, RunShape, ReaderShape, McpShape
<1>3. PipeShape /\ EventsShape  BY DEF Shape
<1>4. QED
  BY <1>1, <1>2, <1>3, Zenon
     DEF RelayTypeOK, Request, Reader, McpCall, PipeShape, EventsShape

-----------------------------------------------------------------------------
(* Calls the table knows. *)

LEMMA TableSets ==
  ASSUME IInv
  PROVE  /\ table \subseteq Sessions /\ created \subseteq Sessions
         /\ \A s \in Sessions : CallsOf(s) \subseteq Calls
         /\ reaped = created \ table /\ NoSession \notin Sessions
  BY CallsOfMember, SessionsAssumption DEF IInv, TypeOK

LEMMA ToldMember ==
  /\ \A c : c \in Told <=> \E r \in Requests : req[r].outcome = "tools" /\ c \in req[r].calls
  /\ \A c : c \in Sent <=> \E r \in Requests : c \in req[r].results
  BY DEF Told, Sent

LEMMA ToldMemberLater ==
  /\ \A c : c \in Told' <=> \E r \in Requests : req'[r].outcome = "tools" /\ c \in req'[r].calls
  /\ \A c : c \in Sent' <=> \E r \in Requests : c \in req'[r].results
  BY DEF Told, Sent

LEMMA ComingMember ==
  /\ \A s, c : c \in Coming(s) <=> c \in reader[s].ev.calls \/ c \in In(events[s])
  /\ \A s, c : c \in Coming(s)' <=> c \in reader'[s].ev.calls \/ c \in In(events'[s])
  BY DEF Coming, In

(* What the client was told of was announced, and its index entry made. *)
LEMMA ToldIsKnown ==
  ASSUME RelayInv
  PROVE  \A c \in Told : \E s \in Sessions : c \in CallsOf(s) \ toIndex
<1> SUFFICES ASSUME NEW c \in Told
             PROVE  \E s \in Sessions : c \in CallsOf(s) \ toIndex
  OBVIOUS
<1>1. PICK r \in Requests : c \in req[r].calls
  BY ToldMember
<1>2. req[r].sess \in Sessions
  BY <1>1 DEF RelayInv, RequestsInv, Shape, ReqShape, Request
<1>3. QED  BY <1>1, <1>2 DEF RelayInv, PlacesInv

(* Every call is one session's. *)
LEMMA OneOwner ==
  ASSUME IInv, NEW s \in Sessions, NEW t \in Sessions,
         NEW c, c \in CallsOf(s), c \in CallsOf(t)
  PROVE  s = t
  BY DEF IInv, OwnersInv

-----------------------------------------------------------------------------
(* The table's steps, as the relay sees them. *)

(* A step that announces nothing, starts nothing and delivers no result:   *)
(* sessions may leave the table, and what they leave is resolved.          *)
Calm ==
  /\ pending' = pending
  /\ table' \subseteq table
  /\ toIndex' \subseteq toIndex
  /\ claimed \subseteq claimed'
  /\ \A s \in Sessions :
       /\ cmd'[s] = "none" => cmd[s] = "none"
       /\ cmd'[s] = "running" => cmd[s] = "running"
       /\ s \in reaped' => s \in reaped \/ cmd'[s] # "running"
  /\ \A c \in Calls : resolver'[c] = "result" <=> resolver[c] = "result"
  /\ \A s \in table' : \A c \in CallsOf(s) :
       /\ c \in resolved' => c \in resolved
       /\ index[c] = s /\ c \notin resolved => index'[c] = s

LEMMA CalmLists == ASSUME Calm PROVE \A s : CallsOf(s)' = CallsOf(s)
  BY SameLists DEF Calm

LEMMA NothingIsCalm == ASSUME UNCHANGED tableVars PROVE Calm
  BY DEF tableVars, Calm

LEMMA IndexIsCalm ==
  ASSUME IInv, NEW t \in Sessions, IndexRegistered(t)
  PROVE  Calm
<1>1. \A s \in table : \A c \in CallsOf(s) : c \in CallsOf(t) => s = t
  BY TableSets, OneOwner
<1>2. \A s \in table : \A c \in CallsOf(s) : c \in Calls
  BY TableSets
<1>3. QED  BY <1>1, <1>2 DEF IndexRegistered, Calm

LEMMA UnindexIsCalm ==
  ASSUME IInv, NEW d \in Calls, Unindex(d)
  PROVE  Calm
<1>1. d \in resolved  BY DEF Unindex, IInv, GapsInv
<1>2. \A c \in Calls : c # d => index'[c] = index[c]
  BY DEF Unindex, IInv, TypeOK
<1>3. \A s \in table : \A c \in CallsOf(s) : c \in Calls
  BY TableSets
<1>4. QED  BY <1>1, <1>2, <1>3 DEF Unindex, Calm

LEMMA ClaimIsCalm ==
  ASSUME NEW s, NEW sig, Claim(s, sig)
  PROVE  Calm
  BY DEF Claim, Calm

LEMMA ReapIsCalm ==
  ASSUME IInv, NEW S, ReapLocked(S)
  PROVE  Calm /\ table' = table \ S
<1> DEFINE gone == S \intersect table
           left == (UNION {CallsOf(s) : s \in gone}) \ resolved
<1>1. /\ reaped' = reaped \union gone
      /\ resolved' = resolved \union left
      /\ resolver' = [c \in Calls |-> IF c \in left THEN "closed" ELSE resolver[c]]
      /\ cmd' = [s \in Sessions |->
                   IF s \in gone /\ cmd[s] = "running" THEN "killed" ELSE cmd[s]]
      /\ table' = table \ gone
      /\ index' = ClearIndex(gone)
      /\ UNCHANGED <<created, pending, claimed, toIndex, toUnindex>>
  BY DEF ReapLocked
<1>2. \A c : c \in left <=> c \notin resolved /\ \E s \in gone : c \in CallsOf(s)
  OBVIOUS
<1>3. gone \subseteq table /\ table \subseteq Sessions /\ table \ gone = table \ S
  BY TableSets
<1> HIDE DEF gone, left
<1>4. \A s \in table' : \A c \in CallsOf(s) : c \notin left /\ c \in Calls
  BY <1>1, <1>2, <1>3, TableSets, OneOwner
<1>5. \A c \in left : resolver[c] = "empty" \/ c \notin Calls
  BY <1>2 DEF IInv, OutcomesInv
<1>6. \A c \in Calls : resolver'[c] = "result" <=> resolver[c] = "result"
  BY <1>1, <1>5
<1>7. \A s \in table' : \A c \in CallsOf(s) :
        /\ c \in resolved' => c \in resolved
        /\ index[c] = s /\ c \notin resolved => index'[c] = s
  BY <1>1, <1>3, <1>4 DEF ClearIndex
<1>8. \A s \in Sessions :
       /\ cmd'[s] = "none" => cmd[s] = "none"
       /\ cmd'[s] = "running" => cmd[s] = "running"
       /\ s \in reaped' => s \in reaped \/ cmd'[s] # "running"
  BY <1>1
<1>9. QED  BY <1>1, <1>3, <1>6, <1>7, <1>8 DEF Calm

LEMMA ReapSessionIsCalm ==
  ASSUME IInv, NEW s, ReapSession(s)
  PROVE  Calm /\ table' = table \ {s}
  BY ReapIsCalm DEF ReapSession

LEMMA ReapSupersededIsCalm ==
  ASSUME IInv, NEW ids, NEW keep, ReapSuperseded(ids, keep)
  PROVE  Calm /\ table' = table \ ({index[c] : c \in ids} \ {keep, NoSession})
  BY ReapIsCalm DEF ReapSuperseded

(* Whatever the step, it is one the table may take. *)
LEMMA TableSteps ==
  ASSUME RelayInv, [RelayNext]_vars
  PROVE  [Next]_tableVars
<1>0. /\ \A r \in Requests : req[r].sess \in Sessions \union {NoSession}
      /\ \A c \in Calls : mcp[c].for \in Sessions \union {NoSession}
  BY DEF RelayInv, Shape, ReqShape, Request, McpShape, McpCall
<1>1. ASSUME NEW r \in Requests, Supersede(r) PROVE Next
  <2>1. req[r].history \in SUBSET Minted
    BY ToldIsKnown, MintedMember DEF RelayInv, RequestsInv
  <2>2. QED  BY <1>0, <1>1, <2>1 DEF Supersede, Next
<1>2. ASSUME NEW r \in Requests, StartClaudeSession(r) PROVE Next
  <2>1. req[r].sess \in Sessions
    BY <1>2 DEF StartClaudeSession, RelayInv, RequestsInv
  <2>2. QED  BY <1>2, <2>1 DEF StartClaudeSession, Next
<1>3. ASSUME NEW r \in Requests, SpawnFails(r) \/ ReapAndAnswer(r) PROVE Next
  <2>1. req[r].sess \in Sessions
    BY <1>3 DEF SpawnFails, ReapAndAnswer, RelayInv, RequestsInv
  <2>2. QED  BY <1>3, <2>1 DEF SpawnFails, ReapAndAnswer, Next
<1>4. ASSUME NEW r \in Requests, NEW s \in Sessions, StartTurn(r, s) PROVE Next
  BY <1>4 DEF StartTurn, Next
<1>5. ASSUME NEW r \in Requests, NEW c \in Calls, Deliver(r, c)
      PROVE  Next \/ UNCHANGED tableVars
  <2>1. CASE Resolve(req[r].sess, c)
    BY <1>0, <1>5, <2>1 DEF Deliver, Next
  <2>2. QED  BY <1>5, <2>1 DEF Deliver
<1>6. ASSUME NEW r \in Requests, NEW c \in Calls, Forget(r, c) PROVE Next
  BY <1>6 DEF Forget, Next
<1>7. ASSUME NEW s \in Sessions, Sweep(s) PROVE Next
  BY <1>7 DEF Sweep, Next
<1>8. ASSUME NEW s \in Sessions, ReadCalls(s)
      PROVE  Next \/ UNCHANGED tableVars
  <2>1. CASE Register(s, Head(pipe[s]).batch)
    <3>1. Head(pipe[s]).batch \in Batches
      BY <2>1 DEF Register, RegisterUnchecked
    <3>2. QED  BY <2>1, <3>1 DEF Next
  <2>2. QED  BY <1>8, <2>1 DEF ReadCalls, Announce
<1>9. ASSUME NEW s \in Sessions, IndexCalls(s) PROVE Next
  BY <1>9 DEF IndexCalls, Next
<1>10. ASSUME NEW c \in Calls, McpClaim(c) PROVE Next
  <2>1. mcp[c].for \in Sessions
    BY <1>10 DEF McpClaim, RelayInv, ClaimsInv
  <2>2. SignatureOf[c] \in Range(SignatureOf)
    BY CallsAssumption
  <2>3. QED  BY <1>10, <2>1, <2>2 DEF McpClaim, Next
<1>11. ASSUME UNCHANGED vars PROVE UNCHANGED tableVars
  BY <1>11 DEF vars
<1>12. ASSUME NEW r \in Requests,
              \/ SendFresh(r) \/ Acquire(r) \/ GiveUpWaiting(r) \/ TooManySessions(r)
              \/ CollectEvent(r) \/ CollectClosed(r) \/ CollectStops(r)
       PROVE  UNCHANGED tableVars
  BY <1>12 DEF SendFresh, Arrive, Acquire, GiveUpWaiting, TooManySessions,
               CollectEvent, CollectClosed, CollectStops
<1>13. ASSUME NEW r \in Requests, NEW s \in Sessions, SendFollowUp(r, s)
       PROVE  UNCHANGED tableVars
  BY <1>13 DEF SendFollowUp, Arrive
<1>14. ASSUME NEW s \in Sessions,
              \/ CliAnnounce(s) \/ CliGoesOn(s) \/ CliResult(s) \/ CliCrash(s)
              \/ ReadPlain(s) \/ SendEvent(s) \/ ReadEOF(s)
       PROVE  UNCHANGED tableVars
  BY <1>14 DEF CliAnnounce, CliGoesOn, CliResult, CliCrash, ReadPlain, SendEvent, ReadEOF
<1>15. ASSUME NEW c \in Calls, McpArrive(c) \/ McpNeverAnnounced(c) \/ McpAnswer(c)
       PROVE  UNCHANGED tableVars
  BY <1>15 DEF McpArrive, McpNeverAnnounced, McpAnswer
<1>16. QED
  BY <1>1, <1>2, <1>3, <1>4, <1>5, <1>6, <1>7, <1>8, <1>9, <1>10, <1>11, <1>12,
     <1>13, <1>14, <1>15
     DEF RelayNext

-----------------------------------------------------------------------------
(* Steps of a handler that take it to another stage: what the request      *)
(* carries stays, and it does not answer with tool calls.                  *)

Moves(r) ==
  /\ ReqShape'
  /\ \A q \in Requests : q # r => req'[q] = req[q]
  /\ req'[r].results = req[r].results /\ req'[r].history = req[r].history
  /\ req'[r].calls = req[r].calls /\ req'[r].sess = req[r].sess
  /\ req'[r].outcome # "tools"
  /\ req[r].at # "idle" /\ req'[r].at # "idle"

LEMMA ReqUpdate ==
  ASSUME ReqShape, NEW r \in Requests, NEW f \in Request,
         f.left \union f.taken \subseteq f.results,
         req' = [req EXCEPT ![r] = f]
  PROVE  /\ ReqShape' /\ req'[r] = f
         /\ \A q \in Requests : q # r => req'[q] = req[q]
<1>1. /\ req'[r] = f /\ req' \in [Requests -> Request]
      /\ \A q \in Requests : q # r => req'[q] = req[q]
  BY DEF ReqShape
<1>2. \A q \in Requests : req'[q].left \union req'[q].taken \subseteq req'[q].results
  BY <1>1 DEF ReqShape
<1>3. QED  BY <1>1, <1>2 DEF ReqShape

LEMMA ReqFacts ==
  ASSUME ReqShape, NEW r \in Requests
  PROVE  req[r] \in Request /\ req[r].left \union req[r].taken \subseteq req[r].results
  BY DEF ReqShape

LEMMA SetStage ==
  ASSUME ReqShape, NEW r \in Requests, NEW x \in Stages \ {"idle"},
         req[r].at # "idle", req[r].outcome # "tools",
         req' = [req EXCEPT ![r].at = x]
  PROVE  Moves(r) /\ req'[r].at = x
<1> DEFINE e == req[r]
           f == [e EXCEPT !.at = x]
<1>1. e \in Request  BY DEF ReqShape
<1>2. f \in Request  BY <1>1, Zenon DEF Request
<1>3. /\ f.at = x /\ f.results = e.results /\ f.left = e.left /\ f.history = e.history
      /\ f.sess = e.sess /\ f.taken = e.taken /\ f.calls = e.calls
      /\ f.outcome = e.outcome
  BY <1>1 DEF Request
<1>4. req' = [req EXCEPT ![r] = f]  OBVIOUS
<1>5. e.left \union e.taken \subseteq e.results  BY ReqFacts
<1> HIDE DEF f
<1>6. /\ ReqShape' /\ req'[r] = f
      /\ \A q \in Requests : q # r => req'[q] = req[q]
  BY <1>2, <1>3, <1>4, <1>5, ReqUpdate
<1>7. QED  BY <1>3, <1>6 DEF Moves

LEMMA SetOutcome ==
  ASSUME ReqShape, NEW r \in Requests, NEW x \in Stages \ {"idle"},
         NEW o \in Outcomes \ {"tools"}, req[r].at # "idle",
         req' = [req EXCEPT ![r] = [@ EXCEPT !.at = x, !.outcome = o]]
  PROVE  Moves(r) /\ req'[r].at = x
<1> DEFINE e == req[r]
           f == [e EXCEPT !.at = x, !.outcome = o]
<1>1. e \in Request  BY DEF ReqShape
<1>2. f \in Request  BY <1>1, Zenon DEF Request
<1>3. /\ f.at = x /\ f.results = e.results /\ f.left = e.left /\ f.history = e.history
      /\ f.sess = e.sess /\ f.taken = e.taken /\ f.calls = e.calls
      /\ f.outcome = o
  BY <1>1 DEF Request
<1>4. req' = [req EXCEPT ![r] = f]  OBVIOUS
<1>5. e.left \union e.taken \subseteq e.results  BY ReqFacts
<1> HIDE DEF f
<1>6. /\ ReqShape' /\ req'[r] = f
      /\ \A q \in Requests : q # r => req'[q] = req[q]
  BY <1>2, <1>3, <1>4, <1>5, ReqUpdate
<1>7. QED  BY <1>3, <1>6 DEF Moves

(* What moves keep of all requests together. *)
LEMMA MovesKeep ==
  ASSUME RequestsInv, NEW r \in Requests, Moves(r), req[r].at # "done"
  PROVE  /\ Told' = Told /\ Sent' = Sent
         /\ \A q \in Requests : /\ req'[q].calls = req[q].calls
                                /\ req'[q].sess = req[q].sess
<1>1. req[r].outcome # "tools"  BY DEF RequestsInv
<1>2. \A q \in Requests :
        /\ req'[q].calls = req[q].calls /\ req'[q].results = req[q].results
        /\ req'[q].sess = req[q].sess
        /\ req'[q].outcome = "tools" <=> req[q].outcome = "tools"
  BY <1>1 DEF Moves
<1>3. \A c : (c \in Told' <=> c \in Told) /\ (c \in Sent' <=> c \in Sent)
  BY <1>2, ToldMember, ToldMemberLater
<1>4. QED  BY <1>2, <1>3

LEMMA MovesKeepRequests ==
  ASSUME RequestsInv, NEW r \in Requests, Moves(r), req[r].at # "done",
         req'[r].at \in {"unindex", "start", "collect", "reap"} => req[r].sess \in Sessions
  PROVE  RequestsInv'
<1>1. Told' = Told  BY MovesKeep
<1>2. ASSUME NEW q \in Requests
      PROVE  /\ req'[q].at = "idle" =>
                  req'[q].results = {} /\ req'[q].calls = {} /\ req'[q].outcome = "none"
             /\ req'[q].outcome = "tools" => req'[q].at = "done"
             /\ req'[q].at \in {"unindex", "start", "collect", "reap"} => req'[q].sess \in Sessions
             /\ req'[q].sess = NoSession => req'[q].calls = {}
             /\ req'[q].results \union req'[q].history \subseteq Told
  <2>1. CASE q = r  BY <2>1 DEF Moves, RequestsInv
  <2>2. CASE q # r  BY <2>2 DEF Moves, RequestsInv
  <2>3. QED  BY <2>1, <2>2
<1>3. QED  BY <1>1, <1>2, Zenon DEF RequestsInv

-----------------------------------------------------------------------------
(* Each part of the invariant is kept by calm steps that leave its own     *)
(* variables alone.                                                        *)

LEMMA CalmReaders ==
  ASSUME ReadersInv, Calm, reader' = reader,
         \A c \in Calls : mcp'[c].for = mcp[c].for
  PROVE  ReadersInv'
  BY DEF ReadersInv, Calm

LEMMA CalmOrphans ==
  ASSUME OrphansAreInert, Calm, mcp' = mcp, IInv, IInv'
  PROVE  OrphansAreInert'
<1>1. reaped \subseteq Sessions /\ reaped' \subseteq Sessions
  BY DEF IInv, TypeOK
<1>2. QED  BY <1>1 DEF OrphansAreInert, Calm, Running

LEMMA CalmPlaces ==
  ASSUME PlacesInv, Calm, reader' = reader, events' = events,
         \A q \in Requests : req'[q].calls = req[q].calls /\ req'[q].sess = req[q].sess
  PROVE  PlacesInv'
<1>1. \A s : CallsOf(s)' = CallsOf(s)  BY CalmLists
<1>2. \A s : Coming(s)' = Coming(s)  BY DEF Coming
<1>3. toIndex' \subseteq toIndex  BY DEF Calm
<1>4. QED  BY <1>1, <1>2, <1>3 DEF PlacesInv

LEMMA CalmTold ==
  ASSUME ToldInv, Calm, Told \subseteq Told',
         \A s \in table' : Coming(s) \subseteq Coming(s)' \union Told',
         \A s \in table' : \A q \in Requests :
            req[q].sess = s /\ req[q].at \in {"collect", "reap"} =>
              \/ req'[q].sess = s /\ req'[q].at \in {"collect", "reap"}
                   /\ req[q].calls \subseteq req'[q].calls
              \/ req[q].calls \subseteq Told'
  PROVE  ToldInv'
<1>1. \A s : CallsOf(s)' = CallsOf(s)  BY CalmLists
<1> SUFFICES ASSUME NEW s \in table', NEW c \in CallsOf(s)
             PROVE  /\ c \notin Told' => c \notin resolved'
                    /\ \/ c \in Told' \union Coming(s)'
                       \/ \E r \in Requests :
                            /\ req'[r].sess = s /\ req'[r].at \in {"collect", "reap"}
                            /\ c \in req'[r].calls
  BY <1>1 DEF ToldInv
<1>2. s \in table /\ (c \in resolved' => c \in resolved)  BY DEF Calm
<1>3. c \notin Told => c \notin resolved  BY <1>2 DEF ToldInv
<1>4. \/ c \in Told \union Coming(s)
      \/ \E r \in Requests :
            req[r].sess = s /\ req[r].at \in {"collect", "reap"} /\ c \in req[r].calls
  BY <1>2 DEF ToldInv
<1>5. QED  BY <1>2, <1>3, <1>4

LEMMA CalmDriven ==
  ASSUME IInv, ReqShape, DrivenInv, Calm, Told \subseteq Told',
         \A s \in table' : \A q \in Requests : Drives(q, s) => Drives(q, s)'
  PROVE  DrivenInv'
<1> SUFFICES ASSUME NEW s \in table'
             PROVE  \/ \E r \in Requests : Drives(r, s)'
                    \/ \E c \in Told' \ resolved' : index'[c] = s
  BY DEF DrivenInv
<1>1. s \in table /\ s \in Sessions  BY TableSets DEF Calm
<1>2. CASE \E r \in Requests : Drives(r, s)
  BY <1>2
<1>3. ASSUME NEW c \in Told \ resolved, index[c] = s
      PROVE  c \in Told' \ resolved' /\ index'[c] = s
  <2>1. c \in Calls  BY ToldMember, ReqFacts DEF Request
  <2>2. c \in CallsOf(s)  BY <1>1, <1>3, <2>1 DEF IInv, IndexIsFaithful
  <2>3. QED  BY <1>3, <2>2 DEF Calm
<1>4. QED  BY <1>1, <1>2, <1>3 DEF DrivenInv

(* The part of ClaimsInv about a call. *)
ClaimOf(c) ==
  /\ mcp[c].at # "none" => mcp[c].for \in Sessions
  /\ mcp[c].at \in {"none", "owed", "polling"} => mcp[c].took = NoSession
  /\ mcp[c].took # NoSession =>
       /\ mcp[c].took \in claimed
       /\ mcp[c].took \in CallsOf(mcp[c].for)
       /\ SignatureOf[mcp[c].took] = SignatureOf[c]
  /\ mcp[c].at \in {"parked", "result"} => mcp[c].took # NoSession
  /\ mcp[c].at = "result" => resolver[mcp[c].took] = "result"
  /\ resolver[c] = "result" => c \in Told \intersect Sent

OneTaker ==
  \A c, d \in Calls :
    c # d /\ mcp[c].took # NoSession => mcp[d].took # mcp[c].took

LEMMA ClaimsParts ==
  /\ ClaimsInv <=> (\A c \in Calls : ClaimOf(c)) /\ OneTaker
  /\ ClaimsInv' <=> (\A c \in Calls : ClaimOf(c)') /\ OneTaker'
  BY DEF ClaimsInv, ClaimOf, OneTaker

LEMMA CalmClaims ==
  ASSUME ClaimsInv, McpShape, Calm, mcp' = mcp, Told \subseteq Told', Sent \subseteq Sent'
  PROVE  ClaimsInv'
<1>1. \A s : CallsOf(s)' = CallsOf(s)  BY CalmLists
<1>2. OneTaker'  BY ClaimsParts DEF OneTaker
<1>3. ASSUME NEW c \in Calls PROVE ClaimOf(c)'
  <2>1. ClaimOf(c)  BY ClaimsParts
  <2>2. claimed \subseteq claimed' /\ (resolver'[c] = "result" => resolver[c] = "result")
    BY DEF Calm
  <2>3. mcp[c].at = "result" => resolver'[mcp[c].took] = "result"
    <3>1. mcp[c].took \in Calls \union {NoSession}
      BY DEF McpShape, McpCall
    <3>2. QED  BY <2>1, <3>1 DEF ClaimOf, Calm
  <2>4. QED  BY <1>1, <2>1, <2>2, <2>3 DEF ClaimOf
<1>4. QED  BY <1>2, <1>3, ClaimsParts

-----------------------------------------------------------------------------
(* The handler's steps that are calm for the table.                        *)

LEMMA TableInvariant ==
  ASSUME RelayInv, [RelayNext]_vars
  PROVE  IInv'
  BY TableSteps, StepInvariant DEF RelayInv

(* One lemma for them: the request moves on, the rest stands still.  What   *)
(* it drives it goes on driving, or the session is out of the table.       *)
LEMMA CalmMove ==
  ASSUME RelayInv, IInv', Calm, NEW r \in Requests, Moves(r), req[r].at # "done",
         RunShape', UNCHANGED <<cli, pipe, reader, events, mcp>>,
         req'[r].at \in {"unindex", "start", "collect", "reap"} => req[r].sess \in Sessions,
         req[r].sess \in table' /\ req[r].at \in {"collect", "reap"} =>
           req'[r].at \in {"collect", "reap"},
         req[r].sess \in table' /\ Drives(r, req[r].sess) =>
           req'[r].at \in {"resolve", "unindex", "start", "collect", "reap"}
  PROVE  RelayInv'
<1>1. /\ Told' = Told /\ Sent' = Sent
      /\ \A q \in Requests : req'[q].calls = req[q].calls /\ req'[q].sess = req[q].sess
  BY MovesKeep DEF RelayInv
<1>2. \A s : Coming(s)' = Coming(s)  BY DEF Coming
<1>3. Shape'
  <2>1. ReqShape'  BY DEF Moves
  <2>2. PipeShape' /\ ReaderShape' /\ EventsShape' /\ McpShape'
    BY DEF RelayInv, Shape, PipeShape, ReaderShape, EventsShape, McpShape
  <2>3. QED  BY <2>1, <2>2 DEF Shape
<1>4. RequestsInv'  BY MovesKeepRequests DEF RelayInv
<1>5. ReadersInv'  BY CalmReaders DEF RelayInv
<1>6. OrphansAreInert'  BY CalmOrphans DEF RelayInv
<1>7. PlacesInv'  BY <1>1, CalmPlaces DEF RelayInv
<1>8. \A s \in table' : \A q \in Requests :
        req[q].sess = s /\ req[q].at \in {"collect", "reap"} =>
          req'[q].sess = s /\ req'[q].at \in {"collect", "reap"}
  BY <1>1 DEF Moves
<1>9. ToldInv'  BY <1>1, <1>2, <1>8, CalmTold DEF RelayInv
<1>10. \A s \in table' : \A q \in Requests : Drives(q, s) => Drives(q, s)'
  BY <1>1 DEF Moves, Drives
<1>11. DrivenInv'  BY <1>1, <1>10, CalmDriven DEF RelayInv, Shape
<1>12. ClaimsInv'  BY <1>1, CalmClaims DEF RelayInv, Shape
<1>13. QED
  BY <1>3, <1>4, <1>5, <1>6, <1>7, <1>9, <1>11, <1>12 DEF RelayInv

(* A request before its answer, and what its stage says of its session.    *)
LEMMA Underway ==
  ASSUME RelayInv, NEW r \in Requests, req[r].at # "done"
  PROVE  /\ ReqShape /\ RunShape /\ IInv
         /\ req[r].outcome # "tools"
         /\ req[r].at \in {"unindex", "start", "collect", "reap"} => req[r].sess \in Sessions
         /\ req[r].sess \in Sessions \union {NoSession}
  BY ReqFacts DEF RelayInv, Shape, RequestsInv, Request

LEMMA SameSlots == ASSUME RunShape, running' = running PROVE RunShape'
  BY DEF RunShape

LEMMA GiveSlotBack ==
  ASSUME RunShape, NEW r, running' = running \ {r}
  PROVE  RunShape'
<1>1. /\ IsFiniteSet(running') /\ Cardinality(running') <= Cardinality(running)
      /\ Cardinality(running') \in Nat /\ Cardinality(running) \in Nat
  BY FS_Subset, FS_CardinalityType DEF RunShape
<1>2. QED  BY <1>1, CapsAssumption DEF RunShape

LEMMA TakeSlot ==
  ASSUME RunShape, NEW r \in Requests, Cardinality(running) < Concurrency,
         running' = running \union {r}
  PROVE  RunShape'
<1>1. /\ IsFiniteSet(running') /\ Cardinality(running) \in Nat
      /\ Cardinality(running') = Cardinality(running)
           \/ Cardinality(running') = Cardinality(running) + 1
  BY FS_AddElement, FS_CardinalityType DEF RunShape
<1>2. QED  BY <1>1, CapsAssumption DEF RunShape

LEMMA SupersedeStep ==
  ASSUME RelayInv, IInv', NEW r \in Requests, Supersede(r)
  PROVE  RelayInv'
<1>1. /\ req[r].at = "supersede" /\ req' = [req EXCEPT ![r].at = "acquire"]
      /\ UNCHANGED <<running, cli, pipe, reader, events, mcp>>
      /\ ReapSuperseded(req[r].history, req[r].sess)
  BY DEF Supersede
<1>2. Calm  BY <1>1, ReapSupersededIsCalm, Underway
<1>3. Moves(r) /\ req'[r].at = "acquire"
  BY <1>1, Underway, SetStage DEF Stages
<1>4. RunShape'  BY <1>1, Underway, SameSlots
<1>5. QED  BY <1>1, <1>2, <1>3, <1>4, CalmMove DEF Drives

LEMMA AcquireStep ==
  ASSUME RelayInv, IInv', NEW r \in Requests, Acquire(r)
  PROVE  RelayInv'
<1>1. /\ req[r].at = "acquire" /\ req' = [req EXCEPT ![r].at = "resolve"]
      /\ Cardinality(running) < Concurrency /\ running' = running \union {r}
      /\ UNCHANGED <<tableVars, cli, pipe, reader, events, mcp>>
  BY DEF Acquire
<1>2. Calm  BY <1>1, NothingIsCalm
<1>3. Moves(r) /\ req'[r].at = "resolve"
  BY <1>1, Underway, SetStage DEF Stages
<1>4. RunShape'  BY <1>1, Underway, TakeSlot
<1>5. QED  BY <1>1, <1>2, <1>3, <1>4, CalmMove DEF Drives

(* Finish with an answer that is not a list of calls. *)
LEMMA FinishStep ==
  ASSUME RelayInv, IInv', NEW r \in Requests, NEW o \in Outcomes \ {"tools"},
         req[r].at \notin {"idle", "done"}, Finish(r, o), Calm,
         UNCHANGED <<cli, pipe, reader, events, mcp>>,
         req[r].at \in {"acquire"} \/ req[r].sess \notin table'
  PROVE  RelayInv'
<1>1. /\ req' = [req EXCEPT ![r] = [@ EXCEPT !.at = "done", !.outcome = o]]
      /\ running' = running \ {r}
  BY DEF Finish
<1>2. Moves(r) /\ req'[r].at = "done"
  BY <1>1, Underway, SetOutcome DEF Stages
<1>3. RunShape'  BY <1>1, Underway, GiveSlotBack
<1>4. QED  BY <1>1, <1>2, <1>3, CalmMove DEF Drives

LEMMA GiveUpWaitingStep ==
  ASSUME RelayInv, IInv', NEW r \in Requests, GiveUpWaiting(r)
  PROVE  RelayInv'
<1>1. /\ req[r].at = "acquire" /\ Finish(r, "gone")
      /\ UNCHANGED <<tableVars, cli, pipe, reader, events, mcp>>
  BY DEF GiveUpWaiting
<1>2. Calm  BY <1>1, NothingIsCalm
<1>3. QED  BY <1>1, <1>2, FinishStep DEF Outcomes

LEMMA TooManySessionsStep ==
  ASSUME RelayInv, IInv', NEW r \in Requests, TooManySessions(r)
  PROVE  RelayInv'
<1>1. /\ req[r].at = "resolve" /\ req[r].sess = NoSession /\ Finish(r, "busy")
      /\ UNCHANGED <<tableVars, cli, pipe, reader, events, mcp>>
  BY DEF TooManySessions
<1>2. Calm  BY <1>1, NothingIsCalm
<1>3. req[r].sess \notin table'
  BY <1>1, <1>2, TableSets DEF RelayInv, Calm
<1>4. QED  BY <1>1, <1>2, <1>3, FinishStep DEF Outcomes

LEMMA SpawnFailsStep ==
  ASSUME RelayInv, IInv', NEW r \in Requests, SpawnFails(r)
  PROVE  RelayInv'
<1>1. /\ req[r].at = "start" /\ ReapSession(req[r].sess) /\ Finish(r, "spawn_failed")
      /\ UNCHANGED <<cli, pipe, reader, events, mcp>>
  BY DEF SpawnFails
<1>2. Calm /\ table' = table \ {req[r].sess}
  BY <1>1, ReapSessionIsCalm DEF RelayInv
<1>3. QED  BY <1>1, <1>2, FinishStep DEF Outcomes

LEMMA ReapAndAnswerStep ==
  ASSUME RelayInv, IInv', NEW r \in Requests, ReapAndAnswer(r)
  PROVE  RelayInv'
<1>1. /\ req[r].at = "reap" /\ ReapSession(req[r].sess) /\ Finish(r, req[r].outcome)
      /\ UNCHANGED <<cli, pipe, reader, events, mcp>>
  BY DEF ReapAndAnswer
<1>2. Calm /\ table' = table \ {req[r].sess}
  BY <1>1, ReapSessionIsCalm DEF RelayInv
<1>3. req[r].outcome \in Outcomes \ {"tools"}
  BY <1>1, Underway, ReqFacts DEF Request
<1>4. QED  BY <1>1, <1>2, <1>3, FinishStep

LEMMA TurnOverStep ==
  ASSUME RelayInv, IInv', NEW r \in Requests, NEW o \in Outcomes \ {"tools"},
         req[r].at = "collect", TurnOver(r, o),
         UNCHANGED <<tableVars, running, cli, pipe, reader, events, mcp>>
  PROVE  RelayInv'
<1>1. req' = [req EXCEPT ![r] = [@ EXCEPT !.at = "reap", !.outcome = o]]
  BY DEF TurnOver
<1>2. Moves(r) /\ req'[r].at = "reap"
  BY <1>1, Underway, SetOutcome DEF Stages
<1>3. RunShape' /\ Calm  BY Underway, SameSlots, NothingIsCalm
<1>4. QED  BY <1>2, <1>3, Underway, CalmMove

LEMMA CollectClosedStep ==
  ASSUME RelayInv, IInv', NEW r \in Requests, CollectClosed(r)
  PROVE  RelayInv'
  BY TurnOverStep DEF CollectClosed, Outcomes

LEMMA CollectStopsStep ==
  ASSUME RelayInv, IInv', NEW r \in Requests, CollectStops(r)
  PROVE  RelayInv'
  BY TurnOverStep DEF CollectStops, Outcomes

LEMMA ForgetStep ==
  ASSUME RelayInv, IInv', NEW r \in Requests, NEW c \in Calls, Forget(r, c)
  PROVE  RelayInv'
<1>1. /\ req[r].at = "unindex" /\ req' = [req EXCEPT ![r].at = Delivering(req[r].left)]
      /\ Unindex(c) /\ UNCHANGED <<running, cli, pipe, reader, events, mcp>>
  BY DEF Forget
<1>2. Delivering(req[r].left) \in {"collect", "resolve"}
  BY DEF Delivering
<1>3. Calm  BY <1>1, UnindexIsCalm DEF RelayInv
<1>4. Moves(r) /\ req'[r].at \in {"collect", "resolve"}
  BY <1>1, <1>2, Underway, SetStage DEF Stages
<1>5. RunShape'  BY <1>1, Underway, SameSlots
<1>6. QED  BY <1>1, <1>3, <1>4, <1>5, Underway, CalmMove

(* A result for a call that is not this session's, or resolved already. *)
LEMMA SkipResult ==
  ASSUME ReqShape, NEW r \in Requests, NEW c, NEW x \in Stages \ {"idle"},
         req[r].at # "idle", req[r].outcome # "tools",
         req' = [req EXCEPT ![r] = [@ EXCEPT !.at = x, !.left = req[r].left \ {c}]]
  PROVE  Moves(r) /\ req'[r].at = x
<1> DEFINE e == req[r]
           f == [e EXCEPT !.at = x, !.left = e.left \ {c}]
<1>1. e \in Request  BY DEF ReqShape
<1>2. e.left \ {c} \in SUBSET Calls  BY <1>1 DEF Request
<1>3. f \in Request  BY <1>1, <1>2, Zenon DEF Request
<1>4. /\ f.at = x /\ f.results = e.results /\ f.left = e.left \ {c}
      /\ f.history = e.history /\ f.sess = e.sess /\ f.taken = e.taken
      /\ f.calls = e.calls /\ f.outcome = e.outcome
  BY <1>1 DEF Request
<1>5. req' = [req EXCEPT ![r] = f]  OBVIOUS
<1>6. e.left \union e.taken \subseteq e.results  BY ReqFacts
<1> HIDE DEF f
<1>7. /\ ReqShape' /\ req'[r] = f
      /\ \A q \in Requests : q # r => req'[q] = req[q]
  BY <1>3, <1>4, <1>5, <1>6, ReqUpdate
<1>8. QED  BY <1>4, <1>7 DEF Moves

LEMMA DeliverUnknownStep ==
  ASSUME RelayInv, IInv', NEW r \in Requests, NEW c \in Calls, Deliver(r, c),
         c \notin CallsOf(req[r].sess) \ resolved
  PROVE  RelayInv'
<1> DEFINE x == Delivering(req[r].left \ {c})
<1>1. /\ req[r].at = "resolve" /\ req[r].sess # NoSession
      /\ req' = [req EXCEPT ![r] = [@ EXCEPT !.at = x, !.left = req[r].left \ {c}]]
      /\ UNCHANGED <<tableVars, running, cli, pipe, reader, events, mcp>>
  BY DEF Deliver
<1>2. x \in {"collect", "resolve"}
  BY DEF Delivering
<1> HIDE DEF x
<1>3. Calm  BY <1>1, NothingIsCalm
<1>4. Moves(r) /\ req'[r].at \in {"collect", "resolve"}
  BY <1>1, <1>2, Underway, SkipResult DEF Stages
<1>5. RunShape'  BY <1>1, Underway, SameSlots
<1>6. req[r].sess \in Sessions  BY <1>1, Underway
<1>7. QED  BY <1>1, <1>3, <1>4, <1>5, <1>6, CalmMove

-----------------------------------------------------------------------------
(* A result for a call the session waits for.                              *)

LEMMA TakeResult ==
  ASSUME ReqShape, NEW r \in Requests, NEW c,
         c \in req[r].left,
         req[r].at # "idle", req[r].outcome # "tools",
         req' = [req EXCEPT ![r] = [@ EXCEPT !.at = "unindex",
                                             !.left = req[r].left \ {c},
                                             !.taken = req[r].taken \union {c}]]
  PROVE  Moves(r) /\ req'[r].at = "unindex"
<1> DEFINE e == req[r]
           f == [e EXCEPT !.at = "unindex", !.left = e.left \ {c},
                          !.taken = e.taken \union {c}]
<1>1. e \in Request  BY DEF ReqShape
<1>2. e.left \union e.taken \subseteq e.results  BY ReqFacts
<1>3. e.left \ {c} \in SUBSET Calls /\ e.taken \union {c} \in SUBSET Calls
      /\ "unindex" \in Stages
  BY <1>1, <1>2 DEF Request, Stages
<1>4. f \in Request  BY <1>1, <1>3, Zenon DEF Request
<1>5. /\ f.at = "unindex" /\ f.results = e.results /\ f.left = e.left \ {c}
      /\ f.history = e.history /\ f.sess = e.sess /\ f.taken = e.taken \union {c}
      /\ f.calls = e.calls /\ f.outcome = e.outcome
  BY <1>1 DEF Request
<1>6. req' = [req EXCEPT ![r] = f]  OBVIOUS
<1>7. f.left \union f.taken \subseteq f.results  BY <1>2, <1>5
<1> HIDE DEF f
<1>8. /\ ReqShape' /\ req'[r] = f
      /\ \A q \in Requests : q # r => req'[q] = req[q]
  BY <1>4, <1>6, <1>7, ReqUpdate
<1>9. QED  BY <1>5, <1>8 DEF Moves

LEMMA DeliverKnownStep ==
  ASSUME RelayInv, IInv', NEW r \in Requests, NEW c \in Calls, Deliver(r, c),
         c \in CallsOf(req[r].sess) \ resolved
  PROVE  RelayInv'
<1> DEFINE s == req[r].sess
<1>1. /\ req[r].at = "resolve" /\ s # NoSession /\ c \in req[r].left
      /\ Resolve(s, c)
      /\ req' = [req EXCEPT ![r] = [@ EXCEPT !.at = "unindex",
                                             !.left = req[r].left \ {c},
                                             !.taken = req[r].taken \union {c}]]
      /\ UNCHANGED <<running, cli, pipe, reader, events, mcp>>
  BY DEF Deliver
<1>2. /\ resolved' = resolved \union {c}
      /\ resolver' = [resolver EXCEPT ![c] = "result"]
      /\ UNCHANGED <<created, table, index, pending, reaped, cmd, claimed, toIndex>>
  BY <1>1 DEF Resolve, ResolveUnchecked, Send
<1>3. s \in Sessions  BY <1>1, Underway
<1>4. c \in Told /\ c \in Sent
  <2>1. c \in req[r].results  BY <1>1, ReqFacts, Underway
  <2>2. QED  BY <2>1, ToldMember DEF RelayInv, RequestsInv
<1>5. Moves(r) /\ req'[r].at = "unindex"
  BY <1>1, Underway, TakeResult
<1>6. /\ Told' = Told /\ Sent' = Sent
      /\ \A q \in Requests : req'[q].calls = req[q].calls /\ req'[q].sess = req[q].sess
  BY <1>1, <1>5, MovesKeep DEF RelayInv
<1>7. \A t : CallsOf(t)' = CallsOf(t)  BY <1>2, SameLists
<1>8. \A t : Coming(t)' = Coming(t)  BY <1>1 DEF Coming
<1>9. Shape'
  <2>1. ReqShape'  BY <1>5 DEF Moves
  <2>2. RunShape' /\ PipeShape' /\ ReaderShape' /\ EventsShape' /\ McpShape'
    BY <1>1 DEF RelayInv, Shape, RunShape, PipeShape, ReaderShape, EventsShape, McpShape
  <2>3. QED  BY <2>1, <2>2 DEF Shape
<1>10. RequestsInv'  BY <1>1, <1>3, <1>5, MovesKeepRequests DEF RelayInv
<1>11. ReadersInv'  BY <1>1, <1>2 DEF RelayInv, ReadersInv
<1>12. OrphansAreInert'  BY <1>1, <1>2 DEF RelayInv, OrphansAreInert, Running
<1>13. PlacesInv'  BY <1>1, <1>2, <1>6, <1>7, <1>8 DEF RelayInv, PlacesInv
<1>14. ToldInv'
  <2> SUFFICES ASSUME NEW t \in table, NEW d \in CallsOf(t)
               PROVE  /\ d \notin Told => d \notin resolved'
                      /\ \/ d \in Told \union Coming(t)
                         \/ \E q \in Requests :
                              /\ req'[q].sess = t /\ req'[q].at \in {"collect", "reap"}
                              /\ d \in req'[q].calls
    BY <1>2, <1>6, <1>7, <1>8 DEF ToldInv
  <2>1. d \notin Told => d \notin resolved  BY DEF RelayInv, ToldInv
  <2>2. \/ d \in Told \union Coming(t)
        \/ \E q \in Requests :
             req[q].sess = t /\ req[q].at \in {"collect", "reap"} /\ d \in req[q].calls
    BY DEF RelayInv, ToldInv
  <2>3. \A q \in Requests : req[q].at \in {"collect", "reap"} =>
           req'[q].at \in {"collect", "reap"}
    BY <1>1, <1>5 DEF Moves
  <2>4. QED  BY <1>2, <1>4, <1>6, <2>1, <2>2, <2>3
<1>15. DrivenInv'
  <2> SUFFICES ASSUME NEW t \in table
               PROVE  \/ \E q \in Requests : Drives(q, t)'
                      \/ \E d \in Told \ resolved' : index[d] = t
    BY <1>2, <1>6 DEF DrivenInv
  <2>1. t = s => Drives(r, t)'  BY <1>5, <1>6 DEF Drives
  <2>2. \A q \in Requests : Drives(q, t) => Drives(q, t)'
    BY <1>5, <1>6 DEF Drives, Moves
  <2>3. ASSUME NEW d \in Told \ resolved, index[d] = t
        PROVE  d \notin resolved' \/ Drives(r, t)'
    <3>1. CASE d = c
      <4>1. t \in Sessions /\ IInv  BY TableSets DEF RelayInv
      <4>2. c \in CallsOf(t)
        BY <2>3, <3>1, <4>1 DEF IInv, IndexIsFaithful
      <4>3. t = s  BY <1>3, <4>1, <4>2, OneOwner
      <4>4. QED  BY <2>1, <4>3
    <3>2. QED  BY <1>2, <3>1
  <2>4. QED  BY <2>2, <2>3 DEF RelayInv, DrivenInv
<1>16. ClaimsInv'
  <2>1. \A d \in Calls : resolver'[d] = IF d = c THEN "result" ELSE resolver[d]
    BY <1>2 DEF RelayInv, IInv, TypeOK
  <2>2. OneTaker'  BY <1>1, ClaimsParts DEF RelayInv, OneTaker
  <2>3. ASSUME NEW d \in Calls PROVE ClaimOf(d)'
    <3>1. ClaimOf(d)  BY ClaimsParts DEF RelayInv
    <3>2. mcp[d].at = "result" => resolver'[mcp[d].took] = "result"
      <4>1. mcp[d].took \in Calls \union {NoSession}
        BY DEF RelayInv, Shape, McpShape, McpCall
      <4>2. QED  BY <2>1, <3>1, <4>1 DEF ClaimOf
    <3>3. QED  BY <1>1, <1>2, <1>4, <1>6, <1>7, <2>1, <3>1, <3>2 DEF ClaimOf
  <2>4. QED  BY <2>2, <2>3, ClaimsParts
<1>17. QED
  BY <1>9, <1>10, <1>11, <1>12, <1>13, <1>14, <1>15, <1>16 DEF RelayInv

-----------------------------------------------------------------------------
(* A request comes in, and a session begins.                               *)

(* Parts whose variables a step leaves alone. *)
LEMMA SameShapes ==
  ASSUME Shape, ReqShape', RunShape', UNCHANGED <<cli, pipe, reader, events, mcp>>
  PROVE  Shape'
  BY DEF Shape, PipeShape, ReaderShape, EventsShape, McpShape

LEMMA ToldInCalls == ASSUME ReqShape PROVE Told \subseteq Calls
  BY ToldMember, ReqFacts DEF Request

LEMMA ArriveStep ==
  ASSUME RelayInv, IInv', NEW r \in Requests,
         NEW results \in SUBSET Told, NEW history \in SUBSET Told,
         Arrive(r, results, history)
  PROVE  RelayInv'
<1>1. PICK s \in table \union {NoSession} :
        req' = [req EXCEPT ![r] = [@ EXCEPT !.at = "supersede", !.results = results,
                                            !.left = results, !.history = history,
                                            !.sess = s]]
  BY DEF Arrive
<1>2. /\ req[r].at = "idle"
      /\ UNCHANGED <<tableVars, running, cli, pipe, reader, events, mcp>>
  BY DEF Arrive
<1>3. s \in Sessions \union {NoSession}  BY TableSets DEF RelayInv
<1> DEFINE e == req[r]
           f == [e EXCEPT !.at = "supersede", !.results = results, !.left = results,
                          !.history = history, !.sess = s]
<1>4. e \in Request /\ e.left \union e.taken \subseteq e.results /\ ReqShape
  BY ReqFacts DEF RelayInv, Shape
<1>5. results \in SUBSET Calls /\ history \in SUBSET Calls /\ "supersede" \in Stages
  BY <1>4, ToldInCalls DEF Stages
<1>6. f \in Request  BY <1>3, <1>4, <1>5, Zenon DEF Request
<1>7. /\ f.at = "supersede" /\ f.results = results /\ f.left = results
      /\ f.history = history /\ f.sess = s /\ f.taken = e.taken
      /\ f.calls = e.calls /\ f.outcome = e.outcome
  BY <1>4 DEF Request
<1>8. e.results = {} /\ e.calls = {} /\ e.outcome = "none"
  BY <1>2 DEF RelayInv, RequestsInv
<1>9. req' = [req EXCEPT ![r] = f]  BY <1>1
<1> HIDE DEF f
<1>10. /\ ReqShape' /\ req'[r] = f
       /\ \A q \in Requests : q # r => req'[q] = req[q]
  BY <1>4, <1>6, <1>7, <1>8, <1>9, ReqUpdate
<1>11. \A q \in Requests :
         /\ req'[q].calls = req[q].calls /\ req'[q].outcome = req[q].outcome
         /\ req[q].results \subseteq req'[q].results
  BY <1>7, <1>8, <1>10
<1>12. Told' = Told
  <2>1. \A c : c \in Told' <=> c \in Told
    BY <1>11, ToldMember, ToldMemberLater
  <2>2. QED  BY <2>1
<1>13. Sent \subseteq Sent'
  BY <1>11, ToldMember, ToldMemberLater
<1>14. Calm  BY <1>2, NothingIsCalm
<1>15. Shape'
  <2>1. RunShape'  BY <1>2, SameSlots DEF RelayInv, Shape
  <2>2. QED  BY <1>2, <1>10, <2>1, SameShapes DEF RelayInv
<1>16. RequestsInv'
  <2>1. ASSUME NEW q \in Requests
        PROVE  /\ req'[q].at = "idle" =>
                    req'[q].results = {} /\ req'[q].calls = {} /\ req'[q].outcome = "none"
               /\ req'[q].outcome = "tools" => req'[q].at = "done"
               /\ req'[q].at \in {"unindex", "start", "collect", "reap"} => req'[q].sess \in Sessions
               /\ req'[q].sess = NoSession => req'[q].calls = {}
               /\ req'[q].results \union req'[q].history \subseteq Told
    <3>1. CASE q = r  BY <1>7, <1>8, <1>10, <3>1
    <3>2. CASE q # r  BY <1>10, <3>2 DEF RelayInv, RequestsInv
    <3>3. QED  BY <3>1, <3>2
  <2>2. QED  BY <1>12, <2>1, Zenon DEF RequestsInv
<1>17. ReadersInv'  BY <1>2, <1>14, CalmReaders DEF RelayInv
<1>18. OrphansAreInert'  BY <1>2, <1>14, CalmOrphans DEF RelayInv
<1>19. PlacesInv'
  <2>1. \A t : Coming(t)' = Coming(t)  BY <1>2 DEF Coming
  <2>2. \A t : CallsOf(t)' = CallsOf(t)  BY <1>14, CalmLists
  <2>3. toIndex' = toIndex /\ reader' = reader /\ events' = events
    BY <1>2 DEF tableVars
  <2>4. \A q \in Requests : req'[q].sess = req[q].sess \/ req'[q].calls = {}
    BY <1>8, <1>10, <1>11
  <2>5. QED  BY <1>11, <2>1, <2>2, <2>3, <2>4 DEF RelayInv, PlacesInv
<1>20. ToldInv'
  <2>1. \A t : Coming(t)' = Coming(t)  BY <1>2 DEF Coming
  <2>2. QED  BY <1>2, <1>10, <1>12, <1>14, <2>1, CalmTold DEF RelayInv
<1>21. DrivenInv'
  <2>1. \A t \in table' : \A q \in Requests : Drives(q, t) => Drives(q, t)'
    BY <1>2, <1>10 DEF Drives
  <2>2. QED  BY <1>4, <1>12, <1>14, <2>1, CalmDriven DEF RelayInv
<1>22. ClaimsInv'  BY <1>2, <1>12, <1>13, <1>14, CalmClaims DEF RelayInv, Shape
<1>23. QED
  BY <1>15, <1>16, <1>17, <1>18, <1>19, <1>20, <1>21, <1>22 DEF RelayInv

LEMMA SendFollowUpStep ==
  ASSUME RelayInv, IInv', NEW r \in Requests, NEW s \in Sessions, SendFollowUp(r, s)
  PROVE  RelayInv'
  BY ArriveStep DEF SendFollowUp

LEMMA SendFreshStep ==
  ASSUME RelayInv, IInv', NEW r \in Requests, SendFresh(r)
  PROVE  RelayInv'
  BY ArriveStep DEF SendFresh

LEMMA StartTurnStep ==
  ASSUME RelayInv, IInv', NEW r \in Requests, NEW s \in Sessions, StartTurn(r, s)
  PROVE  RelayInv'
<1>1. /\ req[r].at = "resolve" /\ req[r].sess = NoSession /\ CreateSession(s)
      /\ req' = [req EXCEPT ![r] = [@ EXCEPT !.at = "start", !.sess = s]]
      /\ UNCHANGED <<running, cli, pipe, reader, events, mcp>>
  BY DEF StartTurn
<1>2. /\ s \notin created /\ table' = table \union {s}
      /\ UNCHANGED <<index, pending, reaped, cmd, claimed, resolved, resolver, toIndex>>
  BY <1>1 DEF CreateSession
<1> DEFINE e == req[r]
           f == [e EXCEPT !.at = "start", !.sess = s]
<1>3. e \in Request /\ e.left \union e.taken \subseteq e.results /\ ReqShape
  BY ReqFacts DEF RelayInv, Shape
<1>4. f \in Request
  <2>1. "start" \in Stages /\ s \in Sessions \union {NoSession}  BY DEF Stages
  <2>2. QED  BY <1>3, <2>1, Zenon DEF Request
<1>5. /\ f.at = "start" /\ f.results = e.results /\ f.left = e.left
      /\ f.history = e.history /\ f.sess = s /\ f.taken = e.taken
      /\ f.calls = e.calls /\ f.outcome = e.outcome
  BY <1>3 DEF Request
<1>6. req' = [req EXCEPT ![r] = f]  BY <1>1
<1>7. e.calls = {} /\ e.outcome # "tools"
  BY <1>1 DEF RelayInv, RequestsInv
<1> HIDE DEF f
<1>8. /\ ReqShape' /\ req'[r] = f
      /\ \A q \in Requests : q # r => req'[q] = req[q]
  BY <1>3, <1>4, <1>5, <1>6, ReqUpdate
<1>9. \A q \in Requests :
        /\ req'[q].calls = req[q].calls /\ req'[q].outcome = req[q].outcome
        /\ req[q].results = req'[q].results
  BY <1>5, <1>8
<1>10. Told' = Told /\ Sent' = Sent
  <2>1. \A c : (c \in Told' <=> c \in Told) /\ (c \in Sent' <=> c \in Sent)
    BY <1>9, ToldMember, ToldMemberLater
  <2>2. QED  BY <2>1
<1>11. \A t : CallsOf(t)' = CallsOf(t)  BY <1>2, SameLists
<1>12. \A t : Coming(t)' = Coming(t)  BY <1>1 DEF Coming
<1>13. Shape'
  <2>1. RunShape'  BY <1>1, SameSlots DEF RelayInv, Shape
  <2>2. QED  BY <1>1, <1>8, <2>1, SameShapes DEF RelayInv
<1>14. RequestsInv'
  <2>1. ASSUME NEW q \in Requests
        PROVE  /\ req'[q].at = "idle" =>
                    req'[q].results = {} /\ req'[q].calls = {} /\ req'[q].outcome = "none"
               /\ req'[q].outcome = "tools" => req'[q].at = "done"
               /\ req'[q].at \in {"unindex", "start", "collect", "reap"} => req'[q].sess \in Sessions
               /\ req'[q].sess = NoSession => req'[q].calls = {}
               /\ req'[q].results \union req'[q].history \subseteq Told
    <3>1. CASE q = r
      <4>1. e.results \union e.history \subseteq Told  BY DEF RelayInv, RequestsInv
      <4>2. QED  BY <1>5, <1>7, <1>8, <3>1, <4>1
    <3>2. CASE q # r  BY <1>8, <3>2 DEF RelayInv, RequestsInv
    <3>3. QED  BY <3>1, <3>2
  <2>2. QED  BY <1>10, <2>1, Zenon DEF RequestsInv
<1>15. ReadersInv'  BY <1>1, <1>2 DEF RelayInv, ReadersInv
<1>16. OrphansAreInert'  BY <1>1, <1>2 DEF RelayInv, OrphansAreInert, Running
<1>17. PlacesInv'
  <2>1. \A q \in Requests : req'[q].sess = req[q].sess \/ req'[q].calls = {}
    BY <1>5, <1>7, <1>8
  <2>2. QED  BY <1>1, <1>2, <1>9, <1>11, <1>12, <2>1 DEF RelayInv, PlacesInv
<1>18. CallsOf(s) = {}
  BY <1>2 DEF RelayInv, IInv, OwnersInv
<1>19. ToldInv'
  <2> SUFFICES ASSUME NEW t \in table, NEW d \in CallsOf(t)
               PROVE  /\ d \notin Told => d \notin resolved
                      /\ \/ d \in Told \union Coming(t)
                         \/ \E q \in Requests :
                              /\ req'[q].sess = t /\ req'[q].at \in {"collect", "reap"}
                              /\ d \in req'[q].calls
    BY <1>2, <1>10, <1>11, <1>12, <1>18 DEF ToldInv
  <2>1. \/ d \in Told \union Coming(t)
        \/ \E q \in Requests :
             req[q].sess = t /\ req[q].at \in {"collect", "reap"} /\ d \in req[q].calls
    BY DEF RelayInv, ToldInv
  <2>2. \A q \in Requests : d \in req[q].calls => q # r
    BY <1>7
  <2>3. QED  BY <1>8, <2>1, <2>2 DEF RelayInv, ToldInv
<1>20. DrivenInv'
  <2> SUFFICES ASSUME NEW t \in table'
               PROVE  \/ \E q \in Requests : Drives(q, t)'
                      \/ \E d \in Told \ resolved : index[d] = t
    BY <1>2, <1>10 DEF DrivenInv
  <2>1. CASE t = s  BY <1>5, <1>8, <2>1 DEF Drives
  <2>2. CASE t # s
    <3>1. t \in table /\ t # NoSession  BY <1>2, <2>2, TableSets DEF RelayInv
    <3>2. \A q \in Requests : Drives(q, t) => Drives(q, t)'
      BY <1>1, <1>8, <3>1 DEF Drives
    <3>3. QED  BY <3>1, <3>2 DEF RelayInv, DrivenInv
  <2>3. QED  BY <2>1, <2>2
<1>21. ClaimsInv'
  BY <1>1, <1>2, <1>10, <1>11 DEF RelayInv, ClaimsInv
<1>22. QED
  BY <1>13, <1>14, <1>15, <1>16, <1>17, <1>19, <1>20, <1>21 DEF RelayInv

LEMMA StartClaudeSessionStep ==
  ASSUME RelayInv, IInv', NEW r \in Requests, StartClaudeSession(r)
  PROVE  RelayInv'
<1> DEFINE s == req[r].sess
<1>1. /\ req[r].at = "start" /\ StoreCmd(s)
      /\ cli' = [cli EXCEPT ![s] = "generating"]
      /\ reader' = [reader EXCEPT ![s].at = "scan"]
      /\ req' = [req EXCEPT ![r].at = "collect"]
      /\ UNCHANGED <<running, pipe, events, mcp>>
  BY DEF StartClaudeSession
<1>2. s \in Sessions  BY <1>1, Underway
<1>3. /\ cmd[s] = "none" /\ cmd' = [cmd EXCEPT ![s] = "running"]
      /\ UNCHANGED <<table, index, pending, reaped, claimed, resolved, resolver, toIndex>>
  BY <1>1 DEF StoreCmd
<1>4. Moves(r) /\ req'[r].at = "collect"
  BY <1>1, Underway, SetStage DEF Stages
<1>5. /\ Told' = Told /\ Sent' = Sent
      /\ \A q \in Requests : req'[q].calls = req[q].calls /\ req'[q].sess = req[q].sess
  BY <1>1, <1>4, MovesKeep DEF RelayInv
<1>6. \A t : CallsOf(t)' = CallsOf(t)  BY <1>3, SameLists
<1>7. cmd \in [Sessions -> {"none", "running", "killed"}]
  BY DEF RelayInv, IInv, TypeOK
<1>8. reader \in [Sessions -> Reader] /\ reader[s].at = "off"
      /\ reader[s].ev = Nothing
  BY <1>2, <1>3 DEF RelayInv, Shape, ReaderShape, ReadersInv
<1>9. /\ reader' \in [Sessions -> Reader]
      /\ reader'[s].at = "scan"
      /\ \A t \in Sessions : reader'[t].ev = reader[t].ev
      /\ \A t \in Sessions : t # s => reader'[t] = reader[t]
  <2> DEFINE k == [reader[s] EXCEPT !.at = "scan"]
  <2>1. reader[s] \in Reader  BY <1>2, <1>8
  <2>2. k \in Reader  BY <2>1, Zenon DEF Reader
  <2>3. k.at = "scan" /\ k.ev = reader[s].ev  BY <2>1 DEF Reader
  <2>4. reader' = [reader EXCEPT ![s] = k]  BY <1>1
  <2> HIDE DEF k
  <2>5. QED  BY <1>2, <1>8, <2>2, <2>3, <2>4
<1>10. \A t \in Sessions : Coming(t)' = Coming(t)
  BY <1>1, <1>9 DEF Coming
<1>11. Shape'
  <2>1. ReqShape'  BY <1>4 DEF Moves
  <2>2. RunShape' /\ EventsShape' /\ McpShape'
    BY <1>1 DEF RelayInv, Shape, RunShape, EventsShape, McpShape
  <2>3. PipeShape'
    BY <1>1 DEF RelayInv, Shape, PipeShape
  <2>4. ReaderShape'  BY <1>9 DEF ReaderShape
  <2>5. QED  BY <2>1, <2>2, <2>3, <2>4 DEF Shape
<1>12. RequestsInv'  BY <1>1, <1>2, <1>4, MovesKeepRequests DEF RelayInv
<1>13. ReadersInv'
  <2> SUFFICES ASSUME NEW t \in Sessions
               PROVE  /\ cmd'[t] = "none" =>
                           /\ pending[t] = <<>>
                           /\ reader'[t].at = "off"
                           /\ \A c \in Calls : mcp[c].for # t
                      /\ reader'[t].at \in {"index", "send"} => reader'[t].ev \in Event
                      /\ reader'[t].at \notin {"index", "send"} => reader'[t].ev = Nothing
    BY <1>1, <1>3 DEF ReadersInv
  <2>1. CASE t = s  BY <1>2, <1>3, <1>7, <1>8, <1>9, <2>1
  <2>2. CASE t # s
    BY <1>2, <1>3, <1>7, <1>9, <2>2 DEF RelayInv, ReadersInv
  <2>3. QED  BY <2>1, <2>2
<1>14. OrphansAreInert'
  <2>1. pending[s] = <<>> /\ \A c \in Calls : mcp[c].for # s
    BY <1>2, <1>3 DEF RelayInv, ReadersInv
  <2>2. \A t : t # s => (cmd'[t] = "running" => cmd[t] = "running")
    BY <1>3, <1>7
  <2>3. QED  BY <1>1, <1>3, <2>1, <2>2 DEF RelayInv, OrphansAreInert, Running
<1>15. PlacesInv'
  <2>1. \A t \in Sessions : reader'[t].at = "send" => reader[t].at = "send"
    BY <1>9
  <2>2. QED  BY <1>1, <1>3, <1>5, <1>6, <1>9, <1>10, <2>1 DEF RelayInv, PlacesInv
<1>16. ToldInv'
  <2>1. table \subseteq Sessions  BY TableSets DEF RelayInv
  <2>2. \A q \in Requests : req[q].at \in {"collect", "reap"} =>
           req'[q].at \in {"collect", "reap"}
    BY <1>1, <1>4 DEF Moves
  <2>3. QED  BY <1>3, <1>5, <1>6, <1>10, <2>1, <2>2 DEF RelayInv, ToldInv
<1>17. DrivenInv'
  <2>1. \A t : \A q \in Requests : Drives(q, t) => Drives(q, t)'
    BY <1>4, <1>5 DEF Drives, Moves
  <2>2. QED  BY <1>3, <1>5, <2>1 DEF RelayInv, DrivenInv
<1>18. ClaimsInv'
  BY <1>1, <1>3, <1>5, <1>6 DEF RelayInv, ClaimsInv
<1>19. QED
  BY <1>11, <1>12, <1>13, <1>14, <1>15, <1>16, <1>17, <1>18 DEF RelayInv

-----------------------------------------------------------------------------
(* Channels. *)

LEMMA InMember ==
  ASSUME NEW q
  PROVE  \A c : c \in In(q) <=> \E i \in DOMAIN q : c \in q[i].calls
  BY DEF In, ToSet

LEMMA TakeFirst ==
  ASSUME NEW q \in Seq(Event), q # <<>>
  PROVE  /\ Head(q) \in Event
         /\ Tail(q) \in Seq(Event)
         /\ Len(Tail(q)) <= Len(q)
         /\ In(q) = Head(q).calls \union In(Tail(q))
         /\ Distinct(q) => Distinct(Tail(q)) /\ Head(q).calls \intersect In(Tail(q)) = {}
<1>1. /\ Head(q) \in Event /\ Tail(q) \in Seq(Event) /\ Head(q) = q[1]
      /\ Len(q) \in Nat /\ Len(q) >= 1 /\ Len(Tail(q)) = Len(q) - 1
      /\ DOMAIN q = 1..Len(q) /\ DOMAIN Tail(q) = 1..(Len(q) - 1)
      /\ \A i \in 1..(Len(q) - 1) : Tail(q)[i] = q[i + 1]
  OBVIOUS
<1> DEFINE t == Tail(q)
<1> HIDE DEF t
<1>2. /\ t = Tail(q) /\ DOMAIN t = 1..(Len(q) - 1)
      /\ \A i \in 1..(Len(q) - 1) : t[i] = q[i + 1]
  BY <1>1 DEF t
<1>3. ASSUME NEW c PROVE c \in In(q) <=> c \in q[1].calls \/ c \in In(t)
  <2>1. c \in In(q) <=> \E i \in 1..Len(q) : c \in q[i].calls
    BY <1>1, InMember
  <2>2. c \in In(t) <=> \E i \in 1..(Len(q) - 1) : c \in t[i].calls
    BY <1>2, InMember
  <2>3. ASSUME NEW i \in 1..Len(q), i # 1
        PROVE  i - 1 \in 1..(Len(q) - 1) /\ t[i - 1] = q[i]
    BY <1>1, <1>2, <2>3
  <2>4. ASSUME NEW i \in 1..(Len(q) - 1) PROVE i + 1 \in 1..Len(q)
    BY <1>1
  <2>5. 1 \in 1..Len(q)  BY <1>1
  <2>6. QED  BY <1>2, <2>1, <2>2, <2>3, <2>4, <2>5
<1>4. In(q) = Head(q).calls \union In(t)
  <2>1. \A c : c \in In(q) <=> c \in Head(q).calls \union In(t)  BY <1>1, <1>3
  <2>2. QED  BY <2>1
<1>5. ASSUME Distinct(q) PROVE Distinct(t) /\ Head(q).calls \intersect In(t) = {}
  <2>1. ASSUME NEW i \in DOMAIN t, NEW j \in DOMAIN t, i # j
        PROVE  t[i].calls \intersect t[j].calls = {}
    <3>1. i + 1 \in DOMAIN q /\ j + 1 \in DOMAIN q /\ i + 1 # j + 1
      BY <1>1, <1>2, <2>1
    <3>2. q[i + 1].calls \intersect q[j + 1].calls = {}
      BY <1>5, <3>1 DEF Distinct
    <3>3. QED  BY <1>2, <3>2
  <2>2. ASSUME NEW i \in DOMAIN t PROVE Head(q).calls \intersect t[i].calls = {}
    <3>1. 1 \in DOMAIN q /\ i + 1 \in DOMAIN q /\ i + 1 # 1
      BY <1>1, <1>2
    <3>2. q[1].calls \intersect q[i + 1].calls = {}
      BY <1>5, <3>1 DEF Distinct
    <3>3. QED  BY <1>1, <1>2, <3>2
  <2>3. \A c : c \in In(t) <=> \E i \in DOMAIN t : c \in t[i].calls  BY InMember
  <2>4. Head(q).calls \intersect In(t) = {}  BY <2>2, <2>3
  <2>5. QED  BY <2>1, <2>4 DEF Distinct
<1>6. QED  BY <1>1, <1>2, <1>4, <1>5

LEMMA AddLast ==
  ASSUME NEW q \in Seq(Event), NEW e \in Event
  PROVE  /\ Append(q, e) \in Seq(Event)
         /\ Len(Append(q, e)) = Len(q) + 1
         /\ In(Append(q, e)) = In(q) \union e.calls
         /\ Distinct(q) /\ e.calls \intersect In(q) = {} => Distinct(Append(q, e))
<1> DEFINE t == Append(q, e)
           n == Len(q)
<1>1. /\ t \in Seq(Event) /\ n \in Nat /\ Len(t) = n + 1
      /\ DOMAIN q = 1..n /\ DOMAIN t = 1..(n + 1)
      /\ \A i \in 1..n : t[i] = q[i]
      /\ t[n + 1] = e
  OBVIOUS
<1> HIDE DEF t, n
<1>2. \A i \in DOMAIN t : i \in DOMAIN q \/ i = n + 1
  BY <1>1
<1>3. n + 1 \in DOMAIN t /\ \A i \in DOMAIN q : i \in DOMAIN t /\ i # n + 1
  BY <1>1
<1>4. \A i \in DOMAIN q : t[i] = q[i]  BY <1>1
<1>5. \A c : (c \in In(q) <=> \E i \in DOMAIN q : c \in q[i].calls)
             /\ (c \in In(t) <=> \E i \in DOMAIN t : c \in t[i].calls)
  BY InMember
<1>6. In(t) = In(q) \union e.calls
  <2>1. \A c : c \in In(t) <=> c \in In(q) \union e.calls
    BY <1>1, <1>2, <1>3, <1>4, <1>5
  <2>2. QED  BY <2>1
<1>7. ASSUME Distinct(q), e.calls \intersect In(q) = {} PROVE Distinct(t)
  <2> SUFFICES ASSUME NEW i \in DOMAIN t, NEW j \in DOMAIN t, i # j
               PROVE  t[i].calls \intersect t[j].calls = {}
    BY DEF Distinct
  <2>1. \A k \in DOMAIN q : q[k].calls \intersect e.calls = {}
    BY <1>5, <1>7
  <2>2. CASE i \in DOMAIN q /\ j \in DOMAIN q
    BY <1>4, <1>7, <2>2 DEF Distinct
  <2>3. CASE i \in DOMAIN q /\ j = n + 1  BY <1>1, <1>4, <2>1, <2>3
  <2>4. CASE j \in DOMAIN q /\ i = n + 1  BY <1>1, <1>4, <2>1, <2>4
  <2>5. QED  BY <1>2, <2>2, <2>3, <2>4
<1>8. QED  BY <1>1, <1>6, <1>7 DEF t, n

(* An event that is no announcement brings no calls. *)
LEMMA EventFacts ==
  /\ \A e \in Event : e.calls \in SUBSET Calls /\ (e.kind # "calls" => e.calls = {})
  /\ \A kind \in {"stop"} \union Ends : Plain(kind) \in Event /\ Plain(kind).calls = {}
  /\ Plain("calls") \in Event /\ Plain("calls").calls = {}
  /\ Nothing.calls = {}
  BY DEF Event, Plain, Nothing, Ends

-----------------------------------------------------------------------------
(* collectTurn takes an event.                                             *)

(* The request has the calls of the event; it either goes on with its turn, *)
(* or answers with all of them.                                            *)
Gathers(r, s, ev) ==
  /\ ReqShape'
  /\ req'[r].calls = req[r].calls \union ev.calls
  /\ req'[r].sess = s
  /\ req'[r].results = req[r].results /\ req'[r].history = req[r].history
  /\ \A q \in Requests : q # r => req'[q] = req[q]
  /\ \/ req'[r].at \in {"collect", "reap"} /\ req'[r].outcome # "tools"
     \/ req'[r].at = "done" /\ req'[r].outcome = "tools" /\ req'[r].calls # {}

LEMMA CollectTurnOver ==
  ASSUME ReqShape, NEW r \in Requests, NEW o \in Outcomes \ {"tools"},
         NEW ev, ev.calls = {}, TurnOver(r, o)
  PROVE  Gathers(r, req[r].sess, ev)
<1> DEFINE e == req[r]
           f == [e EXCEPT !.at = "reap", !.outcome = o]
<1>1. e \in Request /\ e.left \union e.taken \subseteq e.results  BY ReqFacts
<1>2. f \in Request
  <2>1. "reap" \in Stages  BY DEF Stages
  <2>2. QED  BY <1>1, <2>1, Zenon DEF Request
<1>3. /\ f.at = "reap" /\ f.results = e.results /\ f.left = e.left /\ f.history = e.history
      /\ f.sess = e.sess /\ f.taken = e.taken /\ f.calls = e.calls
      /\ f.outcome = o
  BY <1>1 DEF Request
<1>4. req' = [req EXCEPT ![r] = f]  BY DEF TurnOver
<1> HIDE DEF f
<1>5. /\ ReqShape' /\ req'[r] = f
      /\ \A q \in Requests : q # r => req'[q] = req[q]
  BY <1>1, <1>2, <1>3, <1>4, ReqUpdate
<1>6. QED  BY <1>3, <1>5 DEF Gathers

LEMMA CollectCalls ==
  ASSUME ReqShape, NEW r \in Requests, req[r].at = "collect", req[r].outcome # "tools",
         NEW ev \in Event, NEW stop \in BOOLEAN,
         req' = [req EXCEPT ![r] = [@ EXCEPT !.calls = Collected(r, ev), !.stop = stop]]
  PROVE  Gathers(r, req[r].sess, ev)
<1> DEFINE e == req[r]
           calls == Collected(r, ev)
           f == [e EXCEPT !.calls = calls, !.stop = stop]
<1>1. e \in Request /\ e.left \union e.taken \subseteq e.results  BY ReqFacts
<1>2. calls \in SUBSET Calls  BY <1>1, EventFacts DEF Collected, Request
<1>3. calls = e.calls \union ev.calls  BY DEF Collected
<1> HIDE DEF calls
<1>4. f \in Request  BY <1>1, <1>2, Zenon DEF Request
<1>5. /\ f.at = e.at /\ f.results = e.results /\ f.left = e.left /\ f.history = e.history
      /\ f.sess = e.sess /\ f.taken = e.taken /\ f.calls = calls
      /\ f.outcome = e.outcome
  BY <1>1 DEF Request
<1>6. req' = [req EXCEPT ![r] = f]  BY DEF calls
<1> HIDE DEF f
<1>7. /\ ReqShape' /\ req'[r] = f
      /\ \A q \in Requests : q # r => req'[q] = req[q]
  BY <1>1, <1>4, <1>5, <1>6, ReqUpdate
<1>8. QED  BY <1>3, <1>5, <1>7 DEF Gathers

LEMMA CollectLast ==
  ASSUME ReqShape, NEW r \in Requests,
         NEW ev \in Event, NEW stop \in BOOLEAN, Collected(r, ev) # {},
         req' = [req EXCEPT ![r] = [@ EXCEPT !.at = "done", !.calls = Collected(r, ev),
                                             !.stop = stop, !.outcome = "tools"]]
  PROVE  Gathers(r, req[r].sess, ev)
<1> DEFINE e == req[r]
           calls == Collected(r, ev)
           f == [e EXCEPT !.at = "done", !.calls = calls, !.stop = stop,
                          !.outcome = "tools"]
<1>1. e \in Request /\ e.left \union e.taken \subseteq e.results  BY ReqFacts
<1>2. calls \in SUBSET Calls  BY <1>1, EventFacts DEF Collected, Request
<1>3. calls = e.calls \union ev.calls /\ calls # {}  BY DEF Collected
<1>4. "done" \in Stages /\ "tools" \in Outcomes  BY DEF Stages, Outcomes
<1> HIDE DEF calls
<1>5. f \in Request  BY <1>1, <1>2, <1>4, Zenon DEF Request
<1>6. /\ f.at = "done" /\ f.results = e.results /\ f.left = e.left /\ f.history = e.history
      /\ f.sess = e.sess /\ f.taken = e.taken /\ f.calls = calls
      /\ f.outcome = "tools"
  BY <1>1 DEF Request
<1>7. req' = [req EXCEPT ![r] = f]  BY DEF calls
<1> HIDE DEF f
<1>8. /\ ReqShape' /\ req'[r] = f
      /\ \A q \in Requests : q # r => req'[q] = req[q]
  BY <1>1, <1>5, <1>6, <1>7, ReqUpdate
<1>9. QED  BY <1>3, <1>6, <1>8 DEF Gathers

LEMMA CollectGathers ==
  ASSUME RelayInv, NEW r \in Requests, CollectEvent(r)
  PROVE  /\ req[r].at = "collect" /\ req[r].sess \in Sessions
         /\ events[req[r].sess] # <<>>
         /\ events' = [events EXCEPT ![req[r].sess] = Tail(events[req[r].sess])]
         /\ Gathers(r, req[r].sess, Head(events[req[r].sess]))
         /\ RunShape'
         /\ UNCHANGED <<tableVars, cli, pipe, reader, mcp>>
<1> DEFINE s == req[r].sess
           ev == Head(events[s])
           stop == req[r].stop \/ ev.kind = "stop"
<1>1. /\ req[r].at = "collect" /\ events[s] # <<>>
      /\ events' = [events EXCEPT ![s] = Tail(events[s])]
      /\ UNCHANGED <<tableVars, cli, pipe, reader, mcp>>
  BY DEF CollectEvent
<1>2. s \in Sessions  BY <1>1, Underway
<1>3. ev \in Event
  <2>1. events[s] \in Seq(Event)  BY <1>2 DEF RelayInv, Shape, EventsShape
  <2>2. QED  BY <1>1, <2>1, TakeFirst
<1>4. stop \in BOOLEAN  OBVIOUS
<1>5. /\ ReqShape /\ RunShape /\ req[r].outcome # "tools"  BY <1>1, Underway
<1>6. \/ ev.kind = "run_end" /\ TurnOver(r, "final") /\ UNCHANGED running
      \/ ev.kind = "run_end_error" /\ TurnOver(r, "cli_error") /\ UNCHANGED running
      \/ /\ Collected(r, ev) # {}
         /\ req' = [req EXCEPT ![r] = [@ EXCEPT !.at = "done", !.calls = Collected(r, ev),
                                                !.stop = stop, !.outcome = "tools"]]
         /\ running' = running \ {r}
      \/ /\ req' = [req EXCEPT ![r] = [@ EXCEPT !.calls = Collected(r, ev), !.stop = stop]]
         /\ UNCHANGED running
  BY DEF CollectEvent
<1> HIDE DEF stop, ev
<1>7. RunShape'  BY <1>5, <1>6, SameSlots, GiveSlotBack
<1>8. Gathers(r, s, ev)
  <2>1. CASE ev.kind = "run_end" /\ TurnOver(r, "final")
    BY <1>3, <1>5, <2>1, EventFacts, CollectTurnOver DEF Outcomes
  <2>2. CASE ev.kind = "run_end_error" /\ TurnOver(r, "cli_error")
    BY <1>3, <1>5, <2>2, EventFacts, CollectTurnOver DEF Outcomes
  <2>3. CASE /\ Collected(r, ev) # {}
             /\ req' = [req EXCEPT ![r] = [@ EXCEPT !.at = "done", !.calls = Collected(r, ev),
                                                    !.stop = stop, !.outcome = "tools"]]
    BY <1>3, <1>4, <1>5, <2>3, CollectLast
  <2>4. CASE req' = [req EXCEPT ![r] = [@ EXCEPT !.calls = Collected(r, ev), !.stop = stop]]
    BY <1>1, <1>3, <1>4, <1>5, <2>4, CollectCalls
  <2>5. QED  BY <1>6, <2>1, <2>2, <2>3, <2>4
<1>9. QED  BY <1>1, <1>2, <1>7, <1>8 DEF ev

LEMMA CollectEventStep ==
  ASSUME RelayInv, IInv', NEW r \in Requests, CollectEvent(r)
  PROVE  RelayInv'
<1>0. PICK s, ev : s = req[r].sess /\ ev = Head(events[s])
  OBVIOUS
<1>1. /\ req[r].at = "collect" /\ s \in Sessions /\ events[s] # <<>>
      /\ events' = [events EXCEPT ![s] = Tail(events[s])]
      /\ Gathers(r, s, ev) /\ RunShape'
      /\ UNCHANGED <<tableVars, cli, pipe, reader, mcp>>
  BY <1>0, CollectGathers
<1>2. events \in [Sessions -> Seq(Event)] /\ \A t \in Sessions : Len(events[t]) <= EventCap
  BY DEF RelayInv, Shape, EventsShape
<1>3. /\ events[s] \in Seq(Event) /\ ev \in Event /\ Tail(events[s]) \in Seq(Event)
      /\ Len(Tail(events[s])) <= Len(events[s])
      /\ In(events[s]) = ev.calls \union In(Tail(events[s]))
      /\ Distinct(events[s]) => Distinct(Tail(events[s]))
                                  /\ ev.calls \intersect In(Tail(events[s])) = {}
  BY <1>0, <1>1, <1>2, TakeFirst
<1>4. Len(Tail(events[s])) <= EventCap
  <2>1. Len(Tail(events[s])) \in Nat /\ Len(events[s]) \in Nat /\ EventCap \in Nat
    BY <1>3, CapsAssumption
  <2>2. QED  BY <1>1, <1>2, <1>3, <2>1
<1>5. /\ events'[s] = Tail(events[s])
      /\ \A t \in Sessions : t # s => events'[t] = events[t]
      /\ events' \in [Sessions -> Seq(Event)]
  BY <1>1, <1>2, <1>3
<1>6. /\ Calm /\ UNCHANGED <<table, index, pending, reaped, cmd, claimed, resolved,
                              resolver, toIndex>>
  BY <1>1, NothingIsCalm DEF tableVars
<1>7. \A t : CallsOf(t)' = CallsOf(t)  BY <1>6, SameLists
<1>8. req[r].outcome # "tools" /\ ReqShape  BY <1>1, Underway
<1>9. ReqShape' /\ Shape'
  <2>1. ReqShape'  BY <1>1 DEF Gathers
  <2>2. PipeShape' /\ ReaderShape' /\ McpShape'
    BY <1>1 DEF RelayInv, Shape, PipeShape, ReaderShape, McpShape
  <2>3. EventsShape'  BY <1>2, <1>4, <1>5 DEF EventsShape
  <2>4. QED  BY <1>1, <2>1, <2>2, <2>3 DEF Shape
<1>10. PlacesInv
  BY DEF RelayInv
(* What comes next comes out of what was coming. *)
<1>11. /\ Distinct(events[s]) /\ ev.calls \intersect In(events'[s]) = {}
       /\ Coming(s) = ev.calls \union Coming(s)'
       /\ ev.calls \intersect reader[s].ev.calls = {}
       /\ \A t \in Sessions : t # s => Coming(t)' = Coming(t)
  <2>1. Distinct(events[s]) /\ reader[s].ev.calls \intersect In(events[s]) = {}
    BY <1>1, <1>10 DEF PlacesInv
  <2>2. \A c : c \in Coming(s) <=> c \in ev.calls \union Coming(s)'
    BY <1>1, <1>3, <1>5, ComingMember
  <2>3. \A t \in Sessions : t # s => Coming(t)' = Coming(t)
    BY <1>1, <1>5 DEF Coming
  <2>4. QED  BY <1>3, <1>5, <2>1, <2>2, <2>3
<1>12. ev.calls \intersect Coming(s)' = {}
  BY <1>1, <1>11, ComingMember
<1>13. ev.calls \subseteq CallsOf(s) \ toIndex
  <2>1. ev.calls \subseteq CallsOf(s)  BY <1>1, <1>10, <1>11 DEF PlacesInv
  <2>2. ev.calls \intersect toIndex = {}
    BY <1>1, <1>3, <1>10 DEF PlacesInv
  <2>3. QED  BY <2>1, <2>2
<1>14. /\ Sent' = Sent
       /\ \A c : c \in Told' <=>
            c \in Told \/ (req'[r].outcome = "tools" /\ c \in req'[r].calls)
  <2>1. \A q \in Requests : /\ req'[q].results = req[q].results
                            /\ q # r => req'[q].outcome = req[q].outcome
                                          /\ req'[q].calls = req[q].calls
    BY <1>1 DEF Gathers
  <2>2. \A c : c \in Sent' <=> c \in Sent
    BY <2>1, ToldMember, ToldMemberLater
  <2>3. \A c : c \in Told' <=>
            c \in Told \/ (req'[r].outcome = "tools" /\ c \in req'[r].calls)
    BY <1>8, <2>1, ToldMember, ToldMemberLater
  <2>4. QED  BY <2>2, <2>3
<1>15. Told \subseteq Told'  BY <1>14
<1>16. req[r].sess = s  BY <1>0
<1>17. RequestsInv'
  <2>1. ASSUME NEW q \in Requests
        PROVE  /\ req'[q].at = "idle" =>
                    req'[q].results = {} /\ req'[q].calls = {} /\ req'[q].outcome = "none"
               /\ req'[q].outcome = "tools" => req'[q].at = "done"
               /\ req'[q].at \in {"unindex", "start", "collect", "reap"} => req'[q].sess \in Sessions
               /\ req'[q].sess = NoSession => req'[q].calls = {}
               /\ req'[q].results \union req'[q].history \subseteq Told'
    <3>1. CASE q = r
      <4>1. s # NoSession  BY <1>1, SessionsAssumption
      <4>2. req[r].results \union req[r].history \subseteq Told
        BY DEF RelayInv, RequestsInv
      <4>3. QED  BY <1>1, <1>15, <3>1, <4>1, <4>2 DEF Gathers
    <3>2. CASE q # r  BY <1>1, <1>15, <3>2 DEF Gathers, RelayInv, RequestsInv
    <3>3. QED  BY <3>1, <3>2
  <2>2. QED  BY <2>1, Zenon DEF RequestsInv
<1>18. ReadersInv'  BY <1>1, <1>6, CalmReaders DEF RelayInv
<1>19. OrphansAreInert'  BY <1>1, <1>6, CalmOrphans DEF RelayInv
<1>20. PlacesInv'
  <2>1. ASSUME NEW t \in Sessions
        PROVE  /\ Coming(t)' \subseteq CallsOf(t)
               /\ Distinct(events'[t])
               /\ reader[t].ev.calls \intersect In(events'[t]) = {}
               /\ In(events'[t]) \intersect toIndex = {}
               /\ reader[t].at = "send" => reader[t].ev.calls \intersect toIndex = {}
    <3>1. Coming(t)' \subseteq Coming(t) /\ In(events'[t]) \subseteq In(events[t])
      BY <1>3, <1>5, <1>11
    <3>2. Distinct(events'[t])
      BY <1>3, <1>5, <1>10, <1>11 DEF PlacesInv
    <3>3. QED  BY <1>10, <3>1, <3>2 DEF PlacesInv
  <2>2. ASSUME NEW q \in Requests, NEW t \in Sessions
        PROVE  /\ req'[q].calls \intersect Coming(t)' = {}
               /\ req'[q].sess = t => req'[q].calls \subseteq CallsOf(t) \ toIndex
    <3>1. Coming(t)' \subseteq Coming(t) /\ Coming(t) \subseteq CallsOf(t)
      BY <1>10, <1>11 DEF PlacesInv
    <3>2. req[q].calls \intersect Coming(t) = {}
          /\ (req[q].sess = t => req[q].calls \subseteq CallsOf(t) \ toIndex)
      BY <1>10 DEF PlacesInv
    <3>3. CASE q # r  BY <1>1, <3>1, <3>2, <3>3 DEF Gathers
    <3>4. CASE q = r
      <4>1. ev.calls \intersect Coming(t)' = {}
        <5>1. CASE t = s  BY <1>12, <5>1
        <5>2. CASE t # s
          BY <1>1, <1>13, <3>1, <5>2, OneOwner DEF RelayInv
        <5>3. QED  BY <5>1, <5>2
      <4>2. QED  BY <1>1, <1>13, <1>16, <3>1, <3>2, <3>4, <4>1 DEF Gathers
    <3>5. QED  BY <3>3, <3>4
  <2>3. ASSUME NEW p \in Requests, NEW q \in Requests, p # q
        PROVE  req'[p].calls \intersect req'[q].calls = {}
    <3>1. req[p].calls \intersect req[q].calls = {}
          /\ req[p].calls \intersect ev.calls = {} /\ req[q].calls \intersect ev.calls = {}
      BY <1>1, <1>10, <1>11, <2>3 DEF PlacesInv
    <3>2. \A x \in Requests : req'[x].calls = req[x].calls
                                \/ (x = r /\ req'[x].calls = req[x].calls \union ev.calls)
      BY <1>1 DEF Gathers
    <3>3. QED  BY <2>3, <3>1, <3>2
  <2>4. QED  BY <1>1, <1>6, <1>7, <2>1, <2>2, <2>3 DEF PlacesInv
<1>21. ToldInv'
  <2>1. table \subseteq Sessions  BY TableSets DEF RelayInv
  <2> SUFFICES ASSUME NEW t \in table, NEW c \in CallsOf(t)
               PROVE  /\ c \notin Told' => c \notin resolved
                      /\ \/ c \in Told' \union Coming(t)'
                         \/ \E q \in Requests :
                              /\ req'[q].sess = t /\ req'[q].at \in {"collect", "reap"}
                              /\ c \in req'[q].calls
    BY <1>6, <1>7 DEF ToldInv
  <2>2. c \notin Told => c \notin resolved  BY DEF RelayInv, ToldInv
  <2>3. \/ c \in Told \union Coming(t)
        \/ \E q \in Requests :
              req[q].sess = t /\ req[q].at \in {"collect", "reap"} /\ c \in req[q].calls
    BY DEF RelayInv, ToldInv
  <2>4. c \in req'[r].calls /\ t = s =>
          c \in Told' \/ (req'[r].sess = t /\ req'[r].at \in {"collect", "reap"})
    BY <1>1, <1>14 DEF Gathers
  <2>5. CASE c \in Told  BY <1>15, <2>2, <2>5
  <2>6. CASE c \in Coming(t)
    <3>1. c \in Coming(t)' \/ (t = s /\ c \in req'[r].calls)
      BY <1>1, <1>11, <2>1, <2>6 DEF Gathers
    <3>2. QED  BY <1>15, <2>2, <2>4, <3>1
  <2>7. ASSUME NEW q \in Requests, req[q].sess = t, req[q].at \in {"collect", "reap"},
               c \in req[q].calls
        PROVE  c \in Told' \/ \E x \in Requests :
                 req'[x].sess = t /\ req'[x].at \in {"collect", "reap"} /\ c \in req'[x].calls
    <3>1. CASE q = r
      BY <1>1, <1>16, <2>4, <2>7, <3>1 DEF Gathers
    <3>2. CASE q # r  BY <1>1, <2>7, <3>2 DEF Gathers
    <3>3. QED  BY <3>1, <3>2
  <2>8. QED  BY <1>15, <2>2, <2>3, <2>5, <2>6, <2>7
<1>22. DrivenInv'
  <2> SUFFICES ASSUME NEW t \in table
               PROVE  \/ \E q \in Requests : Drives(q, t)'
                      \/ \E c \in Told' \ resolved : index[c] = t
    BY <1>6 DEF DrivenInv
  <2>1. CASE \E c \in Told \ resolved : index[c] = t
    BY <1>15, <2>1
  <2>2. ASSUME NEW q \in Requests, Drives(q, t), q # r PROVE Drives(q, t)'
    BY <1>1, <2>2 DEF Drives, Gathers
  <2>3. ASSUME Drives(r, t), req'[r].at # "done" PROVE Drives(r, t)'
    BY <1>1, <1>16, <2>3 DEF Drives, Gathers
  <2>4. ASSUME Drives(r, t), req'[r].at = "done"
        PROVE  \E c \in Told' \ resolved : index[c] = t
    <3>1. t = s  BY <1>16, <2>4 DEF Drives
    <3>2. PICK c : c \in req'[r].calls /\ req'[r].outcome = "tools"
      BY <1>1, <2>4 DEF Gathers
    <3>3. c \in req[r].calls \union ev.calls  BY <1>1, <3>2 DEF Gathers
    <3>4. c \in CallsOf(s) \ toIndex
      BY <1>1, <1>10, <1>13, <1>16, <3>3 DEF PlacesInv
    <3>5. c \notin Told
      <4>1. ASSUME NEW q \in Requests, req[q].outcome = "tools" PROVE c \notin req[q].calls
        BY <1>1, <1>8, <1>10, <1>11, <3>3, <4>1 DEF PlacesInv
      <4>2. QED  BY <4>1, ToldMember
    <3>6. c \notin resolved
      BY <3>1, <3>4, <3>5 DEF RelayInv, ToldInv
    <3>7. index[c] = t
      BY <3>1, <3>4, <3>6 DEF RelayInv, IInv, IndexIsFaithful
    <3>8. QED  BY <1>14, <3>2, <3>6, <3>7
  <2>5. QED  BY <2>1, <2>2, <2>3, <2>4 DEF RelayInv, DrivenInv
<1>23. ClaimsInv'  BY <1>1, <1>6, <1>14, <1>15, CalmClaims DEF RelayInv, Shape
<1>24. QED
  BY <1>9, <1>17, <1>18, <1>19, <1>20, <1>21, <1>22, <1>23 DEF RelayInv

-----------------------------------------------------------------------------
(* The CLI. *)

LEMMA ToldOfReq ==
  ASSUME req' = req
  PROVE  Told' = Told /\ Sent' = Sent
  BY DEF Told, Sent

(* Parts of the invariant where nothing but the CLI's side moves. *)
LEMMA AtRest ==
  ASSUME RelayInv, UNCHANGED <<tableVars, req, running, reader, events>>
  PROVE  /\ ReqShape' /\ RunShape' /\ ReaderShape' /\ EventsShape'
         /\ RequestsInv' /\ PlacesInv' /\ ToldInv' /\ DrivenInv' /\ Calm
<1>1. Told' = Told  BY ToldOfReq
<1>2. Calm /\ (\A t : CallsOf(t)' = CallsOf(t)) /\ (\A t : Coming(t)' = Coming(t))
  BY NothingIsCalm, CalmLists DEF Coming
<1>3. UNCHANGED <<table, index, resolved, toIndex>>  BY DEF tableVars
<1>4. ReqShape' /\ RunShape' /\ ReaderShape' /\ EventsShape'
  BY DEF RelayInv, Shape, ReqShape, RunShape, ReaderShape, EventsShape
<1>5. RequestsInv'  BY <1>1 DEF RelayInv, RequestsInv
<1>6. PlacesInv'  BY <1>2, CalmPlaces DEF RelayInv
<1>7. ToldInv'  BY <1>1, <1>2, <1>3 DEF RelayInv, ToldInv
<1>8. DrivenInv'  BY <1>1, <1>3 DEF RelayInv, DrivenInv, Drives
<1>9. QED  BY <1>2, <1>4, <1>5, <1>6, <1>7, <1>8

LEMMA CliMoves ==
  ASSUME RelayInv, IInv', PipeShape',
         UNCHANGED <<tableVars, req, running, reader, events, mcp>>
  PROVE  RelayInv'
<1>1. /\ ReqShape' /\ RunShape' /\ ReaderShape' /\ EventsShape'
      /\ RequestsInv' /\ PlacesInv' /\ ToldInv' /\ DrivenInv' /\ Calm
  BY AtRest
<1>2. McpShape'  BY DEF RelayInv, Shape, McpShape
<1>3. ReadersInv' /\ OrphansAreInert'
  BY <1>1, CalmReaders, CalmOrphans DEF RelayInv
<1>4. ClaimsInv'  BY <1>1, ToldOfReq, CalmClaims DEF RelayInv, Shape
<1>5. QED  BY <1>1, <1>2, <1>3, <1>4 DEF RelayInv, Shape

LEMMA CliGoesOnStep ==
  ASSUME RelayInv, IInv', NEW s \in Sessions, CliGoesOn(s)
  PROVE  RelayInv'
<1>1. cli' = [cli EXCEPT ![s] = "generating"] /\ pipe' = pipe  BY DEF CliGoesOn
<1>2. PipeShape'  BY <1>1 DEF RelayInv, Shape, PipeShape
<1>3. QED  BY <1>2, CliMoves DEF CliGoesOn

LEMMA CliCrashStep ==
  ASSUME RelayInv, IInv', NEW s \in Sessions, CliCrash(s)
  PROVE  RelayInv'
<1>1. cli' = [cli EXCEPT ![s] = "over"] /\ pipe' = pipe  BY DEF CliCrash
<1>2. PipeShape'  BY <1>1 DEF RelayInv, Shape, PipeShape
<1>3. QED  BY <1>2, CliMoves DEF CliCrash

LEMMA CliResultStep ==
  ASSUME RelayInv, IInv', NEW s \in Sessions, CliResult(s)
  PROVE  RelayInv'
<1> DEFINE line == [kind |-> "result", batch |-> <<>>]
<1>1. cli' = [cli EXCEPT ![s] = "over"] /\ pipe' = [pipe EXCEPT ![s] = Append(pipe[s], line)]
  BY DEF CliResult
<1>2. line \in Line  BY DEF Line
<1>3. pipe \in [Sessions -> Seq(Line)]
      /\ cli \in [Sessions -> {"off", "generating", "calling", "over"}]
  BY DEF RelayInv, Shape, PipeShape
<1> HIDE DEF line
<1>4. Append(pipe[s], line) \in Seq(Line)  BY <1>2, <1>3
<1>5. PipeShape'  BY <1>1, <1>3, <1>4 DEF PipeShape
<1>6. QED  BY <1>5, CliMoves DEF CliResult

(* What an announcement writes. *)
Split(batch) == {<<batch>>, [i \in DOMAIN batch |-> <<batch[i]>>]}
Written(before, lines) ==
  before \o [i \in DOMAIN lines |-> [kind |-> "calls", batch |-> lines[i]]]
    \o <<[kind |-> "stop", batch |-> <<>>]>>

LEMMA AnnouncementLines ==
  ASSUME NEW S \in SUBSET Calls, NEW batch \in BoundedSeq(S, MaxBatch),
         NEW lines \in Split(batch), NEW before \in Seq(Line)
  PROVE  ToSet(batch) \subseteq S /\ Written(before, lines) \in Seq(Line)
<1>1. batch \in Seq(S)
  <2>1. PICK n \in 0..MaxBatch : batch \in [1..n -> S]
    BY DEF BoundedSeq, SeqOf
  <2>2. n \in Nat  BY <2>1, BoundsAssumption
  <2>3. QED  BY <2>1, <2>2
<1>2. batch \in Seq(Calls) /\ ToSet(batch) \subseteq S
  BY <1>1 DEF ToSet
<1>3. lines \in Seq(Seq(Calls))
  <2>1. <<batch>> \in Seq(Seq(Calls))  BY <1>2
  <2>2. [i \in DOMAIN batch |-> <<batch[i]>>] \in Seq(Seq(Calls))
    <3>1. DOMAIN batch = 1..Len(batch) /\ Len(batch) \in Nat
          /\ \A i \in DOMAIN batch : <<batch[i]>> \in Seq(Calls)
      BY <1>2
    <3>2. QED  BY <3>1
  <2>3. QED  BY <2>1, <2>2 DEF Split
<1> DEFINE written == [i \in DOMAIN lines |-> [kind |-> "calls", batch |-> lines[i]]]
           last == [kind |-> "stop", batch |-> <<>>]
<1>4. written \in Seq(Line)
  <2>1. DOMAIN lines = 1..Len(lines) /\ Len(lines) \in Nat
        /\ \A i \in DOMAIN lines : lines[i] \in Seq(Calls)
    BY <1>3
  <2>2. \A i \in DOMAIN lines : [kind |-> "calls", batch |-> lines[i]] \in Line
    BY <2>1 DEF Line
  <2>3. QED  BY <2>1, <2>2
<1>5. last \in Line  BY DEF Line
<1> HIDE DEF written, last
<1>6. before \o written \o <<last>> \in Seq(Line)
  <2>1. before \o written \in Seq(Line) /\ <<last>> \in Seq(Line)  BY <1>4, <1>5
  <2>2. QED  BY <2>1
<1>7. QED  BY <1>2, <1>6 DEF written, last, Written

LEMMA CliAnnounceStep ==
  ASSUME RelayInv, IInv', NEW s \in Sessions, CliAnnounce(s)
  PROVE  RelayInv'
<1> DEFINE free == {c \in Calls : mcp[c].at = "none"}
<1>1. /\ cmd[s] = "running" /\ cli' = [cli EXCEPT ![s] = "calling"]
      /\ UNCHANGED <<tableVars, req, running, reader, events>>
  BY DEF CliAnnounce, Running
<1>2. PICK batch \in BoundedSeq(free, MaxBatch) :
        /\ \E lines \in {<<batch>>, [i \in DOMAIN batch |-> <<batch[i]>>]} :
             pipe' = [pipe EXCEPT ![s] =
                        pipe[s] \o [i \in DOMAIN lines |-> [kind |-> "calls", batch |-> lines[i]]]
                          \o <<[kind |-> "stop", batch |-> <<>>]>>]
        /\ mcp' = [c \in Calls |-> IF c \in ToSet(batch)
                      THEN [mcp[c] EXCEPT !.at = "owed", !.for = s] ELSE mcp[c]]
  BY DEF CliAnnounce
<1>3. PICK lines \in Split(batch) : pipe' = [pipe EXCEPT ![s] = Written(pipe[s], lines)]
  BY <1>2 DEF Split, Written
<1>4. /\ pipe \in [Sessions -> Seq(Line)] /\ mcp \in [Calls -> McpCall]
      /\ cli \in [Sessions -> {"off", "generating", "calling", "over"}]
  BY DEF RelayInv, Shape, PipeShape, McpShape
<1>5. free \subseteq Calls /\ pipe[s] \in Seq(Line)  BY <1>4
<1>6. ToSet(batch) \subseteq free /\ Written(pipe[s], lines) \in Seq(Line)
  <2> HIDE DEF free
  <2>1. QED  BY <1>5, AnnouncementLines
<1>7. PipeShape'  BY <1>1, <1>3, <1>4, <1>6 DEF PipeShape
<1>8. \A c \in ToSet(batch) : c \in Calls /\ mcp[c].at = "none"
  BY <1>6
<1>9. /\ mcp' \in [Calls -> McpCall]
      /\ \A c \in Calls \ ToSet(batch) : mcp'[c] = mcp[c]
      /\ \A c \in ToSet(batch) :
           mcp'[c].at = "owed" /\ mcp'[c].for = s /\ mcp'[c].took = mcp[c].took
  <2>1. ASSUME NEW c \in Calls
        PROVE  /\ [mcp[c] EXCEPT !.at = "owed", !.for = s] \in McpCall
               /\ [mcp[c] EXCEPT !.at = "owed", !.for = s].at = "owed"
               /\ [mcp[c] EXCEPT !.at = "owed", !.for = s].for = s
               /\ [mcp[c] EXCEPT !.at = "owed", !.for = s].took = mcp[c].took
    <3>1. mcp[c] \in McpCall  BY <1>4
    <3>2. [mcp[c] EXCEPT !.at = "owed", !.for = s] \in McpCall
      BY <3>1, Zenon DEF McpCall
    <3>3. QED  BY <3>1, <3>2 DEF McpCall
  <2> DEFINE g(c) == [mcp[c] EXCEPT !.at = "owed", !.for = s]
  <2>2. mcp' = [c \in Calls |-> IF c \in ToSet(batch) THEN g(c) ELSE mcp[c]]
    BY <1>2
  <2>3. \A c \in Calls : /\ g(c) \in McpCall /\ g(c).at = "owed" /\ g(c).for = s
                         /\ g(c).took = mcp[c].took
    BY <2>1
  <2> HIDE DEF g
  <2>4. QED  BY <1>4, <1>8, <2>2, <2>3
<1>10. /\ ReqShape' /\ RunShape' /\ ReaderShape' /\ EventsShape'
       /\ RequestsInv' /\ PlacesInv' /\ ToldInv' /\ DrivenInv' /\ Calm
  BY <1>1, AtRest
<1>11. McpShape'  BY <1>9 DEF McpShape
<1>12. UNCHANGED <<cmd, reaped, pending, claimed, resolver>>  BY <1>1 DEF tableVars
<1>13. ReadersInv'
  BY <1>1, <1>9, <1>12 DEF RelayInv, ReadersInv
<1>14. OrphansAreInert'
  BY <1>9, <1>12 DEF RelayInv, OrphansAreInert, Running
<1>15. ClaimsInv'
  <2>1. \A c \in Calls : mcp'[c].took = mcp[c].took
    BY <1>9
  <2>2. OneTaker'  BY <2>1, ClaimsParts DEF RelayInv, OneTaker
  <2>3. Told' = Told /\ Sent' = Sent /\ \A t : CallsOf(t)' = CallsOf(t)
    BY <1>1, <1>10, ToldOfReq, CalmLists
  <2>4. ASSUME NEW c \in Calls PROVE ClaimOf(c)'
    <3>1. ClaimOf(c)  BY ClaimsParts DEF RelayInv
    <3>2. CASE c \in ToSet(batch)
      <4>1. mcp[c].took = NoSession  BY <1>8, <3>1, <3>2 DEF ClaimOf
      <4>2. QED  BY <1>9, <1>12, <2>3, <3>1, <3>2, <4>1 DEF ClaimOf
    <3>3. CASE c \notin ToSet(batch)
      BY <1>9, <1>12, <2>3, <3>1, <3>3 DEF ClaimOf
    <3>4. QED  BY <3>2, <3>3
  <2>5. QED  BY <2>2, <2>4, ClaimsParts
<1>16. QED
  BY <1>7, <1>10, <1>11, <1>13, <1>14, <1>15 DEF RelayInv, Shape

-----------------------------------------------------------------------------
(* The MCP handlers. *)

McpStages == {"none", "owed", "polling", "parked", "result", "error"}

LEMMA McpUpdate ==
  ASSUME McpShape, NEW c \in Calls, NEW x \in McpStages,
         NEW k \in Calls \union {NoSession}, McpSet(c, x, k)
  PROVE  /\ McpShape'
         /\ mcp'[c].at = x /\ mcp'[c].took = k
         /\ \A d \in Calls : mcp'[d].for = mcp[d].for
         /\ \A d \in Calls : d # c => mcp'[d] = mcp[d]
<1> DEFINE f == [mcp[c] EXCEPT !.at = x, !.took = k]
<1>1. mcp \in [Calls -> McpCall] /\ mcp[c] \in McpCall  BY DEF McpShape
<1>2. f \in McpCall  BY <1>1, Zenon DEF McpCall, McpStages
<1>3. f.at = x /\ f.took = k /\ f.for = mcp[c].for  BY <1>1 DEF McpCall
<1>4. mcp' = [mcp EXCEPT ![c] = f]  BY DEF McpSet
<1> HIDE DEF f
<1>5. QED  BY <1>1, <1>2, <1>3, <1>4 DEF McpShape

LEMMA McpFacts ==
  ASSUME RelayInv, NEW c \in Calls
  PROVE  /\ McpShape
         /\ mcp[c].for \in Sessions \union {NoSession}
         /\ mcp[c].took \in Calls \union {NoSession}
         /\ mcp[c].at # "none" => mcp[c].for \in Sessions
         /\ ClaimOf(c)
  BY ClaimsParts DEF RelayInv, Shape, McpShape, McpCall, ClaimOf

(* One tools/call request changes; the rest of the relay stands still.     *)
LEMMA McpMoves ==
  ASSUME RelayInv, IInv', Calm, NEW c \in Calls, NEW x \in McpStages \ {"none"},
         NEW k \in Calls \union {NoSession}, McpSet(c, x, k),
         UNCHANGED <<req, running, cli, pipe, reader, events, index, table, resolved,
                     resolver, reaped, cmd, toIndex>>,
         mcp[c].at # "none",
         (* what it claims, and how its own state bears it *)
         claimed' = claimed \union ({k} \ {NoSession}),
         x \in {"owed", "polling"} => k = NoSession,
         k # NoSession => /\ k \in CallsOf(mcp[c].for)
                          /\ SignatureOf[k] = SignatureOf[c]
                          /\ mcp[c].took = k \/ k \notin claimed,
         x \in {"parked", "result"} => k # NoSession,
         x = "result" => resolver[k] = "result",
         mcp[c].for \in reaped /\ Running(mcp[c].for) => x \in {"owed", "error"}
  PROVE  RelayInv'
<1>1. /\ McpShape' /\ mcp'[c].at = x /\ mcp'[c].took = k
      /\ \A d \in Calls : mcp'[d].for = mcp[d].for
      /\ \A d \in Calls : d # c => mcp'[d] = mcp[d]
  BY McpFacts, McpUpdate
<1>2. Told' = Told /\ Sent' = Sent  BY ToldOfReq
<1>3. \A t : CallsOf(t)' = CallsOf(t) /\ Coming(t)' = Coming(t)
  BY CalmLists DEF Coming
<1>4. Shape'
  BY <1>1 DEF RelayInv, Shape, ReqShape, RunShape, PipeShape, ReaderShape, EventsShape
<1>5. RequestsInv'  BY <1>2 DEF RelayInv, RequestsInv
<1>6. ReadersInv'  BY <1>1, CalmReaders DEF RelayInv
<1>7. pending' = pending  BY DEF Calm
<1>8. OrphansAreInert'
  <2> SUFFICES ASSUME NEW s \in reaped, Running(s)
               PROVE  /\ pending[s] = <<>>
                      /\ \A d \in Calls : mcp'[d].for = s => mcp'[d].at \in {"owed", "error"}
    BY <1>7 DEF OrphansAreInert, Running
  <2>1. /\ pending[s] = <<>>
        /\ \A d \in Calls : mcp[d].for = s => mcp[d].at \in {"owed", "error"}
    BY DEF RelayInv, OrphansAreInert
  <2>2. QED  BY <1>1, <2>1
<1>9. PlacesInv'  BY CalmPlaces DEF RelayInv
<1>10. ToldInv'  BY <1>2, <1>3 DEF RelayInv, ToldInv
<1>11. DrivenInv'  BY <1>2 DEF RelayInv, DrivenInv, Drives
<1>12. ClaimsInv'
  <2>1. OneTaker'
    <3> SUFFICES ASSUME NEW d \in Calls, NEW e \in Calls, d # e, mcp'[d].took # NoSession
                 PROVE  mcp'[e].took # mcp'[d].took
      BY DEF OneTaker
    <3>1. \A a, b \in Calls : a # b /\ mcp[a].took # NoSession => mcp[b].took # mcp[a].took
      BY ClaimsParts DEF RelayInv, OneTaker
    <3>2. \A a \in Calls : mcp[a].took # NoSession => mcp[a].took \in claimed
      BY McpFacts DEF ClaimOf
    <3>3. QED  BY <1>1, <3>1, <3>2
  <2>2. ASSUME NEW d \in Calls PROVE ClaimOf(d)'
    <3>1. ClaimOf(d) /\ mcp[c].for \in Sessions  BY McpFacts
    <3>2. CASE d = c  BY <1>1, <1>2, <1>3, <3>1, <3>2 DEF ClaimOf
    <3>3. CASE d # c  BY <1>1, <1>2, <1>3, <3>1, <3>3 DEF ClaimOf
    <3>4. QED  BY <3>2, <3>3
  <2>3. QED  BY <2>1, <2>2, ClaimsParts
<1>13. QED
  BY <1>4, <1>5, <1>6, <1>8, <1>9, <1>10, <1>11, <1>12 DEF RelayInv

LEMMA TableAtRest ==
  ASSUME UNCHANGED tableVars
  PROVE  UNCHANGED <<index, table, resolved, resolver, reaped, cmd, toIndex, claimed>>
  BY DEF tableVars

LEMMA McpArriveStep ==
  ASSUME RelayInv, IInv', NEW c \in Calls, McpArrive(c)
  PROVE  RelayInv'
<1> DEFINE x == IF mcp[c].for \in table THEN "polling" ELSE "error"
<1>1. /\ mcp[c].at = "owed" /\ McpSet(c, x, NoSession)
      /\ UNCHANGED <<tableVars, req, running, cli, pipe, reader, events>>
  BY DEF McpArrive
<1>2. x \in McpStages \ {"none"} /\ x \notin {"parked", "result"}
  BY DEF McpStages
<1>3. mcp[c].for \in reaped => x = "error"
  BY TableSets DEF RelayInv
<1> HIDE DEF x
<1>4. Calm  BY <1>1, NothingIsCalm
<1>5. claimed' = claimed  BY <1>1, TableAtRest
<1>6. QED  BY <1>1, <1>2, <1>3, <1>4, <1>5, TableAtRest, McpMoves

LEMMA McpNeverAnnouncedStep ==
  ASSUME RelayInv, IInv', NEW c \in Calls, McpNeverAnnounced(c)
  PROVE  RelayInv'
<1>1. /\ mcp[c].at = "polling" /\ McpSet(c, "error", NoSession)
      /\ UNCHANGED <<tableVars, req, running, cli, pipe, reader, events>>
  BY DEF McpNeverAnnounced
<1>2. "error" \in McpStages \ {"none"}  BY DEF McpStages
<1>3. Calm  BY <1>1, NothingIsCalm
<1>4. claimed' = claimed  BY <1>1, TableAtRest
<1>5. QED  BY <1>1, <1>2, <1>3, <1>4, TableAtRest, McpMoves

LEMMA McpAnswerStep ==
  ASSUME RelayInv, IInv', NEW c \in Calls, McpAnswer(c)
  PROVE  RelayInv'
<1> DEFINE x == IF resolver[mcp[c].took] = "result" THEN "result" ELSE "error"
           k == mcp[c].took
<1>1. /\ mcp[c].at = "parked" /\ McpSet(c, x, k)
      /\ UNCHANGED <<tableVars, req, running, cli, pipe, reader, events>>
  BY DEF McpAnswer
<1>2. /\ x \in McpStages \ {"none"} /\ x \notin {"owed", "polling", "parked"}
      /\ x = "result" => resolver[k] = "result"
  BY DEF McpStages
<1>3. k \in Calls \union {NoSession} /\ ClaimOf(c)  BY McpFacts
<1>4. k # NoSession /\ k \in claimed /\ k \in CallsOf(mcp[c].for)
      /\ SignatureOf[k] = SignatureOf[c]
  BY <1>1, <1>3 DEF ClaimOf
<1>5. ~(mcp[c].for \in reaped /\ Running(mcp[c].for))
  BY <1>1 DEF RelayInv, OrphansAreInert
<1> HIDE DEF x
<1>6. Calm  BY <1>1, NothingIsCalm
<1>7. claimed' = claimed \union ({k} \ {NoSession})  BY <1>1, <1>4, TableAtRest
<1>8. QED  BY <1>1, <1>2, <1>3, <1>4, <1>5, <1>6, <1>7, TableAtRest, McpMoves

(* There is at most one call to claim: the first of its kind. *)
LEMMA OneClaimable ==
  ASSUME TypeOK, NEW s \in Sessions, NEW sig,
         NEW c \in Claimable(s, sig), NEW d \in Claimable(s, sig)
  PROVE  /\ c = d /\ c \in CallsOf(s) /\ c \in Calls
         /\ c \notin claimed /\ SignatureOf[c] = sig
<1>1. PICK i \in Matching(s, sig) :
        c = pending[s][i] /\ \A j \in Matching(s, sig) : i <= j
  BY DEF Claimable
<1>2. PICK k \in Matching(s, sig) :
        d = pending[s][k] /\ \A j \in Matching(s, sig) : k <= j
  BY DEF Claimable
<1>3. pending[s] \in Seq(Calls)  BY DEF TypeOK
<1>4. i \in DOMAIN pending[s] /\ k \in DOMAIN pending[s] /\ i <= k /\ k <= i
      /\ c \notin claimed /\ SignatureOf[c] = sig
  BY <1>1, <1>2 DEF Matching
<1>5. i \in Nat /\ k \in Nat  BY <1>3, <1>4
<1>6. i = k  BY <1>4, <1>5
<1>7. c \in CallsOf(s) /\ c \in Calls  BY <1>1, <1>3, <1>4, CallsOfMember
<1>8. QED  BY <1>1, <1>2, <1>4, <1>6, <1>7

LEMMA McpClaimStep ==
  ASSUME RelayInv, IInv', NEW c \in Calls, McpClaim(c)
  PROVE  RelayInv'
<1> DEFINE s == mcp[c].for
           sig == SignatureOf[c]
<1>1. /\ mcp[c].at = "polling" /\ Claim(s, sig)
      /\ UNCHANGED <<req, running, cli, pipe, reader, events>>
  BY DEF McpClaim
<1>2. s \in Sessions /\ TypeOK  BY <1>1, McpFacts DEF RelayInv, IInv
<1>3. PICK k \in Claimable(s, sig) : McpSet(c, "parked", k)
  BY DEF McpClaim
<1>4. PICK d \in Claimable(s, sig) :
        /\ claimed' = claimed \union {d}
        /\ UNCHANGED <<index, table, resolved, resolver, reaped, cmd, toIndex>>
  BY <1>1 DEF Claim
<1>5. k = d /\ k \in CallsOf(s) /\ k \in Calls /\ k \notin claimed /\ SignatureOf[k] = sig
  BY <1>2, <1>3, <1>4, OneClaimable
<1>6. Calm  BY <1>1, ClaimIsCalm
<1>7. k # NoSession /\ claimed' = claimed \union ({k} \ {NoSession})
  BY <1>4, <1>5, NoCallAssumption
<1>8. ~(s \in reaped /\ Running(s))
  BY <1>1 DEF RelayInv, OrphansAreInert
<1>9. "parked" \in McpStages \ {"none"} /\ k \in Calls \union {NoSession}
  BY <1>5 DEF McpStages
<1>10. QED  BY <1>1, <1>3, <1>4, <1>5, <1>6, <1>7, <1>8, <1>9, McpMoves

-----------------------------------------------------------------------------
(* The stream reader, and the sweeper.                                     *)

ReaderStages == {"off", "scan", "index", "send", "closed"}

LEMMA ReaderUpdate ==
  ASSUME ReaderShape, NEW s \in Sessions, NEW f \in Reader,
         reader' = [reader EXCEPT ![s] = f]
  PROVE  /\ ReaderShape' /\ reader'[s] = f
         /\ \A t \in Sessions : t # s => reader'[t] = reader[t]
  BY DEF ReaderShape

LEMMA ReaderStage ==
  ASSUME ReaderShape, NEW s \in Sessions, NEW x \in ReaderStages,
         reader' = [reader EXCEPT ![s].at = x]
  PROVE  /\ ReaderShape' /\ reader'[s].at = x /\ reader'[s].ev = reader[s].ev
         /\ \A t \in Sessions : t # s => reader'[t] = reader[t]
<1> DEFINE f == [reader[s] EXCEPT !.at = x]
<1>1. reader[s] \in Reader  BY DEF ReaderShape
<1>2. f \in Reader  BY <1>1, Zenon DEF Reader, ReaderStages
<1>3. f.at = x /\ f.ev = reader[s].ev  BY <1>1 DEF Reader
<1>4. reader' = [reader EXCEPT ![s] = f]  OBVIOUS
<1> HIDE DEF f
<1>5. QED  BY <1>2, <1>3, <1>4, ReaderUpdate

LEMMA ReaderHolds ==
  ASSUME ReaderShape, NEW s \in Sessions, NEW x \in ReaderStages,
         NEW e \in Event \union {Nothing},
         reader' = [reader EXCEPT ![s] = [@ EXCEPT !.at = x, !.ev = e]]
  PROVE  /\ ReaderShape' /\ reader'[s].at = x /\ reader'[s].ev = e
         /\ \A t \in Sessions : t # s => reader'[t] = reader[t]
<1> DEFINE f == [reader[s] EXCEPT !.at = x, !.ev = e]
<1>1. reader[s] \in Reader  BY DEF ReaderShape
<1>2. f \in Reader  BY <1>1, Zenon DEF Reader, ReaderStages
<1>3. f.at = x /\ f.ev = e  BY <1>1 DEF Reader
<1>4. reader' = [reader EXCEPT ![s] = f]  OBVIOUS
<1> HIDE DEF f
<1>5. QED  BY <1>2, <1>3, <1>4, ReaderUpdate

LEMMA SendsLater ==
  ASSUME ReaderShape, NEW s \in Sessions, NEW e \in Event, SendLater(s, e)
  PROVE  /\ ReaderShape' /\ reader'[s].at = "send" /\ reader'[s].ev = e
         /\ \A t \in Sessions : t # s => reader'[t] = reader[t]
<1>1. "send" \in ReaderStages /\ e \in Event \union {Nothing}  BY DEF ReaderStages
<1>2. reader' = [reader EXCEPT ![s] = [@ EXCEPT !.at = "send", !.ev = e]]
  BY DEF SendLater
<1>3. QED  BY <1>1, <1>2, ReaderHolds

LEMMA ReadersKept ==
  ASSUME ReadersInv, Calm, mcp' = mcp, NEW s \in Sessions, reader[s].at # "off",
         \A t \in Sessions : t # s => reader'[t] = reader[t],
         reader'[s].at \in {"index", "send"} => reader'[s].ev \in Event,
         reader'[s].at \notin {"index", "send"} => reader'[s].ev = Nothing
  PROVE  ReadersInv'
<1>1. cmd'[s] # "none"  BY DEF ReadersInv, Calm
<1>2. QED  BY <1>1 DEF ReadersInv, Calm

(* No call moves to another place: what is coming stays coming. *)
LEMMA ReaderMoves ==
  ASSUME RelayInv, IInv', Calm, UNCHANGED <<req, running, mcp>>,
         PipeShape', ReaderShape', EventsShape', ReadersInv', PlacesInv',
         \A t \in Sessions : Coming(t)' = Coming(t)
  PROVE  RelayInv'
<1>1. Told' = Told /\ Sent' = Sent  BY ToldOfReq
<1>2. Shape'  BY DEF RelayInv, Shape, ReqShape, RunShape, McpShape
<1>3. RequestsInv'  BY <1>1 DEF RelayInv, RequestsInv
<1>4. OrphansAreInert'  BY CalmOrphans DEF RelayInv
<1>5. table' \subseteq Sessions  BY TableSets DEF RelayInv, Calm
<1>6. ToldInv'  BY <1>1, <1>5, CalmTold DEF RelayInv
<1>7. DrivenInv'
  <2>1. \A s \in table' : \A q \in Requests : Drives(q, s) => Drives(q, s)'
    BY DEF Drives
  <2>2. QED  BY <1>1, <2>1, CalmDriven DEF RelayInv, Shape
<1>8. ClaimsInv'  BY <1>1, CalmClaims DEF RelayInv, Shape
<1>9. QED
  BY <1>2, <1>3, <1>4, <1>6, <1>7, <1>8 DEF RelayInv

LEMMA OnlyTheTable ==
  ASSUME RelayInv, IInv', Calm, UNCHANGED relayVars
  PROVE  RelayInv'
<1>1. UNCHANGED <<req, running, cli, pipe, reader, events, mcp>>  BY DEF relayVars
<1>2. PipeShape' /\ ReaderShape' /\ EventsShape'
  BY <1>1 DEF RelayInv, Shape, PipeShape, ReaderShape, EventsShape
<1>3. ReadersInv' /\ PlacesInv'  BY <1>1, CalmReaders, CalmPlaces DEF RelayInv
<1>4. \A t \in Sessions : Coming(t)' = Coming(t)  BY <1>1 DEF Coming
<1>5. QED  BY <1>1, <1>2, <1>3, <1>4, ReaderMoves

LEMMA SweepStep ==
  ASSUME RelayInv, IInv', NEW s \in Sessions, Sweep(s)
  PROVE  RelayInv'
<1>1. ReapSession(s) /\ UNCHANGED relayVars  BY DEF Sweep
<1>2. Calm  BY <1>1, ReapSessionIsCalm DEF RelayInv
<1>3. QED  BY <1>1, <1>2, OnlyTheTable

(* A line that brings no calls, or the end of the lines. *)
LEMMA ReadsNoCalls ==
  ASSUME RelayInv, IInv', NEW s \in Sessions, reader[s].at = "scan",
         UNCHANGED <<tableVars, req, running, events, mcp>>, PipeShape', ReaderShape',
         \A t \in Sessions : t # s => reader'[t] = reader[t],
         \/ reader'[s].at = "send" /\ reader'[s].ev \in Event /\ reader'[s].ev.calls = {}
         \/ reader'[s].at = "closed" /\ reader'[s].ev = reader[s].ev
  PROVE  RelayInv'
<1>1. Calm /\ toIndex' = toIndex  BY NothingIsCalm DEF tableVars
<1>2. reader[s].ev = Nothing /\ reader[s].ev.calls = {}
  BY EventFacts DEF RelayInv, ReadersInv
<1>3. ReadersInv'  BY <1>1, <1>2, ReadersKept DEF RelayInv
<1>4. EventsShape'  BY DEF RelayInv, Shape, EventsShape
<1>5. \A t \in Sessions : reader'[t].ev.calls = reader[t].ev.calls
  BY <1>2
<1>6. \A t \in Sessions : Coming(t)' = Coming(t)  BY <1>5 DEF Coming
<1>7. PlacesInv'
  <2>1. \A t : CallsOf(t)' = CallsOf(t)  BY <1>1, CalmLists
  <2>2. ASSUME NEW t \in Sessions
        PROVE  reader'[t].at = "send" => reader'[t].ev.calls \intersect toIndex = {}
    BY <1>2, <1>5 DEF RelayInv, PlacesInv
  <2>3. QED  BY <1>1, <1>5, <1>6, <2>1, <2>2 DEF RelayInv, PlacesInv
<1>8. QED  BY <1>1, <1>3, <1>4, <1>6, <1>7, ReaderMoves

LEMMA LineOff ==
  ASSUME RelayInv, NEW s \in Sessions, pipe[s] # <<>>, cli' = cli,
         pipe' = [pipe EXCEPT ![s] = Tail(pipe[s])]
  PROVE  PipeShape'
<1>1. pipe \in [Sessions -> Seq(Line)]
      /\ cli \in [Sessions -> {"off", "generating", "calling", "over"}]
  BY DEF RelayInv, Shape, PipeShape
<1>2. Tail(pipe[s]) \in Seq(Line)  BY <1>1
<1>3. QED  BY <1>1, <1>2 DEF PipeShape

LEMMA ReadPlainStep ==
  ASSUME RelayInv, IInv', NEW s \in Sessions, ReadPlain(s)
  PROVE  RelayInv'
<1>1. /\ reader[s].at = "scan" /\ pipe[s] # <<>>
      /\ pipe' = [pipe EXCEPT ![s] = Tail(pipe[s])]
      /\ \/ SendLater(s, Plain("stop"))
         \/ \E end \in Ends :
              reader' = [reader EXCEPT ![s] = [at |-> "send", ev |-> Plain(end), saw |-> TRUE]]
      /\ UNCHANGED <<tableVars, req, running, cli, events, mcp>>
  BY DEF ReadPlain
<1>2. PipeShape'  BY <1>1, LineOff
<1>3. ReaderShape  BY DEF RelayInv, Shape
<1>4. /\ ReaderShape' /\ reader'[s].at = "send"
      /\ reader'[s].ev \in Event /\ reader'[s].ev.calls = {}
      /\ \A t \in Sessions : t # s => reader'[t] = reader[t]
  <2>1. CASE SendLater(s, Plain("stop"))
    BY <1>3, <2>1, EventFacts, SendsLater
  <2>2. ASSUME NEW end \in Ends,
               reader' = [reader EXCEPT ![s] = [at |-> "send", ev |-> Plain(end), saw |-> TRUE]]
        PROVE  /\ ReaderShape' /\ reader'[s].at = "send"
               /\ reader'[s].ev \in Event /\ reader'[s].ev.calls = {}
               /\ \A t \in Sessions : t # s => reader'[t] = reader[t]
    <3> DEFINE ev == Plain(end)
               f == [at |-> "send", ev |-> ev, saw |-> TRUE]
    <3>1. ev \in Event /\ ev.calls = {}  BY EventFacts
    <3> HIDE DEF ev
    <3>2. f \in Reader /\ f.at = "send" /\ f.ev = ev  BY <3>1 DEF Reader
    <3>3. reader' = [reader EXCEPT ![s] = f]  BY <2>2 DEF ev
    <3> HIDE DEF f
    <3>4. QED  BY <1>3, <3>1, <3>2, <3>3, ReaderUpdate
  <2>3. QED  BY <1>1, <2>1, <2>2
<1>5. QED  BY <1>1, <1>2, <1>4, ReadsNoCalls

LEMMA ReadEOFStep ==
  ASSUME RelayInv, IInv', NEW s \in Sessions, ReadEOF(s)
  PROVE  RelayInv'
<1>1. /\ reader[s].at = "scan" /\ pipe' = [pipe EXCEPT ![s] = <<>>]
      /\ \/ reader' = [reader EXCEPT ![s].at = "closed"]
         \/ SendLater(s, Plain("run_end_error"))
      /\ UNCHANGED <<tableVars, req, running, cli, events, mcp>>
  BY DEF ReadEOF
<1>2. PipeShape'
  <2>1. <<>> \in Seq(Line)  OBVIOUS
  <2>2. QED  BY <1>1, <2>1 DEF RelayInv, Shape, PipeShape
<1>3. ReaderShape  BY DEF RelayInv, Shape
<1>4. /\ ReaderShape' /\ \A t \in Sessions : t # s => reader'[t] = reader[t]
      /\ \/ reader'[s].at = "send" /\ reader'[s].ev \in Event /\ reader'[s].ev.calls = {}
         \/ reader'[s].at = "closed" /\ reader'[s].ev = reader[s].ev
  <2>1. CASE reader' = [reader EXCEPT ![s].at = "closed"]
    BY <1>3, <2>1, ReaderStage DEF ReaderStages
  <2>2. CASE SendLater(s, Plain("run_end_error"))
    BY <1>3, <2>2, EventFacts, SendsLater DEF Ends
  <2>3. QED  BY <1>1, <2>1, <2>2
<1>5. QED  BY <1>1, <1>2, <1>4, ReadsNoCalls

LEMMA IndexCallsStep ==
  ASSUME RelayInv, IInv', NEW s \in Sessions, IndexCalls(s)
  PROVE  RelayInv'
<1>1. /\ reader[s].at = "index" /\ IndexRegistered(s)
      /\ reader' = [reader EXCEPT ![s].at = "send"]
      /\ UNCHANGED <<req, running, cli, pipe, events, mcp>>
  BY DEF IndexCalls
<1>2. Calm /\ toIndex' = toIndex \ CallsOf(s)
  BY <1>1, IndexIsCalm DEF RelayInv, IndexRegistered
<1>3. /\ ReaderShape' /\ reader'[s].at = "send" /\ reader'[s].ev = reader[s].ev
      /\ \A t \in Sessions : t # s => reader'[t] = reader[t]
  BY <1>1, ReaderStage DEF RelayInv, Shape, ReaderStages
<1>4. PipeShape' /\ EventsShape'
  BY <1>1 DEF RelayInv, Shape, PipeShape, EventsShape
<1>5. reader[s].ev \in Event  BY <1>1 DEF RelayInv, ReadersInv
<1>6. ReadersInv'  BY <1>1, <1>2, <1>3, <1>5, ReadersKept DEF RelayInv
<1>7. \A t \in Sessions : reader'[t].ev = reader[t].ev  BY <1>3
<1>8. \A t \in Sessions : Coming(t)' = Coming(t)  BY <1>1, <1>7 DEF Coming
<1>9. PlacesInv'
  <2>1. \A t : CallsOf(t)' = CallsOf(t)  BY <1>2, CalmLists
  <2>2. ASSUME NEW t \in Sessions
        PROVE  reader'[t].at = "send" => reader'[t].ev.calls \intersect toIndex' = {}
    <3>1. CASE t = s
      <4>1. reader[s].ev.calls \subseteq CallsOf(s)
        BY ComingMember DEF RelayInv, PlacesInv
      <4>2. QED  BY <1>2, <1>7, <3>1, <4>1
    <3>2. CASE t # s  BY <1>2, <1>3, <3>2 DEF RelayInv, PlacesInv
    <3>3. QED  BY <3>1, <3>2
  <2>3. QED  BY <1>1, <1>2, <1>7, <1>8, <2>1, <2>2 DEF RelayInv, PlacesInv
<1>10. QED  BY <1>1, <1>2, <1>3, <1>4, <1>6, <1>8, <1>9, ReaderMoves

LEMMA SendEventStep ==
  ASSUME RelayInv, IInv', NEW s \in Sessions, SendEvent(s)
  PROVE  RelayInv'
<1> DEFINE x == IF reader[s].ev.kind = "run_end_error" /\ ~reader[s].saw
                  THEN "closed" ELSE "scan"
           ev == reader[s].ev
           q == Append(events[s], ev)
<1>1. /\ reader[s].at = "send" /\ Len(events[s]) < EventCap
      /\ events' = [events EXCEPT ![s] = q]
      /\ reader' = [reader EXCEPT ![s] = [@ EXCEPT !.at = x, !.ev = Nothing]]
      /\ UNCHANGED <<tableVars, req, running, cli, pipe, mcp>>
  BY DEF SendEvent
<1>2. x \in ReaderStages /\ x \notin {"index", "send"}  BY DEF ReaderStages
<1> HIDE DEF x
<1>3. /\ ReaderShape' /\ reader'[s].at = x /\ reader'[s].ev = Nothing
      /\ \A t \in Sessions : t # s => reader'[t] = reader[t]
  BY <1>1, <1>2, ReaderHolds DEF RelayInv, Shape
<1>4. ev \in Event  BY <1>1 DEF RelayInv, ReadersInv
<1>5. Calm /\ toIndex' = toIndex  BY <1>1, NothingIsCalm DEF tableVars
<1>6. ReadersInv'  BY <1>1, <1>2, <1>3, <1>5, ReadersKept DEF RelayInv
<1>7. /\ events \in [Sessions -> Seq(Event)]
      /\ \A t \in Sessions : Len(events[t]) <= EventCap
  BY DEF RelayInv, Shape, EventsShape
<1>8. PlacesInv  BY DEF RelayInv
<1>9. /\ q \in Seq(Event) /\ Len(q) = Len(events[s]) + 1
      /\ In(q) = In(events[s]) \union ev.calls
      /\ Distinct(q)
  BY <1>4, <1>7, <1>8, AddLast DEF PlacesInv
<1> HIDE DEF q
<1>10. /\ events'[s] = q /\ events' \in [Sessions -> Seq(Event)]
       /\ \A t \in Sessions : t # s => events'[t] = events[t]
  BY <1>1, <1>7, <1>9
<1>11. PipeShape' /\ EventsShape'
  <2>1. Len(q) <= EventCap
    <3>1. Len(events[s]) \in Nat /\ EventCap \in Nat  BY <1>7, CapsAssumption
    <3>2. QED  BY <1>1, <1>9, <3>1
  <2>2. QED  BY <1>1, <1>7, <1>10, <2>1 DEF RelayInv, Shape, PipeShape, EventsShape
<1>12. Nothing.calls = {}  BY EventFacts
<1>13. \A t \in Sessions : Coming(t)' = Coming(t)
  <2>1. ASSUME NEW t \in Sessions PROVE \A c : c \in Coming(t)' <=> c \in Coming(t)
    BY <1>3, <1>9, <1>10, <1>12, ComingMember
  <2>2. QED  BY <2>1
<1>14. PlacesInv'
  <2>1. \A t : CallsOf(t)' = CallsOf(t)  BY <1>5, CalmLists
  <2>2. ASSUME NEW t \in Sessions
        PROVE  /\ Distinct(events'[t])
               /\ reader'[t].ev.calls \intersect In(events'[t]) = {}
               /\ In(events'[t]) \intersect toIndex = {}
               /\ reader'[t].at = "send" => reader'[t].ev.calls \intersect toIndex = {}
    <3>1. CASE t = s
      <4>1. ev.calls \intersect toIndex = {} /\ In(events[s]) \intersect toIndex = {}
        BY <1>1, <1>8 DEF PlacesInv
      <4>2. QED  BY <1>3, <1>9, <1>10, <1>12, <3>1, <4>1
    <3>2. CASE t # s  BY <1>3, <1>8, <1>10, <3>2 DEF PlacesInv
    <3>3. QED  BY <3>1, <3>2
  <2>3. QED  BY <1>1, <1>5, <1>8, <1>13, <2>1, <2>2 DEF PlacesInv
<1>15. QED  BY <1>1, <1>3, <1>5, <1>6, <1>11, <1>13, <1>14, ReaderMoves

(* A line with calls: they are announced and on their way at once. *)
LEMMA AnnounceStep ==
  ASSUME RelayInv, IInv', NEW s \in Sessions, NEW batch \in Batches,
         reader[s].at = "scan", PipeShape',
         Register(s, batch), IndexLater(s, batch),
         UNCHANGED <<req, running, cli, events, mcp>>
  PROVE  RelayInv'
<1> DEFINE fresh == ToSet(batch)
           e == [kind |-> "calls", calls |-> fresh]
<1>1. /\ s \notin reaped /\ cmd[s] # "none" /\ RegisterUnchecked(s, batch)
  BY DEF Register
<1>2. /\ CallsOf(s)' = CallsOf(s) \union fresh
      /\ \A t \in Sessions \ {s} : CallsOf(t)' = CallsOf(t)
      /\ fresh \subseteq Calls \ Minted
      /\ pending' \in [Sessions -> Seq(Calls)]
  BY <1>1, RegisterLists DEF RelayInv, IInv
<1>3. /\ toIndex' = toIndex \union fresh
      /\ pending' = [pending EXCEPT ![s] = pending[s] \o batch]
      /\ UNCHANGED <<created, table, index, reaped, cmd, claimed, resolved, resolver>>
  BY <1>1 DEF RegisterUnchecked
<1>4. \A t \in Sessions : t # s => pending'[t] = pending[t]
  BY <1>3 DEF RelayInv, IInv, TypeOK
<1>5. reader' = [reader EXCEPT ![s] = [@ EXCEPT !.at = "index", !.ev = e]]
  BY DEF IndexLater
<1> HIDE DEF fresh
<1>6. e \in Event /\ e.calls = fresh  BY <1>2 DEF Event
<1> HIDE DEF e
<1>7. /\ ReaderShape' /\ reader'[s].at = "index" /\ reader'[s].ev = e
      /\ \A t \in Sessions : t # s => reader'[t] = reader[t]
  <2>1. "index" \in ReaderStages /\ e \in Event \union {Nothing}
    BY <1>6 DEF ReaderStages
  <2>2. QED  BY <1>5, <2>1, ReaderHolds DEF RelayInv, Shape
<1>8. reader[s].ev.calls = {}
  BY EventFacts DEF RelayInv, ReadersInv
<1>9. /\ Coming(s)' = Coming(s) \union fresh
      /\ \A t \in Sessions : t # s => Coming(t)' = Coming(t)
  <2>1. \A c : c \in Coming(s)' <=> c \in Coming(s) \union fresh
    BY <1>6, <1>7, <1>8, ComingMember
  <2>2. \A t \in Sessions : t # s => Coming(t)' = Coming(t)
    BY <1>7 DEF Coming
  <2>3. QED  BY <2>1, <2>2
<1>10. PlacesInv  BY DEF RelayInv
(* None of them was anywhere before. *)
<1>11. /\ \A t \in Sessions : CallsOf(t) \intersect fresh = {}
       /\ \A t \in Sessions : Coming(t) \intersect fresh = {}
       /\ \A t \in Sessions : In(events[t]) \intersect fresh = {}
       /\ \A q \in Requests : req[q].calls \intersect fresh = {}
       /\ resolved \intersect fresh = {}
  <2>1. \A t \in Sessions : CallsOf(t) \intersect fresh = {}
    BY <1>2, MintedMember
  <2>2. \A t \in Sessions : Coming(t) \intersect fresh = {}
    BY <1>10, <2>1 DEF PlacesInv
  <2>3. \A t \in Sessions : In(events[t]) \intersect fresh = {}
    BY <2>2, ComingMember
  <2>4. ASSUME NEW q \in Requests PROVE req[q].calls \intersect fresh = {}
    <3>1. req[q].sess \in Sessions \union {NoSession}
      BY ReqFacts DEF RelayInv, Shape, Request
    <3>2. CASE req[q].sess = NoSession
      BY <3>2 DEF RelayInv, RequestsInv
    <3>3. CASE req[q].sess \in Sessions
      BY <1>10, <2>1, <3>3 DEF PlacesInv
    <3>4. QED  BY <3>1, <3>2, <3>3
  <2>5. resolved \intersect fresh = {}
    BY <2>1 DEF RelayInv, IInv, OutcomesInv
  <2>6. QED  BY <2>1, <2>2, <2>3, <2>4, <2>5
<1>12. Told' = Told /\ Sent' = Sent  BY ToldOfReq
<1>13. Shape'
  BY <1>7 DEF RelayInv, Shape, ReqShape, RunShape, EventsShape, McpShape
<1>14. RequestsInv'  BY <1>12 DEF RelayInv, RequestsInv
<1>15. ReadersInv'
  <2> SUFFICES ASSUME NEW t \in Sessions
               PROVE  /\ cmd[t] = "none" =>
                           /\ pending'[t] = <<>>
                           /\ reader'[t].at = "off"
                           /\ \A c \in Calls : mcp[c].for # t
                      /\ reader'[t].at \in {"index", "send"} => reader'[t].ev \in Event
                      /\ reader'[t].at \notin {"index", "send"} => reader'[t].ev = Nothing
    BY <1>3 DEF ReadersInv
  <2>1. CASE t = s  BY <1>1, <1>6, <1>7, <2>1
  <2>2. CASE t # s  BY <1>4, <1>7, <2>2 DEF RelayInv, ReadersInv
  <2>3. QED  BY <2>1, <2>2
<1>16. OrphansAreInert'
  <2>1. reaped \subseteq Sessions  BY DEF RelayInv, IInv, TypeOK
  <2>2. QED  BY <1>1, <1>3, <1>4, <2>1 DEF RelayInv, OrphansAreInert, Running
<1>17. PlacesInv'
  <2>1. ASSUME NEW t \in Sessions
        PROVE  /\ Coming(t)' \subseteq CallsOf(t)'
               /\ Distinct(events[t])
               /\ reader'[t].ev.calls \intersect In(events[t]) = {}
               /\ In(events[t]) \intersect toIndex' = {}
               /\ reader'[t].at = "send" => reader'[t].ev.calls \intersect toIndex' = {}
    <3>1. /\ Coming(t) \subseteq CallsOf(t) /\ Distinct(events[t])
          /\ reader[t].ev.calls \intersect In(events[t]) = {}
          /\ In(events[t]) \intersect toIndex = {}
          /\ reader[t].at = "send" => reader[t].ev.calls \intersect toIndex = {}
      BY <1>10 DEF PlacesInv
    <3>2. In(events[t]) \intersect toIndex' = {}  BY <1>3, <1>11, <3>1
    <3>3. CASE t = s
      BY <1>2, <1>6, <1>7, <1>9, <1>11, <3>1, <3>2, <3>3
    <3>4. CASE t # s
      <4>1. reader[t].ev.calls \intersect fresh = {}  BY <1>11, ComingMember
      <4>2. QED  BY <1>2, <1>3, <1>7, <1>9, <3>1, <3>2, <3>4, <4>1
    <3>5. QED  BY <3>3, <3>4
  <2>2. ASSUME NEW q \in Requests, NEW t \in Sessions
        PROVE  /\ req[q].calls \intersect Coming(t)' = {}
               /\ req[q].sess = t => req[q].calls \subseteq CallsOf(t)' \ toIndex'
    <3>1. /\ req[q].calls \intersect Coming(t) = {}
          /\ req[q].sess = t => req[q].calls \subseteq CallsOf(t) \ toIndex
      BY <1>10 DEF PlacesInv
    <3>2. Coming(t)' \subseteq Coming(t) \union fresh
          /\ CallsOf(t) \subseteq CallsOf(t)'
      BY <1>2, <1>9
    <3>3. QED  BY <1>3, <1>11, <3>1, <3>2
  <2>3. QED  BY <1>10, <2>1, <2>2 DEF PlacesInv
<1>18. ToldInv'
  <2> SUFFICES ASSUME NEW t \in table, NEW c \in CallsOf(t)'
               PROVE  /\ c \notin Told => c \notin resolved
                      /\ \/ c \in Told \union Coming(t)'
                         \/ \E q \in Requests :
                              /\ req[q].sess = t /\ req[q].at \in {"collect", "reap"}
                              /\ c \in req[q].calls
    BY <1>3, <1>12 DEF ToldInv
  <2>1. t \in Sessions  BY TableSets DEF RelayInv
  <2>2. CASE c \in CallsOf(t)
    <3>1. Coming(t) \subseteq Coming(t)'  BY <1>9, <2>1
    <3>2. QED  BY <2>2, <3>1 DEF RelayInv, ToldInv
  <2>3. CASE t = s /\ c \in fresh  BY <1>9, <1>11, <2>3
  <2>4. QED  BY <1>2, <2>1, <2>2, <2>3
<1>19. DrivenInv'  BY <1>3, <1>12 DEF RelayInv, DrivenInv, Drives
<1>20. ClaimsInv'
  <2>1. \A t \in Sessions : CallsOf(t) \subseteq CallsOf(t)'  BY <1>2
  <2>2. OneTaker'  BY ClaimsParts DEF RelayInv, OneTaker
  <2>3. ASSUME NEW c \in Calls PROVE ClaimOf(c)'
    <3>1. ClaimOf(c)  BY ClaimsParts DEF RelayInv
    <3>2. QED  BY <1>3, <1>12, <2>1, <3>1 DEF ClaimOf
  <2>4. QED  BY <2>2, <2>3, ClaimsParts
<1>21. QED
  BY <1>13, <1>14, <1>15, <1>16, <1>17, <1>18, <1>19, <1>20 DEF RelayInv

LEMMA ReadCallsStep ==
  ASSUME RelayInv, IInv', NEW s \in Sessions, ReadCalls(s)
  PROVE  RelayInv'
<1>1. /\ reader[s].at = "scan" /\ pipe[s] # <<>>
      /\ pipe' = [pipe EXCEPT ![s] = Tail(pipe[s])]
      /\ Announce(s, Head(pipe[s]).batch)
      /\ UNCHANGED <<req, running, cli, events, mcp>>
  BY DEF ReadCalls
<1>2. PipeShape'  BY <1>1, LineOff
<1>3. CASE SendLater(s, Plain("calls")) /\ UNCHANGED tableVars
  <2>1. ReaderShape  BY DEF RelayInv, Shape
  <2>2. Plain("calls") \in Event /\ Plain("calls").calls = {}  BY EventFacts
  <2>3. /\ ReaderShape' /\ reader'[s].at = "send" /\ reader'[s].ev = Plain("calls")
        /\ \A t \in Sessions : t # s => reader'[t] = reader[t]
    BY <1>3, <2>1, <2>2, SendsLater
  <2>4. QED  BY <1>1, <1>2, <1>3, <2>2, <2>3, ReadsNoCalls
<1>4. CASE /\ Register(s, Head(pipe[s]).batch)
           /\ IndexLater(s, Head(pipe[s]).batch)
  <2>1. Head(pipe[s]).batch \in Batches  BY <1>4 DEF Register, RegisterUnchecked
  <2>2. QED  BY <1>1, <1>2, <1>4, <2>1, AnnounceStep
<1>5. QED  BY <1>1, <1>3, <1>4 DEF Announce

-----------------------------------------------------------------------------
LEMMA RelayInitInvariant == RelayInit => RelayInv
<1> SUFFICES ASSUME RelayInit PROVE RelayInv
  OBVIOUS
<1>1. Init /\ IInv  BY InitInvariant DEF RelayInit
<1>2. /\ req = [r \in Requests |-> NewRequest] /\ running = {}
      /\ cli = [s \in Sessions |-> "off"] /\ pipe = [s \in Sessions |-> <<>>]
      /\ reader = [s \in Sessions |-> ReaderOff] /\ events = [s \in Sessions |-> <<>>]
      /\ mcp = [c \in Calls |-> [at |-> "none", for |-> NoSession, took |-> NoSession]]
  BY DEF RelayInit
<1>3. /\ table = {} /\ created = {} /\ reaped = {}
      /\ \A s \in Sessions : pending[s] = <<>>
      /\ \A c \in Calls : resolver[c] = "empty"
  BY <1>1 DEF Init
<1>4. \A s \in Sessions : CallsOf(s) = {}
  BY <1>3 DEF CallsOf, ToSet
<1>5. /\ NewRequest \in Request /\ NewRequest.at = "idle" /\ NewRequest.results = {}
      /\ NewRequest.history = {} /\ NewRequest.calls = {} /\ NewRequest.left = {}
      /\ NewRequest.taken = {} /\ NewRequest.outcome = "none"
      /\ NewRequest.sess = NoSession
  BY DEF NewRequest, Request, Stages, Outcomes
<1>6. /\ ReaderOff \in Reader /\ ReaderOff.at = "off" /\ ReaderOff.ev = Nothing
      /\ Nothing.calls = {}
  BY EventFacts DEF ReaderOff, Reader
<1> HIDE DEF NewRequest, ReaderOff
<1>7. Shape
  <2>1. ReqShape  BY <1>2, <1>5 DEF ReqShape
  <2>2. RunShape
    <3>1. Cardinality({}) = 0 /\ IsFiniteSet({})  BY FS_EmptySet
    <3>2. QED  BY <1>2, <3>1, CapsAssumption DEF RunShape
  <2>3. PipeShape  BY <1>2 DEF PipeShape
  <2>4. ReaderShape  BY <1>2, <1>6 DEF ReaderShape
  <2>5. EventsShape  BY <1>2, CapsAssumption DEF EventsShape
  <2>6. McpShape  BY <1>2 DEF McpShape, McpCall
  <2>7. QED  BY <2>1, <2>2, <2>3, <2>4, <2>5, <2>6 DEF Shape
<1>8. \A r \in Requests : req[r] = NewRequest  BY <1>2
<1>9. \A s \in Sessions : reader[s] = ReaderOff /\ events[s] = <<>>  BY <1>2
<1>10. \A c \in Calls : mcp[c].at = "none" /\ mcp[c].for = NoSession
                          /\ mcp[c].took = NoSession
  BY <1>2
<1>11. RequestsInv  BY <1>5, <1>8 DEF RequestsInv
<1>12. ReadersInv
  BY <1>3, <1>6, <1>9, <1>10, SessionsAssumption DEF ReadersInv
<1>13. OrphansAreInert  BY <1>3 DEF OrphansAreInert
<1>14. PlacesInv
  <2>1. In(<<>>) = {} /\ Distinct(<<>>)  BY DEF In, Distinct, ToSet
  <2>2. \A s \in Sessions : Coming(s) = {}
    BY <1>6, <1>9, <2>1, ComingMember
  <2>3. QED
    BY <1>4, <1>5, <1>6, <1>8, <1>9, <2>1, <2>2, SessionsAssumption DEF PlacesInv
<1>15. ToldInv /\ DrivenInv  BY <1>3 DEF ToldInv, DrivenInv
<1>16. ClaimsInv  BY <1>3, <1>10 DEF ClaimsInv
<1>17. QED
  BY <1>1, <1>7, <1>11, <1>12, <1>13, <1>14, <1>15, <1>16 DEF RelayInv

LEMMA RelayStepInvariant == RelayInv /\ [RelayNext]_vars => RelayInv'
<1> SUFFICES ASSUME RelayInv, [RelayNext]_vars PROVE RelayInv'
  OBVIOUS
<1>1. IInv'  BY TableInvariant
<1>2. CASE UNCHANGED vars
  <2>1. UNCHANGED tableVars /\ UNCHANGED relayVars  BY <1>2 DEF vars
  <2>2. QED  BY <1>1, <2>1, NothingIsCalm, OnlyTheTable
<1>3. ASSUME NEW r \in Requests,
             \/ SendFresh(r) \/ Supersede(r) \/ Acquire(r) \/ GiveUpWaiting(r)
             \/ TooManySessions(r) \/ StartClaudeSession(r) \/ SpawnFails(r)
             \/ CollectEvent(r) \/ CollectClosed(r) \/ CollectStops(r) \/ ReapAndAnswer(r)
      PROVE  RelayInv'
  BY <1>1, <1>3, SendFreshStep, SupersedeStep, AcquireStep, GiveUpWaitingStep,
     TooManySessionsStep, StartClaudeSessionStep, SpawnFailsStep, CollectEventStep,
     CollectClosedStep, CollectStopsStep, ReapAndAnswerStep
<1>4. ASSUME NEW r \in Requests, NEW s \in Sessions, SendFollowUp(r, s) \/ StartTurn(r, s)
      PROVE  RelayInv'
  BY <1>1, <1>4, SendFollowUpStep, StartTurnStep
<1>5. ASSUME NEW r \in Requests, NEW c \in Calls, Deliver(r, c) \/ Forget(r, c)
      PROVE  RelayInv'
  BY <1>1, <1>5, DeliverKnownStep, DeliverUnknownStep, ForgetStep
<1>6. ASSUME NEW s \in Sessions,
             \/ CliAnnounce(s) \/ CliGoesOn(s) \/ CliResult(s) \/ CliCrash(s)
             \/ Sweep(s) \/ ReadPlain(s) \/ ReadCalls(s) \/ IndexCalls(s)
             \/ SendEvent(s) \/ ReadEOF(s)
      PROVE  RelayInv'
  BY <1>1, <1>6, CliAnnounceStep, CliGoesOnStep, CliResultStep, CliCrashStep, SweepStep,
     ReadPlainStep, ReadCallsStep, IndexCallsStep, SendEventStep, ReadEOFStep
<1>7. ASSUME NEW c \in Calls,
             McpArrive(c) \/ McpClaim(c) \/ McpNeverAnnounced(c) \/ McpAnswer(c)
      PROVE  RelayInv'
  BY <1>1, <1>7, McpArriveStep, McpClaimStep, McpNeverAnnouncedStep, McpAnswerStep
<1>8. QED  BY <1>2, <1>3, <1>4, <1>5, <1>6, <1>7 DEF RelayNext

-----------------------------------------------------------------------------
(* The stations of a call and of a session hold together throughout.       *)
THEOREM RelayInvariance == RelaySpec => []RelayInv
<1>1. RelayInit => RelayInv  BY RelayInitInvariant
<1>2. RelayInv /\ [RelayNext]_vars => RelayInv'  BY RelayStepInvariant
<1>3. QED  BY <1>1, <1>2, PTL DEF RelaySpec

(* The relay uses SessionManager as SessionTable describes it, whatever    *)
(* the handlers, the readers, the CLI and the client do: what is proved of *)
(* the table alone is true of it here.                                     *)
THEOREM RelayUsesTheTable == RelaySpec => Spec
<1>1. RelayInit => Init  BY DEF RelayInit
<1>2. RelayInv /\ [RelayNext]_vars => [Next]_tableVars  BY TableSteps
<1>3. QED  BY <1>1, <1>2, RelayInvariance, PTL DEF RelaySpec, Spec

(* All variables keep their shape: the limiter's bound, the capacity of    *)
(* Session.Events, and that results are delivered out of what was sent.    *)
THEOREM RelayTypeCorrect == RelaySpec => []RelayTypeOK
<1>1. RelayInv => RelayTypeOK  BY ShapeIsType DEF RelayInv
<1>2. QED  BY <1>1, RelayInvariance, PTL

(* A process started for a session that was reaped in the meantime gets    *)
(* nothing done over MCP.                                                  *)
THEOREM OrphansInert == RelaySpec => []OrphansAreInert
<1>1. RelayInv => OrphansAreInert  BY DEF RelayInv
<1>2. QED  BY <1>1, RelayInvariance, PTL

(* A tools/call is answered with what the client sent for that very call,  *)
(* or with an error.                                                       *)
THEOREM ResultsCorrect == RelaySpec => []ResultsReachTheirCall
<1>1. RelayInv => ResultsReachTheirCall
  <2> SUFFICES ASSUME RelayInv, NEW c \in Calls, mcp[c].at = "result"
               PROVE  /\ mcp[c].took \in CallsOf(mcp[c].for) \intersect Told \intersect Sent
                      /\ SignatureOf[mcp[c].took] = SignatureOf[c]
                      /\ \A d \in Calls \ {c} : mcp[d].took # mcp[c].took
    BY DEF ResultsReachTheirCall
  <2>1. ClaimOf(c) /\ OneTaker  BY ClaimsParts DEF RelayInv
  <2>2. /\ mcp[c].took # NoSession /\ mcp[c].took \in CallsOf(mcp[c].for)
        /\ resolver[mcp[c].took] = "result" /\ SignatureOf[mcp[c].took] = SignatureOf[c]
    BY <2>1 DEF ClaimOf
  <2>3. mcp[c].took \in Calls  BY <2>2, McpFacts
  <2>4. mcp[c].took \in Told \intersect Sent
    BY <2>2, <2>3, ClaimsParts DEF RelayInv, ClaimOf
  <2>5. \A d \in Calls \ {c} : mcp[d].took # mcp[c].took
    BY <2>1, <2>2 DEF OneTaker
  <2>6. QED  BY <2>2, <2>4, <2>5
<1>2. QED  BY <1>1, RelayInvariance, PTL

(* No live session is forgotten: a request drives it, or the client can    *)
(* still continue it or supersede it.                                      *)
THEOREM SessionsReachable == RelaySpec => []UndrivenSessionsAreReachable
<1>1. RelayInv => UndrivenSessionsAreReachable
  BY DEF RelayInv, DrivenInv, Drives, UndrivenSessionsAreReachable, Open
<1>2. QED  BY <1>1, RelayInvariance, PTL

(* No call of a session that nobody drives is lost between the CLI's       *)
(* output and the client.                                                  *)
THEOREM CallsTold == RelaySpec => []UndrivenCallsAreTold
<1>1. RelayInv => UndrivenCallsAreTold
  BY DEF RelayInv, ToldInv, UndrivenCallsAreTold, Open
<1>2. QED  BY <1>1, RelayInvariance, PTL

(* A request ends the tool loops its history names and it does not         *)
(* continue: ReapSuperseded finds them all, because whatever the client    *)
(* was told of is in the index until it is resolved.                       *)
THEOREM LoopsEnd == RelaySpec => AbandonedLoopsEnd
<1>1. ASSUME RelayInv, RelayNext, NEW r \in Requests,
             req[r].at = "supersede", req'[r].at = "acquire"
      PROVE  Supersede(r)
  <2>0. req \in [Requests -> Request]  BY <1>1 DEF RelayInv, Shape, ReqShape
  <2>1. ASSUME NEW q \in Requests, req[q].at # "supersede",
               \/ Acquire(q) \/ GiveUpWaiting(q)
               \/ TooManySessions(q) \/ StartClaudeSession(q) \/ SpawnFails(q)
               \/ CollectClosed(q) \/ CollectStops(q) \/ ReapAndAnswer(q)
        PROVE  req'[r] = req[r]
    <3>1. \E f : req' = [req EXCEPT ![q] = f]
      BY <2>1 DEF Acquire, GiveUpWaiting, TooManySessions, StartClaudeSession,
                  SpawnFails, CollectClosed, CollectStops, ReapAndAnswer, Finish, TurnOver
    <3>2. QED  BY <1>1, <2>0, <2>1, <3>1
  <2>2. ASSUME NEW q \in Requests, req[q].at # "supersede", CollectEvent(q)
        PROVE  req'[r] = req[r]
    BY <1>1, <2>2, CollectGathers DEF Gathers
  <2>3. ASSUME NEW q \in Requests, req[q].at # "supersede", NEW results, NEW history,
               Arrive(q, results, history)
        PROVE  req'[r] = req[r]
    <3>1. \E f : req' = [req EXCEPT ![q] = f]
      BY <2>3 DEF Arrive
    <3>2. QED  BY <1>1, <2>0, <2>3, <3>1
  <2>4. ASSUME NEW q \in Requests, req[q].at # "supersede", SendFresh(q)
        PROVE  req'[r] = req[r]
    BY <2>3, <2>4 DEF SendFresh
  <2>5. ASSUME NEW q \in Requests, NEW s \in Sessions, req[q].at # "supersede",
               SendFollowUp(q, s) \/ StartTurn(q, s)
        PROVE  req'[r] = req[r]
    <3>1. CASE SendFollowUp(q, s)  BY <2>3, <2>5, <3>1 DEF SendFollowUp
    <3>2. CASE StartTurn(q, s)
      <4>1. \E f : req' = [req EXCEPT ![q] = f]  BY <3>2 DEF StartTurn
      <4>2. QED  BY <1>1, <2>0, <2>5, <4>1
    <3>3. QED  BY <2>5, <3>1, <3>2
  <2>6. ASSUME NEW q \in Requests, NEW c \in Calls, req[q].at # "supersede",
               Deliver(q, c) \/ Forget(q, c)
        PROVE  req'[r] = req[r]
    <3>1. \E f : req' = [req EXCEPT ![q] = f]  BY <2>6 DEF Deliver, Forget
    <3>2. QED  BY <1>1, <2>0, <2>6, <3>1
  <2>7. ASSUME NEW q \in Requests,
               \/ SendFresh(q) \/ Acquire(q) \/ GiveUpWaiting(q)
               \/ TooManySessions(q) \/ StartClaudeSession(q) \/ SpawnFails(q)
               \/ CollectEvent(q) \/ CollectClosed(q) \/ CollectStops(q) \/ ReapAndAnswer(q)
        PROVE  req[q].at # "supersede"
    BY <2>7
       DEF SendFresh, Arrive, Acquire, GiveUpWaiting, TooManySessions, StartClaudeSession,
           SpawnFails, CollectEvent, CollectClosed, CollectStops, ReapAndAnswer
  <2>8. /\ \A q \in Requests, s \in Sessions :
             SendFollowUp(q, s) \/ StartTurn(q, s) => req[q].at # "supersede"
        /\ \A q \in Requests, c \in Calls :
             Deliver(q, c) \/ Forget(q, c) => req[q].at # "supersede"
    BY DEF SendFollowUp, Arrive, StartTurn, Deliver, Forget
  <2>9. ASSUME NEW q \in Requests, Supersede(q), q # r PROVE req'[r] = req[r]
    BY <1>1, <2>9 DEF Supersede
  <2>10. ASSUME NEW s \in Sessions,
                \/ CliAnnounce(s) \/ CliGoesOn(s) \/ CliResult(s) \/ CliCrash(s)
                \/ Sweep(s) \/ ReadPlain(s) \/ ReadCalls(s) \/ IndexCalls(s)
                \/ SendEvent(s) \/ ReadEOF(s)
         PROVE  req' = req
    BY <2>10 DEF CliAnnounce, CliGoesOn, CliResult, CliCrash, Sweep, relayVars, ReadPlain,
                 ReadCalls, IndexCalls, SendEvent, ReadEOF
  <2>11. ASSUME NEW c \in Calls,
                McpArrive(c) \/ McpClaim(c) \/ McpNeverAnnounced(c) \/ McpAnswer(c)
         PROVE  req' = req
    BY <2>11 DEF McpArrive, McpClaim, McpNeverAnnounced, McpAnswer
  <2>12. req'[r] # req[r]  BY <1>1
  <2>13. ASSUME NEW q \in Requests,
                \/ SendFresh(q) \/ Acquire(q) \/ GiveUpWaiting(q)
                \/ TooManySessions(q) \/ StartClaudeSession(q) \/ SpawnFails(q)
                \/ CollectEvent(q) \/ CollectClosed(q) \/ CollectStops(q) \/ ReapAndAnswer(q)
         PROVE  FALSE
    BY <2>1, <2>2, <2>4, <2>7, <2>12, <2>13
  <2>14. QED
    BY <1>1, <2>5, <2>6, <2>8, <2>9, <2>10, <2>11, <2>12, <2>13 DEF RelayNext
<1>2. ASSUME RelayInv, NEW r \in Requests, Supersede(r),
             NEW s \in table' \ {req[r].sess}, NEW c \in req[r].history \intersect CallsOf(s)
      PROVE  c \in resolved'
  <2>1. ReapSuperseded(req[r].history, req[r].sess) /\ IInv
    BY <1>2 DEF Supersede, RelayInv
  <2>2. /\ table' = table \ ({index[d] : d \in req[r].history} \ {req[r].sess, NoSession})
        /\ resolved \subseteq resolved'
    BY <2>1, ReapSupersededIsCalm DEF ReapSuperseded, ReapLocked
  <2>3. s \in table /\ s \in Sessions /\ s # NoSession
    BY <2>1, <2>2, TableSets
  <2>4. c \in Told  BY <1>2 DEF RelayInv, RequestsInv
  <2>5. PICK t \in Sessions : c \in CallsOf(t) \ toIndex
    BY <1>2, <2>4, ToldIsKnown
  <2>6. c \notin toIndex  BY <2>5
  <2>7. c \in resolved \/ index[c] = s
    BY <2>1, <2>3, <2>6 DEF IInv, IndexIsFaithful
  <2>8. index[c] # s  BY <2>2, <2>3
  <2>9. QED  BY <2>2, <2>7, <2>8
<1>3. RelayInv /\ [RelayNext]_vars =>
        [\A r \in Requests :
           req[r].at = "supersede" /\ req'[r].at = "acquire" =>
             \A s \in table' \ {req[r].sess} :
               req[r].history \intersect CallsOf(s) \subseteq resolved']_vars
  BY <1>1, <1>2
<1>4. QED  BY <1>3, RelayInvariance, PTL DEF RelaySpec, AbandonedLoopsEnd
=============================================================================
