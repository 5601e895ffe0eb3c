------------------------------ MODULE ToolRelay ------------------------------
(***************************************************************************)
(* A tool-calling turn from end to end: the chat-completion handlers       *)
(* (server.go), the stream reader of each session (claudecli.go), the MCP  *)
(* handlers (mcpserver.go), and between them the session table, whose      *)
(* operations are those of SessionTable.tla and whose promise SlotPool.tla *)
(* stands for the limiter.  Two parties are outside the repository: the    *)
(* CLI, which writes its stream and calls tools over MCP, and the client,  *)
(* which sends requests.  They may do whatever their protocol allows: a    *)
(* client may answer some of the calls, answer twice, send a new turn      *)
(* instead, or go away.                                                    *)
(***************************************************************************)
EXTENDS SessionTable

CONSTANTS
  Requests,      (* HTTP requests, each sent once *)
  Concurrency,   (* slots of the limiter *)
  EventCap,      (* capacity of Session.Events: 64 in the code *)
  Retries        (* whether the client may send a request about a session
                    while an earlier one about it is still open *)

ASSUME NoCallAssumption == NoSession \notin Calls
ASSUME RetriesAssumption == Retries \in BOOLEAN
ASSUME CapsAssumption == Concurrency \in Nat \ {0} /\ EventCap \in Nat \ {0}

VARIABLES
  req,           (* the handler of each request *)
  running,       (* requests that hold a slot *)
  cli,           (* external: phase of each session's CLI *)
  pipe,          (* the CLI's stdout: lines the reader has not scanned *)
  reader,        (* relaySessionStream of each session *)
  events,        (* Session.Events *)
  mcp            (* the tools/call request for each call, and what it claimed *)

relayVars == <<req, running, cli, pipe, reader, events, mcp>>
vars == <<tableVars, relayVars>>

-----------------------------------------------------------------------------
(* A handler's stages:                                                     *)
(*  idle       not sent                                                    *)
(*  supersede  continuation looked up, about to call ReapSuperseded        *)
(*  acquire    waiting for a slot                                          *)
(*  resolve    has a slot and results left to deliver                      *)
(*  unindex    inside ResolveToolCall, between its two sections            *)
(*  start      has a new session whose CLI is being started                *)
(*  collect    in collectTurn                                              *)
(*  reap       turn over, about to call ReapSession                        *)
(*  done       answered                                                    *)
Stages == {"idle", "supersede", "acquire", "resolve", "unindex", "start",
           "collect", "reap", "done"}

(* How a request ended: its status, or what the turn was.                  *)
Outcomes == {"none", "tools", "final", "cli_error", "stopped", "gone",
             "busy", "spawn_failed"}

NewRequest == [at |-> "idle", results |-> {}, history |-> {},
               sess |-> NoSession, left |-> {}, taken |-> {}, calls |-> {},
               stop |-> FALSE, outcome |-> "none"]

(* What travels from the CLI's output to a handler: SessionEvent. *)
Plain(kind) == [kind |-> kind, calls |-> {}]
Nothing == Plain("none")
Ends == {"run_end", "run_end_error"}
Event == [kind : {"calls"}, calls : SUBSET Calls]
           \union {Plain(kind) : kind \in {"stop"} \union Ends}

Line == [kind : {"stop", "result", "calls"}, batch : Seq(Calls)]

(* What a reader is doing; ev is the event it is about to send. *)
ReaderOff == [at |-> "off", ev |-> Nothing, saw |-> FALSE]

RelayTypeOK ==
  /\ TypeOK
  /\ req \in [Requests -> [at : Stages, results : SUBSET Calls, history : SUBSET Calls,
                            sess : Sessions \union {NoSession}, left : SUBSET Calls,
                            taken : SUBSET Calls, calls : SUBSET Calls,
                            stop : BOOLEAN, outcome : Outcomes]]
  /\ \A r \in Requests : req[r].left \union req[r].taken \subseteq req[r].results
  /\ running \subseteq Requests
  /\ Cardinality(running) <= Concurrency
  /\ cli \in [Sessions -> {"off", "generating", "calling", "over"}]
  /\ pipe \in [Sessions -> Seq(Line)]
  /\ reader \in [Sessions -> [at : {"off", "scan", "index", "send", "closed"},
                              ev : Event \union {Nothing}, saw : BOOLEAN]]
  /\ events \in [Sessions -> Seq(Event)]
  /\ \A s \in Sessions : Len(events[s]) <= EventCap
  /\ mcp \in [Calls -> [at : {"none", "owed", "polling", "parked", "result", "error"},
                         for : Sessions \union {NoSession},
                         took : Calls \union {NoSession}]]

RelayInit ==
  /\ Init
  /\ req = [r \in Requests |-> NewRequest]
  /\ running = {}
  /\ cli = [s \in Sessions |-> "off"]
  /\ pipe = [s \in Sessions |-> <<>>]
  /\ reader = [s \in Sessions |-> ReaderOff]
  /\ events = [s \in Sessions |-> <<>>]
  /\ mcp = [c \in Calls |-> [at |-> "none", for |-> NoSession, took |-> NoSession]]

-----------------------------------------------------------------------------
(* The client.  It knows the calls of the responses it got; a request is   *)
(* about the session of one of those responses, or about none.             *)

Open(r) == req[r].at \notin {"idle", "done"}
Told == UNION {req[r].calls : r \in {q \in Requests : req[q].outcome = "tools"}}
Sent == UNION {req[r].results : r \in Requests}
About(r, s) == req[r].sess = s \/ req[r].history \intersect CallsOf(s) # {}

(* The handler looks the continuation up as soon as the body is parsed:     *)
(* findContinuationSession, the first trailing result that hits.            *)
Arrive(r, results, history) ==
  /\ req[r].at = "idle"
  /\ MuFree
  /\ LET hits == {index[c] : c \in results} \intersect table
     IN \E s \in (IF hits = {} THEN {NoSession} ELSE hits) :
          req' = [req EXCEPT ![r] = [@ EXCEPT !.at = "supersede", !.results = results,
                                              !.left = results, !.history = history,
                                              !.sess = s]]
  /\ UNCHANGED <<tableVars, running, cli, pipe, reader, events, mcp>>

SendFresh(r) == Arrive(r, {}, {})

SendFollowUp(r, s) ==
  /\ Told \intersect CallsOf(s) # {}
  /\ Retries \/ \A q \in Requests : Open(q) => ~About(q, s)
  /\ \E results \in SUBSET (Told \intersect CallsOf(s)) :
       /\ Retries \/ results \in {{}, (Told \intersect CallsOf(s)) \ Sent}
       /\ Arrive(r, results, Told \intersect CallsOf(s))

-----------------------------------------------------------------------------
(* handleChatCompletions.                                                  *)

SupersedeAnswered(r) ==              \* deviation: only the results are looked up
  /\ req[r].at = "supersede"
  /\ ReapSuperseded(req[r].results, req[r].sess)
  /\ req' = [req EXCEPT ![r].at = "acquire"]
  /\ UNCHANGED <<running, cli, pipe, reader, events, mcp>>

Supersede(r) ==
  /\ req[r].at = "supersede"
  /\ ReapSuperseded(req[r].history, req[r].sess)
  /\ req' = [req EXCEPT ![r].at = "acquire"]
  /\ UNCHANGED <<running, cli, pipe, reader, events, mcp>>

(* Acquire; sess is the session found before the wait.  A slot is given    *)
(* back together with the answer: the code releases it just after.         *)
AcquireAnyway(r) ==                  \* deviation: the limiter is not asked
  /\ req[r].at = "acquire"
  /\ running' = running \union {r}
  /\ req' = [req EXCEPT ![r].at = "resolve"]
  /\ UNCHANGED <<tableVars, cli, pipe, reader, events, mcp>>

Acquire(r) ==
  /\ req[r].at = "acquire"
  /\ Cardinality(running) < Concurrency
  /\ running' = running \union {r}
  /\ req' = [req EXCEPT ![r].at = "resolve"]
  /\ UNCHANGED <<tableVars, cli, pipe, reader, events, mcp>>

Finish(r, outcome) ==
  /\ req' = [req EXCEPT ![r] = [@ EXCEPT !.at = "done", !.outcome = outcome]]
  /\ running' = running \ {r}

GiveUpWaiting(r) ==
  /\ req[r].at = "acquire"
  /\ Finish(r, "gone")
  /\ UNCHANGED <<tableVars, cli, pipe, reader, events, mcp>>

(* handleToolTurn without a continuation: a new session, or 429... *)
StartTurn(r, s) ==
  /\ req[r].at = "resolve"
  /\ req[r].sess = NoSession
  /\ CreateSession(s)
  /\ req' = [req EXCEPT ![r] = [@ EXCEPT !.at = "start", !.sess = s]]
  /\ UNCHANGED <<running, cli, pipe, reader, events, mcp>>

TooManySessions(r) ==
  /\ req[r].at = "resolve"
  /\ req[r].sess = NoSession
  /\ MuFree
  /\ Cardinality(table) >= MaxSessions
  /\ Finish(r, "busy")
  /\ UNCHANGED <<tableVars, cli, pipe, reader, events, mcp>>

(* ...StartClaudeSession: the process runs and its reader is started...    *)
StartClaudeSession(r) ==
  LET s == req[r].sess
  IN /\ req[r].at = "start"
     /\ StoreCmd(s)
     /\ cli' = [cli EXCEPT ![s] = "generating"]
     /\ reader' = [reader EXCEPT ![s].at = "scan"]
     /\ req' = [req EXCEPT ![r].at = "collect"]
     /\ UNCHANGED <<running, pipe, events, mcp>>

(* ...or it could not be started.  *)
SpawnFails(r) ==
  /\ req[r].at = "start"
  /\ ReapSession(req[r].sess)
  /\ Finish(r, "spawn_failed")
  /\ UNCHANGED <<cli, pipe, reader, events, mcp>>

(* After the last result handleToolTurn goes on to collectTurn. *)
Delivering(left) == IF left = {} THEN "collect" ELSE "resolve"

(* The continuation: ResolveToolCall for each result, its answer ignored.  *)
Deliver(r, c) ==
  LET s == req[r].sess
      known == c \in CallsOf(s) \ resolved
  IN /\ req[r].at = "resolve"
     /\ s # NoSession
     /\ c \in req[r].left
     /\ IF known
          THEN /\ Resolve(s, c)
               /\ req' = [req EXCEPT ![r] = [@ EXCEPT !.at = "unindex",
                                                   !.left = req[r].left \ {c},
                                                   !.taken = req[r].taken \union {c}]]
          ELSE /\ req' = [req EXCEPT ![r] = [@ EXCEPT !.at = Delivering(req[r].left \ {c}),
                                                   !.left = req[r].left \ {c}]]
               /\ UNCHANGED tableVars
     /\ UNCHANGED <<running, cli, pipe, reader, events, mcp>>

Forget(r, c) ==
  /\ req[r].at = "unindex"
  /\ c \in req[r].taken
  /\ Unindex(c)
  /\ req' = [req EXCEPT ![r].at = Delivering(req[r].left)]
  /\ UNCHANGED <<running, cli, pipe, reader, events, mcp>>

-----------------------------------------------------------------------------
(* The CLI (external): it announces calls, in one line or in a line each,  *)
(* and stops for them, dispatches a tools/call for each, and goes on when  *)
(* all are answered; a result line ends the run.  Killed, it writes and    *)
(* calls no more.  Its text deltas end no turn and are left out: they only *)
(* fill the channel sooner.                                                *)

Running(s) == cmd[s] = "running"
Owed(s) == {c \in Calls : mcp[c].for = s /\ mcp[c].at \notin {"none", "result", "error"}}

CliAnnounce(s) ==
  /\ Running(s) /\ cli[s] = "generating"
  /\ \E batch \in BoundedSeq({c \in Calls : mcp[c].at = "none"}, MaxBatch) :
       /\ batch # <<>> /\ IsInjective(batch)
       /\ \E lines \in {<<batch>>, [i \in DOMAIN batch |-> <<batch[i]>>]} :
            pipe' = [pipe EXCEPT ![s] =
                       @ \o [i \in DOMAIN lines |-> [kind |-> "calls", batch |-> lines[i]]]
                         \o <<[kind |-> "stop", batch |-> <<>>]>>]
       /\ mcp' = [c \in Calls |-> IF c \in ToSet(batch)
                     THEN [mcp[c] EXCEPT !.at = "owed", !.for = s] ELSE mcp[c]]
  /\ cli' = [cli EXCEPT ![s] = "calling"]
  /\ UNCHANGED <<tableVars, req, running, reader, events>>

CliGoesOn(s) ==
  /\ Running(s) /\ cli[s] = "calling" /\ Owed(s) = {}
  /\ cli' = [cli EXCEPT ![s] = "generating"]
  /\ UNCHANGED <<tableVars, req, running, pipe, reader, events, mcp>>

CliResult(s) ==
  /\ Running(s) /\ cli[s] = "generating"
  /\ cli' = [cli EXCEPT ![s] = "over"]
  /\ pipe' = [pipe EXCEPT ![s] = Append(@, [kind |-> "result", batch |-> <<>>])]
  /\ UNCHANGED <<tableVars, req, running, reader, events, mcp>>

CliCrash(s) ==
  /\ Running(s) /\ cli[s] \in {"generating", "calling"}
  /\ cli' = [cli EXCEPT ![s] = "over"]
  /\ UNCHANGED <<tableVars, req, running, pipe, reader, events, mcp>>

-----------------------------------------------------------------------------
(* relaySessionStream.                                                     *)

SendLater(s, ev) == reader' = [reader EXCEPT ![s] = [@ EXCEPT !.at = "send", !.ev = ev]]

(* A stop or result line (the CLI may report an error): the event goes      *)
(* straight to the channel.                                                *)
ReadPlain(s) ==
  /\ reader[s].at = "scan"
  /\ pipe[s] # <<>>
  /\ Head(pipe[s]).kind # "calls"
  /\ pipe' = [pipe EXCEPT ![s] = Tail(@)]
  /\ \/ Head(pipe[s]).kind = "stop" /\ SendLater(s, Plain("stop"))
     \/ /\ Head(pipe[s]).kind = "result"
        /\ \E end \in Ends :
             reader' = [reader EXCEPT ![s] = [at |-> "send", ev |-> Plain(end), saw |-> TRUE]]
  /\ UNCHANGED <<tableVars, req, running, cli, events, mcp>>

(* An assistant line: register first, tell the handler afterwards.  On a    *)
(* reaped session nothing is registered, and the event has no calls.       *)
IndexLater(s, batch) ==
  reader' = [reader EXCEPT ![s] =
               [@ EXCEPT !.at = "index", !.ev = [kind |-> "calls", calls |-> ToSet(batch)]]]

AnnounceUnchecked(s, batch) ==       \* deviation: Reaped not looked at
  RegisterUnchecked(s, batch) /\ IndexLater(s, batch)

Announce(s, batch) ==
  \/ s \in reaped /\ SendLater(s, Plain("calls")) /\ UNCHANGED tableVars
  \/ s \notin reaped /\ Register(s, batch) /\ IndexLater(s, batch)

ReadCalls(s) ==
  /\ reader[s].at = "scan"
  /\ pipe[s] # <<>>
  /\ Head(pipe[s]).kind = "calls"
  /\ pipe' = [pipe EXCEPT ![s] = Tail(@)]
  /\ Announce(s, Head(pipe[s]).batch)
  /\ UNCHANGED <<req, running, cli, events, mcp>>

IndexCalls(s) ==
  /\ reader[s].at = "index"
  /\ IndexRegistered(s)
  /\ reader' = [reader EXCEPT ![s].at = "send"]
  /\ UNCHANGED <<req, running, cli, pipe, events, mcp>>

(* sess.Events <- ev blocks while the channel is full. *)
SendEvent(s) ==
  /\ reader[s].at = "send"
  /\ Len(events[s]) < EventCap
  /\ events' = [events EXCEPT ![s] = Append(@, reader[s].ev)]
  /\ reader' = [reader EXCEPT ![s] =
                  [@ EXCEPT !.at = IF reader[s].ev.kind = "run_end_error" /\ ~reader[s].saw
                                     THEN "closed" ELSE "scan",
                            !.ev = Nothing]]
  /\ UNCHANGED <<tableVars, req, running, cli, pipe, mcp>>

(* The scan ends: the CLI wrote all it had, or was killed before it could. *)
ReadEOF(s) ==
  /\ reader[s].at = "scan"
  /\ \/ cmd[s] = "killed"
     \/ pipe[s] = <<>> /\ cli[s] = "over"
  /\ pipe' = [pipe EXCEPT ![s] = <<>>]
  /\ IF reader[s].saw
       THEN reader' = [reader EXCEPT ![s].at = "closed"]
       ELSE SendLater(s, Plain("run_end_error"))
  /\ UNCHANGED <<tableVars, req, running, cli, events, mcp>>

-----------------------------------------------------------------------------
(* collectTurn, and what handleToolTurn does with its outcome.             *)

TurnOver(r, outcome) ==
  req' = [req EXCEPT ![r] = [@ EXCEPT !.at = "reap", !.outcome = outcome]]

CollectedLast(r, ev) ==              \* deviation: each line replaces the calls
  IF ev.kind = "calls" THEN ev.calls ELSE req[r].calls

Collected(r, ev) == req[r].calls \union ev.calls

(* A turn that stopped for tool calls is answered at once; every other end *)
(* reaps the session first.                                                *)
CollectEvent(r) ==
  LET s == req[r].sess
      ev == Head(events[s])
      calls == Collected(r, ev)
      stop == req[r].stop \/ ev.kind = "stop"
  IN /\ req[r].at = "collect"
     /\ events[s] # <<>>
     /\ events' = [events EXCEPT ![s] = Tail(@)]
     /\ \/ ev.kind = "run_end" /\ TurnOver(r, "final") /\ UNCHANGED running
        \/ ev.kind = "run_end_error" /\ TurnOver(r, "cli_error") /\ UNCHANGED running
        \/ /\ ev.kind \in {"calls", "stop"}
           /\ IF stop /\ calls # {}
                THEN /\ req' = [req EXCEPT ![r] = [@ EXCEPT !.at = "done", !.calls = calls,
                                                            !.stop = stop, !.outcome = "tools"]]
                     /\ running' = running \ {r}
                ELSE /\ req' = [req EXCEPT ![r] = [@ EXCEPT !.calls = calls, !.stop = stop]]
                     /\ UNCHANGED running
     /\ UNCHANGED <<tableVars, cli, pipe, reader, mcp>>

CollectClosed(r) ==
  /\ req[r].at = "collect"
  /\ events[req[r].sess] = <<>>
  /\ reader[req[r].sess].at = "closed"
  /\ TurnOver(r, "cli_error")
  /\ UNCHANGED <<tableVars, running, cli, pipe, reader, events, mcp>>

(* The turn's timer (504), or the client went away (499). *)
CollectStops(r) ==
  /\ req[r].at = "collect"
  /\ TurnOver(r, "stopped")
  /\ UNCHANGED <<tableVars, running, cli, pipe, reader, events, mcp>>

AnswerOnly(r) ==                     \* deviation: the session is left behind
  /\ req[r].at = "reap"
  /\ Finish(r, req[r].outcome)
  /\ UNCHANGED <<tableVars, cli, pipe, reader, events, mcp>>

ReapAndAnswer(r) ==
  /\ req[r].at = "reap"
  /\ ReapSession(req[r].sess)
  /\ Finish(r, req[r].outcome)
  /\ UNCHANGED <<cli, pipe, reader, events, mcp>>

-----------------------------------------------------------------------------
(* handleMCPEndpoint and handleMCPToolsCall.                               *)

McpSet(c, at, took) == mcp' = [mcp EXCEPT ![c] = [@ EXCEPT !.at = at, !.took = took]]

(* The CLI posts the request; the session is looked up once.               *)
McpArrive(c) ==
  /\ mcp[c].at = "owed"
  /\ Running(mcp[c].for)
  /\ MuFree
  /\ McpSet(c, IF mcp[c].for \in table THEN "polling" ELSE "error", NoSession)
  /\ UNCHANGED <<tableVars, req, running, cli, pipe, reader, events>>

McpClaim(c) ==
  LET s == mcp[c].for
  IN /\ mcp[c].at = "polling"
     /\ Claim(s, SignatureOf[c])
     /\ \E k \in Claimable(s, SignatureOf[c]) : McpSet(c, "parked", k)
     /\ UNCHANGED <<req, running, cli, pipe, reader, events>>

(* Two seconds of polling found nothing to claim.  *)
McpNeverAnnounced(c) ==
  /\ mcp[c].at = "polling"
  /\ Claimable(mcp[c].for, SignatureOf[c]) = {}
  /\ McpSet(c, "error", NoSession)
  /\ UNCHANGED <<tableVars, req, running, cli, pipe, reader, events>>

McpAnswerAnyway(c) ==                \* deviation: a closed Resolver is a result
  /\ mcp[c].at = "parked"
  /\ resolver[mcp[c].took] # "empty"
  /\ McpSet(c, "result", mcp[c].took)
  /\ UNCHANGED <<tableVars, req, running, cli, pipe, reader, events>>

McpAnswer(c) ==
  /\ mcp[c].at = "parked"
  /\ resolver[mcp[c].took] # "empty"
  /\ McpSet(c, IF resolver[mcp[c].took] = "result" THEN "result" ELSE "error",
            mcp[c].took)
  /\ UNCHANGED <<tableVars, req, running, cli, pipe, reader, events>>

-----------------------------------------------------------------------------
(* The sweeper.  How old a session is and when its round comes is time, of *)
(* which nothing is known here: it may reap any session of the table at    *)
(* any moment.  Its own steps are in SessionTable.                         *)
Sweep(s) ==
  /\ s \in table
  /\ ReapSession(s)
  /\ UNCHANGED relayVars

RelayNext ==
  \/ \E r \in Requests :
       \/ SendFresh(r) \/ Supersede(r) \/ Acquire(r) \/ GiveUpWaiting(r)
       \/ TooManySessions(r) \/ StartClaudeSession(r) \/ SpawnFails(r)
       \/ CollectEvent(r) \/ CollectClosed(r)
       \/ CollectStops(r) \/ ReapAndAnswer(r)
       \/ \E s \in Sessions : SendFollowUp(r, s) \/ StartTurn(r, s)
       \/ \E c \in Calls : Deliver(r, c) \/ Forget(r, c)
  \/ \E s \in Sessions :
       \/ CliAnnounce(s) \/ CliGoesOn(s) \/ CliResult(s) \/ CliCrash(s)
       \/ Sweep(s) \/ ReadPlain(s) \/ ReadCalls(s) \/ IndexCalls(s) \/ SendEvent(s) \/ ReadEOF(s)
  \/ \E c \in Calls :
       McpArrive(c) \/ McpClaim(c) \/ McpNeverAnnounced(c) \/ McpAnswer(c)

RelaySpec == RelayInit /\ [][RelayNext]_vars
-----------------------------------------------------------------------------
(* A live session is driven by an open request, or the client can reach it: *)
(* some call it was told of is unresolved and indexed, so that a result     *)
(* resumes it and a new turn supersedes it.  Otherwise nothing but the idle *)
(* timeout would ever free its place and its process (handleToolTurn reaps  *)
(* on every end of a turn but tool calls).                                 *)
UndrivenSessionsAreReachable ==
  \A s \in table :
    \/ \E r \in Requests : Open(r) /\ req[r].sess = s
    \/ \E c \in Told \ resolved : index[c] = s

(* The calls of the events that are in the channel or on their way to it.  *)
Coming(s) == reader[s].ev.calls \union UNION {e.calls : e \in ToSet(events[s])}

(* Nor does such a session wait for a result that nobody can send: the      *)
(* client was told of every call it has to answer, or its next request will *)
(* be, even where duplicated continuations shared the events of a turn     *)
(* (collectTurn).                                                          *)
UndrivenCallsAreTold ==
  \A s \in table :
    \/ \E r \in Requests : Open(r) /\ req[r].sess = s
    \/ CallsOf(s) \subseteq resolved \union Told \union Coming(s)

(* A session reaped between CreateSession and the store of its process     *)
(* leaves that process running.  It can do nothing there: its calls are    *)
(* not announced to anybody, and none of its tools/call requests parks.    *)
OrphansAreInert ==
  \A s \in reaped : Running(s) =>
    /\ pending[s] = <<>>
    /\ \A c \in Calls : mcp[c].for = s => mcp[c].at \in {"owed", "error"}

(* What the CLI gets as the result of a tools/call is what the client sent  *)
(* for a call of that very session with that name and those arguments, and *)
(* no result is given out twice (ClaimPendingCall, ResolveToolCall, and the *)
(* closed Resolver of a reaped session in handleMCPToolsCall).             *)
ResultsReachTheirCall ==
  \A c \in Calls : mcp[c].at = "result" =>
    LET k == mcp[c].took
    IN /\ k \in CallsOf(mcp[c].for) \intersect Told \intersect Sent
       /\ SignatureOf[k] = SignatureOf[c]
       /\ \A d \in Calls \ {c} : mcp[d].took # k

(* A request ends every tool loop its history names and it does not        *)
(* continue: once it is past ReapSuperseded no other live session waits    *)
(* for a call the client mentioned (ADR 0001 §7).                          *)
AbandonedLoopsEnd ==
  [][\A r \in Requests :
       req[r].at = "supersede" /\ req'[r].at = "acquire" =>
         \A s \in table' \ {req[r].sess} :
           req[r].history \intersect CallsOf(s) \subseteq resolved']_vars

(* docs/spec.md:370, README.md:260: when a session is reaped "a             *)
(* continuation is not lost".  A client that never has two requests about   *)
(* one session open gets at least one result of its continuation delivered, *)
(* or its answer does not come from the session that was reaped.            *)
NoContinuationLost ==
  \A r \in Requests :
    req[r].at = "done" /\ req[r].outcome = "cli_error" /\ req[r].results # {}
      => req[r].taken # {}
=============================================================================
