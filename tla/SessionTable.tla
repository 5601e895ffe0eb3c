---------------------------- MODULE SessionTable ----------------------------
(***************************************************************************)
(* The table of tool-calling sessions: internal/gateway/session.go.        *)
(*                                                                         *)
(* Two kinds of lock guard it: SessionManager.mu (the table and the global *)
(* index from tool_call_id to session) and one Session.Mu per session (its *)
(* pending calls, Reaped, LastActivity, Cmd).  An action below is one      *)
(* critical section.  RegisterAnnouncedCalls and ResolveToolCall have two  *)
(* of them, under different locks, and anything may happen in between;     *)
(* the sweeper keeps mu but lets go of a session's Mu between looking at   *)
(* its age and reaping it.                                                 *)
(***************************************************************************)
EXTENDS Integers, FiniteSets, Sequences, SequencesExt

CONSTANTS
  Sessions,      (* session ids: 128 random bits, never used twice *)
  Calls,         (* tool_call_ids: 96 random bits, never used twice *)
  NoSession,     (* the index has no entry for this id *)
  SignatureOf,   (* the (name, canonical arguments) each call will carry *)
  MaxSessions,   (* Config.MaxSessions *)
  MaxBatch       (* bound: tool_use blocks in one assistant message *)

ASSUME SessionsAssumption == IsFiniteSet(Sessions) /\ NoSession \notin Sessions
ASSUME CallsAssumption == SignatureOf \in [Calls -> Range(SignatureOf)]
ASSUME BoundsAssumption == MaxSessions \in Nat /\ MaxBatch \in Nat \ {0}

VARIABLES
  created,       (* sessions CreateSession has returned *)
  table,         (* SessionManager.sessions *)
  index,         (* SessionManager.toolCallIDToSession *)
  pending,       (* Session.Pending, in announcement order *)
  reaped,        (* sessions with Reaped set *)
  cmd,           (* Session.Cmd: not set, running, killed by the reap *)
  overdue,       (* the limits LastActivity is older than; {} once reaped *)
  claimed,       (* calls with Claimed set *)
  resolved,      (* calls with Resolved set *)
  resolver,      (* PendingToolCall.Resolver: nothing yet, result, closed *)
  toIndex,       (* registered calls whose index entry is still to be made *)
  toUnindex,     (* resolved calls whose index entry is still to be deleted *)
  sweep,         (* the sweeper's round: holds mu, sessions left, the doomed *)
  open           (* Close has not been called *)

tableVars == <<created, table, index, pending, reaped, cmd, overdue, claimed,
               resolved, resolver, toIndex, toUnindex, sweep, open>>

(* ToolTimeoutMS applies while a call is unresolved, SessionIdleMS else.   *)
Limits == {"tool", "idle"}
NoSweep == [on |-> FALSE, left |-> {}, doomed |-> {}]

CallsOf(s) == ToSet(pending[s])
Minted == UNION {CallsOf(s) : s \in Sessions}
Owner(c) == CHOOSE s \in Sessions : c \in CallsOf(s)
HasPending(s) == CallsOf(s) \ resolved # {}

(* mu is free: only the sweeper holds it across more than one action. *)
MuFree == ~sweep.on

TypeOK ==
  /\ created \subseteq Sessions
  /\ table \subseteq created
  /\ index \in [Calls -> Sessions \union {NoSession}]
  /\ pending \in [Sessions -> Seq(Calls)]
  /\ reaped = created \ table
  /\ cmd \in [Sessions -> {"none", "running", "killed"}]
  /\ overdue \in [Sessions -> SUBSET Limits]
  /\ claimed \subseteq Calls
  /\ resolved \subseteq Calls
  /\ resolver \in [Calls -> {"empty", "result", "closed"}]
  /\ toIndex \subseteq Calls
  /\ toUnindex \subseteq Calls
  /\ sweep \in [on: BOOLEAN, left: SUBSET Sessions, doomed: SUBSET Sessions]
  /\ open \in BOOLEAN
  /\ Cardinality(table) <= MaxSessions

Init ==
  /\ created = {}
  /\ table = {}
  /\ index = [c \in Calls |-> NoSession]
  /\ pending = [s \in Sessions |-> <<>>]
  /\ reaped = {}
  /\ cmd = [s \in Sessions |-> "none"]
  /\ overdue = [s \in Sessions |-> {}]
  /\ claimed = {}
  /\ resolved = {}
  /\ resolver = [c \in Calls |-> "empty"]
  /\ toIndex = {}
  /\ toUnindex = {}
  /\ sweep = NoSweep
  /\ open = TRUE

-----------------------------------------------------------------------------
(* CreateSession and the session's process.                                *)

CreateSession(s) ==
  /\ MuFree
  /\ s \notin created
  /\ Cardinality(table) < MaxSessions
  /\ created' = created \union {s}
  /\ table' = table \union {s}
  /\ UNCHANGED <<index, pending, reaped, cmd, overdue, claimed, resolved,
                 resolver, toIndex, toUnindex, sweep, open>>

(* StartClaudeSession stores the started process without looking at Reaped. *)
StoreCmd(s) ==
  /\ s \in created
  /\ cmd[s] = "none"
  /\ cmd' = [cmd EXCEPT ![s] = "running"]
  /\ UNCHANGED <<created, table, index, pending, reaped, overdue, claimed,
                 resolved, resolver, toIndex, toUnindex, sweep, open>>

-----------------------------------------------------------------------------
(* RegisterAnnouncedCalls: the session's stream reader announces the calls *)
(* of one assistant message.                                               *)

Batches == {b \in BoundedSeq(Calls \ Minted, MaxBatch) :
              b # <<>> /\ IsInjective(b)}

RegisterUnchecked(s, batch) ==      \* alone, a deviation: Reaped not looked at
  /\ s \in created
  /\ toIndex \intersect CallsOf(s) = {}      \* a session has one reader
  /\ batch \in Batches
  /\ pending' = [pending EXCEPT ![s] = @ \o batch]
  /\ toIndex' = toIndex \union ToSet(batch)
  /\ overdue' = [overdue EXCEPT ![s] = {}]
  /\ UNCHANGED <<created, table, index, reaped, cmd, claimed, resolved,
                 resolver, toUnindex, sweep, open>>

Register(s, batch) ==
  /\ s \notin reaped
  /\ cmd[s] # "none"
  /\ RegisterUnchecked(s, batch)

(* The second section, for everything the first one registered.  It does   *)
(* not look whether the session still exists.                              *)
IndexRegistered(s) ==
  /\ MuFree
  /\ toIndex \intersect CallsOf(s) # {}
  /\ index' = [c \in Calls |->
                 IF c \in toIndex \intersect CallsOf(s) THEN s ELSE index[c]]
  /\ toIndex' = toIndex \ CallsOf(s)
  /\ UNCHANGED <<created, table, pending, reaped, cmd, overdue, claimed,
                 resolved, resolver, toUnindex, sweep, open>>

-----------------------------------------------------------------------------
(* ResolveToolCall.  The caller got the session from GetSession... before, *)
(* so it may have been reaped since; it learns the id only after the reader *)
(* sent the announcement, which is after IndexRegistered.                  *)

Send(c) == resolver' = [resolver EXCEPT ![c] = "result"]

ResolveUnchecked(s, c) ==           \* alone, a deviation: Resolved not looked at
  /\ c \in CallsOf(s) \ toIndex
  /\ resolved' = resolved \union {c}
  /\ Send(c)
  /\ overdue' = [overdue EXCEPT ![s] = {}]
  /\ toUnindex' = toUnindex \union {c}
  /\ UNCHANGED <<created, table, index, pending, reaped, cmd, claimed,
                 toIndex, sweep, open>>

Resolve(s, c) ==
  /\ c \notin resolved
  /\ ResolveUnchecked(s, c)

UnindexNothing(c) ==                \* deviation: the delete is missing
  /\ MuFree
  /\ c \in toUnindex
  /\ toUnindex' = toUnindex \ {c}
  /\ UNCHANGED <<created, table, index, pending, reaped, cmd, overdue, claimed,
                 resolved, resolver, toIndex, sweep, open>>

Unindex(c) ==
  /\ MuFree
  /\ c \in toUnindex
  /\ index' = [index EXCEPT ![c] = NoSession]
  /\ toUnindex' = toUnindex \ {c}
  /\ UNCHANGED <<created, table, pending, reaped, cmd, overdue, claimed,
                 resolved, resolver, toIndex, sweep, open>>

-----------------------------------------------------------------------------
(* ClaimPendingCall: an MCP tools/call takes the first unclaimed pending    *)
(* call with its name and arguments.  Neither Resolved nor Reaped matters.  *)

Matching(s, sig) ==
  {i \in DOMAIN pending[s] :
     pending[s][i] \notin claimed /\ SignatureOf[pending[s][i]] = sig}

ClaimNewest(s, sig) == {pending[s][i] : i \in
  {i \in Matching(s, sig) : \A j \in Matching(s, sig) : j <= i}}

Claimable(s, sig) == {pending[s][i] : i \in
  {i \in Matching(s, sig) : \A j \in Matching(s, sig) : i <= j}}

Claim(s, sig) ==
  \E c \in Claimable(s, sig) :
    /\ claimed' = claimed \union {c}
    /\ overdue' = [overdue EXCEPT ![s] = {}]
    /\ UNCHANGED <<created, table, index, pending, reaped, cmd, resolved,
                   resolver, toIndex, toUnindex, sweep, open>>

-----------------------------------------------------------------------------
(* reapSessionLocked, for every session of S that is in the table.         *)

ClearIndexWholly(S) == [c \in Calls |-> NoSession]    \* deviation

ClearIndex(S) == [c \in Calls |-> IF index[c] \in S THEN NoSession ELSE index[c]]

ReapUnmarked(S) ==                  \* deviation: Reaped is not set
  LET gone == S \intersect table
      left == (UNION {CallsOf(s) : s \in gone}) \ resolved
  IN /\ resolved' = resolved \union left
     /\ resolver' = [c \in Calls |-> IF c \in left THEN "closed" ELSE resolver[c]]
     /\ cmd' = [s \in Sessions |->
                  IF s \in gone /\ cmd[s] = "running" THEN "killed" ELSE cmd[s]]
     /\ table' = table \ gone
     /\ index' = ClearIndex(gone)
     /\ overdue' = [s \in Sessions |-> IF s \in gone THEN {} ELSE overdue[s]]
     /\ UNCHANGED <<created, pending, claimed, toIndex, toUnindex, reaped>>

ReapLocked(S) ==
  LET gone == S \intersect table
      left == (UNION {CallsOf(s) : s \in gone}) \ resolved
  IN /\ reaped' = reaped \union gone
     /\ resolved' = resolved \union left
     /\ resolver' = [c \in Calls |-> IF c \in left THEN "closed" ELSE resolver[c]]
     /\ cmd' = [s \in Sessions |->
                  IF s \in gone /\ cmd[s] = "running" THEN "killed" ELSE cmd[s]]
     /\ table' = table \ gone
     /\ index' = ClearIndex(gone)
     /\ overdue' = [s \in Sessions |-> IF s \in gone THEN {} ELSE overdue[s]]
     /\ UNCHANGED <<created, pending, claimed, toIndex, toUnindex>>

ReapSession(s) ==
  /\ MuFree
  /\ s \in created
  /\ ReapLocked({s})
  /\ UNCHANGED <<sweep, open>>

(* keep is the session the request continues, or NoSession. *)
ReapSuperseded(ids, keep) ==
  /\ MuFree
  /\ ReapLocked({index[c] : c \in ids} \ {keep, NoSession})
  /\ UNCHANGED <<sweep, open>>

Close ==
  /\ MuFree
  /\ open' = FALSE
  /\ ReapLocked(table)
  /\ UNCHANGED sweep

-----------------------------------------------------------------------------
(* Time, and the sweeper.  A round holds mu throughout; for each session it *)
(* looks at the age under Mu, lets go of Mu, and then reaps.                *)

Age(s, limit) ==
  /\ s \in table
  /\ limit \notin overdue[s]
  /\ overdue' = [overdue EXCEPT ![s] = @ \union {limit}]
  /\ UNCHANGED <<created, table, index, pending, reaped, cmd, claimed,
                 resolved, resolver, toIndex, toUnindex, sweep, open>>

ExpiredIdleOnly(s) ==               \* deviation: parked sessions never expire
  ~HasPending(s) /\ "idle" \in overdue[s]

Expired(s) ==
  \/ HasPending(s) /\ "tool" \in overdue[s]
  \/ ~HasPending(s) /\ "idle" \in overdue[s]

SweepBegin ==
  /\ open
  /\ MuFree
  /\ table # {}
  /\ sweep' = [on |-> TRUE, left |-> table, doomed |-> {}]
  /\ UNCHANGED <<created, table, index, pending, reaped, cmd, overdue, claimed,
                 resolved, resolver, toIndex, toUnindex, open>>

SweepLook(s) ==
  /\ sweep.on
  /\ sweep.doomed = {}
  /\ s \in sweep.left
  /\ sweep' = [sweep EXCEPT !.left = @ \ {s},
                            !.doomed = IF Expired(s) THEN {s} ELSE {}]
  /\ UNCHANGED <<created, table, index, pending, reaped, cmd, overdue, claimed,
                 resolved, resolver, toIndex, toUnindex, open>>

SweepReap ==
  /\ sweep.on
  /\ sweep.doomed # {}
  /\ ReapLocked(sweep.doomed)
  /\ sweep' = [sweep EXCEPT !.doomed = {}]
  /\ UNCHANGED open

SweepEnd ==
  /\ sweep.on
  /\ sweep.left = {}
  /\ sweep.doomed = {}
  /\ sweep' = NoSweep
  /\ UNCHANGED <<created, table, index, pending, reaped, cmd, overdue, claimed,
                 resolved, resolver, toIndex, toUnindex, open>>

-----------------------------------------------------------------------------
Next ==
  \/ \E s \in Sessions :
       \/ CreateSession(s) \/ StoreCmd(s) \/ IndexRegistered(s)
       \/ ReapSession(s) \/ SweepLook(s)
       \/ \E batch \in Batches : Register(s, batch)
       \/ \E c \in Calls : Resolve(s, c)
       \/ \E sig \in Range(SignatureOf) : Claim(s, sig)
       \/ \E limit \in Limits : Age(s, limit)
  \/ \E c \in Calls : Unindex(c)
  \/ \E ids \in SUBSET Minted, keep \in Sessions \union {NoSession} :
       ReapSuperseded(ids, keep)
  \/ SweepBegin \/ SweepReap \/ SweepEnd \/ Close

Spec == Init /\ [][Next]_tableVars

(* Time passes, the ticker fires until Close, a goroutine between two      *)
(* sections goes on, and a Go mutex is handed to whoever waits for it.     *)
Fairness ==
  /\ \A s \in Sessions :
       /\ \A limit \in Limits : WF_tableVars(Age(s, limit))
       /\ WF_tableVars(SweepLook(s))
       /\ SF_tableVars(IndexRegistered(s))
  /\ \A c \in Calls : SF_tableVars(Unindex(c))
  /\ WF_tableVars(SweepBegin) /\ WF_tableVars(SweepReap) /\ WF_tableVars(SweepEnd)

FairSpec == Spec /\ Fairness
-----------------------------------------------------------------------------
(* No MCP handler is left waiting on a session that is gone: whatever the  *)
(* order of announcement and reap, every call of a reaped session has a    *)
(* result in its Resolver or a closed one (reapSessionLocked, and the      *)
(* Reaped check of RegisterAnnouncedCalls).                                *)
NoCallParkedOnDeadSession ==
  \A s \in created \ table : \A c \in CallsOf(s) : resolver[c] # "empty"

(* A result can only reach the session that announced the call, and it can *)
(* reach it as long as that session waits: index entries name the owner,   *)
(* and a live session's unresolved calls are all indexed once registered   *)
(* (RegisterAnnouncedCalls, reapSessionLocked's deletion loop).            *)
IndexIsFaithful ==
  /\ \A s \in Sessions : \A c \in Calls : index[c] = s => c \in CallsOf(s)
  /\ \A s \in table : \A c \in CallsOf(s) :
       c \in resolved \union toIndex \/ index[c] = s

(* A resolved call of a live session stays in the index only until the     *)
(* ResolveToolCall that resolved it takes mu: no lasting stale hit can make *)
(* a later request reap that session as superseded.                        *)
StaleHitsAreBrief ==
  \A c \in Calls : index[c] \in table /\ c \in resolved => c \in toUnindex

(* Results are handed to the CLI in the order of the announcement: of two  *)
(* pending calls with the same name and arguments the earlier one is       *)
(* claimed first (ClaimPendingCall).                                       *)
ClaimsInOrder ==
  \A s \in Sessions : \A i, j \in DOMAIN pending[s] :
    /\ i < j
    /\ SignatureOf[pending[s][i]] = SignatureOf[pending[s][j]]
    /\ pending[s][j] \in claimed
    => pending[s][i] \in claimed

(* A Resolver gets one outcome.  A second one would be a send on a full or *)
(* a closed channel: it would block under Session.Mu, or panic.            *)
OutcomeIsFinal ==
  [][\A c \in Calls : resolver[c] # "empty" => resolver'[c] = resolver[c]]_tableVars

(* While the table is open no announced call stays unresolved for ever:    *)
(* somebody resolves it, its session is reaped, or the sweeper ends it.    *)
CallsSettle ==
  \A c \in Calls : c \in Minted ~> (c \in resolved \/ ~open)

(* session.go:251: only unresolved calls are indexed, so a hit means that   *)
(* the session is genuinely still waiting on a result.                     *)
HitMeansWaiting ==
  \A c \in Calls : index[c] \in table => HasPending(index[c])
=============================================================================
