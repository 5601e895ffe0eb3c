--------------------------- MODULE Conversations ---------------------------
(***************************************************************************)
(* Chat completions without tools, with CLAUDE_GATEWAY_RESUME on:          *)
(* handleChatCompletions and handleStreamingResponse in server.go, and the *)
(* ResumeStore of resume.go, around the runs of ClaudeRun.                 *)
(*                                                                         *)
(* A conversation is a sequence of turns, a turn what the user said and    *)
(* what came back.  Users all say the same, so that turns differ in the    *)
(* reply, which conforms to a JSON response format or does not.  A request *)
(* carries a history some answer completed, or none, and asks a model; the *)
(* effort is part of the fingerprint in the same way and is left out.  A   *)
(* streamed request is like one that asks for no format.                   *)
(*                                                                         *)
(* The CLI's sessions are external, as the stub of resume_test.go has      *)
(* them: a resumed run goes on in its session under the same id, a fresh   *)
(* one mints an id, a persisted session stays on disk.                     *)
(***************************************************************************)
EXTENDS ClaudeRun, Integers, FiniteSets, Sequences, SequencesExt

CONSTANTS
  Strict,        (* the requests that ask for a JSON reply *)
  Models,        (* model and effort, as one value *)
  Slots,         (* how many requests may run at once *)
  Capacity       (* the bound of the ResumeStore *)

ASSUME ConversationsAssumption ==
  /\ Requests \subseteq Nat
  /\ Strict \subseteq Requests
  /\ Models # {}
  /\ Slots \in Nat \ {0}
  /\ Capacity \in Nat \ {0}

VARIABLES
  store,         (* the ResumeStore, most recently used entry first *)
  sessions,      (* the CLI's sessions by id: what each was told and said *)
  known,         (* the histories clients can hold *)
  stage,         (* where the handler is *)
  asked,         (* the request's history and model *)
  plan,          (* the id to resume, or Fresh *)
  reply,         (* what the current run answered, and the id it reported *)
  first          (* the same of the attempt that is being retried *)

convVars == <<store, sessions, known, stage, asked, plan, reply, first>>
vars == <<runVars, convVars>>

Replies == {"json", "prose"}
Fresh == 0
Silence == [text |-> "prose", sid |-> Fresh]
Nothing == [history |-> <<>>, model |-> CHOOSE m \in Models : TRUE]

Sids == DOMAIN sessions
Keys == [history : Seq(Replies), model : Models]
InFlight == {r \in Requests : stage[r] \in {"first", "retry"}}

TypeOK ==
  /\ RunTypeOK
  /\ store \in Seq([key : Keys, sid : Sids])
  /\ Len(store) <= Capacity
  /\ \A i, j \in DOMAIN store : store[i].key = store[j].key => i = j
  /\ sessions \in Seq([held : Seq(Replies), model : Models, disk : BOOLEAN])
  /\ known \subseteq Seq(Replies)
  /\ stage \in [Requests -> {"idle", "planned", "first", "retry", "done"}]
  /\ asked \in [Requests -> Keys]
  /\ plan \in [Requests -> Sids \union {Fresh}]
  /\ reply \in [Requests -> [text : Replies, sid : Sids \union {Fresh}]]
  /\ first \in [Requests -> [text : Replies, sid : Sids \union {Fresh}]]
  /\ Cardinality(InFlight) <= Slots

Init ==
  /\ RunInit
  /\ store = <<>>
  /\ sessions = <<>>
  /\ known = {<<>>}
  /\ stage = [r \in Requests |-> "idle"]
  /\ asked = [r \in Requests |-> Nothing]
  /\ plan = [r \in Requests |-> Fresh]
  /\ reply = [r \in Requests |-> Silence]
  /\ first = [r \in Requests |-> Silence]

-----------------------------------------------------------------------------
(* ResumeStore *)

FingerprintOfText(history, model) ==   \* deviation: the model is left out
  [history |-> history, model |-> CHOOSE m \in Models : TRUE]

Fingerprint(history, model) == [history |-> history, model |-> model]

(* MoveToFront of the entry at i, with what it holds now. *)
ToFront(i, entry) == <<entry>> \o RemoveAt(store, i)

(* PushFront, and the oldest out. *)
Push(entry) ==
  SubSeq(<<entry>> \o store, 1,
         IF Len(store) < Capacity THEN Len(store) + 1 ELSE Capacity)

PutAgain(key, sid) ==                  \* deviation: the old entry stays
  store' = Push([key |-> key, sid |-> sid])

(* Put: to the front, whether the key is new or not. *)
Put(key, sid) ==
  LET entry == [key |-> key, sid |-> sid]
  IN  \/ \E i \in DOMAIN store : /\ store[i].key = key
                                /\ store' = ToFront(i, entry)
      \/ /\ \A i \in DOMAIN store : store[i].key # key
         /\ store' = Push(entry)

-----------------------------------------------------------------------------
(* planResumeTurn: Get on the fingerprint of the history, which becomes    *)
(* the most recently used.  Requests arrive in the order of their numbers. *)
Plan(r, history, model) ==
  LET key == Fingerprint(history, model)
  IN  /\ stage[r] = "idle"
      /\ \A q \in Requests : q < r => stage[q] # "idle"
      /\ stage' = [stage EXCEPT ![r] = "planned"]
      /\ asked' = [asked EXCEPT ![r] = [history |-> history, model |-> model]]
      /\ \/ \E i \in DOMAIN store :
              /\ history # <<>>
              /\ store[i].key = key
              /\ plan' = [plan EXCEPT ![r] = store[i].sid]
              /\ store' = ToFront(i, store[i])
         \/ /\ history = <<>> \/ \A i \in DOMAIN store : store[i].key # key
            /\ plan' = [plan EXCEPT ![r] = Fresh]
            /\ UNCHANGED store
      /\ UNCHANGED <<runVars, sessions, known, reply, first>>

Finish(r) ==
  /\ stage' = [stage EXCEPT ![r] = "done"]
  /\ plan' = [plan EXCEPT ![r] = Fresh]
  /\ reply' = [reply EXCEPT ![r] = Silence]
  /\ first' = [first EXCEPT ![r] = Silence]
  /\ Forget(r)

(* Acquire returns the context's error. *)
GiveUp(r) ==
  /\ stage[r] = "planned"
  /\ ctx[r] = "gone"
  /\ Cardinality(InFlight) = Slots
  /\ Finish(r)
  /\ UNCHANGED <<store, sessions, known, asked>>

RunFirst(r) ==
  /\ stage[r] = "planned"
  /\ Cardinality(InFlight) < Slots
  /\ StartRun(r)
  /\ stage' = [stage EXCEPT ![r] = "first"]
  /\ UNCHANGED <<store, sessions, known, asked, plan, reply, first>>

(* A reply that was to be JSON and is not is asked for once more, in a run *)
(* that neither resumes a session nor persists its own.                    *)
MustRetry(r) ==
  /\ stage[r] = "first"
  /\ outcome[r] = "completion"
  /\ r \in Strict
  /\ reply[r].text = "prose"

RunRetry(r) ==
  /\ scan[r] = "returned"
  /\ MustRetry(r)
  /\ StartRun(r)
  /\ stage' = [stage EXCEPT ![r] = "retry"]
  /\ first' = [first EXCEPT ![r] = reply[r]]
  /\ reply' = [reply EXCEPT ![r] = Silence]
  /\ UNCHANGED <<store, sessions, known, asked, plan>>

(* What the client gets: a failed retry leaves the first attempt.          *)
CompletionMixed(r) ==                  \* deviation: the retry's text only
  IF stage[r] = "retry" /\ outcome[r] = "completion"
  THEN [first[r] EXCEPT !.text = reply[r].text] ELSE reply[r]

Completion(r) ==
  IF stage[r] = "retry" /\ outcome[r] # "completion" THEN first[r] ELSE reply[r]

(* recordResumableSession: under the history that includes the answer.     *)
Respond(r) ==
  /\ scan[r] = "returned"
  /\ \/ stage[r] = "retry"
     \/ outcome[r] = "completion" /\ ~MustRetry(r)
  /\ LET c == Completion(r)
         next == Append(asked[r].history, c.text)
     IN  /\ known' = known \union {next}
         /\ \/ c.sid = Fresh /\ UNCHANGED store
            \/ c.sid # Fresh /\ Put(Fingerprint(next, asked[r].model), c.sid)
  /\ Finish(r)
  /\ UNCHANGED <<sessions, asked>>

RespondError(r) ==
  /\ scan[r] = "returned"
  /\ stage[r] = "first"
  /\ outcome[r] # "completion"
  /\ Finish(r)
  /\ UNCHANGED <<store, sessions, known, asked>>

-----------------------------------------------------------------------------
(* The CLI's sessions (external). *)

(* A turn in a resumed session, which has to be there. *)
Continue(r, text) ==
  /\ stage[r] = "first"
  /\ plan[r] # Fresh
  /\ sessions[plan[r]].disk
  /\ sessions' = [sessions EXCEPT ![plan[r]].held = Append(@, text)]
  /\ reply' = [reply EXCEPT ![r] = [text |-> text, sid |-> plan[r]]]

(* A turn in a session of its own. *)
Begin(r, text) ==
  /\ stage[r] = "first" /\ plan[r] = Fresh
  /\ sessions' = Append(sessions, [held |-> Append(asked[r].history, text),
                                   model |-> asked[r].model, disk |-> TRUE])
  /\ reply' = [reply EXCEPT ![r] = [text |-> text, sid |-> Len(sessions) + 1]]

(* One that leaves nothing behind.  Its id may be on the stream as well.   *)
Passing(r, text) ==
  /\ stage[r] = "retry"
  /\ \/ /\ sessions' = Append(sessions, [held |-> <<>>,
                                  model |-> asked[r].model, disk |-> FALSE])
        /\ reply' = [reply EXCEPT ![r] =
                       [text |-> text, sid |-> Len(sessions) + 1]]
     \/ /\ UNCHANGED sessions
        /\ reply' = [reply EXCEPT ![r] = [text |-> text, sid |-> Fresh]]

(* The turn is in the session even if the gateway cannot read its line.    *)
Answers(r, l) ==
  /\ Writes(r, l)
  /\ \E text \in Replies : Continue(r, text) \/ Begin(r, text) \/ Passing(r, text)
  /\ UNCHANGED <<store, known, stage, asked, plan, first>>

ReportsError(r) == Writes(r, "error") /\ UNCHANGED convVars

-----------------------------------------------------------------------------
InRun(A) == A /\ UNCHANGED convVars

Next ==
  \E r \in Requests :
    \/ \E h \in known, m \in Models : Plan(r, h, m)
    \/ GiveUp(r) \/ RunFirst(r) \/ RunRetry(r) \/ Respond(r) \/ RespondError(r)
    \/ Answers(r, "answer") \/ Answers(r, "long") \/ ReportsError(r)
    \/ InRun(ReadLine(r)) \/ InRun(ReadEOF(r)) \/ InRun(Return(r))
    \/ InRun(Deadline(r)) \/ InRun(Kill(r)) \/ InRun(Blocks(r)) \/ InRun(Exits(r))
    \/ stage[r] \in {"planned", "first", "retry"} /\ InRun(Leave(r))

Spec == Init /\ [][Next]_vars

(* The gateway goes on and a run's deadline passes; the process need not   *)
(* do anything, and the client need not leave.                             *)
Fairness ==
  \A r \in Requests :
    /\ WF_vars(InRun(ReadLine(r))) /\ WF_vars(InRun(ReadEOF(r)))
    /\ WF_vars(InRun(Return(r))) /\ WF_vars(InRun(Deadline(r)))
    /\ WF_vars(InRun(Kill(r)))
FairSpec == Spec /\ Fairness

-----------------------------------------------------------------------------
(* What the store promises of an entry: the turn it was recorded for       *)
(* happened in its session, which is of its model, unless that session     *)
(* left nothing behind (recordResumableSession after a retry).             *)
RecordedTurnsHappened ==
  \A i \in DOMAIN store :
    LET key == store[i].key
        session == sessions[store[i].sid]
    IN  session.disk => /\ session.model = key.model
                        /\ Last(key.history) \in Range(session.held)

Branches == {h \in known \ {<<>>} : \E q, r \in Requests :
               /\ q # r /\ stage[q] # "idle" /\ stage[r] # "idle"
               /\ asked[q].history = h /\ asked[r].history = h
               /\ asked[q].model = asked[r].model}

(* Where every turn is asked for once, a session that is resumed holds the *)
(* request's history, neither less nor more, and is of its model           *)
(* (planResumeTurn, which sends it the last message only).                 *)
LinearResumesAreExact ==
  Branches = {} =>
    \A r \in Requests :
      LET session == sessions[plan[r]]
      IN  stage[r] = "planned" /\ plan[r] # Fresh /\ session.disk
            => /\ session.held = asked[r].history
               /\ session.model = asked[r].model

(* README.md, Conversation continuity: edited history falls back to        *)
(* replay, since a rewritten earlier turn changes the fingerprint; resume  *)
(* only happens into the session that holds what precedes the new message. *)
ResumesThePrefix ==
  \A r \in Requests :
    LET session == sessions[plan[r]]
    IN  stage[r] = "planned" /\ plan[r] # Fresh /\ session.disk
          => session.held = asked[r].history
=============================================================================
