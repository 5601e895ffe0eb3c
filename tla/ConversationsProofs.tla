------------------------ MODULE ConversationsProofs ------------------------
(***************************************************************************)
(* What TLAPS proves of requests without tools, for any requests, models   *)
(* and bounds: that the outcome of a run is what its process said, that    *)
(* what the ResumeStore records happened, and that a conversation nobody   *)
(* branches is resumed exactly where it stopped.                           *)
(*                                                                         *)
(* The first argument follows the one line that decides a run: it is       *)
(* written at most once, and from then on it is either in the pipe or was  *)
(* read (LineInv), so that a scanner that stopped has not left it behind.  *)
(*                                                                         *)
(* The second follows the turn a run answered with: its session keeps it   *)
(* until the handler records it (TurnInv).  The third follows who uses a   *)
(* session: from planning to recording it is one request, the session      *)
(* holds what that request made of it, and an entry that leads to more     *)
(* than its own history was gone on with (Linear).  Resuming it again      *)
(* would be a branch.                                                      *)
(***************************************************************************)
EXTENDS Conversations, FiniteSetTheorems, SequenceTheorems, TLAPS

LineInv(r) ==
  /\ cli[r] \in {"none", "working"} => said[r] = "nothing"
  /\ line[r] # "nothing" => line[r] = said[r] /\ saw[r] = "nothing"
  /\ saw[r] \in {"nothing", said[r]}
  /\ said[r] \in {"answer", "error"} => said[r] \in {line[r], saw[r]}
  /\ scan[r] \in {"waiting", "returned"} =>
       line[r] = "nothing" /\ cli[r] \notin {"none", "working"}

OutcomeInv(r) ==
  scan[r] = "returned" =>
    /\ outcome[r] \in {"completion", "failed", "timeout"}
    /\ outcome[r] = "completion" <=> said[r] = "answer" /\ ctx[r] # "late"

RunInv == RunTypeOK /\ \A r \in Requests : LineInv(r) /\ OutcomeInv(r)

(* A step of one request's run leaves the runs of the others alone. *)
RunStep(r) ==
  \/ StartRun(r) \/ ReadLine(r) \/ ReadEOF(r) \/ Return(r) \/ Deadline(r)
  \/ Leave(r) \/ Kill(r) \/ Blocks(r) \/ Exits(r) \/ Forget(r)
  \/ \E l \in {"answer", "long", "error"} : Writes(r, l)

LEMMA EveryStepIsARunStep ==
  ASSUME [Next]_vars
  PROVE  (\E r \in Requests : RunStep(r)) \/ UNCHANGED runVars
<1>1. CASE UNCHANGED vars
  BY <1>1 DEF vars, runVars
<1>2. CASE Next
  <2>1. PICK r \in Requests :
          \/ \E h \in known, m \in Models : Plan(r, h, m)
          \/ GiveUp(r) \/ RunFirst(r) \/ RunRetry(r) \/ Respond(r) \/ RespondError(r)
          \/ Answers(r, "answer") \/ Answers(r, "long") \/ ReportsError(r)
          \/ InRun(ReadLine(r)) \/ InRun(ReadEOF(r)) \/ InRun(Return(r))
          \/ InRun(Deadline(r)) \/ InRun(Kill(r)) \/ InRun(Blocks(r)) \/ InRun(Exits(r))
          \/ stage[r] \in {"planned", "first", "retry"} /\ InRun(Leave(r))
    BY <1>2, Zenon DEF Next
  <2>2. CASE \E h \in known, m \in Models : Plan(r, h, m)
    BY <2>2, Zenon DEF Plan
  <2>3. CASE GiveUp(r) \/ Respond(r) \/ RespondError(r)
    BY <2>3, Zenon DEF GiveUp, Respond, RespondError, Finish, RunStep
  <2>4. CASE RunFirst(r) \/ RunRetry(r)
    BY <2>4, Zenon DEF RunFirst, RunRetry, RunStep
  <2>5. CASE Answers(r, "answer") \/ Answers(r, "long") \/ ReportsError(r)
    <3>1. Writes(r, "answer") \/ Writes(r, "long") \/ Writes(r, "error")
      BY <2>5, Zenon DEF Answers, ReportsError
    <3>2. QED  BY <3>1 DEF RunStep
  <2>6. CASE \/ InRun(ReadLine(r)) \/ InRun(ReadEOF(r)) \/ InRun(Return(r))
             \/ InRun(Deadline(r)) \/ InRun(Kill(r)) \/ InRun(Blocks(r))
             \/ InRun(Exits(r)) \/ InRun(Leave(r))
    BY <2>6, Zenon DEF InRun, RunStep
  <2>7. QED  BY <2>1, <2>2, <2>3, <2>4, <2>5, <2>6, Zenon
<1>3. QED  BY <1>1, <1>2

LEMMA StepKeepsTypes ==
  ASSUME RunTypeOK, NEW r \in Requests, RunStep(r)
  PROVE  RunTypeOK'
<1> USE DEF RunTypeOK, Lines
<1>1. CASE StartRun(r)
  BY <1>1 DEF StartRun
<1>2. CASE ReadLine(r) \/ ReadEOF(r)
  BY <1>2 DEF ReadLine, ReadEOF
<1>3. CASE Return(r)
  <2>1. Verdict(r) \in {"completion", "failed", "timeout"}
    BY DEF Verdict
  <2>2. QED  BY <1>3, <2>1 DEF Return
<1>4. CASE Deadline(r) \/ Leave(r)
  BY <1>4 DEF Deadline, Leave
<1>5. CASE Kill(r) \/ Blocks(r) \/ Exits(r)
  BY <1>5 DEF Kill, Blocks, Exits
<1>6. CASE Forget(r)
  BY <1>6 DEF Forget
<1>7. CASE \E l \in {"answer", "long", "error"} : Writes(r, l)
  BY <1>7 DEF Writes
<1>8. QED  BY <1>1, <1>2, <1>3, <1>4, <1>5, <1>6, <1>7 DEF RunStep

LEMMA StepKeepsItsRun ==
  ASSUME RunInv, NEW r \in Requests, RunStep(r)
  PROVE  LineInv(r)' /\ OutcomeInv(r)'
<1> USE DEF LineInv, OutcomeInv, RunTypeOK, Lines
<1>0. RunTypeOK /\ LineInv(r) /\ OutcomeInv(r)
  BY Zenon DEF RunInv
<1>1. CASE StartRun(r)
  BY <1>0, <1>1 DEF StartRun
<1>2. CASE ReadLine(r) \/ ReadEOF(r)
  BY <1>0, <1>2 DEF ReadLine, ReadEOF
<1>3. CASE Return(r)
  BY <1>0, <1>3 DEF Return, Verdict
<1>4. CASE Deadline(r) \/ Leave(r)
  BY <1>0, <1>4 DEF Deadline, Leave
<1>5. CASE Kill(r) \/ Blocks(r) \/ Exits(r)
  BY <1>0, <1>5 DEF Kill, Blocks, Exits, Alive
<1>6. CASE Forget(r)
  BY <1>0, <1>6 DEF Forget
<1>7. CASE \E l \in {"answer", "long", "error"} : Writes(r, l)
  BY <1>0, <1>7 DEF Writes
<1>8. QED  BY <1>1, <1>2, <1>3, <1>4, <1>5, <1>6, <1>7 DEF RunStep

LEMMA StepLeavesOthers ==
  ASSUME RunTypeOK, NEW r \in Requests, RunStep(r), NEW q \in Requests, q # r
  PROVE  /\ scan'[q] = scan[q] /\ cli'[q] = cli[q] /\ line'[q] = line[q]
         /\ said'[q] = said[q] /\ saw'[q] = saw[q] /\ ctx'[q] = ctx[q]
         /\ outcome'[q] = outcome[q]
BY DEF RunTypeOK, RunStep, StartRun, ReadLine, ReadEOF, Return, Deadline,
       Leave, Kill, Blocks, Exits, Forget, Writes

LEMMA RunInvInductive == RunInv /\ [Next]_vars => RunInv'
<1> SUFFICES ASSUME RunInv, [Next]_vars  PROVE RunInv'
  OBVIOUS
<1>1. CASE UNCHANGED runVars
  BY <1>1 DEF runVars, RunInv, RunTypeOK, LineInv, OutcomeInv
<1>2. CASE \E r \in Requests : RunStep(r)
  <2>1. PICK r \in Requests : RunStep(r)
    BY <1>2
  <2>2. RunTypeOK'
    BY <2>1, StepKeepsTypes DEF RunInv
  <2>3. ASSUME NEW q \in Requests  PROVE LineInv(q)' /\ OutcomeInv(q)'
    <3>1. CASE q = r
      BY <2>1, <3>1, StepKeepsItsRun
    <3>2. CASE q # r
      BY <2>1, <3>2, StepLeavesOthers DEF RunInv, LineInv, OutcomeInv
    <3>3. QED  BY <3>1, <3>2
  <2>4. QED  BY <2>2, <2>3 DEF RunInv
<1>3. QED  BY <1>1, <1>2, EveryStepIsARunStep

(* However deadline, client, process and scanner fall out with each other, *)
(* RunClaude returns an answer exactly when the process wrote one and the  *)
(* deadline did not come first: for any number of runs at a time.          *)
THEOREM OutcomeCorrect == Spec => []OutcomeIsWhatWasSaid
<1>1. Init => RunInv
  BY DEF Init, RunInit, RunInv, RunTypeOK, LineInv, OutcomeInv, Lines
<1>2. RunInv => OutcomeIsWhatWasSaid
  BY DEF RunInv, OutcomeInv, OutcomeIsWhatWasSaid
<1>3. QED  BY <1>1, <1>2, RunInvInductive, PTL DEF Spec
-----------------------------------------------------------------------------
(* The types, with what counting the slots needs. *)
TypeInv == TypeOK /\ IsFiniteSet(InFlight)

(* A session some request or entry names, and that is there to resume. *)
OnDisk(sid) == sid # Fresh /\ sessions[sid].disk

(* What the handler's variables hold at each stage. *)
StageInv(r) ==
  /\ stage[r] \in {"idle", "planned", "done"} => reply[r].sid = Fresh /\ first[r].sid = Fresh
  /\ stage[r] \in {"idle", "done"} => plan[r] = Fresh
  /\ stage[r] = "first" /\ reply[r].sid # Fresh => said[r] # "nothing"
  /\ stage[r] = "retry" => ~OnDisk(reply[r].sid)

(* The turn a request or an entry speaks of is in its session. *)
Happened(turn, sid, model) ==
  OnDisk(sid) => sessions[sid].model = model /\ turn \in Range(sessions[sid].held)

RequestTurn(r) ==
  /\ OnDisk(plan[r]) => sessions[plan[r]].model = asked[r].model
  /\ Happened(reply[r].text, reply[r].sid, asked[r].model)
  /\ Happened(first[r].text, first[r].sid, asked[r].model)

TurnInv ==
  /\ \A i \in DOMAIN store :
       Happened(Last(store[i].key.history), store[i].sid, store[i].key.model)
  /\ \A r \in Requests : RequestTurn(r)

(* The session a request goes on with or has added its turn to, that turn, *)
(* and what the session holds by then.                                     *)
Answered(r) ==
  (stage[r] = "first" /\ reply[r].sid # Fresh) \/ stage[r] = "retry"

Turn(r) == IF stage[r] = "retry" THEN first[r] ELSE reply[r]

Uses(r) == IF Answered(r) THEN Turn(r).sid ELSE plan[r]

Due(r) ==
  IF Answered(r) THEN Append(asked[r].history, Turn(r).text) ELSE asked[r].history

Asked(key) == \E q \in Requests : stage[q] # "idle" /\ asked[q] = key

(* Where nobody branches: an entry leads to its own history, unless that   *)
(* was gone on with; a session in use holds what its request made of it,   *)
(* is used by one request, and by the time that one is answered no entry   *)
(* leads there that was not gone on with.                                  *)
EntriesLead ==
  \A i \in DOMAIN store : OnDisk(store[i].sid) =>
    \/ sessions[store[i].sid].held = store[i].key.history
    \/ Asked(store[i].key)

UsesAreExact ==
  \A r \in Requests : OnDisk(Uses(r)) => sessions[Uses(r)].held = Due(r)

UsesAreApart ==
  \A q, r \in Requests : q # r /\ OnDisk(Uses(r)) => Uses(q) # Uses(r)

AnsweredAreUnlisted ==
  \A r \in Requests : Answered(r) /\ OnDisk(Uses(r)) =>
    \A i \in DOMAIN store : store[i].sid = Uses(r) => Asked(store[i].key)

LinearInv ==
  Branches = {} =>
    EntriesLead /\ UsesAreExact /\ UsesAreApart /\ AnsweredAreUnlisted

IInv ==
  /\ TypeInv
  /\ RunInv
  /\ \A r \in Requests : StageInv(r)
  /\ TurnInv
  /\ LinearInv

-----------------------------------------------------------------------------
(* The store: what bringing an entry to the front and pushing one do. *)

Entries == [key : Keys, sid : Sids]

StoreOK(s) ==
  /\ s \in Seq(Entries)
  /\ Len(s) <= Capacity
  /\ \A i, j \in DOMAIN s : s[i].key = s[j].key => i = j

(* A store that holds entry and otherwise what is in the store now. *)
HoldsWith(s, entry) ==
  \A k \in DOMAIN s : s[k] = entry \/ \E j \in DOMAIN store : s[k] = store[j]

Prepend(e, s) == <<e>> \o s

FrontOf(s, i, e) == Prepend(e, SubSeq(s, 1, i-1) \o SubSeq(s, i+1, Len(s)))

IsToFront(t, s, i, e) ==
  /\ Len(t) = Len(s)
  /\ \A k \in 1 .. Len(s) :
       t[k] = IF k = 1 THEN e ELSE IF k <= i THEN s[k-1] ELSE s[k]

LEMMA PrependElements ==
  ASSUME NEW S, NEW s \in Seq(S), NEW e \in S
  PROVE  /\ Prepend(e, s) \in Seq(S)
         /\ Len(Prepend(e, s)) = Len(s) + 1
         /\ \A k \in 1 .. Len(s) + 1 :
              Prepend(e, s)[k] = IF k = 1 THEN e ELSE s[k-1]
<1> DEFINE d == <<e>>
           c == d \o s
<1>1. d \in Seq(S) /\ Len(d) = 1 /\ d[1] = e
  OBVIOUS
<1>2. Len(s) \in Nat
  BY LenProperties
<1> HIDE DEF d
<1>3. /\ c \in Seq(S)
      /\ Len(c) = Len(d) + Len(s)
      /\ \A k \in 1 .. Len(d) + Len(s) :
           c[k] = IF k <= Len(d) THEN d[k] ELSE s[k - Len(d)]
  BY <1>1, ConcatProperties
<1> HIDE DEF c
<1>4. /\ c \in Seq(S)
      /\ Len(c) = Len(s) + 1
      /\ \A k \in 1 .. Len(s) + 1 : c[k] = IF k = 1 THEN e ELSE s[k-1]
  BY <1>1, <1>2, <1>3
<1>5. Prepend(e, s) = c
  BY Zenon DEF Prepend, c, d
<1>6. QED  BY <1>4, <1>5

LEMMA ToFrontElements ==
  ASSUME NEW S, NEW s \in Seq(S), NEW i \in 1 .. Len(s), NEW e \in S
  PROVE  FrontOf(s, i, e) \in Seq(S) /\ IsToFront(FrontOf(s, i, e), s, i, e)
<1> DEFINE a == SubSeq(s, 1, i-1)
           b == SubSeq(s, i+1, Len(s))
<1>1. Len(s) \in Nat /\ \A k \in 1 .. Len(s) : s[k] \in S
  BY LenProperties, ElementOfSeq
<1>2. /\ a \in Seq(S) /\ Len(a) = i - 1
      /\ \A k \in 1 .. i-1 : a[k] = s[k]
  <2>1. \A k \in 1 .. i-1 : s[k] \in S
    BY <1>1
  <2>2. /\ a \in Seq(S)
        /\ Len(a) = IF 1 <= i-1 THEN i-1-1+1 ELSE 0
        /\ \A k \in 1 .. i-1-1+1 : a[k] = s[1+k-1]
    BY <2>1, SubSeqProperties
  <2>3. QED  BY <2>2
<1>3. /\ b \in Seq(S) /\ Len(b) = Len(s) - i
      /\ \A k \in 1 .. Len(s) - i : b[k] = s[k+i]
  <2>1. \A k \in i+1 .. Len(s) : s[k] \in S
    BY <1>1
  <2>2. i+1 \in Int /\ Len(s) \in Int
    BY <1>1
  <2>3. /\ b \in Seq(S)
        /\ Len(b) = IF i+1 <= Len(s) THEN Len(s)-(i+1)+1 ELSE 0
        /\ \A k \in 1 .. Len(s)-(i+1)+1 : b[k] = s[(i+1)+k-1]
    BY <2>1, <2>2, SubSeqProperties
  <2>4. QED  BY <2>3, <1>1
<1> HIDE DEF a, b
<1> DEFINE c == a \o b
<1>4. /\ c \in Seq(S) /\ Len(c) = Len(s) - 1
      /\ \A k \in 1 .. Len(s)-1 : c[k] = IF k <= i-1 THEN s[k] ELSE s[k+1]
  <2>1. /\ c \in Seq(S)
        /\ Len(c) = Len(a) + Len(b)
        /\ \A k \in 1 .. Len(a) + Len(b) :
             c[k] = IF k <= Len(a) THEN a[k] ELSE b[k - Len(a)]
    BY <1>2, <1>3, ConcatProperties
  <2>2. QED  BY <2>1, <1>1, <1>2, <1>3
<1> HIDE DEF c
<1> DEFINE t == Prepend(e, c)
<1>5. /\ t \in Seq(S)
      /\ Len(t) = Len(c) + 1
      /\ \A k \in 1 .. Len(c) + 1 : t[k] = IF k = 1 THEN e ELSE c[k-1]
  <2>1. c \in Seq(S)
    BY <1>4
  <2>2. QED  BY <2>1, PrependElements
<1> HIDE DEF t
<1>6. t \in Seq(S) /\ IsToFront(t, s, i, e)
  BY <1>1, <1>4, <1>5 DEF IsToFront
<1>7. FrontOf(s, i, e) = t
  BY Zenon DEF FrontOf, a, b, c, t
<1>8. QED  BY <1>6, <1>7, Zenon

LEMMA PushElements ==
  ASSUME NEW S, NEW s \in Seq(S), NEW e \in S,
         NEW n \in 1 .. Len(s) + 1,
         NEW t, t = SubSeq(<<e>> \o s, 1, n)
  PROVE  /\ t \in Seq(S)
         /\ Len(t) = n
         /\ \A k \in 1 .. n : t[k] = IF k = 1 THEN e ELSE s[k-1]
<1> DEFINE c == Prepend(e, s)
<1>1. Len(s) \in Nat /\ \A k \in 1 .. Len(s) : s[k] \in S
  BY LenProperties, ElementOfSeq
<1>2. /\ c \in Seq(S)
      /\ Len(c) = Len(s) + 1
      /\ \A k \in 1 .. Len(s) + 1 : c[k] = IF k = 1 THEN e ELSE s[k-1]
  BY PrependElements
<1> HIDE DEF c
<1>3. \A k \in 1 .. n : c[k] \in S
  BY <1>1, <1>2
<1>4. /\ SubSeq(c, 1, n) \in Seq(S)
      /\ Len(SubSeq(c, 1, n)) = IF 1 <= n THEN n-1+1 ELSE 0
      /\ \A k \in 1 .. n-1+1 : SubSeq(c, 1, n)[k] = c[1+k-1]
  BY <1>3, SubSeqProperties
<1>5. /\ SubSeq(c, 1, n) \in Seq(S)
      /\ Len(SubSeq(c, 1, n)) = n
      /\ \A k \in 1 .. n : SubSeq(c, 1, n)[k] = IF k = 1 THEN e ELSE s[k-1]
  BY <1>1, <1>2, <1>4
<1>6. t = SubSeq(c, 1, n)
  BY Zenon DEF Prepend, c
<1>7. QED  BY <1>5, <1>6, Zenon

LEMMA ToFrontKeeps ==
  ASSUME StoreOK(store), NEW i \in DOMAIN store, NEW e \in Entries,
         e.key = store[i].key
  PROVE  StoreOK(ToFront(i, e)) /\ HoldsWith(ToFront(i, e), e)
<1> DEFINE t == ToFront(i, e)
<1>1. store \in Seq(Entries) /\ DOMAIN store = 1 .. Len(store) /\ Len(store) \in Nat
  BY LenProperties DEF StoreOK
<1>2. /\ t \in Seq(Entries)
      /\ Len(t) = Len(store)
      /\ \A k \in 1 .. Len(store) :
           t[k] = IF k = 1 THEN e ELSE IF k <= i THEN store[k-1] ELSE store[k]
  <2>1. t = FrontOf(store, i, e)
    BY Zenon DEF ToFront, RemoveAt, FrontOf, Prepend
  <2>2. i \in 1 .. Len(store)
    BY <1>1
  <2> HIDE DEF t
  <2>3. t \in Seq(Entries) /\ IsToFront(t, store, i, e)
    BY <1>1, <2>1, <2>2, ToFrontElements
  <2>4. QED  BY <2>3, Zenon DEF IsToFront
<1>3. DOMAIN t = 1 .. Len(store)
  BY <1>2, LenProperties
<1> HIDE DEF t
<1>4. \A j, k \in 1 .. Len(store) : t[j].key = t[k].key => j = k
  <2>1. \A j, k \in 1 .. Len(store) : store[j].key = store[k].key => j = k
    BY <1>1 DEF StoreOK
  <2> DEFINE place(k) == IF k = 1 THEN i ELSE IF k <= i THEN k-1 ELSE k
  <2>2. \A k \in 1 .. Len(store) : t[k].key = store[place(k)].key
    BY <1>1, <1>2
  <2>3. \A k \in 1 .. Len(store) : place(k) \in 1 .. Len(store)
    BY <1>1
  <2>4. \A j, k \in 1 .. Len(store) : place(j) = place(k) => j = k
    BY <1>1
  <2> HIDE DEF place
  <2>5. ASSUME NEW j \in 1 .. Len(store), NEW k \in 1 .. Len(store), t[j].key = t[k].key
        PROVE  j = k
    <3>1. store[place(j)].key = store[place(k)].key
      BY <2>2, <2>5
    <3>2. place(j) = place(k)
      BY <2>1, <2>3, <3>1
    <3>3. QED  BY <2>4, <3>2
  <2>6. QED  BY <2>5
<1>5. HoldsWith(t, e)
  <2>1. \A k \in 1 .. Len(store) : t[k] = e \/ \E j \in 1 .. Len(store) : t[k] = store[j]
    BY <1>1, <1>2
  <2>2. QED  BY <2>1, <1>1, <1>3 DEF HoldsWith
<1>6. StoreOK(t)
  BY <1>1, <1>2, <1>3, <1>4 DEF StoreOK
<1>7. QED  BY <1>5, <1>6 DEF t

LEMMA PushKeeps ==
  ASSUME ConversationsAssumption, StoreOK(store), NEW e \in Entries,
         \A i \in DOMAIN store : store[i].key # e.key
  PROVE  StoreOK(Push(e)) /\ HoldsWith(Push(e), e)
<1> DEFINE t == Push(e)
           n == IF Len(store) < Capacity THEN Len(store) + 1 ELSE Capacity
<1>1. store \in Seq(Entries) /\ DOMAIN store = 1 .. Len(store) /\ Len(store) \in Nat
  BY LenProperties DEF StoreOK
<1>2. n \in 1 .. Len(store) + 1 /\ n <= Capacity
  BY <1>1 DEF ConversationsAssumption, StoreOK
<1>3. t = SubSeq(<<e>> \o store, 1, n)
  BY Zenon DEF Push
<1> HIDE DEF n, t
<1>4. /\ t \in Seq(Entries)
      /\ Len(t) = n
      /\ \A k \in 1 .. n : t[k] = IF k = 1 THEN e ELSE store[k-1]
  BY <1>1, <1>2, <1>3, PushElements
<1>5. DOMAIN t = 1 .. n
  BY <1>4, LenProperties
<1>6. \A k \in 1 .. n : \/ k = 1 /\ t[k] = e
                        \/ k # 1 /\ k-1 \in 1 .. Len(store) /\ t[k] = store[k-1]
  BY <1>1, <1>2, <1>4
<1>7. \A j, k \in 1 .. n : t[j].key = t[k].key => j = k
  <2>1. \A j, k \in 1 .. Len(store) : store[j].key = store[k].key => j = k
    BY <1>1 DEF StoreOK
  <2>2. \A k \in 1 .. Len(store) : store[k].key # e.key
    BY <1>1
  <2>3. ASSUME NEW j \in 1 .. n, NEW k \in 1 .. n, t[j].key = t[k].key
        PROVE  j = k
    <3>1. CASE j = 1 \/ k = 1
      BY <1>6, <2>2, <2>3, <3>1
    <3>2. CASE j # 1 /\ k # 1
      <4>1. j-1 \in 1 .. Len(store) /\ k-1 \in 1 .. Len(store)
            /\ store[j-1].key = store[k-1].key
        BY <1>6, <2>3, <3>2
      <4>2. j-1 = k-1
        BY <2>1, <4>1
      <4>3. QED  BY <4>2
    <3>3. QED  BY <3>1, <3>2
  <2>4. QED  BY <2>3
<1>8. HoldsWith(t, e)
  BY <1>1, <1>5, <1>6 DEF HoldsWith
<1>9. StoreOK(t)
  BY <1>2, <1>4, <1>5, <1>7 DEF StoreOK
<1>10. QED  BY <1>8, <1>9 DEF t

-----------------------------------------------------------------------------
(* Types. *)

Sessions == [held : Seq(Replies), model : Models, disk : BOOLEAN]

Results == [text : Replies, sid : Sids \union {Fresh}]

LEMMA ConstantTypes ==
  ASSUME ConversationsAssumption
  PROVE  /\ Nothing \in Keys
         /\ Silence.sid = Fresh /\ Silence.text = "prose"
         /\ Silence \in [text : Replies, sid : {Fresh}]
         /\ Slots \in Nat /\ Capacity \in Nat
<1>1. (CHOOSE m \in Models : TRUE) \in Models
  BY DEF ConversationsAssumption
<1>2. <<>> \in Seq(Replies)
  OBVIOUS
<1>3. Nothing \in Keys
  BY <1>1, <1>2 DEF Nothing, Keys
<1>4. QED  BY <1>3 DEF ConversationsAssumption, Silence, Replies

LEMMA InFlightShrinks ==
  ASSUME ConversationsAssumption, TypeInv, NEW r \in Requests,
         NEW v \in {"idle", "planned", "done"},
         stage' = [stage EXCEPT ![r] = v]
  PROVE  IsFiniteSet(InFlight)' /\ (Cardinality(InFlight) <= Slots)'
<1>1. InFlight' \subseteq InFlight
  BY DEF InFlight, TypeInv, TypeOK
<1>2. IsFiniteSet(InFlight) /\ Cardinality(InFlight) <= Slots
  BY DEF TypeInv, TypeOK
<1>3. /\ IsFiniteSet(InFlight') /\ Cardinality(InFlight') <= Cardinality(InFlight)
  BY <1>1, <1>2, FS_Subset
<1>4. Cardinality(InFlight') \in Nat /\ Cardinality(InFlight) \in Nat
  BY <1>2, <1>3, FS_CardinalityType
<1>5. QED  BY <1>2, <1>3, <1>4 DEF ConversationsAssumption

LEMMA InFlightGrows ==
  ASSUME ConversationsAssumption, TypeInv, NEW r \in Requests,
         Cardinality(InFlight) < Slots, stage[r] = "planned",
         stage' = [stage EXCEPT ![r] = "first"]
  PROVE  IsFiniteSet(InFlight)' /\ (Cardinality(InFlight) <= Slots)'
<1>1. InFlight' = InFlight \union {r} /\ r \notin InFlight
  BY DEF InFlight, TypeInv, TypeOK
<1>2. IsFiniteSet(InFlight)
  BY DEF TypeInv
<1>3. IsFiniteSet(InFlight') /\ Cardinality(InFlight') = Cardinality(InFlight) + 1
  BY <1>1, <1>2, FS_AddElement
<1>4. Cardinality(InFlight) \in Nat
  BY <1>2, FS_CardinalityType
<1>5. QED  BY <1>3, <1>4 DEF ConversationsAssumption

(* How the CLI's sessions change when a resumed one is continued and when  *)
(* one is minted. *)
Continued(p, text) ==
  /\ DOMAIN sessions' = DOMAIN sessions
  /\ sessions'[p].held = Append(sessions[p].held, text)
  /\ sessions'[p].model = sessions[p].model
  /\ sessions'[p].disk = sessions[p].disk
  /\ \A s \in DOMAIN sessions : s # p => sessions'[s] = sessions[s]

Minted(session) ==
  /\ DOMAIN sessions' = DOMAIN sessions \union {Len(sessions) + 1}
  /\ Len(sessions) + 1 \notin DOMAIN sessions
  /\ Len(sessions) + 1 # Fresh
  /\ sessions'[Len(sessions) + 1] = session
  /\ \A s \in DOMAIN sessions : sessions'[s] = sessions[s]

LEMMA ContinueSession ==
  ASSUME sessions \in Seq(Sessions), NEW p \in DOMAIN sessions, NEW text \in Replies,
         sessions' = [sessions EXCEPT ![p].held = Append(@, text)]
  PROVE  sessions' \in Seq(Sessions) /\ Continued(p, text)
<1>1. sessions[p] \in Sessions /\ DOMAIN sessions = 1 .. Len(sessions)
  BY LenProperties, ElementOfSeq
<1> DEFINE new == [sessions[p] EXCEPT !.held = Append(sessions[p].held, text)]
<1>2. sessions[p].held \in Seq(Replies)
  BY <1>1 DEF Sessions
<1>3. Append(sessions[p].held, text) \in Seq(Replies)
  BY <1>2
<1>4. /\ new \in Sessions
      /\ new.held = Append(sessions[p].held, text)
      /\ new.model = sessions[p].model
      /\ new.disk = sessions[p].disk
  BY <1>1, <1>3, Zenon DEF Sessions
<1>5. sessions' = [sessions EXCEPT ![p] = new]
  BY Zenon
<1> HIDE DEF new
<1>6. sessions' \in Seq(Sessions) /\ Len(sessions') = Len(sessions)
      /\ \A j \in 1 .. Len(sessions) : sessions'[j] = IF j = p THEN new ELSE sessions[j]
  <2>1. p \in 1 .. Len(sessions)
    BY <1>1
  <2>2. /\ [sessions EXCEPT ![p] = new] \in Seq(Sessions)
        /\ Len([sessions EXCEPT ![p] = new]) = Len(sessions)
        /\ \A j \in 1 .. Len(sessions) :
             [sessions EXCEPT ![p] = new][j] = IF j = p THEN new ELSE sessions[j]
    BY <1>4, <2>1, ExceptSeq
  <2>3. QED  BY <1>5, <2>2, Zenon
<1>7. DOMAIN sessions' = DOMAIN sessions
  BY <1>1, <1>6, LenProperties
<1>8. QED  BY <1>1, <1>4, <1>6, <1>7 DEF Continued

LEMMA MintSession ==
  ASSUME sessions \in Seq(Sessions), NEW session \in Sessions,
         sessions' = Append(sessions, session)
  PROVE  sessions' \in Seq(Sessions) /\ Minted(session)
<1>1. Len(sessions) \in Nat /\ DOMAIN sessions = 1 .. Len(sessions)
  BY LenProperties
<1>2. /\ sessions' \in Seq(Sessions)
      /\ Len(sessions') = Len(sessions) + 1
      /\ sessions'[Len(sessions) + 1] = session
      /\ \A s \in 1 .. Len(sessions) : sessions'[s] = sessions[s]
  BY <1>1
<1>3. DOMAIN sessions' = 1 .. Len(sessions) + 1
  BY <1>2, LenProperties
<1>4. QED  BY <1>1, <1>2, <1>3 DEF Minted, Fresh

LEMMA StoreTypes ==
  ASSUME TypeInv
  PROVE  /\ StoreOK(store)
         /\ sessions \in Seq(Sessions)
         /\ Sids = 1 .. Len(sessions) /\ Len(sessions) \in Nat
         /\ Fresh \notin Sids
BY LenProperties DEF TypeInv, TypeOK, StoreOK, Entries, Sessions, Sids, Fresh

(* The steps by what they do to the conversations. *)
PutInStore(key, sid) == sid # Fresh /\ Put(key, sid)

Looks(r, key, sid) ==          \* what planResumeTurn finds, and its order
  \/ /\ sid = Fresh
     /\ UNCHANGED store
  \/ \E i \in DOMAIN store : /\ key.history # <<>>
                             /\ store[i].key = key
                             /\ sid = store[i].sid
                             /\ store' = ToFront(i, store[i])

LEMMA PlanEffect ==
  ASSUME NEW r \in Requests, NEW h \in known, NEW m \in Models, Plan(r, h, m),
         NEW key, key = [history |-> h, model |-> m]
  PROVE  \E sid :
           /\ Looks(r, key, sid)
           /\ stage[r] = "idle"
           /\ stage' = [stage EXCEPT ![r] = "planned"]
           /\ asked' = [asked EXCEPT ![r] = key]
           /\ plan' = [plan EXCEPT ![r] = sid]
           /\ UNCHANGED <<runVars, sessions, known, reply, first>>
<1>1. key.history = h /\ Fingerprint(h, m) = key
  BY DEF Fingerprint
<1>2. CASE \E i \in DOMAIN store :
              /\ h # <<>>
              /\ store[i].key = Fingerprint(h, m)
              /\ plan' = [plan EXCEPT ![r] = store[i].sid]
              /\ store' = ToFront(i, store[i])
  <2>1. PICK i \in DOMAIN store :
              /\ h # <<>>
              /\ store[i].key = Fingerprint(h, m)
              /\ plan' = [plan EXCEPT ![r] = store[i].sid]
              /\ store' = ToFront(i, store[i])
    BY <1>2, Zenon
  <2>2. Looks(r, key, store[i].sid)
    BY <1>1, <2>1, Zenon DEF Looks
  <2>3. QED  BY <2>1, <2>2, Zenon DEF Plan
<1>3. CASE plan' = [plan EXCEPT ![r] = Fresh] /\ UNCHANGED store
  <2>1. Looks(r, key, Fresh)
    BY <1>3, Zenon DEF Looks
  <2>2. QED  BY <1>3, <2>1, Zenon DEF Plan
<1>4. QED  BY <1>2, <1>3, Zenon DEF Plan

Reordered == \A k \in DOMAIN store' : \E j \in DOMAIN store : store'[k] = store[j]

Finds(key, sid) ==
  sid # Fresh => \E i \in DOMAIN store : /\ key.history # <<>>
                                         /\ store[i].key = key
                                         /\ store[i].sid = sid

(* Looking a key up reorders the store and yields one of its sessions. *)
LEMMA LooksKeeps ==
  ASSUME TypeInv, NEW r, NEW key \in Keys, NEW sid, Looks(r, key, sid)
  PROVE  /\ StoreOK(store')
         /\ sid \in Sids \union {Fresh}
         /\ Reordered
         /\ Finds(key, sid)
<1>1. StoreOK(store)
  BY StoreTypes
<1>2. CASE sid = Fresh /\ UNCHANGED store
  BY <1>1, <1>2 DEF Reordered, Finds
<1>3. ASSUME NEW i \in DOMAIN store, key.history # <<>>, store[i].key = key,
             sid = store[i].sid, store' = ToFront(i, store[i])
      PROVE  /\ StoreOK(store')
             /\ sid \in Sids
             /\ \A k \in DOMAIN store' : \E j \in DOMAIN store : store'[k] = store[j]
  <2>1. store[i] \in Entries
    BY <1>1, LenProperties, ElementOfSeq DEF StoreOK
  <2>2. StoreOK(store') /\ HoldsWith(store', store[i])
    BY <1>1, <1>3, <2>1, ToFrontKeeps
  <2>3. QED  BY <1>3, <2>1, <2>2 DEF HoldsWith, Entries
<1>4. QED  BY <1>2, <1>3, Zenon DEF Looks, Reordered, Finds

LEMMA PutKeeps ==
  ASSUME ConversationsAssumption, TypeInv, NEW key \in Keys, NEW sid \in Sids,
         Put(key, sid)
  PROVE  /\ StoreOK(store')
         /\ \A k \in DOMAIN store' :
              \/ store'[k].key = key /\ store'[k].sid = sid
              \/ \E j \in DOMAIN store : store'[k] = store[j]
<1> DEFINE entry == [key |-> key, sid |-> sid]
<1>1. StoreOK(store)
  BY StoreTypes
<1>2. entry \in Entries /\ entry.key = key /\ entry.sid = sid
  BY DEF Entries
<1>3. \/ \E i \in DOMAIN store : store[i].key = key /\ store' = ToFront(i, entry)
      \/ (\A i \in DOMAIN store : store[i].key # key) /\ store' = Push(entry)
  BY Zenon DEF Put
<1> HIDE DEF entry
<1>4. StoreOK(store') /\ HoldsWith(store', entry)
  BY <1>1, <1>2, <1>3, ToFrontKeeps, PushKeeps
<1>5. QED  BY <1>2, <1>4 DEF HoldsWith

(* TypeInv by its parts, each of which a step can be checked for alone. *)
StoreType == store \in Seq(Entries) /\ StoreOK(store)
RequestTypes ==
  /\ stage \in [Requests -> {"idle", "planned", "first", "retry", "done"}]
  /\ asked \in [Requests -> Keys]
  /\ plan \in [Requests -> Sids \union {Fresh}]
  /\ reply \in [Requests -> Results]
  /\ first \in [Requests -> Results]
ClientTypes == sessions \in Seq(Sessions) /\ known \subseteq Seq(Replies)
SlotType == IsFiniteSet(InFlight) /\ Cardinality(InFlight) <= Slots

LEMMA TypeParts ==
  TypeInv <=> RunTypeOK /\ StoreType /\ RequestTypes /\ ClientTypes /\ SlotType
BY DEF TypeInv, TypeOK, StoreType, StoreOK, RequestTypes, ClientTypes, SlotType,
       Entries, Sessions, Results

(* The store keeps its types while the sessions stay or grow. *)
LEMMA StoreTypeStays ==
  ASSUME TypeInv, Sids \subseteq Sids', StoreOK(store')
  PROVE  StoreType'
<1>1. Entries \subseteq Entries'
  BY DEF Entries, Keys
<1>2. store' \in Seq(Entries)
  BY DEF StoreOK
<1>3. store' \in Seq(Entries')
  BY <1>1, <1>2, SeqMonotonic
<1>4. QED  BY <1>3 DEF StoreType, StoreOK

LEMMA PlanTypes ==
  ASSUME ConversationsAssumption, TypeInv, RunTypeOK',
         NEW r \in Requests, NEW h \in known, NEW m \in Models, Plan(r, h, m)
  PROVE  TypeInv'
<1> DEFINE key == [history |-> h, model |-> m]
<1>0. StoreType /\ RequestTypes /\ ClientTypes /\ SlotType
  BY TypeParts
<1>1. key \in Keys
  BY <1>0 DEF ClientTypes, Keys
<1>2. PICK sid :
        /\ Looks(r, key, sid)
        /\ stage[r] = "idle"
        /\ stage' = [stage EXCEPT ![r] = "planned"]
        /\ asked' = [asked EXCEPT ![r] = key]
        /\ plan' = [plan EXCEPT ![r] = sid]
        /\ UNCHANGED <<runVars, sessions, known, reply, first>>
  BY PlanEffect, Zenon
<1> HIDE DEF key
<1>3. StoreOK(store') /\ sid \in Sids \union {Fresh}
  BY <1>1, <1>2, LooksKeeps, Zenon
<1>4. StoreType'
  BY <1>2, <1>3, StoreTypeStays DEF Sids
<1>5. RequestTypes'
  BY <1>0, <1>1, <1>2, <1>3 DEF RequestTypes, Results, Sids
<1>6. ClientTypes'
  BY <1>0, <1>2 DEF ClientTypes
<1>7. SlotType'
  BY <1>2, InFlightShrinks DEF SlotType
<1>8. QED  BY <1>4, <1>5, <1>6, <1>7, TypeParts, PTL

(* What Finish leaves of a request. *)
LEMMA FinishTypes ==
  ASSUME ConversationsAssumption, TypeInv, NEW r \in Requests, Finish(r),
         UNCHANGED <<sessions, asked>>
  PROVE  RequestTypes' /\ SlotType'
<1>0. RequestTypes
  BY TypeParts
<1>1. /\ stage' = [stage EXCEPT ![r] = "done"]
      /\ plan' = [plan EXCEPT ![r] = Fresh]
      /\ reply' = [reply EXCEPT ![r] = Silence]
      /\ first' = [first EXCEPT ![r] = Silence]
  BY Zenon DEF Finish
<1>2. Silence \in Results
  BY ConstantTypes DEF Results
<1>3. RequestTypes'
  BY <1>0, <1>1, <1>2 DEF RequestTypes, Results, Sids
<1>4. SlotType'
  BY <1>1, InFlightShrinks DEF SlotType
<1>5. QED  BY <1>3, <1>4

LEMMA RespondEffect ==
  ASSUME NEW r \in Requests, Respond(r),
         NEW c, c = Completion(r), NEW next, next = Append(asked[r].history, c.text),
         NEW key, key = [history |-> next, model |-> asked[r].model]
  PROVE  /\ \/ c = first[r] /\ stage[r] = "retry" /\ outcome[r] # "completion"
            \/ c = reply[r]
         /\ known' = known \union {next}
         /\ UNCHANGED store \/ PutInStore(key, c.sid)
         /\ Finish(r)
         /\ UNCHANGED <<sessions, asked>>
<1>1. \/ c = first[r] /\ stage[r] = "retry" /\ outcome[r] # "completion"
      \/ c = reply[r]
  BY Zenon DEF Respond, Completion, MustRetry
<1>2. /\ known' = known \union {Append(asked[r].history, Completion(r).text)}
      /\ \/ UNCHANGED store
         \/ /\ Completion(r).sid # Fresh
            /\ Put(Fingerprint(Append(asked[r].history, Completion(r).text),
                               asked[r].model), Completion(r).sid)
      /\ Finish(r)
      /\ UNCHANGED <<sessions, asked>>
  BY Zenon DEF Respond
<1>3. key = Fingerprint(next, asked[r].model)
  BY Zenon DEF Fingerprint
<1>4. QED  BY <1>1, <1>2, <1>3, Zenon DEF PutInStore

LEMMA RespondTypes ==
  ASSUME ConversationsAssumption, TypeInv, RunTypeOK', NEW r \in Requests, Respond(r)
  PROVE  TypeInv'
<1> DEFINE c == Completion(r)
           next == Append(asked[r].history, c.text)
           key == [history |-> next, model |-> asked[r].model]
<1>0. StoreType /\ RequestTypes /\ ClientTypes /\ SlotType
  BY TypeParts
<1>1. /\ \/ c = first[r] /\ stage[r] = "retry" /\ outcome[r] # "completion"
         \/ c = reply[r]
      /\ known' = known \union {next}
      /\ UNCHANGED store \/ PutInStore(key, c.sid)
      /\ Finish(r)
      /\ UNCHANGED <<sessions, asked>>
  BY RespondEffect, Zenon
<1> HIDE DEF c
<1>2. c \in Results /\ asked[r] \in Keys
  BY <1>0, <1>1 DEF RequestTypes
<1>3. c.text \in Replies /\ c.sid \in Sids \union {Fresh}
      /\ asked[r].history \in Seq(Replies) /\ asked[r].model \in Models
  BY <1>2 DEF Results, Keys
<1> HIDE DEF next
<1>4. next \in Seq(Replies)
  BY <1>3 DEF next
<1>5. key \in Keys
  BY <1>3, <1>4 DEF Keys
<1> HIDE DEF key
<1>6. StoreOK(store')
  <2>1. CASE UNCHANGED store
    BY <2>1, StoreTypes
  <2>2. CASE PutInStore(key, c.sid)
    <3>1. c.sid \in Sids /\ Put(key, c.sid)
      BY <1>3, <2>2 DEF PutInStore
    <3>2. QED  BY <1>5, <3>1, PutKeeps, Zenon
  <2>3. QED  BY <1>1, <2>1, <2>2
<1>7. StoreType'
  BY <1>1, <1>6, StoreTypeStays DEF Sids
<1>8. RequestTypes' /\ SlotType'
  BY <1>1, FinishTypes
<1>9. ClientTypes'
  BY <1>0, <1>1, <1>4 DEF ClientTypes
<1>10. QED  BY <1>7, <1>8, <1>9, TypeParts, PTL

LEMMA GiveUpTypes ==
  ASSUME ConversationsAssumption, TypeInv, RunTypeOK', NEW r \in Requests,
         GiveUp(r) \/ RespondError(r)
  PROVE  TypeInv'
<1>0. StoreType /\ RequestTypes /\ ClientTypes /\ SlotType /\ StoreOK(store)
  BY TypeParts, StoreTypes
<1>1. Finish(r) /\ UNCHANGED <<store, sessions, known, asked>>
  BY Zenon DEF GiveUp, RespondError
<1>2. StoreType'
  BY <1>0, <1>1, StoreTypeStays DEF Sids
<1>3. RequestTypes' /\ SlotType'
  BY <1>1, FinishTypes
<1>4. ClientTypes'
  BY <1>0, <1>1 DEF ClientTypes
<1>5. QED  BY <1>2, <1>3, <1>4, TypeParts, PTL

LEMMA RunTypes ==
  ASSUME ConversationsAssumption, TypeInv, RunTypeOK', NEW r \in Requests,
         RunFirst(r) \/ RunRetry(r)
  PROVE  TypeInv'
<1>0. StoreType /\ RequestTypes /\ ClientTypes /\ SlotType /\ StoreOK(store)
  BY TypeParts, StoreTypes
<1>1. UNCHANGED <<store, sessions, known, asked, plan>>
  BY Zenon DEF RunFirst, RunRetry
<1>2. StoreType'
  BY <1>0, <1>1, StoreTypeStays DEF Sids
<1>3. ClientTypes'
  BY <1>0, <1>1 DEF ClientTypes
<1>4. CASE RunFirst(r)
  <2>1. /\ stage[r] = "planned"
        /\ Cardinality(InFlight) < Slots
        /\ stage' = [stage EXCEPT ![r] = "first"]
        /\ UNCHANGED <<reply, first>>
    BY <1>4, Zenon DEF RunFirst
  <2>2. RequestTypes'
    BY <1>0, <1>1, <2>1 DEF RequestTypes, Results, Sids
  <2>3. SlotType'
    BY <2>1, InFlightGrows DEF SlotType
  <2>4. QED  BY <1>2, <1>3, <2>2, <2>3, TypeParts, PTL
<1>5. CASE RunRetry(r)
  <2>1. /\ stage[r] = "first"
        /\ stage' = [stage EXCEPT ![r] = "retry"]
        /\ first' = [first EXCEPT ![r] = reply[r]]
        /\ reply' = [reply EXCEPT ![r] = Silence]
    BY <1>5, Zenon DEF RunRetry, MustRetry
  <2>2. Silence \in Results
    BY ConstantTypes DEF Results
  <2>3. RequestTypes'
    BY <1>0, <1>1, <2>1, <2>2 DEF RequestTypes, Results, Sids
  <2>4. InFlight' = InFlight
    BY <1>0, <2>1 DEF InFlight, RequestTypes
  <2>5. SlotType'
    BY <1>0, <2>4 DEF SlotType
  <2>6. QED  BY <1>2, <1>3, <2>3, <2>5, TypeParts, PTL
<1>6. QED  BY <1>4, <1>5

(* The three ways an answer comes about. *)
LEMMA AnswerEffect ==
  ASSUME NEW r \in Requests, Answers(r, "answer") \/ Answers(r, "long")
  PROVE  /\ \E text \in Replies : Continue(r, text) \/ Begin(r, text) \/ Passing(r, text)
         /\ Writes(r, "answer") \/ Writes(r, "long")
         /\ UNCHANGED <<store, known, stage, asked, plan, first>>
BY Zenon DEF Answers

(* Each leaves a result that names a session there is. *)
LEMMA AnswerTypes ==
  ASSUME ConversationsAssumption, TypeInv, NEW r \in Requests, NEW text \in Replies,
         Continue(r, text) \/ Begin(r, text) \/ Passing(r, text)
  PROVE  /\ sessions' \in Seq(Sessions)
         /\ Sids \subseteq Sids'
         /\ \E result \in Results' : reply' = [reply EXCEPT ![r] = result]
<1>0. RequestTypes /\ ClientTypes
  BY TypeParts
<1>1. sessions \in Seq(Sessions) /\ Len(sessions) \in Nat /\ Sids = 1 .. Len(sessions)
  BY StoreTypes
<1>2. plan[r] \in Sids \union {Fresh} /\ asked[r] \in Keys
  BY <1>0 DEF RequestTypes
<1>3. asked[r].history \in Seq(Replies) /\ asked[r].model \in Models
  BY <1>2 DEF Keys
<1>4. CASE Continue(r, text)
  <2>1. /\ plan[r] \in DOMAIN sessions
        /\ sessions' = [sessions EXCEPT ![plan[r]].held = Append(@, text)]
        /\ reply' = [reply EXCEPT ![r] = [text |-> text, sid |-> plan[r]]]
    BY <1>2, <1>4, Zenon DEF Continue, Sids
  <2>2. sessions' \in Seq(Sessions) /\ Continued(plan[r], text)
    BY <1>1, <2>1, ContinueSession, Zenon
  <2>3. Sids' = Sids
    BY <2>2 DEF Continued, Sids
  <2>4. [text |-> text, sid |-> plan[r]] \in Results'
    BY <1>2, <2>3 DEF Results
  <2>5. QED  BY <2>1, <2>2, <2>3, <2>4
<1> DEFINE minted(s) == sessions' = Append(sessions, s)
           fresh == [text |-> text, sid |-> Len(sessions) + 1]
<1>5. ASSUME NEW s \in Sessions, minted(s)
      PROVE  sessions' \in Seq(Sessions) /\ Sids \subseteq Sids' /\ fresh \in Results'
  <2>1. sessions' \in Seq(Sessions) /\ Minted(s)
    BY <1>1, <1>5, MintSession
  <2>2. Sids' = Sids \union {Len(sessions) + 1}
    BY <2>1 DEF Minted, Sids
  <2>3. QED  BY <2>1, <2>2 DEF Results
<1>6. CASE Begin(r, text)
  <2> DEFINE s == [held |-> Append(asked[r].history, text),
                   model |-> asked[r].model, disk |-> TRUE]
  <2>1. s \in Sessions
    <3>1. Append(asked[r].history, text) \in Seq(Replies)
      BY <1>3
    <3>2. QED  BY <1>3, <3>1 DEF Sessions
  <2>2. minted(s) /\ reply' = [reply EXCEPT ![r] = fresh]
    BY <1>6, Zenon DEF Begin
  <2> HIDE DEF s, fresh
  <2>3. QED  BY <1>5, <2>1, <2>2, Zenon
<1>7. CASE Passing(r, text)
  <2> DEFINE s == [held |-> <<>>, model |-> asked[r].model, disk |-> FALSE]
             none == [text |-> text, sid |-> Fresh]
  <2>1. s \in Sessions
    BY <1>3 DEF Sessions
  <2>2. none \in Results'
    BY DEF Results
  <2>3. \/ minted(s) /\ reply' = [reply EXCEPT ![r] = fresh]
        \/ UNCHANGED sessions /\ reply' = [reply EXCEPT ![r] = none]
    BY <1>7, Zenon DEF Passing
  <2> HIDE DEF s, fresh, none
  <2>4. CASE minted(s) /\ reply' = [reply EXCEPT ![r] = fresh]
    BY <1>5, <2>1, <2>4, Zenon
  <2>5. CASE UNCHANGED sessions /\ reply' = [reply EXCEPT ![r] = none]
    BY <1>1, <2>2, <2>5 DEF Sids
  <2>6. QED  BY <2>3, <2>4, <2>5
<1>8. QED  BY <1>4, <1>6, <1>7

LEMMA AnswersTypes ==
  ASSUME ConversationsAssumption, TypeInv, RunTypeOK', NEW r \in Requests,
         Answers(r, "answer") \/ Answers(r, "long")
  PROVE  TypeInv'
<1>0. StoreType /\ RequestTypes /\ ClientTypes /\ SlotType /\ StoreOK(store)
  BY TypeParts, StoreTypes
<1>1. PICK text \in Replies : Continue(r, text) \/ Begin(r, text) \/ Passing(r, text)
  BY AnswerEffect
<1>2. UNCHANGED <<store, known, stage, asked, plan, first>>
  BY AnswerEffect
<1>3. /\ sessions' \in Seq(Sessions)
      /\ Sids \subseteq Sids'
  BY <1>1, AnswerTypes
<1>4. PICK result \in Results' : reply' = [reply EXCEPT ![r] = result]
  BY <1>1, AnswerTypes
<1>5. StoreType'
  BY <1>0, <1>2, <1>3, StoreTypeStays
<1>6. Results \subseteq Results'
  BY <1>3 DEF Results
<1>7. RequestTypes'
  BY <1>0, <1>2, <1>3, <1>4, <1>6 DEF RequestTypes
<1>8. ClientTypes'
  BY <1>0, <1>2, <1>3 DEF ClientTypes, Sessions
<1>9. SlotType'
  BY <1>0, <1>2 DEF SlotType, InFlight
<1>10. QED  BY <1>5, <1>7, <1>8, <1>9, TypeParts, PTL

LEMMA QuietTypes ==
  ASSUME TypeInv, RunTypeOK', UNCHANGED convVars
  PROVE  TypeInv'
<1>0. StoreType /\ RequestTypes /\ ClientTypes /\ SlotType
  BY TypeParts
<1>1. UNCHANGED <<store, sessions, known, stage, asked, plan, reply, first>>
  BY DEF convVars
<1>2. StoreType' /\ RequestTypes' /\ ClientTypes' /\ SlotType'
  BY <1>0, <1>1 DEF StoreType, StoreOK, RequestTypes, ClientTypes, SlotType,
                    Entries, Results, Sids, InFlight
<1>3. QED  BY <1>2, TypeParts, PTL

(* A step that leaves the conversations alone takes nothing back that a    *)
(* process said. *)
Quiet ==
  /\ UNCHANGED convVars
  /\ \A q \in Requests : said[q] # "nothing" => said'[q] # "nothing"

LEMMA EveryStepIsOneOf ==
  ASSUME RunTypeOK, [Next]_vars
  PROVE  \/ Quiet
         \/ \E r \in Requests :
              \/ \E h \in known, m \in Models : Plan(r, h, m)
              \/ GiveUp(r) \/ RespondError(r) \/ RunFirst(r) \/ RunRetry(r)
              \/ Respond(r) \/ Answers(r, "answer") \/ Answers(r, "long")
<1>1. CASE UNCHANGED vars
  BY <1>1 DEF vars, runVars, Quiet
<1>2. CASE Next
  <2>1. PICK r \in Requests :
          \/ \E h \in known, m \in Models : Plan(r, h, m)
          \/ GiveUp(r) \/ RunFirst(r) \/ RunRetry(r) \/ Respond(r) \/ RespondError(r)
          \/ Answers(r, "answer") \/ Answers(r, "long") \/ ReportsError(r)
          \/ InRun(ReadLine(r)) \/ InRun(ReadEOF(r)) \/ InRun(Return(r))
          \/ InRun(Deadline(r)) \/ InRun(Kill(r)) \/ InRun(Blocks(r)) \/ InRun(Exits(r))
          \/ stage[r] \in {"planned", "first", "retry"} /\ InRun(Leave(r))
    BY <1>2, Zenon DEF Next
  <2>2. CASE ReportsError(r)
    <3>1. UNCHANGED convVars /\ said' = [said EXCEPT ![r] = "error"]
      BY <2>2, Zenon DEF ReportsError, Writes
    <3>2. said \in [Requests -> Lines]
      BY DEF RunTypeOK
    <3>3. QED  BY <3>1, <3>2 DEF Quiet
  <2>3. CASE \/ InRun(ReadLine(r)) \/ InRun(ReadEOF(r)) \/ InRun(Return(r))
             \/ InRun(Deadline(r)) \/ InRun(Kill(r)) \/ InRun(Blocks(r))
             \/ InRun(Exits(r)) \/ InRun(Leave(r))
    <3>1. UNCHANGED convVars /\ said' = said
      BY <2>3, Zenon DEF InRun, ReadLine, ReadEOF, Return, Deadline, Kill, Blocks,
                         Exits, Leave
    <3>2. QED  BY <3>1 DEF Quiet
  <2>4. QED  BY <2>1, <2>2, <2>3, Zenon
<1>3. QED  BY <1>1, <1>2

LEMMA TypesInductive ==
  ASSUME ConversationsAssumption, TypeInv, RunTypeOK', [Next]_vars
  PROVE  TypeInv'
<1>1. RunTypeOK
  BY TypeParts
<1>2. CASE Quiet
  BY <1>2, QuietTypes DEF Quiet
<1>3. CASE \E r \in Requests :
              \/ \E h \in known, m \in Models : Plan(r, h, m)
              \/ GiveUp(r) \/ RespondError(r) \/ RunFirst(r) \/ RunRetry(r)
              \/ Respond(r) \/ Answers(r, "answer") \/ Answers(r, "long")
  BY <1>3, PlanTypes, GiveUpTypes, RunTypes, RespondTypes, AnswersTypes, Zenon
<1>4. QED  BY <1>1, <1>2, <1>3, EveryStepIsOneOf, Zenon

-----------------------------------------------------------------------------
(* An answer, and what the sessions are after it. *)

Resumes(r, text) ==
  /\ stage[r] = "first" /\ reply[r].sid = Fresh
  /\ OnDisk(plan[r])
  /\ plan[r] \in Sids
  /\ Continued(plan[r], text)
  /\ reply' = [reply EXCEPT ![r] = [text |-> text, sid |-> plan[r]]]

Opens(r, text) ==
  /\ stage[r] = "first" /\ reply[r].sid = Fresh
  /\ plan[r] = Fresh
  /\ Minted([held |-> Append(asked[r].history, text),
             model |-> asked[r].model, disk |-> TRUE])
  /\ reply' = [reply EXCEPT ![r] = [text |-> text, sid |-> Len(sessions) + 1]]

Passes(r, text) ==
  /\ stage[r] = "retry"
  /\ \/ /\ Minted([held |-> <<>>, model |-> asked[r].model, disk |-> FALSE])
        /\ reply' = [reply EXCEPT ![r] = [text |-> text, sid |-> Len(sessions) + 1]]
     \/ /\ UNCHANGED sessions
        /\ reply' = [reply EXCEPT ![r] = [text |-> text, sid |-> Fresh]]

LEMMA AnswerKinds ==
  ASSUME TypeInv, RunInv, NEW r \in Requests, StageInv(r),
         Answers(r, "answer") \/ Answers(r, "long")
  PROVE  /\ \E text \in Replies : Resumes(r, text) \/ Opens(r, text) \/ Passes(r, text)
         /\ said'[r] # "nothing"
         /\ \A q \in Requests : q # r => said'[q] = said[q]
         /\ UNCHANGED <<store, known, stage, asked, plan, first>>
<1>0. RequestTypes /\ ClientTypes
  BY TypeParts
<1>1. sessions \in Seq(Sessions) /\ Len(sessions) \in Nat /\ Sids = 1 .. Len(sessions)
  BY StoreTypes
<1>2. plan[r] \in Sids \union {Fresh} /\ asked[r] \in Keys
  BY <1>0 DEF RequestTypes
<1>3. asked[r].history \in Seq(Replies) /\ asked[r].model \in Models
  BY <1>2 DEF Keys
<1>4. PICK text \in Replies : Continue(r, text) \/ Begin(r, text) \/ Passing(r, text)
  BY AnswerEffect
<1>5. Writes(r, "answer") \/ Writes(r, "long")
  BY AnswerEffect
<1>6. UNCHANGED <<store, known, stage, asked, plan, first>>
  BY AnswerEffect
<1>7. /\ cli[r] = "working"
      /\ said' = [said EXCEPT ![r] = "answer"] \/ said' = [said EXCEPT ![r] = "long"]
  BY <1>5, Zenon DEF Writes
<1>8. RunTypeOK /\ LineInv(r)
  BY Zenon DEF RunInv
<1>9. said'[r] # "nothing" /\ \A q \in Requests : q # r => said'[q] = said[q]
  BY <1>7, <1>8 DEF RunTypeOK
<1>10. stage[r] = "first" => reply[r].sid = Fresh
  BY <1>7, <1>8 DEF LineInv, StageInv
<1>11. CASE Continue(r, text)
  <2>1. /\ stage[r] = "first"
        /\ plan[r] # Fresh /\ sessions[plan[r]].disk
        /\ sessions' = [sessions EXCEPT ![plan[r]].held = Append(@, text)]
        /\ reply' = [reply EXCEPT ![r] = [text |-> text, sid |-> plan[r]]]
    BY <1>11, Zenon DEF Continue
  <2>2. plan[r] \in DOMAIN sessions
    BY <1>2, <2>1 DEF Sids
  <2>3. Continued(plan[r], text)
    BY <1>1, <2>1, <2>2, ContinueSession, Zenon
  <2>4. Resumes(r, text)
    BY <1>10, <2>1, <2>2, <2>3, Zenon DEF Resumes, OnDisk, Sids
  <2>5. QED  BY <1>6, <1>9, <2>4, Zenon
<1>12. CASE Begin(r, text)
  <2> DEFINE s == [held |-> Append(asked[r].history, text),
                   model |-> asked[r].model, disk |-> TRUE]
  <2>1. s \in Sessions
    <3>1. Append(asked[r].history, text) \in Seq(Replies)
      BY <1>3
    <3>2. QED  BY <1>3, <3>1 DEF Sessions
  <2>2. stage[r] = "first" /\ plan[r] = Fresh /\ sessions' = Append(sessions, s)
        /\ reply' = [reply EXCEPT ![r] = [text |-> text, sid |-> Len(sessions) + 1]]
    BY <1>12, Zenon DEF Begin
  <2> HIDE DEF s
  <2>3. Minted(s)
    BY <1>1, <2>1, <2>2, MintSession, Zenon
  <2>4. Opens(r, text)
    BY <1>10, <2>2, <2>3, Zenon DEF Opens, s
  <2>5. QED  BY <1>6, <1>9, <2>4, Zenon
<1>13. CASE Passing(r, text)
  <2> DEFINE s == [held |-> <<>>, model |-> asked[r].model, disk |-> FALSE]
  <2>1. s \in Sessions
    BY <1>3 DEF Sessions
  <2>2. /\ stage[r] = "retry"
        /\ \/ /\ sessions' = Append(sessions, s)
              /\ reply' = [reply EXCEPT ![r] = [text |-> text, sid |-> Len(sessions) + 1]]
           \/ /\ UNCHANGED sessions
              /\ reply' = [reply EXCEPT ![r] = [text |-> text, sid |-> Fresh]]
    BY <1>13, Zenon DEF Passing
  <2> HIDE DEF s
  <2>3. sessions' = Append(sessions, s) => Minted(s)
    BY <1>1, <2>1, MintSession, Zenon
  <2>4. Passes(r, text)
    BY <2>2, <2>3, Zenon DEF Passes, s
  <2>5. QED  BY <1>6, <1>9, <2>4, Zenon
<1>14. QED  BY <1>4, <1>11, <1>12, <1>13, Zenon

(* However a step changes the sessions, those there are stay on disk or    *)
(* off it, keep their model, and lose no turn. *)
Grown ==
  /\ Sids \subseteq Sids'
  /\ \A s \in Sids : /\ sessions'[s].disk = sessions[s].disk
                     /\ sessions'[s].model = sessions[s].model
                     /\ Range(sessions[s].held) \subseteq Range(sessions'[s].held)

LEMMA AppendRange ==
  ASSUME NEW S, NEW s \in Seq(S), NEW e \in S
  PROVE  Range(Append(s, e)) = Range(s) \union {e}
<1>1. Len(s) \in Nat /\ DOMAIN s = 1 .. Len(s)
  BY LenProperties
<1>2. /\ Append(s, e) \in Seq(S)
      /\ Len(Append(s, e)) = Len(s) + 1
      /\ Append(s, e)[Len(s) + 1] = e
      /\ \A k \in 1 .. Len(s) : Append(s, e)[k] = s[k]
  BY <1>1
<1>3. DOMAIN Append(s, e) = 1 .. Len(s) + 1
  BY <1>2, LenProperties
<1> DEFINE t == Append(s, e)
<1> HIDE DEF t
<1>4. DOMAIN t = 1 .. Len(s) + 1 /\ t[Len(s) + 1] = e
      /\ \A k \in 1 .. Len(s) : t[k] = s[k]
  BY <1>2, <1>3 DEF t
<1>5. Range(t) = Range(s) \union {e}
  BY <1>1, <1>4 DEF Range
<1>6. QED  BY <1>5 DEF t

LEMMA SessionsGrow ==
  ASSUME TypeInv, NEW text \in Replies,
         \/ UNCHANGED sessions
         \/ \E p \in Sids : Continued(p, text)
         \/ \E s : Minted(s)
  PROVE  Grown
<1>1. sessions \in Seq(Sessions)
  BY StoreTypes
<1>2. CASE UNCHANGED sessions
  BY <1>2 DEF Grown, Sids
<1>3. CASE \E p \in Sids : Continued(p, text)
  <2>1. PICK p \in Sids : Continued(p, text)
    BY <1>3
  <2>2. sessions[p] \in Sessions
    BY <1>1, LenProperties, ElementOfSeq DEF Sids
  <2>3. Range(sessions'[p].held) = Range(sessions[p].held) \union {text}
    <3>1. sessions[p].held \in Seq(Replies)
      BY <2>2 DEF Sessions
    <3>2. Range(Append(sessions[p].held, text)) = Range(sessions[p].held) \union {text}
      BY <3>1, AppendRange
    <3>3. QED  BY <2>1, <3>2 DEF Continued
  <2>4. QED  BY <2>1, <2>3 DEF Grown, Continued, Sids
<1>4. CASE \E s : Minted(s)
  BY <1>4 DEF Grown, Minted, Sids
<1>5. QED  BY <1>2, <1>3, <1>4

LEMMA AnswerGrows ==
  ASSUME TypeInv, NEW r \in Requests, NEW text \in Replies,
         Resumes(r, text) \/ Opens(r, text) \/ Passes(r, text)
  PROVE  Grown
<1>1. \/ UNCHANGED sessions
      \/ \E p \in Sids : Continued(p, text)
      \/ \E s : Minted(s)
  BY Zenon DEF Resumes, Opens, Passes
<1>2. QED  BY <1>1, SessionsGrow

LEMMA GrownKeeps ==
  ASSUME TypeInv, Grown, NEW sid \in Sids \union {Fresh}
  PROVE  /\ OnDisk(sid)' <=> OnDisk(sid)
         /\ OnDisk(sid) => sessions'[sid].model = sessions[sid].model
         /\ \A turn, model : Happened(turn, sid, model) => Happened(turn, sid, model)'
<1>1. OnDisk(sid)' <=> OnDisk(sid)
  BY DEF Grown, OnDisk
<1>2. OnDisk(sid) => sessions'[sid].model = sessions[sid].model
  BY DEF Grown, OnDisk
<1>3. OnDisk(sid) => Range(sessions[sid].held) \subseteq Range(sessions'[sid].held)
  BY DEF Grown, OnDisk
<1>4. QED  BY <1>1, <1>2, <1>3, Zenon DEF Happened

-----------------------------------------------------------------------------
(* The handler's variables at each stage. *)

LEMMA StageFrame ==
  ASSUME TypeInv, Grown, NEW q \in Requests, StageInv(q),
         stage'[q] = stage[q], plan'[q] = plan[q],
         reply'[q] = reply[q], first'[q] = first[q],
         said[q] # "nothing" => said'[q] # "nothing"
  PROVE  StageInv(q)'
<1>1. reply[q].sid \in Sids \union {Fresh}
  BY TypeParts DEF RequestTypes, Results
<1>2. OnDisk(reply[q].sid)' <=> OnDisk(reply[q].sid)
  <2>1. reply'[q].sid = reply[q].sid
    OBVIOUS
  <2>2. \A s \in Sids \union {Fresh} : OnDisk(s)' <=> OnDisk(s)
    BY GrownKeeps
  <2>3. QED  BY <1>1, <2>1, <2>2 DEF OnDisk
<1>3. QED  BY <1>2, Zenon DEF StageInv

LEMMA StagesInductive ==
  ASSUME ConversationsAssumption, TypeInv, RunInv, \A r \in Requests : StageInv(r),
         [Next]_vars
  PROVE  \A q \in Requests : StageInv(q)'
<1>0. RequestTypes /\ RunTypeOK /\ said \in [Requests -> Lines]
  BY TypeParts DEF RunTypeOK
<1>1. UNCHANGED sessions => Grown
  BY SessionsGrow DEF Replies
<1>2. CASE Quiet
  BY <1>1, <1>2, StageFrame DEF Quiet, convVars
<1>3. ASSUME NEW r \in Requests, NEW h \in known, NEW m \in Models, Plan(r, h, m),
             NEW q \in Requests
      PROVE  StageInv(q)'
  <2>1. PICK sid : /\ stage[r] = "idle"
                   /\ stage' = [stage EXCEPT ![r] = "planned"]
                   /\ plan' = [plan EXCEPT ![r] = sid]
                   /\ UNCHANGED <<runVars, sessions, known, reply, first>>
    BY <1>3, PlanEffect, Zenon
  <2>2. said' = said
    BY <2>1 DEF runVars
  <2>3. CASE q = r
    <3>1. stage'[q] = "planned" /\ reply'[q] = reply[q] /\ first'[q] = first[q]
      BY <1>0, <2>1, <2>3 DEF RequestTypes
    <3>2. reply[q].sid = Fresh /\ first[q].sid = Fresh
      BY <2>1, <2>3 DEF StageInv
    <3>3. QED  BY <3>1, <3>2 DEF StageInv
  <2>4. CASE q # r
    BY <1>0, <1>1, <2>1, <2>2, <2>4, StageFrame DEF RequestTypes
  <2>5. QED  BY <2>3, <2>4
<1>4. ASSUME NEW r \in Requests, Finish(r), UNCHANGED sessions, NEW q \in Requests
      PROVE  StageInv(q)'
  <2>1. /\ stage' = [stage EXCEPT ![r] = "done"]
        /\ plan' = [plan EXCEPT ![r] = Fresh]
        /\ reply' = [reply EXCEPT ![r] = Silence]
        /\ first' = [first EXCEPT ![r] = Silence]
        /\ said' = [said EXCEPT ![r] = "nothing"]
    BY <1>4, Zenon DEF Finish, Forget
  <2>2. CASE q = r
    <3>1. stage'[q] = "done" /\ plan'[q] = Fresh
          /\ reply'[q].sid = Fresh /\ first'[q].sid = Fresh
      BY <1>0, <2>1, <2>2, ConstantTypes DEF RequestTypes
    <3>2. QED  BY <3>1 DEF StageInv
  <2>3. CASE q # r
    <3>1. stage'[q] = stage[q] /\ plan'[q] = plan[q] /\ said'[q] = said[q]
          /\ reply'[q] = reply[q] /\ first'[q] = first[q]
      BY <1>0, <2>1, <2>3 DEF RequestTypes
    <3>2. QED  BY <1>1, <1>4, <3>1, StageFrame
  <2>4. QED  BY <2>2, <2>3
<1>5. ASSUME NEW r \in Requests, RunFirst(r) \/ RunRetry(r), NEW q \in Requests
      PROVE  StageInv(q)'
  <2>1. UNCHANGED <<sessions, plan>> /\ said' = [said EXCEPT ![r] = "nothing"]
    BY <1>5, Zenon DEF RunFirst, RunRetry, StartRun
  <2>2. \/ /\ stage[r] = "planned" /\ stage' = [stage EXCEPT ![r] = "first"]
           /\ UNCHANGED <<reply, first>>
        \/ /\ stage' = [stage EXCEPT ![r] = "retry"]
           /\ first' = [first EXCEPT ![r] = reply[r]]
           /\ reply' = [reply EXCEPT ![r] = Silence]
    BY <1>5, Zenon DEF RunFirst, RunRetry
  <2>3. CASE q = r
    <3>1. \/ stage'[q] = "first" /\ reply'[q] = reply[q] /\ reply[q].sid = Fresh
          \/ stage'[q] = "retry" /\ reply'[q].sid = Fresh
      BY <1>0, <2>2, <2>3, ConstantTypes DEF RequestTypes, StageInv
    <3>2. QED  BY <3>1 DEF StageInv, OnDisk
  <2>4. CASE q # r
    <3>1. stage'[q] = stage[q] /\ plan'[q] = plan[q] /\ said'[q] = said[q]
          /\ reply'[q] = reply[q] /\ first'[q] = first[q]
      BY <1>0, <2>1, <2>2, <2>4 DEF RequestTypes
    <3>2. QED  BY <1>1, <2>1, <3>1, StageFrame
  <2>5. QED  BY <2>3, <2>4
<1>6. ASSUME NEW r \in Requests, Answers(r, "answer") \/ Answers(r, "long"),
             NEW q \in Requests
      PROVE  StageInv(q)'
  <2>1. PICK text \in Replies : Resumes(r, text) \/ Opens(r, text) \/ Passes(r, text)
    BY <1>6, AnswerKinds
  <2>2. /\ said'[r] # "nothing" /\ \A p \in Requests : p # r => said'[p] = said[p]
        /\ UNCHANGED <<store, known, stage, asked, plan, first>>
    BY <1>6, AnswerKinds
  <2>3. Grown
    BY <2>1, AnswerGrows
  <2>4. PICK result : reply' = [reply EXCEPT ![r] = result]
    BY <2>1, Zenon DEF Resumes, Opens, Passes
  <2>5. CASE q # r
    <3>1. reply'[q] = reply[q]
      BY <1>0, <2>4, <2>5 DEF RequestTypes
    <3>2. QED  BY <2>2, <2>3, <2>5, <3>1, StageFrame
  <2>6. CASE q = r
    <3>1. stage[r] \in {"first", "retry"}
      BY <2>1 DEF Resumes, Opens, Passes
    <3>2. stage[r] = "retry" => ~OnDisk(reply[r].sid)'
      BY <1>0, <2>1 DEF Resumes, Opens, Passes, Minted, OnDisk, RequestTypes
    <3>3. QED  BY <2>2, <2>6, <3>1, <3>2 DEF StageInv
  <2>7. QED  BY <2>5, <2>6
<1>7. ASSUME NEW r \in Requests, GiveUp(r) \/ RespondError(r) \/ Respond(r)
      PROVE  Finish(r) /\ UNCHANGED sessions
  BY <1>7, Zenon DEF GiveUp, RespondError, Respond
<1>8. QED  BY <1>0, <1>2, <1>3, <1>4, <1>5, <1>6, <1>7, EveryStepIsOneOf, Zenon

-----------------------------------------------------------------------------
(* The turns entries and requests speak of are in their sessions. *)

(* Happened, of the sessions after the step. *)
Later(turn, sid, model) ==
  sid # Fresh /\ sessions'[sid].disk =>
    sessions'[sid].model = model /\ turn \in Range(sessions'[sid].held)

EntryLater(entry) == Later(Last(entry.key.history), entry.sid, entry.key.model)

LEMMA TurnPrime ==
  ASSUME \A k \in DOMAIN store' : EntryLater(store'[k]),
         \A r \in Requests : RequestTurn(r)'
  PROVE  TurnInv'
BY Zenon DEF TurnInv, EntryLater, Later, Happened, OnDisk

LEMMA HappenedLater ==
  ASSUME TypeInv, Grown, NEW sid \in Sids \union {Fresh}, NEW turn, NEW model,
         Happened(turn, sid, model)
  PROVE  Later(turn, sid, model)
<1>1. Happened(turn, sid, model)'
  BY GrownKeeps
<1>2. QED  BY <1>1 DEF Later, Happened, OnDisk

LEMMA RequestTurnFrame ==
  ASSUME TypeInv, Grown, NEW q \in Requests, RequestTurn(q),
         asked'[q] = asked[q], plan'[q] = plan[q],
         reply'[q] = reply[q], first'[q] = first[q]
  PROVE  RequestTurn(q)'
<1>1. /\ plan[q] \in Sids \union {Fresh}
      /\ reply[q].sid \in Sids \union {Fresh} /\ first[q].sid \in Sids \union {Fresh}
  BY TypeParts DEF RequestTypes, Results
<1>2. OnDisk(plan[q])' => sessions'[plan[q]].model = asked[q].model
  <2>1. /\ OnDisk(plan[q]) => sessions[plan[q]].model = asked[q].model
    BY DEF RequestTurn
  <2>2. ASSUME NEW s \in Sids \union {Fresh}
        PROVE  /\ OnDisk(s)' <=> OnDisk(s)
               /\ OnDisk(s) => sessions'[s].model = sessions[s].model
    BY GrownKeeps
  <2>3. OnDisk(plan[q])' <=> OnDisk(plan[q])
    BY <1>1, <2>2 DEF OnDisk
  <2>4. QED  BY <1>1, <2>1, <2>2, <2>3
<1>3. /\ Later(reply[q].text, reply[q].sid, asked[q].model)
      /\ Later(first[q].text, first[q].sid, asked[q].model)
  <2>1. /\ Happened(reply[q].text, reply[q].sid, asked[q].model)
        /\ Happened(first[q].text, first[q].sid, asked[q].model)
    BY DEF RequestTurn
  <2>2. QED  BY <1>1, <2>1, HappenedLater
<1>4. QED  BY <1>2, <1>3, Zenon DEF RequestTurn, Happened, OnDisk, Later

LEMMA EntryTurnsKept ==
  ASSUME TypeInv, TurnInv, Grown, NEW k \in DOMAIN store', NEW j \in DOMAIN store,
         store'[k] = store[j]
  PROVE  EntryLater(store'[k])
<1>1. store[j].sid \in Sids
  <2>1. store \in Seq(Entries)
    BY StoreTypes DEF StoreOK
  <2>2. store[j] \in Entries
    BY <2>1, LenProperties, ElementOfSeq
  <2>3. QED  BY <2>2 DEF Entries
<1>2. Happened(Last(store[j].key.history), store[j].sid, store[j].key.model)
  BY DEF TurnInv
<1>3. QED  BY <1>1, <1>2, HappenedLater DEF EntryLater

LEMMA PlanTurns ==
  ASSUME ConversationsAssumption, TypeInv, \A q \in Requests : StageInv(q), TurnInv,
         NEW r \in Requests, NEW h \in known, NEW m \in Models, Plan(r, h, m)
  PROVE  TurnInv'
<1> DEFINE key == [history |-> h, model |-> m]
<1>0. RequestTypes /\ ClientTypes
  BY TypeParts
<1>1. key \in Keys
  BY <1>0 DEF ClientTypes, Keys
<1>2. PICK sid :
        /\ Looks(r, key, sid)
        /\ stage[r] = "idle"
        /\ stage' = [stage EXCEPT ![r] = "planned"]
        /\ asked' = [asked EXCEPT ![r] = key]
        /\ plan' = [plan EXCEPT ![r] = sid]
        /\ UNCHANGED <<runVars, sessions, known, reply, first>>
  BY PlanEffect, Zenon
<1> HIDE DEF key
<1>3. Grown
  BY <1>2, SessionsGrow DEF Replies
<1>4. /\ \A k \in DOMAIN store' : \E j \in DOMAIN store : store'[k] = store[j]
      /\ sid # Fresh => \E i \in DOMAIN store : /\ key.history # <<>>
                                                /\ store[i].key = key
                                                /\ store[i].sid = sid
  <2>1. Reordered /\ Finds(key, sid)
    BY <1>1, <1>2, LooksKeeps, Zenon
  <2>2. QED  BY <2>1 DEF Reordered, Finds
<1>5. \A k \in DOMAIN store' : EntryLater(store'[k])
  BY <1>3, <1>4, EntryTurnsKept
<1>6. ASSUME NEW q \in Requests  PROVE RequestTurn(q)'
  <2>1. CASE q = r
    <3>1. /\ asked'[q] = key /\ plan'[q] = sid
          /\ reply'[q].sid = Fresh /\ first'[q].sid = Fresh
      BY <1>0, <1>2, <2>1 DEF RequestTypes, StageInv
    <3>2. OnDisk(sid) => sessions[sid].model = key.model
      BY <1>4 DEF TurnInv, Happened, OnDisk
    <3>3. OnDisk(sid)' => sessions'[sid].model = key.model
      BY <1>2, <3>2 DEF OnDisk
    <3>4. QED  BY <3>1, <3>3 DEF RequestTurn, Happened, OnDisk
  <2>2. CASE q # r
    <3>1. asked'[q] = asked[q] /\ plan'[q] = plan[q]
          /\ reply'[q] = reply[q] /\ first'[q] = first[q]
      BY <1>0, <1>2, <2>2 DEF RequestTypes
    <3>2. RequestTurn(q)
      BY DEF TurnInv
    <3>3. QED  BY <1>3, <3>1, <3>2, RequestTurnFrame
  <2>3. QED  BY <2>1, <2>2
<1>7. QED  BY <1>5, <1>6, TurnPrime

LEMMA FinishTurns ==
  ASSUME ConversationsAssumption, TypeInv, TurnInv, NEW r \in Requests, Finish(r),
         UNCHANGED <<sessions, asked>>, NEW q \in Requests
  PROVE  RequestTurn(q)'
<1>0. RequestTypes
  BY TypeParts
<1>1. /\ plan' = [plan EXCEPT ![r] = Fresh]
      /\ reply' = [reply EXCEPT ![r] = Silence]
      /\ first' = [first EXCEPT ![r] = Silence]
  BY Zenon DEF Finish
<1>2. CASE q = r
  <2>1. plan'[q] = Fresh /\ reply'[q].sid = Fresh /\ first'[q].sid = Fresh
    BY <1>0, <1>1, <1>2, ConstantTypes DEF RequestTypes
  <2>2. QED  BY <2>1 DEF RequestTurn, Happened, OnDisk
<1>3. CASE q # r
  <2>1. asked'[q] = asked[q] /\ plan'[q] = plan[q]
        /\ reply'[q] = reply[q] /\ first'[q] = first[q]
    BY <1>0, <1>1, <1>3 DEF RequestTypes
  <2>2. Grown /\ RequestTurn(q)
    BY SessionsGrow DEF TurnInv, Replies
  <2>3. QED  BY <2>1, <2>2, RequestTurnFrame
<1>4. QED  BY <1>2, <1>3

LEMMA LastOfAppend ==
  ASSUME NEW S, NEW s \in Seq(S), NEW e \in S
  PROVE  Last(Append(s, e)) = e
BY DEF Last

(* What is recorded is the turn of the run whose id is recorded. *)
LEMMA RespondTurns ==
  ASSUME ConversationsAssumption, TypeInv, TurnInv, NEW r \in Requests, Respond(r)
  PROVE  TurnInv'
<1> DEFINE c == Completion(r)
           next == Append(asked[r].history, c.text)
           key == [history |-> next, model |-> asked[r].model]
<1>0. RequestTypes
  BY TypeParts
<1>1. /\ c = first[r] \/ c = reply[r]
      /\ UNCHANGED store \/ PutInStore(key, c.sid)
      /\ Finish(r)
      /\ UNCHANGED <<sessions, asked>>
  BY RespondEffect, Zenon
<1> HIDE DEF c
<1>2. c \in Results /\ asked[r] \in Keys
  BY <1>0, <1>1 DEF RequestTypes
<1>3. c.text \in Replies /\ c.sid \in Sids \union {Fresh}
      /\ asked[r].history \in Seq(Replies) /\ asked[r].model \in Models
  BY <1>2 DEF Results, Keys
<1>4. Happened(c.text, c.sid, asked[r].model)
  BY <1>1 DEF TurnInv, RequestTurn
<1>5. next \in Seq(Replies) /\ Last(next) = c.text
  BY <1>3, LastOfAppend
<1> HIDE DEF next
<1>6. key \in Keys /\ key.history = next /\ key.model = asked[r].model
  BY <1>3, <1>5 DEF Keys
<1> HIDE DEF key
<1>7. Grown
  BY <1>1, SessionsGrow DEF Replies
<1>8. ASSUME NEW k \in DOMAIN store'  PROVE EntryLater(store'[k])
  <2>1. CASE UNCHANGED store
    BY <1>7, <2>1, EntryTurnsKept
  <2>2. CASE PutInStore(key, c.sid)
    <3>1. c.sid \in Sids /\ Put(key, c.sid)
      BY <1>3, <2>2 DEF PutInStore
    <3>2. \/ store'[k].key = key /\ store'[k].sid = c.sid
          \/ \E j \in DOMAIN store : store'[k] = store[j]
      BY <1>6, <3>1, PutKeeps, Zenon
    <3>3. CASE store'[k].key = key /\ store'[k].sid = c.sid
      <4>1. Later(c.text, c.sid, asked[r].model)
        BY <1>3, <1>4, <1>7, HappenedLater
      <4>2. QED  BY <1>5, <1>6, <3>3, <4>1 DEF EntryLater
    <3>4. CASE \E j \in DOMAIN store : store'[k] = store[j]
      BY <1>7, <3>4, EntryTurnsKept
    <3>5. QED  BY <3>2, <3>3, <3>4
  <2>3. QED  BY <1>1, <2>1, <2>2
<1>9. \A q \in Requests : RequestTurn(q)'
  BY <1>1, FinishTurns
<1>10. QED  BY <1>8, <1>9, TurnPrime

LEMMA RunTurns ==
  ASSUME ConversationsAssumption, TypeInv, TurnInv, NEW r \in Requests,
         RunFirst(r) \/ RunRetry(r)
  PROVE  TurnInv'
<1>0. RequestTypes
  BY TypeParts
<1>1. UNCHANGED <<store, sessions, known, asked, plan>>
  BY Zenon DEF RunFirst, RunRetry
<1>2. Grown
  BY <1>1, SessionsGrow DEF Replies
<1>3. \A k \in DOMAIN store' : EntryLater(store'[k])
  BY <1>1, <1>2, EntryTurnsKept
<1>4. \/ UNCHANGED <<reply, first>>
      \/ /\ first' = [first EXCEPT ![r] = reply[r]]
         /\ reply' = [reply EXCEPT ![r] = Silence]
  BY Zenon DEF RunFirst, RunRetry
<1>5. ASSUME NEW q \in Requests  PROVE RequestTurn(q)'
  <2>1. RequestTurn(q)
    BY DEF TurnInv
  <2>2. CASE reply'[q] = reply[q] /\ first'[q] = first[q]
    BY <1>1, <1>2, <2>1, <2>2, RequestTurnFrame
  <2>3. CASE first'[q] = reply[q] /\ reply'[q] = Silence
    BY <1>1, <2>1, <2>3, ConstantTypes DEF RequestTurn, Happened, OnDisk
  <2>4. QED  BY <1>0, <1>4, <2>2, <2>3 DEF RequestTypes
<1>6. QED  BY <1>3, <1>5, TurnPrime

LEMMA AnswerTurns ==
  ASSUME ConversationsAssumption, TypeInv, RunInv, TurnInv, NEW r \in Requests,
         StageInv(r), Answers(r, "answer") \/ Answers(r, "long")
  PROVE  TurnInv'
<1>0. RequestTypes /\ sessions \in Seq(Sessions) /\ Fresh \notin Sids
  BY TypeParts, StoreTypes
<1>1. PICK text \in Replies : Resumes(r, text) \/ Opens(r, text) \/ Passes(r, text)
  BY AnswerKinds
<1>2. UNCHANGED <<store, known, stage, asked, plan, first>>
  BY AnswerKinds
<1>3. Grown
  BY <1>1, AnswerGrows
<1>4. \A k \in DOMAIN store' : EntryLater(store'[k])
  BY <1>2, <1>3, EntryTurnsKept
<1>5. PICK result : reply' = [reply EXCEPT ![r] = result]
  BY <1>1, Zenon DEF Resumes, Opens, Passes
<1>6. ASSUME NEW q \in Requests, q # r  PROVE RequestTurn(q)'
  <2>1. reply'[q] = reply[q]
    BY <1>0, <1>5, <1>6 DEF RequestTypes
  <2>2. RequestTurn(q)
    BY DEF TurnInv
  <2>3. QED  BY <1>2, <1>3, <2>1, <2>2, RequestTurnFrame
<1>7. RequestTurn(r)
  BY DEF TurnInv
<1>8. plan[r] \in Sids \union {Fresh} /\ first[r].sid \in Sids \union {Fresh}
      /\ asked[r] \in Keys
  BY <1>0 DEF RequestTypes, Results
<1>9. /\ OnDisk(plan[r])' => sessions'[plan[r]].model = asked[r].model
      /\ Happened(first[r].text, first[r].sid, asked[r].model)'
  <2>1. ASSUME NEW s \in Sids \union {Fresh}
        PROVE  /\ OnDisk(s)' <=> OnDisk(s)
               /\ OnDisk(s) => sessions'[s].model = sessions[s].model
               /\ \A turn, model : Happened(turn, s, model) => Happened(turn, s, model)'
    BY <1>3, GrownKeeps
  <2>2. OnDisk(plan[r])' <=> OnDisk(plan[r])
    BY <1>2, <1>8, <2>1 DEF OnDisk
  <2>3. OnDisk(plan[r])' => sessions'[plan[r]].model = asked[r].model
    BY <1>7, <1>8, <2>1, <2>2 DEF RequestTurn
  <2>4. Happened(first[r].text, first[r].sid, asked[r].model)
    BY <1>7 DEF RequestTurn
  <2>5. Happened(first[r].text, first[r].sid, asked[r].model)'
    BY <1>2, <1>8, <2>1, <2>4 DEF Happened, OnDisk
  <2>6. QED  BY <2>3, <2>5
<1>10. Happened(reply[r].text, reply[r].sid, asked[r].model)'
  <2>1. CASE Resumes(r, text)
    <3>1. /\ reply'[r].text = text /\ reply'[r].sid = plan[r]
          /\ OnDisk(plan[r]) /\ plan[r] \in Sids /\ Continued(plan[r], text)
      BY <1>0, <2>1 DEF Resumes, RequestTypes
    <3>2. sessions'[plan[r]].model = asked[r].model
      BY <1>7, <3>1 DEF RequestTurn, Continued
    <3>3. sessions[plan[r]].held \in Seq(Replies)
      <4>1. sessions[plan[r]] \in Sessions
        BY <1>0, <3>1, LenProperties, ElementOfSeq DEF Sids
      <4>2. QED  BY <4>1 DEF Sessions
    <3>4. text \in Range(sessions'[plan[r]].held)
      <4>1. Range(Append(sessions[plan[r]].held, text))
              = Range(sessions[plan[r]].held) \union {text}
        BY <3>3, AppendRange
      <4>2. QED  BY <3>1, <4>1 DEF Continued
    <3>5. QED  BY <1>2, <3>1, <3>2, <3>4 DEF Happened
  <2>2. CASE Opens(r, text)
    <3> DEFINE n == Len(sessions) + 1
    <3>1. /\ reply'[r].text = text /\ reply'[r].sid = n
          /\ sessions'[n].held = Append(asked[r].history, text)
          /\ sessions'[n].model = asked[r].model
      BY <1>0, <2>2 DEF Opens, Minted, RequestTypes
    <3> HIDE DEF n
    <3>2. asked[r].history \in Seq(Replies)
      BY <1>8 DEF Keys
    <3>3. text \in Range(sessions'[n].held)
      BY <3>1, <3>2, AppendRange
    <3>4. QED  BY <1>2, <3>1, <3>3 DEF Happened
  <2>3. CASE Passes(r, text)
    <3>1. reply'[r].sid = Fresh \/ ~sessions'[reply'[r].sid].disk
      BY <1>0, <2>3 DEF Passes, Minted, RequestTypes
    <3>2. QED  BY <3>1 DEF Happened, OnDisk
  <2>4. QED  BY <1>1, <2>1, <2>2, <2>3
<1>11. RequestTurn(r)'
  BY <1>2, <1>9, <1>10 DEF RequestTurn, OnDisk, Happened
<1>12. QED  BY <1>4, <1>6, <1>11, TurnPrime

LEMMA TurnsInductive ==
  ASSUME ConversationsAssumption, TypeInv, RunInv, \A r \in Requests : StageInv(r),
         TurnInv, [Next]_vars
  PROVE  TurnInv'
<1>1. RunTypeOK
  BY TypeParts
<1>2. CASE Quiet
  <2>1. UNCHANGED <<store, sessions, asked, plan, reply, first>>
    BY <1>2 DEF Quiet, convVars
  <2>2. Grown
    BY <2>1, SessionsGrow DEF Replies
  <2>3. \A k \in DOMAIN store' : EntryLater(store'[k])
    BY <2>1, <2>2, EntryTurnsKept
  <2>4. \A q \in Requests : RequestTurn(q)'
    BY <2>1, <2>2, RequestTurnFrame DEF TurnInv
  <2>5. QED  BY <2>3, <2>4, TurnPrime
<1>3. ASSUME NEW r \in Requests, GiveUp(r) \/ RespondError(r)
      PROVE  TurnInv'
  <2>1. Finish(r) /\ UNCHANGED <<store, sessions, asked>>
    BY <1>3, Zenon DEF GiveUp, RespondError
  <2>2. Grown
    BY <2>1, SessionsGrow DEF Replies
  <2>3. \A k \in DOMAIN store' : EntryLater(store'[k])
    BY <2>1, <2>2, EntryTurnsKept
  <2>4. \A q \in Requests : RequestTurn(q)'
    BY <2>1, FinishTurns
  <2>5. QED  BY <2>3, <2>4, TurnPrime
<1>4. QED
  BY <1>1, <1>2, <1>3, EveryStepIsOneOf, PlanTurns, RunTurns, RespondTurns,
     AnswerTurns, Zenon

-----------------------------------------------------------------------------
(* Where nobody branches. *)

(* What was asked stays asked, so that a branch is never undone. *)
Onward ==
  /\ known \subseteq known'
  /\ \A q \in Requests : stage[q] # "idle" =>
       stage'[q] # "idle" /\ asked'[q] = asked[q]

AskedLater(key) == \E q \in Requests : stage'[q] # "idle" /\ asked'[q] = key

LEMMA OnwardKeeps ==
  ASSUME Onward
  PROVE  /\ Branches' = {} => Branches = {}
         /\ \A key : Asked(key) => AskedLater(key)
<1>1. Branches \subseteq Branches'
  <2>1. ASSUME NEW h \in known \ {<<>>}, NEW q \in Requests, NEW r \in Requests,
               q # r, stage[q] # "idle", stage[r] # "idle",
               asked[q].history = h, asked[r].history = h,
               asked[q].model = asked[r].model
        PROVE  h \in Branches'
    <3>1. /\ h \in known' \ {<<>>} /\ stage'[q] # "idle" /\ stage'[r] # "idle"
          /\ asked'[q] = asked[q] /\ asked'[r] = asked[r]
      BY <2>1 DEF Onward
    <3>2. QED  BY <2>1, <3>1 DEF Branches
  <2>2. QED  BY <2>1 DEF Branches
<1>2. ASSUME NEW key, Asked(key)  PROVE AskedLater(key)
  BY <1>2 DEF Asked, AskedLater, Onward
<1>3. QED  BY <1>1, <1>2

LEMMA OnwardFrame ==
  ASSUME TypeInv, known \subseteq known', UNCHANGED asked, NEW r \in Requests,
         \E v \in {"first", "retry", "done"} : stage' = [stage EXCEPT ![r] = v]
  PROVE  Onward
BY TypeParts DEF Onward, RequestTypes

(* What a request uses is as before, or it uses nothing any more. *)
Same(q) ==
  /\ Uses(q)' = Uses(q)
  /\ Due(q)' = Due(q)
  /\ Answered(q)' <=> Answered(q)

LEMMA SameFrame ==
  ASSUME NEW q, stage'[q] = stage[q], asked'[q] = asked[q],
         plan'[q] = plan[q], reply'[q] = reply[q], first'[q] = first[q]
  PROVE  Same(q)
BY Zenon DEF Same, Uses, Due, Answered, Turn

LEMMA UsesAreSessions ==
  ASSUME TypeInv, NEW q \in Requests
  PROVE  Uses(q) \in Sids \union {Fresh}
BY TypeParts DEF RequestTypes, Results, Uses, Turn

LEMMA SameKey ==
  ASSUME NEW a \in Keys, NEW b \in Keys, a.history = b.history, a.model = b.model
  PROVE  a = b
BY DEF Keys

LEMMA EntriesAreTyped ==
  ASSUME TypeInv, NEW i \in DOMAIN store
  PROVE  store[i].key \in Keys /\ store[i].sid \in Sids
<1>1. store \in Seq(Entries)
  BY StoreTypes DEF StoreOK
<1>2. store[i] \in Entries
  BY <1>1, LenProperties, ElementOfSeq
<1>3. QED  BY <1>2 DEF Entries

(* The steps that neither touch a session nor bring anything into the store. *)
LEMMA CalmSteps ==
  ASSUME Onward, UNCHANGED <<store, sessions>>,
         \A q \in Requests : Same(q) \/ Uses(q)' = Fresh,
         EntriesLead, UsesAreExact, UsesAreApart, AnsweredAreUnlisted
  PROVE  EntriesLead' /\ UsesAreExact' /\ UsesAreApart' /\ AnsweredAreUnlisted'
<1>1. \A key : Asked(key) => AskedLater(key)
  BY OnwardKeeps
<1>2. EntriesLead'
  <2>1. ASSUME NEW i \in DOMAIN store, OnDisk(store[i].sid)
        PROVE  \/ sessions[store[i].sid].held = store[i].key.history
               \/ AskedLater(store[i].key)
    BY <1>1, <2>1 DEF EntriesLead
  <2>2. QED  BY <2>1, Zenon DEF EntriesLead, OnDisk, Asked, AskedLater
<1>3. UsesAreExact'
  BY DEF UsesAreExact, Same, OnDisk
<1>4. UsesAreApart'
  BY DEF UsesAreApart, Same, OnDisk
<1>5. AnsweredAreUnlisted'
  <2>1. ASSUME NEW q \in Requests, Answered(q)', OnDisk(Uses(q))',
               NEW i \in DOMAIN store, store[i].sid = Uses(q)'
        PROVE  AskedLater(store[i].key)
    <3>1. Answered(q) /\ OnDisk(Uses(q)) /\ store[i].sid = Uses(q)
      BY <2>1 DEF Same, OnDisk
    <3>2. Asked(store[i].key)
      BY <3>1 DEF AnsweredAreUnlisted
    <3>3. QED  BY <1>1, <3>2
  <2>2. QED  BY <2>1, Zenon DEF AnsweredAreUnlisted, Asked, AskedLater
<1>6. QED  BY <1>2, <1>3, <1>4, <1>5

Linear == EntriesLead /\ UsesAreExact /\ UsesAreApart /\ AnsweredAreUnlisted

LEMMA FinishUses ==
  ASSUME TypeInv, NEW r \in Requests, Finish(r), UNCHANGED asked
  PROVE  /\ Uses(r)' = Fresh /\ ~Answered(r)'
         /\ \A q \in Requests : q # r => Same(q)
<1>0. RequestTypes
  BY TypeParts
<1>1. /\ stage' = [stage EXCEPT ![r] = "done"]
      /\ plan' = [plan EXCEPT ![r] = Fresh]
      /\ reply' = [reply EXCEPT ![r] = Silence]
      /\ first' = [first EXCEPT ![r] = Silence]
  BY Zenon DEF Finish
<1>2. stage'[r] = "done" /\ plan'[r] = Fresh
  BY <1>0, <1>1 DEF RequestTypes
<1>3. Uses(r)' = Fresh /\ ~Answered(r)'
  BY <1>2 DEF Uses, Answered
<1>4. ASSUME NEW q \in Requests, q # r  PROVE Same(q)
  <2>1. stage'[q] = stage[q] /\ asked'[q] = asked[q] /\ plan'[q] = plan[q]
        /\ reply'[q] = reply[q] /\ first'[q] = first[q]
    BY <1>0, <1>1, <1>4 DEF RequestTypes
  <2>2. QED  BY <2>1, SameFrame
<1>5. QED  BY <1>3, <1>4

LEMMA RunUses ==
  ASSUME ConversationsAssumption, TypeInv, NEW r \in Requests, StageInv(r),
         RunFirst(r) \/ RunRetry(r), NEW q \in Requests
  PROVE  Same(q) \/ Uses(q)' = Fresh
<1>0. RequestTypes
  BY TypeParts
<1>1. /\ UNCHANGED <<asked, plan>>
      /\ \/ /\ stage[r] = "planned" /\ stage' = [stage EXCEPT ![r] = "first"]
            /\ UNCHANGED <<reply, first>>
         \/ /\ stage[r] = "first" /\ stage' = [stage EXCEPT ![r] = "retry"]
            /\ first' = [first EXCEPT ![r] = reply[r]]
            /\ reply' = [reply EXCEPT ![r] = Silence]
  BY Zenon DEF RunFirst, RunRetry, MustRetry
<1>2. CASE q # r
  <2>1. stage'[q] = stage[q] /\ asked'[q] = asked[q] /\ plan'[q] = plan[q]
        /\ reply'[q] = reply[q] /\ first'[q] = first[q]
    BY <1>0, <1>1, <1>2 DEF RequestTypes
  <2>2. QED  BY <2>1, SameFrame
<1>3. CASE q = r /\ stage[r] = "planned"
  <2>1. stage'[r] = "first" /\ reply'[r] = reply[r] /\ reply[r].sid = Fresh
        /\ plan'[r] = plan[r] /\ asked'[r] = asked[r]
    BY <1>0, <1>1, <1>3 DEF RequestTypes, StageInv
  <2>2. QED  BY <1>3, <2>1 DEF Same, Uses, Due, Answered
<1>4. CASE q = r /\ stage[r] = "first"
  <2>1. stage'[r] = "retry" /\ first'[r] = reply[r] /\ asked'[r] = asked[r]
    BY <1>0, <1>1, <1>4 DEF RequestTypes
  <2>2. CASE reply[r].sid = Fresh
    BY <1>4, <2>1, <2>2 DEF Uses, Answered, Turn
  <2>3. CASE reply[r].sid # Fresh
    BY <1>4, <2>1, <2>3 DEF Same, Uses, Due, Answered, Turn
  <2>4. QED  BY <2>2, <2>3
<1>5. QED  BY <1>1, <1>2, <1>3, <1>4

(* A request that finds an entry is the first to go on with that history,  *)
(* so that the entry leads to it and nobody else is in the session. *)
LEMMA PlanLinear ==
  ASSUME ConversationsAssumption, TypeInv, \A q \in Requests : StageInv(q), TurnInv,
         NEW r \in Requests, NEW h \in known, NEW m \in Models, Plan(r, h, m),
         Branches' = {}, Linear
  PROVE  Linear'
<1> DEFINE key == [history |-> h, model |-> m]
<1>0. RequestTypes /\ ClientTypes
  BY TypeParts
<1>1. key \in Keys /\ key.history = h /\ key.model = m
  BY <1>0 DEF ClientTypes, Keys
<1>2. PICK sid :
        /\ Looks(r, key, sid)
        /\ stage[r] = "idle"
        /\ stage' = [stage EXCEPT ![r] = "planned"]
        /\ asked' = [asked EXCEPT ![r] = key]
        /\ plan' = [plan EXCEPT ![r] = sid]
        /\ UNCHANGED <<runVars, sessions, known, reply, first>>
  BY PlanEffect, Zenon
<1> HIDE DEF key
<1>3. /\ stage'[r] = "planned" /\ asked'[r] = key /\ plan'[r] = sid
      /\ reply'[r] = reply[r] /\ reply[r].sid = Fresh
  BY <1>0, <1>2 DEF RequestTypes, StageInv
<1>4. ASSUME NEW q \in Requests, q # r
      PROVE  /\ Same(q)
             /\ stage'[q] = stage[q] /\ asked'[q] = asked[q]
  <2>1. stage'[q] = stage[q] /\ asked'[q] = asked[q] /\ plan'[q] = plan[q]
        /\ reply'[q] = reply[q] /\ first'[q] = first[q]
    BY <1>0, <1>2, <1>4 DEF RequestTypes
  <2>2. QED  BY <2>1, SameFrame
<1>5. Uses(r)' = sid /\ Due(r)' = key.history /\ ~Answered(r)'
  BY <1>3 DEF Uses, Due, Answered
<1>6. \A k : Asked(k) => AskedLater(k)
  BY <1>2, <1>4 DEF Asked, AskedLater
<1>7. \A k \in DOMAIN store' : \E j \in DOMAIN store : store'[k] = store[j]
  BY <1>1, <1>2, LooksKeeps, Zenon DEF Reordered
<1>8. sid # Fresh => \E i \in DOMAIN store : /\ key.history # <<>>
                                            /\ store[i].key = key
                                            /\ store[i].sid = sid
  <2>1. Finds(key, sid)
    BY <1>1, <1>2, LooksKeeps, Zenon
  <2>2. QED  BY <2>1 DEF Finds
<1>9. sid # Fresh => ~Asked(key)
  <2>1. SUFFICES ASSUME sid # Fresh, NEW q \in Requests, stage[q] # "idle", asked[q] = key
                 PROVE  FALSE
    BY DEF Asked
  <2>2. q # r /\ stage'[q] # "idle" /\ asked'[q] = key
    BY <1>2, <1>4, <2>1
  <2>3. h \in known' \ {<<>>}
    BY <1>1, <1>2, <1>8, <2>1
  <2>4. h \in Branches'
    BY <1>1, <1>3, <2>2, <2>3 DEF Branches
  <2>5. QED  BY <2>4
<1>10. OnDisk(sid) => sessions[sid].held = key.history /\ sessions[sid].model = key.model
  <2>1. SUFFICES ASSUME OnDisk(sid)
                 PROVE  sessions[sid].held = key.history /\ sessions[sid].model = key.model
    OBVIOUS
  <2>2. sid # Fresh
    BY <2>1 DEF OnDisk
  <2>3. PICK i \in DOMAIN store : store[i].key = key /\ store[i].sid = sid
    BY <1>8, <2>2
  <2>4. sessions[sid].held = key.history
    BY <1>9, <2>1, <2>2, <2>3 DEF Linear, EntriesLead
  <2>5. sessions[sid].model = key.model
    BY <2>1, <2>3 DEF TurnInv, Happened
  <2>6. QED  BY <2>4, <2>5
<1>11. OnDisk(sid) => \A q \in Requests : q # r => Uses(q) # sid
  <2>1. SUFFICES ASSUME OnDisk(sid), NEW q \in Requests, q # r, Uses(q) = sid
                 PROVE  FALSE
    OBVIOUS
  <2>2. sid # Fresh /\ ~Asked(key)
    BY <1>9, <2>1 DEF OnDisk
  <2>3. PICK i \in DOMAIN store : store[i].key = key /\ store[i].sid = sid
    BY <1>8, <2>2
  <2>4. CASE Answered(q)
    BY <2>1, <2>2, <2>3, <2>4 DEF Linear, AnsweredAreUnlisted
  <2>5. CASE ~Answered(q)
    <3>1. plan[q] = sid
      BY <2>1, <2>5 DEF Uses
    <3>2. stage[q] # "idle"
      BY <2>2, <3>1 DEF StageInv
    <3>3. sessions[sid].held = asked[q].history
      BY <2>1, <2>5 DEF Linear, UsesAreExact, Due
    <3>4. sessions[sid].model = asked[q].model
      BY <2>1, <3>1 DEF TurnInv, RequestTurn
    <3>5. asked[q] \in Keys
      BY <1>0 DEF RequestTypes
    <3>6. asked[q] = key
      BY <1>1, <1>10, <2>1, <3>3, <3>4, <3>5 DEF Keys
    <3>7. QED  BY <2>2, <3>2, <3>6 DEF Asked
  <2>6. QED  BY <2>4, <2>5
<1>12. EntriesLead'
  <2>1. ASSUME NEW k \in DOMAIN store', OnDisk(store'[k].sid)
        PROVE  \/ sessions[store'[k].sid].held = store'[k].key.history
               \/ AskedLater(store'[k].key)
    BY <1>6, <1>7, <2>1 DEF Linear, EntriesLead
  <2>2. sessions' = sessions
    BY <1>2
  <2>3. QED  BY <2>1, <2>2, Zenon DEF EntriesLead, OnDisk, Asked, AskedLater
<1>13. UsesAreExact'
  BY <1>2, <1>4, <1>5, <1>10 DEF Linear, UsesAreExact, Same, OnDisk
<1>14. UsesAreApart'
  <2>1. ASSUME NEW p \in Requests, NEW q \in Requests, p # q, OnDisk(Uses(q)')
        PROVE  Uses(p)' # Uses(q)'
    <3>1. CASE q = r
      BY <1>4, <1>5, <1>11, <2>1, <3>1 DEF Same
    <3>2. CASE p = r
      BY <1>4, <1>5, <1>11, <2>1, <3>2 DEF Same, OnDisk
    <3>3. CASE p # r /\ q # r
      BY <1>4, <2>1, <3>3 DEF Same, Linear, UsesAreApart, OnDisk
    <3>4. QED  BY <3>1, <3>2, <3>3
  <2>2. sessions' = sessions
    BY <1>2
  <2>3. QED  BY <2>1, <2>2, Zenon DEF UsesAreApart, OnDisk
<1>15. AnsweredAreUnlisted'
  <2>1. ASSUME NEW q \in Requests, Answered(q)', OnDisk(Uses(q)'),
               NEW k \in DOMAIN store', store'[k].sid = Uses(q)'
        PROVE  AskedLater(store'[k].key)
    <3>1. q # r
      BY <1>5, <2>1
    <3>2. Answered(q) /\ OnDisk(Uses(q)) /\ store'[k].sid = Uses(q)
      BY <1>4, <2>1, <3>1 DEF Same, OnDisk
    <3>3. PICK j \in DOMAIN store : store'[k] = store[j]
      BY <1>7
    <3>4. Asked(store'[k].key)
      BY <3>2, <3>3 DEF Linear, AnsweredAreUnlisted
    <3>5. QED  BY <1>6, <3>4
  <2>2. sessions' = sessions
    BY <1>2
  <2>3. QED  BY <2>1, <2>2, Zenon DEF AnsweredAreUnlisted, OnDisk, Asked, AskedLater
<1>16. QED  BY <1>12, <1>13, <1>14, <1>15 DEF Linear

(* What a request records leads to the history it completed, in a session  *)
(* nobody else uses. *)
LEMMA RespondLinear ==
  ASSUME ConversationsAssumption, TypeInv, \A q \in Requests : StageInv(q),
         NEW r \in Requests, Respond(r), Onward, Linear
  PROVE  Linear'
<1> DEFINE c == Completion(r)
           next == Append(asked[r].history, c.text)
           key == [history |-> next, model |-> asked[r].model]
<1>0. RequestTypes /\ StoreOK(store)
  BY TypeParts, StoreTypes
<1>1. /\ \/ c = first[r] /\ stage[r] = "retry" /\ outcome[r] # "completion"
         \/ c = reply[r]
      /\ UNCHANGED store \/ PutInStore(key, c.sid)
      /\ Finish(r)
      /\ UNCHANGED <<sessions, asked>>
  BY RespondEffect, Zenon
<1> HIDE DEF c
<1>2. c \in Results /\ asked[r] \in Keys
  BY <1>0, <1>1 DEF RequestTypes
<1>3. c.text \in Replies /\ c.sid \in Sids \union {Fresh}
      /\ asked[r].history \in Seq(Replies) /\ asked[r].model \in Models
  BY <1>2 DEF Results, Keys
<1> HIDE DEF next
<1>4. next \in Seq(Replies)
  BY <1>3 DEF next
<1>5. key \in Keys /\ key.history = next
  BY <1>3, <1>4 DEF Keys
<1> HIDE DEF key
<1>6. /\ Uses(r)' = Fresh /\ ~Answered(r)'
      /\ \A q \in Requests : q # r => Same(q)
  BY <1>1, FinishUses
<1>7. \A k : Asked(k) => AskedLater(k)
  BY OnwardKeeps
<1>8. CASE UNCHANGED store
  <2>1. \A q \in Requests : Same(q) \/ Uses(q)' = Fresh
    BY <1>6
  <2>2. QED  BY <1>1, <1>8, <2>1, CalmSteps DEF Linear
<1>9. CASE PutInStore(key, c.sid)
  <2>1. c.sid \in Sids /\ Put(key, c.sid)
    BY <1>3, <1>9 DEF PutInStore
  <2>2. \A k \in DOMAIN store' :
          \/ store'[k].key = key /\ store'[k].sid = c.sid
          \/ \E j \in DOMAIN store : store'[k] = store[j]
    BY <1>5, <2>1, PutKeeps
  <2>3. OnDisk(c.sid) => Answered(r) /\ c = Turn(r)
    <3>1. StageInv(r) /\ stage[r] \in {"idle", "planned", "first", "retry", "done"}
      BY <1>0 DEF RequestTypes
    <3>2. QED  BY <1>1, <3>1 DEF Answered, Turn, StageInv, OnDisk
  <2>4. OnDisk(c.sid) => Uses(r) = c.sid /\ Due(r) = next
    BY <2>3 DEF Uses, Due, next
  <2>5. OnDisk(c.sid) => sessions[c.sid].held = next
    BY <2>4 DEF Linear, UsesAreExact
  <2>6. EntriesLead'
    <3>1. ASSUME NEW k \in DOMAIN store', OnDisk(store'[k].sid)
          PROVE  \/ sessions[store'[k].sid].held = store'[k].key.history
                 \/ AskedLater(store'[k].key)
      <4>1. CASE store'[k].key = key /\ store'[k].sid = c.sid
        BY <1>5, <2>5, <3>1, <4>1
      <4>2. CASE \E j \in DOMAIN store : store'[k] = store[j]
        BY <1>7, <3>1, <4>2 DEF Linear, EntriesLead
      <4>3. QED  BY <2>2, <4>1, <4>2
    <3>2. sessions' = sessions
      BY <1>1
    <3>3. QED  BY <3>1, <3>2, Zenon DEF EntriesLead, OnDisk, Asked, AskedLater
  <2>7. UsesAreExact'
    BY <1>1, <1>6 DEF Linear, UsesAreExact, Same, OnDisk
  <2>8. UsesAreApart'
    BY <1>1, <1>6 DEF Linear, UsesAreApart, Same, OnDisk
  <2>9. AnsweredAreUnlisted'
    <3>1. ASSUME NEW q \in Requests, Answered(q)', OnDisk(Uses(q)'),
                 NEW k \in DOMAIN store', store'[k].sid = Uses(q)'
          PROVE  AskedLater(store'[k].key)
      <4>1. q # r
        BY <1>6, <3>1
      <4>2. Answered(q) /\ OnDisk(Uses(q)) /\ store'[k].sid = Uses(q)
        BY <1>6, <3>1, <4>1 DEF Same, OnDisk
      <4>3. store'[k].sid # c.sid
        BY <2>4, <4>1, <4>2 DEF Linear, UsesAreApart
      <4>4. PICK j \in DOMAIN store : store'[k] = store[j]
        BY <2>2, <4>3
      <4>5. Asked(store'[k].key)
        BY <4>2, <4>4 DEF Linear, AnsweredAreUnlisted
      <4>6. QED  BY <1>7, <4>5
    <3>2. sessions' = sessions
      BY <1>1
    <3>3. QED  BY <3>1, <3>2, Zenon DEF AnsweredAreUnlisted, OnDisk, Asked, AskedLater
  <2>10. QED  BY <2>6, <2>7, <2>8, <2>9 DEF Linear
<1>10. QED  BY <1>1, <1>8, <1>9

(* An answer that comes in a session of its own, or in none to resume. *)
LEMMA MintLinear ==
  ASSUME TypeInv, Onward, UNCHANGED store, UNCHANGED sessions \/ \E s : Minted(s),
         NEW r \in Requests,
         \A q \in Requests : q # r => Same(q),
         \/ Same(r)
         \/ /\ Uses(r)' = Len(sessions) + 1
            /\ Minted([held |-> Due(r)', model |-> asked[r].model, disk |-> TRUE]),
         Linear
  PROVE  Linear'
<1>0. Fresh \notin Sids
  BY StoreTypes
<1>1. \A k : Asked(k) => AskedLater(k)
  BY OnwardKeeps
<1>2. \A s \in Sids : sessions'[s] = sessions[s]
  BY DEF Minted, Sids
<1>3. \A s \in Sids \union {Fresh} : OnDisk(s) <=> (s # Fresh /\ sessions'[s].disk)
  BY <1>2 DEF OnDisk
<1>4. \A q \in Requests : Uses(q) \in Sids \union {Fresh}
  BY UsesAreSessions
<1>5. \A i \in DOMAIN store : store[i].sid \in Sids
  BY EntriesAreTyped
<1>6. CASE Same(r)
  <2>1. \A q \in Requests : Same(q)
    BY <1>6
  <2>2. EntriesLead'
    <3>1. ASSUME NEW i \in DOMAIN store, sessions'[store[i].sid].disk
          PROVE  \/ sessions'[store[i].sid].held = store[i].key.history
                 \/ AskedLater(store[i].key)
      BY <1>0, <1>1, <1>2, <1>3, <1>5, <3>1 DEF Linear, EntriesLead
    <3>2. QED  BY <3>1, Zenon DEF EntriesLead, OnDisk, Asked, AskedLater
  <2>3. UsesAreExact'
    BY <1>2, <1>3, <1>4, <2>1 DEF Linear, UsesAreExact, Same, OnDisk
  <2>4. UsesAreApart'
    BY <1>3, <1>4, <2>1 DEF Linear, UsesAreApart, Same, OnDisk
  <2>5. AnsweredAreUnlisted'
    <3>1. ASSUME NEW q \in Requests, Answered(q)', OnDisk(Uses(q))',
                 NEW i \in DOMAIN store, store[i].sid = Uses(q)'
          PROVE  AskedLater(store[i].key)
      <4>1. Answered(q) /\ OnDisk(Uses(q)) /\ store[i].sid = Uses(q)
        BY <1>3, <1>4, <2>1, <3>1 DEF Same, OnDisk
      <4>2. QED  BY <1>1, <4>1 DEF Linear, AnsweredAreUnlisted
    <3>2. QED  BY <3>1, Zenon DEF AnsweredAreUnlisted, Asked, AskedLater
  <2>6. QED  BY <2>2, <2>3, <2>4, <2>5 DEF Linear
<1>7. CASE /\ Uses(r)' = Len(sessions) + 1
           /\ Minted([held |-> Due(r)', model |-> asked[r].model, disk |-> TRUE])
  <2> DEFINE n == Len(sessions) + 1
  <2>1. Uses(r)' = n /\ n \notin Sids /\ n # Fresh /\ sessions'[n].held = Due(r)'
    BY <1>7 DEF Minted, Sids
  <2> HIDE DEF n
  <2>2. \A q \in Requests : q # r => Same(q)
    OBVIOUS
  <2>3. EntriesLead'
    <3>1. ASSUME NEW i \in DOMAIN store, sessions'[store[i].sid].disk
          PROVE  \/ sessions'[store[i].sid].held = store[i].key.history
                 \/ AskedLater(store[i].key)
      BY <1>0, <1>1, <1>2, <1>3, <1>5, <3>1 DEF Linear, EntriesLead
    <3>2. QED  BY <3>1, Zenon DEF EntriesLead, OnDisk, Asked, AskedLater
  <2>4. UsesAreExact'
    <3>1. ASSUME NEW q \in Requests, OnDisk(Uses(q))'
          PROVE  sessions'[Uses(q)'].held = Due(q)'
      <4>1. CASE q = r
        BY <2>1, <4>1
      <4>2. CASE q # r
        BY <1>2, <1>3, <1>4, <2>2, <3>1, <4>2 DEF Linear, UsesAreExact, Same, OnDisk
      <4>3. QED  BY <4>1, <4>2
    <3>2. QED  BY <3>1, Zenon DEF UsesAreExact
  <2>5. UsesAreApart'
    <3>1. ASSUME NEW p \in Requests, NEW q \in Requests, p # q, OnDisk(Uses(q))'
          PROVE  Uses(p)' # Uses(q)'
      <4>1. CASE q = r \/ p = r
        BY <1>4, <2>1, <2>2, <3>1, <4>1 DEF Same
      <4>2. CASE q # r /\ p # r
        BY <1>3, <1>4, <2>2, <3>1, <4>2 DEF Linear, UsesAreApart, Same, OnDisk
      <4>3. QED  BY <4>1, <4>2
    <3>2. QED  BY <3>1, Zenon DEF UsesAreApart
  <2>6. AnsweredAreUnlisted'
    <3>1. ASSUME NEW q \in Requests, Answered(q)', OnDisk(Uses(q))',
                 NEW i \in DOMAIN store, store[i].sid = Uses(q)'
          PROVE  AskedLater(store[i].key)
      <4>1. q # r
        BY <1>5, <2>1, <3>1
      <4>2. Answered(q) /\ OnDisk(Uses(q)) /\ store[i].sid = Uses(q)
        BY <1>3, <1>4, <2>2, <3>1, <4>1 DEF Same, OnDisk
      <4>3. QED  BY <1>1, <4>2 DEF Linear, AnsweredAreUnlisted
    <3>2. QED  BY <3>1, Zenon DEF AnsweredAreUnlisted, Asked, AskedLater
  <2>7. QED  BY <2>3, <2>4, <2>5, <2>6 DEF Linear
<1>8. QED  BY <1>6, <1>7

LEMMA AnswerLinear ==
  ASSUME ConversationsAssumption, TypeInv, RunInv, TurnInv,
         NEW r \in Requests, StageInv(r), Answers(r, "answer") \/ Answers(r, "long"),
         Linear
  PROVE  Linear'
<1>0. RequestTypes /\ sessions \in Seq(Sessions) /\ Fresh \notin Sids
  BY TypeParts, StoreTypes
<1>1. PICK text \in Replies : Resumes(r, text) \/ Opens(r, text) \/ Passes(r, text)
  BY AnswerKinds
<1>2. UNCHANGED <<store, known, stage, asked, plan, first>>
  BY AnswerKinds
<1>3. Onward
  BY <1>2 DEF Onward
<1>4. \A k : Asked(k) => AskedLater(k)
  BY <1>3, OnwardKeeps
<1>5. PICK result : reply' = [reply EXCEPT ![r] = result]
  BY <1>1, Zenon DEF Resumes, Opens, Passes
<1>6. ASSUME NEW q \in Requests, q # r  PROVE Same(q)
  <2>1. reply'[q] = reply[q]
    BY <1>0, <1>5, <1>6 DEF RequestTypes
  <2>2. QED  BY <1>2, <2>1, SameFrame
<1>7. \A q \in Requests : Uses(q) \in Sids \union {Fresh}
  BY UsesAreSessions
<1>8. CASE Passes(r, text)
  <2>1. stage[r] = "retry" /\ (UNCHANGED sessions \/ \E s : Minted(s))
    BY <1>8, Zenon DEF Passes
  <2>2. Same(r)
    BY <1>2, <2>1 DEF Same, Uses, Due, Answered, Turn
  <2>3. QED  BY <1>2, <1>3, <1>6, <2>1, <2>2, MintLinear
<1>9. CASE Opens(r, text)
  <2> DEFINE n == Len(sessions) + 1
  <2>1. /\ reply'[r].text = text /\ reply'[r].sid = n
        /\ stage'[r] = "first" /\ n # Fresh
    BY <1>0, <1>2, <1>9 DEF Opens, Minted, RequestTypes
  <2>2. Uses(r)' = n /\ Due(r)' = Append(asked[r].history, text)
    BY <1>2, <2>1 DEF Uses, Due, Answered, Turn
  <2>3. Minted([held |-> Due(r)', model |-> asked[r].model, disk |-> TRUE])
    BY <1>9, <2>2, Zenon DEF Opens
  <2>4. QED  BY <1>2, <1>3, <1>6, <2>2, <2>3, MintLinear
<1>10. CASE Resumes(r, text)
  <2> DEFINE p == plan[r]
  <2>1. /\ stage[r] = "first" /\ reply[r].sid = Fresh /\ OnDisk(p) /\ p \in Sids
        /\ Continued(p, text)
        /\ reply'[r].text = text /\ reply'[r].sid = p
    BY <1>0, <1>10 DEF Resumes, RequestTypes
  <2>2. Uses(r) = p /\ Due(r) = asked[r].history
    BY <2>1 DEF Uses, Due, Answered
  <2>3. Uses(r)' = p /\ Due(r)' = Append(asked[r].history, text)
    BY <1>2, <2>1 DEF Uses, Due, Answered, Turn, OnDisk
  <2> HIDE DEF p
  <2>4. sessions[p].held = asked[r].history
    BY <2>1, <2>2 DEF Linear, UsesAreExact
  <2>5. /\ \A s \in Sids \union {Fresh} : OnDisk(s) <=> (s # Fresh /\ sessions'[s].disk)
        /\ \A s \in Sids : s # p => sessions'[s].held = sessions[s].held
        /\ sessions'[p].held = Append(asked[r].history, text)
    BY <2>1, <2>4 DEF OnDisk, Continued, Sids
  <2>6. ASSUME NEW i \in DOMAIN store, store[i].sid = p  PROVE Asked(store[i].key)
    <3>1. CASE sessions[p].held = store[i].key.history
      <4>1. sessions[p].model = store[i].key.model
        BY <2>1, <2>6 DEF TurnInv, Happened
      <4>2. sessions[p].model = asked[r].model
        BY <2>1 DEF TurnInv, RequestTurn, p
      <4>3. asked[r] \in Keys /\ store[i].key \in Keys
        BY <1>0, EntriesAreTyped DEF RequestTypes
      <4>4. asked[r] = store[i].key
        BY <2>4, <3>1, <4>1, <4>2, <4>3, SameKey
      <4>5. QED  BY <2>1, <4>4 DEF Asked
    <3>2. CASE sessions[p].held # store[i].key.history
      BY <2>1, <2>6, <3>2 DEF Linear, EntriesLead
    <3>3. QED  BY <3>1, <3>2
  <2>7. EntriesLead'
    <3>1. ASSUME NEW i \in DOMAIN store, sessions'[store[i].sid].disk
          PROVE  \/ sessions'[store[i].sid].held = store[i].key.history
                 \/ AskedLater(store[i].key)
      <4>1. store[i].sid \in Sids
        BY EntriesAreTyped
      <4>2. CASE store[i].sid = p
        BY <1>4, <2>6, <4>2
      <4>3. CASE store[i].sid # p
        BY <1>0, <1>4, <2>5, <3>1, <4>1, <4>3 DEF Linear, EntriesLead
      <4>4. QED  BY <4>2, <4>3
    <3>2. store' = store
      BY <1>2
    <3>3. QED  BY <3>1, <3>2, Zenon DEF EntriesLead, OnDisk, Asked, AskedLater
  <2>8. ASSUME NEW q \in Requests, q # r, OnDisk(Uses(q))'
        PROVE  /\ Uses(q)' = Uses(q) /\ Due(q)' = Due(q) /\ (Answered(q)' <=> Answered(q))
               /\ OnDisk(Uses(q)) /\ Uses(q) \in Sids /\ Uses(q) # p
    <3>1. Same(q)
      BY <1>6, <2>8
    <3>2. OnDisk(Uses(q)) /\ Uses(q) \in Sids
      BY <1>7, <2>5, <2>8, <3>1 DEF Same, OnDisk
    <3>3. Uses(q) # p
      BY <2>1, <2>2, <2>8 DEF Linear, UsesAreApart
    <3>4. QED  BY <3>1, <3>2, <3>3 DEF Same
  <2>9. UsesAreExact'
    <3>1. ASSUME NEW q \in Requests, OnDisk(Uses(q))'
          PROVE  sessions'[Uses(q)'].held = Due(q)'
      <4>1. CASE q = r
        BY <2>3, <2>5, <4>1
      <4>2. CASE q # r
        BY <2>5, <2>8, <3>1, <4>2 DEF Linear, UsesAreExact
      <4>3. QED  BY <4>1, <4>2
    <3>2. QED  BY <3>1, Zenon DEF UsesAreExact
  <2>10. UsesAreApart'
    <3>1. ASSUME NEW o \in Requests, NEW q \in Requests, o # q, OnDisk(Uses(q))'
          PROVE  Uses(o)' # Uses(q)'
      <4>1. Uses(o)' = Uses(o)
        BY <1>6, <2>2, <2>3 DEF Same
      <4>2. Uses(q)' = Uses(q)
        BY <1>6, <2>2, <2>3 DEF Same
      <4>3. OnDisk(Uses(q))
        BY <2>1, <2>2, <2>8, <3>1
      <4>4. QED  BY <3>1, <4>1, <4>2, <4>3 DEF Linear, UsesAreApart
    <3>2. QED  BY <3>1, Zenon DEF UsesAreApart
  <2>11. AnsweredAreUnlisted'
    <3>1. ASSUME NEW q \in Requests, Answered(q)', OnDisk(Uses(q))',
                 NEW i \in DOMAIN store, store[i].sid = Uses(q)'
          PROVE  AskedLater(store[i].key)
      <4>1. CASE q = r
        BY <1>4, <2>3, <2>6, <3>1, <4>1
      <4>2. CASE q # r
        BY <1>4, <2>8, <3>1, <4>2 DEF Linear, AnsweredAreUnlisted
      <4>3. QED  BY <4>1, <4>2
    <3>2. store' = store
      BY <1>2
    <3>3. QED  BY <3>1, <3>2, Zenon DEF AnsweredAreUnlisted, Asked, AskedLater
  <2>12. QED  BY <2>7, <2>9, <2>10, <2>11 DEF Linear
<1>11. QED  BY <1>1, <1>8, <1>9, <1>10

LEMMA LinearInductive ==
  ASSUME ConversationsAssumption, TypeInv, RunInv, \A q \in Requests : StageInv(q),
         TurnInv, LinearInv, [Next]_vars
  PROVE  LinearInv'
<1> SUFFICES ASSUME Branches' = {}  PROVE Linear'
  BY Zenon DEF LinearInv, Linear
<1>0. RunTypeOK /\ RequestTypes
  BY TypeParts
<1>1. Onward => Linear
  BY OnwardKeeps, Zenon DEF LinearInv, Linear
<1>2. CASE Quiet
  <2>1. UNCHANGED <<store, sessions, known, stage, asked, plan, reply, first>>
    BY <1>2 DEF Quiet, convVars
  <2>2. Onward
    BY <2>1 DEF Onward
  <2>3. \A q \in Requests : Same(q)
    BY <2>1, SameFrame
  <2>4. QED  BY <1>1, <2>1, <2>2, <2>3, CalmSteps DEF Linear
<1>3. ASSUME NEW r \in Requests, NEW h \in known, NEW m \in Models, Plan(r, h, m)
      PROVE  Linear'
  <2>1. /\ stage[r] = "idle" /\ stage' = [stage EXCEPT ![r] = "planned"]
        /\ known' = known
        /\ asked' = [asked EXCEPT ![r] = [history |-> h, model |-> m]]
    BY <1>3, Zenon DEF Plan
  <2>2. Onward
    BY <1>0, <2>1 DEF Onward, RequestTypes
  <2>3. QED  BY <1>1, <1>3, <2>2, PlanLinear
<1>4. ASSUME NEW r \in Requests, GiveUp(r) \/ RespondError(r)
      PROVE  Linear'
  <2>1. Finish(r) /\ UNCHANGED <<store, sessions, known, asked>>
    BY <1>4, Zenon DEF GiveUp, RespondError
  <2>2. Onward
    <3>1. \E v \in {"first", "retry", "done"} : stage' = [stage EXCEPT ![r] = v]
      BY <2>1 DEF Finish
    <3>2. QED  BY <2>1, <3>1, OnwardFrame
  <2>3. \A q \in Requests : Same(q) \/ Uses(q)' = Fresh
    BY <2>1, FinishUses
  <2>4. QED  BY <1>1, <2>1, <2>2, <2>3, CalmSteps DEF Linear
<1>5. ASSUME NEW r \in Requests, RunFirst(r) \/ RunRetry(r)
      PROVE  Linear'
  <2>1. UNCHANGED <<store, sessions, known, asked>>
    BY <1>5, Zenon DEF RunFirst, RunRetry
  <2>2. Onward
    <3>1. \E v \in {"first", "retry", "done"} : stage' = [stage EXCEPT ![r] = v]
      BY <1>5 DEF RunFirst, RunRetry
    <3>2. QED  BY <2>1, <3>1, OnwardFrame
  <2>3. \A q \in Requests : Same(q) \/ Uses(q)' = Fresh
    BY <1>5, RunUses
  <2>4. QED  BY <1>1, <2>1, <2>2, <2>3, CalmSteps DEF Linear
<1>6. ASSUME NEW r \in Requests, Respond(r)
      PROVE  Linear'
  <2>1. Finish(r) /\ UNCHANGED asked /\ known \subseteq known'
    <3>1. Finish(r) /\ UNCHANGED asked
          /\ known' = known \union {Append(asked[r].history, Completion(r).text)}
      BY <1>6, Zenon DEF Respond
    <3>2. QED  BY <3>1
  <2>2. Onward
    <3>1. \E v \in {"first", "retry", "done"} : stage' = [stage EXCEPT ![r] = v]
      BY <2>1 DEF Finish
    <3>2. QED  BY <2>1, <3>1, OnwardFrame
  <2>3. QED  BY <1>1, <1>6, <2>2, RespondLinear
<1>7. ASSUME NEW r \in Requests, Answers(r, "answer") \/ Answers(r, "long")
      PROVE  Linear'
  <2>1. UNCHANGED <<known, stage, asked>>
    BY <1>7, Zenon DEF Answers
  <2>2. Onward
    BY <2>1 DEF Onward
  <2>3. QED  BY <1>1, <1>7, <2>2, AnswerLinear
<1>8. QED
  BY <1>0, <1>2, <1>3, <1>4, <1>5, <1>6, <1>7, EveryStepIsOneOf, Zenon

-----------------------------------------------------------------------------
LEMMA InitIInv == ConversationsAssumption /\ Init => IInv
<1> SUFFICES ASSUME ConversationsAssumption, Init  PROVE IInv
  OBVIOUS
<1>1. RunInv
  BY DEF Init, RunInit, RunInv, RunTypeOK, LineInv, OutcomeInv, Lines
<1>2. /\ store = <<>> /\ sessions = <<>> /\ known = {<<>>}
      /\ stage = [r \in Requests |-> "idle"]
      /\ asked = [r \in Requests |-> Nothing]
      /\ plan = [r \in Requests |-> Fresh]
      /\ reply = [r \in Requests |-> Silence]
      /\ first = [r \in Requests |-> Silence]
  BY Zenon DEF Init
<1>3. DOMAIN store = {} /\ Len(store) = 0 /\ store \in Seq(Entries)
  BY <1>2
<1>4. InFlight = {}
  BY <1>2 DEF InFlight
<1>5. StoreType
  BY <1>3 DEF StoreType, StoreOK, ConversationsAssumption
<1>6. RequestTypes
  <2>1. Silence \in Results
    BY ConstantTypes DEF Results
  <2>2. Nothing \in Keys
    BY ConstantTypes
  <2>3. QED  BY <1>2, <2>1, <2>2 DEF RequestTypes
<1>7. ClientTypes
  BY <1>2 DEF ClientTypes
<1>8. SlotType
  BY <1>4, FS_EmptySet DEF SlotType, ConversationsAssumption
<1>9. TypeInv
  BY <1>1, <1>5, <1>6, <1>7, <1>8, TypeParts DEF RunInv
<1>10. ASSUME NEW r \in Requests
       PROVE  /\ stage[r] = "idle" /\ plan[r] = Fresh
              /\ reply[r].sid = Fresh /\ first[r].sid = Fresh
  BY <1>2, ConstantTypes
<1>11. \A r \in Requests : StageInv(r)
  BY <1>10 DEF StageInv
<1>12. TurnInv
  BY <1>3, <1>10 DEF TurnInv, RequestTurn, Happened, OnDisk
<1>13. \A r \in Requests : Uses(r) = Fresh
  BY <1>10 DEF Uses, Answered
<1>14. LinearInv
  BY <1>3, <1>13 DEF LinearInv, EntriesLead, UsesAreExact, UsesAreApart,
                     AnsweredAreUnlisted, OnDisk
<1>15. QED  BY <1>1, <1>9, <1>11, <1>12, <1>14 DEF IInv

LEMMA NextIInv == ConversationsAssumption /\ IInv /\ [Next]_vars => IInv'
<1> SUFFICES ASSUME ConversationsAssumption, IInv, [Next]_vars  PROVE IInv'
  OBVIOUS
<1>1. TypeInv /\ RunInv /\ (\A r \in Requests : StageInv(r)) /\ TurnInv /\ LinearInv
  BY Zenon DEF IInv
<1>2. RunInv'
  BY <1>1, RunInvInductive
<1>3. RunTypeOK'
  BY <1>2, Zenon DEF RunInv
<1>4. TypeInv'
  BY <1>1, <1>3, TypesInductive
<1>5. \A r \in Requests : StageInv(r)'
  BY <1>1, StagesInductive
<1>6. TurnInv'
  BY <1>1, TurnsInductive
<1>7. LinearInv'
  BY <1>1, LinearInductive
<1>8. QED  BY <1>2, <1>4, <1>5, <1>6, <1>7, Zenon DEF IInv

(* The inductive invariant holds of every run, for any requests, models,   *)
(* slots and bound of the store. *)
THEOREM Inductive == Spec => []IInv
BY InitIInv, NextIInv, ConversationsAssumption, PTL DEF Spec

(* The store never outgrows its bound nor holds a fingerprint twice, every *)
(* session anybody names exists, and no more requests run than there are   *)
(* slots. *)
THEOREM TypeCorrect == Spec => []TypeOK
<1>1. IInv => TypeOK
  BY DEF IInv, TypeInv
<1>2. QED  BY <1>1, Inductive, PTL

(* What is recorded happened: the last turn of a recorded history is in    *)
(* the session recorded with it, and that is of the recorded model, even   *)
(* where an answer was asked for twice and the second attempt failed. *)
THEOREM RecordedHappened == Spec => []RecordedTurnsHappened
<1>1. IInv => RecordedTurnsHappened
  <2>1. SUFFICES ASSUME IInv, NEW i \in DOMAIN store, sessions[store[i].sid].disk
                 PROVE  /\ sessions[store[i].sid].model = store[i].key.model
                        /\ Last(store[i].key.history) \in Range(sessions[store[i].sid].held)
    BY Zenon DEF RecordedTurnsHappened
  <2>2. store[i].sid # Fresh
    <3>1. store[i].sid \in Sids /\ Fresh \notin Sids
      BY <2>1, EntriesAreTyped, StoreTypes DEF IInv
    <3>2. QED  BY <3>1
  <2>3. QED  BY <2>1, <2>2 DEF IInv, TurnInv, Happened, OnDisk
<1>2. QED  BY <1>1, Inductive, PTL

(* Where nobody asks twice for the same turn, a session that is resumed    *)
(* holds the request's history, neither less nor more, and is of its       *)
(* model: the last message may be sent alone. *)
THEOREM LinearExact == Spec => []LinearResumesAreExact
<1>1. IInv => LinearResumesAreExact
  <2>1. SUFFICES ASSUME IInv, Branches = {}, NEW r \in Requests,
                        stage[r] = "planned", plan[r] # Fresh, sessions[plan[r]].disk
                 PROVE  /\ sessions[plan[r]].held = asked[r].history
                        /\ sessions[plan[r]].model = asked[r].model
    BY Zenon DEF LinearResumesAreExact
  <2>2. OnDisk(plan[r]) /\ Uses(r) = plan[r] /\ Due(r) = asked[r].history
    BY <2>1 DEF OnDisk, Uses, Due, Answered
  <2>3. UsesAreExact /\ RequestTurn(r)
    BY <2>1, Zenon DEF IInv, LinearInv, TurnInv
  <2>4. QED  BY <2>2, <2>3 DEF UsesAreExact, RequestTurn
<1>2. QED  BY <1>1, Inductive, PTL
=============================================================================
