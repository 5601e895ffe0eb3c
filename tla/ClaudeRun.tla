------------------------------ MODULE ClaudeRun ------------------------------
(***************************************************************************)
(* One claude process per run: RunClaude in internal/gateway/claudecli.go. *)
(*                                                                         *)
(* The caller scans the process's output until its end, waits for the      *)
(* process, and only then decides what the run came to.  Meanwhile the     *)
(* deadline may pass, the client may leave, and the process may answer,    *)
(* report an error, die, or block: its standard error is a pipe nobody     *)
(* reads, and the scanner gives up on a line longer than 64 KiB.           *)
(*                                                                         *)
(* Of the output only the line that decides the outcome is kept; deltas,   *)
(* usage and cost are left out.  The process is external.  Runs are named  *)
(* after the request they serve, which has one run at a time.              *)
(***************************************************************************)
CONSTANT Requests

VARIABLES
  scan,          (* where RunClaude is *)
  cli,           (* the process *)
  line,          (* the deciding line while it is in the pipe *)
  said,          (* the deciding line the process wrote *)
  saw,           (* the deciding line RunClaude read *)
  ctx,           (* live, or what ended it first: late is the deadline *)
  outcome        (* what RunClaude returned: its completion or an error *)

runVars == <<scan, cli, line, said, saw, ctx, outcome>>

Lines == {"nothing", "answer", "error", "long"}

RunTypeOK ==
  /\ scan \in [Requests -> {"idle", "reading", "waiting", "returned"}]
  /\ cli \in [Requests -> {"none", "working", "wrote", "stuck", "ended"}]
  /\ line \in [Requests -> Lines]
  /\ said \in [Requests -> Lines]
  /\ saw \in [Requests -> {"nothing", "answer", "error"}]
  /\ ctx \in [Requests -> {"live", "late", "gone"}]
  /\ outcome \in [Requests -> {"none", "completion", "failed", "timeout"}]
  /\ \A r \in Requests : line[r] \in {"nothing", said[r]}

RunInit ==
  /\ scan = [r \in Requests |-> "idle"]
  /\ cli = [r \in Requests |-> "none"]
  /\ line = [r \in Requests |-> "nothing"]
  /\ said = [r \in Requests |-> "nothing"]
  /\ saw = [r \in Requests |-> "nothing"]
  /\ ctx = [r \in Requests |-> "live"]
  /\ outcome = [r \in Requests |-> "none"]

-----------------------------------------------------------------------------
(* RunClaude.  Starting the process fails when the client has left.        *)

StartRun(r) ==
  /\ scan[r] \in {"idle", "returned"}
  /\ line' = [line EXCEPT ![r] = "nothing"]
  /\ said' = [said EXCEPT ![r] = "nothing"]
  /\ saw' = [saw EXCEPT ![r] = "nothing"]
  /\ \/ /\ ctx[r] = "live"
        /\ scan' = [scan EXCEPT ![r] = "reading"]
        /\ cli' = [cli EXCEPT ![r] = "working"]
        /\ outcome' = [outcome EXCEPT ![r] = "none"]
     \/ /\ ctx[r] = "gone"
        /\ scan' = [scan EXCEPT ![r] = "returned"]
        /\ cli' = [cli EXCEPT ![r] = "ended"]
        /\ outcome' = [outcome EXCEPT ![r] = "failed"]
  /\ UNCHANGED ctx

(* The scanner goes on after an answer, and stops at a reported error and  *)
(* at a line it has no room for.                                           *)
ReadLine(r) ==
  /\ scan[r] = "reading"
  /\ line[r] # "nothing"
  /\ line' = [line EXCEPT ![r] = "nothing"]
  /\ saw' = [saw EXCEPT ![r] = IF line[r] = "long" THEN @ ELSE line[r]]
  /\ scan' = [scan EXCEPT ![r] = IF line[r] = "answer" THEN @ ELSE "waiting"]
  /\ UNCHANGED <<cli, said, ctx, outcome>>

StopAtKill(r) ==                    \* deviation: what is in the pipe is lost
  /\ scan[r] = "reading"
  /\ cli[r] = "ended"
  /\ scan' = [scan EXCEPT ![r] = "waiting"]
  /\ UNCHANGED <<cli, line, said, saw, ctx, outcome>>

ReadEOF(r) ==
  /\ scan[r] = "reading"
  /\ line[r] = "nothing"
  /\ cli[r] = "ended"
  /\ scan' = [scan EXCEPT ![r] = "waiting"]
  /\ UNCHANGED <<cli, line, said, saw, ctx, outcome>>

(* A reported error outranks the deadline, the deadline outranks an answer. *)
Verdict(r) ==
  CASE saw[r] = "error" -> "failed"
    [] saw[r] # "error" /\ ctx[r] = "late" -> "timeout"
    [] saw[r] = "nothing" /\ ctx[r] # "late" -> "failed"
    [] saw[r] = "answer" /\ ctx[r] # "late" -> "completion"

Return(r) ==
  /\ scan[r] = "waiting"
  /\ cli[r] = "ended"
  /\ outcome' = [outcome EXCEPT ![r] = Verdict(r)]
  /\ scan' = [scan EXCEPT ![r] = "returned"]
  /\ UNCHANGED <<cli, line, said, saw, ctx>>

(* The context's end: the deadline of this run, or the client's leaving.    *)
Deadline(r) ==
  /\ scan[r] \in {"reading", "waiting"}
  /\ ctx[r] = "live"
  /\ ctx' = [ctx EXCEPT ![r] = "late"]
  /\ UNCHANGED <<scan, cli, line, said, saw, outcome>>

Leave(r) ==
  /\ ctx[r] = "live"
  /\ ctx' = [ctx EXCEPT ![r] = "gone"]
  /\ UNCHANGED <<scan, cli, line, said, saw, outcome>>

(* exec.CommandContext, and the goroutine that waits for the deadline.     *)
Alive(r) == cli[r] \in {"working", "wrote", "stuck"}

KillReading(r) ==                   \* deviation: not while waiting
  /\ ctx[r] # "live"
  /\ Alive(r)
  /\ scan[r] = "reading"
  /\ cli' = [cli EXCEPT ![r] = "ended"]
  /\ UNCHANGED <<scan, line, said, saw, ctx, outcome>>

Kill(r) ==
  /\ ctx[r] # "live"
  /\ Alive(r)
  /\ cli' = [cli EXCEPT ![r] = "ended"]
  /\ UNCHANGED <<scan, line, said, saw, ctx, outcome>>

(* The handler is done with the run, whose variables were local to it. *)
Forget(r) ==
  /\ scan' = [scan EXCEPT ![r] = "idle"]
  /\ cli' = [cli EXCEPT ![r] = "none"]
  /\ line' = [line EXCEPT ![r] = "nothing"]
  /\ said' = [said EXCEPT ![r] = "nothing"]
  /\ saw' = [saw EXCEPT ![r] = "nothing"]
  /\ ctx' = [ctx EXCEPT ![r] = "live"]
  /\ outcome' = [outcome EXCEPT ![r] = "none"]

-----------------------------------------------------------------------------
(* The process (external).  After a long line the rest of it may not fit   *)
(* the pipe, and its standard error may be full at any time.               *)

Writes(r, l) ==
  /\ cli[r] = "working"
  /\ line' = [line EXCEPT ![r] = l]
  /\ said' = [said EXCEPT ![r] = l]
  /\ \E after \in IF l = "long" THEN {"wrote", "stuck"} ELSE {"wrote"} :
       cli' = [cli EXCEPT ![r] = after]
  /\ UNCHANGED <<scan, saw, ctx, outcome>>

Blocks(r) ==
  /\ cli[r] = "working"
  /\ cli' = [cli EXCEPT ![r] = "stuck"]
  /\ UNCHANGED <<scan, line, said, saw, ctx, outcome>>

Exits(r) ==
  /\ cli[r] \in {"working", "wrote"}
  /\ cli' = [cli EXCEPT ![r] = "ended"]
  /\ UNCHANGED <<scan, line, said, saw, ctx, outcome>>

-----------------------------------------------------------------------------
(* RunClaude returns what the process said: an answer that was written is   *)
(* neither lost, whoever killed the process after it and wherever it was   *)
(* in the pipe, nor is one returned that was not written; only the         *)
(* deadline takes an answer back, and a line too long counts as none.      *)
OutcomeIsWhatWasSaid ==
  \A r \in Requests : scan[r] = "returned" =>
    (outcome[r] = "completion" <=> said[r] = "answer" /\ ctx[r] # "late")

(* Every run returns, and with it its slot, even if the process blocks on   *)
(* a pipe nobody reads while RunClaude already waits for it: the deadline  *)
(* ends both.                                                              *)
RunsEnd ==
  \A r \in Requests : scan[r] \in {"reading", "waiting"} ~> scan[r] = "returned"
=============================================================================
