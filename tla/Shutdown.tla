------------------------------ MODULE Shutdown ------------------------------
(***************************************************************************)
(* The life of a gateway process around its usage ledger: ListenAndServe   *)
(* and Shutdown in internal/gateway/server.go, and runServe in             *)
(* cmd/valyrium/main.go.                                                   *)
(*                                                                         *)
(* On a signal one goroutine runs Shutdown: it closes the listener, waits  *)
(* up to 30 s for the handlers, reaps the tool sessions and flushes the    *)
(* ledger.  But Serve returns as soon as the listener is closed, then      *)
(* ListenAndServe, then main, and with main the process ends.              *)
(*                                                                         *)
(* UsageStore is used as it is: its Record is the deferred end of a        *)
(* handler, its Close the end of Shutdown, its Crash the end of main.      *)
(* ShutdownProofs shows that every run of this module is one of            *)
(* UsageStore, so that what is proved there holds of the running gateway.  *)
(***************************************************************************)
EXTENDS UsageStore

CONSTANT Callers       (* HTTP requests that may be in flight at once *)

VARIABLES
  main,          (* gone, serving, or returned: Serve has *)
  signalled,     (* a signal is in sigChan, or was *)
  closing,       (* how far the goroutine with Shutdown is *)
  late,          (* the wait for the handlers ran into its 30 s *)
  handler,       (* each caller's handler *)
  parked         (* the callers whose tool session has a live CLI *)

serverVars == <<main, signalled, closing, late, handler, parked>>
allVars == <<vars, serverVars>>

Idle == [r \in Callers |-> "none"]
Drained == handler = Idle

ServerTypeOK ==
  /\ main \in {"gone", "serving", "returned"}
  /\ signalled \in BOOLEAN
  /\ closing \in {"asleep", "draining", "sessions", "usage", "flushing", "done"}
  /\ late \in BOOLEAN
  /\ handler \in [Callers -> {"none", "running", "answered"}]
  /\ parked \subseteq Callers
  /\ store = "down" => main = "gone"
  /\ main = "returned" => closing # "asleep"

ProcessInit ==
  /\ main = "gone"
  /\ signalled = FALSE
  /\ closing = "asleep"
  /\ late = FALSE
  /\ handler = Idle
  /\ parked = {}

ServerInit == Init /\ ProcessInit

(* What is left of it when the process ends, whichever way: nothing here.  *)
Ends ==
  /\ main' = "gone"
  /\ signalled' = FALSE
  /\ closing' = "asleep"
  /\ late' = FALSE
  /\ handler' = Idle
  /\ parked' = {}

-----------------------------------------------------------------------------
ServeAtOnce ==                     \* deviation: the store is not awaited
  /\ main = "gone"
  /\ main' = "serving"
  /\ UNCHANGED <<vars, signalled, closing, late, handler, parked>>

(* NewServer has opened the store; ListenAndServe. *)
Serve ==
  /\ main = "gone"
  /\ store \in {"enabled", "disabled"}
  /\ main' = "serving"
  /\ UNCHANGED <<vars, signalled, closing, late, handler, parked>>

Arrive(r) ==
  /\ main = "serving"
  /\ closing = "asleep"
  /\ handler[r] = "none"
  /\ handler' = [handler EXCEPT ![r] = "running"]
  /\ UNCHANGED <<vars, main, signalled, closing, late, parked>>

(* A handler starts a tool session, whose CLI outlives the handler.        *)
OpenSession(r) ==
  /\ handler[r] = "running"
  /\ parked' = parked \union {r}
  /\ UNCHANGED <<vars, main, signalled, closing, late, handler>>

ReapSession(r) ==
  /\ r \in parked
  /\ parked' = parked \ {r}
  /\ UNCHANGED <<vars, main, signalled, closing, late, handler>>

Answer(r) ==
  /\ handler[r] = "running"
  /\ handler' = [handler EXCEPT ![r] = "answered"]
  /\ UNCHANGED <<vars, main, signalled, closing, late, parked>>

(* The deferred function: usage is counted after the answer went out.      *)
Count(r, d, n) ==
  /\ handler[r] = "answered"
  /\ handler' = [handler EXCEPT ![r] = "none"]
  /\ Record(d, n) \/ (store = "disabled" /\ UNCHANGED vars)
  /\ UNCHANGED <<main, signalled, closing, late, parked>>

-----------------------------------------------------------------------------
(* The signal, and the goroutine that waits for it. *)
Signal ==
  /\ main # "gone"
  /\ signalled' = TRUE
  /\ UNCHANGED <<vars, main, closing, late, handler, parked>>

StopListening ==
  /\ main # "gone"
  /\ signalled
  /\ closing = "asleep"
  /\ closing' = "draining"
  /\ UNCHANGED <<vars, main, signalled, late, handler, parked>>

WaitForNobody ==                   \* deviation: Close instead of Shutdown
  /\ closing = "draining"
  /\ closing' = "sessions"
  /\ UNCHANGED <<vars, main, signalled, late, handler, parked>>

WaitForHandlers ==
  /\ closing = "draining"
  /\ Drained
  /\ closing' = "sessions"
  /\ UNCHANGED <<vars, main, signalled, late, handler, parked>>

WaitTimesOut ==
  /\ closing = "draining"
  /\ closing' = "sessions"
  /\ late' = TRUE
  /\ UNCHANGED <<vars, main, signalled, handler, parked>>

CloseSessions ==
  /\ closing = "sessions"
  /\ closing' = "usage"
  /\ parked' = {}
  /\ UNCHANGED <<vars, main, signalled, late, handler>>

CloseUsage ==
  /\ closing = "usage"
  /\ \/ Close /\ closing' = "flushing"
     \/ store = "disabled" /\ closing' = "done" /\ UNCHANGED vars
  /\ UNCHANGED <<main, signalled, late, handler, parked>>

UsageClosed ==
  /\ closing = "flushing"
  /\ step = "none"
  /\ closing' = "done"
  /\ UNCHANGED <<vars, main, signalled, late, handler, parked>>

(* Serve returns ErrServerClosed without waiting for Shutdown, and main    *)
(* waits for nothing else.                                                 *)
ReturnDrained ==                   \* deviation: in-flight requests are awaited
  /\ main = "serving"
  /\ closing # "asleep"
  /\ Drained
  /\ main' = "returned"
  /\ UNCHANGED <<vars, signalled, closing, late, handler, parked>>

ServeReturns ==
  /\ main = "serving"
  /\ closing # "asleep"
  /\ main' = "returned"
  /\ UNCHANGED <<vars, signalled, closing, late, handler, parked>>

Exit ==
  /\ main = "returned"
  /\ Crash
  /\ Ends

-----------------------------------------------------------------------------
InStore(A) == A /\ UNCHANGED serverVars

ServerNext ==
  \/ Serve \/ Signal \/ StopListening \/ WaitForHandlers \/ WaitTimesOut
  \/ CloseSessions \/ CloseUsage \/ UsageClosed \/ ServeReturns \/ Exit
  \/ \E r \in Callers : Arrive(r) \/ OpenSession(r) \/ ReapSession(r) \/ Answer(r)
  \/ \E r \in Callers, d \in Days, n \in Amounts : Count(r, d, n)
  \/ InStore(Open) \/ InStore(OpenFails)
  \/ InStore(CreateTemp) \/ InStore(WriteTemp) \/ InStore(SyncTemp)
  \/ InStore(CloseTemp) \/ InStore(Rename) \/ InStore(SaveFails)
  \/ InStore(Commit)
  \/ Crash /\ Ends
  \/ PowerFailure /\ Ends

(* The goroutines that end the process run; a handler need not: nothing    *)
(* bounds how long its client takes to read the answer.                    *)
ServerSpec ==
  /\ ServerInit /\ [][ServerNext]_allVars
  /\ WF_allVars(StopListening) /\ WF_allVars(ServeReturns) /\ WF_allVars(Exit)
-----------------------------------------------------------------------------
(* A signal ends the process, whatever its handlers do.                    *)
SignalEndsProcess == signalled ~> main = "gone"

(* A Shutdown that got to its end without its timeout leaves no session's  *)
(* CLI and no request uncounted: it drains before it reaps, and reaps and  *)
(* flushes only what nobody adds to any more.                              *)
ShutdownLeavesNothing ==
  closing = "done" /\ ~late =>
    /\ Drained
    /\ parked = {}
    /\ saved => Reads(file) = days

(* README.md, Graceful Shutdown: on a signal in-flight requests are allowed *)
(* to complete, then the process exits.                                     *)
InFlightRequestsComplete ==
  [][main = "returned" /\ main' = "gone" => Drained \/ late]_allVars
=============================================================================
