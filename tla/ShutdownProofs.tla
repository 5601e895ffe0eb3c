--------------------------- MODULE ShutdownProofs ---------------------------
(***************************************************************************)
(* What TLAPS proves of the gateway process, for any days, amounts and     *)
(* callers: it uses the ledger only through its operations, and a Shutdown *)
(* that ends without its timeout leaves nothing behind.                    *)
(*                                                                         *)
(* The second is inductive only with what each step of Shutdown has        *)
(* established so far (StepsDone), and with what keeps the store still     *)
(* meanwhile (Still): a store that is not enabled is not saving.           *)
(***************************************************************************)
EXTENDS Shutdown, UsageProofs

LEMMA ServerStep == ServerNext => [Next]_vars
<1> SUFFICES ASSUME ServerNext  PROVE [Next]_vars
  OBVIOUS
<1>1. CASE \/ Serve \/ Signal \/ StopListening \/ WaitForHandlers
           \/ WaitTimesOut \/ CloseSessions \/ UsageClosed \/ ServeReturns
  BY <1>1 DEF vars, Serve, Signal, StopListening, WaitForHandlers, WaitTimesOut,
              CloseSessions, UsageClosed, ServeReturns
<1>2. CASE CloseUsage
  BY <1>2 DEF CloseUsage, Next, vars
<1>3. CASE Exit
  BY <1>3 DEF Exit, Next
<1>4. CASE \E r \in Callers :
             Arrive(r) \/ OpenSession(r) \/ ReapSession(r) \/ Answer(r)
  BY <1>4 DEF vars, Arrive, OpenSession, ReapSession, Answer
<1>5. CASE \E r \in Callers, d \in Days, n \in Amounts : Count(r, d, n)
  BY <1>5 DEF Count, Next, vars
<1>6. CASE \/ InStore(Open) \/ InStore(OpenFails)
           \/ InStore(CreateTemp) \/ InStore(WriteTemp) \/ InStore(SyncTemp)
           \/ InStore(CloseTemp) \/ InStore(Rename) \/ InStore(SaveFails)
           \/ InStore(Commit)
  BY <1>6 DEF InStore, Next
<1>7. CASE (Crash /\ Ends) \/ (PowerFailure /\ Ends)
  BY <1>7 DEF Next
<1>8. QED  BY <1>1, <1>2, <1>3, <1>4, <1>5, <1>6, <1>7 DEF ServerNext

(* Handlers, Shutdown and main change the ledger in the ways UsageStore    *)
(* describes and in no other: handleChatCompletions counts with            *)
(* RecordUsage, Shutdown ends with Close, the process may end at any call. *)
THEOREM GatewayUsesTheStore == ServerSpec => Spec
<1>1. ServerInit => Init
  BY DEF ServerInit
<1>2. [ServerNext]_allVars => [Next]_vars
  BY ServerStep DEF allVars, vars
<1>3. QED  BY <1>1, <1>2, PTL DEF ServerSpec, Spec

(* In the running gateway, too, a save that worked leaves nothing recorded *)
(* behind, in whatever order requests end, Shutdown flushes and the        *)
(* process stops.                                                          *)
THEOREM GatewayCatchesUp == ServerSpec => []SaveCatchesUp
<1>1. QED  BY GatewayUsesTheStore, CatchesUp, PTL

(* Shutdown, and a process that ends before it is over, never leave the    *)
(* ledger unreadable.                                                      *)
THEOREM GatewayFileStaysReadable == ServerSpec => FileStaysReadable
<1>1. QED  BY GatewayUsesTheStore, StaysReadable, PTL

(* The gateway process, with its handlers and both ways to its end,        *)
(* implements the abstract ledger.                                         *)
THEOREM GatewayImplementsLedger == ServerSpec => LedgerKeepsItsPromise
<1>1. QED  BY GatewayUsesTheStore, StoreImplementsLedger, PTL
-----------------------------------------------------------------------------
Still ==
  /\ store \in {"down", "disabled"} => ~saved /\ step = "none"
  /\ main # "gone" => store \in {"enabled", "disabled"}
  /\ main = "gone" => closing = "asleep"

StepsDone ==
  ~late =>
    /\ closing \in {"sessions", "usage", "flushing", "done"} => Drained
    /\ closing \in {"usage", "flushing", "done"} => parked = {}
    /\ closing = "done" => step = "none"

LEMMA StillInductive == Still /\ [ServerNext]_allVars => Still'
<1> SUFFICES ASSUME Still, [ServerNext]_allVars  PROVE Still'
  OBVIOUS
<1>1. CASE \/ Serve \/ Signal \/ StopListening \/ WaitForHandlers
           \/ WaitTimesOut \/ CloseSessions \/ UsageClosed \/ ServeReturns
  BY <1>1 DEF vars, Still, Serve, Signal, StopListening, WaitForHandlers,
              WaitTimesOut, CloseSessions, UsageClosed, ServeReturns
<1>2. CASE CloseUsage
  BY <1>2 DEF vars, Still, CloseUsage, Close
<1>3. CASE Exit \/ (Crash /\ Ends) \/ (PowerFailure /\ Ends)
  BY <1>3 DEF Still, Exit, Crash, PowerFailure, Halt, Ends
<1>4. CASE \E r \in Callers :
             Arrive(r) \/ OpenSession(r) \/ ReapSession(r) \/ Answer(r)
  BY <1>4 DEF vars, Still, Arrive, OpenSession, ReapSession, Answer
<1>5. CASE \E r \in Callers, d \in Days, n \in Amounts : Count(r, d, n)
  BY <1>5 DEF vars, Still, Count, Record
<1>6. CASE InStore(Open) \/ InStore(OpenFails)
  BY <1>6 DEF serverVars, Still, InStore, Open, OpenFails
<1>7. CASE \/ InStore(CreateTemp) \/ InStore(WriteTemp) \/ InStore(SyncTemp)
           \/ InStore(CloseTemp) \/ InStore(Commit)
  BY <1>7 DEF serverVars, Still, InStore, CreateTemp, WriteTemp, SyncTemp,
              CloseTemp, Commit
<1>8. CASE InStore(Rename) \/ InStore(SaveFails)
  BY <1>8 DEF serverVars, Still, InStore, Rename, SaveFails, SaveEnds
<1>9. CASE UNCHANGED allVars
  BY <1>9 DEF allVars, vars, serverVars, Still
<1>10. QED
  BY <1>1, <1>2, <1>3, <1>4, <1>5, <1>6, <1>7, <1>8, <1>9 DEF ServerNext

LEMMA StepsDoneInductive ==
  Still /\ StepsDone /\ [ServerNext]_allVars => StepsDone'
<1> SUFFICES ASSUME Still, StepsDone, [ServerNext]_allVars
             PROVE  StepsDone'
  OBVIOUS
<1>1. CASE \/ Serve \/ Signal \/ StopListening \/ WaitForHandlers
           \/ WaitTimesOut \/ CloseSessions \/ UsageClosed \/ ServeReturns
  BY <1>1 DEF vars, StepsDone, Drained, Serve, Signal, StopListening,
              WaitForHandlers, WaitTimesOut, CloseSessions, UsageClosed,
              ServeReturns
<1>2. CASE CloseUsage
  BY <1>2 DEF vars, Still, StepsDone, Drained, CloseUsage, Close
<1>3. CASE Exit \/ (Crash /\ Ends) \/ (PowerFailure /\ Ends)
  BY <1>3 DEF StepsDone, Exit, Ends
<1>4. CASE \E r \in Callers :
             Arrive(r) \/ OpenSession(r) \/ ReapSession(r) \/ Answer(r)
  <2>1. PICK r \in Callers :
          Arrive(r) \/ OpenSession(r) \/ ReapSession(r) \/ Answer(r)
    BY <1>4
  <2>2. Drained => handler[r] = "none"
    BY DEF Drained, Idle
  <2>3. CASE Arrive(r)
    BY <2>3 DEF vars, StepsDone, Arrive
  <2>4. CASE OpenSession(r) \/ Answer(r)
    BY <2>2, <2>4 DEF vars, StepsDone, OpenSession, Answer
  <2>5. CASE ReapSession(r)
    BY <2>5 DEF vars, StepsDone, Drained, ReapSession
  <2>6. QED  BY <2>1, <2>3, <2>4, <2>5
<1>5. CASE \E r \in Callers, d \in Days, n \in Amounts : Count(r, d, n)
  <2>1. PICK r \in Callers, d \in Days, n \in Amounts : Count(r, d, n)
    BY <1>5
  <2>2. ~Drained
    BY <2>1 DEF Drained, Idle, Count
  <2>3. QED  BY <2>1, <2>2 DEF StepsDone, Count
<1>6. CASE InStore(Open) \/ InStore(OpenFails)
  BY <1>6 DEF serverVars, Still, StepsDone, Drained, InStore, Open, OpenFails
<1>7. CASE \/ InStore(CreateTemp) \/ InStore(WriteTemp) \/ InStore(SyncTemp)
           \/ InStore(CloseTemp) \/ InStore(Commit)
  BY <1>7 DEF serverVars, StepsDone, Drained, InStore, CreateTemp, WriteTemp,
              SyncTemp, CloseTemp, Commit
<1>8. CASE InStore(Rename) \/ InStore(SaveFails)
  BY <1>8 DEF serverVars, StepsDone, Drained, InStore, Rename, SaveFails,
              SaveEnds
<1>9. CASE UNCHANGED allVars
  BY <1>9 DEF allVars, vars, serverVars, StepsDone, Drained
<1>10. QED
  BY <1>1, <1>2, <1>3, <1>4, <1>5, <1>6, <1>7, <1>8, <1>9 DEF ServerNext

(* A Shutdown that got to its end before its timeout and before main let   *)
(* the process go has drained, reaped and flushed, in that order, and      *)
(* nothing came after it.                                                  *)
THEOREM NothingLeft == ServerSpec => []ShutdownLeavesNothing
<1>1. ServerInit => Still /\ StepsDone
  BY DEF ServerInit, Init, ProcessInit, Still, StepsDone
<1>2. Still /\ StepsDone /\ [ServerNext]_allVars => (Still /\ StepsDone)'
  BY StillInductive, StepsDoneInductive
<1>3. Still /\ StepsDone /\ SaveCatchesUp => ShutdownLeavesNothing
  BY DEF Still, StepsDone, SaveCatchesUp, ShutdownLeavesNothing
<1>4. QED  BY <1>1, <1>2, <1>3, GatewayCatchesUp, PTL DEF ServerSpec

LEMMA ServerTypeInductive ==
  ServerTypeOK /\ Still /\ [ServerNext]_allVars => ServerTypeOK'
<1> SUFFICES ASSUME ServerTypeOK, Still, Still', [ServerNext]_allVars
             PROVE  ServerTypeOK'
  BY StillInductive
<1> USE DEF ServerTypeOK
<1>0. store' = "down" => main' = "gone"
  BY DEF Still
<1>1. CASE \/ Serve \/ Signal \/ StopListening \/ WaitForHandlers
           \/ WaitTimesOut \/ CloseSessions \/ UsageClosed \/ ServeReturns
           \/ CloseUsage
  BY <1>0, <1>1 DEF Serve, Signal, StopListening, WaitForHandlers,
              WaitTimesOut, CloseSessions, UsageClosed, ServeReturns, CloseUsage
<1>2. CASE Exit \/ (Crash /\ Ends) \/ (PowerFailure /\ Ends)
  BY <1>0, <1>2 DEF Exit, Ends, Idle
<1>3. CASE \E r \in Callers :
             Arrive(r) \/ OpenSession(r) \/ ReapSession(r) \/ Answer(r)
  BY <1>0, <1>3 DEF Arrive, OpenSession, ReapSession, Answer
<1>4. CASE \E r \in Callers, d \in Days, n \in Amounts : Count(r, d, n)
  BY <1>0, <1>4 DEF Count
<1>5. CASE UNCHANGED serverVars
  BY <1>0, <1>5 DEF serverVars
<1>6. QED
  BY <1>1, <1>2, <1>3, <1>4, <1>5 DEF ServerNext, InStore, allVars

(* The process keeps its types for any number of callers; in particular it *)
(* runs only with its store opened, and main returns only once Shutdown    *)
(* has begun.                                                              *)
THEOREM ServerTypeCorrect == ServerSpec => []ServerTypeOK
<1>1. ServerInit => ServerTypeOK /\ Still
  BY DEF ServerInit, Init, ProcessInit, ServerTypeOK, Still, Idle
<1>2. ServerTypeOK /\ Still /\ [ServerNext]_allVars
        => (ServerTypeOK /\ Still)'
  BY ServerTypeInductive, StillInductive
<1>3. QED  BY <1>1, <1>2, PTL DEF ServerSpec
=============================================================================
