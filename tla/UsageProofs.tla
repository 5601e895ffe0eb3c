----------------------------- MODULE UsageProofs -----------------------------
(***************************************************************************)
(* What TLAPS proves of the usage ledger, for any set of days, any amounts *)
(* and any bound: its types, that the file stays readable, and that the    *)
(* store implements Ledger.tla.                                            *)
(*                                                                         *)
(* The argument is a chain of ledgers, each at most the next one: what is  *)
(* committed, what the file says, what the gateway has (Chain).  A rename  *)
(* keeps the chain because the temporary file holds exactly the gateway's  *)
(* days (TempInv), and a power failure because everything that was ever    *)
(* renamed had been synced (Synced).                                       *)
(***************************************************************************)
EXTENDS UsageStore, TLAPS

Running == store \in {"opening", "enabled"}
AtMost(a, b) == \A d \in Days : a[d] <= b[d]

Chain ==
  /\ AtMost(Reads(committed), Reads(file))
  /\ Running => AtMost(Reads(file), days)

TempInv ==
  /\ step \in {"sync", "close", "rename"} => temp.whole /\ temp.days = days
  /\ step \in {"close", "rename"} => temp.synced

Synced ==
  /\ file.synced /\ committed.synced
  /\ file.kind = "damaged" <=> committed.kind = "damaged"

StoreInv ==
  /\ step # "none" => Running
  /\ file.kind = "damaged" => ~Running

IInv == TypeOK /\ Chain /\ TempInv /\ Synced /\ StoreInv /\ SaveCatchesUp

-----------------------------------------------------------------------------
LEMMA ReadsIsTotals ==
  ASSUME NEW f \in Files
  PROVE  Reads(f) \in [Days -> Nat]
BY DEF Files, Reads, Zero

LEMMA AtMostReflexive ==
  ASSUME NEW a \in [Days -> Nat]
  PROVE  AtMost(a, a)
BY DEF AtMost

LEMMA AtMostTransitive ==
  ASSUME NEW a \in [Days -> Nat], NEW b \in [Days -> Nat], NEW c \in [Days -> Nat],
         AtMost(a, b), AtMost(b, c)
  PROVE  AtMost(a, c)
<1> SUFFICES ASSUME NEW d \in Days PROVE a[d] <= c[d]
  BY DEF AtMost
<1>1. a[d] <= b[d] /\ b[d] <= c[d] /\ a[d] \in Nat /\ b[d] \in Nat /\ c[d] \in Nat
  BY DEF AtMost
<1>2. QED  BY <1>1

LEMMA Initially == Init => IInv
<1> SUFFICES ASSUME Init PROVE IInv
  OBVIOUS
<1>1. TypeOK
  <2>1. Zero \in [Days -> Nat]
    BY DEF Zero
  <2>2. file \in Files /\ committed \in Files
    BY <2>1 DEF Init, Files
  <2>3. NoTemp \in [days : [Days -> Nat], whole : BOOLEAN, synced : BOOLEAN]
    BY <2>1 DEF NoTemp
  <2>4. QED  BY <2>1, <2>2, <2>3 DEF Init, TypeOK
<1>2. Chain
  <2>1. Reads(file) \in [Days -> Nat]
    BY <1>1, ReadsIsTotals DEF TypeOK
  <2>2. AtMost(Reads(file), Reads(file))
    BY <2>1, AtMostReflexive
  <2>3. QED  BY <2>2 DEF Init, Chain, Running
<1>3. TempInv /\ Synced /\ StoreInv /\ SaveCatchesUp
  BY DEF Init, TempInv, Synced, StoreInv, Running, SaveCatchesUp
<1>4. QED  BY <1>1, <1>2, <1>3 DEF IInv

-----------------------------------------------------------------------------
LEMMA OpenKeeps ==
  ASSUME IInv, Open \/ OpenFails
  PROVE  IInv'
<1> USE DEF IInv
<1>1. Reads(file) \in [Days -> Nat]
  BY ReadsIsTotals DEF TypeOK
<1>2. AtMost(Reads(file), Reads(file))
  BY <1>1 DEF AtMost
<1>3. CASE Open
  BY <1>1, <1>2, <1>3 DEF Open, TypeOK, Files, Chain, TempInv, Synced, StoreInv,
     SaveCatchesUp, Running, Reads, AtMost
<1>4. CASE OpenFails
  BY <1>4 DEF OpenFails, TypeOK, Chain, TempInv, Synced, StoreInv,
     SaveCatchesUp, Running, Reads
<1>5. QED  BY <1>3, <1>4

LEMMA RecordKeeps ==
  ASSUME IInv, NEW d \in Days, NEW n \in Amounts, Record(d, n)
  PROVE  IInv'
<1> USE DEF IInv
<1>1. /\ days \in [Days -> Nat]
      /\ n \in Nat
      /\ Reads(file) \in [Days -> Nat]
  BY ReadsIsTotals, AmountsAssumption DEF TypeOK
<1>2. days' \in [Days -> Nat] /\ \A e \in Days : days[e] <= days'[e]
  BY <1>1 DEF Record
<1>3. AtMost(Reads(file)', days')
  <2>1. AtMost(Reads(file), days)
    BY DEF Chain, Running, Record
  <2>2. Reads(file)' = Reads(file)
    BY DEF Record, Reads, Zero
  <2>3. QED  BY <1>1, <1>2, <2>1, <2>2 DEF AtMost
<1>4. QED
  BY <1>2, <1>3 DEF Record, TypeOK, Chain, TempInv, Synced, StoreInv,
     SaveCatchesUp, Running, Reads, AtMost

LEMMA SaveKeeps ==
  ASSUME IInv, Close \/ CreateTemp \/ WriteTemp \/ SyncTemp \/ CloseTemp
  PROVE  IInv'
<1> USE DEF IInv, TypeOK, Chain, TempInv, Synced, StoreInv, SaveCatchesUp,
        Running, Reads, AtMost, Zero
<1>1. CASE Close
  BY <1>1 DEF Close
<1>2. CASE CreateTemp
  BY <1>2 DEF CreateTemp, NoTemp
<1>3. CASE WriteTemp
  BY <1>3 DEF WriteTemp
<1>4. CASE SyncTemp
  BY <1>4 DEF SyncTemp
<1>5. CASE CloseTemp
  BY <1>5 DEF CloseTemp
<1>6. QED  BY <1>1, <1>2, <1>3, <1>4, <1>5

LEMMA RenameKeeps ==
  ASSUME IInv, Rename
  PROVE  IInv'
<1> USE DEF IInv, Rename, SaveEnds
<1>1. /\ Running /\ temp.whole /\ temp.synced /\ temp.days = days
      /\ file.kind # "damaged"
  BY DEF StoreInv, TempInv
<1>2. /\ file' = [kind |-> "ledger", days |-> days, synced |-> TRUE]
      /\ committed' = committed /\ days' = days
  BY <1>1
<1>3. TypeOK'
  BY <1>2 DEF TypeOK, Files, NoTemp, Zero
<1>4. Reads(file)' = days /\ Reads(committed)' = Reads(committed)
  BY <1>2 DEF Reads, Zero
<1>5. Chain'
  <2>1. /\ Reads(committed) \in [Days -> Nat] /\ Reads(file) \in [Days -> Nat]
        /\ days \in [Days -> Nat]
    BY ReadsIsTotals DEF TypeOK
  <2>2. AtMost(Reads(committed), days) /\ AtMost(days, days)
    BY <1>1, <2>1, AtMostReflexive, AtMostTransitive DEF Chain
  <2>3. QED  BY <1>2, <1>4, <2>2 DEF Chain
<1>6. TempInv' /\ Synced' /\ StoreInv' /\ SaveCatchesUp'
  BY <1>1, <1>2, <1>4 DEF TempInv, Synced, StoreInv, SaveCatchesUp, Running
<1>7. QED  BY <1>3, <1>5, <1>6

LEMMA SaveFailsKeeps ==
  ASSUME IInv, SaveFails
  PROVE  IInv'
BY DEF IInv, SaveFails, SaveEnds, TypeOK, NoTemp, Zero, Chain, TempInv, Synced,
   StoreInv, SaveCatchesUp, Running, Reads, AtMost

LEMMA WorldKeeps ==
  ASSUME IInv, Crash \/ Commit \/ PowerFailure
  PROVE  IInv'
<1> USE DEF IInv
<1>1. CASE Crash
  BY <1>1 DEF Crash, Halt, TypeOK, NoTemp, Zero, Chain, TempInv, Synced,
     StoreInv, SaveCatchesUp, Running, Reads, AtMost
<1>2. CASE Commit
  <2>1. Reads(file) \in [Days -> Nat]
    BY ReadsIsTotals DEF TypeOK
  <2>2. AtMost(Reads(file), Reads(file))
    BY <2>1 DEF AtMost
  <2>3. Reads(file)' = Reads(file) /\ Reads(committed)' = Reads(file)
    BY <1>2 DEF Commit, Reads, Zero
  <2>4. QED
    BY <1>2, <2>2, <2>3 DEF Commit, TypeOK, Chain, TempInv, Synced, StoreInv,
       SaveCatchesUp, Running, AtMost
<1>3. CASE PowerFailure
  <2>1. file' = committed /\ committed' = committed
    BY <1>3 DEF PowerFailure, Survivor, Synced
  <2>2. Reads(committed) \in [Days -> Nat]
    BY ReadsIsTotals DEF TypeOK
  <2>3. Reads(file)' = Reads(committed) /\ Reads(committed)' = Reads(committed)
    BY <2>1 DEF Reads, Zero
  <2>4. TypeOK'
    BY <1>3, <2>1 DEF PowerFailure, Halt, TypeOK, NoTemp, Zero
  <2>5. AtMost(Reads(file)', Reads(file)')
    BY <2>2, <2>3 DEF AtMost
  <2>6. Chain'
    BY <1>3, <2>3, <2>5 DEF PowerFailure, Halt, Chain, Running
  <2>7. Synced'
    BY <2>1 DEF Synced
  <2>8. TempInv' /\ StoreInv' /\ SaveCatchesUp'
    BY <1>3 DEF PowerFailure, Halt, TempInv, StoreInv, SaveCatchesUp, Running
  <2>9. QED  BY <2>4, <2>6, <2>7, <2>8
<1>4. QED  BY <1>1, <1>2, <1>3

LEMMA Inductive == IInv /\ [Next]_vars => IInv'
<1> SUFFICES ASSUME IInv, [Next]_vars PROVE IInv'
  OBVIOUS
<1>1. CASE UNCHANGED vars
  BY <1>1 DEF vars, IInv, TypeOK, Chain, TempInv, Synced, StoreInv,
     SaveCatchesUp, Running, Reads, AtMost
<1>2. QED
  BY <1>1, OpenKeeps, RecordKeeps, SaveKeeps, RenameKeeps, SaveFailsKeeps,
     WorldKeeps DEF Next

THEOREM InvariantHolds == Spec => []IInv
<1>1. QED  BY Initially, Inductive, PTL DEF Spec

(* Types: the store, the temporary file and both views of the ledger file. *)
THEOREM TypeCorrect == Spec => []TypeOK
<1>1. IInv => TypeOK
  BY DEF IInv
<1>2. QED  BY <1>1, InvariantHolds, PTL

(* A save that worked wrote everything recorded so far (usage.go:164-187). *)
THEOREM CatchesUp == Spec => []SaveCatchesUp
<1>1. IInv => SaveCatchesUp
  BY DEF IInv
<1>2. QED  BY <1>1, InvariantHolds, PTL

-----------------------------------------------------------------------------
(* Readability: the file is damaged after a step only if it was before     *)
(* (usage.go:110-113).                                                     *)
THEOREM StaysReadable == Spec => FileStaysReadable
<1>1. ASSUME IInv, [Next]_vars
      PROVE  [file.kind = "damaged" <=> file'.kind = "damaged"]_vars
  <2>1. file' = file \/ Rename \/ PowerFailure
    BY <1>1 DEF Next, vars, Open, OpenFails, Close, Record, CreateTemp, WriteTemp,
       SyncTemp, CloseTemp, SaveFails, Crash, Commit
  <2>2. CASE Rename
    <3>1. file.kind # "damaged" /\ temp.whole
      BY <1>1, <2>2 DEF Rename, IInv, StoreInv, TempInv
    <3>2. file'.kind = "ledger"
      BY <2>2, <3>1 DEF Rename
    <3>3. QED  BY <3>1, <3>2
  <2>3. CASE PowerFailure
    <3>1. file' = committed
      BY <1>1, <2>3 DEF PowerFailure, Survivor, IInv, Synced
    <3>2. QED  BY <1>1, <3>1 DEF IInv, Synced
  <2>4. QED  BY <2>1, <2>2, <2>3
<1>2. QED
  BY <1>1, InvariantHolds, PTL DEF Spec, FileStaysReadable

-----------------------------------------------------------------------------
(* Refinement. *)
LEMMA InitPromised == Init => Promise!Init
<1> SUFFICES ASSUME Init PROVE Promise!Init
  OBVIOUS
<1>1. Reads(committed) \in [Days -> Nat] /\ file = committed /\ store = "down"
  BY ReadsIsTotals, Initially DEF Init, IInv, TypeOK
<1>2. QED
  BY <1>1 DEF Promise!Init, Promise!Totals

(* What the store has, as Promise sees it. *)
Total == IF store \in {"opening", "enabled"} THEN days ELSE Reads(file)

Ordered ==
  /\ Total \in [Days -> Nat] /\ Reads(committed) \in [Days -> Nat]
  /\ AtMost(Reads(committed), Total)
  /\ AtMost(Reads(committed), Reads(file)) /\ AtMost(Reads(file), Total)

LEMMA TotalInOrder == IInv => Ordered
<1> SUFFICES ASSUME IInv PROVE Ordered
  OBVIOUS
<1>1. /\ Reads(committed) \in [Days -> Nat] /\ Reads(file) \in [Days -> Nat]
      /\ days \in [Days -> Nat]
  BY ReadsIsTotals DEF IInv, TypeOK
<1>2. AtMost(Reads(committed), Reads(file)) /\ AtMost(Reads(file), Total)
  BY <1>1, AtMostReflexive DEF IInv, Chain, Running, Total
<1>3. Total \in [Days -> Nat]
  BY <1>1 DEF Total
<1>4. AtMost(Reads(committed), Total)
  BY <1>1, <1>2, <1>3, AtMostTransitive
<1>5. QED  BY <1>1, <1>2, <1>3, <1>4 DEF Ordered

(* A step that takes nothing away that was kept is a stop or a stutter. *)
LEMMA StopPromised ==
  ASSUME IInv, IInv', Reads(committed)' = Reads(committed), AtMost(Total', Total)
  PROVE  Promise!Stop
<1>1. /\ Total' \in [Days -> Nat]
      /\ AtMost(Reads(committed), Total')
  <2>1. IInv' => Ordered'
    BY TotalInOrder, PTL
  <2>2. QED  BY <2>1 DEF Ordered
<1>2. QED
  BY <1>1 DEF Promise!Stop, Promise!Totals, Promise!AtMost, AtMost, Total

LEMMA StepPromised ==
  ASSUME IInv, IInv', [Next]_vars
  PROVE  [Promise!Next]_Promise!ledgerVars
<1>1. /\ Total \in [Days -> Nat] /\ Reads(committed) \in [Days -> Nat]
      /\ AtMost(Reads(committed), Total)
      /\ AtMost(Reads(committed), Reads(file)) /\ AtMost(Reads(file), Total)
  BY TotalInOrder DEF Ordered
<1>2. AtMost(Total, Total)
  BY <1>1, AtMostReflexive
<1>3. ASSUME NEW d \in Days, NEW n \in Amounts, Record(d, n)
      PROVE  Promise!Record(d)
  <2>1. n \in Nat /\ days \in [Days -> Nat] /\ Total = days /\ Total' = days'
    BY <1>3, AmountsAssumption DEF IInv, TypeOK, Record, Total
  <2>2. /\ Total' \in [Days -> Nat] /\ Total'[d] >= Total[d]
        /\ \A e \in Days \ {d} : Total'[e] = Total[e]
    BY <1>3, <2>1 DEF Record
  <2>3. Reads(committed)' = Reads(committed)
    BY <1>3 DEF Record, Reads, Zero
  <2>4. QED
    BY <2>2, <2>3 DEF Promise!Record, Promise!Totals, Total
<1>4. ASSUME Commit PROVE Promise!Keep
  <2>1. Reads(committed)' = Reads(file) /\ Total' = Total
    BY <1>4 DEF Commit, Reads, Zero, Total
  <2>2. Reads(file) \in [Days -> Nat]
    BY ReadsIsTotals DEF IInv, TypeOK
  <2>3. QED
    BY <1>1, <2>1, <2>2 DEF Promise!Keep, Promise!Totals, Promise!AtMost, AtMost, Total
<1>5. ASSUME UNCHANGED <<days, file, committed>>,
             (store \in {"opening", "enabled"}) = (store' \in {"opening", "enabled"})
      PROVE  Promise!Stop
  <2>1. Total' = Total /\ Reads(committed)' = Reads(committed)
    BY <1>5 DEF Total, Reads, Zero
  <2>2. QED  BY <1>2, <2>1, StopPromised
<1>6. ASSUME Close \/ CreateTemp \/ WriteTemp \/ SyncTemp \/ CloseTemp \/ OpenFails
      PROVE  Promise!Stop
  <2>1. QED
    BY <1>5, <1>6 DEF Close, CreateTemp, WriteTemp, SyncTemp, CloseTemp, OpenFails
<1>7. ASSUME Open PROVE Promise!Stop
  <2>1. Total' = Total /\ Reads(committed)' = Reads(committed)
    BY <1>7 DEF Open, Total, Reads, Zero
  <2>2. QED  BY <1>2, <2>1, StopPromised
<1>8. ASSUME Rename PROVE Promise!Stop
  <2>1. store \in {"opening", "enabled"}
    BY <1>8 DEF Rename, IInv, StoreInv, Running
  <2>2. Total' = Total /\ Reads(committed)' = Reads(committed)
    BY <1>8, <2>1 DEF Rename, SaveEnds, Total, Reads, Zero
  <2>3. QED  BY <1>2, <2>2, StopPromised
<1>9. ASSUME SaveFails \/ Crash PROVE Promise!Stop
  <2>1. /\ Reads(committed)' = Reads(committed) /\ Reads(file)' = Reads(file)
        /\ Total' = Total \/ Total' = Reads(file)
    BY <1>9 DEF SaveFails, Crash, Halt, SaveEnds, Total, Reads, Zero
  <2>2. QED  BY <1>1, <1>2, <2>1, StopPromised
<1>10. ASSUME PowerFailure PROVE Promise!Stop
  <2>1. file' = committed /\ committed' = committed /\ store' = "down"
    BY <1>10 DEF PowerFailure, Halt, Survivor, IInv, Synced
  <2>2. Total' = Reads(committed) /\ Reads(committed)' = Reads(committed)
    BY <2>1 DEF Total, Reads, Zero
  <2>3. QED  BY <1>1, <2>2, StopPromised
<1>11. ASSUME UNCHANGED vars PROVE Promise!Stop
  <2>1. QED  BY <1>5, <1>11 DEF vars
<1>12. QED
  BY <1>3, <1>4, <1>6, <1>7, <1>8, <1>9, <1>10, <1>11 DEF Next, Promise!Next

(* The store implements the ledger's promise: nothing recorded twice, and  *)
(* nothing lost beyond what had not reached the disk (ADR 0004).           *)
THEOREM StoreImplementsLedger == Spec => LedgerKeepsItsPromise
<1>1. IInv /\ IInv' /\ [Next]_vars => [Promise!Next]_Promise!ledgerVars
  BY StepPromised
<1>2. QED
  BY <1>1, InitPromised, InvariantHolds, PTL DEF Spec, LedgerKeepsItsPromise, Promise!Spec
=============================================================================
