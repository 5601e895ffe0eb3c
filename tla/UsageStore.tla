----------------------------- MODULE UsageStore -----------------------------
(***************************************************************************)
(* The usage ledger on disk: internal/gateway/usage.go.                    *)
(*                                                                         *)
(* Every record rewrites the whole ledger: a temporary file is created,    *)
(* written, synced, closed and renamed over the ledger, all under          *)
(* UsageStore.mu.  Any of those calls may fail, and the process or the     *)
(* machine may stop between any two of them.  A machine that loses power   *)
(* also loses renames the file system had not committed, and the contents  *)
(* of files that had not been synced.  A left-over temporary file is never *)
(* read, so it is forgotten.  A day's tokens and cost are one number.      *)
(***************************************************************************)
EXTENDS Naturals

CONSTANTS
  Days,          (* calendar days *)
  Amounts,       (* what one request may add *)
  MaxTotal       (* bound: what a day may add up to *)

ASSUME AmountsAssumption == Amounts \subseteq Nat
ASSUME MaxTotalAssumption == MaxTotal \in Nat

VARIABLES
  store,         (* down, opening, enabled or disabled *)
  days,          (* UsageStore.days *)
  step,          (* the call of save that comes next; none when mu is free *)
  temp,          (* the temporary file *)
  file,          (* the ledger file, as the running system sees it *)
  committed,     (* the ledger file a power failure would bring back *)
  saved          (* whether the last save returned nil *)

vars == <<store, days, step, temp, file, committed, saved>>

Zero == [d \in Days |-> 0]
NoTemp == [days |-> Zero, whole |-> FALSE, synced |-> FALSE]

(* none: no file, or an empty one; damaged: not readable as a ledger. *)
Files == [kind : {"none", "damaged", "ledger"}, days : [Days -> Nat], synced : BOOLEAN]

(* loadUsageFile *)
Reads(f) == IF f.kind = "ledger" THEN f.days ELSE Zero

TypeOK ==
  /\ store \in {"down", "opening", "enabled", "disabled"}
  /\ days \in [Days -> Nat]
  /\ step \in {"none", "create", "write", "sync", "close", "rename"}
  /\ temp \in [days : [Days -> Nat], whole : BOOLEAN, synced : BOOLEAN]
  /\ step \in {"sync", "close", "rename"} => temp.whole
  /\ file \in Files
  /\ committed \in Files
  /\ saved \in BOOLEAN

Init ==
  /\ store = "down"
  /\ days = Zero
  /\ step = "none"
  /\ temp = NoTemp
  /\ file \in [kind : {"none", "damaged"}, days : {Zero}, synced : {TRUE}]
  /\ committed = file
  /\ saved = FALSE

-----------------------------------------------------------------------------
(* OpenUsageStore: a file that cannot be read disables the store, and so   *)
(* does a first save that fails.                                           *)
OpenDamaged ==                       \* deviation: start over with nothing
  /\ store = "down"
  /\ store' = "opening"
  /\ days' = Reads(file)
  /\ step' = "create"
  /\ UNCHANGED <<temp, file, committed, saved>>

Open ==
  /\ store = "down"
  /\ file.kind # "damaged"
  /\ store' = "opening"
  /\ days' = Reads(file)
  /\ step' = "create"
  /\ UNCHANGED <<temp, file, committed, saved>>

(* The file is damaged, or it or its directory cannot be used just now.    *)
OpenFails ==
  /\ store = "down"
  /\ store' = "disabled"
  /\ UNCHANGED <<days, step, temp, file, committed, saved>>

(* recordUsageOn; a disabled store has no such action. *)
Record(d, n) ==
  /\ store = "enabled"
  /\ step = "none"
  /\ days[d] + n <= MaxTotal
  /\ days' = [days EXCEPT ![d] = @ + n]
  /\ step' = "create"
  /\ UNCHANGED <<store, temp, file, committed, saved>>

(* Close writes the ledger once more. *)
Close ==
  /\ store = "enabled"
  /\ step = "none"
  /\ step' = "create"
  /\ UNCHANGED <<store, days, temp, file, committed, saved>>

-----------------------------------------------------------------------------
(* save, call by call. *)
CreateOnly ==                        \* deviation: the ledger is not written
  /\ step = "create"
  /\ temp' = NoTemp
  /\ step' = "sync"
  /\ UNCHANGED <<store, days, file, committed, saved>>

CreateTemp ==
  /\ step = "create"
  /\ temp' = NoTemp
  /\ step' = "write"
  /\ UNCHANGED <<store, days, file, committed, saved>>

WriteStale ==                        \* deviation: encoded before the update
  /\ step = "write"
  /\ temp' = [temp EXCEPT !.days = Reads(file), !.whole = TRUE]
  /\ step' = "sync"
  /\ UNCHANGED <<store, days, file, committed, saved>>

WriteTemp ==
  /\ step = "write"
  /\ temp' = [temp EXCEPT !.days = days, !.whole = TRUE]
  /\ step' = "sync"
  /\ UNCHANGED <<store, days, file, committed, saved>>

SkipSync ==                          \* deviation: no fsync before the rename
  /\ step = "sync"
  /\ step' = "close"
  /\ UNCHANGED <<store, days, temp, file, committed, saved>>

SyncTemp ==
  /\ step = "sync"
  /\ temp' = [temp EXCEPT !.synced = TRUE]
  /\ step' = "close"
  /\ UNCHANGED <<store, days, file, committed, saved>>

(* Close and Chmod of the temporary file. *)
CloseTemp ==
  /\ step = "close"
  /\ step' = "rename"
  /\ UNCHANGED <<store, days, temp, file, committed, saved>>

SaveEnds(ok) ==
  /\ step' = "none"
  /\ temp' = NoTemp
  /\ saved' = ok
  /\ store' = IF store # "opening" THEN store
              ELSE IF ok THEN "enabled" ELSE "disabled"

Rename ==
  /\ step = "rename"
  /\ file' = [kind |-> IF temp.whole THEN "ledger" ELSE "damaged",
              days |-> temp.days, synced |-> temp.synced]
  /\ SaveEnds(TRUE)
  /\ UNCHANGED <<days, committed>>

SaveFails ==
  /\ step # "none"
  /\ SaveEnds(FALSE)
  /\ UNCHANGED <<days, file, committed>>

-----------------------------------------------------------------------------
(* The world (external): the process stops, the file system commits the    *)
(* directory, the machine loses power.                                     *)
Halt ==
  /\ store' = "down"
  /\ days' = Zero
  /\ step' = "none"
  /\ temp' = NoTemp
  /\ saved' = FALSE

Crash ==
  /\ store # "down"
  /\ Halt
  /\ UNCHANGED <<file, committed>>

Commit ==
  /\ committed # file
  /\ committed' = file
  /\ UNCHANGED <<store, days, step, temp, file, saved>>

Survivor(f) ==
  IF f.synced THEN {f}
  ELSE [kind : {"none", "damaged"}, days : {Zero}, synced : {TRUE}]

PowerFailure ==
  /\ Halt
  /\ file' \in Survivor(committed)
  /\ committed' = file'

Next ==
  \/ Open \/ OpenFails \/ Close
  \/ \E d \in Days, n \in Amounts : Record(d, n)
  \/ CreateTemp \/ WriteTemp \/ SyncTemp \/ CloseTemp \/ Rename \/ SaveFails
  \/ Crash \/ Commit \/ PowerFailure

Spec == Init /\ [][Next]_vars
-----------------------------------------------------------------------------
(* The promise: see Ledger.tla.  What the gateway has is its days while it *)
(* runs and what it would read while it does not; what no stop can take    *)
(* back is what a power failure leaves.                                    *)
Promise == INSTANCE Ledger WITH
  total <- IF store \in {"opening", "enabled"} THEN days ELSE Reads(file),
  kept <- Reads(committed)

(* The totals survive as Ledger.tla promises: nothing is counted twice,    *)
(* no restart, failed save or crash between two calls of save adds to the  *)
(* totals or takes away what was kept (save, OpenUsageStore).              *)
LedgerKeepsItsPromise == Promise!Spec

(* The ledger file never becomes unreadable, at whatever point the process *)
(* or the machine stops (usage.go:110: "leaves the previous ledger intact  *)
(* rather than a half-written file"), and a file the gateway could not     *)
(* read is never overwritten: its owner can still repair it.               *)
FileStaysReadable ==
  [][file.kind = "damaged" <=> file'.kind = "damaged"]_vars

(* A save that worked left everything recorded so far in the file, the     *)
(* records whose own save had failed included: usage is behind on disk     *)
(* only after an error.                                                    *)
SaveCatchesUp ==
  store = "enabled" /\ step = "none" /\ saved => Reads(file) = days
=============================================================================
