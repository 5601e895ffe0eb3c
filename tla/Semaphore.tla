----------------------------- MODULE Semaphore -----------------------------
(***************************************************************************)
(* The request limiter of the gateway: type Semaphore of                   *)
(* internal/gateway/server.go.  A handler calls Acquire before it starts   *)
(* or continues a CLI turn and defers Release.                             *)
(*                                                                         *)
(* Acquire has two steps that other goroutines can come between: under the *)
(* mutex it takes a free slot or appends a channel to the waiters, and     *)
(* after the unlock it reaches the select that receives from that channel. *)
(* The channel is unbuffered and Release sends to it without blocking, so  *)
(* only a goroutine that is parked in its select can be handed a slot.     *)
(***************************************************************************)
EXTENDS Integers, FiniteSets, Sequences

CONSTANTS
  Requests,      (* the HTTP requests that call Acquire, each of them once *)
  Concurrency    (* the configured limit, as the operator gave it *)

ASSUME RequestsAssumption == IsFiniteSet(Requests)
ASSUME ConcurrencyAssumption == Concurrency \in Int

VARIABLES
  available,     (* Semaphore.available *)
  waiters,       (* Semaphore.waiters: a request stands for its channel *)
  pc             (* where each request is in Acquire ... Release *)

vars == <<available, waiters, pc>>

(***************************************************************************)
(* idle      Acquire not called yet                                        *)
(* queued    channel appended, the select not reached                      *)
(* parked    blocked in the select                                         *)
(* holding   Acquire returned nil                                          *)
(* released  Release called                                                *)
(* cancelled Acquire returned ctx.Err()                                    *)
(***************************************************************************)
Stage == {"idle", "queued", "parked", "holding", "released", "cancelled"}

(* NewSemaphore clamps a limit below one to one. *)
Slots == IF Concurrency < 1 THEN 1 ELSE Concurrency

At(stages) == {r \in Requests : pc[r] \in stages}
Holders == At({"holding"})
InWaiters(r) == \E i \in DOMAIN waiters : waiters[i] = r

TypeOK ==
  /\ available \in 0..Slots
  /\ waiters \in Seq(Requests)
  /\ pc \in [Requests -> Stage]

Init ==
  /\ available = Slots
  /\ waiters = <<>>
  /\ pc = [r \in Requests |-> "idle"]

Move(r, from, to) ==
  /\ pc[r] = from
  /\ pc' = [pc EXCEPT ![r] = to]

-----------------------------------------------------------------------------
(* Deviations from the code, one plausible slip each; they stand in for    *)
(* the action they resemble when a property is tested for its bite.        *)

AcquireUnchecked(r) ==    \* takes a slot without looking at the count
  /\ Move(r, "idle", "holding")
  /\ available' = available - 1
  /\ UNCHANGED waiters

QueueAtFront(r) ==        \* newest waiter first
  /\ available = 0
  /\ Move(r, "idle", "queued")
  /\ waiters' = <<r>> \o waiters
  /\ UNCHANGED available

HandAndCount(h) ==        \* the else of Release lost: hands over and counts
  /\ waiters # <<>>
  /\ pc[h] = "holding"
  /\ pc[Head(waiters)] = "parked"
  /\ pc' = [pc EXCEPT ![h] = "released", ![Head(waiters)] = "holding"]
  /\ waiters' = Tail(waiters)
  /\ available' = available + 1

PopSilently(h) ==         \* pops the head waiter and sends nothing
  /\ waiters # <<>>
  /\ Move(h, "holding", "released")
  /\ waiters' = Tail(waiters)
  /\ UNCHANGED available

-----------------------------------------------------------------------------
(* Acquire, first critical section. *)

AcquireFree(r) ==
  /\ available > 0
  /\ Move(r, "idle", "holding")
  /\ available' = available - 1
  /\ UNCHANGED waiters

AcquireQueue(r) ==
  /\ available = 0
  /\ Move(r, "idle", "queued")
  /\ waiters' = Append(waiters, r)
  /\ UNCHANGED available

(* Acquire, after the unlock: the select. *)
Park(r) ==
  /\ Move(r, "queued", "parked")
  /\ UNCHANGED <<available, waiters>>

(* ctx.Done fires, in the select or before it is reached.  The channel     *)
(* stays in waiters: nothing removes it.                                   *)
Cancel(r) ==
  /\ \/ Move(r, "queued", "cancelled")
     \/ Move(r, "parked", "cancelled")
  /\ UNCHANGED <<available, waiters>>

(* Release: the head waiter is parked and receives... *)
ReleaseHand(h) ==
  /\ waiters # <<>>
  /\ pc[h] = "holding"
  /\ pc[Head(waiters)] = "parked"
  /\ pc' = [pc EXCEPT ![h] = "released", ![Head(waiters)] = "holding"]
  /\ waiters' = Tail(waiters)
  /\ UNCHANGED available

(* ...or it is not, and the default branch drops the slot with the entry. *)
ReleaseDrop(h) ==
  /\ waiters # <<>>
  /\ pc[Head(waiters)] # "parked"
  /\ Move(h, "holding", "released")
  /\ waiters' = Tail(waiters)
  /\ UNCHANGED available

ReleaseFree(h) ==
  /\ waiters = <<>>
  /\ Move(h, "holding", "released")
  /\ available' = available + 1
  /\ UNCHANGED waiters

Release(h) == ReleaseHand(h) \/ ReleaseDrop(h) \/ ReleaseFree(h)

Next ==
  \E r \in Requests :
    \/ AcquireFree(r) \/ AcquireQueue(r) \/ Park(r) \/ Cancel(r)
    \/ Release(r)

Spec == Init /\ [][Next]_vars

(* A queued goroutine reaches its select, and a handler returns and runs   *)
(* its deferred Release.  Nobody has to cancel, or to arrive.              *)
Fairness == \A r \in Requests : WF_vars(Park(r)) /\ WF_vars(Release(r))
FairSpec == Spec /\ Fairness

-----------------------------------------------------------------------------
(* Waiters whose channel was popped without anyone receiving: they gave up *)
(* before their turn, or they were not yet parked and now wait forever.    *)
Forsaken == {r \in At({"queued", "parked", "cancelled"}) : ~InWaiters(r)}

(* Every slot is free, held, or was spent on a forsaken waiter: Acquire    *)
(* and Release between them never mint a slot and lose one in that way     *)
(* only (server.go Release, the select with a default).                    *)
SlotConservation ==
  available + Cardinality(Holders) + Cardinality(Forsaken) = Slots

(* No request stands in line while a slot is free, so the fast path of     *)
(* Acquire can never overtake a waiter.                                    *)
NoIdleSlotWhileQueued == available > 0 => waiters = <<>>

(* A request that is parked at the head of the line while somebody runs is *)
(* served, or gives up: the next Release cannot miss it.                   *)
HeadIsServed ==
  \A r \in Requests :
    (waiters # <<>> /\ Head(waiters) = r /\ pc[r] = "parked" /\ Holders # {})
      ~> pc[r] \in {"holding", "released", "cancelled"}

(* The line the callers see: the waiters that still listen, and who of two  *)
(* of them stands in front of the other.                                   *)
Listening == {r \in At({"queued", "parked"}) : InWaiters(r)}
Before ==
  {p \in Listening \X Listening :
     \E i, j \in DOMAIN waiters : i < j /\ waiters[i] = p[1] /\ waiters[j] = p[2]}

(* The limiter implements SlotPool: at most Slots requests run, and they   *)
(* enter in the order in which they queued.                                *)
Pool == INSTANCE SlotPool WITH running <- Holders, line <- Listening, before <- Before
FirstComeFirstServed == Pool!Spec

(* docs/spec.md 5.3: a queued-then-cancelled request still briefly         *)
(* occupies a slot when it reaches the front.  Briefly: once no request is *)
(* running or waiting, every slot is free again.                           *)
AllSlotsComeBack ==
  At({"queued", "parked", "holding"}) = {} => available = Slots
=============================================================================
