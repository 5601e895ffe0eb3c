-------------------------- MODULE SemaphoreProofs --------------------------
(***************************************************************************)
(* What TLAPS proves of the request limiter, for every finite set of       *)
(* requests and every configured limit.                                    *)
(*                                                                         *)
(* The count of slots is not inductive by itself: it needs that a request  *)
(* stands in waiters at most once and only while it waits or after it gave *)
(* up (WaitersInv), because popping the head must change the membership of *)
(* that one request and of no other.                                       *)
(***************************************************************************)
EXTENDS Semaphore, FiniteSetTheorems, TLAPS

(* A request appended its channel once, and has not been served since. *)
WaitersInv ==
  /\ \A i, j \in DOMAIN waiters : waiters[i] = waiters[j] => i = j
  /\ \A i \in DOMAIN waiters :
       pc[waiters[i]] \in {"queued", "parked", "cancelled"}

IInv ==
  /\ TypeOK
  /\ WaitersInv
  /\ NoIdleSlotWhileQueued
  /\ SlotConservation

-----------------------------------------------------------------------------
LEMMA SlotsIsPositive == Slots \in Nat /\ Slots >= 1
  BY ConcurrencyAssumption DEF Slots

(* Membership in the tail of a sequence without repetitions. *)
LEMMA TailMembership ==
  ASSUME NEW S, NEW s \in Seq(S), s # <<>>,
         \A i, j \in DOMAIN s : s[i] = s[j] => i = j
  PROVE  \A x : (\E i \in DOMAIN Tail(s) : Tail(s)[i] = x)
                  <=> (x # Head(s) /\ \E i \in DOMAIN s : s[i] = x)
<1> TAKE x
<1>1. /\ Tail(s) \in Seq(S)
      /\ Len(s) \in Nat
      /\ Len(s) >= 1
      /\ DOMAIN s = 1..Len(s)
      /\ DOMAIN Tail(s) = 1..(Len(s) - 1)
      /\ \A i \in 1..(Len(s) - 1) : Tail(s)[i] = s[i + 1]
      /\ Head(s) = s[1]
  OBVIOUS
<1>2. ASSUME NEW i \in DOMAIN Tail(s), Tail(s)[i] = x
      PROVE  x # Head(s) /\ \E k \in DOMAIN s : s[k] = x
  <2>1. i + 1 \in DOMAIN s /\ s[i + 1] = x /\ i + 1 # 1 /\ 1 \in DOMAIN s
    BY <1>1, <1>2
  <2>2. QED  BY <1>1, <2>1
<1>3. ASSUME x # Head(s), NEW i \in DOMAIN s, s[i] = x
      PROVE  \E k \in DOMAIN Tail(s) : Tail(s)[k] = x
  <2>1. i # 1  BY <1>1, <1>3
  <2>2. i - 1 \in DOMAIN Tail(s) /\ Tail(s)[i - 1] = x  BY <1>1, <1>3, <2>1
  <2>3. QED  BY <2>2
<1>4. QED  BY <1>2, <1>3

LEMMA TailWithoutRepetition ==
  ASSUME NEW S, NEW s \in Seq(S), s # <<>>,
         \A i, j \in DOMAIN s : s[i] = s[j] => i = j
  PROVE  \A i, j \in DOMAIN Tail(s) : Tail(s)[i] = Tail(s)[j] => i = j
<1>1. /\ Len(s) \in Nat
      /\ Len(s) >= 1
      /\ DOMAIN s = 1..Len(s)
      /\ DOMAIN Tail(s) = 1..(Len(s) - 1)
      /\ \A i \in 1..(Len(s) - 1) : Tail(s)[i] = s[i + 1]
  OBVIOUS
<1>2. SUFFICES ASSUME NEW i \in DOMAIN Tail(s), NEW j \in DOMAIN Tail(s),
                      Tail(s)[i] = Tail(s)[j]
               PROVE  i = j
  OBVIOUS
<1>3. i + 1 \in DOMAIN s /\ j + 1 \in DOMAIN s /\ s[i + 1] = s[j + 1]
  BY <1>1, <1>2
<1>4. QED  BY <1>1, <1>3

(* The two sets that are counted are finite. *)
LEMMA CountedSets ==
  /\ IsFiniteSet(Holders) /\ Cardinality(Holders) \in Nat
  /\ IsFiniteSet(Forsaken) /\ Cardinality(Forsaken) \in Nat
<1>1. Holders \subseteq Requests /\ Forsaken \subseteq Requests
  BY DEF Holders, Forsaken, At
<1>2. QED
  BY <1>1, RequestsAssumption, FS_Subset, FS_CardinalityType

LEMMA Initially == Init => IInv
<1> SUFFICES ASSUME Init PROVE IInv
  OBVIOUS
<1>1. TypeOK
  BY SlotsIsPositive DEF Init, TypeOK, Stage
<1>2. WaitersInv /\ NoIdleSlotWhileQueued
  BY DEF Init, WaitersInv, NoIdleSlotWhileQueued
<1>3. Holders = {} /\ Forsaken = {}
  BY DEF Init, Holders, Forsaken, At
<1>4. SlotConservation
  BY <1>3, FS_EmptySet, SlotsIsPositive DEF Init, SlotConservation
<1>5. QED  BY <1>1, <1>2, <1>4 DEF IInv

-----------------------------------------------------------------------------
(* The parts that do not count: types, the shape of the line, and that no  *)
(* slot is idle while somebody waits.                                      *)
LEMMA ShapeKept ==
  ASSUME TypeOK, WaitersInv, NoIdleSlotWhileQueued, [Next]_vars,
         (* the count keeps available below Slots when it is incremented *)
         available < Slots \/ Holders = {}
  PROVE  TypeOK' /\ WaitersInv' /\ NoIdleSlotWhileQueued'
<1> USE SlotsIsPositive DEF TypeOK, WaitersInv, NoIdleSlotWhileQueued, Stage
<1>1. ASSUME NEW r \in Requests, AcquireFree(r)
      PROVE  TypeOK' /\ WaitersInv' /\ NoIdleSlotWhileQueued'
  BY <1>1 DEF AcquireFree, Move
<1>2. ASSUME NEW r \in Requests, AcquireQueue(r)
      PROVE  TypeOK' /\ WaitersInv' /\ NoIdleSlotWhileQueued'
  <2>1. \A i \in DOMAIN waiters : waiters[i] # r
    BY <1>2 DEF AcquireQueue, Move
  <2>2. /\ waiters' \in Seq(Requests)
        /\ DOMAIN waiters' = 1..(Len(waiters) + 1)
        /\ DOMAIN waiters = 1..Len(waiters)
        /\ Len(waiters) \in Nat
        /\ waiters'[Len(waiters) + 1] = r
        /\ \A i \in DOMAIN waiters : waiters'[i] = waiters[i]
    BY <1>2 DEF AcquireQueue
  <2>3. \A i \in DOMAIN waiters' : i \in DOMAIN waiters \/ i = Len(waiters) + 1
    BY <2>2
  <2>4. WaitersInv'
    BY <1>2, <2>1, <2>2, <2>3 DEF AcquireQueue, Move
  <2>5. QED  BY <1>2, <2>2, <2>4 DEF AcquireQueue, Move
<1>3. ASSUME NEW r \in Requests, Park(r)
      PROVE  TypeOK' /\ WaitersInv' /\ NoIdleSlotWhileQueued'
  BY <1>3 DEF Park, Move
<1>4. ASSUME NEW r \in Requests, Cancel(r)
      PROVE  TypeOK' /\ WaitersInv' /\ NoIdleSlotWhileQueued'
  BY <1>4 DEF Cancel, Move
<1>5. ASSUME NEW h \in Requests, ReleaseHand(h) \/ ReleaseDrop(h)
      PROVE  TypeOK' /\ WaitersInv' /\ NoIdleSlotWhileQueued'
  <2>1. waiters # <<>> /\ waiters' = Tail(waiters) /\ available' = available
    BY <1>5 DEF ReleaseHand, ReleaseDrop
  <2>2. Head(waiters) \in Requests /\ waiters' \in Seq(Requests)
    BY <2>1
  <2>3. \A i, j \in DOMAIN waiters' : waiters'[i] = waiters'[j] => i = j
    BY <2>1, TailWithoutRepetition
  <2>4. \A x : (\E i \in DOMAIN waiters' : waiters'[i] = x)
                 <=> (x # Head(waiters) /\ \E i \in DOMAIN waiters : waiters[i] = x)
    <3>1. \A x : (\E i \in DOMAIN Tail(waiters) : Tail(waiters)[i] = x)
                   <=> (x # Head(waiters)
                          /\ \E i \in DOMAIN waiters : waiters[i] = x)
      BY <2>1, TailMembership, Zenon
    <3>2. QED  BY <2>1, <3>1, Zenon
  <2>5. /\ pc[h] = "holding"
        /\ pc' \in [Requests -> Stage]
        /\ \A r \in Requests \ {h, Head(waiters)} : pc'[r] = pc[r]
    BY <1>5, <2>2 DEF ReleaseHand, ReleaseDrop, Move
  <2>6. ASSUME NEW i \in DOMAIN waiters'
        PROVE  pc'[waiters'[i]] \in {"queued", "parked", "cancelled"}
    <3>1. /\ waiters'[i] # Head(waiters)
          /\ \E k \in DOMAIN waiters : waiters[k] = waiters'[i]
      BY <2>4
    <3>2. pc[waiters'[i]] \in {"queued", "parked", "cancelled"}
      BY <3>1
    <3>3. waiters'[i] # h /\ waiters'[i] \in Requests
      BY <2>2, <2>5, <3>2
    <3>4. QED  BY <2>5, <3>1, <3>2, <3>3
  <2>7. QED  BY <2>1, <2>2, <2>3, <2>5, <2>6
<1>6. ASSUME NEW h \in Requests, ReleaseFree(h)
      PROVE  TypeOK' /\ WaitersInv' /\ NoIdleSlotWhileQueued'
  <2>1. h \in Holders
    BY <1>6 DEF ReleaseFree, Move, Holders, At
  <2>2. available' \in 0..Slots
    BY <1>6, <2>1 DEF ReleaseFree
  <2>3. QED  BY <1>6, <2>2 DEF ReleaseFree, Move
<1>7. CASE UNCHANGED vars
  BY <1>7 DEF vars
<1>8. QED
  BY <1>1, <1>2, <1>3, <1>4, <1>5, <1>6, <1>7 DEF Next, Release

-----------------------------------------------------------------------------
LEMMA ConservationKept ==
  ASSUME IInv, [Next]_vars
  PROVE  SlotConservation'
<1> USE DEF IInv, TypeOK, WaitersInv, Stage
<1>0. /\ available \in Nat /\ Slots \in Nat
      /\ available + Cardinality(Holders) + Cardinality(Forsaken) = Slots
      /\ Cardinality(Holders) \in Nat /\ Cardinality(Forsaken) \in Nat
      /\ IsFiniteSet(Holders) /\ IsFiniteSet(Forsaken)
  BY SlotsIsPositive, CountedSets DEF SlotConservation
<1>1. ASSUME NEW r \in Requests, AcquireFree(r)
      PROVE  SlotConservation'
  <2>1. r \notin Holders /\ Holders' = Holders \union {r} /\ Forsaken' = Forsaken
    BY <1>1 DEF AcquireFree, Move, Holders, Forsaken, At, InWaiters
  <2>2. Cardinality(Holders') = Cardinality(Holders) + 1
    BY <1>0, <2>1, FS_AddElement
  <2>3. QED  BY <1>0, <1>1, <2>1, <2>2 DEF AcquireFree, SlotConservation
<1>2. ASSUME NEW r \in Requests, AcquireQueue(r)
      PROVE  SlotConservation'
  <2>1. \A x : InWaiters(x)' <=> (InWaiters(x) \/ x = r)
    <3>1. /\ DOMAIN waiters' = 1..(Len(waiters) + 1)
          /\ DOMAIN waiters = 1..Len(waiters)
          /\ Len(waiters) \in Nat
          /\ waiters'[Len(waiters) + 1] = r
          /\ \A i \in DOMAIN waiters : waiters'[i] = waiters[i]
      BY <1>2 DEF AcquireQueue
    <3>2. \A i \in DOMAIN waiters' : i \in DOMAIN waiters \/ i = Len(waiters) + 1
      BY <3>1
    <3>3. QED  BY <3>1, <3>2 DEF InWaiters
  <2>2. Holders' = Holders /\ Forsaken' = Forsaken
    BY <1>2, <2>1 DEF AcquireQueue, Move, Holders, Forsaken, At
  <2>3. QED  BY <1>0, <1>2, <2>2 DEF AcquireQueue, SlotConservation
<1>3. ASSUME NEW r \in Requests, Park(r) \/ Cancel(r)
      PROVE  SlotConservation'
  <2>1. Holders' = Holders /\ Forsaken' = Forsaken
    BY <1>3 DEF Park, Cancel, Move, Holders, Forsaken, At, InWaiters
  <2>2. QED  BY <1>0, <1>3, <2>1 DEF Park, Cancel, SlotConservation
<1>4. ASSUME NEW h \in Requests, waiters # <<>>, waiters' = Tail(waiters)
      PROVE  /\ Head(waiters) \in Requests
             /\ InWaiters(Head(waiters))
             /\ pc[Head(waiters)] \in {"queued", "parked", "cancelled"}
             /\ \A x : InWaiters(x)' <=> (InWaiters(x) /\ x # Head(waiters))
  <2>1. \A x : InWaiters(x)' <=> (InWaiters(x) /\ x # Head(waiters))
    <3>1. \A x : (\E i \in DOMAIN Tail(waiters) : Tail(waiters)[i] = x)
                   <=> (x # Head(waiters)
                          /\ \E i \in DOMAIN waiters : waiters[i] = x)
      BY <1>4, TailMembership, Zenon
    <3>2. QED  BY <1>4, <3>1, Zenon DEF InWaiters
  <2>2. 1 \in DOMAIN waiters /\ waiters[1] = Head(waiters)
    BY <1>4
  <2>3. QED  BY <2>1, <2>2 DEF InWaiters
<1>5. ASSUME NEW h \in Requests, ReleaseHand(h)
      PROVE  SlotConservation'
  <2> DEFINE w == Head(waiters)
  <2>1. /\ w \in Requests /\ InWaiters(w)
        /\ \A x : InWaiters(x)' <=> (InWaiters(x) /\ x # w)
    BY <1>4, <1>5 DEF ReleaseHand
  <2>2. pc[h] = "holding" /\ pc[w] = "parked" /\ h # w
    BY <1>5 DEF ReleaseHand
  <2>3. \A x \in Requests : pc'[x] = IF x = w THEN "holding"
                                     ELSE IF x = h THEN "released" ELSE pc[x]
    BY <1>5, <2>1, <2>2 DEF ReleaseHand
  <2>4. h \in Holders /\ w \notin Holders \ {h}
        /\ Holders' = (Holders \ {h}) \union {w}
    BY <2>1, <2>2, <2>3 DEF Holders, At
  <2>5. Forsaken' = Forsaken
    <3>1. ~InWaiters(h)  BY <2>2 DEF InWaiters
    <3>2. QED  BY <2>1, <2>2, <2>3, <3>1 DEF Forsaken, At
  <2>6. /\ IsFiniteSet(Holders \ {h})
        /\ Cardinality(Holders \ {h}) = Cardinality(Holders) - 1
    BY <1>0, <2>4, FS_RemoveElement
  <2>7. Cardinality(Holders') = Cardinality(Holders \ {h}) + 1
    BY <2>4, <2>6, FS_AddElement
  <2>8. QED
    BY <1>0, <1>5, <2>5, <2>6, <2>7 DEF ReleaseHand, SlotConservation
<1>6. ASSUME NEW h \in Requests, ReleaseDrop(h)
      PROVE  SlotConservation'
  <2> DEFINE w == Head(waiters)
  <2>1. /\ w \in Requests /\ InWaiters(w)
        /\ pc[w] \in {"queued", "parked", "cancelled"}
        /\ \A x : InWaiters(x)' <=> (InWaiters(x) /\ x # w)
    BY <1>4, <1>6 DEF ReleaseDrop
  <2>2. pc[h] = "holding" /\ h # w
    BY <1>6, <2>1 DEF ReleaseDrop, Move
  <2>3. \A x \in Requests : pc'[x] = IF x = h THEN "released" ELSE pc[x]
    BY <1>6 DEF ReleaseDrop, Move
  <2>4. h \in Holders /\ Holders' = Holders \ {h}
    BY <2>2, <2>3 DEF Holders, At
  <2>5. w \notin Forsaken /\ Forsaken' = Forsaken \union {w}
    BY <2>1, <2>2, <2>3 DEF Forsaken, At
  <2>6. Cardinality(Holders') = Cardinality(Holders) - 1
    BY <1>0, <2>4, FS_RemoveElement
  <2>7. Cardinality(Forsaken') = Cardinality(Forsaken) + 1
    BY <1>0, <2>5, FS_AddElement
  <2>8. QED
    BY <1>0, <1>6, <2>6, <2>7 DEF ReleaseDrop, SlotConservation
<1>7. ASSUME NEW h \in Requests, ReleaseFree(h)
      PROVE  SlotConservation'
  <2>1. h \in Holders /\ Holders' = Holders \ {h} /\ Forsaken' = Forsaken
    BY <1>7 DEF ReleaseFree, Move, Holders, Forsaken, At, InWaiters
  <2>2. Cardinality(Holders') = Cardinality(Holders) - 1
    BY <1>0, <2>1, FS_RemoveElement
  <2>3. QED  BY <1>0, <1>7, <2>1, <2>2 DEF ReleaseFree, SlotConservation
<1>8. CASE UNCHANGED vars
  BY <1>0, <1>8 DEF vars, SlotConservation, Holders, Forsaken, At, InWaiters
<1>9. QED
  BY <1>1, <1>2, <1>3, <1>5, <1>6, <1>7, <1>8 DEF Next, Release

-----------------------------------------------------------------------------
LEMMA InvariantKept == IInv /\ [Next]_vars => IInv'
<1> SUFFICES ASSUME IInv, [Next]_vars PROVE IInv'
  OBVIOUS
<1>1. available < Slots \/ Holders = {}
  <2>1. /\ available \in Nat /\ Slots \in Nat
        /\ available + Cardinality(Holders) + Cardinality(Forsaken) = Slots
        /\ Cardinality(Holders) \in Nat /\ Cardinality(Forsaken) \in Nat
        /\ IsFiniteSet(Holders)
    BY SlotsIsPositive, CountedSets DEF IInv, TypeOK, SlotConservation
  <2>2. ASSUME NEW a \in Nat, NEW h \in Nat, NEW f \in Nat, NEW s \in Nat,
               a + h + f = s
        PROVE  h = 0 \/ a < s
    BY <2>2
  <2>3. Cardinality(Holders) = 0 \/ available < Slots
    BY <2>1, <2>2, Zenon
  <2>4. QED  BY <2>1, <2>3, FS_EmptySet
<1>2. TypeOK' /\ WaitersInv' /\ NoIdleSlotWhileQueued'
  BY <1>1, ShapeKept DEF IInv
<1>3. SlotConservation'
  BY ConservationKept
<1>4. QED  BY <1>2, <1>3 DEF IInv

THEOREM InvariantHolds == Spec => []IInv
  BY Initially, InvariantKept, PTL DEF Spec

(* Every variable keeps its type; in particular the count of free slots    *)
(* stays between zero and the limit (Semaphore.available).                 *)
THEOREM TypeCorrect == Spec => []TypeOK
<1>1. IInv => TypeOK  BY DEF IInv
<1>2. QED  BY <1>1, InvariantHolds, PTL

(* No slot is minted, and the only way to lose one is to spend it on a     *)
(* waiter that is not listening (Semaphore.Release).                       *)
THEOREM SlotsConserved == Spec => []SlotConservation
<1>1. IInv => SlotConservation  BY DEF IInv
<1>2. QED  BY <1>1, InvariantHolds, PTL

(* The fast path of Semaphore.Acquire never overtakes a waiter. *)
THEOREM NoBarging == Spec => []NoIdleSlotWhileQueued
<1>1. IInv => NoIdleSlotWhileQueued  BY DEF IInv
<1>2. QED  BY <1>1, InvariantHolds, PTL

-----------------------------------------------------------------------------
(* The refinement.  Every step of the limiter is one of the pool's: who    *)
(* stands in line, and in front of whom, changes only at the two ends of   *)
(* waiters, or when somebody in it stops to listen.                        *)

Stands(s, x) == \E i \in DOMAIN s : s[i] = x
InOrder(s, x, y) == \E i, j \in DOMAIN s : i < j /\ s[i] = x /\ s[j] = y
Waits(r) == pc[r] \in {"queued", "parked"}

LEMMA TailOrder ==
  ASSUME NEW S, NEW s \in Seq(S), s # <<>>,
         \A i, j \in DOMAIN s : s[i] = s[j] => i = j
  PROVE  \A x, y : InOrder(Tail(s), x, y) <=> (InOrder(s, x, y) /\ x # Head(s))
<1> TAKE x, y
<1>1. /\ Len(s) \in Nat /\ Len(s) >= 1
      /\ DOMAIN s = 1..Len(s)
      /\ DOMAIN Tail(s) = 1..(Len(s) - 1)
      /\ \A i \in 1..(Len(s) - 1) : Tail(s)[i] = s[i + 1]
      /\ Head(s) = s[1]
  OBVIOUS
<1>2. ASSUME NEW i \in DOMAIN Tail(s), NEW j \in DOMAIN Tail(s),
             i < j, Tail(s)[i] = x, Tail(s)[j] = y
      PROVE  InOrder(s, x, y) /\ x # Head(s)
  <2>1. /\ i + 1 \in DOMAIN s /\ j + 1 \in DOMAIN s /\ i + 1 < j + 1
        /\ s[i + 1] = x /\ s[j + 1] = y /\ i + 1 # 1 /\ 1 \in DOMAIN s
    BY <1>1, <1>2
  <2>2. QED  BY <1>1, <2>1 DEF InOrder
<1>3. ASSUME x # Head(s), NEW i \in DOMAIN s, NEW j \in DOMAIN s,
             i < j, s[i] = x, s[j] = y
      PROVE  InOrder(Tail(s), x, y)
  <2>1. i # 1  BY <1>1, <1>3
  <2>2. /\ i - 1 \in DOMAIN Tail(s) /\ j - 1 \in DOMAIN Tail(s) /\ i - 1 < j - 1
        /\ Tail(s)[i - 1] = x /\ Tail(s)[j - 1] = y
    BY <1>1, <1>3, <2>1
  <2>3. QED  BY <2>2 DEF InOrder
<1>4. QED  BY <1>2, <1>3 DEF InOrder

LEMMA AppendOrder ==
  ASSUME NEW S, NEW s \in Seq(S), NEW r \in S
  PROVE  /\ \A x : Stands(Append(s, r), x) <=> (Stands(s, x) \/ x = r)
         /\ \A x, y : InOrder(Append(s, r), x, y)
                        <=> (InOrder(s, x, y) \/ (Stands(s, x) /\ y = r))
<1>1. /\ Len(s) \in Nat /\ DOMAIN s = 1..Len(s)
      /\ DOMAIN Append(s, r) = 1..(Len(s) + 1)
      /\ \A i \in 1..Len(s) : Append(s, r)[i] = s[i]
      /\ Append(s, r)[Len(s) + 1] = r
  OBVIOUS
<1>2. \A i : i \in DOMAIN Append(s, r) <=> (i \in DOMAIN s \/ i = Len(s) + 1)
  BY <1>1
<1>3. \A i \in DOMAIN s : Append(s, r)[i] = s[i] /\ i < Len(s) + 1
                           /\ ~(Len(s) + 1 < i)
  BY <1>1
<1>4. ~(Len(s) + 1 < Len(s) + 1)  BY <1>1
<1>5. QED  BY <1>1, <1>2, <1>3, <1>4 DEF Stands, InOrder

(* Membership in the line the pool sees. *)
LEMMA LineMembers ==
  /\ \A r : r \in Listening <=> r \in Requests /\ Waits(r) /\ Stands(waiters, r)
  /\ \A p : p \in Before <=> /\ p \in Listening \X Listening
                             /\ InOrder(waiters, p[1], p[2])
  /\ \A r : r \in Holders <=> r \in Requests /\ pc[r] = "holding"
  BY DEF Listening, Before, Holders, At, InWaiters, Stands, InOrder, Waits

LEMMA LineMembersLater ==
  /\ \A r : r \in Listening' <=> r \in Requests /\ Waits(r)' /\ Stands(waiters', r)
  /\ \A p : p \in Before' <=> /\ p \in Listening' \X Listening'
                              /\ InOrder(waiters', p[1], p[2])
  /\ \A r : r \in Holders' <=> r \in Requests /\ pc'[r] = "holding"
  BY DEF Listening, Before, Holders, At, InWaiters, Stands, InOrder, Waits

(* The line loses r when r stops to stand or to wait, and nobody else      *)
(* moves: whoever is left keeps its place.                                 *)
LEMMA OneStepsOut ==
  ASSUME NEW r \in Requests,
         \A q : (q \in Requests /\ Waits(q)' /\ Stands(waiters', q))
                  <=> (q \in Listening /\ q # r),
         \A x, y \in Listening \ {r} :
            InOrder(waiters', x, y) <=> InOrder(waiters, x, y)
  PROVE  Pool!StepOut(r)
<1>1. \A q : q \in Listening' <=> q \in Listening /\ q # r
  BY LineMembersLater
<1>2. Listening' = Listening \ {r}  BY <1>1
<1>3. \A p : p \in Before' <=> p \in {b \in Before : b[1] # r /\ b[2] # r}
  BY <1>2, LineMembers, LineMembersLater
<1>4. Before' = {b \in Before : b[1] # r /\ b[2] # r}  BY <1>3
<1>5. QED  BY <1>2, <1>4 DEF Pool!StepOut

LEMMA LineUnmoved ==
  ASSUME waiters' = waiters, \A q \in Requests : Waits(q)' <=> Waits(q)
  PROVE  Listening' = Listening /\ Before' = Before
<1>1. \A q : q \in Listening' <=> q \in Listening
  BY LineMembers, LineMembersLater
<1>2. Listening' = Listening  BY <1>1
<1>3. \A p : p \in Before' <=> p \in Before
  BY <1>2, LineMembers, LineMembersLater
<1>4. QED  BY <1>2, <1>3

LEMMA FreeEnters ==
  ASSUME IInv, NEW r \in Requests, AcquireFree(r)
  PROVE  Pool!Enter(r)
<1>1. /\ pc[r] = "idle" /\ pc' = [pc EXCEPT ![r] = "holding"]
      /\ pc \in [Requests -> Stage] /\ waiters = <<>> /\ waiters' = waiters
  BY DEF IInv, TypeOK, NoIdleSlotWhileQueued, AcquireFree, Move
<1>2. \A q \in Requests : pc'[q] = IF q = r THEN "holding" ELSE pc[q]
  BY <1>1
<1>3. Listening' = Listening /\ Before' = Before
  BY <1>1, <1>2, LineUnmoved DEF Waits
<1>4. Listening = {}
  BY <1>1, LineMembers DEF Stands
<1>5. r \notin Holders /\ Holders' = Holders \union {r}
  <2>1. \A q : q \in Holders' <=> q \in Holders \/ q = r
    BY <1>1, <1>2, LineMembers, LineMembersLater
  <2>2. QED  BY <1>1, <2>1, LineMembers
<1>6. Cardinality(Holders) < Slots
  BY SlotsIsPositive, CountedSets DEF IInv, TypeOK, SlotConservation, AcquireFree
<1>7. Pool!Cardinality(Holders) = Cardinality(Holders)
  BY DEF Cardinality, Pool!Cardinality
<1>8. QED  BY <1>3, <1>4, <1>5, <1>6, <1>7 DEF Pool!Enter

LEMMA QueueJoins ==
  ASSUME IInv, NEW r \in Requests, AcquireQueue(r)
  PROVE  Pool!Join(r)
<1>1. /\ pc[r] = "idle" /\ pc' = [pc EXCEPT ![r] = "queued"]
      /\ pc \in [Requests -> Stage] /\ waiters \in Seq(Requests)
      /\ waiters' = Append(waiters, r)
  BY DEF IInv, TypeOK, AcquireQueue, Move
<1>2. \A q \in Requests : pc'[q] = IF q = r THEN "queued" ELSE pc[q]
  BY <1>1
<1>3. /\ \A x : Stands(waiters', x) <=> (Stands(waiters, x) \/ x = r)
      /\ \A x, y : InOrder(waiters', x, y)
                      <=> (InOrder(waiters, x, y) \/ (Stands(waiters, x) /\ y = r))
  BY <1>1, AppendOrder
<1>4. ~Stands(waiters, r)
  BY <1>1 DEF IInv, WaitersInv, Stands
<1>5. \A x, y : InOrder(waiters, x, y) => Stands(waiters, x) /\ Stands(waiters, y)
  BY DEF InOrder, Stands
<1>6. r \notin Holders /\ r \notin Listening /\ Holders' = Holders
  <2>1. \A q : q \in Holders' <=> q \in Holders
    BY <1>1, <1>2, LineMembers, LineMembersLater
  <2>2. QED  BY <1>1, <2>1, LineMembers DEF Waits
<1>7. Listening' = Listening \union {r}
  <2>1. \A q : q \in Listening' <=> q \in Listening \/ q = r
    BY <1>1, <1>2, <1>3, LineMembers, LineMembersLater DEF Waits
  <2>2. QED  BY <2>1
<1>8. Before' = Before \union (Listening \X {r})
  <2>1. \A p : p \in Before' <=> p \in Before \union (Listening \X {r})
    BY <1>3, <1>4, <1>5, <1>6, <1>7, LineMembers, LineMembersLater
  <2>2. QED  BY <2>1
<1>9. QED  BY <1>6, <1>7, <1>8 DEF Pool!Join

LEMMA CancelWalksOut ==
  ASSUME IInv, NEW r \in Requests, Cancel(r)
  PROVE  [Pool!Next]_(Pool!poolVars)
<1>1. /\ pc[r] \in {"queued", "parked"} /\ pc' = [pc EXCEPT ![r] = "cancelled"]
      /\ pc \in [Requests -> Stage] /\ waiters' = waiters
  BY DEF IInv, TypeOK, Cancel, Move
<1>2. \A q \in Requests : pc'[q] = IF q = r THEN "cancelled" ELSE pc[q]
  BY <1>1
<1>3. Holders' = Holders
  <2>1. \A q : q \in Holders' <=> q \in Holders
    BY <1>1, <1>2, LineMembers, LineMembersLater
  <2>2. QED  BY <2>1
<1>4. Pool!StepOut(r)
  <2>1. \A q : (q \in Requests /\ Waits(q)' /\ Stands(waiters', q))
                 <=> (q \in Listening /\ q # r)
    BY <1>1, <1>2, LineMembers DEF Waits
  <2>2. QED  BY <1>1, <2>1, OneStepsOut
<1>5. CASE r \in Listening
  BY <1>3, <1>4, <1>5 DEF Pool!Next, Pool!WalkOut
<1>6. CASE r \notin Listening
  <2>1. Listening' = Listening /\ Before' = Before
    BY <1>4, <1>6, LineMembers DEF Pool!StepOut
  <2>2. QED  BY <1>3, <2>1 DEF Pool!poolVars
<1>7. QED  BY <1>5, <1>6

(* Release pops the head of waiters, whatever it then finds. *)
LEMMA HeadPopped ==
  ASSUME IInv, NEW h \in Requests, pc[h] = "holding",
         waiters # <<>>, waiters' = Tail(waiters)
  PROVE  /\ Head(waiters) \in Requests /\ Stands(waiters, Head(waiters))
         /\ \A x : Stands(waiters', x) <=> (Stands(waiters, x) /\ x # Head(waiters))
         /\ \A x, y : InOrder(waiters', x, y)
                         <=> (InOrder(waiters, x, y) /\ x # Head(waiters))
         /\ Head(waiters) \in Listening => Pool!First(Head(waiters))
         /\ pc[Head(waiters)] \in {"queued", "parked", "cancelled"}
<1> DEFINE f == Head(waiters)
<1>1. /\ waiters \in Seq(Requests)
      /\ \A i, j \in DOMAIN waiters : waiters[i] = waiters[j] => i = j
      /\ \A i \in DOMAIN waiters : pc[waiters[i]] \in {"queued", "parked", "cancelled"}
  BY DEF IInv, TypeOK, WaitersInv
<1>2. f \in Requests /\ 1 \in DOMAIN waiters /\ f = waiters[1]
      /\ \A i \in DOMAIN waiters : ~(i < 1)
  BY <1>1
<1>3. \A x : Stands(Tail(waiters), x) <=> (x # f /\ Stands(waiters, x))
  BY <1>1, TailMembership, Zenon DEF Stands
<1>4. \A x, y : InOrder(Tail(waiters), x, y) <=> (InOrder(waiters, x, y) /\ x # f)
  BY <1>1, TailOrder, Zenon
<1>5. \A x : ~InOrder(waiters, x, f)
  BY <1>1, <1>2 DEF InOrder
<1>6. f \in Listening => Pool!First(f)
  BY <1>5, LineMembers DEF Pool!First
<1>7. QED  BY <1>1, <1>2, <1>3, <1>4, <1>6 DEF Stands

LEMMA HandHands ==
  ASSUME IInv, NEW h \in Requests, ReleaseHand(h)
  PROVE  \E r \in Requests : Pool!Hand(h, r)
<1> DEFINE f == Head(waiters)
<1>1. /\ pc[h] = "holding" /\ waiters # <<>> /\ waiters' = Tail(waiters)
      /\ pc[f] = "parked" /\ pc \in [Requests -> Stage]
      /\ pc' = [pc EXCEPT ![h] = "released", ![f] = "holding"]
  BY DEF ReleaseHand, IInv, TypeOK
<1>2. /\ f \in Requests /\ Stands(waiters, f)
      /\ \A x : Stands(waiters', x) <=> (Stands(waiters, x) /\ x # f)
      /\ \A x, y : InOrder(waiters', x, y) <=> (InOrder(waiters, x, y) /\ x # f)
      /\ f \in Listening => Pool!First(f)
  BY <1>1, HeadPopped
<1> HIDE DEF f
<1>3. f # h /\ \A q \in Requests :
        pc'[q] = IF q = f THEN "holding" ELSE IF q = h THEN "released" ELSE pc[q]
  BY <1>1, <1>2
<1>4. h \in Holders /\ Holders' = (Holders \ {h}) \union {f}
  <2>1. \A q : q \in Holders' <=> q \in (Holders \ {h}) \union {f}
    BY <1>2, <1>3, LineMembers, LineMembersLater
  <2>2. QED  BY <1>1, <2>1, LineMembers
<1>5. f \in Listening  BY <1>1, <1>2, LineMembers DEF Waits
<1>6. Pool!StepOut(f)
  <2>1. \A q : (q \in Requests /\ Waits(q)' /\ Stands(waiters', q))
                 <=> (q \in Listening /\ q # f)
    BY <1>1, <1>2, <1>3, LineMembers DEF Waits
  <2>2. QED  BY <1>2, <2>1, OneStepsOut
<1>7. Pool!Hand(h, f)  BY <1>2, <1>4, <1>5, <1>6 DEF Pool!Hand
<1>8. QED  BY <1>2, <1>7

LEMMA DropSkips ==
  ASSUME IInv, NEW h \in Requests, ReleaseDrop(h)
  PROVE  Pool!Leave(h) \/ \E r \in Requests : Pool!Skip(h, r)
<1> DEFINE f == Head(waiters)
<1>1. /\ pc[h] = "holding" /\ waiters # <<>> /\ waiters' = Tail(waiters)
      /\ pc[f] # "parked" /\ pc \in [Requests -> Stage]
      /\ pc' = [pc EXCEPT ![h] = "released"]
  BY DEF ReleaseDrop, Move, IInv, TypeOK
<1>2. /\ f \in Requests /\ Stands(waiters, f)
      /\ \A x : Stands(waiters', x) <=> (Stands(waiters, x) /\ x # f)
      /\ \A x, y : InOrder(waiters', x, y) <=> (InOrder(waiters, x, y) /\ x # f)
      /\ f \in Listening => Pool!First(f)
      /\ pc[f] \in {"queued", "parked", "cancelled"}
  BY <1>1, HeadPopped
<1> HIDE DEF f
<1>3. \A q \in Requests : pc'[q] = IF q = h THEN "released" ELSE pc[q]
  BY <1>1
<1>4. h \in Holders /\ Holders' = Holders \ {h}
  <2>1. \A q : q \in Holders' <=> q \in Holders \ {h}
    BY <1>3, LineMembers, LineMembersLater
  <2>2. QED  BY <1>1, <2>1, LineMembers
<1>5. Pool!StepOut(f)
  <2>1. \A q : (q \in Requests /\ Waits(q)' /\ Stands(waiters', q))
                 <=> (q \in Listening /\ q # f)
    BY <1>1, <1>2, <1>3, LineMembers DEF Waits
  <2>2. QED  BY <1>2, <2>1, OneStepsOut
<1>6. CASE f \in Listening
  BY <1>2, <1>4, <1>5, <1>6 DEF Pool!Skip
<1>7. CASE f \notin Listening
  <2>1. Listening' = Listening /\ Before' = Before
    BY <1>5, <1>7, LineMembers DEF Pool!StepOut
  <2>2. QED  BY <1>4, <2>1 DEF Pool!Leave
<1>8. QED  BY <1>6, <1>7

LEMMA FreeLeaves ==
  ASSUME IInv, NEW h \in Requests, ReleaseFree(h)
  PROVE  Pool!Leave(h)
<1>1. /\ pc[h] = "holding" /\ pc' = [pc EXCEPT ![h] = "released"]
      /\ pc \in [Requests -> Stage] /\ waiters' = waiters
  BY DEF IInv, TypeOK, ReleaseFree, Move
<1>2. \A q \in Requests : pc'[q] = IF q = h THEN "released" ELSE pc[q]
  BY <1>1
<1>3. Listening' = Listening /\ Before' = Before
  BY <1>1, <1>2, LineUnmoved DEF Waits
<1>4. h \in Holders /\ Holders' = Holders \ {h}
  <2>1. \A q : q \in Holders' <=> q \in Holders \ {h}
    BY <1>2, LineMembers, LineMembersLater
  <2>2. QED  BY <1>1, <2>1, LineMembers
<1>5. QED  BY <1>3, <1>4 DEF Pool!Leave

LEMMA ParkIsUnseen ==
  ASSUME IInv, NEW r \in Requests, Park(r)
  PROVE  UNCHANGED Pool!poolVars
<1>1. /\ pc[r] = "queued" /\ pc' = [pc EXCEPT ![r] = "parked"]
      /\ pc \in [Requests -> Stage] /\ waiters' = waiters
  BY DEF IInv, TypeOK, Park, Move
<1>2. \A q \in Requests : pc'[q] = IF q = r THEN "parked" ELSE pc[q]
  BY <1>1
<1>3. Listening' = Listening /\ Before' = Before
  BY <1>1, <1>2, LineUnmoved DEF Waits
<1>4. \A q : q \in Holders' <=> q \in Holders
  BY <1>1, <1>2, LineMembers, LineMembersLater
<1>5. Holders' = Holders  BY <1>4
<1>6. QED  BY <1>3, <1>5 DEF Pool!poolVars

LEMMA PoolStarts == Init => Pool!Init
<1> SUFFICES ASSUME Init PROVE Pool!Init
  OBVIOUS
<1>1. Holders = {}  BY DEF Init, Holders, At
<1>2. Listening = {}  BY DEF Init, Listening, At
<1>3. Before = {}  BY <1>2 DEF Before
<1>4. QED  BY <1>1, <1>2, <1>3 DEF Pool!Init

LEMMA PoolSteps == IInv /\ [Next]_vars => [Pool!Next]_(Pool!poolVars)
<1> SUFFICES ASSUME IInv, [Next]_vars PROVE [Pool!Next]_(Pool!poolVars)
  OBVIOUS
<1>1. ASSUME NEW r \in Requests, AcquireFree(r) PROVE Pool!Next
  BY <1>1, FreeEnters DEF Pool!Next
<1>2. ASSUME NEW r \in Requests, AcquireQueue(r) PROVE Pool!Next
  BY <1>2, QueueJoins DEF Pool!Next
<1>3. ASSUME NEW r \in Requests, Park(r) PROVE UNCHANGED Pool!poolVars
  BY <1>3, ParkIsUnseen
<1>4. ASSUME NEW r \in Requests, Cancel(r) PROVE [Pool!Next]_(Pool!poolVars)
  BY <1>4, CancelWalksOut
<1>5. ASSUME NEW r \in Requests, ReleaseHand(r) PROVE Pool!Next
  BY <1>5, HandHands DEF Pool!Next
<1>6. ASSUME NEW r \in Requests, ReleaseDrop(r) PROVE Pool!Next
  BY <1>6, DropSkips DEF Pool!Next
<1>7. ASSUME NEW r \in Requests, ReleaseFree(r) PROVE Pool!Next
  BY <1>7, FreeLeaves DEF Pool!Next
<1>8. CASE UNCHANGED vars
  <2>1. Listening' = Listening /\ Before' = Before /\ Holders' = Holders
    BY <1>8 DEF vars, Listening, Before, Holders, At, InWaiters
  <2>2. QED  BY <2>1 DEF Pool!poolVars
<1>9. QED
  BY <1>1, <1>2, <1>3, <1>4, <1>5, <1>6, <1>7, <1>8 DEF Next, Release

(* The limiter keeps the pool's promise: at most Slots requests hold a     *)
(* slot, and who queued first enters first (Semaphore.Acquire, Release).   *)
THEOREM ServedInOrder == Spec => FirstComeFirstServed
  BY PoolStarts, PoolSteps, InvariantHolds, PTL
     DEF Spec, FirstComeFirstServed, Pool!Spec
=============================================================================
