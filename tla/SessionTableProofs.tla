------------------------- MODULE SessionTableProofs -------------------------
(***************************************************************************)
(* What TLAPS proves of the session table, for every set of sessions and   *)
(* calls, every cap and every batch size.                                  *)
(*                                                                         *)
(* A call is recorded in four places: its session's list, the index, its   *)
(* Resolved flag and its Resolver.  The invariant says how they agree in   *)
(* the gaps between critical sections, where toIndex and toUnindex name    *)
(* the calls for which they do not agree yet.                              *)
(***************************************************************************)
EXTENDS SessionTable, FiniteSetTheorems, TLAPS

(* A call was announced once, by one session, and that session exists. *)
OwnersInv ==
  /\ \A s \in Sessions : \A i, j \in DOMAIN pending[s] :
       pending[s][i] = pending[s][j] => i = j
  /\ \A s, t \in Sessions : \A c \in CallsOf(s) : c \in CallsOf(t) => s = t
  /\ \A s \in Sessions : CallsOf(s) # {} => s \in created

(* Resolved and Resolver change together, and only for announced calls. *)
OutcomesInv ==
  /\ \A c \in Calls : resolver[c] # "empty" <=> c \in resolved
  /\ \A c \in resolved \union claimed : \E s \in Sessions : c \in CallsOf(s)
  /\ \A s \in Sessions \ table : CallsOf(s) \subseteq resolved

(* Between two sections: a live session's call is resolved only after it   *)
(* was indexed, and only resolved calls are about to leave the index.      *)
GapsInv ==
  /\ \A s \in table : \A c \in CallsOf(s) : c \in toIndex => c \notin resolved
  /\ toUnindex \subseteq resolved

IInv ==
  /\ TypeOK
  /\ OwnersInv
  /\ OutcomesInv
  /\ GapsInv
  /\ IndexIsFaithful
  /\ StaleHitsAreBrief
  /\ ClaimsInOrder

-----------------------------------------------------------------------------
LEMMA CallsOfMember ==
  ASSUME NEW s
  PROVE  \A c : c \in CallsOf(s) <=> \E i \in DOMAIN pending[s] : pending[s][i] = c
  BY DEF CallsOf, ToSet

(* What an announcement does to the sessions' lists. *)
LEMMA Appended ==
  ASSUME NEW p \in Seq(Calls), NEW b \in Seq(Calls)
  PROVE  /\ p \o b \in Seq(Calls)
         /\ Len(p) \in Nat /\ Len(b) \in Nat
         /\ DOMAIN p = 1..Len(p) /\ DOMAIN b = 1..Len(b)
         /\ DOMAIN (p \o b) = 1..(Len(p) + Len(b))
         /\ \A i \in 1..Len(p) : (p \o b)[i] = p[i]
         /\ \A i \in (Len(p) + 1)..(Len(p) + Len(b)) :
              i - Len(p) \in 1..Len(b) /\ (p \o b)[i] = b[i - Len(p)]
  OBVIOUS

LEMMA BatchesAreSequences ==
  ASSUME NEW b \in Batches
  PROVE  /\ b \in Seq(Calls)
         /\ \A i \in DOMAIN b : b[i] \in Calls \ Minted
         /\ \A i, j \in DOMAIN b : b[i] = b[j] => i = j
<1>1. PICK m \in 0..MaxBatch : b \in [1..m -> Calls \ Minted]
  BY DEF Batches, BoundedSeq, SeqOf
<1>2. b \in Seq(Calls \ Minted)
  BY <1>1, BoundsAssumption
<1>3. \A i, j \in DOMAIN b : b[i] = b[j] => i = j
  BY DEF Batches, IsInjective
<1>4. QED  BY <1>1, <1>2, <1>3

LEMMA RegisterLists ==
  ASSUME TypeOK, NEW s \in Sessions, NEW batch \in Batches,
         RegisterUnchecked(s, batch)
  PROVE  /\ pending' \in [Sessions -> Seq(Calls)]
         /\ CallsOf(s)' = CallsOf(s) \union ToSet(batch)
         /\ \A t \in Sessions \ {s} : CallsOf(t)' = CallsOf(t)
         /\ ToSet(batch) \subseteq Calls \ Minted
<1>1. /\ pending \in [Sessions -> Seq(Calls)]
      /\ pending' = [pending EXCEPT ![s] = pending[s] \o batch]
  BY DEF TypeOK, RegisterUnchecked
<1>2. /\ batch \in Seq(Calls)
      /\ \A i \in DOMAIN batch : batch[i] \in Calls \ Minted
  BY BatchesAreSequences
<1> DEFINE p == pending[s]
<1>3. p \in Seq(Calls)  BY <1>1
<1>4. /\ p \o batch \in Seq(Calls)
      /\ Len(p) \in Nat /\ Len(batch) \in Nat
      /\ DOMAIN p = 1..Len(p) /\ DOMAIN batch = 1..Len(batch)
      /\ DOMAIN (p \o batch) = 1..(Len(p) + Len(batch))
      /\ \A i \in 1..Len(p) : (p \o batch)[i] = p[i]
      /\ \A i \in (Len(p) + 1)..(Len(p) + Len(batch)) :
           i - Len(p) \in 1..Len(batch) /\ (p \o batch)[i] = batch[i - Len(p)]
  BY <1>2, <1>3, Appended
<1>5. pending'[s] = p \o batch  BY <1>1
<1>6. ASSUME NEW c PROVE c \in CallsOf(s)' <=> c \in CallsOf(s) \union ToSet(batch)
  <2>1. c \in CallsOf(s)' <=> \E i \in DOMAIN (p \o batch) : (p \o batch)[i] = c
    BY <1>5 DEF CallsOf, ToSet
  <2>2. c \in CallsOf(s) <=> \E i \in DOMAIN p : p[i] = c
    BY DEF CallsOf, ToSet
  <2>3. c \in ToSet(batch) <=> \E i \in DOMAIN batch : batch[i] = c
    BY DEF ToSet
  <2>4. ASSUME NEW i \in DOMAIN p PROVE i \in DOMAIN (p \o batch) /\ (p \o batch)[i] = p[i]
    BY <1>4
  <2>5. ASSUME NEW i \in DOMAIN batch
        PROVE  /\ i + Len(p) \in DOMAIN (p \o batch)
               /\ (p \o batch)[i + Len(p)] = batch[i]
    <3> DEFINE k == i + Len(p)
    <3>1. k \in (Len(p) + 1)..(Len(p) + Len(batch)) /\ k - Len(p) = i  BY <1>4
    <3>2. QED  BY <1>4, <3>1
  <2>6. ASSUME NEW i \in DOMAIN (p \o batch)
        PROVE  \/ i \in DOMAIN p /\ (p \o batch)[i] = p[i]
               \/ i - Len(p) \in DOMAIN batch /\ (p \o batch)[i] = batch[i - Len(p)]
    BY <1>4
  <2> HIDE DEF p
  <2>7. QED  BY <2>1, <2>2, <2>3, <2>4, <2>5, <2>6
<1>7. \A t \in Sessions \ {s} : CallsOf(t)' = CallsOf(t)
  BY <1>1 DEF CallsOf
<1>8. pending' \in [Sessions -> Seq(Calls)]  BY <1>1, <1>4
<1>9. ToSet(batch) \subseteq Calls \ Minted  BY <1>2 DEF ToSet
<1>10. CallsOf(s)' = CallsOf(s) \union ToSet(batch)  BY <1>6
<1> QED  BY <1>7, <1>8, <1>9, <1>10

(* Where a position of s's list comes from after batch was appended. *)
OldAt(s, i) ==
  /\ i \in DOMAIN pending[s]
  /\ i \in 1..Len(pending[s])
  /\ pending'[s][i] = pending[s][i]

NewAt(s, batch, i) ==
  /\ i \in Nat
  /\ i > Len(pending[s])
  /\ i - Len(pending[s]) \in DOMAIN batch
  /\ pending'[s][i] = batch[i - Len(pending[s])]

LEMMA RegisterPositions ==
  ASSUME TypeOK, NEW s \in Sessions, NEW batch \in Batches,
         RegisterUnchecked(s, batch)
  PROVE  /\ \A i \in DOMAIN pending'[s] : OldAt(s, i) \/ NewAt(s, batch, i)
         /\ Len(pending[s]) \in Nat
<1> DEFINE p == pending[s]
<1>1. p \in Seq(Calls) /\ pending'[s] = p \o batch
  BY DEF TypeOK, RegisterUnchecked
<1>2. batch \in Seq(Calls)  BY BatchesAreSequences
<1>3. /\ Len(p) \in Nat /\ Len(batch) \in Nat
      /\ DOMAIN p = 1..Len(p) /\ DOMAIN batch = 1..Len(batch)
      /\ DOMAIN (p \o batch) = 1..(Len(p) + Len(batch))
      /\ \A i \in 1..Len(p) : (p \o batch)[i] = p[i]
      /\ \A i \in (Len(p) + 1)..(Len(p) + Len(batch)) :
           i - Len(p) \in 1..Len(batch) /\ (p \o batch)[i] = batch[i - Len(p)]
  BY <1>1, <1>2, Appended
<1>4. QED  BY <1>1, <1>3 DEF OldAt, NewAt

LEMMA MintedMember ==
  \A c : c \in Minted <=> \E s \in Sessions : c \in CallsOf(s)
  BY DEF Minted

LEMMA SameLists ==
  ASSUME pending' = pending
  PROVE  \A s : CallsOf(s)' = CallsOf(s)
  BY DEF CallsOf

-----------------------------------------------------------------------------
THEOREM InitInvariant == Init => IInv
<1> SUFFICES ASSUME Init PROVE IInv
  OBVIOUS
<1>1. \A s \in Sessions : pending[s] = <<>> /\ CallsOf(s) = {}
  BY DEF Init, CallsOf, ToSet
<1>2. TypeOK
  <2>1. Cardinality({}) <= MaxSessions
    BY FS_EmptySet, BoundsAssumption
  <2>2. QED  BY <2>1 DEF Init, TypeOK, Limits, NoSweep
<1>3. OwnersInv /\ OutcomesInv /\ GapsInv
  BY <1>1 DEF Init, OwnersInv, OutcomesInv, GapsInv
<1>4. IndexIsFaithful /\ StaleHitsAreBrief /\ ClaimsInOrder
  BY <1>1, SessionsAssumption
     DEF Init, IndexIsFaithful, StaleHitsAreBrief, ClaimsInOrder
<1>5. QED  BY <1>2, <1>3, <1>4 DEF IInv

-----------------------------------------------------------------------------
(* One lemma for each kind of step.                                        *)

(* Steps that touch no record of a call: the process, time, the sweeper's  *)
(* bookkeeping.                                                            *)
LEMMA QuietStep ==
  ASSUME IInv, TypeOK',
         UNCHANGED <<created, table, index, pending, claimed, resolved,
                     resolver, toIndex, toUnindex>>
  PROVE  IInv'
<1>1. \A s : CallsOf(s)' = CallsOf(s)  BY SameLists
<1>2. OwnersInv' /\ OutcomesInv' /\ GapsInv'
  BY <1>1 DEF IInv, OwnersInv, OutcomesInv, GapsInv
<1>3. IndexIsFaithful' /\ StaleHitsAreBrief' /\ ClaimsInOrder'
  BY <1>1 DEF IInv, IndexIsFaithful, StaleHitsAreBrief, ClaimsInOrder
<1>4. QED  BY <1>2, <1>3 DEF IInv

LEMMA CreateStep ==
  ASSUME IInv, NEW s \in Sessions, CreateSession(s)
  PROVE  IInv'
<1> USE DEF CreateSession
<1>1. \A t : CallsOf(t)' = CallsOf(t)  BY SameLists
<1>2. CallsOf(s) = {} /\ s \notin table
  BY DEF IInv, OwnersInv, TypeOK
<1>3. TypeOK'
  <2>1. IsFiniteSet(table) /\ Cardinality(table) \in Nat
    BY SessionsAssumption, FS_Subset, FS_CardinalityType DEF IInv, TypeOK
  <2>2. Cardinality(table \union {s}) = Cardinality(table) + 1
    BY <1>2, <2>1, FS_AddElement
  <2>3. Cardinality(table') <= MaxSessions
    BY <2>1, <2>2, BoundsAssumption
  <2>4. QED  BY <2>3, <1>2 DEF IInv, TypeOK
<1>4. OwnersInv' /\ OutcomesInv' /\ GapsInv'
  BY <1>1, <1>2 DEF IInv, OwnersInv, OutcomesInv, GapsInv
<1>5. StaleHitsAreBrief'
  BY <1>1, <1>2, SessionsAssumption DEF IInv, TypeOK, IndexIsFaithful, StaleHitsAreBrief
<1>6. IndexIsFaithful' /\ ClaimsInOrder'
  BY <1>1, <1>2 DEF IInv, IndexIsFaithful, ClaimsInOrder
<1>7. QED  BY <1>3, <1>4, <1>5, <1>6 DEF IInv

LEMMA RegisterStep ==
  ASSUME IInv, NEW s \in Sessions, NEW batch \in Batches, Register(s, batch)
  PROVE  IInv'
<1> DEFINE fresh == ToSet(batch)
<1>1. RegisterUnchecked(s, batch) /\ s \notin reaped  BY DEF Register
<1>2. /\ pending' \in [Sessions -> Seq(Calls)]
      /\ CallsOf(s)' = CallsOf(s) \union fresh
      /\ \A t \in Sessions \ {s} : CallsOf(t)' = CallsOf(t)
      /\ fresh \subseteq Calls \ Minted
  BY <1>1, RegisterLists DEF IInv
<1>3. /\ s \in created /\ s \in table
      /\ toIndex' = toIndex \union fresh
      /\ overdue' = [overdue EXCEPT ![s] = {}]
      /\ UNCHANGED <<created, table, index, reaped, cmd, claimed, resolved,
                      resolver, toUnindex, sweep, open>>
  BY <1>1 DEF RegisterUnchecked, IInv, TypeOK
<1>4. \A c \in fresh : \A t \in Sessions : c \notin CallsOf(t)
  BY <1>2, MintedMember
<1>5. \A c \in fresh : c \notin resolved /\ c \notin claimed
  BY <1>4 DEF IInv, OutcomesInv
<1> HIDE DEF fresh
<1>14. /\ \A i \in DOMAIN pending'[s] : OldAt(s, i) \/ NewAt(s, batch, i)
       /\ Len(pending[s]) \in Nat
  BY <1>1, RegisterPositions DEF IInv
<1>6. TypeOK'
  BY <1>2, <1>3 DEF IInv, TypeOK
<1>7. \A t \in Sessions : \A i, j \in DOMAIN pending'[t] :
        pending'[t][i] = pending'[t][j] => i = j
  <2> SUFFICES ASSUME NEW i \in DOMAIN pending'[s], NEW j \in DOMAIN pending'[s],
                      pending'[s][i] = pending'[s][j]
               PROVE  i = j
    BY <1>1 DEF RegisterUnchecked, IInv, TypeOK, OwnersInv
  <2>1. CASE OldAt(s, i) /\ OldAt(s, j)
    BY <2>1 DEF OldAt, IInv, OwnersInv
  <2>2. CASE NewAt(s, batch, i) /\ NewAt(s, batch, j)
    <3>1. i - Len(pending[s]) = j - Len(pending[s])
      BY <2>2, BatchesAreSequences DEF NewAt
    <3>2. QED  BY <3>1, <2>2, <1>14 DEF NewAt
  <2>3. CASE OldAt(s, i) /\ NewAt(s, batch, j)
    <3>1. pending'[s][i] \in CallsOf(s)  BY <2>3, CallsOfMember DEF OldAt
    <3>2. pending'[s][j] \in fresh  BY <2>3 DEF NewAt, fresh, ToSet
    <3>3. QED  BY <1>4, <3>1, <3>2
  <2>4. CASE NewAt(s, batch, i) /\ OldAt(s, j)
    <3>1. pending'[s][j] \in CallsOf(s)  BY <2>4, CallsOfMember DEF OldAt
    <3>2. pending'[s][i] \in fresh  BY <2>4 DEF NewAt, fresh, ToSet
    <3>3. QED  BY <1>4, <3>1, <3>2
  <2>5. QED  BY <1>14, <2>1, <2>2, <2>3, <2>4
<1>8. OwnersInv'
  <2>1. \A t, u \in Sessions : \A c \in CallsOf(t)' : c \in CallsOf(u)' => t = u
    BY <1>2, <1>4 DEF IInv, OwnersInv
  <2>2. \A t \in Sessions : CallsOf(t)' # {} => t \in created'
    BY <1>2, <1>3 DEF IInv, OwnersInv
  <2>3. QED  BY <1>7, <2>1, <2>2 DEF OwnersInv
<1>9. OutcomesInv'
  BY <1>2, <1>3 DEF IInv, OutcomesInv
<1>10. GapsInv'
  <2> SUFFICES ASSUME NEW t \in table, NEW c \in CallsOf(t)', c \in toIndex \union fresh
               PROVE  c \notin resolved
    BY <1>3 DEF IInv, GapsInv
  <2>1. CASE c \in fresh  BY <1>5, <2>1
  <2>2. CASE c \notin fresh
    <3>1. t \in Sessions /\ c \in CallsOf(t)
      BY <1>2, <2>2 DEF IInv, TypeOK
    <3>2. QED  BY <2>2, <3>1 DEF IInv, GapsInv
  <2>3. QED  BY <2>1, <2>2
<1>11. IndexIsFaithful' /\ StaleHitsAreBrief'
  <2>1. \A t \in Sessions : CallsOf(t) \subseteq CallsOf(t)'
    BY <1>2
  <2>2. \A t \in Sessions : \A c \in Calls : index[c] = t => c \in CallsOf(t)'
    BY <2>1 DEF IInv, IndexIsFaithful
  <2>3. ASSUME NEW t \in table, NEW c \in CallsOf(t)'
        PROVE  c \in resolved \union toIndex \union fresh \/ index[c] = t
    <3>1. t \in Sessions  BY DEF IInv, TypeOK
    <3>2. c \in fresh \/ c \in CallsOf(t)  BY <1>2, <3>1
    <3>3. QED  BY <3>2 DEF IInv, IndexIsFaithful
  <2>4. QED  BY <1>3, <2>2, <2>3 DEF IInv, IndexIsFaithful, StaleHitsAreBrief
<1>12. ClaimsInOrder'
  <2> SUFFICES ASSUME NEW i \in DOMAIN pending'[s], NEW j \in DOMAIN pending'[s],
                      i < j,
                      SignatureOf[pending'[s][i]] = SignatureOf[pending'[s][j]],
                      pending'[s][j] \in claimed
               PROVE  pending'[s][i] \in claimed
    BY <1>1, <1>3 DEF RegisterUnchecked, IInv, TypeOK, ClaimsInOrder
  <2>1. OldAt(s, j)
    BY <1>5, <1>14 DEF NewAt, fresh, ToSet
  <2>2. OldAt(s, i)
    BY <1>14, <2>1 DEF OldAt, NewAt
  <2>3. QED  BY <2>1, <2>2 DEF OldAt, IInv, ClaimsInOrder
<1>13. QED  BY <1>6, <1>8, <1>9, <1>10, <1>11, <1>12 DEF IInv

(* From here on the lists do not change. *)
LEMMA SameListsKeepOwners ==
  ASSUME OwnersInv, UNCHANGED pending, created' = created
  PROVE  OwnersInv' /\ \A s : CallsOf(s)' = CallsOf(s)
<1>1. \A s : CallsOf(s)' = CallsOf(s)  BY SameLists
<1>2. QED  BY <1>1 DEF OwnersInv

LEMMA IndexStep ==
  ASSUME IInv, NEW s \in Sessions, IndexRegistered(s)
  PROVE  IInv'
<1> USE DEF IndexRegistered
<1>1. TypeOK'  BY DEF IInv, TypeOK
<1>2. OwnersInv' /\ \A t : CallsOf(t)' = CallsOf(t)
  BY SameListsKeepOwners DEF IInv
<1>3. OutcomesInv' /\ GapsInv' /\ ClaimsInOrder'
  BY <1>2 DEF IInv, OutcomesInv, GapsInv, ClaimsInOrder
<1>4. \A c \in Calls : index'[c] = IF c \in toIndex /\ c \in CallsOf(s) THEN s ELSE index[c]
  OBVIOUS
<1>5. IndexIsFaithful'
  <2>1. \A t \in Sessions : \A c \in Calls : index'[c] = t => c \in CallsOf(t)
    BY <1>4 DEF IInv, IndexIsFaithful
  <2>2. ASSUME NEW t \in table, NEW c \in CallsOf(t),
               c \notin resolved \union (toIndex \ CallsOf(s))
        PROVE  index'[c] = t
    <3>1. t \in Sessions /\ c \in Calls
      BY CallsOfMember DEF IInv, TypeOK
    <3>2. c \in CallsOf(s) => t = s
      BY <3>1 DEF IInv, OwnersInv
    <3>3. c \in toIndex \/ index[c] = t
      BY <2>2 DEF IInv, IndexIsFaithful
    <3>4. QED  BY <1>4, <2>2, <3>1, <3>2, <3>3
  <2>3. QED  BY <1>2, <2>1, <2>2 DEF IndexIsFaithful
<1>6. StaleHitsAreBrief'
  <2> SUFFICES ASSUME NEW c \in Calls, index'[c] \in table, c \in resolved
               PROVE  c \in toUnindex
    BY DEF StaleHitsAreBrief
  <2>1. ~(c \in toIndex /\ c \in CallsOf(s))
    BY <1>4 DEF IInv, GapsInv
  <2>2. QED  BY <1>4, <2>1 DEF IInv, StaleHitsAreBrief
<1>7. QED  BY <1>1, <1>2, <1>3, <1>5, <1>6 DEF IInv

LEMMA ResolveStep ==
  ASSUME IInv, NEW s \in Sessions, NEW c \in Calls, Resolve(s, c)
  PROVE  IInv'
<1> USE DEF Resolve, ResolveUnchecked, Send
<1>1. TypeOK'  BY DEF IInv, TypeOK
<1>2. OwnersInv' /\ \A t : CallsOf(t)' = CallsOf(t)
  BY SameListsKeepOwners DEF IInv
<1>3. OutcomesInv'
  BY <1>2 DEF IInv, TypeOK, OutcomesInv
<1>4. GapsInv'
  BY <1>2 DEF IInv, GapsInv
<1>5. IndexIsFaithful' /\ StaleHitsAreBrief' /\ ClaimsInOrder'
  BY <1>2 DEF IInv, IndexIsFaithful, StaleHitsAreBrief, ClaimsInOrder
<1>6. QED  BY <1>1, <1>2, <1>3, <1>4, <1>5 DEF IInv

LEMMA UnindexStep ==
  ASSUME IInv, NEW c \in Calls, Unindex(c)
  PROVE  IInv'
<1> USE DEF Unindex
<1>1. TypeOK'  BY DEF IInv, TypeOK
<1>2. OwnersInv' /\ \A t : CallsOf(t)' = CallsOf(t)
  BY SameListsKeepOwners DEF IInv
<1>3. OutcomesInv' /\ GapsInv' /\ ClaimsInOrder'
  BY <1>2 DEF IInv, OutcomesInv, GapsInv, ClaimsInOrder
<1>4. c \in resolved  BY DEF IInv, GapsInv
<1>5. \A d \in Calls : index'[d] = IF d = c THEN NoSession ELSE index[d]
  BY DEF IInv, TypeOK
<1>6. NoSession \notin Sessions /\ table \subseteq Sessions
  BY SessionsAssumption DEF IInv, TypeOK
<1>7. IndexIsFaithful'
  <2>1. \A t \in Sessions : \A d \in Calls : index'[d] = t => d \in CallsOf(t)
    BY <1>5, <1>6 DEF IInv, IndexIsFaithful
  <2>2. \A t \in table : \A d \in CallsOf(t) :
          d \in resolved \union toIndex \/ index'[d] = t
    BY <1>4 DEF IInv, TypeOK, IndexIsFaithful
  <2>3. QED  BY <1>2, <2>1, <2>2 DEF IndexIsFaithful
<1>8. StaleHitsAreBrief'
  BY <1>5, <1>6 DEF IInv, StaleHitsAreBrief
<1>9. QED  BY <1>1, <1>2, <1>3, <1>7, <1>8 DEF IInv

LEMMA ClaimStep ==
  ASSUME IInv, NEW s \in Sessions, NEW sig \in Range(SignatureOf), Claim(s, sig)
  PROVE  IInv'
<1>1. PICK c \in Claimable(s, sig) :
        /\ claimed' = claimed \union {c}
        /\ overdue' = [overdue EXCEPT ![s] = {}]
        /\ UNCHANGED <<created, table, index, pending, reaped, cmd, resolved,
                       resolver, toIndex, toUnindex, sweep, open>>
  BY DEF Claim
<1>2. PICK k \in Matching(s, sig) :
        c = pending[s][k] /\ \A j \in Matching(s, sig) : k <= j
  BY DEF Claimable
<1>3. k \in DOMAIN pending[s] /\ c \notin claimed /\ SignatureOf[c] = sig
  BY <1>2 DEF Matching
<1>4. c \in Calls /\ c \in CallsOf(s)
  BY <1>2, <1>3, CallsOfMember DEF IInv, TypeOK
<1>5. OwnersInv' /\ \A t : CallsOf(t)' = CallsOf(t)
  BY <1>1, SameListsKeepOwners DEF IInv
<1>6. TypeOK'  BY <1>1, <1>4 DEF IInv, TypeOK
<1>7. OutcomesInv' /\ GapsInv' /\ IndexIsFaithful' /\ StaleHitsAreBrief'
  BY <1>1, <1>4, <1>5
     DEF IInv, OutcomesInv, GapsInv, IndexIsFaithful, StaleHitsAreBrief
<1>8. ClaimsInOrder'
  <2> SUFFICES ASSUME NEW t \in Sessions, NEW i \in DOMAIN pending[t],
                      NEW j \in DOMAIN pending[t], i < j,
                      SignatureOf[pending[t][i]] = SignatureOf[pending[t][j]],
                      pending[t][j] \in claimed \union {c}
               PROVE  pending[t][i] \in claimed \union {c}
    BY <1>1 DEF ClaimsInOrder
  <2>1. CASE pending[t][j] \in claimed
    BY <2>1 DEF IInv, ClaimsInOrder
  <2>2. CASE pending[t][j] = c
    <3>1. c \in CallsOf(t)  BY <2>2, CallsOfMember
    <3>2. t = s  BY <1>4, <3>1 DEF IInv, OwnersInv
    <3>3. j = k  BY <1>2, <1>3, <2>2, <3>2 DEF IInv, OwnersInv
    <3>4. i \in Int /\ k \in Int /\ ~(k <= i)
      BY <1>3, <3>2, <3>3 DEF IInv, TypeOK
    <3>5. i \notin Matching(s, sig)  BY <1>2, <3>4
    <3>6. QED  BY <1>3, <2>2, <3>2, <3>5 DEF Matching
  <2>3. QED  BY <2>1, <2>2
<1>9. QED  BY <1>5, <1>6, <1>7, <1>8 DEF IInv

LEMMA ReapStep ==
  ASSUME IInv, NEW S, ReapLocked(S), sweep' \in [on: BOOLEAN,
               left: SUBSET Sessions, doomed: SUBSET Sessions],
         open' \in BOOLEAN
  PROVE  IInv'
<1> DEFINE gone == S \intersect table
           left == (UNION {CallsOf(s) : s \in gone}) \ resolved
<1>1. /\ reaped' = reaped \union gone
      /\ resolved' = resolved \union left
      /\ resolver' = [c \in Calls |-> IF c \in left THEN "closed" ELSE resolver[c]]
      /\ cmd' = [s \in Sessions |->
                   IF s \in gone /\ cmd[s] = "running" THEN "killed" ELSE cmd[s]]
      /\ table' = table \ gone
      /\ index' = ClearIndex(gone)
      /\ overdue' = [s \in Sessions |-> IF s \in gone THEN {} ELSE overdue[s]]
      /\ UNCHANGED <<created, pending, claimed, toIndex, toUnindex>>
  BY DEF ReapLocked
<1>2. \A c : c \in left <=> c \notin resolved /\ \E s \in gone : c \in CallsOf(s)
  OBVIOUS
<1>3. gone \subseteq table /\ table \subseteq Sessions
  BY DEF IInv, TypeOK
<1> HIDE DEF gone, left
<1>4. \A s \in Sessions : CallsOf(s) \subseteq Calls
  BY CallsOfMember DEF IInv, TypeOK
<1>5. left \subseteq Calls  BY <1>2, <1>3, <1>4
<1>6. \A c \in Calls : index'[c] = IF index[c] \in gone THEN NoSession ELSE index[c]
  BY <1>1 DEF ClearIndex
<1>7. OwnersInv' /\ \A s : CallsOf(s)' = CallsOf(s)
  BY <1>1, SameListsKeepOwners DEF IInv
<1>8. TypeOK'
  <2>1. /\ IsFiniteSet(table) /\ Cardinality(table) \in Nat
        /\ IsFiniteSet(table') /\ Cardinality(table') \in Nat
        /\ Cardinality(table') <= Cardinality(table)
    BY <1>1, <1>3, SessionsAssumption, FS_Subset, FS_CardinalityType
  <2>2. Cardinality(table') <= MaxSessions
    BY <2>1, BoundsAssumption DEF IInv, TypeOK
  <2>3. index' \in [Calls -> Sessions \union {NoSession}]
    BY <1>1 DEF ClearIndex, IInv, TypeOK
  <2>4. resolver' \in [Calls -> {"empty", "result", "closed"}]
    BY <1>1 DEF IInv, TypeOK
  <2>5. overdue' \in [Sessions -> SUBSET Limits]
    BY <1>1 DEF IInv, TypeOK
  <2>6. cmd' \in [Sessions -> {"none", "running", "killed"}]
    BY <1>1 DEF IInv, TypeOK
  <2>7. /\ created' \subseteq Sessions /\ table' \subseteq created'
        /\ reaped' = created' \ table'
    BY <1>1, <1>3 DEF IInv, TypeOK
  <2>8. /\ pending' \in [Sessions -> Seq(Calls)] /\ claimed' \subseteq Calls
        /\ resolved' \subseteq Calls /\ toIndex' \subseteq Calls
        /\ toUnindex' \subseteq Calls
    BY <1>1, <1>5 DEF IInv, TypeOK
  <2>9. QED  BY <2>2, <2>3, <2>4, <2>5, <2>6, <2>7, <2>8 DEF TypeOK
<1>9. OutcomesInv'
  <2>1. \A c \in Calls : resolver'[c] # "empty" <=> c \in resolved'
    BY <1>1 DEF IInv, OutcomesInv
  <2>2. \A c \in resolved' \union claimed' : \E s \in Sessions : c \in CallsOf(s)
    BY <1>1, <1>2, <1>3 DEF IInv, OutcomesInv
  <2>3. \A s \in Sessions \ table' : CallsOf(s) \subseteq resolved'
    BY <1>1, <1>2 DEF IInv, OutcomesInv
  <2>4. QED  BY <1>7, <2>1, <2>2, <2>3 DEF OutcomesInv
<1>10. \A s \in table' : \A c \in CallsOf(s) : c \notin left
  BY <1>1, <1>2, <1>3 DEF IInv, OwnersInv
<1>11. GapsInv'
  BY <1>1, <1>7, <1>10 DEF IInv, GapsInv
<1>12. IndexIsFaithful'
  <2>1. \A s \in Sessions : \A c \in Calls : index'[c] = s => c \in CallsOf(s)
    BY <1>6, SessionsAssumption DEF IInv, IndexIsFaithful
  <2>2. ASSUME NEW s \in table', NEW c \in CallsOf(s),
               c \notin resolved' \union toIndex'
        PROVE  index'[c] = s
    <3>1. s \in table /\ s \notin gone /\ c \in Calls  BY <1>1, <1>3, <1>4
    <3>2. index[c] = s
      BY <1>1, <2>2, <3>1 DEF IInv, IndexIsFaithful
    <3>3. QED  BY <1>6, <3>1, <3>2
  <2>3. QED  BY <1>7, <2>1, <2>2 DEF IndexIsFaithful
<1>13. StaleHitsAreBrief'
  <2> SUFFICES ASSUME NEW c \in Calls, index'[c] \in table', c \in resolved'
               PROVE  c \in toUnindex'
    BY DEF StaleHitsAreBrief
  <2>1. index[c] \in table' /\ index'[c] = index[c]
    BY <1>1, <1>3, <1>6, SessionsAssumption
  <2>2. c \in CallsOf(index[c])
    BY <1>1, <1>3, <2>1 DEF IInv, IndexIsFaithful
  <2>3. c \in resolved  BY <1>1, <1>10, <2>1, <2>2
  <2>4. QED  BY <1>1, <2>1, <2>3 DEF IInv, StaleHitsAreBrief
<1>14. ClaimsInOrder'
  BY <1>1 DEF IInv, ClaimsInOrder
<1>15. QED  BY <1>7, <1>8, <1>9, <1>11, <1>12, <1>13, <1>14 DEF IInv

-----------------------------------------------------------------------------
THEOREM StepInvariant == IInv /\ [Next]_tableVars => IInv'
<1> SUFFICES ASSUME IInv, [Next]_tableVars PROVE IInv'
  OBVIOUS
<1>0. TypeOK  BY DEF IInv
<1>1. ASSUME NEW s \in Sessions, CreateSession(s) PROVE IInv'
  BY <1>1, CreateStep
<1>2. ASSUME NEW s \in Sessions, StoreCmd(s) PROVE IInv'
  <2>1. TypeOK'  BY <1>0, <1>2 DEF TypeOK, StoreCmd
  <2>2. QED  BY <1>2, <2>1, QuietStep DEF StoreCmd
<1>3. ASSUME NEW s \in Sessions, IndexRegistered(s) PROVE IInv'
  BY <1>3, IndexStep
<1>4. ASSUME NEW s \in Sessions, ReapSession(s) PROVE IInv'
  BY <1>0, <1>4, ReapStep DEF ReapSession, TypeOK
<1>5. ASSUME NEW s \in Sessions, SweepLook(s) PROVE IInv'
  <2>1. TypeOK'  BY <1>0, <1>5 DEF TypeOK, SweepLook
  <2>2. QED  BY <1>5, <2>1, QuietStep DEF SweepLook
<1>6. ASSUME NEW s \in Sessions, NEW batch \in Batches, Register(s, batch)
      PROVE  IInv'
  BY <1>6, RegisterStep
<1>7. ASSUME NEW s \in Sessions, NEW c \in Calls, Resolve(s, c) PROVE IInv'
  BY <1>7, ResolveStep
<1>8. ASSUME NEW s \in Sessions, NEW sig \in Range(SignatureOf), Claim(s, sig)
      PROVE  IInv'
  BY <1>8, ClaimStep
<1>9. ASSUME NEW s \in Sessions, NEW limit \in Limits, Age(s, limit) PROVE IInv'
  <2>1. TypeOK'  BY <1>0, <1>9 DEF TypeOK, Age
  <2>2. QED  BY <1>9, <2>1, QuietStep DEF Age
<1>10. ASSUME NEW c \in Calls, Unindex(c) PROVE IInv'
  BY <1>10, UnindexStep
<1>11. ASSUME NEW ids \in SUBSET Minted, NEW keep \in Sessions \union {NoSession},
              ReapSuperseded(ids, keep)
       PROVE  IInv'
  BY <1>0, <1>11, ReapStep DEF ReapSuperseded, TypeOK
<1>12. CASE SweepBegin
  <2>1. TypeOK'  BY <1>0, <1>12 DEF TypeOK, SweepBegin
  <2>2. QED  BY <1>12, <2>1, QuietStep DEF SweepBegin
<1>13. CASE SweepReap
  <2>1. sweep' \in [on: BOOLEAN, left: SUBSET Sessions, doomed: SUBSET Sessions]
    BY <1>0, <1>13 DEF TypeOK, SweepReap
  <2>2. QED  BY <1>0, <1>13, <2>1, ReapStep DEF SweepReap, TypeOK
<1>14. CASE SweepEnd
  <2>1. TypeOK'  BY <1>0, <1>14 DEF TypeOK, SweepEnd, NoSweep
  <2>2. QED  BY <1>14, <2>1, QuietStep DEF SweepEnd
<1>15. CASE Close
  BY <1>0, <1>15, ReapStep DEF Close, TypeOK
<1>16. CASE UNCHANGED tableVars
  <2>1. TypeOK'  BY <1>0, <1>16 DEF TypeOK, tableVars
  <2>2. QED  BY <1>16, <2>1, QuietStep DEF tableVars
<1>17. QED
  BY <1>1, <1>2, <1>3, <1>4, <1>5, <1>6, <1>7, <1>8, <1>9, <1>10, <1>11,
     <1>12, <1>13, <1>14, <1>15, <1>16
     DEF Next

(* The records of a call agree up to the gaps between critical sections.   *)
THEOREM Invariance == Spec => []IInv
  BY InitInvariant, StepInvariant, PTL DEF Spec

(* The table keeps its shape, its cap included (CreateSession), and a      *)
(* session is marked Reaped exactly when it has left the table.            *)
THEOREM TypeCorrect == Spec => []TypeOK
<1>1. IInv => TypeOK  BY DEF IInv
<1>2. QED  BY <1>1, Invariance, PTL

(* No MCP handler waits on a session that is gone: a registration that     *)
(* loses the race against the reap registers nothing.                      *)
THEOREM NothingParkedOnTheDead == Spec => []NoCallParkedOnDeadSession
<1>1. IInv => NoCallParkedOnDeadSession
  <2> SUFFICES ASSUME IInv, NEW s \in created \ table, NEW c \in CallsOf(s)
               PROVE  resolver[c] # "empty"
    BY DEF NoCallParkedOnDeadSession
  <2>1. s \in Sessions /\ c \in Calls
    BY CallsOfMember DEF IInv, TypeOK
  <2>2. QED  BY <2>1 DEF IInv, OutcomesInv
<1>2. QED  BY <1>1, Invariance, PTL

(* A result finds the session that announced its call while that waits.    *)
THEOREM IndexCorrect == Spec => []IndexIsFaithful
<1>1. IInv => IndexIsFaithful  BY DEF IInv
<1>2. QED  BY <1>1, Invariance, PTL

(* What the index says too long it says only inside ResolveToolCall, and   *)
(* inside one call of it at a time for each entry.                         *)
THEOREM StaleHitsBrief == Spec => []StaleHitsAreBrief
<1>1. IInv => StaleHitsAreBrief  BY DEF IInv
<1>2. QED  BY <1>1, Invariance, PTL

(* Equal calls are claimed in the order of their announcement.             *)
THEOREM ClaimsCorrect == Spec => []ClaimsInOrder
<1>1. IInv => ClaimsInOrder  BY DEF IInv
<1>2. QED  BY <1>1, Invariance, PTL

(* A Resolver gets one outcome: ResolveToolCall and reapSessionLocked both *)
(* look at Resolved, and both set it with what they do to the Resolver.    *)
THEOREM OutcomesAreFinal == Spec => OutcomeIsFinal
<1>1. IInv /\ [Next]_tableVars =>
        [\A c \in Calls : resolver[c] # "empty" => resolver'[c] = resolver[c]]_tableVars
  <2> SUFFICES ASSUME IInv, [Next]_tableVars,
                      NEW c \in Calls, resolver[c] # "empty"
               PROVE  resolver'[c] = resolver[c]
    OBVIOUS
  <2>1. c \in resolved  BY DEF IInv, OutcomesInv
  <2>2. \A S : ReapLocked(S) => resolver'[c] = resolver[c]
    BY <2>1 DEF ReapLocked
  <2>3. ASSUME NEW s \in Sessions, NEW d \in Calls, Resolve(s, d)
        PROVE  resolver'[c] = resolver[c]
    BY <2>1, <2>3 DEF Resolve, ResolveUnchecked, Send, IInv, TypeOK
  <2>4. QED
    BY <2>2, <2>3
       DEF Next, tableVars, CreateSession, StoreCmd, Register, RegisterUnchecked,
           IndexRegistered, Unindex, Claim, ReapSession, ReapSuperseded, Close,
           Age, SweepBegin, SweepLook, SweepReap, SweepEnd
<1>2. QED  BY <1>1, Invariance, PTL DEF Spec, OutcomeIsFinal
=============================================================================
