----------------------------- MODULE RelayProofs -----------------------------
(***************************************************************************)
(* What TLAPS proves of the relay's registry, for any number of control    *)
(* connections, tunnel clients and broken links.                           *)
(*                                                                         *)
(* That every live mux is registered or about to be closed is inductive    *)
(* once it is known which goroutines have a mux at all (MuxHasGoroutine):   *)
(* the goroutine that registers a connection is then never one that is     *)
(* about to close another connection's mux.                                *)
(***************************************************************************)
EXTENDS Relay, TLAPS

(* A mux exists only from register to the end of its goroutine. *)
MuxHasGoroutine == \A c \in muxUp : stage[c] \in {"evict", "serving"}

IInv ==
  /\ TypeOK
  /\ MuxHasGoroutine
  /\ LiveMuxIsRegistered
  /\ RegisteredIsServed

LEMMA Initially == Init => IInv
BY BreaksAssumption DEF Init, IInv, TypeOK, Stages, Closings, ClientStates,
   MuxHasGoroutine, LiveMuxIsRegistered, RegisteredIsServed

-----------------------------------------------------------------------------
LEMMA TypeKept == TypeOK /\ [Next]_vars => TypeOK'
<1> SUFFICES ASSUME TypeOK, [Next]_vars PROVE TypeOK'
  OBVIOUS
<1> USE BreaksAssumption DEF TypeOK, Stages, Closings, ClientStates
<1>1. ASSUME NEW c \in Conns, RelayNext(c) PROVE TypeOK'
  BY <1>1 DEF RelayNext, Authenticate, RejectNow, RejectLate, Register, Evict,
     MuxEnds, Unregister, CloseMux, clientVars
<1>2. ASSUME NEW c \in Conns, Break(c) PROVE TypeOK'
  BY <1>2 DEF Break, relayVars, clientVars
<1>3. ASSUME CloseSwap \/ CloseListener \/ CloseTunnel PROVE TypeOK'
  BY <1>3 DEF CloseSwap, CloseListener, CloseTunnel, CloseMux, clientVars
<1>4. ASSUME NEW t \in Tunnels,
             DialFails(t) \/ ReadAuthOK(t) \/ Down(t) \/ Reconnect(t)
               \/ Cancel(t) \/ Leave(t)
      PROVE  TypeOK'
  BY <1>4 DEF DialFails, ReadAuthOK, Down, Reconnect, Cancel, Leave, Returns,
     relayVars
<1>5. ASSUME NEW t \in Tunnels, NEW c \in Conns, Dial(t, c) PROVE TypeOK'
  BY <1>5 DEF Dial
<1>6. CASE UNCHANGED vars
  BY <1>6 DEF vars, relayVars, clientVars
<1>7. QED  BY <1>1, <1>2, <1>3, <1>4, <1>5, <1>6 DEF Next

-----------------------------------------------------------------------------
(* The registry's three invariants, action by action. *)
RegistryInv == MuxHasGoroutine /\ LiveMuxIsRegistered /\ RegisteredIsServed

(* A step that only makes the set of live muxes smaller, keeps the registry *)
(* and keeps the goroutines that are past register, keeps the invariants.  *)
LEMMA QuietStep ==
  ASSUME RegistryInv,
         muxUp' \subseteq muxUp, tun' = tun, previous' = previous,
         closing' = closing, taken' = taken,
         \A c \in Conns : stage[c] \in {"evict", "serving"} => stage'[c] = stage[c],
         tun \in Conns \union {NoConn}, muxUp \subseteq Conns
  PROVE  RegistryInv'
BY DEF RegistryInv, MuxHasGoroutine, LiveMuxIsRegistered, RegisteredIsServed, Doomed

LEMMA RegisterKeeps ==
  ASSUME TypeOK, RegistryInv, NEW c \in Conns, Register(c)
  PROVE  RegistryInv'
<1> USE DEF TypeOK, Register
<1>1. MuxHasGoroutine' /\ RegisteredIsServed'
  BY DEF RegistryInv, MuxHasGoroutine, RegisteredIsServed
<1>2. ASSUME NEW d \in muxUp, d # c PROVE Doomed(d)'
  <2>1. d # NoConn
    BY ConnsAssumption
  <2>2. CASE tun = d
    BY <2>1, <2>2 DEF Doomed
  <2>3. CASE Doomed(d)
    <3>1. ASSUME NEW e \in Conns, stage[e] = "evict", previous[e] = d
          PROVE  stage'[e] = "evict" /\ previous'[e] = d
      BY <3>1
    <3>2. QED  BY <2>3, <3>1 DEF Doomed
  <2>4. QED  BY <2>2, <2>3 DEF RegistryInv, LiveMuxIsRegistered
<1>3. LiveMuxIsRegistered'
  BY <1>2 DEF LiveMuxIsRegistered
<1>4. QED  BY <1>1, <1>3 DEF RegistryInv

LEMMA EvictKeeps ==
  ASSUME TypeOK, RegistryInv, NEW c \in Conns, Evict(c)
  PROVE  RegistryInv'
<1> USE DEF TypeOK, Evict, CloseMux
<1>1. MuxHasGoroutine' /\ RegisteredIsServed'
  BY DEF RegistryInv, MuxHasGoroutine, RegisteredIsServed
<1>2. ASSUME NEW d \in muxUp, d # previous[c], Doomed(d) PROVE Doomed(d)'
  <2>1. ASSUME NEW e \in Conns, stage[e] = "evict", previous[e] = d
        PROVE  stage'[e] = "evict" /\ previous'[e] = d
    BY <1>2, <2>1
  <2>2. QED  BY <1>2, <2>1 DEF Doomed
<1>3. LiveMuxIsRegistered'
  BY <1>2 DEF RegistryInv, LiveMuxIsRegistered
<1>4. QED  BY <1>1, <1>3 DEF RegistryInv

LEMMA UnregisterKeeps ==
  ASSUME TypeOK, RegistryInv, NEW c \in Conns, Unregister(c)
  PROVE  RegistryInv'
<1> USE DEF TypeOK, Unregister
<1>1. MuxHasGoroutine' /\ RegisteredIsServed'
  BY ConnsAssumption DEF RegistryInv, MuxHasGoroutine, RegisteredIsServed
<1>2. ASSUME NEW d \in muxUp PROVE tun' = d \/ Doomed(d)'
  <2>1. d # c
    BY <1>2
  <2>2. CASE tun = d
    BY <2>1, <2>2
  <2>3. CASE Doomed(d)
    BY <2>3 DEF Doomed
  <2>4. QED  BY <2>2, <2>3 DEF RegistryInv, LiveMuxIsRegistered
<1>3. QED  BY <1>1, <1>2 DEF RegistryInv, LiveMuxIsRegistered

LEMMA CloseKeeps ==
  ASSUME TypeOK, RegistryInv, CloseSwap \/ CloseListener \/ CloseTunnel
  PROVE  RegistryInv'
<1>1. CASE CloseSwap
  BY <1>1, ConnsAssumption DEF CloseSwap, RegistryInv, MuxHasGoroutine,
     LiveMuxIsRegistered, RegisteredIsServed, Doomed
<1>2. CASE CloseListener
  BY <1>2 DEF CloseListener, RegistryInv, MuxHasGoroutine,
     LiveMuxIsRegistered, RegisteredIsServed, Doomed
<1>3. CASE CloseTunnel
  BY <1>3 DEF CloseTunnel, CloseMux, RegistryInv, MuxHasGoroutine,
     LiveMuxIsRegistered, RegisteredIsServed, Doomed
<1>4. QED  BY <1>1, <1>2, <1>3

LEMMA RegistryKept == TypeOK /\ RegistryInv /\ [Next]_vars => RegistryInv'
<1> SUFFICES ASSUME TypeOK, RegistryInv, [Next]_vars PROVE RegistryInv'
  OBVIOUS
<1>1. muxUp \subseteq Conns /\ tun \in Conns \union {NoConn}
  BY DEF TypeOK
<1>2. ASSUME NEW c \in Conns, RelayNext(c) PROVE RegistryInv'
  <2>1. CASE Authenticate(c) \/ RejectNow(c) \/ RejectLate(c)
    <3>1. \A d \in Conns : stage[d] \in {"evict", "serving"} => stage'[d] = stage[d]
      BY <2>1 DEF TypeOK, Authenticate, RejectNow, RejectLate
    <3>2. QED
      BY <1>1, <2>1, <3>1, QuietStep DEF Authenticate, RejectNow, RejectLate
  <2>2. CASE MuxEnds(c)
    BY <1>1, <2>2, QuietStep DEF MuxEnds, CloseMux
  <2>3. QED
    BY <1>2, <2>1, <2>2, RegisterKeeps, EvictKeeps, UnregisterKeeps DEF RelayNext
<1>3. ASSUME NEW t \in Tunnels, NEW c \in Conns, Dial(t, c) PROVE RegistryInv'
  <2>1. \A d \in Conns : stage[d] \in {"evict", "serving"} => stage'[d] = stage[d]
    BY <1>3 DEF TypeOK, Dial
  <2>2. QED  BY <1>1, <1>3, <2>1, QuietStep DEF Dial
<1>4. ASSUME UNCHANGED relayVars PROVE RegistryInv'
  BY <1>1, <1>4, QuietStep DEF relayVars
<1>5. ASSUME NEW t \in Tunnels,
             DialFails(t) \/ ReadAuthOK(t) \/ Down(t) \/ Reconnect(t)
               \/ Cancel(t) \/ Leave(t)
      PROVE  UNCHANGED relayVars
  BY <1>5 DEF DialFails, ReadAuthOK, Down, Reconnect, Cancel, Leave
<1>6. ASSUME NEW c \in Conns, Break(c) PROVE UNCHANGED relayVars
  BY <1>6 DEF Break
<1>7. QED
  BY <1>2, <1>3, <1>4, <1>5, <1>6, CloseKeeps DEF Next, vars

-----------------------------------------------------------------------------
THEOREM InvariantHolds == Spec => []IInv
<1>1. Init => IInv
  BY Initially
<1>2. IInv /\ [Next]_vars => IInv'
  BY TypeKept, RegistryKept DEF IInv, RegistryInv
<1>3. QED  BY <1>1, <1>2, PTL DEF Spec

(* Types: every variable of the relay and of its clients keeps its type.   *)
THEOREM TypeCorrect == Spec => []TypeOK
<1>1. IInv => TypeOK
  BY DEF IInv
<1>2. QED  BY <1>1, InvariantHolds, PTL

(* One tunnel at a time: every live mux is the registered one or is being  *)
(* closed, whatever the order in which clients authenticate, replace each  *)
(* other, die and are unregistered, and Close runs (relay.go:210-230).     *)
THEOREM OneTunnel == Spec => []LiveMuxIsRegistered
<1>1. IInv => LiveMuxIsRegistered
  BY DEF IInv
<1>2. QED  BY <1>1, InvariantHolds, PTL

(* The registered tunnel always has its goroutine, which will unregister   *)
(* it: no connection that is gone is left in Relay.tun (relay.go:169-183). *)
THEOREM NothingLeftRegistered == Spec => []RegisteredIsServed
<1>1. IInv => RegisteredIsServed
  BY DEF IInv
<1>2. QED  BY <1>1, InvariantHolds, PTL
=============================================================================
