-------------------------------- MODULE Relay --------------------------------
(***************************************************************************)
(* The public relay's one registered tunnel, and the tunnel clients that   *)
(* keep reconnecting to it: internal/tunnel/relay.go and tunnel.go.        *)
(*                                                                         *)
(* Every accepted control connection has a goroutine on the relay (stage)  *)
(* that authenticates it, registers its mux as Relay.tun, closes the mux   *)
(* it replaced, and waits for its own mux to end.  A connection has two    *)
(* ends that learn of its death separately: a link that broke is noticed   *)
(* at once by a read error, or late, by the idle timeout.                  *)
(***************************************************************************)
EXTENDS Naturals, FiniteSets

CONSTANTS
  Conns,         (* control connections, numbered as they are dialled *)
  NoConn,        (* Relay.tun is nil *)
  Tunnels,       (* tunnel client processes *)
  Trusted,       (* those that have the right token *)
  MaxBreaks      (* bound: links the network breaks, handshakes it delays *)

ASSUME ConnsAssumption == Conns \subseteq Nat /\ NoConn \notin Conns
ASSUME TrustedAssumption == Trusted \subseteq Tunnels
ASSUME BreaksAssumption == MaxBreaks \in Nat

VARIABLES
  stage,         (* the relay's goroutine for each connection *)
  previous,      (* register's local variable in each of them *)
  muxUp,         (* connections whose mux on the relay has not ended *)
  link,          (* connections that still carry bytes *)
  tun,           (* Relay.tun *)
  closing,       (* how far Close has come *)
  taken,         (* the tunnel Close took out of the registry *)
  client,        (* where each tunnel client is in connectAndServe *)
  on,            (* the connection it is on *)
  cancelled,     (* tunnel clients whose context is cancelled *)
  breaks         (* links broken so far *)

relayVars == <<stage, previous, muxUp, tun, closing, taken>>
clientVars == <<client, on, cancelled>>
vars == <<relayVars, clientVars, link, breaks>>

(*  none      not dialled            evict    registered, closes previous   *)
(*  accepted  authenticating         serving  waits for the mux to end      *)
(*  authed    AUTH_OK was sent       gone     the goroutine returned        *)
Stages == {"none", "accepted", "authed", "evict", "serving", "gone"}

(* Close swaps the registry out, closes the listener, closes the tunnel.   *)
Closings == {"open", "swapped", "deaf", "closed"}

(* Run's loop: before a dial, in the handshake, in the accept loop, in the *)
(* backoff after an error, or ended by its context.                        *)
ClientStates == {"dial", "auth", "up", "backoff", "stopped"}

TypeOK ==
  /\ stage \in [Conns -> Stages]
  /\ previous \in [Conns -> Conns \union {NoConn}]
  /\ \A c \in Conns : stage[c] = "evict" => previous[c] # NoConn
  /\ muxUp \subseteq Conns
  /\ link \subseteq Conns
  /\ tun \in Conns \union {NoConn}
  /\ closing \in Closings
  /\ taken \in Conns \union {NoConn}
  /\ client \in [Tunnels -> ClientStates]
  /\ on \in [Tunnels -> Conns \union {NoConn}]
  /\ cancelled \subseteq Tunnels
  /\ breaks \in 0..MaxBreaks

Init ==
  /\ stage = [c \in Conns |-> "none"]
  /\ previous = [c \in Conns |-> NoConn]
  /\ muxUp = {}
  /\ link = {}
  /\ tun = NoConn
  /\ closing = "open"
  /\ taken = NoConn
  /\ client = [t \in Tunnels |-> "dial"]
  /\ on = [t \in Tunnels |-> NoConn]
  /\ cancelled = {}
  /\ breaks = 0

-----------------------------------------------------------------------------
(* The relay.                                                              *)

HasToken(c) == \E t \in Trusted : on[t] = c

(* authenticate: the AUTH frame came and AUTH_OK went out...               *)
Authenticate(c) ==
  /\ stage[c] = "accepted"
  /\ c \in link
  /\ HasToken(c)
  /\ stage' = [stage EXCEPT ![c] = "authed"]
  /\ UNCHANGED <<previous, muxUp, link, tun, closing, taken, clientVars, breaks>>

(* ...or the link was down, the token wrong, or the frame late.            *)
RejectNow(c) ==
  /\ stage[c] = "accepted"
  /\ c \notin link \/ ~HasToken(c)
  /\ stage' = [stage EXCEPT ![c] = "gone"]
  /\ link' = link \ {c}
  /\ UNCHANGED <<previous, muxUp, tun, closing, taken, clientVars, breaks>>

RejectLate(c) ==
  /\ stage[c] = "accepted"
  /\ breaks < MaxBreaks
  /\ breaks' = breaks + 1
  /\ stage' = [stage EXCEPT ![c] = "gone"]
  /\ link' = link \ {c}
  /\ UNCHANGED <<previous, muxUp, tun, closing, taken, clientVars>>

(* NewConn and register: the last one to register wins.  Neither asks      *)
(* whether the relay is closing.                                           *)
RegisterFirstWins(c) ==              \* deviation: a second client is held off
  /\ stage[c] = "authed"
  /\ muxUp' = muxUp \union {c}
  /\ previous' = previous
  /\ tun' = IF tun = NoConn THEN c ELSE tun
  /\ stage' = [stage EXCEPT ![c] = "serving"]
  /\ UNCHANGED <<link, closing, taken, clientVars, breaks>>

RegisterUnasked(c) ==                \* deviation: closes a nil mux
  /\ stage[c] = "authed"
  /\ muxUp' = muxUp \union {c}
  /\ previous' = [previous EXCEPT ![c] = tun]
  /\ tun' = c
  /\ stage' = [stage EXCEPT ![c] = "evict"]
  /\ UNCHANGED <<link, closing, taken, clientVars, breaks>>

Register(c) ==
  /\ stage[c] = "authed"
  /\ muxUp' = muxUp \union {c}
  /\ previous' = [previous EXCEPT ![c] = tun]
  /\ tun' = c
  /\ stage' = [stage EXCEPT ![c] = IF tun = NoConn THEN "serving" ELSE "evict"]
  /\ UNCHANGED <<link, closing, taken, clientVars, breaks>>

CloseMux(c) ==
  /\ muxUp' = muxUp \ {c}
  /\ link' = link \ {c}

ForgetEvict(c) ==                    \* deviation: the replaced mux stays open
  /\ stage[c] = "evict"
  /\ stage' = [stage EXCEPT ![c] = "serving"]
  /\ UNCHANGED <<previous, muxUp, link, tun, closing, taken, clientVars, breaks>>

Evict(c) ==
  /\ stage[c] = "evict"
  /\ CloseMux(previous[c])
  /\ previous' = [previous EXCEPT ![c] = NoConn]
  /\ stage' = [stage EXCEPT ![c] = "serving"]
  /\ UNCHANGED <<tun, closing, taken, clientVars, breaks>>

(* The mux read an error or its idle timeout passed.                       *)
MuxEnds(c) ==
  /\ c \in muxUp
  /\ c \notin link
  /\ CloseMux(c)
  /\ UNCHANGED <<stage, previous, tun, closing, taken, clientVars, breaks>>

(* unregister, once Done is shut.                                          *)
UnregisterAnyway(c) ==               \* deviation: the replacement is cleared too
  /\ stage[c] = "serving"
  /\ c \notin muxUp
  /\ tun' = NoConn
  /\ stage' = [stage EXCEPT ![c] = "gone"]
  /\ UNCHANGED <<previous, muxUp, link, closing, taken, clientVars, breaks>>

UnregisterNever(c) ==                \* deviation: the dead mux stays in place
  /\ stage[c] = "serving"
  /\ c \notin muxUp
  /\ stage' = [stage EXCEPT ![c] = "gone"]
  /\ UNCHANGED <<previous, muxUp, link, tun, closing, taken, clientVars, breaks>>

Unregister(c) ==
  /\ stage[c] = "serving"
  /\ c \notin muxUp
  /\ tun' = IF tun = c THEN NoConn ELSE tun
  /\ stage' = [stage EXCEPT ![c] = "gone"]
  /\ UNCHANGED <<previous, muxUp, link, closing, taken, clientVars, breaks>>

CloseSwap ==
  /\ closing = "open"
  /\ closing' = "swapped"
  /\ taken' = tun
  /\ tun' = NoConn
  /\ UNCHANGED <<stage, previous, muxUp, link, clientVars, breaks>>

CloseListener ==
  /\ closing = "swapped"
  /\ closing' = "deaf"
  /\ UNCHANGED <<stage, previous, muxUp, link, tun, taken, clientVars, breaks>>

CloseTunnel ==
  /\ closing = "deaf"
  /\ closing' = "closed"
  /\ CloseMux(taken)
  /\ taken' = NoConn
  /\ UNCHANGED <<stage, previous, tun, clientVars, breaks>>

-----------------------------------------------------------------------------
(* A tunnel client.                                                        *)

Dial(t, c) ==
  /\ client[t] = "dial"
  /\ stage[c] = "none" /\ \A d \in Conns : stage[d] = "none" => c <= d
  /\ closing \in {"open", "swapped"}
  /\ stage' = [stage EXCEPT ![c] = "accepted"]
  /\ link' = link \union {c}
  /\ client' = [client EXCEPT ![t] = "auth"]
  /\ on' = [on EXCEPT ![t] = c]
  /\ UNCHANGED <<previous, muxUp, tun, closing, taken, cancelled, breaks>>

(* connectAndServe returned: Run backs off, or ends if it was told to.      *)
Returns(t) ==
  client' = [client EXCEPT ![t] = IF t \in cancelled THEN "stopped" ELSE "backoff"]

DialFails(t) ==
  /\ client[t] = "dial"
  /\ closing \in {"deaf", "closed"}
  /\ Returns(t)
  /\ UNCHANGED <<relayVars, link, on, cancelled, breaks>>

(* authenticateTo read AUTH_OK: the relay may not have registered us yet.  *)
ReadAuthOK(t) ==
  /\ client[t] = "auth"
  /\ stage[on[t]] \notin {"accepted", "gone"}
  /\ client' = [client EXCEPT ![t] = "up"]
  /\ UNCHANGED <<relayVars, link, on, cancelled, breaks>>

(* Every end of a connection, in the handshake or after it, leads to the   *)
(* backoff; the client's end is closed on the way.                         *)
Down(t) ==
  /\ client[t] \in {"auth", "up"}
  /\ on[t] \notin link
  /\ Returns(t)
  /\ UNCHANGED <<relayVars, link, on, cancelled, breaks>>

Reconnect(t) ==
  /\ client[t] = "backoff"
  /\ client' = [client EXCEPT ![t] = "dial"]
  /\ UNCHANGED <<relayVars, link, on, cancelled, breaks>>

(* The context is cancelled.  Only the accept loop (through the watcher)    *)
(* and the backoff look at it; a handshake in progress goes on.            *)
Cancel(t) ==
  /\ cancelled' = cancelled \union {t}
  /\ t \notin cancelled
  /\ UNCHANGED <<relayVars, client, on, link, breaks>>

Leave(t) ==
  /\ t \in cancelled
  /\ client[t] \in {"up", "backoff"}
  /\ client' = [client EXCEPT ![t] = "stopped"]
  /\ link' = link \ {on[t]}
  /\ UNCHANGED <<relayVars, on, cancelled, breaks>>

(* The network (external).                                                 *)
Break(c) ==
  /\ c \in link
  /\ breaks < MaxBreaks
  /\ link' = link \ {c}
  /\ breaks' = breaks + 1
  /\ UNCHANGED <<relayVars, clientVars>>

-----------------------------------------------------------------------------
RelayNext(c) ==
  \/ Authenticate(c) \/ RejectNow(c) \/ RejectLate(c) \/ Register(c) \/ Evict(c)
  \/ MuxEnds(c) \/ Unregister(c)

Next ==
  \/ \E c \in Conns : RelayNext(c) \/ Break(c)
  \/ CloseSwap \/ CloseListener \/ CloseTunnel
  \/ \E t \in Tunnels :
       \/ DialFails(t) \/ ReadAuthOK(t) \/ Down(t) \/ Reconnect(t)
       \/ Cancel(t) \/ Leave(t)
       \/ \E c \in Conns : Dial(t, c)

Spec == Init /\ [][Next]_vars

(* A goroutine with something to do runs; timeouts pass; the client dials  *)
(* again after its backoff.  Nobody has to stop, to close or to break.     *)
Fairness ==
  /\ \A c \in Conns :
       /\ WF_vars(Authenticate(c)) /\ WF_vars(Register(c)) /\ WF_vars(Evict(c))
       /\ WF_vars(MuxEnds(c)) /\ WF_vars(Unregister(c))
       /\ WF_vars(RejectNow(c))
  /\ WF_vars(CloseListener) /\ WF_vars(CloseTunnel)
  /\ \A t \in Tunnels :
       /\ WF_vars(ReadAuthOK(t)) /\ WF_vars(Down(t)) /\ WF_vars(Reconnect(t))
       /\ WF_vars(Leave(t)) /\ WF_vars(DialFails(t))
       /\ WF_vars(\E c \in Conns : Dial(t, c))

FairSpec == Spec /\ Fairness
-----------------------------------------------------------------------------
(* A mux that Evict or CloseTunnel is about to close. *)
Doomed(c) ==
  \/ \E d \in Conns : stage[d] = "evict" /\ previous[d] = c
  \/ closing \in {"swapped", "deaf"} /\ taken = c

(* Public traffic has one way down: a live mux is the registered one, or   *)
(* somebody is about to close it.  So there are never two tunnels in use,  *)
(* and a connection that ended never clears the one that replaced it       *)
(* (register and unregister, ADR 0002 §2).                                 *)
LiveMuxIsRegistered ==
  \A c \in muxUp : tun = c \/ Doomed(c)

(* The registry names no connection whose goroutine has returned: there is *)
(* always somebody left to clear it.                                       *)
RegisteredIsServed ==
  tun # NoConn => stage[tun] \in {"evict", "serving"}

(* A tunnel that died does not stay registered: public callers are not     *)
(* sent to a dead mux for ever (idleTimeout, unregister).                  *)
DeadTunnelIsCleared ==
  \A c \in Conns : (tun = c /\ c \notin link) ~> tun # c

Served(t) == client[t] = "up" /\ tun = on[t] /\ tun \in muxUp \intersect link

(* Reconnecting works: as long as nobody cancels it or closes the relay, a   *)
(* client with the token whose rivals have stopped is registered again,    *)
(* whatever links broke before - the stale connection it replaces never    *)
(* locks it out (ADR 0002 §2).  Rivals could use up the bounded number of  *)
(* connections by replacing each other; that end is not counted.           *)
TunnelComesBack ==
  \A t \in Trusted :
    <>[](\/ Served(t)
         \/ closing # "open" \/ t \in cancelled
         \/ \E u \in Trusted \ {t} : client[u] # "stopped"
         \/ \A c \in Conns : stage[c] # "none")

(* relay.go:128: Close "drops the registered tunnel client". *)
CloseDropsTheTunnel == closing = "closed" => tun = NoConn
=============================================================================
