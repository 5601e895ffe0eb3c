------------------------------ MODULE SlotPool ------------------------------
(***************************************************************************)
(* What the gateway's concurrency limiter promises, without saying how:    *)
(* at most Slots requests run at once, the others stand in one line, and   *)
(* nobody enters but from the head of that line.  A request may walk out   *)
(* of the line, and it may be skipped over when its turn comes; it is      *)
(* never overtaken while it is still being served in order.                *)
(*                                                                         *)
(* The pool does not promise that a slot left behind is usable again:      *)
(* Leave only says that somebody stopped running.  Semaphore.tla shows     *)
(* that the code keeps this promise and which stronger one it breaks.      *)
(***************************************************************************)
EXTENDS Integers, FiniteSets

CONSTANTS
  Requests,      (* chat-completion requests that reach the limiter *)
  Slots          (* how many of them may run at once *)

VARIABLES
  running,       (* the requests that hold a slot *)
  line,          (* the requests standing in line *)
  before         (* <<q, r>>: q stands in line, and joined it before r did *)

poolVars == <<running, line, before>>

TypeOK ==
  /\ running \subseteq Requests
  /\ line \subseteq Requests
  /\ before \subseteq line \X line

Init ==
  /\ running = {}
  /\ line = {}
  /\ before = {}

First(r) == r \in line /\ \A q \in line : <<q, r>> \notin before

StepOut(r) ==
  /\ line' = line \ {r}
  /\ before' = {p \in before : p[1] # r /\ p[2] # r}

(* A free slot is taken at once, and only when nobody stands in line. *)
Enter(r) ==
  /\ r \notin running
  /\ line = {}
  /\ Cardinality(running) < Slots
  /\ running' = running \union {r}
  /\ UNCHANGED <<line, before>>

Join(r) ==
  /\ r \notin running \union line
  /\ line' = line \union {r}
  /\ before' = before \union (line \X {r})
  /\ UNCHANGED running

(* A request gives its slot to whoever stands first. *)
Hand(h, r) ==
  /\ h \in running
  /\ First(r) /\ StepOut(r)
  /\ running' = (running \ {h}) \union {r}

Leave(h) ==
  /\ h \in running
  /\ running' = running \ {h}
  /\ UNCHANGED <<line, before>>

(* The first in line is passed over: it was not listening. *)
Skip(h, r) ==
  /\ h \in running
  /\ First(r) /\ StepOut(r)
  /\ running' = running \ {h}

WalkOut(r) ==
  /\ r \in line
  /\ StepOut(r)
  /\ UNCHANGED running

Next ==
  \E r \in Requests :
    \/ Enter(r) \/ Join(r) \/ Leave(r) \/ WalkOut(r)
    \/ \E h \in Requests : Hand(h, r) \/ Skip(h, r)

Spec == Init /\ [][Next]_poolVars
=============================================================================
