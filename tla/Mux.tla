--------------------------------- MODULE Mux ---------------------------------
(***************************************************************************)
(* Streams multiplexed over one control connection: internal/tunnel/mux.go *)
(* with the two ends that use it, servePublic (relay.go) and forward       *)
(* (tunnel.go).                                                            *)
(*                                                                         *)
(* Each side has a read loop, which is the only reader of the connection   *)
(* and stands still while a stream's buffer is full or while it writes;    *)
(* and for each stream a pipe of two copies, one from the outside into the *)
(* stream (out) and one from the stream to the outside (in).  Payloads are *)
(* numbered in the order they are written.  PING and PONG, which only keep *)
(* the deadlines off, and the payload limit are left out.                  *)
(***************************************************************************)
EXTENDS Naturals, Sequences, FiniteSets, SequencesExt

CONSTANTS
  Streams,       (* stream ids, in the order they are opened, each once *)
  StreamBuffer,  (* capacity of Stream.reads: 16 in the code *)
  AcceptBuffer,  (* capacity of Conn.accept: 64 in the code *)
  WireBuffer,    (* frames the network holds before a write blocks *)
  MaxData        (* bound: payloads each side writes to each stream *)

Sides == {"relay", "tunnel"}
Other(side) == IF side = "relay" THEN "tunnel" ELSE "relay"

ASSUME StreamsAssumption == Streams \subseteq Nat
ASSUME BuffersAssumption ==
  {StreamBuffer, AcceptBuffer, WireBuffer} \subseteq Nat \ {0} /\ MaxData \in [Sides -> [Streams -> Nat]]

VARIABLES
  up,            (* sides whose Conn is not closed *)
  streams,       (* Conn.streams of each side *)
  accept,        (* the tunnel's Conn.accept *)
  wire,          (* frames each side has written and the other not read *)
  loop,          (* what each read loop is doing *)
  end            (* each side's Stream, and the pipe it is in *)

vars == <<up, streams, accept, wire, loop, end>>

(* pipe: none, opening (OPEN not written yet), dialing, open, closing      *)
(* (CLOSE not written yet), gone.                                          *)
(* out: run, armed (past Write's look at the closed channels), done.       *)
(* in: run, and how it ended: eof, error (of the connection), hangup (of   *)
(* the outside, or the stream was closed here).                            *)
(* due is what the CLOSE that was read says was written before it: the     *)
(* code's frame does not say, it is here to compare with.                  *)
NewEnd == [pipe |-> "none", out |-> "run", in |-> "run", reads |-> <<>>,
           eof |-> FALSE, due |-> 0, closed |-> FALSE, sent |-> 0, got |-> <<>>]

Frame == [type : {"open", "data", "close"}, id : Streams, n : Nat]
OpenFrame(s) == [type |-> "open", id |-> s, n |-> 0]
Data(s, n) == [type |-> "data", id |-> s, n |-> n]
CloseFrame(s, n) == [type |-> "close", id |-> s, n |-> n]

(* A loop reads the next frame, delivers f, or answers f with a CLOSE.     *)
Reading == [at |-> "read", f |-> <<>>]

TypeOK ==
  /\ up \subseteq Sides
  /\ streams \in [Sides -> SUBSET Streams]
  /\ accept \in Seq(Streams) /\ Len(accept) <= AcceptBuffer
  /\ \A side \in Sides :
       /\ wire[side] \in Seq(Frame) /\ Len(wire[side]) <= WireBuffer
       /\ loop[side].at \in {"read", "deliver", "answer"}
       /\ \A s \in Streams :
            LET e == end[side][s]
            IN /\ e.pipe \in {"none", "opening", "dialing", "open", "closing", "gone"}
               /\ e.out \in {"run", "armed", "done"}
               /\ e.in \in {"run", "eof", "error", "hangup"}
               /\ Len(e.reads) <= StreamBuffer
               /\ e.sent \in 0..MaxData[side][s] /\ e.due \in 0..MaxData[Other(side)][s]

Init ==
  /\ up = Sides
  /\ streams = [side \in Sides |-> {}]
  /\ accept = <<>>
  /\ wire = [side \in Sides |-> <<>>]
  /\ loop = [side \in Sides |-> Reading]
  /\ end = [side \in Sides |-> [s \in Streams |-> NewEnd]]

-----------------------------------------------------------------------------
(* writeFrame.  It fails on a closed connection, and blocks on a full one; *)
(* its 30 seconds then end the connection, which Fail allows at any time.  *)
(* What is written to a side that is closed goes nowhere.                  *)
Write(side, f) ==
  /\ side \in up
  /\ \/ Other(side) \notin up /\ UNCHANGED wire
     \/ /\ Other(side) \in up
        /\ Len(wire[side]) < WireBuffer
        /\ wire' = [wire EXCEPT ![side] = Append(@, f)]

(* closeWithErr: the network broke, a deadline passed, or the owner closed *)
(* the connection.  What this side wrote may still be read; of what it has *)
(* not read, some frames may be in its read buffer already, and its read   *)
(* loop, which does not look whether the connection is closed, goes on     *)
(* with those.                                                             *)
Fail(side) ==
  /\ side \in up
  /\ up' = up \ {side}
  /\ \E n \in 0..Len(wire[Other(side)]) :
       wire' = [wire EXCEPT ![Other(side)] = SubSeq(@, 1, n)]
  /\ UNCHANGED <<streams, accept, loop, end>>

-----------------------------------------------------------------------------
(* The read loop.                                                          *)

NextIs(side, type) ==
  /\ loop[side].at = "read"
  /\ wire[Other(side)] # <<>>
  /\ Head(wire[Other(side)]).type = type

Consume(side) == wire' = [wire EXCEPT ![Other(side)] = Tail(@)]

(* handleOpen: queued for Accept, or refused. *)
ReadOpen(side) ==
  LET f == Head(wire[Other(side)])
  IN /\ NextIs(side, "open")
     /\ Consume(side)
     /\ \/ /\ Len(accept) < AcceptBuffer
           /\ accept' = Append(accept, f.id)
           /\ streams' = [streams EXCEPT ![side] = @ \union {f.id}]
           /\ UNCHANGED loop
        \/ /\ Len(accept) >= AcceptBuffer
           /\ loop' = [loop EXCEPT ![side] = [at |-> "answer", f |-> f]]
           /\ UNCHANGED <<accept, streams>>
     /\ UNCHANGED <<up, end>>

ReadData(side) ==
  LET f == Head(wire[Other(side)])
  IN /\ NextIs(side, "data")
     /\ Consume(side)
     /\ loop' = [loop EXCEPT ![side] =
           [at |-> IF f.id \in streams[side] THEN "deliver" ELSE "answer", f |-> f]]
     /\ UNCHANGED <<up, streams, accept, end>>

ReadCloseDiscards(side) ==           \* deviation: what is buffered is dropped
  LET f == Head(wire[Other(side)])
  IN /\ NextIs(side, "close")
     /\ Consume(side)
     /\ streams' = [streams EXCEPT ![side] = @ \ {f.id}]
     /\ end' = IF f.id \in streams[side]
                 THEN [end EXCEPT ![side][f.id].eof = TRUE, ![side][f.id].due = f.n,
                                  ![side][f.id].reads = <<>>]
                 ELSE end
     /\ UNCHANGED <<up, accept, loop>>

ReadClose(side) ==
  LET f == Head(wire[Other(side)])
  IN /\ NextIs(side, "close")
     /\ Consume(side)
     /\ streams' = [streams EXCEPT ![side] = @ \ {f.id}]
     /\ end' = IF f.id \in streams[side]
                 THEN [end EXCEPT ![side][f.id].eof = TRUE, ![side][f.id].due = f.n]
                 ELSE end
     /\ UNCHANGED <<up, accept, loop>>

(* deliver waits for room, or for the stream or the connection to be       *)
(* closed; of the cases that are ready, its select takes any.              *)
DeliverAlways(side) ==               \* deviation: the buffer has no limit
  LET f == loop[side].f
  IN /\ loop[side].at = "deliver"
     /\ end' = [end EXCEPT ![side][f.id].reads = Append(@, f.n)]
     /\ loop' = [loop EXCEPT ![side] = Reading]
     /\ UNCHANGED <<up, streams, accept, wire>>

Deliver(side) ==
  LET f == loop[side].f
      e == end[side][f.id]
  IN /\ loop[side].at = "deliver"
     /\ \/ /\ ~e.closed /\ Len(e.reads) < StreamBuffer
           /\ end' = [end EXCEPT ![side][f.id].reads = Append(@, f.n)]
        \/ (e.closed \/ side \notin up) /\ UNCHANGED end
     /\ loop' = [loop EXCEPT ![side] = Reading]
     /\ UNCHANGED <<up, streams, accept, wire>>

AnswerSilently(side) ==              \* deviation: the peer is not told to stop
  /\ loop[side].at = "answer"
  /\ loop' = [loop EXCEPT ![side] = Reading]
  /\ UNCHANGED <<up, streams, accept, wire, end>>

Answer(side) ==
  /\ loop[side].at = "answer"
  /\ \/ Write(side, CloseFrame(loop[side].f.id, end[side][loop[side].f.id].sent))
     \/ side \notin up /\ UNCHANGED wire
  /\ loop' = [loop EXCEPT ![side] = Reading]
  /\ UNCHANGED <<up, streams, accept, end>>

-----------------------------------------------------------------------------
(* The ends.                                                               *)

SetEnd(side, s, field, value) ==
  end' = [end EXCEPT ![side][s] = [@ EXCEPT ![field] = value]]

(* servePublic opens a stream: in the table first, OPEN on the wire after. *)
Open(s) ==
  /\ "relay" \in up
  /\ \A r \in Streams : end["relay"][r].pipe = "none" => s <= r
  /\ end["relay"][s].pipe = "none"
  /\ streams' = [streams EXCEPT !["relay"] = @ \union {s}]
  /\ SetEnd("relay", s, "pipe", "opening")
  /\ UNCHANGED <<up, accept, wire, loop>>

WriteOpen(s) ==
  /\ end["relay"][s].pipe = "opening"
  /\ Write("relay", OpenFrame(s))
  /\ SetEnd("relay", s, "pipe", "open")
  /\ UNCHANGED <<up, streams, accept, loop>>

OpenFails(s) ==
  /\ end["relay"][s].pipe = "opening"
  /\ "relay" \notin up
  /\ streams' = [streams EXCEPT !["relay"] = @ \ {s}]
  /\ SetEnd("relay", s, "pipe", "gone")
  /\ UNCHANGED <<up, accept, wire, loop>>

(* connectAndServe accepts it, also after the connection was closed: the   *)
(* select may prefer a queued stream.  forward dials the gateway...        *)
Accept ==
  /\ accept # <<>>
  /\ accept' = Tail(accept)
  /\ SetEnd("tunnel", Head(accept), "pipe", "dialing")
  /\ UNCHANGED <<up, streams, wire, loop>>

DialLocal(s) ==
  /\ end["tunnel"][s].pipe = "dialing"
  /\ SetEnd("tunnel", s, "pipe", "open")
  /\ UNCHANGED <<up, streams, accept, wire, loop>>

(* Stream.Close: from then on the stream is out of the table, and CLOSE is *)
(* still to be written.  The outside is closed, so that copies end without *)
(* anything to show for it, but for a Write that was past its look at the  *)
(* closed channels.                                                        *)
CloseStream(side, s) ==
  LET e == end[side][s]
  IN /\ streams' = [streams EXCEPT ![side] = @ \ {s}]
     /\ end' = [end EXCEPT ![side][s] =
          [e EXCEPT !.closed = TRUE, !.pipe = "closing", !.reads = <<>>,
                    !.out = IF e.out = "armed" THEN "armed" ELSE "done",
                    !.in = IF e.in = "run" THEN "hangup" ELSE e.in]]

(* ...and closes the stream when nobody listens there.                     *)
DialFails(s) ==
  /\ end["tunnel"][s].pipe = "dialing"
  /\ CloseStream("tunnel", s)
  /\ UNCHANGED <<up, accept, wire, loop>>

(* copyOne(stream, outside): Write looks at the closed channels...         *)
ArmWrite(side, s) ==
  /\ end[side][s].pipe = "open"
  /\ end[side][s].out = "run"
  /\ side \in up
  /\ end[side][s].sent < MaxData[side][s]
  /\ SetEnd(side, s, "out", "armed")
  /\ UNCHANGED <<up, streams, accept, wire, loop>>

(* ...and then writes its frame, whatever happened to the stream meanwhile. *)
WriteData(side, s) ==
  LET n == end[side][s].sent + 1
  IN /\ end[side][s].out = "armed"
     /\ Write(side, Data(s, n))
     /\ end' = [end EXCEPT ![side][s].sent = n,
                        ![side][s].out = IF end[side][s].closed THEN "done" ELSE "run"]
     /\ UNCHANGED <<up, streams, accept, loop>>

(* The outside hung up, or the write failed.                               *)
OutEnds(side, s) ==
  /\ \/ end[side][s].out = "run" /\ end[side][s].pipe = "open"
     \/ end[side][s].out = "armed" /\ side \notin up
  /\ SetEnd(side, s, "out", "done")
  /\ UNCHANGED <<up, streams, accept, wire, loop>>

(* copyOne(outside, stream). *)
CopyInAgain(side, s) ==              \* deviation: what was read is not taken off
  /\ end[side][s].pipe = "open"
  /\ end[side][s].in = "run"
  /\ end[side][s].reads # <<>>
  /\ SetEnd(side, s, "got", Append(end[side][s].got, Head(end[side][s].reads)))
  /\ UNCHANGED <<up, streams, accept, wire, loop>>

CopyIn(side, s) ==
  /\ end[side][s].pipe = "open"
  /\ end[side][s].in = "run"
  /\ end[side][s].reads # <<>>
  /\ end' = [end EXCEPT ![side][s].got = Append(@, Head(end[side][s].reads)),
                        ![side][s].reads = Tail(@)]
  /\ UNCHANGED <<up, streams, accept, wire, loop>>

(* Read's select takes any case that is ready.                             *)
InEnds(side, s) ==
  LET e == end[side][s]
  IN /\ e.pipe = "open"
     /\ e.in = "run"
     /\ \/ e.eof /\ e.reads = <<>> /\ SetEnd(side, s, "in", "eof")
        \/ side \notin up /\ SetEnd(side, s, "in", "error")
        \/ SetEnd(side, s, "in", "hangup")
     /\ UNCHANGED <<up, streams, accept, wire, loop>>

(* pipe: the first copy that ends closes both.                             *)
PipeCloses(side, s) ==
  /\ end[side][s].pipe = "open"
  /\ end[side][s].out = "done" \/ end[side][s].in # "run"
  /\ CloseStream(side, s)
  /\ UNCHANGED <<up, accept, wire, loop>>

CloseQuietly(side, s) ==             \* deviation: the peer is not told
  /\ end[side][s].pipe = "closing"
  /\ SetEnd(side, s, "pipe", "gone")
  /\ UNCHANGED <<up, streams, accept, wire, loop>>

WriteClose(side, s) ==
  /\ end[side][s].pipe = "closing"
  /\ \/ Write(side, CloseFrame(s, end[side][s].sent))
     \/ side \notin up /\ UNCHANGED wire
  /\ SetEnd(side, s, "pipe", "gone")
  /\ UNCHANGED <<up, streams, accept, loop>>

-----------------------------------------------------------------------------
Next ==
  \/ Accept
  \/ \E side \in Sides :
       \/ Fail(side)
       \/ ReadOpen(side) \/ ReadData(side) \/ ReadClose(side)
       \/ Deliver(side) \/ Answer(side)
       \/ \E s \in Streams :
            \/ ArmWrite(side, s) \/ WriteData(side, s) \/ OutEnds(side, s)
            \/ CopyIn(side, s) \/ InEnds(side, s)
            \/ PipeCloses(side, s) \/ WriteClose(side, s)
  \/ \E s \in Streams :
       Open(s) \/ WriteOpen(s) \/ OpenFails(s) \/ DialLocal(s) \/ DialFails(s)

Spec == Init /\ [][Next]_vars

(* Goroutines run, the outside reads what it is given, a blocked write     *)
(* goes on when the network has room, and the write deadline ends a        *)
(* connection whose read loop is held up by a full network.                *)
WriteStalled(side) == loop[side].at = "answer" /\ Len(wire[side]) = WireBuffer

Fairness ==
  /\ WF_vars(Accept)
  /\ \A side \in Sides :
       /\ WF_vars(ReadOpen(side)) /\ WF_vars(ReadData(side)) /\ WF_vars(ReadClose(side))
       /\ WF_vars(Deliver(side)) /\ SF_vars(Answer(side))
       /\ WF_vars(WriteStalled(side) /\ Fail(side))
       /\ \A s \in Streams :
            /\ SF_vars(WriteData(side, s)) /\ SF_vars(WriteClose(side, s))
            /\ WF_vars(CopyIn(side, s)) /\ WF_vars(PipeCloses(side, s))
            /\ WF_vars(InEnds(side, s) /\ end[side][s].eof)
  /\ \A s \in Streams : SF_vars(WriteOpen(s)) /\ WF_vars(DialLocal(s))

FairSpec == Spec /\ Fairness
-----------------------------------------------------------------------------
(* A stream is a stream of bytes: what comes out of it is what was put in, *)
(* in order and nothing twice, however its frames mix with those of other  *)
(* streams and whoever closes what meanwhile; and as long as the           *)
(* connection is not closed here, without a gap (deliver, Read).           *)
StreamIntegrity ==
  \A side \in Sides, s \in Streams :
    LET got == end[side][s].got
    IN /\ \A i, j \in DOMAIN got : i < j => got[i] < got[j]
       /\ \A i \in DOMAIN got : got[i] <= end[Other(side)][s].sent
       /\ side \in up => \A i \in DOMAIN got : got[i] = i

(* A copy that ended by EOF has passed on everything that was written       *)
(* before the CLOSE, if the connection is not closed here (remoteClosed).  *)
CompleteAtEOF ==
  \A side \in up, s \in Streams :
    end[side][s].in = "eof" => Len(end[side][s].got) = end[side][s].due

(* Neither side keeps a stream the other has given up: while both are up,  *)
(* an open stream has a peer, or its OPEN or a CLOSE is on the way.        *)
InFlight(side, type, s) ==
  \E i \in DOMAIN wire[side] : wire[side][i].type = type /\ wire[side][i].id = s

Coming(side, s) ==                   \* this side has a CLOSE to write or written
  \/ InFlight(side, "close", s)
  \/ end[side][s].pipe = "closing"
  \/ loop[side].at = "answer" /\ loop[side].f.id = s

NoForgottenStream ==
  up = Sides =>
    \A side \in Sides : \A s \in streams[side] \ streams[Other(side)] :
      \/ end[side][s].pipe = "opening" \/ InFlight(side, "open", s)
      \/ Coming(Other(side), s)

(* A stream closed at one end ends at the other, and then its frames stop: *)
(* CLOSE answers DATA for a stream that is gone, never another CLOSE.      *)
StreamsEnd ==
  \A side \in Sides, s \in Streams :
    end[side][s].closed ~>
      \/ up # Sides
      \/ /\ s \notin streams["relay"] \union streams["tunnel"]
         /\ \A t \in Sides, k \in {"open", "data", "close"} : ~InFlight(t, k, s)

(* mux.go:526, on the first EOF of a pipe: "every byte it sent has already  *)
(* been written to the other end by the copy that just returned".          *)
EOFMeansEverything ==
  \A side \in Sides, s \in Streams :
    end[side][s].in = "eof" => Len(end[side][s].got) = end[side][s].due
=============================================================================
