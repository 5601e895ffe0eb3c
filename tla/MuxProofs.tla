----------------------------- MODULE MuxProofs -----------------------------
(***************************************************************************)
(* Proofs about Mux: its types, and that streams are kept whole.           *)
(*                                                                         *)
(* The invariant says of every stream and side how the numbers that were   *)
(* written lie behind each other: read (got), buffered (reads), in the     *)
(* hand of the read loop, on the wire (OrderInv), while the connection is  *)
(* up without a gap (GaplessInv), and while the stream is in the table     *)
(* nothing is missing up to the last one written (FlowInv).  That holds    *)
(* because frames of one stream stay in order on the wire (WireInv), a     *)
(* stream does nothing before its OPEN was read (OpeningInv, AcceptInv),   *)
(* and nothing but a late frame after it was closed (ClosedInv).           *)
(*                                                                         *)
(* A step of Next is about one stream (About) and leaves the others apart  *)
(* (Apart), unless it ends a connection; most steps leave the flow of      *)
(* their own stream level, too (Level).  The proofs go by the others.      *)
(***************************************************************************)
EXTENDS Mux, SequenceTheorems, TLAPS

End == [pipe : {"none", "opening", "dialing", "open", "closing", "gone"},
        out : {"run", "armed", "done"}, in : {"run", "eof", "error", "hangup"},
        reads : Seq(Nat), eof : BOOLEAN, due : Nat, closed : BOOLEAN,
        sent : Nat, got : Seq(Nat)]

Ends == [Sides -> [Streams -> End]]
Wires == [Sides -> Seq(Frame)]
Loop == [at : {"read"}, f : {<<>>}] \union [at : {"deliver", "answer"}, f : Frame]
Loops == [Sides -> Loop]

Shape ==
  /\ up \subseteq Sides
  /\ streams \in [Sides -> SUBSET Streams]
  /\ accept \in Seq(Streams)
  /\ wire \in Wires
  /\ loop \in Loops
  /\ end \in Ends

-----------------------------------------------------------------------------
(* Sequences, through the set of their elements. *)

Rising(w) == \A i, j \in 1..Len(w) : i < j => w[i] < w[j]
Counts(w, n) == \A i \in 1..Len(w) : w[i] = n + i
Ordered(w) ==
  \A i, j \in 1..Len(w) : i < j /\ w[i].id = w[j].id =>
    /\ w[j].type # "open"
    /\ w[i].n <= w[j].n
    /\ w[j].type = "data" => w[i].n < w[j].n

LEMMA AppendSet ==
  ASSUME NEW S, NEW w \in Seq(S), NEW x \in S
  PROVE  /\ Append(w, x) \in Seq(S)
         /\ Len(Append(w, x)) = Len(w) + 1
         /\ ToSet(Append(w, x)) = ToSet(w) \union {x}
<1>1. /\ Append(w, x) \in Seq(S) /\ Len(Append(w, x)) = Len(w) + 1
      /\ \A i \in 1..Len(w) : Append(w, x)[i] = w[i]
      /\ Append(w, x)[Len(w) + 1] = x
  BY AppendProperties
<1>2. Len(w) \in Nat /\ DOMAIN w = 1..Len(w) /\ DOMAIN Append(w, x) = 1..Len(w) + 1
  BY <1>1, LenProperties
<1>3. 1..Len(w) + 1 = (1..Len(w)) \union {Len(w) + 1}
  BY <1>2
<1> QED
  BY <1>1, <1>2, <1>3 DEF ToSet

LEMMA TailSet ==
  ASSUME NEW S, NEW w \in Seq(S), w # <<>>
  PROVE  /\ Tail(w) \in Seq(S) /\ Head(w) \in S
         /\ Len(Tail(w)) = Len(w) - 1
         /\ \A i \in 1..Len(Tail(w)) : i + 1 \in 1..Len(w) /\ Tail(w)[i] = w[i + 1]
         /\ Head(w) = w[1] /\ 1 \in 1..Len(w)
         /\ ToSet(w) = ToSet(Tail(w)) \union {Head(w)}
<1>1. /\ Tail(w) \in Seq(S) /\ Head(w) \in S
      /\ Len(w) \in Nat /\ Len(w) # 0
      /\ Len(Tail(w)) = Len(w) - 1
      /\ Head(w) = w[1]
      /\ \A i \in 1..Len(Tail(w)) : Tail(w)[i] = w[i + 1]
  BY HeadTailProperties, LenProperties, EmptySeq
<1>2. DOMAIN w = 1..Len(w) /\ DOMAIN Tail(w) = 1..Len(w) - 1
  BY <1>1, LenProperties
<1>3. ToSet(w) \subseteq ToSet(Tail(w)) \union {Head(w)}
  <2> SUFFICES ASSUME NEW i \in 1..Len(w)
               PROVE  w[i] \in ToSet(Tail(w)) \/ w[i] = Head(w)
    BY <1>2 DEF ToSet
  <2>1. CASE i = 1
    BY <2>1, <1>1
  <2>2. CASE i # 1
    <3>1. i - 1 \in 1..Len(Tail(w)) /\ Tail(w)[i - 1] = w[i]
      BY <2>2, <1>1
    <3> QED BY <3>1, <1>1, <1>2 DEF ToSet
  <2> QED BY <2>1, <2>2
<1>4. ToSet(Tail(w)) \union {Head(w)} \subseteq ToSet(w)
  <2>1. Head(w) \in ToSet(w)
    BY <1>1, <1>2 DEF ToSet
  <2>2. ASSUME NEW i \in 1..Len(Tail(w)) PROVE Tail(w)[i] \in ToSet(w)
    <3>1. i + 1 \in 1..Len(w) /\ Tail(w)[i] = w[i + 1]
      BY <1>1
    <3> QED BY <3>1, <1>2 DEF ToSet
  <2>3. DOMAIN Tail(w) = 1..Len(Tail(w))
    BY <1>1, <1>2
  <2> QED BY <2>1, <2>2, <2>3 DEF ToSet
<1>5. \A i \in 1..Len(Tail(w)) : i + 1 \in 1..Len(w)
  BY <1>1
<1>6. 1 \in 1..Len(w)
  BY <1>1
<1> QED BY <1>1, <1>3, <1>4, <1>5, <1>6

LEMMA PrefixSet ==
  ASSUME NEW S, NEW w \in Seq(S), NEW n \in 0..Len(w)
  PROVE  /\ SubSeq(w, 1, n) \in Seq(S)
         /\ Len(SubSeq(w, 1, n)) = n
         /\ \A i \in 1..n : i \in 1..Len(w) /\ SubSeq(w, 1, n)[i] = w[i]
         /\ ToSet(SubSeq(w, 1, n)) \subseteq ToSet(w)
<1>0. Len(w) \in Nat /\ DOMAIN w = 1..Len(w)
  BY LenProperties
<1>1. /\ SubSeq(w, 1, n) \in Seq(S)
      /\ Len(SubSeq(w, 1, n)) = n
      /\ \A i \in 1..n : SubSeq(w, 1, n)[i] = w[i]
  <2>1. \A i \in 1..n : w[i] \in S
    BY <1>0, ElementOfSeq
  <2> QED BY <1>0, <2>1
<1>2. DOMAIN SubSeq(w, 1, n) = 1..n
  BY <1>1, LenProperties
<1> QED BY <1>0, <1>1, <1>2 DEF ToSet

LEMMA SetOf ==
  ASSUME NEW S, NEW w \in Seq(S)
  PROVE  /\ Len(w) \in Nat /\ DOMAIN w = 1..Len(w)
         /\ ToSet(w) \subseteq S
         /\ \A i \in 1..Len(w) : w[i] \in ToSet(w)
         /\ \A x \in ToSet(w) : \E i \in 1..Len(w) : w[i] = x
<1>1. Len(w) \in Nat /\ DOMAIN w = 1..Len(w) /\ \A i \in 1..Len(w) : w[i] \in S
  BY LenProperties, ElementOfSeq
<1> QED BY <1>1 DEF ToSet

LEMMA EmptyFacts ==
  /\ Len(<<>>) = 0 /\ ToSet(<<>>) = {} /\ Rising(<<>>)
  /\ \A n \in Nat : Counts(<<>>, n)
  /\ Ordered(<<>>) /\ \A S : <<>> \in Seq(S)
<1>1. Len(<<>>) = 0 /\ \A S : <<>> \in Seq(S)
  BY EmptySeq
<1>2. DOMAIN <<>> = {} /\ 1..0 = {}
  OBVIOUS
<1> QED BY <1>1, <1>2 DEF ToSet, Rising, Counts, Ordered

LEMMA RisingAppend ==
  ASSUME NEW w \in Seq(Nat), NEW x \in Nat, Rising(w), \A y \in ToSet(w) : y < x
  PROVE  Rising(Append(w, x))
<1>1. /\ Len(w) \in Nat /\ Len(Append(w, x)) = Len(w) + 1
      /\ \A i \in 1..Len(w) : Append(w, x)[i] = w[i]
      /\ Append(w, x)[Len(w) + 1] = x
  BY AppendProperties, LenProperties
<1>2. \A i \in 1..Len(w) : w[i] < x
  BY SetOf
<1> QED BY <1>1, <1>2 DEF Rising

LEMMA RisingTail ==
  ASSUME NEW w \in Seq(Nat), w # <<>>, Rising(w)
  PROVE  Rising(Tail(w)) /\ \A y \in ToSet(Tail(w)) : Head(w) < y
<1>1. /\ Tail(w) \in Seq(Nat)
      /\ \A i \in 1..Len(Tail(w)) : i + 1 \in 1..Len(w) /\ Tail(w)[i] = w[i + 1]
      /\ Head(w) = w[1] /\ 1 \in 1..Len(w)
  BY TailSet
<1>2. Rising(Tail(w))
  <2> SUFFICES ASSUME NEW i \in 1..Len(Tail(w)), NEW j \in 1..Len(Tail(w)), i < j
               PROVE  Tail(w)[i] < Tail(w)[j]
    BY DEF Rising
  <2>1. i + 1 < j + 1
    BY <1>1, LenProperties
  <2> QED BY <1>1, <2>1 DEF Rising
<1>3. \A i \in 1..Len(Tail(w)) : Head(w) < Tail(w)[i]
  <2> TAKE i \in 1..Len(Tail(w))
  <2>1. 1 < i + 1
    BY <1>1, LenProperties
  <2> QED BY <1>1, <2>1 DEF Rising
<1> QED BY <1>1, <1>2, <1>3, SetOf

LEMMA CountsAppend ==
  ASSUME NEW w \in Seq(Nat), NEW n \in Nat, Counts(w, n), NEW x \in Nat, x = n + Len(w) + 1
  PROVE  Counts(Append(w, x), n)
<1>1. /\ Len(w) \in Nat /\ Len(Append(w, x)) = Len(w) + 1
      /\ \A i \in 1..Len(w) : Append(w, x)[i] = w[i]
      /\ Append(w, x)[Len(w) + 1] = x
  BY AppendProperties, LenProperties
<1> QED BY <1>1 DEF Counts

LEMMA CountsTail ==
  ASSUME NEW w \in Seq(Nat), w # <<>>, NEW n \in Nat, Counts(w, n)
  PROVE  Counts(Tail(w), n + 1) /\ Head(w) = n + 1
<1>1. /\ Tail(w) \in Seq(Nat)
      /\ \A i \in 1..Len(Tail(w)) : i + 1 \in 1..Len(w) /\ Tail(w)[i] = w[i + 1]
      /\ Head(w) = w[1] /\ 1 \in 1..Len(w)
  BY TailSet
<1> QED BY <1>1 DEF Counts

LEMMA OrderedAppend ==
  ASSUME NEW w \in Seq(Frame), NEW f \in Frame, Ordered(w),
         \A g \in ToSet(w) : g.id = f.id =>
           f.type # "open" /\ g.n <= f.n /\ (f.type = "data" => g.n < f.n)
  PROVE  Ordered(Append(w, f))
<1>1. /\ Len(w) \in Nat /\ Len(Append(w, f)) = Len(w) + 1
      /\ \A i \in 1..Len(w) : Append(w, f)[i] = w[i]
      /\ Append(w, f)[Len(w) + 1] = f
  BY AppendProperties, LenProperties
<1>2. \A i \in 1..Len(w) : w[i] \in ToSet(w)
  BY SetOf
<1> SUFFICES ASSUME NEW i \in 1..Len(w) + 1, NEW j \in 1..Len(w) + 1, i < j,
                    Append(w, f)[i].id = Append(w, f)[j].id
             PROVE  /\ Append(w, f)[j].type # "open"
                    /\ Append(w, f)[i].n <= Append(w, f)[j].n
                    /\ Append(w, f)[j].type = "data" => Append(w, f)[i].n < Append(w, f)[j].n
  BY <1>1 DEF Ordered
<1>3. i \in 1..Len(w) /\ Append(w, f)[i] = w[i]
  BY <1>1
<1>4. CASE j \in 1..Len(w)
  BY <1>1, <1>3, <1>4 DEF Ordered
<1>5. CASE j = Len(w) + 1
  BY <1>1, <1>2, <1>3, <1>5
<1> QED BY <1>1, <1>4, <1>5

LEMMA OrderedTail ==
  ASSUME NEW w \in Seq(Frame), w # <<>>, Ordered(w)
  PROVE  /\ Ordered(Tail(w))
         /\ \A g \in ToSet(Tail(w)) : g.id = Head(w).id =>
              g.type # "open" /\ Head(w).n <= g.n /\ (g.type = "data" => Head(w).n < g.n)
<1>1. /\ Tail(w) \in Seq(Frame) /\ Len(Tail(w)) \in Nat
      /\ \A i \in 1..Len(Tail(w)) : i + 1 \in 1..Len(w) /\ Tail(w)[i] = w[i + 1]
      /\ Head(w) = w[1] /\ 1 \in 1..Len(w)
  BY TailSet, LenProperties
<1>2. Ordered(Tail(w))
  <2> SUFFICES ASSUME NEW i \in 1..Len(Tail(w)), NEW j \in 1..Len(Tail(w)), i < j,
                      Tail(w)[i].id = Tail(w)[j].id
               PROVE  /\ Tail(w)[j].type # "open"
                      /\ Tail(w)[i].n <= Tail(w)[j].n
                      /\ Tail(w)[j].type = "data" => Tail(w)[i].n < Tail(w)[j].n
    BY DEF Ordered
  <2>1. i + 1 < j + 1 /\ Tail(w)[i] = w[i + 1] /\ Tail(w)[j] = w[j + 1]
        /\ i + 1 \in 1..Len(w) /\ j + 1 \in 1..Len(w)
    BY <1>1
  <2> QED BY <2>1 DEF Ordered
<1>3. \A i \in 1..Len(Tail(w)) : Tail(w)[i].id = Head(w).id =>
        /\ Tail(w)[i].type # "open" /\ Head(w).n <= Tail(w)[i].n
        /\ Tail(w)[i].type = "data" => Head(w).n < Tail(w)[i].n
  <2> TAKE i \in 1..Len(Tail(w))
  <2>1. 1 < i + 1 /\ Tail(w)[i] = w[i + 1] /\ i + 1 \in 1..Len(w)
    BY <1>1
  <2> QED BY <1>1, <2>1 DEF Ordered
<1>4. \A g \in ToSet(Tail(w)) : \E i \in 1..Len(Tail(w)) : Tail(w)[i] = g
  BY <1>1, SetOf
<1> QED BY <1>2, <1>3, <1>4

LEMMA OrderedPrefix ==
  ASSUME NEW w \in Seq(Frame), Ordered(w), NEW n \in 0..Len(w)
  PROVE  Ordered(SubSeq(w, 1, n))
<1>1. /\ Len(SubSeq(w, 1, n)) = n
      /\ \A i \in 1..n : i \in 1..Len(w) /\ SubSeq(w, 1, n)[i] = w[i]
  BY PrefixSet
<1> QED BY <1>1 DEF Ordered

-----------------------------------------------------------------------------
(* What a step does, told field by field. *)

OnWire(side) == ToSet(wire[side])

Elsewhere(side, s) ==
  \A t \in Sides, r \in Streams : t # side \/ r # s => end'[t][r] = end[t][r]

SameFlow(side, s) ==
  /\ end'[side][s].got = end[side][s].got
  /\ end'[side][s].reads = end[side][s].reads
  /\ end'[side][s].eof = end[side][s].eof
  /\ end'[side][s].due = end[side][s].due
  /\ end'[side][s].closed = end[side][s].closed

LEMMA SideFacts ==
  /\ "relay" \in Sides /\ "tunnel" \in Sides
  /\ Other("relay") = "tunnel" /\ Other("tunnel") = "relay"
  /\ \A side \in Sides : /\ Other(side) \in Sides /\ Other(side) # side
                         /\ Other(Other(side)) = side
                         /\ \A t \in Sides : t = side \/ t = Other(side)
BY DEF Sides, Other

LEMMA EndFacts ==
  ASSUME NEW ends \in Ends, NEW side \in Sides, NEW s \in Streams
  PROVE  /\ ends[side][s] \in End
         /\ ends[side][s].pipe \in {"none", "opening", "dialing", "open", "closing", "gone"}
         /\ ends[side][s].out \in {"run", "armed", "done"}
         /\ ends[side][s].in \in {"run", "eof", "error", "hangup"}
         /\ ends[side][s].reads \in Seq(Nat) /\ ends[side][s].got \in Seq(Nat)
         /\ ends[side][s].eof \in BOOLEAN /\ ends[side][s].closed \in BOOLEAN
         /\ ends[side][s].due \in Nat /\ ends[side][s].sent \in Nat
<1>1. ends[side][s] \in End
  BY DEF Ends
<1> QED BY <1>1 DEF End

LEMMA LoopFacts ==
  ASSUME loop \in Loops, NEW side \in Sides
  PROVE  /\ loop[side].at \in {"read", "deliver", "answer"}
         /\ loop[side].at # "read" => loop[side].f \in Frame
<1>1. \/ loop[side] \in [at : {"read"}, f : {<<>>}]
      \/ loop[side] \in [at : {"deliver", "answer"}, f : Frame]
  BY DEF Loops, Loop
<1>2. CASE loop[side] \in [at : {"read"}, f : {<<>>}]
  BY <1>2
<1>3. CASE loop[side] \in [at : {"deliver", "answer"}, f : Frame]
  BY <1>3
<1> QED BY <1>1, <1>2, <1>3

LEMMA FrameFacts ==
  /\ \A f \in Frame : /\ f.type \in {"open", "data", "close"}
                      /\ f.id \in Streams /\ f.n \in Nat
                      /\ f.type = "data" => f = Data(f.id, f.n)
  /\ \A s \in Streams :
       /\ OpenFrame(s) \in Frame
       /\ OpenFrame(s).type = "open" /\ OpenFrame(s).id = s /\ OpenFrame(s).n = 0
  /\ \A s \in Streams, n \in Nat :
       /\ Data(s, n) \in Frame /\ CloseFrame(s, n) \in Frame
       /\ Data(s, n).type = "data" /\ Data(s, n).id = s /\ Data(s, n).n = n
       /\ CloseFrame(s, n).type = "close" /\ CloseFrame(s, n).id = s /\ CloseFrame(s, n).n = n
<1>1. ASSUME NEW f \in Frame
      PROVE  /\ f.type \in {"open", "data", "close"}
             /\ f.id \in Streams /\ f.n \in Nat
             /\ f.type = "data" => f = Data(f.id, f.n)
  BY DEF Frame, Data
<1>2. ASSUME NEW s \in Streams
      PROVE  /\ OpenFrame(s) \in Frame
             /\ OpenFrame(s).type = "open" /\ OpenFrame(s).id = s /\ OpenFrame(s).n = 0
  BY DEF Frame, OpenFrame
<1>3. ASSUME NEW s \in Streams, NEW n \in Nat
      PROVE  /\ Data(s, n) \in Frame /\ CloseFrame(s, n) \in Frame
             /\ Data(s, n).type = "data" /\ Data(s, n).id = s /\ Data(s, n).n = n
             /\ CloseFrame(s, n).type = "close" /\ CloseFrame(s, n).id = s /\ CloseFrame(s, n).n = n
  BY DEF Frame, Data, CloseFrame
<1> QED BY <1>1, <1>2, <1>3

LEMMA EndUpdate ==
  ASSUME end \in Ends, NEW side \in Sides, NEW s \in Streams, NEW e \in End,
         end' = [end EXCEPT ![side][s] = e]
  PROVE  end' \in Ends /\ end'[side][s] = e /\ Elsewhere(side, s)
BY DEF Ends, Elsewhere

LEMMA EndSame ==
  ASSUME end' = end
  PROVE  (end \in Ends => end' \in Ends)
         /\ \A side \in Sides, s \in Streams : end'[side][s] = end[side][s]
OBVIOUS

LEMMA ConsumeStep ==
  ASSUME wire \in Wires, NEW side \in Sides, NEW type, NextIs(side, type), Consume(side)
  PROVE  /\ loop[side].at = "read"
         /\ wire' \in Wires /\ wire'[side] = wire[side]
         /\ wire'[Other(side)] = Tail(wire[Other(side)])
         /\ wire[Other(side)] \in Seq(Frame) /\ wire[Other(side)] # <<>>
         /\ Len(wire'[Other(side)]) = Len(wire[Other(side)]) - 1
         /\ Head(wire[Other(side)]) \in Frame
         /\ Head(wire[Other(side)]).type = type
         /\ OnWire(side)' = OnWire(side)
         /\ OnWire(Other(side)) = OnWire(Other(side))' \union {Head(wire[Other(side)])}
<1>1. Other(side) \in Sides /\ Other(side) # side
  BY SideFacts
<1>2. wire[Other(side)] \in Seq(Frame) /\ wire[Other(side)] # <<>>
  BY <1>1 DEF Wires, NextIs
<1>3. wire' = [wire EXCEPT ![Other(side)] = Tail(wire[Other(side)])]
  BY DEF Consume
<1>4. Tail(wire[Other(side)]) \in Seq(Frame)
  BY <1>2, TailSet
<1>5. wire' \in Wires /\ wire'[side] = wire[side] /\ wire'[Other(side)] = Tail(wire[Other(side)])
  BY <1>1, <1>3, <1>4 DEF Wires
<1>6. Head(wire[Other(side)]).type = type /\ loop[side].at = "read"
  BY DEF NextIs
<1>7. /\ OnWire(side)' = OnWire(side)
      /\ OnWire(Other(side))' = ToSet(Tail(wire[Other(side)]))
  BY <1>5 DEF OnWire
<1> QED BY <1>2, <1>5, <1>6, <1>7, TailSet DEF OnWire

LEMMA WriteStep ==
  ASSUME wire \in Wires, NEW side \in Sides, NEW f \in Frame, Write(side, f)
  PROVE  /\ side \in up
         /\ wire' \in Wires /\ wire'[Other(side)] = wire[Other(side)]
         /\ OnWire(Other(side))' = OnWire(Other(side))
         /\ \/ /\ Other(side) \notin up
               /\ wire'[side] = wire[side] /\ OnWire(side)' = OnWire(side)
            \/ /\ Other(side) \in up
               /\ wire'[side] = Append(wire[side], f)
               /\ Len(wire'[side]) = Len(wire[side]) + 1 /\ Len(wire[side]) < WireBuffer
               /\ OnWire(side)' = OnWire(side) \union {f}
<1>1. Other(side) \in Sides /\ Other(side) # side
  BY SideFacts
<1>2. wire[side] \in Seq(Frame)
  BY DEF Wires
<1>3. CASE Other(side) \notin up /\ UNCHANGED wire
  BY <1>3 DEF Write, OnWire
<1>4. CASE /\ Other(side) \in up
           /\ Len(wire[side]) < WireBuffer
           /\ wire' = [wire EXCEPT ![side] = Append(wire[side], f)]
  <2>1. Append(wire[side], f) \in Seq(Frame)
    BY <1>2, AppendSet
  <2>2. /\ wire' \in Wires /\ wire'[side] = Append(wire[side], f)
        /\ wire'[Other(side)] = wire[Other(side)]
    BY <1>1, <1>4, <2>1 DEF Wires
  <2>3. /\ Len(wire'[side]) = Len(wire[side]) + 1
        /\ ToSet(Append(wire[side], f)) = ToSet(wire[side]) \union {f}
    BY <1>2, <2>2, AppendSet
  <2>4. OnWire(side)' = OnWire(side) \union {f} /\ OnWire(Other(side))' = OnWire(Other(side))
    BY <2>2, <2>3 DEF OnWire
  <2> QED BY <1>4, <2>2, <2>3, <2>4 DEF Write
<1> QED BY <1>3, <1>4 DEF Write

LEMMA SetPipe ==
  ASSUME end \in Ends, NEW side \in Sides, NEW s \in Streams,
         NEW v \in {"none", "opening", "dialing", "open", "closing", "gone"},
         SetEnd(side, s, "pipe", v)
  PROVE  /\ end' \in Ends /\ Elsewhere(side, s) /\ SameFlow(side, s)
         /\ end'[side][s].pipe = v
         /\ end'[side][s].out = end[side][s].out /\ end'[side][s].in = end[side][s].in
         /\ end'[side][s].sent = end[side][s].sent
<1> DEFINE e == end[side][s]
           f == [e EXCEPT !.pipe = v]
<1>1. e \in End
  BY EndFacts
<1>2. f \in End
  BY <1>1, Zenon DEF End
<1>3. end' = [end EXCEPT ![side][s] = f]
  BY DEF SetEnd
<1>4. end' \in Ends /\ end'[side][s] = f /\ Elsewhere(side, s)
  <2> HIDE DEF f
  <2> QED BY <1>2, <1>3, EndUpdate
<1>5. /\ f.pipe = v /\ f.out = e.out /\ f.in = e.in /\ f.sent = e.sent
      /\ f.got = e.got /\ f.reads = e.reads /\ f.eof = e.eof /\ f.due = e.due
      /\ f.closed = e.closed
  BY <1>1 DEF End
<1> QED BY <1>4, <1>5 DEF SameFlow

LEMMA SetOut ==
  ASSUME end \in Ends, NEW side \in Sides, NEW s \in Streams,
         NEW v \in {"run", "armed", "done"}, SetEnd(side, s, "out", v)
  PROVE  /\ end' \in Ends /\ Elsewhere(side, s) /\ SameFlow(side, s)
         /\ end'[side][s].out = v
         /\ end'[side][s].pipe = end[side][s].pipe /\ end'[side][s].in = end[side][s].in
         /\ end'[side][s].sent = end[side][s].sent
<1> DEFINE e == end[side][s]
           f == [e EXCEPT !.out = v]
<1>1. e \in End
  BY EndFacts
<1>2. f \in End
  BY <1>1, Zenon DEF End
<1>3. end' = [end EXCEPT ![side][s] = f]
  BY DEF SetEnd
<1>4. end' \in Ends /\ end'[side][s] = f /\ Elsewhere(side, s)
  <2> HIDE DEF f
  <2> QED BY <1>2, <1>3, EndUpdate
<1>5. /\ f.out = v /\ f.pipe = e.pipe /\ f.in = e.in /\ f.sent = e.sent
      /\ f.got = e.got /\ f.reads = e.reads /\ f.eof = e.eof /\ f.due = e.due
      /\ f.closed = e.closed
  BY <1>1 DEF End
<1> QED BY <1>4, <1>5 DEF SameFlow

LEMMA SetIn ==
  ASSUME end \in Ends, NEW side \in Sides, NEW s \in Streams,
         NEW v \in {"run", "eof", "error", "hangup"}, SetEnd(side, s, "in", v)
  PROVE  /\ end' \in Ends /\ Elsewhere(side, s) /\ SameFlow(side, s)
         /\ end'[side][s].in = v
         /\ end'[side][s].pipe = end[side][s].pipe /\ end'[side][s].out = end[side][s].out
         /\ end'[side][s].sent = end[side][s].sent
<1> DEFINE e == end[side][s]
           f == [e EXCEPT !.in = v]
<1>1. e \in End
  BY EndFacts
<1>2. f \in End
  BY <1>1, Zenon DEF End
<1>3. end' = [end EXCEPT ![side][s] = f]
  BY DEF SetEnd
<1>4. end' \in Ends /\ end'[side][s] = f /\ Elsewhere(side, s)
  <2> HIDE DEF f
  <2> QED BY <1>2, <1>3, EndUpdate
<1>5. /\ f.in = v /\ f.pipe = e.pipe /\ f.out = e.out /\ f.sent = e.sent
      /\ f.got = e.got /\ f.reads = e.reads /\ f.eof = e.eof /\ f.due = e.due
      /\ f.closed = e.closed
  BY <1>1 DEF End
<1> QED BY <1>4, <1>5 DEF SameFlow

LEMMA CloseStep ==
  ASSUME end \in Ends, streams \in [Sides -> SUBSET Streams],
         NEW side \in Sides, NEW s \in Streams, CloseStream(side, s)
  PROVE  /\ streams' \in [Sides -> SUBSET Streams]
         /\ streams'[side] = streams[side] \ {s}
         /\ streams'[Other(side)] = streams[Other(side)]
         /\ end' \in Ends /\ Elsewhere(side, s)
         /\ end'[side][s].pipe = "closing" /\ end'[side][s].closed
         /\ end'[side][s].reads = <<>> /\ end'[side][s].got = end[side][s].got
         /\ end'[side][s].eof = end[side][s].eof /\ end'[side][s].due = end[side][s].due
         /\ end'[side][s].sent = end[side][s].sent
         /\ end'[side][s].out = "armed" <=> end[side][s].out = "armed"
         /\ end'[side][s].in = "eof" <=> end[side][s].in = "eof"
<1> DEFINE e == end[side][s]
           o == IF e.out = "armed" THEN "armed" ELSE "done"
           i == IF e.in = "run" THEN "hangup" ELSE e.in
           f == [e EXCEPT !.closed = TRUE, !.pipe = "closing", !.reads = <<>>, !.out = o, !.in = i]
<1>1. e \in End /\ o \in {"run", "armed", "done"} /\ i \in {"run", "eof", "error", "hangup"}
      /\ (o = "armed" <=> e.out = "armed") /\ (i = "eof" <=> e.in = "eof")
  BY EndFacts
<1>2. /\ streams' = [streams EXCEPT ![side] = streams[side] \ {s}]
      /\ end' = [end EXCEPT ![side][s] = f]
  BY DEF CloseStream
<1> HIDE DEF o, i
<1>3. f \in End
  <2>1. <<>> \in Seq(Nat)
    BY EmptyFacts
  <2> QED BY <1>1, <2>1, Zenon DEF End
<1>4. end' \in Ends /\ end'[side][s] = f /\ Elsewhere(side, s)
  <2> HIDE DEF f
  <2> QED BY <1>2, <1>3, EndUpdate
<1>5. /\ f.closed /\ f.pipe = "closing" /\ f.reads = <<>> /\ f.out = o /\ f.in = i
      /\ f.sent = e.sent /\ f.got = e.got /\ f.eof = e.eof /\ f.due = e.due
  BY <1>1 DEF End
<1>6. /\ streams' \in [Sides -> SUBSET Streams]
      /\ streams'[side] = streams[side] \ {s}
      /\ streams'[Other(side)] = streams[Other(side)]
  BY <1>2, SideFacts
<1> QED BY <1>1, <1>4, <1>5, <1>6

LEMMA EofStep ==
  ASSUME end \in Ends, NEW side \in Sides, NEW s \in Streams, NEW n \in Nat,
         end' = [end EXCEPT ![side][s].eof = TRUE, ![side][s].due = n]
  PROVE  /\ end' \in Ends /\ Elsewhere(side, s)
         /\ end'[side][s].eof /\ end'[side][s].due = n
         /\ end'[side][s].got = end[side][s].got /\ end'[side][s].reads = end[side][s].reads
         /\ end'[side][s].closed = end[side][s].closed /\ end'[side][s].pipe = end[side][s].pipe
         /\ end'[side][s].out = end[side][s].out /\ end'[side][s].in = end[side][s].in
         /\ end'[side][s].sent = end[side][s].sent
<1> DEFINE e == end[side][s]
           f == [e EXCEPT !.eof = TRUE, !.due = n]
<1>1. e \in End
  BY EndFacts
<1>2. f \in End
  BY <1>1, Zenon DEF End
<1>3. end' = [end EXCEPT ![side][s] = f]
  OBVIOUS
<1>4. end' \in Ends /\ end'[side][s] = f /\ Elsewhere(side, s)
  <2> HIDE DEF f
  <2> QED BY <1>2, <1>3, EndUpdate
<1>5. /\ f.eof /\ f.due = n /\ f.pipe = e.pipe /\ f.out = e.out /\ f.in = e.in /\ f.sent = e.sent
      /\ f.got = e.got /\ f.reads = e.reads /\ f.closed = e.closed
  BY <1>1 DEF End
<1> QED BY <1>4, <1>5

LEMMA StoreStep ==
  ASSUME end \in Ends, NEW side \in Sides, NEW s \in Streams, NEW n \in Nat,
         end' = [end EXCEPT ![side][s].reads = Append(@, n)]
  PROVE  /\ end' \in Ends /\ Elsewhere(side, s)
         /\ end'[side][s].reads = Append(end[side][s].reads, n)
         /\ end'[side][s].got = end[side][s].got /\ end'[side][s].eof = end[side][s].eof
         /\ end'[side][s].due = end[side][s].due
         /\ end'[side][s].closed = end[side][s].closed /\ end'[side][s].pipe = end[side][s].pipe
         /\ end'[side][s].out = end[side][s].out /\ end'[side][s].in = end[side][s].in
         /\ end'[side][s].sent = end[side][s].sent
<1> DEFINE e == end[side][s]
           v == Append(e.reads, n)
           f == [e EXCEPT !.reads = v]
<1>1. e \in End /\ v \in Seq(Nat)
  BY EndFacts, AppendSet
<1>2. end' = [end EXCEPT ![side][s] = f]
  OBVIOUS
<1> HIDE DEF v
<1>3. f \in End
  BY <1>1, Zenon DEF End
<1>4. end' \in Ends /\ end'[side][s] = f /\ Elsewhere(side, s)
  <2> HIDE DEF f
  <2> QED BY <1>2, <1>3, EndUpdate
<1>5. /\ f.reads = v /\ f.pipe = e.pipe /\ f.out = e.out /\ f.in = e.in /\ f.sent = e.sent
      /\ f.got = e.got /\ f.eof = e.eof /\ f.due = e.due /\ f.closed = e.closed
  BY <1>1 DEF End
<1> QED BY <1>4, <1>5 DEF v

LEMMA CopyStep ==
  ASSUME end \in Ends, NEW side \in Sides, NEW s \in Streams, CopyIn(side, s)
  PROVE  /\ UNCHANGED <<up, streams, accept, wire, loop>>
         /\ end[side][s].pipe = "open" /\ end[side][s].in = "run" /\ end[side][s].reads # <<>>
         /\ end' \in Ends /\ Elsewhere(side, s)
         /\ end'[side][s].got = Append(end[side][s].got, Head(end[side][s].reads))
         /\ end'[side][s].reads = Tail(end[side][s].reads)
         /\ end'[side][s].eof = end[side][s].eof /\ end'[side][s].due = end[side][s].due
         /\ end'[side][s].closed = end[side][s].closed /\ end'[side][s].pipe = end[side][s].pipe
         /\ end'[side][s].out = end[side][s].out /\ end'[side][s].in = end[side][s].in
         /\ end'[side][s].sent = end[side][s].sent
<1> DEFINE e == end[side][s]
           v == Append(e.got, Head(e.reads))
           w == Tail(e.reads)
           f == [e EXCEPT !.got = v, !.reads = w]
<1>1. e \in End /\ v \in Seq(Nat) /\ w \in Seq(Nat)
  <2>1. e \in End /\ e.reads \in Seq(Nat) /\ e.got \in Seq(Nat) /\ e.reads # <<>>
    BY EndFacts DEF CopyIn
  <2> QED BY <2>1, AppendSet, TailSet
<1>2. end' = [end EXCEPT ![side][s] = f]
  BY DEF CopyIn
<1> HIDE DEF v, w
<1>3. f \in End
  BY <1>1, Zenon DEF End
<1>4. end' \in Ends /\ end'[side][s] = f /\ Elsewhere(side, s)
  <2> HIDE DEF f
  <2> QED BY <1>2, <1>3, EndUpdate
<1>5. /\ f.got = v /\ f.reads = w /\ f.pipe = e.pipe /\ f.out = e.out /\ f.in = e.in
      /\ f.sent = e.sent /\ f.eof = e.eof /\ f.due = e.due /\ f.closed = e.closed
  BY <1>1 DEF End
<1>6. /\ UNCHANGED <<up, streams, accept, wire, loop>>
      /\ e.pipe = "open" /\ e.in = "run" /\ e.reads # <<>>
  BY DEF CopyIn
<1> QED BY <1>4, <1>5, <1>6 DEF v, w

LEMMA SendStep ==
  ASSUME end \in Ends, NEW side \in Sides, NEW s \in Streams, WriteData(side, s)
  PROVE  /\ UNCHANGED <<up, streams, accept, loop>>
         /\ Write(side, Data(s, end[side][s].sent + 1))
         /\ end[side][s].out = "armed"
         /\ end' \in Ends /\ Elsewhere(side, s) /\ SameFlow(side, s)
         /\ end'[side][s].sent = end[side][s].sent + 1
         /\ end'[side][s].out # "armed"
         /\ end'[side][s].pipe = end[side][s].pipe /\ end'[side][s].in = end[side][s].in
<1> DEFINE e == end[side][s]
           n == e.sent + 1
           o == IF e.closed THEN "done" ELSE "run"
           f == [e EXCEPT !.sent = n, !.out = o]
<1>1. e \in End /\ n \in Nat /\ o \in {"run", "armed", "done"} /\ o # "armed"
  BY EndFacts
<1>2. end' = [end EXCEPT ![side][s] = f]
  BY DEF WriteData
<1> HIDE DEF n, o
<1>3. f \in End
  BY <1>1, Zenon DEF End
<1>4. end' \in Ends /\ end'[side][s] = f /\ Elsewhere(side, s)
  <2> HIDE DEF f
  <2> QED BY <1>2, <1>3, EndUpdate
<1>5. /\ f.sent = n /\ f.out = o /\ f.pipe = e.pipe /\ f.in = e.in
      /\ f.got = e.got /\ f.reads = e.reads /\ f.eof = e.eof /\ f.due = e.due
      /\ f.closed = e.closed
  BY <1>1 DEF End
<1>6. /\ UNCHANGED <<up, streams, accept, loop>>
      /\ Write(side, Data(s, e.sent + 1)) /\ e.out = "armed"
  BY DEF WriteData
<1> QED BY <1>1, <1>4, <1>5, <1>6 DEF SameFlow, n

-----------------------------------------------------------------------------
(* The inductive invariant. *)

Bounds ==
  /\ Len(accept) <= AcceptBuffer
  /\ \A side \in Sides : Len(wire[side]) <= WireBuffer
  /\ \A side \in Sides, s \in Streams :
       /\ Len(end[side][s].reads) <= StreamBuffer
       /\ end[side][s].sent <= MaxData[side][s]
       /\ end[side][s].out = "armed" => end[side][s].sent < MaxData[side][s]
       /\ end[side][s].due <= MaxData[Other(side)][s]

WireInv ==
  \A side \in Sides :
    /\ Ordered(wire[side])
    /\ \A f \in OnWire(side) :
         /\ f.n <= end[side][f.id].sent
         /\ f.type = "open" => side = "relay"

(* A stream whose OPEN is not written has done nothing at the relay, and    *)
(* one whose OPEN is not read nothing at the tunnel.                       *)
On(side, s) == loop[side].at # "read" /\ loop[side].f.id = s
Silent(side, s) == \A f \in OnWire(side) : f.id # s
OpenOnWire(s) == \E f \in OnWire("relay") : f.type = "open" /\ f.id = s
Unopened(s) == end["relay"][s].pipe \in {"none", "opening"}

Fresh(side, s) ==
  /\ end[side][s].out = "run" /\ end[side][s].in = "run"
  /\ end[side][s].reads = <<>> /\ end[side][s].got = <<>>
  /\ ~end[side][s].eof /\ ~end[side][s].closed /\ end[side][s].sent = 0
  /\ Silent(side, s) /\ ~On(side, s)

OpeningOf(s) ==
  /\ Unopened(s) => Fresh("relay", s)
  /\ end["relay"][s].pipe = "opening" => s \in streams["relay"]
  /\ Unopened(s) \/ OpenOnWire(s) =>
       /\ Fresh("tunnel", s) /\ end["tunnel"][s].pipe = "none"
       /\ s \notin streams["tunnel"] /\ s \notin ToSet(accept)

OpeningInv == \A s \in Streams : OpeningOf(s)

(* Streams wait to be accepted once, and were not before. *)
AcceptOf(s) == s \in ToSet(accept) => end["tunnel"][s].pipe = "none"
AcceptInv ==
  /\ \A s \in Streams : AcceptOf(s)
  /\ IsInjective(accept)

Delivering(side, s) == loop[side].at = "deliver" /\ loop[side].f.id = s

ClosedOf(side, s) ==
  /\ end[side][s].closed =>
       /\ s \notin streams[side] /\ end[side][s].reads = <<>>
       /\ end[side][s].pipe \in {"closing", "gone"}
  /\ end[side][s].eof => s \notin streams[side]
  /\ Delivering(side, s) => s \in streams[side] \/ end[side][s].closed

ClosedInv == \A side \in Sides, s \in Streams : ClosedOf(side, s)

(* Of what the other side wrote to a stream, this side has received the    *)
(* first k, and while the stream is in its table the rest is on the wire.  *)
Received(side, s) ==
  IF Delivering(side, s) THEN Len(end[side][s].got) + Len(end[side][s].reads) + 1
                         ELSE Len(end[side][s].got) + Len(end[side][s].reads)
Live(side, s) == s \in streams[side] \/ (side = "tunnel" /\ OpenOnWire(s))

FlowOf(side, s) ==
  side \in up /\ Live(side, s) =>
    /\ Received(side, s) <= end[Other(side)][s].sent
    /\ \A m \in Nat : Received(side, s) < m /\ m <= end[Other(side)][s].sent =>
         Data(s, m) \in OnWire(Other(side))
    /\ \A f \in OnWire(Other(side)) : f.id = s =>
         /\ Received(side, s) <= f.n
         /\ f.type = "data" => Received(side, s) < f.n

FlowInv == \A side \in Sides, s \in Streams : FlowOf(side, s)

(* While this side is up, what was received is without a gap.              *)
GaplessOf(side, s) ==
  side \in up =>
    /\ Counts(end[side][s].got, 0)
    /\ Counts(end[side][s].reads, Len(end[side][s].got))
    /\ Delivering(side, s) /\ ~end[side][s].closed =>
         loop[side].f.n = Len(end[side][s].got) + Len(end[side][s].reads) + 1
    /\ end[side][s].eof /\ end[side][s].in = "run" /\ ~end[side][s].closed =>
         Len(end[side][s].got) + Len(end[side][s].reads) = end[side][s].due
    /\ end[side][s].in = "eof" =>
         end[side][s].eof /\ Len(end[side][s].got) = end[side][s].due

GaplessInv == \A side \in Sides, s \in Streams : GaplessOf(side, s)

(* Whatever closes meanwhile, numbers rise from got over reads and the     *)
(* frame in delivery to those on the wire.                                 *)
OrderOf(side, s) ==
  /\ Rising(end[side][s].got) /\ Rising(end[side][s].reads)
  /\ \A x \in ToSet(end[side][s].got) \union ToSet(end[side][s].reads) :
       /\ x <= end[Other(side)][s].sent
       /\ Delivering(side, s) => x < loop[side].f.n
       /\ \A f \in OnWire(Other(side)) : f.id = s /\ f.type = "data" => x < f.n
  /\ \A x \in ToSet(end[side][s].got), y \in ToSet(end[side][s].reads) : x < y
  /\ Delivering(side, s) =>
       /\ loop[side].f.n <= end[Other(side)][s].sent
       /\ \A f \in OnWire(Other(side)) : f.id = s /\ f.type = "data" => loop[side].f.n < f.n

OrderInv == \A side \in Sides, s \in Streams : OrderOf(side, s)

Told(side, s) ==
  \/ \E f \in OnWire(side) : f.type = "close" /\ f.id = s
  \/ end[side][s].pipe = "closing"
  \/ loop[side].at = "answer" /\ loop[side].f.id = s

ComingOf(side, s) ==
  /\ Told(side, s) => s \notin streams[side]
  /\ Live(side, s) =>
       \/ s \in streams[Other(side)]
       \/ end[side][s].pipe = "opening" \/ (side = "relay" /\ OpenOnWire(s))
       \/ Told(Other(side), s)

ComingInv == up = Sides => \A side \in Sides, s \in Streams : ComingOf(side, s)

IInv == /\ Shape /\ Bounds /\ WireInv /\ OpeningInv /\ AcceptInv /\ ClosedInv
        /\ FlowInv /\ GaplessInv /\ OrderInv /\ ComingInv

-----------------------------------------------------------------------------
(* Reading and closing, with what the invariant says of the frame.         *)

LEMMA ReadFrame ==
  ASSUME Shape, WireInv, NEW side \in Sides, NEW type, NextIs(side, type), Consume(side)
  PROVE  LET f == Head(wire[Other(side)])
         IN /\ f \in Frame /\ f \in OnWire(Other(side)) /\ f.type = type
            /\ f.n <= end[Other(side)][f.id].sent
            /\ f.type = "open" => side = "tunnel"
            /\ loop[side].at = "read"
            /\ wire' \in Wires
            /\ \A t \in Sides : Ordered(wire'[t]) /\ Len(wire'[t]) <= Len(wire[t])
            /\ OnWire(side)' = OnWire(side)
            /\ OnWire(Other(side)) = OnWire(Other(side))' \union {f}
            /\ \A g \in OnWire(Other(side))' : g.id = f.id =>
                 g.type # "open" /\ f.n <= g.n /\ (g.type = "data" => f.n < g.n)
<1> DEFINE w == wire[Other(side)]
           f == Head(w)
<1>1. /\ loop[side].at = "read"
      /\ wire' \in Wires /\ wire'[side] = wire[side] /\ wire'[Other(side)] = Tail(w)
      /\ w \in Seq(Frame) /\ w # <<>> /\ f \in Frame /\ f.type = type
      /\ Len(wire'[Other(side)]) = Len(w) - 1
      /\ OnWire(side)' = OnWire(side)
      /\ OnWire(Other(side)) = OnWire(Other(side))' \union {f}
  BY ConsumeStep DEF Shape
<1>2. Ordered(w) /\ Ordered(wire[side]) /\ Other(side) \in Sides
  BY SideFacts DEF WireInv
<1>3. OnWire(Other(side))' = ToSet(Tail(w))
  BY <1>1 DEF OnWire
<1>4. f.n <= end[Other(side)][f.id].sent /\ (f.type = "open" => Other(side) = "relay")
  BY <1>1, <1>2 DEF WireInv
<1>5. f.type = "open" => side = "tunnel"
  BY <1>4, SideFacts
<1>6. \A t \in Sides : Ordered(wire'[t])
  BY <1>1, <1>2, OrderedTail, SideFacts
<1>7. \A t \in Sides : Len(wire'[t]) <= Len(wire[t])
  <2>1. Len(wire[side]) \in Nat /\ Len(w) \in Nat
    BY <1>2, LenProperties DEF Shape, Wires
  <2>2. Len(wire'[side]) <= Len(wire[side]) /\ Len(wire'[Other(side)]) <= Len(wire[Other(side)])
    BY <2>1, <1>1
  <2> HIDE DEF w
  <2> QED BY <2>2, SideFacts
<1>8. \A g \in OnWire(Other(side))' : g.id = f.id =>
        g.type # "open" /\ f.n <= g.n /\ (g.type = "data" => f.n < g.n)
  BY <1>1, <1>2, <1>3, OrderedTail
<1> QED BY <1>1, <1>4, <1>5, <1>6, <1>7, <1>8

LEMMA FailStep ==
  ASSUME Shape, WireInv, NEW side \in Sides, Fail(side)
  PROVE  /\ up' = up \ {side}
         /\ wire' \in Wires
         /\ \A t \in Sides : /\ Ordered(wire'[t]) /\ Len(wire'[t]) <= Len(wire[t])
                             /\ OnWire(t)' \subseteq OnWire(t)
         /\ OnWire(side)' = OnWire(side)
<1> DEFINE w == wire[Other(side)]
<1>1. PICK n \in 0..Len(w) : wire' = [wire EXCEPT ![Other(side)] = SubSeq(w, 1, n)]
  BY DEF Fail
<1>2. w \in Seq(Frame) /\ Ordered(w) /\ Other(side) \in Sides /\ Len(w) \in Nat
  BY SideFacts, LenProperties DEF Shape, Wires, WireInv
<1>3. /\ SubSeq(w, 1, n) \in Seq(Frame) /\ Len(SubSeq(w, 1, n)) = n
      /\ ToSet(SubSeq(w, 1, n)) \subseteq ToSet(w)
      /\ Ordered(SubSeq(w, 1, n))
  BY <1>2, PrefixSet, OrderedPrefix
<1>4. /\ wire' \in Wires /\ wire'[side] = wire[side]
      /\ wire'[Other(side)] = SubSeq(w, 1, n)
  BY <1>1, <1>2, <1>3, SideFacts DEF Shape, Wires
<1>5. \A t \in Sides : /\ Ordered(wire'[t]) /\ Len(wire'[t]) <= Len(wire[t])
                       /\ OnWire(t)' \subseteq OnWire(t)
  <2> TAKE t \in Sides
  <2>1. CASE t = side
    <3>1. Len(wire[side]) \in Nat
      BY LenProperties DEF Shape, Wires
    <3> QED BY <2>1, <3>1, <1>4 DEF OnWire, WireInv
  <2>2. CASE t = Other(side)
    BY <2>2, <1>2, <1>3, <1>4 DEF OnWire
  <2> QED BY <2>1, <2>2, SideFacts
<1> QED BY <1>4, <1>5 DEF Fail, OnWire

LEMMA ReadCloseStep ==
  ASSUME Shape, NEW side \in Sides, ReadClose(side), Head(wire[Other(side)]) \in Frame
  PROVE  LET f == Head(wire[Other(side)])
         IN /\ UNCHANGED <<up, accept, loop>>
            /\ NextIs(side, "close") /\ Consume(side)
            /\ streams' \in [Sides -> SUBSET Streams]
            /\ streams'[side] = streams[side] \ {f.id}
            /\ streams'[Other(side)] = streams[Other(side)]
            /\ end' \in Ends /\ Elsewhere(side, f.id)
            /\ f.id \in streams[side] => end'[side][f.id].eof /\ end'[side][f.id].due = f.n
            /\ f.id \notin streams[side] => end' = end
            /\ end'[side][f.id].got = end[side][f.id].got
            /\ end'[side][f.id].reads = end[side][f.id].reads
            /\ end'[side][f.id].closed = end[side][f.id].closed
            /\ end'[side][f.id].pipe = end[side][f.id].pipe
            /\ end'[side][f.id].out = end[side][f.id].out
            /\ end'[side][f.id].in = end[side][f.id].in
            /\ end'[side][f.id].sent = end[side][f.id].sent
<1> DEFINE f == Head(wire[Other(side)])
<1>1. f.id \in Streams /\ f.n \in Nat
  BY FrameFacts
<1>0. UNCHANGED <<up, accept, loop>> /\ NextIs(side, "close") /\ Consume(side)
  BY DEF ReadClose
<1>2. /\ streams' \in [Sides -> SUBSET Streams]
      /\ streams'[side] = streams[side] \ {f.id}
      /\ streams'[Other(side)] = streams[Other(side)]
  BY SideFacts DEF ReadClose, Shape
<1>3. end \in Ends
  BY DEF Shape
<1>4. CASE f.id \in streams[side]
  <2>1. end' = [end EXCEPT ![side][f.id].eof = TRUE, ![side][f.id].due = f.n]
    BY <1>4 DEF ReadClose
  <2> HIDE DEF f
  <2>2. /\ end' \in Ends /\ Elsewhere(side, f.id)
        /\ end'[side][f.id].eof /\ end'[side][f.id].due = f.n
        /\ end'[side][f.id].got = end[side][f.id].got
        /\ end'[side][f.id].reads = end[side][f.id].reads
        /\ end'[side][f.id].closed = end[side][f.id].closed
        /\ end'[side][f.id].pipe = end[side][f.id].pipe
        /\ end'[side][f.id].out = end[side][f.id].out
        /\ end'[side][f.id].in = end[side][f.id].in
        /\ end'[side][f.id].sent = end[side][f.id].sent
    BY <1>1, <1>3, <2>1, EofStep
  <2> QED BY <2>2, <1>0, <1>2, <1>4 DEF f
<1>5. CASE f.id \notin streams[side]
  <2>1. end' = end
    BY <1>5 DEF ReadClose
  <2> QED BY <2>1, <1>0, <1>2, <1>3, <1>5 DEF Elsewhere
<1> QED BY <1>4, <1>5

(* Steps that neither write nor read a frame. *)
Still ==
  \/ Accept
  \/ \E side \in Sides : Deliver(side)
  \/ \E side \in Sides, s \in Streams :
       ArmWrite(side, s) \/ OutEnds(side, s) \/ CopyIn(side, s) \/ InEnds(side, s) \/ PipeCloses(side, s)
  \/ \E s \in Streams : Open(s) \/ OpenFails(s) \/ DialLocal(s) \/ DialFails(s)

LEMMA AcceptStep ==
  ASSUME Shape, Accept
  PROVE  /\ Head(accept) \in Streams /\ accept \in Seq(Streams) /\ accept # <<>>
         /\ accept' = Tail(accept) /\ accept' \in Seq(Streams)
         /\ Len(accept') = Len(accept) - 1
         /\ ToSet(accept) = ToSet(accept') \union {Head(accept)}
         /\ SetEnd("tunnel", Head(accept), "pipe", "dialing")
BY TailSet DEF Shape, Accept

LEMMA DeliverStep ==
  ASSUME Shape, NEW side \in Sides, Deliver(side)
  PROVE  LET f == loop[side].f
         IN /\ UNCHANGED <<up, streams, accept, wire>>
            /\ loop[side].at = "deliver" /\ f \in Frame
            /\ loop' \in Loops /\ loop'[side].at = "read" /\ loop'[Other(side)] = loop[Other(side)]
            /\ end' \in Ends /\ Elsewhere(side, f.id)
            /\ end'[side][f.id].got = end[side][f.id].got
            /\ end'[side][f.id].eof = end[side][f.id].eof
            /\ end'[side][f.id].due = end[side][f.id].due
            /\ end'[side][f.id].closed = end[side][f.id].closed
            /\ end'[side][f.id].pipe = end[side][f.id].pipe
            /\ end'[side][f.id].out = end[side][f.id].out
            /\ end'[side][f.id].in = end[side][f.id].in
            /\ end'[side][f.id].sent = end[side][f.id].sent
            /\ \/ /\ ~end[side][f.id].closed /\ Len(end[side][f.id].reads) < StreamBuffer
                  /\ end'[side][f.id].reads = Append(end[side][f.id].reads, f.n)
               \/ /\ end[side][f.id].closed \/ side \notin up
                  /\ end' = end
<1> DEFINE f == loop[side].f
<1>1. UNCHANGED <<up, streams, accept, wire>> /\ loop[side].at = "deliver" /\ f \in Frame
  BY LoopFacts DEF Deliver, Shape
<1>2. f.id \in Streams /\ f.n \in Nat /\ end \in Ends
  BY <1>1, FrameFacts DEF Shape
<1>3. loop' \in Loops /\ loop'[side].at = "read" /\ loop'[Other(side)] = loop[Other(side)]
  <2>1. loop' = [loop EXCEPT ![side] = Reading]
    BY DEF Deliver
  <2>2. Reading \in Loop /\ Reading.at = "read"
    BY DEF Reading, Loop
  <2> QED BY <2>1, <2>2, SideFacts DEF Shape, Loops
<1>4. CASE /\ ~end[side][f.id].closed /\ Len(end[side][f.id].reads) < StreamBuffer
           /\ end' = [end EXCEPT ![side][f.id].reads = Append(@, f.n)]
  <2> HIDE DEF f
  <2>1. /\ end' \in Ends /\ Elsewhere(side, f.id)
        /\ end'[side][f.id].reads = Append(end[side][f.id].reads, f.n)
        /\ end'[side][f.id].got = end[side][f.id].got
        /\ end'[side][f.id].eof = end[side][f.id].eof
        /\ end'[side][f.id].due = end[side][f.id].due
        /\ end'[side][f.id].closed = end[side][f.id].closed
        /\ end'[side][f.id].pipe = end[side][f.id].pipe
        /\ end'[side][f.id].out = end[side][f.id].out
        /\ end'[side][f.id].in = end[side][f.id].in
        /\ end'[side][f.id].sent = end[side][f.id].sent
    BY <1>2, <1>4, StoreStep
  <2> QED BY <2>1, <1>1, <1>3, <1>4 DEF f
<1>5. CASE (end[side][f.id].closed \/ side \notin up) /\ UNCHANGED end
  BY <1>1, <1>2, <1>3, <1>5 DEF Elsewhere
<1> QED BY <1>4, <1>5 DEF Deliver

LEMMA StillStep ==
  ASSUME Shape, Still
  PROVE  /\ wire' = wire /\ up' = up
         /\ end' \in Ends
         /\ \A t \in Sides, r \in Streams : end'[t][r].sent = end[t][r].sent
<1>0. end \in Ends /\ streams \in [Sides -> SUBSET Streams] /\ "relay" \in Sides /\ "tunnel" \in Sides
  BY SideFacts DEF Shape
<1>1. CASE Accept
  BY <1>0, <1>1, AcceptStep, SetPipe DEF Accept, Elsewhere
<1>2. ASSUME NEW side \in Sides, Deliver(side)
      PROVE  /\ wire' = wire /\ up' = up /\ end' \in Ends
             /\ \A t \in Sides, r \in Streams : end'[t][r].sent = end[t][r].sent
  <2> DEFINE f == loop[side].f
  <2>1. /\ wire' = wire /\ up' = up /\ end' \in Ends /\ f \in Frame
        /\ Elsewhere(side, f.id) /\ end'[side][f.id].sent = end[side][f.id].sent
    BY <1>2, DeliverStep
  <2> HIDE DEF f
  <2> QED BY <2>1, FrameFacts DEF Elsewhere
<1>3. ASSUME NEW side \in Sides, NEW s \in Streams,
             ArmWrite(side, s) \/ OutEnds(side, s)
      PROVE  /\ wire' = wire /\ up' = up /\ end' \in Ends
             /\ \A t \in Sides, r \in Streams : end'[t][r].sent = end[t][r].sent
  BY <1>0, <1>3, SetOut DEF ArmWrite, OutEnds, Elsewhere
<1>4. ASSUME NEW side \in Sides, NEW s \in Streams, CopyIn(side, s)
      PROVE  /\ wire' = wire /\ up' = up /\ end' \in Ends
             /\ \A t \in Sides, r \in Streams : end'[t][r].sent = end[t][r].sent
  BY <1>0, <1>4, CopyStep DEF Elsewhere
<1>5. ASSUME NEW side \in Sides, NEW s \in Streams, InEnds(side, s)
      PROVE  /\ wire' = wire /\ up' = up /\ end' \in Ends
             /\ \A t \in Sides, r \in Streams : end'[t][r].sent = end[t][r].sent
  BY <1>0, <1>5, SetIn DEF InEnds, Elsewhere
<1>6. ASSUME NEW side \in Sides, NEW s \in Streams, PipeCloses(side, s)
      PROVE  /\ wire' = wire /\ up' = up /\ end' \in Ends
             /\ \A t \in Sides, r \in Streams : end'[t][r].sent = end[t][r].sent
  BY <1>0, <1>6, CloseStep DEF PipeCloses, Elsewhere
<1>7. ASSUME NEW s \in Streams, Open(s) \/ OpenFails(s) \/ DialLocal(s)
      PROVE  /\ wire' = wire /\ up' = up /\ end' \in Ends
             /\ \A t \in Sides, r \in Streams : end'[t][r].sent = end[t][r].sent
  BY <1>0, <1>7, SetPipe DEF Open, OpenFails, DialLocal, Elsewhere
<1>8. ASSUME NEW s \in Streams, DialFails(s)
      PROVE  /\ wire' = wire /\ up' = up /\ end' \in Ends
             /\ \A t \in Sides, r \in Streams : end'[t][r].sent = end[t][r].sent
  BY <1>0, <1>8, CloseStep DEF DialFails, Elsewhere
<1> QED BY <1>1, <1>2, <1>3, <1>4, <1>5, <1>6, <1>7, <1>8 DEF Still

(* What a CLOSE or OPEN that is due does to the wire: it is written, or    *)
(* one of the sides is closed.                                             *)
Wrote(side, f) ==
  /\ wire' \in Wires /\ wire'[Other(side)] = wire[Other(side)]
  /\ OnWire(Other(side))' = OnWire(Other(side))
  /\ \/ /\ up # Sides
        /\ wire'[side] = wire[side] /\ OnWire(side)' = OnWire(side)
     \/ /\ wire'[side] = Append(wire[side], f)
        /\ Len(wire'[side]) <= WireBuffer
        /\ OnWire(side)' = OnWire(side) \union {f}

LEMMA WroteOrClosed ==
  ASSUME Shape, NEW side \in Sides, NEW f \in Frame, 
         Write(side, f) \/ (side \notin up /\ UNCHANGED wire)
  PROVE  Wrote(side, f)
<1>1. CASE Write(side, f)
  <2>1. wire \in Wires /\ Len(wire[side]) \in Nat
    BY LenProperties DEF Shape, Wires
  <2>2. WireBuffer \in Nat
    BY BuffersAssumption
  <2> QED BY <1>1, <2>1, <2>2, WriteStep, SideFacts DEF Wrote
<1>2. CASE side \notin up /\ UNCHANGED wire
  BY <1>2, SideFacts DEF Wrote, OnWire, Shape
<1> QED BY <1>1, <1>2

LEMMA LoopUpdate ==
  ASSUME loop \in Loops, NEW side \in Sides,
         NEW l \in Loop,
         loop' = [loop EXCEPT ![side] = l]
  PROVE  loop' \in Loops /\ loop'[side] = l /\ loop'[Other(side)] = loop[Other(side)]
BY SideFacts DEF Loops

LEMMA ReadingFacts ==
  /\ Reading \in Loop
  /\ Reading.at = "read"
  /\ \A f \in Frame, k \in {"deliver", "answer"} :
       /\ [at |-> k, f |-> f] \in Loop
       /\ [at |-> k, f |-> f].at = k /\ [at |-> k, f |-> f].f = f
BY DEF Reading, Loop

LEMMA AnswerStep ==
  ASSUME Shape, NEW side \in Sides, Answer(side)
  PROVE  LET f == loop[side].f
         IN /\ UNCHANGED <<up, streams, accept, end>>
            /\ loop[side].at = "answer" /\ f \in Frame
            /\ loop' \in Loops /\ loop'[side].at = "read" /\ loop'[Other(side)] = loop[Other(side)]
            /\ Wrote(side, CloseFrame(f.id, end[side][f.id].sent))
<1> DEFINE f == loop[side].f
<1>1. UNCHANGED <<up, streams, accept, end>> /\ loop[side].at = "answer"
      /\ loop' = [loop EXCEPT ![side] = Reading]
      /\ \/ Write(side, CloseFrame(f.id, end[side][f.id].sent))
         \/ side \notin up /\ UNCHANGED wire
  BY DEF Answer
<1>2. loop \in Loops /\ end \in Ends
  BY DEF Shape
<1>3. f \in Frame
  BY <1>1, <1>2, LoopFacts
<1> HIDE DEF f
<1>4. f.id \in Streams /\ end[side][f.id].sent \in Nat
  BY <1>2, <1>3, FrameFacts, EndFacts
<1>5. Wrote(side, CloseFrame(f.id, end[side][f.id].sent))
  BY <1>1, <1>4, FrameFacts, WroteOrClosed
<1>6. loop' \in Loops /\ loop'[side].at = "read" /\ loop'[Other(side)] = loop[Other(side)]
  BY <1>1, <1>2, ReadingFacts, LoopUpdate
<1> QED BY <1>1, <1>3, <1>5, <1>6 DEF f

LEMMA WriteCloseStep ==
  ASSUME Shape, NEW side \in Sides, NEW s \in Streams, WriteClose(side, s)
  PROVE  /\ UNCHANGED <<up, streams, accept, loop>>
         /\ end[side][s].pipe = "closing"
         /\ SetEnd(side, s, "pipe", "gone")
         /\ Wrote(side, CloseFrame(s, end[side][s].sent))
<1>1. CloseFrame(s, end[side][s].sent) \in Frame
  BY FrameFacts, EndFacts DEF Shape
<1> QED BY <1>1, WroteOrClosed DEF WriteClose

LEMMA WriteOpenStep ==
  ASSUME Shape, NEW s \in Streams, WriteOpen(s)
  PROVE  /\ UNCHANGED <<up, streams, accept, loop>>
         /\ end["relay"][s].pipe = "opening"
         /\ SetEnd("relay", s, "pipe", "open")
         /\ Wrote("relay", OpenFrame(s))
<1>1. OpenFrame(s) \in Frame /\ "relay" \in Sides
  BY FrameFacts, SideFacts
<1> QED BY <1>1, WroteOrClosed DEF WriteOpen

LEMMA ReadDataStep ==
  ASSUME Shape, NEW side \in Sides, ReadData(side), Head(wire[Other(side)]) \in Frame
  PROVE  LET f == Head(wire[Other(side)])
         IN /\ UNCHANGED <<up, streams, accept, end>>
            /\ NextIs(side, "data") /\ Consume(side)
            /\ loop' \in Loops /\ loop'[Other(side)] = loop[Other(side)]
            /\ loop'[side].f = f
            /\ f.id \in streams[side] => loop'[side].at = "deliver"
            /\ f.id \notin streams[side] => loop'[side].at = "answer"
<1> DEFINE f == Head(wire[Other(side)])
           k == IF f.id \in streams[side] THEN "deliver" ELSE "answer"
<1>0. f \in Frame
  OBVIOUS
<1>1. UNCHANGED <<up, streams, accept, end>> /\ NextIs(side, "data") /\ Consume(side)
      /\ loop' = [loop EXCEPT ![side] = [at |-> k, f |-> f]]
  BY DEF ReadData
<1>2. loop \in Loops /\ k \in {"deliver", "answer"}
  BY DEF Shape
<1>3. /\ f.id \in streams[side] => k = "deliver"
      /\ f.id \notin streams[side] => k = "answer"
  OBVIOUS
<1> HIDE DEF f, k
<1>4. /\ [at |-> k, f |-> f] \in Loop
      /\ [at |-> k, f |-> f].at = k /\ [at |-> k, f |-> f].f = f
  BY <1>2, <1>0, ReadingFacts
<1>5. loop' \in Loops /\ loop'[side].at = k /\ loop'[side].f = f
      /\ loop'[Other(side)] = loop[Other(side)]
  BY <1>1, <1>2, <1>4, LoopUpdate
<1> QED BY <1>1, <1>3, <1>5 DEF f

LEMMA ReadOpenStep ==
  ASSUME Shape, ReadOpen("tunnel"), Head(wire["relay"]) \in Frame
  PROVE  LET f == Head(wire["relay"])
         IN /\ UNCHANGED <<up, end>>
            /\ NextIs("tunnel", "open") /\ Consume("tunnel")
            /\ \/ /\ Len(accept) < AcceptBuffer
                  /\ accept' = Append(accept, f.id) /\ accept' \in Seq(Streams)
                  /\ Len(accept') = Len(accept) + 1
                  /\ ToSet(accept') = ToSet(accept) \union {f.id}
                  /\ streams' \in [Sides -> SUBSET Streams]
                  /\ streams'["tunnel"] = streams["tunnel"] \union {f.id}
                  /\ streams'["relay"] = streams["relay"]
                  /\ UNCHANGED loop
               \/ /\ UNCHANGED <<accept, streams>>
                  /\ loop' \in Loops /\ loop'["relay"] = loop["relay"]
                  /\ loop'["tunnel"].at = "answer" /\ loop'["tunnel"].f = f
<1> DEFINE f == Head(wire["relay"])
<1>0. Other("tunnel") = "relay" /\ "tunnel" \in Sides /\ f.id \in Streams
      /\ accept \in Seq(Streams) /\ loop \in Loops
  BY SideFacts, FrameFacts DEF Shape
<1>1. /\ UNCHANGED <<up, end>> /\ NextIs("tunnel", "open") /\ Consume("tunnel")
      /\ \/ /\ Len(accept) < AcceptBuffer
            /\ accept' = Append(accept, f.id)
            /\ streams' = [streams EXCEPT !["tunnel"] = @ \union {f.id}]
            /\ UNCHANGED loop
         \/ /\ loop' = [loop EXCEPT !["tunnel"] = [at |-> "answer", f |-> f]]
            /\ UNCHANGED <<accept, streams>>
  BY <1>0 DEF ReadOpen
<1>2. CASE /\ Len(accept) < AcceptBuffer
           /\ accept' = Append(accept, f.id)
           /\ streams' = [streams EXCEPT !["tunnel"] = @ \union {f.id}]
           /\ UNCHANGED loop
  <2>1. /\ accept' \in Seq(Streams) /\ Len(accept') = Len(accept) + 1
        /\ ToSet(accept') = ToSet(accept) \union {f.id}
    BY <1>0, <1>2, AppendSet
  <2>2. /\ streams' \in [Sides -> SUBSET Streams]
        /\ streams'["tunnel"] = streams["tunnel"] \union {f.id}
        /\ streams'["relay"] = streams["relay"]
    <3> HIDE DEF f
    <3> QED BY <1>0, <1>2, SideFacts DEF Shape
  <2> QED BY <1>1, <1>2, <2>1, <2>2
<1>3. CASE /\ loop' = [loop EXCEPT !["tunnel"] = [at |-> "answer", f |-> f]]
           /\ UNCHANGED <<accept, streams>>
  <2>1. /\ [at |-> "answer", f |-> f] \in Loop
        /\ [at |-> "answer", f |-> f].at = "answer" /\ [at |-> "answer", f |-> f].f = f
    BY ReadingFacts
  <2>2. loop' \in Loops /\ loop'["tunnel"].at = "answer" /\ loop'["tunnel"].f = f
        /\ loop'["relay"] = loop["relay"]
    <3> HIDE DEF f
    <3> QED BY <1>0, <1>3, <2>1, LoopUpdate
  <2> QED BY <1>1, <1>3, <2>2
<1> QED BY <1>1, <1>2, <1>3

-----------------------------------------------------------------------------
(* Frames of a stream stay in order on the wire. *)

LEMMA WireKept ==
  ASSUME Shape, WireInv,
         \A side \in Sides : Ordered(wire'[side]) /\ OnWire(side)' \subseteq OnWire(side),
         end' \in Ends, \A t \in Sides, r \in Streams : end[t][r].sent <= end'[t][r].sent
  PROVE  WireInv'
<1>1. ASSUME NEW side \in Sides, NEW f \in OnWire(side)'
      PROVE  f.n <= end'[side][f.id].sent /\ (f.type = "open" => side = "relay")
  <2>1. f \in OnWire(side) /\ f \in Frame
    BY <1>1, SetOf DEF OnWire, Shape, Wires
  <2>2. f.n \in Nat /\ f.id \in Streams /\ end \in Ends
    BY <2>1, FrameFacts DEF Shape
  <2>3. end[side][f.id].sent \in Nat /\ end'[side][f.id].sent \in Nat
    BY <2>2, EndFacts
  <2>4. f.n <= end[side][f.id].sent /\ (f.type = "open" => side = "relay")
    BY <2>1 DEF WireInv
  <2>5. end[side][f.id].sent <= end'[side][f.id].sent
    BY <2>2
  <2> QED BY <2>2, <2>3, <2>4, <2>5
<1> QED BY <1>1 DEF WireInv

LEMMA WireWrote ==
  ASSUME Shape, WireInv, NEW side \in Sides, NEW f \in Frame, Wrote(side, f),
         end' \in Ends, \A t \in Sides, r \in Streams : end[t][r].sent <= end'[t][r].sent,
         \A g \in OnWire(side) : g.id = f.id =>
           f.type # "open" /\ g.n <= f.n /\ (f.type = "data" => g.n < f.n),
         f.n <= end'[side][f.id].sent, f.type = "open" => side = "relay"
  PROVE  WireInv'
<1>0. wire[side] \in Seq(Frame) /\ Ordered(wire[side]) /\ Ordered(wire[Other(side)])
  BY SideFacts DEF Shape, Wires, WireInv
<1>1. CASE wire'[side] = wire[side] /\ OnWire(side)' = OnWire(side)
  BY <1>0, <1>1, WireKept, SideFacts DEF Wrote
<1>2. CASE /\ wire'[side] = Append(wire[side], f)
           /\ OnWire(side)' = OnWire(side) \union {f}
  <2>1. Ordered(wire'[side])
    BY <1>0, <1>2, OrderedAppend DEF OnWire
  <2>2. wire'[Other(side)] = wire[Other(side)] /\ OnWire(Other(side))' = OnWire(Other(side))
    BY DEF Wrote
  <2>3. ASSUME NEW t \in Sides, NEW g \in OnWire(t)'
        PROVE  g.n <= end'[t][g.id].sent /\ (g.type = "open" => t = "relay")
    <3>1. CASE t = side /\ g = f
      BY <3>1
    <3>2. CASE g \in OnWire(t)
      <4>1. g \in Frame
        BY <3>2, SetOf DEF OnWire, Shape, Wires
      <4>2. g.n \in Nat /\ g.id \in Streams /\ end \in Ends
        BY <4>1, FrameFacts DEF Shape
      <4>3. end[t][g.id].sent \in Nat /\ end'[t][g.id].sent \in Nat
        BY <4>2, EndFacts
      <4>4. g.n <= end[t][g.id].sent /\ (g.type = "open" => t = "relay")
        BY <3>2 DEF WireInv
      <4>5. end[t][g.id].sent <= end'[t][g.id].sent
        BY <4>2
      <4> QED BY <4>2, <4>3, <4>4, <4>5
    <3> QED BY <1>2, <2>2, <2>3, <3>1, <3>2, SideFacts
  <2>4. \A t \in Sides : Ordered(wire'[t])
    BY <1>0, <2>1, <2>2, SideFacts
  <2> QED BY <2>3, <2>4 DEF WireInv
<1> QED BY <1>1, <1>2 DEF Wrote

(* Steps that write. *)
LEMMA SentGrows ==
  ASSUME Shape, Next
  PROVE  end' \in Ends /\ \A t \in Sides, r \in Streams : end[t][r].sent <= end'[t][r].sent
<1>0. end \in Ends /\ \A t \in Sides, r \in Streams : end[t][r].sent \in Nat
  BY EndFacts DEF Shape
<1>1. CASE Still
  BY <1>0, <1>1, StillStep
<1>2. CASE UNCHANGED end
  BY <1>0, <1>2
<1>3. ASSUME NEW side \in Sides, ReadClose(side) PROVE
        end' \in Ends /\ \A t \in Sides, r \in Streams : end[t][r].sent = end'[t][r].sent
  <2> DEFINE f == Head(wire[Other(side)])
  <2>1. f \in Frame
    BY <1>3, ConsumeStep DEF ReadClose, Shape
  <2>2. end' \in Ends /\ Elsewhere(side, f.id) /\ end'[side][f.id].sent = end[side][f.id].sent
    BY <1>3, <2>1, ReadCloseStep
  <2> HIDE DEF f
  <2> QED BY <2>1, <2>2, FrameFacts DEF Elsewhere
<1>4. ASSUME NEW side \in Sides, NEW s \in Streams, WriteData(side, s)
      PROVE end' \in Ends /\ \A t \in Sides, r \in Streams : end[t][r].sent <= end'[t][r].sent
  BY <1>0, <1>4, SendStep DEF Elsewhere
<1>5. ASSUME NEW side \in Sides, NEW s \in Streams, WriteClose(side, s)
      PROVE end' \in Ends /\ \A t \in Sides, r \in Streams : end[t][r].sent <= end'[t][r].sent
  BY <1>0, <1>5, WriteCloseStep, SetPipe DEF Elsewhere
<1>6. ASSUME NEW s \in Streams, WriteOpen(s)
      PROVE end' \in Ends /\ \A t \in Sides, r \in Streams : end[t][r].sent <= end'[t][r].sent
  BY <1>0, <1>6, WriteOpenStep, SetPipe, SideFacts DEF Elsewhere
<1>7. ASSUME NEW side \in Sides, Fail(side) \/ ReadOpen(side) \/ ReadData(side) \/ Answer(side)
      PROVE  UNCHANGED end
  BY <1>7 DEF Fail, ReadOpen, ReadData, Answer
<1> QED BY <1>0, <1>1, <1>2, <1>3, <1>4, <1>5, <1>6, <1>7 DEF Next, Still

LEMMA WireInvStep == Shape /\ WireInv /\ OpeningInv /\ Next => WireInv'
<1> SUFFICES ASSUME Shape, WireInv, OpeningInv, Next PROVE WireInv'
  OBVIOUS
<1>0. /\ end \in Ends /\ end' \in Ends
      /\ \A t \in Sides, r \in Streams : end[t][r].sent <= end'[t][r].sent
      /\ \A t \in Sides, r \in Streams : end[t][r].sent \in Nat
  BY SentGrows, EndFacts DEF Shape
<1>1. CASE Still
  <2>1. wire' = wire
    BY <1>1, StillStep
  <2> QED BY <2>1, <1>0, WireKept DEF WireInv, OnWire
<1>2. ASSUME NEW side \in Sides, Fail(side) PROVE WireInv'
  BY <1>0, <1>2, FailStep, WireKept
<1>3. ASSUME NEW side \in Sides, NEW type, NextIs(side, type), Consume(side) PROVE WireInv'
  <2>1. \A t \in Sides : Ordered(wire'[t]) /\ OnWire(t)' \subseteq OnWire(t)
    BY <1>3, ReadFrame, SideFacts
  <2> QED BY <1>0, <2>1, WireKept
<1>4. ASSUME NEW side \in Sides, ReadOpen(side) \/ ReadData(side) \/ ReadClose(side) PROVE WireInv'
  BY <1>3, <1>4 DEF ReadOpen, ReadData, ReadClose
<1>5. ASSUME NEW side \in Sides, NEW s \in Streams,
             Wrote(side, CloseFrame(s, end[side][s].sent))
      PROVE  WireInv'
  <2> DEFINE f == CloseFrame(s, end[side][s].sent)
  <2>1. f \in Frame /\ f.type = "close" /\ f.id = s /\ f.n = end[side][s].sent
    BY <1>0, FrameFacts
  <2>2. \A g \in OnWire(side) : g.id = s => g.n <= end[side][s].sent
    BY DEF WireInv
  <2> HIDE DEF f
  <2> QED BY <1>0, <1>5, <2>1, <2>2, WireWrote DEF f
<1>6. ASSUME NEW side \in Sides, Answer(side) PROVE WireInv'
  <2> DEFINE f == loop[side].f
  <2>1. f \in Frame /\ Wrote(side, CloseFrame(f.id, end[side][f.id].sent))
    BY <1>6, AnswerStep
  <2> HIDE DEF f
  <2> QED BY <2>1, <1>5, FrameFacts
<1>7. ASSUME NEW side \in Sides, NEW s \in Streams, WriteClose(side, s) PROVE WireInv'
  BY <1>5, <1>7, WriteCloseStep
<1>8. ASSUME NEW side \in Sides, NEW s \in Streams, WriteData(side, s) PROVE WireInv'
  <2> DEFINE n == end[side][s].sent + 1
             f == Data(s, n)
  <2>1. f \in Frame /\ f.type = "data" /\ f.id = s /\ f.n = n /\ n \in Nat
    BY <1>0, FrameFacts
  <2>2. Wrote(side, f) /\ end'[side][s].sent = n
    BY <2>1, <1>0, <1>8, SendStep, WroteOrClosed
  <2>3. \A g \in OnWire(side) : g \in Frame /\ (g.id = s => g.n <= end[side][s].sent)
    BY SetOf DEF WireInv, OnWire, Shape, Wires
  <2>4. \A g \in OnWire(side) : g.id = s => g.n < n
    BY <1>0, <2>3, FrameFacts
  <2> HIDE DEF f, n
  <2>5. \A g \in OnWire(side) : g.id = f.id => g.n <= f.n /\ g.n < f.n
    <3>1. \A g \in OnWire(side) : g.n \in Nat
      BY <2>3, FrameFacts
    <3> QED BY <2>1, <2>4, <3>1
  <2> QED BY <1>0, <2>1, <2>2, <2>5, WireWrote
<1>9. ASSUME NEW s \in Streams, WriteOpen(s) PROVE WireInv'
  <2> DEFINE f == OpenFrame(s)
  <2>1. f \in Frame /\ f.type = "open" /\ f.id = s /\ f.n = 0
    BY FrameFacts
  <2>2. Wrote("relay", f) /\ Unopened(s) /\ "relay" \in Sides
    BY <1>9, WriteOpenStep, SideFacts DEF Unopened
  <2>3. \A g \in OnWire("relay") : g.id # s
    BY <2>2 DEF OpeningInv, OpeningOf, Fresh, Silent
  <2>4. 0 <= end'["relay"][s].sent
    BY <1>0, <2>2, EndFacts
  <2> HIDE DEF f
  <2> QED BY <1>0, <2>1, <2>2, <2>3, <2>4, WireWrote
<1> QED BY <1>1, <1>2, <1>4, <1>6, <1>7, <1>8, <1>9 DEF Next, Still

-----------------------------------------------------------------------------
(* Types and bounds. *)

EndBounds(side, s) ==
  /\ Len(end[side][s].reads) <= StreamBuffer
  /\ end[side][s].sent <= MaxData[side][s]
  /\ end[side][s].out = "armed" => end[side][s].sent < MaxData[side][s]
  /\ end[side][s].due <= MaxData[Other(side)][s]

LEMMA EndBoundsStep ==
  ASSUME Shape, Bounds, WireInv, Next, NEW t \in Sides, NEW r \in Streams
  PROVE  EndBounds(t, r)'
<1>0. /\ end \in Ends /\ end' \in Ends /\ streams \in [Sides -> SUBSET Streams]
      /\ "relay" \in Sides /\ "tunnel" \in Sides
  BY SentGrows, SideFacts DEF Shape
<1>1. /\ EndBounds(t, r)
      /\ end[t][r].reads \in Seq(Nat) /\ Len(end[t][r].reads) \in Nat
      /\ end[t][r].sent \in Nat /\ end[t][r].due \in Nat
  BY <1>0, EndFacts, LenProperties DEF Bounds, EndBounds
<1>2. /\ MaxData[t][r] \in Nat /\ MaxData[Other(t)][r] \in Nat /\ StreamBuffer \in Nat
      /\ Other(t) \in Sides
  BY BuffersAssumption, SideFacts
<1>3. CASE end'[t][r] = end[t][r]
  BY <1>1, <1>3 DEF EndBounds
<1>4. CASE /\ end'[t][r].reads = end[t][r].reads \/ end'[t][r].reads = <<>>
           /\ end'[t][r].sent = end[t][r].sent /\ end'[t][r].due = end[t][r].due
           /\ end'[t][r].out = "armed" => end[t][r].out = "armed"
  BY <1>1, <1>2, <1>4, EmptyFacts DEF EndBounds
<1>5. CASE end'[t][r] # end[t][r]
  <2>1. CASE Accept
    BY <1>0, <1>4, <1>5, <2>1, AcceptStep, SetPipe DEF Elsewhere, SameFlow
  <2>2. ASSUME NEW side \in Sides, Deliver(side) PROVE EndBounds(t, r)'
    <3> DEFINE f == loop[side].f
    <3>1. /\ f \in Frame /\ Elsewhere(side, f.id)
          /\ end'[side][f.id].sent = end[side][f.id].sent
          /\ end'[side][f.id].due = end[side][f.id].due
          /\ end'[side][f.id].out = end[side][f.id].out
          /\ \/ /\ Len(end[side][f.id].reads) < StreamBuffer
                /\ end'[side][f.id].reads = Append(end[side][f.id].reads, f.n)
             \/ end' = end
      BY <2>2, DeliverStep
    <3> HIDE DEF f
    <3>2. f.id \in Streams /\ f.n \in Nat
      BY <3>1, FrameFacts
    <3>3. side = t /\ f.id = r
      BY <1>5, <3>1, <3>2 DEF Elsewhere
    <3>4. Len(end[t][r].reads) < StreamBuffer /\ end'[t][r].reads = Append(end[t][r].reads, f.n)
      BY <1>5, <3>1, <3>3
    <3>5. Len(end'[t][r].reads) = Len(end[t][r].reads) + 1
      BY <1>1, <3>2, <3>4, AppendSet
    <3>6. Len(end'[t][r].reads) <= StreamBuffer
      BY <1>1, <1>2, <3>4, <3>5
    <3> QED BY <1>1, <3>1, <3>3, <3>6 DEF EndBounds
  <2>3. ASSUME NEW side \in Sides, ReadClose(side) PROVE EndBounds(t, r)'
    <3> DEFINE f == Head(wire[Other(side)])
    <3>1. f \in Frame /\ f.n <= end[Other(side)][f.id].sent
      BY <2>3, ReadFrame DEF ReadClose
    <3>2. /\ Elsewhere(side, f.id)
          /\ f.id \in streams[side] => end'[side][f.id].due = f.n
          /\ f.id \notin streams[side] => end' = end
          /\ end'[side][f.id].reads = end[side][f.id].reads
          /\ end'[side][f.id].out = end[side][f.id].out
          /\ end'[side][f.id].sent = end[side][f.id].sent
      BY <2>3, <3>1, ReadCloseStep
    <3> HIDE DEF f
    <3>3. f.id \in Streams /\ f.n \in Nat
      BY <3>1, FrameFacts
    <3>4. side = t /\ f.id = r /\ end'[t][r].due = f.n
      BY <1>5, <3>2, <3>3 DEF Elsewhere
    <3>5. end[Other(t)][r].sent \in Nat /\ end[Other(t)][r].sent <= MaxData[Other(t)][r]
      BY <1>0, <1>2, EndFacts DEF Bounds
    <3>6. end'[t][r].due <= MaxData[Other(t)][r]
      BY <1>2, <3>1, <3>3, <3>4, <3>5
    <3> QED BY <1>1, <3>2, <3>4, <3>6 DEF EndBounds
  <2>4. ASSUME NEW side \in Sides, NEW s \in Streams, ArmWrite(side, s) PROVE EndBounds(t, r)'
    <3>1. /\ end[side][s].sent < MaxData[side][s]
          /\ Elsewhere(side, s) /\ SameFlow(side, s) /\ end'[side][s].sent = end[side][s].sent
      BY <1>0, <2>4, SetOut DEF ArmWrite
    <3>2. side = t /\ s = r
      BY <1>5, <3>1 DEF Elsewhere
    <3> QED BY <1>1, <3>1, <3>2 DEF EndBounds, SameFlow
  <2>5. ASSUME NEW side \in Sides, NEW s \in Streams, OutEnds(side, s) PROVE EndBounds(t, r)'
    <3>1. /\ Elsewhere(side, s) /\ SameFlow(side, s) /\ end'[side][s].sent = end[side][s].sent
          /\ end'[side][s].out = "done"
      BY <1>0, <2>5, SetOut DEF OutEnds
    <3> QED BY <1>4, <1>5, <3>1 DEF Elsewhere, SameFlow
  <2>6. ASSUME NEW side \in Sides, NEW s \in Streams, InEnds(side, s) PROVE EndBounds(t, r)'
    <3>1. /\ Elsewhere(side, s) /\ SameFlow(side, s) /\ end'[side][s].sent = end[side][s].sent
          /\ end'[side][s].out = end[side][s].out
      BY <1>0, <2>6, SetIn DEF InEnds
    <3> QED BY <1>4, <1>5, <3>1 DEF Elsewhere, SameFlow
  <2>7. ASSUME NEW side \in Sides, NEW s \in Streams, WriteData(side, s) PROVE EndBounds(t, r)'
    <3>1. /\ end[side][s].out = "armed"
          /\ Elsewhere(side, s) /\ SameFlow(side, s) /\ end'[side][s].sent = end[side][s].sent + 1
          /\ end'[side][s].out # "armed"
      BY <1>0, <2>7, SendStep
    <3>2. side = t /\ s = r
      BY <1>5, <3>1 DEF Elsewhere
    <3> QED BY <1>1, <1>2, <3>1, <3>2 DEF EndBounds, SameFlow
  <2>8. ASSUME NEW side \in Sides, NEW s \in Streams, CopyIn(side, s) PROVE EndBounds(t, r)'
    <3>1. /\ Elsewhere(side, s) /\ end'[side][s].sent = end[side][s].sent
          /\ end[side][s].reads # <<>> /\ end'[side][s].reads = Tail(end[side][s].reads)
          /\ end'[side][s].due = end[side][s].due /\ end'[side][s].out = end[side][s].out
      BY <1>0, <2>8, CopyStep
    <3>2. side = t /\ s = r
      BY <1>5, <3>1 DEF Elsewhere
    <3>3. Len(end'[t][r].reads) = Len(end[t][r].reads) - 1
      BY <1>1, <3>1, <3>2, TailSet
    <3> QED BY <1>1, <1>2, <3>1, <3>2, <3>3 DEF EndBounds
  <2>9. ASSUME NEW side \in Sides, NEW s \in Streams, CloseStream(side, s) PROVE EndBounds(t, r)'
    <3>1. /\ Elsewhere(side, s) /\ end'[side][s].sent = end[side][s].sent
          /\ end'[side][s].reads = <<>> /\ end'[side][s].due = end[side][s].due
          /\ end'[side][s].out = "armed" <=> end[side][s].out = "armed"
      BY <1>0, <2>9, CloseStep
    <3> QED BY <1>4, <1>5, <3>1 DEF Elsewhere
  <2>10. ASSUME NEW side \in Sides, NEW s \in Streams,
                NEW v \in {"none", "opening", "dialing", "open", "closing", "gone"},
                SetEnd(side, s, "pipe", v)
         PROVE  EndBounds(t, r)'
    BY <1>0, <1>4, <1>5, <2>10, SetPipe DEF Elsewhere, SameFlow
  <2>11. ASSUME NEW s \in Streams, WriteOpen(s) \/ Open(s) \/ OpenFails(s) \/ DialLocal(s)
         PROVE  EndBounds(t, r)'
    BY <1>0, <2>10, <2>11 DEF WriteOpen, Open, OpenFails, DialLocal
  <2>12. ASSUME NEW side \in Sides, NEW s \in Streams, WriteClose(side, s) PROVE EndBounds(t, r)'
    BY <2>10, <2>12 DEF WriteClose
  <2>13. ASSUME NEW side \in Sides, Fail(side) \/ ReadOpen(side) \/ ReadData(side) \/ Answer(side)
         PROVE  EndBounds(t, r)'
    BY <1>5, <2>13 DEF Fail, ReadOpen, ReadData, Answer
  <2>14. ASSUME NEW side \in Sides, NEW s \in Streams, PipeCloses(side, s) PROVE EndBounds(t, r)'
    BY <2>9, <2>14 DEF PipeCloses
  <2>15. ASSUME NEW s \in Streams, DialFails(s) PROVE EndBounds(t, r)'
    BY <1>0, <2>9, <2>15 DEF DialFails
  <2> QED BY <2>1, <2>2, <2>3, <2>4, <2>5, <2>6, <2>7, <2>8, <2>11, <2>12, <2>13, <2>14, <2>15
          DEF Next
<1> QED BY <1>3, <1>5

LEMMA TypeStep == Shape /\ Bounds /\ WireInv /\ Next => Shape' /\ Bounds'
<1> SUFFICES ASSUME Shape, Bounds, WireInv, Next PROVE Shape' /\ Bounds'
  OBVIOUS
<1> DEFINE Same == UNCHANGED <<up, streams, accept, wire, loop>>
           Ok == /\ up' \subseteq Sides /\ streams' \in [Sides -> SUBSET Streams]
                 /\ accept' \in Seq(Streams) /\ wire' \in Wires /\ loop' \in Loops
                 /\ Len(accept') <= AcceptBuffer /\ \A t \in Sides : Len(wire'[t]) <= WireBuffer
<1>0. /\ up \subseteq Sides /\ streams \in [Sides -> SUBSET Streams]
      /\ accept \in Seq(Streams) /\ wire \in Wires /\ loop \in Loops /\ end \in Ends
      /\ Len(accept) <= AcceptBuffer /\ \A t \in Sides : Len(wire[t]) <= WireBuffer
      /\ Len(accept) \in Nat /\ \A t \in Sides : Len(wire[t]) \in Nat
      /\ AcceptBuffer \in Nat /\ WireBuffer \in Nat
      /\ "relay" \in Sides /\ "tunnel" \in Sides
  BY LenProperties, BuffersAssumption, SideFacts DEF Shape, Bounds, Wires
<1>1. Same => Ok
  BY <1>0
<1>2. ASSUME Accept PROVE Ok
  <2>1. accept' \in Seq(Streams) /\ Len(accept') = Len(accept) - 1
    BY <1>2, AcceptStep
  <2> QED BY <1>0, <1>2, <2>1 DEF Accept
<1>3. ASSUME NEW side \in Sides, Fail(side) PROVE Ok
  <2>1. up' = up \ {side} /\ wire' \in Wires /\ \A t \in Sides : Len(wire'[t]) <= Len(wire[t])
    BY <1>3, FailStep
  <2>2. \A t \in Sides : Len(wire'[t]) \in Nat
    BY <2>1, LenProperties DEF Wires
  <2>3. UNCHANGED <<streams, accept, loop>>
    BY <1>3 DEF Fail
  <2> QED BY <1>0, <2>1, <2>2, <2>3
<1>4. ASSUME NEW side \in Sides, NEW type, NextIs(side, type), Consume(side)
      PROVE  /\ Head(wire[Other(side)]) \in Frame /\ wire' \in Wires
             /\ \A t \in Sides : Len(wire'[t]) <= WireBuffer
  <2>1. /\ Head(wire[Other(side)]) \in Frame /\ wire' \in Wires
        /\ \A t \in Sides : Len(wire'[t]) <= Len(wire[t])
    BY <1>4, ReadFrame
  <2>2. \A t \in Sides : Len(wire'[t]) \in Nat
    BY <2>1, LenProperties DEF Wires
  <2> QED BY <1>0, <2>1, <2>2
<1>5. ASSUME NEW side \in Sides, ReadOpen(side) PROVE Ok
  <2>1. side = "tunnel"
    BY <1>5, ReadFrame DEF ReadOpen
  <2>2. NextIs("tunnel", "open") /\ Consume("tunnel") /\ Other("tunnel") = "relay"
    BY <1>5, <2>1, SideFacts DEF ReadOpen
  <2>3. /\ Head(wire["relay"]) \in Frame /\ wire' \in Wires
        /\ \A t \in Sides : Len(wire'[t]) <= WireBuffer
    BY <1>0, <1>4, <2>2
  <2>4. \/ /\ Len(accept) < AcceptBuffer /\ accept' \in Seq(Streams)
           /\ Len(accept') = Len(accept) + 1
           /\ streams' \in [Sides -> SUBSET Streams] /\ loop' = loop
        \/ accept' = accept /\ streams' = streams /\ loop' \in Loops
    BY <1>5, <2>1, <2>3, ReadOpenStep
  <2>5. up' = up
    BY <1>5 DEF ReadOpen
  <2> QED BY <1>0, <2>3, <2>4, <2>5
<1>6. ASSUME NEW side \in Sides, ReadData(side) PROVE Ok
  <2>1. /\ Head(wire[Other(side)]) \in Frame /\ wire' \in Wires
        /\ \A t \in Sides : Len(wire'[t]) <= WireBuffer
    BY <1>4, <1>6 DEF ReadData
  <2>2. UNCHANGED <<up, streams, accept>> /\ loop' \in Loops
    BY <1>6, <2>1, ReadDataStep
  <2> QED BY <1>0, <2>1, <2>2
<1>7. ASSUME NEW side \in Sides, ReadClose(side) PROVE Ok
  <2>1. /\ Head(wire[Other(side)]) \in Frame /\ wire' \in Wires
        /\ \A t \in Sides : Len(wire'[t]) <= WireBuffer
    BY <1>4, <1>7 DEF ReadClose
  <2>2. UNCHANGED <<up, accept, loop>> /\ streams' \in [Sides -> SUBSET Streams]
    BY <1>7, <2>1, ReadCloseStep
  <2> QED BY <1>0, <2>1, <2>2
<1>8. ASSUME NEW side \in Sides, Deliver(side) PROVE Ok
  <2>1. UNCHANGED <<up, streams, accept, wire>> /\ loop' \in Loops
    BY <1>8, DeliverStep
  <2> QED BY <1>0, <2>1
<1>9. ASSUME NEW side \in Sides, NEW f \in Frame, Wrote(side, f)
      PROVE  wire' \in Wires /\ \A t \in Sides : Len(wire'[t]) <= WireBuffer
  BY <1>0, <1>9, SideFacts DEF Wrote
<1>10. ASSUME NEW side \in Sides, Answer(side) PROVE Ok
  <2> DEFINE f == loop[side].f
             g == CloseFrame(f.id, end[side][f.id].sent)
  <2>1. UNCHANGED <<up, streams, accept>> /\ loop' \in Loops /\ f \in Frame /\ Wrote(side, g)
    BY <1>10, AnswerStep
  <2>2. g \in Frame
    <3> HIDE DEF f
    <3> QED BY <1>0, <2>1, FrameFacts, EndFacts
  <2> HIDE DEF g
  <2> QED BY <1>0, <1>9, <2>1, <2>2
<1>11. ASSUME NEW side \in Sides, NEW s \in Streams, WriteClose(side, s) PROVE Ok
  <2>1. CloseFrame(s, end[side][s].sent) \in Frame
    BY <1>0, FrameFacts, EndFacts
  <2> QED BY <1>0, <1>9, <1>11, <2>1, WriteCloseStep
<1>12. ASSUME NEW side \in Sides, NEW s \in Streams, WriteData(side, s) PROVE Ok
  <2>1. end[side][s].sent \in Nat
    BY <1>0, EndFacts
  <2>2. Data(s, end[side][s].sent + 1) \in Frame
    BY <2>1, FrameFacts
  <2> QED BY <1>0, <1>9, <1>12, <2>2, SendStep, WroteOrClosed
<1>13. ASSUME NEW s \in Streams, WriteOpen(s) PROVE Ok
  <2>1. OpenFrame(s) \in Frame
    BY FrameFacts
  <2> QED BY <1>0, <1>9, <1>13, <2>1, WriteOpenStep
<1>14. ASSUME NEW side \in Sides, NEW s \in Streams,
              ArmWrite(side, s) \/ OutEnds(side, s) \/ InEnds(side, s)
       PROVE  Ok
  BY <1>1, <1>14 DEF ArmWrite, OutEnds, InEnds
<1>15. ASSUME NEW side \in Sides, NEW s \in Streams, CopyIn(side, s) PROVE Ok
  BY <1>0, <1>1, <1>15, CopyStep
<1>16. ASSUME NEW side \in Sides, NEW s \in Streams, PipeCloses(side, s) PROVE Ok
  BY <1>0, <1>16, CloseStep DEF PipeCloses
<1>17. ASSUME NEW s \in Streams, DialFails(s) PROVE Ok
  BY <1>0, <1>17, CloseStep DEF DialFails
<1>18. ASSUME NEW s \in Streams, Open(s) \/ OpenFails(s) PROVE Ok
  BY <1>0, <1>18 DEF Open, OpenFails
<1>19. ASSUME NEW s \in Streams, DialLocal(s) PROVE Ok
  BY <1>1, <1>19 DEF DialLocal
<1> HIDE DEF Ok
<1>20. Ok
  BY <1>2, <1>3, <1>5, <1>6, <1>7, <1>8, <1>10, <1>11, <1>12, <1>13, <1>14, <1>15, <1>16,
     <1>17, <1>18, <1>19 DEF Next
<1> QED BY <1>20, SentGrows, EndBoundsStep DEF Ok, Shape, Bounds, EndBounds

-----------------------------------------------------------------------------
(* A step is about one stream and leaves the others apart, unless it       *)
(* closes a connection.                                                    *)

About(s) ==
  \/ Accept /\ Head(accept) = s
  \/ \E side \in Sides :
       \/ (ReadOpen(side) \/ ReadData(side) \/ ReadClose(side)) /\ Head(wire[Other(side)]).id = s
       \/ (Deliver(side) \/ Answer(side)) /\ loop[side].f.id = s
       \/ ArmWrite(side, s) \/ WriteData(side, s) \/ OutEnds(side, s)
       \/ CopyIn(side, s) \/ InEnds(side, s)
       \/ PipeCloses(side, s) \/ WriteClose(side, s)
  \/ Open(s) \/ WriteOpen(s) \/ OpenFails(s) \/ DialLocal(s) \/ DialFails(s)

Apart(r) ==
  /\ up' = up
  /\ r \in ToSet(accept') <=> r \in ToSet(accept)
  /\ \A t \in Sides :
       /\ end'[t][r] = end[t][r]
       /\ r \in streams'[t] <=> r \in streams[t]
       /\ \A f \in Frame : f.id = r => (f \in OnWire(t)' <=> f \in OnWire(t))
       /\ On(t, r)' <=> On(t, r)
       /\ On(t, r) => loop'[t] = loop[t]

LEMMA Subjects ==
  ASSUME Shape, WireInv, Next
  PROVE  (\E side \in Sides : Fail(side)) \/ (\E s \in Streams : About(s))
<1>1. CASE Accept
  BY <1>1, AcceptStep DEF About
<1>2. ASSUME NEW side \in Sides, ReadOpen(side) \/ ReadData(side) \/ ReadClose(side)
      PROVE  \E s \in Streams : About(s)
  <2>1. Head(wire[Other(side)]) \in Frame
    BY <1>2, ReadFrame DEF ReadOpen, ReadData, ReadClose
  <2>2. Head(wire[Other(side)]).id \in Streams
    BY <2>1, FrameFacts
  <2> QED BY <1>2, <2>2 DEF About
<1>3. ASSUME NEW side \in Sides, Deliver(side) \/ Answer(side)
      PROVE  \E s \in Streams : About(s)
  <2>1. loop[side].f \in Frame
    BY <1>3, DeliverStep, AnswerStep
  <2>2. loop[side].f.id \in Streams
    BY <2>1, FrameFacts
  <2> QED BY <1>3, <2>2 DEF About
<1> QED BY <1>1, <1>2, <1>3 DEF Next, About

LEMMA ApartStep ==
  ASSUME Shape, WireInv, NEW s \in Streams, About(s), NEW r \in Streams, r # s
  PROVE  Apart(r)
<1>0. /\ end \in Ends /\ streams \in [Sides -> SUBSET Streams] /\ loop \in Loops
      /\ "relay" \in Sides /\ "tunnel" \in Sides
  BY SideFacts DEF Shape
<1>1. CASE Accept /\ Head(accept) = s
  <2>1. ToSet(accept) = ToSet(accept') \union {s} /\ Elsewhere("tunnel", s)
    BY <1>0, <1>1, AcceptStep, SetPipe
  <2>2. UNCHANGED <<up, streams, wire, loop>>
    BY <1>1 DEF Accept
  <2> QED BY <2>1, <2>2 DEF Apart, Elsewhere, OnWire, On
<1>2. ASSUME NEW side \in Sides, ReadOpen(side), Head(wire[Other(side)]).id = s
      PROVE  Apart(r)
  <2> DEFINE f == Head(wire["relay"])
  <2>1. side = "tunnel" /\ Other("tunnel") = "relay"
    BY <1>2, ReadFrame, SideFacts DEF ReadOpen
  <2>2. /\ f \in Frame /\ f.id = s /\ loop["tunnel"].at = "read"
        /\ OnWire("tunnel")' = OnWire("tunnel")
        /\ OnWire("relay") = OnWire("relay")' \union {f}
    BY <1>0, <1>2, <2>1, ReadFrame DEF ReadOpen
  <2>3. /\ UNCHANGED <<up, end>>
        /\ \/ /\ ToSet(accept') = ToSet(accept) \union {f.id}
              /\ streams'["tunnel"] = streams["tunnel"] \union {f.id}
              /\ streams'["relay"] = streams["relay"]
              /\ UNCHANGED loop
           \/ /\ UNCHANGED <<accept, streams>>
              /\ loop'["relay"] = loop["relay"]
              /\ loop'["tunnel"].f = f
    BY <1>2, <2>1, <2>2, ReadOpenStep
  <2> HIDE DEF f
  <2> QED BY <1>0, <2>2, <2>3, SideFacts DEF Apart, On
<1>3. ASSUME NEW side \in Sides, ReadData(side), Head(wire[Other(side)]).id = s
      PROVE  Apart(r)
  <2> DEFINE f == Head(wire[Other(side)])
  <2>1. /\ f \in Frame /\ f.id = s /\ loop[side].at = "read"
        /\ OnWire(side)' = OnWire(side)
        /\ OnWire(Other(side)) = OnWire(Other(side))' \union {f}
    BY <1>3, ReadFrame DEF ReadData
  <2>2. /\ UNCHANGED <<up, streams, accept, end>>
        /\ loop'[Other(side)] = loop[Other(side)]
        /\ loop'[side].f = f
    BY <1>3, <2>1, ReadDataStep
  <2> HIDE DEF f
  <2> QED BY <2>1, <2>2, SideFacts DEF Apart, On
<1>4. ASSUME NEW side \in Sides, ReadClose(side), Head(wire[Other(side)]).id = s
      PROVE  Apart(r)
  <2> DEFINE f == Head(wire[Other(side)])
  <2>1. /\ f \in Frame /\ f.id = s
        /\ OnWire(side)' = OnWire(side)
        /\ OnWire(Other(side)) = OnWire(Other(side))' \union {f}
    BY <1>4, ReadFrame DEF ReadClose
  <2>2. /\ UNCHANGED <<up, accept, loop>>
        /\ streams'[side] = streams[side] \ {s} /\ streams'[Other(side)] = streams[Other(side)]
        /\ Elsewhere(side, s)
    BY <1>4, <2>1, ReadCloseStep
  <2> HIDE DEF f
  <2> QED BY <2>1, <2>2, SideFacts DEF Apart, On, Elsewhere
<1>5. ASSUME NEW side \in Sides, Deliver(side), loop[side].f.id = s PROVE Apart(r)
  <2>1. /\ UNCHANGED <<up, streams, accept, wire>>
        /\ loop[side].at = "deliver"
        /\ loop'[side].at = "read" /\ loop'[Other(side)] = loop[Other(side)]
        /\ Elsewhere(side, s)
    BY <1>5, DeliverStep
  <2> QED BY <1>5, <2>1, SideFacts DEF Apart, On, Elsewhere, OnWire
<1>6. ASSUME NEW side \in Sides, NEW f \in Frame, f.id = s, Wrote(side, f)
      PROVE  \A t \in Sides, g \in Frame : g.id = r => (g \in OnWire(t)' <=> g \in OnWire(t))
  BY <1>6, SideFacts DEF Wrote
<1>7. ASSUME NEW side \in Sides, Answer(side), loop[side].f.id = s PROVE Apart(r)
  <2> DEFINE g == CloseFrame(s, end[side][s].sent)
  <2>1. /\ UNCHANGED <<up, streams, accept, end>>
        /\ loop[side].at = "answer"
        /\ loop'[side].at = "read" /\ loop'[Other(side)] = loop[Other(side)]
        /\ Wrote(side, g)
    BY <1>7, AnswerStep
  <2>2. g \in Frame /\ g.id = s
    BY <1>0, FrameFacts, EndFacts
  <2> HIDE DEF g
  <2> QED BY <1>6, <1>7, <2>1, <2>2, SideFacts DEF Apart, On
<1>8. ASSUME NEW side \in Sides, WriteClose(side, s) PROVE Apart(r)
  <2> DEFINE g == CloseFrame(s, end[side][s].sent)
  <2>1. /\ UNCHANGED <<up, streams, accept, loop>> /\ Elsewhere(side, s) /\ Wrote(side, g)
    BY <1>0, <1>8, WriteCloseStep, SetPipe
  <2>2. g \in Frame /\ g.id = s
    BY <1>0, FrameFacts, EndFacts
  <2> HIDE DEF g
  <2> QED BY <1>6, <2>1, <2>2 DEF Apart, On, Elsewhere
<1>9. ASSUME NEW side \in Sides, WriteData(side, s) PROVE Apart(r)
  <2> DEFINE g == Data(s, end[side][s].sent + 1)
  <2>1. g \in Frame /\ g.id = s
    <3>1. end[side][s].sent + 1 \in Nat
      BY <1>0, EndFacts
    <3> QED BY <3>1, FrameFacts
  <2>2. /\ UNCHANGED <<up, streams, accept, loop>> /\ Elsewhere(side, s) /\ Wrote(side, g)
    BY <1>0, <1>9, <2>1, SendStep, WroteOrClosed
  <2> HIDE DEF g
  <2> QED BY <1>6, <2>1, <2>2 DEF Apart, On, Elsewhere
<1>10. CASE WriteOpen(s)
  <2>1. /\ UNCHANGED <<up, streams, accept, loop>> /\ Elsewhere("relay", s)
        /\ Wrote("relay", OpenFrame(s)) /\ OpenFrame(s) \in Frame /\ OpenFrame(s).id = s
    BY <1>0, <1>10, WriteOpenStep, SetPipe, FrameFacts
  <2> QED BY <1>0, <1>6, <2>1 DEF Apart, On, Elsewhere
<1>11. ASSUME NEW side \in Sides, UNCHANGED <<up, accept, wire, loop>>, Elsewhere(side, s),
              \A t \in Sides : streams'[t] \union {s} = streams[t] \union {s}
       PROVE  Apart(r)
  BY <1>11 DEF Apart, On, Elsewhere, OnWire
<1>12. ASSUME NEW side \in Sides,
              ArmWrite(side, s) \/ OutEnds(side, s) \/ InEnds(side, s) \/ CopyIn(side, s)
       PROVE  Apart(r)
  <2>1. Elsewhere(side, s) /\ UNCHANGED <<up, streams, accept, wire, loop>>
    <3>1. CASE ArmWrite(side, s)
      BY <1>0, <3>1, SetOut DEF ArmWrite
    <3>2. CASE OutEnds(side, s)
      BY <1>0, <3>2, SetOut DEF OutEnds
    <3>3. CASE InEnds(side, s)
      BY <1>0, <3>3, SetIn DEF InEnds
    <3>4. CASE CopyIn(side, s)
      BY <1>0, <3>4, CopyStep
    <3> QED BY <1>12, <3>1, <3>2, <3>3, <3>4
  <2> QED BY <2>1, <1>11
<1>13. ASSUME NEW side \in Sides, PipeCloses(side, s) PROVE Apart(r)
  <2>1. /\ UNCHANGED <<up, accept, wire, loop>> /\ Elsewhere(side, s)
        /\ streams'[side] = streams[side] \ {s} /\ streams'[Other(side)] = streams[Other(side)]
    BY <1>0, <1>13, CloseStep DEF PipeCloses
  <2> QED BY <2>1, <1>11, SideFacts
<1>14. CASE DialFails(s)
  <2>1. /\ UNCHANGED <<up, accept, wire, loop>> /\ Elsewhere("tunnel", s)
        /\ streams'["tunnel"] = streams["tunnel"] \ {s} /\ streams'["relay"] = streams["relay"]
    BY <1>0, <1>14, CloseStep, SideFacts DEF DialFails
  <2> QED BY <1>0, <2>1, <1>11, SideFacts
<1>15. CASE Open(s) \/ OpenFails(s)
  <2>1. /\ UNCHANGED <<up, accept, wire, loop>> /\ Elsewhere("relay", s)
        /\ \A t \in Sides : streams'[t] \union {s} = streams[t] \union {s}
    BY <1>0, <1>15, SetPipe DEF Open, OpenFails
  <2> QED BY <1>0, <2>1, <1>11
<1>16. CASE DialLocal(s)
  <2>1. UNCHANGED <<up, streams, accept, wire, loop>> /\ Elsewhere("tunnel", s)
    BY <1>0, <1>16, SetPipe DEF DialLocal
  <2> QED BY <1>0, <2>1, <1>11
<1> QED BY <1>1, <1>2, <1>3, <1>4, <1>5, <1>7, <1>8, <1>9, <1>10, <1>12, <1>13, <1>14, <1>15, <1>16
        DEF About

-----------------------------------------------------------------------------
(* Streams that are not open yet. *)

LEMMA Frames == ASSUME NEW wires \in Wires, NEW t \in Sides PROVE ToSet(wires[t]) \subseteq Frame
BY SetOf DEF Wires

LEMMA OpeningKept ==
  ASSUME Shape, Shape', NEW r \in Streams, Apart(r), OpeningOf(r)
  PROVE  OpeningOf(r)'
<1>1. \A t \in Sides : \A f \in OnWire(t)' : f \in Frame
  BY Frames DEF OnWire, Shape
<1>2. "relay" \in Sides /\ "tunnel" \in Sides
  BY SideFacts
<1> QED BY <1>1, <1>2 DEF Apart, OpeningOf, Unopened, Fresh, Silent, OpenOnWire

LEMMA OpeningFail ==
  ASSUME Shape, WireInv, NEW side \in Sides, Fail(side), NEW r \in Streams, OpeningOf(r)
  PROVE  OpeningOf(r)'
<1>1. /\ \A t \in Sides : OnWire(t)' \subseteq OnWire(t)
      /\ UNCHANGED <<streams, accept, loop, end>>
  BY FailStep DEF Fail
<1> QED BY <1>1, SideFacts DEF OpeningOf, Unopened, Fresh, Silent, OpenOnWire, On

LEMMA OpeningStep ==
  ASSUME Shape, Shape', WireInv, OpeningInv, AcceptInv, NEW s \in Streams, About(s)
  PROVE  OpeningOf(s)'
<1>0. /\ end \in Ends /\ streams \in [Sides -> SUBSET Streams] /\ loop \in Loops
      /\ "relay" \in Sides /\ "tunnel" \in Sides
      /\ Other("relay") = "tunnel" /\ Other("tunnel") = "relay"
      /\ OpeningOf(s)
  BY SideFacts DEF Shape, OpeningInv
<1>1. CASE Accept /\ Head(accept) = s
  <2>1. s \in ToSet(accept) /\ Elsewhere("tunnel", s)
    BY <1>0, <1>1, AcceptStep, SetPipe
  <2>2. UNCHANGED <<up, streams, wire, loop>>
    BY <1>1 DEF Accept
  <2>3. ~Unopened(s) /\ ~OpenOnWire(s) /\ end'["relay"][s] = end["relay"][s]
    BY <1>0, <2>1 DEF OpeningOf, Elsewhere
  <2> QED BY <2>2, <2>3 DEF OpeningOf, Unopened, OpenOnWire, OnWire
<1>2. ASSUME NEW side \in Sides, ReadOpen(side), Head(wire[Other(side)]).id = s
      PROVE  OpeningOf(s)'
  <2> DEFINE f == Head(wire["relay"])
  <2>1. side = "tunnel"
    BY <1>2, ReadFrame, SideFacts DEF ReadOpen
  <2>2. /\ f \in Frame /\ f.id = s /\ f \in OnWire("relay") /\ f.type = "open"
        /\ \A g \in OnWire("relay")' : g.id = f.id => g.type # "open"
    BY <1>0, <1>2, <2>1, ReadFrame DEF ReadOpen
  <2>3. end' = end
    BY <1>2 DEF ReadOpen
  <2> HIDE DEF f
  <2>4. ~Unopened(s) /\ ~Unopened(s)' /\ ~OpenOnWire(s)'
    BY <1>0, <2>2, <2>3 DEF OpeningOf, Fresh, Silent, Unopened, OpenOnWire
  <2> QED BY <2>4 DEF OpeningOf, Unopened
<1>3. ASSUME NEW side \in Sides, ReadData(side) \/ ReadClose(side), Head(wire[Other(side)]).id = s
      PROVE  OpeningOf(s)'
  <2> DEFINE f == Head(wire[Other(side)])
  <2>1. /\ f \in Frame /\ f.id = s /\ f \in OnWire(Other(side))
        /\ OnWire(side)' = OnWire(side)
        /\ \A g \in OnWire(Other(side))' : g.id = f.id => g.type # "open"
    BY <1>3, ReadFrame DEF ReadData, ReadClose
  <2>2. end'["relay"][s].pipe = end["relay"][s].pipe
    <3>1. CASE ReadData(side)
      BY <3>1 DEF ReadData
    <3>2. CASE ReadClose(side)
      BY <1>0, <2>1, <3>2, ReadCloseStep DEF Elsewhere
    <3> QED BY <1>3, <3>1, <3>2
  <2> HIDE DEF f
  <2>3. CASE side = "relay"
    <3>1. ~Unopened(s) /\ ~OpenOnWire(s)
      BY <1>0, <2>1, <2>3 DEF OpeningOf, Fresh, Silent
    <3> QED BY <1>0, <2>1, <2>2, <2>3, <3>1 DEF OpeningOf, Unopened, OpenOnWire
  <2>4. CASE side = "tunnel"
    <3>1. ~Unopened(s) /\ ~OpenOnWire(s)'
      BY <1>0, <2>1, <2>4 DEF OpeningOf, Fresh, Silent, OpenOnWire
    <3> QED BY <2>2, <3>1 DEF OpeningOf, Unopened
  <2> QED BY <1>0, <2>3, <2>4, SideFacts
<1>4. ASSUME NEW side \in Sides, Deliver(side), loop[side].f.id = s PROVE OpeningOf(s)'
  <2>0. /\ UNCHANGED <<streams, accept, wire>> /\ loop[side].at = "deliver"
        /\ end'[side][s].pipe = end[side][s].pipe
        /\ Elsewhere(side, s) /\ loop'[side].at = "read" /\ loop'[Other(side)] = loop[Other(side)]
    BY <1>4, DeliverStep
  <2>1. /\ UNCHANGED <<streams, accept, wire>> /\ On(side, s)
        /\ end'["relay"][s].pipe = end["relay"][s].pipe
        /\ Elsewhere(side, s) /\ loop'[side].at = "read" /\ loop'[Other(side)] = loop[Other(side)]
    BY <1>0, <1>4, <2>0 DEF On, Elsewhere
  <2>2. CASE side = "relay"
    <3>1. ~Unopened(s)
      BY <1>0, <2>1, <2>2 DEF OpeningOf, Fresh
    <3>2. end'["tunnel"][s] = end["tunnel"][s] /\ loop'["tunnel"] = loop["tunnel"]
      BY <1>0, <2>1, <2>2 DEF Elsewhere
    <3> QED BY <1>0, <2>1, <3>1, <3>2 DEF OpeningOf, Unopened, OpenOnWire, OnWire, Fresh, Silent, On
  <2>3. CASE side = "tunnel"
    <3>1. ~Unopened(s) /\ ~OpenOnWire(s)
      BY <1>0, <2>1, <2>3 DEF OpeningOf, Fresh
    <3> QED BY <2>1, <3>1 DEF OpeningOf, Unopened, OpenOnWire, OnWire
  <2> QED BY <1>0, <2>2, <2>3, SideFacts
<1>5. ASSUME NEW side \in Sides, NEW f \in Frame, f.id = s, f.type # "open", Wrote(side, f),
             end'["relay"][s].pipe \notin {"none", "opening"},
             side = "tunnel" => ~OpenOnWire(s),
             end'["tunnel"][s] = end["tunnel"][s] \/ ~OpenOnWire(s),
             UNCHANGED <<streams, accept>>, On("tunnel", s)' => On("tunnel", s)
      PROVE  OpeningOf(s)'
  <2>1. OpenOnWire(s)' => OpenOnWire(s)
    BY <1>0, <1>5, SideFacts DEF OpenOnWire, Wrote
  <2>2. side = "relay" => OnWire("tunnel")' = OnWire("tunnel")
    BY <1>0, <1>5 DEF Wrote
  <2>3. side = "relay" \/ side = "tunnel"
    BY <1>0, SideFacts
  <2> QED BY <1>0, <1>5, <2>1, <2>2, <2>3 DEF OpeningOf, Unopened, Fresh, Silent
<1>6. ASSUME NEW side \in Sides, Answer(side), loop[side].f.id = s PROVE OpeningOf(s)'
  <2> DEFINE g == CloseFrame(s, end[side][s].sent)
  <2>1. /\ UNCHANGED <<up, streams, accept, end>>
        /\ loop'[side].at = "read" /\ loop'[Other(side)] = loop[Other(side)]
        /\ On(side, s) /\ Wrote(side, g)
    BY <1>6, AnswerStep DEF On
  <2>2. g \in Frame /\ g.id = s /\ g.type = "close"
    BY <1>0, FrameFacts, EndFacts
  <2> HIDE DEF g
  <2>3. side = "tunnel" => ~OpenOnWire(s) /\ ~Unopened(s)
    BY <1>0, <2>1 DEF OpeningOf, Fresh
  <2>4. side = "relay" => ~Unopened(s)
    BY <1>0, <2>1 DEF OpeningOf, Fresh
  <2>5. On("tunnel", s)' => On("tunnel", s)
    BY <1>0, <2>1, SideFacts DEF On
  <2>6. end'["relay"][s].pipe \notin {"none", "opening"}
    BY <1>0, <2>1, <2>3, <2>4, SideFacts DEF Unopened
  <2> QED BY <1>5, <2>1, <2>2, <2>3, <2>5, <2>6
<1>7. ASSUME NEW side \in Sides, WriteClose(side, s) PROVE OpeningOf(s)'
  <2> DEFINE g == CloseFrame(s, end[side][s].sent)
  <2>1. /\ UNCHANGED <<up, streams, accept, loop>> /\ Elsewhere(side, s) /\ Wrote(side, g)
        /\ end[side][s].pipe = "closing" /\ end'[side][s].pipe = "gone"
    BY <1>0, <1>7, WriteCloseStep, SetPipe
  <2>2. g \in Frame /\ g.id = s /\ g.type = "close"
    BY <1>0, FrameFacts, EndFacts
  <2> HIDE DEF g
  <2>3. side = "tunnel" => ~OpenOnWire(s) /\ ~Unopened(s)
    BY <1>0, <2>1 DEF OpeningOf
  <2>4. /\ end'["relay"][s].pipe \notin {"none", "opening"}
        /\ end'["tunnel"][s] = end["tunnel"][s] \/ ~OpenOnWire(s)
    BY <1>0, <2>1, <2>3, SideFacts DEF Unopened, Elsewhere
  <2> QED BY <1>5, <2>1, <2>2, <2>3, <2>4 DEF On
<1>8. ASSUME NEW side \in Sides, WriteData(side, s) PROVE OpeningOf(s)'
  <2> DEFINE g == Data(s, end[side][s].sent + 1)
  <2>1. g \in Frame /\ g.id = s /\ g.type = "data"
    <3>1. end[side][s].sent + 1 \in Nat
      BY <1>0, EndFacts
    <3> QED BY <3>1, FrameFacts
  <2>2. /\ UNCHANGED <<up, streams, accept, loop>> /\ Elsewhere(side, s) /\ Wrote(side, g)
        /\ end[side][s].out = "armed" /\ end'[side][s].pipe = end[side][s].pipe
    BY <1>0, <1>8, <2>1, SendStep, WroteOrClosed
  <2> HIDE DEF g
  <2>3. /\ side = "tunnel" => ~OpenOnWire(s) /\ ~Unopened(s)
        /\ side = "relay" => ~Unopened(s)
    BY <1>0, <2>2 DEF OpeningOf, Fresh
  <2>4. /\ end'["relay"][s].pipe \notin {"none", "opening"}
        /\ end'["tunnel"][s] = end["tunnel"][s] \/ ~OpenOnWire(s)
    BY <1>0, <2>2, <2>3, SideFacts DEF Unopened, Elsewhere
  <2> QED BY <1>5, <2>1, <2>2, <2>3, <2>4 DEF On
<1>9. CASE WriteOpen(s)
  <2>1. /\ UNCHANGED <<up, streams, accept, loop>> /\ Elsewhere("relay", s)
        /\ Wrote("relay", OpenFrame(s))
        /\ end["relay"][s].pipe = "opening" /\ end'["relay"][s].pipe = "open"
    BY <1>0, <1>9, WriteOpenStep, SetPipe
  <2>2. /\ Fresh("tunnel", s) /\ end["tunnel"][s].pipe = "none"
        /\ s \notin streams["tunnel"] /\ s \notin ToSet(accept)
    BY <1>0, <2>1 DEF OpeningOf, Unopened
  <2> QED BY <1>0, <2>1, <2>2 DEF OpeningOf, Unopened, Elsewhere, Fresh, Silent, On, Wrote
<1>10. ASSUME NEW side \in Sides, UNCHANGED <<up, accept, wire, loop>>, Elsewhere(side, s),
              side = "relay" => ~Unopened(s) /\ ~Unopened(s)',
              side = "tunnel" => end[side][s].pipe # "none" \/ end[side][s].out # "run",
              side = "tunnel" => streams'["relay"] = streams["relay"],
              streams'["tunnel"] \subseteq streams["tunnel"]
       PROVE  OpeningOf(s)'
  <2>1. CASE side = "relay"
    <3>1. OnWire("relay")' = OnWire("relay") /\ OnWire("tunnel")' = OnWire("tunnel")
          /\ end'["tunnel"][s] = end["tunnel"][s]
      BY <1>0, <1>10, <2>1 DEF OnWire, Elsewhere
    <3> QED BY <1>0, <1>10, <2>1, <3>1 DEF OpeningOf, Unopened, OpenOnWire, Fresh, Silent, On
  <2>2. CASE side = "tunnel"
    <3>1. OnWire("relay")' = OnWire("relay") /\ end'["relay"][s] = end["relay"][s]
      BY <1>0, <1>10, <2>2 DEF OnWire, Elsewhere
    <3>2. ~Unopened(s) /\ ~OpenOnWire(s)
      BY <1>0, <1>10, <2>2 DEF OpeningOf, Fresh
    <3> QED BY <3>1, <3>2 DEF OpeningOf, Unopened, OpenOnWire
  <2> QED BY <1>0, <2>1, <2>2, SideFacts
<1>11. ASSUME NEW side \in Sides,
              ArmWrite(side, s) \/ OutEnds(side, s) \/ InEnds(side, s) \/ CopyIn(side, s)
       PROVE  OpeningOf(s)'
  <2>1. /\ Elsewhere(side, s) /\ UNCHANGED <<up, streams, accept, wire, loop>>
        /\ end[side][s].pipe = "open" \/ end[side][s].out = "armed"
        /\ end'[side][s].pipe = end[side][s].pipe
    <3>1. CASE ArmWrite(side, s)
      BY <1>0, <3>1, SetOut DEF ArmWrite
    <3>2. CASE OutEnds(side, s)
      BY <1>0, <3>2, SetOut DEF OutEnds
    <3>3. CASE InEnds(side, s)
      BY <1>0, <3>3, SetIn DEF InEnds
    <3>4. CASE CopyIn(side, s)
      BY <1>0, <3>4, CopyStep
    <3> QED BY <1>11, <3>1, <3>2, <3>3, <3>4
  <2>2. side = "relay" => ~Unopened(s) /\ ~Unopened(s)'
    BY <1>0, <2>1 DEF OpeningOf, Fresh, Unopened
  <2> QED BY <1>10, <2>1, <2>2
<1>12. ASSUME NEW side \in Sides, PipeCloses(side, s) PROVE OpeningOf(s)'
  <2>1. /\ UNCHANGED <<up, accept, wire, loop>> /\ Elsewhere(side, s)
        /\ streams'[side] = streams[side] \ {s} /\ streams'[Other(side)] = streams[Other(side)]
        /\ end[side][s].pipe = "open" /\ end'[side][s].pipe = "closing"
    BY <1>0, <1>12, CloseStep DEF PipeCloses
  <2>2. side = "relay" => ~Unopened(s) /\ ~Unopened(s)'
    BY <2>1 DEF Unopened
  <2> QED BY <1>0, <1>10, <2>1, <2>2, SideFacts
<1>13. CASE DialFails(s)
  <2>1. /\ UNCHANGED <<up, accept, wire, loop>> /\ Elsewhere("tunnel", s)
        /\ streams'["tunnel"] = streams["tunnel"] \ {s} /\ streams'["relay"] = streams["relay"]
        /\ end["tunnel"][s].pipe = "dialing"
    BY <1>0, <1>13, CloseStep DEF DialFails
  <2> QED BY <1>0, <1>10, <2>1
<1>14. CASE DialLocal(s)
  <2>1. /\ UNCHANGED <<up, streams, accept, wire, loop>> /\ Elsewhere("tunnel", s)
        /\ end["tunnel"][s].pipe = "dialing"
    BY <1>0, <1>14, SetPipe DEF DialLocal
  <2> QED BY <1>0, <1>10, <2>1
<1>15. CASE OpenFails(s)
  <2>1. /\ UNCHANGED <<up, accept, wire, loop>> /\ Elsewhere("relay", s)
        /\ streams'["tunnel"] = streams["tunnel"]
        /\ end["relay"][s].pipe = "opening" /\ end'["relay"][s].pipe = "gone"
    BY <1>0, <1>15, SetPipe DEF OpenFails
  <2>2. /\ Fresh("tunnel", s) /\ end["tunnel"][s].pipe = "none"
        /\ s \notin streams["tunnel"] /\ s \notin ToSet(accept)
    BY <1>0, <2>1 DEF OpeningOf, Unopened
  <2>3. end'["tunnel"][s] = end["tunnel"][s] /\ ~Unopened(s)'
    BY <1>0, <2>1 DEF Elsewhere, Unopened
  <2>4. OnWire("relay")' = OnWire("relay") /\ OnWire("tunnel")' = OnWire("tunnel")
    BY <2>1 DEF OnWire
  <2> QED BY <2>1, <2>2, <2>3, <2>4 DEF OpeningOf, Unopened, OpenOnWire, Fresh, Silent, On
<1>16. CASE Open(s)
  <2>1. /\ UNCHANGED <<up, accept, wire, loop>> /\ Elsewhere("relay", s)
        /\ SameFlow("relay", s)
        /\ end'["relay"][s].out = end["relay"][s].out /\ end'["relay"][s].in = end["relay"][s].in
        /\ end'["relay"][s].sent = end["relay"][s].sent
        /\ streams'["tunnel"] = streams["tunnel"] /\ s \in streams'["relay"]
        /\ end["relay"][s].pipe = "none" /\ end'["relay"][s].pipe = "opening"
    BY <1>0, <1>16, SetPipe DEF Open
  <2>2. Unopened(s) /\ Fresh("relay", s) /\ Fresh("tunnel", s)
        /\ end'["tunnel"][s] = end["tunnel"][s]
    BY <1>0, <2>1 DEF OpeningOf, Unopened, Elsewhere
  <2>3. OnWire("relay")' = OnWire("relay") /\ OnWire("tunnel")' = OnWire("tunnel")
    BY <2>1 DEF OnWire
  <2>4. Fresh("relay", s)' /\ Fresh("tunnel", s)'
    BY <2>1, <2>2, <2>3 DEF Fresh, Silent, On, SameFlow
  <2> QED BY <1>0, <2>1, <2>2, <2>4 DEF OpeningOf, Unopened
<1> QED BY <1>1, <1>2, <1>3, <1>4, <1>6, <1>7, <1>8, <1>9, <1>11, <1>12, <1>13, <1>14, <1>15, <1>16
        DEF About

-----------------------------------------------------------------------------
(* Streams wait once to be accepted, and a closed one is out of the table. *)

LEMMA DistinctAppend ==
  ASSUME NEW S, NEW w \in Seq(S), IsInjective(w), NEW x \in S, x \notin ToSet(w)
  PROVE  IsInjective(Append(w, x))
<1>1. /\ Len(w) \in Nat /\ DOMAIN w = 1..Len(w)
      /\ DOMAIN Append(w, x) = 1..Len(w) + 1
      /\ \A i \in 1..Len(w) : Append(w, x)[i] = w[i]
      /\ Append(w, x)[Len(w) + 1] = x
      /\ \A i \in 1..Len(w) : w[i] # x
  BY AppendProperties, LenProperties, SetOf
<1> QED BY <1>1 DEF IsInjective

LEMMA DistinctTail ==
  ASSUME NEW S, NEW w \in Seq(S), w # <<>>, IsInjective(w)
  PROVE  IsInjective(Tail(w)) /\ Head(w) \notin ToSet(Tail(w))
<1>1. /\ Tail(w) \in Seq(S)
      /\ \A i \in 1..Len(Tail(w)) : i + 1 \in 1..Len(w) /\ Tail(w)[i] = w[i + 1]
      /\ Head(w) = w[1] /\ 1 \in 1..Len(w)
      /\ DOMAIN w = 1..Len(w) /\ DOMAIN Tail(w) = 1..Len(Tail(w)) /\ Len(Tail(w)) \in Nat
  BY TailSet, LenProperties
<1>2. IsInjective(Tail(w))
  <2> SUFFICES ASSUME NEW i \in 1..Len(Tail(w)), NEW j \in 1..Len(Tail(w)),
                      Tail(w)[i] = Tail(w)[j]
               PROVE  i = j
    BY <1>1 DEF IsInjective
  <2>1. i + 1 = j + 1
    BY <1>1 DEF IsInjective
  <2> QED BY <2>1
<1>3. \A i \in 1..Len(Tail(w)) : Tail(w)[i] # Head(w)
  <2> TAKE i \in 1..Len(Tail(w))
  <2>1. 1 # i + 1
    BY <1>1
  <2> QED BY <1>1, <2>1 DEF IsInjective
<1> QED BY <1>1, <1>2, <1>3, SetOf

(* Only Accept takes a pipe of the tunnel out of its initial state. *)
LEMMA PipeStays ==
  ASSUME Shape, WireInv, NEW s \in Streams, About(s), ~Accept, end["tunnel"][s].pipe = "none"
  PROVE  end'["tunnel"][s].pipe = "none"
<1>0. end \in Ends /\ streams \in [Sides -> SUBSET Streams] /\ "relay" \in Sides /\ "tunnel" \in Sides
  BY SideFacts DEF Shape
<1>1. CASE end' = end
  BY <1>1
<1>2. ASSUME NEW side \in Sides, Elsewhere(side, s),
             side = "relay" \/ end'[side][s].pipe = end[side][s].pipe
      PROVE  end'["tunnel"][s].pipe = "none"
  BY <1>0, <1>2, SideFacts DEF Elsewhere
<1>3. ASSUME NEW side \in Sides,
             ReadOpen(side) \/ ReadData(side) \/ Answer(side)
      PROVE  end' = end
  BY <1>3 DEF ReadOpen, ReadData, Answer
<1>4. ASSUME NEW side \in Sides, ReadClose(side), Head(wire[Other(side)]).id = s
      PROVE  end'["tunnel"][s].pipe = "none"
  <2>1. Head(wire[Other(side)]) \in Frame
    BY <1>4, ReadFrame DEF ReadClose
  <2>2. Elsewhere(side, s) /\ end'[side][s].pipe = end[side][s].pipe
    BY <1>4, <2>1, ReadCloseStep
  <2> QED BY <1>2, <2>2
<1>5. ASSUME NEW side \in Sides, Deliver(side), loop[side].f.id = s
      PROVE  end'["tunnel"][s].pipe = "none"
  <2>1. Elsewhere(side, s) /\ end'[side][s].pipe = end[side][s].pipe
    BY <1>5, DeliverStep
  <2> QED BY <1>2, <2>1
<1>6. ASSUME NEW side \in Sides,
             \/ ArmWrite(side, s) \/ WriteData(side, s) \/ OutEnds(side, s)
             \/ CopyIn(side, s) \/ InEnds(side, s)
      PROVE  Elsewhere(side, s) /\ end'[side][s].pipe = end[side][s].pipe
  <2>1. CASE ArmWrite(side, s)
    BY <1>0, <2>1, SetOut DEF ArmWrite
  <2>2. CASE OutEnds(side, s)
    BY <1>0, <2>2, SetOut DEF OutEnds
  <2>3. CASE InEnds(side, s)
    BY <1>0, <2>3, SetIn DEF InEnds
  <2>4. CASE CopyIn(side, s)
    BY <1>0, <2>4, CopyStep
  <2>5. CASE WriteData(side, s)
    BY <1>0, <2>5, SendStep
  <2> QED BY <1>6, <2>1, <2>2, <2>3, <2>4, <2>5
<1>7. ASSUME NEW side \in Sides, PipeCloses(side, s) \/ WriteClose(side, s)
      PROVE  Elsewhere(side, s) /\ end[side][s].pipe # "none"
  <2>1. CASE PipeCloses(side, s)
    BY <1>0, <2>1, CloseStep DEF PipeCloses
  <2>2. CASE WriteClose(side, s)
    BY <1>0, <2>2, WriteCloseStep, SetPipe
  <2> QED BY <1>7, <2>1, <2>2
<1>8. CASE Open(s) \/ WriteOpen(s) \/ OpenFails(s)
  <2>1. Elsewhere("relay", s)
    BY <1>0, <1>8, SetPipe DEF Open, WriteOpen, OpenFails
  <2> QED BY <1>0, <1>2, <2>1
<1>9. ~DialLocal(s) /\ ~DialFails(s)
  BY DEF DialLocal, DialFails
<1>10. ASSUME NEW side \in Sides, PipeCloses(side, s) \/ WriteClose(side, s)
       PROVE  end'["tunnel"][s].pipe = "none"
  BY <1>2, <1>7, <1>10, SideFacts
<1>11. ASSUME NEW side \in Sides,
              \/ ArmWrite(side, s) \/ WriteData(side, s) \/ OutEnds(side, s)
              \/ CopyIn(side, s) \/ InEnds(side, s)
       PROVE  end'["tunnel"][s].pipe = "none"
  BY <1>2, <1>6, <1>11
<1> QED BY <1>1, <1>3, <1>4, <1>5, <1>8, <1>9, <1>10, <1>11 DEF About

LEMMA AcceptInvStep ==
  ASSUME Shape, WireInv, OpeningInv, AcceptInv, Next
  PROVE  AcceptInv'
<1>0. accept \in Seq(Streams) /\ IsInjective(accept) /\ end \in Ends /\ "tunnel" \in Sides
      /\ Other("tunnel") = "relay"
  BY SideFacts DEF Shape, AcceptInv
<1>1. ASSUME NEW side \in Sides, ReadOpen(side)
      PROVE  /\ side = "tunnel"
             /\ Head(wire["relay"]) \in Frame /\ OpenOnWire(Head(wire["relay"]).id)
  <2>1. side = "tunnel" /\ Other(side) = "relay"
    BY <1>1, ReadFrame, SideFacts DEF ReadOpen
  <2> QED BY <1>1, <2>1, ReadFrame DEF ReadOpen, OpenOnWire
<1>2. IsInjective(accept')
  <2>1. CASE Accept
    BY <1>0, <2>1, AcceptStep, DistinctTail
  <2>2. ASSUME NEW side \in Sides, ReadOpen(side) PROVE IsInjective(accept')
    <3> DEFINE f == Head(wire["relay"])
    <3>1. f \in Frame /\ OpenOnWire(f.id) /\ side = "tunnel"
      BY <1>1, <2>2
    <3>2. accept' = Append(accept, f.id) \/ accept' = accept
      BY <2>2, <3>1, ReadOpenStep
    <3> HIDE DEF f
    <3>3. f.id \in Streams
      BY <3>1, FrameFacts
    <3>4. f.id \notin ToSet(accept)
      BY <3>1, <3>3 DEF OpeningInv, OpeningOf
    <3> QED BY <1>0, <3>2, <3>3, <3>4, DistinctAppend
  <2>3. ASSUME NEW side \in Sides, Fail(side) \/ ReadData(side) \/ ReadClose(side) \/ Answer(side)
        PROVE  accept' = accept
    BY <2>3 DEF Fail, ReadData, ReadClose, Answer
  <2>4. ASSUME NEW side \in Sides, Deliver(side) PROVE accept' = accept
    BY <2>4, DeliverStep
  <2>5. ASSUME NEW side \in Sides, NEW s \in Streams,
               \/ ArmWrite(side, s) \/ OutEnds(side, s) \/ InEnds(side, s)
               \/ PipeCloses(side, s) \/ WriteClose(side, s)
        PROVE  accept' = accept
    BY <2>5 DEF ArmWrite, OutEnds, InEnds, PipeCloses, WriteClose
  <2>6. ASSUME NEW side \in Sides, NEW s \in Streams, WriteData(side, s) \/ CopyIn(side, s)
        PROVE  accept' = accept
    BY <1>0, <2>6, SendStep, CopyStep
  <2>7. ASSUME NEW s \in Streams,
               Open(s) \/ WriteOpen(s) \/ OpenFails(s) \/ DialLocal(s) \/ DialFails(s)
        PROVE  accept' = accept
    BY <2>7 DEF Open, WriteOpen, OpenFails, DialLocal, DialFails
  <2> QED BY <1>0, <2>1, <2>2, <2>3, <2>4, <2>5, <2>6, <2>7 DEF Next
<1>3. ASSUME NEW side \in Sides, Fail(side), NEW r \in Streams PROVE AcceptOf(r)'
  BY <1>3 DEF Fail, AcceptInv, AcceptOf
<1>4. ASSUME NEW s \in Streams, About(s) PROVE AcceptOf(s)'
  <2>1. CASE Accept
    <3>1. Head(accept) = s \/ Head(accept) # s
      OBVIOUS
    <3>2. Head(accept) \notin ToSet(accept') /\ Elsewhere("tunnel", Head(accept))
          /\ ToSet(accept') \subseteq ToSet(accept) /\ Head(accept) \in Streams
      BY <1>0, <2>1, AcceptStep, DistinctTail, SetPipe
    <3> QED BY <1>0, <3>2 DEF AcceptOf, AcceptInv, Elsewhere
  <2>2. CASE ~Accept /\ s \in ToSet(accept)
    BY <1>4, <2>2, PipeStays DEF AcceptOf, AcceptInv
  <2>3. CASE ~Accept /\ s \notin ToSet(accept) /\ s \in ToSet(accept')
    <3>1. accept' # accept
      BY <2>3
    <3>2. PICK side \in Sides : ReadOpen(side) /\ Head(wire[Other(side)]).id = s
      <4>1. ASSUME NEW side \in Sides, ReadData(side) \/ ReadClose(side) \/ Answer(side)
            PROVE  accept' = accept
        BY <4>1 DEF ReadData, ReadClose, Answer
      <4>2. ASSUME NEW side \in Sides, Deliver(side) PROVE accept' = accept
        BY <4>2, DeliverStep
      <4>3. ASSUME NEW side \in Sides,
                   \/ ArmWrite(side, s) \/ OutEnds(side, s) \/ InEnds(side, s)
                   \/ PipeCloses(side, s) \/ WriteClose(side, s)
            PROVE  accept' = accept
        BY <4>3 DEF ArmWrite, OutEnds, InEnds, PipeCloses, WriteClose
      <4>4. ASSUME NEW side \in Sides, WriteData(side, s) \/ CopyIn(side, s)
            PROVE  accept' = accept
        BY <1>0, <4>4, SendStep, CopyStep
      <4>5. ASSUME Open(s) \/ WriteOpen(s) \/ OpenFails(s) \/ DialLocal(s) \/ DialFails(s)
            PROVE  accept' = accept
        BY <4>5 DEF Open, WriteOpen, OpenFails, DialLocal, DialFails
      <4> QED BY <1>4, <2>3, <3>1, <4>1, <4>2, <4>3, <4>4, <4>5 DEF About
    <3>3. OpenOnWire(s)
      BY <1>0, <1>1, <3>2
    <3>4. end["tunnel"][s].pipe = "none"
      BY <3>3 DEF OpeningInv, OpeningOf
    <3> QED BY <1>4, <2>3, <3>4, PipeStays DEF AcceptOf
  <2> QED BY <2>1, <2>2, <2>3 DEF AcceptOf
<1>5. ASSUME NEW s \in Streams, About(s), NEW r \in Streams PROVE AcceptOf(r)'
  <2>1. CASE r # s
    <3>1. Apart(r)
      BY <1>5, <2>1, ApartStep
    <3> QED BY <1>0, <3>1 DEF Apart, AcceptOf, AcceptInv
  <2> QED BY <1>4, <1>5, <2>1
<1>6. \A r \in Streams : AcceptOf(r)'
  BY <1>3, <1>5, Subjects
<1> QED BY <1>2, <1>6 DEF AcceptInv

LEMMA ClosedKept ==
  ASSUME NEW t \in Sides, NEW s \in Streams, ClosedOf(t, s),
         end'[t][s].closed = end[t][s].closed, end'[t][s].eof = end[t][s].eof,
         end'[t][s].reads = end[t][s].reads \/ (~end[t][s].closed),
         end[t][s].pipe \in {"closing", "gone"} => end'[t][s].pipe \in {"closing", "gone"},
         s \in streams'[t] <=> s \in streams[t], Delivering(t, s)' => Delivering(t, s)
  PROVE  ClosedOf(t, s)'
BY DEF ClosedOf

LEMMA ClosedStep ==
  ASSUME Shape, WireInv, OpeningInv, AcceptInv, ClosedInv, NEW s \in Streams, About(s), NEW t \in Sides
  PROVE  ClosedOf(t, s)'
<1>0. /\ end \in Ends /\ streams \in [Sides -> SUBSET Streams] /\ loop \in Loops
      /\ "relay" \in Sides /\ "tunnel" \in Sides
      /\ Other("relay") = "tunnel" /\ Other("tunnel") = "relay"
      /\ OpeningOf(s) /\ ClosedOf(t, s)
      /\ end[t][s].closed \in BOOLEAN /\ end[t][s].eof \in BOOLEAN
  BY SideFacts, EndFacts DEF Shape, OpeningInv, ClosedInv
<1>1. ASSUME NEW side \in Sides, UNCHANGED <<streams, loop>>, Elsewhere(side, s), SameFlow(side, s),
             end[side][s].pipe \in {"closing", "gone"} => end'[side][s].pipe \in {"closing", "gone"}
      PROVE  ClosedOf(t, s)'
  BY <1>0, <1>1, ClosedKept DEF Elsewhere, SameFlow, Delivering
<1>2. ASSUME Accept, Head(accept) = s PROVE ClosedOf(t, s)'
  <2>1. s \in ToSet(accept) /\ SetEnd("tunnel", s, "pipe", "dialing")
    BY <1>0, <1>2, AcceptStep
  <2>2. /\ UNCHANGED <<streams, loop>> /\ Elsewhere("tunnel", s) /\ SameFlow("tunnel", s)
        /\ end["tunnel"][s].pipe = "none"
    BY <1>0, <1>2, <2>1, SetPipe DEF Accept, AcceptInv, AcceptOf
  <2> QED BY <1>0, <1>1, <2>2
<1>3. ASSUME NEW side \in Sides, ArmWrite(side, s) \/ OutEnds(side, s) \/ InEnds(side, s)
      PROVE  ClosedOf(t, s)'
  <2>1. /\ Elsewhere(side, s) /\ SameFlow(side, s) /\ UNCHANGED <<streams, loop>>
        /\ end'[side][s].pipe = end[side][s].pipe
    <3>1. CASE ArmWrite(side, s)
      BY <1>0, <3>1, SetOut DEF ArmWrite
    <3>2. CASE OutEnds(side, s)
      BY <1>0, <3>2, SetOut DEF OutEnds
    <3>3. CASE InEnds(side, s)
      BY <1>0, <3>3, SetIn DEF InEnds
    <3> QED BY <1>3, <3>1, <3>2, <3>3
  <2> QED BY <1>1, <2>1
<1>4. ASSUME NEW side \in Sides, WriteData(side, s) PROVE ClosedOf(t, s)'
  BY <1>0, <1>1, <1>4, SendStep
<1>5. ASSUME NEW side \in Sides, WriteClose(side, s) PROVE ClosedOf(t, s)'
  BY <1>0, <1>1, <1>5, WriteCloseStep, SetPipe
<1>6. ASSUME WriteOpen(s) \/ DialLocal(s) PROVE ClosedOf(t, s)'
  <2>1. CASE WriteOpen(s)
    BY <1>0, <1>1, <2>1, WriteOpenStep, SetPipe
  <2>2. CASE DialLocal(s)
    BY <1>0, <1>1, <2>2, SetPipe DEF DialLocal
  <2> QED BY <1>6, <2>1, <2>2
<1>7. ASSUME Open(s) \/ OpenFails(s) PROVE ClosedOf(t, s)'
  <2>1. /\ Elsewhere("relay", s) /\ SameFlow("relay", s) /\ UNCHANGED loop
        /\ streams'["tunnel"] = streams["tunnel"]
        /\ Unopened(s)
    BY <1>0, <1>7, SetPipe DEF Open, OpenFails, Unopened
  <2>2. Fresh("relay", s)
    BY <1>0, <2>1 DEF OpeningOf
  <2>3. CASE t = "relay"
    BY <1>0, <2>1, <2>2, <2>3 DEF ClosedOf, Fresh, SameFlow, Delivering, On
  <2>4. CASE t = "tunnel"
    BY <1>0, <2>1, <2>4, ClosedKept DEF Elsewhere, Delivering
  <2> QED BY <1>0, <2>3, <2>4, SideFacts
<1>8. ASSUME NEW side \in Sides, CloseStream(side, s), UNCHANGED loop PROVE ClosedOf(t, s)'
  <2>1. /\ Elsewhere(side, s)
        /\ streams'[side] = streams[side] \ {s} /\ streams'[Other(side)] = streams[Other(side)]
        /\ end'[side][s].pipe = "closing" /\ end'[side][s].closed /\ end'[side][s].reads = <<>>
    BY <1>0, <1>8, CloseStep
  <2>2. CASE t = side
    BY <2>1, <2>2 DEF ClosedOf
  <2>3. CASE t = Other(side)
    BY <1>0, <1>8, <2>1, <2>3, SideFacts, ClosedKept DEF Elsewhere, Delivering
  <2> QED BY <2>2, <2>3, SideFacts
<1>9. ASSUME NEW side \in Sides, PipeCloses(side, s) PROVE ClosedOf(t, s)'
  BY <1>8, <1>9 DEF PipeCloses
<1>10. ASSUME DialFails(s) PROVE ClosedOf(t, s)'
  BY <1>0, <1>8, <1>10 DEF DialFails
<1>11. ASSUME NEW side \in Sides, CopyIn(side, s) PROVE ClosedOf(t, s)'
  <2>1. /\ Elsewhere(side, s) /\ UNCHANGED <<streams, loop>>
        /\ end'[side][s].closed = end[side][s].closed /\ end'[side][s].eof = end[side][s].eof
        /\ end'[side][s].pipe = end[side][s].pipe /\ end[side][s].pipe = "open"
    BY <1>0, <1>11, CopyStep
  <2>2. t = side => ~end[t][s].closed
    BY <1>0, <2>1 DEF ClosedOf
  <2> QED BY <1>0, <2>1, <2>2, ClosedKept DEF Elsewhere, Delivering
<1>12. ASSUME NEW side \in Sides, Deliver(side), loop[side].f.id = s PROVE ClosedOf(t, s)'
  <2>1. /\ Elsewhere(side, s) /\ UNCHANGED streams
        /\ loop'[side].at = "read" /\ loop'[Other(side)] = loop[Other(side)]
        /\ end'[side][s].closed = end[side][s].closed /\ end'[side][s].eof = end[side][s].eof
        /\ end'[side][s].pipe = end[side][s].pipe
        /\ ~end[side][s].closed \/ end' = end
    BY <1>12, DeliverStep
  <2>2. CASE t = side
    BY <1>0, <2>1, <2>2, ClosedKept DEF Delivering
  <2>3. CASE t = Other(side)
    BY <1>0, <2>1, <2>3, ClosedKept, SideFacts DEF Delivering, Elsewhere
  <2> QED BY <2>2, <2>3, SideFacts
<1>13. ASSUME NEW side \in Sides, Answer(side), loop[side].f.id = s PROVE ClosedOf(t, s)'
  <2>1. /\ UNCHANGED <<streams, end>>
        /\ loop'[side].at = "read" /\ loop'[Other(side)] = loop[Other(side)]
    BY <1>13, AnswerStep
  <2>2. Delivering(t, s)' => Delivering(t, s)
    BY <2>1, SideFacts DEF Delivering
  <2> QED BY <1>0, <2>1, <2>2, ClosedKept
<1>14. ASSUME NEW side \in Sides, ReadClose(side), Head(wire[Other(side)]).id = s
       PROVE  ClosedOf(t, s)'
  <2> DEFINE f == Head(wire[Other(side)])
  <2>1. f \in Frame /\ loop[side].at = "read"
    BY <1>14, ReadFrame DEF ReadClose
  <2>2. /\ streams'[side] = streams[side] \ {s} /\ streams'[Other(side)] = streams[Other(side)]
        /\ UNCHANGED loop /\ Elsewhere(side, s)
        /\ end'[side][s].reads = end[side][s].reads /\ end'[side][s].pipe = end[side][s].pipe
        /\ end'[side][s].closed = end[side][s].closed
    BY <1>14, <2>1, ReadCloseStep
  <2>3. CASE t = side
    BY <1>0, <2>1, <2>2, <2>3 DEF ClosedOf, Delivering
  <2>4. CASE t = Other(side)
    BY <1>0, <2>2, <2>4, ClosedKept, SideFacts DEF Elsewhere, Delivering
  <2> QED BY <2>3, <2>4, SideFacts
<1>15. ASSUME NEW side \in Sides, ReadData(side), Head(wire[Other(side)]).id = s
       PROVE  ClosedOf(t, s)'
  <2>1. Head(wire[Other(side)]) \in Frame
    BY <1>15, ReadFrame DEF ReadData
  <2>2. /\ UNCHANGED <<streams, end>> /\ loop'[Other(side)] = loop[Other(side)]
        /\ s \notin streams[side] => loop'[side].at = "answer"
    BY <1>15, <2>1, ReadDataStep
  <2>3. CASE t = side
    BY <1>0, <2>2, <2>3 DEF ClosedOf, Delivering
  <2>4. CASE t = Other(side)
    BY <1>0, <2>2, <2>4, ClosedKept DEF Delivering
  <2> QED BY <2>3, <2>4, SideFacts
<1>16. ASSUME NEW side \in Sides, ReadOpen(side), Head(wire[Other(side)]).id = s
       PROVE  ClosedOf(t, s)'
  <2> DEFINE f == Head(wire["relay"])
  <2>1. side = "tunnel" /\ Other(side) = "relay"
    BY <1>16, ReadFrame, SideFacts DEF ReadOpen
  <2>2. /\ f \in Frame /\ f.id = s /\ OpenOnWire(s) /\ loop["tunnel"].at = "read"
    BY <1>0, <1>16, <2>1, ReadFrame DEF ReadOpen, OpenOnWire
  <2>3. /\ end' = end
        /\ \/ /\ streams'["tunnel"] = streams["tunnel"] \union {f.id}
              /\ streams'["relay"] = streams["relay"]
              /\ UNCHANGED loop
           \/ /\ UNCHANGED <<streams>>
              /\ loop'["relay"] = loop["relay"] /\ loop'["tunnel"].at = "answer"
    BY <1>16, <2>1, <2>2, ReadOpenStep
  <2> HIDE DEF f
  <2>4. Fresh("tunnel", s)
    BY <1>0, <2>2 DEF OpeningOf
  <2>5. CASE t = "tunnel"
    BY <1>0, <2>2, <2>3, <2>4, <2>5 DEF ClosedOf, Delivering, Fresh
  <2>6. CASE t = "relay"
    BY <1>0, <2>3, <2>6, ClosedKept DEF Delivering
  <2> QED BY <1>0, <2>5, <2>6, SideFacts
<1> QED BY <1>2, <1>3, <1>4, <1>5, <1>6, <1>7, <1>9, <1>10, <1>11, <1>12, <1>13, <1>14, <1>15, <1>16
        DEF About

LEMMA ClosedInvStep ==
  ASSUME Shape, WireInv, OpeningInv, AcceptInv, ClosedInv, Next
  PROVE  ClosedInv'
<1>1. ASSUME NEW side \in Sides, Fail(side) PROVE ClosedInv'
  BY <1>1 DEF Fail, ClosedInv, ClosedOf, Delivering
<1>2. ASSUME NEW s \in Streams, About(s), NEW t \in Sides, NEW r \in Streams PROVE ClosedOf(t, r)'
  <2>1. CASE r # s
    <3>1. Apart(r)
      BY <1>2, <2>1, ApartStep
    <3> QED BY <3>1, ClosedKept DEF Apart, ClosedInv, Delivering, On
  <2> QED BY <1>2, <2>1, ClosedStep
<1> QED BY <1>1, <1>2, Subjects DEF ClosedInv

LEMMA OpeningInvStep ==
  ASSUME Shape, Shape', WireInv, OpeningInv, AcceptInv, Next
  PROVE  OpeningInv'
<1>1. ASSUME NEW s \in Streams, About(s), NEW r \in Streams PROVE OpeningOf(r)'
  <2>1. CASE r # s
    <3>1. Apart(r)
      BY <1>1, <2>1, ApartStep
    <3> QED BY <3>1, OpeningKept DEF OpeningInv
  <2> QED BY <1>1, <2>1, OpeningStep
<1> QED BY <1>1, OpeningFail, Subjects DEF OpeningInv

-----------------------------------------------------------------------------
(* The flow of payloads into an end.                                       *)

(* Steps that leave the flow of s into side t level. *)
Level(t, s) ==
  /\ up' = up
  /\ SameFlow(t, s)
  /\ end'[t][s].in = end[t][s].in \/ end'[t][s].in \in {"error", "hangup"}
  /\ end'[Other(t)][s].sent = end[Other(t)][s].sent
  /\ Delivering(t, s)' <=> Delivering(t, s)
  /\ Delivering(t, s) => loop'[t] = loop[t]
  /\ Live(t, s)' => Live(t, s)
  /\ \A f \in OnWire(Other(t))' : f.id = s =>
       f \in OnWire(Other(t)) \/ (f.type # "data" /\ f.n = end[Other(t)][s].sent)
  /\ \A f \in OnWire(Other(t)) : f.id = s /\ f.type = "data" => f \in OnWire(Other(t))'

LEMMA ReceivedFacts ==
  ASSUME end \in Ends, NEW t \in Sides, NEW s \in Streams
  PROVE  /\ Len(end[t][s].got) \in Nat /\ Len(end[t][s].reads) \in Nat
         /\ Received(t, s) \in Nat
         /\ Delivering(t, s) => Received(t, s) = Len(end[t][s].got) + Len(end[t][s].reads) + 1
         /\ ~Delivering(t, s) => Received(t, s) = Len(end[t][s].got) + Len(end[t][s].reads)
<1>1. Len(end[t][s].got) \in Nat /\ Len(end[t][s].reads) \in Nat
  BY EndFacts, LenProperties
<1> DEFINE a == Len(end[t][s].got)
           b == Len(end[t][s].reads)
<1>2. ASSUME Delivering(t, s) PROVE Received(t, s) = a + b + 1
  BY <1>2 DEF Received
<1>3. ASSUME ~Delivering(t, s) PROVE Received(t, s) = a + b
  BY <1>3 DEF Received
<1> HIDE DEF a, b
<1>4. a \in Nat /\ b \in Nat
  BY <1>1 DEF a, b
<1>5. a + b \in Nat /\ a + b + 1 \in Nat
  BY <1>4
<1>6. Received(t, s) \in Nat
  BY <1>2, <1>3, <1>5, Zenon
<1> QED BY <1>1, <1>2, <1>3, <1>6 DEF a, b

LEMMA LevelKept ==
  ASSUME NEW t \in Sides, NEW s \in Streams, Level(t, s)
  PROVE  /\ FlowOf(t, s) => FlowOf(t, s)'
         /\ GaplessOf(t, s) => GaplessOf(t, s)'
         /\ OrderOf(t, s) => OrderOf(t, s)'
<1>1. Received(t, s)' = Received(t, s)
  BY DEF Level, Received, SameFlow
<1>2. ASSUME FlowOf(t, s) PROVE FlowOf(t, s)'
  <2> SUFFICES ASSUME t \in up, Live(t, s)
               PROVE  /\ Received(t, s) <= end[Other(t)][s].sent
                      /\ \A m \in Nat : Received(t, s) < m /\ m <= end[Other(t)][s].sent =>
                           Data(s, m) \in OnWire(Other(t))'
                      /\ \A f \in OnWire(Other(t))' : f.id = s =>
                           /\ Received(t, s) <= f.n
                           /\ f.type = "data" => Received(t, s) < f.n
    BY <1>1 DEF FlowOf, Level
  <2>1. \A m \in Nat : Received(t, s) < m /\ m <= end[Other(t)][s].sent =>
          Data(s, m) \in OnWire(Other(t))'
    BY <1>2, FrameFacts DEF FlowOf, Level
  <2> QED BY <1>2, <2>1 DEF FlowOf, Level
<1>3. ASSUME GaplessOf(t, s) PROVE GaplessOf(t, s)'
  BY <1>3 DEF GaplessOf, Level, SameFlow
<1>4. ASSUME OrderOf(t, s) PROVE OrderOf(t, s)'
  BY <1>4 DEF OrderOf, Level, SameFlow
<1> QED BY <1>2, <1>3, <1>4

LEMMA LevelApart ==
  ASSUME Shape, Shape', NEW t \in Sides, NEW r \in Streams, Apart(r)
  PROVE  Level(t, r)
<1>1. Other(t) \in Sides /\ "relay" \in Sides
  BY SideFacts
<1>2. /\ \A u \in Sides : \A f \in OnWire(u) : f \in Frame
      /\ \A u \in Sides : \A f \in OnWire(u)' : f \in Frame
  BY Frames DEF OnWire, Shape
<1>3. OpenOnWire(r)' => OpenOnWire(r)
  BY <1>1, <1>2 DEF Apart, OpenOnWire
<1> QED BY <1>1, <1>2, <1>3 DEF Apart, Level, SameFlow, Delivering, On, Live

Uneven(t, s) ==
  \/ WriteData(Other(t), s) \/ CopyIn(t, s)
  \/ PipeCloses(t, s) \/ (DialFails(s) /\ t = "tunnel")
  \/ InEnds(t, s) /\ end'[t][s].in = "eof"
  \/ (ReadData(t) \/ ReadClose(t)) /\ Head(wire[Other(t)]).id = s
  \/ Deliver(t) /\ loop[t].f.id = s
  \/ Open(s) /\ t = "relay"
  \/ WriteOpen(s) /\ t = "tunnel"

LEMMA LevelStep ==
  ASSUME Shape, WireInv, OpeningInv, NEW s \in Streams, About(s), NEW t \in Sides
  PROVE  Level(t, s) \/ Uneven(t, s)
<1>0. /\ end \in Ends /\ streams \in [Sides -> SUBSET Streams] /\ loop \in Loops
      /\ "relay" \in Sides /\ "tunnel" \in Sides /\ Other(t) \in Sides /\ Other(t) # t
      /\ Other("relay") = "tunnel" /\ Other("tunnel") = "relay" /\ Other(Other(t)) = t
      /\ OpeningOf(s)
  BY SideFacts DEF Shape, OpeningInv
(* Steps at one end that leave the connection alone. *)
<1>1. ASSUME NEW side \in Sides, UNCHANGED <<up, wire, loop>>, Elsewhere(side, s), SameFlow(side, s),
             end'[side][s].sent = end[side][s].sent,
             end'[side][s].in = end[side][s].in \/ end'[side][s].in \in {"error", "hangup"},
             s \in streams'[t] => s \in streams[t]
      PROVE  Level(t, s)
  BY <1>0, <1>1 DEF Level, Elsewhere, SameFlow, Delivering, Live, OnWire, OpenOnWire
<1>2. ASSUME Accept, Head(accept) = s PROVE Level(t, s)
  <2>1. SetEnd("tunnel", s, "pipe", "dialing") /\ UNCHANGED <<up, streams, wire, loop>>
    BY <1>2, AcceptStep DEF Accept
  <2> QED BY <1>0, <1>1, <2>1, SetPipe
<1>3. ASSUME NEW side \in Sides, ArmWrite(side, s) \/ OutEnds(side, s) PROVE Level(t, s)
  BY <1>0, <1>1, <1>3, SetOut DEF ArmWrite, OutEnds
<1>4. ASSUME NEW side \in Sides, InEnds(side, s), ~(t = side /\ end'[side][s].in = "eof")
      PROVE  Level(t, s)
  <2>1. PICK v \in {"eof", "error", "hangup"} : SetEnd(side, s, "in", v)
    BY <1>4 DEF InEnds
  <2>2. /\ UNCHANGED <<up, streams, wire, loop>> /\ Elsewhere(side, s) /\ SameFlow(side, s)
        /\ end'[side][s].sent = end[side][s].sent /\ end'[side][s].in = v
    BY <1>0, <1>4, <2>1, SetIn DEF InEnds
  <2>3. CASE t = side
    BY <1>0, <1>1, <1>4, <2>2, <2>3
  <2>4. CASE t # side
    BY <1>0, <2>2, <2>4, SideFacts
       DEF Level, Elsewhere, SameFlow, Delivering, Live, OnWire, OpenOnWire
  <2> QED BY <2>3, <2>4
<1>5. ASSUME DialLocal(s) \/ OpenFails(s) \/ (Open(s) /\ t = "tunnel") PROVE Level(t, s)
  <2>1. CASE DialLocal(s)
    BY <1>0, <1>1, <2>1, SetPipe DEF DialLocal
  <2>2. CASE OpenFails(s)
    BY <1>0, <1>1, <2>2, SetPipe DEF OpenFails
  <2>3. CASE Open(s) /\ t = "tunnel"
    BY <1>0, <1>1, <2>3, SetPipe DEF Open
  <2> QED BY <1>5, <2>1, <2>2, <2>3
(* At the other end, whatever the step does to this one. *)
<1>6. ASSUME NEW side \in Sides, t = Other(side), UNCHANGED <<up, wire>>, Elsewhere(side, s),
             end'[side][s].sent = end[side][s].sent,
             streams'[t] = streams[t], loop'[t] = loop[t]
      PROVE  Level(t, s)
  BY <1>0, <1>6, SideFacts DEF Level, Elsewhere, SameFlow, Delivering, Live, OnWire, OpenOnWire
<1>7. ASSUME NEW side \in Sides, CloseStream(side, s), UNCHANGED <<up, wire, loop>>, t # side
      PROVE  Level(t, s)
  BY <1>0, <1>6, <1>7, CloseStep, SideFacts
<1>8. ASSUME NEW side \in Sides, CopyIn(side, s), t # side PROVE Level(t, s)
  BY <1>0, <1>6, <1>8, CopyStep, SideFacts
<1>9. ASSUME NEW side \in Sides, Deliver(side), loop[side].f.id = s, t # side PROVE Level(t, s)
  <2>1. /\ UNCHANGED <<up, streams, wire>> /\ Elsewhere(side, s)
        /\ end'[side][s].sent = end[side][s].sent /\ loop'[Other(side)] = loop[Other(side)]
    BY <1>9, DeliverStep
  <2> QED BY <1>6, <1>9, <2>1, SideFacts
(* A frame of this side is read. *)
<1>10. ASSUME NEW side \in Sides, t = Other(side), UNCHANGED up, OnWire(side)' = OnWire(side),
              OnWire(t)' \subseteq OnWire(t), Elsewhere(side, s),
              end'[side][s].sent = end[side][s].sent,
              streams'[t] = streams[t], loop'[t] = loop[t]
       PROVE  Level(t, s)
  <2>1. OpenOnWire(s)' => OpenOnWire(s)
    BY <1>0, <1>10, SideFacts DEF OpenOnWire
  <2> QED BY <1>0, <1>10, <2>1, SideFacts DEF Level, Elsewhere, SameFlow, Delivering, Live
<1>11. ASSUME NEW side \in Sides, ReadData(side) \/ ReadClose(side), Head(wire[Other(side)]).id = s,
              t # side
       PROVE  Level(t, s)
  <2> DEFINE f == Head(wire[Other(side)])
  <2>1. /\ f \in Frame /\ OnWire(side)' = OnWire(side)
        /\ OnWire(Other(side))' \subseteq OnWire(Other(side))
    BY <1>11, ReadFrame DEF ReadData, ReadClose
  <2>2. CASE ReadData(side)
    <3>1. UNCHANGED <<up, streams, end>> /\ loop'[Other(side)] = loop[Other(side)]
      BY <2>1, <2>2, ReadDataStep
    <3> QED BY <1>10, <1>11, <2>1, <3>1, SideFacts DEF Elsewhere
  <2>3. CASE ReadClose(side)
    <3>1. /\ UNCHANGED <<up, loop>> /\ Elsewhere(side, s)
          /\ streams'[Other(side)] = streams[Other(side)]
          /\ end'[side][s].sent = end[side][s].sent
      BY <1>11, <2>1, <2>3, ReadCloseStep
    <3> QED BY <1>10, <1>11, <2>1, <3>1, SideFacts
  <2> QED BY <1>11, <2>2, <2>3
<1>12. ASSUME NEW side \in Sides, ReadOpen(side), Head(wire[Other(side)]).id = s PROVE Level(t, s)
  <2> DEFINE f == Head(wire["relay"])
  <2>1. side = "tunnel" /\ Other(side) = "relay"
    BY <1>12, ReadFrame, SideFacts DEF ReadOpen
  <2>2. /\ f \in Frame /\ f.id = s /\ f.type = "open" /\ f \in OnWire("relay")
        /\ loop["tunnel"].at = "read"
        /\ OnWire("tunnel")' = OnWire("tunnel")
        /\ OnWire("relay") = OnWire("relay")' \union {f}
    BY <1>0, <1>12, <2>1, ReadFrame DEF ReadOpen
  <2>3. /\ up' = up /\ end' = end
        /\ \/ /\ streams'["relay"] = streams["relay"]
              /\ UNCHANGED loop
           \/ /\ streams' = streams
              /\ loop'["relay"] = loop["relay"] /\ loop'["tunnel"].at = "answer"
    BY <1>12, <2>1, <2>2, ReadOpenStep
  <2>4. OpenOnWire(s)
    BY <2>2 DEF OpenOnWire
  <2> HIDE DEF f
  <2>5. CASE t = "relay"
    BY <1>0, <2>2, <2>3, <2>5 DEF Level, SameFlow, Delivering, Live
  <2>6. CASE t = "tunnel"
    BY <1>0, <2>2, <2>3, <2>4, <2>6 DEF Level, SameFlow, Delivering, Live
  <2> QED BY <1>0, <2>5, <2>6, SideFacts
(* A frame is written. *)
<1>13. ASSUME NEW side \in Sides, NEW g \in Frame, g.id = s, Wrote(side, g), UNCHANGED <<up, streams>>,
              SameFlow(side, s), SameFlow(Other(side), s),
              end'[side][s].in = end[side][s].in, end'[Other(side)][s].in = end[Other(side)][s].in,
              end'[Other(side)][s].sent = end[Other(side)][s].sent,
              \A u \in Sides : /\ Delivering(u, s)' <=> Delivering(u, s)
                               /\ Delivering(u, s) => loop'[u] = loop[u],
              g.type = "open" => t = side,
              t = side \/ (g.type # "data" /\ g.n = end[side][s].sent /\ end'[side][s].sent = end[side][s].sent)
       PROVE  Level(t, s)
  <2>1. g.type # "open" => (OpenOnWire(s)' => OpenOnWire(s))
    BY <1>0, <1>13, SideFacts DEF Wrote, OpenOnWire
  <2>2. CASE t = side
    <3>1. OnWire(Other(t))' = OnWire(Other(t))
      BY <1>13, <2>2 DEF Wrote
    <3>2. t = "tunnel" => OnWire("relay")' = OnWire("relay")
      BY <1>0, <3>1
    <3> QED BY <1>13, <2>2, <3>1, <3>2 DEF Level, Live, OpenOnWire
  <2>3. CASE t # side
    <3>1. t = Other(side) /\ side = Other(t)
      BY <1>0, <2>3, SideFacts
    <3>2. OnWire(side) \subseteq OnWire(side)' /\ OnWire(side)' \subseteq OnWire(side) \union {g}
      BY <1>13 DEF Wrote
    <3> QED BY <1>13, <2>1, <2>3, <3>1, <3>2 DEF Level, Live
  <2> QED BY <2>2, <2>3
<1>14. ASSUME NEW side \in Sides, Answer(side), loop[side].f.id = s PROVE Level(t, s)
  <2> DEFINE g == CloseFrame(s, end[side][s].sent)
  <2>1. /\ UNCHANGED <<up, streams, accept, end>> /\ loop[side].at = "answer"
        /\ loop'[side].at = "read" /\ loop'[Other(side)] = loop[Other(side)]
        /\ Wrote(side, g)
    BY <1>14, AnswerStep
  <2>2. g \in Frame /\ g.id = s /\ g.type = "close" /\ g.n = end[side][s].sent
    BY <1>0, FrameFacts, EndFacts
  <2> HIDE DEF g
  <2> QED BY <1>13, <2>1, <2>2, SideFacts DEF Delivering, SameFlow
<1>15. ASSUME NEW side \in Sides, WriteClose(side, s) PROVE Level(t, s)
  <2> DEFINE g == CloseFrame(s, end[side][s].sent)
  <2>1. /\ UNCHANGED <<up, streams, accept, loop>> /\ Elsewhere(side, s) /\ Wrote(side, g)
        /\ SameFlow(side, s) /\ end'[side][s].in = end[side][s].in
        /\ end'[side][s].sent = end[side][s].sent
    BY <1>0, <1>15, WriteCloseStep, SetPipe
  <2>2. g \in Frame /\ g.id = s /\ g.type = "close" /\ g.n = end[side][s].sent
    BY <1>0, FrameFacts, EndFacts
  <2>3. end'[Other(side)][s] = end[Other(side)][s]
    BY <2>1, SideFacts DEF Elsewhere
  <2> HIDE DEF g
  <2> QED BY <1>13, <2>1, <2>2, <2>3 DEF Delivering, SameFlow
<1>16. ASSUME NEW side \in Sides, WriteData(side, s), t = side PROVE Level(t, s)
  <2> DEFINE g == Data(s, end[side][s].sent + 1)
  <2>1. g \in Frame /\ g.id = s /\ g.type = "data"
    <3>1. end[side][s].sent + 1 \in Nat
      BY <1>0, EndFacts
    <3> QED BY <3>1, FrameFacts
  <2>2. /\ UNCHANGED <<up, streams, accept, loop>> /\ Elsewhere(side, s) /\ Wrote(side, g)
        /\ SameFlow(side, s) /\ end'[side][s].in = end[side][s].in
    BY <1>0, <1>16, <2>1, SendStep, WroteOrClosed
  <2>3. end'[Other(side)][s] = end[Other(side)][s]
    BY <2>2, SideFacts DEF Elsewhere
  <2> HIDE DEF g
  <2> QED BY <1>13, <1>16, <2>1, <2>2, <2>3 DEF Delivering, SameFlow
<1>17. ASSUME WriteOpen(s), t = "relay" PROVE Level(t, s)
  <2>1. /\ UNCHANGED <<up, streams, accept, loop>> /\ Elsewhere("relay", s)
        /\ Wrote("relay", OpenFrame(s)) /\ OpenFrame(s) \in Frame /\ OpenFrame(s).id = s
        /\ OpenFrame(s).type = "open"
        /\ SameFlow("relay", s) /\ end'["relay"][s].in = end["relay"][s].in
    BY <1>0, <1>17, WriteOpenStep, SetPipe, FrameFacts
  <2>2. end'["tunnel"][s] = end["tunnel"][s]
    BY <1>0, <2>1 DEF Elsewhere
  <2> QED BY <1>0, <1>13, <1>17, <2>1, <2>2 DEF Delivering, SameFlow
<1>18. ASSUME NEW side \in Sides, PipeCloses(side, s), t # side PROVE Level(t, s)
  BY <1>7, <1>18 DEF PipeCloses
<1>19. ASSUME DialFails(s), t # "tunnel" PROVE Level(t, s)
  BY <1>0, <1>7, <1>19 DEF DialFails
<1>20. t = "relay" \/ t = "tunnel"
  BY <1>0, SideFacts
<1>21. \A side \in Sides : t # side => side = Other(t)
  BY SideFacts
<1> QED BY <1>2, <1>3, <1>4, <1>5, <1>8, <1>9, <1>11, <1>12, <1>14, <1>15, <1>16, <1>17, <1>18,
           <1>19, <1>20, <1>21 DEF About, Uneven

LEMMA Numbers ==
  ASSUME Shape, NEW t \in Sides, NEW s \in Streams
  PROVE  /\ Other(t) \in Sides /\ Other(t) # t /\ Other(Other(t)) = t
         /\ "relay" \in Sides /\ "tunnel" \in Sides
         /\ Other("relay") = "tunnel" /\ Other("tunnel") = "relay"
         /\ end \in Ends /\ streams \in [Sides -> SUBSET Streams] /\ loop \in Loops
         /\ end[t][s].got \in Seq(Nat) /\ end[t][s].reads \in Seq(Nat)
         /\ Len(end[t][s].got) \in Nat /\ Len(end[t][s].reads) \in Nat
         /\ ToSet(end[t][s].got) \subseteq Nat /\ ToSet(end[t][s].reads) \subseteq Nat
         /\ end[Other(t)][s].sent \in Nat /\ end[t][s].due \in Nat
         /\ end[t][s].eof \in BOOLEAN /\ end[t][s].closed \in BOOLEAN
         /\ Received(t, s) \in Nat
         /\ Delivering(t, s) => loop[t].f \in Frame /\ loop[t].f.n \in Nat
         /\ \A f \in OnWire(Other(t)) : f \in Frame /\ f.n \in Nat
<1>1. end \in Ends /\ streams \in [Sides -> SUBSET Streams] /\ loop \in Loops /\ wire \in Wires
  BY DEF Shape
<1>2. Other(t) \in Sides
  BY SideFacts
<1>3. /\ end[t][s].got \in Seq(Nat) /\ end[t][s].reads \in Seq(Nat)
      /\ end[Other(t)][s].sent \in Nat /\ end[t][s].due \in Nat
      /\ end[t][s].eof \in BOOLEAN /\ end[t][s].closed \in BOOLEAN
  BY <1>1, <1>2, EndFacts
<1>4. /\ Len(end[t][s].got) \in Nat /\ Len(end[t][s].reads) \in Nat
      /\ ToSet(end[t][s].got) \subseteq Nat /\ ToSet(end[t][s].reads) \subseteq Nat
  BY <1>3, SetOf
<1>5. Delivering(t, s) => loop[t].f \in Frame /\ loop[t].f.n \in Nat
  BY <1>1, LoopFacts, FrameFacts DEF Delivering
<1>6. \A f \in OnWire(Other(t)) : f \in Frame /\ f.n \in Nat
  BY <1>1, <1>2, Frames, FrameFacts DEF OnWire
<1>7. Received(t, s) \in Nat
  BY <1>1, ReceivedFacts
<1> QED BY <1>1, <1>3, <1>4, <1>5, <1>6, <1>7, SideFacts

Intact(t, s) == FlowOf(t, s) /\ GaplessOf(t, s) /\ OrderOf(t, s)

(* A payload is written by the other side. *)
LEMMA IntactSend ==
  ASSUME Shape, WireInv, NEW t \in Sides, NEW s \in Streams, Intact(t, s), WriteData(Other(t), s)
  PROVE  Intact(t, s)'
<1> DEFINE u == Other(t)
           n == end[u][s].sent + 1
           g == Data(s, n)
           k == Received(t, s)
<1>0. /\ u \in Sides /\ u # t /\ Other(u) = t /\ n \in Nat /\ n = end[u][s].sent + 1
      /\ end \in Ends /\ wire \in Wires /\ end[u][s].sent \in Nat /\ k \in Nat
      /\ ToSet(end[t][s].got) \subseteq Nat /\ ToSet(end[t][s].reads) \subseteq Nat
      /\ Delivering(t, s) => loop[t].f.n \in Nat
      /\ \A f \in OnWire(u) : f \in Frame /\ f.n \in Nat
  BY Numbers DEF Shape
<1>1. g \in Frame /\ g.id = s /\ g.type = "data" /\ g.n = n
  BY <1>0, FrameFacts
<1>2. /\ UNCHANGED <<up, streams, loop>> /\ Elsewhere(u, s) /\ Write(u, g)
      /\ end'[u][s].sent = n
  BY <1>0, SendStep
<1> HIDE DEF g
<1>3. /\ OnWire(t)' = OnWire(t)
      /\ \/ t \notin up /\ OnWire(u)' = OnWire(u)
         \/ t \in up /\ OnWire(u)' = OnWire(u) \union {g}
  BY <1>0, <1>1, <1>2, WriteStep
<1>4. end'[t][s] = end[t][s]
  BY <1>0, <1>2 DEF Elsewhere
<1>5. Received(t, s)' = k /\ (Delivering(t, s)' <=> Delivering(t, s))
  BY <1>2, <1>4 DEF Received, Delivering
<1>6. FlowOf(t, s)'
  <2> SUFFICES ASSUME t \in up, Live(t, s)'
               PROVE  /\ k <= n
                      /\ \A m \in Nat : k < m /\ m <= n => Data(s, m) \in OnWire(u)'
                      /\ \A f \in OnWire(u)' : f.id = s => k <= f.n /\ (f.type = "data" => k < f.n)
    BY <1>2, <1>5 DEF FlowOf
  <2>1. OpenOnWire(s)' => OpenOnWire(s)
    BY <1>0, <1>1, <1>3, SideFacts DEF OpenOnWire
  <2>2. Live(t, s)
    BY <1>2, <2>1 DEF Live
  <2>3. /\ k <= end[u][s].sent
        /\ \A m \in Nat : k < m /\ m <= end[u][s].sent => Data(s, m) \in OnWire(u)
        /\ \A f \in OnWire(u) : f.id = s => k <= f.n /\ (f.type = "data" => k < f.n)
    BY <2>2 DEF Intact, FlowOf
  <2>4. k <= n /\ k < n
    <3> HIDE DEF k
    <3> QED BY <1>0, <2>3
  <2>5. OnWire(u)' = OnWire(u) \union {g}
    BY <1>3
  <2>6. ASSUME NEW m \in Nat, k < m, m <= n PROVE Data(s, m) \in OnWire(u)'
    <3>1. m = n \/ m <= end[u][s].sent
      BY <1>0, <2>6
    <3> QED BY <2>3, <2>5, <2>6, <3>1 DEF g
  <2> HIDE DEF k
  <2> QED BY <1>1, <2>3, <2>4, <2>5, <2>6
<1>7. GaplessOf(t, s)'
  BY <1>2, <1>4, <1>5 DEF Intact, GaplessOf
<1>8. OrderOf(t, s)'
  <2>1. OrderOf(t, s)
    BY DEF Intact
  <2>2. ASSUME NEW x \in ToSet(end[t][s].got) \union ToSet(end[t][s].reads)
        PROVE  x <= n /\ x < n
    <3>1. x \in Nat /\ x <= end[u][s].sent
      BY <1>0, <2>1 DEF OrderOf
    <3> QED BY <1>0, <3>1
  <2>3. Delivering(t, s) => loop[t].f.n <= n /\ loop[t].f.n < n
    <3>1. Delivering(t, s) => loop[t].f.n \in Nat /\ loop[t].f.n <= end[u][s].sent
      BY <1>0, <2>1 DEF OrderOf
    <3> QED BY <1>0, <3>1
  <2>4. \A f \in OnWire(u)' : f \in OnWire(u) \/ f = g
    BY <1>3
  <2> HIDE DEF n
  <2> QED BY <1>1, <1>2, <1>4, <1>5, <2>1, <2>2, <2>3, <2>4 DEF OrderOf
<1> QED BY <1>6, <1>7, <1>8 DEF Intact

(* What is received is read. *)
LEMMA IntactCopy ==
  ASSUME Shape, NEW t \in Sides, NEW s \in Streams, Intact(t, s), CopyIn(t, s)
  PROVE  Intact(t, s)'
<1> DEFINE got == end[t][s].got
           reads == end[t][s].reads
           got2 == end'[t][s].got
           reads2 == end'[t][s].reads
           h == Head(reads)
<1>0. /\ end \in Ends /\ got \in Seq(Nat) /\ reads \in Seq(Nat) /\ reads # <<>>
      /\ Len(got) \in Nat /\ Len(reads) \in Nat
      /\ Other(t) \in Sides /\ Other(t) # t /\ "relay" \in Sides
  BY Numbers, CopyStep
<1>1. /\ UNCHANGED <<up, streams, wire, loop>> /\ Elsewhere(t, s)
      /\ got2 = Append(got, h) /\ reads2 = Tail(reads)
      /\ end'[t][s].eof = end[t][s].eof /\ end'[t][s].due = end[t][s].due
      /\ end'[t][s].closed = end[t][s].closed
      /\ end[t][s].in = "run" /\ end'[t][s].in = "run"
  BY <1>0, CopyStep
<1>2. /\ h \in Nat /\ reads2 \in Seq(Nat) /\ Len(reads2) = Len(reads) - 1
      /\ ToSet(reads) = ToSet(reads2) \union {h}
  BY <1>0, <1>1, TailSet
<1>3. /\ Len(got2) = Len(got) + 1 /\ ToSet(got2) = ToSet(got) \union {h}
  BY <1>0, <1>1, <1>2, AppendSet
<1>4. end'[Other(t)][s] = end[Other(t)][s]
  BY <1>0, <1>1 DEF Elsewhere
<1>5. OnWire(Other(t))' = OnWire(Other(t)) /\ (Delivering(t, s)' <=> Delivering(t, s))
      /\ (Live(t, s)' <=> Live(t, s))
  BY <1>1 DEF OnWire, Delivering, Live, OpenOnWire
<1>6. Len(got2) + Len(reads2) = Len(got) + Len(reads)
  <2> HIDE DEF got, got2, reads, reads2
  <2> QED BY <1>0, <1>2, <1>3
<1>7. Received(t, s)' = Received(t, s)
  BY <1>5, <1>6, Zenon DEF Received
<1>8. FlowOf(t, s)'
  BY <1>1, <1>4, <1>5, <1>7 DEF Intact, FlowOf
<1>9. GaplessOf(t, s)'
  <2> SUFFICES ASSUME t \in up
               PROVE  /\ Counts(got2, 0) /\ Counts(reads2, Len(got2))
                      /\ Delivering(t, s) /\ ~end[t][s].closed =>
                           loop[t].f.n = Len(got2) + Len(reads2) + 1
                      /\ end[t][s].eof /\ ~end[t][s].closed =>
                           Len(got2) + Len(reads2) = end[t][s].due
    BY <1>1, <1>5 DEF GaplessOf
  <2>1. /\ Counts(got, 0) /\ Counts(reads, Len(got))
        /\ Delivering(t, s) /\ ~end[t][s].closed => loop[t].f.n = Len(got) + Len(reads) + 1
        /\ end[t][s].eof /\ ~end[t][s].closed => Len(got) + Len(reads) = end[t][s].due
    BY <1>1 DEF Intact, GaplessOf
  <2>2. Counts(reads2, Len(got) + 1) /\ h = Len(got) + 1
    BY <1>0, <1>1, <2>1, CountsTail
  <2>3. Counts(got2, 0)
    <3>1. h = 0 + Len(got) + 1
      BY <1>0, <2>2
    <3> QED BY <1>0, <1>1, <1>2, <2>1, <3>1, CountsAppend
  <2> QED BY <1>3, <1>6, <2>1, <2>2, <2>3
<1>10. OrderOf(t, s)'
  <2>1. /\ Rising(got) /\ Rising(reads)
        /\ \A x \in ToSet(got), y \in ToSet(reads) : x < y
    BY DEF Intact, OrderOf
  <2>2. Rising(reads2) /\ \A y \in ToSet(reads2) : h < y
    BY <1>0, <1>1, <2>1, RisingTail
  <2>3. Rising(got2)
    BY <1>0, <1>1, <1>2, <2>1, RisingAppend
  <2>4. ToSet(got2) \union ToSet(reads2) = ToSet(got) \union ToSet(reads)
    BY <1>2, <1>3
  <2>5. \A x \in ToSet(got2), y \in ToSet(reads2) : x < y
    BY <1>2, <1>3, <2>1, <2>2
  <2> HIDE DEF got2, reads2
  <2>6. /\ \A x \in ToSet(got2) \union ToSet(reads2) :
             /\ x <= end[Other(t)][s].sent
             /\ Delivering(t, s) => x < loop[t].f.n
             /\ \A f \in OnWire(Other(t)) : f.id = s /\ f.type = "data" => x < f.n
        /\ Delivering(t, s) =>
             /\ loop[t].f.n <= end[Other(t)][s].sent
             /\ \A f \in OnWire(Other(t)) : f.id = s /\ f.type = "data" => loop[t].f.n < f.n
    BY <2>4 DEF Intact, OrderOf
  <2> QED BY <1>1, <1>4, <1>5, <2>2, <2>3, <2>5, <2>6 DEF OrderOf, got2, reads2
<1> QED BY <1>8, <1>9, <1>10 DEF Intact

(* The stream is closed here. *)
LEMMA IntactClose ==
  ASSUME Shape, OpeningInv, NEW t \in Sides, NEW s \in Streams, Intact(t, s),
         PipeCloses(t, s) \/ (DialFails(s) /\ t = "tunnel")
  PROVE  Intact(t, s)'
<1>0. /\ end \in Ends /\ streams \in [Sides -> SUBSET Streams]
      /\ Other(t) \in Sides /\ Other(t) # t /\ "relay" \in Sides
      /\ end[t][s].got \in Seq(Nat) /\ Len(end[t][s].got) \in Nat
  BY Numbers
<1>1. /\ CloseStream(t, s) /\ UNCHANGED <<up, wire, loop>>
      /\ end[t][s].pipe # "none"
  BY DEF PipeCloses, DialFails
<1>2. /\ Elsewhere(t, s) /\ s \notin streams'[t]
      /\ end'[t][s].closed /\ end'[t][s].reads = <<>> /\ end'[t][s].got = end[t][s].got
      /\ end'[t][s].eof = end[t][s].eof /\ end'[t][s].due = end[t][s].due
      /\ end'[t][s].in = "eof" <=> end[t][s].in = "eof"
  BY <1>0, <1>1, CloseStep
<1>3. OnWire(Other(t))' = OnWire(Other(t)) /\ (Delivering(t, s)' <=> Delivering(t, s))
      /\ (OpenOnWire(s)' <=> OpenOnWire(s))
  BY <1>1 DEF OnWire, Delivering, OpenOnWire
<1>4. ~Live(t, s)'
  BY <1>1, <1>2, <1>3 DEF Live, OpeningInv, OpeningOf
<1>5. end'[Other(t)][s] = end[Other(t)][s]
  BY <1>0, <1>2 DEF Elsewhere
<1>6. FlowOf(t, s)'
  BY <1>4 DEF FlowOf
<1>7. GaplessOf(t, s)'
  BY <1>0, <1>1, <1>2, EmptyFacts DEF Intact, GaplessOf
<1>8. OrderOf(t, s)'
  BY <1>1, <1>2, <1>3, <1>5, EmptyFacts DEF Intact, OrderOf
<1> QED BY <1>6, <1>7, <1>8 DEF Intact

(* A copy comes to the end of what was sent. *)
LEMMA IntactEof ==
  ASSUME Shape, ClosedInv, NEW t \in Sides, NEW s \in Streams, Intact(t, s),
         InEnds(t, s), end'[t][s].in = "eof"
  PROVE  Intact(t, s)'
<1>0. end \in Ends /\ Other(t) \in Sides /\ Other(t) # t /\ Len(end[t][s].got) \in Nat
  BY Numbers
<1>1. /\ UNCHANGED <<up, streams, wire, loop>> /\ end[t][s].pipe = "open" /\ end[t][s].in = "run"
      /\ \/ end[t][s].eof /\ end[t][s].reads = <<>> /\ SetEnd(t, s, "in", "eof")
         \/ \E v \in {"error", "hangup"} : SetEnd(t, s, "in", v)
  BY DEF InEnds
<1>2. end[t][s].eof /\ end[t][s].reads = <<>> /\ Elsewhere(t, s) /\ SameFlow(t, s)
  <2>1. ASSUME NEW v \in {"error", "hangup"}, SetEnd(t, s, "in", v) PROVE FALSE
    BY <1>0, <2>1, SetIn
  <2> QED BY <1>0, <1>1, <2>1, SetIn
<1>3. end'[Other(t)][s] = end[Other(t)][s]
  BY <1>0, <1>2 DEF Elsewhere
<1>4. OnWire(Other(t))' = OnWire(Other(t)) /\ (Delivering(t, s)' <=> Delivering(t, s))
      /\ (Live(t, s)' <=> Live(t, s))
  BY <1>1 DEF OnWire, Delivering, Live, OpenOnWire
<1>5. Received(t, s)' = Received(t, s)
  BY <1>2, <1>4 DEF Received, SameFlow
<1>6. FlowOf(t, s)'
  BY <1>1, <1>3, <1>4, <1>5 DEF Intact, FlowOf
<1>7. OrderOf(t, s)'
  BY <1>1, <1>2, <1>3, <1>4 DEF Intact, OrderOf, SameFlow
<1>8. ~end[t][s].closed
  BY <1>1 DEF ClosedInv, ClosedOf
<1>9. t \in up => Len(end[t][s].got) = end[t][s].due
  <2>1. t \in up => Len(end[t][s].got) + Len(end[t][s].reads) = end[t][s].due
    BY <1>1, <1>2, <1>8 DEF Intact, GaplessOf
  <2>2. Len(end[t][s].reads) = 0
    BY <1>2, EmptyFacts
  <2> QED BY <1>0, <2>1, <2>2
<1>10. GaplessOf(t, s)'
  BY <1>1, <1>2, <1>4, <1>9 DEF Intact, GaplessOf, SameFlow
<1> QED BY <1>6, <1>7, <1>10 DEF Intact

(* The next frame of a stream in the table carries on where it stands.     *)
LEMMA NextFrame ==
  ASSUME Shape, WireInv, NEW t \in Sides, FlowInv, NEW type, NextIs(t, type), Consume(t),
         t \in up, Head(wire[Other(t)]).id \in streams[t]
  PROVE  LET f == Head(wire[Other(t)])
         IN /\ type = "data" => f.n = Received(t, f.id) + 1
            /\ type = "close" => f.n = Received(t, f.id)
<1> DEFINE u == Other(t)
           f == Head(wire[u])
           s == f.id
           k == Received(t, s)
<1>1. /\ f \in Frame /\ f \in OnWire(u) /\ f.type = type /\ f.n <= end[u][s].sent
      /\ OnWire(u) = OnWire(u)' \union {f}
      /\ \A g \in OnWire(u)' : g.id = s => f.n <= g.n /\ (g.type = "data" => f.n < g.n)
  BY ReadFrame
<1>2. s \in Streams /\ f.n \in Nat
  BY <1>1, FrameFacts
<1>3. k \in Nat /\ end[u][s].sent \in Nat
  BY <1>2, Numbers
<1>4. FlowOf(t, s) /\ Live(t, s)
  BY <1>2 DEF FlowInv, Live
<1>5. /\ k <= f.n /\ (type = "data" => k < f.n)
      /\ \A m \in Nat : k < m /\ m <= end[u][s].sent => Data(s, m) \in OnWire(u)
  BY <1>1, <1>4 DEF FlowOf
<1> HIDE DEF k
<1>6. ASSUME k < f.n, f.n # k + 1 \/ type # "data" PROVE FALSE
  <2>1. k + 1 \in Nat /\ k < k + 1 /\ k + 1 <= f.n
    BY <1>2, <1>3, <1>6
  <2>2. k + 1 <= end[u][s].sent
    BY <1>1, <1>2, <1>3, <2>1
  <2>3. Data(s, k + 1) \in OnWire(u)
    BY <1>5, <2>1, <2>2
  <2>4. Data(s, k + 1).id = s /\ Data(s, k + 1).type = "data" /\ Data(s, k + 1).n = k + 1
    BY <1>2, <2>1, FrameFacts
  <2>5. Data(s, k + 1) # f
    BY <1>1, <1>6, <2>4
  <2>6. Data(s, k + 1) \in OnWire(u)'
    BY <1>1, <2>3, <2>5
  <2>7. f.n < k + 1
    BY <1>1, <2>4, <2>6
  <2> HIDE DEF f
  <2> QED BY <1>2, <1>3, <2>1, <2>7
<1>7. type = "data" => f.n = k + 1
  BY <1>5, <1>6
<1>8. type = "close" => f.n = k
  <2> HIDE DEF f
  <2>1. ~(type = "close" /\ k < f.n)
    BY <1>6
  <2> QED BY <1>2, <1>3, <1>5, <2>1
<1> QED BY <1>7, <1>8 DEF k

(* A payload is read. *)
LEMMA IntactData ==
  ASSUME Shape, WireInv, FlowInv, NEW t \in Sides, NEW s \in Streams, Intact(t, s),
         ReadData(t), Head(wire[Other(t)]).id = s
  PROVE  Intact(t, s)'
<1> DEFINE u == Other(t)
           f == Head(wire[u])
           k == Received(t, s)
<1>0. /\ u \in Sides /\ u # t /\ Other(u) = t /\ end \in Ends /\ end[u][s].sent \in Nat /\ k \in Nat
      /\ Len(end[t][s].got) \in Nat /\ Len(end[t][s].reads) \in Nat
  BY Numbers
<1>1. /\ f \in Frame /\ f \in OnWire(u) /\ f.type = "data" /\ f.id = s /\ f.n <= end[u][s].sent
      /\ loop[t].at = "read"
      /\ OnWire(t)' = OnWire(t) /\ OnWire(u) = OnWire(u)' \union {f}
      /\ \A g \in OnWire(u)' : g.id = s => g.type # "open" /\ f.n <= g.n /\ (g.type = "data" => f.n < g.n)
  BY ReadFrame DEF ReadData
<1>2. f.n \in Nat
  BY <1>1, FrameFacts
<1>3. /\ UNCHANGED <<up, streams, end>> /\ loop'[t].f = f
      /\ s \in streams[t] => loop'[t].at = "deliver"
      /\ s \notin streams[t] => loop'[t].at = "answer"
  BY <1>1, ReadDataStep
<1>4. t \in up /\ s \in streams[t] => f.n = k + 1
  BY <1>1, NextFrame DEF ReadData
<1> HIDE DEF f, k
<1>5. ~Delivering(t, s) /\ k = Len(end[t][s].got) + Len(end[t][s].reads)
  BY <1>0, <1>1, ReceivedFacts DEF Delivering, k
<1>6. CASE s \in streams[t]
  <2>1. Delivering(t, s)' /\ loop'[t].f = f
    BY <1>1, <1>3, <1>6 DEF Delivering
  <2>2. Received(t, s)' = Len(end[t][s].got) + Len(end[t][s].reads) + 1
    BY <1>3, <2>1 DEF Received
  <2>3. t \in up => Received(t, s)' = f.n
    BY <1>4, <1>5, <1>6, <2>2
  <2>4. FlowOf(t, s)'
    <3> SUFFICES ASSUME t \in up
                 PROVE  /\ f.n <= end[u][s].sent
                        /\ \A m \in Nat : f.n < m /\ m <= end[u][s].sent => Data(s, m) \in OnWire(u)'
                        /\ \A g \in OnWire(u)' : g.id = s => f.n <= g.n /\ (g.type = "data" => f.n < g.n)
      BY <1>3, <2>3 DEF FlowOf
    <3>1. \A m \in Nat : k < m /\ m <= end[u][s].sent => Data(s, m) \in OnWire(u)
      BY <1>6 DEF Intact, FlowOf, Live, k
    <3>2. ASSUME NEW m \in Nat, f.n < m, m <= end[u][s].sent PROVE Data(s, m) \in OnWire(u)'
      <4>1. k < m
        BY <1>0, <1>2, <1>4, <1>6, <3>2
      <4>2. Data(s, m) # f
        <5>1. Data(s, m).n = m
          BY FrameFacts
        <5>2. f.n # m
          BY <1>2, <3>2
        <5> QED BY <5>1, <5>2
      <4> QED BY <1>1, <3>1, <3>2, <4>1, <4>2
    <3> QED BY <1>1, <3>2
  <2>5. GaplessOf(t, s)'
    <3>1. t \in up => f.n = Len(end[t][s].got) + Len(end[t][s].reads) + 1
      BY <1>4, <1>5, <1>6
    <3> QED BY <1>3, <2>1, <3>1 DEF Intact, GaplessOf
  <2>6. OrderOf(t, s)'
    BY <1>1, <1>3, <1>5, <2>1 DEF Intact, OrderOf
  <2> QED BY <2>4, <2>5, <2>6 DEF Intact
<1>7. CASE s \notin streams[t]
  <2>1. ~Delivering(t, s)'
    BY <1>3, <1>7 DEF Delivering
  <2>2. ~Live(t, s)'
    BY <1>1, <1>3, <1>7, SideFacts DEF Live, OpenOnWire
  <2>3. GaplessOf(t, s)'
    BY <1>3, <1>5, <2>1 DEF Intact, GaplessOf
  <2>4. OrderOf(t, s)'
    BY <1>1, <1>3, <2>1 DEF Intact, OrderOf
  <2> QED BY <2>2, <2>3, <2>4 DEF Intact, FlowOf
<1> QED BY <1>6, <1>7

(* A CLOSE is read. *)
LEMMA IntactReadClose ==
  ASSUME Shape, WireInv, FlowInv, ClosedInv, NEW t \in Sides, NEW s \in Streams, Intact(t, s),
         ReadClose(t), Head(wire[Other(t)]).id = s
  PROVE  Intact(t, s)'
<1> DEFINE u == Other(t)
           f == Head(wire[u])
<1>0. /\ u \in Sides /\ u # t /\ Other(u) = t /\ end \in Ends
      /\ Len(end[t][s].got) \in Nat /\ Len(end[t][s].reads) \in Nat
  BY Numbers
<1>1. /\ f \in Frame /\ f.id = s /\ loop[t].at = "read"
      /\ OnWire(t)' = OnWire(t) /\ OnWire(u) = OnWire(u)' \union {f}
      /\ \A g \in OnWire(u)' : g.id = s => g.type # "open"
  BY ReadFrame DEF ReadClose
<1>2. /\ UNCHANGED <<up, accept, loop>> /\ streams'[t] = streams[t] \ {s}
      /\ Elsewhere(t, s)
      /\ s \in streams[t] => end'[t][s].eof /\ end'[t][s].due = f.n
      /\ s \notin streams[t] => end' = end
      /\ end'[t][s].got = end[t][s].got /\ end'[t][s].reads = end[t][s].reads
      /\ end'[t][s].closed = end[t][s].closed /\ end'[t][s].in = end[t][s].in
  BY <1>1, ReadCloseStep
<1>3. t \in up /\ s \in streams[t] => f.n = Received(t, s)
  BY <1>1, NextFrame DEF ReadClose
<1> HIDE DEF f
<1>4. ~Delivering(t, s) /\ Received(t, s) = Len(end[t][s].got) + Len(end[t][s].reads)
  BY <1>0, <1>1, ReceivedFacts DEF Delivering
<1>5. ~Delivering(t, s)'
  BY <1>2, <1>4 DEF Delivering
<1>6. end'[u][s] = end[u][s]
  BY <1>0, <1>2 DEF Elsewhere
<1>7. FlowOf(t, s)'
  <2>1. ~Live(t, s)'
    BY <1>1, <1>2, SideFacts DEF Live, OpenOnWire
  <2> QED BY <2>1 DEF FlowOf
<1>8. OrderOf(t, s)'
  BY <1>1, <1>2, <1>5, <1>6 DEF Intact, OrderOf
<1>9. GaplessOf(t, s)'
  <2>1. CASE s \notin streams[t]
    BY <1>2, <1>4, <1>5, <2>1 DEF Intact, GaplessOf
  <2>2. CASE s \in streams[t]
    <3>1. ~end[t][s].eof
      BY <2>2 DEF ClosedInv, ClosedOf
    <3>2. t \in up => Len(end[t][s].got) + Len(end[t][s].reads) = f.n
      BY <1>3, <1>4, <2>2
    <3>3. end'[t][s].eof /\ end'[t][s].due = f.n
      BY <1>2, <2>2
    <3>4. t \in up => end[t][s].in # "eof"
      BY <3>1 DEF Intact, GaplessOf
    <3> QED BY <1>2, <1>5, <3>2, <3>3, <3>4 DEF Intact, GaplessOf
  <2> QED BY <2>1, <2>2
<1> QED BY <1>7, <1>8, <1>9 DEF Intact

(* A frame is delivered, or dropped. *)
LEMMA IntactDeliver ==
  ASSUME Shape, OpeningInv, ClosedInv, NEW t \in Sides, NEW s \in Streams, Intact(t, s),
         Deliver(t), loop[t].f.id = s
  PROVE  Intact(t, s)'
<1> DEFINE u == Other(t)
           got == end[t][s].got
           reads == end[t][s].reads
           n == loop[t].f.n
<1>1. /\ UNCHANGED <<up, streams, accept, wire>>
      /\ loop[t].at = "deliver" /\ loop'[t].at = "read"
      /\ Elsewhere(t, s)
      /\ end'[t][s].got = got /\ end'[t][s].eof = end[t][s].eof /\ end'[t][s].due = end[t][s].due
      /\ end'[t][s].closed = end[t][s].closed /\ end'[t][s].in = end[t][s].in
      /\ \/ ~end[t][s].closed /\ end'[t][s].reads = Append(reads, n)
         \/ (end[t][s].closed \/ t \notin up) /\ end' = end
  BY DeliverStep
<1>2. Delivering(t, s) /\ ~Delivering(t, s)'
  BY <1>1 DEF Delivering
<1>0. /\ u \in Sides /\ u # t /\ end \in Ends /\ end[u][s].sent \in Nat /\ n \in Nat
      /\ got \in Seq(Nat) /\ reads \in Seq(Nat)
      /\ Len(got) \in Nat /\ Len(reads) \in Nat
      /\ "tunnel" \in Sides
  BY <1>2, Numbers
<1>3. OnWire(u)' = OnWire(u) /\ (Live(t, s)' <=> Live(t, s))
  BY <1>1 DEF OnWire, Live, OpenOnWire
<1>4. end'[u][s] = end[u][s]
  BY <1>0, <1>1 DEF Elsewhere
<1>5. CASE ~end[t][s].closed /\ end'[t][s].reads = Append(reads, n)
  <2>1. /\ Len(Append(reads, n)) = Len(reads) + 1
        /\ ToSet(Append(reads, n)) = ToSet(reads) \union {n}
    BY <1>0, AppendSet
  <2>2. Received(t, s)' = Received(t, s)
    <3>1. Received(t, s)' = Len(got) + (Len(reads) + 1)
      BY <1>1, <1>2, <1>5, <2>1 DEF Received
    <3>2. Received(t, s) = Len(got) + Len(reads) + 1
      BY <1>2 DEF Received
    <3> HIDE DEF got, reads
    <3> QED BY <1>0, <3>1, <3>2
  <2>3. FlowOf(t, s)'
    BY <1>1, <1>3, <1>4, <2>2 DEF Intact, FlowOf
  <2>4. ~end[t][s].eof
    BY <1>2, <1>5 DEF ClosedInv, ClosedOf
  <2>5. GaplessOf(t, s)'
    <3> SUFFICES ASSUME t \in up
                 PROVE  /\ Counts(got, 0) /\ Counts(Append(reads, n), Len(got))
                        /\ end[t][s].in # "eof"
      BY <1>1, <1>2, <1>5, <2>4 DEF GaplessOf
    <3>1. /\ Counts(got, 0) /\ Counts(reads, Len(got)) /\ n = Len(got) + Len(reads) + 1
          /\ end[t][s].in # "eof"
      BY <1>2, <1>5, <2>4 DEF Intact, GaplessOf
    <3> QED BY <1>0, <3>1, CountsAppend
  <2>6. OrderOf(t, s)'
    <3>1. /\ Rising(got) /\ Rising(reads)
          /\ \A x \in ToSet(got) \union ToSet(reads) : x < n
          /\ \A x \in ToSet(got), y \in ToSet(reads) : x < y
      BY <1>2 DEF Intact, OrderOf
    <3>2. Rising(Append(reads, n))
      BY <1>0, <3>1, RisingAppend
    <3>3. \A x \in ToSet(got), y \in ToSet(Append(reads, n)) : x < y
      BY <2>1, <3>1
    <3>4. \A x \in ToSet(got) \union ToSet(Append(reads, n)) :
            /\ x <= end[u][s].sent
            /\ \A f \in OnWire(u) : f.id = s /\ f.type = "data" => x < f.n
      BY <1>2, <2>1 DEF Intact, OrderOf
    <3> QED BY <1>1, <1>2, <1>3, <1>4, <1>5, <3>1, <3>2, <3>3, <3>4 DEF OrderOf
  <2> QED BY <2>3, <2>5, <2>6 DEF Intact
<1>6. CASE (end[t][s].closed \/ t \notin up) /\ end' = end
  <2>1. t \in up => ~Live(t, s)
    BY <1>6 DEF Live, ClosedInv, ClosedOf, OpeningInv, OpeningOf, Fresh
  <2>2. FlowOf(t, s)'
    BY <1>1, <1>3, <2>1 DEF FlowOf
  <2>3. GaplessOf(t, s)'
    BY <1>1, <1>2, <1>6 DEF Intact, GaplessOf
  <2>4. OrderOf(t, s)'
    BY <1>2, <1>3, <1>6 DEF Intact, OrderOf
  <2> QED BY <2>2, <2>3, <2>4 DEF Intact
<1> QED BY <1>1, <1>5, <1>6

(* The stream is opened: nothing was received and nothing sent. *)
LEMMA IntactFresh ==
  ASSUME Shape, NEW t \in Sides, NEW s \in Streams, Intact(t, s), UNCHANGED <<up, loop>>,
         Fresh(t, s), Fresh(Other(t), s), SameFlow(t, s), end'[t][s].in = end[t][s].in,
         end'[Other(t)][s].sent = end[Other(t)][s].sent,
         \A f \in OnWire(Other(t))' : f.id = s => f.type = "open" /\ f.n = 0
  PROVE  Intact(t, s)'
<1>1. /\ end'[t][s].got = <<>> /\ end'[t][s].reads = <<>> /\ ~Delivering(t, s)'
      /\ ~Delivering(t, s) /\ end'[Other(t)][s].sent = 0
  BY DEF Fresh, SameFlow, Delivering, On
<1>2. Received(t, s)' = 0
  BY <1>1, EmptyFacts DEF Received
<1>3. FlowOf(t, s)'
  BY <1>1, <1>2 DEF FlowOf
<1>4. GaplessOf(t, s)'
  BY <1>1 DEF Intact, GaplessOf, SameFlow, Fresh
<1>5. OrderOf(t, s)'
  BY <1>1, EmptyFacts DEF OrderOf
<1> QED BY <1>3, <1>4, <1>5 DEF Intact

LEMMA IntactOpen ==
  ASSUME Shape, OpeningInv, NEW t \in Sides, NEW s \in Streams, Intact(t, s),
         (Open(s) /\ t = "relay") \/ (WriteOpen(s) /\ t = "tunnel")
  PROVE  Intact(t, s)'
<1>0. /\ end \in Ends /\ "relay" \in Sides /\ "tunnel" \in Sides
      /\ Other("relay") = "tunnel" /\ Other("tunnel") = "relay"
  BY Numbers
<1>1. Unopened(s)
  BY DEF Open, WriteOpen, Unopened
<1>2. Fresh("relay", s) /\ Fresh("tunnel", s)
  BY <1>1 DEF OpeningInv, OpeningOf
<1>3. /\ UNCHANGED <<up, loop>> /\ Elsewhere("relay", s) /\ SameFlow("relay", s)
      /\ end'["relay"][s].in = end["relay"][s].in /\ end'["relay"][s].sent = end["relay"][s].sent
  BY <1>0, SetPipe DEF Open, WriteOpen
<1>4. end'["tunnel"][s] = end["tunnel"][s]
  BY <1>0, <1>3 DEF Elsewhere
<1>5. CASE Open(s) /\ t = "relay"
  <2>1. OnWire("tunnel")' = OnWire("tunnel")
    BY <1>5 DEF Open, OnWire
  <2> QED BY <1>0, <1>2, <1>3, <1>4, <1>5, <2>1, IntactFresh DEF Fresh, Silent
<1>6. CASE WriteOpen(s) /\ t = "tunnel"
  <2>1. OnWire("relay")' \subseteq OnWire("relay") \union {OpenFrame(s)}
    BY <1>6, WriteOpenStep DEF Wrote
  <2>2. \A f \in OnWire("relay")' : f.id = s => f.type = "open" /\ f.n = 0
    BY <1>2, <2>1, FrameFacts DEF Fresh, Silent
  <2>3. SameFlow("tunnel", s)
    BY <1>4 DEF SameFlow
  <2> QED BY <1>0, <1>2, <1>3, <1>4, <1>6, <2>2, <2>3, IntactFresh
<1> QED BY <1>5, <1>6

(* A connection is closed. *)
LEMMA IntactFail ==
  ASSUME Shape, WireInv, NEW side \in Sides, Fail(side), NEW t \in Sides, NEW s \in Streams, Intact(t, s)
  PROVE  Intact(t, s)'
<1>1. /\ up' = up \ {side} /\ UNCHANGED <<streams, loop, end>>
      /\ \A v \in Sides : OnWire(v)' \subseteq OnWire(v)
      /\ OnWire(side)' = OnWire(side)
  BY FailStep DEF Fail
<1>2. Received(t, s)' = Received(t, s) /\ (Delivering(t, s)' <=> Delivering(t, s))
  BY <1>1 DEF Received, Delivering
<1>3. OrderOf(t, s)'
  BY <1>1, <1>2, SideFacts DEF Intact, OrderOf
<1>4. GaplessOf(t, s)'
  BY <1>1, <1>2 DEF Intact, GaplessOf
<1>5. FlowOf(t, s)'
  <2>1. CASE t = side
    BY <1>1, <2>1 DEF FlowOf
  <2>2. CASE side = Other(t)
    <3>1. Live(t, s)' => Live(t, s)
      BY <1>1, <2>2, SideFacts DEF Live, OpenOnWire
    <3> QED BY <1>1, <1>2, <2>2, <3>1 DEF Intact, FlowOf
  <2> QED BY <2>1, <2>2, SideFacts
<1> QED BY <1>3, <1>4, <1>5 DEF Intact

LEMMA IntactInvStep ==
  ASSUME Shape, Shape', WireInv, OpeningInv, ClosedInv, FlowInv, GaplessInv, OrderInv, Next
  PROVE  FlowInv' /\ GaplessInv' /\ OrderInv'
<1>1. \A t \in Sides, s \in Streams : Intact(t, s)
  BY DEF Intact, FlowInv, GaplessInv, OrderInv
<1>2. ASSUME NEW side \in Sides, Fail(side) PROVE \A t \in Sides, s \in Streams : Intact(t, s)'
  BY <1>1, <1>2, IntactFail
<1>3. ASSUME NEW s \in Streams, About(s), NEW t \in Sides, NEW r \in Streams PROVE Intact(t, r)'
  <2>1. CASE Level(t, r)
    BY <1>1, <2>1, LevelKept DEF Intact
  <2>2. CASE r # s
    BY <1>3, <2>1, <2>2, ApartStep, LevelApart
  <2>3. CASE r = s /\ Uneven(t, s)
    BY <1>1, <2>3, IntactSend, IntactCopy, IntactClose, IntactEof, IntactData, IntactReadClose,
       IntactDeliver, IntactOpen DEF Uneven
  <2> QED BY <1>3, <2>1, <2>2, <2>3, LevelStep
<1>4. \A t \in Sides, s \in Streams : Intact(t, s)'
  BY <1>2, <1>3, Subjects
<1> QED BY <1>4 DEF Intact, FlowInv, GaplessInv, OrderInv

-----------------------------------------------------------------------------
(* Each side learns what the other has given up. *)

(* Steps that tell nothing. *)
Quiet(s) ==
  /\ streams' = streams
  /\ OpenOnWire(s)' <=> OpenOnWire(s)
  /\ \A t \in Sides : /\ Told(t, s)' <=> Told(t, s)
                      /\ end'[t][s].pipe = "opening" <=> end[t][s].pipe = "opening"

LEMMA ComingKept ==
  ASSUME NEW s \in Streams, Quiet(s), NEW t \in Sides, ComingOf(t, s)
  PROVE  ComingOf(t, s)'
BY SideFacts DEF Quiet, ComingOf, Live

LEMMA ComingApart ==
  ASSUME Shape, Shape', NEW r \in Streams, Apart(r), NEW t \in Sides, ComingOf(t, r)
  PROVE  ComingOf(t, r)'
<1>1. /\ \A u \in Sides : \A f \in OnWire(u) : f \in Frame
      /\ \A u \in Sides : \A f \in OnWire(u)' : f \in Frame
  BY Frames DEF OnWire, Shape
<1>2. OpenOnWire(r)' <=> OpenOnWire(r)
  BY <1>1, SideFacts DEF Apart, OpenOnWire
<1>3. ASSUME NEW u \in Sides PROVE Told(u, r)' <=> Told(u, r)
  <2>1. (\E f \in OnWire(u)' : f.type = "close" /\ f.id = r) <=>
          (\E f \in OnWire(u) : f.type = "close" /\ f.id = r)
    BY <1>1 DEF Apart
  <2>2. end'[u][r].pipe = end[u][r].pipe
    BY DEF Apart
  <2>3. (loop[u].at = "answer" /\ loop[u].f.id = r)' <=> (loop[u].at = "answer" /\ loop[u].f.id = r)
    BY DEF Apart, On
  <2> QED BY <2>1, <2>2, <2>3 DEF Told
<1> QED BY <1>2, <1>3, SideFacts DEF Apart, ComingOf, Live

LEMMA ComingStep ==
  ASSUME Shape, WireInv, OpeningInv, AcceptInv, NEW s \in Streams, About(s), up = Sides,
         \A t \in Sides : ComingOf(t, s)
  PROVE  \A t \in Sides : ComingOf(t, s)'
<1>0. /\ end \in Ends /\ streams \in [Sides -> SUBSET Streams] /\ loop \in Loops
      /\ "relay" \in Sides /\ "tunnel" \in Sides
      /\ Other("relay") = "tunnel" /\ Other("tunnel") = "relay" /\ "relay" # "tunnel"
      /\ OpeningOf(s) /\ ComingOf("relay", s) /\ ComingOf("tunnel", s)
      /\ \A t \in Sides : t = "relay" \/ t = "tunnel"
  BY SideFacts DEF Shape, OpeningInv
<1> DEFINE Goal == \A t \in Sides : ComingOf(t, s)'
<1>1. ASSUME Quiet(s) PROVE Goal
  BY <1>0, <1>1, ComingKept
(* Steps at one end that leave the connection and the table alone. *)
<1>2. ASSUME NEW side \in Sides, UNCHANGED <<streams, wire, loop>>, Elsewhere(side, s),
             \/ end'[side][s].pipe = end[side][s].pipe
             \/ {end[side][s].pipe, end'[side][s].pipe} \subseteq {"none", "dialing", "open"}
      PROVE  Goal
  <2>1. ASSUME NEW t \in Sides
        PROVE  /\ end'[t][s].pipe = "opening" <=> end[t][s].pipe = "opening"
               /\ end'[t][s].pipe = "closing" <=> end[t][s].pipe = "closing"
    BY <1>2 DEF Elsewhere
  <2>2. Quiet(s)
    BY <1>2, <2>1 DEF Quiet, Told, OpenOnWire, OnWire
  <2> QED BY <1>1, <2>2
<1>3. ASSUME Accept, Head(accept) = s PROVE Goal
  <2>1. s \in ToSet(accept) /\ SetEnd("tunnel", s, "pipe", "dialing")
    BY <1>0, <1>3, AcceptStep
  <2>2. /\ UNCHANGED <<streams, wire, loop>> /\ Elsewhere("tunnel", s)
        /\ end["tunnel"][s].pipe = "none" /\ end'["tunnel"][s].pipe = "dialing"
    BY <1>0, <1>3, <2>1, SetPipe DEF Accept, AcceptInv, AcceptOf
  <2> QED BY <1>0, <1>2, <2>2
<1>4. ASSUME NEW side \in Sides,
             ArmWrite(side, s) \/ OutEnds(side, s) \/ InEnds(side, s) \/ CopyIn(side, s)
      PROVE  Goal
  <2>1. CASE ArmWrite(side, s)
    BY <1>0, <1>2, <2>1, SetOut DEF ArmWrite
  <2>2. CASE OutEnds(side, s)
    BY <1>0, <1>2, <2>2, SetOut DEF OutEnds
  <2>3. CASE InEnds(side, s)
    BY <1>0, <1>2, <2>3, SetIn DEF InEnds
  <2>4. CASE CopyIn(side, s)
    BY <1>0, <1>2, <2>4, CopyStep
  <2> QED BY <1>4, <2>1, <2>2, <2>3, <2>4
<1>5. ASSUME DialLocal(s) PROVE Goal
  <2>1. /\ UNCHANGED <<streams, wire, loop>> /\ Elsewhere("tunnel", s)
        /\ end["tunnel"][s].pipe = "dialing" /\ end'["tunnel"][s].pipe = "open"
    BY <1>0, <1>5, SetPipe DEF DialLocal
  <2> QED BY <1>0, <1>2, <2>1
<1>6. ~OpenFails(s)
  BY <1>0 DEF OpenFails
<1>7. ASSUME NEW side \in Sides, Deliver(side), loop[side].f.id = s PROVE Goal
  <2>1. /\ UNCHANGED <<streams, wire>> /\ Elsewhere(side, s)
        /\ loop[side].at = "deliver" /\ loop'[side].at = "read"
        /\ loop'[Other(side)] = loop[Other(side)]
        /\ end'[side][s].pipe = end[side][s].pipe
    BY <1>7, DeliverStep
  <2>2. ASSUME NEW t \in Sides
        PROVE  /\ end'[t][s].pipe = end[t][s].pipe
               /\ (loop[t].at = "answer" /\ loop[t].f.id = s)' <=> (loop[t].at = "answer" /\ loop[t].f.id = s)
    BY <2>1, SideFacts DEF Elsewhere
  <2>3. Quiet(s)
    BY <2>1, <2>2 DEF Quiet, Told, OpenOnWire, OnWire
  <2> QED BY <1>1, <2>3
(* Steps that write a frame. *)
<1>8. ASSUME NEW side \in Sides, NEW g \in Frame, g.id = s, g.type # "open", Wrote(side, g),
             UNCHANGED streams, Elsewhere(side, s),
             end'[side][s].pipe = "opening" <=> end[side][s].pipe = "opening",
             loop'[Other(side)] = loop[Other(side)],
             Told(side, s)' <=> Told(side, s)
      PROVE  Goal
  <2>1. OnWire(Other(side))' = OnWire(Other(side)) /\ OnWire(side)' = OnWire(side) \union {g}
    BY <1>0, <1>8 DEF Wrote
  <2>2. OpenOnWire(s)' <=> OpenOnWire(s)
    BY <1>0, <1>8, <2>1, SideFacts DEF OpenOnWire
  <2>3. end'[Other(side)][s] = end[Other(side)][s]
    BY <1>8, SideFacts DEF Elsewhere
  <2>4. Told(Other(side), s)' <=> Told(Other(side), s)
    BY <1>8, <2>1, <2>3 DEF Told
  <2>5. Quiet(s)
    BY <1>8, <2>2, <2>3, <2>4, SideFacts DEF Quiet
  <2> QED BY <1>1, <2>5
<1>9. ASSUME NEW side \in Sides, WriteData(side, s) PROVE Goal
  <2> DEFINE g == Data(s, end[side][s].sent + 1)
  <2>1. g \in Frame /\ g.id = s /\ g.type = "data"
    <3>1. end[side][s].sent + 1 \in Nat
      BY <1>0, EndFacts
    <3> QED BY <3>1, FrameFacts
  <2>2. /\ UNCHANGED <<up, streams, loop>> /\ Elsewhere(side, s) /\ Wrote(side, g)
        /\ end'[side][s].pipe = end[side][s].pipe
    BY <1>0, <1>9, <2>1, SendStep, WroteOrClosed
  <2> HIDE DEF g
  <2>3. Told(side, s)' <=> Told(side, s)
    BY <1>0, <2>1, <2>2 DEF Told, Wrote
  <2> QED BY <1>8, <2>1, <2>2, <2>3
<1>10. ASSUME NEW side \in Sides, Answer(side), loop[side].f.id = s PROVE Goal
  <2> DEFINE g == CloseFrame(s, end[side][s].sent)
  <2>1. /\ UNCHANGED <<up, streams, accept, end>> /\ loop[side].at = "answer"
        /\ loop'[Other(side)] = loop[Other(side)]
        /\ Wrote(side, g)
    BY <1>10, AnswerStep
  <2>2. g \in Frame /\ g.id = s /\ g.type = "close"
    BY <1>0, FrameFacts, EndFacts
  <2> HIDE DEF g
  <2>3. Told(side, s) /\ Told(side, s)'
    BY <1>0, <1>10, <2>1, <2>2 DEF Told, Wrote
  <2> QED BY <1>8, <2>1, <2>2, <2>3 DEF Elsewhere
<1>11. ASSUME NEW side \in Sides, WriteClose(side, s) PROVE Goal
  <2> DEFINE g == CloseFrame(s, end[side][s].sent)
  <2>1. /\ UNCHANGED <<up, streams, accept, loop>> /\ Elsewhere(side, s) /\ Wrote(side, g)
        /\ end[side][s].pipe = "closing" /\ end'[side][s].pipe = "gone"
    BY <1>0, <1>11, WriteCloseStep, SetPipe
  <2>2. g \in Frame /\ g.id = s /\ g.type = "close"
    BY <1>0, FrameFacts, EndFacts
  <2> HIDE DEF g
  <2>3. Told(side, s) /\ Told(side, s)'
    BY <1>0, <2>1, <2>2 DEF Told, Wrote
  <2> QED BY <1>8, <2>1, <2>2, <2>3
(* The stream is opened. *)
<1>12. ASSUME Open(s) PROVE Goal
  <2>1. /\ UNCHANGED <<up, wire, loop>> /\ Elsewhere("relay", s)
        /\ end["relay"][s].pipe = "none" /\ end'["relay"][s].pipe = "opening"
        /\ streams'["tunnel"] = streams["tunnel"]
    BY <1>0, <1>12, SetPipe DEF Open
  <2>2. Unopened(s) /\ end'["tunnel"][s] = end["tunnel"][s]
    BY <1>0, <2>1 DEF Unopened, Elsewhere
  <2>3. Fresh("relay", s) /\ s \notin streams["tunnel"]
    BY <1>0, <2>2 DEF OpeningOf
  <2>4. ~OpenOnWire(s)' /\ ~Told("relay", s)'
    BY <2>1, <2>3 DEF Fresh, Silent, On, OpenOnWire, OnWire, Told
  <2>5. ComingOf("relay", s)'
    BY <2>1, <2>4 DEF ComingOf
  <2>6. ComingOf("tunnel", s)'
    BY <2>1, <2>3, <2>4 DEF ComingOf, Live
  <2> QED BY <1>0, <2>5, <2>6
<1>13. ASSUME WriteOpen(s) PROVE Goal
  <2>1. /\ UNCHANGED <<up, streams, loop>> /\ Elsewhere("relay", s)
        /\ end["relay"][s].pipe = "opening" /\ end'["relay"][s].pipe = "open"
        /\ Wrote("relay", OpenFrame(s))
    BY <1>0, <1>13, WriteOpenStep, SetPipe
  <2>2. Unopened(s)
    BY <2>1 DEF Unopened
  <2>3. Fresh("relay", s) /\ s \notin streams["tunnel"] /\ s \in streams["relay"]
    BY <1>0, <2>1, <2>2 DEF OpeningOf
  <2>4. OnWire("relay")' = OnWire("relay") \union {OpenFrame(s)}
    BY <1>0, <2>1 DEF Wrote
  <2>5. OpenOnWire(s)' /\ ~Told("relay", s)'
    BY <2>1, <2>3, <2>4, FrameFacts DEF Fresh, Silent, On, OpenOnWire, Told
  <2>6. ComingOf("relay", s)'
    BY <2>5 DEF ComingOf
  <2>7. ComingOf("tunnel", s)'
    BY <1>0, <2>1, <2>3 DEF ComingOf
  <2> QED BY <1>0, <2>6, <2>7
<1>14. ASSUME NEW side \in Sides, ReadOpen(side), Head(wire[Other(side)]).id = s PROVE Goal
  <2> DEFINE f == Head(wire["relay"])
  <2>1. side = "tunnel"
    BY <1>14, ReadFrame DEF ReadOpen
  <2>2. /\ f \in Frame /\ f.id = s /\ f.type = "open" /\ f \in OnWire("relay")
        /\ loop["tunnel"].at = "read"
        /\ OnWire("tunnel")' = OnWire("tunnel")
        /\ OnWire("relay") = OnWire("relay")' \union {f}
        /\ \A g \in OnWire("relay")' : g.id = s => g.type # "open"
    BY <1>0, <1>14, <2>1, ReadFrame DEF ReadOpen
  <2>3. /\ end' = end
        /\ \/ /\ streams'["tunnel"] = streams["tunnel"] \union {f.id}
              /\ streams'["relay"] = streams["relay"]
              /\ UNCHANGED loop
           \/ /\ streams' = streams
              /\ loop'["relay"] = loop["relay"]
              /\ loop'["tunnel"].at = "answer" /\ loop'["tunnel"].f = f
    BY <1>14, <2>1, <2>2, ReadOpenStep
  <2> HIDE DEF f
  <2>4. OpenOnWire(s) /\ ~OpenOnWire(s)'
    BY <2>2 DEF OpenOnWire
  <2>5. Fresh("tunnel", s) /\ end["tunnel"][s].pipe = "none" /\ s \notin streams["tunnel"]
    BY <1>0, <2>4 DEF OpeningOf
  <2>6. Told("relay", s)' <=> Told("relay", s)
    BY <2>2, <2>3 DEF Told
  <2>7. CASE streams'["tunnel"] = streams["tunnel"] \union {f.id} /\ streams'["relay"] = streams["relay"]
             /\ UNCHANGED loop
    <3>1. ~Told("tunnel", s)'
      BY <2>2, <2>3, <2>5, <2>7 DEF Told, Fresh, Silent, On
    <3>2. ComingOf("relay", s)'
      BY <1>0, <2>2, <2>6, <2>7 DEF ComingOf
    <3>3. ComingOf("tunnel", s)'
      BY <1>0, <2>4, <2>5, <2>6, <2>7, <3>1 DEF ComingOf, Live
    <3> QED BY <1>0, <3>2, <3>3
  <2>8. CASE streams' = streams /\ loop'["tunnel"].at = "answer" /\ loop'["tunnel"].f = f
    <3>1. Told("tunnel", s)'
      BY <2>2, <2>8 DEF Told
    <3>2. ComingOf("relay", s)'
      BY <1>0, <2>6, <2>8, <3>1 DEF ComingOf
    <3>3. ComingOf("tunnel", s)'
      BY <1>0, <2>4, <2>5, <2>8 DEF ComingOf, Live
    <3> QED BY <1>0, <3>2, <3>3
  <2> QED BY <2>3, <2>7, <2>8
(* Steps after which this side tells the other. *)
<1>15. ASSUME NEW side \in Sides, Told(side, s)', s \notin streams'[side],
              streams'[Other(side)] = streams[Other(side)],
              Told(Other(side), s)' <=> Told(Other(side), s),
              ~Live(side, s)'
       PROVE  Goal
  <2>1. ComingOf(side, s)' /\ ComingOf(Other(side), s)'
    BY <1>0, <1>15, SideFacts DEF ComingOf
  <2> QED BY <2>1, SideFacts
<1>16. ASSUME NEW side \in Sides, CloseStream(side, s), UNCHANGED <<up, wire, loop>>,
              end[side][s].pipe # "none"
       PROVE  Goal
  <2>1. /\ streams'[side] = streams[side] \ {s} /\ streams'[Other(side)] = streams[Other(side)]
        /\ end'[side][s].pipe = "closing" /\ Elsewhere(side, s)
    BY <1>0, <1>16, CloseStep
  <2>2. end'[Other(side)][s] = end[Other(side)][s]
    BY <2>1, SideFacts DEF Elsewhere
  <2>3. Told(Other(side), s)' <=> Told(Other(side), s)
    BY <1>16, <2>2 DEF Told, OnWire
  <2>4. ~Live(side, s)'
    BY <1>0, <1>16, <2>1 DEF Live, OpenOnWire, OnWire, OpeningOf
  <2>5. Told(side, s)'
    BY <2>1 DEF Told
  <2> QED BY <1>15, <2>1, <2>3, <2>4, <2>5
<1>17. ASSUME NEW side \in Sides, PipeCloses(side, s) PROVE Goal
  BY <1>16, <1>17 DEF PipeCloses
<1>18. ASSUME DialFails(s) PROVE Goal
  BY <1>0, <1>16, <1>18 DEF DialFails
<1>19. ASSUME NEW side \in Sides, ReadData(side), Head(wire[Other(side)]).id = s PROVE Goal
  <2> DEFINE f == Head(wire[Other(side)])
  <2>1. /\ f \in Frame /\ f.id = s /\ f.type = "data" /\ loop[side].at = "read"
        /\ OnWire(side)' = OnWire(side) /\ OnWire(Other(side)) = OnWire(Other(side))' \union {f}
        /\ \A g \in OnWire(Other(side))' : g.id = s => g.type # "open"
    BY <1>19, ReadFrame DEF ReadData
  <2>2. /\ UNCHANGED <<up, streams, end>> /\ loop'[Other(side)] = loop[Other(side)]
        /\ loop'[side].f = f
        /\ s \in streams[side] => loop'[side].at = "deliver"
        /\ s \notin streams[side] => loop'[side].at = "answer"
    BY <2>1, <1>19, ReadDataStep
  <2> HIDE DEF f
  <2>3. Told(Other(side), s)' <=> Told(Other(side), s)
    BY <2>1, <2>2 DEF Told
  <2>4. CASE s \in streams[side]
    <3>1. Told(side, s)' <=> Told(side, s)
      BY <2>1, <2>2, <2>4 DEF Told
    <3>2. OpenOnWire(s)' <=> OpenOnWire(s)
      BY <1>0, <2>1 DEF OpenOnWire
    <3>3. Quiet(s)
      BY <2>2, <2>3, <3>1, <3>2, SideFacts DEF Quiet
    <3> QED BY <1>1, <3>3
  <2>5. CASE s \notin streams[side]
    <3>1. Told(side, s)'
      BY <2>1, <2>2, <2>5 DEF Told
    <3>2. ~Live(side, s)'
      BY <1>0, <2>1, <2>2, <2>5 DEF Live, OpenOnWire
    <3> QED BY <1>15, <2>2, <2>3, <2>5, <3>1, <3>2
  <2> QED BY <2>4, <2>5
(* A CLOSE is read: the other side had given the stream up. *)
<1>20. ASSUME NEW side \in Sides, ReadClose(side), Head(wire[Other(side)]).id = s PROVE Goal
  <2> DEFINE u == Other(side)
             f == Head(wire[u])
  <2>0. u \in Sides /\ Other(u) = side /\ u # side /\ ComingOf(u, s) /\ ComingOf(side, s)
    BY SideFacts
  <2>1. /\ f \in Frame /\ f.id = s /\ f.type = "close" /\ f \in OnWire(u)
        /\ OnWire(side)' = OnWire(side) /\ OnWire(u) = OnWire(u)' \union {f}
        /\ \A g \in OnWire(u)' : g.id = s => g.type # "open"
    BY <1>20, ReadFrame DEF ReadClose
  <2>2. /\ UNCHANGED <<up, loop>> /\ Elsewhere(side, s)
        /\ streams'[side] = streams[side] \ {s} /\ streams'[u] = streams[u]
        /\ end'[side][s].pipe = end[side][s].pipe
    BY <1>20, <2>1, ReadCloseStep
  <2> HIDE DEF f
  <2>3. Told(u, s)
    BY <2>1 DEF Told
  <2>4. s \notin streams[u]
    BY <2>0, <2>3 DEF ComingOf
  <2>5. ~Live(side, s)'
    BY <1>0, <2>0, <2>1, <2>2 DEF Live, OpenOnWire
  <2>6. u = "tunnel" => ~OpenOnWire(s)'
    <3>1. u = "tunnel" => OnWire("relay")' = OnWire("relay") /\ ~Silent("tunnel", s)
      BY <1>0, <2>0, <2>1 DEF Silent
    <3> QED BY <1>0, <3>1 DEF OpeningOf, OpenOnWire, Fresh
  <2>7. ~Live(u, s)'
    BY <2>2, <2>4, <2>6 DEF Live
  <2>8. ComingOf(side, s)' /\ ComingOf(u, s)'
    BY <2>2, <2>4, <2>5, <2>7 DEF ComingOf
  <2> QED BY <2>8, SideFacts
<1> QED BY <1>3, <1>4, <1>5, <1>6, <1>7, <1>9, <1>10, <1>11, <1>12, <1>13, <1>14, <1>17, <1>18,
           <1>19, <1>20 DEF About

LEMMA ComingInvStep ==
  ASSUME Shape, Shape', WireInv, OpeningInv, AcceptInv, ComingInv, Next
  PROVE  ComingInv'
<1>1. ASSUME NEW side \in Sides, Fail(side) PROVE ComingInv'
  BY <1>1 DEF Fail, ComingInv
<1>2. ASSUME NEW s \in Streams, About(s), up' = Sides, NEW t \in Sides, NEW r \in Streams
      PROVE  ComingOf(t, r)'
  <2>1. up = Sides
    <3>1. up' = up
      <4>1. ASSUME NEW side \in Sides, Deliver(side) PROVE up' = up
        BY <4>1, DeliverStep
      <4> QED BY <1>2, <4>1 DEF About, Accept, ReadOpen, ReadData, ReadClose, Answer, ArmWrite,
               WriteData, OutEnds, CopyIn, InEnds, PipeCloses, WriteClose, Open, WriteOpen,
               OpenFails, DialLocal, DialFails
    <3> QED BY <1>2, <3>1
  <2>2. \A v \in Sides, q \in Streams : ComingOf(v, q)
    BY <2>1 DEF ComingInv
  <2>3. CASE r # s
    BY <1>2, <2>2, <2>3, ApartStep, ComingApart
  <2>4. CASE r = s
    BY <1>2, <2>1, <2>2, <2>4, ComingStep
  <2> QED BY <2>3, <2>4
<1> QED BY <1>1, <1>2, Subjects DEF ComingInv

-----------------------------------------------------------------------------
(* The invariant is inductive. *)

LEMMA InitIInv == Init => IInv
<1> SUFFICES ASSUME Init PROVE IInv
  OBVIOUS
<1>1. /\ up = Sides /\ streams = [side \in Sides |-> {}] /\ accept = <<>>
      /\ wire = [side \in Sides |-> <<>>] /\ loop = [side \in Sides |-> Reading]
      /\ end = [side \in Sides |-> [s \in Streams |-> NewEnd]]
  BY DEF Init
<1>2. /\ NewEnd.pipe = "none" /\ NewEnd.out = "run" /\ NewEnd.in = "run"
      /\ NewEnd.reads = <<>> /\ NewEnd.got = <<>> /\ ~NewEnd.eof /\ ~NewEnd.closed
      /\ NewEnd.sent = 0 /\ NewEnd.due = 0 /\ NewEnd \in End
  <2>1. <<>> \in Seq(Nat)
    BY EmptyFacts
  <2> QED BY <2>1 DEF NewEnd, End
<1>3. \A side \in Sides, s \in Streams : end[side][s] = NewEnd
  BY <1>1
<1>4. \A side \in Sides : /\ wire[side] = <<>> /\ OnWire(side) = {} /\ Len(wire[side]) = 0
                          /\ streams[side] = {} /\ loop[side] = Reading /\ loop[side].at = "read"
  BY <1>1, EmptyFacts, ReadingFacts DEF OnWire
<1>5. Shape
  <2>1. up \subseteq Sides /\ streams \in [Sides -> SUBSET Streams] /\ accept \in Seq(Streams)
    BY <1>1, EmptyFacts
  <2>2. wire \in Wires
    BY <1>1, EmptyFacts DEF Wires
  <2>3. loop \in Loops
    BY <1>1, ReadingFacts DEF Loops
  <2>4. end \in Ends
    <3> HIDE DEF Ends
    <3>1. NewEnd \in End
      BY <1>2
    <3> QED BY <1>1, <3>1 DEF Ends
  <2> QED BY <2>1, <2>2, <2>3, <2>4 DEF Shape
<1>6. Bounds
  <2>1. StreamBuffer \in Nat /\ AcceptBuffer \in Nat /\ WireBuffer \in Nat
    BY BuffersAssumption
  <2>2. \A side \in Sides, s \in Streams : MaxData[side][s] \in Nat
    BY BuffersAssumption
  <2>3. \A side \in Sides : Other(side) \in Sides
    BY SideFacts
  <2>4. Len(accept) <= AcceptBuffer
    BY <1>1, <2>1, EmptyFacts
  <2>5. \A side \in Sides : Len(wire[side]) <= WireBuffer
    BY <1>4, <2>1
  <2>6. Len(<<>>) <= StreamBuffer
    BY <2>1, EmptyFacts
  <2>7. \A n \in Nat : 0 <= n
    OBVIOUS
  <2> QED BY <1>2, <1>3, <2>2, <2>3, <2>4, <2>5, <2>6, <2>7 DEF Bounds
<1>7. WireInv
  BY <1>4, EmptyFacts DEF WireInv
<1>8. \A side \in Sides, s \in Streams :
        /\ Fresh(side, s) /\ ~Delivering(side, s) /\ ~Told(side, s) /\ ~Live(side, s)
  BY <1>2, <1>3, <1>4, SideFacts DEF Fresh, Silent, On, Delivering, Told, Live, OpenOnWire
<1>9. OpeningInv
  BY <1>1, <1>2, <1>3, <1>4, <1>8, EmptyFacts, SideFacts DEF OpeningInv, OpeningOf, OpenOnWire
<1>10. AcceptInv
  <2>1. ToSet(accept) = {} /\ DOMAIN accept = {}
    BY <1>1, EmptyFacts
  <2> QED BY <2>1 DEF AcceptInv, AcceptOf, IsInjective
<1>11. ClosedInv
  BY <1>2, <1>3, <1>4, <1>8 DEF ClosedInv, ClosedOf
<1>12. FlowInv
  BY <1>8 DEF FlowInv, FlowOf
<1>13. GaplessInv
  <2>1. Counts(<<>>, 0) /\ Counts(<<>>, Len(<<>>))
    BY EmptyFacts
  <2> QED BY <1>2, <1>3, <1>8, <2>1 DEF GaplessInv, GaplessOf
<1>14. OrderInv
  BY <1>2, <1>3, <1>8, EmptyFacts DEF OrderInv, OrderOf
<1>15. ComingInv
  BY <1>8 DEF ComingInv, ComingOf
<1> QED BY <1>5, <1>6, <1>7, <1>9, <1>10, <1>11, <1>12, <1>13, <1>14, <1>15 DEF IInv

LEMMA StutterIInv == IInv /\ UNCHANGED vars => IInv'
<1> SUFFICES ASSUME IInv, UNCHANGED vars PROVE IInv'
  OBVIOUS
<1>1. /\ up' = up /\ streams' = streams /\ accept' = accept /\ wire' = wire
      /\ loop' = loop /\ end' = end
  BY DEF vars
<1>2. /\ \A t \in Sides : OnWire(t)' = OnWire(t)
      /\ \A t, s : (Delivering(t, s)' <=> Delivering(t, s)) /\ (On(t, s)' <=> On(t, s))
  BY <1>1 DEF OnWire, Delivering, On
<1>3. /\ \A s : OpenOnWire(s)' <=> OpenOnWire(s)
      /\ \A s : Unopened(s)' <=> Unopened(s)
      /\ \A t, s : Told(t, s)' <=> Told(t, s)
      /\ \A t, s : Silent(t, s)' <=> Silent(t, s)
  BY <1>1 DEF OnWire, OpenOnWire, Unopened, Told, Silent
<1>4. Shape' /\ Bounds'
  BY <1>1 DEF IInv, Shape, Bounds
<1>5. WireInv'
  BY <1>1, <1>2 DEF IInv, WireInv
<1>6. OpeningInv' /\ AcceptInv'
  BY <1>1, <1>2, <1>3 DEF IInv, OpeningInv, OpeningOf, Fresh, AcceptInv, AcceptOf
<1>7. ClosedInv'
  BY <1>1, <1>2 DEF IInv, ClosedInv, ClosedOf
<1>8. (\A t, s : Live(t, s)' <=> Live(t, s)) /\ (\A t, s : Received(t, s)' = Received(t, s))
  BY <1>1, <1>2, <1>3 DEF Live, Received
<1>9. FlowInv' /\ GaplessInv' /\ OrderInv'
  <2>1. \A t \in Sides, s \in Streams : Level(t, s)
    BY <1>1, <1>2, <1>8, SideFacts DEF Level, SameFlow
  <2> QED BY <2>1, LevelKept DEF IInv, FlowInv, GaplessInv, OrderInv
<1>10. ComingInv'
  <2>1. \A s \in Streams : Quiet(s)
    BY <1>1, <1>3 DEF Quiet
  <2> QED BY <1>1, <2>1, ComingKept DEF IInv, ComingInv
<1> QED BY <1>4, <1>5, <1>6, <1>7, <1>9, <1>10 DEF IInv

LEMMA NextIInv == IInv /\ Next => IInv'
BY TypeStep, WireInvStep, OpeningInvStep, AcceptInvStep, ClosedInvStep, IntactInvStep,
   ComingInvStep DEF IInv

(* What the properties need of the invariant is kept by every step of      *)
(* either side: numbers on the wire, in the hand of a read loop, buffered  *)
(* and read fit together (readLoop, deliver, Read, Write, Close).          *)
THEOREM Inductive == Spec => []IInv
BY InitIInv, NextIInv, StutterIInv, PTL DEF Spec

(* The variables have their types, and the three buffers their limits.     *)
THEOREM TypeCorrect == Spec => []TypeOK
<1>1. IInv => TypeOK
  <2> SUFFICES ASSUME IInv PROVE TypeOK
    OBVIOUS
  <2>1. Shape /\ Bounds
    BY DEF IInv
  <2>2. ASSUME NEW side \in Sides
        PROVE  /\ wire[side] \in Seq(Frame) /\ Len(wire[side]) <= WireBuffer
               /\ loop[side].at \in {"read", "deliver", "answer"}
    BY <2>1, LoopFacts DEF Shape, Bounds, Wires
  <2>3. ASSUME NEW side \in Sides, NEW s \in Streams
        PROVE  LET e == end[side][s]
               IN /\ e.pipe \in {"none", "opening", "dialing", "open", "closing", "gone"}
                  /\ e.out \in {"run", "armed", "done"}
                  /\ e.in \in {"run", "eof", "error", "hangup"}
                  /\ Len(e.reads) <= StreamBuffer
                  /\ e.sent \in 0..MaxData[side][s] /\ e.due \in 0..MaxData[Other(side)][s]
    <3>1. MaxData[side][s] \in Nat /\ MaxData[Other(side)][s] \in Nat
      BY BuffersAssumption, SideFacts
    <3>2. /\ Len(end[side][s].reads) <= StreamBuffer
          /\ end[side][s].sent <= MaxData[side][s] /\ end[side][s].due <= MaxData[Other(side)][s]
      BY <2>1 DEF Bounds
    <3>3. end[side][s].sent \in Nat /\ end[side][s].due \in Nat
      BY <2>1, EndFacts DEF Shape
    <3>4. end[side][s].sent \in 0..MaxData[side][s] /\ end[side][s].due \in 0..MaxData[Other(side)][s]
      BY <3>1, <3>2, <3>3
    <3> QED BY <2>1, <3>2, <3>4, EndFacts DEF Shape
  <2> QED BY <2>1, <2>2, <2>3 DEF TypeOK, Shape, Bounds
<1> QED BY <1>1, Inductive, PTL

(* What comes out of a stream was put in, in order, nothing twice and, as  *)
(* long as the connection is up, nothing missing (deliver, Read).          *)
THEOREM Integrity == Spec => []StreamIntegrity
<1>1. IInv => StreamIntegrity
  <2> SUFFICES ASSUME IInv, NEW side \in Sides, NEW s \in Streams
               PROVE  LET got == end[side][s].got
                      IN /\ \A i, j \in DOMAIN got : i < j => got[i] < got[j]
                         /\ \A i \in DOMAIN got : got[i] <= end[Other(side)][s].sent
                         /\ side \in up => \A i \in DOMAIN got : got[i] = i
    BY DEF StreamIntegrity
  <2> DEFINE got == end[side][s].got
  <2>1. OrderOf(side, s) /\ GaplessOf(side, s) /\ got \in Seq(Nat)
    BY EndFacts DEF IInv, OrderInv, GaplessInv, Shape
  <2>2. DOMAIN got = 1..Len(got) /\ Len(got) \in Nat /\ \A i \in 1..Len(got) : got[i] \in ToSet(got)
    BY <2>1, SetOf
  <2>3. \A i, j \in DOMAIN got : i < j => got[i] < got[j]
    BY <2>1, <2>2 DEF OrderOf, Rising
  <2>4. \A i \in DOMAIN got : got[i] <= end[Other(side)][s].sent
    BY <2>1, <2>2 DEF OrderOf
  <2>5. ASSUME side \in up, NEW i \in DOMAIN got PROVE got[i] = i
    <3>1. got[i] = 0 + i
      BY <2>1, <2>2, <2>5 DEF GaplessOf, Counts
    <3> QED BY <2>2, <2>5, <3>1
  <2> QED BY <2>3, <2>4, <2>5
<1> QED BY <1>1, Inductive, PTL

(* A copy that ended by EOF has passed on all that was written before the  *)
(* CLOSE (remoteClosed, Read).                                             *)
THEOREM Complete == Spec => []CompleteAtEOF
<1>1. IInv => CompleteAtEOF
  <2> SUFFICES ASSUME IInv, NEW side \in up, NEW s \in Streams, end[side][s].in = "eof"
               PROVE  Len(end[side][s].got) = end[side][s].due
    BY DEF CompleteAtEOF
  <2>1. side \in Sides
    BY DEF IInv, Shape
  <2> QED BY <2>1 DEF IInv, GaplessInv, GaplessOf
<1> QED BY <1>1, Inductive, PTL

(* No stream is open at one side only, unless its OPEN or a CLOSE is on    *)
(* the way (handleOpen, remoteClose, Stream.Close, the CLOSE in answer).   *)
THEOREM NoneForgotten == Spec => []NoForgottenStream
<1>1. IInv => NoForgottenStream
  <2> SUFFICES ASSUME IInv, up = Sides, NEW side \in Sides,
                      NEW s \in streams[side] \ streams[Other(side)]
               PROVE  \/ end[side][s].pipe = "opening" \/ InFlight(side, "open", s)
                      \/ Coming(Other(side), s)
    BY DEF NoForgottenStream
  <2>1. s \in Streams /\ Live(side, s) /\ ComingInv
    BY DEF IInv, Shape, Live
  <2>2. \/ end[side][s].pipe = "opening" \/ (side = "relay" /\ OpenOnWire(s))
        \/ Told(Other(side), s)
    BY <2>1 DEF ComingInv, ComingOf
  <2>3. ASSUME NEW t \in Sides, NEW f \in OnWire(t), f.id = s PROVE InFlight(t, f.type, s)
    BY <2>3 DEF OnWire, ToSet, InFlight
  <2>4. side = "relay" /\ OpenOnWire(s) => InFlight(side, "open", s)
    BY <2>3 DEF OpenOnWire
  <2>5. Told(Other(side), s) => Coming(Other(side), s)
    BY <2>3, SideFacts DEF Told, Coming
  <2> QED BY <2>2, <2>4, <2>5
<1> QED BY <1>1, Inductive, PTL
=============================================================================
