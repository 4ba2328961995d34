----------------------------- MODULE Http2Proofs ----------------------------
(***************************************************************************)
(* Proofs about a connection of the gNMI server (module Http2): the order  *)
(* of the frames it sends and flow control, for any requests and windows.  *)
(***************************************************************************)
EXTENDS Http2, FiniteSetTheorems, SequenceTheorems, WellFoundedInduction, TLAPS

-----------------------------------------------------------------------------
(* A connection: types. *)

FrameKinds == {"unary", "caps", "error", "unknown", "once", "poll", "stream", None}
Tags == {"SETTINGS", "PING", "WINDOW", "HEADERS", "DATA", "CONT", "RST", "GOAWAY"}
AnyFrames == [t : Tags, s : 0..MaxStream, kind : FrameKinds, end : BOOLEAN, whole : BOOLEAN,
              n : Nat]
FrameSet == {f \in AnyFrames : f.t = "HEADERS" => f.s \in Streams}
Rpcs == [s : 0..MaxStream, kind : FrameKinds, end : BOOLEAN, got : Nat]

\* The thread serves the RPC in cur.
Active == pc \notin {"main", "closed"}

\* What the client has yet to write of a request: HEADERS can only be its first frame.
Remainder(q, s) ==
  \A i \in 1..Len(q) : /\ q[i].s = s /\ q[i].t \in {"HEADERS", "CONT", "DATA"}
                       /\ q[i].t = "HEADERS" => i = 1

HTypes ==
  /\ wire \in Seq(FrameSet) /\ pending \in Seq(FrameSet) /\ Len(pending) <= 1
  /\ unsent \in [Streams -> Seq(FrameSet)] /\ \A s \in Streams : Remainder(unsent[s], s)
  /\ plan \in Plans /\ opened \in 0..MaxStream
  /\ cur \in Rpcs /\ (Active => cur.s \in Streams)
  /\ pc \in {"main", "closed", "cont", "msg", "dispatch", "send", "peek", "wait"}
  /\ after \in {"main", "trailers", "sync", "tick"}
  /\ phase \in [Streams -> {"none", "open", "ended", "bad"}]
  /\ paid \in [0..MaxStream -> Nat] /\ returned \in [0..MaxStream -> Nat]
  /\ connWin \in Int /\ streamWin \in [0..(Slots - 1) -> Int]
  /\ left \in Nat /\ ver \in Nat /\ hash \in Nat /\ lastHash \in Nat \cup {None}

\* A stream's window is kept in one of the server's slots.
LEMMA SlotRange ==
  ASSUME NEW s \in Streams
  PROVE  Slot(s) \in 0..(Slots - 1)
<1>1. s \in Nat
  BY LengthsAssumption DEF Streams
<1> QED
  BY <1>1, SlotsAssumption DEF Slot

\* What taking the first element of a queue leaves.
LEMMA TailFacts ==
  ASSUME NEW S, NEW q \in Seq(S), q # << >>
  PROVE  /\ Len(q) \in Nat \ {0} /\ Tail(q) \in Seq(S) /\ Len(Tail(q)) = Len(q) - 1
         /\ Head(q) = q[1] /\ q[1] \in S
         /\ \A i \in 1..(Len(q) - 1) : Tail(q)[i] = q[i + 1]
<1>1. Len(q) \in Nat \ {0} /\ Head(q) = q[1] /\ q[1] \in S
  OBVIOUS
<1>2. Tail(q) \in Seq(S) /\ Len(Tail(q)) = Len(q) - 1
  OBVIOUS
<1>3. \A i \in 1..(Len(q) - 1) : Tail(q)[i] = q[i + 1]
  OBVIOUS
<1> QED
  BY <1>1, <1>2, <1>3, Zenon

\* The client's frames are frames, with the tag, stream and increment they were made with.
LEMMA OneFrame ==
  ASSUME NEW t \in Tags \ {"HEADERS"}, NEW s \in 0..MaxStream, NEW n \in Nat
  PROVE  /\ Frame(t, s) \in FrameSet /\ Frame(t, s).t = t /\ Frame(t, s).s = s /\ Frame(t, s).n = 0
         /\ WindowFrame(t, s, n) \in FrameSet /\ WindowFrame(t, s, n).t = t
         /\ WindowFrame(t, s, n).s = s /\ WindowFrame(t, s, n).n = n
<1>1. Frame(t, s) \in AnyFrames /\ Frame(t, s).t = t /\ Frame(t, s).s = s /\ Frame(t, s).n = 0
  BY Zenon DEF Frame, AnyFrames, FrameKinds
<1>2. WindowFrame(t, s, n) \in AnyFrames /\ WindowFrame(t, s, n).t = t
      /\ WindowFrame(t, s, n).s = s /\ WindowFrame(t, s, n).n = n
  BY <1>1, Zenon DEF WindowFrame, AnyFrames
<1> QED
  BY <1>1, <1>2, Zenon DEF FrameSet

\* The frames of a request.
LEMMA RequestFacts ==
  ASSUME plan \in Plans, NEW s \in Streams, s \in 1..Len(plan), NEW shape
  PROVE  LET q == RequestFrames(s, shape)
         IN  q \in Seq(FrameSet) /\ q # << >> /\ q[1].t = "HEADERS" /\ Remainder(q, s)
<1>1. s \in 0..MaxStream /\ s \in Nat
  BY LengthsAssumption DEF Streams
<1>2. Kind(s) \in FrameKinds
  BY PlansAssumption DEF Kind, FrameKinds
<1>3. ASSUME NEW e \in BOOLEAN, NEW w \in BOOLEAN
      PROVE  Headers(s, e, w) \in FrameSet /\ Headers(s, e, w).t = "HEADERS" /\ Headers(s, e, w).s = s
  <2>1. Frame("HEADERS", s) \in AnyFrames /\ Frame("HEADERS", s).t = "HEADERS"
        /\ Frame("HEADERS", s).s = s
    BY <1>1, Zenon DEF Frame, AnyFrames, FrameKinds, Tags
  <2>2. Headers(s, e, w) \in AnyFrames /\ Headers(s, e, w).t = "HEADERS" /\ Headers(s, e, w).s = s
    BY <1>2, <2>1, Zenon DEF Headers, AnyFrames
  <2> QED
    BY <2>2, Zenon DEF FrameSet
<1>4. Frame("CONT", s) \in FrameSet /\ Frame("CONT", s).t = "CONT" /\ Frame("CONT", s).s = s
  BY <1>1, OneFrame, Zenon DEF Tags
<1>5. ASSUME NEW i \in 1..Parts
      PROVE  /\ [Frame("DATA", s) EXCEPT !.end = (i = Parts)] \in FrameSet
             /\ [Frame("DATA", s) EXCEPT !.end = (i = Parts)].t = "DATA"
             /\ [Frame("DATA", s) EXCEPT !.end = (i = Parts)].s = s
  <2>1. Frame("DATA", s) \in FrameSet /\ Frame("DATA", s).t = "DATA" /\ Frame("DATA", s).s = s
    BY <1>1, OneFrame, Zenon DEF Tags
  <2> QED
    BY <2>1, Zenon DEF FrameSet, AnyFrames
<1>6. /\ Data(s) \in Seq(FrameSet) /\ Len(Data(s)) = Parts
      /\ \A i \in 1..Parts : Data(s)[i].t = "DATA" /\ Data(s)[i].s = s
  <2>1. Data(s) \in [1..Parts -> FrameSet]
    BY <1>5, Zenon DEF Data
  <2>2. Data(s) \in Seq(FrameSet)
    BY <2>1, LengthsAssumption, SeqDef
  <2>3. \A i \in 1..Parts : Data(s)[i].t = "DATA" /\ Data(s)[i].s = s
    BY <1>5, Zenon DEF Data
  <2> QED
    BY <2>1, <2>2, <2>3, LengthsAssumption, LenProperties
<1> DEFINE d == Data(s)
           q == RequestFrames(s, shape)
<1> HIDE DEF d
<1>7. d \in Seq(FrameSet) /\ Len(d) = Parts /\ Parts \in Nat
      /\ \A i \in 1..Parts : d[i].t = "DATA" /\ d[i].s = s
  BY <1>6, LengthsAssumption, Zenon DEF d
<1>8. CASE q = <<Headers(s, TRUE, TRUE)>>
  <2> DEFINE h == Headers(s, TRUE, TRUE)
  <2>1. h \in FrameSet /\ h.t = "HEADERS" /\ h.s = s
    BY <1>3, Zenon
  <2> HIDE DEF h
  <2>2. <<h>> \in Seq(FrameSet) /\ Len(<<h>>) = 1 /\ <<h>>[1] = h /\ <<h>> # << >>
    BY <2>1
  <2> DEFINE r == <<h>>
  <2>3. \A i \in 1..Len(r) : i = 1
    BY <2>2
  <2>4. r \in Seq(FrameSet) /\ r[1] = h /\ r # << >>
    BY <2>2, Zenon
  <2> HIDE DEF r
  <2>5. Remainder(r, s)
    BY <2>1, <2>3, <2>4, Zenon DEF Remainder
  <2> QED
    BY <1>8, <2>1, <2>4, <2>5, Zenon DEF h, r
<1>9. CASE q = <<Headers(s, FALSE, FALSE), Frame("CONT", s)>> \o d
  <2> DEFINE h == Headers(s, FALSE, FALSE)
             g == Frame("CONT", s)
  <2>1. h \in FrameSet /\ h.t = "HEADERS" /\ h.s = s /\ g \in FrameSet /\ g.t = "CONT" /\ g.s = s
    BY <1>3, <1>4, Zenon
  <2> HIDE DEF h, g
  <2>2. <<h, g>> \in Seq(FrameSet) /\ Len(<<h, g>>) = 2
    BY <2>1
  <2> DEFINE r == <<h, g>> \o d
  <2>3. r \in Seq(FrameSet) /\ Len(r) = Parts + 2 /\ r[1] = h /\ r[2] = g
        /\ \A i \in 3..(Parts + 2) : r[i] = d[i - 2]
    BY <1>7, <2>1, <2>2
  <2> HIDE DEF r
  <2>4. \A i \in 1..Len(r) : i = 1 \/ i = 2 \/ (i \in 3..(Parts + 2) /\ i - 2 \in 1..Parts)
    BY <1>7, <2>3
  <2>5. Remainder(r, s) /\ r # << >>
    BY <1>7, <2>1, <2>3, <2>4 DEF Remainder
  <2> QED
    BY <1>9, <2>1, <2>3, <2>5, Zenon DEF h, g, r
<1>10. CASE q = <<Headers(s, FALSE, TRUE)>> \o d
  <2> DEFINE h == Headers(s, FALSE, TRUE)
  <2>1. h \in FrameSet /\ h.t = "HEADERS" /\ h.s = s
    BY <1>3, Zenon
  <2> HIDE DEF h
  <2>2. <<h>> \in Seq(FrameSet) /\ Len(<<h>>) = 1
    BY <2>1
  <2> DEFINE r == <<h>> \o d
  <2>3. r \in Seq(FrameSet) /\ Len(r) = Parts + 1 /\ r[1] = h
        /\ \A i \in 2..(Parts + 1) : r[i] = d[i - 1]
    BY <1>7, <2>1, <2>2
  <2> HIDE DEF r
  <2>4. \A i \in 1..Len(r) : i = 1 \/ (i \in 2..(Parts + 1) /\ i - 1 \in 1..Parts)
    BY <1>7, <2>3
  <2>5. Remainder(r, s) /\ r # << >>
    BY <1>7, <2>1, <2>3, <2>4 DEF Remainder
  <2> QED
    BY <1>10, <2>1, <2>3, <2>5, Zenon DEF h, r
<1> QED
  BY <1>8, <1>9, <1>10, Zenon DEF RequestFrames, d

\* The smaller of two amounts (a chunk is bounded by what is left and by a window).
LEMMA LeastOfTwo ==
  ASSUME NEW a \in Int, NEW b \in Int
  PROVE  Least({a, b}) \in {a, b} /\ Least({a, b}) <= a /\ Least({a, b}) <= b
<1>1. \E m \in {a, b} : \A x \in {a, b} : m <= x
  OBVIOUS
<1>2. Least({a, b}) \in {a, b} /\ \A x \in {a, b} : Least({a, b}) <= x
  BY <1>1, Zenon DEF Least
<1> QED
  BY <1>2, Zenon

\* The smallest of the body left and the two windows.
LEMMA LeastOfThree ==
  ASSUME NEW a \in Int, NEW b \in Int, NEW c \in Int
  PROVE  /\ Least({a, b, c}) \in {a, b, c}
         /\ Least({a, b, c}) <= a /\ Least({a, b, c}) <= b /\ Least({a, b, c}) <= c
<1>1. \E m \in {a, b, c} : \A x \in {a, b, c} : m <= x
  OBVIOUS
<1>2. Least({a, b, c}) \in {a, b, c} /\ \A x \in {a, b, c} : Least({a, b, c}) <= x
  BY <1>1, Zenon DEF Least
<1> QED
  BY <1>2, Zenon

\* A chunk fits both windows.
LEMMA ChunkFacts ==
  ASSUME HTypes, Active, left > 0, Budget > 0
  PROVE  /\ ChunkLen \in 1..left
         /\ ChunkLen <= connWin /\ ChunkLen <= streamWin[Slot(cur.s)]
<1>1. cur.s \in Streams /\ streamWin \in [0..(Slots - 1) -> Int] /\ connWin \in Int /\ left \in Nat
  BY Zenon DEF HTypes
<1>2. Slot(cur.s) \in 0..(Slots - 1)
  BY <1>1, SlotRange, Zenon
<1>3. PICK w \in Int : w = streamWin[Slot(cur.s)]
  BY <1>1, <1>2, Zenon
<1>4. Budget \in Int /\ Budget <= w /\ Budget <= connWin
  <2>1. MaxFrame \in Int
    BY WindowsAssumption
  <2>2. Budget = Least({w, connWin, MaxFrame})
    BY <1>3, Zenon DEF Budget
  <2>3. Budget \in {w, connWin, MaxFrame} /\ Budget <= w /\ Budget <= connWin
    BY <1>1, <2>1, <2>2, LeastOfThree, Zenon
  <2> QED
    BY <1>1, <2>1, <2>3, Zenon
<1>5. ChunkLen \in {Budget, left} /\ ChunkLen <= Budget /\ ChunkLen <= left
  <2>1. left \in Int
    BY <1>1
  <2> QED
    BY <1>4, <2>1, LeastOfTwo, Zenon DEF ChunkLen
<1> QED
  BY <1>1, <1>3, <1>4, <1>5

\* recv_frame gives back the parked frame, or takes the next one from the wire.
Park(f) == <<f>> \o Parked
\* A read takes the parked frame if there is one, and the first of the wire otherwise.
LEMMA ReadFacts ==
  ASSUME HTypes, NEW f \in Frames
  PROVE  /\ f \in FrameSet /\ Parked = << >> /\ Park(f) = <<f>>
         /\ \/ pending # << >> /\ f = pending[1] /\ Len(pending) = 1
            \/ pending = << >> /\ wire # << >> /\ f = wire[1] /\ f.t \notin House
<1>1. CASE pending # << >>
  <2>1. f = pending[1] /\ f \in FrameSet /\ Len(pending) \in Nat \ {0} /\ Len(Tail(pending)) = Len(pending) - 1
        /\ Tail(pending) \in Seq(FrameSet)
    BY <1>1, TailFacts DEF Frames, HTypes
  <2>2. Len(pending) = 1 /\ Len(Tail(pending)) = 0
    BY <2>1 DEF HTypes
  <2>3. Tail(pending) = << >>
    BY <2>1, <2>2, EmptySeq, Zenon
  <2>4. Parked = << >>
    BY <1>1, <2>3, Zenon DEF Parked
  <2>5. <<f>> \o << >> = <<f>>
    <3>1. <<f>> \in Seq(FrameSet)
      BY <2>1
    <3> QED
      BY <3>1, ConcatEmptySeq, Zenon
  <2> QED
    BY <1>1, <2>1, <2>2, <2>4, <2>5, Zenon DEF Park
<1>2. CASE pending = << >>
  <2>1. wire # << >> /\ f = Head(wire) /\ f.t \notin House
    BY <1>2, Zenon DEF Frames
  <2>2. f = wire[1] /\ f \in FrameSet
    BY <2>1, TailFacts DEF HTypes
  <2>3. <<f>> \o << >> = <<f>>
    <3>1. <<f>> \in Seq(FrameSet)
      BY <2>2
    <3> QED
      BY <3>1, ConcatEmptySeq, Zenon
  <2> QED
    BY <1>2, <2>1, <2>2, <2>3, Zenon DEF Parked, Park
<1> QED
  BY <1>1, <1>2, Zenon

\* What reading a frame may do to the frames on their way.
Takes(f) ==
  /\ pending' \in {<< >>, <<f>>}
  /\ \/ pending # << >> /\ f = pending[1] /\ Len(pending) = 1 /\ wire' = wire
     \/ pending = << >> /\ wire # << >> /\ f = wire[1] /\ f.t \notin House /\ wire' = Tail(wire)

\* A consumed frame leaves the queues well typed, at most one frame parked.
LEMMA ConsumeFacts ==
  ASSUME HTypes, NEW f \in Frames, Consume(Parked) \/ Consume(Park(f))
  PROVE  /\ Takes(f) /\ f \in FrameSet
         /\ wire' \in Seq(FrameSet) /\ pending' \in Seq(FrameSet) /\ Len(pending') <= 1
         /\ Consume(Parked) => pending' = << >>
<1>1. f \in FrameSet /\ Takes(f)
  BY ReadFacts, Zenon DEF Takes, Consume
<1>2. wire' \in Seq(FrameSet)
  <2>1. wire \in Seq(FrameSet)
    BY Zenon DEF HTypes
  <2>2. wire # << >> => Tail(wire) \in Seq(FrameSet)
    BY <2>1, TailFacts, Zenon
  <2> QED
    BY <1>1, <2>1, <2>2, Zenon DEF Takes
<1>3. << >> \in Seq(FrameSet) /\ Len(<< >>) = 0 /\ <<f>> \in Seq(FrameSet) /\ Len(<<f>>) = 1
  BY <1>1
<1>4. pending' \in Seq(FrameSet) /\ Len(pending') <= 1
  <2>1. CASE pending' = << >>
    BY <1>3, <2>1
  <2>2. CASE pending' = <<f>>
    BY <1>3, <2>2
  <2> QED
    BY <1>1, <2>1, <2>2, Zenon DEF Takes
<1>5. Consume(Parked) => pending' = << >>
  BY ReadFacts, Zenon DEF Consume
<1> QED
  BY <1>1, <1>2, <1>4, <1>5, Zenon

\* The read actions, reduced to what they take and where the thread goes.
ReadStep == \E f \in Frames :
  /\ Takes(f) /\ f \in FrameSet
  /\ wire' \in Seq(FrameSet) /\ pending' \in Seq(FrameSet) /\ Len(pending') <= 1
  /\ \/ /\ pc = "main" /\ f.t = "HEADERS" /\ pending' = << >>
        /\ cur' = [s |-> f.s, kind |-> f.kind, end |-> f.end, got |-> 0]
        /\ pc' \in {"cont", "dispatch", "msg"}
     \/ pc = "main" /\ pc' \in {"main", "closed"} /\ cur' = cur
     \/ pc = "cont" /\ pc' \in {"cont", "dispatch", "msg"} /\ cur' = cur
     \/ pc = "msg" /\ pc' \in {"main", "closed", "dispatch", "msg"} /\ cur' \in Rpcs /\ cur'.s = cur.s
     \/ pc = "send" /\ pc' = "send" /\ cur' = cur
  /\ UNCHANGED <<client, windows, left, after, phase, paid, ver, loop>>

\* Each place that reads a frame takes one, as Takes says.
LEMMA ReadsAre ==
  ASSUME HTypes, ReadMain \/ ReadCont \/ ReadMsg \/ ReadBlocked
  PROVE  ReadStep
<1>1. CASE ReadMain
  <2>1. PICK f \in Frames :
          /\ Consume(Parked)
          /\ IF f.t = "HEADERS"
             THEN /\ cur' = [s |-> f.s, kind |-> f.kind, end |-> f.end, got |-> 0]
                  /\ pc' = IF ~f.whole THEN "cont" ELSE IF f.end THEN "dispatch" ELSE "msg"
             ELSE pc' = (IF f.t = "GOAWAY" THEN "closed" ELSE pc) /\ UNCHANGED cur
    BY <1>1, Zenon DEF ReadMain
  <2>2. /\ Takes(f) /\ f \in FrameSet /\ pending' = << >>
        /\ wire' \in Seq(FrameSet) /\ pending' \in Seq(FrameSet) /\ Len(pending') <= 1
    BY <2>1, ConsumeFacts, Zenon
  <2>3. pc = "main" /\ UNCHANGED <<client, windows, left, after, phase, paid, ver, loop>>
    BY <1>1, Zenon DEF ReadMain
  <2> QED
    BY <2>1, <2>2, <2>3, Zenon DEF ReadStep
<1>2. CASE ReadCont
  <2>1. PICK f \in Frames :
          /\ Consume(Parked) \/ Consume(Park(f))
          /\ pc' \in {"cont", "dispatch", "msg"}
    BY <1>2, Zenon DEF ReadCont, Park
  <2>2. /\ Takes(f) /\ f \in FrameSet
        /\ wire' \in Seq(FrameSet) /\ pending' \in Seq(FrameSet) /\ Len(pending') <= 1
    BY <2>1, ConsumeFacts, Zenon
  <2>3. pc = "cont" /\ cur' = cur /\ UNCHANGED <<client, windows, left, after, phase, paid, ver, loop>>
    BY <1>2, Zenon DEF ReadCont
  <2> QED
    BY <2>1, <2>2, <2>3, Zenon DEF ReadStep
<1>3. CASE ReadMsg
  <2>1. PICK f \in Frames :
          /\ Consume(Parked) \/ Consume(Park(f))
          /\ cur' = cur \/ cur' = [cur EXCEPT !.got = @ + 1]
          /\ pc' \in {"main", "closed", "dispatch", "msg"}
    BY <1>3, Zenon DEF ReadMsg, Park
  <2>2. /\ Takes(f) /\ f \in FrameSet
        /\ wire' \in Seq(FrameSet) /\ pending' \in Seq(FrameSet) /\ Len(pending') <= 1
    BY <2>1, ConsumeFacts, Zenon
  <2>3. pc = "msg" /\ UNCHANGED <<client, windows, left, after, phase, paid, ver, loop>>
    BY <1>3, Zenon DEF ReadMsg
  <2>4. cur' \in Rpcs /\ cur'.s = cur.s
    <3>1. cur \in Rpcs
      BY Zenon DEF HTypes
    <3> QED
      BY <2>1, <3>1 DEF Rpcs
  <2> QED
    BY <2>1, <2>2, <2>3, <2>4, Zenon DEF ReadStep
<1>4. CASE ReadBlocked
  <2>1. PICK f \in Frames : Consume(Parked) \/ Consume(Park(f))
    BY <1>4, Zenon DEF ReadBlocked, Park
  <2>2. /\ Takes(f) /\ f \in FrameSet
        /\ wire' \in Seq(FrameSet) /\ pending' \in Seq(FrameSet) /\ Len(pending') <= 1
    BY <2>1, ConsumeFacts, Zenon
  <2>3. pc = "send" /\ cur' = cur /\ pc' = pc
        /\ UNCHANGED <<client, windows, left, after, phase, paid, ver, loop>>
    BY <1>4, Zenon DEF ReadBlocked
  <2> QED
    BY <2>2, <2>3, Zenon DEF ReadStep
<1> QED
  BY <1>1, <1>2, <1>3, <1>4, Zenon

\* The connection begins well typed.
LEMMA InitHTypes == Init => HTypes
<1> SUFFICES ASSUME Init PROVE HTypes
  BY Zenon
<1>1. 0 \in 0..MaxStream /\ 0 \in Nat
  BY LengthsAssumption
<1>2. wire \in Seq(FrameSet)
  <2>1. WindowFrame("SETTINGS", 0, InitWin) \in FrameSet
    BY <1>1, OneFrame, WindowsAssumption, Zenon DEF Tags
  <2> QED
    BY <2>1 DEF Init
<1>3. << >> \in Seq(FrameSet) /\ Len(<< >>) = 0
  OBVIOUS
<1>4. unsent \in [Streams -> Seq(FrameSet)] /\ \A s \in Streams : Remainder(unsent[s], s)
  BY <1>3 DEF Init, Remainder
<1>5. cur \in Rpcs /\ ~Active
  BY <1>1, Zenon DEF Init, Active, Nobody, Rpcs, FrameKinds
<1>6. connWin \in Int /\ streamWin \in [0..(Slots - 1) -> Int]
  BY WindowsAssumption DEF Init
<1> QED
  BY <1>1, <1>2, <1>3, <1>4, <1>5, <1>6 DEF Init, HTypes

\* What the client appends to the wire besides requests.
Sends(f) == wire' = Append(wire, f) /\ f \in FrameSet /\ f.t \in {"WINDOW", "GOAWAY", "RST"}

\* A client that gives up sends no window update.
LEMMA AbortFacts ==
  ASSUME HTypes, ClientAbort
  PROVE  wire' = wire \/ \E f \in FrameSet : Sends(f) /\ f.t # "WINDOW"
<1>1. opened \in 0..MaxStream
  BY Zenon DEF HTypes
<1>2. 0 \in 0..MaxStream /\ \A s \in 1..opened : s \in 0..MaxStream
  BY <1>1, LengthsAssumption
<1>3. Frame("GOAWAY", 0) \in FrameSet /\ Frame("GOAWAY", 0).t = "GOAWAY"
  BY <1>2, OneFrame, Zenon DEF Tags
<1>4. \A s \in 1..opened : Frame("RST", s) \in FrameSet /\ Frame("RST", s).t = "RST"
  BY <1>2, OneFrame, Zenon DEF Tags
<1> QED
  BY <1>3, <1>4, Zenon DEF ClientAbort, Sends

\* The client's steps keep the types.
LEMMA ClientTypes ==
  ASSUME HTypes, ClientNext
  PROVE  HTypes'
<1>1. /\ wire \in Seq(FrameSet) /\ unsent \in [Streams -> Seq(FrameSet)] /\ opened \in 0..MaxStream
      /\ returned \in [0..MaxStream -> Nat] /\ paid \in [0..MaxStream -> Nat] /\ plan \in Plans
      /\ \A s \in Streams : Remainder(unsent[s], s)
  BY Zenon DEF HTypes
<1> DEFINE Rest == UNCHANGED <<pending, plan, windows, pc, cur, left, after, phase, paid, ver, loop>>
<1>2. ASSUME Rest, wire' \in Seq(FrameSet), unsent' \in [Streams -> Seq(FrameSet)],
             \A s \in Streams : Remainder(unsent'[s], s), opened' \in 0..MaxStream,
             returned' \in [0..MaxStream -> Nat]
      PROVE  HTypes'
  BY <1>2, Zenon DEF HTypes, Active, windows, loop
<1>3. CASE ClientOpen
  <2> DEFINE s == opened + 1
  <2>1. s \in Streams /\ s \in 1..Len(plan) /\ s \in 0..MaxStream
    BY <1>1, <1>3, PlansAssumption, LengthsAssumption DEF ClientOpen, Streams
  <2>2. unsent' = [unsent EXCEPT ![s] = RequestFrames(s, plan[s][2])] /\ opened' = s
        /\ UNCHANGED <<wire, returned>> /\ Rest
    BY <1>3, Zenon DEF ClientOpen
  <2>3. RequestFrames(s, plan[s][2]) \in Seq(FrameSet) /\ Remainder(RequestFrames(s, plan[s][2]), s)
    BY <1>1, <2>1, RequestFacts, Zenon
  <2> HIDE DEF s
  <2>4. unsent' \in [Streams -> Seq(FrameSet)] /\ \A t \in Streams : Remainder(unsent'[t], t)
    BY <1>1, <2>1, <2>2, <2>3, Zenon
  <2> QED
    BY <1>1, <1>2, <2>1, <2>2, <2>4, Zenon
<1>4. ASSUME NEW s \in Streams, ClientSend(s)
      PROVE  HTypes'
  <2> DEFINE q == unsent[s]
  <2>1. q \in Seq(FrameSet) /\ q # << >> /\ Remainder(q, s)
    BY <1>1, <1>4, Zenon DEF ClientSend
  <2>2. wire' = Append(wire, Head(q)) /\ unsent' = [unsent EXCEPT ![s] = Tail(q)]
        /\ UNCHANGED <<opened, returned>> /\ Rest
    BY <1>1, <1>4, Zenon DEF ClientSend
  <2> HIDE DEF q
  <2>3. /\ Len(q) \in Nat \ {0} /\ Tail(q) \in Seq(FrameSet) /\ Len(Tail(q)) = Len(q) - 1
        /\ Head(q) = q[1] /\ q[1] \in FrameSet
        /\ \A i \in 1..(Len(q) - 1) : Tail(q)[i] = q[i + 1]
    BY <2>1, TailFacts, Zenon
  <2>4. Remainder(Tail(q), s)
    <3>1. \A i \in 1..(Len(q) - 1) : i + 1 \in 1..Len(q) /\ i + 1 # 1
      BY <2>3
    <3> QED
      BY <2>1, <2>3, <3>1 DEF Remainder
  <2>5. wire' \in Seq(FrameSet)
    BY <1>1, <2>2, <2>3, AppendProperties, Zenon
  <2>6. unsent' \in [Streams -> Seq(FrameSet)] /\ \A t \in Streams : Remainder(unsent'[t], t)
    BY <1>1, <2>2, <2>3, <2>4, Zenon
  <2> QED
    BY <1>1, <1>2, <2>2, <2>5, <2>6, Zenon
<1>5. ASSUME NEW s \in 0..MaxStream, ClientGrant(s)
      PROVE  HTypes'
  <2>1. paid[s] - returned[s] \in Nat
    BY <1>1, <1>5 DEF ClientGrant
  <2>2. WindowFrame("WINDOW", s, paid[s] - returned[s]) \in FrameSet
    BY <2>1, OneFrame, Zenon DEF Tags
  <2>3. wire' \in Seq(FrameSet)
    BY <1>1, <1>5, <2>2, AppendProperties, Zenon DEF ClientGrant
  <2>4. returned' \in [0..MaxStream -> Nat]
    BY <1>1, <1>5, Zenon DEF ClientGrant
  <2>5. UNCHANGED <<unsent, opened>> /\ Rest
    BY <1>5, Zenon DEF ClientGrant
  <2> QED
    BY <1>1, <1>2, <2>3, <2>4, <2>5, Zenon
<1>6. CASE ClientAbort
  <2>1. wire' \in Seq(FrameSet)
    <3>1. \A f \in FrameSet : Append(wire, f) \in Seq(FrameSet)
      BY <1>1, AppendProperties, Zenon
    <3> QED
      BY <1>1, <1>6, <3>1, AbortFacts, Zenon DEF Sends
  <2>2. UNCHANGED <<unsent, opened, returned>> /\ Rest
    BY <1>6, Zenon DEF ClientAbort
  <2> QED
    BY <1>1, <1>2, <2>1, <2>2, Zenon
<1> QED
  BY <1>3, <1>4, <1>5, <1>6, Zenon DEF ClientNext

\* Serving moves no frames.
Phases == {"none", "open", "ended", "bad"}
ServeStep ==
  /\ Active /\ UNCHANGED <<wire, client, pending, cur, ver>>
  /\ pc' \in {"main", "closed", "send", "peek", "wait"}
  /\ \/ phase' = phase
     \/ \E tag \in {"H", "D", "E"} : phase' = [phase EXCEPT ![cur.s] = Seen(@, tag)]
  /\ left' \in Nat /\ after' \in {"main", "trailers", "sync", "tick"}
  /\ hash' \in Nat /\ lastHash' \in Nat \cup {None}
  /\ \/ UNCHANGED <<windows, paid>>
     \/ \E n \in Nat : /\ paid' = [paid EXCEPT ![cur.s] = @ + n, ![0] = @ + n]
                       /\ streamWin' = [streamWin EXCEPT ![Slot(cur.s)] = @ - n]
                       /\ connWin' = connWin - n
                       /\ n <= connWin /\ n <= streamWin[Slot(cur.s)]

\* The request handlers and the response's sending leave the frames alone.
LEMMA ServesAre ==
  ASSUME HTypes,
         \/ gnmi_handle_capabilities \/ gnmi_handle_get \/ StatusOnly \/ gnmi_handle_subscribe
         \/ SendChunk \/ SendDone \/ SendFail \/ StreamPeek \/ StreamWake
  PROVE  ServeStep
<1>1. /\ left \in Nat /\ ver \in Nat /\ hash \in Nat /\ lastHash \in Nat \cup {None}
      /\ after \in {"main", "trailers", "sync", "tick"} /\ ReplyLen \in Nat
  BY LengthsAssumption, Zenon DEF HTypes
<1>2. CASE gnmi_handle_capabilities \/ gnmi_handle_get
  BY <1>1, <1>2, Zenon DEF gnmi_handle_capabilities, gnmi_handle_get, At, Reply, Write, Serving, ServeStep, Active
<1>3. CASE StatusOnly
  BY <1>1, <1>3, Zenon DEF StatusOnly, At, Write, Serving, ServeStep, Active
<1>4. CASE gnmi_handle_subscribe
  BY <1>1, <1>4, Zenon DEF gnmi_handle_subscribe, At, Reply, Write, Serving, ServeStep, Active
<1>5. CASE SendChunk
  <2>1. Active /\ left > 0 /\ Budget > 0
    BY <1>5, Zenon DEF SendChunk, Active
  <2>2. ChunkLen \in 1..left /\ ChunkLen <= connWin /\ ChunkLen <= streamWin[Slot(cur.s)]
    BY <2>1, ChunkFacts, Zenon
  <2>3. PICK n \in Nat : n = ChunkLen /\ left - n \in Nat
    BY <1>1, <2>2
  <2>4. phase' = [phase EXCEPT ![cur.s] = Seen(@, "D")] /\ left' = left - n
        /\ paid' = [paid EXCEPT ![cur.s] = @ + n, ![0] = @ + n]
        /\ streamWin' = [streamWin EXCEPT ![Slot(cur.s)] = @ - n] /\ connWin' = connWin - n
        /\ pc' = "send" /\ UNCHANGED <<wire, client, pending, cur, after, ver, loop>>
    BY <1>5, <2>3, Zenon DEF SendChunk, Write, Charge
  <2> QED
    BY <1>1, <2>1, <2>2, <2>3, <2>4, Zenon DEF ServeStep, loop
<1>6. CASE SendDone
  BY <1>1, <1>6 DEF SendDone, Write, ServeStep, Active
<1>7. CASE SendFail
  BY <1>1, <1>7, Zenon DEF SendFail, ServeStep, Active, loop
<1>8. CASE StreamPeek
  BY <1>1, <1>8, Zenon DEF StreamPeek, ContentHash, ServeStep, Active
<1>9. CASE StreamWake
  BY <1>1, <1>9, Zenon DEF StreamWake, Write, ServeStep, Active
<1> QED
  BY <1>2, <1>3, <1>4, <1>5, <1>6, <1>7, <1>8, <1>9, Zenon

\* Every step keeps the types.
LEMMA StepHTypes ==
  ASSUME HTypes, [Next]_vars
  PROVE  HTypes'
<1>1. /\ wire \in Seq(FrameSet) /\ cur \in Rpcs /\ (Active => cur.s \in Streams)
      /\ connWin \in Int /\ streamWin \in [0..(Slots - 1) -> Int]
      /\ phase \in [Streams -> Phases] /\ paid \in [0..MaxStream -> Nat]
  BY Zenon DEF HTypes, Phases
<1>2. CASE ClientNext
  BY <1>2, ClientTypes, Zenon
<1>3. CASE ReadHouse
  <2> DEFINE f == wire[1]
  <2>1. wire # << >> /\ Housekeeping(f) /\ wire' = Tail(wire) /\ wire' \in Seq(FrameSet) /\ f \in FrameSet
        /\ UNCHANGED <<client, pending, pc, cur, left, after, phase, paid, ver, loop>>
    BY <1>1, <1>3, TailFacts, Zenon DEF ReadHouse
  <2>2. f.n \in Nat /\ f.s \in 0..MaxStream
    BY <2>1, Zenon DEF FrameSet, AnyFrames
  <2>3. f.s # 0 => Slot(f.s) \in 0..(Slots - 1)
    BY <2>2, SlotRange, LengthsAssumption DEF Streams
  <2> HIDE DEF f
  <2>4. connWin' \in Int /\ streamWin' \in [0..(Slots - 1) -> Int]
    BY <1>1, <2>1, <2>2, <2>3 DEF Housekeeping, windows
  <2> QED
    BY <2>1, <2>4, Zenon DEF HTypes, Active, client, loop
<1>4. CASE ReadEof
  BY <1>4, Zenon DEF ReadEof, HTypes, Active, client, windows, loop
<1>5. CASE ReadMain \/ ReadCont \/ ReadMsg \/ ReadBlocked
  <2>1. ReadStep
    BY <1>5, ReadsAre, Zenon
  <2>2. PICK f \in Frames :
    /\ f \in FrameSet /\ wire' \in Seq(FrameSet) /\ pending' \in Seq(FrameSet) /\ Len(pending') <= 1
    /\ \/ /\ f.t = "HEADERS"
          /\ cur' = [s |-> f.s, kind |-> f.kind, end |-> f.end, got |-> 0]
       \/ (Active' => Active) /\ cur' \in Rpcs /\ cur'.s = cur.s
    /\ pc' \in {"main", "closed", "cont", "msg", "dispatch", "send"}
    /\ UNCHANGED <<client, windows, left, after, phase, paid, ver, loop>>
    BY <1>1, <2>1, Zenon DEF ReadStep, Active
  <2>3. cur' \in Rpcs /\ (Active' => cur'.s \in Streams)
    <3>1. CASE f.t = "HEADERS" /\ cur' = [s |-> f.s, kind |-> f.kind, end |-> f.end, got |-> 0]
      BY <2>2, <3>1, Zenon DEF FrameSet, AnyFrames, Rpcs
    <3>2. CASE (Active' => Active) /\ cur' \in Rpcs /\ cur'.s = cur.s
      BY <1>1, <3>2, Zenon
    <3> QED
      BY <2>2, <3>1, <3>2, Zenon
  <2> QED
    BY <2>2, <2>3, Zenon DEF HTypes, client, windows, loop
<1>6. CASE ServeStep
  <2>1. cur.s \in Streams /\ cur.s \in 0..MaxStream /\ Slot(cur.s) \in 0..(Slots - 1) /\ 0 \in 0..MaxStream
    <3>1. cur.s \in Streams
      BY <1>1, <1>6, Zenon DEF ServeStep
    <3>2. 0 \in 0..MaxStream /\ \A s \in Streams : s \in 0..MaxStream
      BY LengthsAssumption DEF Streams
    <3> QED
      BY <3>1, <3>2, SlotRange, Zenon
  <2>2. phase' \in [Streams -> Phases]
    BY <1>1, <1>6, <2>1, Zenon DEF ServeStep, Seen, Phases
  <2>3. paid' \in [0..MaxStream -> Nat] /\ connWin' \in Int /\ streamWin' \in [0..(Slots - 1) -> Int]
    <3>1. CASE UNCHANGED <<windows, paid>>
      BY <1>1, <3>1, Zenon DEF windows
    <3>2. ASSUME NEW n \in Nat, paid' = [paid EXCEPT ![cur.s] = @ + n, ![0] = @ + n],
                 streamWin' = [streamWin EXCEPT ![Slot(cur.s)] = @ - n], connWin' = connWin - n
          PROVE  paid' \in [0..MaxStream -> Nat] /\ connWin' \in Int
                 /\ streamWin' \in [0..(Slots - 1) -> Int]
      <4>1. connWin' \in Int
        BY <1>1, <3>2
      <4>2. \A i \in 0..(Slots - 1) : streamWin[i] - n \in Int
        BY <1>1
      <4>3. streamWin' \in [0..(Slots - 1) -> Int]
        BY <1>1, <3>2, <4>2, Zenon
      <4>4. /\ \A s \in 0..MaxStream : paid[s] + n \in Nat
            /\ \A s \in 0..MaxStream : paid[s] + n + n \in Nat
        BY <1>1
      <4>5. paid' \in [0..MaxStream -> Nat]
        BY <1>1, <2>1, <3>2, <4>4, Zenon
      <4> QED
        BY <4>1, <4>3, <4>5, Zenon
    <3> QED
      BY <1>6, <3>1, <3>2, Zenon DEF ServeStep
  <2> QED
    BY <1>6, <2>1, <2>2, <2>3, Zenon DEF ServeStep, HTypes, client, Phases
<1>7. CASE StoreChange
  BY <1>7 DEF StoreChange, HTypes, Active, client, windows, loop
<1>8. CASE UNCHANGED vars
  BY <1>8, Zenon DEF vars, HTypes, Active, client, windows, loop
<1> QED
  BY <1>2, <1>3, <1>4, <1>5, <1>6, <1>7, <1>8, ServesAre, Zenon DEF Next, ServerNext

-----------------------------------------------------------------------------
(* The order of frames on a stream: the HEADERS of a stream are in one place at a time and
   are served once. *)

IsHeaders(f, s) == f.t = "HEADERS" /\ f.s = s
InUnsent(s) == unsent[s] # << >> /\ IsHeaders(unsent[s][1], s)
InWire(s) == \E i \in 1..Len(wire) : IsHeaders(wire[i], s)
InPending(s) == pending # << >> /\ IsHeaders(pending[1], s)

\* The stream has not been served.
Waits(s) == s > opened \/ InUnsent(s) \/ InWire(s) \/ InPending(s)

Unique(q) ==
  \A i, j \in 1..Len(q) : \A s \in Streams : IsHeaders(q[i], s) /\ IsHeaders(q[j], s) => i = j

PlacedOnce ==
  /\ Unique(wire)
  /\ \A s \in Streams :
       /\ InUnsent(s) => s <= opened /\ ~InWire(s) /\ ~InPending(s)
       /\ InWire(s) => s <= opened /\ ~InPending(s)
       /\ InPending(s) => s <= opened

\* One more frame on the wire, and one less.
LEMMA AppendHeaders ==
  ASSUME NEW q \in Seq(FrameSet), NEW f \in FrameSet, NEW s \in Streams
  PROVE  (\E i \in 1..Len(Append(q, f)) : IsHeaders(Append(q, f)[i], s))
           <=> (IsHeaders(f, s) \/ \E i \in 1..Len(q) : IsHeaders(q[i], s))
<1> DEFINE r == Append(q, f)
<1>1. Len(q) \in Nat /\ Len(r) = Len(q) + 1 /\ r[Len(q) + 1] = f /\ \A i \in 1..Len(q) : r[i] = q[i]
  BY AppendProperties
<1> HIDE DEF r
<1>2. \A i \in 1..Len(r) : i = Len(q) + 1 \/ i \in 1..Len(q)
  BY <1>1
<1>3. Len(q) + 1 \in 1..Len(r) /\ \A i \in 1..Len(q) : i \in 1..Len(r)
  BY <1>1
<1>4. (\E i \in 1..Len(r) : IsHeaders(r[i], s))
        <=> (IsHeaders(f, s) \/ \E i \in 1..Len(q) : IsHeaders(q[i], s))
  BY <1>1, <1>2, <1>3, Zenon
<1> QED
  BY <1>4, Zenon DEF r

\* A HEADERS frame for a new stream keeps the requests in a queue distinct.
LEMMA AppendUnique ==
  ASSUME NEW q \in Seq(FrameSet), NEW f \in FrameSet, Unique(q),
         \A s \in Streams : IsHeaders(f, s) => ~ \E i \in 1..Len(q) : IsHeaders(q[i], s)
  PROVE  Unique(Append(q, f))
<1> DEFINE r == Append(q, f)
<1>1. Len(q) \in Nat /\ Len(r) = Len(q) + 1 /\ r[Len(q) + 1] = f /\ \A i \in 1..Len(q) : r[i] = q[i]
  BY AppendProperties
<1> HIDE DEF r
<1>2. \A i \in 1..Len(r) : i = Len(q) + 1 \/ i \in 1..Len(q)
  BY <1>1
<1>3. Unique(r)
  BY <1>1, <1>2, Zenon DEF Unique
<1> QED
  BY <1>3, Zenon DEF r

\* Taking a frame removes at most the HEADERS of its own stream.
LEMMA TailHeaders ==
  ASSUME NEW q \in Seq(FrameSet), q # << >>, Unique(q)
  PROVE  /\ Unique(Tail(q))
         /\ \A s \in Streams :
              (\E i \in 1..Len(Tail(q)) : IsHeaders(Tail(q)[i], s))
                <=> (~IsHeaders(q[1], s) /\ \E i \in 1..Len(q) : IsHeaders(q[i], s))
<1> DEFINE r == Tail(q)
<1>1. Len(q) \in Nat \ {0} /\ Len(r) = Len(q) - 1 /\ \A i \in 1..(Len(q) - 1) : r[i] = q[i + 1]
  BY TailFacts, Zenon
<1> HIDE DEF r
<1>2. \A i \in 1..Len(r) : i + 1 \in 1..Len(q) /\ r[i] = q[i + 1] /\ i + 1 # 1 /\ i \in Nat
  BY <1>1
<1>3. \A i \in 1..Len(q) : i = 1 \/ (i - 1 \in 1..Len(r) /\ r[i - 1] = q[i])
  BY <1>1
<1>4. Unique(r)
  <2> SUFFICES ASSUME NEW i \in 1..Len(r), NEW j \in 1..Len(r), NEW s \in Streams,
                      IsHeaders(r[i], s), IsHeaders(r[j], s)
               PROVE  i = j
    BY Zenon DEF Unique
  <2>1. i + 1 = j + 1
    BY <1>2, Zenon DEF Unique
  <2> QED
    BY <1>2, <2>1
<1>5. 1 \in 1..Len(q)
  BY <1>1
<1>6. ASSUME NEW s \in Streams
      PROVE  (\E i \in 1..Len(r) : IsHeaders(r[i], s))
               <=> (~IsHeaders(q[1], s) /\ \E i \in 1..Len(q) : IsHeaders(q[i], s))
  <2>1. ASSUME NEW i \in 1..Len(r), IsHeaders(r[i], s)
        PROVE  ~IsHeaders(q[1], s) /\ \E j \in 1..Len(q) : IsHeaders(q[j], s)
    BY <1>2, <1>5, <2>1, Zenon DEF Unique
  <2>2. ASSUME ~IsHeaders(q[1], s), NEW i \in 1..Len(q), IsHeaders(q[i], s)
        PROVE  \E j \in 1..Len(r) : IsHeaders(r[j], s)
    BY <1>3, <2>2, Zenon
  <2> QED
    BY <2>1, <2>2, Zenon
<1> QED
  BY <1>4, <1>6, Zenon DEF r

\* Reading a frame takes it out, or parks it.
LEMMA TakePlaced ==
  ASSUME HTypes, PlacedOnce, NEW f \in FrameSet, Takes(f), UNCHANGED <<unsent, opened>>
  PROVE  /\ PlacedOnce'
         /\ \A s \in Streams : Waits(s)' => Waits(s)
         /\ pending' = << >> => \A s \in Streams : IsHeaders(f, s) => Waits(s) /\ ~Waits(s)'
<1>1. wire \in Seq(FrameSet) /\ Unique(wire)
  BY Zenon DEF HTypes, PlacedOnce
<1>2. \A s \in Streams : InPending(s)' => IsHeaders(f, s) /\ pending' # << >>
  <2>1. <<f>>[1] = f
    BY Zenon
  <2> QED
    BY <2>1, Zenon DEF Takes, InPending
<1>3. \A s \in Streams : InUnsent(s)' <=> InUnsent(s)
  BY Zenon DEF InUnsent
<1>4. CASE pending # << >> /\ f = pending[1] /\ wire' = wire
  <2>1. \A s \in Streams : (InWire(s)' <=> InWire(s)) /\ (IsHeaders(f, s) => InPending(s))
    BY <1>4, Zenon DEF InWire, InPending
  <2>2. PlacedOnce'
    BY <1>1, <1>2, <1>3, <1>4, <2>1, Zenon DEF PlacedOnce
  <2>3. \A s \in Streams : Waits(s)' => Waits(s)
    BY <1>2, <1>3, <2>1, Zenon DEF Waits
  <2>4. ASSUME pending' = << >>, NEW s \in Streams, IsHeaders(f, s)
        PROVE  Waits(s) /\ ~Waits(s)'
    <3>1. InPending(s) /\ ~InPending(s)'
      BY <1>2, <2>1, <2>4, Zenon
    <3>2. ~InUnsent(s) /\ ~InWire(s) /\ s <= opened /\ s \in Int /\ opened \in Int
      BY <3>1, LengthsAssumption DEF PlacedOnce, HTypes, Streams
    <3> QED
      BY <1>3, <2>1, <3>1, <3>2 DEF Waits
  <2> QED
    BY <2>2, <2>3, <2>4, Zenon
<1>5. CASE pending = << >> /\ wire # << >> /\ f = wire[1] /\ wire' = Tail(wire)
  <2>1. Unique(wire') /\ \A s \in Streams : InWire(s)' <=> ~IsHeaders(f, s) /\ InWire(s)
    BY <1>1, <1>5, TailHeaders, Zenon DEF InWire
  <2>2. \A s \in Streams : ~InPending(s) /\ (IsHeaders(f, s) => InWire(s))
    <3>1. 1 \in 1..Len(wire)
      BY <1>1, <1>5, TailFacts
    <3> QED
      BY <1>5, <3>1, Zenon DEF InPending, InWire
  <2>3. PlacedOnce'
    BY <1>2, <1>3, <2>1, <2>2, Zenon DEF PlacedOnce
  <2>4. \A s \in Streams : Waits(s)' => Waits(s)
    BY <1>2, <1>3, <2>1, <2>2, Zenon DEF Waits
  <2>5. ASSUME pending' = << >>, NEW s \in Streams, IsHeaders(f, s)
        PROVE  Waits(s) /\ ~Waits(s)'
    <3>1. InWire(s) /\ ~InWire(s)' /\ ~InPending(s)'
      BY <1>2, <2>1, <2>2, <2>5, Zenon
    <3>2. ~InUnsent(s) /\ s <= opened /\ s \in Int /\ opened \in Int
      BY <3>1, LengthsAssumption DEF PlacedOnce, HTypes, Streams
    <3> QED
      BY <1>3, <3>1, <3>2 DEF Waits
  <2> QED
    BY <2>3, <2>4, <2>5, Zenon
<1> QED
  BY <1>4, <1>5, Zenon DEF Takes

\* The client writes each request's HEADERS once.
LEMMA ClientPlaced ==
  ASSUME HTypes, PlacedOnce, ClientNext
  PROVE  PlacedOnce' /\ \A s \in Streams : Waits(s)' => Waits(s)
<1>1. /\ wire \in Seq(FrameSet) /\ unsent \in [Streams -> Seq(FrameSet)] /\ opened \in 0..MaxStream
      /\ plan \in Plans /\ Unique(wire) /\ \A s \in Streams : Remainder(unsent[s], s)
  BY Zenon DEF HTypes, PlacedOnce
<1>2. opened \in Int /\ \A s \in Streams : s \in Int /\ s \in Nat
  BY <1>1, LengthsAssumption DEF Streams
<1>3. ASSUME pending' = pending, unsent' = unsent, opened' = opened, NEW f \in FrameSet,
             wire' = Append(wire, f), f.t # "HEADERS"
      PROVE  PlacedOnce' /\ \A s \in Streams : Waits(s)' => Waits(s)
  <2>1. \A s \in Streams : ~IsHeaders(f, s)
    BY <1>3, Zenon DEF IsHeaders
  <2>2. Unique(wire') /\ \A s \in Streams : InWire(s)' <=> InWire(s)
    BY <1>1, <1>3, <2>1, AppendUnique, AppendHeaders, Zenon DEF InWire
  <2>3. \A s \in Streams : (InUnsent(s)' <=> InUnsent(s)) /\ (InPending(s)' <=> InPending(s))
    BY <1>3, Zenon DEF InUnsent, InPending
  <2> QED
    BY <1>3, <2>2, <2>3, Zenon DEF PlacedOnce, Waits
<1>4. CASE ClientOpen
  <2>1. PICK s \in Int : s = opened + 1
    BY <1>2
  <2>2. opened' = s /\ unsent' = [unsent EXCEPT ![s] = RequestFrames(s, plan[s][2])]
        /\ UNCHANGED <<wire, pending>>
    BY <1>4, <2>1, Zenon DEF ClientOpen
  <2>3. \A t \in Streams : (InWire(t)' <=> InWire(t)) /\ (InPending(t)' <=> InPending(t))
                           /\ (t # s => (InUnsent(t)' <=> InUnsent(t)))
    BY <1>1, <2>2, Zenon DEF InWire, InPending, InUnsent
  <2>4. \A t \in Streams : t <= opened => t <= s /\ t # s
    BY <1>2, <2>1
  <2>5. \A t \in Streams : (t > s => t > opened) /\ (t = s => t > opened) /\ (t = s => t <= s)
    BY <1>2, <2>1
  <2>6. \A t \in Streams : t = s => ~InWire(t) /\ ~InPending(t)
    BY <2>4, Zenon DEF PlacedOnce
  <2>7. PlacedOnce'
    BY <2>2, <2>3, <2>4, <2>5, <2>6, Zenon DEF PlacedOnce
  <2>8. \A t \in Streams : Waits(t)' => Waits(t)
    BY <2>2, <2>3, <2>5, Zenon DEF Waits
  <2> QED
    BY <2>7, <2>8, Zenon
<1>5. ASSUME NEW s \in Streams, ClientSend(s)
      PROVE  PlacedOnce' /\ \A t \in Streams : Waits(t)' => Waits(t)
  <2> DEFINE q == unsent[s]
  <2>1. q \in Seq(FrameSet) /\ q # << >> /\ Remainder(q, s)
    BY <1>1, <1>5, Zenon DEF ClientSend
  <2>2. wire' = Append(wire, q[1]) /\ unsent' = [unsent EXCEPT ![s] = Tail(q)]
        /\ UNCHANGED <<opened, pending>>
    BY <1>1, <1>5, <2>1, TailFacts, Zenon DEF ClientSend
  <2>3. /\ Len(q) \in Nat \ {0} /\ Tail(q) \in Seq(FrameSet) /\ Len(Tail(q)) = Len(q) - 1
        /\ q[1] \in FrameSet /\ \A i \in 1..(Len(q) - 1) : Tail(q)[i] = q[i + 1]
    BY <2>1, TailFacts, Zenon
  <2>4. ~InUnsent(s)'
    <3>1. unsent'[s] = Tail(q)
      BY <1>1, <2>2, Zenon
    <3>2. CASE Tail(q) = << >>
      BY <3>1, <3>2, Zenon DEF InUnsent
    <3>3. CASE Tail(q) # << >>
      <4>1. Len(Tail(q)) \in Nat \ {0}
        BY <2>3, <3>3, EmptySeq, Zenon
      <4>2. 2 \in 1..Len(q) /\ Tail(q)[1] = q[2]
        <5>1. PICK m \in Nat : m = Len(q)
          BY <2>3, Zenon
        <5>2. m - 1 \in Nat \ {0}
          BY <2>3, <4>1, <5>1, Zenon
        <5>3. 2 \in 1..m /\ 1 \in 1..(m - 1) /\ 1 + 1 = 2
          BY <5>2
        <5>4. Tail(q)[1] = q[1 + 1]
          BY <2>3, <5>1, <5>3, Zenon
        <5> QED
          BY <5>1, <5>3, <5>4, Zenon
      <4>3. q[2].t # "HEADERS"
        BY <2>1, <4>2 DEF Remainder
      <4> QED
        BY <3>1, <4>2, <4>3, Zenon DEF InUnsent, IsHeaders
    <3> QED
      BY <3>2, <3>3, Zenon
  <2>5. \A t \in Streams : IsHeaders(q[1], t) => t = s /\ InUnsent(s)
    <3>1. q[1].s = s
      BY <2>1, <2>3 DEF Remainder
    <3> QED
      BY <2>1, <3>1, Zenon DEF IsHeaders, InUnsent
  <2> HIDE DEF q
  <2>6. Unique(wire')
    <3>1. \A t \in Streams : IsHeaders(q[1], t) => ~InWire(t)
      BY <2>5, Zenon DEF PlacedOnce
    <3> QED
      BY <1>1, <2>2, <2>3, <3>1, AppendUnique, Zenon DEF InWire
  <2>7. \A t \in Streams : InWire(t)' <=> IsHeaders(q[1], t) \/ InWire(t)
    BY <1>1, <2>2, <2>3, AppendHeaders, Zenon DEF InWire
  <2>8. \A t \in Streams : (InPending(t)' <=> InPending(t)) /\ (t # s => (InUnsent(t)' <=> InUnsent(t)))
    BY <1>1, <2>2, Zenon DEF InPending, InUnsent
  <2>9. PlacedOnce'
    BY <2>2, <2>4, <2>5, <2>6, <2>7, <2>8, Zenon DEF PlacedOnce
  <2>10. \A t \in Streams : Waits(t)' => Waits(t)
    BY <2>2, <2>4, <2>5, <2>7, <2>8, Zenon DEF Waits
  <2> QED
    BY <2>9, <2>10, Zenon
<1>6. ASSUME NEW s \in 0..MaxStream, ClientGrant(s)
      PROVE  PlacedOnce' /\ \A t \in Streams : Waits(t)' => Waits(t)
  <2>1. paid[s] - returned[s] \in Nat
    BY <1>6 DEF ClientGrant, HTypes
  <2>2. PICK f : f = WindowFrame("WINDOW", s, paid[s] - returned[s])
    BY Zenon
  <2>3. f \in FrameSet /\ f.t = "WINDOW"
    BY <2>1, <2>2, OneFrame DEF Tags
  <2> QED
    BY <1>3, <1>6, <2>2, <2>3, Zenon DEF ClientGrant
<1>7. CASE ClientAbort
  <2>1. UNCHANGED <<pending, unsent, opened>>
    BY <1>7, Zenon DEF ClientAbort
  <2>2. CASE wire' = wire
    BY <2>1, <2>2, Zenon DEF PlacedOnce, Waits, Unique, InWire, InUnsent, InPending
  <2>3. ASSUME NEW f \in FrameSet, Sends(f)
        PROVE  PlacedOnce' /\ \A s \in Streams : Waits(s)' => Waits(s)
    BY <1>3, <2>1, <2>3, Zenon DEF Sends
  <2> QED
    BY <1>7, <2>2, <2>3, AbortFacts, Zenon
<1> QED
  BY <1>4, <1>5, <1>6, <1>7, Zenon DEF ClientNext

\* Serving and changes of the store leave the frames where they are.
LEMMA SamePlaces ==
  ASSUME PlacedOnce, UNCHANGED <<wire, pending, unsent, opened>>
  PROVE  PlacedOnce' /\ \A s \in Streams : Waits(s)' => Waits(s)
BY Zenon DEF PlacedOnce, Waits, Unique, InWire, InUnsent, InPending

\* A stream that waits has seen nothing; where the thread is tells what the stream it
\* serves has seen.
OrderOK ==
  /\ \A s \in Streams : Waits(s) => phase[s] = "none" /\ ~(Active /\ cur.s = s)
  /\ pc \in {"cont", "msg", "dispatch"} => phase[cur.s] = "none"
  /\ pc = "send" => phase[cur.s] = "open" /\ (after = "tick" => lastHash # None)
  /\ pc \in {"peek", "wait"} => phase[cur.s] = IF lastHash = None THEN "none" ELSE "open"
  /\ \A s \in Streams : phase[s] # "bad"

\* Every step keeps each request in one place and the order of a stream's answers.
LEMMA StepOrder ==
  ASSUME HTypes, PlacedOnce, OrderOK, [Next]_vars
  PROVE  PlacedOnce' /\ OrderOK'
<1>1. /\ wire \in Seq(FrameSet) /\ (Active => cur.s \in Streams) /\ hash # None
      /\ phase \in [Streams -> Phases]
  BY LengthsAssumption, Zenon DEF HTypes, Phases
<1>2. ASSUME \A s \in Streams : Waits(s)' => Waits(s),
             UNCHANGED <<pc, cur, phase, after, lastHash>>
      PROVE  OrderOK'
  BY <1>2, Zenon DEF OrderOK, Active
<1>3. CASE ClientNext
  <2>1. UNCHANGED <<pc, cur, phase, after, lastHash>>
    BY <1>3, Zenon DEF ClientNext, ClientOpen, ClientSend, ClientGrant, ClientAbort, loop
  <2> QED
    BY <1>2, <1>3, <2>1, ClientPlaced, Zenon
<1>4. CASE ReadHouse
  <2>1. wire # << >> /\ wire' = Tail(wire) /\ wire[1].t # "HEADERS"
        /\ UNCHANGED <<pending, unsent, opened, pc, cur, phase, after, lastHash>>
    BY <1>1, <1>4, TailFacts, Zenon DEF ReadHouse, House, client, loop
  <2>2. \A s \in Streams : ~IsHeaders(wire[1], s)
    BY <2>1, Zenon DEF IsHeaders
  <2>3. Unique(wire)
    BY Zenon DEF PlacedOnce
  <2>4. Unique(wire') /\ \A s \in Streams : InWire(s)' <=> InWire(s)
    BY <1>1, <2>1, <2>2, <2>3, TailHeaders, Zenon DEF InWire
  <2>5. \A s \in Streams : (InUnsent(s)' <=> InUnsent(s)) /\ (InPending(s)' <=> InPending(s))
    BY <2>1, Zenon DEF InUnsent, InPending
  <2>6. PlacedOnce' /\ \A s \in Streams : Waits(s)' => Waits(s)
    BY <2>1, <2>4, <2>5, Zenon DEF PlacedOnce, Waits
  <2> QED
    BY <1>2, <2>1, <2>6, Zenon
<1>5. CASE ReadEof
  <2>1. PlacedOnce' /\ \A s \in Streams : Waits(s)' => Waits(s)
    BY <1>5, SamePlaces, Zenon DEF ReadEof, client
  <2> QED
    BY <1>5, <2>1, Zenon DEF ReadEof, OrderOK, Active
<1>6. CASE ReadStep
  <2>1. PICK f \in Frames :
    /\ Takes(f) /\ f \in FrameSet
    /\ \/ /\ pc = "main" /\ f.t = "HEADERS" /\ pending' = << >>
          /\ cur' = [s |-> f.s, kind |-> f.kind, end |-> f.end, got |-> 0]
          /\ pc' \in {"cont", "dispatch", "msg"}
       \/ pc = "main" /\ pc' \in {"main", "closed"} /\ cur' = cur
       \/ pc = "cont" /\ pc' \in {"cont", "dispatch", "msg"} /\ cur' = cur
       \/ pc = "msg" /\ pc' \in {"main", "closed", "dispatch", "msg"} /\ cur' \in Rpcs /\ cur'.s = cur.s
       \/ pc = "send" /\ pc' = "send" /\ cur' = cur
    /\ UNCHANGED <<client, windows, left, after, phase, paid, ver, loop>>
    BY <1>6, Zenon DEF ReadStep
  <2>2. UNCHANGED <<unsent, opened, phase, after, lastHash>>
    BY <2>1, Zenon DEF client, loop
  <2>3. /\ PlacedOnce'
        /\ \A s \in Streams : Waits(s)' => Waits(s)
        /\ pending' = << >> => \A s \in Streams : IsHeaders(f, s) => Waits(s) /\ ~Waits(s)'
    BY <2>1, <2>2, TakePlaced, Zenon
  <2>4. CASE pc = "main" /\ f.t = "HEADERS" /\ pending' = << >> /\ pc' \in {"cont", "dispatch", "msg"}
             /\ cur' = [s |-> f.s, kind |-> f.kind, end |-> f.end, got |-> 0]
    <3>1. f.s \in Streams /\ IsHeaders(f, f.s) /\ cur'.s = f.s
      BY <2>1, <2>4, Zenon DEF FrameSet, IsHeaders
    <3>2. phase[f.s] = "none" /\ ~Waits(f.s)'
      <4>1. \A s \in Streams : s = f.s => Waits(s) /\ ~Waits(s)'
        BY <2>3, <2>4, <3>1, Zenon
      <4>2. PICK s \in Streams : s = f.s
        BY <3>1, Zenon
      <4> QED
        BY <3>1, <4>1, <4>2, Zenon DEF OrderOK
    <3> QED
      BY <2>2, <2>3, <2>4, <3>1, <3>2, Zenon DEF OrderOK
  <2>5. CASE /\ cur'.s = cur.s
             /\ \/ pc = "main" /\ pc' \in {"main", "closed"}
                \/ pc = "cont" /\ pc' \in {"cont", "dispatch", "msg"}
                \/ pc = "msg" /\ pc' \in {"main", "closed", "dispatch", "msg"}
                \/ pc = "send" /\ pc' = "send"
    BY <2>2, <2>3, <2>5, Zenon DEF OrderOK, Active
  <2> QED
    BY <2>1, <2>3, <2>4, <2>5, Zenon
<1>7. ASSUME Active, NEW p \in {"none", "open", "ended"}, UNCHANGED cur,
             phase' = phase \/ phase' = [phase EXCEPT ![cur.s] = p],
             \A s \in Streams : Waits(s)' => Waits(s)
      PROVE  /\ \A s \in Streams : Waits(s)' => phase'[s] = "none" /\ ~(Active' /\ cur'.s = s)
             /\ \A s \in Streams : phase'[s] # "bad"
  <2>1. cur.s \in Streams /\ ~Waits(cur.s)
    <3>1. PICK c \in Streams : c = cur.s
      BY <1>1, <1>7, Zenon
    <3> QED
      BY <1>7, <3>1, Zenon DEF OrderOK
  <2>2. \A s \in Streams : Waits(s)' => s # cur.s
    <3> SUFFICES ASSUME NEW s \in Streams, Waits(s)'
                 PROVE  s # cur.s
      BY Zenon
    <3> QED
      BY <1>7, Zenon DEF OrderOK
  <2> QED
    BY <1>1, <1>7, <2>1, <2>2, Zenon DEF OrderOK
<1>8. CASE \/ gnmi_handle_capabilities \/ gnmi_handle_get \/ StatusOnly \/ gnmi_handle_subscribe
           \/ SendChunk \/ SendDone \/ SendFail \/ StreamPeek \/ StreamWake
  <2>1. ServeStep /\ Active /\ UNCHANGED <<wire, pending, unsent, opened, cur>> /\ cur.s \in Streams
    BY <1>1, <1>8, ServesAre, Zenon DEF ServeStep, client
  <2>2. PlacedOnce' /\ \A s \in Streams : Waits(s)' => Waits(s)
    BY <2>1, SamePlaces, Zenon
  <2>3. \E p \in {"none", "open", "ended"} :
          /\ phase' = phase \/ phase' = [phase EXCEPT ![cur.s] = p]
          /\ pc' \notin {"cont", "msg", "dispatch"}
          /\ pc' = "send" => phase'[cur.s] = "open" /\ (after' = "tick" => lastHash' # None)
          /\ pc' \in {"peek", "wait"} => phase'[cur.s] = IF lastHash' = None THEN "none" ELSE "open"
    <3>1. CASE gnmi_handle_capabilities \/ gnmi_handle_get
      BY <1>1, <2>1, <3>1, Zenon DEF gnmi_handle_capabilities, gnmi_handle_get, At, Reply, Write, Seen, OrderOK
    <3>2. CASE StatusOnly
      BY <1>1, <2>1, <3>2, Zenon DEF StatusOnly, At, Write, Seen, OrderOK
    <3>3. CASE gnmi_handle_subscribe
      BY <1>1, <2>1, <3>3, Zenon DEF gnmi_handle_subscribe, At, Reply, Write, Seen, OrderOK
    <3>4. CASE SendChunk
      BY <1>1, <2>1, <3>4, Zenon DEF SendChunk, Write, Seen, OrderOK, loop
    <3>5. CASE SendDone
      BY <1>1, <2>1, <3>5, Zenon DEF SendDone, Write, Seen, OrderOK
    <3>6. CASE SendFail
      BY <3>6, Zenon DEF SendFail
    <3>7. CASE StreamPeek
      BY <3>7, Zenon DEF StreamPeek, OrderOK
    <3>8. CASE StreamWake
      BY <1>1, <2>1, <3>8, Zenon DEF StreamWake, Write, Seen, OrderOK
    <3> QED
      BY <1>8, <3>1, <3>2, <3>3, <3>4, <3>5, <3>6, <3>7, <3>8, Zenon
  <2> QED
    BY <1>7, <2>1, <2>2, <2>3, Zenon DEF OrderOK
<1>9. CASE StoreChange \/ UNCHANGED vars
  <2>1. UNCHANGED <<wire, pending, unsent, opened, pc, cur, phase, after, lastHash>>
    BY <1>9, Zenon DEF StoreChange, vars, client, loop
  <2> QED
    BY <1>2, <2>1, SamePlaces, Zenon
<1> QED
  BY <1>3, <1>4, <1>5, <1>6, <1>8, <1>9, ReadsAre, Zenon DEF Next, ServerNext

\* Nothing is requested or answered at first.
LEMMA InitOrder == Init => PlacedOnce /\ OrderOK
<1> SUFFICES ASSUME Init PROVE PlacedOnce /\ OrderOK
  BY Zenon
<1>1. Len(wire) = 1 /\ wire[1].t = "SETTINGS" /\ pending = << >>
  BY Zenon DEF Init, WindowFrame, Frame
<1>2. \A s \in Streams : ~InWire(s) /\ ~InPending(s) /\ ~InUnsent(s)
  BY <1>1 DEF InWire, InPending, InUnsent, IsHeaders, Init
<1>3. Unique(wire)
  BY <1>1 DEF Unique, IsHeaders
<1>4. PlacedOnce
  BY <1>2, <1>3, Zenon DEF PlacedOnce
<1>5. OrderOK
  BY Zenon DEF Init, OrderOK, Active
<1> QED
  BY <1>4, <1>5, Zenon

\* On every stream the client sees HEADERS, then DATA, then one end of stream, and nothing
\* after it, however requests are pipelined, parked while a reply waits for window, and
\* dropped: the handlers of gnmi_grpc.c never serve one stream's HEADERS twice.
THEOREM FramesInOrder == Spec => []StreamOrder
<1>1. HTypes /\ PlacedOnce /\ OrderOK /\ [Next]_vars => (HTypes /\ PlacedOnce /\ OrderOK)'
  BY StepHTypes, StepOrder, Zenon
<1>2. OrderOK => StreamOrder
  BY Zenon DEF OrderOK, StreamOrder
<1> QED
  BY <1>1, <1>2, InitHTypes, InitOrder, PTL DEF Spec

-----------------------------------------------------------------------------
(* Flow control.  Sums are stated by the sequence of their partial sums. *)

Less == {ss \in Nat \X Nat : ss[1] < ss[2]}
\* A non-empty set of numbers has a least one: the induction the proofs use.
LEMMA LeastElement ==
  ASSUME NEW T \in SUBSET Nat, T # {}
  PROVE  \E x \in T : \A y \in T : x <= y
<1>1. IsWellFoundedOn(Less, Nat)
  BY NatLessThanWellFounded, Zenon DEF OpToRel, Less
<1>2. PICK x \in T : \A y \in T : ~(<<y, x>> \in Less)
  BY <1>1, WFMin, Zenon
<1>3. \A y \in T : x \in Nat /\ y \in Nat /\ ~(y < x)
  BY <1>2, Zenon DEF Less
<1> QED
  BY <1>3

\* Steps that go up add up to something that goes up.
LEMMA Ascends ==
  ASSUME NEW m \in Nat, NEW c \in [0..m -> Int], \A i \in 1..m : c[i - 1] <= c[i],
         NEW a \in 0..m, NEW b \in 0..m, a <= b
  PROVE  c[a] <= c[b]
<1> DEFINE T == {i \in Nat : i \in a..m /\ ~(c[a] <= c[i])}
<1>1. CASE T = {}
  <2>1. b \in Nat /\ b \in a..m
    OBVIOUS
  <2>2. b \notin T
    BY <1>1, Zenon
  <2> QED
    BY <2>1, <2>2, Zenon
<1>2. CASE T # {}
  <2>1. PICK i \in T : \A j \in T : i <= j
    <3>1. T \in SUBSET Nat
      BY Zenon
    <3> QED
      BY <1>2, <3>1, LeastElement, Zenon
  <2>2. i \in a..m /\ i \in Nat /\ ~(c[a] <= c[i]) /\ c[a] \in Int /\ c[i] \in Int
    OBVIOUS
  <2>3. i # a /\ i \in 1..m /\ i - 1 \in a..m /\ i - 1 \in Nat /\ i - 1 \in 0..m
    BY <2>2
  <2>4. i - 1 \notin T
    BY <2>1, <2>2
  <2>5. c[a] <= c[i - 1]
    BY <2>3, <2>4, Zenon
  <2>6. c[i - 1] <= c[i] /\ c[i - 1] \in Int
    BY <2>3, Zenon
  <2> QED
    BY <2>2, <2>5, <2>6
<1> QED
  BY <1>1, <1>2, Zenon

\* What a frame returns of the window of stream s (of the connection, for 0).
Amount(f, s) == IF f.t = "WINDOW" /\ f.s = s THEN f.n ELSE 0

\* The updates in q make up the difference of to and from.
Partial(q, s, c) == /\ c \in [0..Len(q) -> Int]
                    /\ \A i \in 1..Len(q) : c[i] = c[i - 1] + Amount(q[i], s)
OnWay(q, s, from, to) == \E c : Partial(q, s, c) /\ c[0] = from /\ c[Len(q)] = to

\* What a frame adds to a stream's window is a number.
LEMMA AmountType ==
  ASSUME NEW f \in FrameSet, NEW s
  PROVE  Amount(f, s) \in Nat
BY Zenon DEF Amount, FrameSet, AnyFrames

\* Window updates on their way only add.
LEMMA OnWayGrows ==
  ASSUME NEW q \in Seq(FrameSet), NEW s, NEW from, NEW to, OnWay(q, s, from, to)
  PROVE  from \in Int /\ to \in Int /\ from <= to
<1>1. PICK c : Partial(q, s, c) /\ c[0] = from /\ c[Len(q)] = to
  BY Zenon DEF OnWay
<1>2. PICK m \in Nat : m = Len(q)
  OBVIOUS
<1>3. c \in [0..m -> Int] /\ 0 \in 0..m /\ m \in 0..m /\ 0 <= m
  BY <1>1, <1>2 DEF Partial
<1>4. ASSUME NEW i \in 1..m
      PROVE  c[i - 1] <= c[i]
  <2>1. q[i] \in FrameSet
    BY <1>2
  <2>2. Amount(q[i], s) \in Nat
    BY <2>1, AmountType, Zenon
  <2>3. c[i] = c[i - 1] + Amount(q[i], s)
    BY <1>1, <1>2, Zenon DEF Partial
  <2>4. i - 1 \in 0..m
    BY <1>2
  <2>5. c[i - 1] \in Int
    BY <1>3, <2>4, Zenon
  <2> QED
    BY <2>2, <2>3, <2>5
<1>5. c[0] <= c[m]
  BY <1>3, <1>4, Ascends, Zenon
<1> QED
  BY <1>1, <1>2, <1>3, <1>5, Zenon

\* A window update sent is on its way.
LEMMA OnWayAppend ==
  ASSUME NEW q \in Seq(FrameSet), NEW f \in FrameSet, NEW s, NEW from, NEW to, OnWay(q, s, from, to)
  PROVE  OnWay(Append(q, f), s, from, to + Amount(f, s))
<1>1. PICK c : Partial(q, s, c) /\ c[0] = from /\ c[Len(q)] = to
  BY Zenon DEF OnWay
<1>2. PICK m \in Nat : m = Len(q)
  OBVIOUS
<1>3. PICK r : r = Append(q, f)
  BY Zenon
<1>4. Len(r) = m + 1 /\ r[m + 1] = f /\ \A i \in 1..m : r[i] = q[i]
  BY <1>2, <1>3, AppendProperties
<1>5. c \in [0..m -> Int] /\ (\A i \in 1..m : c[i] = c[i - 1] + Amount(q[i], s)) /\ Amount(f, s) \in Nat
  BY <1>1, <1>2, AmountType, Zenon DEF Partial
<1> DEFINE d == [i \in 0..(m + 1) |-> IF i = m + 1 THEN c[m] + Amount(f, s) ELSE c[i]]
<1>6. /\ d[0] = from /\ d[m + 1] = to + Amount(f, s) /\ d \in [0..(m + 1) -> Int]
      /\ \A i \in 0..m : d[i] = c[i]
  <2>1. \A i \in 0..m : i \in 0..(m + 1) /\ i # m + 1
    OBVIOUS
  <2>2. 0 \in 0..m /\ m \in 0..m /\ m + 1 \in 0..(m + 1)
    OBVIOUS
  <2>3. \A i \in 0..(m + 1) : i = m + 1 \/ i \in 0..m
    OBVIOUS
  <2> QED
    BY <1>1, <1>2, <1>5, <2>1, <2>2, <2>3
<1> HIDE DEF d
<1>7. ASSUME NEW i \in 1..(m + 1)
      PROVE  d[i] = d[i - 1] + Amount(r[i], s)
  <2>1. CASE i = m + 1
    <3>1. i - 1 = m /\ m \in 0..m
      BY <2>1
    <3>2. d[i - 1] = to
      BY <1>1, <1>2, <1>6, <3>1, Zenon
    <3> QED
      BY <1>4, <1>6, <2>1, <3>2, Zenon
  <2>2. CASE i \in 1..m
    <3>1. i \in 0..m /\ i - 1 \in 0..m
      BY <2>2
    <3> QED
      BY <1>4, <1>5, <1>6, <2>2, <3>1, Zenon
  <2> QED
    BY <2>1, <2>2
<1>8. Partial(r, s, d)
  BY <1>4, <1>6, <1>7, Zenon DEF Partial
<1> QED
  BY <1>3, <1>4, <1>6, <1>8, Zenon DEF OnWay

\* A window update taken is on its way no longer.
LEMMA OnWayTail ==
  ASSUME NEW q \in Seq(FrameSet), q # << >>, NEW s, NEW from, NEW to, OnWay(q, s, from, to)
  PROVE  OnWay(Tail(q), s, from + Amount(q[1], s), to)
<1>1. PICK c : Partial(q, s, c) /\ c[0] = from /\ c[Len(q)] = to
  BY Zenon DEF OnWay
<1>2. PICK r : r = Tail(q)
  BY Zenon
<1>3. PICK m \in Nat : Len(q) = m + 1
  <2>1. Len(q) \in Nat \ {0}
    BY TailFacts, Zenon
  <2>2. Len(q) - 1 \in Nat /\ Len(q) = (Len(q) - 1) + 1
    BY <2>1
  <2> QED
    BY <2>2, Zenon
<1>4. Len(r) = m /\ \A i \in 1..m : r[i] = q[i + 1]
  <2>1. (m + 1) - 1 = m
    OBVIOUS
  <2> QED
    BY <1>2, <1>3, <2>1, TailFacts, Zenon
<1>5. c \in [0..(m + 1) -> Int] /\ \A i \in 1..(m + 1) : c[i] = c[i - 1] + Amount(q[i], s)
  BY <1>1, <1>3, Zenon DEF Partial
<1> DEFINE d == [i \in 0..m |-> c[i + 1]]
<1>6. /\ d[0] = c[1] /\ d[m] = c[m + 1] /\ d \in [0..m -> Int]
      /\ \A i \in 0..m : d[i] = c[i + 1]
  <2>1. \A i \in 0..m : i + 1 \in 0..(m + 1)
    OBVIOUS
  <2>2. 0 \in 0..m /\ m \in 0..m /\ 0 + 1 = 1
    OBVIOUS
  <2> QED
    BY <1>5, <2>1, <2>2, Zenon
<1> HIDE DEF d
<1>7. c[1] = from + Amount(q[1], s)
  <2>1. 1 \in 1..(m + 1) /\ 1 - 1 = 0
    OBVIOUS
  <2> QED
    BY <1>1, <1>5, <2>1, Zenon
<1>8. ASSUME NEW i \in 1..m
      PROVE  d[i] = d[i - 1] + Amount(r[i], s)
  <2>1. i + 1 \in 1..(m + 1) /\ (i + 1) - 1 = i /\ i \in 0..m /\ i - 1 \in 0..m /\ (i - 1) + 1 = i
    OBVIOUS
  <2>2. c[i + 1] = c[i] + Amount(q[i + 1], s)
    BY <1>5, <2>1, Zenon
  <2>3. d[i] = c[i + 1] /\ d[i - 1] = c[i]
    BY <1>6, <2>1, Zenon
  <2> QED
    BY <1>4, <2>2, <2>3, Zenon
<1>9. Partial(r, s, d)
  BY <1>4, <1>6, <1>8, Zenon DEF Partial
<1>10. d[0] = from + Amount(q[1], s) /\ d[m] = to
  BY <1>1, <1>3, <1>6, <1>7, Zenon
<1> QED
  BY <1>2, <1>4, <1>9, <1>10, Zenon DEF OnWay

\* The window of slot k: what the client announced, and for every stream that uses
\* the slot what was granted less what was spent.
Share(k, g, p, s) == IF Slot(s) = k THEN g[s] - p[s] ELSE 0
SharesOf(k, g, p, c) == /\ c \in [0..MaxStream -> Int] /\ c[0] = InitWin
                        /\ \A s \in Streams : c[s] = c[s - 1] + Share(k, g, p, s)
SlotSum(k, g, p, w) == \E c : SharesOf(k, g, p, c) /\ c[MaxStream] = w

Amounts == [0..MaxStream -> Int]

\* A change of d on one stream changes the sum of its slot by d, and no other.
ChangeAt(g, p, h, q, u, d) ==
  /\ \A s \in Streams : g[s] - p[s] \in Int
  /\ h[u] - q[u] = g[u] - p[u] + d
  /\ \A s \in Streams \ {u} : h[s] - q[s] = g[s] - p[s]
\* A grant or a debit on one stream changes the sum of its slot by that much.
LEMMA SlotSumChange ==
  ASSUME NEW k, NEW g, NEW p, NEW h, NEW q, NEW w, SlotSum(k, g, p, w),
         NEW u \in Streams, NEW d \in Int, ChangeAt(g, p, h, q, u, d)
  PROVE  SlotSum(k, h, q, w + (IF Slot(u) = k THEN d ELSE 0))
<1> DEFINE e == IF Slot(u) = k THEN d ELSE 0
<1>1. e \in Int
  OBVIOUS
<1>2. Share(k, h, q, u) = Share(k, g, p, u) + e
  BY DEF Share, ChangeAt
<1>3. \A s \in Streams \ {u} : Share(k, h, q, s) = Share(k, g, p, s)
  BY Zenon DEF Share, ChangeAt
<1>4. \A s \in Streams : Share(k, g, p, s) \in Int
  BY DEF Share, ChangeAt
<1> HIDE DEF e
<1>5. PICK c : SharesOf(k, g, p, c) /\ c[MaxStream] = w
  BY Zenon DEF SlotSum
<1>6. /\ c \in [0..MaxStream -> Int] /\ c[0] = InitWin
      /\ \A s \in Streams : c[s] = c[s - 1] + Share(k, g, p, s)
  BY <1>5, Zenon DEF SharesOf
<1> DEFINE b == [s \in 0..MaxStream |-> IF s < u THEN c[s] ELSE c[s] + e]
<1>7. MaxStream \in Nat /\ u \in 1..MaxStream /\ MaxStream \in 0..MaxStream /\ 0 \in 0..MaxStream
  BY LengthsAssumption DEF Streams
<1>8. b \in [0..MaxStream -> Int]
  BY <1>1, <1>6, <1>7
<1>9. b[0] = InitWin /\ b[MaxStream] = w + e
  BY <1>5, <1>6, <1>7
<1>10. ASSUME NEW s \in Streams
       PROVE  b[s] = b[s - 1] + Share(k, h, q, s)
  <2>1. s \in 1..MaxStream /\ s \in 0..MaxStream /\ s - 1 \in 0..MaxStream
    BY <1>7 DEF Streams
  <2>2. c[s] = c[s - 1] + Share(k, g, p, s) /\ c[s - 1] \in Int /\ c[s] \in Int
    BY <1>6, <2>1, Zenon
  <2>3. CASE s < u
    <3>1. s - 1 < u /\ s # u
      BY <1>7, <2>1, <2>3
    <3>2. b[s] = c[s] /\ b[s - 1] = c[s - 1]
      BY <2>1, <2>3, <3>1, Zenon
    <3> QED
      BY <1>3, <2>2, <3>1, <3>2, Zenon
  <2>4. CASE s = u
    <3>1. s - 1 < u /\ ~(s < u)
      BY <1>7, <2>1, <2>4
    <3>2. b[s] = c[s] + e /\ b[s - 1] = c[s - 1]
      BY <2>1, <3>1, Zenon
    <3>3. c[s] = c[s - 1] + Share(k, g, p, u) /\ Share(k, h, q, s) = Share(k, g, p, u) + e
      BY <1>2, <2>2, <2>4, Zenon
    <3>4. PICK x \in Int, y \in Int : x = c[s - 1] /\ y = Share(k, g, p, u)
      BY <1>4, <2>2, Zenon
    <3>5. (x + y) + e = x + (y + e)
      BY <1>1, <3>4
    <3> QED
      BY <3>2, <3>3, <3>4, <3>5, Zenon
  <2>5. CASE s > u
    <3>1. ~(s - 1 < u) /\ ~(s < u) /\ s # u
      BY <1>7, <2>1, <2>5
    <3>2. b[s] = c[s] + e /\ b[s - 1] = c[s - 1] + e
      BY <2>1, <3>1, Zenon
    <3>3. Share(k, h, q, s) = Share(k, g, p, s)
      BY <1>3, <3>1, Zenon
    <3>4. PICK x \in Int, y \in Int : x = c[s - 1] /\ y = Share(k, g, p, s)
      BY <1>4, <2>2, Zenon
    <3>5. (x + y) + e = (x + e) + y
      BY <1>1, <3>4
    <3> QED
      BY <2>2, <3>2, <3>3, <3>4, <3>5, Zenon
  <2> QED
    BY <1>7, <2>1, <2>3, <2>4, <2>5
<1>11. SharesOf(k, h, q, b)
  BY <1>8, <1>9, <1>10, Zenon DEF SharesOf
<1> QED
  BY <1>9, <1>11, Zenon DEF SlotSum, e

\* No stream of a slot has spent more than it was granted by more than the slot's window:
\* the other streams of the slot only take from it.
Covered(g, p) == \A s \in Streams : g[s] <= p[s]
\* The window of a slot is at most what any one of its streams has left.
LEMMA SlotBound ==
  ASSUME NEW g \in Amounts, NEW p \in Amounts, NEW w \in Int, Covered(g, p),
         NEW u \in Streams, SlotSum(Slot(u), g, p, w)
  PROVE  w <= InitWin + g[u] - p[u]
<1>1. PICK c : SharesOf(Slot(u), g, p, c) /\ c[MaxStream] = w
  BY Zenon DEF SlotSum
<1>2. /\ c \in [0..MaxStream -> Int] /\ c[0] = InitWin
      /\ \A s \in Streams : c[s] = c[s - 1] + Share(Slot(u), g, p, s)
  BY <1>1, Zenon DEF SharesOf
<1>3. MaxStream \in Nat /\ u \in 1..MaxStream /\ \A s \in Streams : s \in 0..MaxStream /\ s - 1 \in 0..MaxStream
  BY LengthsAssumption DEF Streams
<1>4. \A s \in Streams : g[s] \in Int /\ p[s] \in Int
  BY <1>3, Zenon DEF Amounts
<1>5. \A s \in Streams : Share(Slot(u), g, p, s) \in Int /\ Share(Slot(u), g, p, s) <= 0
  BY <1>4 DEF Share, Covered
<1> DEFINE b == [s \in 0..MaxStream |-> 0 - c[s]]
<1>6. b \in [0..MaxStream -> Int]
  BY <1>2
<1>7. ASSUME NEW s \in 1..MaxStream
      PROVE  b[s - 1] <= b[s]
  <2>1. s \in Streams /\ s \in 0..MaxStream /\ s - 1 \in 0..MaxStream
    BY <1>3, Zenon DEF Streams
  <2>2. b[s] = 0 - c[s] /\ b[s - 1] = 0 - c[s - 1] /\ c[s] \in Int /\ c[s - 1] \in Int
    BY <1>2, <2>1, Zenon
  <2>3. c[s] = c[s - 1] + Share(Slot(u), g, p, s)
    BY <1>2, <2>1, Zenon
  <2> QED
    BY <1>5, <2>1, <2>2, <2>3
<1>8. /\ 0 \in 0..MaxStream /\ u - 1 \in 0..MaxStream /\ u \in 0..MaxStream /\ MaxStream \in 0..MaxStream
      /\ 0 <= u - 1 /\ u <= MaxStream
  BY <1>3
<1>9. b[0] = 0 - c[0] /\ b[u - 1] = 0 - c[u - 1] /\ b[u] = 0 - c[u] /\ b[MaxStream] = 0 - c[MaxStream]
  BY <1>8, Zenon
<1> HIDE DEF b
<1>10. b[0] <= b[u - 1]
  BY <1>3, <1>6, <1>7, <1>8, Ascends, Zenon
<1>11. b[u] <= b[MaxStream]
  BY <1>3, <1>6, <1>7, <1>8, Ascends, Zenon
<1>12. c[u] = c[u - 1] + (g[u] - p[u])
  BY <1>2, Zenon DEF Share
<1>13. c[0] \in Int /\ c[u - 1] \in Int /\ c[u] \in Int /\ g[u] \in Int /\ p[u] \in Int
  BY <1>2, <1>4, <1>8, Zenon
<1>14. PICK x \in Int, y \in Int, z \in Int, m \in Int, n \in Int :
         x = c[0] /\ y = c[u - 1] /\ z = c[u] /\ m = g[u] /\ n = p[u]
  BY <1>13, Zenon
<1>15. 0 - x <= 0 - y /\ 0 - z <= 0 - w /\ z = y + (m - n) /\ x = InitWin
  BY <1>1, <1>2, <1>9, <1>10, <1>11, <1>12, <1>14, Zenon
<1>16. w <= x + m - n
  BY <1>14, <1>15
<1> QED
  BY <1>14, <1>15, <1>16, Zenon

\* Window and payload of every stream and of the connection: what was granted and has
\* arrived (g), what is still on the wire, what is left to spend.  The client's SETTINGS
\* come first and are read before anything else happens.
Fresh == wire # << >> /\ wire[1].t = "SETTINGS"
Greeting == /\ \A i \in 1..Len(wire) : wire[i].t = "SETTINGS" => i = 1
            /\ Fresh => /\ ~Active /\ pending = << >> /\ wire[1].n = InitWin
                        /\ \A s \in 0..MaxStream : paid[s] = 0
Ledger(g) == /\ \A s \in 0..MaxStream : OnWay(wire, s, g[s], returned[s])
             /\ connWin = ConnWin + g[0] - paid[0]
             /\ Fresh => \A s \in 0..MaxStream : g[s] = 0
             /\ ~Fresh => \A k \in 0..(Slots - 1) : SlotSum(k, g, paid, streamWin[k])
FlowInv == /\ Greeting
           /\ \A s \in 0..MaxStream : returned[s] <= paid[s]
           /\ connWin >= 0 /\ \A k \in 0..(Slots - 1) : streamWin[k] >= 0
           /\ \E g \in Amounts : Ledger(g)

\* The invariant gives FlowControl: no DATA beyond the windows.
LEMMA FlowBound ==
  ASSUME HTypes, FlowInv
  PROVE  FlowControl
<1>1. PICK g \in Amounts : Ledger(g)
  BY Zenon DEF FlowInv
<1>2. /\ wire \in Seq(FrameSet) /\ paid \in [0..MaxStream -> Nat] /\ returned \in [0..MaxStream -> Nat]
      /\ connWin \in Int /\ streamWin \in [0..(Slots - 1) -> Int]
  BY Zenon DEF HTypes
<1>3. MaxStream \in Nat /\ InitWin \in Nat /\ ConnWin \in Nat /\ 0 \in 0..MaxStream
      /\ \A s \in Streams : s \in 0..MaxStream
  BY LengthsAssumption, WindowsAssumption DEF Streams
<1>4. \A s \in 0..MaxStream : g[s] \in Int /\ g[s] <= returned[s] /\ returned[s] \in Nat /\ paid[s] \in Nat
  BY <1>1, <1>2, OnWayGrows, Zenon DEF Ledger
<1>5. \A s \in 0..MaxStream : returned[s] <= paid[s]
  BY Zenon DEF FlowInv
<1>6. paid[0] <= ConnWin + returned[0]
  <2>1. connWin = ConnWin + g[0] - paid[0] /\ connWin >= 0
    BY <1>1, Zenon DEF Ledger, FlowInv
  <2>2. g[0] \in Int /\ g[0] <= returned[0] /\ returned[0] \in Nat /\ paid[0] \in Nat
    BY <1>3, <1>4, Zenon
  <2> QED
    BY <1>3, <2>1, <2>2
<1>7. ASSUME NEW s \in Streams
      PROVE  paid[s] <= InitWin + returned[s]
  <2>1. g[s] \in Int /\ g[s] <= returned[s] /\ returned[s] \in Nat /\ paid[s] \in Nat
    BY <1>3, <1>4, Zenon
  <2>2. CASE Fresh
    BY <1>3, <2>1, <2>2 DEF FlowInv, Greeting
  <2>3. CASE ~Fresh
    <3>1. Slot(s) \in 0..(Slots - 1)
      BY SlotRange, Zenon
    <3>2. SlotSum(Slot(s), g, paid, streamWin[Slot(s)])
      BY <1>1, <2>3, <3>1, Zenon DEF Ledger
    <3>3. streamWin[Slot(s)] \in Int /\ streamWin[Slot(s)] >= 0
      BY <1>2, <3>1, Zenon DEF FlowInv
    <3>4. paid \in Amounts /\ Covered(g, paid)
      <4>1. paid \in Amounts
        BY <1>2 DEF Amounts
      <4>2. Covered(g, paid)
        BY <1>3, <1>4, <1>5 DEF Covered
      <4> QED
        BY <4>1, <4>2, Zenon
    <3>5. streamWin[Slot(s)] <= InitWin + g[s] - paid[s]
      BY <3>2, <3>3, <3>4, SlotBound, Zenon
    <3> QED
      BY <1>3, <2>1, <3>3, <3>5
  <2> QED
    BY <2>2, <2>3, Zenon
<1> QED
  BY <1>6, <1>7, Zenon DEF FlowControl

\* The windows begin at their initial values.
LEMMA InitFlow == Init => FlowInv
<1> SUFFICES ASSUME Init PROVE FlowInv
  BY Zenon
<1>1. /\ MaxStream \in Nat /\ InitWin \in Nat /\ ConnWin \in Nat /\ Slots \in Nat \ {0}
      /\ 0 \in 0..MaxStream
  BY LengthsAssumption, WindowsAssumption, SlotsAssumption
<1>2. Len(wire) = 1 /\ wire[1].t = "SETTINGS" /\ wire[1].n = InitWin /\ wire # << >>
  BY Zenon DEF Init, WindowFrame, Frame
<1>3. Greeting
  BY <1>2 DEF Greeting, Init, Active
<1> DEFINE g == [s \in 0..MaxStream |-> 0]
<1>4. g \in Amounts
  BY DEF Amounts
<1>5. ASSUME NEW s \in 0..MaxStream
      PROVE  OnWay(wire, s, g[s], returned[s])
  <2> DEFINE c == [i \in 0..1 |-> 0]
  <2>1. Amount(wire[1], s) = 0
    BY <1>2, Zenon DEF Amount
  <2>2. Partial(wire, s, c)
    BY <1>2, <2>1 DEF Partial
  <2>3. c[0] = g[s] /\ c[Len(wire)] = returned[s]
    BY <1>2 DEF Init
  <2> HIDE DEF c
  <2> QED
    BY <2>2, <2>3, Zenon DEF OnWay
<1>6. Fresh
  BY <1>2, Zenon DEF Fresh
<1>7. connWin = ConnWin + g[0] - paid[0] /\ \A s \in 0..MaxStream : g[s] = 0
  BY <1>1 DEF Init
<1>8. Ledger(g)
  BY <1>5, <1>6, <1>7, Zenon DEF Ledger
<1>9. connWin >= 0 /\ (\A k \in 0..(Slots - 1) : streamWin[k] >= 0)
      /\ \A s \in 0..MaxStream : returned[s] <= paid[s]
  BY <1>1 DEF Init
<1> HIDE DEF g
<1> QED
  BY <1>3, <1>4, <1>8, <1>9, Zenon DEF FlowInv

\* The client writes a frame.
LEMMA FlowAppend ==
  ASSUME HTypes, FlowInv, NEW f \in FrameSet, f.t # "SETTINGS", wire' = Append(wire, f),
         \A s \in 0..MaxStream : returned'[s] = returned[s] + Amount(f, s) /\ returned'[s] <= paid[s],
         UNCHANGED <<pending, windows, pc, paid>>
  PROVE  FlowInv'
<1>1. wire \in Seq(FrameSet)
  BY Zenon DEF HTypes
<1>2. PICK m \in Nat : m = Len(wire)
  BY <1>1
<1>3. Len(wire') = m + 1 /\ wire'[m + 1] = f /\ \A i \in 1..m : wire'[i] = wire[i]
  BY <1>1, <1>2, AppendProperties
<1>4. wire # << >> => m # 0
  BY <1>1, <1>2, EmptySeq, Zenon
<1>5. Fresh' => Fresh /\ wire'[1] = wire[1]
  <2>1. CASE m = 0
    <3>1. wire'[1] = f
      BY <1>3, <2>1
    <3> QED
      BY <3>1, Zenon DEF Fresh
  <2>2. CASE m # 0
    <3>1. 1 \in 1..m /\ wire # << >>
      BY <1>2, <2>2
    <3> QED
      BY <1>3, <3>1, Zenon DEF Fresh
  <2> QED
    BY <2>1, <2>2, Zenon
<1>6. Fresh => Fresh'
  <2> SUFFICES ASSUME Fresh PROVE Fresh'
    BY Zenon
  <2>1. 1 \in 1..m
    BY <1>4 DEF Fresh
  <2>2. wire' # << >>
    BY <1>3
  <2> QED
    BY <1>3, <2>1, <2>2, Zenon DEF Fresh
<1>7. Greeting'
  <2>1. \A i \in 1..(m + 1) : i = m + 1 \/ i \in 1..m
    OBVIOUS
  <2>2. \A i \in 1..Len(wire') : wire'[i].t = "SETTINGS" => i = 1
    BY <1>2, <1>3, <2>1, Zenon DEF FlowInv, Greeting
  <2>3. Fresh' => ~Active' /\ pending' = << >> /\ wire'[1].n = InitWin /\ \A s \in 0..MaxStream : paid'[s] = 0
    BY <1>5, Zenon DEF FlowInv, Greeting, Active
  <2> QED
    BY <2>2, <2>3, Zenon DEF Greeting
<1>8. PICK g \in Amounts : Ledger(g)
  BY Zenon DEF FlowInv
<1>9. \A s \in 0..MaxStream : OnWay(wire', s, g[s], returned'[s])
  <2>1. \A s \in 0..MaxStream : OnWay(wire, s, g[s], returned[s])
    BY <1>8, Zenon DEF Ledger
  <2> QED
    BY <1>1, <2>1, OnWayAppend, Zenon
<1>10. connWin' = connWin /\ streamWin' = streamWin /\ paid' = paid
  BY Zenon DEF windows
<1>11. Ledger(g)'
  BY <1>5, <1>6, <1>8, <1>9, <1>10, Zenon DEF Ledger
<1> QED
  BY <1>7, <1>8, <1>10, <1>11, Zenon DEF FlowInv

\* A frame is taken from the wire: no SETTINGS are left on it.
LEMMA TakenGreeting ==
  ASSUME HTypes, Greeting, wire # << >>, wire' = Tail(wire)
  PROVE  Greeting' /\ ~Fresh'
<1>1. wire \in Seq(FrameSet)
  BY Zenon DEF HTypes
<1>2. /\ Len(wire) \in Nat \ {0} /\ wire' \in Seq(FrameSet) /\ Len(wire') = Len(wire) - 1
      /\ \A i \in 1..(Len(wire) - 1) : wire'[i] = wire[i + 1]
  BY <1>1, TailFacts, Zenon
<1>3. \A i \in 1..(Len(wire) - 1) : i + 1 \in 1..Len(wire) /\ i + 1 # 1
  BY <1>2
<1>4. \A i \in 1..Len(wire') : wire'[i].t # "SETTINGS"
  BY <1>2, <1>3 DEF Greeting
<1>5. ~Fresh'
  <2>1. wire' # << >> => 1 \in 1..Len(wire')
    BY <1>2
  <2> QED
    BY <1>4, <2>1, Zenon DEF Fresh
<1> QED
  BY <1>4, <1>5, Zenon DEF Greeting

\* Taking a frame moves its increment from the wire to the server's account.
LEMMA TakenOnWay ==
  ASSUME HTypes, wire # << >>, wire' = Tail(wire), returned' = returned,
         NEW g \in Amounts, NEW h \in Amounts,
         \A s \in 0..MaxStream : h[s] = g[s] + Amount(wire[1], s),
         \A s \in 0..MaxStream : OnWay(wire, s, g[s], returned[s])
  PROVE  \A s \in 0..MaxStream : OnWay(wire', s, h[s], returned'[s])
<1>1. wire \in Seq(FrameSet)
  BY Zenon DEF HTypes
<1> QED
  BY <1>1, OnWayTail, Zenon

\* A frame that is not about windows is taken, or a parked one.
LEMMA FlowRead ==
  ASSUME HTypes, FlowInv, ReadStep
  PROVE  FlowInv'
<1>1. PICK f \in Frames : Takes(f)
  BY Zenon DEF ReadStep
<1>2. returned' = returned /\ paid' = paid /\ connWin' = connWin /\ streamWin' = streamWin
  BY Zenon DEF ReadStep, client, windows
<1>3. PICK g \in Amounts : Ledger(g)
  BY Zenon DEF FlowInv
<1>4. ~Fresh
  BY <1>1, Zenon DEF Fresh, Takes, FlowInv, Greeting, House
<1>5. CASE wire' = wire
  <2>1. Greeting' /\ ~Fresh'
    BY <1>4, <1>5, Zenon DEF FlowInv, Greeting, Fresh
  <2>2. Ledger(g)'
    BY <1>2, <1>3, <1>4, <1>5, <2>1, Zenon DEF Ledger
  <2> QED
    BY <1>2, <1>3, <2>1, <2>2, Zenon DEF FlowInv
<1>6. CASE wire # << >> /\ f = wire[1] /\ f.t \notin House /\ wire' = Tail(wire)
  <2>1. Greeting' /\ ~Fresh'
    BY <1>6, TakenGreeting, Zenon DEF FlowInv
  <2>2. \A s \in 0..MaxStream : g[s] \in Int /\ g[s] = g[s] + Amount(wire[1], s)
    BY <1>3, <1>6 DEF Amount, House, Amounts
  <2>3. \A s \in 0..MaxStream : OnWay(wire, s, g[s], returned[s])
    BY <1>3, Zenon DEF Ledger
  <2>4. \A s \in 0..MaxStream : OnWay(wire', s, g[s], returned'[s])
    BY <1>2, <1>3, <1>6, <2>2, <2>3, TakenOnWay, Zenon
  <2>5. Ledger(g)'
    BY <1>2, <1>3, <1>4, <2>1, <2>4, Zenon DEF Ledger
  <2> QED
    BY <1>2, <1>3, <2>1, <2>5, Zenon DEF FlowInv
<1> QED
  BY <1>1, <1>5, <1>6, Zenon DEF Takes

\* SETTINGS, PING and WINDOW_UPDATE.
LEMMA FlowHouse ==
  ASSUME HTypes, FlowInv, ReadHouse
  PROVE  FlowInv'
<1> DEFINE f == wire[1]
<1>1. /\ wire \in Seq(FrameSet) /\ connWin \in Int /\ streamWin \in [0..(Slots - 1) -> Int]
      /\ paid \in [0..MaxStream -> Nat] /\ returned \in [0..MaxStream -> Nat]
  BY Zenon DEF HTypes
<1>2. /\ wire # << >> /\ Housekeeping(f) /\ wire' = Tail(wire) /\ f \in FrameSet /\ f.t \in House
      /\ returned' = returned /\ paid' = paid
  BY <1>1, TailFacts, Zenon DEF ReadHouse, client
<1>3. f.n \in Nat /\ f.s \in 0..MaxStream
  BY <1>2, Zenon DEF FrameSet, AnyFrames
<1>4. MaxStream \in Nat /\ InitWin \in Nat /\ ConnWin \in Nat /\ Slots \in Nat \ {0}
      /\ 0 \in 0..MaxStream /\ \A s \in Streams : s \in 0..MaxStream /\ s # 0
  BY LengthsAssumption, WindowsAssumption, SlotsAssumption DEF Streams
<1>5. PICK g \in Amounts : Ledger(g)
  BY Zenon DEF FlowInv
<1>6. Greeting' /\ ~Fresh'
  BY <1>2, TakenGreeting, Zenon DEF FlowInv
<1>7. PICK h \in Amounts : \A s \in 0..MaxStream : h[s] = g[s] + Amount(wire[1], s) /\ g[s] \in Int
  <2> DEFINE b == [s \in 0..MaxStream |-> g[s] + Amount(f, s)]
  <2>1. b \in Amounts /\ \A s \in 0..MaxStream : b[s] = g[s] + Amount(wire[1], s) /\ g[s] \in Int
    BY <1>2, <1>5, AmountType DEF Amounts
  <2> HIDE DEF b
  <2> QED
    BY <2>1, Zenon
<1>8. \A s \in 0..MaxStream : OnWay(wire', s, h[s], returned'[s])
  <2>1. \A s \in 0..MaxStream : OnWay(wire, s, g[s], returned[s])
    BY <1>5, Zenon DEF Ledger
  <2> QED
    BY <1>2, <1>5, <1>7, <2>1, TakenOnWay, Zenon
<1>9. connWin = ConnWin + g[0] - paid[0] /\ connWin >= 0 /\ \A k \in 0..(Slots - 1) : streamWin[k] >= 0
  BY <1>5, Zenon DEF Ledger, FlowInv
<1>10. \A s \in 0..MaxStream : paid[s] \in Nat /\ returned[s] \in Nat /\ returned[s] <= paid[s]
  BY <1>1, Zenon DEF FlowInv
<1>11. ASSUME connWin' = ConnWin + h[0] - paid[0], connWin' >= 0,
              \A k \in 0..(Slots - 1) : streamWin'[k] >= 0 /\ SlotSum(k, h, paid, streamWin'[k])
       PROVE  FlowInv'
  <2>1. Ledger(h)'
    BY <1>2, <1>6, <1>8, <1>11, Zenon DEF Ledger
  <2> QED
    BY <1>2, <1>6, <1>7, <1>10, <1>11, <2>1, Zenon DEF FlowInv
<1>12. CASE f.t = "SETTINGS"
  <2>1. Fresh /\ f.n = InitWin /\ \A s \in 0..MaxStream : paid[s] = 0 /\ g[s] = 0 /\ h[s] = 0
    <3>1. Fresh
      BY <1>2, <1>12, Zenon DEF Fresh
    <3>2. \A s \in 0..MaxStream : Amount(f, s) = 0
      BY <1>12, Zenon DEF Amount
    <3>3. f.n = InitWin /\ \A s \in 0..MaxStream : paid[s] = 0 /\ g[s] = 0
      BY <1>5, <3>1, Zenon DEF Ledger, FlowInv, Greeting
    <3> QED
      BY <1>7, <3>1, <3>2, <3>3
  <2>2. streamWin' = [i \in 0..(Slots - 1) |-> InitWin] /\ connWin' = connWin
    BY <1>2, <1>12, <2>1, Zenon DEF Housekeeping
  <2>3. ASSUME NEW k \in 0..(Slots - 1)
        PROVE  SlotSum(k, h, paid, InitWin)
    <3> DEFINE c == [s \in 0..MaxStream |-> InitWin]
    <3>1. \A s \in Streams : Share(k, h, paid, s) = 0
      BY <1>4, <2>1 DEF Share
    <3>2. \A s \in Streams : s - 1 \in 0..MaxStream
      BY <1>4 DEF Streams
    <3>3. SharesOf(k, h, paid, c) /\ c[MaxStream] = InitWin
      BY <1>4, <3>1, <3>2 DEF SharesOf
    <3> HIDE DEF c
    <3> QED
      BY <3>3, Zenon DEF SlotSum
  <2>4. connWin' = ConnWin + h[0] - paid[0]
    BY <1>4, <1>9, <2>1, <2>2, Zenon
  <2> QED
    BY <1>4, <1>9, <1>11, <2>2, <2>3, <2>4
<1>13. ASSUME f.t # "SETTINGS"
       PROVE  ~Fresh /\ \A k \in 0..(Slots - 1) : SlotSum(k, g, paid, streamWin[k])
  BY <1>2, <1>5, <1>13, Zenon DEF Fresh, Ledger
<1>14. \A s \in Streams : g[s] - paid[s] \in Int
  BY <1>4, <1>7, <1>10
<1>15. ASSUME f.t # "SETTINGS", \A s \in Streams : Amount(f, s) = 0, NEW k \in 0..(Slots - 1)
       PROVE  SlotSum(k, h, paid, streamWin[k])
  <2>1. \A s \in Streams : h[s] = g[s]
    BY <1>4, <1>7, <1>15
  <2>2. SlotSum(k, g, paid, streamWin[k])
    BY <1>13, <1>15, Zenon
  <2>3. \A s \in Streams : Share(k, h, paid, s) = Share(k, g, paid, s)
    BY <2>1, Zenon DEF Share
  <2> QED
    BY <2>2, <2>3, Zenon DEF SlotSum, SharesOf
<1>16. CASE f.t = "WINDOW" /\ f.s = 0
  <2>1. connWin' = connWin + f.n /\ streamWin' = streamWin /\ f.t # "SETTINGS"
    BY <1>2, <1>16, Zenon DEF Housekeeping
  <2>2. Amount(f, 0) = f.n /\ \A s \in Streams : Amount(f, s) = 0
    BY <1>4, <1>16, Zenon DEF Amount
  <2>3. h[0] = g[0] + f.n /\ g[0] \in Int /\ paid[0] \in Nat
    BY <1>4, <1>7, <1>10, <2>2, Zenon
  <2>4. connWin' = ConnWin + h[0] - paid[0] /\ connWin' >= 0
    <3>1. PICK n \in Nat : n = f.n
      BY <1>3, Zenon
    <3>2. connWin' = connWin + n /\ h[0] = g[0] + n /\ connWin \in Int /\ ConnWin \in Nat
      BY <1>1, <1>4, <2>1, <2>3, <3>1, Zenon
    <3> QED
      BY <1>9, <2>3, <3>2
  <2> QED
    BY <1>9, <1>11, <1>15, <2>1, <2>2, <2>4, Zenon
<1>17. CASE f.t = "WINDOW" /\ f.s # 0
  <2> DEFINE u == f.s
             n == f.n
  <2>1. streamWin' = [streamWin EXCEPT ![Slot(u)] = @ + n] /\ connWin' = connWin /\ f.t # "SETTINGS"
    BY <1>2, <1>17, Zenon DEF Housekeeping
  <2>2. u \in Streams /\ n \in Nat
    BY <1>3, <1>4, <1>17 DEF Streams
  <2>3. Amount(f, u) = n /\ \A s \in (0..MaxStream) \ {u} : Amount(f, s) = 0
    BY <1>17, Zenon DEF Amount
  <2> HIDE DEF u, n
  <2>4. h[0] = g[0] /\ h[u] = g[u] + n /\ \A s \in Streams \ {u} : h[s] = g[s]
    <3>1. h[0] = g[0]
      BY <1>4, <1>7, <2>2, <2>3
    <3>2. h[u] = g[u] + n
      BY <1>4, <1>7, <2>2, <2>3, Zenon
    <3>3. \A s \in Streams \ {u} : h[s] = g[s]
      BY <1>4, <1>7, <2>2, <2>3
    <3> QED
      BY <3>1, <3>2, <3>3, Zenon
  <2>5. Slot(u) \in 0..(Slots - 1)
    BY <2>2, SlotRange, Zenon
  <2>6. ASSUME NEW k \in 0..(Slots - 1)
        PROVE  streamWin'[k] >= 0 /\ SlotSum(k, h, paid, streamWin'[k])
    <3>1. SlotSum(k, g, paid, streamWin[k])
      BY <1>13, <2>1, Zenon
    <3>2. h[u] - paid[u] = g[u] - paid[u] + n
      <4>1. g[u] \in Int /\ paid[u] \in Nat
        BY <1>4, <1>7, <1>10, <2>2, Zenon
      <4> QED
        BY <2>2, <2>4, <4>1
    <3>3. \A s \in Streams \ {u} : h[s] - paid[s] = g[s] - paid[s]
      BY <2>4, Zenon
    <3>4. SlotSum(k, h, paid, streamWin[k] + (IF Slot(u) = k THEN n ELSE 0))
      <4>1. ChangeAt(g, paid, h, paid, u, n)
        BY <1>14, <3>2, <3>3, Zenon DEF ChangeAt
      <4>2. n \in Int
        BY <2>2
      <4> QED
        BY <2>2, <3>1, <4>1, <4>2, SlotSumChange, Zenon
    <3>5. streamWin[k] \in Int /\ streamWin[k] >= 0
      BY <1>1, <1>9, Zenon
    <3>6. streamWin'[k] = streamWin[k] + (IF Slot(u) = k THEN n ELSE 0)
      BY <1>1, <2>1, <2>2, <2>5, <3>5
    <3> QED
      BY <2>2, <3>4, <3>5, <3>6
  <2>7. connWin' = ConnWin + h[0] - paid[0] /\ connWin' >= 0
    BY <1>9, <2>1, <2>4, Zenon
  <2> QED
    BY <1>11, <2>6, <2>7, Zenon
<1>18. CASE f.t = "PING"
  <2>1. connWin' = connWin /\ streamWin' = streamWin
    BY <1>2, <1>18, Zenon DEF Housekeeping, windows
  <2>2. \A s \in 0..MaxStream : Amount(f, s) = 0
    BY <1>18, Zenon DEF Amount
  <2>3. h[0] = g[0]
    BY <1>4, <1>7, <2>2
  <2>4. \A s \in Streams : Amount(f, s) = 0
    BY <1>4, <2>2, Zenon
  <2>5. \A k \in 0..(Slots - 1) : streamWin'[k] >= 0 /\ SlotSum(k, h, paid, streamWin'[k])
    BY <1>9, <1>15, <1>18, <2>1, <2>4, Zenon
  <2> QED
    BY <1>9, <1>11, <2>1, <2>3, <2>5, Zenon
<1> QED
  BY <1>2, <1>12, <1>16, <1>17, <1>18, Zenon DEF House

\* A chunk of a reply, or a step that sends no payload.
LEMMA FlowServe ==
  ASSUME HTypes, FlowInv, ServeStep
  PROVE  FlowInv'
<1>1. /\ connWin \in Int /\ streamWin \in [0..(Slots - 1) -> Int]
      /\ paid \in [0..MaxStream -> Nat] /\ returned \in [0..MaxStream -> Nat]
  BY Zenon DEF HTypes
<1>2. MaxStream \in Nat /\ ConnWin \in Nat /\ 0 \in 0..MaxStream
      /\ \A s \in Streams : s \in 0..MaxStream /\ s # 0
  BY LengthsAssumption, WindowsAssumption DEF Streams
<1>3. wire' = wire /\ returned' = returned /\ cur.s \in Streams /\ Slot(cur.s) \in 0..(Slots - 1)
  BY SlotRange, Zenon DEF ServeStep, HTypes, client
<1>4. ~Fresh /\ ~Fresh' /\ Greeting'
  BY <1>3, Zenon DEF FlowInv, Greeting, Fresh, ServeStep
<1>5. PICK g \in Amounts : Ledger(g)
  BY Zenon DEF FlowInv
<1>6. CASE UNCHANGED <<windows, paid>>
  <2>1. connWin' = connWin /\ streamWin' = streamWin /\ paid' = paid
    BY <1>6, Zenon DEF windows
  <2>2. Ledger(g)'
    BY <1>3, <1>4, <1>5, <2>1, Zenon DEF Ledger
  <2> QED
    BY <1>3, <1>4, <1>5, <2>1, <2>2, Zenon DEF FlowInv
<1>7. ASSUME NEW n \in Nat, paid' = [paid EXCEPT ![cur.s] = @ + n, ![0] = @ + n],
             streamWin' = [streamWin EXCEPT ![Slot(cur.s)] = @ - n],
             connWin' = connWin - n, n <= connWin, n <= streamWin[Slot(cur.s)]
      PROVE  FlowInv'
  <2>1. PICK u \in Streams : u = cur.s
    BY <1>3, Zenon
  <2>2. paid'[u] = paid[u] + n /\ paid'[0] = paid[0] + n
        /\ \A s \in Streams \ {u} : paid'[s] = paid[s]
    BY <1>1, <1>2, <1>7, <2>1, Zenon
  <2>3. \A s \in 0..MaxStream : g[s] \in Int /\ paid[s] \in Nat /\ returned[s] \in Nat
                                /\ returned[s] <= paid[s]
    BY <1>1, <1>5, Zenon DEF Amounts, FlowInv
  <2>4. \A s \in 0..MaxStream : returned'[s] <= paid'[s]
    <3>1. \A s \in 0..MaxStream : s = 0 \/ s = u \/ s \in Streams \ {u}
      BY <1>2 DEF Streams
    <3> QED
      BY <1>2, <1>3, <2>2, <2>3, <3>1
  <2>5. connWin' >= 0 /\ connWin' = ConnWin + g[0] - paid'[0]
    <3>1. connWin = ConnWin + g[0] - paid[0]
      BY <1>5, Zenon DEF Ledger
    <3>2. g[0] \in Int /\ paid[0] \in Nat
      BY <1>2, <2>3, Zenon
    <3>3. connWin' = connWin - n /\ n <= connWin /\ paid'[0] = paid[0] + n
          /\ connWin \in Int /\ ConnWin \in Nat
      BY <1>1, <1>2, <1>7, <2>2, Zenon
    <3> QED
      BY <3>1, <3>2, <3>3
  <2>6. ASSUME NEW k \in 0..(Slots - 1)
        PROVE  streamWin'[k] >= 0 /\ SlotSum(k, g, paid', streamWin'[k])
    <3>1. SlotSum(k, g, paid, streamWin[k])
      BY <1>4, <1>5, Zenon DEF Ledger
    <3>2. \A s \in Streams : g[s] - paid[s] \in Int
      BY <1>2, <2>3
    <3>3. g[u] - paid'[u] = g[u] - paid[u] + (0 - n)
      <4>1. g[u] \in Int /\ paid[u] \in Nat
        BY <1>2, <2>3, Zenon
      <4> QED
        BY <2>2, <4>1
    <3>4. \A s \in Streams \ {u} : g[s] - paid'[s] = g[s] - paid[s]
      BY <2>2, Zenon
    <3>5. 0 - n \in Int
      OBVIOUS
    <3>6. SlotSum(k, g, paid', streamWin[k] + (IF Slot(u) = k THEN 0 - n ELSE 0))
      <4>1. ChangeAt(g, paid, g, paid', u, 0 - n)
        BY <3>2, <3>3, <3>4, Zenon DEF ChangeAt
      <4> QED
        BY <3>1, <3>5, <4>1, SlotSumChange, Zenon
    <3>7. streamWin[k] \in Int /\ streamWin[k] >= 0
      BY <1>1, Zenon DEF FlowInv
    <3>8. streamWin'[k] = streamWin[k] + (IF Slot(u) = k THEN 0 - n ELSE 0) /\ streamWin'[k] >= 0
      <4>1. CASE Slot(u) = k
        <5>1. streamWin'[k] = streamWin[k] - n /\ n <= streamWin[k]
          BY <1>1, <1>7, <2>1, <4>1, Zenon
        <5> QED
          BY <3>7, <4>1, <5>1
      <4>2. CASE Slot(u) # k
        <5>1. streamWin'[k] = streamWin[k]
          BY <1>1, <1>7, <2>1, <4>2, Zenon
        <5> QED
          BY <3>7, <4>2, <5>1
      <4> QED
        BY <4>1, <4>2, Zenon
    <3> QED
      BY <3>6, <3>8, Zenon
  <2>7. Ledger(g)'
    BY <1>3, <1>4, <1>5, <2>5, <2>6, Zenon DEF Ledger
  <2> QED
    BY <1>4, <1>5, <2>4, <2>5, <2>6, <2>7, Zenon DEF FlowInv
<1> QED
  BY <1>6, <1>7, Zenon DEF ServeStep

\* Every step keeps the windows within what the client granted.
LEMMA StepFlow ==
  ASSUME HTypes, FlowInv, [Next]_vars
  PROVE  FlowInv'
<1>1. /\ wire \in Seq(FrameSet) /\ unsent \in [Streams -> Seq(FrameSet)]
      /\ paid \in [0..MaxStream -> Nat] /\ returned \in [0..MaxStream -> Nat]
      /\ \A s \in Streams : Remainder(unsent[s], s)
      /\ \A s \in 0..MaxStream : returned[s] <= paid[s]
  BY Zenon DEF HTypes, FlowInv
<1>2. ASSUME NEW f \in FrameSet, f.t \notin {"SETTINGS", "WINDOW"}, wire' = Append(wire, f),
             UNCHANGED <<returned, pending, windows, pc, paid>>
      PROVE  FlowInv'
  <2>1. \A s \in 0..MaxStream : returned'[s] = returned[s] + Amount(f, s) /\ returned'[s] <= paid[s]
    BY <1>1, <1>2 DEF Amount
  <2> QED
    BY <1>2, <2>1, FlowAppend, Zenon
<1>3. ASSUME UNCHANGED <<wire, returned, pending, windows, pc, paid>>
      PROVE  FlowInv'
  BY <1>3, Zenon DEF FlowInv, Greeting, Ledger, Fresh, Active, windows
<1>4. CASE ClientOpen
  BY <1>3, <1>4, Zenon DEF ClientOpen
<1>5. ASSUME NEW s \in Streams, ClientSend(s)
      PROVE  FlowInv'
  <2>1. unsent[s] \in Seq(FrameSet) /\ unsent[s] # << >> /\ wire' = Append(wire, Head(unsent[s]))
        /\ UNCHANGED <<returned, pending, windows, pc, paid>>
    BY <1>1, <1>5, Zenon DEF ClientSend
  <2>2. Head(unsent[s]) = unsent[s][1] /\ Head(unsent[s]) \in FrameSet /\ 1 \in 1..Len(unsent[s])
    BY <2>1, TailFacts
  <2>3. Head(unsent[s]).t \notin {"SETTINGS", "WINDOW"}
    BY <1>1, <2>2, Zenon DEF Remainder
  <2> QED
    BY <1>2, <2>1, <2>2, <2>3, Zenon
<1>6. ASSUME NEW s \in 0..MaxStream, ClientGrant(s)
      PROVE  FlowInv'
  <2> DEFINE f == WindowFrame("WINDOW", s, paid[s] - returned[s])
  <2>1. paid[s] - returned[s] \in Nat /\ paid[s] \in Nat /\ returned[s] \in Nat
    <3>1. paid[s] \in Nat /\ returned[s] \in Nat /\ returned[s] <= paid[s]
      BY <1>1, Zenon
    <3> QED
      BY <3>1
  <2>2. f \in FrameSet /\ f.t = "WINDOW" /\ f.s = s /\ f.n = paid[s] - returned[s]
    BY <2>1, OneFrame DEF Tags
  <2>3. wire' = Append(wire, f) /\ returned' = [returned EXCEPT ![s] = paid[s]]
        /\ UNCHANGED <<pending, windows, pc, paid>>
    BY <1>6, Zenon DEF ClientGrant
  <2> HIDE DEF f
  <2>4. Amount(f, s) = paid[s] - returned[s] /\ \A t \in (0..MaxStream) \ {s} : Amount(f, t) = 0
    BY <2>2, Zenon DEF Amount
  <2>5. ASSUME NEW t \in 0..MaxStream
        PROVE  returned'[t] = returned[t] + Amount(f, t) /\ returned'[t] <= paid[t]
    <3>1. CASE t = s
      <4>1. returned'[t] = paid[t] /\ paid[t] \in Nat /\ returned[t] \in Nat
            /\ Amount(f, t) = paid[t] - returned[t]
        BY <1>1, <2>1, <2>3, <2>4, <3>1, Zenon
      <4> QED
        BY <4>1
    <3>2. CASE t # s
      <4>1. returned'[t] = returned[t] /\ paid[t] \in Nat /\ returned[t] \in Nat
            /\ Amount(f, t) = 0 /\ returned[t] <= paid[t]
        BY <1>1, <2>3, <2>4, <3>2, Zenon
      <4> QED
        BY <4>1
    <3> QED
      BY <3>1, <3>2, Zenon
  <2> QED
    BY <2>2, <2>3, <2>5, FlowAppend, Zenon
<1>7. CASE ClientAbort
  <2>1. UNCHANGED <<returned, pending, windows, pc, paid>>
    BY <1>7, Zenon DEF ClientAbort
  <2>2. CASE wire' = wire
    BY <1>3, <2>1, <2>2, Zenon
  <2>3. ASSUME NEW f \in FrameSet, Sends(f), f.t # "WINDOW"
        PROVE  FlowInv'
    BY <1>2, <2>1, <2>3, Zenon DEF Sends
  <2> QED
    BY <1>7, <2>2, <2>3, AbortFacts, Zenon
<1>8. CASE ReadEof
  <2>1. FlowInv /\ pc' = "closed" /\ UNCHANGED <<wire, returned, pending, windows, paid>>
    BY <1>8, Zenon DEF ReadEof, client
  <2> QED
    BY <2>1, Zenon DEF FlowInv, Greeting, Ledger, Fresh, Active, windows
<1>9. CASE StoreChange \/ UNCHANGED vars
  BY <1>3, <1>9, Zenon DEF StoreChange, vars, client
<1> QED
  BY <1>4, <1>5, <1>6, <1>7, <1>8, <1>9, FlowHouse, FlowRead, FlowServe, ReadsAre, ServesAre, Zenon
  DEF Next, ClientNext, ServerNext

\* send_data_windowed never sends more payload than the client granted, on the connection or
\* on any stream, although stream_window has fewer entries than there are streams and two
\* streams may share one: whatever a stream takes from a shared entry was granted to it or
\* announced for it, since no stream has had more window returned than it has spent.
THEOREM WindowsRespected == Spec => []FlowControl
<1>1. HTypes /\ FlowInv /\ [Next]_vars => (HTypes /\ FlowInv)'
  BY StepHTypes, StepFlow, Zenon
<1> QED
  BY <1>1, InitHTypes, InitFlow, FlowBound, PTL DEF Spec

=============================================================================
