--------------------------- MODULE PersistProofs ---------------------------
(***************************************************************************)
(* Proofs about the configuration store and its write-ahead log.           *)
(***************************************************************************)
EXTENDS Persist, FiniteSetTheorems, FunctionTheorems, SequenceTheorems, WellFoundedInduction,
        TLAPS

-----------------------------------------------------------------------------
(* Frames. *)

\* A record the log accepts; only a DELETE has no payload.
Sound(r) == r.obj \notin Unlogged /\ (r.op = "DELETE" <=> r.val = NoVal)

\* What is in the log, and what a thread that is writing has written so far.
FramesOK ==
  /\ \A i \in 1..Len(file) : Sound(file[i].rec) /\ file[i].parts <= Parts(file[i].rec)
  /\ \A th \in Threads : pc[th] # "idle" => up /\ Sound(rec[th]) /\ rec[th].obj \in Owns[th]
  /\ \A th \in Threads : pc[th] = "data" => rec[th].op # "DELETE"
  /\ \A th \in Threads :
       pc[th] \in {"data", "crc"} /\ Mine(th) =>
         /\ file[Len(file)].rec = rec[th] /\ file[Len(file)].parts < Parts(rec[th])
         /\ pc[th] = "data" => file[Len(file)].parts = 1

LogTypes == TypeOK /\ FramesOK

\* The two things an fwrite does.
NewFrame(th) == [rec |-> rec[th], by |-> th, parts |-> 1]
Appends(th) == file' = Append(file, NewFrame(th))
Extends(th) == Mine(th) /\ file' = [file EXCEPT ![Len(file)].parts = @ + 1]

\* A frame is written by two or three calls of fwrite.
LEMMA PartsRange ==
  ASSUME NEW r
  PROVE  Parts(r) \in 2..3
BY DEF Parts

\* The first fwrite of a frame adds one to the log and changes no other.
LEMMA AppendFacts ==
  ASSUME TypeOK, NEW th \in Threads, Appends(th)
  PROVE  /\ Len(file) \in Nat /\ Len(file') = Len(file) + 1 /\ file' \in Seq(Frames)
         /\ file'[Len(file) + 1] = NewFrame(th) /\ NewFrame(th) \in Frames
         /\ \A i \in 1..Len(file) : file'[i] = file[i]
<1>1. NewFrame(th) \in Frames
  BY DEF TypeOK, NewFrame, Frames
<1>2. file \in Seq(Frames) /\ Len(file) \in Nat
  BY DEF TypeOK
<1> QED
  BY <1>1, <1>2, AppendProperties DEF Appends

\* The later fwrites of a frame change the last frame only.
LEMMA ExtendFacts ==
  ASSUME LogTypes, NEW th \in Threads, pc[th] \in {"data", "crc"}, Extends(th)
  PROVE  /\ Len(file) \in Nat \ {0} /\ Len(file') = Len(file) /\ file' \in Seq(Frames)
         /\ file'[Len(file)].rec = rec[th] /\ file'[Len(file)].by = th
         /\ file[Len(file)].rec = rec[th] /\ file[Len(file)].by = th
         /\ file'[Len(file)].parts = file[Len(file)].parts + 1
         /\ \A i \in 1..(Len(file) - 1) : file'[i] = file[i]
<1> DEFINE n == Len(file)
           g == [file[n] EXCEPT !.parts = @ + 1]
<1>1. file \in Seq(Frames) /\ n \in Nat \ {0} /\ file[n] \in Frames
  BY DEF LogTypes, TypeOK, Extends, Mine
<1>2. file[n].by = th /\ file[n].rec = rec[th] /\ file[n].parts < Parts(rec[th])
  BY Zenon DEF LogTypes, FramesOK, Extends, Mine
<1>3. g \in Frames /\ g.rec = file[n].rec /\ g.by = file[n].by /\ g.parts = file[n].parts + 1
  BY <1>1, <1>2, PartsRange DEF Frames
<1>4. file' = [file EXCEPT ![n] = g]
  BY Zenon DEF Extends
<1> HIDE DEF g
<1>5. file' \in Seq(Frames) /\ Len(file') = n /\ file'[n] = g
      /\ \A i \in 1..(n - 1) : file'[i] = file[i]
  BY <1>1, <1>3, <1>4, ExceptSeq
<1> QED
  BY <1>1, <1>2, <1>3, <1>5, Zenon

\* What a crash leaves: k frames, the last with p of its fwrites.
IsCut(f, k, p) ==
  /\ k \in 0..Len(file) /\ f \in Seq(Frames) /\ Len(f) = k
  /\ \A i \in 1..k : /\ f[i].rec = file[i].rec /\ f[i].by = NoThread
                     /\ f[i].parts = IF i = k THEN p ELSE file[i].parts
  /\ k > 0 => p \in 1..file[k].parts
  /\ k > synced.frames \/ (k = synced.frames /\ (k = 0 \/ p >= synced.parts))

\* What a crash may leave of the log is a prefix, its last frame perhaps cut.
LEMMA CutFacts ==
  ASSUME TypeOK, NEW f \in Cuts
  PROVE  \E k \in 0..Len(file), p \in 1..3 : IsCut(f, k, p)
<1>1. file \in Seq(Frames) /\ Len(file) \in Nat /\ synced.frames \in Nat
  BY DEF TypeOK
<1>2. CASE f = << >> /\ synced.frames = 0
  <2>1. << >> \in Seq(Frames) /\ Len(<< >>) = 0
    OBVIOUS
  <2>2. IsCut(f, 0, 1)
    BY <1>1, <1>2, <2>1 DEF IsCut
  <2> QED
    BY <1>1, <2>2
<1>3. CASE \E c \in {d \in (1..Len(file)) \X (1..3) :
                   /\ d[2] <= file[d[1]].parts
                   /\ \/ d[1] > synced.frames
                      \/ d[1] = synced.frames /\ d[2] >= synced.parts} : f = Cut(c[1], c[2])
  <2>1. PICK k \in 1..Len(file), p \in 1..3 :
               /\ f = Cut(k, p) /\ p <= file[k].parts
               /\ k > synced.frames \/ (k = synced.frames /\ p >= synced.parts)
    BY <1>3, Zenon
  <2>2. k \in Nat /\ \A i \in 1..k : i \in 1..Len(file) /\ file[i] \in Frames
    BY <1>1
  <2> DEFINE g(i) == [file[i] EXCEPT !.by = NoThread, !.parts = IF i = k THEN p ELSE @]
  <2>3. ASSUME NEW i \in 1..k
        PROVE  /\ g(i) \in Frames /\ g(i).rec = file[i].rec /\ g(i).by = NoThread
               /\ g(i).parts = IF i = k THEN p ELSE file[i].parts
    BY <2>2, Zenon DEF Frames
  <2> HIDE DEF g
  <2>4. f = [i \in 1..k |-> g(i)]
    BY <2>1, Zenon DEF Cut, g
  <2>5. f \in [1..k -> Frames] /\ \A i \in 1..k : f[i] = g(i)
    BY <2>3, <2>4, Zenon
  <2>6. f \in Seq(Frames) /\ Len(f) = k
    <3>1. f \in Seq(Frames)
      BY <2>2, <2>5, SeqDef, Zenon
    <3> QED
      BY <2>2, <2>5, <3>1, LenProperties
  <2>7. file[k].parts \in 1..3
    BY <2>2 DEF Frames
  <2>8. IsCut(f, k, p)
    BY <1>1, <2>1, <2>2, <2>3, <2>5, <2>6, <2>7 DEF IsCut
  <2> QED
    BY <1>1, <2>8
<1> QED
  BY <1>2, <1>3, Zenon DEF Cuts

-----------------------------------------------------------------------------
(* Replay. *)

Below == {ss \in Nat \X Nat : ss[1] < ss[2]}

\* A non-empty set of numbers has a least one: the induction the proofs use.
LEMMA LeastElement ==
  ASSUME NEW T \in SUBSET Nat, T # {}
  PROVE  \E x \in T : \A y \in T : x <= y
<1>1. IsWellFoundedOn(Below, Nat)
  BY NatLessThanWellFounded, Zenon DEF OpToRel, Below
<1>2. PICK x \in T : \A y \in T : ~(<<y, x>> \in Below)
  BY <1>1, WFMin, Zenon
<1>3. \A y \in T : x \in Nat /\ y \in Nat /\ ~(y < x)
  BY <1>2, Zenon DEF Below
<1> QED
  BY <1>3

\* A non-empty set of places of the log has a last one.
LEMMA GreatestElement ==
  ASSUME NEW n \in Nat, NEW T \in SUBSET (1..n), T # {}
  PROVE  \E x \in T : \A y \in T : y <= x
<1> DEFINE U == {n - x : x \in T}
<1>1. U \in SUBSET Nat /\ U # {}
  <2>1. \A x \in T : x \in 1..n /\ n - x \in Nat
    OBVIOUS
  <2>2. U # {}
    BY Zenon
  <2> HIDE DEF U
  <2>3. \A u \in U : u \in Nat
    BY <2>1, Zenon DEF U
  <2> QED
    BY <2>2, <2>3, Zenon
<1>2. PICK u \in U : \A v \in U : u <= v
  BY <1>1, LeastElement, Zenon
<1>3. PICK x \in T : u = n - x
  BY Zenon
<1>4. ASSUME NEW y \in T
      PROVE  y <= x
  <2>1. n - y \in U
    BY Zenon
  <2> QED
    BY <1>2, <1>3, <2>1
<1> QED
  BY <1>3, <1>4, Zenon

\* What the replay of a log makes of an object: nothing without a slot, else what its
\* last readable record says.
Content(r) == IF r.op = "DELETE" THEN NoVal ELSE r.val

\* Replay gives an object with a slot the content of its last record, and no other any.
LEMMA RecoveredVal ==
  ASSUME NEW f \in Seq(Frames), NEW o \in Objs
  PROVE  /\ ~HasSlot(f, o) => Recovered(f)[o] = NoVal
         /\ HasSlot(f, o) =>
              \E i \in Touching(f, o) : /\ \A j \in Touching(f, o) : j <= i
                                        /\ Recovered(f)[o] = Content(f[i].rec)
<1> DEFINE T == Touching(f, o)
           last == CHOOSE i \in T : \A j \in T : j <= i
<1>1. Recovered(f)[o] = IF HasSlot(f, o) THEN Content(f[last].rec) ELSE NoVal
  BY Zenon DEF Recovered, Content
<1>2. ASSUME HasSlot(f, o)
      PROVE  last \in T /\ \A j \in T : j <= last
  <2>1. T # {}
    BY <1>2, Zenon DEF HasSlot
  <2>2. Len(f) \in Nat /\ T \in SUBSET (1..Len(f))
    BY DEF Touching, Reached
  <2>3. \E i \in T : \A j \in T : j <= i
    BY <2>1, <2>2, GreatestElement, Zenon
  <2> QED
    BY <2>3, Zenon
<1> HIDE DEF T, last
<1>3. CASE HasSlot(f, o)
  <2>1. last \in Touching(f, o) /\ \A j \in Touching(f, o) : j <= last
    BY <1>2, <1>3, Zenon DEF T
  <2> QED
    BY <1>1, <1>3, <2>1, Zenon
<1>4. CASE ~HasSlot(f, o)
  BY <1>1, <1>4, Zenon
<1> QED
  BY <1>3, <1>4, Zenon

\* What replay builds is a store.
LEMMA RecoveredType ==
  ASSUME NEW f \in Seq(Frames)
  PROVE  Recovered(f) \in Stores
<1>1. ASSUME NEW o \in Objs
      PROVE  Recovered(f)[o] \in Vals \cup {NoVal}
  <2>1. CASE HasSlot(f, o)
    <3>1. PICK i \in Touching(f, o) : Recovered(f)[o] = Content(f[i].rec)
      BY <2>1, RecoveredVal, Zenon
    <3>2. f[i] \in Frames
      BY DEF Touching, Reached
    <3>3. f[i].rec \in Records
      BY <3>2, Zenon DEF Frames
    <3> QED
      BY <3>1, <3>3, Zenon DEF Records, Content
  <2> QED
    BY <2>1, RecoveredVal, Zenon
<1>2. Recovered(f) = [o \in Objs |-> Recovered(f)[o]]
  BY DEF Recovered
<1> QED
  BY <1>1, <1>2, Zenon DEF Stores

-----------------------------------------------------------------------------
(* Types. *)

\* The record of an idle thread has its type.
LEMMA NoRecType == NoRec \in Records
BY KeysAssumption, Zenon DEF NoRec, Records

\* Every step keeps the types of the log.
LEMMA StepTypes ==
  ASSUME LogTypes, [Next]_vars
  PROVE  TypeOK'
<1> USE DEF LogTypes, TypeOK
<1>1. ASSUME NEW th \in Threads, NEW r \in Records, Mutate(th, r)
      PROVE  TypeOK'
  <2>1. r.obj \in Objs /\ r.val \in Vals \cup {NoVal}
    BY Zenon DEF Records
  <2>2. store' \in Stores /\ acked' \in Stores
    BY <1>1, <2>1, Zenon DEF Mutate, Stores
  <2>3. ops' \in 0..MaxOps
    BY <1>1, BoundsAssumption DEF Mutate
  <2> QED
    BY <1>1, <2>2, <2>3, Zenon DEF Mutate, At
<1>2. ASSUME NEW th \in Threads, WriteHeader(th)
      PROVE  TypeOK'
  <2>1. Appends(th)
    BY <1>2, Zenon DEF WriteHeader, Appends, NewFrame
  <2> QED
    BY <1>2, <2>1, AppendFacts, Zenon DEF WriteHeader, At
<1>3. ASSUME NEW th \in Threads, WriteData(th) \/ WriteCrc(th)
      PROVE  TypeOK'
  <2>1. (Appends(th) \/ Extends(th)) /\ pc[th] \in {"data", "crc"}
    BY <1>3, Zenon DEF WriteData, WriteCrc, WriteMore, Appends, Extends, NewFrame
  <2>2. file' \in Seq(Frames)
    BY <2>1, AppendFacts, ExtendFacts, Zenon
  <2> QED
    BY <1>3, <2>2, Zenon DEF WriteData, WriteCrc, At
<1>4. ASSUME NEW th \in Threads, Sync(th)
      PROVE  TypeOK'
  <2>1. file # << >> => file[Len(file)] \in Frames
    OBVIOUS
  <2>2. synced' \in [frames : Nat, parts : 0..3]
    BY <1>4, <2>1 DEF Sync, Frames
  <2> QED
    BY <1>4, <2>2, Zenon DEF Sync, At
<1>5. CASE Crash
  <2>1. file' \in Seq(Frames)
    BY <1>5, CutFacts, Zenon DEF Crash, IsCut
  <2>2. file' # << >> => file'[Len(file')] \in Frames
    BY <2>1
  <2>3. synced' \in [frames : Nat, parts : 0..3]
    BY <1>5, <2>1, <2>2 DEF Crash, Frames
  <2>4. store' \in Stores /\ crashes' \in 0..MaxCrashes
    BY <1>5, BoundsAssumption DEF Crash, Stores, Empty
  <2> QED
    BY <1>5, <2>1, <2>3, <2>4, NoRecType, Zenon DEF Crash
<1>6. CASE Boot
  BY <1>6, RecoveredType, Zenon DEF Boot
<1>7. CASE Checkpoint
  <2>1. << >> \in Seq(Frames)
    OBVIOUS
  <2> QED
    BY <1>7, <2>1 DEF Checkpoint
<1>8. CASE UNCHANGED vars
  BY <1>8, Zenon DEF vars
<1> QED
  BY <1>1, <1>2, <1>3, <1>4, <1>5, <1>6, <1>7, <1>8, Zenon DEF Next

\* Of the conjuncts of FramesOK, what a thread that is writing relies on.
LEMMA StepFrames ==
  ASSUME LogTypes, [Next]_vars
  PROVE  FramesOK'
<1> USE DEF FramesOK
<1>1. LogTypes /\ FramesOK /\ Len(file) \in Nat /\ file \in Seq(Frames)
      /\ pc \in [Threads -> {"idle", "header", "data", "crc", "sync"}]
      /\ rec \in [Threads -> Records]
  BY DEF LogTypes, TypeOK
<1>2. ASSUME NEW th \in Threads, NEW r \in Records, Mutate(th, r)
      PROVE  FramesOK'
  <2>1. up /\ up' = up /\ file' = file /\ r.obj \in Owns[th] /\ pc[th] = "idle"
        /\ (r.op = "DELETE" <=> r.val = NoVal)
    BY <1>2, ValsAssumption, Zenon DEF Mutate, Records
  <2>2. rec'[th] = r /\ \A u \in Threads \ {th} : rec'[u] = rec[u] /\ pc'[u] = pc[u]
    BY <1>1, <1>2, Zenon DEF Mutate, At
  <2>3. pc'[th] = "idle" \/ (pc'[th] = "header" /\ r.obj \notin Unlogged)
    BY <1>1, <1>2, Zenon DEF Mutate, At
  <2> QED
    BY <1>1, <2>1, <2>2, <2>3 DEF Mine, Sound
<1>3. ASSUME NEW th \in Threads, Appends(th), pc[th] \in {"header", "data", "crc"},
             UNCHANGED <<up, rec>>, pc'[th] \in {"data", "crc", "sync"},
             pc'[th] = "data" => rec[th].op # "DELETE",
             \A u \in Threads \ {th} : pc'[u] = pc[u]
      PROVE  FramesOK'
  <2>1. /\ Len(file') = Len(file) + 1 /\ file'[Len(file) + 1] = NewFrame(th)
        /\ \A i \in 1..Len(file) : file'[i] = file[i]
    BY <1>1, <1>3, AppendFacts, Zenon DEF LogTypes
  <2>2. NewFrame(th).rec = rec[th] /\ NewFrame(th).by = th /\ NewFrame(th).parts = 1
        /\ Sound(rec[th]) /\ up /\ rec[th].obj \in Owns[th]
    BY <1>1, <1>3, Zenon DEF NewFrame
  <2>3. Parts(rec[th]) \in 2..3
    BY PartsRange, Zenon
  <2>4. \A i \in 1..Len(file') : Sound(file'[i].rec) /\ file'[i].parts <= Parts(file'[i].rec)
    <3> SUFFICES ASSUME NEW i \in 1..Len(file')
                 PROVE  Sound(file'[i].rec) /\ file'[i].parts <= Parts(file'[i].rec)
      BY Zenon
    <3>1. CASE i = Len(file) + 1
      BY <2>1, <2>2, <2>3, <3>1
    <3>2. CASE i \in 1..Len(file)
      BY <1>1, <2>1, <3>2, Zenon
    <3> QED
      BY <1>1, <2>1, <3>1, <3>2
  <2>5. \A u \in Threads : Mine(u)' => u = th
    BY <1>1, <2>1, <2>2, Zenon DEF Mine
  <2> QED
    BY <1>1, <1>3, <2>1, <2>2, <2>3, <2>4, <2>5
<1>4. ASSUME NEW th \in Threads, Extends(th), pc[th] \in {"data", "crc"},
             UNCHANGED <<up, rec>>, pc'[th] = IF pc[th] = "data" THEN "crc" ELSE "sync",
             \A u \in Threads \ {th} : pc'[u] = pc[u]
      PROVE  FramesOK'
  <2>1. /\ Len(file) \in Nat \ {0} /\ Len(file') = Len(file)
        /\ file'[Len(file)].rec = rec[th] /\ file'[Len(file)].by = th
        /\ file'[Len(file)].parts = file[Len(file)].parts + 1
        /\ \A i \in 1..(Len(file) - 1) : file'[i] = file[i]
    BY <1>1, <1>4, ExtendFacts, Zenon
  <2>2. /\ file[Len(file)].parts < Parts(rec[th]) /\ file[Len(file)].parts \in 1..3
        /\ pc[th] = "data" => file[Len(file)].parts = 1 /\ Parts(rec[th]) = 3
        /\ Sound(rec[th]) /\ up /\ rec[th].obj \in Owns[th]
    <3>1. file[Len(file)] \in Frames
      BY <1>1, <2>1
    <3>2. file[Len(file)].parts \in 1..3
      BY <3>1, Zenon DEF Frames
    <3>3. pc[th] = "data" => Parts(rec[th]) = 3
      BY <1>1, Zenon DEF Parts
    <3> QED
      BY <1>1, <1>4, <3>2, <3>3, Zenon DEF Extends
  <2>3. Parts(rec[th]) \in 2..3
    BY PartsRange, Zenon
  <2>4. \A i \in 1..Len(file') : Sound(file'[i].rec) /\ file'[i].parts <= Parts(file'[i].rec)
    <3> SUFFICES ASSUME NEW i \in 1..Len(file')
                 PROVE  Sound(file'[i].rec) /\ file'[i].parts <= Parts(file'[i].rec)
      BY Zenon
    <3>1. CASE i = Len(file)
      BY <2>1, <2>2, <2>3, <3>1
    <3>2. CASE i \in 1..(Len(file) - 1)
      BY <1>1, <2>1, <3>2, Zenon
    <3> QED
      BY <1>1, <2>1, <3>1, <3>2
  <2>5. \A u \in Threads : Mine(u)' => u = th
    BY <1>1, <2>1, Zenon DEF Mine
  <2> QED
    BY <1>1, <1>4, <2>1, <2>2, <2>3, <2>4, <2>5
<1>5. ASSUME NEW th \in Threads, WriteHeader(th)
      PROVE  FramesOK'
  <2>1. Appends(th) /\ pc[th] = "header" /\ UNCHANGED <<up, rec>>
        /\ pc'[th] = (IF rec[th].op = "DELETE" THEN "crc" ELSE "data")
        /\ \A u \in Threads \ {th} : pc'[u] = pc[u]
    BY <1>1, <1>5, Zenon DEF WriteHeader, Appends, NewFrame, At
  <2> QED
    BY <1>3, <2>1, Zenon
<1>6. ASSUME NEW th \in Threads, WriteData(th) \/ WriteCrc(th)
      PROVE  FramesOK'
  <2>1. (Appends(th) \/ Extends(th)) /\ pc[th] \in {"data", "crc"} /\ UNCHANGED <<up, rec>>
        /\ pc'[th] = (IF pc[th] = "data" THEN "crc" ELSE "sync")
        /\ \A u \in Threads \ {th} : pc'[u] = pc[u]
    BY <1>1, <1>6, Zenon DEF WriteData, WriteCrc, WriteMore, Appends, Extends, NewFrame, At
  <2> QED
    BY <1>3, <1>4, <2>1, Zenon
<1>7. ASSUME NEW th \in Threads, Sync(th)
      PROVE  FramesOK'
  BY <1>1, <1>7, Zenon DEF Sync, At, Mine
<1>8. CASE Crash
  <2>1. \A th \in Threads : pc'[th] = "idle"
    BY <1>8, Zenon DEF Crash
  <2>2. PICK k \in 0..Len(file), p \in 1..3 : IsCut(file', k, p)
    BY <1>1, <1>8, CutFacts, Zenon DEF Crash, LogTypes
  <2>3. ASSUME NEW i \in 1..Len(file')
        PROVE  Sound(file'[i].rec) /\ file'[i].parts <= Parts(file'[i].rec)
    <3>1. i \in 1..k /\ i \in 1..Len(file) /\ file[i] \in Frames
      BY <1>1, <2>2 DEF IsCut
    <3>2. file'[i].rec = file[i].rec /\ file'[i].parts <= file[i].parts
      BY <1>1, <2>2, <3>1 DEF IsCut, Frames
    <3>3. file[i].parts \in 1..3 /\ file'[i].parts \in 1..3
      BY <2>2, <3>1, Zenon DEF IsCut, Frames
    <3> QED
      BY <1>1, <3>1, <3>2, <3>3, PartsRange
  <2> QED
    BY <2>1, <2>3, Zenon
<1>9. CASE Boot
  BY <1>1, <1>9, Zenon DEF Boot, Mine
<1>10. CASE Checkpoint
  <2>1. file' = << >> /\ Len(file') = 0 /\ pc' = pc /\ rec' = rec
        /\ \A th \in Threads : pc[th] = "idle"
    BY <1>10, Zenon DEF Checkpoint, Quiet
  <2> QED
    BY <2>1
<1>11. CASE UNCHANGED vars
  BY <1>1, <1>11, Zenon DEF vars, Mine
<1> QED
  BY <1>2, <1>5, <1>6, <1>7, <1>8, <1>9, <1>10, <1>11, Zenon DEF Next

\* The log begins well typed.
LEMMA InitLog == Init => LogTypes
<1> SUFFICES ASSUME Init PROVE LogTypes
  BY Zenon
<1>1. << >> \in Seq(Frames) /\ Len(<< >>) = 0
  OBVIOUS
<1>2. Empty \in Stores
  BY Zenon DEF Empty, Stores
<1>3. TypeOK
  BY <1>1, <1>2, NoRecType, BoundsAssumption DEF Init, TypeOK
<1>4. FramesOK
  BY <1>1 DEF Init, FramesOK
<1> QED
  BY <1>3, <1>4, Zenon DEF LogTypes

\* The state keeps its types however mutations, the fwrites of several threads, crashes,
\* recoveries and checkpoints interleave; in particular danos_wal_append never adds a part
\* to a frame that is complete.
THEOREM TypeCorrect == Spec => []TypeOK
<1>1. LogTypes /\ [Next]_vars => LogTypes'
  BY StepTypes, StepFrames, Zenon DEF LogTypes
<1>2. LogTypes => TypeOK
  BY Zenon DEF LogTypes
<1> QED
  BY <1>1, <1>2, InitLog, PTL DEF Spec

-----------------------------------------------------------------------------
(* What the first n frames of the log say. *)

Touches(i, o) == file[i].rec.obj = o

LastAt(n, i, o) == i \in 1..n /\ Touches(i, o) /\ \A j \in (i + 1)..n : ~Touches(j, o)

Earlier(i) == {j \in 1..(i - 1) : FirstSeen(file, j)}
SlotIn(n, o) ==
  \E i \in 1..n : Touches(i, o) /\ FirstSeen(file, i) /\ Cardinality(Earlier(i)) < ReplaySlots

\* The replay of a log that has the same records and of which n frames are readable.
LEMMA ReplayOf ==
  ASSUME LogTypes, NEW n \in 0..Len(file), NEW f \in Seq(Frames), Reached(f) = 1..n,
         \A i \in 1..n : f[i].rec = file[i].rec, NEW o \in Objs
  PROVE  /\ SlotIn(n, o) => \E i \in 1..n : LastAt(n, i, o) /\ Recovered(f)[o] = file[i].rec.val
         /\ ~SlotIn(n, o) => Recovered(f)[o] = NoVal
<1>1. Len(file) \in Nat /\ n \in Nat /\ \A i \in 1..n : Sound(file[i].rec)
  BY DEF LogTypes, FramesOK, TypeOK
<1>2. \A i : i \in Touching(f, o) <=> i \in 1..n /\ Touches(i, o)
  BY Zenon DEF Touching, Touches
<1>3. ASSUME NEW i \in 1..n
      PROVE  FirstSeen(f, i) <=> FirstSeen(file, i)
  <2>1. f[i].rec = file[i].rec /\ \A j \in 1..(i - 1) : f[j].rec = file[j].rec
    BY <1>1
  <2> QED
    BY <2>1, Zenon DEF FirstSeen
<1>4. ASSUME NEW i \in 1..n
      PROVE  {j \in 1..(i - 1) : FirstSeen(f, j)} = Earlier(i)
  <2>1. \A j \in 1..(i - 1) : FirstSeen(f, j) <=> FirstSeen(file, j)
    BY <1>1, <1>3
  <2> QED
    BY <2>1, Zenon DEF Earlier
<1>5. HasSlot(f, o) <=> SlotIn(n, o)
  BY <1>2, <1>3, <1>4, Zenon DEF HasSlot, SlotIn
<1>6. ASSUME HasSlot(f, o)
      PROVE  \E i \in 1..n : LastAt(n, i, o) /\ Recovered(f)[o] = file[i].rec.val
  <2>1. PICK i \in Touching(f, o) : /\ \A j \in Touching(f, o) : j <= i
                                    /\ Recovered(f)[o] = Content(f[i].rec)
    BY <1>6, RecoveredVal, Zenon
  <2>2. i \in 1..n /\ Touches(i, o) /\ f[i].rec = file[i].rec
    BY <1>2, Zenon
  <2>3. \A j \in (i + 1)..n : ~Touches(j, o)
    BY <1>1, <1>2, <2>1, <2>2
  <2>4. Content(file[i].rec) = file[i].rec.val
    BY <1>1, <2>2, Zenon DEF Content, Sound
  <2> QED
    BY <2>1, <2>2, <2>3, <2>4, Zenon DEF LastAt
<1> QED
  BY <1>5, <1>6, RecoveredVal, Zenon

\* A log with no more objects than the replay table has slots: each of them has one.
Fits == Cardinality({file[i].rec.obj : i \in DOMAIN file}) <= ReplaySlots

\* A log mentions finitely many objects.
LEMMA ObjectsFinite ==
  ASSUME NEW f \in Seq(Frames)
  PROVE  IsFiniteSet({f[i].rec.obj : i \in DOMAIN f})
<1> DEFINE N == 1..Len(f)
           O == {f[i].rec.obj : i \in DOMAIN f}
           F == [i \in N |-> f[i].rec.obj]
<1>1. Len(f) \in Nat /\ DOMAIN f = N
  OBVIOUS
<1>2. IsFiniteSet(N)
  BY <1>1, FS_Interval
<1>3. F \in [N -> O] /\ \A t \in O : \E s \in N : F[s] = t
  BY <1>1, Zenon
<1> HIDE DEF N, O, F
<1>4. F \in Surjection(N, O)
  BY <1>3, Fun_IsSurj, Zenon
<1>5. IsFiniteSet(O)
  BY <1>2, <1>4, FS_Surjection, Zenon
<1> QED
  BY <1>5, Zenon DEF O

\* With no more objects than replay has slots, each has one.
LEMMA SlotsSuffice ==
  ASSUME TypeOK, Fits, NEW n \in 0..Len(file), NEW o, NEW m \in 1..n, Touches(m, o)
  PROVE  SlotIn(n, o)
<1> DEFINE O == {file[i].rec.obj : i \in DOMAIN file}
           T == {i \in 1..n : Touches(i, o)}
<1>1. file \in Seq(Frames) /\ Len(file) \in Nat /\ DOMAIN file = 1..Len(file) /\ n \in Nat
  BY DEF TypeOK
<1>2. T \in SUBSET Nat /\ T # {}
  BY <1>1
<1>3. PICK i \in T : \A j \in T : i <= j
  BY <1>2, LeastElement, Zenon
<1>4. i \in 1..n /\ Touches(i, o) /\ FirstSeen(file, i)
  BY <1>1, <1>3 DEF FirstSeen, Touches
<1> DEFINE S == Earlier(i)
           F == [j \in S |-> file[j].rec.obj]
<1>5. IsFiniteSet(O) /\ o \in O
  BY <1>1, <1>4, ObjectsFinite DEF Touches
<1>6. F \in [S -> O \ {o}]
  BY <1>1, <1>4 DEF Earlier, FirstSeen, Touches
<1>7. \A j, k \in S : F[j] = F[k] => j = k
  BY <1>1, <1>4 DEF Earlier, FirstSeen
<1> HIDE DEF O, S, F
<1>8. F \in Injection(S, O \ {o})
  BY <1>6, <1>7, Fun_IsInj, Zenon
<1>9. IsFiniteSet(O \ {o}) /\ Cardinality(O \ {o}) = Cardinality(O) - 1
  BY <1>5, FS_RemoveElement, Zenon
<1>10. Cardinality(S) <= Cardinality(O \ {o}) /\ IsFiniteSet(S)
  BY <1>8, <1>9, FS_Injection, Zenon
<1>11. Cardinality(S) \in Nat /\ Cardinality(O) \in Nat
  BY <1>5, <1>10, FS_CardinalityType, Zenon
<1>12. Cardinality(S) < ReplaySlots
  BY <1>9, <1>10, <1>11, BoundsAssumption DEF Fits, O
<1> QED
  BY <1>4, <1>12, Zenon DEF SlotIn, S

-----------------------------------------------------------------------------
(* How an action may change the log: one more frame, one more part of the last frame, or
   not at all; the thread that writes and the others. *)

OthersWait(th) ==
  /\ \A u \in Threads \ {th} : pc'[u] = pc[u]
  /\ UNCHANGED <<up, store, synced, rec, acked, dropped>>

AppendStep(th) == /\ Appends(th) /\ OthersWait(th)
                  /\ \/ /\ pc[th] = "header"
                        /\ pc'[th] = IF rec[th].op = "DELETE" THEN "crc" ELSE "data"
                     \/ /\ pc[th] \in {"data", "crc"} /\ ~Mine(th)
                        /\ pc'[th] = IF pc[th] = "data" THEN "crc" ELSE "sync"

ExtendStep(th) == /\ Extends(th) /\ OthersWait(th) /\ pc[th] \in {"data", "crc"}
                  /\ pc'[th] = IF pc[th] = "data" THEN "crc" ELSE "sync"

\* An fwrite adds a frame or goes on with the last one.
LEMMA WriteSteps ==
  ASSUME TypeOK, NEW th \in Threads, WriteHeader(th) \/ WriteData(th) \/ WriteCrc(th)
  PROVE  AppendStep(th) \/ ExtendStep(th)
<1>1. pc \in [Threads -> {"idle", "header", "data", "crc", "sync"}]
  BY Zenon DEF TypeOK
<1>2. CASE WriteHeader(th)
  BY <1>1, <1>2, Zenon DEF WriteHeader, AppendStep, Appends, NewFrame, OthersWait, At
<1>3. CASE WriteData(th) \/ WriteCrc(th)
  BY <1>1, <1>3, Zenon DEF WriteData, WriteCrc, WriteMore, AppendStep, ExtendStep, Appends, Extends,
                    NewFrame, OthersWait, At
<1> QED
  BY <1>2, <1>3, Zenon

\* Nothing but a crash or a checkpoint repairs a damaged log.
LEMMA DamageStays ==
  ASSUME LogTypes, Damaged,
         \/ \E th \in Threads : AppendStep(th) \/ ExtendStep(th)
         \/ file' = file /\ \A u \in Threads : pc'[u] \in {"data", "crc"} => pc[u] \in {"data", "crc"}
  PROVE  Damaged'
<1>1. file \in Seq(Frames) /\ Len(file) \in Nat /\ DOMAIN file = 1..Len(file)
  BY DEF LogTypes, TypeOK
<1>2. PICK i \in 1..Len(file) :
        /\ ~Readable(file, i)
        /\ ~ \E th \in Threads : i = Len(file) /\ file[i].by = th /\ pc[th] \in {"data", "crc"}
  BY <1>1, Zenon DEF Damaged
<1>3. ASSUME NEW th \in Threads, AppendStep(th)
      PROVE  Damaged'
  <2>1. Len(file') = Len(file) + 1 /\ file' \in Seq(Frames) /\ file'[i] = file[i]
    BY <1>2, <1>3, AppendFacts, Zenon DEF LogTypes, AppendStep
  <2>2. i \in DOMAIN file' /\ i # Len(file')
    BY <1>1, <2>1
  <2> QED
    BY <1>2, <2>1, <2>2, Zenon DEF Damaged, Readable
<1>4. ASSUME NEW th \in Threads, ExtendStep(th)
      PROVE  Damaged'
  <2>1. Len(file') = Len(file) /\ file' \in Seq(Frames) /\ file[Len(file)].by = th
        /\ pc[th] \in {"data", "crc"} /\ \A j \in 1..(Len(file) - 1) : file'[j] = file[j]
    BY <1>4, ExtendFacts, Zenon DEF ExtendStep
  <2>2. i # Len(file)
    BY <1>2, <2>1, Zenon
  <2>3. i \in DOMAIN file' /\ i # Len(file')
    <3>1. DOMAIN file' = 1..Len(file')
      BY <2>1
    <3>2. DOMAIN file' = 1..Len(file) /\ i \in 1..Len(file)
      BY <2>1, <3>1, Zenon
    <3> QED
      BY <2>1, <2>2, <3>2, Zenon
  <2>4. file'[i] = file[i]
    <3>1. \A n \in Nat : i \in 1..n /\ i # n => i \in 1..(n - 1)
      OBVIOUS
    <3>2. i \in 1..(Len(file) - 1)
      BY <1>1, <2>2, <3>1, Zenon
    <3> QED
      BY <2>1, <3>2, Zenon
  <2> QED
    BY <1>2, <2>3, <2>4, Zenon DEF Damaged, Readable
<1>5. ASSUME file' = file, \A u \in Threads : pc'[u] \in {"data", "crc"} => pc[u] \in {"data", "crc"}
      PROVE  Damaged'
  BY <1>1, <1>2, <1>5, Zenon DEF Damaged, Readable
<1> QED
  BY <1>3, <1>4, <1>5, Zenon

\* In an undamaged log the last frame is that of the thread that is writing, and it has
\* what the thread has written.
WritersOK ==
  ~Damaged =>
    \A th \in Threads : pc[th] \in {"data", "crc"} =>
      Mine(th) /\ (pc[th] = "crc" => file[Len(file)].parts = Parts(rec[th]) - 1)

\* A thread that has not returned has its change in the store, and from its first fwrite on
\* a frame in the log; what is on the disk is all of the log while nobody has written.
InFlight ==
  /\ \A th \in Threads : pc[th] # "idle" => store[rec[th].obj] = rec[th].val
  /\ \A th \in Threads : pc[th] \in {"data", "crc", "sync"} =>
       \E i \in 1..Len(file) : Touches(i, rec[th].obj)
  /\ (\A th \in Threads : pc[th] \in {"idle", "header"}) =>
       synced.frames = Len(file) /\ (file # << >> => synced.parts = file[Len(file)].parts)

Disjoint == \A t, u \in Threads : t # u => Owns[t] \cap Owns[u] = {}

\* Every step keeps the last frame of an undamaged log that of its writer.
LEMMA StepWriters ==
  ASSUME LogTypes, WritersOK, [Next]_vars
  PROVE  WritersOK'
<1> SUFFICES ASSUME ~Damaged'
             PROVE  \A th \in Threads : pc'[th] \in {"data", "crc"} =>
                      Mine(th)' /\ (pc'[th] = "crc" => (file[Len(file)].parts = Parts(rec[th]) - 1)')
  BY Zenon DEF WritersOK
<1>1. /\ pc \in [Threads -> {"idle", "header", "data", "crc", "sync"}]
      /\ file \in Seq(Frames) /\ Len(file) \in Nat /\ DOMAIN file = 1..Len(file)
      /\ rec \in [Threads -> Records]
  BY DEF LogTypes, TypeOK
<1>2. ASSUME NEW th \in Threads, AppendStep(th)
      PROVE  \A u \in Threads : pc'[u] \in {"data", "crc"} =>
                      Mine(u)' /\ (pc'[u] = "crc" => (file[Len(file)].parts = Parts(rec[u]) - 1)')
  <2>1. ~Damaged
    BY <1>2, DamageStays, Zenon
  <2>2. /\ Len(file') = Len(file) + 1 /\ file'[Len(file) + 1] = NewFrame(th) /\ file' \in Seq(Frames)
        /\ \A i \in 1..Len(file) : file'[i] = file[i]
    BY <1>2, AppendFacts, Zenon DEF LogTypes, AppendStep
  <2>3. pc[th] = "header" /\ rec' = rec /\ (\A u \in Threads \ {th} : pc'[u] = pc[u])
        /\ pc'[th] = IF rec[th].op = "DELETE" THEN "crc" ELSE "data"
    BY <1>2, <2>1, Zenon DEF AppendStep, OthersWait, WritersOK
  <2>4. ASSUME NEW u \in Threads \ {th}, pc[u] \in {"data", "crc"}
        PROVE  FALSE
    <3>1. Mine(u) /\ file[Len(file)].rec = rec[u] /\ file[Len(file)].parts < Parts(rec[u])
      BY <2>1, <2>4, Zenon DEF WritersOK, LogTypes, FramesOK
    <3>2. Len(file) \in 1..Len(file) /\ Len(file) \in DOMAIN file'
      BY <1>1, <2>2, <3>1 DEF Mine
    <3>3. file[Len(file)].parts \in 1..3 /\ Parts(rec[u]) \in 2..3
      <4>1. file[Len(file)] \in Frames
        BY <1>1, <3>2
      <4> QED
        BY <4>1, PartsRange, Zenon DEF Frames
    <3>4. ~Readable(file', Len(file)) /\ Len(file) # Len(file')
      <4>1. file'[Len(file)] = file[Len(file)]
        BY <2>2, <3>2, Zenon
      <4>2. Parts(file'[Len(file)].rec) = Parts(rec[u])
        BY <3>1, <4>1, Zenon
      <4>3. file'[Len(file)].parts # Parts(rec[u])
        BY <3>1, <3>3, <4>1
      <4>4. \A n \in Nat : n # n + 1
        OBVIOUS
      <4>5. Len(file) \in Nat
        BY <1>1, LenProperties, Zenon
      <4> QED
        BY <2>2, <4>2, <4>3, <4>4, <4>5, Zenon DEF Readable
    <3> QED
      BY <3>2, <3>4, Zenon DEF Damaged
  <2>5. Mine(th)' /\ (pc'[th] = "crc" => (file[Len(file)].parts = Parts(rec[th]) - 1)')
    <3>1. file' # << >> /\ file'[Len(file')] = NewFrame(th)
      <4>1. Len(file') # 0
        BY <1>1, <2>2
      <4> QED
        BY <2>2, <4>1
    <3>2. file'[Len(file')].by = th /\ file'[Len(file')].parts = 1
      BY <3>1 DEF NewFrame
    <3>3. pc'[th] = "crc" => Parts(rec'[th]) = 2
      BY <2>3, Zenon DEF Parts
    <3>4. Mine(th)'
      BY <3>1, <3>2, Zenon DEF Mine
    <3>5. pc'[th] = "crc" => file'[Len(file')].parts = Parts(rec'[th]) - 1
      BY <3>2, <3>3
    <3> QED
      BY <3>4, <3>5, Zenon
  <2> QED
    BY <2>3, <2>4, <2>5
<1>3. ASSUME NEW th \in Threads, ExtendStep(th)
      PROVE  \A u \in Threads : pc'[u] \in {"data", "crc"} =>
                      Mine(u)' /\ (pc'[u] = "crc" => (file[Len(file)].parts = Parts(rec[u]) - 1)')
  <2>1. ~Damaged
    BY <1>3, DamageStays, Zenon
  <2>2. /\ Len(file) \in Nat \ {0} /\ Len(file') = Len(file) /\ file' \in Seq(Frames)
        /\ file'[Len(file)].by = th /\ file[Len(file)].by = th
        /\ file'[Len(file)].parts = file[Len(file)].parts + 1
    BY <1>3, ExtendFacts, Zenon DEF ExtendStep
  <2>3. rec' = rec /\ (\A u \in Threads \ {th} : pc'[u] = pc[u])
        /\ pc[th] \in {"data", "crc"} /\ pc'[th] = IF pc[th] = "data" THEN "crc" ELSE "sync"
    BY <1>3, Zenon DEF ExtendStep, OthersWait
  <2>4. \A u \in Threads \ {th} : pc[u] \notin {"data", "crc"}
    BY <2>1, <2>2, Zenon DEF WritersOK, Mine
  <2>5. pc[th] = "data" => file[Len(file)].parts = 1 /\ Parts(rec[th]) = 3
    BY <1>3, Zenon DEF LogTypes, FramesOK, Parts, ExtendStep, Extends
  <2>6. Mine(th)'
    BY <2>2, Zenon DEF Mine
  <2> QED
    BY <2>2, <2>3, <2>4, <2>5, <2>6
<1>4. ASSUME NEW th \in Threads, NEW r \in Records, Mutate(th, r)
      PROVE  WritersOK'
  <2>1. file' = file /\ pc[th] = "idle" /\ pc'[th] \in {"idle", "header"}
        /\ (\A u \in Threads \ {th} : pc'[u] = pc[u] /\ rec'[u] = rec[u])
    BY <1>1, <1>4, Zenon DEF Mutate, At
  <2>2. ~Damaged
    BY <2>1, DamageStays, Zenon
  <2> QED
    BY <2>1, <2>2, Zenon DEF WritersOK, Mine
<1>5. ASSUME NEW th \in Threads, Sync(th)
      PROVE  WritersOK'
  <2>1. file' = file /\ pc[th] = "sync" /\ pc'[th] = "idle" /\ rec' = rec
        /\ \A u \in Threads \ {th} : pc'[u] = pc[u]
    BY <1>1, <1>5, Zenon DEF Sync, At
  <2>2. ~Damaged
    BY <2>1, DamageStays, Zenon
  <2> QED
    BY <2>1, <2>2, Zenon DEF WritersOK, Mine
<1>6. CASE Crash
  BY <1>6, Zenon DEF Crash
<1>7. CASE Boot \/ UNCHANGED vars
  <2>1. file' = file /\ pc' = pc /\ rec' = rec
    BY <1>7, Zenon DEF Boot, vars
  <2>2. ~Damaged
    BY <2>1, DamageStays, Zenon
  <2> QED
    BY <2>1, <2>2, Zenon DEF WritersOK, Mine
<1>8. CASE Checkpoint
  BY <1>8, Zenon DEF Checkpoint, Quiet
<1> QED
  BY <1>2, <1>3, <1>4, <1>5, <1>6, <1>7, <1>8, WriteSteps, Zenon DEF Next, WritersOK, LogTypes

\* Every step keeps an unfinished change in the store and its frame in the log.
LEMMA StepInFlight ==
  ASSUME LogTypes, InFlight, Disjoint, [Next]_vars
  PROVE  InFlight'
<1>1. /\ pc \in [Threads -> {"idle", "header", "data", "crc", "sync"}]
      /\ rec \in [Threads -> Records]
  BY Zenon DEF LogTypes, TypeOK
<1>2. file \in Seq(Frames) /\ Len(file) \in Nat
  BY DEF LogTypes, TypeOK
<1>3. ASSUME NEW th \in Threads, NEW r \in Records, Mutate(th, r)
      PROVE  InFlight'
  <2>1. file' = file /\ synced' = synced /\ pc[th] = "idle" /\ pc'[th] \in {"idle", "header"}
        /\ rec'[th] = r /\ \A u \in Threads \ {th} : pc'[u] = pc[u] /\ rec'[u] = rec[u]
    BY <1>1, <1>3, Zenon DEF Mutate, At
  <2>2. store' = [store EXCEPT ![r.obj] = r.val] /\ r.obj \in Objs /\ store \in Stores
        /\ r.obj \in Owns[th]
    BY <1>3, Zenon DEF Mutate, Records, LogTypes, TypeOK
  <2>3. ASSUME NEW u \in Threads, pc'[u] # "idle"
        PROVE  store'[rec'[u].obj] = rec'[u].val
    <3>1. CASE u = th
      BY <2>1, <2>2, <3>1, Zenon DEF Stores
    <3>2. CASE u # th
      <4>1. rec[u].obj \in Owns[u] /\ rec[u].obj \in Objs /\ store[rec[u].obj] = rec[u].val
        BY <1>1, <2>1, <2>3, <3>2, Zenon DEF LogTypes, FramesOK, InFlight, Records
      <4>2. rec[u].obj # r.obj
        BY <2>2, <3>2, <4>1, Zenon DEF Disjoint
      <4> QED
        BY <2>1, <2>2, <3>2, <4>1, <4>2, Zenon DEF Stores
    <3> QED
      BY <3>1, <3>2, Zenon
  <2> QED
    BY <2>1, <2>3, Zenon DEF InFlight, Touches
<1>4. ASSUME NEW th \in Threads, AppendStep(th)
      PROVE  InFlight'
  <2>1. /\ Len(file') = Len(file) + 1 /\ file'[Len(file) + 1] = NewFrame(th)
        /\ \A i \in 1..Len(file) : file'[i] = file[i]
    BY <1>4, AppendFacts, Zenon DEF LogTypes, AppendStep
  <2>2. /\ store' = store /\ rec' = rec /\ pc'[th] \in {"data", "crc", "sync"} /\ pc[th] # "idle"
        /\ \A u \in Threads \ {th} : pc'[u] = pc[u]
    BY <1>4, Zenon DEF AppendStep, OthersWait
  <2>3. NewFrame(th).rec = rec[th]
    BY Zenon DEF NewFrame
  <2>4. ASSUME NEW u \in Threads, pc'[u] \in {"data", "crc", "sync"}
        PROVE  \E i \in 1..Len(file') : file'[i].rec.obj = rec'[u].obj
    <3>1. CASE u = th
      BY <1>2, <2>1, <2>2, <2>3, <3>1
    <3>2. CASE u # th
      <4>1. PICK i \in 1..Len(file) : file[i].rec.obj = rec[u].obj
        BY <2>2, <2>4, <3>2, Zenon DEF InFlight, Touches
      <4> QED
        BY <1>2, <2>1, <2>2, <4>1
    <3> QED
      BY <3>1, <3>2, Zenon
  <2> QED
    BY <2>2, <2>4, Zenon DEF InFlight, Touches
<1>5. ASSUME NEW th \in Threads, ExtendStep(th)
      PROVE  InFlight'
  <2>1. /\ Len(file) \in Nat \ {0} /\ Len(file') = Len(file)
        /\ file'[Len(file)].rec = file[Len(file)].rec
        /\ \A i \in 1..(Len(file) - 1) : file'[i] = file[i]
    BY <1>5, ExtendFacts, Zenon DEF ExtendStep
  <2>2. \A i \in 1..Len(file) : file'[i].rec = file[i].rec
    BY <2>1
  <2>3. /\ store' = store /\ rec' = rec /\ pc'[th] \in {"crc", "sync"} /\ pc[th] \in {"data", "crc"}
        /\ \A u \in Threads \ {th} : pc'[u] = pc[u]
    BY <1>5, Zenon DEF ExtendStep, OthersWait
  <2>4. \A u \in Threads : /\ pc'[u] # "idle" => pc[u] # "idle"
                           /\ pc'[u] \in {"data", "crc", "sync"} => pc[u] \in {"data", "crc", "sync"}
    BY <2>3, Zenon
  <2>5. \A u \in Threads : pc'[u] \in {"data", "crc", "sync"} =>
          \E i \in 1..Len(file') : file'[i].rec.obj = rec'[u].obj
    <3> SUFFICES ASSUME NEW u \in Threads, pc'[u] \in {"data", "crc", "sync"}
                 PROVE  \E i \in 1..Len(file') : file'[i].rec.obj = rec'[u].obj
      BY Zenon
    <3>1. PICK i \in 1..Len(file) : file[i].rec.obj = rec[u].obj
      BY <2>4, Zenon DEF InFlight, Touches
    <3>2. i \in 1..Len(file') /\ file'[i].rec = file[i].rec /\ rec' = rec
      BY <2>1, <2>2, <2>3, Zenon
    <3> QED
      BY <3>1, <3>2, Zenon
  <2> QED
    BY <2>3, <2>4, <2>5, Zenon DEF InFlight, Touches
<1>6. ASSUME NEW th \in Threads, Sync(th)
      PROVE  InFlight'
  BY <1>1, <1>6, Zenon DEF Sync, At, InFlight, Touches
<1>7. CASE Crash
  BY <1>7, Zenon DEF Crash, InFlight
<1>8. CASE Boot
  <2>1. \A th \in Threads : pc[th] = "idle"
    BY <1>8, Zenon DEF Boot, LogTypes, FramesOK
  <2> QED
    BY <1>8, <2>1, Zenon DEF Boot, InFlight
<1>9. CASE Checkpoint
  <2>1. Len(<< >>) = 0
    BY Zenon
  <2> QED
    BY <1>9, <2>1, Zenon DEF Checkpoint, Quiet, InFlight
<1>10. CASE UNCHANGED vars
  BY <1>10, Zenon DEF vars, InFlight, Touches
<1> QED
  BY <1>3, <1>4, <1>5, <1>6, <1>7, <1>8, <1>9, <1>10, WriteSteps, Zenon DEF Next, LogTypes

-----------------------------------------------------------------------------
(* What the records say as the log grows. *)

\* Which objects replay has met depends on the records before, and on nothing else.
LEMMA EarlierSame ==
  ASSUME NEW n \in Nat, \A i \in 1..n : file'[i].rec = file[i].rec, NEW i \in 1..n
  PROVE  (FirstSeen(file, i)' <=> FirstSeen(file, i)) /\ Earlier(i)' = Earlier(i)
<1>1. ASSUME NEW k \in 1..n
      PROVE  FirstSeen(file', k) <=> FirstSeen(file, k)
  <2>1. \A j \in 1..(k - 1) : j \in 1..n
    OBVIOUS
  <2> QED
    BY <2>1, Zenon DEF FirstSeen
<1>2. \A j \in 1..(i - 1) : FirstSeen(file', j) <=> FirstSeen(file, j)
  BY <1>1
<1>3. Earlier(i)' = Earlier(i)
  BY <1>2, Zenon DEF Earlier
<1> QED
  BY <1>1, <1>3, Zenon

\* What a prefix of the log says of an object depends on its records only.
LEMMA SaysSame ==
  ASSUME NEW n \in Nat, \A i \in 1..n : file'[i].rec = file[i].rec, NEW o
  PROVE  /\ \A i : LastAt(n, i, o)' <=> LastAt(n, i, o)
         /\ SlotIn(n, o)' <=> SlotIn(n, o)
<1>1. \A i \in 1..n : Touches(i, o)' <=> Touches(i, o)
  BY Zenon DEF Touches
<1>2. \A i : LastAt(n, i, o)' <=> LastAt(n, i, o)
  BY <1>1 DEF LastAt
<1>3. \A i \in 1..n : (FirstSeen(file, i)' <=> FirstSeen(file, i)) /\ Earlier(i)' = Earlier(i)
  BY EarlierSame, Zenon
<1>4. SlotIn(n, o)' <=> SlotIn(n, o)
  BY <1>1, <1>3, Zenon DEF SlotIn
<1> QED
  BY <1>2, <1>4, Zenon

\* One more frame decides for its object and leaves the others to the frames before it.
LEMMA SaysAppended ==
  ASSUME NEW n \in Nat, NEW r, \A i \in 1..n : file'[i].rec = file[i].rec,
         file'[n + 1].rec = r, NEW o
  PROVE  /\ o = r.obj => \A i : LastAt(n + 1, i, o)' => i = n + 1
         /\ o # r.obj => /\ \A i : LastAt(n + 1, i, o)' <=> LastAt(n, i, o)
                         /\ SlotIn(n + 1, o)' <=> SlotIn(n, o)
<1>1. Touches(n + 1, o)' <=> o = r.obj
  BY Zenon DEF Touches
<1>2. ASSUME o = r.obj
      PROVE  \A i : LastAt(n + 1, i, o)' => i = n + 1
  BY <1>1, <1>2 DEF LastAt
<1>3. ASSUME o # r.obj
      PROVE  /\ \A i : LastAt(n + 1, i, o)' <=> LastAt(n, i, o)'
             /\ SlotIn(n + 1, o)' <=> SlotIn(n, o)'
  <2>1. \A i : LastAt(n + 1, i, o)' <=> LastAt(n, i, o)'
    BY <1>1, <1>3 DEF LastAt
  <2>2. SlotIn(n + 1, o)' <=> SlotIn(n, o)'
    BY <1>1, <1>3 DEF SlotIn
  <2> QED
    BY <2>1, <2>2, Zenon
<1> QED
  BY <1>2, <1>3, SaysSame, Zenon

-----------------------------------------------------------------------------
(* What a crash recovers from an undamaged log. *)

\* In an undamaged log every frame but the one being written reads whole.
LEMMA WholeFrames ==
  ASSUME LogTypes, ~Damaged
  PROVE  /\ \A i \in 1..(Len(file) - 1) : Readable(file, i)
         /\ (\A th \in Threads : pc[th] \notin {"data", "crc"}) =>
              \A i \in 1..Len(file) : Readable(file, i)
<1>1. Len(file) \in Nat /\ DOMAIN file = 1..Len(file)
  BY DEF LogTypes, TypeOK
<1>2. \A i \in 1..(Len(file) - 1) : i \in DOMAIN file /\ i # Len(file)
  <2>1. \A n \in Nat : \A i \in 1..(n - 1) : i \in 1..n /\ i # n
    OBVIOUS
  <2>2. Len(file) \in Nat
    BY <1>1, Zenon
  <2>3. \A i \in 1..(Len(file) - 1) : i \in 1..Len(file) /\ i # Len(file)
    BY <2>1, <2>2, Zenon
  <2> QED
    BY <1>1, <2>3, Zenon
<1>3. \A i \in DOMAIN file : Readable(file, i) \/
        \E th \in Threads : i = Len(file) /\ pc[th] \in {"data", "crc"}
  BY Zenon DEF Damaged
<1>4. \A i \in 1..(Len(file) - 1) : Readable(file, i)
  BY <1>2, <1>3, Zenon
<1>5. ASSUME \A th \in Threads : pc[th] \notin {"data", "crc"}
      PROVE  \A i \in 1..Len(file) : Readable(file, i)
  BY <1>1, <1>3, <1>5, Zenon
<1> QED
  BY <1>4, <1>5, Zenon

\* Replay reaches all k frames of a cut, or stops before the last one.
LEMMA CutReached ==
  ASSUME LogTypes, ~Damaged, NEW f, NEW k, NEW p, IsCut(f, k, p)
  PROVE  /\ k = 0 => Reached(f) = 1..0
         /\ k > 0 /\ p = Parts(file[k].rec) => Reached(f) = 1..k
         /\ k > 0 /\ p # Parts(file[k].rec) => Reached(f) = 1..(k - 1)
<1>1. Len(file) \in Nat /\ k \in Nat /\ k <= Len(file) /\ DOMAIN f = 1..k
  BY DEF LogTypes, TypeOK, IsCut
<1>2. ASSUME NEW i \in 1..(k - 1)
      PROVE  Readable(f, i)
  <2>1. i \in 1..k /\ i # k /\ i \in 1..(Len(file) - 1)
    BY <1>1
  <2>2. Readable(file, i)
    BY <2>1, WholeFrames, Zenon
  <2>3. f[i].rec = file[i].rec /\ f[i].parts = file[i].parts
    BY <2>1, Zenon DEF IsCut
  <2> QED
    BY <2>2, <2>3, Zenon DEF Readable
<1>3. ASSUME k > 0
      PROVE  Readable(f, k) <=> p = Parts(file[k].rec)
  <2>1. k \in 1..k
    BY <1>1, <1>3
  <2>2. f[k].rec = file[k].rec /\ f[k].parts = p
    BY <2>1, Zenon DEF IsCut
  <2> QED
    BY <2>2, Zenon DEF Readable
<1>4. CASE k = 0
  BY <1>1, <1>4 DEF Reached
<1>5. CASE k > 0 /\ p = Parts(file[k].rec)
  <2>1. \A i \in 1..k : Readable(f, i)
    BY <1>1, <1>2, <1>3, <1>5
  <2> QED
    BY <1>1, <1>5, <2>1 DEF Reached
<1>6. CASE k > 0 /\ p # Parts(file[k].rec)
  <2>1. ~Readable(f, k) /\ k \in 1..k
    BY <1>1, <1>3, <1>6
  <2>2. \A i \in 1..k : (\A j \in 1..i : Readable(f, j)) <=> i \in 1..(k - 1)
    BY <1>1, <1>2, <2>1
  <2> QED
    BY <1>1, <1>6, <2>2 DEF Reached
<1> QED
  BY <1>1, <1>4, <1>5, <1>6, Zenon

\* While nobody has written since the last sync, a crash leaves all of the log.
LEMMA SettledCut ==
  ASSUME LogTypes, InFlight, ~Damaged, \A th \in Threads : pc[th] \in {"idle", "header"},
         NEW f \in Cuts
  PROVE  /\ f \in Seq(Frames) /\ Reached(f) = 1..Len(file)
         /\ \A i \in 1..Len(file) : f[i].rec = file[i].rec
<1>1. Len(file) \in Nat /\ file \in Seq(Frames)
  BY DEF LogTypes, TypeOK
<1>2. PICK k \in 0..Len(file), p \in 1..3 : IsCut(f, k, p)
  BY CutFacts, Zenon DEF LogTypes
<1>3. synced.frames = Len(file) /\ (file # << >> => synced.parts = file[Len(file)].parts)
  BY Zenon DEF InFlight
<1>4. k = Len(file)
  BY <1>1, <1>2, <1>3 DEF IsCut
<1>5. f \in Seq(Frames) /\ \A i \in 1..Len(file) : f[i].rec = file[i].rec
  BY <1>2, <1>4, Zenon DEF IsCut
<1>6. CASE k = 0
  BY <1>2, <1>4, <1>5, <1>6, CutReached, Zenon
<1>7. CASE k > 0
  <2>1. file # << >> /\ file[k] \in Frames
    BY <1>1, <1>4, <1>7
  <2>2. p = file[k].parts
    BY <1>2, <1>3, <1>4, <1>7, <2>1 DEF IsCut, Frames
  <2>3. Readable(file, k)
    BY <1>1, <1>4, <1>7, WholeFrames
  <2> QED
    BY <1>2, <1>4, <1>5, <1>7, <2>2, <2>3, CutReached, Zenon DEF Readable
<1> QED
  BY <1>1, <1>4, <1>6, <1>7

-----------------------------------------------------------------------------
(* The store and the log. *)

\* A thread has changed the object and has not begun to log it.
Pending(o) == \E th \in Threads : pc[th] = "header" /\ rec[th].obj = o

\* The last record of an object that has a slot says what the store says.
ValuesOK ==
  up /\ ~Damaged =>
    \A o \in Objs \ Unlogged : ~Pending(o) /\ SlotIn(Len(file), o) =>
      \A i : LastAt(Len(file), i, o) => file[i].rec.val = store[o]

\* An object the log answers for and does not mention is not in the store.
AbsentOK ==
  up /\ Intact =>
    \A o \in Kept : ~Pending(o) /\ (\A i \in 1..Len(file) : ~Touches(i, o)) => store[o] = NoVal

\* After a boot the log and the store agree.
LEMMA BootValues ==
  ASSUME LogTypes, Boot
  PROVE  ValuesOK' /\ AbsentOK'
<1> DEFINE n == Len(file)
<1>1. n \in Nat /\ file \in Seq(Frames) /\ DOMAIN file = 1..n
  BY DEF LogTypes, TypeOK
<1>2. \A th \in Threads : pc[th] = "idle"
  BY Zenon DEF Boot, LogTypes, FramesOK
<1>3. file' = file /\ store' = Recovered(file) /\ pc' = pc /\ dropped' = {}
  BY Zenon DEF Boot
<1>4. Damaged' <=> Damaged
  BY <1>3, Zenon DEF Damaged, Readable
<1>5. ASSUME ~Damaged
      PROVE  Reached(file) = 1..n
  <2>1. \A i \in 1..n : Readable(file, i)
    BY <1>2, <1>5, WholeFrames, Zenon
  <2> QED
    BY <1>1, <2>1 DEF Reached
<1>6. ValuesOK'
  <2> SUFFICES ASSUME ~Damaged, NEW o \in Objs \ Unlogged, SlotIn(n, o), NEW i, LastAt(n, i, o)
               PROVE  file[i].rec.val = Recovered(file)[o]
    BY <1>1, <1>3, <1>4, SaysSame, Zenon DEF ValuesOK
  <2>1. PICK j \in 1..n : LastAt(n, j, o) /\ Recovered(file)[o] = file[j].rec.val
    BY <1>1, <1>5, ReplayOf
  <2>2. i = j
    BY <1>1, <2>1 DEF LastAt
  <2> QED
    BY <2>1, <2>2, Zenon
<1>7. AbsentOK'
  <2> SUFFICES ASSUME ~Damaged, NEW o \in Objs, \A i \in 1..n : ~Touches(i, o)
               PROVE  Recovered(file)[o] = NoVal
    BY <1>3, <1>4, Zenon DEF AbsentOK, Intact, Kept, Touches
  <2>1. ~SlotIn(n, o)
    BY Zenon DEF SlotIn
  <2>2. ~SlotIn(n, o) => Recovered(file)[o] = NoVal
    BY <1>1, <1>5, ReplayOf
  <2> QED
    BY <2>1, <2>2, Zenon
<1> QED
  BY <1>6, <1>7, Zenon

\* Each action keeps what the log says of the store.
LEMMA StepValues ==
  ASSUME LogTypes, InFlight, ValuesOK, [Next]_vars
  PROVE  ValuesOK'
<1>1. PICK n \in Nat : n = Len(file)
  BY DEF LogTypes, TypeOK
<1>2. /\ pc \in [Threads -> {"idle", "header", "data", "crc", "sync"}]
      /\ rec \in [Threads -> Records]
  BY Zenon DEF LogTypes, TypeOK
<1>3. ASSUME NEW th \in Threads, NEW r \in Records, Mutate(th, r)
      PROVE  ValuesOK'
  <2>1. file' = file /\ up /\ pc[th] = "idle" /\ pc'[th] \in {"idle", "header"}
        /\ rec'[th] = r /\ (\A u \in Threads \ {th} : pc'[u] = pc[u] /\ rec'[u] = rec[u])
        /\ (r.obj \notin Unlogged => pc'[th] = "header")
    BY <1>2, <1>3, Zenon DEF Mutate, At
  <2>2. store' = [store EXCEPT ![r.obj] = r.val] /\ r.obj \in Objs /\ store \in Stores
    BY <1>3, Zenon DEF Mutate, Records, LogTypes, TypeOK
  <2> SUFFICES ASSUME ~Damaged', NEW o \in Objs \ Unlogged, ~Pending(o)', SlotIn(n, o)',
                      NEW i, LastAt(n, i, o)'
               PROVE  (file[i].rec.val = store[o])'
    BY <1>1, <2>1, Zenon DEF ValuesOK
  <2>3. ~Damaged
    BY <2>1, DamageStays, Zenon
  <2>4. SlotIn(n, o) /\ LastAt(n, i, o)
    BY <2>1, SaysSame, Zenon
  <2>5. o # r.obj /\ ~Pending(o)
    BY <2>1, Zenon DEF Pending
  <2>6. file[i].rec.val = store[o]
    BY <1>1, <2>1, <2>3, <2>4, <2>5, Zenon DEF ValuesOK
  <2> QED
    BY <2>1, <2>2, <2>5, <2>6, Zenon DEF Stores
<1>4. ASSUME NEW th \in Threads, AppendStep(th)
      PROVE  ValuesOK'
  <2>1. /\ Len(file') = n + 1 /\ file'[n + 1] = NewFrame(th)
        /\ \A i \in 1..n : file'[i] = file[i]
    BY <1>1, <1>4, AppendFacts, Zenon DEF LogTypes, AppendStep
  <2>2. /\ store' = store /\ rec' = rec /\ pc'[th] \in {"data", "crc", "sync"} /\ pc[th] # "idle"
        /\ up' = up /\ \A u \in Threads \ {th} : pc'[u] = pc[u]
    BY <1>4, Zenon DEF AppendStep, OthersWait
  <2> SUFFICES ASSUME up, ~Damaged', NEW o \in Objs \ Unlogged, ~Pending(o)', SlotIn(n + 1, o)',
                      NEW i, LastAt(n + 1, i, o)'
               PROVE  (file[i].rec.val = store[o])'
    BY <2>1, <2>2, Zenon DEF ValuesOK
  <2>3. ~Damaged
    BY <1>4, DamageStays, Zenon
  <2>4. file'[n + 1].rec = rec[th] /\ \A j \in 1..n : file'[j].rec = file[j].rec
    BY <2>1 DEF NewFrame
  <2>5. CASE o = rec[th].obj
    <3>1. i = n + 1
      BY <2>4, <2>5, SaysAppended, Zenon
    <3> QED
      BY <2>2, <2>4, <2>5, <3>1, Zenon DEF InFlight
  <2>6. CASE o # rec[th].obj
    <3>1. LastAt(n, i, o) /\ SlotIn(n, o) /\ i \in 1..n
      <4>1. LastAt(n, i, o) /\ SlotIn(n, o)
        BY <2>4, <2>6, SaysAppended, Zenon
      <4> QED
        BY <4>1, Zenon DEF LastAt
    <3>2. ~Pending(o)
      BY <2>2, <2>6, Zenon DEF Pending
    <3>3. file[i].rec.val = store[o]
      BY <1>1, <2>3, <3>1, <3>2, Zenon DEF ValuesOK
    <3> QED
      BY <2>2, <2>4, <3>1, <3>3, Zenon
  <2> QED
    BY <2>5, <2>6, Zenon
<1>5. ASSUME file' = file \/ \E th \in Threads : ExtendStep(th),
             UNCHANGED <<up, store, rec>>,
             \A u \in Threads : /\ pc'[u] \in {"data", "crc"} => pc[u] \in {"data", "crc"}
                                /\ pc[u] = "header" => pc'[u] = "header"
      PROVE  ValuesOK'
  <2>1. Len(file') = n /\ \A i \in 1..n : file'[i].rec = file[i].rec
    <3>1. CASE file' = file
      BY <1>1, <3>1, Zenon
    <3>2. ASSUME NEW th \in Threads, ExtendStep(th)
          PROVE  Len(file') = n /\ \A i \in 1..n : file'[i].rec = file[i].rec
      <4>1. /\ n \in Nat \ {0} /\ Len(file') = n
            /\ file'[n].rec = file[n].rec /\ \A i \in 1..(n - 1) : file'[i] = file[i]
        BY <1>1, <3>2, ExtendFacts, Zenon DEF ExtendStep
      <4> QED
        BY <4>1
    <3> QED
      BY <1>5, <3>1, <3>2, Zenon
  <2> SUFFICES ASSUME up, ~Damaged', NEW o \in Objs \ Unlogged, ~Pending(o)', SlotIn(n, o)',
                      NEW i, LastAt(n, i, o)'
               PROVE  (file[i].rec.val = store[o])'
    BY <1>5, <2>1, Zenon DEF ValuesOK
  <2>2. ~Damaged
    BY <1>5, DamageStays, Zenon
  <2>3. SlotIn(n, o) /\ LastAt(n, i, o)
    BY <2>1, SaysSame, Zenon
  <2>4. ~Pending(o) /\ i \in 1..n
    BY <1>5, <2>3, Zenon DEF Pending, LastAt
  <2>5. file[i].rec.val = store[o]
    BY <1>1, <2>2, <2>3, <2>4, Zenon DEF ValuesOK
  <2> QED
    BY <1>5, <2>1, <2>4, <2>5, Zenon
<1>6. ASSUME NEW th \in Threads, ExtendStep(th)
      PROVE  ValuesOK'
  <2>1. UNCHANGED <<up, store, rec>> /\ \A u \in Threads :
          (pc'[u] \in {"data", "crc"} => pc[u] \in {"data", "crc"})
          /\ (pc[u] = "header" => pc'[u] = "header")
    BY <1>6, Zenon DEF ExtendStep, OthersWait
  <2> QED
    BY <1>5, <1>6, <2>1, Zenon
<1>7. ASSUME NEW th \in Threads, Sync(th)
      PROVE  ValuesOK'
  <2>1. UNCHANGED <<up, store, rec, file>> /\ \A u \in Threads :
          (pc'[u] \in {"data", "crc"} => pc[u] \in {"data", "crc"})
          /\ (pc[u] = "header" => pc'[u] = "header")
    BY <1>2, <1>7, Zenon DEF Sync, At
  <2> QED
    BY <1>5, <2>1, Zenon
<1>8. CASE Crash
  BY <1>8, Zenon DEF Crash, ValuesOK
<1>9. CASE Boot
  BY <1>9, BootValues, Zenon
<1>10. CASE Checkpoint
  <2>1. Len(file') = 0
    BY <1>10, Zenon DEF Checkpoint
  <2>2. \A o : ~SlotIn(0, o)'
    BY DEF SlotIn
  <2> QED
    BY <2>1, <2>2, Zenon DEF ValuesOK
<1>11. CASE UNCHANGED vars
  <2>1. UNCHANGED <<up, store, rec, file, pc>>
    BY <1>11, Zenon DEF vars
  <2> QED
    BY <1>5, <2>1, Zenon
<1> QED
  BY <1>3, <1>4, <1>6, <1>7, <1>8, <1>9, <1>10, <1>11, WriteSteps, Zenon DEF Next, LogTypes

\* A log that fits the replay table did so before a step that only adds records.
LEMMA FitsBefore ==
  ASSUME TypeOK, file' \in Seq(Frames), Len(file) <= Len(file'),
         \A i \in 1..Len(file) : file'[i].rec = file[i].rec, Fits'
  PROVE  Fits
<1> DEFINE O == {file[i].rec.obj : i \in DOMAIN file}
           P == {file'[i].rec.obj : i \in DOMAIN file'}
<1>1. file \in Seq(Frames)
  BY Zenon DEF TypeOK
<1>2. Len(file) \in Nat /\ DOMAIN file = 1..Len(file)
      /\ Len(file') \in Nat /\ DOMAIN file' = 1..Len(file')
  BY <1>1
<1>3. \A i \in DOMAIN file : i \in DOMAIN file' /\ file'[i].rec = file[i].rec
  BY <1>2
<1>4. O \subseteq P
  BY <1>3, Zenon
<1>5. IsFiniteSet(P) /\ IsFiniteSet(O)
  BY <1>1, ObjectsFinite, Zenon
<1> HIDE DEF O, P
<1>6. Cardinality(O) <= Cardinality(P)
  BY <1>4, <1>5, FS_Subset, Zenon
<1>7. Cardinality(O) \in Nat /\ Cardinality(P) \in Nat
  BY <1>5, FS_CardinalityType, Zenon
<1> QED
  BY <1>6, <1>7, BoundsAssumption DEF Fits, O, P

\* What a step that keeps the store leaves to show of the objects the log does not mention.
LEMMA StepAbsent ==
  ASSUME LogTypes, InFlight, AbsentOK, [Next]_vars
  PROVE  AbsentOK'
<1>1. PICK n \in Nat : n = Len(file)
  BY DEF LogTypes, TypeOK
<1>2. /\ pc \in [Threads -> {"idle", "header", "data", "crc", "sync"}]
      /\ rec \in [Threads -> Records] /\ file \in Seq(Frames) /\ TypeOK
  BY Zenon DEF LogTypes, TypeOK
<1>3. Intact = (~Damaged /\ Fits) /\ Intact' = (~Damaged' /\ Fits')
  BY Zenon DEF Intact, Fits
<1>4. ASSUME NEW th \in Threads, NEW r \in Records, Mutate(th, r)
      PROVE  AbsentOK'
  <2>1. file' = file /\ up /\ pc[th] = "idle" /\ pc'[th] \in {"idle", "header"} /\ dropped' = dropped
        /\ rec'[th] = r /\ (\A u \in Threads \ {th} : pc'[u] = pc[u] /\ rec'[u] = rec[u])
        /\ (r.obj \notin Unlogged => pc'[th] = "header")
    BY <1>2, <1>4, Zenon DEF Mutate, At
  <2>2. store' = [store EXCEPT ![r.obj] = r.val] /\ r.obj \in Objs /\ store \in Stores
    BY <1>4, Zenon DEF Mutate, Records, LogTypes, TypeOK
  <2> SUFFICES ASSUME Intact', NEW o \in Kept', ~Pending(o)',
                      \A i \in 1..Len(file) : ~Touches(i, o)'
               PROVE  store'[o] = NoVal
    BY <2>1, Zenon DEF AbsentOK
  <2>3. Intact
    <3>1. ~Damaged
      BY <1>3, <2>1, DamageStays, Zenon
    <3>2. Fits
      BY <1>3, <2>1, Zenon DEF Fits
    <3> QED
      BY <1>3, <3>1, <3>2, Zenon
  <2>4. o \in Kept /\ o \in Objs \ Unlogged
    BY <2>1, Zenon DEF Kept
  <2>5. o # r.obj /\ ~Pending(o)
    BY <2>1, <2>4, Zenon DEF Pending
  <2>6. store[o] = NoVal
    BY <2>1, <2>3, <2>4, <2>5, Zenon DEF AbsentOK, Touches
  <2> QED
    BY <2>2, <2>4, <2>5, <2>6, Zenon DEF Stores
<1>5. ASSUME NEW m \in Nat, n <= m, Len(file') = m, file' \in Seq(Frames),
             \A i \in 1..n : file'[i].rec = file[i].rec,
             up' = up, store' = store, Damaged => Damaged',
             \A o \in Objs : Pending(o) => Pending(o)' \/ \E i \in 1..m : Touches(i, o)',
             \A o \in Kept' : o \in Kept \/ \E i \in 1..n : Touches(i, o)
      PROVE  AbsentOK'
  <2> SUFFICES ASSUME up, Intact', NEW o \in Kept', ~Pending(o)',
                      \A i \in 1..m : ~Touches(i, o)'
               PROVE  store[o] = NoVal
    BY <1>5, Zenon DEF AbsentOK
  <2>1. Intact
    BY <1>1, <1>2, <1>3, <1>5, FitsBefore, Zenon
  <2>2. \A i \in 1..n : i \in 1..m /\ ~Touches(i, o)
    <3>1. \A i \in 1..n : i \in 1..m
      BY <1>5
    <3> QED
      BY <1>5, <3>1, Zenon DEF Touches
  <2>3. o \in Kept /\ o \in Objs /\ ~Pending(o)
    BY <1>5, <2>2, Zenon DEF Kept
  <2> QED
    BY <1>1, <2>1, <2>2, <2>3, Zenon DEF AbsentOK
<1>6. ASSUME NEW th \in Threads, AppendStep(th)
      PROVE  AbsentOK'
  <2>1. /\ Len(file') = n + 1 /\ file'[n + 1] = NewFrame(th) /\ file' \in Seq(Frames)
        /\ \A i \in 1..n : file'[i] = file[i]
    BY <1>1, <1>6, AppendFacts, Zenon DEF LogTypes, AppendStep
  <2>2. UNCHANGED <<up, store, rec, dropped>> /\ \A u \in Threads \ {th} : pc'[u] = pc[u]
    BY <1>6, Zenon DEF AppendStep, OthersWait
  <2>3. file'[n + 1].rec = rec[th] /\ n + 1 \in 1..(n + 1) /\ n + 1 \in Nat /\ n <= n + 1
    <3>1. NewFrame(th).rec = rec[th]
      BY Zenon DEF NewFrame
    <3>2. n + 1 \in 1..(n + 1) /\ n + 1 \in Nat /\ n <= n + 1
      OBVIOUS
    <3> QED
      BY <2>1, <3>1, <3>2, Zenon
  <2>4. Damaged => Damaged'
    BY <1>6, DamageStays, Zenon
  <2>5. \A o \in Objs : Pending(o) => Pending(o)' \/ \E i \in 1..(n + 1) : Touches(i, o)'
    BY <2>2, <2>3, Zenon DEF Pending, Touches
  <2>6. \A o \in Kept' : o \in Kept
    BY <2>2, Zenon DEF Kept
  <2> QED
    BY <1>5, <2>1, <2>2, <2>3, <2>4, <2>5, <2>6, Zenon
<1>7. ASSUME NEW th \in Threads, ExtendStep(th)
      PROVE  AbsentOK'
  <2>1. /\ n \in Nat \ {0} /\ Len(file') = n /\ file' \in Seq(Frames)
        /\ file'[n].rec = file[n].rec /\ \A i \in 1..(n - 1) : file'[i] = file[i]
    BY <1>1, <1>7, ExtendFacts, Zenon DEF ExtendStep
  <2>2. \A i \in 1..n : file'[i].rec = file[i].rec
    BY <2>1
  <2>3. UNCHANGED <<up, store, rec, dropped>>
        /\ \A u \in Threads : pc[u] = "header" => pc'[u] = "header"
    BY <1>7, Zenon DEF ExtendStep, OthersWait
  <2>4. Damaged => Damaged'
    BY <1>7, DamageStays, Zenon
  <2>5. \A o \in Objs : Pending(o) => Pending(o)'
    BY <2>3, Zenon DEF Pending
  <2>6. \A o \in Kept' : o \in Kept
    BY <2>3, Zenon DEF Kept
  <2> QED
    BY <1>5, <2>1, <2>2, <2>3, <2>4, <2>5, <2>6
<1>8. ASSUME NEW th \in Threads, Sync(th)
      PROVE  AbsentOK'
  <2>1. UNCHANGED <<up, store, rec, file>> /\ pc[th] = "sync" /\ dropped' = dropped \ {rec[th].obj}
        /\ \A u \in Threads : /\ pc[u] = "header" => pc'[u] = "header"
                              /\ pc'[u] \in {"data", "crc"} => pc[u] \in {"data", "crc"}
    BY <1>2, <1>8, Zenon DEF Sync, At
  <2>2. Damaged => Damaged'
    BY <2>1, DamageStays, Zenon
  <2>3. \A o \in Objs : Pending(o) => Pending(o)'
    BY <2>1, Zenon DEF Pending
  <2>4. \A o \in Kept' : o \in Kept \/ o = rec[th].obj
    BY <2>1, Zenon DEF Kept
  <2>5. \E i \in 1..n : Touches(i, rec[th].obj)
    BY <1>1, <2>1, Zenon DEF InFlight
  <2> QED
    BY <1>1, <1>2, <1>5, <2>1, <2>2, <2>3, <2>4, <2>5
<1>9. CASE Crash
  BY <1>9, Zenon DEF Crash, AbsentOK
<1>10. CASE Boot
  BY <1>10, BootValues, Zenon
<1>11. CASE Checkpoint
  BY <1>11, Zenon DEF Checkpoint, AbsentOK, Kept
<1>12. CASE UNCHANGED vars
  BY <1>12 DEF vars, AbsentOK, Intact, Damaged, Readable, Kept, Pending, Touches
<1> QED
  BY <1>2, <1>4, <1>6, <1>7, <1>8, <1>9, <1>10, <1>11, <1>12, WriteSteps, Zenon DEF Next

-----------------------------------------------------------------------------
(* Durability with threads that mutate different objects. *)

LogInv == LogTypes /\ InFlight /\ ValuesOK /\ AbsentOK

\* The empty log says of nothing that it is there.
LEMMA InitLogInv == Init => LogInv
<1> SUFFICES ASSUME Init PROVE LogInv
  BY Zenon
<1>1. Len(file) = 0 /\ file = << >>
  BY Zenon DEF Init
<1>2. InFlight
  BY <1>1, Zenon DEF Init, InFlight
<1>3. ValuesOK
  BY <1>1 DEF ValuesOK, LastAt
<1>4. AbsentOK
  BY Zenon DEF Init, AbsentOK, Kept, Empty
<1> QED
  BY <1>2, <1>3, <1>4, InitLog, Zenon DEF LogInv

\* What is recovered of an object when every call has returned.
LEMMA QuietReplay ==
  ASSUME LogInv, Quiet, ~Damaged, NEW f \in Cuts, NEW o \in Objs \ Unlogged
  PROVE  \/ Recovered(f)[o] = store[o]
         \/ Recovered(f)[o] = NoVal /\ ~SlotIn(Len(file), o)
<1>1. Len(file) \in 0..Len(file)
  BY DEF LogInv, LogTypes, TypeOK
<1>2. f \in Seq(Frames) /\ Reached(f) = 1..Len(file) /\ \A i \in 1..Len(file) : f[i].rec = file[i].rec
  BY SettledCut, Zenon DEF LogInv, Quiet
<1>3. CASE SlotIn(Len(file), o)
  <2>1. PICK i : LastAt(Len(file), i, o) /\ Recovered(f)[o] = file[i].rec.val
    BY <1>1, <1>2, <1>3, ReplayOf DEF LogInv
  <2>2. ~Pending(o)
    BY Zenon DEF Quiet, Pending
  <2>3. file[i].rec.val = store[o]
    BY <1>3, <2>1, <2>2, Zenon DEF LogInv, ValuesOK, Quiet
  <2> QED
    BY <2>1, <2>3, Zenon
<1>4. CASE ~SlotIn(Len(file), o)
  BY <1>1, <1>2, <1>4, ReplayOf, Zenon DEF LogInv
<1> QED
  BY <1>3, <1>4, Zenon

\* The invariant gives NoStaleValue and DurableIfIntact.
LEMMA QuietSafe ==
  ASSUME LogInv
  PROVE  NoStaleValue /\ DurableIfIntact
<1>1. NoStaleValue
  BY QuietReplay, Zenon DEF NoStaleValue
<1>2. ASSUME Quiet, Intact, NEW f \in Cuts, NEW o \in Kept
      PROVE  Recovered(f)[o] = store[o]
  <2>1. ~Damaged /\ Fits /\ o \in Objs \ Unlogged
    BY <1>2, Zenon DEF Intact, Fits, Kept
  <2>2. CASE \E i \in 1..Len(file) : Touches(i, o)
    <3>1. TypeOK /\ Len(file) \in 0..Len(file)
      BY DEF LogInv, LogTypes, TypeOK
    <3>2. SlotIn(Len(file), o)
      BY <2>1, <2>2, <3>1, SlotsSuffice, Zenon
    <3> QED
      BY <1>2, <2>1, <3>2, QuietReplay, Zenon
  <2>3. CASE \A i \in 1..Len(file) : ~Touches(i, o)
    <3>1. store[o] = NoVal
      BY <1>2, <2>3, Zenon DEF LogInv, AbsentOK, Pending, Quiet
    <3> QED
      BY <1>2, <2>1, <3>1, QuietReplay, Zenon
  <2> QED
    BY <2>2, <2>3, Zenon
<1>3. DurableIfIntact
  BY <1>2, Zenon DEF DurableIfIntact, Agree
<1> QED
  BY <1>1, <1>3, Zenon

\* When threads mutate different objects, every call has returned and no fwrites collided,
\* a crash loses nothing the log answers for: danos_persist_recover rebuilds the store,
\* although danos_object_* log outside the store's lock.
THEOREM ReturnedMeansDurable ==
  ASSUME Disjoint
  PROVE  Spec => []DurableIfIntact
<1>1. LogInv /\ [Next]_vars => LogInv'
  BY StepTypes, StepFrames, StepInFlight, StepValues, StepAbsent, Zenon DEF LogInv, LogTypes
<1>2. LogInv => DurableIfIntact
  BY QuietSafe, Zenon
<1> QED
  BY <1>1, <1>2, InitLogInv, PTL DEF Spec

\* Under the same condition recovery never brings back a value that a returned call has
\* overwritten or deleted, even when a checkpoint emptied the log or the replay table was full.
THEOREM NothingStaleRecovered ==
  ASSUME Disjoint
  PROVE  Spec => []NoStaleValue
<1>1. LogInv /\ [Next]_vars => LogInv'
  BY StepTypes, StepFrames, StepInFlight, StepValues, StepAbsent, Zenon DEF LogInv, LogTypes
<1>2. LogInv => NoStaleValue
  BY QuietSafe, Zenon
<1> QED
  BY <1>1, <1>2, InitLogInv, PTL DEF Spec

-----------------------------------------------------------------------------
(* Atomicity with one thread that mutates. *)

Alone == \A t, u \in Threads : t = u

\* The first m frames of log f leave value v in object o.
Said(f, m, o, v) ==
  /\ \A i \in 1..m :
       f[i].rec.obj = o /\ (\A j \in (i + 1)..m : f[j].rec.obj # o) => f[i].rec.val = v
  /\ (\A i \in 1..m : f[i].rec.obj # o) => v = NoVal

Writing(th) == pc[th] \in {"data", "crc", "sync"}

\* The frames of the mutations that have returned.
Settled == IF \E th \in Threads : Writing(th) THEN Len(file) - 1 ELSE Len(file)

\* The store is the acknowledged one but for the object being logged, whose frame is the
\* only one that may not be on the disk.
OneOK ==
  /\ up /\ (\A th \in Threads : pc[th] = "idle") => acked = store
  /\ \A th \in Threads : pc[th] # "idle" => \A o \in Objs \ {rec[th].obj} : acked[o] = store[o]
  /\ ~Damaged => \A th \in Threads : Writing(th) =>
        /\ Len(file) > 0 /\ file[Len(file)].rec = rec[th] /\ synced.frames = Len(file) - 1
        /\ Len(file) > 1 => synced.parts = file[Len(file) - 1].parts

\* The settled frames say what was acknowledged.
AckedOK == up /\ Intact => \A o \in Kept : Said(file, Settled, o, acked[o])

\* The places after one of the first m are among the first m.
LEMMA AfterPlace ==
  ASSUME NEW m \in Nat, NEW i \in 1..m
  PROVE  \A j \in (i + 1)..m : j \in 1..m
OBVIOUS

\* What the first m frames say depends on their records only.
LEMMA SaidSame ==
  ASSUME NEW f, NEW g, NEW m \in Nat, \A i \in 1..m : g[i].rec = f[i].rec,
         NEW o, NEW v, Said(f, m, o, v)
  PROVE  Said(g, m, o, v)
<1>1. ASSUME NEW i \in 1..m, g[i].rec.obj = o, \A j \in (i + 1)..m : g[j].rec.obj # o
      PROVE  g[i].rec.val = v
  <2>1. \A j \in (i + 1)..m : j \in 1..m
    BY AfterPlace, Zenon
  <2>2. \A j \in (i + 1)..m : f[j].rec.obj # o
    BY <1>1, <2>1, Zenon
  <2> QED
    BY <1>1, <2>2, Zenon DEF Said
<1>2. ASSUME \A i \in 1..m : g[i].rec.obj # o
      PROVE  v = NoVal
  BY <1>2, Zenon DEF Said
<1> QED
  BY <1>1, <1>2, Zenon DEF Said

\* One more frame.
LEMMA SaidNext ==
  ASSUME NEW f, NEW m \in Nat, NEW o, NEW v
  PROVE  /\ f[m + 1].rec.obj = o /\ f[m + 1].rec.val = v => Said(f, m + 1, o, v)
         /\ f[m + 1].rec.obj # o /\ Said(f, m, o, v) => Said(f, m + 1, o, v)
<1>1. ASSUME f[m + 1].rec.obj = o, f[m + 1].rec.val = v
      PROVE  Said(f, m + 1, o, v)
  <2>1. \A i \in 1..(m + 1) : i = m + 1 \/ m + 1 \in (i + 1)..(m + 1)
    OBVIOUS
  <2>2. m + 1 \in 1..(m + 1)
    OBVIOUS
  <2> QED
    BY <1>1, <2>1, <2>2, Zenon DEF Said
<1>2. ASSUME f[m + 1].rec.obj # o, Said(f, m, o, v)
      PROVE  Said(f, m + 1, o, v)
  <2>1. \A i \in 1..(m + 1) : i = m + 1 \/ (i \in 1..m /\ (i + 1)..m \subseteq (i + 1)..(m + 1))
    OBVIOUS
  <2>2. \A i \in 1..m : i \in 1..(m + 1)
    OBVIOUS
  <2> QED
    BY <1>2, <2>1, <2>2, Zenon DEF Said
<1> QED
  BY <1>1, <1>2, Zenon

\* Replay of n readable frames recovers what they leave.
LEMMA SaidReplay ==
  ASSUME LogTypes, Fits, NEW n \in 0..Len(file), NEW f \in Seq(Frames), Reached(f) = 1..n,
         \A i \in 1..n : f[i].rec = file[i].rec, NEW o \in Objs
  PROVE  Said(file, n, o, Recovered(f)[o])
<1>1. n \in Nat
  BY DEF LogTypes, TypeOK
<1>2. CASE SlotIn(n, o)
  <2>1. PICK k \in 1..n : LastAt(n, k, o) /\ Recovered(f)[o] = file[k].rec.val
    BY <1>2, ReplayOf, Zenon
  <2>2. file[k].rec.obj = o /\ \A j \in (k + 1)..n : file[j].rec.obj # o
    BY <2>1, Zenon DEF LastAt, Touches
  <2>3. ASSUME NEW i \in 1..n, file[i].rec.obj = o, \A j \in (i + 1)..n : file[j].rec.obj # o
        PROVE  i = k
    <3>1. i \in (k + 1)..n \/ k \in (i + 1)..n \/ i = k
      BY <1>1
    <3> QED
      BY <2>2, <2>3, <3>1, Zenon
  <2> QED
    BY <2>1, <2>2, <2>3, Zenon DEF Said
<1>3. CASE ~SlotIn(n, o)
  <2>1. Recovered(f)[o] = NoVal
    BY <1>3, ReplayOf, Zenon
  <2>2. \A i \in 1..n : file[i].rec.obj # o
    BY <1>3, SlotsSuffice, Zenon DEF LogTypes, Touches
  <2> QED
    BY <2>1, <2>2, Zenon DEF Said
<1> QED
  BY <1>2, <1>3, Zenon

\* The frames decide.
LEMMA SaidOnce ==
  ASSUME NEW f, NEW m \in Nat, NEW o, NEW v, NEW w, Said(f, m, o, v), Said(f, m, o, w)
  PROVE  v = w
<1> DEFINE T == {i \in 1..m : f[i].rec.obj = o}
<1>1. CASE T = {}
  BY <1>1, Zenon DEF Said
<1>2. CASE T # {}
  <2>1. PICK i \in T : \A j \in T : j <= i
    BY <1>2, GreatestElement, Zenon
  <2>2. \A j \in (i + 1)..m : j \in 1..m /\ ~(j <= i)
    OBVIOUS
  <2>3. i \in 1..m /\ f[i].rec.obj = o /\ \A j \in (i + 1)..m : f[j].rec.obj # o
    BY <2>1, <2>2, Zenon
  <2> QED
    BY <2>3, Zenon DEF Said
<1> QED
  BY <1>1, <1>2, Zenon

\* With one thread, at most its own object is ahead of what was acknowledged.
LEMMA StepOne ==
  ASSUME LogTypes, WritersOK, InFlight, OneOK, Alone, [Next]_vars
  PROVE  OneOK'
<1>1. PICK n \in Nat : n = Len(file)
  BY DEF LogTypes, TypeOK
<1>2. /\ pc \in [Threads -> {"idle", "header", "data", "crc", "sync"}]
      /\ rec \in [Threads -> Records] /\ store \in Stores /\ TypeOK
  BY Zenon DEF LogTypes, TypeOK
<1>3. ASSUME NEW th \in Threads, NEW r \in Records, Mutate(th, r)
      PROVE  OneOK'
  <2>1. up /\ acked = store /\ r.obj \in Objs /\ \A u \in Threads : u = th
    BY <1>3, Zenon DEF Mutate, Alone, OneOK, Records
  <2>2. store' = [store EXCEPT ![r.obj] = r.val] /\ rec'[th] = r
        /\ \/ pc'[th] = "idle" /\ acked' = store'
           \/ pc'[th] = "header" /\ acked' = acked
    BY <1>2, <1>3, Zenon DEF Mutate, At
  <2>3. \A o \in Objs \ {r.obj} : store'[o] = store[o]
    BY <1>2, <2>2, Zenon DEF Stores
  <2> QED
    BY <2>1, <2>2, <2>3, Zenon DEF OneOK, Writing
<1>4. ASSUME NEW th \in Threads, AppendStep(th)
      PROVE  OneOK'
  <2>1. UNCHANGED <<up, store, synced, rec, acked>> /\ (\A u \in Threads : u = th)
        /\ pc'[th] # "idle" /\ pc[th] # "idle"
    BY <1>4, Zenon DEF AppendStep, OthersWait, Alone
  <2>2. /\ Len(file') = n + 1 /\ file'[n + 1] = NewFrame(th)
        /\ \A i \in 1..n : file'[i] = file[i]
    BY <1>1, <1>4, AppendFacts, Zenon DEF LogTypes, AppendStep
  <2>3. ASSUME ~Damaged'
        PROVE  /\ Len(file') > 0 /\ file'[Len(file')].rec = rec[th] /\ synced.frames = Len(file') - 1
               /\ Len(file') > 1 => synced.parts = file'[Len(file') - 1].parts
    <3>1. ~Damaged
      BY <1>4, <2>3, DamageStays, Zenon
    <3>2. pc[th] = "header"
      BY <1>4, <3>1, Zenon DEF AppendStep, WritersOK
    <3>3. synced.frames = n /\ (n > 0 => synced.parts = file[n].parts)
      BY <1>1, <2>1, <3>2 DEF InFlight
    <3>4. NewFrame(th).rec = rec[th]
      BY Zenon DEF NewFrame
    <3>5. n > 0 => file'[n] = file[n]
      BY <2>2
    <3>6. Len(file') - 1 = n
      BY <2>2
    <3>7. file'[Len(file')].rec = rec[th]
      BY <2>2, <3>4, Zenon
    <3>8. Len(file') > 0 /\ (Len(file') > 1 => n > 0)
      BY <2>2
    <3> QED
      BY <3>3, <3>5, <3>6, <3>7, <3>8, Zenon
  <2> QED
    BY <2>1, <2>3, Zenon DEF OneOK
<1>5. ASSUME NEW th \in Threads, ExtendStep(th)
      PROVE  OneOK'
  <2>1. UNCHANGED <<up, store, synced, rec, acked>> /\ (\A u \in Threads : u = th)
        /\ pc'[th] # "idle" /\ pc[th] \in {"data", "crc"}
    BY <1>5, Zenon DEF ExtendStep, OthersWait, Alone
  <2>2. /\ n \in Nat \ {0} /\ Len(file') = n /\ file'[n].rec = rec[th]
        /\ \A i \in 1..(n - 1) : file'[i] = file[i]
    BY <1>1, <1>5, ExtendFacts, Zenon DEF ExtendStep
  <2>3. ASSUME ~Damaged'
        PROVE  /\ Len(file') > 0 /\ file'[Len(file')].rec = rec[th] /\ synced.frames = Len(file') - 1
               /\ Len(file') > 1 => synced.parts = file'[Len(file') - 1].parts
    <3>1. ~Damaged
      BY <1>5, <2>3, DamageStays, Zenon
    <3>2. synced.frames = n - 1 /\ (n > 1 => synced.parts = file[n - 1].parts)
      BY <1>1, <2>1, <3>1, Zenon DEF OneOK, Writing
    <3>3. n > 1 => file'[n - 1] = file[n - 1]
      <4>1. \A k \in Nat : k > 1 => k - 1 \in 1..(k - 1)
        OBVIOUS
      <4>2. n > 1 => n - 1 \in 1..(n - 1)
        BY <2>2, <4>1, Zenon
      <4> QED
        BY <2>2, <4>2, Zenon
    <3>4. Len(file') > 0
      BY <2>2
    <3> QED
      BY <2>2, <3>2, <3>3, <3>4, Zenon
  <2> QED
    BY <2>1, <2>3, Zenon DEF OneOK
<1>6. ASSUME NEW th \in Threads, Sync(th)
      PROVE  OneOK'
  <2>1. pc'[th] = "idle" /\ acked' = store' /\ \A u \in Threads : u = th
    BY <1>2, <1>6, Zenon DEF Sync, At, Alone
  <2> QED
    BY <2>1, Zenon DEF OneOK, Writing
<1>7. CASE Crash
  BY <1>7, Zenon DEF Crash, OneOK, Writing
<1>8. CASE Boot
  <2>1. \A th \in Threads : pc[th] = "idle"
    BY <1>8, Zenon DEF Boot, LogTypes, FramesOK
  <2> QED
    BY <1>8, <2>1, Zenon DEF Boot, OneOK, Writing
<1>9. CASE Checkpoint
  BY <1>9, Zenon DEF Checkpoint, Quiet, OneOK, Writing
<1>10. CASE UNCHANGED vars
  BY <1>10, Zenon DEF vars, OneOK, Writing, Damaged, Readable
<1> QED
  BY <1>2, <1>3, <1>4, <1>5, <1>6, <1>7, <1>8, <1>9, <1>10, WriteSteps, Zenon DEF Next

\* With one thread, the settled frames go on saying what was acknowledged.
LEMMA StepAcked ==
  ASSUME LogTypes, WritersOK, InFlight, OneOK, AckedOK, Alone, [Next]_vars
  PROVE  AckedOK'
<1>1. PICK n \in Nat : n = Len(file)
  BY DEF LogTypes, TypeOK
<1>2. /\ pc \in [Threads -> {"idle", "header", "data", "crc", "sync"}]
      /\ rec \in [Threads -> Records] /\ store \in Stores /\ file \in Seq(Frames) /\ TypeOK
  BY Zenon DEF LogTypes, TypeOK
<1>3. Intact = (~Damaged /\ Fits) /\ Intact' = (~Damaged' /\ Fits')
  BY Zenon DEF Intact, Fits
<1>4. ASSUME NEW th \in Threads, NEW r \in Records, Mutate(th, r)
      PROVE  AckedOK'
  <2>1. file' = file /\ up /\ dropped' = dropped /\ (\A u \in Threads : u = th)
        /\ pc[th] = "idle" /\ pc'[th] \in {"idle", "header"}
    BY <1>2, <1>4, Zenon DEF Mutate, At, Alone
  <2>2. Settled = n /\ Settled' = n
    BY <1>1, <2>1, Zenon DEF Settled, Writing
  <2>3. \A o \in Objs \ Unlogged : acked'[o] = acked[o]
    <3>1. CASE acked' = acked
      BY <3>1, Zenon
    <3>2. CASE r.obj \in Unlogged /\ acked' = store' /\ store' = [store EXCEPT ![r.obj] = r.val]
      BY <1>2, <2>1, <3>2, Zenon DEF OneOK, Stores
    <3> QED
      BY <1>4, <3>1, <3>2, Zenon DEF Mutate
  <2>4. Intact' => Intact
    <3>1. Damaged => Damaged'
      BY <2>1, DamageStays, Zenon
    <3>2. Fits' => Fits
      BY <2>1, Zenon DEF Fits
    <3> QED
      BY <1>3, <3>1, <3>2, Zenon
  <2> QED
    BY <2>1, <2>2, <2>3, <2>4, Zenon DEF AckedOK, Kept
<1>5. ASSUME NEW th \in Threads, AppendStep(th)
      PROVE  AckedOK'
  <2>1. UNCHANGED <<up, acked, dropped>> /\ (\A u \in Threads : u = th) /\ Writing(th)'
    BY <1>5, Zenon DEF AppendStep, OthersWait, Alone, Writing
  <2>2. /\ Len(file') = n + 1 /\ file' \in Seq(Frames) /\ \A i \in 1..n : file'[i] = file[i]
    BY <1>1, <1>5, AppendFacts, Zenon DEF LogTypes, AppendStep
  <2>3. Settled' = n
    <3>1. Settled' = Len(file') - 1
      BY <2>1, Zenon DEF Settled
    <3> QED
      BY <2>2, <3>1
  <2> SUFFICES ASSUME up, Intact', NEW o \in Kept'
               PROVE  Said(file', n, o, acked[o])
    BY <2>1, <2>3, Zenon DEF AckedOK
  <2>4. ~Damaged /\ Fits
    <3>1. Damaged => Damaged'
      BY <1>5, DamageStays, Zenon
    <3>2. Len(file) <= Len(file') /\ \A i \in 1..Len(file) : file'[i].rec = file[i].rec
      BY <1>1, <2>2
    <3>3. Fits' => Fits
      BY <1>2, <2>2, <3>2, FitsBefore, Zenon
    <3> QED
      BY <1>3, <3>1, <3>3, Zenon
  <2>5. Settled = n
    <3>1. pc[th] = "header"
      BY <1>5, <2>4, Zenon DEF AppendStep, WritersOK
    <3> QED
      BY <1>1, <2>1, <3>1, Zenon DEF Settled, Writing
  <2>6. Said(file, n, o, acked[o])
    BY <1>3, <2>1, <2>4, <2>5, Zenon DEF AckedOK, Kept
  <2> QED
    BY <2>2, <2>6, SaidSame, Zenon
<1>6. ASSUME NEW th \in Threads, ExtendStep(th)
      PROVE  AckedOK'
  <2>1. UNCHANGED <<up, acked, dropped>> /\ Writing(th)' /\ Writing(th)
    BY <1>6, Zenon DEF ExtendStep, OthersWait, Writing
  <2>2. /\ n \in Nat \ {0} /\ Len(file') = n /\ file' \in Seq(Frames)
        /\ file'[n].rec = file[n].rec /\ \A i \in 1..(n - 1) : file'[i] = file[i]
    BY <1>1, <1>6, ExtendFacts, Zenon DEF ExtendStep
  <2>3. Settled' = n - 1 /\ Settled = n - 1 /\ n - 1 \in Nat
    BY <1>1, <2>1, <2>2 DEF Settled
  <2> SUFFICES ASSUME up, Intact', NEW o \in Kept'
               PROVE  Said(file', n - 1, o, acked[o])
    BY <2>1, <2>3, Zenon DEF AckedOK
  <2>4. \A i \in 1..n : file'[i].rec = file[i].rec
    BY <2>2
  <2>5. ~Damaged /\ Fits
    <3>1. Damaged => Damaged'
      BY <1>6, DamageStays, Zenon
    <3>2. Len(file) <= Len(file') /\ \A i \in 1..Len(file) : file'[i].rec = file[i].rec
      BY <1>1, <2>2, <2>4
    <3>3. Fits' => Fits
      BY <1>2, <2>2, <3>2, FitsBefore, Zenon
    <3> QED
      BY <1>3, <3>1, <3>3, Zenon
  <2>6. Said(file, n - 1, o, acked[o])
    BY <1>3, <2>1, <2>3, <2>5, Zenon DEF AckedOK, Kept
  <2> QED
    BY <2>2, <2>3, <2>6, SaidSame, Zenon
<1>7. ASSUME NEW th \in Threads, Sync(th)
      PROVE  AckedOK'
  <2>1. UNCHANGED <<up, store, file>> /\ pc[th] = "sync" /\ pc'[th] = "idle" /\ acked' = store
        /\ dropped' = dropped \ {rec[th].obj} /\ \A u \in Threads : u = th
    BY <1>2, <1>7, Zenon DEF Sync, At, Alone
  <2>2. Settled' = n /\ Settled = n - 1
    BY <1>1, <2>1, Zenon DEF Settled, Writing
  <2> SUFFICES ASSUME up, Intact', NEW o \in Kept'
               PROVE  Said(file, n, o, store[o])
    BY <2>1, <2>2, Zenon DEF AckedOK
  <2>3. ~Damaged /\ Fits
    <3>1. Damaged => Damaged'
      BY <2>1, DamageStays, Zenon
    <3>2. Fits' => Fits
      BY <2>1, Zenon DEF Fits
    <3> QED
      BY <1>3, <3>1, <3>2, Zenon
  <2>4. n > 0 /\ file[n].rec = rec[th]
    BY <1>1, <2>1, <2>3, Zenon DEF OneOK, Writing
  <2>5. PICK m \in Nat : n = m + 1
    <3>1. n - 1 \in Nat /\ n = (n - 1) + 1
      BY <2>4
    <3> QED
      BY <3>1, Zenon
  <2>6. CASE o = rec[th].obj
    <3>1. file[m + 1].rec.obj = o /\ file[m + 1].rec.val = store[o]
      BY <2>1, <2>4, <2>5, <2>6, Zenon DEF InFlight
    <3> QED
      BY <2>5, <3>1, SaidNext, Zenon
  <2>7. CASE o # rec[th].obj
    <3>1. o \in Kept /\ acked[o] = store[o]
      BY <2>1, <2>7, Zenon DEF Kept, OneOK
    <3>2. Settled = m
      BY <2>2, <2>5
    <3>3. Said(file, m, o, store[o])
      BY <1>3, <2>3, <3>1, <3>2, Zenon DEF AckedOK
    <3> QED
      BY <2>4, <2>5, <2>7, <3>3, SaidNext, Zenon
  <2> QED
    BY <2>6, <2>7, Zenon
<1>8. CASE Crash
  BY <1>8, Zenon DEF Crash, AckedOK
<1>9. CASE Boot
  <2>1. \A th \in Threads : pc[th] = "idle"
    BY <1>9, Zenon DEF Boot, LogTypes, FramesOK
  <2>2. file' = file /\ acked' = Recovered(file) /\ pc' = pc
    BY <1>9, Zenon DEF Boot
  <2>3. Settled' = n
    BY <1>1, <2>1, <2>2, Zenon DEF Settled, Writing
  <2> SUFFICES ASSUME Intact', NEW o \in Objs
               PROVE  Said(file, n, o, Recovered(file)[o])
    BY <2>2, <2>3, Zenon DEF AckedOK, Kept
  <2>4. ~Damaged /\ Fits
    BY <2>2, Zenon DEF Intact, Fits, Damaged, Readable
  <2>5. \A i \in 1..n : Readable(file, i)
    BY <1>1, <2>1, <2>4, WholeFrames, Zenon
  <2>6. Reached(file) = 1..n /\ n \in 0..Len(file)
    BY <1>1, <1>2, <2>5 DEF Reached
  <2> QED
    BY <1>2, <2>4, <2>6, SaidReplay, Zenon
<1>10. CASE Checkpoint
  <2>1. \A th \in Threads : pc[th] = "idle"
    BY <1>10, Zenon DEF Checkpoint, Quiet
  <2>2. Settled' = 0 /\ acked = store /\ acked' = acked /\ up
    BY <1>10, <2>1, Zenon DEF Checkpoint, Quiet, Settled, Writing, OneOK
  <2>3. \A o \in Kept' : acked'[o] = NoVal
    BY <1>10, <2>2, Zenon DEF Checkpoint, Kept
  <2>4. \A i : i \notin 1..0
    OBVIOUS
  <2> QED
    BY <2>2, <2>3, <2>4, Zenon DEF AckedOK, Said
<1>11. CASE UNCHANGED vars
  BY <1>11, Zenon DEF vars, AckedOK, Intact, Damaged, Readable, Kept, Settled, Writing
<1> QED
  BY <1>2, <1>4, <1>5, <1>6, <1>7, <1>8, <1>9, <1>10, <1>11, WriteSteps, Zenon DEF Next

AtomInv == LogTypes /\ WritersOK /\ InFlight /\ OneOK /\ AckedOK

\* Nothing is acknowledged at first.
LEMMA InitAtom == Init => AtomInv
<1> SUFFICES ASSUME Init PROVE AtomInv
  BY Zenon
<1>1. Len(file) = 0 /\ file = << >> /\ \A th \in Threads : pc[th] = "idle"
  BY Zenon DEF Init
<1>2. WritersOK /\ OneOK
  BY <1>1, Zenon DEF Init, WritersOK, OneOK, Writing
<1>3. Settled = 0 /\ \A i : i \notin 1..0
  BY <1>1 DEF Settled, Writing
<1>4. AckedOK
  BY <1>3, Zenon DEF Init, AckedOK, Said, Empty, Kept
<1> QED
  BY <1>2, <1>4, InitLogInv, Zenon DEF AtomInv, LogInv

\* The frames a crash in the middle of a mutation leaves readable: those that were settled,
\* and possibly the one being written.
LEMMA AtomicCut ==
  ASSUME AtomInv, Alone, ~Damaged, NEW f \in Cuts
  PROVE  /\ f \in Seq(Frames)
         /\ \E n \in 0..Len(file) : /\ Reached(f) = 1..n
                                    /\ \A i \in 1..n : f[i].rec = file[i].rec
                                    /\ n = Settled \/ (n = Len(file) /\ n = Settled + 1)
<1>1. PICK m \in Nat : m = Len(file)
  BY DEF AtomInv, LogTypes, TypeOK
<1>2. PICK k \in 0..m, p \in 1..3 : IsCut(f, k, p)
  BY <1>1, CutFacts, Zenon DEF AtomInv, LogTypes
<1>3. f \in Seq(Frames) /\ \A i \in 1..k : f[i].rec = file[i].rec
  BY <1>2, Zenon DEF IsCut
<1>4. CASE \A th \in Threads : ~Writing(th)
  <2>1. \A th \in Threads : pc[th] \in {"idle", "header"}
    BY <1>4, Zenon DEF AtomInv, LogTypes, TypeOK, Writing
  <2>2. Reached(f) = 1..m /\ \A i \in 1..m : f[i].rec = file[i].rec
    BY <1>1, <2>1, SettledCut, Zenon DEF AtomInv
  <2>3. Settled = m /\ m \in 0..m
    BY <1>1, <1>4 DEF Settled
  <2> QED
    BY <1>1, <1>3, <2>2, <2>3, Zenon
<1>5. CASE \E th \in Threads : Writing(th)
  <2>1. m > 0 /\ synced.frames = m - 1 /\ (m > 1 => synced.parts = file[m - 1].parts)
    BY <1>1, <1>5, Zenon DEF AtomInv, OneOK
  <2>2. Settled = m - 1
    BY <1>1, <1>5, Zenon DEF Settled
  <2>3. k = m \/ (k = m - 1 /\ (k = 0 \/ p >= synced.parts))
    BY <1>1, <1>2, <2>1 DEF IsCut
  <2>4. CASE k = m
    <3>1. Reached(f) = 1..m \/ Reached(f) = 1..(m - 1)
      BY <1>2, <2>1, <2>4, CutReached, Zenon DEF AtomInv
    <3>2. m \in 0..m /\ m - 1 \in 0..m /\ m = (m - 1) + 1 /\ \A i \in 1..(m - 1) : i \in 1..m
      BY <2>1
    <3> QED
      BY <1>1, <1>3, <2>2, <2>4, <3>1, <3>2, Zenon
  <2>5. CASE k = m - 1
    <3>1. Reached(f) = 1..k
      <4>1. CASE k = 0
        BY <1>2, <4>1, CutReached, Zenon DEF AtomInv
      <4>2. CASE k > 0
        <5>1. k \in 1..(m - 1) /\ m > 1
          BY <2>1, <2>5, <4>2
        <5>2. Readable(file, k)
          BY <1>1, <5>1, WholeFrames, Zenon DEF AtomInv
        <5>3. file[k].parts \in 1..3
          <6>1. file \in Seq(Frames) /\ k \in 1..Len(file)
            BY <1>1, <5>1 DEF AtomInv, LogTypes, TypeOK
          <6>2. file[k] \in Frames
            BY <6>1
          <6> QED
            BY <6>2, Zenon DEF Frames
        <5>4. p >= file[k].parts
          BY <2>1, <2>3, <2>5, <4>2, <5>1
        <5>5. p \in 1..file[k].parts
          BY <1>2, <4>2, Zenon DEF IsCut
        <5>6. p = file[k].parts
          BY <5>3, <5>4, <5>5
        <5> QED
          BY <1>2, <4>2, <5>2, <5>6, CutReached, Zenon DEF AtomInv, Readable
      <4> QED
        BY <1>2, <4>1, <4>2
    <3> QED
      BY <1>1, <1>2, <1>3, <2>2, <2>5, <3>1, Zenon
  <2> QED
    BY <2>3, <2>4, <2>5, Zenon
<1> QED
  BY <1>4, <1>5, Zenon

\* The invariant gives CrashAtomic: recovery finds a change whole or not at all.
LEMMA AtomicRecovery ==
  ASSUME AtomInv, Alone
  PROVE  CrashAtomic
<1> SUFFICES ASSUME up, Intact, NEW f \in Cuts
             PROVE  Agree(Recovered(f), acked) \/ Agree(Recovered(f), store)
  BY Zenon DEF CrashAtomic
<1>1. ~Damaged /\ Fits /\ LogTypes
  BY Zenon DEF Intact, Fits, AtomInv
<1>2. PICK n \in 0..Len(file) : /\ Reached(f) = 1..n
                                /\ \A i \in 1..n : f[i].rec = file[i].rec
                                /\ n = Settled \/ (n = Len(file) /\ n = Settled + 1)
  BY <1>1, AtomicCut, Zenon
<1>3. n \in Nat /\ f \in Seq(Frames) /\ Len(file) \in Nat
  BY <1>1, AtomicCut DEF LogTypes, TypeOK
<1>4. \A o \in Objs : Said(file, n, o, Recovered(f)[o])
  BY <1>1, <1>2, <1>3, SaidReplay, Zenon
<1>5. CASE n = Settled
  <2>1. \A o \in Kept : o \in Objs /\ Said(file, n, o, acked[o])
    BY <1>5, Zenon DEF AtomInv, AckedOK, Kept
  <2>2. \A o \in Kept : Recovered(f)[o] = acked[o]
    BY <1>3, <1>4, <2>1, SaidOnce, Zenon
  <2> QED
    BY <2>2, Zenon DEF Agree
<1>6. CASE n = Len(file) /\ n = Settled + 1
  <2>1. Settled = Len(file) - 1 /\ \E th \in Threads : Writing(th)
    BY <1>3, <1>6 DEF Settled
  <2>2. PICK th \in Threads : Writing(th)
    BY <2>1, Zenon
  <2>3. PICK m \in Nat : m = Settled /\ n = m + 1
    <3>1. n > 0 /\ Settled = n - 1
      BY <1>1, <1>6, <2>1, <2>2, Zenon DEF AtomInv, OneOK
    <3>2. n - 1 \in Nat /\ n = (n - 1) + 1
      BY <1>3, <3>1
    <3> QED
      BY <3>1, <3>2, Zenon
  <2>4. file[m + 1].rec = rec[th] /\ pc[th] # "idle"
    BY <1>1, <1>6, <2>2, <2>3, Zenon DEF AtomInv, OneOK, Writing
  <2>5. ASSUME NEW o \in Kept
        PROVE  Said(file, n, o, store[o])
    <3>1. CASE o = rec[th].obj
      <4>1. file[m + 1].rec.obj = o /\ file[m + 1].rec.val = store[o]
        BY <2>4, <3>1, Zenon DEF AtomInv, InFlight
      <4> QED
        BY <2>3, <4>1, SaidNext, Zenon
    <3>2. CASE o # rec[th].obj
      <4>1. acked[o] = store[o]
        BY <2>4, <2>5, <3>2, Zenon DEF AtomInv, OneOK, Kept
      <4>2. Said(file, m, o, store[o])
        BY <2>3, <2>5, <4>1, Zenon DEF AtomInv, AckedOK
      <4> QED
        BY <2>3, <2>4, <3>2, <4>2, SaidNext, Zenon
    <3> QED
      BY <3>1, <3>2, Zenon
  <2>6. \A o \in Kept : Recovered(f)[o] = store[o]
    BY <1>3, <1>4, <2>5, SaidOnce, Zenon DEF Kept
  <2> QED
    BY <2>6, Zenon DEF Agree
<1> QED
  BY <1>2, <1>5, <1>6, Zenon

\* With one mutating thread, a crash at any fwrite of danos_wal_append or before its sync,
\* with any part of what was not synced on the disk, recovers the configuration before the
\* mutation in progress or the one after it, as long as no earlier crash tore the log.
THEOREM CrashesAreAtomic ==
  ASSUME Alone
  PROVE  Spec => []CrashAtomic
<1>1. Disjoint
  BY Zenon DEF Alone, Disjoint
<1>2. AtomInv /\ [Next]_vars => AtomInv'
  <2> SUFFICES ASSUME AtomInv, [Next]_vars
               PROVE  AtomInv'
    BY Zenon
  <2>1. LogTypes'
    BY StepTypes, StepFrames, Zenon DEF AtomInv, LogTypes
  <2>2. WritersOK' /\ InFlight'
    BY <1>1, StepWriters, StepInFlight, Zenon DEF AtomInv
  <2>3. OneOK' /\ AckedOK'
    BY StepOne, StepAcked, Zenon DEF AtomInv
  <2> QED
    BY <2>1, <2>2, <2>3, Zenon DEF AtomInv
<1>3. AtomInv => CrashAtomic
  BY AtomicRecovery, Zenon
<1> QED
  BY <1>2, <1>3, InitAtom, PTL DEF Spec
=============================================================================
