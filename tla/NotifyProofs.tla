---------------------------- MODULE NotifyProofs ----------------------------
(***************************************************************************)
(* Proof that every change reaches the queues it concerns exactly once     *)
(* (module Notify), for any number of writers, subscribers and events.     *)
(***************************************************************************)
EXTENDS Notify, FiniteSetTheorems, SequenceTheorems, WellFoundedInduction, TLAPS

-----------------------------------------------------------------------------
(* Sequences and natural numbers. *)

\* What taking the first element of a queue leaves.
LEMMA TailFacts ==
  ASSUME NEW S, NEW q \in Seq(S), q # << >>
  PROVE  /\ Len(q) \in Nat \ {0} /\ Tail(q) \in Seq(S) /\ Len(Tail(q)) = Len(q) - 1
         /\ Head(q) = q[1] /\ q[1] \in S
         /\ \A i \in 1..(Len(q) - 1) : Tail(q)[i] = q[i + 1]
<1>1. Len(q) \in Nat \ {0} /\ Head(q) = q[1] /\ q[1] \in S
  OBVIOUS
<1>2. Tail(q) \in Seq(S) /\ Len(Tail(q)) = Len(q) - 1
  OBVIOUS
<1>3. \A i \in 1..(Len(q) - 1) : Tail(q)[i] = q[i + 1]
  OBVIOUS
<1> QED
  BY <1>1, <1>2, <1>3, Zenon

Less == {ss \in Nat \X Nat : ss[1] < ss[2]}
\* A non-empty set of numbers has a least one: the induction the proofs use.
LEMMA LeastElement ==
  ASSUME NEW T \in SUBSET Nat, T # {}
  PROVE  \E x \in T : \A y \in T : x <= y
<1>1. IsWellFoundedOn(Less, Nat)
  BY NatLessThanWellFounded, Zenon DEF OpToRel, Less
<1>2. PICK x \in T : \A y \in T : ~(<<y, x>> \in Less)
  BY <1>1, WFMin, Zenon
<1>3. \A y \in T : x \in Nat /\ y \in Nat /\ ~(y < x)
  BY <1>2, Zenon DEF Less
<1> QED
  BY <1>3

-----------------------------------------------------------------------------
(* Types, the bus and the walkers, what was queued, the queues. *)

Events == [kind : {Created, Updated, Deleted}, type : ObjTypes, nr : Nat]
SubTypes == {wish[2] : wish \in SubWishes} \cup {NoEvent}
Subs == [id : Nat, mask : Nat, type : SubTypes]
Ids == 1..(nextSub - 1)
Places == 0..(QueueSize - 1)
Queues == [entries : [Places -> Events \cup {NoEvent}], head : Places, tail : Places,
           count : 0..QueueSize, dropped : Nat]

NTypes ==
  /\ published \in Nat /\ nextSub \in Nat \ {0}
  /\ wpc \in [EventWriters -> {"idle", "publish", "walk"}]
  /\ event \in [EventWriters -> Events \cup {NoEvent}]
  /\ walk \in [EventWriters -> Seq(Subs)] /\ bus \in Seq(Subs)
  /\ DOMAIN queue \subseteq Ids /\ queue \in [DOMAIN queue -> Queues]
  /\ pushed \in [DOMAIN queue -> Seq(Events)] /\ polled \in [DOMAIN queue -> Nat]
  /\ since \in [Ids -> Nat]
  /\ restSub \in 0..(nextSub - 1) /\ linked \subseteq DOMAIN queue /\ freed \subseteq Ids
  /\ \A w \in EventWriters : wpc[w] # "idle" => event[w] \in Events /\ event[w].nr \in 1..published

\* The walkers visit what is on the bus, once, and none of it has been freed.
Distinct(s) == \A j, k \in 1..Len(s) : s[j].id = s[k].id => j = k
OnBus(s) == \E k \in 1..Len(bus) : bus[k] = s
BusOK ==
  /\ touched = {} /\ Distinct(bus)
  /\ \A k \in 1..Len(bus) : /\ bus[k].id \in Ids /\ bus[k].id \notin freed
                            /\ ~IsGrpc(bus[k]) => bus[k].id \in DOMAIN queue
  /\ \A w \in EventWriters :
       wpc[w] = "walk" => Distinct(walk[w]) /\ \A j \in 1..Len(walk[w]) : OnBus(walk[w][j])

\* An event is in no queue that its writer has yet to visit.
Has(P, n) == \E j \in 1..Len(P) : P[j].nr = n
OnceEach(P) == \A j, k \in 1..Len(P) : P[j].nr = P[k].nr => j = k
Visits(w, i) == wpc[w] = "walk" /\ \E j \in 1..Len(walk[w]) : walk[w][j].id = i
PushedOnce ==
  /\ \A i \in DOMAIN queue : OnceEach(pushed[i]) /\ \A j \in 1..Len(pushed[i]) : pushed[i][j].nr <= published
  /\ \A v, w \in EventWriters :
       v # w /\ wpc[v] # "idle" /\ wpc[w] # "idle" => event[v].nr # event[w].nr
  /\ \A w \in EventWriters : \A i \in DOMAIN queue :
       wpc[w] = "publish" \/ Visits(w, i) => ~Has(pushed[i], event[w].nr)

\* What passes mask and filter is queued, or its writer has yet to come by.
Passes(s, e) == Wanted(s.mask, e.kind) /\ s.type \in {AnyType, e.type}
WantsAll(s) == s.mask % 16 >= 14 /\ s.type = AnyType
Comes(x, i) == \E w \in EventWriters : (wpc[w] = "publish" \/ Visits(w, i)) /\ event[w].nr = x
AllPushed ==
  \A k \in 1..Len(bus) :
    ~IsGrpc(bus[k]) =>
      LET i == bus[k].id
      IN /\ \A j \in 1..Len(pushed[i]) : Passes(bus[k], pushed[i][j])
         /\ WantsAll(bus[k]) => \A x \in (since[i] + 1)..published : Has(pushed[i], x) \/ Comes(x, i)

\* The ring: q holds the newest of P, of which n were polled.
Place(q, k) == (q.head + k) % QueueSize
Ring(q, P, n) ==
  /\ q.tail = Place(q, q.count)
  /\ n + q.dropped + q.count = Len(P)
  /\ \A k \in 0..(q.count - 1) : q.entries[Place(q, k)] = P[Len(P) - q.count + 1 + k]
  /\ \A j \in Places : (\A k \in 0..(q.count - 1) : j # Place(q, k)) => q.entries[j] = NoEvent
RingsOK == \A i \in DOMAIN queue : Ring(queue[i], pushed[i], polled[i])

-----------------------------------------------------------------------------
(* The ring buffer. *)

\* Places follow one another, and the first follows the last.
Wrap(x) == IF x < QueueSize THEN x ELSE x - QueueSize
\* An index one round past the ring wraps once.
LEMMA WrapIs ==
  ASSUME NEW h \in Places, NEW k \in 0..QueueSize
  PROVE  (h + k) % QueueSize = Wrap(h + k) /\ Wrap(h + k) \in Places
<1>1. QueueSize \in Nat \ {0} /\ h \in 0..(QueueSize - 1)
  BY QueueAssumption, Zenon DEF Places
<1>2. CASE h + k < QueueSize
  <2>1. h + k \in 0..(QueueSize - 1)
    BY <1>1, <1>2
  <2>2. (h + k) % QueueSize = h + k
    BY <1>1, <2>1
  <2> QED
    BY <1>2, <2>1, <2>2, Zenon DEF Wrap, Places
<1>3. CASE ~(h + k < QueueSize)
  <2>1. (h + k) - QueueSize \in 0..(QueueSize - 1)
    BY <1>1, <1>3
  <2>2. \A x \in 0..(QueueSize - 1) : (x + QueueSize) % QueueSize = x
    BY <1>1
  <2>3. ((h + k) - QueueSize) + QueueSize = h + k
    BY <1>1
  <2>4. (h + k) % QueueSize = (h + k) - QueueSize
    BY <2>1, <2>2, <2>3, Zenon
  <2> QED
    BY <1>3, <2>1, <2>4, Zenon DEF Wrap, Places
<1> QED
  BY <1>2, <1>3, Zenon

\* Arithmetic on places.
LEMMA WrapFacts ==
  ASSUME NEW h \in Places
  PROVE  /\ \A k \in 0..(QueueSize - 1) : Wrap(Wrap(h + 1) + k) = Wrap(h + (k + 1))
         /\ \A k \in 0..(QueueSize - 1) : Wrap(Wrap(h + k) + 1) = Wrap(h + (k + 1))
         /\ \A k \in 1..(QueueSize - 1) : Wrap(h + k) # h
         /\ \A j \in Places \ {h} : \E k \in 0..(QueueSize - 2) : Wrap(h + (k + 1)) = j
         /\ \A k, m \in 0..(QueueSize - 1) : k # m => Wrap(h + k) # Wrap(h + m)
<1>1. QueueSize \in Nat \ {0} /\ h \in 0..(QueueSize - 1)
  BY QueueAssumption, Zenon DEF Places
<1>2. \A k \in 0..(QueueSize - 1) : Wrap(Wrap(h + 1) + k) = Wrap(h + (k + 1))
  BY <1>1 DEF Wrap
<1>3. \A k \in 0..(QueueSize - 1) : Wrap(Wrap(h + k) + 1) = Wrap(h + (k + 1))
  BY <1>1 DEF Wrap
<1>4. \A k \in 1..(QueueSize - 1) : Wrap(h + k) # h
  BY <1>1 DEF Wrap
<1>5. ASSUME NEW j \in Places \ {h}
      PROVE  \E k \in 0..(QueueSize - 2) : Wrap(h + (k + 1)) = j
  <2>1. j \in 0..(QueueSize - 1) /\ j # h
    BY Zenon DEF Places
  <2>2. CASE j > h
    <3>1. j - h - 1 \in 0..(QueueSize - 2) /\ h + ((j - h - 1) + 1) = j /\ j < QueueSize
      BY <1>1, <2>1, <2>2
    <3> QED
      BY <3>1, Zenon DEF Wrap
  <2>3. CASE j < h
    <3>1. /\ j + QueueSize - h - 1 \in 0..(QueueSize - 2)
          /\ h + ((j + QueueSize - h - 1) + 1) = j + QueueSize
          /\ ~(j + QueueSize < QueueSize) /\ (j + QueueSize) - QueueSize = j
      BY <1>1, <2>1, <2>3
    <3> QED
      BY <3>1, Zenon DEF Wrap
  <2> QED
    BY <1>1, <2>1, <2>2, <2>3
<1>6. \A k, m \in 0..(QueueSize - 1) : k # m => Wrap(h + k) # Wrap(h + m)
  BY <1>1 DEF Wrap
<1> QED
  BY <1>2, <1>3, <1>4, <1>5, <1>6, Zenon

\* A queue by its parts.
Parts5(r, en, hd, tl, ct, dr) ==
  r = [entries |-> en, head |-> hd, tail |-> tl, count |-> ct, dropped |-> dr]
\* A queue is its entries, head, tail, count and number of drops.
LEMMA QueueParts ==
  ASSUME NEW q \in Queues
  PROVE  \E en \in [Places -> Events \cup {NoEvent}], hd \in Places, tl \in Places,
            ct \in 0..QueueSize, dr \in Nat : Parts5(q, en, hd, tl, ct, dr)
BY Zenon DEF Queues, Parts5

\* The two halves of queue_push.
Drop(q) == [q EXCEPT !.entries[q.head] = NoEvent, !.head = (q.head + 1) % QueueSize,
                     !.count = q.count - 1, !.dropped = q.dropped + 1]
Fill(q, e) == [q EXCEPT !.entries[q.tail] = e, !.tail = (q.tail + 1) % QueueSize,
                        !.count = q.count + 1]

\* A full queue drops its oldest event: the rest are still the newest pushed.
LEMMA DropKeeps ==
  ASSUME NEW q \in Queues, NEW P \in Seq(Events), NEW n \in Nat, Ring(q, P, n), q.count = QueueSize
  PROVE  /\ Drop(q) \in Queues /\ Ring(Drop(q), P, n) /\ Drop(q).count < QueueSize
<1>1. QueueSize \in Nat \ {0} /\ Places = 0..(QueueSize - 1)
  BY QueueAssumption, Zenon DEF Places
<1>2. PICK en \in [Places -> Events \cup {NoEvent}], hd \in Places, tl \in Places,
           ct \in 0..QueueSize, dr \in Nat : Parts5(q, en, hd, tl, ct, dr)
  BY QueueParts, Zenon
<1>3. q.entries = en /\ q.head = hd /\ q.tail = tl /\ q.count = QueueSize /\ q.dropped = dr
      /\ ct = QueueSize
  BY <1>2, Zenon DEF Parts5
<1>4. PICK len \in Nat : len = Len(P)
  OBVIOUS
<1>5. \A k \in 0..QueueSize : (hd + k) % QueueSize = Wrap(hd + k) /\ Wrap(hd + k) \in Places
  BY WrapIs, Zenon
<1>6. /\ tl = Wrap(hd + QueueSize) /\ n + dr + QueueSize = len
      /\ \A k \in 0..(QueueSize - 1) : en[Wrap(hd + k)] = P[len - QueueSize + 1 + k]
  <2>1. QueueSize \in 0..QueueSize /\ \A k \in 0..(QueueSize - 1) : k \in 0..QueueSize
    BY <1>1
  <2> QED
    BY <1>3, <1>4, <1>5, <2>1, Zenon DEF Ring, Place
<1> DEFINE r == Drop(q)
           h == Wrap(hd + 1)
           f == [en EXCEPT ![hd] = NoEvent]
<1>7. (hd + 1) % QueueSize = h /\ h \in Places
  <2>1. 1 \in 0..QueueSize
    BY <1>1
  <2> QED
    BY <1>5, <2>1, Zenon
<1>8. f \in [Places -> Events \cup {NoEvent}] /\ QueueSize - 1 \in 0..QueueSize /\ dr + 1 \in Nat
      /\ QueueSize - 1 < QueueSize
  BY <1>1
<1>9. r = [q EXCEPT !.entries = f, !.head = h, !.count = QueueSize - 1, !.dropped = dr + 1]
  BY <1>3, <1>7, Zenon DEF Drop
<1> HIDE DEF r, h, f
<1>10. r \in Queues
  <2>1. \A c \in 0..QueueSize, d \in Nat :
          [q EXCEPT !.entries = f, !.head = h, !.count = c, !.dropped = d] \in Queues
    BY <1>7, <1>8, Zenon DEF Queues
  <2> QED
    BY <1>8, <1>9, <2>1, Zenon
<1>11. r.entries = f /\ r.head = h /\ r.tail = tl /\ r.count = QueueSize - 1 /\ r.dropped = dr + 1
  BY <1>3, <1>9, Zenon DEF Queues
<1>12. ASSUME NEW k \in 0..(QueueSize - 1)
       PROVE  Place(r, k) = Wrap(hd + (k + 1)) /\ Wrap(hd + (k + 1)) \in Places
  <2>1. k \in 0..QueueSize /\ k + 1 \in 0..QueueSize
    BY <1>1
  <2>2. (h + k) % QueueSize = Wrap(h + k)
    BY <1>7, <2>1, WrapIs, Zenon
  <2>3. Wrap(h + k) = Wrap(hd + (k + 1))
    BY WrapFacts DEF h
  <2> QED
    BY <1>5, <1>11, <2>1, <2>2, <2>3, Zenon DEF Place
<1>13. r.tail = Place(r, r.count)
  <2>1. QueueSize - 1 \in 0..(QueueSize - 1) /\ (QueueSize - 1) + 1 = QueueSize
    BY <1>1
  <2> QED
    BY <1>6, <1>11, <1>12, <2>1, Zenon
<1>14. n + r.dropped + r.count = Len(P)
  <2>1. n + (dr + 1) + (QueueSize - 1) = len
    BY <1>1, <1>6
  <2> QED
    BY <1>4, <1>11, <2>1, Zenon
<1>15. ASSUME NEW k \in 0..(r.count - 1)
       PROVE  r.entries[Place(r, k)] = P[Len(P) - r.count + 1 + k]
  <2>1. k \in 0..(QueueSize - 2)
    BY <1>1, <1>11
  <2>2. k \in 0..(QueueSize - 1) /\ k + 1 \in 0..(QueueSize - 1) /\ k + 1 \in 1..(QueueSize - 1)
        /\ len - (QueueSize - 1) + 1 + k = len - QueueSize + 1 + (k + 1)
    BY <1>1, <2>1
  <2>3. Wrap(hd + (k + 1)) # hd /\ Wrap(hd + (k + 1)) \in Places
    BY <1>12, <2>2, WrapFacts, Zenon
  <2>4. f[Wrap(hd + (k + 1))] = en[Wrap(hd + (k + 1))]
    BY <2>3, Zenon DEF f
  <2>5. en[Wrap(hd + (k + 1))] = P[len - QueueSize + 1 + (k + 1)]
    BY <1>6, <2>2, Zenon
  <2> QED
    BY <1>4, <1>11, <1>12, <2>2, <2>4, <2>5, Zenon
<1>16. ASSUME NEW j \in Places, \A k \in 0..(r.count - 1) : j # Place(r, k)
       PROVE  r.entries[j] = NoEvent
  <2>1. CASE j = hd
    BY <1>11, <2>1, Zenon DEF f
  <2>2. CASE j # hd
    <3>1. PICK k \in 0..(QueueSize - 2) : Wrap(hd + (k + 1)) = j
      BY <2>2, WrapFacts
    <3>2. k \in 0..(QueueSize - 1) /\ (QueueSize - 1) - 1 = QueueSize - 2
      BY <1>1
    <3>3. Place(r, k) = j /\ k \in 0..(r.count - 1)
      BY <1>11, <1>12, <3>1, <3>2, Zenon
    <3> QED
      BY <1>16, <3>3, Zenon
  <2> QED
    BY <2>1, <2>2, Zenon
<1>17. Ring(r, P, n)
  BY <1>13, <1>14, <1>15, <1>16, Zenon DEF Ring
<1> QED
  BY <1>8, <1>10, <1>11, <1>17, Zenon DEF r

\* A queue with room takes the event as its newest.
LEMMA FillKeeps ==
  ASSUME NEW q \in Queues, NEW P \in Seq(Events), NEW n \in Nat, NEW e \in Events,
         Ring(q, P, n), q.count < QueueSize
  PROVE  Fill(q, e) \in Queues /\ Ring(Fill(q, e), Append(P, e), n)
<1>1. QueueSize \in Nat \ {0} /\ Places = 0..(QueueSize - 1)
  BY QueueAssumption, Zenon DEF Places
<1>2. PICK en \in [Places -> Events \cup {NoEvent}], hd \in Places, tl \in Places,
           ct \in 0..QueueSize, dr \in Nat : Parts5(q, en, hd, tl, ct, dr)
  BY QueueParts, Zenon
<1>3. q.entries = en /\ q.head = hd /\ q.tail = tl /\ q.count = ct /\ q.dropped = dr
      /\ ct < QueueSize
  BY <1>2, Zenon DEF Parts5
<1>4. PICK len \in Nat : len = Len(P)
  OBVIOUS
<1>5. PICK R : R = Append(P, e)
  BY Zenon
<1>6. Len(R) = len + 1 /\ R[len + 1] = e /\ \A i \in 1..len : R[i] = P[i]
  BY <1>4, <1>5, AppendProperties
<1>7. \A k \in 0..QueueSize : (hd + k) % QueueSize = Wrap(hd + k) /\ Wrap(hd + k) \in Places
  BY WrapIs, Zenon
<1>8. ct \in 0..(QueueSize - 1) /\ ct + 1 \in 0..QueueSize /\ (ct + 1) - 1 = ct /\ ct \in Nat
  BY <1>1, <1>3
<1>9. /\ tl = Wrap(hd + ct) /\ n + dr + ct = len
      /\ \A k \in 0..(ct - 1) : en[Wrap(hd + k)] = P[len - ct + 1 + k]
      /\ \A j \in Places : (\A k \in 0..(ct - 1) : j # Wrap(hd + k)) => en[j] = NoEvent
  <2>1. \A k \in 0..(ct - 1) : k \in 0..QueueSize
    BY <1>1, <1>8
  <2> QED
    BY <1>3, <1>4, <1>7, <2>1, Zenon DEF Ring, Place
<1> DEFINE r == Fill(q, e)
           f == [en EXCEPT ![tl] = e]
           t == Wrap(tl + 1)
<1>10. (tl + 1) % QueueSize = t /\ t \in Places
  <2>1. 1 \in 0..QueueSize
    BY <1>1
  <2> QED
    BY <2>1, WrapIs, Zenon
<1>11. f \in [Places -> Events \cup {NoEvent}]
  BY Zenon
<1>12. r = [q EXCEPT !.entries = f, !.tail = t, !.count = ct + 1]
  BY <1>3, <1>10, Zenon DEF Fill
<1> HIDE DEF r, f, t
<1>13. r \in Queues
  <2>1. \A c \in 0..QueueSize : [q EXCEPT !.entries = f, !.tail = t, !.count = c] \in Queues
    BY <1>10, <1>11, Zenon DEF Queues
  <2> QED
    BY <1>8, <1>12, <2>1, Zenon
<1>14. r.entries = f /\ r.head = hd /\ r.tail = t /\ r.count = ct + 1 /\ r.dropped = dr
  BY <1>3, <1>12, Zenon DEF Queues
<1>15. \A k \in 0..QueueSize : Place(r, k) = Wrap(hd + k)
  BY <1>7, <1>14, Zenon DEF Place
<1>16. r.tail = Place(r, r.count)
  <2>1. Wrap(Wrap(hd + ct) + 1) = Wrap(hd + (ct + 1))
    BY <1>8, WrapFacts, Zenon
  <2> QED
    BY <1>8, <1>9, <1>14, <1>15, <2>1, Zenon DEF t
<1>17. n + r.dropped + r.count = Len(R)
  <2>1. n + dr + (ct + 1) = len + 1
    BY <1>8, <1>9
  <2> QED
    BY <1>6, <1>14, <2>1, Zenon
<1>18. ASSUME NEW k \in 0..(r.count - 1)
       PROVE  r.entries[Place(r, k)] = R[Len(R) - r.count + 1 + k]
  <2>1. k \in 0..ct /\ k \in 0..(QueueSize - 1) /\ k \in 0..QueueSize
    BY <1>1, <1>8, <1>14
  <2>2. Wrap(hd + k) \in Places /\ Place(r, k) = Wrap(hd + k)
    BY <1>7, <1>15, <2>1, Zenon
  <2>3. (len + 1) - (ct + 1) + 1 + k = len - ct + 1 + k
    BY <1>8, <2>1
  <2>4. CASE k = ct
    <3>1. f[tl] = e
      BY Zenon DEF f
    <3>2. len - ct + 1 + k = len + 1
      BY <1>8, <2>4
    <3> QED
      BY <1>6, <1>9, <1>14, <2>2, <2>3, <2>4, <3>1, <3>2, Zenon
  <2>5. CASE k # ct
    <3>1. k \in 0..(ct - 1) /\ len - ct + 1 + k \in 1..len
      <4>1. k \in 0..(ct - 1)
        BY <1>8, <2>1, <2>5
      <4>2. ct <= len
        BY <1>8, <1>9
      <4> QED
        BY <1>8, <4>1, <4>2
    <3>2. Wrap(hd + k) # tl
      BY <1>8, <1>9, <2>1, <2>5, WrapFacts
    <3>3. f[Wrap(hd + k)] = en[Wrap(hd + k)]
      BY <2>2, <3>2, Zenon DEF f
    <3>4. en[Wrap(hd + k)] = P[len - ct + 1 + k]
      BY <1>9, <3>1, Zenon
    <3> QED
      BY <1>6, <1>14, <2>2, <2>3, <3>1, <3>3, <3>4, Zenon
  <2> QED
    BY <2>4, <2>5, Zenon
<1>19. ASSUME NEW j \in Places, \A k \in 0..(r.count - 1) : j # Place(r, k)
       PROVE  r.entries[j] = NoEvent
  <2>1. \A k \in 0..ct : j # Wrap(hd + k)
    <3>1. \A k \in 0..ct : k \in 0..QueueSize
      BY <1>1, <1>8
    <3> QED
      BY <1>8, <1>14, <1>15, <1>19, <3>1, Zenon
  <2>2. ct \in 0..ct /\ \A k \in 0..(ct - 1) : k \in 0..ct
    BY <1>8
  <2>3. en[j] = NoEvent /\ j # tl
    BY <1>9, <2>1, <2>2, Zenon
  <2> QED
    BY <1>14, <2>3, Zenon DEF f
<1>20. Ring(r, R, n)
  BY <1>16, <1>17, <1>18, <1>19, Zenon DEF Ring
<1> QED
  BY <1>5, <1>13, <1>20, Zenon DEF r

\* queue_push keeps the newest events, the oldest first, and counts what it dropped.
LEMMA PushKeeps ==
  ASSUME NEW q \in Queues, NEW P \in Seq(Events), NEW n \in Nat, NEW e \in Events, Ring(q, P, n)
  PROVE  queue_push(q, e) \in Queues /\ Ring(queue_push(q, e), Append(P, e), n)
<1>1. QueueSize \in Nat /\ q.count \in 0..QueueSize
  BY QueueAssumption, Zenon DEF Queues
<1>2. CASE q.count >= QueueSize
  <2>1. q.count = QueueSize
    BY <1>1, <1>2
  <2>2. queue_push(q, e) = Fill(Drop(q), e)
    BY <1>2, Zenon DEF queue_push, Fill, Drop
  <2> QED
    BY <2>1, <2>2, DropKeeps, FillKeeps, Zenon
<1>3. CASE ~(q.count >= QueueSize)
  <2>1. q.count < QueueSize
    BY <1>1, <1>3
  <2>2. queue_push(q, e) = Fill(q, e)
    BY <1>3, Zenon DEF queue_push, Fill
  <2> QED
    BY <2>1, <2>2, FillKeeps, Zenon
<1> QED
  BY <1>2, <1>3, Zenon

\* danos_gnmi_subscribe_poll empties the ring.
LEMMA PollKeeps ==
  ASSUME NEW q \in Queues, NEW P \in Seq(Events), NEW n \in Nat, Ring(q, P, n)
  PROVE  Drained(q) \in Queues /\ Ring(Drained(q), P, n + q.count)
<1>1. QueueSize \in Nat \ {0} /\ Places = 0..(QueueSize - 1)
  BY QueueAssumption, Zenon DEF Places
<1>2. PICK en \in [Places -> Events \cup {NoEvent}], hd \in Places, tl \in Places,
           ct \in 0..QueueSize, dr \in Nat : Parts5(q, en, hd, tl, ct, dr)
  BY QueueParts, Zenon
<1>3. q.entries = en /\ q.head = hd /\ q.tail = tl /\ q.count = ct /\ q.dropped = dr
      /\ tl = (hd + ct) % QueueSize /\ n + dr + ct = Len(P) /\ DOMAIN en = Places
  BY <1>2, Zenon DEF Parts5, Ring, Place
<1> DEFINE r == Drained(q)
           f == [j \in Places |-> NoEvent]
<1>4. f \in [Places -> Events \cup {NoEvent}] /\ 0 \in 0..QueueSize
  BY <1>1
<1>5. r = [q EXCEPT !.entries = f, !.head = tl, !.count = 0]
  BY <1>3, Zenon DEF Drained
<1> HIDE DEF r, f
<1>6. r \in Queues
  <2>1. \A c \in 0..QueueSize : [q EXCEPT !.entries = f, !.head = tl, !.count = c] \in Queues
    BY <1>4, Zenon DEF Queues
  <2> QED
    BY <1>4, <1>5, <2>1, Zenon
<1>7. r.entries = f /\ r.head = tl /\ r.tail = tl /\ r.count = 0 /\ r.dropped = dr
  BY <1>3, <1>5, Zenon DEF Queues
<1>8. r.tail = Place(r, r.count)
  <2>1. (tl + 0) % QueueSize = Wrap(tl + 0)
    BY <1>4, WrapIs, Zenon
  <2>2. Wrap(tl + 0) = tl
    BY <1>1 DEF Wrap
  <2> QED
    BY <1>7, <2>1, <2>2, Zenon DEF Place
<1>9. (n + ct) + dr + 0 = Len(P)
  <2>1. ct \in Nat
    BY <1>1
  <2> QED
    BY <1>3, <2>1
<1>10. 0..(r.count - 1) = {}
  BY <1>7
<1>11. Ring(r, P, n + ct)
  BY <1>7, <1>8, <1>9, <1>10, Zenon DEF Ring, f
<1> QED
  BY <1>3, <1>6, <1>11, Zenon DEF r

-----------------------------------------------------------------------------
(* The steps of writers and subscribers. *)

\* No subscriber and no event at first.
LEMMA InitNotify == NotifyInit => NTypes /\ BusOK /\ PushedOnce /\ AllPushed /\ RingsOK
<1> SUFFICES ASSUME NotifyInit PROVE NTypes /\ BusOK /\ PushedOnce /\ AllPushed /\ RingsOK
  BY Zenon
<1>1. /\ published = 0 /\ nextSub = 1 /\ bus = << >> /\ linked = {} /\ freed = {} /\ touched = {}
      /\ restSub = 0 /\ queue = << >> /\ pushed = << >> /\ polled = << >> /\ since = << >>
      /\ wpc = [w \in EventWriters |-> "idle"] /\ event = [w \in EventWriters |-> NoEvent]
      /\ walk = [w \in EventWriters |-> << >>]
  BY Zenon DEF NotifyInit
<1>2. \A S : << >> \in Seq(S) /\ << >> \in [1..0 -> S] /\ Len(<< >>) = 0
  <2>1. \A S : << >> \in Seq(S) /\ Len(<< >>) = 0
    OBVIOUS
  <2>2. \A S : << >> \in [1..0 -> S]
    BY <2>1, LenProperties, Zenon
  <2> QED
    BY <2>1, <2>2, Zenon
<1>3. Ids = 1..0 /\ DOMAIN queue = 1..0 /\ 1..0 = {}
  BY <1>1 DEF Ids
<1>4. NTypes
  <2>1. queue \in [DOMAIN queue -> Queues] /\ pushed \in [DOMAIN queue -> Seq(Events)]
        /\ polled \in [DOMAIN queue -> Nat] /\ since \in [Ids -> Nat]
    BY <1>1, <1>2, <1>3, Zenon
  <2>2. walk \in [EventWriters -> Seq(Subs)] /\ bus \in Seq(Subs)
    BY <1>1, <1>2, Zenon
  <2> QED
    BY <1>1, <1>3, <2>1, <2>2 DEF NTypes
<1>5. 1..Len(bus) = {}
  BY <1>1, <1>2
<1>6. BusOK /\ AllPushed
  BY <1>1, <1>5, Zenon DEF BusOK, AllPushed, Distinct
<1>7. PushedOnce /\ RingsOK
  BY <1>1, <1>3, Zenon DEF PushedOnce, RingsOK, Visits
<1> QED
  BY <1>4, <1>6, <1>7, Zenon

\* One step of a walk: the subscriber at its head is passed over, or given the event.
VisitStep(w) ==
  \E s \in Subs, e \in Events :
    /\ wpc[w] = "walk" /\ walk[w] # << >> /\ s = walk[w][1] /\ e = event[w]
    /\ walk' = [walk EXCEPT ![w] = Tail(walk[w])]
    /\ UNCHANGED <<published, wpc, event, subscribers, polled, touched>>
    /\ \/ (IsGrpc(s) \/ ~Passes(s, e)) /\ UNCHANGED <<queue, pushed>>
       \/ /\ ~IsGrpc(s) /\ Passes(s, e) /\ s.id \in DOMAIN queue
          /\ queue' = [queue EXCEPT ![s.id] = queue_push(queue[s.id], e)]
          /\ pushed' = [pushed EXCEPT ![s.id] = Append(pushed[s.id], e)]

\* danos_event_publish, one subscriber on: the walk gives the event or passes over.
LEMMA VisitIs ==
  ASSUME NTypes, BusOK, NEW w \in EventWriters, PublishStep(w)
  PROVE  VisitStep(w)
<1>1. /\ walk[w] \in Seq(Subs) /\ walk[w] # << >> /\ wpc[w] = "walk" /\ event[w] \in Events
      /\ pushed \in [DOMAIN queue -> Seq(Events)] /\ queue \in [DOMAIN queue -> Queues]
  BY Zenon DEF NTypes, PublishStep
<1>2. PICK s \in Subs : s = walk[w][1] /\ s = Head(walk[w]) /\ 1 \in 1..Len(walk[w])
  BY <1>1, TailFacts
<1>3. PICK e \in Events : e = event[w]
  BY <1>1, Zenon
<1>4. OnBus(s) /\ touched = {}
  BY <1>1, <1>2, Zenon DEF BusOK
<1>5. s.id \notin freed /\ (~IsGrpc(s) => s.id \in DOMAIN queue)
  BY <1>4, Zenon DEF OnBus, BusOK
<1>6. /\ walk' = [walk EXCEPT ![w] = Tail(walk[w])]
      /\ UNCHANGED <<published, wpc, event, subscribers, polled>>
      /\ IF Wanted(s.mask, e.kind) THEN Callback(s, e) ELSE UNCHANGED <<queue, storeEpoch, touched, pushed>>
  BY <1>2, <1>3, Zenon DEF PublishStep, Onward
<1>7. CASE ~Wanted(s.mask, e.kind)
  <2>1. ~Passes(s, e) /\ UNCHANGED <<queue, pushed, touched>>
    BY <1>6, <1>7, Zenon DEF Passes
  <2> QED
    BY <1>1, <1>2, <1>3, <1>6, <2>1, Zenon DEF VisitStep
<1>8. CASE Wanted(s.mask, e.kind) /\ IsGrpc(s)
  <2>1. UNCHANGED <<queue, pushed, touched>>
    BY <1>6, <1>8, Zenon DEF Callback
  <2> QED
    BY <1>1, <1>2, <1>3, <1>6, <1>8, <2>1, Zenon DEF VisitStep
<1>9. CASE Wanted(s.mask, e.kind) /\ ~IsGrpc(s)
  <2>1. touched' = touched
    BY <1>5, <1>6, <1>9, Zenon DEF Callback
  <2>2. CASE s.type \in {AnyType, e.type}
    <3>1. Passes(s, e) /\ s.id \in DOMAIN queue
      BY <1>5, <1>9, <2>2, Zenon DEF Passes
    <3>2. queue' = [queue EXCEPT ![s.id] = queue_push(queue[s.id], e)]
          /\ pushed' = [pushed EXCEPT ![s.id] = Append(pushed[s.id], e)]
      BY <1>5, <1>6, <1>9, <2>2, Zenon DEF Callback
    <3> QED
      BY <1>1, <1>2, <1>3, <1>6, <1>9, <2>1, <3>1, <3>2, Zenon DEF VisitStep
  <2>3. CASE s.type \notin {AnyType, e.type}
    <3>1. ~Passes(s, e) /\ UNCHANGED <<queue, pushed>>
      BY <1>6, <1>9, <2>3, Zenon DEF Passes, Callback
    <3> QED
      BY <1>1, <1>2, <1>3, <1>6, <2>1, <3>1, Zenon DEF VisitStep
  <2> QED
    BY <2>2, <2>3, Zenon
<1> QED
  BY <1>7, <1>8, <1>9, Zenon

\* A subscriber comes on the bus.
AddStep(s) ==
  /\ NoWalker /\ s \in Subs /\ s.id = nextSub /\ bus' = <<s>> \o bus /\ nextSub' = nextSub + 1
  /\ since' = With(since, nextSub, published) /\ restSub' \in {restSub, nextSub}
  /\ UNCHANGED <<published, wpc, event, walk, linked, freed, touched>>
  /\ \/ IsGrpc(s) /\ UNCHANGED <<queue, pushed, polled>>
     \/ /\ ~IsGrpc(s) /\ queue' = With(queue, nextSub, EmptyQueue)
        /\ pushed' = With(pushed, nextSub, << >>) /\ polled' = With(polled, nextSub, 0)

\* Both ways to subscribe put a new subscriber with an empty queue on the bus.
LEMMA AddIs ==
  ASSUME NTypes, GrpcSubscribe \/ Subscribe
  PROVE  \E s \in Subs : AddStep(s)
<1>1. nextSub \in Nat
  BY Zenon DEF NTypes
<1>2. CASE GrpcSubscribe
  <2>1. GrpcSub(nextSub) \in Subs /\ GrpcSub(nextSub).id = nextSub /\ IsGrpc(GrpcSub(nextSub))
    BY <1>1, Zenon DEF GrpcSub, GrpcMask, Subs, SubTypes, IsGrpc
  <2>2. AddStep(GrpcSub(nextSub))
    BY <1>2, <2>1, Zenon DEF GrpcSubscribe, AddStep, writers, queues
  <2> QED
    BY <2>1, <2>2, Zenon
<1>3. CASE Subscribe
  <2>1. PICK wish \in SubWishes :
          bus' = <<[id |-> nextSub, mask |-> wish[1], type |-> wish[2]]>> \o bus
    BY <1>3, Zenon DEF Subscribe
  <2> DEFINE s == [id |-> nextSub, mask |-> wish[1], type |-> wish[2]]
  <2>2. s \in Subs /\ s.id = nextSub /\ ~IsGrpc(s)
    BY <1>1, WishesAssumption, Zenon DEF Subs, SubTypes, IsGrpc
  <2>3. bus' = <<s>> \o bus
    BY <2>1, Zenon
  <2> HIDE DEF s
  <2>4. AddStep(s)
    BY <1>3, <2>2, <2>3, Zenon DEF Subscribe, AddStep, writers
  <2> QED
    BY <2>2, <2>4, Zenon
<1> QED
  BY <1>2, <1>3, Zenon

\* danos_event_subscribe puts the new subscriber at the head of the list.
LEMMA Prepended ==
  ASSUME NEW S, NEW x \in S, NEW q \in Seq(S)
  PROVE  /\ <<x>> \o q \in Seq(S) /\ Len(<<x>> \o q) = Len(q) + 1 /\ (<<x>> \o q)[1] = x
         /\ \A i \in 1..(Len(q) + 1) : i = 1 \/ (i - 1 \in 1..Len(q) /\ (<<x>> \o q)[i] = q[i - 1])
<1>1. <<x>> \in Seq(S) /\ Len(<<x>>) = 1 /\ <<x>>[1] = x
  OBVIOUS
<1>2. /\ <<x>> \o q \in Seq(S) /\ Len(<<x>> \o q) = 1 + Len(q)
      /\ \A i \in 1..(1 + Len(q)) : (<<x>> \o q)[i] = IF i <= 1 THEN <<x>>[i] ELSE q[i - 1]
  BY <1>1, ConcatProperties, Zenon
<1>3. PICK n \in Nat : n = Len(q)
  OBVIOUS
<1>4. 1 + n = n + 1 /\ 1 \in 1..(n + 1) /\ \A i \in 1..(n + 1) : i = 1 \/ (~(i <= 1) /\ i - 1 \in 1..n)
  OBVIOUS
<1> QED
  BY <1>1, <1>2, <1>3, <1>4

\* Unlink keeps the other entries, once each, and drops the one with the id.
LEMMA UnlinkFacts ==
  ASSUME NEW q \in Seq(Subs), NEW id
  PROVE  /\ Unlink(q, id) \in Seq(Subs)
         /\ \A j \in 1..Len(Unlink(q, id)) : \E k \in 1..Len(q) : Unlink(q, id)[j] = q[k]
         /\ Distinct(q) => /\ Distinct(Unlink(q, id))
                           /\ \A j \in 1..Len(Unlink(q, id)) : Unlink(q, id)[j].id # id
<1>1. DOMAIN q = 1..Len(q)
  OBVIOUS
<1>2. PICK n \in Nat : n = Len(q)
  OBVIOUS
<1>3. CASE \A k \in 1..n : q[k].id # id
  BY <1>1, <1>2, <1>3, Zenon DEF Unlink
<1>4. CASE ~(\A k \in 1..n : q[k].id # id)
  <2> DEFINE First(k) == q[k].id = id /\ \A j \in 1..(k - 1) : q[j].id # id
  <2>1. \E k \in 1..n : First(k)
    <3> DEFINE T == {k \in 1..n : q[k].id = id}
    <3>1. T \in SUBSET Nat /\ T # {}
      BY <1>4
    <3>2. PICK k \in T : \A y \in T : k <= y
      BY <3>1, LeastElement, Zenon
    <3>3. k \in 1..n /\ q[k].id = id
      BY Zenon
    <3>4. \A j \in 1..(k - 1) : j \in 1..n /\ ~(k <= j)
      BY <3>3
    <3>5. \A j \in 1..(k - 1) : q[j].id # id
      <4>1. \A j \in 1..n : q[j].id = id => k <= j
        BY <3>2, Zenon
      <4> QED
        BY <3>4, <4>1, Zenon
    <3> QED
      BY <3>3, <3>5, Zenon
  <2>2. PICK at : at = CHOOSE k \in 1..n : First(k)
    BY Zenon
  <2>3. at \in 1..n /\ First(at)
    BY <2>1, <2>2, Zenon
  <2>4. PICK r : r = [j \in 1..(n - 1) |-> IF j < at THEN q[j] ELSE q[j + 1]]
    BY Zenon
  <2>5. Unlink(q, id) = r
    BY <1>1, <1>2, <1>4, <2>2, <2>4, Zenon DEF Unlink
  <2>6. n - 1 \in Nat /\ \A j \in 1..(n - 1) : j \in 1..n /\ j + 1 \in 1..n
    BY <2>3
  <2>7. r \in [1..(n - 1) -> Subs]
    BY <1>2, <2>4, <2>6
  <2>8. r \in Seq(Subs) /\ Len(r) = n - 1
    BY <2>6, <2>7, SeqDef, LenProperties
  <2> DEFINE From(j) == IF j < at THEN j ELSE j + 1
  <2>9. /\ \A j \in 1..(n - 1) : From(j) \in 1..n /\ From(j) # at /\ r[j] = q[From(j)]
        /\ \A j, k \in 1..(n - 1) : From(j) = From(k) => j = k
    <3>1. \A j \in 1..(n - 1) : From(j) \in 1..n /\ From(j) # at
      BY <2>3, <2>6
    <3>2. \A j \in 1..(n - 1) : r[j] = q[From(j)]
      BY <2>4, Zenon
    <3>3. \A j, k \in 1..(n - 1) : From(j) = From(k) => j = k
      BY <2>3
    <3> QED
      BY <3>1, <3>2, <3>3, Zenon
  <2> HIDE DEF From
  <2>10. \A j \in 1..(n - 1) : \E k \in 1..n : r[j] = q[k]
    BY <2>9, Zenon
  <2>11. ASSUME Distinct(q)
         PROVE  Distinct(r) /\ \A j \in 1..(n - 1) : r[j].id # id
    <3>1. \A j, k \in 1..n : q[j].id = q[k].id => j = k
      BY <1>2, <2>11, Zenon DEF Distinct
    <3>2. ASSUME NEW j \in 1..(n - 1), NEW k \in 1..(n - 1), r[j].id = r[k].id
          PROVE  j = k
      <4>1. r[j] = q[From(j)] /\ r[k] = q[From(k)] /\ From(j) \in 1..n /\ From(k) \in 1..n
        BY <2>9, Zenon
      <4>2. From(j) = From(k)
        BY <3>1, <3>2, <4>1, Zenon
      <4> QED
        BY <2>9, <4>2, Zenon
    <3>3. \A j \in 1..(n - 1) : r[j].id # id
      BY <2>3, <2>9, <3>1, Zenon
    <3> QED
      BY <2>8, <3>2, <3>3, Zenon DEF Distinct
  <2> QED
    BY <1>2, <2>5, <2>8, <2>10, <2>11, Zenon
<1> QED
  BY <1>2, <1>3, <1>4, Zenon

\* A new subscription's entry leaves the other entries alone.
LEMMA WithFacts ==
  ASSUME NEW D, NEW T, NEW f \in [D -> T], NEW i, i \notin D, NEW v \in T
  PROVE  /\ With(f, i, v) \in [D \cup {i} -> T] /\ DOMAIN With(f, i, v) = D \cup {i}
         /\ With(f, i, v)[i] = v /\ \A j \in D : With(f, i, v)[j] = f[j]
BY Zenon DEF With

\* A new queue is the ring of nothing pushed.
LEMMA EmptyRing ==
  /\ EmptyQueue \in Queues /\ << >> \in Seq(Events) /\ Len(<< >>) = 0
  /\ Ring(EmptyQueue, << >>, 0)
<1>1. QueueSize \in Nat \ {0} /\ 0 \in Places /\ 0 \in 0..QueueSize
  BY QueueAssumption DEF Places
<1>2. [i \in 0..(QueueSize - 1) |-> NoEvent] \in [Places -> Events \cup {NoEvent}]
  BY Zenon DEF Places
<1>3. EmptyQueue \in Queues
  BY <1>1, <1>2, Zenon DEF EmptyQueue, Queues
<1>4. EmptyQueue.tail = 0 /\ EmptyQueue.head = 0 /\ EmptyQueue.count = 0 /\ EmptyQueue.dropped = 0
      /\ EmptyQueue.entries = [i \in 0..(QueueSize - 1) |-> NoEvent]
  BY Zenon DEF EmptyQueue
<1>5. Place(EmptyQueue, 0) = 0
  <2>1. (0 + 0) % QueueSize = Wrap(0 + 0) /\ Wrap(0 + 0) = 0
    BY <1>1, WrapIs DEF Wrap
  <2> QED
    BY <1>4, <2>1, Zenon DEF Place
<1>6. << >> \in Seq(Events) /\ Len(<< >>) = 0 /\ 0..(0 - 1) = {}
  OBVIOUS
<1>7. Ring(EmptyQueue, << >>, 0)
  BY <1>4, <1>5, <1>6 DEF Ring, Places
<1> QED
  BY <1>3, <1>6, <1>7, Zenon

\* A subscription gets an id that none had, and the types stay.
LEMMA AddTypes ==
  ASSUME NTypes, NEW s \in Subs, AddStep(s)
  PROVE  /\ NTypes' /\ nextSub \notin Ids /\ Ids' = Ids \cup {nextSub}
         /\ since'[nextSub] = published /\ \A i \in Ids : since'[i] = since[i]
<1>1. /\ nextSub \in Nat \ {0} /\ bus \in Seq(Subs) /\ published \in Nat
      /\ DOMAIN queue \subseteq Ids /\ queue \in [DOMAIN queue -> Queues]
      /\ pushed \in [DOMAIN queue -> Seq(Events)] /\ polled \in [DOMAIN queue -> Nat]
      /\ since \in [Ids -> Nat] /\ restSub \in 0..(nextSub - 1)
      /\ linked \subseteq DOMAIN queue /\ freed \subseteq Ids
  BY Zenon DEF NTypes
<1>2. /\ nextSub' = nextSub + 1 /\ bus' = <<s>> \o bus /\ since' = With(since, nextSub, published)
      /\ restSub' \in {restSub, nextSub}
      /\ UNCHANGED <<published, wpc, event, walk, linked, freed>>
  BY Zenon DEF AddStep
<1>3. nextSub \notin Ids /\ Ids' = Ids \cup {nextSub}
  BY <1>1, <1>2 DEF Ids
<1>4. nextSub' \in Nat \ {0} /\ bus' \in Seq(Subs) /\ restSub' \in 0..(nextSub' - 1)
  <2>1. bus' \in Seq(Subs)
    BY <1>1, <1>2, Prepended, Zenon
  <2> QED
    BY <1>1, <1>2, <2>1
<1>5. since' \in [Ids' -> Nat] /\ since'[nextSub] = published /\ \A i \in Ids : since'[i] = since[i]
  <2>1. /\ With(since, nextSub, published) \in [Ids \cup {nextSub} -> Nat]
        /\ With(since, nextSub, published)[nextSub] = published
        /\ \A i \in Ids : With(since, nextSub, published)[i] = since[i]
    <3>1. since \in [Ids -> Nat] /\ nextSub \notin Ids /\ published \in Nat
      BY <1>1, <1>3, Zenon
    <3> QED
      BY <3>1, Zenon DEF With
  <2> QED
    BY <1>2, <1>3, <2>1, Zenon
<1>6. /\ DOMAIN queue' \subseteq Ids' /\ queue' \in [DOMAIN queue' -> Queues]
      /\ pushed' \in [DOMAIN queue' -> Seq(Events)] /\ polled' \in [DOMAIN queue' -> Nat]
      /\ linked' \subseteq DOMAIN queue'
  <2>1. CASE UNCHANGED <<queue, pushed, polled>>
    BY <1>1, <1>2, <1>3, <2>1, Zenon
  <2>2. CASE /\ queue' = With(queue, nextSub, EmptyQueue) /\ pushed' = With(pushed, nextSub, << >>)
             /\ polled' = With(polled, nextSub, 0)
    <3>1. nextSub \notin DOMAIN queue
      BY <1>1, <1>3, Zenon
    <3>2. queue' \in [DOMAIN queue \cup {nextSub} -> Queues] /\ DOMAIN queue' = DOMAIN queue \cup {nextSub}
      <4>1. With(queue, nextSub, EmptyQueue) \in [DOMAIN queue \cup {nextSub} -> Queues]
        BY <1>1, <3>1, WithFacts, EmptyRing, Zenon
      <4> QED
        BY <2>2, <4>1, Zenon
    <3>3. pushed' \in [DOMAIN queue \cup {nextSub} -> Seq(Events)]
      BY <1>1, <2>2, <3>1, WithFacts, EmptyRing, Zenon
    <3>4. polled' \in [DOMAIN queue \cup {nextSub} -> Nat]
      BY <1>1, <2>2, <3>1, WithFacts, Zenon
    <3> QED
      BY <1>1, <1>2, <1>3, <3>2, <3>3, <3>4, Zenon
  <2> QED
    BY <2>1, <2>2, Zenon DEF AddStep
<1>7. freed' \subseteq Ids'
  BY <1>1, <1>2, <1>3, Zenon
<1> QED
  BY <1>2, <1>3, <1>4, <1>5, <1>6, <1>7, Zenon DEF NTypes

\* A push keeps the types and every ring.
LEMMA VisitTypes ==
  ASSUME NTypes, RingsOK, NEW w \in EventWriters, VisitStep(w)
  PROVE  /\ NTypes' /\ RingsOK' /\ DOMAIN queue' = DOMAIN queue
<1>1. /\ queue \in [DOMAIN queue -> Queues] /\ pushed \in [DOMAIN queue -> Seq(Events)]
      /\ polled \in [DOMAIN queue -> Nat] /\ walk \in [EventWriters -> Seq(Subs)]
  BY Zenon DEF NTypes
<1>2. PICK s \in Subs, e \in Events :
    /\ wpc[w] = "walk" /\ walk[w] # << >> /\ s = walk[w][1] /\ e = event[w]
    /\ walk' = [walk EXCEPT ![w] = Tail(walk[w])]
    /\ UNCHANGED <<published, wpc, event, subscribers, polled, touched>>
    /\ \/ UNCHANGED <<queue, pushed>>
       \/ /\ s.id \in DOMAIN queue
          /\ queue' = [queue EXCEPT ![s.id] = queue_push(queue[s.id], e)]
          /\ pushed' = [pushed EXCEPT ![s.id] = Append(pushed[s.id], e)]
  BY Zenon DEF VisitStep
<1>3. walk' \in [EventWriters -> Seq(Subs)]
  <2>1. walk[w] \in Seq(Subs) /\ Tail(walk[w]) \in Seq(Subs)
    BY <1>1, <1>2, TailFacts, Zenon
  <2> QED
    BY <1>1, <1>2, <2>1, Zenon
<1>4. /\ queue' \in [DOMAIN queue -> Queues] /\ DOMAIN queue' = DOMAIN queue
      /\ pushed' \in [DOMAIN queue -> Seq(Events)] /\ RingsOK'
  <2>1. CASE UNCHANGED <<queue, pushed>>
    BY <1>1, <1>2, <2>1, Zenon DEF RingsOK
  <2>2. CASE /\ s.id \in DOMAIN queue
             /\ queue' = [queue EXCEPT ![s.id] = queue_push(queue[s.id], e)]
             /\ pushed' = [pushed EXCEPT ![s.id] = Append(pushed[s.id], e)]
    <3>1. PICK i \in DOMAIN queue : i = s.id
      BY <2>2, Zenon
    <3>2. queue[i] \in Queues /\ pushed[i] \in Seq(Events) /\ polled[i] \in Nat
          /\ Ring(queue[i], pushed[i], polled[i])
      BY <1>1, Zenon DEF RingsOK
    <3>3. queue_push(queue[i], e) \in Queues
          /\ Ring(queue_push(queue[i], e), Append(pushed[i], e), polled[i])
      BY <3>2, PushKeeps, Zenon
    <3>4. Append(pushed[i], e) \in Seq(Events)
      BY <3>2, AppendProperties, Zenon
    <3>5. queue' \in [DOMAIN queue -> Queues] /\ pushed' \in [DOMAIN queue -> Seq(Events)]
      BY <1>1, <2>2, <3>1, <3>3, <3>4, Zenon
    <3>6. polled' = polled
      BY <1>2, Zenon
    <3>7. ASSUME NEW j \in DOMAIN queue
          PROVE  Ring(queue'[j], pushed'[j], polled'[j])
      <4>1. CASE j = i
        BY <1>1, <2>2, <3>1, <3>3, <3>6, <4>1, Zenon
      <4>2. CASE j # i
        BY <1>1, <2>2, <3>1, <3>6, <4>2, Zenon DEF RingsOK
      <4> QED
        BY <4>1, <4>2, Zenon
    <3> QED
      BY <3>5, <3>7, Zenon DEF RingsOK
  <2> QED
    BY <1>2, <2>1, <2>2, Zenon
<1>5. UNCHANGED <<published, nextSub, wpc, event, bus, polled, since, restSub, linked, freed>>
  BY <1>2, Zenon DEF subscribers
<1> QED
  BY <1>3, <1>4, <1>5, Zenon DEF NTypes, Ids

NInv == NTypes /\ BusOK /\ PushedOnce /\ AllPushed /\ RingsOK

\* The bus stays as it should be while it is left alone and nobody starts a walk.
LEMMA BusSame ==
  ASSUME BusOK, UNCHANGED <<touched, bus, freed, nextSub>>, DOMAIN queue' = DOMAIN queue,
         \A w \in EventWriters : wpc'[w] = "walk" => wpc[w] = "walk" /\ walk'[w] = walk[w]
  PROVE  BusOK'
<1>1. Ids' = Ids
  BY Zenon DEF Ids
<1>2. /\ touched' = {} /\ Distinct(bus')
      /\ \A k \in 1..Len(bus') : /\ bus'[k].id \in Ids' /\ bus'[k].id \notin freed'
                                 /\ ~IsGrpc(bus'[k]) => bus'[k].id \in DOMAIN queue'
  BY <1>1, Zenon DEF BusOK
<1>3. ASSUME NEW w \in EventWriters, wpc'[w] = "walk"
      PROVE  Distinct(walk'[w]) /\ \A j \in 1..Len(walk'[w]) : OnBus(walk[w][j])
  BY <1>3, Zenon DEF BusOK
<1>4. ASSUME NEW w \in EventWriters, wpc'[w] = "walk", NEW j \in 1..Len(walk'[w])
      PROVE  \E k \in 1..Len(bus') : bus'[k] = walk'[w][j]
  <2>1. OnBus(walk[w][j]) /\ walk'[w] = walk[w]
    BY <1>3, <1>4, Zenon
  <2> QED
    BY <2>1, Zenon DEF OnBus
<1> QED
  BY <1>2, <1>3, <1>4, Zenon DEF BusOK, OnBus

\* Who has yet to come by is a matter of the writers alone.
LEMMA ComesSame ==
  ASSUME UNCHANGED <<wpc, event, walk>>
  PROVE  /\ \A w \in EventWriters : \A i : Visits(w, i)' <=> Visits(w, i)
         /\ \A x, i : Comes(x, i)' <=> Comes(x, i)
<1>1. \A w \in EventWriters : \A i : Visits(w, i)' <=> Visits(w, i)
  BY Zenon DEF Visits
<1> QED
  BY <1>1, Zenon DEF Comes

\* A change of the store: its number is new.
LEMMA MutateKeeps ==
  ASSUME NInv, NEW w \in EventWriters, Mutate(w)
  PROVE  NInv'
<1>1. /\ published \in Nat /\ wpc \in [EventWriters -> {"idle", "publish", "walk"}]
      /\ event \in [EventWriters -> Events \cup {NoEvent}] /\ since \in [Ids -> Nat]
      /\ pushed \in [DOMAIN queue -> Seq(Events)] /\ wpc[w] = "idle"
      /\ \A v \in EventWriters : wpc[v] # "idle" => event[v] \in Events /\ event[v].nr \in 1..published
  BY Zenon DEF NInv, NTypes, Mutate
<1>2. PICK e \in Events : e.nr = published + 1 /\ event' = [event EXCEPT ![w] = e]
  <2>1. PICK t \in ObjTypes, k \in {Created, Updated, Deleted} :
          event' = [event EXCEPT ![w] = [kind |-> k, type |-> t, nr |-> published + 1]]
    BY Zenon DEF Mutate
  <2>2. [kind |-> k, type |-> t, nr |-> published + 1] \in Events
    BY <1>1 DEF Events
  <2> QED
    BY <2>1, <2>2, Zenon
<1>3. /\ published' = published + 1 /\ wpc' = [wpc EXCEPT ![w] = "publish"]
      /\ UNCHANGED <<walk, bus, nextSub, linked, restSub, queue, freed, touched, pushed, polled, since>>
  BY Zenon DEF Mutate, subscribers, queues
<1>4. \A v \in EventWriters \ {w} : wpc'[v] = wpc[v] /\ event'[v] = event[v]
  BY <1>1, <1>2, <1>3, Zenon
<1>5. wpc'[w] = "publish" /\ event'[w] = e
  BY <1>1, <1>2, <1>3, Zenon
<1>6. \A x \in 1..published : x \in 1..(published + 1) /\ x # published + 1 /\ x <= published + 1
  BY <1>1
<1>7. published + 1 \in 1..(published + 1) /\ published + 1 \in Nat
  BY <1>1
<1>8. NTypes'
  <2>1. wpc' \in [EventWriters -> {"idle", "publish", "walk"}] /\ event' \in [EventWriters -> Events \cup {NoEvent}]
    BY <1>1, <1>2, <1>3, Zenon
  <2>2. \A v \in EventWriters : wpc'[v] # "idle" => event'[v] \in Events /\ event'[v].nr \in 1..published'
    BY <1>1, <1>2, <1>3, <1>4, <1>5, <1>6, <1>7, Zenon
  <2> QED
    BY <1>3, <1>7, <2>1, <2>2, Zenon DEF NInv, NTypes, Ids
<1>9. BusOK'
  BY <1>3, <1>4, <1>5, BusSame, Zenon DEF NInv
<1>10. \A i \in DOMAIN queue : \A j \in 1..Len(pushed[i]) : pushed[i][j].nr \in Nat /\ pushed[i][j].nr <= published
  <2>1. \A i \in DOMAIN queue : \A j \in 1..Len(pushed[i]) : pushed[i][j] \in Events
    BY <1>1
  <2> QED
    BY <2>1, Zenon DEF NInv, PushedOnce, Events
<1>11. \A i \in DOMAIN queue : ~Has(pushed[i], published + 1)
  BY <1>1, <1>10 DEF Has
<1>12. \A v \in EventWriters \ {w} : \A i : Visits(v, i)' <=> Visits(v, i)
  BY <1>3, <1>4, Zenon DEF Visits
<1>13. \A i : ~Visits(w, i)' /\ ~Visits(w, i)
  BY <1>1, <1>5, Zenon DEF Visits
<1>14. PushedOnce'
  <2>1. \A i \in DOMAIN queue' : OnceEach(pushed'[i]) /\ \A j \in 1..Len(pushed'[i]) : pushed'[i][j].nr <= published'
    <3>1. \A x \in Nat : x <= published => x <= published + 1
      BY <1>1
    <3> QED
      BY <1>3, <1>10, <3>1, Zenon DEF NInv, PushedOnce
  <2>2. \A u, v \in EventWriters :
          u # v /\ wpc'[u] # "idle" /\ wpc'[v] # "idle" => event'[u].nr # event'[v].nr
    BY <1>1, <1>2, <1>4, <1>5, <1>6, Zenon DEF NInv, PushedOnce
  <2>3. \A v \in EventWriters : \A i \in DOMAIN queue' :
          wpc'[v] = "publish" \/ Visits(v, i)' => ~Has(pushed'[i], event'[v].nr)
    <3>1. \A i \in DOMAIN queue' : ~Has(pushed'[i], event'[w].nr)
      BY <1>2, <1>3, <1>5, <1>11, Zenon
    <3> QED
      BY <1>3, <1>4, <1>12, <3>1, Zenon DEF NInv, PushedOnce
  <2> QED
    BY <2>1, <2>2, <2>3, Zenon DEF PushedOnce
<1>15. \A x, i : Comes(x, i) => Comes(x, i)'
  BY <1>1, <1>4, <1>12, <1>13, Zenon DEF Comes
<1>16. \A x, i : x = published + 1 => Comes(x, i)'
  BY <1>2, <1>5, Zenon DEF Comes
<1>17. AllPushed'
  <2> SUFFICES ASSUME NEW k \in 1..Len(bus), ~IsGrpc(bus[k])
               PROVE  LET i == bus[k].id
                      IN /\ \A j \in 1..Len(pushed[i]) : Passes(bus[k], pushed[i][j])
                         /\ WantsAll(bus[k]) =>
                              \A x \in (since[i] + 1)..(published + 1) : Has(pushed[i], x) \/ Comes(x, bus[k].id)'
    BY <1>3, Zenon DEF AllPushed
  <2>1. PICK i : i = bus[k].id /\ i = bus'[k].id
    BY <1>3, Zenon
  <2>2. /\ \A j \in 1..Len(pushed[i]) : Passes(bus[k], pushed[i][j])
        /\ WantsAll(bus[k]) => \A x \in (since[i] + 1)..published : Has(pushed[i], x) \/ Comes(x, i)
    BY <2>1, Zenon DEF NInv, AllPushed
  <2>3. since[i] \in Nat
    BY <1>1, <2>1, Zenon DEF NInv, BusOK
  <2>4. \A x \in (since[i] + 1)..(published + 1) : x = published + 1 \/ x \in (since[i] + 1)..published
    BY <1>1, <2>3
  <2> QED
    BY <1>15, <1>16, <2>1, <2>2, <2>4, Zenon
<1>18. RingsOK'
  BY <1>3, Zenon DEF NInv, RingsOK
<1> QED
  BY <1>8, <1>9, <1>14, <1>17, <1>18, Zenon DEF NInv

\* A writer takes the bus's lock, and lets it go.
LEMMA LockKeeps ==
  ASSUME NInv, NEW w \in EventWriters, PublishLock(w)
  PROVE  NInv'
<1>1. /\ wpc \in [EventWriters -> {"idle", "publish", "walk"}] /\ walk \in [EventWriters -> Seq(Subs)]
      /\ bus \in Seq(Subs) /\ wpc[w] = "publish"
  BY Zenon DEF NInv, NTypes, PublishLock
<1>2. /\ wpc' = [wpc EXCEPT ![w] = "walk"] /\ walk' = [walk EXCEPT ![w] = bus]
      /\ UNCHANGED <<published, event, bus, nextSub, linked, restSub, queue, freed, touched, pushed, polled, since>>
  BY Zenon DEF PublishLock, subscribers, queues
<1>3. \A v \in EventWriters \ {w} : wpc'[v] = wpc[v] /\ walk'[v] = walk[v]
  BY <1>1, <1>2, Zenon
<1>4. wpc'[w] = "walk" /\ walk'[w] = bus
  BY <1>1, <1>2, Zenon
<1>5. NTypes'
  <2>1. wpc' \in [EventWriters -> {"idle", "publish", "walk"}] /\ walk' \in [EventWriters -> Seq(Subs)]
    BY <1>1, <1>2, Zenon
  <2>2. \A v \in EventWriters : wpc'[v] # "idle" => event'[v] \in Events /\ event'[v].nr \in 1..published'
    BY <1>1, <1>2, <1>3, Zenon DEF NInv, NTypes
  <2> QED
    BY <1>2, <2>1, <2>2, Zenon DEF NInv, NTypes, Ids
<1>6. BusOK'
  <2>1. Distinct(bus) /\ \A j \in 1..Len(bus) : OnBus(bus[j])
    BY Zenon DEF NInv, BusOK, OnBus
  <2>2. \A v \in EventWriters :
          wpc'[v] = "walk" => Distinct(walk'[v]) /\ \A j \in 1..Len(walk'[v]) : OnBus(walk'[v][j])
    BY <1>3, <1>4, <2>1, Zenon DEF NInv, BusOK
  <2> QED
    BY <1>2, <2>2 DEF NInv, BusOK, OnBus, Ids
<1>7. \A v \in EventWriters : \A i : Visits(v, i)' => wpc[v] = "publish" \/ Visits(v, i)
  BY <1>1, <1>3, Zenon DEF Visits
<1>8. PushedOnce'
  <2>1. \A v \in EventWriters : wpc'[v] # "idle" => wpc[v] # "idle"
    BY <1>1, <1>3, Zenon
  <2>2. \A v \in EventWriters : wpc'[v] = "publish" => wpc[v] = "publish"
    BY <1>1, <1>3, Zenon
  <2> QED
    BY <1>2, <1>7, <2>1, <2>2, Zenon DEF NInv, PushedOnce
<1>9. ASSUME NEW k \in 1..Len(bus), NEW x, Comes(x, bus[k].id)
      PROVE  Comes(x, bus[k].id)'
  <2>1. PICK v \in EventWriters : (wpc[v] = "publish" \/ Visits(v, bus[k].id)) /\ event[v].nr = x
    BY <1>9, Zenon DEF Comes
  <2>2. wpc'[v] = "publish" \/ Visits(v, bus[k].id)'
    <3>1. CASE v = w
      BY <1>2, <1>4, <3>1, Zenon DEF Visits
    <3>2. CASE v # w
      BY <1>2, <1>3, <2>1, <3>2, Zenon DEF Visits
    <3> QED
      BY <3>1, <3>2, Zenon
  <2> QED
    BY <1>2, <2>1, <2>2, Zenon DEF Comes
<1>10. AllPushed'
  BY <1>2, <1>9, Zenon DEF NInv, AllPushed
<1>11. RingsOK'
  BY <1>2, Zenon DEF NInv, RingsOK
<1> QED
  BY <1>5, <1>6, <1>8, <1>10, <1>11, Zenon DEF NInv

\* The end of a walk keeps the invariant: everyone has been visited.
LEMMA UnlockKeeps ==
  ASSUME NInv, NEW w \in EventWriters, PublishUnlock(w)
  PROVE  NInv'
<1>1. /\ wpc \in [EventWriters -> {"idle", "publish", "walk"}]
      /\ event \in [EventWriters -> Events \cup {NoEvent}]
      /\ wpc[w] = "walk" /\ walk[w] = << >>
  BY Zenon DEF NInv, NTypes, PublishUnlock
<1>2. /\ wpc' = [wpc EXCEPT ![w] = "idle"] /\ event' = [event EXCEPT ![w] = NoEvent]
      /\ UNCHANGED <<published, walk, bus, nextSub, linked, restSub, queue, freed, touched, pushed, polled, since>>
  BY Zenon DEF PublishUnlock, subscribers, queues
<1>3. \A v \in EventWriters \ {w} : wpc'[v] = wpc[v] /\ event'[v] = event[v]
  BY <1>1, <1>2, Zenon
<1>4. wpc'[w] = "idle"
  BY <1>1, <1>2, Zenon
<1>5. NTypes'
  <2>1. wpc' \in [EventWriters -> {"idle", "publish", "walk"}] /\ event' \in [EventWriters -> Events \cup {NoEvent}]
    BY <1>1, <1>2, Zenon
  <2>2. \A v \in EventWriters : wpc'[v] # "idle" => event'[v] \in Events /\ event'[v].nr \in 1..published'
    BY <1>2, <1>3, <1>4, Zenon DEF NInv, NTypes
  <2> QED
    BY <1>2, <2>1, <2>2, Zenon DEF NInv, NTypes, Ids
<1>6. BusOK'
  BY <1>2, <1>3, <1>4, BusSame, Zenon DEF NInv
<1>7. \A v \in EventWriters : \A i : Visits(v, i)' <=> Visits(v, i) /\ v # w
  BY <1>2, <1>3, <1>4, Zenon DEF Visits
<1>8. \A i : ~Visits(w, i)
  BY <1>1 DEF Visits
<1>9. PushedOnce'
  BY <1>2, <1>3, <1>4, <1>7 DEF NInv, PushedOnce
<1>10. \A x, i : Comes(x, i) => Comes(x, i)'
  BY <1>1, <1>3, <1>7, <1>8, Zenon DEF Comes
<1>11. AllPushed'
  BY <1>2, <1>10, Zenon DEF NInv, AllPushed
<1>12. RingsOK'
  BY <1>2, Zenon DEF NInv, RingsOK
<1> QED
  BY <1>5, <1>6, <1>9, <1>11, <1>12, Zenon DEF NInv

\* The subscription that the REST thread works on has a queue.
RestOK == rest # "idle" => restSub \in DOMAIN queue

\* Every step leaves the REST thread's subscription its queue.
LEMMA StepRest ==
  ASSUME NInv, RestOK, NotifyNext
  PROVE  RestOK'
<1>1. /\ linked \subseteq DOMAIN queue /\ queue \in [DOMAIN queue -> Queues]
      /\ RestOK /\ NTypes /\ BusOK /\ RingsOK
  BY Zenon DEF NInv, NTypes
<1>2. ASSUME NEW w \in EventWriters, Mutate(w) \/ PublishLock(w) \/ PublishUnlock(w)
      PROVE  RestOK'
  BY <1>1, <1>2, Zenon DEF Mutate, PublishLock, PublishUnlock, RestOK, subscribers, queues
<1>3. ASSUME NEW w \in EventWriters, PublishStep(w)
      PROVE  RestOK'
  <2>1. DOMAIN queue' = DOMAIN queue
    BY <1>1, <1>3, VisitIs, VisitTypes, Zenon
  <2> QED
    BY <1>1, <1>3, <2>1, Zenon DEF PublishStep, subscribers, RestOK
<1>4. CASE GrpcSubscribe
  BY <1>1, <1>4, Zenon DEF GrpcSubscribe, RestOK, queues
<1>5. CASE Subscribe
  <2>1. restSub' = nextSub /\ queue' = With(queue, nextSub, EmptyQueue)
    BY <1>5, Zenon DEF Subscribe
  <2>2. nextSub \in DOMAIN queue'
    BY <2>1, Zenon DEF With
  <2> QED
    BY <2>1, <2>2, Zenon DEF RestOK
<1>6. CASE Link \/ Unregister
  BY <1>6, Zenon DEF Link, Unregister, RestOK
<1>7. CASE Unsubscribe
  BY <1>1, <1>7, Zenon DEF Unsubscribe, RestOK, queues
<1>8. CASE Poll
  <2>1. DOMAIN queue' = DOMAIN queue
    BY <1>8, Zenon DEF Poll
  <2> QED
    BY <1>1, <1>8, <2>1, Zenon DEF Poll, subscribers, RestOK
<1> QED
  BY <1>2, <1>3, <1>4, <1>5, <1>6, <1>7, <1>8, Zenon DEF NotifyNext

\* The REST thread's steps on its own list change nothing that the bus or the queues hold.
LEMMA ListKeeps ==
  ASSUME NInv, RestOK, Link \/ Unsubscribe
  PROVE  NInv'
<1>1. /\ linked \subseteq DOMAIN queue /\ DOMAIN queue \subseteq Ids /\ restSub \in 0..(nextSub - 1)
  BY Zenon DEF NInv, NTypes
<1>2. UNCHANGED <<published, wpc, event, walk, bus, nextSub, freed, since, queue, touched, pushed, polled>>
  BY Zenon DEF Link, Unsubscribe, writers, queues
<1>3. linked' \subseteq DOMAIN queue /\ restSub' \in 0..(nextSub - 1)
  <2>1. CASE Link
    BY <1>1, <2>1, Zenon DEF Link, RestOK
  <2>2. CASE Unsubscribe
    <3>1. \A i \in Ids : i \in 0..(nextSub - 1)
      BY DEF Ids
    <3> QED
      BY <1>1, <2>2, <3>1, Zenon DEF Unsubscribe
  <2> QED
    BY <2>1, <2>2, Zenon
<1>4. NTypes'
  BY <1>2, <1>3, Zenon DEF NInv, NTypes, Ids
<1>5. BusOK'
  BY <1>2, Zenon DEF NInv, BusOK, OnBus, Ids
<1>6. PushedOnce' /\ AllPushed'
  <2>1. PushedOnce'
    BY <1>2, Zenon DEF NInv, PushedOnce, Visits
  <2>2. AllPushed'
    BY <1>2, ComesSame, Zenon DEF NInv, AllPushed
  <2> QED
    BY <2>1, <2>2, Zenon
<1>7. RingsOK'
  BY <1>2, Zenon DEF NInv, RingsOK
<1> QED
  BY <1>4, <1>5, <1>6, <1>7, Zenon DEF NInv

\* A poll empties a ring and leaves what was pushed.
LEMMA PollStepKeeps ==
  ASSUME NInv, Poll
  PROVE  NInv'
<1>1. /\ linked \subseteq DOMAIN queue /\ queue \in [DOMAIN queue -> Queues]
      /\ pushed \in [DOMAIN queue -> Seq(Events)] /\ polled \in [DOMAIN queue -> Nat]
      /\ RingsOK
  BY Zenon DEF NInv, NTypes
<1>2. UNCHANGED <<published, wpc, event, walk, bus, nextSub, linked, restSub, freed, since, touched, pushed>>
  BY Zenon DEF Poll, writers, subscribers
<1>3. PICK i \in linked :
        /\ polled' = [polled EXCEPT ![i] = @ + queue[i].count]
        /\ queue' = [queue EXCEPT ![i] = Drained(queue[i])]
  BY Zenon DEF Poll
<1>4. i \in DOMAIN queue /\ queue[i] \in Queues /\ pushed[i] \in Seq(Events) /\ polled[i] \in Nat
      /\ Ring(queue[i], pushed[i], polled[i])
  BY <1>1, <1>3, Zenon DEF RingsOK
<1>5. Drained(queue[i]) \in Queues /\ Ring(Drained(queue[i]), pushed[i], polled[i] + queue[i].count)
  BY <1>4, PollKeeps, Zenon
<1>6. polled[i] + queue[i].count \in Nat
  <2>1. queue[i].count \in Nat
    BY <1>4, QueueAssumption DEF Queues
  <2> QED
    BY <1>4, <2>1
<1>7. DOMAIN queue' = DOMAIN queue /\ queue' \in [DOMAIN queue -> Queues] /\ polled' \in [DOMAIN queue -> Nat]
  BY <1>1, <1>3, <1>4, <1>5, <1>6, Zenon
<1>8. NTypes'
  BY <1>2, <1>7, Zenon DEF NInv, NTypes, Ids
<1>9. BusOK'
  BY <1>2, <1>7, BusSame, Zenon DEF NInv
<1>10. PushedOnce'
  BY <1>2, <1>7, ComesSame, Zenon DEF NInv, PushedOnce
<1>11. AllPushed'
  BY <1>2, ComesSame, Zenon DEF NInv, AllPushed
<1>12. RingsOK'
  <2> SUFFICES ASSUME NEW k \in DOMAIN queue
               PROVE  Ring(queue'[k], pushed[k], polled'[k])
    BY <1>2, <1>7, Zenon DEF RingsOK
  <2>1. CASE k = i
    <3>1. queue'[k] = Drained(queue[i]) /\ polled'[k] = polled[i] + queue[i].count
      BY <1>1, <1>3, <1>4, <2>1, Zenon
    <3> QED
      BY <1>5, <2>1, <3>1, Zenon
  <2>2. CASE k # i
    <3>1. queue'[k] = queue[k] /\ polled'[k] = polled[k]
      BY <1>1, <1>3, <2>2, Zenon
    <3> QED
      BY <1>1, <3>1, Zenon DEF RingsOK
  <2> QED
    BY <2>1, <2>2, Zenon
<1> QED
  BY <1>8, <1>9, <1>10, <1>11, <1>12, Zenon DEF NInv

\* A subscriber leaves the bus while no writer walks it, and is then freed.
LEMMA UnregisterKeeps ==
  ASSUME NInv, RestOK, Unregister
  PROVE  NInv'
<1>1. /\ bus \in Seq(Subs) /\ DOMAIN queue \subseteq Ids /\ restSub \in DOMAIN queue
      /\ freed \subseteq Ids /\ Distinct(bus)
  BY Zenon DEF NInv, NTypes, BusOK, Unregister, RestOK
<1>2. /\ UNCHANGED <<published, wpc, event, walk, nextSub, linked, restSub, since, queue, touched, pushed, polled>>
      /\ bus' = Unlink(bus, restSub) /\ freed' = freed \cup {restSub} /\ NoWalker
  BY Zenon DEF Unregister, writers, queues
<1>3. /\ bus' \in Seq(Subs) /\ Distinct(bus')
      /\ \A j \in 1..Len(bus') : bus'[j].id # restSub /\ \E k \in 1..Len(bus) : bus'[j] = bus[k]
  BY <1>1, <1>2, UnlinkFacts
<1>4. NTypes'
  BY <1>1, <1>2, <1>3, Zenon DEF NInv, NTypes, Ids
<1>5. BusOK'
  <2>1. \A k \in 1..Len(bus') : /\ bus'[k].id \in Ids /\ bus'[k].id \notin freed'
                                /\ ~IsGrpc(bus'[k]) => bus'[k].id \in DOMAIN queue
    BY <1>2, <1>3, Zenon DEF NInv, BusOK
  <2> QED
    BY <1>2, <1>3, <2>1, Zenon DEF NInv, BusOK, NoWalker, Ids
<1>6. PushedOnce'
  BY <1>2, Zenon DEF NInv, PushedOnce, Visits
<1>7. AllPushed'
  <2>1. \A x, i : Comes(x, i) => Comes(x, i)'
    BY <1>2, Zenon DEF Comes, Visits
  <2> SUFFICES ASSUME NEW j \in 1..Len(bus'), ~IsGrpc(bus'[j]), NEW s, s = bus'[j]
               PROVE  /\ \A l \in 1..Len(pushed[s.id]) : Passes(s, pushed[s.id][l])
                      /\ WantsAll(s) =>
                           \A x \in (since[s.id] + 1)..published : Has(pushed[s.id], x) \/ Comes(x, s.id)
    BY <1>2, <2>1, Zenon DEF AllPushed
  <2>2. PICK k \in 1..Len(bus) : s = bus[k]
    BY <1>3, Zenon
  <2> QED
    BY <2>2, Zenon DEF NInv, AllPushed
<1>8. RingsOK'
  BY <1>2, Zenon DEF NInv, RingsOK
<1> QED
  BY <1>4, <1>5, <1>6, <1>7, <1>8, Zenon DEF NInv

\* A new subscriber comes on the bus while no writer walks it, with nothing queued.
LEMMA AddKeeps ==
  ASSUME NInv, NEW s \in Subs, AddStep(s)
  PROVE  NInv'
<1>1. /\ nextSub \in Nat /\ bus \in Seq(Subs) /\ published \in Nat /\ DOMAIN queue \subseteq Ids
      /\ pushed \in [DOMAIN queue -> Seq(Events)] /\ freed \subseteq Ids
      /\ NTypes /\ BusOK
  BY Zenon DEF NInv, NTypes
<1>2. /\ NTypes' /\ nextSub \notin Ids /\ Ids' = Ids \cup {nextSub}
      /\ since'[nextSub] = published /\ \A i \in Ids : since'[i] = since[i]
  BY <1>1, AddTypes, Zenon
<1>3. /\ NoWalker /\ s.id = nextSub /\ bus' = <<s>> \o bus
      /\ UNCHANGED <<published, wpc, event, walk, linked, freed, touched>>
  BY Zenon DEF AddStep
<1>4. /\ Len(bus') = Len(bus) + 1 /\ bus'[1] = s
      /\ \A i \in 1..(Len(bus) + 1) : i = 1 \/ (i - 1 \in 1..Len(bus) /\ bus'[i] = bus[i - 1])
  BY <1>1, <1>3, Prepended
<1>5. \A k \in 1..Len(bus) : bus[k].id \in Ids /\ bus[k].id # nextSub
  BY <1>1, <1>2, Zenon DEF BusOK
<1>6. /\ \A i \in DOMAIN queue : /\ i \in DOMAIN queue' /\ i # nextSub /\ queue'[i] = queue[i]
                                 /\ pushed'[i] = pushed[i] /\ polled'[i] = polled[i]
      /\ \A i \in DOMAIN queue' : i \in DOMAIN queue \/ i = nextSub
      /\ nextSub \in DOMAIN queue' => /\ queue'[nextSub] = EmptyQueue /\ pushed'[nextSub] = << >>
                                      /\ polled'[nextSub] = 0
      /\ ~IsGrpc(s) => nextSub \in DOMAIN queue'
  <2>1. \A i \in DOMAIN queue : i # nextSub
    BY <1>1, <1>2, Zenon
  <2>2. DOMAIN pushed = DOMAIN queue /\ DOMAIN polled = DOMAIN queue
    BY <1>1, Zenon DEF NTypes
  <2>3. CASE IsGrpc(s) /\ UNCHANGED <<queue, pushed, polled>>
    BY <2>1, <2>3, Zenon
  <2>4. CASE /\ ~IsGrpc(s) /\ queue' = With(queue, nextSub, EmptyQueue)
             /\ pushed' = With(pushed, nextSub, << >>) /\ polled' = With(polled, nextSub, 0)
    BY <2>1, <2>2, <2>4, Zenon DEF With
  <2> QED
    BY <2>3, <2>4, Zenon DEF AddStep
<1>7. PICK n \in Nat : n = Len(bus)
  BY <1>1
<1>8. BusOK'
  <2>1. Distinct(bus')
    <3> SUFFICES ASSUME NEW j \in 1..(n + 1), NEW k \in 1..(n + 1), bus'[j].id = bus'[k].id
                 PROVE  j = k
      BY <1>4, <1>7, Zenon DEF Distinct
    <3>1. (j = 1 /\ k = 1) \/ (j # 1 /\ k # 1)
      BY <1>3, <1>4, <1>5, <1>7, Zenon
    <3>2. j # 1 /\ k # 1 => j - 1 \in 1..n /\ k - 1 \in 1..n /\ bus[j - 1].id = bus[k - 1].id
      BY <1>4, <1>7, Zenon
    <3>3. j # 1 /\ k # 1 => j - 1 = k - 1
      BY <1>1, <1>7, <3>2, Zenon DEF BusOK, Distinct
    <3> QED
      BY <3>1, <3>3
  <2>2. \A k \in 1..Len(bus') : /\ bus'[k].id \in Ids' /\ bus'[k].id \notin freed'
                                /\ ~IsGrpc(bus'[k]) => bus'[k].id \in DOMAIN queue'
    <3> SUFFICES ASSUME NEW k \in 1..(n + 1)
                 PROVE  /\ bus'[k].id \in Ids' /\ bus'[k].id \notin freed
                        /\ ~IsGrpc(bus'[k]) => bus'[k].id \in DOMAIN queue'
      BY <1>3, <1>4, <1>7, Zenon
    <3>1. CASE k = 1
      BY <1>1, <1>2, <1>3, <1>4, <1>6, <3>1, Zenon
    <3>2. CASE k # 1
      <4>1. k - 1 \in 1..Len(bus) /\ bus'[k] = bus[k - 1]
        BY <1>4, <1>7, <3>2, Zenon
      <4> QED
        BY <1>1, <1>2, <1>6, <4>1, Zenon DEF BusOK
    <3> QED
      BY <3>1, <3>2, Zenon
  <2>3. touched' = {}
    BY <1>1, <1>3, Zenon DEF BusOK
  <2> QED
    BY <1>3, <2>1, <2>2, <2>3, Zenon DEF BusOK, NoWalker
<1>9. \A w \in EventWriters : \A i : Visits(w, i)' <=> Visits(w, i)
  BY <1>3, Zenon DEF Visits
<1>10. OnceEach(<< >>) /\ \A x : ~Has(<< >>, x)
  BY DEF OnceEach, Has
<1>11. PushedOnce'
  <2>1. \A i \in DOMAIN queue' : OnceEach(pushed'[i]) /\ \A j \in 1..Len(pushed'[i]) : pushed'[i][j].nr <= published'
    <3>1. Len(<< >>) = 0 /\ \A j : j \notin 1..0
      OBVIOUS
    <3>2. \A i \in DOMAIN queue : OnceEach(pushed[i]) /\ \A j \in 1..Len(pushed[i]) : pushed[i][j].nr <= published
      BY Zenon DEF NInv, PushedOnce
    <3> QED
      BY <1>3, <1>6, <1>10, <3>1, <3>2, Zenon
  <2>2. \A u, v \in EventWriters :
          u # v /\ wpc'[u] # "idle" /\ wpc'[v] # "idle" => event'[u].nr # event'[v].nr
    BY <1>3, Zenon DEF NInv, PushedOnce
  <2>3. \A v \in EventWriters : \A i \in DOMAIN queue' :
          wpc'[v] = "publish" \/ Visits(v, i)' => ~Has(pushed'[i], event'[v].nr)
    BY <1>3, <1>6, <1>9, <1>10 DEF NInv, PushedOnce
  <2> QED
    BY <2>1, <2>2, <2>3, Zenon DEF PushedOnce
<1>12. AllPushed'
  <2>1. \A x, i : Comes(x, i) => Comes(x, i)'
    BY <1>3, <1>9, Zenon DEF Comes
  <2> SUFFICES ASSUME NEW k \in 1..(n + 1), NEW t, t = bus'[k], ~IsGrpc(t)
               PROVE  /\ \A j \in 1..Len(pushed'[t.id]) : Passes(t, pushed'[t.id][j])
                      /\ WantsAll(t) =>
                           \A x \in (since'[t.id] + 1)..published : Has(pushed'[t.id], x) \/ Comes(x, t.id)
    BY <1>3, <1>4, <1>7, <2>1, Zenon DEF AllPushed
  <2>2. CASE k = 1
    <3>1. t.id = nextSub /\ pushed'[t.id] = << >> /\ since'[t.id] = published
      BY <1>2, <1>3, <1>4, <1>6, <2>2, Zenon
    <3>2. \A x : x \notin (published + 1)..published
      BY <1>1
    <3>3. Len(<< >>) = 0 /\ \A j : j \notin 1..0
      OBVIOUS
    <3>4. \A j \in 1..Len(pushed'[t.id]) : Passes(t, pushed'[t.id][j])
      BY <3>1, <3>3, Zenon
    <3> QED
      BY <3>1, <3>2, <3>4, Zenon
  <2>3. CASE k # 1
    <3>1. k - 1 \in 1..Len(bus) /\ t = bus[k - 1]
      BY <1>4, <1>7, <2>3, Zenon
    <3>2. t.id \in Ids /\ t.id \in DOMAIN queue
      BY <1>1, <3>1, Zenon DEF BusOK
    <3>3. pushed'[t.id] = pushed[t.id] /\ since'[t.id] = since[t.id]
      BY <1>2, <1>6, <3>2, Zenon
    <3> QED
      BY <3>1, <3>3, Zenon DEF NInv, AllPushed
  <2> QED
    BY <2>2, <2>3, Zenon
<1>13. RingsOK'
  BY <1>6, EmptyRing, Zenon DEF NInv, RingsOK
<1> QED
  BY <1>2, <1>8, <1>11, <1>12, <1>13, Zenon DEF NInv

\* A subscriber without a filter that asks for the three kinds of change is passed over by none.
LEMMA WantsPasses ==
  ASSUME NEW s \in Subs, NEW e \in Events, WantsAll(s)
  PROVE  Passes(s, e)
<1>1. PICK m \in Nat : m = s.mask
  BY Zenon DEF Subs
<1>2. m % 16 >= 14 /\ s.type = AnyType
  BY <1>1, Zenon DEF WantsAll
<1>3. 2 ^ 1 = 2 /\ 2 ^ 2 = 4 /\ 2 ^ 3 = 8
  OBVIOUS
<1>4. (m \div 2) % 2 = 1 /\ (m \div 4) % 2 = 1 /\ (m \div 8) % 2 = 1
  BY <1>2
<1>5. e.kind = 1 \/ e.kind = 2 \/ e.kind = 3
  BY Zenon DEF Events, Created, Updated, Deleted
<1>6. Wanted(m, e.kind)
  BY <1>3, <1>4, <1>5, Zenon DEF Wanted
<1> QED
  BY <1>1, <1>2, <1>6, Zenon DEF Passes

\* What is in a queue's history after one more event.
LEMMA HasAppend ==
  ASSUME NEW P \in Seq(Events), NEW e \in Events
  PROVE  /\ \A x : Has(Append(P, e), x) <=> Has(P, x) \/ x = e.nr
         /\ OnceEach(P) /\ ~Has(P, e.nr) => OnceEach(Append(P, e))
         /\ \A j \in 1..Len(Append(P, e)) : Append(P, e)[j] = e \/ \E k \in 1..Len(P) : Append(P, e)[j] = P[k]
<1>1. PICK n \in Nat : n = Len(P)
  OBVIOUS
<1>2. /\ Len(Append(P, e)) = n + 1 /\ Append(P, e)[n + 1] = e
      /\ \A j \in 1..n : Append(P, e)[j] = P[j]
  BY <1>1
<1>3. n + 1 \in 1..(n + 1) /\ \A j \in 1..n : j \in 1..(n + 1)
  BY <1>1
<1>4. \A j \in 1..(n + 1) : j = n + 1 \/ j \in 1..n
  BY <1>1
<1>5. \A x : Has(Append(P, e), x) <=> Has(P, x) \/ x = e.nr
  BY <1>1, <1>2, <1>3, <1>4, Zenon DEF Has
<1>6. OnceEach(P) /\ ~Has(P, e.nr) => OnceEach(Append(P, e))
  BY <1>1, <1>2, <1>4, Zenon DEF OnceEach, Has
<1> QED
  BY <1>1, <1>2, <1>4, <1>5, <1>6, Zenon

\* A writer visits a subscriber.
LEMMA VisitKeeps ==
  ASSUME NInv, NEW w \in EventWriters, PublishStep(w)
  PROVE  NInv'
<1>1. NTypes /\ BusOK /\ RingsOK /\ VisitStep(w)
  BY VisitIs, Zenon DEF NInv
<1>2. NTypes' /\ RingsOK' /\ DOMAIN queue' = DOMAIN queue
  BY <1>1, VisitTypes, Zenon
<1>3. /\ walk \in [EventWriters -> Seq(Subs)] /\ pushed \in [DOMAIN queue -> Seq(Events)]
      /\ bus \in Seq(Subs) /\ published \in Nat
  BY <1>1, Zenon DEF NTypes
<1>4. PICK s \in Subs, e \in Events :
        /\ wpc[w] = "walk" /\ walk[w] # << >> /\ s = walk[w][1] /\ e = event[w]
        /\ walk' = [walk EXCEPT ![w] = Tail(walk[w])]
        /\ UNCHANGED <<published, wpc, event, bus, freed, since, touched, nextSub>>
        /\ \/ (IsGrpc(s) \/ ~Passes(s, e)) /\ UNCHANGED pushed
           \/ /\ ~IsGrpc(s) /\ Passes(s, e) /\ s.id \in DOMAIN queue
              /\ pushed' = [pushed EXCEPT ![s.id] = Append(pushed[s.id], e)]
  BY <1>1, Zenon DEF VisitStep, subscribers
<1>5. PICK n \in Nat : n + 1 = Len(walk[w])
  <2>1. walk[w] \in Seq(Subs) /\ Len(walk[w]) \in Nat \ {0}
    BY <1>3, <1>4, TailFacts, Zenon
  <2>2. \A m \in Nat \ {0} : m - 1 \in Nat /\ (m - 1) + 1 = m
    OBVIOUS
  <2> QED
    BY <2>1, <2>2, Zenon
<1>6. Len(walk'[w]) = n /\ \A j \in 1..n : walk'[w][j] = walk[w][j + 1] /\ j + 1 \in 1..(n + 1)
  <2>1. walk'[w] = Tail(walk[w]) /\ walk[w] \in Seq(Subs) /\ walk[w] # << >>
    BY <1>3, <1>4, Zenon
  <2>2. /\ Len(Tail(walk[w])) = Len(walk[w]) - 1
        /\ \A j \in 1..(Len(walk[w]) - 1) : Tail(walk[w])[j] = walk[w][j + 1]
    BY <2>1, TailFacts, Zenon
  <2>3. Len(walk[w]) - 1 = n /\ \A j \in 1..n : j + 1 \in 1..(n + 1)
    BY <1>5
  <2> QED
    BY <2>1, <2>2, <2>3, Zenon
<1>7. \A v \in EventWriters \ {w} : walk'[v] = walk[v]
  BY <1>3, <1>4, Zenon
<1>8. Distinct(walk[w]) /\ \A j \in 1..(n + 1) : OnBus(walk[w][j])
  BY <1>1, <1>4, <1>5, Zenon DEF BusOK
<1>9. BusOK'
  <2>1. Distinct(walk'[w])
    <3>1. \A j, k \in 1..n : j + 1 = k + 1 => j = k
      OBVIOUS
    <3>2. \A j, k \in 1..(n + 1) : walk[w][j].id = walk[w][k].id => j = k
      BY <1>5, <1>8, Zenon DEF Distinct
    <3>3. ASSUME NEW j \in 1..n, NEW k \in 1..n, walk'[w][j].id = walk'[w][k].id
          PROVE  j = k
      <4>1. /\ walk'[w][j] = walk[w][j + 1] /\ j + 1 \in 1..(n + 1)
            /\ walk'[w][k] = walk[w][k + 1] /\ k + 1 \in 1..(n + 1)
        BY <1>6, Zenon
      <4>2. j + 1 = k + 1
        BY <3>2, <3>3, <4>1, Zenon
      <4> QED
        BY <3>1, <4>2, Zenon
    <3> QED
      BY <1>6, <3>3, Zenon DEF Distinct
  <2>2. \A j \in 1..Len(walk'[w]) : OnBus(walk'[w][j])
    BY <1>6, <1>8, Zenon
  <2>3. \A v \in EventWriters :
          wpc[v] = "walk" => Distinct(walk'[v]) /\ \A j \in 1..Len(walk'[v]) : OnBus(walk'[v][j])
    BY <1>1, <1>7, <2>1, <2>2, Zenon DEF BusOK
  <2>4. \A v \in EventWriters :
          wpc'[v] = "walk" => /\ Distinct(walk'[v])
                              /\ \A j \in 1..Len(walk'[v]) : \E k \in 1..Len(bus') : bus'[k] = walk'[v][j]
    <3>1. wpc' = wpc /\ bus' = bus
      BY <1>4, Zenon
    <3> QED
      BY <2>3, <3>1, Zenon DEF OnBus
  <2>5. bus' = bus /\ freed' = freed /\ touched' = touched /\ Ids' = Ids
    BY <1>4, Zenon DEF Ids
  <2>6. \A k \in 1..Len(bus) : /\ bus[k].id \in Ids' /\ bus[k].id \notin freed'
                               /\ ~IsGrpc(bus[k]) => bus[k].id \in DOMAIN queue'
    BY <1>1, <1>2, <2>5, Zenon DEF BusOK
  <2>7. touched' = {} /\ Distinct(bus)
    BY <1>1, <2>5, Zenon DEF BusOK
  <2> QED
    BY <2>4, <2>5, <2>6, <2>7, Zenon DEF BusOK, OnBus
<1>10. \A i : Visits(w, i)' => Visits(w, i) /\ i # s.id
  <2> SUFFICES ASSUME NEW i, Visits(w, i)'
               PROVE  Visits(w, i) /\ i # s.id
    BY Zenon
  <2>1. PICK j \in 1..n : walk[w][j + 1].id = i /\ j + 1 \in 1..(n + 1)
    BY <1>6, Zenon DEF Visits
  <2>2. 1 \in 1..(n + 1) /\ j + 1 # 1
    OBVIOUS
  <2>3. i # s.id
    BY <1>4, <1>5, <1>8, <2>1, <2>2, Zenon DEF Distinct
  <2> QED
    BY <1>4, <1>5, <2>1, <2>3, Zenon DEF Visits
<1>11. Visits(w, s.id)
  <2>1. 1 \in 1..(n + 1)
    OBVIOUS
  <2> QED
    BY <1>4, <1>5, <2>1, Zenon DEF Visits
<1>12. \A i : Visits(w, i) /\ i # s.id => Visits(w, i)'
  <2> SUFFICES ASSUME NEW i, Visits(w, i), i # s.id
               PROVE  Visits(w, i)'
    BY Zenon
  <2>1. PICK j \in 1..(n + 1) : walk[w][j].id = i /\ j # 1
    BY <1>4, <1>5, Zenon DEF Visits
  <2>2. j - 1 \in 1..n /\ (j - 1) + 1 = j
    BY <2>1
  <2>3. walk'[w][j - 1].id = i
    BY <1>6, <2>1, <2>2, Zenon
  <2> QED
    BY <1>4, <1>6, <2>2, <2>3, Zenon DEF Visits
<1>13. \A v \in EventWriters \ {w} : \A i : Visits(v, i)' <=> Visits(v, i)
  BY <1>4, <1>7, Zenon DEF Visits
<1>14. \A i \in DOMAIN queue : /\ i # s.id => pushed'[i] = pushed[i]
                               /\ pushed'[i] = pushed[i] \/ (i = s.id /\ pushed'[i] = Append(pushed[i], e))
  BY <1>3, <1>4, Zenon
<1>15. e.nr \in Nat /\ e.nr <= published
  <2>1. e.nr \in 1..published
    BY <1>1, <1>4, Zenon DEF NTypes
  <2> QED
    BY <1>3, <2>1
<1>16. PushedOnce'
  <2>1. s.id \in DOMAIN queue => ~Has(pushed[s.id], e.nr)
    BY <1>4, <1>11, Zenon DEF NInv, PushedOnce
  <2>2. \A i \in DOMAIN queue : OnceEach(pushed'[i]) /\ \A j \in 1..Len(pushed'[i]) : pushed'[i][j].nr <= published
    <3> SUFFICES ASSUME NEW i \in DOMAIN queue
                 PROVE  OnceEach(pushed'[i]) /\ \A j \in 1..Len(pushed'[i]) : pushed'[i][j].nr <= published
      BY Zenon
    <3>1. OnceEach(pushed[i]) /\ \A j \in 1..Len(pushed[i]) : pushed[i][j].nr <= published
      BY Zenon DEF NInv, PushedOnce
    <3>2. CASE i = s.id /\ pushed'[i] = Append(pushed[i], e)
      <4>1. pushed[i] \in Seq(Events)
        BY <1>3, Zenon
      <4> QED
        BY <1>15, <2>1, <3>1, <3>2, <4>1, HasAppend
    <3> QED
      BY <1>14, <3>1, <3>2, Zenon
  <2>3. \A v \in EventWriters : \A i \in DOMAIN queue :
          wpc[v] = "publish" \/ Visits(v, i)' => ~Has(pushed'[i], event[v].nr)
    <3> SUFFICES ASSUME NEW v \in EventWriters, NEW i \in DOMAIN queue, wpc[v] = "publish" \/ Visits(v, i)'
                 PROVE  ~Has(pushed'[i], event[v].nr)
      BY Zenon
    <3>1. wpc[v] = "publish" \/ Visits(v, i)
      BY <1>10, <1>13, Zenon
    <3>2. ~Has(pushed[i], event[v].nr)
      BY <3>1, Zenon DEF NInv, PushedOnce
    <3>3. CASE i = s.id /\ pushed'[i] = Append(pushed[i], e)
      <4>1. v # w
        BY <1>4, <1>10, <3>3, Zenon
      <4>2. wpc[v] # "idle" /\ wpc[w] # "idle"
        BY <1>4, <3>1, Zenon DEF Visits
      <4>3. event[v].nr # e.nr
        BY <1>4, <4>1, <4>2, Zenon DEF NInv, PushedOnce
      <4>4. pushed[i] \in Seq(Events)
        BY <1>3, Zenon
      <4> QED
        BY <3>2, <3>3, <4>3, <4>4, HasAppend
    <3> QED
      BY <1>14, <3>2, <3>3, Zenon
  <2> QED
    BY <1>2, <1>4, <2>2, <2>3, Zenon DEF NInv, PushedOnce
<1>17. AllPushed'
  <2> SUFFICES ASSUME NEW k \in 1..Len(bus), NEW t, t = bus[k], ~IsGrpc(t)
               PROVE  /\ \A j \in 1..Len(pushed'[t.id]) : Passes(t, pushed'[t.id][j])
                      /\ WantsAll(t) =>
                           \A x \in (since[t.id] + 1)..published : Has(pushed'[t.id], x) \/ Comes(x, t.id)'
    BY <1>4, Zenon DEF AllPushed
  <2>1. /\ \A j \in 1..Len(pushed[t.id]) : Passes(t, pushed[t.id][j])
        /\ WantsAll(t) => \A x \in (since[t.id] + 1)..published : Has(pushed[t.id], x) \/ Comes(x, t.id)
    BY Zenon DEF NInv, AllPushed
  <2>2. t.id \in DOMAIN queue /\ pushed[t.id] \in Seq(Events)
    BY <1>1, <1>3, Zenon DEF BusOK
  <2>3. CASE t.id # s.id
    <3>1. pushed'[t.id] = pushed[t.id]
      BY <1>14, <2>2, <2>3, Zenon
    <3>2. \A x : Comes(x, t.id) => Comes(x, t.id)'
      BY <1>4, <1>12, <1>13, <2>3, Zenon DEF Comes
    <3> QED
      BY <2>1, <3>1, <3>2, Zenon
  <2>4. CASE t.id = s.id
    <3>1. t = s
      <4>1. 1 \in 1..(n + 1)
        OBVIOUS
      <4>2. PICK m \in 1..Len(bus) : bus[m] = s
        BY <1>4, <1>8, <4>1, Zenon DEF OnBus
      <4>3. m = k
        BY <1>1, <2>4, <4>2, Zenon DEF BusOK, Distinct
      <4> QED
        BY <4>2, <4>3, Zenon
    <3>2. \A x : Comes(x, t.id) => x = e.nr \/ Comes(x, t.id)'
      BY <1>4, <1>13, Zenon DEF Comes
    <3>3. CASE Passes(s, e)
      <4>1. pushed'[t.id] = Append(pushed[t.id], e)
        BY <1>3, <1>4, <2>2, <3>1, <3>3, Zenon
      <4>2. \A j \in 1..Len(pushed'[t.id]) : Passes(t, pushed'[t.id][j])
        <5> DEFINE p == Append(pushed[t.id], e)
        <5>1. \A j \in 1..Len(p) : p[j] = e \/ \E m \in 1..Len(pushed[t.id]) : p[j] = pushed[t.id][m]
          BY <2>2, HasAppend, Zenon
        <5> HIDE DEF p
        <5>2. \A j \in 1..Len(p) : Passes(t, p[j])
          BY <2>1, <3>1, <3>3, <5>1, Zenon
        <5> QED
          BY <4>1, <5>2, Zenon DEF p
      <4>3. \A x : Has(pushed'[t.id], x) <=> Has(pushed[t.id], x) \/ x = e.nr
        <5>1. \A x : Has(Append(pushed[t.id], e), x) <=> Has(pushed[t.id], x) \/ x = e.nr
          BY <2>2, HasAppend, Zenon
        <5> QED
          BY <4>1, <5>1, Zenon
      <4> QED
        BY <2>1, <3>2, <4>2, <4>3, Zenon
    <3>4. CASE ~Passes(s, e)
      <4>1. pushed' = pushed /\ ~WantsAll(t)
        BY <1>4, <3>1, <3>4, WantsPasses, Zenon
      <4> QED
        BY <2>1, <4>1, Zenon
    <3> QED
      BY <3>3, <3>4, Zenon
  <2> QED
    BY <2>3, <2>4, Zenon
<1> QED
  BY <1>2, <1>9, <1>16, <1>17, Zenon DEF NInv

-----------------------------------------------------------------------------
(* What the queues hold and what was queued. *)

\* As many numbers as events, when no number occurs twice.
LEMMA NumbersCount ==
  ASSUME NEW P \in Seq(Events), OnceEach(P)
  PROVE  Cardinality({P[j].nr : j \in DOMAIN P}) = Len(P)
<1>1. PICK n \in Nat : n = Len(P) /\ DOMAIN P = 1..n
  OBVIOUS
<1> DEFINE T == {P[j].nr : j \in DOMAIN P}
           f == [j \in 1..n |-> P[j].nr]
<1>2. f \in Bijection(1..n, T)
  BY <1>1, Zenon DEF OnceEach, Bijection, Surjection, Injection, IsInjective
<1>3. ExistsBijection(1..n, T)
  BY <1>2, Zenon DEF ExistsBijection
<1> HIDE DEF T
<1> QED
  BY <1>1, <1>3, FS_CountingElements, Zenon DEF T

\* The rings give QueueExact: a queue holds the newest events pushed, in order.
LEMMA QueuesAreExact ==
  ASSUME NTypes, RingsOK
  PROVE  QueueExact
<1> SUFFICES ASSUME NEW i \in DOMAIN queue, NEW q, q = queue[i], NEW P, P = pushed[i]
             PROVE  /\ q.count <= QueueSize
                    /\ polled[i] + q.dropped + q.count = Len(P)
                    /\ \A k \in 0..(q.count - 1) :
                         q.entries[(q.head + k) % QueueSize] = P[Len(P) - q.count + 1 + k]
                    /\ \A j \in DOMAIN q.entries \ {(q.head + k) % QueueSize : k \in 0..(q.count - 1)} :
                         q.entries[j] = NoEvent
  BY Zenon DEF QueueExact
<1>1. q \in Queues /\ Ring(q, P, polled[i])
  BY Zenon DEF NTypes, RingsOK
<1>2. DOMAIN q.entries = Places /\ q.count \in 0..QueueSize
  BY <1>1, Zenon DEF Queues
<1>3. q.count <= QueueSize
  BY <1>2, QueueAssumption
<1> QED
  BY <1>1, <1>2, <1>3, Zenon DEF Ring, Place

Unpublished == {event[w].nr : w \in {v \in EventWriters : wpc[v] # "idle"}}
Queued(s, P) == /\ Cardinality({P[j].nr : j \in DOMAIN P}) = Len(P)
                /\ \A j \in DOMAIN P : Wanted(s.mask, P[j].kind) /\ s.type \in {AnyType, P[j].type}
                /\ s.mask % 16 >= 14 /\ s.type = AnyType =>
                     ((since[s.id] + 1)..published) \ Unpublished \subseteq {P[j].nr : j \in DOMAIN P}
\* With no writer on its way, what passes a filter has been pushed once.
LEMMA AllAreQueued ==
  ASSUME NTypes, BusOK, PushedOnce, AllPushed
  PROVE  EveryEventQueued
<1>0. (\A k \in DOMAIN bus : ~IsGrpc(bus[k]) => Queued(bus[k], pushed[bus[k].id])) => EveryEventQueued
  BY Zenon DEF EveryEventQueued, Queued, Unpublished
<1> SUFFICES ASSUME NEW k \in DOMAIN bus, NEW s, s = bus[k], ~IsGrpc(s), NEW P, P = pushed[s.id]
             PROVE  Queued(s, P)
  BY <1>0, Zenon
<1>1. k \in 1..Len(bus)
  BY DEF NTypes
<1>2. s.id \in DOMAIN queue /\ P \in Seq(Events) /\ OnceEach(P)
  BY <1>1, Zenon DEF NTypes, BusOK, PushedOnce
<1>3. DOMAIN P = 1..Len(P)
  BY <1>2
<1>4. Cardinality({P[j].nr : j \in DOMAIN P}) = Len(P)
  BY <1>2, NumbersCount, Zenon
<1>5. \A j \in DOMAIN P : Passes(s, P[j])
  BY <1>1, <1>3, Zenon DEF AllPushed
<1>6. ASSUME WantsAll(s), NEW x \in (since[s.id] + 1)..published,
             x \notin Unpublished
      PROVE  x \in {P[j].nr : j \in DOMAIN P}
  <2>1. Has(P, x) \/ Comes(x, s.id)
    BY <1>1, <1>6, Zenon DEF AllPushed
  <2>2. ~Comes(x, s.id)
    BY <1>6, Zenon DEF Comes, Visits, Unpublished
  <2> QED
    BY <1>3, <2>1, <2>2, Zenon DEF Has
<1> QED
  BY <1>4, <1>5, <1>6, Zenon DEF Queued, Passes, WantsAll

\* Every step keeps the invariant.
LEMMA StepNotify ==
  ASSUME NInv, RestOK, [NotifyNext]_notifyVars
  PROVE  NInv' /\ RestOK'
<1>1. CASE NotifyNext
  <2>1. RestOK'
    BY <1>1, StepRest, Zenon
  <2>2. CASE \E w \in EventWriters : Mutate(w) \/ PublishLock(w) \/ PublishStep(w) \/ PublishUnlock(w)
    BY <2>1, <2>2, MutateKeeps, LockKeeps, VisitKeeps, UnlockKeeps, Zenon
  <2>3. CASE GrpcSubscribe \/ Subscribe
    <3>1. PICK s \in Subs : AddStep(s)
      BY <2>3, AddIs, Zenon DEF NInv
    <3> QED
      BY <2>1, <3>1, AddKeeps, Zenon
  <2>4. CASE Link \/ Unsubscribe
    BY <2>1, <2>4, ListKeeps, Zenon
  <2>5. CASE Unregister
    BY <2>1, <2>5, UnregisterKeeps, Zenon
  <2>6. CASE Poll
    BY <2>1, <2>6, PollStepKeeps, Zenon
  <2> QED
    BY <1>1, <2>2, <2>3, <2>4, <2>5, <2>6, Zenon DEF NotifyNext
<1>2. CASE UNCHANGED notifyVars
  <2>1. /\ UNCHANGED <<published, wpc, event, walk, bus, nextSub, linked, rest, restSub, freed, since>>
        /\ UNCHANGED <<queue, touched, pushed, polled>>
    BY <1>2, Zenon DEF notifyVars, writers, subscribers, queues
  <2>2. NTypes' /\ RestOK' /\ RingsOK'
    BY <2>1, Zenon DEF NInv, NTypes, Ids, RestOK, RingsOK
  <2>3. BusOK'
    BY <2>1, BusSame, Zenon DEF NInv
  <2>4. PushedOnce' /\ AllPushed'
    <3>1. PushedOnce'
      BY <2>1, ComesSame, Zenon DEF NInv, PushedOnce
    <3>2. AllPushed'
      BY <2>1, ComesSame, Zenon DEF NInv, AllPushed
    <3> QED
      BY <3>1, <3>2, Zenon
  <2> QED
    BY <2>2, <2>3, <2>4, Zenon DEF NInv
<1> QED
  BY <1>1, <1>2, Zenon

\* Every change is queued once for each subscriber it concerns, for no other, and in no queue
\* after the subscription was freed; a queue holds the newest of them in order and has counted
\* the rest: for any number of writers, subscribers and events, and any queue size.  A callback
\* and a poll are one step each, which danos_gnmi_subscribe_poll and gnmi_event_cb are only
\* while they take turns; writers may walk the bus together.
THEOREM EventsAreExact == NotifySpec => []EventsExact
<1>1. NInv /\ RestOK /\ [NotifyNext]_notifyVars => (NInv /\ RestOK)'
  BY StepNotify, Zenon
<1>2. NotifyInit => NInv /\ RestOK
  BY InitNotify, Zenon DEF NInv, RestOK, NotifyInit
<1>3. NInv => EventsExact
  BY QueuesAreExact, AllAreQueued, Zenon DEF NInv, EventsExact, NoUseAfterFree, BusOK
<1> QED
  BY <1>1, <1>2, <1>3, PTL DEF NotifySpec
=============================================================================
