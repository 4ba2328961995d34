-------------------------- MODULE NorthboundProofs --------------------------
(***************************************************************************)
(* Proofs about the management front ends and their objects (module        *)
(* Northbound), for any number of sessions and any requests.               *)
(***************************************************************************)
EXTENDS Northbound, WellFoundedInduction, TLAPS

-----------------------------------------------------------------------------
(* Types. *)

Making == {"lookup", "group_read", "nh_update", "alloc_group", "alloc_nh", "nh_create",
           "group_create", "route_create"}
Deleting == {"match", "collect", "del_read", "del_route", "del_group", "del_nh"}
Elsewhere == {"leaf_read", "leaf_write", "if_alloc", "if_create", "if_delete", "rest_route",
              "put_create", "put_update", "drop"}
PCs == {"idle", "next", "commit"} \cup Making \cup Deleting \cup Elsewhere

KeyOf(it) == RouteKey(it.vrf, it.prefix)
Keys == {<< >>} \cup {KeyOf(it) : it \in Items}
LeafVals(it) == {it.chg[f] : f \in DOMAIN it.chg}
NewVal(it, f) == IF f = "name" THEN it.name ELSE
                 IF f = "mtu" THEN it.mtu % 65536 ELSE
                 IF f = "up" THEN TRUE ELSE "none"
NewVals(it) == {NewVal(it, f) : f \in Fields}
NewIface(it) == [f \in Fields |-> NewVal(it, f)]
IfVals == UNION {NewVals(it) \cup LeafVals(it) : it \in Items}
IfObjs == [Fields -> IfVals]
RouteObjs == [af : {0, 4}, grp : Nat]
Threads == [pc : PCs, todo : Seq(Items), item : Items \cup {NoItem}, key : Keys, gid : Nat,
            nid : Nat, grp : Seq(Nat), i : Nat, idx : Nat, old : {<< >>} \cup IfObjs]

\* The ids in use are numbers and have a bound.
Bounded(S) == S \subseteq Nat /\ \E m \in Nat : \A x \in S : x <= m

IfTypes == Bounded(DOMAIN ifaces) /\ ifaces \in [DOMAIN ifaces -> IfObjs]
NbTypes ==
  /\ sess \in [Sessions -> Threads] /\ gMatch \in Keys
  /\ Bounded(DOMAIN nhs) /\ Bounded(DOMAIN groups) /\ groups \in [DOMAIN groups -> Seq(Nat)]
  /\ routes \in [DOMAIN routes -> RouteObjs]
  /\ answered \in [Sessions -> {"none", "ok", "error"}]
  /\ IfTypes

\* What item a thread works on, by where it is.
PhaseOK(t) ==
  /\ t.pc \in {"idle", "next"} => t.item = NoItem
  /\ t.pc \notin {"idle", "next"} => t.item \in Items
  /\ t.pc \in Making => t.item.op \in {"set", "ecmp"}
  /\ t.pc \in Deleting => t.item.op = "del"
  /\ t.pc \in Elsewhere => t.item.op \notin RouteOps
  /\ t.pc = "lookup" => t.grp = << >>
  /\ t.pc \in {"if_alloc", "if_create"} => t.item.op = "iface"
  /\ t.pc = "rest_route" => t.item.op = "restroute"
  /\ t.pc = "leaf_write" => t.old \in IfObjs
Phases == \A s \in Sessions : PhaseOK(sess[s])

-----------------------------------------------------------------------------
(* Maps and numbers. *)

\* Writing a key adds it to the domain and nothing else.
LEMMA Domains == \A f, k, v : DOMAIN Put(f, k, v) = DOMAIN f \cup {k}
BY Zenon DEF Put

\* What an object table holds after a create or an update ...
LEMMA PutFacts ==
  ASSUME NEW f, NEW k, NEW v
  PROVE  /\ DOMAIN Put(f, k, v) = DOMAIN f \cup {k} /\ Put(f, k, v)[k] = v
         /\ \A x \in DOMAIN f : x # k => Put(f, k, v)[x] = f[x]
         /\ \A S : f \in [DOMAIN f -> S] /\ v \in S => Put(f, k, v) \in [DOMAIN Put(f, k, v) -> S]
BY Zenon DEF Put

\* ... and after a delete.
LEMMA DropFacts ==
  ASSUME NEW f, NEW k
  PROVE  /\ DOMAIN Drop(f, k) = DOMAIN f \ {k}
         /\ \A x \in DOMAIN f : x # k => Drop(f, k)[x] = f[x]
         /\ \A S : f \in [DOMAIN f -> S] => Drop(f, k) \in [DOMAIN Drop(f, k) -> S]
BY Zenon DEF Drop

Less == {ss \in Nat \X Nat : ss[1] < ss[2]}
\* Every non-empty set of numbers has a least one.
LEMMA LeastElement ==
  ASSUME NEW T \in SUBSET Nat, T # {}
  PROVE  \E x \in T : \A y \in T : x <= y
<1>1. IsWellFoundedOn(Less, Nat)
  BY NatLessThanWellFounded, Zenon DEF OpToRel, Less
<1>2. PICK x \in T : \A y \in T : ~(<<y, x>> \in Less)
  BY <1>1, WFMin, Zenon
<1>3. \A y \in T : x \in Nat /\ y \in Nat /\ ~(y < x)
  BY <1>2, Zenon DEF Less
<1> QED
  BY <1>3

\* The largest id exists: it is the least of the bounds.
LEMMA MaxIs ==
  ASSUME NEW S, Bounded(S), S # {}
  PROVE  MaxOf(S) \in Nat
<1> DEFINE T == {m \in Nat : \A x \in S : x <= m}
<1>1. PICK m \in T : \A y \in T : m <= y
  <2>1. T # {} /\ T \in SUBSET Nat
    BY Zenon DEF Bounded
  <2> QED
    BY <2>1, LeastElement, Zenon
<1>2. m \in S
  <2> SUFFICES ASSUME m \notin S PROVE FALSE
    BY Zenon
  <2>1. PICK x \in S : x \in Nat
    BY Zenon DEF Bounded
  <2>2. m \in Nat /\ x <= m /\ x # m
    BY <1>1, <2>1, Zenon
  <2>3. m - 1 \in Nat
    BY <2>1, <2>2
  <2>4. \A y \in S : y \in Nat /\ y <= m /\ y # m
    BY <1>1, Zenon DEF Bounded
  <2>5. \A y \in S : y <= m - 1
    BY <2>2, <2>4
  <2>6. m - 1 \in T /\ ~(m <= m - 1)
    BY <2>2, <2>3, <2>5
  <2> QED
    BY <1>1, <2>6, Zenon
<1>3. \E z \in S : \A x \in S : x <= z
  BY <1>1, <1>2, Zenon
<1>4. MaxOf(S) \in S
  BY <1>3, Zenon DEF MaxOf
<1> QED
  BY <1>4, Zenon DEF Bounded

\* Adding one id keeps the ids bounded.
LEMMA BoundedPut ==
  ASSUME NEW S, Bounded(S), NEW n \in Nat
  PROVE  Bounded(S \cup {n}) /\ \A T : T \subseteq S => Bounded(T)
<1>1. PICK m \in Nat : \A x \in S : x <= m
  BY Zenon DEF Bounded
<1>2. \A x \in S \cup {n} : x \in Nat /\ x <= m + n
  BY <1>1 DEF Bounded
<1>3. m + n \in Nat
  BY <1>1
<1> QED
  BY <1>1, <1>2, <1>3, Zenon DEF Bounded

-----------------------------------------------------------------------------
(* Every step moves one thread and keeps the types. *)

\* The thread of session s becomes n, the other threads do not move.
Moves(s, n) == n \in Threads /\ PhaseOK(n) /\ sess' = [sess EXCEPT ![s] = n]

\* One thread's move keeps the types and the phases of all threads.
LEMMA MoveTypes ==
  ASSUME NbTypes, Phases, NEW s \in Sessions, NEW n, Moves(s, n)
  PROVE  /\ sess' \in [Sessions -> Threads] /\ Phases' /\ sess'[s] = n
         /\ \A o \in Sessions \ {s} : sess'[o] = sess[o]
<1>1. sess' \in [Sessions -> Threads] /\ sess'[s] = n
      /\ \A o \in Sessions \ {s} : sess'[o] = sess[o]
  BY Zenon DEF NbTypes, Moves
<1>2. \A o \in Sessions : PhaseOK(sess'[o])
  BY <1>1, Zenon DEF Phases, Moves
<1> QED
  BY <1>1, <1>2, Zenon DEF Phases, PhaseOK

\* What a thread is when a request is over, before the next item, and when it starts one.
LEMMA IdleThread ==
  Idle \in Threads /\ PhaseOK(Idle) /\ Idle.pc = "idle" /\ Idle.item = NoItem /\ Idle.grp = << >>
<1>1. Idle \in Threads
  BY DEF Idle, Threads, PCs, Keys
<1>2. Idle.pc = "idle" /\ Idle.item = NoItem /\ Idle.grp = << >>
  BY Zenon DEF Idle
<1> QED
  BY <1>1, <1>2, Zenon DEF PhaseOK, Making, Deleting, Elsewhere

\* A thread that goes on to the next item of its request.
LEMMA NextThread ==
  ASSUME NEW rest \in Seq(Items), NEW n, n = [Idle EXCEPT !.pc = "next", !.todo = rest]
  PROVE  n \in Threads /\ PhaseOK(n) /\ n.pc = "next" /\ n.item = NoItem
<1>1. n \in Threads
  BY IdleThread, Zenon DEF Threads, PCs
<1>2. n.pc = "next" /\ n.item = NoItem
  BY Zenon DEF Idle
<1> QED
  BY <1>1, <1>2, Zenon DEF PhaseOK, Making, Deleting, Elsewhere

Started(it, rest) == [Idle EXCEPT !.pc = Start(it), !.item = it, !.todo = rest]
\* A thread that takes up an item starts where the item's operation says.
LEMMA StartThread ==
  ASSUME NEW rest \in Seq(Items), NEW it \in Items, NEW n, n = Started(it, rest)
  PROVE  /\ n \in Threads /\ PhaseOK(n) /\ n.item = it /\ n.pc = Start(it)
         /\ Start(it) \in ({"lookup", "match"} \cup Elsewhere) \ {"leaf_write"}
<1>1. /\ Start(it) \in {"lookup", "match"} \cup Elsewhere
      /\ Start(it) \in Making => it.op \in {"set", "ecmp"}
      /\ Start(it) \in Deleting => it.op = "del"
      /\ Start(it) \in Elsewhere => it.op \notin RouteOps
      /\ Start(it) \in {"if_alloc", "if_create"} => it.op = "iface"
      /\ Start(it) = "rest_route" => it.op = "restroute"
      /\ Start(it) # "leaf_write"
  BY Zenon DEF Start, Making, Deleting, Elsewhere, RouteOps
<1>2. Start(it) \in PCs \ {"idle", "next"}
  BY <1>1, Zenon DEF PCs, Making, Deleting, Elsewhere
<1>3. n \in Threads
  BY <1>2, IdleThread, Zenon DEF Threads, Started
<1>4. n.pc = Start(it) /\ n.item = it /\ n.grp = << >>
  BY Zenon DEF Idle, Started
<1> QED
  BY <1>1, <1>2, <1>3, <1>4, Zenon DEF PhaseOK

\* Where the end of an item leaves its thread, and what it records.
LEMMA FinishFacts ==
  ASSUME NbTypes, Phases, NEW s \in Sessions, NEW reply \in {"ok", "error"}, Finish(s, reply)
  PROVE  /\ \E n : Moves(s, n) /\ n.pc \in {"idle", "next"} /\ n.item = NoItem
         /\ answered' \in [Sessions -> {"none", "ok", "error"}]
         /\ ~refused' => ~refused /\ (reply = "ok" \/ sess[s].item.op \notin RouteOps)
<1>1. sess[s] \in Threads /\ sess[s].todo \in Seq(Items)
  BY Zenon DEF NbTypes, Threads
<1>2. \E n : Moves(s, n) /\ n.pc \in {"idle", "next"} /\ n.item = NoItem
  <2>1. CASE reply = "ok"
    <3>0. PICK n : n = [Idle EXCEPT !.pc = "next", !.todo = sess[s].todo]
      BY Zenon
    <3>1. n \in Threads /\ PhaseOK(n) /\ n.pc = "next" /\ n.item = NoItem
      BY <1>1, <3>0, NextThread, Zenon
    <3>2. sess' = [sess EXCEPT ![s] = n]
      BY <2>1, <3>0, Zenon DEF Finish, Go
    <3> QED
      BY <3>1, <3>2, Zenon DEF Moves
  <2>2. CASE reply = "error"
    <3>1. sess' = [sess EXCEPT ![s] = Idle]
      BY <2>2, Zenon DEF Finish, Go
    <3> QED
      BY <3>1, IdleThread, Zenon DEF Moves
  <2> QED
    BY <2>1, <2>2, Zenon
<1>3. answered' \in [Sessions -> {"none", "ok", "error"}]
  BY Zenon DEF Finish, NbTypes
<1>4. ~refused' => ~refused /\ (reply = "ok" \/ sess[s].item.op \notin RouteOps)
  BY Zenon DEF Finish, Item
<1> QED
  BY <1>2, <1>3, <1>4, Zenon

\* Where a new item starts.
LEMMA BeginFacts ==
  ASSUME NbTypes, Phases, NEW s \in Sessions, NEW it \in Items, NEW rest \in Seq(Items),
         Begin(s, it, rest)
  PROVE  /\ \E n : Moves(s, n) /\ n.item = it /\ n.pc \in ({"lookup", "match"} \cup Elsewhere) \ {"leaf_write"}
         /\ answered' \in [Sessions -> {"none", "ok", "error"}]
<1>1. PICK n : n = Started(it, rest)
  BY Zenon
<1>2. n \in Threads /\ PhaseOK(n) /\ n.item = it /\ n.pc = Start(it)
      /\ n.pc \in ({"lookup", "match"} \cup Elsewhere) \ {"leaf_write"}
  BY <1>1, StartThread
<1>3. sess' = [sess EXCEPT ![s] = n]
  BY <1>1, Zenon DEF Begin, Go, Started
<1>4. answered' \in [Sessions -> {"none", "ok", "error"}]
  BY Zenon DEF Begin, NbTypes
<1> QED
  BY <1>2, <1>3, <1>4, Zenon DEF Moves

\* A request starts its first item, a Set's next item comes from the list that is left.
LEMMA RequestFacts ==
  ASSUME NbTypes, Phases, NEW s \in Sessions, NEW f \in Fronts, Request(s, f)
  PROVE  \E it \in Items, rest \in Seq(Items) : Begin(s, it, rest)
<1>1. PICK r \in Requests[f] : Begin(s, Head(r), Tail(r))
  BY Zenon DEF Request
<1>2. r \in Seq(Items) /\ r # << >>
  BY <1>1, RequestsAssumption, Zenon
<1>3. Head(r) \in Items /\ Tail(r) \in Seq(Items)
  BY <1>2
<1> QED
  BY <1>1, <1>3, Zenon

\* Within the handler of one item a thread stays among that handler's places.
LEMMA SameHandler ==
  ASSUME NEW t, NEW n, PhaseOK(t), n.item = t.item, t.pc \notin {"idle", "next"},
         \/ n.pc = "commit"
         \/ n.pc \in Making \ {"lookup"} /\ t.pc \in Making
         \/ n.pc \in Deleting /\ t.pc \in Deleting
         \/ n.pc = "put_update" /\ t.pc \in Elsewhere
         \/ n.pc = "leaf_write" /\ t.pc \in Elsewhere /\ n.old \in IfObjs
         \/ n.pc = "if_create" /\ t.pc = "if_alloc"
  PROVE  PhaseOK(n)
BY Zenon DEF PhaseOK, Making, Deleting, Elsewhere

\* What next_nh_id and next_group_id return.
LEMMA NextIds ==
  ASSUME NbTypes
  PROVE  next_nh_id \in Nat /\ next_nh_id > 0 /\ next_group_id \in Nat
         /\ MaxOf(DOMAIN ifaces \cup {0}) \in Nat
<1>1. Bounded(DOMAIN nhs \cup {100}) /\ Bounded(DOMAIN groups \cup {100})
      /\ Bounded(DOMAIN ifaces \cup {0})
  BY BoundedPut, Zenon DEF NbTypes, IfTypes
<1>2. MaxOf(DOMAIN nhs \cup {100}) \in Nat /\ MaxOf(DOMAIN groups \cup {100}) \in Nat
      /\ MaxOf(DOMAIN ifaces \cup {0}) \in Nat
  BY <1>1, MaxIs, Zenon
<1> QED
  BY <1>2 DEF next_nh_id, next_group_id, IdBase

\* find_static_route: the group of the static route under the key, its first next hop.
LEMMA FindFacts ==
  ASSUME NbTypes, NEW k, NEW lu, lu = find_static_route(k)
  PROVE  /\ lu.found <=> k \in StaticKeys
         /\ lu.gid \in Nat /\ lu.nid \in Nat
         /\ k \in StaticKeys => lu.gid = routes[k].grp
         /\ lu.gid \in DOMAIN groups /\ groups[lu.gid] # << >> => lu.nid = groups[lu.gid][1]
<1>1. /\ lu.found <=> k \in StaticKeys
      /\ lu.gid = IF k \in StaticKeys THEN routes[k].grp ELSE 0
      /\ lu.nid = IF lu.gid \in DOMAIN groups /\ groups[lu.gid] # << >>
                  THEN groups[lu.gid][1] ELSE 0
  BY Zenon DEF find_static_route, StaticKeys
<1>2. \A x \in StaticKeys : routes[x].grp \in Nat
  BY Zenon DEF NbTypes, RouteObjs, StaticKeys
<1>3. \A g \in DOMAIN groups : groups[g] # << >> => groups[g][1] \in Nat
  BY DEF NbTypes
<1> QED
  BY <1>1, <1>2, <1>3

\* The effect of each step of gnmi_route_set and gnmi_route_set_ecmp on its thread.
LEMMA LookupFacts ==
  ASSUME NbTypes, Phases, NEW s \in Sessions, Lookup(s)
  PROVE  \E n :
    LET t == sess[s]  k == KeyOf(t.item) IN
    /\ Moves(s, n) /\ n.item = t.item /\ n.i = 1
    /\ k \in StaticKeys =>
         /\ n.gid = routes[k].grp
         /\ t.item.op = "set" =>
              /\ n.pc = "nh_update" /\ Len(n.grp) = 1
              /\ n.gid \in DOMAIN groups /\ groups[n.gid] # << >> => n.grp[1] = groups[n.gid][1]
         /\ t.item.op # "set" => n.pc = "group_read"
    /\ k \notin StaticKeys => n.pc \in {"alloc_nh", "alloc_group"} /\ n.grp = << >>
<1>1. PICK t : t = sess[s] /\ t \in Threads /\ PhaseOK(t) /\ t.pc = "lookup" /\ t.grp = << >>
  BY Zenon DEF Lookup, At, NbTypes, Phases, PhaseOK
<1>2. PICK k : k = KeyOf(t.item)
  BY Zenon
<1>3. PICK lu : lu = find_static_route(k)
  BY Zenon
<1>4. PICK n : n = IF t.item.op = "set"
                   THEN IF lu.found
                        THEN [t EXCEPT !.gid = lu.gid, !.i = 1, !.pc = "nh_update", !.grp = <<lu.nid>>]
                        ELSE [t EXCEPT !.gid = lu.gid, !.i = 1, !.pc = "alloc_nh"]
                   ELSE [t EXCEPT !.gid = lu.gid, !.i = 1,
                                  !.pc = IF lu.found THEN "group_read" ELSE "alloc_group"]
  BY Zenon
<1>5. lu.gid \in Nat /\ lu.nid \in Nat /\ (lu.found <=> k \in StaticKeys)
  BY <1>3, FindFacts, Zenon
<1>6. sess' = [sess EXCEPT ![s] = n]
  BY <1>1, <1>2, <1>3, <1>4, Zenon DEF Lookup, Go, Item, ItemKey, KeyOf
<1>7. n \in Threads
  <2>1. <<lu.nid>> \in Seq(Nat) /\ lu.gid \in Nat /\ t \in Threads
    BY <1>1, <1>5
  <2>2. {"nh_update", "alloc_nh", "group_read", "alloc_group"} \subseteq PCs
    BY Zenon DEF PCs, Making
  <2>3. CASE t.item.op = "set" /\ lu.found
    BY <1>4, <2>1, <2>2, <2>3, Zenon DEF Threads
  <2>4. CASE t.item.op = "set" /\ ~lu.found
    BY <1>4, <2>1, <2>2, <2>4, Zenon DEF Threads
  <2>5. CASE t.item.op # "set"
    BY <1>4, <2>1, <2>2, <2>5, Zenon DEF Threads
  <2> QED
    BY <2>3, <2>4, <2>5, Zenon
<1>8. /\ n.item = t.item /\ n.i = 1 /\ n.gid = lu.gid
      /\ t.item.op = "set" /\ lu.found => n.pc = "nh_update" /\ n.grp = <<lu.nid>>
      /\ t.item.op = "set" /\ ~lu.found => n.pc = "alloc_nh" /\ n.grp = t.grp
      /\ t.item.op # "set" => n.grp = t.grp /\ n.pc = IF lu.found THEN "group_read" ELSE "alloc_group"
  BY <1>1, <1>4, Zenon DEF Threads
<1>9. PhaseOK(n)
  BY <1>1, <1>8, SameHandler, Zenon DEF Making
<1>10. /\ k \in StaticKeys => n.gid = routes[k].grp
       /\ n.gid \in DOMAIN groups /\ groups[n.gid] # << >> => lu.nid = groups[n.gid][1]
  BY <1>3, <1>8, FindFacts
<1>11. \A x : Len(<<x>>) = 1 /\ <<x>>[1] = x
  BY Zenon
<1> QED
  BY <1>1, <1>2, <1>5, <1>6, <1>7, <1>8, <1>9, <1>10, <1>11, ZenonT(30) DEF Moves

\* gnmi_route_set_ecmp on an existing route goes on only with a group of the right size.
LEMMA GroupReadFacts ==
  ASSUME NbTypes, Phases, NEW s \in Sessions, GroupRead(s)
  PROVE  \/ Fail(s)
         \/ /\ UNCHANGED <<objs, hist>> /\ Keep /\ sess[s].gid \in DOMAIN groups
            /\ Len(groups[sess[s].gid]) = Len(sess[s].item.gws)
            /\ \E n : /\ Moves(s, n) /\ n.item = sess[s].item /\ n.i = sess[s].i
                      /\ n.gid = sess[s].gid /\ n.pc = "nh_update" /\ n.grp = groups[n.gid]
<1>1. PICK t : t = sess[s] /\ t \in Threads /\ PhaseOK(t) /\ t.pc = "group_read"
  BY Zenon DEF GroupRead, At, NbTypes, Phases
<1>2. CASE t.gid \in DOMAIN groups /\ Len(groups[t.gid]) = Len(t.item.gws)
  <2>1. PICK n : n = [t EXCEPT !.pc = "nh_update", !.grp = groups[t.gid]]
    BY Zenon
  <2>2. groups[t.gid] \in Seq(Nat)
    BY <1>2, Zenon DEF NbTypes
  <2>3. n \in Threads
    BY <1>1, <2>1, <2>2, Zenon DEF Threads, PCs, Making
  <2>4. n.item = t.item /\ n.i = t.i /\ n.gid = t.gid /\ n.pc = "nh_update" /\ n.grp = groups[t.gid]
    BY <1>1, <2>1, Zenon DEF Threads
  <2>5. PhaseOK(n)
    BY <1>1, <2>4, SameHandler, Zenon DEF Making
  <2>6. sess' = [sess EXCEPT ![s] = n] /\ UNCHANGED <<objs, hist>> /\ Keep
    BY <1>1, <1>2, <2>1, Zenon DEF GroupRead, Go, Item
  <2> QED
    BY <1>1, <1>2, <2>3, <2>4, <2>5, <2>6, Zenon DEF Moves
<1>3. CASE ~(t.gid \in DOMAIN groups /\ Len(groups[t.gid]) = Len(t.item.gws))
  BY <1>1, <1>3, Zenon DEF GroupRead, Item
<1> QED
  BY <1>2, <1>3, Zenon

\* A set or ecmp item's gateways.
LEMMA ItemGateways ==
  ASSUME NEW it \in Items, it.op \in {"set", "ecmp"}
  PROVE  /\ Len(it.gws) \in Nat /\ Len(it.gws) >= 1 /\ DOMAIN it.gws = 1..Len(it.gws)
         /\ it.op = "set" => Len(it.gws) = 1
<1>1. PICK S : S = {it.gws[i] : i \in DOMAIN it.gws}
  BY Zenon
<1>2. it.gws \in Seq(S) /\ it.gws # << >> /\ (it.op = "set" => Len(it.gws) = 1)
  BY <1>1, RequestsAssumption, Zenon
<1>3. Len(it.gws) \in Nat /\ Len(it.gws) >= 1 /\ DOMAIN it.gws = 1..Len(it.gws)
  BY <1>2
<1> QED
  BY <1>2, <1>3, Zenon

\* danos_nh_update on a member.
LEMMA NhUpdateFacts ==
  ASSUME NbTypes, Phases, NEW s \in Sessions, NhUpdate(s)
  PROVE  \/ Fail(s)
         \/ /\ UNCHANGED <<groups, routes, ifaces, tables, hist>> /\ Keep
            /\ \E n : LET t == sess[s] IN
                 /\ Moves(s, n) /\ n.item = t.item /\ n.i = t.i + 1 /\ n.gid = t.gid /\ n.grp = t.grp
                 /\ n.pc = IF t.i = Len(t.grp) THEN "commit" ELSE "nh_update"
            /\ sess[s].grp[sess[s].i] \in DOMAIN nhs
            /\ nhs' = Put(nhs, sess[s].grp[sess[s].i], sess[s].item.gws[sess[s].i])
<1>1. PICK t : t = sess[s] /\ t \in Threads /\ PhaseOK(t) /\ t.pc = "nh_update"
  BY Zenon DEF NhUpdate, At, NbTypes, Phases
<1>2. CASE t.grp[t.i] \in DOMAIN nhs
  <2>1. PICK n : n = [t EXCEPT !.i = t.i + 1,
                               !.pc = IF t.i = Len(t.grp) THEN "commit" ELSE "nh_update"]
    BY Zenon
  <2>2. t.i + 1 \in Nat
    BY <1>1 DEF Threads
  <2>3. n \in Threads
    BY <1>1, <2>1, <2>2, ZenonT(30) DEF Threads, PCs, Making
  <2>4. /\ n.item = t.item /\ n.i = t.i + 1 /\ n.gid = t.gid /\ n.grp = t.grp
        /\ n.pc = IF t.i = Len(t.grp) THEN "commit" ELSE "nh_update"
    BY <1>1, <2>1, Zenon DEF Threads
  <2>5. PhaseOK(n)
    BY <1>1, <2>4, SameHandler, Zenon DEF Making
  <2>6. t.pc = "nh_update" /\ [t EXCEPT !.i = t.i + 1, !.pc = IF t.i = Len(t.grp) THEN "commit" ELSE @] = n
    BY <1>1, <2>1, Zenon
  <2>7. /\ sess' = [sess EXCEPT ![s] = n] /\ nhs' = Put(nhs, t.grp[t.i], t.item.gws[t.i])
        /\ UNCHANGED <<groups, routes, ifaces, tables, hist>> /\ Keep
    BY <1>1, <1>2, <2>6, Zenon DEF NhUpdate, NhTarget, Go, Item
  <2> QED
    BY <1>1, <1>2, <2>3, <2>4, <2>5, <2>7, Zenon DEF Moves
<1>3. CASE ~(t.grp[t.i] \in DOMAIN nhs)
  BY <1>1, <1>3, Zenon DEF NhUpdate, NhTarget
<1> QED
  BY <1>2, <1>3, Zenon

\* next_group_id.
LEMMA AllocGroupFacts ==
  ASSUME NbTypes, Phases, NEW s \in Sessions, AllocGroup(s)
  PROVE  /\ UNCHANGED <<objs, hist>> /\ Keep
         /\ \E n : LET t == sess[s] IN
              /\ Moves(s, n)
              /\ n.item = t.item /\ n.gid = next_group_id /\ n.nid = t.nid /\ n.grp = t.grp
              /\ n.i = t.i /\ n.key = t.key /\ n.pc = IF t.item.op = "set" THEN "nh_create" ELSE "alloc_nh"
<1>1. PICK t : t = sess[s] /\ t \in Threads /\ PhaseOK(t) /\ t.pc = "alloc_group"
  BY Zenon DEF AllocGroup, At, NbTypes, Phases
<1>2. PICK n : n = [t EXCEPT !.gid = next_group_id, !.pc = IF t.item.op = "set" THEN "nh_create" ELSE "alloc_nh"]
  BY Zenon
<1>3. next_group_id \in Nat
  BY <1>1, NextIds, Zenon
<1>4. n \in Threads
  BY <1>1, <1>2, <1>3, Zenon DEF Threads, PCs, Making
<1>5. /\ n.item = t.item /\ n.gid = next_group_id /\ n.nid = t.nid /\ n.grp = t.grp
      /\ n.i = t.i /\ n.key = t.key /\ n.pc = IF t.item.op = "set" THEN "nh_create" ELSE "alloc_nh"
  BY <1>1, <1>2, Zenon DEF Threads
<1>6. PhaseOK(n)
  BY <1>1, <1>5, SameHandler, Zenon DEF Making
<1>7. sess' = [sess EXCEPT ![s] = n] /\ UNCHANGED <<objs, hist>> /\ Keep
  BY <1>1, <1>2, Zenon DEF AllocGroup, Go, Goto, Item
<1> QED
  BY <1>1, <1>4, <1>5, <1>6, <1>7, Zenon DEF Moves

\* next_nh_id.
LEMMA AllocNhFacts ==
  ASSUME NbTypes, Phases, NEW s \in Sessions, AllocNh(s)
  PROVE  /\ UNCHANGED <<objs, hist>> /\ Keep
         /\ \E n : LET t == sess[s] IN
              /\ Moves(s, n)
              /\ n.item = t.item /\ n.gid = t.gid /\ n.nid = next_nh_id + t.i - 1 /\ n.grp = t.grp
              /\ n.i = t.i /\ n.key = t.key /\ n.pc = IF t.item.op = "set" THEN "alloc_group" ELSE "nh_create"
<1>1. PICK t : t = sess[s] /\ t \in Threads /\ PhaseOK(t) /\ t.pc = "alloc_nh"
  BY Zenon DEF AllocNh, At, NbTypes, Phases
<1>2. PICK n : n = [t EXCEPT !.nid = next_nh_id + t.i - 1, !.pc = IF t.item.op = "set" THEN "alloc_group" ELSE "nh_create"]
  BY Zenon
<1>3. next_nh_id + t.i - 1 \in Nat
  BY <1>1, NextIds DEF Threads
<1>4. n \in Threads
  BY <1>1, <1>2, <1>3, ZenonT(30) DEF Threads, PCs, Making
<1>5. /\ n.item = t.item /\ n.gid = t.gid /\ n.nid = next_nh_id + t.i - 1 /\ n.grp = t.grp
      /\ n.i = t.i /\ n.key = t.key /\ n.pc = IF t.item.op = "set" THEN "alloc_group" ELSE "nh_create"
  BY <1>1, <1>2, Zenon DEF Threads
<1>6. PhaseOK(n)
  BY <1>1, <1>5, SameHandler, Zenon DEF Making
<1>7. sess' = [sess EXCEPT ![s] = n] /\ UNCHANGED <<objs, hist>> /\ Keep
  BY <1>1, <1>2, Zenon DEF AllocNh, Go, Goto, Item
<1> QED
  BY <1>1, <1>4, <1>5, <1>6, <1>7, Zenon DEF Moves

\* danos_nh_create.
LEMMA NhCreateFacts ==
  ASSUME NbTypes, Phases, NEW s \in Sessions, NhCreate(s)
  PROVE  \/ Fail(s)
         \/ /\ UNCHANGED <<groups, routes, ifaces, tables, hist>> /\ Keep
            /\ \E n : LET t == sess[s] IN
                 /\ Moves(s, n)
                 /\ n.item = t.item /\ n.gid = t.gid /\ n.nid = t.nid /\ n.grp = Append(t.grp, t.nid)
                 /\ n.i = t.i + 1 /\ n.key = t.key /\ n.pc = IF t.i = Len(t.item.gws) THEN "group_create" ELSE "alloc_nh"
            /\ sess[s].nid \notin DOMAIN nhs /\ nhs' = Put(nhs, sess[s].nid, sess[s].item.gws[sess[s].i])
<1>1. PICK t : t = sess[s] /\ t \in Threads /\ PhaseOK(t) /\ t.pc = "nh_create"
  BY Zenon DEF NhCreate, At, NbTypes, Phases
<1>2. CASE ~(t.nid \in DOMAIN nhs)
  <2>1. PICK n : n = [t EXCEPT !.i = t.i + 1, !.grp = Append(t.grp, t.nid), !.pc = IF t.i = Len(t.item.gws) THEN "group_create" ELSE "alloc_nh"]
    BY Zenon
  <2>2. t.i + 1 \in Nat /\ Append(t.grp, t.nid) \in Seq(Nat)
    BY <1>1, <1>2 DEF Threads
  <2>3. n \in Threads
    BY <1>1, <2>1, <2>2, ZenonT(30) DEF Threads, PCs, Making
  <2>4. /\ n.item = t.item /\ n.gid = t.gid /\ n.nid = t.nid /\ n.grp = Append(t.grp, t.nid)
        /\ n.i = t.i + 1 /\ n.key = t.key /\ n.pc = IF t.i = Len(t.item.gws) THEN "group_create" ELSE "alloc_nh"
    BY <1>1, <2>1, Zenon DEF Threads
  <2>5. PhaseOK(n)
    BY <1>1, <2>4, SameHandler, Zenon DEF Making
  <2>6. sess' = [sess EXCEPT ![s] = n] /\ UNCHANGED <<groups, routes, ifaces, tables, hist>> /\ Keep /\ t.nid \notin DOMAIN nhs /\ nhs' = Put(nhs, t.nid, t.item.gws[t.i])
    BY <1>1, <1>2, <2>1, Zenon DEF NhCreate, Go, Goto, Item
  <2> QED
    BY <1>1, <1>2, <2>3, <2>4, <2>5, <2>6, Zenon DEF Moves
<1>3. CASE t.nid \in DOMAIN nhs
  BY <1>1, <1>3, Zenon DEF NhCreate, Item
<1> QED
  BY <1>2, <1>3, Zenon

\* danos_nhgroup_create.
LEMMA GroupCreateFacts ==
  ASSUME NbTypes, Phases, NEW s \in Sessions, GroupCreate(s)
  PROVE  \/ Fail(s)
         \/ /\ UNCHANGED <<nhs, routes, ifaces, tables, hist>> /\ Keep
            /\ \E n : LET t == sess[s] IN
                 /\ Moves(s, n)
                 /\ n.item = t.item /\ n.gid = t.gid /\ n.nid = t.nid /\ n.grp = t.grp
                 /\ n.i = t.i /\ n.key = t.key /\ n.pc = "route_create"
            /\ sess[s].gid \notin DOMAIN groups /\ groups' = Put(groups, sess[s].gid, sess[s].grp)
<1>1. PICK t : t = sess[s] /\ t \in Threads /\ PhaseOK(t) /\ t.pc = "group_create"
  BY Zenon DEF GroupCreate, At, NbTypes, Phases
<1>2. CASE ~(t.gid \in DOMAIN groups)
  <2>1. PICK n : n = [t EXCEPT !.pc = "route_create"]
    BY Zenon
  <2>2. n \in Threads
    BY <1>1, <2>1, Zenon DEF Threads, PCs, Making
  <2>3. /\ n.item = t.item /\ n.gid = t.gid /\ n.nid = t.nid /\ n.grp = t.grp
        /\ n.i = t.i /\ n.key = t.key /\ n.pc = "route_create"
    BY <1>1, <2>1, Zenon DEF Threads
  <2>4. PhaseOK(n)
    BY <1>1, <2>3, SameHandler, Zenon DEF Making
  <2>5. sess' = [sess EXCEPT ![s] = n] /\ UNCHANGED <<nhs, routes, ifaces, tables, hist>> /\ Keep /\ t.gid \notin DOMAIN groups /\ groups' = Put(groups, t.gid, t.grp)
    BY <1>1, <1>2, <2>1, Zenon DEF GroupCreate, Go, Goto, Item
  <2> QED
    BY <1>1, <1>2, <2>2, <2>3, <2>4, <2>5, Zenon DEF Moves
<1>3. CASE t.gid \in DOMAIN groups
  BY <1>1, <1>3, Zenon DEF GroupCreate, Item
<1> QED
  BY <1>2, <1>3, Zenon

\* danos_route_create.
LEMMA RouteCreateFacts ==
  ASSUME NbTypes, Phases, NEW s \in Sessions, RouteCreate(s)
  PROVE  \/ Fail(s)
         \/ /\ UNCHANGED <<nhs, groups, ifaces, tables, hist>> /\ Keep
            /\ \E n : LET t == sess[s] IN
                 /\ Moves(s, n)
                 /\ n.item = t.item /\ n.gid = t.gid /\ n.nid = t.nid /\ n.grp = t.grp
                 /\ n.i = t.i /\ n.key = t.key /\ n.pc = "commit"
            /\ KeyOf(sess[s].item) \notin DOMAIN routes
            /\ routes' = Put(routes, KeyOf(sess[s].item), [af |-> 4, grp |-> sess[s].gid])
<1>1. PICK t : t = sess[s] /\ t \in Threads /\ PhaseOK(t) /\ t.pc = "route_create"
  BY Zenon DEF RouteCreate, At, NbTypes, Phases
<1>2. CASE ~(KeyOf(t.item) \in DOMAIN routes)
  <2>1. PICK n : n = [t EXCEPT !.pc = "commit"]
    BY Zenon
  <2>2. n \in Threads
    BY <1>1, <2>1, Zenon DEF Threads, PCs, Making
  <2>3. /\ n.item = t.item /\ n.gid = t.gid /\ n.nid = t.nid /\ n.grp = t.grp
        /\ n.i = t.i /\ n.key = t.key /\ n.pc = "commit"
    BY <1>1, <2>1, Zenon DEF Threads
  <2>4. PhaseOK(n)
    BY <1>1, <2>3, SameHandler, Zenon DEF Making
  <2>5. sess' = [sess EXCEPT ![s] = n] /\ UNCHANGED <<nhs, groups, ifaces, tables, hist>> /\ Keep /\ KeyOf(t.item) \notin DOMAIN routes
         /\ routes' = Put(routes, KeyOf(t.item), [af |-> 4, grp |-> t.gid])
    BY <1>1, <1>2, <2>1, Zenon DEF RouteCreate, Go, Goto, Item, ItemKey, KeyOf
  <2> QED
    BY <1>1, <1>2, <2>2, <2>3, <2>4, <2>5, Zenon DEF Moves
<1>3. CASE KeyOf(t.item) \in DOMAIN routes
  <2>1. ItemKey(s) = KeyOf(t.item)
    BY <1>1, Zenon DEF ItemKey, KeyOf, Item
  <2> QED
    BY <1>3, <2>1, Zenon DEF RouteCreate
<1> QED
  BY <1>2, <1>3, Zenon

\* gnmi_route_delete announces its key.
LEMMA DelMatchFacts ==
  ASSUME NbTypes, Phases, NEW s \in Sessions, DelMatch(s)
  PROVE  /\ UNCHANGED <<objs, calls, hist, stuck, crashed>>
         /\ \E n : LET t == sess[s] IN
              /\ Moves(s, n)
              /\ n.item = t.item /\ n.gid = t.gid /\ n.nid = t.nid /\ n.grp = t.grp
              /\ n.i = t.i /\ n.key = t.key /\ n.pc = "collect"
         /\ gMatch' = KeyOf(sess[s].item)
<1>1. PICK t : t = sess[s] /\ t \in Threads /\ PhaseOK(t) /\ t.pc = "match"
  BY Zenon DEF DelMatch, At, NbTypes, Phases
<1>2. PICK n : n = [t EXCEPT !.pc = "collect"]
  BY Zenon
<1>3. n \in Threads
  BY <1>1, <1>2, Zenon DEF Threads, PCs, Deleting
<1>4. /\ n.item = t.item /\ n.gid = t.gid /\ n.nid = t.nid /\ n.grp = t.grp
      /\ n.i = t.i /\ n.key = t.key /\ n.pc = "collect"
  BY <1>1, <1>2, Zenon DEF Threads
<1>5. PhaseOK(n)
  BY <1>1, <1>4, SameHandler, Zenon DEF Deleting
<1>6. sess' = [sess EXCEPT ![s] = n] /\ UNCHANGED <<objs, calls, hist, stuck, crashed>> /\ gMatch' = KeyOf(t.item)
  <2>1. t.item \in Items /\ t.item.vrf = 0
    BY <1>1, RequestsAssumption, Zenon DEF PhaseOK, Deleting
  <2> QED
    BY <1>1, <1>2, <2>1, Zenon DEF DelMatch, Go, Goto, Item, KeyOf
<1> QED
  BY <1>1, <1>3, <1>4, <1>5, <1>6, Zenon DEF Moves

\* The delete finds the route that is announced.
LEMMA DelCollectFacts ==
  ASSUME NbTypes, Phases, NEW s \in Sessions, DelCollect(s)
  PROVE  /\ UNCHANGED objs /\ Keep
         /\ \/ gMatch \notin StaticKeys /\ Finish(s, "ok")
            \/ /\ gMatch \in StaticKeys /\ UNCHANGED hist
               /\ \E n : LET t == sess[s] IN
                    /\ Moves(s, n)
                    /\ n.item = t.item /\ n.gid = routes[gMatch].grp /\ n.nid = t.nid /\ n.grp = t.grp
                    /\ n.i = t.i /\ n.key = gMatch /\ n.pc = "del_read"
<1>1. PICK t : t = sess[s] /\ t \in Threads /\ PhaseOK(t) /\ t.pc = "collect"
  BY Zenon DEF DelCollect, At, NbTypes, Phases
<1>0. find_static_route(gMatch).found <=> gMatch \in StaticKeys
  BY FindFacts, Zenon
<1>2. CASE gMatch \in StaticKeys
  <2>1. PICK n : n = [t EXCEPT !.pc = "del_read", !.key = gMatch, !.gid = routes[gMatch].grp]
    BY Zenon
  <2>2. routes[gMatch].grp \in Nat /\ gMatch \in Keys
    BY <1>1, <1>2, Zenon DEF NbTypes, StaticKeys, RouteObjs
  <2>3. n \in Threads
    BY <1>1, <2>1, <2>2, Zenon DEF Threads, PCs, Deleting
  <2>4. /\ n.item = t.item /\ n.gid = routes[gMatch].grp /\ n.nid = t.nid /\ n.grp = t.grp
        /\ n.i = t.i /\ n.key = gMatch /\ n.pc = "del_read"
    BY <1>1, <2>1, Zenon DEF Threads
  <2>5. PhaseOK(n)
    BY <1>1, <2>4, SameHandler, Zenon DEF Deleting
  <2>6. sess' = [sess EXCEPT ![s] = n] /\ UNCHANGED <<objs, hist>> /\ Keep
    BY <1>0, <1>1, <1>2, <2>1, Zenon DEF DelCollect, Go
  <2> QED
    BY <1>1, <1>2, <2>3, <2>4, <2>5, <2>6, Zenon DEF Moves
<1>3. CASE gMatch \notin StaticKeys
  BY <1>0, <1>3, Zenon DEF DelCollect
<1> QED
  BY <1>2, <1>3, Zenon

\* The members are read before anything is deleted.
LEMMA DelReadFacts ==
  ASSUME NbTypes, Phases, NEW s \in Sessions, DelRead(s)
  PROVE  /\ UNCHANGED <<objs, hist>> /\ Keep
         /\ \E n : LET t == sess[s] IN
              /\ Moves(s, n)
              /\ n.item = t.item /\ n.gid = t.gid /\ n.nid = t.nid /\ n.grp = IF t.gid \in DOMAIN groups THEN groups[t.gid] ELSE << >>
              /\ n.i = 1 /\ n.key = t.key /\ n.pc = "del_route"
<1>1. PICK t : t = sess[s] /\ t \in Threads /\ PhaseOK(t) /\ t.pc = "del_read"
  BY Zenon DEF DelRead, At, NbTypes, Phases
<1>2. PICK n : n = [t EXCEPT !.pc = "del_route", !.i = 1, !.grp = IF t.gid \in DOMAIN groups THEN groups[t.gid] ELSE << >>]
  BY Zenon
<1>3. (IF t.gid \in DOMAIN groups THEN groups[t.gid] ELSE << >>) \in Seq(Nat)
  BY <1>1 DEF NbTypes
<1>4. n \in Threads
  BY <1>1, <1>2, <1>3, Zenon DEF Threads, PCs, Deleting
<1>5. /\ n.item = t.item /\ n.gid = t.gid /\ n.nid = t.nid /\ n.grp = IF t.gid \in DOMAIN groups THEN groups[t.gid] ELSE << >>
      /\ n.i = 1 /\ n.key = t.key /\ n.pc = "del_route"
  BY <1>1, <1>2, Zenon DEF Threads
<1>6. PhaseOK(n)
  BY <1>1, <1>5, SameHandler, Zenon DEF Deleting
<1>7. sess' = [sess EXCEPT ![s] = n] /\ UNCHANGED <<objs, hist>> /\ Keep
  BY <1>1, <1>2, Zenon DEF DelRead, Go, Goto, Item
<1> QED
  BY <1>1, <1>4, <1>5, <1>6, <1>7, Zenon DEF Moves

\* The route goes first.
LEMMA DelRouteFacts ==
  ASSUME NbTypes, Phases, NEW s \in Sessions, DelRoute(s)
  PROVE  \/ Fail(s)
         \/ /\ UNCHANGED <<nhs, groups, ifaces, tables, hist>> /\ Keep
            /\ \E n : LET t == sess[s] IN
                 /\ Moves(s, n)
                 /\ n.item = t.item /\ n.gid = t.gid /\ n.nid = t.nid /\ n.grp = t.grp
                 /\ n.i = t.i /\ n.key = t.key /\ n.pc = IF t.grp = << >> THEN "commit" ELSE "del_group"
            /\ sess[s].key \in DOMAIN routes /\ routes' = Drop(routes, sess[s].key)
<1>1. PICK t : t = sess[s] /\ t \in Threads /\ PhaseOK(t) /\ t.pc = "del_route"
  BY Zenon DEF DelRoute, At, NbTypes, Phases
<1>2. CASE ~(t.key \notin DOMAIN routes)
  <2>1. PICK n : n = [t EXCEPT !.pc = IF t.grp = << >> THEN "commit" ELSE "del_group"]
    BY Zenon
  <2>2. n \in Threads
    BY <1>1, <2>1, Zenon DEF Threads, PCs, Deleting
  <2>3. /\ n.item = t.item /\ n.gid = t.gid /\ n.nid = t.nid /\ n.grp = t.grp
        /\ n.i = t.i /\ n.key = t.key /\ n.pc = IF t.grp = << >> THEN "commit" ELSE "del_group"
    BY <1>1, <2>1, Zenon DEF Threads
  <2>4. PhaseOK(n)
    BY <1>1, <2>3, SameHandler, Zenon DEF Deleting
  <2>5. sess' = [sess EXCEPT ![s] = n] /\ UNCHANGED <<nhs, groups, ifaces, tables, hist>> /\ Keep /\ t.key \in DOMAIN routes /\ routes' = Drop(routes, t.key)
    BY <1>1, <1>2, <2>1, Zenon DEF DelRoute, Go, Goto, Item
  <2> QED
    BY <1>1, <1>2, <2>2, <2>3, <2>4, <2>5, Zenon DEF Moves
<1>3. CASE t.key \notin DOMAIN routes
  BY <1>1, <1>3, Zenon DEF DelRoute, Item
<1> QED
  BY <1>2, <1>3, Zenon

\* The group goes second.
LEMMA DelGroupFacts ==
  ASSUME NbTypes, Phases, NEW s \in Sessions, DelGroup(s)
  PROVE  \/ Fail(s)
         \/ /\ UNCHANGED <<nhs, routes, ifaces, tables, hist>> /\ Keep
            /\ \E n : LET t == sess[s] IN
                 /\ Moves(s, n)
                 /\ n.item = t.item /\ n.gid = t.gid /\ n.nid = t.nid /\ n.grp = t.grp
                 /\ n.i = t.i /\ n.key = t.key /\ n.pc = "del_nh"
            /\ sess[s].gid \in DOMAIN groups /\ groups' = Drop(groups, sess[s].gid)
<1>1. PICK t : t = sess[s] /\ t \in Threads /\ PhaseOK(t) /\ t.pc = "del_group"
  BY Zenon DEF DelGroup, At, NbTypes, Phases
<1>2. CASE ~(t.gid \notin DOMAIN groups)
  <2>1. PICK n : n = [t EXCEPT !.pc = "del_nh"]
    BY Zenon
  <2>2. n \in Threads
    BY <1>1, <2>1, Zenon DEF Threads, PCs, Deleting
  <2>3. /\ n.item = t.item /\ n.gid = t.gid /\ n.nid = t.nid /\ n.grp = t.grp
        /\ n.i = t.i /\ n.key = t.key /\ n.pc = "del_nh"
    BY <1>1, <2>1, Zenon DEF Threads
  <2>4. PhaseOK(n)
    BY <1>1, <2>3, SameHandler, Zenon DEF Deleting
  <2>5. sess' = [sess EXCEPT ![s] = n] /\ UNCHANGED <<nhs, routes, ifaces, tables, hist>> /\ Keep /\ t.gid \in DOMAIN groups /\ groups' = Drop(groups, t.gid)
    BY <1>1, <1>2, <2>1, Zenon DEF DelGroup, Go, Goto, Item
  <2> QED
    BY <1>1, <1>2, <2>2, <2>3, <2>4, <2>5, Zenon DEF Moves
<1>3. CASE t.gid \notin DOMAIN groups
  BY <1>1, <1>3, Zenon DEF DelGroup, Item
<1> QED
  BY <1>2, <1>3, Zenon

\* REST writes its route under the key of 0.0.0.0, with family 0.
LEMMA RestRouteFacts ==
  ASSUME NbTypes, Phases, NEW s \in Sessions, RestRoute(s)
  PROVE  \/ Fail(s)
         \/ /\ UNCHANGED <<nhs, groups, ifaces, tables, hist>> /\ Keep
            /\ \E n : LET t == sess[s] IN
                 /\ Moves(s, n)
                 /\ n.item = t.item /\ n.gid = t.gid /\ n.nid = t.nid /\ n.grp = t.grp
                 /\ n.i = t.i /\ n.key = t.key /\ n.pc = "commit"
            /\ RouteKey(0, ZeroPrefix) \notin DOMAIN routes
            /\ routes' = Put(routes, RouteKey(0, ZeroPrefix), [af |-> 0, grp |-> sess[s].item.grp])
<1>1. PICK t : t = sess[s] /\ t \in Threads /\ PhaseOK(t) /\ t.pc = "rest_route"
  BY Zenon DEF RestRoute, At, NbTypes, Phases
<1>2. CASE ~(RouteKey(0, ZeroPrefix) \in DOMAIN routes)
  <2>1. PICK n : n = [t EXCEPT !.pc = "commit"]
    BY Zenon
  <2>2. n \in Threads
    BY <1>1, <2>1, Zenon DEF Threads, PCs, Elsewhere
  <2>3. /\ n.item = t.item /\ n.gid = t.gid /\ n.nid = t.nid /\ n.grp = t.grp
        /\ n.i = t.i /\ n.key = t.key /\ n.pc = "commit"
    BY <1>1, <2>1, Zenon DEF Threads
  <2>4. PhaseOK(n)
    BY <1>1, <2>3, SameHandler, Zenon DEF Elsewhere
  <2>5. sess' = [sess EXCEPT ![s] = n] /\ UNCHANGED <<nhs, groups, ifaces, tables, hist>> /\ Keep /\ RouteKey(0, ZeroPrefix) \notin DOMAIN routes
         /\ routes' = Put(routes, RouteKey(0, ZeroPrefix), [af |-> 0, grp |-> t.item.grp])
    BY <1>1, <1>2, <2>1, Zenon DEF RestRoute, Go, Goto, Item
  <2> QED
    BY <1>1, <1>2, <2>2, <2>3, <2>4, <2>5, Zenon DEF Moves
<1>3. CASE RouteKey(0, ZeroPrefix) \in DOMAIN routes
  BY <1>1, <1>3, Zenon DEF RestRoute, Item
<1> QED
  BY <1>2, <1>3, Zenon

\* The next hops go last.
LEMMA DelNhFacts ==
  ASSUME NbTypes, Phases, NEW s \in Sessions, DelNh(s)
  PROVE  \/ /\ UNCHANGED <<objs, hist>> /\ Keep /\ ~CascadeMore(s)
            /\ \E n : Moves(s, n) /\ n.item = sess[s].item /\ n.pc = "commit"
         \/ /\ UNCHANGED <<groups, routes, ifaces, tables, hist>> /\ Keep
            /\ \E n : LET t == sess[s] IN
                 /\ Moves(s, n)
                 /\ n.item = t.item /\ n.gid = t.gid /\ n.nid = t.nid /\ n.grp = t.grp
                 /\ n.i = t.i + 1 /\ n.key = t.key /\ n.pc = "del_nh"
            /\ CascadeMore(s) /\ nhs' = Drop(nhs, sess[s].grp[sess[s].i])
<1>1. PICK t : t = sess[s] /\ t \in Threads /\ PhaseOK(t) /\ t.pc = "del_nh"
  BY Zenon DEF DelNh, At, NbTypes, Phases
<1>2. CASE CascadeMore(s)
  <2>1. PICK n : n = [t EXCEPT !.i = t.i + 1]
    BY Zenon
  <2>2. t.i + 1 \in Nat
    BY <1>1, <1>2 DEF Threads
  <2>3. n \in Threads
    BY <1>1, <2>1, <2>2, Zenon DEF Threads, PCs, Deleting
  <2>4. /\ n.item = t.item /\ n.gid = t.gid /\ n.nid = t.nid /\ n.grp = t.grp
        /\ n.i = t.i + 1 /\ n.key = t.key /\ n.pc = "del_nh"
    BY <1>1, <2>1, Zenon DEF Threads
  <2>5. PhaseOK(n)
    BY <1>1, <2>4, SameHandler, Zenon DEF Deleting
  <2>6. sess' = [sess EXCEPT ![s] = n] /\ UNCHANGED <<groups, routes, ifaces, tables, hist>> /\ Keep /\ CascadeMore(s) /\ nhs' = Drop(nhs, t.grp[t.i])
    BY <1>1, <1>2, <2>1, Zenon DEF DelNh, Go, Goto, Item
  <2> QED
    BY <1>1, <1>2, <2>3, <2>4, <2>5, <2>6, Zenon DEF Moves
<1>3. CASE ~CascadeMore(s)
  <2>1. PICK n : n = [t EXCEPT !.pc = "commit"]
    BY Zenon
  <2>2. n \in Threads
    BY <1>1, <2>1, Zenon DEF Threads, PCs
  <2>3. n.item = t.item /\ n.pc = "commit"
    BY <1>1, <2>1, Zenon DEF Threads
  <2>4. PhaseOK(n)
    BY <1>1, <2>3, SameHandler, Zenon
  <2>5. sess' = [sess EXCEPT ![s] = n] /\ UNCHANGED <<objs, hist>> /\ Keep
    BY <1>1, <1>3, <2>1, Zenon DEF DelNh, Goto, Go, objs
  <2> QED
    BY <1>1, <1>3, <2>2, <2>3, <2>4, <2>5, Zenon DEF Moves
<1> QED
  BY <1>2, <1>3, Zenon

\* A new interface takes the highest ifindex + 1.
LEMMA IfAllocFacts ==
  ASSUME NbTypes, Phases, NEW s \in Sessions, IfAlloc(s)
  PROVE  /\ UNCHANGED <<objs, hist>> /\ Keep
         /\ \E n : LET t == sess[s] IN
              /\ Moves(s, n)
              /\ n.item = t.item /\ n.gid = t.gid /\ n.nid = t.nid /\ n.grp = t.grp
              /\ n.i = t.i /\ n.key = t.key /\ n.pc = "if_create"
<1>1. PICK t : t = sess[s] /\ t \in Threads /\ PhaseOK(t) /\ t.pc = "if_alloc"
  BY Zenon DEF IfAlloc, At, NbTypes, Phases
<1>2. PICK n : n = [t EXCEPT !.pc = "if_create", !.idx = MaxOf(DOMAIN ifaces \cup {0}) + 1]
  BY Zenon
<1>3. MaxOf(DOMAIN ifaces \cup {0}) + 1 \in Nat
  BY <1>1, NextIds
<1>4. n \in Threads
  BY <1>1, <1>2, <1>3, Zenon DEF Threads, PCs, Elsewhere
<1>5. /\ n.item = t.item /\ n.gid = t.gid /\ n.nid = t.nid /\ n.grp = t.grp
      /\ n.i = t.i /\ n.key = t.key /\ n.pc = "if_create"
  BY <1>1, <1>2, Zenon DEF Threads
<1>6. PhaseOK(n)
  BY <1>1, <1>5, SameHandler, Zenon DEF Elsewhere
<1>7. sess' = [sess EXCEPT ![s] = n] /\ UNCHANGED <<objs, hist>> /\ Keep
  BY <1>1, <1>2, Zenon DEF IfAlloc, Go, Goto, Item
<1> QED
  BY <1>1, <1>4, <1>5, <1>6, <1>7, Zenon DEF Moves

\* danos_iface_create: the ifindex and the object.
NewIdx(t) == IF t.item.idx = 0 THEN t.idx ELSE t.item.idx
\* A new interface is an interface.
LEMMA NewIfaceTypes ==
  ASSUME NEW it \in Items
  PROVE  NewIface(it) \in IfObjs
<1>1. \A f \in Fields : NewVal(it, f) \in NewVals(it)
  BY Zenon DEF NewVals
<1>2. NewVals(it) \subseteq IfVals
  <2>1. NewVals(it) \subseteq NewVals(it) \cup LeafVals(it)
    BY Zenon
  <2> QED
    BY <2>1, Zenon DEF IfVals
<1> QED
  BY <1>1, <1>2, Zenon DEF NewIface, IfObjs

\* danos_if_create stores a new interface under the id found before.
LEMMA IfCreateFacts ==
  ASSUME NbTypes, Phases, NEW s \in Sessions, IfCreate(s)
  PROVE  \/ Fail(s)
         \/ /\ UNCHANGED <<nhs, groups, routes, tables, hist>> /\ Keep
            /\ \E n : LET t == sess[s] IN
                 /\ Moves(s, n)
                 /\ n.item = t.item /\ n.gid = t.gid /\ n.nid = t.nid /\ n.grp = t.grp
                 /\ n.i = t.i /\ n.key = t.key /\ n.pc = "commit"
            /\ NewIdx(sess[s]) \notin DOMAIN ifaces /\ ifaces' = Put(ifaces, NewIdx(sess[s]), NewIface(sess[s].item))
<1>1. PICK t : t = sess[s] /\ t \in Threads /\ PhaseOK(t) /\ t.pc = "if_create"
  BY DEF IfCreate, At, NbTypes, Phases
<1>2. CASE ~(NewIdx(t) \in DOMAIN ifaces)
  <2>1. PICK n : n = [t EXCEPT !.pc = "commit"]
    BY Zenon
  <2>2. n \in Threads
    BY <1>1, <2>1, Zenon DEF Threads, PCs, Elsewhere
  <2>3. /\ n.item = t.item /\ n.gid = t.gid /\ n.nid = t.nid /\ n.grp = t.grp
        /\ n.i = t.i /\ n.key = t.key /\ n.pc = "commit"
    BY <1>1, <2>1, Zenon DEF Threads
  <2>4. PhaseOK(n)
    BY <1>1, <2>3, SameHandler DEF Elsewhere
  <2>5. sess' = [sess EXCEPT ![s] = n] /\ UNCHANGED <<nhs, groups, routes, tables, hist>> /\ Keep /\ NewIdx(t) \notin DOMAIN ifaces /\ ifaces' = Put(ifaces, NewIdx(t), NewIface(t.item))
    BY <1>1, <1>2, <2>1 DEF IfCreate, Go, Goto, Item, NewIdx, NewIface, NewVal
  <2> QED
    BY <1>1, <1>2, <2>2, <2>3, <2>4, <2>5, Zenon DEF Moves
<1>3. CASE NewIdx(t) \in DOMAIN ifaces
  BY <1>1, <1>3 DEF IfCreate, Item, NewIdx, NewIface, NewVal
<1> QED
  BY <1>2, <1>3

\* The update of a REST table.
LEMMA PutUpdateFacts ==
  ASSUME NbTypes, Phases, NEW s \in Sessions, PutUpdate(s)
  PROVE  \/ Fail(s)
         \/ /\ UNCHANGED <<nhs, groups, routes, ifaces, hist>> /\ Keep
            /\ \E n : LET t == sess[s] IN
                 /\ Moves(s, n)
                 /\ n.item = t.item /\ n.gid = t.gid /\ n.nid = t.nid /\ n.grp = t.grp
                 /\ n.i = t.i /\ n.key = t.key /\ n.pc = "commit"
<1>1. PICK t : t = sess[s] /\ t \in Threads /\ PhaseOK(t) /\ t.pc = "put_update"
  BY Zenon DEF PutUpdate, At, NbTypes, Phases
<1>2. CASE ~(<<t.item.kind, t.item.id>> \notin DOMAIN tables)
  <2>1. PICK n : n = [t EXCEPT !.pc = "commit"]
    BY Zenon
  <2>2. n \in Threads
    BY <1>1, <2>1, Zenon DEF Threads, PCs, Elsewhere
  <2>3. /\ n.item = t.item /\ n.gid = t.gid /\ n.nid = t.nid /\ n.grp = t.grp
        /\ n.i = t.i /\ n.key = t.key /\ n.pc = "commit"
    BY <1>1, <2>1, Zenon DEF Threads
  <2>4. PhaseOK(n)
    BY <1>1, <2>3, SameHandler, Zenon DEF Elsewhere
  <2>5. sess' = [sess EXCEPT ![s] = n] /\ UNCHANGED <<nhs, groups, routes, ifaces, hist>> /\ Keep
    BY <1>1, <1>2, <2>1, Zenon DEF PutUpdate, Go, Goto, Item, TableKey
  <2> QED
    BY <1>1, <1>2, <2>2, <2>3, <2>4, <2>5, Zenon DEF Moves
<1>3. CASE <<t.item.kind, t.item.id>> \notin DOMAIN tables
  BY <1>1, <1>3, Zenon DEF PutUpdate, Item, TableKey
<1> QED
  BY <1>2, <1>3, Zenon

\* A leaf write reads an interface of the name it was given, when the leaves are valid.
LEMMA LeafReadFacts ==
  ASSUME NbTypes, Phases, NEW s \in Sessions, LeafRead(s)
  PROVE  \/ Fail(s)
         \/ /\ UNCHANGED <<objs, hist>> /\ Keep
            /\ \E n : /\ Moves(s, n) /\ n.item = sess[s].item /\ n.pc = "leaf_write"
                      /\ n.idx \in DOMAIN ifaces /\ n.old = ifaces[n.idx]
                      /\ \A f \in DOMAIN n.item.chg : LeafOk(f, n.item.chg[f])
<1>1. PICK t : t = sess[s] /\ t \in Threads /\ PhaseOK(t) /\ t.pc = "leaf_read"
  BY Zenon DEF LeafRead, At, NbTypes, Phases
<1>2. SUFFICES ASSUME ~Fail(s)
               PROVE  /\ UNCHANGED <<objs, hist>> /\ Keep
                      /\ \E n : /\ Moves(s, n) /\ n.item = t.item /\ n.pc = "leaf_write"
                                /\ n.idx \in DOMAIN ifaces /\ n.old = ifaces[n.idx]
                                /\ \A f \in DOMAIN n.item.chg : LeafOk(f, n.item.chg[f])
  BY <1>1, Zenon
<1>3. /\ \A f \in DOMAIN t.item.chg : LeafOk(f, t.item.chg[f])
      /\ UNCHANGED <<objs, hist>> /\ Keep
  BY <1>1, <1>2, Zenon DEF LeafRead, Item
<1>4. PICK x \in DOMAIN ifaces :
        sess' = [sess EXCEPT ![s] = [t EXCEPT !.pc = "leaf_write", !.idx = x, !.old = ifaces[x]]]
  BY <1>1, <1>2, Zenon DEF LeafRead, Item, Go
<1>5. PICK n : n = [t EXCEPT !.pc = "leaf_write", !.idx = x, !.old = ifaces[x]]
  BY Zenon
<1>6. x \in Nat /\ ifaces[x] \in IfObjs
  BY <1>4, Zenon DEF NbTypes, IfTypes, Bounded
<1>7. n \in Threads
  BY <1>1, <1>5, <1>6, Zenon DEF Threads, PCs, Elsewhere
<1>8. n.item = t.item /\ n.pc = "leaf_write" /\ n.idx = x /\ n.old = ifaces[x]
  BY <1>1, <1>5, Zenon DEF Threads
<1>9. PhaseOK(n)
  BY <1>1, <1>6, <1>8, SameHandler, Zenon DEF Elsewhere
<1> QED
  BY <1>3, <1>4, <1>5, <1>7, <1>8, <1>9, Zenon DEF Moves

\* The whole object is written back, with the leaves of the request changed.
LEMMA LeafWriteFacts ==
  ASSUME NbTypes, Phases, NEW s \in Sessions, LeafWrite(s)
  PROVE  \/ Fail(s)
         \/ /\ Finish(s, "ok") /\ Keep /\ UNCHANGED <<nhs, groups, routes, tables>>
            /\ sess[s].idx \in DOMAIN ifaces
            /\ ifaces' = Put(ifaces, sess[s].idx, apply_leaf(sess[s].old, sess[s].item.chg))
            /\ apply_leaf(sess[s].old, sess[s].item.chg) \in IfObjs
<1>1. PICK t : t = sess[s] /\ t \in Threads /\ PhaseOK(t) /\ t.pc = "leaf_write"
  BY Zenon DEF LeafWrite, At, NbTypes, Phases
<1>2. CASE t.idx \notin DOMAIN ifaces
  BY <1>1, <1>2, Zenon DEF LeafWrite
<1>3. CASE t.idx \in DOMAIN ifaces
  <2>1. /\ Finish(s, "ok") /\ Keep /\ UNCHANGED <<nhs, groups, routes, tables>>
        /\ ifaces' = Put(ifaces, t.idx, apply_leaf(t.old, t.item.chg))
    BY <1>1, <1>3, Zenon DEF LeafWrite, Item
  <2>2. t.item \in Items /\ t.old \in [Fields -> IfVals]
    BY <1>1, Zenon DEF PhaseOK, IfObjs
  <2>3. \A f \in DOMAIN t.item.chg : t.item.chg[f] \in IfVals
    <3>1. \A f \in DOMAIN t.item.chg : t.item.chg[f] \in LeafVals(t.item)
      BY Zenon DEF LeafVals
    <3>2. LeafVals(t.item) \subseteq IfVals
      <4>1. LeafVals(t.item) \subseteq NewVals(t.item) \cup LeafVals(t.item)
        BY Zenon
      <4> QED
        BY <2>2, <4>1, Zenon DEF IfVals
    <3> QED
      BY <3>1, <3>2, Zenon
  <2>4. apply_leaf(t.old, t.item.chg) \in IfObjs
    BY <2>2, <2>3, Zenon DEF apply_leaf, IfObjs
  <2> QED
    BY <1>1, <1>3, <2>1, <2>4, Zenon
<1> QED
  BY <1>2, <1>3, Zenon

\* A REST table is created, or found and then updated.
LEMMA PutCreateFacts ==
  ASSUME NbTypes, Phases, NEW s \in Sessions, PutCreate(s)
  PROVE  /\ UNCHANGED <<nhs, groups, routes, ifaces, hist>> /\ Keep
         /\ \E n : Moves(s, n) /\ n.item = sess[s].item /\ n.pc \in {"put_update", "commit"}
<1>1. PICK t : t = sess[s] /\ t \in Threads /\ PhaseOK(t) /\ t.pc = "put_create"
  BY Zenon DEF PutCreate, At, NbTypes, Phases
<1>2. PICK p \in {"put_update", "commit"} : sess' = [sess EXCEPT ![s] = [t EXCEPT !.pc = p]]
  BY <1>1, Zenon DEF PutCreate, Goto, Go
<1>3. PICK n : n = [t EXCEPT !.pc = p]
  BY Zenon
<1>4. n \in Threads
  BY <1>1, <1>2, <1>3, Zenon DEF Threads, PCs, Elsewhere
<1>5. n.item = t.item /\ n.pc = p
  BY <1>1, <1>3, Zenon DEF Threads
<1>6. PhaseOK(n)
  BY <1>1, <1>2, <1>5, SameHandler, Zenon DEF Elsewhere
<1>7. UNCHANGED <<nhs, groups, routes, ifaces, hist>> /\ Keep
  BY Zenon DEF PutCreate
<1> QED
  BY <1>1, <1>2, <1>3, <1>4, <1>5, <1>6, <1>7, Zenon DEF Moves

-----------------------------------------------------------------------------
(* The types are an invariant. *)

ObjTypes ==
  /\ Bounded(DOMAIN nhs) /\ Bounded(DOMAIN groups) /\ groups \in [DOMAIN groups -> Seq(Nat)]
  /\ routes \in [DOMAIN routes -> RouteObjs]
  /\ IfTypes

\* A step that leaves the objects alone need only type its thread.
LEMMA SameObjTypes ==
  ASSUME ObjTypes, UNCHANGED <<nhs, groups, routes, ifaces>>
  PROVE  ObjTypes'
BY Zenon DEF ObjTypes, Bounded, IfTypes

\* The types of the threads and of the rest, put together.
LEMMA MovedTypes ==
  ASSUME NbTypes, Phases, NEW s \in Sessions, NEW n, Moves(s, n), ObjTypes', gMatch' \in Keys,
         answered' \in [Sessions -> {"none", "ok", "error"}]
  PROVE  NbTypes' /\ Phases'
<1>1. sess' \in [Sessions -> Threads] /\ Phases'
  BY MoveTypes, Zenon
<1> QED
  BY <1>1, Zenon DEF NbTypes, ObjTypes

\* The end of an item, with either answer, keeps the types.
LEMMA FinishTypes ==
  ASSUME NbTypes, Phases, NEW s \in Sessions, NEW reply \in {"ok", "error"}, Finish(s, reply),
         ObjTypes', gMatch' = gMatch
  PROVE  NbTypes' /\ Phases'
<1>1. PICK n : Moves(s, n)
  BY FinishFacts, Zenon
<1>2. answered' \in [Sessions -> {"none", "ok", "error"}] /\ gMatch' \in Keys
  BY FinishFacts, Zenon DEF NbTypes
<1> QED
  BY <1>1, <1>2, MovedTypes, Zenon

\* A failing item keeps the types.
LEMMA FailTypes ==
  ASSUME NbTypes, Phases, NEW s \in Sessions, Fail(s)
  PROVE  NbTypes' /\ Phases'
<1>1. Finish(s, "error") /\ UNCHANGED <<nhs, groups, routes, ifaces>> /\ gMatch' = gMatch
  BY Zenon DEF Fail, objs, Keep
<1>2. ObjTypes'
  BY <1>1, SameObjTypes, Zenon DEF NbTypes, ObjTypes
<1> QED
  BY <1>1, <1>2, FinishTypes, Zenon

\* The steps that only read keep the types.
LEMMA QuietTypes ==
  ASSUME NbTypes, Phases, NEW s \in Sessions, NEW n, Moves(s, n),
         UNCHANGED <<nhs, groups, routes, ifaces, gMatch, answered>>
  PROVE  NbTypes' /\ Phases'
<1>1. ObjTypes'
  BY SameObjTypes, Zenon DEF NbTypes, ObjTypes
<1>2. gMatch' \in Keys /\ answered' \in [Sessions -> {"none", "ok", "error"}]
  BY Zenon DEF NbTypes
<1> QED
  BY <1>1, <1>2, MovedTypes, Zenon

\* The control of a request: its items begin and end.
LEMMA ControlTypes ==
  ASSUME NbTypes, Phases, NEW s \in Sessions,
         (\E f \in Fronts : Request(s, f)) \/ NextItem(s) \/ Commit(s)
  PROVE  NbTypes' /\ Phases'
<1>1. ASSUME NEW it \in Items, NEW rest \in Seq(Items), Begin(s, it, rest), UNCHANGED <<objs, gMatch>>
      PROVE  NbTypes' /\ Phases'
  <2>1. PICK n : Moves(s, n)
    BY <1>1, BeginFacts, Zenon
  <2>2. ObjTypes' /\ gMatch' \in Keys
    BY <1>1, SameObjTypes, Zenon DEF NbTypes, ObjTypes, objs
  <2>3. answered' \in [Sessions -> {"none", "ok", "error"}]
    BY <1>1, BeginFacts, Zenon
  <2> QED
    BY <2>1, <2>2, <2>3, MovedTypes, Zenon
<1>2. CASE \E f \in Fronts : Request(s, f)
  <2>1. PICK f \in Fronts : Request(s, f)
    BY <1>2, Zenon
  <2>2. \E it \in Items, rest \in Seq(Items) : Begin(s, it, rest)
    BY <2>1, RequestFacts, Zenon
  <2>3. UNCHANGED <<objs, gMatch>>
    BY <2>1, Zenon DEF Request
  <2> QED
    BY <1>1, <2>2, <2>3, Zenon
<1>3. CASE NextItem(s)
  <2>1. UNCHANGED <<objs, gMatch>> /\ sess[s].todo \in Seq(Items)
    BY <1>3, Zenon DEF NextItem, Keep, NbTypes, Threads
  <2>2. CASE sess[s].todo = << >>
    <3>1. sess' = [sess EXCEPT ![s] = Idle] /\ UNCHANGED <<nhs, groups, routes, ifaces, gMatch, answered>>
      BY <1>3, <2>1, <2>2, Zenon DEF NextItem, Go, objs
    <3>2. Moves(s, Idle)
      BY <3>1, IdleThread, Zenon DEF Moves
    <3> QED
      BY <3>1, <3>2, QuietTypes, Zenon
  <2>3. CASE sess[s].todo # << >>
    <3>1. Head(sess[s].todo) \in Items /\ Tail(sess[s].todo) \in Seq(Items)
      BY <2>1, <2>3
    <3>2. Begin(s, Head(sess[s].todo), Tail(sess[s].todo))
      BY <1>3, <2>3, Zenon DEF NextItem
    <3> QED
      BY <1>1, <2>1, <3>1, <3>2, Zenon
  <2> QED
    BY <2>2, <2>3, Zenon
<1>4. CASE Commit(s)
  <2>1. (Finish(s, "ok") \/ Finish(s, "error")) /\ UNCHANGED <<nhs, groups, routes, ifaces>> /\ gMatch' = gMatch
    BY <1>4, Zenon DEF Commit, objs, Keep
  <2>2. ObjTypes'
    BY <2>1, SameObjTypes, Zenon DEF NbTypes, ObjTypes
  <2> QED
    BY <2>1, <2>2, FinishTypes, Zenon
<1> QED
  BY <1>2, <1>3, <1>4, Zenon

\* The steps of the route handlers.
RouteStep(s) ==
  \/ Lookup(s) \/ GroupRead(s) \/ AllocGroup(s) \/ AllocNh(s) \/ NhUpdate(s) \/ NhCreate(s)
  \/ GroupCreate(s) \/ RouteCreate(s) \/ DelMatch(s) \/ DelCollect(s) \/ DelRead(s)
  \/ DelRoute(s) \/ DelGroup(s) \/ DelNh(s) \/ RestRoute(s)

\* The steps of the route items keep the types.
LEMMA RouteStepTypes ==
  ASSUME NbTypes, Phases, NEW s \in Sessions, RouteStep(s)
  PROVE  NbTypes' /\ Phases'
<1>1. CASE Lookup(s)
  <2>1. PICK n : Moves(s, n) /\ UNCHANGED <<nhs, groups, routes, ifaces, gMatch, answered>>
    BY <1>1, LookupFacts, Zenon DEF Lookup, objs, hist, Keep
  <2> QED
    BY <2>1, QuietTypes, Zenon
<1>2. CASE GroupRead(s)
  <2>1. CASE Fail(s)
    BY <2>1, FailTypes, Zenon
  <2>2. CASE ~Fail(s)
    <3>1. PICK n : Moves(s, n)
      BY <1>2, <2>2, GroupReadFacts, Zenon
    <3>2. UNCHANGED <<nhs, groups, routes, ifaces, gMatch, answered>>
      BY <1>2, <2>2, GroupReadFacts, Zenon DEF objs, hist, Keep
    <3> QED
      BY <3>1, <3>2, QuietTypes, Zenon
  <2> QED
    BY <2>1, <2>2, Zenon
<1>3. CASE AllocGroup(s)
  <2>1. PICK n : Moves(s, n) /\ UNCHANGED <<nhs, groups, routes, ifaces, gMatch, answered>>
    BY <1>3, AllocGroupFacts, Zenon DEF objs, hist, Keep
  <2> QED
    BY <2>1, QuietTypes, Zenon
<1>4. CASE AllocNh(s)
  <2>1. PICK n : Moves(s, n) /\ UNCHANGED <<nhs, groups, routes, ifaces, gMatch, answered>>
    BY <1>4, AllocNhFacts, Zenon DEF objs, hist, Keep
  <2> QED
    BY <2>1, QuietTypes, Zenon
<1>5. CASE NhUpdate(s)
  <2>1. CASE Fail(s)
    BY <2>1, FailTypes, Zenon
  <2>2. CASE ~Fail(s)
    <3>1. PICK n : Moves(s, n)
      BY <1>5, <2>2, NhUpdateFacts, Zenon
    <3>2. UNCHANGED <<groups, routes, ifaces>>
          /\ gMatch' = gMatch /\ answered' = answered
      BY <1>5, <2>2, NhUpdateFacts, Zenon DEF objs, hist, Keep
    <3>3. ObjTypes'
      <4>1. PICK x \in Nat : \A y \in DOMAIN nhs' : y \in DOMAIN nhs \/ y = x
        <5>1. /\ sess[s].grp[sess[s].i] \in DOMAIN nhs
              /\ nhs' = Put(nhs, sess[s].grp[sess[s].i], sess[s].item.gws[sess[s].i])
          BY <1>5, <2>2, NhUpdateFacts, Zenon
        <5>2. sess[s].grp[sess[s].i] \in Nat
          BY <5>1, Zenon DEF NbTypes, Bounded
        <5>3. DOMAIN nhs' = DOMAIN nhs \cup {sess[s].grp[sess[s].i]}
          BY <5>1, Domains, Zenon
        <5> QED
          BY <5>2, <5>3, Zenon
      <4>2. Bounded(DOMAIN nhs \cup {x}) /\ \A T : T \subseteq DOMAIN nhs \cup {x} => Bounded(T)
        BY BoundedPut, Zenon DEF NbTypes
      <4>3. Bounded(DOMAIN nhs')
        BY <4>1, <4>2, Zenon
      <4> QED
        BY <3>2, <4>3, Zenon DEF NbTypes, ObjTypes, IfTypes, Bounded
    <3>4. gMatch' \in Keys /\ answered' \in [Sessions -> {"none", "ok", "error"}]
      BY <3>2, Zenon DEF NbTypes
    <3> QED
      BY <3>1, <3>3, <3>4, MovedTypes, Zenon
  <2> QED
    BY <2>1, <2>2, Zenon
<1>6. CASE NhCreate(s)
  <2>1. CASE Fail(s)
    BY <2>1, FailTypes, Zenon
  <2>2. CASE ~Fail(s)
    <3>1. PICK n : Moves(s, n)
      BY <1>6, <2>2, NhCreateFacts, Zenon
    <3>2. UNCHANGED <<groups, routes, ifaces>>
          /\ gMatch' = gMatch /\ answered' = answered
      BY <1>6, <2>2, NhCreateFacts, Zenon DEF objs, hist, Keep
    <3>3. ObjTypes'
      <4>1. PICK x \in Nat : \A y \in DOMAIN nhs' : y \in DOMAIN nhs \/ y = x
        <5>1. nhs' = Put(nhs, sess[s].nid, sess[s].item.gws[sess[s].i])
          BY <1>6, <2>2, NhCreateFacts, Zenon
        <5>2. sess[s].nid \in Nat
          BY Zenon DEF NbTypes, Threads
        <5>3. DOMAIN nhs' = DOMAIN nhs \cup {sess[s].nid}
          BY <5>1, Domains, Zenon
        <5> QED
          BY <5>2, <5>3, Zenon
      <4>2. Bounded(DOMAIN nhs \cup {x}) /\ \A T : T \subseteq DOMAIN nhs \cup {x} => Bounded(T)
        BY BoundedPut, Zenon DEF NbTypes
      <4>3. Bounded(DOMAIN nhs')
        BY <4>1, <4>2, Zenon
      <4> QED
        BY <3>2, <4>3, Zenon DEF NbTypes, ObjTypes, IfTypes, Bounded
    <3>4. gMatch' \in Keys /\ answered' \in [Sessions -> {"none", "ok", "error"}]
      BY <3>2, Zenon DEF NbTypes
    <3> QED
      BY <3>1, <3>3, <3>4, MovedTypes, Zenon
  <2> QED
    BY <2>1, <2>2, Zenon
<1>7. CASE GroupCreate(s)
  <2>1. CASE Fail(s)
    BY <2>1, FailTypes, Zenon
  <2>2. CASE ~Fail(s)
    <3>1. PICK n : Moves(s, n)
      BY <1>7, <2>2, GroupCreateFacts, Zenon
    <3>2. UNCHANGED <<nhs, routes, ifaces>>
          /\ gMatch' = gMatch /\ answered' = answered
      BY <1>7, <2>2, GroupCreateFacts, Zenon DEF objs, hist, Keep
    <3>3. ObjTypes'
      <4>1. groups' = Put(groups, sess[s].gid, sess[s].grp)
        BY <1>7, <2>2, GroupCreateFacts, Zenon
      <4>2. sess[s].gid \in Nat /\ sess[s].grp \in Seq(Nat)
        BY Zenon DEF NbTypes, Threads
      <4>3. Bounded(DOMAIN groups')
        <5>1. DOMAIN groups' = DOMAIN groups \cup {sess[s].gid}
          BY <4>1, Domains, Zenon
        <5> QED
          BY <4>2, <5>1, BoundedPut, Zenon DEF NbTypes
      <4>4. groups' \in [DOMAIN groups' -> Seq(Nat)]
        BY <4>1, <4>2, PutFacts, Zenon DEF NbTypes
      <4> QED
        BY <3>2, <4>3, <4>4, Zenon DEF NbTypes, ObjTypes, IfTypes, Bounded
    <3>4. gMatch' \in Keys /\ answered' \in [Sessions -> {"none", "ok", "error"}]
      BY <3>2, Zenon DEF NbTypes
    <3> QED
      BY <3>1, <3>3, <3>4, MovedTypes, Zenon
  <2> QED
    BY <2>1, <2>2, Zenon
<1>8. CASE RouteCreate(s)
  <2>1. CASE Fail(s)
    BY <2>1, FailTypes, Zenon
  <2>2. CASE ~Fail(s)
    <3>1. PICK n : Moves(s, n)
      BY <1>8, <2>2, RouteCreateFacts, Zenon
    <3>2. UNCHANGED <<nhs, groups, ifaces>>
          /\ gMatch' = gMatch /\ answered' = answered
      BY <1>8, <2>2, RouteCreateFacts, Zenon DEF objs, hist, Keep
    <3>3. ObjTypes'
      <4>1. PICK k : routes' = Put(routes, k, [af |-> 4, grp |-> sess[s].gid])
        BY <1>8, <2>2, RouteCreateFacts, Zenon
      <4>2. [af |-> 4, grp |-> sess[s].gid] \in RouteObjs
        BY Zenon DEF NbTypes, Threads, RouteObjs
      <4>3. routes' \in [DOMAIN routes' -> RouteObjs]
        BY <4>1, <4>2, PutFacts, Zenon DEF NbTypes
      <4> QED
        BY <3>2, <4>3, Zenon DEF NbTypes, ObjTypes, IfTypes, Bounded
    <3>4. gMatch' \in Keys /\ answered' \in [Sessions -> {"none", "ok", "error"}]
      BY <3>2, Zenon DEF NbTypes
    <3> QED
      BY <3>1, <3>3, <3>4, MovedTypes, Zenon
  <2> QED
    BY <2>1, <2>2, Zenon
<1>9. CASE DelMatch(s)
  <2>1. PICK n : Moves(s, n)
    BY <1>9, DelMatchFacts, Zenon
  <2>2. UNCHANGED <<nhs, groups, routes, ifaces, answered>> /\ gMatch' = KeyOf(sess[s].item)
    BY <1>9, DelMatchFacts, Zenon DEF objs, hist
  <2>3. sess[s].item \in Items
    BY <1>9, Zenon DEF DelMatch, At, Phases, PhaseOK
  <2>4. ObjTypes' /\ gMatch' \in Keys /\ answered' \in [Sessions -> {"none", "ok", "error"}]
    BY <2>2, <2>3, SameObjTypes, Zenon DEF NbTypes, ObjTypes, Keys
  <2> QED
    BY <2>1, <2>4, MovedTypes, Zenon
<1>10. CASE DelCollect(s)
  <2>1. UNCHANGED <<nhs, groups, routes, ifaces, gMatch>>
    BY <1>10, DelCollectFacts, Zenon DEF objs, Keep
  <2>2. CASE Finish(s, "ok")
    <3>1. ObjTypes'
      BY <2>1, SameObjTypes, Zenon DEF NbTypes, ObjTypes
    <3> QED
      BY <2>1, <2>2, <3>1, FinishTypes, Zenon
  <2>3. CASE ~Finish(s, "ok")
    <3>1. PICK n : Moves(s, n)
      BY <1>10, <2>3, DelCollectFacts, Zenon
    <3>2. answered' = answered
      BY <1>10, <2>3, DelCollectFacts, Zenon DEF hist
    <3> QED
      BY <2>1, <3>1, <3>2, QuietTypes, Zenon
  <2> QED
    BY <2>2, <2>3, Zenon
<1>11. CASE DelRead(s)
  <2>1. PICK n : Moves(s, n) /\ UNCHANGED <<nhs, groups, routes, ifaces, gMatch, answered>>
    BY <1>11, DelReadFacts, Zenon DEF objs, hist, Keep
  <2> QED
    BY <2>1, QuietTypes, Zenon
<1>12. CASE DelRoute(s)
  <2>1. CASE Fail(s)
    BY <2>1, FailTypes, Zenon
  <2>2. CASE ~Fail(s)
    <3>1. PICK n : Moves(s, n)
      BY <1>12, <2>2, DelRouteFacts, Zenon
    <3>2. UNCHANGED <<nhs, groups, ifaces>>
          /\ gMatch' = gMatch /\ answered' = answered
      BY <1>12, <2>2, DelRouteFacts, Zenon DEF objs, hist, Keep
    <3>3. ObjTypes'
      <4>1. routes' = Drop(routes, sess[s].key)
        BY <1>12, <2>2, DelRouteFacts, Zenon
      <4>2. routes' \in [DOMAIN routes' -> RouteObjs]
        BY <4>1, DropFacts, Zenon DEF NbTypes
      <4> QED
        BY <3>2, <4>2, Zenon DEF NbTypes, ObjTypes, IfTypes, Bounded
    <3>4. gMatch' \in Keys /\ answered' \in [Sessions -> {"none", "ok", "error"}]
      BY <3>2, Zenon DEF NbTypes
    <3> QED
      BY <3>1, <3>3, <3>4, MovedTypes, Zenon
  <2> QED
    BY <2>1, <2>2, Zenon
<1>13. CASE DelGroup(s)
  <2>1. CASE Fail(s)
    BY <2>1, FailTypes, Zenon
  <2>2. CASE ~Fail(s)
    <3>1. PICK n : Moves(s, n)
      BY <1>13, <2>2, DelGroupFacts, Zenon
    <3>2. UNCHANGED <<nhs, routes, ifaces>>
          /\ gMatch' = gMatch /\ answered' = answered
      BY <1>13, <2>2, DelGroupFacts, Zenon DEF objs, hist, Keep
    <3>3. ObjTypes'
      <4>1. groups' = Drop(groups, sess[s].gid)
        BY <1>13, <2>2, DelGroupFacts, Zenon
      <4>2. DOMAIN groups' \subseteq DOMAIN groups /\ groups' \in [DOMAIN groups' -> Seq(Nat)]
        <5>1. DOMAIN groups' \subseteq DOMAIN groups
          BY <4>1, Zenon DEF Drop
        <5>2. groups' \in [DOMAIN groups' -> Seq(Nat)]
          BY <4>1, DropFacts, Zenon DEF NbTypes
        <5> QED
          BY <5>1, <5>2, Zenon
      <4>3. Bounded(DOMAIN groups')
        BY <4>2, BoundedPut, Zenon DEF NbTypes
      <4> QED
        BY <3>2, <4>2, <4>3, Zenon DEF NbTypes, ObjTypes, IfTypes, Bounded
    <3>4. gMatch' \in Keys /\ answered' \in [Sessions -> {"none", "ok", "error"}]
      BY <3>2, Zenon DEF NbTypes
    <3> QED
      BY <3>1, <3>3, <3>4, MovedTypes, Zenon
  <2> QED
    BY <2>1, <2>2, Zenon
<1>14. CASE DelNh(s)
  <2>1. PICK n : Moves(s, n)
    BY <1>14, DelNhFacts, Zenon
  <2>2. UNCHANGED <<groups, routes, ifaces, gMatch, answered>>
    BY <1>14, DelNhFacts, Zenon DEF objs, hist, Keep
  <2>3. DOMAIN nhs' \subseteq DOMAIN nhs
    <3>1. nhs' = nhs \/ nhs' = Drop(nhs, sess[s].grp[sess[s].i])
      BY <1>14, DelNhFacts, Zenon DEF objs
    <3> QED
      BY <3>1, Zenon DEF Drop
  <2>4. Bounded(DOMAIN nhs')
    BY <2>3, BoundedPut, Zenon DEF NbTypes
  <2>5. ObjTypes' /\ gMatch' \in Keys /\ answered' \in [Sessions -> {"none", "ok", "error"}]
    BY <2>2, <2>4, Zenon DEF NbTypes, ObjTypes, IfTypes, Bounded
  <2> QED
    BY <2>1, <2>5, MovedTypes, Zenon
<1>15. CASE RestRoute(s)
  <2>1. CASE Fail(s)
    BY <2>1, FailTypes, Zenon
  <2>2. CASE ~Fail(s)
    <3>1. PICK n : Moves(s, n)
      BY <1>15, <2>2, RestRouteFacts, Zenon
    <3>2. UNCHANGED <<nhs, groups, ifaces>>
          /\ gMatch' = gMatch /\ answered' = answered
      BY <1>15, <2>2, RestRouteFacts, Zenon DEF objs, hist, Keep
    <3>3. ObjTypes'
      <4>1. PICK k : routes' = Put(routes, k, [af |-> 0, grp |-> sess[s].item.grp])
        BY <1>15, <2>2, RestRouteFacts, Zenon
      <4>2. [af |-> 0, grp |-> sess[s].item.grp] \in RouteObjs
        BY <1>15, RequestsAssumption, Zenon DEF RestRoute, At, Phases, PhaseOK, RouteObjs
      <4>3. routes' \in [DOMAIN routes' -> RouteObjs]
        BY <4>1, <4>2, PutFacts, Zenon DEF NbTypes
      <4> QED
        BY <3>2, <4>3, Zenon DEF NbTypes, ObjTypes, IfTypes, Bounded
    <3>4. gMatch' \in Keys /\ answered' \in [Sessions -> {"none", "ok", "error"}]
      BY <3>2, Zenon DEF NbTypes
    <3> QED
      BY <3>1, <3>3, <3>4, MovedTypes, Zenon
  <2> QED
    BY <2>1, <2>2, Zenon
<1> QED
  BY <1>1, <1>2, <1>3, <1>4, <1>5, <1>6, <1>7, <1>8, <1>9, <1>10, <1>11, <1>12, <1>13, <1>14, <1>15, Zenon DEF RouteStep

\* The steps of the interface and table handlers.
OtherStep(s) ==
  \/ LeafRead(s) \/ LeafWrite(s) \/ IfAlloc(s) \/ IfCreate(s) \/ IfDelete(s)
  \/ PutCreate(s) \/ PutUpdate(s) \/ DropTable(s)

\* The interface objects after danos_iface_create and after a leaf write.
LEMMA PutIfTypes ==
  ASSUME IfTypes, NEW x \in Nat, NEW v \in IfObjs, ifaces' = Put(ifaces, x, v)
  PROVE  IfTypes'
<1>1. DOMAIN ifaces' = DOMAIN ifaces \cup {x}
  BY Domains, Zenon
<1>2. Bounded(DOMAIN ifaces')
  BY <1>1, BoundedPut, Zenon DEF IfTypes
<1>3. ifaces' \in [DOMAIN ifaces' -> IfObjs]
  BY PutFacts, Zenon DEF IfTypes
<1> QED
  BY <1>2, <1>3, Zenon DEF IfTypes, Bounded

\* A step that changes no interface keeps the interface types.
LEMMA SameTypes ==
  ASSUME NbTypes, Phases, UNCHANGED <<sess, gMatch, answered>>, ObjTypes'
  PROVE  NbTypes' /\ Phases'
<1>1. NbTypes'
  BY Zenon DEF NbTypes, ObjTypes
<1>2. Phases'
  BY Zenon DEF Phases, PhaseOK
<1> QED
  BY <1>1, <1>2, Zenon

\* The steps of the interface and RESTCONF items keep the types.
LEMMA OtherStepTypes ==
  ASSUME NbTypes, Phases, NEW s \in Sessions, OtherStep(s)
  PROVE  NbTypes' /\ Phases'
<1>1. CASE LeafRead(s)
  <2>1. CASE Fail(s)
    BY <2>1, FailTypes, Zenon
  <2>2. CASE ~Fail(s)
    <3>1. PICK n : Moves(s, n)
      BY <1>1, <2>2, LeafReadFacts, Zenon
    <3>2. UNCHANGED <<nhs, groups, routes, ifaces, gMatch, answered>>
      BY <1>1, <2>2, LeafReadFacts, Zenon DEF objs, hist, Keep
    <3> QED
      BY <3>1, <3>2, QuietTypes, Zenon
  <2> QED
    BY <2>1, <2>2, Zenon
<1>2. CASE LeafWrite(s)
  <2>1. CASE Fail(s)
    BY <2>1, FailTypes, Zenon
  <2>2. CASE ~Fail(s)
    <3>1. PICK x, v : /\ x = sess[s].idx /\ x \in DOMAIN ifaces /\ v \in IfObjs
                      /\ ifaces' = Put(ifaces, x, v)
      BY <1>2, <2>2, LeafWriteFacts, Zenon
    <3>2. Finish(s, "ok") /\ UNCHANGED <<nhs, groups, routes, gMatch>>
      BY <1>2, <2>2, LeafWriteFacts, Zenon DEF Keep
    <3>3. IfTypes /\ x \in Nat
      BY <3>1, Zenon DEF NbTypes, Threads
    <3>4. IfTypes'
      BY <3>1, <3>3, PutIfTypes, Zenon
    <3>5. ObjTypes'
      BY <3>2, <3>4, Zenon DEF NbTypes, ObjTypes, Bounded
    <3> QED
      BY <3>2, <3>5, FinishTypes, Zenon
  <2> QED
    BY <2>1, <2>2, Zenon
<1>3. CASE IfAlloc(s)
  <2>1. PICK n : Moves(s, n) /\ UNCHANGED <<nhs, groups, routes, ifaces, gMatch, answered>>
    BY <1>3, IfAllocFacts, Zenon DEF objs, hist, Keep
  <2> QED
    BY <2>1, QuietTypes, Zenon
<1>4. CASE IfCreate(s)
  <2>1. CASE Fail(s)
    BY <2>1, FailTypes, Zenon
  <2>2. CASE ~Fail(s)
    <3>1. PICK n : Moves(s, n)
      BY <1>4, <2>2, IfCreateFacts, Zenon
    <3>2. UNCHANGED <<nhs, groups, routes, gMatch, answered>>
      BY <1>4, <2>2, IfCreateFacts DEF hist, Keep
    <3>3. ifaces' = Put(ifaces, NewIdx(sess[s]), NewIface(sess[s].item))
      BY <1>4, <2>2, IfCreateFacts
    <3>4. sess[s].item \in Items /\ sess[s].item.idx \in Nat /\ sess[s].idx \in Nat
      <4>1. sess[s] \in Threads /\ PhaseOK(sess[s]) /\ sess[s].pc = "if_create"
        BY <1>4 DEF NbTypes, Phases, IfCreate, At
      <4>2. sess[s].item \in Items /\ sess[s].item.op = "iface"
        BY <4>1, Zenon DEF PhaseOK
      <4>3. sess[s].item.idx \in Nat
        BY <4>2, RequestsAssumption, Zenon
      <4>4. sess[s].idx \in Nat
        BY <4>1, Zenon DEF Threads
      <4> QED
        BY <4>2, <4>3, <4>4, Zenon
    <3>5. NewIdx(sess[s]) \in Nat
      BY <3>4, Zenon DEF NewIdx
    <3>6. NewIface(sess[s].item) \in IfObjs
      BY <3>4, NewIfaceTypes, Zenon
    <3>7. IfTypes'
      BY <3>3, <3>5, <3>6, PutIfTypes, Zenon DEF NbTypes
    <3>8. ObjTypes' /\ gMatch' \in Keys /\ answered' \in [Sessions -> {"none", "ok", "error"}]
      BY <3>2, <3>7, Zenon DEF NbTypes, ObjTypes, Bounded
    <3> QED
      BY <3>1, <3>8, MovedTypes, Zenon
  <2> QED
    BY <2>1, <2>2, Zenon
<1>5. CASE IfDelete(s)
  <2>1. CASE Fail(s)
    BY <2>1, FailTypes, Zenon
  <2>2. CASE ~Fail(s)
    <3>1. UNCHANGED <<sess, gMatch, answered, nhs, groups, routes, ifaces>>
      <4>1. UNCHANGED <<objs, gMatch, sess, calls, hist, stuck>>
        BY <1>5, <2>2, Zenon DEF IfDelete
      <4> QED
        BY <4>1, Zenon DEF objs, hist
    <3>2. ObjTypes'
      BY <3>1, SameObjTypes, Zenon DEF NbTypes, ObjTypes
    <3> QED
      BY <3>1, <3>2, SameTypes, Zenon
  <2> QED
    BY <2>1, <2>2, Zenon
<1>6. CASE PutCreate(s)
  <2>1. PICK n : Moves(s, n) /\ UNCHANGED <<nhs, groups, routes, ifaces, gMatch, answered>>
    BY <1>6, PutCreateFacts, Zenon DEF hist, Keep
  <2> QED
    BY <2>1, QuietTypes, Zenon
<1>7. CASE PutUpdate(s)
  <2>1. CASE Fail(s)
    BY <2>1, FailTypes, Zenon
  <2>2. CASE ~Fail(s)
    <3>1. PICK n : Moves(s, n)
      BY <1>7, <2>2, PutUpdateFacts, Zenon
    <3>2. UNCHANGED <<nhs, groups, routes, ifaces, gMatch, answered>>
      BY <1>7, <2>2, PutUpdateFacts, Zenon DEF hist, Keep
    <3> QED
      BY <3>1, <3>2, QuietTypes, Zenon
  <2> QED
    BY <2>1, <2>2, Zenon
<1>8. CASE DropTable(s)
  <2>1. Finish(s, "error") /\ UNCHANGED <<nhs, groups, routes, ifaces>> /\ gMatch' = gMatch
    BY <1>8, Zenon DEF DropTable, Fail, objs, Keep
  <2>2. ObjTypes'
    BY <2>1, SameObjTypes, Zenon DEF NbTypes, ObjTypes
  <2> QED
    BY <2>1, <2>2, FinishTypes, Zenon
<1> QED
  BY <1>1, <1>2, <1>3, <1>4, <1>5, <1>6, <1>7, <1>8, Zenon DEF OtherStep

\* The steps of a session, by kind.
LEMMA Steps ==
  ASSUME Next
  PROVE  \E s \in Sessions : \/ \E f \in Fronts : Request(s, f)
                             \/ NextItem(s) \/ Commit(s) \/ RouteStep(s) \/ OtherStep(s)
<1>1. PICK s \in Sessions :
        \/ Request(s, "gnmi") \/ Request(s, "rest") \/ Request(s, "netconf") \/ Request(s, "cli")
        \/ NextItem(s) \/ Commit(s) \/ RouteStep(s) \/ OtherStep(s)
  BY Zenon DEF Next, gnmi_handle_set, danos_gnmi_handle_request, edit_config_apply, cli_cmd_set,
         RouteStep, OtherStep
<1> QED
  BY <1>1, Zenon DEF Fronts

\* Every step keeps the types and the phases.
LEMMA StepTypes ==
  ASSUME NbTypes, Phases, Next \/ UNCHANGED vars
  PROVE  NbTypes' /\ Phases'
<1>1. CASE Next
  <2>1. PICK s \in Sessions : \/ \E f \in Fronts : Request(s, f)
                              \/ NextItem(s) \/ Commit(s) \/ RouteStep(s) \/ OtherStep(s)
    BY <1>1, Steps, Zenon
  <2> QED
    BY <2>1, ControlTypes, RouteStepTypes, OtherStepTypes, Zenon
<1>2. CASE UNCHANGED vars
  <2>1. UNCHANGED <<sess, gMatch, answered, nhs, groups, routes, ifaces>>
    BY <1>2, Zenon DEF vars
  <2>2. ObjTypes'
    BY <2>1, SameObjTypes, Zenon DEF NbTypes, ObjTypes
  <2> QED
    BY <2>1, <2>2, SameTypes, Zenon
<1> QED
  BY <1>1, <1>2, Zenon

\* The types and phases hold at the start.
LEMMA InitTypes == Init => NbTypes /\ Phases
<1> SUFFICES ASSUME Init PROVE NbTypes /\ Phases
  BY Zenon
<1>1. DOMAIN << >> = {}
  OBVIOUS
<1>2. sess \in [Sessions -> Threads] /\ Phases
  BY IdleThread, Zenon DEF Init, Phases
<1>3. gMatch \in Keys /\ answered \in [Sessions -> {"none", "ok", "error"}]
  BY Zenon DEF Init, Keys
<1>4. Bounded({})
  BY Zenon DEF Bounded
<1>5. DOMAIN nhs = {} /\ DOMAIN groups = {} /\ DOMAIN routes = {} /\ DOMAIN ifaces = {}
  BY <1>1, Zenon DEF Init
<1>6. groups \in [DOMAIN groups -> Seq(Nat)] /\ routes \in [DOMAIN routes -> RouteObjs]
      /\ ifaces \in [DOMAIN ifaces -> IfObjs]
  BY <1>5 DEF Init
<1> QED
  BY <1>2, <1>3, <1>4, <1>5, <1>6, Zenon DEF NbTypes, IfTypes

-----------------------------------------------------------------------------
(* Leaf writes. *)

\* A thread about to write an interface back has read it under the name it still has.
LeafOK(t) ==
  t.pc = "leaf_write" =>
    t.idx \in DOMAIN ifaces /\ t.old.name = ifaces[t.idx].name /\ "name" \notin DOMAIN t.item.chg
LeafInv == NbTypes /\ Phases /\ \A s \in Sessions : LeafOK(sess[s])

\* The session moves and is not about to write an interface; no interface changes.
Away(s) == ifaces' = ifaces /\ \E n : Moves(s, n) /\ n.pc # "leaf_write"

\* A failing item writes no interface.
LEMMA FailAway ==
  ASSUME NbTypes, Phases, NEW s \in Sessions, Fail(s)
  PROVE  Away(s)
<1>1. Finish(s, "error") /\ ifaces' = ifaces
  BY Zenon DEF Fail, objs
<1> QED
  BY <1>1, FinishFacts, Zenon DEF Away

\* The steps of the route items write no interface.
LEMMA RouteAway ==
  ASSUME NbTypes, Phases, NEW s \in Sessions, RouteStep(s)
  PROVE  Away(s)
<1>1. CASE Lookup(s)
  BY <1>1, LookupFacts, Zenon DEF Away, Lookup, objs
<1>2. CASE GroupRead(s)
  BY <1>2, GroupReadFacts, FailAway, Zenon DEF Away, objs
<1>3. CASE AllocGroup(s)
  BY <1>3, AllocGroupFacts, FailAway, Zenon DEF Away, objs
<1>4. CASE AllocNh(s)
  BY <1>4, AllocNhFacts, FailAway, Zenon DEF Away, objs
<1>5. CASE NhUpdate(s)
  BY <1>5, NhUpdateFacts, FailAway, Zenon DEF Away, objs
<1>6. CASE NhCreate(s)
  BY <1>6, NhCreateFacts, FailAway, Zenon DEF Away, objs
<1>7. CASE GroupCreate(s)
  BY <1>7, GroupCreateFacts, FailAway, Zenon DEF Away, objs
<1>8. CASE RouteCreate(s)
  BY <1>8, RouteCreateFacts, FailAway, Zenon DEF Away, objs
<1>9. CASE DelMatch(s)
  BY <1>9, DelMatchFacts, FailAway, Zenon DEF Away, objs
<1>10. CASE DelCollect(s)
  BY <1>10, DelCollectFacts, FinishFacts, Zenon DEF Away, objs
<1>11. CASE DelRead(s)
  BY <1>11, DelReadFacts, FailAway, Zenon DEF Away, objs
<1>12. CASE DelRoute(s)
  BY <1>12, DelRouteFacts, FailAway, Zenon DEF Away, objs
<1>13. CASE DelGroup(s)
  BY <1>13, DelGroupFacts, FailAway, Zenon DEF Away, objs
<1>14. CASE DelNh(s)
  BY <1>14, DelNhFacts, FailAway, Zenon DEF Away, objs
<1>15. CASE RestRoute(s)
  BY <1>15, RestRouteFacts, FailAway, Zenon DEF Away, objs
<1> QED
  BY <1>1, <1>2, <1>3, <1>4, <1>5, <1>6, <1>7, <1>8, <1>9, <1>10, <1>11, <1>12, <1>13, <1>14, <1>15, Zenon DEF RouteStep

\* Neither do the steps that begin or end an item.
LEMMA ControlAway ==
  ASSUME NbTypes, Phases, NEW s \in Sessions,
         (\E f \in Fronts : Request(s, f)) \/ NextItem(s) \/ Commit(s)
  PROVE  Away(s)
<1>1. ASSUME NEW it \in Items, NEW rest \in Seq(Items), Begin(s, it, rest), ifaces' = ifaces
      PROVE  Away(s)
  BY <1>1, BeginFacts, Zenon DEF Away
<1>2. CASE \E f \in Fronts : Request(s, f)
  <2>1. PICK f \in Fronts : Request(s, f)
    BY <1>2, Zenon
  <2>2. \E it \in Items, rest \in Seq(Items) : Begin(s, it, rest)
    BY <2>1, RequestFacts, Zenon
  <2>3. ifaces' = ifaces
    BY <2>1, Zenon DEF Request, objs
  <2> QED
    BY <1>1, <2>2, <2>3, Zenon
<1>3. CASE NextItem(s)
  <2>1. ifaces' = ifaces /\ sess[s].todo \in Seq(Items)
    BY <1>3, Zenon DEF NextItem, objs, NbTypes, Threads
  <2>2. CASE sess[s].todo = << >>
    <3>1. sess' = [sess EXCEPT ![s] = Idle]
      BY <1>3, <2>2, Zenon DEF NextItem, Go
    <3> QED
      BY <2>1, <3>1, IdleThread, Zenon DEF Moves, Away
  <2>3. CASE sess[s].todo # << >>
    <3>1. Head(sess[s].todo) \in Items /\ Tail(sess[s].todo) \in Seq(Items)
      BY <2>1, <2>3
    <3>2. Begin(s, Head(sess[s].todo), Tail(sess[s].todo))
      BY <1>3, <2>3, Zenon DEF NextItem
    <3> QED
      BY <1>1, <2>1, <3>1, <3>2, Zenon
  <2> QED
    BY <2>2, <2>3, Zenon
<1>4. CASE Commit(s)
  <2>1. (Finish(s, "ok") \/ Finish(s, "error")) /\ ifaces' = ifaces
    BY <1>4, Zenon DEF Commit, objs
  <2> QED
    BY <2>1, FinishFacts, Zenon DEF Away
<1> QED
  BY <1>2, <1>3, <1>4, Zenon

\* What a step may do to interface x: nothing, or write back the object that its session read.
LeafStep(x) ==
  /\ x \in DOMAIN ifaces' /\ ifaces'[x].name = ifaces[x].name
  /\ \A f \in Fields : ifaces'[x][f] # ifaces[x][f] =>
       \E s \in Sessions :
         /\ sess[s].pc = "leaf_write" /\ sess[s].idx = x
         /\ f \in DOMAIN Item(s).chg \/ sess[s].old[f] # ifaces[x][f]

\* A step that writes no interface keeps what the leaf writers have read.
LEMMA AwayKeeps ==
  ASSUME LeafInv, NEW s \in Sessions, Away(s)
  PROVE  (\A o \in Sessions : LeafOK(sess[o])') /\ \A x \in DOMAIN ifaces : LeafStep(x)
<1>1. PICK n : Moves(s, n) /\ n.pc # "leaf_write" /\ ifaces' = ifaces
  BY Zenon DEF Away
<1>2. sess'[s] = n /\ \A o \in Sessions \ {s} : sess'[o] = sess[o]
  BY <1>1, MoveTypes, Zenon DEF LeafInv
<1>3. \A o \in Sessions : LeafOK(sess[o])'
  BY <1>1, <1>2, Zenon DEF LeafInv, LeafOK
<1>4. \A x \in DOMAIN ifaces : LeafStep(x)
  BY <1>1, Zenon DEF LeafStep
<1> QED
  BY <1>3, <1>4, Zenon

\* The steps of the interface items keep it: only one leaf changes under an agent.
LEMMA OtherKeeps ==
  ASSUME LeafInv, NEW s \in Sessions, OtherStep(s)
  PROVE  (\A o \in Sessions : LeafOK(sess[o])') /\ \A x \in DOMAIN ifaces : LeafStep(x)
<1>0. NbTypes /\ Phases /\ \A o \in Sessions : LeafOK(sess[o])
  BY Zenon DEF LeafInv
<1>1. CASE LeafRead(s) /\ ~Fail(s)
  <2>1. PICK n : /\ Moves(s, n) /\ n.idx \in DOMAIN ifaces /\ n.old = ifaces[n.idx]
                 /\ \A f \in DOMAIN n.item.chg : LeafOk(f, n.item.chg[f])
    BY <1>0, <1>1, LeafReadFacts, Zenon
  <2>2. ifaces' = ifaces
    BY <1>0, <1>1, LeafReadFacts, Zenon DEF objs
  <2>3. "name" \notin DOMAIN n.item.chg
    BY <2>1, Zenon DEF LeafOk
  <2>4. sess'[s] = n /\ \A o \in Sessions \ {s} : sess'[o] = sess[o]
    BY <1>0, <2>1, MoveTypes, Zenon
  <2>5. \A o \in Sessions : LeafOK(sess[o])'
    BY <1>0, <2>1, <2>2, <2>3, <2>4, Zenon DEF LeafOK
  <2> QED
    BY <2>2, <2>5, Zenon DEF LeafStep
<1>2. CASE LeafWrite(s) /\ ~Fail(s)
  <2>1. PICK n : Moves(s, n) /\ n.pc \in {"idle", "next"}
    BY <1>0, <1>2, LeafWriteFacts, FinishFacts, Zenon
  <2>2. sess'[s] = n /\ \A o \in Sessions \ {s} : sess'[o] = sess[o]
    BY <1>0, <2>1, MoveTypes, Zenon
  <2>3. PICK t : t = sess[s] /\ t.pc = "leaf_write"
    BY <1>2, Zenon DEF LeafWrite, At
  <2>4. PICK v : v = apply_leaf(t.old, t.item.chg) /\ ifaces' = Put(ifaces, t.idx, v)
    BY <1>0, <1>2, <2>3, LeafWriteFacts, Zenon
  <2>5. t.idx \in DOMAIN ifaces /\ t.old.name = ifaces[t.idx].name /\ "name" \notin DOMAIN t.item.chg
    BY <1>0, <2>3, Zenon DEF LeafOK
  <2>6. \A f \in Fields : v[f] = IF f \in DOMAIN t.item.chg THEN t.item.chg[f] ELSE t.old[f]
    BY <2>4, Zenon DEF apply_leaf
  <2>7. v.name = t.old.name
    BY <2>5, <2>6, Zenon DEF Fields
  <2>8. DOMAIN ifaces' = DOMAIN ifaces /\ ifaces'[t.idx] = v
        /\ \A x \in DOMAIN ifaces : x # t.idx => ifaces'[x] = ifaces[x]
    BY <2>4, <2>5, Zenon DEF Put
  <2>9. \A x \in DOMAIN ifaces : ifaces'[x].name = ifaces[x].name
    BY <2>5, <2>7, <2>8, Zenon
  <2>10. \A o \in Sessions : LeafOK(sess[o])'
    BY <1>0, <2>1, <2>2, <2>8, <2>9 DEF LeafOK
  <2>11. ASSUME NEW x \in DOMAIN ifaces, NEW f \in Fields, ifaces'[x][f] # ifaces[x][f]
         PROVE  /\ t.pc = "leaf_write" /\ t.idx = x
                /\ f \in DOMAIN t.item.chg \/ t.old[f] # ifaces[x][f]
    BY <2>3, <2>6, <2>8, <2>11, Zenon
  <2> QED
    BY <2>3, <2>8, <2>9, <2>10, <2>11 DEF LeafStep, Item
<1>3. CASE IfCreate(s) /\ ~Fail(s)
  <2>1. PICK n : Moves(s, n) /\ n.pc = "commit"
    BY <1>0, <1>3, IfCreateFacts, Zenon
  <2>2. PICK x, v : x \notin DOMAIN ifaces /\ ifaces' = Put(ifaces, x, v)
    BY <1>0, <1>3, IfCreateFacts, Zenon
  <2>3. \A y \in DOMAIN ifaces : y \in DOMAIN ifaces' /\ ifaces'[y] = ifaces[y]
    BY <2>2, Zenon DEF Put
  <2>4. sess'[s] = n /\ \A o \in Sessions \ {s} : sess'[o] = sess[o]
    BY <1>0, <2>1, MoveTypes, Zenon
  <2>5. \A o \in Sessions : LeafOK(sess[o])'
    BY <1>0, <2>1, <2>3, <2>4 DEF LeafOK
  <2> QED
    BY <2>3, <2>5, Zenon DEF LeafStep
<1>4. CASE IfDelete(s) /\ ~Fail(s)
  <2>1. UNCHANGED <<objs, gMatch, sess, calls, hist, stuck>>
    BY <1>4, Zenon DEF IfDelete
  <2>2. UNCHANGED <<ifaces, sess>>
    BY <2>1, Zenon DEF objs
  <2> QED
    BY <1>0, <2>2, Zenon DEF LeafOK, LeafStep
<1>5. CASE Fail(s)
  BY <1>0, <1>5, FailAway, AwayKeeps, Zenon
<1>6. CASE IfAlloc(s)
  <2>1. Away(s)
    BY <1>0, <1>6, IfAllocFacts, Zenon DEF Away, objs
  <2> QED
    BY <2>1, AwayKeeps, Zenon
<1>7. CASE PutCreate(s)
  <2>1. Away(s)
    BY <1>0, <1>7, PutCreateFacts, Zenon DEF Away
  <2> QED
    BY <2>1, AwayKeeps, Zenon
<1>8. CASE PutUpdate(s) /\ ~Fail(s)
  <2>1. Away(s)
    BY <1>0, <1>8, PutUpdateFacts, Zenon DEF Away
  <2> QED
    BY <2>1, AwayKeeps, Zenon
<1>9. CASE DropTable(s)
  <2>1. Finish(s, "error") /\ ifaces' = ifaces
    BY <1>9, Zenon DEF DropTable, Fail, objs
  <2>2. Away(s)
    BY <1>0, <2>1, FinishFacts, Zenon DEF Away
  <2> QED
    BY <2>2, AwayKeeps, Zenon
<1> QED
  BY <1>1, <1>2, <1>3, <1>4, <1>5, <1>6, <1>7, <1>8, <1>9, Zenon DEF OtherStep

\* Every step keeps the leaf invariant.
LEMMA StepLeaf ==
  ASSUME LeafInv, Next \/ UNCHANGED vars
  PROVE  LeafInv' /\ \A x \in DOMAIN ifaces : LeafStep(x)
<1>1. NbTypes' /\ Phases'
  BY StepTypes, Zenon DEF LeafInv
<1>2. (\A o \in Sessions : LeafOK(sess[o])') /\ \A x \in DOMAIN ifaces : LeafStep(x)
  <2>1. CASE Next
    <3>1. PICK s \in Sessions : \/ \E f \in Fronts : Request(s, f)
                                \/ NextItem(s) \/ Commit(s) \/ RouteStep(s) \/ OtherStep(s)
      BY <2>1, Steps, Zenon
    <3> QED
      BY <3>1, ControlAway, RouteAway, AwayKeeps, OtherKeeps, Zenon DEF LeafInv
  <2>2. CASE UNCHANGED vars
    <3>1. UNCHANGED <<ifaces, sess>>
      BY <2>2, Zenon DEF vars
    <3> QED
      BY <3>1, Zenon DEF LeafInv, LeafOK, LeafStep
  <2> QED
    BY <2>1, <2>2, Zenon
<1> QED
  BY <1>1, <1>2, Zenon DEF LeafInv

\* A leaf write of any front end removes and renames no interface, and changes a field it was
\* not asked to change only if another session wrote that field after the read.
THEOREM LeafWritesFramed == Spec => LeafFrame
<1>1. Init => LeafInv
  BY InitTypes DEF Init, Idle, LeafInv, LeafOK
<1>2. LeafInv /\ [Next]_vars => LeafInv'
  BY StepLeaf, Zenon
<1>3. LeafInv /\ [Next]_vars => [\A x \in DOMAIN ifaces : LeafStep(x)]_vars
  BY StepLeaf, Zenon
<1> QED
  BY <1>1, <1>2, <1>3, PTL DEF Spec, LeafFrame, LeafStep

-----------------------------------------------------------------------------
(***************************************************************************)
(* Routes, groups and next hops.  The predicates of this part take the     *)
(* objects as parameters: N for nhs, G for groups, R for routes, M for     *)
(* gMatch; t and u are threads.                                            *)
(***************************************************************************)
Building == {"alloc_group", "alloc_nh", "nh_create", "group_create"}
Static(R) == {k \in DOMAIN R : R[k].af = 4}
Refers(R, k, g) == k \in Static(R) /\ R[k].grp = g

\* No group has the next hop; no static route has the group.
Free(G, x) == \A g \in DOMAIN G : \A l \in DOMAIN G[g] : G[g][l] # x
Unrouted(R, g) == \A k \in Static(R) : R[k].grp # g

\* The next hops a thread has made for a group that it has yet to create.
Fresh(t, N, G) ==
  /\ \A j \in DOMAIN t.grp : t.grp[j] \in DOMAIN N /\ Free(G, t.grp[j])
  /\ \A j, l \in DOMAIN t.grp : t.grp[j] = t.grp[l] => j = l
Wrote(t, N) == \A j \in DOMAIN t.grp : N[t.grp[j]] = t.item.gws[j]

\* What the handlers know of the objects at each of their places: creating a route,
\* changing one, deleting one.
BuildOK(t, N, G, R) ==
  /\ t.pc \in Building => Fresh(t, N, G) /\ Wrote(t, N)
  /\ t.pc \in Building \ {"group_create"} =>
       t.i = Len(t.grp) + 1 /\ Len(t.grp) < Len(t.item.gws)
  /\ t.pc \in {"group_create", "route_create"} => Len(t.grp) = Len(t.item.gws)
  /\ t.pc = "route_create" =>
       t.gid \in DOMAIN G /\ G[t.gid] = t.grp /\ Unrouted(R, t.gid) /\ Wrote(t, N)
ChangeOK(t, G, R) ==
  /\ t.pc \in {"group_read", "nh_update"} => Refers(R, KeyOf(t.item), t.gid)
  /\ t.pc = "group_read" => t.i = 1
  /\ t.pc = "nh_update" =>
       /\ t.i \in DOMAIN t.grp /\ Len(t.grp) = Len(t.item.gws)
       /\ \A j \in DOMAIN t.grp : j \in DOMAIN G[t.gid] /\ t.grp[j] = G[t.gid][j]
DeleteOK(t, G, R, M) ==
  /\ t.pc = "collect" => M = KeyOf(t.item)
  /\ t.pc \in {"del_read", "del_route"} => t.key = KeyOf(t.item) /\ Refers(R, t.key, t.gid)
  /\ t.pc = "del_group" => t.gid \in DOMAIN G /\ Unrouted(R, t.gid)
  /\ t.pc \in {"del_route", "del_group"} => t.grp = G[t.gid] /\ t.i = 1
  /\ t.pc = "del_nh" => t.i > 0 /\ \A j \in DOMAIN t.grp : Free(G, t.grp[j])
Own(t, N, G, R, M) == BuildOK(t, N, G, R) /\ ChangeOK(t, G, R) /\ DeleteOK(t, G, R, M)

\* Two threads at once: their new next hops differ, their new groups differ, and neither
\* deletes a route while the other works on one.
OnRoute(t) == t.item # NoItem /\ t.item.op \in RouteOps
Apart(t, u) ==
  /\ t.pc \in Building /\ u.pc \in Building =>
       \A j \in DOMAIN t.grp : \A l \in DOMAIN u.grp : t.grp[j] # u.grp[l]
  /\ t.pc = "route_create" /\ u.pc = "route_create" => t.gid # u.gid
  /\ OnRoute(t) /\ OnRoute(u) => t.item.op # "del" /\ u.item.op # "del"

\* References lead to objects, and no object is referred to twice.
ObjectsOK(N, G, R) ==
  /\ \A k \in Static(R) : R[k].grp \in DOMAIN G
  /\ \A g \in DOMAIN G : G[g] # << >> /\ \A j \in DOMAIN G[g] : G[g][j] \in DOMAIN N
  /\ \A g, h \in DOMAIN G : \A j \in DOMAIN G[g] : \A l \in DOMAIN G[h] :
       G[g][j] = G[h][l] => g = h /\ j = l
  /\ \A k, l \in Static(R) : R[k].grp = R[l].grp => k = l

RouteInv ==
  /\ NbTypes /\ Phases /\ ObjectsOK(nhs, groups, routes)
  /\ \A s \in Sessions : Own(sess[s], nhs, groups, routes, gMatch)
  /\ \A s, o \in Sessions : s # o => Apart(sess[s], sess[o])

\* A step of session s that keeps the invariant: its thread becomes n.
Settles(s, n) ==
  /\ Moves(s, n) /\ ObjectsOK(nhs', groups', routes') /\ Own(n, nhs', groups', routes', gMatch')
  /\ \A o \in Sessions \ {s} : /\ Own(sess[o], nhs', groups', routes', gMatch')
                               /\ Apart(n, sess[o])

\* Being apart is symmetric.
LEMMA ApartSym == ASSUME NEW t, NEW u, Apart(t, u) PROVE Apart(u, t)
BY Zenon DEF Apart

\* A step that settles its own thread, the others and the objects keeps RouteInv.
LEMMA Settled ==
  ASSUME RouteInv, NbTypes', Phases', NEW s \in Sessions, NEW n, Settles(s, n)
  PROVE  RouteInv'
<1>1. sess'[s] = n /\ \A o \in Sessions \ {s} : sess'[o] = sess[o]
  BY MoveTypes, Zenon DEF RouteInv, Settles
<1>2. \A o \in Sessions : Own(sess'[o], nhs', groups', routes', gMatch')
  BY <1>1, Zenon DEF Settles
<1>3. \A a, o \in Sessions : a # o => Apart(sess'[a], sess'[o])
  BY <1>1, ApartSym DEF Settles, RouteInv
<1>4. ObjectsOK(nhs', groups', routes')
  BY Zenon DEF Settles
<1> QED
  BY <1>2, <1>3, <1>4, Zenon DEF RouteInv

\* A next hop that no group has may come or go: the objects stay sound.
LEMMA OtherNhs ==
  ASSUME NEW N, NEW N2, NEW G, NEW R, ObjectsOK(N, G, R),
         \A x \in DOMAIN N : x \in DOMAIN N2 \/ Free(G, x)
  PROVE  ObjectsOK(N2, G, R)
<1>1. ASSUME NEW g \in DOMAIN G, NEW j \in DOMAIN G[g]
      PROVE  G[g][j] \in DOMAIN N2
  <2>1. G[g][j] \in DOMAIN N
    BY Zenon DEF ObjectsOK
  <2>2. ~Free(G, G[g][j])
    BY Zenon DEF Free
  <2> QED
    BY <2>1, <2>2, Zenon
<1> QED
  BY <1>1, Zenon DEF ObjectsOK

\* A group that no static route names may go: the objects stay sound.
LEMMA FewerGroups ==
  ASSUME NEW N, NEW G, NEW G2, NEW R, ObjectsOK(N, G, R), DOMAIN G2 \subseteq DOMAIN G,
         \A g \in DOMAIN G2 : G2[g] = G[g], \A k \in Static(R) : R[k].grp \in DOMAIN G2
  PROVE  ObjectsOK(N, G2, R)
<1>1. \A g \in DOMAIN G2 : g \in DOMAIN G
  BY Zenon
<1>2. \A g \in DOMAIN G2 : G2[g] # << >> /\ \A j \in DOMAIN G2[g] : G2[g][j] \in DOMAIN N
  BY <1>1, Zenon DEF ObjectsOK
<1>3. ASSUME NEW g \in DOMAIN G2, NEW h \in DOMAIN G2, NEW j \in DOMAIN G2[g],
             NEW l \in DOMAIN G2[h], G2[g][j] = G2[h][l]
      PROVE  g = h /\ j = l
  <2>1. G2[g] = G[g] /\ G2[h] = G[h] /\ g \in DOMAIN G /\ h \in DOMAIN G
    BY <1>1, Zenon
  <2>2. j \in DOMAIN G[g] /\ l \in DOMAIN G[h] /\ G[g][j] = G[h][l]
    BY <1>3, <2>1, Zenon
  <2> QED
    BY <2>1, <2>2, Zenon DEF ObjectsOK
<1> QED
  BY <1>2, <1>3, Zenon DEF ObjectsOK

\* A thread outside the route handlers knows nothing of the objects.
LEMMA Outside ==
  ASSUME NEW t, t.pc \notin (Making \cup Deleting) \ {"lookup", "match"}
  PROVE  \A N, G, R, M : Own(t, N, G, R, M)
BY Zenon DEF Own, BuildOK, ChangeOK, DeleteOK, Making, Deleting, Building

\* Route deletes run alone.
LEMMA Exclusion ==
  ASSUME RouteInv, NEW s \in Sessions, NEW o \in Sessions \ {s}
  PROVE  /\ sess[s].pc \in Deleting => sess[o].pc \notin Making \cup Deleting
         /\ sess[s].pc \in Making => sess[o].pc \notin Deleting
<1>1. Apart(sess[s], sess[o]) /\ PhaseOK(sess[s]) /\ PhaseOK(sess[o])
  BY Zenon DEF RouteInv, Phases
<1>2. \A a \in Sessions : sess[a].pc \in Making \cup Deleting =>
        OnRoute(sess[a]) /\ (sess[a].pc \in Deleting => sess[a].item.op = "del")
  <2>1. NoItem \notin Items
    BY RequestsAssumption, Zenon
  <2> QED
    BY <2>1, Zenon DEF RouteInv, Phases, PhaseOK, OnRoute, RouteOps, Making, Deleting
<1> QED
  BY <1>1, <1>2, Zenon DEF Apart

\* A step that changes no object: only the thread that moves has to be looked at.
LEMMA QuietKeeps ==
  ASSUME RouteInv, NEW s \in Sessions, NEW n, Moves(s, n),
         UNCHANGED <<nhs, groups, routes, gMatch>>, Own(n, nhs, groups, routes, gMatch),
         \A o \in Sessions \ {s} : Apart(n, sess[o])
  PROVE  Settles(s, n)
BY Zenon DEF RouteInv, Settles

\* Threads that stay on the same keys and ids stay apart.
LEMMA ApartKept ==
  ASSUME NEW t, NEW n, NEW u, Apart(t, u), n.item = t.item, n.pc # "route_create",
         n.pc \in Building => n.grp = << >> \/ (t.pc \in Building /\ n.grp = t.grp)
  PROVE  Apart(n, u)
<1>1. n.pc \in Building /\ u.pc \in Building =>
        \A j \in DOMAIN n.grp : \A l \in DOMAIN u.grp : n.grp[j] # u.grp[l]
  BY DEF Apart
<1> QED
  BY <1>1, Zenon DEF Apart, OnRoute

\* The end of an item.
LEMMA EndKeeps ==
  ASSUME RouteInv, NEW s \in Sessions, NEW n, Moves(s, n), n.pc \in {"idle", "next"},
         n.item = NoItem, UNCHANGED <<nhs, groups, routes, gMatch>>
  PROVE  Settles(s, n)
<1>1. n.pc \notin (Making \cup Deleting) \ {"lookup", "match"}
  BY Zenon DEF Making, Deleting
<1>2. Own(n, nhs, groups, routes, gMatch)
  BY <1>1, Outside, Zenon
<1>3. \A o \in Sessions \ {s} : Apart(n, sess[o])
  BY Zenon DEF Apart, OnRoute, Building
<1> QED
  BY <1>2, <1>3, QuietKeeps, Zenon

\* A failing route item leaves what it made unreferenced and touches no other.
LEMMA FailKeeps ==
  ASSUME RouteInv, NEW s \in Sessions, Fail(s)
  PROVE  \E n : Settles(s, n)
<1>1. Finish(s, "error") /\ UNCHANGED <<nhs, groups, routes, gMatch>>
  BY Zenon DEF Fail, objs, Keep
<1>2. PICK n : Moves(s, n) /\ n.pc \in {"idle", "next"} /\ n.item = NoItem
  BY <1>1, FinishFacts, Zenon DEF RouteInv
<1> QED
  BY <1>1, <1>2, EndKeeps, Zenon

\* A step of another handler, and the commit's: the thread stays on its item and leaves the
\* route objects alone.
LEMMA AwayFromRoutes ==
  ASSUME RouteInv, NEW s \in Sessions, NEW n, Moves(s, n), n.item = sess[s].item,
         n.pc \in {"commit"} \cup Elsewhere, UNCHANGED <<nhs, groups, routes, gMatch>>
  PROVE  Settles(s, n)
<1>1. n.pc \notin (Making \cup Deleting) \ {"lookup", "match"} /\ n.pc # "route_create"
      /\ n.pc \notin Building
  BY Zenon DEF Making, Deleting, Elsewhere, Building
<1>2. Own(n, nhs, groups, routes, gMatch)
  BY <1>1, Outside, Zenon
<1>3. \A o \in Sessions \ {s} : Apart(n, sess[o])
  BY <1>1, ApartKept, Zenon DEF RouteInv
<1> QED
  BY <1>2, <1>3, QuietKeeps, Zenon

\* A new item starts: a route delete only when no other route call is under way.
LEMMA BeginKeeps ==
  ASSUME RouteInv, SerialDeletes, NEW s \in Sessions, NEW it \in Items, NEW rest \in Seq(Items),
         Begin(s, it, rest), UNCHANGED <<nhs, groups, routes, gMatch>>
  PROVE  \E n : Settles(s, n)
<1>1. PICK n : /\ Moves(s, n) /\ n.item = it
               /\ n.pc \in ({"lookup", "match"} \cup Elsewhere) \ {"leaf_write"}
  BY BeginFacts, Zenon DEF RouteInv
<1>2. n.pc \notin (Making \cup Deleting) \ {"lookup", "match"} /\ n.pc # "route_create"
      /\ n.pc \notin Building
  BY <1>1, Zenon DEF Making, Deleting, Elsewhere, Building
<1>3. Own(n, nhs, groups, routes, gMatch)
  BY <1>2, Outside, Zenon
<1>4. \A o \in Sessions \ {s} : OnRoute(n) /\ OnRoute(sess[o]) =>
        n.item.op # "del" /\ sess[o].item.op # "del"
  BY <1>1, Zenon DEF Begin, MayStart, OnRoute
<1>5. \A o \in Sessions \ {s} : Apart(n, sess[o])
  BY <1>2, <1>4, Zenon DEF Apart
<1> QED
  BY <1>1, <1>3, <1>5, QuietKeeps, Zenon

\* Beginning and ending items keep RouteInv.
LEMMA ControlKeeps ==
  ASSUME RouteInv, SerialDeletes, NEW s \in Sessions,
         (\E f \in Fronts : Request(s, f)) \/ NextItem(s) \/ Commit(s)
  PROVE  \E n : Settles(s, n)
<1>1. NbTypes /\ Phases
  BY Zenon DEF RouteInv
<1>2. CASE \E f \in Fronts : Request(s, f)
  <2>1. PICK f \in Fronts : Request(s, f)
    BY <1>2, Zenon
  <2>2. \E it \in Items, rest \in Seq(Items) : Begin(s, it, rest)
    BY <1>1, <2>1, RequestFacts, Zenon
  <2>3. UNCHANGED <<nhs, groups, routes, gMatch>>
    BY <2>1, Zenon DEF Request, objs
  <2> QED
    BY <2>2, <2>3, BeginKeeps, Zenon
<1>3. CASE NextItem(s)
  <2>1. UNCHANGED <<nhs, groups, routes, gMatch>> /\ sess[s].todo \in Seq(Items)
    BY <1>1, <1>3, Zenon DEF NextItem, objs, Keep, NbTypes, Threads
  <2>2. CASE sess[s].todo = << >>
    <3>1. sess' = [sess EXCEPT ![s] = Idle]
      BY <1>3, <2>2, Zenon DEF NextItem, Go
    <3>2. Moves(s, Idle) /\ Idle.pc \in {"idle", "next"} /\ Idle.item = NoItem
      BY <3>1, IdleThread, Zenon DEF Moves
    <3> QED
      BY <2>1, <3>2, EndKeeps, Zenon
  <2>3. CASE sess[s].todo # << >>
    <3>1. Head(sess[s].todo) \in Items /\ Tail(sess[s].todo) \in Seq(Items)
      BY <2>1, <2>3
    <3>2. Begin(s, Head(sess[s].todo), Tail(sess[s].todo))
      BY <1>3, <2>3, Zenon DEF NextItem
    <3> QED
      BY <2>1, <3>1, <3>2, BeginKeeps, Zenon
  <2> QED
    BY <2>2, <2>3, Zenon
<1>4. CASE Commit(s)
  <2>1. (Finish(s, "ok") \/ Finish(s, "error")) /\ UNCHANGED <<nhs, groups, routes, gMatch>>
    BY <1>4, Zenon DEF Commit, objs, Keep
  <2>2. PICK n : Moves(s, n) /\ n.pc \in {"idle", "next"} /\ n.item = NoItem
    BY <1>1, <2>1, FinishFacts, Zenon
  <2> QED
    BY <2>1, <2>2, EndKeeps, Zenon
<1> QED
  BY <1>2, <1>3, <1>4, Zenon

\* The steps of the interface and table handlers.
LEMMA OtherStepKeeps ==
  ASSUME RouteInv, NEW s \in Sessions, OtherStep(s)
  PROVE  (\E n : Settles(s, n)) \/ UNCHANGED <<nhs, groups, routes, gMatch, sess>>
<1>1. NbTypes /\ Phases
  BY Zenon DEF RouteInv
<1>2. {"commit", "leaf_write", "if_create", "put_update"} \subseteq {"commit"} \cup Elsewhere
  BY Zenon DEF Elsewhere
<1>3. CASE Fail(s)
  BY <1>3, FailKeeps, Zenon
<1>4. CASE LeafRead(s) /\ ~Fail(s)
  <2>1. PICK n : Moves(s, n) /\ n.item = sess[s].item /\ n.pc = "leaf_write"
    BY <1>1, <1>4, LeafReadFacts, Zenon
  <2>2. UNCHANGED <<nhs, groups, routes, gMatch>>
    BY <1>1, <1>4, LeafReadFacts, Zenon DEF objs, Keep
  <2> QED
    BY <1>2, <2>1, <2>2, AwayFromRoutes, Zenon
<1>5. CASE LeafWrite(s) /\ ~Fail(s)
  <2>1. Finish(s, "ok") /\ UNCHANGED <<nhs, groups, routes, gMatch>>
    BY <1>1, <1>5, LeafWriteFacts, Zenon DEF Keep
  <2>2. PICK n : Moves(s, n) /\ n.pc \in {"idle", "next"} /\ n.item = NoItem
    BY <1>1, <2>1, FinishFacts, Zenon
  <2> QED
    BY <2>1, <2>2, EndKeeps, Zenon
<1>6. CASE IfAlloc(s)
  <2>1. PICK n : Moves(s, n) /\ n.item = sess[s].item /\ n.pc = "if_create"
    BY <1>1, <1>6, IfAllocFacts, Zenon
  <2>2. UNCHANGED <<nhs, groups, routes, gMatch>>
    BY <1>1, <1>6, IfAllocFacts, Zenon DEF objs, Keep
  <2> QED
    BY <1>2, <2>1, <2>2, AwayFromRoutes, Zenon
<1>7. CASE IfCreate(s) /\ ~Fail(s)
  <2>1. PICK n : Moves(s, n) /\ n.item = sess[s].item /\ n.pc = "commit"
    BY <1>1, <1>7, IfCreateFacts, Zenon
  <2>2. UNCHANGED <<nhs, groups, routes, gMatch>>
    BY <1>1, <1>7, IfCreateFacts, Zenon DEF Keep
  <2> QED
    BY <1>2, <2>1, <2>2, AwayFromRoutes, Zenon
<1>8. CASE IfDelete(s) /\ ~Fail(s)
  BY <1>8, Zenon DEF IfDelete, objs
<1>9. CASE PutCreate(s)
  <2>1. PICK n : Moves(s, n) /\ n.item = sess[s].item /\ n.pc \in {"put_update", "commit"}
    BY <1>1, <1>9, PutCreateFacts, Zenon
  <2>2. UNCHANGED <<nhs, groups, routes, gMatch>>
    BY <1>1, <1>9, PutCreateFacts, Zenon DEF Keep
  <2> QED
    BY <1>2, <2>1, <2>2, AwayFromRoutes, Zenon
<1>10. CASE PutUpdate(s) /\ ~Fail(s)
  <2>1. PICK n : Moves(s, n) /\ n.item = sess[s].item /\ n.pc = "commit"
    BY <1>1, <1>10, PutUpdateFacts, Zenon
  <2>2. UNCHANGED <<nhs, groups, routes, gMatch>>
    BY <1>1, <1>10, PutUpdateFacts, Zenon DEF Keep
  <2> QED
    BY <1>2, <2>1, <2>2, AwayFromRoutes, Zenon
<1>11. CASE DropTable(s) /\ ~Fail(s)
  <2>1. Finish(s, "error") /\ UNCHANGED <<nhs, groups, routes, gMatch>>
    BY <1>11, Zenon DEF DropTable
  <2>2. PICK n : Moves(s, n) /\ n.pc \in {"idle", "next"} /\ n.item = NoItem
    BY <1>1, <2>1, FinishFacts, Zenon
  <2> QED
    BY <2>1, <2>2, EndKeeps, Zenon
<1> QED
  BY <1>3, <1>4, <1>5, <1>6, <1>7, <1>8, <1>9, <1>10, <1>11, Zenon DEF OtherStep

\* gnmi_route_set and gnmi_route_set_ecmp up to their first write.
LEMMA LookupKeeps ==
  ASSUME RouteInv, NEW s \in Sessions, Lookup(s)
  PROVE  \E n : Settles(s, n)
<1>1. PICK t : t = sess[s] /\ t.pc = "lookup" /\ t.item \in Items /\ t.item.op \in {"set", "ecmp"}
  BY Zenon DEF Lookup, At, RouteInv, Phases, PhaseOK, Making
<1>2. PICK k : k = KeyOf(t.item)
  BY Zenon
<1>3. PICK n :
    /\ Moves(s, n) /\ n.item = t.item /\ n.i = 1
    /\ k \in StaticKeys =>
         /\ n.gid = routes[k].grp
         /\ t.item.op = "set" =>
              /\ n.pc = "nh_update" /\ Len(n.grp) = 1
              /\ n.gid \in DOMAIN groups /\ groups[n.gid] # << >> => n.grp[1] = groups[n.gid][1]
         /\ t.item.op # "set" => n.pc = "group_read"
    /\ k \notin StaticKeys => n.pc \in {"alloc_nh", "alloc_group"} /\ n.grp = << >>
  BY <1>1, <1>2, LookupFacts, Zenon DEF RouteInv
<1>4. UNCHANGED <<nhs, groups, routes, gMatch>>
  BY Zenon DEF Lookup, objs, Keep
<1>5. Len(t.item.gws) \in Nat /\ Len(t.item.gws) >= 1 /\ (t.item.op = "set" => Len(t.item.gws) = 1)
  BY <1>1, ItemGateways, Zenon
<1>6. Own(n, nhs, groups, routes, gMatch)
  <2>1. CASE k \in StaticKeys /\ t.item.op = "set"
    <3>1. Refers(routes, k, n.gid) /\ n.gid \in DOMAIN groups /\ groups[n.gid] # << >>
      BY <1>3, <2>1, Zenon DEF RouteInv, ObjectsOK, Refers, Static, StaticKeys
    <3>2. groups[n.gid] \in Seq(Nat) /\ n.grp \in Seq(Nat)
      BY <1>3, <3>1, Zenon DEF RouteInv, NbTypes, Moves, Threads
    <3>3. DOMAIN n.grp = {1} /\ 1 \in DOMAIN groups[n.gid]
      BY <1>3, <2>1, <3>1, <3>2
    <3>4. n.pc = "nh_update" /\ n.grp[1] = groups[n.gid][1] /\ Len(n.grp) = Len(n.item.gws)
          /\ KeyOf(n.item) = k
      BY <1>2, <1>3, <1>5, <2>1, <3>1, Zenon
    <3> QED
      BY <1>3, <3>1, <3>3, <3>4, Zenon DEF Own, BuildOK, ChangeOK, DeleteOK, Building
  <2>2. CASE k \in StaticKeys /\ t.item.op # "set"
    <3>1. Refers(routes, k, n.gid)
      BY <1>3, <2>2, Zenon DEF Refers, Static, StaticKeys
    <3> QED
      BY <1>2, <1>3, <2>2, <3>1, Zenon DEF Own, BuildOK, ChangeOK, DeleteOK, Building
  <2>3. CASE k \notin StaticKeys
    <3>1. n.grp = << >> /\ DOMAIN n.grp = {} /\ Len(n.grp) = 0
      BY <1>3, <2>3
    <3>2. Fresh(n, nhs, groups) /\ Wrote(n, nhs)
      BY <3>1, Zenon DEF Fresh, Wrote
    <3> QED
      BY <1>3, <1>5, <2>3, <3>1, <3>2 DEF Own, BuildOK, ChangeOK, DeleteOK
  <2> QED
    BY <2>1, <2>2, <2>3, Zenon
<1>7. n.pc # "route_create" /\ (n.pc \in Building => n.grp = << >>)
  BY <1>1, <1>3, Zenon DEF Building
<1>8. \A o \in Sessions \ {s} : Apart(n, sess[o])
  BY <1>1, <1>3, <1>7, ApartKept, Zenon DEF RouteInv
<1> QED
  BY <1>3, <1>4, <1>6, <1>8, QuietKeeps, Zenon

\* Reading the group of a route to be changed.
LEMMA GroupReadKeeps ==
  ASSUME RouteInv, NEW s \in Sessions, GroupRead(s), ~Fail(s)
  PROVE  \E n : Settles(s, n)
<1>1. PICK t : /\ t = sess[s] /\ t.pc = "group_read" /\ t.item \in Items
               /\ t.item.op \in {"set", "ecmp"} /\ Own(t, nhs, groups, routes, gMatch)
  BY Zenon DEF GroupRead, At, RouteInv, Phases, PhaseOK, Making
<1>2. PICK n : /\ Moves(s, n) /\ n.item = t.item /\ n.i = t.i
               /\ n.gid = t.gid /\ n.pc = "nh_update" /\ n.grp = groups[n.gid]
  BY <1>1, GroupReadFacts, Zenon DEF RouteInv
<1>3. UNCHANGED <<nhs, groups, routes, gMatch>> /\ Len(n.grp) = Len(n.item.gws)
  BY <1>1, <1>2, GroupReadFacts, Zenon DEF RouteInv, objs, Keep
<1>4. n.i = 1 /\ Refers(routes, KeyOf(n.item), n.gid)
  BY <1>1, <1>2, Zenon DEF Own, ChangeOK
<1>5. n.i \in DOMAIN n.grp
  <2>1. Len(n.item.gws) >= 1 /\ Len(n.item.gws) \in Nat
    BY <1>1, <1>2, ItemGateways, Zenon
  <2>2. n.grp \in Seq(Nat)
    BY <1>2, Zenon DEF Moves, Threads
  <2> QED
    BY <1>3, <1>4, <2>1, <2>2
<1>6. Own(n, nhs, groups, routes, gMatch)
  BY <1>2, <1>3, <1>4, <1>5, Zenon DEF Own, BuildOK, ChangeOK, DeleteOK, Building
<1>7. n.pc # "route_create" /\ n.pc \notin Building
  BY <1>2, Zenon DEF Building
<1>8. \A o \in Sessions \ {s} : Apart(n, sess[o])
  BY <1>1, <1>2, <1>7, ApartKept, Zenon DEF RouteInv
<1> QED
  BY <1>2, <1>3, <1>6, <1>8, QuietKeeps, Zenon

\* Looking for a free group or next-hop id.
LEMMA AllocKeeps ==
  ASSUME RouteInv, NEW s \in Sessions, AllocGroup(s) \/ AllocNh(s)
  PROVE  \E n : Settles(s, n)
<1>1. PICK t : /\ t = sess[s] /\ t.pc \in {"alloc_group", "alloc_nh"}
               /\ Own(t, nhs, groups, routes, gMatch)
  BY Zenon DEF AllocGroup, AllocNh, At, RouteInv
<1>2. PICK n : /\ Moves(s, n) /\ n.item = t.item /\ n.grp = t.grp /\ n.i = t.i
               /\ n.pc \in {"alloc_group", "alloc_nh", "nh_create"}
  BY <1>1, AllocGroupFacts, AllocNhFacts DEF RouteInv
<1>3. UNCHANGED <<nhs, groups, routes, gMatch>>
  BY AllocGroupFacts, AllocNhFacts, Zenon DEF RouteInv, objs, Keep
<1>4. t.pc \in Building \ {"group_create"} /\ n.pc \in Building \ {"group_create"}
  BY <1>1, <1>2, Zenon DEF Building
<1>5. Fresh(n, nhs, groups) /\ Wrote(n, nhs) /\ n.i = Len(n.grp) + 1 /\ Len(n.grp) < Len(n.item.gws)
  BY <1>1, <1>2, <1>4 DEF Own, BuildOK, Fresh, Wrote
<1>6. Own(n, nhs, groups, routes, gMatch)
  BY <1>2, <1>5, Zenon DEF Own, BuildOK, ChangeOK, DeleteOK
<1>7. \A o \in Sessions \ {s} : Apart(n, sess[o])
  BY <1>1, <1>2, <1>4, ApartKept, Zenon DEF RouteInv
<1> QED
  BY <1>2, <1>3, <1>6, <1>7, QuietKeeps, Zenon

\* gnmi_route_delete up to its first write.
LEMMA DelMatchKeeps ==
  ASSUME RouteInv, NEW s \in Sessions, DelMatch(s)
  PROVE  \E n : Settles(s, n)
<1>1. PICK t : t = sess[s] /\ t.pc = "match" /\ t.pc \in Deleting
  BY Zenon DEF DelMatch, At, Deleting
<1>2. PICK n : Moves(s, n) /\ n.item = t.item /\ n.pc = "collect"
  BY <1>1, DelMatchFacts, Zenon DEF RouteInv
<1>3. UNCHANGED <<nhs, groups, routes>> /\ gMatch' = KeyOf(n.item)
  BY <1>1, <1>2, DelMatchFacts, Zenon DEF RouteInv, objs
<1>4. Own(n, nhs', groups', routes', gMatch')
  BY <1>2, <1>3, Zenon DEF Own, BuildOK, ChangeOK, DeleteOK, Building
<1>5. \A o \in Sessions \ {s} : Own(sess[o], nhs', groups', routes', gMatch')
  BY <1>1, Exclusion, Outside, Zenon
<1>6. n.pc # "route_create" /\ n.pc \notin Building
  BY <1>2, Zenon DEF Building
<1>7. \A o \in Sessions \ {s} : Apart(n, sess[o])
  BY <1>1, <1>2, <1>6, ApartKept, Zenon DEF RouteInv
<1>8. ObjectsOK(nhs', groups', routes')
  BY <1>3, Zenon DEF RouteInv
<1> QED
  BY <1>2, <1>4, <1>5, <1>7, <1>8, Zenon DEF Settles

\* A delete collects the group of the route that matched.
LEMMA DelCollectKeeps ==
  ASSUME RouteInv, NEW s \in Sessions, DelCollect(s)
  PROVE  \E n : Settles(s, n)
<1>1. PICK t : t = sess[s] /\ t.pc = "collect" /\ Own(t, nhs, groups, routes, gMatch)
  BY Zenon DEF DelCollect, At, RouteInv
<1>2. UNCHANGED <<nhs, groups, routes, gMatch>>
  BY DelCollectFacts, Zenon DEF RouteInv, objs, Keep
<1>3. CASE Finish(s, "ok")
  <2>1. PICK n : Moves(s, n) /\ n.pc \in {"idle", "next"} /\ n.item = NoItem
    BY <1>3, FinishFacts, Zenon DEF RouteInv
  <2> QED
    BY <1>2, <2>1, EndKeeps, Zenon
<1>4. CASE ~Finish(s, "ok")
  <2>1. PICK n : /\ Moves(s, n) /\ n.item = t.item /\ n.gid = routes[gMatch].grp
                 /\ n.key = gMatch /\ n.pc = "del_read"
    BY <1>1, <1>4, DelCollectFacts, Zenon DEF RouteInv
  <2>2. gMatch \in StaticKeys
    BY <1>4, DelCollectFacts, Zenon DEF RouteInv
  <2>3. gMatch = KeyOf(t.item)
    BY <1>1, Zenon DEF Own, DeleteOK
  <2>4. n.key = KeyOf(n.item) /\ Refers(routes, n.key, n.gid)
    BY <2>1, <2>2, <2>3, Zenon DEF Refers, Static, StaticKeys
  <2>5. Own(n, nhs, groups, routes, gMatch)
    BY <2>1, <2>4, Zenon DEF Own, BuildOK, ChangeOK, DeleteOK, Building
  <2>6. n.pc # "route_create" /\ n.pc \notin Building
    BY <2>1, Zenon DEF Building
  <2>7. \A o \in Sessions \ {s} : Apart(n, sess[o])
    BY <1>1, <2>1, <2>6, ApartKept, Zenon DEF RouteInv
  <2> QED
    BY <1>2, <2>1, <2>5, <2>7, QuietKeeps, Zenon
<1> QED
  BY <1>3, <1>4, Zenon

\* A delete reads the next hops of that group.
LEMMA DelReadKeeps ==
  ASSUME RouteInv, NEW s \in Sessions, DelRead(s)
  PROVE  \E n : Settles(s, n)
<1>1. PICK t : t = sess[s] /\ t.pc = "del_read" /\ Own(t, nhs, groups, routes, gMatch)
  BY Zenon DEF DelRead, At, RouteInv
<1>2. t.key = KeyOf(t.item) /\ Refers(routes, t.key, t.gid)
  BY <1>1, Zenon DEF Own, DeleteOK
<1>3. t.gid \in DOMAIN groups
  BY <1>2, Zenon DEF RouteInv, ObjectsOK, Refers
<1>4. PICK n : /\ Moves(s, n) /\ n.item = t.item /\ n.gid = t.gid /\ n.grp = groups[t.gid]
               /\ n.i = 1 /\ n.key = t.key /\ n.pc = "del_route"
  BY <1>1, <1>3, DelReadFacts, Zenon DEF RouteInv
<1>5. UNCHANGED <<nhs, groups, routes, gMatch>>
  BY DelReadFacts, Zenon DEF RouteInv, objs, Keep
<1>6. Own(n, nhs, groups, routes, gMatch)
  BY <1>2, <1>4, Zenon DEF Own, BuildOK, ChangeOK, DeleteOK, Building
<1>7. n.pc # "route_create" /\ n.pc \notin Building
  BY <1>4, Zenon DEF Building
<1>8. \A o \in Sessions \ {s} : Apart(n, sess[o])
  BY <1>1, <1>4, <1>7, ApartKept, Zenon DEF RouteInv
<1> QED
  BY <1>4, <1>5, <1>6, <1>8, QuietKeeps, Zenon

\* The REST handler's route is not a static one: nobody's knowledge mentions it.
LEMMA RestRouteKeeps ==
  ASSUME RouteInv, NEW s \in Sessions, RestRoute(s), ~Fail(s)
  PROVE  \E n : Settles(s, n)
<1>1. PICK n : Moves(s, n) /\ n.item = sess[s].item /\ n.pc = "commit"
  BY RestRouteFacts, Zenon DEF RouteInv
<1>2. UNCHANGED <<nhs, groups, gMatch>>
  BY RestRouteFacts, Zenon DEF RouteInv, Keep
<1>3. PICK k, r : k \notin DOMAIN routes /\ routes' = Put(routes, k, r) /\ r.af # 4
  <2>1. PICK k, r : k = RouteKey(0, ZeroPrefix) /\ r = [af |-> 0, grp |-> sess[s].item.grp]
    BY Zenon
  <2>2. k \notin DOMAIN routes /\ routes' = Put(routes, k, r)
    BY <2>1, RestRouteFacts, Zenon DEF RouteInv
  <2>3. r.af # 4
    BY <2>1
  <2> QED
    BY <2>2, <2>3, Zenon
<1>4. Static(routes') = Static(routes) /\ \A x \in Static(routes) : routes'[x] = routes[x]
  BY <1>3, Zenon DEF Put, Static
<1>5. \A g : Unrouted(routes', g) <=> Unrouted(routes, g)
  BY <1>4, Zenon DEF Unrouted
<1>6. \A x, g : Refers(routes', x, g) <=> Refers(routes, x, g)
  BY <1>4, Zenon DEF Refers
<1>7. \A o \in Sessions : Own(sess[o], nhs', groups', routes', gMatch')
  BY <1>2, <1>5, <1>6, ZenonT(30) DEF RouteInv, Own, BuildOK, ChangeOK, DeleteOK
<1>8. ObjectsOK(nhs', groups', routes')
  BY <1>2, <1>4 DEF RouteInv, ObjectsOK
<1>9. n.pc # "route_create" /\ n.pc \notin Building
      /\ n.pc \notin (Making \cup Deleting) \ {"lookup", "match"}
  BY <1>1, Zenon DEF Building, Making, Deleting
<1>10. \A o \in Sessions \ {s} : Apart(n, sess[o])
  BY <1>1, <1>9, ApartKept, Zenon DEF RouteInv
<1>11. Own(n, nhs', groups', routes', gMatch')
  BY <1>9, Outside, Zenon
<1> QED
  BY <1>1, <1>7, <1>8, <1>10, <1>11, Zenon DEF Settles

\* danos_nh_update writes a member of a routed group: no thread's new next hop, no member of a
\* group that has no route yet.
LEMMA NhUpdateKeeps ==
  ASSUME RouteInv, NEW s \in Sessions, NhUpdate(s), ~Fail(s)
  PROVE  \E n : Settles(s, n)
<1>1. PICK t : t = sess[s] /\ t.pc = "nh_update" /\ Own(t, nhs, groups, routes, gMatch)
               /\ t \in Threads
  BY Zenon DEF NhUpdate, At, RouteInv, NbTypes
<1>2. PICK n : /\ Moves(s, n) /\ n.item = t.item /\ n.i = t.i + 1 /\ n.gid = t.gid /\ n.grp = t.grp
               /\ n.pc = IF t.i = Len(t.grp) THEN "commit" ELSE "nh_update"
  BY <1>1, NhUpdateFacts, Zenon DEF RouteInv
<1>3. UNCHANGED <<groups, routes, gMatch>>
  BY NhUpdateFacts, Zenon DEF RouteInv, Keep
<1>4. PICK x, v : x = t.grp[t.i] /\ x \in DOMAIN nhs /\ nhs' = Put(nhs, x, v)
  BY <1>1, NhUpdateFacts DEF RouteInv
<1>5. DOMAIN nhs' = DOMAIN nhs /\ \A y \in DOMAIN nhs : y # x => nhs'[y] = nhs[y]
  BY <1>4, Zenon DEF Put
<1>6. /\ Refers(routes, KeyOf(t.item), t.gid) /\ t.i \in DOMAIN t.grp
      /\ Len(t.grp) = Len(t.item.gws)
      /\ \A j \in DOMAIN t.grp : j \in DOMAIN groups[t.gid] /\ t.grp[j] = groups[t.gid][j]
  BY <1>1, Zenon DEF Own, ChangeOK
<1>7. t.gid \in DOMAIN groups /\ ~Unrouted(routes, t.gid)
  BY <1>6, Zenon DEF RouteInv, ObjectsOK, Refers, Unrouted
<1>8. ObjectsOK(nhs', groups', routes')
  <2>1. ObjectsOK(nhs, groups, routes) /\ \A y \in DOMAIN nhs : y \in DOMAIN nhs'
    BY <1>5, Zenon DEF RouteInv
  <2>2. ObjectsOK(nhs', groups, routes)
    BY <2>1, OtherNhs, Zenon
  <2> QED
    BY <1>3, <2>2, Zenon
<1>9. ~Free(groups, x)
  BY <1>4, <1>6, <1>7, Zenon DEF Free
<1>10. ASSUME NEW o \in Sessions PROVE Own(sess[o], nhs', groups', routes', gMatch')
  <2>1. PICK u : u = sess[o] /\ Own(u, nhs, groups, routes, gMatch)
    BY Zenon DEF RouteInv
  <2>2. u.pc \in Building => Fresh(u, nhs', groups') /\ Wrote(u, nhs')
    <3>1. u.pc \in Building => Fresh(u, nhs, groups) /\ Wrote(u, nhs)
      BY <2>1, Zenon DEF Own, BuildOK
    <3> QED
      BY <1>3, <1>5, <1>9, <3>1, Zenon DEF Fresh, Wrote
  <2>3. u.pc = "route_create" => Wrote(u, nhs')
    <3>1. u.pc = "route_create" =>
            u.gid \in DOMAIN groups /\ groups[u.gid] = u.grp /\ u.gid # t.gid /\ Wrote(u, nhs)
      BY <1>7, <2>1, Zenon DEF Own, BuildOK
    <3>2. u.pc = "route_create" => \A j \in DOMAIN u.grp : u.grp[j] \in DOMAIN nhs /\ u.grp[j] # x
      <4>1. ObjectsOK(nhs, groups, routes) /\ t.i \in DOMAIN groups[t.gid] /\ x = groups[t.gid][t.i]
        BY <1>4, <1>6, Zenon DEF RouteInv
      <4>2. SUFFICES ASSUME u.pc = "route_create", NEW j \in DOMAIN u.grp
                     PROVE  u.grp[j] \in DOMAIN nhs /\ u.grp[j] # x
        BY Zenon
      <4>3. u.gid \in DOMAIN groups /\ u.gid # t.gid /\ j \in DOMAIN groups[u.gid]
        BY <3>1, <4>2, Zenon
      <4>4. groups[u.gid][j] \in DOMAIN nhs
        BY <4>1, <4>3, Zenon DEF ObjectsOK
      <4>5. groups[u.gid][j] # groups[t.gid][t.i]
        <5>1. \A g, h \in DOMAIN groups : \A a \in DOMAIN groups[g] : \A b \in DOMAIN groups[h] :
                h # g => groups[g][a] # groups[h][b]
          BY <4>1, Zenon DEF ObjectsOK
        <5> QED
          BY <1>7, <4>1, <4>3, <5>1, Zenon
      <4> QED
        BY <3>1, <4>1, <4>2, <4>4, <4>5, Zenon
    <3> QED
      BY <1>5, <3>1, <3>2, Zenon DEF Wrote
  <2> QED
    BY <1>3, <2>1, <2>2, <2>3, ZenonT(30) DEF Own, BuildOK, ChangeOK, DeleteOK
<1>11. Own(n, nhs', groups', routes', gMatch')
  <2>1. n.pc = "nh_update" => n.i \in DOMAIN n.grp
    <3>1. t.grp \in Seq(Nat) /\ t.i \in Nat
      BY <1>1, Zenon DEF Threads
    <3> QED
      BY <1>2, <1>6, <3>1
  <2> QED
    BY <1>2, <1>3, <1>6, <2>1, Zenon DEF Own, BuildOK, ChangeOK, DeleteOK, Building
<1>12. n.pc # "route_create" /\ n.pc \notin Building
  BY <1>2, Zenon DEF Building
<1>13. \A o \in Sessions \ {s} : Apart(n, sess[o])
  BY <1>1, <1>2, <1>12, ApartKept, Zenon DEF RouteInv
<1> QED
  BY <1>2, <1>8, <1>10, <1>11, <1>13, Zenon DEF Settles

\* A member of a group under construction is appended.
LEMMA AppendFacts ==
  ASSUME NEW q \in Seq(Nat), NEW x \in Nat
  PROVE  /\ DOMAIN Append(q, x) = DOMAIN q \cup {Len(q) + 1} /\ Len(Append(q, x)) = Len(q) + 1
         /\ Append(q, x)[Len(q) + 1] = x /\ \A j \in DOMAIN q : Append(q, x)[j] = q[j]
         /\ Len(q) + 1 \notin DOMAIN q
OBVIOUS

\* danos_nh_create: the id is new, so no group and no other thread has it.
LEMMA NhCreateKeeps ==
  ASSUME RouteInv, NEW s \in Sessions, NhCreate(s), ~Fail(s)
  PROVE  \E n : Settles(s, n)
<1>1. PICK t : /\ t = sess[s] /\ t.pc = "nh_create" /\ Own(t, nhs, groups, routes, gMatch)
               /\ t \in Threads /\ t.item \in Items /\ t.item.op \in {"set", "ecmp"}
  BY Zenon DEF NhCreate, At, RouteInv, NbTypes, Phases, PhaseOK, Making
<1>2. PICK n : /\ Moves(s, n) /\ n.item = t.item /\ n.grp = Append(t.grp, t.nid) /\ n.i = t.i + 1
               /\ n.pc = IF t.i = Len(t.item.gws) THEN "group_create" ELSE "alloc_nh"
  BY <1>1, NhCreateFacts, Zenon DEF RouteInv
<1>3. UNCHANGED <<groups, routes, gMatch>>
  BY NhCreateFacts, Zenon DEF RouteInv, Keep
<1>4. PICK x, v : /\ x = t.nid /\ x \notin DOMAIN nhs /\ v = t.item.gws[t.i]
                  /\ nhs' = Put(nhs, x, v)
  BY <1>1, NhCreateFacts DEF RouteInv
<1>5. DOMAIN nhs' = DOMAIN nhs \cup {x} /\ nhs'[x] = v /\ \A y \in DOMAIN nhs : nhs'[y] = nhs[y]
  BY <1>4, Zenon DEF Put
<1>6. Fresh(t, nhs, groups) /\ Wrote(t, nhs) /\ t.i = Len(t.grp) + 1 /\ Len(t.grp) < Len(t.item.gws)
  BY <1>1, Zenon DEF Own, BuildOK, Building
<1>7. ObjectsOK(nhs', groups', routes')
  <2>1. ObjectsOK(nhs, groups, routes) /\ \A y \in DOMAIN nhs : y \in DOMAIN nhs'
    BY <1>5, Zenon DEF RouteInv
  <2>2. ObjectsOK(nhs', groups, routes)
    BY <2>1, OtherNhs, Zenon
  <2> QED
    BY <1>3, <2>2, Zenon
<1>8. Free(groups, x)
  BY <1>4, Zenon DEF RouteInv, ObjectsOK, Free
<1>9. /\ DOMAIN n.grp = DOMAIN t.grp \cup {Len(t.grp) + 1} /\ n.grp[Len(t.grp) + 1] = x
       /\ \A j \in DOMAIN t.grp : n.grp[j] = t.grp[j]
       /\ Len(n.grp) = Len(t.grp) + 1 /\ Len(t.grp) + 1 \notin DOMAIN t.grp
  <2>1. t.grp \in Seq(Nat) /\ t.nid \in Nat
    BY <1>1, Zenon DEF Threads
  <2>2. n.grp = Append(t.grp, t.nid) /\ x = t.nid
    BY <1>2, <1>4, Zenon
  <2>3. /\ DOMAIN Append(t.grp, t.nid) = DOMAIN t.grp \cup {Len(t.grp) + 1}
        /\ Append(t.grp, t.nid)[Len(t.grp) + 1] = t.nid
        /\ \A j \in DOMAIN t.grp : Append(t.grp, t.nid)[j] = t.grp[j]
        /\ Len(Append(t.grp, t.nid)) = Len(t.grp) + 1 /\ Len(t.grp) + 1 \notin DOMAIN t.grp
    BY <2>1, AppendFacts, Zenon
  <2> QED
    BY <2>2, <2>3, Zenon
<1>10. ASSUME NEW o \in Sessions \ {s}
      PROVE  Own(sess[o], nhs', groups', routes', gMatch') /\ Apart(n, sess[o])
  <2>1. PICK u : u = sess[o] /\ Own(u, nhs, groups, routes, gMatch) /\ Apart(t, u)
    BY <1>1, Zenon DEF RouteInv
  <2>2. u.pc \in Building => Fresh(u, nhs, groups) /\ Wrote(u, nhs)
    BY <2>1, Zenon DEF Own, BuildOK
  <2>3. u.pc \in Building => Fresh(u, nhs', groups') /\ Wrote(u, nhs')
    BY <1>3, <1>5, <2>2, Zenon DEF Fresh, Wrote
  <2>4. u.pc = "route_create" => Wrote(u, nhs')
    <3>1. u.pc = "route_create" => u.gid \in DOMAIN groups /\ groups[u.gid] = u.grp /\ Wrote(u, nhs)
      BY <2>1, Zenon DEF Own, BuildOK
    <3>2. u.pc = "route_create" => \A j \in DOMAIN u.grp : u.grp[j] \in DOMAIN nhs
      BY <3>1, Zenon DEF RouteInv, ObjectsOK
    <3> QED
      BY <1>5, <3>1, <3>2, Zenon DEF Wrote
  <2>5. Own(u, nhs', groups', routes', gMatch')
    BY <1>3, <2>1, <2>3, <2>4, Zenon DEF Own, BuildOK, ChangeOK, DeleteOK
  <2>6. u.pc \in Building => \A j \in DOMAIN n.grp : \A l \in DOMAIN u.grp : n.grp[j] # u.grp[l]
    <3>2. u.pc \in Building => \A j \in DOMAIN t.grp : \A l \in DOMAIN u.grp : t.grp[j] # u.grp[l]
      BY <1>1, <2>1, Zenon DEF Apart, Building
    <3>3. u.pc \in Building => \A l \in DOMAIN u.grp : u.grp[l] # x
      BY <1>4, <2>2, Zenon DEF Fresh
    <3> QED
      BY <1>9, <3>2, <3>3, Zenon
  <2>7. Apart(n, u)
    BY <1>2, <2>1, <2>6, Zenon DEF Apart, OnRoute
  <2> QED
    BY <2>1, <2>5, <2>7, Zenon
<1>11. Own(n, nhs', groups', routes', gMatch')
  <2>2. Fresh(n, nhs', groups')
    <3>1. \A j \in DOMAIN n.grp : n.grp[j] \in DOMAIN nhs' /\ Free(groups', n.grp[j])
      BY <1>3, <1>5, <1>6, <1>8, <1>9, Zenon DEF Fresh
    <3>2. \A j \in DOMAIN t.grp : t.grp[j] # x
      BY <1>4, <1>6, Zenon DEF Fresh
    <3>3. \A j, l \in DOMAIN n.grp : n.grp[j] = n.grp[l] => j = l
      BY <1>6, <1>9, <3>2, Zenon DEF Fresh
    <3> QED
      BY <3>1, <3>3, Zenon DEF Fresh
  <2>3. Wrote(n, nhs')
    <3>1. \A j \in DOMAIN t.grp : nhs'[n.grp[j]] = n.item.gws[j]
      BY <1>2, <1>5, <1>6, <1>9 DEF Fresh, Wrote
    <3>2. nhs'[n.grp[Len(t.grp) + 1]] = n.item.gws[Len(t.grp) + 1]
      BY <1>2, <1>4, <1>5, <1>6, <1>9, Zenon
    <3> QED
      BY <1>9, <3>1, <3>2, Zenon DEF Wrote
  <2>4. /\ n.pc = "alloc_nh" => n.i = Len(n.grp) + 1 /\ Len(n.grp) < Len(n.item.gws)
        /\ n.pc = "group_create" => Len(n.grp) = Len(n.item.gws)
    <3>1. Len(t.item.gws) \in Nat /\ Len(t.grp) \in Nat
      BY <1>1, ItemGateways DEF Threads
    <3> QED
      BY <1>2, <1>6, <1>9, <3>1
  <2> QED
    BY <1>2, <2>2, <2>3, <2>4, Zenon DEF Own, BuildOK, ChangeOK, DeleteOK
<1> QED
  BY <1>2, <1>7, <1>10, <1>11, Zenon DEF Settles

\* danos_nhgroup_create: the id is new and so are the members.
LEMMA GroupCreateKeeps ==
  ASSUME RouteInv, NEW s \in Sessions, GroupCreate(s), ~Fail(s)
  PROVE  \E n : Settles(s, n)
<1>1. PICK t : /\ t = sess[s] /\ t.pc = "group_create" /\ Own(t, nhs, groups, routes, gMatch)
               /\ t \in Threads /\ t.item \in Items /\ t.item.op \in {"set", "ecmp"}
  BY Zenon DEF GroupCreate, At, RouteInv, NbTypes, Phases, PhaseOK, Making
<1>2. PICK n : /\ Moves(s, n) /\ n.item = t.item /\ n.gid = t.gid /\ n.grp = t.grp
               /\ n.pc = "route_create"
  BY <1>1, GroupCreateFacts, Zenon DEF RouteInv
<1>3. UNCHANGED <<nhs, routes, gMatch>>
  BY GroupCreateFacts, Zenon DEF RouteInv, Keep
<1>4. t.gid \notin DOMAIN groups /\ groups' = Put(groups, t.gid, t.grp)
  BY <1>1, GroupCreateFacts, Zenon DEF RouteInv
<1>5. /\ DOMAIN groups' = DOMAIN groups \cup {t.gid} /\ groups'[t.gid] = t.grp
      /\ \A g \in DOMAIN groups : groups'[g] = groups[g] /\ g # t.gid
  BY <1>4, Zenon DEF Put
<1>6. Fresh(t, nhs, groups) /\ Wrote(t, nhs) /\ Len(t.grp) = Len(t.item.gws)
  BY <1>1, Zenon DEF Own, BuildOK, Building
<1>7. t.grp # << >>
  <2>1. Len(t.item.gws) \in Nat /\ Len(t.item.gws) >= 1
    BY <1>1, ItemGateways, Zenon
  <2> QED
    BY <1>6, <2>1
<1>8. ObjectsOK(nhs', groups', routes')
  <2>1. \A k \in Static(routes') : routes'[k].grp \in DOMAIN groups'
    BY <1>3, <1>5, Zenon DEF RouteInv, ObjectsOK
  <2>2. \A g \in DOMAIN groups' : /\ groups'[g] # << >>
                                  /\ \A j \in DOMAIN groups'[g] : groups'[g][j] \in DOMAIN nhs'
    BY <1>3, <1>5, <1>6, <1>7, Zenon DEF RouteInv, ObjectsOK, Fresh
  <2>3. \A g, h \in DOMAIN groups : \A j \in DOMAIN groups[g] : \A l \in DOMAIN groups[h] :
          groups[g][j] = groups[h][l] => g = h /\ j = l
    BY Zenon DEF RouteInv, ObjectsOK
  <2>4. /\ \A g \in DOMAIN groups : \A j \in DOMAIN groups[g] : \A l \in DOMAIN t.grp :
             groups[g][j] # t.grp[l]
        /\ \A j, l \in DOMAIN t.grp : t.grp[j] = t.grp[l] => j = l
    BY <1>6, Zenon DEF Fresh, Free
  <2>5. ASSUME NEW g \in DOMAIN groups', NEW h \in DOMAIN groups',
               NEW j \in DOMAIN groups'[g], NEW l \in DOMAIN groups'[h],
               groups'[g][j] = groups'[h][l]
        PROVE  g = h /\ j = l
    <3>1. CASE g = t.gid /\ h = t.gid
      BY <1>5, <2>4, <2>5, <3>1, Zenon
    <3>2. CASE g = t.gid /\ h # t.gid
      BY <1>5, <2>4, <2>5, <3>2
    <3>3. CASE g # t.gid /\ h = t.gid
      BY <1>5, <2>4, <2>5, <3>3
    <3>4. CASE g # t.gid /\ h # t.gid
      BY <1>5, <2>3, <2>5, <3>4
    <3> QED
      BY <3>1, <3>2, <3>3, <3>4, Zenon
  <2>6. \A k, l \in Static(routes') : routes'[k].grp = routes'[l].grp => k = l
    BY <1>3, Zenon DEF RouteInv, ObjectsOK
  <2> QED
    BY <2>1, <2>2, <2>5, <2>6, Zenon DEF ObjectsOK
<1>9. Unrouted(routes', t.gid)
  BY <1>3, <1>4, Zenon DEF RouteInv, ObjectsOK, Unrouted
<1>10. Own(n, nhs', groups', routes', gMatch')
  <2>1. Wrote(n, nhs')
    BY <1>2, <1>3, <1>6, Zenon DEF Wrote
  <2> QED
    BY <1>2, <1>5, <1>6, <1>9, <2>1, Zenon DEF Own, BuildOK, ChangeOK, DeleteOK, Building
<1>11. ASSUME NEW o \in Sessions \ {s}
       PROVE  Own(sess[o], nhs', groups', routes', gMatch') /\ Apart(n, sess[o])
  <2>1. PICK u : /\ u = sess[o] /\ Own(u, nhs, groups, routes, gMatch) /\ Apart(t, u)
                 /\ u.pc \notin Deleting
    BY <1>1, Exclusion, Zenon DEF RouteInv, Making
  <2>2. u.pc \in Building => Fresh(u, nhs', groups') /\ Wrote(u, nhs')
    <3>1. u.pc \in Building => Fresh(u, nhs, groups) /\ Wrote(u, nhs)
      BY <2>1, Zenon DEF Own, BuildOK
    <3>2. u.pc \in Building => \A j \in DOMAIN u.grp : \A l \in DOMAIN t.grp : t.grp[l] # u.grp[j]
      BY <1>1, <2>1, Zenon DEF Apart, Building
    <3>3. u.pc \in Building => \A j \in DOMAIN u.grp : Free(groups', u.grp[j])
      BY <1>5, <3>1, <3>2 DEF Fresh, Free
    <3> QED
      BY <1>3, <3>1, <3>3, Zenon DEF Fresh, Wrote
  <2>3. BuildOK(u, nhs', groups', routes')
    <3>1. u.pc = "route_create" => u.gid \in DOMAIN groups
      BY <2>1, Zenon DEF Own, BuildOK
    <3> QED
      BY <1>3, <1>5, <2>1, <2>2, <3>1, Zenon DEF Own, BuildOK
  <2>4. ChangeOK(u, groups', routes')
    <3>1. u.pc = "nh_update" => u.gid \in DOMAIN groups
      BY <2>1, Zenon DEF Own, ChangeOK, Refers, RouteInv, ObjectsOK
    <3> QED
      BY <1>3, <1>5, <2>1, <3>1, Zenon DEF Own, ChangeOK
  <2>5. DeleteOK(u, groups', routes', gMatch')
    BY <2>1, Zenon DEF DeleteOK, Deleting
  <2>6. u.pc = "route_create" => u.gid # n.gid
    BY <1>2, <1>4, <2>1, Zenon DEF Own, BuildOK
  <2>7. Apart(n, u)
    BY <1>2, <2>1, <2>6, Zenon DEF Apart, OnRoute, Building
  <2> QED
    BY <2>1, <2>3, <2>4, <2>5, <2>7, Zenon DEF Own
<1> QED
  BY <1>2, <1>8, <1>10, <1>11, Zenon DEF Settles

\* danos_route_create: the group is complete and no other route has it.
LEMMA RouteCreateKeeps ==
  ASSUME RouteInv, NEW s \in Sessions, RouteCreate(s), ~Fail(s)
  PROVE  \E n : Settles(s, n)
<1>1. PICK t : /\ t = sess[s] /\ t.pc = "route_create" /\ Own(t, nhs, groups, routes, gMatch)
               /\ t.item.op \in {"set", "ecmp"}
  BY Zenon DEF RouteCreate, At, RouteInv, Phases, PhaseOK, Making
<1>2. PICK n : Moves(s, n) /\ n.item = t.item /\ n.pc = "commit"
  BY <1>1, RouteCreateFacts, Zenon DEF RouteInv
<1>3. UNCHANGED <<nhs, groups, gMatch>>
  BY RouteCreateFacts, Zenon DEF RouteInv, Keep
<1>4. PICK k, r : k = KeyOf(t.item) /\ r = [af |-> 4, grp |-> t.gid]
  BY Zenon
<1>5. k \notin DOMAIN routes /\ routes' = Put(routes, k, r)
  BY <1>1, <1>4, RouteCreateFacts, Zenon DEF RouteInv
<1>6. /\ Static(routes') = Static(routes) \cup {k} /\ k \notin Static(routes)
      /\ routes'[k].grp = t.gid /\ \A x \in Static(routes) : routes'[x] = routes[x]
  BY <1>4, <1>5, Zenon DEF Put, Static
<1>7. t.gid \in DOMAIN groups /\ Unrouted(routes, t.gid)
  BY <1>1, Zenon DEF Own, BuildOK
<1>8. ObjectsOK(nhs', groups', routes')
  <2>1. \A x \in Static(routes') : routes'[x].grp \in DOMAIN groups'
    BY <1>3, <1>6, <1>7, Zenon DEF RouteInv, ObjectsOK
  <2>2. \A x, y \in Static(routes') : routes'[x].grp = routes'[y].grp => x = y
    BY <1>6, <1>7, Zenon DEF RouteInv, ObjectsOK, Unrouted
  <2> QED
    BY <1>3, <2>1, <2>2 DEF RouteInv, ObjectsOK
<1>9. ASSUME NEW o \in Sessions \ {s}
      PROVE  Own(sess[o], nhs', groups', routes', gMatch')
  <2>1. PICK u : /\ u = sess[o] /\ Own(u, nhs, groups, routes, gMatch) /\ Apart(t, u)
                 /\ u.pc \notin Deleting
    BY <1>1, Exclusion, Zenon DEF RouteInv, Making
  <2>2. u.pc = "route_create" => u.gid # t.gid
    BY <1>1, <2>1, Zenon DEF Apart
  <2>3. u.pc = "route_create" => Unrouted(routes', u.gid)
    BY <1>6, <2>1, <2>2, Zenon DEF Own, BuildOK, Unrouted
  <2>4. BuildOK(u, nhs', groups', routes')
    BY <1>3, <2>1, <2>3, Zenon DEF Own, BuildOK
  <2>5. \A x, g : Refers(routes, x, g) => Refers(routes', x, g)
    BY <1>6, Zenon DEF Refers
  <2>6. ChangeOK(u, groups', routes')
    BY <1>3, <2>1, <2>5, Zenon DEF Own, ChangeOK
  <2>7. DeleteOK(u, groups', routes', gMatch')
    BY <2>1, Zenon DEF DeleteOK, Deleting
  <2> QED
    BY <2>1, <2>4, <2>6, <2>7, Zenon DEF Own
<1>10. n.pc # "route_create" /\ n.pc \notin Building
       /\ n.pc \notin (Making \cup Deleting) \ {"lookup", "match"}
  BY <1>2, Zenon DEF Building, Making, Deleting
<1>11. \A o \in Sessions \ {s} : Apart(n, sess[o])
  BY <1>1, <1>2, <1>10, ApartKept, Zenon DEF RouteInv
<1>12. Own(n, nhs', groups', routes', gMatch')
  BY <1>10, Outside, Zenon
<1> QED
  BY <1>2, <1>8, <1>9, <1>11, <1>12, Zenon DEF Settles

\* A delete's step: no other thread is in a route handler.
LEMMA DeleteKeeps ==
  ASSUME RouteInv, NEW s \in Sessions, NEW n, Moves(s, n), sess[s].pc \in Deleting,
         n.item = sess[s].item, n.pc \in {"del_group", "del_nh", "commit"},
         ObjectsOK(nhs', groups', routes'), Own(n, nhs', groups', routes', gMatch')
  PROVE  Settles(s, n)
<1>1. \A o \in Sessions \ {s} : Own(sess[o], nhs', groups', routes', gMatch')
  BY Exclusion, Outside, Zenon
<1>2. n.pc # "route_create" /\ n.pc \notin Building
  BY Zenon DEF Building
<1>3. \A o \in Sessions \ {s} : Apart(n, sess[o])
  BY <1>2, ApartKept, Zenon DEF RouteInv
<1> QED
  BY <1>1, <1>3, Zenon DEF Settles

\* danos_route_delete leaves the group without a route.
LEMMA DelRouteKeeps ==
  ASSUME RouteInv, NEW s \in Sessions, DelRoute(s), ~Fail(s)
  PROVE  \E n : Settles(s, n)
<1>1. PICK t : /\ t = sess[s] /\ t.pc = "del_route" /\ Own(t, nhs, groups, routes, gMatch)
               /\ t.pc \in Deleting
  BY Zenon DEF DelRoute, At, RouteInv, Deleting
<1>2. PICK n : /\ Moves(s, n) /\ n.item = t.item /\ n.gid = t.gid /\ n.grp = t.grp /\ n.i = t.i
               /\ n.pc = IF t.grp = << >> THEN "commit" ELSE "del_group"
  BY <1>1, DelRouteFacts, Zenon DEF RouteInv
<1>3. UNCHANGED <<nhs, groups, gMatch>>
  BY DelRouteFacts, Zenon DEF RouteInv, Keep
<1>4. routes' = Drop(routes, t.key)
  BY <1>1, DelRouteFacts, Zenon DEF RouteInv
<1>5. /\ Static(routes') = Static(routes) \ {t.key}
      /\ \A x \in Static(routes') : routes'[x] = routes[x]
  BY <1>4, Zenon DEF Drop, Static
<1>6. Refers(routes, t.key, t.gid) /\ t.grp = groups[t.gid] /\ t.i = 1
  BY <1>1, Zenon DEF Own, DeleteOK
<1>7. Unrouted(routes', t.gid) /\ t.gid \in DOMAIN groups
  BY <1>5, <1>6 DEF RouteInv, ObjectsOK, Refers, Unrouted
<1>8. ObjectsOK(nhs', groups', routes')
  BY <1>3, <1>5 DEF RouteInv, ObjectsOK
<1>9. Own(n, nhs', groups', routes', gMatch')
  BY <1>2, <1>3, <1>6, <1>7, Zenon DEF Own, BuildOK, ChangeOK, DeleteOK, Building
<1>10. n.pc \in {"del_group", "del_nh", "commit"}
  BY <1>2, Zenon
<1> QED
  BY <1>1, <1>2, <1>8, <1>9, <1>10, DeleteKeeps, Zenon

\* danos_nhgroup_delete leaves the members without a group.
LEMMA DelGroupKeeps ==
  ASSUME RouteInv, NEW s \in Sessions, DelGroup(s), ~Fail(s)
  PROVE  \E n : Settles(s, n)
<1>1. PICK t : /\ t = sess[s] /\ t.pc = "del_group" /\ Own(t, nhs, groups, routes, gMatch)
               /\ t.pc \in Deleting
  BY Zenon DEF DelGroup, At, RouteInv, Deleting
<1>2. PICK n : /\ Moves(s, n) /\ n.item = t.item /\ n.grp = t.grp /\ n.i = t.i /\ n.pc = "del_nh"
  BY <1>1, DelGroupFacts, Zenon DEF RouteInv
<1>3. UNCHANGED <<nhs, routes, gMatch>>
  BY DelGroupFacts, Zenon DEF RouteInv, Keep
<1>4. groups' = Drop(groups, t.gid)
  BY <1>1, DelGroupFacts, Zenon DEF RouteInv
<1>5. /\ DOMAIN groups' = DOMAIN groups \ {t.gid}
      /\ \A g \in DOMAIN groups' : groups'[g] = groups[g]
  BY <1>4, Zenon DEF Drop
<1>6. /\ t.gid \in DOMAIN groups /\ Unrouted(routes, t.gid) /\ t.grp = groups[t.gid] /\ t.i = 1
  BY <1>1, Zenon DEF Own, DeleteOK
<1>7. ObjectsOK(nhs', groups', routes')
  <2>1. ObjectsOK(nhs, groups, routes) /\ \A k \in Static(routes) : routes[k].grp \in DOMAIN groups'
    BY <1>5, <1>6, Zenon DEF RouteInv, ObjectsOK, Unrouted
  <2>2. DOMAIN groups' \subseteq DOMAIN groups /\ \A g \in DOMAIN groups' : groups'[g] = groups[g]
    BY <1>5, Zenon
  <2>3. ObjectsOK(nhs, groups', routes)
    BY <2>1, <2>2, FewerGroups, Zenon
  <2> QED
    BY <1>3, <2>3, Zenon
<1>8. \A j \in DOMAIN n.grp : Free(groups', n.grp[j])
  <2>1. \A g, h \in DOMAIN groups : \A j \in DOMAIN groups[g] : \A l \in DOMAIN groups[h] :
          h # g => groups[g][j] # groups[h][l]
    BY Zenon DEF RouteInv, ObjectsOK
  <2>2. SUFFICES ASSUME NEW j \in DOMAIN n.grp, NEW h \in DOMAIN groups', NEW l \in DOMAIN groups'[h]
                 PROVE  groups'[h][l] # n.grp[j]
    BY Zenon DEF Free
  <2>3. /\ h \in DOMAIN groups /\ h # t.gid /\ groups'[h] = groups[h] /\ l \in DOMAIN groups[h]
        /\ n.grp = groups[t.gid] /\ j \in DOMAIN groups[t.gid]
    BY <1>2, <1>5, <1>6, Zenon
  <2>4. groups[t.gid][j] # groups[h][l]
    BY <1>6, <2>1, <2>3, Zenon
  <2> QED
    BY <2>3, <2>4, Zenon
<1>9. Own(n, nhs', groups', routes', gMatch')
  <2>1. n.pc = "del_nh" /\ n.i > 0
    BY <1>2, <1>6
  <2> QED
    BY <1>8, <2>1, Zenon DEF Own, BuildOK, ChangeOK, DeleteOK, Building
<1> QED
  BY <1>1, <1>2, <1>7, <1>9, DeleteKeeps, Zenon

\* danos_nh_delete takes a next hop that no group has.
LEMMA DelNhKeeps ==
  ASSUME RouteInv, NEW s \in Sessions, DelNh(s)
  PROVE  \E n : Settles(s, n)
<1>1. PICK t : /\ t = sess[s] /\ t.pc = "del_nh" /\ Own(t, nhs, groups, routes, gMatch)
               /\ t.pc \in Deleting /\ t.i \in Nat /\ t.grp \in Seq(Nat)
  BY Zenon DEF DelNh, At, RouteInv, Deleting, NbTypes, Threads
<1>2. t.i > 0 /\ \A j \in DOMAIN t.grp : Free(groups, t.grp[j])
  BY <1>1, Zenon DEF Own, DeleteOK
<1>3. CASE UNCHANGED objs /\ ~CascadeMore(s)
  <2>1. PICK n : Moves(s, n) /\ n.item = t.item /\ n.pc = "commit"
    BY <1>1, <1>3, DelNhFacts, Zenon DEF RouteInv
  <2>2. UNCHANGED <<nhs, groups, routes, gMatch>>
    BY <1>3, DelNhFacts, Zenon DEF RouteInv, objs, Keep
  <2> QED
    BY <1>1, <2>1, <2>2, AwayFromRoutes, Zenon
<1>4. CASE CascadeMore(s)
  <2>1. PICK n : /\ Moves(s, n) /\ n.item = t.item /\ n.grp = t.grp /\ n.i = t.i + 1
                 /\ n.pc = "del_nh"
    BY <1>1, <1>4, DelNhFacts, Zenon DEF RouteInv
  <2>2. UNCHANGED <<groups, routes>> /\ nhs' = Drop(nhs, t.grp[t.i])
    BY <1>1, <1>4, DelNhFacts, ZenonT(30) DEF RouteInv
  <2>3. t.i \in DOMAIN t.grp
    BY <1>1, <1>2, <1>4 DEF CascadeMore
  <2>4. \A g \in DOMAIN groups : \A j \in DOMAIN groups[g] : groups[g][j] # t.grp[t.i]
    BY <1>2, <2>3, Zenon DEF Free
  <2>5. DOMAIN nhs' = DOMAIN nhs \ {t.grp[t.i]}
    BY <2>2, Zenon DEF Drop
  <2>6. ObjectsOK(nhs', groups', routes')
    <3>1. ObjectsOK(nhs, groups, routes) /\ \A x \in DOMAIN nhs : x \in DOMAIN nhs' \/ Free(groups, x)
      BY <2>4, <2>5, Zenon DEF RouteInv, Free
    <3>2. ObjectsOK(nhs', groups, routes)
      BY <3>1, OtherNhs, Zenon
    <3> QED
      BY <2>2, <3>2, Zenon
  <2>7. Own(n, nhs', groups', routes', gMatch')
    <3>1. n.pc = "del_nh" /\ n.i > 0
      BY <1>1, <1>2, <2>1
    <3>2. \A j \in DOMAIN n.grp : Free(groups', n.grp[j])
      BY <1>2, <2>1, <2>2, Zenon
    <3> QED
      BY <3>1, <3>2, Zenon DEF Own, BuildOK, ChangeOK, DeleteOK, Building
  <2> QED
    BY <1>1, <2>1, <2>6, <2>7, DeleteKeeps, Zenon
<1> QED
  BY <1>3, <1>4, DelNhFacts, Zenon DEF RouteInv

\* Every step of a route item keeps RouteInv.
LEMMA RouteStepKeeps ==
  ASSUME RouteInv, NEW s \in Sessions, RouteStep(s)
  PROVE  \E n : Settles(s, n)
<1>1. CASE Fail(s)
  BY <1>1, FailKeeps, Zenon
<1>2. CASE ~Fail(s)
  BY <1>2, LookupKeeps, GroupReadKeeps, AllocKeeps, NhUpdateKeeps, NhCreateKeeps,
     GroupCreateKeeps, RouteCreateKeeps, DelMatchKeeps, DelCollectKeeps, DelReadKeeps,
     DelRouteKeeps, DelGroupKeeps, DelNhKeeps, RestRouteKeeps, Zenon DEF RouteStep
<1> QED
  BY <1>1, <1>2, Zenon

\* Every step keeps RouteInv.
LEMMA StepRoutes ==
  ASSUME RouteInv, SerialDeletes, Next \/ UNCHANGED vars
  PROVE  RouteInv'
<1>1. NbTypes' /\ Phases'
  BY StepTypes, Zenon DEF RouteInv
<1>2. CASE UNCHANGED <<nhs, groups, routes, gMatch, sess>>
  BY <1>1, <1>2, Zenon DEF RouteInv
<1>3. CASE Next
  <2>1. PICK s \in Sessions : \/ \E f \in Fronts : Request(s, f)
                              \/ NextItem(s) \/ Commit(s) \/ RouteStep(s) \/ OtherStep(s)
    BY <1>3, Steps, Zenon
  <2>2. (\E n : Settles(s, n)) \/ UNCHANGED <<nhs, groups, routes, gMatch, sess>>
    BY <2>1, ControlKeeps, RouteStepKeeps, OtherStepKeeps, Zenon
  <2> QED
    BY <1>1, <1>2, <2>2, Settled, Zenon
<1>4. CASE UNCHANGED vars
  BY <1>2, <1>4, Zenon DEF vars
<1> QED
  BY <1>3, <1>4, Zenon

\* RouteInv holds at the start.
LEMMA InitRoutes == Init => RouteInv
<1> SUFFICES ASSUME Init PROVE RouteInv
  BY Zenon
<1>1. NbTypes /\ Phases
  BY InitTypes, Zenon
<1>2. DOMAIN nhs = {} /\ DOMAIN groups = {} /\ DOMAIN routes = {}
  BY DEF Init
<1>3. ObjectsOK(nhs, groups, routes)
  BY <1>2, Zenon DEF ObjectsOK, Static
<1>4. \A s \in Sessions : sess[s] = Idle /\ Idle.pc = "idle" /\ Idle.item = NoItem
  BY IdleThread, Zenon DEF Init
<1>5. \A s \in Sessions : Own(sess[s], nhs, groups, routes, gMatch)
  BY <1>4, Zenon DEF Own, BuildOK, ChangeOK, DeleteOK, Building
<1>6. \A s, o \in Sessions : s # o => Apart(sess[s], sess[o])
  BY <1>4, Zenon DEF Apart, OnRoute, Building
<1> QED
  BY <1>1, <1>3, <1>5, <1>6, Zenon DEF RouteInv

\* A static route resolves in every state: its group exists, and so does every next hop of the
\* group, whatever composite calls run at the same time, provided that clients do not overlap
\* a route delete with another route call.
THEOREM RoutesResolve == ASSUME SerialDeletes PROVE Spec => []RouteResolves
<1>1. RouteInv /\ [Next]_vars => RouteInv'
  BY StepRoutes, Zenon
<1>2. RouteInv => RouteResolves
  BY Zenon DEF RouteInv, ObjectsOK, RouteResolves, Static, StaticKeys
<1> QED
  BY <1>1, <1>2, InitRoutes, PTL DEF Spec
=============================================================================
