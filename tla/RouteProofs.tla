---------------------------- MODULE RouteProofs ----------------------------
(***************************************************************************)
(* What creating, changing and deleting routes leaves behind (module       *)
(* Northbound): nothing leaks unnoticed, and the routes are a RouteTable.  *)
(***************************************************************************)
EXTENDS NorthboundProofs

-----------------------------------------------------------------------------
(***************************************************************************)
(* Nothing is left behind.  A next hop without a group and a group without *)
(* a route belong to a thread that is about to give or to take the         *)
(* reference, until some route item is refused.                            *)
(***************************************************************************)
\* No request names more gateways than a composite delete removes next hops.
CascadeCovers == \A it \in Items : it.op \in {"set", "ecmp"} => Len(it.gws) <= CascadeMax

HoldsG(t, g) == t.pc \in {"route_create", "del_group"} /\ t.gid = g
HoldsN(t, x) ==
  \/ t.pc \in Building /\ \E j \in DOMAIN t.grp : t.grp[j] = x
  \/ t.pc = "del_nh" /\ \E j \in DOMAIN t.grp : t.i <= j /\ t.grp[j] = x
Shorts(G) == \A g \in DOMAIN G : Len(G[g]) <= CascadeMax
ShortList(t) == t.pc = "del_nh" => Len(t.grp) <= CascadeMax

LeakInv ==
  /\ RouteInv /\ Shorts(groups) /\ \A s \in Sessions : ShortList(sess[s])
  /\ ~refused =>
       /\ \A g \in DOMAIN groups : \/ ~Unrouted(routes, g)
                                   \/ \E s \in Sessions : HoldsG(sess[s], g)
       /\ \A x \in DOMAIN nhs : ~Free(groups, x) \/ \E s \in Sessions : HoldsN(sess[s], x)

\* A step of session s that loses track of nothing: its thread becomes n.
KeepsG(s, n) ==
  \A g \in DOMAIN groups' :
    \/ ~Unrouted(routes', g) \/ HoldsG(n, g)
    \/ g \in DOMAIN groups /\ Unrouted(routes, g) /\ ~HoldsG(sess[s], g)
KeepsN(s, n) ==
  \A x \in DOMAIN nhs' :
    \/ ~Free(groups', x) \/ HoldsN(n, x)
    \/ x \in DOMAIN nhs /\ Free(groups, x) /\ ~HoldsN(sess[s], x)
Accounts(s, n) ==
  /\ Moves(s, n) /\ Shorts(groups') /\ ShortList(n)
  /\ ~refused' => ~refused /\ KeepsG(s, n) /\ KeepsN(s, n)

\* A step that accounts for the objects its thread held keeps LeakInv.
LEMMA Accounted ==
  ASSUME LeakInv, RouteInv', NEW s \in Sessions, NEW n, Accounts(s, n)
  PROVE  LeakInv'
<1>1. sess'[s] = n /\ \A o \in Sessions \ {s} : sess'[o] = sess[o]
  BY MoveTypes, Zenon DEF LeakInv, RouteInv, Accounts
<1>2. Shorts(groups') /\ \A o \in Sessions : ShortList(sess'[o])
  BY <1>1, Zenon DEF LeakInv, Accounts
<1>3. ASSUME ~refused', NEW g \in DOMAIN groups', Unrouted(routes', g)
      PROVE  \E o \in Sessions : HoldsG(sess'[o], g)
  <2>1. HoldsG(n, g) \/ (g \in DOMAIN groups /\ Unrouted(routes, g) /\ ~HoldsG(sess[s], g))
    BY <1>3, Zenon DEF Accounts, KeepsG
  <2>2. CASE HoldsG(n, g)
    BY <1>1, <2>2, Zenon
  <2>3. CASE g \in DOMAIN groups /\ Unrouted(routes, g) /\ ~HoldsG(sess[s], g)
    <3>1. PICK o \in Sessions : HoldsG(sess[o], g)
      BY <1>3, <2>3, Zenon DEF LeakInv, Accounts
    <3> QED
      BY <1>1, <2>3, <3>1, Zenon
  <2> QED
    BY <2>1, <2>2, <2>3, Zenon
<1>4. ASSUME ~refused', NEW x \in DOMAIN nhs', Free(groups', x)
      PROVE  \E o \in Sessions : HoldsN(sess'[o], x)
  <2>1. HoldsN(n, x) \/ (x \in DOMAIN nhs /\ Free(groups, x) /\ ~HoldsN(sess[s], x))
    BY <1>4, Zenon DEF Accounts, KeepsN
  <2>2. CASE HoldsN(n, x)
    BY <1>1, <2>2, Zenon
  <2>3. CASE x \in DOMAIN nhs /\ Free(groups, x) /\ ~HoldsN(sess[s], x)
    <3>1. PICK o \in Sessions : HoldsN(sess[o], x)
      BY <1>4, <2>3, Zenon DEF LeakInv, Accounts
    <3> QED
      BY <1>1, <2>3, <3>1, Zenon
  <2> QED
    BY <2>1, <2>2, <2>3, Zenon
<1> QED
  BY <1>2, <1>3, <1>4, Zenon DEF LeakInv

\* A thread outside the route handlers holds nothing.
Holding == Building \cup {"route_create", "del_group", "del_nh"}
\* A thread outside the route items holds no object.
LEMMA HoldsNothing ==
  ASSUME NEW t, t.pc \notin Holding
  PROVE  \A x : ~HoldsG(t, x) /\ ~HoldsN(t, x)
BY Zenon DEF HoldsG, HoldsN, Holding

\* A step that changes no object and gives up none.
LEMMA QuietAccounts ==
  ASSUME LeakInv, NEW s \in Sessions, NEW n, Moves(s, n), UNCHANGED <<nhs, groups, routes>>,
         n.pc # "del_nh",
         ~refused' => ~refused /\ \A x : /\ HoldsG(sess[s], x) => HoldsG(n, x)
                                         /\ HoldsN(sess[s], x) => HoldsN(n, x)
  PROVE  Accounts(s, n)
BY Zenon DEF LeakInv, Accounts, KeepsG, KeepsN, ShortList

\* The end of an item: either it is a refusal of a route item, or nothing is held.
LEMMA FinishAccounts ==
  ASSUME LeakInv, NEW s \in Sessions, NEW reply \in {"ok", "error"}, Finish(s, reply),
         UNCHANGED <<nhs, groups, routes>>, sess[s].pc \notin {"idle", "next"},
         reply = "ok" => sess[s].pc \notin Holding
  PROVE  \E n : Accounts(s, n)
<1>1. PICK n : Moves(s, n) /\ n.pc \in {"idle", "next"}
  BY FinishFacts, Zenon DEF LeakInv, RouteInv
<1>2. ~refused' => ~refused /\ (reply = "ok" \/ sess[s].item.op \notin RouteOps)
  BY FinishFacts, Zenon DEF LeakInv, RouteInv
<1>3. sess[s].item.op \notin RouteOps => sess[s].pc \notin Holding
  BY Zenon DEF LeakInv, RouteInv, Phases, PhaseOK, RouteOps, Making, Deleting, Holding, Building
<1>4. ~refused' => \A x : ~HoldsG(sess[s], x) /\ ~HoldsN(sess[s], x)
  BY <1>2, <1>3, HoldsNothing, Zenon
<1> QED
  BY <1>1, <1>2, <1>4, QuietAccounts, Zenon

\* A failing item sets refused, after which nothing is claimed of leaks.
LEMMA FailAccounts ==
  ASSUME LeakInv, NEW s \in Sessions, Fail(s), sess[s].pc \notin {"idle", "next"}
  PROVE  \E n : Accounts(s, n)
<1>1. Finish(s, "error") /\ UNCHANGED <<nhs, groups, routes>>
  BY Zenon DEF Fail, objs
<1> QED
  BY <1>1, FinishAccounts, Zenon

\* A step that starts with nothing held and leaves the objects alone.
LEMMA AwayAccounts ==
  ASSUME LeakInv, NEW s \in Sessions, NEW n, Moves(s, n), UNCHANGED <<nhs, groups, routes, refused>>,
         sess[s].pc \notin Holding, n.pc # "del_nh"
  PROVE  Accounts(s, n)
BY HoldsNothing, QuietAccounts, Zenon

\* A request, its next item, its commit.
LEMMA ControlAccounts ==
  ASSUME LeakInv, NEW s \in Sessions,
         (\E f \in Fronts : Request(s, f)) \/ NextItem(s) \/ Commit(s)
  PROVE  \E n : Accounts(s, n)
<1>1. NbTypes /\ Phases
  BY Zenon DEF LeakInv, RouteInv
<1>2. ASSUME NEW it \in Items, NEW rest \in Seq(Items), Begin(s, it, rest),
             sess[s].pc \in {"idle", "next"}, UNCHANGED <<nhs, groups, routes, refused>>
      PROVE  \E n : Accounts(s, n)
  <2>1. PICK n : Moves(s, n) /\ n.pc \in ({"lookup", "match"} \cup Elsewhere) \ {"leaf_write"}
    BY <1>1, <1>2, BeginFacts, Zenon
  <2>2. n.pc # "del_nh" /\ sess[s].pc \notin Holding
    BY <1>2, <2>1, Zenon DEF Elsewhere, Holding, Building
  <2> QED
    BY <1>2, <2>1, <2>2, AwayAccounts, Zenon
<1>3. CASE \E f \in Fronts : Request(s, f)
  <2>1. PICK f \in Fronts : Request(s, f)
    BY <1>3, Zenon
  <2>2. \E it \in Items, rest \in Seq(Items) : Begin(s, it, rest)
    BY <1>1, <2>1, RequestFacts, Zenon
  <2>3. UNCHANGED <<nhs, groups, routes, refused>> /\ sess[s].pc \in {"idle", "next"}
    BY <2>1, Zenon DEF Request, At, objs
  <2> QED
    BY <1>2, <2>2, <2>3, Zenon
<1>4. CASE NextItem(s)
  <2>1. UNCHANGED <<nhs, groups, routes, refused>> /\ sess[s].pc \in {"idle", "next"}
        /\ sess[s].todo \in Seq(Items)
    BY <1>1, <1>4, Zenon DEF NextItem, At, objs, Keep, NbTypes, Threads
  <2>2. CASE sess[s].todo = << >>
    <3>1. sess' = [sess EXCEPT ![s] = Idle]
      BY <1>4, <2>2, Zenon DEF NextItem, Go
    <3>2. Moves(s, Idle) /\ Idle.pc # "del_nh" /\ sess[s].pc \notin Holding
      BY <2>1, <3>1, IdleThread, Zenon DEF Moves, Holding, Building
    <3> QED
      BY <2>1, <3>2, AwayAccounts, Zenon
  <2>3. CASE sess[s].todo # << >>
    <3>1. Head(sess[s].todo) \in Items /\ Tail(sess[s].todo) \in Seq(Items)
      BY <2>1, <2>3
    <3>2. Begin(s, Head(sess[s].todo), Tail(sess[s].todo))
      BY <1>4, <2>3, Zenon DEF NextItem
    <3> QED
      BY <1>2, <2>1, <3>1, <3>2, Zenon
  <2> QED
    BY <2>2, <2>3, Zenon
<1>5. CASE Commit(s)
  <2>1. (Finish(s, "ok") \/ Finish(s, "error")) /\ UNCHANGED <<nhs, groups, routes>>
    BY <1>5, Zenon DEF Commit, objs
  <2>2. sess[s].pc \notin {"idle", "next"} /\ sess[s].pc \notin Holding
    BY <1>5, Zenon DEF Commit, At, Holding, Building
  <2> QED
    BY <2>1, <2>2, FinishAccounts, Zenon
<1> QED
  BY <1>3, <1>4, <1>5, Zenon

\* The steps of the other items touch no group and no next hop.
LEMMA OtherStepAccounts ==
  ASSUME LeakInv, NEW s \in Sessions, OtherStep(s)
  PROVE  (\E n : Accounts(s, n)) \/ UNCHANGED <<nhs, groups, routes, gMatch, sess, refused>>
<1>1. NbTypes /\ Phases
  BY Zenon DEF LeakInv, RouteInv
<1>2. sess[s].pc \notin {"idle", "next"} /\ sess[s].pc \notin Holding
  <2>1. LeafRead(s) => sess[s].pc = "leaf_read"
    BY ZenonT(30) DEF LeafRead, At
  <2>2. LeafWrite(s) => sess[s].pc = "leaf_write"
    BY Zenon DEF LeafWrite, At
  <2>3. IfAlloc(s) => sess[s].pc = "if_alloc"
    BY DEF IfAlloc, At
  <2>4. IfCreate(s) => sess[s].pc = "if_create"
    BY DEF IfCreate, At
  <2>5. IfDelete(s) => sess[s].pc = "if_delete"
    BY Zenon DEF IfDelete, At
  <2>6. PutCreate(s) => sess[s].pc = "put_create"
    BY Zenon DEF PutCreate, At
  <2>7. PutUpdate(s) => sess[s].pc = "put_update"
    BY Zenon DEF PutUpdate, At
  <2>8. DropTable(s) => sess[s].pc = "drop"
    BY Zenon DEF DropTable, At
  <2> QED
    BY <2>1, <2>2, <2>3, <2>4, <2>5, <2>6, <2>7, <2>8, Zenon DEF OtherStep, Holding, Building
<1>3. CASE Fail(s)
  BY <1>2, <1>3, FailAccounts, Zenon
<1>4. CASE LeafRead(s) /\ ~Fail(s)
  <2>1. PICK n : Moves(s, n) /\ n.pc # "del_nh"
    BY <1>1, <1>4, LeafReadFacts, Zenon
  <2>2. UNCHANGED <<nhs, groups, routes, refused>>
    BY <1>1, <1>4, LeafReadFacts, Zenon DEF objs, hist
  <2> QED
    BY <1>2, <2>1, <2>2, AwayAccounts, Zenon
<1>5. CASE LeafWrite(s) /\ ~Fail(s)
  <2>1. Finish(s, "ok") /\ UNCHANGED <<nhs, groups, routes>>
    BY <1>1, <1>5, LeafWriteFacts, Zenon
  <2> QED
    BY <1>2, <2>1, FinishAccounts, Zenon
<1>6. CASE IfAlloc(s)
  <2>1. PICK n : Moves(s, n) /\ n.pc # "del_nh"
    BY <1>1, <1>6, IfAllocFacts, Zenon
  <2>2. UNCHANGED <<nhs, groups, routes, refused>>
    BY <1>1, <1>6, IfAllocFacts, Zenon DEF objs, hist
  <2> QED
    BY <1>2, <2>1, <2>2, AwayAccounts, Zenon
<1>7. CASE IfCreate(s) /\ ~Fail(s)
  <2>1. PICK n : Moves(s, n) /\ n.pc # "del_nh"
    BY <1>1, <1>7, IfCreateFacts, Zenon
  <2>2. UNCHANGED <<nhs, groups, routes, refused>>
    BY <1>1, <1>7, IfCreateFacts, Zenon DEF hist
  <2> QED
    BY <1>2, <2>1, <2>2, AwayAccounts, Zenon
<1>8. CASE IfDelete(s) /\ ~Fail(s)
  BY <1>8, Zenon DEF IfDelete, objs, hist
<1>9. CASE PutCreate(s)
  <2>1. PICK n : Moves(s, n) /\ n.pc # "del_nh"
    BY <1>1, <1>9, PutCreateFacts, Zenon
  <2>2. UNCHANGED <<nhs, groups, routes, refused>>
    BY <1>1, <1>9, PutCreateFacts, Zenon DEF hist
  <2> QED
    BY <1>2, <2>1, <2>2, AwayAccounts, Zenon
<1>10. CASE PutUpdate(s) /\ ~Fail(s)
  <2>1. PICK n : Moves(s, n) /\ n.pc # "del_nh"
    BY <1>1, <1>10, PutUpdateFacts, Zenon
  <2>2. UNCHANGED <<nhs, groups, routes, refused>>
    BY <1>1, <1>10, PutUpdateFacts, Zenon DEF hist
  <2> QED
    BY <1>2, <2>1, <2>2, AwayAccounts, Zenon
<1>11. CASE DropTable(s) /\ ~Fail(s)
  <2>1. Finish(s, "error") /\ UNCHANGED <<nhs, groups, routes>>
    BY <1>11, Zenon DEF DropTable
  <2> QED
    BY <1>2, <2>1, FinishAccounts, Zenon
<1> QED
  BY <1>3, <1>4, <1>5, <1>6, <1>7, <1>8, <1>9, <1>10, <1>11, Zenon DEF OtherStep

\* The steps of the route handlers that change no object.
LEMMA ReadAccounts ==
  ASSUME LeakInv, NEW s \in Sessions, ~Fail(s),
         \/ Lookup(s) \/ GroupRead(s) \/ AllocGroup(s) \/ AllocNh(s)
         \/ DelMatch(s) \/ DelCollect(s) \/ DelRead(s)
  PROVE  \E n : Accounts(s, n)
<1>1. NbTypes /\ Phases
  BY Zenon DEF LeakInv, RouteInv
<1>2. CASE Lookup(s)
  <2>1. PICK n : Moves(s, n) /\ n.pc # "del_nh"
    <3>1. sess[s].item.op = "set" \/ sess[s].item.op # "set"
      BY Zenon
    <3> QED
      BY <1>1, <1>2, <3>1, LookupFacts, Zenon
  <2>2. UNCHANGED <<nhs, groups, routes, refused>> /\ sess[s].pc \notin Holding
    BY <1>2, Zenon DEF Lookup, At, objs, hist, Holding, Building
  <2> QED
    BY <2>1, <2>2, AwayAccounts, Zenon
<1>3. CASE GroupRead(s)
  <2>1. PICK n : Moves(s, n) /\ n.pc # "del_nh"
    BY <1>1, <1>3, GroupReadFacts, Zenon
  <2>2. UNCHANGED <<nhs, groups, routes, refused>>
    BY <1>1, <1>3, GroupReadFacts, Zenon DEF objs, hist
  <2>3. sess[s].pc \notin Holding
    BY <1>3, Zenon DEF GroupRead, At, Holding, Building
  <2> QED
    BY <2>1, <2>2, <2>3, AwayAccounts, Zenon
<1>4. CASE AllocGroup(s) \/ AllocNh(s)
  <2>1. PICK t : t = sess[s] /\ t.pc \in {"alloc_group", "alloc_nh"}
    BY <1>4, Zenon DEF AllocGroup, AllocNh, At
  <2>2. PICK n : /\ Moves(s, n) /\ n.grp = t.grp
                 /\ n.pc \in {"alloc_group", "alloc_nh", "nh_create"}
    BY <1>1, <1>4, <2>1, AllocGroupFacts, AllocNhFacts
  <2>3. UNCHANGED <<nhs, groups, routes, refused>>
    BY <1>1, <1>4, AllocGroupFacts, AllocNhFacts, Zenon DEF objs, hist
  <2>4. \A x : (HoldsG(t, x) => HoldsG(n, x)) /\ (HoldsN(t, x) => HoldsN(n, x))
    BY <2>1, <2>2, Zenon DEF HoldsG, HoldsN, Building
  <2> QED
    BY <2>1, <2>2, <2>3, <2>4, QuietAccounts, Zenon
<1>5. CASE DelMatch(s)
  <2>1. PICK n : Moves(s, n) /\ n.pc # "del_nh"
    BY <1>1, <1>5, DelMatchFacts, Zenon
  <2>2. UNCHANGED <<nhs, groups, routes, refused>>
    BY <1>1, <1>5, DelMatchFacts, Zenon DEF objs, hist
  <2>3. sess[s].pc \notin Holding
    BY <1>5, Zenon DEF DelMatch, At, Holding, Building
  <2> QED
    BY <2>1, <2>2, <2>3, AwayAccounts, Zenon
<1>6. CASE DelCollect(s)
  <2>1. UNCHANGED <<nhs, groups, routes>>
    BY <1>1, <1>6, DelCollectFacts, Zenon DEF objs
  <2>2. sess[s].pc \notin Holding /\ sess[s].pc \notin {"idle", "next"}
    BY <1>6, Zenon DEF DelCollect, At, Holding, Building
  <2>3. CASE Finish(s, "ok")
    BY <2>1, <2>2, <2>3, FinishAccounts, Zenon
  <2>4. CASE ~Finish(s, "ok")
    <3>1. PICK n : Moves(s, n) /\ n.pc # "del_nh"
      BY <1>1, <1>6, <2>4, DelCollectFacts, Zenon
    <3>2. refused' = refused
      BY <1>1, <1>6, <2>4, DelCollectFacts, Zenon DEF hist
    <3> QED
      BY <2>1, <2>2, <3>1, <3>2, AwayAccounts, Zenon
  <2> QED
    BY <2>3, <2>4, Zenon
<1>7. CASE DelRead(s)
  <2>1. PICK n : Moves(s, n) /\ n.pc # "del_nh"
    BY <1>1, <1>7, DelReadFacts, Zenon
  <2>2. UNCHANGED <<nhs, groups, routes, refused>>
    BY <1>1, <1>7, DelReadFacts, Zenon DEF objs, hist
  <2>3. sess[s].pc \notin Holding
    BY <1>7, Zenon DEF DelRead, At, Holding, Building
  <2> QED
    BY <2>1, <2>2, <2>3, AwayAccounts, Zenon
<1> QED
  BY <1>2, <1>3, <1>4, <1>5, <1>6, <1>7, Zenon

\* An update in place creates nothing.
LEMMA NhUpdateAccounts ==
  ASSUME LeakInv, NEW s \in Sessions, NhUpdate(s), ~Fail(s)
  PROVE  \E n : Accounts(s, n)
<1>1. NbTypes /\ Phases
  BY Zenon DEF LeakInv, RouteInv
<1>2. PICK n : Moves(s, n) /\ n.pc # "del_nh"
  BY <1>1, NhUpdateFacts, Zenon
<1>3. UNCHANGED <<groups, routes, refused>>
  BY <1>1, NhUpdateFacts, Zenon DEF hist
<1>4. PICK x, v : x \in DOMAIN nhs /\ nhs' = Put(nhs, x, v)
  BY <1>1, NhUpdateFacts, Zenon
<1>5. DOMAIN nhs' = DOMAIN nhs
  BY <1>4, Zenon DEF Put
<1>6. sess[s].pc \notin Holding
  BY Zenon DEF NhUpdate, At, Holding, Building
<1>7. \A y : ~HoldsG(sess[s], y) /\ ~HoldsN(sess[s], y)
  BY <1>6, HoldsNothing, Zenon
<1>8. KeepsG(s, n) /\ KeepsN(s, n)
  BY <1>3, <1>5, <1>7, Zenon DEF KeepsG, KeepsN
<1> QED
  BY <1>2, <1>3, <1>8, Zenon DEF Accounts, LeakInv, ShortList

\* A new next hop is held by the thread that created it ...
LEMMA NhCreateAccounts ==
  ASSUME LeakInv, NEW s \in Sessions, NhCreate(s), ~Fail(s)
  PROVE  \E n : Accounts(s, n)
<1>1. PICK t : t = sess[s] /\ t.pc = "nh_create" /\ t \in Threads
  BY Zenon DEF NhCreate, At, LeakInv, RouteInv, NbTypes
<1>2. PICK n : /\ Moves(s, n) /\ n.grp = Append(t.grp, t.nid)
               /\ n.pc \in {"group_create", "alloc_nh"}
  BY <1>1, NhCreateFacts, Zenon DEF LeakInv, RouteInv
<1>3. UNCHANGED <<groups, routes, refused>>
  BY NhCreateFacts, Zenon DEF LeakInv, RouteInv, hist
<1>4. PICK v : nhs' = Put(nhs, t.nid, v)
  BY <1>1, NhCreateFacts, Zenon DEF LeakInv, RouteInv
<1>5. DOMAIN nhs' = DOMAIN nhs \cup {t.nid}
  BY <1>4, Zenon DEF Put
<1>6. /\ DOMAIN n.grp = DOMAIN t.grp \cup {Len(t.grp) + 1} /\ n.grp[Len(t.grp) + 1] = t.nid
      /\ \A j \in DOMAIN t.grp : n.grp[j] = t.grp[j]
  BY <1>1, <1>2, AppendFacts DEF Threads
<1>7. HoldsN(n, t.nid) /\ \A x : (HoldsN(t, x) => HoldsN(n, x)) /\ ~HoldsG(t, x)
  BY <1>1, <1>2, <1>6, Zenon DEF HoldsN, HoldsG, Building
<1>8. KeepsG(s, n) /\ KeepsN(s, n)
  BY <1>1, <1>3, <1>5, <1>7, Zenon DEF KeepsG, KeepsN
<1> QED
  BY <1>2, <1>3, <1>8, Zenon DEF Accounts, LeakInv, ShortList

\* ... a new group holds its next hops and is held by its thread ...
LEMMA GroupCreateAccounts ==
  ASSUME LeakInv, CascadeCovers, NEW s \in Sessions, GroupCreate(s), ~Fail(s)
  PROVE  \E n : Accounts(s, n)
<1>1. PICK t : /\ t = sess[s] /\ t.pc = "group_create" /\ t.item \in Items
               /\ t.item.op \in {"set", "ecmp"} /\ Len(t.grp) = Len(t.item.gws)
  BY Zenon DEF GroupCreate, At, LeakInv, RouteInv, Phases, PhaseOK, Making, Own, BuildOK
<1>2. PICK n : Moves(s, n) /\ n.gid = t.gid /\ n.pc = "route_create"
  BY <1>1, GroupCreateFacts, Zenon DEF LeakInv, RouteInv
<1>3. UNCHANGED <<nhs, routes, refused>>
  BY GroupCreateFacts, ZenonT(30) DEF LeakInv, RouteInv, hist
<1>4. t.gid \notin DOMAIN groups /\ groups' = Put(groups, t.gid, t.grp)
  BY <1>1, GroupCreateFacts, Zenon DEF LeakInv, RouteInv
<1>5. /\ DOMAIN groups' = DOMAIN groups \cup {t.gid} /\ groups'[t.gid] = t.grp
      /\ \A g \in DOMAIN groups : groups'[g] = groups[g] /\ g # t.gid
  BY <1>4, Zenon DEF Put
<1>6. Shorts(groups')
  BY <1>1, <1>5, ZenonT(30) DEF CascadeCovers, LeakInv, Shorts
<1>7. \A x : Free(groups', x) => Free(groups, x) /\ ~HoldsN(t, x)
  BY <1>1, <1>5 DEF Free, HoldsN
<1>8. HoldsG(n, t.gid) /\ \A g : ~HoldsG(t, g)
  BY <1>1, <1>2, Zenon DEF HoldsG
<1>9. KeepsG(s, n) /\ KeepsN(s, n)
  BY <1>1, <1>3, <1>5, <1>7, <1>8, Zenon DEF KeepsG, KeepsN
<1> QED
  BY <1>2, <1>3, <1>6, <1>9, Zenon DEF Accounts, LeakInv, ShortList

\* ... and the new route takes over the group.
LEMMA RouteCreateAccounts ==
  ASSUME LeakInv, NEW s \in Sessions, RouteCreate(s), ~Fail(s)
  PROVE  \E n : Accounts(s, n)
<1>1. PICK t : t = sess[s] /\ t.pc = "route_create"
  BY Zenon DEF RouteCreate, At
<1>2. PICK n : Moves(s, n) /\ n.pc = "commit"
  BY RouteCreateFacts, Zenon DEF LeakInv, RouteInv
<1>3. UNCHANGED <<nhs, groups, refused>>
  BY RouteCreateFacts, Zenon DEF LeakInv, RouteInv, hist
<1>4. PICK k, r : k = KeyOf(t.item) /\ r = [af |-> 4, grp |-> t.gid]
  BY Zenon
<1>5. k \notin DOMAIN routes /\ routes' = Put(routes, k, r)
  BY <1>1, <1>4, RouteCreateFacts, Zenon DEF LeakInv, RouteInv
<1>6. /\ Static(routes') = Static(routes) \cup {k}
      /\ routes'[k].grp = t.gid /\ \A x \in Static(routes) : routes'[x] = routes[x]
  BY <1>4, <1>5, Zenon DEF Put, Static
<1>7. \A g : Unrouted(routes', g) => Unrouted(routes, g) /\ g # t.gid
  BY <1>6, Zenon DEF Unrouted
<1>8. \A x : ~HoldsN(t, x) /\ (HoldsG(t, x) => x = t.gid)
  BY <1>1, Zenon DEF HoldsN, HoldsG, Building
<1>9. KeepsG(s, n) /\ KeepsN(s, n)
  BY <1>1, <1>3, <1>7, <1>8, Zenon DEF KeepsG, KeepsN
<1> QED
  BY <1>2, <1>3, <1>9, Zenon DEF Accounts, LeakInv, ShortList

\* A RESTCONF route refers to no group.
LEMMA RestRouteAccounts ==
  ASSUME LeakInv, NEW s \in Sessions, RestRoute(s), ~Fail(s)
  PROVE  \E n : Accounts(s, n)
<1>1. PICK n : Moves(s, n) /\ n.pc = "commit"
  BY RestRouteFacts, ZenonT(30) DEF LeakInv, RouteInv
<1>2. UNCHANGED <<nhs, groups, refused>>
  BY RestRouteFacts, ZenonT(30) DEF LeakInv, RouteInv, hist
<1>3. PICK k, r : k = RouteKey(0, ZeroPrefix) /\ r = [af |-> 0, grp |-> sess[s].item.grp]
  BY Zenon
<1>4. k \notin DOMAIN routes /\ routes' = Put(routes, k, r) /\ r.af # 4
  BY <1>3, RestRouteFacts DEF LeakInv, RouteInv
<1>5. Static(routes') = Static(routes) /\ \A x \in Static(routes) : routes'[x] = routes[x]
  BY <1>4, Zenon DEF Put, Static
<1>6. \A g : Unrouted(routes', g) <=> Unrouted(routes, g)
  BY <1>5, Zenon DEF Unrouted
<1>7. sess[s].pc \notin Holding
  BY Zenon DEF RestRoute, At, Holding, Building
<1>8. \A y : ~HoldsG(sess[s], y) /\ ~HoldsN(sess[s], y)
  BY <1>7, HoldsNothing, Zenon
<1>9. KeepsG(s, n) /\ KeepsN(s, n)
  BY <1>2, <1>6, <1>8, Zenon DEF KeepsG, KeepsN
<1> QED
  BY <1>1, <1>2, <1>9, Zenon DEF Accounts, LeakInv, ShortList

\* A deleted route hands its group to the deleting thread ...
LEMMA DelRouteAccounts ==
  ASSUME LeakInv, NEW s \in Sessions, DelRoute(s), ~Fail(s)
  PROVE  \E n : Accounts(s, n)
<1>1. PICK t : t = sess[s] /\ t.pc = "del_route" /\ Own(t, nhs, groups, routes, gMatch)
  BY Zenon DEF DelRoute, At, LeakInv, RouteInv
<1>2. Refers(routes, t.key, t.gid) /\ t.grp = groups[t.gid]
  BY <1>1, Zenon DEF Own, DeleteOK
<1>3. t.grp # << >>
  BY <1>2, Zenon DEF LeakInv, RouteInv, ObjectsOK, Refers
<1>4. PICK n : Moves(s, n) /\ n.gid = t.gid /\ n.pc = "del_group"
  BY <1>1, <1>3, DelRouteFacts, Zenon DEF LeakInv, RouteInv
<1>5. UNCHANGED <<nhs, groups, refused>>
  BY DelRouteFacts, Zenon DEF LeakInv, RouteInv, hist
<1>6. routes' = Drop(routes, t.key)
  BY <1>1, DelRouteFacts, Zenon DEF LeakInv, RouteInv
<1>7. /\ Static(routes') = Static(routes) \ {t.key}
      /\ \A x \in Static(routes') : routes'[x] = routes[x]
  BY <1>6, Zenon DEF Drop, Static
<1>8. \A g : Unrouted(routes', g) => g = t.gid \/ Unrouted(routes, g)
  BY <1>2, <1>7, Zenon DEF Unrouted, Refers
<1>9. HoldsG(n, t.gid) /\ \A x : ~HoldsG(t, x) /\ ~HoldsN(t, x)
  BY <1>1, <1>4, Zenon DEF HoldsN, HoldsG, Building
<1>10. KeepsG(s, n) /\ KeepsN(s, n)
  BY <1>1, <1>5, <1>8, <1>9, Zenon DEF KeepsG, KeepsN
<1> QED
  BY <1>4, <1>5, <1>10, Zenon DEF Accounts, LeakInv, ShortList

\* ... a deleted group its next hops ...
LEMMA DelGroupAccounts ==
  ASSUME LeakInv, NEW s \in Sessions, DelGroup(s), ~Fail(s)
  PROVE  \E n : Accounts(s, n)
<1>1. PICK t : /\ t = sess[s] /\ t.pc = "del_group" /\ Own(t, nhs, groups, routes, gMatch)
               /\ t.grp \in Seq(Nat)
  BY Zenon DEF DelGroup, At, LeakInv, RouteInv, NbTypes, Threads
<1>2. t.gid \in DOMAIN groups /\ t.grp = groups[t.gid] /\ t.i = 1
  BY <1>1, Zenon DEF Own, DeleteOK
<1>3. PICK n : Moves(s, n) /\ n.grp = t.grp /\ n.i = t.i /\ n.pc = "del_nh"
  BY <1>1, DelGroupFacts, Zenon DEF LeakInv, RouteInv
<1>4. UNCHANGED <<nhs, routes, refused>>
  BY DelGroupFacts, ZenonT(30) DEF LeakInv, RouteInv, hist
<1>5. groups' = Drop(groups, t.gid)
  BY <1>1, DelGroupFacts, Zenon DEF LeakInv, RouteInv
<1>6. /\ DOMAIN groups' = DOMAIN groups \ {t.gid}
      /\ \A g \in DOMAIN groups' : groups'[g] = groups[g]
  BY <1>5, Zenon DEF Drop
<1>7. Shorts(groups') /\ ShortList(n)
  BY <1>2, <1>3, <1>6, Zenon DEF LeakInv, Shorts, ShortList
<1>8. \A j \in DOMAIN n.grp : n.i <= j
  BY <1>1, <1>2, <1>3
<1>9. \A x : (Free(groups', x) => HoldsN(n, x) \/ Free(groups, x)) /\ ~HoldsN(t, x)
  BY <1>1, <1>2, <1>3, <1>6, <1>8 DEF Free, HoldsN, Building
<1>10. \A g \in DOMAIN groups' : ~HoldsG(t, g)
  BY <1>6, Zenon DEF HoldsG
<1>11. KeepsG(s, n) /\ KeepsN(s, n)
  BY <1>1, <1>4, <1>6, <1>9, <1>10, Zenon DEF KeepsG, KeepsN
<1> QED
  BY <1>3, <1>4, <1>7, <1>11, Zenon DEF Accounts

\* ... and each of those is deleted, as many as the cascade holds.
LEMMA DelNhAccounts ==
  ASSUME LeakInv, NEW s \in Sessions, DelNh(s)
  PROVE  \E n : Accounts(s, n)
<1>1. PICK t : /\ t = sess[s] /\ t.pc = "del_nh" /\ Own(t, nhs, groups, routes, gMatch)
               /\ t.i \in Nat /\ t.grp \in Seq(Nat) /\ ShortList(t)
  BY Zenon DEF DelNh, At, LeakInv, RouteInv, NbTypes, Threads
<1>2. Len(t.grp) <= CascadeMax
  BY <1>1, Zenon DEF ShortList
<1>3. \A x : ~HoldsG(t, x)
  BY <1>1, Zenon DEF HoldsG
<1>4. CASE UNCHANGED objs /\ ~CascadeMore(s)
  <2>1. PICK n : Moves(s, n) /\ n.pc = "commit"
    BY <1>4, DelNhFacts, Zenon DEF LeakInv, RouteInv
  <2>2. UNCHANGED <<nhs, groups, routes, refused>>
    BY <1>4, DelNhFacts, Zenon DEF LeakInv, RouteInv, objs, hist
  <2>3. \A j \in DOMAIN t.grp : ~(t.i <= j)
    BY <1>1, <1>2, <1>4, CascadeAssumption DEF CascadeMore
  <2>4. \A x : ~HoldsN(t, x)
    BY <1>1, <2>3, Zenon DEF HoldsN, Building
  <2> QED
    BY <1>1, <1>3, <2>1, <2>2, <2>4, QuietAccounts, Zenon
<1>5. CASE CascadeMore(s)
  <2>1. PICK n : Moves(s, n) /\ n.grp = t.grp /\ n.i = t.i + 1 /\ n.pc = "del_nh"
    BY <1>1, <1>5, DelNhFacts, Zenon DEF LeakInv, RouteInv
  <2>2. UNCHANGED <<groups, routes, refused>> /\ nhs' = Drop(nhs, t.grp[t.i])
    BY <1>1, <1>5, DelNhFacts, Zenon DEF LeakInv, RouteInv, hist
  <2>3. DOMAIN nhs' = DOMAIN nhs \ {t.grp[t.i]}
    BY <2>2, Zenon DEF Drop
  <2>4. \A j \in DOMAIN t.grp : t.i <= j /\ j # t.i => n.i <= j
    BY <1>1, <2>1
  <2>5. \A x : HoldsN(t, x) /\ x # t.grp[t.i] => HoldsN(n, x)
    BY <1>1, <2>1, <2>4, Zenon DEF HoldsN, Building
  <2>6. KeepsG(s, n) /\ KeepsN(s, n)
    BY <1>1, <1>3, <2>2, <2>3, <2>5, Zenon DEF KeepsG, KeepsN
  <2>7. Shorts(groups') /\ ShortList(n)
    BY <1>2, <2>1, <2>2, Zenon DEF LeakInv, ShortList
  <2> QED
    BY <2>1, <2>2, <2>6, <2>7, Zenon DEF Accounts
<1> QED
  BY <1>4, <1>5, DelNhFacts, Zenon DEF LeakInv, RouteInv

\* A route step is taken in the middle of an item.
LEMMA RoutePlace ==
  ASSUME NEW s \in Sessions, RouteStep(s)
  PROVE  sess[s].pc \notin {"idle", "next"}
<1>1. Lookup(s) \/ GroupRead(s) \/ AllocGroup(s) \/ AllocNh(s) \/ NhUpdate(s) => sess[s].pc \in Making
  BY Zenon DEF Lookup, GroupRead, AllocGroup, AllocNh, NhUpdate, At, Making
<1>2. NhCreate(s) \/ GroupCreate(s) \/ RouteCreate(s) => sess[s].pc \in Making
  BY Zenon DEF NhCreate, GroupCreate, RouteCreate, At, Making
<1>3. DelMatch(s) \/ DelCollect(s) \/ DelRead(s) => sess[s].pc \in Deleting
  BY Zenon DEF DelMatch, DelCollect, DelRead, At, Deleting
<1>4. DelRoute(s) \/ DelGroup(s) \/ DelNh(s) => sess[s].pc \in Deleting
  BY Zenon DEF DelRoute, DelGroup, DelNh, At, Deleting
<1>5. RestRoute(s) => sess[s].pc = "rest_route"
  BY Zenon DEF RestRoute, At
<1> QED
  BY <1>1, <1>2, <1>3, <1>4, <1>5, Zenon DEF RouteStep, Making, Deleting

\* Every step of a route item accounts for its objects.
LEMMA RouteStepAccounts ==
  ASSUME LeakInv, CascadeCovers, NEW s \in Sessions, RouteStep(s)
  PROVE  \E n : Accounts(s, n)
<1>1. CASE Fail(s)
  <2>1. sess[s].pc \notin {"idle", "next"}
    BY RoutePlace, Zenon
  <2> QED
    BY <1>1, <2>1, FailAccounts, Zenon
<1>2. CASE ~Fail(s)
  BY <1>2, ReadAccounts, NhUpdateAccounts, NhCreateAccounts, GroupCreateAccounts,
     RouteCreateAccounts, RestRouteAccounts, DelRouteAccounts, DelGroupAccounts, DelNhAccounts,
     Zenon DEF RouteStep
<1> QED
  BY <1>1, <1>2, Zenon

\* Every step keeps LeakInv.
LEMMA StepLeak ==
  ASSUME LeakInv, SerialDeletes, CascadeCovers, Next \/ UNCHANGED vars
  PROVE  LeakInv'
<1>1. RouteInv'
  BY StepRoutes, Zenon DEF LeakInv
<1>2. CASE UNCHANGED <<nhs, groups, routes, gMatch, sess, refused>>
  BY <1>1, <1>2, Zenon DEF LeakInv
<1>3. CASE Next
  <2>1. PICK s \in Sessions : \/ \E f \in Fronts : Request(s, f)
                              \/ NextItem(s) \/ Commit(s) \/ RouteStep(s) \/ OtherStep(s)
    BY <1>3, Steps, Zenon
  <2>2. (\E n : Accounts(s, n)) \/ UNCHANGED <<nhs, groups, routes, gMatch, sess, refused>>
    BY <2>1, ControlAccounts, RouteStepAccounts, OtherStepAccounts, Zenon
  <2> QED
    BY <1>1, <1>2, <2>2, Accounted, Zenon
<1>4. CASE UNCHANGED vars
  BY <1>2, <1>4, Zenon DEF vars
<1> QED
  BY <1>3, <1>4, Zenon

\* While no route item was refused and none is under way, every next hop is in a group and every
\* group has a static route.  CascadeCovers is needed: a composite delete removes CascadeMax
\* next hops and leaves the others of a larger group behind without an error.
THEOREM NothingLeaks == ASSUME SerialDeletes, CascadeCovers PROVE Spec => []NoSilentLeak
<1>1. Init => LeakInv
  <2> SUFFICES ASSUME Init PROVE LeakInv
    BY Zenon
  <2>1. DOMAIN nhs = {} /\ DOMAIN groups = {} /\ \A s \in Sessions : sess[s].pc = "idle"
    BY IdleThread DEF Init
  <2> QED
    BY <2>1, InitRoutes, Zenon DEF LeakInv, Shorts, ShortList
<1>2. LeakInv /\ [Next]_vars => LeakInv'
  BY StepLeak, Zenon
<1>3. LeakInv => NoSilentLeak
  <2> SUFFICES ASSUME LeakInv, ~refused,
                      \A s \in Sessions : Item(s) # NoItem => Item(s).op \notin RouteOps
               PROVE  /\ DOMAIN groups = {routes[k].grp : k \in StaticKeys}
                      /\ DOMAIN nhs = UNION {{groups[g][i] : i \in DOMAIN groups[g]} :
                                             g \in DOMAIN groups}
    BY Zenon DEF NoSilentLeak
  <2>1. \A s \in Sessions : sess[s].pc \notin Holding
    <3>1. NoItem \notin Items /\ \A s \in Sessions : PhaseOK(sess[s])
      BY RequestsAssumption, Zenon DEF LeakInv, RouteInv, Phases
    <3> QED
      BY <3>1, Zenon DEF PhaseOK, Item, RouteOps, Holding, Building, Making, Deleting
  <2>2. \A g \in DOMAIN groups : ~Unrouted(routes, g)
    BY <2>1, HoldsNothing, Zenon DEF LeakInv
  <2>3. \A x \in DOMAIN nhs : ~Free(groups, x)
    BY <2>1, HoldsNothing, Zenon DEF LeakInv
  <2>4. DOMAIN groups = {routes[k].grp : k \in StaticKeys}
    <3>1. StaticKeys = Static(routes)
      BY Zenon DEF Static, StaticKeys
    <3>2. \A g \in DOMAIN groups : \E k \in StaticKeys : g = routes[k].grp
      BY <2>2, <3>1, Zenon DEF Unrouted
    <3>3. \A k \in StaticKeys : routes[k].grp \in DOMAIN groups
      BY <3>1, Zenon DEF LeakInv, RouteInv, ObjectsOK
    <3> QED
      BY <3>2, <3>3, Zenon
  <2>5. \A g \in DOMAIN groups : \A i \in DOMAIN groups[g] : groups[g][i] \in DOMAIN nhs
    BY Zenon DEF LeakInv, RouteInv, ObjectsOK
  <2>6. \A x \in DOMAIN nhs : \E g \in DOMAIN groups : \E i \in DOMAIN groups[g] : x = groups[g][i]
    BY <2>3, Zenon DEF Free
  <2>7. DOMAIN nhs = UNION {{groups[g][i] : i \in DOMAIN groups[g]} : g \in DOMAIN groups}
    <3> DEFINE U(g) == {groups[g][i] : i \in DOMAIN groups[g]}
    <3>1. \A g \in DOMAIN groups : U(g) \subseteq DOMAIN nhs
      BY <2>5, Zenon
    <3>2. \A x \in DOMAIN nhs : \E g \in DOMAIN groups : x \in U(g)
      BY <2>6, Zenon
    <3> HIDE DEF U
    <3>3. DOMAIN nhs = UNION {U(g) : g \in DOMAIN groups}
      BY <3>1, <3>2, Zenon
    <3> QED
      BY <3>3, Zenon DEF U
  <2> QED
    BY <2>4, <2>7, Zenon
<1> QED
  BY <1>1, <1>2, <1>3, PTL DEF Spec

-----------------------------------------------------------------------------
(***************************************************************************)
(* Refinement.  View is the table that the objects stand for when every    *)
(* route resolves; AskedBy and DoneBy are a thread's share of Asked and    *)
(* Done.                                                                   *)
(***************************************************************************)
Gws(N, G, R, k) == [i \in DOMAIN G[R[k].grp] |-> N[G[R[k].grp][i]]]
View(N, G, R) == [k \in Static(R) |-> Gws(N, G, R, k)]
AskedBy(t) == IF OnRoute(t) THEN RouteRequest(t.item) ELSE NoRequest
DoneBy(t) ==
  IF ~OnRoute(t) THEN 0
  ELSE IF t.item.op = "del" THEN IF t.pc \in {"del_group", "del_nh", "commit"} THEN 1 ELSE 0
  ELSE IF t.pc = "nh_update" THEN t.i - 1
  ELSE IF t.pc = "commit" THEN Len(t.item.gws) ELSE 0

\* When every route resolves, the mapped table is what the objects stand for ...
LEMMA InstalledIs == RouteInv => Installed = View(nhs, groups, routes)
<1> SUFFICES ASSUME RouteInv PROVE Installed = View(nhs, groups, routes)
  BY Zenon
<1>1. StaticKeys = Static(routes)
  BY Zenon DEF StaticKeys, Static
<1>2. ASSUME NEW k \in Static(routes) PROVE RouteGateways(k) = Gws(nhs, groups, routes, k)
  <2>1. PICK g \in DOMAIN groups : g = routes[k].grp
    BY Zenon DEF RouteInv, ObjectsOK
  <2>2. \A i \in DOMAIN groups[g] : groups[g][i] \in DOMAIN nhs
    BY Zenon DEF RouteInv, ObjectsOK
  <2> QED
    BY <2>1, <2>2, Zenon DEF RouteGateways, Gws, Gateway
<1> QED
  BY <1>1, <1>2, Zenon DEF Installed, View

\* ... and so it is in the next state.
LEMMA InstalledThen == RouteInv' => Installed' = View(nhs', groups', routes')
<1> SUFFICES ASSUME RouteInv' PROVE Installed' = View(nhs', groups', routes')
  BY Zenon
<1>1. StaticKeys' = Static(routes')
  BY Zenon DEF StaticKeys, Static
<1>2. ASSUME NEW k \in Static(routes') PROVE RouteGateways(k)' = Gws(nhs', groups', routes', k)
  <2>1. PICK g \in DOMAIN groups' : g = routes'[k].grp
    BY Zenon DEF RouteInv, ObjectsOK
  <2>2. \A i \in DOMAIN groups'[g] : groups'[g][i] \in DOMAIN nhs'
    BY Zenon DEF RouteInv, ObjectsOK
  <2> QED
    BY <2>1, <2>2, Zenon DEF RouteGateways, Gws, Gateway
<1> QED
  BY <1>1, <1>2, Zenon DEF Installed, View

\* A step moves one thread, so it changes one session's share.
LEMMA Shares ==
  ASSUME RouteInv, NEW s \in Sessions, NEW n, Moves(s, n)
  PROVE  /\ Asked[s] = AskedBy(sess[s]) /\ Done[s] = DoneBy(sess[s])
         /\ Asked' = [Asked EXCEPT ![s] = AskedBy(n)] /\ Done' = [Done EXCEPT ![s] = DoneBy(n)]
<1>1. sess'[s] = n /\ \A o \in Sessions \ {s} : sess'[o] = sess[o]
  BY MoveTypes, Zenon DEF RouteInv
<1>2. /\ Asked = [o \in Sessions |-> AskedBy(sess[o])]
      /\ Done = [o \in Sessions |-> DoneBy(sess[o])]
  BY Zenon DEF Asked, Done, AskedBy, DoneBy, Effect, Item, OnRoute
<1>3. /\ Asked' = [o \in Sessions |-> AskedBy(sess'[o])]
      /\ Done' = [o \in Sessions |-> DoneBy(sess'[o])]
  BY Zenon DEF Asked, Done, AskedBy, DoneBy, Effect, Item, OnRoute
<1> QED
  BY <1>1, <1>2, <1>3, Zenon

\* The steps that the abstract specification does not see.
Unseen == UNCHANGED <<Installed, Asked, Done, answered>>
\* A step that changes no table entry and no thread's share is a stutter.
LEMMA UnseenStep ==
  ASSUME RouteInv, NEW s \in Sessions, NEW n, Moves(s, n), Installed' = Installed,
         answered' = answered, AskedBy(n) = AskedBy(sess[s]), DoneBy(n) = DoneBy(sess[s])
  PROVE  Unseen
<1>1. Asked' = [Asked EXCEPT ![s] = Asked[s]] /\ Done' = [Done EXCEPT ![s] = Done[s]]
  BY Shares, Zenon
<1>2. Asked' = Asked /\ Done' = Done
  BY <1>1, Zenon DEF Asked, Done
<1> QED
  BY <1>2, Zenon DEF Unseen

Refines(s) ==
  \/ Unseen
  \/ Table!Submit(s) \/ Table!Install(s) \/ Table!Replace(s) \/ Table!Withdraw(s)
  \/ Table!Succeed(s) \/ Table!Refuse(s)

\* The mapped table depends on the objects alone.
LEMMA SameTable ==
  ASSUME RouteInv, RouteInv', UNCHANGED <<nhs, groups, routes>>
  PROVE  Installed' = Installed
BY InstalledIs, InstalledThen, Zenon

\* A request is not NoRequest, and it is empty exactly for a delete.
LEMMA RequestIs ==
  ASSUME NEW it \in Items, it.op \in RouteOps
  PROVE  /\ RouteRequest(it) # NoRequest /\ RouteRequest(it).key = KeyOf(it)
         /\ RouteRequest(it).gws = it.gws
         /\ it.op = "del" <=> it.gws = << >>
         /\ RouteRequest(it) \in {RouteRequest(x) : x \in {y \in Items : y.op \in RouteOps}}
<1>1. RouteRequest(it).key = KeyOf(it) /\ RouteRequest(it).gws = it.gws
  BY Zenon DEF RouteRequest, KeyOf
<1>2. KeyOf(it) # << >>
  BY Zenon DEF KeyOf, RouteKey
<1>3. NoRequest.key = << >>
  BY Zenon DEF NoRequest
<1>4. it.op = "del" <=> it.gws = << >>
  BY RequestsAssumption, Zenon DEF RouteOps
<1> QED
  BY <1>1, <1>2, <1>3, <1>4, Zenon

\* The end of an item is the answer to the request.
LEMMA EndRefines ==
  ASSUME RouteInv, RouteInv', NEW s \in Sessions, NEW reply \in {"ok", "error"}, Finish(s, reply),
         UNCHANGED <<nhs, groups, routes>>, sess[s].pc \notin {"idle", "next"},
         reply = "ok" /\ OnRoute(sess[s]) =>
           \/ sess[s].pc = "commit"
           \/ sess[s].item.op = "del" /\ KeyOf(sess[s].item) \notin Static(routes)
  PROVE  Refines(s)
<1>1. PICK t : t = sess[s] /\ t.item \in Items /\ NoItem \notin Items
  BY RequestsAssumption, Zenon DEF RouteInv, Phases, PhaseOK
<1>2. PICK n : Moves(s, n) /\ n.item = NoItem
  BY FinishFacts, Zenon DEF RouteInv
<1>3. Installed' = Installed
  BY SameTable, Zenon
<1>4. AskedBy(n) = NoRequest /\ DoneBy(n) = 0
  BY <1>2, Zenon DEF AskedBy, DoneBy, OnRoute
<1>5. CASE t.item.op \notin RouteOps
  <2>1. answered' = answered
    BY <1>1, <1>5, Zenon DEF Finish, Item
  <2>2. AskedBy(t) = NoRequest /\ DoneBy(t) = 0
    BY <1>5, Zenon DEF AskedBy, DoneBy, OnRoute
  <2> QED
    BY <1>1, <1>2, <1>3, <1>4, <2>1, <2>2, UnseenStep, Zenon DEF Refines
<1>6. CASE t.item.op \in RouteOps
  <2>1. answered' = [answered EXCEPT ![s] = reply]
    BY <1>1, <1>6, Zenon DEF Finish, Item
  <2>2. OnRoute(t) /\ AskedBy(t) = RouteRequest(t.item)
    BY <1>1, <1>6, Zenon DEF OnRoute, AskedBy
  <2>3. /\ Asked[s] = RouteRequest(t.item) /\ Done[s] = DoneBy(t)
        /\ Asked' = [Asked EXCEPT ![s] = NoRequest] /\ Done' = [Done EXCEPT ![s] = 0]
    BY <1>1, <1>2, <1>4, <2>2, Shares, Zenon
  <2>4. /\ Asked[s] # NoRequest /\ Asked[s].key = KeyOf(t.item) /\ Asked[s].gws = t.item.gws
        /\ t.item.op = "del" <=> t.item.gws = << >>
    BY <1>1, <1>6, <2>3, RequestIs, Zenon
  <2>5. CASE reply = "error"
    <3>1. Table!Refuse(s)
      BY <1>3, <2>1, <2>3, <2>4, <2>5, Zenon DEF Table!Refuse
    <3> QED
      BY <3>1, Zenon DEF Refines
  <2>6. CASE reply = "ok"
    <3>1. CASE t.pc = "commit"
      <4>1. Done[s] = IF t.item.op = "del" THEN 1 ELSE Len(t.item.gws)
        BY <2>2, <2>3, <3>1, Zenon DEF DoneBy
      <4>2. Table!Succeed(s)
        BY <1>3, <2>1, <2>3, <2>4, <2>6, <4>1, Zenon DEF Table!Succeed
      <4> QED
        BY <4>2, Zenon DEF Refines
    <3>2. CASE t.item.op = "del" /\ KeyOf(t.item) \notin Static(routes)
      <4>1. KeyOf(t.item) \notin DOMAIN Installed
        BY <3>2, InstalledIs, Zenon DEF View
      <4>2. Table!Succeed(s)
        BY <1>3, <2>1, <2>3, <2>4, <2>6, <3>2, <4>1, Zenon DEF Table!Succeed
      <4> QED
        BY <4>2, Zenon DEF Refines
    <3> QED
      BY <1>1, <2>2, <2>6, <3>1, <3>2, Zenon
  <2> QED
    BY <2>5, <2>6, Zenon
<1> QED
  BY <1>5, <1>6, Zenon

\* An error answer is a refusal.
LEMMA FailRefines ==
  ASSUME RouteInv, RouteInv', NEW s \in Sessions, Fail(s), sess[s].pc \notin {"idle", "next"}
  PROVE  Refines(s)
<1>1. Finish(s, "error") /\ UNCHANGED <<nhs, groups, routes>>
  BY Zenon DEF Fail, objs
<1> QED
  BY <1>1, EndRefines, Zenon

\* The start of a route item is a request.
LEMMA BeginRefines ==
  ASSUME RouteInv, RouteInv', NEW s \in Sessions, NEW it \in Items, NEW rest \in Seq(Items),
         Begin(s, it, rest), sess[s].pc \in {"idle", "next"}, UNCHANGED <<nhs, groups, routes>>
  PROVE  Refines(s)
<1>1. PICK n : /\ Moves(s, n) /\ n.item = it
               /\ n.pc \in ({"lookup", "match"} \cup Elsewhere) \ {"leaf_write"}
  BY BeginFacts DEF RouteInv
<1>2. PICK t : t = sess[s] /\ t.item = NoItem /\ NoItem \notin Items
  BY RequestsAssumption, Zenon DEF RouteInv, Phases, PhaseOK
<1>3. Installed' = Installed
  BY SameTable, Zenon
<1>4. AskedBy(t) = NoRequest /\ DoneBy(t) = 0
  BY <1>2, Zenon DEF AskedBy, DoneBy, OnRoute
<1>5. DoneBy(n) = 0
  BY <1>1, Zenon DEF DoneBy, Elsewhere
<1>6. CASE it.op \notin RouteOps
  <2>1. answered' = answered
    BY <1>6, Zenon DEF Begin
  <2>2. AskedBy(n) = NoRequest
    BY <1>1, <1>6, Zenon DEF AskedBy, OnRoute
  <2> QED
    BY <1>1, <1>2, <1>3, <1>4, <1>5, <2>1, <2>2, UnseenStep, Zenon DEF Refines
<1>7. CASE it.op \in RouteOps
  <2>1. answered' = [answered EXCEPT ![s] = "none"]
    BY <1>7, Zenon DEF Begin
  <2>2. AskedBy(n) = RouteRequest(it)
    BY <1>1, <1>2, <1>7, ZenonT(30) DEF AskedBy, OnRoute
  <2>3. /\ Asked[s] = NoRequest /\ Done[s] = 0
        /\ Asked' = [Asked EXCEPT ![s] = RouteRequest(it)] /\ Done' = [Done EXCEPT ![s] = 0]
    BY <1>1, <1>2, <1>4, <1>5, <2>2, Shares
  <2>4. Done' = Done
    BY <2>3, Zenon DEF Done
  <2>5. RouteRequest(it) \in {RouteRequest(x) : x \in {y \in Items : y.op \in RouteOps}}
    BY <1>7, RequestIs, Zenon
  <2>6. Table!Submit(s)
    BY <1>3, <2>1, <2>3, <2>4, <2>5, Zenon DEF Table!Submit
  <2> QED
    BY <2>6, Zenon DEF Refines
<1> QED
  BY <1>6, <1>7, Zenon

\* Taking up an item submits its request, and the commit answers it.
LEMMA ControlRefines ==
  ASSUME RouteInv, RouteInv', NEW s \in Sessions,
         (\E f \in Fronts : Request(s, f)) \/ NextItem(s) \/ Commit(s)
  PROVE  Refines(s)
<1>1. NbTypes /\ Phases
  BY Zenon DEF RouteInv
<1>2. CASE \E f \in Fronts : Request(s, f)
  <2>1. PICK f \in Fronts : Request(s, f)
    BY <1>2, Zenon
  <2>2. \E it \in Items, rest \in Seq(Items) : Begin(s, it, rest)
    BY <1>1, <2>1, RequestFacts, Zenon
  <2>3. UNCHANGED <<nhs, groups, routes>> /\ sess[s].pc \in {"idle", "next"}
    BY <2>1, Zenon DEF Request, At, objs
  <2> QED
    BY <2>2, <2>3, BeginRefines, Zenon
<1>3. CASE NextItem(s)
  <2>1. UNCHANGED <<nhs, groups, routes>> /\ sess[s].pc \in {"idle", "next"}
        /\ sess[s].todo \in Seq(Items)
    BY <1>1, <1>3, Zenon DEF NextItem, At, objs, NbTypes, Threads
  <2>2. CASE sess[s].todo = << >>
    <3>1. sess' = [sess EXCEPT ![s] = Idle] /\ answered' = answered
      BY <1>3, <2>2, Zenon DEF NextItem, Go
    <3>2. PICK n : Moves(s, n) /\ n.item = NoItem
      BY <3>1, IdleThread, Zenon DEF Moves
    <3>3. sess[s].item = NoItem
      BY <1>1, <2>1, Zenon DEF Phases, PhaseOK
    <3>4. /\ AskedBy(n) = NoRequest /\ AskedBy(sess[s]) = NoRequest
          /\ DoneBy(n) = 0 /\ DoneBy(sess[s]) = 0
      BY <3>2, <3>3, Zenon DEF AskedBy, DoneBy, OnRoute
    <3>5. Installed' = Installed
      BY <2>1, SameTable, Zenon
    <3> QED
      BY <3>1, <3>2, <3>4, <3>5, UnseenStep, Zenon DEF Refines
  <2>3. CASE sess[s].todo # << >>
    <3>1. Head(sess[s].todo) \in Items /\ Tail(sess[s].todo) \in Seq(Items)
      BY <2>1, <2>3
    <3>2. Begin(s, Head(sess[s].todo), Tail(sess[s].todo))
      BY <1>3, <2>3, Zenon DEF NextItem
    <3> QED
      BY <2>1, <3>1, <3>2, BeginRefines, Zenon
  <2> QED
    BY <2>2, <2>3, Zenon
<1>4. CASE Commit(s)
  <2>1. (Finish(s, "ok") \/ Finish(s, "error")) /\ UNCHANGED <<nhs, groups, routes>>
    BY <1>4, Zenon DEF Commit, objs
  <2>2. sess[s].pc \notin {"idle", "next"} /\ sess[s].pc = "commit"
    BY <1>4, Zenon DEF Commit, At
  <2> QED
    BY <2>1, <2>2, EndRefines, Zenon
<1> QED
  BY <1>2, <1>3, <1>4, Zenon

\* A step within an item that adds nothing to its effect.
LEMMA QuietRefines ==
  ASSUME RouteInv, RouteInv', NEW s \in Sessions, NEW n, Moves(s, n), n.item = sess[s].item,
         DoneBy(n) = DoneBy(sess[s]), UNCHANGED answered, Installed' = Installed
  PROVE  Refines(s)
<1>1. AskedBy(n) = AskedBy(sess[s])
  BY Zenon DEF AskedBy, OnRoute
<1> QED
  BY <1>1, UnseenStep, Zenon DEF Refines

\* The steps of the other items are stutters.
LEMMA OtherStepRefines ==
  ASSUME RouteInv, RouteInv', NEW s \in Sessions, OtherStep(s)
  PROVE  Refines(s)
<1>1. NbTypes /\ Phases
  BY Zenon DEF RouteInv
<1>2. sess[s].pc \in Elsewhere
  <2>1. LeafRead(s) => sess[s].pc = "leaf_read"
    BY ZenonT(30) DEF LeafRead, At
  <2>2. LeafWrite(s) => sess[s].pc = "leaf_write"
    BY DEF LeafWrite, At
  <2>3. IfAlloc(s) => sess[s].pc = "if_alloc"
    BY DEF IfAlloc, At
  <2>4. IfCreate(s) => sess[s].pc = "if_create"
    BY DEF IfCreate, At
  <2>5. IfDelete(s) => sess[s].pc = "if_delete"
    BY Zenon DEF IfDelete, At
  <2>6. PutCreate(s) => sess[s].pc = "put_create"
    BY Zenon DEF PutCreate, At
  <2>7. PutUpdate(s) => sess[s].pc = "put_update"
    BY Zenon DEF PutUpdate, At
  <2>8. DropTable(s) => sess[s].pc = "drop"
    BY Zenon DEF DropTable, At
  <2> QED
    BY <2>1, <2>2, <2>3, <2>4, <2>5, <2>6, <2>7, <2>8, Zenon DEF OtherStep, Elsewhere
<1>3. ~OnRoute(sess[s]) /\ sess[s].pc \notin {"idle", "next"}
  BY <1>1, <1>2, Zenon DEF Phases, PhaseOK, OnRoute, Elsewhere
<1>4. ASSUME NEW n, Moves(s, n), n.item = sess[s].item, UNCHANGED <<nhs, groups, routes, answered>>
      PROVE  Refines(s)
  <2>1. DoneBy(n) = DoneBy(sess[s])
    BY <1>3, <1>4, Zenon DEF DoneBy, OnRoute
  <2> QED
    BY <1>4, <2>1, SameTable, QuietRefines, Zenon
<1>5. CASE Fail(s)
  BY <1>3, <1>5, FailRefines, Zenon
<1>6. CASE LeafRead(s) /\ ~Fail(s)
  <2>1. PICK n : Moves(s, n) /\ n.item = sess[s].item
    BY <1>1, <1>6, LeafReadFacts, Zenon
  <2>2. UNCHANGED <<nhs, groups, routes, answered>>
    BY <1>1, <1>6, LeafReadFacts, Zenon DEF objs, hist
  <2> QED
    BY <1>4, <2>1, <2>2, Zenon
<1>7. CASE LeafWrite(s) /\ ~Fail(s)
  <2>1. Finish(s, "ok") /\ UNCHANGED <<nhs, groups, routes>>
    BY <1>1, <1>7, LeafWriteFacts, Zenon
  <2> QED
    BY <1>3, <2>1, EndRefines, Zenon
<1>8. CASE IfAlloc(s)
  <2>1. PICK n : Moves(s, n) /\ n.item = sess[s].item
    BY <1>1, <1>8, IfAllocFacts, Zenon
  <2>2. UNCHANGED <<nhs, groups, routes, answered>>
    BY <1>1, <1>8, IfAllocFacts, Zenon DEF objs, hist
  <2> QED
    BY <1>4, <2>1, <2>2, Zenon
<1>9. CASE IfCreate(s) /\ ~Fail(s)
  <2>1. PICK n : Moves(s, n) /\ n.item = sess[s].item
    BY <1>1, <1>9, IfCreateFacts, Zenon
  <2>2. UNCHANGED <<nhs, groups, routes, answered>>
    BY <1>1, <1>9, IfCreateFacts, Zenon DEF hist
  <2> QED
    BY <1>4, <2>1, <2>2, Zenon
<1>10. CASE IfDelete(s) /\ ~Fail(s)
  <2>1. UNCHANGED <<nhs, groups, routes, sess, answered>>
    BY <1>10, Zenon DEF IfDelete, objs, hist
  <2>2. Asked' = Asked /\ Done' = Done
    BY <2>1, Zenon DEF Asked, Done, Effect, Item
  <2> QED
    BY <2>1, <2>2, SameTable, Zenon DEF Refines, Unseen
<1>11. CASE PutCreate(s)
  <2>1. PICK n : Moves(s, n) /\ n.item = sess[s].item
    BY <1>1, <1>11, PutCreateFacts, Zenon
  <2>2. UNCHANGED <<nhs, groups, routes, answered>>
    BY <1>1, <1>11, PutCreateFacts, Zenon DEF hist
  <2> QED
    BY <1>4, <2>1, <2>2, Zenon
<1>12. CASE PutUpdate(s) /\ ~Fail(s)
  <2>1. PICK n : Moves(s, n) /\ n.item = sess[s].item
    BY <1>1, <1>12, PutUpdateFacts, Zenon
  <2>2. UNCHANGED <<nhs, groups, routes, answered>>
    BY <1>1, <1>12, PutUpdateFacts, Zenon DEF hist
  <2> QED
    BY <1>4, <2>1, <2>2, Zenon
<1>13. CASE DropTable(s) /\ ~Fail(s)
  <2>1. Finish(s, "error") /\ UNCHANGED <<nhs, groups, routes>>
    BY <1>13, Zenon DEF DropTable
  <2> QED
    BY <1>3, <2>1, EndRefines, Zenon
<1> QED
  BY <1>5, <1>6, <1>7, <1>8, <1>9, <1>10, <1>11, <1>12, <1>13, Zenon DEF OtherStep

\* The steps of the route handlers that change no object.
LEMMA ReadRefines ==
  ASSUME RouteInv, RouteInv', NEW s \in Sessions, ~Fail(s),
         \/ Lookup(s) \/ GroupRead(s) \/ AllocGroup(s) \/ AllocNh(s)
         \/ DelMatch(s) \/ DelCollect(s) \/ DelRead(s)
  PROVE  Refines(s)
<1>1. NbTypes /\ Phases
  BY ZenonT(30) DEF RouteInv
<1>2. ASSUME NEW n, Moves(s, n), n.item = sess[s].item, UNCHANGED <<nhs, groups, routes, answered>>,
             sess[s].pc \notin {"commit", "nh_update", "del_group", "del_nh"},
             n.pc \notin {"commit", "del_group", "del_nh"}, n.pc = "nh_update" => n.i = 1
      PROVE  Refines(s)
  <2>1. DoneBy(n) = DoneBy(sess[s])
    BY <1>2 DEF DoneBy, OnRoute
  <2> QED
    BY <1>2, <2>1, SameTable, QuietRefines, Zenon
<1>3. CASE Lookup(s)
  <2>1. PICK n : /\ Moves(s, n) /\ n.item = sess[s].item /\ n.i = 1
                 /\ n.pc \in {"nh_update", "group_read", "alloc_nh", "alloc_group"}
    <3>1. sess[s].item.op = "set" \/ sess[s].item.op # "set"
      BY Zenon
    <3> QED
      BY <1>1, <1>3, <3>1, LookupFacts, Zenon
  <2>2. UNCHANGED <<nhs, groups, routes, answered>> /\ sess[s].pc = "lookup"
    BY <1>3, Zenon DEF Lookup, At, objs, hist
  <2> QED
    BY <1>2, <2>1, <2>2, Zenon
<1>4. CASE GroupRead(s)
  <2>1. PICK n : Moves(s, n) /\ n.item = sess[s].item /\ n.pc = "nh_update" /\ n.i = sess[s].i
    BY <1>1, <1>4, GroupReadFacts, Zenon
  <2>2. UNCHANGED <<nhs, groups, routes, answered>>
    BY <1>1, <1>4, GroupReadFacts, Zenon DEF objs, hist
  <2>3. sess[s].pc = "group_read"
    BY <1>4, Zenon DEF GroupRead, At
  <2>4. sess[s].i = 1
    BY <2>3, Zenon DEF RouteInv, Own, ChangeOK
  <2> QED
    BY <1>2, <2>1, <2>2, <2>3, <2>4, Zenon
<1>5. CASE AllocGroup(s) \/ AllocNh(s)
  <2>1. sess[s].pc \in {"alloc_group", "alloc_nh"}
    BY <1>5, Zenon DEF AllocGroup, AllocNh, At
  <2>2. PICK n : /\ Moves(s, n) /\ n.item = sess[s].item
                 /\ n.pc \in {"alloc_group", "alloc_nh", "nh_create"}
    BY <1>1, <1>5, <2>1, AllocGroupFacts, AllocNhFacts
  <2>3. UNCHANGED <<nhs, groups, routes, answered>>
    BY <1>1, <1>5, AllocGroupFacts, AllocNhFacts, Zenon DEF objs, hist
  <2> QED
    BY <1>2, <2>1, <2>2, <2>3, Zenon
<1>6. CASE DelMatch(s)
  <2>1. PICK n : Moves(s, n) /\ n.item = sess[s].item /\ n.pc = "collect"
    BY <1>1, <1>6, DelMatchFacts, Zenon
  <2>2. UNCHANGED <<nhs, groups, routes, answered>>
    BY <1>1, <1>6, DelMatchFacts, Zenon DEF objs, hist
  <2>3. sess[s].pc = "match"
    BY <1>6, Zenon DEF DelMatch, At
  <2> QED
    BY <1>2, <2>1, <2>2, <2>3, Zenon
<1>7. CASE DelCollect(s)
  <2>1. UNCHANGED <<nhs, groups, routes>>
    BY <1>1, <1>7, DelCollectFacts, Zenon DEF objs
  <2>2. sess[s].pc = "collect"
    BY <1>7, Zenon DEF DelCollect, At
  <2>3. gMatch = KeyOf(sess[s].item) /\ sess[s].item.op = "del"
    BY <2>2, ZenonT(30) DEF RouteInv, Own, DeleteOK, Phases, PhaseOK, Deleting
  <2>4. CASE Finish(s, "ok") /\ gMatch \notin StaticKeys
    <3>1. KeyOf(sess[s].item) \notin Static(routes)
      BY <2>3, <2>4, Zenon DEF Static, StaticKeys
    <3>2. sess[s].pc \notin {"idle", "next"}
      BY <2>2, Zenon
    <3> QED
      BY <2>1, <2>3, <2>4, <3>1, <3>2, EndRefines, Zenon
  <2>5. CASE ~(Finish(s, "ok") /\ gMatch \notin StaticKeys)
    <3>1. PICK n : Moves(s, n) /\ n.item = sess[s].item /\ n.pc = "del_read"
      BY <1>1, <1>7, <2>5, DelCollectFacts, Zenon
    <3>2. answered' = answered
      BY <1>1, <1>7, <2>5, DelCollectFacts, Zenon DEF hist
    <3> QED
      BY <1>2, <2>1, <2>2, <3>1, <3>2, Zenon
  <2> QED
    BY <2>4, <2>5, Zenon
<1>8. CASE DelRead(s)
  <2>1. PICK n : Moves(s, n) /\ n.item = sess[s].item /\ n.pc = "del_route"
    BY <1>1, <1>8, DelReadFacts, Zenon
  <2>2. UNCHANGED <<nhs, groups, routes, answered>>
    BY <1>1, <1>8, DelReadFacts, Zenon DEF objs, hist
  <2>3. sess[s].pc = "del_read"
    BY <1>8, Zenon DEF DelRead, At
  <2> QED
    BY <1>2, <2>1, <2>2, <2>3, Zenon
<1> QED
  BY <1>3, <1>4, <1>5, <1>6, <1>7, <1>8, Zenon

\* Every static route keeps its group and its gateways, and there is no other static route.
SameGateways(N, G, R, N2, G2, R2) ==
  /\ Static(R2) = Static(R)
  /\ \A k \in Static(R) :
       /\ R2[k].grp = R[k].grp /\ G2[R[k].grp] = G[R[k].grp]
       /\ \A i \in DOMAIN G[R[k].grp] : N2[G[R[k].grp][i]] = N[G[R[k].grp][i]]

\* The table stays what it is while every static route keeps its group and its gateways.
LEMMA ViewFrame ==
  ASSUME NEW N, NEW G, NEW R, NEW N2, NEW G2, NEW R2, SameGateways(N, G, R, N2, G2, R2)
  PROVE  View(N2, G2, R2) = View(N, G, R)
<1>1. \A k \in Static(R) : Gws(N2, G2, R2, k) = Gws(N, G, R, k)
  BY Zenon DEF Gws, SameGateways
<1> QED
  BY <1>1, Zenon DEF View, SameGateways

\* Creating a next hop is a stutter: no group has it yet.
LEMMA NhCreateRefines ==
  ASSUME RouteInv, RouteInv', NEW s \in Sessions, NhCreate(s), ~Fail(s)
  PROVE  Refines(s)
<1>1. PICK n : Moves(s, n) /\ n.item = sess[s].item /\ n.pc \in {"group_create", "alloc_nh"}
  BY NhCreateFacts, Zenon DEF RouteInv
<1>2. UNCHANGED <<groups, routes, answered>>
  BY NhCreateFacts, Zenon DEF RouteInv, hist
<1>3. PICK x, v : x \notin DOMAIN nhs /\ nhs' = Put(nhs, x, v)
  BY NhCreateFacts, Zenon DEF RouteInv
<1>4. \A y \in DOMAIN nhs : nhs'[y] = nhs[y]
  BY <1>3, Zenon DEF Put
<1>5. \A k \in Static(routes) : \A i \in DOMAIN groups[routes[k].grp] :
        nhs'[groups[routes[k].grp][i]] = nhs[groups[routes[k].grp][i]]
  BY <1>4, ZenonT(30) DEF RouteInv, ObjectsOK
<1>6. View(nhs', groups', routes') = View(nhs, groups, routes)
  <2>1. SameGateways(nhs, groups, routes, nhs', groups', routes')
    BY <1>2, <1>5, Zenon DEF SameGateways
  <2> QED
    BY <2>1, ViewFrame
<1>7. Installed' = Installed
  BY <1>6, InstalledIs, InstalledThen, Zenon
<1>8. sess[s].pc = "nh_create"
  BY Zenon DEF NhCreate, At
<1>9. DoneBy(n) = DoneBy(sess[s])
  BY <1>1, <1>8, Zenon DEF DoneBy, OnRoute
<1> QED
  BY <1>1, <1>2, <1>7, <1>9, QuietRefines, Zenon

\* Creating a group is a stutter: no route has it yet.
LEMMA GroupCreateRefines ==
  ASSUME RouteInv, RouteInv', NEW s \in Sessions, GroupCreate(s), ~Fail(s)
  PROVE  Refines(s)
<1>1. PICK n : Moves(s, n) /\ n.item = sess[s].item /\ n.pc = "route_create"
  BY GroupCreateFacts, Zenon DEF RouteInv
<1>2. UNCHANGED <<nhs, routes, answered>>
  BY GroupCreateFacts, Zenon DEF RouteInv, hist
<1>3. PICK g, m : g \notin DOMAIN groups /\ groups' = Put(groups, g, m)
  BY GroupCreateFacts, Zenon DEF RouteInv
<1>4. \A h \in DOMAIN groups : groups'[h] = groups[h]
  BY <1>3, Zenon DEF Put
<1>5. \A k \in Static(routes) : groups'[routes[k].grp] = groups[routes[k].grp]
  BY <1>4, Zenon DEF RouteInv, ObjectsOK
<1>6. View(nhs', groups', routes') = View(nhs, groups, routes)
  <2>1. SameGateways(nhs, groups, routes, nhs', groups', routes')
    BY <1>2, <1>5, Zenon DEF SameGateways
  <2> QED
    BY <2>1, ViewFrame
<1>7. Installed' = Installed
  BY <1>6, InstalledIs, InstalledThen, Zenon
<1>8. sess[s].pc = "group_create"
  BY Zenon DEF GroupCreate, At
<1>9. DoneBy(n) = DoneBy(sess[s])
  BY <1>1, <1>8, Zenon DEF DoneBy, OnRoute
<1> QED
  BY <1>1, <1>2, <1>7, <1>9, QuietRefines, Zenon

\* Deleting a group is a stutter: its route is gone.
LEMMA DelGroupRefines ==
  ASSUME RouteInv, RouteInv', NEW s \in Sessions, DelGroup(s), ~Fail(s)
  PROVE  Refines(s)
<1>1. PICK t : t = sess[s] /\ t.pc = "del_group" /\ t.item.op = "del" /\ Unrouted(routes, t.gid)
  BY Zenon DEF DelGroup, At, RouteInv, Phases, PhaseOK, Deleting, Own, DeleteOK
<1>2. PICK n : Moves(s, n) /\ n.item = t.item /\ n.pc = "del_nh"
  BY <1>1, DelGroupFacts, Zenon DEF RouteInv
<1>3. UNCHANGED <<nhs, routes, answered>> /\ groups' = Drop(groups, t.gid)
  BY <1>1, DelGroupFacts, Zenon DEF RouteInv, hist
<1>4. \A h \in DOMAIN groups : h # t.gid => groups'[h] = groups[h]
  BY <1>3, Zenon DEF Drop
<1>5. \A k \in Static(routes) : groups'[routes[k].grp] = groups[routes[k].grp]
  BY <1>1, <1>4, Zenon DEF RouteInv, ObjectsOK, Unrouted
<1>6. View(nhs', groups', routes') = View(nhs, groups, routes)
  <2>1. SameGateways(nhs, groups, routes, nhs', groups', routes')
    BY <1>3, <1>5, Zenon DEF SameGateways
  <2> QED
    BY <2>1, ViewFrame
<1>7. Installed' = Installed
  BY <1>6, InstalledIs, InstalledThen, Zenon
<1>8. DoneBy(n) = DoneBy(t)
  BY <1>1, <1>2, Zenon DEF DoneBy, OnRoute
<1> QED
  BY <1>1, <1>2, <1>3, <1>7, <1>8, QuietRefines, Zenon

\* Deleting a next hop is a stutter: its group is gone.
LEMMA DelNhRefines ==
  ASSUME RouteInv, RouteInv', NEW s \in Sessions, DelNh(s)
  PROVE  Refines(s)
<1>1. PICK t : /\ t = sess[s] /\ t.pc = "del_nh" /\ Own(t, nhs, groups, routes, gMatch)
               /\ t.item.op = "del" /\ t.i \in Nat /\ t.grp \in Seq(Nat)
  BY Zenon DEF DelNh, At, RouteInv, Phases, PhaseOK, Deleting, NbTypes, Threads
<1>2. t.i > 0 /\ \A j \in DOMAIN t.grp : Free(groups, t.grp[j])
  BY <1>1, Zenon DEF Own, DeleteOK
<1>3. PICK n : Moves(s, n) /\ n.item = t.item /\ n.pc \in {"del_nh", "commit"}
  BY <1>1, DelNhFacts, Zenon DEF RouteInv
<1>4. UNCHANGED <<groups, routes, answered>>
  BY DelNhFacts, Zenon DEF RouteInv, objs, hist
<1>5. Installed' = Installed
  <2>1. CASE UNCHANGED objs /\ ~CascadeMore(s)
    BY <2>1, SameTable, Zenon DEF objs
  <2>2. CASE CascadeMore(s)
    <3>1. nhs' = Drop(nhs, t.grp[t.i])
      BY <1>1, <2>2, DelNhFacts, Zenon DEF RouteInv
    <3>2. t.i \in DOMAIN t.grp
      BY <1>1, <1>2, <2>2 DEF CascadeMore
    <3>3. Free(groups, t.grp[t.i])
      BY <1>2, <3>2, Zenon
    <3>4. \A y \in DOMAIN nhs : y # t.grp[t.i] => nhs'[y] = nhs[y]
      BY <3>1, Zenon DEF Drop
    <3>5. \A g \in DOMAIN groups : \A i \in DOMAIN groups[g] : nhs'[groups[g][i]] = nhs[groups[g][i]]
      BY <3>3, <3>4, Zenon DEF RouteInv, ObjectsOK, Free
    <3>6. \A k \in Static(routes) : \A i \in DOMAIN groups[routes[k].grp] :
            nhs'[groups[routes[k].grp][i]] = nhs[groups[routes[k].grp][i]]
      BY <3>5, Zenon DEF RouteInv, ObjectsOK
    <3>7. View(nhs', groups', routes') = View(nhs, groups, routes)
      <4>1. SameGateways(nhs, groups, routes, nhs', groups', routes')
        BY <1>4, <3>6, Zenon DEF SameGateways
      <4> QED
        BY <4>1, ViewFrame
    <3> QED
      BY <3>7, InstalledIs, InstalledThen, Zenon
  <2> QED
    BY <2>1, <2>2, DelNhFacts, Zenon DEF RouteInv
<1>6. DoneBy(n) = DoneBy(t)
  BY <1>1, <1>3, Zenon DEF DoneBy, OnRoute
<1> QED
  BY <1>1, <1>3, <1>4, <1>5, <1>6, QuietRefines, Zenon

\* A RESTCONF route is not of the static routes.
LEMMA RestRouteRefines ==
  ASSUME RouteInv, RouteInv', NEW s \in Sessions, RestRoute(s), ~Fail(s)
  PROVE  Refines(s)
<1>1. PICK n : Moves(s, n) /\ n.item = sess[s].item
  BY RestRouteFacts, Zenon DEF RouteInv
<1>2. UNCHANGED <<nhs, groups, answered>>
  BY RestRouteFacts, Zenon DEF RouteInv, hist
<1>3. PICK k, r : k = RouteKey(0, ZeroPrefix) /\ r = [af |-> 0, grp |-> sess[s].item.grp]
  BY Zenon
<1>4. k \notin DOMAIN routes /\ routes' = Put(routes, k, r) /\ r.af # 4
  BY <1>3, RestRouteFacts DEF RouteInv
<1>5. Static(routes') = Static(routes) /\ \A x \in Static(routes) : routes'[x].grp = routes[x].grp
  BY <1>4, Zenon DEF Put, Static
<1>6. View(nhs', groups', routes') = View(nhs, groups, routes)
  <2>1. SameGateways(nhs, groups, routes, nhs', groups', routes')
    BY <1>2, <1>5, Zenon DEF SameGateways
  <2> QED
    BY <2>1, ViewFrame
<1>7. Installed' = Installed
  BY <1>6, InstalledIs, InstalledThen, Zenon
<1>8. ~OnRoute(sess[s])
  BY Zenon DEF RestRoute, At, RouteInv, Phases, PhaseOK, OnRoute, Elsewhere
<1>9. DoneBy(n) = DoneBy(sess[s])
  BY <1>1, <1>8, Zenon DEF DoneBy, OnRoute
<1> QED
  BY <1>1, <1>2, <1>7, <1>9, QuietRefines, Zenon

\* danos_route_create installs the route with all of its gateways.
LEMMA RouteCreateRefines ==
  ASSUME RouteInv, RouteInv', NEW s \in Sessions, RouteCreate(s), ~Fail(s)
  PROVE  Refines(s)
<1>1. PICK t : /\ t = sess[s] /\ t.pc = "route_create" /\ Own(t, nhs, groups, routes, gMatch)
               /\ t.item \in Items /\ t.item.op \in {"set", "ecmp"} /\ NoItem \notin Items
               /\ t.grp \in Seq(Nat)
  BY RequestsAssumption, Zenon DEF RouteCreate, At, RouteInv, Phases, PhaseOK, Making, NbTypes, Threads
<1>2. PICK n : Moves(s, n) /\ n.item = t.item /\ n.pc = "commit"
  BY <1>1, RouteCreateFacts, Zenon DEF RouteInv
<1>3. UNCHANGED <<nhs, groups, answered>>
  BY RouteCreateFacts, Zenon DEF RouteInv, hist
<1>4. PICK k, r : k = KeyOf(t.item) /\ r = [af |-> 4, grp |-> t.gid]
  BY ZenonT(30)
<1>5. k \notin DOMAIN routes /\ routes' = Put(routes, k, r)
  BY <1>1, <1>4, RouteCreateFacts, Zenon DEF RouteInv
<1>6. /\ Static(routes') = Static(routes) \cup {k} /\ k \notin Static(routes)
      /\ routes'[k].grp = t.gid /\ \A x \in Static(routes) : routes'[x] = routes[x]
  BY <1>4, <1>5, Zenon DEF Put, Static
<1>7. groups[t.gid] = t.grp /\ Wrote(t, nhs) /\ Len(t.grp) = Len(t.item.gws)
  BY <1>1, ZenonT(30) DEF Own, BuildOK
<1>8. Gws(nhs', groups', routes', k) = t.item.gws
  <2>1. DOMAIN t.grp = DOMAIN t.item.gws
    <3>1. DOMAIN t.item.gws = 1..Len(t.item.gws)
      BY <1>1, ItemGateways, Zenon
    <3> QED
      BY <1>1, <1>7, <3>1
  <2>2. PICK S : t.item.gws \in Seq(S)
    BY <1>1, RequestsAssumption, Zenon
  <2>3. t.item.gws = [i \in DOMAIN t.item.gws |-> t.item.gws[i]]
    BY <2>2
  <2> QED
    BY <1>3, <1>6, <1>7, <2>1, <2>3 DEF Gws, Wrote
<1>9. \A x \in Static(routes) : Gws(nhs', groups', routes', x) = Gws(nhs, groups, routes, x)
  BY <1>3, <1>6, Zenon DEF Gws
<1>10. Installed = View(nhs, groups, routes) /\ Installed' = View(nhs', groups', routes')
  BY InstalledIs, InstalledThen, Zenon
<1>11. /\ DOMAIN Installed = Static(routes)
       /\ Installed' = [x \in DOMAIN Installed \cup {k} |->
                          IF x = k THEN t.item.gws ELSE Installed[x]]
  BY <1>6, <1>8, <1>9, <1>10, Zenon DEF View
<1>12. /\ OnRoute(t) /\ AskedBy(t) = RouteRequest(t.item) /\ AskedBy(n) = AskedBy(t)
       /\ DoneBy(t) = 0 /\ DoneBy(n) = Len(t.item.gws)
  BY <1>1, <1>2, ZenonT(30) DEF OnRoute, AskedBy, DoneBy, RouteOps
<1>13. /\ Asked[s] = RouteRequest(t.item) /\ Done[s] = 0
       /\ Asked' = [Asked EXCEPT ![s] = Asked[s]]
       /\ Done' = [Done EXCEPT ![s] = Len(t.item.gws)]
  BY <1>1, <1>2, <1>12, Shares
<1>14. Asked' = Asked
  BY <1>13, Zenon DEF Asked
<1>15. /\ Asked[s] # NoRequest /\ Asked[s].key = k /\ Asked[s].gws = t.item.gws
       /\ t.item.gws # << >>
  BY <1>1, <1>4, <1>13, RequestIs, Zenon DEF RouteOps
<1>16. Table!Install(s)
  BY <1>3, <1>6, <1>11, <1>13, <1>14, <1>15, Zenon DEF Table!Install
<1> QED
  BY <1>16, Zenon DEF Refines

\* danos_nh_update replaces one gateway of one route.
LEMMA NhUpdateRefines ==
  ASSUME RouteInv, RouteInv', NEW s \in Sessions, NhUpdate(s), ~Fail(s)
  PROVE  Refines(s)
<1>1. PICK t : /\ t = sess[s] /\ t.pc = "nh_update" /\ Own(t, nhs, groups, routes, gMatch)
               /\ t.item \in Items /\ t.item.op \in {"set", "ecmp"} /\ NoItem \notin Items
               /\ t.grp \in Seq(Nat) /\ t.i \in Nat
  BY RequestsAssumption, Zenon DEF NhUpdate, At, RouteInv, Phases, PhaseOK, Making, NbTypes, Threads
<1>2. PICK n : /\ Moves(s, n) /\ n.item = t.item /\ n.i = t.i + 1
               /\ n.pc = IF t.i = Len(t.grp) THEN "commit" ELSE "nh_update"
  BY <1>1, NhUpdateFacts, Zenon DEF RouteInv
<1>3. UNCHANGED <<groups, routes, answered>>
  BY NhUpdateFacts, Zenon DEF RouteInv, hist
<1>4. PICK k, g, i, v : k = KeyOf(t.item) /\ g = t.gid /\ i = t.i /\ v = t.item.gws[t.i]
  BY Zenon
<1>5. nhs' = Put(nhs, t.grp[i], v)
  BY <1>1, <1>4, NhUpdateFacts, Zenon DEF RouteInv
<1>6. /\ k \in Static(routes) /\ routes[k].grp = g /\ i \in DOMAIN t.grp
      /\ Len(t.grp) = Len(t.item.gws) /\ i \in DOMAIN groups[g] /\ t.grp[i] = groups[g][i]
  BY <1>1, <1>4, Zenon DEF Own, ChangeOK, Refers
<1>7. nhs'[groups[g][i]] = v /\ \A y \in DOMAIN nhs : y # groups[g][i] => nhs'[y] = nhs[y]
  BY <1>5, <1>6, Zenon DEF Put
<1>8. /\ g \in DOMAIN groups
      /\ \A h \in DOMAIN groups : \A j \in DOMAIN groups[h] :
           /\ groups[h][j] \in DOMAIN nhs
           /\ groups[h][j] = groups[g][i] => h = g /\ j = i
  <2>1. ObjectsOK(nhs, groups, routes) /\ g \in DOMAIN groups /\ i \in DOMAIN groups[g]
    BY <1>6, Zenon DEF RouteInv, ObjectsOK
  <2>2. \A h \in DOMAIN groups : \A j \in DOMAIN groups[h] : groups[h][j] \in DOMAIN nhs
    BY <2>1, Zenon DEF ObjectsOK
  <2>3. \A h \in DOMAIN groups : \A j \in DOMAIN groups[h] :
          groups[h][j] = groups[g][i] => h = g /\ j = i
    BY <2>1, Zenon DEF ObjectsOK
  <2> QED
    BY <2>1, <2>2, <2>3, Zenon
<1>9. \A x \in Static(routes) : x # k => routes[x].grp \in DOMAIN groups /\ routes[x].grp # g
  BY <1>6, Zenon DEF RouteInv, ObjectsOK
<1>10. \A x \in Static(routes) : x # k =>
         Gws(nhs', groups', routes', x) = Gws(nhs, groups, routes, x)
  BY <1>3, <1>7, <1>8, <1>9, Zenon DEF Gws
<1>11. \A j \in DOMAIN groups[g] : nhs'[groups[g][j]] = IF j = i THEN v ELSE nhs[groups[g][j]]
  BY <1>7, <1>8, Zenon
<1>12. Gws(nhs', groups', routes', k) = [Gws(nhs, groups, routes, k) EXCEPT ![i] = v]
  BY <1>3, <1>6, <1>11, Zenon DEF Gws
<1>13. Installed = View(nhs, groups, routes) /\ Installed' = View(nhs', groups', routes')
  BY InstalledIs, InstalledThen, Zenon
<1>14. /\ DOMAIN Installed = Static(routes)
       /\ \A x \in Static(routes) : Installed[x] = Gws(nhs, groups, routes, x)
  BY <1>13, Zenon DEF View
<1>15. Installed' = [Installed EXCEPT ![k] = [Installed[k] EXCEPT ![i] = v]]
  BY <1>3, <1>6, <1>10, <1>12, <1>13, <1>14, Zenon DEF View
<1>16. i \in DOMAIN Installed[k] /\ i \in DOMAIN t.item.gws
  <2>1. i \in DOMAIN Installed[k]
    BY <1>6, <1>14, Zenon DEF Gws
  <2>2. DOMAIN t.item.gws = 1..Len(t.item.gws)
    BY <1>1, ItemGateways, Zenon
  <2>3. i \in 1..Len(t.item.gws)
    BY <1>1, <1>6
  <2> QED
    BY <2>1, <2>2, <2>3, Zenon
<1>17. /\ OnRoute(t) /\ AskedBy(t) = RouteRequest(t.item) /\ AskedBy(n) = AskedBy(t)
       /\ DoneBy(t) = i - 1 /\ DoneBy(n) = i
  <2>1. OnRoute(t) /\ OnRoute(n) /\ t.item.op # "del"
    BY <1>1, <1>2, Zenon DEF OnRoute, RouteOps
  <2>2. i \in Nat /\ (i = Len(t.grp) => i = Len(t.item.gws)) /\ n.i - 1 = i
    BY <1>1, <1>2, <1>4, <1>6
  <2> QED
    BY <1>1, <1>2, <1>4, <2>1, <2>2, Zenon DEF AskedBy, DoneBy
<1>18. /\ Asked[s] = RouteRequest(t.item) /\ Done[s] = i - 1
       /\ Asked' = [Asked EXCEPT ![s] = Asked[s]] /\ Done' = [Done EXCEPT ![s] = i]
  BY <1>1, <1>2, <1>17, Shares
<1>19. Asked' = Asked
  BY <1>18, Zenon DEF Asked
<1>20. Done[s] + 1 = i
  BY <1>1, <1>4, <1>18
<1>21. Asked[s] # NoRequest /\ Asked[s].key = k /\ Asked[s].gws = t.item.gws
  BY <1>1, <1>4, <1>18, RequestIs, Zenon DEF RouteOps
<1>22. Table!Replace(s)
  BY <1>3, <1>4, <1>6, <1>14, <1>15, <1>16, <1>18, <1>19, <1>20, <1>21, Zenon DEF Table!Replace
<1> QED
  BY <1>22, Zenon DEF Refines

\* danos_route_delete withdraws the route.
LEMMA DelRouteRefines ==
  ASSUME RouteInv, RouteInv', NEW s \in Sessions, DelRoute(s), ~Fail(s)
  PROVE  Refines(s)
<1>1. PICK t : /\ t = sess[s] /\ t.pc = "del_route" /\ Own(t, nhs, groups, routes, gMatch)
               /\ t.item \in Items /\ t.item.op = "del" /\ NoItem \notin Items
  BY RequestsAssumption, Zenon DEF DelRoute, At, RouteInv, Phases, PhaseOK, Deleting
<1>2. PICK n : Moves(s, n) /\ n.item = t.item /\ n.pc \in {"del_group", "commit"}
  BY <1>1, DelRouteFacts, Zenon DEF RouteInv
<1>3. UNCHANGED <<nhs, groups, answered>>
  BY DelRouteFacts, ZenonT(30) DEF RouteInv, hist
<1>4. PICK k : k = KeyOf(t.item) /\ k = t.key /\ k \in Static(routes)
  BY <1>1, Zenon DEF Own, DeleteOK, Refers
<1>5. routes' = Drop(routes, k)
  BY <1>1, <1>4, DelRouteFacts, Zenon DEF RouteInv
<1>6. /\ Static(routes') = Static(routes) \ {k}
      /\ \A x \in Static(routes') : routes'[x] = routes[x]
  BY <1>5, Zenon DEF Drop, Static
<1>7. \A x \in Static(routes') : Gws(nhs', groups', routes', x) = Gws(nhs, groups, routes, x)
  BY <1>3, <1>6, Zenon DEF Gws
<1>8. Installed = View(nhs, groups, routes) /\ Installed' = View(nhs', groups', routes')
  BY InstalledIs, InstalledThen, Zenon
<1>9. /\ DOMAIN Installed = Static(routes)
      /\ Installed' = [x \in DOMAIN Installed \ {k} |-> Installed[x]]
  BY <1>6, <1>7, <1>8, Zenon DEF View
<1>10. /\ AskedBy(t) = RouteRequest(t.item) /\ AskedBy(n) = AskedBy(t)
       /\ DoneBy(t) = 0 /\ DoneBy(n) = 1
  BY <1>1, <1>2, Zenon DEF OnRoute, AskedBy, DoneBy, RouteOps
<1>11. /\ Asked[s] = RouteRequest(t.item) /\ Done[s] = 0
       /\ Asked' = [Asked EXCEPT ![s] = Asked[s]] /\ Done' = [Done EXCEPT ![s] = 1]
  BY <1>1, <1>2, <1>10, Shares
<1>12. Asked' = Asked
  BY <1>11, Zenon DEF Asked
<1>13. Asked[s] # NoRequest /\ Asked[s].key = k /\ Asked[s].gws = << >>
  BY <1>1, <1>4, <1>11, RequestIs, Zenon DEF RouteOps
<1>14. Table!Withdraw(s)
  BY <1>3, <1>4, <1>9, <1>11, <1>12, <1>13, Zenon DEF Table!Withdraw
<1> QED
  BY <1>14, Zenon DEF Refines

\* Every step of a route item is one of the route table or a stutter.
LEMMA RouteStepRefines ==
  ASSUME RouteInv, RouteInv', NEW s \in Sessions, RouteStep(s)
  PROVE  Refines(s)
<1>1. CASE Fail(s)
  <2>1. sess[s].pc \notin {"idle", "next"}
    BY RoutePlace, Zenon
  <2> QED
    BY <1>1, <2>1, FailRefines, Zenon
<1>2. CASE ~Fail(s)
  BY <1>2, ReadRefines, NhUpdateRefines, NhCreateRefines, GroupCreateRefines,
     RouteCreateRefines, RestRouteRefines, DelRouteRefines, DelGroupRefines, DelNhRefines,
     Zenon DEF RouteStep
<1> QED
  BY <1>1, <1>2, Zenon

\* The composite handlers implement the abstract route table: routes appear whole, change
\* gateway by gateway and only as an outstanding request asks, and success is answered only
\* when all of the request's effect is in the table.
THEOREM RoutesRefine == ASSUME SerialDeletes PROVE Spec => ImplementsRouteTable
<1>1. Init => Table!Init
  <2> SUFFICES ASSUME Init PROVE Table!Init
    BY Zenon
  <2>1. DOMAIN routes = {}
    BY DEF Init
  <2>2. Installed = << >>
    BY <2>1 DEF Installed, StaticKeys
  <2>3. \A s \in Sessions : Item(s) = NoItem
    BY IdleThread, Zenon DEF Init, Item
  <2>4. Asked = [s \in Sessions |-> NoRequest] /\ Done = [s \in Sessions |-> 0]
    BY <2>3, Zenon DEF Asked, Done, Effect
  <2> QED
    BY <2>2, <2>4, Zenon DEF Table!Init, Init
<1>2. RouteInv /\ [Next]_vars => RouteInv'
  BY StepRoutes, Zenon
<1>3. RouteInv /\ RouteInv' /\ [Next]_vars => [Table!Next]_(Table!vars)
  <2> SUFFICES ASSUME RouteInv, RouteInv', [Next]_vars PROVE [Table!Next]_(Table!vars)
    BY Zenon
  <2>1. Unseen \/ \E s \in Sessions : Refines(s)
    <3>1. CASE Next
      <4>1. PICK s \in Sessions : \/ \E f \in Fronts : Request(s, f)
                                  \/ NextItem(s) \/ Commit(s) \/ RouteStep(s) \/ OtherStep(s)
        BY <3>1, Steps, Zenon
      <4> QED
        BY <4>1, ControlRefines, RouteStepRefines, OtherStepRefines, Zenon
    <3>2. CASE UNCHANGED vars
      <4>1. UNCHANGED <<nhs, groups, routes, sess, answered>>
        BY <3>2, Zenon DEF vars
      <4>2. Asked' = Asked /\ Done' = Done
        BY <4>1, Zenon DEF Asked, Done, Effect, Item
      <4> QED
        BY <4>1, <4>2, SameTable, Zenon DEF Unseen
    <3> QED
      BY <3>1, <3>2, Zenon
  <2>2. CASE Unseen
    BY <2>2, Zenon DEF Unseen, Table!vars
  <2> QED
    BY <2>1, <2>2, Zenon DEF Refines, Table!Next
<1> QED
  BY <1>1, <1>2, <1>3, InitRoutes, PTL DEF Spec, ImplementsRouteTable, Table!Spec
=============================================================================
