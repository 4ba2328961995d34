------------------------- MODULE ProgrammingProofs -------------------------
(***************************************************************************)
(* Proofs about the programming pipeline (module Programming), for any set *)
(* of routes, groups, next hops and interfaces and any bounds, and about   *)
(* the recovery of the FRR to VPP bridge that drives it (module Bridge).   *)
(***************************************************************************)
EXTENDS Bridge, FiniteSetTheorems, TLAPS

InIface == {"addr_del", "iface_up", "addr_set"}
InPass == {"run"} \cup InIface

\* A pass holds the store's read lock: what it still has to visit is desired, and
\* the pipeline is at an interface exactly between the operations it takes.
WalkOK ==
  /\ pc \in InPass => \A x \in todo : Desires(x) # None
  /\ at # None <=> pc \in InIface
  /\ pc = "addr_del" => ledger[at] # None

\* From the removal of an interface's old address to the ledger update, the old
\* address stays gone.
AddrGone ==
  pc \in {"iface_up", "addr_set"} /\ ledger[at] # None
    /\ ledger[at].obj.addr # iface[at].addr
    => ledger[at].obj.addr \notin ifAddr[at]

\* The conditions under which the ledger tells the truth: a failed operation had
\* no effect, every route has a FIB entry of its own, and no member of a group
\* cancels itself out of the digest.
Reliable == ~LostReplies
PrefixesOwn == \A r, s \in Routes : Prefix[r] = Prefix[s] => r = s
MembersOdd ==
  \A ms \in MemberSeqs : \A k \in DOMAIN ms :
    Cardinality({j \in DOMAIN ms : ms[j] = ms[k]}) % 2 = 1

\* What a ledger record of a route says of the FIB, whatever the store holds now:
\* a blackhole, or one next hop per member, each of them in the digest.
Holds(r, rec) ==
  \/ /\ rec.obj = Blackhole
     /\ fib[Prefix[r]] = <<>>
  \/ /\ rec.obj \in Groups
     /\ rec.dep \in Digests
     /\ rec.dep.members # <<>>
     /\ fib[Prefix[r]] \in [DOMAIN rec.dep.members -> Gateways]
     /\ \A k \in DOMAIN rec.dep.members :
          <<rec.dep.members[k], fib[Prefix[r]][k]>> \in rec.dep.xor

LedgerTruth == \A r \in Routes : ledger[r] # None => Holds(r, ledger[r])

\* As long as a pass has not failed, what it has visited is as it should be.
Visited == \A r \in Routes : route[r] # None /\ r \notin todo => RouteExact(r)
PassProgress == pc \in InPass /\ ~failed => Visited

-----------------------------------------------------------------------------
(* Lemmas about the operators. *)

\* The fold of member hashes holds nothing but member hashes; in particular a
\* digest is of the digests' type, whatever is missing from the store.
LEMMA DigestType ==
  ASSUME TypeOK, NEW g \in Groups, grp[g] # None
  PROVE  /\ DepDigest(g) \in Digests
         /\ DepDigest(g).members = grp[g]
         /\ DepDigest(g).xor \subseteq {MemberHash(grp[g][k]) : k \in DOMAIN grp[g]}
<1> DEFINE h == [k \in DOMAIN grp[g] |-> MemberHash(grp[g][k])]
<1>1. grp[g] \in MemberSeqs /\ grp[g] \in Seq(NHs)
  BY ObjectsAssumption, Zenon DEF TypeOK
<1>2. \A k \in DOMAIN grp[g] : grp[g][k] \in NHs
  BY <1>1
<1>3. \A k \in DOMAIN h : h[k] \in (NHs \cup {None}) \X (Gateways \cup {None})
  BY <1>2, Zenon DEF TypeOK, MemberHash
<1>4. XorOf(h) \subseteq {h[k] : k \in DOMAIN h}
  BY Zenon DEF XorOf, Range
<1>5. {h[k] : k \in DOMAIN h} = {MemberHash(grp[g][k]) : k \in DOMAIN grp[g]}
  BY Zenon
<1>6. XorOf(h) \in SUBSET ((NHs \cup {None}) \X (Gateways \cup {None}))
  BY <1>3, <1>4
<1>7. DepDigest(g) = [members |-> grp[g], xor |-> XorOf(h)]
  BY Zenon DEF DepDigest
<1> DEFINE X == XorOf(h)
<1> HIDE DEF h, X
<1>8. DepDigest(g) = [members |-> grp[g], xor |-> X]
  BY <1>7, Zenon DEF X
<1>9. DepDigest(g) \in Digests
  BY <1>1, <1>6, <1>8 DEF Digests, X
<1> QED
  BY <1>4, <1>5, <1>8, <1>9 DEF X

\* The record program_entry writes is one the ledger can hold.
LEMMA RecordType ==
  ASSUME TypeOK, NEW x \in Entries, Desires(x) # None
  PROVE  /\ Record(x) \in LedgerRecords
         /\ x \in Routes => Record(x).obj = route[x] /\ route[x] \in RouteObjs
         /\ x \in Ifaces => Record(x).obj = iface[x] /\ iface[x] \in IfaceObjs
<1>1. CASE x \in Routes
  <2>1. route[x] \in RouteObjs
    BY <1>1, Zenon DEF TypeOK, Desires
  <2>2. DepDigest(route[x]) \in Digests \cup {None}
    BY DigestType, Zenon DEF DepDigest
  <2> QED
    BY <1>1, <2>1, <2>2, ObjectsAssumption, Zenon DEF Record, Desires, LedgerRecords
<1>2. CASE x \in Ifaces
  BY <1>2, ObjectsAssumption, Zenon DEF TypeOK, Record, Desires, LedgerRecords
<1> QED
  BY <1>1, <1>2, Zenon DEF Entries

\* An operation that returns DANOS_OK took effect; if no reply is lost, one that
\* does not return it had none.
LEMMA OutcomeMeaning ==
  ASSUME NEW ok \in BOOLEAN, NEW applied \in BOOLEAN, NEW absent \in BOOLEAN,
         \/ Succeeds(ok, applied)
         \/ Outcome(ok, applied)
         \/ DeleteOutcome(absent, ok, applied)
  PROVE  /\ ok => applied
         /\ Reliable /\ applied => ok
BY Zenon DEF Succeeds, Outcome, DeleteOutcome, Reliable

\* What an operation may change of the bookkeeping.
LEMMA OutcomeType ==
  ASSUME TypeOK, NEW ok \in BOOLEAN, NEW applied \in BOOLEAN, NEW absent \in BOOLEAN,
         \/ Succeeds(ok, applied)
         \/ Outcome(ok, applied)
         \/ DeleteOutcome(absent, ok, applied)
  PROVE  fails' \in 0..MaxFail /\ link' = link
BY LimitsAssumption DEF TypeOK, Succeeds, Outcome, DeleteOutcome

\* resolve_route_nh returns one gateway per member, or none for a blackhole.
LEMMA ResolvedType ==
  ASSUME TypeOK, NEW o \in RouteObjs, Usable(o)
  PROVE  /\ Resolved(o) \in Paths
         /\ o = Blackhole => Resolved(o) = <<>>
         /\ o # Blackhole => /\ o \in Groups /\ grp[o] \in MemberSeqs /\ grp[o] # <<>>
                             /\ Resolved(o) \in [DOMAIN grp[o] -> Gateways]
<1>1. CASE o = Blackhole
  BY <1>1, Zenon DEF Resolved, Paths
<1>2. CASE o # Blackhole
  <2>1. o \in Groups /\ grp[o] \in MemberSeqs /\ grp[o] # <<>>
    BY <1>2, Zenon DEF Usable, TypeOK
  <2>2. \A k \in DOMAIN grp[o] : grp[o][k] \in NHs
    BY <2>1, ObjectsAssumption
  <2>3. \A k \in DOMAIN grp[o] : nh[grp[o][k]] \in Gateways
    BY <1>2, <2>2 DEF Usable, TypeOK
  <2> QED
    BY <1>2, <2>1, <2>3 DEF Resolved, Paths
<1> QED
  BY <1>1, <1>2, Zenon

-----------------------------------------------------------------------------
(* Type correctness. *)

Types == TypeOK /\ WalkOK

\* The daemon begins well typed.
LEMMA InitTypes == Init => Types
<1>1. ASSUME Init PROVE TypeOK
  <2>1. /\ nh \in [NHs -> Gateways \cup {None}]
        /\ grp \in [Groups -> MemberSeqs \cup {None}]
        /\ route \in [Routes -> RouteObjs \cup {None}]
        /\ iface \in [Ifaces -> IfaceObjs \cup {None}]
    BY <1>1, Zenon DEF Init
  <2>2. /\ ledger \in [Entries -> LedgerRecords \cup {None}]
        /\ \A x \in Entries : ledger[x] = None
        /\ fib \in [Prefixes -> Paths \cup {None}]
    BY <1>1, Zenon DEF Init
  <2>3. ifUp \in [Ifaces -> BOOLEAN] /\ ifAddr \in [Ifaces -> SUBSET Addrs]
    BY <1>1, Zenon DEF Init
  <2>4. link = "up" /\ pc = "idle" /\ todo = {} /\ at = None /\ failed \in BOOLEAN
    BY <1>1, Zenon DEF Init
  <2>5. muts \in 0..MaxMut /\ fails \in 0..MaxFail /\ restarts \in 0..MaxRestart
    BY <1>1, LimitsAssumption DEF Init
  <2> QED
    BY <2>1, <2>2, <2>3, <2>4, <2>5, Zenon DEF TypeOK, Entries
<1>2. Init => WalkOK
  BY Zenon DEF Init, WalkOK, InPass, InIface
<1> QED
  BY <1>1, <1>2, Zenon DEF Types

\* A step of program_entry on a route keeps the types.
LEMMA RouteStepTypes ==
  ASSUME Types, NEW r \in Routes, AddRoute(r) \/ WithdrawRoute(r) \/ LeaveRoute(r)
  PROVE  Types'
<1> USE DEF Types, TypeOK, WalkOK, InPass, InIface, Done, desired, dataplane
<1>1. r \in Entries /\ Prefix[r] \in Prefixes /\ r \notin Ifaces
  BY ObjectsAssumption, Zenon DEF Entries, Prefixes
<1>2. pc = "run" /\ pc' = "run" /\ at' = None /\ todo' = todo \ {r} /\ failed' \in BOOLEAN
  BY Zenon DEF AddRoute, WithdrawRoute, LeaveRoute
<1>3. route[r] # None /\ route[r] \in RouteObjs
  BY <1>1, Zenon DEF AddRoute, WithdrawRoute, LeaveRoute, Desires
<1>4. UNCHANGED <<desired, ifUp, ifAddr, muts, restarts>>
  BY Zenon DEF AddRoute, WithdrawRoute, LeaveRoute
<1>5. fails' \in 0..MaxFail /\ link' = link
  BY OutcomeType, Zenon DEF AddRoute, WithdrawRoute, LeaveRoute
<1>6. /\ fib' \in [Prefixes -> Paths \cup {None}]
      /\ ledger' \in [Entries -> LedgerRecords \cup {None}]
      /\ \A s \in Routes : ledger'[s] # None => ledger'[s].obj \in RouteObjs
      /\ \A i \in Ifaces : ledger'[i] = ledger[i]
  <2>1. CASE AddRoute(r)
    <3>1. Resolved(route[r]) \in Paths
      BY <2>1, <1>3, ResolvedType, Zenon DEF AddRoute
    <3>2. Record(r) \in LedgerRecords /\ Record(r).obj \in RouteObjs
      BY <1>1, <1>3, RecordType, Zenon DEF Desires
    <3> QED
      BY <2>1, <1>1, <3>1, <3>2 DEF AddRoute, RouteOp
  <2>2. CASE WithdrawRoute(r)
    BY <2>2, <1>1 DEF WithdrawRoute, RouteOp
  <2>3. CASE LeaveRoute(r)
    BY <2>3, Zenon DEF LeaveRoute
  <2> QED
    BY <2>1, <2>2, <2>3, Zenon
<1>7. Desires(r)' = Desires(r) /\ \A x \in todo' : Desires(x)' # None
  BY <1>2, <1>4, Zenon DEF Desires
<1> QED
  BY <1>2, <1>4, <1>5, <1>6, <1>7, Zenon

\* So does a step on an interface.
LEMMA IfaceStepTypes ==
  ASSUME Types, AddrDel \/ IfaceUp \/ AddrSet \/ \E i \in Ifaces : VisitIface(i)
  PROVE  Types'
<1> USE DEF Types, TypeOK, WalkOK, InPass, InIface, Done, desired, dataplane
<1>1. CASE \E i \in Ifaces : VisitIface(i)
  <2>1. PICK i \in Ifaces : VisitIface(i)
    BY <1>1, Zenon
  <2>2. i \notin Routes /\ i # None
    BY ObjectsAssumption, Zenon
  <2>3. iface[i] # None
    BY <2>1, <2>2, Zenon DEF VisitIface, Desires
  <2> QED
    BY <2>1, <2>2, <2>3, Zenon DEF VisitIface, Desires
<1>2. CASE AddrDel
  <2>1. at \in Ifaces /\ at # None
    BY <1>2, Zenon DEF AddrDel
  <2>2. fails' \in 0..MaxFail /\ link' = link
    BY <1>2, OutcomeType, Zenon DEF AddrDel
  <2>3. ifAddr' \in [Ifaces -> SUBSET Addrs]
    BY <1>2, <2>1 DEF AddrDel
  <2> QED
    BY <1>2, <2>1, <2>2, <2>3, Zenon DEF AddrDel, Desires
<1>3. CASE IfaceUp
  <2>1. at \in Ifaces /\ at # None /\ iface[at] \in IfaceObjs
    BY <1>3, Zenon DEF IfaceUp
  <2>2. fails' \in 0..MaxFail /\ link' = link
    BY <1>3, OutcomeType, Zenon DEF IfaceUp
  <2>3. ifUp' \in [Ifaces -> BOOLEAN]
    BY <1>3, <2>1, Zenon DEF IfaceUp, IfaceObjs
  <2> QED
    BY <1>3, <2>1, <2>2, <2>3, Zenon DEF IfaceUp, Desires
<1>4. CASE AddrSet
  <2>1. at \in Ifaces /\ at # None /\ iface[at] \in IfaceObjs
    BY <1>4, Zenon DEF AddrSet
  <2>2. fails' \in 0..MaxFail /\ link' = link
    BY <1>4, OutcomeType, Zenon DEF AddrSet
  <2>3. ifAddr' \in [Ifaces -> SUBSET Addrs]
    BY <1>4, <2>1 DEF AddrSet, IfaceObjs
  <2>4. Record(at) \in LedgerRecords /\ Record(at).obj \in IfaceObjs
    <3>1. at \in Entries /\ at \notin Routes /\ Desires(at) # None
      BY <2>1, ObjectsAssumption, Zenon DEF Entries, Desires
    <3> QED
      BY <2>1, <3>1, RecordType, Zenon
  <2>5. /\ ledger' \in [Entries -> LedgerRecords \cup {None}]
        /\ \A s \in Routes : ledger'[s] = ledger[s]
        /\ \A i \in Ifaces : ledger'[i] # None => ledger'[i].obj \in IfaceObjs
    BY <1>4, <2>1, <2>4, ObjectsAssumption DEF AddrSet, Entries
  <2> QED
    BY <1>4, <2>1, <2>2, <2>3, <2>5, Zenon DEF AddrSet, Desires
<1> QED
  BY <1>1, <1>2, <1>3, <1>4, Zenon

\* So do the other steps of a pass, and a sweep.
LEMMA PassTypes ==
  ASSUME Types, Start \/ Walk \/ Finish
  PROVE  Types'
<1>1. CASE Start
  BY <1>1, Zenon DEF Start, Types, TypeOK, WalkOK, InPass, InIface, Desires, desired, dataplane
<1>2. CASE \E x \in Entries : Skip(x)
  BY <1>2 DEF Skip, Done, Types, TypeOK, WalkOK, InPass, InIface, Desires, desired, dataplane
<1>3. CASE Finish
  BY <1>3, Zenon DEF Finish, Types, TypeOK, WalkOK, InPass, InIface, desired, dataplane
<1> QED
  BY <1>1, <1>2, <1>3, RouteStepTypes, IfaceStepTypes, Zenon DEF Walk

\* danos_programming_sweep keeps the types.
LEMMA SweepTypes ==
  ASSUME Types, Sweep
  PROVE  Types'
<1> USE DEF Types, TypeOK, WalkOK, InPass, InIface, Swept, desired, dataplane
<1>1. CASE Collect
  BY <1>1, Zenon DEF Collect, Tombstones
<1>2. CASE SweepEnd
  BY <1>2, Zenon DEF SweepEnd
<1>3. ASSUME NEW r \in Routes, SweepRoute(r) PROVE Types'
  <2>1. r \in Entries /\ Prefix[r] \in Prefixes
    BY ObjectsAssumption, Zenon DEF Entries, Prefixes
  <2>2. fails' \in 0..MaxFail /\ link' = link
    BY <1>3, OutcomeType, Zenon DEF SweepRoute
  <2>3. /\ fib' \in [Prefixes -> Paths \cup {None}]
        /\ ledger' \in [Entries -> LedgerRecords \cup {None}]
        /\ \A x \in Entries : ledger'[x] # None => ledger'[x] = ledger[x]
    BY <1>3, <2>1, Zenon DEF SweepRoute, RouteOp
  <2> QED
    BY <1>3, <2>1, <2>2, <2>3, Zenon DEF SweepRoute, Entries
<1>4. ASSUME NEW i \in Ifaces, SweepIface(i) PROVE Types'
  <2>1. i \in Entries
    BY Zenon DEF Entries
  <2>2. fails' \in 0..MaxFail /\ link' = link
    BY <1>4, OutcomeType, Zenon DEF SweepIface
  <2>3. /\ ifUp' \in [Ifaces -> BOOLEAN]
        /\ ledger' \in [Entries -> LedgerRecords \cup {None}]
        /\ \A x \in Entries : ledger'[x] # None => ledger'[x] = ledger[x]
    BY <1>4, <2>1, Zenon DEF SweepIface
  <2> QED
    BY <1>4, <2>1, <2>2, <2>3, Zenon DEF SweepIface, Entries
<1> QED
  BY <1>1, <1>2, <1>3, <1>4, Zenon DEF Sweep

\* Every step keeps the types.
LEMMA NextTypes == Types /\ [Next]_vars => Types'
<1> SUFFICES ASSUME Types, [Next]_vars PROVE Types'
  BY Zenon
<1>1. CASE UNCHANGED vars
  BY <1>1 DEF vars, desired, dataplane, pipeline, Types, TypeOK, WalkOK, Desires
<1>2. CASE Mutate
  <2> USE DEF Types, TypeOK, WalkOK, InPass, InIface, Mutation, dataplane, pipeline
  <2>1. muts' \in 0..MaxMut /\ at = None
    BY <1>2, LimitsAssumption DEF Mutate, SetNh, SetGroup, SetRoute, SetIface
  <2>2. ASSUME NEW n \in NHs, SetNh(n) PROVE Types'
    BY <2>1, <2>2, Zenon DEF SetNh
  <2>3. ASSUME NEW g \in Groups, SetGroup(g) PROVE Types'
    BY <2>1, <2>3 DEF SetGroup
  <2>4. ASSUME NEW r \in Routes, SetRoute(r) PROVE Types'
    BY <2>1, <2>4 DEF SetRoute
  <2>5. ASSUME NEW i \in Ifaces, SetIface(i) PROVE Types'
    BY <2>1, <2>5 DEF SetIface
  <2> QED
    BY <1>2, <2>2, <2>3, <2>4, <2>5, Zenon DEF Mutate
<1>3. CASE Pass
  BY <1>3, PassTypes, Zenon DEF Pass
<1>4. CASE Sweep
  BY <1>4, SweepTypes, Zenon
<1>5. CASE Restart
  <2>1. restarts' \in 0..MaxRestart
    BY <1>5, LimitsAssumption DEF Restart, Types, TypeOK
  <2>2. /\ ledger' \in [Entries -> LedgerRecords \cup {None}]
        /\ \A x \in Entries : ledger'[x] = None
    BY <1>5, Zenon DEF Restart
  <2>3. UNCHANGED <<desired, dataplane, muts, fails>>
    BY <1>5, Zenon DEF Restart
  <2>4. pc' = "idle" /\ todo' = {} /\ at' = None /\ failed' = FALSE
    BY <1>5, Zenon DEF Restart
  <2> QED
    BY <2>1, <2>2, <2>3, <2>4, Zenon
       DEF Types, TypeOK, WalkOK, InPass, InIface, desired, dataplane, Entries
<1> QED
  BY <1>1, <1>2, <1>3, <1>4, <1>5, Zenon DEF Next

\* The types hold throughout.
LEMMA TypesInvariant == Spec => []Types
<1> QED
  BY InitTypes, NextTypes, PTL DEF Spec

\* The state has its types; the pipeline never looks at an object that has gone.
THEOREM TypeCorrect == Spec => []TypeOK
BY TypesInvariant, PTL DEF Types

-----------------------------------------------------------------------------
(* What the operations on one route do to the FIB and the ledger.          *)

Kept == fib' = fib /\ ledger' = ledger
Added(r) ==
  /\ Usable(route[r])
  /\ fib' = [fib EXCEPT ![Prefix[r]] = Resolved(route[r])]
  /\ ledger' = [ledger EXCEPT ![r] = Record(r)]
Removed(r) ==
  /\ fib' = [fib EXCEPT ![Prefix[r]] = None]
  /\ ledger' = [ledger EXCEPT ![r] = None]

\* If no reply is lost, the FIB and the ledger change together or not at all.
LEMMA AddEffect ==
  ASSUME Reliable, NEW r \in Routes, AddRoute(r)
  PROVE  (Kept /\ failed') \/ (Added(r) /\ (~failed' => ~failed))
<1>1. PICK ok \in BOOLEAN, applied \in BOOLEAN :
        /\ Outcome(ok, applied)
        /\ RouteOp(Prefix[r], Resolved(route[r]), applied)
        /\ ledger' = IF ok THEN [ledger EXCEPT ![r] = Record(r)] ELSE ledger
        /\ Done(r, ok)
  BY Zenon DEF AddRoute
<1>2. ok <=> applied
  BY <1>1, OutcomeMeaning, Zenon
<1> QED
  BY <1>1, <1>2, Zenon DEF AddRoute, RouteOp, Kept, Added, Done

\* Withdrawing a route removes it from FIB and ledger, or fails and changes neither.
LEMMA WithdrawEffect ==
  ASSUME Reliable, NEW r \in Routes, WithdrawRoute(r)
  PROVE  (Kept /\ failed') \/ (Removed(r) /\ (~failed' => ~failed))
<1>1. PICK ok \in BOOLEAN, applied \in BOOLEAN :
        /\ DeleteOutcome(fib[Prefix[r]] = None, ok, applied)
        /\ RouteOp(Prefix[r], None, applied)
        /\ ledger' = IF ok THEN [ledger EXCEPT ![r] = None] ELSE ledger
        /\ Done(r, ok)
  BY Zenon DEF WithdrawRoute
<1>2. ok <=> applied
  BY <1>1, OutcomeMeaning, Zenon
<1> QED
  BY <1>1, <1>2, Zenon DEF WithdrawRoute, RouteOp, Kept, Removed, Done

\* The sweep of a route removes it from FIB and ledger, or changes neither.
LEMMA SweepEffect ==
  ASSUME Reliable, NEW r \in Routes, SweepRoute(r)
  PROVE  Kept \/ Removed(r)
BY OutcomeMeaning, Zenon DEF SweepRoute, RouteOp, Kept, Removed, Swept

\* No other step of a pass or a sweep touches the FIB or a route's ledger entry.
RouteFrame == fib' = fib /\ \A r \in Routes : ledger'[r] = ledger[r]

\* The remaining steps of a pass or a sweep touch no route.
LEMMA OtherSteps ==
  ASSUME Types,
         \/ Start \/ Finish \/ Collect \/ SweepEnd
         \/ \E x \in Entries : Skip(x)
         \/ \E r \in Routes : LeaveRoute(r)
         \/ \E i \in Ifaces : VisitIface(i) \/ SweepIface(i)
         \/ AddrDel \/ IfaceUp \/ AddrSet
  PROVE  RouteFrame
<1> USE DEF RouteFrame, dataplane
<1>1. CASE AddrSet
  <2>1. at \in Ifaces /\ at \notin Routes
    BY <1>1, ObjectsAssumption, Zenon DEF AddrSet, Types, TypeOK, WalkOK, InIface
  <2> QED
    BY <1>1, <2>1, Zenon DEF AddrSet, Types, TypeOK, Entries
<1>2. ASSUME NEW i \in Ifaces, SweepIface(i) PROVE RouteFrame
  <2>1. i \notin Routes
    BY ObjectsAssumption, Zenon
  <2> QED
    BY <1>2, <2>1, Zenon DEF SweepIface, Swept, Types, TypeOK, Entries
<1>3. CASE Start \/ Finish \/ Collect \/ SweepEnd
  BY <1>3, Zenon DEF Start, Finish, Collect, SweepEnd
<1>4. CASE \/ \E x \in Entries : Skip(x)
           \/ \E r \in Routes : LeaveRoute(r)
           \/ \E i \in Ifaces : VisitIface(i)
  BY <1>4, Zenon DEF Skip, LeaveRoute, VisitIface
<1>5. CASE AddrDel \/ IfaceUp
  BY <1>5, Zenon DEF AddrDel, IfaceUp
<1> QED
  BY <1>1, <1>2, <1>3, <1>4, <1>5, Zenon

\* A route that is programmed owns its prefix's FIB entry; sweeping and
\* withdrawing give the two up together.
LEMMA StepNoOrphan ==
  ASSUME Reliable, Types, NoOrphan, [Next]_vars
  PROVE  NoOrphan'
<1> SUFFICES ASSUME restarts' = 0, NEW p \in Prefixes, fib'[p] # None
             PROVE  \E r \in Routes : Prefix[r] = p /\ ledger'[r] # None
  BY Zenon DEF NoOrphan
<1>1. restarts = 0
  <2>1. restarts \in Nat
    BY LimitsAssumption DEF Types, TypeOK
  <2>2. restarts' = restarts \/ restarts' = restarts + 1
    BY Zenon DEF Next, Mutate, Pass, Sweep, Walk, SetNh, SetGroup, SetRoute, SetIface, Mutation,
           Start, Finish, Skip, AddRoute, WithdrawRoute, LeaveRoute, VisitIface, AddrDel,
           IfaceUp, AddrSet, Collect, SweepEnd, SweepRoute, SweepIface, Restart, vars
  <2> QED
    BY <2>1, <2>2
<1>2. ASSUME fib[p] # None PROVE \E r \in Routes : Prefix[r] = p /\ ledger[r] # None
  BY <1>1, <1>2, Zenon DEF NoOrphan
<1>3. CASE UNCHANGED vars \/ Mutate
  BY <1>2, <1>3, Zenon DEF vars, dataplane, pipeline, Mutate, SetNh, SetGroup, SetRoute, SetIface,
                    Mutation
<1>4. CASE RouteFrame
  BY <1>2, <1>4, Zenon DEF RouteFrame
<1>5. ASSUME NEW r \in Routes, AddRoute(r)
      PROVE  \E s \in Routes : Prefix[s] = p /\ ledger'[s] # None
  <2>1. Kept \/ Added(r)
    BY <1>5, AddEffect, Zenon
  <2>2. CASE Kept
    BY <1>2, <2>2, Zenon DEF Kept
  <2>3. CASE Added(r)
    <3>1. Record(r) # None
      BY <1>5, RecordType, NoneAssumption, Zenon
         DEF AddRoute, Types, WalkOK, InPass, Entries
    <3>2. ledger'[r] # None /\ \A s \in Routes \ {r} : ledger'[s] = ledger[s]
      BY <2>3, <3>1, Zenon DEF Added, Types, TypeOK, Entries
    <3>3. p # Prefix[r] => fib'[p] = fib[p]
      BY <2>3, Zenon DEF Added, Types, TypeOK
    <3> QED
      BY <1>2, <3>2, <3>3, Zenon
  <2> QED
    BY <2>1, <2>2, <2>3, Zenon
<1>6. ASSUME NEW r \in Routes, WithdrawRoute(r) \/ SweepRoute(r)
      PROVE  \E s \in Routes : Prefix[s] = p /\ ledger'[s] # None
  <2>1. Kept \/ Removed(r)
    BY <1>6, WithdrawEffect, SweepEffect, Zenon
  <2>2. CASE Kept
    BY <1>2, <2>2, Zenon DEF Kept
  <2>3. CASE Removed(r)
    <3>1. p # Prefix[r] /\ fib'[p] = fib[p]
      BY <2>3, Zenon DEF Removed, Types, TypeOK
    <3>2. \A s \in Routes \ {r} : ledger'[s] = ledger[s]
      BY <2>3, Zenon DEF Removed, Types, TypeOK, Entries
    <3> QED
      BY <1>2, <3>1, <3>2, Zenon
  <2> QED
    BY <2>1, <2>2, <2>3, Zenon
<1>7. CASE Restart
  BY <1>1, <1>7 DEF Restart
<1> QED
  BY <1>3, <1>4, <1>5, <1>6, <1>7, OtherSteps, Zenon DEF Next, Pass, Walk, Sweep

\* Whatever the pipeline put into the FIB it remembers, so that a sweep can find
\* it, if no reply of the backend is lost.
THEOREM NothingOrphaned == ASSUME Reliable PROVE Spec => []NoOrphan
<1>1. Init => NoOrphan
  BY Zenon DEF Init, NoOrphan
<1>2. Types /\ NoOrphan /\ [Next]_vars => NoOrphan'
  BY StepNoOrphan, Zenon
<1> QED
  BY <1>1, <1>2, TypesInvariant, PTL DEF Spec

-----------------------------------------------------------------------------
(* The ledger tells the truth. *)

Exclusive == Reliable /\ PrefixesOwn /\ MembersOdd

\* The digest taken when a route is programmed has every member with the gateway
\* that was programmed: a hash occurs as often as its member, an odd number of times.
LEMMA DigestComplete ==
  ASSUME TypeOK, MembersOdd, NEW g \in Groups, grp[g] # None, Usable(g)
  PROVE  \A k \in DOMAIN grp[g] : <<grp[g][k], nh[grp[g][k]]>> \in DepDigest(g).xor
<1> TAKE k \in DOMAIN grp[g]
<1> DEFINE ms == grp[g]
           h == [j \in DOMAIN ms |-> MemberHash(ms[j])]
<1>1. ms \in MemberSeqs
  BY Zenon DEF TypeOK
<1>2. \A j \in DOMAIN ms : h[j] = <<ms[j], nh[ms[j]]>>
  BY ObjectsAssumption, Zenon DEF Usable, MemberHash
<1>3. {j \in DOMAIN h : h[j] = h[k]} = {j \in DOMAIN ms : ms[j] = ms[k]}
  <2>1. DOMAIN h = DOMAIN ms
    BY Zenon
  <2>2. \A j \in DOMAIN ms : h[j] = h[k] <=> ms[j] = ms[k]
    BY <1>2
  <2> HIDE DEF h
  <2> QED
    BY <2>1, <2>2, Zenon
<1>4. Cardinality({j \in DOMAIN h : h[j] = h[k]}) % 2 = 1
  BY <1>1, <1>3, Zenon DEF MembersOdd
<1>5. h[k] \in XorOf(h)
  BY <1>4, Zenon DEF XorOf, Range
<1>6. DepDigest(g).xor = XorOf(h)
  BY Zenon DEF DepDigest
<1> QED
  BY <1>2, <1>5, <1>6, Zenon

\* So a record describes the entry that was programmed with it.
LEMMA AddedHolds ==
  ASSUME Types, MembersOdd, NEW r \in Routes, route[r] # None, Added(r)
  PROVE  Holds(r, ledger[r])'
<1>1. route[r] \in RouteObjs /\ Prefix[r] \in Prefixes /\ r \in Entries
  BY ObjectsAssumption, Zenon DEF Types, TypeOK, Entries, Prefixes
<1>2. fib'[Prefix[r]] = Resolved(route[r]) /\ ledger'[r] = Record(r)
  BY <1>1, Zenon DEF Added, Types, TypeOK
<1>3. Record(r).obj = route[r] /\ Record(r).dep = DepDigest(route[r])
  BY Zenon DEF Record, Desires
<1>4. CASE route[r] = Blackhole
  BY <1>2, <1>3, <1>4, Zenon DEF Holds, Resolved
<1>5. CASE route[r] # Blackhole
  <2> DEFINE g == route[r]
             d == DepDigest(g)
  <2>1. g \in Groups /\ grp[g] # None /\ grp[g] # <<>> /\ Usable(g)
    BY <1>5, Zenon DEF Added, Usable
  <2>2. d \in Digests /\ d.members = grp[g]
    BY <2>1, DigestType, Zenon DEF Types
  <2>3. Resolved(g) \in [DOMAIN grp[g] -> Gateways]
    BY <1>1, <1>5, <2>1, ResolvedType, Zenon DEF Types
  <2>4. \A k \in DOMAIN grp[g] : <<grp[g][k], Resolved(g)[k]>> \in d.xor
    BY <1>5, <2>1, DigestComplete, Zenon DEF Types, Resolved
  <2> HIDE DEF d, g
  <2> QED
    BY <1>2, <1>3, <2>1, <2>2, <2>3, <2>4, Zenon DEF Holds, d, g
<1> QED
  BY <1>4, <1>5, Zenon

\* A step that changes the FIB entry or the record of a route changes those of no
\* other; the record of the one it changes still holds.
LEMMA StepLedgerTruth ==
  ASSUME Exclusive, Types, LedgerTruth,
         \/ Start \/ Walk \/ Finish \/ Sweep
  PROVE  LedgerTruth'
<1> USE DEF Exclusive
<1> SUFFICES ASSUME NEW s \in Routes, ledger'[s] # None PROVE Holds(s, ledger[s])'
  BY Zenon DEF LedgerTruth
<1>1. ASSUME fib'[Prefix[s]] = fib[Prefix[s]], ledger'[s] = ledger[s]
      PROVE  Holds(s, ledger[s])'
  BY <1>1, Zenon DEF LedgerTruth, Holds
<1>2. CASE RouteFrame
  BY <1>1, <1>2, Zenon DEF RouteFrame
<1>3. CASE Kept
  BY <1>1, <1>3, Zenon DEF Kept
<1>4. ASSUME NEW r \in Routes, r # s, Added(r) \/ Removed(r)
      PROVE  Holds(s, ledger[s])'
  <2>1. Prefix[r] # Prefix[s] /\ Prefix[s] \in Prefixes
    BY <1>4, ObjectsAssumption, Zenon DEF PrefixesOwn, Prefixes
  <2> QED
    BY <1>1, <1>4, <2>1, Zenon DEF Added, Removed, Types, TypeOK, Entries
<1>5. ASSUME NEW r \in Routes, AddRoute(r)
      PROVE  Holds(s, ledger[s])'
  <2>1. Kept \/ Added(r)
    BY <1>5, AddEffect, Zenon
  <2>2. route[r] # None
    BY <1>5, Zenon DEF AddRoute, Types, WalkOK, InPass, Desires
  <2> QED
    BY <1>3, <1>4, <2>1, <2>2, AddedHolds, Zenon
<1>6. ASSUME NEW r \in Routes, WithdrawRoute(r) \/ SweepRoute(r)
      PROVE  Holds(s, ledger[s])'
  <2>1. Kept \/ Removed(r)
    BY <1>6, WithdrawEffect, SweepEffect, Zenon
  <2>2. Removed(r) => r # s
    BY Zenon DEF Removed, Types, TypeOK, Entries
  <2> QED
    BY <1>3, <1>4, <2>1, <2>2, Zenon
<1> QED
  BY <1>2, <1>5, <1>6, OtherSteps, Zenon DEF Walk, Sweep

\* Every step keeps the ledger's routes in the FIB.
LEMMA NextLedgerTruth ==
  ASSUME Exclusive, Types, LedgerTruth, [Next]_vars
  PROVE  LedgerTruth'
<1>1. CASE UNCHANGED vars \/ Mutate
  BY <1>1, Zenon DEF vars, dataplane, pipeline, Mutate, SetNh, SetGroup, SetRoute, SetIface,
              Mutation, LedgerTruth, Holds
<1>2. CASE Pass \/ Sweep
  BY <1>2, StepLedgerTruth, Zenon DEF Pass
<1>3. CASE Restart
  BY <1>3, Zenon DEF Restart, LedgerTruth, Entries
<1> QED
  BY <1>1, <1>2, <1>3, Zenon DEF Next

\* An equal digest means the same members with the same gateways, all of them there.
LEMMA TruthFromLedger ==
  ASSUME Types, LedgerTruth, NEW r \in Routes, InSync(r)
  PROVE  RouteExact(r)
<1> DEFINE o == route[r]
<1>1. o # None /\ o \in RouteObjs /\ ledger[r] # None /\ Holds(r, ledger[r])
  <2>1. o # None /\ o \in RouteObjs /\ ledger[r] = Record(r) /\ r \in Entries
    BY Zenon DEF InSync, Desires, Types, TypeOK, Entries
  <2>2. ledger[r] # None
    BY <2>1, RecordType, NoneAssumption, Zenon DEF Types, Desires
  <2> QED
    BY <2>1, <2>2, Zenon DEF LedgerTruth
<1>2. ledger[r].obj = o /\ ledger[r].dep = DepDigest(o)
  BY DEF InSync, Record, Desires
<1>3. CASE o = Blackhole
  BY <1>1, <1>2, <1>3, ObjectsAssumption, Zenon DEF RouteExact, Usable, Resolved, Holds
<1>4. CASE o # Blackhole
  <2> DEFINE d == DepDigest(o)
             path == fib[Prefix[r]]
  <2>1. /\ o \in Groups /\ d \in Digests /\ d.members # <<>>
        /\ path \in [DOMAIN d.members -> Gateways]
        /\ \A k \in DOMAIN d.members : <<d.members[k], path[k]>> \in d.xor
    BY <1>1, <1>2, <1>4, Zenon DEF Holds
  <2>2. grp[o] # None
    BY <2>1, NoneAssumption, Zenon DEF DepDigest
  <2>3. d.members = grp[o] /\ d.xor \subseteq {MemberHash(grp[o][k]) : k \in DOMAIN grp[o]}
    BY <2>1, <2>2, DigestType, Zenon DEF Types
  <2>4. \A k \in DOMAIN grp[o] : grp[o][k] \in NHs
    BY <2>1, <2>2, ObjectsAssumption DEF Types, TypeOK
  <2>5. \A k \in DOMAIN grp[o] : nh[grp[o][k]] = path[k] /\ nh[grp[o][k]] # None
    <3> TAKE k \in DOMAIN grp[o]
    <3>1. PICK j \in DOMAIN grp[o] : <<grp[o][k], path[k]>> = MemberHash(grp[o][j])
      BY <2>1, <2>3, Zenon
    <3>2. grp[o][k] # None /\ path[k] # None
      <4>1. path[k] \in Gateways /\ grp[o][k] \in NHs
        BY <2>1, <2>3, <2>4, Zenon
      <4> QED
        BY <4>1, ObjectsAssumption, Zenon
    <3>3. grp[o][j] = grp[o][k] /\ nh[grp[o][j]] = path[k]
      BY <3>1, <3>2, Zenon DEF MemberHash
    <3> QED
      BY <3>2, <3>3, Zenon
  <2>6. Usable(o)
    BY <2>1, <2>2, <2>3, <2>5, Zenon DEF Usable
  <2>7. Resolved(o) = path
    BY <1>4, <2>1, <2>3, <2>5, Zenon DEF Resolved
  <2> QED
    BY <1>1, <2>6, <2>7, Zenon DEF RouteExact
<1> QED
  BY <1>3, <1>4, Zenon

\* A route that program_entry takes for in sync and skips really is in the FIB as it
\* resolves now, whatever was edited, deleted or failed since it was programmed.
THEOREM SkipIsSafe == ASSUME Exclusive PROVE Spec => []RouteTruth
<1>1. Init => LedgerTruth
  BY Zenon DEF Init, LedgerTruth, Entries
<1>2. Types /\ LedgerTruth /\ [Next]_vars => LedgerTruth'
  BY NextLedgerTruth, Zenon
<1>3. Types /\ LedgerTruth => RouteTruth
  BY TruthFromLedger, Zenon DEF RouteTruth
<1> QED
  BY <1>1, <1>2, <1>3, TypesInvariant, PTL DEF Spec

-----------------------------------------------------------------------------
(* A pass without a failure has done everything. *)

\* The entry a step deals with is as it should be afterwards unless the pass has
\* failed; the others stay as they were.
LEMMA WalkVisits ==
  ASSUME Exclusive, Types, LedgerTruth, Visited, Walk, ~failed'
  PROVE  ~failed /\ Visited'
<1> USE DEF Exclusive
<1>1. UNCHANGED desired
  BY Zenon DEF Walk, Skip, AddRoute, WithdrawRoute, LeaveRoute, VisitIface, AddrDel, IfaceUp,
         AddrSet
<1>2. ~failed
  BY Zenon DEF Walk, Skip, AddRoute, WithdrawRoute, LeaveRoute, VisitIface, AddrDel, IfaceUp,
         AddrSet, Done
<1> SUFFICES ASSUME NEW s \in Routes, route[s] # None, s \notin todo'
             PROVE  RouteExact(s)'
  BY <1>1, <1>2, Zenon DEF Visited, desired
<1>3. ASSUME fib'[Prefix[s]] = fib[Prefix[s]], RouteExact(s)
      PROVE  RouteExact(s)'
  BY <1>1, <1>3, Zenon DEF RouteExact, Usable, Resolved, desired
<1>4. ASSUME s \notin todo, fib'[Prefix[s]] = fib[Prefix[s]]
      PROVE  RouteExact(s)'
  BY <1>3, <1>4, Zenon DEF Visited
<1>5. ASSUME NEW x \in Entries, Skip(x) PROVE RouteExact(s)'
  <2>1. s = x => RouteExact(s)
    BY <1>5, TruthFromLedger, Zenon DEF Skip
  <2> QED
    BY <1>3, <1>4, <1>5, <2>1, Zenon DEF Skip, Done, dataplane
<1>6. ASSUME NEW r \in Routes, AddRoute(r) PROVE RouteExact(s)'
  <2>1. Added(r)
    BY <1>6, AddEffect, Zenon
  <2>2. Prefix[r] \in Prefixes /\ Prefix[s] \in Prefixes
    BY ObjectsAssumption, Zenon DEF Prefixes
  <2>3. CASE s = r
    BY <1>1, <2>1, <2>2, <2>3 DEF Added, RouteExact, Usable, Resolved, desired, Types, TypeOK
  <2>4. CASE s # r
    <3>1. fib'[Prefix[s]] = fib[Prefix[s]]
      BY <2>1, <2>2, <2>4, Zenon DEF Added, PrefixesOwn, Types, TypeOK
    <3> QED
      BY <1>4, <1>6, <2>4, <3>1, Zenon DEF AddRoute, Done
  <2> QED
    BY <2>3, <2>4, Zenon
<1>7. ASSUME NEW r \in Routes, WithdrawRoute(r) PROVE RouteExact(s)'
  <2>1. Removed(r)
    BY <1>7, WithdrawEffect, Zenon
  <2>2. Prefix[r] \in Prefixes /\ Prefix[s] \in Prefixes
    BY ObjectsAssumption, Zenon DEF Prefixes
  <2>3. CASE s = r
    BY <1>1, <1>7, <2>1, <2>2, <2>3, Zenon
       DEF WithdrawRoute, Removed, RouteExact, Usable, desired, Types, TypeOK
  <2>4. CASE s # r
    <3>1. fib'[Prefix[s]] = fib[Prefix[s]]
      BY <2>1, <2>2, <2>4, Zenon DEF Removed, PrefixesOwn, Types, TypeOK
    <3> QED
      BY <1>4, <1>7, <2>4, <3>1, Zenon DEF WithdrawRoute, Done
  <2> QED
    BY <2>3, <2>4, Zenon
<1>8. ASSUME NEW r \in Routes, LeaveRoute(r) PROVE RouteExact(s)'
  BY <1>8, Zenon DEF LeaveRoute, Done
<1>9. ASSUME NEW i \in Ifaces, VisitIface(i) PROVE RouteExact(s)'
  BY <1>4, <1>9, Zenon DEF VisitIface, dataplane
<1>10. CASE AddrDel \/ IfaceUp \/ AddrSet
  <2>1. at \in Ifaces /\ at # s
    BY <1>10, ObjectsAssumption, Zenon
       DEF AddrDel, IfaceUp, AddrSet, Types, TypeOK, WalkOK, InIface
  <2>2. s \notin todo
    BY <1>10, <2>1, Zenon DEF AddrDel, IfaceUp, AddrSet, Done
  <2> QED
    BY <1>4, <1>10, <2>2, Zenon DEF AddrDel, IfaceUp, AddrSet
<1> QED
  BY <1>5, <1>6, <1>7, <1>8, <1>9, <1>10, Zenon DEF Walk

\* Every step of a pass that has not failed leaves what it visited as it should be.
LEMMA NextPassProgress ==
  ASSUME Exclusive, Types, LedgerTruth, PassProgress, [Next]_vars
  PROVE  PassProgress'
<1>1. CASE UNCHANGED vars
  BY <1>1 DEF vars, desired, dataplane, pipeline, PassProgress, Visited, RouteExact, Usable,
              Resolved
<1>2. CASE Mutate
  BY <1>2, Zenon DEF Mutate, SetNh, SetGroup, SetRoute, SetIface, Mutation, pipeline, InPass,
              InIface, PassProgress
<1>3. CASE Start
  BY <1>3, Zenon DEF Start, PassProgress, Visited, Desires, Entries, desired
<1>4. CASE Walk
  <2>1. pc \in InPass
    BY <1>4, Zenon DEF Walk, Skip, AddRoute, WithdrawRoute, LeaveRoute, VisitIface, AddrDel,
                IfaceUp, AddrSet, InPass, InIface
  <2>2. CASE failed'
    BY <2>2, Zenon DEF PassProgress
  <2>3. CASE ~failed'
    <3>1. ~failed
      BY <1>4, <2>3, Zenon DEF Walk, Skip, AddRoute, WithdrawRoute, LeaveRoute, VisitIface,
                        AddrDel, IfaceUp, AddrSet, Done
    <3> QED
      BY <1>4, <2>1, <2>3, <3>1, WalkVisits, Zenon DEF PassProgress
  <2> QED
    BY <2>2, <2>3, Zenon
<1>5. CASE Finish \/ Sweep \/ Restart
  BY <1>5, Zenon DEF Finish, Sweep, Collect, SweepEnd, SweepRoute, SweepIface, Swept, Restart,
              InPass, InIface, PassProgress
<1> QED
  BY <1>1, <1>2, <1>3, <1>4, <1>5, Zenon DEF Next, Pass

\* A pass that reports no failure has made the FIB match every desired route and
\* withdrawn those without a usable path.
THEOREM CleanPassIsComplete == ASSUME Exclusive PROVE Spec => []PassComplete
<1>1. Init => LedgerTruth /\ PassProgress
  BY Zenon DEF Init, LedgerTruth, PassProgress, InPass, InIface, Entries
<1>2. Types /\ LedgerTruth /\ PassProgress /\ [Next]_vars => LedgerTruth' /\ PassProgress'
  BY NextLedgerTruth, NextPassProgress, Zenon
<1>3. PassProgress => PassComplete
  BY Zenon DEF PassProgress, Visited, PassComplete, InPass
<1> QED
  BY <1>1, <1>2, <1>3, TypesInvariant, PTL DEF Spec

-----------------------------------------------------------------------------
(* The old address of an interface. *)

\* Every step keeps a removed address off the interface until the ledger knows.
LEMMA NextAddrGone ==
  ASSUME Types, AddrGone, [Next]_vars
  PROVE  AddrGone'
<1> USE DEF AddrGone
<1>1. CASE UNCHANGED vars
  BY <1>1, Zenon DEF vars, desired, dataplane, pipeline
<1>2. CASE Mutate
  BY <1>2, Zenon DEF Mutate, SetNh, SetGroup, SetRoute, SetIface, Mutation, pipeline
<1>3. CASE Start \/ Finish \/ Sweep \/ Restart
  BY <1>3, Zenon DEF Start, Finish, Sweep, Collect, SweepEnd, SweepRoute, SweepIface, Swept, Restart
<1>4. CASE Walk
  <2>1. CASE \/ \E x \in Entries : Skip(x)
             \/ \E r \in Routes : AddRoute(r) \/ WithdrawRoute(r) \/ LeaveRoute(r)
    BY <2>1, Zenon DEF Skip, AddRoute, WithdrawRoute, LeaveRoute, Done
  <2>2. CASE \E i \in Ifaces : VisitIface(i)
    BY <2>2, Zenon DEF VisitIface, desired, dataplane
  <2>3. CASE AddrDel
    <3> DEFINE old == ledger[at].obj.addr
    <3>1. at \in Ifaces /\ ledger[at] # None
      BY <2>3, Zenon DEF AddrDel, Types, TypeOK, WalkOK, InIface
    <3>2. PICK ok \in BOOLEAN, applied \in BOOLEAN :
            /\ IF old = None THEN Succeeds(ok, applied)
               ELSE DeleteOutcome(old \notin ifAddr[at], ok, applied)
            /\ ifAddr' = IF applied THEN [ifAddr EXCEPT ![at] = @ \ {old}] ELSE ifAddr
            /\ IF ok THEN pc' = "iface_up" /\ UNCHANGED <<todo, at, failed>>
               ELSE Done(at, FALSE)
      BY <2>3, Zenon DEF AddrDel
    <3>3. ok => applied
      BY <3>2, OutcomeMeaning, Zenon
    <3>4. CASE ok
      <4>1. old \notin ifAddr'[at]
        BY <3>1, <3>2, <3>3, <3>4, Zenon DEF Types, TypeOK
      <4> QED
        BY <2>3, <3>2, <3>4, <4>1, Zenon DEF AddrDel
    <3>5. CASE ~ok
      BY <3>2, <3>5, Zenon DEF Done
    <3> QED
      BY <3>4, <3>5, Zenon
  <2>4. CASE IfaceUp
    BY <2>4, Zenon DEF IfaceUp, Done, desired
  <2>5. CASE AddrSet
    BY <2>5, Zenon DEF AddrSet, Done
  <2> QED
    BY <1>4, <2>1, <2>2, <2>3, <2>4, <2>5, Zenon DEF Walk
<1> QED
  BY <1>1, <1>2, <1>3, <1>4, Zenon DEF Next, Pass

\* Only program_entry's last step on an interface gives it a new address in the
\* ledger, and by then the old one is gone from the dataplane.
LEMMA NextAddressTakenOver ==
  ASSUME Types, AddrGone, [Next]_vars
  PROVE  [AddressTakenOver]_vars
<1>1. CASE UNCHANGED vars
  BY <1>1, Zenon
<1> SUFFICES ASSUME NEW i \in Ifaces, Next, ledger[i] # None, ledger'[i] # None,
                    ledger[i].obj.addr # ledger'[i].obj.addr
             PROVE  ledger[i].obj.addr \notin ifAddr'[i]
  BY <1>1, Zenon DEF AddressTakenOver
<1>2. i \in Entries /\ i \notin Routes
  BY ObjectsAssumption, Zenon DEF Entries
<1>3. CASE AddrSet
  <2>1. at \in Ifaces /\ iface[at] \in IfaceObjs
    BY <1>3, Zenon DEF AddrSet, Types, TypeOK, WalkOK, InIface
  <2>2. i = at /\ ledger' = [ledger EXCEPT ![at] = Record(at)]
    BY <1>2, <1>3, Zenon DEF AddrSet, Types, TypeOK
  <2>3. ledger'[i].obj = iface[at]
    BY <1>2, <2>1, <2>2, Zenon DEF Types, TypeOK, Record, Desires
  <2>4. ledger[i].obj.addr \notin ifAddr[at]
    BY <1>3, <2>2, <2>3, Zenon DEF AddrGone, AddrSet
  <2>5. ifAddr' = ifAddr \/ ifAddr' = [ifAddr EXCEPT ![at] = @ \cup ({iface[at].addr} \ {None})]
    BY <1>3, Zenon DEF AddrSet
  <2>6. DOMAIN ifAddr = Ifaces
    BY Zenon DEF Types, TypeOK
  <2>7. ifAddr'[at] \subseteq ifAddr[at] \cup {iface[at].addr}
    BY <2>1, <2>5, <2>6
  <2> QED
    BY <2>2, <2>3, <2>4, <2>7, Zenon
<1>4. CASE ~AddrSet
  <2>1. ledger'[i] = ledger[i] \/ ledger'[i] = None
    <3>1. DOMAIN ledger = Entries
      BY Zenon DEF Types, TypeOK
    <3>2. CASE UNCHANGED ledger
      BY <3>2, Zenon
    <3>3. CASE \E x \in Entries : \E v : ledger' = [ledger EXCEPT ![x] = v] /\ (x # i \/ v = None)
      BY <1>2, <3>1, <3>3
    <3>4. CASE Mutate \/ Start \/ Finish \/ Collect \/ SweepEnd
      BY <3>2, <3>4, Zenon DEF Mutate, SetNh, SetGroup, SetRoute, SetIface, Mutation, pipeline,
           Start, Finish, Collect, SweepEnd
    <3>5. CASE (\E x \in Entries : Skip(x)) \/ (\E j \in Ifaces : VisitIface(j)) \/ AddrDel \/ IfaceUp
      BY <3>2, <3>5, Zenon DEF Skip, VisitIface, AddrDel, IfaceUp
    <3>6. ASSUME NEW r \in Routes, AddRoute(r) \/ WithdrawRoute(r) \/ LeaveRoute(r) \/ SweepRoute(r)
          PROVE  ledger'[i] = ledger[i] \/ ledger'[i] = None
      <4>1. r \in Entries /\ r # i
        BY <1>2, Zenon DEF Entries
      <4>2. UNCHANGED ledger \/ \E v : ledger' = [ledger EXCEPT ![r] = v]
        BY <3>6, Zenon DEF AddRoute, WithdrawRoute, LeaveRoute, SweepRoute, Swept
      <4> QED
        BY <3>2, <3>3, <4>1, <4>2, Zenon
    <3>7. ASSUME NEW j \in Ifaces, SweepIface(j)
          PROVE  ledger'[i] = ledger[i] \/ ledger'[i] = None
      <4>1. j \in Entries /\ ledger' = [ledger EXCEPT ![j] = None]
        BY <3>7, Zenon DEF SweepIface, Swept, Entries
      <4> QED
        BY <3>3, <4>1, Zenon
    <3>8. CASE Restart
      BY <1>2, <3>8, Zenon DEF Restart
    <3> QED
      BY <1>4, <3>4, <3>5, <3>6, <3>7, <3>8, Zenon DEF Next, Pass, Walk, Sweep
  <2> QED
    BY <2>1
<1> QED
  BY <1>3, <1>4, Zenon

\* When the ledger takes over an interface's new address, the old one is gone.
THEOREM OldAddressRemoved == Spec => OldAddressGone
<1>1. Init => AddrGone
  BY Zenon DEF Init, AddrGone
<1>2. Types /\ AddrGone /\ [Next]_vars => AddrGone'
  BY NextAddrGone, Zenon
<1>3. Types /\ AddrGone /\ [Next]_vars => [AddressTakenOver]_vars
  BY NextAddressTakenOver, Zenon
<1> QED
  BY <1>1, <1>2, <1>3, TypesInvariant, PTL DEF Spec, OldAddressGone
-----------------------------------------------------------------------------
(* The bridge: a recovery that reports success on a live connection has restored every   *)
(* desired route, for any number of failures, restarts of VPP, tries and replays.        *)

\* The pipeline runs only in the phases that call it.
PhaseOK ==
  /\ phase \in {"recv", "message", "program", "recover", "resweep", "forget", "forgotten",
                "replay"}
  /\ phase \notin {"program", "resweep", "replay"} => pc = "idle"
  /\ phase = "resweep" => pc \in {"collect", "sweep", "idle"}
  /\ phase = "replay" => pc \in InPass

\* A replay starts from an empty ledger; while the connection it uses is the one it
\* started on, what it writes down is true.  A restart of VPP breaks that connection,
\* and only a new recovery makes another.
ReplayOK ==
  /\ phase = "forgotten" => \A x \in Entries : ledger[x] = None
  /\ phase = "replay" /\ link = "up" => LedgerTruth /\ PassProgress

BridgeInv == Types /\ PhaseOK /\ ReplayOK

\* danos_programming_forget_programmed forgets the whole ledger only if that holds no
\* more than SWEEP_MAX entries.
ForgetsAll == Cardinality(Entries) <= SweepMax

\* The VPP bridge begins before any replay.
LEMMA BridgeInitInv == BridgeInit => BridgeInv
BY InitTypes, Zenon DEF BridgeInit, BridgeInv, PhaseOK, ReplayOK, Init

\* A collection that is not cut short takes every candidate.
LEMMA BoundedAll ==
  ASSUME ForgetsAll, NEW C \in SUBSET Entries, NEW V \in SUBSET C, Bounded(V, C)
  PROVE  V = C
<1>1. IsFiniteSet(Entries)
  BY ObjectsAssumption, FS_Union, Zenon DEF Entries
<1>2. IsFiniteSet(C) /\ Cardinality(C) <= Cardinality(Entries)
  BY <1>1, FS_Subset, Zenon
<1>3. Cardinality(C) \in Nat /\ Cardinality(Entries) \in Nat /\ SweepMax \in Nat
  BY <1>1, <1>2, FS_CardinalityType, LimitsAssumption, Zenon
<1>4. Cardinality(V) = Cardinality(C)
  BY <1>2, <1>3 DEF Bounded, ForgetsAll
<1> QED
  BY <1>2, <1>4, FS_Subset, Zenon

\* A step of the loop that leaves the programming pipeline alone keeps its types.
LEMMA SameTypes ==
  ASSUME Types, UNCHANGED vars
  PROVE  Types' /\ pc' = pc
<1>1. UNCHANGED <<nh, grp, route, iface, fib, ifUp, ifAddr, link, ledger, pc, todo, at, failed,
                  muts, fails, restarts>>
  BY Zenon DEF vars, desired, dataplane, pipeline
<1>2. TypeOK'
  BY <1>1 DEF Types, TypeOK
<1>3. WalkOK'
  BY <1>1 DEF Types, WalkOK, Desires
<1> QED
  BY <1>1, <1>2, <1>3, Zenon DEF Types

\* The types and the phases, under every step of the loop.
LEMMA BridgeStepTypes ==
  ASSUME Types, PhaseOK, [BridgeNext]_bridgeVars
  PROVE  Types' /\ PhaseOK'
<1>1. CASE UNCHANGED bridgeVars
  <2>1. UNCHANGED vars /\ phase' = phase
    BY <1>1, Zenon DEF bridgeVars, loop
  <2>2. Types' /\ pc' = pc
    BY <2>1, SameTypes, Zenon
  <2> QED
    BY <2>1, <2>2, Zenon DEF PhaseOK
<1>2. ASSUME UNCHANGED vars PROVE Types' /\ pc' = pc
  BY <1>2, SameTypes, Zenon
<1>3. ASSUME NEW r \in Routes, Receive(r) PROVE Types' /\ PhaseOK'
  <2>1. pc = "idle" /\ phase' = "message"
    BY <1>3, Zenon DEF Receive, Go, PhaseOK
  <2>2. route' \in [Routes -> RouteObjs \cup {None}]
    BY <1>3, Zenon DEF Receive, Types, TypeOK
  <2> QED
    BY <1>3, <2>1, <2>2, Zenon
       DEF Receive, dataplane, pipeline, Types, TypeOK, WalkOK, InPass, InIface, PhaseOK
<1>4. CASE Program
  <2>1. Start \/ Walk \/ Finish \/ Sweep
    BY <1>4, Zenon DEF Program
  <2>2. phase' = "program"
    BY <1>4, Zenon DEF Program, Go, loop
  <2> QED
    BY <2>1, <2>2, PassTypes, SweepTypes, Zenon DEF PhaseOK
<1>5. CASE Resweep
  <2>1. pc' \in {"collect", "sweep", "idle"}
    BY <1>5, Zenon DEF Resweep, Sweep, Collect, SweepEnd, SweepRoute, SweepIface, Swept, PhaseOK
  <2> QED
    BY <1>5, <2>1, SweepTypes, Zenon DEF Resweep, loop, PhaseOK
<1>6. CASE Replay
  <2>1. pc' \in InPass
    BY <1>6, Zenon DEF Replay, Start, Walk, Skip, AddRoute, WithdrawRoute, LeaveRoute, VisitIface,
                AddrDel, IfaceUp, AddrSet, Done, InPass, InIface
  <2> QED
    BY <1>6, <2>1, PassTypes, Zenon DEF Replay, Go, loop, PhaseOK
<1>7. CASE Programmed \/ GiveUp \/ AlreadyConnected \/ Reswept
  BY <1>2, <1>7, Zenon DEF Programmed, GiveUp, AlreadyConnected, Reswept, Unrecovered, Go, PhaseOK
<1>8. CASE Probe
  BY <1>8, Zenon DEF Probe, desired, pipeline, Types, TypeOK, WalkOK, InPass, InIface, PhaseOK,
              Desires
<1>9. CASE ReconnectFails
  <2>1. fails' \in 0..MaxFail
    BY <1>9, LimitsAssumption DEF ReconnectFails, Types, TypeOK
  <2> QED
    BY <1>9, <2>1, Zenon DEF ReconnectFails, Unrecovered, desired, dataplane, pipeline, Types,
                      TypeOK, WalkOK, Desires, PhaseOK
<1>10. CASE Reconnect
  BY <1>10, Zenon DEF Reconnect, Go, desired, Types, TypeOK, WalkOK, InPass, InIface, PhaseOK
<1>11. CASE Forget
  <2>1. ledger' \in [Entries -> LedgerRecords \cup {None}]
    BY <1>11, Zenon DEF Forget, Types, TypeOK
  <2>2. \A x \in Entries : ledger'[x] # None => ledger'[x] = ledger[x]
    BY <1>11, Zenon DEF Forget
  <2>3. pc = "idle" /\ phase' = "forgotten" /\ pc' = pc
    BY <1>11, Zenon DEF Forget, PhaseOK
  <2> QED
    BY <1>11, <2>1, <2>2, <2>3, Zenon DEF Forget, desired, dataplane, Types, TypeOK, WalkOK,
                                   InPass, InIface, PhaseOK, Entries
<1>12. CASE Replayed
  BY <1>12, Zenon DEF Replayed, Unrecovered, Go, desired, dataplane, Types, TypeOK, WalkOK,
               InPass, InIface, PhaseOK
<1>13. CASE VppRestart
  <2>1. fib' \in [Prefixes -> Paths \cup {None}] /\ ifUp' \in [Ifaces -> BOOLEAN]
    BY <1>13, Zenon DEF VppRestart
  <2>2. ifAddr' \in [Ifaces -> SUBSET Addrs] /\ link' \in {"up", "stale", "down"}
    BY <1>13, Zenon DEF VppRestart
  <2> QED
    BY <1>13, <2>1, <2>2 DEF VppRestart, desired, pipeline, Types, TypeOK, WalkOK, Desires,
                             PhaseOK
<1> QED
  BY <1>1, <1>3, <1>4, <1>5, <1>6, <1>7, <1>8, <1>9, <1>10, <1>11, <1>12, <1>13, Zenon
     DEF BridgeNext, BridgeStep

\* A replay on a live connection, under every step of the loop.
LEMMA BridgeStepReplay ==
  ASSUME Exclusive, ForgetsAll, BridgeInv, [BridgeNext]_bridgeVars
  PROVE  ReplayOK'
<1> USE DEF BridgeInv
<1>1. CASE UNCHANGED bridgeVars
  BY <1>1 DEF bridgeVars, vars, loop, desired, dataplane, pipeline, ReplayOK, LedgerTruth,
              Holds, PassProgress, Visited, RouteExact, Usable, Resolved
<1>2. ASSUME phase' \notin {"forgotten", "replay"} PROVE ReplayOK'
  BY <1>2, Zenon DEF ReplayOK
<1>3. CASE Forget
  <2> DEFINE C == {x \in Entries : ledger[x] # None}
  <2>1. PICK V \in SUBSET C :
          /\ Bounded(V, C)
          /\ ledger' = [x \in Entries |-> IF x \in V THEN None ELSE ledger[x]]
    BY <1>3, Zenon DEF Forget
  <2>2. V = C
    BY <2>1, BoundedAll, Zenon
  <2>3. \A x \in Entries : ledger'[x] = None
    BY <2>1, <2>2, Zenon
  <2> QED
    BY <1>3, <2>3, Zenon DEF Forget, ReplayOK
<1>4. CASE Replay
  <2>1. CASE phase = "forgotten" /\ Start
    <3>1. LedgerTruth'
      BY <2>1, Zenon DEF Start, ReplayOK, LedgerTruth, Entries
    <3>2. PassProgress'
      BY <2>1, Zenon DEF Start, PassProgress, Visited, Desires, Entries, desired
    <3> QED
      BY <1>4, <2>1, <3>1, <3>2, Zenon DEF Replay, Go, ReplayOK
  <2>2. CASE phase = "replay" /\ Walk
    <3>1. link' = link /\ phase' = "replay"
      <4>1. link' = link
        BY <2>2 DEF Walk, Skip, AddRoute, WithdrawRoute, LeaveRoute, VisitIface, AddrDel,
                    IfaceUp, AddrSet, Outcome, DeleteOutcome, Succeeds, dataplane
      <4> QED
        BY <1>4, <2>2, <4>1, Zenon DEF Replay, loop
    <3>2. link = "up" => LedgerTruth'
      BY <2>2, StepLedgerTruth, Zenon DEF ReplayOK
    <3>3. ASSUME link = "up" PROVE PassProgress'
      <4>1. CASE failed'
        BY <4>1, Zenon DEF PassProgress
      <4>2. CASE ~failed'
        <5>1. ~failed
          BY <2>2, <4>2, Zenon DEF Walk, Skip, AddRoute, WithdrawRoute, LeaveRoute, VisitIface,
                            AddrDel, IfaceUp, AddrSet, Done
        <5>2. LedgerTruth /\ Visited
          BY <2>2, <3>3, <5>1, Zenon DEF ReplayOK, PassProgress, PhaseOK
        <5> QED
          BY <2>2, <4>2, <5>2, WalkVisits, Zenon DEF PassProgress
      <4> QED
        BY <4>1, <4>2, Zenon
    <3> QED
      BY <3>1, <3>2, <3>3, Zenon DEF ReplayOK
  <2> QED
    BY <1>4, <2>1, <2>2, Zenon DEF Replay
<1>5. CASE VppRestart
  BY <1>5, Zenon DEF VppRestart, pipeline, ReplayOK
<1>6. CASE \E r \in Routes : Receive(r)
  BY <1>2, <1>6, Zenon DEF Receive, Go
<1>7. CASE Program \/ Programmed \/ GiveUp \/ AlreadyConnected \/ ReconnectFails
  BY <1>2, <1>7, Zenon DEF Program, Programmed, GiveUp, AlreadyConnected, ReconnectFails,
                    Unrecovered, Go, loop
<1>8. CASE Reconnect \/ Resweep \/ Reswept \/ Replayed \/ Probe
  BY <1>2, <1>8, Zenon DEF Reconnect, Resweep, Reswept, Replayed, Probe, Unrecovered, Go, loop
<1> QED
  BY <1>1, <1>3, <1>4, <1>5, <1>6, <1>7, <1>8, Zenon DEF BridgeNext, BridgeStep

\* A recovery that reports success on a live connection has put every desired route
\* back into VPP's FIB as it resolves now, however restarts of VPP meet messages,
\* passes, sweeps and recoveries: if the ledger fits into one forget, no reply is lost
\* and no two routes share a prefix.
THEOREM RecoveryIsExact ==
  ASSUME Exclusive, ForgetsAll
  PROVE  BridgeSpec => []RecoveredExact
<1>1. BridgeInv /\ [BridgeNext]_bridgeVars => BridgeInv'
  BY BridgeStepTypes, BridgeStepReplay, Zenon DEF BridgeInv
<1>2. BridgeInv => RecoveredExact
  BY Zenon DEF BridgeInv, ReplayOK, PassProgress, Visited, Recovered, RecoveredExact, InPass
<1> QED
  BY <1>1, <1>2, BridgeInitInv, PTL DEF BridgeSpec
=============================================================================
