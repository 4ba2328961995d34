---------------------------- MODULE Programming ----------------------------
(***************************************************************************)
(* The backend programming pipeline, danos-core/src/backend/backend_ops.c: *)
(* danos_programming_run drives the dataplane from the desired objects and *)
(* records what it programmed in a private ledger;                         *)
(* danos_programming_sweep withdraws ledger entries whose object is gone.  *)
(*                                                                         *)
(* One thread runs the pipeline (the reconciler, or the FIB bridge).  A    *)
(* pass reads the desired store under its read lock, so the threads that   *)
(* change the store take their steps between passes and during a sweep.    *)
(* A backend operation can fail, without an effect or, when the reply is   *)
(* lost, with it.  Entries are visited in any order.  A FIB entry is the   *)
(* list of next hops route_add was last given.  VRFs and the object types  *)
(* the pipeline skips are left out.                                        *)
(***************************************************************************)
EXTENDS Integers, Sequences, FiniteSets, Functions

CONSTANTS Routes, Prefix,      \* route ids, and the FIB entry each one fills
          Groups, NHs,         \* ids of next-hop groups and of next hops
          MemberSeqs,          \* possible contents of a group: sequences of NHs
          Gateways,            \* possible contents of a next hop
          Ifaces, Addrs,       \* interfaces and their addresses
          Blackhole, NoGroup,  \* routes with the flag; routes with nhgroup_id 0
          None,                \* no object, no ledger entry, no address
          SweepMax,            \* SWEEP_MAX
          Sweeps,              \* does the caller sweep after a pass?
          AbsentIsError,       \* does a delete of something absent fail?
          LostReplies,         \* can a failed operation have taken effect?
          MaxMut, MaxFail, MaxRestart  \* bounds: store changes, failures, restarts

ASSUME ObjectsAssumption ==
  /\ IsFiniteSet(Routes) /\ IsFiniteSet(Ifaces) /\ Routes \cap Ifaces = {}
  /\ None \notin Routes \cup Ifaces \cup Groups \cup NHs \cup Gateways \cup Addrs
  /\ {Blackhole, NoGroup} \cap (Groups \cup {None}) = {} /\ Blackhole # NoGroup
  /\ MemberSeqs \subseteq Seq(NHs)
  /\ None \notin MemberSeqs
  /\ Prefix \in [Routes -> Range(Prefix)]
ASSUME LimitsAssumption ==
  /\ SweepMax \in Nat \ {0} /\ MaxMut \in Nat /\ MaxFail \in Nat /\ MaxRestart \in Nat
  /\ {Sweeps, AbsentIsError, LostReplies} \subseteq BOOLEAN

VARIABLES nh, grp, route, iface,  \* the desired store, None where no object is
          ledger,                 \* g_programmed
          fib, ifUp, ifAddr,      \* the dataplane
          link,                   \* the connection to it; see module Bridge
          pc, todo, at,           \* where the pipeline is; entries left; the current one
          failed,                 \* has an entry of this pass, or sweep, failed?
          muts, fails, restarts   \* what the bounds count

desired == <<nh, grp, route, iface>>
dataplane == <<fib, ifUp, ifAddr, link>>
pipeline == <<ledger, pc, todo, at, failed>>
vars == <<desired, dataplane, pipeline, muts, fails, restarts>>

Prefixes == Range(Prefix)
RouteObjs == Groups \cup {Blackhole, NoGroup}
IfaceObjs == [up : BOOLEAN, addr : Addrs \cup {None}]
Entries == Routes \cup Ifaces
Paths == {<<>>} \cup UNION {[DOMAIN ms -> Gateways] : ms \in MemberSeqs}
Digests == [members : MemberSeqs,
            xor     : SUBSET ((NHs \cup {None}) \X (Gateways \cup {None}))]
LedgerRecords == [obj : RouteObjs \cup IfaceObjs, dep : Digests \cup {None}]

\* "Nothing there" is told apart from everything that can be there.
ASSUME NoneAssumption == None \notin Paths \cup IfaceObjs \cup Digests \cup LedgerRecords

\* The state's types; an entry is looked at only while it is desired, so the
\* pipeline never dereferences an object that has gone.
TypeOK ==
  /\ nh \in [NHs -> Gateways \cup {None}]
  /\ grp \in [Groups -> MemberSeqs \cup {None}]
  /\ route \in [Routes -> RouteObjs \cup {None}]
  /\ iface \in [Ifaces -> IfaceObjs \cup {None}]
  /\ ledger \in [Entries -> LedgerRecords \cup {None}]
  /\ \A r \in Routes : ledger[r] # None => ledger[r].obj \in RouteObjs
  /\ \A i \in Ifaces : ledger[i] # None => ledger[i].obj \in IfaceObjs
  /\ fib \in [Prefixes -> Paths \cup {None}]
  /\ ifUp \in [Ifaces -> BOOLEAN]
  /\ ifAddr \in [Ifaces -> SUBSET Addrs]
  /\ link \in {"up", "stale", "down"}
  /\ pc \in {"idle", "run", "addr_del", "iface_up", "addr_set", "collect", "sweep"}
  /\ todo \subseteq Entries
  /\ at \in Ifaces \cup {None}
  /\ at # None => iface[at] # None
  /\ failed \in BOOLEAN
  /\ muts \in 0..MaxMut /\ fails \in 0..MaxFail /\ restarts \in 0..MaxRestart

Init ==
  /\ nh = [n \in NHs |-> None]
  /\ grp = [g \in Groups |-> None]
  /\ route = [r \in Routes |-> None]
  /\ iface = [i \in Ifaces |-> None]
  /\ ledger = [x \in Entries |-> None]
  /\ fib = [p \in Prefixes |-> None]
  /\ ifUp = [i \in Ifaces |-> FALSE]
  /\ ifAddr = [i \in Ifaces |-> {}]
  /\ link = "up"
  /\ pc = "idle" /\ todo = {} /\ at = None /\ failed = FALSE
  /\ muts = 0 /\ fails = 0 /\ restarts = 0

-----------------------------------------------------------------------------
(* Next-hop resolution. *)

\* danos_object_read of a member, hashed: its bytes hold its id; a member that
\* is gone hashes to one constant.
MemberHash(n) == IF nh[n] = None THEN <<None, None>> ELSE <<n, nh[n]>>

\* XOR keeps a hash that occurs an odd number of times.
XorOf(hashes) ==
  {h \in Range(hashes) : Cardinality({k \in DOMAIN hashes : hashes[k] = h}) % 2 = 1}

\* Mutant: only the group's own bytes enter the digest.
DepDigestOfGroup(obj) ==
  IF obj \notin Groups \/ grp[obj] = None THEN None
  ELSE [members |-> grp[obj], xor |-> {}]

\* What a route's programmed state depends on besides the route itself.
DepDigest(obj) ==
  IF obj \notin Groups \/ grp[obj] = None THEN None
  ELSE [members |-> grp[obj],
        xor     |-> XorOf([k \in DOMAIN grp[obj] |-> MemberHash(grp[obj][k])])]

\* Mutant: only the first member of the group has to exist.
UsableFirst(obj) ==
  \/ obj = Blackhole
  \/ /\ obj \in Groups
     /\ grp[obj] \notin {None, <<>>}
     /\ nh[grp[obj][1]] # None

\* Does resolve_route_nh return DANOS_OK, rather than DANOS_ERR_RETRY?
Usable(obj) ==
  \/ obj = Blackhole
  \/ /\ obj \in Groups
     /\ grp[obj] \notin {None, <<>>}
     /\ \A k \in DOMAIN grp[obj] : nh[grp[obj][k]] # None

\* The next hops it returns; none for a blackhole.
Resolved(obj) ==
  IF obj = Blackhole THEN <<>> ELSE [k \in DOMAIN grp[obj] |-> nh[grp[obj][k]]]

Desires(x) == IF x \in Routes THEN route[x] ELSE iface[x]

\* The ledger record that program_entry would write now, and its first test.
Record(x) ==
  [obj |-> Desires(x), dep |-> IF x \in Routes THEN DepDigest(route[x]) ELSE None]
InSync(x) == Desires(x) # None /\ ledger[x] = Record(x)

-----------------------------------------------------------------------------
(* The threads that change the desired store: object create, update and    *)
(* delete, which wait while a pass holds the store's read lock.            *)

Mutation ==
  /\ pc \in {"idle", "collect", "sweep"}
  /\ muts < MaxMut
  /\ muts' = muts + 1
  /\ UNCHANGED <<dataplane, pipeline, fails, restarts>>

SetNh(n) ==
  /\ Mutation
  /\ \E c \in (Gateways \cup {None}) \ {nh[n]} : nh' = [nh EXCEPT ![n] = c]
  /\ UNCHANGED <<grp, route, iface>>

SetGroup(g) ==
  /\ Mutation
  /\ \E c \in (MemberSeqs \cup {None}) \ {grp[g]} : grp' = [grp EXCEPT ![g] = c]
  /\ UNCHANGED <<nh, route, iface>>

SetRoute(r) ==
  /\ Mutation
  /\ \E c \in (RouteObjs \cup {None}) \ {route[r]} : route' = [route EXCEPT ![r] = c]
  /\ UNCHANGED <<nh, grp, iface>>

SetIface(i) ==
  /\ Mutation
  /\ \E c \in (IfaceObjs \cup {None}) \ {iface[i]} : iface' = [iface EXCEPT ![i] = c]
  /\ UNCHANGED <<nh, grp, route>>

-----------------------------------------------------------------------------
(* Backend operations: does the call return DANOS_OK, is it applied?       *)

Succeeds(ok, applied) == ok /\ applied /\ UNCHANGED <<fails, link>>

Outcome(ok, applied) ==
  \/ link = "up" /\ Succeeds(ok, applied)
  \/ /\ link = "up" /\ ~ok
     /\ fails < MaxFail /\ fails' = fails + 1 /\ UNCHANGED link
     /\ applied => LostReplies
  \/ link # "up" /\ ~ok /\ ~applied /\ UNCHANGED <<fails, link>>

\* A delete of something absent is an error or succeeds, by backend.
DeleteOutcome(absent, ok, applied) ==
  IF absent /\ AbsentIsError
  THEN ~ok /\ ~applied /\ UNCHANGED <<fails, link>>
  ELSE Outcome(ok, applied)

RouteOp(p, path, applied) == fib' = IF applied THEN [fib EXCEPT ![p] = path] ELSE fib

-----------------------------------------------------------------------------
(* danos_programming_run: program_entry for every desired object.          *)

Start ==
  /\ pc = "idle"
  /\ pc' = "run"
  /\ todo' = {x \in Entries : Desires(x) # None}
  /\ failed' = FALSE
  /\ UNCHANGED <<desired, dataplane, ledger, at, muts, fails, restarts>>

\* The entry x of the walk is dealt with; ok says whether c->failed was spared.
Done(x, ok) ==
  /\ pc' = "run" /\ at' = None
  /\ todo' = todo \ {x}
  /\ failed' = (failed \/ ~ok)

Skip(x) ==
  /\ pc = "run" /\ x \in todo
  /\ InSync(x)
  /\ Done(x, TRUE)
  /\ UNCHANGED <<desired, dataplane, ledger, muts, fails, restarts>>

\* Mutant: the ledger is written before the result of route_add is known.
AddRouteEarly(r) ==
  /\ pc = "run" /\ r \in todo
  /\ ~InSync(r) /\ Usable(route[r])
  /\ \E ok, applied \in BOOLEAN :
       /\ Outcome(ok, applied)
       /\ RouteOp(Prefix[r], Resolved(route[r]), applied)
       /\ ledger' = [ledger EXCEPT ![r] = Record(r)]
       /\ Done(r, ok)
  /\ UNCHANGED <<desired, ifUp, ifAddr, muts, restarts>>

AddRoute(r) ==
  /\ pc = "run" /\ r \in todo
  /\ ~InSync(r) /\ Usable(route[r])
  /\ \E ok, applied \in BOOLEAN :
       /\ Outcome(ok, applied)
       /\ RouteOp(Prefix[r], Resolved(route[r]), applied)
       /\ ledger' = IF ok THEN [ledger EXCEPT ![r] = Record(r)] ELSE ledger
       /\ Done(r, ok)
  /\ UNCHANGED <<desired, ifUp, ifAddr, muts, restarts>>

\* Mutant: a route whose next hop became unusable is left as it is programmed.
WithdrawNothing(r) ==
  /\ pc = "run" /\ r \in todo
  /\ ~InSync(r) /\ ~Usable(route[r]) /\ ledger[r] # None
  /\ ledger' = [ledger EXCEPT ![r] = None]
  /\ Done(r, TRUE)
  /\ UNCHANGED <<desired, dataplane, muts, fails, restarts>>

\* DANOS_ERR_RETRY for a route that is programmed: withdraw it.
WithdrawRoute(r) ==
  /\ pc = "run" /\ r \in todo
  /\ ~InSync(r) /\ ~Usable(route[r]) /\ ledger[r] # None
  /\ \E ok, applied \in BOOLEAN :
       /\ DeleteOutcome(fib[Prefix[r]] = None, ok, applied)
       /\ RouteOp(Prefix[r], None, applied)
       /\ ledger' = IF ok THEN [ledger EXCEPT ![r] = None] ELSE ledger
       /\ Done(r, ok)
  /\ UNCHANGED <<desired, ifUp, ifAddr, muts, restarts>>

\* ... and for one that is not: nothing to do but to count the failure.
LeaveRoute(r) ==
  /\ pc = "run" /\ r \in todo
  /\ ~InSync(r) /\ ~Usable(route[r]) /\ ledger[r] = None
  /\ Done(r, FALSE)
  /\ UNCHANGED <<desired, dataplane, ledger, muts, fails, restarts>>

\* Mutant: the old address is not looked at.
VisitIfaceNoDel(i) ==
  /\ pc = "run" /\ i \in todo
  /\ ~InSync(i)
  /\ at' = i
  /\ pc' = "iface_up"
  /\ UNCHANGED <<desired, dataplane, ledger, todo, failed, muts, fails, restarts>>

\* An interface takes up to three operations; the old address goes first.
VisitIface(i) ==
  /\ pc = "run" /\ i \in todo
  /\ ~InSync(i)
  /\ at' = i
  /\ pc' = IF ledger[i] # None /\ ledger[i].obj.addr # iface[i].addr
           THEN "addr_del" ELSE "iface_up"
  /\ UNCHANGED <<desired, dataplane, ledger, todo, failed, muts, fails, restarts>>

AddrDel ==
  LET old == ledger[at].obj.addr IN
  /\ pc = "addr_del"
  /\ \E ok, applied \in BOOLEAN :
       /\ IF old = None THEN Succeeds(ok, applied)
          ELSE DeleteOutcome(old \notin ifAddr[at], ok, applied)
       /\ ifAddr' = IF applied THEN [ifAddr EXCEPT ![at] = @ \ {old}] ELSE ifAddr
       /\ IF ok THEN pc' = "iface_up" /\ UNCHANGED <<todo, at, failed>>
          ELSE Done(at, FALSE)
  /\ UNCHANGED <<desired, fib, ifUp, ledger, muts, restarts>>

\* Mutant: the interface is brought up whatever its admin state.
IfaceUpAlways ==
  /\ pc = "iface_up"
  /\ \E ok, applied \in BOOLEAN :
       /\ Outcome(ok, applied)
       /\ ifUp' = IF applied THEN [ifUp EXCEPT ![at] = TRUE] ELSE ifUp
       /\ IF ok THEN pc' = "addr_set" /\ UNCHANGED <<todo, at, failed>>
          ELSE Done(at, FALSE)
  /\ UNCHANGED <<desired, fib, ifAddr, ledger, muts, restarts>>

IfaceUp ==
  /\ pc = "iface_up"
  /\ \E ok, applied \in BOOLEAN :
       /\ Outcome(ok, applied)
       /\ ifUp' = IF applied THEN [ifUp EXCEPT ![at] = iface[at].up] ELSE ifUp
       /\ IF ok THEN pc' = "addr_set" /\ UNCHANGED <<todo, at, failed>>
          ELSE Done(at, FALSE)
  /\ UNCHANGED <<desired, fib, ifAddr, ledger, muts, restarts>>

\* The address is set if there is one; then the interface enters the ledger.
AddrSet ==
  LET new == iface[at].addr IN
  /\ pc = "addr_set"
  /\ \E ok, applied \in BOOLEAN :
       /\ IF new = None THEN Succeeds(ok, applied) ELSE Outcome(ok, applied)
       /\ ifAddr' = IF applied THEN [ifAddr EXCEPT ![at] = @ \cup ({new} \ {None})]
                    ELSE ifAddr
       /\ ledger' = IF ok THEN [ledger EXCEPT ![at] = Record(at)] ELSE ledger
       /\ Done(at, ok)
  /\ UNCHANGED <<desired, fib, ifUp, muts, restarts>>

\* The pass ends; mgrd's reconciler goes back to sleep, the bridge sweeps.
Finish ==
  /\ pc = "run" /\ todo = {}
  /\ pc' = IF Sweeps THEN "collect" ELSE "idle"
  /\ UNCHANGED <<desired, dataplane, ledger, todo, at, failed, muts, fails, restarts>>

-----------------------------------------------------------------------------
(* danos_programming_sweep *)

Tombstones == {x \in Entries : ledger[x] # None /\ Desires(x) = None}

\* sweep_collect stops at SWEEP_MAX candidates.
Bounded(victims, candidates) ==
  /\ victims \subseteq candidates
  /\ Cardinality(victims) =
       IF Cardinality(candidates) < SweepMax THEN Cardinality(candidates) ELSE SweepMax

Collect ==
  /\ pc = "collect"
  /\ \E victims \in SUBSET Tombstones : Bounded(victims, Tombstones) /\ todo' = victims
  /\ pc' = "sweep"
  /\ UNCHANGED <<desired, dataplane, ledger, at, failed, muts, fails, restarts>>

Swept(x, ok) ==
  /\ todo' = todo \ {x}
  /\ ledger' = IF ok THEN [ledger EXCEPT ![x] = None] ELSE ledger
  /\ failed' = (failed \/ ~ok)
  /\ UNCHANGED <<pc, at>>

\* Mutant: the ledger entry is dropped even if route_del failed.
SweepRouteForgets(r) ==
  /\ pc = "sweep" /\ r \in todo
  /\ \E ok, applied \in BOOLEAN :
       /\ DeleteOutcome(fib[Prefix[r]] = None, ok, applied)
       /\ RouteOp(Prefix[r], None, applied)
       /\ Swept(r, TRUE)
  /\ UNCHANGED <<desired, ifUp, ifAddr, muts, restarts>>

SweepRoute(r) ==
  /\ pc = "sweep" /\ r \in todo
  /\ \E ok, applied \in BOOLEAN :
       /\ DeleteOutcome(fib[Prefix[r]] = None, ok, applied)
       /\ RouteOp(Prefix[r], None, applied)
       /\ Swept(r, ok)
  /\ UNCHANGED <<desired, ifUp, ifAddr, muts, restarts>>

\* An interface is taken down, its address stays, the result is not looked at.
SweepIface(i) ==
  /\ pc = "sweep" /\ i \in todo
  /\ \E ok, applied \in BOOLEAN :
       /\ Outcome(ok, applied)
       /\ ifUp' = IF applied THEN [ifUp EXCEPT ![i] = FALSE] ELSE ifUp
  /\ Swept(i, TRUE)
  /\ UNCHANGED <<desired, fib, ifAddr, muts, restarts>>

SweepEnd ==
  /\ pc = "sweep" /\ todo = {}
  /\ pc' = "idle"
  /\ UNCHANGED <<desired, dataplane, ledger, todo, at, failed, muts, fails, restarts>>

\* The daemon restarts: the ledger lives in memory; the desired objects are
\* taken to be restored and the dataplane to have kept forwarding.
Restart ==
  /\ restarts < MaxRestart
  /\ restarts' = restarts + 1
  /\ ledger' = [x \in Entries |-> None]
  /\ pc' = "idle" /\ todo' = {} /\ at' = None /\ failed' = FALSE
  /\ UNCHANGED <<desired, dataplane, muts, fails>>

Mutate ==
  \/ \E n \in NHs : SetNh(n)
  \/ \E g \in Groups : SetGroup(g)
  \/ \E r \in Routes : SetRoute(r)
  \/ \E i \in Ifaces : SetIface(i)

\* One call of program_entry, or one operation of it.
Walk ==
  \/ \E x \in Entries : Skip(x)
  \/ \E r \in Routes : AddRoute(r) \/ WithdrawRoute(r) \/ LeaveRoute(r)
  \/ \E i \in Ifaces : VisitIface(i)
  \/ AddrDel \/ IfaceUp \/ AddrSet

Pass == Start \/ Walk \/ Finish

Sweep ==
  \/ Collect \/ SweepEnd
  \/ \E r \in Routes : SweepRoute(r)
  \/ \E i \in Ifaces : SweepIface(i)

Next == Mutate \/ Pass \/ Sweep \/ Restart

Spec == Init /\ [][Next]_vars

\* The pipeline's thread keeps running; the bounds say that the store stops
\* changing and that failures stop.  Nobody has to change the store or crash.
FairSpec == Spec /\ WF_vars(Pass \/ Sweep)

-----------------------------------------------------------------------------
\* What the dataplane should hold for a route and for an interface.
RouteExact(r) ==
  fib[Prefix[r]] = IF route[r] # None /\ Usable(route[r]) THEN Resolved(route[r]) ELSE None
IfaceExact(i) ==
  /\ ifUp[i] = iface[i].up
  /\ iface[i].addr # None => iface[i].addr \in ifAddr[i]

\* program_entry skips a route whose ledger record equals its object and whose
\* dependency digest is unchanged: then the FIB really forwards over the next
\* hops the route resolves to now, whatever was edited, deleted or failed since.
RouteTruth == \A r \in Routes : InSync(r) => RouteExact(r)

\* A pass that reports no failure has made the FIB match every desired route,
\* and has withdrawn those without a usable path: a bare failed == 0 is what the
\* bridge takes as "recovered".
PassComplete ==
  pc = "run" /\ todo = {} /\ ~failed
    => \A r \in Routes : route[r] # None => RouteExact(r)

\* Whatever the pipeline put into the FIB it remembers in the ledger, so that a
\* sweep can find and withdraw it; no failure on the way loses an entry.  (A restart
\* of the daemon forgets the ledger.)
NoOrphan ==
  restarts = 0 =>
    \A p \in Prefixes : fib[p] # None => \E r \in Routes : Prefix[r] = p /\ ledger[r] # None

AddressTakenOver ==
  \A i \in Ifaces :
    ledger[i] # None /\ ledger'[i] # None /\ ledger[i].obj.addr # ledger'[i].obj.addr
      => ledger[i].obj.addr \notin ifAddr'[i]

\* When the ledger takes over an interface's new address, the one it held before is
\* no longer on the interface, whatever was changed in between.  (A sweep forgets the
\* address of a deleted interface without taking it away.)
OldAddressGone == [][AddressTakenOver]_vars

\* Once the store stops changing and the backend stops failing, the FIB becomes
\* and stays exactly what the desired routes resolve to: stale and deleted routes
\* are withdrawn, failed ones retried.  A restart of the daemon, which forgets the
\* ledger, may leave entries that nobody knows of; but every desired route with a
\* usable path is programmed again.
RoutesConverge ==
  /\ <>[](\A r \in Routes : route[r] # None /\ Usable(route[r]) => RouteExact(r))
  /\ [](restarts = 0) => <>[](\A r \in Routes : RouteExact(r))

\* Likewise every desired interface gets its admin state and address; in particular,
\* one that is taken for in sync has them.
IfacesConverge == <>[](\A i \in Ifaces : iface[i] # None => IfaceExact(i))
=============================================================================
